-------------------------- MODULE InfoLoaderProofs --------------------------
(***************************************************************************)
(* The safety of the information loader for any set of packages and any    *)
(* number of refreshes.  None of the properties is inductive by itself:    *)
(* a fresh text depends on the cache holding only this generation's, and   *)
(* "Loading" on what the cache lacks being requested.                      *)
(***************************************************************************)
EXTENDS InfoLoader, TLAPS

(* The cache holds, for each package, this generation's text or none.      *)
CacheIsCurrent == \A k \in Names : cache[k] # NoText => cache[k] = Wanted(generation, k)

(* An idle loader has nothing pending.                                     *)
IdleIsSettled == active = NoRequest => pending = NoRequest

(* The pane follows the selection: nothing selected shows nothing, a       *)
(* cached package shows its text, any other is being fetched.              *)
PaneFollows ==
  /\ current = NoName => text = Blank
  /\ ~stopped /\ current # NoName =>
       IF cache[current] # NoText
       THEN text = cache[current]
       ELSE text = Loading /\ Wanted(generation, current) \in {active, pending}

IInv ==
  /\ TypeOK /\ OneCommand /\ CacheIsCurrent /\ IdleIsSettled /\ NeverStale /\ PaneFollows

USE NamesAssumption, RequestAssumption, TextAssumption, GenerationAssumption

(* A request is an identity.                                               *)
LEMMA WantedType == \A g \in Nat, k \in Names : Wanted(g, k) \in Identity
BY DEF Wanted, Identity

(* Identities are told apart by their fields.                              *)
LEMMA IdentityFields ==
  \A r \in Identity :
    r.generation \in Nat /\ r.key \in Names /\ r = Wanted(r.generation, r.key)
BY DEF Wanted, Identity

LEMMA InitEstablishes == Init => IInv
<1> SUFFICES ASSUME Init PROVE IInv
  OBVIOUS
<1>1. /\ cache \in [Names -> Identity \cup {NoText}]
      /\ \A k \in Names : cache[k] = NoText
  BY DEF Init, EmptyCache
<1>2. TypeOK
  BY <1>1 DEF Init, TypeOK
<1>3. OneCommand /\ CacheIsCurrent /\ IdleIsSettled /\ NeverStale /\ PaneFollows
  BY <1>1 DEF Init, OneCommand, CacheIsCurrent, IdleIsSettled, NeverStale, PaneFollows
<1> QED BY <1>2, <1>3 DEF IInv

(* selectLocked, in the loader's own generation and cache or in the fresh  *)
(* ones of Refresh, establishes the invariant for the new selection.       *)
LEMMA TargetPreserves ==
  ASSUME IInv, ~stopped, NEW k \in Names,
         generation' \in Nat, UNCHANGED stopped,
         cache' \in [Names -> Identity \cup {NoText}],
         CacheIsCurrent',
         NEW p, p \in Identity \cup {NoRequest}, active = NoRequest => p = NoRequest,
         Target(k, generation', cache', p)
  PROVE  IInv'
<1>1. current' = k /\ k # NoName
  BY DEF Target
<1>2. CASE ShowCached(k, cache')
  <2>1. /\ text' = cache'[k] /\ pending' = NoRequest
        /\ active' = active /\ running' = running /\ cache'[k] # NoText
    BY <1>2 DEF ShowCached
  <2>2. text' = Wanted(generation', k) /\ text' \in Identity
    BY <2>1, WantedType DEF CacheIsCurrent, Wanted
  <2>3. TypeOK'
    BY <1>1, <2>1, <2>2 DEF IInv, TypeOK
  <2>4. OneCommand' /\ IdleIsSettled'
    BY <2>1 DEF IInv, OneCommand, IdleIsSettled
  <2>5. NeverStale' /\ PaneFollows'
    BY <1>1, <2>1, <2>2 DEF NeverStale, PaneFollows, Wanted
  <2> QED BY <2>3, <2>4, <2>5 DEF IInv
<1>3. CASE Fetch(k, generation', cache', p)
  <2> DEFINE w == Wanted(generation', k)
  <2>1. w \in Identity /\ w # NoRequest
    BY WantedType
  <2>2. text' = Loading /\ cache'[k] = NoText
    BY <1>3 DEF Fetch
  <2>3. \/ active' = w /\ running' = {w} /\ pending' = NoRequest
        \/ /\ active # NoRequest /\ active' = active /\ running' = running
           /\ pending' \in {NoRequest, w} /\ w \in {active', pending'}
    BY <1>3, <2>1 DEF Fetch, Start, IInv, OneCommand
  <2>4. TypeOK'
    BY <1>1, <2>1, <2>2, <2>3 DEF IInv, TypeOK
  <2>5. OneCommand' /\ IdleIsSettled'
    BY <2>1, <2>3 DEF IInv, OneCommand, IdleIsSettled
  <2>6. NeverStale' /\ PaneFollows'
    BY <1>1, <2>2, <2>3 DEF NeverStale, PaneFollows, Wanted
  <2> QED BY <2>4, <2>5, <2>6 DEF IInv
<1> QED BY <1>2, <1>3 DEF Target

(* Complete keeps it: the result is filed before the pending target is     *)
(* looked at.                                                              *)
LEMMA CompletePreserves ==
  ASSUME IInv, NEW request \in running, Complete(request)
  PROVE  IInv'
<1>1. /\ request \in Identity /\ request = active /\ running = {request}
      /\ generation' = generation /\ current' = current /\ stopped' = stopped
      /\ cache' = Filed(request) /\ pending' = NoRequest
  BY DEF Complete, IInv, TypeOK, OneCommand
<1>2. request = Wanted(request.generation, request.key) /\ request.key \in Names
  BY <1>1, IdentityFields
<1>3. cache' \in [Names -> Identity \cup {NoText}] /\ CacheIsCurrent'
  BY <1>1, <1>2 DEF Filed, Accepts, IInv, TypeOK, CacheIsCurrent, Wanted
<1>4. \/ StartsPending(cache') /\ active' = pending /\ running' = {pending}
         /\ pending \in Identity
      \/ ~StartsPending(cache') /\ active' = NoRequest /\ running' = {}
  BY <1>1 DEF Complete, Start, StartsPending, IInv, TypeOK
<1>5. OneCommand' /\ IdleIsSettled'
  BY <1>1, <1>4 DEF OneCommand, IdleIsSettled
<1>6. text' = text \/ (~stopped /\ current # NoName /\ text' = cache'[current] /\ cache'[current] # NoText)
  <2>1. Shown(request) = text \/
        (Accepts(request) /\ current = request.key /\ Shown(request) = request)
    BY DEF Shown
  <2>2. Accepts(request) => cache'[request.key] = request /\ request # NoText /\ ~stopped
    BY <1>1, <1>2 DEF Filed, Accepts, IInv, TypeOK
  <2>3. pending # NoRequest => pending.key \in Names
    BY IdentityFields DEF IInv, TypeOK
  <2>4. text' = Shown(request) \/
        (/\ ~stopped /\ pending # NoRequest /\ cache'[pending.key] # NoText
         /\ current = pending.key /\ text' = cache'[pending.key])
    BY <1>1 DEF Complete
  <2> QED BY <1>2, <2>1, <2>2, <2>3, <2>4
<1>7. TypeOK'
  BY <1>1, <1>3, <1>4, <1>6 DEF IInv, TypeOK
<1>8. NeverStale'
  BY <1>1, <1>3, <1>6 DEF IInv, NeverStale, CacheIsCurrent, TypeOK, Wanted
<1>9. PaneFollows'
  <2>1. current = NoName => text' = Blank
    BY <1>6 DEF IInv, PaneFollows
  <2>2. ASSUME ~stopped, current # NoName
        PROVE  IF cache'[current] # NoText
               THEN text' = cache'[current]
               ELSE text' = Loading /\ Wanted(generation, current) \in {active', pending'}
    <3>1. current \in Names
      BY <2>2 DEF IInv, TypeOK
    <3>2. CASE cache'[current] # NoText
      <4>1. CASE cache[current] = NoText
        <5>1. Accepts(request) /\ current = request.key /\ cache'[current] = request
          BY <1>1, <3>1, <3>2, <4>1 DEF Filed, IInv, TypeOK
        <5>2. Shown(request) = request
          BY <5>1 DEF Shown
        <5> QED BY <1>1, <5>1, <5>2 DEF Complete
      <4>2. CASE cache[current] # NoText
        <5>1. cache'[current] = cache[current]
          BY <1>3, <1>1, <3>1, <3>2, <4>2 DEF IInv, CacheIsCurrent, Wanted
        <5>2. text = cache[current]
          BY <2>2, <4>2 DEF IInv, PaneFollows
        <5> QED BY <1>6, <3>2, <5>1, <5>2
      <4> QED BY <4>1, <4>2
    <3>3. CASE cache'[current] = NoText
      <4>1. cache[current] = NoText /\ ~(Accepts(request) /\ current = request.key)
        BY <1>1, <1>2, <3>1, <3>3 DEF Filed, IInv, TypeOK
      <4>2. text = Loading /\ Wanted(generation, current) \in {active, pending}
        BY <2>2, <4>1 DEF IInv, PaneFollows
      <4>3. Wanted(generation, current) # active
        BY <1>1, <1>2, <2>2, <4>1 DEF Accepts, Wanted
      <4>4. pending = Wanted(generation, current)
        BY <4>2, <4>3
      <4>5. StartsPending(cache')
        BY <2>2, <3>1, <3>3, <4>4, WantedType DEF StartsPending, Wanted, IInv, TypeOK
      <4> QED BY <1>4, <1>6, <3>3, <4>2, <4>4, <4>5
    <3> QED BY <3>2, <3>3
  <2> QED BY <1>1, <2>1, <2>2 DEF PaneFollows
<1> QED BY <1>3, <1>5, <1>7, <1>8, <1>9 DEF IInv

LEMMA NextPreserves == IInv /\ [Next]_vars => IInv'
<1> SUFFICES ASSUME IInv, [Next]_vars PROVE IInv'
  OBVIOUS
<1>1. ASSUME NEW k \in Names, Select(k) PROVE IInv'
  BY <1>1, TargetPreserves
     DEF Select, IInv, TypeOK, CacheIsCurrent, IdleIsSettled
<1>2. CASE SelectNothing
  BY <1>2 DEF SelectNothing, IInv, TypeOK, OneCommand, CacheIsCurrent, IdleIsSettled,
              NeverStale, PaneFollows
<1>3. ASSUME NEW k \in Names \cup {NoName}, Refresh(k) PROVE IInv'
  <2>1. /\ generation' \in Nat /\ cache' \in [Names -> Identity \cup {NoText}]
        /\ UNCHANGED stopped /\ CacheIsCurrent'
    BY <1>3 DEF Refresh, IInv, TypeOK, CacheIsCurrent, EmptyCache
  <2>2. CASE k = NoName \/ stopped
    BY <1>3, <2>1, <2>2 DEF Refresh, IInv, TypeOK, OneCommand, CacheIsCurrent, IdleIsSettled,
                        NeverStale, PaneFollows
  <2>3. CASE k # NoName /\ ~stopped
    <3>1. Target(k, generation', cache', NoRequest)
      BY <1>3, <2>3 DEF Refresh
    <3> QED BY <2>1, <2>3, <3>1, TargetPreserves
  <2> QED BY <2>2, <2>3
<1>4. CASE CompleteAny
  BY <1>4, CompletePreserves DEF CompleteAny
<1>5. CASE Cancel
  BY <1>5 DEF Cancel, IInv, TypeOK, OneCommand, CacheIsCurrent, IdleIsSettled, NeverStale,
              PaneFollows
<1>6. CASE UNCHANGED vars
  BY <1>6 DEF vars, IInv, TypeOK, OneCommand, CacheIsCurrent, IdleIsSettled, NeverStale,
              PaneFollows
<1> QED BY <1>1, <1>2, <1>3, <1>4, <1>5, <1>6 DEF Next

(* The inductive invariant holds in every reachable state of the loader.   *)
THEOREM LoaderInvariant == Spec => []IInv
BY InitEstablishes, NextPreserves, PTL DEF Spec

(* The fields of the Loader hold what their declarations allow.            *)
THEOREM LoaderTypeCorrect == Spec => []TypeOK
<1>1. IInv => TypeOK
  BY DEF IInv
<1> QED BY <1>1, LoaderInvariant, PTL

(* Rapid navigation never runs two `brew info` at once, nor one the loader *)
(* has lost track of (Select, Complete and Refresh of loader.go).          *)
THEOREM AtMostOneCommand == Spec => []OneCommand
<1>1. IInv => OneCommand
  BY DEF IInv
<1> QED BY <1>1, LoaderInvariant, PTL

(* No text read for another package, or before the last refresh, is ever   *)
(* on screen (the generation check of Complete).                           *)
THEOREM TextNeverStale == Spec => []NeverStale
<1>1. IInv => NeverStale
  BY DEF IInv
<1> QED BY <1>1, LoaderInvariant, PTL

(* While "Loading" is shown the request it stands for runs or is the next  *)
(* one to run: no interleaving of selections, refreshes and results leaves *)
(* the pane waiting for nothing.                                           *)
THEOREM LoadingAlwaysRequested == Spec => []LoadingIsLoading
<1>1. IInv => LoadingIsLoading
  BY DEF IInv, TypeOK, PaneFollows, LoadingIsLoading
<1> QED BY <1>1, LoaderInvariant, PTL

----------------------------------------------------------------------------
(* The loader keeps its contract.                                          *)
USE DEF Contract!contractVars

(* A selection starts a command only when none runs.                       *)
LEMMA TargetStartsOne ==
  ASSUME OneCommand, NEW k, NEW g, NEW c, NEW p, Target(k, g, c, p)
  PROVE  running' = running \/ (running = {} /\ running' # {})
<1>1. CASE ShowCached(k, c)
  BY <1>1 DEF ShowCached
<1>2. CASE Fetch(k, g, c, p)
  BY <1>2 DEF Fetch, Start, OneCommand
<1> QED BY <1>1, <1>2 DEF Target

LEMMA NextKeepsContract ==
  ASSUME IInv, [Next]_vars PROVE [Contract!Next]_(Contract!contractVars)
<1> DEFINE Starts == ~stopped /\ (running' = running \/ (running = {} /\ running' # {}))
<1>1. ASSUME Starts, UNCHANGED stopped PROVE [Contract!Next]_(Contract!contractVars)
  BY <1>1 DEF Contract!Next, Contract!Start
<1> HIDE DEF Starts
<1>2. ASSUME NEW k \in Names, Select(k) PROVE Starts /\ UNCHANGED stopped
  BY <1>2, TargetStartsOne DEF Select, IInv, Starts
<1>3. ASSUME NEW k \in Names \cup {NoName}, Refresh(k)
      PROVE  [Contract!Next]_(Contract!contractVars)
  <2>1. CASE k = NoName \/ stopped
    BY <1>3, <2>1 DEF Refresh
  <2>2. CASE ~(k = NoName \/ stopped)
    BY <1>1, <1>3, <2>2, TargetStartsOne DEF Refresh, IInv, Starts
  <2> QED BY <2>1, <2>2
<1>4. ASSUME NEW r, Complete(r) PROVE Contract!Answer
  <2>1. running = {r} /\ UNCHANGED stopped
    BY <1>4 DEF Complete, IInv, OneCommand
  <2>2. stopped => running' = {}
    BY <1>4, <2>1 DEF Complete, StartsPending
  <2> QED BY <2>1, <2>2 DEF Contract!Answer
<1>5. Cancel => Contract!Stop
  BY DEF Cancel, Contract!Stop
<1>6. SelectNothing \/ UNCHANGED vars => UNCHANGED <<running, stopped>>
  BY DEF SelectNothing, vars
<1> QED BY <1>1, <1>2, <1>3, <1>4, <1>5, <1>6 DEF Next, CompleteAny, Contract!Next

(* Every run of the loader is one its users may rely on: one command at a  *)
(* time, and none that starts after Cancel (startLocked's callers).        *)
THEOREM LoaderKeepsContract == Spec => ImplementsContract
<1>1. Init => Contract!Init
  BY DEF Init, Contract!Init
<1>2. IInv /\ [Next]_vars => [Contract!Next]_(Contract!contractVars)
  BY NextKeepsContract
<1> QED BY <1>1, <1>2, LoaderInvariant, PTL DEF Spec, ImplementsContract, Contract!Spec
=============================================================================
