----------------------------- MODULE InfoLoader -----------------------------
(***************************************************************************)
(* internal/info/loader.go: the package-information loader.  At most one   *)
(* `brew info` command runs; a selection made meanwhile is retained as the *)
(* one pending target; Refresh starts a generation in which nothing read   *)
(* before may be shown.                                                    *)
(*                                                                         *)
(* A text is identified by the request that read it; an error is shown and *)
(* cached exactly like one.                                                *)
(***************************************************************************)
EXTENDS Naturals, FiniteSets

CONSTANTS
  Names,          \* the kind and name of a package
  NoName,         \* the nil key
  Blank, Loading, \* the empty text and LoadingText
  NoText,         \* no entry in the cache
  NoRequest,      \* the nil request and target
  MaxGeneration   \* bound: refreshes in one session

Identity == [generation: Nat, key: Names]

ASSUME NamesAssumption == NoName \notin Names
ASSUME RequestAssumption == NoRequest \notin Identity
ASSUME TextAssumption ==
  /\ Blank \notin Identity /\ Loading \notin Identity /\ NoText \notin Identity
  /\ Blank # Loading
ASSUME GenerationAssumption == MaxGeneration \in Nat

VARIABLES generation, cache, current, text, active, pending, stopped,
          running  \* commands whose result Update has not handled yet

vars == <<generation, cache, current, text, active, pending, stopped, running>>

EmptyCache == [k \in Names |-> NoText]
Wanted(g, k) == [generation |-> g, key |-> k]

(* Every variable holds what the Loader's fields can hold.                 *)
TypeOK ==
  /\ generation \in Nat
  /\ cache \in [Names -> Identity \cup {NoText}]
  /\ current \in Names \cup {NoName}
  /\ text \in Identity \cup {Blank, Loading}
  /\ active \in Identity \cup {NoRequest}
  /\ pending \in Identity \cup {NoRequest}
  /\ stopped \in BOOLEAN
  /\ running \subseteq Identity

Init ==
  /\ generation = 0 /\ cache = EmptyCache
  /\ current = NoName /\ text = Blank
  /\ active = NoRequest /\ pending = NoRequest
  /\ stopped = FALSE /\ running = {}

----------------------------------------------------------------------------
(* startLocked: the request becomes the active one and its command runs.   *)
Start(request, commands) == active' = request /\ running' = commands \cup {request}

(* selectLocked on a loader that is not stopped, for a package that is not *)
(* nil, in generation g with cache c and target p pending.                 *)
ShowCached(k, c) ==
  /\ c[k] # NoText
  /\ text' = c[k] /\ pending' = NoRequest
  /\ UNCHANGED <<active, running>>

FetchAtOnceFlawed(k, g, c, p) ==
  /\ c[k] = NoText /\ text' = Loading /\ pending' = NoRequest
  /\ \/ active # Wanted(g, k) /\ Start(Wanted(g, k), running)
     \/ active = Wanted(g, k) /\ UNCHANGED <<active, running>>

Fetch(k, g, c, p) ==
  /\ c[k] = NoText /\ text' = Loading
  /\ \/ active = NoRequest /\ Start(Wanted(g, k), running) /\ pending' = p
     \/ active = Wanted(g, k) /\ pending' = NoRequest /\ UNCHANGED <<active, running>>
     \/ active \notin {NoRequest, Wanted(g, k)}
        /\ pending' = Wanted(g, k) /\ UNCHANGED <<active, running>>

FetchFlawed(k, g, c, p) ==
  /\ c[k] = NoText /\ text' = Loading
  /\ \/ active = NoRequest /\ Start(Wanted(g, k), running) /\ pending' = p
     \/ active # NoRequest /\ pending' = NoRequest /\ UNCHANGED <<active, running>>
TargetFlawed(k, g, c, p) == current' = k /\ (ShowCached(k, c) \/ FetchFlawed(k, g, c, p))
Target(k, g, c, p) == current' = k /\ (ShowCached(k, c) \/ Fetch(k, g, c, p))

(* Select.                                                                 *)
Select(k) ==
  /\ ~stopped /\ Target(k, generation, cache, pending)
  /\ UNCHANGED <<generation, cache, stopped>>

SelectNothing ==
  /\ ~stopped /\ current' = NoName /\ text' = Blank /\ pending' = NoRequest
  /\ UNCHANGED <<generation, cache, active, stopped, running>>

(* Refresh, to a package or to none; on a stopped loader to none.          *)
Refresh(k) ==
  /\ generation < MaxGeneration
  /\ generation' = generation + 1 /\ cache' = EmptyCache
  /\ IF k = NoName \/ stopped
     THEN /\ current' = NoName /\ text' = Blank /\ pending' = NoRequest
          /\ UNCHANGED <<active, running>>
     ELSE Target(k, generation', cache', NoRequest)
  /\ UNCHANGED stopped

(* Cancel.                                                                 *)
Cancel ==
  /\ stopped' = TRUE /\ pending' = NoRequest
  /\ UNCHANGED <<generation, cache, current, text, active, running>>

----------------------------------------------------------------------------
(* Complete, first half: a result of this generation enters the cache and, *)
(* when it is the current package's, the pane.                             *)
AcceptsFlawed(request) == ~stopped
Accepts(request) == ~stopped /\ request.generation = generation

FiledFlawed(request) ==
  IF Accepts(request) THEN [cache EXCEPT ![request.key] = text] ELSE cache
Filed(request) ==
  IF Accepts(request) THEN [cache EXCEPT ![request.key] = request] ELSE cache
Shown(request) ==
  IF Accepts(request) /\ current = request.key THEN request ELSE text

(* Complete, second half: the pending target starts unless the loader is   *)
(* stopped or the target is of an older generation or cached by now.       *)
StartsPendingFlawed(c) == FALSE
StartsPending(c) ==
  /\ ~stopped /\ pending # NoRequest
  /\ pending.generation = generation /\ c[pending.key] = NoText

Complete(request) ==
  /\ request \in running /\ request = active
  /\ cache' = Filed(request)
  /\ text' = IF ~stopped /\ pending # NoRequest /\ pending.generation = generation
                /\ Filed(request)[pending.key] # NoText /\ current = pending.key
             THEN Filed(request)[pending.key]
             ELSE Shown(request)
  /\ pending' = NoRequest
  /\ IF StartsPending(Filed(request))
     THEN Start(pending, running \ {request})
     ELSE active' = NoRequest /\ running' = running \ {request}
  /\ UNCHANGED <<generation, current, stopped>>

(* A result that is not the active request's would be dropped; OneCommand  *)
(* shows that there is none.                                               *)
CompleteAny == \E request \in running : Complete(request)

Next ==
  \/ \E k \in Names : Select(k)
  \/ SelectNothing
  \/ \E k \in Names \cup {NoName} : Refresh(k)
  \/ CompleteAny
  \/ Cancel

(* Once the loader is stopped its command ends: its context is cancelled,  *)
(* brew is killed and its pipes are abandoned (brew's runTool).  A brew    *)
(* that nobody cancels has no deadline and owes no answer.                 *)
Spec == Init /\ [][Next]_vars /\ WF_vars(stopped /\ CompleteAny)

----------------------------------------------------------------------------
(* At most one `brew info` runs, and it is the one the loader knows of     *)
(* (SPEC section 7, rule 5).                                               *)
OneCommand == running = (IF active = NoRequest THEN {} ELSE {active})

(* A text on screen was read for the package the pane names and after the  *)
(* last refresh, however late its command answered.                        *)
NeverStale == text \notin {Blank, Loading} => text = Wanted(generation, current)

(* "Loading" is never a dead end: the request for the current package runs *)
(* or is the one that runs next.                                           *)
LoadingIsLoading ==
  ~stopped /\ text = Loading =>
    /\ current # NoName
    /\ Wanted(generation, current) \in {active, pending}

(* As long as no `brew info` hangs, which is the condition and not a       *)
(* promise of the code, the loader strands no selection: the pane of a     *)
(* package that stays selected gets its text, whatever was selected before *)
(* it, refreshed or superseded (SPEC section 7).                           *)
Requests == [generation: 0..MaxGeneration, key: Names]
NoneHangs == \A request \in Requests : []<>(request \notin running)
SelectionAnswered ==
  NoneHangs => \A k \in Names :
    (current = k /\ text = Loading) ~> (current # k \/ text # Loading \/ stopped)

(* What the session relies on: the commands that run, as one flag.         *)
Contract == INSTANCE LoaderContract WITH pending <- running # {}, stopped <- stopped
ImplementsContract == Contract!Spec
=============================================================================
