\* Two askpass helpers, so that a retry can meet the exchange before it; process
\* histories of tables of four processes, the walk cut after three and after all of them.
SPECIFICATION JudgedSpec
CONSTANTS
  Conns = {c1, c2}
  NoConn = noconn
  NoResult = noresult
  helper1 = helper1
  first = first
  second = second
  brew = brew
  Launchd = launchd
  Pids = {helper1, first, second, brew}
  Peer = helper1
  Tracked = brew
  Histories <- MCHistories
INVARIANTS
  TypeOK
  RequestIsServed
  SilentCleanup
  OnlyHelpersAreServed
PROPERTIES
  ImplementsContract
  SuccessIsReal
  HelperIsServed
  WorkersEnd
\* The job ends.
CHECK_DEADLOCK FALSE
