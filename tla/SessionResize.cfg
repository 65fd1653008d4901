\* Any terminal size at any time, under single operations, a queue and a batch.
SPECIFICATION Spec
CONSTANTS
  a = a
  b = b
  f = f
  none = none
  unsized = unsized
  tiny = tiny
  narrow = narrow
  wide = wide
  NoPkg = none
  KindOf <- KindOfAll
  Unsized = unsized
  SelfPkg = none
  Pkgs <- TwoCasks
  Pinned = {}
  Suppressed = {}
  Installed0 = {a, b}
  Outdated0 = {a, b}
  Untrusted0 = {}
  Snapshots <- NoSnapshots
  Persist = FALSE
  Terms <- AnySize
  TooSmall <- NoDrawing
  FitsIn <- Fitting
  BatchModalIn <- WideModal
  TrustModalIn <- WideModal
  TrustFullIn <- WideModal
  Keys = {"uninstall", "upgrade all", "y", "other", "password", "q", "r"}
  LossyReads = FALSE
  InfoLookups = FALSE
  MaxOps = 2
  MaxRequests = 1
INVARIANTS
  BatchAccounting
  ClaimIsTrue
  NoReadDuringMutation
PROPERTIES
  ImplementsQueue
  NothingFollowsFailedCleanup
