\* One kind, two casks: single operations, and entries queued behind them.
SPECIFICATION Spec
CONSTANTS
  a = a
  b = b
  f = f
  none = none
  unsized = unsized
  tiny = tiny
  narrow = narrow
  wide = wide
  NoPkg = none
  KindOf <- KindOfAll
  Unsized = unsized
  SelfPkg = none
  Pkgs <- TwoCasks
  Pinned = {}
  Suppressed = {}
  Installed0 = {a, b}
  Outdated0 = {a}
  Untrusted0 = {}
  Snapshots <- NoSnapshots
  Persist = FALSE
  Terms <- WideOnly
  TooSmall <- NoDrawing
  FitsIn <- Fitting
  BatchModalIn <- WideModal
  TrustModalIn <- WideModal
  TrustFullIn <- WideModal
  Keys = {"uninstall", "upgrade", "y", "other", "password"}
  LossyReads = FALSE
  InfoLookups = FALSE
  MaxOps = 3
  MaxRequests = 2
INVARIANTS
  TypeOK
  NoDuplicateWork
  ModeMatchesRun
  PasswordContained
  JobIsTheOperation
PROPERTIES
  SerialMutation
