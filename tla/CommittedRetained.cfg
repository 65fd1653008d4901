\* A queue whose first entry succeeds and whose second fails.
SPECIFICATION Spec
CONSTANTS
  a = a
  b = b
  f = f
  none = none
  unsized = unsized
  tiny = tiny
  narrow = narrow
  wide = wide
  NoPkg = none
  KindOf <- KindOfAll
  Unsized = unsized
  SelfPkg = none
  Pkgs <- TwoCasks
  Pinned = {}
  Suppressed = {}
  Installed0 = {a, b}
  Outdated0 = {a}
  Untrusted0 = {}
  Snapshots <- NoSnapshots
  Persist = FALSE
  Terms <- WideOnly
  TooSmall <- NoDrawing
  FitsIn <- Fitting
  BatchModalIn <- WideModal
  TrustModalIn <- WideModal
  TrustFullIn <- WideModal
  Keys = {"uninstall", "y"}
  LossyReads = FALSE
  InfoLookups = FALSE
  MaxOps = 2
  MaxRequests = 0
INVARIANTS
  CommittedIsForgotten
