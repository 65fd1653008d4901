\* Two untrusted casks on four terminal sizes, starting from nothing or from the
\* snapshot of an older session, which knew one of them.
SPECIFICATION Spec
CONSTANTS
  a = a
  b = b
  f = f
  none = none
  unsized = unsized
  tiny = tiny
  narrow = narrow
  wide = wide
  NoPkg = none
  KindOf <- KindOfAll
  Unsized = unsized
  SelfPkg = none
  Pkgs <- TwoCasks
  Pinned = {}
  Suppressed = {}
  Installed0 = {a, b}
  Outdated0 = {}
  Untrusted0 = {a, b}
  Snapshots <- WithOldSnapshot
  Persist = TRUE
  Terms <- AnySize
  TooSmall <- NoDrawing
  FitsIn <- Fitting
  BatchModalIn <- WideModal
  TrustModalIn <- NarrowModal
  TrustFullIn <- WideModal
  Keys = {"terminate", "t", "y", "other", "r"}
  LossyReads = FALSE
  InfoLookups = FALSE
  MaxOps = 0
  MaxRequests = 0
INVARIANTS
  TrustedRowsAreTrusted
  TrustFollowsReview
  SingleLoad
  SnapshotFollows
PROPERTIES
  TrustClearsOnlyTheMark
