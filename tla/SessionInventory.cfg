\* Both kinds, no snapshot: browsing, search, refresh, kind switch, and an
\* uninstall between them.
SPECIFICATION Spec
CONSTANTS
  a = a
  b = b
  f = f
  none = none
  unsized = unsized
  tiny = tiny
  narrow = narrow
  wide = wide
  NoPkg = none
  KindOf <- KindOfAll
  Unsized = unsized
  SelfPkg = none
  Pkgs <- CaskAndFormula
  Pinned = {}
  Suppressed = {}
  Installed0 = {a, f}
  Outdated0 = {f}
  Untrusted0 = {}
  Snapshots <- NoSnapshots
  Persist = FALSE
  Terms <- WideOnly
  TooSmall <- NoDrawing
  FitsIn <- Fitting
  BatchModalIn <- WideModal
  TrustModalIn <- WideModal
  TrustFullIn <- WideModal
  Keys = {"browse", "display", "search", "tab", "r", "uninstall", "y"}
  LossyReads = TRUE
  InfoLookups = TRUE
  MaxOps = 1
  MaxRequests = 0
  NoNumber = nonumber
  NoRevision = norevision
  MaxInt = 2
INVARIANTS
  PaneShowsRetained
  RetainedIsComplete
