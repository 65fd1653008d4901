\* Quitting from every mode, with everything in flight, and what must end. Cask b is
\* lazybrew itself.
SPECIFICATION FairSpec
CONSTANTS
  a = a
  b = b
  f = f
  none = none
  unsized = unsized
  tiny = tiny
  narrow = narrow
  wide = wide
  NoPkg = none
  KindOf <- KindOfAll
  Unsized = unsized
  SelfPkg = b
  Pkgs <- TwoCasks
  Pinned = {}
  Suppressed = {}
  Installed0 = {a, b}
  Outdated0 = {a}
  Untrusted0 = {a}
  Snapshots <- NoSnapshots
  Persist = FALSE
  Terms <- WideOnly
  TooSmall <- NoDrawing
  FitsIn <- Fitting
  BatchModalIn <- WideModal
  TrustModalIn <- WideModal
  TrustFullIn <- WideModal
  Keys = {"interrupt", "q", "uninstall", "y", "password", "t", "r"}
  LossyReads = FALSE
  InfoLookups = TRUE
  MaxOps = 1
  MaxRequests = 1
INVARIANTS
  QuitLeavesNothing
  CleanupFailureReported
PROPERTIES
  QuitIsFinal
  QuitCompletes
  CancelCompletes
  PasswordDialogCloses
