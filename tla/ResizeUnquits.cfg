\* A quit is under way, a dialog is open, the terminal shrinks.
SPECIFICATION FairSpec
CONSTANTS
  a = a
  b = b
  f = f
  none = none
  unsized = unsized
  tiny = tiny
  narrow = narrow
  wide = wide
  NoPkg = none
  KindOf <- KindOfAll
  Unsized = unsized
  SelfPkg = none
  Pkgs <- TwoCasks
  Pinned = {}
  Suppressed = {}
  Installed0 = {a, b}
  Outdated0 = {a}
  Untrusted0 = {}
  Snapshots <- NoSnapshots
  Persist = FALSE
  Terms <- AnySize
  TooSmall <- NoDrawing
  FitsIn <- Fitting
  BatchModalIn <- WideModal
  TrustModalIn <- WideModal
  TrustFullIn <- WideModal
  Keys = {"interrupt", "uninstall", "y"}
  LossyReads = FALSE
  InfoLookups = FALSE
  MaxOps = 1
  MaxRequests = 0
PROPERTIES
  QuitIsFinal
