\* A password dialog over a forgotten confirmation, and a narrower terminal.
SPECIFICATION Spec
CONSTANTS
  a = a
  b = b
  f = f
  none = none
  unsized = unsized
  tiny = tiny
  narrow = narrow
  wide = wide
  NoPkg = none
  KindOf <- KindOfAll
  Unsized = unsized
  SelfPkg = none
  Pkgs <- TwoCasks
  Pinned = {}
  Suppressed = {}
  Installed0 = {a, b}
  Outdated0 = {b}
  Untrusted0 = {}
  Snapshots <- NoSnapshots
  Persist = FALSE
  Terms <- AnySize
  TooSmall <- NoDrawing
  FitsIn <- Fitting
  BatchModalIn <- WideModal
  TrustModalIn <- WideModal
  TrustFullIn <- WideModal
  Keys = {"uninstall", "upgrade", "y", "password"}
  LossyReads = FALSE
  InfoLookups = FALSE
  MaxOps = 3
  MaxRequests = 1
INVARIANTS
  PasswordContained
