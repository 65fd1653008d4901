\* Three packages, two refreshes.
SPECIFICATION Spec
CONSTANTS
  Names = {a, b, c}
  NoName = noname
  Blank = blank
  Loading = loading
  NoText = notext
  NoRequest = norequest
  MaxGeneration = 2
INVARIANTS
  TypeOK
  OneCommand
  NeverStale
  LoadingIsLoading
PROPERTIES
  SelectionAnswered
