CONSTANTS
  UIntRange = 16
  MaxSize = 100
  Plenty = 12
  CommandLines <- WindowsLines
  Sizes = {1, 2}
  Takes = {"WM_CLOSE", "WM_ACTIVATE", "WM_PARENTNOTIFY"}
SPECIFICATION MCSpec
INVARIANTS
  AllTypeOK
  HandlersTouchTheLiving
  DestroyedOnce
  ComForFlutter
  ChildFits
  ThemeFollows
  DartGetsArguments
  LinuxArguments
  LinuxFreedOnce
  CAddressIsSet
  CValidIsAccepted
PROPERTIES
  WindowIsShown
  ClosingEnds
CHECK_DEADLOCK FALSE
