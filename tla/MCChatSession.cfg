CONSTANTS
  c1 = c1
  c2 = c2
  t1 = t1
  t2 = t2
  wa = wa
  wb = wb
  small = small
  large = large
  high = high
  NoRow = NoRow
  NoThread = NoThread
  NoWorkspace = NoWorkspace
  NoValue = NoValue
  Chats = {c1, c2}
  Threads = {t1, t2}
  Workspaces = {wa, wb}
  Models = {small, large}
  Options = {high}
  Supported <- MCSupported
  Modes = {"ask", "full"}
  MaxOps = 7
  MaxFaults = 1
SYMMETRY Symmetry
SPECIFICATION SessionSpec
INVARIANTS PresetsFit ModeIsKept BoundWhereSelected
PROPERTIES UnbindIsFinal
CHECK_DEADLOCK FALSE
