SPECIFICATION EditorSpec
CONSTANTS
  Names = {A, B}
  Stored = {A, B}
  New = New
  None = None
  MaxSaves = 1
  MaxOpens = 1
INVARIANT OwnContent
CHECK_DEADLOCK FALSE
