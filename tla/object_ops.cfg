CONSTANTS
  c1 = c1 c2 = c2
  Client = {c1, c2}
  None = None
  Folder = Folder
  Kinds = {"list", "mkdir", "remove", "rename", "move", "copy", "put"}
  MaxOps = 2
  Results = {TRUE, FALSE}
  Lazies = {FALSE}
  NoOverwrite = TRUE
  Unreadable = {"d"}
SPECIFICATION Spec
SYMMETRY Symmetric
INVARIANTS StaleOnlyExcused FileNeverVanishes OneFlight WaitsForRunning
