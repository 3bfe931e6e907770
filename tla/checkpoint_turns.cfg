\* Turns of two sessions in one workspace, the user writing beside them.
SPECIFICATION Spec
SYMMETRY Symmetric
CONSTANTS
  Sessions = {s1, s2}
  Files = {f1, f2}
  Dirs = {d1}
  Inside <- Everything
  Contents = {v1, v2}
  Gone = Gone
  Commands = {}
  MayFail = TRUE
  MaxEdits = 2
  MaxTurns = 2
  MaxCommands = 0
  User = User
  Finisher = Finisher
  Janitor = Janitor
PROPERTIES TurnCommitsOnlyItsFiles OwnSnapshotFirst
CHECK_DEADLOCK FALSE
