\* Turns of one session, with every command the user can give.
SPECIFICATION FairSpec
CONSTANTS
  Sessions = {s1}
  Files = {f1}
  Dirs = {}
  Inside <- Everything
  Contents = {v1, v2}
  Gone = Gone
  Commands = {"rollback", "guarded", "plain", "reapply"}
  MayFail = TRUE
  MaxEdits = 1
  MaxTurns = 2
  MaxCommands = 2
  User = User
  Finisher = Finisher
  Janitor = Janitor
PROPERTIES OverwritesKeepACopy StartsRun
CHECK_DEADLOCK FALSE
