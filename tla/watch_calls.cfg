\* Two indexers of one process on two workspace roots.
SPECIFICATION WatchFairSpec
CONSTANTS
  Callers = {c1, c2}
  Roots = {r1, r2}
  NoRoot = NoRoot
  MaxNatives = 3
  MaxIds = 3
INVARIANTS WatchTypeOK NoCallAfterUnsubscribe FedIfStartedAlone
PROPERTIES StopsSettle
CHECK_DEADLOCK FALSE
