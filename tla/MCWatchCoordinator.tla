-------------------------- MODULE MCWatchCoordinator --------------------------
(* WatchCoordinator on a small instance; the cfg has its bounds.             *)
EXTENDS WatchCoordinator
===============================================================================
