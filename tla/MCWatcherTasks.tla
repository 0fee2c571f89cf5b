--------------------------- MODULE MCWatcherTasks ----------------------------
(* WatcherTasks on small instances.                                         *)
EXTENDS WatcherTasks
=============================================================================
