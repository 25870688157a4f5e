--------------------------- MODULE MCFileIndexWorker ---------------------------
(* FileIndexWorker for TLC: the constants are all the configurations set.   *)
EXTENDS FileIndexWorker
=============================================================================
