------------------------------ MODULE MCMyLock ------------------------------
(* Instance of MyLock for TLC: three threads.                              *)
EXTENDS MyLock

CONSTANTS t1, t2, t3

MCThreads == {t1, t2, t3}
=============================================================================
