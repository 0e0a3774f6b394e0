-------------------------- MODULE MCWorkerThread --------------------------
(* Two workers, one of which reads constructor attributes in its init(). *)
EXTENDS WorkerThread
=============================================================================
