---------------------------- MODULE MCSystemLock ----------------------------
(* The system lock with a finite set of requests.                          *)
EXTENDS SystemLock
=============================================================================
