------------------------------- MODULE MCLocks -------------------------------
(* Two threads with two calls each, one fork, one signal. *)
EXTENDS Locks

CONSTANTS t1, t2

MCCalls == {"read", "close", "dup2", "openat", "open meminfo", "fopen meminfo", "sysconf", "ioctl"}
=============================================================================
