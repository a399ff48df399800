------------------------------- MODULE Channels -------------------------------
(***************************************************************************)
(* The ZeroMQ channels from the brokers to the workers: one FIFO per       *)
(* broker and worker (XREP to XREQ, routed by the worker's identity), and  *)
(* one subscription per worker for the job announcements of all brokers.   *)
(***************************************************************************)
EXTENDS Integers, Sequences, FiniteSets

CONSTANTS
  Brokers,
  Workers

VARIABLES
  to_worker,     \* to_worker[w][b]: responses of broker b that w has not read
  announce       \* announce[w]: job announcements that w has not read

NO_JOBS == "NO JOBS"
NoJobs == [type |-> NO_JOBS]
=============================================================================
