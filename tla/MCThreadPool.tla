---------------------------- MODULE MCThreadPool ----------------------------
(***************************************************************************)
(* Instances of ThreadPool for TLC.  MixedQueues serves one queue with a   *)
(* thread of its own, as threadPool.h does with every queue, and another   *)
(* with two threads, as readThreadPool.h does with its only one; threads   *)
(* of different queues have nothing in common but stop.                    *)
(***************************************************************************)
EXTENDS ThreadPool, TLC

CONSTANTS q1, q2, w1, w2, w3

OwnQueue    == (w1 :> q1) @@ (w2 :> q2)
MixedQueues == (w1 :> q1) @@ (w2 :> q2) @@ (w3 :> q2)
=============================================================================
