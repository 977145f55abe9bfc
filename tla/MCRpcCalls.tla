------------------------------- MODULE MCRpcCalls -------------------------------
(* RpcCalls for TLC: two threads that call, with every interleaving of their   *)
(* calls, time-outs and answers and of the guest's coming and going.           *)
EXTENDS RpcCalls

\* Threads and methods are interchangeable: the first call is that of one thread,
\* of one method.  (A SYMMETRY is not sound with a temporal property.)
FirstIsFixed ==
  LET t == CHOOSE c \in Callers : TRUE
  IN  calls = 0 /\ calls' = 1 => tag'[t] = 1 /\ method'[t] = CHOOSE m \in Methods : TRUE
================================================================================
