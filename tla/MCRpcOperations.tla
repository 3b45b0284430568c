--------------------------- MODULE MCRpcOperations ---------------------------
(* Instances of RpcOperations for TLC. *)
EXTENDS RpcOperations, TLC

CONSTANTS oa, ob

\* The first handle expires while its record may still be retained.
Deadlines == oa :> 3 @@ ob :> 4

\* One operation asked for again with two faults, or two operations that share
\* the journal with one.
RepeatedOrShared ==
  {[requests |-> oa :> 2 @@ ob :> 0, faults |-> 2],
   [requests |-> oa :> 1 @@ ob :> 1, faults |-> 1]}

=============================================================================
