---------------------------- MODULE CounterDelivery ----------------------------
(***************************************************************************)
(* What the credited window of crates/protocol/src/flow.rs promises, without *)
(* floors, masks, authorities or packets: a sender numbers its records       *)
(* 1, 2, ..., the peer takes each one once and in any order, and the sender  *)
(* learns of some of those taken.  It never runs more than Span counters     *)
(* ahead of the oldest one it has not learnt of.                             *)
(***************************************************************************)
EXTENDS Integers

CONSTANTS Peers, Span

VARIABLES
  sent,   \* sent[p]: the last counter p used
  taken,  \* taken[p]: the counters of p that its peer took
  known   \* known[p]: those that p knows its peer took

vars == <<sent, taken, known>>

Init ==
  /\ sent = [p \in Peers |-> 0]
  /\ taken = [p \in Peers |-> {}]
  /\ known = [p \in Peers |-> {}]

Send(p) ==
  /\ 1..(sent[p] + 1 - Span) \subseteq known[p]
  /\ sent' = [sent EXCEPT ![p] = @ + 1]
  /\ UNCHANGED <<taken, known>>

Take(p) ==
  /\ \E c \in (1..sent[p]) \ taken[p] : taken' = [taken EXCEPT ![p] = @ \cup {c}]
  /\ UNCHANGED <<sent, known>>

Learn(p) ==
  /\ \E news \in SUBSET taken[p] : known' = [known EXCEPT ![p] = @ \cup news]
  /\ UNCHANGED <<sent, taken>>

Next == \E p \in Peers : Send(p) \/ Take(p) \/ Learn(p)

Spec == Init /\ [][Next]_vars
=============================================================================
