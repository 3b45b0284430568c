-------------------------- MODULE MCDirectMessages --------------------------
(***************************************************************************)
(* Instances of DirectMessages: peers a (which sorts first) and b; a sends *)
(* m1 and m3, b sends m2 and m4.                                           *)
(***************************************************************************)
EXTENDS DirectMessages, TLC

CONSTANTS a, b, m1, m2, m3, m4

Senders == (m1 :> a) @@ (m2 :> b) @@ (m3 :> a) @@ (m4 :> b)

Kinds ==
    (m1 :> "durable") @@ (m2 :> "event") @@ (m3 :> "durable") @@ (m4 :> "volatile")

\* m3 stops having effects at instant 1, the others last.
OneExpires == (m1 :> 2) @@ (m2 :> 2) @@ (m3 :> 1) @@ (m4 :> 2)

Case(records, recoveries, crashes, faults) ==
    [records |-> records, recoveries |-> recoveries, crashes |-> crashes, faults |-> faults]

\* Two records of one sender, one of which expires, over a recovery and a
\* restart; records both ways over a restart; one record over two recoveries, a
\* restart and a failed save; a durable and a volatile record both ways.
Exchanges ==
    { Case({m1, m3}, 1, 1, 0), Case({m1, m2}, 0, 1, 0),
      Case({m1}, 2, 1, 1), Case({m1, m4}, 0, 0, 0) }
=============================================================================
