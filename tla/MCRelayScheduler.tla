--------------------------- MODULE MCRelayScheduler ---------------------------
(* Instances of RelayScheduler for TLC. *)
EXTENDS RelayScheduler

Item(scope, kind, class, traffic, cost, text, expired) ==
  [scope |-> scope, binding |-> "r", admin |-> FALSE, kind |-> kind, class |-> class,
   producer |-> "q", traffic |-> traffic, cost |-> cost, bytes |-> 1, text |-> text,
   expired |-> expired]

\* A push to an expired contact, two pushes, and forwarded traffic of both kinds.
Work ==
  [p1 |-> Item("endpoint", "Push", 0, "Interactive", 2, "t", TRUE),
   p2 |-> Item("endpoint", "Push", 0, "Interactive", 1, "t", FALSE),
   p3 |-> Item("endpoint", "Push", 0, "Interactive", 1, "u", FALSE),
   f1 |-> Item("endpoint", "ForwardNatural", 3, "Interactive", 1, "t", FALSE),
   f2 |-> Item("endpoint", "ForwardNatural", 3, "Bulk", 1, "u", FALSE)]

Usage(n) == [items |-> n, bytes |-> n]
OneItem == Usage(1)
TwoItems == Usage(2)
Retained == {Usage(0), Usage(2)}

Case(jobs, n, usages) == [jobs |-> jobs, lanes |-> n, usages |-> usages]

\* A push beside forwarded traffic of either kind while the outbox retains some,
\* two pushes that share a lane, and one push over two lanes.
Mixes ==
  { Case({"p1", "f1"}, 1, Retained), Case({"p1", "p3"}, 1, {}),
    Case({"p1", "f2"}, 1, Retained), Case({"p2"}, 2, {}) }
=============================================================================
