--------------------------- MODULE AdmissionBudget ---------------------------
(***************************************************************************)
(* Budget of crates/node/src/scheduler/budget.rs and the retained account of *)
(* scheduler/retained.rs, as operators on the shared State: jobs and bytes   *)
(* admitted, cover requests per scope, ciphertexts with an active attempt    *)
(* and what the durable outbox retains.  The peaks and the per-scope         *)
(* snapshots are only reported and are left out.                             *)
(***************************************************************************)
EXTENDS Integers, FiniteSets, Functions

CONSTANTS
  Scopes,             \* the schedulers that share the budget: endpoint, transit
  MAX_JOBS, MAX_BYTES,
  COVER_BYTES,
  RETAINED_LIMIT,     \* [items, bytes] for control producers
  APPLICATION_LIMIT   \* [items, bytes] for applications

NoUsage == [items |-> 0, bytes |-> 0]
NewBudget ==
  [jobs |-> 0, bytes |-> 0, covers |-> [s \in Scopes |-> 0], attempts |-> {},
   retained |-> NoUsage]

Total(f) == SumFunctionOnSet(f, Scopes)
Less(m, n) == IF m > n THEN m - n ELSE 0        \* saturating_sub

\* Mutant: payload may borrow the allowance of idle cover.
Bug_DataFits(b, n, size, limits) == TRUE

\* Payload admission never borrows the cover allowance, even while idle.
DataFits(b, n, size, limits) ==
  LET covers == Total(b.covers)
  IN  /\ n <= Less(MAX_JOBS - Total(limits), b.jobs - covers)
      /\ size <= Less(MAX_BYTES - Total(limits) * COVER_BYTES,
                      b.bytes - covers * COVER_BYTES)

\* What reserve_inner checks; limits is the cover allowance of each scope.
CanReserve(b, scope, size, cover, limits) ==
  /\ IF cover THEN b.covers[scope] < limits[scope] ELSE DataFits(b, 1, size, limits)
  /\ b.jobs < MAX_JOBS /\ size <= Less(MAX_BYTES, b.bytes)

Reserved(b, scope, size, cover, ids) ==
  [b EXCEPT !.jobs = @ + 1, !.bytes = @ + size, !.attempts = @ \cup ids,
            !.covers[scope] = IF cover THEN @ + 1 ELSE @]

\* Mutant: the attempt stays registered.
Bug_Released(b, scope, size, cover, ids) ==
  [b EXCEPT !.jobs = @ - 1, !.bytes = @ - size,
            !.covers[scope] = IF cover THEN @ - 1 ELSE @]

\* Drop of a Reservation.
Released(b, scope, size, cover, ids) ==
  [b EXCEPT !.jobs = @ - 1, !.bytes = @ - size, !.attempts = @ \ ids,
            !.covers[scope] = IF cover THEN @ - 1 ELSE @]

-----------------------------------------------------------------------------
(* Retained account *)

Growth(new, old) ==
  [items |-> Less(new.items, old.items), bytes |-> Less(new.bytes, old.bytes)]

CanStage(b, growth, priority, limits) ==
  LET limit == IF priority = "Application" THEN APPLICATION_LIMIT ELSE RETAINED_LIMIT
  IN  /\ growth.items <= Less(limit.items, b.retained.items)
      /\ growth.bytes <= Less(limit.bytes, b.retained.bytes)
      /\ DataFits(b, growth.items, growth.bytes, limits)

Staged(b, growth) ==
  [b EXCEPT !.jobs = @ + growth.items, !.bytes = @ + growth.bytes,
            !.retained = [items |-> @.items + growth.items, bytes |-> @.bytes + growth.bytes]]

Unretained(b, usage) ==
  [b EXCEPT !.jobs = @ - usage.items, !.bytes = @ - usage.bytes,
            !.retained = [items |-> @.items - usage.items, bytes |-> @.bytes - usage.bytes]]
=============================================================================
