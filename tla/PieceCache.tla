----------------------------- MODULE PieceCache -----------------------------
(***************************************************************************)
(* The durable piece cache of one share                                    *)
(* (crates/file-transfer/src/swarm/store.rs).                              *)
(*                                                                         *)
(* A cache is a record: `entry` is the State held in memory, `journal` the *)
(* sealed `state` file, `files` the piece files on disk, and `faults` the  *)
(* writes that may still fail.  Every operation is the set of its          *)
(* outcomes [c, res]: the cache it leaves and "ok", "held" (nothing to     *)
(* do), "io" (a write failed) or "refused".  A failed write is either not  *)
(* on disk or on disk and reported failed (`atomic` renames and then       *)
(* syncs the directory), so every point a crash can cut an operation at is *)
(* also the state some failed write leaves.                                *)
(*                                                                         *)
(* One share: the quota, the eviction of other shares and the reuse of an  *)
(* identical import are left out.  Piece contents are left out: a piece in *)
(* `files` is one that verifies.                                           *)
(***************************************************************************)
EXTENDS Naturals, FiniteSets

CONSTANT Pieces

Statuses == {"absent", "offered", "importing", "downloading", "paused",
             "complete", "cancelled"}

Serving == {"downloading", "complete"}

Absent == [status |-> "absent", have |-> {}, by |-> {}]

\* The cache an earlier run left with these pieces.
Stored(have, faults) ==
    LET st == CASE have = {} -> Absent
                [] have = Pieces -> [status |-> "complete", have |-> have, by |-> {}]
                [] OTHER -> [status |-> "downloading", have |-> have, by |-> {}]
    IN  [entry |-> st, journal |-> st, files |-> have, faults |-> faults]

Done(c) == {[c |-> c, res |-> "ok"]}
Refused(c) == {[c |-> c, res |-> "refused"]}

\* `?`: go on with the next step of an operation only if this one succeeded.
Then(outcomes, Step(_)) ==
    UNION {IF o.res = "ok" THEN Step(o.c) ELSE {o} : o \in outcomes}

\* The outcomes of one write to disk: written, or failed with or without effect.
Write(c, written) ==
    Done(written) \cup
    IF c.faults = 0 THEN {}
    ELSE {[c |-> [x EXCEPT !.faults = c.faults - 1], res |-> "io"] : x \in {c, written}}

replace(c, st) ==
    Then(Write(c, [c EXCEPT !.journal = st]), LAMBDA d : Done([d EXCEPT !.entry = st]))

write_piece(c, i) == Write(c, [c EXCEPT !.files = @ \cup {i}])

remove_pieces(c) == Write(c, [c EXCEPT !.files = {}])

offer(c) ==
    IF c.entry # Absent THEN Done(c)
    ELSE replace(c, [Absent EXCEPT !.status = "offered"])

accept(c) ==
    CASE c.entry.status = "complete" -> Done(c)
      [] c.entry.status \in {"absent", "cancelled", "importing"} -> Refused(c)
      [] OTHER -> replace(c, [c.entry EXCEPT !.status = "downloading"])

receipt(c, member) ==
    IF member \in c.entry.by THEN Done(c)
    ELSE replace(c, [c.entry EXCEPT !.by = @ \cup {member}])

\* The durable record that a piece could not be retained.
failure(c) ==
    replace(c, [c.entry EXCEPT !.status = IF @ = "downloading" THEN "paused" ELSE @])

pause(c) ==
    IF c.entry.status # "downloading" THEN Done(c)
    ELSE replace(c, [c.entry EXCEPT !.status = "paused"])

\* The tombstone first, the bytes after it.
cancel(c) ==
    IF c.entry = Absent THEN Refused(c)
    ELSE Then(replace(c, [c.entry EXCEPT !.status = "cancelled", !.have = {}]), remove_pieces)

\* Tombstone, bytes, directory, and only then the entry.
remove(c) ==
    Then(cancel(c),
         LAMBDA d : Then(Write(d, [d EXCEPT !.journal = Absent]),
                         LAMBDA f : Done([f EXCEPT !.entry = Absent])))

begin_import(c) ==
    IF c.entry = Absent THEN replace(c, [Absent EXCEPT !.status = "importing"])
    ELSE IF c.entry.status \in {"importing", "complete"} THEN Done(c)
    ELSE Refused(c)

\* A piece file left by an earlier attempt is taken over, never encrypted again.
import_piece(c, i) ==
    IF c.entry.status # "importing" THEN Refused(c)
    ELSE Then(IF i \in c.files THEN Done(c) ELSE write_piece(c, i),
              LAMBDA d : replace(d, [d.entry EXCEPT !.have = @ \cup {i}]))

finish_import(c) ==
    IF c.entry.status = "complete" THEN Done(c)
    ELSE IF c.entry.status # "importing" \/ c.entry.have # Pieces THEN Refused(c)
    ELSE replace(c, [c.entry EXCEPT !.status = "complete"])

\* `verify` refuses a piece that is not the manifest's.  The piece a journal bit
\* stands for is on disk before the bit is; the bit is set without the piece in
\* the mistaken order.
Bug_put(c, i) ==
    LET have == c.entry.have \cup {i}
        st   == [c.entry EXCEPT !.have = have,
                                !.status = IF have = Pieces THEN "complete" ELSE @]
    IN  IF c.entry.status \notin Serving \/ i \notin Pieces THEN Refused(c)
        ELSE IF i \in c.entry.have THEN {[c |-> c, res |-> "held"]}
        ELSE Then(replace(c, st), LAMBDA d : write_piece(d, i))

put(c, i) ==
    LET have == c.entry.have \cup {i}
        st   == [c.entry EXCEPT !.have = have,
                                !.status = IF have = Pieces THEN "complete" ELSE @]
    IN  IF c.entry.status \notin Serving \/ i \notin Pieces THEN Refused(c)
        ELSE IF i \in c.entry.have THEN {[c |-> c, res |-> "held"]}
        ELSE Then(write_piece(c, i), LAMBDA d : replace(d, st))

\* Reopening: interrupted removals are finished, then every journal bit whose
\* piece does not verify (`rotten` pieces, lost or damaged) is cleared, and a
\* share that lost a piece waits for its owner to resume it.  The mistaken
\* reopening starts such a share over.
Bug_open(c, rotten) ==
    LET j     == c.journal
        files == IF j.status \in {"absent", "cancelled"} THEN {} ELSE c.files \ rotten
        st    == IF j.have \subseteq files THEN j
                 ELSE [j EXCEPT !.have = {}, !.status = IF @ = "importing" THEN @ ELSE "paused"]
    IN  [c EXCEPT !.entry = st, !.journal = st, !.files = files]

open(c, rotten) ==
    LET j     == c.journal
        files == IF j.status \in {"absent", "cancelled"} THEN {} ELSE c.files \ rotten
        kept  == j.have \cap files
        st    == [j EXCEPT !.have = kept,
                           !.status = IF kept = j.have \/ @ = "importing" THEN @ ELSE "paused"]
    IN  [c EXCEPT !.entry = st, !.journal = st, !.files = files]

\* What is served never outruns the disk: every piece marked as held, in
\* memory or in the journal a restart would read, has its verified bytes on
\* disk, and only a share with every piece is complete.
Backed(c) ==
    \A st \in {c.entry, c.journal} :
        /\ st.have \subseteq c.files
        /\ st.status = "complete" => st.have = Pieces
=============================================================================
