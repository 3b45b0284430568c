---------------------------- MODULE MCSwarmTransfer ----------------------------
(***************************************************************************)
(* Instances of SwarmTransfer: an importer (1) and a member that downloads *)
(* (2), two pieces.                                                        *)
(***************************************************************************)
EXTENDS SwarmTransfer, TLC

TwoMembers == 1 .. 2
TwoPieces == 0 .. 1
OneEach == [i \in TwoPieces |-> 1]
OneThenTwo == [i \in TwoPieces |-> i + 1]
OneThenThree == [i \in TwoPieces |-> 2 * i + 1]

Imported == (1 :> TwoPieces) @@ (2 :> {})

\* The importer has the share of an earlier run; no fault.
Calm == [blocks |-> OneEach, held |-> Imported, slots |-> {4}, disturbed |-> {}, dropped |-> {},
         lost |-> 0, crash |-> 0, rot |-> 0, roster |-> 0, locked |-> 0,
         user |-> 0, early |-> 0, faults |-> 0, expiry |-> 0]

Fresh(n) == [Calm EXCEPT !.disturbed = {n}]

\* The downloader has its first piece, too.
Half(n) == [Fresh(n) EXCEPT !.held = (1 :> TwoPieces) @@ (2 :> {0})]

\* It has the whole share.
Full(n) == [Fresh(n) EXCEPT !.held = [m \in TwoMembers |-> TwoPieces]]

\* A first import, then each kind of fault on its own or with the one it is
\* likely to meet: a lost record; the interface locked; a restart over damaged
\* pieces, and over failed writes; the importer out of the roster for a while;
\* the owner's pause, cancellation and expiry; a timer that runs out early; a
\* failed expiry; and send slots that are taken by other shares.
Exchanges ==
    { [Calm EXCEPT !.held = [n \in TwoMembers |-> {}]],
      [Calm EXCEPT !.lost = 1],
      [Fresh(2) EXCEPT !.locked = 1],
      [Full(2) EXCEPT !.crash = 1, !.rot = 1],
      [Half(2) EXCEPT !.crash = 1, !.faults = 1],
      [Half(1) EXCEPT !.roster = 1],
      [Half(2) EXCEPT !.user = 1],
      [Half(2) EXCEPT !.early = 1],
      [Half(2) EXCEPT !.expiry = 1, !.blocks = OneThenThree],
      [Half(2) EXCEPT !.slots = {0, 1}, !.blocks = OneThenTwo] }
=============================================================================
