-------------------------- MODULE MCChannelDelivery --------------------------
(* Small instances of ChannelDelivery.                                         *)
EXTENDS ChannelDelivery

CONSTANTS oda, ann, ben, cal, t1

All == {ann, ben, cal}
ByOwner == [t \in Texts |-> oda]

\* The owner and ann, one failed save and one restart.
Pair == [members |-> {ann}, removable |-> {}, unknown |-> {}, recovered |-> {},
         overlay |-> {<<oda, ann>>}, catchup |-> FALSE, save |-> 1, ack |-> 0, crash |-> 1]

\* Three members of whom two are removed, one after the other; and ann without
\* the owner's route, which the owner announces.
Membership ==
    { [Pair EXCEPT !.members = All, !.removable = {ben, cal}, !.overlay = {}, !.catchup = TRUE,
                   !.unknown = {<<oda, ben>>, <<oda, cal>>}],
      [Pair EXCEPT !.unknown = {<<ann, oda>>}, !.recovered = {oda}, !.save = 0] }

Settled == {Pair}

\* One failed save while an acknowledgement is consumed.
AckFault == {[Pair EXCEPT !.overlay = {}, !.save = 0, !.ack = 1, !.crash = 0]}
=============================================================================
