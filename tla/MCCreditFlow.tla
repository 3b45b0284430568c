----------------------------- MODULE MCCreditFlow -----------------------------
(* Small instances of CreditFlow: which peer sends, and what. *)
EXTENDS CreditFlow, TLC

CONSTANTS alice, bob

BothPeers == {alice, bob}

\* One direction carries frames and the other only credits.
OneWay3 == alice :> 3 @@ bob :> 0
OneWay5 == alice :> 5 @@ bob :> 0

Mixed == {[purpose |-> "Control", volatile |-> FALSE],
          [purpose |-> "Bulk", volatile |-> TRUE]}
AllPurposes == Mixed \cup {[purpose |-> "Interactive", volatile |-> TRUE]}

=============================================================================
