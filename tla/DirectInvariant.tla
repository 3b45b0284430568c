-------------------------- MODULE DirectInvariant ---------------------------
(***************************************************************************)
(* The inductive invariant of DirectMessages: what holds of every state of a*)
(* node, live or in its archive, and what relates the two nodes and the    *)
(* packets between them.                                                   *)
(***************************************************************************)
EXTENDS DirectMessages

Tags == Nodes \X (Nat \ {0})

Bodies == {First} \cup {Data(m) : m \in Messages} \cup {Ack(m) : m \in Messages}

Sessions ==
    [gen : Nat, tag : Tags \cup {<<>>}, state : {"none", "initiated", "established"},
     sent : Seq(Bodies), missing : SUBSET Nat, credited : SUBSET Nat, received : SUBSET Nat]

\* Partial functions of the records.
Maps(S) == UNION {[D -> S] : D \in SUBSET Messages}

\* No acknowledgment, or the session tag and the counter of one.
Acks == SUBSET (Tags \X Nat)

States ==
    [session : Sessions, pending : Maps(Nat), receipts : Maps(Acks),
     owed : SUBSET Messages, floor : Nat, inbox : [Messages -> Nat],
     taken : [Messages -> Nat], firsts : SUBSET Tags, failed : BOOLEAN]

Packets ==
    [tag : Tags, to : Nodes, counter : Nat, body : Bodies \cup {<<"credit">>}, cover : SUBSET Nat]

-----------------------------------------------------------------------------
(* What every state of a node satisfies, live or archived *)

\* The durable record m is in the inbox, or was taken from it.
Has(x, m) == x.inbox[m] + x.taken[m] >= 1

\* A session has the tag of its generation; what n did not initiate it accepted,
\* and a first move is only sent by the initiator.
SessionOf(n, x) ==
    LET s == x.session
    IN  /\ s.gen = 0 => s = NoSession
        /\ s.gen > 0 => s.tag \in Tags /\ s.tag[2] = s.gen /\ s.state # "none"
        /\ s.state = "initiated" => s.tag[1] = n /\ s.received = {}
        /\ s.gen > 0 /\ s.tag[1] # n => s.tag \in x.firsts
        /\ \A c \in DOMAIN s.sent : s.sent[c] = First => s.tag[1] = n
        /\ s.credited \subseteq DOMAIN s.sent
        /\ \A t \in x.firsts : t[1] # n /\ t[2] <= s.gen
        /\ n = Lower /\ s.gen > 0 /\ s.tag[1] = n => <<Peer(n), s.gen>> \notin x.firsts

\* ObligationKept of one state, where an acknowledgment names a session that n
\* initiated or accepted.
LedgerOf(n, x) ==
    LET s == x.session
    IN  \A m \in DOMAIN x.receipts :
          /\ x.receipts[m] = {} => m \in x.owed
          /\ \A b \in x.receipts[m] :
                /\ b[1][1] = n \/ b[1] \in x.firsts
                /\ b[1][2] <= s.gen
                /\ b[1] = s.tag => b[2] \in Uncredited(s) /\ s.sent[b[2]] = Ack(m)

\* Only a record that the inbox got is acknowledged.
HeldBy(n, x) ==
    \A m \in Messages :
        /\ /\ Kind[m] = "durable"
           /\ \/ m \in DOMAIN x.receipts \cup x.owed
              \/ \E c \in DOMAIN x.session.sent : x.session.sent[c] = Ack(m)
           => Has(x, m)
        /\ m \in DOMAIN x.pending => From[m] = n

Local(n, x) == x \in States /\ SessionOf(n, x) /\ LedgerOf(n, x) /\ HeldBy(n, x)

\* What a node's archive may be when x is its live state.
Ahead(x, d) ==
    /\ x.session.gen <= d.session.gen
    /\ x.firsts \subseteq d.firsts
    /\ \A m \in Messages : Has(x, m) => Has(d, m)

States2(n) == {mem[n], disk[n]}

-----------------------------------------------------------------------------
(* What relates the two nodes and the packets between them *)

\* What was initiated reached the peer only after it was archived.
Origin ==
    /\ \A q \in net : /\ q.tag[2] <= mem[q.tag[1]].session.gen
                      /\ q.body = First => q.counter > 0 /\ q.tag[1] # q.to
                      /\ q.tag[1] = q.to \/ q.counter = 0 =>
                           q.tag \in mem[IF q.tag[1] = q.to THEN Peer(q.to) ELSE q.to].firsts
    /\ \A n \in Nodes : \A x \in States2(n) :
         /\ \A t \in x.firsts : t[2] <= mem[t[1]].session.gen
         /\ x.session.gen > 0 /\ x.session.tag[1] = n
              /\ (x.session.state = "established" \/ x.session.received # {})
              => x.session.tag \in mem[Peer(n)].firsts

\* Nothing is received, or credited, that was not sent.
Bounded ==
    \A n \in Nodes : \A x \in States2(n) :
        LET s == x.session
        IN  s.gen > 0 =>
              /\ \A q \in net : q.tag = s.tag =>
                    /\ q.to # n /\ q.counter > 0 => q.counter <= Len(s.sent)
                    /\ q.to = n /\ q.counter = 0 => q.cover \subseteq 1..Len(s.sent)
              /\ \A y \in States2(Peer(n)) :
                    y.session.tag = s.tag => y.session.received \subseteq 1..Len(s.sent)

\* The peer that sorts first accepts no session of a generation in which its own
\* was published.
OneWinner ==
    LET H == Peer(Lower)
    IN  \A x \in States2(Lower) :
          /\ \A q \in net : q.tag[1] = Lower => <<H, q.tag[2]>> \notin x.firsts
          /\ \A y \in States2(H) : \A t \in y.firsts : <<H, t[2]>> \notin x.firsts

\* An acknowledgment under way, and one that was received, is of a record that
\* its sender has.
Told ==
    /\ \A q \in net : \A m \in Messages :
          q.body = Ack(m) /\ Kind[m] = "durable" => Has(mem[Peer(q.to)], m)
    /\ \A m \in confirmed : m \in Messages
          /\ (Kind[m] = "durable" => From[m] \in Nodes /\ Has(mem[Peer(From[m])], m))

Types ==
    /\ mem \in [Nodes -> States] /\ disk \in [Nodes -> States]
    /\ net \subseteq Packets

IInv ==
    /\ Types
    /\ \A n \in Nodes : Local(n, mem[n]) /\ Local(n, disk[n]) /\ Ahead(mem[n], disk[n])
    /\ Origin /\ Bounded /\ OneWinner /\ Told
=============================================================================
