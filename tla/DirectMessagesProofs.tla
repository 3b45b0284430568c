------------------------- MODULE DirectMessagesProofs -------------------------
(***************************************************************************)
(* Two peers never establish different sessions of one generation, a       *)
(* ledger keeps its obligations, and a delivery that a sender is told of   *)
(* is in the receiver's archive: for every set of records, windows and     *)
(* limits, and every number of recoveries, restarts, failed checkpoints    *)
(* and late, repeated, lost or reordered packets.                          *)
(***************************************************************************)
EXTENDS DirectInvariant, TLAPS

-----------------------------------------------------------------------------
(* Each transaction of a node keeps what holds of every state of it, live or  *)
(* in its archive.                                                            *)

\* First moves, data and acknowledgments are told apart.
LEMMA BodyKinds ==
  /\ First \in Bodies /\ \A m \in Messages : Data(m) \in Bodies /\ Ack(m) \in Bodies
  /\ \A m, k : First # Data(m) /\ First # Ack(m) /\ Data(m) # Ack(k)
  /\ \A m, k : Ack(m) = Ack(k) => m = k
  /\ \A b \in Bodies : /\ b[1] = "ack" => b[2] \in Messages /\ b = Ack(b[2])
                       /\ b[1] = "data" => b[2] \in Messages /\ b = Data(b[2])
BY DEF Bodies, First, Data, Ack

\* A window takes its next counter and keeps the others.
LEMMA AppendProps ==
  ASSUME NEW s \in Seq(Bodies), NEW b \in Bodies
  PROVE  /\ Append(s, b) \in Seq(Bodies) /\ Len(Append(s, b)) = Len(s) + 1 /\ Len(s) \in Nat
         /\ DOMAIN Append(s, b) = DOMAIN s \cup {Len(s) + 1} /\ Len(s) + 1 \notin DOMAIN s
         /\ \A c \in DOMAIN s : Append(s, b)[c] = s[c]
         /\ Append(s, b)[Len(s) + 1] = b
OBVIOUS

\* A function on some records is a map of records.
LEMMA MapsMake ==
  ASSUME NEW S, NEW D \in SUBSET Messages, NEW f \in [D -> S]
  PROVE  f \in Maps(S) /\ DOMAIN f = D
BY Zenon DEF Maps

\* A map of records is a function on some records.
LEMMA MapsUse ==
  ASSUME NEW S, NEW f \in Maps(S)
  PROVE  f \in [DOMAIN f -> S] /\ DOMAIN f \subseteq Messages
BY Zenon DEF Maps

-----------------------------------------------------------------------------
(* What a transaction within one session must respect *)

Grows(s, t) ==
    /\ t.tag = s.tag /\ t.gen = s.gen
    /\ t.sent = s.sent \/ \E b \in Bodies \ {First} : t.sent = Append(s.sent, b)
    /\ s.credited \subseteq t.credited /\ t.credited \subseteq DOMAIN s.sent
    /\ t.state = "established" \/ (t.state = s.state /\ t.received = s.received)

\* A session that grows stays well formed.
LEMMA SessionKept ==
  ASSUME NEW n \in Nodes, NEW x \in States, NEW y \in States, SessionOf(n, x),
         Grows(x.session, y.session), x.session.gen > 0, y.firsts = x.firsts
  PROVE  SessionOf(n, y)
<1> DEFINE s == x.session
           t == y.session
<1>1. s \in Sessions /\ t \in Sessions /\ s.sent \in Seq(Bodies) /\ t.gen > 0
  BY Zenon DEF States, Sessions, Grows
<1>2. /\ \A c \in DOMAIN t.sent : t.sent[c] = First => t.tag[1] = n
      /\ DOMAIN s.sent \subseteq DOMAIN t.sent
  <2>1. CASE t.sent = s.sent  BY <2>1, Zenon DEF SessionOf, Grows
  <2>2. CASE t.sent # s.sent
    <3>1. PICK b \in Bodies \ {First} : t.sent = Append(s.sent, b)  BY <2>2, Zenon DEF Grows
    <3> QED  BY <3>1, <1>1, AppendProps DEF SessionOf, Grows
  <2> QED  BY <2>1, <2>2, Zenon
<1> QED  BY <1>1, <1>2 DEF SessionOf, Grows

\* The ledger stays well formed when each receipt is an old one, an obligation, or got the next counter.
LEMMA LedgerKept ==
  ASSUME NEW n \in Nodes, NEW x \in States, NEW y \in States, SessionOf(n, x), LedgerOf(n, x),
         Grows(x.session, y.session), x.session.gen > 0, y.firsts = x.firsts,
         y.session.credited = x.session.credited,
         \A m \in DOMAIN y.receipts :
            \/ /\ m \in DOMAIN x.receipts /\ y.receipts[m] = x.receipts[m]
               /\ m \in x.owed => m \in y.owed
            \/ y.receipts[m] = {} /\ m \in y.owed
            \/ /\ y.receipts[m] = {<<x.session.tag, Len(x.session.sent) + 1>>}
               /\ m \in Messages /\ y.session.sent = Append(x.session.sent, Ack(m))
  PROVE  LedgerOf(n, y)
<1> DEFINE s == x.session
           t == y.session
<1>1. s \in Sessions /\ t \in Sessions /\ s.sent \in Seq(Bodies) /\ s.gen \in Nat
  BY Zenon DEF States, Sessions
<1>2. DOMAIN s.sent \subseteq DOMAIN t.sent /\ \A c \in DOMAIN s.sent : t.sent[c] = s.sent[c]
  <2>1. CASE t.sent = s.sent  BY <2>1, Zenon
  <2>2. CASE t.sent # s.sent
    <3>1. PICK b \in Bodies \ {First} : t.sent = Append(s.sent, b)  BY <2>2, Zenon DEF Grows
    <3> QED  BY <3>1, <1>1, AppendProps
  <2> QED  BY <2>1, <2>2, Zenon
<1> SUFFICES ASSUME NEW m \in DOMAIN y.receipts
             PROVE  /\ y.receipts[m] = {} => m \in y.owed
                    /\ \A b \in y.receipts[m] :
                          /\ b[1][1] = n \/ b[1] \in y.firsts
                          /\ b[1][2] <= t.gen
                          /\ b[1] = t.tag => b[2] \in Uncredited(t) /\ t.sent[b[2]] = Ack(m)
  BY Zenon DEF LedgerOf
<1>3. CASE m \in DOMAIN x.receipts /\ y.receipts[m] = x.receipts[m] /\ (m \in x.owed => m \in y.owed)
  BY <1>2, <1>3 DEF LedgerOf, Grows, Uncredited
<1>4. CASE y.receipts[m] = {} /\ m \in y.owed
  BY <1>4, Zenon
<1>5. CASE /\ y.receipts[m] = {<<s.tag, Len(s.sent) + 1>>}
           /\ m \in Messages /\ t.sent = Append(s.sent, Ack(m))
  <2>1. Ack(m) \in Bodies  BY <1>5, BodyKinds, Zenon
  <2>2. Len(s.sent) + 1 \in Uncredited(t) /\ t.sent[Len(s.sent) + 1] = Ack(m)
    BY <2>1, <1>1, <1>5, AppendProps DEF Uncredited, SessionOf, Grows
  <2>3. s.tag \in Tags /\ s.tag[2] = s.gen /\ (s.tag[1] = n \/ s.tag \in x.firsts)
    BY Zenon DEF SessionOf
  <2>4. ASSUME NEW b \in y.receipts[m] PROVE b[1] = s.tag /\ b[2] = Len(s.sent) + 1
    BY <1>5, <2>4
  <2>5. y.receipts[m] # {}  BY <1>5, ZenonT(30)
  <2> QED  BY <1>1, <2>2, <2>3, <2>4, <2>5 DEF Grows
<1> QED  BY <1>3, <1>4, <1>5, Zenon

\* What is acknowledged stays held when records and effects are only added.
LEMMA HeldKept ==
  ASSUME NEW n \in Nodes, NEW x \in States, NEW y \in States, HeldBy(n, x),
         \A m \in Messages :
            /\ Has(x, m) => Has(y, m)
            /\ m \in DOMAIN y.receipts \cup y.owed =>
                  m \in DOMAIN x.receipts \cup x.owed \/ (Kind[m] = "durable" => Has(y, m))
            /\ m \in DOMAIN y.pending => m \in DOMAIN x.pending \/ From[m] = n,
         \/ y.session.sent = x.session.sent
         \/ y.session.sent = <<First>> \/ y.session.sent = <<>>
         \/ \E b \in Bodies :
               /\ y.session.sent = Append(x.session.sent, b)
               /\ \A m \in Messages : b = Ack(m) /\ Kind[m] = "durable" => Has(y, m)
  PROVE  HeldBy(n, y)
<1>1. ASSUME NEW m \in Messages, NEW c \in DOMAIN y.session.sent, y.session.sent[c] = Ack(m),
             Kind[m] = "durable"
      PROVE  Has(y, m)
  <2>1. CASE y.session.sent = x.session.sent  BY <1>1, <2>1, Zenon DEF HeldBy
  <2>2. CASE y.session.sent = <<First>> \/ y.session.sent = <<>>
    BY <1>1, <2>2, BodyKinds
  <2>3. CASE \E b \in Bodies :
               /\ y.session.sent = Append(x.session.sent, b)
               /\ b = Ack(m) => Has(y, m)
    <3>1. PICK b \in Bodies : y.session.sent = Append(x.session.sent, b) /\ (b = Ack(m) => Has(y, m))
      BY <2>3, Zenon
    <3>2. x.session.sent \in Seq(Bodies)  BY Zenon DEF States, Sessions
    <3> QED  BY <1>1, <3>1, <3>2, AppendProps DEF HeldBy
  <2> QED  BY <1>1, <2>1, <2>2, <2>3, Zenon
<1> QED  BY <1>1, Zenon DEF HeldBy

-----------------------------------------------------------------------------
(* The ledger *)

\* Ledger::expire drops what the clock passed and leaves the rest alone.
LEMMA ExpiredProps ==
  ASSUME NEW x \in States, NEW now \in Nat
  PROVE  LET e == Expired(x, now)
         IN  /\ e \in States
             /\ e.session = x.session /\ e.pending = x.pending /\ e.firsts = x.firsts
             /\ e.inbox = x.inbox /\ e.taken = x.taken
             /\ DOMAIN e.receipts = {m \in DOMAIN x.receipts : Horizon[m] > LedgerNow(x, now)}
             /\ \A m \in DOMAIN e.receipts : e.receipts[m] = x.receipts[m]
             /\ e.owed = {m \in x.owed : Horizon[m] > LedgerNow(x, now)}
<1> DEFINE floor == LedgerNow(x, now)
           live == {m \in DOMAIN x.receipts : Horizon[m] > floor}
           r == [m \in live |-> x.receipts[m]]
           o == {m \in x.owed : Horizon[m] > floor}
<1>1. floor \in Nat  BY Zenon DEF LedgerNow, States
<1>2. x.receipts \in Maps(Acks)  BY Zenon DEF States
<1>3. live \subseteq Messages /\ r \in [live -> Acks]
  BY <1>2, MapsUse, Zenon
<1>4. r \in Maps(Acks) /\ DOMAIN r = live  BY <1>3, MapsMake, Zenon
<1>5. o \in SUBSET Messages  BY Zenon DEF States
<1>6. Expired(x, now) = [x EXCEPT !.floor = floor, !.receipts = r, !.owed = o]
  BY Zenon DEF Expired
<1>7. \A m \in live : r[m] = x.receipts[m]  BY Zenon
<1> HIDE DEF floor, r, o
<1>8. LET e == Expired(x, now)
      IN  /\ e \in States
          /\ e.session = x.session /\ e.pending = x.pending /\ e.firsts = x.firsts
          /\ e.inbox = x.inbox /\ e.taken = x.taken
          /\ e.receipts = r /\ e.owed = o
  BY <1>1, <1>4, <1>5, <1>6, ZenonT(30) DEF States
<1> QED  BY <1>4, <1>7, <1>8, Zenon DEF floor, o

Records(r, m, a, w) ==
    /\ w \in Maps(Acks)
    /\ DOMAIN w = DOMAIN r \cup {m} /\ w[m] = a
    /\ \A k \in DOMAIN r \ {m} : w[k] = r[k]

\* One receipt is added or replaced.
LEMMA WithReceiptProps ==
  ASSUME NEW r \in Maps(Acks), NEW m \in Messages, NEW a \in Acks
  PROVE  Records(r, m, a, WithReceipt(r, m, a))
<1>1. WithReceipt(r, m, a) \in [DOMAIN r \cup {m} -> Acks]
  BY MapsUse, Zenon DEF WithReceipt
<1>2. DOMAIN r \cup {m} \in SUBSET Messages  BY MapsUse, Zenon
<1>3. WithReceipt(r, m, a) \in Maps(Acks) /\ DOMAIN WithReceipt(r, m, a) = DOMAIN r \cup {m}
  BY <1>1, <1>2, MapsMake, Zenon
<1> QED  BY <1>3, Zenon DEF WithReceipt, Records

\* A state with another ledger and inbox.
Relogged(x, y) ==
    /\ y \in States
    /\ y.session = x.session /\ y.pending = x.pending /\ y.firsts = x.firsts
    /\ y.inbox = x.inbox /\ y.taken = x.taken

\* What Ledger::stage_data does to the ledger.
LEMMA StageDataProps ==
  ASSUME NEW x \in States, NEW m \in Messages, NEW b \in Tags \X Nat, NEW now \in Nat
  PROVE  LET y == StageData(x, m, b, now)
         IN  /\ Relogged(x, y)
             /\ DOMAIN y.receipts \subseteq DOMAIN x.receipts \cup {m} /\ y.receipts[m] = {b}
             /\ \A k \in DOMAIN y.receipts \ {m} :
                   y.receipts[k] = x.receipts[k] /\ (k \in x.owed => k \in y.owed)
             /\ y.owed \subseteq x.owed
<1> DEFINE e == Expired(x, now)
           r == WithReceipt(e.receipts, m, {b})
           o == e.owed \ {m}
           y == StageData(x, m, b, now)
<1>1. /\ e \in States
      /\ e.session = x.session /\ e.pending = x.pending /\ e.firsts = x.firsts
      /\ e.inbox = x.inbox /\ e.taken = x.taken
      /\ DOMAIN e.receipts = {k \in DOMAIN x.receipts : Horizon[k] > LedgerNow(x, now)}
      /\ \A k \in DOMAIN e.receipts : e.receipts[k] = x.receipts[k]
      /\ e.owed = {k \in x.owed : Horizon[k] > LedgerNow(x, now)}
  BY ExpiredProps, Zenon
<1>2. y = [e EXCEPT !.receipts = r, !.owed = o]  BY Zenon DEF StageData
<1> HIDE DEF e
<1>3. e.receipts \in Maps(Acks) /\ {b} \in Acks /\ o \in SUBSET Messages
  BY <1>1, Zenon DEF States, Acks
<1>4. Records(e.receipts, m, {b}, r)  BY <1>3, WithReceiptProps, Zenon
<1>5. o = {k \in x.owed : Horizon[k] > LedgerNow(x, now)} \ {m}  BY <1>1, Zenon
<1> HIDE DEF r, o, y
<1>6. /\ y \in States /\ y.session = e.session /\ y.pending = e.pending /\ y.firsts = e.firsts
      /\ y.inbox = e.inbox /\ y.taken = e.taken /\ y.receipts = r /\ y.owed = o
  BY <1>1, <1>2, <1>3, <1>4, ZenonT(30) DEF States, Records
<1> QED  BY <1>1, <1>4, <1>5, <1>6, Zenon DEF Relogged, Records, y

\* What Ledger::stage_deferred_ack does to the ledger.
LEMMA StageDeferredProps ==
  ASSUME NEW x \in States, NEW m \in Messages, NEW now \in Nat
  PROVE  LET y == StageDeferredAck(x, m, now)
         IN  /\ Relogged(x, y)
             /\ DOMAIN y.receipts \subseteq DOMAIN x.receipts \cup {m}
             /\ y.receipts[m] = {} /\ m \in y.owed
             /\ \A k \in DOMAIN y.receipts \ {m} :
                   y.receipts[k] = x.receipts[k] /\ (k \in x.owed => k \in y.owed)
             /\ y.owed \subseteq x.owed \cup {m}
<1> DEFINE e == Expired(x, now)
           r == WithReceipt(e.receipts, m, {})
           o == e.owed \cup {m}
           y == StageDeferredAck(x, m, now)
<1>1. /\ e \in States
      /\ e.session = x.session /\ e.pending = x.pending /\ e.firsts = x.firsts
      /\ e.inbox = x.inbox /\ e.taken = x.taken
      /\ DOMAIN e.receipts = {k \in DOMAIN x.receipts : Horizon[k] > LedgerNow(x, now)}
      /\ \A k \in DOMAIN e.receipts : e.receipts[k] = x.receipts[k]
      /\ e.owed = {k \in x.owed : Horizon[k] > LedgerNow(x, now)}
  BY ExpiredProps, Zenon
<1>2. y = [e EXCEPT !.receipts = r, !.owed = o]  BY Zenon DEF StageDeferredAck
<1> HIDE DEF e
<1>3. e.receipts \in Maps(Acks) /\ {} \in Acks /\ o \in SUBSET Messages
  BY <1>1, Zenon DEF States, Acks
<1>4. Records(e.receipts, m, {}, r)  BY <1>3, WithReceiptProps, Zenon
<1>5. o = {k \in x.owed : Horizon[k] > LedgerNow(x, now)} \cup {m}  BY <1>1, Zenon
<1> HIDE DEF r, o, y
<1>6. /\ y \in States /\ y.session = e.session /\ y.pending = e.pending /\ y.firsts = e.firsts
      /\ y.inbox = e.inbox /\ y.taken = e.taken /\ y.receipts = r /\ y.owed = o
  BY <1>1, <1>2, <1>3, <1>4, ZenonT(30) DEF States, Records
<1> QED  BY <1>1, <1>4, <1>5, <1>6, Zenon DEF Relogged, Records, y

\* What Ledger::stage_prepared_ack does to the ledger.
LEMMA StagePreparedProps ==
  ASSUME NEW x \in States, NEW m \in x.owed, NEW b \in Tags \X Nat, NEW now \in Nat,
         Horizon[m] > LedgerNow(x, now)
  PROVE  LET y == StagePreparedAck(x, m, b, now)
         IN  /\ Relogged(x, y)
             /\ DOMAIN y.receipts \subseteq DOMAIN x.receipts
             /\ m \in DOMAIN y.receipts => y.receipts[m] = {b}
             /\ \A k \in DOMAIN y.receipts \ {m} :
                   y.receipts[k] = x.receipts[k] /\ (k \in x.owed => k \in y.owed)
             /\ y.owed \subseteq x.owed
<1> DEFINE e == Expired(x, now)
           r == IF m \in DOMAIN e.receipts THEN [e.receipts EXCEPT ![m] = {b}] ELSE e.receipts
           o == e.owed \ {m}
           y == StagePreparedAck(x, m, b, now)
<1>1. /\ e \in States
      /\ e.session = x.session /\ e.pending = x.pending /\ e.firsts = x.firsts
      /\ e.inbox = x.inbox /\ e.taken = x.taken
      /\ DOMAIN e.receipts = {k \in DOMAIN x.receipts : Horizon[k] > LedgerNow(x, now)}
      /\ \A k \in DOMAIN e.receipts : e.receipts[k] = x.receipts[k]
      /\ e.owed = {k \in x.owed : Horizon[k] > LedgerNow(x, now)}
  BY ExpiredProps, Zenon
<1>2. m \in e.owed  BY <1>1, Zenon
<1>3. y = [e EXCEPT !.owed = o, !.receipts = r]  BY <1>2, Zenon DEF StagePreparedAck
<1> HIDE DEF e
<1>4. e.receipts \in Maps(Acks) /\ {b} \in Acks /\ o \in SUBSET Messages
  BY <1>1, Zenon DEF States, Acks
<1>5. /\ r \in Maps(Acks) /\ DOMAIN r = DOMAIN e.receipts /\ (m \in DOMAIN r => r[m] = {b})
      /\ \A k \in DOMAIN e.receipts \ {m} : r[k] = e.receipts[k]
  <2>1. e.receipts \in [DOMAIN e.receipts -> Acks] /\ DOMAIN e.receipts \in SUBSET Messages
    BY <1>4, MapsUse, Zenon
  <2>2. r \in [DOMAIN e.receipts -> Acks]  BY <1>4, <2>1, Zenon
  <2>3. r \in Maps(Acks)  BY <2>1, <2>2, MapsMake, Zenon
  <2> QED  BY <2>1, <2>2, <2>3, Zenon
<1>6. o = {k \in x.owed : Horizon[k] > LedgerNow(x, now)} \ {m}  BY <1>1, Zenon
<1> HIDE DEF r, o, y
<1>7. /\ y \in States /\ y.session = e.session /\ y.pending = e.pending /\ y.firsts = e.firsts
      /\ y.inbox = e.inbox /\ y.taken = e.taken /\ y.receipts = r /\ y.owed = o
  BY <1>1, <1>3, <1>4, <1>5, ZenonT(30) DEF States
<1> QED  BY <1>1, <1>5, <1>6, <1>7, Zenon DEF Relogged, y

\* What Ledger::stage_credit does to the ledger.
LEMMA StageCreditProps ==
  ASSUME NEW x \in States, NEW s, NEW now \in Nat
  PROVE  LET y == StageCredit(x, s, now)
         IN  /\ Relogged(x, y)
             /\ DOMAIN y.receipts \subseteq DOMAIN x.receipts
             /\ \A k \in DOMAIN y.receipts :
                   /\ y.receipts[k] = x.receipts[k] /\ (k \in x.owed => k \in y.owed)
                   /\ \A b \in y.receipts[k] : ~(b[1] = s.tag /\ b[2] \in s.credited)
             /\ y.owed \subseteq x.owed
<1> DEFINE e == Expired(x, now)
           kept == {m \in DOMAIN e.receipts :
                      \A b \in e.receipts[m] : ~(b[1] = s.tag /\ b[2] \in s.credited)}
           r == [m \in kept |-> e.receipts[m]]
           y == StageCredit(x, s, now)
<1>1. /\ e \in States
      /\ e.session = x.session /\ e.pending = x.pending /\ e.firsts = x.firsts
      /\ e.inbox = x.inbox /\ e.taken = x.taken
      /\ DOMAIN e.receipts = {k \in DOMAIN x.receipts : Horizon[k] > LedgerNow(x, now)}
      /\ \A k \in DOMAIN e.receipts : e.receipts[k] = x.receipts[k]
      /\ e.owed = {k \in x.owed : Horizon[k] > LedgerNow(x, now)}
  BY ExpiredProps, Zenon
<1>2. y = [e EXCEPT !.receipts = r]  BY Zenon DEF StageCredit
<1> HIDE DEF e
<1>3. e.receipts \in Maps(Acks)  BY <1>1, Zenon DEF States
<1>4. kept \in SUBSET Messages /\ r \in [kept -> Acks]  BY <1>3, MapsUse, Zenon
<1>5. r \in Maps(Acks) /\ DOMAIN r = kept  BY <1>4, MapsMake, Zenon
<1>6. \A m \in kept : /\ r[m] = e.receipts[m] /\ m \in DOMAIN e.receipts
                      /\ \A b \in e.receipts[m] : ~(b[1] = s.tag /\ b[2] \in s.credited)
  BY Zenon
<1> HIDE DEF r, kept, y
<1>7. /\ y \in States /\ y.session = e.session /\ y.pending = e.pending /\ y.firsts = e.firsts
      /\ y.inbox = e.inbox /\ y.taken = e.taken /\ y.receipts = r /\ y.owed = e.owed
  BY <1>1, <1>2, <1>5, Zenon DEF States
<1> QED  BY <1>1, <1>5, <1>6, <1>7, Zenon DEF Relogged, y

-----------------------------------------------------------------------------
(* The transactions of a node *)

\* y follows x in the same session after the counters C were received; h tells
\* whether the peer was heard.
Within(n, x, y, C, h) ==
    /\ Local(n, y) /\ Ahead(x, y) /\ y.firsts = x.firsts
    /\ y.session.tag = x.session.tag /\ y.session.gen = x.session.gen
    /\ Len(x.session.sent) <= Len(y.session.sent)
    /\ y.session.received \subseteq x.session.received \cup C
    /\ y.session.state = "established" \/ y.session.received # {} =>
          x.session.state = "established" \/ x.session.received # {} \/ h

\* The same but for the packets that are only in RAM.
SameSession(s, t) ==
    /\ t.gen = s.gen /\ t.tag = s.tag /\ t.state = s.state /\ t.sent = s.sent
    /\ t.credited = s.credited /\ t.received = s.received
    /\ s.gen = 0 => t = s

\* A change that leaves session and ledger alone is a change within the session.
LEMMA SameWithin ==
  ASSUME NEW n \in Nodes, NEW x, Local(n, x), NEW y \in States,
         SameSession(x.session, y.session), y.firsts = x.firsts,
         y.receipts = x.receipts, y.owed = x.owed,
         \A m \in Messages : /\ Has(x, m) => Has(y, m)
                             /\ m \in DOMAIN y.pending => m \in DOMAIN x.pending \/ From[m] = n
  PROVE  Within(n, x, y, {}, FALSE)
<1>1. x \in States /\ SessionOf(n, x) /\ LedgerOf(n, x) /\ HeldBy(n, x)  BY Zenon DEF Local
<1>2. SessionOf(n, y)  BY <1>1, Zenon DEF SessionOf, SameSession
<1>3. LedgerOf(n, y)  BY <1>1 DEF LedgerOf, SameSession, Uncredited
<1>4. HeldBy(n, y)  BY <1>1, HeldKept DEF SameSession
<1>5. Len(x.session.sent) \in Nat /\ x.session.gen \in Nat  BY <1>1 DEF States, Sessions
<1> QED  BY <1>2, <1>3, <1>4, <1>5 DEF Local, Within, Ahead, SameSession

\* A session that takes a counter grows.
LEMMA AppendGrows ==
  ASSUME NEW s \in Sessions, s.credited \subseteq DOMAIN s.sent, NEW b \in Bodies \ {First}
  PROVE  LET t == [s EXCEPT !.sent = Append(@, b)]
         IN  /\ t \in Sessions /\ Grows(s, t) /\ t.sent = Append(s.sent, b)
             /\ t.credited = s.credited /\ t.received = s.received /\ t.state = s.state
             /\ t.tag = s.tag /\ t.gen = s.gen
<1>1. s.sent \in Seq(Bodies)  BY Zenon DEF Sessions
<1>2. Append(s.sent, b) \in Seq(Bodies)  BY <1>1, AppendProps, Zenon
<1> DEFINE t == [s EXCEPT !.sent = Append(s.sent, b)]
<1>3. /\ t \in Sessions /\ t.sent = Append(s.sent, b)
      /\ t.credited = s.credited /\ t.received = s.received /\ t.state = s.state
      /\ t.tag = s.tag /\ t.gen = s.gen
  BY <1>2, ZenonT(30) DEF Sessions
<1> HIDE DEF t
<1>4. Grows(s, t)  BY <1>3, Zenon DEF Grows
<1> QED  BY <1>3, <1>4, Zenon DEF t

\* A session that receives a counter grows.
LEMMA ReceivedGrows ==
  ASSUME NEW s \in Sessions, s.credited \subseteq DOMAIN s.sent, NEW c \in Nat
  PROVE  LET t == Received(s, c)
         IN  /\ t \in Sessions /\ Grows(s, t) /\ t.sent = s.sent /\ t.credited = s.credited
             /\ t.received = s.received \cup {c} /\ t.state = "established"
             /\ t.tag = s.tag /\ t.gen = s.gen
<1> DEFINE t == Received(s, c)
<1>1. /\ t \in Sessions /\ t.sent = s.sent /\ t.credited = s.credited
      /\ t.received = s.received \cup {c} /\ t.state = "established"
      /\ t.tag = s.tag /\ t.gen = s.gen
  BY ZenonT(30) DEF Received, Sessions
<1> HIDE DEF t
<1>2. Grows(s, t)  BY <1>1, Zenon DEF Grows
<1> QED  BY <1>1, <1>2, Zenon DEF t

\* A session that grows has no fewer counters.
LEMMA GrownLen ==
  ASSUME NEW s \in Sessions, NEW t \in Sessions, Grows(s, t)
  PROVE  Len(s.sent) <= Len(t.sent)
<1>1. s.sent \in Seq(Bodies)  BY Zenon DEF Sessions
<1>2. CASE t.sent = s.sent  BY <1>1, <1>2
<1>3. ASSUME NEW b \in Bodies, t.sent = Append(s.sent, b) PROVE Len(s.sent) <= Len(t.sent)
  BY <1>1, <1>3, AppendProps
<1> QED  BY <1>2, <1>3, Zenon DEF Grows

\* The record takes a counter of the session.
LEMMA EncryptedWithin ==
  ASSUME NEW n \in Nodes, NEW x, Local(n, x), x.session.gen > 0,
         NEW m \in Messages, From[m] = n
  PROVE  Within(n, x, Encrypted(x, x.session, m), {}, FALSE)
<1> DEFINE s == x.session
           t == [s EXCEPT !.sent = Append(@, Data(m))]
           f == WithPending(x.pending, m, Len(s.sent) + 1)
           y == Encrypted(x, s, m)
<1>1. x \in States /\ SessionOf(n, x) /\ LedgerOf(n, x) /\ HeldBy(n, x) /\ s \in Sessions
  BY Zenon DEF Local, States
<1>2. Data(m) \in Bodies \ {First} /\ s.credited \subseteq DOMAIN s.sent
  BY <1>1, BodyKinds, Zenon DEF SessionOf
<1>3. /\ t \in Sessions /\ Grows(s, t) /\ t.sent = Append(s.sent, Data(m))
      /\ t.credited = s.credited /\ t.received = s.received /\ t.state = s.state
      /\ t.tag = s.tag /\ t.gen = s.gen
  BY <1>1, <1>2, AppendGrows, Zenon
<1>4. y = [x EXCEPT !.session = t, !.pending = f]  BY Zenon DEF Encrypted
<1>5. f \in Maps(Nat) /\ DOMAIN f = DOMAIN x.pending \cup {m}
  <2>1. x.pending \in [DOMAIN x.pending -> Nat] /\ DOMAIN x.pending \subseteq Messages /\ Len(s.sent) \in Nat
    BY <1>1, MapsUse DEF States, Sessions
  <2>2. f \in [DOMAIN x.pending \cup {m} -> Nat]  BY <2>1 DEF WithPending
  <2>3. DOMAIN x.pending \cup {m} \in SUBSET Messages  BY <2>1, Zenon
  <2> QED  BY <2>2, <2>3, MapsMake, Zenon
<1> HIDE DEF s, t, f, y
<1>6. /\ y \in States /\ y.session = t /\ y.pending = f /\ y.receipts = x.receipts /\ y.owed = x.owed
      /\ y.inbox = x.inbox /\ y.taken = x.taken /\ y.firsts = x.firsts
  BY <1>1, <1>3, <1>4, <1>5, ZenonT(30) DEF States
<1>7. SessionOf(n, y)  BY <1>1, <1>3, <1>6, SessionKept, Zenon DEF s
<1>8. LedgerOf(n, y)  BY <1>1, <1>3, <1>6, LedgerKept, Zenon DEF s
<1>9. HeldBy(n, y)
  <2>1. \A k \in Messages : Has(x, k) => Has(y, k)  BY <1>6, Zenon DEF Has
  <2>2. \A k \in Messages : Data(m) # Ack(k)  BY BodyKinds, Zenon
  <2> QED  BY <1>1, <1>2, <1>3, <1>5, <1>6, <2>1, <2>2, HeldKept DEF s
<1>10. Ahead(x, y) /\ Len(s.sent) <= Len(t.sent)
  BY <1>1, <1>3, <1>6, GrownLen DEF Ahead, Has, s, Sessions
<1> QED  BY <1>3, <1>6, <1>7, <1>8, <1>9, <1>10, Zenon DEF Local, Within, s, y

\* The application's side: a waiting record, an entry taken, a deadline passed,
\* a refused checkpoint.
LEMMA DeferredWithin ==
  ASSUME NEW n \in Nodes, NEW x, Local(n, x), NEW m \in Messages, From[m] = n
  PROVE  Within(n, x, Deferred(x, m), {}, FALSE)
<1> DEFINE f == WithPending(x.pending, m, 0)
           y == Deferred(x, m)
<1>1. x \in States  BY Zenon DEF Local
<1>2. f \in Maps(Nat) /\ DOMAIN f = DOMAIN x.pending \cup {m}
  <2>1. x.pending \in [DOMAIN x.pending -> Nat] /\ DOMAIN x.pending \subseteq Messages
    BY <1>1, MapsUse, Zenon DEF States
  <2>2. f \in [DOMAIN x.pending \cup {m} -> Nat]  BY <2>1, Zenon DEF WithPending
  <2>3. DOMAIN x.pending \cup {m} \in SUBSET Messages  BY <2>1, Zenon
  <2> QED  BY <2>2, <2>3, MapsMake, Zenon
<1>3. y = [x EXCEPT !.pending = f]  BY Zenon DEF Deferred
<1> HIDE DEF f, y
<1>4. /\ y \in States /\ y.session = x.session /\ y.pending = f /\ y.receipts = x.receipts
      /\ y.owed = x.owed /\ y.inbox = x.inbox /\ y.taken = x.taken /\ y.firsts = x.firsts
  BY <1>1, <1>2, <1>3, Zenon DEF States
<1> QED  BY <1>2, <1>4, SameWithin, ZenonT(30) DEF SameSession, Has, y

\* A pending record is dropped.
LEMMA DroppedWithin ==
  ASSUME NEW n \in Nodes, NEW x, Local(n, x), NEW m
  PROVE  Within(n, x, [x EXCEPT !.pending = Without(@, m)], {}, FALSE)
<1> DEFINE f == Without(x.pending, m)
           y == [x EXCEPT !.pending = f]
<1>1. x \in States  BY Zenon DEF Local
<1>2. f \in Maps(Nat) /\ DOMAIN f = DOMAIN x.pending \ {m}
  <2>1. x.pending \in [DOMAIN x.pending -> Nat] /\ DOMAIN x.pending \subseteq Messages
    BY <1>1, MapsUse, Zenon DEF States
  <2>2. f \in [DOMAIN x.pending \ {m} -> Nat]  BY <2>1, Zenon DEF Without
  <2>3. DOMAIN x.pending \ {m} \in SUBSET Messages  BY <2>1, Zenon
  <2> QED  BY <2>2, <2>3, MapsMake, Zenon
<1> HIDE DEF f
<1>3. /\ y \in States /\ y.session = x.session /\ y.pending = f /\ y.receipts = x.receipts
      /\ y.owed = x.owed /\ y.inbox = x.inbox /\ y.taken = x.taken /\ y.firsts = x.firsts
  BY <1>1, <1>2, Zenon DEF States
<1> HIDE DEF y
<1>4. Within(n, x, y, {}, FALSE)  BY <1>2, <1>3, SameWithin, ZenonT(30) DEF SameSession, Has
<1> QED  BY <1>4, ZenonT(30) DEF y, f

\* An uncertain checkpoint pauses the node.
LEMMA FailedWithin ==
  ASSUME NEW n \in Nodes, NEW x, Local(n, x)
  PROVE  Within(n, x, [x EXCEPT !.failed = TRUE], {}, FALSE)
<1> DEFINE y == [x EXCEPT !.failed = TRUE]
<1>1. x \in States  BY Zenon DEF Local
<1>2. /\ y \in States /\ y.session = x.session /\ y.pending = x.pending /\ y.receipts = x.receipts
      /\ y.owed = x.owed /\ y.inbox = x.inbox /\ y.taken = x.taken /\ y.firsts = x.firsts
  BY <1>1, ZenonT(30) DEF States
<1> HIDE DEF y
<1> QED  BY <1>2, SameWithin, ZenonT(30) DEF SameSession, Has, y

\* The application takes a record out of the inbox.
LEMMA ConsumedWithin ==
  ASSUME NEW n \in Nodes, NEW x, Local(n, x), NEW m \in Messages, x.inbox[m] > 0
  PROVE  Within(n, x, [x EXCEPT !.inbox[m] = @ - 1, !.taken[m] = @ + 1], {}, FALSE)
<1> DEFINE i == [x.inbox EXCEPT ![m] = x.inbox[m] - 1]
           t == [x.taken EXCEPT ![m] = x.taken[m] + 1]
           y == [x EXCEPT !.inbox[m] = @ - 1, !.taken[m] = @ + 1]
<1>1. x \in States /\ x.inbox \in [Messages -> Nat] /\ x.taken \in [Messages -> Nat]
  BY Zenon DEF Local, States
<1>2. i \in [Messages -> Nat] /\ t \in [Messages -> Nat]  BY <1>1
<1>3. \A k \in Messages : i[k] + t[k] = x.inbox[k] + x.taken[k]  BY <1>1
<1>4. y = [x EXCEPT !.inbox = i, !.taken = t]  BY <1>1, Zenon DEF States
<1> HIDE DEF i, t, y
<1>5. /\ y \in States /\ y.session = x.session /\ y.pending = x.pending /\ y.receipts = x.receipts
      /\ y.owed = x.owed /\ y.inbox = i /\ y.taken = t /\ y.firsts = x.firsts
  BY <1>1, <1>2, <1>4, ZenonT(30) DEF States
<1>6. \A k \in Messages : Has(x, k) => Has(y, k)  BY <1>3, <1>5, Zenon DEF Has
<1> QED  BY <1>5, <1>6, SameWithin, ZenonT(30) DEF SameSession, y

\* What was only in RAM is not in the archive.
LEMMA RestoredWithin ==
  ASSUME NEW n \in Nodes, NEW x, Local(n, x)
  PROVE  /\ Within(n, x, Restored(x), {}, FALSE)
         /\ SameSession(x.session, Restored(x).session) /\ Restored(x).firsts = x.firsts
<1> DEFINE s == x.session
           ram == {c \in Uncredited(s) : s.sent[c][1] = "data" /\ Kind[s.sent[c][2]] = "volatile"}
           kept == {m \in DOMAIN x.pending : Kind[m] # "volatile"}
           t == [s EXCEPT !.missing = ram]
           f == [m \in kept |-> x.pending[m]]
           y == Restored(x)
<1>1. x \in States /\ s \in Sessions /\ SessionOf(n, x)  BY Zenon DEF Local, States
<1>2. ram \in SUBSET Nat
  <2>1. DOMAIN s.sent \subseteq Nat  BY <1>1 DEF Sessions
  <2> QED  BY <2>1, Zenon DEF Uncredited
<1>3. s.gen = 0 => ram = {} /\ s.missing = {}  BY <1>1 DEF SessionOf, NoSession, Uncredited
<1>4. f \in Maps(Nat) /\ DOMAIN f = kept /\ kept \subseteq DOMAIN x.pending
  <2>1. x.pending \in [DOMAIN x.pending -> Nat] /\ DOMAIN x.pending \subseteq Messages
    BY <1>1, MapsUse, Zenon DEF States
  <2>2. f \in [kept -> Nat]  BY <2>1, Zenon
  <2>3. kept \in SUBSET Messages  BY <2>1, Zenon
  <2> QED  BY <2>2, <2>3, MapsMake, Zenon
<1>5. y = [x EXCEPT !.session = t, !.pending = f]  BY <1>1, Zenon DEF Restored, States
<1> HIDE DEF s, ram, kept, f, y
<1>6. /\ t \in Sessions /\ t.gen = s.gen /\ t.tag = s.tag /\ t.state = s.state /\ t.sent = s.sent
      /\ t.credited = s.credited /\ t.received = s.received /\ t.missing = ram
  BY <1>1, <1>2, Zenon DEF Sessions
<1>7. s.gen = 0 => t = s  BY <1>1, <1>3, ZenonT(30) DEF Sessions
<1> HIDE DEF t
<1>8. /\ y \in States /\ y.session = t /\ y.pending = f /\ y.receipts = x.receipts
      /\ y.owed = x.owed /\ y.inbox = x.inbox /\ y.taken = x.taken /\ y.firsts = x.firsts
  BY <1>1, <1>4, <1>5, <1>6, ZenonT(30) DEF States
<1>9. SameSession(x.session, y.session)  BY <1>6, <1>7, <1>8, Zenon DEF SameSession, s
<1>10. Within(n, x, y, {}, FALSE)  BY <1>4, <1>8, <1>9, SameWithin, ZenonT(30) DEF Has
<1> QED  BY <1>8, <1>9, <1>10, ZenonT(30) DEF y

\* A session that grows, with ledger and effects in order, is a change within the session.
LEMMA GrownWithin ==
  ASSUME NEW n \in Nodes, NEW x, Local(n, x), x.session.gen > 0, NEW y \in States,
         Grows(x.session, y.session), y.firsts = x.firsts, LedgerOf(n, y), HeldBy(n, y),
         \A m \in Messages : Has(x, m) => Has(y, m),
         NEW C, y.session.received \subseteq x.session.received \cup C,
         NEW h, h \/ (y.session.state = x.session.state /\ y.session.received = x.session.received)
  PROVE  Within(n, x, y, C, h)
<1>1. x \in States /\ SessionOf(n, x) /\ x.session \in Sessions /\ y.session \in Sessions
  BY Zenon DEF Local, States
<1>2. SessionOf(n, y)  BY <1>1, SessionKept, Zenon
<1>3. Len(x.session.sent) <= Len(y.session.sent)  BY <1>1, GrownLen, Zenon
<1>4. y.session.tag = x.session.tag /\ y.session.gen = x.session.gen  BY Zenon DEF Grows
<1>5. x.session.gen <= y.session.gen  BY <1>1, <1>4 DEF Sessions
<1> QED  BY <1>2, <1>3, <1>4, <1>5, Zenon DEF Local, Within, Ahead

\* A second change that receives nothing keeps the first within the session.
LEMMA WithinThen ==
  ASSUME NEW n, NEW x \in States, NEW u, NEW y, NEW C, NEW h,
         Within(n, x, u, C, h), Within(n, u, y, {}, FALSE)
  PROVE  Within(n, x, y, C, h)
<1>1. u \in States /\ y \in States  BY Zenon DEF Within, Local
<1>2. /\ Len(x.session.sent) \in Nat /\ Len(u.session.sent) \in Nat /\ Len(y.session.sent) \in Nat
      /\ x.session.gen \in Nat /\ u.session.gen \in Nat /\ y.session.gen \in Nat
  BY <1>1 DEF States, Sessions
<1>3. Ahead(x, y)  BY <1>2, Zenon DEF Within, Ahead
<1>4. Len(x.session.sent) <= Len(y.session.sent)  BY <1>2 DEF Within
<1> QED  BY <1>3, <1>4, Zenon DEF Within

\* A counter arrives, with or without the ACK of a pending record.
LEMMA ReceivedWithin ==
  ASSUME NEW n \in Nodes, NEW x, Local(n, x), x.session.gen > 0, NEW c \in Nat,
         NEW f \in Maps(Nat), DOMAIN f \subseteq DOMAIN x.pending
  PROVE  Within(n, x, [x EXCEPT !.session = Received(@, c), !.pending = f], {c}, TRUE)
<1> DEFINE s == x.session
           t == Received(s, c)
           y == [x EXCEPT !.session = Received(@, c), !.pending = f]
<1>1. x \in States /\ SessionOf(n, x) /\ LedgerOf(n, x) /\ HeldBy(n, x) /\ s \in Sessions
  BY Zenon DEF Local, States
<1>2. /\ t \in Sessions /\ Grows(s, t) /\ t.sent = s.sent /\ t.credited = s.credited
      /\ t.received = s.received \cup {c} /\ t.tag = s.tag
  BY <1>1, ReceivedGrows, Zenon DEF SessionOf
<1>3. y = [x EXCEPT !.session = t, !.pending = f]  BY Zenon
<1> HIDE DEF s, t, y
<1>4. /\ y \in States /\ y.session = t /\ y.pending = f /\ y.receipts = x.receipts /\ y.owed = x.owed
      /\ y.inbox = x.inbox /\ y.taken = x.taken /\ y.firsts = x.firsts
  BY <1>1, <1>2, <1>3, ZenonT(30) DEF States
<1>5. LedgerOf(n, y)  BY <1>1, <1>2, <1>4, LedgerKept, Zenon DEF s
<1>6. \A k \in Messages : Has(x, k) => Has(y, k)  BY <1>4, Zenon DEF Has
<1>7. HeldBy(n, y)  BY <1>1, <1>2, <1>4, <1>6, HeldKept, Zenon DEF s
<1>8. Within(n, x, y, {c}, TRUE)
  BY <1>2, <1>4, <1>5, <1>6, <1>7, GrownWithin, ZenonT(30) DEF s
<1> QED  BY <1>8, ZenonT(30) DEF y

\* A counter is received whose record has no effect.
LEMMA CreditOnlyWithin ==
  ASSUME NEW n \in Nodes, NEW x, Local(n, x), x.session.gen > 0, NEW c \in Nat
  PROVE  Within(n, x, [x EXCEPT !.session = Received(@, c)], {c}, TRUE)
<1>1. x \in States /\ x.pending \in Maps(Nat)  BY Zenon DEF Local, States
<1>2. [x EXCEPT !.session = Received(@, c)]
        = [x EXCEPT !.session = Received(@, c), !.pending = x.pending]
  BY <1>1, ZenonT(30) DEF States
<1>3. Within(n, x, [x EXCEPT !.session = Received(@, c), !.pending = x.pending], {c}, TRUE)
  BY <1>1, ReceivedWithin, ZenonT(30)
<1> QED  BY <1>2, <1>3, ZenonT(30)

\* An acknowledgment is received and its pending record dropped.
LEMMA ConfirmedWithin ==
  ASSUME NEW n \in Nodes, NEW x, Local(n, x), x.session.gen > 0, NEW c \in Nat, NEW m
  PROVE  Within(n, x, [x EXCEPT !.session = Received(@, c), !.pending = Without(@, m)], {c}, TRUE)
<1> DEFINE f == Without(x.pending, m)
<1>1. x \in States  BY Zenon DEF Local
<1>2. f \in Maps(Nat) /\ DOMAIN f = DOMAIN x.pending \ {m}
  <2>1. x.pending \in [DOMAIN x.pending -> Nat] /\ DOMAIN x.pending \subseteq Messages
    BY <1>1, MapsUse, Zenon DEF States
  <2>2. f \in [DOMAIN x.pending \ {m} -> Nat]  BY <2>1, Zenon DEF Without
  <2>3. DOMAIN x.pending \ {m} \in SUBSET Messages  BY <2>1, Zenon
  <2> QED  BY <2>2, <2>3, MapsMake, Zenon
<1> HIDE DEF f
<1>3. Within(n, x, [x EXCEPT !.session = Received(@, c), !.pending = f], {c}, TRUE)
  BY <1>2, ReceivedWithin, ZenonT(30)
<1> QED  BY <1>3, ZenonT(30) DEF f

\* An ACK takes a counter in the transaction that stages it.
LEMMA AckWithin ==
  ASSUME NEW n \in Nodes, NEW x, Local(n, x), x.session.gen > 0, NEW v, Relogged(x, v),
         NEW m \in Messages, Kind[m] = "durable" => Has(x, m),
         DOMAIN v.receipts \subseteq DOMAIN x.receipts \cup {m},
         m \in DOMAIN v.receipts => v.receipts[m] = {<<x.session.tag, Len(x.session.sent) + 1>>},
         \A k \in DOMAIN v.receipts \ {m} :
             v.receipts[k] = x.receipts[k] /\ (k \in x.owed => k \in v.owed),
         v.owed \subseteq x.owed
  PROVE  Within(n, x, [v EXCEPT !.session.sent = Append(@, Ack(m))], {}, FALSE)
<1> DEFINE s == x.session
           t == [s EXCEPT !.sent = Append(@, Ack(m))]
           y == [v EXCEPT !.session.sent = Append(@, Ack(m))]
<1>1. /\ x \in States /\ SessionOf(n, x) /\ LedgerOf(n, x) /\ HeldBy(n, x) /\ s \in Sessions
      /\ v \in States /\ v.session = s
  BY Zenon DEF Local, States, Relogged
<1>2. Ack(m) \in Bodies \ {First} /\ s.credited \subseteq DOMAIN s.sent
  BY <1>1, BodyKinds, Zenon DEF SessionOf
<1>3. /\ t \in Sessions /\ Grows(s, t) /\ t.sent = Append(s.sent, Ack(m))
      /\ t.credited = s.credited /\ t.received = s.received /\ t.state = s.state
  BY <1>1, <1>2, AppendGrows
<1>4. y = [v EXCEPT !.session = t]  BY <1>1, Zenon DEF States
<1> HIDE DEF s, t, y
<1>5. /\ y \in States /\ y.session = t /\ y.pending = v.pending /\ y.receipts = v.receipts
      /\ y.owed = v.owed /\ y.inbox = v.inbox /\ y.taken = v.taken /\ y.firsts = v.firsts
  BY <1>1, <1>3, <1>4, ZenonT(30) DEF States
<1>6. LedgerOf(n, y)
  <2>1. \A k \in DOMAIN y.receipts :
          \/ /\ k \in DOMAIN x.receipts /\ y.receipts[k] = x.receipts[k]
             /\ k \in x.owed => k \in y.owed
          \/ /\ y.receipts[k] = {<<s.tag, Len(s.sent) + 1>>}
             /\ k \in Messages /\ t.sent = Append(s.sent, Ack(k))
    BY <1>3, <1>5, Zenon DEF s
  <2> QED  BY <1>1, <1>3, <1>5, <2>1, LedgerKept, Zenon DEF s, Relogged
<1>7. \A k \in Messages : Has(x, k) => Has(y, k)  BY <1>5, Zenon DEF Has, Relogged
<1>8. HeldBy(n, y)
  <2>1. \A k \in Messages : Ack(m) = Ack(k) /\ Kind[k] = "durable" => Has(y, k)
    BY <1>7, BodyKinds
  <2>2. \A k \in Messages : k \in DOMAIN y.receipts \cup y.owed =>
           k \in DOMAIN x.receipts \cup x.owed \/ (Kind[k] = "durable" => Has(y, k))
    BY <1>5, <1>7, Zenon
  <2>3. y.pending = x.pending  BY <1>5, Zenon DEF Relogged
  <2> QED  BY <1>1, <1>2, <1>3, <1>5, <1>7, <2>1, <2>2, <2>3, HeldKept DEF s
<1>9. y.firsts = x.firsts  BY <1>5, Zenon DEF Relogged
<1> QED  BY <1>3, <1>5, <1>6, <1>7, <1>8, <1>9, GrownWithin, ZenonT(30) DEF s, y

\* An obligation of the ledger takes a counter as an acknowledgment.
LEMMA PreparedAckWithin ==
  ASSUME NEW n \in Nodes, NEW x, Local(n, x), x.session.gen > 0, NEW m \in x.owed, NEW now \in Nat,
         Horizon[m] > LedgerNow(x, now)
  PROVE  Within(n, x, [StagePreparedAck(x, m, <<x.session.tag, Len(x.session.sent) + 1>>, now)
                         EXCEPT !.session.sent = Append(@, Ack(m))], {}, FALSE)
<1> DEFINE b == <<x.session.tag, Len(x.session.sent) + 1>>
           v == StagePreparedAck(x, m, b, now)
<1>1. x \in States /\ SessionOf(n, x) /\ HeldBy(n, x)  BY Zenon DEF Local
<1>2. m \in Messages  BY <1>1, Zenon DEF States
<1>3. Len(x.session.sent) \in Nat /\ x.session.tag \in Tags
  BY <1>1 DEF States, Sessions, SessionOf
<1>4. b \in Tags \X Nat  BY <1>3
<1>5. Kind[m] = "durable" => Has(x, m)  BY <1>1, <1>2, Zenon DEF HeldBy
<1> HIDE DEF b
<1>6. /\ Relogged(x, v) /\ DOMAIN v.receipts \subseteq DOMAIN x.receipts
      /\ m \in DOMAIN v.receipts => v.receipts[m] = {b}
      /\ \A k \in DOMAIN v.receipts \ {m} :
            v.receipts[k] = x.receipts[k] /\ (k \in x.owed => k \in v.owed)
      /\ v.owed \subseteq x.owed
  BY <1>1, <1>4, StagePreparedProps
<1> HIDE DEF v
<1>7. Within(n, x, [v EXCEPT !.session.sent = Append(@, Ack(m))], {}, FALSE)
  BY <1>2, <1>5, <1>6, AckWithin, ZenonT(30) DEF b
<1> QED  BY <1>7, ZenonT(30) DEF v, b

\* A record is received and put in the inbox.
LEMMA StagedProps ==
  ASSUME NEW n \in Nodes, NEW x, Local(n, x), x.session.gen > 0, NEW m \in Messages, NEW c \in Nat
  PROVE  LET u == [Staged(x, m) EXCEPT !.session = Received(x.session, c)]
         IN  /\ Within(n, x, u, {c}, TRUE) /\ u.session = Received(x.session, c)
             /\ Kind[m] = "durable" => Has(u, m)
<1> DEFINE s == x.session
           t == Received(s, c)
           i == [x.inbox EXCEPT ![m] = 1]
           w == Staged(x, m)
           u == [w EXCEPT !.session = t]
<1>1. /\ x \in States /\ SessionOf(n, x) /\ LedgerOf(n, x) /\ HeldBy(n, x) /\ s \in Sessions
      /\ x.inbox \in [Messages -> Nat] /\ x.taken \in [Messages -> Nat]
  BY Zenon DEF Local, States
<1>2. /\ t \in Sessions /\ Grows(s, t) /\ t.sent = s.sent /\ t.credited = s.credited
      /\ t.received = s.received \cup {c} /\ t.tag = s.tag
  BY <1>1, ReceivedGrows, Zenon DEF SessionOf
<1>3. i \in [Messages -> Nat] /\ i[m] = 1 /\ \A k \in Messages \ {m} : i[k] = x.inbox[k]
  BY <1>1, Zenon
<1>4. /\ w \in States /\ w.pending = x.pending /\ w.receipts = x.receipts /\ w.owed = x.owed
      /\ w.taken = x.taken /\ w.firsts = x.firsts
      /\ \/ w.inbox = i /\ x.inbox[m] = 0
         \/ /\ w.inbox = x.inbox
            /\ Kind[m] = "durable" => m \in DOMAIN x.receipts \/ x.inbox[m] # 0
  <2>1. (w = [x EXCEPT !.inbox = i] /\ x.inbox[m] = 0) \/ w = x
    BY Zenon DEF Staged
  <2>2. CASE w = [x EXCEPT !.inbox = i] /\ x.inbox[m] = 0
    <3> HIDE DEF i, w
    <3> QED  BY <1>1, <1>3, <2>2, Zenon DEF States
  <2>3. CASE w # [x EXCEPT !.inbox = i] \/ x.inbox[m] # 0
    <3>1. Kind[m] = "durable" => m \in DOMAIN x.receipts \/ x.inbox[m] # 0
      BY <2>3, Zenon DEF Staged
    <3> QED  BY <1>1, <2>1, <2>3, <3>1, Zenon
  <2> QED  BY <2>2, <2>3, Zenon
<1> HIDE DEF s, t, i, w
<1>5. /\ u \in States /\ u.session = t /\ u.pending = w.pending /\ u.receipts = w.receipts
      /\ u.owed = w.owed /\ u.inbox = w.inbox /\ u.taken = w.taken /\ u.firsts = w.firsts
  BY <1>2, <1>4, Zenon DEF States
<1> HIDE DEF u
<1>6. \A k \in Messages : Has(x, k) => Has(u, k)
  <2> SUFFICES ASSUME NEW k \in Messages, Has(x, k) PROVE Has(u, k)
    BY Zenon
  <2>1. x.inbox[k] \in Nat /\ x.taken[k] \in Nat  BY <1>1, Zenon
  <2> QED  BY <1>3, <1>4, <1>5, <2>1 DEF Has
<1>7. Kind[m] = "durable" => Has(u, m)
  <2>1. x.inbox[m] \in Nat /\ x.taken[m] \in Nat  BY <1>1, Zenon
  <2>2. CASE w.inbox = i
    BY <1>3, <1>4, <1>5, <2>1, <2>2 DEF Has
  <2>3. CASE x.inbox[m] # 0
    BY <1>6, <2>1, <2>3 DEF Has
  <2>4. CASE Kind[m] = "durable" /\ m \in DOMAIN x.receipts
    BY <1>1, <1>6, <2>4, Zenon DEF HeldBy
  <2> QED  BY <1>4, <2>2, <2>3, <2>4, Zenon
<1>8. LedgerOf(n, u)  BY <1>1, <1>2, <1>4, <1>5, LedgerKept, Zenon DEF s
<1>9. HeldBy(n, u)  BY <1>1, <1>2, <1>4, <1>5, <1>6, HeldKept, SMTT(30) DEF s
<1>10. Within(n, x, u, {c}, TRUE)
  BY <1>2, <1>4, <1>5, <1>6, <1>8, <1>9, GrownWithin, ZenonT(30) DEF s
<1> QED  BY <1>5, <1>7, <1>10, ZenonT(30) DEF u, w, t, s

\* The record, its receipt and its ACK, or the obligation, are one transaction.
LEMMA AcceptReliableWithin ==
  ASSUME NEW n \in Nodes, NEW x, Local(n, x), x.session.gen > 0, NEW m \in Messages, NEW c \in Nat,
         NEW aged, NEW now \in Nat
  PROVE  Within(n, x, AcceptReliable(x, m, c, aged, now), {c}, TRUE)
<1> DEFINE t == Received(x.session, c)
           u == [Staged(x, m) EXCEPT !.session = t]
           b == <<t.tag, Len(t.sent) + 1>>
           v == StageData(u, m, b, now)
           w == StageDeferredAck(u, m, now)
<1>1. Within(n, x, u, {c}, TRUE) /\ u.session = t /\ (Kind[m] = "durable" => Has(u, m))
  BY StagedProps, ZenonT(30)
<1> HIDE DEF u
<1>2. /\ u \in States /\ Local(n, u) /\ SessionOf(n, u) /\ LedgerOf(n, u) /\ HeldBy(n, u)
      /\ x \in States
  BY <1>1, SMTT(30) DEF Within, Local
<1>3. u.session.gen > 0  BY <1>1, Zenon DEF Within
<1>4. CASE CanSend(t, ControlLimit, aged)
  <2>1. b \in Tags \X Nat
    BY <1>1, <1>2, <1>3, SMTT(30) DEF States, Sessions, SessionOf
  <2>2. b = <<u.session.tag, Len(u.session.sent) + 1>>  BY <1>1, Zenon
  <2> HIDE DEF t, b
  <2>3. /\ Relogged(u, v)
        /\ DOMAIN v.receipts \subseteq DOMAIN u.receipts \cup {m} /\ v.receipts[m] = {b}
        /\ \A k \in DOMAIN v.receipts \ {m} :
              v.receipts[k] = u.receipts[k] /\ (k \in u.owed => k \in v.owed)
        /\ v.owed \subseteq u.owed
    BY <1>2, <2>1, StageDataProps, Zenon
  <2> HIDE DEF v
  <2>4. Within(n, u, [v EXCEPT !.session.sent = Append(@, Ack(m))], {}, FALSE)
    BY <1>1, <1>2, <1>3, <2>2, <2>3, AckWithin, ZenonT(30)
  <2>5. Within(n, x, [v EXCEPT !.session.sent = Append(@, Ack(m))], {c}, TRUE)
    BY <1>1, <1>2, <2>4, WithinThen, ZenonT(30)
  <2>6. AcceptReliable(x, m, c, aged, now) = [v EXCEPT !.session.sent = Append(@, Ack(m))]
    BY <1>4, Zenon DEF AcceptReliable, v, b, u, t
  <2> QED  BY <2>5, <2>6, ZenonT(30)
<1>5. CASE ~CanSend(t, ControlLimit, aged)
  <2>1. /\ Relogged(u, w)
        /\ DOMAIN w.receipts \subseteq DOMAIN u.receipts \cup {m}
        /\ w.receipts[m] = {} /\ m \in w.owed
        /\ \A k \in DOMAIN w.receipts \ {m} :
              w.receipts[k] = u.receipts[k] /\ (k \in u.owed => k \in w.owed)
        /\ w.owed \subseteq u.owed \cup {m}
    BY <1>2, StageDeferredProps, Zenon
  <2>2. AcceptReliable(x, m, c, aged, now) = w  BY <1>5, Zenon DEF AcceptReliable, u
  <2> HIDE DEF w, t
  <2>3. w \in States /\ w.session = u.session /\ w.firsts = u.firsts /\ w.pending = u.pending
        /\ w.inbox = u.inbox /\ w.taken = u.taken
    BY <2>1, Zenon DEF Relogged
  <2>4. Grows(u.session, w.session)  BY <1>2, <2>3, Zenon DEF Grows, SessionOf
  <2>5. LedgerOf(n, w)
    <3>1. \A k \in DOMAIN w.receipts :
             \/ /\ k \in DOMAIN u.receipts /\ w.receipts[k] = u.receipts[k]
                /\ k \in u.owed => k \in w.owed
             \/ w.receipts[k] = {} /\ k \in w.owed
      BY <2>1, Zenon
    <3> QED  BY <1>2, <1>3, <2>3, <2>4, <3>1, LedgerKept, Zenon
  <2>6. \A k \in Messages : Has(u, k) => Has(w, k)  BY <2>3, Zenon DEF Has
  <2>7. HeldBy(n, w)
    <3>1. \A k \in Messages : k \in DOMAIN w.receipts \cup w.owed =>
             k \in DOMAIN u.receipts \cup u.owed \/ (Kind[k] = "durable" => Has(w, k))
      BY <1>1, <2>1, <2>6, SMTT(30)
    <3> QED  BY <1>2, <2>3, <2>6, <3>1, HeldKept
  <2>8. Within(n, u, w, {}, FALSE)
    BY <1>2, <1>3, <2>3, <2>4, <2>5, <2>6, <2>7, GrownWithin, ZenonT(30)
  <2> QED  BY <1>1, <1>2, <2>2, <2>8, WithinThen, ZenonT(30)
<1> QED  BY <1>4, <1>5, ZenonT(30)

\* Coverage is credited, and the receipts it makes superfluous go.
LEMMA CreditedWithin ==
  ASSUME NEW n \in Nodes, NEW x, Local(n, x), x.session.gen > 0,
         NEW cover, cover \subseteq DOMAIN x.session.sent, NEW now \in Nat
  PROVE  LET s == [x.session EXCEPT !.credited = @ \cup cover, !.state = "established"]
         IN  Within(n, x, [StageCredit(x, s, now) EXCEPT !.session = s], {}, TRUE)
<1> DEFINE s == x.session
           t == [s EXCEPT !.credited = @ \cup cover, !.state = "established"]
           v == StageCredit(x, t, now)
           y == [v EXCEPT !.session = t]
<1>1. /\ x \in States /\ SessionOf(n, x) /\ LedgerOf(n, x) /\ HeldBy(n, x) /\ s \in Sessions
      /\ s.credited \subseteq DOMAIN s.sent /\ DOMAIN s.sent \subseteq Nat
  BY SMTT(30) DEF Local, States, SessionOf, Sessions
<1>2. /\ t \in Sessions /\ t.sent = s.sent /\ t.credited = s.credited \cup cover
      /\ t.received = s.received /\ t.state = "established" /\ t.tag = s.tag /\ t.gen = s.gen
  BY <1>1, ZenonT(30) DEF Sessions
<1> HIDE DEF t
<1>3. Grows(s, t)  BY <1>1, <1>2, Zenon DEF Grows
<1>4. /\ Relogged(x, v) /\ DOMAIN v.receipts \subseteq DOMAIN x.receipts
      /\ \A k \in DOMAIN v.receipts :
            /\ v.receipts[k] = x.receipts[k] /\ (k \in x.owed => k \in v.owed)
            /\ \A b \in v.receipts[k] : ~(b[1] = t.tag /\ b[2] \in t.credited)
      /\ v.owed \subseteq x.owed
  BY <1>1, StageCreditProps, SMTT(30)
<1>5. v \in States /\ v.firsts = x.firsts /\ v.pending = x.pending
      /\ v.inbox = x.inbox /\ v.taken = x.taken
  BY <1>4, Zenon DEF Relogged
<1> HIDE DEF s, v
<1>6. /\ y \in States /\ y.session = t /\ y.pending = v.pending /\ y.receipts = v.receipts
      /\ y.owed = v.owed /\ y.inbox = v.inbox /\ y.taken = v.taken /\ y.firsts = v.firsts
  BY <1>2, <1>5, Zenon DEF States
<1> HIDE DEF y
<1>7. LedgerOf(n, y)
  <2> SUFFICES ASSUME NEW m \in DOMAIN y.receipts
               PROVE  /\ y.receipts[m] = {} => m \in y.owed
                      /\ \A b \in y.receipts[m] :
                            /\ b[1][1] = n \/ b[1] \in y.firsts
                            /\ b[1][2] <= t.gen
                            /\ b[1] = t.tag => b[2] \in Uncredited(t) /\ t.sent[b[2]] = Ack(m)
    BY <1>6, Zenon DEF LedgerOf
  <2>1. m \in DOMAIN x.receipts /\ y.receipts[m] = x.receipts[m] /\ (m \in x.owed => m \in y.owed)
    BY <1>4, <1>6, Zenon
  <2>2. \A b \in y.receipts[m] : b[1] = t.tag => b[2] \notin t.credited
    BY <1>4, <1>6, Zenon
  <2> QED  BY <1>1, <1>2, <1>5, <1>6, <2>1, <2>2 DEF LedgerOf, Uncredited, s
<1>8. \A k \in Messages : Has(x, k) => Has(y, k)  BY <1>5, <1>6, Zenon DEF Has
<1>9. HeldBy(n, y)
  <2>1. \A k \in Messages : k \in DOMAIN y.receipts \cup y.owed => k \in DOMAIN x.receipts \cup x.owed
    BY <1>4, <1>6, Zenon
  <2> QED  BY <1>1, <1>2, <1>5, <1>6, <1>8, <2>1, HeldKept, SMTT(30) DEF s
<1>10. Within(n, x, y, {}, TRUE)
  BY <1>2, <1>3, <1>5, <1>6, <1>7, <1>8, <1>9, GrownWithin, ZenonT(30) DEF s
<1> QED  BY <1>10, ZenonT(30) DEF y, v, t, s

-----------------------------------------------------------------------------
(* A new session *)

\* A node that starts a session with no acknowledgments sent stays well formed.
LEMMA FreshLocal ==
  ASSUME NEW n \in Nodes, NEW x, Local(n, x), NEW y \in States, SessionOf(n, y),
         y.receipts = x.receipts, y.owed = x.owed, y.inbox = x.inbox, y.taken = x.taken,
         x.firsts \subseteq y.firsts, y.session.gen > 0, x.session.gen <= y.session.gen,
         \A c \in DOMAIN y.session.sent : \A m \in Messages : y.session.sent[c] # Ack(m),
         \A m \in Messages : m \in DOMAIN y.pending => m \in DOMAIN x.pending \/ From[m] = n,
         y.session.tag[1] = n => y.session.tag[2] > x.session.gen,
         y.session.tag[1] # n => y.session.tag \notin x.firsts
  PROVE  Local(n, y) /\ Ahead(x, y)
<1>1. x \in States /\ SessionOf(n, x) /\ LedgerOf(n, x) /\ HeldBy(n, x)  BY Zenon DEF Local
<1>2. x.session.gen \in Nat /\ y.session.gen \in Nat  BY <1>1, Zenon DEF States, Sessions
<1>3. LedgerOf(n, y)
  <2> SUFFICES ASSUME NEW m \in DOMAIN x.receipts, NEW b \in x.receipts[m]
               PROVE  /\ b[1][1] = n \/ b[1] \in y.firsts
                      /\ b[1][2] <= y.session.gen
                      /\ b[1] # y.session.tag
    BY <1>1, SMTT(30) DEF LedgerOf
  <2>1. b \in Tags \X Nat
    <3>1. x.receipts \in [DOMAIN x.receipts -> Acks]  BY <1>1, MapsUse, Zenon DEF States
    <3> QED  BY <3>1, Zenon DEF Acks
  <2>2. b[1] \in Tags /\ b[1][2] \in Nat  BY <2>1, Zenon DEF Tags
  <2>3. (b[1][1] = n \/ b[1] \in x.firsts) /\ b[1][2] <= x.session.gen
    BY <1>1, Zenon DEF LedgerOf
  <2> QED  BY <1>2, <2>2, <2>3
<1>4. \A k \in Messages : Has(x, k) => Has(y, k)  BY Zenon DEF Has
<1>5. HeldBy(n, y)  BY <1>1, <1>4, Zenon DEF HeldBy
<1> QED  BY <1>3, <1>4, <1>5, Zenon DEF Local, Ahead

\* A node that initiates the next generation stays well formed.
LEMMA InitiatedLocal ==
  ASSUME NEW n \in Nodes, NEW x, Local(n, x), NEW y \in States,
         y.receipts = x.receipts, y.owed = x.owed, y.inbox = x.inbox, y.taken = x.taken,
         y.firsts = x.firsts, NEW g, g = x.session.gen + 1,
         y.session.gen = g, y.session.tag = <<n, g>>, y.session.state = "initiated",
         y.session.received = {}, y.session.credited = {},
         \A c \in DOMAIN y.session.sent : \A m \in Messages : y.session.sent[c] # Ack(m),
         \A m \in Messages : m \in DOMAIN y.pending => m \in DOMAIN x.pending \/ From[m] = n
  PROVE  Local(n, y) /\ Ahead(x, y)
<1> DEFINE t == y.session
<1>1. x \in States /\ SessionOf(n, x) /\ x.session.gen \in Nat /\ x.firsts \subseteq Tags
  BY SMTT(30) DEF Local, States, Sessions
<1>2. t.tag \in Tags /\ t.tag[1] = n /\ t.tag[2] = t.gen /\ t.gen \in Nat /\ t.gen > x.session.gen
  BY <1>1 DEF Tags
<1>3. \A k \in y.firsts : k[1] # n /\ k[2] \in Nat /\ k[2] <= x.session.gen
  BY <1>1, SMTT(30) DEF SessionOf, Tags
<1>4. <<Peer(n), t.gen>> \notin y.firsts  BY <1>2, <1>3, <1>1
<1>5. SessionOf(n, y)
  BY <1>1, <1>2, <1>3, <1>4, SMTT(30) DEF SessionOf
<1> QED  BY <1>1, <1>2, <1>5, FreshLocal

\* The first record of a peer starts a session.
LEMMA StartedLocal ==
  ASSUME NEW n \in Nodes, NEW x, Local(n, x), x.session.gen = 0, NEW m \in Messages, From[m] = n
  PROVE  LET y == Encrypted(x, Initiated(n, 1), m)
         IN  /\ Local(n, y) /\ Ahead(x, y) /\ y.firsts = x.firsts
             /\ y.session.gen = 1 /\ y.session.tag = <<n, 1>> /\ y.session.state = "initiated"
<1> DEFINE s == Initiated(n, 1)
           t == [s EXCEPT !.sent = Append(@, Data(m))]
           f == WithPending(x.pending, m, Len(s.sent) + 1)
           y == Encrypted(x, s, m)
<1>1. x \in States  BY Zenon DEF Local
<1>2. /\ s \in Sessions /\ s.gen = 1 /\ s.tag = <<n, 1>> /\ s.state = "initiated"
      /\ s.sent = <<First>> /\ s.credited = {} /\ s.received = {}
  <2>1. <<n, 1>> \in Tags  BY DEF Tags
  <2>2. <<First>> \in Seq(Bodies)  BY BodyKinds
  <2> QED  BY <2>1, <2>2, ZenonT(30) DEF Initiated, NoSession, Sessions
<1>3. Data(m) \in Bodies \ {First}  BY BodyKinds, Zenon
<1> HIDE DEF s
<1>4. /\ t \in Sessions /\ t.sent = Append(<<First>>, Data(m))
      /\ t.gen = 1 /\ t.tag = <<n, 1>> /\ t.state = "initiated" /\ t.credited = {} /\ t.received = {}
  <2>1. s.credited \subseteq DOMAIN s.sent  BY <1>2, Zenon
  <2>2. /\ t \in Sessions /\ t.sent = Append(s.sent, Data(m))
        /\ t.credited = s.credited /\ t.received = s.received /\ t.state = s.state
        /\ t.tag = s.tag /\ t.gen = s.gen
    BY <1>2, <1>3, <2>1, AppendGrows, ZenonT(30)
  <2> QED  BY <1>2, <2>2, Zenon
<1>5. f \in Maps(Nat) /\ DOMAIN f = DOMAIN x.pending \cup {m}
  <2>1. x.pending \in [DOMAIN x.pending -> Nat] /\ DOMAIN x.pending \subseteq Messages /\ Len(s.sent) \in Nat
    BY <1>1, <1>2, MapsUse, Zenon DEF States, Sessions
  <2>2. f \in [DOMAIN x.pending \cup {m} -> Nat]  BY <2>1 DEF WithPending
  <2>3. DOMAIN x.pending \cup {m} \in SUBSET Messages  BY <2>1, Zenon
  <2> QED  BY <2>2, <2>3, MapsMake, Zenon
<1>6. y = [x EXCEPT !.session = t, !.pending = f]  BY Zenon DEF Encrypted
<1> HIDE DEF t, f, y
<1>7. /\ y \in States /\ y.session = t /\ y.pending = f /\ y.receipts = x.receipts /\ y.owed = x.owed
      /\ y.inbox = x.inbox /\ y.taken = x.taken /\ y.firsts = x.firsts
  BY <1>1, <1>4, <1>5, <1>6, ZenonT(30) DEF States
<1>8. \A c \in DOMAIN t.sent : \A k \in Messages : t.sent[c] # Ack(k)
  <2>1. <<First>> \in Seq(Bodies)  BY BodyKinds
  <2>2. \A c \in DOMAIN t.sent : t.sent[c] = First \/ t.sent[c] = Data(m)
    BY <1>3, <1>4, <2>1, AppendProps
  <2> QED  BY <2>2, BodyKinds, Zenon
<1>9. Local(n, y) /\ Ahead(x, y)
  <2>1. x.session.gen + 1 = 1  OBVIOUS
  <2>2. /\ y.session.gen = 1 /\ y.session.tag = <<n, 1>>
        /\ y.session.state = "initiated" /\ y.session.credited = {} /\ y.session.received = {}
    BY <1>4, <1>7, Zenon
  <2>3. \A c \in DOMAIN y.session.sent : \A k \in Messages : y.session.sent[c] # Ack(k)
    BY <1>7, <1>8, Zenon
  <2>4. \A k \in Messages : k \in DOMAIN y.pending => k \in DOMAIN x.pending \/ From[k] = n
    BY <1>5, <1>7, Zenon
  <2> QED  BY <1>7, <2>1, <2>2, <2>3, <2>4, InitiatedLocal
<1> QED  BY <1>4, <1>7, <1>9, SMTT(30) DEF y, s

\* Requeued records keep their places; nothing else changes.
LEMMA RequeuedProps ==
  ASSUME NEW x \in States
  PROVE  LET y == Requeued(x)
         IN  /\ y \in States /\ DOMAIN y.pending = DOMAIN x.pending
             /\ y.session = x.session /\ y.receipts = x.receipts /\ y.owed = x.owed
             /\ y.inbox = x.inbox /\ y.taken = x.taken /\ y.firsts = x.firsts
<1> DEFINE f == [m \in DOMAIN x.pending |-> 0]
           y == Requeued(x)
<1>1. f \in Maps(Nat) /\ DOMAIN f = DOMAIN x.pending
  <2>1. DOMAIN x.pending \in SUBSET Messages  BY MapsUse, Zenon DEF States
  <2>2. f \in [DOMAIN x.pending -> Nat]  BY Zenon
  <2> QED  BY <2>1, <2>2, MapsMake, Zenon
<1>2. y = [x EXCEPT !.pending = f]  BY Zenon DEF Requeued
<1> HIDE DEF f, y
<1>3. /\ y \in States /\ y.pending = f
      /\ y.session = x.session /\ y.receipts = x.receipts /\ y.owed = x.owed
      /\ y.inbox = x.inbox /\ y.taken = x.taken /\ y.firsts = x.firsts
  BY <1>1, <1>2, Zenon DEF States
<1> QED  BY <1>1, <1>3, Zenon DEF y

\* Recovery initiates the next generation.
LEMMA RecoveredLocal ==
  ASSUME NEW n \in Nodes, NEW x, Local(n, x)
  PROVE  LET y == [Requeued(x) EXCEPT !.session = Initiated(n, x.session.gen + 1)]
         IN  /\ Local(n, y) /\ Ahead(x, y) /\ y.firsts = x.firsts
             /\ y.session.gen = x.session.gen + 1
             /\ y.session.tag = <<n, x.session.gen + 1>> /\ y.session.state = "initiated"
<1> DEFINE g == x.session.gen + 1
           t == Initiated(n, g)
           r == Requeued(x)
           y == [r EXCEPT !.session = t]
<1>1. x \in States /\ x.session.gen \in Nat  BY Zenon DEF Local, States, Sessions
<1>2. /\ t \in Sessions /\ t.gen = g /\ t.tag = <<n, g>> /\ t.state = "initiated"
      /\ t.sent = <<First>> /\ t.credited = {} /\ t.received = {}
  <2>1. <<n, g>> \in Tags /\ g \in Nat  BY <1>1 DEF Tags
  <2>2. <<First>> \in Seq(Bodies)  BY BodyKinds
  <2> HIDE DEF g
  <2> QED  BY <2>1, <2>2, ZenonT(30) DEF Initiated, NoSession, Sessions
<1>3. /\ r \in States /\ DOMAIN r.pending = DOMAIN x.pending
      /\ r.receipts = x.receipts /\ r.owed = x.owed
      /\ r.inbox = x.inbox /\ r.taken = x.taken /\ r.firsts = x.firsts
  BY <1>1, RequeuedProps, Zenon
<1> HIDE DEF t, r
<1>4. /\ y \in States /\ y.session = t /\ y.pending = r.pending /\ y.receipts = r.receipts
      /\ y.owed = r.owed /\ y.inbox = r.inbox /\ y.taken = r.taken /\ y.firsts = r.firsts
  BY <1>2, <1>3, Zenon DEF States
<1> HIDE DEF y
<1>5. \A c \in DOMAIN t.sent : \A k \in Messages : t.sent[c] # Ack(k)
  BY <1>2, BodyKinds
<1>6. Local(n, y) /\ Ahead(x, y)
  BY <1>2, <1>3, <1>4, <1>5, InitiatedLocal
<1> QED  BY <1>2, <1>3, <1>4, <1>6, Zenon DEF y, t, r

\* A first move that wins replaces the session.
Replaced(x, tag) ==
    [Requeued(x) EXCEPT !.session = Accepted(tag), !.firsts = @ \cup {tag}]

\* A node that accepts the peer's setup stays well formed.
LEMMA AcceptedLocal ==
  ASSUME NEW n \in Nodes, NEW x, Local(n, x), NEW tag \in Tags, tag[1] # n, tag \notin x.firsts,
         x.session.gen <= tag[2]
  PROVE  LET y == Replaced(x, tag)
         IN  /\ Local(n, y) /\ Ahead(x, y) /\ y.firsts = x.firsts \cup {tag}
             /\ y.session.gen = tag[2] /\ y.session.tag = tag /\ y.session.received = {1}
<1> DEFINE t == Accepted(tag)
           r == Requeued(x)
           F == x.firsts \cup {tag}
           y == Replaced(x, tag)
<1>1. x \in States /\ SessionOf(n, x) /\ x.session.gen \in Nat /\ x.firsts \subseteq Tags
  BY SMTT(30) DEF Local, States, Sessions
<1>2. /\ t \in Sessions /\ t.gen = tag[2] /\ t.tag = tag /\ t.state = "established"
      /\ t.sent = <<>> /\ t.credited = {} /\ t.received = {1} /\ tag[2] \in Nat \ {0}
  <2>1. tag[2] \in Nat \ {0}  BY Zenon DEF Tags
  <2>2. <<>> \in Seq(Bodies) /\ {1} \in SUBSET Nat  OBVIOUS
  <2> QED  BY <2>1, <2>2, ZenonT(30) DEF Accepted, NoSession, Sessions
<1>3. /\ r \in States /\ DOMAIN r.pending = DOMAIN x.pending
      /\ r.receipts = x.receipts /\ r.owed = x.owed
      /\ r.inbox = x.inbox /\ r.taken = x.taken /\ r.firsts = x.firsts
  BY <1>1, RequeuedProps, Zenon
<1>4. y = [r EXCEPT !.session = t, !.firsts = F] /\ F \in SUBSET Tags
  BY <1>1, <1>3, Zenon DEF Replaced
<1> HIDE DEF t, r, F, y
<1>5. /\ y \in States /\ y.session = t /\ y.pending = r.pending /\ y.receipts = r.receipts
      /\ y.owed = r.owed /\ y.inbox = r.inbox /\ y.taken = r.taken /\ y.firsts = F
  BY <1>2, <1>3, <1>4, ZenonT(30) DEF States
<1>6. DOMAIN t.sent = {}  BY <1>2
<1>7. \A k \in F : k[1] # n /\ k[2] <= t.gen
  <2>1. \A k \in x.firsts : k[1] # n /\ k[2] \in Nat /\ k[2] <= x.session.gen
    BY <1>1, Zenon DEF SessionOf, Tags
  <2> QED  BY <1>1, <1>2, <2>1 DEF F
<1>8. SessionOf(n, y)
  BY <1>2, <1>5, <1>6, <1>7, Zenon DEF SessionOf, F
<1>9. Local(n, y) /\ Ahead(x, y)
  BY <1>2, <1>3, <1>5, <1>6, <1>8, FreshLocal DEF F
<1> QED  BY <1>2, <1>5, <1>9, Zenon DEF y, F

-----------------------------------------------------------------------------
(* When a new state of one node fits the other node and the packets between   *)
(* them.                                                                      *)

\* There are two nodes, and each is the other's peer.
LEMMA Pair ==
  /\ Lower \in Nodes
  /\ \A n \in Nodes : /\ Peer(n) \in Nodes /\ Peer(n) # n /\ Peer(Peer(n)) = n
                      /\ \A k \in Nodes : k = n \/ k = Peer(n)
<1>1. PICK h \in Nodes : h # Lower /\ Nodes = {Lower, h}  BY WindowAssumption, Zenon
<1>2. ASSUME NEW n \in Nodes PROVE Peer(n) \in Nodes /\ Peer(n) # n
  BY <1>1 DEF Peer
<1> QED  BY <1>1, <1>2, Zenon

\* A session tag is a pair, and not the tag of no session.
LEMMA TagIsPair == ASSUME NEW t \in Tags PROVE t = <<t[1], t[2]>> /\ t # <<>>
<1>1. t = <<t[1], t[2]>>  BY DEF Tags
<1>2. Len(<<t[1], t[2]>>) = 2 /\ Len(<<>>) = 0  BY Zenon
<1> QED  BY <1>1, <1>2

-----------------------------------------------------------------------------
(* One node steps: what it becomes must fit what the other node and the    *)
(* packets under way know.                                                 *)

FitOrigin(n, z) ==
    /\ \A t \in z.firsts : t[2] <= mem[t[1]].session.gen
    /\ z.session.gen > 0 /\ z.session.tag[1] = n
         /\ (z.session.state = "established" \/ z.session.received # {})
         => z.session.tag \in mem[Peer(n)].firsts

FitBounded(n, z) ==
    LET s == z.session
    IN  /\ s.gen > 0 =>
             /\ \A q \in net : q.tag = s.tag =>
                   /\ q.to # n /\ q.counter > 0 => q.counter <= Len(s.sent)
                   /\ q.to = n /\ q.counter = 0 => q.cover \subseteq 1..Len(s.sent)
             /\ \A y \in States2(Peer(n)) :
                   y.session.tag = s.tag => y.session.received \subseteq 1..Len(s.sent)
        /\ \A y \in States2(Peer(n)) :
             y.session.gen > 0 /\ s.tag = y.session.tag => s.received \subseteq 1..Len(y.session.sent)

FitWinner(n, z) ==
    LET H == Peer(Lower)
    IN  /\ n = Lower =>
             /\ \A q \in net : q.tag[1] = Lower => <<H, q.tag[2]>> \notin z.firsts
             /\ \A y \in States2(H) : \A t \in y.firsts : <<H, t[2]>> \notin z.firsts
        /\ n = H => \A x \in States2(Lower) : \A t \in z.firsts : <<H, t[2]>> \notin x.firsts

Fit(n, z) == Local(n, z) /\ FitOrigin(n, z) /\ FitBounded(n, z) /\ FitWinner(n, z)

\* n becomes x with the archive d, and may release the packets of x if both are one.
Moves(n, x, d) ==
    /\ mem' = [mem EXCEPT ![n] = x]
    /\ disk' = [disk EXCEPT ![n] = d]
    /\ net' \subseteq net \cup IF x = d THEN Released(n, x.session) ELSE {}

\* The live state and the archive of a node fit the other node now.
LEMMA OldFits ==
  ASSUME IInv, NEW n \in Nodes
  PROVE  Fit(n, mem[n]) /\ Fit(n, disk[n])
<1> USE Pair
<1>1. ASSUME NEW z \in States2(n) PROVE Local(n, z)
  BY Zenon DEF IInv, States2
<1>2. ASSUME NEW z \in States2(n) PROVE FitOrigin(n, z)
  BY Zenon DEF IInv, FitOrigin, Origin
<1>3. ASSUME NEW z \in States2(n) PROVE FitBounded(n, z)
  BY Zenon DEF IInv, FitBounded, Bounded
<1>4. ASSUME NEW z \in States2(n) PROVE FitWinner(n, z)
  BY Zenon DEF IInv, FitWinner, OneWinner
<1> QED  BY <1>1, <1>2, <1>3, <1>4, Zenon DEF States2, Fit

\* What a checkpoint releases is of its session: a counter sent, or its coverage.
LEMMA ReleasedProps ==
  ASSUME NEW n \in Nodes, NEW x, Local(n, x), NEW q \in Released(n, x.session)
  PROVE  /\ q \in Packets /\ q.tag = x.session.tag /\ q.to = Peer(n) /\ x.session.gen > 0
         /\ q.counter > 0 => /\ q.counter \in DOMAIN x.session.sent
                             /\ q.body = x.session.sent[q.counter]
         /\ q.counter = 0 => /\ q.cover = x.session.received /\ q.cover # {}
                             /\ q.body = <<"credit">>
<1> DEFINE s == x.session
<1>1. s \in Sessions /\ SessionOf(n, x)  BY Zenon DEF Local, States
<1>2. s.gen > 0
  BY <1>1 DEF SessionOf, NoSession, Released, Uncredited, Sessions
<1>3. s.tag \in Tags  BY <1>1, <1>2, Zenon DEF SessionOf
<1>4. DOMAIN s.sent \subseteq Nat \ {0} /\ s.received \subseteq Nat
      /\ \A c \in DOMAIN s.sent : s.sent[c] \in Bodies
  BY <1>1 DEF Sessions
<1>5. CASE \E c \in Uncredited(s) : q = Frame(n, s, c)
  BY <1>2, <1>3, <1>4, <1>5, Pair DEF Frame, Uncredited, Packets
<1>6. CASE q = Credit(n, s) /\ s.received # {}
  BY <1>2, <1>3, <1>4, <1>6, Pair DEF Credit, Packets
<1> QED  BY <1>5, <1>6, Zenon DEF Released

\* If one node moves to a live state and an archive that fit the other node and the
\* packets under way, the invariant is kept.
LEMMA MoveKeeps ==
  ASSUME IInv, NEW n \in Nodes, NEW x, NEW d, Moves(n, x, d),
         Fit(n, x), Fit(n, d), Ahead(x, d), Ahead(mem[n], x),
         \A m \in confirmed' : \/ m \in confirmed
                               \/ m \in Messages /\ From[m] = n
                                    /\ (Kind[m] = "durable" => Has(mem[Peer(n)], m))
  PROVE  IInv'
<1> DEFINE p == Peer(n)
<1>0. p \in Nodes /\ p # n /\ Peer(p) = n /\ (\A k \in Nodes : k = n \/ k = p) /\ Lower \in Nodes
  BY Pair, Zenon
<1>1. /\ mem' \in [Nodes -> States] /\ disk' \in [Nodes -> States]
      /\ mem'[n] = x /\ mem'[p] = mem[p] /\ disk'[n] = d /\ disk'[p] = disk[p]
  BY <1>0, Zenon DEF IInv, Types, Moves, Fit, Local
<1>2. ASSUME NEW q \in net' PROVE q \in net \/ (x = d /\ q \in Released(n, x.session))
  BY Zenon DEF Moves
<1>3. Types'
  BY <1>1, <1>2, ReleasedProps, Zenon DEF Types, IInv, Fit
<1>4. \A k \in Nodes : Local(k, mem'[k]) /\ Local(k, disk'[k]) /\ Ahead(mem'[k], disk'[k])
  BY <1>0, <1>1, Zenon DEF IInv, Fit
<1>5. \A k \in Nodes : /\ mem[k].session.gen <= mem'[k].session.gen
                       /\ mem[k].firsts \subseteq mem'[k].firsts
                       /\ \A m \in Messages : Has(mem[k], m) => Has(mem'[k], m)
  <2>1. mem[p].session.gen \in Nat  BY <1>0, SMTT(30) DEF IInv, Types, States, Sessions
  <2> QED  BY <1>0, <1>1, <2>1 DEF Ahead, Has
<1>t. \A k \in Nodes : mem[k] \in States /\ mem'[k] \in States
  BY <1>1, Zenon DEF IInv, Types
<1>6. Origin'
  <2>1. ASSUME NEW q \in net'
        PROVE  /\ q.tag[2] <= mem'[q.tag[1]].session.gen
               /\ q.body = First => q.counter > 0 /\ q.tag[1] # q.to
               /\ q.tag[1] = q.to \/ q.counter = 0 =>
                    q.tag \in mem'[IF q.tag[1] = q.to THEN Peer(q.to) ELSE q.to].firsts
    <3>1. CASE q \in net
      <4>1. q \in Packets /\ q.tag[1] \in Nodes /\ q.tag[2] \in Nat /\ q.to \in Nodes /\ Peer(q.to) \in Nodes
        BY <3>1, Pair, Zenon DEF IInv, Types, Packets, Tags
      <4>2. mem[q.tag[1]].session.gen \in Nat /\ mem'[q.tag[1]].session.gen \in Nat
        BY <4>1, <1>t, Zenon DEF States, Sessions
      <4> QED  BY <3>1, <4>1, <4>2, <1>5 DEF IInv, Origin
    <3>2. CASE x = d /\ q \in Released(n, x.session)
      <4> DEFINE s == x.session
      <4>1. /\ q \in Packets /\ q.tag = s.tag /\ q.to = p /\ s.gen > 0
            /\ q.counter > 0 => q.counter \in DOMAIN s.sent /\ q.body = s.sent[q.counter]
            /\ q.counter = 0 => q.cover = s.received /\ q.cover # {} /\ q.body = <<"credit">>
        BY <3>2, ReleasedProps DEF Fit
      <4>2. SessionOf(n, x) /\ x \in States  BY Zenon DEF Fit, Local
      <4>3. q.counter \in Nat /\ q.tag \in Tags  BY <4>1, Zenon DEF Packets, Tags
      <4>4. q.tag[2] = s.gen /\ q.tag[1] \in Nodes /\ s.gen \in Nat
        BY <4>1, <4>2, <4>3, Zenon DEF SessionOf, Tags
      <4>5. q.body = First => q.counter > 0 /\ q.tag[1] = n
        BY <4>1, <4>2, <4>3 DEF SessionOf, First
      <4>6. CASE q.tag[1] = n
        <5>1. q.counter = 0 => q.tag \in mem[p].firsts
          BY <4>1, <4>3, <4>6, Zenon DEF Fit, FitOrigin
        <5> QED  BY <1>0, <1>1, <4>1, <4>4, <4>5, <4>6, <5>1
      <4>7. CASE q.tag[1] = p
        <5>1. q.tag \in x.firsts  BY <4>1, <4>2, <4>7, <1>0, Zenon DEF SessionOf
        <5>2. q.tag[2] <= mem[p].session.gen  BY <4>7, <5>1, Zenon DEF Fit, FitOrigin
        <5> QED  BY <1>0, <1>1, <4>1, <4>5, <4>7, <5>1, <5>2, Zenon
      <4> QED  BY <4>4, <4>6, <4>7, <1>0, Zenon
    <3> QED  BY <1>2, <3>1, <3>2, Zenon
  <2>2. ASSUME NEW k \in Nodes, NEW z \in {mem'[k], disk'[k]}
        PROVE  /\ \A t \in z.firsts : t[2] <= mem'[t[1]].session.gen
               /\ z.session.gen > 0 /\ z.session.tag[1] = k
                    /\ (z.session.state = "established" \/ z.session.received # {})
                    => z.session.tag \in mem'[Peer(k)].firsts
    <3>1. FitOrigin(k, z)
      <4>1. CASE k = n  BY <4>1, <1>1, Zenon DEF Fit
      <4>2. CASE k = p  BY <4>2, <1>1, <1>0, OldFits, Zenon DEF Fit
      <4> QED  BY <4>1, <4>2, <1>0, Zenon
    <3>2. ASSUME NEW t \in z.firsts PROVE t[2] <= mem'[t[1]].session.gen
      <4>1. z.firsts \subseteq Tags  BY <1>1, Zenon DEF States
      <4>2. t[1] \in Nodes /\ t[2] \in Nat  BY <4>1, Zenon DEF Tags
      <4>3. mem[t[1]].session.gen \in Nat /\ mem'[t[1]].session.gen \in Nat
        BY <4>2, <1>t, Zenon DEF States, Sessions
      <4> QED  BY <3>1, <4>2, <4>3, <1>5 DEF FitOrigin
    <3> QED  BY <3>1, <3>2, <1>5, Pair, Zenon DEF FitOrigin
  <2> QED  BY <2>1, <2>2, Zenon DEF Origin, States2
<1>7. Bounded'
  <2> SUFFICES ASSUME NEW k \in Nodes, NEW z \in {mem'[k], disk'[k]}, z.session.gen > 0
               PROVE  /\ \A q \in net' : q.tag = z.session.tag =>
                            /\ q.to # k /\ q.counter > 0 => q.counter <= Len(z.session.sent)
                            /\ q.to = k /\ q.counter = 0 => q.cover \subseteq 1..Len(z.session.sent)
                      /\ \A y \in {mem'[Peer(k)], disk'[Peer(k)]} :
                            y.session.tag = z.session.tag => y.session.received \subseteq 1..Len(z.session.sent)
    BY Zenon DEF Bounded, States2
  <2>1. FitBounded(k, z)
    <3>1. CASE k = n  BY <3>1, <1>1, Zenon DEF Fit
    <3>2. CASE k = p  BY <3>2, <1>1, <1>0, OldFits, Zenon DEF Fit
    <3> QED  BY <3>1, <3>2, <1>0, Zenon
  <2>2. ASSUME NEW q \in net', q.tag = z.session.tag
        PROVE  /\ q.to # k /\ q.counter > 0 => q.counter <= Len(z.session.sent)
               /\ q.to = k /\ q.counter = 0 => q.cover \subseteq 1..Len(z.session.sent)
    <3>1. CASE q \in net  BY <2>1, <2>2, <3>1, Zenon DEF FitBounded
    <3>2. CASE x = d /\ q \in Released(n, x.session)
      <4> DEFINE s == x.session
      <4>1. /\ q \in Packets /\ q.tag = s.tag /\ q.to = p /\ s.gen > 0
            /\ q.counter > 0 => q.counter \in DOMAIN s.sent
            /\ q.counter = 0 => q.cover = s.received
        BY <3>2, ReleasedProps, Zenon DEF Fit
      <4>2. s.sent \in Seq(Bodies)  BY Zenon DEF Fit, Local, States, Sessions
      <4>3. CASE k = n  BY <4>1, <4>2, <4>3, <3>2, <1>0, <1>1
      <4>4. CASE k = p
        <5>1. z \in States2(p)  BY <4>4, <1>1, Zenon DEF States2
        <5> QED  BY <5>1, <4>1, <4>4, <2>2, Zenon DEF Fit, FitBounded
      <4> QED  BY <4>3, <4>4, <1>0, Zenon
    <3> QED  BY <1>2, <3>1, <3>2, Zenon
  <2>3. ASSUME NEW y \in {mem'[Peer(k)], disk'[Peer(k)]}, y.session.tag = z.session.tag
        PROVE  y.session.received \subseteq 1..Len(z.session.sent)
    <3>1. CASE k = n
      <4>1. y \in States2(Peer(k))  BY <3>1, <1>1, Zenon DEF States2
      <4> QED  BY <4>1, <2>1, <2>3, Zenon DEF FitBounded
    <3>2. CASE k = p
      <4>1. z \in States2(p) /\ FitBounded(n, y)  BY <3>2, <1>0, <1>1, Zenon DEF States2, Fit
      <4> QED  BY <4>1, <2>3, Zenon DEF FitBounded
    <3> QED  BY <3>1, <3>2, <1>0, Zenon
  <2> QED  BY <2>2, <2>3, Zenon
<1>8. OneWinner'
  <2> DEFINE H == Peer(Lower)
  <2> SUFFICES ASSUME NEW z \in {mem'[Lower], disk'[Lower]}
               PROVE  /\ \A q \in net' : q.tag[1] = Lower => <<H, q.tag[2]>> \notin z.firsts
                      /\ \A y \in {mem'[H], disk'[H]} : \A t \in y.firsts : <<H, t[2]>> \notin z.firsts
    BY Zenon DEF OneWinner, States2
  <2>1. FitWinner(Lower, z)
    <3>1. CASE Lower = n  BY <3>1, <1>1, Zenon DEF Fit
    <3>2. CASE Lower = p  BY <3>2, <1>1, <1>0, OldFits, Zenon DEF Fit
    <3> QED  BY <3>1, <3>2, <1>0, Zenon
  <2>2. ASSUME NEW q \in net', q.tag[1] = Lower PROVE <<H, q.tag[2]>> \notin z.firsts
    <3>1. CASE q \in net  BY <2>1, <2>2, <3>1, Zenon DEF FitWinner
    <3>2. CASE x = d /\ q \in Released(n, x.session)
      <4>1. q.tag = x.session.tag /\ x.session.gen > 0
        BY <3>2, ReleasedProps, Zenon DEF Fit
      <4>2. SessionOf(n, x)  BY Zenon DEF Fit, Local
      <4>3. CASE Lower = n
        <5>1. q.tag[2] = x.session.gen /\ z = x  BY <4>1, <4>2, <4>3, <3>2, <1>1, Zenon DEF SessionOf
        <5> QED  BY <4>1, <4>2, <4>3, <5>1, <2>2, Zenon DEF SessionOf
      <4>4. CASE Lower = p
        <5>1. q.tag \in x.firsts  BY <4>1, <4>2, <4>4, <2>2, <1>0, Zenon DEF SessionOf
        <5>2. z \in States2(Lower) /\ H = n  BY <4>4, <1>0, <1>1, Zenon DEF States2
        <5> QED  BY <5>1, <5>2, Zenon DEF Fit, FitWinner
      <4> QED  BY <4>3, <4>4, <1>0, Zenon
    <3> QED  BY <1>2, <3>1, <3>2, Zenon
  <2>3. ASSUME NEW y \in {mem'[H], disk'[H]}, NEW t \in y.firsts PROVE <<H, t[2]>> \notin z.firsts
    <3>1. CASE Lower = n
      <4>1. y \in States2(H)  BY <3>1, <1>1, Zenon DEF States2
      <4> QED  BY <4>1, <2>1, Zenon DEF FitWinner
    <3>2. CASE Lower = p
      <4>1. z \in States2(Lower) /\ H = n /\ FitWinner(n, y)
        BY <3>2, <1>0, <1>1, Zenon DEF States2, Fit
      <4> QED  BY <4>1, Zenon DEF FitWinner
    <3> QED  BY <3>1, <3>2, <1>0, Zenon
  <2> QED  BY <2>2, <2>3, Zenon
<1>9. Told'
  <2>1. ASSUME NEW q \in net', NEW m \in Messages, q.body = Ack(m), Kind[m] = "durable"
        PROVE  Has(mem'[Peer(q.to)], m)
    <3>1. CASE q \in net
      <4>1. Peer(q.to) \in Nodes  BY <3>1, Pair, Zenon DEF IInv, Types, Packets
      <4> QED  BY <2>1, <3>1, <4>1, <1>5, Zenon DEF IInv, Told
    <3>2. CASE x = d /\ q \in Released(n, x.session)
      <4>1. /\ q \in Packets /\ q.to = p
            /\ q.counter > 0 => q.counter \in DOMAIN x.session.sent /\ q.body = x.session.sent[q.counter]
            /\ q.counter = 0 => q.body = <<"credit">>
        BY <3>2, ReleasedProps DEF Fit
      <4>2. q.counter > 0  BY <2>1, <4>1 DEF Packets, Ack
      <4>3. HeldBy(n, x)  BY Zenon DEF Fit, Local
      <4>4. Has(x, m)  BY <2>1, <4>1, <4>2, <4>3, Zenon DEF HeldBy
      <4> QED  BY <4>1, <4>4, <1>0, <1>1, Zenon
    <3> QED  BY <1>2, <3>1, <3>2, Zenon
  <2>2. ASSUME NEW m \in confirmed'
        PROVE  m \in Messages /\ (Kind[m] = "durable" => From[m] \in Nodes /\ Has(mem'[Peer(From[m])], m))
    <3>1. m \in Messages /\ (Kind[m] = "durable" => From[m] \in Nodes /\ Has(mem[Peer(From[m])], m))
      BY Zenon DEF IInv, Told
    <3> QED  BY <3>1, <1>5, Pair, Zenon
  <2> QED  BY <2>1, <2>2, Zenon DEF Told
<1> QED  BY <1>3, <1>4, <1>6, <1>7, <1>8, <1>9, Zenon DEF IInv

-----------------------------------------------------------------------------
(* The three ways in which a checkpoint of n changes its session *)

\* The session goes on: counters are added, and what arrived was sent.
Continues(n, z) ==
    LET s == mem[n].session
        t == z.session
    IN  /\ t.tag = s.tag /\ t.gen = s.gen /\ Len(s.sent) <= Len(t.sent)
        /\ z.firsts = mem[n].firsts
        /\ \A c \in t.received \ s.received :
              \E q \in net : q.to = n /\ q.tag = s.tag /\ q.counter = c /\ c > 0
        /\ t.state = "established" \/ t.received # {} =>
              \/ s.state = "established" \/ s.received # {}
              \/ \E q \in net : q.to = n /\ q.tag = s.tag

\* n initiates the next generation.
Initiates(n, z) ==
    /\ z.session.gen = mem[n].session.gen + 1
    /\ z.session.tag = <<n, z.session.gen>>
    /\ z.session.state = "initiated"
    /\ z.firsts = mem[n].firsts

\* n accepts the first move q.
Accepts(n, z) ==
    \E q \in net :
        /\ q.to = n /\ q.body = First /\ SetupWins(n, q.tag)
        /\ z.session.tag = q.tag /\ z.session.gen = q.tag[2]
        /\ z.session.received = {1}
        /\ z.firsts = mem[n].firsts \cup {q.tag}

\* A state that continues the session of its node fits.
LEMMA ContinuesFits ==
  ASSUME IInv, NEW n \in Nodes, NEW z, Local(n, z), Continues(n, z)
  PROVE  Fit(n, z)
<1> DEFINE s == mem[n].session
           t == z.session
<1>1. Fit(n, mem[n])  BY OldFits, Zenon
<1>2. z \in States /\ mem[n] \in States /\ SessionOf(n, z)  BY Zenon DEF IInv, Types, Local
<1>3. Len(s.sent) \in Nat /\ Len(t.sent) \in Nat /\ s.gen \in Nat
  BY <1>2 DEF States, Sessions
<1>4. FitWinner(n, z)  BY <1>1, Zenon DEF Fit, FitWinner, Continues
<1>5. FitOrigin(n, z)
  <2>1. ASSUME NEW q \in net, q.to = n, q.tag = s.tag, s.tag[1] = n
        PROVE  s.tag \in mem[Peer(n)].firsts
    BY <2>1, Zenon DEF IInv, Origin
  <2> QED  BY <1>1, <2>1, Zenon DEF Fit, FitOrigin, Continues
<1>6. FitBounded(n, z)
  <2>1. ASSUME t.gen > 0, NEW q \in net, q.tag = t.tag
        PROVE  /\ q.to # n /\ q.counter > 0 => q.counter <= Len(t.sent)
               /\ q.to = n /\ q.counter = 0 => q.cover \subseteq 1..Len(t.sent)
    <3>1. q.counter \in Nat  BY Zenon DEF IInv, Types, Packets
    <3>2. /\ q.to # n /\ q.counter > 0 => q.counter <= Len(s.sent)
          /\ q.to = n /\ q.counter = 0 => q.cover \subseteq 1..Len(s.sent)
      BY <1>1, <2>1, Zenon DEF Fit, FitBounded, Continues
    <3>3. Len(s.sent) <= Len(t.sent)  BY Zenon DEF Continues
    <3> QED  BY <3>1, <3>2, <3>3, <1>3
  <2>2. ASSUME t.gen > 0, NEW y \in States2(Peer(n)), y.session.tag = t.tag
        PROVE  y.session.received \subseteq 1..Len(t.sent)
    <3>1. y.session.received \subseteq 1..Len(s.sent)
      BY <1>1, <2>2, Zenon DEF Fit, FitBounded, Continues
    <3>2. Len(s.sent) <= Len(t.sent)  BY Zenon DEF Continues
    <3> QED  BY <3>1, <3>2, <1>3
  <2>3. ASSUME NEW y \in States2(Peer(n)), y.session.gen > 0, t.tag = y.session.tag,
               NEW c \in t.received
        PROVE  c \in 1..Len(y.session.sent)
    <3>1. CASE c \in s.received
      BY <1>1, <2>3, <3>1, Zenon DEF Fit, FitBounded, Continues
    <3>2. CASE c \notin s.received
      <4>1. PICK q \in net : q.to = n /\ q.tag = s.tag /\ q.counter = c /\ c > 0
        BY <3>2, Zenon DEF Continues
      <4>2. Peer(n) \in Nodes /\ q.to # Peer(n) /\ q.tag = y.session.tag
        BY <4>1, <2>3, Pair, Zenon DEF Continues
      <4>3. q.counter <= Len(y.session.sent)
        BY <4>1, <4>2, <2>3, Zenon DEF IInv, Bounded
      <4>4. q.counter \in Nat  BY Zenon DEF IInv, Types, Packets
      <4>5. y \in States  BY <4>2, Zenon DEF IInv, Types, States2
      <4>6. Len(y.session.sent) \in Nat  BY <4>5 DEF States, Sessions
      <4> QED  BY <4>1, <4>3, <4>4, <4>6
    <3> QED  BY <3>1, <3>2, Zenon
  <2> QED  BY <2>1, <2>2, <2>3, Zenon DEF FitBounded
<1> QED  BY <1>4, <1>5, <1>6, Zenon DEF Fit

\* Nobody has heard of the new generation.
LEMMA InitiatesFits ==
  ASSUME IInv, NEW n \in Nodes, NEW z, Local(n, z), Initiates(n, z)
  PROVE  Fit(n, z)
<1> DEFINE s == mem[n].session
           t == z.session
<1>1. Fit(n, mem[n])  BY OldFits, Zenon
<1>2. z \in States /\ mem[n] \in States /\ SessionOf(n, z)  BY Zenon DEF IInv, Types, Local
<1>3. s.gen \in Nat /\ t.gen = s.gen + 1 /\ t.tag[1] = n /\ t.tag[2] = t.gen
  BY <1>2 DEF States, Sessions, Initiates
<1>4. FitWinner(n, z)  BY <1>1, Zenon DEF Fit, FitWinner, Initiates
<1>5. t.received = {} /\ t.state # "established"  BY <1>2, Zenon DEF SessionOf, Initiates
<1>6. FitOrigin(n, z)
  BY <1>1, <1>5, Zenon DEF Fit, FitOrigin, Initiates
<1>7. \A q \in net : q.tag # t.tag
  <2> SUFFICES ASSUME NEW q \in net, q.tag = t.tag PROVE FALSE
    BY Zenon
  <2>1. q.tag[2] <= s.gen  BY <1>3, Zenon DEF IInv, Origin
  <2> QED  BY <2>1, <1>3
<1>8. \A y \in States2(Peer(n)) : y.session.tag # t.tag
  <2> SUFFICES ASSUME NEW y \in States2(Peer(n)), y.session.tag = t.tag PROVE FALSE
    BY Zenon
  <2>1. Peer(n) \in Nodes /\ Peer(n) # n  BY Pair, Zenon
  <2>2. SessionOf(Peer(n), y) /\ y \in States  BY <2>1, Zenon DEF IInv, Local, States2
  <2>3. t.tag \in Tags  BY <1>2, <1>3 DEF SessionOf
  <2>4. y.session.gen \in Nat /\ y.session.gen > 0
    BY <2>2, <2>3, TagIsPair DEF SessionOf, NoSession, States, Sessions
  <2>5. t.tag \in y.firsts  BY <2>1, <2>2, <2>4, <1>3, Zenon DEF SessionOf
  <2>6. t.tag[2] <= s.gen  BY <2>1, <2>5, <1>3, Zenon DEF IInv, Origin
  <2> QED  BY <2>6, <1>3
<1>9. FitBounded(n, z)  BY <1>5, <1>7, <1>8, Zenon DEF FitBounded
<1> QED  BY <1>4, <1>6, <1>9, Zenon DEF Fit

\* A first move that wins opens a session in which n has sent nothing.
LEMMA AcceptsFits ==
  ASSUME IInv, NEW n \in Nodes, NEW z, Local(n, z), Accepts(n, z)
  PROVE  Fit(n, z)
<1> DEFINE s == mem[n].session
           t == z.session
           p == Peer(n)
<1>1. PICK q \in net : /\ q.to = n /\ q.body = First /\ SetupWins(n, q.tag)
                       /\ t.tag = q.tag /\ t.gen = q.tag[2]
                       /\ t.received = {1} /\ z.firsts = mem[n].firsts \cup {q.tag}
  BY Zenon DEF Accepts
<1>2. Fit(n, mem[n]) /\ p \in Nodes /\ p # n /\ Peer(p) = n /\ (\A k \in Nodes : k = n \/ k = p)
  BY OldFits, Pair, Zenon
<1>3. /\ q \in Packets /\ q.tag \in Tags /\ q.counter > 0 /\ q.counter \in Nat
      /\ q.tag[1] = p /\ q.tag[2] \in Nat /\ q.tag[2] > 0 /\ q.tag = <<p, q.tag[2]>>
      /\ q.tag[2] <= mem[p].session.gen
  <2>1. q \in Packets /\ q.tag \in Tags  BY Zenon DEF IInv, Types, Packets
  <2>2. q.counter > 0 /\ q.tag[1] # n /\ q.tag[2] <= mem[q.tag[1]].session.gen
    BY <1>1, Zenon DEF IInv, Origin
  <2>3. q.tag = <<q.tag[1], q.tag[2]>>  BY <2>1, TagIsPair, Zenon
  <2>4. q.tag[1] = p  BY <1>2, <2>1, <2>2, Zenon DEF Tags
  <2> QED  BY <2>1, <2>2, <2>3, <2>4 DEF Tags, Packets
<1>4. q.tag \notin mem[n].firsts  BY <1>1, Zenon DEF SetupWins
<1>5. FitOrigin(n, z)
  BY <1>1, <1>2, <1>3, Zenon DEF Fit, FitOrigin
<1>6. FitWinner(n, z)
  <2>1. CASE n = Lower
    <3>1. s.gen \in Nat /\ q.tag[2] > s.gen
      BY <1>1, <2>1, Zenon DEF SetupWins, IInv, Types, States, Sessions
    <3>2. ASSUME NEW r \in net, r.tag[1] = Lower PROVE <<p, r.tag[2]>> # q.tag
      <4>1. r.tag[2] <= s.gen  BY <3>2, <2>1, Zenon DEF IInv, Origin
      <4> QED  BY <4>1, <3>1, <1>3
    <3>3. ASSUME NEW y \in States2(p), NEW u \in y.firsts PROVE <<p, u[2]>> # q.tag
      <4>1. SessionOf(p, y) /\ y \in States  BY <1>2, Zenon DEF IInv, Local, States2
      <4>2. u[1] # p /\ u \in Tags  BY <4>1, Zenon DEF SessionOf, States
      <4>3. u[1] = n  BY <4>2, <1>2, Zenon DEF Tags
      <4>4. u[2] <= s.gen  BY <4>3, <1>2, Zenon DEF IInv, Origin
      <4> QED  BY <4>4, <3>1, <1>3
    <3> QED  BY <3>2, <3>3, <2>1, <1>1, <1>2, Zenon DEF Fit, FitWinner
  <2>2. CASE p = Lower
    <3>1. q.tag[1] = Lower /\ Peer(Lower) = n /\ n # Lower  BY <2>2, <1>2, <1>3, Zenon
    <3>2. \A x \in States2(Lower) : <<n, q.tag[2]>> \notin x.firsts
      BY <3>1, Zenon DEF IInv, OneWinner
    <3> QED  BY <3>1, <3>2, <1>1, <1>2, Zenon DEF Fit, FitWinner
  <2> QED  BY <2>1, <2>2, <1>2, Pair, Zenon
<1>7. FitBounded(n, z)
  <2>1. ASSUME NEW r \in net, r.tag = q.tag PROVE r.to = n /\ ~(r.to = n /\ r.counter = 0)
    <3>1. r.to \in Nodes  BY Zenon DEF IInv, Types, Packets
    <3>2. r.tag[1] = r.to \/ r.counter = 0 =>
             r.tag \in mem[IF r.tag[1] = r.to THEN Peer(r.to) ELSE r.to].firsts
      BY Zenon DEF IInv, Origin
    <3> QED  BY <3>1, <3>2, <2>1, <1>2, <1>3, <1>4, Zenon
  <2>2. ASSUME NEW y \in States2(p), y.session.tag = q.tag
        PROVE  y.session.received = {} /\ y.session.gen > 0
    <3>1. SessionOf(p, y) /\ y \in States  BY <1>2, Zenon DEF IInv, Local, States2
    <3>2. y.session.gen \in Nat /\ y.session.gen > 0
      BY <3>1, <2>2, <1>3, TagIsPair DEF SessionOf, NoSession, States, Sessions
    <3> QED  BY <3>2, <2>2, <1>2, <1>3, <1>4, Zenon DEF IInv, Origin
  <2>3. ASSUME NEW y \in States2(p), y.session.tag = q.tag
        PROVE  1 \in 1..Len(y.session.sent)
    <3>1. y \in States  BY <1>2, Zenon DEF IInv, Types, States2
    <3>2. Len(y.session.sent) \in Nat  BY <3>1 DEF States, Sessions
    <3>3. q.counter <= Len(y.session.sent)
      BY <2>2, <2>3, <1>1, <1>2, <1>3, SMTT(30) DEF IInv, Bounded
    <3> QED  BY <3>2, <3>3, <1>3
  <2> QED  BY <1>1, <2>1, <2>2, <2>3, Zenon DEF FitBounded
<1> QED  BY <1>5, <1>6, <1>7, Zenon DEF Fit

-----------------------------------------------------------------------------
(* The operations fit *)

\* A change within the session that hears nothing fits.
LEMMA OwnFits ==
  ASSUME IInv, NEW n \in Nodes, NEW z, Within(n, mem[n], z, {}, FALSE)
  PROVE  Fit(n, z) /\ Ahead(mem[n], z)
<1>1. Continues(n, z)  BY Zenon DEF Within, Continues
<1>2. Local(n, z) /\ Ahead(mem[n], z)  BY Zenon DEF Within
<1> QED  BY <1>1, <1>2, ContinuesFits, Zenon

\* A change within the session that receives a packet under way fits.
LEMMA HeardFits ==
  ASSUME IInv, NEW p \in net, p.tag = mem[p.to].session.tag, p.to \in Nodes, NEW z,
         \/ Within(p.to, mem[p.to], z, {}, TRUE)
         \/ p.counter > 0 /\ Within(p.to, mem[p.to], z, {p.counter}, TRUE)
  PROVE  Fit(p.to, z) /\ Ahead(mem[p.to], z)
<1>1. Continues(p.to, z)  BY Zenon DEF Within, Continues
<1>2. Local(p.to, z) /\ Ahead(mem[p.to], z)  BY Zenon DEF Within
<1> QED  BY <1>1, <1>2, ContinuesFits, Zenon

\* A state with the session of one that fits, fits.
LEMMA SameFits ==
  ASSUME NEW n, NEW x, NEW z, Fit(n, x), Local(n, z), SameSession(x.session, z.session),
         z.firsts = x.firsts
  PROVE  Fit(n, z)
<1>1. FitOrigin(n, z)  BY Zenon DEF Fit, FitOrigin, SameSession
<1>2. FitBounded(n, z)  BY Zenon DEF Fit, FitBounded, SameSession
<1>3. FitWinner(n, z)  BY Zenon DEF Fit, FitWinner
<1> QED  BY <1>1, <1>2, <1>3, Zenon DEF Fit

\* A state may be its own archive.
LEMMA AheadSelf ==
  ASSUME NEW x \in States PROVE Ahead(x, x)
BY DEF Ahead, States, Sessions

-----------------------------------------------------------------------------
(* The checkpoints *)

\* A checkpoint that succeeds keeps the invariant if the new state fits.
LEMMA SavedKeeps ==
  ASSUME IInv, NEW n \in Nodes, NEW new, Fit(n, new), Ahead(mem[n], new),
         Live(n, new), disk' = [disk EXCEPT ![n] = new],
         \A m \in confirmed' : \/ m \in confirmed
                               \/ m \in Messages /\ From[m] = n
                                    /\ (Kind[m] = "durable" => Has(mem[Peer(n)], m))
  PROVE  IInv'
<1>1. Moves(n, new, new)  BY Zenon DEF Moves, Live
<1>2. Ahead(new, new)  BY AheadSelf, Zenon DEF Fit, Local
<1> QED  BY <1>1, <1>2, MoveKeeps, Zenon

\* A checkpoint written and refused keeps the invariant if the new state fits.
LEMMA RefusedKeeps ==
  ASSUME IInv, NEW n \in Nodes, NEW new, Fit(n, new), Ahead(mem[n], new),
         WrittenThenRefused(n, new), confirmed' = confirmed
  PROVE  IInv'
<1>1. mem[n] \in States /\ mem = [mem EXCEPT ![n] = mem[n]]  BY Zenon DEF IInv, Types
<1>2. Moves(n, mem[n], new)  BY <1>1, Zenon DEF Moves, WrittenThenRefused
<1>3. Ahead(mem[n], mem[n]) /\ Fit(n, mem[n])  BY <1>1, AheadSelf, OldFits, Zenon
<1> QED  BY <1>2, <1>3, MoveKeeps, Zenon

\* A checkpoint of unknown outcome keeps the invariant if the new state fits.
LEMMA PausedKeeps ==
  ASSUME IInv, NEW n \in Nodes, NEW new, Fit(n, new), Ahead(mem[n], new),
         Paused(n, new), confirmed' = confirmed
  PROVE  IInv'
<1> DEFINE x == [mem[n] EXCEPT !.failed = TRUE]
<1>1. /\ mem[n] \in States /\ Local(n, mem[n]) /\ Fit(n, mem[n]) /\ Fit(n, disk[n])
      /\ disk = [disk EXCEPT ![n] = disk[n]] /\ mem' = [mem EXCEPT ![n] = x]
  BY OldFits, Zenon DEF IInv, Types, Paused
<1>2. Within(n, mem[n], x, {}, FALSE)  BY <1>1, FailedWithin, ZenonT(30)
<1>3. Fit(n, x) /\ Ahead(mem[n], x)  BY <1>2, OwnFits, ZenonT(30)
<1>4. x.session = mem[n].session /\ x.firsts = mem[n].firsts
      /\ x.inbox = mem[n].inbox /\ x.taken = mem[n].taken
  BY <1>1, Zenon DEF States
<1> HIDE DEF x
<1>5. PICK d \in {disk[n], new} : disk' = [disk EXCEPT ![n] = d]
  BY <1>1, Zenon DEF Paused
<1>6. Fit(n, d) /\ Ahead(mem[n], d)  BY <1>1, <1>5, Zenon DEF IInv
<1>7. Ahead(x, d)  BY <1>4, <1>6, Zenon DEF Ahead, Has
<1>8. Moves(n, x, d)  BY <1>1, <1>5, ZenonT(30) DEF Moves, Paused
<1> QED  BY <1>3, <1>6, <1>7, <1>8, MoveKeeps, Zenon

-----------------------------------------------------------------------------
(* The actions *)

\* prepare_direct_record keeps the invariant.
LEMMA SubmitKeeps ==
  ASSUME IInv, NEW n \in Nodes, NEW m \in Messages, Submit(n, m)
  PROVE  IInv'
<1> DEFINE node == mem[n]
<1>0. PICK aged \in BOOLEAN, routeless \in BOOLEAN :
         \E new \in Prepared(n, m, aged, routeless) : Saved(n, new) \/ WrittenThenRefused(n, new)
  BY Zenon DEF Submit
<1>1. PICK new \in Prepared(n, m, aged, routeless) : Saved(n, new) \/ WrittenThenRefused(n, new)
  BY <1>0, Zenon
<1>2. From[m] = n /\ confirmed' = confirmed /\ Local(n, node) /\ node.session.gen \in Nat
  BY Zenon DEF Submit, IInv, Types, States, Sessions
<1>3. \/ new = Deferred(node, m)
      \/ node.session.gen = 0 /\ new = Encrypted(node, Initiated(n, 1), m)
      \/ node.session.gen > 0 /\ new = Encrypted(node, node.session, m)
  BY <1>1, <1>2 DEF Prepared
<1>4. Fit(n, new) /\ Ahead(node, new)
  <2>1. CASE new = Deferred(node, m)
    BY <2>1, <1>2, DeferredWithin, OwnFits, ZenonT(30)
  <2>2. CASE node.session.gen = 0 /\ new = Encrypted(node, Initiated(n, 1), m)
    <3>1. /\ Local(n, new) /\ Ahead(node, new) /\ new.firsts = node.firsts
          /\ new.session.gen = 1 /\ new.session.tag = <<n, 1>> /\ new.session.state = "initiated"
      BY <1>2, <2>2, StartedLocal
    <3>2. Initiates(n, new)  BY <2>2, <3>1 DEF Initiates
    <3> QED  BY <3>1, <3>2, InitiatesFits, Zenon
  <2>3. CASE node.session.gen > 0 /\ new = Encrypted(node, node.session, m)
    BY <2>3, <1>2, EncryptedWithin, OwnFits, ZenonT(30)
  <2> QED  BY <1>3, <2>1, <2>2, <2>3, Zenon
<1> QED  BY <1>1, <1>2, <1>4, SavedKeeps, RefusedKeeps, Zenon DEF Saved

\* materialize_deferred keeps the invariant.
LEMMA MaterializeDeferredKeeps ==
  ASSUME IInv, NEW n \in Nodes, MaterializeDeferred(n)
  PROVE  IInv'
<1> DEFINE node == mem[n]
           s == IF node.session.gen = 0 THEN Initiated(n, 1) ELSE node.session
<1>1. PICK m \in DOMAIN node.pending :
         Saved(n, Encrypted(node, s, m)) \/ Paused(n, Encrypted(node, s, m))
  BY Zenon DEF MaterializeDeferred
<1> DEFINE new == Encrypted(node, s, m)
<1>2. confirmed' = confirmed /\ Local(n, node) /\ node \in States /\ node.session.gen \in Nat
  BY Zenon DEF MaterializeDeferred, observed, IInv, Types, States, Sessions
<1>3. m \in Messages  BY <1>2, MapsUse, Zenon DEF States
<1>4. From[m] = n  BY <1>1, <1>2, <1>3, Zenon DEF Local, HeldBy
<1>5. Fit(n, new) /\ Ahead(node, new)
  <2>1. CASE node.session.gen = 0
    <3>1. new = Encrypted(node, Initiated(n, 1), m)  BY <2>1, Zenon
    <3> HIDE DEF new
    <3>2. /\ Local(n, new) /\ Ahead(node, new) /\ new.firsts = node.firsts
          /\ new.session.gen = 1 /\ new.session.tag = <<n, 1>> /\ new.session.state = "initiated"
      BY <1>2, <1>3, <1>4, <2>1, <3>1, StartedLocal
    <3>3. Initiates(n, new)  BY <2>1, <3>2 DEF Initiates
    <3> QED  BY <3>2, <3>3, InitiatesFits, Zenon
  <2>2. CASE node.session.gen > 0
    <3>1. new = Encrypted(node, node.session, m)  BY <2>2
    <3> HIDE DEF new
    <3> QED  BY <1>2, <1>3, <1>4, <2>2, <3>1, EncryptedWithin, OwnFits, ZenonT(30)
  <2> QED  BY <1>2, <2>1, <2>2
<1> HIDE DEF new
<1>6. Saved(n, new) \/ Paused(n, new)  BY <1>1, Zenon DEF new
<1> QED  BY <1>2, <1>5, <1>6, SavedKeeps, PausedKeeps, Zenon DEF Saved

\* materialize (of acknowledgments) keeps the invariant.
LEMMA MaterializeAckKeeps ==
  ASSUME IInv, NEW n \in Nodes, MaterializeAck(n)
  PROVE  IInv'
<1> DEFINE node == mem[n]
           s == node.session
           new(m, now) == [StagePreparedAck(node, m, <<s.tag, Len(s.sent) + 1>>, now)
                             EXCEPT !.session.sent = Append(@, Ack(m))]
<1>1. PICK m \in node.owed, now \in 0..MaxNow :
         /\ Horizon[m] > LedgerNow(node, now)
         /\ Saved(n, new(m, now)) \/ Paused(n, new(m, now))
  BY ZenonT(30) DEF MaterializeAck
<1>2. /\ confirmed' = confirmed /\ Local(n, node) /\ s.state = "established"
  BY Zenon DEF MaterializeAck, IInv
<1>n. now \in Nat  BY <1>1
<1>3. s.gen > 0  BY <1>2 DEF Local, SessionOf, NoSession, States, Sessions
<1> DEFINE y == new(m, now)
<1>4. Within(n, node, y, {}, FALSE)  BY <1>1, <1>2, <1>3, <1>n, PreparedAckWithin, ZenonT(30)
<1>5. Saved(n, y) \/ Paused(n, y)  BY <1>1, Zenon
<1> HIDE DEF y, node, s, new
<1>6. Fit(n, y) /\ Ahead(mem[n], y)  BY <1>4, OwnFits, ZenonT(30) DEF node
<1> QED  BY <1>2, <1>5, <1>6, SavedKeeps, PausedKeeps, Zenon DEF Saved

\* Dropping an expired record keeps the invariant.
LEMMA DropExpiredKeeps ==
  ASSUME IInv, NEW n \in Nodes, DropExpired(n)
  PROVE  IInv'
<1>1. PICK m : mem' = [mem EXCEPT ![n].pending = Without(@, m)]  BY ZenonT(30) DEF DropExpired
<1> DEFINE x == [mem[n] EXCEPT !.pending = Without(@, m)]
<1>2. /\ Local(n, mem[n]) /\ mem[n] \in States /\ mem' = [mem EXCEPT ![n] = x]
      /\ disk = [disk EXCEPT ![n] = disk[n]] /\ disk' = disk /\ net' = net /\ confirmed' = confirmed
      /\ Fit(n, disk[n]) /\ Ahead(mem[n], disk[n])
  BY <1>1, OldFits, ZenonT(30) DEF IInv, Types, DropExpired, observed
<1>3. Within(n, mem[n], x, {}, FALSE)  BY <1>2, DroppedWithin, ZenonT(30)
<1>4. x.session = mem[n].session /\ x.firsts = mem[n].firsts
      /\ x.inbox = mem[n].inbox /\ x.taken = mem[n].taken
  BY <1>2, Zenon DEF States
<1> HIDE DEF x
<1>5. Fit(n, x) /\ Ahead(mem[n], x)  BY <1>3, OwnFits, ZenonT(30)
<1>6. Ahead(x, disk[n])  BY <1>2, <1>4, Zenon DEF Ahead, Has
<1>7. Moves(n, x, disk[n])  BY <1>2, ZenonT(30) DEF Moves
<1> QED  BY <1>2, <1>5, <1>6, <1>7, MoveKeeps, Zenon

\* recover_peer keeps the invariant.
LEMMA RecoverKeeps ==
  ASSUME IInv, NEW n \in Nodes, Recover(n)
  PROVE  IInv'
<1> DEFINE node == mem[n]
           new == [Requeued(node) EXCEPT !.session = Initiated(n, node.session.gen + 1)]
<1>1. /\ \/ Live(n, new) /\ disk' = [disk EXCEPT ![n] = new]
         \/ Paused(n, new)
      /\ confirmed' = confirmed /\ Local(n, node)
  BY Zenon DEF Recover, observed, IInv
<1>2. /\ Local(n, new) /\ Ahead(node, new) /\ new.firsts = node.firsts
      /\ new.session.gen = node.session.gen + 1
      /\ new.session.tag = <<n, node.session.gen + 1>> /\ new.session.state = "initiated"
  BY <1>1, RecoveredLocal, ZenonT(30)
<1> HIDE DEF new
<1>3. Initiates(n, new)  BY <1>2, Zenon DEF Initiates
<1>4. Fit(n, new)  BY <1>2, <1>3, InitiatesFits, Zenon
<1> QED  BY <1>1, <1>2, <1>4, SavedKeeps, PausedKeeps, Zenon

\* A restart from the archive keeps the invariant.
LEMMA RestartKeeps ==
  ASSUME IInv, NEW n \in Nodes, Restart(n)
  PROVE  IInv'
<1> DEFINE d == disk[n]
           new == Restored(d)
<1>1. /\ Live(n, new) /\ disk' = [disk EXCEPT ![n] = new] /\ confirmed' = confirmed
      /\ Local(n, d) /\ Fit(n, d) /\ Ahead(mem[n], d)
  BY OldFits, Zenon DEF Restart, observed, IInv
<1>2. /\ Within(n, d, new, {}, FALSE)
      /\ SameSession(d.session, new.session) /\ new.firsts = d.firsts
  BY <1>1, RestoredWithin, ZenonT(30)
<1> HIDE DEF new
<1>3. Local(n, new) /\ Ahead(d, new)  BY <1>2, Zenon DEF Within
<1>4. Fit(n, new)  BY <1>1, <1>2, <1>3, SameFits, Zenon
<1>5. Ahead(mem[n], new)
  <2>1. mem[n] \in States /\ d \in States /\ new \in States
    BY <1>1, <1>3, Zenon DEF IInv, Types, Local
  <2>2. mem[n].session.gen \in Nat /\ d.session.gen \in Nat /\ new.session.gen \in Nat
    BY <2>1, Zenon DEF States, Sessions
  <2> QED  BY <1>1, <1>3, <2>2 DEF Ahead
<1> QED  BY <1>1, <1>4, <1>5, SavedKeeps, ZenonT(30)

\* ApplicationInbox::consume keeps the invariant.
LEMMA ConsumeKeeps ==
  ASSUME IInv, NEW n \in Nodes, NEW m \in Messages, Consume(n, m)
  PROVE  IInv'
<1> DEFINE new == [mem[n] EXCEPT !.inbox[m] = @ - 1, !.taken[m] = @ + 1]
<1>1. /\ Saved(n, new) \/ WrittenThenRefused(n, new)
      /\ confirmed' = confirmed /\ Local(n, mem[n]) /\ mem[n].inbox[m] > 0
  BY Zenon DEF Consume, observed, IInv
<1>2. Within(n, mem[n], new, {}, FALSE)  BY <1>1, ConsumedWithin, ZenonT(30)
<1> HIDE DEF new
<1>3. Fit(n, new) /\ Ahead(mem[n], new)  BY <1>2, OwnFits, ZenonT(30)
<1> QED  BY <1>1, <1>3, SavedKeeps, RefusedKeeps, Zenon DEF Saved

\* accept keeps the invariant: the collision rules leave one winner.
LEMMA AcceptFirstMoveKeeps ==
  ASSUME IInv, NEW p \in net, AcceptFirstMove(p.to, p)
  PROVE  IInv'
<1> DEFINE n == p.to
           node == mem[n]
           new == Replaced(node, p.tag)
<1>1. n \in Nodes /\ p.tag \in Tags  BY Zenon DEF IInv, Types, Packets
<1>2. /\ p.body = First /\ SetupWins(n, p.tag) /\ confirmed' = confirmed
      /\ Saved(n, new) \/ Paused(n, new)
  BY Zenon DEF AcceptFirstMove, observed, Replaced
<1>3. Local(n, node) /\ node.session.gen \in Nat  BY <1>1, Zenon DEF IInv, Types, States, Sessions
<1>4. p.tag[1] # n  BY <1>2, Zenon DEF IInv, Origin
<1>5. p.tag \notin node.firsts /\ node.session.gen <= p.tag[2]
  BY <1>1, <1>2, <1>3 DEF SetupWins, Tags
<1>6. /\ Local(n, new) /\ Ahead(node, new) /\ new.firsts = node.firsts \cup {p.tag}
      /\ new.session.gen = p.tag[2] /\ new.session.tag = p.tag /\ new.session.received = {1}
  BY <1>1, <1>3, <1>4, <1>5, AcceptedLocal
<1> HIDE DEF new
<1>7. Accepts(n, new)  BY <1>2, <1>6, Zenon DEF Accepts
<1>8. Fit(n, new)  BY <1>1, <1>6, <1>7, AcceptsFits, Zenon
<1> QED  BY <1>1, <1>2, <1>6, <1>8, SavedKeeps, PausedKeeps, Zenon DEF Saved

\* A packet of the session of the node it arrives at.
LEMMA Heard ==
  ASSUME IInv, NEW p \in net, p.tag = mem[p.to].session.tag
  PROVE  /\ p.to \in Nodes /\ p.counter \in Nat /\ p.body \in Bodies \cup {<<"credit">>}
         /\ Local(p.to, mem[p.to]) /\ mem[p.to].session.gen > 0
<1> DEFINE n == p.to
<1>1. n \in Nodes /\ p.counter \in Nat /\ p.tag \in Tags /\ p.body \in Bodies \cup {<<"credit">>}
  BY Zenon DEF IInv, Types, Packets
<1>2. Local(n, mem[n]) /\ mem[n].session.gen \in Nat  BY <1>1, Zenon DEF IInv, Types, States, Sessions
<1>3. mem[n].session.gen > 0
  BY <1>1, <1>2, TagIsPair, SMTT(30) DEF Local, SessionOf, NoSession
<1> QED  BY <1>1, <1>2, <1>3, Zenon

\* A data record keeps the invariant, whatever accept_reliable_direct does with it.
LEMMA ReceiveDataKeeps ==
  ASSUME IInv, NEW p \in net, p.counter > 0, p.tag = mem[p.to].session.tag, ReceiveData(p.to, p)
  PROVE  IInv'
<1> DEFINE n == p.to
           node == mem[n]
           m == p.body[2]
           cr == [node EXCEPT !.session = Received(@, p.counter)]
<1>1. /\ n \in Nodes /\ p.counter \in Nat /\ p.body \in Bodies \cup {<<"credit">>}
      /\ Local(n, node) /\ node.session.gen > 0
  BY Heard, Zenon
<1>2. m \in Messages
  <2>1. p.body[1] = "data"  BY Zenon DEF ReceiveData
  <2>2. p.body \in Bodies  BY <1>1, <2>1
  <2> QED  BY <2>1, <2>2, BodyKinds, Zenon
<1>3. PICK now \in 0..MaxNow :
        \/ CreditOnly(n, p)
        \/ \E aged \in BOOLEAN :
             LET new == AcceptReliable(node, m, p.counter, aged, now)
             IN  (Saved(n, new) \/ WrittenThenRefused(n, new)) /\ confirmed' = confirmed
  BY Zenon DEF ReceiveData, observed
<1>4. now \in Nat  BY <1>3
<1>5. CASE CreditOnly(n, p)
  <2>1. Saved(n, cr) /\ confirmed' = confirmed  BY <1>5, Zenon DEF CreditOnly, observed
  <2>2. Within(n, node, cr, {p.counter}, TRUE)
    BY <1>1, CreditOnlyWithin, ZenonT(30)
  <2> HIDE DEF cr
  <2>3. Fit(n, cr) /\ Ahead(node, cr)  BY <1>1, <2>2, HeardFits, ZenonT(30)
  <2> QED  BY <1>1, <2>1, <2>3, SavedKeeps, ZenonT(30) DEF Saved
<1>6. ASSUME NEW aged \in BOOLEAN,
             LET new == AcceptReliable(node, m, p.counter, aged, now)
             IN  (Saved(n, new) \/ WrittenThenRefused(n, new)) /\ confirmed' = confirmed
      PROVE  IInv'
  <2> DEFINE new == AcceptReliable(node, m, p.counter, aged, now)
  <2>1. (Saved(n, new) \/ WrittenThenRefused(n, new)) /\ confirmed' = confirmed  BY <1>6, Zenon
  <2>2. Within(n, node, new, {p.counter}, TRUE)
    BY <1>1, <1>2, <1>4, AcceptReliableWithin, ZenonT(30)
  <2> HIDE DEF new
  <2>3. Fit(n, new) /\ Ahead(node, new)  BY <1>1, <2>2, HeardFits, ZenonT(30)
  <2> QED  BY <1>1, <2>1, <2>3, SavedKeeps, RefusedKeeps, Zenon DEF Saved
<1> QED  BY <1>3, <1>5, <1>6, Zenon

\* An acknowledgment keeps the invariant: its record is in the peer's archive.
LEMMA ReceiveAckKeeps ==
  ASSUME IInv, NEW p \in net, p.counter > 0, p.tag = mem[p.to].session.tag, ReceiveAck(p.to, p)
  PROVE  IInv'
<1> DEFINE n == p.to
           node == mem[n]
           m == p.body[2]
           new == [node EXCEPT !.session = Received(@, p.counter), !.pending = Without(@, m)]
<1>1. /\ n \in Nodes /\ p.counter \in Nat /\ p.body \in Bodies \cup {<<"credit">>}
      /\ Local(n, node) /\ node.session.gen > 0
  BY Heard, Zenon
<1>2. m \in Messages /\ p.body = Ack(m)
  <2>1. p.body[1] = "ack"  BY Zenon DEF ReceiveAck
  <2>2. p.body \in Bodies  BY <1>1, <2>1
  <2> QED  BY <2>1, <2>2, BodyKinds, Zenon
<1>3. \/ /\ Saved(n, new)
         /\ confirmed' = IF m \in DOMAIN node.pending THEN confirmed \cup {m} ELSE confirmed
      \/ WrittenThenRefused(n, new) /\ confirmed' = confirmed
  BY Zenon DEF ReceiveAck, observed
<1>4. Within(n, node, new, {p.counter}, TRUE)
  BY <1>1, ConfirmedWithin, ZenonT(30)
<1> HIDE DEF new
<1>5. Fit(n, new) /\ Ahead(node, new)  BY <1>1, <1>4, HeardFits, ZenonT(30)
<1>6. m \in DOMAIN node.pending => From[m] = n
  BY <1>1, <1>2, Zenon DEF Local, HeldBy
<1>7. Kind[m] = "durable" => Has(mem[Peer(n)], m)
  BY <1>2, Zenon DEF IInv, Told
<1>8. CASE WrittenThenRefused(n, new) /\ confirmed' = confirmed
  BY <1>1, <1>5, <1>8, RefusedKeeps, Zenon
<1>9. CASE /\ Saved(n, new)
           /\ confirmed' = IF m \in DOMAIN node.pending THEN confirmed \cup {m} ELSE confirmed
  <2>1. \A k \in confirmed' : \/ k \in confirmed
                              \/ k \in Messages /\ From[k] = n
                                   /\ (Kind[k] = "durable" => Has(mem[Peer(n)], k))
    BY <1>2, <1>6, <1>7, <1>9, Zenon
  <2>2. Live(n, new) /\ disk' = [disk EXCEPT ![n] = new]  BY <1>9, Zenon DEF Saved
  <2> QED  BY <1>1, <1>5, <2>1, <2>2, SavedKeeps, ZenonT(30)
<1> QED  BY <1>3, <1>8, <1>9, Zenon

\* A transport credit keeps the invariant: it covers counters that were sent.
LEMMA ReceiveCreditKeeps ==
  ASSUME IInv, NEW p \in net, ReceiveCredit(p.to, p)
  PROVE  IInv'
<1> DEFINE n == p.to
           node == mem[n]
           s == [node.session EXCEPT !.credited = @ \cup p.cover, !.state = "established"]
           new(now) == [StageCredit(node, s, now) EXCEPT !.session = s]
<1>1. /\ p.counter = 0 /\ p.tag = node.session.tag /\ confirmed' = confirmed
      /\ \E now \in 0..MaxNow : Saved(n, new(now)) \/ WrittenThenRefused(n, new(now))
  BY Zenon DEF ReceiveCredit, observed
<1>2. PICK now \in 0..MaxNow : Saved(n, new(now)) \/ WrittenThenRefused(n, new(now))
  BY <1>1, Zenon
<1>3. n \in Nodes /\ Local(n, node) /\ node.session.gen > 0
  BY <1>1, Heard, Zenon
<1>4. p.cover \subseteq DOMAIN node.session.sent
  <2>1. p.cover \subseteq 1..Len(node.session.sent)
    BY <1>1, <1>3, Zenon DEF IInv, Bounded, States2
  <2>2. node.session.sent \in Seq(Bodies)  BY <1>3, Zenon DEF Local, States, Sessions
  <2> QED  BY <2>1, <2>2
<1>5. now \in Nat  BY <1>2
<1> DEFINE y == new(now)
<1>6. Within(n, node, y, {}, TRUE)
  BY <1>3, <1>4, <1>5, CreditedWithin, ZenonT(30)
<1>7. Saved(n, y) \/ WrittenThenRefused(n, y)  BY <1>2, Zenon
<1> HIDE DEF y, new
<1>8. Fit(n, y) /\ Ahead(node, y)  BY <1>1, <1>3, <1>6, HeardFits, Zenon
<1> QED  BY <1>1, <1>3, <1>7, <1>8, SavedKeeps, RefusedKeeps, Zenon DEF Saved

-----------------------------------------------------------------------------
\* Two fresh nodes satisfy the invariant.
LEMMA InitIInv == Init => IInv
<1> SUFFICES ASSUME Init PROVE IInv
  BY Zenon
<1>1. FreshNode \in States
  <2>1. <<>> \in Maps(Nat) /\ <<>> \in Maps(Acks)
    <3>1. <<>> \in [{} -> Nat] /\ <<>> \in [{} -> Acks]  OBVIOUS
    <3> QED  BY <3>1, MapsMake, ZenonT(30)
  <2>2. NoSession \in Sessions  BY DEF NoSession, Sessions
  <2>3. [m \in Messages |-> 0] \in [Messages -> Nat]  BY Zenon
  <2> QED  BY <2>1, <2>2, <2>3, ZenonT(30) DEF FreshNode, States
<1>2. /\ FreshNode.session = NoSession /\ NoSession.gen = 0 /\ NoSession.sent = <<>>
      /\ NoSession.tag = <<>> /\ NoSession.state = "none" /\ NoSession.credited = {}
      /\ NoSession.received = {} /\ FreshNode.firsts = {} /\ FreshNode.owed = {}
      /\ DOMAIN FreshNode.receipts = {} /\ DOMAIN FreshNode.pending = {}
  BY SMTT(30) DEF FreshNode, NoSession
<1>3. \A n \in Nodes : mem[n] = FreshNode /\ disk[n] = FreshNode  BY Zenon DEF Init
<1>4. Types  BY <1>1, Zenon DEF Init, Types
<1>5. ASSUME NEW n \in Nodes PROVE Local(n, FreshNode) /\ Ahead(FreshNode, FreshNode)
  <2>1. DOMAIN NoSession.sent = {}  BY <1>2
  <2> HIDE DEF NoSession
  <2> QED  BY <1>1, <1>2, <2>1 DEF Local, SessionOf, LedgerOf, HeldBy, Ahead
<1>6. Lower \in Nodes /\ (\A n \in Nodes : Peer(n) \in Nodes)  BY Pair, Zenon
<1>7. net = {} /\ confirmed = {}  BY Zenon DEF Init
<1>8. Origin /\ Bounded /\ OneWinner /\ Told
  BY <1>2, <1>3, <1>6, <1>7, Zenon DEF Origin, Bounded, OneWinner, Told, States2
<1> QED  BY <1>3, <1>4, <1>5, <1>8, Zenon DEF IInv

\* Every step keeps the invariant.
LEMMA NextIInv == IInv /\ [Next]_vars => IInv'
<1> SUFFICES ASSUME IInv, [Next]_vars PROVE IInv'
  BY Zenon
<1>1. ASSUME NEW n \in Nodes, NEW m \in Messages, Submit(n, m) PROVE IInv'
  BY <1>1, SubmitKeeps, Zenon
<1>2. ASSUME NEW n \in Nodes, NEW m \in Messages, Consume(n, m) PROVE IInv'
  BY <1>2, ConsumeKeeps, Zenon
<1>3. ASSUME NEW n \in Nodes, MaterializeDeferred(n) PROVE IInv'
  BY <1>3, MaterializeDeferredKeeps, Zenon
<1>4. ASSUME NEW n \in Nodes, MaterializeAck(n) PROVE IInv'
  BY <1>4, MaterializeAckKeeps, Zenon
<1>5. ASSUME NEW n \in Nodes, DropExpired(n) PROVE IInv'
  BY <1>5, DropExpiredKeeps, Zenon
<1>6. ASSUME NEW n \in Nodes, Recover(n) PROVE IInv'
  BY <1>6, RecoverKeeps, Zenon
<1>7. ASSUME NEW n \in Nodes, Restart(n) PROVE IInv'
  BY <1>7, RestartKeeps, Zenon
<1>8. ASSUME NEW p \in net, Deliver(p) PROVE IInv'
  <2>1. CASE AcceptFirstMove(p.to, p)  BY <2>1, AcceptFirstMoveKeeps, Zenon
  <2>2. CASE ReceiveFrame(p.to, p)
    BY <2>2, ReceiveDataKeeps, ReceiveAckKeeps, Zenon DEF ReceiveFrame
  <2>3. CASE ReceiveCredit(p.to, p)  BY <2>3, ReceiveCreditKeeps, Zenon
  <2> QED  BY <1>8, <2>1, <2>2, <2>3, Zenon DEF Deliver
<1>9. CASE UNCHANGED vars
  <2>1. mem' = mem /\ disk' = disk /\ net' = net /\ confirmed' = confirmed
    BY <1>9, Zenon DEF vars
  <2>2. Types'  BY <2>1, Zenon DEF IInv, Types
  <2>3. Origin'  BY <2>1 DEF IInv, Origin, States2
  <2>4. Bounded'  BY <2>1 DEF IInv, Bounded, States2
  <2>5. OneWinner'  BY <2>1, Zenon DEF IInv, OneWinner, States2
  <2>6. Told'  BY <2>1, Zenon DEF IInv, Told
  <2> QED  BY <2>1, <2>2, <2>3, <2>4, <2>5, <2>6, Zenon DEF IInv
<1> QED  BY <1>1, <1>2, <1>3, <1>4, <1>5, <1>6, <1>7, <1>8, <1>9, Zenon DEF Next

\* Whatever packets are late, repeated, lost or reordered and whichever
\* checkpoint is refused after it was written (checkpoint_direct_state), a
\* restart finds an archive that agrees with all that left the node: sessions
\* and their tags, counters sent and received, acknowledgments and the records
\* they stand for.
THEOREM Inductive == Spec => []IInv
<1> QED  BY InitIInv, NextIInv, PTL DEF Spec

\* In every live state and every archive a receipt of the ledger has the
\* obligation to prepare its acknowledgment, or an acknowledgment which, if it
\* is of the current session, is that record's and not credited yet
\* (gc2_receipts.rs, the condition Ledger::decode checks on a restart).
THEOREM LedgerKeepsObligations == Spec => []ObligationKept
<1>1. IInv => ObligationKept
  <2>1. IInv => \A n \in Nodes : LedgerOf(n, mem[n]) /\ LedgerOf(n, disk[n])
    BY Zenon DEF IInv, Local
  <2> QED  BY <2>1 DEF LedgerOf, ObligationKept
<1> QED  BY <1>1, Inductive, PTL

\* The collision rules of accept (gc2_direct.rs): if both peers consider a
\* generation established, they have the same session.
THEOREM OneSession == Spec => []OneSessionPerGeneration
<1> DEFINE H == Peer(Lower)
           x == mem[Lower]
           y == mem[H]
<1>1. ASSUME IInv, x.session.state = "established", y.session.state = "established",
             x.session.gen = y.session.gen
      PROVE  x.session.tag = y.session.tag
  <2>1. /\ Lower \in Nodes /\ H \in Nodes /\ H # Lower /\ Peer(H) = Lower
        /\ \A k \in Nodes : k = Lower \/ k = H
    BY Pair, Zenon
  <2>2. Local(Lower, x) /\ Local(H, y)  BY <1>1, <2>1, Zenon DEF IInv
  <2>3. \A t \in y.firsts : <<H, t[2]>> \notin x.firsts
    BY <1>1, Zenon DEF IInv, OneWinner, States2
  <2>4. y.session.gen > 0 /\ y.session.tag[1] = H => y.session.tag \in x.firsts
    BY <1>1, <2>1, Zenon DEF IInv, Origin, States2
  <2> HIDE DEF x, y
  <2> DEFINE g == x.session.gen
             a == x.session.tag
             b == y.session.tag
  <2>5. SessionOf(Lower, x) /\ SessionOf(H, y) /\ g \in Nat
    BY <2>2, Zenon DEF Local, States, Sessions
  <2>6. g > 0  BY <1>1, <2>5 DEF SessionOf, NoSession
  <2>7. /\ a \in Tags /\ a[2] = g /\ b \in Tags /\ b[2] = g
        /\ a[1] # Lower => a \in x.firsts
        /\ a[1] = Lower => <<Peer(Lower), g>> \notin x.firsts
        /\ b[1] # H => b \in y.firsts
    BY <1>1, <2>5, <2>6, Zenon DEF SessionOf
  <2> HIDE DEF a, b, g
  <2>8. /\ a = <<a[1], g>> /\ a[1] \in {Lower, H}
        /\ b = <<b[1], g>> /\ b[1] \in {Lower, H}
    BY <2>1, <2>7, TagIsPair, Zenon DEF Tags
  <2>9. CASE a[1] = b[1]  BY <2>8, <2>9, Zenon DEF a, b
  <2>10. CASE a[1] = Lower /\ b[1] = H
    <3>1. b \in x.firsts  BY <1>1, <2>4, <2>6, <2>10, Zenon DEF g, b
    <3> QED  BY <3>1, <2>7, <2>8, <2>10, Zenon
  <2>11. CASE a[1] = H /\ b[1] = Lower
    <3>1. a \in x.firsts /\ b \in y.firsts  BY <2>1, <2>7, <2>11, Zenon
    <3>2. <<H, b[2]>> \notin x.firsts  BY <2>3, <3>1, Zenon
    <3> QED  BY <3>1, <3>2, <2>7, <2>8, <2>11, Zenon
  <2> QED  BY <2>1, <2>8, <2>9, <2>10, <2>11, Zenon
<1>2. IInv => OneSessionPerGeneration
  BY <1>1, Pair DEF OneSessionPerGeneration
<1> QED  BY <1>2, Inductive, PTL

\* ReceiveAck tells a sender of the delivery of a durable record only when the
\* receiver's archive has it in the application inbox, or had it until the
\* application took it.
THEOREM DeliveryIsDurable == Spec => []ConfirmedIsHeld
<1>1. ASSUME IInv, NEW m \in confirmed, Kind[m] = "durable"
      PROVE  Has(disk[Peer(From[m])], m)
  <2>1. m \in Messages /\ From[m] \in Nodes /\ Has(mem[Peer(From[m])], m)
    BY <1>1, Zenon DEF IInv, Told
  <2>2. Peer(From[m]) \in Nodes  BY <2>1, Pair, Zenon
  <2> QED  BY <2>1, <2>2, <1>1, Zenon DEF IInv, Ahead
<1>2. IInv => ConfirmedIsHeld
  BY <1>1, Zenon DEF ConfirmedIsHeld, Has
<1> QED  BY <1>2, Inductive, PTL
=============================================================================
