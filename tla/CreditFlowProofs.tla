--------------------------- MODULE CreditFlowProofs ---------------------------
(***************************************************************************)
(* The safety of the credited window for every window size, every reserve    *)
(* and every number of frames and restarts.  The first part has facts about  *)
(* the coverage arithmetic of FlowWindow.                                    *)
(***************************************************************************)
EXTENDS CreditFlow, FiniteSetTheorems, WellFoundedInduction, TLAPS

-----------------------------------------------------------------------------
(* Coverage *)

\* A non-empty set of natural numbers has a least element.
LEMMA LeastNatural ==
  ASSUME NEW T, T \subseteq Nat, T # {}
  PROVE  \E x \in T : \A y \in T : x <= y
<1>1. PICK x \in T : \A y \in T : ~(<<y, x>> \in OpToRel(<, Nat))
  BY NatLessThanWellFounded, WFMin, Zenon
<1>2. \A y \in T : ~(y < x)
  BY <1>1, Zenon DEF OpToRel
<1> QED BY <1>2

\* The window holds at least one counter.
LEMMA WindowType == COUNTER_WINDOW \in Nat /\ COUNTER_WINDOW >= 1
  BY FlowAssumption DEF COUNTER_WINDOW

\* Top is the largest offset of a mask, and 0 for the empty one.
LEMMA TopProps ==
  ASSUME NEW mask \in SUBSET Offsets
  PROVE  /\ Top(mask) \in 0..COUNTER_WINDOW
         /\ Top(mask) \in {0} \cup mask
         /\ \A o \in mask : o <= Top(mask)
<1> DEFINE T == {COUNTER_WINDOW - o : o \in {0} \cup mask}
<1>1. T \subseteq Nat /\ T # {}
  BY WindowType DEF Offsets
<1>2. PICK x \in T : \A y \in T : x <= y
  BY <1>1, LeastNatural, ZenonT(30)
<1>3. PICK t \in {0} \cup mask : x = COUNTER_WINDOW - t
  BY <1>2, Zenon
<1>4. \A o \in mask : o <= t
  <2> TAKE o \in mask
  <2>1. x <= COUNTER_WINDOW - o
    BY <1>2, ZenonT(30)
  <2> QED BY <2>1, <1>3, WindowType DEF Offsets
<1>5. Top(mask) \in {0} \cup mask /\ \A o \in mask : o <= Top(mask)
  BY <1>4, Zenon DEF Top
<1>6. {0} \cup mask \subseteq 0..COUNTER_WINDOW
  BY WindowType DEF Offsets
<1> QED BY <1>5, <1>6, Zenon

\* LowOnes is the length of the run of ones at the low end of a mask.
LEMMA LowOnesProps ==
  ASSUME NEW mask \in SUBSET Offsets
  PROVE  /\ LowOnes(mask) \in 0..COUNTER_WINDOW
         /\ LowOnes(mask) + 1 \notin mask
         /\ 1..LowOnes(mask) \subseteq mask
<1> DEFINE T == {n \in Nat : n + 1 \notin mask}
<1>1. COUNTER_WINDOW \in T
  BY WindowType DEF Offsets
<1>2. PICK k \in T : \A y \in T : k <= y
  BY <1>1, LeastNatural, ZenonT(30)
<1>3. k \in 0..COUNTER_WINDOW
  BY <1>1, <1>2, WindowType
<1>4. 1..k \subseteq mask
  <2> SUFFICES ASSUME NEW o \in 1..k, o \notin mask PROVE FALSE
    BY Zenon
  <2>1. o - 1 \in T
    OBVIOUS
  <2> QED BY <2>1, <1>2
<1> QED BY <1>2, <1>3, <1>4, Zenon DEF LowOnes

\* Absorbing the low ones keeps the set of covered counters and makes the
\* coverage canonical.
LEMMA AbsorbProps ==
  ASSUME NEW floor \in Nat, NEW mask \in SUBSET Offsets
  PROVE  /\ Absorb(floor, mask) \in Coverage
         /\ Valid(Absorb(floor, mask))
         /\ Absorb(floor, mask).floor >= floor
         /\ \A c \in Nat : Contains(Absorb(floor, mask), c)
                             <=> c <= floor \/ c - floor \in mask
<1> DEFINE k == LowOnes(mask)
           a == Absorb(floor, mask)
<1>1. k \in 0..COUNTER_WINDOW /\ k + 1 \notin mask /\ 1..k \subseteq mask
  BY LowOnesProps, Zenon
<1>2. a = [floor |-> floor + k, mask |-> {o \in Offsets : o + k \in mask}]
  BY Zenon DEF Absorb
<1> HIDE DEF k, a
<1>3. a \in Coverage /\ a.floor >= floor
  BY <1>1, <1>2, WindowType DEF Coverage
<1>4. Valid(a)
  BY <1>1, <1>2, WindowType DEF Valid, Offsets
<1>5. ASSUME NEW c \in Nat
      PROVE  Contains(a, c) <=> c <= floor \/ c - floor \in mask
  <2>1. CASE c <= floor + k
    <3>1. c <= floor \/ c - floor \in 1..k
      BY <2>1, <1>1
    <3> QED BY <3>1, <2>1, <1>1, <1>2, Zenon DEF Contains
  <2>2. CASE c > floor + k
    <3>1. c - (floor + k) \in Offsets \/ c - floor \notin mask
      BY <2>2, <1>1, WindowType DEF Offsets
    <3>2. (c - (floor + k)) + k = c - floor
      BY <1>1
    <3> QED BY <3>1, <3>2, <2>2, <1>1, <1>2 DEF Contains
  <2> QED BY <2>1, <2>2, <1>1
<1> QED BY <1>3, <1>4, <1>5, Zenon DEF a

\* Highest is the greatest covered counter.
LEMMA HighestProps ==
  ASSUME NEW cov \in Coverage
  PROVE  /\ Highest(cov) \in Nat
         /\ Highest(cov) >= cov.floor
         /\ Highest(cov) <= cov.floor + COUNTER_WINDOW
         /\ Contains(cov, Highest(cov))
         /\ \A c \in Nat : Contains(cov, c) => c <= Highest(cov)
<1>1. cov.floor \in Nat /\ cov.mask \in SUBSET Offsets
  BY Zenon DEF Coverage
<1>2. /\ Top(cov.mask) \in 0..COUNTER_WINDOW
      /\ Top(cov.mask) \in {0} \cup cov.mask
      /\ \A o \in cov.mask : o <= Top(cov.mask)
  BY <1>1, TopProps, Zenon
<1> QED BY <1>1, <1>2, WindowType DEF Highest, Contains

\* Accepting a counter adds that counter and nothing else.
LEMMA AcceptProps ==
  ASSUME NEW cov \in Coverage, NEW counter \in Nat, Acceptable(cov, counter)
  PROVE  /\ Accept(cov, counter) \in Coverage
         /\ Valid(Accept(cov, counter))
         /\ Accept(cov, counter).floor >= cov.floor
         /\ \A c \in Nat : Contains(Accept(cov, counter), c)
                             <=> Contains(cov, c) \/ c = counter
<1>1. cov.floor \in Nat /\ cov.mask \cup {counter - cov.floor} \in SUBSET Offsets
  BY Zenon DEF Coverage, Acceptable
<1>2. \A c \in Nat : c <= cov.floor \/ c - cov.floor \in cov.mask \cup {counter - cov.floor}
                       <=> Contains(cov, c) \/ c = counter
  BY <1>1 DEF Contains
<1> QED BY <1>1, <1>2, AbsorbProps, Zenon DEF Accept

\* Two canonical coverages: if one covers no more than the other, its floor is
\* no higher.
LEMMA FloorMonotone ==
  ASSUME NEW a \in Coverage, NEW b \in Coverage, Valid(b),
         \A c \in Nat : Contains(a, c) => Contains(b, c)
  PROVE  a.floor <= b.floor
<1>1. a.floor \in Nat /\ b.floor \in Nat
  BY Zenon DEF Coverage
<1>2. ~Contains(b, b.floor + 1)
  BY <1>1 DEF Contains, Valid
<1>3. ~Contains(a, b.floor + 1)
  BY <1>1, <1>2
<1> QED BY <1>1, <1>3 DEF Contains

\* Merging a usable credit gives the union of the two coverages.
LEMMA MergedProps ==
  ASSUME NEW w, IsWindow(w), NEW cov \in Coverage, cov.floor >= w.credited.floor
  PROVE  /\ MergedCredit(w, cov) \in Coverage
         /\ Valid(MergedCredit(w, cov))
         /\ MergedCredit(w, cov).floor >= cov.floor
         /\ \A c \in Nat : Contains(MergedCredit(w, cov), c)
                             <=> Contains(cov, c) \/ Contains(w.credited, c)
<1> DEFINE advance == cov.floor - w.credited.floor
           previous == {o \in Offsets : o + advance \in w.credited.mask}
<1>1. /\ cov.floor \in Nat /\ cov.mask \in SUBSET Offsets
      /\ w.credited.floor \in Nat /\ w.credited.mask \in SUBSET Offsets
  BY Zenon DEF Coverage, IsWindow
<1>2. advance \in Nat
  BY <1>1
<1>3. cov.mask \cup previous \in SUBSET Offsets
  BY <1>1, Zenon
<1>4. ASSUME NEW c \in Nat
      PROVE  c <= cov.floor \/ c - cov.floor \in cov.mask \cup previous
               <=> Contains(cov, c) \/ Contains(w.credited, c)
  <2>1. CASE c <= cov.floor
    BY <2>1, Zenon DEF Contains
  <2>2. CASE c > cov.floor
    <3>1. (c - cov.floor) + advance = c - w.credited.floor
      BY <1>1
    <3>2. ~(c <= w.credited.floor)
      BY <2>2, <1>1
    <3>3. c - w.credited.floor \in w.credited.mask => c - cov.floor \in Offsets
      BY <2>2, <1>1, WindowType DEF Offsets
    <3> QED BY <3>1, <3>2, <3>3, <2>2, <1>1, Zenon DEF Contains
  <2> QED BY <2>1, <2>2, <1>1
<1> QED BY <1>1, <1>3, <1>4, AbsorbProps, Zenon DEF MergedCredit

-----------------------------------------------------------------------------
(* The two halves of a window, and what each operation does to them. *)

\* Sending half: an entry for each counter above the credited floor, at most a
\* window of them, and nothing credited that was not sent.
EntryOK(entry) ==
  /\ entry.sent_unix > 0
  /\ entry.volatile => entry.purpose # "Control"
  /\ ~entry.packet => entry.volatile

SendHalf(w) ==
  /\ Valid(w.credited)
  /\ Covered(w.credited) \subseteq 1..w.sent
  /\ DOMAIN w.tx = (w.credited.floor + 1)..w.sent
  /\ w.sent - w.credited.floor <= COUNTER_WINDOW
  /\ \A c \in DOMAIN w.tx : EntryOK(w.tx[c])

\* Receiving half: an authority for each covered counter within the last
\* window, and every cached snapshot is part of what has been received.
RecvHalf(w) ==
  /\ Valid(w.received)
  /\ DOMAIN w.rx = {c \in Covered(w.received) : c >= ReceiptFloor(w.received)}
  /\ \A c \in DOMAIN w.rx :
        \/ w.rx[c] = NoCredit
        \/ /\ Valid(w.rx[c])
           /\ c \in Covered(w.rx[c])
           /\ Covered(w.rx[c]) \subseteq Covered(w.received)

\* Covered is the set form of Contains.
LEMMA CoveredProps ==
  ASSUME NEW cov \in Coverage
  PROVE  \A c : c \in Covered(cov) <=> c \in Nat \ {0} /\ Contains(cov, c)
<1>1. cov.floor \in Nat /\ cov.mask \in SUBSET Offsets
  BY Zenon DEF Coverage
<1>2. ASSUME NEW c, c \in Covered(cov)
      PROVE  c \in Nat \ {0} /\ Contains(cov, c)
  BY <1>1, <1>2, WindowType DEF Covered, Contains, Offsets
<1>3. ASSUME NEW c \in Nat \ {0}, Contains(cov, c)
      PROVE  c \in Covered(cov)
  <2>1. CASE c <= cov.floor
    BY <2>1, <1>1 DEF Covered
  <2>2. CASE c - cov.floor \in cov.mask
    <3>1. c = cov.floor + (c - cov.floor)
      BY <1>1
    <3> QED BY <3>1, <2>2, Zenon DEF Covered
  <2> QED BY <2>1, <2>2, <1>3, Zenon DEF Contains
<1> QED BY <1>2, <1>3, Zenon

\* A new window satisfies both halves.
LEMMA NewWindowProps ==
  /\ IsWindow(NewWindow) /\ SendHalf(NewWindow) /\ RecvHalf(NewWindow)
  /\ Covered(NewWindow.received) = {} /\ Covered(NewWindow.credited) = {}
<1>1. NoCoverage \in Coverage /\ Valid(NoCoverage) /\ Covered(NoCoverage) = {}
  BY DEF NoCoverage, Coverage, Valid, Covered
<1>2. /\ NewWindow.sent = 0 /\ NewWindow.credited = NoCoverage
      /\ NewWindow.received = NoCoverage
      /\ DOMAIN NewWindow.tx = {} /\ DOMAIN NewWindow.rx = {}
  BY Zenon DEF NewWindow, Window
<1>3. IsWindow(NewWindow)
  BY <1>1, Zenon DEF NewWindow, Window, IsWindow
<1>4. SendHalf(NewWindow)
  BY <1>1, <1>2, WindowType DEF SendHalf, NoCoverage
<1>5. RecvHalf(NewWindow)
  BY <1>1, <1>2, Zenon DEF RecvHalf
<1> QED BY <1>1, <1>2, <1>3, <1>4, <1>5, Zenon

\* Sending uses the next counter and keeps the sending half.
LEMMA RecordSentProps ==
  ASSUME NEW w, IsWindow(w), SendHalf(w), NEW purpose \in Purpose,
         NEW volatile \in BOOLEAN, NEW t \in Nat, t > 0, HasRoom(w, purpose),
         volatile => purpose # "Control"
  PROVE  LET v == RecordSent(w, purpose, volatile, t)
         IN  /\ IsWindow(v) /\ SendHalf(v)
             /\ v.sent = w.sent + 1 /\ v.credited = w.credited
             /\ v.received = w.received /\ v.rx = w.rx
<1> DEFINE v == RecordSent(w, purpose, volatile, t)
           entry == [purpose |-> purpose, sent_unix |-> t,
                     volatile |-> volatile, packet |-> TRUE]
           tx == [k \in DOMAIN w.tx \cup {w.sent + 1} |->
                    IF k = w.sent + 1 THEN entry ELSE w.tx[k]]
<1>1. v = Window(w.sent + 1, w.credited, w.received, tx, w.rx)
  BY Zenon DEF RecordSent
<1>2. entry \in Sent
  BY Zenon DEF Sent
<1>3. w.sent \in Nat /\ w.credited.floor \in Nat /\ w.tx \in [DOMAIN w.tx -> Sent]
  BY Zenon DEF IsWindow, Coverage
<1>4. w.sent + 1 - w.credited.floor <= COUNTER_WINDOW
  BY <1>3, FlowAssumption, WindowType DEF HasRoom, Limit, Purpose
<1>5. w.credited.floor <= w.sent
  <2>1. w.credited.floor \in Covered(w.credited) \/ w.credited.floor = 0
    BY <1>3 DEF Covered
  <2> QED BY <2>1, <1>3 DEF SendHalf
<1>6. DOMAIN tx = (w.credited.floor + 1)..(w.sent + 1)
  BY <1>3, <1>5 DEF SendHalf
<1>7. tx \in [DOMAIN tx -> Sent] /\ DOMAIN tx \subseteq Nat
  BY <1>2, <1>3, <1>6
<1>8. \A c \in DOMAIN tx : EntryOK(tx[c])
  <2>1. EntryOK(entry)
    BY Zenon DEF EntryOK
  <2> QED BY <2>1, Zenon DEF SendHalf
<1>9. Covered(w.credited) \subseteq 1..(w.sent + 1)
  BY <1>3 DEF SendHalf
<1> HIDE DEF tx, entry, v
<1>10. /\ v.sent = w.sent + 1 /\ v.credited = w.credited
       /\ v.received = w.received /\ v.tx = tx /\ v.rx = w.rx
  BY <1>1, Zenon DEF Window
<1>11. IsWindow(v)
  BY <1>1, <1>3, <1>7 DEF IsWindow, Window
<1>12. SendHalf(v)
  <2>1. Valid(v.credited)
    BY <1>10, Zenon DEF SendHalf
  <2>2. Covered(v.credited) \subseteq 1..v.sent
    BY <1>9, <1>10, Zenon
  <2>3. DOMAIN v.tx = (v.credited.floor + 1)..v.sent
    BY <1>6, <1>10, Zenon
  <2>4. v.sent - v.credited.floor <= COUNTER_WINDOW
    <3>1. v.sent = w.sent + 1 /\ v.credited.floor = w.credited.floor
      BY <1>10, Zenon
    <3> QED BY <1>3, <1>4, <3>1, WindowType
  <2>5. \A c \in DOMAIN v.tx : EntryOK(v.tx[c])
    BY <1>8, <1>10, Zenon
  <2> QED BY <2>1, <2>2, <2>3, <2>4, <2>5, Zenon DEF SendHalf
<1> QED BY <1>10, <1>11, <1>12, Zenon DEF v

\* The receipt horizon of a coverage: at most a window below its highest
\* counter, and never beyond it.
LEMMA ReceiptFloorProps ==
  ASSUME NEW cov \in Coverage
  PROVE  /\ ReceiptFloor(cov) \in Nat
         /\ ReceiptFloor(cov) <= Highest(cov)
         /\ ReceiptFloor(cov) <= cov.floor + 1
         /\ \A n \in Nat : n + COUNTER_WINDOW > Highest(cov) => ReceiptFloor(cov) <= n
<1>1. /\ Highest(cov) \in Nat /\ cov.floor \in Nat
      /\ Highest(cov) <= cov.floor + COUNTER_WINDOW
  BY HighestProps, Zenon DEF Coverage
<1> QED BY <1>1, WindowType DEF ReceiptFloor

\* A coverage that covers more has a horizon at least as high.
LEMMA ReceiptFloorMonotone ==
  ASSUME NEW a \in Coverage, NEW b \in Coverage,
         \A c \in Nat : Contains(a, c) => Contains(b, c)
  PROVE  /\ Highest(a) <= Highest(b)
         /\ ReceiptFloor(a) <= ReceiptFloor(b)
<1>1. Highest(a) \in Nat /\ Highest(b) \in Nat /\ Highest(a) <= Highest(b)
  BY HighestProps, Zenon
<1> QED BY <1>1, WindowType DEF ReceiptFloor

\* The last retained authority is that of the highest received counter.
LEMMA LastAuthorityProps ==
  ASSUME NEW w, IsWindow(w), RecvHalf(w), Covered(w.received) # {}
  PROVE  /\ LastAuthority(w) = Highest(w.received)
         /\ LastAuthority(w) \in DOMAIN w.rx
         /\ LastAuthority(w) \in Covered(w.received)
<1> DEFINE h == Highest(w.received)
<1>1. w.received \in Coverage
  BY Zenon DEF IsWindow
<1>2. h \in Nat /\ \A c \in Covered(w.received) : c \in Nat \ {0} /\ c <= h
  BY <1>1, HighestProps, CoveredProps, Zenon
<1>3. h \in Covered(w.received)
  BY <1>1, <1>2, HighestProps, CoveredProps
<1>4. h \in DOMAIN w.rx
  BY <1>1, <1>3, ReceiptFloorProps, Zenon DEF RecvHalf
<1>5. \A c \in DOMAIN w.rx : c \in Nat /\ c <= h
  BY <1>2, Zenon DEF RecvHalf
<1> HIDE DEF h
<1>6. /\ LastAuthority(w) \in {0} \cup DOMAIN w.rx
      /\ \A o \in DOMAIN w.rx : o <= LastAuthority(w)
  <2>1. h \in {0} \cup DOMAIN w.rx /\ \A o \in DOMAIN w.rx : o <= h
    BY <1>4, <1>5, Zenon
  <2> QED BY <2>1, Zenon DEF LastAuthority, Top
<1>7. LastAuthority(w) = h
  <2>1. h >= 1 /\ h <= LastAuthority(w)
    BY <1>2, <1>3, <1>4, <1>6
  <2> QED BY <2>1, <1>2, <1>5, <1>6
<1> QED BY <1>3, <1>4, <1>7, Zenon DEF h

\* Recording a new frame adds its counter, keeps the receiving half, and
\* leaves an authority for that counter.
LEMMA RecordAuthenticatedProps ==
  ASSUME NEW w, IsWindow(w), RecvHalf(w), NEW counter \in Nat,
         Acceptable(w.received, counter)
  PROVE  LET v == RecordAuthenticated(w, counter)
         IN  /\ IsWindow(v) /\ RecvHalf(v)
             /\ Covered(v.received) = Covered(w.received) \cup {counter}
             /\ counter \in DOMAIN v.rx
             /\ v.sent = w.sent /\ v.credited = w.credited /\ v.tx = w.tx
<1> DEFINE v == RecordAuthenticated(w, counter)
           received == Accept(w.received, counter)
           kept == {k \in DOMAIN w.rx \cup {counter} : k >= ReceiptFloor(received)}
           rx == [k \in kept |-> IF k = counter THEN NoCredit ELSE w.rx[k]]
<1>1. v = Window(w.sent, w.credited, received, w.tx, rx)
  BY Zenon DEF RecordAuthenticated
<1>2. w.received \in Coverage /\ w.received.floor \in Nat
  BY Zenon DEF IsWindow, Coverage
<1>3. /\ received \in Coverage /\ Valid(received)
      /\ \A c \in Nat : Contains(received, c) <=> Contains(w.received, c) \/ c = counter
  BY <1>2, AcceptProps, Zenon
<1>4. counter >= 1 /\ counter > w.received.floor /\ ~Contains(w.received, counter)
  BY <1>2, WindowType DEF Acceptable, Offsets
<1> HIDE DEF received
<1>5. Covered(received) = Covered(w.received) \cup {counter}
  BY <1>2, <1>3, <1>4, CoveredProps
<1>6. /\ ReceiptFloor(received) \in Nat /\ ReceiptFloor(w.received) \in Nat
      /\ ReceiptFloor(w.received) <= ReceiptFloor(received)
  BY <1>2, <1>3, ReceiptFloorProps, ReceiptFloorMonotone, Zenon
<1>7. kept = {c \in Covered(received) : c >= ReceiptFloor(received)}
  <2>1. DOMAIN w.rx = {c \in Covered(w.received) : c >= ReceiptFloor(w.received)}
    BY Zenon DEF RecvHalf
  <2>2. \A c \in Covered(w.received) : c \in Nat
    BY <1>2, CoveredProps, Zenon
  <2> QED BY <1>5, <1>6, <2>1, <2>2
<1>8. counter \in kept
  <2>1. Highest(received) <= w.received.floor + COUNTER_WINDOW
    <3>1. /\ Highest(received) \in Nat /\ Contains(received, Highest(received))
          /\ Highest(w.received) <= w.received.floor + COUNTER_WINDOW
          /\ Highest(w.received) \in Nat
          /\ \A c \in Nat : Contains(w.received, c) => c <= Highest(w.received)
      BY <1>2, <1>3, HighestProps, Zenon
    <3>2. Contains(w.received, Highest(received)) \/ Highest(received) = counter
      BY <1>3, <3>1, Zenon
    <3>3. counter <= w.received.floor + COUNTER_WINDOW
      BY <1>2, WindowType DEF Acceptable, Offsets
    <3> QED BY <1>2, <3>1, <3>2, <3>3, WindowType
  <2>2. ReceiptFloor(received) <= counter
    BY <1>2, <1>3, <1>4, <2>1, ReceiptFloorProps, HighestProps, WindowType
  <2> QED BY <2>2, Zenon
<1>9. kept \subseteq Nat /\ rx \in [kept -> Coverage]
  <2>1. NoCredit \in Coverage
    BY WindowType DEF NoCredit, Coverage, Offsets
  <2>2. w.rx \in [DOMAIN w.rx -> Coverage] /\ DOMAIN w.rx \subseteq Nat
    BY Zenon DEF IsWindow
  <2> QED BY <2>1, <2>2, Zenon
<1>10. \A c \in kept : \/ rx[c] = NoCredit
                       \/ /\ Valid(rx[c])
                          /\ c \in Covered(rx[c])
                          /\ Covered(rx[c]) \subseteq Covered(received)
  BY <1>5, Zenon DEF RecvHalf
<1> HIDE DEF kept, rx, v
<1>11. /\ v.sent = w.sent /\ v.credited = w.credited /\ v.tx = w.tx
       /\ v.received = received /\ v.rx = rx
  BY <1>1, Zenon DEF Window
<1>12. DOMAIN rx = kept
  BY Zenon DEF rx
<1>13. IsWindow(v)
  BY <1>1, <1>3, <1>9, <1>12, Zenon DEF IsWindow, Window
<1>14. RecvHalf(v)
  BY <1>3, <1>7, <1>10, <1>11, <1>12, Zenon DEF RecvHalf
<1> QED BY <1>5, <1>8, <1>11, <1>12, <1>13, <1>14, Zenon DEF v

-----------------------------------------------------------------------------
(* The nonce of a credit determines its snapshot. *)

\* Count is the number of covered counters.
LEMMA CountProps ==
  ASSUME NEW cov \in Coverage
  PROVE  IsFiniteSet(Covered(cov)) /\ Cardinality(Covered(cov)) = Count(cov)
<1> DEFINE low == 1..cov.floor
           high == {cov.floor + o : o \in cov.mask}
           shift == [o \in cov.mask |-> cov.floor + o]
<1>1. cov.floor \in Nat /\ cov.mask \in SUBSET Offsets
  BY Zenon DEF Coverage
<1>2. IsFiniteSet(cov.mask)
  <2>1. IsFiniteSet(Offsets)
    BY FS_Interval, WindowType DEF Offsets
  <2> QED BY <1>1, <2>1, FS_Subset, Zenon
<1>3. ExistsBijection(cov.mask, high)
  <2>1. shift \in [cov.mask -> high]
    BY Zenon
  <2>2. \A a, b \in cov.mask : shift[a] = shift[b] => a = b
    BY <1>1, WindowType DEF Offsets
  <2>3. \A t \in high : \E o \in cov.mask : shift[o] = t
    BY Zenon
  <2>4. shift \in Bijection(cov.mask, high)
    BY <2>1, <2>2, <2>3, ZenonT(30) DEF Bijection, Injection, Surjection, IsInjective
  <2> QED BY <2>4, Zenon DEF ExistsBijection
<1>4. IsFiniteSet(high) /\ Cardinality(high) = Cardinality(cov.mask)
  BY <1>2, <1>3, FS_Bijection, Zenon
<1>5. IsFiniteSet(low) /\ Cardinality(low) = cov.floor
  BY <1>1, FS_Interval, SMTT(30)
<1>6. low \cap high = {}
  BY <1>1, WindowType DEF Offsets
<1>7. Cardinality(cov.mask) \in Nat
  BY <1>2, FS_CardinalityType, Zenon
<1> HIDE DEF low, high
<1>8. /\ IsFiniteSet(low \cup high)
      /\ Cardinality(low \cup high) = cov.floor + Cardinality(cov.mask) - Cardinality({})
  BY <1>4, <1>5, <1>6, FS_Union
<1>9. Cardinality(low \cup high) = cov.floor + Cardinality(cov.mask)
  BY <1>1, <1>7, <1>8, FS_EmptySet
<1> QED BY <1>8, <1>9, Zenon DEF Covered, Count, low, high

\* Canonical coverages of the same counters are the same pair.
LEMMA CoverageUnique ==
  ASSUME NEW a \in Coverage, NEW b \in Coverage, Valid(a), Valid(b),
         Covered(a) = Covered(b)
  PROVE  a = b
<1>1. /\ a.floor \in Nat /\ a.mask \in SUBSET Offsets
      /\ b.floor \in Nat /\ b.mask \in SUBSET Offsets
      /\ a = [floor |-> a.floor, mask |-> a.mask]
      /\ b = [floor |-> b.floor, mask |-> b.mask]
  BY Zenon DEF Coverage
<1>2. \A c \in Nat : Contains(a, c) <=> Contains(b, c)
  <2> TAKE c \in Nat
  <2>1. CASE c = 0
    BY <1>1, <2>1 DEF Contains
  <2>2. CASE c # 0
    BY <2>2, CoveredProps, Zenon
  <2> QED BY <2>1, <2>2, Zenon
<1>3. a.floor = b.floor
  BY <1>1, <1>2, FloorMonotone
<1>4. ASSUME NEW o \in Offsets
      PROVE  o \in a.mask <=> o \in b.mask
  <2>1. a.floor + o \in Nat /\ ~(a.floor + o <= a.floor) /\ (a.floor + o) - a.floor = o
    BY <1>1, WindowType DEF Offsets
  <2> QED BY <1>2, <1>3, <2>1, Zenon DEF Contains
<1> QED BY <1>1, <1>3, <1>4

\* Of two nested coverages with the same count there is only one.
LEMMA NestedSameCount ==
  ASSUME NEW a \in Coverage, NEW b \in Coverage, Valid(a), Valid(b),
         Covered(a) \subseteq Covered(b), Count(a) = Count(b)
  PROVE  a = b
<1>1. Covered(a) = Covered(b)
  BY CountProps, FS_Subset, Zenon
<1> QED BY <1>1, CoverageUnique, Zenon

\* The snapshot a credit carries is the current coverage, cached or not.
LEMMA SnapshotCurrent ==
  ASSUME NEW w, IsWindow(w), RecvHalf(w), Covered(w.received) # {}
  PROVE  CreditSnapshot(w) = w.received
<1> DEFINE cached == w.rx[LastAuthority(w)]
<1>1. LastAuthority(w) \in DOMAIN w.rx
  BY LastAuthorityProps, Zenon
<1>2. cached \in Coverage /\ w.received \in Coverage /\ Valid(w.received)
  BY <1>1, Zenon DEF IsWindow, RecvHalf
<1>3. CASE cached # NoCredit /\ Count(cached) = Count(w.received)
  <2>1. Valid(cached) /\ Covered(cached) \subseteq Covered(w.received)
    BY <1>1, <1>3, Zenon DEF RecvHalf
  <2>2. cached = w.received
    BY <1>2, <1>3, <2>1, NestedSameCount, Zenon
  <2> QED BY <1>3, <2>2, Zenon DEF CreditSnapshot
<1>4. CASE ~(cached # NoCredit /\ Count(cached) = Count(w.received))
  BY <1>4, Zenon DEF CreditSnapshot
<1> QED BY <1>3, <1>4, Zenon

\* Caching a credit changes the last authority's snapshot and nothing else.
LEMMA CacheCreditProps ==
  ASSUME NEW w, IsWindow(w), RecvHalf(w), Covered(w.received) # {}
  PROVE  LET v == CacheCredit(w)
         IN  /\ IsWindow(v) /\ RecvHalf(v)
             /\ v.sent = w.sent /\ v.credited = w.credited
             /\ v.received = w.received /\ v.tx = w.tx
             /\ DOMAIN v.rx = DOMAIN w.rx
<1> DEFINE v == CacheCredit(w)
           rx == [w.rx EXCEPT ![LastAuthority(w)] = w.received]
<1>1. v = Window(w.sent, w.credited, w.received, w.tx, rx)
  BY SnapshotCurrent, Zenon DEF CacheCredit
<1>2. LastAuthority(w) \in DOMAIN w.rx /\ LastAuthority(w) \in Covered(w.received)
  BY LastAuthorityProps, Zenon
<1>3. /\ w.received \in Coverage /\ w.rx \in [DOMAIN w.rx -> Coverage]
      /\ DOMAIN w.rx \subseteq Nat
  BY Zenon DEF IsWindow
<1>4. rx \in [DOMAIN w.rx -> Coverage] /\ DOMAIN rx = DOMAIN w.rx
  BY <1>3, ZenonT(30)
<1>5. \A c \in DOMAIN w.rx : \/ rx[c] = NoCredit
                            \/ /\ Valid(rx[c])
                               /\ c \in Covered(rx[c])
                               /\ Covered(rx[c]) \subseteq Covered(w.received)
  BY <1>2, <1>3, Zenon DEF RecvHalf
<1> HIDE DEF rx, v
<1>6. /\ v.sent = w.sent /\ v.credited = w.credited /\ v.tx = w.tx
      /\ v.received = w.received /\ v.rx = rx
  BY <1>1, Zenon DEF Window
<1>7. IsWindow(v)
  BY <1>1, <1>3, <1>4, Zenon DEF IsWindow, Window
<1>8. RecvHalf(v)
  BY <1>4, <1>5, <1>6, Zenon DEF RecvHalf
<1> QED BY <1>4, <1>6, <1>7, <1>8, Zenon DEF v

\* Taking a usable credit adds what it covers and keeps the sending half.
LEMMA AcceptCreditProps ==
  ASSUME NEW w, IsWindow(w), SendHalf(w), NEW cov \in Coverage, NEW ref,
         CreditUsable(w, ref, cov)
  PROVE  LET v == AcceptCredit(w, cov)
         IN  /\ IsWindow(v) /\ SendHalf(v)
             /\ Covered(v.credited) = Covered(w.credited) \cup Covered(cov)
             /\ v.sent = w.sent /\ v.received = w.received /\ v.rx = w.rx
<1> DEFINE v == AcceptCredit(w, cov)
           credited == MergedCredit(w, cov)
           tx == [c \in {k \in DOMAIN w.tx : k > credited.floor} |-> w.tx[c]]
<1>1. v = Window(w.sent, credited, w.received, tx, w.rx)
  BY Zenon DEF AcceptCredit
<1>2. /\ w.sent \in Nat /\ w.credited \in Coverage /\ w.credited.floor \in Nat
      /\ w.tx \in [DOMAIN w.tx -> Sent] /\ DOMAIN w.tx \subseteq Nat
  BY Zenon DEF IsWindow, Coverage
<1>3. cov.floor >= w.credited.floor /\ Highest(cov) <= w.sent
  BY Zenon DEF CreditUsable
<1>4. /\ credited \in Coverage /\ Valid(credited) /\ credited.floor >= cov.floor
      /\ \A c \in Nat : Contains(credited, c) <=> Contains(cov, c) \/ Contains(w.credited, c)
  BY <1>3, MergedProps, Zenon
<1>5. credited.floor \in Nat /\ cov.floor \in Nat
  BY <1>4, Zenon DEF Coverage
<1> HIDE DEF credited
<1>6. Covered(credited) = Covered(w.credited) \cup Covered(cov)
  BY <1>2, <1>4, CoveredProps, Zenon
<1>7. Covered(credited) \subseteq 1..w.sent
  <2>1. Covered(cov) \subseteq 1..w.sent
    BY <1>2, <1>3, HighestProps, CoveredProps
  <2> QED BY <1>6, <2>1, Zenon DEF SendHalf
<1>8. DOMAIN tx = (credited.floor + 1)..w.sent
  BY <1>2, <1>3, <1>4, <1>5 DEF SendHalf
<1>9. tx \in [DOMAIN tx -> Sent] /\ DOMAIN tx \subseteq Nat
  BY <1>2, Zenon
<1>10. \A c \in DOMAIN tx : EntryOK(tx[c])
  BY Zenon DEF SendHalf
<1>11. w.sent - credited.floor <= COUNTER_WINDOW
  BY <1>2, <1>3, <1>4, <1>5, WindowType DEF SendHalf
<1> HIDE DEF tx, v
<1>12. /\ v.sent = w.sent /\ v.credited = credited /\ v.tx = tx
       /\ v.received = w.received /\ v.rx = w.rx
  BY <1>1, Zenon DEF Window
<1>13. IsWindow(v)
  BY <1>1, <1>4, <1>9, Zenon DEF IsWindow, Window
<1>14. SendHalf(v)
  BY <1>4, <1>7, <1>8, <1>10, <1>11, <1>12, Zenon DEF SendHalf
<1> QED BY <1>6, <1>12, <1>13, <1>14, Zenon DEF v

\* The archive form keeps both halves; only packets of volatile entries go.
LEMMA EncodePrivateProps ==
  ASSUME NEW w, IsWindow(w), SendHalf(w), RecvHalf(w)
  PROVE  LET v == EncodePrivate(w)
         IN  /\ IsWindow(v) /\ SendHalf(v) /\ RecvHalf(v)
             /\ v.sent = w.sent /\ v.credited = w.credited
             /\ v.received = w.received /\ v.rx = w.rx
             /\ DOMAIN v.tx = DOMAIN w.tx
<1> DEFINE v == EncodePrivate(w)
           tx == [c \in DOMAIN w.tx |-> [w.tx[c] EXCEPT !.packet = ~w.tx[c].volatile]]
<1>1. v = Window(w.sent, w.credited, w.received, tx, w.rx)
  BY Zenon DEF EncodePrivate
<1>2. w.tx \in [DOMAIN w.tx -> Sent]
  BY Zenon DEF IsWindow
<1>3. ASSUME NEW c \in DOMAIN w.tx
      PROVE  tx[c] \in Sent /\ EntryOK(tx[c])
  <2>1. w.tx[c] \in Sent /\ EntryOK(w.tx[c])
    BY <1>2, ZenonT(30) DEF SendHalf
  <2>2. tx[c] = [w.tx[c] EXCEPT !.packet = ~w.tx[c].volatile]
    BY Zenon
  <2> QED BY <2>1, <2>2, ZenonT(30) DEF Sent, EntryOK
<1>4. DOMAIN tx = DOMAIN w.tx /\ tx \in [DOMAIN w.tx -> Sent]
  BY <1>3, ZenonT(30)
<1>5. \A c \in DOMAIN tx : EntryOK(tx[c])
  BY <1>3, <1>4, Zenon
<1> HIDE DEF tx, v
<1>6. /\ v.sent = w.sent /\ v.credited = w.credited /\ v.tx = tx
      /\ v.received = w.received /\ v.rx = w.rx
  BY <1>1, Zenon DEF Window
<1>7. IsWindow(v)
  BY <1>1, <1>4, Zenon DEF IsWindow, Window
<1>8. SendHalf(v)
  BY <1>4, <1>5, <1>6, Zenon DEF SendHalf
<1>9. RecvHalf(v)
  BY <1>6, Zenon DEF RecvHalf
<1> QED BY <1>4, <1>6, <1>7, <1>8, <1>9, Zenon DEF v

-----------------------------------------------------------------------------
(* The window *)

\* The inductive invariant.  CreditSound alone is not inductive: a credit in
\* flight must itself be sound, its snapshot comes from the receiver's window
\* or its cache, and it may only be merged into a well-formed sending half.
Inductive ==
  /\ TypeOK
  /\ now > 0
  /\ \A p \in Peers : SendHalf(win[p]) /\ RecvHalf(win[p])
  /\ \A p \in Peers :
        /\ Covered(win[p].credited) \subseteq Covered(win[Other(p)].received)
        /\ Covered(win[Other(p)].received) \subseteq 1..win[p].sent
  /\ \A f \in frames : f.ctr \in 1..win[f.from].sent
  /\ \A k \in credits :
        Valid(k.cov) /\ Covered(k.cov) \subseteq Covered(win[Other(k.to)].received)
  /\ \A a, b \in credits :
        a.to = b.to => \/ Covered(a.cov) \subseteq Covered(b.cov)
                       \/ Covered(b.cov) \subseteq Covered(a.cov)

\* Each peer has exactly one other peer, and is its other peer.
LEMMA OtherProps ==
  ASSUME NEW p \in Peers
  PROVE  /\ Other(p) \in Peers /\ Other(p) # p
         /\ \A q \in Peers : q = p \/ q = Other(p)
         /\ Other(Other(p)) = p
<1>1. PICK a \in Peers, b \in Peers : a # b /\ Peers = {a, b}
  BY LinkAssumption, Zenon
<1>2. \A q \in Peers : Other(q) \in Peers /\ Other(q) # q
  <2> TAKE q \in Peers
  <2>1. \E r \in Peers : r # q
    BY <1>1, Zenon
  <2> QED BY <2>1, Zenon DEF Other
<1> QED BY <1>1, <1>2, Zenon

\* Two fresh windows satisfy the invariant.
LEMMA InitInductive == Init => Inductive
<1> SUFFICES ASSUME Init PROVE Inductive
  BY Zenon
<1>1. /\ IsWindow(NewWindow) /\ SendHalf(NewWindow) /\ RecvHalf(NewWindow)
      /\ Covered(NewWindow.received) = {} /\ Covered(NewWindow.credited) = {}
  BY NewWindowProps, Zenon
<1>2. \A p \in Peers : win[p] = NewWindow /\ Other(p) \in Peers
  BY OtherProps, Zenon DEF Init
<1>3. TypeOK
  BY <1>1, <1>2, Zenon DEF Init, TypeOK
<1> QED BY <1>1, <1>2, <1>3 DEF Init, Inductive

\* Replacing one peer's window by a well-formed one whose coverage stays sound,
\* and perhaps issuing a credit for what it has received, keeps the invariant.
LEMMA WindowStep ==
  ASSUME Inductive, NEW p \in Peers, NEW w, win' = [win EXCEPT ![p] = w],
         IsWindow(w), SendHalf(w), RecvHalf(w), w.sent >= win[p].sent,
         Covered(w.credited) \subseteq Covered(win[Other(p)].received),
         Covered(win[p].received) \subseteq Covered(w.received),
         Covered(w.received) \subseteq 1..win[Other(p)].sent,
         skipped' = [r \in Peers |-> skipped'[r]],
         \A r \in Peers : /\ DOMAIN skipped'[r] \subseteq Nat
                          /\ skipped'[r] \in [DOMAIN skipped'[r] -> Nat],
         NEW ref \in Nat,
         credits' \subseteq
           credits \cup {[to |-> Other(p), ref |-> ref, cov |-> w.received]},
         UNCHANGED <<frames, now>>
  PROVE  Inductive'
<1> DEFINE q == Other(p)
           fresh == [to |-> q, ref |-> ref, cov |-> w.received]
<1>1. q \in Peers /\ q # p /\ Other(q) = p /\ \A r \in Peers : r = p \/ r = q
  BY OtherProps, Zenon
<1>2. win = [r \in Peers |-> win[r]] /\ \A r \in Peers : IsWindow(win[r])
  BY Zenon DEF Inductive, TypeOK
<1>3. win'[p] = w /\ win'[q] = win[q]
  BY <1>1, <1>2, Zenon
<1>4. w.sent \in Nat /\ \A r \in Peers : win[r].sent \in Nat
  BY <1>2, Zenon DEF IsWindow
<1>5. /\ SendHalf(win[q]) /\ RecvHalf(win[q])
      /\ Covered(win[q].credited) \subseteq Covered(win[p].received)
      /\ Covered(win[q].received) \subseteq 1..win[p].sent
  BY <1>1, Zenon DEF Inductive
<1>6. 1..win[p].sent \subseteq 1..w.sent
  BY <1>4
<1>7. fresh.to = q /\ fresh.cov = w.received /\ w.received \in Coverage /\ Valid(w.received)
  BY Zenon DEF IsWindow, RecvHalf
<1>8. fresh \in [to : Peers, ref : Nat, cov : Coverage]
  BY <1>1, <1>7, Zenon
<1>9. credits' \subseteq credits \cup {fresh}
  BY Zenon
<1> HIDE DEF q, fresh
<1>10. /\ win' = [r \in Peers |-> win'[r]]
       /\ \A r \in Peers : IsWindow(win'[r]) /\ SendHalf(win'[r]) /\ RecvHalf(win'[r])
  BY <1>1, <1>2, <1>3, <1>5, Zenon
<1>11. ASSUME NEW r \in Peers
       PROVE  /\ Covered(win'[r].credited) \subseteq Covered(win'[Other(r)].received)
              /\ Covered(win'[Other(r)].received) \subseteq 1..win'[r].sent
              /\ win[r].sent <= win'[r].sent /\ win'[r].sent \in Nat
              /\ Covered(win[r].received) \subseteq Covered(win'[r].received)
  <2>1. CASE r = p
    <3>1. Other(r) = q
      BY <2>1, Zenon DEF q
    <3> QED BY <2>1, <3>1, <1>3, <1>4, <1>5, <1>6, Zenon DEF q
  <2>2. CASE r = q
    <3>1. Other(r) = p
      BY <2>2, <1>1, Zenon
    <3> QED BY <2>2, <3>1, <1>1, <1>3, <1>4, <1>5 DEF q
  <2> QED BY <2>1, <2>2, <1>1, Zenon
<1>12. TypeOK'
  BY <1>8, <1>9, <1>10, Zenon DEF Inductive, TypeOK
<1>13. \A f \in frames' : f.ctr \in 1..win'[f.from].sent
  BY <1>4, <1>11 DEF Inductive, TypeOK
<1>14. \A k \in credits :
         /\ k.to \in Peers /\ Valid(k.cov)
         /\ Covered(k.cov) \subseteq Covered(win[Other(k.to)].received)
         /\ Covered(k.cov) \subseteq Covered(win'[Other(k.to)].received)
  BY <1>11, OtherProps, ZenonT(30) DEF Inductive, TypeOK
<1>15. \A k \in credits' :
         Valid(k.cov) /\ Covered(k.cov) \subseteq Covered(win'[Other(k.to)].received)
  BY <1>1, <1>3, <1>7, <1>9, <1>14, SMTT(30)
<1>16. \A k \in credits : k.to = q => Covered(k.cov) \subseteq Covered(fresh.cov)
  BY <1>1, <1>3, <1>7, <1>14, Zenon
<1>17. \A a, b \in credits' :
         a.to = b.to => \/ Covered(a.cov) \subseteq Covered(b.cov)
                        \/ Covered(b.cov) \subseteq Covered(a.cov)
  <2> TAKE a, b \in credits'
  <2> HAVE a.to = b.to
  <2>1. CASE a \in credits /\ b \in credits
    BY <2>1, ZenonT(30) DEF Inductive
  <2>2. CASE a = fresh \/ b = fresh
    BY <1>7, <1>9, <1>16, <2>2, Zenon
  <2> QED BY <1>9, <2>1, <2>2, Zenon
<1> QED BY <1>10, <1>11, <1>12, <1>13, <1>15, <1>17, ZenonT(30) DEF Inductive

\* Sending a frame keeps the invariant.
LEMMA SendStep ==
  ASSUME Inductive, NEW p \in Peers, NEW kind \in Kinds, Send(p, kind)
  PROVE  Inductive'
<1> DEFINE w == RecordSent(win[p], kind.purpose, kind.volatile, now)
<1>1. /\ IsWindow(win[p]) /\ SendHalf(win[p]) /\ RecvHalf(win[p])
      /\ Covered(win[p].credited) \subseteq Covered(win[Other(p)].received)
      /\ Covered(win[p].received) \subseteq 1..win[Other(p)].sent
      /\ win[p].sent \in Nat /\ now \in Nat /\ now > 0
  BY OtherProps, ZenonT(30) DEF Inductive, TypeOK, IsWindow
<1>2. kind.purpose \in Purpose /\ kind.volatile \in BOOLEAN
  BY LinkAssumption, Zenon
<1>3. HasRoom(win[p], kind.purpose) /\ (kind.volatile => kind.purpose # "Control")
  BY Zenon DEF Send
<1>4. /\ IsWindow(w) /\ SendHalf(w)
      /\ w.sent = win[p].sent + 1 /\ w.credited = win[p].credited
      /\ w.received = win[p].received /\ w.rx = win[p].rx
  BY <1>1, <1>2, <1>3, RecordSentProps
<1>5. win' = [win EXCEPT ![p] = w] /\ UNCHANGED <<skipped, frames, credits, now>>
  BY Zenon DEF Send
<1> HIDE DEF w
<1>6. RecvHalf(w)
  BY <1>1, <1>4, Zenon DEF RecvHalf
<1>7. w.sent >= win[p].sent
  BY <1>1, <1>4
<1>8. /\ skipped' = [r \in Peers |-> skipped'[r]]
      /\ \A r \in Peers : /\ DOMAIN skipped'[r] \subseteq Nat
                           /\ skipped'[r] \in [DOMAIN skipped'[r] -> Nat]
  BY <1>5, Zenon DEF Inductive, TypeOK
<1> QED BY <1>1, <1>4, <1>5, <1>6, <1>7, <1>8, WindowStep, ZenonT(30)

\* What a receive does to the store of skipped keys is well typed.
LEMMA SkippedAfterProps ==
  ASSUME TypeOK, NEW q \in Peers, NEW c \in Nat
  PROVE  /\ DOMAIN SkippedAfter(q, c) \subseteq Nat
         /\ SkippedAfter(q, c) \in [DOMAIN SkippedAfter(q, c) -> Nat]
<1>1. Highest(win[q].received) \in Nat
  BY HighestProps, Zenon DEF TypeOK, IsWindow
<1>2. LiveSkipped(q) \subseteq DOMAIN skipped[q] /\ DOMAIN skipped[q] \subseteq Nat
  BY Zenon DEF LiveSkipped, TypeOK
<1>3. \A k \in LiveSkipped(q) : skipped[q][k] \in Nat
  BY <1>2, Zenon DEF TypeOK
<1>4. now \in Nat
  BY Zenon DEF TypeOK
<1>5. (LiveSkipped(q) \cup ((Highest(win[q].received) + 1)..(c - 1))) \ {c} \subseteq Nat
  BY <1>1, <1>2
<1> QED BY <1>3, <1>4, <1>5, Zenon DEF SkippedAfter

\* Receiving a new frame keeps the invariant.
LEMMA ReceiveStep ==
  ASSUME Inductive, NEW q \in Peers, NEW c, Receive(q, c)
  PROVE  Inductive'
<1> DEFINE staged == RecordAuthenticated(win[q], c)
           w == CacheCredit(staged)
<1>1. /\ IsWindow(win[q]) /\ SendHalf(win[q]) /\ RecvHalf(win[q])
      /\ Covered(win[q].credited) \subseteq Covered(win[Other(q)].received)
      /\ Covered(win[q].received) \subseteq 1..win[Other(q)].sent
      /\ win[q].sent \in Nat /\ win[Other(q)].sent \in Nat
  BY OtherProps, ZenonT(30) DEF Inductive, TypeOK, IsWindow
<1>2. c \in Nat /\ c \in 1..win[Other(q)].sent
  BY <1>1, OtherProps DEF Receive, Inductive
<1>3. Acceptable(win[q].received, c)
  BY Zenon DEF Receive
<1>4. /\ IsWindow(staged) /\ RecvHalf(staged)
      /\ Covered(staged.received) = Covered(win[q].received) \cup {c}
      /\ staged.sent = win[q].sent /\ staged.credited = win[q].credited
      /\ staged.tx = win[q].tx
  BY <1>1, <1>2, <1>3, RecordAuthenticatedProps, Zenon
<1>5. /\ win' = [win EXCEPT ![q] = w]
      /\ credits' = credits \cup {CreditOf(q, staged)}
      /\ skipped' = [skipped EXCEPT ![q] = SkippedAfter(q, c)]
      /\ UNCHANGED <<frames, now>>
  BY Zenon DEF Receive
<1> HIDE DEF staged
<1>6. /\ IsWindow(w) /\ RecvHalf(w)
      /\ w.sent = staged.sent /\ w.credited = staged.credited
      /\ w.received = staged.received /\ w.tx = staged.tx
  BY <1>4, CacheCreditProps, Zenon
<1>7. LastAuthority(staged) \in Nat /\ CreditSnapshot(staged) = staged.received
  BY <1>4, LastAuthorityProps, SnapshotCurrent, SMTT(30) DEF IsWindow
<1> HIDE DEF w
<1>8. SendHalf(w)
  BY <1>1, <1>4, <1>6, ZenonT(30) DEF SendHalf
<1>9. credits' = credits \cup {[to |-> Other(q), ref |-> LastAuthority(staged),
                                cov |-> w.received]}
  BY <1>5, <1>6, <1>7, Zenon DEF CreditOf
<1>10. /\ skipped' = [r \in Peers |-> skipped'[r]]
       /\ \A r \in Peers : /\ DOMAIN skipped'[r] \subseteq Nat
                            /\ skipped'[r] \in [DOMAIN skipped'[r] -> Nat]
  BY <1>2, <1>5, SkippedAfterProps, ZenonT(30) DEF Inductive, TypeOK
<1>11. /\ Covered(w.credited) \subseteq Covered(win[Other(q)].received)
       /\ Covered(win[q].received) \subseteq Covered(w.received)
       /\ Covered(w.received) \subseteq 1..win[Other(q)].sent
       /\ w.sent >= win[q].sent
  BY <1>1, <1>2, <1>4, <1>6
<1> QED BY <1>5, <1>6, <1>7, <1>8, <1>9, <1>10, <1>11, WindowStep, ZenonT(30)

\* Answering a repeated frame keeps the invariant.
LEMMA DuplicateStep ==
  ASSUME Inductive, NEW q \in Peers, NEW c, ReceiveDuplicate(q, c)
  PROVE  Inductive'
<1> DEFINE w == CacheCredit(win[q])
<1>1. /\ IsWindow(win[q]) /\ SendHalf(win[q]) /\ RecvHalf(win[q])
      /\ Covered(win[q].credited) \subseteq Covered(win[Other(q)].received)
      /\ Covered(win[q].received) \subseteq 1..win[Other(q)].sent
      /\ win[q].sent \in Nat
  BY OtherProps, ZenonT(30) DEF Inductive, TypeOK, IsWindow
<1>2. Covered(win[q].received) # {}
  BY <1>1, Zenon DEF ReceiveDuplicate, CanCredit, RecvHalf
<1>3. /\ win' = [win EXCEPT ![q] = w]
      /\ credits' = credits \cup {CreditOf(q, win[q])}
      /\ UNCHANGED <<skipped, frames, now>>
  BY Zenon DEF ReceiveDuplicate
<1>4. /\ IsWindow(w) /\ RecvHalf(w)
      /\ w.sent = win[q].sent /\ w.credited = win[q].credited
      /\ w.received = win[q].received /\ w.tx = win[q].tx
  BY <1>1, <1>2, CacheCreditProps, Zenon
<1>5. LastAuthority(win[q]) \in Nat /\ CreditSnapshot(win[q]) = win[q].received
  BY <1>1, <1>2, LastAuthorityProps, SnapshotCurrent, Zenon DEF IsWindow
<1> HIDE DEF w
<1>6. SendHalf(w)
  BY <1>1, <1>4, ZenonT(30) DEF SendHalf
<1>9. w.sent >= win[q].sent
  BY <1>1, <1>4
<1>7. credits' = credits \cup {[to |-> Other(q), ref |-> LastAuthority(win[q]),
                                cov |-> w.received]}
  BY <1>3, <1>4, <1>5, Zenon DEF CreditOf
<1>8. /\ skipped' = [r \in Peers |-> skipped'[r]]
      /\ \A r \in Peers : /\ DOMAIN skipped'[r] \subseteq Nat
                           /\ skipped'[r] \in [DOMAIN skipped'[r] -> Nat]
  BY <1>3, Zenon DEF Inductive, TypeOK
<1> QED BY <1>1, <1>3, <1>4, <1>5, <1>6, <1>7, <1>8, <1>9, WindowStep, ZenonT(30)

\* Merging a credit keeps the invariant.
LEMMA CreditStep ==
  ASSUME Inductive, NEW p \in Peers, NEW credit \in credits, ReceiveCredit(p, credit)
  PROVE  Inductive'
<1> DEFINE w == AcceptCredit(win[p], credit.cov)
<1>1. /\ IsWindow(win[p]) /\ SendHalf(win[p]) /\ RecvHalf(win[p])
      /\ Covered(win[p].credited) \subseteq Covered(win[Other(p)].received)
      /\ Covered(win[p].received) \subseteq 1..win[Other(p)].sent
      /\ win[p].sent \in Nat
  BY OtherProps, ZenonT(30) DEF Inductive, TypeOK, IsWindow
<1>2. /\ credit.cov \in Coverage /\ CreditUsable(win[p], credit.ref, credit.cov)
      /\ Covered(credit.cov) \subseteq Covered(win[Other(p)].received)
  BY ZenonT(30) DEF ReceiveCredit, Inductive, TypeOK
<1>3. /\ IsWindow(w) /\ SendHalf(w)
      /\ Covered(w.credited) = Covered(win[p].credited) \cup Covered(credit.cov)
      /\ w.sent = win[p].sent /\ w.received = win[p].received /\ w.rx = win[p].rx
  BY <1>1, <1>2, AcceptCreditProps, Zenon
<1>4. win' = [win EXCEPT ![p] = w] /\ UNCHANGED <<skipped, frames, credits, now>>
  BY Zenon DEF ReceiveCredit
<1> HIDE DEF w
<1>5. RecvHalf(w)
  BY <1>1, <1>3, Zenon DEF RecvHalf
<1>6. w.sent >= win[p].sent
  BY <1>1, <1>3
<1>7. /\ skipped' = [r \in Peers |-> skipped'[r]]
      /\ \A r \in Peers : /\ DOMAIN skipped'[r] \subseteq Nat
                           /\ skipped'[r] \in [DOMAIN skipped'[r] -> Nat]
  BY <1>4, Zenon DEF Inductive, TypeOK
<1>8. Covered(w.credited) \subseteq Covered(win[Other(p)].received)
  BY <1>1, <1>2, <1>3, Zenon
<1> QED BY <1>1, <1>3, <1>4, <1>5, <1>6, <1>7, <1>8, WindowStep, ZenonT(30)

\* Archiving and restoring keeps the invariant.
LEMMA RestartStep ==
  ASSUME Inductive, NEW p \in Peers, Restart(p)
  PROVE  Inductive'
<1> DEFINE w == EncodePrivate(win[p])
<1>1. /\ IsWindow(win[p]) /\ SendHalf(win[p]) /\ RecvHalf(win[p])
      /\ Covered(win[p].credited) \subseteq Covered(win[Other(p)].received)
      /\ Covered(win[p].received) \subseteq 1..win[Other(p)].sent
      /\ win[p].sent \in Nat
  BY OtherProps, ZenonT(30) DEF Inductive, TypeOK, IsWindow
<1>2. /\ IsWindow(w) /\ SendHalf(w) /\ RecvHalf(w)
      /\ w.sent = win[p].sent /\ w.credited = win[p].credited
      /\ w.received = win[p].received
  BY <1>1, EncodePrivateProps, Zenon
<1>3. win' = [win EXCEPT ![p] = w] /\ UNCHANGED <<skipped, frames, credits, now>>
  BY Zenon DEF Restart
<1> HIDE DEF w
<1>4. w.sent >= win[p].sent
  BY <1>1, <1>2
<1>5. /\ skipped' = [r \in Peers |-> skipped'[r]]
      /\ \A r \in Peers : /\ DOMAIN skipped'[r] \subseteq Nat
                           /\ skipped'[r] \in [DOMAIN skipped'[r] -> Nat]
  BY <1>3, Zenon DEF Inductive, TypeOK
<1> QED BY <1>1, <1>2, <1>3, <1>4, <1>5, WindowStep, ZenonT(30)

\* Repairing a frame keeps the invariant.
LEMMA TransmitStep ==
  ASSUME Inductive, NEW p \in Peers, NEW c \in DOMAIN win[p].tx, Transmit(p, c)
  PROVE  Inductive'
<1>1. /\ frames' = frames \cup {[from |-> p, ctr |-> c]}
      /\ UNCHANGED <<win, skipped, credits, now>>
  BY Zenon DEF Transmit
<1>2. /\ win[p].sent \in Nat /\ win[p].credited.floor \in Nat
      /\ DOMAIN win[p].tx = (win[p].credited.floor + 1)..win[p].sent
  BY Zenon DEF Inductive, TypeOK, IsWindow, SendHalf, Coverage
<1>3. c \in Nat /\ c \in 1..win[p].sent
  BY <1>2
<1>4. \A f \in frames' : f.ctr \in 1..win'[f.from].sent
  BY <1>1, <1>3 DEF Inductive
<1>5. TypeOK'
  BY <1>1, <1>3 DEF Inductive, TypeOK
<1> QED BY <1>1, <1>4, <1>5, ZenonT(30) DEF Inductive

\* The clock, the losses of the network and a stuttering step.
LEMMA QuietStep ==
  ASSUME Inductive, UNCHANGED <<win, skipped>>,
         frames' \subseteq frames, credits' \subseteq credits,
         now' = now \/ now' = now + 1
  PROVE  Inductive'
<1>1. now' \in Nat /\ now' > 0
  BY DEF Inductive, TypeOK
<1>2. TypeOK'
  BY <1>1, Zenon DEF Inductive, TypeOK
<1> QED BY <1>1, <1>2, ZenonT(30) DEF Inductive

\* Inductive holds in every reachable state, for every window and reserve.
THEOREM InductiveInvariant == Spec => []Inductive
<1>1. Inductive /\ [Next]_vars => Inductive'
  <2> SUFFICES ASSUME Inductive, [Next]_vars PROVE Inductive'
    BY Zenon
  <2>1. ASSUME NEW p \in Peers, NEW kind \in Kinds, Send(p, kind) PROVE Inductive'
    BY <2>1, SendStep, Zenon
  <2>2. ASSUME NEW p \in Peers, NEW c \in DOMAIN win[p].tx, Transmit(p, c)
        PROVE  Inductive'
    BY <2>2, TransmitStep, Zenon
  <2>3. ASSUME NEW p \in Peers, NEW f \in frames, Receive(p, f.ctr) PROVE Inductive'
    BY <2>3, ReceiveStep, Zenon
  <2>4. ASSUME NEW p \in Peers, NEW f \in frames, ReceiveDuplicate(p, f.ctr)
        PROVE  Inductive'
    BY <2>4, DuplicateStep, Zenon
  <2>5. ASSUME NEW p \in Peers, NEW credit \in credits, ReceiveCredit(p, credit)
        PROVE  Inductive'
    BY <2>5, CreditStep, Zenon
  <2>6. ASSUME NEW p \in Peers, Restart(p) PROVE Inductive'
    BY <2>6, RestartStep, Zenon
  <2>7. CASE Tick
    BY <2>7, QuietStep, Zenon DEF Tick
  <2>8. ASSUME NEW f \in frames, LoseFrame(f) PROVE Inductive'
    BY <2>8, QuietStep, Zenon DEF LoseFrame
  <2>9. ASSUME NEW credit \in credits, LoseCredit(credit) PROVE Inductive'
    BY <2>9, QuietStep, Zenon DEF LoseCredit
  <2>10. CASE UNCHANGED vars
    BY <2>10, QuietStep, Zenon DEF vars
  <2> QED
    BY <2>1, <2>2, <2>3, <2>4, <2>5, <2>6, <2>7, <2>8, <2>9, <2>10, Zenon DEF Next
<1> QED BY InitInductive, <1>1, PTL DEF Spec

\* The windows, the key stores and the packets in flight keep their types.
THEOREM TypeCorrect == Spec => []TypeOK
<1>1. Inductive => TypeOK
  BY Zenon DEF Inductive
<1> QED BY <1>1, InductiveInvariant, PTL

\* A counter a sender holds as credited was authenticated by its peer, however
\* frames and credits were lost, repeated, reordered or cut by restarts
\* (accept_credit).
THEOREM CreditIsSound == Spec => []CreditSound
<1>1. Inductive => CreditSound
  BY Zenon DEF Inductive, CreditSound
<1> QED BY <1>1, InductiveInvariant, PTL

\* One authority and one nonce seal one snapshot only: the nonce is the number
\* of counters covered, and the snapshots sent to one peer form a chain
\* (credit_for_duplicate).
THEOREM NonceIsUnique == Spec => []NonceUnique
<1>1. Inductive => NonceUnique
  <2> SUFFICES ASSUME Inductive, NEW a \in credits, NEW b \in credits,
                      a.to = b.to, a.ref = b.ref, Count(a.cov) = Count(b.cov)
               PROVE  a = b
    BY Zenon DEF NonceUnique
  <2>1. /\ a \in [to : Peers, ref : Nat, cov : Coverage]
        /\ b \in [to : Peers, ref : Nat, cov : Coverage]
    BY Zenon DEF Inductive, TypeOK
  <2>2. Valid(a.cov) /\ Valid(b.cov)
    BY Zenon DEF Inductive
  <2>3. \/ Covered(a.cov) \subseteq Covered(b.cov)
        \/ Covered(b.cov) \subseteq Covered(a.cov)
    BY Zenon DEF Inductive
  <2>4. a.cov = b.cov
    BY <2>1, <2>2, <2>3, NestedSameCount, Zenon
  <2> QED BY <2>1, <2>4
<1> QED BY <1>1, InductiveInvariant, PTL

\* What a sender still repairs, its peer can still answer: the receipt
\* authorities reach back a whole window below the highest counter received
\* (record_authenticated), and the sender never runs further ahead.
THEOREM RepairIsAnswered == Spec => []RepairAnswered
<1>1. Inductive => RepairAnswered
  <2> SUFFICES ASSUME Inductive, NEW p \in Peers, NEW c \in Retries(win[p]),
                      Contains(win[Other(p)].received, c)
               PROVE  CanCredit(win[Other(p)], c)
    BY Zenon DEF RepairAnswered
  <2> DEFINE w == win[Other(p)]
             h == Highest(w.received)
  <2>1. /\ win[p].sent \in Nat /\ win[p].credited.floor \in Nat
        /\ DOMAIN win[p].tx = (win[p].credited.floor + 1)..win[p].sent
        /\ win[p].sent - win[p].credited.floor <= COUNTER_WINDOW
    BY Zenon DEF Inductive, TypeOK, IsWindow, SendHalf, Coverage
  <2>2. /\ w.received \in Coverage /\ RecvHalf(w)
        /\ Covered(w.received) \subseteq 1..win[p].sent
    BY OtherProps, Zenon DEF Inductive, TypeOK, IsWindow
  <2>3. c \in Nat \ {0} /\ c > win[p].credited.floor
    BY <2>1 DEF Retries
  <2>4. c \in Covered(w.received)
    BY <2>2, <2>3, CoveredProps, Zenon
  <2>5. h \in Nat /\ h <= win[p].sent
    <3>1. h \in Nat /\ c <= h /\ Contains(w.received, h)
      BY <2>2, <2>3, HighestProps, Zenon
    <3>2. h \in Covered(w.received)
      BY <2>2, <2>3, <3>1, CoveredProps
    <3> QED BY <2>1, <2>2, <3>1, <3>2
  <2>6. c + COUNTER_WINDOW > h
    BY <2>1, <2>3, <2>5, WindowType
  <2>7. ReceiptFloor(w.received) <= c
    BY <2>2, <2>3, <2>6, ReceiptFloorProps, Zenon
  <2> QED BY <2>2, <2>4, <2>7, Zenon DEF RecvHalf, CanCredit
<1> QED BY <1>1, InductiveInvariant, PTL

\* Every state a session reaches archives to something decode_private accepts.
THEOREM RestoreIsAccepted == Spec => []RestoreAccepted
<1>1. ASSUME NEW w, IsWindow(w), SendHalf(w), RecvHalf(w)
      PROVE  DecodeAccepts(EncodePrivate(w))
  <2> DEFINE v == EncodePrivate(w)
             tx == [c \in DOMAIN w.tx |-> [w.tx[c] EXCEPT !.packet = ~w.tx[c].volatile]]
  <2>1. /\ IsWindow(v) /\ SendHalf(v) /\ RecvHalf(v)
        /\ v.sent = w.sent /\ v.credited = w.credited
        /\ v.received = w.received /\ v.rx = w.rx /\ DOMAIN v.tx = DOMAIN w.tx
    BY <1>1, EncodePrivateProps, Zenon
  <2>2. ASSUME NEW c \in DOMAIN v.tx
        PROVE  v.tx[c].packet = ~v.tx[c].volatile
    <3>1. v.tx[c] = [w.tx[c] EXCEPT !.packet = ~w.tx[c].volatile]
      BY <2>1, Zenon DEF EncodePrivate, Window
    <3>2. w.tx[c] \in Sent
      BY <1>1, <2>1, Zenon DEF IsWindow
    <3> QED BY <3>1, <3>2, Zenon DEF Sent
  <2> HIDE DEF v
  <2>3. /\ v.sent \in Nat /\ v.credited \in Coverage /\ v.received \in Coverage
        /\ v.rx \in [DOMAIN v.rx -> Coverage]
    BY <2>1, Zenon DEF IsWindow
  <2>4. Highest(v.credited) <= v.sent
    <3>1. /\ Highest(v.credited) \in Nat
          /\ Highest(v.credited) = 0 \/ Highest(v.credited) \in Covered(v.credited)
      BY <2>3, HighestProps, CoveredProps, Zenon
    <3> QED BY <2>1, <2>3, <3>1 DEF SendHalf
  <2>5. DecodeAcceptsTx(v)
    BY <2>1, <2>2, <2>4, Zenon DEF DecodeAcceptsTx, SendHalf, EntryOK
  <2> DEFINE h == Highest(v.received)
             low == IF ReceiptFloor(v.received) = 0 THEN 1 ELSE ReceiptFloor(v.received)
  <2>6. /\ h \in Nat /\ ReceiptFloor(v.received) \in Nat
        /\ \A c \in Covered(v.received) : c \in Nat \ {0} /\ c <= h
    BY <2>3, HighestProps, CoveredProps, ReceiptFloorProps, Zenon
  <2>7. DOMAIN v.rx = {c \in low..h : Contains(v.received, c)}
    <3>1. ASSUME NEW c \in DOMAIN v.rx PROVE c \in low..h /\ Contains(v.received, c)
      BY <2>1, <2>3, <2>6, CoveredProps DEF RecvHalf
    <3>2. ASSUME NEW c \in low..h, Contains(v.received, c) PROVE c \in DOMAIN v.rx
      <4>1. c \in Nat \ {0} /\ c >= ReceiptFloor(v.received)
        BY <2>6
      <4> QED BY <2>1, <2>3, <3>2, <4>1, CoveredProps, Zenon DEF RecvHalf
    <3> QED BY <3>1, <3>2, Zenon
  <2>8. ASSUME NEW c \in DOMAIN v.rx, v.rx[c] # NoCredit
        PROVE  /\ Valid(v.rx[c])
               /\ v.rx[c].floor <= v.received.floor
               /\ Highest(v.rx[c]) <= h
               /\ Contains(v.rx[c], c)
               /\ \A o \in v.rx[c].mask : Contains(v.received, v.rx[c].floor + o)
    <3> DEFINE a == v.rx[c]
    <3>1. /\ a \in Coverage /\ Valid(a) /\ Valid(v.received) /\ c \in Covered(a)
          /\ Covered(a) \subseteq Covered(v.received)
      BY <2>1, <2>3, <2>8, Zenon DEF RecvHalf
    <3> HIDE DEF a
    <3>2. \A k \in Nat : Contains(a, k) => Contains(v.received, k)
      <4> TAKE k \in Nat
      <4>1. CASE k = 0
        BY <2>3, <4>1 DEF Contains, Coverage
      <4>2. CASE k # 0
        BY <2>3, <3>1, <4>2, CoveredProps, Zenon
      <4> QED BY <4>1, <4>2, Zenon
    <3>3. a.floor <= v.received.floor
      BY <2>3, <3>1, <3>2, FloorMonotone, Zenon
    <3>4. Highest(a) <= h
      BY <2>3, <3>1, <3>2, HighestProps, Zenon
    <3>5. Contains(a, c)
      BY <3>1, CoveredProps, Zenon
    <3>6. \A o \in a.mask : Contains(v.received, a.floor + o)
      BY <3>1, <2>3, CoveredProps, Zenon DEF Covered
    <3> QED BY <3>1, <3>3, <3>4, <3>5, <3>6, Zenon DEF a
  <2>9. DecodeAcceptsRx(v)
    <3>1. Valid(v.received)
      BY <2>1, Zenon DEF RecvHalf
    <3> QED BY <3>1, <2>7, <2>8, Zenon DEF DecodeAcceptsRx
  <2> QED BY <2>5, <2>9, Zenon DEF DecodeAccepts, v
<1>2. Inductive => RestoreAccepted
  BY <1>1, Zenon DEF Inductive, TypeOK, RestoreAccepted
<1> QED BY <1>2, InductiveInvariant, PTL

\* The credit a receiver would send now is usable and brings the sender level.
THEOREM FreshCreditIsUsable == Spec => []FreshCreditCompletes
<1>1. ASSUME Inductive, NEW p \in Peers,
             ~(Highest(win[Other(p)].received) <= win[p].credited.floor)
      PROVE  LET w == win[Other(p)]
             IN  /\ CreditUsable(win[p], LastAuthority(w), CreditSnapshot(w))
                 /\ Covered(MergedCredit(win[p], CreditSnapshot(w))) = Covered(w.received)
  <2> DEFINE w == win[Other(p)]
             h == Highest(w.received)
  <2>0. /\ IsWindow(w) /\ RecvHalf(w) /\ IsWindow(win[p]) /\ SendHalf(win[p])
        /\ Covered(w.received) \subseteq 1..win[p].sent
        /\ Covered(win[p].credited) \subseteq Covered(w.received)
    BY <1>1, OtherProps, ZenonT(30) DEF Inductive, TypeOK
  <2> HIDE DEF w
  <2>1. /\ IsWindow(w) /\ RecvHalf(w) /\ w.received \in Coverage /\ Valid(w.received)
        /\ Covered(w.received) \subseteq 1..win[p].sent
        /\ Covered(win[p].credited) \subseteq Covered(w.received)
    BY <2>0, Zenon DEF IsWindow, RecvHalf
  <2>2. /\ IsWindow(win[p]) /\ win[p].sent \in Nat
        /\ win[p].credited \in Coverage /\ win[p].credited.floor \in Nat
        /\ DOMAIN win[p].tx = (win[p].credited.floor + 1)..win[p].sent
    BY <2>0, SMTT(30) DEF IsWindow, SendHalf, Coverage
  <2>3. h \in Nat /\ Contains(w.received, h) /\ h > win[p].credited.floor
    BY <1>1, <2>1, <2>2, HighestProps DEF w
  <2>4. h \in Covered(w.received)
    BY <2>1, <2>2, <2>3, CoveredProps
  <2>5. h <= win[p].sent /\ h \in DOMAIN win[p].tx
    BY <2>1, <2>2, <2>3, <2>4
  <2>6. LastAuthority(w) = h /\ CreditSnapshot(w) = w.received
    BY <2>1, <2>4, LastAuthorityProps, SnapshotCurrent, Zenon
  <2>7. \A c \in Nat : Contains(win[p].credited, c) => Contains(w.received, c)
    <3> TAKE c \in Nat
    <3>1. CASE c = 0
      BY <2>1, <3>1 DEF Contains, Coverage
    <3>2. CASE c # 0
      BY <2>1, <2>2, <3>2, CoveredProps, Zenon
    <3> QED BY <3>1, <3>2, Zenon
  <2>8. w.received.floor >= win[p].credited.floor
    BY <2>1, <2>2, <2>7, FloorMonotone, Zenon DEF Coverage
  <2>9. CreditUsable(win[p], h, w.received)
    BY <2>1, <2>5, <2>8, Zenon DEF CreditUsable
  <2>10. Covered(MergedCredit(win[p], w.received)) = Covered(w.received)
    <3>1. /\ MergedCredit(win[p], w.received) \in Coverage
          /\ \A c \in Nat : Contains(MergedCredit(win[p], w.received), c)
                                <=> Contains(w.received, c)
      BY <2>1, <2>2, <2>7, <2>8, MergedProps, Zenon
    <3> QED BY <2>1, <3>1, CoveredProps, Zenon
  <2> QED BY <2>6, <2>9, <2>10, Zenon DEF w
<1>2. Inductive => FreshCreditCompletes
  BY <1>1, Zenon DEF FreshCreditCompletes
<1> QED BY <1>2, InductiveInvariant, PTL

\* What one action does to the three quantities the abstraction keeps.
LEMMA SendEffect ==
  ASSUME Inductive, NEW p \in Peers, NEW kind \in Kinds, Send(p, kind)
  PROVE  /\ win' = [win EXCEPT ![p] = win'[p]]
         /\ win'[p].sent = win[p].sent + 1
         /\ win'[p].credited = win[p].credited /\ win'[p].received = win[p].received
         /\ 1..(win[p].sent + 1 - COUNTER_WINDOW) \subseteq Covered(win[p].credited)
<1>1. /\ IsWindow(win[p]) /\ SendHalf(win[p]) /\ now \in Nat /\ now > 0
      /\ win[p].sent \in Nat /\ win[p].credited.floor \in Nat
      /\ win = [r \in Peers |-> win[r]]
  BY Zenon DEF Inductive, TypeOK, IsWindow, Coverage
<1>2. kind.purpose \in Purpose /\ kind.volatile \in BOOLEAN
  BY LinkAssumption, Zenon
<1>3. /\ HasRoom(win[p], kind.purpose) /\ (kind.volatile => kind.purpose # "Control")
      /\ win' = [win EXCEPT ![p] = RecordSent(win[p], kind.purpose, kind.volatile, now)]
  BY Zenon DEF Send
<1>4. win'[p] = RecordSent(win[p], kind.purpose, kind.volatile, now)
  BY <1>1, <1>3, Zenon
<1>5. 1..(win[p].sent + 1 - COUNTER_WINDOW) \subseteq 1..win[p].credited.floor
  BY <1>1, <1>2, <1>3, WindowType, FlowAssumption DEF HasRoom, Limit, COUNTER_WINDOW
<1>6. 1..win[p].credited.floor \subseteq Covered(win[p].credited)
  BY Zenon DEF Covered
<1> QED BY <1>1, <1>2, <1>3, <1>4, <1>5, <1>6, RecordSentProps

\* A received frame is an abstract delivery.
LEMMA ReceiveEffect ==
  ASSUME Inductive, NEW q \in Peers, NEW c, Receive(q, c)
  PROVE  /\ win' = [win EXCEPT ![q] = win'[q]]
         /\ win'[q].sent = win[q].sent /\ win'[q].credited = win[q].credited
         /\ c \in (1..win[Other(q)].sent) \ Covered(win[q].received)
         /\ Covered(win'[q].received) = Covered(win[q].received) \cup {c}
<1> DEFINE staged == RecordAuthenticated(win[q], c)
<1>1. /\ IsWindow(win[q]) /\ RecvHalf(win[q]) /\ win[q].received \in Coverage
      /\ win = [r \in Peers |-> win[r]] /\ win[Other(q)].sent \in Nat
  BY OtherProps, Zenon DEF Inductive, TypeOK, IsWindow
<1>2. c \in Nat /\ c \in 1..win[Other(q)].sent
  BY <1>1, OtherProps DEF Receive, Inductive
<1>3. Acceptable(win[q].received, c) /\ ~Contains(win[q].received, c)
  BY Zenon DEF Receive
<1>4. /\ IsWindow(staged) /\ RecvHalf(staged)
      /\ Covered(staged.received) = Covered(win[q].received) \cup {c}
      /\ staged.sent = win[q].sent /\ staged.credited = win[q].credited
  BY <1>1, <1>2, <1>3, RecordAuthenticatedProps, Zenon
<1>5. win' = [win EXCEPT ![q] = CacheCredit(staged)]
  BY Zenon DEF Receive
<1> HIDE DEF staged
<1>6. win'[q] = CacheCredit(staged)
  BY <1>1, <1>5, Zenon
<1>7. c \notin Covered(win[q].received)
  BY <1>1, <1>3, CoveredProps, Zenon
<1> QED BY <1>2, <1>4, <1>5, <1>6, <1>7, CacheCreditProps, ZenonT(30)

\* A repeated frame changes nothing in the abstract state.
LEMMA DuplicateEffect ==
  ASSUME Inductive, NEW q \in Peers, NEW c, ReceiveDuplicate(q, c)
  PROVE  /\ win' = [win EXCEPT ![q] = win'[q]]
         /\ win'[q].sent = win[q].sent /\ win'[q].credited = win[q].credited
         /\ win'[q].received = win[q].received
<1>1. IsWindow(win[q]) /\ RecvHalf(win[q]) /\ win = [r \in Peers |-> win[r]]
  BY Zenon DEF Inductive, TypeOK
<1>2. Covered(win[q].received) # {}
  BY <1>1, Zenon DEF ReceiveDuplicate, CanCredit, RecvHalf
<1>3. win' = [win EXCEPT ![q] = CacheCredit(win[q])]
  BY Zenon DEF ReceiveDuplicate
<1>4. win'[q] = CacheCredit(win[q])
  BY <1>1, <1>3, Zenon
<1> QED BY <1>1, <1>2, <1>3, <1>4, CacheCreditProps, Zenon

\* A merged credit is an abstract credit or nothing.
LEMMA CreditEffect ==
  ASSUME Inductive, NEW p \in Peers, NEW credit \in credits, ReceiveCredit(p, credit)
  PROVE  /\ win' = [win EXCEPT ![p] = win'[p]]
         /\ win'[p].sent = win[p].sent /\ win'[p].received = win[p].received
         /\ Covered(credit.cov) \subseteq Covered(win[Other(p)].received)
         /\ Covered(win'[p].credited) = Covered(win[p].credited) \cup Covered(credit.cov)
<1>1. IsWindow(win[p]) /\ SendHalf(win[p]) /\ win = [r \in Peers |-> win[r]]
  BY Zenon DEF Inductive, TypeOK
<1>2. /\ credit.cov \in Coverage /\ CreditUsable(win[p], credit.ref, credit.cov)
      /\ Covered(credit.cov) \subseteq Covered(win[Other(p)].received)
  BY ZenonT(30) DEF ReceiveCredit, Inductive, TypeOK
<1>3. win' = [win EXCEPT ![p] = AcceptCredit(win[p], credit.cov)]
  BY Zenon DEF ReceiveCredit
<1>4. win'[p] = AcceptCredit(win[p], credit.cov)
  BY <1>1, <1>3, Zenon
<1> QED BY <1>1, <1>2, <1>3, <1>4, AcceptCreditProps, Zenon

\* A restart changes nothing in the abstract state.
LEMMA RestartEffect ==
  ASSUME Inductive, NEW p \in Peers, Restart(p)
  PROVE  /\ win' = [win EXCEPT ![p] = win'[p]]
         /\ win'[p].sent = win[p].sent /\ win'[p].credited = win[p].credited
         /\ win'[p].received = win[p].received
<1>1. /\ IsWindow(win[p]) /\ SendHalf(win[p]) /\ RecvHalf(win[p])
      /\ win = [r \in Peers |-> win[r]]
  BY Zenon DEF Inductive, TypeOK
<1>2. win' = [win EXCEPT ![p] = EncodePrivate(win[p])]
  BY Zenon DEF Restart
<1>3. win'[p] = EncodePrivate(win[p])
  BY <1>1, <1>2, Zenon
<1> QED BY <1>1, <1>2, <1>3, EncodePrivateProps, Zenon

\* The abstract state: what each peer has sent, had taken and learnt.
SentMap == [p \in Peers |-> win[p].sent]
TakenMap == [p \in Peers |-> Covered(win[Other(p)].received)]
KnownMap == [p \in Peers |-> Covered(win[p].credited)]

\* An action that changes none of the three quantities is invisible above.
LEMMA Invisible ==
  ASSUME NEW p \in Peers, win' = [win EXCEPT ![p] = win'[p]],
         win = [r \in Peers |-> win[r]],
         win'[p].sent = win[p].sent, win'[p].credited = win[p].credited,
         win'[p].received = win[p].received
  PROVE  UNCHANGED <<SentMap, TakenMap, KnownMap>>
<1>1. \A r \in Peers : r # p => win'[r] = win[r]
  BY Zenon
<1>2. \A r \in Peers : /\ win'[r].sent = win[r].sent
                       /\ win'[r].credited = win[r].credited
                       /\ win'[r].received = win[r].received
  BY <1>1, Zenon
<1> QED BY <1>2, OtherProps DEF SentMap, TakenMap, KnownMap

\* Each action maps to one abstract step or to none.
LEMMA StepSimulation ==
  ASSUME Inductive, [Next]_vars
  PROVE  \/ \E p \in Peers :
               \/ /\ 1..(SentMap[p] + 1 - COUNTER_WINDOW) \subseteq KnownMap[p]
                  /\ SentMap' = [SentMap EXCEPT ![p] = @ + 1]
                  /\ UNCHANGED <<TakenMap, KnownMap>>
               \/ /\ \E c \in (1..SentMap[p]) \ TakenMap[p] :
                        TakenMap' = [TakenMap EXCEPT ![p] = @ \cup {c}]
                  /\ UNCHANGED <<SentMap, KnownMap>>
               \/ /\ \E news \in SUBSET TakenMap[p] :
                        KnownMap' = [KnownMap EXCEPT ![p] = @ \cup news]
                  /\ UNCHANGED <<SentMap, TakenMap>>
         \/ UNCHANGED <<SentMap, TakenMap, KnownMap>>
<1>0. win = [r \in Peers |-> win[r]]
  BY Zenon DEF Inductive, TypeOK
<1>1. ASSUME NEW p \in Peers, NEW kind \in Kinds, Send(p, kind)
      PROVE  /\ 1..(SentMap[p] + 1 - COUNTER_WINDOW) \subseteq KnownMap[p]
             /\ SentMap' = [SentMap EXCEPT ![p] = @ + 1]
             /\ UNCHANGED <<TakenMap, KnownMap>>
  <2>1. /\ win' = [win EXCEPT ![p] = win'[p]]
        /\ win'[p].sent = win[p].sent + 1
        /\ win'[p].credited = win[p].credited /\ win'[p].received = win[p].received
        /\ 1..(win[p].sent + 1 - COUNTER_WINDOW) \subseteq Covered(win[p].credited)
    BY <1>1, SendEffect, Zenon
  <2>2. \A r \in Peers : r # p => win'[r] = win[r]
    BY <1>0, <2>1, Zenon
  <2>3. \A r \in Peers : /\ win'[r].credited = win[r].credited
                         /\ win'[r].received = win[r].received
    BY <2>1, <2>2, Zenon
  <2>4. UNCHANGED <<TakenMap, KnownMap>>
    BY <2>3, OtherProps DEF TakenMap, KnownMap
  <2> QED BY <2>1, <2>2, <2>4, ZenonT(30) DEF SentMap, KnownMap
<1>2. ASSUME NEW q \in Peers, NEW c, Receive(q, c)
      PROVE  \E p \in Peers :
               /\ \E k \in (1..SentMap[p]) \ TakenMap[p] :
                     TakenMap' = [TakenMap EXCEPT ![p] = @ \cup {k}]
               /\ UNCHANGED <<SentMap, KnownMap>>
  <2> DEFINE p == Other(q)
  <2>0. p \in Peers /\ Other(p) = q /\ \A r \in Peers : r # p => Other(r) # q
    BY OtherProps, Zenon
  <2>1. /\ win' = [win EXCEPT ![q] = win'[q]]
        /\ win'[q].sent = win[q].sent /\ win'[q].credited = win[q].credited
        /\ c \in (1..win[p].sent) \ Covered(win[q].received)
        /\ Covered(win'[q].received) = Covered(win[q].received) \cup {c}
    BY <1>2, ReceiveEffect, Zenon
  <2> HIDE DEF p
  <2>2. \A r \in Peers : r # q => win'[r] = win[r]
    BY <1>0, <2>1, Zenon
  <2>3. \A r \in Peers : win'[r].sent = win[r].sent /\ win'[r].credited = win[r].credited
    BY <2>1, <2>2, Zenon
  <2>4. UNCHANGED <<SentMap, KnownMap>>
    BY <2>3, Zenon DEF SentMap, KnownMap
  <2>5. TakenMap' = [TakenMap EXCEPT ![p] = @ \cup {c}]
    <3>1. \A r \in Peers : r # p => TakenMap'[r] = TakenMap[r]
      BY <2>0, <2>2, OtherProps, Zenon DEF TakenMap
    <3>2. TakenMap'[p] = TakenMap[p] \cup {c}
      BY <2>0, <2>1, Zenon DEF TakenMap
    <3>3. TakenMap' = [r \in Peers |-> TakenMap'[r]] /\ TakenMap = [r \in Peers |-> TakenMap[r]]
      BY Zenon DEF TakenMap
    <3> QED BY <2>0, <3>1, <3>2, <3>3, Zenon
  <2>6. c \in (1..SentMap[p]) \ TakenMap[p]
    BY <2>0, <2>1, Zenon DEF SentMap, TakenMap
  <2> QED BY <2>0, <2>4, <2>5, <2>6, ZenonT(30)
<1>3. ASSUME NEW p \in Peers, NEW credit \in credits, ReceiveCredit(p, credit)
      PROVE  /\ \E news \in SUBSET TakenMap[p] :
                   KnownMap' = [KnownMap EXCEPT ![p] = @ \cup news]
             /\ UNCHANGED <<SentMap, TakenMap>>
  <2>1. /\ win' = [win EXCEPT ![p] = win'[p]]
        /\ win'[p].sent = win[p].sent /\ win'[p].received = win[p].received
        /\ Covered(credit.cov) \subseteq Covered(win[Other(p)].received)
        /\ Covered(win'[p].credited) = Covered(win[p].credited) \cup Covered(credit.cov)
    BY <1>3, CreditEffect, Zenon
  <2>2. \A r \in Peers : r # p => win'[r] = win[r]
    BY <1>0, <2>1, Zenon
  <2>3. \A r \in Peers : win'[r].sent = win[r].sent /\ win'[r].received = win[r].received
    BY <2>1, <2>2, Zenon
  <2>4. UNCHANGED <<SentMap, TakenMap>>
    BY <2>3, OtherProps DEF SentMap, TakenMap
  <2>5. KnownMap' = [KnownMap EXCEPT ![p] = @ \cup Covered(credit.cov)]
    BY <2>1, <2>2, ZenonT(30) DEF KnownMap
  <2>6. Covered(credit.cov) \in SUBSET TakenMap[p]
    BY <2>1, Zenon DEF TakenMap
  <2> QED BY <2>4, <2>5, <2>6, ZenonT(30)
<1>4. ASSUME NEW q \in Peers, NEW c, ReceiveDuplicate(q, c)
      PROVE  UNCHANGED <<SentMap, TakenMap, KnownMap>>
  BY <1>0, <1>4, DuplicateEffect, Invisible, Zenon
<1>5. ASSUME NEW p \in Peers, Restart(p)
      PROVE  UNCHANGED <<SentMap, TakenMap, KnownMap>>
  BY <1>0, <1>5, RestartEffect, Invisible, Zenon
<1>6. ASSUME UNCHANGED win PROVE UNCHANGED <<SentMap, TakenMap, KnownMap>>
  BY <1>6, Zenon DEF SentMap, TakenMap, KnownMap
<1>7. ASSUME NEW p \in Peers, NEW c, Transmit(p, c) PROVE UNCHANGED win
  BY <1>7, Zenon DEF Transmit
<1>8. Tick \/ (\E f \in frames : LoseFrame(f)) \/ (\E k \in credits : LoseCredit(k))
        \/ UNCHANGED vars
      => UNCHANGED win
  BY Zenon DEF Tick, LoseFrame, LoseCredit, vars
<1> HIDE DEF SentMap, TakenMap, KnownMap
<1>9. CASE Next
  BY <1>1, <1>2, <1>3, <1>4, <1>5, <1>6, <1>7, <1>8, <1>9, ZenonT(30) DEF Next
<1> QED BY <1>6, <1>8, <1>9, Zenon

\* The credited window implements exactly-once delivery with flow control.
THEOREM Refinement == Spec => ImplementsDelivery
<1>1. Init => Delivery!Init
  BY NewWindowProps, OtherProps DEF Init, Delivery!Init, NewWindow, Window
<1>2. Inductive /\ [Next]_vars => [Delivery!Next]_(Delivery!vars)
  <2> SUFFICES ASSUME Inductive, [Next]_vars PROVE [Delivery!Next]_(Delivery!vars)
    BY Zenon
  <2> QED
    BY StepSimulation, ZenonT(30) DEF SentMap, TakenMap, KnownMap, Delivery!Next, Delivery!Send,
       Delivery!Take, Delivery!Learn, Delivery!vars
<1> QED BY <1>1, <1>2, InductiveInvariant, PTL DEF Spec, ImplementsDelivery, Delivery!Spec

\* No step takes credit back or drops a sent entry that is not credited.
THEOREM CreditIsMonotone == Spec => CreditNeverRetreats
<1>1. ASSUME Inductive, Inductive', [Next]_vars, NEW p \in Peers
      PROVE  /\ Covered(win[p].credited) \subseteq Covered(win'[p].credited)
             /\ \A c \in DOMAIN win[p].tx \ DOMAIN win'[p].tx : IsCredited(win'[p], c)
  <2>1. /\ SentMap[p] = win[p].sent /\ SentMap'[p] = win'[p].sent
        /\ KnownMap[p] = Covered(win[p].credited)
        /\ KnownMap'[p] = Covered(win'[p].credited)
        /\ DOMAIN SentMap = Peers /\ DOMAIN KnownMap = Peers
    BY <1>1, Zenon DEF SentMap, KnownMap
  <2>2. win[p].sent \in Nat /\ \A r \in Peers : SentMap[r] \in Nat
    BY <1>1, SMTT(30) DEF Inductive, TypeOK, IsWindow, SentMap
  <2>3. SentMap = [r \in Peers |-> SentMap[r]] /\ KnownMap = [r \in Peers |-> KnownMap[r]]
    BY Zenon DEF SentMap, KnownMap
  <2>4. SentMap'[p] >= SentMap[p] /\ KnownMap[p] \subseteq KnownMap'[p]
    BY <1>1, <2>2, <2>3, StepSimulation
  <2>5. /\ win[p].credited.floor \in Nat /\ win'[p].credited.floor \in Nat
        /\ win'[p].sent \in Nat
        /\ DOMAIN win[p].tx = (win[p].credited.floor + 1)..win[p].sent
        /\ DOMAIN win'[p].tx = (win'[p].credited.floor + 1)..win'[p].sent
    BY <1>1, SMTT(30) DEF Inductive, TypeOK, IsWindow, SendHalf, Coverage
  <2>6. \A c \in DOMAIN win[p].tx \ DOMAIN win'[p].tx : IsCredited(win'[p], c)
    BY <2>1, <2>2, <2>4, <2>5, SMTT(30) DEF IsCredited, Contains
  <2> QED BY <2>1, <2>4, <2>6, Zenon
<1>2. Inductive /\ Inductive' /\ [Next]_vars
        => [\A p \in Peers :
              /\ Covered(win[p].credited) \subseteq Covered(win'[p].credited)
              /\ \A c \in DOMAIN win[p].tx \ DOMAIN win'[p].tx :
                    IsCredited(win'[p], c)]_vars
  BY <1>1, Zenon
<1> QED BY <1>2, InductiveInvariant, PTL DEF Spec, CreditNeverRetreats

\* Every counter sent is credited, under repair, or reported as lost with the
\* session (recovery_required): only a volatile entry may be without a packet.
THEOREM NothingAbandoned == Spec => []NoCounterAbandoned
<1>1. Inductive => NoCounterAbandoned
  <2> SUFFICES ASSUME Inductive, NEW p \in Peers, NEW c \in 1..win[p].sent,
                      ~IsCredited(win[p], c), c \notin Retries(win[p])
               PROVE  RecoveryRequired(win[p], now)
    BY Zenon DEF NoCounterAbandoned
  <2>1. /\ win[p].sent \in Nat /\ win[p].credited.floor \in Nat
        /\ DOMAIN win[p].tx = (win[p].credited.floor + 1)..win[p].sent
    BY Zenon DEF Inductive, TypeOK, IsWindow, SendHalf, Coverage
  <2>2. ~Contains(win[p].credited, c)
    BY Zenon DEF IsCredited
  <2>3. c \in DOMAIN win[p].tx
    BY <2>1, <2>2 DEF Contains
  <2>4. ~win[p].tx[c].packet
    BY <2>2, <2>3, Zenon DEF Retries
  <2>5. win[p].tx[c].volatile
    BY <2>3, <2>4, SMTT(30) DEF Inductive, SendHalf, EntryOK
  <2> QED BY <2>2, <2>3, <2>4, <2>5, Zenon DEF RecoveryRequired
<1> QED BY <1>1, InductiveInvariant, PTL
=============================================================================
