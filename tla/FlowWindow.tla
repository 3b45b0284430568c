------------------------------ MODULE FlowWindow ------------------------------
(***************************************************************************)
(* The GC/2 counter window of one session: crates/protocol/src/flow.rs and  *)
(* its archive form, flow/storage.rs.                                       *)
(*                                                                          *)
(* A Coverage is the code's (floor, mask) pair: every counter up to floor,  *)
(* and floor + o for every offset o in mask (bit o - 1 of the u64).  A      *)
(* Window holds the sending half (sent, credited, tx) and the receiving     *)
(* half (received, rx).  Cryptography is symbolic: the authority of counter *)
(* c is c itself, a credit is the pair of its reference and its coverage,   *)
(* and a packet is present or absent.  The u64 overflow errors are left     *)
(* out: no run of a session reaches 2^64 frames.                            *)
(***************************************************************************)
EXTENDS Integers, FiniteSets

CONSTANTS
  MAX_SKIP,      \* crypto session: message keys kept for skipped frames (64)
  RESERVE,       \* counters each lower purpose leaves to the next one (8)
  SKIP_KEY_TTL   \* life of a skipped message key, in ticks (24 h)

ASSUME FlowAssumption ==
  /\ MAX_SKIP \in Nat
  /\ RESERVE \in Nat
  /\ 2 * RESERVE + 1 < MAX_SKIP
  /\ SKIP_KEY_TTL \in Nat \ {0}

COUNTER_WINDOW == MAX_SKIP - 1
Offsets == 1..COUNTER_WINDOW
Purpose == {"Bulk", "Interactive", "Control"}

Limit(purpose) ==
  IF purpose = "Bulk" THEN COUNTER_WINDOW - 2 * RESERVE
  ELSE IF purpose = "Interactive" THEN COUNTER_WINDOW - RESERVE
  ELSE COUNTER_WINDOW

-----------------------------------------------------------------------------
(* Coverage *)

Coverage == [floor : Nat, mask : SUBSET Offsets]
NoCoverage == [floor |-> 0, mask |-> {}]

\* The set of counters a coverage stands for.
Covered(cov) == (1..cov.floor) \cup {cov.floor + o : o \in cov.mask}

\* The highest set bit of a mask, 0 when none is set.
Top(mask) ==
  CHOOSE t \in {0} \cup mask : \A o \in mask : o <= t

Highest(cov) == cov.floor + Top(cov.mask)
\* Mutant: the nonce counts the mask only.
Bug_CountMask(cov) == Cardinality(cov.mask)

Count(cov) == cov.floor + Cardinality(cov.mask)
Contains(cov, counter) ==
  counter <= cov.floor \/ counter - cov.floor \in cov.mask

\* The number of one bits at the low end of a mask.
LowOnes(mask) ==
  CHOOSE k \in 0..COUNTER_WINDOW : k + 1 \notin mask /\ 1..k \subseteq mask

\* `while mask & 1 != 0 { floor += 1; mask >>= 1 }`
Absorb(floor, mask) ==
  LET k == LowOnes(mask)
  IN  [floor |-> floor + k, mask |-> {o \in Offsets : o + k \in mask}]

Acceptable(cov, counter) ==
  /\ counter - cov.floor \in Offsets
  /\ ~Contains(cov, counter)

Accept(cov, counter) == Absorb(cov.floor, cov.mask \cup {counter - cov.floor})

\* Canonical form: the lowest bit is clear and no bit is beyond the window.
Valid(cov) == 1 \notin cov.mask /\ cov.mask \subseteq Offsets

-----------------------------------------------------------------------------
(* Window *)

NoCredit == [floor |-> 0, mask |-> {1}]   \* no sealed snapshot: not a valid coverage
Sent == [purpose : Purpose, sent_unix : Nat, volatile : BOOLEAN, packet : BOOLEAN]

Window(sent, credited, received, tx, rx) ==
  [sent |-> sent, credited |-> credited, received |-> received, tx |-> tx, rx |-> rx]

IsWindow(w) ==
  /\ w = Window(w.sent, w.credited, w.received, w.tx, w.rx)
  /\ w.sent \in Nat
  /\ w.credited \in Coverage
  /\ w.received \in Coverage
  /\ DOMAIN w.tx \subseteq Nat /\ w.tx \in [DOMAIN w.tx -> Sent]
  /\ DOMAIN w.rx \subseteq Nat /\ w.rx \in [DOMAIN w.rx -> Coverage]

NewWindow ==
  Window(0, NoCoverage, NoCoverage, [c \in {} |-> 0], [c \in {} |-> NoCredit])

IsCredited(w, counter) == counter \in 1..w.sent /\ Contains(w.credited, counter)

\* Mutant: one tick too patient.
Bug_RepairExpiredLate(w, now) ==
  \E c \in DOMAIN w.tx : now - w.tx[c].sent_unix > SKIP_KEY_TTL

RepairExpired(w, now) ==
  \E c \in DOMAIN w.tx : now - w.tx[c].sent_unix >= SKIP_KEY_TTL

\* Mutant: a lost volatile packet is forgotten.
Bug_RecoveryByAgeOnly(w, now) == RepairExpired(w, now)

RecoveryRequired(w, now) ==
  \/ RepairExpired(w, now)
  \/ \E c \in DOMAIN w.tx :
        w.tx[c].volatile /\ ~w.tx[c].packet /\ ~Contains(w.credited, c)

\* Mutant: the counter about to be used is not counted.
Bug_HasRoomOneMore(w, purpose) == w.sent - w.credited.floor <= Limit(purpose)

HasRoom(w, purpose) == w.sent + 1 - w.credited.floor <= Limit(purpose)

\* record_sent, and the volatile mark prepare_send_inner puts on the entry.
RecordSent(w, purpose, volatile, now) ==
  LET c == w.sent + 1
      entry == [purpose |-> purpose, sent_unix |-> now,
                volatile |-> volatile, packet |-> TRUE]
      tx == [k \in DOMAIN w.tx \cup {c} |-> IF k = c THEN entry ELSE w.tx[k]]
  IN  Window(c, w.credited, w.received, tx, w.rx)

\* Mutant: one receipt authority too few is kept.
Bug_ReceiptFloorHigh(received) ==
  LET low == Highest(received) - (COUNTER_WINDOW - 2)
  IN  IF low < 0 THEN 0 ELSE low

\* The first counter whose receipt authority is kept (saturating subtraction).
ReceiptFloor(received) ==
  LET low == Highest(received) - (COUNTER_WINDOW - 1)
  IN  IF low < 0 THEN 0 ELSE low

RecordAuthenticated(w, counter) ==
  LET received == Accept(w.received, counter)
      kept == {k \in DOMAIN w.rx \cup {counter} : k >= ReceiptFloor(received)}
      rx == [k \in kept |-> IF k = counter THEN NoCredit ELSE w.rx[k]]
  IN  Window(w.sent, w.credited, received, w.tx, rx)

\* credit_for_duplicate answers only for a counter whose authority it still has;
\* the snapshot is sealed under the last entry's authority, with the number of
\* counters covered as the nonce, and is reused while that number is the same.
CanCredit(w, counter) == counter \in DOMAIN w.rx

\* Mutant: the first retained authority instead of the last.
Bug_FirstAuthority(w) == CHOOSE c \in DOMAIN w.rx : \A k \in DOMAIN w.rx : c <= k

LastAuthority(w) == Top(DOMAIN w.rx)

CreditSnapshot(w) ==
  LET cached == w.rx[LastAuthority(w)]
  IN  IF cached # NoCredit /\ Count(cached) = Count(w.received)
        THEN cached ELSE w.received

CacheCredit(w) ==
  Window(w.sent, w.credited, w.received, w.tx,
         [w.rx EXCEPT ![LastAuthority(w)] = CreditSnapshot(w)])

\* Mutant: a credit with an older floor is merged too.
Bug_CreditUsableStale(w, ref, cov) ==
  ref \in DOMAIN w.tx /\ Valid(cov) /\ Highest(cov) <= w.sent

\* accept_credit: the early returns, then the merge.
CreditUsable(w, ref, cov) ==
  /\ ref \in DOMAIN w.tx
  /\ Valid(cov)
  /\ Highest(cov) <= w.sent
  /\ cov.floor >= w.credited.floor

\* Mutant: the previous mask is not shifted.
Bug_MergedUnshifted(w, cov) == Absorb(cov.floor, cov.mask \cup w.credited.mask)

MergedCredit(w, cov) ==
  LET advance == cov.floor - w.credited.floor
      previous == {o \in Offsets : o + advance \in w.credited.mask}
  IN  Absorb(cov.floor, cov.mask \cup previous)

\* Mutant: sent entries are retired one late.
Bug_AcceptCreditKeepsFloor(w, cov) ==
  LET credited == MergedCredit(w, cov)
      tx == [c \in {k \in DOMAIN w.tx : k >= credited.floor} |-> w.tx[c]]
  IN  Window(w.sent, credited, w.received, tx, w.rx)

AcceptCredit(w, cov) ==
  LET credited == MergedCredit(w, cov)
      tx == [c \in {k \in DOMAIN w.tx : k > credited.floor} |-> w.tx[c]]
  IN  Window(w.sent, credited, w.received, tx, w.rx)

\* Counters whose exact packet is sent again.
Retries(w) == {c \in DOMAIN w.tx : ~Contains(w.credited, c) /\ w.tx[c].packet}

-----------------------------------------------------------------------------
(* The archive: encode_private keeps no packet of a volatile entry; the      *)
(* checks decode_private makes on what it reads back.                        *)

EncodePrivate(w) ==
  Window(w.sent, w.credited, w.received,
         [c \in DOMAIN w.tx |-> [w.tx[c] EXCEPT !.packet = ~w.tx[c].volatile]],
         w.rx)

DecodeAcceptsTx(w) ==
  /\ Valid(w.credited)
  /\ Highest(w.credited) <= w.sent
  /\ DOMAIN w.tx = (w.credited.floor + 1)..w.sent
  /\ w.sent - w.credited.floor <= COUNTER_WINDOW
  /\ \A c \in DOMAIN w.tx :
        /\ w.tx[c].sent_unix > 0
        /\ w.tx[c].volatile => w.tx[c].purpose # "Control"
        /\ w.tx[c].packet = ~w.tx[c].volatile

DecodeAcceptsRx(w) ==
  LET highest == Highest(w.received)
      low == IF ReceiptFloor(w.received) = 0 THEN 1 ELSE ReceiptFloor(w.received)
  IN  /\ Valid(w.received)
      /\ DOMAIN w.rx = {c \in low..highest : Contains(w.received, c)}
      /\ \A c \in DOMAIN w.rx :
            \/ w.rx[c] = NoCredit
            \/ /\ Valid(w.rx[c])
               /\ w.rx[c].floor <= w.received.floor
               /\ Highest(w.rx[c]) <= highest
               /\ Contains(w.rx[c], c)
               /\ \A o \in w.rx[c].mask : Contains(w.received, w.rx[c].floor + o)

DecodeAccepts(w) == DecodeAcceptsTx(w) /\ DecodeAcceptsRx(w)

=============================================================================
