-------------------------- MODULE SwarmTransferProofs --------------------------
(***************************************************************************)
(* The members of a swarm keep the pieces they count, for every number of  *)
(* members, pieces and blocks, any writes that fail, restarts over damaged *)
(* pieces, and records lost, repeated by retries or out of order.          *)
(***************************************************************************)
EXTENDS SwarmTransfer, TLAPS

-----------------------------------------------------------------------------
(* What every operation of the piece cache preserves, whichever of its        *)
(* writes fails.                                                              *)

IsState(st) == st = [status |-> st.status, have |-> st.have, by |-> st.by]

IsCache(c) ==
    /\ c = [entry |-> c.entry, journal |-> c.journal, files |-> c.files, faults |-> c.faults]
    /\ IsState(c.entry) /\ IsState(c.journal)

\* A state that may be written over these piece files.
Fits(st, files) ==
    /\ IsState(st)
    /\ st.have \subseteq files
    /\ st.status = "complete" => st.have = Pieces

Gone(st) == st.status \in {"absent", "cancelled"}

\* Backed is inductive; that a restart keeps progress needs more: the journal it
\* reads holds what the memory counts, unless it is a tombstone.
Sound(c) ==
    /\ IsCache(c) /\ Backed(c)
    /\ Gone(c.journal) \/ c.entry.have \subseteq c.journal.have

\* What an operation may make of a cache: pieces are given up with the share, or
\* never.
Follows(c, d) == Sound(d) /\ (Gone(d.entry) \/ c.entry.have \subseteq d.entry.have)

-----------------------------------------------------------------------------
(* The cache's operations *)

\* A write leaves the old or the new cache, and reports success only with the new one.
LEMMA WriteProps ==
  ASSUME NEW c, NEW w, Sound(c), Sound(w), NEW o \in Write(c, w)
  PROVE  /\ Sound(o.c) /\ o.res \in {"ok", "io"}
         /\ o.res = "ok" => o.c = w
         /\ \E x \in {c, w} : o.c.entry = x.entry /\ o.c.journal = x.journal /\ o.c.files = x.files
<1>1. CASE o = [c |-> w, res |-> "ok"]
  BY <1>1, Zenon
<1>2. ASSUME NEW x \in {c, w}, o = [c |-> [x EXCEPT !.faults = c.faults - 1], res |-> "io"]
      PROVE  /\ Sound(o.c) /\ o.res = "io"
             /\ o.c.entry = x.entry /\ o.c.journal = x.journal /\ o.c.files = x.files
  <2>1. Sound(x) /\ x = [entry |-> x.entry, journal |-> x.journal, files |-> x.files, faults |-> x.faults]
    BY <1>2, Zenon DEF Sound, IsCache
  <2>2. o.c = [entry |-> x.entry, journal |-> x.journal, files |-> x.files, faults |-> c.faults - 1]
    BY <1>2, <2>1, Zenon
  <2>3. o.res = "io" /\ o.c.entry = x.entry /\ o.c.journal = x.journal /\ o.c.files = x.files
    BY <1>2, <2>2, Zenon
  <2> QED BY <2>1, <2>2, <2>3, Zenon DEF Sound, IsCache, Backed
<1> QED BY <1>1, <1>2, Zenon DEF Write, Done

\* Two fields of a state, and two of a cache, written at once.
LEMMA StateUpdate ==
  ASSUME NEW r, IsState(r), NEW h, NEW s
  PROVE  [r EXCEPT !.have = h, !.status = s] = [status |-> s, have |-> h, by |-> r.by]
<1> DEFINE t == [r EXCEPT !.have = h]
<1>1. t = [status |-> r.status, have |-> h, by |-> r.by]
  BY DEF IsState
<1>2. [r EXCEPT !.have = h, !.status = s] = [t EXCEPT !.status = s]
  BY Zenon
<1> HIDE DEF t
<1>3. [t EXCEPT !.status = s] = [status |-> s, have |-> h, by |-> r.by]
  BY <1>1
<1> QED BY <1>2, <1>3, Zenon

\* Cache::replace sets journal and entry, or fails with the entry as it was.
LEMMA ReplaceProps ==
  ASSUME NEW c, Sound(c), NEW st, Fits(st, c.files), Gone(st) \/ c.entry.have \subseteq st.have,
         NEW o \in replace(c, st)
  PROVE  /\ Sound(o.c) /\ o.res \in {"ok", "io"} /\ o.c.files = c.files
         /\ o.res = "ok" => o.c.entry = st /\ o.c.journal = st
         /\ o.res = "io" => o.c.entry = c.entry
<1> DEFINE w == [c EXCEPT !.journal = st]
           f == [w EXCEPT !.entry = st]
<1>1. c = [entry |-> c.entry, journal |-> c.journal, files |-> c.files, faults |-> c.faults]
  BY Zenon DEF Sound, IsCache
<1>a. w = [entry |-> c.entry, journal |-> st, files |-> c.files, faults |-> c.faults]
  BY <1>1
<1>b. f = [entry |-> st, journal |-> st, files |-> c.files, faults |-> c.faults]
  <2> HIDE DEF w
  <2> QED BY <1>a
<1>2. /\ w = [entry |-> c.entry, journal |-> st, files |-> c.files, faults |-> c.faults]
      /\ f = [entry |-> st, journal |-> st, files |-> c.files, faults |-> c.faults]
  BY <1>a, <1>b, Zenon
<1>3. PICK p \in Write(c, w) :
        o \in IF p.res = "ok" THEN {[c |-> [p.c EXCEPT !.entry = st], res |-> "ok"]} ELSE {p}
  BY Zenon DEF replace, Then, Done
<1> HIDE DEF w, f
<1>4. Sound(w)
  BY <1>2, Zenon DEF Sound, IsCache, Backed, Fits, Gone
<1>5. Sound(f)
  BY <1>2, Zenon DEF Sound, IsCache, Backed, Fits, Gone
<1>6. /\ Sound(p.c) /\ p.res \in {"ok", "io"} /\ (p.res = "ok" => p.c = w)
      /\ p.c.entry = c.entry /\ p.c.files = c.files
  BY <1>2, <1>4, WriteProps
<1>7. CASE p.res = "ok"
  <2>1. o = [c |-> f, res |-> "ok"]
    BY <1>3, <1>6, <1>7, Zenon DEF f
  <2> QED BY <1>2, <1>5, <2>1, Zenon
<1>8. CASE p.res = "io"
  BY <1>3, <1>6, <1>8, Zenon
<1> QED BY <1>6, <1>7, <1>8, Zenon

\* A state that gives nothing up.
LEMMA ReplaceFollows ==
  ASSUME NEW c, Sound(c), NEW st, Fits(st, c.files), c.entry.have \subseteq st.have,
         NEW o \in replace(c, st)
  PROVE  Follows(c, o.c)
BY ReplaceProps DEF Follows

\* The entry of a sound cache fits its files.
LEMMA EntryFits == ASSUME NEW c, Sound(c) PROVE Fits(c.entry, c.files)
BY Zenon DEF Sound, IsCache, Backed, Fits

\* A sound cache may stay as it is.
LEMMA SelfFollows == ASSUME NEW c, Sound(c) PROVE Follows(c, c)
BY Zenon DEF Follows

\* Cache::offer keeps the cache sound.
LEMMA OfferFollows ==
  ASSUME NEW c, Sound(c), NEW o \in offer(c) PROVE Follows(c, o.c)
<1>1. CASE c.entry # Absent
  BY <1>1, SelfFollows DEF offer, Done
<1>2. CASE c.entry = Absent
  <2> DEFINE st == [Absent EXCEPT !.status = "offered"]
  <2>1. Fits(st, c.files) /\ c.entry.have \subseteq st.have
    BY <1>2 DEF Fits, IsState, Absent
  <2>2. o \in replace(c, st)
    BY <1>2, Zenon DEF offer
  <2> HIDE DEF st
  <2> QED BY <2>1, <2>2, ReplaceFollows, Zenon
<1> QED BY <1>1, <1>2, Zenon

\* An operation that only moves the status, and not to complete.
LEMMA StatusFollows ==
  ASSUME NEW c, Sound(c), NEW s, s # "complete" \/ c.entry.have = Pieces,
         NEW o \in replace(c, [c.entry EXCEPT !.status = s])
  PROVE  Follows(c, o.c)
<1> DEFINE st == [c.entry EXCEPT !.status = s]
<1>1. st = [status |-> s, have |-> c.entry.have, by |-> c.entry.by]
  BY DEF Sound, IsCache, IsState
<1> HIDE DEF st
<1>2. Fits(st, c.files) /\ c.entry.have \subseteq st.have
  BY <1>1, EntryFits, Zenon DEF Fits, IsState
<1> QED BY <1>2, ReplaceFollows, Zenon DEF st

\* Cache::accept keeps the cache sound and its pieces.
LEMMA AcceptFollows ==
  ASSUME NEW c, Sound(c), NEW o \in accept(c) PROVE Follows(c, o.c)
<1>1. o = [c |-> c, res |-> "ok"] \/ o = [c |-> c, res |-> "refused"]
        \/ o \in replace(c, [c.entry EXCEPT !.status = "downloading"])
  BY Zenon DEF accept, Done, Refused
<1> QED BY <1>1, SelfFollows, StatusFollows

\* Cache::pause keeps the cache sound and its pieces.
LEMMA PauseFollows ==
  ASSUME NEW c, Sound(c), NEW o \in pause(c) PROVE Follows(c, o.c)
<1>1. o = [c |-> c, res |-> "ok"] \/ o \in replace(c, [c.entry EXCEPT !.status = "paused"])
  BY Zenon DEF pause, Done
<1> QED BY <1>1, SelfFollows, StatusFollows

\* Cache::failure keeps the cache sound and its pieces.
LEMMA FailureFollows ==
  ASSUME NEW c, Sound(c), NEW o \in failure(c) PROVE Follows(c, o.c)
<1> DEFINE s == IF c.entry.status = "downloading" THEN "paused" ELSE c.entry.status
<1>1. o \in replace(c, [c.entry EXCEPT !.status = s])
  BY Zenon DEF failure
<1>2. s # "complete" \/ c.entry.have = Pieces
  BY EntryFits, Zenon DEF Fits
<1> HIDE DEF s
<1> QED BY <1>1, <1>2, StatusFollows, Zenon

\* Cache::receipt keeps the cache sound and its pieces.
LEMMA ReceiptFollows ==
  ASSUME NEW c, Sound(c), NEW member, NEW o \in receipt(c, member) PROVE Follows(c, o.c)
<1> DEFINE st == [c.entry EXCEPT !.by = @ \cup {member}]
<1>1. o = [c |-> c, res |-> "ok"] \/ o \in replace(c, st)
  BY Zenon DEF receipt, Done
<1>2. st = [status |-> c.entry.status, have |-> c.entry.have, by |-> c.entry.by \cup {member}]
  BY DEF Sound, IsCache, IsState
<1> HIDE DEF st
<1>3. Fits(st, c.files) /\ c.entry.have \subseteq st.have
  BY <1>2, EntryFits, Zenon DEF Fits, IsState
<1> QED BY <1>1, <1>3, SelfFollows, ReplaceFollows

\* The tombstone is written before the bytes go.
LEMMA CancelFollows ==
  ASSUME NEW c, Sound(c), NEW o \in cancel(c)
  PROVE  /\ Follows(c, o.c)
         /\ o.res = "ok" => o.c.entry.status = "cancelled" /\ o.c.entry.have = {}
                            /\ o.c.files = {}
<1> DEFINE st == [c.entry EXCEPT !.status = "cancelled", !.have = {}]
<1>1. CASE c.entry = Absent
  BY <1>1, SelfFollows DEF cancel, Refused
<1>2. CASE c.entry # Absent
  <2>0. IsState(c.entry) /\ st = [c.entry EXCEPT !.have = {}, !.status = "cancelled"]
    BY Zenon DEF Sound, IsCache
  <2>1. st = [status |-> "cancelled", have |-> {}, by |-> c.entry.by]
    <3> HIDE DEF st
    <3> QED BY <2>0, StateUpdate, Zenon
  <2>2. PICK p \in replace(c, st) : o \in IF p.res = "ok" THEN remove_pieces(p.c) ELSE {p}
    BY <1>2, Zenon DEF cancel, Then
  <2> HIDE DEF st
  <2>3. Fits(st, c.files) /\ Gone(st)
    BY <2>1, Zenon DEF Fits, IsState, Gone
  <2>4. /\ Sound(p.c) /\ p.res \in {"ok", "io"}
        /\ (p.res = "ok" => p.c.entry = st /\ p.c.journal = st) /\ (p.res = "io" => p.c.entry = c.entry)
    BY <2>3, ReplaceProps
  <2>5. CASE p.res = "io"
    BY <2>2, <2>4, <2>5, Zenon DEF Follows
  <2>6. CASE p.res = "ok"
    <3> DEFINE w == [p.c EXCEPT !.files = {}]
    <3>1. o \in Write(p.c, w)
      BY <2>2, <2>6, Zenon DEF remove_pieces
    <3>2. w = [entry |-> p.c.entry, journal |-> p.c.journal, files |-> {}, faults |-> p.c.faults]
      BY <2>4 DEF Sound, IsCache
    <3> HIDE DEF w
    <3>3. p.c.journal = st /\ p.c.entry = st
      BY <2>4, <2>6, Zenon
    <3>4. Sound(w)
      BY <2>1, <3>2, <3>3 DEF Sound, IsCache, IsState, Backed
    <3>5. Sound(o.c) /\ o.c.entry = st /\ (o.res = "ok" => o.c = w)
      BY <2>4, <3>1, <3>2, <3>3, <3>4, WriteProps
    <3> QED BY <2>1, <3>2, <3>5 DEF Follows, Gone
  <2> QED BY <2>4, <2>5, <2>6, Zenon
<1> QED BY <1>1, <1>2, Zenon

\* Directory and entry go last.
LEMMA RemoveFollows ==
  ASSUME NEW c, Sound(c), NEW o \in remove(c) PROVE Follows(c, o.c)
<1>1. PICK p \in cancel(c) :
        o \in IF p.res # "ok" THEN {p}
              ELSE UNION {IF q.res = "ok" THEN {[c |-> [q.c EXCEPT !.entry = Absent], res |-> "ok"]} ELSE {q} :
                            q \in Write(p.c, [p.c EXCEPT !.journal = Absent])}
  BY Zenon DEF remove, Then, Done
<1>2. /\ Follows(c, p.c)
      /\ p.res = "ok" => p.c.entry.status = "cancelled" /\ p.c.entry.have = {} /\ p.c.files = {}
  BY CancelFollows, Zenon
<1>3. CASE p.res # "ok"
  BY <1>1, <1>2, <1>3, Zenon
<1>4. CASE p.res = "ok"
  <2> DEFINE w == [p.c EXCEPT !.journal = Absent]
  <2>1. PICK q \in Write(p.c, w) :
          o \in IF q.res = "ok" THEN {[c |-> [q.c EXCEPT !.entry = Absent], res |-> "ok"]} ELSE {q}
    BY <1>1, <1>4, Zenon
  <2>2. Sound(p.c) /\ p.c = [entry |-> p.c.entry, journal |-> p.c.journal, files |-> p.c.files, faults |-> p.c.faults]
    BY <1>2, Zenon DEF Follows, Sound, IsCache
  <2>3. w = [entry |-> p.c.entry, journal |-> Absent, files |-> p.c.files, faults |-> p.c.faults]
    BY <2>2
  <2>4. IsState(Absent) /\ Absent.have = {} /\ Absent.status = "absent"
    BY Zenon DEF IsState, Absent
  <2> HIDE DEF w
  <2>5. Sound(w)
    BY <2>2, <2>3, <2>4, Zenon DEF Sound, IsCache, Backed, Gone
  <2>6. Sound(q.c) /\ q.res \in {"ok", "io"} /\ (q.res = "ok" => q.c = w) /\ q.c.entry = p.c.entry
    BY <2>2, <2>3, <2>5, WriteProps
  <2>7. CASE q.res = "ok"
    <3> DEFINE f == [q.c EXCEPT !.entry = Absent]
    <3>1. f = [entry |-> Absent, journal |-> Absent, files |-> p.c.files, faults |-> p.c.faults]
      BY <2>3, <2>6, <2>7
    <3>2. o = [c |-> f, res |-> "ok"]
      BY <2>1, <2>7, Zenon
    <3> HIDE DEF f
    <3>3. Sound(f)
      BY <2>4, <3>1, Zenon DEF Sound, IsCache, Backed, Gone
    <3> QED BY <2>4, <3>1, <3>2, <3>3, Zenon DEF Follows, Gone
  <2>8. CASE q.res = "io"
    BY <1>2, <1>4, <2>1, <2>6, <2>8, Zenon DEF Follows, Gone
  <2> QED BY <2>6, <2>7, <2>8, Zenon
<1> QED BY <1>3, <1>4, Zenon

\* Cache::begin_import keeps the cache sound and its pieces.
LEMMA BeginImportFollows ==
  ASSUME NEW c, Sound(c), NEW o \in begin_import(c) PROVE Follows(c, o.c)
<1> DEFINE st == [Absent EXCEPT !.status = "importing"]
<1>1. o = [c |-> c, res |-> "ok"] \/ o = [c |-> c, res |-> "refused"]
        \/ (c.entry = Absent /\ o \in replace(c, st))
  BY Zenon DEF begin_import, Done, Refused
<1>2. c.entry = Absent => Fits(st, c.files) /\ c.entry.have \subseteq st.have
  BY DEF Fits, IsState, Absent
<1> HIDE DEF st
<1> QED BY <1>1, <1>2, SelfFollows, ReplaceFollows

\* Cache::finish_import completes only a share with every piece.
LEMMA FinishImportFollows ==
  ASSUME NEW c, Sound(c), NEW o \in finish_import(c) PROVE Follows(c, o.c)
<1>1. o = [c |-> c, res |-> "ok"] \/ o = [c |-> c, res |-> "refused"]
        \/ (c.entry.have = Pieces /\ o \in replace(c, [c.entry EXCEPT !.status = "complete"]))
  BY Zenon DEF finish_import, Done, Refused
<1> QED BY <1>1, SelfFollows, StatusFollows

\* Cache::write_piece adds one file or fails, and leaves entry and journal alone.
LEMMA WritePieceProps ==
  ASSUME NEW c, Sound(c), NEW i, NEW o \in write_piece(c, i)
  PROVE  /\ Sound(o.c) /\ o.res \in {"ok", "io"}
         /\ o.c.entry = c.entry /\ c.files \subseteq o.c.files
         /\ o.res = "ok" => i \in o.c.files
<1> DEFINE w == [c EXCEPT !.files = @ \cup {i}]
<1>1. Sound(c) /\ c = [entry |-> c.entry, journal |-> c.journal, files |-> c.files, faults |-> c.faults]
  BY Zenon DEF Sound, IsCache
<1>2. w = [entry |-> c.entry, journal |-> c.journal, files |-> c.files \cup {i}, faults |-> c.faults]
  BY <1>1
<1>3. o \in Write(c, w)
  BY Zenon DEF write_piece
<1> HIDE DEF w
<1>4. Sound(w)
  BY <1>1, <1>2, Zenon DEF Sound, IsCache, Backed
<1> QED BY <1>1, <1>2, <1>3, <1>4, WriteProps

\* A piece is on disk before it is counted.
LEMMA CountFollows ==
  ASSUME NEW c, Sound(c), NEW i \in c.files, NEW s,
         s = "complete" => c.entry.have \cup {i} = Pieces,
         NEW o \in replace(c, [c.entry EXCEPT !.have = c.entry.have \cup {i}, !.status = s])
  PROVE  Follows(c, o.c) /\ (o.res = "io" => o.c.entry = c.entry)
<1> DEFINE st == [c.entry EXCEPT !.have = c.entry.have \cup {i}, !.status = s]
<1>0. IsState(c.entry)
  BY Zenon DEF Sound, IsCache
<1>1. st = [status |-> s, have |-> c.entry.have \cup {i}, by |-> c.entry.by]
  BY <1>0, StateUpdate, Zenon
<1> HIDE DEF st
<1>2. Fits(st, c.files) /\ c.entry.have \subseteq st.have
  BY <1>1, EntryFits, Zenon DEF Fits, IsState
<1>3. o \in replace(c, st)
  BY Zenon DEF st
<1> QED BY <1>2, <1>3, ReplaceProps DEF Follows

\* Cache::import_piece counts a piece only once its file is there.
LEMMA ImportPieceFollows ==
  ASSUME NEW c, Sound(c), NEW i, NEW o \in import_piece(c, i) PROVE Follows(c, o.c)
<1>1. CASE c.entry.status # "importing"
  BY <1>1, SelfFollows DEF import_piece, Refused
<1>2. CASE c.entry.status = "importing"
  <2>1. PICK p \in IF i \in c.files THEN Done(c) ELSE write_piece(c, i) :
          o \in IF p.res = "ok" THEN replace(p.c, [p.c.entry EXCEPT !.have = @ \cup {i}]) ELSE {p}
    BY <1>2, Zenon DEF import_piece, Then
  <2>2. /\ Sound(p.c) /\ p.c.entry = c.entry /\ p.res \in {"ok", "io"}
        /\ p.res = "ok" => i \in p.c.files
    BY <2>1, WritePieceProps DEF Done
  <2>3. CASE p.res = "io"
    BY <2>1, <2>2, <2>3, Zenon DEF Follows
  <2>4. CASE p.res = "ok"
    <3>0. p.c.entry = [status |-> p.c.entry.status, have |-> p.c.entry.have, by |-> p.c.entry.by]
      BY <2>2, Zenon DEF Sound, IsCache, IsState
    <3>1. [p.c.entry EXCEPT !.have = @ \cup {i}] =
            [p.c.entry EXCEPT !.have = p.c.entry.have \cup {i}, !.status = "importing"]
      BY <1>2, <2>2, <3>0, Zenon
    <3>2. Follows(p.c, o.c)
      BY <2>1, <2>2, <2>4, <3>1, CountFollows, Zenon
    <3> QED BY <2>2, <3>2, Zenon DEF Follows
  <2> QED BY <2>2, <2>3, <2>4, Zenon
<1> QED BY <1>1, <1>2, Zenon

\* Cache::put counts a piece only once its file is there.
LEMMA PutFollows ==
  ASSUME NEW c, Sound(c), NEW i, NEW o \in put(c, i)
  PROVE  Follows(c, o.c) /\ (o.res = "io" => o.c.entry = c.entry)
<1> DEFINE have == c.entry.have \cup {i}
           s == IF have = Pieces THEN "complete" ELSE c.entry.status
<1>1. CASE o.c = c /\ o.res \in {"refused", "held"}
  BY <1>1, SelfFollows, Zenon
<1>2. ASSUME i \in Pieces, NEW p \in write_piece(c, i),
             o \in IF p.res = "ok" THEN replace(p.c, [c.entry EXCEPT !.have = have, !.status = s]) ELSE {p}
      PROVE  Follows(c, o.c) /\ (o.res = "io" => o.c.entry = c.entry)
  <2>1. /\ Sound(p.c) /\ p.c.entry = c.entry /\ p.res \in {"ok", "io"}
        /\ p.res = "ok" => i \in p.c.files
    BY WritePieceProps, Zenon
  <2>2. CASE p.res = "io"
    BY <1>2, <2>1, <2>2, Zenon DEF Follows
  <2>3. CASE p.res = "ok"
    <3>1. o \in replace(p.c, [p.c.entry EXCEPT !.have = p.c.entry.have \cup {i}, !.status = s])
      BY <1>2, <2>1, <2>3, Zenon
    <3>2. s = "complete" => p.c.entry.have \cup {i} = Pieces
      BY <1>2, <2>1, EntryFits, Zenon DEF Fits
    <3>3. Follows(p.c, o.c) /\ (o.res = "io" => o.c.entry = p.c.entry)
      BY <2>1, <2>3, <3>1, <3>2, CountFollows, Zenon
    <3> QED BY <2>1, <3>3, Zenon DEF Follows
  <2> QED BY <2>1, <2>2, <2>3, Zenon
<1>3. \/ o \in Refused(c) \/ o = [c |-> c, res |-> "held"]
      \/ i \in Pieces /\ o \in Then(write_piece(c, i),
                                   LAMBDA d : replace(d, [c.entry EXCEPT !.have = have, !.status = s]))
  BY Zenon DEF put
<1>4. CASE o \in Refused(c) \/ o = [c |-> c, res |-> "held"]
  BY <1>1, <1>4 DEF Refused
<1>5. CASE i \in Pieces /\ o \in Then(write_piece(c, i),
                                   LAMBDA d : replace(d, [c.entry EXCEPT !.have = have, !.status = s]))
  <2>1. PICK p \in write_piece(c, i) :
          o \in IF p.res = "ok" THEN replace(p.c, [c.entry EXCEPT !.have = have, !.status = s]) ELSE {p}
    BY <1>5, Zenon DEF Then
  <2> HIDE DEF s, have
  <2> QED BY <1>2, <1>5, <2>1, Zenon
<1> QED BY <1>3, <1>4, <1>5, Zenon

\* A restart gives up the pieces whose bytes went bad, and no other.
LEMMA OpenKeeps ==
  ASSUME NEW c, Sound(c), NEW rotten
  PROVE  LET d == open(c, rotten)
         IN  /\ Sound(d)
             /\ Gone(d.entry) \/ c.entry.have \ d.entry.have \subseteq c.files \ d.files
<1> DEFINE j == c.journal
           files == IF j.status \in {"absent", "cancelled"} THEN {} ELSE c.files \ rotten
           kept == j.have \cap files
           s == IF kept = j.have \/ j.status = "importing" THEN j.status ELSE "paused"
           st == [j EXCEPT !.have = kept, !.status = s]
           d == open(c, rotten)
<1>1. /\ c = [entry |-> c.entry, journal |-> j, files |-> c.files, faults |-> c.faults]
      /\ IsState(j) /\ j.have \subseteq c.files /\ (j.status = "complete" => j.have = Pieces)
      /\ c.entry.have \subseteq c.files
      /\ Gone(j) \/ c.entry.have \subseteq j.have
  BY Zenon DEF Sound, IsCache, Backed
<1>2. d = [c EXCEPT !.entry = st, !.journal = st, !.files = files]
  BY Zenon DEF open
<1>3. st = [status |-> s, have |-> kept, by |-> j.by]
  <2>1. IsState(j)
    BY <1>1, Zenon
  <2> HIDE DEF j, s, kept
  <2> QED BY <2>1, StateUpdate, Zenon
<1> HIDE DEF st, d
<1>4. d = [entry |-> st, journal |-> st, files |-> files, faults |-> c.faults]
  <2> HIDE DEF j, files
  <2> DEFINE e1 == [c EXCEPT !.entry = st]
             e2 == [e1 EXCEPT !.journal = st]
  <2>1. d = [e2 EXCEPT !.files = files]
    BY <1>2, Zenon
  <2>2. e1 = [entry |-> st, journal |-> j, files |-> c.files, faults |-> c.faults]
    BY <1>1
  <2> HIDE DEF e1
  <2>3. e2 = [entry |-> st, journal |-> st, files |-> c.files, faults |-> c.faults]
    BY <2>2
  <2> HIDE DEF e2
  <2> QED BY <2>1, <2>3, Zenon
<1>5. st.status = s /\ st.have = kept /\ IsState(st)
  BY <1>3, Zenon DEF IsState
<1>6. d.entry = st /\ d.journal = st /\ d.files = files
  BY <1>4, Zenon
<1>7. Sound(d)
  <2>1. st.status = "complete" => st.have = Pieces
    BY <1>1, <1>5, Zenon
  <2> HIDE DEF j, files
  <2> QED BY <1>4, <1>5, <1>6, <2>1, Zenon DEF Sound, IsCache, Backed
<1>8. Gone(d.entry) \/ c.entry.have \ d.entry.have \subseteq c.files \ d.files
  BY <1>1, <1>5, <1>6, Zenon DEF Gone
<1> QED BY <1>7, <1>8, Zenon DEF d

-----------------------------------------------------------------------------
(* The engine, the network and the members *)

IsEngine(e) ==
    e = [cache |-> e.cache, members |-> e.members, sources |-> e.sources,
         inventories |-> e.inventories, pulls |-> e.pulls, backoff |-> e.backoff,
         discovery |-> e.discovery, refresh |-> e.refresh]

\* An engine over this cache.
Over(e, c) == IsEngine(e) /\ e.cache = c

Safe(e) == IsEngine(e) /\ Sound(e.cache)

\* What a step may make of an engine.
Succeeds(e, f) == IsEngine(f) /\ Follows(e.cache, f.cache)

\* HeldIsOnDisk with the record shapes, and the journal no older than the memory.
Held == engine = [n \in Nodes |-> engine[n]] /\ \A n \in Nodes : Safe(engine[n])

\* ProgressKept of one step.
Kept ==
    \A n \in Nodes :
        \/ Gone(engine'[n].cache.entry)
        \/ engine[n].cache.entry.have \ engine'[n].cache.entry.have
              \subseteq engine[n].cache.files \ engine'[n].cache.files

-----------------------------------------------------------------------------
(* The engine's steps leave the cache alone, except for its operations *)

\* Engine::send_finished does not touch the cache.
LEMMA SendFinishedKeeps ==
  ASSUME NEW e, IsEngine(e), NEW tokens, NEW timer
  PROVE  Over(send_finished(e, tokens, timer), e.cache)
<1> DEFINE p == {[q EXCEPT !.asked = {IF PieceToken(q, a.block) \in tokens
                                      THEN [a EXCEPT !.timer = timer] ELSE a : a \in @}] : q \in e.pulls}
           d == {IF DiscoveryToken(x) \in tokens
                 THEN [x EXCEPT !.state = "idle", !.generation = 0] ELSE x : x \in e.discovery}
<1>1. send_finished(e, tokens, timer) = [e EXCEPT !.pulls = p, !.discovery = d]
  BY Zenon DEF send_finished
<1> HIDE DEF p, d
<1> QED  BY <1>1, ZenonT(30) DEF Over, IsEngine

\* Engine::set_members does not touch the cache.
LEMMA SetMembersKeeps ==
  ASSUME NEW e, IsEngine(e), NEW n, NEW members
  PROVE  Over(set_members(e, n, members), e.cache)
<1> DEFINE known == IF n \in members THEN members \ {n} ELSE {}
           m == IF n \in members THEN members ELSE {}
           d == {x \in e.discovery : x.peer \in known}
           i == {x \in e.inventories : x[1] \in known}
           p == {q \in e.pulls : q.peer \in known}
           b == e.backoff \cap known
           s == e.sources \cap known
<1>1. set_members(e, n, members) =
          [e EXCEPT !.members = m, !.discovery = d, !.inventories = i, !.pulls = p,
                    !.backoff = b, !.sources = s]
  BY Zenon DEF set_members
<1> HIDE DEF m, d, i, p, b, s
<1> QED  BY <1>1, ZenonT(30) DEF Over, IsEngine

\* The first part of Engine::tick drops pulls and leaves the cache alone.
LEMMA SettleKeeps ==
  ASSUME NEW e, IsEngine(e), NEW n, NEW due
  PROVE  Over(Settle([e EXCEPT !.backoff = @ \ due.lapsed], n), e.cache)
BY ZenonT(30) DEF Settle, Over, IsEngine

\* The discovery part of Engine::tick leaves the cache alone.
LEMMA DiscoveringKeeps ==
  ASSUME NEW x, IsEngine(x.e), NEW n, NEW due, NEW ids
  PROVE  Over(Discovering(x, n, due, ids).e, x.e.cache)
BY ZenonT(30) DEF Discovering, Over, IsEngine

\* The refresh part of Engine::tick leaves the cache alone.
LEMMA RefreshingKeeps ==
  ASSUME NEW x, IsEngine(x.e), NEW n, NEW due
  PROVE  Over(Refreshing(x, n, due).e, x.e.cache)
BY ZenonT(30) DEF Refreshing, Over, IsEngine

\* The retries of Engine::tick leave the cache alone.
LEMMA RetryingKeeps ==
  ASSUME NEW x, IsEngine(x.e), NEW late
  PROVE  Over(Retrying(x, late).e, x.e.cache)
BY ZenonT(30) DEF Retrying, Over, IsEngine

\* New pulls leave the cache alone.
LEMMA FillKeeps ==
  ASSUME NEW x, IsEngine(x.e), NEW n, NEW ids, NEW t \in Fill(x, n, ids)
  PROVE  Over(t.e, x.e.cache)
BY DEF Fill, Over, IsEngine

\* Engine::tick leaves the cache alone.
LEMMA TickKeeps ==
  ASSUME NEW e, IsEngine(e), NEW n, NEW due, NEW ids, NEW t \in tick(e, n, due, ids)
  PROVE  Over(t.e, e.cache)
<1> DEFINE a == Settle([e EXCEPT !.backoff = @ \ due.lapsed], n)
           x == [e |-> a, out |-> <<>>]
           y == Discovering(x, n, due, ids)
           z == Refreshing(y, n, due)
           w == Retrying(z, due.late)
<1>1. Over(x.e, e.cache)  BY SettleKeeps, Zenon
<1>2. t \in Fill(w, n, ids \ {d.generation : d \in w.e.discovery})
  BY Zenon DEF tick
<1> HIDE DEF x
<1>3. Over(y.e, x.e.cache)  BY <1>1, DiscoveringKeeps DEF Over
<1> HIDE DEF y
<1>4. Over(z.e, y.e.cache)  BY <1>3, RefreshingKeeps, Zenon DEF Over
<1> HIDE DEF z
<1>5. Over(w.e, z.e.cache)  BY <1>4, RetryingKeeps, Zenon DEF Over
<1> HIDE DEF w
<1>6. Over(t.e, w.e.cache)  BY <1>2, <1>5, FillKeeps DEF Over
<1> QED  BY <1>1, <1>3, <1>4, <1>5, <1>6, Zenon DEF Over

-----------------------------------------------------------------------------
(* A record received *)

\* An engine over another cache differs in its cache only.
LEMMA CacheUpdate ==
  ASSUME NEW e, IsEngine(e), NEW c
  PROVE  /\ Over([e EXCEPT !.cache = c], c)
         /\ \A v : Over([e EXCEPT !.cache = c, !.pulls = v], c)
         /\ \A v : Over([e EXCEPT !.cache = c, !.refresh = v], c)
<1> DEFINE f == [e EXCEPT !.cache = c]
<1>1. Over(f, c)  BY DEF Over, IsEngine
<1> HIDE DEF f
<1>2. ASSUME NEW v PROVE Over([f EXCEPT !.pulls = v], c) /\ Over([f EXCEPT !.refresh = v], c)
  BY <1>1 DEF Over, IsEngine
<1> QED  BY <1>1, <1>2, Zenon DEF f

\* An offer or inventory changes the cache by Cache::offer at most.
LEMMA LearnFollows ==
  ASSUME NEW e, IsEngine(e), NEW n, NEW peer, NEW outcomes,
         \A o \in outcomes : Follows(e.cache, o.c),
         NEW r \in Learn(outcomes, e, n, peer)
  PROVE  Succeeds(e, r.e)
<1>1. PICK o \in outcomes :
        r = IF o.res = "ok" THEN query_new_source([e EXCEPT !.cache = o.c], n, peer)
            ELSE [e |-> [e EXCEPT !.cache = o.c], out |-> <<>>]
  BY Zenon DEF Learn
<1> DEFINE f == [e EXCEPT !.cache = o.c]
<1>2. Over(f, o.c)  BY CacheUpdate, ZenonT(30)
<1> HIDE DEF f
<1>3. r.e = f \/ r.e = [f EXCEPT !.sources = f.sources \cup {peer}]
  BY <1>1, Zenon DEF query_new_source, f
<1>4. Over(r.e, o.c)  BY <1>2, <1>3, Zenon DEF Over, IsEngine
<1> QED  BY <1>4, Zenon DEF Over, Succeeds

\* A failed write leaves the entry as it was, so that pausing the share after it
\* gives nothing up.
LEMMA RetainFollows ==
  ASSUME NEW e, Safe(e), NEW n, NEW pull, NEW r \in Retain(e, n, pull)
  PROVE  Succeeds(e, r.e)
<1> DEFINE f == [e EXCEPT !.pulls = @ \ {pull}]
           away(c) == [f EXCEPT !.cache = c, !.backoff = @ \cup {pull.peer}]
           kept(c) == [f EXCEPT !.cache = c]
<1>1. Over(f, e.cache)  BY DEF Over, Safe, IsEngine
<1>2. PICK o \in put(f.cache, pull.piece) :
        r \in CASE o.res = "io" -> {[e |-> away(x.c), out |-> <<>>] : x \in failure(o.c)}
               [] o.res = "refused" -> Answer(away(o.c), <<>>)
               [] OTHER -> Answer(kept(o.c), IF o.c.entry.status = "complete"
                                             THEN ToEach(f.sources, Complete) ELSE <<>>)
  BY Zenon DEF Retain
<1>3. \/ \E x \in failure(o.c) : o.res = "io" /\ r.e = away(x.c)
      \/ r.e = away(o.c)
      \/ r.e = kept(o.c)
  <2> HIDE DEF f, away, kept
  <2> QED  BY <1>2 DEF Answer
<1> HIDE DEF f
<1>4. Follows(e.cache, o.c) /\ (o.res = "io" => o.c.entry = e.cache.entry)
  BY <1>1, PutFollows, Zenon DEF Over, Safe
<1>5. ASSUME NEW x \in failure(o.c), o.res = "io"
      PROVE  Follows(e.cache, x.c)
  <2>1. Follows(o.c, x.c)  BY <1>4, FailureFollows, Zenon DEF Follows
  <2> QED  BY <2>1, <1>4, <1>5, Zenon DEF Follows
<1>6. ASSUME NEW c PROVE Over(away(c), c) /\ Over(kept(c), c)
  <2> DEFINE b == f.backoff \cup {pull.peer}
  <2>1. away(c) = [f EXCEPT !.cache = c, !.backoff = b]  BY Zenon
  <2> HIDE DEF b, away
  <2>2. Over(away(c), c)  BY <1>1, <2>1, ZenonT(30) DEF Over, IsEngine
  <2> QED  BY <1>1, <2>2, CacheUpdate, ZenonT(30) DEF Over
<1> HIDE DEF away, kept
<1> QED  BY <1>3, <1>4, <1>5, <1>6, Zenon DEF Over, Succeeds

\* A block changes the cache by Cache::put or Cache::failure at most.
LEMMA ReceiveDataFollows ==
  ASSUME NEW e, Safe(e), NEW n, NEW peer, NEW m, NEW r \in ReceiveData(e, n, peer, m)
  PROVE  Succeeds(e, r.e)
<1>1. Succeeds(e, e)  BY SelfFollows, Zenon DEF Succeeds, Safe
<1> DEFINE got(q) == [q EXCEPT !.received = @ \cup {m.block}, !.asked = {a \in @ : a.block # m.block}]
           asked == {q \in e.pulls : /\ q.piece = m.piece /\ q.peer = peer /\ q.request = m.request
                                     /\ \E a \in q.asked : a.block = m.block}
<1>2. \/ r.e = e
      \/ \E q : r \in Retain(e, n, q)
      \/ \E p : r.e = [e EXCEPT !.pulls = p]
  <2>1. CASE r \in Answer(e, <<>>)  BY <2>1 DEF Answer
  <2>2. CASE r \in UNION {IF got(q).received = Blocks(q.piece) THEN Retain(e, n, q)
                          ELSE Answer([e EXCEPT !.pulls = (@ \ {q}) \cup {fill_window(got(q))}],
                                      Wants(got(q), Window(got(q)))) : q \in asked}
    <3> HIDE DEF got, asked
    <3>1. PICK q \in asked :
            r \in IF got(q).received = Blocks(q.piece) THEN Retain(e, n, q)
                  ELSE Answer([e EXCEPT !.pulls = (@ \ {q}) \cup {fill_window(got(q))}],
                              Wants(got(q), Window(got(q))))
      BY <2>2, Zenon
    <3> DEFINE p == (e.pulls \ {q}) \cup {fill_window(got(q))}
               f == [e EXCEPT !.pulls = p]
    <3>2. r \in Retain(e, n, q) \/ r \in Answer(f, Wants(got(q), Window(got(q))))
      BY <3>1, Zenon
    <3>3. r \in Retain(e, n, q) \/ r.e = f
      <4> HIDE DEF f
      <4> QED  BY <3>2 DEF Answer
    <3> QED  BY <3>3, Zenon
  <2> QED  BY <2>1, <2>2, Zenon DEF ReceiveData
<1>3. ASSUME NEW p PROVE Succeeds(e, [e EXCEPT !.pulls = p])
  BY <1>1 DEF Succeeds, Safe, IsEngine
<1> QED  BY <1>1, <1>2, <1>3, RetainFollows, ZenonT(30)

\* Of the records only an offer, a completed block and a completion reach the cache.
LEMMA ReceiveFollows ==
  ASSUME NEW e, Safe(e), NEW n, NEW peer, NEW m, NEW r \in receive(e, n, peer, m)
  PROVE  Succeeds(e, r.e)
<1>1. Succeeds(e, e)  BY SelfFollows, Zenon DEF Succeeds, Safe
<1> DEFINE gone == [e EXCEPT !.pulls = {q \in @ : q.peer # peer \/ q.request # m.request},
                             !.inventories = {x \in @ : x[1] # peer},
                             !.backoff = @ \cup {peer}]
           told == [e EXCEPT !.sources = @ \cup {peer},
                             !.inventories = IF e.cache.entry.status # "downloading" THEN @
                                             ELSE {x \in @ : x[1] # peer} \cup ({peer} \X m.pieces)]
           offers == Offers(e.cache.entry.status \notin {"absent", "cancelled", "importing"})
           have == Have(IF e.cache.entry.status \in Serving THEN e.cache.entry.have ELSE {})
           data == IF e.cache.entry.status \in Serving /\ m.piece \in e.cache.entry.have
                   THEN Block("data", m.piece, m.block, m.request) ELSE Unavailable(m.request)
<1>2. receive(e, n, peer, m) =
          CASE ~permits(e, n, peer) -> Answer(e, <<>>)
            [] m.kind = "discover" -> Answer(e, <<Action(peer, offers)>>)
            [] m.kind = "offers" ->
                  IF m.has THEN Learn(offer(e.cache), e, n, peer) ELSE Answer(e, <<>>)
            [] m.kind = "unavailable" -> Answer(gone, <<>>)
            [] e.cache.entry = Absent -> Answer(e, <<>>)
            [] m.kind = "inventory" -> Answer(e, <<Action(peer, have)>>)
            [] m.kind = "have" -> Answer(told, <<>>)
            [] m.kind = "want" -> Answer(e, <<Action(peer, data)>>)
            [] m.kind = "data" -> ReceiveData(e, n, peer, m)
            [] OTHER -> Learn(receipt(e.cache, peer), e, n, peer)
  BY Zenon DEF receive
<1>3. Succeeds(e, gone) /\ Succeeds(e, told)
  <2> DEFINE p == {q \in e.pulls : q.peer # peer \/ q.request # m.request}
             i == {x \in e.inventories : x[1] # peer}
             b == e.backoff \cup {peer}
             s == e.sources \cup {peer}
             j == IF e.cache.entry.status # "downloading" THEN e.inventories
                  ELSE {x \in e.inventories : x[1] # peer} \cup ({peer} \X m.pieces)
  <2>1. /\ gone = [e EXCEPT !.pulls = p, !.inventories = i, !.backoff = b]
        /\ told = [e EXCEPT !.sources = s, !.inventories = j]
    BY Zenon
  <2> HIDE DEF gone, told, p, i, b, s, j
  <2>2. Over(gone, e.cache) /\ Over(told, e.cache)  BY <2>1, ZenonT(30) DEF Safe, Over, IsEngine
  <2> QED  BY <1>1, <2>2, Zenon DEF Over, Succeeds
<1> HIDE DEF gone, told, offers, have, data
<1>4. \/ r \in Learn(offer(e.cache), e, n, peer)
      \/ r \in Learn(receipt(e.cache, peer), e, n, peer)
      \/ r \in ReceiveData(e, n, peer, m)
      \/ r.e \in {e, gone, told}
  BY <1>2 DEF Answer
<1>5. CASE r \in Learn(offer(e.cache), e, n, peer)
  <2>1. \A o \in offer(e.cache) : Follows(e.cache, o.c)  BY OfferFollows, Zenon DEF Safe
  <2> QED  BY <1>5, <2>1, LearnFollows, Zenon DEF Safe
<1>6. CASE r \in Learn(receipt(e.cache, peer), e, n, peer)
  <2>1. \A o \in receipt(e.cache, peer) : Follows(e.cache, o.c)  BY ReceiptFollows, Zenon DEF Safe
  <2> QED  BY <1>6, <2>1, LearnFollows, Zenon DEF Safe
<1> QED  BY <1>1, <1>3, <1>4, <1>5, <1>6, ReceiveDataFollows, Zenon

-----------------------------------------------------------------------------
(* The worker's steps *)

\* A step that changes one engine.
LEMMA OneEngine ==
  ASSUME Held, NEW n \in Nodes, NEW e, IsEngine(e), Sound(e.cache),
         \/ Gone(e.cache.entry)
         \/ engine[n].cache.entry.have \ e.cache.entry.have \subseteq engine[n].cache.files \ e.cache.files,
         engine' = [engine EXCEPT ![n] = e]
  PROVE  Held' /\ Kept
<1>1. engine' = [m \in Nodes |-> IF m = n THEN e ELSE engine[m]]  BY Zenon DEF Held
<1>2. \A m \in Nodes : engine'[m] = IF m = n THEN e ELSE engine[m]  BY <1>1, Zenon
<1>3. engine' = [m \in Nodes |-> engine'[m]]  BY <1>1, <1>2, ZenonT(30)
<1>4. \A m \in Nodes : Safe(engine'[m])  BY <1>2, Zenon DEF Held, Safe
<1>5. Held'  BY <1>3, <1>4, Zenon DEF Held
<1>6. Kept  BY <1>2, Zenon DEF Kept
<1> QED  BY <1>5, <1>6, Zenon

\* An engine whose cache follows is an allowed successor of its node.
LEMMA EngineSucceeds ==
  ASSUME Held, NEW n \in Nodes, NEW e, Succeeds(engine[n], e), engine' = [engine EXCEPT ![n] = e]
  PROVE  Held' /\ Kept
BY OneEngine, ZenonT(30) DEF Succeeds, Follows

\* FileService::tick makes an allowed successor of the engine it is given.
LEMMA StepSucceeds ==
  ASSUME Held, NEW n \in Nodes, NEW e, Succeeds(engine[n], e),
         NEW received, NEW due, NEW records, NEW over, Step(n, e, received, due, records, over)
  PROVE  Held' /\ Kept
<1>1. PICK t, tokens, queue, handed :
        /\ t \in tick(e, n, due, FreeIds)
        /\ Apply(n, send_finished(t.e, tokens, "now"), queue, handed, records, over)
  BY ZenonT(30) DEF Step
<1>2. Over(t.e, e.cache)  BY <1>1, TickKeeps, Zenon DEF Succeeds
<1>3. Over(send_finished(t.e, tokens, "now"), e.cache)
  BY <1>2, SendFinishedKeeps, Zenon DEF Over
<1> QED  BY <1>1, <1>3, EngineSucceeds, ZenonT(30) DEF Over, Succeeds, Apply

\* The owner's requests.
LEMMA KeepSucceeds ==
  ASSUME Held, NEW n \in Nodes, NEW c, Follows(engine[n].cache, c), NEW e,
         Over(e, c), Keep(n, e)
  PROVE  Held' /\ Kept
BY EngineSucceeds, ZenonT(30) DEF Over, Succeeds, Keep

\* The cache an earlier run left is sound.
LEMMA StartSound == ASSUME NEW have, NEW faults PROVE Sound(Stored(have, faults))
BY DEF Stored, Sound, IsCache, IsState, Backed, Absent

\* A new engine is over the cache it was opened with.
LEMMA NewEngineIs == ASSUME NEW c, NEW members PROVE Over(NewEngine(c, members), c)
BY Zenon DEF NewEngine, Over, IsEngine

-----------------------------------------------------------------------------
(* Every action *)

\* Every cache is sound at the start.
LEMMA InitHeld == Init => Held
BY StartSound, NewEngineIs DEF Init, Held, Safe, Over

\* Every step of every node keeps all caches sound and all pieces that are not bad.
LEMMA NextHeld == Held /\ [Next]_vars => Held' /\ Kept
<1> SUFFICES ASSUME Held, [Next]_vars PROVE Held' /\ Kept
  BY Zenon
<1>1. ASSUME UNCHANGED engine PROVE Held' /\ Kept
  BY <1>1, Zenon DEF Held, Kept
<1>2. \A n \in Nodes : Safe(engine[n]) /\ IsEngine(engine[n]) /\ Sound(engine[n].cache)
                       /\ Succeeds(engine[n], engine[n])
  BY SelfFollows, Zenon DEF Held, Safe, Succeeds
<1>3. ASSUME NEW n \in Nodes, OnInterval(n) \/ OnSilence(n) \/ OnEarlyTimer(n) PROVE Held' /\ Kept
  <2>1. PICK due : Step(n, engine[n], <<>>, due, net, {})
    BY <1>3, Zenon DEF OnInterval, OnSilence, OnEarlyTimer
  <2> QED  BY <2>1, <1>2, StepSucceeds, Zenon
<1>4. ASSUME NEW n \in Nodes, OnCompletion(n) \/ OnCompletionLocked(n) PROVE Held' /\ Kept
  <2>1. PICK token :
          \/ Step(n, send_finished(engine[n], {token}, "armed"), <<>>, NothingDue, net, {token})
          \/ Apply(n, send_finished(engine[n], {token}, "armed"), pending[n], <<>>, net, {token})
    BY <1>4, Zenon DEF OnCompletion, OnCompletionLocked
  <2>2. Succeeds(engine[n], send_finished(engine[n], {token}, "armed"))
    BY <1>2, SendFinishedKeeps DEF Succeeds, Over
  <2> QED  BY <2>1, <2>2, StepSucceeds, EngineSucceeds, Zenon DEF Apply
<1>5. ASSUME NEW n \in Nodes, OnEvent(n) \/ OnEventExpiryFails(n) PROVE Held' /\ Kept
  <2>1. PICK m, r :
          /\ r \in receive(engine[n], n, m.from, m.body)
          /\ \/ Step(n, r.e, r.out, NothingDue, net \ {m}, {})
             \/ Apply(n, r.e, pending[n], <<>>, net \ {m}, {})
    BY <1>5, Zenon DEF OnEvent, OnEventExpiryFails
  <2>2. Succeeds(engine[n], r.e)  BY <1>2, <2>1, ReceiveFollows, Zenon
  <2> QED  BY <2>1, <2>2, StepSucceeds, EngineSucceeds, Zenon DEF Apply
<1>6. ASSUME NEW n \in Nodes, Leave(n) \/ Return(n) PROVE Held' /\ Kept
  <2>1. PICK members : engine' = [engine EXCEPT ![n] = set_members(engine[n], n, members)]
    BY <1>6, Zenon DEF Leave, Return, Roster
  <2>2. Succeeds(engine[n], set_members(engine[n], n, members))
    BY <1>2, SetMembersKeeps DEF Succeeds, Over
  <2> QED  BY <2>1, <2>2, EngineSucceeds, ZenonT(30)
<1>7. ASSUME NEW n \in Nodes, Crash(n) PROVE Held' /\ Kept
  <2>1. PICK rotten :
          engine' = [engine EXCEPT ![n] = NewEngine(open(engine[n].cache, rotten), engine[n].members)]
    BY <1>7, Zenon DEF Crash
  <2> DEFINE d == open(engine[n].cache, rotten)
             e == NewEngine(d, engine[n].members)
  <2>2. /\ Sound(d)
        /\ Gone(d.entry) \/ engine[n].cache.entry.have \ d.entry.have \subseteq engine[n].cache.files \ d.files
    BY <1>2, OpenKeeps, Zenon
  <2>3. Over(e, d)  BY NewEngineIs, Zenon
  <2> HIDE DEF d, e
  <2> QED  BY <2>1, <2>2, <2>3, OneEngine, ZenonT(30) DEF Over, d, e
<1>8. ASSUME NEW n \in Nodes, Import(n) \/ Commit(n) PROVE Held' /\ Kept
  <2>1. PICK o : /\ \/ o \in begin_import(engine[n].cache)
                    \/ \E i : o \in import_piece(engine[n].cache, i)
                    \/ o \in finish_import(engine[n].cache)
                 /\ Keep(n, [engine[n] EXCEPT !.cache = o.c])
    BY <1>8, Zenon DEF Import, Commit
  <2>2. Follows(engine[n].cache, o.c)
    BY <2>1, <1>2, BeginImportFollows, ImportPieceFollows, FinishImportFollows, Zenon
  <2>3. Over([engine[n] EXCEPT !.cache = o.c], o.c)  BY <1>2, CacheUpdate, ZenonT(30)
  <2> QED  BY <2>1, <2>2, <2>3, KeepSucceeds, Zenon
<1>9. ASSUME NEW n \in Nodes, Accept(n) PROVE Held' /\ Kept
  <2>1. PICK o, v :
          /\ o \in accept(engine[n].cache)
          /\ Keep(n, [engine[n] EXCEPT !.cache = o.c, !.refresh = v])
    BY <1>9, Zenon DEF Accept
  <2>2. Follows(engine[n].cache, o.c)  BY <1>2, <2>1, AcceptFollows, Zenon
  <2>3. Over([engine[n] EXCEPT !.cache = o.c, !.refresh = v], o.c)  BY <1>2, CacheUpdate, ZenonT(30)
  <2> QED  BY <2>1, <2>2, <2>3, KeepSucceeds, Zenon
<1>10. ASSUME NEW n \in Nodes, Pause(n) \/ Cancel(n) PROVE Held' /\ Kept
  <2>1. PICK o, v :
          /\ o \in pause(engine[n].cache) \/ o \in cancel(engine[n].cache)
          /\ Keep(n, [engine[n] EXCEPT !.cache = o.c, !.pulls = v])
    BY <1>10, Zenon DEF Pause, Cancel
  <2>2. Follows(engine[n].cache, o.c)  BY <1>2, <2>1, PauseFollows, CancelFollows, Zenon
  <2>3. Over([engine[n] EXCEPT !.cache = o.c, !.pulls = v], o.c)  BY <1>2, CacheUpdate, ZenonT(30)
  <2> QED  BY <2>1, <2>2, <2>3, KeepSucceeds, Zenon
<1>11. ASSUME NEW n \in Nodes, Expire(n) PROVE Held' /\ Kept
  <2>1. PICK o \in remove(engine[n].cache) :
          \/ Step(n, [engine[n] EXCEPT !.cache = o.c], <<>>, NothingDue, net, {})
          \/ Apply(n, [engine[n] EXCEPT !.cache = o.c], pending[n], <<>>, net, {})
    <3>1. PICK p \in remove(engine[n].cache) :
            \E e \in {[engine[n] EXCEPT !.cache = p.c]} :
               IF p.res = "ok" THEN Step(n, e, <<>>, NothingDue, net, {})
               ELSE Apply(n, e, pending[n], <<>>, net, {})
      BY <1>11, Zenon DEF Expire
    <3> QED  BY <3>1, Zenon
  <2>2. Follows(engine[n].cache, o.c)  BY <1>2, RemoveFollows, Zenon
  <2>3. Over([engine[n] EXCEPT !.cache = o.c], o.c)  BY <1>2, CacheUpdate, ZenonT(30)
  <2>4. Succeeds(engine[n], [engine[n] EXCEPT !.cache = o.c])
    BY <2>2, <2>3, ZenonT(30) DEF Over, Succeeds
  <2> QED  BY <2>1, <2>4, StepSucceeds, EngineSucceeds, Zenon DEF Apply
<1>12. CASE Lose  BY <1>12, <1>1, Zenon DEF Lose
<1>13. CASE UNCHANGED vars  BY <1>13, <1>1, Zenon DEF vars
<1> QED
  BY <1>3, <1>4, <1>5, <1>6, <1>7, <1>8, <1>9, <1>10, <1>11, <1>12, <1>13, Zenon DEF Next

\* Whatever is lost, repeated, retried, refused or written in vain, and wherever
\* a member restarts, the shapes of the records, HeldIsOnDisk and a journal no
\* older than the memory hold of every member.
THEOREM HeldAlways == Spec => []Held
<1> QED  BY InitHeld, NextHeld, PTL DEF Spec

\* No member ever counts, or would count after a restart, a piece whose bytes
\* are not on its disk, and none is complete without every piece (put, cancel,
\* remove, import_piece, open).
THEOREM PiecesAreOnDisk == Spec => []HeldIsOnDisk
<1>1. Held => HeldIsOnDisk  BY Zenon DEF Held, Safe, Sound, HeldIsOnDisk
<1> QED  BY <1>1, HeldAlways, PTL

\* No step, a restart and a failed write included, gives up a verified piece of
\* a share that is neither cancelled nor removed, except one whose bytes are gone
\* (put, failure, pause, open).
THEOREM PiecesAreKept == Spec => ProgressKept
<1>1. Kept => \A n \in Nodes :
                \/ Status(engine[n])' \in {"absent", "cancelled"}
                \/ engine[n].cache.entry.have \ engine'[n].cache.entry.have
                      \subseteq engine[n].cache.files \ engine'[n].cache.files
  BY Zenon DEF Kept, Gone, Status
<1> QED  BY <1>1, InitHeld, NextHeld, PTL DEF Spec, ProgressKept
=============================================================================
