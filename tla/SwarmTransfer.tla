---------------------------- MODULE SwarmTransfer ----------------------------
(***************************************************************************)
(* The private piece exchange of one share between the members of a        *)
(* channel: the engine (crates/file-transfer/src/swarm/engine.rs) of each  *)
(* node over its cache (PieceCache), and the channel file worker that      *)
(* hosts it (crates/runtime/src/files.rs).                                 *)
(*                                                                         *)
(* engine[n] is the Engine; pending[n] the worker's queue of actions;      *)
(* sends[n] the tokens of the transport attempts still running (an action  *)
(* without a token leaves no trace once it is handed over); net the        *)
(* records under way, unordered.  finished is a history: the nodes that    *)
(* were complete at some time.  budget is chosen from Cases when a         *)
(* behaviour starts: blocks (of each piece), held (the pieces each member  *)
(* has from an earlier run), slots (the numbers of free send slots a step  *)
(* may find), disturbed (the members the faults befall), how many faults   *)
(* of each kind may still happen (lost, crash, rot, roster, locked, user,  *)
(* early, faults, expiry), and dropped, the tokens that a failed expiry    *)
(* made the worker forget.                                                 *)
(*                                                                         *)
(* Clocks are left out.  `timer` (deadline) is "host" while the worker     *)
(* owns the attempt (u64::MAX), "armed" once its time runs and "now" if it *)
(* was definitely not sent; `backoff` holds the peers whose back-off has   *)
(* not passed; a step says which timers it sees due.  Timers of 30 seconds *)
(* and more outlast what is under way, except for `budget.early` of them.  *)
(* The worker's free send slots vary with the other shares' traffic: a     *)
(* step sees one of `budget.slots`.                                        *)
(*                                                                         *)
(* External: the channel transport (send_channel_application and its       *)
(* ChannelDirectMessage events), which loses and reorders records.         *)
(***************************************************************************)
EXTENDS PieceCache, Sequences

CONSTANTS
    Nodes,          \* the channel's members, numbered
    Importer,       \* the member that imports the share
    PIPELINE,       \* pieces pulled at once
    BLOCK_WINDOW,   \* blocks of a pull asked for at once
    PENDING_LIMIT,  \* actions the worker queues
    Ids,            \* request and generation identifiers (random or fresh in the code)
    Cases           \* the initial values of `budget`

VARIABLES engine, pending, sends, net, finished, budget

vars == <<engine, pending, sends, net, finished, budget>>

MAX_ATTEMPTS == 2

Blocks(i) == 0 .. budget.blocks[i] - 1

\* A pull is [piece, peer, request, received, asked]; a block asked for is
\* [block, timer, attempts]; a discovery [peer, state, generation]; an
\* inventory the set of <<peer, piece>> the peer is known to hold.
NewEngine(cache, members) ==
    [cache |-> cache, members |-> members, sources |-> {}, inventories |-> {},
     pulls |-> {}, backoff |-> {}, discovery |-> {}, refresh |-> TRUE]

Least(a, b) == IF a < b THEN a ELSE b

Below(S, x) == Cardinality({y \in S : y < x})

Ascending(S) == [k \in 1 .. Cardinality(S) |-> CHOOSE x \in S : Below(S, x) = k - 1]

-----------------------------------------------------------------------------
(* Actions and their tokens.                                               *)

NoToken == [kind |-> "none"]

Action(peer, body) == [peer |-> peer, body |-> body, token |-> NoToken]

Offers(has) == [kind |-> "offers", has |-> has]
Inventory == [kind |-> "inventory"]
Have(pieces) == [kind |-> "have", pieces |-> pieces]
Complete == [kind |-> "complete"]
Unavailable(request) == [kind |-> "unavailable", request |-> request]
Block(kind, i, b, request) == [kind |-> kind, piece |-> i, block |-> b, request |-> request]

\* Only a block request and a discovery carry a token.
PieceToken(pull, b) ==
    [kind |-> "piece", peer |-> pull.peer, piece |-> pull.piece, block |-> b, request |-> pull.request]

DiscoveryToken(d) == [kind |-> "discovery", peer |-> d.peer, generation |-> d.generation]

Want(pull, b) ==
    [peer |-> pull.peer, body |-> Block("want", pull.piece, b, pull.request),
     token |-> PieceToken(pull, b)]

Discover(d) == [peer |-> d.peer, body |-> [kind |-> "discover"], token |-> DiscoveryToken(d)]

ToEach(peers, body) ==
    LET order == Ascending(peers)
    IN  [k \in DOMAIN order |-> Action(order[k], body)]

Wants(pull, blocks) ==
    LET order == Ascending(blocks)
    IN  [k \in DOMAIN order |-> Want(pull, order[k])]

Tokens(seq) == {seq[k].token : k \in DOMAIN seq} \ {NoToken}

\* Random request ids and discovery generations never repeat, and only the ones
\* still referred to somewhere can be told apart: the others are free again.
FreeIds ==
    LET bodies == {m.body : m \in net}
                  \cup UNION {{pending[n][k].body : k \in DOMAIN pending[n]} : n \in Nodes}
        tokens == UNION {sends[n] \cup Tokens(pending[n]) : n \in Nodes}
    IN  Ids \ ({q.request : q \in UNION {engine[n].pulls : n \in Nodes}}
               \cup {b.request : b \in {x \in bodies : x.kind \in {"want", "data", "unavailable"}}}
               \cup {t.request : t \in {x \in tokens : x.kind = "piece"}}
               \cup {t.generation : t \in {x \in tokens : x.kind = "discovery"}})

-----------------------------------------------------------------------------
(* Membership.                                                             *)

permits(e, n, peer) == n \in e.members /\ peer \in e.members /\ peer # n
own_scope(e, n) == n \in e.members

set_members(e, n, members) ==
    LET known == IF n \in members THEN members \ {n} ELSE {}
    IN  [e EXCEPT !.members = IF n \in members THEN members ELSE {},
                  !.discovery = {d \in @ : d.peer \in known},
                  !.inventories = {x \in @ : x[1] \in known},
                  !.pulls = {q \in @ : q.peer \in known},
                  !.backoff = @ \cap known,
                  !.sources = @ \cap known]

-----------------------------------------------------------------------------
(* Engine::receive: the outcomes [e, out] of one record.                   *)

Status(e) == e.cache.entry.status

Answer(e, out) == {[e |-> e, out |-> out]}

\* A newly learnt source of a wanted share is asked at once, unless the next
\* poll is due anyway.
query_new_source(e, n, peer) ==
    [e |-> [e EXCEPT !.sources = @ \cup {peer}],
     out |-> IF /\ peer \notin e.sources \cup e.backoff
                /\ ~e.refresh
                /\ Status(e) = "downloading"
             THEN <<Action(peer, Inventory)>> ELSE <<>>]

\* The cache operation of a record that may name a new source.
Learn(outcomes, e, n, peer) ==
    {IF o.res = "ok" THEN query_new_source([e EXCEPT !.cache = o.c], n, peer)
     ELSE [e |-> [e EXCEPT !.cache = o.c], out |-> <<>>] : o \in outcomes}

\* The blocks a pull asks for next: the first ones missing, up to the window.
Window(pull) ==
    LET asked == {a.block : a \in pull.asked}
        idle  == Blocks(pull.piece) \ (pull.received \cup asked)
    IN  {b \in idle : Below(idle, b) + Cardinality(asked) < BLOCK_WINDOW}

fill_window(pull) ==
    [pull EXCEPT !.asked = @ \cup {[block |-> b, timer |-> "host", attempts |-> 0] : b \in Window(pull)}]

\* A block that fills its piece is retained through the cache; the pull is gone
\* whatever the cache answers, and a share whose piece could not be written is
\* paused with the peer backed off.
Retain(e, n, pull) ==
    LET f == [e EXCEPT !.pulls = @ \ {pull}]
        away(c) == [f EXCEPT !.cache = c, !.backoff = @ \cup {pull.peer}]
        kept(c) == [f EXCEPT !.cache = c]
    IN  UNION {CASE o.res = "io" -> {[e |-> away(x.c), out |-> <<>>] : x \in failure(o.c)}
                 [] o.res = "refused" -> Answer(away(o.c), <<>>)
                 [] OTHER -> Answer(kept(o.c), IF o.c.entry.status = "complete"
                                               THEN ToEach(f.sources, Complete) ELSE <<>>)
               : o \in put(f.cache, pull.piece)}

\* Only a block some pull still asks this peer for is taken.
ReceiveData(e, n, peer, m) ==
    LET asked == {q \in e.pulls : /\ q.piece = m.piece /\ q.peer = peer /\ q.request = m.request
                                  /\ \E a \in q.asked : a.block = m.block}
    IN  IF asked = {} THEN Answer(e, <<>>)
        ELSE UNION {LET got == [q EXCEPT !.received = @ \cup {m.block},
                                         !.asked = {a \in @ : a.block # m.block}]
                    IN  IF got.received = Blocks(q.piece) THEN Retain(e, n, q)
                        ELSE Answer([e EXCEPT !.pulls = (@ \ {q}) \cup {fill_window(got)}],
                                    Wants(got, Window(got)))
                    : q \in asked}

receive(e, n, peer, m) ==
    LET entry == e.cache.entry
    IN  CASE ~permits(e, n, peer) -> Answer(e, <<>>)
          [] m.kind = "discover" ->
                Answer(e, <<Action(peer, Offers(entry.status \notin {"absent", "cancelled", "importing"}))>>)
          [] m.kind = "offers" ->
                IF m.has THEN Learn(offer(e.cache), e, n, peer) ELSE Answer(e, <<>>)
          [] m.kind = "unavailable" ->
                Answer([e EXCEPT !.pulls = {q \in @ : q.peer # peer \/ q.request # m.request},
                                 !.inventories = {x \in @ : x[1] # peer},
                                 !.backoff = @ \cup {peer}], <<>>)
          [] entry = Absent -> Answer(e, <<>>)
          [] m.kind = "inventory" ->
                Answer(e, <<Action(peer, Have(IF entry.status \in Serving THEN entry.have ELSE {}))>>)
          [] m.kind = "have" ->
                Answer([e EXCEPT !.sources = @ \cup {peer},
                                 !.inventories = IF entry.status # "downloading" THEN @
                                                 ELSE {x \in @ : x[1] # peer} \cup ({peer} \X m.pieces)],
                       <<>>)
          [] m.kind = "want" ->
                Answer(e, <<Action(peer, IF entry.status \in Serving /\ m.piece \in entry.have
                                         THEN Block("data", m.piece, m.block, m.request)
                                         ELSE Unavailable(m.request))>>)
          [] m.kind = "data" -> ReceiveData(e, n, peer, m)
          [] OTHER -> Learn(receipt(e.cache, peer), e, n, peer)   \* "complete"

-----------------------------------------------------------------------------
(* Engine::tick with the timers `due` it sees passed.                      *)

NothingDue == [discover |-> {}, refresh |-> FALSE, late |-> {}, lapsed |-> {}]

Armed(e) ==
    UNION {{<<q.piece, a.block>> : a \in {x \in q.asked : x.timer = "armed"}} : q \in e.pulls}

EverythingDue(e) ==
    [discover |-> Nodes, refresh |-> TRUE, late |-> Armed(e), lapsed |-> e.backoff]

OneDue(e) ==
    {[NothingDue EXCEPT !.discover = {d.peer}] : d \in {x \in e.discovery : x.state = "idle"}}
    \cup {[NothingDue EXCEPT !.refresh = TRUE]}
    \cup {[NothingDue EXCEPT !.late = {x}] : x \in Armed(e)}
    \cup {[NothingDue EXCEPT !.lapsed = {p}] : p \in e.backoff}

Wanted(e, n) == Status(e) = "downloading" /\ own_scope(e, n)

\* Without a wanted and permitted share nothing is pulled.
Settle(e, n) ==
    IF Wanted(e, n) THEN e
    ELSE [e EXCEPT !.pulls = {}, !.inventories = {},
                   !.sources = IF Status(e) = "absent" THEN {} ELSE @]

Discovering(x, n, due, ids) ==
    LET waiting == {d \in x.e.discovery : d.state = "pending" \/ d.peer \notin due.discover}
        ready   == x.e.members \ ({n} \cup {d.peer : d \in waiting})
        asked   == {[peer |-> y[1], state |-> "pending", generation |-> y[2]] :
                       y \in {z \in ready \X ids : Below(ready, z[1]) = Below(ids, z[2])}}
        order   == Ascending({d.peer : d \in asked})
    IN  [e |-> [x.e EXCEPT !.discovery = {d \in @ : \A a \in asked : a.peer # d.peer} \cup asked],
         out |-> x.out \o [k \in DOMAIN order |->
                              Discover(CHOOSE d \in asked : d.peer = order[k])]]

\* Inventories of a wanted share are polled, and a completed one tells its
\* sources again; the mistaken engine told them once, as the last piece came.
Bug_Refreshing(x, n, due) ==
    IF ~(x.e.refresh \/ due.refresh) THEN x
    ELSE [e |-> [x.e EXCEPT !.refresh = FALSE],
          out |-> x.out \o IF Wanted(x.e, n) THEN ToEach(x.e.sources \ x.e.backoff, Inventory) ELSE <<>>]

Refreshing(x, n, due) ==
    LET e == x.e
    IN  IF ~(e.refresh \/ due.refresh) THEN x
        ELSE [e |-> [e EXCEPT !.refresh = FALSE],
              out |-> x.out \o CASE Wanted(e, n) -> ToEach(e.sources \ e.backoff, Inventory)
                                 [] Status(e) = "complete" -> ToEach(e.sources, Complete)
                                 [] OTHER -> <<>>]

\* A pull with late blocks asks for them again, or gives its source up.
Retrying(x, late) ==
    LET isLate(q, a) == a.timer = "now" \/ <<q.piece, a.block>> \in late
        spent == {q \in x.e.pulls : \E a \in q.asked : isLate(q, a) /\ a.attempts >= MAX_ATTEMPTS}
        again(q) == {a.block : a \in {y \in q.asked : isLate(q, y)}}
        order == Ascending({q.piece : q \in x.e.pulls \ spent})
        asks[k \in 0 .. Len(order)] ==
            IF k = 0 THEN <<>>
            ELSE LET q == CHOOSE y \in x.e.pulls : y.piece = order[k]
                 IN  asks[k - 1] \o Wants(q, again(q))
    IN  [e |-> [x.e EXCEPT
                   !.backoff = @ \cup {q.peer : q \in spent},
                   !.pulls = {[q EXCEPT !.asked =
                                  {IF isLate(q, a)
                                   THEN [a EXCEPT !.timer = "host", !.attempts = @ + 1] ELSE a : a \in @}]
                              : q \in @ \ spent}],
         out |-> x.out \o asks[Len(order)]]

\* The rarest wanted piece (then the lowest) is pulled from its least busy source;
\* x is the pulls and the actions so far of an engine e.
Pulling(x, e, n, ids) ==
    LET sources(i) == {p \in e.members \ e.backoff : <<p, i>> \in e.inventories}
        wanted == {i \in Pieces \ (e.cache.entry.have \cup {q.piece : q \in x.pulls}) : sources(i) # {}}
        load(p) == Cardinality({q \in x.pulls : q.peer = p})
        First(S, rank(_)) == CHOOSE a \in S : \A b \in S :
                                rank(a) < rank(b) \/ (rank(a) = rank(b) /\ a <= b)
        free == ids \ {q.request : q \in x.pulls}
    IN  IF ~Wanted(e, n) \/ Cardinality(x.pulls) >= PIPELINE \/ wanted = {} \/ free = {} THEN x
        ELSE LET i == First(wanted, LAMBDA j : Cardinality(sources(j)))
                 pull == [piece |-> i, peer |-> First(sources(i), load),
                          request |-> First(free, LAMBDA r : r), received |-> {}, asked |-> {}]
             IN  [pulls |-> x.pulls \cup {fill_window(pull)},
                  out |-> x.out \o Wants(pull, Window(pull))]

\* Pulls are added while the pipeline has room.
Fill(x, n, ids) ==
    LET filled[k \in 0 .. PIPELINE] ==
            IF k = 0 THEN {[pulls |-> x.e.pulls, out |-> x.out]}
            ELSE {Pulling(y, x.e, n, ids) : y \in filled[k - 1]}
    IN  {[e |-> [x.e EXCEPT !.pulls = y.pulls], out |-> y.out] : y \in filled[PIPELINE]}

tick(e, n, due, ids) ==
    LET start == {[e |-> Settle([e EXCEPT !.backoff = @ \ due.lapsed], n), out |-> <<>>]}
        asked == {Refreshing(x, n, due) : x \in {Discovering(y, n, due, ids) : y \in start}}
    IN  UNION {Fill(x, n, ids \ {d.generation : d \in x.e.discovery}) :
                   x \in {Retrying(y, due.late) : y \in asked}}

-----------------------------------------------------------------------------
(* The worker: every action's attempt ends in exactly one send_finished.   *)

\* The attempts of these tokens are over: their blocks' timers start ("armed"),
\* or have passed already ("now", definitely not sent), their discoveries may
\* be repeated.  A token of a pull or discovery that is gone changes nothing.
send_finished(e, tokens, timer) ==
    [e EXCEPT
        !.pulls = {[q EXCEPT !.asked = {IF PieceToken(q, a.block) \in tokens
                                        THEN [a EXCEPT !.timer = timer] ELSE a : a \in @}] : q \in @},
        !.discovery = {IF DiscoveryToken(d) \in tokens
                       THEN [d EXCEPT !.state = "idle", !.generation = 0] ELSE d : d \in @}]

\* Membership, status and pull are checked again when an action leaves the queue.
action_allowed(e, n, a) ==
    LET st == Status(e)
        b  == a.body
    IN  /\ permits(e, n, a.peer)
        /\ CASE b.kind = "discover" -> TRUE
             [] b.kind = "offers" -> b.has => st \notin {"absent", "cancelled", "importing"}
             [] b.kind = "want" ->
                   st = "downloading" /\ \E q \in e.pulls, x \in UNION {p.asked : p \in e.pulls} :
                       x \in q.asked /\ x.block = b.block /\ PieceToken(q, b.block) = a.token
             [] b.kind = "inventory" -> st = "downloading"
             [] b.kind \in {"data", "have"} -> st \in Serving
             [] b.kind = "complete" -> st = "complete"
             [] b.kind = "unavailable" -> st # "absent"

Apply(n, e, queue, handed, records, over) ==
    /\ engine' = [engine EXCEPT ![n] = e]
    /\ pending' = [pending EXCEPT ![n] = queue]
    /\ sends' = [sends EXCEPT ![n] = (@ \ over) \cup (Tokens(handed))]
    /\ net' = records \cup {[from |-> n, to |-> handed[k].peer, body |-> handed[k].body] :
                               k \in DOMAIN handed}
    /\ finished' = IF Status(e) = "complete" THEN finished \cup {n} ELSE finished

\* FileService::tick: the engine's tick, the queue, and the free send slots.
\* What does not fit the queue, or is no longer allowed when it leaves it, was
\* definitely not sent; the mistaken worker forgets what does not fit.
Bug_Step(n, e, received, due, records, over) ==
    \E slots \in budget.slots, t \in tick(e, n, due, FreeIds) :
    \E all \in {pending[n] \o received \o t.out} :
    \E queue \in {SubSeq(all, 1, Least(PENDING_LIMIT, Len(all)))} :
    \E front \in {SubSeq(queue, 1, Least(slots, Len(queue)))} :
    \E ready \in {SelectSeq(front, LAMBDA a : action_allowed(t.e, n, a))} :
        Apply(n, send_finished(t.e, Tokens(front) \ Tokens(ready), "now"),
              SubSeq(queue, Len(front) + 1, Len(queue)), ready, records, over)

Step(n, e, received, due, records, over) ==
    \E slots \in budget.slots, t \in tick(e, n, due, FreeIds) :
    \E all \in {pending[n] \o received \o t.out} :
    \E queue \in {SubSeq(all, 1, Least(PENDING_LIMIT, Len(all)))} :
    \E front \in {SubSeq(queue, 1, Least(slots, Len(queue)))} :
    \E ready \in {SelectSeq(front, LAMBDA a : action_allowed(t.e, n, a))} :
        Apply(n, send_finished(t.e, (Tokens(front) \ Tokens(ready))
                                   \cup Tokens(SubSeq(all, Len(queue) + 1, Len(all))), "now"),
              SubSeq(queue, Len(front) + 1, Len(queue)), ready, records, over)

-----------------------------------------------------------------------------
Init ==
    /\ budget \in Cases
    /\ engine = [n \in Nodes |->
                    NewEngine(Stored(budget.held[n], IF n \in budget.disturbed THEN budget.faults ELSE 0), Nodes)]
    /\ pending = [n \in Nodes |-> <<>>]
    /\ sends = [n \in Nodes |-> {}]
    /\ net = {}
    /\ finished = {n \in Nodes : budget.held[n] = Pieces}

Spend(what) ==
    /\ budget[what] > 0
    /\ budget' = [budget EXCEPT ![what] = @ - 1]

Quiet == net = {} /\ \A n \in Nodes : pending[n] = <<>> /\ sends[n] = {}

\* The 250 ms interval.
OnInterval(n) ==
    /\ Step(n, engine[n], <<>>, NothingDue, net, {})
    /\ UNCHANGED budget

\* The interval after a silence as long as every timer.
OnSilence(n) ==
    /\ Quiet
    /\ Step(n, engine[n], <<>>, EverythingDue(engine[n]), net, {})
    /\ UNCHANGED budget

OnEarlyTimer(n) ==
    /\ ~Quiet
    /\ Spend("early")
    /\ \E due \in OneDue(engine[n]) : Step(n, engine[n], <<>>, due, net, {})

\* A transport attempt ends.
OnCompletion(n) ==
    /\ \E token \in sends[n] :
          Step(n, send_finished(engine[n], {token}, "armed"), <<>>, NothingDue, net, {token})
    /\ UNCHANGED budget

\* The same while the interface is locked or the roster cannot be read: the
\* worker goes no further.
OnCompletionLocked(n) ==
    /\ Spend("locked")
    /\ \E token \in sends[n] :
          Apply(n, send_finished(engine[n], {token}, "armed"), pending[n], <<>>, net, {token})

\* A record arrives.  Its answers are queued before those of the tick.
OnEvent(n) ==
    /\ \E m \in net :
          /\ m.to = n
          /\ \E r \in receive(engine[n], n, m.from, m.body) :
                Step(n, r.e, r.out, NothingDue, net \ {m}, {})
    /\ UNCHANGED budget

\* The same step when the tick fails first: the expiry of some other share of
\* the cache could not be written.  The answers are dropped.
OnEventExpiryFails(n) ==
    /\ budget.expiry > 0
    /\ \E m \in net :
          /\ m.to = n
          /\ \E r \in receive(engine[n], n, m.from, m.body) :
                /\ Apply(n, r.e, pending[n], <<>>, net \ {m}, {})
                /\ budget' = [budget EXCEPT !.expiry = @ - 1, !.dropped = @ \cup Tokens(r.out)]

\* A record lost under way, refused by the budget for payloads, or dropped by
\* a worker that is locked or cannot read the roster.
Lose ==
    /\ Spend("lost")
    /\ \E m \in net : net' = net \ {m}
    /\ UNCHANGED <<engine, pending, sends, finished>>

\* The worker's refresh finds a roster it is no longer part of, and one it is
\* part of again.
Roster(n, members) ==
    /\ members # engine[n].members
    /\ engine' = [engine EXCEPT ![n] = set_members(@, n, members)]
    /\ UNCHANGED <<pending, sends, net, finished>>

Leave(n) == Roster(n, {}) /\ Spend("roster")

Return(n) == Roster(n, Nodes) /\ UNCHANGED budget

\* A restart: memory is lost, the cache is reopened from disk, where pieces may
\* have gone bad meanwhile.
Crash(n) ==
    /\ Spend("crash")
    /\ \E rotten \in {x \in SUBSET Pieces : Cardinality(x) <= budget.rot} :
          engine' = [engine EXCEPT ![n] = NewEngine(open(@.cache, rotten), @.members)]
    /\ pending' = [pending EXCEPT ![n] = <<>>]
    /\ sends' = [sends EXCEPT ![n] = {}]
    /\ UNCHANGED <<net, finished>>

-----------------------------------------------------------------------------
(* The owner's requests (FileService::execute).                            *)

Keep(n, e) ==
    /\ engine' = [engine EXCEPT ![n] = e]
    /\ finished' = IF Status(e) = "complete" THEN finished \cup {n} ELSE finished
    /\ UNCHANGED <<sends, net>>

Import(n) ==
    /\ n = Importer
    /\ own_scope(engine[n], n)
    /\ Status(engine[n]) \in {"absent", "importing"} /\ Importer \notin finished
    /\ \E o \in begin_import(engine[n].cache)
               \cup UNION {import_piece(engine[n].cache, i) : i \in Pieces \ engine[n].cache.entry.have} :
          o.res # "refused" /\ Keep(n, [engine[n] EXCEPT !.cache = o.c])
    /\ UNCHANGED <<pending, budget>>

Commit(n) ==
    /\ n = Importer
    /\ own_scope(engine[n], n)
    /\ Status(engine[n]) = "importing"
    /\ \E o \in finish_import(engine[n].cache) :
          /\ o.res # "refused"
          /\ Keep(n, [engine[n] EXCEPT !.cache = o.c])
          /\ LET peers == Ascending(engine[n].members \ {n})
                 room  == PENDING_LIMIT - Len(pending[n])
             IN  pending' = [pending EXCEPT ![n] =
                    IF o.res # "ok" THEN @
                    ELSE @ \o SubSeq([k \in DOMAIN peers |-> Action(peers[k], Offers(TRUE))], 1,
                                     Least(room, Len(peers)))]
    /\ UNCHANGED budget

Accept(n) ==
    /\ own_scope(engine[n], n)
    /\ Status(engine[n]) \in {"offered", "paused"}
    /\ \E o \in accept(engine[n].cache) :
          Keep(n, [engine[n] EXCEPT !.cache = o.c, !.refresh = IF o.res = "ok" THEN TRUE ELSE @])
    /\ UNCHANGED <<pending, budget>>

Pause(n) ==
    /\ Spend("user")
    /\ own_scope(engine[n], n)
    /\ Status(engine[n]) = "downloading"
    /\ \E o \in pause(engine[n].cache) :
          Keep(n, [engine[n] EXCEPT !.cache = o.c, !.pulls = IF o.res = "ok" THEN {} ELSE @])
    /\ UNCHANGED pending

Cancel(n) ==
    /\ Spend("user")
    /\ Status(engine[n]) \notin {"absent", "cancelled"}
    /\ \E o \in cancel(engine[n].cache) :
          Keep(n, [engine[n] EXCEPT !.cache = o.c, !.pulls = IF o.res = "ok" THEN {} ELSE @])
    /\ UNCHANGED pending

\* Retention ends: the tick's expiry removes the share, tombstone first.
Expire(n) ==
    /\ Spend("user")
    /\ Status(engine[n]) \in {"complete", "offered", "cancelled"}
    /\ \E o \in remove(engine[n].cache) :
          \E e \in {[engine[n] EXCEPT !.cache = o.c]} :
             IF o.res = "ok" THEN Step(n, e, <<>>, NothingDue, net, {})
             ELSE Apply(n, e, pending[n], <<>>, net, {})

Next ==
    \/ Lose
    \/ \E n \in Nodes :
          \/ OnInterval(n) \/ OnSilence(n) \/ OnCompletion(n) \/ OnEvent(n)
          \/ Import(n) \/ Commit(n) \/ Accept(n) \/ Return(n)
    \/ \E n \in Nodes \cap budget.disturbed :
          \/ OnEarlyTimer(n) \/ OnCompletionLocked(n) \/ OnEventExpiryFails(n)
          \/ Leave(n) \/ Crash(n) \/ Pause(n) \/ Cancel(n) \/ Expire(n)

Spec == Init /\ [][Next]_vars

\* A worker that runs keeps taking events, completions and intervals, and the
\* owner imports and accepts.
Progress ==
    \E n \in Nodes :
        \/ Import(n) \/ Commit(n) \/ Accept(n)
        \/ OnCompletion(n) \/ OnEvent(n) \/ OnInterval(n)

\* Between two silences the exchange is finite, so that one fair choice among
\* its steps is enough; a silence ends with every worker's interval, some time.
\* A member that lost its membership gets it back.
FairSpec ==
    /\ Spec
    /\ WF_vars(Progress)
    /\ \A n \in Nodes : SF_vars(OnSilence(n)) /\ WF_vars(Return(n))

-----------------------------------------------------------------------------
\* Every piece a node counts as held, in memory or in its journal, is on its
\* disk, whichever write failed or wherever it crashed (put, cancel, remove).
HeldIsOnDisk == \A n \in Nodes : Backed(engine[n].cache)

Owned(n) == sends[n] \cup Tokens(pending[n])

\* The attempts in the worker's hands whose end the engine waits for: a block
\* without a running timer has one, a block with one has none, and likewise for
\* a discovery.  Otherwise a block would be waited for without an end, or asked
\* for twice at once (fill_window, tick, send_finished).  The one way to lose an
\* attempt is a failed expiry, which drops what `receive` asked for.
EveryAttemptOwned ==
    \A n \in Nodes :
        LET owned(waits, token) ==
                /\ waits => token \in Owned(n) \cup budget.dropped
                /\ token \in Owned(n) => waits
        IN  /\ \A q \in engine[n].pulls : \A a \in q.asked :
                  owned(a.timer = "host", PieceToken(q, a.block))
            /\ \A d \in engine[n].discovery :
                  owned(d.state = "pending", DiscoveryToken(d))

\* Verified pieces survive restarts, pauses and failed writes: a share that is
\* neither cancelled nor removed loses just the pieces whose bytes went bad
\* (open, put, failure).
ProgressKept ==
    [][\A n \in Nodes :
          \/ Status(engine[n])' \in {"absent", "cancelled"}
          \/ engine[n].cache.entry.have \ engine'[n].cache.entry.have
                \subseteq engine[n].cache.files \ engine'[n].cache.files]_vars

Holds(n) == Status(engine[n]) = "complete"

\* Lost records, restarts, refused sends and absences only delay an exchange:
\* once they are over and the importer serves the share, no member stays with a
\* wanted share it never gets, and the importer counts every member that has it.
\* An attempt dropped by a failed expiry is the exception.
TransferSettles ==
    <>[](\/ ~Holds(Importer) \/ budget.dropped # {}
         \/ \A n \in Nodes \ {Importer} :
               /\ Status(engine[n]) # "downloading"
               /\ Holds(n) => n \in engine[Importer].cache.entry.by)
=============================================================================
