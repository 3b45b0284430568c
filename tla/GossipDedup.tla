----------------------------- MODULE GossipDedup -----------------------------
(* The duplicate filter of the gossip overlay (gossip/src/dedup.rs): a map     *)
(* from message id to the stamp of its latest sighting, and a queue of         *)
(* sightings whose superseded entries are skipped lazily.                      *)
EXTENDS Naturals, FiniteSets, SequencesExt

CONSTANTS
    Ids,        \* message ids
    Cap,        \* capacity
    MaxClock    \* bound: sightings in one behaviour

VARIABLES seen, order, clock

vars == <<seen, order, clock>>

Init == seen = <<>> /\ order = <<>> /\ clock = 0

Entry(id, stamp) == [id |-> id, stamp |-> stamp]

(* An entry is live while its stamp is the latest of its id.                   *)
Live(s, e) == e.id \in DOMAIN s /\ s[e.id] = e.stamp

FirstLive(s, q) == SelectInSeq(q, LAMBDA e : Live(s, e))
After(q, k) == SubSeq(q, k + 1, Len(q))

Sighted(s, id, stamp) == [i \in DOMAIN s \cup {id} |-> IF i = id THEN stamp ELSE s[i]]
Without(s, id) == [i \in DOMAIN s \ {id} |-> s[i]]

(* evict, for one id above capacity: everything up to the first live entry.    *)
Evicted(s, q) ==
    LET k == FirstLive(s, q)
    IN CASE Cardinality(DOMAIN s) <= Cap -> <<s, q>>
         [] Cardinality(DOMAIN s) > Cap /\ k = 0 -> <<s, <<>>>>
         [] OTHER -> <<Without(s, q[k].id), After(q, k)>>

(* compact: superseded entries are popped while the queue is too long; the     *)
(* first live one goes to the back, with its stamp, and ends it.               *)
Compacted(s, q) ==
    LET k      == FirstLive(s, q)
        excess == Len(q) - 2 * Cap
    IN CASE Len(q) <= 2 * Cap -> q
         [] Len(q) > 2 * Cap /\ k \in 1..excess -> Append(After(q, k), q[k])
         [] OTHER -> After(q, excess)

CheckAndInsert(id) ==
    LET s == Sighted(seen, id, clock + 1)
        q == Append(order, Entry(id, clock + 1))
    IN /\ clock < MaxClock
       /\ clock' = clock + 1
       /\ \/ /\ id \in DOMAIN seen
             /\ seen' = s
             /\ order' = Compacted(s, q)
          \/ /\ id \notin DOMAIN seen
             /\ seen' = Evicted(s, q)[1]
             /\ order' = Evicted(s, q)[2]

Forget(id) ==
    /\ seen' = Without(seen, id)
    /\ order' = SelectSeq(order, LAMBDA e : e.id # id)
    /\ UNCHANGED clock

ForgetAll ==
    /\ seen' = <<>>
    /\ order' = <<>>
    /\ UNCHANGED clock

Next ==
    \/ \E id \in Ids : CheckAndInsert(id)
    \/ \E id \in Ids : Forget(id)
    \/ ForgetAll

Spec == Init /\ [][Next]_vars

-----------------------------------------------------------------------------
(* "Still live: re-append so recency order is preserved." Eviction takes the   *)
(* first live entry, so it takes the stalest id only if this holds.            *)
RecencyOrderPreserved ==
    \A i, j \in DOMAIN order :
        i < j /\ Live(seen, order[i]) /\ Live(seen, order[j]) => order[i].stamp < order[j].stamp
=============================================================================
