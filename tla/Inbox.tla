-------------------------------- MODULE Inbox --------------------------------
(***************************************************************************)
(* The durable session inbox of src/agent/src/turbo_agent_inbox.c: many    *)
(* producers enqueue user messages, one consumer claims them for a run and *)
(* resolves each claim with mark_applied or requeue, and a new inbox is    *)
(* rebuilt from the store after a crash.                                   *)
(*                                                                         *)
(* A section under the inbox mutex is one step and so is a store put; the  *)
(* code releases the mutex around every put.  A put may fail; with         *)
(* LostReplies it may also fail after it was applied.  The runs a claim    *)
(* names are records of the runtime store (variable events), written by the*)
(* consumer's environment; Session.tla replaces it by the session's code.  *)
(***************************************************************************)
EXTENDS Naturals, Sequences, FiniteSets, FiniteSetsExt

CONSTANTS
    Steers, FollowUps,  \* messages producers try to enqueue, by kind
    Patient,            \* producers that wait without a timeout
    Bytes,              \* Bytes[i]: serialized size of message i
    MaxItems, MaxBytes, \* config.max_items, config.max_total_bytes
    Runs,               \* run ids
    LostReplies,        \* TRUE: a failed put may have been applied
    MaxTransitions,     \* bound: transition_seq of one item
    MaxCrashes          \* bound: number of crashes

Items == Steers \union FollowUps
Kinds == {"steer", "follow_up"}
Kind(i) == IF i \in Steers THEN "steer" ELSE "follow_up"

ASSUME InboxConstants ==
    /\ Steers \intersect FollowUps = {}
    /\ Patient \subseteq Items
    /\ Bytes \in [Items -> Nat]
    /\ LostReplies \in BOOLEAN
    /\ MaxItems \in Nat \ {0} /\ MaxBytes \in Nat \ {0}
    /\ \A i \in Items : Bytes[i] \in 1..MaxBytes
    /\ MaxTransitions \in Nat /\ MaxCrashes \in Nat

None == "none"

(* An empty active_claim. *)
NoClaim == [id |-> None, sequence |-> 0, seq |-> 0, run |-> None, bound |-> FALSE]

VARIABLES
    \* the store
    payload,    \* payload[i]: sequence number in inbox_payloads, 0 if absent
    log,        \* log[i]: records of i in inbox_transitions, in write order
    events,     \* events[r]: items whose event is in the stored state of run r
    \* the inbox object
    mode,       \* "down", "recovering" or "up"
    pending,    \* payloads recover has still to look at
    ready,      \* deque of [id, sequence, seq]
    used,       \* [items, bytes]
    reserved,   \* [items, bytes]
    nextSequence,
    closed,
    claim,      \* active_claim with the claiming run, or NoClaim
    consumer,   \* "idle", or "claiming" between claim's two critical sections
    \* producers, one per message
    producer,   \* producer[i]: where enqueue(i) is
    ticket,     \* ticket[i]: the sequence it reserved
    crashes

store == <<payload, log, events>>
object == <<mode, pending, ready, used, reserved, nextSequence, closed>>
claims == <<claim, consumer>>
producers == <<producer, ticket>>
vars == <<store, object, claims, producers, crashes>>

Waiting == {"asleep", "awake"}
Busy == {"reserved", "payload", "publish", "abandon"}
ProducerSteps == {"new", "accepted", "refused", "lost"} \union Waiting \union Busy

(* The bytes of a set of messages, counted one by one. *)
BytesOf(S) == UNION {{i} \X (1..Bytes[i]) : i \in S}
Size(S) == [items |-> Cardinality(S), bytes |-> Cardinality(BytesOf(S))]
Add(s, i) == [items |-> s.items + 1, bytes |-> s.bytes + Bytes[i]]
Remove(s, i) == [items |-> s.items - 1, bytes |-> s.bytes - Bytes[i]]

TransitionSeqs == 1..(MaxTransitions + 1)
Transition(n, status, run) == [seq |-> n, status |-> status, run |-> run]

TypeOK ==
    /\ payload \in [Items -> 0..(2 * Cardinality(Items))]
    /\ \A i \in Items : log[i] \in
          Seq([seq : TransitionSeqs, status : {"queued", "claimed", "applied"},
               run : Runs \union {None}])
    /\ events \in [Runs -> SUBSET Items]
    /\ mode \in {"down", "recovering", "up"}
    /\ pending \subseteq Items
    /\ ready \in Seq([id : Items, sequence : Nat, seq : TransitionSeqs])
    /\ used \in [items : 0..MaxItems, bytes : 0..MaxBytes]
    /\ reserved \in [items : 0..MaxItems, bytes : 0..MaxBytes]
    /\ nextSequence \in Nat \ {0}
    /\ closed \in BOOLEAN
    /\ claim # NoClaim => /\ claim.id \in Items /\ claim.run \in Runs
                       /\ claim.bound \in BOOLEAN
                       /\ claim.seq \in TransitionSeqs
    /\ consumer \in {"idle", "claiming"}
    /\ producer \in [Items -> ProducerSteps]
    /\ crashes \in 0..MaxCrashes

Init ==
    /\ payload = [i \in Items |-> 0]
    /\ log = [i \in Items |-> <<>>]
    /\ events = [r \in Runs |-> {}]
    /\ mode = "up"
    /\ pending = {}
    /\ ready = <<>>
    /\ used = Size({})
    /\ reserved = Size({})
    /\ nextSequence = 1
    /\ closed = FALSE
    /\ claim = NoClaim
    /\ consumer = "idle"
    /\ producer = [i \in Items |-> "new"]
    /\ ticket = [i \in Items |-> 0]
    /\ crashes = 0

-----------------------------------------------------------------------------
(* ready_insert: pushed at the back, then moved forward past every entry   *)
(* with a higher sequence until one with a lower or equal sequence.        *)
ReadyInsert(q, e) ==
    LET k == Max({0} \union {j \in 1..Len(q) : q[j].sequence <= e.sequence})
    IN  SubSeq(q, 1, k) \o <<e>> \o SubSeq(q, k + 1, Len(q))

OfKind(q, k) == {j \in 1..Len(q) : Kind(q[j].id) = k}

(* ready_take_kind: entries of the other kind in front of the first match  *)
(* have been rotated to the back when the match is taken.                  *)
ReadyTakeKind(q, k) ==
    LET j == Min(OfKind(q, k))
    IN  [entry |-> q[j], rest |-> SubSeq(q, j + 1, Len(q)) \o SubSeq(q, 1, j - 1)]

(* latest_transition: the first record with the highest transition_seq. *)
Latest(i) ==
    LET top == Max({log[i][j].seq : j \in DOMAIN log[i]})
    IN  log[i][Min({j \in DOMAIN log[i] : log[i][j].seq = top})]

Visible(i) == log[i] # <<>>

(* has_capacity *)
HasCapacity(i) ==
    /\ used.items + reserved.items < MaxItems
    /\ used.bytes + reserved.bytes + Bytes[i] <= MaxBytes

(* cond_broadcast on changed, by producer i moving to step s. *)
BroadcastAnd(i, s) ==
    producer' = [p \in Items |->
        IF p = i THEN s ELSE IF producer[p] = "asleep" THEN "awake" ELSE producer[p]]

Broadcast ==
    producer' = [p \in Items |-> IF producer[p] = "asleep" THEN "awake" ELSE producer[p]]

Step(i, s) == producer' = [producer EXCEPT ![i] = s]

(* Bound on retries of a put that was applied each time. *)
ShortLogs == \A i \in Items : Len(log[i]) < MaxTransitions

(* The outcomes of a put that writes w on success: applied, not applied,   *)
(* or, with LostReplies, applied and reported as failed.                   *)
Put(w, onSuccess, onFailure, unchanged) ==
    \/ w /\ onSuccess
    \/ unchanged /\ onFailure
    \/ LostReplies /\ ShortLogs /\ w /\ onFailure

Append1(i, t) == log' = [log EXCEPT ![i] = Append(@, t)]

-----------------------------------------------------------------------------
(* enqueue, wait_for_capacity and the reservation, under the mutex. *)
Reserve(i) ==
    /\ mode = "up" /\ producer[i] \in {"new", "awake"}
    /\ ~closed /\ HasCapacity(i)
    /\ reserved' = Add(reserved, i)
    /\ ticket' = [ticket EXCEPT ![i] = nextSequence]
    /\ nextSequence' = nextSequence + 1
    /\ Step(i, "reserved")
    /\ UNCHANGED <<store, mode, pending, ready, used, closed, claims, crashes>>

(* wait_for_capacity blocks. *)
Sleep(i) ==
    /\ mode = "up" /\ producer[i] \in {"new", "awake"}
    /\ ~closed /\ ~HasCapacity(i)
    /\ Step(i, "asleep")
    /\ UNCHANGED <<store, object, claims, ticket, crashes>>

(* wait_for_capacity gives up: ECANCELED when closed, EBUSY in time. *)
GiveUp(i) ==
    /\ mode = "up"
    /\ \/ producer[i] \in {"new", "awake"} /\ closed
       \/ producer[i] = "asleep" /\ i \notin Patient
    /\ Step(i, "refused")
    /\ UNCHANGED <<store, object, claims, ticket, crashes>>

(* enqueue, put of the payload. *)
PutPayload(i) ==
    /\ producer[i] = "reserved"
    /\ Put(payload' = [payload EXCEPT ![i] = ticket[i]],
           Step(i, "payload"), Step(i, "abandon"), UNCHANGED payload)
    /\ UNCHANGED <<log, events, object, claims, ticket, crashes>>

(* enqueue, put of the first transition: queue-visible from here on. *)
PutQueued(i) ==
    /\ producer[i] = "payload"
    /\ Put(Append1(i, Transition(1, "queued", None)),
           Step(i, "publish"), Step(i, "abandon"), UNCHANGED log)
    /\ UNCHANGED <<payload, events, object, claims, ticket, crashes>>

(* enqueue, second critical section: the reservation becomes use. *)
Publish(i) ==
    /\ producer[i] = "publish"
    /\ reserved' = Remove(reserved, i)
    /\ used' = Add(used, i)
    /\ ready' = ReadyInsert(ready, [id |-> i, sequence |-> ticket[i], seq |-> 1])
    /\ BroadcastAnd(i, "accepted")
    /\ UNCHANGED <<store, mode, pending, nextSequence, closed, claims, ticket, crashes>>

(* Faulty variant: a failed enqueue frees its reservation silently. *)
AbandonSilently(i) ==
    /\ producer[i] = "abandon"
    /\ reserved' = Remove(reserved, i)
    /\ Step(i, "refused")
    /\ UNCHANGED <<store, mode, pending, ready, used, nextSequence, closed, claims,
                   ticket, crashes>>

(* enqueue, cleanup after a failed put. *)
Abandon(i) ==
    /\ producer[i] = "abandon"
    /\ reserved' = Remove(reserved, i)
    /\ BroadcastAnd(i, "refused")
    /\ UNCHANGED <<store, mode, pending, ready, used, nextSequence, closed, claims,
                   ticket, crashes>>

Produce(i) ==
    \/ Reserve(i) \/ Sleep(i) \/ GiveUp(i) \/ PutPayload(i) \/ PutQueued(i)
    \/ Publish(i) \/ Abandon(i)

-----------------------------------------------------------------------------
(* claim, first critical section: an entry of kind k becomes the active    *)
(* claim for run r.                                                        *)
Take(k, r) ==
    /\ mode = "up" /\ consumer = "idle"
    /\ ~closed /\ claim = NoClaim
    /\ OfKind(ready, k) # {}
    /\ LET taken == ReadyTakeKind(ready, k) IN
          /\ taken.entry.seq + 2 <= MaxTransitions
          /\ ready' = taken.rest
          /\ claim' = [id |-> taken.entry.id, sequence |-> taken.entry.sequence,
                       seq |-> taken.entry.seq, run |-> r, bound |-> FALSE]
    /\ consumer' = "claiming"
    /\ UNCHANGED <<store, mode, pending, used, reserved, nextSequence, closed,
                   producers, crashes>>

Entry(c, n) == [id |-> c.id, sequence |-> c.sequence, seq |-> n]

(* claim, the put and the second critical section: a failure puts the      *)
(* entry back where it belongs.                                            *)
PutClaimed ==
    /\ consumer = "claiming"
    /\ consumer' = "idle"
    /\ Put(Append1(claim.id, Transition(claim.seq + 1, "claimed", claim.run)),
           /\ claim' = [claim EXCEPT !.seq = @ + 1]
           /\ UNCHANGED <<ready, producer>>,
           /\ claim' = NoClaim
           /\ ready' = ReadyInsert(ready, Entry(claim, claim.seq))
           /\ Broadcast,
           UNCHANGED log)
    /\ UNCHANGED <<payload, events, mode, pending, used, reserved, nextSequence,
                   closed, ticket, crashes>>

Claimed == mode = "up" /\ consumer = "idle" /\ claim # NoClaim

(* bind_applied_event *)
Bind ==
    /\ Claimed /\ ~claim.bound
    /\ claim' = [claim EXCEPT !.bound = TRUE]
    /\ UNCHANGED <<store, object, consumer, producers, crashes>>

(* mark_applied of the active claim: put, then the capacity is released.   *)
(* A failed put leaves the claim as it is, to be retried.  resolve_entry   *)
(* also looks up an item that is not the active claim: it is refused, save *)
(* for a claim that is stored though claim() failed, which the header lets *)
(* nobody resolve ("A successful claim must reach exactly one of ..").     *)
MarkApplied ==
    /\ Claimed
    /\ Put(Append1(claim.id, Transition(claim.seq + 1, "applied", None)),
           claim' = NoClaim /\ used' = Remove(used, claim.id) /\ Broadcast,
           UNCHANGED <<claim, used, producer>>,
           UNCHANGED log)
    /\ UNCHANGED <<payload, events, mode, pending, ready, reserved, nextSequence,
                   closed, consumer, ticket, crashes>>

(* requeue of the active claim. *)
Requeue ==
    /\ Claimed
    /\ Put(Append1(claim.id, Transition(claim.seq + 1, "queued", None)),
           /\ claim' = NoClaim
           /\ ready' = ReadyInsert(ready, Entry(claim, claim.seq + 1))
           /\ Broadcast,
           UNCHANGED <<claim, ready, producer>>,
           UNCHANGED log)
    /\ UNCHANGED <<payload, events, mode, pending, used, reserved, nextSequence,
                   closed, consumer, ticket, crashes>>

(* close *)
Close ==
    /\ mode = "up" /\ ~closed
    /\ closed' = TRUE
    /\ Broadcast
    /\ UNCHANGED <<store, mode, pending, ready, used, reserved, nextSequence,
                   claims, ticket, crashes>>

-----------------------------------------------------------------------------
(* The process dies: the object and every enqueue in progress are gone.    *)
(* inbox_destroy and a failed create leave the same state behind.          *)
Down ==
    /\ mode' = "down" /\ pending' = {} /\ ready' = <<>>
    /\ used' = Size({}) /\ reserved' = Size({})
    /\ nextSequence' = 1 /\ closed' = FALSE
    /\ claim' = NoClaim /\ consumer' = "idle"

Crash ==
    /\ mode # "down" /\ crashes < MaxCrashes
    /\ crashes' = crashes + 1
    /\ Down
    /\ producer' = [i \in Items |->
          IF producer[i] \in Waiting \union Busy THEN "lost" ELSE producer[i]]
    /\ UNCHANGED <<store, ticket>>

(* create: recover lists the payloads of the thread. *)
Create ==
    /\ mode = "down"
    /\ mode' = "recovering"
    /\ pending' = {i \in Items : payload[i] # 0}
    /\ UNCHANGED <<store, ready, used, reserved, nextSequence, closed, claims,
                   producers, crashes>>

(* recover admits i with transition number n to the queue, or fails with   *)
(* EBUSY when the configured capacity is exceeded.                         *)
Admit(i, n) ==
    IF used.items = MaxItems \/ used.bytes + Bytes[i] > MaxBytes
    THEN Down
    ELSE /\ used' = Add(used, i)
         /\ ready' = ReadyInsert(ready, [id |-> i, sequence |-> payload[i], seq |-> n])
         /\ pending' = pending \ {i}
         /\ nextSequence' = Max({nextSequence, payload[i] + 1})
         /\ UNCHANGED <<mode, reserved, closed, claims>>

(* recover passes over i: an uncommitted enqueue, or an applied item. *)
Skip(i) ==
    /\ pending' = pending \ {i}
    /\ nextSequence' = IF Visible(i) THEN Max({nextSequence, payload[i] + 1})
                       ELSE nextSequence
    /\ UNCHANGED <<mode, ready, used, reserved, closed, claims>>

(* recover, a claimed item: applied when the event is in the stored state  *)
(* of the run that claimed it, requeued otherwise.  A failed read or put   *)
(* fails the whole create.                                                 *)
RecoverClaimed(i) ==
    LET last == Latest(i)
        applied == i \in events[last.run]
    IN  \/ /\ Append1(i, Transition(last.seq + 1,
                                    IF applied THEN "applied" ELSE "queued", None))
           /\ IF applied THEN Skip(i) ELSE Admit(i, last.seq + 1)
        \/ Down /\ UNCHANGED log
        \/ /\ LostReplies /\ ShortLogs
           /\ Append1(i, Transition(last.seq + 1,
                                    IF applied THEN "applied" ELSE "queued", None))
           /\ Down

(* recover, one payload: load_ready and what its latest transition says. *)
RecoverItem(i) ==
    /\ mode = "recovering" /\ i \in pending
    /\ \/ ~Visible(i) /\ Skip(i) /\ UNCHANGED log
       \/ /\ Visible(i)
          /\ \/ Latest(i).status = "applied" /\ Skip(i) /\ UNCHANGED log
             \/ Latest(i).status = "queued" /\ Admit(i, Latest(i).seq) /\ UNCHANGED log
             \/ Latest(i).status = "claimed" /\ RecoverClaimed(i)
    /\ UNCHANGED <<payload, events, producers, crashes>>

Recovered ==
    /\ mode = "recovering" /\ pending = {}
    /\ mode' = "up"
    /\ UNCHANGED <<store, pending, ready, used, reserved, nextSequence, closed, claims,
                   producers, crashes>>

Restart == Create \/ (\E i \in Items : RecoverItem(i)) \/ Recovered

-----------------------------------------------------------------------------
(* A consumer that keeps to turbo_agent_inbox.h: it binds the event, the   *)
(* event becomes durable in the run the claim names, and only then is the  *)
(* claim marked applied; it is requeued only while no event is durable.    *)
PersistEvent ==
    /\ Claimed /\ claim.bound
    /\ events' = [events EXCEPT ![claim.run] = @ \union {claim.id}]
    /\ UNCHANGED <<payload, log, object, claims, producers, crashes>>

Consume ==
    \/ \E k \in Kinds, r \in Runs : Take(k, r)
    \/ PutClaimed
    \/ Bind
    \/ PersistEvent
    \/ claim # NoClaim /\ claim.id \in events[claim.run] /\ MarkApplied
    \/ claim # NoClaim /\ claim.id \notin events[claim.run] /\ Requeue

Next == (\E i \in Items : Produce(i)) \/ Consume \/ Close \/ Crash \/ Restart

Spec == Init /\ [][Next]_vars

-----------------------------------------------------------------------------
InReady == {ready[j].id : j \in 1..Len(ready)}
InClaim == IF claim = NoClaim THEN {} ELSE {claim.id}
InFlight == {i \in Items : producer[i] \in Busy}

(* Capacity accounting: used counts exactly the queued and claimed items,  *)
(* reserved exactly the enqueues in flight, no item is held twice, and     *)
(* together they stay within max_items and max_total_bytes (enqueue,       *)
(* claim, mark_applied and requeue, interleaved with each other).          *)
Accounting ==
    mode = "up" =>
        /\ Cardinality(InReady) = Len(ready)
        /\ InReady \intersect InClaim = {}
        /\ used = Size(InReady \union InClaim)
        /\ reserved = Size(InFlight)
        /\ used.items + reserved.items <= MaxItems
        /\ used.bytes + reserved.bytes <= MaxBytes

(* A blocked producer has a reason to be blocked: whoever frees capacity   *)
(* or closes the inbox wakes it.                                           *)
NoLostWakeUp ==
    \A i \in Items : producer[i] = "asleep" => ~closed /\ ~HasCapacity(i)

(* No step, of recovery or of a late requeue, takes an applied item back   *)
(* into the queue.                                                         *)
AppliedIsFinalStep ==
    \A i \in Items : log'[i] # log[i] /\ Visible(i) /\ Latest(i).status = "applied" =>
       Latest(i)'.status = "applied"
AppliedIsFinal == [][AppliedIsFinalStep]_vars

(* The inbox counts its capacity exactly, keeps no producer asleep without *)
(* a reason and never takes an applied item back, over failed puts, lost   *)
(* replies, crashes and recovery.                                          *)
InboxSound == [](Accounting /\ NoLostWakeUp) /\ AppliedIsFinal

=============================================================================
