-------------------------------- MODULE Outbox --------------------------------
(***************************************************************************)
(* The durable event path: rows written to the outbox inside a business    *)
(* transaction (infra/outbox.ts), shipped in batches by the workers        *)
(* (workers/jobs/outboxShipper.ts), consumed (workers/consumers.ts) and    *)
(* purged (workers/jobs/retention.ts).                                     *)
(*                                                                         *)
(* Two kinds of shipper run shipOutboxBatch: the scheduled job, one at a   *)
(* time under its advisory lock (scheduler.ts), and the LISTEN wakeup of   *)
(* each worker process, which takes no lock (workers/index.ts).  The rows  *)
(* of a shipper's batch stay locked until its transaction ends; SKIP       *)
(* LOCKED passes over them.                                                *)
(*                                                                         *)
(* An event is its outbox id: ids are handed out in order at INSERT, not   *)
(* at COMMIT.  X_Fault is X with a fault; nothing here uses it.            *)
(***************************************************************************)
EXTENDS Integers, Sequences, FiniteSets, SequencesExt

CONSTANTS
    NEvents,      \* bound: how many events are written
    PartitionOf,  \* partition_key of each event
    KindOf,       \* "push": the consumer does its work at once, and may repeat it;
                  \* "claim": it first commits a claim, and works only if that is new
    Poison,       \* events whose consumer always throws
    Job, Wakes,   \* the scheduled shipper and the wakeups
    BatchSize,    \* BATCH_SIZE
    MaxAttempts,  \* MAX_ATTEMPTS
    MaxMishaps    \* bound: crashes of a shipper and passing failures of a consumer

VARIABLES
    txn,          \* the business transaction that writes each event
    row,          \* the event's row, as committed: absent, ready, published, purged
    attempts,     \* the row's attempts column
    ship,         \* per shipper: whether it runs, its batch, how far it has come
    claimed,      \* events whose consumer has committed its claim
    acted,        \* consumer work done, in order
    mishaps       \* crashes and passing failures so far

outboxVars == <<txn, row, attempts, ship, claimed, acted, mishaps>>

Events   == 1..NEvents
Shippers == Wakes \cup {Job}
Idle     == [at |-> "idle", batch |-> <<>>, pos |-> 1]

\* What the constants are, asserted where an instance is run.
OutboxConstants ==
    /\ {NEvents, BatchSize, MaxAttempts} \subseteq Nat \ {0} /\ MaxMishaps \in Nat
    /\ KindOf \in [Events -> {"push", "claim"}] /\ Poison \subseteq Events
    /\ Job \notin Wakes

Shipper == [at : {"idle", "consume", "work"}, batch : Seq(Events), pos : Nat]

ShipOK ==
    /\ ship \in [Shippers -> Shipper]
    /\ \A s \in Shippers :
         /\ ship[s].pos \in 1..(Len(ship[s].batch) + 1)
         /\ ship[s].at = "idle" => ship[s] = Idle
         /\ ship[s].at = "work" =>
              ship[s].pos \in DOMAIN ship[s].batch /\ ship[s].batch[ship[s].pos] \in claimed

OutboxTypeOK ==
    /\ txn \in [Events -> {"none", "open", "committed", "aborted"}]
    /\ row \in [Events -> {"absent", "ready", "published", "purged"}]
    /\ attempts \in [Events -> 0..MaxAttempts]
    /\ ShipOK
    /\ claimed \subseteq Events /\ acted \in Seq(Events)
    /\ mishaps \in 0..MaxMishaps

OutboxInit ==
    /\ txn = [e \in Events |-> "none"] /\ row = [e \in Events |-> "absent"]
    /\ attempts = [e \in Events |-> 0]
    /\ ship = [s \in Shippers |-> Idle]
    /\ claimed = {} /\ acted = <<>> /\ mishaps = 0

-----------------------------------------------------------------------------
(* Writing events                                                          *)

Enqueue_Fault(e) ==
    /\ txn[e] = "none" /\ \A d \in 1..(e - 1) : txn[d] # "none"
    /\ \A d \in 1..(e - 1) : PartitionOf[d] = PartitionOf[e] => txn[d] # "open"
    /\ txn' = [txn EXCEPT ![e] = "open"] /\ row' = [row EXCEPT ![e] = "ready"]
    /\ UNCHANGED <<attempts, ship, claimed, acted, mishaps>>

\* enqueueEvent, on the business transaction's client.  Events of one key come
\* from one room, battle or user whose row orders them: the next is written
\* when the transaction of the one before has ended.
Enqueue(e) ==
    /\ txn[e] = "none" /\ \A d \in 1..(e - 1) : txn[d] # "none"
    /\ \A d \in 1..(e - 1) : PartitionOf[d] = PartitionOf[e] => txn[d] # "open"
    /\ txn' = [txn EXCEPT ![e] = "open"]
    /\ UNCHANGED <<row, attempts, ship, claimed, acted, mishaps>>

EndTxn(e, how) == txn[e] = "open" /\ txn' = [txn EXCEPT ![e] = how]

CommitTxn(e) ==
    /\ EndTxn(e, "committed")
    /\ row' = [row EXCEPT ![e] = "ready"]
    /\ UNCHANGED <<attempts, ship, claimed, acted, mishaps>>

AbortTxn(e) ==
    /\ EndTxn(e, "aborted")
    /\ UNCHANGED <<row, attempts, ship, claimed, acted, mishaps>>

-----------------------------------------------------------------------------
(* shipOutboxBatch                                                         *)

Locked_Fault(e) == FALSE

Locked(e) == \E s \in Shippers : e \in Range(ship[s].batch)

Eligible_Fault(e) == row[e] = "ready" /\ attempts[e] < MaxAttempts - 1 /\ ~Locked(e)

\* WHERE published_at IS NULL AND attempts < MAX_ATTEMPTS .. SKIP LOCKED
Eligible(e) == row[e] = "ready" /\ attempts[e] < MaxAttempts /\ ~Locked(e)

\* ORDER BY id LIMIT BATCH_SIZE: the oldest eligible events, in order.
Batches ==
    LET eligible == {e \in Events : Eligible(e)}
    IN  {q \in UNION {[1..n -> eligible] : n \in 1..BatchSize} :
           /\ \A i, j \in DOMAIN q : i < j => q[i] < q[j]
           /\ \A e \in eligible \ Range(q) :
                Len(q) = BatchSize /\ \A i \in DOMAIN q : q[i] < e}

Fetch(s) ==
    /\ ship[s].at = "idle"
    /\ \E q \in Batches : ship' = [ship EXCEPT ![s] = [at |-> "consume", batch |-> q, pos |-> 1]]
    /\ UNCHANGED <<txn, row, attempts, claimed, acted, mishaps>>

AtEvent(s) == ship[s].at = "consume" /\ ship[s].pos <= Len(ship[s].batch)
Current(s) == ship[s].batch[ship[s].pos]
Advance(s) == ship' = [ship EXCEPT ![s].at = "consume", ![s].pos = @ + 1]

\* consumeEvents, next event, a consumer whose work may be repeated.
Consume(s) ==
    /\ AtEvent(s) /\ Current(s) \notin Poison /\ KindOf[Current(s)] = "push"
    /\ acted' = Append(acted, Current(s))
    /\ Advance(s)
    /\ UNCHANGED <<txn, row, attempts, claimed, mishaps>>

Claim_Fault(s) ==
    /\ AtEvent(s) /\ Current(s) \notin Poison /\ KindOf[Current(s)] = "claim"
    /\ ship' = [ship EXCEPT ![s].at = "work"]
    /\ UNCHANGED <<txn, row, attempts, claimed, acted, mishaps>>

\* notifyFollowersLive: the claim (live_notifications, ON CONFLICT DO NOTHING)
\* commits on its own; when it is not new there is nothing to do.
Claim(s) ==
    /\ AtEvent(s) /\ Current(s) \notin Poison /\ KindOf[Current(s)] = "claim"
    /\ claimed' = claimed \cup {Current(s)}
    /\ IF Current(s) \in claimed THEN Advance(s)
       ELSE ship' = [ship EXCEPT ![s].at = "work"]
    /\ UNCHANGED <<txn, row, attempts, acted, mishaps>>

Work(s) ==
    /\ ship[s].at = "work"
    /\ acted' = Append(acted, Current(s))
    /\ Advance(s)
    /\ UNCHANGED <<txn, row, attempts, claimed, mishaps>>

FailBatch_Fault(s) ==
    /\ AtEvent(s)
    /\ IF Current(s) \in Poison THEN UNCHANGED mishaps
       ELSE mishaps < MaxMishaps /\ mishaps' = mishaps + 1
    /\ Advance(s)
    /\ UNCHANGED <<txn, row, attempts, claimed, acted>>

\* The consumer throws: every row of the batch counts the attempt, none ships.
FailBatch(s) ==
    /\ AtEvent(s)
    /\ IF Current(s) \in Poison THEN UNCHANGED mishaps
       ELSE mishaps < MaxMishaps /\ mishaps' = mishaps + 1
    /\ attempts' = [e \in Events |->
                      IF e \in Range(ship[s].batch) THEN attempts[e] + 1 ELSE attempts[e]]
    /\ ship' = [ship EXCEPT ![s] = Idle]
    /\ UNCHANGED <<txn, row, claimed, acted>>

\* The whole batch was consumed: UPDATE published_at, COMMIT.
MarkPublished(s) ==
    /\ ship[s].at = "consume" /\ ship[s].pos > Len(ship[s].batch)
    /\ row' = [e \in Events |-> IF e \in Range(ship[s].batch) THEN "published" ELSE row[e]]
    /\ ship' = [ship EXCEPT ![s] = Idle]
    /\ UNCHANGED <<txn, attempts, claimed, acted, mishaps>>

\* The process dies: the transaction rolls back, what consumers did stays.
Die(s) ==
    /\ ship[s].at # "idle" /\ mishaps < MaxMishaps
    /\ mishaps' = mishaps + 1
    /\ ship' = [ship EXCEPT ![s] = Idle]
    /\ UNCHANGED <<txn, row, attempts, claimed, acted>>

\* purgeShippedOutboxJob, thirty days later.
Purge(e) ==
    /\ row[e] = "published"
    /\ row' = [row EXCEPT ![e] = "purged"]
    /\ UNCHANGED <<txn, attempts, ship, claimed, acted, mishaps>>

-----------------------------------------------------------------------------
Step(s) == Consume(s) \/ Claim(s) \/ Work(s) \/ FailBatch(s) \/ MarkPublished(s)

OutboxNext ==
    \/ \E e \in Events : Enqueue(e) \/ CommitTxn(e) \/ AbortTxn(e) \/ Purge(e)
    \/ \E s \in Shippers : Fetch(s) \/ Step(s) \/ Die(s)

OutboxSpec == OutboxInit /\ [][OutboxNext]_outboxVars

\* The job polls every two seconds and a shipper that has a batch goes on with
\* it; a wakeup need never come, a notification may be missed.
OutboxFairSpec ==
    /\ OutboxSpec
    /\ WF_outboxVars(Fetch(Job))
    /\ \A s \in Shippers : WF_outboxVars(Step(s))

-----------------------------------------------------------------------------
(* Properties                                                              *)

Shipped(e) == row[e] \in {"published", "purged"}
Handled(e) == IF KindOf[e] = "push" THEN e \in Range(acted) ELSE e \in claimed

\* Transactional outbox: consumers act on what was committed and on nothing
\* else, though writers abort and shippers crash in between.
NoPhantom == \A e \in Range(acted) : txn[e] = "committed"

\* consumers.ts: a crash between an event and its consequence "delays the
\* consequence instead of losing it": no row counts as shipped, or is purged,
\* before its consumer has done its work, or has at least claimed it.  (A worker
\* that dies between the claim and the work loses the work.)
ShippedWasHandled == \A e \in Events : Shipped(e) => Handled(e)

\* Nothing went wrong so far: no crash, and no batch that failed.
Smooth == mishaps = 0 /\ \A e \in Events : attempts[e] = 0

\* At least once only where something went wrong: without a crash and without
\* a failed batch no two shippers, and no two runs of one, repeat an event.
OnceUnlessMishap ==
    Smooth => \A i, j \in DOMAIN acted : acted[i] = acted[j] => i = j

\* Both together: what consumers do is what was committed, once.
ActsOnCommitted == NoPhantom /\ OnceUnlessMishap

\* Why they hold, as one inductive invariant.  A row shippers can see is
\* committed; row locks keep the batches apart, and the rows of a batch stay
\* unshipped and below the limit of attempts until it ends.
RowsCommitted == \A e \in Events : row[e] # "absent" => txn[e] = "committed"

BatchesApart ==
    /\ \A s \in Shippers : \A i, j \in DOMAIN ship[s].batch :
         ship[s].batch[i] = ship[s].batch[j] => i = j
    /\ \A s, t \in Shippers, e \in Events :
         e \in Range(ship[s].batch) /\ e \in Range(ship[t].batch) => s = t

BatchesPending ==
    \A s \in Shippers : \A e \in Range(ship[s].batch) :
        row[e] = "ready" /\ attempts[e] < MaxAttempts

\* What a shipper has gone past in its batch was handled, and what it is working
\* on was claimed.
Past(s) == {i \in DOMAIN ship[s].batch : i < ship[s].pos}

PastIsHandled ==
    \A s \in Shippers :
        /\ \A i \in Past(s) : Handled(ship[s].batch[i])
        /\ ship[s].at = "work" => KindOf[Current(s)] = "claim"

\* While nothing went wrong, what was acted on has shipped or is in the part of
\* a batch that its shipper has gone past.
ActedIsPast ==
    Smooth => \A e \in Range(acted) :
        Shipped(e) \/ \E s \in Shippers : \E i \in Past(s) : ship[s].batch[i] = e

OutboxInv ==
    /\ OutboxTypeOK /\ RowsCommitted /\ BatchesApart /\ BatchesPending
    /\ PastIsHandled /\ ActedIsPast
    /\ NoPhantom /\ ShippedWasHandled /\ OnceUnlessMishap

\* outboxShipper.ts: "Ordering is guaranteed PER PARTITION KEY": the first time
\* an event is acted on, no later event of its key has been acted on already.
OrderPerKey ==
    \A i, j \in DOMAIN acted :
        /\ i < j /\ PartitionOf[acted[i]] = PartitionOf[acted[j]] /\ acted[i] > acted[j]
        => \E k \in 1..(i - 1) : acted[k] = acted[j]

\* A committed event is shipped in the end, or MAX_ATTEMPTS batches with it have
\* failed (outboxShipper.ts: "Give up after this many tries"): fewer failures, and
\* crashes of shippers however many, only delay it.
ShipsOrIsGivenUp ==
    \A e \in Events :
        txn[e] = "committed" ~> (Shipped(e) \/ attempts[e] = MaxAttempts)

\* A committed event whose own consumer works is shipped in the end (004_workers.sql:
\* "so nothing is ever stranded").  The code does not keep this: an event is given
\* up for the failures of others in its batches.
EveryEventShips ==
    \A e \in Events : (txn[e] = "committed" /\ e \notin Poison) ~> Shipped(e)
===============================================================================
