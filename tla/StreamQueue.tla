----------------------------- MODULE StreamQueue -----------------------------
(***************************************************************************)
(* The stream queue that rag/utils/ob_redis_conn.py builds on three        *)
(* OceanBase tables (message, message_subscribe, message_consumption), and *)
(* the consumer side of it in rag/svr/task_executor.py: the replay of      *)
(* unacknowledged messages at boot, the poll of the priority queues, the   *)
(* acknowledgement after the handler, crash and restart.                   *)
(*                                                                         *)
(* Statements of different connections interleave; the statements of one   *)
(* transaction are separate steps that hold the rows the first one locked. *)
(* There is one consumer group, as in the program                          *)
(* (SVR_CONSUMER_GROUP_NAME), so it has no name here.                      *)
(***************************************************************************)
EXTENDS Naturals, FiniteSets

CONSTANTS Consumers,   \* executor names (CONSUMER_NAME), one process each
          NumStreams,  \* number of priority queues
          MaxId,       \* bound: messages ever inserted
          MaxHeld,     \* MAX_CONCURRENT_TASKS: messages one process handles
          MayCrash,    \* bound: the executors that may crash
          MaxCrashes,  \* bound: their crashes
          MaxFaults    \* bound: database errors met by a consumer

ASSUME ConsumersAssumption == Consumers # {}
ASSUME BoundsAssumption ==
    /\ NumStreams \in Nat \ {0}
    /\ MaxId \in Nat /\ MaxHeld \in Nat
    /\ MaxCrashes \in Nat /\ MaxFaults \in Nat

Streams == 1..NumStreams   \* in the order of get_svr_queue_names()
Ids == 1..MaxId            \* values of message.id, an auto increment column

VARIABLES
    lastId,       \* auto increment counter of table message
    streamOf,     \* message.stream of every id handed out so far
    committed,    \* ids whose insert is visible
    consumed,     \* ids with message.consumed = true
    subscribed,   \* rows <<stream, consumer>> of message_subscribe
    consumption,  \* rows [consumer, id, ack] of message_consumption
    pc,           \* where the process of a consumer is
    at,           \* the stream that process is looking at
    cursor,       \* current_min of get_unacked_iterator
    head,         \* the id read by the open transaction, 0 for none
    rowLocks,     \* message_subscribe rows its transaction has locked
    inHand,       \* messages given to the handlers of the process
    crashes, faults,  \* how often these happened
    handed,       \* history: how often a message was handed to the process
                  \* since it booted
    stranded      \* history: messages an error took from a running process

dbVars == <<lastId, streamOf, committed, consumed, subscribed, consumption>>
procVars == <<pc, at, cursor, head, rowLocks, inHand>>
envVars == <<crashes, faults>>
histVars == <<handed, stranded>>
vars == <<dbVars, procVars, envVars, histVars>>

-----------------------------------------------------------------------------
(* What the queries return. *)

RowsOf(s) == {r \in subscribed : r[1] = s}
Exists(s) == \E i \in committed : streamOf[i] = s

\* "consumed = false", of one stream
Unread(s) == {i \in committed \ consumed : streamOf[i] = s}

PendingAnyAck(c, s, low) ==   \* mutant: no "ack = false" in the query
    {i \in Ids : streamOf[i] = s /\ i > low
                 /\ \E r \in consumption : r.consumer = c /\ r.id = i}

\* the consumer's own rows with "ack = false" and "message_id > current_min"
Pending(c, s, low) ==
    {i \in Ids : /\ streamOf[i] = s /\ i > low
                 /\ \E r \in consumption : r = [consumer |-> c, id |-> i, ack |-> FALSE]}

\* "order by ... limit 1"
Lowest(S, i) == i \in S /\ \A j \in S : i <= j

RowsFreeAlways(c) == TRUE   \* mutant: no "for update"

\* "select ... from message_subscribe where stream = ... for update wait 3"
RowsFree(c) == \A d \in Consumers \ {c} : rowLocks[d] \cap RowsOf(at[c]) = {}

ClaimedNever(i) == FALSE   \* mutant: no unique key on message_consumption

Claimed(i) == \E r \in consumption : r.id = i

-----------------------------------------------------------------------------
Init ==
    /\ lastId = 0 /\ streamOf = [i \in Ids |-> 0]
    /\ committed = {} /\ consumed = {} /\ subscribed = {} /\ consumption = {}
    /\ pc = [c \in Consumers |-> "replay"]
    /\ at = [c \in Consumers |-> 1]
    /\ cursor = [c \in Consumers |-> 0]
    /\ head = [c \in Consumers |-> 0]
    /\ rowLocks = [c \in Consumers |-> {}]
    /\ inHand = [c \in Consumers |-> {}]
    /\ crashes = 0 /\ faults = 0
    /\ handed = [c \in Consumers |-> [i \in Ids |-> 0]] /\ stranded = {}

(* queue_product: the insert takes the next id when it executes and becomes *)
(* visible when it commits; inserts of two connections commit in any order. *)
Insert(s) ==
    /\ lastId < MaxId
    /\ lastId' = lastId + 1
    /\ streamOf' = [streamOf EXCEPT ![lastId + 1] = s]
    /\ UNCHANGED <<committed, consumed, subscribed, consumption, procVars, envVars, histVars>>

Commit(i) ==
    /\ i <= lastId /\ i \notin committed
    /\ committed' = committed \cup {i}
    /\ UNCHANGED <<lastId, streamOf, consumed, subscribed, consumption, procVars, envVars, histVars>>

-----------------------------------------------------------------------------
(* A process calls collect() only while it has a free task slot. *)
CanCollect(c) == Cardinality(inHand[c]) < MaxHeld

\* a message reaches the handlers of c
Deliver(c, i) ==
    /\ inHand' = [inHand EXCEPT ![c] = @ \cup {i}]
    /\ handed' = [handed EXCEPT ![c][i] = @ + 1]

\* queue_consumer returned None: collect() tries the next queue, or gives up
\* and the process sleeps before it polls again.
NextQueue(c) ==
    /\ pc' = [pc EXCEPT ![c] = "poll"]
    /\ at' = [at EXCEPT ![c] = IF @ < NumStreams THEN @ + 1 ELSE 1]

\* the open transaction of c ends
EndTxn(c) ==
    /\ rowLocks' = [rowLocks EXCEPT ![c] = {}]
    /\ head' = [head EXCEPT ![c] = 0]

ReplayNextNoCursor(c) ==   \* mutant: current_min is not advanced
    /\ pc[c] = "replay" /\ CanCollect(c)
    /\ RowsOf(at[c]) # {} /\ RowsFree(c)
    /\ \E i \in Pending(c, at[c], cursor[c]) :
         /\ Lowest(Pending(c, at[c], cursor[c]), i)
         /\ Deliver(c, i)
    /\ UNCHANGED <<dbVars, pc, at, cursor, head, rowLocks, envVars, stranded>>

(* get_unacked_iterator: the next unacknowledged message of this queue. Its *)
(* "for update wait 3" runs outside a transaction: it waits until nobody     *)
(* else holds the rows, and keeps no lock.                                   *)
ReplayNext(c) ==
    /\ pc[c] = "replay" /\ CanCollect(c)
    /\ RowsOf(at[c]) # {} /\ RowsFree(c)
    /\ \E i \in Pending(c, at[c], cursor[c]) :
         /\ Lowest(Pending(c, at[c], cursor[c]), i)
         /\ cursor' = [cursor EXCEPT ![c] = i]
         /\ Deliver(c, i)
    /\ UNCHANGED <<dbVars, pc, at, head, rowLocks, envVars, stranded>>

\* ... or, when the generator leaves the queue, the next one from id 0; after
\* the last queue the generator is exhausted for good. lost is what it skips.
LeaveReplayQueue(c, lost) ==
    /\ cursor' = [cursor EXCEPT ![c] = 0]
    /\ IF at[c] < NumStreams
       THEN at' = [at EXCEPT ![c] = @ + 1] /\ UNCHANGED pc
       ELSE at' = [at EXCEPT ![c] = 1] /\ pc' = [pc EXCEPT ![c] = "poll"]
    /\ stranded' = stranded \cup lost
    /\ UNCHANGED <<dbVars, head, rowLocks, inHand, crashes, handed>>

ReplayDone(c) ==
    /\ pc[c] = "replay" /\ CanCollect(c)
    /\ \/ RowsOf(at[c]) = {}
       \/ RowsFree(c) /\ Pending(c, at[c], cursor[c]) = {}
    /\ LeaveReplayQueue(c, Pending(c, at[c], cursor[c]))
    /\ UNCHANGED faults

\* After three seconds behind another reader's lock the statement fails: the
\* error is caught, None is returned, and the generator leaves the queue.
ReplayTimeout(c) ==
    /\ pc[c] = "replay" /\ CanCollect(c) /\ ~RowsFree(c)
    /\ LeaveReplayQueue(c, Pending(c, at[c], cursor[c]))
    /\ UNCHANGED faults

\* So does any other database error inside queue_consumer.
ReplayFault(c) ==
    /\ pc[c] = "replay" /\ CanCollect(c) /\ faults < MaxFaults
    /\ faults' = faults + 1
    /\ LeaveReplayQueue(c, Pending(c, at[c], cursor[c]))

-----------------------------------------------------------------------------
(* queue_consumer(..., ">"), for one queue after the other. *)

\* Two reads outside any transaction: does the stream have a message, has the
\* group subscribed to it?
ScanEmpty(c) ==
    /\ pc[c] = "poll" /\ CanCollect(c) /\ ~Exists(at[c])
    /\ NextQueue(c)
    /\ UNCHANGED <<dbVars, cursor, head, rowLocks, inHand, envVars, histVars>>

Scan(c) ==
    /\ pc[c] = "poll" /\ CanCollect(c) /\ Exists(at[c])
    /\ pc' = [pc EXCEPT ![c] = IF RowsOf(at[c]) = {} THEN "subscribe" ELSE "lock"]
    /\ UNCHANGED <<dbVars, at, cursor, head, rowLocks, inHand, envVars, histVars>>

Subscribe(c) ==
    /\ pc[c] = "subscribe"
    /\ subscribed' = subscribed \cup {<<at[c], c>>}
    /\ pc' = [pc EXCEPT ![c] = "lock"]
    /\ UNCHANGED <<lastId, streamOf, committed, consumed, consumption>>
    /\ UNCHANGED <<at, cursor, head, rowLocks, inHand, envVars, histVars>>

\* One of the two reads or the subscription transaction fails: the error is
\* logged and the read goes on, possibly without a row to lock.
SubscribeFault(c) ==
    /\ pc[c] \in {"poll", "subscribe"} /\ CanCollect(c) /\ faults < MaxFaults
    /\ faults' = faults + 1
    /\ pc' = [pc EXCEPT ![c] = "lock"]
    /\ UNCHANGED <<dbVars, at, cursor, head, rowLocks, inHand, crashes, histVars>>

LockRows(c) ==
    /\ pc[c] = "lock" /\ RowsFree(c)
    /\ rowLocks' = [rowLocks EXCEPT ![c] = RowsOf(at[c])]
    /\ pc' = [pc EXCEPT ![c] = "head"]
    /\ UNCHANGED <<dbVars, at, cursor, head, inHand, envVars, histVars>>

\* After three seconds the statement fails and queue_consumer returns None.
LockTimeout(c) ==
    /\ pc[c] = "lock" /\ ~RowsFree(c)
    /\ NextQueue(c)
    /\ UNCHANGED <<dbVars, cursor, head, rowLocks, inHand, envVars, histVars>>

\* "select ... consumed = false order by id asc limit 1"
ReadHead(c) ==
    /\ pc[c] = "head"
    /\ \E i \in Unread(at[c]) :
         /\ Lowest(Unread(at[c]), i)
         /\ head' = [head EXCEPT ![c] = i]
    /\ pc' = [pc EXCEPT ![c] = "claim"]
    /\ UNCHANGED <<dbVars, at, cursor, rowLocks, inHand, envVars, histVars>>

NoHead(c) ==
    /\ pc[c] = "head" /\ Unread(at[c]) = {}
    /\ EndTxn(c) /\ NextQueue(c)
    /\ UNCHANGED <<dbVars, cursor, inHand, envVars, histVars>>

WriteClaimNoFlag(c) ==   \* mutant: "consumed" is not set
    /\ ~Claimed(head[c])
    /\ consumption' = consumption \cup {[consumer |-> c, id |-> head[c], ack |-> FALSE]}
    /\ UNCHANGED <<lastId, streamOf, committed, consumed, subscribed>>

\* update message, insert into message_consumption, commit: refused by the
\* unique key (stream, group_name, message_id) when the message has a row.
WriteClaim(c) ==
    /\ ~Claimed(head[c])
    /\ consumed' = consumed \cup {head[c]}
    /\ consumption' = consumption \cup {[consumer |-> c, id |-> head[c], ack |-> FALSE]}
    /\ UNCHANGED <<lastId, streamOf, committed, subscribed>>

Claim(c) ==
    /\ pc[c] = "claim"
    /\ WriteClaim(c)
    /\ Deliver(c, head[c])
    /\ EndTxn(c)
    /\ pc' = [pc EXCEPT ![c] = "poll"] /\ at' = [at EXCEPT ![c] = 1]
    /\ UNCHANGED <<cursor, envVars, stranded>>

ClaimRefused(c) ==
    /\ pc[c] = "claim" /\ Claimed(head[c])
    /\ EndTxn(c) /\ NextQueue(c)
    /\ UNCHANGED <<dbVars, cursor, inHand, envVars, histVars>>

\* An error of the transaction: rolled back, or (the connection breaks while
\* it commits) committed without the process learning which message it got.
TxnFault(c) ==
    /\ pc[c] \in {"lock", "head", "claim"} /\ faults < MaxFaults
    /\ faults' = faults + 1
    /\ EndTxn(c) /\ NextQueue(c)
    /\ UNCHANGED <<dbVars, cursor, inHand, crashes, histVars>>

CommitLost(c) ==
    /\ pc[c] = "claim" /\ faults < MaxFaults
    /\ faults' = faults + 1
    /\ WriteClaim(c)
    /\ stranded' = stranded \cup {head[c]}
    /\ EndTxn(c) /\ NextQueue(c)
    /\ UNCHANGED <<cursor, inHand, crashes, handed>>

-----------------------------------------------------------------------------
(* The handler of message i is done: RedisMsg.ack(). collect() does not     *)
(* give way to other coroutines, so an ack falls between two collects.      *)
BetweenCollects(c) == pc[c] = "replay" \/ (pc[c] = "poll" /\ at[c] = 1)

AckRow(i) == {IF r.id = i THEN [r EXCEPT !.ack = TRUE] ELSE r : r \in consumption}

Ack(c, i) ==
    /\ BetweenCollects(c) /\ i \in inHand[c]
    /\ consumption' = AckRow(i)
    /\ inHand' = [inHand EXCEPT ![c] = @ \ {i}]
    /\ UNCHANGED <<lastId, streamOf, committed, consumed, subscribed>>
    /\ UNCHANGED <<pc, at, cursor, head, rowLocks, envVars, histVars>>

\* The update fails; ack() logs it and returns False, which nobody reads.
AckFault(c, i) ==
    /\ BetweenCollects(c) /\ i \in inHand[c] /\ faults < MaxFaults
    /\ faults' = faults + 1
    /\ inHand' = [inHand EXCEPT ![c] = @ \ {i}]
    /\ stranded' = stranded \cup {i}
    /\ UNCHANGED <<dbVars, pc, at, cursor, head, rowLocks, crashes, handed>>

\* The process dies: its transaction is rolled back, its memory is gone.
Crash(c) ==
    /\ c \in MayCrash /\ pc[c] # "down" /\ crashes < MaxCrashes
    /\ crashes' = crashes + 1
    /\ pc' = [pc EXCEPT ![c] = "down"]
    /\ EndTxn(c)
    /\ inHand' = [inHand EXCEPT ![c] = {}]
    /\ at' = [at EXCEPT ![c] = 1] /\ cursor' = [cursor EXCEPT ![c] = 0]
    /\ handed' = [handed EXCEPT ![c] = [i \in Ids |-> 0]]
    /\ UNCHANGED <<dbVars, faults, stranded>>

RestartNoReplay(c) ==   \* mutant: the iterator is not read again
    /\ pc[c] = "down"
    /\ pc' = [pc EXCEPT ![c] = "poll"]
    /\ at' = [at EXCEPT ![c] = 1]
    /\ cursor' = [cursor EXCEPT ![c] = 0]
    /\ handed' = [handed EXCEPT ![c] = [i \in Ids |-> 0]]
    /\ stranded' = {i \in stranded : \A r \in consumption : r.id = i => r.consumer # c}
    /\ UNCHANGED <<dbVars, head, rowLocks, inHand, envVars>>

RestartFromOne(c) ==   \* mutant: current_min starts at 1
    /\ pc[c] = "down"
    /\ pc' = [pc EXCEPT ![c] = "replay"]
    /\ at' = [at EXCEPT ![c] = 1]
    /\ cursor' = [cursor EXCEPT ![c] = 1]
    /\ handed' = [handed EXCEPT ![c] = [i \in Ids |-> 0]]
    /\ stranded' = {i \in stranded : \A r \in consumption : r.id = i => r.consumer # c}
    /\ UNCHANGED <<dbVars, head, rowLocks, inHand, envVars>>

\* docker/entrypoint.sh starts the executor again under the same name; the
\* global UNACKED_ITERATOR is None again.
Restart(c) ==
    /\ pc[c] = "down"
    /\ pc' = [pc EXCEPT ![c] = "replay"]
    /\ at' = [at EXCEPT ![c] = 1]
    /\ cursor' = [cursor EXCEPT ![c] = 0]
    /\ handed' = [handed EXCEPT ![c] = [i \in Ids |-> 0]]
    /\ stranded' = {i \in stranded : \A r \in consumption : r.id = i => r.consumer # c}
    /\ UNCHANGED <<dbVars, head, rowLocks, inHand, envVars>>

-----------------------------------------------------------------------------
\* the steps a running process takes by itself, without an error
Run(c) ==
    \/ ReplayNext(c) \/ ReplayDone(c) \/ ReplayTimeout(c)
    \/ ScanEmpty(c) \/ Scan(c) \/ Subscribe(c)
    \/ LockRows(c) \/ LockTimeout(c) \/ ReadHead(c) \/ NoHead(c)
    \/ Claim(c) \/ ClaimRefused(c)

Fault(c) ==
    \/ ReplayFault(c) \/ SubscribeFault(c) \/ TxnFault(c) \/ CommitLost(c)
    \/ \E i \in Ids : AckFault(c, i)

Next ==
    \/ \E s \in Streams : Insert(s)
    \/ \E i \in Ids : Commit(i)
    \/ \E c \in Consumers : \/ Run(c) \/ Fault(c)
                            \/ \E i \in Ids : Ack(c, i)
                            \/ Crash(c) \/ Restart(c)

Spec == Init /\ [][Next]_vars

\* An insert commits; the executor's loop runs; a handler ends and its coroutine
\* gets its turn between two collects, though not always while the loop is in
\* one; entrypoint.sh restarts a dead process. That a handler ends is assumed:
\* the three hours of do_handle_task apply only where ENABLE_TIMEOUT_ASSERTION
\* is set (api_utils.timeout).
Fairness ==
    /\ WF_vars(\E i \in Ids : Commit(i))
    /\ \A c \in Consumers : /\ WF_vars(Run(c) \/ Restart(c))
                            /\ SF_vars(\E i \in Ids : Ack(c, i))

FairSpec == Spec /\ Fairness

-----------------------------------------------------------------------------
(* Every variable keeps its type. *)
PcStates == {"down", "replay", "poll", "subscribe", "lock", "head", "claim"}

DbTypeOK ==
    /\ lastId \in 0..MaxId
    /\ streamOf \in [Ids -> 0..NumStreams]
    /\ committed \subseteq 1..lastId
    /\ consumed \subseteq committed
    /\ subscribed \subseteq Streams \X Consumers
    /\ consumption \subseteq [consumer : Consumers, id : Ids, ack : BOOLEAN]

ProcTypeOK ==
    /\ pc \in [Consumers -> PcStates]
    /\ at \in [Consumers -> Streams]
    /\ cursor \in [Consumers -> 0..MaxId]
    /\ head \in [Consumers -> 0..MaxId]
    /\ rowLocks \in [Consumers -> SUBSET (Streams \X Consumers)]
    /\ inHand \in [Consumers -> SUBSET Ids]

HistTypeOK ==
    /\ crashes \in 0..MaxCrashes /\ faults \in 0..MaxFaults
    /\ handed \in [Consumers -> [Ids -> Nat]] /\ stranded \subseteq Ids

TypeOK == DbTypeOK /\ ProcTypeOK /\ HistTypeOK

\* A message is marked consumed exactly when one consumption row names it: no
\* crash, rollback or race of two readers leaves a message that is consumed
\* and nobody's, or that belongs to two executors.
ClaimedOnce ==
    /\ \A r1, r2 \in consumption : r1.id = r2.id => r1 = r2
    /\ consumed = {r.id : r \in consumption}

\* While two executors hold row locks they never read the same unread message
\* (message_subscribe ... for update "prevents repeated consumption"): the
\* lock alone serialises the readers, before the unique key has to.
LockedHeadsDiffer ==
    \A c, d \in Consumers :
        (c # d /\ rowLocks[c] # {} /\ rowLocks[d] # {} /\ head[c] # 0)
            => head[c] # head[d]

\* What the handlers of a process work on was claimed under its own name and
\* is not acknowledged yet: no message is handled by two executors, before or
\* after crashes and replays, nor again once it is acknowledged.
HandledByOwner ==
    \A c \in Consumers : \A i \in inHand[c] :
        [consumer |-> c, id |-> i, ack |-> FALSE] \in consumption

\* where the message of a claimed row is when somebody will still handle it
Reachable(r) ==
    \/ r.id \in stranded
    \/ pc[r.consumer] = "down"
    \/ r.id \in inHand[r.consumer]
    \/ /\ pc[r.consumer] = "replay"
       /\ \/ streamOf[r.id] > at[r.consumer]
          \/ streamOf[r.id] = at[r.consumer] /\ r.id > cursor[r.consumer]

\* A claimed, unacknowledged message is never out of reach: its executor is
\* down (and will replay it), or has it in hand, or its replay has not come
\* to it yet, unless an error took it from the running process: a failed
\* statement, or a replay that waited too long for the rows of its queue.
NothingLost == \A r \in consumption : r.ack \/ Reachable(r)

\* Between two boots a process is handed a message at most once, by the replay
\* or by a poll: the replay pages past what the handlers still work on, which
\* no query excludes, and never returns it to a second handler.
DeliveredOncePerBoot == \A c \in Consumers : \A i \in Ids : handed[c][i] <= 1

Outstanding ==
    {i \in committed \ stranded :
        \A c \in Consumers : [consumer |-> c, id |-> i, ack |-> TRUE] \notin consumption}

\* Every visible message is acknowledged in the end, whatever executors crash
\* and restart in between, unless an error takes it from a running one. (MaxId
\* bounds the inserts, so the queues as a whole drain.)
EventuallyAcked == Outstanding # {} ~> Outstanding = {}

\* The tables implement the promise of TaskDelivery.
Delivery == INSTANCE TaskDelivery WITH
    Msgs <- Ids,
    queued <- committed \ consumed,
    claims <- {<<r.consumer, r.id>> : r \in consumption},
    acked <- {r.id : r \in {q \in consumption : q.ack}}

ImplementsDelivery == Delivery!Spec

=============================================================================
