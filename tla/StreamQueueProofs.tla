-------------------------- MODULE StreamQueueProofs --------------------------
(* Theorems about StreamQueue, for any executors, streams and bounds. *)
EXTENDS StreamQueue, TLAPS

-----------------------------------------------------------------------------
(* The inductive invariant: the properties of StreamQueue, and what they    *)
(* rest on.                                                                 *)

\* Every id handed out has a stream.
StreamInv == \A i \in 1..lastId : streamOf[i] \in Streams

\* A transaction about to claim has read a visible message of its stream.
HeadInv ==
    \A c \in Consumers :
        /\ pc[c] = "claim" => head[c] \in committed /\ streamOf[head[c]] = at[c]
        /\ pc[c] # "claim" => head[c] = 0

\* Row locks are held inside a transaction, on rows of the stream it works
\* on, and two transactions that hold some work on different streams.
LockInv ==
    /\ \A c \in Consumers : /\ rowLocks[c] \subseteq RowsOf(at[c])
                            /\ rowLocks[c] # {} => pc[c] \in {"head", "claim"}
    /\ \A c, d \in Consumers :
          c # d /\ rowLocks[c] # {} /\ rowLocks[d] # {} => at[c] # at[d]

\* What a process was handed is claimed, and behind the cursor of its replay.
HandedInv ==
    \A c \in Consumers : \A i \in Ids : handed[c][i] # 0 =>
        /\ i \in consumed
        /\ pc[c] = "replay" =>
             streamOf[i] < at[c] \/ (streamOf[i] = at[c] /\ i <= cursor[c])

IInv == /\ TypeOK /\ StreamInv /\ HeadInv /\ LockInv /\ HandedInv
        /\ DeliveredOncePerBoot /\ ClaimedOnce /\ HandledByOwner /\ NothingLost

-----------------------------------------------------------------------------
(* Types: the operations the actions share, then every action. *)

\* No step that leaves the tables alone breaks their types.
LEMMA DbUnchanged == DbTypeOK /\ UNCHANGED dbVars => DbTypeOK'
  BY DEF DbTypeOK, dbVars

\* Moving on to the next queue keeps the program counter and the queue typed.
LEMMA NextQueueType ==
  ASSUME ProcTypeOK, NEW c \in Consumers, NextQueue(c)
  PROVE  pc' \in [Consumers -> PcStates] /\ at' \in [Consumers -> Streams]
  BY BoundsAssumption DEF ProcTypeOK, NextQueue, PcStates, Streams

\* So do leaving a queue of the replay...
LEMMA LeaveReplayType ==
  ASSUME ProcTypeOK, NEW c \in Consumers, NEW L, LeaveReplayQueue(c, L)
  PROVE  ProcTypeOK'
<1>1. pc' \in [Consumers -> PcStates] /\ at' \in [Consumers -> Streams]
  BY BoundsAssumption DEF ProcTypeOK, LeaveReplayQueue, PcStates, Streams
<1>2. cursor' \in [Consumers -> 0..MaxId]
  BY BoundsAssumption DEF ProcTypeOK, LeaveReplayQueue
<1> QED
  BY <1>1, <1>2 DEF ProcTypeOK, LeaveReplayQueue

\* ... and ending a transaction.
LEMMA EndTxnType ==
  ASSUME ProcTypeOK, NEW c \in Consumers, EndTxn(c)
  PROVE  /\ rowLocks' \in [Consumers -> SUBSET (Streams \X Consumers)]
         /\ head' \in [Consumers -> 0..MaxId]
  BY BoundsAssumption DEF ProcTypeOK, EndTxn

\* A delivery keeps the sets of messages typed.
LEMMA DeliverType ==
  ASSUME TypeOK, NEW c \in Consumers, NEW i \in Ids, Deliver(c, i)
  PROVE  inHand' \in [Consumers -> SUBSET Ids] /\ handed' \in [Consumers -> [Ids -> Nat]]
<1>1. handed[c][i] + 1 \in Nat
  BY DEF TypeOK, HistTypeOK
<1> QED
  BY <1>1 DEF TypeOK, ProcTypeOK, HistTypeOK, Deliver

\* Every visible id is one the counter has handed out.
LEMMA CommittedIds == ASSUME DbTypeOK, NEW i \in committed PROVE i \in Ids /\ i <= lastId
<1>1. i \in 1..lastId /\ lastId \in 0..MaxId
  BY DEF DbTypeOK
<1> QED
  BY <1>1, BoundsAssumption DEF Ids

\* The two writes that claim a message keep the tables typed.
LEMMA WriteClaimType ==
  ASSUME DbTypeOK, NEW c \in Consumers, head[c] \in committed, WriteClaim(c)
  PROVE  DbTypeOK'
<1>1. head[c] \in Ids
  BY CommittedIds
<1>2. [consumer |-> c, id |-> head[c], ack |-> FALSE] \in
          [consumer : Consumers, id : Ids, ack : BOOLEAN]
  BY <1>1
<1>3. consumption' \subseteq [consumer : Consumers, id : Ids, ack : BOOLEAN]
  BY <1>2 DEF DbTypeOK, WriteClaim
<1>4. consumed' \subseteq committed'
  BY DEF DbTypeOK, WriteClaim
<1> QED
  BY <1>3, <1>4 DEF DbTypeOK, WriteClaim

\* An acknowledgement rewrites the rows of one message in place.
LEMMA AckRowMember ==
  ASSUME NEW i, NEW x
  PROVE  x \in AckRow(i) <=>
           \E r \in consumption : x = IF r.id = i THEN [r EXCEPT !.ack = TRUE] ELSE r
  BY DEF AckRow

LEMMA AckRowType ==
  ASSUME DbTypeOK, NEW i \in Ids
  PROVE  AckRow(i) \subseteq [consumer : Consumers, id : Ids, ack : BOOLEAN]
<1> SUFFICES ASSUME NEW x \in AckRow(i)
             PROVE  x \in [consumer : Consumers, id : Ids, ack : BOOLEAN]
  OBVIOUS
<1>1. PICK r \in consumption : x = IF r.id = i THEN [r EXCEPT !.ack = TRUE] ELSE r
  BY AckRowMember
<1>2. r \in [consumer : Consumers, id : Ids, ack : BOOLEAN]
  BY DEF DbTypeOK
<1> QED
  BY <1>1, <1>2

\* Every step of a running process keeps the types.
LEMMA RunType ==
  ASSUME TypeOK, HeadInv, NEW c \in Consumers, Run(c)
  PROVE  TypeOK'
<1> USE DEF TypeOK
<1>1. CASE ReplayNext(c)
  <2>1. PICK i \in Pending(c, at[c], cursor[c]) : cursor' = [cursor EXCEPT ![c] = i] /\ Deliver(c, i)
    BY <1>1 DEF ReplayNext
  <2>2. i \in Ids
    BY DEF Pending
  <2>3. cursor' \in [Consumers -> 0..MaxId]
    BY <2>1, <2>2, BoundsAssumption DEF ProcTypeOK, Ids
  <2> QED
    BY <1>1, <2>1, <2>2, <2>3, DbUnchanged, DeliverType
       DEF ReplayNext, ProcTypeOK, HistTypeOK, dbVars, envVars
<1>2. CASE ReplayDone(c)
  <2>1. Pending(c, at[c], cursor[c]) \subseteq Ids
    BY DEF Pending
  <2>2. LeaveReplayQueue(c, Pending(c, at[c], cursor[c])) /\ UNCHANGED <<dbVars, crashes, faults, handed>>
    BY <1>2 DEF ReplayDone, LeaveReplayQueue
  <2>3. ProcTypeOK'
    BY <2>2, LeaveReplayType
  <2>4. HistTypeOK'
    BY <2>1, <2>2 DEF HistTypeOK, LeaveReplayQueue
  <2> QED
    BY <2>2, <2>3, <2>4, DbUnchanged
<1>3. CASE ReplayTimeout(c)
  <2>1. Pending(c, at[c], cursor[c]) \subseteq Ids
    BY DEF Pending
  <2>2. LeaveReplayQueue(c, Pending(c, at[c], cursor[c])) /\ UNCHANGED <<dbVars, crashes, faults, handed>>
    BY <1>3 DEF ReplayTimeout, LeaveReplayQueue
  <2>3. ProcTypeOK'
    BY <2>2, LeaveReplayType
  <2>4. HistTypeOK'
    BY <2>1, <2>2 DEF HistTypeOK, LeaveReplayQueue
  <2> QED
    BY <2>2, <2>3, <2>4, DbUnchanged
<1>4. CASE ScanEmpty(c)
  BY <1>4, DbUnchanged, NextQueueType DEF ScanEmpty, ProcTypeOK, HistTypeOK, dbVars, envVars, histVars
<1>5. CASE Scan(c)
  BY <1>5, DbUnchanged DEF Scan, ProcTypeOK, HistTypeOK, PcStates, dbVars, envVars, histVars
<1>6. CASE Subscribe(c)
  <2>1. DbTypeOK'
    BY <1>6 DEF Subscribe, DbTypeOK, ProcTypeOK
  <2> QED
    BY <1>6, <2>1 DEF Subscribe, ProcTypeOK, HistTypeOK, PcStates, envVars, histVars
<1>7. CASE LockRows(c)
  <2>1. rowLocks' \in [Consumers -> SUBSET (Streams \X Consumers)]
    BY <1>7 DEF LockRows, RowsOf, DbTypeOK, ProcTypeOK
  <2> QED
    BY <1>7, <2>1, DbUnchanged DEF LockRows, ProcTypeOK, HistTypeOK, PcStates, dbVars, envVars, histVars
<1>8. CASE LockTimeout(c)
  BY <1>8, DbUnchanged, NextQueueType DEF LockTimeout, ProcTypeOK, HistTypeOK, dbVars, envVars, histVars
<1>9. CASE ReadHead(c)
  <2>1. PICK i \in committed : head' = [head EXCEPT ![c] = i]
    BY <1>9 DEF ReadHead, Unread
  <2>2. head' \in [Consumers -> 0..MaxId]
    BY <2>1, CommittedIds, BoundsAssumption DEF ProcTypeOK, Ids
  <2> QED
    BY <1>9, <2>2, DbUnchanged DEF ReadHead, ProcTypeOK, HistTypeOK, PcStates, dbVars, envVars, histVars
<1>10. CASE NoHead(c)
  BY <1>10, DbUnchanged, EndTxnType, NextQueueType DEF NoHead, ProcTypeOK, HistTypeOK, dbVars, envVars, histVars
<1>11. CASE Claim(c)
  <2>1. head[c] \in committed /\ head[c] \in Ids
    BY <1>11, CommittedIds DEF Claim, HeadInv
  <2>2. pc' \in [Consumers -> PcStates] /\ at' \in [Consumers -> Streams]
    BY <1>11, BoundsAssumption DEF Claim, ProcTypeOK, PcStates, Streams
  <2> QED
    BY <1>11, <2>1, <2>2, WriteClaimType, EndTxnType, DeliverType
       DEF Claim, ProcTypeOK, HistTypeOK, envVars
<1>12. CASE ClaimRefused(c)
  BY <1>12, DbUnchanged, EndTxnType, NextQueueType DEF ClaimRefused, ProcTypeOK, HistTypeOK, dbVars, envVars, histVars
<1> QED
  BY <1>1, <1>2, <1>3, <1>4, <1>5, <1>6, <1>7, <1>8, <1>9, <1>10, <1>11, <1>12 DEF Run

\* So does every database error a consumer meets.
LEMMA FaultType ==
  ASSUME TypeOK, HeadInv, NEW c \in Consumers, Fault(c)
  PROVE  TypeOK'
<1> USE DEF TypeOK
<1>0. faults < MaxFaults /\ faults' = faults + 1 => faults' \in 0..MaxFaults
  BY BoundsAssumption DEF HistTypeOK
<1>1. CASE ReplayFault(c)
  <2>1. Pending(c, at[c], cursor[c]) \subseteq Ids
    BY DEF Pending
  <2>2. LeaveReplayQueue(c, Pending(c, at[c], cursor[c])) /\ UNCHANGED <<dbVars, crashes, handed>>
    BY <1>1 DEF ReplayFault, LeaveReplayQueue
  <2>3. ProcTypeOK'
    BY <2>2, LeaveReplayType
  <2>4. HistTypeOK'
    BY <1>0, <1>1, <2>1, <2>2 DEF HistTypeOK, LeaveReplayQueue, ReplayFault
  <2> QED
    BY <2>2, <2>3, <2>4, DbUnchanged
<1>2. CASE SubscribeFault(c)
  <2>1. ProcTypeOK'
    BY <1>2 DEF SubscribeFault, ProcTypeOK, PcStates
  <2> QED
    BY <1>0, <1>2, <2>1, DbUnchanged DEF SubscribeFault, HistTypeOK, dbVars, histVars
<1>3. CASE TxnFault(c)
  <2>1. ProcTypeOK'
    BY <1>3, EndTxnType, NextQueueType DEF TxnFault, ProcTypeOK
  <2> QED
    BY <1>0, <1>3, <2>1, DbUnchanged DEF TxnFault, HistTypeOK, dbVars, histVars
<1>4. CASE CommitLost(c)
  <2>1. head[c] \in committed /\ head[c] \in Ids
    BY <1>4, CommittedIds DEF CommitLost, HeadInv
  <2>2. ProcTypeOK'
    BY <1>4, EndTxnType, NextQueueType DEF CommitLost, ProcTypeOK
  <2>3. HistTypeOK'
    BY <1>0, <1>4, <2>1 DEF CommitLost, HistTypeOK
  <2> QED
    BY <1>4, <2>1, <2>2, <2>3, WriteClaimType DEF CommitLost
<1>5. CASE \E i \in Ids : AckFault(c, i)
  <2>1. PICK i \in Ids : AckFault(c, i)
    BY <1>5
  <2>2. ProcTypeOK'
    BY <2>1 DEF AckFault, ProcTypeOK
  <2> QED
    BY <1>0, <2>1, <2>2, DbUnchanged DEF AckFault, HistTypeOK, dbVars
<1> QED
  BY <1>1, <1>2, <1>3, <1>4, <1>5 DEF Fault

\* And the producer's two steps, an acknowledgement, a crash, a restart.
LEMMA NextType == ASSUME TypeOK, HeadInv, [Next]_vars PROVE TypeOK'
<1> USE DEF TypeOK
<1>1. ASSUME NEW s \in Streams, Insert(s) PROVE TypeOK'
  <2>1. lastId' \in 0..MaxId /\ lastId' = lastId + 1 /\ lastId \in Nat
    BY <1>1, BoundsAssumption DEF Insert, DbTypeOK
  <2>2. streamOf' \in [Ids -> 0..NumStreams]
    <3>1. s \in 0..NumStreams
      BY BoundsAssumption DEF Streams
    <3> QED
      BY <1>1, <3>1 DEF Insert, DbTypeOK
  <2>3. committed' \subseteq 1..lastId'
    BY <1>1, <2>1 DEF Insert, DbTypeOK
  <2>4. DbTypeOK'
    BY <1>1, <2>1, <2>2, <2>3 DEF Insert, DbTypeOK
  <2> QED
    BY <1>1, <2>4 DEF Insert, ProcTypeOK, HistTypeOK, procVars, envVars, histVars
<1>2. ASSUME NEW i \in Ids, Commit(i) PROVE TypeOK'
  <2>1. committed' \subseteq 1..lastId /\ consumed \subseteq committed'
    BY <1>2, BoundsAssumption DEF Commit, DbTypeOK, Ids
  <2>2. DbTypeOK'
    BY <1>2, <2>1 DEF Commit, DbTypeOK
  <2> QED
    BY <1>2, <2>2 DEF Commit, ProcTypeOK, HistTypeOK, procVars, envVars, histVars
<1>3. ASSUME NEW c \in Consumers, NEW i \in Ids, Ack(c, i) PROVE TypeOK'
  <2>1. DbTypeOK'
    BY <1>3, AckRowType DEF Ack, DbTypeOK
  <2>2. ProcTypeOK'
    BY <1>3 DEF Ack, ProcTypeOK
  <2> QED
    BY <1>3, <2>1, <2>2 DEF Ack, HistTypeOK, envVars, histVars
<1>4. ASSUME NEW c \in Consumers, Crash(c) PROVE TypeOK'
  <2>1. ProcTypeOK'
    BY <1>4, EndTxnType, BoundsAssumption DEF Crash, ProcTypeOK, PcStates, Streams
  <2>2. HistTypeOK'
    BY <1>4, BoundsAssumption DEF Crash, HistTypeOK, histVars
  <2> QED
    BY <1>4, <2>1, <2>2, DbUnchanged DEF Crash
<1>5. ASSUME NEW c \in Consumers, Restart(c) PROVE TypeOK'
  <2>1. ProcTypeOK'
    BY <1>5, BoundsAssumption DEF Restart, ProcTypeOK, PcStates, Streams
  <2>2. HistTypeOK'
    BY <1>5 DEF Restart, HistTypeOK, envVars
  <2> QED
    BY <1>5, <2>1, <2>2, DbUnchanged DEF Restart
<1>6. CASE UNCHANGED vars
  BY <1>6, DbUnchanged DEF vars, ProcTypeOK, HistTypeOK, procVars, envVars, histVars
<1> QED
  BY <1>1, <1>2, <1>3, <1>4, <1>5, <1>6, RunType, FaultType DEF Next

-----------------------------------------------------------------------------
(* What a step can do to the claims.                                        *)

\* A step leaves claims and flags alone, or claims a message, or acknowledges.
LEMMA RowsChange ==
  ASSUME [Next]_vars
  PROVE  \/ UNCHANGED <<consumption, consumed>>
         \/ \E c \in Consumers : pc[c] = "claim" /\ WriteClaim(c)
         \/ \E c \in Consumers : \E i \in Ids : Ack(c, i)
<1>1. ASSUME NEW c \in Consumers, Run(c)
      PROVE  UNCHANGED <<consumption, consumed>> \/ (pc[c] = "claim" /\ WriteClaim(c))
  BY <1>1 DEF Run, ReplayNext, ReplayDone, ReplayTimeout, LeaveReplayQueue, ScanEmpty, Scan,
     Subscribe, LockRows, LockTimeout, ReadHead, NoHead, Claim, ClaimRefused, dbVars
<1>2. ASSUME NEW c \in Consumers, Fault(c)
      PROVE  UNCHANGED <<consumption, consumed>> \/ (pc[c] = "claim" /\ WriteClaim(c))
  BY <1>2 DEF Fault, ReplayFault, LeaveReplayQueue, SubscribeFault, TxnFault, CommitLost,
     AckFault, dbVars
<1> QED
  BY <1>1, <1>2 DEF Next, Insert, Commit, Crash, Restart, vars, dbVars

\* The flag and the rows stay in step: no message is claimed twice.
LEMMA ClaimedOnceStep ==
  ASSUME TypeOK, ClaimedOnce, [Next]_vars
  PROVE  ClaimedOnce'
<1>1. CASE UNCHANGED <<consumption, consumed>>
  BY <1>1 DEF ClaimedOnce
<1>2. CASE \E c \in Consumers : pc[c] = "claim" /\ WriteClaim(c)
  <2>1. PICK c \in Consumers : WriteClaim(c)
    BY <1>2
  <2> DEFINE n == [consumer |-> c, id |-> head[c], ack |-> FALSE]
  <2>2. consumption' = consumption \cup {n} /\ consumed' = consumed \cup {n.id}
    BY <2>1 DEF WriteClaim
  <2>3. \A r \in consumption : r.id # n.id
    BY <2>1 DEF WriteClaim, Claimed
  <2> HIDE DEF n
  <2>4. \A r1, r2 \in consumption' : r1.id = r2.id => r1 = r2
    BY <2>2, <2>3 DEF ClaimedOnce
  <2>5. consumed' = {r.id : r \in consumption'}
    BY <2>2 DEF ClaimedOnce
  <2> QED
    BY <2>4, <2>5 DEF ClaimedOnce
<1>3. ASSUME NEW c \in Consumers, NEW i \in Ids, Ack(c, i) PROVE ClaimedOnce'
  <2>1. consumption' = AckRow(i) /\ consumed' = consumed
    BY <1>3 DEF Ack
  <2>2. \A r \in consumption : [r EXCEPT !.ack = TRUE].id = r.id
    BY DEF TypeOK, DbTypeOK
  <2>3. \A x \in consumption' : \E r \in consumption :
           x = (IF r.id = i THEN [r EXCEPT !.ack = TRUE] ELSE r) /\ x.id = r.id
    <3> SUFFICES ASSUME NEW x \in consumption'
                 PROVE  \E r \in consumption :
                          x = (IF r.id = i THEN [r EXCEPT !.ack = TRUE] ELSE r) /\ x.id = r.id
      OBVIOUS
    <3>1. PICK r \in consumption : x = IF r.id = i THEN [r EXCEPT !.ack = TRUE] ELSE r
      BY <2>1, AckRowMember
    <3>2. x.id = r.id
      BY <2>2, <3>1
    <3> QED
      BY <3>1, <3>2
  <2>4. \A r \in consumption : \E x \in consumption' : x.id = r.id
    BY <2>1, <2>2, AckRowMember
  <2>5. \A x, y \in consumption' : x.id = y.id => x = y
    <3> SUFFICES ASSUME NEW x \in consumption', NEW y \in consumption', x.id = y.id
                 PROVE  x = y
      OBVIOUS
    <3>1. PICK r \in consumption : x = (IF r.id = i THEN [r EXCEPT !.ack = TRUE] ELSE r) /\ x.id = r.id
      BY <2>3
    <3>2. PICK q \in consumption : y = (IF q.id = i THEN [q EXCEPT !.ack = TRUE] ELSE q) /\ y.id = q.id
      BY <2>3
    <3>3. r = q
      BY <3>1, <3>2 DEF ClaimedOnce
    <3> QED
      BY <3>1, <3>2, <3>3
  <2> QED
    BY <2>1, <2>3, <2>4, <2>5 DEF ClaimedOnce
<1> QED
  BY <1>1, <1>2, <1>3, RowsChange

\* A transaction about to claim still has what it read.
LEMMA HeadStep == ASSUME TypeOK, HeadInv, [Next]_vars PROVE HeadInv'
<1>0. pc \in [Consumers -> PcStates] /\ head \in [Consumers -> 0..MaxId] /\ at \in [Consumers -> Streams]
  BY DEF TypeOK, ProcTypeOK
<1>1. ASSUME NEW c \in Consumers,
             ReplayNext(c) \/ ReplayDone(c) \/ ReplayTimeout(c) \/ ScanEmpty(c) \/ Scan(c) \/ Subscribe(c)
             \/ LockRows(c) \/ LockTimeout(c) \/ ReplayFault(c) \/ SubscribeFault(c)
      PROVE  HeadInv'
  BY <1>0, <1>1 DEF HeadInv, ReplayNext, ReplayDone, ReplayTimeout, LeaveReplayQueue, ScanEmpty, Scan,
     Subscribe, LockRows, LockTimeout, ReplayFault, SubscribeFault, NextQueue, dbVars
<1>2. ASSUME NEW c \in Consumers, ReadHead(c) PROVE HeadInv'
  BY <1>0, <1>2 DEF HeadInv, ReadHead, Unread, dbVars
<1>3. ASSUME NEW c \in Consumers,
             NoHead(c) \/ Claim(c) \/ ClaimRefused(c) \/ TxnFault(c) \/ CommitLost(c) \/ Crash(c)
      PROVE  HeadInv'
  BY <1>0, <1>3 DEF HeadInv, NoHead, Claim, ClaimRefused, TxnFault, CommitLost, Crash, EndTxn,
     NextQueue, WriteClaim, dbVars
<1>4. ASSUME NEW c \in Consumers, Restart(c) \/ \E i \in Ids : AckFault(c, i) \/ Ack(c, i) PROVE HeadInv'
  BY <1>0, <1>4 DEF HeadInv, Restart, Ack, AckFault, dbVars
<1>5. ASSUME NEW s \in Streams, Insert(s) PROVE HeadInv'
  <2>1. \A i \in committed : streamOf'[i] = streamOf[i]
    BY <1>5, BoundsAssumption DEF Insert, TypeOK, DbTypeOK
  <2> QED
    BY <1>5, <2>1 DEF HeadInv, Insert, procVars
<1>6. ASSUME NEW i \in Ids, Commit(i) PROVE HeadInv'
  BY <1>6 DEF HeadInv, Commit, procVars
<1>7. CASE UNCHANGED vars
  BY <1>7 DEF HeadInv, vars, dbVars, procVars
<1> QED
  BY <1>1, <1>2, <1>3, <1>4, <1>5, <1>6, <1>7 DEF Next, Run, Fault

\* Every id handed out keeps a stream.
LEMMA StreamStep == ASSUME TypeOK, StreamInv, [Next]_vars PROVE StreamInv'
<1>1. ASSUME NEW s \in Streams, Insert(s) PROVE StreamInv'
  BY <1>1, BoundsAssumption DEF StreamInv, Insert, TypeOK, DbTypeOK, Ids
<1>2. ASSUME NEW c \in Consumers, Run(c) \/ Fault(c) PROVE UNCHANGED <<lastId, streamOf>>
  BY <1>2 DEF Run, ReplayNext, ReplayDone, ReplayTimeout, LeaveReplayQueue, ScanEmpty, Scan,
     Subscribe, LockRows, LockTimeout, ReadHead, NoHead, Claim, ClaimRefused, WriteClaim, dbVars,
     Fault, ReplayFault, SubscribeFault, TxnFault, CommitLost, AckFault
<1> QED
  BY <1>1, <1>2 DEF StreamInv, Next, Commit, Ack, Crash, Restart, vars, dbVars

\* Row locks: two transactions that hold some never work on one stream.
LEMMA LockStep == ASSUME TypeOK, LockInv, [Next]_vars PROVE LockInv'
<1>0. /\ pc \in [Consumers -> PcStates] /\ at \in [Consumers -> Streams]
      /\ rowLocks \in [Consumers -> SUBSET (Streams \X Consumers)]
  BY DEF TypeOK, ProcTypeOK
<1>1. ASSUME NEW c \in Consumers,
             ReplayNext(c) \/ ReplayDone(c) \/ ReplayTimeout(c) \/ ScanEmpty(c) \/ Scan(c)
             \/ LockTimeout(c) \/ ReplayFault(c) \/ SubscribeFault(c) \/ ReadHead(c)
      PROVE  LockInv'
  BY <1>0, <1>1 DEF LockInv, RowsOf, ReplayNext, ReplayDone, ReplayTimeout, LeaveReplayQueue, ScanEmpty,
     Scan, LockTimeout, ReplayFault, SubscribeFault, ReadHead, NextQueue, dbVars
<1>2. ASSUME NEW c \in Consumers, Subscribe(c) PROVE LockInv'
  BY <1>0, <1>2 DEF LockInv, RowsOf, Subscribe
<1>3. ASSUME NEW c \in Consumers, LockRows(c) PROVE LockInv'
  <2>1. /\ rowLocks' = [rowLocks EXCEPT ![c] = RowsOf(at[c])] /\ at' = at /\ subscribed' = subscribed
        /\ pc' = [pc EXCEPT ![c] = "head"]
    BY <1>3 DEF LockRows, dbVars
  <2>2. \A d \in Consumers \ {c} : rowLocks[d] # {} => at[d] # at[c]
    BY <1>3 DEF LockRows, RowsFree, LockInv
  <2> QED
    BY <1>0, <2>1, <2>2 DEF LockInv, RowsOf
<1>4. ASSUME NEW c \in Consumers,
             NoHead(c) \/ Claim(c) \/ ClaimRefused(c) \/ TxnFault(c) \/ CommitLost(c) \/ Crash(c)
      PROVE  LockInv'
  BY <1>0, <1>4 DEF LockInv, RowsOf, NoHead, Claim, ClaimRefused, TxnFault, CommitLost, Crash, EndTxn,
     NextQueue, WriteClaim, dbVars
<1>5. ASSUME NEW c \in Consumers, Restart(c) \/ \E i \in Ids : AckFault(c, i) \/ Ack(c, i) PROVE LockInv'
  BY <1>0, <1>5 DEF LockInv, RowsOf, Restart, Ack, AckFault, dbVars
<1>6. ASSUME (\E s \in Streams : Insert(s)) \/ (\E i \in Ids : Commit(i)) \/ UNCHANGED vars
      PROVE  LockInv'
  BY <1>6 DEF LockInv, RowsOf, Insert, Commit, vars, dbVars, procVars
<1> QED
  BY <1>1, <1>2, <1>3, <1>4, <1>5, <1>6 DEF Next, Run, Fault

\* Ids that were handed out keep their stream.
LEMMA StreamKept ==
  ASSUME TypeOK, [Next]_vars, NEW i \in consumed
  PROVE  streamOf'[i] = streamOf[i]
<1>1. i \in Ids /\ i <= lastId /\ lastId \in Nat /\ i \in Nat
  BY CommittedIds, BoundsAssumption DEF TypeOK, DbTypeOK, Ids
<1>2. ASSUME NEW s \in Streams, Insert(s) PROVE streamOf'[i] = streamOf[i]
  BY <1>1, <1>2 DEF Insert, TypeOK, DbTypeOK
<1>3. ASSUME NEW c \in Consumers, Run(c) \/ Fault(c) PROVE UNCHANGED streamOf
  BY <1>3 DEF Run, ReplayNext, ReplayDone, ReplayTimeout, LeaveReplayQueue, ScanEmpty, Scan,
     Subscribe, LockRows, LockTimeout, ReadHead, NoHead, Claim, ClaimRefused, WriteClaim, dbVars,
     Fault, ReplayFault, SubscribeFault, TxnFault, CommitLost, AckFault
<1> QED
  BY <1>2, <1>3 DEF Next, Commit, Ack, Crash, Restart, vars, dbVars

\* What the replay may return next is a consumed message ahead of its cursor.
LEMMA PendingConsumed ==
  ASSUME ClaimedOnce, NEW c \in Consumers, NEW i \in Pending(c, at[c], cursor[c])
  PROVE  /\ i \in Ids /\ i \in consumed /\ streamOf[i] = at[c] /\ i > cursor[c]
         /\ [consumer |-> c, id |-> i, ack |-> FALSE] \in consumption
<1>1. PICK r \in consumption : r = [consumer |-> c, id |-> i, ack |-> FALSE]
  BY DEF Pending
<1>2. i \in consumed
  <2>1. r.id = i
    BY <1>1
  <2> QED
    BY <2>1 DEF ClaimedOnce
<1> QED
  BY <1>1, <1>2 DEF Pending

\* A delivery counts one message once more.
LEMMA DeliverCounts ==
  ASSUME TypeOK, NEW c \in Consumers, NEW i \in Ids, Deliver(c, i)
  PROVE  \A d \in Consumers : \A j \in Ids :
            handed'[d][j] = IF d = c /\ j = i THEN handed[d][j] + 1 ELSE handed[d][j]
  BY DEF TypeOK, HistTypeOK, Deliver

\* A message that reaches a handler was not handed to the process before, and
\* what was handed stays behind the cursor of the replay.
LEMMA HandedStep ==
  ASSUME TypeOK, HeadInv, HandedInv, DeliveredOncePerBoot, ClaimedOnce, [Next]_vars
  PROVE  HandedInv' /\ DeliveredOncePerBoot'
<1>0. /\ pc \in [Consumers -> PcStates] /\ at \in [Consumers -> Streams]
      /\ cursor \in [Consumers -> 0..MaxId] /\ handed \in [Consumers -> [Ids -> Nat]]
      /\ consumed \subseteq Ids /\ streamOf \in [Ids -> 0..NumStreams]
  BY CommittedIds DEF TypeOK, ProcTypeOK, HistTypeOK, DbTypeOK
<1>1. consumed \subseteq consumed'
  BY RowsChange DEF WriteClaim, Ack
<1>2. \A i \in consumed : streamOf'[i] = streamOf[i]
  BY StreamKept
<1>3. ASSUME NEW c \in Consumers, ReplayNext(c) PROVE HandedInv' /\ DeliveredOncePerBoot'
  <2>1. PICK i \in Pending(c, at[c], cursor[c]) : cursor' = [cursor EXCEPT ![c] = i] /\ Deliver(c, i)
    BY <1>3 DEF ReplayNext
  <2>2. i \in Ids /\ i \in consumed /\ streamOf[i] = at[c] /\ i > cursor[c] /\ pc[c] = "replay"
    BY <1>3, PendingConsumed DEF ReplayNext
  <2>3. UNCHANGED <<pc, at, streamOf>>
    BY <1>3 DEF ReplayNext, dbVars
  <2>4. handed[c][i] = 0
    <3>1. ~(streamOf[i] < at[c]) /\ ~(i <= cursor[c])
      BY <1>0, <2>2, BoundsAssumption DEF Streams, Ids
    <3> QED
      BY <2>2, <3>1 DEF HandedInv
  <2>5. \A d \in Consumers : \A j \in Ids :
           handed'[d][j] = IF d = c /\ j = i THEN handed[d][j] + 1 ELSE handed[d][j]
    BY <2>1, <2>2, DeliverCounts
  <2>6. DeliveredOncePerBoot'
    BY <2>4, <2>5 DEF DeliveredOncePerBoot
  <2> SUFFICES ASSUME NEW d \in Consumers, NEW j \in Ids, handed'[d][j] # 0
               PROVE  /\ j \in consumed'
                      /\ pc'[d] = "replay" =>
                           streamOf'[j] < at'[d] \/ (streamOf'[j] = at'[d] /\ j <= cursor'[d])
    BY <2>6 DEF HandedInv
  <2>7. CASE d = c /\ j = i
    BY <1>0, <1>1, <2>1, <2>2, <2>3, <2>7, BoundsAssumption DEF Ids
  <2>8. CASE d = c /\ j # i
    <3>1. handed[c][j] # 0
      BY <2>5, <2>8
    <3> QED
      BY <1>0, <1>1, <2>1, <2>2, <2>3, <2>8, <3>1, BoundsAssumption DEF HandedInv, Ids
  <2>9. CASE d # c
    BY <1>0, <1>1, <2>1, <2>3, <2>5, <2>9 DEF HandedInv
  <2> QED
    BY <2>7, <2>8, <2>9
<1>4. ASSUME NEW c \in Consumers, ReplayDone(c) \/ ReplayTimeout(c) \/ ReplayFault(c)
      PROVE  HandedInv' /\ DeliveredOncePerBoot'
  <2>1. UNCHANGED handed
    BY <1>4 DEF ReplayDone, ReplayTimeout, ReplayFault, LeaveReplayQueue
  <2>2. HandedInv'
    BY <1>0, <1>1, <1>2, <1>4, BoundsAssumption
       DEF HandedInv, ReplayDone, ReplayTimeout, ReplayFault, LeaveReplayQueue, Streams, dbVars
  <2> QED
    BY <2>1, <2>2 DEF DeliveredOncePerBoot
<1>5. ASSUME NEW c \in Consumers,
             ScanEmpty(c) \/ Scan(c) \/ Subscribe(c) \/ SubscribeFault(c) \/ LockRows(c)
             \/ LockTimeout(c) \/ ReadHead(c) \/ NoHead(c) \/ ClaimRefused(c) \/ TxnFault(c) \/ CommitLost(c)
      PROVE  HandedInv' /\ DeliveredOncePerBoot'
  <2>1. UNCHANGED <<handed, cursor>> /\ pc[c] # "replay" /\ pc'[c] # "replay"
        /\ \A d \in Consumers \ {c} : pc'[d] = pc[d] /\ at'[d] = at[d]
    BY <1>0, <1>5 DEF ScanEmpty, Scan, Subscribe, SubscribeFault, LockRows, LockTimeout, ReadHead,
       NoHead, ClaimRefused, TxnFault, CommitLost, NextQueue, histVars
  <2> QED
    BY <1>0, <1>1, <1>2, <2>1 DEF HandedInv, DeliveredOncePerBoot
<1>6. ASSUME NEW c \in Consumers, Claim(c) PROVE HandedInv' /\ DeliveredOncePerBoot'
  <2>1. /\ Deliver(c, head[c]) /\ head[c] \in consumed' /\ ~Claimed(head[c])
        /\ pc' = [pc EXCEPT ![c] = "poll"] /\ at' = [at EXCEPT ![c] = 1] /\ cursor' = cursor
    BY <1>6 DEF Claim, WriteClaim
  <2>2. head[c] \in Ids
    BY <1>6, CommittedIds DEF Claim, HeadInv, TypeOK
  <2>3. head[c] \notin consumed
    BY <2>1 DEF ClaimedOnce, Claimed
  <2>4. handed[c][head[c]] = 0
    BY <2>2, <2>3 DEF HandedInv
  <2>5. \A d \in Consumers : \A j \in Ids :
           handed'[d][j] = IF d = c /\ j = head[c] THEN handed[d][j] + 1 ELSE handed[d][j]
    BY <2>1, <2>2, DeliverCounts
  <2>6. DeliveredOncePerBoot'
    BY <2>4, <2>5 DEF DeliveredOncePerBoot
  <2>7. HandedInv'
    BY <1>0, <1>1, <1>2, <2>1, <2>5 DEF HandedInv
  <2> QED
    BY <2>6, <2>7
<1>7. ASSUME NEW c \in Consumers, Crash(c) \/ Restart(c) PROVE HandedInv' /\ DeliveredOncePerBoot'
  <2>1. \A d \in Consumers : \A j \in Ids : handed'[d][j] = IF d = c THEN 0 ELSE handed[d][j]
    BY <1>0, <1>7 DEF Crash, Restart
  <2>2. \A d \in Consumers \ {c} : pc'[d] = pc[d] /\ at'[d] = at[d] /\ cursor'[d] = cursor[d]
    BY <1>0, <1>7 DEF Crash, Restart
  <2> QED
    BY <1>1, <1>2, <2>1, <2>2 DEF HandedInv, DeliveredOncePerBoot
<1>8. CASE UNCHANGED <<handed, pc, at, cursor>>
  BY <1>0, <1>1, <1>2, <1>8 DEF HandedInv, DeliveredOncePerBoot
<1> QED
  BY <1>3, <1>4, <1>5, <1>6, <1>7, <1>8
     DEF Next, Run, Fault, Insert, Commit, Ack, AckFault, vars, procVars, histVars

\* No row that is not acknowledged is taken away, but by its acknowledgement.
LEMMA RowsKept ==
  ASSUME TypeOK, [Next]_vars, NEW r \in consumption, ~r.ack
  PROVE  r \in consumption' \/ \E c \in Consumers : Ack(c, r.id)
<1>1. CASE UNCHANGED <<consumption, consumed>>
  BY <1>1
<1>2. CASE \E c \in Consumers : pc[c] = "claim" /\ WriteClaim(c)
  BY <1>2 DEF WriteClaim
<1>3. ASSUME NEW c \in Consumers, NEW i \in Ids, Ack(c, i), i # r.id PROVE r \in consumption'
  BY <1>3, AckRowMember DEF Ack
<1> QED
  BY <1>1, <1>2, <1>3, RowsChange

\* A process handles only what it owns.
LEMMA HandledStep ==
  ASSUME TypeOK, ClaimedOnce, HandledByOwner, [Next]_vars
  PROVE  HandledByOwner'
<1> DEFINE Row(c, i) == [consumer |-> c, id |-> i, ack |-> FALSE]
<1>0. inHand \in [Consumers -> SUBSET Ids]
  BY DEF TypeOK, ProcTypeOK
<1>1. ASSUME NEW c \in Consumers, ReplayNext(c) PROVE HandledByOwner'
  <2>1. PICK i \in Pending(c, at[c], cursor[c]) : Deliver(c, i)
    BY <1>1 DEF ReplayNext
  <2>2. Row(c, i) \in consumption
    BY PendingConsumed
  <2> QED
    BY <1>0, <1>1, <2>1, <2>2 DEF ReplayNext, HandledByOwner, Deliver, dbVars
<1>2. ASSUME NEW c \in Consumers, Claim(c) PROVE HandledByOwner'
  BY <1>0, <1>2 DEF Claim, WriteClaim, HandledByOwner, Deliver
<1>3. ASSUME NEW c \in Consumers, NEW i \in Ids, Ack(c, i) PROVE HandledByOwner'
  <2>1. Row(c, i) \in consumption /\ inHand' = [inHand EXCEPT ![c] = @ \ {i}] /\ consumption' = AckRow(i)
    BY <1>3 DEF Ack, HandledByOwner
  <2> SUFFICES ASSUME NEW d \in Consumers, NEW j \in inHand'[d] PROVE Row(d, j) \in consumption'
    BY DEF HandledByOwner
  <2>2. j \in inHand[d] /\ (d = c => j # i)
    BY <1>0, <2>1
  <2>3. Row(d, j) \in consumption
    BY <2>2 DEF HandledByOwner
  <2>4. j # i
    <3> SUFFICES ASSUME j = i PROVE FALSE
      OBVIOUS
    <3>1. Row(d, j).id = Row(c, i).id => Row(d, j) = Row(c, i)
      BY <2>1, <2>3 DEF ClaimedOnce
    <3>2. d = c
      BY <3>1
    <3> QED
      BY <2>2, <3>2
  <2> QED
    BY <2>1, <2>3, <2>4, AckRowMember
<1>4. ASSUME NEW c \in Consumers, NEW i \in Ids, AckFault(c, i) PROVE HandledByOwner'
  BY <1>0, <1>4 DEF AckFault, HandledByOwner, dbVars
<1>5. ASSUME NEW c \in Consumers, Crash(c) PROVE HandledByOwner'
  BY <1>0, <1>5 DEF Crash, HandledByOwner, dbVars
<1>6. ASSUME UNCHANGED inHand, consumption \subseteq consumption' PROVE HandledByOwner'
  BY <1>6 DEF HandledByOwner
<1>7. ASSUME NEW c \in Consumers,
             ReplayDone(c) \/ ReplayTimeout(c) \/ ScanEmpty(c) \/ Scan(c) \/ Subscribe(c) \/ LockRows(c)
             \/ LockTimeout(c) \/ ReadHead(c) \/ NoHead(c) \/ ClaimRefused(c)
             \/ ReplayFault(c) \/ SubscribeFault(c) \/ TxnFault(c) \/ CommitLost(c)
      PROVE  UNCHANGED inHand /\ consumption \subseteq consumption'
  BY <1>7 DEF ReplayDone, ReplayTimeout, LeaveReplayQueue, ScanEmpty, Scan, Subscribe, LockRows, LockTimeout,
     ReadHead, NoHead, ClaimRefused, ReplayFault, SubscribeFault, TxnFault, CommitLost, WriteClaim, dbVars
<1> QED
  BY <1>1, <1>2, <1>3, <1>4, <1>5, <1>6, <1>7
     DEF Next, Run, Fault, Insert, Commit, Restart, vars, dbVars, procVars

\* A row that was there before the step stays within reach.
LEMMA OldRowReachable ==
  ASSUME IInv, [Next]_vars, NEW r \in consumption, ~r.ack,
         \A c \in Consumers : ~Ack(c, r.id)
  PROVE  Reachable(r)'
<1> DEFINE o == r.consumer
<1>0. /\ pc \in [Consumers -> PcStates] /\ at \in [Consumers -> Streams]
      /\ cursor \in [Consumers -> 0..MaxId] /\ inHand \in [Consumers -> SUBSET Ids]
      /\ stranded \subseteq Ids /\ r.consumer \in Consumers /\ r.id \in Ids
      /\ r = [consumer |-> o, id |-> r.id, ack |-> FALSE]
  BY DEF IInv, TypeOK, ProcTypeOK, DbTypeOK, HistTypeOK
<1>1. Reachable(r)
  BY DEF IInv, NothingLost
<1>2. r.id \in consumed /\ r.id \in committed
  BY DEF IInv, ClaimedOnce, TypeOK, DbTypeOK
<1>3. streamOf'[r.id] = streamOf[r.id]
  BY <1>2, StreamKept DEF IInv
<1>4. streamOf[r.id] \in Streams
  BY <1>2 DEF IInv, StreamInv, TypeOK, DbTypeOK
<1>5. streamOf[r.id] = at[o] /\ r.id > cursor[o] => r.id \in Pending(o, at[o], cursor[o])
  BY <1>0 DEF Pending
<1>6. ASSUME NEW c \in Consumers, ReplayNext(c) PROVE Reachable(r)'
  <2>1. PICK i \in Pending(c, at[c], cursor[c]) :
           /\ cursor' = [cursor EXCEPT ![c] = i] /\ inHand' = [inHand EXCEPT ![c] = @ \cup {i}]
           /\ \A j \in Pending(c, at[c], cursor[c]) : i <= j
    BY <1>6 DEF ReplayNext, Deliver, Lowest
  <2>2. i \in Nat /\ r.id \in Nat /\ UNCHANGED <<pc, at, stranded>>
    BY <1>0, <1>6, BoundsAssumption DEF ReplayNext, Pending, Ids
  <2>3. CASE c = o /\ streamOf[r.id] = at[o] /\ r.id > cursor[o]
    <3>1. i <= r.id
      BY <1>5, <2>1, <2>3
    <3>2. r.id = i \/ r.id > i
      BY <2>2, <3>1
    <3> QED
      BY <1>0, <1>3, <1>6, <2>1, <2>2, <2>3, <3>2 DEF Reachable, ReplayNext
  <2> QED
    BY <1>0, <1>1, <1>3, <1>6, <2>1, <2>2, <2>3 DEF Reachable, ReplayNext
<1>7. ASSUME NEW c \in Consumers, ReplayDone(c) \/ ReplayTimeout(c) \/ ReplayFault(c) PROVE Reachable(r)'
  <2>1. LeaveReplayQueue(c, Pending(c, at[c], cursor[c])) /\ pc[c] = "replay"
    BY <1>7 DEF ReplayDone, ReplayTimeout, ReplayFault
  <2>2. CASE c = o /\ streamOf[r.id] > at[o]
    <3>1. at[o] < NumStreams /\ at' = [at EXCEPT ![o] = @ + 1] /\ UNCHANGED pc /\ cursor'[o] = 0
      BY <1>0, <1>4, <2>1, <2>2, BoundsAssumption DEF LeaveReplayQueue, Streams
    <3>2. streamOf[r.id] > at[o] + 1 \/ (streamOf[r.id] = at[o] + 1 /\ r.id > 0)
      BY <1>0, <1>4, <2>2, BoundsAssumption DEF Streams, Ids
    <3> QED
      BY <1>0, <1>3, <2>1, <2>2, <3>1, <3>2 DEF Reachable, LeaveReplayQueue
  <2>3. CASE c = o /\ streamOf[r.id] = at[o] /\ r.id > cursor[o]
    BY <1>5, <2>1, <2>3 DEF Reachable, LeaveReplayQueue
  <2> QED
    BY <1>0, <1>1, <1>3, <2>1, <2>2, <2>3 DEF Reachable, LeaveReplayQueue
<1>8. ASSUME NEW c \in Consumers,
             ScanEmpty(c) \/ Scan(c) \/ Subscribe(c) \/ SubscribeFault(c) \/ LockRows(c)
             \/ LockTimeout(c) \/ ReadHead(c) \/ NoHead(c) \/ ClaimRefused(c) \/ TxnFault(c)
             \/ CommitLost(c) \/ Claim(c)
      PROVE  Reachable(r)'
  <2>1. /\ pc[c] \notin {"replay", "down"} /\ stranded \subseteq stranded' /\ UNCHANGED cursor
        /\ \A d \in Consumers \ {c} : pc'[d] = pc[d] /\ at'[d] = at[d]
    BY <1>0, <1>8 DEF ScanEmpty, Scan, Subscribe, SubscribeFault, LockRows, LockTimeout, ReadHead,
       NoHead, ClaimRefused, TxnFault, CommitLost, Claim, NextQueue, histVars
  <2>2. \A d \in Consumers : inHand[d] \subseteq inHand'[d]
    BY <1>0, <1>8 DEF ScanEmpty, Scan, Subscribe, SubscribeFault, LockRows, LockTimeout, ReadHead,
       NoHead, ClaimRefused, TxnFault, CommitLost, Claim, Deliver
  <2> QED
    BY <1>0, <1>1, <1>3, <2>1, <2>2 DEF Reachable
<1>9. ASSUME NEW c \in Consumers, NEW i \in Ids, Ack(c, i) PROVE Reachable(r)'
  <2>1. i # r.id
    BY <1>9
  <2> QED
    BY <1>0, <1>1, <1>3, <1>9, <2>1 DEF Reachable, Ack, histVars
<1>10. ASSUME NEW c \in Consumers, NEW i \in Ids, AckFault(c, i) PROVE Reachable(r)'
  BY <1>0, <1>1, <1>3, <1>10 DEF Reachable, AckFault
<1>11. ASSUME NEW c \in Consumers, Crash(c) PROVE Reachable(r)'
  BY <1>0, <1>1, <1>3, <1>11 DEF Reachable, Crash, histVars
<1>12. ASSUME NEW c \in Consumers, Restart(c) PROVE Reachable(r)'
  <2>1. CASE c = o
    <3>1. pc'[o] = "replay" /\ at'[o] = 1 /\ cursor'[o] = 0
      BY <1>0, <1>12, <2>1 DEF Restart
    <3>2. streamOf[r.id] > 1 \/ (streamOf[r.id] = 1 /\ r.id > 0)
      BY <1>0, <1>4, BoundsAssumption DEF Streams, Ids
    <3> QED
      BY <1>3, <3>1, <3>2 DEF Reachable
  <2>2. CASE c # o
    <3>1. \A q \in consumption : q.id = r.id => q.consumer # c
      BY <2>2 DEF IInv, ClaimedOnce
    <3>2. r.id \in stranded => r.id \in stranded'
      BY <1>12, <3>1 DEF Restart
    <3> QED
      BY <1>0, <1>1, <1>3, <1>12, <2>2, <3>2 DEF Reachable, Restart
  <2> QED
    BY <2>1, <2>2
<1>13. CASE UNCHANGED <<procVars, histVars>>
  BY <1>1, <1>3, <1>13 DEF Reachable, procVars, histVars
<1> QED
  BY <1>6, <1>7, <1>8, <1>9, <1>10, <1>11, <1>12, <1>13
     DEF Next, Run, Fault, Insert, Commit, vars

\* What a step adds to the claims is acknowledged, delivered, or taken by the fault.
LEMMA NewRowReachable ==
  ASSUME IInv, [Next]_vars, NEW r \in consumption', r \notin consumption
  PROVE  r.ack \/ Reachable(r)'
<1>0. inHand \in [Consumers -> SUBSET Ids]
  BY DEF IInv, TypeOK, ProcTypeOK
<1>1. ASSUME NEW c \in Consumers, Claim(c) PROVE Reachable(r)'
  <2>1. r = [consumer |-> c, id |-> head[c], ack |-> FALSE]
    BY <1>1 DEF Claim, WriteClaim
  <2> QED
    BY <1>0, <1>1, <2>1 DEF Claim, Deliver, Reachable
<1>2. ASSUME NEW c \in Consumers, CommitLost(c) PROVE Reachable(r)'
  BY <1>2 DEF CommitLost, WriteClaim, Reachable
<1>3. ASSUME NEW c \in Consumers, NEW i \in Ids, Ack(c, i) PROVE r.ack
  <2>1. PICK q \in consumption : r = IF q.id = i THEN [q EXCEPT !.ack = TRUE] ELSE q
    BY <1>3, AckRowMember DEF Ack
  <2>2. q \in [consumer : Consumers, id : Ids, ack : BOOLEAN]
    BY DEF IInv, TypeOK, DbTypeOK
  <2> QED
    BY <2>1, <2>2
<1>4. ASSUME NEW c \in Consumers, Run(c) \/ Fault(c), ~Claim(c), ~CommitLost(c)
      PROVE  UNCHANGED consumption
  BY <1>4 DEF Run, ReplayNext, ReplayDone, ReplayTimeout, LeaveReplayQueue, ScanEmpty, Scan,
     Subscribe, LockRows, LockTimeout, ReadHead, NoHead, ClaimRefused, dbVars,
     Fault, ReplayFault, SubscribeFault, TxnFault, AckFault
<1> QED
  BY <1>1, <1>2, <1>3, <1>4 DEF Next, Insert, Commit, Crash, Restart, vars, dbVars

\* No claimed message falls out of reach.
LEMMA NothingLostStep == ASSUME IInv, [Next]_vars PROVE NothingLost'
<1> SUFFICES ASSUME NEW r \in consumption' PROVE r.ack \/ Reachable(r)'
  BY DEF NothingLost
<1>1. CASE r \notin consumption
  BY <1>1, NewRowReachable
<1>2. CASE r \in consumption /\ ~r.ack /\ \A c \in Consumers : ~Ack(c, r.id)
  BY <1>2, OldRowReachable
<1>3. ASSUME r \in consumption, NEW c \in Consumers, Ack(c, r.id) PROVE r.ack
  <2>1. PICK q \in consumption : r = IF q.id = r.id THEN [q EXCEPT !.ack = TRUE] ELSE q
    BY <1>3, AckRowMember DEF Ack
  <2>2. q \in [consumer : Consumers, id : Ids, ack : BOOLEAN] /\ r \in [consumer : Consumers, id : Ids, ack : BOOLEAN]
    BY <1>3 DEF IInv, TypeOK, DbTypeOK
  <2>3. q.id = r.id
    BY <2>1, <2>2
  <2> QED
    BY <2>1, <2>2, <2>3
<1> QED
  BY <1>1, <1>2, <1>3

-----------------------------------------------------------------------------
(* The invariant is inductive, and what follows from it.                    *)

\* Nothing is stored, held or in hand in the first state.
LEMMA InitInv == Init => IInv
<1> SUFFICES ASSUME Init PROVE IInv
  OBVIOUS
<1>1. TypeOK
  BY BoundsAssumption DEF Init, TypeOK, DbTypeOK, ProcTypeOK, HistTypeOK, PcStates, Streams, Ids
<1>2. HeadInv /\ LockInv
  BY DEF Init, HeadInv, LockInv
<1>3. StreamInv
  BY DEF Init, StreamInv
<1>4. HandedInv /\ DeliveredOncePerBoot /\ ClaimedOnce /\ HandledByOwner /\ NothingLost
  BY DEF Init, HandedInv, DeliveredOncePerBoot, ClaimedOnce, HandledByOwner, NothingLost
<1> QED
  BY <1>1, <1>2, <1>3, <1>4 DEF IInv

LEMMA StepInv == IInv /\ [Next]_vars => IInv'
<1> SUFFICES ASSUME IInv, [Next]_vars PROVE IInv'
  OBVIOUS
<1>1. TypeOK' /\ HeadInv' /\ LockInv' /\ StreamInv'
  BY NextType, HeadStep, LockStep, StreamStep DEF IInv
<1>2. HandedInv' /\ DeliveredOncePerBoot' /\ ClaimedOnce' /\ HandledByOwner' /\ NothingLost'
  BY HandedStep, ClaimedOnceStep, HandledStep, NothingLostStep DEF IInv
<1> QED
  BY <1>1, <1>2 DEF IInv

\* The invariant holds in every reachable state.
THEOREM Invariance == Spec => []IInv
  BY InitInv, StepInv, PTL DEF Spec

\* Every variable keeps its type, whatever the bounds.
THEOREM TypeCorrect == Spec => []TypeOK
<1>1. IInv => TypeOK
  BY DEF IInv
<1> QED
  BY <1>1, Invariance, PTL

\* A message is consumed exactly when one row of message_consumption names it.
THEOREM ClaimsAreUnique == Spec => []ClaimedOnce
<1>1. IInv => ClaimedOnce
  BY DEF IInv
<1> QED
  BY <1>1, Invariance, PTL

\* Two transactions that hold row locks never work on the same unread message.
THEOREM LockSerialisesReaders == Spec => []LockedHeadsDiffer
<1>1. IInv => LockedHeadsDiffer
  <2> SUFFICES ASSUME IInv, NEW c \in Consumers, NEW d \in Consumers, c # d,
                      rowLocks[c] # {}, rowLocks[d] # {}, head[c] # 0, head[c] = head[d]
               PROVE  FALSE
    BY DEF LockedHeadsDiffer
  <2>1. pc[c] = "claim" /\ pc[d] = "claim"
    BY DEF IInv, HeadInv
  <2>2. at[c] = at[d]
    BY <2>1 DEF IInv, HeadInv
  <2> QED
    BY <2>2 DEF IInv, LockInv
<1> QED
  BY <1>1, Invariance, PTL

\* Handlers work on messages their own process claimed, not yet acknowledged.
THEOREM HandlersOwn == Spec => []HandledByOwner
<1>1. IInv => HandledByOwner
  BY DEF IInv
<1> QED
  BY <1>1, Invariance, PTL

\* A claimed message is acknowledged, in hand, or will be replayed.
THEOREM NoMessageLost == Spec => []NothingLost
<1>1. IInv => NothingLost
  BY DEF IInv
<1> QED
  BY <1>1, Invariance, PTL

\* Between two boots no message is handed to a process a second time, whether
\* its handler still works on it or has acknowledged it.
THEOREM NoRedeliveryWithinBoot == Spec => []DeliveredOncePerBoot
<1>1. IInv => DeliveredOncePerBoot
  BY DEF IInv
<1> QED
  BY <1>1, Invariance, PTL

-----------------------------------------------------------------------------
(* The tables implement TaskDelivery. *)

\* A commit of the producer enqueues.
LEMMA CommitEnqueues ==
  ASSUME IInv, NEW i \in Ids, Commit(i)
  PROVE  Delivery!Enqueue(i)
<1>1. i \notin consumed /\ UNCHANGED <<consumed, consumption>> /\ committed' = committed \cup {i}
      /\ i \notin committed
  BY DEF IInv, TypeOK, DbTypeOK, Commit
<1>2. i \notin Delivery!Claimed
  <2> SUFFICES ASSUME NEW c \in Consumers, <<c, i>> \in {<<r.consumer, r.id>> : r \in consumption}
               PROVE  FALSE
    BY DEF Delivery!Claimed
  <2>1. \E r \in consumption : r.id = i
    OBVIOUS
  <2> QED
    BY <1>1, <2>1 DEF IInv, ClaimedOnce
<1>3. committed' \ consumed' = (committed \ consumed) \cup {i}
  BY <1>1
<1> QED
  BY <1>1, <1>2, <1>3 DEF Delivery!Enqueue

\* The two writes of a claim move the message to the consumer in one step.
LEMMA WriteClaimClaims ==
  ASSUME IInv, NEW c \in Consumers, pc[c] = "claim", WriteClaim(c), NEW m, m = head[c]
  PROVE  m \in Ids /\ Delivery!Claim(c, m)
<1> DEFINE n == [consumer |-> c, id |-> head[c], ack |-> FALSE]
<1>1. /\ consumption' = consumption \cup {n} /\ consumed' = consumed \cup {head[c]} /\ committed' = committed
      /\ n.consumer = c /\ n.id = head[c] /\ n.ack = FALSE
  BY DEF WriteClaim
<1>2. head[c] \in committed /\ head[c] \in Ids
  BY CommittedIds DEF IInv, HeadInv, TypeOK
<1>3. head[c] \notin consumed
  BY DEF IInv, ClaimedOnce, WriteClaim, Claimed
<1> HIDE DEF n
<1>4. {<<r.consumer, r.id>> : r \in consumption'}
        = {<<r.consumer, r.id>> : r \in consumption} \cup {<<c, head[c]>>}
  BY <1>1
<1>5. {r.id : r \in {q \in consumption' : q.ack}} = {r.id : r \in {q \in consumption : q.ack}}
  BY <1>1
<1> QED
  BY <1>1, <1>2, <1>3, <1>4, <1>5 DEF Delivery!Claim

\* The acknowledgement is the owner's, of a claimed message.
LEMMA AckAcks ==
  ASSUME IInv, NEW c \in Consumers, NEW i \in Ids, Ack(c, i)
  PROVE  Delivery!Ack(c, i)
<1> DEFINE Pairs(R) == {<<r.consumer, r.id>> : r \in R}
           Acked(R) == {r.id : r \in {q \in R : q.ack}}
           w == [consumer |-> c, id |-> i, ack |-> FALSE]
<1>0. /\ consumption \subseteq [consumer : Consumers, id : Ids, ack : BOOLEAN]
      /\ consumption' = AckRow(i) /\ UNCHANGED <<committed, consumed>> /\ w \in consumption
  BY DEF IInv, TypeOK, DbTypeOK, Ack, HandledByOwner
<1>1. \A r \in consumption : /\ [r EXCEPT !.ack = TRUE].id = r.id
                             /\ [r EXCEPT !.ack = TRUE].consumer = r.consumer
                             /\ [r EXCEPT !.ack = TRUE].ack
  BY <1>0
<1>2. \A r \in consumption : (IF r.id = i THEN [r EXCEPT !.ack = TRUE] ELSE r) \in consumption'
  BY <1>0, AckRowMember
<1>3. \A x \in consumption' : \E r \in consumption :
          /\ x.id = r.id /\ x.consumer = r.consumer
          /\ x.ack <=> r.ack \/ r.id = i
  <2> SUFFICES ASSUME NEW x \in consumption'
               PROVE  \E r \in consumption : x.id = r.id /\ x.consumer = r.consumer /\ (x.ack <=> r.ack \/ r.id = i)
    OBVIOUS
  <2>1. PICK r \in consumption : x = IF r.id = i THEN [r EXCEPT !.ack = TRUE] ELSE r
    BY <1>0, AckRowMember
  <2>2. x.id = r.id /\ x.consumer = r.consumer /\ (x.ack <=> r.ack \/ r.id = i)
    BY <1>1, <2>1
  <2> QED
    BY <2>2
<1>4. \A r \in consumption : \E x \in consumption' :
          /\ x.id = r.id /\ x.consumer = r.consumer
          /\ x.ack <=> r.ack \/ r.id = i
  <2> SUFFICES ASSUME NEW r \in consumption
               PROVE  \E x \in consumption' : x.id = r.id /\ x.consumer = r.consumer /\ (x.ack <=> r.ack \/ r.id = i)
    OBVIOUS
  <2>1. PICK x \in consumption' : x = IF r.id = i THEN [r EXCEPT !.ack = TRUE] ELSE r
    BY <1>2
  <2>2. x.id = r.id /\ x.consumer = r.consumer /\ (x.ack <=> r.ack \/ r.id = i)
    BY <1>1, <2>1
  <2> QED
    BY <2>2
<1>5. Pairs(consumption') = Pairs(consumption)
  BY <1>3, <1>4
<1>6. Acked(consumption') = Acked(consumption) \cup {i}
  <2>1. \E r \in consumption : r.id = i
    BY <1>0
  <2> QED
    BY <1>3, <1>4, <2>1
<1>7. <<c, i>> \in Pairs(consumption)
  <2>1. w.consumer = c /\ w.id = i
    OBVIOUS
  <2> QED
    BY <1>0, <2>1
<1> QED
  BY <1>0, <1>5, <1>6, <1>7 DEF Delivery!Ack

\* The detailed queue implements the abstract one: every step of the program
\* is a step of TaskDelivery or leaves its state alone.
THEOREM QueueDelivers == Spec => ImplementsDelivery
<1>1. Init => Delivery!Init
  BY DEF Init, Delivery!Init
<1>2. IInv /\ [Next]_vars => [Delivery!Next]_(Delivery!vars)
  <2> SUFFICES ASSUME IInv, [Next]_vars PROVE [Delivery!Next]_(Delivery!vars)
    OBVIOUS
  <2>1. ASSUME NEW i \in Ids, Commit(i) PROVE Delivery!Next
    BY <2>1, CommitEnqueues DEF Delivery!Next
  <2>2. ASSUME NEW c \in Consumers, pc[c] = "claim", WriteClaim(c) PROVE Delivery!Next
    <3>1. PICK m : m = head[c]
      OBVIOUS
    <3>2. m \in Ids /\ Delivery!Claim(c, m)
      BY <2>2, <3>1, WriteClaimClaims
    <3> QED
      BY <3>2 DEF Delivery!Next
  <2>3. ASSUME NEW c \in Consumers, NEW i \in Ids, Ack(c, i) PROVE Delivery!Next
    BY <2>3, AckAcks DEF Delivery!Next
  <2>4. CASE UNCHANGED <<consumption, consumed, committed>>
    BY <2>4 DEF Delivery!vars
  <2>5. ASSUME ~(\E i \in Ids : Commit(i)), ~(\E c \in Consumers : pc[c] = "claim" /\ WriteClaim(c)),
               ~(\E c \in Consumers : \E i \in Ids : Ack(c, i))
        PROVE  UNCHANGED <<consumption, consumed, committed>>
    <3>1. ASSUME NEW c \in Consumers, Run(c) \/ Fault(c)
          PROVE  UNCHANGED committed
      BY <3>1 DEF Run, ReplayNext, ReplayDone, ReplayTimeout, LeaveReplayQueue, ScanEmpty, Scan,
         Subscribe, LockRows, LockTimeout, ReadHead, NoHead, Claim, ClaimRefused, WriteClaim, dbVars,
         Fault, ReplayFault, SubscribeFault, TxnFault, CommitLost, AckFault
    <3>2. UNCHANGED committed
      BY <2>5, <3>1 DEF Next, Insert, Crash, Restart, vars, dbVars
    <3> QED
      BY <2>5, <3>2, RowsChange
  <2> QED
    BY <2>1, <2>2, <2>3, <2>4, <2>5
<1> QED
  BY <1>1, <1>2, Invariance, PTL DEF Spec, ImplementsDelivery, Delivery!Spec

=============================================================================
