---------------------------- MODULE WorkPoolsProofs ----------------------------
(* Theorems about SandboxPool, McpSession, ExtractionService and the three   *)
(* side by side, for any containers, requests, calls, closers, texts and     *)
(* workers.                                                                  *)
EXTENDS WorkPools, Integers, SequenceTheorems, FiniteSetTheorems, TLAPS

-----------------------------------------------------------------------------
(* The sandbox: its inductive invariant. *)

Holding == {"taken", "checking", "recreating", "granted", "executing", "leaving",
            "rechecking", "rerecreating"}

\* A request has a container in the phases that look at it, and in no others.
HoldsInPhase == \A r \in Requests : holds[r] # NoContainer <=> phase[r] \in Holding

\* A request found the queue empty, behind the semaphore, because a container
\* was lost.
PollingMeansLost ==
  /\ Cardinality(Inside) <= Cardinality(Containers)
  /\ (\E r \in Requests : phase[r] \in {"polling", "busy"}) => Gone # {}

SandboxInv == SandboxTypeOK /\ HoldsInPhase /\ HeldOnce /\ NothingForgotten /\ PollingMeansLost

-----------------------------------------------------------------------------
(* Lemmas about queues of names. *)

Injective(q) == \A i, j \in DOMAIN q : q[i] = q[j] => i = j

\* The head of a queue is taken out of the names in it.
LEMMA TailNames ==
  ASSUME NEW q \in Seq(Containers), q # <<>>
  PROVE  /\ Head(q) \in Containers /\ Tail(q) \in Seq(Containers)
         /\ NamesIn(q) = NamesIn(Tail(q)) \cup {Head(q)}
         /\ Injective(q) => Injective(Tail(q)) /\ Head(q) \notin NamesIn(Tail(q))
<1>1. PICK n \in Nat : n = Len(q) /\ n > 0
  OBVIOUS
<1>2. /\ Tail(q) \in Seq(Containers) /\ Len(Tail(q)) = n - 1
      /\ \A i \in 1..(n - 1) : Tail(q)[i] = q[i + 1]
  BY <1>1, HeadTailProperties
<1>3. DOMAIN q = 1..n /\ DOMAIN Tail(q) = 1..(n - 1)
  BY <1>1, <1>2
<1>4. Head(q) = q[1] /\ q[1] \in Containers
  BY <1>1, <1>3
<1>5. NamesIn(q) \subseteq NamesIn(Tail(q)) \cup {Head(q)}
  <2>1. SUFFICES ASSUME NEW i \in 1..n PROVE q[i] \in NamesIn(Tail(q)) \cup {Head(q)}
    BY <1>3 DEF NamesIn
  <2>2. CASE i = 1
    BY <2>2, <1>4
  <2>3. CASE i # 1
    <3>1. i - 1 \in 1..(n - 1) /\ (i - 1) + 1 = i
      BY <2>1, <2>3, <1>1
    <3>2. Tail(q)[i - 1] = q[i]
      BY <3>1, <1>2
    <3> QED
      BY <3>1, <3>2, <1>3 DEF NamesIn
  <2> QED
    BY <2>2, <2>3
<1>6. NamesIn(Tail(q)) \cup {Head(q)} \subseteq NamesIn(q)
  <2>1. \A i \in 1..(n - 1) : i + 1 \in 1..n /\ Tail(q)[i] = q[i + 1]
    BY <1>1, <1>2
  <2>2. 1 \in 1..n
    BY <1>1
  <2> QED
    BY <2>1, <2>2, <1>3, <1>4 DEF NamesIn
<1>7. ASSUME Injective(q) PROVE Injective(Tail(q)) /\ Head(q) \notin NamesIn(Tail(q))
  <2>1. \A i \in 1..(n - 1) : i + 1 \in 1..n /\ i + 1 # 1
    BY <1>1
  <2>2. \A i, j \in 1..(n - 1) : Tail(q)[i] = Tail(q)[j] => i + 1 = j + 1
    BY <2>1, <1>2, <1>3, <1>7 DEF Injective
  <2>3. Injective(Tail(q))
    BY <2>2, <1>3 DEF Injective
  <2>4. \A i \in 1..(n - 1) : Tail(q)[i] # q[1]
    BY <2>1, <1>1, <1>2, <1>3, <1>7 DEF Injective
  <2> QED
    BY <2>3, <2>4, <1>3, <1>4 DEF NamesIn
<1> QED
  BY <1>2, <1>4, <1>5, <1>6, <1>7

\* A name that is put back is added to those in the queue.
LEMMA AppendNames ==
  ASSUME NEW q \in Seq(Containers), NEW c \in Containers
  PROVE  /\ Append(q, c) \in Seq(Containers)
         /\ NamesIn(Append(q, c)) = NamesIn(q) \cup {c}
         /\ Injective(q) /\ c \notin NamesIn(q) => Injective(Append(q, c))
<1>1. PICK n \in Nat : n = Len(q)
  OBVIOUS
<1> DEFINE p == Append(q, c)
<1>2. /\ p \in Seq(Containers) /\ Len(p) = n + 1
      /\ \A i \in 1..n : p[i] = q[i]
      /\ p[n + 1] = c
  BY <1>1, AppendProperties
<1>3. DOMAIN q = 1..n /\ DOMAIN p = 1..(n + 1)
  BY <1>1, <1>2
<1> HIDE DEF p
<1>4. \A i : i \in 1..(n + 1) <=> (i \in 1..n \/ i = n + 1)
  BY <1>1
<1>5. NamesIn(p) = NamesIn(q) \cup {c}
  BY <1>2, <1>3, <1>4 DEF NamesIn
<1>6. ASSUME Injective(q), c \notin NamesIn(q) PROVE Injective(p)
  <2>1. \A i \in 1..n : q[i] # c
    BY <1>3, <1>6 DEF NamesIn
  <2> QED
    BY <2>1, <1>2, <1>3, <1>4, <1>6 DEF Injective
<1> QED
  BY <1>2, <1>5, <1>6 DEF p

\* The manager starts with a queue of names, each once.
LEMMA CreatedNames ==
  ASSUME NEW q \in CreatedPools
  PROVE  q \in Seq(Containers) /\ Injective(q) /\ NamesIn(q) \subseteq Containers
<1>1. PICK k \in 0..Cardinality(Containers) : q \in [1..k -> Containers]
  BY DEF CreatedPools
<1>2. k \in Nat
  BY <1>1, SandboxAssumption, FS_CardinalityType
<1> QED
  BY <1>1, <1>2 DEF CreatedPools, Injective, NamesIn

-----------------------------------------------------------------------------
(* Every step keeps the invariant. *)

\* What the invariant says of the containers, apart from how long queues are.
Kept == HoldsInPhase /\ HeldOnce /\ NothingForgotten

\* A request that moves between phases with a container, or between phases
\* without, changes nothing of who has which container.
LEMMA MovesKept ==
  ASSUME SandboxTypeOK, Kept, NEW r \in Requests, NEW to,
         Goes(r, to), phase[r] \in Holding <=> to \in Holding,
         pool' = pool, holds' = holds, Gone' = Gone
  PROVE  Kept'
BY DEF SandboxTypeOK, Kept, Goes, HoldsInPhase, HeldOnce, NothingForgotten, Held, NamesIn

\* A request that loses its container accounts for it.
LEMMA LosesKept ==
  ASSUME SandboxTypeOK, Kept, NEW r \in Requests, NEW to, phase[r] \in Holding,
         Goes(r, to), to \notin Holding,
         pool' = pool, holds' = [holds EXCEPT ![r] = NoContainer],
         Gone' = Gone \cup {holds[r]}
  PROVE  Kept'
<1>1. holds[r] # NoContainer /\ holds[r] \in Containers
  BY DEF Kept, HoldsInPhase, SandboxTypeOK
<1>2. \A s \in Requests : s # r => holds'[s] = holds[s] /\ phase'[s] = phase[s]
  BY DEF SandboxTypeOK, Goes
<1>3. holds'[r] = NoContainer /\ phase'[r] = to
  BY DEF SandboxTypeOK, Goes
<1>4. HoldsInPhase'
  BY <1>2, <1>3 DEF Kept, HoldsInPhase
<1>5. HeldOnce'
  BY <1>2, <1>3 DEF Kept, HeldOnce, Held
<1>6. NothingForgotten'
  BY <1>1, <1>2, <1>3 DEF Kept, NothingForgotten, Held, SandboxTypeOK
<1> QED
  BY <1>4, <1>5, <1>6 DEF Kept

\* A container that is taken is no longer free, and nobody held it.
LEMMA TakeKept ==
  ASSUME SandboxTypeOK, Kept, NEW r \in Requests, Take(r)
  PROVE  Kept' /\ SandboxTypeOK'
<1>1. /\ pool # <<>> /\ pool' = Tail(pool) /\ holds' = [holds EXCEPT ![r] = Head(pool)]
      /\ phase' = [phase EXCEPT ![r] = "taken"] /\ Gone' = Gone
      /\ phase[r] \notin Holding
  BY DEF Take, Goes, Holding, Gone
<1>2. pool \in Seq(Containers) /\ Injective(pool)
  BY DEF SandboxTypeOK, Kept, HeldOnce, Injective
<1>3. /\ Head(pool) \in Containers /\ Tail(pool) \in Seq(Containers)
      /\ NamesIn(pool) = NamesIn(Tail(pool)) \cup {Head(pool)}
      /\ Injective(Tail(pool)) /\ Head(pool) \notin NamesIn(Tail(pool))
  BY <1>1, <1>2, TailNames
<1>4. holds[r] = NoContainer
  BY <1>1 DEF Kept, HoldsInPhase
<1>5. /\ \A s \in Requests : s # r => holds'[s] = holds[s] /\ phase'[s] = phase[s]
      /\ holds'[r] = Head(pool) /\ phase'[r] = "taken"
  BY <1>1 DEF SandboxTypeOK
<1>6. Head(pool) # NoContainer /\ Head(pool) \notin Held
  BY <1>3, SandboxAssumption DEF Kept, HeldOnce
<1>7. Held' = Held \cup {Head(pool)}
  BY <1>4, <1>5, <1>6 DEF Held
<1>8. HoldsInPhase'
  BY <1>5, <1>6 DEF Kept, HoldsInPhase, Holding
<1>9. HeldOnce'
  <2>1. NamesIn(pool') \cap Held' = {}
    BY <1>1, <1>3, <1>7 DEF Kept, HeldOnce
  <2>2. ASSUME NEW s \in Requests, NEW u \in Requests, holds'[s] = holds'[u], holds'[s] # NoContainer
        PROVE  s = u
    <3>1. \A v \in Requests : holds[v] # Head(pool)
      BY <1>6 DEF Held
    <3> QED
      BY <2>2, <3>1, <1>5 DEF Kept, HeldOnce
  <2>3. Injective(pool')
    BY <1>1, <1>3
  <2> QED
    BY <2>1, <2>2, <2>3 DEF HeldOnce, Injective
<1>10. NothingForgotten'
  BY <1>1, <1>3, <1>7 DEF Kept, NothingForgotten
<1>11. SandboxTypeOK'
  BY <1>1, <1>3 DEF SandboxTypeOK, Take, Goes, Phases
<1> QED
  BY <1>8, <1>9, <1>10, <1>11 DEF Kept

\* A container that is put back was held by that request alone.
LEMMA PutBackKept ==
  ASSUME SandboxTypeOK, Kept, NEW r \in Requests, phase[r] \in Holding, PutBack(r), Gone' = Gone
  PROVE  Kept' /\ pool' \in Seq(Containers)
<1>1. holds[r] # NoContainer /\ holds[r] \in Containers
  BY DEF Kept, HoldsInPhase, SandboxTypeOK
<1>2. /\ pool' = Append(pool, holds[r]) /\ holds' = [holds EXCEPT ![r] = NoContainer]
      /\ phase' = [phase EXCEPT ![r] = "answered"]
  BY DEF PutBack, Goes
<1>3. pool \in Seq(Containers) /\ Injective(pool) /\ holds[r] \notin NamesIn(pool)
  BY <1>1 DEF SandboxTypeOK, Kept, HeldOnce, Injective, Held
<1>4. /\ Append(pool, holds[r]) \in Seq(Containers)
      /\ NamesIn(Append(pool, holds[r])) = NamesIn(pool) \cup {holds[r]}
      /\ Injective(Append(pool, holds[r]))
  BY <1>1, <1>3, AppendNames
<1>5. /\ \A s \in Requests : s # r => holds'[s] = holds[s] /\ phase'[s] = phase[s]
      /\ holds'[r] = NoContainer /\ phase'[r] = "answered"
  BY <1>2 DEF SandboxTypeOK
<1>6. Held' = Held \ {holds[r]}
  BY <1>1, <1>5 DEF Held, Kept, HeldOnce
<1>7. HoldsInPhase'
  BY <1>5 DEF Kept, HoldsInPhase, Holding
<1>8. HeldOnce'
  <2>1. NamesIn(pool') \cap Held' = {}
    BY <1>2, <1>4, <1>6 DEF Kept, HeldOnce
  <2>2. \A s, u \in Requests : holds'[s] = holds'[u] /\ holds'[s] # NoContainer => s = u
    BY <1>5 DEF Kept, HeldOnce
  <2>3. Injective(pool')
    BY <1>2, <1>4
  <2> QED
    BY <2>1, <2>2, <2>3 DEF HeldOnce, Injective
<1>9. NothingForgotten'
  BY <1>1, <1>2, <1>4, <1>6 DEF Kept, NothingForgotten, Held
<1> QED
  BY <1>2, <1>4, <1>7, <1>8, <1>9 DEF Kept

\* Behind the semaphore the queue is only empty when a container is lost: the
\* other requests there are too few to hold them all.
LEMMA EmptyMeansLost ==
  ASSUME SandboxInv, NEW r \in Requests, phase[r] = "allocating", pool = <<>>
  PROVE  Gone # {}
<1> DEFINE H == {s \in Requests : holds[s] # NoContainer}
           f == [s \in H |-> holds[s]]
<1>1. /\ HoldsInPhase /\ NothingForgotten /\ Cardinality(Inside) <= Cardinality(Containers)
      /\ IsFiniteSet(Requests) /\ IsFiniteSet(Containers)
  BY SandboxAssumption DEF SandboxInv, PollingMeansLost
<1>2. IsFiniteSet(Inside) /\ r \in Inside
  BY <1>1, FS_Subset DEF Inside
<1>3. H \subseteq Inside \ {r}
  BY <1>1 DEF HoldsInPhase, Holding, Inside
<1>4. /\ IsFiniteSet(Inside \ {r})
      /\ Cardinality(Inside \ {r}) = Cardinality(Inside) - 1
  BY <1>2, FS_RemoveElement
<1>5. IsFiniteSet(H) /\ Cardinality(H) <= Cardinality(Inside \ {r})
  BY <1>3, <1>4, FS_Subset
<1>6. f \in Surjection(H, Held)
  BY DEF Surjection, Held
<1>7. Cardinality(Held) <= Cardinality(H) /\ IsFiniteSet(Held)
  <2> HIDE DEF f, H
  <2> QED
    BY <1>5, <1>6, FS_Surjection
<1>8. ASSUME Gone = {} PROVE FALSE
  <2>1. NamesIn(pool) = {}
    BY DEF NamesIn
  <2>2. Held = Containers
    BY <1>1, <1>8, <2>1 DEF NothingForgotten
  <2>3. /\ Cardinality(Inside) \in Nat /\ Cardinality(Containers) \in Nat
        /\ Cardinality(H) \in Nat
    BY <1>1, <1>2, <1>5, FS_CardinalityType
  <2> HIDE DEF H
  <2> QED
    BY <1>1, <1>4, <1>5, <1>7, <2>2, <2>3
<1> QED
  BY <1>8

\* A step that lets nobody past the semaphore, loses containers for good and
\* starts nobody's polling otherwise keeps what polling means.
LEMMA PollingKept ==
  ASSUME SandboxInv, Inside' \subseteq Inside, Gone \subseteq Gone',
         \A s \in Requests : phase'[s] \in {"polling", "busy"}
            => phase[s] \in {"polling", "busy"} \/ Gone' # {}
  PROVE  PollingMeansLost'
<1>1. IsFiniteSet(Inside) /\ Cardinality(Inside) <= Cardinality(Containers)
  BY SandboxAssumption, FS_Subset DEF SandboxInv, PollingMeansLost, Inside
<1>2. Cardinality(Inside') <= Cardinality(Inside) /\ IsFiniteSet(Inside')
  BY <1>1, FS_Subset
<1>3. /\ Cardinality(Inside) \in Nat /\ Cardinality(Containers) \in Nat
      /\ Cardinality(Inside') \in Nat
  BY <1>1, <1>2, SandboxAssumption, FS_CardinalityType
<1>4. Cardinality(Inside') <= Cardinality(Containers)
  BY <1>1, <1>2, <1>3
<1>5. (\E s \in Requests : phase'[s] \in {"polling", "busy"}) => Gone' # {}
  BY DEF SandboxInv, PollingMeansLost
<1> QED
  BY <1>4, <1>5 DEF PollingMeansLost

\* The phase of one request changes.
LEMMA OneMoves ==
  ASSUME SandboxTypeOK, NEW r \in Requests, NEW to \in Phases, Goes(r, to)
  PROVE  /\ phase' \in [Requests -> Phases] /\ phase'[r] = to
         /\ \A s \in Requests : s # r => phase'[s] = phase[s]
         /\ phase[r] \notin {"new", "answered", "busy"} => Inside' \subseteq Inside
BY DEF SandboxTypeOK, Goes, Inside

LEMMA EnterInv == ASSUME SandboxInv, NEW r \in Requests, Enter(r) PROVE SandboxInv'
<1>1. SandboxTypeOK /\ Kept
  BY DEF SandboxInv, Kept
<1>2. SandboxTypeOK'
  BY <1>1, OneMoves DEF Enter, SandboxTypeOK, Phases
<1>3. Kept'
  BY <1>1, MovesKept DEF Enter, Holding, Gone
<1>4. Inside' = Inside \cup {r}
  BY <1>1 DEF Enter, Goes, Inside, SandboxTypeOK
<1>5. IsFiniteSet(Inside) /\ IsFiniteSet(Containers)
  BY SandboxAssumption, FS_Subset DEF Inside
<1>6. Cardinality(Inside') <= Cardinality(Inside) + 1
  <2>1. Cardinality(Inside) \in Nat
    BY <1>5, FS_CardinalityType
  <2>2. Cardinality(Inside \cup {r}) = IF r \in Inside THEN Cardinality(Inside) ELSE Cardinality(Inside) + 1
    BY <1>5, FS_AddElement
  <2> QED
    BY <1>4, <2>1, <2>2
<1>7. /\ Cardinality(Inside) \in Nat /\ Cardinality(Containers) \in Nat
      /\ Cardinality(Inside') \in Nat
  BY <1>4, <1>5, FS_CardinalityType, FS_AddElement
<1>8. Cardinality(Inside') <= Cardinality(Containers)
  BY <1>6, <1>7 DEF Enter
<1>9. (\E s \in Requests : phase'[s] \in {"polling", "busy"}) => Gone' # {}
  BY <1>1, OneMoves DEF Enter, Phases, SandboxInv, PollingMeansLost, Gone
<1> QED
  BY <1>2, <1>3, <1>8, <1>9 DEF SandboxInv, Kept, PollingMeansLost

LEMMA ProceedInv == ASSUME SandboxInv, NEW r \in Requests, Proceed(r) \/ Executed(r) PROVE SandboxInv'
<1>1. SandboxTypeOK /\ Kept /\ HoldsInPhase
  BY DEF SandboxInv, Kept
<1>2. phase[r] \in Holding => holds[r] \in Containers
  BY <1>1 DEF HoldsInPhase, SandboxTypeOK
<1> SUFFICES SandboxTypeOK' /\ Kept' /\ PollingMeansLost'
  BY DEF SandboxInv, Kept
<1>3. CASE RefuseUnsafe(r) \/ FindEmpty(r) \/ GiveUp(r) \/ Executed(r)
  <2>1. SandboxTypeOK'
    BY <1>1, <1>3, OneMoves DEF RefuseUnsafe, FindEmpty, GiveUp, Executed, SandboxTypeOK, Phases
  <2>2. Kept'
    BY <1>1, <1>3, MovesKept DEF RefuseUnsafe, FindEmpty, GiveUp, Executed, Holding, Gone
  <2>3. FindEmpty(r) => Gone # {}
    BY EmptyMeansLost DEF FindEmpty
  <2>4. PollingMeansLost'
    BY <1>1, <1>3, <2>3, PollingKept, OneMoves
       DEF RefuseUnsafe, FindEmpty, GiveUp, Executed, Phases, Gone
  <2> QED
    BY <2>1, <2>2, <2>4
<1>4. CASE Take(r)
  <2>1. SandboxTypeOK' /\ Kept'
    BY <1>1, <1>4, TakeKept
  <2>2. PollingMeansLost'
    BY <1>1, <1>4, PollingKept, OneMoves DEF Take, Phases, Gone
  <2> QED
    BY <2>1, <2>2
<1>5. CASE Lock(r, "taken", "checking") \/ Lock(r, "leaving", "rechecking")
  <2>1. SandboxTypeOK'
    BY <1>1, <1>5, OneMoves DEF Lock, SandboxTypeOK, Phases
  <2>2. Kept'
    BY <1>1, <1>5, MovesKept DEF Lock, Holding, Gone
  <2>3. PollingMeansLost'
    BY <1>1, <1>5, PollingKept, OneMoves DEF Lock, Phases, Gone
  <2> QED
    BY <2>1, <2>2, <2>3
<1>6. ASSUME NEW ok \in BOOLEAN, Checked(r, ok) PROVE SandboxTypeOK' /\ Kept' /\ PollingMeansLost'
  <2> DEFINE to == IF ok THEN "granted" ELSE "recreating"
  <2>1. Goes(r, to) /\ to \in Phases /\ phase[r] = "checking" /\ to \in Holding
    BY <1>6 DEF Checked, Phases, Holding
  <2>2. SandboxTypeOK'
    BY <1>1, <1>6, <2>1, OneMoves DEF Checked, SandboxTypeOK
  <2>3. Kept'
    BY <1>1, <1>6, <2>1, MovesKept DEF Checked, Holding, Gone
  <2>4. PollingMeansLost'
    BY <1>1, <1>6, <2>1, PollingKept, OneMoves DEF Checked, Gone
  <2> QED
    BY <2>2, <2>3, <2>4
<1>7. ASSUME NEW ok \in BOOLEAN, Recreated(r, ok) PROVE SandboxTypeOK' /\ Kept' /\ PollingMeansLost'
  <2> DEFINE to == IF ok THEN "granted" ELSE "polling"
  <2>1. Goes(r, to) /\ to \in Phases /\ phase[r] = "recreating" /\ holds[r] \in Containers
    BY <1>2, <1>7 DEF Recreated, Phases, Holding
  <2>2. SandboxTypeOK'
    BY <1>1, <1>7, <2>1, OneMoves DEF Recreated, Made, SandboxTypeOK
  <2>3. Kept'
    <3>1. CASE ok
      BY <1>1, <1>7, <2>1, <3>1, MovesKept DEF Recreated, Holding, Gone
    <3>2. CASE ~ok
      <4>1. /\ pool' = pool /\ holds' = [holds EXCEPT ![r] = NoContainer]
            /\ Gone' = Gone \cup {holds[r]} /\ Goes(r, "polling")
            /\ phase[r] \in Holding /\ "polling" \notin Holding
        BY <2>1, <1>7, <3>2 DEF Recreated, Holding, Gone
      <4> QED
        BY <1>1, <4>1, LosesKept
    <3> QED
      BY <3>1, <3>2
  <2>4. PollingMeansLost'
    BY <1>1, <1>7, <2>1, PollingKept, OneMoves DEF Recreated, Gone
  <2> QED
    BY <2>2, <2>3, <2>4
<1>8. ASSUME NEW ok \in BOOLEAN, MakeDirectory(r, ok) PROVE SandboxTypeOK' /\ Kept' /\ PollingMeansLost'
  <2> DEFINE to == IF ok THEN "executing" ELSE "answered"
  <2>1. Goes(r, to) /\ to \in Phases /\ phase[r] = "granted" /\ holds[r] \in Containers
    BY <1>2, <1>8 DEF MakeDirectory, Phases, Holding
  <2>2. SandboxTypeOK'
    BY <1>1, <1>8, <2>1, OneMoves DEF MakeDirectory, SandboxTypeOK
  <2>3. Kept'
    <3>1. CASE ok
      BY <1>1, <1>8, <2>1, <3>1, MovesKept DEF MakeDirectory, Holding, Gone
    <3>2. CASE ~ok
      <4>1. /\ pool' = pool /\ holds' = [holds EXCEPT ![r] = NoContainer]
            /\ Gone' = Gone \cup {holds[r]} /\ Goes(r, "answered")
            /\ phase[r] \in Holding /\ "answered" \notin Holding
        BY <2>1, <1>8, <3>2 DEF MakeDirectory, Holding, Gone
      <4> QED
        BY <1>1, <4>1, LosesKept
    <3> QED
      BY <3>1, <3>2
  <2>4. PollingMeansLost'
    BY <1>1, <1>8, <2>1, PollingKept, OneMoves DEF MakeDirectory, Gone
  <2> QED
    BY <2>2, <2>3, <2>4
<1>9. ASSUME NEW ok \in BOOLEAN, Rechecked(r, ok) \/ Rerecreated(r, ok), PutBack(r), UNCHANGED Gone
      PROVE  SandboxTypeOK' /\ Kept' /\ PollingMeansLost'
  <2>1. Goes(r, "answered") /\ phase[r] \in Holding /\ holds[r] \in Containers
    BY <1>2, <1>9 DEF Rechecked, Rerecreated, PutBack, Holding
  <2>2. phase[r] \in {"rechecking", "rerecreating"}
    BY <1>9 DEF Rechecked, Rerecreated
  <2>3. Kept' /\ pool' \in Seq(Containers)
    BY <1>1, <1>9, <2>1, PutBackKept
  <2>4. SandboxTypeOK'
    BY <1>1, <1>9, <2>1, <2>3, OneMoves DEF Rechecked, Rerecreated, PutBack, Made, SandboxTypeOK, Phases
  <2>5. PollingMeansLost'
    BY <1>1, <1>9, <2>1, <2>2, PollingKept, OneMoves DEF Phases
  <2> QED
    BY <2>3, <2>4, <2>5
<1>10. ASSUME Rechecked(r, FALSE) PROVE SandboxTypeOK' /\ Kept' /\ PollingMeansLost'
  <2>1. SandboxTypeOK'
    BY <1>1, <1>10, OneMoves DEF Rechecked, SandboxTypeOK, Phases
  <2>2. Kept'
    BY <1>1, <1>10, MovesKept DEF Rechecked, Holding, Gone
  <2>3. PollingMeansLost'
    BY <1>1, <1>10, PollingKept, OneMoves DEF Rechecked, Phases, Gone
  <2> QED
    BY <2>1, <2>2, <2>3
<1>11. ASSUME Rerecreated(r, FALSE) PROVE SandboxTypeOK' /\ Kept' /\ PollingMeansLost'
  <2>1. /\ Goes(r, "answered") /\ phase[r] = "rerecreating" /\ holds[r] \in Containers
        /\ pool' = pool
    BY <1>2, <1>11 DEF Rerecreated, Holding
  <2>2. SandboxTypeOK'
    BY <1>1, <1>11, <2>1, OneMoves DEF Rerecreated, Made, SandboxTypeOK, Phases
  <2>3. Kept'
    BY <1>1, <1>11, <2>1, LosesKept DEF Rerecreated, Holding, Gone
  <2>4. PollingMeansLost'
    BY <1>1, <1>11, <2>1, PollingKept, OneMoves DEF Rerecreated, Phases, Gone
  <2> QED
    BY <2>2, <2>3, <2>4
<1>12. ASSUME NEW ok \in BOOLEAN, Rechecked(r, ok) \/ Rerecreated(r, ok)
       PROVE  SandboxTypeOK' /\ Kept' /\ PollingMeansLost'
  <2>1. CASE ok
    BY <1>9, <1>12, <2>1 DEF Rechecked, Rerecreated, Gone
  <2>2. CASE ~ok
    BY <1>10, <1>11, <1>12, <2>2
  <2> QED
    BY <2>1, <2>2
<1> QED
  BY <1>3, <1>4, <1>5, <1>6, <1>7, <1>8, <1>12 DEF Proceed

LEMMA WorldInv == ASSUME SandboxInv, (\E c \in Containers : Dies(c)) \/ Stop \/ Start PROVE SandboxInv'
<1>1. SandboxTypeOK /\ HoldsInPhase /\ HeldOnce /\ NothingForgotten /\ PollingMeansLost
  BY DEF SandboxInv
<1>2. CASE (\E c \in Containers : Dies(c)) \/ Stop
  <2>1. SandboxTypeOK'
    <3>1. ASSUME NEW c \in Containers, Dies(c) PROVE SandboxTypeOK'
      <4>1. deaths' \in 0..MaxDeaths
        BY <1>1, <3>1, SandboxAssumption DEF Dies, SandboxTypeOK
      <4> QED
        BY <1>1, <3>1, <4>1 DEF Dies, SandboxTypeOK
    <3>2. ASSUME NEW removed, Stopped(removed) PROVE SandboxTypeOK'
      <4>1. stops' \in 0..MaxStops
        BY <1>1, <3>2, SandboxAssumption DEF Stopped, SandboxTypeOK
      <4> QED
        BY <1>1, <3>2, <4>1 DEF Stopped, SandboxTypeOK
    <3> QED
      BY <1>2, <3>1, <3>2 DEF Stop
  <2>2. UNCHANGED <<pool, phase, holds, Gone>>
    BY <1>2 DEF Dies, Stop, Stopped, Gone
  <2>3. HoldsInPhase' /\ HeldOnce' /\ NothingForgotten'
    BY <1>1, <2>2 DEF HoldsInPhase, HeldOnce, NothingForgotten, Held, NamesIn
  <2>4. PollingMeansLost'
    BY <1>1, <2>2 DEF PollingMeansLost, Inside
  <2> QED
    BY <2>1, <2>3, <2>4 DEF SandboxInv
<1>3. CASE Start
  <2>1. pool' \in Seq(Containers) /\ Injective(pool') /\ NamesIn(pool') \subseteq Containers
    BY <1>3, CreatedNames DEF Start
  <2>2. /\ \A r \in Requests : holds'[r] = NoContainer /\ phase'[r] = "new"
        /\ Held' = {} /\ Inside' = {}
    BY <1>3 DEF Start, Held, Inside
  <2>3. SandboxTypeOK'
    BY <1>1, <1>3, <2>1 DEF Start, SandboxTypeOK, Phases
  <2>4. HoldsInPhase' /\ HeldOnce' /\ NothingForgotten'
    BY <1>3, <2>1, <2>2 DEF Start, HoldsInPhase, Holding, HeldOnce, Injective, NothingForgotten, Gone
  <2>5. PollingMeansLost'
    BY <2>2, SandboxAssumption, FS_EmptySet, FS_CardinalityType DEF PollingMeansLost
  <2> QED
    BY <2>3, <2>4, <2>5 DEF SandboxInv
<1> QED
  BY <1>2, <1>3

LEMMA SandboxInductive == SandboxSpec => []SandboxInv
<1>1. ASSUME SandboxInit PROVE SandboxInv
  <2>1. pool \in Seq(Containers) /\ Injective(pool) /\ NamesIn(pool) \subseteq Containers
    BY <1>1, CreatedNames DEF SandboxInit
  <2>2. Held = {} /\ Inside = {}
    BY <1>1 DEF SandboxInit, Held, Inside
  <2>3. SandboxTypeOK
    BY <1>1, <2>1, SandboxAssumption DEF SandboxInit, SandboxTypeOK, Phases
  <2>4. HoldsInPhase /\ HeldOnce /\ NothingForgotten
    BY <1>1, <2>1, <2>2 DEF SandboxInit, HoldsInPhase, Holding, HeldOnce, Injective, NothingForgotten,
       Gone
  <2>5. PollingMeansLost
    BY <1>1, <2>2, SandboxAssumption, FS_EmptySet, FS_CardinalityType DEF SandboxInit, PollingMeansLost
  <2> QED
    BY <2>3, <2>4, <2>5 DEF SandboxInv
<1>2. ASSUME SandboxInv, [SandboxNext]_sandboxVars PROVE SandboxInv'
  <2>1. CASE SandboxNext
    BY <1>2, <2>1, EnterInv, ProceedInv, WorldInv DEF SandboxNext
  <2>2. CASE UNCHANGED sandboxVars
    <3>1. SandboxTypeOK'
      BY <1>2, <2>2 DEF sandboxVars, SandboxInv, SandboxTypeOK
    <3>2. HoldsInPhase' /\ HeldOnce' /\ NothingForgotten'
      BY <1>2, <2>2 DEF sandboxVars, SandboxInv, HoldsInPhase, HeldOnce, NothingForgotten, Held, NamesIn,
         Gone
    <3>3. PollingMeansLost'
      BY <1>2, <2>2 DEF sandboxVars, SandboxInv, PollingMeansLost, Inside, Gone
    <3> QED
      BY <3>1, <3>2, <3>3 DEF SandboxInv
  <2> QED
    BY <1>2, <2>1, <2>2
<1> QED
  BY <1>1, <1>2, PTL DEF SandboxSpec

-----------------------------------------------------------------------------
(* The theorems about the sandbox. *)

\* Every variable keeps its type.
THEOREM SandboxTypeCorrect == SandboxSpec => []SandboxTypeOK
<1>1. SandboxInv => SandboxTypeOK
  BY DEF SandboxInv
<1> QED
  BY <1>1, SandboxInductive, PTL

\* No two requests ever execute in the same container, and none in one that is
\* free: allocation hands a name out once, and release puts it back once.
THEOREM ContainersAreHeldOnce == SandboxSpec => []HeldOnce
<1>1. SandboxInv => HeldOnce
  BY DEF SandboxInv
<1> QED
  BY <1>1, SandboxInductive, PTL

\* Every container is free, held, could not be made again, or was granted to a
\* request that could not make its work directory, which alone forgets a
\* container that may run (execution.py:46).
THEOREM NoContainerForgotten == SandboxSpec => []NothingForgotten
<1>1. SandboxInv => NothingForgotten
  BY DEF SandboxInv
<1> QED
  BY <1>1, SandboxInductive, PTL

\* "Container pool is busy" is only said when a container is lost or forgotten: the
\* semaphore keeps requests that find all in use waiting.
THEOREM BusyOnlyAfterALoss == SandboxSpec => []BusyMeansLost
<1>1. SandboxInv => BusyMeansLost
  BY DEF SandboxInv, PollingMeansLost, BusyMeansLost
<1> QED
  BY <1>1, SandboxInductive, PTL

-----------------------------------------------------------------------------
(* The MCP session. *)

\* Closers wait until the loop has stopped; later ones find the flag set.
CloserWaits ==
  /\ closing => (\E k \in Closers : closers[k] = "joining") \/ loop = "stopped"
  /\ \A k \in Closers : closers[k] \in {"joining", "closed"} => closing

\* A call's queue only ever holds its own result.
OwnResults == \A c \in Calls : results[c] \subseteq {c, "error"}

McpInv == McpTypeOK /\ CloserWaits /\ OwnResults /\ AnsweredByOwnResult

\* The steps of a call.
LEMMA CallInv ==
  ASSUME McpInv, NEW c \in Calls,
         Call(c) \/ Queues(c) \/ Collects(c) \/ InnerTimeout(c) \/ OuterTimeout(c)
  PROVE  McpInv'
<1>1. McpTypeOK /\ CloserWaits /\ OwnResults /\ AnsweredByOwnResult
  BY DEF McpInv
<1>2. CASE Call(c) \/ OuterTimeout(c)
  BY <1>1, <1>2 DEF Call, OuterTimeout, McpInv, McpTypeOK, CloserWaits, OwnResults, AnsweredByOwnResult
<1>3. CASE Queues(c)
  <2>1. queue' \in Seq(Calls)
    BY <1>1, <1>3, AppendProperties DEF Queues, McpTypeOK
  <2> QED
    BY <1>1, <1>3, <2>1 DEF Queues, McpInv, McpTypeOK, CloserWaits, OwnResults, AnsweredByOwnResult
<1>4. ASSUME NEW r \in {c, "error", "timeout"}, Ends(c, r)
      PROVE  /\ answer' \in [Calls -> Calls \cup {"none", "error", "timeout"}] /\ AnsweredByOwnResult'
             /\ coro' \in [Calls -> {"none", "scheduled", "waiting", "ended"}]
  BY <1>1, <1>4 DEF Ends, McpTypeOK, AnsweredByOwnResult
<1>5. CASE Collects(c)
  <2>1. PICK r \in results[c] : Ends(c, r) /\ results' = [results EXCEPT ![c] = {}]
    BY <1>5 DEF Collects
  <2>2. r \in {c, "error", "timeout"}
    BY <1>1, <2>1 DEF OwnResults
  <2>3. OwnResults' /\ results' \in [Calls -> SUBSET (Calls \cup {"error"})]
    BY <1>1, <2>1 DEF OwnResults, McpTypeOK
  <2>4. UNCHANGED <<closing, loop, worker, serving, queue, begun, closers>>
    BY <2>1 DEF Ends
  <2> QED
    BY <1>1, <1>4, <2>1, <2>2, <2>3, <2>4 DEF McpInv, McpTypeOK, CloserWaits
<1>6. CASE InnerTimeout(c)
  <2>1. Ends(c, "timeout") /\ results' = results
    BY <1>6 DEF InnerTimeout
  <2>2. UNCHANGED <<closing, loop, worker, serving, queue, begun, closers>>
    BY <2>1 DEF Ends
  <2> QED
    BY <1>1, <1>4, <2>1, <2>2 DEF McpInv, McpTypeOK, CloserWaits, OwnResults
<1> QED
  BY <1>2, <1>3, <1>5, <1>6

\* The steps of the worker.
LEMMA WorkerInv ==
  ASSUME McpInv, Connects \/ TakeCall \/ Served \/ Breaks \/ WorkerEnds
  PROVE  McpInv'
<1>1. McpTypeOK /\ CloserWaits /\ OwnResults /\ AnsweredByOwnResult
  BY DEF McpInv
<1>2. CASE Connects \/ Breaks \/ WorkerEnds
  BY <1>1, <1>2 DEF Connects, Breaks, WorkerEnds, Waits, McpInv, McpTypeOK, CloserWaits,
     OwnResults, AnsweredByOwnResult
<1>3. CASE TakeCall
  <2>1. Head(queue) \in Calls /\ Tail(queue) \in Seq(Calls)
    BY <1>1, <1>3, HeadTailProperties DEF TakeCall, McpTypeOK
  <2>2. OwnResults' /\ results' \in [Calls -> SUBSET (Calls \cup {"error"})]
    BY <1>1, <1>3, <2>1 DEF TakeCall, OwnResults, McpTypeOK
  <2>3. /\ serving' \in Calls \cup {NoCall} /\ begun' \subseteq Calls /\ queue' \in Seq(Calls)
        /\ worker' \in {"connecting", "ready", "failed", "ended"}
    BY <1>1, <1>3, <2>1 DEF TakeCall, Waits, McpTypeOK
  <2> QED
    BY <1>1, <1>3, <2>2, <2>3 DEF TakeCall, McpInv, McpTypeOK, CloserWaits, AnsweredByOwnResult
<1>4. CASE Served
  <2>1. serving \in Calls
    BY <1>1, <1>4 DEF Served, McpTypeOK
  <2>2. OwnResults' /\ results' \in [Calls -> SUBSET (Calls \cup {"error"})]
    BY <1>1, <1>4, <2>1 DEF Served, OwnResults, McpTypeOK
  <2> QED
    BY <1>1, <1>4, <2>2 DEF Served, Waits, McpInv, McpTypeOK, CloserWaits, AnsweredByOwnResult
<1> QED
  BY <1>2, <1>3, <1>4

\* The steps of closing.
LEMMA CloseInv ==
  ASSUME McpInv, LoopStops \/ \E k \in Closers : CloseLooks(k) \/ Close(k) \/ Joined(k)
  PROVE  McpInv'
<1>1. McpTypeOK /\ CloserWaits /\ OwnResults /\ AnsweredByOwnResult
  BY DEF McpInv
<1>2. CASE LoopStops
  BY <1>1, <1>2 DEF LoopStops, McpInv, McpTypeOK, CloserWaits, OwnResults, AnsweredByOwnResult
<1>3. ASSUME NEW k \in Closers, CloseLooks(k) PROVE McpInv'
  <2>1. /\ closers' = [closers EXCEPT ![k] = IF closing THEN "closed" ELSE "closing"]
        /\ closers[k] = "new"
        /\ UNCHANGED <<closing, loop, worker, serving, queue, coro, results, answer, begun>>
    BY <1>3 DEF CloseLooks
  <2>2. CloserWaits' /\ McpTypeOK'
    BY <1>1, <2>1 DEF CloserWaits, McpTypeOK
  <2> QED
    BY <1>1, <2>1, <2>2 DEF McpInv, OwnResults, AnsweredByOwnResult
<1>4. ASSUME NEW k \in Closers, Close(k) PROVE McpInv'
  <2>1. /\ closers' = [closers EXCEPT ![k] = "joining"] /\ closing' = TRUE
        /\ loop' \in {loop, "halting"}
        /\ UNCHANGED <<worker, serving, queue, coro, results, answer, begun>>
    BY <1>4 DEF Close, Halts
  <2>2. closers'[k] = "joining" /\ \A j \in Closers : j # k => closers'[j] = closers[j]
    BY <1>1, <2>1 DEF McpTypeOK
  <2>3. CloserWaits'
    BY <1>1, <2>1, <2>2 DEF CloserWaits
  <2>4. McpTypeOK'
    BY <1>1, <2>1 DEF McpTypeOK
  <2> QED
    BY <1>1, <2>1, <2>3, <2>4 DEF McpInv, OwnResults, AnsweredByOwnResult
<1>5. ASSUME NEW k \in Closers, Joined(k) PROVE McpInv'
  <2>1. /\ closers' = [closers EXCEPT ![k] = "closed"] /\ closers[k] = "joining"
        /\ loop = "stopped"
        /\ UNCHANGED <<closing, loop, worker, serving, queue, coro, results, answer, begun>>
    BY <1>5 DEF Joined
  <2>2. CloserWaits' /\ McpTypeOK'
    BY <1>1, <2>1 DEF CloserWaits, McpTypeOK
  <2> QED
    BY <1>1, <2>1, <2>2 DEF McpInv, OwnResults, AnsweredByOwnResult
<1> QED
  BY <1>2, <1>3, <1>4, <1>5

LEMMA McpInductive == McpSpec => []McpInv
<1>1. ASSUME McpInit PROVE McpInv
  <2>1. McpTypeOK
    <3>1. queue \in Seq(Calls) /\ begun \subseteq Calls
      BY <1>1 DEF McpInit
    <3> QED
      BY <1>1, <3>1 DEF McpInit, McpTypeOK
  <2>2. CloserWaits /\ OwnResults /\ AnsweredByOwnResult
    BY <1>1 DEF McpInit, CloserWaits, OwnResults, AnsweredByOwnResult
  <2> QED
    BY <2>1, <2>2 DEF McpInv
<1>2. ASSUME McpInv, [McpNext]_mcpVars PROVE McpInv'
  <2>1. CASE McpNext
    BY <1>2, <2>1, CallInv, WorkerInv, CloseInv DEF McpNext
  <2>2. CASE UNCHANGED mcpVars
    BY <1>2, <2>2 DEF mcpVars, McpInv, McpTypeOK, CloserWaits, OwnResults, AnsweredByOwnResult
  <2> QED
    BY <1>2, <2>1, <2>2
<1> QED
  BY <1>1, <1>2, PTL DEF McpSpec

\* Every variable of the session keeps its type.
THEOREM McpTypeCorrect == McpSpec => []McpTypeOK
<1>1. McpInv => McpTypeOK
  BY DEF McpInv
<1> QED
  BY <1>1, McpInductive, PTL

\* No thread ever gets the result of another call.
THEOREM CallsGetTheirResults == McpSpec => []AnsweredByOwnResult
<1>1. McpInv => AnsweredByOwnResult
  BY DEF McpInv
<1> QED
  BY <1>1, McpInductive, PTL

\* When the closers that wait have returned, the loop has stopped, and the MCP
\* server is asked nothing more.
THEOREM ClosedIsQuiet == McpSpec => NothingAfterClose
<1> DEFINE Closed == /\ \E k \in Closers : closers[k] = "closed"
                     /\ ~ \E k \in Closers : closers[k] = "joining"
<1>1. ASSUME McpInv, [McpNext]_mcpVars PROVE [Closed => begun' = begun]_mcpVars
  <2>1. SUFFICES ASSUME McpNext, Closed PROVE begun' = begun
    BY <1>1
  <2>2. loop = "stopped"
    BY <1>1, <2>1 DEF McpInv, CloserWaits
  <2> QED
    BY <2>1, <2>2 DEF McpNext, CloseLooks, Call, Queues, Collects, InnerTimeout, OuterTimeout, Ends, Turning,
       Connects, TakeCall, Served, Breaks, WorkerEnds, LoopStops, Close, Joined
<1> QED
  BY <1>1, McpInductive, PTL DEF McpSpec, NothingAfterClose

-----------------------------------------------------------------------------
(* The extraction service. *)

\* A task is handed to the pool once it is stored, and has a result when its
\* thread leaves it.
TasksInStep ==
  \A t \in Extractions :
    /\ step[t] \in {"called", "refused", "stored"} => work[t] = "none"
    /\ step[t] = "called" => status[t] = "none"
    /\ status[t] = "success" => work[t] \in {"leaving", "done"}

\* Those that have reserved workers and not given them back, whether they are
\* in flight or leaked, and the workers they have.
Reserving == {t \in Extractions : step[t] \notin {"called", "refused"} /\ work[t] # "done"}
WorkersOut == WorkersOf(Reserving)
AllCounted == used = Cardinality(WorkersOut)

ExtractionInv == ExtractionTypeOK /\ TasksInStep /\ AllCounted

\* The workers of one task are as many as it needs.
Slots(t) == {t} \X (1..need[t])

LEMMA SlotsCount ==
  ASSUME ExtractionTypeOK, NEW t \in Extractions
  PROVE  IsFiniteSet(Slots(t)) /\ Cardinality(Slots(t)) = need[t]
<1> DEFINE f == [i \in 1..need[t] |-> <<t, i>>]
<1>1. need[t] \in Nat /\ need[t] >= 1
  BY ExtractionAssumption DEF ExtractionTypeOK
<1>2. f \in Bijection(1..need[t], Slots(t))
  BY DEF Bijection, Injection, Surjection, IsInjective, Slots
<1>3. ExistsBijection(1..need[t], Slots(t))
  BY <1>2 DEF ExistsBijection
<1>4. IsFiniteSet(1..need[t]) /\ Cardinality(1..need[t]) = need[t]
  BY <1>1, FS_Interval
<1> QED
  BY <1>3, <1>4, FS_Bijection

LEMMA OutIsFinite == IsFiniteSet(WorkersOut) /\ Cardinality(WorkersOut) \in Nat
<1>1. IsFiniteSet(1..MaxWorks)
  BY ExtractionAssumption, FS_Interval
<1>2. IsFiniteSet(Extractions \X (1..MaxWorks))
  BY <1>1, ExtractionAssumption, FS_Product
<1>3. WorkersOut \subseteq Extractions \X (1..MaxWorks)
  BY DEF WorkersOut, WorkersOf, Reserving
<1> QED
  BY <1>2, <1>3, FS_Subset, FS_CardinalityType

\* A task that is accepted adds its workers to those that are out.
LEMMA ReserveCounts ==
  ASSUME ExtractionInv, NEW t \in Extractions, Reserve(t)
  PROVE  AllCounted'
<1>0. ExtractionTypeOK /\ TasksInStep /\ AllCounted
  BY DEF ExtractionInv
<1>1. CASE need[t] > MaxWorks - used
  <2>1. Reserving' = Reserving
    BY <1>0, <1>1 DEF Reserve, StepTo, Reserving, ExtractionTypeOK, TasksInStep
  <2> QED
    BY <1>0, <1>1, <2>1 DEF Reserve, AllCounted, WorkersOut, WorkersOf
<1>2. CASE ~(need[t] > MaxWorks - used)
  <2>1. Reserving' = Reserving \cup {t} /\ t \notin Reserving
    BY <1>0, <1>2 DEF Reserve, StepTo, Reserving, ExtractionTypeOK, TasksInStep
  <2>2. need[t] \in 1..MaxWorks
    BY <1>0 DEF ExtractionTypeOK
  <2>3. need' = need
    BY <1>2 DEF Reserve
  <2>4. WorkersOut' = WorkersOut \cup Slots(t) /\ WorkersOut \cap Slots(t) = {}
    BY <2>1, <2>2, <2>3, ExtractionAssumption DEF WorkersOut, WorkersOf, Slots
  <2>5. Cardinality(WorkersOut') = Cardinality(WorkersOut) + need[t] - 0
    <3>1. Cardinality(WorkersOut \cup Slots(t))
            = Cardinality(WorkersOut) + Cardinality(Slots(t)) - Cardinality({})
      BY <1>0, <2>4, SlotsCount, OutIsFinite, FS_Union
    <3> QED
      BY <1>0, <2>4, <3>1, SlotsCount, FS_EmptySet
  <2>6. used' = used + need[t]
    BY <1>2 DEF Reserve
  <2> QED
    BY <1>0, <2>2, <2>5, <2>6, OutIsFinite, ExtractionAssumption DEF AllCounted
<1> QED
  BY <1>1, <1>2

\* A thread that leaves takes all its workers, and no others, from those out:
\* the count never has to be raised to zero.
LEMMA LeaveCounts ==
  ASSUME ExtractionInv, NEW t \in Extractions, Leave(t)
  PROVE  AllCounted'
<1>0. ExtractionTypeOK /\ TasksInStep /\ AllCounted
  BY DEF ExtractionInv
<1>1. Reserving' = Reserving \ {t} /\ t \in Reserving
  BY <1>0 DEF Leave, WorkTo, Reserving, ExtractionTypeOK, TasksInStep
<1>2. need[t] \in 1..MaxWorks /\ need' = need
  BY <1>0 DEF ExtractionTypeOK, Leave
<1>3. WorkersOut' = WorkersOut \ Slots(t) /\ WorkersOut \cap Slots(t) = Slots(t)
  BY <1>1, <1>2, ExtractionAssumption DEF WorkersOut, WorkersOf, Slots
<1>4. Cardinality(WorkersOut') = Cardinality(WorkersOut) - need[t]
  <2>1. Cardinality(WorkersOut \ Slots(t))
          = Cardinality(WorkersOut) - Cardinality(WorkersOut \cap Slots(t))
    BY OutIsFinite, FS_Difference
  <2> QED
    BY <1>0, <1>3, <2>1, SlotsCount
<1>5. Cardinality(WorkersOut') \in Nat
  BY <1>3, OutIsFinite, FS_Difference, FS_CardinalityType
<1>6. used' = IF need[t] > used THEN 0 ELSE used - need[t]
  BY DEF Leave, GiveBack
<1> QED
  BY <1>0, <1>2, <1>4, <1>5, <1>6, OutIsFinite, ExtractionAssumption DEF AllCounted

LEMMA ExtractionStep ==
  ASSUME ExtractionInv, [ExtractionNext]_extractionVars
  PROVE  /\ ExtractionInv'
         /\ \A t \in Extractions : status[t] = "success" => status'[t] = "success"
<1>0. ExtractionTypeOK /\ TasksInStep /\ AllCounted
  BY DEF ExtractionInv
<1>1. ASSUME NEW t \in Extractions,
             Submit(t) \/ Track(t) \/ Begin(t) \/ Extracted(t) \/ TimerFires(t)
      PROVE  /\ ExtractionInv'
             /\ \A u \in Extractions : status[u] = "success" => status'[u] = "success"
  <2>1. /\ ExtractionTypeOK' /\ TasksInStep'
        /\ \A u \in Extractions : status[u] = "success" => status'[u] = "success"
    BY <1>0, <1>1 DEF Submit, Track, Begin, Extracted, TimerFires, Overdue, StepTo, StatusTo, WorkTo,
       ExtractionTypeOK, TasksInStep, Steps
  <2>2. Reserving' = Reserving
    BY <1>0, <1>1 DEF Submit, Track, Begin, Extracted, TimerFires, Overdue, StepTo, StatusTo, WorkTo,
       ExtractionTypeOK, TasksInStep, Reserving
  <2>3. used' = used /\ need' = need
    BY <1>1 DEF Submit, Track, Begin, Extracted, TimerFires
  <2> QED
    BY <1>0, <2>1, <2>2, <2>3 DEF ExtractionInv, AllCounted, WorkersOut, WorkersOf
<1>2. ASSUME NEW t \in Extractions, Reserve(t)
      PROVE  /\ ExtractionInv'
             /\ \A u \in Extractions : status[u] = "success" => status'[u] = "success"
  <2>1. used' \in 0..MaxWorks
    BY <1>0, <1>2, ExtractionAssumption DEF Reserve, ExtractionTypeOK
  <2> QED
    BY <1>0, <1>2, <2>1, ReserveCounts
       DEF Reserve, StepTo, StatusTo, ExtractionInv, ExtractionTypeOK, TasksInStep, Steps
<1>3. ASSUME NEW t \in Extractions, Leave(t)
      PROVE  /\ ExtractionInv'
             /\ \A u \in Extractions : status[u] = "success" => status'[u] = "success"
  <2>1. used' \in 0..MaxWorks
    <3>1. used \in 0..MaxWorks /\ need[t] \in 1..MaxWorks /\ MaxWorks \in Nat
      BY <1>0, ExtractionAssumption DEF ExtractionTypeOK
    <3> QED
      BY <1>3, <3>1 DEF Leave, GiveBack
  <2> QED
    BY <1>0, <1>3, <2>1, LeaveCounts DEF Leave, WorkTo, ExtractionInv, ExtractionTypeOK, TasksInStep
<1>4. CASE UNCHANGED extractionVars
  BY <1>0, <1>4 DEF extractionVars, ExtractionInv, ExtractionTypeOK, TasksInStep, AllCounted,
     WorkersOut, WorkersOf, Reserving
<1> QED
  BY <1>1, <1>2, <1>3, <1>4 DEF ExtractionNext

LEMMA ExtractionInductive == ExtractionSpec => []ExtractionInv
<1>1. ASSUME ExtractionInit PROVE ExtractionInv
  <2>1. ExtractionTypeOK /\ TasksInStep
    BY <1>1, ExtractionAssumption DEF ExtractionInit, ExtractionTypeOK, TasksInStep, Steps
  <2>2. WorkersOut = {}
    BY <1>1 DEF ExtractionInit, WorkersOut, WorkersOf, Reserving
  <2> QED
    BY <1>1, <2>1, <2>2, FS_EmptySet DEF ExtractionInit, ExtractionInv, AllCounted
<1> QED
  BY <1>1, ExtractionStep, PTL DEF ExtractionSpec

\* Every variable of the service keeps its type: the workers in use are never
\* more than there are.
THEOREM ExtractionTypeCorrect == ExtractionSpec => []ExtractionTypeOK
<1>1. ExtractionInv => ExtractionTypeOK
  BY DEF ExtractionInv
<1> QED
  BY <1>1, ExtractionInductive, PTL

\* The workers in use are those of the tasks in flight and those leaked, which
\* are other tasks.
LEMMA CountSplits == ASSUME ExtractionInv PROVE WorkersCounted
<1> DEFINE H == WorkersOf(Holders)
           L == WorkersOf(Leaked)
<1>1. H \cup L = WorkersOut /\ H \cap L = {}
  BY DEF WorkersOut, WorkersOf, Holders, Leaked, Reserving, ExtractionInv, TasksInStep
<1>2. IsFiniteSet(H) /\ IsFiniteSet(L)
  BY <1>1, OutIsFinite, FS_Subset
<1>3. Cardinality(H) \in Nat /\ Cardinality(L) \in Nat
  BY <1>2, FS_CardinalityType
<1>4. Cardinality(WorkersOut) = Cardinality(H) + Cardinality(L) - Cardinality({})
  BY <1>1, <1>2, FS_Union
<1>5. Cardinality({}) = 0
  BY FS_EmptySet
<1>6. Cardinality(WorkersOut) = Cardinality(H) + Cardinality(L)
  <2> HIDE DEF H, L
  <2> QED
    BY <1>3, <1>4, <1>5
<1> QED
  BY <1>6 DEF ExtractionInv, AllCounted, WorkersCounted

\* The count of the workers in use is what the tasks in flight asked for, and
\* what those did whose submission raised, for good (langextract_service.py:690).
THEOREM WorkersAreCounted == ExtractionSpec => []WorkersCounted
<1>1. ExtractionInv => WorkersCounted
  BY CountSplits
<1> QED
  BY <1>1, ExtractionInductive, PTL

\* No task that the pool has waits behind others for a thread: each that is
\* queued, runs or leaves has a first worker of its own among those that are
\* out, of which there are never more than threads.
THEOREM AcceptedTasksHaveThreads == ExtractionSpec => []NeverQueued
<1>1. ASSUME ExtractionInv PROVE NeverQueued
  <2> DEFINE Busy == {t \in Extractions : work[t] \in {"queued", "running", "leaving"}}
             f == [t \in Busy |-> <<t, 1>>]
  <2>0. ExtractionTypeOK /\ TasksInStep /\ AllCounted
    BY <1>1 DEF ExtractionInv
  <2>1. f \in Injection(Busy, WorkersOut)
    <3>1. \A t \in Busy : t \in Reserving /\ 1 <= need[t] /\ 1 \in 1..MaxWorks
      BY <2>0, ExtractionAssumption DEF ExtractionTypeOK, TasksInStep, Reserving
    <3>2. f \in [Busy -> WorkersOut]
      BY <3>1 DEF WorkersOut, WorkersOf
    <3> QED
      BY <3>2 DEF Injection, IsInjective
  <2>2. Cardinality(Busy) <= Cardinality(WorkersOut)
    <3> HIDE DEF Busy, f
    <3> QED
      BY <2>1, OutIsFinite, FS_Injection
  <2>3. Cardinality(Busy) \in Nat
    <3>1. Busy \in SUBSET Extractions
      OBVIOUS
    <3> HIDE DEF Busy
    <3> QED
      BY <3>1, ExtractionAssumption, FS_Subset, FS_CardinalityType
  <2> QED
    BY <2>0, <2>2, <2>3, ExtractionAssumption DEF AllCounted, NeverQueued, ExtractionTypeOK
<1> QED
  BY <1>1, ExtractionInductive, PTL

\* A task that has succeeded stays so: the timer only fails what is processed.
THEOREM ResultsStay == ExtractionSpec => SuccessStays
<1>1. ASSUME ExtractionInv, [ExtractionNext]_extractionVars
      PROVE  [\A t \in Extractions : status[t] = "success" => status'[t] = "success"]_extractionVars
  BY <1>1, ExtractionStep
<1> QED
  BY <1>1, ExtractionInductive, PTL DEF ExtractionSpec, SuccessStays

-----------------------------------------------------------------------------
(* The three services side by side. *)

\* A behaviour of the three is one of each: no step of one is a step of another.
THEOREM ServicesStayApart == Spec => SandboxSpec /\ McpSpec /\ ExtractionSpec
<1>1. Init => SandboxInit /\ McpInit /\ ExtractionInit
  BY DEF Init
<1>2. ASSUME [Next]_poolVars
      PROVE  [SandboxNext]_sandboxVars /\ [McpNext]_mcpVars /\ [ExtractionNext]_extractionVars
  <2>1. CASE InSandbox /\ SandboxNext
    BY <2>1 DEF InSandbox
  <2>2. CASE InMcp /\ McpNext
    BY <2>2 DEF InMcp
  <2>3. CASE InExtraction /\ ExtractionNext
    BY <2>3 DEF InExtraction
  <2>4. CASE UNCHANGED poolVars
    BY <2>4 DEF poolVars
  <2> QED
    BY <1>2, <2>1, <2>2, <2>3, <2>4 DEF Next
<1> QED
  BY <1>1, <1>2, PTL DEF Spec, SandboxSpec, McpSpec, ExtractionSpec

\* What each service promises holds of the three.
THEOREM ServicesAreSafe ==
  Spec => [](/\ HeldOnce /\ NothingForgotten /\ BusyMeansLost /\ AnsweredByOwnResult
             /\ WorkersCounted /\ NeverQueued)
BY ServicesStayApart, ContainersAreHeldOnce, NoContainerForgotten, BusyOnlyAfterALoss,
   CallsGetTheirResults, WorkersAreCounted, AcceptedTasksHaveThreads, PTL

\* A closed session asks its server nothing and a result stays, beside whatever
\* the other services do.
THEOREM ServicesStepsAreSafe == Spec => NothingAfterClose /\ SuccessStays
BY ServicesStayApart, ClosedIsQuiet, ResultsStay, PTL
=============================================================================
