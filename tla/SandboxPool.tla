------------------------------- MODULE SandboxPool -------------------------------
(***************************************************************************)
(* The pool of containers of the sandbox executor manager, which runs the  *)
(* code of agents (sandbox/executor_manager: core/container.py,            *)
(* services/execution.py, api/handlers.py): a semaphore of the size of the *)
(* pool, a queue of free containers, and one lock around every look at a   *)
(* container and its recreation.                                           *)
(*                                                                         *)
(* One language is modelled; the other has a queue and a semaphore of its  *)
(* own and shares the lock.  Each docker command is one step, with the     *)
(* outcome a command with a timeout can have: inspect may not see that a   *)
(* container runs, and a creation that failed may have made one.  Each     *)
(* request is sent once between two starts of the manager.                 *)
(***************************************************************************)
EXTENDS Naturals, Sequences, FiniteSets

CONSTANTS Containers,  \* the names sandbox_python_0, ...: SANDBOX_EXECUTOR_MANAGER_POOL_SIZE
          Requests,    \* calls of run_code_handler
          NoContainer, NoRequest,
          MaxDeaths,   \* bound: containers that die
          MaxStops     \* bound: stops of the manager

ASSUME SandboxAssumption ==
  /\ NoContainer \notin Containers /\ NoRequest \notin Requests
  /\ MaxDeaths \in Nat /\ MaxStops \in Nat
  /\ IsFiniteSet(Containers) /\ IsFiniteSet(Requests)

VARIABLES pool,    \* _CONTAINER_QUEUES[language]
          lock,    \* who holds _CONTAINER_LOCK
          phase,   \* of each request
          holds,   \* the container of each request
          alive,   \* containers that run
          lost,    \* history: containers that could not be made (again)
          leaked,  \* history: containers that were granted and not put back
          up,      \* the manager runs
          deaths, stops

sandboxVars == <<pool, lock, phase, holds, alive, lost, leaked, up, deaths, stops>>

Phases == {"new", "allocating", "polling", "taken", "checking", "recreating", "granted",
           "executing", "leaving", "rechecking", "rerecreating", "answered", "busy"}

\* Those that have passed the semaphore.
Inside == {r \in Requests : phase[r] \notin {"new", "answered", "busy"}}

\* init_containers puts the names of the containers it could create into the
\* queue, each once, in the order the creations end.
CreatedPools == {q \in UNION {[1..k -> Containers] : k \in 0..Cardinality(Containers)} :
              \A i, j \in DOMAIN q : q[i] = q[j] => i = j}

NamesIn(q) == {q[i] : i \in DOMAIN q}

SandboxInit ==
  /\ pool \in CreatedPools
  /\ alive \in SUBSET Containers /\ NamesIn(pool) \subseteq alive
  /\ lost = Containers \ NamesIn(pool) /\ leaked = {}
  /\ lock = NoRequest
  /\ phase = [r \in Requests |-> "new"]
  /\ holds = [r \in Requests |-> NoContainer]
  /\ up = TRUE /\ deaths = 0 /\ stops = 0

Goes(r, to) == phase' = [phase EXCEPT ![r] = to]

-----------------------------------------------------------------------------
(* allocate_container_blocking                                             *)

\* Mutant: the semaphore lets one more in.
EnterOneMore(r) ==
  /\ phase[r] = "new"
  /\ Cardinality(Inside) <= Cardinality(Containers)
  /\ Goes(r, "allocating")
  /\ UNCHANGED <<pool, lock, holds, alive, lost, leaked, up, deaths, stops>>

\* run_code_handler passes the semaphore.
Enter(r) ==
  /\ phase[r] = "new"
  /\ Cardinality(Inside) < Cardinality(Containers)
  /\ Goes(r, "allocating")
  /\ UNCHANGED <<pool, lock, holds, alive, lost, leaked, up, deaths, stops>>

\* Code that is not safe is not executed.
RefuseUnsafe(r) ==
  /\ phase[r] = "allocating"
  /\ Goes(r, "answered")
  /\ UNCHANGED <<pool, lock, holds, alive, lost, leaked, up, deaths, stops>>

\* Mutant: the name is looked at, not taken.
TakePeeking(r) ==
  /\ phase[r] \in {"allocating", "polling"} /\ pool # <<>>
  /\ holds' = [holds EXCEPT ![r] = Head(pool)]
  /\ Goes(r, "taken")
  /\ UNCHANGED <<pool, lock, alive, lost, leaked, up, deaths, stops>>

\* get_nowait
Take(r) ==
  /\ phase[r] \in {"allocating", "polling"} /\ pool # <<>>
  /\ pool' = Tail(pool)
  /\ holds' = [holds EXCEPT ![r] = Head(pool)]
  /\ Goes(r, "taken")
  /\ UNCHANGED <<lock, alive, lost, leaked, up, deaths, stops>>

\* The queue is empty: asyncio.sleep(0.1).
FindEmpty(r) ==
  /\ phase[r] = "allocating" /\ pool = <<>>
  /\ Goes(r, "polling")
  /\ UNCHANGED <<pool, lock, holds, alive, lost, leaked, up, deaths, stops>>

\* Ten seconds are over: "Container pool is busy".
GiveUp(r) ==
  /\ phase[r] = "polling"
  /\ Goes(r, "busy")
  /\ UNCHANGED <<pool, lock, holds, alive, lost, leaked, up, deaths, stops>>

\* The lock, before the container is looked at.
Lock(r, from, to) ==
  /\ phase[r] = from /\ lock = NoRequest
  /\ lock' = r
  /\ Goes(r, to)
  /\ UNCHANGED <<pool, holds, alive, lost, leaked, up, deaths, stops>>

\* container_is_running, which takes an error for an answer.
Checked(r, running) ==
  /\ phase[r] = "checking"
  /\ running => holds[r] \in alive
  /\ lock' = IF running THEN NoRequest ELSE lock
  /\ Goes(r, IF running THEN "granted" ELSE "recreating")
  /\ UNCHANGED <<pool, holds, alive, lost, leaked, up, deaths, stops>>

\* recreate_container makes a new container under the name, or does not.
Made(c, made) == alive' \in IF made THEN {alive \cup {c}} ELSE {alive, alive \cup {c}, alive \ {c}}

\* Mutant: the lock is not given back when the container is not made.
RecreatedKeepsLock(r, made) ==
  /\ phase[r] = "recreating"
  /\ Made(holds[r], made)
  /\ lock' = IF made THEN NoRequest ELSE lock
  /\ lost' = IF made THEN lost ELSE lost \cup {holds[r]}
  /\ holds' = IF made THEN holds ELSE [holds EXCEPT ![r] = NoContainer]
  /\ Goes(r, IF made THEN "granted" ELSE "polling")
  /\ UNCHANGED <<pool, leaked, up, deaths, stops>>

\* When it is not made the loop goes on, and the name is in no queue.
Recreated(r, made) ==
  /\ phase[r] = "recreating"
  /\ Made(holds[r], made)
  /\ lock' = NoRequest
  /\ lost' = IF made THEN lost ELSE lost \cup {holds[r]}
  /\ holds' = IF made THEN holds ELSE [holds EXCEPT ![r] = NoContainer]
  /\ Goes(r, IF made THEN "granted" ELSE "polling")
  /\ UNCHANGED <<pool, leaked, up, deaths, stops>>

-----------------------------------------------------------------------------
(* execute_code and release_container                                      *)

\* makedirs stands before the try: when it raises nothing is released, and a
\* container that may run is forgotten.
MakeDirectory(r, ok) ==
  /\ phase[r] = "granted"
  /\ Goes(r, IF ok THEN "executing" ELSE "answered")
  /\ leaked' = IF ok THEN leaked ELSE leaked \cup {holds[r]}
  /\ holds' = IF ok THEN holds ELSE [holds EXCEPT ![r] = NoContainer]
  /\ UNCHANGED <<pool, lock, alive, lost, up, deaths, stops>>

\* Mutant: an error skips the release.
ExecutedOrRaised(r) ==
  /\ phase[r] = "executing"
  /\ \/ Goes(r, "leaving") /\ UNCHANGED holds
     \/ Goes(r, "answered") /\ holds' = [holds EXCEPT ![r] = NoContainer]
  /\ UNCHANGED <<pool, lock, alive, lost, leaked, up, deaths, stops>>

\* Whatever came of it, the finally clause cleans up and releases.
Executed(r) ==
  /\ phase[r] = "executing"
  /\ Goes(r, "leaving")
  /\ UNCHANGED <<pool, lock, holds, alive, lost, leaked, up, deaths, stops>>

PutBack(r) ==
  /\ pool' = Append(pool, holds[r])
  /\ holds' = [holds EXCEPT ![r] = NoContainer]
  /\ lock' = NoRequest
  /\ Goes(r, "answered")

Rechecked(r, running) ==
  /\ phase[r] = "rechecking"
  /\ running => holds[r] \in alive
  /\ IF running THEN PutBack(r) ELSE Goes(r, "rerecreating") /\ UNCHANGED <<pool, holds, lock>>
  /\ UNCHANGED <<alive, lost, leaked, up, deaths, stops>>

Rerecreated(r, made) ==
  /\ phase[r] = "rerecreating"
  /\ Made(holds[r], made)
  /\ IF made THEN PutBack(r) /\ UNCHANGED lost
     ELSE /\ lost' = lost \cup {holds[r]}
          /\ holds' = [holds EXCEPT ![r] = NoContainer]
          /\ lock' = NoRequest
          /\ Goes(r, "answered")
          /\ UNCHANGED pool
  /\ UNCHANGED <<leaked, up, deaths, stops>>

-----------------------------------------------------------------------------
(* The rest of the world.                                                  *)

\* Killed for its memory, by the code it runs, or by hand.
Dies(c) ==
  /\ c \in alive /\ deaths < MaxDeaths
  /\ alive' = alive \ {c}
  /\ deaths' = deaths + 1
  /\ UNCHANGED <<pool, lock, phase, holds, lost, leaked, up, stops>>

Stopped(removed) ==
  /\ up /\ stops < MaxStops
  /\ up' = FALSE /\ stops' = stops + 1
  /\ alive' = alive \ removed
  /\ UNCHANGED <<pool, lock, phase, holds, lost, leaked, deaths>>

\* teardown_containers, when the server has answered all: the first containers
\* of the queue are removed, until a command fails; or the manager is killed.
Stop ==
  \/ /\ Inside = {}
     /\ \E n \in 0..Len(pool) : Stopped({pool[i] : i \in 1..n})
  \/ Stopped({})

\* The manager starts again; its clients may ask again.
Start ==
  /\ ~up
  /\ up' = TRUE
  /\ pool' \in CreatedPools
  /\ alive' \in SUBSET Containers /\ NamesIn(pool') \subseteq alive'
  /\ lost' = Containers \ NamesIn(pool') /\ leaked' = {}
  /\ lock' = NoRequest
  /\ phase' = [r \in Requests |-> "new"]
  /\ holds' = [r \in Requests |-> NoContainer]
  /\ UNCHANGED <<deaths, stops>>

-----------------------------------------------------------------------------
\* What a request does between the semaphore and its answer, but for the code.
Proceed(r) ==
  /\ up
  /\ \/ RefuseUnsafe(r) \/ Take(r) \/ FindEmpty(r) \/ GiveUp(r)
     \/ Lock(r, "taken", "checking") \/ Lock(r, "leaving", "rechecking")
     \/ \E ok \in BOOLEAN : \/ Checked(r, ok) \/ Recreated(r, ok) \/ MakeDirectory(r, ok)
                            \/ Rechecked(r, ok) \/ Rerecreated(r, ok)

SandboxNext ==
  \/ \E r \in Requests : Proceed(r) \/ (up /\ (Enter(r) \/ Executed(r)))
  \/ \E c \in Containers : Dies(c)
  \/ Stop \/ Start

SandboxSpec == SandboxInit /\ [][SandboxNext]_sandboxVars

\* Ten seconds pass, commands that look at a container or make one end by
\* their timeouts, and the lock goes to everyone who waits for it.  What brings
\* the code into the container has no timeout.
SandboxFairness == \A r \in Requests : WF_sandboxVars(Proceed(r))

-----------------------------------------------------------------------------
(* Properties.                                                             *)

Held == {holds[r] : r \in Requests} \ {NoContainer}

SandboxTypeOK ==
  /\ pool \in Seq(Containers) /\ lock \in Requests \cup {NoRequest}
  /\ phase \in [Requests -> Phases]
  /\ holds \in [Requests -> Containers \cup {NoContainer}]
  /\ alive \cup lost \cup leaked \subseteq Containers
  /\ up \in BOOLEAN /\ deaths \in 0..MaxDeaths /\ stops \in 0..MaxStops

\* No two requests execute in the same container, and none in one that is
\* free for the next.
HeldOnce ==
  /\ \A i, j \in DOMAIN pool : pool[i] = pool[j] => i = j
  /\ \A r, s \in Requests : holds[r] = holds[s] /\ holds[r] # NoContainer => r = s
  /\ NamesIn(pool) \cap Held = {}

\* What nobody will put back into the queue before the next start.
Gone == lost \cup leaked

\* Every container is free, or held by a request, or one that could not be
\* made again, or one whose request could not make its work directory: no other
\* way through a request forgets one, and that one does, though it may run.
NothingForgotten == Containers = NamesIn(pool) \cup Held \cup Gone

\* The semaphore keeps requests from finding the queue empty: a request is
\* only told that the pool is busy when a container is lost or forgotten.
BusyMeansLost == (\E r \in Requests : phase[r] = "busy") => Gone # {}

\* A request that has passed the semaphore executes its code or is answered,
\* and after its code is answered, unless the manager stops: none waits for
\* ever for a container or for the lock.
RequestsAnswered ==
  \A r \in Requests :
    r \in Inside ~> (r \notin Inside \/ phase[r] = "executing" \/ ~up)
=============================================================================
