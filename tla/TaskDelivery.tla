---------------------------- MODULE TaskDelivery ----------------------------
(***************************************************************************)
(* What the message queue promises to the programs that use it, whatever   *)
(* table layout, lock or replay loop stands behind it: a message that was  *)
(* enqueued is claimed once, by one consumer, stays with that consumer     *)
(* over every crash and redelivery, and is acknowledged at most once.      *)
(* The task executor (rag/svr/task_executor.py) relies on nothing else.    *)
(***************************************************************************)
CONSTANTS Consumers,   \* names of the task executors (CONSUMER_NAME)
          Msgs         \* message ids

VARIABLES queued,      \* messages no consumer has claimed yet
          claims,      \* <<consumer, message>> pairs, never forgotten
          acked        \* messages whose handling was acknowledged

vars == <<queued, claims, acked>>

Init == queued = {} /\ claims = {} /\ acked = {}

\* Messages some consumer has claimed.
Claimed == {m \in Msgs : \E c \in Consumers : <<c, m>> \in claims}

\* A producer's insert becomes visible.
Enqueue(m) ==
    /\ m \notin queued \cup Claimed
    /\ queued' = queued \cup {m}
    /\ UNCHANGED <<claims, acked>>

\* A queued message leaves the queue and becomes the consumer's, in one step.
Claim(c, m) ==
    /\ m \in queued
    /\ queued' = queued \ {m}
    /\ claims' = claims \cup {<<c, m>>}
    /\ UNCHANGED acked

\* The consumer that claimed the message acknowledges it.
Ack(c, m) ==
    /\ <<c, m>> \in claims
    /\ acked' = acked \cup {m}
    /\ UNCHANGED <<queued, claims>>

Next == \E m \in Msgs : \/ Enqueue(m)
                        \/ \E c \in Consumers : Claim(c, m) \/ Ack(c, m)

Spec == Init /\ [][Next]_vars

=============================================================================
