------------------------------- MODULE UndoStack -------------------------------
(***************************************************************************)
(* What the undo history of the agent editor promises: the canvases before *)
(* the one shown, the latest last, and those that were undone, the next    *)
(* one first.  An edit forgets what was undone; Undo and Redo move one     *)
(* canvas across; the oldest canvases beyond a limit are forgotten.        *)
(***************************************************************************)
EXTENDS Naturals, Sequences

CONSTANTS Canvases, MaxSize   \* MaxSize is at least 1

VARIABLES past, now, future

Init == past = <<>> /\ now \in Canvases /\ future = <<>>

Latest(s) == IF Len(s) < MaxSize THEN s ELSE Tail(s)

Edit(v) ==
  /\ v # now
  /\ past' = Latest(Append(past, now))
  /\ now' = v
  /\ future' = <<>>

Undo ==
  /\ past # <<>>
  /\ past' = SubSeq(past, 1, Len(past) - 1)
  /\ now' = past[Len(past)]
  /\ future' = <<now>> \o future

Redo ==
  /\ future # <<>>
  /\ past' = Append(past, now)
  /\ now' = Head(future)
  /\ future' = Tail(future)

Next == (\E v \in Canvases : Edit(v)) \/ Undo \/ Redo

Spec == Init /\ [][Next]_<<past, now, future>>
=============================================================================
