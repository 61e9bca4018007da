----------------------------- MODULE MCWebClient ------------------------------
(* Values for model-checking WebClient. *)
EXTENDS WebClient

\* Labels that are used together, small enough to try all orders.
SmallToolboxes ==
  {[kinds |-> {"Agent", "Iteration"}, size |-> 4],
   [kinds |-> {"Categorize", "Iteration"}, size |-> 4],
   [kinds |-> {"Switch"}, size |-> 3],
   [kinds |-> {"Iteration", "Message"}, size |-> 5]}
\* The last canvas of the user is the one before with a placeholder.
PlaceholderLast == [v \in Canvas |-> IF v = MaxCanvas THEN v - 1 ELSE v]
=============================================================================
