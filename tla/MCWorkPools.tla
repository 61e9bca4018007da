----------------------------- MODULE MCWorkPools ------------------------------
(* Values for model-checking WorkPools. *)
EXTENDS WorkPools

\* One text asks for all the workers, the others for one each: both fit
\* together, and neither with the first.
SmallTexts ==
  LET long == CHOOSE t \in Extractions : TRUE
  IN {[t \in Extractions |-> IF t = long THEN MaxWorks ELSE 1]}
=============================================================================
