---------------------------- MODULE MCStreamQueue ----------------------------
(* The small instance of StreamQueue that StreamQueue.cfg gives its bounds. *)
EXTENDS StreamQueue

=============================================================================
