---------------------------- MODULE MCDocParsing -----------------------------
(* Values for model-checking DocParsing. *)
EXTENDS DocParsing, TLC

CONSTANTS w1, w2, h1, h2, p1, p2   \* executors, request threads, page ranges
HandlerSymmetry == Permutations(Handlers)
WorkerSymmetry == Permutations(Workers)
=============================================================================
