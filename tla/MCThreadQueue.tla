--------------------------- MODULE MCThreadQueue ----------------------------
(* Items move between two FIFO queues and the sleep queue with every initial   *)
(* value of their links.                                                    *)
EXTENDS ThreadQueue, TLC

CONSTANTS x1, x2, x3, x4, run, wait, sleep

Symmetry == Permutations(Item)
=============================================================================
