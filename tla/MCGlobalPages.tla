--------------------------- MODULE MCGlobalPages ----------------------------
(* Two threads.  The setup pages are pages 1 to 3; the rest starts at page  *)
(* 5, which becomes a page of descriptors, of two regions.  Single pages     *)
(* here and there make more regions than that.  Pages 6 and 7 may have no    *)
(* page table yet.  There are fewer frames than pages, so that requests are  *)
(* cut short at the reserve, and overdraw low memory, which has one frame.   *)
EXTENDS GlobalPages

CONSTANTS t1, t2

Threads == Permutations(Thread)
=============================================================================
