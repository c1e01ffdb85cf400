----------------------------- MODULE FramePool ------------------------------
(***************************************************************************)
(* What memory/phys.h promises of the physical frames: which frames a      *)
(* request may get, and how many.  FrameAlloc shows that the stacks of     *)
(* memory/phys.c keep it, for requests that low memory, where they reach   *)
(* it, has enough for; beyond that nothing is promised (Overdrawn).        *)
(* GlobalPages is built on it.                                             *)
(***************************************************************************)
EXTENDS Naturals, FiniteSets

CONSTANTS
    Low,        \* the frames below 1MiB
    Mid,        \* those between 1MiB and 4GiB
    High,       \* those above
    Reserve     \* EMERG_STACK_SIZE

ASSUME FramePoolAssumption ==
    /\ Low \cap Mid = {} /\ Mid \cap High = {} /\ Low \cap High = {}
    /\ IsFiniteSet(Low \cup Mid \cup High)
    /\ Reserve \in Nat

VARIABLE
    free        \* the frames that are free

Frame == Low \cup Mid \cup High

Least(m, n) == IF m < n THEN m ELSE n

FreeOf(S) == Cardinality(free \cap S)

\* The frames a request with the flags fl may get.
Usable(fl) ==
    IF "FA_LOW_MEM" \in fl THEN Low
    ELSE Mid \cup (IF "FA_32BIT" \in fl THEN {} ELSE High)
             \cup (IF "FA_EMERG" \in fl THEN Low ELSE {})

\* How many of them are there for it now: without FA_EMERG the reserve stays.
Spare(fl) ==
    IF fl \cap {"FA_LOW_MEM", "FA_EMERG"} # {}
      THEN FreeOf(Usable(fl))
      ELSE FreeOf(Usable(fl) \ Mid) + FreeOf(Mid) - Least(FreeOf(Mid), Reserve)

\* A request that goes on to low memory and asks for more than there is.  It is
\* not told so: the stack of low memory has no end, and behind its last frame
\* come its page in the kernel's image and what is written in frame 0.
Overdrawn(n, fl) == fl \cap {"FA_LOW_MEM", "FA_EMERG"} # {} /\ n > Spare(fl)

\* Any other request for n frames is given S: as many as it asks for, if there
\* are.  Low memory is the last that an emergency takes.
Take(n, fl, S) ==
    /\ ~Overdrawn(n, fl)
    /\ S \subseteq free \cap Usable(fl)
    /\ Cardinality(S) = Least(n, Spare(fl))
    /\ "FA_EMERG" \in fl /\ S \cap Low # {} =>
          free \cap (Usable(fl) \ Low) \subseteq S
    /\ free' = free \ S

\* S is given back.
Give(S) ==
    /\ S \subseteq Frame \ free
    /\ free' = free \cup S
=============================================================================
