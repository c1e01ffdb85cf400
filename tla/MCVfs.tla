------------------------------- MODULE MCVfs --------------------------------
(* Two threads.  /a/f and /b on the initrd, whose cache has room for the     *)
(* root and two more nodes; /g on a second device and nothing on a third,    *)
(* which may be mounted on what a lookup returns.                            *)
EXTENDS Vfs

CONSTANTS t1, t2, d0, d1, d2, r0, a, b, f, r1, g, r2

None == [x \in {} |-> NULL]
Contents ==
    [i \in Inode |->
       CASE i = r0 -> [x \in {"a", "b"} |-> IF x = "a" THEN a ELSE b]
         [] i = a -> [x \in {"f"} |-> f]
         [] i = r1 -> [x \in {"g"} |-> g]
         [] OTHER -> None]
Depths == [i \in Inode |-> CASE i \in {r0, r1, r2} -> 0 [] i \in {a, b, g} -> 1 [] i = f -> 2]
Sectors ==
    [i \in Inode |->
       CASE i = r0 -> <<d0, 1>> [] i = a -> <<d0, 2>> [] i = b -> <<d0, 3>>
         [] i = f -> <<d0, 4>> [] i = r1 -> <<d1, 1>> [] i = g -> <<d1, 2>>
         [] i = r2 -> <<d2, 1>>]
Roots == [d \in Dev |-> CASE d = d0 -> r0 [] d = d1 -> r1 [] d = d2 -> r2]

\* Both look for /a; one for /a/f and /b/, the other, in /a/, for ../a/g.
Paths ==
    [t \in Thread |->
       {<< <<>>, <<"a">> >>} \cup
       IF t = t1 THEN {<< <<>>, <<"a", "f">> >>, << <<>>, <<"b", "">> >>}
                 ELSE {<< <<"a">>, <<"..", "a", "g">> >>}]
=============================================================================
