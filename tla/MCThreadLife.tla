---------------------------- MODULE MCThreadLife ----------------------------
(* Three thread slots and three stacks, so that the record of Boot is used  *)
(* again while two other threads live.                                      *)
EXTENDS ThreadLife, TLC

CONSTANTS boot, t1, t2, s1, s2, s3
=============================================================================
