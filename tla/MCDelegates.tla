---------------------------- MODULE MCDelegates ----------------------------
(* Two sub-agents, two edits that have a normalised key each and a read.    *)
EXTENDS Delegates

CONSTANTS c1, c2, c3, k1, k2

ThisNorm == [c \in Calls |-> IF c = c1 THEN k1 ELSE k2]
=============================================================================
