--------------------------- MODULE MCApprovalUse ---------------------------
(***************************************************************************)
(* The instance TLC checks: a1 and a2 are write_file on notes.md and on    *)
(* Notes.md, whose keys differ only in case, so that _normalized_          *)
(* approval_key maps both to n1; b is a call of its own.                   *)
(***************************************************************************)
EXTENDS ApprovalUse

CONSTANTS a1, a2, b, n1, n2

MCNorm == [c \in {a1, a2, b} |-> IF c = b THEN n2 ELSE n1]
=============================================================================
