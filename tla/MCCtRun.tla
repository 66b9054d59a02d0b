------------------------------- MODULE MCCtRun -------------------------------
(* A small log for CtRun: duplicates, a malformed entry, a certificate the *)
(* sampling drops.                                                         *)
EXTENDS CtRun

CONSTANTS c1, c2, c3, c4

MCLog     == <<c4, c1, Malformed, c2, c1, c3, c2, c4>>
MCSampled == {c1, c3, c4}
=============================================================================
