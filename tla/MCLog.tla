------------------------------- MODULE MCLog -------------------------------
(***************************************************************************)
(* Instances of Log for TLC.                                               *)
(***************************************************************************)
EXTENDS Log

CONSTANTS a1, a2, a3

NoQuiet == {}
FirstQuiet == {<<a1, 1>>}

=============================================================================
