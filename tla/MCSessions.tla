------------------------------ MODULE MCSessions ------------------------------
(***************************************************************************)
(* One account, whose sessions are all that can meet.  MaxToken bounds the *)
(* tokens issued in one behaviour: a sign-in and two renewals of the same  *)
(* token are enough to fork a session, one more to end it and revive it.   *)
(***************************************************************************)
EXTENDS Sessions, TLC

CONSTANT MaxToken

MCToken == 1..MaxToken
Symmetry == Permutations(Caller)
=============================================================================
