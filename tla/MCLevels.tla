------------------------------ MODULE MCLevels ------------------------------
(* Two authors, two levels and two waves. *)
EXTENDS Levels, TLC

CONSTANTS w1, w2, l1

Ask(op, on, list) == [op |-> op, on |-> on, waves |-> list]

(* A level of one wave and of both, in either order, and one of none, made *)
(* active; and one wave or both deleted and saved again.                   *)
AllRequests ==
       {Ask("create", l, IF l = l1 THEN <<w1>> ELSE <<>>) : l \in Level}
  \cup {Ask("update", l1, list) : list \in {<<w1, w2>>, <<w2, w1>>}}
  \cup {Ask("delete", l1, <<>>)}
  \cup {Ask("activate", l, <<>>) : l \in Level}
  \cup {Ask("drop", None, <<w1>>), Ask("batch", None, <<w1, w2>>)}
Symmetry == Permutations(Client)
=============================================================================
