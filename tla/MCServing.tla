----------------------------- MODULE MCServing -----------------------------
(* Two waves, one level, and the lists there are over them. *)
EXTENDS Serving, TLC

CONSTANTS w1, w2

OneList == {<<w1>>}
AllLists == {<<w1>>, <<w1, w2>>, <<w2, w1>>}

=============================================================================
