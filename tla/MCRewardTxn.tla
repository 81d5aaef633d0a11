----------------------------- MODULE MCRewardTxn -----------------------------
(***************************************************************************)
(* One player, seen by two projects: rows of different players never meet. *)
(* The requests include rewards crediting the same currencies in opposite  *)
(* orders, one crediting a currency twice, one of nothing, one with a    *)
(* currency that is none, and amounts that pass MaxStored and that a       *)
(* balance does not cover.                                                 *)
(***************************************************************************)
EXTENDS RewardTxn, TLC

CONSTANTS gold, gems, energy, home1, home2, p1

Of(kind, project, parts) ==
  [kind |-> kind, player |-> p1, project |-> project, parts |-> parts]
Give(i, n) == [item |-> i, amount |-> n]

MCRequests ==
  { Of("grant", home1, <<Give(gold, 2)>>),
    Of("grant", home2, <<Give(gold, 1)>>),
    Of("spend", home1, <<Give(gold, 1)>>),
    Of("reward", home1, <<Give(XP, 2), Give(gold, 1), Give(gems, 1)>>),
    Of("reward", home1, <<Give(gems, 2), Give(gold, 1)>>),
    Of("reward", home1, <<Give(gold, 1), Give(gold, 1)>>),
    Of("reward", home1, <<Give(gold, 1), Give(Misnamed, 1)>>),
    Of("reward", home1, <<>>) }

(* Three rewards that can wait for each other in a ring. *)
MCRingRequests ==
  { Of("reward", home1, <<Give(gold, 1), Give(gems, 1)>>),
    Of("reward", home1, <<Give(gems, 1), Give(energy, 1)>>),
    Of("reward", home1, <<Give(energy, 1), Give(gold, 1)>>) }

Symmetry == Permutations(Client)
=============================================================================
