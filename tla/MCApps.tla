--------------------------------- MODULE MCApps ---------------------------------
(***************************************************************************)
(* The apps in one run.  They share no table, so what one of them does is  *)
(* the same whatever the others do, and each behaviour belongs to one of   *)
(* them: part says which, and the others stay as they began.  Leaderboards *)
(* are two parts, submissions that race and a walk over a board that       *)
(* changes between its pages.                                              *)
(*                                                                         *)
(* Two requests, which do the same in every app and are symmetric.         *)
(***************************************************************************)
EXTENDS Apps, TLC

CONSTANT b1

VARIABLE part

MCPlayer == 1..3

MCFits == [s \in {"strict", "loose"} |->
             IF s = "strict" THEN {"small"} ELSE {"small", "big"}]
-----------------------------------------------------------------------------
(* Two players meet in a race; three are walked over, by one request at a  *)
(* time that changes them and one saving of the board at most.             *)
Race == walk'.pc = "off" /\ \A r \in Request : at'[r] # Idle => at'[r].key # <<b1, 3>>
Pages ==
  /\ \A r, q \in Request : r # q => Idle \in {at'[r], at'[q]}
  /\ ways' # ways => {} \in {ways[b1], ways'[b1]}

MCInit ==
  /\ part \in {"race", "pages", "grants", "catalogue", "curve", "content"}
  /\ AppsInit

MCNext ==
  /\ UNCHANGED part
  /\ \/ part = "race" /\ BoardsStep /\ Race
     \/ part = "pages" /\ BoardsStep /\ Pages
     \/ part = "grants" /\ GrantsStep
     \/ part = "catalogue" /\ CatalogueStep
     \/ part = "curve" /\ CurveStep
     \/ part = "content" /\ ContentStep

MCSpec == MCInit /\ [][MCNext]_<<part, appVars>>

Symmetry == Permutations(Request)

ASSUME AppsAssumption
=============================================================================
