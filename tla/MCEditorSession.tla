--------------------------- MODULE MCEditorSession ---------------------------
(***************************************************************************)
(* The editor.  A behaviour is about one of its parts, the others stand    *)
(* still: the session of one browser with one tab or with two, or the wave *)
(* screen of a page.  MaxToken bounds the sessions of one behaviour: a     *)
(* sign-in and the renewals after it.  The wave screen has an instance for *)
(* each thing that may go wrong: what two screens of two waves do to each  *)
(* other (the one of Editor), how one row is drawn, and which rule an edit *)
(* is of.                                                                  *)
(***************************************************************************)
EXTENDS Editor, Sequences, TLC

CONSTANTS MaxToken, c1, c2, t1, t2, w1, w2, here, there

VARIABLE part

MCToken == 1..MaxToken

OneTab == [c \in Caller |-> t1]
TwoTabs == [c \in Caller |-> IF c = c1 THEN t1 ELSE t2]

Symmetry == Permutations(Caller)
-----------------------------------------------------------------------------
Step(type, duration, config, fires) ==
  [type |-> type, duration |-> duration, config |-> config, fires |-> fires]
Wait == Step("wait", 2, Absent, FALSE)

(* A jump at the end, and two in a row, the first of which fires. *)
EndsInAJump == << <<Wait, Step("jump", 0, here, FALSE)>> >>
JumpsTwice == << <<Step("jump", 0, here, TRUE), Step("jump", 0, there, FALSE), Wait>> >>

MCText == {<< <<Wait>> >>}

rows == INSTANCE WaveEditor WITH
  Wave <- {w1}, Text <- {EndsInAJump, JumpsTwice}, MovementType <- {"jump", "wait"},
  Configured <- {here, there}, Config <- {here}, Duration <- {0, 2}, MAX_BLOCKS <- 2, MAX_SCREENS <- 1, MAX_TEXTS <- 2
rules == INSTANCE WaveEditor WITH
  Wave <- {w1}, Text <- {<< <<Wait>>, <<Wait>> >>}, MovementType <- {"jump"},
  Configured <- {here}, Config <- {here}, Duration <- {0, 2}, MAX_BLOCKS <- 1, MAX_SCREENS <- 1, MAX_TEXTS <- 2

MCInit ==
  /\ part \in {"session", "rows", "rules", "screens"}
  /\ EditorInit
  /\ CASE part = "rows" -> rows!Init
       [] part = "rules" -> rules!Init
       [] OTHER -> waves!Init /\ (part = "session" => \A w \in Wave : stored[w] = Absent)

MCNext ==
  /\ UNCHANGED part
  /\ \/ part = "session" /\ SessionStep
     \/ part = "screens" /\ ScreenStep
     \/ part = "rows" /\ rows!Next /\ UNCHANGED allVars
     \/ part = "rules" /\ rules!Next /\ UNCHANGED allVars

MCSpec == MCInit /\ [][MCNext]_<<part, pageVars>>

(* The session alone. *)
SessionSpec == MCInit /\ part = "session" /\ [][MCNext]_<<part, pageVars>>

ASSUME rows!WaveEditorAssumption /\ rules!WaveEditorAssumption /\ waves!WaveEditorAssumption
=============================================================================
