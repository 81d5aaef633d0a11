--------------------------------- MODULE Curve ---------------------------------
(***************************************************************************)
(* A project's XP curve and the stage it gives a player (apps/progression).*)
(* The curve is replaced whole: a transaction takes the project's advisory *)
(* lock, deletes the rows of the statement's snapshot and inserts its own. *)
(* Readers take no lock: a player's progress reads the curve and then the  *)
(* XP, a reward's answer reads the curve after the award committed.        *)
(* RewardTxn models the award itself.  Labels are left out.                *)
(***************************************************************************)
EXTENDS Integers, Sequences, Listing

CONSTANTS
  Editor,              \* requests that replace the curve
  Reader,              \* requests that are told a player's progress
  MAX_STAGE, MAX_XP,
  Nobody, None

CurveAssumption == {MAX_STAGE, MAX_XP} \subseteq Nat /\ Nobody \notin Editor

VARIABLES
  rows,     \* progression_stage, as committed
  lock,     \* the editor whose transaction holds the advisory lock, or Nobody
  edit,     \* where each replacement is
  xp,       \* the player's XP
  ask,      \* where each reader is, and what it was last told
  sent      \* auxiliary: the curve of the last replacement to commit

vars == <<rows, lock, edit, xp, ask, sent>>

Stages == [stage : 0..MAX_STAGE, xp_required : 0..MAX_XP]
Idle == [pc |-> "idle"]

Init ==
  /\ rows = {} /\ sent = {}
  /\ lock = Nobody
  /\ edit = [e \in Editor |-> Idle]
  /\ xp = 0
  /\ ask = [q \in Reader |-> Idle]
-----------------------------------------------------------------------------
(* curve_of: the stages of a request, in any order, when each is in range   *)
(* and each begins after the one before it; otherwise nothing.              *)
curve_of(body) ==
  LET stages == {body[i] : i \in DOMAIN body}
      ordered == \A i, j \in DOMAIN body : i # j =>
                   /\ body[i].stage # body[j].stage
                   /\ body[i].stage < body[j].stage => body[i].xp_required < body[j].xp_required
  IN IF stages \subseteq Stages /\ ordered THEN stages ELSE None

(* The rows as every reader gets them: order by stage. *)
curve(set) ==
  Closed([n \in {s.stage : s \in set} |-> CHOOSE s \in set : s.stage = n])

(* The first stage not yet met, and the one the loop over the rest stopped after. *)
beyond(stages, points) ==
  LET unmet == {i \in DOMAIN stages : stages[i].xp_required > points}
  IN  IF unmet = {} THEN 0 ELSE NthOf(unmet, 1)
following(stages, points) ==
  LET first == beyond(stages, points) IN IF first = 0 THEN None ELSE stages[first]

(* Mutant: the stage a threshold is exactly met at is not reached yet. *)
reached_Late(stages, points) ==
  LET first == beyond(stages, points - 1)
      met == IF first = 0 THEN Len(stages) ELSE first - 1
  IN IF met = 0 THEN None ELSE stages[met]

reached(stages, points) ==
  LET first == beyond(stages, points)
      met == IF first = 0 THEN Len(stages) ELSE first - 1
  IN IF met = 0 THEN None ELSE stages[met]
-----------------------------------------------------------------------------
ReplaceCurve(e, body) ==
  /\ edit[e].pc = "idle" /\ curve_of(body) # None
  /\ edit' = [edit EXCEPT ![e] = [pc |-> "lock", stages |-> curve_of(body)]]
  /\ UNCHANGED <<rows, lock, xp, ask, sent>>

(* Mutant: the rows' own locks are left to keep replacements apart. *)
Lock_Rows(e) ==
  /\ edit[e].pc = "lock"
  /\ lock' = e
  /\ edit' = [edit EXCEPT ![e].pc = "delete"]
  /\ UNCHANGED <<rows, xp, ask, sent>>

(* pg_advisory_xact_lock waits for the holder's transaction to end. *)
Lock(e) ==
  /\ edit[e].pc = "lock" /\ lock = Nobody
  /\ lock' = e
  /\ edit' = [edit EXCEPT ![e].pc = "delete"]
  /\ UNCHANGED <<rows, xp, ask, sent>>

(* The delete finds the rows its snapshot has, this transaction's to remove. *)
Delete(e) ==
  /\ edit[e].pc = "delete"
  /\ edit' = [edit EXCEPT ![e] = [pc |-> "insert", stages |-> @.stages, gone |-> rows]]
  /\ UNCHANGED <<rows, lock, xp, ask, sent>>

(* The inserts and the commit.  Two rows with a stage or a threshold in     *)
(* common are refused by a unique index: then there is only Fail.           *)
Insert(e) ==
  LET kept == rows \ edit[e].gone
  IN /\ edit[e].pc = "insert"
     /\ \A a \in kept, b \in edit[e].stages :
          a.stage # b.stage /\ a.xp_required # b.xp_required
     /\ rows' = kept \cup edit[e].stages
     /\ sent' = edit[e].stages
     /\ lock' = Nobody
     /\ edit' = [edit EXCEPT ![e] = Idle]
     /\ UNCHANGED <<xp, ask>>

(* Any statement may fail, or the process die: all of it is rolled back. *)
Fail(e) ==
  /\ edit[e].pc # "idle"
  /\ lock' = IF lock = e THEN Nobody ELSE lock
  /\ edit' = [edit EXCEPT ![e] = Idle]
  /\ UNCHANGED <<rows, xp, ask, sent>>
-----------------------------------------------------------------------------
(* get_player_progress: the curve's statement, then the XP's. *)
AskProgress(q) ==
  /\ ask[q].pc \in {"idle", "told"}
  /\ ask' = [ask EXCEPT ![q] = [pc |-> "xp", curve |-> rows]]
  /\ UNCHANGED <<rows, lock, edit, xp, sent>>

TellProgress(q) ==
  /\ ask[q].pc = "xp"
  /\ ask' = [ask EXCEPT ![q] =
               [pc |-> "told", xp |-> xp, of |-> @.curve, stage |-> reached(curve(@.curve), xp),
                next_stage |-> following(curve(@.curve), xp)]]
  /\ UNCHANGED <<rows, lock, edit, xp, sent>>

(* reward: the award commits, and past a bigint there is none ... *)
Award(q, points) ==
  /\ ask[q].pc \in {"idle", "told"} /\ xp + points <= MAX_XP
  /\ xp' = xp + points
  /\ ask' = [ask EXCEPT ![q] = [pc |-> "curve", xp |-> xp']]
  /\ UNCHANGED <<rows, lock, edit, sent>>

(* ... and the answer's stage is of the curve there is by then. *)
TellReward(q) ==
  /\ ask[q].pc = "curve"
  /\ ask' = [ask EXCEPT ![q] =
               [pc |-> "told", xp |-> @.xp, of |-> rows, stage |-> reached(curve(rows), @.xp),
                next_stage |-> following(curve(rows), @.xp)]]
  /\ UNCHANGED <<rows, lock, edit, xp, sent>>

(* Every list of at most two stages, some out of range. *)
Bodies ==
  LET some == [stage : 0..(MAX_STAGE + 1), xp_required : 0..MAX_XP]
  IN {<<>>} \cup {<<a>> : a \in some} \cup {<<a, b>> : a, b \in some}

Next ==
  \/ \E e \in Editor : \/ \E body \in Bodies : ReplaceCurve(e, body)
                       \/ Lock(e) \/ Delete(e) \/ Insert(e) \/ Fail(e)
  \/ \E q \in Reader : \/ AskProgress(q) \/ TellProgress(q) \/ TellReward(q)
                       \/ \E points \in 1..MAX_XP : Award(q, points)

Spec == Init /\ [][Next]_vars
-----------------------------------------------------------------------------
(* "Concurrent replacements are serialised, so the last one wins whole      *)
(* rather than two of them interleaving into a curve nobody sent."          *)
CurveIsWhole == rows = sent

(* Whoever is told a stage is told the highest of a whole curve that the XP *)
(* told with it has met, and the lowest it has not.                         *)
StageOfTheXp ==
  \A q \in Reader : ask[q].pc = "told" =>
    LET met == {s \in ask[q].of : s.xp_required <= ask[q].xp}
        unmet == ask[q].of \ met
    IN /\ IF met = {} THEN ask[q].stage = None
          ELSE ask[q].stage \in met /\ \A s \in met : s.stage <= ask[q].stage.stage
       /\ IF unmet = {} THEN ask[q].next_stage = None
          ELSE ask[q].next_stage \in unmet /\ \A s \in unmet : s.stage >= ask[q].next_stage.stage
=============================================================================
