----------------------------- MODULE LevelBook -----------------------------
(***************************************************************************)
(* What WaveStore promises about levels (content/application/ports.py): a  *)
(* level's list is replaced whole or not at all, a refusal is the truth at *)
(* some moment of the request, an answer to a create or a replace is the   *)
(* list that request wrote, and one level at most is active.               *)
(***************************************************************************)
EXTENDS Listing, Functions

CONSTANTS Client, Level, Wave, Requests, Absent, None

VARIABLES
  levels,     \* the list of each level, Absent when there is no such level
  active,     \* the level players receive, as a set of at most one
  waves,      \* the waves there are
  request,    \* what each author has asked for
  verdict,    \* what is settled about it before it is answered
  answer      \* the last answer each author got

bookVars == <<levels, active, waves>>
vars == <<levels, active, waves, request, verdict, answer>>

Init ==
  /\ levels = [l \in Level |-> Absent]
  /\ active = {}
  /\ waves \in SUBSET Wave
  /\ request = [c \in Client |-> None]
  /\ verdict = [c \in Client |-> None]
  /\ answer = [c \in Client |-> None]

Said(a, list) == [said |-> a, waves |-> list]

Ask(c, r) ==
  /\ request[c] = None
  /\ request' = [request EXCEPT ![c] = r]
  /\ answer' = [answer EXCEPT ![c] = None]
  /\ UNCHANGED <<bookVars, verdict>>

Open(c) == request[c] # None /\ verdict[c] = None

Answer(c, a, list) ==
  /\ request' = [request EXCEPT ![c] = None]
  /\ verdict' = [verdict EXCEPT ![c] = None]
  /\ answer' = [answer EXCEPT ![c] = Said(a, list)]

Unheard(c) ==
  /\ request' = [request EXCEPT ![c] = None]
  /\ verdict' = [verdict EXCEPT ![c] = None]
  /\ answer' = [answer EXCEPT ![c] = None]

Listed(c) == {request[c].waves[i] : i \in DOMAIN request[c].waves}

(* A refusal is settled at a moment when it is true. *)
Settle(c) ==
  /\ Open(c)
  /\ \/ /\ request[c].op \in {"create", "update", "batch"}
        /\ ~(Listed(c) \subseteq waves)
        /\ verdict' = [verdict EXCEPT ![c] = "MissingWaves"]
     \/ /\ request[c].op \in {"update", "delete", "activate"}
        /\ levels[request[c].on] = Absent
        /\ verdict' = [verdict EXCEPT ![c] = "NotFound"]
     \/ /\ request[c].op = "drop"
        /\ ~(Listed(c) \subseteq waves)
        /\ verdict' = [verdict EXCEPT ![c] = "NotFound"]
  /\ UNCHANGED <<bookVars, request, answer>>

Refuse(c) ==
  /\ verdict[c] \in {"MissingWaves", "NotFound"}
  /\ Answer(c, verdict[c], None)
  /\ UNCHANGED bookVars

(* The caller never hears, or is told of a fault: nothing has changed but   *)
(* by an activation that was done before.                                   *)
GiveUp(c) ==
  /\ request[c] # None
  /\ Unheard(c) \/ Answer(c, "error", None)
  /\ UNCHANGED bookVars

(* A create or a replace: the new list whole, and the same list answered. *)
Write(c) ==
  /\ Open(c)
  /\ \/ request[c].op = "create" /\ levels[request[c].on] = Absent
     \/ request[c].op = "update" /\ levels[request[c].on] # Absent
  /\ Listed(c) \subseteq waves
  /\ levels' = [levels EXCEPT ![request[c].on] = request[c].waves]
  /\ \/ Answer(c, "ok", request[c].waves)
     \/ Unheard(c)
  /\ UNCHANGED <<active, waves>>

Delete(c) ==
  /\ Open(c) /\ request[c].op = "delete" /\ levels[request[c].on] # Absent
  /\ levels' = [levels EXCEPT ![request[c].on] = Absent]
  /\ active' = active \ {request[c].on}
  /\ Answer(c, "ok", None) \/ Unheard(c)
  /\ UNCHANGED waves

(* Waves leave every level they are in. *)
Without(list, gone) ==
  IF list = Absent THEN Absent
  ELSE Closed(Restrict(list, {i \in DOMAIN list : list[i] \notin gone}))

Drop(c) ==
  /\ Open(c) /\ request[c].op \in {"drop", "batch"} /\ Listed(c) \subseteq waves
  /\ waves' = waves \ Listed(c)
  /\ levels' = [l \in Level |-> Without(levels[l], Listed(c))]
  /\ Answer(c, "ok", None) \/ Unheard(c)
  /\ UNCHANGED active

(* The others stand down in the same step; the answer is read afterwards. *)
Activate(c) ==
  /\ Open(c) /\ request[c].op = "activate" /\ levels[request[c].on] # Absent
  /\ active' = {request[c].on}
  /\ \/ /\ verdict' = [verdict EXCEPT ![c] = "activated"]
        /\ UNCHANGED <<request, answer>>
     \/ Unheard(c)
  /\ UNCHANGED <<levels, waves>>

Activated(c) ==
  /\ verdict[c] = "activated"
  /\ LET list == levels[request[c].on]
     IN  IF list = Absent THEN Answer(c, "NotFound", None) ELSE Answer(c, "ok", list)
  /\ UNCHANGED bookVars

SaveWave(w) ==
  /\ w \notin waves
  /\ waves' = waves \cup {w}
  /\ UNCHANGED <<levels, active, request, verdict, answer>>

Next ==
  \/ \E w \in Wave : SaveWave(w)
  \/ \E c \in Client :
       \/ \E r \in Requests : Ask(c, r)
       \/ Settle(c) \/ Refuse(c) \/ GiveUp(c)
       \/ Write(c) \/ Delete(c) \/ Drop(c) \/ Activate(c) \/ Activated(c)

Spec == Init /\ [][Next]_vars
=============================================================================
