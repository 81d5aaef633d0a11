------------------------------- MODULE Levels -------------------------------
(***************************************************************************)
(* Authors change levels and waves (content/adapters/postgres.py), each on *)
(* a connection of its own.  A request is a list of statements, and every  *)
(* statement locks its rows one at a time: it picks them from what was     *)
(* committed when it began, waits for the transaction that has each row,   *)
(* and looks again at the newest version before it writes.                 *)
(*                                                                         *)
(* A level's row is "on" or "off", a wave's row is "there", and the row of *)
(* a wave in a level is its position in the list.                          *)
(***************************************************************************)
EXTENDS Integers, Sequences, SequencesExt, Listing

CONSTANTS Client, Level, Wave, Requests, Absent, Nobody, None

Key == Level \cup Wave \cup (Level \X Wave)

ASSUME RequestsAssumption ==
  \A r \in Requests :
    /\ \/ r.op \in {"create", "update", "delete", "activate"} /\ r.on \in Level
       \/ r.op = "drop" /\ Len(r.waves) = 1
       \/ r.op = "batch" /\ Len(r.waves) > 0
    /\ r.waves \in Seq(Wave) /\ IsInjective(r.waves)

ASSUME ConstantsAssumption ==
  /\ Level \cap Wave = {} /\ (Level \cup Wave) \cap (Level \X Wave) = {}
  /\ Nobody \notin Client
  /\ Absent \notin Nat /\ Absent \notin {"on", "off", "there"}
  /\ Absent \notin Seq(Wave)
  /\ None \notin Requests /\ \A picked \in SUBSET Key : picked # None

VARIABLES
  store, draft, holder,  \* the rows of wave_level, wave and wave_level_wave
  shares,     \* the waves each transaction has locked "for share"
  born,       \* the level ids uuid4 has given out
  request,    \* the request each client is serving
  at,         \* the statement of its plan that comes next
  todo,       \* the rows the statement has picked and not locked yet
  done,       \* the rows it has changed or, for a select, returned
  told,       \* the list read back for the answer
  answer,     \* the last answer each client gave
  overlapped  \* auxiliary: activations that have met another activation

INSTANCE Rows

rowVars == <<store, draft, holder>>
scanVars == <<todo, done>>
vars == <<store, draft, holder, shares, born, request, at, todo, done, told,
          answer, overlapped>>

(* Mutant: the members are deleted before the waves are required. *)
UpdatePlan_ClearFirst == <<"rename", "clear", "waves", "members", "read", "commit">>

UpdatePlan == <<"rename", "waves", "clear", "members", "read", "commit">>

(* Mutant: nobody is stood down. *)
ActivatePlan_SetOnly == <<"set_on", "unique", "commit", "read">>

ActivatePlan == <<"stand_down", "set_on", "unique", "commit", "read">>

(* The statements of each operation, in the order they are sent. *)
Plan ==
  [create   |-> <<"waves", "level", "members", "read", "commit">>,
   update   |-> UpdatePlan,
   delete   |-> <<"remove", "leave", "commit">>,
   activate |-> ActivatePlan,
   drop     |-> <<"drop", "leave", "commit">>,
   batch    |-> <<"drop", "leave", "commit">>]

ASSUME PlanAssumption ==
  \A op \in DOMAIN Plan : \A i \in DOMAIN Plan[op] : Plan[op][i] # None

Idle(c) == request[c] = None
Step(c) == IF Idle(c) THEN None ELSE Plan[request[c].op][at[c]]
LastStep(c) == at[c] = Len(Plan[request[c].op])
On(c) == request[c].on
Listed(c) == ToSet(request[c].waves)

(* What a statement of c's sees: what is committed, and its own writes. *)
Seen(c, k) == IF holder[k] = c THEN draft[k] ELSE store[k]

Init ==
  /\ \E there \in SUBSET Wave :
       AtRest([k \in Key |-> IF k \in there THEN "there" ELSE Absent])
  /\ shares = [c \in Client |-> {}]
  /\ born = {}
  /\ request = [c \in Client |-> None]
  /\ at = [c \in Client |-> 0]
  /\ todo = [c \in Client |-> None]
  /\ done = [c \in Client |-> {}]
  /\ told = [c \in Client |-> None]
  /\ answer = [c \in Client |-> None]
  /\ overlapped = {}
-----------------------------------------------------------------------------
Activating == {c \in Client : ~Idle(c) /\ request[c].op = "activate"}

(* A level to be created has an id nobody has seen. *)
Receive(c, r) ==
  /\ Idle(c)
  /\ r.op = "create" => r.on \notin born
  /\ born' = IF r.op = "create" THEN born \cup {r.on} ELSE born
  /\ request' = [request EXCEPT ![c] = r]
  /\ at' = [at EXCEPT ![c] = 1]
  /\ answer' = [answer EXCEPT ![c] = None]
  /\ overlapped' = IF r.op = "activate" /\ Activating # {}
                     THEN overlapped \cup Activating \cup {c} ELSE overlapped
  /\ UNCHANGED <<rowVars, shares, scanVars, told>>

Unheard == "unheard"

(* The transaction has ended, and its locks with it. *)
Finish(c, a, list) ==
  /\ request' = [request EXCEPT ![c] = None]
  /\ at' = [at EXCEPT ![c] = 0]
  /\ todo' = [todo EXCEPT ![c] = None]
  /\ done' = [done EXCEPT ![c] = {}]
  /\ told' = [told EXCEPT ![c] = None]
  /\ shares' = [shares EXCEPT ![c] = {}]
  /\ answer' = [answer EXCEPT ![c] = IF a = Unheard THEN None ELSE [said |-> a, waves |-> list]]
  /\ overlapped' = overlapped \ {c}
  /\ born' = born

Rollback(c, a) == RollbackRows(c) /\ Finish(c, a, None)

NextStatement(c) ==
  /\ at' = [at EXCEPT ![c] = @ + 1]
  /\ todo' = [todo EXCEPT ![c] = None]
  /\ done' = [done EXCEPT ![c] = IF Step(c) = "drop" THEN @ ELSE {}]
  /\ UNCHANGED <<request, answer, overlapped, born>>
-----------------------------------------------------------------------------
Dropping(c) == ~Idle(c) /\ request[c].op \in {"drop", "batch"}

(* Statements that find their rows with a "where".  "leave" is what the    *)
(* foreign keys delete after the level or the waves of a delete.           *)
Where(c) ==
  CASE Step(c) \in {"waves", "drop"}              -> Listed(c)
    [] Step(c) \in {"rename", "set_on", "remove"} -> {On(c)}
    [] Step(c) = "stand_down"                     -> Level
    [] Step(c) = "leave" /\ Dropping(c)           -> Level \X done[c]
    [] OTHER                                      -> {On(c)} \X Wave

Matches(c, v) == IF Step(c) = "stand_down" THEN v = "on" ELSE v # Absent

Written(c, v) ==
  CASE Step(c) = "rename"     -> v
    [] Step(c) = "set_on"     -> "on"
    [] Step(c) = "stand_down" -> "off"
    [] OTHER                  -> Absent

Scanning == {"waves", "rename", "clear", "remove", "leave", "stand_down",
             "set_on", "drop"}

Scan(c) ==
  /\ Step(c) \in Scanning /\ todo[c] = None
  /\ todo' = [todo EXCEPT ![c] = {k \in Where(c) : Matches(c, Seen(c, k))}]
  /\ UNCHANGED <<rowVars, shares, born, request, at, done, told, answer, overlapped>>

(* Deleting a wave waits for those who have it for share as well. *)
Blocks(b, c, k) ==
  b # c /\ (holder[k] = b \/ (Step(c) = "drop" /\ k \in shares[b]))

Available(c, k) ==
  /\ ~Idle(c) /\ todo[c] # None
  /\ k \in todo[c] /\ \A b \in Client : ~Blocks(b, c, k)

Treated(c, k, found) ==
  /\ todo' = [todo EXCEPT ![c] = @ \ {k}]
  /\ done' = [done EXCEPT ![c] = IF found THEN @ \cup {k} ELSE @]
  /\ UNCHANGED <<born, request, at, told, answer, overlapped>>

WriteFound(c, k) ==
  /\ Available(c, k) /\ Step(c) # "waves" /\ Matches(c, draft[k])
  /\ WriteRow(c, k, Written(c, draft[k]))
  /\ Treated(c, k, TRUE)
  /\ UNCHANGED shares

(* Mutant: a plain select. *)
Share_NoLock(c, k) ==
  /\ Available(c, k) /\ Step(c) = "waves" /\ draft[k] # Absent
  /\ Treated(c, k, TRUE)
  /\ UNCHANGED <<rowVars, shares>>

ShareFound(c, k) ==
  /\ Available(c, k) /\ Step(c) = "waves" /\ draft[k] # Absent
  /\ shares' = [shares EXCEPT ![c] = @ \cup {k}]
  /\ Treated(c, k, TRUE)
  /\ UNCHANGED rowVars

(* The row changed while it was waited for.  Gone, there is nothing to     *)
(* lock; still there, it stays locked although the statement skips it.     *)
Skip(c, k) ==
  /\ Available(c, k) /\ ~Matches(c, draft[k])
  /\ IF draft[k] = Absent THEN UNCHANGED rowVars ELSE WriteRow(c, k, draft[k])
  /\ Treated(c, k, FALSE)
  /\ UNCHANGED shares

(* Mutant: a batch deletes the waves there are and skips the others. *)
Enough_PartialBatch(c) ==
  CASE Step(c) = "waves"                          -> done[c] = Listed(c)
    [] Step(c) \in {"rename", "set_on", "remove"} -> done[c] # {}
    [] Step(c) = "leave" /\ Dropping(c)           -> done[c] # {}
    [] OTHER                                      -> TRUE

(* _require_waves and delete_all want every wave, the latter after it has  *)
(* deleted those there are; "returning" and rowcount tell a level, or a    *)
(* wave, that is not there.                                                *)
Enough(c) ==
  CASE Step(c) = "waves"                          -> done[c] = Listed(c)
    [] Step(c) \in {"rename", "set_on", "remove"} -> done[c] # {}
    [] Step(c) = "leave" /\ Dropping(c)           -> Listed(c) \subseteq done[c]
    [] OTHER                                      -> TRUE

WavesWanted(c) == Step(c) = "waves" \/ request[c].op = "batch"

Scanned(c) ==
  /\ todo[c] = {} /\ Enough(c)
  /\ NextStatement(c)
  /\ UNCHANGED <<rowVars, shares, told>>

Refuse(c) ==
  /\ todo[c] = {} /\ ~Enough(c)
  /\ Rollback(c, IF WavesWanted(c) THEN "MissingWaves" ELSE "NotFound")
-----------------------------------------------------------------------------
InsertLevel(c) ==
  /\ Step(c) = "level"
  /\ WriteRow(c, On(c), "off")
  /\ NextStatement(c)
  /\ UNCHANGED <<shares, told>>

(* uq_wave_level_one_active.  The row is written, and then the index looks *)
(* for another active one: a level whose activity hangs on a transaction   *)
(* that has not ended makes it wait.                                       *)
Contests(b, c) ==
  /\ Step(c) = "unique" /\ b # c
  /\ \E l \in Level : /\ holder[l] = b
                      /\ \/ store[l] = "on"
                         \/ draft[l] = "on" /\ Step(b) # "unique"

OtherActive(c) == \E l \in Level \ {On(c)} : draft[l] = "on" /\ Seen(c, l) = "on"

PassUnique(c) ==
  /\ Step(c) = "unique" /\ \A b \in Client : ~Contests(b, c)
  /\ ~OtherActive(c)
  /\ NextStatement(c)
  /\ UNCHANGED <<rowVars, shares, told>>

(* activate_level catches nothing: the IntegrityError is a 500. *)
ViolateUnique(c) ==
  /\ Step(c) = "unique" /\ \A b \in Client : ~Contests(b, c)
  /\ OtherActive(c)
  /\ Rollback(c, "error")

Position(c, w) == CHOOSE i \in DOMAIN request[c].waves : request[c].waves[i] = w
Members(c) == {On(c)} \X Listed(c)

(* The keys and the position index of wave_level_wave, and its foreign     *)
(* key to the wave.                                                        *)
BreaksRule(c) ==
  \E w \in Listed(c) :
    \/ draft[w] = Absent
    \/ draft[<<On(c), w>>] # Absent
    \/ \E v \in Wave : draft[<<On(c), v>>] = Position(c, w)

Touched(c) == Listed(c) \cup ({On(c)} \X Wave)

HoldsUp(b, c) ==
  Step(c) = "members" /\ b # c /\ \E k \in Touched(c) : holder[k] = b

(* All members in one insert.  A refusal by a rule becomes an answer       *)
(* (_refused), and the code takes care that there is none.                 *)
InsertMembers(c) ==
  /\ Step(c) = "members" /\ \A b \in Client : ~HoldsUp(b, c)
  /\ IF BreaksRule(c)
       THEN Rollback(c, "Rejected")
       ELSE /\ WriteRows(c, Members(c), LAMBDA k : Position(c, k[2]))
            /\ NextStatement(c)
            /\ UNCHANGED <<shares, told>>

(* A level's waves, "order by position". *)
InOrder(l, version) ==
  LET here == {w \in Wave : version[<<l, w>>] # Absent}
  IN  Closed([i \in {version[<<l, w>>] : w \in here} |->
                CHOOSE w \in here : version[<<l, w>>] = i])

(* _levels, for the answer. *)
Read(c) ==
  /\ Step(c) = "read"
  /\ LET list == InOrder(On(c), [k \in Key |-> Seen(c, k)])
     IN  IF LastStep(c)
           THEN /\ IF Seen(c, On(c)) = Absent
                     THEN Finish(c, "NotFound", None) ELSE Finish(c, "ok", list)
                /\ UNCHANGED rowVars
           ELSE /\ told' = [told EXCEPT ![c] = list]
                /\ NextStatement(c)
                /\ UNCHANGED <<rowVars, shares>>

Commit(c) ==
  /\ Step(c) = "commit"
  /\ CommitRows(c)
  /\ IF LastStep(c)
       THEN Finish(c, "ok", told[c])
       ELSE /\ NextStatement(c)
            /\ shares' = [shares EXCEPT ![c] = {}]
            /\ told' = told

(* The commit is done and the answer does not arrive. *)
CommitUnheard(c) ==
  /\ Step(c) = "commit"
  /\ CommitRows(c)
  /\ Finish(c, Unheard, None)

(* The connection drops, or the process dies, in mid-transaction. *)
Fail(c) == ~Idle(c) /\ Rollback(c, Unheard)
-----------------------------------------------------------------------------
WaitsFor(c, b) ==
  \/ ~Idle(c) /\ todo[c] # None /\ \E k \in todo[c] : Blocks(b, c, k)
  \/ Contests(b, c)
  \/ HoldsUp(b, c)

OnCycle(c) == CycleThrough(c, Client, WaitsFor)

(* PostgreSQL ends one transaction of the cycle, which is a 500. *)
DeadlockAbort(c) == OnCycle(c) /\ Rollback(c, "error")

(* save, of a wave that is not there: one row, inserted and committed. *)
SaveWave(w) ==
  /\ holder[w] = Nobody /\ store[w] = Absent
  /\ store' = [store EXCEPT ![w] = "there"]
  /\ draft' = [draft EXCEPT ![w] = "there"]
  /\ UNCHANGED <<holder, shares, born, request, at, scanVars, told, answer, overlapped>>

Next ==
  \/ \E w \in Wave : SaveWave(w)
  \/ \E c \in Client :
       \/ \E r \in Requests : Receive(c, r)
       \/ Scan(c) \/ Scanned(c) \/ Refuse(c)
       \/ \E k \in Key : WriteFound(c, k) \/ ShareFound(c, k) \/ Skip(c, k)
       \/ InsertLevel(c) \/ InsertMembers(c)
       \/ PassUnique(c) \/ ViolateUnique(c)
       \/ Read(c) \/ Commit(c) \/ CommitUnheard(c)
       \/ Fail(c) \/ DeadlockAbort(c)

Spec == Init /\ [][Next]_vars
-----------------------------------------------------------------------------
(* What LevelBook calls settled: a row the statement needs has been found  *)
(* missing, whatever the request still waits for.                          *)
Found(c) == IF todo[c] = None THEN Where(c) ELSE todo[c] \cup done[c]

Verdict(c) ==
  CASE Step(c) = "read" /\ request[c].op = "activate"                 -> "activated"
    [] Step(c) \in {"rename", "set_on", "remove"} /\ Found(c) = {}     -> "NotFound"
    [] \/ Step(c) \in {"waves", "drop"} /\ Found(c) # Listed(c)
       \/ Step(c) = "leave" /\ Dropping(c) /\ ~(Listed(c) \subseteq done[c])
       -> IF WavesWanted(c) THEN "MissingWaves" ELSE "NotFound"
    [] OTHER                                                          -> None

(* What is committed, as LevelBook has it. *)
CommittedLists ==
  [l \in Level |-> IF store[l] = Absent THEN Absent ELSE InOrder(l, store)]
CommittedActive == {l \in Level : store[l] = "on"}
CommittedWaves == {w \in Wave : store[w] # Absent}
Verdicts == [c \in Client |-> Verdict(c)]

Book == INSTANCE LevelBook WITH
  levels <- CommittedLists, active <- CommittedActive, waves <- CommittedWaves,
  verdict <- Verdicts

(* Whatever runs at once, a level ends with exactly one of the lists that  *)
(* were asked for, less the waves deleted since; a "no such level" or      *)
(* "missing waves" was true when it was decided; and the answer to a       *)
(* create or a replace is that request's own list.                         *)
ImplementsLevelBook == Book!Spec

(* "The lock makes the refusal something that does not happen rather than  *)
(* something that is merely handled" (_missing_waves, update_level).       *)
RulesNeverReached ==
  \A c \in Client :
    /\ answer[c] # None => answer[c].said # "Rejected"
    /\ Step(c) = "members" /\ (\A b \in Client : ~HoldsUp(b, c)) => ~BreaksRule(c)

(* Of two requests that wait for each other, both activate a level, or one  *)
(* is a batch delete (docs/platform/r2c.md, "Still owed").  A replacement   *)
(* and a single delete never do, as the locks are taken level, waves,       *)
(* members, and a deleted wave is locked before its members are.  Longer    *)
(* rings are another matter: two single deletes and two replacements, each  *)
(* with a member the next one wants, can close one.                         *)
DeadlocksAreKnown ==
  \A b, c \in Client :
    WaitsFor(b, c) /\ WaitsFor(c, b) =>
      \/ {b, c} \subseteq Activating
      \/ "batch" \in {request[b].op, request[c].op}

(* An activation that meets no other activation is never refused by the    *)
(* index: the order of its two statements is what makes that so.           *)
LoneActivationWorks ==
  [][\A c \in Activating \ overlapped :
       answer'[c] # answer[c] /\ answer'[c] # None => answer'[c].said # "error"]_vars

(* "Make one level the active one; nothing when it does not exist."         *)
(* (WaveStore.activate_level): there is no third answer.                    *)
ActivationIsAnswered ==
  [][\A c \in Activating :
       answer'[c] # None /\ answer'[c] # answer[c] => answer'[c].said # "error"]_vars
=============================================================================
