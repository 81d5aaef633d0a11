----------------------------- MODULE Levels_proofs -----------------------------
(***************************************************************************)
(* No constraint of the tables is ever reached by a request, for any       *)
(* number of authors, levels and waves and whatever the lists; only        *)
(* activations, and batch deletes, wait for each other two by two; and an  *)
(* activation that meets no other succeeds.                                *)
(*                                                                         *)
(* Each rests on who may hold which row.  The invariant says it, request   *)
(* by request (Local): what a request's locks are at every step of its     *)
(* plan, what it has made sure of by then, and why nobody undoes it.  The  *)
(* rest of it (RowsAgree) is about the rows: what a version nobody has     *)
(* committed yet says of who wrote it.                                     *)
(***************************************************************************)
EXTENDS Levels, TLAPS

TypeOK ==
  /\ store = [k \in Key |-> store[k]] /\ draft = [k \in Key |-> draft[k]]
  /\ holder \in [Key -> Client \cup {Nobody}]
  /\ shares \in [Client -> SUBSET Wave]
  /\ request \in [Client -> Requests \cup {None}]
  /\ at \in [Client -> Nat]
  /\ todo \in [Client -> (SUBSET Key) \cup {None}]
  /\ done \in [Client -> SUBSET Key]
  /\ answer = [c \in Client |-> answer[c]] /\ told = [c \in Client |-> told[c]]
  /\ \A c \in Client : ~Idle(c) => at[c] \in DOMAIN Plan[request[c].op]

(* Create and update have their level from one statement on, and their     *)
(* waves for share from another; a delete has its level once it is removed.*)
HasLevel(c) ==
  /\ ~Idle(c)
  /\ \/ request[c].op = "create" /\ Step(c) \in {"members", "read", "commit"}
     \/ request[c].op = "update" /\ Step(c) # "rename"
     \/ request[c].op = "delete" /\ Step(c) # "remove"

HasWaves(c) ==
  /\ ~Idle(c)
  /\ \/ request[c].op = "create" /\ Step(c) # "waves"
     \/ request[c].op = "update" /\ Step(c) \notin {"rename", "waves"}

Naming(c) == ~Idle(c) /\ request[c].op = "create" /\ Step(c) \in {"waves", "level"}

MayHold(c, k) ==
  \/ k \in Level /\ c \in Activating /\ Step(c) # "read"
  \/ k \in Level /\ k = On(c) /\ HasLevel(c)
  \/ k \in Level /\ k = On(c) /\ Step(c) \in {"rename", "remove"} /\ k \in done[c]
  \/ k \in Wave /\ Dropping(c) /\ k \in Listed(c) /\ (Step(c) = "drop" => k \in done[c])
  \/ k \in Level \X Wave /\ k[1] = On(c) /\ HasLevel(c) /\ Step(c) # "waves"
  \/ k \in Level \X Wave /\ Dropping(c) /\ Step(c) # "drop" /\ holder[k[2]] = c

LocksFit(c) == \A k \in Key : holder[k] = c => MayHold(c, k)
LevelHeld(c) == HasLevel(c) => holder[On(c)] = c
WavesShared(c) == HasWaves(c) => Listed(c) \subseteq shares[c]

SharedStay(c) ==
  \A w \in shares[c] :
    holder[w] = Nobody /\ draft[w] # Absent /\ (HasWaves(c) \/ Step(c) = "waves")

ScanFits(c) ==
  /\ Idle(c) => todo[c] = None /\ done[c] = {}
  /\ todo[c] = None /\ Step(c) # "leave" => done[c] = {}
  /\ todo[c] # None => Step(c) \in Scanning /\ todo[c] \subseteq Where(c)
  /\ todo[c] # None /\ Step(c) \in {"rename", "remove", "drop"} => todo[c] \cap done[c] = {}
  /\ Step(c) \in {"rename", "set_on", "remove"} => done[c] \subseteq {On(c)}
  /\ Step(c) = "drop" => done[c] \subseteq Wave
  /\ Step(c) = "leave" =>
       IF todo[c] = None THEN done[c] \subseteq Wave ELSE todo[c] \subseteq Level \X Wave
  /\ IF Step(c) = "waves" THEN done[c] \subseteq shares[c]
                          ELSE \A k \in done[c] : holder[k] = c

(* A member that is not there, and that no one else can bring back. *)
Gone(c, k) == draft[k] = Absent /\ (store[k] = Absent \/ holder[k] = c)

MembersGone(c) ==
  \A v \in Wave :
    LET k == <<On(c), v>>
    IN /\ Step(c) = "members" => Gone(c, k)
       /\ Step(c) = "clear" /\ todo[c] # None => k \in todo[c] \/ Gone(c, k)

(* A level that is not active, and that no one else can make active. *)
Quiet(c, l) == draft[l] # "on" /\ (store[l] # "on" \/ holder[l] = c)

Lone(c) == c \in Activating \ overlapped

StoodDown(c) ==
  Lone(c) =>
    /\ Activating \subseteq {c}
    /\ \A l \in Level :
         /\ Step(c) = "stand_down" /\ todo[c] # None => l \in todo[c] \/ Quiet(c, l)
         /\ Step(c) = "set_on" => Quiet(c, l) \/ l \in done[c]
         /\ Step(c) = "unique" => Quiet(c, l) \/ l = On(c)

RowsOf(l) == {l} \cup ({l} \X Wave)

Untouched(l) ==
  \A k \in RowsOf(l) :
    /\ store[k] = Absent /\ draft[k] = Absent /\ holder[k] = Nobody
    /\ \A c \in Client : todo[c] = None \/ k \notin todo[c]

Fresh(c) ==
  /\ ~Idle(c) /\ request[c].op = "create" => On(c) \in born
  /\ Naming(c) => Untouched(On(c))

Answered(c) == answer[c] # None => answer[c].said # "Rejected"

Local(c) ==
  /\ LocksFit(c) /\ LevelHeld(c) /\ WavesShared(c) /\ SharedStay(c) /\ ScanFits(c)
  /\ MembersGone(c) /\ StoodDown(c) /\ Fresh(c) /\ Answered(c)

(* A member nobody has committed yet belongs to whoever has its level. *)
MembersFollow ==
  \A l \in Level, w \in Wave :
    draft[<<l, w>>] # Absent /\ store[<<l, w>>] = Absent =>
      holder[<<l, w>>] = holder[l]

ActiveFollow ==
  \A l \in Level : draft[l] = "on" /\ store[l] # "on" => holder[l] \in Activating

NamesApart ==
  \A c, d \in Client :
    /\ c # d /\ ~Idle(c) /\ ~Idle(d)
    /\ request[c].op = "create" /\ request[d].op = "create"
    => On(c) # On(d)

RowsAgree ==
  /\ \A k \in Key : holder[k] = Nobody => draft[k] = store[k]
  /\ MembersFollow /\ ActiveFollow /\ NamesApart
  /\ \A l \in Level \ born : Untouched(l)

Inv == TypeOK /\ RowsAgree /\ \A c \in Client : Local(c)
-----------------------------------------------------------------------------
Names == {"waves", "level", "members", "read", "commit", "rename", "clear",
          "remove", "leave", "stand_down", "set_on", "unique", "drop"}

LEMMA NoStep ==
  ASSUME NEW c, Idle(c)
  PROVE  Step(c) \notin Names
<1>1. Step(c) = None
  BY DEF Step
<1>2. \A n \in Names : n # None
  BY PlanAssumption DEF Plan, UpdatePlan, ActivatePlan, Names
<1> QED
  BY <1>1, <1>2

(* Where a request is, by its operation and the number of its statement. *)
LEMMA Stages ==
  ASSUME TypeOK, NEW c \in Client, ~Idle(c)
  PROVE  LET o == request[c].op
             s == Step(c)
         IN /\ request[c] \in Requests
            /\ o \in {"create", "update", "delete", "activate", "drop", "batch"}
            /\ o = "create" => s \in {"waves", "level", "members", "read", "commit"}
            /\ o = "create" => (LastStep(c) <=> s = "commit")
            /\ o = "update" => s \in {"rename", "waves", "clear", "members", "read",
                                      "commit"}
            /\ o = "update" => (LastStep(c) <=> s = "commit")
            /\ o = "delete" => s \in {"remove", "leave", "commit"}
            /\ o = "delete" => (LastStep(c) <=> s = "commit")
            /\ o = "activate" => s \in {"stand_down", "set_on", "unique", "commit",
                                        "read"}
            /\ o = "activate" => (LastStep(c) <=> s = "read")
            /\ o \in {"drop", "batch"} => s \in {"drop", "leave", "commit"}
            /\ o \in {"drop", "batch"} => (LastStep(c) <=> s = "commit")
<1> DEFINE o == request[c].op
<1>1. request[c] \in Requests /\ at[c] \in DOMAIN Plan[o] /\ at[c] \in Nat /\ Step(c) = Plan[o][at[c]]
  BY DEF TypeOK, Idle, Step
<1>2. o \in {"create", "update", "delete", "activate", "drop", "batch"}
  BY <1>1, RequestsAssumption
<1>3. CASE o = "create"
  <2>1. Plan[o] = <<"waves", "level", "members", "read", "commit">>
    BY <1>3 DEF Plan
  <2>2. DOMAIN Plan[o] = 1..5 /\ Len(Plan[o]) = 5
    BY <2>1
  <2>3. at[c] \in {1, 2, 3, 4, 5}
    BY <1>1, <2>2
  <2>4. /\ at[c] = 1 => Step(c) = "waves"
        /\ at[c] = 2 => Step(c) = "level"
        /\ at[c] = 3 => Step(c) = "members"
        /\ at[c] = 4 => Step(c) = "read"
        /\ at[c] = 5 => Step(c) = "commit"
    BY <1>1, <2>1
  <2> QED
    BY <1>1, <1>2, <1>3, <2>2, <2>3, <2>4 DEF LastStep
<1>4. CASE o = "update"
  <2>1. Plan[o] = <<"rename", "waves", "clear", "members", "read", "commit">>
    BY <1>4 DEF Plan, UpdatePlan
  <2>2. DOMAIN Plan[o] = 1..6 /\ Len(Plan[o]) = 6
    BY <2>1
  <2>3. at[c] \in {1, 2, 3, 4, 5, 6}
    BY <1>1, <2>2
  <2>4. /\ at[c] = 1 => Step(c) = "rename"
        /\ at[c] = 2 => Step(c) = "waves"
        /\ at[c] = 3 => Step(c) = "clear"
        /\ at[c] = 4 => Step(c) = "members"
        /\ at[c] = 5 => Step(c) = "read"
        /\ at[c] = 6 => Step(c) = "commit"
    BY <1>1, <2>1
  <2> QED
    BY <1>1, <1>2, <1>4, <2>2, <2>3, <2>4 DEF LastStep
<1>5. CASE o = "delete"
  <2>1. Plan[o] = <<"remove", "leave", "commit">>
    BY <1>5 DEF Plan
  <2>2. DOMAIN Plan[o] = 1..3 /\ Len(Plan[o]) = 3
    BY <2>1
  <2>3. at[c] \in {1, 2, 3}
    BY <1>1, <2>2
  <2>4. /\ at[c] = 1 => Step(c) = "remove"
        /\ at[c] = 2 => Step(c) = "leave"
        /\ at[c] = 3 => Step(c) = "commit"
    BY <1>1, <2>1
  <2> QED
    BY <1>1, <1>2, <1>5, <2>2, <2>3, <2>4 DEF LastStep
<1>6. CASE o = "activate"
  <2>1. Plan[o] = <<"stand_down", "set_on", "unique", "commit", "read">>
    BY <1>6 DEF Plan, ActivatePlan
  <2>2. DOMAIN Plan[o] = 1..5 /\ Len(Plan[o]) = 5
    BY <2>1
  <2>3. at[c] \in {1, 2, 3, 4, 5}
    BY <1>1, <2>2
  <2>4. /\ at[c] = 1 => Step(c) = "stand_down"
        /\ at[c] = 2 => Step(c) = "set_on"
        /\ at[c] = 3 => Step(c) = "unique"
        /\ at[c] = 4 => Step(c) = "commit"
        /\ at[c] = 5 => Step(c) = "read"
    BY <1>1, <2>1
  <2> QED
    BY <1>1, <1>2, <1>6, <2>2, <2>3, <2>4 DEF LastStep
<1>7. CASE o \in {"drop", "batch"}
  <2>1. Plan[o] = <<"drop", "leave", "commit">>
    BY <1>7 DEF Plan
  <2>2. DOMAIN Plan[o] = 1..3 /\ Len(Plan[o]) = 3
    BY <2>1
  <2>3. at[c] \in {1, 2, 3}
    BY <1>1, <2>2
  <2>4. /\ at[c] = 1 => Step(c) = "drop"
        /\ at[c] = 2 => Step(c) = "leave"
        /\ at[c] = 3 => Step(c) = "commit"
    BY <1>1, <2>1
  <2> QED
    BY <1>1, <1>2, <1>7, <2>2, <2>3, <2>4 DEF LastStep
<1> QED
  BY <1>1, <1>2, <1>3, <1>4, <1>5, <1>6, <1>7

(* What the next statement is. *)
LEMMA NextStage ==
  ASSUME TypeOK, NEW c \in Client, ~Idle(c), ~LastStep(c),
         request' = request, at'[c] = at[c] + 1
  PROVE  LET o == request[c].op
             s == Step(c)
             t == Step(c)'
         IN /\ at'[c] \in DOMAIN Plan[o] /\ at'[c] \in Nat
            /\ o = "create" => <<s, t>> \in {<<"waves", "level">>,
                                             <<"level", "members">>,
                                             <<"members", "read">>,
                                             <<"read", "commit">>}
            /\ o = "update" => <<s, t>> \in {<<"rename", "waves">>,
                                             <<"waves", "clear">>,
                                             <<"clear", "members">>,
                                             <<"members", "read">>,
                                             <<"read", "commit">>}
            /\ o = "delete" => <<s, t>> \in {<<"remove", "leave">>,
                                             <<"leave", "commit">>}
            /\ o = "activate" => <<s, t>> \in {<<"stand_down", "set_on">>,
                                               <<"set_on", "unique">>,
                                               <<"unique", "commit">>,
                                               <<"commit", "read">>}
            /\ o \in {"drop", "batch"} => <<s, t>> \in {<<"drop", "leave">>,
                                                        <<"leave", "commit">>}
<1> DEFINE o == request[c].op
<1>1. /\ at[c] \in DOMAIN Plan[o] /\ at[c] \in Nat /\ Step(c) = Plan[o][at[c]]
      /\ Step(c)' = Plan[o][at[c] + 1] /\ at[c] # Len(Plan[o])
  BY DEF Step, Idle, TypeOK, LastStep
<1>2. o \in {"create", "update", "delete", "activate", "drop", "batch"}
  BY RequestsAssumption DEF TypeOK, Idle
<1>3. CASE o = "create"
  <2>1. Plan[o] = <<"waves", "level", "members", "read", "commit">>
    BY <1>3 DEF Plan
  <2>2. DOMAIN Plan[o] = 1..5 /\ Len(Plan[o]) = 5
    BY <2>1
  <2>3. at[c] \in {1, 2, 3, 4}
    BY <1>1, <2>2
  <2>4. /\ at[c] = 1 => Step(c) = "waves" /\ Step(c)' = "level"
        /\ at[c] = 2 => Step(c) = "level" /\ Step(c)' = "members"
        /\ at[c] = 3 => Step(c) = "members" /\ Step(c)' = "read"
        /\ at[c] = 4 => Step(c) = "read" /\ Step(c)' = "commit"
    BY <1>1, <2>1
  <2>5. at'[c] \in DOMAIN Plan[o] /\ at'[c] \in Nat
    BY <2>2, <2>3
  <2> QED
    BY <1>2, <1>3, <2>3, <2>4, <2>5
<1>4. CASE o = "update"
  <2>1. Plan[o] = <<"rename", "waves", "clear", "members", "read", "commit">>
    BY <1>4 DEF Plan, UpdatePlan
  <2>2. DOMAIN Plan[o] = 1..6 /\ Len(Plan[o]) = 6
    BY <2>1
  <2>3. at[c] \in {1, 2, 3, 4, 5}
    BY <1>1, <2>2
  <2>4. /\ at[c] = 1 => Step(c) = "rename" /\ Step(c)' = "waves"
        /\ at[c] = 2 => Step(c) = "waves" /\ Step(c)' = "clear"
        /\ at[c] = 3 => Step(c) = "clear" /\ Step(c)' = "members"
        /\ at[c] = 4 => Step(c) = "members" /\ Step(c)' = "read"
        /\ at[c] = 5 => Step(c) = "read" /\ Step(c)' = "commit"
    BY <1>1, <2>1
  <2>5. at'[c] \in DOMAIN Plan[o] /\ at'[c] \in Nat
    BY <2>2, <2>3
  <2> QED
    BY <1>2, <1>4, <2>3, <2>4, <2>5
<1>5. CASE o = "delete"
  <2>1. Plan[o] = <<"remove", "leave", "commit">>
    BY <1>5 DEF Plan
  <2>2. DOMAIN Plan[o] = 1..3 /\ Len(Plan[o]) = 3
    BY <2>1
  <2>3. at[c] \in {1, 2}
    BY <1>1, <2>2
  <2>4. /\ at[c] = 1 => Step(c) = "remove" /\ Step(c)' = "leave"
        /\ at[c] = 2 => Step(c) = "leave" /\ Step(c)' = "commit"
    BY <1>1, <2>1
  <2>5. at'[c] \in DOMAIN Plan[o] /\ at'[c] \in Nat
    BY <2>2, <2>3
  <2> QED
    BY <1>2, <1>5, <2>3, <2>4, <2>5
<1>6. CASE o = "activate"
  <2>1. Plan[o] = <<"stand_down", "set_on", "unique", "commit", "read">>
    BY <1>6 DEF Plan, ActivatePlan
  <2>2. DOMAIN Plan[o] = 1..5 /\ Len(Plan[o]) = 5
    BY <2>1
  <2>3. at[c] \in {1, 2, 3, 4}
    BY <1>1, <2>2
  <2>4. /\ at[c] = 1 => Step(c) = "stand_down" /\ Step(c)' = "set_on"
        /\ at[c] = 2 => Step(c) = "set_on" /\ Step(c)' = "unique"
        /\ at[c] = 3 => Step(c) = "unique" /\ Step(c)' = "commit"
        /\ at[c] = 4 => Step(c) = "commit" /\ Step(c)' = "read"
    BY <1>1, <2>1
  <2>5. at'[c] \in DOMAIN Plan[o] /\ at'[c] \in Nat
    BY <2>2, <2>3
  <2> QED
    BY <1>2, <1>6, <2>3, <2>4, <2>5
<1>7. CASE o \in {"drop", "batch"}
  <2>1. Plan[o] = <<"drop", "leave", "commit">>
    BY <1>7 DEF Plan
  <2>2. DOMAIN Plan[o] = 1..3 /\ Len(Plan[o]) = 3
    BY <2>1
  <2>3. at[c] \in {1, 2}
    BY <1>1, <2>2
  <2>4. /\ at[c] = 1 => Step(c) = "drop" /\ Step(c)' = "leave"
        /\ at[c] = 2 => Step(c) = "leave" /\ Step(c)' = "commit"
    BY <1>1, <2>1
  <2>5. at'[c] \in DOMAIN Plan[o] /\ at'[c] \in Nat
    BY <2>2, <2>3
  <2> QED
    BY <1>2, <1>7, <2>3, <2>4, <2>5
<1> QED
  BY <1>2, <1>3, <1>4, <1>5, <1>6, <1>7

(* The tables' keys are told apart. *)
LEMMA Keys ==
  /\ Key = Level \cup Wave \cup (Level \X Wave)
  /\ \A k \in Level : k \notin Wave /\ k \notin Level \X Wave
  /\ \A k \in Wave : k \notin Level \X Wave
  /\ \A l \in Level : RowsOf(l) \subseteq Key
  /\ \A l \in Level, w \in Wave : <<l, w>> \in Key /\ <<l, w>> \in RowsOf(l)
  /\ \A l, m \in Level : l # m => RowsOf(l) \cap RowsOf(m) = {}
BY ConstantsAssumption DEF Key, RowsOf

LEMMA Asked ==
  ASSUME NEW r \in Requests
  PROVE  /\ r # None /\ r.op \in {"create", "update", "delete", "activate", "drop", "batch"}
         /\ r.op \notin {"drop", "batch"} => r.on \in Level
         /\ ToSet(r.waves) \subseteq Wave
         /\ r.op = "drop" => \E w \in Wave : ToSet(r.waves) = {w}
<1>1. r.waves \in Seq(Wave) /\ (r.op = "drop" => Len(r.waves) = 1)
  BY RequestsAssumption
<1>2. DOMAIN r.waves = 1..Len(r.waves) /\ \A i \in 1..Len(r.waves) : r.waves[i] \in Wave
  BY <1>1
<1>3. r.op = "drop" => ToSet(r.waves) = {r.waves[1]} /\ r.waves[1] \in Wave
  <2> SUFFICES ASSUME r.op = "drop" PROVE ToSet(r.waves) = {r.waves[1]} /\ r.waves[1] \in Wave
    OBVIOUS
  <2>1. 1..Len(r.waves) = {1}
    BY <1>1
  <2> QED
    BY <1>2, <2>1 DEF ToSet
<1> QED
  BY <1>2, <1>3, RequestsAssumption, ConstantsAssumption DEF ToSet
-----------------------------------------------------------------------------
(* What a step of one author's request may do to the rows, and what it     *)
(* leaves alone of the others.                                             *)
RowStep(c) ==
  \A k \in Key :
    /\ holder[k] \notin {Nobody, c} =>
         store'[k] = store[k] /\ draft'[k] = draft[k] /\ holder'[k] = holder[k]
    /\ holder'[k] \in {holder[k], c, Nobody}
    /\ holder'[k] = Nobody => draft'[k] = store'[k]
    /\ store'[k] \in {store[k], draft[k]}
    /\ \/ draft'[k] \in {store[k], draft[k], Absent}
       \/ k \in Level /\ draft'[k] = "off"
       \/ k \in Level /\ draft'[k] = "on" /\ c \in Activating
       \/ k \in Level \X Wave /\ holder[k[1]] = c
    /\ \A d \in Client \ {c} : k \in shares[d] =>
         draft'[k] = draft[k] /\ holder'[k] = holder[k]
    /\ \A l \in Level : Untouched(l) /\ ~(Naming(c) /\ On(c) = l) /\ k \in RowsOf(l) =>
         store'[k] = store[k] /\ draft'[k] = draft[k] /\ holder'[k] = holder[k]

OthersStand(c) ==
  /\ \A d \in Client \ {c} :
       /\ request'[d] = request[d] /\ at'[d] = at[d] /\ todo'[d] = todo[d]
       /\ done'[d] = done[d] /\ shares'[d] = shares[d] /\ answer'[d] = answer[d]
       /\ Lone(d)' => Lone(d) /\ Activating' \subseteq {d}
  /\ born \subseteq born'
  /\ \A l \in Level : Untouched(l) /\ ~(Naming(c) /\ On(c) = l) =>
       todo'[c] = None \/ todo'[c] \cap RowsOf(l) = {}

(* What nobody has touched stays so. *)
LEMMA StaysUntouched ==
  ASSUME TypeOK, NEW c \in Client, RowStep(c), OthersStand(c),
         NEW l \in Level, Untouched(l), ~(Naming(c) /\ On(c) = l)
  PROVE  Untouched(l)'
<1> SUFFICES ASSUME NEW k \in RowsOf(l)
             PROVE  /\ store'[k] = Absent /\ draft'[k] = Absent /\ holder'[k] = Nobody
                    /\ \A d \in Client : todo'[d] = None \/ k \notin todo'[d]
  BY DEF Untouched, RowsOf
<1>1. k \in Key
  BY Keys
<1>2. store'[k] = Absent /\ draft'[k] = Absent /\ holder'[k] = Nobody
  BY <1>1 DEF RowStep, Untouched
<1>3. \A d \in Client : todo'[d] = None \/ k \notin todo'[d]
  BY DEF OthersStand, Untouched
<1> QED
  BY <1>2, <1>3

LEMMA OtherLocal ==
  ASSUME Inv, NEW c \in Client, RowStep(c), OthersStand(c), NEW d \in Client \ {c}
  PROVE  Local(d)'
<1>1. /\ request'[d] = request[d] /\ at'[d] = at[d] /\ todo'[d] = todo[d]
      /\ done'[d] = done[d] /\ shares'[d] = shares[d] /\ answer'[d] = answer[d]
  BY DEF OthersStand
<1>2. /\ Idle(d)' = Idle(d) /\ Step(d)' = Step(d) /\ On(d)' = On(d) /\ Listed(d)' = Listed(d)
      /\ Dropping(d)' = Dropping(d) /\ Where(d)' = Where(d)
      /\ (d \in Activating' <=> d \in Activating)
  BY <1>1 DEF Idle, Step, On, Listed, Dropping, Where, Activating
<1>3. HasLevel(d)' = HasLevel(d) /\ HasWaves(d)' = HasWaves(d) /\ Naming(d)' = Naming(d)
  BY <1>1, <1>2 DEF HasLevel, HasWaves, Naming
<1>4. Local(d) /\ TypeOK /\ c # d /\ c # Nobody /\ d # Nobody
  BY ConstantsAssumption DEF Inv
<1>5. \A k \in Key : (holder'[k] = d <=> holder[k] = d)
  BY <1>4 DEF RowStep
<1>6. \A k \in Key : holder[k] = d => store'[k] = store[k] /\ draft'[k] = draft[k]
  BY <1>4 DEF RowStep
<1>7. LocksFit(d)'
  <2> SUFFICES ASSUME NEW k \in Key, holder'[k] = d PROVE MayHold(d, k)'
    BY DEF LocksFit
  <2>1. MayHold(d, k)
    BY <1>4, <1>5 DEF Local, LocksFit
  <2>2. k \in Level \X Wave => k[2] \in Key
    BY Keys
  <2> QED
    BY <1>1, <1>2, <1>3, <1>5, <2>1, <2>2 DEF MayHold
<1>8. LevelHeld(d)' /\ WavesShared(d)'
  <2>1. HasLevel(d) => On(d) \in Key
    <3>1. HasLevel(d) => request[d] \in Requests /\ request[d].op \notin {"drop", "batch"}
      BY <1>4 DEF TypeOK, HasLevel, Idle
    <3> QED
      BY <3>1, Asked, Keys DEF On
  <2> QED
    BY <1>1, <1>2, <1>3, <1>4, <1>5, <2>1 DEF Local, LevelHeld, WavesShared
<1>9. SharedStay(d)'
  <2>1. shares[d] \subseteq Key
    BY <1>4, Keys DEF TypeOK
  <2>2. \A w \in shares[d] : draft'[w] = draft[w] /\ holder'[w] = holder[w]
    BY <2>1 DEF RowStep
  <2> QED
    BY <1>1, <1>2, <1>3, <1>4, <2>2 DEF Local, SharedStay
<1>10. ScanFits(d)'
  <2>1. done[d] \subseteq Key
    BY <1>4 DEF TypeOK
  <2> QED
    BY <1>1, <1>2, <1>4, <1>5, <2>1 DEF Local, ScanFits
<1>11. MembersGone(d)'
  <2> SUFFICES ASSUME NEW v \in Wave
               PROVE  /\ Step(d) = "members" => Gone(d, <<On(d), v>>)'
                      /\ Step(d) = "clear" /\ todo[d] # None =>
                           <<On(d), v>> \in todo[d] \/ Gone(d, <<On(d), v>>)'
    BY <1>1, <1>2 DEF MembersGone
  <2>1. ASSUME HasLevel(d), Gone(d, <<On(d), v>>) PROVE Gone(d, <<On(d), v>>)'
    <3>1. On(d) \in Level /\ <<On(d), v>> \in Key /\ <<On(d), v>> \notin Level
      <4>1. request[d] \in Requests /\ request[d].op \notin {"drop", "batch"}
        BY <1>4, <2>1 DEF TypeOK, HasLevel, Idle
      <4> QED
        BY <4>1, Asked, Keys DEF On
    <3>2. holder[On(d)] = d
      BY <1>4, <2>1 DEF Local, LevelHeld
    <3>3. ASSUME NEW k \in Key, k \notin Level, k[1] = On(d),
                 draft[k] = Absent, store[k] = Absent \/ holder[k] = d
          PROVE  draft'[k] = Absent /\ (store'[k] = Absent \/ holder'[k] = d)
      <4>1. CASE holder[k] = d
        BY <1>5, <1>6, <3>3, <4>1
      <4>2. CASE store[k] = Absent
        <5>1. store'[k] = Absent
          BY <3>3, <4>2 DEF RowStep
        <5>2. draft'[k] = Absent
          BY <1>4, <3>2, <3>3, <4>2 DEF RowStep
        <5> QED
          BY <5>1, <5>2
      <4> QED
        BY <3>3, <4>1, <4>2
    <3> QED
      BY <1>2, <2>1, <3>1, <3>3 DEF Gone
  <2>2. Step(d) \in {"members", "clear"} => HasLevel(d)
    <3>1. Step(d) \in {"members", "clear"} => ~Idle(d)
      BY NoStep DEF Names
    <3> QED
      BY <1>4, <3>1, Stages DEF HasLevel
  <2> QED
    BY <1>4, <2>1, <2>2 DEF Local, MembersGone
<1>12. StoodDown(d)'
  <2> SUFFICES ASSUME Lone(d)'
               PROVE  /\ Activating' \subseteq {d}
                      /\ \A l \in Level :
                           /\ Step(d) = "stand_down" /\ todo[d] # None =>
                                l \in todo[d] \/ Quiet(d, l)'
                           /\ Step(d) = "set_on" => Quiet(d, l)' \/ l \in done[d]
                           /\ Step(d) = "unique" => Quiet(d, l)' \/ l = On(d)
    BY <1>1, <1>2 DEF StoodDown
  <2>1. Lone(d) /\ Activating' \subseteq {d} /\ c \notin Activating
    <3>1. Lone(d) /\ Activating' \subseteq {d}
      BY DEF OthersStand
    <3> QED
      BY <1>4, <3>1 DEF Local, StoodDown
  <2>2. ASSUME NEW l \in Level, Quiet(d, l) PROVE Quiet(d, l)'
    <3>1. l \in Key /\ l \notin Level \X Wave
      BY Keys
    <3>2. CASE holder[l] = d
      BY <1>5, <1>6, <2>2, <3>1, <3>2 DEF Quiet
    <3>3. CASE holder[l] # d
      <4>1. store[l] # "on" /\ draft[l] # "on"
        BY <2>2, <3>3 DEF Quiet
      <4>2. store'[l] # "on"
        BY <3>1, <4>1 DEF RowStep
      <4>3. draft'[l] # "on"
        BY <2>1, <3>1, <4>1, ConstantsAssumption DEF RowStep
      <4> QED
        BY <4>2, <4>3 DEF Quiet
    <3> QED
      BY <3>2, <3>3
  <2>3. \A l \in Level :
          /\ Step(d) = "stand_down" /\ todo[d] # None => l \in todo[d] \/ Quiet(d, l)
          /\ Step(d) = "set_on" => Quiet(d, l) \/ l \in done[d]
          /\ Step(d) = "unique" => Quiet(d, l) \/ l = On(d)
    BY <1>4, <2>1 DEF Local, StoodDown
  <2> QED
    BY <2>1, <2>2, <2>3
<1>13. Fresh(d)'
  <2>1. ASSUME Naming(d) PROVE Untouched(On(d))'
    <3>1. request[d] \in Requests /\ ~Idle(d) /\ request[d].op = "create"
      BY <1>4, <2>1 DEF TypeOK, Naming, Idle
    <3>2. On(d) \in Level
      BY <3>1, Asked DEF On
    <3>3. ~(Naming(c) /\ On(c) = On(d))
      BY <1>4, <3>1 DEF Inv, RowsAgree, NamesApart, Naming
    <3>4. Untouched(On(d))
      BY <1>4, <2>1 DEF Local, Fresh
    <3>5. \A l \in Level : Untouched(l) /\ ~(Naming(c) /\ On(c) = l) => Untouched(l)'
      BY <1>4, StaysUntouched
    <3>6. \A l : l = On(d) => (Untouched(l)' => Untouched(On(d))')
      BY <1>2 DEF Untouched, RowsOf
    <3> QED
      BY <3>2, <3>3, <3>4, <3>5, <3>6
  <2> QED
    BY <1>1, <1>2, <1>3, <1>4, <2>1 DEF Local, Fresh, OthersStand
<1>14. Answered(d)'
  BY <1>1, <1>4 DEF Local, Answered
<1> QED
  BY <1>7, <1>8, <1>9, <1>10, <1>11, <1>12, <1>13, <1>14 DEF Local

(* All an author's step has to show. *)
LEMMA Assemble ==
  ASSUME Inv, NEW c \in Client, TypeOK', RowStep(c), OthersStand(c), Local(c)',
         MembersFollow', ActiveFollow', NamesApart'
  PROVE  Inv'
<1>1. \A d \in Client : Local(d)'
  BY OtherLocal
<1>2. \A k \in Key : holder'[k] = Nobody => draft'[k] = store'[k]
  BY DEF RowStep
<1>3. ASSUME NEW l \in Level \ born' PROVE Untouched(l)'
  <2>1. Untouched(l)
    BY <1>3 DEF Inv, RowsAgree, OthersStand
  <2>2. ~(Naming(c) /\ On(c) = l)
    BY <1>3 DEF Inv, Local, Fresh, Naming, OthersStand
  <2> QED
    BY <2>1, <2>2, StaysUntouched DEF Inv
<1>4. RowsAgree'
  BY <1>2, <1>3 DEF RowsAgree
<1> QED
  BY <1>1, <1>4 DEF Inv
-----------------------------------------------------------------------------
(* The rows at the end of a transaction, and when nothing is written. *)
LEMMA NoName == None \notin Names /\ \A s \in Names : s # None
BY PlanAssumption DEF Plan, UpdatePlan, ActivatePlan, Names

(* A request has its waves for share by itself: nobody else holds them. *)
LEMMA SharedFree ==
  ASSUME Inv, NEW d \in Client, NEW k \in shares[d]
  PROVE  k \in Wave /\ holder[k] = Nobody /\ draft[k] # Absent
BY DEF Inv, Local, SharedStay, TypeOK

LEMMA CommitStep ==
  ASSUME Inv, NEW c \in Client, CommitRows(c)
  PROVE  /\ RowStep(c) /\ MembersFollow'
         /\ \A k \in Key : holder'[k] # c
         /\ \A k \in Key : holder'[k] = holder[k] \/ (holder[k] = c /\ holder'[k] = Nobody)
         /\ \A l \in Level : draft'[l] = "on" /\ store'[l] # "on" =>
              holder'[l] \in Activating \ {c}
<1>1. TypeOK /\ c # Nobody /\ RowsAgree
  BY ConstantsAssumption DEF Inv
<1>2. \A k \in Key : /\ store'[k] = IF holder[k] = c THEN draft[k] ELSE store[k]
                     /\ draft'[k] = draft[k]
                     /\ holder'[k] = IF holder[k] = c THEN Nobody ELSE holder[k]
  BY DEF CommitRows, Released
<1>3. \A d \in Client : \A k \in shares[d] : holder[k] = Nobody
  BY SharedFree
<1>4. RowStep(c)
  <2> SUFFICES ASSUME NEW k \in Key
      PROVE /\ holder[k] \notin {Nobody, c} =>
                 store'[k] = store[k] /\ draft'[k] = draft[k] /\ holder'[k] = holder[k]
            /\ holder'[k] \in {holder[k], c, Nobody}
            /\ holder'[k] = Nobody => draft'[k] = store'[k]
            /\ store'[k] \in {store[k], draft[k]}
            /\ draft'[k] \in {store[k], draft[k], Absent}
            /\ \A d \in Client \ {c} : k \in shares[d] =>
                 draft'[k] = draft[k] /\ holder'[k] = holder[k]
            /\ \A l \in Level : Untouched(l) /\ k \in RowsOf(l) =>
                 store'[k] = store[k] /\ draft'[k] = draft[k] /\ holder'[k] = holder[k]
    BY DEF RowStep
  <2>1. \A l \in Level : Untouched(l) /\ k \in RowsOf(l) => holder[k] = Nobody
    BY DEF Untouched
  <2> QED
    BY <1>1, <1>2, <1>3, <2>1 DEF RowsAgree
<1>5. MembersFollow'
  <2> SUFFICES ASSUME NEW l \in Level, NEW w \in Wave,
                      draft'[<<l, w>>] # Absent, store'[<<l, w>>] = Absent
               PROVE  holder'[<<l, w>>] = holder'[l]
    BY DEF MembersFollow
  <2>1. <<l, w>> \in Key /\ l \in Key
    BY Keys
  <2>2. holder[<<l, w>>] = holder[l]
    BY <1>1, <1>2, <2>1 DEF RowsAgree, MembersFollow
  <2> QED
    BY <1>2, <2>1, <2>2
<1>6. ASSUME NEW l \in Level, draft'[l] = "on", store'[l] # "on"
      PROVE  holder'[l] \in Activating \ {c}
  <2>1. l \in Key
    BY Keys
  <2> QED
    BY <1>1, <1>2, <1>6, <2>1 DEF RowsAgree, ActiveFollow
<1> QED
  BY <1>1, <1>2, <1>4, <1>5, <1>6

LEMMA RollbackStep ==
  ASSUME Inv, NEW c \in Client, RollbackRows(c)
  PROVE  /\ RowStep(c) /\ MembersFollow'
         /\ \A k \in Key : holder'[k] # c
         /\ \A k \in Key : holder'[k] = holder[k] \/ (holder[k] = c /\ holder'[k] = Nobody)
         /\ \A l \in Level : draft'[l] = "on" /\ store'[l] # "on" =>
              holder'[l] \in Activating \ {c}
<1>1. TypeOK /\ c # Nobody /\ RowsAgree
  BY ConstantsAssumption DEF Inv
<1>2. \A k \in Key : /\ draft'[k] = IF holder[k] = c THEN store[k] ELSE draft[k]
                     /\ store'[k] = store[k]
                     /\ holder'[k] = IF holder[k] = c THEN Nobody ELSE holder[k]
  BY DEF RollbackRows, Released
<1>3. \A d \in Client : \A k \in shares[d] : holder[k] = Nobody
  BY SharedFree
<1>4. RowStep(c)
  <2> SUFFICES ASSUME NEW k \in Key
      PROVE /\ holder[k] \notin {Nobody, c} =>
                 store'[k] = store[k] /\ draft'[k] = draft[k] /\ holder'[k] = holder[k]
            /\ holder'[k] \in {holder[k], c, Nobody}
            /\ holder'[k] = Nobody => draft'[k] = store'[k]
            /\ store'[k] \in {store[k], draft[k]}
            /\ draft'[k] \in {store[k], draft[k], Absent}
            /\ \A d \in Client \ {c} : k \in shares[d] =>
                 draft'[k] = draft[k] /\ holder'[k] = holder[k]
            /\ \A l \in Level : Untouched(l) /\ k \in RowsOf(l) =>
                 store'[k] = store[k] /\ draft'[k] = draft[k] /\ holder'[k] = holder[k]
    BY DEF RowStep
  <2>1. \A l \in Level : Untouched(l) /\ k \in RowsOf(l) => holder[k] = Nobody
    BY DEF Untouched
  <2> QED
    BY <1>1, <1>2, <1>3, <2>1 DEF RowsAgree
<1>5. MembersFollow'
  <2> SUFFICES ASSUME NEW l \in Level, NEW w \in Wave,
                      draft'[<<l, w>>] # Absent, store'[<<l, w>>] = Absent
               PROVE  holder'[<<l, w>>] = holder'[l]
    BY DEF MembersFollow
  <2>1. <<l, w>> \in Key /\ l \in Key
    BY Keys
  <2>2. holder[<<l, w>>] = holder[l]
    BY <1>1, <1>2, <2>1 DEF RowsAgree, MembersFollow
  <2> QED
    BY <1>2, <2>1, <2>2
<1>6. ASSUME NEW l \in Level, draft'[l] = "on", store'[l] # "on"
      PROVE  holder'[l] \in Activating \ {c}
  <2>1. l \in Key
    BY Keys
  <2> QED
    BY <1>1, <1>2, <1>6, <2>1 DEF RowsAgree, ActiveFollow
<1> QED
  BY <1>1, <1>2, <1>4, <1>5, <1>6

LEMMA KeptStep ==
  ASSUME Inv, NEW c \in Client, UNCHANGED rowVars
  PROVE  RowStep(c) /\ MembersFollow'
<1>1. store' = store /\ draft' = draft /\ holder' = holder
  BY DEF rowVars
<1>2. \A k \in Key : holder[k] = Nobody => draft[k] = store[k]
  BY DEF Inv, RowsAgree
<1> QED
  BY <1>1, <1>2 DEF RowStep, MembersFollow, Inv, RowsAgree
-----------------------------------------------------------------------------
(* However a request ends, it leaves the rows and the others in order. *)
LEMMA Ended ==
  ASSUME Inv, NEW c \in Client, NEW a, NEW list, Finish(c, a, list), a # "Rejected",
         store' = [k \in Key |-> store'[k]], draft' = [k \in Key |-> draft'[k]],
         holder' \in [Key -> Client \cup {Nobody}],
         RowStep(c), MembersFollow', \A k \in Key : holder'[k] # c,
         \A l \in Level : draft'[l] = "on" /\ store'[l] # "on" =>
           holder'[l] \in Activating \ {c}
  PROVE  Inv'
<1>1. TypeOK /\ c # Nobody /\ RowsAgree
  BY ConstantsAssumption DEF Inv
<1>2. /\ request'[c] = None /\ todo'[c] = None /\ done'[c] = {} /\ shares'[c] = {}
      /\ \A d \in Client \ {c} :
           /\ request'[d] = request[d] /\ at'[d] = at[d] /\ todo'[d] = todo[d]
           /\ done'[d] = done[d] /\ shares'[d] = shares[d] /\ answer'[d] = answer[d]
      /\ overlapped' = overlapped \ {c} /\ born' = born
  BY <1>1 DEF Finish, TypeOK
<1>3. Idle(c)' /\ Step(c)' = None /\ \A d \in Client \ {c} : Idle(d)' = Idle(d)
  BY <1>2 DEF Idle, Step
<1>4. Activating' = Activating \ {c}
  BY <1>2, <1>3 DEF Activating
<1>5. TypeOK'
  <2>1. /\ shares' \in [Client -> SUBSET Wave] /\ request' \in [Client -> Requests \cup {None}]
        /\ at' \in [Client -> Nat] /\ todo' \in [Client -> (SUBSET Key) \cup {None}]
        /\ done' \in [Client -> SUBSET Key]
    <3>1. shares' \in [Client -> SUBSET Wave] /\ done' \in [Client -> SUBSET Key]
      BY <1>1 DEF Finish, TypeOK
    <3>2. request' \in [Client -> Requests \cup {None}] /\ at' \in [Client -> Nat]
      BY <1>1 DEF Finish, TypeOK
    <3>3. todo' \in [Client -> (SUBSET Key) \cup {None}]
      <4> DEFINE Picked == (SUBSET Key) \cup {None}
      <4>1. todo \in [Client -> Picked] /\ None \in Picked /\ todo' = [todo EXCEPT ![c] = None]
        BY <1>1 DEF Finish, TypeOK
      <4> HIDE DEF Picked
      <4>2. todo' \in [Client -> Picked]
        BY <4>1
      <4> QED
        BY <4>2 DEF Picked
    <3> QED
      BY <3>1, <3>2, <3>3
  <2>2. answer' = [d \in Client |-> answer'[d]] /\ told' = [d \in Client |-> told'[d]]
    BY <1>1 DEF Finish, TypeOK
  <2>3. \A d \in Client : ~Idle(d)' => at'[d] \in DOMAIN Plan[request'[d].op]
    BY <1>1, <1>2, <1>3 DEF TypeOK
  <2> QED
    BY <2>1, <2>2, <2>3 DEF TypeOK
<1>6. OthersStand(c)
  <2>1. ASSUME NEW d \in Client \ {c}, Lone(d)' PROVE Lone(d) /\ Activating' \subseteq {d}
    <3>1. Lone(d)
      BY <1>2, <1>4, <2>1 DEF Lone
    <3> QED
      BY <1>4, <3>1 DEF Inv, Local, StoodDown
  <2> QED
    BY <1>2, <2>1 DEF OthersStand
<1>7. Local(c)'
  <2>1. LocksFit(c)' /\ Answered(c)'
    <3>1. answer'[c] # None => answer'[c].said = a
      BY <1>1 DEF Finish, TypeOK
    <3> QED
      BY <3>1 DEF LocksFit, Answered
  <2>2. LevelHeld(c)' /\ WavesShared(c)' /\ SharedStay(c)' /\ Fresh(c)'
    BY <1>2, <1>3 DEF LevelHeld, HasLevel, WavesShared, HasWaves, SharedStay, Fresh, Naming
  <2>3. ScanFits(c)' /\ MembersGone(c)'
    BY <1>2, <1>3, NoName DEF ScanFits, MembersGone, Names
  <2>4. StoodDown(c)'
    BY <1>4 DEF StoodDown, Lone
  <2> QED
    BY <2>1, <2>2, <2>3, <2>4 DEF Local
<1>8. ActiveFollow'
  BY <1>4 DEF ActiveFollow
<1>9. NamesApart'
  <2>1. \A d \in Client : ~Idle(d)' => ~Idle(d) /\ request'[d] = request[d]
    BY <1>2, <1>3
  <2> QED
    BY <1>1, <2>1 DEF RowsAgree, NamesApart, On
<1> QED
  BY <1>5, <1>6, <1>7, <1>8, <1>9, Assemble

LEMMA RolledBack ==
  ASSUME Inv, NEW c \in Client, NEW a, a # "Rejected", Rollback(c, a)
  PROVE  Inv'
<1>1. RollbackRows(c) /\ Finish(c, a, None)
  BY DEF Rollback
<1>2. /\ store' = [k \in Key |-> store'[k]] /\ draft' = [k \in Key |-> draft'[k]]
      /\ holder' \in [Key -> Client \cup {Nobody}]
  BY <1>1 DEF RollbackRows, Released, Inv, TypeOK
<1> QED
  BY <1>1, <1>2, RollbackStep, Ended

LEMMA Committed ==
  ASSUME Inv, NEW c \in Client, NEW a, NEW list, a # "Rejected",
         CommitRows(c), Finish(c, a, list)
  PROVE  Inv'
<1>1. /\ store' = [k \in Key |-> store'[k]] /\ draft' = [k \in Key |-> draft'[k]]
      /\ holder' \in [Key -> Client \cup {Nobody}]
  BY DEF CommitRows, Released, Inv, TypeOK
<1> QED
  BY <1>1, CommitStep, Ended

(* An activation that reads its answer has nothing locked any more. *)
LEMMA LastRead ==
  ASSUME Inv, NEW c \in Client, NEW a, NEW list, a # "Rejected", Step(c) = "read",
         LastStep(c), UNCHANGED rowVars, Finish(c, a, list)
  PROVE  Inv'
<1>1. TypeOK /\ Local(c)
  BY DEF Inv
<1>2. ~Idle(c) /\ request[c].op = "activate"
  <2>1. ~Idle(c)
    BY NoStep DEF Names
  <2> QED
    BY <1>1, <2>1, Stages
<1>3. \A k \in Key : holder[k] # c
  BY <1>1, <1>2 DEF Local, LocksFit, MayHold, HasLevel, Dropping
<1>4. store' = store /\ draft' = draft /\ holder' = holder
  BY DEF rowVars
<1>5. /\ store' = [k \in Key |-> store'[k]] /\ draft' = [k \in Key |-> draft'[k]]
      /\ holder' \in [Key -> Client \cup {Nobody}]
  BY <1>1, <1>4 DEF TypeOK
<1>6. \A l \in Level : draft'[l] = "on" /\ store'[l] # "on" => holder'[l] \in Activating \ {c}
  <2>1. \A l \in Level : l \in Key
    BY Keys
  <2> QED
    BY <1>3, <1>4, <2>1 DEF Inv, RowsAgree, ActiveFollow
<1> QED
  BY <1>3, <1>4, <1>5, <1>6, KeptStep, Ended
-----------------------------------------------------------------------------
(* Inside a statement nothing changes but what it has picked and locked. *)
SameStatement(c) ==
  /\ UNCHANGED <<born, request, at, told, answer, overlapped>>
  /\ \A d \in Client \ {c} : todo'[d] = todo[d] /\ done'[d] = done[d] /\ shares'[d] = shares[d]

LEMMA Inside ==
  ASSUME Inv, NEW c \in Client, SameStatement(c)
  PROVE  /\ Idle(c)' = Idle(c) /\ Step(c)' = Step(c) /\ On(c)' = On(c)
         /\ Listed(c)' = Listed(c) /\ Dropping(c)' = Dropping(c)
         /\ HasLevel(c)' = HasLevel(c) /\ HasWaves(c)' = HasWaves(c)
         /\ Naming(c)' = Naming(c) /\ Lone(c)' = Lone(c)
         /\ Activating' = Activating /\ NamesApart' /\ Answered(c)'
<1>1. request' = request /\ at' = at /\ born' = born /\ overlapped' = overlapped /\ answer' = answer
  BY DEF SameStatement
<1>2. /\ Idle(c)' = Idle(c) /\ Step(c)' = Step(c) /\ On(c)' = On(c)
      /\ Listed(c)' = Listed(c) /\ Dropping(c)' = Dropping(c)
  BY <1>1 DEF Idle, Step, On, Listed, Dropping
<1>3. Activating' = Activating
  BY <1>1 DEF Activating, Idle
<1>4. NamesApart'
  BY <1>1 DEF Inv, RowsAgree, NamesApart, Idle, On
<1> QED
  BY <1>1, <1>2, <1>3, <1>4 DEF HasLevel, HasWaves, Naming, Lone, Inv, Local, Answered

LEMMA InsideStand ==
  ASSUME Inv, NEW c \in Client, SameStatement(c),
         \A l \in Level : Untouched(l) /\ ~(Naming(c) /\ On(c) = l) =>
           todo'[c] = None \/ todo'[c] \cap RowsOf(l) = {}
  PROVE  OthersStand(c)
<1>1. request' = request /\ at' = at /\ born' = born /\ overlapped' = overlapped /\ answer' = answer
  BY DEF SameStatement
<1>2. Activating' = Activating
  BY Inside
<1>3. ASSUME NEW d \in Client, Lone(d)' PROVE Lone(d) /\ Activating' \subseteq {d}
  BY <1>1, <1>2, <1>3 DEF Lone, Inv, Local, StoodDown
<1> QED
  BY <1>1, <1>3 DEF OthersStand, SameStatement

LEMMA InsideTypes ==
  ASSUME Inv, NEW c \in Client, SameStatement(c),
         store' = store,
         draft' = [k \in Key |-> draft'[k]], holder' \in [Key -> Client \cup {Nobody}],
         shares' \in [Client -> SUBSET Wave], done' \in [Client -> SUBSET Key],
         todo' \in [Client -> (SUBSET Key) \cup {None}]
  PROVE  TypeOK'
<1>1. request' = request /\ at' = at /\ told' = told /\ answer' = answer
  BY DEF SameStatement
<1> QED
  BY <1>1 DEF Inv, TypeOK, Idle

(* Picking the rows of a statement. *)
LEMMA ScanKeeps ==
  ASSUME Inv, NEW c \in Client, Scan(c)
  PROVE  Inv'
<1> DEFINE picked == {k \in Where(c) : Matches(c, Seen(c, k))}
<1>1. TypeOK /\ Local(c) /\ RowsAgree
  BY DEF Inv
<1>2. /\ Step(c) \in Scanning /\ todo[c] = None /\ todo' = [todo EXCEPT ![c] = picked]
      /\ store' = store /\ draft' = draft /\ holder' = holder
      /\ shares' = shares /\ done' = done
      /\ UNCHANGED rowVars
  BY DEF Scan, rowVars
<1>3. SameStatement(c) /\ todo'[c] = picked
  BY <1>1, <1>2 DEF SameStatement, Scan, TypeOK
<1>4. ~Idle(c)
  BY <1>2, NoStep DEF Scanning, Names
<1>5. On(c) \in Level \/ Dropping(c)
  BY <1>1, <1>4, Asked DEF TypeOK, Idle, On, Dropping
<1>6. Listed(c) \subseteq Wave
  BY <1>1, <1>4, Asked DEF TypeOK, Idle, Listed
<1>7. Step(c) \in {"rename", "set_on", "remove", "clear"} => On(c) \in Level
  BY <1>1, <1>4, <1>5, Stages DEF Dropping
<1>8. Step(c) = "leave" => Where(c) \subseteq Level \X Wave
  <2>1. Step(c) = "leave" => done[c] \subseteq Wave
    BY <1>1, <1>2 DEF Local, ScanFits
  <2> QED
    BY <1>5, <2>1 DEF Where
<1>9. Where(c) \subseteq Key
  <2>1. Step(c) \in {"waves", "drop"} => Where(c) \subseteq Wave
    BY <1>6 DEF Where
  <2>2. Step(c) \in {"rename", "set_on", "remove"} => Where(c) \subseteq Level
    BY <1>7 DEF Where
  <2>3. Step(c) = "stand_down" => Where(c) \subseteq Level
    BY DEF Where
  <2>4. Step(c) = "clear" => Where(c) \subseteq Level \X Wave
    BY <1>7 DEF Where
  <2> QED
    BY <1>2, <1>8, <2>1, <2>2, <2>3, <2>4 DEF Scanning, Key
<1>10. TypeOK'
  <2>1. todo' \in [Client -> (SUBSET Key) \cup {None}]
    <3> DEFINE Picked == (SUBSET Key) \cup {None}
    <3>1. todo \in [Client -> Picked] /\ picked \in Picked
      BY <1>1, <1>9 DEF TypeOK
    <3> HIDE DEF Picked, picked
    <3>2. todo' \in [Client -> Picked]
      BY <1>2, <3>1
    <3> QED
      BY <3>2 DEF Picked
  <2> QED
    BY <1>1, <1>2, <1>3, <2>1, InsideTypes DEF TypeOK
<1>11. \A k \in picked : Seen(c, k) # Absent
  BY ConstantsAssumption DEF Matches
<1>12. \A l \in Level : Untouched(l) => picked \cap RowsOf(l) = {}
  BY <1>11 DEF Untouched, Seen
<1>13. OthersStand(c) /\ RowStep(c) /\ MembersFollow'
  BY <1>2, <1>3, <1>12, InsideStand, KeptStep
<1>14. ActiveFollow' /\ NamesApart'
  BY <1>1, <1>2, <1>3, Inside DEF ActiveFollow, RowsAgree
<1>15. Local(c)'
  <2>1. LocksFit(c)'
    <3>1. \A k \in Key : MayHold(c, k) => MayHold(c, k)'
      BY <1>2, <1>3, Inside DEF MayHold
    <3> QED
      BY <1>1, <1>2, <3>1 DEF Local, LocksFit
  <2>2. LevelHeld(c)' /\ WavesShared(c)' /\ SharedStay(c)' /\ Answered(c)'
    BY <1>1, <1>2, <1>3, Inside DEF Local, LevelHeld, WavesShared, SharedStay
  <2>3. ScanFits(c)'
    <3>1. Where(c)' = Where(c)
      BY <1>2, <1>3, Inside DEF Where
    <3>2. picked # None /\ picked \subseteq Where(c)
      BY <1>9, ConstantsAssumption
    <3>3. Step(c) # "leave" => done[c] = {}
      BY <1>1, <1>2 DEF Local, ScanFits
    <3> QED
      BY <1>1, <1>2, <1>3, <1>4, <1>8, <3>1, <3>2, <3>3, Inside DEF Local, ScanFits
  <2>4. MembersGone(c)'
    <3>0. /\ Step(c)' = Step(c) /\ Step(c) # "members" /\ On(c)' = On(c)
          /\ todo'[c] = picked
      BY <1>2, <1>3, Inside DEF Scanning
    <3> SUFFICES ASSUME NEW v \in Wave, Step(c) = "clear", <<On(c), v>> \notin picked
                 PROVE  Gone(c, <<On(c), v>>)
      <4>1. \A v \in Wave : Gone(c, <<On(c), v>>)' = Gone(c, <<On(c), v>>)
        BY <1>2, <3>0 DEF Gone
      <4> HIDE DEF picked
      <4> QED
        BY <3>0, <4>1 DEF MembersGone
    <3>1. <<On(c), v>> \in Where(c)
      BY DEF Where, Dropping
    <3>2. Seen(c, <<On(c), v>>) = Absent
      BY <3>1 DEF Matches
    <3>3. CASE holder[<<On(c), v>>] = c
      BY <3>2, <3>3 DEF Seen, Gone
    <3>4. CASE holder[<<On(c), v>>] # c
      <4>1. store[<<On(c), v>>] = Absent
        BY <3>2, <3>4 DEF Seen
      <4>2. HasLevel(c)
        BY <1>1, <1>4, Stages DEF HasLevel
      <4>3. holder[On(c)] = c /\ On(c) \in Level
        BY <1>1, <1>7, <4>2 DEF Local, LevelHeld
      <4>4. draft[<<On(c), v>>] = Absent
        BY <1>1, <3>4, <4>1, <4>3 DEF RowsAgree, MembersFollow
      <4> QED
        BY <4>1, <4>4 DEF Gone
    <3> QED
      BY <3>3, <3>4
  <2>5. StoodDown(c)'
    <3> SUFFICES ASSUME Lone(c), Step(c) = "stand_down", NEW l \in Level, l \notin picked
                 PROVE  Quiet(c, l)
      BY <1>1, <1>2, <1>3, Inside DEF Local, StoodDown, Quiet
    <3>1. l \in Where(c)
      BY DEF Where
    <3>2. Seen(c, l) # "on"
      BY <3>1 DEF Matches
    <3>3. Activating \subseteq {c}
      BY <1>1 DEF Local, StoodDown
    <3> QED
      BY <1>1, <3>2, <3>3 DEF Seen, Quiet, RowsAgree, ActiveFollow
  <2>6. Fresh(c)'
    <3>1. ASSUME Naming(c) PROVE Untouched(On(c))'
      <4>1. On(c) \in Level /\ picked \subseteq Wave
        <5>1. Step(c) = "waves" /\ ~Dropping(c)
          BY <1>2, <3>1 DEF Naming, Scanning, Dropping
        <5> QED
          BY <1>5, <1>6, <5>1 DEF Where
      <4>2. Untouched(On(c))
        BY <1>1, <3>1 DEF Local, Fresh
      <4>3. \A k \in RowsOf(On(c)) : k \notin picked
        BY <4>1, Keys DEF RowsOf
      <4>4. \A d \in Client : todo'[d] = todo[d] \/ todo'[d] = picked
        BY <1>1, <1>3 DEF SameStatement
      <4> HIDE DEF picked
      <4>5. \A l \in Level : l = On(c) => Untouched(l)'
        BY <1>2, <4>2, <4>3, <4>4 DEF Untouched, RowsOf
      <4> QED
        BY <1>2, <1>3, <4>1, <4>5, Inside DEF Untouched, RowsOf
    <3> QED
      BY <1>1, <1>3, <3>1, Inside DEF Local, Fresh, SameStatement
  <2> QED
    BY <2>1, <2>2, <2>3, <2>4, <2>5, <2>6 DEF Local
<1> QED
  BY <1>10, <1>13, <1>14, <1>15, Assemble
-----------------------------------------------------------------------------
(* Each statement locks rows of one table, and writes one kind of version. *)
LEMMA Picked ==
  ASSUME Inv, NEW c \in Client, NEW k \in Key, Available(c, k)
  PROVE  /\ ~Idle(c) /\ Step(c) \in Scanning /\ k \in Where(c) /\ holder[k] \in {Nobody, c}
         /\ Step(c) \in {"waves", "drop"} => k \in Listed(c) /\ k \in Wave
         /\ Step(c) = "drop" => \A d \in Client \ {c} : k \notin shares[d]
         /\ Step(c) \in {"rename", "set_on", "remove"} => k = On(c) /\ k \in Level
         /\ Step(c) = "stand_down" => k \in Level
         /\ Step(c) = "clear" => On(c) \in Level /\ k \in {On(c)} \X Wave
         /\ Step(c) = "leave" => k \in Level \X Wave
         /\ Step(c) = "leave" /\ Dropping(c) => k[2] \in done[c]
         /\ Step(c) = "leave" /\ ~Dropping(c) => k[1] = On(c)
         /\ Step(c) \in {"set_on", "stand_down"} => c \in Activating
         /\ \A l \in Level : Untouched(l) => k \notin RowsOf(l)
<1>1. TypeOK /\ Local(c)
  BY DEF Inv
<1>2. ~Idle(c) /\ todo[c] # None /\ k \in todo[c] /\ holder[k] \in {Nobody, c}
  BY <1>1 DEF Available, Blocks, TypeOK
<1>3. Step(c) \in Scanning /\ todo[c] \subseteq Where(c)
      /\ (Step(c) = "leave" => k \in Level \X Wave)
  BY <1>1, <1>2 DEF Local, ScanFits
<1>4. On(c) \in Level \/ Dropping(c)
  BY <1>1, <1>2, Asked DEF TypeOK, Idle, On, Dropping
<1>5. Listed(c) \subseteq Wave
  BY <1>1, <1>2, Asked DEF TypeOK, Idle, Listed
<1>6. Step(c) \in {"rename", "set_on", "remove", "clear"} => On(c) \in Level
  BY <1>1, <1>2, <1>4, Stages DEF Dropping
<1>7. Step(c) \in {"set_on", "stand_down"} => c \in Activating
  BY <1>1, <1>2, Stages DEF Activating
<1>8. Step(c) = "drop" => \A d \in Client \ {c} : k \notin shares[d]
  BY DEF Available, Blocks
<1>9. \A l \in Level : Untouched(l) => k \notin RowsOf(l)
  BY <1>2 DEF Untouched
<1>10. /\ Step(c) \in {"waves", "drop"} => Where(c) = Listed(c)
       /\ Step(c) \in {"rename", "set_on", "remove"} => Where(c) = {On(c)}
       /\ Step(c) = "stand_down" => Where(c) = Level
       /\ Step(c) = "clear" => Where(c) = {On(c)} \X Wave
       /\ Step(c) = "leave" /\ Dropping(c) => Where(c) = Level \X done[c]
       /\ Step(c) = "leave" /\ ~Dropping(c) => Where(c) = {On(c)} \X Wave
  BY DEF Where
<1> QED
  BY <1>2, <1>3, <1>5, <1>6, <1>7, <1>8, <1>9, <1>10

LEMMA LockKeeps ==
  ASSUME Inv, NEW c \in Client, NEW k \in Key, Available(c, k), Step(c) # "waves",
         NEW v, WriteRow(c, k, v), NEW found \in BOOLEAN, Treated(c, k, found),
         shares' = shares,
         \/ found /\ v = Written(c, draft[k])
         \/ ~found /\ Step(c) = "stand_down" /\ v = draft[k] /\ v # "on"
  PROVE  Inv'
<1>1. TypeOK /\ Local(c) /\ RowsAgree /\ c # Nobody
  BY ConstantsAssumption DEF Inv
<1>2. /\ store' = store /\ draft' = [draft EXCEPT ![k] = v] /\ holder' = [holder EXCEPT ![k] = c]
      /\ todo' = [todo EXCEPT ![c] = todo[c] \ {k}]
      /\ done' = [done EXCEPT ![c] = IF found THEN done[c] \cup {k} ELSE done[c]]
  BY DEF WriteRow, Treated
<1>3. SameStatement(c)
  BY <1>1, <1>2 DEF SameStatement, Treated, TypeOK
<1>4. /\ draft'[k] = v /\ holder'[k] = c
      /\ \A j \in Key : j # k => draft'[j] = draft[j] /\ holder'[j] = holder[j]
      /\ \A j \in Key : holder[j] = c => holder'[j] = c
      /\ todo'[c] = todo[c] \ {k} /\ todo[c] # None /\ k \in todo[c]
      /\ done'[c] = IF found THEN done[c] \cup {k} ELSE done[c]
  BY <1>1, <1>2 DEF TypeOK, Available
<1>5. /\ ~Idle(c) /\ Step(c) \in Scanning /\ holder[k] \in {Nobody, c}
      /\ Step(c) = "drop" => k \in Listed(c) /\ k \in Wave
      /\ Step(c) = "drop" => \A d \in Client \ {c} : k \notin shares[d]
      /\ Step(c) \in {"rename", "set_on", "remove"} => k = On(c) /\ k \in Level
      /\ Step(c) = "stand_down" => k \in Level
      /\ Step(c) = "clear" => On(c) \in Level /\ k \in {On(c)} \X Wave
      /\ Step(c) = "leave" => k \in Level \X Wave
      /\ Step(c) = "leave" /\ Dropping(c) => k[2] \in done[c]
      /\ Step(c) = "leave" /\ ~Dropping(c) => k[1] = On(c)
      /\ Step(c) \in {"set_on", "stand_down"} => c \in Activating
      /\ \A l \in Level : Untouched(l) => k \notin RowsOf(l)
  BY Picked
<1>6. /\ found \/ Step(c) = "stand_down"
      /\ Step(c) \in {"remove", "clear", "leave", "drop"} => v = Absent
      /\ Step(c) = "rename" => v = draft[k]
      /\ Step(c) = "set_on" => v = "on"
      /\ Step(c) = "stand_down" => v # "on" /\ v \in {"off", draft[k]}
  BY <1>5 DEF Written, Scanning
<1>7. TypeOK'
  <2>1. todo' \in [Client -> (SUBSET Key) \cup {None}]
    <3> DEFINE Sets == (SUBSET Key) \cup {None}
               left == todo[c] \ {k}
    <3>1. todo \in [Client -> Sets] /\ left \in Sets
      BY <1>1, <1>4 DEF TypeOK
    <3>2. todo' = [todo EXCEPT ![c] = left]
      BY <1>2
    <3> HIDE DEF Sets, left
    <3>3. todo' \in [Client -> Sets]
      BY <3>1, <3>2
    <3> QED
      BY <3>3 DEF Sets
  <2>2. done' \in [Client -> SUBSET Key]
    BY <1>1, <1>2 DEF TypeOK
  <2>3. draft' = [j \in Key |-> draft'[j]]
    BY <1>1, <1>2 DEF TypeOK
  <2>4. holder' \in [Key -> Client \cup {Nobody}]
    BY <1>1, <1>2 DEF TypeOK
  <2>5. shares' \in [Client -> SUBSET Wave]
    BY <1>1 DEF TypeOK
  <2> QED
    BY <1>2, <1>3, <2>1, <2>2, <2>3, <2>4, <2>5, InsideTypes
<1>8. RowStep(c)
  <2> SUFFICES ASSUME NEW j \in Key
      PROVE /\ holder[j] \notin {Nobody, c} =>
                 store'[j] = store[j] /\ draft'[j] = draft[j] /\ holder'[j] = holder[j]
            /\ holder'[j] \in {holder[j], c, Nobody}
            /\ holder'[j] = Nobody => draft'[j] = store'[j]
            /\ store'[j] \in {store[j], draft[j]}
            /\ \/ draft'[j] \in {store[j], draft[j], Absent}
               \/ j \in Level /\ draft'[j] = "off"
               \/ j \in Level /\ draft'[j] = "on" /\ c \in Activating
            /\ \A d \in Client \ {c} : j \in shares[d] =>
                 draft'[j] = draft[j] /\ holder'[j] = holder[j]
            /\ \A l \in Level : Untouched(l) /\ j \in RowsOf(l) =>
                 store'[j] = store[j] /\ draft'[j] = draft[j] /\ holder'[j] = holder[j]
    BY DEF RowStep
  <2>1. CASE j # k
    BY <1>1, <1>2, <1>4, <2>1 DEF RowsAgree
  <2>2. CASE j = k
    <3>1. \/ v \in {draft[k], Absent}
          \/ k \in Level /\ v = "off"
          \/ k \in Level /\ v = "on" /\ c \in Activating
      BY <1>5, <1>6 DEF Scanning
    <3>2. \A d \in Client \ {c} : k \notin shares[d]
      <4>1. Step(c) # "drop" => k \notin Wave
        BY <1>5, Keys DEF Scanning
      <4> QED
        BY <1>1, <1>5, <4>1 DEF TypeOK
    <3> QED
      BY <1>1, <1>2, <1>4, <1>5, <2>2, <3>1, <3>2
  <2> QED
    BY <2>1, <2>2
<1>9. OthersStand(c)
  <2>1. \A l \in Level : Untouched(l) => todo'[c] \cap RowsOf(l) = {}
    BY <1>4 DEF Untouched
  <2> QED
    BY <1>3, <2>1, InsideStand
<1>10. MembersFollow'
  <2> SUFFICES ASSUME NEW l \in Level, NEW w \in Wave,
                      draft'[<<l, w>>] # Absent, store[<<l, w>>] = Absent
               PROVE  holder'[<<l, w>>] = holder'[l]
    BY <1>2 DEF MembersFollow
  <2>1. <<l, w>> \in Key /\ l \in Key /\ l # <<l, w>>
    BY Keys
  <2>2. k # <<l, w>>
    <3>1. k \in Level \X Wave => v = Absent
      BY <1>5, <1>6, Keys DEF Scanning
    <3> QED
      BY <1>4, <3>1
  <2>3. draft[<<l, w>>] # Absent /\ holder'[<<l, w>>] = holder[<<l, w>>]
    BY <1>4, <2>1, <2>2
  <2>4. holder[<<l, w>>] = holder[l] /\ holder[<<l, w>>] # Nobody
    BY <1>1, <2>1, <2>3 DEF RowsAgree, MembersFollow
  <2> QED
    BY <1>4, <1>5, <2>1, <2>3, <2>4
<1>11. ActiveFollow'
  <2> SUFFICES ASSUME NEW l \in Level, draft'[l] = "on", store[l] # "on"
               PROVE  holder'[l] \in Activating
    BY <1>2, <1>3, Inside DEF ActiveFollow
  <2>1. l \in Key /\ l \notin Wave /\ l \notin Level \X Wave
    BY Keys
  <2>2. CASE l # k
    BY <1>1, <1>4, <2>1, <2>2 DEF RowsAgree, ActiveFollow
  <2>3. CASE l = k
    <3>1. Step(c) = "set_on" \/ v = draft[k]
      BY <1>4, <1>5, <1>6, <2>1, <2>3, ConstantsAssumption DEF Scanning
    <3>2. v = draft[k] => holder[k] \in Activating
      BY <1>1, <1>4, <2>3 DEF RowsAgree, ActiveFollow
    <3> QED
      BY <1>1, <1>4, <1>5, <2>3, <3>1, <3>2, ConstantsAssumption DEF Activating
  <2> QED
    BY <2>2, <2>3
<1>12. LocksFit(c)'
  <2> SUFFICES ASSUME NEW j \in Key, holder'[j] = c PROVE MayHold(c, j)'
    BY DEF LocksFit
  <2>1. done[c] \subseteq done'[c]
    BY <1>4
  <2>2. /\ Step(c)' = Step(c) /\ On(c)' = On(c) /\ Listed(c)' = Listed(c)
        /\ Dropping(c)' = Dropping(c) /\ HasLevel(c)' = HasLevel(c)
        /\ Activating' = Activating
    BY <1>3, Inside
  <2>3. CASE holder[j] = c
    <3>1. MayHold(c, j)
      BY <1>1, <2>3 DEF Local, LocksFit
    <3>2. j \in Level \X Wave => j[2] \in Key
      BY Keys
    <3> QED
      BY <1>4, <2>1, <2>2, <3>1, <3>2 DEF MayHold
  <2>4. CASE j = k
    <3>1. CASE Step(c) \in {"rename", "remove"}
      BY <1>4, <1>5, <1>6, <2>2, <2>4, <3>1 DEF MayHold
    <3>2. CASE Step(c) \in {"set_on", "stand_down"}
      BY <1>5, <2>2, <2>4, <3>2 DEF MayHold
    <3>3. CASE Step(c) = "drop"
      <4>1. Dropping(c)
        BY <1>1, <1>5, <3>3, Stages DEF Dropping
      <4> QED
        BY <1>4, <1>5, <1>6, <2>2, <2>4, <3>3, <4>1 DEF MayHold
    <3>4. CASE Step(c) = "clear"
      <4>1. HasLevel(c)
        BY <1>1, <1>5, <3>4, Stages DEF HasLevel
      <4> QED
        BY <1>5, <2>2, <2>4, <3>4, <4>1 DEF MayHold
    <3>5. CASE Step(c) = "leave" /\ ~Dropping(c)
      <4>1. HasLevel(c)
        BY <1>1, <1>5, <3>5, Stages DEF HasLevel, Dropping
      <4> QED
        BY <1>5, <2>2, <2>4, <3>5, <4>1 DEF MayHold
    <3>6. CASE Step(c) = "leave" /\ Dropping(c)
      <4>1. holder[k[2]] = c /\ k[2] \in Key
        BY <1>1, <1>5, <3>6 DEF Local, ScanFits, TypeOK
      <4> QED
        BY <1>4, <1>5, <2>2, <2>4, <3>6, <4>1 DEF MayHold
    <3> QED
      BY <1>5, <3>1, <3>2, <3>3, <3>4, <3>5, <3>6 DEF Scanning
  <2> QED
    BY <1>4, <2>3, <2>4
<1>13. LevelHeld(c)' /\ WavesShared(c)'
  <2>1. HasLevel(c) => On(c) \in Key
    <3>1. HasLevel(c) => request[c] \in Requests /\ request[c].op \notin {"drop", "batch"}
      BY <1>1 DEF TypeOK, HasLevel, Idle
    <3> QED
      BY <3>1, Asked, Keys DEF On
  <2> QED
    BY <1>1, <1>3, <1>4, <2>1, Inside DEF Local, LevelHeld, WavesShared
<1>14. SharedStay(c)'
  <2> SUFFICES ASSUME NEW w \in shares[c]
               PROVE  holder'[w] = Nobody /\ draft'[w] # Absent /\ HasWaves(c)
    BY <1>3, Inside DEF SharedStay
  <2>1. w \in Wave /\ w \in Key /\ holder[w] = Nobody /\ draft[w] # Absent
    BY Keys, SharedFree
  <2>2. HasWaves(c)
    BY <1>1 DEF Local, SharedStay
  <2>3. k \notin Wave
    <3>1. Step(c) # "drop"
      BY <1>1, <1>5, <2>2, Stages DEF HasWaves
    <3> QED
      BY <1>5, <3>1, Keys DEF Scanning
  <2> QED
    BY <1>4, <2>1, <2>2, <2>3
<1>15. ScanFits(c)'
  <2>1. Step(c)' = Step(c) /\ Idle(c)' = Idle(c) /\ On(c)' = On(c)
        /\ Dropping(c)' = Dropping(c) /\ Listed(c)' = Listed(c)
    BY <1>3, Inside
  <2>2. todo'[c] # None /\ todo'[c] \subseteq todo[c] /\ k \notin todo'[c]
    <3>1. todo[c] \in SUBSET Key
      BY <1>1, <1>4 DEF TypeOK
    <3>2. todo'[c] \in SUBSET Key
      BY <1>4, <3>1
    <3> QED
      BY <1>4, <3>2, ConstantsAssumption
  <2>3. Where(c) \subseteq Where(c)'
    BY <1>4, <2>1 DEF Where
  <2>4. /\ todo[c] \subseteq Where(c)
        /\ Step(c) \in {"rename", "remove", "drop"} => todo[c] \cap done[c] = {}
        /\ Step(c) \in {"rename", "set_on", "remove"} => done[c] \subseteq {On(c)}
        /\ Step(c) = "drop" => done[c] \subseteq Wave
        /\ Step(c) = "leave" => todo[c] \subseteq Level \X Wave
        /\ \A j \in done[c] : holder[j] = c
    BY <1>1, <1>4 DEF Local, ScanFits
  <2>5. \A j \in done'[c] : holder'[j] = c
    <3>1. done[c] \subseteq Key
      BY <1>1 DEF TypeOK
    <3> QED
      BY <1>4, <2>4, <3>1
  <2>6. done'[c] \subseteq done[c] \cup {k}
    BY <1>4
  <2> QED
    BY <1>5, <2>1, <2>2, <2>3, <2>4, <2>5, <2>6 DEF ScanFits
<1>16. MembersGone(c)'
  <2>1. /\ Step(c)' = Step(c) /\ Step(c) # "members" /\ On(c)' = On(c)
    BY <1>3, <1>5, Inside DEF Scanning
  <2> SUFFICES ASSUME NEW w \in Wave, Step(c) = "clear"
               PROVE  <<On(c), w>> \in todo'[c] \/ Gone(c, <<On(c), w>>)'
    BY <2>1 DEF MembersGone
  <2>2. <<On(c), w>> \in todo[c] \/ Gone(c, <<On(c), w>>)
    BY <1>1, <1>4 DEF Local, MembersGone
  <2>3. <<On(c), w>> \in Key
    BY <1>5, Keys
  <2>4. CASE <<On(c), w>> = k
    BY <1>4, <1>6, <2>1, <2>4 DEF Gone
  <2>5. CASE <<On(c), w>> # k
    BY <1>2, <1>4, <2>1, <2>2, <2>3, <2>5 DEF Gone
  <2> QED
    BY <2>4, <2>5
<1>17. StoodDown(c)'
  <2>1. Step(c)' = Step(c) /\ Step(c) # "unique" /\ On(c)' = On(c)
        /\ Activating' = Activating /\ Lone(c)' = Lone(c)
    BY <1>3, <1>5, Inside DEF Scanning
  <2> SUFFICES ASSUME Lone(c), NEW l \in Level
               PROVE  /\ Step(c) = "stand_down" => l \in todo'[c] \/ Quiet(c, l)'
                      /\ Step(c) = "set_on" => Quiet(c, l)' \/ l \in done'[c]
    BY <1>1, <2>1 DEF Local, StoodDown
  <2>2. /\ Step(c) = "stand_down" => l \in todo[c] \/ Quiet(c, l)
        /\ Step(c) = "set_on" => Quiet(c, l) \/ l \in done[c]
    BY <1>1, <1>4 DEF Local, StoodDown
  <2>3. l \in Key
    BY Keys
  <2>4. CASE l = k
    BY <1>4, <1>6, <2>4 DEF Quiet
  <2>5. CASE l # k
    BY <1>2, <1>4, <2>2, <2>3, <2>5 DEF Quiet
  <2> QED
    BY <2>4, <2>5
<1>18. Fresh(c)' /\ Answered(c)'
  <2>1. ~Naming(c)
    BY <1>5 DEF Naming, Scanning
  <2> QED
    BY <1>1, <1>3, <2>1, Inside DEF Local, Fresh, SameStatement
<1>19. NamesApart'
  BY <1>3, Inside
<1> QED
  BY <1>7, <1>8, <1>9, <1>10, <1>11, <1>12, <1>13, <1>14, <1>15, <1>16, <1>17, <1>18,
     <1>19, Assemble DEF Local
-----------------------------------------------------------------------------
(* A row that is passed over, and a wave that is locked for share. *)
LEMMA PassOver ==
  ASSUME Inv, NEW c \in Client, NEW k \in Key, Available(c, k), UNCHANGED rowVars,
         NEW found \in BOOLEAN, Treated(c, k, found),
         \/ found /\ Step(c) = "waves" /\ draft[k] # Absent
                  /\ shares' = [shares EXCEPT ![c] = shares[c] \cup {k}]
         \/ ~found /\ draft[k] = Absent /\ shares' = shares
  PROVE  Inv'
<1>1. TypeOK /\ Local(c) /\ RowsAgree /\ c # Nobody
  BY ConstantsAssumption DEF Inv
<1>2. /\ store' = store /\ draft' = draft /\ holder' = holder
      /\ todo' = [todo EXCEPT ![c] = todo[c] \ {k}]
      /\ done' = [done EXCEPT ![c] = IF found THEN done[c] \cup {k} ELSE done[c]]
  BY DEF rowVars, Treated
<1>3. SameStatement(c)
  BY <1>1, <1>2 DEF SameStatement, Treated, TypeOK
<1>4. /\ todo'[c] = todo[c] \ {k} /\ todo[c] # None /\ k \in todo[c]
      /\ done'[c] = IF found THEN done[c] \cup {k} ELSE done[c]
      /\ shares'[c] = IF found THEN shares[c] \cup {k} ELSE shares[c]
  BY <1>1, <1>2 DEF TypeOK, Available
<1>5. /\ ~Idle(c) /\ Step(c) \in Scanning /\ holder[k] \in {Nobody, c}
      /\ Step(c) \in {"waves", "drop"} => k \in Listed(c) /\ k \in Wave
      /\ Step(c) \in {"rename", "set_on", "remove"} => k = On(c) /\ k \in Level
      /\ Step(c) = "clear" => On(c) \in Level /\ k \in {On(c)} \X Wave
      /\ \A l \in Level : Untouched(l) => k \notin RowsOf(l)
  BY Picked
<1>6. /\ Idle(c)' = Idle(c) /\ Step(c)' = Step(c) /\ On(c)' = On(c)
      /\ Listed(c)' = Listed(c) /\ Dropping(c)' = Dropping(c)
      /\ HasLevel(c)' = HasLevel(c) /\ HasWaves(c)' = HasWaves(c)
      /\ Naming(c)' = Naming(c) /\ Lone(c)' = Lone(c)
      /\ Activating' = Activating /\ NamesApart' /\ Answered(c)'
  BY <1>3, Inside
<1>7. todo'[c] # None /\ todo'[c] \subseteq todo[c] /\ k \notin todo'[c]
  <2>1. todo[c] \in SUBSET Key
    BY <1>1, <1>4 DEF TypeOK
  <2>2. todo'[c] \in SUBSET Key
    BY <1>4, <2>1
  <2> QED
    BY <1>4, <2>2, ConstantsAssumption
<1>8. TypeOK'
  <2>1. todo' \in [Client -> (SUBSET Key) \cup {None}]
    <3> DEFINE Sets == (SUBSET Key) \cup {None}
               left == todo[c] \ {k}
    <3>1. todo \in [Client -> Sets] /\ left \in Sets
      BY <1>1, <1>4 DEF TypeOK
    <3>2. todo' = [todo EXCEPT ![c] = left]
      BY <1>2
    <3> HIDE DEF Sets, left
    <3>3. todo' \in [Client -> Sets]
      BY <3>1, <3>2
    <3> QED
      BY <3>3 DEF Sets
  <2>2. done' \in [Client -> SUBSET Key]
    BY <1>1, <1>2 DEF TypeOK
  <2>3. draft' = [j \in Key |-> draft'[j]] /\ holder' \in [Key -> Client \cup {Nobody}]
    BY <1>1, <1>2 DEF TypeOK
  <2>4. shares' \in [Client -> SUBSET Wave]
    BY <1>1, <1>5 DEF TypeOK
  <2> QED
    BY <1>2, <1>3, <2>1, <2>2, <2>3, <2>4, InsideTypes
<1>9. RowStep(c) /\ MembersFollow' /\ OthersStand(c)
  <2>1. \A l \in Level : Untouched(l) => todo'[c] \cap RowsOf(l) = {}
    BY <1>4 DEF Untouched
  <2> QED
    BY <1>3, <2>1, InsideStand, KeptStep
<1>10. ActiveFollow'
  BY <1>1, <1>2, <1>6 DEF RowsAgree, ActiveFollow
<1>11. LocksFit(c)' /\ LevelHeld(c)' /\ WavesShared(c)'
  <2>1. done[c] \subseteq done'[c] /\ shares[c] \subseteq shares'[c]
    BY <1>4
  <2>2. \A j \in Key : MayHold(c, j) => MayHold(c, j)'
    BY <1>2, <1>6, <2>1 DEF MayHold
  <2> QED
    BY <1>1, <1>2, <1>6, <2>1, <2>2 DEF Local, LocksFit, LevelHeld, WavesShared
<1>12. SharedStay(c)'
  <2>1. ASSUME found PROVE holder[k] = Nobody /\ draft[k] # Absent /\ Step(c) = "waves"
    <3>1. Step(c) = "waves" /\ draft[k] # Absent /\ k \in Wave
      BY <1>5, <2>1
    <3>2. ~Dropping(c)
      BY <1>1, <1>5, <3>1, Stages DEF Dropping
    <3>3. ~MayHold(c, k)
      BY <3>1, <3>2, Keys DEF MayHold
    <3> QED
      BY <1>1, <1>5, <3>1, <3>3 DEF Local, LocksFit
  <2> QED
    BY <1>1, <1>2, <1>4, <1>6, <2>1 DEF Local, SharedStay
<1>13. ScanFits(c)'
  <2>1. Where(c) \subseteq Where(c)'
    BY <1>4, <1>6 DEF Where
  <2>2. /\ todo[c] \subseteq Where(c)
        /\ Step(c) \in {"rename", "remove", "drop"} => todo[c] \cap done[c] = {}
        /\ Step(c) \in {"rename", "set_on", "remove"} => done[c] \subseteq {On(c)}
        /\ Step(c) = "drop" => done[c] \subseteq Wave
        /\ Step(c) = "leave" => todo[c] \subseteq Level \X Wave
        /\ IF Step(c) = "waves" THEN done[c] \subseteq shares[c]
                                ELSE \A j \in done[c] : holder[j] = c
    BY <1>1, <1>4 DEF Local, ScanFits
  <2>3. IF Step(c) = "waves" THEN done'[c] \subseteq shares'[c]
                             ELSE done'[c] = done[c]
    BY <1>4, <2>2
  <2>4. found => Step(c) = "waves"
    OBVIOUS
  <2> QED
    BY <1>2, <1>4, <1>5, <1>6, <1>7, <2>1, <2>2, <2>3, <2>4 DEF ScanFits
<1>14. MembersGone(c)'
  <2>1. Step(c) # "members"
    BY <1>5 DEF Scanning
  <2> SUFFICES ASSUME NEW w \in Wave, Step(c) = "clear"
               PROVE  <<On(c), w>> \in todo'[c] \/ Gone(c, <<On(c), w>>)'
    BY <1>6, <2>1 DEF MembersGone
  <2>2. <<On(c), w>> \in todo[c] \/ Gone(c, <<On(c), w>>)
    BY <1>1, <1>4 DEF Local, MembersGone
  <2>3. <<On(c), w>> = k => Gone(c, <<On(c), w>>)
    BY <1>1, <1>5 DEF Gone, RowsAgree
  <2> QED
    BY <1>2, <1>4, <1>6, <2>2, <2>3 DEF Gone
<1>15. StoodDown(c)'
  <2> SUFFICES ASSUME Lone(c), NEW l \in Level
               PROVE  /\ Step(c) = "stand_down" => l \in todo'[c] \/ Quiet(c, l)
                      /\ Step(c) = "set_on" => Quiet(c, l) \/ l \in done'[c]
    BY <1>1, <1>2, <1>5, <1>6 DEF Local, StoodDown, Quiet, Scanning
  <2>1. /\ Step(c) = "stand_down" => l \in todo[c] \/ Quiet(c, l)
        /\ Step(c) = "set_on" => Quiet(c, l) \/ l \in done[c]
    BY <1>1, <1>4 DEF Local, StoodDown
  <2>2. l = k => found \/ Quiet(c, l)
    BY <1>1, <1>5, ConstantsAssumption DEF Quiet, RowsAgree
  <2> QED
    BY <1>4, <2>1, <2>2
<1>16. Fresh(c)'
  <2>1. ASSUME Naming(c) PROVE Untouched(On(c))'
    <3>1. Untouched(On(c))
      BY <1>1, <2>1 DEF Local, Fresh
    <3>2. \A d \in Client : todo'[d] = todo[d] \/ (d = c /\ todo'[d] \subseteq todo[d] /\ todo[d] # None)
      BY <1>3, <1>4, <1>7 DEF SameStatement
    <3>3. \A l : l = On(c) => Untouched(l)'
      BY <1>2, <3>1, <3>2 DEF Untouched, RowsOf
    <3> QED
      BY <1>6, <3>3 DEF Untouched, RowsOf
  <2> QED
    BY <1>1, <1>3, <1>6, <2>1 DEF Local, Fresh, SameStatement
<1> QED
  BY <1>6, <1>8, <1>9, <1>10, <1>11, <1>12, <1>13, <1>14, <1>15, <1>16, Assemble DEF Local
-----------------------------------------------------------------------------
(* Going on to the next statement. *)
LEMMA Onward ==
  ASSUME Inv, NEW c \in Client, ~Idle(c), ~LastStep(c), NextStatement(c)
  PROVE  /\ request' = request /\ born' = born /\ overlapped' = overlapped /\ answer' = answer
         /\ at'[c] = at[c] + 1 /\ todo'[c] = None
         /\ done'[c] = IF Step(c) = "drop" THEN done[c] ELSE {}
         /\ \A d \in Client \ {c} : at'[d] = at[d] /\ todo'[d] = todo[d] /\ done'[d] = done[d]
         /\ Idle(c)' = Idle(c) /\ On(c)' = On(c) /\ Listed(c)' = Listed(c)
         /\ Dropping(c)' = Dropping(c) /\ Activating' = Activating
         /\ Lone(c)' = Lone(c) /\ NamesApart' /\ Answered(c)'
         /\ HasLevel(c) => HasLevel(c)'
         /\ HasWaves(c) => HasWaves(c)'
         /\ Naming(c)' => Naming(c) /\ Step(c) = "waves"
         /\ Step(c)' # Step(c)
         /\ Step(c)' \notin {"rename", "remove", "stand_down", "drop"}
         /\ Step(c)' = "read" => Step(c) \in {"members", "commit"}
         /\ Step(c)' = "waves" => ~HasLevel(c)
<1>1. TypeOK
  BY DEF Inv
<1>2. request' = request /\ born' = born /\ overlapped' = overlapped /\ answer' = answer
  BY DEF NextStatement
<1>3. /\ at'[c] = at[c] + 1 /\ todo'[c] = None
      /\ done'[c] = IF Step(c) = "drop" THEN done[c] ELSE {}
      /\ \A d \in Client \ {c} : at'[d] = at[d] /\ todo'[d] = todo[d] /\ done'[d] = done[d]
  BY <1>1 DEF NextStatement, TypeOK
<1>4. /\ Idle(c)' = Idle(c) /\ On(c)' = On(c) /\ Listed(c)' = Listed(c)
      /\ Dropping(c)' = Dropping(c) /\ Activating' = Activating
      /\ Lone(c)' = Lone(c) /\ Answered(c)'
  BY <1>2 DEF Idle, On, Listed, Dropping, Activating, Lone, Inv, Local, Answered
<1>5. NamesApart'
  BY <1>2 DEF Inv, RowsAgree, NamesApart, Idle, On
<1> DEFINE o == request[c].op
           s == Step(c)
           t == Step(c)'
<1>6. o \in {"create", "update", "delete", "activate", "drop", "batch"}
  BY <1>1, Stages
<1>7. /\ o = "create" => <<s, t>> \in {<<"waves", "level">>, <<"level", "members">>,
                                       <<"members", "read">>, <<"read", "commit">>}
      /\ o = "update" => <<s, t>> \in {<<"rename", "waves">>, <<"waves", "clear">>,
                                       <<"clear", "members">>, <<"members", "read">>,
                                       <<"read", "commit">>}
      /\ o = "delete" => <<s, t>> \in {<<"remove", "leave">>, <<"leave", "commit">>}
      /\ o = "activate" => <<s, t>> \in {<<"stand_down", "set_on">>, <<"set_on", "unique">>,
                                         <<"unique", "commit">>, <<"commit", "read">>}
      /\ o \in {"drop", "batch"} => <<s, t>> \in {<<"drop", "leave">>, <<"leave", "commit">>}
  BY <1>1, <1>2, <1>3, NextStage
<1> HIDE DEF s, t
<1>8. /\ s # t /\ t \notin {"rename", "remove", "stand_down", "drop"}
      /\ t = "read" => s \in {"members", "commit"}
      /\ o = "create" /\ s \in {"members", "read", "commit"} => t \in {"members", "read", "commit"}
      /\ o = "create" => t # "waves"
      /\ o = "create" /\ t = "level" => s = "waves"
      /\ o = "update" => t # "rename"
      /\ o = "update" /\ s \notin {"rename", "waves"} => t \notin {"rename", "waves"}
      /\ o = "delete" => t # "remove"
      /\ t = "waves" => o = "update" /\ s = "rename"
  BY <1>6, <1>7
<1> USE DEF s, t
<1>9. /\ HasLevel(c) => HasLevel(c)'
      /\ HasWaves(c) => HasWaves(c)'
      /\ Naming(c)' => Naming(c) /\ Step(c) = "waves"
  BY <1>2, <1>4, <1>8 DEF HasLevel, HasWaves, Naming
<1>10. Step(c)' = "waves" => ~HasLevel(c)
  BY <1>8 DEF HasLevel
<1> QED
  BY <1>2, <1>3, <1>4, <1>5, <1>8, <1>9, <1>10

LEMMA OnwardTypes ==
  ASSUME Inv, NEW c \in Client, ~Idle(c), ~LastStep(c), NextStatement(c),
         store' = [k \in Key |-> store'[k]], draft' = [k \in Key |-> draft'[k]],
         holder' \in [Key -> Client \cup {Nobody}], shares' \in [Client -> SUBSET Wave],
         told' = [d \in Client |-> told'[d]]
  PROVE  TypeOK'
<1>1. TypeOK
  BY DEF Inv
<1>2. request' = request /\ answer' = answer
  BY DEF NextStatement
<1>3. at' \in [Client -> Nat]
  BY <1>1 DEF NextStatement, TypeOK
<1>4. todo' \in [Client -> (SUBSET Key) \cup {None}]
  <2> DEFINE Sets == (SUBSET Key) \cup {None}
  <2>1. todo \in [Client -> Sets] /\ None \in Sets /\ todo' = [todo EXCEPT ![c] = None]
    BY <1>1 DEF NextStatement, TypeOK
  <2> HIDE DEF Sets
  <2>2. todo' \in [Client -> Sets]
    BY <2>1
  <2> QED
    BY <2>2 DEF Sets
<1>5. done' \in [Client -> SUBSET Key]
  BY <1>1 DEF NextStatement, TypeOK
<1>6. \A d \in Client : ~Idle(d)' => at'[d] \in DOMAIN Plan[request'[d].op]
  <2>1. at'[c] \in DOMAIN Plan[request[c].op]
    BY <1>1, <1>2, Onward, NextStage
  <2>2. \A d \in Client \ {c} : at'[d] = at[d]
    BY Onward
  <2> QED
    BY <1>1, <1>2, <2>1, <2>2 DEF TypeOK, Idle
<1> QED
  BY <1>1, <1>2, <1>3, <1>4, <1>5, <1>6 DEF TypeOK

LEMMA OnwardStand ==
  ASSUME Inv, NEW c \in Client, ~Idle(c), ~LastStep(c), NextStatement(c),
         \A d \in Client \ {c} : shares'[d] = shares[d]
  PROVE  OthersStand(c)
<1>1. \A d \in Client : Lone(d)' => Lone(d) /\ Activating' \subseteq {d}
  BY Onward DEF Lone, Inv, Local, StoodDown
<1> QED
  BY <1>1, Onward DEF OthersStand

(* What is locked stays locked for a reason, but when an activation has    *)
(* committed.                                                              *)
LEMMA OnwardHolds ==
  ASSUME Inv, NEW c \in Client, ~Idle(c), ~LastStep(c), NextStatement(c),
         Step(c) # "commit", \A j \in Key : holder[j] = c => holder'[j] = c,
         NEW k \in Key, holder[k] = c,
         Step(c) \in {"rename", "remove"} => HasLevel(c)'
  PROVE  MayHold(c, k)'
<1>1. TypeOK /\ MayHold(c, k)
  BY DEF Inv, Local, LocksFit
<1>2. k \in Level \X Wave => k[2] \in Key
  BY Keys
<1>3. \/ k \in Level /\ c \in Activating /\ Step(c)' # "read"
      \/ k \in Level /\ k = On(c) /\ HasLevel(c)'
      \/ k \in Wave /\ Dropping(c) /\ k \in Listed(c) /\ Step(c)' # "drop"
      \/ k \in Level \X Wave /\ k[1] = On(c) /\ HasLevel(c)' /\ Step(c)' # "waves"
      \/ k \in Level \X Wave /\ Dropping(c) /\ Step(c)' # "drop" /\ holder'[k[2]] = c
  <2>1. c \in Activating => Step(c)' # "read"
    <3>1. c \in Activating => Step(c) # "members"
      BY <1>1, Stages DEF Activating
    <3> QED
      BY <3>1, Onward
  <2>2. /\ HasLevel(c) => HasLevel(c)' /\ Step(c)' # "waves"
        /\ Step(c)' # "drop"
    BY Onward
  <2> QED
    BY <1>1, <1>2, <2>1, <2>2 DEF MayHold
<1> QED
  BY <1>3, Onward DEF MayHold

(* A statement that has done what it was sent for, and writes no more. *)
LEMMA OnwardKeeps ==
  ASSUME Inv, NEW c \in Client, ~Idle(c), ~LastStep(c), NextStatement(c),
         UNCHANGED <<rowVars, shares>>, told' = [d \in Client |-> told'[d]],
         \/ Step(c) \in Scanning /\ todo[c] = {} /\ Enough(c)
         \/ Step(c) = "unique"
         \/ Step(c) = "read"
  PROVE  Inv'
<1>1. TypeOK /\ Local(c) /\ RowsAgree
  BY DEF Inv
<1>2. store' = store /\ draft' = draft /\ holder' = holder /\ shares' = shares /\ UNCHANGED rowVars
  BY DEF rowVars
<1>3. TypeOK' /\ RowStep(c) /\ OthersStand(c) /\ MembersFollow'
  <2>1. store' = [k \in Key |-> store'[k]] /\ draft' = [k \in Key |-> draft'[k]]
        /\ holder' \in [Key -> Client \cup {Nobody}] /\ shares' \in [Client -> SUBSET Wave]
    BY <1>1, <1>2 DEF TypeOK
  <2> QED
    BY <1>2, <2>1, OnwardTypes, OnwardStand, KeptStep
<1>4. ActiveFollow' /\ NamesApart' /\ Answered(c)'
  BY <1>1, <1>2, Onward DEF RowsAgree, ActiveFollow
<1>5. Step(c) # "commit" /\ Step(c) # "members" /\ Step(c) # "level"
  BY DEF Scanning
<1>6. todo[c] = {} => todo[c] # None
  BY <1>1, ConstantsAssumption
<1>7. Step(c) \in {"rename", "remove"} => holder[On(c)] = c /\ HasLevel(c)'
  <2> SUFFICES ASSUME Step(c) \in {"rename", "remove"} PROVE holder[On(c)] = c /\ HasLevel(c)'
    OBVIOUS
  <2>1. Enough(c) /\ done[c] # {}
    BY DEF Enough
  <2>2. done[c] \subseteq {On(c)} /\ \A k \in done[c] : holder[k] = c
    BY <1>1 DEF Local, ScanFits
  <2>3. HasLevel(c)'
    <3>1. request[c].op \in {"update", "delete"} /\ Step(c)' # "rename" /\ Step(c)' # "remove"
      BY <1>1, Stages, Onward
    <3> QED
      BY <3>1, Onward DEF HasLevel
  <2> QED
    BY <2>1, <2>2, <2>3
<1>8. LocksFit(c)'
  BY <1>2, <1>5, <1>7, OnwardHolds DEF LocksFit
<1>9. LevelHeld(c)'
  <2>1. HasLevel(c)' => HasLevel(c) \/ Step(c) \in {"rename", "remove"}
    <3> DEFINE o == request[c].op
               s == Step(c)
               t == Step(c)'
    <3>1. o \in {"create", "update", "delete", "activate", "drop", "batch"}
      BY <1>1, Stages
    <3>2. /\ request' = request /\ Idle(c)' = Idle(c)
          /\ o = "create" => <<s, t>> \in {<<"waves", "level">>, <<"level", "members">>,
                                           <<"members", "read">>, <<"read", "commit">>}
          /\ o = "update" => s \in {"rename", "waves", "clear", "members", "read", "commit"}
          /\ o = "delete" => s \in {"remove", "leave", "commit"}
      BY <1>1, Stages, NextStage, Onward
    <3> QED
      BY <1>5, <3>1, <3>2 DEF HasLevel
  <2> QED
    BY <1>1, <1>2, <1>7, <2>1, Onward DEF Local, LevelHeld
<1>10. WavesShared(c)'
  <2>1. HasWaves(c)' => HasWaves(c) \/ Step(c) = "waves"
    <3> DEFINE o == request[c].op
               s == Step(c)
               t == Step(c)'
    <3>1. o \in {"create", "update", "delete", "activate", "drop", "batch"}
      BY <1>1, Stages
    <3>2. /\ request' = request /\ Idle(c)' = Idle(c)
          /\ o = "create" => s \in {"waves", "level", "members", "read", "commit"}
          /\ o = "update" => <<s, t>> \in {<<"rename", "waves">>, <<"waves", "clear">>,
                                           <<"clear", "members">>, <<"members", "read">>,
                                           <<"read", "commit">>}
      BY <1>1, Stages, NextStage, Onward
    <3> QED
      BY <1>5, <3>1, <3>2 DEF HasWaves
  <2>2. Step(c) = "waves" => Listed(c) \subseteq shares[c]
    BY <1>1 DEF Enough, Local, ScanFits
  <2> QED
    BY <1>1, <1>2, <2>1, <2>2, Onward DEF Local, WavesShared
<1>11. SharedStay(c)'
  <2>1. Step(c) = "waves" => HasWaves(c)'
    <3> DEFINE o == request[c].op
               s == Step(c)
               t == Step(c)'
    <3> SUFFICES ASSUME s = "waves" PROVE HasWaves(c)'
      OBVIOUS
    <3>1. o \in {"create", "update"}
      BY <1>1, Stages
    <3>2. /\ request' = request /\ Idle(c)' = Idle(c)
          /\ o = "create" => t # "waves"
          /\ o = "update" => t \notin {"rename", "waves"}
      BY <1>1, Stages, NextStage, Onward
    <3> QED
      BY <3>1, <3>2 DEF HasWaves
  <2> QED
    BY <1>1, <1>2, <2>1, Onward DEF Local, SharedStay
<1>12. ScanFits(c)'
  <2>1. /\ todo'[c] = None /\ ~Idle(c)' /\ Step(c)' # "drop"
        /\ done'[c] = IF Step(c) = "drop" THEN done[c] ELSE {}
    BY Onward
  <2>2. Step(c) = "drop" => Step(c)' = "leave"
    <3>1. Step(c) = "drop" => request[c].op \in {"drop", "batch"}
      BY <1>1, Stages
    <3> QED
      BY <1>1, <3>1, NextStage, Onward
  <2>3. Step(c) = "drop" => done[c] \subseteq Wave /\ \A k \in done[c] : holder[k] = c
    BY <1>1 DEF Local, ScanFits
  <2> QED
    BY <1>2, <2>1, <2>2, <2>3 DEF ScanFits
<1>13. MembersGone(c)'
  <2>1. Step(c)' = "members" => Step(c) = "clear"
    <3>1. /\ request[c].op \in {"create", "update", "delete", "activate", "drop", "batch"}
      BY <1>1, Stages
    <3>2. Step(c)' = "members" => Step(c) \in {"clear", "level"}
      BY <1>1, <3>1, NextStage, Onward
    <3> QED
      BY <1>5, <3>2
  <2>2. Step(c) = "clear" => \A w \in Wave : Gone(c, <<On(c), w>>)
    <3>1. Step(c) = "clear" => todo[c] = {} /\ todo[c] # None
      BY <1>6
    <3> QED
      BY <1>1, <3>1 DEF Local, MembersGone
  <2>3. \A w \in Wave : Gone(c, <<On(c), w>>) => Gone(c, <<On(c), w>>)'
    BY <1>2, Onward DEF Gone
  <2> QED
    BY <2>1, <2>2, <2>3, Onward DEF MembersGone
<1>14. StoodDown(c)'
  <2>0. Lone(c) => Activating \subseteq {c}
    BY <1>1 DEF Local, StoodDown
  <2> SUFFICES ASSUME Lone(c), NEW l \in Level
               PROVE  /\ Step(c)' = "set_on" => Quiet(c, l)
                      /\ Step(c)' = "unique" => Quiet(c, l) \/ l = On(c)
    <3>1. /\ Lone(c)' = Lone(c) /\ Activating' = Activating /\ todo'[c] = None
          /\ On(c)' = On(c)
      BY Onward
    <3>2. \A l \in Level : Quiet(c, l)' = Quiet(c, l)
      BY <1>2 DEF Quiet
    <3> QED
      BY <2>0, <3>1, <3>2 DEF StoodDown
  <2>1. /\ Step(c) = "stand_down" /\ todo[c] # None => l \in todo[c] \/ Quiet(c, l)
        /\ Step(c) = "set_on" => Quiet(c, l) \/ l \in done[c]
    BY <1>1 DEF Local, StoodDown
  <2>2. request[c].op = "activate"
    BY DEF Lone, Activating
  <2>3. /\ Step(c)' = "set_on" => Step(c) = "stand_down"
        /\ Step(c)' = "unique" => Step(c) = "set_on"
    BY <1>1, <2>2, NextStage, Onward
  <2>4. Step(c) = "stand_down" => todo[c] = {} /\ todo[c] # None
    BY <1>6
  <2>5. Step(c) = "set_on" => done[c] \subseteq {On(c)}
    BY <1>1 DEF Local, ScanFits
  <2> QED
    BY <2>1, <2>3, <2>4, <2>5
<1>15. Fresh(c)'
  <2>1. ASSUME Naming(c)' PROVE Untouched(On(c))'
    <3>1. Naming(c)
      BY <2>1, Onward
    <3>2. Untouched(On(c))
      BY <1>1, <3>1 DEF Local, Fresh
    <3>3. \A d \in Client : todo'[d] = todo[d] \/ todo'[d] = None
      BY Onward
    <3>4. \A l : l = On(c) => Untouched(l)'
      BY <1>2, <3>2, <3>3 DEF Untouched, RowsOf
    <3>5. On(c)' = On(c)
      BY Onward
    <3> QED
      BY <3>4, <3>5 DEF Untouched, RowsOf
  <2> QED
    BY <1>1, <2>1, Onward DEF Local, Fresh
<1> QED
  BY <1>3, <1>4, <1>8, <1>9, <1>10, <1>11, <1>12, <1>13, <1>14, <1>15, Assemble DEF Local
-----------------------------------------------------------------------------
(* A new level's row: nobody else has seen the name. *)
LEMMA InsertLevelKeeps ==
  ASSUME Inv, NEW c \in Client, InsertLevel(c)
  PROVE  Inv'
<1>1. TypeOK /\ Local(c) /\ RowsAgree /\ c # Nobody
  BY ConstantsAssumption DEF Inv
<1> DEFINE k == On(c)
<1>2. /\ Step(c) = "level" /\ NextStatement(c) /\ shares' = shares /\ told' = told
      /\ store' = store /\ draft' = [draft EXCEPT ![k] = "off"]
      /\ holder' = [holder EXCEPT ![k] = c]
  BY DEF InsertLevel, WriteRow
<1>3. ~Idle(c) /\ request[c].op = "create" /\ ~LastStep(c) /\ Naming(c)
  <2>1. ~Idle(c)
    BY <1>2, NoStep DEF Names
  <2> QED
    BY <1>1, <1>2, <2>1, Stages DEF Naming
<1>4. k \in Level /\ k \in Key /\ Untouched(k)
  <2>1. k \in Level
    BY <1>1, <1>3, Asked DEF TypeOK, Idle, On
  <2> QED
    BY <1>1, <1>3, <2>1, Keys DEF Local, Fresh
<1>5. Step(c)' = "members"
  BY <1>1, <1>2, <1>3, NextStage, Onward
<1>6. holder[k] = Nobody /\ \A w \in Wave : /\ <<k, w>> \in Key /\ <<k, w>> # k
                                            /\ draft[<<k, w>>] = Absent
                                            /\ store[<<k, w>>] = Absent
  BY <1>4, Keys DEF Untouched, RowsOf
<1> HIDE DEF k
<1>7. /\ draft'[k] = "off" /\ holder'[k] = c
      /\ \A j \in Key : j # k => draft'[j] = draft[j] /\ holder'[j] = holder[j]
      /\ \A j \in Key : holder[j] = c => holder'[j] = c
  BY <1>1, <1>2, <1>4 DEF TypeOK
<1>8. TypeOK' /\ OthersStand(c)
  <2>1. /\ store' = [j \in Key |-> store'[j]] /\ draft' = [j \in Key |-> draft'[j]]
        /\ holder' \in [Key -> Client \cup {Nobody}] /\ shares' \in [Client -> SUBSET Wave]
        /\ told' = [d \in Client |-> told'[d]]
    BY <1>1, <1>2 DEF TypeOK
  <2> QED
    BY <1>2, <1>3, <2>1, OnwardTypes, OnwardStand
<1>9. RowStep(c)
  <2> SUFFICES ASSUME NEW j \in Key
      PROVE /\ holder[j] \notin {Nobody, c} =>
                 store'[j] = store[j] /\ draft'[j] = draft[j] /\ holder'[j] = holder[j]
            /\ holder'[j] \in {holder[j], c, Nobody}
            /\ holder'[j] = Nobody => draft'[j] = store'[j]
            /\ store'[j] \in {store[j], draft[j]}
            /\ \/ draft'[j] \in {store[j], draft[j], Absent}
               \/ j \in Level /\ draft'[j] = "off"
            /\ \A d \in Client \ {c} : j \in shares[d] =>
                 draft'[j] = draft[j] /\ holder'[j] = holder[j]
            /\ \A l \in Level : ~(Naming(c) /\ On(c) = l) /\ j \in RowsOf(l) =>
                 store'[j] = store[j] /\ draft'[j] = draft[j] /\ holder'[j] = holder[j]
    BY DEF RowStep
  <2>1. \A d \in Client : k \notin shares[d]
    BY <1>4, SharedFree, Keys
  <2>2. \A l \in Level : ~(Naming(c) /\ On(c) = l) => k \notin RowsOf(l)
    BY <1>3, <1>4, Keys DEF RowsOf, k
  <2> QED
    BY <1>1, <1>2, <1>4, <1>6, <1>7, <2>1, <2>2 DEF RowsAgree
<1>10. MembersFollow'
  <2> SUFFICES ASSUME NEW l \in Level, NEW w \in Wave,
                      draft'[<<l, w>>] # Absent, store[<<l, w>>] = Absent
               PROVE  holder'[<<l, w>>] = holder'[l]
    BY <1>2 DEF MembersFollow
  <2>1. <<l, w>> \in Key /\ l \in Key /\ <<l, w>> # k
    BY <1>4, Keys
  <2>2. l # k
    BY <1>6, <1>7, <2>1
  <2> QED
    BY <1>1, <1>7, <2>1, <2>2 DEF RowsAgree, MembersFollow
<1>11. ActiveFollow' /\ NamesApart' /\ Answered(c)'
  <2>1. \A l \in Level : l \in Key
    BY Keys
  <2> QED
    BY <1>1, <1>2, <1>3, <1>7, <2>1, Onward DEF RowsAgree, ActiveFollow
<1>12. HasLevel(c)' /\ HasWaves(c)' /\ HasWaves(c) /\ ~Naming(c)'
  BY <1>2, <1>3, <1>5, Onward DEF HasLevel, HasWaves, Naming
<1>13. LocksFit(c)'
  <2> SUFFICES ASSUME NEW j \in Key, holder'[j] = c PROVE MayHold(c, j)'
    BY DEF LocksFit
  <2>1. CASE j = k
    BY <1>3, <1>2, <1>4, <1>12, <2>1, Onward DEF MayHold, k
  <2>2. CASE j # k
    <3>1. holder[j] = c /\ Step(c) # "commit" /\ Step(c) \notin {"rename", "remove"}
      BY <1>2, <1>7, <2>2
    <3> QED
      BY <1>2, <1>3, <1>7, <3>1, OnwardHolds
  <2> QED
    BY <2>1, <2>2
<1>14. LevelHeld(c)' /\ WavesShared(c)'
  BY <1>1, <1>2, <1>3, <1>7, <1>12, Onward DEF LevelHeld, Local, WavesShared, k
<1>15. SharedStay(c)'
  <2> SUFFICES ASSUME NEW w \in shares[c]
               PROVE  holder'[w] = Nobody /\ draft'[w] # Absent
    BY <1>2, <1>12 DEF SharedStay
  <2>1. w \in Key /\ w # k /\ holder[w] = Nobody /\ draft[w] # Absent
    BY <1>4, SharedFree, Keys
  <2> QED
    BY <1>7, <2>1
<1>16. ScanFits(c)'
  <2>1. todo'[c] = None /\ done'[c] = {} /\ ~Idle(c)'
    BY <1>2, <1>3, Onward
  <2> QED
    BY <1>5, <2>1 DEF ScanFits
<1>17. MembersGone(c)'
  <2>1. \A w \in Wave : draft'[<<k, w>>] = Absent /\ store'[<<k, w>>] = Absent
    BY <1>2, <1>6, <1>7
  <2>2. On(c)' = k
    BY <1>2, <1>3, Onward DEF k
  <2> QED
    BY <1>5, <2>1, <2>2 DEF MembersGone, Gone
<1>18. StoodDown(c)' /\ Fresh(c)'
  <2>1. ~Lone(c)'
    BY <1>2, <1>3, Onward DEF Lone, Activating
  <2> QED
    BY <1>1, <1>2, <1>3, <1>12, <2>1, Onward DEF StoodDown, Local, Fresh
<1> QED
  BY <1>8, <1>9, <1>10, <1>11, <1>13, <1>14, <1>15, <1>16, <1>17, <1>18, Assemble DEF Local

(* By the time the members are inserted, every rule of the table holds of  *)
(* them, and will while the request waits for the rows.                    *)
LEMMA RulesHold ==
  ASSUME Inv, NEW c \in Client, Step(c) = "members"
  PROVE  ~BreaksRule(c)
<1>1. TypeOK /\ Local(c)
  BY DEF Inv
<1>2. ~Idle(c)
  BY NoStep DEF Names
<1>3. HasWaves(c)
  BY <1>1, <1>2, Stages DEF HasWaves
<1>4. ASSUME NEW w \in Listed(c), draft[w] = Absent PROVE FALSE
  BY <1>1, <1>3, <1>4 DEF Local, WavesShared, SharedStay
<1>5. \A v \in Wave : draft[<<On(c), v>>] = Absent
  BY <1>1 DEF Local, MembersGone, Gone
<1>6. ASSUME NEW w \in Listed(c), NEW v \in Wave, draft[<<On(c), v>>] = Position(c, w)
      PROVE  FALSE
  <2>1. \E i \in DOMAIN request[c].waves : request[c].waves[i] = w
    BY DEF Listed, ToSet
  <2>2. Position(c, w) \in DOMAIN request[c].waves
    BY <2>1 DEF Position
  <2>3. request[c].waves \in Seq(Wave)
    BY <1>1, <1>2, RequestsAssumption DEF TypeOK, Idle
  <2>4. Position(c, w) \in Nat
    BY <2>2, <2>3
  <2> QED
    BY <1>5, <1>6, <2>4, ConstantsAssumption
<1>7. Listed(c) \subseteq Wave
  BY <1>1, <1>2, Asked DEF TypeOK, Idle, Listed
<1> QED
  BY <1>4, <1>5, <1>6, <1>7 DEF BreaksRule

(* The members, all at once. *)
LEMMA InsertMembersKeeps ==
  ASSUME Inv, NEW c \in Client, InsertMembers(c)
  PROVE  Inv'
<1>1. TypeOK /\ Local(c) /\ RowsAgree /\ c # Nobody
  BY ConstantsAssumption DEF Inv
<1> DEFINE Mine == Members(c)
           pos(k) == Position(c, k[2])
<1>2. /\ Step(c) = "members" /\ NextStatement(c) /\ shares' = shares /\ told' = told
      /\ store' = store
      /\ draft' = [k \in Key |-> IF k \in Mine THEN pos(k) ELSE draft[k]]
      /\ holder' = [k \in Key |-> IF k \in Mine THEN c ELSE holder[k]]
  <2>1. Step(c) = "members"
    BY DEF InsertMembers
  <2>2. ~BreaksRule(c)
    BY <2>1, RulesHold
  <2> QED
    BY <2>1, <2>2 DEF InsertMembers, WriteRows
<1> HIDE DEF pos
<1>3. ~Idle(c) /\ ~LastStep(c) /\ HasLevel(c) /\ HasWaves(c)
  <2>1. ~Idle(c)
    BY <1>2, NoStep DEF Names
  <2> QED
    BY <1>1, <1>2, <2>1, Stages DEF HasLevel, HasWaves
<1>4. On(c) \in Level /\ holder[On(c)] = c /\ Listed(c) \subseteq Wave
  <2>1. request[c] \in Requests /\ request[c].op \notin {"drop", "batch"}
    BY <1>1, <1>3 DEF TypeOK, Idle, HasLevel
  <2> QED
    BY <1>1, <1>3, <2>1, Asked DEF Local, LevelHeld, On, Listed
<1>5. \A k \in Mine : /\ k \in Key /\ k \in Level \X Wave /\ k[1] = On(c)
                      /\ holder[k] \in {Nobody, c}
  <2> SUFFICES ASSUME NEW k \in Mine
               PROVE  k \in {On(c)} \X Wave /\ holder[k] \in {Nobody, c}
    BY <1>4, Keys
  <2>1. k \in {On(c)} \X Wave /\ k \in Key
    BY <1>4, Keys DEF Members
  <2>2. \A b \in Client : ~HoldsUp(b, c)
    BY DEF InsertMembers
  <2>3. k \in Touched(c)
    BY <2>1 DEF Touched
  <2> QED
    BY <1>1, <1>2, <2>1, <2>2, <2>3 DEF HoldsUp, TypeOK
<1>6. \A l \in Level : l \in Key /\ l \notin Mine
  BY <1>4, Keys DEF Members
<1>7. \A w \in Wave : w \notin Mine /\ w \in Key
  BY <1>4, Keys DEF Members
<1> HIDE DEF Mine
<1>8. \A j \in Key : /\ j \notin Mine => draft'[j] = draft[j] /\ holder'[j] = holder[j]
                     /\ j \in Mine => draft'[j] = pos(j) /\ holder'[j] = c
                     /\ holder[j] = c => holder'[j] = c
  BY <1>2
<1>9. TypeOK' /\ OthersStand(c)
  <2>1. /\ store' = [j \in Key |-> store'[j]] /\ draft' = [j \in Key |-> draft'[j]]
        /\ holder' \in [Key -> Client \cup {Nobody}] /\ shares' \in [Client -> SUBSET Wave]
        /\ told' = [d \in Client |-> told'[d]]
    BY <1>1, <1>2 DEF TypeOK
  <2> QED
    BY <1>2, <1>3, <2>1, OnwardTypes, OnwardStand
<1>10. RowStep(c)
  <2> SUFFICES ASSUME NEW j \in Key
      PROVE /\ holder[j] \notin {Nobody, c} =>
                 store'[j] = store[j] /\ draft'[j] = draft[j] /\ holder'[j] = holder[j]
            /\ holder'[j] \in {holder[j], c, Nobody}
            /\ holder'[j] = Nobody => draft'[j] = store'[j]
            /\ store'[j] \in {store[j], draft[j]}
            /\ \/ draft'[j] \in {store[j], draft[j], Absent}
               \/ j \in Level \X Wave /\ holder[j[1]] = c
            /\ \A d \in Client \ {c} : j \in shares[d] =>
                 draft'[j] = draft[j] /\ holder'[j] = holder[j]
            /\ \A l \in Level : Untouched(l) /\ j \in RowsOf(l) =>
                 store'[j] = store[j] /\ draft'[j] = draft[j] /\ holder'[j] = holder[j]
    BY DEF RowStep
  <2>1. CASE j \notin Mine
    BY <1>1, <1>2, <1>8, <2>1 DEF RowsAgree
  <2>2. CASE j \in Mine
    <3>1. \A d \in Client : j \notin shares[d]
      BY <1>7, <2>2, SharedFree
    <3>2. \A l \in Level : Untouched(l) => j \notin RowsOf(l)
      <4> SUFFICES ASSUME NEW l \in Level, Untouched(l), j \in RowsOf(l) PROVE FALSE
        OBVIOUS
      <4>1. l = On(c)
        BY <1>5, <2>2, Keys DEF RowsOf
      <4>2. holder[l] = Nobody
        BY DEF Untouched, RowsOf
      <4> QED
        BY <1>1, <1>4, <4>1, <4>2
    <3> QED
      BY <1>1, <1>2, <1>4, <1>5, <1>8, <2>2, <3>1, <3>2
  <2> QED
    BY <2>1, <2>2
<1>11. MembersFollow'
  <2> SUFFICES ASSUME NEW l \in Level, NEW w \in Wave,
                      draft'[<<l, w>>] # Absent, store[<<l, w>>] = Absent
               PROVE  holder'[<<l, w>>] = holder'[l]
    BY <1>2 DEF MembersFollow
  <2>1. <<l, w>> \in Key /\ holder'[l] = holder[l]
    BY <1>6, <1>8, Keys
  <2>2. CASE <<l, w>> \notin Mine
    BY <1>1, <1>8, <2>1, <2>2 DEF RowsAgree, MembersFollow
  <2>3. CASE <<l, w>> \in Mine
    BY <1>4, <1>5, <1>8, <2>1, <2>3
  <2> QED
    BY <2>2, <2>3
<1>12. ActiveFollow' /\ NamesApart' /\ Answered(c)'
  BY <1>1, <1>2, <1>3, <1>6, <1>8, Onward DEF RowsAgree, ActiveFollow
<1>13. Step(c)' = "read" /\ HasLevel(c)' /\ HasWaves(c)' /\ ~Naming(c)' /\ ~Naming(c)
  <2>1. request[c].op \in {"create", "update"}
    BY <1>1, <1>2, <1>3, Stages
  <2> QED
    BY <1>1, <1>2, <1>3, <2>1, NextStage, Onward DEF Naming
<1>14. LocksFit(c)'
  <2> SUFFICES ASSUME NEW j \in Key, holder'[j] = c PROVE MayHold(c, j)'
    BY DEF LocksFit
  <2>1. CASE j \in Mine
    BY <1>2, <1>3, <1>5, <1>13, <2>1, Onward DEF MayHold
  <2>2. CASE j \notin Mine
    <3>1. holder[j] = c /\ Step(c) # "commit" /\ Step(c) \notin {"rename", "remove"}
      BY <1>2, <1>8, <2>2
    <3> QED
      BY <1>2, <1>3, <1>8, <3>1, OnwardHolds
  <2> QED
    BY <2>1, <2>2
<1>15. LevelHeld(c)' /\ WavesShared(c)'
  BY <1>1, <1>2, <1>3, <1>4, <1>6, <1>8, Onward DEF LevelHeld, Local, WavesShared
<1>16. SharedStay(c)'
  <2> SUFFICES ASSUME NEW w \in shares[c]
               PROVE  holder'[w] = Nobody /\ draft'[w] # Absent
    BY <1>2, <1>13 DEF SharedStay
  <2>1. w \in Wave /\ holder[w] = Nobody /\ draft[w] # Absent
    BY SharedFree
  <2> QED
    BY <1>7, <1>8, <2>1
<1>17. ScanFits(c)' /\ MembersGone(c)'
  <2>1. todo'[c] = None /\ done'[c] = {} /\ ~Idle(c)'
    BY <1>2, <1>3, Onward
  <2> QED
    BY <1>13, <2>1 DEF ScanFits, MembersGone
<1>18. StoodDown(c)' /\ Fresh(c)'
  <2>1. ~Lone(c)'
    <3>1. c \notin Activating
      BY <1>3 DEF HasLevel, Activating
    <3> QED
      BY <1>2, <1>3, <3>1, Onward DEF Lone
  <2> QED
    BY <1>1, <1>2, <1>3, <1>13, <2>1, Onward DEF StoodDown, Local, Fresh
<1> QED
  BY <1>9, <1>10, <1>11, <1>12, <1>14, <1>15, <1>16, <1>17, <1>18, Assemble DEF Local
-----------------------------------------------------------------------------
(* An activation commits before it reads its answer. *)
LEMMA CommitOnward ==
  ASSUME Inv, NEW c \in Client, Step(c) = "commit", ~LastStep(c), CommitRows(c),
         NextStatement(c), shares' = [shares EXCEPT ![c] = {}], told' = told
  PROVE  Inv'
<1>1. TypeOK /\ Local(c) /\ RowsAgree
  BY DEF Inv
<1>2. ~Idle(c) /\ request[c].op = "activate"
  <2>1. ~Idle(c)
    BY NoStep DEF Names
  <2> QED
    BY <1>1, <2>1, Stages
<1>3. Step(c)' = "read"
  BY <1>1, <1>2, NextStage, Onward
<1>4. shares'[c] = {} /\ \A d \in Client \ {c} : shares'[d] = shares[d]
  BY <1>1 DEF TypeOK
<1>5. TypeOK' /\ OthersStand(c)
  <2>1. /\ store' = [j \in Key |-> store'[j]] /\ draft' = [j \in Key |-> draft'[j]]
        /\ holder' \in [Key -> Client \cup {Nobody}] /\ shares' \in [Client -> SUBSET Wave]
        /\ told' = [d \in Client |-> told'[d]]
    BY <1>1 DEF TypeOK, CommitRows, Released
  <2> QED
    BY <1>2, <1>4, <2>1, OnwardTypes, OnwardStand
<1>6. RowStep(c) /\ MembersFollow' /\ \A k \in Key : holder'[k] # c
  BY CommitStep
<1>7. ActiveFollow' /\ NamesApart' /\ Answered(c)'
  BY <1>2, CommitStep, Onward DEF ActiveFollow
<1>8. LocksFit(c)' /\ LevelHeld(c)' /\ WavesShared(c)' /\ SharedStay(c)'
  BY <1>2, <1>4, <1>6, Onward DEF LocksFit, LevelHeld, HasLevel, WavesShared, HasWaves, SharedStay
<1>9. ScanFits(c)' /\ MembersGone(c)'
  <2>1. todo'[c] = None /\ done'[c] = {} /\ ~Idle(c)'
    BY <1>2, Onward
  <2> QED
    BY <1>3, <2>1 DEF ScanFits, MembersGone
<1>10. StoodDown(c)'
  <2>1. Lone(c) => Activating \subseteq {c}
    BY <1>1 DEF Local, StoodDown
  <2> QED
    BY <1>2, <1>3, <2>1, Onward DEF StoodDown
<1>11. Fresh(c)'
  BY <1>2, Onward DEF Fresh, Naming
<1> QED
  BY <1>5, <1>6, <1>7, <1>8, <1>9, <1>10, <1>11, Assemble DEF Local

(* A wave that is not there is saved: nobody has counted on its absence. *)
LEMMA SaveWaveKeeps ==
  ASSUME Inv, NEW w \in Wave, SaveWave(w)
  PROVE  Inv'
<1>1. TypeOK /\ RowsAgree
  BY DEF Inv
<1>2. /\ holder[w] = Nobody /\ store[w] = Absent
      /\ store' = [store EXCEPT ![w] = "there"] /\ draft' = [draft EXCEPT ![w] = "there"]
      /\ holder' = holder /\ shares' = shares /\ born' = born /\ request' = request
      /\ at' = at /\ todo' = todo /\ done' = done /\ told' = told /\ answer' = answer
      /\ overlapped' = overlapped
  BY DEF SaveWave, scanVars
<1>3. w \in Key /\ w \notin Level /\ w \notin Level \X Wave
  BY Keys
<1>4. /\ store'[w] = "there" /\ draft'[w] = "there"
      /\ \A k \in Key : k # w => store'[k] = store[k] /\ draft'[k] = draft[k]
  BY <1>1, <1>2, <1>3 DEF TypeOK
<1>5. TypeOK'
  <2>1. /\ store' = [k \in Key |-> store'[k]] /\ draft' = [k \in Key |-> draft'[k]]
    BY <1>1, <1>2 DEF TypeOK
  <2> QED
    BY <1>1, <1>2, <2>1 DEF TypeOK, Idle
<1>6. Activating' = Activating
  BY <1>2 DEF Activating, Idle
<1>7. ASSUME NEW l \in Level, Untouched(l) PROVE Untouched(l)'
  <2>1. \A k \in RowsOf(l) : k \in Key /\ k # w
    BY <1>3, Keys DEF RowsOf
  <2> QED
    BY <1>2, <1>4, <1>7, <2>1 DEF Untouched, RowsOf
<1>8. RowsAgree'
  <2>1. \A k \in Key : holder'[k] = Nobody => draft'[k] = store'[k]
    BY <1>1, <1>2, <1>4 DEF RowsAgree
  <2>2. MembersFollow'
    <3>1. \A l \in Level, v \in Wave : <<l, v>> \in Key /\ <<l, v>> # w
      BY <1>3, Keys
    <3> QED
      BY <1>1, <1>2, <1>4, <3>1 DEF RowsAgree, MembersFollow
  <2>3. ActiveFollow'
    <3>1. \A l \in Level : l \in Key /\ l # w
      BY <1>3, Keys
    <3> QED
      BY <1>1, <1>2, <1>4, <1>6, <3>1 DEF RowsAgree, ActiveFollow
  <2>4. NamesApart'
    BY <1>1, <1>2 DEF RowsAgree, NamesApart, Idle, On
  <2>5. \A l \in Level \ born' : Untouched(l)'
    BY <1>1, <1>2, <1>7 DEF RowsAgree
  <2> QED
    BY <2>1, <2>2, <2>3, <2>4, <2>5 DEF RowsAgree
<1>9. ASSUME NEW c \in Client PROVE Local(c)'
  <2>1. Local(c)
    BY DEF Inv
  <2>2. /\ Idle(c)' = Idle(c) /\ Step(c)' = Step(c) /\ On(c)' = On(c) /\ Listed(c)' = Listed(c)
        /\ Dropping(c)' = Dropping(c) /\ Where(c)' = Where(c)
    BY <1>2 DEF Idle, Step, On, Listed, Dropping, Where
  <2>3. /\ HasLevel(c)' = HasLevel(c) /\ HasWaves(c)' = HasWaves(c) /\ Naming(c)' = Naming(c)
        /\ Lone(c)' = Lone(c)
    BY <1>2, <1>6, <2>2 DEF HasLevel, HasWaves, Naming, Lone
  <2>4. LocksFit(c)'
    <3>1. \A k \in Key : MayHold(c, k) => MayHold(c, k)'
      BY <1>2, <1>6, <2>2, <2>3 DEF MayHold
    <3> QED
      BY <1>2, <2>1, <3>1 DEF Local, LocksFit
  <2>5. LevelHeld(c)' /\ WavesShared(c)' /\ Answered(c)'
    BY <1>2, <2>1, <2>2, <2>3 DEF Local, LevelHeld, WavesShared, Answered
  <2>6. SharedStay(c)'
    <3>1. \A v \in shares[c] : v \in Key
      BY <1>1, Keys DEF TypeOK
    <3> QED
      BY <1>2, <1>4, <2>1, <2>2, <2>3, <3>1, ConstantsAssumption DEF Local, SharedStay
  <2>7. ScanFits(c)'
    BY <1>2, <2>1, <2>2 DEF Local, ScanFits
  <2>8. MembersGone(c)'
    <3>0. /\ Step(c) = "members" => On(c) \in Level
          /\ Step(c) = "clear" => On(c) \in Level
      <4>1. Step(c) \in {"members", "clear"} => ~Idle(c)
        BY NoStep DEF Names
      <4>2. Step(c) \in {"members", "clear"} => request[c].op \in {"create", "update"}
        BY <1>1, <4>1, Stages
      <4> QED
        BY <1>1, <4>1, <4>2, Asked DEF TypeOK, Idle, On
    <3>1. \A v \in Wave : On(c) \in Level => <<On(c), v>> \in Key /\ <<On(c), v>> # w
      BY <1>3, Keys
    <3>2. \A v \in Wave : On(c) \in Level /\ Gone(c, <<On(c), v>>) => Gone(c, <<On(c), v>>)'
      BY <1>2, <1>4, <2>2, <3>1 DEF Gone
    <3> QED
      BY <1>2, <2>1, <2>2, <3>0, <3>2 DEF Local, MembersGone
  <2>9. StoodDown(c)'
    <3>1. \A l \in Level : l \in Key /\ l # w
      BY <1>3, Keys
    <3>2. \A l \in Level : Quiet(c, l) => Quiet(c, l)'
      BY <1>2, <1>4, <3>1 DEF Quiet
    <3> QED
      BY <1>2, <1>6, <2>1, <2>2, <2>3, <3>2 DEF Local, StoodDown
  <2>10. Fresh(c)'
    <3>1. Naming(c) => On(c) \in Level /\ Untouched(On(c))
      BY <1>1, <2>1, Asked DEF Local, Fresh, Naming, TypeOK, Idle, On
    <3>2. \A l \in Level : l = On(c) /\ Untouched(l)' => Untouched(On(c))'
      BY <2>2 DEF Untouched, RowsOf
    <3> QED
      BY <1>2, <1>7, <2>1, <2>2, <2>3, <3>1, <3>2 DEF Local, Fresh
  <2> QED
    BY <2>4, <2>5, <2>6, <2>7, <2>8, <2>9, <2>10 DEF Local
<1> QED
  BY <1>5, <1>8, <1>9 DEF Inv

(* A request comes in; whoever takes it has nothing locked. *)
LEMMA ReceiveKeeps ==
  ASSUME Inv, NEW c \in Client, NEW r \in Requests, Receive(c, r)
  PROVE  Inv'
<1>1. TypeOK /\ Local(c) /\ RowsAgree /\ c # Nobody
  BY ConstantsAssumption DEF Inv
<1>2. /\ Idle(c) /\ (r.op = "create" => r.on \notin born)
      /\ store' = store /\ draft' = draft /\ holder' = holder /\ shares' = shares
      /\ todo' = todo /\ done' = done /\ told' = told
      /\ born' = IF r.op = "create" THEN born \cup {r.on} ELSE born
      /\ overlapped' = IF r.op = "activate" /\ Activating # {}
                         THEN overlapped \cup Activating \cup {c} ELSE overlapped
      /\ UNCHANGED rowVars
  BY DEF Receive, rowVars, scanVars
<1>3. /\ request'[c] = r /\ at'[c] = 1 /\ answer'[c] = None
      /\ \A d \in Client \ {c} : request'[d] = request[d] /\ at'[d] = at[d] /\ answer'[d] = answer[d]
  BY <1>1 DEF Receive, TypeOK
<1>4. /\ r # None /\ r.op \in {"create", "update", "delete", "activate", "drop", "batch"}
      /\ r.op \notin {"drop", "batch"} => r.on \in Level
  BY Asked
<1>5. /\ 1 \in DOMAIN Plan[r.op]
      /\ r.op = "create" => Plan[r.op][1] = "waves"
      /\ r.op = "update" => Plan[r.op][1] = "rename"
      /\ r.op = "delete" => Plan[r.op][1] = "remove"
      /\ r.op = "activate" => Plan[r.op][1] = "stand_down"
      /\ r.op \in {"drop", "batch"} => Plan[r.op][1] = "drop"
  <2>1. CASE r.op = "create"
    BY <2>1 DEF Plan
  <2>2. CASE r.op = "update"
    BY <2>2 DEF Plan, UpdatePlan
  <2>3. CASE r.op = "delete"
    BY <2>3 DEF Plan
  <2>4. CASE r.op = "activate"
    BY <2>4 DEF Plan, ActivatePlan
  <2>5. CASE r.op \in {"drop", "batch"}
    BY <2>5 DEF Plan
  <2> QED
    BY <1>4, <2>1, <2>2, <2>3, <2>4, <2>5
<1>6. ~Idle(c)' /\ On(c)' = r.on /\ Step(c)' = Plan[r.op][1]
      /\ \A d \in Client \ {c} : Idle(d)' = Idle(d) /\ On(d)' = On(d)
  BY <1>3, <1>4 DEF Idle, On, Step
<1>7. Activating' = IF r.op = "activate" THEN Activating \cup {c} ELSE Activating
  BY <1>2, <1>3, <1>6 DEF Activating
<1>8. /\ todo[c] = None /\ done[c] = {} /\ shares[c] = {} /\ \A k \in Key : holder[k] # c
  <2>1. Step(c) \notin Names
    BY <1>2, NoStep
  <2> QED
    BY <1>1, <1>2, <2>1 DEF Local, ScanFits, SharedStay, LocksFit, MayHold, HasWaves,
                            HasLevel, Activating, Dropping, Names
<1>9. TypeOK'
  <2>1. /\ request' \in [Client -> Requests \cup {None}] /\ at' \in [Client -> Nat]
        /\ answer' = [d \in Client |-> answer'[d]]
    BY <1>1 DEF Receive, TypeOK
  <2>2. \A d \in Client : ~Idle(d)' => at'[d] \in DOMAIN Plan[request'[d].op]
    BY <1>1, <1>3, <1>5, <1>6 DEF TypeOK
  <2> QED
    BY <1>1, <1>2, <2>1, <2>2 DEF TypeOK
<1>10. RowStep(c) /\ MembersFollow'
  BY <1>2, KeptStep
<1>11. OthersStand(c)
  <2>1. ASSUME NEW d \in Client \ {c}, Lone(d)' PROVE Lone(d) /\ Activating' \subseteq {d}
    <3>1. d \in Activating /\ d \notin overlapped'
      BY <1>7, <2>1 DEF Lone
    <3>2. r.op # "activate"
      BY <1>2, <3>1
    <3>3. Lone(d)
      BY <1>2, <3>1, <3>2 DEF Lone
    <3> QED
      BY <1>7, <3>2, <3>3 DEF Inv, Local, StoodDown
  <2> QED
    BY <1>2, <1>3, <1>8, <2>1 DEF OthersStand
<1>12. ActiveFollow'
  BY <1>1, <1>2, <1>7 DEF RowsAgree, ActiveFollow
<1>13. NamesApart'
  <2>1. \A d \in Client \ {c} : ~Idle(d) /\ request[d].op = "create" => On(d) \in born
    BY DEF Inv, Local, Fresh
  <2> QED
    BY <1>1, <1>2, <1>3, <1>6, <2>1 DEF RowsAgree, NamesApart
<1>14. Local(c)'
  <2>1. LocksFit(c)' /\ LevelHeld(c)' /\ WavesShared(c)' /\ SharedStay(c)' /\ Answered(c)'
    <3>1. ~HasLevel(c)' /\ ~HasWaves(c)'
      BY <1>3, <1>4, <1>5, <1>6 DEF HasLevel, HasWaves
    <3> QED
      BY <1>2, <1>3, <1>8, <3>1 DEF LocksFit, LevelHeld, WavesShared, SharedStay, Answered
  <2>2. ScanFits(c)'
    BY <1>2, <1>6, <1>8 DEF ScanFits
  <2>3. MembersGone(c)'
    BY <1>2, <1>4, <1>5, <1>6, <1>8 DEF MembersGone
  <2>4. StoodDown(c)'
    <3>1. Lone(c)' => r.op = "activate" /\ Activating = {}
      BY <1>2, <1>7 DEF Lone, Activating
    <3>2. r.op = "activate" => Step(c)' = "stand_down"
      BY <1>5, <1>6
    <3> QED
      BY <1>2, <1>7, <1>8, <3>1, <3>2 DEF StoodDown
  <2>5. Fresh(c)'
    <3>1. r.op = "create" => Untouched(r.on)
      BY <1>1, <1>2, <1>4 DEF RowsAgree
    <3>2. r.op = "create" => Untouched(On(c))'
      BY <1>2, <1>6, <3>1 DEF Untouched, RowsOf
    <3> QED
      BY <1>2, <1>3, <1>6, <3>2 DEF Fresh, Naming
  <2> QED
    BY <2>1, <2>2, <2>3, <2>4, <2>5 DEF Local
<1> QED
  BY <1>9, <1>10, <1>11, <1>12, <1>13, <1>14, Assemble

LEMMA InitInv == Init => Inv
<1> SUFFICES ASSUME Init PROVE Inv
  OBVIOUS
<1>1. PICK there \in SUBSET Wave : AtRest([k \in Key |-> IF k \in there THEN "there" ELSE Absent])
  BY DEF Init
<1> DEFINE rows == [k \in Key |-> IF k \in there THEN "there" ELSE Absent]
<1>2. store = rows /\ draft = rows /\ holder = [k \in Key |-> Nobody]
  BY <1>1 DEF AtRest
<1>3. \A l \in Level : \A k \in RowsOf(l) : k \in Key /\ rows[k] = Absent
  BY Keys DEF RowsOf
<1>4. \A k \in Level \cup (Level \X Wave) : k \in Key /\ rows[k] = Absent
  BY Keys
<1> HIDE DEF rows
<1>5. /\ shares = [c \in Client |-> {}] /\ born = {} /\ request = [c \in Client |-> None]
      /\ at = [c \in Client |-> 0] /\ todo = [c \in Client |-> None]
      /\ done = [c \in Client |-> {}] /\ told = [c \in Client |-> None]
      /\ answer = [c \in Client |-> None] /\ overlapped = {}
  BY DEF Init
<1>6. \A c \in Client : Idle(c) /\ Step(c) = None
  BY <1>5 DEF Idle, Step
<1>7. TypeOK
  <2>1. todo \in [Client -> (SUBSET Key) \cup {None}]
    BY <1>5
  <2>2. store = [k \in Key |-> store[k]] /\ draft = [k \in Key |-> draft[k]]
    BY <1>2 DEF rows
  <2>3. holder \in [Key -> Client \cup {Nobody}]
    BY <1>2
  <2> QED
    BY <1>5, <1>6, <2>1, <2>2, <2>3 DEF TypeOK
<1>8. \A l \in Level : Untouched(l)
  BY <1>2, <1>3, <1>5 DEF Untouched, RowsOf
<1>9. Activating = {}
  BY <1>6 DEF Activating
<1>10. RowsAgree
  <2>1. MembersFollow
    <3>1. \A l \in Level, w \in Wave : draft[<<l, w>>] = Absent
      BY <1>2, <1>4
    <3> QED
      BY <3>1 DEF MembersFollow
  <2>2. ActiveFollow
    <3>1. \A l \in Level : draft[l] = Absent
      BY <1>2, <1>4
    <3> QED
      BY <3>1, ConstantsAssumption DEF ActiveFollow
  <2>3. NamesApart
    BY <1>6 DEF NamesApart
  <2> QED
    BY <1>2, <1>8, <2>1, <2>2, <2>3 DEF RowsAgree
<1>11. ASSUME NEW c \in Client PROVE Local(c)
  <2>1. LocksFit(c)
    BY <1>2, ConstantsAssumption DEF LocksFit
  <2>2. LevelHeld(c) /\ WavesShared(c) /\ SharedStay(c) /\ Fresh(c) /\ Answered(c)
    BY <1>5, <1>6 DEF LevelHeld, HasLevel, WavesShared, HasWaves, SharedStay, Fresh, Naming, Answered
  <2>3. ScanFits(c) /\ MembersGone(c)
    BY <1>5, <1>6, NoName DEF ScanFits, MembersGone, Names
  <2>4. StoodDown(c)
    BY <1>9 DEF StoodDown, Lone
  <2> QED
    BY <2>1, <2>2, <2>3, <2>4 DEF Local
<1> QED
  BY <1>7, <1>10, <1>11 DEF Inv
-----------------------------------------------------------------------------
LEMMA NextInv ==
  ASSUME Inv, [Next]_vars
  PROVE  Inv'
<1>1. TypeOK
  BY DEF Inv
<1>2. ASSUME NEW w \in Wave, SaveWave(w) PROVE Inv'
  BY <1>2, SaveWaveKeeps
<1>3. ASSUME NEW c \in Client, NEW r \in Requests, Receive(c, r) PROVE Inv'
  BY <1>3, ReceiveKeeps
<1>4. ASSUME NEW c \in Client, Scan(c) PROVE Inv'
  BY <1>4, ScanKeeps
<1>5. ASSUME NEW c \in Client, Scanned(c) PROVE Inv'
  <2>1. todo[c] = {} /\ Enough(c) /\ NextStatement(c) /\ UNCHANGED <<rowVars, shares>> /\ told' = told
    BY <1>5 DEF Scanned
  <2>2. todo[c] # None
    BY <2>1, ConstantsAssumption
  <2>3. Step(c) \in Scanning /\ ~Idle(c)
    BY <2>2 DEF Inv, Local, ScanFits
  <2>4. ~LastStep(c)
    BY <1>1, <2>3, Stages DEF Scanning
  <2>5. told' = [d \in Client |-> told'[d]]
    BY <1>1, <2>1 DEF TypeOK
  <2> QED
    BY <2>1, <2>3, <2>4, <2>5, OnwardKeeps
<1>6. ASSUME NEW c \in Client, Refuse(c) PROVE Inv'
  BY <1>6, RolledBack DEF Refuse
<1>7. ASSUME NEW c \in Client, NEW k \in Key, WriteFound(c, k) PROVE Inv'
  <2>1. /\ Available(c, k) /\ Step(c) # "waves" /\ WriteRow(c, k, Written(c, draft[k]))
        /\ Treated(c, k, TRUE) /\ shares' = shares
    BY <1>7 DEF WriteFound
  <2> QED
    BY <2>1, LockKeeps
<1>8. ASSUME NEW c \in Client, NEW k \in Key, ShareFound(c, k) PROVE Inv'
  <2>1. /\ Available(c, k) /\ Step(c) = "waves" /\ draft[k] # Absent
        /\ shares' = [shares EXCEPT ![c] = shares[c] \cup {k}]
        /\ Treated(c, k, TRUE) /\ UNCHANGED rowVars
    BY <1>8 DEF ShareFound
  <2> QED
    BY <2>1, PassOver
<1>9. ASSUME NEW c \in Client, NEW k \in Key, Skip(c, k) PROVE Inv'
  <2>1. Available(c, k) /\ ~Matches(c, draft[k]) /\ Treated(c, k, FALSE) /\ shares' = shares
    BY <1>9 DEF Skip
  <2>2. CASE draft[k] = Absent
    <3>1. UNCHANGED rowVars
      BY <1>9, <2>2 DEF Skip
    <3> QED
      BY <2>1, <2>2, <3>1, PassOver
  <2>3. CASE draft[k] # Absent
    <3>1. WriteRow(c, k, draft[k])
      BY <1>9, <2>3 DEF Skip
    <3>2. Step(c) = "stand_down" /\ draft[k] # "on"
      BY <2>1, <2>3 DEF Matches
    <3> QED
      BY <2>1, <3>1, <3>2, LockKeeps
  <2> QED
    BY <2>2, <2>3
<1>10. ASSUME NEW c \in Client, InsertLevel(c) PROVE Inv'
  BY <1>10, InsertLevelKeeps
<1>11. ASSUME NEW c \in Client, InsertMembers(c) PROVE Inv'
  BY <1>11, InsertMembersKeeps
<1>12. ASSUME NEW c \in Client, PassUnique(c) PROVE Inv'
  <2>1. Step(c) = "unique" /\ NextStatement(c) /\ UNCHANGED <<rowVars, shares>> /\ told' = told
    BY <1>12 DEF PassUnique
  <2>2. ~Idle(c)
    BY <2>1, NoStep DEF Names
  <2>3. ~LastStep(c) /\ told' = [d \in Client |-> told'[d]]
    BY <1>1, <2>1, <2>2, Stages DEF TypeOK
  <2> QED
    BY <2>1, <2>2, <2>3, OnwardKeeps
<1>13. ASSUME NEW c \in Client, ViolateUnique(c) PROVE Inv'
  BY <1>13, RolledBack DEF ViolateUnique
<1>14. ASSUME NEW c \in Client, Read(c) PROVE Inv'
  <2> DEFINE list == InOrder(On(c), [k \in Key |-> Seen(c, k)])
  <2>1. Step(c) = "read" /\ ~Idle(c)
    BY <1>14, NoStep DEF Read, Names
  <2>2. CASE LastStep(c)
    <3>1. UNCHANGED rowVars /\ (Finish(c, "NotFound", None) \/ Finish(c, "ok", list))
      BY <1>14, <2>2 DEF Read
    <3> HIDE DEF list
    <3> QED
      BY <2>1, <2>2, <3>1, LastRead
  <2>3. CASE ~LastStep(c)
    <3>1. told' = [told EXCEPT ![c] = list] /\ NextStatement(c) /\ UNCHANGED <<rowVars, shares>>
      BY <1>14, <2>3 DEF Read
    <3> HIDE DEF list
    <3>2. told' = [d \in Client |-> told'[d]]
      BY <1>1, <3>1 DEF TypeOK
    <3> QED
      BY <2>1, <2>3, <3>1, <3>2, OnwardKeeps
  <2> QED
    BY <2>2, <2>3
<1>15. ASSUME NEW c \in Client, Commit(c) PROVE Inv'
  <2>1. CASE LastStep(c)
    BY <1>15, <2>1, Committed DEF Commit
  <2>2. CASE ~LastStep(c)
    BY <1>15, <2>2, CommitOnward DEF Commit
  <2> QED
    BY <2>1, <2>2
<1>16. ASSUME NEW c \in Client, CommitUnheard(c) PROVE Inv'
  BY <1>16, Committed DEF CommitUnheard, Unheard
<1>17. ASSUME NEW c \in Client, Fail(c) PROVE Inv'
  BY <1>17, RolledBack DEF Fail, Unheard
<1>18. ASSUME NEW c \in Client, DeadlockAbort(c) PROVE Inv'
  BY <1>18, RolledBack DEF DeadlockAbort
<1>19. CASE UNCHANGED vars
  <2>1. /\ store' = store /\ draft' = draft /\ holder' = holder /\ shares' = shares
        /\ born' = born /\ request' = request /\ at' = at /\ todo' = todo /\ done' = done
        /\ told' = told /\ answer' = answer /\ overlapped' = overlapped
    BY <1>19 DEF vars
  <2>2. /\ \A c \in Client : /\ Idle(c)' = Idle(c) /\ Step(c)' = Step(c) /\ On(c)' = On(c)
                             /\ Listed(c)' = Listed(c) /\ Dropping(c)' = Dropping(c)
                             /\ Where(c)' = Where(c)
        /\ Activating' = Activating
    BY <2>1 DEF Idle, Step, On, Listed, Dropping, Where, Activating
  <2>3. \A c \in Client : /\ HasLevel(c)' = HasLevel(c) /\ HasWaves(c)' = HasWaves(c)
                          /\ Naming(c)' = Naming(c) /\ Lone(c)' = Lone(c)
    BY <2>1, <2>2 DEF HasLevel, HasWaves, Naming, Lone
  <2>4. TypeOK'
    BY <2>1, <1>1 DEF TypeOK, Idle
  <2>5. RowsAgree'
    BY <2>1, <2>2 DEF Inv, RowsAgree, MembersFollow, ActiveFollow, NamesApart, Untouched, RowsOf
  <2>6. ASSUME NEW c \in Client PROVE Local(c)'
    <3>1. Local(c)
      BY DEF Inv
    <3>2. LocksFit(c)' /\ LevelHeld(c)' /\ WavesShared(c)' /\ SharedStay(c)'
      BY <2>1, <2>2, <2>3, <3>1 DEF Local, LocksFit, MayHold, LevelHeld, WavesShared, SharedStay
    <3>3. ScanFits(c)' /\ Answered(c)'
      BY <2>1, <2>2, <3>1 DEF Local, ScanFits, Answered
    <3>4. MembersGone(c)'
      BY <2>1, <2>2, <3>1 DEF Local, MembersGone, Gone
    <3>5. StoodDown(c)'
      BY <2>1, <2>2, <2>3, <3>1 DEF Local, StoodDown, Quiet
    <3>6. Fresh(c)'
      BY <2>1, <2>2, <2>3, <3>1 DEF Local, Fresh, Untouched, RowsOf
    <3> QED
      BY <3>2, <3>3, <3>4, <3>5, <3>6 DEF Local
  <2> QED
    BY <2>4, <2>5, <2>6 DEF Inv
<1> QED
  BY <1>2, <1>3, <1>4, <1>5, <1>6, <1>7, <1>8, <1>9, <1>10, <1>11, <1>12, <1>13, <1>14,
     <1>15, <1>16, <1>17, <1>18, <1>19 DEF Next

(* Whatever the authors ask for, and however their statements interleave,  *)
(* every lock has its reason and every version its author.                 *)
THEOREM LocksHaveReasons == Spec => []Inv
<1>1. Inv /\ [Next]_vars => Inv'
  BY NextInv
<1> QED
  BY <1>1, InitInv, PTL DEF Spec
-----------------------------------------------------------------------------
(* No request, of whatever list, is ever refused by a constraint of the    *)
(* tables: what update_level, save_level and the deletes lock first makes  *)
(* sure of the rest (content/adapters/postgres.py).                        *)
THEOREM NoRuleIsReached == Spec => []RulesNeverReached
<1>1. Inv => RulesNeverReached
  <2> SUFFICES ASSUME Inv, NEW c \in Client
               PROVE  /\ answer[c] # None => answer[c].said # "Rejected"
                      /\ Step(c) = "members" => ~BreaksRule(c)
    BY DEF RulesNeverReached
  <2>1. Answered(c)
    BY DEF Inv, Local
  <2> QED
    BY <2>1, RulesHold DEF Answered
<1> QED
  BY <1>1, LocksHaveReasons, PTL
-----------------------------------------------------------------------------
(* Who waits for whom, and what the one that waits has locked meanwhile.   *)
LocksNothing(c) == (\A k \in Key : holder[k] # c) /\ shares[c] = {}

AtLevel(c, b) == ~Dropping(c) /\ c \notin Activating /\ LocksNothing(c) /\ holder[On(c)] = b

AtWaves(c, b) ==
  ~Dropping(c) /\ c \notin Activating /\ Step(c) = "waves" /\ Dropping(b)

AtMembers(c, b) ==
  /\ HasLevel(c) /\ Dropping(b)
  /\ \E w \in Wave : holder[<<On(c), w>>] = b /\ holder[w] = b

AtSwitch(c, b) == c \in Activating /\ \E l \in Level : holder[l] = b

AtWave(c, b) ==
  /\ Dropping(c) /\ Step(c) = "drop"
  /\ \E w \in Listed(c) \ done[c] : holder[w] = b \/ w \in shares[b]

AtLeave(c, b) ==
  /\ Dropping(c) /\ HasLevel(b) /\ Step(b) # "waves"
  /\ \E w \in Wave : holder[<<On(b), w>>] = b /\ holder[w] = c

(* What is locked tells whose it is. *)
LEMMA Holders ==
  ASSUME Inv, NEW b \in Client
  PROVE  /\ \A k \in Level : holder[k] = b => ~Idle(b) /\ ~Dropping(b)
         /\ \A k \in Wave : holder[k] = b => Dropping(b) /\ k \in Listed(b)
         /\ \A k \in Wave : holder[k] = b /\ Step(b) = "drop" => k \in done[b]
         /\ \A k \in Level \X Wave : holder[k] = b =>
              \/ k[1] = On(b) /\ HasLevel(b) /\ Step(b) # "waves"
              \/ Dropping(b) /\ Step(b) # "drop" /\ holder[k[2]] = b
         /\ shares[b] # {} => ~Dropping(b) /\ b \notin Activating /\ ~Idle(b)
         /\ HasLevel(b) => /\ ~Dropping(b) /\ b \notin Activating
                           /\ On(b) \in Level /\ holder[On(b)] = b
<1>1. TypeOK /\ Local(b)
  BY DEF Inv
<1>2. ASSUME NEW k \in Key, holder[k] = b PROVE MayHold(b, k)
  BY <1>1, <1>2 DEF Local, LocksFit
<1>3. HasLevel(b) => ~Dropping(b) /\ b \notin Activating /\ On(b) \in Level /\ holder[On(b)] = b
  <2> SUFFICES ASSUME HasLevel(b) PROVE ~Dropping(b) /\ b \notin Activating /\ On(b) \in Level /\ holder[On(b)] = b
    OBVIOUS
  <2>1. request[b].op \in {"create", "update", "delete"} /\ request[b] \in Requests
    BY <1>1 DEF HasLevel, TypeOK, Idle
  <2>2. On(b) \in Level
    BY <2>1, Asked DEF On
  <2> QED
    BY <1>1, <2>1, <2>2 DEF Dropping, Activating, Local, LevelHeld
<1>4. ASSUME NEW k \in Level, holder[k] = b PROVE ~Idle(b) /\ ~Dropping(b)
  <2>1. MayHold(b, k) /\ k \notin Wave /\ k \notin Level \X Wave
    BY <1>2, <1>4, Keys
  <2>2. Step(b) \in {"rename", "remove"} => ~Idle(b)
    BY NoStep DEF Names
  <2>3. ~Idle(b) /\ Step(b) \in {"rename", "remove"} => ~Dropping(b)
    BY <1>1, Stages DEF Dropping
  <2> QED
    BY <1>3, <2>1, <2>2, <2>3 DEF MayHold, Activating, Dropping, HasLevel
<1>5. ASSUME NEW k \in Wave, holder[k] = b
      PROVE  Dropping(b) /\ k \in Listed(b) /\ (Step(b) = "drop" => k \in done[b])
  <2>1. MayHold(b, k) /\ k \notin Level /\ k \notin Level \X Wave
    BY <1>2, <1>5, Keys
  <2> QED
    BY <2>1 DEF MayHold
<1>6. ASSUME NEW k \in Level \X Wave, holder[k] = b
      PROVE  \/ k[1] = On(b) /\ HasLevel(b) /\ Step(b) # "waves"
             \/ Dropping(b) /\ Step(b) # "drop" /\ holder[k[2]] = b
  <2>1. MayHold(b, k) /\ k \notin Level /\ k \notin Wave
    BY <1>2, <1>6, Keys
  <2> QED
    BY <1>3, <2>1 DEF MayHold
<1>7. shares[b] # {} => ~Dropping(b) /\ b \notin Activating /\ ~Idle(b)
  <2> SUFFICES ASSUME shares[b] # {} PROVE ~Dropping(b) /\ b \notin Activating /\ ~Idle(b)
    OBVIOUS
  <2>1. HasWaves(b) \/ Step(b) = "waves"
    BY <1>1 DEF Local, SharedStay
  <2>2. ~Idle(b)
    BY <2>1, NoStep DEF HasWaves, Names
  <2>3. request[b].op \in {"create", "update"}
    BY <1>1, <2>1, <2>2, Stages DEF HasWaves
  <2> QED
    BY <2>2, <2>3 DEF Dropping, Activating
<1> QED
  BY <1>3, <1>4, <1>5, <1>6, <1>7

LEMMA Waiting ==
  ASSUME Inv, NEW b \in Client, NEW c \in Client, WaitsFor(c, b)
  PROVE  /\ ~Idle(c) /\ c # b /\ ~LocksNothing(b)
         /\ \/ AtLevel(c, b) \/ AtWaves(c, b) \/ AtMembers(c, b)
            \/ AtSwitch(c, b) \/ AtWave(c, b) \/ AtLeave(c, b)
<1>1. TypeOK /\ Local(c)
  BY DEF Inv
<1>2. CASE Contests(b, c)
  <2>1. Step(c) = "unique" /\ c # b /\ \E l \in Level : holder[l] = b
    BY <1>2 DEF Contests
  <2>2. ~Idle(c)
    BY <2>1, NoStep DEF Names
  <2>3. c \in Activating
    BY <1>1, <2>1, <2>2, Stages DEF Activating
  <2> QED
    BY <2>1, <2>2, <2>3, Keys DEF AtSwitch, LocksNothing
<1>3. CASE HoldsUp(b, c)
  <2>1. Step(c) = "members" /\ c # b /\ \E k \in Touched(c) : holder[k] = b
    BY <1>3 DEF HoldsUp
  <2>2. ~Idle(c)
    BY <2>1, NoStep DEF Names
  <2>3. HasLevel(c) /\ HasWaves(c)
    BY <1>1, <2>1, <2>2, Stages DEF HasLevel, HasWaves
  <2>4. On(c) \in Level /\ holder[On(c)] = c
    BY <2>3, Holders
  <2>5. PICK k \in Touched(c) : holder[k] = b
    BY <2>1
  <2>6. k \notin Listed(c)
    BY <1>1, <2>3, <2>5, ConstantsAssumption DEF Local, WavesShared, SharedStay
  <2>7. PICK w \in Wave : k = <<On(c), w>>
    BY <2>5, <2>6 DEF Touched
  <2>8. k \in Level \X Wave /\ k[1] = On(c) /\ k[2] = w /\ k \in Key
    BY <2>4, <2>7, Keys
  <2>9. Dropping(b) /\ holder[w] = b
    BY <2>1, <2>4, <2>5, <2>8, Holders
  <2> QED
    BY <2>1, <2>2, <2>3, <2>5, <2>7, <2>8, <2>9 DEF AtMembers, LocksNothing
<1>4. ASSUME ~Idle(c), todo[c] # None, NEW k \in todo[c], Blocks(b, c, k)
      PROVE  /\ ~Idle(c) /\ c # b /\ ~LocksNothing(b)
             /\ \/ AtLevel(c, b) \/ AtWaves(c, b) \/ AtMembers(c, b)
                \/ AtSwitch(c, b) \/ AtWave(c, b) \/ AtLeave(c, b)
  <2>1. /\ b # c /\ (holder[k] = b \/ (Step(c) = "drop" /\ k \in shares[b]))
        /\ k \in Key /\ k \in Where(c) /\ Step(c) \in Scanning
        /\ Step(c) = "leave" => k \in Level \X Wave
        /\ Step(c) \in {"rename", "remove", "drop"} => k \notin done[c]
        /\ Step(c) \in {"rename", "remove"} => done[c] \subseteq {On(c)}
    BY <1>1, <1>4 DEF Blocks, TypeOK, Local, ScanFits
  <2>2. ~LocksNothing(b)
    BY <2>1 DEF LocksNothing
  <2>3. /\ Step(c) \in {"waves", "drop"} => k \in Listed(c)
        /\ Step(c) \in {"rename", "set_on", "remove"} => k = On(c)
        /\ Step(c) = "stand_down" => k \in Level
        /\ Step(c) = "leave" /\ Dropping(c) => k[2] \in done[c]
        /\ Step(c) = "clear" => k \in {On(c)} \X Wave
        /\ Step(c) = "leave" /\ ~Dropping(c) => k[1] = On(c)
    <3>1. /\ Step(c) \in {"waves", "drop"} => Where(c) = Listed(c)
          /\ Step(c) \in {"rename", "set_on", "remove"} => Where(c) = {On(c)}
          /\ Step(c) = "stand_down" => Where(c) = Level
          /\ Step(c) = "leave" /\ Dropping(c) => Where(c) = Level \X done[c]
          /\ Step(c) = "clear" => Where(c) = {On(c)} \X Wave
          /\ Step(c) = "leave" /\ ~Dropping(c) => Where(c) = {On(c)} \X Wave
      BY DEF Where
    <3> QED
      BY <2>1, <3>1
  <2>4. Listed(c) \subseteq Wave
    BY <1>1, <1>4, Asked DEF TypeOK, Idle, Listed
  <2>5. CASE Step(c) \in {"rename", "remove"}
    <3>1. \/ request[c].op = "update" /\ Step(c) = "rename"
          \/ request[c].op = "delete" /\ Step(c) = "remove"
      BY <1>1, <1>4, <2>5, Stages
    <3>2. ~Dropping(c) /\ c \notin Activating /\ ~HasLevel(c) /\ ~HasWaves(c)
      BY <2>5, <3>1 DEF Dropping, Activating, HasLevel, HasWaves
    <3>3. On(c) \in Level
      BY <1>1, <1>4, <3>1, Asked DEF TypeOK, Idle, On
    <3>4. done[c] = {}
      BY <2>1, <2>3, <2>5
    <3>5. \A j \in Key : holder[j] # c
      BY <1>1, <3>2, <3>4 DEF Local, LocksFit, MayHold
    <3>6. shares[c] = {}
      BY <1>1, <2>5, <3>2 DEF Local, SharedStay
    <3> QED
      BY <1>4, <2>1, <2>2, <2>3, <2>5, <3>2, <3>5, <3>6 DEF AtLevel, LocksNothing
  <2>6. CASE Step(c) = "waves"
    <3>1. request[c].op \in {"create", "update"}
      BY <1>1, <1>4, <2>6, Stages
    <3>2. ~Dropping(c) /\ c \notin Activating
      BY <3>1 DEF Dropping, Activating
    <3>3. k \in Wave /\ holder[k] = b
      BY <2>1, <2>3, <2>4, <2>6
    <3> QED
      BY <1>4, <2>1, <2>2, <2>6, <3>2, <3>3, Holders DEF AtWaves
  <2>7. CASE Step(c) \in {"set_on", "stand_down"}
    <3>1. c \in Activating
      BY <1>1, <1>4, <2>7, Stages DEF Activating
    <3>2. k \in Level
      BY <1>1, <1>4, <2>3, <2>7, <3>1, Asked DEF TypeOK, Idle, On, Activating
    <3> QED
      BY <1>4, <2>1, <2>2, <2>7, <3>1, <3>2 DEF AtSwitch
  <2>8. CASE Step(c) = "drop"
    <3>1. Dropping(c)
      BY <1>1, <1>4, <2>8, Stages DEF Dropping
    <3> QED
      BY <1>4, <2>1, <2>2, <2>3, <2>8, <3>1 DEF AtWave
  <2>9. CASE Step(c) = "leave" /\ Dropping(c)
    <3>1. k[2] \in done[c] /\ k \in Level \X Wave /\ holder[k] = b
      BY <2>1, <2>3, <2>9
    <3>2. holder[k[2]] = c /\ k = <<k[1], k[2]>> /\ k[2] \in Wave
      BY <1>1, <2>9, <3>1 DEF Local, ScanFits
    <3>3. k[1] = On(b) /\ HasLevel(b) /\ Step(b) # "waves"
      BY <2>1, <3>1, <3>2, Holders
    <3>4. holder[<<On(b), k[2]>>] = b
      BY <3>1, <3>2, <3>3
    <3> QED
      BY <1>4, <2>1, <2>2, <2>9, <3>2, <3>3, <3>4 DEF AtLeave
  <2>10. CASE Step(c) = "clear" \/ (Step(c) = "leave" /\ ~Dropping(c))
    <3>1. HasLevel(c)
      BY <1>1, <1>4, <2>10, Stages DEF HasLevel, Dropping
    <3>2. On(c) \in Level /\ holder[On(c)] = c
      BY <3>1, Holders
    <3>3. k \in Level \X Wave /\ k[1] = On(c) /\ holder[k] = b
      BY <2>1, <2>3, <2>10, <3>2
    <3>4. Dropping(b) /\ holder[k[2]] = b
      BY <2>1, <3>2, <3>3, Holders
    <3>5. k = <<On(c), k[2]>> /\ k[2] \in Wave
      BY <3>3
    <3>6. holder[<<On(c), k[2]>>] = b
      BY <3>3, <3>5
    <3> QED
      BY <1>4, <2>1, <2>2, <3>1, <3>4, <3>5, <3>6 DEF AtMembers
  <2> QED
    BY <2>1, <2>5, <2>6, <2>7, <2>8, <2>9, <2>10 DEF Scanning
<1> QED
  BY <1>2, <1>3, <1>4 DEF WaitsFor

(* Two by two, somebody who waits has nothing the other could want: the    *)
(* locks are taken level, waves, members, and a deleted wave before its    *)
(* members.                                                                *)
LEMMA NotEachOther ==
  ASSUME Inv, NEW b \in Client, NEW c \in Client, WaitsFor(b, c), WaitsFor(c, b)
  PROVE  \/ {b, c} \subseteq Activating
         \/ "batch" \in {request[b].op, request[c].op}
<1> SUFFICES ASSUME request[b].op # "batch", request[c].op # "batch",
                    ~({b, c} \subseteq Activating)
             PROVE  FALSE
  OBVIOUS
<1>1. TypeOK /\ b # c /\ ~Idle(b) /\ ~Idle(c) /\ ~LocksNothing(b) /\ ~LocksNothing(c)
  BY Waiting DEF Inv
(* Of single deletes: the one wave is locked, or nothing is. *)
<1>2. ASSUME NEW d \in Client, ~Idle(d), request[d].op # "batch", Dropping(d)
      PROVE  /\ \E w \in Wave : Listed(d) = {w}
             /\ d \notin Activating /\ ~HasLevel(d) /\ shares[d] = {}
  <2>1. request[d] \in Requests /\ request[d].op = "drop"
    BY <1>1, <1>2 DEF TypeOK, Idle, Dropping
  <2> QED
    BY <1>2, <2>1, Asked, Holders DEF Listed, Activating
<1>3. ASSUME NEW d \in Client, ~Idle(d), request[d].op # "batch", Dropping(d),
             Step(d) = "drop", ~(Listed(d) \subseteq done[d])
      PROVE  LocksNothing(d)
  <2>1. PICK w \in Wave : Listed(d) = {w}
    BY <1>2, <1>3
  <2>2. w \notin done[d]
    BY <1>3, <2>1
  <2>3. \A k \in Key : holder[k] # d
    BY <1>2, <1>3, <2>1, <2>2, Holders DEF Key
  <2> QED
    BY <1>2, <1>3, <2>3 DEF LocksNothing
<1>4. ~AtLevel(b, c) /\ ~AtLevel(c, b)
  BY <1>1 DEF AtLevel
<1>5. ~AtWave(b, c) /\ ~AtWave(c, b)
  BY <1>1, <1>3 DEF AtWave
<1>6. ASSUME NEW d \in Client, NEW e \in Client, ~Idle(d), ~Idle(e),
             request[d].op # "batch", request[e].op # "batch",
             Dropping(d), AtLeave(d, e)
      PROVE  ~AtMembers(e, d)
  <2> SUFFICES ASSUME AtMembers(e, d) PROVE FALSE
    OBVIOUS
  <2>1. PICK w \in Wave : Listed(d) = {w}
    BY <1>2, <1>6
  <2>2. PICK v \in Wave : holder[<<On(e), v>>] = e /\ holder[v] = d
    BY <1>6 DEF AtLeave
  <2>3. PICK u \in Wave : holder[<<On(e), u>>] = d /\ holder[u] = d
    BY DEF AtMembers
  <2>4. v = w /\ u = w
    BY <2>1, <2>2, <2>3, Holders
  <2>5. d # e
    BY <1>2, <1>6 DEF AtLeave
  <2> QED
    BY <2>2, <2>3, <2>4, <2>5
<1>7. ASSUME NEW d \in Client, NEW e \in Client, ~Idle(d), ~Idle(e),
             request[d].op # "batch", request[e].op # "batch",
             AtLeave(d, e), AtWaves(e, d) \/ AtMembers(e, d) \/ AtSwitch(e, d) \/ AtLeave(e, d)
      PROVE  FALSE
  <2>1. HasLevel(e) /\ ~Dropping(e) /\ e \notin Activating /\ Step(e) # "waves" /\ Dropping(d)
    BY <1>7, Holders DEF AtLeave
  <2> QED
    BY <1>6, <1>7, <2>1 DEF AtWaves, AtSwitch, AtLeave
<1>8. /\ AtWaves(b, c) \/ AtMembers(b, c) \/ AtSwitch(b, c) \/ AtLeave(b, c)
      /\ AtWaves(c, b) \/ AtMembers(c, b) \/ AtSwitch(c, b) \/ AtLeave(c, b)
  BY <1>4, <1>5, Waiting
<1>9. ~AtLeave(b, c) /\ ~AtLeave(c, b)
  BY <1>1, <1>7, <1>8
<1>10. ASSUME NEW d \in Client, NEW e \in Client, AtWaves(d, e) \/ AtMembers(d, e)
       PROVE  ~AtWaves(e, d) /\ ~AtMembers(e, d) /\ ~AtSwitch(e, d)
  <2>1. Dropping(e) /\ ~Dropping(d)
    BY <1>10, Holders DEF AtWaves, AtMembers
  <2> QED
    BY <2>1, Holders DEF AtWaves, AtMembers, AtSwitch, Activating, Dropping
<1>11. AtSwitch(b, c) /\ AtSwitch(c, b)
  BY <1>8, <1>9, <1>10
<1> QED
  BY <1>11 DEF AtSwitch

(* Two requests wait for each other only when both activate a level or one *)
(* of them is a batch delete: whatever the lists, a replacement, a create, *)
(* a delete and a single wave's delete never do.                           *)
THEOREM WaitsAreKnown == Spec => []DeadlocksAreKnown
<1>1. Inv => DeadlocksAreKnown
  BY NotEachOther DEF DeadlocksAreKnown
<1> QED
  BY <1>1, LocksHaveReasons, PTL
-----------------------------------------------------------------------------
(* A lone activation is in no ring: whoever waits for it has nothing.      *)
LEMMA LoneOnNoCycle ==
  ASSUME Inv, NEW c \in Client, Lone(c)
  PROVE  ~OnCycle(c)
<1> SUFFICES ASSUME OnCycle(c) PROVE FALSE
  OBVIOUS
<1>1. PICK S \in SUBSET Client :
        /\ c \in S
        /\ \E order \in [S -> S] :
             /\ \A a \in S : WaitsFor(a, order[a])
             /\ {order[a] : a \in S} = S
  BY DEF OnCycle, CycleThrough
<1>2. PICK order \in [S -> S] :
        (\A a \in S : WaitsFor(a, order[a])) /\ {order[a] : a \in S} = S
  BY <1>1
<1>3. PICK a \in S : order[a] = c
  BY <1>1, <1>2
<1>4. PICK e \in S : order[e] = a
  BY <1>2, <1>3
<1>5. a \in Client /\ e \in Client /\ WaitsFor(a, c) /\ WaitsFor(e, a)
  BY <1>2, <1>3, <1>4
<1>6. c \in Activating /\ Activating \subseteq {c} /\ ~Dropping(c)
  BY DEF Inv, Local, StoodDown, Lone, Activating, Dropping
<1>7. ~HasLevel(c) /\ shares[c] = {} /\ \A w \in Wave : holder[w] # c
  BY <1>6, Holders
<1>8. ~LocksNothing(a) /\ a # c
  BY <1>5, Waiting
<1>9. ~AtWave(a, c)
  <2>1. Dropping(a) => Listed(a) \subseteq Wave
    BY <1>5, Asked DEF Inv, TypeOK, Idle, Dropping, Listed
  <2> QED
    BY <1>7, <2>1 DEF AtWave
<1>10. ~AtWaves(a, c) /\ ~AtMembers(a, c) /\ ~AtSwitch(a, c) /\ ~AtLeave(a, c)
  BY <1>6, <1>7, <1>8 DEF AtWaves, AtMembers, AtSwitch, AtLeave
<1> QED
  BY <1>5, <1>8, <1>9, <1>10, Waiting DEF AtLevel

(* An activation that meets no other activation is never refused: nothing  *)
(* it has stood down is active when the index looks (activate_level).      *)
THEOREM LoneIsNotRefused == Spec => LoneActivationWorks
<1>1. ASSUME Inv, [Next]_vars, NEW c \in Activating \ overlapped,
             answer'[c] # answer[c], answer'[c] # None
      PROVE  answer'[c].said # "error"
  <2>1. TypeOK /\ c \in Client /\ Lone(c) /\ ~Idle(c)
    BY <1>1 DEF Inv, Lone, Activating
  <2>2. ~(UNCHANGED answer)
    BY <1>1
  <2>3. \A w \in Wave : ~SaveWave(w)
    BY <2>2 DEF SaveWave
  <2>4. \A d \in Client, r \in Requests : ~Receive(d, r)
    <3> SUFFICES ASSUME NEW d \in Client, NEW r \in Requests, Receive(d, r) PROVE FALSE
      OBVIOUS
    <3>1. answer' = [answer EXCEPT ![d] = None] /\ Idle(d)
      BY DEF Receive
    <3> QED
      BY <1>1, <2>1, <3>1 DEF TypeOK
  <2>5. \A d \in Client : ~Scan(d) /\ ~Scanned(d) /\ ~InsertLevel(d) /\ ~PassUnique(d)
    BY <2>2 DEF Scan, Scanned, InsertLevel, PassUnique, NextStatement
  <2>6. \A d \in Client, k \in Key : ~WriteFound(d, k) /\ ~ShareFound(d, k) /\ ~Skip(d, k)
    BY <2>2 DEF WriteFound, ShareFound, Skip, Treated
  <2>7. ASSUME NEW d \in Client, NEW a, NEW list, Finish(d, a, list)
        PROVE  d = c /\ answer'[c].said = a
    <3>1. answer' = [answer EXCEPT ![d] = IF a = Unheard THEN None ELSE [said |-> a, waves |-> list]]
      BY <2>7 DEF Finish
    <3> QED
      BY <1>1, <2>1, <3>1 DEF TypeOK
  <2>8. ASSUME NEW d \in Client, Refuse(d) PROVE answer'[c].said # "error"
    BY <2>7, <2>8 DEF Refuse, Rollback
  <2>9. \A d \in Client : ~InsertMembers(d)
    BY <1>1, <2>2, RulesHold DEF InsertMembers, NextStatement
  <2>10. \A d \in Client : ~ViolateUnique(d)
    <3> SUFFICES ASSUME NEW d \in Client, ViolateUnique(d) PROVE FALSE
      OBVIOUS
    <3>1. d = c
      BY <2>7 DEF ViolateUnique, Rollback
    <3>2. Step(c) = "unique" /\ OtherActive(c)
      BY <3>1 DEF ViolateUnique
    <3>3. \A l \in Level : Quiet(c, l) \/ l = On(c)
      BY <1>1, <2>1, <3>2 DEF Inv, Local, StoodDown
    <3> QED
      BY <3>2, <3>3 DEF OtherActive, Quiet
  <2>11. ASSUME NEW d \in Client, Read(d) PROVE answer'[c].said # "error"
    <3> DEFINE list == InOrder(On(d), [k \in Key |-> Seen(d, k)])
    <3>1. CASE LastStep(d)
      <4>1. Finish(d, "NotFound", None) \/ Finish(d, "ok", list)
        BY <2>11, <3>1 DEF Read
      <4> HIDE DEF list
      <4> QED
        BY <2>7, <4>1
    <3>2. CASE ~LastStep(d)
      BY <2>2, <2>11, <3>2 DEF Read, NextStatement
    <3> QED
      BY <3>1, <3>2
  <2>12. ASSUME NEW d \in Client, Commit(d) PROVE answer'[c].said # "error"
    BY <2>2, <2>7, <2>12 DEF Commit, NextStatement
  <2>13. ASSUME NEW d \in Client, CommitUnheard(d) \/ Fail(d) PROVE answer'[c].said # "error"
    BY <2>7, <2>13 DEF CommitUnheard, Fail, Rollback, Unheard
  <2>14. \A d \in Client : ~DeadlockAbort(d)
    BY <1>1, <2>1, <2>7, LoneOnNoCycle DEF DeadlockAbort, Rollback
  <2> QED
    BY <1>1, <2>2, <2>3, <2>4, <2>5, <2>6, <2>8, <2>9, <2>10, <2>11, <2>12, <2>13, <2>14
    DEF Next, vars
<1>2. Inv /\ [Next]_vars =>
        [\A c \in Activating \ overlapped :
           answer'[c] # answer[c] /\ answer'[c] # None => answer'[c].said # "error"]_vars
  BY <1>1
<1> QED
  BY <1>2, LocksHaveReasons, PTL DEF Spec, LoneActivationWorks
=============================================================================
