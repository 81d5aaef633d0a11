---------------------------- MODULE LevelBook_proofs ----------------------------
(***************************************************************************)
(* Levels implements LevelBook, for any number of authors, levels and waves*)
(* and whatever the lists: every request takes place in one step, its      *)
(* commit, or is refused at a moment when the refusal is true.             *)
(*                                                                         *)
(* What a commit does to the book is what the request's statements have    *)
(* written by then, so the invariant of Levels_proofs goes on: it says what*)
(* the rows a request has locked are (Writes), what it will tell (Tells),  *)
(* and that whoever is about to commit an activation is alone in that.     *)
(***************************************************************************)
EXTENDS Levels_proofs, Numbers

(* The rows of a level's waves are a list. *)
Here(version, l) == {w \in Wave : version[<<l, w>>] # Absent}
Placed(version, l) ==
  /\ IsFiniteSet(Here(version, l))
  /\ \A w \in Here(version, l) : version[<<l, w>>] \in Nat
  /\ \A v, w \in Here(version, l) : version[<<l, v>>] = version[<<l, w>>] => v = w

StoredAreLists == \A l \in Level : store[l] # Absent => Placed(store, l)

(* A member nobody has committed is one of a request that shares the wave. *)
MembersAreShared ==
  \A l \in Level, w \in Wave :
    draft[<<l, w>>] # Absent /\ store[<<l, w>>] = Absent =>
      holder[l] \in Client /\ w \in shares[holder[l]]

Replacing(c) == ~Idle(c) /\ request[c].op \in {"create", "update"}

(* What a request has made of its level's row. *)
LevelWritten(c) ==
  /\ (HasLevel(c) /\ request[c].op = "create") =>
       store[On(c)] = Absent /\ draft[On(c)] = "off"
  /\ HasLevel(c) \/ (Step(c) \in {"rename", "remove"} /\ On(c) \in done[c]) =>
       /\ request[c].op = "update" => store[On(c)] # Absent /\ draft[On(c)] = store[On(c)]
       /\ request[c].op = "delete" => store[On(c)] # Absent /\ draft[On(c)] = Absent
  /\ c \in Activating => \A l \in Level : holder[l] = c => store[l] # Absent /\ draft[l] # Absent

(* The list is the one that was asked for, once it has been inserted. *)
MembersWritten(c) ==
  Replacing(c) /\ Step(c) \in {"read", "commit"} =>
    \A w \in Wave :
      LET k == <<On(c), w>>
      IN IF w \in Listed(c) THEN holder[k] = c /\ draft[k] = Position(c, w) ELSE Gone(c, k)

(* Nobody else's level will be active when an activation commits. *)
AloneActive(c) ==
  /\ (c \in Activating /\ Step(c) \in {"unique", "commit"})
       \/ (Step(c) = "set_on" /\ On(c) \in done[c]) =>
       holder[On(c)] = c /\ draft[On(c)] = "on"
  /\ Step(c) = "commit" /\ c \in Activating =>
       /\ \A l \in Level \ {On(c)} : IF holder[l] = c THEN draft[l] # "on" ELSE store[l] # "on"
       /\ \A d \in Activating : Step(d) = "commit" => d = c

(* Waves that are being deleted, and their places in levels. *)
WavesDropped(c) ==
  Dropping(c) =>
    /\ \A w \in Wave : holder[w] = c => store[w] # Absent /\ draft[w] = Absent
    /\ Step(c) \in {"drop", "leave"} => done[c] \cap Wave \subseteq Listed(c)
    /\ Step(c) = "leave" /\ todo[c] # None =>
         \A l \in Level, w \in done[c] \cap Wave : <<l, w>> \in todo[c] \/ Gone(c, <<l, w>>)
    /\ Step(c) = "commit" =>
         \A w \in Listed(c) : holder[w] = c /\ \A l \in Level : Gone(c, <<l, w>>)

Tells(c) ==
  IF Replacing(c) /\ Step(c) = "commit" THEN told[c] = request[c].waves ELSE told[c] = None

Writes(c) ==
  LevelWritten(c) /\ MembersWritten(c) /\ AloneActive(c) /\ WavesDropped(c) /\ Tells(c)

BookInv == StoredAreLists /\ MembersAreShared /\ \A c \in Client : Writes(c)
-----------------------------------------------------------------------------
(* What a step of c's request leaves alone, seen from the others.          *)
RowsByItself(c) ==
  \A k \in Key :
    /\ holder[k] \notin {Nobody, c} =>
         store'[k] = store[k] /\ draft'[k] = draft[k] /\ holder'[k] = holder[k]
    /\ holder'[k] \in {holder[k], c, Nobody}
    /\ store'[k] # store[k] =>
         Step(c) = "commit" /\ holder[k] = c /\ store'[k] = draft[k] /\ draft'[k] = draft[k]
    /\ k \in Level \X Wave =>
         \/ draft'[k] \in {store[k], draft[k], Absent}
         \/ k[2] \in shares[c] /\ holder[k[1]] = c

OthersSame(c) ==
  \A d \in Client \ {c} :
    /\ request'[d] = request[d] /\ at'[d] = at[d] /\ todo'[d] = todo[d]
    /\ done'[d] = done[d] /\ shares'[d] = shares[d] /\ told'[d] = told[d]

EndsOrKeeps(c) ==
  \/ \A k \in Key : holder'[k] # c
  \/ /\ store' = store /\ shares[c] \subseteq shares'[c]
     /\ \A k \in Key : holder[k] = c => holder'[k] = c

CommitsAlone(c) ==
  c \in Activating' /\ Step(c)' = "commit" =>
    \/ c \in Activating /\ Step(c) = "commit"
    \/ Step(c) = "unique" /\ \A b \in Client : ~Contests(b, c)

ByItself(c) == RowsByItself(c) /\ OthersSame(c) /\ EndsOrKeeps(c) /\ CommitsAlone(c)

(* An end leaves the other requests as they were. *)
LEMMA FinishSame ==
  ASSUME Inv, NEW c \in Client, NEW a, NEW list, Finish(c, a, list)
  PROVE  /\ OthersSame(c) /\ CommitsAlone(c) /\ Idle(c)' /\ Step(c)' \notin Names
         /\ request'[c] = None /\ told'[c] = None /\ shares'[c] = {}
         /\ c \notin Activating'
<1>1. TypeOK
  BY DEF Inv
<1>2. /\ request'[c] = None /\ told'[c] = None /\ shares'[c] = {}
      /\ \A d \in Client \ {c} :
           /\ request'[d] = request[d] /\ at'[d] = at[d] /\ todo'[d] = todo[d]
           /\ done'[d] = done[d] /\ shares'[d] = shares[d] /\ told'[d] = told[d]
  BY <1>1 DEF Finish, TypeOK
<1>3. Idle(c)' /\ Step(c)' = None /\ c \notin Activating'
  BY <1>2 DEF Idle, Step, Activating
<1> QED
  BY <1>2, <1>3, NoName DEF OthersSame, CommitsAlone

(* Going on to the next statement leaves the other requests as they were. *)
LEMMA NextSame ==
  ASSUME Inv, NEW c \in Client, NextStatement(c), ~Idle(c), ~LastStep(c),
         \A d \in Client \ {c} : shares'[d] = shares[d] /\ told'[d] = told[d],
         Step(c) = "unique" => \A b \in Client : ~Contests(b, c)
  PROVE  OthersSame(c) /\ CommitsAlone(c)
<1>1. OthersSame(c)
  <2>1. request' = request /\ \A d \in Client \ {c} : at'[d] = at[d] /\ todo'[d] = todo[d] /\ done'[d] = done[d]
    BY Onward
  <2> QED
    BY <2>1 DEF OthersSame
<1>2. ASSUME c \in Activating', Step(c)' = "commit" PROVE Step(c) = "unique"
  <2>1. request' = request /\ at'[c] = at[c] + 1 /\ Activating' = Activating
    BY Onward
  <2>2. request[c].op = "activate"
    BY <1>2, <2>1 DEF Activating
  <2>3. <<Step(c), Step(c)'>> \in {<<"stand_down", "set_on">>, <<"set_on", "unique">>,
                                   <<"unique", "commit">>, <<"commit", "read">>}
    BY <2>1, <2>2, NextStage DEF Inv
  <2> DEFINE t == Step(c)'
  <2>4. t = "commit"
    BY <1>2
  <2> HIDE DEF t
  <2> QED
    BY <2>3, <2>4 DEF t
<1>3. CommitsAlone(c)
  BY <1>2 DEF CommitsAlone
<1> QED
  BY <1>1, <1>3

(* The ways rows change: not at all, a commit, a rollback, one row written. *)
LEMMA KeptByItself ==
  ASSUME Inv, NEW c \in Client, UNCHANGED rowVars
  PROVE  RowsByItself(c)
<1>1. store' = store /\ draft' = draft /\ holder' = holder
  BY DEF rowVars
<1> QED
  BY <1>1 DEF RowsByItself

(* A commit makes the newest version of what it holds the committed one. *)
LEMMA CommitByItself ==
  ASSUME Inv, NEW c \in Client, CommitRows(c), Step(c) = "commit"
  PROVE  /\ RowsByItself(c) /\ EndsOrKeeps(c)
         /\ \A k \in Key : /\ store'[k] = IF holder[k] = c THEN draft[k] ELSE store[k]
                           /\ draft'[k] = draft[k]
                           /\ holder'[k] = IF holder[k] = c THEN Nobody ELSE holder[k]
<1>1. c # Nobody
  BY ConstantsAssumption
<1>2. \A k \in Key : /\ store'[k] = IF holder[k] = c THEN draft[k] ELSE store[k]
                     /\ draft'[k] = draft[k]
                     /\ holder'[k] = IF holder[k] = c THEN Nobody ELSE holder[k]
  BY DEF CommitRows, Released
<1> QED
  BY <1>1, <1>2 DEF RowsByItself, EndsOrKeeps

(* A rollback leaves what is committed, and lets go. *)
LEMMA RollbackByItself ==
  ASSUME Inv, NEW c \in Client, RollbackRows(c)
  PROVE  RowsByItself(c) /\ EndsOrKeeps(c)
<1>1. c # Nobody
  BY ConstantsAssumption
<1>2. \A k \in Key : /\ draft'[k] = IF holder[k] = c THEN store[k] ELSE draft[k]
                     /\ store'[k] = store[k]
                     /\ holder'[k] = IF holder[k] = c THEN Nobody ELSE holder[k]
  BY DEF RollbackRows, Released
<1> QED
  BY <1>1, <1>2 DEF RowsByItself, EndsOrKeeps

(* One row written, and kept. *)
LEMMA WriteByItself ==
  ASSUME Inv, NEW c \in Client, NEW k \in Key, NEW v, WriteRow(c, k, v), holder[k] \in {Nobody, c},
         k \in Level \X Wave => v = Absent
  PROVE  /\ RowsByItself(c) /\ store' = store
         /\ \A j \in Key : holder[j] = c => holder'[j] = c
         /\ draft'[k] = v /\ holder'[k] = c
         /\ \A j \in Key \ {k} : draft'[j] = draft[j] /\ holder'[j] = holder[j]
<1>1. store' = store /\ draft' = [draft EXCEPT ![k] = v] /\ holder' = [holder EXCEPT ![k] = c]
  BY DEF WriteRow
<1>2. /\ draft'[k] = v /\ holder'[k] = c
      /\ \A j \in Key \ {k} : draft'[j] = draft[j] /\ holder'[j] = holder[j]
  BY <1>1 DEF Inv, TypeOK
<1> QED
  BY <1>1, <1>2 DEF RowsByItself
-----------------------------------------------------------------------------
(* What a request has written stays while the others take their steps.     *)
LEMMA HeldStays ==
  ASSUME Inv, NEW c \in Client, ByItself(c), NEW d \in Client \ {c}, NEW k \in Key
  PROVE  /\ holder[k] = d => store'[k] = store[k] /\ draft'[k] = draft[k] /\ holder'[k] = d
         /\ holder'[k] = d => holder[k] = d
         /\ holder'[k] # d => holder[k] # d
<1>1. d # Nobody /\ d # c
  BY ConstantsAssumption
<1> QED
  BY <1>1 DEF ByItself, RowsByItself

(* A row that a request knows gone stays gone while others step. *)
LEMMA GoneStays ==
  ASSUME Inv, NEW c \in Client, ByItself(c), NEW d \in Client \ {c},
         NEW k \in Level \X Wave, Gone(d, k), ~(k[2] \in shares[c] /\ holder[k[1]] = c)
  PROVE  draft'[k] = Absent /\ (store'[k] = Absent \/ holder'[k] = d)
<1>1. k \in Key
  BY Keys
<1>2. CASE holder[k] = d
  BY <1>1, <1>2, HeldStays DEF Gone
<1>3. CASE holder[k] # d
  <2>1. draft[k] = Absent /\ store[k] = Absent
    BY <1>3 DEF Gone
  <2> QED
    BY <1>1, <2>1 DEF ByItself, RowsByItself
<1> QED
  BY <1>2, <1>3

(* What a request has written stays so while another one steps. *)
LEMMA OtherWrites ==
  ASSUME Inv, \A e \in Client : Writes(e), NEW c \in Client, ByItself(c), NEW d \in Client \ {c}
  PROVE  Writes(d)'
<1>1. TypeOK /\ Local(d) /\ Writes(d) /\ d # c
  BY DEF Inv
<1>2. /\ request'[d] = request[d] /\ at'[d] = at[d] /\ todo'[d] = todo[d]
      /\ done'[d] = done[d] /\ shares'[d] = shares[d] /\ told'[d] = told[d]
  BY DEF ByItself, OthersSame
<1>3. /\ Idle(d)' = Idle(d) /\ Step(d)' = Step(d) /\ On(d)' = On(d) /\ Listed(d)' = Listed(d)
      /\ Dropping(d)' = Dropping(d) /\ (d \in Activating)' = (d \in Activating)
      /\ Replacing(d)' = Replacing(d) /\ HasLevel(d)' = HasLevel(d)
  <2>1. Idle(d)' = Idle(d) /\ Step(d)' = Step(d) /\ On(d)' = On(d) /\ Listed(d)' = Listed(d)
    BY <1>2 DEF Idle, Step, On, Listed
  <2> QED
    BY <1>2, <2>1 DEF Dropping, Activating, Replacing, HasLevel
<1>4. \A k \in Key :
        /\ holder[k] = d => store'[k] = store[k] /\ draft'[k] = draft[k] /\ holder'[k] = d
        /\ holder'[k] = d => holder[k] = d
  BY HeldStays
<1>5. ~Idle(d) /\ ~Dropping(d) => On(d) \in Level /\ On(d) \in Key
  <2>1. ~Idle(d) /\ ~Dropping(d) => On(d) \in Level
    BY <1>1, Asked DEF TypeOK, Idle, On, Dropping
  <2> QED
    BY <2>1, Keys
<1>6. ~Idle(d) => Listed(d) \subseteq Wave
  BY <1>1, Asked DEF TypeOK, Idle, Listed
<1>7. /\ HasLevel(d) => ~Idle(d) /\ ~Dropping(d) /\ d \notin Activating
      /\ Replacing(d) => ~Idle(d) /\ ~Dropping(d)
      /\ d \in Activating => ~Idle(d) /\ ~Dropping(d)
      /\ Step(d) \in {"rename", "remove", "set_on"} => ~Idle(d) /\ ~Dropping(d)
  <2>1. Step(d) \in Names => ~Idle(d)
    BY NoStep
  <2>2. Step(d) \in {"rename", "remove", "set_on"} => ~Idle(d) /\ ~Dropping(d)
    BY <1>1, <2>1, Stages DEF Names, Dropping
  <2> QED
    BY <2>2 DEF HasLevel, Dropping, Activating, Replacing
<1>8. Replacing(d) /\ Step(d) \in {"read", "commit"} => HasLevel(d)
  BY DEF Replacing, HasLevel
<1>9. LevelWritten(d)'
  <2>1. HasLevel(d) \/ (Step(d) \in {"rename", "remove"} /\ On(d) \in done[d]) => holder[On(d)] = d
    BY <1>1 DEF Local, LevelHeld, ScanFits
  <2>2. HasLevel(d) \/ (Step(d) \in {"rename", "remove"} /\ On(d) \in done[d]) =>
          store'[On(d)] = store[On(d)] /\ draft'[On(d)] = draft[On(d)]
    BY <1>4, <1>5, <1>7, <2>1
  <2>3. /\ (HasLevel(d) /\ request[d].op = "create") =>
             store'[On(d)] = Absent /\ draft'[On(d)] = "off"
        /\ HasLevel(d) \/ (Step(d) \in {"rename", "remove"} /\ On(d) \in done[d]) =>
             /\ request[d].op = "update" => store'[On(d)] # Absent /\ draft'[On(d)] = store'[On(d)]
             /\ request[d].op = "delete" => store'[On(d)] # Absent /\ draft'[On(d)] = Absent
    BY <1>1, <2>2 DEF Writes, LevelWritten
  <2>4. d \in Activating => \A l \in Level : holder'[l] = d => store'[l] # Absent /\ draft'[l] # Absent
    <3>1. \A l \in Level : l \in Key
      BY Keys
    <3> QED
      BY <1>1, <1>4, <3>1 DEF Writes, LevelWritten
  <2> QED
    BY <1>2, <1>3, <2>3, <2>4 DEF LevelWritten
<1>10. MembersWritten(d)'
  <2> SUFFICES ASSUME Replacing(d), Step(d) \in {"read", "commit"}, NEW w \in Wave
               PROVE  IF w \in Listed(d)
                        THEN holder'[<<On(d), w>>] = d /\ draft'[<<On(d), w>>] = Position(d, w)'
                        ELSE Gone(d, <<On(d), w>>)'
    BY <1>3 DEF MembersWritten
  <2> DEFINE k == <<On(d), w>>
  <2>1. k \in Level \X Wave /\ k \in Key /\ k[1] = On(d) /\ holder[On(d)] = d
    BY <1>1, <1>5, <1>7, <1>8, Keys DEF Local, LevelHeld
  <2>2. IF w \in Listed(d) THEN holder[k] = d /\ draft[k] = Position(d, w) ELSE Gone(d, k)
    BY <1>1 DEF Writes, MembersWritten
  <2>3. Position(d, w)' = Position(d, w)
    BY <1>2 DEF Position
  <2>4. w \notin Listed(d) => draft'[k] = Absent /\ (store'[k] = Absent \/ holder'[k] = d)
    <3> HIDE DEF k
    <3> QED
      BY <1>1, <2>1, <2>2, GoneStays
  <2> QED
    BY <1>3, <1>4, <2>1, <2>2, <2>3, <2>4 DEF Gone
<1>11. AloneActive(d)'
  <2>1. (d \in Activating /\ Step(d) \in {"unique", "commit"})
          \/ (Step(d) = "set_on" /\ On(d) \in done[d])
        => holder'[On(d)] = d /\ draft'[On(d)] = "on"
    BY <1>1, <1>4, <1>5, <1>7 DEF Writes, AloneActive
  <2>2. ASSUME Step(d) = "commit", d \in Activating, NEW l \in Level \ {On(d)}
        PROVE  IF holder'[l] = d THEN draft'[l] # "on" ELSE store'[l] # "on"
    <3>1. l \in Key /\ (IF holder[l] = d THEN draft[l] # "on" ELSE store[l] # "on")
      BY <1>1, <2>2, Keys DEF Writes, AloneActive
    <3>2. ASSUME holder[l] # d, store'[l] = "on" PROVE FALSE
      <4>1. Step(c) = "commit" /\ holder[l] = c /\ draft[l] = "on" /\ store[l] # "on"
        BY <3>1, <3>2 DEF ByItself, RowsByItself
      <4>2. c \in Activating
        BY <4>1 DEF Inv, RowsAgree, ActiveFollow
      <4> QED
        BY <1>1, <2>2, <4>1, <4>2 DEF Writes, AloneActive
    <3> QED
      BY <1>4, <3>1, <3>2
  <2>3. ASSUME Step(d) = "commit", d \in Activating, NEW e \in Activating', Step(e)' = "commit"
        PROVE  e = d
    <3> e \in Client
      BY DEF Activating
    <3>1. CASE e # c
      <4>1. request'[e] = request[e] /\ at'[e] = at[e]
        BY <3>1 DEF ByItself, OthersSame
      <4>2. e \in Activating /\ Step(e) = "commit"
        BY <2>3, <4>1 DEF Activating, Step, Idle
      <4> QED
        BY <1>1, <2>3, <4>2 DEF Writes, AloneActive
    <3>2. CASE e = c
      <4>1. CASE c \in Activating /\ Step(c) = "commit"
        BY <1>1, <2>3, <3>2, <4>1 DEF Writes, AloneActive
      <4>2. CASE Step(c) = "unique" /\ \A b \in Client : ~Contests(b, c)
        <5>1. holder[On(d)] = d /\ draft[On(d)] = "on" /\ On(d) \in Level
          BY <1>1, <1>5, <1>7, <2>3 DEF Writes, AloneActive
        <5>2. Contests(d, c)
          BY <1>1, <2>3, <4>2, <5>1 DEF Contests
        <5> QED
          BY <4>2, <5>2
      <4> QED
        BY <2>3, <3>2, <4>1, <4>2 DEF ByItself, CommitsAlone
    <3> QED
      BY <3>1, <3>2
  <2>4. Step(d) = "commit" /\ d \in Activating =>
          /\ \A l \in Level \ {On(d)} : IF holder'[l] = d THEN draft'[l] # "on" ELSE store'[l] # "on"
          /\ \A e \in Activating' : Step(e)' = "commit" => e = d
    BY <2>2, <2>3
  <2> QED
    BY <1>2, <1>3, <2>1, <2>4 DEF AloneActive
<1>12. WavesDropped(d)'
  <2>1. ASSUME Dropping(d), NEW w \in Wave, holder'[w] = d PROVE store'[w] # Absent /\ draft'[w] = Absent
    <3>1. w \in Key
      BY Keys
    <3> QED
      BY <1>1, <1>4, <2>1, <3>1 DEF Writes, WavesDropped
  <2>2. ASSUME NEW l \in Level, NEW w \in Wave, holder[w] = d, Gone(d, <<l, w>>)
        PROVE  Gone(d, <<l, w>>)'
    <3>1. w \notin shares[c]
      BY <2>2, SharedFree, ConstantsAssumption
    <3> DEFINE k == <<l, w>>
    <3>2. k \in Level \X Wave /\ k[2] = w /\ Gone(d, k)
      BY <2>2
    <3>3. draft'[k] = Absent /\ (store'[k] = Absent \/ holder'[k] = d)
      <4> HIDE DEF k
      <4> QED
        BY <3>1, <3>2, GoneStays
    <3> QED
      BY <3>3 DEF Gone
  <2>3. ASSUME Dropping(d), Step(d) = "leave", todo[d] # None, NEW l \in Level, NEW w \in done[d] \cap Wave
        PROVE  <<l, w>> \in todo[d] \/ Gone(d, <<l, w>>)'
    <3>1. holder[w] = d
      BY <1>1, <2>3 DEF Local, ScanFits
    <3>2. <<l, w>> \in todo[d] \/ Gone(d, <<l, w>>)
      BY <1>1, <2>3 DEF Writes, WavesDropped
    <3> QED
      BY <2>2, <3>1, <3>2
  <2>4. ASSUME Dropping(d), Step(d) = "commit", NEW w \in Listed(d)
        PROVE  holder'[w] = d /\ \A l \in Level : Gone(d, <<l, w>>)'
    <3>1. w \in Wave /\ w \in Key
      BY <1>6, <2>4, Keys DEF Dropping
    <3>2. holder[w] = d /\ \A l \in Level : Gone(d, <<l, w>>)
      BY <1>1, <2>4 DEF Writes, WavesDropped
    <3> QED
      BY <1>4, <2>2, <3>1, <3>2
  <2>5. Dropping(d) /\ Step(d) \in {"drop", "leave"} => done[d] \cap Wave \subseteq Listed(d)
    BY <1>1 DEF Writes, WavesDropped
  <2> QED
    BY <1>2, <1>3, <2>1, <2>3, <2>4, <2>5 DEF WavesDropped
<1>13. Tells(d)'
  BY <1>1, <1>2, <1>3 DEF Writes, Tells
<1> QED
  BY <1>9, <1>10, <1>11, <1>12, <1>13 DEF Writes

(* Of a request that has ended there is nothing to say. *)
LEMMA EndedWrites ==
  ASSUME NEW c \in Client, Idle(c)', Step(c)' \notin Names, told'[c] = None, c \notin Activating'
  PROVE  Writes(c)'
<1>1. ~HasLevel(c)' /\ ~Replacing(c)' /\ ~Dropping(c)'
  BY DEF HasLevel, Replacing, Dropping
<1>2. LevelWritten(c)' /\ MembersWritten(c)'
  BY <1>1 DEF LevelWritten, MembersWritten, Names
<1>3. AloneActive(c)' /\ WavesDropped(c)' /\ Tells(c)'
  BY <1>1 DEF AloneActive, WavesDropped, Tells, Names
<1> QED
  BY <1>2, <1>3 DEF Writes

(* MembersAreShared is kept by every step of one request. *)
LEMMA MembersStayShared ==
  ASSUME Inv, Inv', MembersAreShared, NEW c \in Client, ByItself(c)
  PROVE  MembersAreShared'
<1> SUFFICES ASSUME NEW l \in Level, NEW w \in Wave,
                    draft'[<<l, w>>] # Absent, store'[<<l, w>>] = Absent
             PROVE  holder'[l] \in Client /\ w \in shares'[holder'[l]]
  BY DEF MembersAreShared
<1> DEFINE k == <<l, w>>
<1>1. k \in Key /\ l \in Key /\ k \in Level \X Wave /\ k[1] = l /\ k[2] = w /\ c # Nobody
  BY Keys, ConstantsAssumption
<1>2. store[k] = Absent
  BY <1>1 DEF ByItself, RowsByItself
<1>3. holder[l] \in Client /\ w \in shares[holder[l]]
  <2>1. CASE draft[k] # Absent
    BY <1>2, <2>1 DEF MembersAreShared
  <2>2. CASE draft[k] = Absent
    <3>1. w \in shares[c] /\ holder[l] = c
      BY <1>1, <1>2, <2>2 DEF ByItself, RowsByItself
    <3> QED
      BY <3>1
  <2> QED
    BY <2>1, <2>2
<1>4. CASE holder[l] # c
  <2>1. holder'[l] = holder[l] /\ shares'[holder[l]] = shares[holder[l]]
    <3>1. holder[l] \in Client \ {c}
      BY <1>3, <1>4
    <3> QED
      BY <1>1, <3>1, HeldStays DEF ByItself, OthersSame
  <2> QED
    BY <1>3, <2>1
<1>5. CASE holder[l] = c
  <2>1. holder'[l] = holder'[k]
    BY DEF Inv, RowsAgree, MembersFollow
  <2>2. holder'[k] # Nobody
    BY <1>1 DEF Inv, RowsAgree
  <2>3. holder'[l] = c
    BY <1>1, <1>5, <2>1, <2>2 DEF ByItself, RowsByItself
  <2> QED
    BY <1>1, <1>3, <1>5, <2>3 DEF ByItself, EndsOrKeeps
<1> QED
  BY <1>4, <1>5
-----------------------------------------------------------------------------
(* What a request does to what it has written itself.                      *)
LEMMA Doing ==
  ASSUME Inv, NEW c \in Client
  PROVE  /\ Step(c) \in Names <=> ~Idle(c)
         /\ ~Idle(c) => request[c] \in Requests /\ Listed(c) \subseteq Wave
         /\ ~Idle(c) /\ ~Dropping(c) => On(c) \in Level /\ On(c) \in Key
         /\ Step(c) = "rename" => ~Idle(c) /\ request[c].op = "update"
         /\ Step(c) = "clear" => ~Idle(c) /\ request[c].op = "update"
         /\ Step(c) = "level" => ~Idle(c) /\ request[c].op = "create"
         /\ Step(c) \in {"waves", "members"} => Replacing(c)
         /\ Step(c) = "remove" => ~Idle(c) /\ request[c].op = "delete"
         /\ Step(c) \in {"stand_down", "set_on", "unique"} => c \in Activating
         /\ Step(c) = "drop" => Dropping(c)
         /\ Step(c) = "leave" => Dropping(c) \/ (~Idle(c) /\ request[c].op = "delete")
         /\ Step(c) = "read" => Replacing(c) \/ c \in Activating
         /\ Step(c) \in {"members", "read", "commit"} /\ Replacing(c) => HasLevel(c) /\ HasWaves(c)
         /\ c \in Activating => ~Dropping(c) /\ ~Replacing(c) /\ ~HasLevel(c)
         /\ Dropping(c) => ~Replacing(c) /\ ~HasLevel(c)
         /\ Replacing(c) \/ HasLevel(c) \/ c \in Activating => ~Idle(c) /\ ~Dropping(c)
<1>1. TypeOK
  BY DEF Inv
<1>2. Step(c) \in Names => ~Idle(c)
  BY NoStep
<1>3. ~Idle(c) => request[c] \in Requests /\ Listed(c) \subseteq Wave
  BY <1>1, Asked DEF TypeOK, Idle, Listed
<1>4. ~Idle(c) /\ ~Dropping(c) => On(c) \in Level /\ On(c) \in Key
  BY <1>3, Asked, Keys DEF On, Dropping
<1>5. CASE Idle(c)
  BY <1>2, <1>5 DEF Replacing, HasLevel, Activating, Dropping, Names
<1>6. CASE ~Idle(c)
  <2> DEFINE o == request[c].op
             s == Step(c)
  <2>1. /\ o \in {"create", "update", "delete", "activate", "drop", "batch"}
        /\ o = "create" => s \in {"waves", "level", "members", "read", "commit"}
        /\ o = "update" => s \in {"rename", "waves", "clear", "members", "read", "commit"}
        /\ o = "delete" => s \in {"remove", "leave", "commit"}
        /\ o = "activate" => s \in {"stand_down", "set_on", "unique", "commit", "read"}
        /\ o \in {"drop", "batch"} => s \in {"drop", "leave", "commit"}
    BY <1>1, <1>6, Stages
  <2>2. /\ Replacing(c) <=> o \in {"create", "update"}
        /\ Dropping(c) <=> o \in {"drop", "batch"}
        /\ c \in Activating <=> o = "activate"
        /\ HasLevel(c) <=> \/ o = "create" /\ s \in {"members", "read", "commit"}
                           \/ o = "update" /\ s # "rename"
                           \/ o = "delete" /\ s # "remove"
        /\ HasWaves(c) <=> \/ o = "create" /\ s # "waves"
                           \/ o = "update" /\ s \notin {"rename", "waves"}
    BY <1>6 DEF Replacing, Dropping, Activating, HasLevel, HasWaves
  <2> HIDE DEF o, s
  <2>3. /\ s \in Names
        /\ s = "rename" => o = "update"
        /\ s = "clear" => o = "update"
        /\ s = "level" => o = "create"
        /\ s \in {"waves", "members"} => o \in {"create", "update"}
        /\ s = "remove" => o = "delete"
        /\ s \in {"stand_down", "set_on", "unique"} => o = "activate"
        /\ s = "drop" => o \in {"drop", "batch"}
        /\ s = "leave" => o \in {"drop", "batch", "delete"}
        /\ s = "read" => o \in {"create", "update", "activate"}
    BY <2>1 DEF Names
  <2>4. /\ s \in {"members", "read", "commit"} /\ Replacing(c) => HasLevel(c) /\ HasWaves(c)
        /\ c \in Activating => ~Dropping(c) /\ ~Replacing(c) /\ ~HasLevel(c)
        /\ Dropping(c) => ~Replacing(c) /\ ~HasLevel(c)
        /\ Replacing(c) \/ HasLevel(c) \/ c \in Activating => ~Dropping(c)
    BY <2>2
  <2> QED
    BY <1>3, <1>4, <1>6, <2>2, <2>3, <2>4 DEF o, s
<1> QED
  BY <1>5, <1>6

(* From one statement to the next. *)
LEMMA Moves ==
  ASSUME Inv, NEW c \in Client, ~Idle(c), ~LastStep(c), NextStatement(c)
  PROVE  /\ Step(c)' \in Names /\ Step(c)' \notin {"rename", "remove", "stand_down", "drop"}
         /\ Replacing(c)' = Replacing(c) /\ Dropping(c)' = Dropping(c) /\ Activating' = Activating
         /\ HasLevel(c)' => HasLevel(c) \/ Step(c) \in {"rename", "remove", "level"}
         /\ Replacing(c) /\ Step(c)' = "read" => Step(c) = "members"
         /\ Replacing(c) /\ Step(c)' = "commit" => Step(c) = "read"
         /\ Replacing(c) /\ Step(c) = "read" => Step(c)' = "commit"
         /\ c \in Activating /\ Step(c)' = "unique" => Step(c) = "set_on"
         /\ c \in Activating /\ Step(c)' = "commit" => Step(c) = "unique"
         /\ c \in Activating /\ Step(c) = "commit" => Step(c)' = "read"
         /\ Dropping(c) /\ Step(c)' = "leave" => Step(c) = "drop"
         /\ Dropping(c) /\ Step(c)' = "commit" => Step(c) = "leave"
         /\ Dropping(c) /\ Step(c) = "leave" => Step(c)' = "commit"
         /\ Step(c) = "level" => Step(c)' = "members"
         /\ Step(c) = "members" => Step(c)' = "read"
         /\ Step(c) = "drop" => Step(c)' = "leave"
<1>1. TypeOK /\ request' = request /\ at'[c] = at[c] + 1 /\ Idle(c)' = Idle(c) /\ Activating' = Activating
  BY Onward DEF Inv
<1>2. Replacing(c)' = Replacing(c) /\ Dropping(c)' = Dropping(c)
  BY <1>1 DEF Replacing, Dropping
<1> DEFINE o == request[c].op
           s == Step(c)
           t == Step(c)'
<1>3. o \in {"create", "update", "delete", "activate", "drop", "batch"}
  BY <1>1, Stages
<1>4. /\ o = "create" => <<s, t>> \in {<<"waves", "level">>, <<"level", "members">>,
                                       <<"members", "read">>, <<"read", "commit">>}
      /\ o = "update" => <<s, t>> \in {<<"rename", "waves">>, <<"waves", "clear">>,
                                       <<"clear", "members">>, <<"members", "read">>,
                                       <<"read", "commit">>}
      /\ o = "delete" => <<s, t>> \in {<<"remove", "leave">>, <<"leave", "commit">>}
      /\ o = "activate" => <<s, t>> \in {<<"stand_down", "set_on">>, <<"set_on", "unique">>,
                                         <<"unique", "commit">>, <<"commit", "read">>}
      /\ o \in {"drop", "batch"} => <<s, t>> \in {<<"drop", "leave">>, <<"leave", "commit">>}
  BY <1>1, NextStage
<1>5. /\ Replacing(c) <=> o \in {"create", "update"}
      /\ Dropping(c) <=> o \in {"drop", "batch"}
      /\ c \in Activating <=> o = "activate"
      /\ HasLevel(c) <=> \/ o = "create" /\ s \in {"members", "read", "commit"}
                         \/ o = "update" /\ s # "rename"
                         \/ o = "delete" /\ s # "remove"
      /\ HasLevel(c)' <=> \/ o = "create" /\ t \in {"members", "read", "commit"}
                          \/ o = "update" /\ t # "rename"
                          \/ o = "delete" /\ t # "remove"
  BY <1>1 DEF Replacing, Dropping, Activating, HasLevel
<1> HIDE DEF o, s, t
<1>6. /\ t \in Names /\ t \notin {"rename", "remove", "stand_down", "drop"}
      /\ o \in {"create", "update"} /\ t = "read" => s = "members"
      /\ o \in {"create", "update"} /\ t = "commit" => s = "read"
      /\ o \in {"create", "update"} /\ s = "read" => t = "commit"
      /\ o = "activate" /\ t = "unique" => s = "set_on"
      /\ o = "activate" /\ t = "commit" => s = "unique"
      /\ o = "activate" /\ s = "commit" => t = "read"
      /\ o \in {"drop", "batch"} /\ t = "leave" => s = "drop"
      /\ o \in {"drop", "batch"} /\ t = "commit" => s = "leave"
      /\ o \in {"drop", "batch"} /\ s = "leave" => t = "commit"
      /\ s = "level" => t = "members"
      /\ s = "members" => t = "read"
      /\ s = "drop" => t = "leave"
  BY <1>3, <1>4 DEF Names
<1>7. HasLevel(c)' => HasLevel(c) \/ s \in {"rename", "remove", "level"}
  BY <1>3, <1>4, <1>5
<1> QED
  BY <1>1, <1>2, <1>5, <1>6, <1>7 DEF o, s, t

(* Inside a statement. *)
LEMMA InsideWrites ==
  ASSUME Inv, NEW c \in Client, Writes(c), SameStatement(c), store' = store, Step(c) \in Scanning,
         HasLevel(c) => draft'[On(c)] = draft[On(c)],
         Step(c) \in {"rename", "remove"} /\ On(c) \in done'[c] =>
           /\ store[On(c)] # Absent
           /\ Step(c) = "rename" => draft'[On(c)] = store[On(c)]
           /\ Step(c) = "remove" => draft'[On(c)] = Absent,
         c \in Activating =>
           \A l \in Level : holder'[l] = c => store[l] # Absent /\ draft'[l] # Absent,
         Step(c) = "set_on" /\ On(c) \in done'[c] => holder'[On(c)] = c /\ draft'[On(c)] = "on",
         Dropping(c) =>
           /\ \A w \in Wave : holder'[w] = c => store[w] # Absent /\ draft'[w] = Absent
           /\ done'[c] \cap Wave \subseteq Listed(c)
           /\ Step(c) = "leave" =>
                \A l \in Level, w \in done'[c] \cap Wave :
                  \/ <<l, w>> \in todo'[c]
                  \/ draft'[<<l, w>>] = Absent
                     /\ (store[<<l, w>>] = Absent \/ holder'[<<l, w>>] = c)
  PROVE  Writes(c)'
<1>1. /\ Idle(c)' = Idle(c) /\ Step(c)' = Step(c) /\ On(c)' = On(c) /\ Listed(c)' = Listed(c)
      /\ Dropping(c)' = Dropping(c) /\ HasLevel(c)' = HasLevel(c) /\ Activating' = Activating
      /\ request' = request /\ told' = told
  BY Inside DEF SameStatement
<1>2. Replacing(c)' = Replacing(c)
  BY <1>1 DEF Replacing
<1>3. Step(c) \notin {"unique", "commit", "read"}
  BY DEF Scanning
<1>4. /\ Step(c) = "rename" => request[c].op = "update"
      /\ Step(c) = "remove" => request[c].op = "delete"
  BY Doing
<1>5. LevelWritten(c)'
  BY <1>1, <1>4 DEF Writes, LevelWritten
<1>6. MembersWritten(c)' /\ AloneActive(c)' /\ Tells(c)'
  BY <1>1, <1>2, <1>3 DEF Writes, MembersWritten, AloneActive, Tells
<1>7. WavesDropped(c)'
  BY <1>1, <1>3 DEF WavesDropped, Gone
<1> QED
  BY <1>5, <1>6, <1>7 DEF Writes

(* A step inside a statement is one request by itself. *)
LEMMA InsideByItself ==
  ASSUME Inv, NEW c \in Client, SameStatement(c), RowsByItself(c), store' = store,
         shares[c] \subseteq shares'[c], \A k \in Key : holder[k] = c => holder'[k] = c
  PROVE  ByItself(c)
<1>1. OthersSame(c)
  BY DEF SameStatement, OthersSame
<1>2. Step(c)' = Step(c) /\ Activating' = Activating
  BY Inside
<1>3. CommitsAlone(c)
  BY <1>2 DEF CommitsAlone
<1> QED
  BY <1>1, <1>3 DEF ByItself, EndsOrKeeps

(* A statement picks its rows. *)
LEMMA ScanWrites ==
  ASSUME Inv, BookInv, NEW c \in Client, Scan(c)
  PROVE  ByItself(c) /\ Writes(c)'
<1>1. TypeOK /\ Local(c) /\ Writes(c) /\ RowsAgree
  BY DEF Inv, BookInv
<1>2. /\ Step(c) \in Scanning /\ todo[c] = None
      /\ todo'[c] = {k \in Where(c) : Matches(c, Seen(c, k))}
      /\ store' = store /\ draft' = draft /\ holder' = holder
      /\ shares' = shares /\ done' = done /\ SameStatement(c) /\ UNCHANGED rowVars
  BY <1>1 DEF Scan, rowVars, SameStatement, TypeOK
<1>3. ByItself(c)
  BY <1>2, KeptByItself, InsideByItself
<1>4. ASSUME Dropping(c), Step(c) = "leave", NEW l \in Level, NEW w \in done[c] \cap Wave
      PROVE  <<l, w>> \in todo'[c] \/ (draft[<<l, w>>] = Absent
                                       /\ (store[<<l, w>>] = Absent \/ holder[<<l, w>>] = c))
  <2> DEFINE k == <<l, w>>
  <2>1. k \in Where(c) /\ k \in Key
    BY <1>4, Keys DEF Where
  <2>2. k \in todo'[c] \/ Seen(c, k) = Absent
    BY <1>2, <1>4, <2>1 DEF Matches
  <2>3. ASSUME holder[k] # c, store[k] = Absent, draft[k] # Absent PROVE FALSE
    <3>1. holder[l] \in Client /\ w \in shares[holder[l]]
      BY <2>3 DEF BookInv, MembersAreShared
    <3>2. holder[w] = Nobody
      BY <3>1, SharedFree
    <3>3. holder[w] = c
      BY <1>1, <1>2, <1>4 DEF Local, ScanFits
    <3> QED
      BY <3>2, <3>3, ConstantsAssumption
  <2> QED
    BY <2>2, <2>3 DEF Seen
<1>5. ASSUME Dropping(c)
      PROVE  /\ \A w \in Wave : holder[w] = c => store[w] # Absent /\ draft[w] = Absent
             /\ done[c] \cap Wave \subseteq Listed(c)
  <2>1. Step(c) \in {"drop", "leave"}
    BY <1>1, <1>2, <1>5, Stages DEF Dropping, Scanning
  <2> QED
    BY <1>1, <1>5, <2>1 DEF Writes, WavesDropped
<1>6. Step(c) \in {"rename", "remove", "set_on"} => done[c] = {}
  BY <1>1, <1>2 DEF Local, ScanFits
<1>7. c \in Activating => \A l \in Level : holder[l] = c => store[l] # Absent /\ draft[l] # Absent
  BY <1>1 DEF Writes, LevelWritten
<1>8. Writes(c)'
  BY <1>1, <1>2, <1>4, <1>5, <1>6, <1>7, InsideWrites
<1> QED
  BY <1>3, <1>8

(* A row is locked for share. *)
LEMMA ShareFoundWrites ==
  ASSUME Inv, BookInv, NEW c \in Client, NEW k \in Key, ShareFound(c, k)
  PROVE  ByItself(c) /\ Writes(c)'
<1>1. TypeOK /\ Local(c) /\ Writes(c)
  BY DEF Inv, BookInv
<1>2. /\ Step(c) = "waves"
      /\ store' = store /\ draft' = draft /\ holder' = holder
      /\ shares[c] \subseteq shares'[c] /\ SameStatement(c) /\ UNCHANGED rowVars
  BY <1>1 DEF ShareFound, Treated, rowVars, SameStatement, TypeOK
<1>3. ByItself(c)
  BY <1>2, KeptByItself, InsideByItself
<1>4. Replacing(c)
  BY <1>2, Doing
<1>5. ~Dropping(c) /\ c \notin Activating
  BY <1>4, Doing
<1>6. Writes(c)'
  BY <1>1, <1>2, <1>5, InsideWrites DEF Scanning
<1> QED
  BY <1>3, <1>6

(* What is still to be locked was not locked by the statement. *)
LEMMA Fetched ==
  ASSUME Inv, NEW c \in Client, NEW k \in Key, Available(c, k),
         Step(c) \in {"rename", "remove", "drop"}
  PROVE  holder[k] = Nobody /\ draft[k] = store[k] /\ k \notin done[c]
<1>1. TypeOK /\ Local(c)
  BY DEF Inv
<1>2. /\ k \in todo[c] /\ todo[c] # None /\ holder[k] \in {Nobody, c}
      /\ Step(c) \in {"rename", "remove"} => k \in Level
      /\ Step(c) = "drop" => k \in Wave
  BY Picked DEF Available
<1>3. k \notin done[c]
  BY <1>1, <1>2 DEF Local, ScanFits
<1>4. ~MayHold(c, k)
  <2>1. (c \notin Activating /\ ~HasLevel(c)) \/ Step(c) = "drop"
    BY <1>1, Doing DEF HasLevel, Activating
  <2>2. Step(c) # "drop" => ~Dropping(c)
    BY <1>1, Doing DEF Dropping
  <2> QED
    BY <1>2, <1>3, <2>1, <2>2, Keys DEF MayHold
<1>5. holder[k] # c
  BY <1>1, <1>4 DEF Local, LocksFit
<1> QED
  BY <1>2, <1>3, <1>5 DEF Inv, RowsAgree

(* A row is written. *)
LEMMA WriteFoundWrites ==
  ASSUME Inv, BookInv, NEW c \in Client, NEW k \in Key, WriteFound(c, k)
  PROVE  ByItself(c) /\ Writes(c)'
<1>1. TypeOK /\ Local(c) /\ Writes(c) /\ RowsAgree /\ c # Nobody
  BY ConstantsAssumption DEF Inv, BookInv
<1>2. /\ Available(c, k) /\ Step(c) # "waves" /\ Matches(c, draft[k])
      /\ WriteRow(c, k, Written(c, draft[k])) /\ shares' = shares
      /\ todo'[c] = todo[c] \ {k} /\ done'[c] = done[c] \cup {k} /\ SameStatement(c)
  BY <1>1 DEF WriteFound, Treated, SameStatement, TypeOK
<1>3. /\ ~Idle(c) /\ Step(c) \in Scanning /\ holder[k] \in {Nobody, c}
      /\ Step(c) = "drop" => k \in Listed(c) /\ k \in Wave
      /\ Step(c) \in {"rename", "set_on", "remove"} => k = On(c) /\ k \in Level
      /\ Step(c) = "stand_down" => k \in Level
      /\ Step(c) = "clear" => On(c) \in Level /\ k \in {On(c)} \X Wave
      /\ Step(c) = "leave" => k \in Level \X Wave
  BY <1>2, Picked
<1> DEFINE v == Written(c, draft[k])
<1>4. /\ Step(c) = "rename" => v = draft[k]
      /\ Step(c) = "set_on" => v = "on"
      /\ Step(c) = "stand_down" => v = "off"
      /\ Step(c) \in {"clear", "remove", "leave", "drop"} => v = Absent
  BY DEF Written
<1>5. draft[k] # Absent
  BY <1>2, ConstantsAssumption DEF Matches
<1>6. k \in Level \X Wave => v = Absent
  BY <1>2, <1>3, <1>4, Keys DEF Scanning
<1>7. /\ RowsByItself(c) /\ store' = store
      /\ \A j \in Key : holder[j] = c => holder'[j] = c
      /\ draft'[k] = v /\ holder'[k] = c
      /\ \A j \in Key \ {k} : draft'[j] = draft[j] /\ holder'[j] = holder[j]
  <2> HIDE DEF v
  <2> QED
    BY <1>2, <1>3, <1>6, WriteByItself DEF v
<1>8. ByItself(c)
  BY <1>2, <1>7, InsideByItself
<1> HIDE DEF v
<1>9. HasLevel(c) => draft'[On(c)] = draft[On(c)]
  <2>1. HasLevel(c) => On(c) \in Level /\ On(c) \in Key /\ c \notin Activating /\ ~Dropping(c)
    BY Doing
  <2>2. HasLevel(c) => Step(c) \notin {"rename", "set_on", "remove", "stand_down", "drop"}
    BY <2>1, Doing DEF HasLevel
  <2>3. Step(c) \in {"clear", "leave"} => k \notin Level
    BY <1>3, Keys
  <2> QED
    BY <1>2, <1>3, <1>7, <2>1, <2>2, <2>3 DEF Scanning
<1>10. Step(c) \in {"rename", "remove"} /\ On(c) \in done'[c] =>
         /\ store[On(c)] # Absent
         /\ Step(c) = "rename" => draft'[On(c)] = store[On(c)]
         /\ Step(c) = "remove" => draft'[On(c)] = Absent
  BY <1>2, <1>3, <1>4, <1>5, <1>7, Fetched
<1>11. ASSUME c \in Activating, NEW l \in Level, holder'[l] = c
       PROVE  store[l] # Absent /\ draft'[l] # Absent
  <2>1. l \in Key /\ (holder[l] = c => store[l] # Absent /\ draft[l] # Absent)
    BY <1>1, <1>11, Keys DEF Writes, LevelWritten
  <2>2. CASE l # k
    BY <1>7, <1>11, <2>1, <2>2
  <2>3. CASE l = k
    <3>1. store[k] # Absent
      BY <1>1, <1>3, <1>5, <2>1, <2>3 DEF RowsAgree
    <3>2. Step(c) \in {"set_on", "stand_down"}
      <4>1. request[c].op = "activate"
        BY <1>11 DEF Activating
      <4>2. Step(c) \in {"stand_down", "set_on", "unique", "commit", "read"}
        BY <1>1, <1>3, <4>1, Stages
      <4> QED
        BY <1>3, <4>2 DEF Scanning
    <3> QED
      BY <1>4, <1>7, <2>3, <3>1, <3>2, ConstantsAssumption
  <2> QED
    BY <2>2, <2>3
<1>12. Step(c) = "set_on" => holder'[On(c)] = c /\ draft'[On(c)] = "on"
  BY <1>3, <1>4, <1>7
<1>13. ASSUME Dropping(c)
       PROVE  /\ \A w \in Wave : holder'[w] = c => store[w] # Absent /\ draft'[w] = Absent
              /\ done'[c] \cap Wave \subseteq Listed(c)
              /\ Step(c) = "leave" =>
                   \A l \in Level, w \in done'[c] \cap Wave :
                     \/ <<l, w>> \in todo'[c]
                     \/ draft'[<<l, w>>] = Absent
                        /\ (store[<<l, w>>] = Absent \/ holder'[<<l, w>>] = c)
  <2>1. Step(c) \in {"drop", "leave"}
    BY <1>1, <1>3, <1>13, Stages DEF Dropping, Scanning
  <2>2. /\ \A w \in Wave : holder[w] = c => store[w] # Absent /\ draft[w] = Absent
        /\ done[c] \cap Wave \subseteq Listed(c)
        /\ Step(c) = "leave" =>
             \A l \in Level, w \in done[c] \cap Wave : <<l, w>> \in todo[c] \/ Gone(c, <<l, w>>)
    BY <1>1, <1>2, <1>13, <2>1 DEF Writes, WavesDropped, Available
  <2>3. Step(c) = "leave" => k \notin Wave
    BY <1>3, Keys
  <2>4. ASSUME NEW w \in Wave, holder'[w] = c PROVE store[w] # Absent /\ draft'[w] = Absent
    <3>1. w \in Key
      BY Keys
    <3>2. CASE w # k
      BY <1>7, <2>2, <2>4, <3>1, <3>2
    <3>3. CASE w = k
      BY <1>2, <1>4, <1>5, <1>7, <2>1, <2>3, <3>3, Fetched
    <3> QED
      BY <3>2, <3>3
  <2>5. done'[c] \cap Wave \subseteq Listed(c)
    BY <1>2, <1>3, <2>1, <2>2, <2>3
  <2>6. ASSUME Step(c) = "leave", NEW l \in Level, NEW w \in done'[c] \cap Wave
        PROVE  \/ <<l, w>> \in todo'[c]
               \/ draft'[<<l, w>>] = Absent /\ (store[<<l, w>>] = Absent \/ holder'[<<l, w>>] = c)
    <3>1. w \in done[c] \cap Wave /\ <<l, w>> \in Key
      BY <1>2, <2>3, <2>6, Keys
    <3>2. <<l, w>> \in todo[c] \/ Gone(c, <<l, w>>)
      BY <2>2, <2>6, <3>1
    <3>3. CASE <<l, w>> = k
      BY <1>4, <1>7, <2>6, <3>3
    <3>4. CASE <<l, w>> # k
      BY <1>2, <1>7, <3>1, <3>2, <3>4 DEF Gone
    <3> QED
      BY <3>3, <3>4
  <2> QED
    BY <2>4, <2>5, <2>6
<1>14. Writes(c)'
  BY <1>1, <1>2, <1>3, <1>7, <1>9, <1>10, <1>11, <1>12, <1>13, InsideWrites
<1> QED
  BY <1>8, <1>14

(* A row is passed over. *)
LEMMA SkipWrites ==
  ASSUME Inv, BookInv, NEW c \in Client, NEW k \in Key, Skip(c, k)
  PROVE  ByItself(c) /\ Writes(c)'
<1>1. TypeOK /\ Local(c) /\ Writes(c) /\ RowsAgree /\ c # Nobody
  BY ConstantsAssumption DEF Inv, BookInv
<1>2. /\ Available(c, k) /\ ~Matches(c, draft[k]) /\ shares' = shares
      /\ todo'[c] = todo[c] \ {k} /\ todo[c] # None /\ done'[c] = done[c] /\ SameStatement(c)
  BY <1>1 DEF Skip, Treated, SameStatement, TypeOK, Available
<1>3. ~Idle(c) /\ Step(c) \in Scanning /\ holder[k] \in {Nobody, c}
      /\ (Step(c) = "stand_down" => k \in Level /\ c \in Activating)
  BY <1>2, Picked
<1>4. /\ Step(c) \in {"rename", "remove"} /\ On(c) \in done[c] =>
           /\ store[On(c)] # Absent
           /\ Step(c) = "rename" => draft[On(c)] = store[On(c)]
           /\ Step(c) = "remove" => draft[On(c)] = Absent
      /\ c \in Activating => \A l \in Level : holder[l] = c => store[l] # Absent /\ draft[l] # Absent
      /\ Step(c) = "set_on" /\ On(c) \in done[c] => holder[On(c)] = c /\ draft[On(c)] = "on"
  BY <1>1, Doing DEF Writes, LevelWritten, AloneActive
<1>5. CASE draft[k] = Absent
  <2>1. store' = store /\ draft' = draft /\ holder' = holder /\ UNCHANGED rowVars
    BY <1>5 DEF Skip, rowVars
  <2>2. ByItself(c)
    BY <1>2, <2>1, KeptByItself, InsideByItself
  <2>3. ASSUME Dropping(c)
        PROVE  /\ \A w \in Wave : holder[w] = c => store[w] # Absent /\ draft[w] = Absent
               /\ done[c] \cap Wave \subseteq Listed(c)
               /\ Step(c) = "leave" =>
                    \A l \in Level, w \in done[c] \cap Wave :
                      \/ <<l, w>> \in todo'[c]
                      \/ draft[<<l, w>>] = Absent
                         /\ (store[<<l, w>>] = Absent \/ holder[<<l, w>>] = c)
    <3>1. Step(c) \in {"drop", "leave"}
      BY <1>1, <1>3, <2>3, Stages DEF Dropping, Scanning
    <3>2. /\ \A w \in Wave : holder[w] = c => store[w] # Absent /\ draft[w] = Absent
          /\ done[c] \cap Wave \subseteq Listed(c)
          /\ Step(c) = "leave" =>
               \A l \in Level, w \in done[c] \cap Wave : <<l, w>> \in todo[c] \/ Gone(c, <<l, w>>)
      BY <1>1, <1>2, <2>3, <3>1 DEF Writes, WavesDropped
    <3>3. holder[k] = Nobody => store[k] = Absent
      BY <1>1, <1>5 DEF RowsAgree
    <3> QED
      BY <1>2, <1>3, <1>5, <3>2, <3>3 DEF Gone
  <2>4. Writes(c)'
    BY <1>1, <1>2, <1>3, <1>4, <2>1, <2>3, InsideWrites
  <2> QED
    BY <2>2, <2>4
<1>6. CASE draft[k] # Absent
  <2>1. Step(c) = "stand_down" /\ k \in Level /\ c \in Activating
    BY <1>2, <1>3, <1>6 DEF Matches
  <2>2. WriteRow(c, k, draft[k]) /\ k \notin Level \X Wave
    BY <1>6, <2>1, Keys DEF Skip
  <2>3. /\ RowsByItself(c) /\ store' = store
        /\ \A j \in Key : holder[j] = c => holder'[j] = c
        /\ draft'[k] = draft[k] /\ holder'[k] = c
        /\ \A j \in Key \ {k} : draft'[j] = draft[j] /\ holder'[j] = holder[j]
    BY <1>3, <2>2, WriteByItself
  <2>4. ByItself(c)
    BY <1>2, <2>3, InsideByItself
  <2>5. ~Dropping(c) /\ ~HasLevel(c)
    BY <2>1, Doing
  <2>6. ASSUME NEW l \in Level, holder'[l] = c PROVE store[l] # Absent /\ draft'[l] # Absent
    <3>1. l \in Key
      BY Keys
    <3>2. holder[k] = Nobody => store[k] # Absent
      BY <1>1, <1>6 DEF RowsAgree
    <3> QED
      BY <1>3, <1>4, <1>6, <2>1, <2>3, <2>6, <3>1, <3>2
  <2>7. Writes(c)'
    BY <1>1, <1>2, <1>3, <2>1, <2>3, <2>5, <2>6, InsideWrites
  <2> QED
    BY <2>4, <2>7
<1> QED
  BY <1>5, <1>6

(* A request arrives. *)
LEMMA ReceiveWrites ==
  ASSUME Inv, BookInv, NEW c \in Client, NEW r \in Requests, Receive(c, r)
  PROVE  /\ ByItself(c) /\ Writes(c)'
         /\ request'[c] = r /\ todo'[c] = None
         /\ Step(c)' \in {"waves", "rename", "remove", "stand_down", "drop"}
<1>1. TypeOK /\ Local(c) /\ Writes(c) /\ RowsAgree /\ Idle(c) /\ todo[c] = None /\ done[c] = {}
  BY DEF Inv, BookInv, Receive, Local, ScanFits
<1>2. /\ request'[c] = r /\ at'[c] = 1 /\ todo' = todo /\ done' = done /\ shares' = shares
      /\ told' = told /\ store' = store /\ draft' = draft /\ holder' = holder /\ UNCHANGED rowVars
      /\ \A d \in Client \ {c} : request'[d] = request[d] /\ at'[d] = at[d]
  BY <1>1 DEF Receive, rowVars, scanVars, TypeOK
<1>3. ~Idle(c)' /\ r.op \in {"create", "update", "delete", "activate", "drop", "batch"}
  BY <1>2, Asked DEF Idle
<1>4. Step(c)' = Plan[r.op][1]
  BY <1>2, <1>3 DEF Step
<1>5. Step(c)' \in {"waves", "rename", "remove", "stand_down", "drop"}
  BY <1>3, <1>4 DEF Plan, UpdatePlan, ActivatePlan
<1>6. ~HasLevel(c)'
  <2>1. /\ r.op = "create" => Step(c)' = "waves"
        /\ r.op = "update" => Step(c)' = "rename"
        /\ r.op = "delete" => Step(c)' = "remove"
    BY <1>4 DEF Plan, UpdatePlan
  <2> QED
    BY <1>2, <2>1 DEF HasLevel
<1>7. \A k \in Key : holder[k] # c
  BY <1>1 DEF Local, LocksFit, MayHold, Activating, HasLevel, Dropping, Step, Idle
<1>8. told[c] = None
  BY <1>1 DEF Writes, Tells, Replacing
<1>9. ByItself(c)
  BY <1>2, <1>5, <1>7, KeptByItself DEF ByItself, OthersSame, EndsOrKeeps, CommitsAlone
<1>10. \A k \in Level \cup Wave : holder'[k] # c
  BY <1>2, <1>7, Keys
<1>11. LevelWritten(c)' /\ MembersWritten(c)' /\ AloneActive(c)'
  BY <1>1, <1>2, <1>5, <1>6, <1>10 DEF LevelWritten, MembersWritten, AloneActive
<1>12. WavesDropped(c)' /\ Tells(c)'
  BY <1>1, <1>2, <1>5, <1>8, <1>10 DEF WavesDropped, Tells
<1> QED
  BY <1>2, <1>1, <1>5, <1>9, <1>11, <1>12 DEF Writes

(* From one statement to the next, with no row written. *)
LEMMA OnwardWrites ==
  ASSUME Inv, BookInv, NEW c \in Client, ~Idle(c), ~LastStep(c), NextStatement(c),
         UNCHANGED rowVars, Step(c) \notin {"level", "members", "commit"},
         Step(c) \in {"rename", "remove", "set_on"} => On(c) \in done[c],
         Dropping(c) /\ Step(c) = "leave" => Listed(c) \subseteq done[c] /\ todo[c] = {},
         Step(c) = "unique" =>
           /\ \A l \in Level \ {On(c)} : IF holder[l] = c THEN draft[l] # "on" ELSE store[l] # "on"
           /\ \A d \in Activating \ {c} : Step(d) # "commit",
         told'[c] = IF Replacing(c) /\ Step(c) = "read" THEN request[c].waves ELSE told[c]
  PROVE  Writes(c)'
<1>1. TypeOK /\ Local(c) /\ Writes(c)
  BY DEF Inv, BookInv
<1>2. store' = store /\ draft' = draft /\ holder' = holder
  BY DEF rowVars
<1>3. /\ request' = request /\ todo'[c] = None /\ On(c)' = On(c) /\ Listed(c)' = Listed(c)
      /\ done'[c] = IF Step(c) = "drop" THEN done[c] ELSE {}
      /\ \A d \in Client \ {c} : at'[d] = at[d]
  BY Onward
<1>4. /\ Step(c)' \notin {"rename", "remove", "stand_down", "drop"}
      /\ Replacing(c)' = Replacing(c) /\ Dropping(c)' = Dropping(c) /\ Activating' = Activating
      /\ HasLevel(c)' => HasLevel(c) \/ Step(c) \in {"rename", "remove"}
      /\ Replacing(c) => Step(c)' # "read"
      /\ Replacing(c) => (Step(c)' = "commit" <=> Step(c) = "read")
      /\ c \in Activating /\ Step(c)' = "unique" => Step(c) = "set_on"
      /\ c \in Activating /\ Step(c)' = "commit" => Step(c) = "unique"
      /\ Dropping(c) /\ Step(c)' = "commit" => Step(c) = "leave"
      /\ Dropping(c) /\ Step(c)' = "leave" => Step(c) = "drop"
  BY Moves
<1>5. LevelWritten(c)'
  <2>1. /\ Step(c) = "rename" => request[c].op = "update"
        /\ Step(c) = "remove" => request[c].op = "delete"
    BY Doing
  <2> QED
    BY <1>1, <1>2, <1>3, <1>4, <2>1 DEF Writes, LevelWritten
<1>6. MembersWritten(c)'
  <2>1. Replacing(c) /\ Step(c)' = "commit" => Step(c) = "read"
    BY <1>4
  <2> QED
    BY <1>1, <1>2, <1>3, <1>4, <2>1 DEF Writes, MembersWritten, Gone, Position
<1>7. AloneActive(c)'
  <2>1. (c \in Activating /\ Step(c)' \in {"unique", "commit"}) => holder[On(c)] = c /\ draft[On(c)] = "on"
    BY <1>1, <1>4 DEF Writes, AloneActive
  <2>2. ~(Step(c)' = "set_on" /\ On(c) \in done'[c])
    <3>1. Step(c)' = "set_on" => Step(c) # "drop"
      <4>1. Step(c) = "drop" => Step(c)' = "leave"
        BY Moves
      <4> QED
        BY <4>1
    <3> QED
      BY <1>3, <3>1
  <2>3. ASSUME c \in Activating, Step(c)' = "commit"
        PROVE  /\ \A l \in Level \ {On(c)} : IF holder[l] = c THEN draft[l] # "on" ELSE store[l] # "on"
               /\ \A d \in Activating : Step(d)' = "commit" => d = c
    <3>1. Step(c) = "unique"
      BY <1>4, <2>3
    <3>2. ASSUME NEW d \in Activating \ {c} PROVE Step(d)' = Step(d)
      <4>1. d \in Client \ {c}
        BY DEF Activating
      <4> QED
        BY <1>3, <4>1 DEF Step, Idle
    <3> QED
      BY <3>1, <3>2
  <2> QED
    BY <1>2, <1>3, <1>4, <2>1, <2>2, <2>3 DEF AloneActive
<1>8. WavesDropped(c)'
  <2>1. ASSUME Dropping(c)
        PROVE  /\ \A w \in Wave : holder[w] = c => store[w] # Absent /\ draft[w] = Absent
               /\ Step(c)' \in {"drop", "leave"} => done'[c] \cap Wave \subseteq Listed(c)
               /\ Step(c)' = "commit" =>
                    \A w \in Listed(c) : holder[w] = c /\ \A l \in Level : Gone(c, <<l, w>>)
    <3>1. \A w \in Wave : holder[w] = c => store[w] # Absent /\ draft[w] = Absent
      BY <1>1, <2>1 DEF Writes, WavesDropped
    <3>2. Step(c)' \in {"drop", "leave"} => done'[c] \cap Wave \subseteq Listed(c)
      BY <1>1, <1>3, <1>4, <2>1 DEF Writes, WavesDropped
    <3>3. ASSUME Step(c)' = "commit", NEW w \in Listed(c)
          PROVE  holder[w] = c /\ \A l \in Level : Gone(c, <<l, w>>)
      <4>1. w \in Wave /\ Step(c) = "leave" /\ w \in done[c] /\ todo[c] = {} /\ todo[c] # None
        BY <1>4, <2>1, <3>3, Doing, ConstantsAssumption
      <4>2. \A l \in Level : <<l, w>> \in todo[c] \/ Gone(c, <<l, w>>)
        BY <1>1, <2>1, <4>1 DEF Writes, WavesDropped
      <4>3. holder[w] = c
        BY <1>1, <4>1 DEF Local, ScanFits
      <4> QED
        BY <4>1, <4>2, <4>3
    <3> QED
      BY <3>1, <3>2, <3>3
  <2> QED
    BY <1>2, <1>3, <1>4, <2>1 DEF WavesDropped, Gone
<1>9. Tells(c)'
  <2>1. Replacing(c) /\ Step(c) = "read" => Step(c)' = "commit"
    BY <1>4
  <2> QED
    BY <1>1, <1>3, <1>4, <2>1 DEF Writes, Tells
<1> QED
  BY <1>5, <1>6, <1>7, <1>8, <1>9 DEF Writes
-----------------------------------------------------------------------------
(* The members of a request's list are that list, in order. *)
LEMMA OrderOf ==
  ASSUME NEW c \in Client, request[c] \in Requests, NEW l \in Level, NEW version,
         \A w \in Wave : version[<<l, w>>] = IF w \in Listed(c) THEN Position(c, w) ELSE Absent
  PROVE  /\ InOrder(l, version) = request[c].waves /\ Placed(version, l)
         /\ Here(version, l) = Listed(c)
<1> DEFINE list == request[c].waves
           here == Here(version, l)
<1>1. list \in Seq(Wave) /\ IsInjective(list) /\ Listed(c) \subseteq Wave
  BY RequestsAssumption, Asked DEF Listed
<1>2. DOMAIN list \in SUBSET Nat /\ IsFiniteSet(DOMAIN list) /\ Closed(list) = list
  BY <1>1, ClosedSequence
<1>3. \A w \in Listed(c) : Position(c, w) \in DOMAIN list /\ list[Position(c, w)] = w
  <2> SUFFICES ASSUME NEW w \in Listed(c)
               PROVE  Position(c, w) \in DOMAIN list /\ list[Position(c, w)] = w
    OBVIOUS
  <2>1. \E i \in DOMAIN list : list[i] = w
    BY DEF Listed, ToSet
  <2> QED
    BY <2>1 DEF Position
<1>4. here = Listed(c)
  <2>1. \A w \in Listed(c) : Position(c, w) # Absent
    BY <1>2, <1>3, ConstantsAssumption
  <2> QED
    BY <1>1, <2>1 DEF Here
<1>5. \A w \in here : version[<<l, w>>] = Position(c, w)
  BY <1>1, <1>4
<1>6. \A i \in DOMAIN list : list[i] \in here /\ version[<<l, list[i]>>] = i
  <2> SUFFICES ASSUME NEW i \in DOMAIN list
               PROVE  list[i] \in here /\ version[<<l, list[i]>>] = i
    OBVIOUS
  <2>1. list[i] \in Listed(c)
    BY DEF Listed, ToSet
  <2>2. list[Position(c, list[i])] = list[i] /\ Position(c, list[i]) \in DOMAIN list
    BY <1>3, <2>1
  <2>3. Position(c, list[i]) = i
    BY <1>1, <2>2 DEF IsInjective
  <2> QED
    BY <1>4, <1>5, <2>1, <2>3
<1>7. {version[<<l, w>>] : w \in here} = DOMAIN list
  <2>1. \A w \in here : version[<<l, w>>] \in DOMAIN list
    BY <1>3, <1>4, <1>5
  <2> HIDE DEF list, here
  <2> QED
    BY <1>6, <2>1
<1>8. \A i \in DOMAIN list : (CHOOSE w \in here : version[<<l, w>>] = i) = list[i]
  <2> SUFFICES ASSUME NEW i \in DOMAIN list
               PROVE  (CHOOSE w \in here : version[<<l, w>>] = i) = list[i]
    OBVIOUS
  <2>1. \A w \in here : version[<<l, w>>] = i => w = list[i]
    BY <1>3, <1>4, <1>5
  <2> QED
    BY <1>6, <2>1
<1>9. [i \in {version[<<l, w>>] : w \in here} |-> CHOOSE w \in here : version[<<l, w>>] = i] = list
  <2>1. list = [i \in DOMAIN list |-> list[i]]
    BY <1>1
  <2> QED
    BY <1>7, <1>8, <2>1
<1>10. InOrder(l, version) = list
  BY <1>2, <1>9 DEF InOrder, Here
<1>11. Placed(version, l)
  <2>1. IsFiniteSet(here)
    <3>1. list \in [DOMAIN list -> here]
      <4>1. list = [i \in DOMAIN list |-> list[i]]
        BY <1>1
      <4> HIDE DEF list, here
      <4> QED
        BY <1>6, <4>1
    <3>2. \A w \in here : \E i \in DOMAIN list : list[i] = w
      BY <1>3, <1>4
    <3>3. list \in Surjection(DOMAIN list, here)
      BY <3>1, <3>2 DEF Surjection
    <3> QED
      BY <1>2, <3>3, FS_Surjection
  <2>2. \A w \in here : version[<<l, w>>] \in Nat
    BY <1>2, <1>3, <1>4, <1>5
  <2>3. \A v, w \in here : version[<<l, v>>] = version[<<l, w>>] => v = w
    BY <1>3, <1>4, <1>5
  <2> QED
    BY <2>1, <2>2, <2>3 DEF Placed
<1> QED
  BY <1>4, <1>10, <1>11

(* A statement with a "where" has found what it needs. *)
LEMMA ScannedWrites ==
  ASSUME Inv, BookInv, NEW c \in Client, Scanned(c)
  PROVE  /\ ByItself(c) /\ Writes(c)'
         /\ ~Idle(c) /\ ~LastStep(c) /\ NextStatement(c) /\ UNCHANGED rowVars
         /\ Step(c) \in Scanning /\ todo[c] # None
<1>1. TypeOK /\ Local(c) /\ Writes(c)
  BY DEF Inv, BookInv
<1>2. /\ todo[c] = {} /\ todo[c] # None /\ Enough(c) /\ NextStatement(c) /\ UNCHANGED rowVars
      /\ store' = store /\ draft' = draft /\ holder' = holder /\ shares' = shares /\ told' = told
  BY ConstantsAssumption DEF Scanned, rowVars
<1>3. Step(c) \in Scanning /\ ~Idle(c)
  BY <1>1, <1>2 DEF Local, ScanFits
<1>4. ~LastStep(c)
  BY <1>1, <1>3, Stages DEF Scanning
<1>5. Step(c) \in {"rename", "remove", "set_on"} => On(c) \in done[c]
  BY <1>1, <1>2 DEF Enough, Local, ScanFits
<1>6. Dropping(c) /\ Step(c) = "leave" => Listed(c) \subseteq done[c]
  BY <1>2 DEF Enough
<1>7. OthersSame(c) /\ CommitsAlone(c)
  BY <1>2, <1>3, <1>4, NextSame DEF Scanning
<1>8. ByItself(c)
  BY <1>2, <1>7, KeptByItself DEF ByItself, EndsOrKeeps
<1>9. Writes(c)'
  BY <1>2, <1>3, <1>4, <1>5, <1>6, OnwardWrites DEF Scanning
<1> QED
  BY <1>2, <1>3, <1>4, <1>8, <1>9

(* The index has no other active level. *)
LEMMA PassUniqueWrites ==
  ASSUME Inv, BookInv, NEW c \in Client, PassUnique(c)
  PROVE  /\ ByItself(c) /\ Writes(c)'
         /\ ~Idle(c) /\ ~LastStep(c) /\ c \in Activating
<1>1. TypeOK /\ Local(c) /\ Writes(c) /\ RowsAgree
  BY DEF Inv, BookInv
<1>2. /\ Step(c) = "unique" /\ NextStatement(c) /\ UNCHANGED rowVars
      /\ store' = store /\ draft' = draft /\ holder' = holder /\ shares' = shares /\ told' = told
      /\ \A b \in Client : ~Contests(b, c)
      /\ ~OtherActive(c)
  BY DEF PassUnique, rowVars
<1>3. ~Idle(c) /\ c \in Activating /\ ~Replacing(c) /\ ~Dropping(c)
  BY <1>2, Doing
<1>4. ~LastStep(c)
  BY <1>1, <1>2, <1>3, Stages
<1>5. OthersSame(c) /\ CommitsAlone(c)
  BY <1>2, <1>3, <1>4, NextSame
<1>6. ByItself(c)
  BY <1>2, <1>5, KeptByItself DEF ByItself, EndsOrKeeps
<1>7. ASSUME NEW l \in Level \ {On(c)}
      PROVE  IF holder[l] = c THEN draft[l] # "on" ELSE store[l] # "on"
  <2>1. l \in Key /\ holder[l] \in Client \cup {Nobody}
    BY <1>1, Keys DEF TypeOK
  <2>2. CASE holder[l] = c
    BY <1>2, <2>2 DEF OtherActive, Seen
  <2>3. CASE holder[l] = Nobody
    BY <1>1, <1>2, <2>1, <2>3 DEF OtherActive, Seen, RowsAgree
  <2>4. CASE holder[l] \in Client \ {c}
    BY <1>2, <2>4 DEF Contests
  <2> QED
    BY <2>1, <2>2, <2>3, <2>4
<1>8. ASSUME NEW d \in Activating \ {c}, Step(d) = "commit" PROVE FALSE
  <2>1. d \in Client /\ Writes(d) /\ On(d) \in Level
    BY Doing DEF BookInv, Activating
  <2>2. holder[On(d)] = d /\ draft[On(d)] = "on"
    BY <1>8, <2>1 DEF Writes, AloneActive
  <2>3. Contests(d, c)
    BY <1>2, <1>8, <2>1, <2>2 DEF Contests
  <2> QED
    BY <1>2, <2>1, <2>3
<1>9. Writes(c)'
  BY <1>2, <1>3, <1>4, <1>7, <1>8, OnwardWrites
<1> QED
  BY <1>3, <1>4, <1>6, <1>9

(* The level of a create is inserted. *)
LEMMA InsertLevelWrites ==
  ASSUME Inv, BookInv, NEW c \in Client, InsertLevel(c)
  PROVE  ByItself(c) /\ Writes(c)' /\ ~Idle(c) /\ ~LastStep(c) /\ Replacing(c)
<1>1. TypeOK /\ Local(c) /\ Writes(c) /\ RowsAgree
  BY DEF Inv, BookInv
<1> DEFINE k == On(c)
<1>2. /\ Step(c) = "level" /\ NextStatement(c) /\ shares' = shares /\ told' = told
      /\ store' = store /\ WriteRow(c, k, "off")
  BY DEF InsertLevel, WriteRow
<1>3. ~Idle(c) /\ request[c].op = "create" /\ Replacing(c) /\ ~Dropping(c) /\ c \notin Activating
  <2>1. ~Idle(c) /\ request[c].op = "create"
    BY <1>2, Doing
  <2>2. Replacing(c)
    BY <2>1 DEF Replacing
  <2> QED
    BY <2>1, <2>2, Doing
<1>4. ~LastStep(c) /\ Naming(c)
  BY <1>1, <1>2, <1>3, Stages DEF Naming
<1>5. k \in Level /\ k \in Key /\ store[k] = Absent /\ holder[k] = Nobody
  <2>1. k \in Level /\ k \in Key
    BY <1>3, Doing
  <2>2. Untouched(k) /\ k \in RowsOf(k)
    BY <1>1, <1>4 DEF Local, Fresh, RowsOf
  <2> QED
    BY <2>1, <2>2 DEF Untouched
<1>6. /\ RowsByItself(c) /\ \A j \in Key : holder[j] = c => holder'[j] = c
      /\ draft'[k] = "off" /\ holder'[k] = c
      /\ \A j \in Key \ {k} : draft'[j] = draft[j] /\ holder'[j] = holder[j]
  <2>1. k \notin Level \X Wave
    BY <1>5, Keys
  <2> HIDE DEF k
  <2> QED
    BY <1>2, <1>5, <2>1, WriteByItself
<1>7. OthersSame(c) /\ CommitsAlone(c)
  BY <1>2, <1>3, <1>4, NextSame
<1>8. ByItself(c)
  BY <1>2, <1>6, <1>7 DEF ByItself, EndsOrKeeps
<1>9. Step(c)' = "members" /\ Replacing(c)' /\ ~Dropping(c)' /\ c \notin Activating'
  BY <1>2, <1>3, <1>4, Moves
<1>10. request' = request /\ On(c)' = On(c)
  BY <1>2, <1>3, <1>4, Onward
<1>11. LevelWritten(c)'
  BY <1>2, <1>3, <1>5, <1>6, <1>9, <1>10 DEF LevelWritten
<1>12. MembersWritten(c)' /\ AloneActive(c)' /\ WavesDropped(c)'
  BY <1>9 DEF MembersWritten, AloneActive, WavesDropped
<1>13. Tells(c)'
  BY <1>1, <1>2, <1>9 DEF Writes, Tells
<1> QED
  BY <1>3, <1>4, <1>8, <1>11, <1>12, <1>13 DEF Writes

(* The members are inserted: BreaksRule is out of the question. *)
LEMMA InsertMembersWrites ==
  ASSUME Inv, BookInv, NEW c \in Client, InsertMembers(c)
  PROVE  /\ ByItself(c) /\ Writes(c)' /\ ~Idle(c) /\ ~LastStep(c) /\ Replacing(c)
         /\ NextStatement(c) /\ store' = store /\ Step(c) = "members"
<1>1. TypeOK /\ Local(c) /\ Writes(c) /\ RowsAgree
  BY DEF Inv, BookInv
<1>2. /\ Step(c) = "members" /\ NextStatement(c) /\ shares' = shares /\ told' = told
      /\ store' = store
      /\ \A k \in Key : /\ draft'[k] = IF k \in Members(c) THEN Position(c, k[2]) ELSE draft[k]
                        /\ holder'[k] = IF k \in Members(c) THEN c ELSE holder[k]
      /\ \A b \in Client : ~HoldsUp(b, c)
  <2>1. Step(c) = "members" /\ \A b \in Client : ~HoldsUp(b, c)
    BY DEF InsertMembers
  <2>2. ~BreaksRule(c)
    BY <2>1, RulesHold
  <2> QED
    BY <2>1, <2>2 DEF InsertMembers, WriteRows
<1>3. /\ ~Idle(c) /\ Replacing(c) /\ ~Dropping(c) /\ c \notin Activating /\ HasLevel(c) /\ HasWaves(c)
      /\ On(c) \in Level /\ On(c) \in Key /\ Listed(c) \subseteq Wave
  BY <1>2, Doing
<1>4. ~LastStep(c)
  BY <1>1, <1>2, <1>3, Stages
<1>5. Members(c) \subseteq Level \X Wave /\ Members(c) \subseteq Key
  BY <1>3, Keys DEF Members
<1>6. holder[On(c)] = c /\ Listed(c) \subseteq shares[c]
  BY <1>1, <1>3 DEF Local, LevelHeld, WavesShared
<1>7. \A k \in Members(c) : /\ k[1] = On(c) /\ k[2] \in shares[c]
                            /\ holder[k] \in {Nobody, c} /\ store'[k] = store[k]
  <2> SUFFICES ASSUME NEW k \in Members(c) PROVE k[1] = On(c) /\ k[2] \in shares[c] /\ holder[k] \in {Nobody, c}
    BY <1>2
  <2>1. k[1] = On(c) /\ k[2] \in Listed(c) /\ k \in {On(c)} \X Wave /\ k \in Key
    BY <1>3, <1>5 DEF Members
  <2>2. holder[k] \in Client \cup {Nobody} /\ k \in Touched(c)
    BY <1>1, <2>1 DEF TypeOK, Touched
  <2>3. holder[k] \in {Nobody, c}
    BY <1>2, <2>2 DEF HoldsUp
  <2> QED
    BY <1>6, <2>1, <2>3
<1>8. RowsByItself(c)
  BY <1>2, <1>6, <1>7 DEF RowsByItself
<1>9. OthersSame(c) /\ CommitsAlone(c)
  BY <1>2, <1>3, <1>4, NextSame
<1>10. ByItself(c)
  BY <1>2, <1>8, <1>9 DEF ByItself, EndsOrKeeps
<1>11. Step(c)' = "read" /\ Replacing(c)' /\ ~Dropping(c)' /\ c \notin Activating'
  BY <1>2, <1>3, <1>4, Moves
<1>12. request' = request /\ On(c)' = On(c) /\ Listed(c)' = Listed(c)
  BY <1>2, <1>3, <1>4, Onward
<1>13. LevelWritten(c)'
  <2>1. On(c) \notin Members(c)
    BY <1>3, <1>5, Keys
  <2> QED
    BY <1>1, <1>2, <1>3, <1>11, <1>12, <2>1 DEF Writes, LevelWritten
<1>14. MembersWritten(c)'
  <2> SUFFICES ASSUME NEW w \in Wave
               PROVE  IF w \in Listed(c)
                        THEN holder'[<<On(c), w>>] = c /\ draft'[<<On(c), w>>] = Position(c, w)'
                        ELSE Gone(c, <<On(c), w>>)'
    BY <1>12 DEF MembersWritten
  <2>1. <<On(c), w>> \in Key /\ (<<On(c), w>> \in Members(c) <=> w \in Listed(c))
    BY <1>3, Keys DEF Members
  <2>2. Position(c, w)' = Position(c, w)
    BY <1>12 DEF Position
  <2>3. Gone(c, <<On(c), w>>)
    BY <1>1, <1>2 DEF Local, MembersGone
  <2> QED
    BY <1>2, <1>12, <2>1, <2>2, <2>3 DEF Gone
<1>15. AloneActive(c)' /\ WavesDropped(c)'
  BY <1>11 DEF AloneActive, WavesDropped
<1>16. Tells(c)'
  BY <1>1, <1>2, <1>11 DEF Writes, Tells
<1> QED
  BY <1>2, <1>3, <1>4, <1>10, <1>13, <1>14, <1>15, <1>16 DEF Writes

(* The list is read back before the commit: it is the request's own. *)
LEMMA ReadsItsOwn ==
  ASSUME Inv, BookInv, NEW c \in Client, Step(c) \in {"read", "commit"}, Replacing(c)
  PROVE  \A w \in Wave : /\ <<On(c), w>> \in Key
                         /\ Seen(c, <<On(c), w>>) = IF w \in Listed(c) THEN Position(c, w) ELSE Absent
<1>1. MembersWritten(c)
  BY DEF BookInv, Writes
<1>2. On(c) \in Level
  BY Doing
<1> SUFFICES ASSUME NEW w \in Wave
             PROVE  /\ <<On(c), w>> \in Key
                    /\ Seen(c, <<On(c), w>>) = IF w \in Listed(c) THEN Position(c, w) ELSE Absent
  OBVIOUS
<1>3. <<On(c), w>> \in Key
  BY <1>2, Keys
<1> QED
  BY <1>1, <1>3 DEF MembersWritten, Gone, Seen

(* The list is read back before the commit. *)
LEMMA ReadWrites ==
  ASSUME Inv, BookInv, NEW c \in Client, Read(c), ~LastStep(c)
  PROVE  ByItself(c) /\ Writes(c)' /\ ~Idle(c) /\ NextStatement(c) /\ UNCHANGED rowVars /\ Replacing(c)
<1>1. TypeOK /\ Local(c) /\ Writes(c)
  BY DEF Inv, BookInv
<1> DEFINE seen == [k \in Key |-> Seen(c, k)]
<1>2. /\ Step(c) = "read" /\ NextStatement(c) /\ UNCHANGED rowVars
      /\ store' = store /\ draft' = draft /\ holder' = holder /\ shares' = shares
      /\ told' = [told EXCEPT ![c] = InOrder(On(c), seen)]
  BY DEF Read, rowVars
<1> HIDE DEF seen
<1>3. ~Idle(c) /\ (Replacing(c) \/ c \in Activating)
  BY <1>2, Doing
<1>4. Replacing(c)
  BY <1>1, <1>2, <1>3, Stages DEF Activating
<1>5. On(c) \in Level /\ request[c] \in Requests /\ ~Dropping(c)
  BY <1>4, Doing
<1>6. \A w \in Wave : seen[<<On(c), w>>] = IF w \in Listed(c) THEN Position(c, w) ELSE Absent
  BY <1>2, <1>4, ReadsItsOwn DEF seen
<1>7. InOrder(On(c), seen) = request[c].waves
  BY <1>5, <1>6, OrderOf
<1>8. told'[c] = request[c].waves /\ \A d \in Client \ {c} : told'[d] = told[d]
  BY <1>1, <1>2, <1>7 DEF TypeOK
<1>9. OthersSame(c) /\ CommitsAlone(c)
  BY <1>2, <1>3, <1>8, NextSame
<1>10. ByItself(c)
  BY <1>2, <1>9, KeptByItself DEF ByItself, EndsOrKeeps
<1>11. Writes(c)'
  BY <1>2, <1>3, <1>4, <1>5, <1>8, OnwardWrites
<1> QED
  BY <1>2, <1>3, <1>4, <1>10, <1>11

(* An activation commits, and will read its answer. *)
LEMMA CommitOnwardWrites ==
  ASSUME Inv, BookInv, NEW c \in Client, Commit(c), ~LastStep(c)
  PROVE  ByItself(c) /\ Writes(c)' /\ c \in Activating /\ NextStatement(c) /\ Step(c)' = "read"
<1>1. TypeOK /\ Local(c) /\ Writes(c)
  BY DEF Inv, BookInv
<1>2. /\ Step(c) = "commit" /\ CommitRows(c) /\ NextStatement(c) /\ told' = told
      /\ \A d \in Client \ {c} : shares'[d] = shares[d]
  BY <1>1 DEF Commit, TypeOK
<1>3. ~Idle(c)
  BY <1>2, Doing DEF Names
<1>4. c \in Activating
  BY <1>1, <1>2, <1>3, Stages DEF Activating
<1>5. ~Dropping(c) /\ ~Replacing(c) /\ On(c) \in Level
  BY <1>3, <1>4, Doing
<1>6. RowsByItself(c) /\ EndsOrKeeps(c) /\ \A k \in Key : holder'[k] # c
  <2>1. c # Nobody
    BY ConstantsAssumption
  <2> QED
    BY <1>2, <2>1, CommitByItself
<1>7. ByItself(c)
  BY <1>2, <1>3, <1>6, NextSame DEF ByItself
<1>8. Step(c)' = "read" /\ ~Replacing(c)' /\ ~Dropping(c)' /\ c \in Activating'
  BY <1>2, <1>3, <1>4, <1>5, Moves
<1>9. ~HasLevel(c)' /\ ~Idle(c)' /\ request' = request
  <2>1. request' = request
    BY <1>2, <1>3, Onward
  <2> QED
    BY <1>4, <2>1 DEF HasLevel, Idle, Activating
<1>10. \A l \in Level : holder'[l] # c
  BY <1>6, Keys
<1>11. LevelWritten(c)' /\ MembersWritten(c)' /\ AloneActive(c)' /\ WavesDropped(c)'
  BY <1>8, <1>9, <1>10 DEF LevelWritten, MembersWritten, AloneActive, WavesDropped
<1>12. Tells(c)'
  BY <1>1, <1>2, <1>5, <1>8 DEF Writes, Tells
<1> QED
  BY <1>2, <1>4, <1>7, <1>8, <1>11, <1>12 DEF Writes
-----------------------------------------------------------------------------
(* What each kind of commit does to the committed rows. *)
LEMMA CommitKinds ==
  ASSUME Inv, NEW c \in Client, Step(c) = "commit"
  PROVE  \/ Replacing(c)
         \/ ~Idle(c) /\ request[c].op = "delete"
         \/ Dropping(c)
         \/ c \in Activating
<1>1. TypeOK /\ ~Idle(c)
  BY Doing DEF Inv, Names
<1> QED
  BY <1>1, Stages DEF Replacing, Dropping, Activating

(* What the commit of a create or a replace leaves behind. *)
LEMMA CommitReplaces ==
  ASSUME Inv, BookInv, NEW c \in Client, Step(c) = "commit", CommitRows(c), Replacing(c)
  PROVE  /\ On(c) \in Level /\ request[c] \in Requests /\ Listed(c) \subseteq Wave
         /\ request[c].op = "create" => store[On(c)] = Absent
         /\ request[c].op = "update" => store[On(c)] # Absent
         /\ store'[On(c)] # Absent /\ (store'[On(c)] = "on" <=> store[On(c)] = "on")
         /\ \A l \in Level \ {On(c)} :
              store'[l] = store[l] /\ \A w \in Wave : store'[<<l, w>>] = store[<<l, w>>]
         /\ \A w \in Wave :
              /\ store'[w] = store[w]
              /\ store'[<<On(c), w>>] = IF w \in Listed(c) THEN Position(c, w) ELSE Absent
         /\ \A w \in Listed(c) : store[w] # Absent
         /\ told[c] = request[c].waves
<1>1. TypeOK /\ Local(c) /\ Writes(c) /\ RowsAgree
  BY DEF Inv, BookInv
<1>2. \A k \in Key : store'[k] = IF holder[k] = c THEN draft[k] ELSE store[k]
  BY CommitByItself
<1>3. /\ On(c) \in Level /\ On(c) \in Key /\ ~Dropping(c) /\ c \notin Activating
      /\ HasLevel(c) /\ HasWaves(c) /\ request[c] \in Requests /\ Listed(c) \subseteq Wave
  BY Doing
<1>4. request[c].op \in {"create", "update"}
  BY DEF Replacing
<1>5. holder[On(c)] = c /\ store'[On(c)] = draft[On(c)]
  BY <1>1, <1>2, <1>3 DEF Local, LevelHeld
<1>6. /\ request[c].op = "create" => store[On(c)] = Absent /\ draft[On(c)] = "off"
      /\ request[c].op = "update" => store[On(c)] # Absent /\ draft[On(c)] = store[On(c)]
  BY <1>1, <1>3 DEF Writes, LevelWritten
<1>7. store'[On(c)] # Absent /\ (store'[On(c)] = "on" <=> store[On(c)] = "on")
  BY <1>4, <1>5, <1>6, ConstantsAssumption
<1>8. \A k \in Key : holder[k] = c => k = On(c) \/ (k \in Level \X Wave /\ k[1] = On(c))
  BY <1>1, <1>3 DEF Local, LocksFit, MayHold
<1>9. \A l \in Level \ {On(c)} :
        store'[l] = store[l] /\ \A w \in Wave : store'[<<l, w>>] = store[<<l, w>>]
  <2> SUFFICES ASSUME NEW l \in Level \ {On(c)}, NEW w \in Wave
               PROVE  holder[l] # c /\ holder[<<l, w>>] # c
    BY <1>2, <1>8, Keys
  <2>1. l \in Key /\ l \notin Level \X Wave /\ <<l, w>> \in Key /\ <<l, w>> # On(c)
    BY <1>3, Keys
  <2> QED
    BY <1>8, <2>1
<1>10. \A w \in Wave : store'[w] = store[w]
  <2> SUFFICES ASSUME NEW w \in Wave PROVE w \in Key /\ holder[w] # c
    BY <1>2
  <2>1. w \in Key /\ w # On(c) /\ w \notin Level \X Wave
    BY <1>3, Keys
  <2> QED
    BY <1>8, <2>1
<1>11. \A w \in Wave : store'[<<On(c), w>>] = IF w \in Listed(c) THEN Position(c, w) ELSE Absent
  <2> SUFFICES ASSUME NEW w \in Wave
               PROVE  store'[<<On(c), w>>] = IF w \in Listed(c) THEN Position(c, w) ELSE Absent
    OBVIOUS
  <2>1. /\ <<On(c), w>> \in Key
        /\ Seen(c, <<On(c), w>>) = IF w \in Listed(c) THEN Position(c, w) ELSE Absent
    BY ReadsItsOwn
  <2> QED
    BY <1>2, <2>1 DEF Seen
<1>12. \A w \in Listed(c) : store[w] # Absent
  <2> SUFFICES ASSUME NEW w \in Listed(c) PROVE store[w] # Absent
    OBVIOUS
  <2>1. w \in shares[c] /\ w \in Key
    BY <1>1, <1>3, Keys DEF Local, WavesShared
  <2>2. holder[w] = Nobody /\ draft[w] # Absent
    BY <2>1, SharedFree
  <2> QED
    BY <1>1, <2>1, <2>2 DEF RowsAgree
<1>13. told[c] = request[c].waves
  BY <1>1 DEF Writes, Tells
<1> QED
  BY <1>3, <1>6, <1>7, <1>9, <1>10, <1>11, <1>12, <1>13

(* What the commit of a delete leaves behind. *)
LEMMA CommitDeletes ==
  ASSUME Inv, BookInv, NEW c \in Client, Step(c) = "commit", CommitRows(c),
         ~Idle(c), request[c].op = "delete"
  PROVE  /\ On(c) \in Level /\ store[On(c)] # Absent /\ store'[On(c)] = Absent
         /\ \A l \in Level \ {On(c)} :
              store'[l] = store[l] /\ \A w \in Wave : store'[<<l, w>>] = store[<<l, w>>]
         /\ \A w \in Wave : store'[w] = store[w]
         /\ told[c] = None
<1>1. TypeOK /\ Local(c) /\ Writes(c)
  BY DEF Inv, BookInv
<1>2. \A k \in Key : store'[k] = IF holder[k] = c THEN draft[k] ELSE store[k]
  BY CommitByItself
<1>3. ~Dropping(c) /\ ~Replacing(c) /\ c \notin Activating /\ HasLevel(c)
  BY DEF Dropping, Replacing, Activating, HasLevel
<1>4. On(c) \in Level /\ On(c) \in Key
  BY <1>3, Doing
<1>5. holder[On(c)] = c
  BY <1>1, <1>3 DEF Local, LevelHeld
<1>6. store[On(c)] # Absent /\ draft[On(c)] = Absent
  BY <1>1, <1>3 DEF Writes, LevelWritten
<1>7. \A k \in Key : holder[k] = c => k = On(c) \/ (k \in Level \X Wave /\ k[1] = On(c))
  BY <1>1, <1>3 DEF Local, LocksFit, MayHold
<1>8. \A l \in Level \ {On(c)} :
        store'[l] = store[l] /\ \A w \in Wave : store'[<<l, w>>] = store[<<l, w>>]
  <2> SUFFICES ASSUME NEW l \in Level \ {On(c)}, NEW w \in Wave
               PROVE  holder[l] # c /\ holder[<<l, w>>] # c
    BY <1>2, <1>7, Keys
  <2>1. l \in Key /\ l \notin Level \X Wave /\ <<l, w>> \in Key /\ <<l, w>> # On(c)
    BY <1>4, Keys
  <2> QED
    BY <1>7, <2>1
<1>9. \A w \in Wave : store'[w] = store[w]
  <2> SUFFICES ASSUME NEW w \in Wave PROVE w \in Key /\ holder[w] # c
    BY <1>2
  <2>1. w \in Key /\ w # On(c) /\ w \notin Level \X Wave
    BY <1>4, Keys
  <2> QED
    BY <1>7, <2>1
<1>10. told[c] = None
  BY <1>1, <1>3 DEF Writes, Tells
<1> QED
  BY <1>2, <1>4, <1>5, <1>6, <1>8, <1>9, <1>10

(* What the commit of waves deleted leaves behind. *)
LEMMA CommitDrops ==
  ASSUME Inv, BookInv, NEW c \in Client, Step(c) = "commit", CommitRows(c), Dropping(c)
  PROVE  /\ Listed(c) \subseteq Wave
         /\ \A l \in Level : store'[l] = store[l]
         /\ \A w \in Listed(c) :
              /\ store[w] # Absent /\ store'[w] = Absent
              /\ \A l \in Level : store'[<<l, w>>] = Absent
         /\ \A w \in Wave \ Listed(c) :
              store'[w] = store[w] /\ \A l \in Level : store'[<<l, w>>] = store[<<l, w>>]
         /\ told[c] = None
<1>1. TypeOK /\ Local(c) /\ Writes(c)
  BY DEF Inv, BookInv
<1>2. \A k \in Key : store'[k] = IF holder[k] = c THEN draft[k] ELSE store[k]
  BY CommitByItself
<1>3. Listed(c) \subseteq Wave /\ c \notin Activating /\ ~HasLevel(c) /\ ~Replacing(c)
  BY Doing DEF Dropping
<1>4. \A k \in Key : holder[k] = c => \/ k \in Wave /\ k \in Listed(c)
                                      \/ k \in Level \X Wave /\ holder[k[2]] = c
  BY <1>1, <1>3 DEF Local, LocksFit, MayHold
<1>5. \A l \in Level : store'[l] = store[l]
  <2> SUFFICES ASSUME NEW l \in Level PROVE l \in Key /\ holder[l] # c
    BY <1>2
  <2> QED
    BY <1>4, Keys
<1>6. ASSUME NEW w \in Listed(c)
      PROVE  /\ store[w] # Absent /\ store'[w] = Absent
             /\ \A l \in Level : store'[<<l, w>>] = Absent
  <2>1. w \in Wave /\ w \in Key /\ \A l \in Level : <<l, w>> \in Key
    BY <1>3, <1>6, Keys
  <2>2. holder[w] = c /\ \A l \in Level : Gone(c, <<l, w>>)
    BY <1>1, <1>6 DEF Writes, WavesDropped
  <2>3. store[w] # Absent /\ draft[w] = Absent
    BY <1>1, <2>1, <2>2 DEF Writes, WavesDropped
  <2> QED
    BY <1>2, <2>1, <2>2, <2>3 DEF Gone
<1>7. ASSUME NEW w \in Wave \ Listed(c)
      PROVE  store'[w] = store[w] /\ \A l \in Level : store'[<<l, w>>] = store[<<l, w>>]
  <2>1. w \in Key /\ holder[w] # c
    BY <1>4, Keys
  <2>2. ASSUME NEW l \in Level PROVE <<l, w>> \in Key /\ holder[<<l, w>>] # c
    <3>1. <<l, w>> \in Key /\ <<l, w>> \notin Wave /\ <<l, w>>[2] = w
      BY Keys
    <3> QED
      BY <1>4, <2>1, <3>1
  <2> QED
    BY <1>2, <2>1, <2>2
<1>8. told[c] = None
  BY <1>1, <1>3 DEF Writes, Tells
<1> QED
  BY <1>3, <1>5, <1>6, <1>7, <1>8

(* What the commit of an activation leaves behind. *)
LEMMA CommitActivates ==
  ASSUME Inv, BookInv, NEW c \in Client, Step(c) = "commit", CommitRows(c), c \in Activating
  PROVE  /\ On(c) \in Level /\ store[On(c)] # Absent
         /\ \A l \in Level : /\ store'[l] = "on" <=> l = On(c)
                             /\ store'[l] = Absent <=> store[l] = Absent
                             /\ \A w \in Wave : store'[<<l, w>>] = store[<<l, w>>]
         /\ \A w \in Wave : store'[w] = store[w]
<1>1. TypeOK /\ Local(c) /\ Writes(c)
  BY DEF Inv, BookInv
<1>2. \A k \in Key : store'[k] = IF holder[k] = c THEN draft[k] ELSE store[k]
  BY CommitByItself
<1>3. On(c) \in Level /\ On(c) \in Key /\ ~Dropping(c) /\ ~HasLevel(c)
  BY Doing
<1>4. /\ holder[On(c)] = c /\ draft[On(c)] = "on"
      /\ \A l \in Level \ {On(c)} : IF holder[l] = c THEN draft[l] # "on" ELSE store[l] # "on"
      /\ \A l \in Level : holder[l] = c => store[l] # Absent /\ draft[l] # Absent
  BY <1>1 DEF Writes, AloneActive, LevelWritten
<1>5. \A k \in Key : holder[k] = c => k \in Level
  BY <1>1, <1>3 DEF Local, LocksFit, MayHold
<1>6. ASSUME NEW l \in Level
      PROVE  (store'[l] = "on" <=> l = On(c)) /\ (store'[l] = Absent <=> store[l] = Absent)
  <2>1. l \in Key
    BY Keys
  <2> QED
    BY <1>2, <1>3, <1>4, <2>1, ConstantsAssumption
<1>7. \A l \in Level, w \in Wave : store'[<<l, w>>] = store[<<l, w>>]
  BY <1>2, <1>5, Keys
<1>8. \A w \in Wave : store'[w] = store[w]
  BY <1>2, <1>5, Keys
<1> QED
  BY <1>3, <1>4, <1>6, <1>7, <1>8

(* Where the rows of a level are the same, so is the list. *)
LEMMA SamePlaces ==
  ASSUME NEW l, NEW old, NEW new, \A w \in Wave : new[<<l, w>>] = old[<<l, w>>]
  PROVE  /\ Here(new, l) = Here(old, l) /\ (Placed(old, l) => Placed(new, l))
         /\ InOrder(l, new) = InOrder(l, old)
<1>1. Here(new, l) = Here(old, l)
  BY DEF Here
<1>2. \A w \in Here(old, l) : w \in Wave
  BY DEF Here
<1>3. Placed(old, l) => Placed(new, l)
  BY <1>1, <1>2 DEF Placed
<1> DEFINE here == Here(old, l)
           OldAt(i) == CHOOSE w \in here : old[<<l, w>>] = i
           NewAt(i) == CHOOSE w \in here : new[<<l, w>>] = i
           oldPlaces == {old[<<l, w>>] : w \in here}
           newPlaces == {new[<<l, w>>] : w \in here}
<1>4. oldPlaces = newPlaces
  BY <1>2
<1>5. \A i : OldAt(i) = NewAt(i)
  <2> TAKE i
  <2>1. \A w \in here : (new[<<l, w>>] = i) = (old[<<l, w>>] = i)
    BY <1>2
  <2> HIDE DEF here
  <2> QED
    BY <2>1
<1>6. InOrder(l, old) = Closed([i \in oldPlaces |-> OldAt(i)])
  BY DEF InOrder, Here
<1>7. InOrder(l, new) = Closed([i \in newPlaces |-> NewAt(i)])
  <2>1. InOrder(l, new) = Closed([i \in {new[<<l, w>>] : w \in Here(new, l)} |->
                                    CHOOSE w \in Here(new, l) : new[<<l, w>>] = i])
    BY DEF InOrder, Here
  <2> QED
    BY <1>1, <2>1
<1>8. InOrder(l, new) = InOrder(l, old)
  <2> HIDE DEF OldAt, NewAt, oldPlaces, newPlaces
  <2>1. [i \in oldPlaces |-> OldAt(i)] = [i \in newPlaces |-> NewAt(i)]
    BY <1>4, <1>5
  <2> QED
    BY <1>6, <1>7, <2>1
<1> QED
  BY <1>1, <1>3, <1>8

(* After a commit the rows of every level are still a list. *)
LEMMA CommitKeepsLists ==
  ASSUME Inv, BookInv, NEW c \in Client, Step(c) = "commit", CommitRows(c)
  PROVE  StoredAreLists'
<1> SUFFICES ASSUME NEW l \in Level, store'[l] # Absent PROVE Placed(store', l)
  BY DEF StoredAreLists
<1>1. store[l] # Absent => Placed(store, l)
  BY DEF BookInv, StoredAreLists
<1>2. CASE Replacing(c)
  <2>1. /\ On(c) \in Level /\ request[c] \in Requests
        /\ l # On(c) => store'[l] = store[l] /\ \A w \in Wave : store'[<<l, w>>] = store[<<l, w>>]
        /\ \A w \in Wave : store'[<<On(c), w>>] = IF w \in Listed(c) THEN Position(c, w) ELSE Absent
    BY <1>2, CommitReplaces
  <2>2. l # On(c) => Placed(store', l)
    BY <1>1, <2>1, SamePlaces
  <2>3. l = On(c) => Placed(store', l)
    BY <2>1, OrderOf
  <2> QED
    BY <2>2, <2>3
<1>3. CASE ~Idle(c) /\ request[c].op = "delete"
  <2>1. l # On(c) /\ store'[l] = store[l] /\ \A w \in Wave : store'[<<l, w>>] = store[<<l, w>>]
    BY <1>3, CommitDeletes
  <2> QED
    BY <1>1, <2>1, SamePlaces
<1>4. CASE Dropping(c)
  <2>1. /\ store'[l] = store[l]
        /\ \A w \in Wave : store'[<<l, w>>] \in {Absent, store[<<l, w>>]}
    BY <1>4, CommitDrops
  <2>2. Here(store', l) \subseteq Here(store, l)
        /\ \A w \in Here(store', l) : store'[<<l, w>>] = store[<<l, w>>]
    BY <2>1 DEF Here
  <2>3. Placed(store, l)
    BY <1>1, <2>1
  <2>4. IsFiniteSet(Here(store', l))
    BY <2>2, <2>3, FS_Subset DEF Placed
  <2> QED
    BY <2>2, <2>3, <2>4 DEF Placed
<1>5. CASE c \in Activating
  <2>1. store[l] # Absent /\ \A w \in Wave : store'[<<l, w>>] = store[<<l, w>>]
    BY <1>5, CommitActivates
  <2> QED
    BY <1>1, <2>1, SamePlaces
<1> QED
  BY <1>2, <1>3, <1>4, <1>5, CommitKinds

(* BookInv, part by part: a step of one request. *)
LEMMA StepKeepsBook ==
  ASSUME Inv, Inv', BookInv, NEW c \in Client, ByItself(c), Writes(c)',
         store' = store \/ StoredAreLists'
  PROVE  BookInv'
<1>1. StoredAreLists'
  <2>1. CASE store' = store
    BY <2>1 DEF BookInv, StoredAreLists
  <2> QED
    BY <2>1
<1>2. MembersAreShared'
  BY MembersStayShared DEF BookInv
<1>3. \A d \in Client \ {c} : Writes(d)'
  BY OtherWrites DEF BookInv
<1> QED
  BY <1>1, <1>2, <1>3 DEF BookInv

(* A request ends. *)
LEMMA EndKeepsBook ==
  ASSUME Inv, Inv', BookInv, NEW c \in Client, NEW a, NEW list, Finish(c, a, list),
         \/ RollbackRows(c)
         \/ CommitRows(c) /\ Step(c) = "commit"
         \/ UNCHANGED rowVars /\ \A k \in Key : holder[k] # c
  PROVE  BookInv'
<1>1. OthersSame(c) /\ CommitsAlone(c) /\ Writes(c)'
  BY FinishSame, EndedWrites
<1>2. CASE RollbackRows(c)
  <2>1. store' = store
    BY <1>2 DEF RollbackRows
  <2> QED
    BY <1>1, <1>2, <2>1, RollbackByItself, StepKeepsBook DEF ByItself
<1>3. CASE CommitRows(c) /\ Step(c) = "commit"
  BY <1>1, <1>3, CommitByItself, CommitKeepsLists, StepKeepsBook DEF ByItself
<1>4. CASE UNCHANGED rowVars /\ \A k \in Key : holder[k] # c
  <2>1. store' = store /\ holder' = holder
    BY <1>4 DEF rowVars
  <2> QED
    BY <1>1, <1>4, <2>1, KeptByItself, StepKeepsBook DEF ByItself, EndsOrKeeps
<1> QED
  BY <1>2, <1>3, <1>4

(* A wave is saved. *)
LEMMA SaveWaveKeepsBook ==
  ASSUME Inv, BookInv, NEW w \in Wave, SaveWave(w)
  PROVE  BookInv'
<1>1. TypeOK /\ RowsAgree
  BY DEF Inv
<1>2. /\ holder[w] = Nobody
      /\ store' = [store EXCEPT ![w] = "there"] /\ draft' = [draft EXCEPT ![w] = "there"]
      /\ holder' = holder /\ shares' = shares /\ request' = request
      /\ at' = at /\ todo' = todo /\ done' = done /\ told' = told
  BY DEF SaveWave, scanVars
<1>3. w \in Key /\ w \notin Level /\ w \notin Level \X Wave
  BY Keys
<1>4. \A k \in Key \ {w} : store'[k] = store[k] /\ draft'[k] = draft[k]
  BY <1>1, <1>2, <1>3 DEF TypeOK
<1>5. /\ \A l \in Level : store'[l] = store[l] /\ draft'[l] = draft[l]
      /\ \A l \in Level, v \in Wave :
           store'[<<l, v>>] = store[<<l, v>>] /\ draft'[<<l, v>>] = draft[<<l, v>>]
  BY <1>3, <1>4, Keys
<1>6. StoredAreLists'
  <2> SUFFICES ASSUME NEW l \in Level, store'[l] # Absent PROVE Placed(store', l)
    BY DEF StoredAreLists
  <2>1. Placed(store, l) /\ \A v \in Wave : store'[<<l, v>>] = store[<<l, v>>]
    BY <1>5 DEF BookInv, StoredAreLists
  <2> QED
    BY <2>1, SamePlaces
<1>7. MembersAreShared'
  BY <1>2, <1>5 DEF BookInv, MembersAreShared
<1>8. ASSUME NEW c \in Client PROVE Writes(c)'
  <2>1. Writes(c) /\ Local(c) /\ c # Nobody
    BY ConstantsAssumption DEF BookInv, Inv
  <2>2. /\ Idle(c)' = Idle(c) /\ Step(c)' = Step(c) /\ On(c)' = On(c) /\ Listed(c)' = Listed(c)
        /\ Dropping(c)' = Dropping(c) /\ Replacing(c)' = Replacing(c) /\ Activating' = Activating
    BY <1>2 DEF Idle, Step, On, Listed, Dropping, Replacing, Activating
  <2>3. HasLevel(c)' = HasLevel(c)
    BY <1>2, <2>2 DEF HasLevel
  <2>4. ~Idle(c) /\ ~Dropping(c) => On(c) \in Level
    BY Doing
  <2>5. /\ HasLevel(c) \/ Replacing(c) \/ c \in Activating => ~Idle(c) /\ ~Dropping(c)
        /\ Step(c) \in {"rename", "remove", "set_on"} => ~Idle(c) /\ ~Dropping(c)
    <3>1. Step(c) \in {"rename", "remove"} => HasLevel(c)' \/ (~Idle(c) /\ ~Dropping(c))
      BY Doing DEF Dropping
    <3>2. Step(c) = "set_on" => c \in Activating
      BY Doing
    <3> QED
      BY <2>3, <3>1, <3>2, Doing
  <2>6. LevelWritten(c)'
    BY <1>2, <1>5, <2>1, <2>2, <2>3, <2>4, <2>5 DEF Writes, LevelWritten
  <2>7. MembersWritten(c)'
    BY <1>2, <1>5, <2>1, <2>2, <2>4, <2>5 DEF Writes, MembersWritten, Gone, Position
  <2>8. AloneActive(c)'
    <3>1. \A d \in Activating : Step(d)' = Step(d)
      BY <1>2 DEF Step, Idle
    <3> QED
      BY <1>2, <1>5, <2>1, <2>2, <2>4, <2>5, <3>1 DEF Writes, AloneActive
  <2>9. WavesDropped(c)'
    <3>1. \A v \in Wave : holder[v] = c => store'[v] = store[v] /\ draft'[v] = draft[v]
      BY <1>2, <1>4, <2>1, Keys
    <3>2. Dropping(c) => Listed(c) \subseteq Wave
      BY Doing DEF Dropping
    <3> QED
      BY <1>2, <1>5, <2>1, <2>2, <3>1, <3>2 DEF Writes, WavesDropped, Gone
  <2>10. Tells(c)'
    BY <1>2, <2>1, <2>2 DEF Writes, Tells
  <2> QED
    BY <2>6, <2>7, <2>8, <2>9, <2>10 DEF Writes
<1> QED
  BY <1>6, <1>7, <1>8 DEF BookInv

(* An activation that reads its answer has nothing locked any more. *)
LEMMA HoldsNothing ==
  ASSUME Inv, NEW c \in Client, Step(c) = "read", LastStep(c)
  PROVE  c \in Activating /\ \A k \in Key : holder[k] # c
<1>1. TypeOK /\ Local(c) /\ ~Idle(c)
  BY Doing DEF Inv, Names
<1>2. c \in Activating
  BY <1>1, Stages DEF Activating
<1>3. ~Dropping(c) /\ ~HasLevel(c)
  BY <1>2, Doing
<1> QED
  BY <1>1, <1>2, <1>3 DEF Local, LocksFit, MayHold

(* The invariant is kept by every step. *)
LEMMA NextBook ==
  ASSUME Inv, BookInv, [Next]_vars
  PROVE  BookInv'
<1>1. Inv'
  BY NextInv
<1>2. ASSUME NEW w \in Wave, SaveWave(w) PROVE BookInv'
  BY <1>2, SaveWaveKeepsBook
<1>3. ASSUME NEW c \in Client, NEW r \in Requests, Receive(c, r) PROVE BookInv'
  <2>1. store' = store
    BY <1>3 DEF Receive, rowVars
  <2> QED
    BY <1>1, <1>3, <2>1, ReceiveWrites, StepKeepsBook
<1>4. ASSUME NEW c \in Client, Scan(c) PROVE BookInv'
  <2>1. store' = store
    BY <1>4 DEF Scan, rowVars
  <2> QED
    BY <1>1, <1>4, <2>1, ScanWrites, StepKeepsBook
<1>5. ASSUME NEW c \in Client, Scanned(c) PROVE BookInv'
  <2>1. store' = store
    BY <1>5 DEF Scanned, rowVars
  <2> QED
    BY <1>1, <1>5, <2>1, ScannedWrites, StepKeepsBook
<1>6. ASSUME NEW c \in Client, NEW a, Rollback(c, a) PROVE BookInv'
  BY <1>1, <1>6, EndKeepsBook DEF Rollback
<1>7. ASSUME NEW c \in Client, NEW k \in Key, WriteFound(c, k) PROVE BookInv'
  <2>1. store' = store
    BY <1>7 DEF WriteFound, WriteRow
  <2> QED
    BY <1>1, <1>7, <2>1, WriteFoundWrites, StepKeepsBook
<1>8. ASSUME NEW c \in Client, NEW k \in Key, ShareFound(c, k) PROVE BookInv'
  <2>1. store' = store
    BY <1>8 DEF ShareFound, rowVars
  <2> QED
    BY <1>1, <1>8, <2>1, ShareFoundWrites, StepKeepsBook
<1>9. ASSUME NEW c \in Client, NEW k \in Key, Skip(c, k) PROVE BookInv'
  <2>1. store' = store
    BY <1>9 DEF Skip, rowVars, WriteRow
  <2> QED
    BY <1>1, <1>9, <2>1, SkipWrites, StepKeepsBook
<1>10. ASSUME NEW c \in Client, InsertLevel(c) PROVE BookInv'
  <2>1. store' = store
    BY <1>10 DEF InsertLevel, WriteRow
  <2> QED
    BY <1>1, <1>10, <2>1, InsertLevelWrites, StepKeepsBook
<1>11. ASSUME NEW c \in Client, InsertMembers(c) PROVE BookInv'
  BY <1>1, <1>11, InsertMembersWrites, StepKeepsBook
<1>12. ASSUME NEW c \in Client, PassUnique(c) PROVE BookInv'
  <2>1. store' = store
    BY <1>12 DEF PassUnique, rowVars
  <2> QED
    BY <1>1, <1>12, <2>1, PassUniqueWrites, StepKeepsBook
<1>13. ASSUME NEW c \in Client, Read(c) PROVE BookInv'
  <2>1. CASE LastStep(c)
    <3>1. UNCHANGED rowVars /\ \E a, list : Finish(c, a, list)
      BY <1>13, <2>1 DEF Read
    <3>2. \A k \in Key : holder[k] # c
      BY <1>13, <2>1, HoldsNothing DEF Read
    <3> QED
      BY <1>1, <3>1, <3>2, EndKeepsBook
  <2>2. CASE ~LastStep(c)
    <3>1. store' = store
      BY <1>13, <2>2 DEF Read, rowVars
    <3> QED
      BY <1>1, <1>13, <2>2, <3>1, ReadWrites, StepKeepsBook
  <2> QED
    BY <2>1, <2>2
<1>14. ASSUME NEW c \in Client, Commit(c) PROVE BookInv'
  <2>1. Step(c) = "commit" /\ CommitRows(c)
    BY <1>14 DEF Commit
  <2>2. CASE LastStep(c)
    <3>1. Finish(c, "ok", told[c])
      BY <1>14, <2>2 DEF Commit
    <3> QED
      BY <1>1, <2>1, <3>1, EndKeepsBook
  <2>3. CASE ~LastStep(c)
    BY <1>1, <1>14, <2>1, <2>3, CommitOnwardWrites, CommitKeepsLists, StepKeepsBook
  <2> QED
    BY <2>2, <2>3
<1>15. ASSUME NEW c \in Client, CommitUnheard(c) PROVE BookInv'
  BY <1>1, <1>15, EndKeepsBook DEF CommitUnheard
<1>16. CASE UNCHANGED vars
  <2>1. /\ store' = store /\ draft' = draft /\ holder' = holder /\ shares' = shares
        /\ request' = request /\ at' = at /\ todo' = todo /\ done' = done /\ told' = told
    BY <1>16 DEF vars
  <2>2. StoredAreLists' /\ MembersAreShared'
    BY <2>1 DEF BookInv, StoredAreLists, MembersAreShared
  <2>3. ASSUME NEW c \in Client PROVE Writes(c)'
    <3>1. Writes(c)
      BY DEF BookInv
    <3>2. /\ Idle(c)' = Idle(c) /\ Step(c)' = Step(c) /\ On(c)' = On(c) /\ Listed(c)' = Listed(c)
          /\ Dropping(c)' = Dropping(c) /\ Replacing(c)' = Replacing(c) /\ Activating' = Activating
      BY <2>1 DEF Idle, Step, On, Listed, Dropping, Replacing, Activating
    <3>3. HasLevel(c)' = HasLevel(c) /\ \A d \in Activating : Step(d)' = Step(d)
      BY <2>1, <3>2 DEF HasLevel, Step, Idle
    <3>4. LevelWritten(c)' /\ MembersWritten(c)' /\ WavesDropped(c)' /\ Tells(c)'
      BY <2>1, <3>1, <3>2, <3>3
      DEF Writes, LevelWritten, MembersWritten, WavesDropped, Tells, Gone, Position
    <3>5. AloneActive(c)'
      BY <2>1, <3>1, <3>2, <3>3 DEF Writes, AloneActive
    <3> QED
      BY <3>4, <3>5 DEF Writes
  <2> QED
    BY <2>2, <2>3 DEF BookInv
<1> QED
  BY <1>2, <1>3, <1>4, <1>5, <1>6, <1>7, <1>8, <1>9, <1>10, <1>11, <1>12, <1>13, <1>14,
     <1>15, <1>16 DEF Next, Refuse, ViolateUnique, Fail, DeadlockAbort
-----------------------------------------------------------------------------
(* What is settled about a request, statement by statement.                *)
Refusal(c) == IF request[c].op = "batch" THEN "MissingWaves" ELSE "NotFound"

VerdictBySteps(c) ==
  /\ Idle(c) => Verdict(c) = None
  /\ Step(c) = "read" /\ c \in Activating => Verdict(c) = "activated"
  /\ Step(c) = "read" /\ Replacing(c) => Verdict(c) = None
  /\ Step(c) \in {"rename", "set_on", "remove"} =>
       Verdict(c) = IF Found(c) = {} THEN "NotFound" ELSE None
  /\ Step(c) = "waves" =>
       Verdict(c) = IF Found(c) # Listed(c) THEN "MissingWaves" ELSE None
  /\ Step(c) = "drop" =>
       Verdict(c) = IF Found(c) # Listed(c) THEN Refusal(c) ELSE None
  /\ Step(c) = "leave" /\ Dropping(c) =>
       Verdict(c) = IF Listed(c) \subseteq done[c] THEN None ELSE Refusal(c)
  /\ Step(c) = "leave" /\ ~Dropping(c) => Verdict(c) = None
  /\ Step(c) \in {"level", "clear", "members", "stand_down", "unique", "commit"} =>
       Verdict(c) = None

EveryVerdict == \A c \in Client : VerdictBySteps(c)

(* The cases of Verdict exclude each other. *)
LEMMA VerdictIs == EveryVerdict
<1> SUFFICES ASSUME NEW c \in Client PROVE VerdictBySteps(c)
  BY DEF EveryVerdict
<1>1. Idle(c) => Step(c) \notin Names
  BY NoStep
<1>2. Idle(c) => Verdict(c) = None
  BY <1>1 DEF Verdict, Names
<1>3. /\ Step(c) = "read" /\ c \in Activating => request[c].op = "activate"
      /\ Step(c) = "read" /\ Replacing(c) => request[c].op # "activate"
  BY DEF Activating, Replacing
<1>4. /\ Step(c) = "read" /\ c \in Activating => Verdict(c) = "activated"
      /\ Step(c) = "read" /\ Replacing(c) => Verdict(c) = None
      /\ Step(c) \in {"rename", "set_on", "remove"} =>
           Verdict(c) = IF Found(c) = {} THEN "NotFound" ELSE None
      /\ Step(c) = "leave" /\ ~Dropping(c) => Verdict(c) = None
      /\ Step(c) \in {"level", "clear", "members", "stand_down", "unique", "commit"} =>
           Verdict(c) = None
  BY <1>3 DEF Verdict
<1>5. /\ Step(c) = "waves" =>
           Verdict(c) = IF Found(c) # Listed(c) THEN "MissingWaves" ELSE None
      /\ Step(c) = "drop" =>
           Verdict(c) = IF Found(c) # Listed(c) THEN Refusal(c) ELSE None
      /\ Step(c) = "leave" /\ Dropping(c) =>
           Verdict(c) = IF Listed(c) \subseteq done[c] THEN None ELSE Refusal(c)
  BY DEF Verdict, WavesWanted, Refusal
<1> QED
  BY <1>2, <1>4, <1>5 DEF VerdictBySteps

(* The same of one request, before and after a step. *)
LEMMA VerdictOf ==
  ASSUME NEW c \in Client
  PROVE  VerdictBySteps(c) /\ VerdictBySteps(c)'
<1>1. EveryVerdict /\ EveryVerdict'
  BY VerdictIs, PTL
<1> QED
  BY <1>1 DEF EveryVerdict

(* A step of one request settles nothing of another. *)
LEMMA VerdictsOf ==
  ASSUME NEW c \in Client, OthersSame(c)
  PROVE  /\ \A d \in Client \ {c} : Verdict(d)' = Verdict(d)
         /\ Verdicts' = [Verdicts EXCEPT ![c] = Verdict(c)']
<1>1. ASSUME NEW d \in Client \ {c} PROVE Verdict(d)' = Verdict(d)
  <2>1. request'[d] = request[d] /\ at'[d] = at[d] /\ todo'[d] = todo[d] /\ done'[d] = done[d]
    BY DEF OthersSame
  <2>2. Step(d)' = Step(d) /\ On(d)' = On(d) /\ Listed(d)' = Listed(d)
    BY <2>1 DEF Step, Idle, On, Listed
  <2>3. Dropping(d)' = Dropping(d) /\ WavesWanted(d)' = WavesWanted(d)
    BY <2>1, <2>2 DEF Dropping, Idle, WavesWanted
  <2>4. Where(d)' = Where(d)
    BY <2>1, <2>2, <2>3 DEF Where
  <2>5. Found(d)' = Found(d)
    BY <2>1, <2>4 DEF Found
  <2> QED
    BY <2>1, <2>2, <2>3, <2>5 DEF Verdict
<1>2. Verdicts' = [Verdicts EXCEPT ![c] = Verdict(c)']
  BY <1>1 DEF Verdicts
<1> QED
  BY <1>1, <1>2

(* Nothing is settled unless it is of the request that steps. *)
LEMMA VerdictStays ==
  ASSUME NEW c \in Client, OthersSame(c), Verdict(c)' = Verdict(c)
  PROVE  Verdicts' = Verdicts
BY VerdictsOf DEF Verdicts

(* What is committed, as the book has it. *)
LEMMA ListsAre ==
  ASSUME BookInv, NEW l \in Level
  PROVE  /\ CommittedLists[l] = IF store[l] = Absent THEN Absent ELSE InOrder(l, store)
         /\ CommittedLists[l] = Absent <=> store[l] = Absent
<1>1. CommittedLists[l] = IF store[l] = Absent THEN Absent ELSE InOrder(l, store)
  BY DEF CommittedLists
<1>2. ASSUME store[l] # Absent PROVE InOrder(l, store) # Absent
  <2> DEFINE here == Here(store, l)
             places == {store[<<l, w>>] : w \in here}
             f == [i \in places |-> CHOOSE w \in here : store[<<l, w>>] = i]
  <2>1. Placed(store, l)
    BY <1>2 DEF BookInv, StoredAreLists
  <2>2. places \in SUBSET Nat /\ IsFiniteSet(here)
    BY <2>1 DEF Placed
  <2>3. IsFiniteSet(places)
    <3> DEFINE g == [w \in here |-> store[<<l, w>>]]
    <3>1. g \in Surjection(here, places)
      BY DEF Surjection
    <3> QED
      BY <2>2, <3>1, FS_Surjection
  <2>4. f \in [places -> Wave]
    <3>1. \A i \in places : \E w \in here : store[<<l, w>>] = i
      OBVIOUS
    <3>2. \A i \in places : (CHOOSE w \in here : store[<<l, w>>] = i) \in here
      BY <3>1
    <3>3. here \subseteq Wave
      BY DEF Here
    <3> HIDE DEF here, places
    <3> QED
      BY <3>2, <3>3
  <2>5. InOrder(l, store) = Closed(f)
    BY DEF InOrder, Here
  <2>6. Closed(f) \in Seq(Wave)
    <3> HIDE DEF places, f
    <3> QED
      BY <2>2, <2>3, <2>4, ClosedIsList
  <2> QED
    BY <2>5, <2>6, ConstantsAssumption
<1> QED
  BY <1>1, <1>2

(* The book is a function of what is committed. *)
LEMMA BookStays ==
  ASSUME store' = store
  PROVE  /\ CommittedLists' = CommittedLists /\ CommittedActive' = CommittedActive
         /\ CommittedWaves' = CommittedWaves
BY DEF CommittedLists, CommittedActive, CommittedWaves

(* A step that commits, answers and settles nothing is none of the book's. *)
LEMMA Stutters ==
  ASSUME NEW c \in Client, OthersSame(c), store' = store, request' = request, answer' = answer,
         Verdict(c)' = Verdict(c)
  PROVE  UNCHANGED Book!vars
<1>1. /\ CommittedLists' = CommittedLists /\ CommittedActive' = CommittedActive
      /\ CommittedWaves' = CommittedWaves /\ Verdicts' = Verdicts
  BY BookStays, VerdictStays
<1> QED
  BY <1>1 DEF Book!vars

(* A step that settles a refusal does so when the refusal is true. *)
LEMMA Settled ==
  ASSUME Inv, BookInv, NEW c \in Client, OthersSame(c), ~Idle(c),
         store' = store, request' = request, answer' = answer, Verdict(c) = None,
         \/ /\ Verdict(c)' = "MissingWaves" /\ request[c].op \in {"create", "update", "batch"}
            /\ \E w \in Listed(c) : store[w] = Absent
         \/ /\ Verdict(c)' = "NotFound" /\ request[c].op \in {"update", "delete", "activate"}
            /\ On(c) \in Level /\ store[On(c)] = Absent
         \/ /\ Verdict(c)' = "NotFound" /\ request[c].op = "drop"
            /\ \E w \in Listed(c) : store[w] = Absent
  PROVE  Book!Settle(c)
<1>1. /\ CommittedLists' = CommittedLists /\ CommittedActive' = CommittedActive
      /\ CommittedWaves' = CommittedWaves /\ Verdicts' = [Verdicts EXCEPT ![c] = Verdict(c)']
  BY BookStays, VerdictsOf
<1>2. Book!Open(c)
  BY DEF Book!Open, Verdicts, Idle
<1>3. (\E w \in Listed(c) : store[w] = Absent) => ~(Book!Listed(c) \subseteq CommittedWaves)
  BY DEF Book!Listed, Listed, ToSet, CommittedWaves
<1>4. On(c) \in Level /\ store[On(c)] = Absent => CommittedLists[request[c].on] = Absent
  BY ListsAre DEF On
<1> QED
  BY <1>1, <1>2, <1>3, <1>4 DEF Book!Settle, Book!bookVars

(* A statement picks its rows: what is missing now is settled now. *)
LEMMA ScanBook ==
  ASSUME Inv, BookInv, NEW c \in Client, Scan(c)
  PROVE  Book!Settle(c) \/ UNCHANGED Book!vars
<1>1. TypeOK /\ Local(c) /\ Writes(c) /\ RowsAgree
  BY DEF Inv, BookInv
<1>2. /\ Step(c) \in Scanning /\ todo[c] = None
      /\ todo'[c] = {k \in Where(c) : Matches(c, Seen(c, k))}
      /\ store' = store /\ request' = request /\ answer' = answer
      /\ done' = done /\ SameStatement(c)
  BY <1>1 DEF Scan, rowVars, SameStatement, TypeOK
<1>3. OthersSame(c) /\ Inv'
  BY ScanWrites, ScanKeeps DEF ByItself
<1>4. /\ Step(c)' = Step(c) /\ Listed(c)' = Listed(c) /\ Dropping(c)' = Dropping(c)
      /\ Activating' = Activating /\ Idle(c)' = Idle(c) /\ On(c)' = On(c)
      /\ Replacing(c)' = Replacing(c) /\ Refusal(c)' = Refusal(c)
  BY <1>2, Inside DEF Replacing, Refusal
<1>5. ~Idle(c)
  BY <1>2, Doing DEF Scanning, Names
<1>6. todo'[c] # None
  <2> DEFINE picked == {k \in Where(c) : Matches(c, Seen(c, k))}
  <2>1. todo'[c] \in SUBSET Key \/ todo'[c] = None
    BY <1>3 DEF Inv, TypeOK
  <2>2. Step(c) \in Scanning => picked \subseteq Key
    <3>1. /\ Step(c) \in {"waves", "drop"} => Where(c) \subseteq Key
          /\ Step(c) \in {"rename", "set_on", "remove"} => Where(c) \subseteq Key
          /\ Step(c) = "stand_down" => Where(c) \subseteq Key
          /\ Step(c) = "clear" => Where(c) \subseteq Key
          /\ Step(c) = "leave" => Where(c) \subseteq Key
      <4>1. Step(c) \in {"waves", "drop"} => Where(c) \subseteq Key
        BY <1>5, Doing DEF Where, Key
      <4>2. Step(c) \in {"rename", "set_on", "remove", "clear"} => On(c) \in Level
        BY <1>5, Doing DEF Dropping
      <4>3. Step(c) = "leave" => done[c] \subseteq Wave
        BY <1>1, <1>2 DEF Local, ScanFits
      <4>4. Step(c) = "leave" /\ ~Dropping(c) => On(c) \in Level
        BY <1>5, Doing
      <4> QED
        BY <4>1, <4>2, <4>3, <4>4 DEF Where, Key
    <3> QED
      BY <3>1 DEF Scanning
  <2> QED
    BY <1>2, <2>2, ConstantsAssumption
<1>7. Found(c) = Where(c) /\ Found(c)' = todo'[c] \cup done[c]
  BY <1>2, <1>6 DEF Found
<1>8. CASE Step(c) \in {"waves", "drop"}
  <2>1. done[c] = {} /\ Where(c) = Listed(c) /\ Listed(c) \subseteq Wave
    BY <1>1, <1>2, <1>5, <1>8, Doing DEF Local, ScanFits, Where
  <2>2. Verdict(c) = None
    BY <1>7, <1>8, <2>1, VerdictOf DEF VerdictBySteps
  <2> DEFINE v == IF Step(c) = "waves" THEN "MissingWaves" ELSE Refusal(c)
  <2>3. Verdict(c)' = IF Found(c)' # Listed(c) THEN v ELSE None
    <3>1. /\ Step(c)' = "waves" =>
               Verdict(c)' = IF Found(c)' # Listed(c)' THEN "MissingWaves" ELSE None
          /\ Step(c)' = "drop" =>
               Verdict(c)' = IF Found(c)' # Listed(c)' THEN Refusal(c)' ELSE None
      BY <1>3, VerdictOf DEF VerdictBySteps
    <3> QED
      BY <1>4, <1>8, <3>1
  <2>4. CASE Found(c)' = Listed(c)
    BY <1>2, <1>3, <2>2, <2>3, <2>4, Stutters
  <2>5. CASE Found(c)' # Listed(c)
    <3>1. PICK w \in Listed(c) : ~Matches(c, Seen(c, w))
      BY <1>2, <1>7, <2>1, <2>5
    <3>2. w \in Wave /\ w \in Key /\ Seen(c, w) = Absent
      BY <1>8, <2>1, <3>1, Keys DEF Matches
    <3>3. holder[w] # c
      <4>1. Step(c) = "waves" => ~Dropping(c)
        BY Doing
      <4>2. ~MayHold(c, w)
        BY <1>8, <2>1, <3>2, <4>1, Keys DEF MayHold
      <4> QED
        BY <1>1, <3>2, <4>2 DEF Local, LocksFit
    <3>4. store[w] = Absent
      BY <3>2, <3>3 DEF Seen
    <3>5. \/ v = "MissingWaves" /\ request[c].op \in {"create", "update", "batch"}
          \/ v = "NotFound" /\ request[c].op = "drop"
      <4>1. CASE Step(c) = "waves"
        BY <4>1, Doing DEF Replacing
      <4>2. CASE Step(c) = "drop"
        BY <4>2, Doing DEF Dropping, Refusal
      <4> QED
        BY <1>8, <4>1, <4>2
    <3> QED
      BY <1>2, <1>3, <1>5, <2>2, <2>3, <2>5, <3>1, <3>4, <3>5, Settled
  <2> QED
    BY <2>4, <2>5
<1>9. CASE Step(c) \in {"rename", "set_on", "remove"}
  <2>1. done[c] = {} /\ Where(c) = {On(c)} /\ On(c) \in Level /\ On(c) \in Key
    <3>1. ~Dropping(c)
      BY <1>9, Doing DEF Dropping
    <3> QED
      BY <1>1, <1>2, <1>5, <1>9, <3>1, Doing DEF Local, ScanFits, Where
  <2>2. Verdict(c) = None
    BY <1>7, <1>9, <2>1, VerdictOf DEF VerdictBySteps
  <2>3. Verdict(c)' = IF Found(c)' = {} THEN "NotFound" ELSE None
    <3>1. Step(c)' \in {"rename", "set_on", "remove"} =>
            Verdict(c)' = IF Found(c)' = {} THEN "NotFound" ELSE None
      BY <1>3, VerdictOf DEF VerdictBySteps
    <3> QED
      BY <1>4, <1>9, <3>1
  <2>4. CASE Found(c)' # {}
    BY <1>2, <1>3, <2>2, <2>3, <2>4, Stutters
  <2>5. CASE Found(c)' = {}
    <3>1. Seen(c, On(c)) = Absent
      BY <1>2, <1>7, <1>9, <2>1, <2>5 DEF Matches
    <3>2. store[On(c)] = Absent
      <4>1. CASE holder[On(c)] = c
        <5>1. Step(c) = "set_on" => draft[On(c)] # Absent
          BY <1>1, <2>1, <4>1, Doing DEF Writes, LevelWritten
        <5>2. Step(c) \in {"rename", "remove"} => ~MayHold(c, On(c))
          <6>1. Step(c) \in {"rename", "remove"} => c \notin Activating /\ ~Dropping(c) /\ ~HasLevel(c)
            BY Doing DEF Activating, HasLevel, Dropping
          <6> QED
            BY <2>1, <6>1, Keys DEF MayHold
        <5> QED
          BY <1>1, <1>9, <2>1, <3>1, <4>1, <5>1, <5>2 DEF Seen, Local, LocksFit
      <4>2. CASE holder[On(c)] # c
        BY <3>1, <4>2 DEF Seen
      <4> QED
        BY <4>1, <4>2
    <3>3. request[c].op \in {"update", "delete", "activate"}
      BY <1>9, Doing DEF Activating
    <3> QED
      BY <1>2, <1>3, <1>5, <2>1, <2>2, <2>3, <2>5, <3>2, <3>3, Settled
  <2> QED
    BY <2>4, <2>5
<1>10. CASE Step(c) \in {"clear", "leave", "stand_down"}
  <2>1. /\ Step(c)' = "leave" /\ Dropping(c)' =>
             Verdict(c)' = IF Listed(c)' \subseteq done'[c] THEN None ELSE Refusal(c)'
        /\ Step(c)' = "leave" /\ ~Dropping(c)' => Verdict(c)' = None
        /\ Step(c)' \in {"clear", "stand_down"} => Verdict(c)' = None
    <3>1. /\ Step(c)' = "leave" /\ Dropping(c)' =>
               Verdict(c)' = IF Listed(c)' \subseteq done[c]' THEN None ELSE Refusal(c)'
          /\ Step(c)' = "leave" /\ ~Dropping(c)' => Verdict(c)' = None
          /\ Step(c)' \in {"level", "clear", "members", "stand_down", "unique", "commit"} =>
               Verdict(c)' = None
      BY <1>3, VerdictOf DEF VerdictBySteps
    <3> QED
      BY <3>1
  <2>2. Verdict(c)' = Verdict(c)
    BY <1>2, <1>4, <1>10, <2>1, VerdictOf DEF VerdictBySteps
  <2> QED
    BY <1>2, <1>3, <2>2, Stutters
<1> QED
  BY <1>2, <1>8, <1>9, <1>10 DEF Scanning

(* A row of a statement is treated: the verdict stays, unless it was not there. *)
LEMMA TreatedBook ==
  ASSUME Inv, BookInv, NEW c \in Client, NEW k \in Key, WriteFound(c, k) \/ ShareFound(c, k)
  PROVE  UNCHANGED Book!vars
<1>1. TypeOK /\ Local(c)
  BY DEF Inv
<1>2. /\ Available(c, k) /\ store' = store /\ request' = request /\ answer' = answer
      /\ todo'[c] = todo[c] \ {k} /\ done'[c] = done[c] \cup {k}
      /\ SameStatement(c)
  BY <1>1 DEF WriteFound, ShareFound, Treated, SameStatement, TypeOK, rowVars, WriteRow
<1>3. OthersSame(c)
  BY WriteFoundWrites, ShareFoundWrites DEF ByItself
<1>4. /\ Step(c)' = Step(c) /\ Listed(c)' = Listed(c) /\ Dropping(c)' = Dropping(c)
      /\ Activating' = Activating /\ Idle(c)' = Idle(c)
      /\ Replacing(c)' = Replacing(c) /\ Refusal(c)' = Refusal(c)
  BY <1>2, Inside DEF Replacing, Refusal
<1>5. /\ ~Idle(c) /\ Step(c) \in Scanning /\ k \in todo[c] /\ todo[c] # None
      /\ Step(c) = "leave" => k \in Level \X Wave
  BY <1>2, Picked DEF Available
<1>6. todo'[c] # None
  BY <1>1, <1>2, <1>5, ConstantsAssumption DEF TypeOK
<1>7. Found(c)' = Found(c)
  BY <1>2, <1>5, <1>6 DEF Found
<1>8. Step(c) = "leave" /\ Dropping(c) => (Listed(c) \subseteq done'[c] <=> Listed(c) \subseteq done[c])
  BY <1>2, <1>5, Doing, Keys
<1>9. Verdict(c)' = Verdict(c)
  <2>1. VerdictBySteps(c) /\ VerdictBySteps(c)'
    BY VerdictOf
  <2> QED
    BY <1>4, <1>5, <1>7, <1>8, <2>1 DEF VerdictBySteps, Scanning
<1> QED
  BY <1>2, <1>3, <1>9, Stutters

(* A row is gone when its lock is given: that settles a refusal as well. *)
LEMMA SkipBook ==
  ASSUME Inv, BookInv, NEW c \in Client, NEW k \in Key, Skip(c, k)
  PROVE  Book!Settle(c) \/ UNCHANGED Book!vars
<1>1. TypeOK /\ Local(c) /\ Writes(c) /\ RowsAgree
  BY DEF Inv, BookInv
<1>2. /\ Available(c, k) /\ store' = store /\ request' = request /\ answer' = answer
      /\ todo'[c] = todo[c] \ {k} /\ done'[c] = done[c] /\ ~Matches(c, draft[k])
      /\ SameStatement(c)
  BY <1>1 DEF Skip, Treated, SameStatement, TypeOK, rowVars, WriteRow
<1>3. OthersSame(c)
  BY SkipWrites DEF ByItself
<1>4. /\ Step(c)' = Step(c) /\ Listed(c)' = Listed(c) /\ Dropping(c)' = Dropping(c)
      /\ Activating' = Activating /\ Idle(c)' = Idle(c) /\ On(c)' = On(c)
      /\ Replacing(c)' = Replacing(c) /\ Refusal(c)' = Refusal(c)
  BY <1>2, Inside DEF Replacing, Refusal
<1>5. /\ ~Idle(c) /\ Step(c) \in Scanning /\ k \in todo[c] /\ todo[c] # None
      /\ holder[k] \in {Nobody, c}
      /\ Step(c) \in {"waves", "drop"} => k \in Listed(c) /\ k \in Wave
      /\ Step(c) \in {"rename", "set_on", "remove"} => k = On(c) /\ k \in Level
  BY <1>2, Picked DEF Available
<1>6. todo'[c] # None /\ todo[c] \subseteq Where(c)
  BY <1>1, <1>2, <1>5, ConstantsAssumption DEF TypeOK, Local, ScanFits
<1>7. Found(c) = todo[c] \cup done[c] /\ Found(c)' = (todo[c] \ {k}) \cup done[c]
  BY <1>2, <1>5, <1>6 DEF Found
<1>8. VerdictBySteps(c) /\ VerdictBySteps(c)'
  BY VerdictOf
<1>9. CASE Step(c) \in {"waves", "drop"}
  <2>1. draft[k] = Absent /\ k \notin Level \X Wave
    BY <1>2, <1>5, <1>9, Keys DEF Matches
  <2>2. holder[k] # c /\ k \notin done[c]
    <3>1. CASE Step(c) = "waves"
      <4>1. k \notin done[c]
        <5>1. k \in shares[c] => draft[k] # Absent
          BY SharedFree
        <5> QED
          BY <1>1, <2>1, <3>1, <5>1 DEF Local, ScanFits
      <4>2. ~Dropping(c)
        BY <3>1, Doing
      <4>3. holder[k] # c
        BY <1>1, <1>5, <2>1, <3>1, <4>2, Keys DEF Local, LocksFit, MayHold
      <4> QED
        BY <4>1, <4>3
    <3>2. CASE Step(c) = "drop"
      <4>1. holder[k] = Nobody /\ k \notin done[c]
        BY <1>2, <3>2, Fetched
      <4> QED
        BY <4>1, ConstantsAssumption
    <3> QED
      BY <1>9, <3>1, <3>2
  <2>3. store[k] = Absent /\ k \in Listed(c)
    BY <1>1, <1>5, <1>9, <2>1, <2>2 DEF RowsAgree
  <2> DEFINE v == IF Step(c) = "waves" THEN "MissingWaves" ELSE Refusal(c)
  <2>4. Verdict(c)' = v
    <3>1. Found(c)' # Listed(c)
      BY <1>7, <2>2, <2>3
    <3> QED
      BY <1>4, <1>8, <1>9, <3>1 DEF VerdictBySteps
  <2>5. Verdict(c) \in {None, v}
    BY <1>8, <1>9 DEF VerdictBySteps
  <2>6. \/ v = "MissingWaves" /\ request[c].op \in {"create", "update", "batch"}
        \/ v = "NotFound" /\ request[c].op = "drop"
    <3>1. CASE Step(c) = "waves"
      BY <3>1, Doing DEF Replacing
    <3>2. CASE Step(c) = "drop"
      BY <3>2, Doing DEF Dropping, Refusal
    <3> QED
      BY <1>9, <3>1, <3>2
  <2> HIDE DEF v
  <2>7. CASE Verdict(c) = v
    BY <1>2, <1>3, <2>4, <2>7, Stutters
  <2>8. CASE Verdict(c) = None
    BY <1>2, <1>3, <1>5, <2>3, <2>4, <2>6, <2>8, Settled
  <2> QED
    BY <2>5, <2>7, <2>8
<1>10. CASE Step(c) \in {"rename", "set_on", "remove"}
  <2>1. draft[k] = Absent /\ k = On(c) /\ On(c) \in Level
    BY <1>2, <1>5, <1>10 DEF Matches
  <2>2. holder[k] # c /\ k \notin done[c]
    <3>1. CASE Step(c) = "set_on"
      <4>1. c \in Activating
        BY <3>1, Doing
      <4>2. holder[k] # c
        BY <1>1, <2>1, <4>1 DEF Writes, LevelWritten
      <4>3. On(c) \in done[c] => holder[On(c)] = c
        BY <1>1, <3>1 DEF Writes, AloneActive
      <4> QED
        BY <2>1, <4>2, <4>3
    <3>2. CASE Step(c) \in {"rename", "remove"}
      <4>1. holder[k] = Nobody /\ k \notin done[c]
        BY <1>2, <3>2, Fetched
      <4> QED
        BY <4>1, ConstantsAssumption
    <3> QED
      BY <1>10, <3>1, <3>2
  <2>3. store[On(c)] = Absent
    BY <1>1, <1>5, <2>1, <2>2 DEF RowsAgree
  <2>4. Found(c)' = {} /\ Found(c) # {}
    <3>1. done[c] \subseteq {On(c)} /\ todo[c] \subseteq {On(c)}
      BY <1>1, <1>6, <1>10 DEF Local, ScanFits, Where
    <3> QED
      BY <1>5, <1>7, <2>1, <2>2, <3>1
  <2>5. Verdict(c) = None /\ Verdict(c)' = "NotFound"
    BY <1>4, <1>8, <1>10, <2>4 DEF VerdictBySteps
  <2>6. request[c].op \in {"update", "delete", "activate"}
    BY <1>10, Doing DEF Activating
  <2> QED
    BY <1>2, <1>3, <1>5, <2>1, <2>3, <2>5, <2>6, Settled
<1>11. CASE Step(c) \in {"clear", "leave", "stand_down"}
  <2>1. Verdict(c)' = Verdict(c)
    BY <1>2, <1>4, <1>8, <1>11 DEF VerdictBySteps
  <2> QED
    BY <1>2, <1>3, <2>1, Stutters
<1> QED
  BY <1>5, <1>9, <1>10, <1>11 DEF Scanning

(* The next statement: nothing more is settled than was. *)
LEMMA ScannedBook ==
  ASSUME Inv, BookInv, NEW c \in Client, Scanned(c)
  PROVE  UNCHANGED Book!vars
<1>1. TypeOK /\ Local(c) /\ Writes(c) /\ Inv'
  <2>1. Inv'
    BY NextInv DEF Next
  <2> QED
    BY <2>1 DEF Inv, BookInv
<1>2. /\ OthersSame(c) /\ ~Idle(c) /\ ~LastStep(c) /\ NextStatement(c) /\ store' = store
      /\ Step(c) \in Scanning /\ todo[c] = {} /\ todo[c] # None /\ Enough(c)
  BY ScannedWrites DEF ByItself, Scanned, rowVars
<1>3. /\ request' = request /\ answer' = answer /\ todo'[c] = None
      /\ done'[c] = IF Step(c) = "drop" THEN done[c] ELSE {}
      /\ Idle(c)' = Idle(c) /\ On(c)' = On(c) /\ Listed(c)' = Listed(c)
      /\ Dropping(c)' = Dropping(c) /\ Activating' = Activating
  BY <1>2, Onward
<1>4. /\ Step(c)' \in Names /\ Step(c)' \notin {"rename", "remove", "stand_down", "drop"}
      /\ Step(c)' = "read" => Step(c) \in {"members", "commit"}
      /\ Dropping(c) /\ Step(c)' = "leave" => Step(c) = "drop"
      /\ Step(c) = "drop" => Step(c)' = "leave"
      /\ Refusal(c)' = Refusal(c)
  BY <1>2, <1>3, Moves, Onward DEF Refusal
<1>5. Found(c) = done[c] /\ Found(c)' = Where(c)'
  BY <1>2, <1>3 DEF Found
<1>6. VerdictBySteps(c) /\ VerdictBySteps(c)'
  BY VerdictOf
<1>7. CASE Step(c) = "drop"
  <2>1. Dropping(c) /\ Step(c)' = "leave"
    BY <1>4, <1>7, Doing
  <2>2. done[c] \subseteq Listed(c)
    BY <1>1, <1>7, <2>1 DEF Local, ScanFits, Writes, WavesDropped
  <2>3. Verdict(c)' = Verdict(c)
    <3>1. Verdict(c) = IF done[c] # Listed(c) THEN Refusal(c) ELSE None
      BY <1>5, <1>6, <1>7 DEF VerdictBySteps
    <3>2. Step(c)' = "leave" /\ Dropping(c)' =>
            Verdict(c)' = IF Listed(c)' \subseteq done[c]' THEN None ELSE Refusal(c)'
      BY <1>6 DEF VerdictBySteps
    <3>3. Verdict(c)' = IF Listed(c) \subseteq done[c] THEN None ELSE Refusal(c)
      BY <1>3, <1>4, <1>7, <2>1, <3>2
    <3>4. (done[c] # Listed(c)) <=> ~(Listed(c) \subseteq done[c])
      BY <2>2
    <3> QED
      BY <3>1, <3>3, <3>4
  <2> QED
    BY <1>2, <1>3, <2>3, Stutters
<1>8. CASE Step(c) # "drop"
  <2>1. Verdict(c) = None
    <3>1. Step(c) \in {"rename", "set_on", "remove"} => done[c] # {}
      BY <1>2 DEF Enough
    <3>2. Step(c) = "waves" => done[c] = Listed(c)
      BY <1>2 DEF Enough
    <3>3. Step(c) = "leave" /\ Dropping(c) => Listed(c) \subseteq done[c]
      BY <1>2 DEF Enough
    <3> QED
      BY <1>2, <1>5, <1>6, <1>8, <3>1, <3>2, <3>3 DEF VerdictBySteps, Scanning
  <2>2. Verdict(c)' = None
    <3>1. Step(c)' = "waves" => Found(c)' = Listed(c)'
      BY <1>5 DEF Where
    <3>2. Step(c)' = "set_on" => Found(c)' # {}
      BY <1>5 DEF Where
    <3>3. ~(Step(c)' = "leave" /\ Dropping(c)')
      BY <1>3, <1>4, <1>8
    <3>4. Step(c)' # "read"
      BY <1>2, <1>4 DEF Scanning
    <3> QED
      BY <1>4, <1>6, <3>1, <3>2, <3>3, <3>4 DEF VerdictBySteps, Names
  <2> QED
    BY <1>2, <1>3, <2>1, <2>2, Stutters
<1> QED
  BY <1>7, <1>8

(* Statements in which nothing is found missing. *)
LEMMA QuietBook ==
  ASSUME Inv, BookInv, NEW c \in Client, OthersSame(c), store' = store, ~Idle(c), ~LastStep(c),
         NextStatement(c),
         \/ Step(c) \in {"level", "members", "unique"}
         \/ Step(c) = "read" /\ Replacing(c)
  PROVE  UNCHANGED Book!vars
<1>1. request' = request /\ answer' = answer /\ Replacing(c)' = Replacing(c)
  BY Onward, Moves
<1>2. \/ Step(c)' \in {"members", "commit"}
      \/ Step(c)' = "read" /\ Replacing(c)'
  <2>1. Step(c) = "unique" => Step(c)' = "commit"
    <3>1. Step(c) = "unique" => c \in Activating
      BY Doing
    <3>2. c \in Activating => request[c].op = "activate" /\ TypeOK /\ at'[c] = at[c] + 1
      BY Onward DEF Activating, Inv
    <3> DEFINE s == Step(c)
               t == Step(c)'
    <3>3. c \in Activating => <<s, t>> \in {<<"stand_down", "set_on">>, <<"set_on", "unique">>,
                                            <<"unique", "commit">>, <<"commit", "read">>}
      BY <1>1, <3>2, NextStage
    <3> HIDE DEF s, t
    <3>4. c \in Activating /\ s = "unique" => t = "commit"
      BY <3>3
    <3> QED
      BY <3>1, <3>4 DEF s, t
  <2>2. Step(c) = "members" => Replacing(c)
    BY Doing
  <2> QED
    BY <1>1, <2>1, <2>2, Moves
<1>3. VerdictBySteps(c) /\ VerdictBySteps(c)'
  BY VerdictOf
<1>4. Verdict(c) = None /\ Verdict(c)' = None
  BY <1>2, <1>3 DEF VerdictBySteps
<1> QED
  BY <1>1, <1>4, Stutters

(* A request ends: the book says the same of it. *)
LEMMA EndsBook ==
  ASSUME Inv, NEW c \in Client, NEW a, NEW list, Finish(c, a, list)
  PROVE  /\ a # Unheard => Book!Answer(c, a, list)
         /\ a = Unheard => Book!Unheard(c)
<1>1. OthersSame(c) /\ Idle(c)'
  BY FinishSame
<1>2. VerdictBySteps(c)'
  BY VerdictOf
<1>3. Verdict(c)' = None
  BY <1>1, <1>2 DEF VerdictBySteps
<1>4. Verdicts' = [Verdicts EXCEPT ![c] = None]
  BY <1>1, <1>3, VerdictsOf
<1> QED
  BY <1>4 DEF Finish, Book!Answer, Book!Unheard, Book!Said

(* A refusal says what was settled. *)
LEMMA RefuseBook ==
  ASSUME Inv, NEW c \in Client, Refuse(c)
  PROVE  Book!Refuse(c)
<1> DEFINE a == IF WavesWanted(c) THEN "MissingWaves" ELSE "NotFound"
<1>1. /\ store' = store /\ Finish(c, a, None) /\ todo[c] = {} /\ ~Enough(c)
  BY DEF Refuse, Rollback, RollbackRows
<1>2. Found(c) = done[c]
  <2>1. todo[c] # None
    BY <1>1, ConstantsAssumption
  <2> QED
    BY <1>1, <2>1 DEF Found
<1>3. VerdictBySteps(c)
  BY VerdictOf
<1>4. Verdict(c) = a
  <2>1. CASE Step(c) = "waves"
    BY <1>1, <1>2, <1>3, <2>1 DEF Enough, VerdictBySteps, WavesWanted
  <2>2. CASE Step(c) \in {"rename", "set_on", "remove"}
    <3>1. ~WavesWanted(c)
      BY <2>2, Doing DEF WavesWanted, Activating
    <3>2. done[c] = {}
      BY <1>1, <2>2 DEF Enough
    <3> QED
      BY <1>2, <1>3, <2>2, <3>1, <3>2 DEF VerdictBySteps
  <2>3. CASE Step(c) = "leave" /\ Dropping(c)
    <3>1. ~(Listed(c) \subseteq done[c])
      BY <1>1, <2>3 DEF Enough
    <3>2. Refusal(c) = a
      BY <2>3 DEF Refusal, WavesWanted
    <3> QED
      BY <1>3, <2>3, <3>1, <3>2 DEF VerdictBySteps
  <2>4. Step(c) \in {"waves", "rename", "set_on", "remove"} \/ (Step(c) = "leave" /\ Dropping(c))
    BY <1>1 DEF Enough
  <2> QED
    BY <2>1, <2>2, <2>3, <2>4
<1>5. Verdicts[c] = a /\ a \in {"MissingWaves", "NotFound"} /\ a # Unheard
  BY <1>4 DEF Verdicts, Unheard
<1>6. Book!Answer(c, a, None)
  BY <1>1, <1>5, EndsBook
<1> HIDE DEF a
<1> QED
  BY <1>1, <1>5, <1>6, BookStays DEF Book!Refuse, Book!bookVars

(* A fault, or silence: nothing changes in the book. *)
LEMMA GiveUpBook ==
  ASSUME Inv, NEW c \in Client, ~Idle(c), NEW a \in {"error", Unheard}, Rollback(c, a)
  PROVE  Book!GiveUp(c)
<1>1. store' = store /\ Finish(c, a, None)
  BY DEF Rollback, RollbackRows
<1>2. Book!Answer(c, "error", None) \/ Book!Unheard(c)
  <2>1. a = "error" => a # Unheard
    BY DEF Unheard
  <2> QED
    BY <1>1, <2>1, EndsBook
<1> QED
  BY <1>1, <1>2, BookStays DEF Book!GiveUp, Book!bookVars, Idle

(* Whoever waits has a request. *)
LEMMA AbortBook ==
  ASSUME Inv, NEW c \in Client, DeadlockAbort(c)
  PROVE  Book!GiveUp(c)
<1>1. PICK b : WaitsFor(c, b)
  BY DEF DeadlockAbort, OnCycle, CycleThrough
<1>2. ~Idle(c)
  <2>1. Idle(c) => Step(c) \notin Names
    BY NoStep
  <2> QED
    BY <1>1, <2>1 DEF WaitsFor, Contests, HoldsUp, Names
<1> QED
  BY <1>2, GiveUpBook DEF DeadlockAbort

(* A request arrives: nothing is settled about it yet. *)
LEMMA AskBook ==
  ASSUME Inv, BookInv, NEW c \in Client, NEW r \in Requests, Receive(c, r)
  PROVE  Book!Ask(c, r)
<1>1. /\ request' = [request EXCEPT ![c] = r] /\ answer' = [answer EXCEPT ![c] = None]
      /\ store' = store /\ Idle(c)
  BY DEF Receive, rowVars
<1>2. /\ OthersSame(c) /\ todo'[c] = None
      /\ Step(c)' \in {"waves", "rename", "remove", "stand_down", "drop"}
  BY ReceiveWrites DEF ByItself
<1>3. VerdictBySteps(c) /\ VerdictBySteps(c)'
  BY VerdictOf
<1>4. Found(c)' = Where(c)'
  BY <1>2 DEF Found
<1>5. Verdict(c) = None
  BY <1>1, <1>3 DEF VerdictBySteps
<1>6. Verdict(c)' = None
  <2>1. Step(c)' \in {"waves", "drop"} => Found(c)' = Listed(c)'
    BY <1>4 DEF Where
  <2>2. Step(c)' \in {"rename", "remove"} => Found(c)' # {}
    BY <1>4 DEF Where
  <2> QED
    BY <1>2, <1>3, <2>1, <2>2 DEF VerdictBySteps
<1>7. Verdicts' = Verdicts
  BY <1>2, <1>5, <1>6, VerdictStays
<1> QED
  BY <1>1, <1>7, BookStays DEF Book!Ask, Book!bookVars, Idle

(* The answer to an activation, read after it. *)
LEMMA ReadBook ==
  ASSUME Inv, BookInv, NEW c \in Client, Read(c), LastStep(c)
  PROVE  Book!Activated(c)
<1>1. Step(c) = "read" /\ store' = store
  BY DEF Read, rowVars
<1>2. c \in Activating /\ \A k \in Key : holder[k] # c
  BY <1>1, HoldsNothing
<1>3. On(c) \in Level /\ On(c) \in Key
  BY <1>2, Doing
<1>4. [k \in Key |-> Seen(c, k)] = store /\ Seen(c, On(c)) = store[On(c)]
  <2>1. \A k \in Key : Seen(c, k) = store[k]
    BY <1>2 DEF Seen
  <2>2. store = [k \in Key |-> store[k]]
    BY DEF Inv, TypeOK
  <2>3. [k \in Key |-> Seen(c, k)] = [k \in Key |-> store[k]]
    BY <2>1
  <2> QED
    BY <1>3, <2>1, <2>2, <2>3
<1>5. IF store[On(c)] = Absent THEN Finish(c, "NotFound", None)
                               ELSE Finish(c, "ok", InOrder(On(c), store))
  BY <1>4 DEF Read
<1>6. IF CommittedLists[On(c)] = Absent THEN Book!Answer(c, "NotFound", None)
                                        ELSE Book!Answer(c, "ok", CommittedLists[On(c)])
  BY <1>3, <1>5, ListsAre, EndsBook DEF Unheard
<1>7. Verdicts[c] = "activated"
  BY <1>1, <1>2, VerdictOf DEF VerdictBySteps, Verdicts
<1> QED
  BY <1>1, <1>6, <1>7, BookStays DEF Book!Activated, Book!bookVars, On

(* Nothing is settled about a request that is about to commit. *)
LEMMA CommitIsOpen ==
  ASSUME Inv, NEW c \in Client, Step(c) = "commit"
  PROVE  Book!Open(c) /\ ~Idle(c)
<1>1. ~Idle(c)
  BY Doing DEF Names
<1>2. Verdict(c) = None
  BY VerdictOf DEF VerdictBySteps
<1> QED
  BY <1>1, <1>2 DEF Book!Open, Verdicts, Idle

(* What a commit leaves as it was. *)
LEMMA ListSame ==
  ASSUME NEW l \in Level, store'[l] = store[l],
         \A w \in Wave : store'[<<l, w>>] = store[<<l, w>>]
  PROVE  CommittedLists'[l] = CommittedLists[l]
<1>1. InOrder(l, store') = InOrder(l, store)
  BY SamePlaces
<1> DEFINE list(version) == IF version[l] = Absent THEN Absent ELSE InOrder(l, version)
<1>2. CommittedLists'[l] = IF store'[l] = Absent THEN Absent ELSE InOrder(l, store')
  BY DEF CommittedLists, InOrder
<1> QED
  BY <1>1, <1>2 DEF CommittedLists

(* The waves are as they were. *)
LEMMA WavesSame ==
  ASSUME \A w \in Wave : store'[w] = store[w]
  PROVE  CommittedWaves' = CommittedWaves
BY DEF CommittedWaves

(* The active level is as it was. *)
LEMMA ActiveSame ==
  ASSUME \A l \in Level : store'[l] = "on" <=> store[l] = "on"
  PROVE  CommittedActive' = CommittedActive
BY DEF CommittedActive

(* The commit of a create or a replace. *)
LEMMA WriteBook ==
  ASSUME Inv, BookInv, NEW c \in Client, Step(c) = "commit", CommitRows(c), Replacing(c),
         \/ Finish(c, "ok", told[c])
         \/ Finish(c, Unheard, None)
  PROVE  Book!Write(c)
<1>1. Book!Open(c)
  BY CommitIsOpen
<1>2. /\ On(c) \in Level /\ request[c] \in Requests
      /\ request[c].op = "create" => store[On(c)] = Absent
      /\ request[c].op = "update" => store[On(c)] # Absent
      /\ store'[On(c)] # Absent /\ (store'[On(c)] = "on" <=> store[On(c)] = "on")
      /\ \A l \in Level \ {On(c)} :
           store'[l] = store[l] /\ \A w \in Wave : store'[<<l, w>>] = store[<<l, w>>]
      /\ \A w \in Wave :
           /\ store'[w] = store[w]
           /\ store'[<<On(c), w>>] = IF w \in Listed(c) THEN Position(c, w) ELSE Absent
      /\ Listed(c) \subseteq Wave /\ \A w \in Listed(c) : store[w] # Absent
      /\ told[c] = request[c].waves
  BY CommitReplaces
<1>3. InOrder(On(c), store') = request[c].waves
  BY <1>2, OrderOf
<1>4. CommittedLists'[On(c)] = request[c].waves
  <2>1. CommittedLists'[On(c)] = IF store'[On(c)] = Absent THEN Absent ELSE InOrder(On(c), store')
    BY <1>2 DEF CommittedLists, InOrder
  <2> QED
    BY <1>2, <1>3, <2>1
<1>5. \A l \in Level \ {On(c)} : CommittedLists'[l] = CommittedLists[l]
  BY <1>2, ListSame
<1>6. CommittedLists' = [CommittedLists EXCEPT ![On(c)] = request[c].waves]
  <2>1. CommittedLists' = [l \in Level |-> CommittedLists'[l]]
    BY DEF CommittedLists
  <2>2. CommittedLists = [l \in Level |-> CommittedLists[l]]
    BY DEF CommittedLists
  <2> HIDE DEF CommittedLists
  <2> DEFINE new == CommittedLists'
             old == CommittedLists
  <2>3. new = [l \in Level |-> new[l]] /\ old = [l \in Level |-> old[l]]
    BY <2>1, <2>2
  <2>4. new[On(c)] = request[c].waves /\ \A l \in Level \ {On(c)} : new[l] = old[l]
    BY <1>4, <1>5
  <2> HIDE DEF new, old
  <2>5. new = [old EXCEPT ![On(c)] = request[c].waves]
    BY <1>2, <2>3, <2>4
  <2> QED
    BY <2>5 DEF new, old
<1>7. CommittedWaves' = CommittedWaves
  BY <1>2, WavesSame
<1>8. CommittedActive' = CommittedActive
  <2>1. \A l \in Level : store'[l] = "on" <=> store[l] = "on"
    BY <1>2
  <2> QED
    BY <2>1, ActiveSame
<1>9. Book!Listed(c) \subseteq CommittedWaves
  BY <1>2 DEF Book!Listed, Listed, ToSet, CommittedWaves
<1>10. \/ request[c].op = "create" /\ CommittedLists[request[c].on] = Absent
       \/ request[c].op = "update" /\ CommittedLists[request[c].on] # Absent
  BY <1>2, ListsAre DEF Replacing, On
<1>11. Book!Answer(c, "ok", request[c].waves) \/ Book!Unheard(c)
  BY <1>2, EndsBook DEF Unheard
<1> QED
  BY <1>1, <1>6, <1>7, <1>8, <1>9, <1>10, <1>11 DEF Book!Write, On

(* The commit of a delete. *)
LEMMA DeleteBook ==
  ASSUME Inv, BookInv, NEW c \in Client, Step(c) = "commit", CommitRows(c),
         ~Idle(c), request[c].op = "delete",
         \/ Finish(c, "ok", told[c])
         \/ Finish(c, Unheard, None)
  PROVE  Book!Delete(c)
<1>1. Book!Open(c)
  BY CommitIsOpen
<1>2. /\ On(c) \in Level /\ store[On(c)] # Absent /\ store'[On(c)] = Absent
      /\ \A l \in Level \ {On(c)} :
           store'[l] = store[l] /\ \A w \in Wave : store'[<<l, w>>] = store[<<l, w>>]
      /\ \A w \in Wave : store'[w] = store[w]
      /\ told[c] = None
  BY CommitDeletes
<1>3. CommittedLists' = [CommittedLists EXCEPT ![On(c)] = Absent]
  <2> DEFINE new == CommittedLists'
             old == CommittedLists
  <2>1. new = [l \in Level |-> new[l]] /\ old = [l \in Level |-> old[l]]
    BY DEF CommittedLists
  <2>2. new[On(c)] = Absent
    BY <1>2 DEF CommittedLists
  <2>3. \A l \in Level \ {On(c)} : new[l] = old[l]
    BY <1>2, ListSame
  <2> HIDE DEF new, old
  <2>4. new = [old EXCEPT ![On(c)] = Absent]
    BY <1>2, <2>1, <2>2, <2>3
  <2> QED
    BY <2>4 DEF new, old
<1>4. CommittedActive' = CommittedActive \ {On(c)}
  <2>1. Absent # "on"
    BY ConstantsAssumption
  <2> QED
    BY <1>2, <2>1 DEF CommittedActive
<1>5. CommittedWaves' = CommittedWaves
  BY <1>2, WavesSame
<1>6. CommittedLists[On(c)] # Absent
  BY <1>2, ListsAre
<1>7. Book!Answer(c, "ok", None) \/ Book!Unheard(c)
  BY <1>2, EndsBook DEF Unheard
<1> QED
  BY <1>1, <1>3, <1>4, <1>5, <1>6, <1>7 DEF Book!Delete, On

(* The commit of an activation, heard or not. *)
LEMMA ActivateBook ==
  ASSUME Inv, BookInv, NEW c \in Client, Step(c) = "commit", CommitRows(c), c \in Activating,
         \/ Finish(c, Unheard, None)
         \/ /\ OthersSame(c) /\ Step(c)' = "read" /\ c \in Activating'
            /\ request' = request /\ answer' = answer
  PROVE  Book!Activate(c)
<1>1. Book!Open(c) /\ request[c].op = "activate"
  BY CommitIsOpen DEF Activating
<1>2. /\ On(c) \in Level /\ store[On(c)] # Absent
      /\ \A l \in Level : /\ store'[l] = "on" <=> l = On(c)
                          /\ store'[l] = Absent <=> store[l] = Absent
                          /\ \A w \in Wave : store'[<<l, w>>] = store[<<l, w>>]
      /\ \A w \in Wave : store'[w] = store[w]
  BY CommitActivates
<1>3. CommittedLists' = CommittedLists
  <2> DEFINE new == CommittedLists'
             old == CommittedLists
  <2>1. new = [l \in Level |-> new[l]] /\ old = [l \in Level |-> old[l]]
    BY DEF CommittedLists
  <2>2. \A l \in Level : new[l] = old[l]
    <3> SUFFICES ASSUME NEW l \in Level PROVE new[l] = old[l]
      OBVIOUS
    <3>1. InOrder(l, store') = InOrder(l, store)
      BY <1>2, SamePlaces
    <3>2. new[l] = IF store'[l] = Absent THEN Absent ELSE InOrder(l, store')
      BY DEF CommittedLists, InOrder
    <3>3. old[l] = IF store[l] = Absent THEN Absent ELSE InOrder(l, store)
      BY DEF CommittedLists
    <3>4. store'[l] = Absent <=> store[l] = Absent
      BY <1>2
    <3> HIDE DEF new, old
    <3> QED
      BY <3>1, <3>2, <3>3, <3>4
  <2> HIDE DEF new, old
  <2>3. new = old
    BY <2>1, <2>2
  <2> QED
    BY <2>3 DEF new, old
<1>4. CommittedActive' = {On(c)}
  BY <1>2 DEF CommittedActive
<1>5. CommittedWaves' = CommittedWaves
  BY <1>2, WavesSame
<1>6. CommittedLists[On(c)] # Absent
  BY <1>2, ListsAre
<1>7. \/ Book!Unheard(c)
      \/ /\ Verdicts' = [Verdicts EXCEPT ![c] = "activated"]
         /\ request' = request /\ answer' = answer
  <2>1. CASE Finish(c, Unheard, None)
    BY <2>1, EndsBook
  <2>2. CASE /\ OthersSame(c) /\ Step(c)' = "read" /\ c \in Activating'
             /\ request' = request /\ answer' = answer
    <3>1. VerdictBySteps(c)'
      BY VerdictOf
    <3>2. Verdict(c)' = "activated"
      BY <2>2, <3>1 DEF VerdictBySteps
    <3> QED
      BY <2>2, <3>2, VerdictsOf
  <2> QED
    BY <2>1, <2>2
<1> QED
  BY <1>1, <1>3, <1>4, <1>5, <1>6, <1>7 DEF Book!Activate, On

(* What a level has left when waves go. *)
LEMMA ListWithout ==
  ASSUME BookInv, NEW l \in Level, store[l] # Absent, store'[l] = store[l], NEW gone,
         \A w \in Wave :
           store'[<<l, w>>] = IF w \in gone THEN Absent ELSE store[<<l, w>>]
  PROVE  InOrder(l, store') = Book!Without(CommittedLists[l], gone)
<1> DEFINE here == Here(store, l)
           left == {w \in here : w \notin gone}
           places == {store[<<l, w>>] : w \in here}
           kept == {store[<<l, w>>] : w \in left}
           first(i) == CHOOSE w \in here : store[<<l, w>>] = i
           still(i) == CHOOSE w \in left : store[<<l, w>>] = i
           f == [i \in places |-> first(i)]
           g == [i \in kept |-> still(i)]
           list == Closed(f)
           stay == {n \in DOMAIN list : list[n] \notin gone}
<1>1. Placed(store, l)
  BY DEF BookInv, StoredAreLists
<1>2. /\ places \in SUBSET Nat /\ IsFiniteSet(here) /\ here \subseteq Wave
      /\ \A v, w \in here : store[<<l, v>>] = store[<<l, w>>] => v = w
  BY <1>1 DEF Placed, Here
<1>3. IsFiniteSet(places)
  <2> DEFINE s == [w \in here |-> store[<<l, w>>]]
  <2>1. s \in Surjection(here, places)
    BY DEF Surjection
  <2> QED
    BY <1>2, <2>1, FS_Surjection
<1>4. /\ f \in [places -> here] /\ \A i \in places : store[<<l, f[i]>>] = i
      /\ \A w \in here : store[<<l, w>>] \in places /\ f[store[<<l, w>>]] = w
  <2>1. \A i \in places : \E w \in here : store[<<l, w>>] = i
    OBVIOUS
  <2>2. \A i \in places : f[i] \in here /\ store[<<l, f[i]>>] = i
    BY <2>1
  <2>3. \A w \in here : store[<<l, w>>] \in places
    OBVIOUS
  <2> HIDE DEF first, here, places
  <2>4. f \in [places -> here]
    BY <2>2
  <2> HIDE DEF f
  <2> QED
    BY <1>2, <2>2, <2>3, <2>4
<1>5. kept \subseteq places /\ kept = {i \in places : f[i] \notin gone}
  <2>1. kept \subseteq places
    OBVIOUS
  <2>2. ASSUME NEW i \in kept PROVE f[i] \notin gone
    <3>1. PICK w \in left : i = store[<<l, w>>]
      OBVIOUS
    <3>2. w \in here /\ w \notin gone
      BY <3>1
    <3> HIDE DEF here, places, f, kept, left
    <3> QED
      BY <1>4, <3>1, <3>2
  <2>3. ASSUME NEW i \in places, f[i] \notin gone PROVE i \in kept
    <3>1. f[i] \in here /\ store[<<l, f[i]>>] = i
      BY <1>4
    <3>2. \A w \in left : store[<<l, w>>] \in kept
      OBVIOUS
    <3>3. \A w \in here : w \notin gone => w \in left
      OBVIOUS
    <3> HIDE DEF here, places, f, kept, left
    <3> QED
      BY <2>3, <3>1, <3>2, <3>3
  <2> HIDE DEF kept, f, places
  <2> QED
    BY <2>1, <2>2, <2>3
<1>6. g = Restrict(f, kept)
  <2>1. /\ \A i \in kept : \E w \in left : store[<<l, w>>] = i
        /\ \A w \in left : w \in here
    OBVIOUS
  <2>2. \A i \in kept : g[i] \in left /\ store[<<l, g[i]>>] = i
    BY <2>1
  <2>3. \A i \in kept : g[i] = f[i]
    <3> HIDE DEF here, left, places, kept, f, g
    <3> QED
      BY <1>4, <2>1, <2>2
  <2> HIDE DEF first, still, kept
  <2>4. g = [i \in kept |-> g[i]]
    OBVIOUS
  <2> HIDE DEF f, g
  <2>5. Restrict(f, kept) = [i \in kept |-> f[i]]
    BY DEF Restrict
  <2> QED
    BY <2>3, <2>4, <2>5
<1>7. /\ list \in [1..Cardinality(places) -> here] /\ list \in Seq(Wave)
      /\ \A n \in 1..Cardinality(places) : list[n] = f[NthOf(places, n)]
  <2>1. f \in [places -> Wave]
    <3> HIDE DEF f, places, here
    <3> QED
      BY <1>2, <1>4
  <2> HIDE DEF f, places, here
  <2>2. Closed(f) \in Seq(Wave)
    BY <1>2, <1>3, <2>1, ClosedIsList
  <2>3. /\ Closed(f) \in [1..Cardinality(places) -> here]
        /\ \A n \in 1..Cardinality(places) : Closed(f)[n] = f[NthOf(places, n)]
    BY <1>2, <1>3, <1>4, ClosedIsList
  <2> QED
    BY <2>2, <2>3
<1>8. stay = {n \in 1..Cardinality(places) : NthOf(places, n) \in kept}
  <2>1. \A n \in 1..Cardinality(places) : NthOf(places, n) \in places
    <3> HIDE DEF places
    <3> QED
      BY <1>2, <1>3, Nth
  <2>2. DOMAIN list = 1..Cardinality(places)
    <3> HIDE DEF places, list, here
    <3> QED
      BY <1>7
  <2>3. stay = {n \in 1..Cardinality(places) : list[n] \notin gone}
    <3> HIDE DEF places, list
    <3> QED
      BY <2>2
  <2>4. \A n \in 1..Cardinality(places) : list[n] \notin gone <=> NthOf(places, n) \in kept
    <3> HIDE DEF places, kept, f, list
    <3> QED
      BY <1>5, <1>7, <2>1
  <2> HIDE DEF places, list, kept, stay
  <2> QED
    BY <2>3, <2>4
<1>9. Closed(Restrict(list, stay)) = Closed(g)
  <2> HIDE DEF places, kept, f, g, stay, here, left
  <2>1. stay = Staying(places, kept)
    BY <1>8 DEF Staying
  <2> QED
    BY <1>2, <1>3, <1>4, <1>5, <1>6, <2>1, ClosedTwice
<1>10. CommittedLists[l] = list /\ list # Absent
  <2>1. CommittedLists[l] = InOrder(l, store) /\ CommittedLists[l] # Absent
    BY ListsAre
  <2>2. InOrder(l, store) = list
    BY DEF InOrder, Here
  <2> QED
    BY <2>1, <2>2
<1>11. InOrder(l, store') = Closed(g)
  <2> DEFINE now == Here(store', l)
             taken(i) == CHOOSE w \in now : store'[<<l, w>>] = i
  <2>1. now = left
    BY ConstantsAssumption DEF Here
  <2>2. \A w \in left : store'[<<l, w>>] = store[<<l, w>>]
    BY DEF Here
  <2>3. InOrder(l, store') = Closed([i \in {store'[<<l, w>>] : w \in now} |-> taken(i)])
    BY DEF InOrder, Here
  <2>4. {store'[<<l, w>>] : w \in now} = kept
    <3> HIDE DEF now, left
    <3> QED
      BY <2>1, <2>2
  <2>5. \A i : taken(i) = still(i)
    <3> HIDE DEF left, now
    <3> SUFFICES ASSUME NEW i PROVE taken(i) = still(i)
      OBVIOUS
    <3>1. \A w : (w \in now /\ store'[<<l, w>>] = i) <=> (w \in left /\ store[<<l, w>>] = i)
      BY <2>1, <2>2
    <3> QED
      BY <3>1, Zenon
  <2> HIDE DEF taken, still, now, kept
  <2>6. [i \in {store'[<<l, w>>] : w \in now} |-> taken(i)] = g
    BY <2>4, <2>5
  <2> HIDE DEF g
  <2> QED
    BY <2>3, <2>6
<1> HIDE DEF first, still, list, g, here, left, places, kept, f
<1>12. Book!Without(list, gone) = Closed(Restrict(list, stay))
  BY <1>10, Zenon DEF Book!Without, Book!Closed, Closed, Book!NthOf, NthOf, Book!Restrict, Restrict,
                      Book!Cardinality, Cardinality, Book!IsFiniteSet, IsFiniteSet
<1> QED
  BY <1>9, <1>10, <1>11, <1>12

(* The commit of waves deleted. *)
LEMMA DropBook ==
  ASSUME Inv, BookInv, NEW c \in Client, Step(c) = "commit", CommitRows(c), Dropping(c),
         \/ Finish(c, "ok", told[c])
         \/ Finish(c, Unheard, None)
  PROVE  Book!Drop(c)
<1>1. Book!Open(c) /\ request[c].op \in {"drop", "batch"}
  BY CommitIsOpen DEF Dropping
<1>2. /\ Listed(c) \subseteq Wave
      /\ \A l \in Level : store'[l] = store[l]
      /\ \A w \in Listed(c) :
           /\ store[w] # Absent /\ store'[w] = Absent
           /\ \A l \in Level : store'[<<l, w>>] = Absent
      /\ \A w \in Wave \ Listed(c) :
           store'[w] = store[w] /\ \A l \in Level : store'[<<l, w>>] = store[<<l, w>>]
      /\ told[c] = None
  BY CommitDrops
<1>3. Book!Listed(c) = Listed(c)
  BY DEF Book!Listed, Listed, ToSet
<1>4. Listed(c) \subseteq CommittedWaves
  BY <1>2 DEF CommittedWaves
<1>5. CommittedWaves' = CommittedWaves \ Listed(c)
  BY <1>2 DEF CommittedWaves
<1>6. CommittedLists' = [l \in Level |-> Book!Without(CommittedLists[l], Listed(c))]
  <2> DEFINE new == CommittedLists'
  <2>1. new = [l \in Level |-> new[l]]
    BY DEF CommittedLists
  <2>2. ASSUME NEW l \in Level PROVE new[l] = Book!Without(CommittedLists[l], Listed(c))
    <3>1. new[l] = IF store'[l] = Absent THEN Absent ELSE InOrder(l, store')
      BY DEF CommittedLists, InOrder
    <3>2. CASE store[l] = Absent
      <4>1. CommittedLists[l] = Absent
        BY <3>2, ListsAre
      <4> QED
        BY <1>2, <3>1, <3>2, <4>1 DEF Book!Without
    <3>3. CASE store[l] # Absent
      <4>1. \A w \in Wave :
              store'[<<l, w>>] = IF w \in Listed(c) THEN Absent ELSE store[<<l, w>>]
        BY <1>2
      <4>2. InOrder(l, store') = Book!Without(CommittedLists[l], Listed(c))
        BY <1>2, <3>3, <4>1, ListWithout
      <4> QED
        BY <1>2, <3>1, <3>3, <4>2
    <3> QED
      BY <3>2, <3>3
  <2> HIDE DEF new
  <2>3. new = [l \in Level |-> Book!Without(CommittedLists[l], Listed(c))]
    BY <2>1, <2>2
  <2> QED
    BY <2>3 DEF new
<1>7. CommittedActive' = CommittedActive
  BY <1>2 DEF CommittedActive
<1>8. Book!Answer(c, "ok", None) \/ Book!Unheard(c)
  BY <1>2, EndsBook DEF Unheard
<1> QED
  BY <1>1, <1>3, <1>4, <1>5, <1>6, <1>7, <1>8 DEF Book!Drop

(* A commit, of whichever kind. *)
LEMMA CommitBook ==
  ASSUME Inv, BookInv, NEW c \in Client, Commit(c) \/ CommitUnheard(c)
  PROVE  Book!Write(c) \/ Book!Delete(c) \/ Book!Drop(c) \/ Book!Activate(c)
<1>1. Step(c) = "commit" /\ CommitRows(c)
  BY DEF Commit, CommitUnheard
<1>2. \/ Finish(c, Unheard, None)
      \/ LastStep(c) /\ Finish(c, "ok", told[c])
      \/ Commit(c) /\ ~LastStep(c)
  BY DEF Commit, CommitUnheard
<1>3. CASE Finish(c, Unheard, None) \/ (LastStep(c) /\ Finish(c, "ok", told[c]))
  <2>1. CASE c \in Activating
    <3>1. ~LastStep(c)
      BY <1>1, <2>1, Stages DEF Inv, Activating
    <3> QED
      BY <1>1, <1>3, <2>1, <3>1, ActivateBook
  <2>2. CASE c \notin Activating
    BY <1>1, <1>3, <2>2, CommitKinds, WriteBook, DeleteBook, DropBook
  <2> QED
    BY <2>1, <2>2
<1>4. CASE Commit(c) /\ ~LastStep(c)
  <2>1. ByItself(c) /\ c \in Activating /\ NextStatement(c) /\ Step(c)' = "read" /\ ~Idle(c)
    BY <1>4, CommitOnwardWrites DEF Activating
  <2>2. OthersSame(c) /\ Activating' = Activating
    BY <1>4, <2>1, Moves DEF ByItself
  <2>3. request' = request /\ answer' = answer
    BY <2>1 DEF NextStatement
  <2> QED
    BY <1>1, <2>1, <2>2, <2>3, ActivateBook
<1> QED
  BY <1>2, <1>3, <1>4

(* A statement that leaves what is committed alone. *)
LEMMA OnwardBook ==
  ASSUME Inv, BookInv, NEW c \in Client,
         \/ PassUnique(c) \/ InsertLevel(c) \/ InsertMembers(c)
         \/ Read(c) /\ ~LastStep(c)
  PROVE  UNCHANGED Book!vars
<1>1. CASE PassUnique(c)
  <2>1. store' = store /\ NextStatement(c) /\ Step(c) = "unique"
    BY <1>1 DEF PassUnique, rowVars
  <2>2. OthersSame(c) /\ ~Idle(c) /\ ~LastStep(c)
    BY <1>1, PassUniqueWrites DEF ByItself
  <2> QED
    BY <2>1, <2>2, QuietBook
<1>2. CASE InsertLevel(c)
  <2>1. store' = store /\ NextStatement(c) /\ Step(c) = "level"
    BY <1>2 DEF InsertLevel, WriteRow
  <2>2. OthersSame(c) /\ ~Idle(c) /\ ~LastStep(c)
    BY <1>2, InsertLevelWrites DEF ByItself
  <2> QED
    BY <2>1, <2>2, QuietBook
<1>3. CASE InsertMembers(c)
  <2>1. /\ OthersSame(c) /\ ~Idle(c) /\ ~LastStep(c) /\ store' = store /\ NextStatement(c)
        /\ Step(c) = "members"
    BY <1>3, InsertMembersWrites DEF ByItself
  <2> QED
    BY <2>1, QuietBook
<1>4. CASE Read(c) /\ ~LastStep(c)
  <2>1. /\ OthersSame(c) /\ ~Idle(c) /\ store' = store /\ NextStatement(c)
        /\ Step(c) = "read" /\ Replacing(c)
    BY <1>4, ReadWrites DEF ByItself, Read, rowVars
  <2> QED
    BY <1>4, <2>1, QuietBook
<1> QED
  BY <1>1, <1>2, <1>3, <1>4

(* A wave saved. *)
LEMMA SaveWaveBook ==
  ASSUME Inv, BookInv, NEW w \in Wave, SaveWave(w)
  PROVE  Book!SaveWave(w)
<1>1. /\ store[w] = Absent /\ store' = [store EXCEPT ![w] = "there"]
      /\ request' = request /\ answer' = answer /\ at' = at /\ todo' = todo /\ done' = done
  BY DEF SaveWave, scanVars
<1>2. /\ w \in Key /\ w \notin Level
      /\ \A l \in Level, v \in Wave : <<l, v>> # w
      /\ DOMAIN store = Key /\ Absent # "there"
  BY ConstantsAssumption DEF Key, Inv, TypeOK
<1>3. /\ \A l \in Level : store'[l] = store[l] /\ \A v \in Wave : store'[<<l, v>>] = store[<<l, v>>]
      /\ \A v \in Wave : store'[v] = IF v = w THEN "there" ELSE store[v]
  BY <1>1, <1>2 DEF Key
<1>4. CommittedLists' = CommittedLists
  <2> DEFINE new == CommittedLists'
             old == CommittedLists
  <2>1. new = [l \in Level |-> new[l]] /\ old = [l \in Level |-> old[l]]
    BY DEF CommittedLists
  <2>2. \A l \in Level : new[l] = old[l]
    BY <1>3, ListSame
  <2> HIDE DEF new, old
  <2>3. new = old
    BY <2>1, <2>2
  <2> QED
    BY <2>3 DEF new, old
<1>5. CommittedActive' = CommittedActive
  BY <1>3 DEF CommittedActive
<1>6. CommittedWaves' = CommittedWaves \cup {w} /\ w \notin CommittedWaves
  BY <1>1, <1>2, <1>3 DEF CommittedWaves
<1>7. Verdicts' = Verdicts
  <2>1. ASSUME NEW c \in Client PROVE Verdict(c)' = Verdict(c)
    <3>1. Step(c)' = Step(c) /\ On(c)' = On(c) /\ Listed(c)' = Listed(c)
      BY <1>1 DEF Step, Idle, On, Listed
    <3>2. Dropping(c)' = Dropping(c) /\ WavesWanted(c)' = WavesWanted(c)
      BY <1>1, <3>1 DEF Dropping, Idle, WavesWanted
    <3>3. Where(c)' = Where(c)
      BY <1>1, <3>1, <3>2 DEF Where
    <3>4. Found(c)' = Found(c)
      BY <1>1, <3>3 DEF Found
    <3> QED
      BY <1>1, <3>1, <3>2, <3>4 DEF Verdict
  <2> QED
    BY <2>1 DEF Verdicts
<1> QED
  BY <1>1, <1>4, <1>5, <1>6, <1>7 DEF Book!SaveWave

(* Every step of Levels is one of the book's or changes nothing in it. *)
LEMMA NextImplements ==
  ASSUME Inv, BookInv, [Next]_vars
  PROVE  [Book!Next]_Book!vars
<1>1. ASSUME NEW w \in Wave, SaveWave(w) PROVE Book!Next
  BY <1>1, SaveWaveBook DEF Book!Next
<1>2. ASSUME NEW c \in Client, NEW r \in Requests, Receive(c, r) PROVE Book!Next
  BY <1>2, AskBook DEF Book!Next
<1>3. ASSUME NEW c \in Client, Scan(c) PROVE Book!Next \/ UNCHANGED Book!vars
  BY <1>3, ScanBook DEF Book!Next
<1>4. ASSUME NEW c \in Client, Scanned(c) PROVE UNCHANGED Book!vars
  BY <1>4, ScannedBook
<1>5. ASSUME NEW c \in Client, Refuse(c) PROVE Book!Next
  BY <1>5, RefuseBook DEF Book!Next
<1>6. ASSUME NEW c \in Client, NEW k \in Key, WriteFound(c, k) \/ ShareFound(c, k) \/ Skip(c, k)
      PROVE  Book!Next \/ UNCHANGED Book!vars
  BY <1>6, TreatedBook, SkipBook DEF Book!Next
<1>7. ASSUME NEW c \in Client, InsertLevel(c) \/ InsertMembers(c) \/ PassUnique(c)
      PROVE  UNCHANGED Book!vars
  BY <1>7, OnwardBook
<1>8. ASSUME NEW c \in Client, ViolateUnique(c) \/ Fail(c) PROVE Book!Next
  <2>1. ~Idle(c)
    BY <1>8, Doing DEF ViolateUnique, Fail, Names
  <2>2. Rollback(c, "error") \/ Rollback(c, Unheard)
    BY <1>8 DEF ViolateUnique, Fail
  <2> QED
    BY <2>1, <2>2, GiveUpBook DEF Book!Next
<1>9. ASSUME NEW c \in Client, DeadlockAbort(c) PROVE Book!Next
  BY <1>9, AbortBook DEF Book!Next
<1>10. ASSUME NEW c \in Client, Read(c) PROVE Book!Next \/ UNCHANGED Book!vars
  BY <1>10, ReadBook, OnwardBook DEF Book!Next
<1>11. ASSUME NEW c \in Client, Commit(c) \/ CommitUnheard(c) PROVE Book!Next
  BY <1>11, CommitBook DEF Book!Next
<1>12. CASE UNCHANGED vars
  <2>1. /\ CommittedLists' = CommittedLists /\ CommittedActive' = CommittedActive
        /\ CommittedWaves' = CommittedWaves
    BY <1>12, BookStays DEF vars
  <2>2. Verdicts' = Verdicts
    BY <1>12 DEF vars, Verdicts, Verdict, Step, Idle, Found, Where, Listed, On, Dropping, WavesWanted
  <2> QED
    BY <1>12, <2>1, <2>2 DEF Book!vars, vars
<1> QED
  BY <1>1, <1>2, <1>3, <1>4, <1>5, <1>6, <1>7, <1>8, <1>9, <1>10, <1>11, <1>12 DEF Next

(* The service starts with no levels, no requests and an empty book. *)
LEMMA InitBook ==
  ASSUME Init
  PROVE  BookInv /\ Book!Init
<1>1. PICK there \in SUBSET Wave :
        AtRest([k \in Key |-> IF k \in there THEN "there" ELSE Absent])
  BY DEF Init
<1>2. /\ \A l \in Level : store[l] = Absent
      /\ \A l \in Level, w \in Wave : draft[<<l, w>>] = Absent
      /\ \A k \in Key : holder[k] = Nobody
      /\ \A w \in Wave : store[w] = IF w \in there THEN "there" ELSE Absent
      /\ Absent # "there" /\ Absent # "on"
  <2>1. /\ \A l \in Level : l \in Key /\ l \notin there
        /\ \A w \in Wave : w \in Key
        /\ \A l \in Level, w \in Wave : <<l, w>> \in Key /\ <<l, w>> \notin there
    BY <1>1, ConstantsAssumption DEF Key
  <2> QED
    BY <1>1, <2>1, ConstantsAssumption DEF AtRest
<1>3. ASSUME NEW c \in Client
      PROVE  Idle(c) /\ Step(c) \notin Names /\ told[c] = None /\ c \notin Activating
  <2>1. Idle(c) /\ told[c] = None
    BY DEF Init, Idle
  <2> QED
    BY <2>1, NoStep DEF Activating
<1>4. \A c \in Client : Writes(c)
  BY <1>3 DEF Writes, LevelWritten, MembersWritten, AloneActive, WavesDropped, Tells,
     HasLevel, Replacing, Dropping, Names
<1>5. BookInv
  BY <1>2, <1>4 DEF BookInv, StoredAreLists, MembersAreShared
<1>6. CommittedLists = [l \in Level |-> Absent] /\ CommittedActive = {}
  BY <1>2 DEF CommittedLists, CommittedActive
<1>7. CommittedWaves \in SUBSET Wave
  BY DEF CommittedWaves
<1>8. Verdicts = [c \in Client |-> None]
  <2>1. \A c \in Client : Verdict(c) = None
    BY <1>3, VerdictOf DEF VerdictBySteps
  <2> QED
    BY <2>1 DEF Verdicts
<1> QED
  BY <1>5, <1>6, <1>7, <1>8 DEF Init, Book!Init

(* Levels implements LevelBook. *)
THEOREM LevelsImplementTheBook == Spec => ImplementsLevelBook
<1>1. Init => Inv /\ BookInv /\ Book!Init
  BY InitInv, InitBook
<1>2. Inv /\ BookInv /\ [Next]_vars => Inv' /\ BookInv' /\ [Book!Next]_Book!vars
  BY NextInv, NextBook, NextImplements
<1> QED
  BY <1>1, <1>2, PTL DEF Spec, ImplementsLevelBook, Book!Spec
=============================================================================
