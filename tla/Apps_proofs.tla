---- MODULE Apps_proofs ----
(***************************************************************************)
(* What the apps keep, for any number of requests in flight, players,      *)
(* items, stages, waves and boards: holdings, the grants that make them,   *)
(* the catalogue, the XP curve and the wave documents. The apps share the  *)
(* clients' requests and nothing they store, so every part is proved from  *)
(* its own steps and from a stutter when another app moves.                *)
(*                                                                         *)
(* Every section has the same three pieces: an invariant over what is      *)
(* stored and what is under way, that says why a step finds what an        *)
(* earlier one left; a lemma for each step of the app; and the theorems.   *)
(***************************************************************************)
EXTENDS Apps, Numbers
-----------------------------------------------------------------------------
(***************************************************************************)
(* A better score is never lost, for any number of boards, players and     *)
(* submissions, and whatever range scores have: while a board keeps its    *)
(* direction, every entry is the best that was committed for it.           *)
(*                                                                         *)
(* What a commit stores was compared earlier, with another version and in  *)
(* a direction read before that.  The invariant says that neither has      *)
(* changed: the entry's lock has kept its version, and its board cannot be *)
(* deleted under it; and if the board was compared in one direction only,  *)
(* that is the one it has.                                                 *)
(***************************************************************************)

Entries == [Key -> {Absent} \cup Score]
Submitted == [pc : {"write", "stand"}, key : Key, score : Score, down : BOOLEAN]

TypeOK ==
  /\ store \in Entries /\ draft \in Entries /\ best \in Entries
  /\ holder \in [Key -> Request \cup {Nobody}]
  /\ descending \in [Board -> BOOLEAN \cup {Absent}]
  /\ at \in [Request -> {Idle} \cup Submitted]
  /\ ways \in [Board -> SUBSET BOOLEAN]

(* Of the directions a board has had or was compared in, one at most. *)
OneWay(directions) == \A x, y \in directions : x = y

DirectionsNoted == \A b \in Board : descending[b] # Absent => descending[b] \in ways[b]

(* A lock is a submission's that has written and not ended. *)
LocksAreSubmissions ==
  \A k \in Key : IF holder[k] = Nobody THEN draft[k] = store[k]
                 ELSE at[holder[k]].pc = "stand" /\ at[holder[k]].key = k

(* An entry belongs to a board, committed or not. *)
EntriesHaveBoards ==
  \A k \in Key : (store[k] # Absent \/ draft[k] # Absent) => descending[k[1]] # Absent

(* What a submission is about to commit is the better of two scores. *)
BetterIsWritten ==
  \A r \in Request : at[r].pc = "stand" =>
    /\ holder[at[r].key] = r /\ draft[at[r].key] # Absent
    /\ OneWay(ways[at[r].key[1]]) =>
         draft[at[r].key] =
           TheBetter(descending[at[r].key[1]], at[r].score, store[at[r].key])

StoredIsBest == \A k \in Key : OneWay(ways[k[1]]) => store[k] = best[k]

Inv ==
  /\ TypeOK /\ DirectionsNoted /\ LocksAreSubmissions
  /\ EntriesHaveBoards /\ BetterIsWritten /\ StoredIsBest

LEMMA KeysHaveBoards == ASSUME NEW k \in Key PROVE k[1] \in Board
BY DEF Key

LEMMA InitInv == ASSUME Init PROVE Inv
<1>1. TypeOK
  BY DEF Init, AtRest, TypeOK, Entries
<1>2. LocksAreSubmissions /\ EntriesHaveBoards /\ StoredIsBest
  BY DEF Init, AtRest, LocksAreSubmissions, EntriesHaveBoards, StoredIsBest
<1>3. DirectionsNoted /\ BetterIsWritten
  BY DEF Init, DirectionsNoted, BetterIsWritten, Idle
<1> QED
  BY <1>1, <1>2, <1>3 DEF Inv

LEMMA SaveBoardInv ==
  ASSUME BoardsAssumption, Inv, NEW b \in Board, NEW name, NEW given, SaveBoard(b, name, given)
  PROVE  Inv'
<1> DEFINE down == direction(given)
<1>1. down \in BOOLEAN
  BY DEF SaveBoard, direction
<1>2. /\ descending' = [descending EXCEPT ![b] = down]
      /\ ways' = [ways EXCEPT ![b] = @ \cup {down}]
      /\ UNCHANGED <<store, draft, holder, at, best>>
  BY DEF SaveBoard, rowVars
<1> HIDE DEF down
<1>3. TypeOK'
  BY <1>1, <1>2 DEF Inv, TypeOK
<1>4. DirectionsNoted'
  BY <1>2 DEF Inv, TypeOK, DirectionsNoted
<1>5. down # Absent
  BY <1>1 DEF BoardsAssumption
<1>6. EntriesHaveBoards'
  BY <1>2, <1>5, KeysHaveBoards DEF Inv, TypeOK, EntriesHaveBoards
<1>7. \A c \in Board : OneWay(ways'[c]) => OneWay(ways[c])
  BY <1>2 DEF Inv, TypeOK, OneWay
<1>8. \A c \in Board : OneWay(ways'[c]) /\ descending[c] # Absent => descending'[c] = descending[c]
  <2> SUFFICES ASSUME NEW c \in Board, OneWay(ways'[c]), descending[c] # Absent
               PROVE  descending'[c] = descending[c]
    OBVIOUS
  <2>1. CASE c = b
    <3>1. down \in ways'[b] /\ descending[b] \in ways'[b]
      BY <1>2, <2>1 DEF Inv, TypeOK, DirectionsNoted
    <3> QED
      BY <1>2, <2>1, <3>1 DEF Inv, TypeOK, OneWay
  <2>2. CASE c # b
    BY <1>2, <2>2 DEF Inv, TypeOK
  <2> QED
    BY <2>1, <2>2
<1>9. BetterIsWritten'
  <2> SUFFICES ASSUME NEW r \in Request, at[r].pc = "stand"
               PROVE  /\ holder[at[r].key] = r /\ draft[at[r].key] # Absent
                      /\ OneWay(ways'[at[r].key[1]]) =>
                           draft[at[r].key] =
                             TheBetter(descending'[at[r].key[1]], at[r].score, store[at[r].key])
    BY <1>2 DEF BetterIsWritten, OneWay
  <2>1. at[r].key \in Key /\ at[r].key[1] \in Board
    BY KeysHaveBoards DEF Inv, TypeOK, Idle, Submitted
  <2>2. descending[at[r].key[1]] # Absent
    BY <2>1 DEF Inv, BetterIsWritten, EntriesHaveBoards
  <2> QED
    BY <1>7, <1>8, <2>1, <2>2 DEF Inv, BetterIsWritten
<1>10. StoredIsBest'
  BY <1>2, <1>7, KeysHaveBoards DEF Inv, StoredIsBest
<1> QED
  BY <1>2, <1>3, <1>4, <1>6, <1>9, <1>10 DEF Inv, LocksAreSubmissions

(* The rows of a board go with it, and nobody holds one. *)
LEMMA DeleteBoardInv ==
  ASSUME Inv, NEW b \in Board, DeleteBoard(b)
  PROVE  Inv'
<1> DEFINE ks == {b} \X Player
<1>1. /\ \A k \in ks : holder[k] = Nobody
      /\ store' = [k \in Key |-> IF k \in ks THEN Absent ELSE store[k]]
      /\ draft' = [k \in Key |-> IF k \in ks THEN Absent ELSE draft[k]]
      /\ descending' = [descending EXCEPT ![b] = Absent]
      /\ best' = [k \in Key |-> IF k[1] = b THEN Absent ELSE best[k]]
      /\ UNCHANGED <<holder, at, ways>>
  BY DEF DeleteBoard, DeleteRows
<1>2. \A k \in Key : k \in ks <=> k[1] = b
  BY DEF Key
<1> HIDE DEF ks
<1>3. TypeOK'
  BY <1>1 DEF Inv, TypeOK, Entries
<1>4. DirectionsNoted'
  BY <1>1 DEF Inv, TypeOK, DirectionsNoted
<1>5. LocksAreSubmissions'
  BY <1>1 DEF Inv, LocksAreSubmissions
<1>6. EntriesHaveBoards'
  BY <1>1, <1>2 DEF Inv, TypeOK, EntriesHaveBoards
<1>7. BetterIsWritten'
  <2> SUFFICES ASSUME NEW r \in Request, at[r].pc = "stand"
               PROVE  /\ holder[at[r].key] = r /\ draft'[at[r].key] # Absent
                      /\ OneWay(ways[at[r].key[1]]) =>
                           draft'[at[r].key] =
                             TheBetter(descending'[at[r].key[1]], at[r].score, store'[at[r].key])
    BY <1>1 DEF BetterIsWritten, OneWay
  <2>1. at[r].key \in Key
    BY DEF Inv, TypeOK, Idle, Submitted
  <2>2. at[r].key \notin ks
    BY <1>1, BoardsAssumption DEF Inv, BetterIsWritten
  <2>3. draft'[at[r].key] = draft[at[r].key] /\ store'[at[r].key] = store[at[r].key]
    BY <1>1, <2>1, <2>2
  <2>4. descending'[at[r].key[1]] = descending[at[r].key[1]]
    BY <1>1, <1>2, <2>1, <2>2, KeysHaveBoards DEF Inv, TypeOK
  <2> QED
    BY <2>3, <2>4 DEF Inv, BetterIsWritten
<1>8. StoredIsBest'
  BY <1>1, <1>2 DEF Inv, StoredIsBest, OneWay
<1> QED
  BY <1>3, <1>4, <1>5, <1>6, <1>7, <1>8 DEF Inv
-----------------------------------------------------------------------------
LEMMA SubmitInv ==
  ASSUME Inv, NEW r \in Request, NEW b \in Board, NEW p \in Player, NEW given, Submit(r, b, p, given)
  PROVE  Inv'
<1> DEFINE step == [pc |-> "write", key |-> <<b, p>>, score |-> given, down |-> descending[b] = TRUE]
<1>1. at' = [at EXCEPT ![r] = step] /\ UNCHANGED <<store, draft, holder, descending, best, ways>>
      /\ at[r].pc = "idle" /\ given \in Score
  BY DEF Submit, rowVars, score_of
<1>2. (descending[b] = TRUE) \in BOOLEAN
  OBVIOUS
<1>3. step \in Submitted /\ step.pc = "write"
  BY <1>1, <1>2 DEF Submitted, Key
<1> HIDE DEF step
<1>4. TypeOK'
  BY <1>1, <1>3 DEF Inv, TypeOK
<1>5. LocksAreSubmissions'
  BY <1>1, <1>3 DEF Inv, TypeOK, LocksAreSubmissions
<1>6. BetterIsWritten'
  BY <1>1, <1>3 DEF Inv, TypeOK, BetterIsWritten, OneWay
<1> QED
  BY <1>1, <1>4, <1>5, <1>6
     DEF Inv, DirectionsNoted, EntriesHaveBoards, StoredIsBest, OneWay

(* The transaction ends without having written, or what it wrote is undone. *)
LEMMA EndInv ==
  ASSUME BoardsAssumption, Inv, NEW r \in Request, at' = [at EXCEPT ![r] = Idle],
         RollbackRows(r), UNCHANGED <<descending, best, ways>>
  PROVE  Inv'
<1>1. TypeOK'
  BY DEF Inv, TypeOK, Entries, RollbackRows, Released
<1>2. LocksAreSubmissions'
  BY DEF Inv, TypeOK, LocksAreSubmissions, RollbackRows, Released, BoardsAssumption
<1>3. EntriesHaveBoards'
  BY DEF Inv, TypeOK, EntriesHaveBoards, RollbackRows
<1>4. BetterIsWritten'
  <2> SUFFICES ASSUME NEW q \in Request, at'[q].pc = "stand"
               PROVE  /\ holder'[at'[q].key] = q /\ draft'[at'[q].key] # Absent
                      /\ OneWay(ways[at'[q].key[1]]) =>
                           draft'[at'[q].key] =
                             TheBetter(descending[at'[q].key[1]], at'[q].score, store[at'[q].key])
    BY DEF BetterIsWritten, OneWay, RollbackRows
  <2>1. q # r /\ at'[q] = at[q]
    BY DEF Inv, TypeOK, Idle
  <2>2. at[q].key \in Key /\ holder[at[q].key] = q
    BY <2>1 DEF Inv, TypeOK, Idle, Submitted, BetterIsWritten
  <2>3. draft'[at[q].key] = draft[at[q].key] /\ holder'[at[q].key] = q
    BY <2>1, <2>2 DEF RollbackRows, Released
  <2> QED
    BY <2>1, <2>3 DEF Inv, BetterIsWritten
<1> QED
  BY <1>1, <1>2, <1>3, <1>4
     DEF Inv, DirectionsNoted, StoredIsBest, OneWay, RollbackRows

(* A submission has no lock before it writes. *)
LEMMA NoLockYet ==
  ASSUME Inv, NEW r \in Request, NEW k \in Key, at[r].pc # "stand", BoardsAssumption
  PROVE  holder[k] # r
BY DEF Inv, LocksAreSubmissions, BoardsAssumption

(* The write of version v, which is the better one if the board has one way. *)
LEMMA WrittenInv ==
  ASSUME BoardsAssumption, Inv, NEW r \in Request, NEW v \in Score,
         at[r].pc = "write", Lockable(r, at[r].key),
         WriteRow(r, at[r].key, v), at' = [at EXCEPT ![r].pc = "stand"],
         descending[at[r].key[1]] # Absent,
         ways' \in [Board -> SUBSET BOOLEAN], \A b \in Board : ways[b] \subseteq ways'[b],
         OneWay(ways'[at[r].key[1]]) =>
           v = TheBetter(descending[at[r].key[1]], at[r].score, draft[at[r].key]),
         UNCHANGED <<descending, best>>
  PROVE  Inv'
<1> DEFINE key == at[r].key
<1>1. at[r] \in Submitted /\ key \in Key /\ key[1] \in Board
  BY KeysHaveBoards DEF Inv, TypeOK, Idle, Submitted
<1>2. holder[key] = Nobody /\ draft[key] = store[key]
  BY <1>1, NoLockYet DEF Lockable, Inv, LocksAreSubmissions
<1>3. v # Absent
  BY DEF Score, BoardsAssumption
<1>4. at'[r] = [at[r] EXCEPT !.pc = "stand"] /\ \A q \in Request \ {r} : at'[q] = at[q]
  BY DEF Inv, TypeOK
<1>5. at'[r] \in Submitted /\ at'[r].pc = "stand" /\ at'[r].key = key /\ at'[r].score = at[r].score
  BY <1>1, <1>4 DEF Submitted
<1>6. /\ draft' = [draft EXCEPT ![key] = v] /\ holder' = [holder EXCEPT ![key] = r]
      /\ store' = store
  BY DEF WriteRow
<1> HIDE DEF key
<1>7. TypeOK'
  BY <1>1, <1>4, <1>5, <1>6 DEF Inv, TypeOK, Entries
<1>8. \A b \in Board : OneWay(ways'[b]) => OneWay(ways[b])
  BY DEF OneWay
<1>9. LocksAreSubmissions'
  <2> SUFFICES ASSUME NEW k \in Key
               PROVE  IF holder'[k] = Nobody THEN draft'[k] = store'[k]
                      ELSE at'[holder'[k]].pc = "stand" /\ at'[holder'[k]].key = k
    BY DEF LocksAreSubmissions
  <2>1. CASE k = key
    BY <1>1, <1>5, <1>6, <2>1 DEF Inv, TypeOK, BoardsAssumption
  <2>2. CASE k # key
    <3>1. holder'[k] = holder[k] /\ draft'[k] = draft[k] /\ holder[k] \in Request \cup {Nobody}
      BY <1>6, <2>2 DEF Inv, TypeOK, Entries
    <3>2. holder[k] # r
      BY NoLockYet
    <3> QED
      BY <1>4, <1>6, <3>1, <3>2 DEF Inv, LocksAreSubmissions
  <2> QED
    BY <2>1, <2>2
<1>10. EntriesHaveBoards'
  <2> SUFFICES ASSUME NEW k \in Key, store[k] # Absent \/ draft'[k] # Absent
               PROVE  descending[k[1]] # Absent
    BY <1>6 DEF EntriesHaveBoards
  <2>1. CASE k = key
    BY <2>1 DEF key
  <2>2. CASE k # key
    BY <1>6, <2>2 DEF Inv, TypeOK, Entries, EntriesHaveBoards
  <2> QED
    BY <2>1, <2>2
<1>11. BetterIsWritten'
  <2> SUFFICES ASSUME NEW q \in Request, at'[q].pc = "stand"
               PROVE  /\ holder'[at'[q].key] = q /\ draft'[at'[q].key] # Absent
                      /\ OneWay(ways'[at'[q].key[1]]) =>
                           draft'[at'[q].key] =
                             TheBetter(descending[at'[q].key[1]], at'[q].score, store[at'[q].key])
    BY <1>6 DEF BetterIsWritten, OneWay
  <2>1. CASE q = r
    <3>1. holder'[key] = r /\ draft'[key] = v
      BY <1>1, <1>6 DEF Inv, TypeOK, Entries
    <3> QED
      BY <1>2, <1>3, <1>5, <2>1, <3>1 DEF key
  <2>2. CASE q # r
    <3>1. at'[q] = at[q] /\ at[q].key \in Key /\ holder[at[q].key] = q /\ at[q].key[1] \in Board
      BY <1>4, <2>2, KeysHaveBoards DEF Inv, TypeOK, Idle, Submitted, BetterIsWritten
    <3>2. at[q].key # key
      BY <1>2, <3>1 DEF BoardsAssumption
    <3>3. holder'[at[q].key] = q /\ draft'[at[q].key] = draft[at[q].key]
      BY <1>6, <3>1, <3>2 DEF Inv, TypeOK, Entries
    <3> QED
      BY <1>8, <3>1, <3>3 DEF Inv, BetterIsWritten
  <2> QED
    BY <2>1, <2>2
<1>12. StoredIsBest'
  BY <1>6, <1>8, KeysHaveBoards DEF Inv, StoredIsBest
<1>13. DirectionsNoted'
  BY DEF Inv, DirectionsNoted
<1> QED
  BY <1>7, <1>9, <1>10, <1>11, <1>12, <1>13 DEF Inv

LEMMA WriteInv ==
  ASSUME BoardsAssumption, Inv, NEW r \in Request, Write(r)
  PROVE  Inv'
<1> DEFINE key == at[r].key
           new == at[r].score
           down == at[r].down
<1>1. at[r].pc = "write" /\ Lockable(r, key) /\ UNCHANGED <<descending, best>>
  BY DEF Write
<1>2. key \in Key /\ key[1] \in Board /\ new \in Score /\ down \in BOOLEAN
  BY <1>1, KeysHaveBoards DEF Inv, TypeOK, Idle, Submitted
<1>3. draft[key] \in {Absent} \cup Score
  BY <1>2 DEF Inv, TypeOK, Entries
<1>4. CASE draft[key] = Absent /\ descending[key[1]] = Absent
  <2>1. at' = [at EXCEPT ![r] = Idle] /\ UNCHANGED <<store, draft, holder, ways>>
    BY <1>4 DEF Write, rowVars
  <2>2. RollbackRows(r)
    <3>1. \A k \in Key : holder[k] # r
      BY <1>1, NoLockYet
    <3> QED
      BY <2>1, <3>1 DEF RollbackRows, Released, Inv, TypeOK, Entries
  <2> QED
    BY <1>1, <2>1, <2>2, EndInv
<1>5. CASE draft[key] = Absent /\ descending[key[1]] # Absent
  <2>1. WriteRow(r, key, new) /\ at' = [at EXCEPT ![r].pc = "stand"] /\ ways' = ways
    BY <1>5 DEF Write
  <2>2. new = TheBetter(descending[key[1]], new, draft[key])
    BY <1>5 DEF TheBetter
  <2>3. ways' \in [Board -> SUBSET BOOLEAN] /\ \A b \in Board : ways[b] \subseteq ways'[b]
    BY <2>1 DEF Inv, TypeOK
  <2> QED
    BY <1>1, <1>2, <1>5, <2>1, <2>2, <2>3, WrittenInv
<1>6. CASE draft[key] # Absent
  <2> DEFINE v == TheBetter(down, new, draft[key])
  <2>1. /\ WriteRow(r, key, v) /\ at' = [at EXCEPT ![r].pc = "stand"]
        /\ ways' = [ways EXCEPT ![key[1]] = @ \cup {down}]
    BY <1>6 DEF Write
  <2>2. v \in Score
    BY <1>2, <1>3, <1>6 DEF TheBetter
  <2>3. descending[key[1]] # Absent
    BY <1>2, <1>6 DEF Inv, EntriesHaveBoards
  <2>4. ways' \in [Board -> SUBSET BOOLEAN] /\ \A b \in Board : ways[b] \subseteq ways'[b]
    BY <1>2, <2>1 DEF Inv, TypeOK
  <2>5. OneWay(ways'[key[1]]) => descending[key[1]] = down
    BY <1>2, <2>1, <2>3 DEF Inv, TypeOK, DirectionsNoted, OneWay
  <2>6. OneWay(ways'[key[1]]) => v = TheBetter(descending[key[1]], new, draft[key])
    BY <2>5
  <2> HIDE DEF v
  <2> QED
    BY <1>1, <1>2, <2>1, <2>2, <2>3, <2>4, <2>6, WrittenInv
<1> QED
  BY <1>4, <1>5, <1>6

LEMMA StandInv ==
  ASSUME BoardsAssumption, Inv, NEW r \in Request, Stand(r)
  PROVE  Inv'
<1> DEFINE key == at[r].key
           better == TheBetter(descending[key[1]], at[r].score, best[key])
<1>1. /\ at[r].pc = "stand" /\ CommitRows(r)
      /\ best' = [best EXCEPT ![key] = better]
      /\ at' = [at EXCEPT ![r] = Idle] /\ UNCHANGED <<descending, ways>>
  BY DEF Stand
<1>2. key \in Key /\ key[1] \in Board /\ at[r].score \in Score
  BY <1>1, KeysHaveBoards DEF Inv, TypeOK, Idle, Submitted
<1>3. best[key] \in {Absent} \cup Score
  BY <1>2 DEF Inv, TypeOK, Entries
<1>4. better \in {Absent} \cup Score
  BY <1>2, <1>3 DEF TheBetter
<1>5. OneWay(ways[key[1]]) => draft[key] = better
  BY <1>1, <1>2 DEF Inv, BetterIsWritten, StoredIsBest
<1>6. \A k \in Key : holder[k] = r <=> k = key
  BY <1>1, <1>2 DEF Inv, LocksAreSubmissions, BetterIsWritten, BoardsAssumption
<1> HIDE DEF key, better
<1>7. /\ draft' = draft /\ holder' = [k \in Key |-> IF k = key THEN Nobody ELSE holder[k]]
      /\ store' = [k \in Key |-> IF k = key THEN draft[k] ELSE store[k]]
  BY <1>1, <1>6 DEF CommitRows, Released
<1>8. TypeOK'
  BY <1>1, <1>2, <1>4, <1>7 DEF Inv, TypeOK, Entries
<1>9. LocksAreSubmissions'
  <2> SUFFICES ASSUME NEW k \in Key
               PROVE  IF holder'[k] = Nobody THEN draft[k] = store'[k]
                      ELSE at'[holder'[k]].pc = "stand" /\ at'[holder'[k]].key = k
    BY <1>7 DEF LocksAreSubmissions
  <2>1. CASE k = key
    BY <1>7, <2>1
  <2>2. CASE k # key
    <3>1. holder'[k] = holder[k] /\ store'[k] = store[k] /\ holder[k] \in Request \cup {Nobody}
          /\ holder[k] # r
      BY <1>6, <1>7, <2>2 DEF Inv, TypeOK
    <3> QED
      BY <1>1, <3>1 DEF Inv, TypeOK, LocksAreSubmissions
  <2> QED
    BY <2>1, <2>2
<1>10. EntriesHaveBoards'
  BY <1>1, <1>7 DEF Inv, EntriesHaveBoards
<1>11. BetterIsWritten'
  <2> SUFFICES ASSUME NEW q \in Request, at'[q].pc = "stand"
               PROVE  /\ holder'[at'[q].key] = q /\ draft[at'[q].key] # Absent
                      /\ OneWay(ways[at'[q].key[1]]) =>
                           draft[at'[q].key] =
                             TheBetter(descending[at'[q].key[1]], at'[q].score, store'[at'[q].key])
    BY <1>1, <1>7 DEF BetterIsWritten, OneWay
  <2>1. q # r /\ at'[q] = at[q]
    BY <1>1 DEF Inv, TypeOK, Idle
  <2>2. at[q].key \in Key /\ holder[at[q].key] = q
    BY <2>1 DEF Inv, TypeOK, Idle, Submitted, BetterIsWritten
  <2>3. holder'[at[q].key] = q /\ store'[at[q].key] = store[at[q].key]
    BY <1>6, <1>7, <2>1, <2>2
  <2> QED
    BY <2>1, <2>3 DEF Inv, BetterIsWritten
<1>12. StoredIsBest'
  <2> SUFFICES ASSUME NEW k \in Key, OneWay(ways[k[1]])
               PROVE  store'[k] = best'[k]
    BY <1>1 DEF StoredIsBest, OneWay
  <2>1. CASE k = key
    BY <1>1, <1>2, <1>5, <1>7, <2>1 DEF Inv, TypeOK, Entries
  <2>2. CASE k # key
    BY <1>1, <1>7, <2>2 DEF Inv, TypeOK, Entries, StoredIsBest
  <2> QED
    BY <2>1, <2>2
<1>13. DirectionsNoted'
  BY <1>1 DEF Inv, DirectionsNoted
<1> QED
  BY <1>8, <1>9, <1>10, <1>11, <1>12, <1>13 DEF Inv

(* A walk reads, and looking changes nothing that is compared. *)
LEMMA UnchangedInv ==
  ASSUME Inv, UNCHANGED <<store, draft, holder, descending, at, best, ways>>
  PROVE  Inv'
BY DEF Inv, TypeOK, DirectionsNoted, LocksAreSubmissions, EntriesHaveBoards,
   BetterIsWritten,
       StoredIsBest, OneWay

LEMMA StepInv ==
  ASSUME BoardsAssumption, Inv, [Next]_vars
  PROVE  Inv'
<1>1. ASSUME NEW r \in Request, Handle(r) PROVE Inv'
  <2>1. CASE Write(r)
    BY <2>1, WriteInv
  <2>2. CASE Stand(r)
    BY <2>2, StandInv
  <2>3. CASE Fail(r)
    BY <2>3, EndInv DEF Fail
  <2> QED
    BY <1>1, <2>1, <2>2, <2>3 DEF Handle
<1>2. ASSUME NEW r \in Request, NEW b \in Board, NEW p \in Player, NEW given, Submit(r, b, p, given)
      PROVE  Inv'
  BY <1>2, SubmitInv
<1>3. ASSUME NEW b \in Board, Edit(b) PROVE Inv'
  BY <1>3, DeleteBoardInv, SaveBoardInv DEF Edit
<1>4. CASE Walk
  <2>1. UNCHANGED <<store, draft, holder, descending, at, best, ways>>
    BY <1>4 DEF Walk, StartWalk, AskPage, ReadPage, rowVars
  <2> QED
    BY <2>1, UnchangedInv
<1>5. CASE UNCHANGED vars
  BY <1>5, UnchangedInv DEF vars, rowVars
<1> QED
  BY <1>1, <1>2, <1>3, <1>4, <1>5 DEF Next

(* Fewer than two directions are one at most. *)
LEMMA FewerThanTwo ==
  ASSUME NEW S \in SUBSET BOOLEAN, Cardinality(S) < 2
  PROVE  \A x, y \in S : x = y
<1> SUFFICES ASSUME NEW x \in S, NEW y \in S, x # y PROVE FALSE
  OBVIOUS
<1>1. S = {x, y}
  OBVIOUS
<1>2. IsFiniteSet({x}) /\ Cardinality({x}) = 1 /\ y \notin {x}
  BY FS_Singleton
<1>3. Cardinality({x} \cup {y}) = Cardinality({x}) + 1
  BY <1>2, FS_AddElement
<1>4. {x} \cup {y} = {x, y}
  OBVIOUS
<1> QED
  BY <1>1, <1>2, <1>3, <1>4

(***************************************************************************)
(* While a board has one direction, what is stored for a player is the     *)
(* best of all that was committed: the one statement of leaderboard's      *)
(* upsert loses nothing, however many submissions meet.                    *)
(***************************************************************************)
THEOREM BetterScoreStays ==
  ASSUME BoardsAssumption
  PROVE  Spec => []BestIsKept
<1>1. Init => Inv
  BY InitInv
<1>2. Inv /\ [Next]_vars => Inv'
  BY StepInv
<1>3. Inv => BestIsKept
  <2> SUFFICES ASSUME Inv, NEW b \in Board, NEW p \in Player, Cardinality(ways[b]) < 2
               PROVE  store[<<b, p>>] = best[<<b, p>>]
    BY DEF BestIsKept
  <2>1. OneWay(ways[b])
    BY FewerThanTwo DEF Inv, TypeOK, OneWay
  <2>2. <<b, p>> \in Key /\ <<b, p>>[1] = b
    BY DEF Key
  <2> QED
    BY <2>1, <2>2 DEF Inv, StoredIsBest
<1> QED
  BY <1>1, <1>2, <1>3, PTL DEF Spec
-----------------------------------------------------------------------------
(***************************************************************************)
(* A walk over a board's pages.  The cursor divides the rows: those beyond *)
(* it have not been shown, the others have.  A page is the front of those  *)
(* beyond, in an order that is total because ids differ, and the cursor    *)
(* moves to its last.  The direction is read anew for every page, so what  *)
(* a cursor means stays the same only while the board has one direction.   *)
(***************************************************************************)
Cursor == [score : Score, player : Player]

WalkTyped ==
  /\ walk \in [pc : {"off", "next", "page", "done"}, board : Board \cup {None},
               after : {None} \cup Cursor, down : BOOLEAN \cup {Absent, None},
               seen : [Player -> Int]]
  /\ still \subseteq Player
  /\ walk.pc = "off" => still = {}
  /\ walk.pc # "off" => walk.board \in Board

RowOf(p) == store[<<walk.board, p>>]

(* The direction of the last page, once there was one, is one of the board's. *)
DownIsNoted ==
  walk.pc = "page" \/ (walk.pc = "next" /\ walk.after # None) => walk.down \in ways[walk.board]

ToCome(p) == walk.pc \in {"next", "page"} /\ Beyond(walk.down, walk.after, RowOf(p), p)

(* How often a row that kept its score has been shown so far. *)
ShownSoFar ==
  walk.pc # "off" /\ OneWay(ways[walk.board]) =>
    \A p \in still : walk.seen[p] = IF RowOf(p) = Absent \/ ToCome(p) THEN 0 ELSE 1

WalkInv == WalkTyped /\ DownIsNoted /\ ShownSoFar

LEMMA ScoresAreNumbers ==
  ASSUME BoardsAssumption
  PROVE  \A x \in MIN_SCORE..MAX_SCORE : x \in Int
<1>1. MIN_SCORE \in Int /\ MAX_SCORE \in Int
  BY DEF BoardsAssumption
<1> QED
  BY <1>1

LEMMA RowIsScore ==
  ASSUME Inv, WalkTyped, walk.pc # "off", NEW p \in Player, RowOf(p) # Absent
  PROVE  RowOf(p) \in Score
BY DEF Inv, TypeOK, Entries, Key, WalkTyped, RowOf

(* Rows may come and go, and directions be added: who is still there has    *)
(* not moved.                                                              *)
LEMMA WalkGoesOn ==
  ASSUME WalkInv, walk' = walk, still' \subseteq still,
         \A p \in still' : RowOf(p)' = RowOf(p),
         \A b \in Board : ways[b] \subseteq ways'[b]
  PROVE  WalkInv'
<1>1. WalkTyped' /\ DownIsNoted'
  BY DEF WalkInv, WalkTyped, DownIsNoted
<1>2. walk.pc # "off" => (OneWay(ways'[walk.board]) => OneWay(ways[walk.board]))
  BY DEF WalkInv, WalkTyped, OneWay
<1>3. \A p \in still' : ToCome(p)' <=> ToCome(p)
  BY DEF ToCome
<1>4. ShownSoFar'
  BY <1>2, <1>3 DEF WalkInv, ShownSoFar
<1> QED
  BY <1>1, <1>4 DEF WalkInv

LEMMA StartBoardWalkInv ==
  ASSUME WalkInv, NEW b \in Board, StartWalk(b)
  PROVE  WalkInv'
<1>1. /\ walk' = [pc |-> "next", board |-> b, after |-> None, down |-> None,
                  seen |-> [p \in Player |-> 0]]
      /\ still' = Player
  BY DEF StartWalk, NoWalk
<1>2. WalkTyped'
  BY <1>1 DEF WalkTyped
<1>3. walk'.pc = "next" /\ walk'.after = None /\ walk'.seen = [p \in Player |-> 0]
  BY <1>1
<1>4. DownIsNoted' /\ \A p \in Player : ToCome(p)'
  BY <1>3 DEF DownIsNoted, ToCome, Beyond
<1> QED
  BY <1>1, <1>2, <1>3, <1>4 DEF WalkInv, ShownSoFar

LEMMA AskPageInv ==
  ASSUME Inv, WalkInv, NEW damaged, AskPage(damaged)
  PROVE  WalkInv'
<1>1. walk.pc = "next" /\ walk.board \in Board /\ UNCHANGED <<store, ways>>
  BY DEF AskPage, WalkInv, WalkTyped, rowVars
<1>2. CASE descending[walk.board] = Absent
  <2>1. walk' = NoWalk /\ still' = {}
    BY <1>2 DEF AskPage
  <2>2. walk'.pc = "off"
    BY <2>1 DEF NoWalk
  <2> QED
    BY <2>1, <2>2 DEF NoWalk, WalkInv, WalkTyped, DownIsNoted, ShownSoFar
<1>3. CASE descending[walk.board] # Absent
  <2> DEFINE down == descending[walk.board]
  <2>1. walk' = [walk EXCEPT !.pc = "page", !.down = down] /\ still' = still
    BY <1>3 DEF AskPage
  <2>2. down \in BOOLEAN /\ down \in ways[walk.board]
    BY <1>1, <1>3 DEF Inv, TypeOK, DirectionsNoted
  <2> HIDE DEF down
  <2>3. /\ walk'.pc = "page" /\ walk'.down = down /\ walk'.board = walk.board
        /\ walk'.after = walk.after /\ walk'.seen = walk.seen
    BY <2>1 DEF WalkInv, WalkTyped
  <2>4. WalkTyped'
    BY <1>1, <2>1, <2>2 DEF WalkInv, WalkTyped
  <2>5. DownIsNoted'
    BY <1>1, <2>2, <2>3 DEF DownIsNoted
  <2>6. OneWay(ways[walk.board]) => \A p \in still : ToCome(p)' <=> ToCome(p)
    BY <1>1, <2>2, <2>3 DEF WalkInv, DownIsNoted, OneWay, ToCome, RowOf, Beyond
  <2>7. ShownSoFar'
    BY <1>1, <2>1, <2>3, <2>6 DEF WalkInv, ShownSoFar, RowOf
  <2> QED
    BY <2>4, <2>5, <2>7 DEF WalkInv
<1> QED
  BY <1>2, <1>3

(* Two rows of a board, and which of them a page shows first. *)
InOrder(down, p, q) == Before(down, RowOf(p), p, RowOf(q), q)

Front(S, q) == {p \in S : InOrder(walk.down, p, q)}

LEMMA OrderIsTotal ==
  ASSUME BoardsAssumption, Inv, WalkTyped, walk.pc # "off", NEW down \in BOOLEAN,
         NEW p \in Player, NEW q \in Player, RowOf(p) # Absent, RowOf(q) # Absent
  PROVE  /\ ~InOrder(down, p, p)
         /\ p # q => InOrder(down, p, q) \/ InOrder(down, q, p)
         /\ InOrder(down, p, q) => ~InOrder(down, q, p)
         /\ \A x \in Player : RowOf(x) # Absent /\ InOrder(down, x, p) /\ InOrder(down, p, q)
              => InOrder(down, x, q)
<1>1. \A x \in Player : x \in Int /\ (RowOf(x) # Absent => RowOf(x) \in Int)
  BY RowIsScore DEF Score, BoardsAssumption
<1> QED
  BY <1>1 DEF InOrder, Before, Better

(* Whoever is not on a page comes after whoever is. *)
LEMMA PageIsAFront ==
  ASSUME BoardsAssumption, Inv, WalkTyped, walk.pc # "off", walk.down \in BOOLEAN,
         NEW S \in SUBSET Player, \A p \in S : RowOf(p) # Absent,
         NEW n \in Nat, NEW p \in S, NEW last \in S,
         Cardinality(Front(S, last)) < n, ~(Cardinality(Front(S, p)) < n)
  PROVE  InOrder(walk.down, last, p)
<1>1. p # last /\ (InOrder(walk.down, p, last) \/ InOrder(walk.down, last, p))
  BY OrderIsTotal
<1>2. ASSUME InOrder(walk.down, p, last) PROVE FALSE
  <2>1. Front(S, p) \subseteq Front(S, last)
    BY <1>2, OrderIsTotal DEF Front
  <2>2. IsFiniteSet(S)
    BY FS_Subset DEF BoardsAssumption
  <2>3. IsFiniteSet(Front(S, last)) /\ IsFiniteSet(Front(S, p))
    BY <2>2, FS_Subset DEF Front
  <2>4. Cardinality(Front(S, p)) <= Cardinality(Front(S, last))
    BY <2>1, <2>3, FS_Subset
  <2>5. Cardinality(Front(S, p)) \in Nat /\ Cardinality(Front(S, last)) \in Nat
    BY <2>3, FS_CardinalityType
  <2> QED
    BY <2>4, <2>5
<1> QED
  BY <1>1, <1>2

(* A page that has room for all that is to come shows all of it. *)
LEMMA LastPageIsAll ==
  ASSUME BoardsAssumption, Inv, WalkTyped, walk.pc # "off", walk.down \in BOOLEAN,
         NEW S \in SUBSET Player, \A p \in S : RowOf(p) # Absent,
         NEW n \in Nat, Cardinality(S) <= n, NEW p \in S
  PROVE  Cardinality(Front(S, p)) < n
<1>1. IsFiniteSet(S)
  BY FS_Subset DEF BoardsAssumption
<1>2. IsFiniteSet(S \ {p}) /\ Cardinality(S \ {p}) = Cardinality(S) - 1
  BY <1>1, FS_RemoveElement
<1>3. Front(S, p) \subseteq S \ {p}
  BY OrderIsTotal DEF Front
<1>4. Cardinality(Front(S, p)) <= Cardinality(S \ {p}) /\ IsFiniteSet(Front(S, p))
  BY <1>2, <1>3, FS_Subset
<1>5. Cardinality(S) \in Nat /\ Cardinality(Front(S, p)) \in Nat
  BY <1>1, <1>4, FS_CardinalityType
<1> QED
  BY <1>2, <1>4, <1>5

LEMMA PageSizeIsNat ==
  ASSUME BoardsAssumption, NEW limit \in {None, 0, MOST_ENTRIES_PER_PAGE + 1}
  PROVE  page_size(limit) \in Nat
BY DEF BoardsAssumption, page_size

LEMMA ReadPageInv ==
  ASSUME BoardsAssumption, Inv, WalkInv, NEW limit \in {None, 0, MOST_ENTRIES_PER_PAGE + 1},
         ReadPage(limit)
  PROVE  WalkInv'
<1> DEFINE beyond == {p \in Player : RowOf(p) # Absent
                                     /\ Beyond(walk.down, walk.after, RowOf(p), p)}
           shown == {p \in beyond : Cardinality(Front(beyond, p)) < page_size(limit)}
           seen == [p \in Player |-> walk.seen[p] + (IF p \in shown THEN 1 ELSE 0)]
<1>1. walk.pc = "page" /\ walk.board \in Board /\ UNCHANGED <<store, ways, still>>
  BY DEF ReadPage, WalkInv, WalkTyped, rowVars
<1>2. \/ \E last \in shown :
           /\ \A p \in shown \ {last} : InOrder(walk.down, p, last)
           /\ walk' = [walk EXCEPT !.pc = "next",
                         !.after = [score |-> RowOf(last), player |-> last], !.seen = seen]
      \/ /\ Cardinality(beyond) <= page_size(limit)
         /\ walk' = [walk EXCEPT !.pc = "done", !.after = None, !.seen = seen]
  BY Zenon DEF ReadPage, RowOf, Front, InOrder
<1>3. walk.down \in BOOLEAN /\ walk.down \in ways[walk.board]
  BY <1>1 DEF WalkInv, DownIsNoted, Inv, TypeOK
<1>4. beyond \in SUBSET Player /\ (\A p \in beyond : RowOf(p) # Absent) /\ shown \subseteq beyond
  OBVIOUS
<1>5. page_size(limit) \in Nat /\ WalkTyped /\ walk.pc # "off"
  BY <1>1, PageSizeIsNat DEF WalkInv
<1>6. \A last \in shown, p \in beyond \ shown : InOrder(walk.down, last, p)
  BY <1>3, <1>4, <1>5, PageIsAFront
<1>7. Cardinality(beyond) <= page_size(limit) => shown = beyond
  BY <1>3, <1>4, <1>5, LastPageIsAll
<1>8. seen \in [Player -> Int]
      /\ \A p \in Player : seen[p] = walk.seen[p] + (IF p \in shown THEN 1 ELSE 0)
  BY DEF WalkInv, WalkTyped
<1>9. OneWay(ways[walk.board]) =>
        \A p \in still : /\ p \in Player
                         /\ walk.seen[p] = IF RowOf(p) = Absent \/ p \in beyond THEN 0 ELSE 1
  BY <1>1 DEF WalkInv, WalkTyped, ShownSoFar, ToCome
<1>10. \A p \in Player : RowOf(p) # Absent =>
         (p \in beyond <=> Beyond(walk.down, walk.after, RowOf(p), p))
  OBVIOUS
<1> HIDE DEF beyond, shown, seen
<1>11. CASE /\ Cardinality(beyond) <= page_size(limit)
            /\ walk' = [walk EXCEPT !.pc = "done", !.after = None, !.seen = seen]
  <2>1. walk'.pc = "done" /\ walk'.board = walk.board /\ walk'.seen = seen
    BY <1>11 DEF WalkInv, WalkTyped
  <2>2. WalkTyped'
    BY <1>1, <1>8, <1>11 DEF WalkInv, WalkTyped
  <2>3. ShownSoFar'
    <3> SUFFICES ASSUME OneWay(ways[walk.board]), NEW p \in still
                 PROVE  seen[p] = IF RowOf(p) = Absent THEN 0 ELSE 1
      BY <1>1, <2>1 DEF ShownSoFar, ToCome, RowOf
    <3>1. p \in Player /\ walk.seen[p] = IF RowOf(p) = Absent \/ p \in beyond THEN 0 ELSE 1
      BY <1>9
    <3>2. seen[p] = walk.seen[p] + (IF p \in beyond THEN 1 ELSE 0)
      BY <1>7, <1>8, <1>11, <3>1
    <3> QED
      BY <1>4, <3>1, <3>2
  <2> QED
    BY <2>1, <2>2, <2>3 DEF WalkInv, DownIsNoted
<1>12. ASSUME NEW last \in shown, \A p \in shown \ {last} : InOrder(walk.down, p, last),
              walk' = [walk EXCEPT !.pc = "next",
                         !.after = [score |-> RowOf(last), player |-> last], !.seen = seen]
       PROVE  WalkInv'
  <2> DEFINE after == [score |-> RowOf(last), player |-> last]
  <2>1. last \in Player /\ RowOf(last) # Absent /\ RowOf(last) \in Score
    BY <1>4, <1>5, RowIsScore
  <2>2. after \in Cursor /\ after # None
    BY <2>1 DEF Cursor, BoardsAssumption, Score
  <2>3. after.score = RowOf(last) /\ after.player = last
    OBVIOUS
  <2> HIDE DEF after
  <2>4. walk' = [walk EXCEPT !.pc = "next", !.after = after, !.seen = seen]
    BY <1>12 DEF after
  <2>5. /\ walk'.pc = "next" /\ walk'.board = walk.board /\ walk'.down = walk.down
        /\ walk'.after = after /\ walk'.seen = seen
    BY <2>4 DEF WalkInv, WalkTyped
  <2>6. WalkTyped'
    BY <1>1, <1>8, <2>2, <2>4 DEF WalkInv, WalkTyped
  <2>7. DownIsNoted'
    BY <1>1, <1>3, <2>5 DEF DownIsNoted
  <2>8. \A p \in Player : RowOf(p) # Absent =>
          (InOrder(walk.down, last, p) <=> p \in beyond \ shown)
    <3> SUFFICES ASSUME NEW p \in Player, RowOf(p) # Absent
                 PROVE  InOrder(walk.down, last, p) <=> p \in beyond \ shown
      OBVIOUS
    <3>1. CASE p \in shown
      BY <1>3, <1>5, <1>12, <2>1, <3>1, OrderIsTotal
    <3>2. CASE p \in beyond \ shown
      BY <1>6, <3>2
    <3>3. CASE p \notin beyond
      <4>1. ~Beyond(walk.down, walk.after, RowOf(p), p)
            /\ Beyond(walk.down, walk.after, RowOf(last), last)
        BY <1>4, <1>10, <2>1, <3>3
      <4>2. walk.after.score \in Int /\ walk.after.player \in Int /\ walk.after # None
        <5>1. walk.after \in Cursor /\ walk.after # None
          BY <4>1 DEF Beyond, WalkInv, WalkTyped
        <5>2. walk.after.score \in MIN_SCORE..MAX_SCORE /\ walk.after.player \in Player
          BY <5>1 DEF Cursor, Score
        <5> QED
          BY <5>1, <5>2, ScoresAreNumbers DEF BoardsAssumption
      <4>3. {RowOf(p), RowOf(last), p, last} \subseteq Int
        BY <1>5, <2>1, RowIsScore DEF Score, BoardsAssumption
      <4> QED
        BY <1>3, <1>4, <3>3, <4>1, <4>2, <4>3 DEF InOrder, Beyond, Before, Better
    <3> QED
      BY <1>4, <3>1, <3>2, <3>3
  <2>9. ShownSoFar'
    <3> SUFFICES ASSUME OneWay(ways[walk.board]), NEW p \in still
                 PROVE  seen[p] = IF RowOf(p) = Absent \/ InOrder(walk.down, last, p) THEN 0 ELSE 1
      BY <1>1, <2>2, <2>3, <2>5 DEF ShownSoFar, ToCome, RowOf, Beyond, InOrder
    <3>1. p \in Player /\ walk.seen[p] = IF RowOf(p) = Absent \/ p \in beyond THEN 0 ELSE 1
      BY <1>9
    <3>2. seen[p] = walk.seen[p] + (IF p \in shown THEN 1 ELSE 0)
      BY <1>8, <3>1
    <3> QED
      BY <1>4, <2>8, <3>1, <3>2
  <2> QED
    BY <2>6, <2>7, <2>9 DEF WalkInv
<1> QED
  BY <1>2, <1>11, <1>12

LEMMA WalkStepInv ==
  ASSUME BoardsAssumption, Inv, WalkInv, [Next]_vars
  PROVE  WalkInv'
<1>1. ASSUME UNCHANGED <<store, walk, still>>, \A b \in Board : ways[b] \subseteq ways'[b]
      PROVE  WalkInv'
  BY <1>1, WalkGoesOn DEF RowOf
<1>2. ASSUME walk' = walk, ways' = ways, Note PROVE WalkInv'
  BY <1>2, WalkGoesOn DEF RowOf, Note
<1>3. ASSUME NEW r \in Request, Handle(r) PROVE WalkInv'
  <2>1. CASE Write(r)
    <3>1. UNCHANGED <<store, walk, still>>
      BY <2>1 DEF Write, WriteRow, rowVars
    <3>2. \A b \in Board : ways[b] \subseteq ways'[b]
      BY <2>1 DEF Write, Inv, TypeOK
    <3> QED
      BY <1>1, <3>1, <3>2
  <2>2. CASE Stand(r)
    BY <1>2, <2>2 DEF Stand
  <2>3. CASE Fail(r)
    BY <1>1, <2>3 DEF Fail, RollbackRows
  <2> QED
    BY <1>3, <2>1, <2>2, <2>3 DEF Handle
<1>4. ASSUME NEW r \in Request, NEW b \in Board, NEW p \in Player, NEW given, Submit(r, b, p, given)
      PROVE  WalkInv'
  BY <1>1, <1>4 DEF Submit, rowVars
<1>5. ASSUME NEW b \in Board, Edit(b) PROVE WalkInv'
  <2>1. ASSUME NEW name, NEW given, SaveBoard(b, name, given) PROVE WalkInv'
    BY <1>1, <2>1 DEF SaveBoard, rowVars, Inv, TypeOK
  <2>2. CASE DeleteBoard(b)
    BY <1>2, <2>2 DEF DeleteBoard
  <2> QED
    BY <1>5, <2>1, <2>2 DEF Edit
<1>6. CASE Walk
  BY <1>6, StartBoardWalkInv, AskPageInv, ReadPageInv DEF Walk
<1>7. CASE UNCHANGED vars
  BY <1>1, <1>7 DEF vars, rowVars
<1> QED
  BY <1>3, <1>4, <1>5, <1>6, <1>7 DEF Next

(***************************************************************************)
(* A row whose score does not change is returned exactly once across a     *)
(* walk over leaderboard's pages, whatever else is written meanwhile and   *)
(* whatever page sizes are asked for, on a board that keeps its direction. *)
(***************************************************************************)
THEOREM WalkShowsEntriesOnce ==
  ASSUME BoardsAssumption
  PROVE  Spec => []WalkedOnce
<1>1. Init => Inv /\ WalkInv
  <2>1. Init => WalkInv
    BY DEF Init, NoWalk, WalkInv, WalkTyped, DownIsNoted, ShownSoFar
  <2> QED
    BY <2>1, InitInv
<1>2. Inv /\ WalkInv /\ [Next]_vars => Inv' /\ WalkInv'
  BY StepInv, WalkStepInv
<1>3. Inv /\ WalkInv => WalkedOnce
  <2> SUFFICES ASSUME Inv, WalkInv, walk.board # None, Cardinality(ways[walk.board]) < 2,
                      NEW p \in still
               PROVE  /\ walk.seen[p] <= IF RowOf(p) = Absent THEN 0 ELSE 1
                      /\ walk.pc = "done" => walk.seen[p] = IF RowOf(p) = Absent THEN 0 ELSE 1
    BY DEF WalkedOnce, RowOf
  <2>1. walk.pc # "off" /\ walk.board \in Board
    BY DEF WalkInv, WalkTyped
  <2>2. OneWay(ways[walk.board])
    BY <2>1, FewerThanTwo DEF Inv, TypeOK, OneWay
  <2> QED
    BY <2>1, <2>2 DEF WalkInv, ShownSoFar, ToCome
<1> QED
  BY <1>1, <1>2, <1>3, PTL DEF Spec
-----------------------------------------------------------------------------
(***************************************************************************)
(* Nobody holds an item the project does not define, nor a quantity that   *)
(* the table cannot store, for any number of grants, players and items,    *)
(* and however many lines a grant has.                                     *)
(*                                                                         *)
(* HoldingsAreOfItems is about what is committed; a commit makes the newest*)
(* versions the committed ones, so it has to hold of those as well, also   *)
(* when an item is deleted: the delete waits for every lock on its entries,*)
(* so that there is no newer version left that nobody looks at.            *)
(***************************************************************************)

Holdings == {Absent} \cup 0..MAX_QUANTITY
Reasons == SUBSET (Nat \X {"no_such_item", "not_enough", "too_many"})
Applying ==
  [pc : {"apply"}, player : Holder, lines : Seq(grants!Sent), next : Nat \ {0},
   found : Reasons]

GrantsTyped ==
  /\ held \in [grants!Key -> Holdings] /\ heldDraft \in [grants!Key -> Holdings]
  /\ heldHolder \in [grants!Key -> Request \cup {Nobody}]
  /\ granting \in [Request -> {grants!Idle} \cup Applying]

(* A row nobody has locked has no version but the committed one. *)
NewestIsLocked == \A k \in grants!Key : heldHolder[k] = Nobody => heldDraft[k] = held[k]

(* No version of a row, committed or not, is of an item that is not there. *)
VersionsAreOfItems ==
  \A k \in grants!Key : (held[k] # Absent \/ heldDraft[k] # Absent) => k[2] \in items

(* A lock is a grant's that has got past its first line. *)
HoldersAreFurther ==
  \A k \in grants!Key :
    heldHolder[k] # Nobody =>
      granting[heldHolder[k]].pc = "apply" /\ granting[heldHolder[k]].next > 1

GrantsInv == GrantsTyped /\ NewestIsLocked /\ VersionsAreOfItems /\ HoldersAreFurther

LEMMA GrantsInitInv == ASSUME grants!Init PROVE GrantsInv
BY DEF grants!Init, grants!AtRest, GrantsInv, GrantsTyped, NewestIsLocked,
   VersionsAreOfItems,
       HoldersAreFurther, Holdings, grants!Idle

(* What a validated grant carries. *)
LEMMA GrantInv ==
  ASSUME GrantsInv, NEW r \in Request, NEW p \in Holder, NEW n \in 1..MAX_LINES,
         grants!GrantsAssumption, NEW lines \in [1..n -> grants!Sent], grants!Grant(r, p, lines)
  PROVE  GrantsInv'
<1> DEFINE step == [pc |-> "apply", player |-> p, lines |-> lines, next |-> 1, found |-> {}]
<1>1. n \in Nat
  BY DEF grants!GrantsAssumption
<1>2. lines \in Seq(grants!Sent)
  BY <1>1
<1>3. step \in Applying
  BY <1>2 DEF Applying, Reasons
<1>4. /\ granting' = [granting EXCEPT ![r] = step]
      /\ UNCHANGED <<held, heldDraft, heldHolder, items>>
  BY DEF grants!Grant, grants!rowVars
<1> HIDE DEF step
<1>5. GrantsTyped'
  BY <1>3, <1>4 DEF GrantsInv, GrantsTyped
<1>6. \A k \in grants!Key : heldHolder[k] # r
  BY DEF grants!Grant, GrantsInv, HoldersAreFurther, grants!GrantsAssumption
<1>7. HoldersAreFurther'
  BY <1>4, <1>6 DEF GrantsInv, GrantsTyped, HoldersAreFurther
<1> QED
  BY <1>4, <1>5, <1>7 DEF GrantsInv, NewestIsLocked, VersionsAreOfItems

(* The line under way: it is one of the grant's, and its entry is a row. *)
LEMMA LineOfGrant ==
  ASSUME GrantsInv, grants!GrantsAssumption, NEW r \in Request,
         granting[r].pc = "apply", granting[r].next <= Len(granting[r].lines)
  PROVE  /\ granting[r] \in Applying
         /\ grants!Line(r) \in grants!Sent /\ grants!Line(r).item \in Held /\ grants!Line(r).quantity \in Int
         /\ grants!Entry(r) \in grants!Key /\ grants!Entry(r)[2] = grants!Line(r).item
<1>1. granting[r] \in Applying
  BY DEF GrantsInv, GrantsTyped, grants!Idle
<1>2. granting[r].lines \in Seq(grants!Sent) /\ granting[r].next \in 1..Len(granting[r].lines) /\ granting[r].player \in Holder
  BY <1>1 DEF Applying
<1>3. grants!Line(r) \in grants!Sent
  BY <1>2 DEF grants!Line
<1>4. grants!Line(r).item \in Held /\ grants!Line(r).quantity \in Int
  BY <1>3 DEF grants!Sent, grants!GrantsAssumption
<1>5. grants!Entry(r) \in grants!Key /\ grants!Entry(r)[2] = grants!Line(r).item
  BY <1>2, <1>4 DEF grants!Entry, grants!Key
<1> QED
  BY <1>1, <1>3, <1>4, <1>5

(* A line that is not refused leaves a quantity the table stores, of an item *)
(* that is there.                                                          *)
LEMMA AcceptedLine ==
  ASSUME GrantsInv, grants!GrantsAssumption, NEW r \in Request,
         granting[r].pc = "apply", granting[r].next <= Len(granting[r].lines), grants!Refusals(r) = {}
  PROVE  /\ grants!Quantity(heldDraft[grants!Entry(r)]) + grants!Line(r).quantity \in 0..MAX_QUANTITY
         /\ grants!Line(r).item \in items
<1> DEFINE total == grants!Quantity(heldDraft[grants!Entry(r)]) + grants!Line(r).quantity
<1>1. /\ grants!Line(r).item \in Held /\ grants!Line(r).quantity \in Int
      /\ grants!Entry(r) \in grants!Key /\ grants!Entry(r)[2] = grants!Line(r).item
  BY LineOfGrant
<1>2. heldDraft[grants!Entry(r)] \in Holdings /\ MAX_QUANTITY \in Nat
  BY <1>1 DEF GrantsInv, GrantsTyped, grants!GrantsAssumption
<1>3. total \in Int
  BY <1>1, <1>2 DEF grants!Quantity, Holdings
<1>4. "no_such_item" \notin grants!Refusals(r) /\ "not_enough" \notin grants!Refusals(r)
      /\ "too_many" \notin grants!Refusals(r)
  OBVIOUS
<1>5. ~(heldDraft[grants!Entry(r)] = Absent /\ grants!Line(r).item \notin items)
  BY <1>4 DEF grants!Refusals
<1>6. grants!Line(r).item \in items
  BY <1>1, <1>5 DEF GrantsInv, VersionsAreOfItems
<1>7. ~(total < 0)
  BY <1>4, <1>6 DEF grants!Refusals
<1>8. ~(total > MAX_QUANTITY)
  BY <1>4 DEF grants!Refusals
<1> HIDE DEF total
<1>9. total \in 0..MAX_QUANTITY
  BY <1>2, <1>3, <1>7, <1>8
<1> QED
  BY <1>6, <1>9 DEF total

LEMMA ApplyInv ==
  ASSUME GrantsInv, grants!GrantsAssumption, NEW r \in Request, grants!Apply(r)
  PROVE  GrantsInv'
<1>1. granting[r].pc = "apply" /\ granting[r].next <= Len(granting[r].lines) /\ items' = items
  BY DEF grants!Apply
<1>2. granting[r] \in Applying /\ grants!Entry(r) \in grants!Key /\ grants!Entry(r)[2] = grants!Line(r).item
  BY <1>1, LineOfGrant
<1>3. CASE grants!Refusals(r) = {}
  <2> DEFINE k == grants!Entry(r)
             v == grants!Quantity(heldDraft[k]) + grants!Line(r).quantity
  <2>1. v \in 0..MAX_QUANTITY /\ grants!Line(r).item \in items
    BY <1>1, <1>3, AcceptedLine
  <2>2. /\ heldDraft' = [heldDraft EXCEPT ![k] = v] /\ heldHolder' = [heldHolder EXCEPT ![k] = r]
        /\ held' = held /\ granting' = [granting EXCEPT ![r].next = @ + 1]
    BY <1>3 DEF grants!Apply, grants!WriteRow
  <2> HIDE DEF k, v
  <2>3. k \in grants!Key /\ k[2] \in items
    BY <1>2, <2>1 DEF k
  <2>4. [granting[r] EXCEPT !.next = @ + 1] \in Applying
    BY <1>2 DEF Applying
  <2>5. GrantsTyped'
    BY <2>1, <2>2, <2>3, <2>4 DEF GrantsInv, GrantsTyped, Holdings
  <2>6. NewestIsLocked'
    BY <2>2, <2>3 DEF GrantsInv, GrantsTyped, NewestIsLocked, grants!GrantsAssumption
  <2>7. VersionsAreOfItems'
    BY <1>1, <2>2, <2>3 DEF GrantsInv, GrantsTyped, VersionsAreOfItems
  <2>8. HoldersAreFurther'
    <3>1. granting[r].next \in Nat \ {0} /\ granting'[r].next = granting[r].next + 1
          /\ granting'[r].pc = "apply"
      BY <1>1, <1>2, <2>2 DEF GrantsInv, GrantsTyped, Applying
    <3>2. \A q \in Request \ {r} : granting'[q] = granting[q]
      BY <2>2 DEF GrantsInv, GrantsTyped
    <3> QED
      BY <2>2, <2>3, <3>1, <3>2 DEF GrantsInv, GrantsTyped, HoldersAreFurther
  <2> QED
    BY <2>5, <2>6, <2>7, <2>8 DEF GrantsInv
<1>4. CASE grants!Refusals(r) # {}
  <2> DEFINE more == {<<granting[r].next, why>> : why \in grants!Refusals(r)}
  <2>1. granting' = [granting EXCEPT ![r].next = @ + 1, ![r].found = @ \cup more]
        /\ UNCHANGED <<held, heldDraft, heldHolder>>
    BY <1>4 DEF grants!Apply, grants!rowVars
  <2>2. more \subseteq Nat \X {"no_such_item", "not_enough", "too_many"}
    <3>1. granting[r].next \in Nat
      BY <1>2 DEF Applying
    <3>2. grants!Refusals(r) \subseteq {"no_such_item", "not_enough", "too_many"}
      BY DEF grants!Refusals
    <3> QED
      BY <3>1, <3>2
  <2> DEFINE found == granting[r].found \cup more
             step == [granting[r] EXCEPT !.next = @ + 1, !.found = found]
  <2>3. found \in Reasons
    <3>1. granting[r].found \in Reasons
      BY <1>2 DEF Applying
    <3> QED
      BY <2>2, <3>1 DEF Reasons
  <2> HIDE DEF more, found
  <2>4. step \in Applying
    <3>1. [granting[r] EXCEPT !.next = @ + 1] \in Applying
      BY <1>2 DEF Applying
    <3>2. [[granting[r] EXCEPT !.next = @ + 1] EXCEPT !.found = found] \in Applying
      BY <2>3, <3>1 DEF Applying
    <3>3. step = [[granting[r] EXCEPT !.next = @ + 1] EXCEPT !.found = found]
      BY <1>2 DEF Applying
    <3> QED
      BY <3>2, <3>3
  <2>5. granting' = [granting EXCEPT ![r] = step]
    BY <1>2, <2>1 DEF GrantsInv, GrantsTyped, Applying, found
  <2> HIDE DEF step
  <2>6. GrantsTyped'
    BY <2>1, <2>4, <2>5 DEF GrantsInv, GrantsTyped
  <2>7. HoldersAreFurther'
    <3>1. granting[r].next \in Nat \ {0} /\ granting'[r].next = granting[r].next + 1
          /\ granting'[r].pc = "apply"
      BY <1>1, <1>2, <2>1 DEF GrantsInv, GrantsTyped, Applying
    <3>2. \A q \in Request \ {r} : granting'[q] = granting[q]
      BY <2>1 DEF GrantsInv, GrantsTyped
    <3> QED
      BY <2>1, <3>1, <3>2 DEF GrantsInv, GrantsTyped, HoldersAreFurther
  <2> QED
    BY <1>1, <2>1, <2>6, <2>7 DEF GrantsInv, NewestIsLocked, VersionsAreOfItems
<1> QED
  BY <1>3, <1>4

LEMMA GrantsCommitInv ==
  ASSUME GrantsInv, grants!GrantsAssumption, NEW r \in Request, grants!CommitRows(r),
         granting' = [granting EXCEPT ![r] = grants!Idle], items' = items
  PROVE  GrantsInv'
<1>1. GrantsTyped'
  BY DEF GrantsInv, GrantsTyped, grants!CommitRows, grants!Released
<1>2. NewestIsLocked'
  BY DEF GrantsInv, GrantsTyped, NewestIsLocked, grants!CommitRows, grants!Released
<1>3. VersionsAreOfItems'
  BY DEF GrantsInv, GrantsTyped, VersionsAreOfItems, grants!CommitRows
<1>4. HoldersAreFurther'
  BY DEF GrantsInv, GrantsTyped, HoldersAreFurther, grants!CommitRows, grants!Released
<1> QED
  BY <1>1, <1>2, <1>3, <1>4 DEF GrantsInv

LEMMA GrantsRollbackInv ==
  ASSUME GrantsInv, grants!GrantsAssumption, NEW r \in Request, grants!RollbackRows(r),
         granting' = [granting EXCEPT ![r] = grants!Idle], items' = items
  PROVE  GrantsInv'
<1>1. GrantsTyped'
  BY DEF GrantsInv, GrantsTyped, grants!RollbackRows, grants!Released
<1>2. NewestIsLocked'
  BY DEF GrantsInv, GrantsTyped, NewestIsLocked, grants!RollbackRows, grants!Released
<1>3. VersionsAreOfItems'
  BY DEF GrantsInv, GrantsTyped, VersionsAreOfItems, grants!RollbackRows
<1>4. HoldersAreFurther'
  BY DEF GrantsInv, GrantsTyped, HoldersAreFurther, grants!RollbackRows, grants!Released
<1> QED
  BY <1>1, <1>2, <1>3, <1>4 DEF GrantsInv

LEMMA GrantsHandleInv ==
  ASSUME GrantsInv, grants!GrantsAssumption, NEW r \in Request, grants!Handle(r)
  PROVE  GrantsInv'
<1>1. CASE grants!Apply(r)
  BY <1>1, ApplyInv
<1>2. CASE grants!Finish(r)
  BY <1>2, GrantsCommitInv, GrantsRollbackInv DEF grants!Finish
<1>3. CASE grants!Fail(r)
  BY <1>3, GrantsRollbackInv DEF grants!Fail
<1> QED
  BY <1>1, <1>2, <1>3 DEF grants!Handle

LEMMA SaveItemInv ==
  ASSUME GrantsInv, NEW i \in Held, grants!SaveItem(i)
  PROVE  GrantsInv'
BY DEF grants!SaveItem, grants!rowVars, GrantsInv, GrantsTyped, NewestIsLocked,
       VersionsAreOfItems, HoldersAreFurther

(* The delete takes every version of the item's entries along. *)
LEMMA DeleteItemInv ==
  ASSUME GrantsInv, NEW i \in Held, grants!DeleteItem(i)
  PROVE  GrantsInv'
<1> DEFINE ks == Holder \X {i}
<1>1. /\ held' = [k \in grants!Key |-> IF k \in ks THEN Absent ELSE held[k]]
      /\ heldDraft' = [k \in grants!Key |-> IF k \in ks THEN Absent ELSE heldDraft[k]]
      /\ UNCHANGED <<heldHolder, granting>> /\ items' = items \ {i}
  BY DEF grants!DeleteItem, grants!DeleteRows
<1>2. \A k \in grants!Key : k[2] = i => k \in ks
  BY DEF grants!Key
<1> HIDE DEF ks
<1>3. GrantsTyped'
  BY <1>1 DEF GrantsInv, GrantsTyped, Holdings
<1>4. NewestIsLocked'
  BY <1>1 DEF GrantsInv, NewestIsLocked
<1>5. VersionsAreOfItems'
  BY <1>1, <1>2 DEF GrantsInv, VersionsAreOfItems
<1> QED
  BY <1>1, <1>3, <1>4, <1>5 DEF GrantsInv, HoldersAreFurther

LEMMA GrantsNextInv ==
  ASSUME grants!GrantsAssumption, GrantsInv, [grants!Next]_(grants!vars)
  PROVE  GrantsInv'
<1>1. ASSUME NEW r \in Request, grants!Handle(r) PROVE GrantsInv'
  BY <1>1, GrantsHandleInv
<1>2. ASSUME NEW r \in Request, NEW p \in Holder, NEW n \in 1..MAX_LINES,
             NEW lines \in [1..n -> grants!Sent], grants!Grant(r, p, lines)
      PROVE  GrantsInv'
  BY <1>2, GrantInv
<1>3. ASSUME NEW i \in Held, grants!SaveItem(i) \/ grants!DeleteItem(i) PROVE GrantsInv'
  BY <1>3, SaveItemInv, DeleteItemInv
<1>4. CASE UNCHANGED grants!vars
  BY <1>4 DEF grants!vars, GrantsInv, GrantsTyped, NewestIsLocked, VersionsAreOfItems,
              HoldersAreFurther
<1> QED
  BY <1>1, <1>2, <1>3, <1>4 DEF grants!Next

(* A grant of one line that waits has not got past it, so it holds nothing, *)
(* and nobody waits for it: there is no circle it is part of.              *)
LEMMA OneLineHoldsNothing ==
  ASSUME GrantsInv, grants!GrantsAssumption
  PROVE  OneLineIsSafe
<1> DEFINE waitsFor(a, b) ==
             /\ granting[a].pc = "apply" /\ granting[a].next <= Len(granting[a].lines)
             /\ a # b /\ heldHolder[grants!Entry(a)] = b
<1> SUFFICES ASSUME NEW r \in Request, granting[r].pc = "apply", Len(granting[r].lines) = 1,
                    NEW S \in SUBSET Request, r \in S, NEW order \in [S -> S],
                    \A a \in S : waitsFor(a, order[a]), {order[a] : a \in S} = S
             PROVE  FALSE
  BY DEF OneLineIsSafe, grants!OneLineIsSafe, grants!CycleThrough
<1>1. PICK a \in S : order[a] = r
  OBVIOUS
<1>2. grants!Entry(a) \in grants!Key
  BY LineOfGrant
<1>3. granting[r].next > 1
  BY <1>1, <1>2 DEF GrantsInv, HoldersAreFurther, grants!GrantsAssumption
<1>4. granting[r].next <= 1
  OBVIOUS
<1>5. granting[r].next \in Nat
  BY DEF GrantsInv, GrantsTyped, grants!Idle, Applying
<1> QED
  BY <1>3, <1>4, <1>5

(* What the apps do is, for the grants, a step of theirs or none. *)
LEMMA GrantsStepOrNone ==
  ASSUME [AppsNext]_appVars PROVE [grants!Next]_(grants!vars)
BY DEF AppsNext, appVars, BoardsStep, GrantsStep, CatalogueStep, CurveStep, ContentStep,
       grantVars, grants!vars

LEMMA GrantsInvariant == ASSUME AppsAssumption PROVE AppsSpec => []GrantsInv
<1>1. AppsInit => GrantsInv
  BY GrantsInitInv DEF AppsInit
<1>2. GrantsInv /\ [AppsNext]_appVars => GrantsInv'
  BY GrantsNextInv, GrantsStepOrNone DEF AppsAssumption
<1> QED
  BY <1>1, <1>2, PTL DEF AppsSpec

(***************************************************************************)
(* Every holding is of an item that is defined, and storable: what the     *)
(* foreign key and the checks of a grant's lines keep between them, while  *)
(* grants and deletions of items overlap.                                  *)
(***************************************************************************)
THEOREM HoldingsStayOfItems ==
  ASSUME AppsAssumption
  PROVE  AppsSpec => []HoldingsAreOfItems
<1>1. GrantsInv => HoldingsAreOfItems
  BY DEF GrantsInv, GrantsTyped, VersionsAreOfItems, Holdings, HoldingsAreOfItems,
         grants!HoldingsAreOfItems
<1> QED
  BY <1>1, GrantsInvariant, PTL

(***************************************************************************)
(* A grant of one line is never part of a circle of grants that wait for   *)
(* each other, however many grants there are and however long the others:  *)
(* the savepoint of a refused line gives back what it locked, and a line   *)
(* that is applied is not waited after (_apply and _refusal).              *)
(***************************************************************************)
THEOREM OneLineStaysSafe ==
  ASSUME AppsAssumption
  PROVE  AppsSpec => []OneLineIsSafe
<1>1. GrantsInv => OneLineIsSafe
  BY OneLineHoldsNothing DEF AppsAssumption
<1> QED
  BY <1>1, GrantsInvariant, PTL
-----------------------------------------------------------------------------
(* What a line of p's adds to the entry k. *)
Adds(line, p, k) == IF k = <<p, line.item>> THEN line.quantity ELSE 0

(* What the first n of some lines add to an entry. *)
SumOf(lines, p, k, n) ==
  LET upTo[i \in 0..Len(lines)] ==
        IF i = 0 THEN 0
        ELSE upTo[i - 1] + Adds(lines[i], p, k)
  IN upTo[n]

LEMMA SumIsOfAll ==
  ASSUME NEW r, NEW k
  PROVE  grants!Sum(r, k)
           = SumOf(granting[r].lines, granting[r].player, k, Len(granting[r].lines))
BY DEF grants!Sum, SumOf, Adds

LEMMA SumSteps ==
  ASSUME grants!GrantsAssumption, NEW lines \in Seq(grants!Sent), NEW p, NEW k
  PROVE  /\ SumOf(lines, p, k, 0) = 0
         /\ \A n \in 0..Len(lines) : SumOf(lines, p, k, n) \in Int
         /\ \A n \in 1..Len(lines) :
              SumOf(lines, p, k, n) = SumOf(lines, p, k, n - 1) + Adds(lines[n], p, k)
<1> DEFINE L == Len(lines)
           adds(i) == Adds(lines[i], p, k)
           step == [i \in 1..L |-> [s \in Int |-> s + adds(i)]]
           upTo[i \in 0..L] == IF i = 0 THEN 0 ELSE upTo[i - 1] + adds(i)
<1>1. L \in Nat
  OBVIOUS
<1>2. \A i \in 1..L : adds(i) \in Int
  <2> SUFFICES ASSUME NEW i \in 1..L PROVE lines[i].quantity \in Int
    BY DEF Adds
  <2>1. lines[i] \in grants!Sent
    OBVIOUS
  <2> QED
    BY <2>1 DEF grants!Sent, grants!GrantsAssumption
<1>3. \A n : SumOf(lines, p, k, n) = upTo[n]
  BY DEF SumOf
<1>4. upTo = CHOOSE g : g = [i \in 0..L |-> IF i = 0 THEN 0 ELSE g[i - 1] + adds(i)]
  OBVIOUS
<1> HIDE DEF upTo, adds, L
<1>5. step \in [1..L -> [Int -> Int]]
  BY <1>2
<1>6. \A i \in 1..L, s \in Int : step[i][s] = s + adds(i)
  OBVIOUS
<1> HIDE DEF step
<1>7. PICK g \in [0..L -> Int] : g[0] = 0 /\ \A i \in 1..L : g[i] = step[i][g[i - 1]]
  <2>1. 0 \in Int
    OBVIOUS
  <2>2. Recurs(L, Int, 0, step)
    BY <1>1, <1>5, <2>1, Recursion
  <2> QED
    BY <2>2 DEF Recurs
<1>8. g = [i \in 0..L |-> IF i = 0 THEN 0 ELSE g[i - 1] + adds(i)]
  <2>1. \A i \in 1..L : i - 1 \in 0..L /\ g[i - 1] \in Int
    <3>1. \A i \in 1..L : i - 1 \in 0..L
      BY <1>1
    <3> QED
      BY <1>7, <3>1
  <2>2. \A i \in 1..L : g[i] = g[i - 1] + adds(i)
    BY <1>6, <1>7, <2>1
  <2>3. \A i \in 0..L : i = 0 \/ i \in 1..L
    BY <1>1
  <2>4. \A i \in 0..L : g[i] = IF i = 0 THEN 0 ELSE g[i - 1] + adds(i)
    BY <1>7, <2>2, <2>3
  <2> QED
    BY <1>7, <2>4
<1>9. upTo = [i \in 0..L |-> IF i = 0 THEN 0 ELSE upTo[i - 1] + adds(i)]
  BY <1>4, <1>8, Zenon
<1>10. upTo[0] = 0 /\ \A i \in 1..L : upTo[i] = upTo[i - 1] + adds(i)
  BY <1>1, <1>9
<1>11. \A n \in 0..L : upTo[n] \in Int
  <2> DEFINE T == {n \in 0..L : upTo[n] \in Int}
  <2>1. 0 \in T /\ \A n \in 1..L : n - 1 \in T => n \in T
    BY <1>1, <1>2, <1>10
  <2> HIDE DEF T
  <2>2. \A n \in 0..L : n \in T
    BY <1>1, <2>1, UpTo
  <2> QED
    BY <2>2 DEF T
<1> QED
  BY <1>3, <1>10, <1>11 DEF L, adds
-----------------------------------------------------------------------------
(* What the first n lines of the grant under way add to an entry. *)
Added(r, k, n) == SumOf(granting[r].lines, granting[r].player, k, n)

(* A grant none of whose lines was refused has added them, as far as it has *)
(* come, to the entries it holds the lock of, and has added to no others.   *)
LinesAreAdded ==
  \A r \in Request : granting[r].pc = "apply" /\ granting[r].found = {} =>
    \A k \in grants!Key :
      IF heldHolder[k] = r
        THEN grants!Quantity(heldDraft[k])
               = grants!Quantity(held[k]) + Added(r, k, granting[r].next - 1)
        ELSE Added(r, k, granting[r].next - 1) = 0

LinesAreLeft ==
  \A r \in Request :
    granting[r].pc = "apply" => granting[r].next <= Len(granting[r].lines) + 1

GrantedIsHeld ==
  /\ granted \in [grants!Key -> Int]
  /\ \A k \in grants!Key : grants!Quantity(held[k]) = granted[k]

SumsInv == LinesAreAdded /\ LinesAreLeft /\ GrantedIsHeld

LEMMA SumsInitInv == ASSUME grants!Init PROVE SumsInv
BY DEF grants!Init, grants!AtRest, grants!Quantity, grants!Idle, SumsInv, LinesAreAdded,
       LinesAreLeft, GrantedIsHeld

LEMMA AddedStep ==
  ASSUME GrantsInv, grants!GrantsAssumption, NEW r \in Request, granting[r].pc = "apply"
  PROVE  \A k :
           /\ \A n \in 0..Len(granting[r].lines) : Added(r, k, n) \in Int
           /\ \A n \in 1..Len(granting[r].lines) :
                Added(r, k, n) = Added(r, k, n - 1)
                  + Adds(granting[r].lines[n], granting[r].player, k)
<1>1. granting[r].lines \in Seq(grants!Sent)
  BY DEF GrantsInv, GrantsTyped, grants!Idle, Applying
<1> DEFINE lines == granting[r].lines
           p == granting[r].player
<1> HIDE DEF lines, p
<1>2. lines \in Seq(grants!Sent)
  BY <1>1 DEF lines
<1>3. \A k :
        /\ \A n \in 0..Len(lines) : SumOf(lines, p, k, n) \in Int
        /\ \A n \in 1..Len(lines) :
             SumOf(lines, p, k, n) = SumOf(lines, p, k, n - 1) + Adds(lines[n], p, k)
  BY <1>2, SumSteps
<1> QED
  BY <1>3 DEF Added, lines, p

LEMMA GrantSums ==
  ASSUME SumsInv, GrantsInv, NEW r \in Request, NEW p \in Holder, NEW n \in 1..MAX_LINES,
         grants!GrantsAssumption, NEW lines \in [1..n -> grants!Sent], grants!Grant(r, p, lines)
  PROVE  SumsInv'
<1> DEFINE step == [pc |-> "apply", player |-> p, lines |-> lines, next |-> 1, found |-> {}]
<1>1. granting' = [granting EXCEPT ![r] = step]
      /\ UNCHANGED <<held, heldDraft, heldHolder, items, granted>>
  BY DEF grants!Grant, grants!rowVars
<1>2. granting'[r] = step /\ \A q \in Request \ {r} : granting'[q] = granting[q]
  BY <1>1 DEF GrantsInv, GrantsTyped
<1>3. lines \in Seq(grants!Sent)
  BY DEF grants!GrantsAssumption
<1>4. \A k : Added(r, k, 0)' = 0
  BY <1>2, <1>3, SumSteps DEF Added
<1>5. \A k \in grants!Key : heldHolder[k] # r
  BY DEF grants!Grant, GrantsInv, HoldersAreFurther, grants!GrantsAssumption
<1>6. LinesAreAdded'
  <2> SUFFICES ASSUME NEW q \in Request, granting'[q].pc = "apply", granting'[q].found = {},
                      NEW k \in grants!Key
               PROVE  IF heldHolder[k] = q
                        THEN grants!Quantity(heldDraft[k])
                               = grants!Quantity(held[k]) + Added(q, k, granting[q].next - 1)'
                        ELSE Added(q, k, granting[q].next - 1)' = 0
    BY <1>1 DEF LinesAreAdded, grants!Quantity
  <2>1. CASE q = r
    <3>1. (granting[r].next - 1)' = 0
      BY <1>2
    <3> QED
      BY <1>2, <1>4, <1>5, <2>1, <3>1 DEF Added
  <2>2. CASE q # r
    BY <1>2, <2>2 DEF SumsInv, LinesAreAdded, Added
  <2> QED
    BY <2>1, <2>2
<1>7. LinesAreLeft'
  <2>1. Len(lines) \in Nat
    BY <1>3
  <2> QED
    BY <1>2, <2>1 DEF SumsInv, LinesAreLeft
<1>8. GrantedIsHeld'
  BY <1>1 DEF SumsInv, GrantedIsHeld, grants!Quantity
<1> QED
  BY <1>6, <1>7, <1>8 DEF SumsInv

(* The entry of the line, and what is counted for it, after a step of r's.  *)
LEMMA ApplySums ==
  ASSUME SumsInv, GrantsInv, grants!GrantsAssumption, NEW r \in Request, grants!Apply(r)
  PROVE  SumsInv'
<1>1. /\ granting[r].pc = "apply" /\ granting[r].next <= Len(granting[r].lines)
      /\ held' = held /\ granted' = granted
      /\ heldHolder[grants!Entry(r)] \in {Nobody, r}
  BY DEF grants!Apply, grants!WriteRow, grants!rowVars, grants!Lockable
<1>2. /\ granting[r] \in Applying /\ grants!Entry(r) \in grants!Key
      /\ grants!Line(r).quantity \in Int
  BY <1>1, LineOfGrant
<1>3. /\ granting[r].next \in 1..Len(granting[r].lines) /\ granting[r].next - 1 \in 0..Len(granting[r].lines)
      /\ Len(granting[r].lines) \in Nat
  BY <1>1, <1>2 DEF Applying
<1>4. /\ granting'[r].pc = "apply" /\ granting'[r].next = granting[r].next + 1
      /\ granting'[r].lines = granting[r].lines /\ granting'[r].player = granting[r].player
      /\ \A q \in Request \ {r} : granting'[q] = granting[q]
  BY <1>1, <1>2 DEF grants!Apply, GrantsInv, GrantsTyped, Applying
<1>5. \A k : Added(r, k, granting[r].next - 1) \in Int
  BY <1>1, <1>3, AddedStep
<1>6. \A k : Added(r, k, granting[r].next)
               = Added(r, k, granting[r].next - 1)
                   + (IF k = grants!Entry(r) THEN grants!Line(r).quantity ELSE 0)
  <2>1. \A k : Added(r, k, granting[r].next)
                 = Added(r, k, granting[r].next - 1) + Adds(grants!Line(r), granting[r].player, k)
    BY <1>1, <1>3, AddedStep DEF grants!Line
  <2> QED
    BY <2>1 DEF Adds, grants!Entry
<1>7. LinesAreLeft'
  <2> SUFFICES ASSUME NEW q \in Request, granting'[q].pc = "apply"
               PROVE  granting'[q].next <= Len(granting'[q].lines) + 1
    BY DEF LinesAreLeft
  <2>1. CASE q = r
    BY <1>3, <1>4, <2>1
  <2>2. CASE q # r
    BY <1>4, <2>2 DEF SumsInv, LinesAreLeft
  <2> QED
    BY <2>1, <2>2
<1>8. GrantedIsHeld'
  BY <1>1 DEF SumsInv, GrantedIsHeld, grants!Quantity
<1>9. CASE grants!Refusals(r) = {}
  <2> DEFINE e == grants!Entry(r)
             v == grants!Quantity(heldDraft[e]) + grants!Line(r).quantity
  <2>1. /\ heldDraft' = [heldDraft EXCEPT ![e] = v] /\ heldHolder' = [heldHolder EXCEPT ![e] = r]
        /\ granting'[r].found = granting[r].found
    BY <1>2, <1>9 DEF grants!Apply, grants!WriteRow, GrantsInv, GrantsTyped, Applying
  <2>2. v \in 0..MAX_QUANTITY /\ MAX_QUANTITY \in Nat /\ Absent \notin Int /\ Nobody \notin Request
    BY <1>1, <1>9, AcceptedLine DEF grants!GrantsAssumption
  <2>3. v = grants!Quantity(heldDraft[e]) + grants!Line(r).quantity /\ heldDraft[e] \in Holdings
    BY <1>2 DEF GrantsInv, GrantsTyped
  <2>4. \A k : Added(r, k, granting[r].next)
                 = Added(r, k, granting[r].next - 1) + (IF k = e THEN grants!Line(r).quantity ELSE 0)
    BY <1>6
  <2>5. e \in grants!Key /\ heldHolder[e] \in {Nobody, r}
    BY <1>1, <1>2
  <2> HIDE DEF v, e
  <2>6. LinesAreAdded'
    <3> SUFFICES ASSUME NEW q \in Request, granting'[q].pc = "apply", granting'[q].found = {},
                        NEW k \in grants!Key
                 PROVE  IF heldHolder'[k] = q
                          THEN grants!Quantity(heldDraft'[k])
                                 = grants!Quantity(held[k]) + Added(q, k, granting[q].next - 1)'
                          ELSE Added(q, k, granting[q].next - 1)' = 0
      BY <1>1 DEF LinesAreAdded, grants!Quantity
    <3>1. CASE q = r
      <4>1. Added(r, k, granting[r].next - 1)' = Added(r, k, granting[r].next)
        BY <1>3, <1>4 DEF Added
      <4>2. granting[r].found = {}
        BY <2>1, <3>1
      <4>3. IF heldHolder[k] = r
              THEN grants!Quantity(heldDraft[k])
                     = grants!Quantity(held[k]) + Added(r, k, granting[r].next - 1)
              ELSE Added(r, k, granting[r].next - 1) = 0
        BY <1>1, <4>2 DEF SumsInv, LinesAreAdded
      <4>4. CASE k # e
        <5>1. heldHolder'[k] = heldHolder[k] /\ heldDraft'[k] = heldDraft[k]
          BY <2>1, <4>4 DEF GrantsInv, GrantsTyped
        <5>2. Added(r, k, granting[r].next) = Added(r, k, granting[r].next - 1)
          BY <1>5, <2>4, <4>4
        <5> QED
          BY <3>1, <4>1, <4>3, <5>1, <5>2
      <4>5. CASE k = e
        <5>1. heldHolder'[k] = r /\ heldDraft'[k] = v
          BY <2>1, <2>5, <4>5 DEF GrantsInv, GrantsTyped
        <5>2. grants!Quantity(v) = v
          BY <2>2 DEF grants!Quantity
        <5>3. Added(r, k, granting[r].next)
                = Added(r, k, granting[r].next - 1) + grants!Line(r).quantity
          BY <2>4, <4>5
        <5>4. grants!Quantity(heldDraft[k])
                = grants!Quantity(held[k]) + Added(r, k, granting[r].next - 1)
          <6>1. CASE heldHolder[k] = r
            BY <4>3, <6>1
          <6>2. CASE heldHolder[k] # r
            <7>1. heldDraft[k] = held[k] /\ Added(r, k, granting[r].next - 1) = 0
              BY <2>5, <4>3, <4>5, <6>2 DEF GrantsInv, NewestIsLocked
            <7>2. grants!Quantity(held[k]) \in Int
              BY DEF grants!Quantity, GrantsInv, GrantsTyped, Holdings
            <7> QED
              BY <7>1, <7>2
          <6> QED
            BY <6>1, <6>2
        <5>5. grants!Quantity(held[k]) \in Int
          BY DEF grants!Quantity, GrantsInv, GrantsTyped, Holdings
        <5>6. v = grants!Quantity(held[k]) + Added(r, k, granting[r].next)
          BY <1>2, <1>5, <2>3, <4>5, <5>3, <5>4, <5>5
        <5> QED
          BY <3>1, <4>1, <5>1, <5>2, <5>6
      <4> QED
        BY <4>4, <4>5
    <3>2. CASE q # r
      <4>1. Added(q, k, granting[q].next - 1)' = Added(q, k, granting[q].next - 1)
        BY <1>4, <3>2 DEF Added
      <4>2. IF heldHolder[k] = q
              THEN grants!Quantity(heldDraft[k])
                     = grants!Quantity(held[k]) + Added(q, k, granting[q].next - 1)
              ELSE Added(q, k, granting[q].next - 1) = 0
        BY <1>4, <3>2 DEF SumsInv, LinesAreAdded
      <4>3. heldHolder'[k] = q <=> heldHolder[k] = q
        BY <2>1, <2>2, <2>5, <3>2 DEF GrantsInv, GrantsTyped
      <4>4. heldHolder'[k] = q => heldDraft'[k] = heldDraft[k]
        BY <2>1, <2>2, <2>5, <3>2 DEF GrantsInv, GrantsTyped
      <4> QED
        BY <4>1, <4>2, <4>3, <4>4
    <3> QED
      BY <3>1, <3>2
  <2> QED
    BY <1>7, <1>8, <2>6 DEF SumsInv
<1>10. CASE grants!Refusals(r) # {}
  <2> DEFINE more == {<<granting[r].next, why>> : why \in grants!Refusals(r)}
  <2>1. heldDraft' = heldDraft /\ heldHolder' = heldHolder
        /\ granting' = [granting EXCEPT ![r].next = @ + 1, ![r].found = @ \cup more]
    BY <1>10 DEF grants!Apply, grants!rowVars
  <2>2. more # {}
    BY <1>10
  <2> HIDE DEF more
  <2>3. granting'[r].found # {}
    BY <1>2, <2>1, <2>2 DEF GrantsInv, GrantsTyped, Applying
  <2>4. LinesAreAdded'
    <3> SUFFICES ASSUME NEW q \in Request, granting'[q].pc = "apply", granting'[q].found = {},
                        NEW k \in grants!Key
                 PROVE  IF heldHolder[k] = q
                          THEN grants!Quantity(heldDraft[k])
                                 = grants!Quantity(held[k]) + Added(q, k, granting[q].next - 1)'
                          ELSE Added(q, k, granting[q].next - 1)' = 0
      BY <1>1, <2>1 DEF LinesAreAdded, grants!Quantity
    <3>1. q # r
      BY <2>3
    <3> QED
      BY <1>4, <3>1 DEF SumsInv, LinesAreAdded, Added
  <2> QED
    BY <1>7, <1>8, <2>4 DEF SumsInv
<1> QED
  BY <1>9, <1>10

(* What is committed is the sum so far: r has tried its last line. *)
LEMMA FinishSums ==
  ASSUME SumsInv, GrantsInv, grants!GrantsAssumption, NEW r \in Request,
         granting[r].pc = "apply", granting[r].next > Len(granting[r].lines),
         granting[r].found = {}, grants!CommitRows(r),
         granted' = [k \in grants!Key |-> granted[k] + grants!Sum(r, k)]
  PROVE  GrantedIsHeld'
<1>1. granting[r].next = Len(granting[r].lines) + 1 /\ Len(granting[r].lines) \in Nat
  <2>1. granting[r] \in Applying
    BY DEF GrantsInv, GrantsTyped, grants!Idle
  <2>2. granting[r].next \in Nat /\ Len(granting[r].lines) \in Nat
    BY <2>1 DEF Applying
  <2> QED
    BY <2>2 DEF SumsInv, LinesAreLeft
<1> DEFINE sum(k) == Added(r, k, granting[r].next - 1)
<1>2. \A k : grants!Sum(r, k) = sum(k) /\ sum(k) \in Int
  <2>1. \A k : sum(k) = Added(r, k, Len(granting[r].lines))
    BY <1>1
  <2> QED
    BY <1>1, <2>1, SumIsOfAll, AddedStep DEF Added
<1>3. \A k \in grants!Key :
        IF heldHolder[k] = r
          THEN grants!Quantity(heldDraft[k]) = grants!Quantity(held[k]) + sum(k)
          ELSE sum(k) = 0
  BY DEF SumsInv, LinesAreAdded
<1> HIDE DEF sum
<1>4. \A k \in grants!Key : granted'[k] = granted[k] + sum(k) /\ granted[k] \in Int
  BY <1>2 DEF SumsInv, GrantedIsHeld
<1>5. \A k \in grants!Key : held'[k] = IF heldHolder[k] = r THEN heldDraft[k] ELSE held[k]
  BY DEF grants!CommitRows
<1>6. \A k \in grants!Key : grants!Quantity(held[k]) = granted[k]
  BY DEF SumsInv, GrantedIsHeld
<1>7. granted' \in [grants!Key -> Int]
  BY <1>2 DEF SumsInv, GrantedIsHeld
<1>8. \A k \in grants!Key : grants!Quantity(held'[k]) = granted'[k]
  BY <1>2, <1>3, <1>4, <1>5, <1>6
<1>9. \A k \in grants!Key : grants!Quantity(held[k])' = granted'[k]
  BY <1>8 DEF grants!Quantity
<1> QED
  BY <1>7, <1>9 DEF GrantedIsHeld

(* The end of a grant leaves what the others have added so far as it is. *)
LEMMA EndSums ==
  ASSUME SumsInv, GrantsInv, grants!GrantsAssumption, NEW r \in Request,
         granting' = [granting EXCEPT ![r] = grants!Idle],
         \A k \in grants!Key :
           /\ heldHolder'[k] = IF heldHolder[k] = r THEN Nobody ELSE heldHolder[k]
           /\ heldHolder[k] # r => heldDraft'[k] = heldDraft[k] /\ held'[k] = held[k]
  PROVE  LinesAreAdded' /\ LinesAreLeft'
<1>1. ASSUME NEW q \in Request, granting'[q].pc = "apply"
      PROVE  q # r /\ granting'[q] = granting[q]
  BY <1>1 DEF GrantsInv, GrantsTyped, grants!Idle
<1>2. LinesAreLeft'
  <2> SUFFICES ASSUME NEW q \in Request, granting'[q].pc = "apply"
               PROVE  granting'[q].next <= Len(granting'[q].lines) + 1
    BY DEF LinesAreLeft
  <2> QED
    BY <1>1 DEF SumsInv, LinesAreLeft
<1>3. LinesAreAdded'
  <2> SUFFICES ASSUME NEW q \in Request, granting'[q].pc = "apply", granting'[q].found = {},
                      NEW k \in grants!Key
               PROVE  IF heldHolder'[k] = q
                        THEN grants!Quantity(heldDraft'[k])
                               = grants!Quantity(held'[k]) + Added(q, k, granting[q].next - 1)'
                        ELSE Added(q, k, granting[q].next - 1)' = 0
    BY DEF LinesAreAdded, grants!Quantity
  <2>1. q # r /\ granting'[q] = granting[q]
    BY <1>1
  <2>2. Added(q, k, granting[q].next - 1)' = Added(q, k, granting[q].next - 1)
    BY <2>1 DEF Added
  <2>3. IF heldHolder[k] = q
          THEN grants!Quantity(heldDraft[k])
                 = grants!Quantity(held[k]) + Added(q, k, granting[q].next - 1)
          ELSE Added(q, k, granting[q].next - 1) = 0
    BY <2>1 DEF SumsInv, LinesAreAdded
  <2>4. heldHolder'[k] = q <=> heldHolder[k] = q
    BY <2>1 DEF grants!GrantsAssumption
  <2> QED
    BY <2>1, <2>2, <2>3, <2>4
<1> QED
  BY <1>2, <1>3

LEMMA HandleSums ==
  ASSUME SumsInv, GrantsInv, grants!GrantsAssumption, NEW r \in Request, grants!Handle(r)
  PROVE  SumsInv'
<1>1. CASE grants!Apply(r)
  BY <1>1, ApplySums
<1>2. ASSUME grants!RollbackRows(r), granting' = [granting EXCEPT ![r] = grants!Idle],
             granted' = granted
      PROVE  SumsInv'
  <2>1. \A k \in grants!Key :
          /\ heldHolder'[k] = IF heldHolder[k] = r THEN Nobody ELSE heldHolder[k]
          /\ heldHolder[k] # r => heldDraft'[k] = heldDraft[k] /\ held'[k] = held[k]
    BY <1>2 DEF grants!RollbackRows, grants!Released
  <2>2. GrantedIsHeld'
    BY <1>2 DEF SumsInv, GrantedIsHeld, grants!RollbackRows, grants!Quantity
  <2> QED
    BY <1>2, <2>1, <2>2, EndSums DEF SumsInv
<1>3. ASSUME grants!Finish(r), granting[r].found = {} PROVE SumsInv'
  <2>1. \A k \in grants!Key :
          /\ heldHolder'[k] = IF heldHolder[k] = r THEN Nobody ELSE heldHolder[k]
          /\ heldHolder[k] # r => heldDraft'[k] = heldDraft[k] /\ held'[k] = held[k]
    BY <1>3 DEF grants!Finish, grants!CommitRows, grants!Released
  <2>2. LinesAreAdded' /\ LinesAreLeft'
    BY <1>3, <2>1, EndSums DEF grants!Finish
  <2>3. GrantedIsHeld'
    BY <1>3, FinishSums DEF grants!Finish
  <2> QED
    BY <2>2, <2>3 DEF SumsInv
<1> QED
  BY <1>1, <1>2, <1>3 DEF grants!Handle, grants!Finish, grants!Fail

LEMMA SaveItemSums == ASSUME SumsInv, NEW i \in Held, grants!SaveItem(i) PROVE SumsInv'
BY DEF grants!SaveItem, grants!rowVars, SumsInv, LinesAreAdded, LinesAreLeft,
   GrantedIsHeld,
       Added, grants!Quantity

(* The entries that are deleted are nobody's, so no grant has added to them. *)
LEMMA DeleteItemSums ==
  ASSUME SumsInv, GrantsInv, grants!GrantsAssumption, NEW i \in Held, grants!DeleteItem(i)
  PROVE  SumsInv'
<1> DEFINE ks == Holder \X {i}
<1>1. /\ \A k \in ks : heldHolder[k] = Nobody
      /\ held' = [k \in grants!Key |-> IF k \in ks THEN Absent ELSE held[k]]
      /\ heldDraft' = [k \in grants!Key |-> IF k \in ks THEN Absent ELSE heldDraft[k]]
      /\ granted' = [k \in grants!Key |-> IF k[2] = i THEN 0 ELSE granted[k]]
      /\ UNCHANGED <<heldHolder, granting>>
  BY DEF grants!DeleteItem, grants!DeleteRows
<1>2. \A k \in grants!Key : k[2] = i <=> k \in ks
  BY DEF grants!Key
<1> HIDE DEF ks
<1>3. LinesAreAdded'
  <2> SUFFICES ASSUME NEW q \in Request, granting[q].pc = "apply", granting[q].found = {},
                      NEW k \in grants!Key
               PROVE  IF heldHolder[k] = q
                        THEN grants!Quantity(heldDraft'[k])
                               = grants!Quantity(held'[k]) + Added(q, k, granting[q].next - 1)'
                        ELSE Added(q, k, granting[q].next - 1)' = 0
    BY <1>1 DEF LinesAreAdded, grants!Quantity
  <2>1. Added(q, k, granting[q].next - 1)' = Added(q, k, granting[q].next - 1)
    BY <1>1 DEF Added
  <2>2. IF heldHolder[k] = q
          THEN grants!Quantity(heldDraft[k])
                 = grants!Quantity(held[k]) + Added(q, k, granting[q].next - 1)
          ELSE Added(q, k, granting[q].next - 1) = 0
    BY DEF SumsInv, LinesAreAdded
  <2>3. heldHolder[k] = q => heldDraft'[k] = heldDraft[k] /\ held'[k] = held[k]
    BY <1>1 DEF grants!GrantsAssumption
  <2> QED
    BY <2>1, <2>2, <2>3
<1>4. GrantedIsHeld'
  BY <1>1, <1>2 DEF SumsInv, GrantedIsHeld, grants!Quantity
<1> QED
  BY <1>1, <1>3, <1>4 DEF SumsInv, LinesAreLeft

LEMMA SumsNextInv ==
  ASSUME grants!GrantsAssumption, GrantsInv, SumsInv, [grants!Next]_(grants!vars)
  PROVE  SumsInv'
<1>1. ASSUME NEW r \in Request, grants!Handle(r) PROVE SumsInv'
  BY <1>1, HandleSums
<1>2. ASSUME NEW r \in Request, NEW p \in Holder, NEW n \in 1..MAX_LINES,
             NEW lines \in [1..n -> grants!Sent], grants!Grant(r, p, lines)
      PROVE  SumsInv'
  BY <1>2, GrantSums
<1>3. ASSUME NEW i \in Held, grants!SaveItem(i) \/ grants!DeleteItem(i) PROVE SumsInv'
  BY <1>3, SaveItemSums, DeleteItemSums
<1>4. CASE UNCHANGED grants!vars
  BY <1>4 DEF grants!vars, SumsInv, LinesAreAdded, LinesAreLeft, GrantedIsHeld, Added,
              grants!Quantity
<1> QED
  BY <1>1, <1>2, <1>3, <1>4 DEF grants!Next

(***************************************************************************)
(* All or nothing: what a player holds of an item is the sum of every line *)
(* of every grant that was committed, however grants of the same items     *)
(* overlap, fail, are refused half-way or meet an item's deletion, and     *)
(* however many lines they have (grant and _apply).                        *)
(***************************************************************************)
THEOREM GrantsStayAddedUp ==
  ASSUME AppsAssumption
  PROVE  AppsSpec => []GrantsAddUp
<1>1. AppsInit => GrantsInv /\ SumsInv
  BY GrantsInitInv, SumsInitInv DEF AppsInit
<1>2. GrantsInv /\ SumsInv /\ [AppsNext]_appVars => (GrantsInv /\ SumsInv)'
  BY GrantsNextInv, SumsNextInv, GrantsStepOrNone DEF AppsAssumption
<1>3. SumsInv => GrantsAddUp
  BY DEF SumsInv, GrantedIsHeld, GrantsAddUp, grants!GrantsAddUp
<1> QED
  BY <1>1, <1>2, <1>3, PTL DEF AppsSpec
-----------------------------------------------------------------------------
(***************************************************************************)
(* A project's curve is always the whole of one that somebody sent, for any*)
(* number of editors and readers and any bounds on stages and XP.          *)
(*                                                                         *)
(* CurveIsWhole is not inductive: an insert adds to what its delete left,  *)
(* so one has to know that the delete left nothing.  It did, because the   *)
(* rows have not changed since it looked at them, and they have not because*)
(* only the holder of the advisory lock is past Lock.                      *)
(***************************************************************************)

(* A curve: every stage once, and each begins after the one before it. *)
Ascending(set) ==
  /\ set \in SUBSET progression!Stages
  /\ \A a, b \in set : a # b => a.stage # b.stage
  /\ \A a, b \in set : a.stage < b.stage => a.xp_required < b.xp_required

Curves == {set \in SUBSET progression!Stages : Ascending(set)}

Waiting == [pc : {"lock", "delete"}, stages : Curves]
Writing == [pc : {"insert"}, stages : Curves, gone : Curves]

CurveTyped ==
  /\ rows \in Curves
  /\ edit \in [Request -> {progression!Idle} \cup Waiting \cup Writing]

(* Whoever deletes and inserts holds the lock, and has found every row.    *)
HolderWrites ==
  \A e \in Request :
    /\ edit[e].pc \in {"delete", "insert"} => lock = e
    /\ edit[e].pc = "insert" => edit[e].gone = rows

CurveInv == CurveTyped /\ progression!CurveIsWhole /\ HolderWrites

(* A replacement begins with a curve: what curve_of checks of a request. *)
LEMMA SentStages ==
  ASSUME NEW body, progression!curve_of(body) # None
  PROVE  progression!curve_of(body) \in Curves
<1> DEFINE stages == {body[i] : i \in DOMAIN body}
<1>1. /\ progression!curve_of(body) = stages /\ stages \in SUBSET progression!Stages
      /\ \A i, j \in DOMAIN body : i # j =>
           /\ body[i].stage # body[j].stage
           /\ body[i].stage < body[j].stage => body[i].xp_required < body[j].xp_required
  BY DEF progression!curve_of
<1>2. \A a, b \in stages : a # b =>
        a.stage # b.stage /\ (a.stage < b.stage => a.xp_required < b.xp_required)
  BY <1>1
<1> HIDE DEF stages
<1>3. \A a, b \in stages : a.stage < b.stage => a # b
  <2>1. \A a \in stages : a.stage \in Int
    BY <1>1 DEF progression!Stages
  <2> QED
    BY <2>1
<1> QED
  BY <1>1, <1>2, <1>3 DEF Curves, Ascending

LEMMA CurveInitInv == ASSUME progression!Init PROVE CurveInv
<1>1. {} \in Curves
  BY DEF Curves, Ascending
<1> QED
  BY <1>1 DEF progression!Init, CurveInv, CurveTyped, progression!CurveIsWhole, HolderWrites,
     progression!Idle

LEMMA ReplaceInv ==
  ASSUME CurveInv, NEW e \in Request, NEW body, progression!ReplaceCurve(e, body)
  PROVE  CurveInv'
<1> DEFINE stages == progression!curve_of(body)
<1>1. stages \in Curves
  BY SentStages DEF progression!ReplaceCurve
<1>2. [pc |-> "lock", stages |-> stages] \in Waiting
  BY <1>1 DEF Waiting
<1> HIDE DEF stages
<1>3. edit' = [edit EXCEPT ![e] = [pc |-> "lock", stages |-> stages]] /\ UNCHANGED <<rows, lock, sent>>
  BY DEF progression!ReplaceCurve, stages
<1>4. CurveTyped'
  BY <1>2, <1>3 DEF CurveInv, CurveTyped
<1>5. HolderWrites'
  BY <1>3 DEF CurveInv, CurveTyped, HolderWrites
<1> QED
  BY <1>3, <1>4, <1>5 DEF CurveInv, progression!CurveIsWhole

LEMMA LockInv ==
  ASSUME progression!CurveAssumption, CurveInv, NEW e \in Request, progression!Lock(e)
  PROVE  CurveInv'
<1>1. edit[e] \in Waiting
  BY DEF progression!Lock, CurveInv, CurveTyped, progression!Idle, Waiting, Writing
<1>2. edit'[e] \in Waiting /\ edit'[e].pc = "delete"
  BY <1>1 DEF progression!Lock, CurveInv, CurveTyped, Waiting
<1>3. \A f \in Request \ {e} : edit'[f] = edit[f]
  BY DEF progression!Lock, CurveInv, CurveTyped
<1>4. CurveTyped'
  BY <1>2, <1>3 DEF progression!Lock, CurveInv, CurveTyped
<1>5. \A f \in Request : edit[f].pc \notin {"delete", "insert"}
  BY DEF progression!Lock, CurveInv, HolderWrites, progression!CurveAssumption
<1>6. HolderWrites'
  BY <1>2, <1>3, <1>5 DEF progression!Lock, HolderWrites
<1> QED
  BY <1>4, <1>6 DEF progression!Lock, CurveInv, progression!CurveIsWhole

LEMMA DeleteInv ==
  ASSUME CurveInv, NEW e \in Request, progression!Delete(e)
  PROVE  CurveInv'
<1>1. edit[e] \in Waiting /\ lock = e
  BY DEF progression!Delete, CurveInv, CurveTyped, HolderWrites, progression!Idle,
     Waiting, Writing
<1>2. edit' = [edit EXCEPT ![e] = [pc |-> "insert", stages |-> edit[e].stages, gone |-> rows]]
  BY DEF progression!Delete
<1>3. [pc |-> "insert", stages |-> edit[e].stages, gone |-> rows] \in Writing
  BY <1>1 DEF CurveInv, CurveTyped, Waiting, Writing
<1>4. CurveTyped'
  BY <1>2, <1>3 DEF progression!Delete, CurveInv, CurveTyped
<1>5. HolderWrites'
  BY <1>1, <1>2 DEF progression!Delete, CurveInv, CurveTyped, HolderWrites
<1> QED
  BY <1>4, <1>5 DEF progression!Delete, CurveInv, progression!CurveIsWhole

(* What the insert adds to is nothing, so the rows are those that were sent;*)
(* nobody else is past Lock to be surprised by them.                       *)
LEMMA InsertInv ==
  ASSUME CurveInv, NEW e \in Request, progression!Insert(e)
  PROVE  CurveInv'
<1>1. edit[e] \in Writing /\ lock = e /\ edit[e].gone = rows
  BY DEF progression!Insert, CurveInv, CurveTyped, HolderWrites, progression!Idle,
     Waiting, Writing
<1>2. rows' = edit[e].stages /\ sent' = edit[e].stages
  BY <1>1 DEF progression!Insert
<1>3. CurveTyped'
  BY <1>1, <1>2 DEF progression!Insert, CurveInv, CurveTyped, Writing
<1>4. \A f \in Request : edit'[f].pc \notin {"delete", "insert"}
  BY <1>1 DEF progression!Insert, CurveInv, CurveTyped, HolderWrites, progression!Idle
<1>5. HolderWrites'
  BY <1>4 DEF HolderWrites
<1> QED
  BY <1>2, <1>3, <1>5 DEF CurveInv, progression!CurveIsWhole

LEMMA CurveFailInv ==
  ASSUME CurveInv, NEW e \in Request, progression!Fail(e)
  PROVE  CurveInv'
<1>1. edit' = [edit EXCEPT ![e] = progression!Idle] /\ UNCHANGED <<rows, sent>>
  BY DEF progression!Fail
<1>2. CurveTyped'
  BY <1>1 DEF CurveInv, CurveTyped
<1>3. HolderWrites'
  BY <1>1 DEF progression!Fail, CurveInv, CurveTyped, HolderWrites, progression!Idle
<1> QED
  BY <1>1, <1>2, <1>3 DEF CurveInv, progression!CurveIsWhole

LEMMA CurveNextInv ==
  ASSUME progression!CurveAssumption, CurveInv, [progression!Next]_(progression!vars)
  PROVE  CurveInv'
<1>1. ASSUME UNCHANGED <<rows, lock, edit, sent>> PROVE CurveInv'
  BY <1>1 DEF CurveInv, CurveTyped, progression!CurveIsWhole, HolderWrites
<1>2. ASSUME NEW q \in Reader,
             progression!AskProgress(q) \/ progression!TellProgress(q) \/ progression!TellReward(q)
      PROVE  CurveInv'
  BY <1>1, <1>2
     DEF progression!AskProgress, progression!TellProgress, progression!TellReward
<1>3. ASSUME NEW q \in Reader, NEW points, progression!Award(q, points)
      PROVE  CurveInv'
  BY <1>1, <1>3 DEF progression!Award
<1>4. CASE UNCHANGED progression!vars
  BY <1>1, <1>4 DEF progression!vars
<1>5. CASE progression!Next
  BY <1>2, <1>3, <1>5, ReplaceInv, LockInv, DeleteInv, InsertInv, CurveFailInv
     DEF progression!Next
<1> QED
  BY <1>4, <1>5

(* A step of the apps is one of the curve's, or leaves the curve alone. *)
LEMMA CurveStepOrNone ==
  ASSUME [AppsNext]_appVars PROVE [progression!Next]_(progression!vars)
BY DEF AppsNext, appVars, BoardsStep, GrantsStep, CatalogueStep, CurveStep, ContentStep,
       curveVars, progression!vars

(* However many replacements of a project's curve overlap, and wherever    *)
(* they fail, the rows are the whole of the last one that committed        *)
(* (ProgressionStore.replace_curve and its advisory lock).                 *)
THEOREM CurveStaysWhole == ASSUME AppsAssumption PROVE AppsSpec => []CurveIsWhole
<1>1. AppsInit => CurveInv
  BY CurveInitInv DEF AppsInit
<1>2. CurveInv /\ [AppsNext]_appVars => CurveInv'
  BY CurveNextInv, CurveStepOrNone DEF AppsAssumption
<1>3. CurveInv => CurveIsWhole
  BY DEF CurveInv, CurveIsWhole
<1> QED
  BY <1>1, <1>2, <1>3, PTL DEF AppsSpec
-----------------------------------------------------------------------------
(***************************************************************************)
(* What a player is told of the curve.  The rows are read in the order of  *)
(* their stages, and the loop over them stops at the first whose threshold *)
(* is not met: that this finds the highest stage met and the lowest that is*)
(* not rests on the rows being a curve, thresholds and stages in one order,*)
(* at the moment they are read.                                            *)
(***************************************************************************)

(* What the XP has met of a curve, and what comes next. *)
StageOf(set, points, stage, next) ==
  LET met == {s \in set : s.xp_required <= points}
      unmet == set \ met
  IN /\ IF met = {} THEN stage = None
        ELSE stage \in met /\ \A s \in met : s.stage <= stage.stage
     /\ IF unmet = {} THEN next = None
        ELSE next \in unmet /\ \A s \in unmet : s.stage >= next.stage

(* The least number of some. *)
LEMMA FirstIsLeast ==
  ASSUME NEW T \in SUBSET Nat, IsFiniteSet(T), T # {}
  PROVE  NthOf(T, 1) \in T /\ \A t \in T : NthOf(T, 1) <= t
<1>1. PICK t \in T : TRUE
  OBVIOUS
<1>2. Cardinality(UpToNumber(T, t)) \in 1..Cardinality(T) /\ Cardinality(T) \in Nat
  BY Nth
<1>3. 1 \in 1..Cardinality(T)
  BY <1>2
<1>4. NthOf(T, 1) \in T
  BY <1>3, Nth
<1>5. ASSUME NEW u \in T PROVE NthOf(T, 1) <= u
  <2> DEFINE k == Cardinality(UpToNumber(T, u))
  <2>1. k \in 1..Cardinality(T) /\ NthOf(T, k) = u
    BY Nth
  <2>2. k = 1 \/ 1 < k
    BY <2>1
  <2>3. 1 < k => NthOf(T, 1) < NthOf(T, k)
    BY <1>3, <2>1, Nth
  <2>4. u \in Nat /\ NthOf(T, 1) \in Nat
    BY <1>4
  <2> HIDE DEF k
  <2> QED
    BY <2>1, <2>2, <2>3, <2>4
<1> QED
  BY <1>4, <1>5

(* The curve's module has these operators as this one does. *)
LEMMA SameNth ==
  ASSUME NEW T, NEW n PROVE progression!NthOf(T, n) = NthOf(T, n)
BY Zenon DEF progression!NthOf, NthOf, progression!Cardinality, Cardinality,
             progression!IsFiniteSet, IsFiniteSet

LEMMA SameClosed ==
  ASSUME NEW placed PROVE progression!Closed(placed) = Closed(placed)
BY Zenon DEF progression!Closed, Closed, progression!NthOf, NthOf, progression!Cardinality,
             Cardinality, progression!IsFiniteSet, IsFiniteSet

(* The rows in the order of their stages. *)
LEMMA CurveInOrder ==
  ASSUME progression!CurveAssumption, NEW set, Ascending(set)
  PROVE  /\ \E m \in Nat :
              /\ progression!curve(set) \in [1..m -> set]
              /\ \A s \in set : \E i \in 1..m : progression!curve(set)[i] = s
              /\ \A i, j \in 1..m : i < j =>
                   /\ progression!curve(set)[i].stage < progression!curve(set)[j].stage
                   /\ progression!curve(set)[i].xp_required < progression!curve(set)[j].xp_required
<1> DEFINE T == {s.stage : s \in set}
           of(n) == CHOOSE s \in set : s.stage = n
           f == [n \in T |-> of(n)]
           m == Cardinality(T)
           list == Closed(f)
<1>1. T \in SUBSET Nat /\ IsFiniteSet(T)
  <2>1. MAX_STAGE \in Nat /\ T \in SUBSET (0..MAX_STAGE)
    BY DEF Ascending, progression!Stages, progression!CurveAssumption
  <2>2. IsFiniteSet(0..MAX_STAGE)
    BY <2>1, FS_Interval
  <2> HIDE DEF T
  <2>3. T \in SUBSET Nat
    BY <2>1
  <2> QED
    BY <2>1, <2>2, <2>3, FS_Subset
<1>2. \A n \in T : of(n) \in set /\ of(n).stage = n
  <2>1. \A n \in T : \E s \in set : s.stage = n
    OBVIOUS
  <2> QED
    BY <2>1
<1>3. \A s \in set : s.stage \in T /\ of(s.stage) = s
  <2>1. \A s \in set : s.stage \in T
    OBVIOUS
  <2> HIDE DEF of
  <2> QED
    BY <1>2, <2>1 DEF Ascending
<1>4. progression!curve(set) = list
  BY SameClosed DEF progression!curve
<1> HIDE DEF of
<1>5. f \in [T -> set]
  BY <1>2
<1> HIDE DEF f, T
<1>6. /\ list \in [1..m -> set] /\ m \in Nat
      /\ \A n \in 1..m : list[n] = f[NthOf(T, n)] /\ NthOf(T, n) \in T
  <2>1. m \in Nat /\ \A n \in 1..m : NthOf(T, n) \in T
    BY <1>1, Nth
  <2>2. T \in SUBSET Nat /\ IsFiniteSet(T) /\ f \in [T -> set]
    BY <1>1, <1>5
  <2>3. Closed(f) \in [1..Cardinality(T) -> set]
    BY <2>2, ClosedIsList
  <2>4. \A n \in 1..Cardinality(T) : Closed(f)[n] = f[NthOf(T, n)]
    BY <2>2, ClosedIsList
  <2> QED
    BY <2>1, <2>3, <2>4
<1>7. \A n \in T : f[n] = of(n)
  BY DEF f
<1> HIDE DEF list
<1>8. \A n \in 1..m : list[n].stage = NthOf(T, n)
  BY <1>2, <1>6, <1>7
<1>9. \A s \in set : \E i \in 1..m : list[i] = s
  <2> SUFFICES ASSUME NEW s \in set PROVE \E i \in 1..m : list[i] = s
    OBVIOUS
  <2> DEFINE i == Cardinality(UpToNumber(T, s.stage))
  <2>1. i \in 1..m /\ NthOf(T, i) = s.stage
    BY <1>1, <1>3, Nth
  <2>2. list[i] = s
    BY <1>3, <1>6, <1>7, <2>1
  <2> QED
    BY <2>1, <2>2
<1>10. \A i, j \in 1..m : i < j => list[i].stage < list[j].stage
  <2>1. \A i, j \in 1..m : i < j => NthOf(T, i) < NthOf(T, j)
    BY <1>1, Nth
  <2> HIDE DEF m
  <2> QED
    BY <1>8, <2>1
<1>11. \A i, j \in 1..m : i < j => list[i].xp_required < list[j].xp_required
  <2>1. \A i \in 1..m : list[i] \in set
    BY <1>6
  <2> HIDE DEF m
  <2> QED
    BY <1>10, <2>1 DEF Ascending
<1> HIDE DEF m
<1> QED
  BY <1>4, <1>6, <1>9, <1>10, <1>11

(* The loop stops before the first stage that is not met: what it has found *)
(* by then is the highest that is.                                          *)
LEMMA StageIsFound ==
  ASSUME progression!CurveAssumption, NEW set, Ascending(set), NEW points \in Int
  PROVE  StageOf(set, points, progression!reached(progression!curve(set), points),
                 progression!following(progression!curve(set), points))
<1> DEFINE list == progression!curve(set)
<1>1. PICK m \in Nat :
        /\ list \in [1..m -> set]
        /\ \A s \in set : \E i \in 1..m : list[i] = s
        /\ \A i, j \in 1..m : i < j => /\ list[i].stage < list[j].stage
                                       /\ list[i].xp_required < list[j].xp_required
  BY CurveInOrder
<1> HIDE DEF list
<1> DEFINE unmet == {i \in 1..m : list[i].xp_required > points}
           first == progression!beyond(list, points)
<1>2. DOMAIN list = 1..m /\ Len(list) = m /\ \A i \in 1..m : list[i] \in set
  <2>1. list \in Seq(set)
    BY <1>1, SeqDef
  <2> QED
    BY <1>1, <2>1
<1>3. \A s \in set : s.stage \in Nat /\ s.xp_required \in Nat
  BY DEF Ascending, progression!Stages, progression!CurveAssumption
<1>4. unmet \in SUBSET Nat /\ IsFiniteSet(unmet)
  <2>1. IsFiniteSet(1..m)
    BY <1>1, FS_Interval
  <2> QED
    BY <2>1, FS_Subset
<1>5. first = IF unmet = {} THEN 0 ELSE NthOf(unmet, 1)
  <2>1. unmet = {i \in DOMAIN list : list[i].xp_required > points}
    BY <1>2
  <2> HIDE DEF unmet
  <2> QED
    BY <2>1, SameNth DEF progression!beyond
<1>6. unmet # {} => first \in unmet /\ \A i \in unmet : first <= i
  BY <1>4, <1>5, FirstIsLeast
<1> DEFINE met == IF first = 0 THEN m ELSE first - 1
<1>7. progression!reached(list, points) = IF met = 0 THEN None ELSE list[met]
  BY <1>2 DEF progression!reached
<1>8. progression!following(list, points) = IF first = 0 THEN None ELSE list[first]
  BY DEF progression!following
<1> HIDE DEF first
<1>9. /\ met \in 0..m
      /\ \A i \in 1..m : i <= met <=> list[i].xp_required <= points
      /\ first # 0 => first \in 1..m /\ first = met + 1
      /\ first = 0 => met = m
  <2>1. CASE unmet = {}
    <3>1. first = 0
      BY <1>5, <2>1
    <3>2. \A i \in 1..m : list[i].xp_required <= points
      BY <1>2, <1>3, <2>1
    <3> QED
      BY <3>1, <3>2
  <2>2. CASE unmet # {}
    <3>1. first \in 1..m /\ list[first].xp_required > points
      BY <1>6, <2>2
    <3>2. met = first - 1
      BY <3>1
    <3>3. ASSUME NEW i \in 1..m, i < first PROVE list[i].xp_required <= points
      <4>1. i \notin unmet
        BY <1>6, <2>2, <3>1, <3>3
      <4> QED
        BY <1>2, <1>3, <4>1
    <3>4. ASSUME NEW i \in 1..m, i >= first PROVE ~(list[i].xp_required <= points)
      <4>1. i = first \/ first < i
        BY <3>1, <3>4
      <4>2. first < i => list[first].xp_required < list[i].xp_required
        BY <1>1, <3>1
      <4>3. list[i].xp_required \in Nat /\ list[first].xp_required \in Nat
        BY <1>2, <1>3, <3>1
      <4> QED
        BY <3>1, <4>1, <4>2, <4>3
    <3> HIDE DEF met, unmet
    <3>5. \A i \in 1..m : i <= met <=> i < first
      BY <3>1, <3>2
    <3>6. \A i \in 1..m : i < first <=> list[i].xp_required <= points
      BY <3>1, <3>3, <3>4
    <3> QED
      BY <3>1, <3>2, <3>5, <3>6
  <2> QED
    BY <2>1, <2>2
<1> HIDE DEF met, unmet
<1> DEFINE below == {s \in set : s.xp_required <= points}
           above == set \ below
<1>10. \A i, j \in 1..m : i <= j => list[i].stage <= list[j].stage
  <2> SUFFICES ASSUME NEW i \in 1..m, NEW j \in 1..m, i <= j PROVE list[i].stage <= list[j].stage
    OBVIOUS
  <2>1. i = j \/ i < j
    OBVIOUS
  <2>2. list[i].stage \in Nat /\ list[j].stage \in Nat
    BY <1>2, <1>3
  <2> QED
    BY <1>1, <2>1, <2>2
<1>11. IF below = {} THEN progression!reached(list, points) = None
       ELSE /\ progression!reached(list, points) \in below
            /\ \A s \in below : s.stage <= progression!reached(list, points).stage
  <2>1. CASE met = 0
    <3>1. below = {}
      BY <1>1, <1>9, <2>1
    <3> QED
      BY <1>7, <2>1, <3>1
  <2>2. CASE met # 0
    <3>1. met \in 1..m /\ met <= met
      BY <1>9, <2>2
    <3>2. list[met] \in below
      BY <1>2, <1>9, <3>1
    <3>3. ASSUME NEW s \in below PROVE s.stage <= list[met].stage
      <4>1. PICK i \in 1..m : list[i] = s
        BY <1>1
      <4>2. i <= met
        BY <1>9, <4>1
      <4> QED
        BY <1>10, <3>1, <4>1, <4>2
    <3> QED
      BY <1>7, <2>2, <3>2, <3>3
  <2> QED
    BY <2>1, <2>2
<1>12. IF above = {} THEN progression!following(list, points) = None
       ELSE /\ progression!following(list, points) \in above
            /\ \A s \in above : s.stage >= progression!following(list, points).stage
  <2>1. CASE first = 0
    <3>1. \A i \in 1..m : i <= met
      BY <1>9, <2>1
    <3>2. above = {}
      BY <1>1, <1>9, <3>1
    <3> QED
      BY <1>8, <2>1, <3>2
  <2>2. CASE first # 0
    <3>1. first \in 1..m /\ first = met + 1 /\ ~(first <= met)
      BY <1>9, <2>2
    <3>2. list[first] \in above
      BY <1>2, <1>9, <3>1
    <3>3. ASSUME NEW s \in above PROVE s.stage >= list[first].stage
      <4>1. PICK i \in 1..m : list[i] = s
        BY <1>1
      <4>2. ~(i <= met)
        BY <1>9, <4>1
      <4>3. first <= i
        BY <1>9, <3>1, <4>2
      <4>4. list[first].stage <= list[i].stage
        BY <1>10, <3>1, <4>3
      <4>5. list[first].stage \in Nat /\ list[i].stage \in Nat
        BY <1>2, <1>3, <3>1
      <4> QED
        BY <4>1, <4>4, <4>5
    <3> QED
      BY <1>8, <2>2, <3>2, <3>3
  <2> QED
    BY <2>1, <2>2
<1> QED
  BY <1>11, <1>12 DEF StageOf, list

(* Whoever has read a curve keeps a curve, and whoever was told its stage  *)
(* was told the one of the XP.                                             *)
Told ==
  /\ xp \in Int /\ DOMAIN ask = Reader
  /\ \A q \in Reader :
       /\ ask[q].pc = "xp" => Ascending(ask[q].curve)
       /\ ask[q].pc = "curve" => ask[q].xp \in Int
       /\ ask[q].pc = "told" =>
            StageOf(ask[q].of, ask[q].xp, ask[q].stage, ask[q].next_stage)

LEMMA ToldStep ==
  ASSUME progression!CurveAssumption, CurveInv, Told, [progression!Next]_(progression!vars)
  PROVE  Told'
<1>1. Ascending(rows)
  BY DEF CurveInv, CurveTyped, Curves
<1>2. ASSUME UNCHANGED <<xp, ask>> PROVE Told'
  BY <1>2 DEF Told
<1>3. ASSUME NEW q \in Reader, progression!AskProgress(q) PROVE Told'
  <2>1. ask' = [ask EXCEPT ![q] = [pc |-> "xp", curve |-> rows]] /\ xp' = xp
    BY <1>3 DEF progression!AskProgress
  <2> QED
    BY <1>1, <2>1 DEF Told
<1>4. ASSUME NEW q \in Reader, progression!TellProgress(q) PROVE Told'
  <2> DEFINE stage == progression!reached(progression!curve(ask[q].curve), xp)
             next == progression!following(progression!curve(ask[q].curve), xp)
  <2>1. StageOf(ask[q].curve, xp, stage, next)
    BY <1>4, StageIsFound DEF progression!TellProgress, Told
  <2>2. /\ ask' = [ask EXCEPT ![q] = [pc |-> "told", xp |-> xp, of |-> ask[q].curve,
                                    stage |-> stage, next_stage |-> next]]
        /\ xp' = xp
    BY <1>4 DEF progression!TellProgress
  <2> HIDE DEF stage, next
  <2> QED
    BY <2>1, <2>2 DEF Told
<1>5. ASSUME NEW q \in Reader, NEW points \in 1..MAX_XP, progression!Award(q, points)
      PROVE  Told'
  <2>1. xp' \in Int /\ points \in Int
    BY <1>5 DEF progression!Award, Told, progression!CurveAssumption
  <2>2. ask' = [ask EXCEPT ![q] = [pc |-> "curve", xp |-> xp']]
    BY <1>5 DEF progression!Award
  <2> QED
    BY <2>1, <2>2 DEF Told
<1>6. ASSUME NEW q \in Reader, progression!TellReward(q) PROVE Told'
  <2> DEFINE stage == progression!reached(progression!curve(rows), ask[q].xp)
             next == progression!following(progression!curve(rows), ask[q].xp)
  <2>1. StageOf(rows, ask[q].xp, stage, next)
    BY <1>1, <1>6, StageIsFound DEF progression!TellReward, Told
  <2>2. /\ ask' = [ask EXCEPT ![q] = [pc |-> "told", xp |-> ask[q].xp, of |-> rows,
                                    stage |-> stage, next_stage |-> next]]
        /\ xp' = xp
    BY <1>6 DEF progression!TellReward
  <2> HIDE DEF stage, next
  <2> QED
    BY <2>1, <2>2 DEF Told
<1>7. ASSUME NEW e \in Request,
             \/ \E body : progression!ReplaceCurve(e, body)
             \/ progression!Lock(e) \/ progression!Delete(e)
             \/ progression!Insert(e) \/ progression!Fail(e)
      PROVE  Told'
  BY <1>2, <1>7 DEF progression!ReplaceCurve, progression!Lock, progression!Delete,
                    progression!Insert, progression!Fail
<1>8. CASE UNCHANGED progression!vars
  BY <1>2, <1>8 DEF progression!vars
<1>9. CASE progression!Next
  BY <1>3, <1>4, <1>5, <1>6, <1>7, <1>9 DEF progression!Next
<1> QED
  BY <1>8, <1>9

(* Whatever curves are sent and whenever they replace one another, a player*)
(* who asks for progress, or whose reward is answered, is told the highest *)
(* stage of one whole curve that the XP told has met, and the lowest it has*)
(* not (ProgressionService.get_player_progress, and the end of reward).    *)
THEOREM StageIsOfTheXp == ASSUME AppsAssumption PROVE AppsSpec => []StageOfTheXp
<1>1. AppsInit => CurveInv /\ Told
  <2>1. progression!Init => Told
    BY DEF progression!Init, progression!Idle, Told
  <2> QED
    BY <2>1, CurveInitInv DEF AppsInit
<1>2. CurveInv /\ Told /\ [AppsNext]_appVars => CurveInv' /\ Told'
  BY CurveNextInv, ToldStep, CurveStepOrNone DEF AppsAssumption
<1>3. Told => StageOfTheXp
  BY DEF Told, StageOf, StageOfTheXp, progression!StageOfTheXp
<1> QED
  BY <1>1, <1>2, <1>3, PTL DEF AppsSpec
-----------------------------------------------------------------------------
(***************************************************************************)
(* The catalogue.  An item is checked against the schema one statement     *)
(* finds and written by a later one; what the check found is kept in mind  *)
(* with the document until then, and current never forgets a schema while  *)
(* a save is under way.                                                    *)
(***************************************************************************)
Checking == [pc : {"check", "save"}, item : Catalogued, document : Attributes]

ItemsTyped ==
  /\ item \in [Catalogued -> Attributes \cup {Absent}]
  /\ saving \in [Request -> {catalogue!Idle} \cup Checking]
  /\ current \in [Request -> SUBSET (Schema \cup {Absent})]
  /\ since \in [Catalogued -> SUBSET (Schema \cup {Absent})]
  /\ schema \in Schema \cup {Absent}

(* A document satisfies one of some schemas; the absence of one checks nothing. *)
Satisfies(document, schemas) == \E s \in schemas : s = Absent \/ document \in Fits[s]

(* Every save has seen the schema there is now, and what is about to be    *)
(* written was found to satisfy one it has seen.                           *)
SavesAreChecked ==
  \A e \in Request :
    /\ saving[e].pc # "idle" => schema \in current[e]
    /\ saving[e].pc = "save" => Satisfies(saving[e].document, current[e])

ItemsInv == ItemsTyped /\ SavesAreChecked /\ ItemsFitASchema

LEMMA ItemsInitInv == ASSUME catalogue!Init PROVE ItemsInv
BY DEF catalogue!Init, catalogue!Idle, ItemsInv, ItemsTyped, SavesAreChecked,
       ItemsFitASchema, catalogue!ItemsFitASchema

LEMMA StartSaveInv ==
  ASSUME ItemsInv, NEW e \in Request, NEW i \in Catalogued, NEW body, NEW d \in Attributes,
         catalogue!StartSave(e, i, body, d)
  PROVE  ItemsInv'
<1> DEFINE step == [pc |-> "check", item |-> i, document |-> d]
<1>1. step \in Checking /\ step.pc = "check"
  BY DEF Checking
<1>2. /\ saving' = [saving EXCEPT ![e] = step] /\ current' = [current EXCEPT ![e] = {schema}]
      /\ UNCHANGED <<schema, item, since>>
  BY DEF catalogue!StartSave
<1> HIDE DEF step
<1>3. ItemsTyped'
  BY <1>1, <1>2 DEF ItemsInv, ItemsTyped
<1>4. SavesAreChecked'
  BY <1>1, <1>2 DEF ItemsInv, ItemsTyped, SavesAreChecked
<1> QED
  BY <1>2, <1>3, <1>4 DEF ItemsInv, ItemsFitASchema, catalogue!ItemsFitASchema

LEMMA CheckInv ==
  ASSUME ItemsInv, NEW e \in Request, catalogue!Check(e)
  PROVE  ItemsInv'
<1>1. saving[e] \in Checking /\ schema \in current[e]
  BY DEF catalogue!Check, ItemsInv, ItemsTyped, SavesAreChecked, catalogue!Idle
<1>2. UNCHANGED <<schema, item, current, since>>
  BY DEF catalogue!Check
<1>3. \A f \in Request \ {e} : saving'[f] = saving[f]
  BY DEF catalogue!Check, ItemsInv, ItemsTyped
<1>4. \/ saving'[e] = catalogue!Idle
      \/ /\ saving'[e] \in Checking /\ saving'[e].document = saving[e].document
         /\ schema = Absent \/ saving[e].document \in Fits[schema]
  BY <1>1 DEF catalogue!Check, ItemsInv, ItemsTyped, Checking
<1>5. saving' \in [Request -> {catalogue!Idle} \cup Checking]
  BY <1>3, <1>4 DEF catalogue!Check, ItemsInv, ItemsTyped
<1>6. SavesAreChecked'
  BY <1>1, <1>2, <1>3, <1>4 DEF ItemsInv, SavesAreChecked, Satisfies, catalogue!Idle
<1> QED
  BY <1>2, <1>5, <1>6 DEF ItemsInv, ItemsTyped, ItemsFitASchema, catalogue!ItemsFitASchema

LEMMA SaveInv ==
  ASSUME ItemsInv, NEW e \in Request, catalogue!Save(e)
  PROVE  ItemsInv'
<1>1. saving[e] \in Checking /\ Satisfies(saving[e].document, current[e])
  BY DEF catalogue!Save, ItemsInv, ItemsTyped, SavesAreChecked, catalogue!Idle
<1>2. saving[e].item \in Catalogued /\ saving[e].document \in Attributes
  BY <1>1 DEF Checking
<1>3. /\ saving' = [saving EXCEPT ![e] = catalogue!Idle]
      /\ current' = [current EXCEPT ![e] = {}] /\ schema' = schema
      /\ \/ UNCHANGED <<item, since>>
         \/ /\ item' = [item EXCEPT ![saving[e].item] = saving[e].document]
            /\ since' = [since EXCEPT ![saving[e].item] = current[e]]
  BY DEF catalogue!Save
<1>4. ItemsTyped'
  BY <1>2, <1>3 DEF ItemsInv, ItemsTyped
<1>5. SavesAreChecked'
  BY <1>3 DEF ItemsInv, ItemsTyped, SavesAreChecked, catalogue!Idle
<1>6. ItemsFitASchema'
  BY <1>1, <1>2, <1>3
     DEF ItemsInv, ItemsTyped, Satisfies, ItemsFitASchema, catalogue!ItemsFitASchema
<1> QED
  BY <1>4, <1>5, <1>6 DEF ItemsInv

(* A save under way sees the new schema beside those it has seen. *)
LEMMA ReplaceSchemaInv ==
  ASSUME ItemsInv, NEW raw, NEW s \in Schema, catalogue!ReplaceSchema(raw, s)
  PROVE  ItemsInv'
<1>1. /\ schema' = s /\ UNCHANGED <<item, saving, since>>
      /\ current' = [e \in Request |-> IF saving[e].pc = "idle" THEN {}
                                       ELSE current[e] \cup {s}]
  BY DEF catalogue!ReplaceSchema
<1>2. ItemsTyped'
  BY <1>1 DEF ItemsInv, ItemsTyped
<1>3. SavesAreChecked'
  BY <1>1 DEF ItemsInv, SavesAreChecked, Satisfies
<1> QED
  BY <1>1, <1>2, <1>3 DEF ItemsInv, ItemsFitASchema, catalogue!ItemsFitASchema

LEMMA RemoveItemInv ==
  ASSUME ItemsInv, NEW i \in Catalogued, catalogue!DeleteItem(i)
  PROVE  ItemsInv'
<1>1. /\ item' = [item EXCEPT ![i] = Absent] /\ since' = [since EXCEPT ![i] = {}]
      /\ UNCHANGED <<schema, saving, current>>
  BY DEF catalogue!DeleteItem
<1>2. ItemsTyped'
  BY <1>1 DEF ItemsInv, ItemsTyped
<1>3. ItemsFitASchema'
  BY <1>1 DEF ItemsInv, ItemsTyped, ItemsFitASchema, catalogue!ItemsFitASchema
<1> QED
  BY <1>1, <1>2, <1>3 DEF ItemsInv, SavesAreChecked

LEMMA ItemsNextInv ==
  ASSUME ItemsInv, [catalogue!Next]_(catalogue!vars)
  PROVE  ItemsInv'
<1>1. CASE UNCHANGED catalogue!vars
  BY <1>1 DEF catalogue!vars, ItemsInv, ItemsTyped, SavesAreChecked, ItemsFitASchema,
              catalogue!ItemsFitASchema
<1>2. CASE catalogue!Next
  BY <1>2, StartSaveInv, CheckInv, SaveInv, ReplaceSchemaInv, RemoveItemInv
     DEF catalogue!Next
<1> QED
  BY <1>1, <1>2

LEMMA CatalogueStepOrNone ==
  ASSUME [AppsNext]_appVars PROVE [catalogue!Next]_(catalogue!vars)
BY DEF AppsNext, appVars, BoardsStep, GrantsStep, CatalogueStep, CurveStep, ContentStep,
       catalogueVars, catalogue!vars

(***************************************************************************)
(* Every item satisfies a schema the project had while it was being saved, *)
(* however many saves overlap and the schema is replaced between a check   *)
(* and its write (Catalogue.save, and the upsert that follows it).         *)
(***************************************************************************)
THEOREM ItemsStayFit == ASSUME AppsAssumption PROVE AppsSpec => []ItemsFitASchema
<1>1. AppsInit => ItemsInv
  BY ItemsInitInv DEF AppsInit
<1>2. ItemsInv /\ [AppsNext]_appVars => ItemsInv'
  BY ItemsNextInv, CatalogueStepOrNone
<1>3. ItemsInv => ItemsFitASchema
  BY DEF ItemsInv
<1> QED
  BY <1>1, <1>2, <1>3, PTL DEF AppsSpec
-----------------------------------------------------------------------------
(***************************************************************************)
(* Every document of an import is saved, or none.  What an import has      *)
(* written so far is, of every wave it holds, what its first documents     *)
(* make of the committed row; that row stays as it is until the import     *)
(* ends, because whoever else would write, publish or delete it waits.     *)
(***************************************************************************)
Versions == {Absent} \cup [order : Order, published : BOOLEAN]
Documents == Seq(content!Document)
Importing == [pc : {"write"}, todo : Documents, sent : Documents]

ContentTyped ==
  /\ waves \in [Wave -> Versions] /\ waveDraft \in [Wave -> Versions]
  /\ waveHolder \in [Wave -> Request \cup {Nobody}]
  /\ authoring \in [Request -> {content!Idle} \cup Importing]

(* The row of wave w, when it was old and the first n of ds were saved. *)
SavedBy(old, ds, w, n) ==
  LET row[i \in 0..Len(ds)] ==
        IF i = 0 THEN old
        ELSE IF ds[i].id = w THEN content!Upserted(row[i - 1], ds[i]) ELSE row[i - 1]
  IN row[n]

LEMMA SavedIsByAll == \A old, ds, w : content!Saved(old, ds, w) = SavedBy(old, ds, w, Len(ds))
BY DEF content!Saved, SavedBy

LEMMA UpsertedIsVersion ==
  ASSUME NEW old \in Versions, NEW d \in content!Document
  PROVE  content!Upserted(old, d) \in Versions
<1>1. old # Absent => old.published \in BOOLEAN
  BY DEF Versions
<1> QED
  BY <1>1 DEF content!Upserted, content!Document, Versions

LEMMA SavedSteps ==
  ASSUME NEW old \in Versions, NEW ds \in Documents, NEW w \in Wave
  PROVE  /\ SavedBy(old, ds, w, 0) = old
         /\ \A n \in 0..Len(ds) : SavedBy(old, ds, w, n) \in Versions
         /\ \A n \in 1..Len(ds) :
              SavedBy(old, ds, w, n) =
                IF ds[n].id = w THEN content!Upserted(SavedBy(old, ds, w, n - 1), ds[n])
                ELSE SavedBy(old, ds, w, n - 1)
<1> DEFINE L == Len(ds)
           named(i) == ds[i].id = w
           after(r, i) == IF named(i) THEN content!Upserted(r, ds[i]) ELSE r
           step == [i \in 1..L |-> [r \in Versions |-> after(r, i)]]
           row[i \in 0..L] == IF i = 0 THEN old ELSE after(row[i - 1], i)
<1>1. L \in Nat /\ L \in 0..L /\ \A i \in 1..L : ds[i] \in content!Document
  BY DEF Documents
<1>2. \A r \in Versions, i \in 1..L : after(r, i) \in Versions
  BY <1>1, UpsertedIsVersion
<1>3. \A n : SavedBy(old, ds, w, n) = row[n]
  BY DEF SavedBy
<1>4. row = CHOOSE g : g = [i \in 0..L |-> IF i = 0 THEN old ELSE after(g[i - 1], i)]
  OBVIOUS
<1> HIDE DEF row, after, L
<1>5. step \in [1..L -> [Versions -> Versions]]
  BY <1>2
<1>6. \A i \in 1..L, r \in Versions : step[i][r] = after(r, i)
  OBVIOUS
<1> HIDE DEF step
<1>7. PICK g \in [0..L -> Versions] : g[0] = old /\ \A i \in 1..L : g[i] = step[i][g[i - 1]]
  <2>1. Recurs(L, Versions, old, step)
    BY <1>1, <1>5, Recursion
  <2> QED
    BY <2>1 DEF Recurs
<1>8. g = [i \in 0..L |-> IF i = 0 THEN old ELSE after(g[i - 1], i)]
  <2>1. \A i \in 1..L : i - 1 \in 0..L
    BY <1>1
  <2>2. \A i \in 1..L : g[i] = after(g[i - 1], i)
    BY <1>6, <1>7, <2>1
  <2>3. \A i \in 0..L : i = 0 \/ i \in 1..L
    BY <1>1
  <2>4. \A i \in 0..L : g[i] = IF i = 0 THEN old ELSE after(g[i - 1], i)
    BY <1>7, <2>2, <2>3
  <2> QED
    BY <1>7, <2>4
<1>9. row = [i \in 0..L |-> IF i = 0 THEN old ELSE after(row[i - 1], i)]
  BY <1>4, <1>8, Zenon
<1>10. row[0] = old /\ \A i \in 1..L : row[i] = after(row[i - 1], i)
  <2>1. \A i \in 0..L : row[i] = IF i = 0 THEN old ELSE after(row[i - 1], i)
    BY <1>9, Zenon
  <2>2. 0 \in 0..L /\ \A i \in 1..L : i \in 0..L /\ i # 0
    BY <1>1
  <2> QED
    BY <2>1, <2>2, Zenon
<1>11. \A n \in 0..L : row[n] \in Versions
  <2> DEFINE T == {n \in 0..L : row[n] \in Versions}
  <2>1. 0 \in T /\ \A n \in 1..L : n - 1 \in T => n \in T
    BY <1>1, <1>2, <1>10
  <2> HIDE DEF T
  <2>2. \A n \in 0..L : n \in T
    BY <1>1, <2>1, UpTo
  <2> QED
    BY <2>2 DEF T
<1> QED
  BY <1>3, <1>10, <1>11 DEF L, after

(* A wave that none of the first n documents names is as it was. *)
LEMMA SavedOthers ==
  ASSUME NEW old \in Versions, NEW ds \in Documents, NEW w \in Wave, NEW n \in 0..Len(ds),
         \A i \in 1..n : ds[i].id # w
  PROVE  SavedBy(old, ds, w, n) = old
<1> DEFINE T == {m \in 0..n : SavedBy(old, ds, w, m) = old}
<1>1. Len(ds) \in Nat /\ n \in Nat
  BY DEF Documents
<1>2. SavedBy(old, ds, w, 0) = old
  BY SavedSteps
<1>3. ASSUME NEW m \in 1..n, m - 1 \in T PROVE m \in T
  <2>1. m \in 1..Len(ds) /\ m \in 0..n
    BY <1>1
  <2>2. SavedBy(old, ds, w, m) = SavedBy(old, ds, w, m - 1)
    BY <2>1, SavedSteps
  <2> QED
    BY <1>3, <2>1, <2>2
<1>4. 0 \in T
  BY <1>1, <1>2
<1> HIDE DEF T
<1>5. \A m \in 0..n : m \in T
  BY <1>1, <1>3, <1>4, UpTo
<1> QED
  BY <1>1, <1>5 DEF T
-----------------------------------------------------------------------------
(* How many documents of its import a has written. *)
Done(a) == Len(authoring[a].sent) - Len(authoring[a].todo)

(* The documents that are left are the last ones of the import. *)
DocumentsAreLeft ==
  \A a \in Request : authoring[a].pc = "write" =>
    /\ Done(a) \in 0..Len(authoring[a].sent)
    /\ \A i \in 1..Len(authoring[a].todo) :
         authoring[a].todo[i] = authoring[a].sent[Done(a) + i]

(* An import holds the waves of the documents it has written, ... *)
WrittenAreHeld ==
  \A a \in Request : authoring[a].pc = "write" =>
    \A i \in 1..Done(a) : waveHolder[authoring[a].sent[i].id] = a

(* ... it holds no others, and they are as those documents leave them. *)
HeldAreWritten ==
  \A w \in Wave :
    /\ waveHolder[w] = Nobody => waveDraft[w] = waves[w]
    /\ \A a \in Request : waveHolder[w] = a =>
         /\ authoring[a].pc = "write"
         /\ waveDraft[w] = SavedBy(waves[w], authoring[a].sent, w, Done(a))

ContentInv ==
  /\ ContentTyped /\ DocumentsAreLeft /\ WrittenAreHeld /\ HeldAreWritten
  /\ waves = book

LEMMA ContentInitInv == ASSUME content!WavesAssumption, content!Init PROVE ContentInv
BY DEF content!Init, content!AtRest, content!Key, content!Idle, ContentInv, ContentTyped,
       DocumentsAreLeft, WrittenAreHeld, HeldAreWritten, Versions, content!WavesAssumption

LEMMA WritingIsImporting ==
  ASSUME ContentTyped, NEW a \in Request, authoring[a].pc = "write"
  PROVE  authoring[a] \in Importing /\ authoring[a].sent \in Documents /\ authoring[a].todo \in Documents
         /\ Len(authoring[a].sent) \in Nat /\ Len(authoring[a].todo) \in Nat
<1>1. authoring[a] \in Importing
  BY DEF ContentTyped, content!Idle
<1> QED
  BY <1>1 DEF Importing, Documents

(* A request that begins holds nothing and has written nothing. *)
LEMMA AskContentInv ==
  ASSUME ContentInv, content!WavesAssumption, NEW a \in Request, authoring[a].pc = "idle",
         NEW ds \in Documents,
         authoring' = [authoring EXCEPT ![a] = [pc |-> "write", todo |-> ds, sent |-> ds]],
         UNCHANGED <<waves, waveDraft, waveHolder, book>>
  PROVE  ContentInv'
<1> DEFINE new == [pc |-> "write", todo |-> ds, sent |-> ds]
<1>1. new \in Importing /\ new.pc = "write" /\ new.sent = ds /\ new.todo = ds
  BY DEF Importing
<1> HIDE DEF new
<1>2. authoring' = [authoring EXCEPT ![a] = new]
  BY DEF new
<1>3. authoring'[a] = new /\ \A b \in Request \ {a} : authoring'[b] = authoring[b]
  BY <1>2 DEF ContentInv, ContentTyped
<1>4. ContentTyped'
  BY <1>1, <1>2 DEF ContentInv, ContentTyped
<1>5. Len(ds) \in Nat /\ Done(a)' = 0
  <2>1. Len(ds) \in Nat
    BY DEF Documents
  <2> QED
    BY <1>1, <1>3, <2>1 DEF Done
<1>6. \A b \in Request \ {a} : Done(b)' = Done(b)
  BY <1>3 DEF Done
<1>7. DocumentsAreLeft'
  <2>1. \A i \in 1..Len(ds) : 0 + i = i
    BY <1>5
  <2> QED
    BY <1>1, <1>3, <1>5, <1>6, <2>1 DEF ContentInv, DocumentsAreLeft
<1>8. WrittenAreHeld'
  BY <1>3, <1>5, <1>6 DEF ContentInv, WrittenAreHeld
<1>9. HeldAreWritten'
  <2>1. \A w \in Wave : waveHolder[w] # Nobody => waveHolder[w] \in Request \ {a}
    BY DEF ContentInv, ContentTyped, HeldAreWritten
  <2> QED
    BY <1>3, <1>6, <2>1 DEF ContentInv, HeldAreWritten
<1> QED
  BY <1>4, <1>7, <1>8, <1>9 DEF ContentInv

(* The next document: it is the one after those that were written. *)
LEMMA NextDocument ==
  ASSUME ContentInv, NEW a \in Request, authoring[a].pc = "write", authoring[a].todo # <<>>
  PROVE  /\ Done(a) + 1 \in 1..Len(authoring[a].sent)
         /\ Head(authoring[a].todo) = authoring[a].sent[Done(a) + 1]
         /\ Head(authoring[a].todo) \in content!Document
         /\ Len(Tail(authoring[a].todo)) = Len(authoring[a].todo) - 1
         /\ Tail(authoring[a].todo) \in Documents
         /\ \A i \in 1..Len(Tail(authoring[a].todo)) :
              Tail(authoring[a].todo)[i] = authoring[a].sent[Done(a) + 1 + i]
<1> DEFINE todo == authoring[a].todo
           all == authoring[a].sent
<1>1. todo \in Documents /\ all \in Documents /\ Len(all) \in Nat /\ Len(todo) \in Nat
  BY WritingIsImporting DEF ContentInv
<1>2. Done(a) = Len(all) - Len(todo) /\ Done(a) \in 0..Len(all)
      /\ \A i \in 1..Len(todo) : todo[i] = all[Done(a) + i]
  BY DEF ContentInv, DocumentsAreLeft, Done
<1> HIDE DEF todo, all
<1>3. todo # <<>>
  BY DEF todo
<1>4. Len(todo) \in Nat \ {0} /\ Head(todo) = todo[1] /\ todo[1] \in content!Document
      /\ Tail(todo) \in Documents /\ Len(Tail(todo)) = Len(todo) - 1
      /\ \A i \in 1..(Len(todo) - 1) : Tail(todo)[i] = todo[i + 1]
  BY <1>1, <1>3 DEF Documents
<1>5. \A i \in 1..(Len(todo) - 1) : i + 1 \in 1..Len(todo) /\ Done(a) + (i + 1) = Done(a) + 1 + i
  BY <1>2, <1>4
<1>6. 1 \in 1..Len(todo) /\ Done(a) + 1 \in 1..Len(all)
  BY <1>1, <1>2, <1>4
<1> QED
  BY <1>2, <1>4, <1>5, <1>6 DEF todo, all

LEMMA WriteContentInv ==
  ASSUME ContentInv, content!WavesAssumption, NEW a \in Request, content!Write(a)
  PROVE  ContentInv'
<1> DEFINE d == Head(authoring[a].todo)
           n == Done(a)
           all == authoring[a].sent
           rest == Tail(authoring[a].todo)
           v == content!Upserted(waveDraft[d.id], d)
           new == [authoring[a] EXCEPT !.todo = rest]
<1>1. /\ authoring[a].pc = "write" /\ authoring[a].todo # <<>> /\ waveHolder[d.id] \in {Nobody, a}
      /\ waveDraft' = [waveDraft EXCEPT ![d.id] = v]
      /\ waveHolder' = [waveHolder EXCEPT ![d.id] = a]
      /\ authoring' = [authoring EXCEPT ![a].todo = Tail(authoring[a].todo)]
      /\ UNCHANGED <<waves, book>>
  BY DEF content!Write, content!Lockable, content!WriteRow
<1>2. /\ n + 1 \in 1..Len(all) /\ d = all[n + 1] /\ d \in content!Document
      /\ Len(rest) = Len(authoring[a].todo) - 1 /\ rest \in Documents
      /\ \A i \in 1..Len(rest) : rest[i] = all[n + 1 + i]
  BY <1>1, NextDocument
<1>3. authoring[a] \in Importing /\ all \in Documents
      /\ Len(all) \in Nat /\ Len(authoring[a].todo) \in Nat
  BY <1>1, WritingIsImporting DEF ContentInv
<1>4. n \in 0..Len(all) /\ n = Len(all) - Len(authoring[a].todo)
  BY <1>1 DEF ContentInv, DocumentsAreLeft, Done
<1>5. d.id \in Wave
  BY <1>2 DEF content!Document
<1>6. v \in Versions
  BY <1>2, <1>5, UpsertedIsVersion DEF ContentInv, ContentTyped
<1>7. new \in Importing /\ new.pc = "write" /\ new.sent = all /\ new.todo = rest
  BY <1>2, <1>3 DEF Importing
<1>8. authoring' = [authoring EXCEPT ![a] = new]
  BY <1>1, <1>3 DEF ContentInv, ContentTyped
<1> HIDE DEF new, v
<1>9. authoring'[a] = new /\ \A b \in Request \ {a} : authoring'[b] = authoring[b]
  BY <1>8 DEF ContentInv, ContentTyped
<1>10. Done(a)' = n + 1
  <2> HIDE DEF all, rest
  <2>1. Done(a)' = Len(all) - Len(rest)
    BY <1>7, <1>9, Zenon DEF Done
  <2>2. Len(all) - Len(rest) = n + 1
    BY <1>2, <1>3, <1>4
  <2> QED
    BY <2>1, <2>2
<1>11. \A b \in Request \ {a} : Done(b)' = Done(b)
  BY <1>9 DEF Done
<1>12. waveHolder'[d.id] = a /\ waveDraft'[d.id] = v
       /\ \A w \in Wave : w # d.id => waveHolder'[w] = waveHolder[w] /\ waveDraft'[w] = waveDraft[w]
  BY <1>1, <1>5 DEF ContentInv, ContentTyped
<1>13. ContentTyped'
  BY <1>1, <1>5, <1>6, <1>7, <1>8 DEF ContentInv, ContentTyped
<1>14. v = content!Upserted(waveDraft[d.id], d)
  BY DEF v
<1>15. \A i \in 1..(n + 1) : i = n + 1 \/ i \in 1..n
  BY <1>4
<1>16. a # Nobody /\ Nobody \notin Request
  BY DEF content!WavesAssumption
<1> HIDE DEF d, n, all, rest
<1>17. DocumentsAreLeft'
  <2> SUFFICES ASSUME NEW b \in Request, authoring'[b].pc = "write"
               PROVE  /\ Done(b)' \in 0..Len(authoring'[b].sent)
                      /\ \A i \in 1..Len(authoring'[b].todo) :
                           authoring'[b].todo[i] = authoring'[b].sent[Done(b)' + i]
    BY DEF DocumentsAreLeft
  <2>1. CASE b = a
    <3>1. n + 1 \in 0..Len(all)
      BY <1>2, <1>4
    <3> QED
      BY <1>2, <1>7, <1>9, <1>10, <2>1, <3>1
  <2>2. CASE b # a
    BY <1>9, <1>11, <2>2 DEF ContentInv, DocumentsAreLeft
  <2> QED
    BY <2>1, <2>2
<1>18. WrittenAreHeld'
  <2> SUFFICES ASSUME NEW b \in Request, authoring'[b].pc = "write", NEW i \in 1..Done(b)'
               PROVE  waveHolder'[authoring'[b].sent[i].id] = b
    BY DEF WrittenAreHeld
  <2>1. CASE b = a
    <3>1. CASE i = n + 1
      BY <1>2, <1>7, <1>9, <1>12, <2>1, <3>1
    <3>2. CASE i # n + 1
      <4>1. i \in 1..n
        BY <1>10, <1>15, <2>1, <3>2
      <4>2. waveHolder[all[i].id] = a
        BY <1>1, <4>1 DEF ContentInv, WrittenAreHeld, n, all
      <4>3. all[i].id \in Wave
        <5>1. i \in 1..Len(all)
          BY <1>3, <1>4, <4>1
        <5>2. all[i] \in content!Document
          BY <1>3, <5>1 DEF Documents
        <5> QED
          BY <5>2 DEF content!Document
      <4> QED
        BY <1>7, <1>9, <1>12, <2>1, <4>2, <4>3
    <3> QED
      BY <3>1, <3>2
  <2>2. CASE b # a
    <3>1. authoring[b] = authoring'[b] /\ i \in 1..Done(b)
      BY <1>9, <1>11, <2>2
    <3>2. waveHolder[authoring[b].sent[i].id] = b
      BY <3>1 DEF ContentInv, WrittenAreHeld
    <3>3. authoring[b].sent[i].id \in Wave
      <4>1. authoring[b].sent \in Documents /\ Len(authoring[b].sent) \in Nat
        BY <3>1, WritingIsImporting DEF ContentInv
      <4>2. Done(b) \in 0..Len(authoring[b].sent)
        BY <3>1 DEF ContentInv, DocumentsAreLeft
      <4>3. i \in 1..Len(authoring[b].sent)
        BY <3>1, <4>1, <4>2
      <4>4. authoring[b].sent[i] \in content!Document
        BY <4>1, <4>3 DEF Documents
      <4> QED
        BY <4>4 DEF content!Document
    <3>4. authoring[b].sent[i].id # d.id
      BY <1>1, <1>16, <2>2, <3>2 DEF d
    <3> QED
      BY <1>12, <3>1, <3>2, <3>3, <3>4
  <2> QED
    BY <2>1, <2>2
<1>19. HeldAreWritten'
  <2> SUFFICES ASSUME NEW w \in Wave
               PROVE  /\ waveHolder'[w] = Nobody => waveDraft'[w] = waves[w]
                      /\ \A b \in Request : waveHolder'[w] = b =>
                           /\ authoring'[b].pc = "write"
                           /\ waveDraft'[w] = SavedBy(waves[w], authoring'[b].sent, w, Done(b)')
    BY <1>1 DEF HeldAreWritten, SavedBy
  <2>1. waves[w] \in Versions
    BY DEF ContentInv, ContentTyped
  <2>2. SavedBy(waves[w], all, w, n + 1) =
          IF d.id = w THEN content!Upserted(SavedBy(waves[w], all, w, n), d)
          ELSE SavedBy(waves[w], all, w, n)
    <3>1. (n + 1) - 1 = n
      BY <1>4
    <3>2. \A m \in 1..Len(all) :
            SavedBy(waves[w], all, w, m) =
              IF all[m].id = w THEN content!Upserted(SavedBy(waves[w], all, w, m - 1), all[m])
              ELSE SavedBy(waves[w], all, w, m - 1)
      BY <1>3, <2>1, SavedSteps
    <3> QED
      BY <1>2, <3>1, <3>2
  <2>3. SUFFICES ASSUME waveHolder'[w] = a
                 PROVE  waveDraft'[w] = SavedBy(waves[w], all, w, n + 1)
    <3>1. CASE waveHolder'[w] = a
      BY <1>7, <1>9, <1>10, <1>16, <2>3, <3>1
    <3>2. CASE waveHolder'[w] # a
      <4>1. w # d.id /\ waveHolder'[w] = waveHolder[w] /\ waveDraft'[w] = waveDraft[w]
        BY <1>12, <3>2
      <4> QED
        BY <1>9, <1>11, <3>2, <4>1 DEF ContentInv, HeldAreWritten
    <3> QED
      BY <3>1, <3>2
  <2>4. CASE waveHolder[w] = a
    <3>1. waveDraft[w] = SavedBy(waves[w], all, w, n)
      BY <2>4 DEF ContentInv, HeldAreWritten, all, n
    <3> QED
      BY <1>12, <1>14, <2>2, <3>1
  <2>5. CASE waveHolder[w] # a
    <3>1. w = d.id /\ waveHolder[w] = Nobody
      BY <1>1, <1>12, <2>3, <2>5 DEF d
    <3>2. waveDraft[w] = waves[w]
      BY <3>1 DEF ContentInv, HeldAreWritten
    <3>3. \A i \in 1..n : all[i].id # w
      BY <1>1, <1>16, <3>1 DEF ContentInv, WrittenAreHeld, all, n
    <3>4. SavedBy(waves[w], all, w, n) = waves[w]
      BY <1>3, <1>4, <2>1, <3>3, SavedOthers
    <3> QED
      BY <1>12, <1>14, <2>2, <3>1, <3>2, <3>4
  <2> QED
    BY <2>4, <2>5
<1> QED
  BY <1>1, <1>13, <1>17, <1>18, <1>19 DEF ContentInv

(* The end of a request: what it wrote is committed, or gone. *)
LEMMA EndContentInv ==
  ASSUME ContentInv, content!WavesAssumption, NEW a \in Request, authoring[a].pc = "write",
         authoring' = [authoring EXCEPT ![a] = content!Idle], waves' = book',
         waves' \in [Wave -> Versions], waveDraft' \in [Wave -> Versions],
         \A w \in Wave :
           /\ waveHolder[w] = a => waveDraft'[w] = waves'[w]
           /\ waveHolder[w] # a => waveDraft'[w] = waveDraft[w] /\ waves'[w] = waves[w],
         waveHolder' = content!Released(a)
  PROVE  ContentInv'
<1>1. waveHolder' = [w \in Wave |-> IF waveHolder[w] = a THEN Nobody ELSE waveHolder[w]]
  BY DEF content!Released, content!Key
<1>2. authoring'[a] = content!Idle /\ \A b \in Request \ {a} : authoring'[b] = authoring[b]
  BY DEF ContentInv, ContentTyped
<1>3. \A b \in Request : authoring'[b].pc = "write" => b # a /\ authoring'[b] = authoring[b]
  BY <1>2 DEF content!Idle
<1>4. \A b \in Request \ {a} : Done(b)' = Done(b)
  BY <1>2 DEF Done
<1>5. ContentTyped'
  BY <1>1 DEF ContentInv, ContentTyped
<1>6. DocumentsAreLeft'
  BY <1>3, <1>4 DEF ContentInv, DocumentsAreLeft
<1>7. WrittenAreHeld'
  <2> SUFFICES ASSUME NEW b \in Request, authoring'[b].pc = "write", NEW i \in 1..Done(b)'
               PROVE  waveHolder'[authoring'[b].sent[i].id] = b
    BY DEF WrittenAreHeld
  <2>1. b # a /\ authoring'[b] = authoring[b] /\ i \in 1..Done(b)
    BY <1>3, <1>4
  <2>2. waveHolder[authoring[b].sent[i].id] = b
    BY <2>1 DEF ContentInv, WrittenAreHeld
  <2>3. authoring[b].sent[i].id \in Wave
    <3>1. authoring[b].sent \in Documents /\ Len(authoring[b].sent) \in Nat
      BY <2>1, WritingIsImporting DEF ContentInv
    <3>2. Done(b) \in 0..Len(authoring[b].sent)
      BY <2>1 DEF ContentInv, DocumentsAreLeft
    <3>3. i \in 1..Len(authoring[b].sent)
      BY <2>1, <3>1, <3>2
    <3>4. authoring[b].sent[i] \in content!Document
      BY <3>1, <3>3 DEF Documents
    <3> QED
      BY <3>4 DEF content!Document
  <2> QED
    BY <1>1, <2>1, <2>2, <2>3
<1>8. HeldAreWritten'
  <2> SUFFICES ASSUME NEW w \in Wave
               PROVE  /\ waveHolder'[w] = Nobody => waveDraft'[w] = waves'[w]
                      /\ \A b \in Request : waveHolder'[w] = b =>
                           /\ authoring'[b].pc = "write"
                           /\ waveDraft'[w] = SavedBy(waves'[w], authoring'[b].sent, w, Done(b)')
    BY DEF HeldAreWritten, SavedBy
  <2>1. CASE waveHolder[w] = a
    BY <1>1, <2>1 DEF content!WavesAssumption
  <2>2. CASE waveHolder[w] # a
    <3>1. waveHolder'[w] = waveHolder[w]
      BY <1>1, <2>2
    <3> QED
      BY <1>2, <1>4, <2>2, <3>1 DEF ContentInv, HeldAreWritten
  <2> QED
    BY <2>1, <2>2
<1> QED
  BY <1>5, <1>6, <1>7, <1>8 DEF ContentInv

LEMMA CommitContentInv ==
  ASSUME ContentInv, content!WavesAssumption, NEW a \in Request, content!Commit(a)
  PROVE  ContentInv'
<1> DEFINE all == authoring[a].sent
<1>1. /\ authoring[a].pc = "write" /\ authoring[a].todo = <<>>
      /\ waves' = [w \in Wave |-> IF waveHolder[w] = a THEN waveDraft[w] ELSE waves[w]]
      /\ waveDraft' = waveDraft /\ waveHolder' = content!Released(a)
      /\ book' = [w \in Wave |-> content!Saved(book[w], all, w)]
      /\ authoring' = [authoring EXCEPT ![a] = content!Idle]
  BY DEF content!Commit, content!CommitRows, content!Key
<1>2. all \in Documents /\ Len(all) \in Nat /\ Done(a) = Len(all) /\ Done(a) \in 0..Len(all)
  <2>1. all \in Documents /\ Len(all) \in Nat /\ Len(authoring[a].todo) = 0
    BY <1>1, WritingIsImporting DEF ContentInv
  <2> QED
    BY <2>1 DEF Done
<1> HIDE DEF all
<1>3. ASSUME NEW w \in Wave PROVE waves'[w] = book'[w]
  <2>1. waves[w] \in Versions /\ book[w] = waves[w]
    BY DEF ContentInv, ContentTyped
  <2>2. book'[w] = SavedBy(waves[w], all, w, Done(a))
    BY <1>1, <1>2, <2>1, SavedIsByAll
  <2>3. CASE waveHolder[w] = a
    BY <1>1, <2>2, <2>3 DEF ContentInv, HeldAreWritten, all
  <2>4. CASE waveHolder[w] # a
    <3>1. \A i \in 1..Done(a) : all[i].id # w
      BY <1>1, <2>4 DEF ContentInv, WrittenAreHeld, all
    <3>2. SavedBy(waves[w], all, w, Done(a)) = waves[w]
      BY <1>2, <2>1, <3>1, SavedOthers
    <3> QED
      BY <1>1, <2>2, <2>4, <3>2
  <2> QED
    BY <2>3, <2>4
<1>4. waves' = book'
  BY <1>1, <1>3
<1>5. waves' \in [Wave -> Versions] /\ waveDraft' \in [Wave -> Versions]
  BY <1>1 DEF ContentInv, ContentTyped
<1> QED
  BY <1>1, <1>4, <1>5, EndContentInv

LEMMA FailContentInv ==
  ASSUME ContentInv, content!WavesAssumption, NEW a \in Request, content!Fail(a)
  PROVE  ContentInv'
<1>1. /\ authoring[a].pc = "write"
      /\ waveDraft' = [w \in Wave |-> IF waveHolder[w] = a THEN waves[w] ELSE waveDraft[w]]
      /\ waveHolder' = content!Released(a) /\ UNCHANGED <<waves, book>>
      /\ authoring' = [authoring EXCEPT ![a] = content!Idle]
  BY DEF content!Fail, content!RollbackRows, content!Key
<1>2. waves' \in [Wave -> Versions] /\ waveDraft' \in [Wave -> Versions] /\ waves' = book'
  BY <1>1 DEF ContentInv, ContentTyped
<1> QED
  BY <1>1, <1>2, EndContentInv

(* Rows that nobody holds are changed: in no import's way. *)
LEMMA ChangeContentInv ==
  ASSUME ContentInv, content!WavesAssumption, UNCHANGED <<waveHolder, authoring>>,
         waves' \in [Wave -> Versions], waveDraft' \in [Wave -> Versions], waves' = book',
         \A w \in Wave :
           IF waveHolder[w] = Nobody THEN waveDraft'[w] = waves'[w]
           ELSE waveDraft'[w] = waveDraft[w] /\ waves'[w] = waves[w]
  PROVE  ContentInv'
<1>1. \A a \in Request : Done(a)' = Done(a)
  BY DEF Done
<1>2. ContentTyped'
  BY DEF ContentInv, ContentTyped
<1>3. DocumentsAreLeft' /\ WrittenAreHeld'
  BY <1>1 DEF ContentInv, DocumentsAreLeft, WrittenAreHeld
<1>4. HeldAreWritten'
  <2> SUFFICES ASSUME NEW w \in Wave
               PROVE  /\ waveHolder[w] = Nobody => waveDraft'[w] = waves'[w]
                      /\ \A b \in Request : waveHolder[w] = b =>
                           /\ authoring[b].pc = "write"
                           /\ waveDraft'[w] = SavedBy(waves'[w], authoring[b].sent, w, Done(b))
    BY <1>1 DEF HeldAreWritten, SavedBy
  <2> QED
    BY DEF ContentInv, HeldAreWritten, content!WavesAssumption
<1> QED
  BY <1>2, <1>3, <1>4 DEF ContentInv

LEMMA PublishContentInv ==
  ASSUME ContentInv, content!WavesAssumption, NEW w \in Wave, NEW published \in BOOLEAN,
         content!SetPublished(w, published)
  PROVE  ContentInv'
<1> DEFINE row == [waves[w] EXCEPT !.published = published]
<1>1. /\ waves[w] # Absent /\ waveHolder[w] = Nobody /\ UNCHANGED <<waveHolder, authoring>>
      /\ waves' = [waves EXCEPT ![w].published = published]
      /\ waveDraft' = [waveDraft EXCEPT ![w].published = published]
      /\ book' = [book EXCEPT ![w].published = published]
  BY DEF content!SetPublished
<1>2. waveDraft[w] = waves[w] /\ book[w] = waves[w]
  BY <1>1 DEF ContentInv, HeldAreWritten
<1>3. row \in Versions
  <2>1. waves[w] \in [order : Order, published : BOOLEAN]
    BY <1>1 DEF ContentInv, ContentTyped, Versions
  <2> QED
    BY <2>1 DEF Versions
<1>4. waves' = [waves EXCEPT ![w] = row] /\ waveDraft' = [waveDraft EXCEPT ![w] = row]
      /\ book' = [book EXCEPT ![w] = row]
  BY <1>1, <1>2 DEF ContentInv, ContentTyped
<1> HIDE DEF row
<1>5. waves' \in [Wave -> Versions] /\ waveDraft' \in [Wave -> Versions] /\ waves' = book'
  BY <1>3, <1>4 DEF ContentInv, ContentTyped
<1>6. \A v \in Wave :
        IF waveHolder[v] = Nobody THEN waveDraft'[v] = waves'[v]
        ELSE waveDraft'[v] = waveDraft[v] /\ waves'[v] = waves[v]
  BY <1>1, <1>4 DEF ContentInv, ContentTyped, HeldAreWritten
<1> QED
  BY <1>1, <1>5, <1>6, ChangeContentInv

LEMMA DeleteContentInv ==
  ASSUME ContentInv, content!WavesAssumption, NEW ids, content!DeleteWaves(ids)
  PROVE  ContentInv'
<1> DEFINE gone == content!ToSet(ids)
<1>1. /\ UNCHANGED <<waveHolder, authoring>>
      /\ waves' = [w \in Wave |-> IF w \in gone THEN Absent ELSE waves[w]]
      /\ waveDraft' = [w \in Wave |-> IF w \in gone THEN Absent ELSE waveDraft[w]]
      /\ book' = [w \in Wave |-> IF w \in gone THEN Absent ELSE book[w]]
      /\ \A w \in gone : waveHolder[w] = Nobody
  BY DEF content!DeleteWaves, content!DeleteRows, content!Key
<1> HIDE DEF gone
<1>2. waves' \in [Wave -> Versions] /\ waveDraft' \in [Wave -> Versions] /\ waves' = book'
  BY <1>1 DEF ContentInv, ContentTyped, Versions
<1>3. \A w \in Wave :
        IF waveHolder[w] = Nobody THEN waveDraft'[w] = waves'[w]
        ELSE waveDraft'[w] = waveDraft[w] /\ waves'[w] = waves[w]
  BY <1>1 DEF ContentInv, HeldAreWritten
<1> QED
  BY <1>1, <1>2, <1>3, ChangeContentInv

LEMMA RequestContentInv ==
  ASSUME ContentInv, content!WavesAssumption, NEW a \in Request, NEW faults,
         content!Ask(a, faults)
  PROVE  ContentInv'
<1>1. ASSUME NEW ds \in Documents, authoring[a].pc = "idle",
             authoring' = [authoring EXCEPT ![a] = [pc |-> "write", todo |-> ds, sent |-> ds]],
             UNCHANGED <<waves, waveDraft, waveHolder, book>>
      PROVE  ContentInv'
  BY <1>1, AskContentInv
<1>2. \A d \in content!Document : <<d>> \in Documents
  BY DEF Documents
<1>3. ASSUME NEW d \in content!Document, content!Create(a, d, faults) PROVE ContentInv'
  BY <1>1, <1>2, <1>3 DEF content!Create, content!rowVars
<1>4. ASSUME NEW path \in Wave, NEW d \in content!Document, content!Replace(a, path, d,
             faults)
      PROVE  ContentInv'
  BY <1>1, <1>2, <1>4 DEF content!Replace, content!rowVars
<1>5. ASSUME NEW ds \in content!Imports, content!Import(a, ds, faults) PROVE ContentInv'
  <2>1. ds \in Documents
    <3>1. ds = <<>> \/ (\E d \in content!Document : ds = <<d>>)
          \/ \E d, e \in content!Document : ds = <<d, e>>
      BY DEF content!Imports
    <3>2. <<>> \in Seq(content!Document)
      OBVIOUS
    <3>3. ASSUME NEW d \in content!Document PROVE <<d>> \in Seq(content!Document)
      OBVIOUS
    <3>4. ASSUME NEW d \in content!Document, NEW e \in content!Document
          PROVE  <<d, e>> \in Seq(content!Document)
      OBVIOUS
    <3> QED
      BY <3>1, <3>2, <3>3, <3>4 DEF Documents
  <2> QED
    BY <1>1, <1>5, <2>1 DEF content!Import, content!rowVars
<1> QED
  BY <1>3, <1>4, <1>5 DEF content!Ask

LEMMA ContentNextInv ==
  ASSUME content!WavesAssumption, ContentInv, [content!Next]_(content!vars)
  PROVE  ContentInv'
<1>1. ASSUME NEW a \in Request, content!Handle(a) PROVE ContentInv'
  BY <1>1, WriteContentInv, CommitContentInv, FailContentInv DEF content!Handle
<1>2. ASSUME NEW a \in Request, NEW faults \in content!Faults, content!Ask(a, faults)
      PROVE  ContentInv'
  BY <1>2, RequestContentInv
<1>3. CASE content!Change
  BY <1>3, PublishContentInv, DeleteContentInv DEF content!Change
<1>4. ASSUME NEW document, NEW faults, content!ReplaceAppConfig(document, faults)
      PROVE  ContentInv'
  BY <1>4
     DEF content!ReplaceAppConfig, content!rowVars, ContentInv, ContentTyped,
     DocumentsAreLeft,
              WrittenAreHeld, HeldAreWritten, Done
<1>5. CASE UNCHANGED content!vars
  BY <1>5 DEF content!vars, content!rowVars, ContentInv, ContentTyped, DocumentsAreLeft,
              WrittenAreHeld, HeldAreWritten, Done
<1> QED
  BY <1>1, <1>2, <1>3, <1>4, <1>5 DEF content!Next

LEMMA ContentStepOrNone == [AppsNext]_appVars => [content!Next]_(content!vars)
BY DEF AppsNext, BoardsStep, GrantsStep, CatalogueStep, CurveStep, ContentStep, appVars,
   contentVars,
       content!vars, content!rowVars

(***************************************************************************)
(* "Every document in one transaction", and "a save is not a publish": the *)
(* waves are those of the requests that were committed, one after another, *)
(* for any number of authors, of waves and of documents (save_all).        *)
(***************************************************************************)
THEOREM CatalogueStaysWhole ==
  ASSUME AppsAssumption
  PROVE  AppsSpec => []CatalogueIsWhole
<1>1. AppsInit => ContentInv
  BY ContentInitInv DEF AppsInit, AppsAssumption
<1>2. ContentInv /\ [AppsNext]_appVars => ContentInv'
  BY ContentNextInv, ContentStepOrNone DEF AppsAssumption
<1>3. ContentInv => CatalogueIsWhole
  BY DEF ContentInv, CatalogueIsWhole, content!CatalogueIsWhole
<1> QED
  BY <1>1, <1>2, <1>3, PTL DEF AppsSpec
====
