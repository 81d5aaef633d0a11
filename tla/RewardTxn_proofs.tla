--------------------------- MODULE RewardTxn_proofs ---------------------------
(***************************************************************************)
(* No update is lost, and no row is left without its player, whatever the  *)
(* clients, players, currencies and requests, and however many statements  *)
(* a request has.  The inductive invariant is VersionsAgree: it says what  *)
(* is in a row that a transaction has written and not yet committed.  The  *)
(* last part shows that RewardTxn implements PlayerLedger.                 *)
(***************************************************************************)
EXTENDS RewardTxn, Numbers

Inv == TypeOK /\ BalanceIsSumOfCommits /\ NoOrphanRows /\ VersionsAgree

(* A client about to run a statement names a row and a positive amount. *)
LEMMA PartType ==
  ASSUME TypeOK, NEW c \in Client, Running(c)
  PROVE  /\ request[c] \in Requests
         /\ Part(c).item \in Item
         /\ Part(c).amount \in 1..MaxStored
         /\ Target(c) \in Key
         /\ Target(c)[1] = request[c].player
         /\ request[c].player \in Player
         /\ request[c].project \in Project
<1>1. request[c] \in Requests /\ at[c] \in Nat /\ at[c] # 0
  BY DEF TypeOK, Running, PartLeft
<1>2. request[c] \in Request
  BY <1>1, RequestsAssumption
<1>3. at[c] \in 1..Len(request[c].parts)
  BY <1>1, <1>2 DEF Running, PartLeft, Request
<1>4. Part(c) \in [item : Item \cup {Misnamed}, amount : 1..MaxStored]
  <2>1. request[c].parts \in Seq([item : Item \cup {Misnamed}, amount : 1..MaxStored])
    BY <1>2 DEF Request
  <2> QED
    BY <1>3, <2>1, ElementOfSeq DEF Part
<1>5. request[c].player \in Player /\ request[c].project \in Project
  BY <1>2 DEF Request
<1>6. Part(c).item \in Item
  BY <1>4 DEF Running
<1> QED
  BY <1>1, <1>4, <1>5, <1>6 DEF Target, Key

LEMMA InitInv == Init => Inv
BY ConstantsAssumption
   DEF Init, AtRest, Nothing, Inv, TypeOK, BalanceIsSumOfCommits, NoOrphanRows,
       VersionsAgree, Amount, Version, Key

(* A transaction that ends without committing leaves the rows as they were. *)
LEMMA RollbackInv ==
  ASSUME Inv, NEW c \in Client, NEW a \in Answers, Rollback(c, a)
  PROVE  Inv'
<1> USE DEF Rollback, RollbackRows, Released, Finish
<1>1. TypeOK'
  BY DEF Inv, TypeOK, Nothing
<1>2. BalanceIsSumOfCommits' /\ NoOrphanRows'
  BY DEF Inv, BalanceIsSumOfCommits, NoOrphanRows, Amount
<1>3. ASSUME NEW k \in Key
      PROVE  /\ holder'[k] = Nobody => draft'[k] = store'[k]
             /\ holder'[k] # Nobody =>
                  /\ phase'[holder'[k]] = "run"
                  /\ draft'[k] # Absent
                  /\ Amount(draft'[k]) = Amount(store'[k]) + added'[holder'[k]][k]
                  /\ store'[k] = Absent => k[1] \in keyShare'[holder'[k]]
  <2>1. CASE holder[k] = c
    BY <2>1
  <2>2. CASE holder[k] # c
    <3>1. holder'[k] = holder[k] /\ draft'[k] = draft[k] /\ store'[k] = store[k]
      BY <2>2
    <3>2. CASE holder[k] = Nobody
      BY <3>1, <3>2 DEF Inv, VersionsAgree
    <3>3. CASE holder[k] # Nobody
      <4> DEFINE d == holder[k]
      <4>1. d \in Client /\ d # c
        BY <2>2, <3>3 DEF Inv, TypeOK
      <4>2. phase'[d] = phase[d] /\ added'[d] = added[d] /\ keyShare'[d] = keyShare[d]
        BY <4>1 DEF Inv, TypeOK
      <4> QED
        BY <3>1, <3>3, <4>2 DEF Inv, VersionsAgree
    <3> QED
      BY <3>2, <3>3
  <2> QED
    BY <2>1, <2>2
<1>4. \A d \in Client, k \in Key : added'[d][k] # 0 => holder'[k] = d
  BY DEF Inv, TypeOK, VersionsAgree, Nothing
<1>5. \A d \in Client : \A p \in keyShare'[d] :
        p \notin removing' /\ home'[p] \in Project
  BY DEF Inv, TypeOK, VersionsAgree
<1> QED
  BY <1>1, <1>2, <1>3, <1>4, <1>5 DEF Inv, VersionsAgree, Amount

(* A statement that writes the newest version plus delta, under the lock. *)
LEMMA ExecutedInv ==
  ASSUME Inv, NEW c \in Client, Running(c), Lockable(c, Target(c)),
         NEW v \in 0..MaxStored, NEW delta \in Int,
         v = Amount(draft[Target(c)]) + delta,
         Executed(c, v, delta),
         \/ keyShare' = keyShare /\ draft[Target(c)] # Absent
         \/ /\ keyShare' = [keyShare EXCEPT ![c] = @ \cup {request[c].player}]
            /\ request[c].player \notin removing
            /\ KnownPlayer(c)
  PROVE  Inv'
<1> DEFINE t == Target(c)
<1>0. /\ t \in Key /\ t[1] = request[c].player
      /\ request[c].player \in Player /\ request[c].project \in Project
  BY PartType DEF Inv
<1> USE DEF Executed, WriteRow
<1>a. /\ added' = [added EXCEPT ![c] = added'[c]]
      /\ added'[c] \in [Key -> Int]
      /\ \A k \in Key : k # t => added'[c][k] = added[c][k]
      /\ added'[c][t] = added[c][t] + delta
  <2> DEFINE row == Raised(added[c], t, delta)
  <2>1. added \in [Client -> [Key -> Int]] /\ added[c] \in [Key -> Int]
    BY DEF Inv, TypeOK
  <2>2. added' = [added EXCEPT ![c] = row]
    OBVIOUS
  <2>3. added'[c] = row
    BY <2>1, <2>2
  <2>4. /\ row \in [Key -> Int]
        /\ \A k \in Key : k # t => row[k] = added[c][k]
        /\ row[t] = added[c][t] + delta
    BY <1>0, <2>1 DEF Raised
  <2> QED
    BY <2>2, <2>3, <2>4
<1>b. /\ keyShare' = [keyShare EXCEPT ![c] = keyShare'[c]]
      /\ keyShare'[c] \in SUBSET Player
      /\ keyShare[c] \subseteq keyShare'[c]
      /\ \A p \in keyShare'[c] : p \notin removing /\ home[p] \in Project
  <2>1. /\ keyShare \in [Client -> SUBSET Player]
        /\ \A p \in keyShare[c] : p \notin removing /\ home[p] \in Project
    BY DEF Inv, TypeOK, VersionsAgree
  <2>2. CASE keyShare' = keyShare
    BY <2>1, <2>2
  <2>3. CASE /\ keyShare' = [keyShare EXCEPT ![c] = @ \cup {request[c].player}]
             /\ request[c].player \notin removing
             /\ KnownPlayer(c)
    <3>1. keyShare'[c] = keyShare[c] \cup {request[c].player}
      BY <2>1, <2>3
    <3>2. home[request[c].player] \in Project
      BY <1>0, <2>3 DEF KnownPlayer
    <3> QED
      BY <1>0, <2>1, <2>3, <3>1, <3>2
  <2> QED
    BY <2>2, <2>3
<1>1. TypeOK'
  <2>1. draft' \in [Key -> Version] /\ holder' \in [Key -> Client \cup {Nobody}]
    BY <1>0 DEF Inv, TypeOK, Version
  <2>2. added' \in [Client -> [Key -> Int]]
    BY <1>a DEF Inv, TypeOK
  <2>3. keyShare' \in [Client -> SUBSET Player]
    BY <1>b DEF Inv, TypeOK
  <2>4. at' \in [Client -> Nat] /\ at'[c] # 0 /\ \A d \in Client : d # c => at'[d] = at[d]
    BY DEF Inv, TypeOK, Running, PartLeft
  <2> QED
    BY <2>1, <2>2, <2>3, <2>4 DEF Inv, TypeOK
<1>2. BalanceIsSumOfCommits' /\ NoOrphanRows'
  BY DEF Inv, BalanceIsSumOfCommits, NoOrphanRows, Amount
<1>3. \A d \in Client : d # c => keyShare'[d] = keyShare[d] /\ added'[d] = added[d]
  BY <1>a, <1>b DEF Inv, TypeOK
<1>4. ASSUME NEW k \in Key
      PROVE  /\ holder'[k] = Nobody => draft'[k] = store'[k]
             /\ holder'[k] # Nobody =>
                  /\ phase'[holder'[k]] = "run"
                  /\ draft'[k] # Absent
                  /\ Amount(draft'[k]) = Amount(store'[k]) + added'[holder'[k]][k]
                  /\ store'[k] = Absent => k[1] \in keyShare'[holder'[k]]
  <2>1. CASE k = t
    <3>1. holder'[t] = c /\ draft'[t] = v /\ store' = store /\ phase' = phase
      BY <1>0 DEF Inv, TypeOK
    <3>2. v # Absent /\ c # Nobody /\ phase[c] = "run"
      BY ConstantsAssumption DEF Running, PartLeft
    <3>3. Amount(draft[t]) = Amount(store[t]) + added[c][t]
      <4>1. CASE holder[t] = c
        BY <1>0, <4>1, ConstantsAssumption DEF Inv, VersionsAgree
      <4>2. CASE holder[t] = Nobody
        <5>1. draft[t] = store[t] /\ added[c][t] = 0
          BY <1>0, <4>2, ConstantsAssumption DEF Inv, VersionsAgree
        <5>2. Amount(store[t]) \in Int
          BY <1>0 DEF Inv, TypeOK, Version, Amount
        <5> QED
          BY <5>1, <5>2
      <4> QED
        BY <4>1, <4>2 DEF Lockable
    <3>4. Amount(v) = Amount(store[t]) + added'[c][t]
      <4>1. Amount(store[t]) \in Int /\ added[c][t] \in Int
        BY <1>0 DEF Inv, TypeOK, Version, Amount
      <4>2. Amount(v) = v
        BY <3>2 DEF Amount
      <4> QED
        BY <1>a, <3>3, <4>1, <4>2
    <3>5. ASSUME store[t] = Absent PROVE t[1] \in keyShare'[c]
      <4>1. CASE draft[t] # Absent
        <5>1. holder[t] = c
          BY <1>0, <3>5, <4>1 DEF Inv, VersionsAgree, Lockable
        <5> QED
          BY <1>0, <1>b, <3>2, <3>5, <5>1 DEF Inv, VersionsAgree
      <4>2. CASE draft[t] = Absent
        BY <1>0, <4>2 DEF Inv, TypeOK
      <4> QED
        BY <4>1, <4>2
    <3> QED
      BY <2>1, <3>1, <3>2, <3>4, <3>5
  <2>2. CASE k # t
    <3>1. holder'[k] = holder[k] /\ draft'[k] = draft[k] /\ store' = store /\ phase' = phase
      BY <1>0, <2>2 DEF Inv, TypeOK
    <3>2. CASE holder[k] # Nobody
      <4>1. holder[k] \in Client
        BY <3>2 DEF Inv, TypeOK
      <4>2. /\ added'[holder[k]][k] = added[holder[k]][k]
            /\ keyShare[holder[k]] \subseteq keyShare'[holder[k]]
        BY <1>a, <1>b, <1>3, <2>2, <4>1
      <4> QED
        BY <3>1, <3>2, <4>2 DEF Inv, VersionsAgree
    <3>3. CASE holder[k] = Nobody
      BY <3>1, <3>3 DEF Inv, VersionsAgree
    <3> QED
      BY <3>2, <3>3
  <2> QED
    BY <2>1, <2>2
<1>5. ASSUME NEW d \in Client, NEW k \in Key, added'[d][k] # 0
      PROVE  holder'[k] = d
  <2>1. holder'[k] = IF k = t THEN c ELSE holder[k]
    BY <1>0 DEF Inv, TypeOK
  <2>2. CASE d = c
    BY <1>a, <1>5, <2>1, <2>2 DEF Inv, VersionsAgree
  <2>3. CASE d # c
    <3>1. holder[k] = d
      BY <1>3, <1>5, <2>3 DEF Inv, VersionsAgree
    <3> QED
      BY <2>1, <2>3, <3>1, ConstantsAssumption DEF Lockable
  <2> QED
    BY <2>2, <2>3
<1>6. \A d \in Client : \A p \in keyShare'[d] :
        p \notin removing' /\ home'[p] \in Project
  BY <1>b, <1>3 DEF Inv, VersionsAgree
<1> QED
  BY <1>1, <1>2, <1>4, <1>5, <1>6 DEF Inv, VersionsAgree, Amount

(* Every statement either writes under the lock or ends the transaction. *)
LEMMA StatementInv ==
  ASSUME Inv, NEW c \in Client, Statement(c)
  PROVE  Inv'
<1>1. CASE AddToRow(c)
  <2>1. /\ Running(c) /\ Lockable(c, Target(c)) /\ draft[Target(c)] # Absent
        /\ Fits(c) /\ keyShare' = keyShare
        /\ Executed(c, draft[Target(c)] + Part(c).amount, Part(c).amount)
    BY <1>1 DEF AddToRow, RowFound, Crediting
  <2>2. /\ Part(c).amount \in 1..MaxStored
        /\ draft[Target(c)] \in 0..MaxStored
    BY <2>1, PartType DEF Inv, TypeOK, Version
  <2>3. draft[Target(c)] + Part(c).amount \in 0..MaxStored
    BY <2>1, <2>2, ConstantsAssumption DEF Fits
  <2> QED
    BY <2>1, <2>2, <2>3, ExecutedInv DEF Amount
<1>2. CASE InsertRow(c)
  <2>1. /\ Running(c) /\ Lockable(c, Target(c)) /\ draft[Target(c)] = Absent
        /\ KnownPlayer(c) /\ request[c].player \notin removing
        /\ keyShare' = [keyShare EXCEPT ![c] = @ \cup {request[c].player}]
        /\ Executed(c, Part(c).amount, Part(c).amount)
    BY <1>2 DEF InsertRow, RowMissing, Crediting
  <2>2. Part(c).amount \in 1..MaxStored
    BY <2>1, PartType DEF Inv
  <2>3. /\ Part(c).amount \in 0..MaxStored /\ Part(c).amount \in Int
        /\ Part(c).amount = Amount(draft[Target(c)]) + Part(c).amount
    BY <2>1, <2>2, ConstantsAssumption DEF Amount
  <2> QED
    BY <2>1, <2>3, ExecutedInv
<1>3. CASE SubtractFromRow(c)
  <2>1. /\ Running(c) /\ Lockable(c, Target(c)) /\ store[Target(c)] # Absent
        /\ Covers(c) /\ keyShare' = keyShare
        /\ Executed(c, draft[Target(c)] - Part(c).amount, -Part(c).amount)
    BY <1>3 DEF SubtractFromRow, RowToSpend, Spending
  <2>2. Target(c) \in Key /\ Part(c).amount \in 1..MaxStored
    BY <2>1, PartType DEF Inv
  <2>3. draft[Target(c)] # Absent
    BY <2>1, <2>2 DEF Inv, VersionsAgree
  <2>4. draft[Target(c)] \in 0..MaxStored
    BY <2>2, <2>3 DEF Inv, TypeOK, Version
  <2>5. /\ draft[Target(c)] - Part(c).amount \in 0..MaxStored
        /\ -Part(c).amount \in Int
        /\ draft[Target(c)] - Part(c).amount
             = draft[Target(c)] + (-Part(c).amount)
    BY <2>1, <2>2, <2>4, ConstantsAssumption DEF Covers
  <2> QED
    BY <2>1, <2>3, <2>5, ExecutedInv DEF Amount
<1>4. CASE RefuseCode(c) \/ RefuseTooLarge(c) \/ RefuseOtherProject(c)
           \/ RefuseForeignKey(c) \/ RefuseNotEnough(c)
  <2>1. \E a \in Answers : Rollback(c, a)
    BY <1>4 DEF RefuseCode, RefuseTooLarge, RefuseOtherProject,
                RefuseForeignKey, RefuseNotEnough, Answers
  <2> QED
    BY <2>1, RollbackInv
<1> QED
  BY <1>1, <1>2, <1>3, <1>4 DEF Statement

(* An idle client holds no lock, so what it starts from is the committed rows. *)
LEMMA ReceiveInv ==
  ASSUME Inv, NEW c \in Client, NEW r \in Requests, Receive(c, r)
  PROVE  Inv'
<1> USE DEF Receive, rowVars
<1>1. TypeOK'
  BY DEF Inv, TypeOK
<1>2. \A k \in Key : holder[k] # Nobody => phase'[holder[k]] = "run"
  BY DEF Inv, TypeOK, VersionsAgree
<1> QED
  BY <1>1, <1>2
     DEF Inv, BalanceIsSumOfCommits, NoOrphanRows, VersionsAgree, Amount

LEMMA FindPlayerInv ==
  ASSUME Inv, NEW c \in Client, FindPlayer(c)
  PROVE  Inv'
<1>1. CASE Rollback(c, "NoSuchPlayer")
  BY <1>1, RollbackInv DEF Answers
<1>2. CASE /\ phase' = [phase EXCEPT ![c] = "run"]
           /\ UNCHANGED <<rowVars, home, removing, keyShare, request, at,
                          answer, added, credited>>
  <2>1. TypeOK'
    BY <1>2 DEF Inv, TypeOK, FindPlayer, rowVars
  <2>2. \A k \in Key : holder[k] # Nobody => phase'[holder[k]] = "run"
    BY <1>2 DEF Inv, TypeOK, VersionsAgree
  <2> QED
    BY <1>2, <2>1, <2>2
       DEF Inv, BalanceIsSumOfCommits, NoOrphanRows, VersionsAgree, Amount, rowVars
<1> QED
  BY <1>1, <1>2 DEF FindPlayer

(* Committing turns what was added into what is credited, row by row. *)
LEMMA CommitInv ==
  ASSUME Inv, NEW c \in Client, Commit(c)
  PROVE  Inv'
<1>0. PICK a \in {"ok", "lost"} : Finish(c, a)
  BY DEF Commit
<1>a. /\ CommitRows(c) /\ phase[c] = "run"
      /\ credited' = [k \in Key |-> credited[k] + added[c][k]]
  BY DEF Commit
<1> USE DEF CommitRows, Released, Finish
<1>1. TypeOK'
  BY <1>0, <1>a DEF Inv, TypeOK, Nothing, Answers
<1>2. ASSUME NEW k \in Key
      PROVE  Amount(store'[k]) = credited'[k]
  <2>1. Amount(store[k]) = credited[k] /\ credited'[k] = credited[k] + added[c][k]
    BY <1>a DEF Inv, BalanceIsSumOfCommits
  <2>2. credited[k] \in Int /\ added[c][k] \in Int
    BY DEF Inv, TypeOK
  <2>3. CASE holder[k] = c
    <3>1. Amount(draft[k]) = Amount(store[k]) + added[c][k] /\ store'[k] = draft[k]
      BY <1>a, <2>3, ConstantsAssumption DEF Inv, VersionsAgree
    <3> QED
      BY <2>1, <3>1
  <2>4. CASE holder[k] # c
    <3>1. added[c][k] = 0 /\ store'[k] = store[k]
      BY <1>a, <2>4 DEF Inv, VersionsAgree
    <3> QED
      BY <2>1, <2>2, <3>1
  <2> QED
    BY <2>3, <2>4
<1>3. ASSUME NEW k \in Key, store'[k] # Absent
      PROVE  home'[k[1]] \in Project
  <2>1. CASE store[k] # Absent
    BY <1>0, <2>1 DEF Inv, NoOrphanRows
  <2>2. CASE store[k] = Absent
    <3>1. holder[k] = c
      BY <1>a, <1>3, <2>2
    <3> QED
      BY <1>0, <2>2, <3>1, ConstantsAssumption DEF Inv, VersionsAgree
  <2> QED
    BY <2>1, <2>2
<1>4. ASSUME NEW k \in Key
      PROVE  /\ holder'[k] = Nobody => draft'[k] = store'[k]
             /\ holder'[k] # Nobody =>
                  /\ phase'[holder'[k]] = "run"
                  /\ draft'[k] # Absent
                  /\ Amount(draft'[k]) = Amount(store'[k]) + added'[holder'[k]][k]
                  /\ store'[k] = Absent => k[1] \in keyShare'[holder'[k]]
  <2>1. CASE holder[k] = c
    BY <1>a, <2>1
  <2>2. CASE holder[k] # c
    <3>1. holder'[k] = holder[k] /\ draft'[k] = draft[k] /\ store'[k] = store[k]
      BY <1>a, <2>2
    <3>2. CASE holder[k] = Nobody
      BY <3>1, <3>2 DEF Inv, VersionsAgree
    <3>3. CASE holder[k] # Nobody
      <4>1. holder[k] \in Client /\ holder[k] # c
        BY <2>2, <3>3 DEF Inv, TypeOK
      <4>2. /\ phase'[holder[k]] = phase[holder[k]]
            /\ added'[holder[k]] = added[holder[k]]
            /\ keyShare'[holder[k]] = keyShare[holder[k]]
        BY <1>0, <4>1 DEF Inv, TypeOK
      <4> QED
        BY <3>1, <3>3, <4>2 DEF Inv, VersionsAgree
    <3> QED
      BY <3>2, <3>3
  <2> QED
    BY <2>1, <2>2
<1>5. \A d \in Client, k \in Key : added'[d][k] # 0 => holder'[k] = d
  BY <1>0, <1>a DEF Inv, TypeOK, VersionsAgree, Nothing
<1>6. \A d \in Client : \A p \in keyShare'[d] :
        p \notin removing' /\ home'[p] \in Project
  BY <1>0 DEF Inv, TypeOK, VersionsAgree
<1> QED
  BY <1>1, <1>2, <1>3, <1>4, <1>5, <1>6
     DEF Inv, BalanceIsSumOfCommits, NoOrphanRows, VersionsAgree, Amount

(* A delete takes the player's row only when no insert holds it, so a row   *)
(* still uncommitted when the player goes can only be one it waited for.    *)
LEMMA RemovalInv ==
  ASSUME Inv, NEW p \in Player,
         BeginRemoval(p) \/ FinishRemoval(p) \/ CancelRemoval(p)
  PROVE  Inv'
<1>1. CASE BeginRemoval(p) \/ CancelRemoval(p)
  <2>1. UNCHANGED <<store, draft, holder, home, keyShare, phase, request, at,
                    answer, added, credited>>
    BY <1>1 DEF BeginRemoval, CancelRemoval, rowVars, txnVars
  <2>2. removing' \in SUBSET Player
    BY <1>1 DEF BeginRemoval, CancelRemoval, Inv, TypeOK
  <2>3. \A c \in Client : \A q \in keyShare[c] : q \notin removing'
    BY <1>1 DEF BeginRemoval, CancelRemoval, Inv, VersionsAgree
  <2> QED
    BY <2>1, <2>2, <2>3
       DEF Inv, TypeOK, BalanceIsSumOfCommits, NoOrphanRows, VersionsAgree, Amount
<1>2. CASE FinishRemoval(p)
  <2> USE DEF FinishRemoval, DeleteRows, txnVars
  <2>1. TypeOK'
    BY <1>2 DEF Inv, TypeOK, Version
  <2>2. \A c \in Client : p \notin keyShare[c]
    BY <1>2 DEF Inv, VersionsAgree
  <2>3. \A k \in Key : Amount(store'[k]) = credited'[k]
    BY <1>2 DEF Inv, BalanceIsSumOfCommits, Amount
  <2>4. \A k \in Key : store'[k] # Absent => home'[k[1]] \in Project
    BY <1>2 DEF Inv, TypeOK, NoOrphanRows, RowsOf
  <2>5. ASSUME NEW k \in Key
        PROVE  /\ holder'[k] = Nobody => draft'[k] = store'[k]
               /\ holder'[k] # Nobody =>
                    /\ phase'[holder'[k]] = "run"
                    /\ draft'[k] # Absent
                    /\ Amount(draft'[k]) = Amount(store'[k]) + added'[holder'[k]][k]
                    /\ store'[k] = Absent => k[1] \in keyShare'[holder'[k]]
    <3>1. CASE k \in RowsOf(p)
      BY <1>2, <3>1
    <3>2. CASE k \notin RowsOf(p)
      BY <1>2, <3>2 DEF Inv, VersionsAgree
    <3> QED
      BY <3>1, <3>2
  <2>6. \A c \in Client, k \in Key : added'[c][k] # 0 => holder'[k] = c
    BY <1>2 DEF Inv, VersionsAgree
  <2>7. \A c \in Client : \A q \in keyShare'[c] :
          q \notin removing' /\ home'[q] \in Project
    BY <1>2, <2>2 DEF Inv, TypeOK, VersionsAgree
  <2> QED
    BY <2>1, <2>3, <2>4, <2>5, <2>6, <2>7
       DEF Inv, BalanceIsSumOfCommits, NoOrphanRows, VersionsAgree, Amount
<1> QED
  BY <1>1, <1>2

LEMMA NextInv == Inv /\ [Next]_vars => Inv'
<1> SUFFICES ASSUME Inv, [Next]_vars PROVE Inv'
  OBVIOUS
<1>1. ASSUME NEW c \in Client, ClientStep(c) PROVE Inv'
  <2>1. CASE Fail(c) \/ DeadlockAbort(c)
    BY <2>1, RollbackInv DEF Fail, DeadlockAbort, Answers
  <2> QED
    BY <1>1, <2>1, ReceiveInv, FindPlayerInv, StatementInv, CommitInv DEF ClientStep
<1>2. ASSUME NEW p \in Player,
             BeginRemoval(p) \/ FinishRemoval(p) \/ CancelRemoval(p)
      PROVE  Inv'
  BY <1>2, RemovalInv
<1>3. CASE UNCHANGED vars
  BY <1>3 DEF Inv, TypeOK, BalanceIsSumOfCommits, NoOrphanRows, VersionsAgree,
              Amount, vars
<1> QED
  BY <1>1, <1>2, <1>3 DEF Next

(* Inv holds in every state: the four invariants of rewards rest on it. *)
THEOREM InvAlways == Spec => []Inv
BY InitInv, NextInv, PTL DEF Spec

(* Whatever happens, the variables keep their types; in particular a stored *)
(* amount is never negative and never larger than the column can hold.      *)
THEOREM TypeCorrect == Spec => []TypeOK
<1>1. Inv => TypeOK
  BY DEF Inv
<1> QED
  BY <1>1, InvAlways, PTL

(* No grant, spend or award is lost or applied twice, for any number of     *)
(* clients, players, currencies and statements of a reward.                 *)
THEOREM NoLostUpdate == Spec => []BalanceIsSumOfCommits
<1>1. Inv => BalanceIsSumOfCommits
  BY DEF Inv
<1> QED
  BY <1>1, InvAlways, PTL

(* No balance outlives its player, and none is created as the player goes. *)
THEOREM RowsHavePlayers == Spec => []NoOrphanRows
<1>1. Inv => NoOrphanRows
  BY DEF Inv
<1> QED
  BY <1>1, InvAlways, PTL

(* What an open transaction has written is the committed amount plus what   *)
(* it added: the arithmetic is always done on the newest version.           *)
THEOREM NewestVersions == Spec => []VersionsAgree
<1>1. Inv => VersionsAgree
  BY DEF Inv
<1> QED
  BY <1>1, InvAlways, PTL

(* A reward of any length is kept or lost whole, XP and currencies alike. *)
THEOREM RewardIsWhole == Spec => WholeOrNothing
<1> DEFINE Moves(k) == \/ store'[k] = Absent /\ home'[k[1]] = Gone
                       \/ holder[k] \in Client /\ CommitsWhole(holder[k])
<1>1. ASSUME TypeOK, [Next]_vars, NEW k \in Key, store'[k] # store[k]
      PROVE  Moves(k)
  <2>1. ASSUME NEW c \in Client, Commit(c) PROVE Moves(k)
    <3>1. holder[k] = c /\ CommitsWhole(c)
      BY <1>1, <2>1 DEF Commit, CommitRows, Finish, CommitsWhole, TypeOK
    <3> QED
      BY <2>1, <3>1
  <2>2. ASSUME NEW c \in Client, ClientStep(c), ~Commit(c) PROVE store' = store
    BY <2>2 DEF ClientStep, Receive, FindPlayer, Statement, Fail, DeadlockAbort,
         RefuseCode, AddToRow, RefuseTooLarge, RefuseOtherProject, InsertRow,
         RefuseForeignKey, SubtractFromRow, RefuseNotEnough, Executed, WriteRow,
         Rollback, RollbackRows, rowVars
  <2>3. ASSUME NEW p \in Player, FinishRemoval(p) PROVE Moves(k)
    <3>1. k[1] = p /\ store'[k] = Absent
      BY <1>1, <2>3 DEF FinishRemoval, DeleteRows, RowsOf
    <3>2. home'[p] = Gone
      BY <1>1, <2>3 DEF FinishRemoval, TypeOK
    <3> QED
      BY <3>1, <3>2
  <2>4. ASSUME NEW p \in Player, BeginRemoval(p) \/ CancelRemoval(p)
        PROVE  store' = store
    BY <2>4 DEF BeginRemoval, CancelRemoval, rowVars
  <2>5. UNCHANGED vars => store' = store
    BY DEF vars
  <2> QED
    BY <1>1, <2>1, <2>2, <2>3, <2>4, <2>5 DEF Next
<1>2. TypeOK /\ [Next]_vars => [\A k \in Key : store'[k] # store[k] => Moves(k)]_vars
  BY <1>1
<1> QED
  BY <1>2, TypeCorrect, PTL DEF Spec, WholeOrNothing
-----------------------------------------------------------------------------
(***************************************************************************)
(* RewardTxn implements PlayerLedger.  What PlayerLedger applies in a step *)
(* is put together statement by statement, and refused for a reason that   *)
(* has to be true of the committed rows.  So the invariant says what every *)
(* open transaction has come to: what it added is what the parts it has    *)
(* run come to, it holds the rows of those parts and no others, and its    *)
(* player is still there.                                                  *)
(***************************************************************************)
Signed(r, n) == IF r.kind = "spend" THEN -n ELSE n

SoFar(c) ==
  LET r == request[c]
  IN /\ at[c] \in 1..(Len(r.parts) + 1)
     /\ \A k \in Key :
          added[c][k] =
            IF k[1] = r.player THEN Signed(r, Ledger!DueOf(r, k[2], at[c] - 1)) ELSE 0
     /\ \A i \in 1..(at[c] - 1) :
          r.parts[i].item \in Item /\ holder[<<r.player, r.parts[i].item>>] = c
     /\ \A k \in Key : holder[k] = c =>
          k[1] = r.player /\ \E i \in 1..(at[c] - 1) : r.parts[i].item = k[2]
     /\ at[c] > 1 => KnownPlayer(c)

RunsAreSoFar == \A c \in Client : phase[c] = "run" => SoFar(c)

Served ==
  /\ \A c \in Client : phase[c] = "idle" => request[c] = None
  /\ \A c \in Client : phase[c] = "find" => at[c] = 1
  /\ \A p \in removing : home[p] # Gone
  /\ RunsAreSoFar
-----------------------------------------------------------------------------
LEMMA RequestType ==
  ASSUME NEW r \in Requests
  PROVE  /\ r \in Request /\ r.player \in Player /\ r.project \in Project
         /\ Len(r.parts) \in Nat /\ r # None
         /\ r.kind # "reward" => Len(r.parts) = 1 /\ r.parts[1].item \in Currency
<1>1. r \in Request
  BY RequestsAssumption
<1> QED
  BY <1>1, RequestsAssumption, ConstantsAssumption DEF Request

LEMMA PartOfRequest ==
  ASSUME NEW r \in Requests, NEW n \in 1..Len(r.parts)
  PROVE  r.parts[n].item \in Item \cup {Misnamed} /\ r.parts[n].amount \in 1..MaxStored
<1>1. r.parts \in Seq([item : Item \cup {Misnamed}, amount : 1..MaxStored])
  BY RequestsAssumption DEF Request
<1>2. r.parts[n] \in [item : Item \cup {Misnamed}, amount : 1..MaxStored]
  BY <1>1, ElementOfSeq
<1> QED
  BY <1>2

(* What the parts of a request come to is the sum it looks like. *)
LEMMA DueSteps ==
  ASSUME NEW r \in Requests, NEW i
  PROVE  /\ Ledger!DueOf(r, i, 0) = 0
         /\ \A n \in 0..Len(r.parts) : Ledger!DueOf(r, i, n) \in Nat
         /\ \A n \in 1..Len(r.parts) :
              Ledger!DueOf(r, i, n)
                = Ledger!DueOf(r, i, n - 1) + Ledger!Paid(r.parts[n], i)
<1> DEFINE L == Len(r.parts)
           paid(m) == Ledger!Paid(r.parts[m], i)
           step == [m \in 1..L |-> [s \in Nat |-> s + paid(m)]]
           due[m \in 0..L] == IF m = 0 THEN 0 ELSE due[m - 1] + paid(m)
<1>1. L \in Nat
  BY RequestType
<1>2. \A m \in 1..L : paid(m) \in Nat
  <2> SUFFICES ASSUME NEW m \in 1..L PROVE r.parts[m].amount \in Nat
    BY DEF Ledger!Paid
  <2> QED
    BY PartOfRequest, ConstantsAssumption
<1>3. \A n : Ledger!DueOf(r, i, n) = due[n]
  BY DEF Ledger!DueOf
<1>4. due = CHOOSE g : g = [m \in 0..L |-> IF m = 0 THEN 0 ELSE g[m - 1] + paid(m)]
  OBVIOUS
<1> HIDE DEF due, paid, L
<1>5. step \in [1..L -> [Nat -> Nat]]
  BY <1>2
<1>6. \A m \in 1..L, s \in Nat : step[m][s] = s + paid(m)
  OBVIOUS
<1> HIDE DEF step
<1>7. PICK g \in [0..L -> Nat] : g[0] = 0 /\ \A m \in 1..L : g[m] = step[m][g[m - 1]]
  <2>1. 0 \in Nat
    OBVIOUS
  <2>2. Recurs(L, Nat, 0, step)
    BY <1>1, <1>5, <2>1, Recursion
  <2> QED
    BY <2>2 DEF Recurs
<1>8. g = [m \in 0..L |-> IF m = 0 THEN 0 ELSE g[m - 1] + paid(m)]
  <2>1. \A m \in 1..L : m - 1 \in 0..L /\ g[m - 1] \in Nat
    <3>1. \A m \in 1..L : m - 1 \in 0..L
      BY <1>1
    <3> QED
      BY <1>7, <3>1
  <2>2. \A m \in 1..L : g[m] = g[m - 1] + paid(m)
    BY <1>6, <1>7, <2>1
  <2>3. \A m \in 0..L : m = 0 \/ m \in 1..L
    BY <1>1
  <2>4. \A m \in 0..L : g[m] = IF m = 0 THEN 0 ELSE g[m - 1] + paid(m)
    BY <1>7, <2>2, <2>3
  <2> QED
    BY <1>7, <2>4
<1>9. due = [m \in 0..L |-> IF m = 0 THEN 0 ELSE due[m - 1] + paid(m)]
  BY <1>4, <1>8, Zenon
<1>10. due[0] = 0 /\ \A m \in 1..L : due[m] = due[m - 1] + paid(m)
  BY <1>1, <1>9
<1>11. \A n \in 0..L : due[n] \in Nat
  <2> DEFINE T == {n \in 0..L : due[n] \in Nat}
  <2>1. 0 \in T /\ \A n \in 1..L : n - 1 \in T => n \in T
    BY <1>1, <1>2, <1>10
  <2> HIDE DEF T
  <2>2. \A n \in 0..L : n \in T
    BY <1>1, <2>1, UpTo
  <2> QED
    BY <2>2 DEF T
<1> QED
  BY <1>3, <1>10, <1>11 DEF L, paid

(* Further parts only add to it. *)
LEMMA DueGrows ==
  ASSUME NEW r \in Requests, NEW i, NEW n \in 0..Len(r.parts)
  PROVE  Ledger!DueOf(r, i, n) <= Ledger!Due(r, i)
<1> DEFINE L == Len(r.parts)
           due(m) == Ledger!DueOf(r, i, m)
           T == {m \in 0..(L - n) : due(n) <= due(n + m)}
<1>1. L \in Nat /\ n \in Nat /\ L - n \in Nat /\ n <= L
  BY RequestType
<1>2. ASSUME NEW m \in 1..(L - n)
      PROVE  due(n + m) = due(n + (m - 1)) + Ledger!Paid(r.parts[n + m], i)
  <2>1. n + m \in 1..L /\ n + m - 1 = n + (m - 1)
    BY <1>1
  <2>2. \A j \in 1..L : due(j) = due(j - 1) + Ledger!Paid(r.parts[j], i)
    BY DueSteps
  <2> HIDE DEF due, L
  <2>3. due(n + m) = due(n + m - 1) + Ledger!Paid(r.parts[n + m], i)
    BY <2>1, <2>2
  <2> QED
    BY <2>1, <2>3
<1>3. \A m \in 0..L : due(m) \in Nat
  BY DueSteps
<1>4. \A m \in 1..L : Ledger!Paid(r.parts[m], i) \in Nat
  <2> SUFFICES ASSUME NEW m \in 1..L PROVE r.parts[m].amount \in Nat
    BY DEF Ledger!Paid
  <2> QED
    BY PartOfRequest, ConstantsAssumption
<1> HIDE DEF due, L
<1>5. 0 \in T
  <2>1. n + 0 = n /\ n \in 0..L /\ 0 \in 0..(L - n)
    BY <1>1
  <2> QED
    BY <1>3, <2>1
<1>6. ASSUME NEW m \in 1..(L - n), m - 1 \in T PROVE m \in T
  <2>1. /\ n + m \in 1..L /\ n + m \in 0..L /\ n + (m - 1) \in 0..L
        /\ m \in 0..(L - n) /\ n \in 0..L
    BY <1>1
  <2>2. due(n) <= due(n + (m - 1))
    BY <1>6
  <2>3. /\ due(n) \in Nat /\ due(n + (m - 1)) \in Nat /\ due(n + m) \in Nat
        /\ Ledger!Paid(r.parts[n + m], i) \in Nat
    BY <1>3, <1>4, <2>1
  <2>4. due(n) <= due(n + m)
    BY <1>2, <2>2, <2>3
  <2> QED
    BY <2>1, <2>4
<1> HIDE DEF T
<1>7. \A m \in 0..(L - n) : m \in T
  BY <1>1, <1>5, <1>6, UpTo
<1>8. L - n \in 0..(L - n) /\ n + (L - n) = L
  BY <1>1
<1>9. due(n) <= due(L)
  BY <1>7, <1>8 DEF T
<1> QED
  BY <1>9 DEF due, L, Ledger!Due
-----------------------------------------------------------------------------
(* What a statement is about to write is what the request comes to so far,  *)
(* and no more than the whole of it.                                        *)
LEMMA StatementSoFar ==
  ASSUME Inv, Served, NEW c \in Client, Running(c), Lockable(c, Target(c))
  PROVE  LET r == request[c]
             k == Target(c)
         IN /\ Ledger!DueOf(r, k[2], at[c] - 1) \in Nat
            /\ Amount(draft[k])
                 = Amount(store[k]) + Signed(r, Ledger!DueOf(r, k[2], at[c] - 1))
            /\ Ledger!DueOf(r, k[2], at[c] - 1) + Part(c).amount <= Ledger!Due(r, k[2])
<1> DEFINE r == request[c]
           k == Target(c)
           before == Ledger!DueOf(r, k[2], at[c] - 1)
<1>1. /\ r \in Requests /\ k \in Key /\ k[1] = r.player /\ k[2] = r.parts[at[c]].item
      /\ Part(c) = r.parts[at[c]] /\ Part(c).amount \in Nat
  BY PartType, ConstantsAssumption DEF Inv, Target, Part
<1>2. Len(r.parts) \in Nat
  BY <1>1, RequestType
<1>3. at[c] \in 1..Len(r.parts) /\ at[c] - 1 \in 0..Len(r.parts) /\ at[c] \in 0..Len(r.parts)
  <2>1. at[c] \in Nat /\ at[c] # 0 /\ at[c] <= Len(r.parts)
    BY DEF Running, PartLeft, Inv, TypeOK
  <2> QED
    BY <1>2, <2>1
<1>4. before \in Nat
  BY <1>1, <1>3, DueSteps
<1>5. added[c][k] = Signed(r, before)
  BY <1>1 DEF Served, RunsAreSoFar, SoFar, Running, PartLeft
<1>6. Amount(draft[k]) = Amount(store[k]) + added[c][k]
  <2>1. CASE holder[k] = c
    <3>1. holder[k] # Nobody
      BY <2>1, ConstantsAssumption
    <3> QED
      BY <1>1, <2>1, <3>1 DEF Inv, VersionsAgree
  <2>2. CASE holder[k] = Nobody
    <3>1. draft[k] = store[k] /\ added[c][k] = 0
      BY <1>1, <2>2, ConstantsAssumption DEF Inv, VersionsAgree
    <3>2. Amount(store[k]) \in Int
      BY <1>1, ConstantsAssumption DEF Inv, TypeOK, Version, Amount
    <3> QED
      BY <3>1, <3>2
  <2> QED
    BY <2>1, <2>2 DEF Lockable
<1>7. before + Part(c).amount = Ledger!DueOf(r, k[2], at[c])
  <2>1. Ledger!DueOf(r, k[2], at[c]) = before + Ledger!Paid(r.parts[at[c]], k[2])
    BY <1>1, <1>3, DueSteps
  <2> QED
    BY <1>1, <2>1 DEF Ledger!Paid
<1>8. Ledger!DueOf(r, k[2], at[c]) <= Ledger!Due(r, k[2])
  BY <1>1, <1>3, DueGrows
<1> HIDE DEF before
<1> QED
  BY <1>4, <1>5, <1>6, <1>7, <1>8 DEF before

(* What the row would hold after the whole request. *)
LEMMA WholeIsMore ==
  ASSUME Inv, Served, NEW c \in Client, Running(c), Lockable(c, Target(c))
  PROVE  LET k == Target(c)
         IN /\ Amount(draft[k]) \in Nat /\ Part(c).amount \in Nat
            /\ Ledger!After(request[c], k) \in Int
            /\ Crediting(c) =>
                 Ledger!After(request[c], k) >= Amount(draft[k]) + Part(c).amount
            /\ Spending(c) =>
                 Ledger!After(request[c], k) <= Amount(draft[k]) - Part(c).amount
<1> DEFINE r == request[c]
           k == Target(c)
           before == Ledger!DueOf(r, k[2], at[c] - 1)
           due == Ledger!Due(r, k[2])
<1>1. /\ r \in Requests /\ k \in Key /\ Part(c).amount \in Nat
  BY PartType, ConstantsAssumption DEF Inv
<1>2. Amount(store[k]) \in Nat /\ Amount(draft[k]) \in Nat
  BY <1>1, ConstantsAssumption DEF Inv, TypeOK, Version, Amount
<1>3. due \in Nat
  <2>1. Len(r.parts) \in 0..Len(r.parts)
    BY <1>1, RequestType
  <2> QED
    BY <1>1, <2>1, DueSteps DEF Ledger!Due
<1>4. /\ before \in Nat /\ Amount(draft[k]) = Amount(store[k]) + Signed(r, before)
      /\ before + Part(c).amount <= due
  BY StatementSoFar
<1>5. Ledger!After(r, k)
        = IF r.kind = "spend" THEN Amount(store[k]) - due ELSE Amount(store[k]) + due
  BY DEF Ledger!After, Ledger!Amount, Amount
<1>6. (Crediting(c) => r.kind # "spend") /\ (Spending(c) => r.kind = "spend")
  BY DEF Crediting, Spending
<1> HIDE DEF before, due, k, r
<1>7. CASE r.kind = "spend"
  <2>1. Amount(draft[k]) = Amount(store[k]) - before
    BY <1>2, <1>4, <1>7 DEF Signed
  <2>2. Ledger!After(r, k) = Amount(store[k]) - due
    BY <1>5, <1>7
  <2>3. Ledger!After(r, k) \in Int /\ Ledger!After(r, k) <= Amount(draft[k]) - Part(c).amount
    BY <1>1, <1>2, <1>3, <1>4, <2>1, <2>2
  <2> QED
    BY <1>1, <1>2, <1>6, <1>7, <2>3 DEF k, r
<1>8. CASE r.kind # "spend"
  <2>1. Amount(draft[k]) = Amount(store[k]) + before
    BY <1>2, <1>4, <1>8 DEF Signed
  <2>2. Ledger!After(r, k) = Amount(store[k]) + due
    BY <1>5, <1>8
  <2>3. Ledger!After(r, k) \in Int /\ Ledger!After(r, k) >= Amount(draft[k]) + Part(c).amount
    BY <1>1, <1>2, <1>3, <1>4, <2>1, <2>2
  <2> QED
    BY <1>1, <1>2, <1>6, <1>8, <2>3 DEF k, r
<1> QED
  BY <1>7, <1>8
-----------------------------------------------------------------------------
(* A transaction whose rows nobody takes goes on from where it was. *)
LEMMA OthersSoFar ==
  ASSUME NEW c \in Client, SoFar(c),
         request'[c] = request[c], at'[c] = at[c], added'[c] = added[c],
         \A k \in Key : holder'[k] = c <=> holder[k] = c,
         request[c] \in Requests, at[c] > 1 => KnownPlayer(c)'
  PROVE  SoFar(c)'
<1>1. \A i \in 1..(at[c] - 1) :
        request[c].parts[i].item \in Item =>
          <<request[c].player, request[c].parts[i].item>> \in Key
  BY RequestType DEF Key
<1> QED
  BY <1>1 DEF SoFar

LEMMA ServedInit == ASSUME Init PROVE Served
BY DEF Init, Served, RunsAreSoFar

LEMMA EndServed ==
  ASSUME Inv, Served, NEW c \in Client, NEW a, Finish(c, a), holder' = Released(c)
  PROVE  Served'
<1>1. /\ phase'[c] = "idle" /\ request'[c] = None /\ UNCHANGED <<home, removing>>
      /\ \A d \in Client \ {c} :
           /\ phase'[d] = phase[d] /\ request'[d] = request[d]
           /\ at'[d] = at[d] /\ added'[d] = added[d]
  BY DEF Finish, Inv, TypeOK
<1>2. ASSUME NEW d \in Client, phase'[d] = "run" PROVE SoFar(d)'
  <2>1. d # c /\ phase[d] = "run" /\ request[d] \in Requests
    BY <1>1, <1>2 DEF Inv, TypeOK
  <2>2. SoFar(d)
    BY <2>1 DEF Served, RunsAreSoFar
  <2>3. \A k \in Key : holder'[k] = d <=> holder[k] = d
    BY <2>1, ConstantsAssumption DEF Released
  <2>4. at[d] > 1 => KnownPlayer(d)'
    BY <1>1, <2>1, <2>2 DEF SoFar, KnownPlayer
  <2> QED
    BY <1>1, <2>1, <2>2, <2>3, <2>4, OthersSoFar
<1>3. \A d \in Client : phase'[d] = "idle" => request'[d] = None
  BY <1>1 DEF Served
<1>4. \A d \in Client : phase'[d] = "find" => at'[d] = 1
  BY <1>1 DEF Served
<1> QED
  BY <1>1, <1>2, <1>3, <1>4 DEF Served, RunsAreSoFar

LEMMA RollbackServed ==
  ASSUME Inv, Served, NEW c \in Client, NEW a, Rollback(c, a)
  PROVE  Served'
BY EndServed DEF Rollback, RollbackRows

LEMMA CommitServed ==
  ASSUME Inv, Served, NEW c \in Client, Commit(c)
  PROVE  Served'
BY EndServed DEF Commit, CommitRows

(* A transaction that begins has added nothing and holds nothing. *)
LEMMA StartServed ==
  ASSUME Inv, Served, NEW c \in Client, phase[c] # "run",
         UNCHANGED <<rowVars, home, removing, added>>,
         NEW r \in Requests, request' = [request EXCEPT ![c] = r],
         at' = [at EXCEPT ![c] = 1],
         NEW s \in {"find", "run"}, phase' = [phase EXCEPT ![c] = s]
  PROVE  Served'
<1>1. /\ phase'[c] = s /\ request'[c] = r /\ at'[c] = 1
      /\ \A d \in Client \ {c} :
           phase'[d] = phase[d] /\ request'[d] = request[d] /\ at'[d] = at[d]
  BY DEF Inv, TypeOK
<1>2. \A k \in Key : holder[k] # c /\ added[c][k] = 0
  BY ConstantsAssumption DEF Inv, VersionsAgree
<1>3. SoFar(c)'
  <2>1. \A i : Ledger!DueOf(r, i, 0) = 0
    BY DueSteps
  <2>2. Len(r.parts) \in Nat
    BY RequestType
  <2>3. 1 \in 1..(Len(r.parts) + 1) /\ 1..(1 - 1) = {} /\ 1 - 1 = 0 /\ ~(1 > 1)
    BY <2>2
  <2>4. \A k \in Key :
          added'[c][k] = IF k[1] = r.player THEN Signed(r, Ledger!DueOf(r, k[2], 0)) ELSE 0
    BY <1>2, <2>1 DEF Signed
  <2>5. \A k \in Key : holder'[k] # c
    BY <1>2 DEF rowVars
  <2> QED
    BY <1>1, <2>3, <2>4, <2>5 DEF SoFar
<1>4. ASSUME NEW d \in Client, phase'[d] = "run" PROVE SoFar(d)'
  <2> SUFFICES ASSUME d # c PROVE SoFar(d)'
    BY <1>3
  <2>1. phase[d] = "run" /\ request[d] \in Requests /\ SoFar(d)
    BY <1>1, <1>4 DEF Inv, TypeOK, Served, RunsAreSoFar
  <2>2. at[d] > 1 => KnownPlayer(d)'
    BY <1>1, <2>1 DEF SoFar, KnownPlayer
  <2> QED
    BY <1>1, <2>1, <2>2, OthersSoFar DEF rowVars
<1>5. \A d \in Client : phase'[d] = "idle" => request'[d] = None
  BY <1>1 DEF Served
<1>6. \A d \in Client : phase'[d] = "find" => at'[d] = 1
  BY <1>1 DEF Served
<1> QED
  BY <1>4, <1>5, <1>6 DEF Served, RunsAreSoFar

LEMMA ReceiveServed ==
  ASSUME Inv, Served, NEW c \in Client, NEW r \in Requests, Receive(c, r)
  PROVE  Served'
<1> DEFINE s == IF r.kind = "reward" THEN "find" ELSE "run"
<1>1. s \in {"find", "run"} /\ phase' = [phase EXCEPT ![c] = s] /\ phase[c] # "run"
  BY DEF Receive
<1> HIDE DEF s
<1> QED
  BY <1>1, StartServed DEF Receive

LEMMA FindServed ==
  ASSUME Inv, Served, NEW c \in Client, FindPlayer(c)
  PROVE  Served'
<1>1. CASE Rollback(c, "NoSuchPlayer")
  BY <1>1, RollbackServed
<1>2. CASE /\ phase' = [phase EXCEPT ![c] = "run"]
           /\ UNCHANGED <<rowVars, home, removing, keyShare, request, at, answer, added,
                          credited>>
  <2>1. phase[c] = "find" /\ at[c] = 1 /\ request[c] \in Requests
    BY DEF FindPlayer, Served, Inv, TypeOK
  <2>2. request' = [request EXCEPT ![c] = request[c]] /\ at' = [at EXCEPT ![c] = 1]
    BY <1>2, <2>1 DEF Inv, TypeOK
  <2> QED
    BY <1>2, <2>1, <2>2, StartServed
<1> QED
  BY <1>1, <1>2 DEF FindPlayer

(* A removal that takes its rows has found none of them locked. *)
LEMMA RemovalServed ==
  ASSUME Inv, Served, NEW p \in Player, BeginRemoval(p) \/ FinishRemoval(p) \/ CancelRemoval(p)
  PROVE  Served'
<1>1. UNCHANGED <<holder, phase, request, at, added>>
  BY DEF BeginRemoval, FinishRemoval, CancelRemoval, DeleteRows, rowVars, txnVars
<1>2. \A q \in removing' : home'[q] # Gone
  BY DEF BeginRemoval, FinishRemoval, CancelRemoval, Served, Inv, TypeOK
<1>3. ASSUME NEW c \in Client, phase[c] = "run", at[c] > 1 PROVE KnownPlayer(c)'
  <2> DEFINE q == request[c].player
             k == <<q, request[c].parts[1].item>>
  <2>1. request[c] \in Requests /\ SoFar(c) /\ at[c] \in Nat
    BY <1>3 DEF Inv, TypeOK, Served, RunsAreSoFar
  <2>2. 1 \in 1..(at[c] - 1)
    BY <1>3, <2>1
  <2>3. KnownPlayer(c) /\ k \in Key /\ holder[k] = c /\ q \in Player
    BY <1>3, <2>1, <2>2, RequestType DEF SoFar, Key
  <2>4. ~(FinishRemoval(p) /\ p = q)
    <3> SUFFICES ASSUME FinishRemoval(p), p = q PROVE FALSE
      OBVIOUS
    <3>1. p \in removing /\ \A l \in RowsOf(p) : holder[l] = Nobody
      BY DEF FinishRemoval, DeleteRows
    <3>2. holder[k] # Nobody
      BY <2>3, ConstantsAssumption
    <3>3. store[k] = Absent
      BY <2>3, <3>1, <3>2 DEF RowsOf
    <3>4. q \in keyShare[c]
      BY <2>3, <3>2, <3>3 DEF Inv, VersionsAgree
    <3> QED
      BY <3>1, <3>4 DEF Inv, VersionsAgree
  <2>5. home'[q] = home[q]
    BY <2>3, <2>4 DEF BeginRemoval, FinishRemoval, CancelRemoval, Inv, TypeOK
  <2> QED
    BY <1>1, <2>3, <2>5 DEF KnownPlayer
<1>4. ASSUME NEW c \in Client, phase'[c] = "run" PROVE SoFar(c)'
  <2>1. phase[c] = "run" /\ request[c] \in Requests /\ SoFar(c)
    BY <1>1, <1>4 DEF Inv, TypeOK, Served, RunsAreSoFar
  <2> QED
    BY <1>1, <1>3, <2>1, OthersSoFar
<1> QED
  BY <1>1, <1>2, <1>4 DEF Served, RunsAreSoFar

(* A statement does one part more. *)
LEMMA ExecutedServed ==
  ASSUME Inv, Served, NEW c \in Client, Running(c), Lockable(c, Target(c)), KnownPlayer(c),
         NEW v, Executed(c, v, Signed(request[c], Part(c).amount))
  PROVE  Served'
<1> DEFINE r == request[c]
           n == at[c]
           k == Target(c)
           item == r.parts[n].item
           due(i, m) == Ledger!DueOf(r, i, m)
<1>1. /\ r \in Requests /\ k \in Key /\ k = <<r.player, item>> /\ item \in Item
      /\ Part(c) = r.parts[n] /\ r.parts[n].amount \in Nat
  BY PartType, ConstantsAssumption DEF Inv, Target, Part
<1>2. Len(r.parts) \in Nat /\ n \in 1..Len(r.parts) /\ n \in Nat /\ phase[c] = "run"
  <2>1. Len(r.parts) \in Nat
    BY <1>1, RequestType
  <2>2. n \in Nat /\ n # 0 /\ n <= Len(r.parts) /\ phase[c] = "run"
    BY DEF Running, PartLeft, Inv, TypeOK
  <2> QED
    BY <2>1, <2>2
<1>3. SoFar(c)
  BY <1>2 DEF Served, RunsAreSoFar
<1>4. /\ UNCHANGED <<home, removing, phase, request>>
      /\ at'[c] = n + 1 /\ holder' = [holder EXCEPT ![k] = c]
      /\ \A d \in Client \ {c} : at'[d] = at[d] /\ added'[d] = added[d]
  BY DEF Executed, WriteRow, Inv, TypeOK
<1>5. added'[c] = Raised(added[c], k, Signed(r, r.parts[n].amount))
  <2> DEFINE row == Raised(added[c], k, Signed(r, Part(c).amount))
  <2>1. added' = [added EXCEPT ![c] = row]
    BY DEF Executed
  <2> HIDE DEF row
  <2>2. added'[c] = row
    BY <2>1 DEF Inv, TypeOK
  <2> QED
    BY <1>1, <2>2 DEF row
<1>6. \A i : /\ due(i, n - 1) \in Nat /\ due(i, n) \in Nat
             /\ due(i, n) = due(i, n - 1) + Ledger!Paid(r.parts[n], i)
  <2>1. n - 1 \in 0..Len(r.parts) /\ n \in 0..Len(r.parts)
    BY <1>2
  <2> QED
    BY <1>1, <1>2, <2>1, DueSteps
<1> HIDE DEF due
<1>7. ASSUME NEW l \in Key
      PROVE  added'[c][l] = IF l[1] = r.player THEN Signed(r, due(l[2], n)) ELSE 0
  <2>1. added[c][l] = IF l[1] = r.player THEN Signed(r, due(l[2], n - 1)) ELSE 0
    BY <1>3 DEF SoFar, due
  <2>2. added[c] \in [Key -> Int]
    BY DEF Inv, TypeOK
  <2>3. CASE l = k
    <3>1. l[1] = r.player /\ l[2] = item
      BY <1>1, <2>3
    <3>2. due(l[2], n) = due(l[2], n - 1) + r.parts[n].amount
      BY <1>6, <3>1 DEF Ledger!Paid
    <3>3. added'[c][l] = added[c][l] + Signed(r, r.parts[n].amount)
      BY <1>5, <2>2, <2>3 DEF Raised
    <3>4. due(l[2], n - 1) \in Nat /\ due(l[2], n) \in Nat
      BY <1>6
    <3>5. added[c][l] = Signed(r, due(l[2], n - 1))
      BY <2>1, <3>1
    <3>6. Signed(r, due(l[2], n - 1)) + Signed(r, r.parts[n].amount) = Signed(r, due(l[2], n))
      BY <1>1, <3>2, <3>4 DEF Signed
    <3> QED
      BY <3>1, <3>3, <3>5, <3>6
  <2>4. CASE l # k
    <3>1. added'[c][l] = added[c][l]
      BY <1>5, <2>2, <2>4 DEF Raised
    <3>2. l[1] = r.player => l[2] # item
      BY <1>1, <2>4 DEF Key
    <3>3. l[1] = r.player => due(l[2], n) = due(l[2], n - 1)
      <4>1. /\ due(l[2], n) = due(l[2], n - 1) + Ledger!Paid(r.parts[n], l[2])
            /\ due(l[2], n - 1) \in Nat
        BY <1>6
      <4> QED
        BY <3>2, <4>1 DEF Ledger!Paid
    <3> QED
      BY <2>1, <3>1, <3>3
  <2> QED
    BY <2>3, <2>4
<1>8. /\ \A i \in 1..n : i = n \/ i \in 1..(n - 1)
      /\ n \in 1..n /\ 1..(n - 1) \subseteq 1..n
  BY <1>2
<1>9. SoFar(c)'
  <2>1. at'[c] \in 1..(Len(r.parts) + 1) /\ at'[c] - 1 = n
    BY <1>2, <1>4
  <2>2. ASSUME NEW i \in 1..n
        PROVE  r.parts[i].item \in Item /\ holder'[<<r.player, r.parts[i].item>>] = c
    <3>1. holder'[k] = c
      BY <1>1, <1>4 DEF Inv, TypeOK
    <3>2. CASE i = n
      BY <1>1, <3>1, <3>2
    <3>3. CASE i \in 1..(n - 1)
      <4>1. r.parts[i].item \in Item /\ holder[<<r.player, r.parts[i].item>>] = c
        BY <1>3, <3>3 DEF SoFar
      <4>2. <<r.player, r.parts[i].item>> \in Key
        BY <1>1, <4>1, RequestType DEF Key
      <4> QED
        BY <1>4, <4>1, <4>2 DEF Inv, TypeOK
    <3> QED
      BY <1>8, <3>2, <3>3
  <2>3. ASSUME NEW l \in Key, holder'[l] = c
        PROVE  l[1] = r.player /\ \E i \in 1..n : r.parts[i].item = l[2]
    <3>1. CASE l = k
      BY <1>1, <1>8, <3>1
    <3>2. CASE l # k
      <4>1. holder[l] = c
        BY <1>4, <2>3, <3>2 DEF Inv, TypeOK
      <4>2. l[1] = r.player /\ \E i \in 1..(n - 1) : r.parts[i].item = l[2]
        BY <1>3, <4>1 DEF SoFar
      <4> QED
        BY <1>8, <4>2
    <3> QED
      BY <3>1, <3>2
  <2>4. KnownPlayer(c)'
    BY <1>4 DEF KnownPlayer
  <2> QED
    BY <1>4, <1>7, <2>1, <2>2, <2>3, <2>4 DEF SoFar, due
<1>10. ASSUME NEW d \in Client, phase'[d] = "run" PROVE SoFar(d)'
  <2> SUFFICES ASSUME d # c PROVE SoFar(d)'
    BY <1>9
  <2>1. phase[d] = "run" /\ request[d] \in Requests /\ SoFar(d)
    BY <1>4, <1>10 DEF Inv, TypeOK, Served, RunsAreSoFar
  <2>2. \A l \in Key : holder'[l] = d <=> holder[l] = d
    <3>1. holder[k] # d
      BY ConstantsAssumption DEF Lockable
    <3> QED
      BY <1>1, <1>4, <3>1 DEF Inv, TypeOK
  <2>3. at[d] > 1 => KnownPlayer(d)'
    BY <1>4, <2>1 DEF SoFar, KnownPlayer
  <2> QED
    BY <1>4, <2>1, <2>2, <2>3, OthersSoFar
<1>11. \A d \in Client : phase'[d] = "find" => at'[d] = 1
  BY <1>2, <1>4 DEF Served
<1> QED
  BY <1>4, <1>10, <1>11 DEF Served, RunsAreSoFar

LEMMA StatementServed ==
  ASSUME Inv, Served, NEW c \in Client, Statement(c)
  PROVE  Served'
<1>1. ASSUME NEW a, Rollback(c, a) PROVE Served'
  BY <1>1, RollbackServed
<1>2. CASE RefuseCode(c) \/ RefuseTooLarge(c) \/ RefuseOtherProject(c) \/ RefuseForeignKey(c)
             \/ RefuseNotEnough(c)
  BY <1>1, <1>2
     DEF RefuseCode, RefuseTooLarge, RefuseOtherProject, RefuseForeignKey, RefuseNotEnough
<1>3. CASE AddToRow(c)
  <2>1. Running(c) /\ Signed(request[c], Part(c).amount) = Part(c).amount
    BY <1>3 DEF AddToRow, RowFound, Crediting, Signed
  <2> QED
    BY <1>3, <2>1, ExecutedServed DEF AddToRow, RowFound
<1>4. CASE InsertRow(c)
  <2>1. Running(c) /\ Signed(request[c], Part(c).amount) = Part(c).amount
    BY <1>4 DEF InsertRow, RowMissing, Crediting, Signed
  <2> QED
    BY <1>4, <2>1, ExecutedServed DEF InsertRow, RowMissing
<1>5. CASE SubtractFromRow(c)
  <2>1. Running(c) /\ Signed(request[c], Part(c).amount) = -Part(c).amount
    BY <1>5 DEF SubtractFromRow, RowToSpend, Spending, Signed
  <2> QED
    BY <1>5, <2>1, ExecutedServed DEF SubtractFromRow, RowToSpend
<1> QED
  BY <1>2, <1>3, <1>4, <1>5 DEF Statement

LEMMA ServedNext ==
  ASSUME Inv, Served, [Next]_vars
  PROVE  Served'
<1>1. ASSUME NEW c \in Client, ClientStep(c) PROVE Served'
  BY <1>1, ReceiveServed, FindServed, StatementServed, CommitServed, RollbackServed
     DEF ClientStep, Fail, DeadlockAbort
<1>2. CASE UNCHANGED vars
  BY <1>2 DEF vars, Served, RunsAreSoFar, SoFar, KnownPlayer
<1> QED
  BY <1>1, <1>2, RemovalServed DEF Next
-----------------------------------------------------------------------------
(* The commit is the step that serves the request. *)
LEMMA CommitServes ==
  ASSUME Inv, Served, NEW c \in Client, Commit(c)
  PROVE  Ledger!Serve(c)
<1> DEFINE r == request[c]
           L == Len(r.parts)
           Mine == {k \in Key : holder[k] = c}
<1>1. /\ r \in Requests /\ SoFar(c) /\ phase[c] = "run" /\ at[c] \in Nat /\ at[c] > L
  BY DEF Commit, Inv, TypeOK, Served, RunsAreSoFar
<1>2. L \in Nat /\ r # None /\ r.player \in Player /\ DOMAIN r.parts = 1..L
  BY <1>1, RequestType DEF Request
<1>3. at[c] - 1 = L /\ at[c] \in 1..(L + 1)
  BY <1>1, <1>2 DEF SoFar
<1>4. /\ \A i \in 1..L : r.parts[i].item \in Item /\ holder[<<r.player, r.parts[i].item>>] = c
      /\ \A k \in Mine : k[1] = r.player /\ \E i \in 1..L : r.parts[i].item = k[2]
      /\ \A k \in Mine : added[c][k] = Signed(r, Ledger!Due(r, k[2]))
  BY <1>1, <1>3 DEF SoFar, Ledger!Due
<1>5. Misnamed \notin Ledger!ItemsOf(r)
  BY <1>2, <1>4, ConstantsAssumption DEF Ledger!ItemsOf
<1>6. Ledger!Touched(r) = Mine
  <2>1. ASSUME NEW k \in Ledger!Touched(r) PROVE k \in Mine
    <3>1. PICK i \in 1..L : k = <<r.player, r.parts[i].item>>
      BY <1>2, <2>1 DEF Ledger!Touched, Ledger!ItemsOf
    <3> QED
      BY <1>2, <1>4, <3>1 DEF Key
  <2>2. ASSUME NEW k \in Mine PROVE k \in Ledger!Touched(r)
    <3>1. PICK i \in 1..L : k[1] = r.player /\ r.parts[i].item = k[2]
      BY <1>4, <2>2
    <3>2. k = <<r.player, r.parts[i].item>> /\ r.parts[i].item # Misnamed
      BY <1>4, <3>1, ConstantsAssumption DEF Key
    <3> QED
      BY <1>2, <3>2 DEF Ledger!Touched, Ledger!ItemsOf
  <2> QED
    BY <2>1, <2>2
<1>7. Ledger!Touched(r) # {} => Ledger!KnownPlayer(r)
  <2>1. ASSUME NEW k \in Mine PROVE KnownPlayer(c)
    <3>1. PICK i \in 1..L : TRUE
      BY <1>4, <2>1
    <3>2. at[c] > 1
      BY <1>2, <1>3, <3>1
    <3> QED
      BY <1>1, <3>2 DEF SoFar
  <2> QED
    BY <1>6, <2>1 DEF KnownPlayer, Ledger!KnownPlayer
<1>8. ASSUME NEW k \in Mine
      PROVE  Ledger!After(r, k) = draft[k] /\ draft[k] \in 0..MaxStored
  <2>1. holder[k] # Nobody /\ k \in Key /\ holder[k] = c
    BY <1>8, ConstantsAssumption
  <2>2. draft[k] # Absent /\ Amount(draft[k]) = Amount(store[k]) + added[c][k]
    BY <2>1 DEF Inv, VersionsAgree
  <2>3. draft[k] \in 0..MaxStored /\ Amount(draft[k]) = draft[k] /\ Amount(store[k]) \in Int
    BY <2>1, <2>2, ConstantsAssumption DEF Inv, TypeOK, Version, Amount
  <2>4. added[c][k] = Signed(r, Ledger!Due(r, k[2])) /\ Ledger!Due(r, k[2]) \in Nat
    <3>1. L \in 0..L
      BY <1>2
    <3> QED
      BY <1>1, <1>4, <1>8, <3>1, DueSteps DEF Ledger!Due
  <2>5. Ledger!After(r, k) = Amount(store[k]) + Signed(r, Ledger!Due(r, k[2]))
    BY <2>3, <2>4 DEF Ledger!After, Ledger!Amount, Amount, Signed
  <2> QED
    BY <2>2, <2>3, <2>4, <2>5
<1>9. store' = [k \in Key |-> IF k \in Mine THEN draft[k] ELSE store[k]]
  BY DEF Commit, CommitRows
<1>10. Ledger!Key = Key
  BY DEF Ledger!Key, Ledger!Item, Key, Item
<1>11. store' = [k \in Ledger!Key |->
                  IF k \in Ledger!Touched(r) THEN Ledger!After(r, k) ELSE store[k]]
  <2> HIDE DEF Mine
  <2>1. \A k \in Key : (IF k \in Mine THEN draft[k] ELSE store[k])
                          = (IF k \in Ledger!Touched(r) THEN Ledger!After(r, k) ELSE store[k])
    BY <1>6, <1>8
  <2> QED
    BY <1>9, <1>10, <2>1, Zenon
<1>12. PICK a \in {"ok", "lost"} : Finish(c, a)
  BY DEF Commit
<1>13. (\E b \in {"ok", "lost"} : Ledger!Answer(c, b)) /\ UNCHANGED home
  BY <1>12 DEF Finish, Ledger!Answer
<1> HIDE DEF Mine
<1>14. \A k \in Ledger!Touched(r) : Ledger!After(r, k) \in 0..MaxStored
  BY <1>6, <1>8
<1> QED
  BY <1>2, <1>5, <1>7, <1>11, <1>13, <1>14 DEF Ledger!Serve

(* A rollback is a refusal, if its reason holds. *)
LEMMA RollbackRefuses ==
  ASSUME Inv, NEW c \in Client, phase[c] # "idle",
         NEW a \in Answers \ {"ok"}, Ledger!Justified(request[c], a), Rollback(c, a)
  PROVE  Ledger!Refuse(c)
<1>1. request[c] # None
  BY ConstantsAssumption DEF Inv, TypeOK
<1>2. Ledger!Answer(c, a) /\ UNCHANGED <<home, store>>
  BY DEF Rollback, RollbackRows, Finish, Ledger!Answer
<1> QED
  BY <1>1, <1>2 DEF Ledger!Refuse, Ledger!Answers, Answers

(* The row a statement is about is one the request touches. *)
LEMMA TargetTouched ==
  ASSUME Inv, NEW c \in Client, Running(c)
  PROVE  Target(c) \in Ledger!Touched(request[c]) /\ Target(c)[2] = Part(c).item
<1>1. /\ Part(c).item \in Item /\ request[c] \in Requests
      /\ at[c] \in Nat /\ at[c] # 0 /\ at[c] <= Len(request[c].parts)
  BY PartType DEF Inv, TypeOK, Running, PartLeft
<1>2. at[c] \in DOMAIN request[c].parts
  <2>1. request[c].parts \in Seq([item : Item \cup {Misnamed}, amount : 1..MaxStored])
    BY <1>1, RequestsAssumption DEF Request
  <2> QED
    BY <1>1, <2>1
<1>3. Part(c).item \in Ledger!ItemsOf(request[c]) \ {Misnamed}
  BY <1>1, <1>2, ConstantsAssumption DEF Ledger!ItemsOf, Part
<1> QED
  BY <1>3 DEF Ledger!Touched, Target

(* When each reason holds, one by one. *)
LEMMA Reasons ==
  ASSUME NEW r
  PROVE  /\ ~Ledger!KnownPlayer(r) => Ledger!Justified(r, "NoSuchPlayer")
         /\ r.kind = "spend" /\ ~Ledger!KnownPlayer(r) => Ledger!Justified(r, "NotEnough")
         /\ r.kind = "spend" /\ (\E k \in Ledger!Touched(r) : Ledger!After(r, k) < 0)
              => Ledger!Justified(r, "NotEnough")
         /\ r.kind = "grant" /\ Ledger!Overflows(r, Currency) => Ledger!Justified(r, "TooLarge")
         /\ r.kind = "reward" /\ Ledger!Overflows(r, {XP}) => Ledger!Justified(r, "TooMuchXp")
         /\ r.kind = "reward" /\ ~Ledger!KnownPlayer(r) => Ledger!Justified(r, "Rejected")
         /\ r.kind = "reward" /\ Ledger!Overflows(r, Currency) => Ledger!Justified(r, "Rejected")
         /\ r.kind = "reward" /\ Misnamed \in Ledger!ItemsOf(r) => Ledger!Justified(r, "Rejected")
         /\ Ledger!Justified(r, "error")
         /\ Ledger!Justified(r, "lost")
BY DEF Ledger!Justified

LEMMA FindRefuses ==
  ASSUME Inv, NEW c \in Client, FindPlayer(c), ~KnownPlayer(c)
  PROVE  Ledger!Refuse(c)
<1>1. phase[c] # "idle" /\ Rollback(c, "NoSuchPlayer") /\ "NoSuchPlayer" \in Answers \ {"ok"}
  BY DEF FindPlayer, Answers
<1>2. Ledger!Justified(request[c], "NoSuchPlayer")
  BY Reasons DEF KnownPlayer, Ledger!KnownPlayer
<1> QED
  BY <1>1, <1>2, RollbackRefuses

LEMMA CodeRefuses ==
  ASSUME Inv, NEW c \in Client, RefuseCode(c)
  PROVE  Ledger!Refuse(c)
<1> DEFINE r == request[c]
<1>1. /\ phase[c] # "idle" /\ Rollback(c, "Rejected") /\ "Rejected" \in Answers \ {"ok"}
      /\ r \in Requests /\ at[c] \in Nat /\ at[c] # 0 /\ at[c] <= Len(r.parts)
      /\ r.parts[at[c]].item = Misnamed
  BY DEF RefuseCode, PartLeft, Part, Answers, Inv, TypeOK
<1>2. /\ r \in Request /\ Len(r.parts) \in Nat
      /\ r.kind # "reward" => Len(r.parts) = 1 /\ r.parts[1].item \in Currency
  BY <1>1, RequestType
<1>3. r.kind = "reward"
  <2>1. r.kind # "reward" => at[c] = 1
    BY <1>1, <1>2
  <2> QED
    BY <1>1, <1>2, <2>1, ConstantsAssumption DEF Item
<1>4. Misnamed \in Ledger!ItemsOf(r)
  <2>1. at[c] \in DOMAIN r.parts
    BY <1>1, <1>2 DEF Request
  <2> QED
    BY <1>1, <2>1 DEF Ledger!ItemsOf
<1>5. Ledger!Justified(r, "Rejected")
  BY <1>3, <1>4, Reasons
<1> QED
  BY <1>1, <1>5, RollbackRefuses

(* A statement that would pass the column's limit is of a request that does. *)
LEMMA TooLargeRefuses ==
  ASSUME Inv, Served, NEW c \in Client, RefuseTooLarge(c)
  PROVE  Ledger!Refuse(c)
<1> DEFINE r == request[c]
           k == Target(c)
           a == CASE r.kind = "grant" -> "TooLarge"
                  [] Part(c).item = XP -> "TooMuchXp"
                  [] OTHER -> "Rejected"
<1>1. /\ phase[c] # "idle" /\ Running(c) /\ Crediting(c) /\ Lockable(c, k)
      /\ draft[k] # Absent /\ ~Fits(c) /\ Rollback(c, a)
  BY DEF RefuseTooLarge, RowFound, Crediting, Running, PartLeft
<1>2. k \in Ledger!Touched(r) /\ k[2] = Part(c).item
  BY <1>1, TargetTouched
<1>3. Ledger!After(r, k) > MaxStored
  <2>1. /\ Amount(draft[k]) \in Nat /\ Part(c).amount \in Nat /\ Ledger!After(r, k) \in Int
        /\ Ledger!After(r, k) >= Amount(draft[k]) + Part(c).amount
    BY <1>1, WholeIsMore
  <2>2. Amount(draft[k]) = draft[k] /\ ~(draft[k] + Part(c).amount <= MaxStored)
    BY <1>1 DEF Amount, Fits
  <2>3. MaxStored \in Nat
    BY ConstantsAssumption
  <2> HIDE DEF k
  <2> QED
    BY <2>1, <2>2, <2>3
<1>4. /\ r \in Requests /\ Part(c).item \in Item
      /\ at[c] \in Nat /\ at[c] # 0 /\ at[c] <= Len(r.parts)
  BY <1>1, PartType DEF Inv, TypeOK, Running, PartLeft
<1>5. /\ r.kind \in {"grant", "spend", "reward"} /\ Len(r.parts) \in Nat
      /\ r.kind # "reward" => Len(r.parts) = 1 /\ r.parts[1].item \in Currency
  BY <1>4, RequestType DEF Request
<1>6. r.kind # "reward" => Part(c).item \in Currency
  <2>1. Len(r.parts) = 1 => at[c] = 1
    BY <1>4
  <2> QED
    BY <1>5, <2>1 DEF Part
<1>7. r.kind # "spend"
  BY <1>1 DEF Crediting
<1>8. Part(c).item # XP => Part(c).item \in Currency
  BY <1>4 DEF Item
<1>9. \A items : Part(c).item \in items => Ledger!Overflows(r, items)
  BY <1>2, <1>3 DEF Ledger!Overflows
<1>10. CASE r.kind = "grant"
  <2>1. a = "TooLarge"
    BY <1>6, <1>10, ConstantsAssumption
  <2>2. "TooLarge" \in Answers \ {"ok"}
    BY DEF Answers
  <2>3. Ledger!Justified(r, "TooLarge")
    BY <1>6, <1>9, <1>10, Reasons
  <2> QED
    BY <1>1, <2>1, <2>2, <2>3, RollbackRefuses
<1>11. CASE r.kind = "reward" /\ Part(c).item = XP
  <2>1. a = "TooMuchXp"
    BY <1>11
  <2>2. "TooMuchXp" \in Answers \ {"ok"}
    BY DEF Answers
  <2>3. Ledger!Justified(r, "TooMuchXp")
    BY <1>9, <1>11, Reasons
  <2> QED
    BY <1>1, <2>1, <2>2, <2>3, RollbackRefuses
<1>12. CASE r.kind = "reward" /\ Part(c).item # XP
  <2>1. a = "Rejected"
    BY <1>12
  <2>2. "Rejected" \in Answers \ {"ok"}
    BY DEF Answers
  <2>3. Ledger!Justified(r, "Rejected")
    BY <1>8, <1>9, <1>12, Reasons
  <2> QED
    BY <1>1, <2>1, <2>2, <2>3, RollbackRefuses
<1> QED
  BY <1>5, <1>7, <1>10, <1>11, <1>12

(* The refusals that only say the player is not there, or not in the project. *)
LEMMA StrangerRefuses ==
  ASSUME Inv, NEW c \in Client, Crediting(c), ~KnownPlayer(c),
         NEW a \in {"NoSuchPlayer", "Rejected"},
         a = "Rejected" => request[c].kind = "reward",
         Rollback(c, a)
  PROVE  Ledger!Refuse(c)
<1>1. phase[c] # "idle" /\ a \in Answers \ {"ok"}
  BY DEF Crediting, Running, PartLeft, Answers
<1>2. ~Ledger!KnownPlayer(request[c])
  BY DEF KnownPlayer, Ledger!KnownPlayer
<1>3. Ledger!Justified(request[c], a)
  <2>1. a = "NoSuchPlayer" \/ a = "Rejected"
    OBVIOUS
  <2> QED
    BY <1>2, <2>1, Reasons
<1> QED
  BY <1>1, <1>3, RollbackRefuses

LEMMA NotEnoughRefuses ==
  ASSUME Inv, Served, NEW c \in Client, RefuseNotEnough(c)
  PROVE  Ledger!Refuse(c)
<1> DEFINE r == request[c]
           k == Target(c)
<1>1. /\ phase[c] # "idle" /\ Running(c) /\ Spending(c) /\ r.kind = "spend"
      /\ Rollback(c, "NotEnough") /\ "NotEnough" \in Answers \ {"ok"}
  BY DEF RefuseNotEnough, Spending, Running, PartLeft, Answers
<1>2. k \in Ledger!Touched(r)
  BY <1>1, TargetTouched
<1>3. ASSUME KnownPlayer(c) PROVE Ledger!After(r, k) < 0
  <2>1. /\ r \in Requests /\ k \in Key /\ k[2] = r.parts[at[c]].item
        /\ Part(c) = r.parts[at[c]] /\ Part(c).amount \in Nat /\ Part(c).amount >= 1
        /\ at[c] \in Nat /\ at[c] # 0 /\ at[c] <= Len(r.parts)
    BY <1>1, PartType, ConstantsAssumption
       DEF Inv, TypeOK, Running, PartLeft, Target, Part
  <2>2. CASE store[k] = Absent
    <3> DEFINE due(n) == Ledger!DueOf(r, k[2], n)
    <3>1. Len(r.parts) \in Nat
      BY <2>1, RequestType
    <3>2. /\ at[c] \in 1..Len(r.parts) /\ at[c] - 1 \in 0..Len(r.parts)
          /\ at[c] \in 0..Len(r.parts) /\ Len(r.parts) \in 0..Len(r.parts)
      BY <2>1, <3>1
    <3>3. /\ due(at[c]) = due(at[c] - 1) + Ledger!Paid(r.parts[at[c]], k[2])
          /\ due(at[c] - 1) \in Nat /\ due(at[c]) \in Nat /\ due(Len(r.parts)) \in Nat
      BY <2>1, <3>2, DueSteps
    <3>4. due(at[c]) <= Ledger!Due(r, k[2])
      BY <2>1, <3>2, DueGrows
    <3>5. Ledger!Paid(r.parts[at[c]], k[2]) = Part(c).amount
      BY <2>1 DEF Ledger!Paid
    <3>6. Ledger!After(r, k) = 0 - Ledger!Due(r, k[2])
      BY <1>1, <2>2 DEF Ledger!After, Ledger!Amount
    <3>7. Ledger!Due(r, k[2]) \in Nat
      BY <3>3 DEF Ledger!Due
    <3> HIDE DEF due, k
    <3> QED
      BY <2>1, <3>3, <3>4, <3>5, <3>6, <3>7
  <2>3. CASE store[k] # Absent
    <3>1. Lockable(c, k) /\ ~Covers(c)
      BY <1>1, <1>3, <2>3 DEF RefuseNotEnough, RowToSpend
    <3>2. /\ Amount(draft[k]) \in Nat /\ Ledger!After(r, k) \in Int
          /\ Ledger!After(r, k) <= Amount(draft[k]) - Part(c).amount
      BY <1>1, <3>1, WholeIsMore
    <3>3. draft[k] # Absent
      BY <2>1, <2>3, <3>1, ConstantsAssumption DEF Inv, VersionsAgree, Lockable
    <3>4. Amount(draft[k]) = draft[k] /\ ~(draft[k] >= Part(c).amount)
      BY <3>1, <3>3 DEF Amount, Covers
    <3> HIDE DEF k
    <3> QED
      BY <2>1, <3>2, <3>4
  <2> QED
    BY <2>2, <2>3
<1>4. Ledger!Justified(r, "NotEnough")
  <2>1. CASE KnownPlayer(c)
    BY <1>1, <1>2, <1>3, <2>1, Reasons
  <2>2. CASE ~KnownPlayer(c)
    BY <1>1, <2>2, Reasons DEF KnownPlayer, Ledger!KnownPlayer
  <2> QED
    BY <2>1, <2>2
<1> QED
  BY <1>1, <1>4, RollbackRefuses
-----------------------------------------------------------------------------
LEMMA LedgerInit == ASSUME Init PROVE Ledger!Init
BY DEF Init, AtRest, Ledger!Init, Ledger!Key, Ledger!Item, Key, Item

LEMMA ReceiveAsks ==
  ASSUME Inv, Served, NEW c \in Client, NEW r \in Requests, Receive(c, r)
  PROVE  Ledger!Ask(c, r)
BY DEF Receive, rowVars, Served, Ledger!Ask

(* Statements leave what is committed alone. *)
LEMMA StatementSteps ==
  ASSUME Inv, Served, NEW c \in Client, Statement(c)
  PROVE  Ledger!Refuse(c) \/ UNCHANGED Ledger!vars
<1>1. CASE AddToRow(c) \/ InsertRow(c) \/ SubtractFromRow(c)
  BY <1>1 DEF AddToRow, InsertRow, SubtractFromRow, Executed, WriteRow, Ledger!vars
<1>2. CASE RefuseOtherProject(c) \/ RefuseForeignKey(c)
  <2> DEFINE a == IF request[c].kind = "grant" THEN "NoSuchPlayer" ELSE "Rejected"
             b == IF request[c].kind = "grant" \/ Part(c).item = XP
                    THEN "NoSuchPlayer" ELSE "Rejected"
  <2>1. Crediting(c) /\ ~KnownPlayer(c) /\ (Rollback(c, a) \/ Rollback(c, b))
    BY <1>2 DEF RefuseOtherProject, RefuseForeignKey, RowFound, RowMissing
  <2>2. request[c].kind \in {"grant", "spend", "reward"} /\ request[c].kind # "spend"
    <3>1. request[c] \in Requests /\ request[c].kind # "spend"
      BY <2>1 DEF Inv, TypeOK, Crediting, Running, PartLeft
    <3> QED
      BY <3>1, RequestType DEF Request
  <2>3. /\ a \in {"NoSuchPlayer", "Rejected"} /\ (a = "Rejected" => request[c].kind = "reward")
        /\ b \in {"NoSuchPlayer", "Rejected"} /\ (b = "Rejected" => request[c].kind = "reward")
    BY <2>2
  <2> HIDE DEF a, b
  <2> QED
    BY <2>1, <2>3, StrangerRefuses
<1> QED
  BY <1>1, <1>2, CodeRefuses, TooLargeRefuses, NotEnoughRefuses DEF Statement

(* A transaction may fail, or be ended to break a deadlock, at any time. *)
LEMMA FailRefuses ==
  ASSUME Inv, NEW c \in Client, Fail(c) \/ DeadlockAbort(c)
  PROVE  Ledger!Refuse(c)
<1>1. CASE Fail(c)
  BY <1>1, Reasons, RollbackRefuses DEF Fail, Answers
<1>2. CASE DeadlockAbort(c)
  <2>1. PICK b \in Client \cup removing : WaitsFor(c, b)
    BY <1>2 DEF DeadlockAbort, OnCycle, CycleThrough, Waiting
  <2>2. c \notin removing
    BY ConstantsAssumption DEF Inv, TypeOK
  <2>3. phase[c] # "idle"
    BY <2>1, <2>2
       DEF WaitsFor, WaitsForRow, WaitsForDelete, Crediting, RowToSpend, Spending,
         Running, PartLeft
  <2> QED
    BY <1>2, <2>3, Reasons, RollbackRefuses DEF DeadlockAbort, Answers
<1> QED
  BY <1>1, <1>2

LEMMA FinishRemoves ==
  ASSUME Inv, Served, NEW p \in Player, FinishRemoval(p)
  PROVE  Ledger!Remove(p)
<1>1. home[p] # Gone /\ home' = [home EXCEPT ![p] = Gone] /\ UNCHANGED <<request, answer>>
  BY DEF FinishRemoval, Served, txnVars
<1>2. store' = [k \in Key |-> IF k \in RowsOf(p) THEN Absent ELSE store[k]]
  BY DEF FinishRemoval, DeleteRows
<1>3. \A k \in Key : (IF k \in RowsOf(p) THEN Absent ELSE store[k])
                       = (IF k[1] = p THEN Absent ELSE store[k])
  BY DEF RowsOf
<1>4. Ledger!Key = Key
  BY DEF Ledger!Key, Ledger!Item, Key, Item
<1>5. store' = [k \in Ledger!Key |-> IF k[1] = p THEN Absent ELSE store[k]]
  BY <1>2, <1>3, <1>4, Zenon
<1> QED
  BY <1>1, <1>5 DEF Ledger!Remove

LEMMA LedgerNext ==
  ASSUME Inv, Served, [Next]_vars
  PROVE  [Ledger!Next]_Ledger!vars
<1>1. ASSUME NEW c \in Client, ClientStep(c) PROVE [Ledger!Next]_Ledger!vars
  <2>1. CASE \E r \in Requests : Receive(c, r)
    BY <2>1, ReceiveAsks DEF Ledger!Next
  <2>2. CASE FindPlayer(c)
    <3>1. CASE KnownPlayer(c)
      BY <2>2, <3>1 DEF FindPlayer, rowVars, Ledger!vars
    <3> QED
      BY <2>2, <3>1, FindRefuses DEF Ledger!Next
  <2>3. CASE Statement(c)
    BY <2>3, StatementSteps DEF Ledger!Next
  <2>4. CASE Commit(c)
    BY <2>4, CommitServes DEF Ledger!Next
  <2>5. CASE Fail(c) \/ DeadlockAbort(c)
    BY <2>5, FailRefuses DEF Ledger!Next
  <2> QED
    BY <1>1, <2>1, <2>2, <2>3, <2>4, <2>5 DEF ClientStep
<1>2. ASSUME NEW p \in Player, BeginRemoval(p) \/ CancelRemoval(p)
      PROVE  UNCHANGED Ledger!vars
  BY <1>2 DEF BeginRemoval, CancelRemoval, rowVars, txnVars, Ledger!vars
<1>3. ASSUME NEW p \in Player, FinishRemoval(p) PROVE Ledger!Next
  BY <1>3, FinishRemoves DEF Ledger!Next
<1>4. UNCHANGED vars => UNCHANGED Ledger!vars
  BY DEF vars, Ledger!vars
<1> QED
  BY <1>1, <1>2, <1>3, <1>4 DEF Next

(* However many clients, players and currencies there are, however long a   *)
(* reward is and however the statements interleave: a grant, a spend or a   *)
(* reward is applied whole, in the one step of its commit, or not at all;   *)
(* and whoever is refused is told a reason that is true of what is          *)
(* committed at that moment.                                                *)
THEOREM RewardImplementsLedger == Spec => ImplementsLedger
<1>1. Spec => [](Inv /\ Served)
  <2>1. Init => Inv /\ Served
    BY InitInv, ServedInit
  <2>2. Inv /\ Served /\ [Next]_vars => (Inv /\ Served)'
    BY NextInv, ServedNext
  <2> QED
    BY <2>1, <2>2, PTL DEF Spec
<1>2. Init => Ledger!Init
  BY LedgerInit
<1>3. Inv /\ Served /\ [Next]_vars => [Ledger!Next]_Ledger!vars
  BY LedgerNext
<1> QED
  BY <1>1, <1>2, <1>3, PTL DEF Spec, ImplementsLedger, Ledger!Spec
=============================================================================
