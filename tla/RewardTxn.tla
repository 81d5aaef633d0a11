------------------------------ MODULE RewardTxn ------------------------------
(***************************************************************************)
(* The three operations that change what a player holds, statement by      *)
(* statement: the economy's grant and spend, and progression's reward,     *)
(* whose XP and currency credits share one transaction through the         *)
(* platform's currency port.  Each runs on a connection of its own, in a   *)
(* thread of its own; statements of different transactions interleave, and *)
(* a row written by one stays locked until that transaction ends.  Beside  *)
(* them an operator may delete a player, which cascades to the rows.       *)
(***************************************************************************)
EXTENDS Integers, Sequences

CONSTANTS
  Client, Player, Project, Currency, XP, Requests, MaxStored,
  Misnamed, Absent, Nobody, Gone, None

Item == Currency \cup {XP}
Key == Player \X Item

(* A request, validated by reward_of, currency_code and positive_amount: a *)
(* grant and a spend name one currency; a reward awards XP first, when it  *)
(* awards any, and then credits its grants in the order they were sent.    *)
(* Only the ledger knows whether what a reward calls a currency is one.    *)
Request ==
  [kind : {"grant", "spend", "reward"}, player : Player, project : Project,
   parts : Seq([item : Item \cup {Misnamed}, amount : 1..MaxStored])]

ASSUME RequestsAssumption ==
  /\ Requests \subseteq Request
  /\ \A r \in Requests :
       /\ r.kind # "reward" => Len(r.parts) = 1 /\ r.parts[1].item \in Currency
       /\ \A i \in 2..Len(r.parts) : r.parts[i].item # XP

ASSUME ConstantsAssumption ==
  /\ MaxStored \in Nat \ {0}
  /\ Absent \notin Int
  /\ Misnamed \notin Item
  /\ XP \notin Currency
  /\ Nobody \notin Client
  /\ Client \cap Player = {}   \* who waits for whom tells them apart
  /\ Gone \notin Project
  /\ None \notin Requests

VARIABLES
  store, draft, holder,   \* the rows of economy_balance and progression_xp
  home,       \* the player table: the project of each player
  removing,   \* players whose delete holds their row and waits for the rest
  keyShare,   \* the players each transaction's inserts keep from being deleted
  phase,      \* "idle", "find" (reward looks the player up) or "run"
  request,    \* the request each client is serving
  at,         \* the part of the request whose statement comes next
  answer,     \* the last answer each client gave
  added,      \* auxiliary: what each open transaction added to each row
  credited    \* auxiliary: what committed transactions added to each row

INSTANCE Rows

rowVars == <<store, draft, holder>>
txnVars == <<phase, request, at, answer>>
vars == <<store, draft, holder, home, removing, keyShare,
          phase, request, at, answer, added, credited>>

Nothing == [k \in Key |-> 0]

Init ==
  /\ AtRest([k \in Key |-> Absent])
  /\ home \in [Player -> Project]
  /\ removing = {}
  /\ keyShare = [c \in Client |-> {}]
  /\ phase = [c \in Client |-> "idle"]
  /\ request = [c \in Client |-> None]
  /\ at = [c \in Client |-> 0]
  /\ answer = [c \in Client |-> None]
  /\ added = [c \in Client |-> Nothing]
  /\ credited = Nothing
-----------------------------------------------------------------------------
Part(c) == request[c].parts[at[c]]
Target(c) == <<request[c].player, Part(c).item>>
KnownPlayer(c) == home[request[c].player] = request[c].project

(* A part is left to do; unless it names no currency, it is a statement. *)
PartLeft(c) == phase[c] = "run" /\ at[c] <= Len(request[c].parts)
Running(c) == PartLeft(c) /\ Part(c).item # Misnamed
Spending(c) == Running(c) /\ request[c].kind = "spend"
Crediting(c) == Running(c) /\ request[c].kind # "spend"

Receive(c, r) ==
  /\ phase[c] = "idle"
  /\ phase' = [phase EXCEPT ![c] = IF r.kind = "reward" THEN "find" ELSE "run"]
  /\ request' = [request EXCEPT ![c] = r]
  /\ at' = [at EXCEPT ![c] = 1]
  /\ answer' = [answer EXCEPT ![c] = None]
  /\ UNCHANGED <<rowVars, home, removing, keyShare, added, credited>>

(* The transaction is over: its locks go with it, and the caller is told. *)
Finish(c, a) ==
  /\ phase' = [phase EXCEPT ![c] = "idle"]
  /\ request' = [request EXCEPT ![c] = None]
  /\ at' = [at EXCEPT ![c] = 0]
  /\ answer' = [answer EXCEPT ![c] = a]
  /\ keyShare' = [keyShare EXCEPT ![c] = {}]
  /\ added' = [added EXCEPT ![c] = Nothing]
  /\ UNCHANGED <<home, removing>>

(* Mutant: a refused request keeps the parts that went before. *)
Rollback_Partial(c, a) ==
  /\ CommitRows(c)
  /\ Finish(c, a)
  /\ credited' = [k \in Key |-> credited[k] + added[c][k]]

(* Mutant: a refusal that forgets the rollback leaves the transaction open. *)
Rollback_Forgotten(c, a) ==
  /\ UNCHANGED rowVars
  /\ Finish(c, a)
  /\ credited' = credited

Rollback(c, a) ==
  /\ RollbackRows(c)
  /\ Finish(c, a)
  /\ credited' = credited

Raised(sums, k, delta) == [sums EXCEPT ![k] = @ + delta]

(* Mutant: the ledger commits each credit itself. *)
Executed_Autocommit(c, v, delta) ==
  /\ store' = [store EXCEPT ![Target(c)] = v]
  /\ draft' = [draft EXCEPT ![Target(c)] = v]
  /\ holder' = holder
  /\ at' = [at EXCEPT ![c] = @ + 1]
  /\ credited' = [credited EXCEPT ![Target(c)] = @ + delta]
  /\ UNCHANGED <<home, removing, phase, request, answer, added>>

(* The statement for this part succeeded and left amount v in the row. *)
Executed(c, v, delta) ==
  /\ WriteRow(c, Target(c), v)
  /\ added' = [added EXCEPT ![c] = Raised(@, Target(c), delta)]
  /\ at' = [at EXCEPT ![c] = @ + 1]
  /\ UNCHANGED <<home, removing, phase, request, answer, credited>>
-----------------------------------------------------------------------------
(* reward: players.find, a plain select, before anything is written. *)
FindPlayer(c) ==
  /\ phase[c] = "find"
  /\ \/ /\ KnownPlayer(c)
        /\ phase' = [phase EXCEPT ![c] = "run"]
        /\ UNCHANGED <<rowVars, home, removing, keyShare, request, at, answer,
                       added, credited>>
     \/ /\ ~KnownPlayer(c)
        /\ Rollback(c, "NoSuchPlayer")

(* currency_code, called again by the ledger, before anything is sent. *)
RefuseCode(c) ==
  /\ PartLeft(c) /\ Part(c).item = Misnamed
  /\ Rollback(c, "Rejected")

(* _credit and _award: insert ... on conflict do update.  The row is there: *)
(* the arithmetic is done on its newest version, under its lock.            *)
RowFound(c) ==
  /\ Crediting(c)
  /\ Lockable(c, Target(c))
  /\ draft[Target(c)] # Absent

(* Mutant: the sum is taken to fit. *)
Fits_Unchecked(c) == TRUE

Fits(c) == draft[Target(c)] + Part(c).amount <= MaxStored

(* Mutant: the sum is taken in the service, over what a select returned. *)
AddToRow_ReadThenWrite(c) ==
  /\ RowFound(c) /\ KnownPlayer(c) /\ Fits(c) /\ store[Target(c)] # Absent
  /\ Executed(c, store[Target(c)] + Part(c).amount, Part(c).amount)
  /\ keyShare' = keyShare

AddToRow(c) ==
  /\ RowFound(c) /\ KnownPlayer(c) /\ Fits(c)
  /\ Executed(c, draft[Target(c)] + Part(c).amount, Part(c).amount)
  /\ keyShare' = keyShare

(* Numeric value out of range: each handler has its own name for it. *)
RefuseTooLarge(c) ==
  /\ RowFound(c) /\ KnownPlayer(c) /\ ~Fits(c)
  /\ Rollback(c, CASE request[c].kind = "grant" -> "TooLarge"
                   [] Part(c).item = XP         -> "TooMuchXp"
                   [] OTHER                     -> "Rejected")

(* The row is another project's: the upsert's own "where" leaves it alone, *)
(* and grant ends a transaction that wrote nothing.                        *)
RefuseOtherProject(c) ==
  /\ RowFound(c) /\ ~KnownPlayer(c)
  /\ Rollback(c, IF request[c].kind = "grant" THEN "NoSuchPlayer" ELSE "Rejected")

(* No row yet: the insert's foreign key takes a key share lock on the      *)
(* player, and so waits for a delete of that player under way.             *)
RowMissing(c) ==
  /\ Crediting(c)
  /\ Lockable(c, Target(c))
  /\ draft[Target(c)] = Absent
  /\ request[c].player \notin removing

(* Mutant: no foreign key; reward trusts the player it found earlier. *)
InsertRow_NoForeignKey(c) ==
  /\ RowMissing(c)
  /\ Executed(c, Part(c).amount, Part(c).amount)
  /\ keyShare' = keyShare

InsertRow(c) ==
  /\ RowMissing(c) /\ KnownPlayer(c)
  /\ Executed(c, Part(c).amount, Part(c).amount)
  /\ keyShare' = [keyShare EXCEPT ![c] = @ \cup {request[c].player}]

RefuseForeignKey(c) ==
  /\ RowMissing(c) /\ ~KnownPlayer(c)
  /\ Rollback(c, IF request[c].kind = "grant" \/ Part(c).item = XP
                   THEN "NoSuchPlayer" ELSE "Rejected")

(* spend: an update sees the rows committed before it, and waits for the   *)
(* lock only of one that is there and in the project.                      *)
RowToSpend(c) == Spending(c) /\ KnownPlayer(c) /\ store[Target(c)] # Absent

Covers(c) == draft[Target(c)] >= Part(c).amount

SubtractFromRow(c) ==
  /\ RowToSpend(c) /\ Lockable(c, Target(c)) /\ Covers(c)
  /\ Executed(c, draft[Target(c)] - Part(c).amount, -Part(c).amount)
  /\ keyShare' = keyShare

(* The CHECK constraint says no, or no row matched. *)
RefuseNotEnough(c) ==
  /\ Spending(c)
  /\ \/ RowToSpend(c) /\ Lockable(c, Target(c)) /\ ~Covers(c)
     \/ ~RowToSpend(c)
  /\ Rollback(c, "NotEnough")

(* The answer may be lost with the connection, the commit already done. *)
Commit(c) ==
  /\ phase[c] = "run" /\ at[c] > Len(request[c].parts)
  /\ CommitRows(c)
  /\ credited' = [k \in Key |-> credited[k] + added[c][k]]
  /\ \E a \in {"ok", "lost"} : Finish(c, a)

(* The process dies or the connection drops in mid-transaction. *)
Fail(c) ==
  /\ phase[c] # "idle"
  /\ Rollback(c, "lost")
-----------------------------------------------------------------------------
(* Who waits for whom.  A delete under way is known by its player. *)
WaitsForRow(c) ==
  \/ Crediting(c) /\ ~Lockable(c, Target(c))
  \/ RowToSpend(c) /\ ~Lockable(c, Target(c))

WaitsForDelete(c) ==
  /\ Crediting(c) /\ Lockable(c, Target(c)) /\ draft[Target(c)] = Absent
  /\ request[c].player \in removing

RowsOf(p) == {k \in Key : k[1] = p /\ store[k] # Absent}

WaitsFor(a, b) ==
  \/ a \in Client /\ b \in Client /\ WaitsForRow(a) /\ holder[Target(a)] = b
  \/ a \in Client /\ b \in Player /\ WaitsForDelete(a) /\ request[a].player = b
  \/ a \in removing /\ b \in Client /\ \E k \in RowsOf(a) : holder[k] = b

Waiting ==
  {a \in Client \cup removing : \E b \in Client \cup removing : WaitsFor(a, b)}

OnCycle(c) == CycleThrough(c, Waiting, WaitsFor)

(* PostgreSQL ends one transaction of the cycle; the service rolls back    *)
(* and, knowing no better, lets the error out as a 500.                    *)
DeadlockAbort(c) ==
  /\ OnCycle(c)
  /\ Rollback(c, "error")
-----------------------------------------------------------------------------
(* delete from player: the player's row first, then the cascade. *)
BeginRemoval(p) ==
  /\ home[p] # Gone /\ p \notin removing
  /\ \A c \in Client : p \notin keyShare[c]
  /\ removing' = removing \cup {p}
  /\ UNCHANGED <<rowVars, home, keyShare, txnVars, added, credited>>

FinishRemoval(p) ==
  /\ p \in removing
  /\ DeleteRows(RowsOf(p))
  /\ removing' = removing \ {p}
  /\ home' = [home EXCEPT ![p] = Gone]
  /\ credited' = [k \in Key |-> IF k \in RowsOf(p) THEN 0 ELSE credited[k]]
  /\ UNCHANGED <<keyShare, txnVars, added>>

CancelRemoval(p) ==
  /\ p \in removing
  /\ removing' = removing \ {p}
  /\ UNCHANGED <<rowVars, home, keyShare, txnVars, added, credited>>

Statement(c) ==
  \/ RefuseCode(c)
  \/ AddToRow(c) \/ RefuseTooLarge(c) \/ RefuseOtherProject(c)
  \/ InsertRow(c) \/ RefuseForeignKey(c)
  \/ SubtractFromRow(c) \/ RefuseNotEnough(c)

ClientStep(c) ==
  \/ \E r \in Requests : Receive(c, r)
  \/ FindPlayer(c) \/ Statement(c) \/ Commit(c) \/ Fail(c) \/ DeadlockAbort(c)

Next ==
  \/ \E c \in Client : ClientStep(c)
  \/ \E p \in Player : BeginRemoval(p) \/ FinishRemoval(p) \/ CancelRemoval(p)

Spec == Init /\ [][Next]_vars

(* The service runs every handler to its end, PostgreSQL hands a row lock  *)
(* to its waiters in turn and breaks every deadlock, and a delete under    *)
(* way is a statement like any other.  Nothing is assumed of the callers,  *)
(* or of the network.                                                      *)
Fairness ==
  /\ \A c \in Client : /\ WF_vars(FindPlayer(c)) /\ WF_vars(Commit(c))
                       /\ SF_vars(Statement(c)) /\ WF_vars(DeadlockAbort(c))
  /\ \A p \in Player : SF_vars(FinishRemoval(p))

FairSpec == Spec /\ Fairness
-----------------------------------------------------------------------------
Amount(v) == IF v = Absent THEN 0 ELSE v

Version == (0..MaxStored) \cup {Absent}

Answers == {"ok", "NoSuchPlayer", "NotEnough", "TooLarge", "TooMuchXp",
            "Rejected", "error", "lost"}

TypeOK ==
  /\ store \in [Key -> Version]
  /\ draft \in [Key -> Version]
  /\ holder \in [Key -> Client \cup {Nobody}]
  /\ home \in [Player -> Project \cup {Gone}]
  /\ removing \in SUBSET Player
  /\ keyShare \in [Client -> SUBSET Player]
  /\ phase \in [Client -> {"idle", "find", "run"}]
  /\ request \in [Client -> Requests \cup {None}]
  /\ at \in [Client -> Nat]
  /\ answer \in [Client -> Answers \cup {None}]
  /\ added \in [Client -> [Key -> Int]]
  /\ credited \in [Key -> Int]
  /\ \A c \in Client : phase[c] # "idle" => request[c] \in Requests /\ at[c] # 0

(* No update is lost and none is invented: every balance, and every XP      *)
(* total, is exactly what the committed statements added to it.  This is    *)
(* what "one statement with the arithmetic inside it" is for                *)
(* (economy/adapters/postgres.py).                                          *)
BalanceIsSumOfCommits == \A k \in Key : Amount(store[k]) = credited[k]

(* A row belongs to a player who is there: no grant slips into the gap      *)
(* while a player is deleted, and nothing is left behind by the cascade.    *)
NoOrphanRows == \A k \in Key : store[k] # Absent => home[k[1]] \in Project

(* What makes both hold: the newest version of a row is the committed one   *)
(* plus what the transaction holding its lock has added, only an open       *)
(* transaction holds a lock or has added anything, and a row that only an   *)
(* open transaction has seen is of a player that transaction keeps alive.   *)
VersionsAgree ==
  /\ \A k \in Key :
       /\ holder[k] = Nobody => draft[k] = store[k]
       /\ holder[k] # Nobody =>
            /\ phase[holder[k]] = "run"
            /\ draft[k] # Absent
            /\ Amount(draft[k]) = Amount(store[k]) + added[holder[k]][k]
            /\ store[k] = Absent => k[1] \in keyShare[holder[k]]
  /\ \A c \in Client, k \in Key : added[c][k] # 0 => holder[k] = c
  /\ \A c \in Client : \A p \in keyShare[c] :
       p \notin removing /\ home[p] \in Project

(* All or nothing: a committed amount changes only when a player goes, or   *)
(* when a transaction ends that has run every statement of its request, and *)
(* then everything that transaction wrote is committed in the same step     *)
(* ("The XP and every currency credit share this session").                 *)
CommitsWhole(c) ==
  /\ phase[c] = "run" /\ at[c] > Len(request[c].parts) /\ phase'[c] = "idle"
  /\ \A k \in Key : holder[k] = c => store'[k] = draft[k]

WholeOrNothing ==
  [][\A k \in Key : store'[k] # store[k] =>
       \/ store'[k] = Absent /\ home'[k[1]] = Gone
       \/ holder[k] \in Client /\ CommitsWhole(holder[k])]_vars

(* Whatever waits for whatever, every request gets an answer. *)
EveryRequestAnswered == \A c \in Client : phase[c] # "idle" ~> phase[c] = "idle"
-----------------------------------------------------------------------------
(* The abstract ledger's request is the one a client is serving, and its   *)
(* balances are the committed rows.                                        *)
Ledger == INSTANCE PlayerLedger WITH balance <- store

(* The transactions do what PlayerLedger promises: a request is applied    *)
(* whole in one step or not at all, and every refusal tells the truth.     *)
ImplementsLedger == Ledger!Spec
=============================================================================
