----------------------------- MODULE PlayerLedger -----------------------------
(***************************************************************************)
(* What a wallet grant, a wallet spend and a progression reward promise,   *)
(* as one step each: the whole of a request is applied, or none of it is,  *)
(* and a refusal is given only when its reason is true at that moment.     *)
(* RewardTxn, the statements the service sends, is shown to implement it.  *)
(***************************************************************************)
EXTENDS Integers, Sequences

CONSTANTS
  Client,     \* the requests being handled at once
  Player, Project,
  Currency,
  XP,         \* the item that is a player's experience points
  Requests,   \* the requests that may arrive
  MaxStored,  \* the largest number a bigint column holds
  Misnamed,   \* what is no name of a currency
  Absent,     \* no balance yet
  Gone,       \* the project of a player who was removed
  None        \* no request, no answer

Item == Currency \cup {XP}
Key == Player \X Item

VARIABLES
  home,       \* the project each player is in
  balance,    \* amount of each item each player has
  request,    \* the request each client waits on
  answer      \* the last answer each client was given

vars == <<home, balance, request, answer>>

Amount(v) == IF v = Absent THEN 0 ELSE v

(* What one part of a request comes to, of item i, and what its first n do. *)
Paid(part, i) == IF part.item = i THEN part.amount ELSE 0

DueOf(r, i, n) ==
  LET due[m \in 0..Len(r.parts)] ==
        IF m = 0 THEN 0 ELSE due[m - 1] + Paid(r.parts[m], i)
  IN due[n]

Due(r, i) == DueOf(r, i, Len(r.parts))

ItemsOf(r) == {r.parts[n].item : n \in DOMAIN r.parts}
Touched(r) == {<<r.player, i>> : i \in ItemsOf(r) \ {Misnamed}}

(* The amount row k would hold after r. *)
After(r, k) ==
  IF r.kind = "spend"
    THEN Amount(balance[k]) - Due(r, k[2])
    ELSE Amount(balance[k]) + Due(r, k[2])

KnownPlayer(r) == home[r.player] = r.project

Overflows(r, items) ==
  \E k \in Touched(r) : k[2] \in items /\ After(r, k) > MaxStored

(* When each answer that is not "ok" may be given. *)
Justified(r, a) ==
  CASE a = "NoSuchPlayer" -> ~KnownPlayer(r)
    [] a = "NotEnough"    -> /\ r.kind = "spend"
                             /\ \/ ~KnownPlayer(r)
                                \/ \E k \in Touched(r) : After(r, k) < 0
    [] a = "TooLarge"     -> r.kind = "grant" /\ Overflows(r, Currency)
    [] a = "TooMuchXp"    -> r.kind = "reward" /\ Overflows(r, {XP})
    [] a = "Rejected"     -> /\ r.kind = "reward"
                             /\ \/ ~KnownPlayer(r) \/ Overflows(r, Currency)
                                \/ Misnamed \in ItemsOf(r)
    [] OTHER              -> a \in {"error", "lost"}

Answers == {"ok", "NoSuchPlayer", "NotEnough", "TooLarge", "TooMuchXp",
            "Rejected", "error", "lost"}

Init ==
  /\ home \in [Player -> Project]
  /\ balance = [k \in Key |-> Absent]
  /\ request = [c \in Client |-> None]
  /\ answer = [c \in Client |-> None]

Ask(c, r) ==
  /\ request[c] = None
  /\ request' = [request EXCEPT ![c] = r]
  /\ answer' = [answer EXCEPT ![c] = None]
  /\ UNCHANGED <<home, balance>>

Answer(c, a) ==
  /\ request' = [request EXCEPT ![c] = None]
  /\ answer' = [answer EXCEPT ![c] = a]

(* All of the request.  The caller may not live to hear of it. *)
Serve(c) ==
  LET r == request[c] IN
  /\ r # None /\ Misnamed \notin ItemsOf(r)
  /\ Touched(r) # {} => KnownPlayer(r)
  /\ \A k \in Touched(r) : After(r, k) \in 0..MaxStored
  /\ balance' = [k \in Key |-> IF k \in Touched(r) THEN After(r, k) ELSE balance[k]]
  /\ \E a \in {"ok", "lost"} : Answer(c, a)
  /\ UNCHANGED home

(* None of it, for a reason that holds. *)
Refuse(c) ==
  /\ request[c] # None
  /\ \E a \in Answers \ {"ok"} : Justified(request[c], a) /\ Answer(c, a)
  /\ UNCHANGED <<home, balance>>

(* A player is removed, and everything of theirs with them. *)
Remove(p) ==
  /\ home[p] # Gone
  /\ home' = [home EXCEPT ![p] = Gone]
  /\ balance' = [k \in Key |-> IF k[1] = p THEN Absent ELSE balance[k]]
  /\ UNCHANGED <<request, answer>>

Next ==
  \/ \E c \in Client : (\E r \in Requests : Ask(c, r)) \/ Serve(c) \/ Refuse(c)
  \/ \E p \in Player : Remove(p)

Spec == Init /\ [][Next]_vars
=============================================================================
