-------------------------------- MODULE Grants --------------------------------
(***************************************************************************)
(* Granting items to players (apps/inventory): one transaction for all the *)
(* lines of a grant, and a savepoint for each of them.  A line is a single *)
(* statement that adds to the newest version of an entry and keeps the     *)
(* entry's lock until the whole grant ends, so grants of the same items    *)
(* wait for each other, all the way round when their lines are in another  *)
(* order; PostgreSQL then fails one of them.                               *)
(*                                                                         *)
(* A refused line is rolled back to its savepoint, which gives back what   *)
(* locks it took, and the rest are tried all the same; the grant is        *)
(* committed only when no line was refused.  Players are never removed, so *)
(* the lock on the player's row makes nobody wait.                         *)
(***************************************************************************)
EXTENDS Integers, Sequences

CONSTANTS
  Request,       \* grants under way
  Player, Item,  \* the players, and the ids is_slug accepts
  MAX_QUANTITY,  \* what a bigint holds
  MAX_LINES,
  Absent, Nobody

GrantsAssumption ==
  /\ MAX_QUANTITY \in Nat /\ MAX_LINES \in Nat
  /\ Absent \notin Int /\ Nobody \notin Request

Key == Player \X Item

VARIABLES
  store, draft, holder,  \* the rows of inventory_entry: quantities
  items,    \* the items the project defines
  at,       \* the grant each request is applying, and how far it is
  granted   \* auxiliary: the sum of the lines committed for each entry

INSTANCE Rows WITH Client <- Request

rowVars == <<store, draft, holder>>
vars == <<store, draft, holder, items, at, granted>>

Idle == [pc |-> "idle"]

Init ==
  /\ AtRest([k \in Key |-> Absent])
  /\ items = {}
  /\ at = [r \in Request |-> Idle]
  /\ granted = [k \in Key |-> 0]
-----------------------------------------------------------------------------
_quantity_problem(n) == n = 0 \/ n > MAX_QUANTITY \/ -n > MAX_QUANTITY

(* lines_of: a grant is refused unless each of its lines is an item id and a *)
(* quantity, and there is at least one of them.                             *)
IsGrant(lines) ==
  /\ Len(lines) \in 1..MAX_LINES
  /\ \A i \in DOMAIN lines : lines[i].item \in Item /\ ~_quantity_problem(lines[i].quantity)

Line(r) == at[r].lines[at[r].next]
Entry(r) == <<at[r].player, Line(r).item>>
Quantity(version) == IF version = Absent THEN 0 ELSE version

(* Why the database refuses a line: nothing to take from, a CHECK, a foreign *)
(* key, or a bigint's range.                                                *)
Refusals(r) ==
  LET total == Quantity(draft[Entry(r)]) + Line(r).quantity
  IN {why \in {"no_such_item", "not_enough", "too_many"} :
        CASE why = "no_such_item" -> draft[Entry(r)] = Absent /\ Line(r).item \notin items
          [] why = "not_enough" -> total < 0 /\ Line(r).item \in items
          [] why = "too_many" -> total > MAX_QUANTITY}

Grant(r, p, lines) ==
  /\ at[r].pc = "idle" /\ IsGrant(lines)
  /\ at' = [at EXCEPT ![r] = [pc |-> "apply", player |-> p, lines |-> lines, next |-> 1,
                              found |-> {}]]
  /\ UNCHANGED <<rowVars, items, granted>>

(* _apply: GIVE or TAKE, once the entry's row is free. *)
Apply(r) ==
  /\ at[r].pc = "apply" /\ at[r].next <= Len(at[r].lines)
  /\ Lockable(r, Entry(r))
  /\ \/ /\ Refusals(r) = {}
        /\ WriteRow(r, Entry(r), Quantity(draft[Entry(r)]) + Line(r).quantity)
        /\ at' = [at EXCEPT ![r].next = @ + 1]
     \/ /\ Refusals(r) # {}
        /\ at' = [at EXCEPT ![r].next = @ + 1,
                            ![r].found = @ \cup {<<at[r].next, why>> : why \in Refusals(r)}]
        /\ UNCHANGED rowVars
  /\ UNCHANGED <<items, granted>>

(* What the lines of a grant add to an entry. *)
Sum(r, k) ==
  LET upTo[i \in 0..Len(at[r].lines)] ==
        IF i = 0 THEN 0
        ELSE upTo[i - 1] + (IF k = <<at[r].player, at[r].lines[i].item>>
                              THEN at[r].lines[i].quantity ELSE 0)
  IN upTo[Len(at[r].lines)]

(* Mutant: the lines that could be applied are kept. *)
Finish_Partly(r) ==
  /\ at[r].pc = "apply" /\ at[r].next > Len(at[r].lines)
  /\ CommitRows(r)
  /\ granted' = IF at[r].found = {} THEN [k \in Key |-> granted[k] + Sum(r, k)] ELSE granted
  /\ at' = [at EXCEPT ![r] = Idle]
  /\ UNCHANGED items

(* Mutant: a refused grant ends and its transaction does not. *)
Finish_Open(r) ==
  /\ at[r].pc = "apply" /\ at[r].next > Len(at[r].lines)
  /\ IF at[r].found # {} THEN UNCHANGED <<rowVars, granted>>
     ELSE CommitRows(r) /\ granted' = [k \in Key |-> granted[k] + Sum(r, k)]
  /\ at' = [at EXCEPT ![r] = Idle]
  /\ UNCHANGED items

(* Every line was tried: one that was refused undoes the grant; otherwise   *)
(* everything the player holds is read for the answer, and committed.       *)
Finish(r) ==
  /\ at[r].pc = "apply" /\ at[r].next > Len(at[r].lines)
  /\ \/ /\ at[r].found # {}
        /\ RollbackRows(r)
        /\ UNCHANGED granted
     \/ /\ at[r].found = {}
        /\ CommitRows(r)
        /\ granted' = [k \in Key |-> granted[k] + Sum(r, k)]
  /\ at' = [at EXCEPT ![r] = Idle]
  /\ UNCHANGED items

(* The connection drops or the process dies; or the wait is a deadlock,     *)
(* which _refusal raises again, so that the grant is undone whole.          *)
Fail(r) ==
  /\ at[r].pc # "idle"
  /\ RollbackRows(r)
  /\ at' = [at EXCEPT ![r] = Idle]
  /\ UNCHANGED <<items, granted>>
-----------------------------------------------------------------------------
(* An editor defines an item, or one that is there already is replaced. *)
SaveItem(i) ==
  /\ items' = items \cup {i}
  /\ UNCHANGED <<rowVars, at, granted>>

(* Mutant: no foreign key takes the entries along. *)
DeleteItem_Alone(i) ==
  /\ i \in items
  /\ items' = items \ {i}
  /\ granted' = [k \in Key |-> IF k[2] = i THEN 0 ELSE granted[k]]
  /\ UNCHANGED <<rowVars, at>>

(* Every player holding the item loses it: the delete waits for the grants  *)
(* that hold an entry of it, and for those that are inserting one.          *)
DeleteItem(i) ==
  /\ i \in items
  /\ DeleteRows(Player \X {i})
  /\ items' = items \ {i}
  /\ granted' = [k \in Key |-> IF k[2] = i THEN 0 ELSE granted[k]]
  /\ UNCHANGED at

Handle(r) == Apply(r) \/ Finish(r) \/ Fail(r)

Sent == [item : Item, quantity : -(MAX_QUANTITY + 1)..(MAX_QUANTITY + 1)]

Next ==
  \/ \E r \in Request :
       \/ Handle(r)
       \/ \E p \in Player, n \in 1..MAX_LINES : \E lines \in [1..n -> Sent] : Grant(r, p, lines)
  \/ \E i \in Item : SaveItem(i) \/ DeleteItem(i)

Spec == Init /\ [][Next]_vars
-----------------------------------------------------------------------------
(* "All or nothing", and no line is lost to another grant's: what a player  *)
(* holds is the sum of every line of every grant that was committed.        *)
GrantsAddUp ==
  \A k \in Key : Quantity(store[k]) = granted[k]

(* Nobody holds an item the project does not define, fewer than none of one *)
(* or more than can be stored, however grants overlap an item's removal.    *)
HoldingsAreOfItems ==
  \A k \in Key : store[k] # Absent => k[2] \in items /\ store[k] \in 0..MAX_QUANTITY

(* A grant of one line holds nothing when it waits: it may wait for other   *)
(* grants, but they never wait for each other in a circle it is part of.    *)
OneLineIsSafe ==
  \A r \in Request :
    at[r].pc = "apply" /\ Len(at[r].lines) = 1 =>
      ~CycleThrough(r, Request, LAMBDA a, b :
          /\ at[a].pc = "apply" /\ at[a].next <= Len(at[a].lines)
          /\ a # b /\ holder[Entry(a)] = b)
=============================================================================
