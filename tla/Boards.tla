-------------------------------- MODULE Boards --------------------------------
(***************************************************************************)
(* Leaderboards (apps/leaderboard): submissions, an editor's changes to the*)
(* boards, and a walk over a board's pages while both go on.               *)
(*                                                                         *)
(* A submission is one upsert that keeps the better score.  It compares    *)
(* with the newest version of the entry, which it has locked by then, in   *)
(* the direction its subselect finds in the statement's own snapshot: two  *)
(* moments, and an editor may save the board between them.  What follows   *)
(* in the transaction only reads.  Refused requests change nothing and are *)
(* not steps; players are never removed, so an entry always has a player.  *)
(***************************************************************************)
EXTENDS Integers, FiniteSets

CONSTANTS
  Request,               \* submissions under way
  Board,                 \* what is_board_id accepts; ids it refuses name nothing
  Player,                \* a set of integers: ids are compared to break ties
  MIN_SCORE, MAX_SCORE,  \* a bigint's range
  ENTRIES_PER_PAGE, MOST_ENTRIES_PER_PAGE,
  Absent, Nobody, None

ASSUME BoardsAssumption ==
  /\ Player \subseteq Int /\ IsFiniteSet(Player) /\ {MIN_SCORE, MAX_SCORE} \subseteq Int
  /\ Absent \notin MIN_SCORE..MAX_SCORE /\ Absent \notin BOOLEAN
  /\ None \notin [score : MIN_SCORE..MAX_SCORE, player : Player]
  /\ Nobody \notin Request /\ ENTRIES_PER_PAGE \in 1..MOST_ENTRIES_PER_PAGE
  /\ MOST_ENTRIES_PER_PAGE \in Nat

Key == Board \X Player

VARIABLES
  store, draft, holder,  \* the rows of leaderboard_entry: scores
  descending,  \* the direction of each board, or Absent
  at,          \* where each submission is, and what it carries
  walk,        \* a client's walk over one board: its cursor and what it has seen
  best,        \* auxiliary: the best score committed for each entry of a board
  ways,        \* auxiliary: the directions a board has had or was compared in
  still        \* auxiliary: the walked board's players whose row has not changed

INSTANCE Rows WITH Client <- Request

rowVars == <<store, draft, holder>>
vars == <<store, draft, holder, descending, at, walk, best, ways, still>>

Score == MIN_SCORE..MAX_SCORE
Idle == [pc |-> "idle"]
NoWalk == [pc |-> "off", board |-> None, after |-> None, down |-> None,
           seen |-> [p \in Player |-> 0]]

Init ==
  /\ AtRest([k \in Key |-> Absent])
  /\ descending = [b \in Board |-> Absent]
  /\ at = [r \in Request |-> Idle]
  /\ walk = NoWalk
  /\ best = [k \in Key |-> Absent]
  /\ ways = [b \in Board |-> {}]
  /\ still = {}
-----------------------------------------------------------------------------
(* What a request's fields must be: a class of values stands for each kind  *)
(* of value the validators tell apart.                                      *)
score_of(sent) == sent \in Score
board_name(sent) == sent = "readable"    \* not blank, not too long, storable
direction(sent) == IF sent = None THEN TRUE ELSE sent
page_size(limit) ==
  IF limit = None THEN ENTRIES_PER_PAGE
  ELSE IF limit < 1 THEN 1
  ELSE IF limit > MOST_ENTRIES_PER_PAGE THEN MOST_ENTRIES_PER_PAGE ELSE limit

Better(down, x, y) == IF down THEN x > y ELSE x < y

(* (x, p) comes before (y, q) in a board's order, which is total: ids differ. *)
Before(down, x, p, y, q) == Better(down, x, y) \/ (x = y /\ Better(down, p, q))

(* Mutant: the rows after a cursor are those with another score. *)
Beyond_Untied(down, after, x, p) == after = None \/ Better(down, after.score, x)

(* The rows a cursor leaves to come. *)
Beyond(down, after, x, p) == after = None \/ Before(down, after.score, after.player, x, p)

TheBetter(down, new, old) == IF old = Absent \/ Better(down, new, old) THEN new ELSE old

(* The walked board's players whose row a step changes may move on the board. *)
Note == still' = {p \in still : store'[<<walk.board, p>>] = store[<<walk.board, p>>]}
-----------------------------------------------------------------------------
(* save: an upsert, so the second of two creators replaces the first's. *)
SaveBoard(b, name, sent) ==
  /\ board_name(name) /\ (sent = None \/ sent \in BOOLEAN)
  /\ descending' = [descending EXCEPT ![b] = direction(sent)]
  /\ ways' = [ways EXCEPT ![b] = @ \cup {direction(sent)}]
  /\ UNCHANGED <<rowVars, at, walk, best, still>>

(* The board's entries go with it, by foreign key: the delete waits for the *)
(* transactions that hold one.                                              *)
DeleteBoard(b) ==
  /\ descending[b] # Absent
  /\ DeleteRows({b} \X Player)
  /\ descending' = [descending EXCEPT ![b] = Absent]
  /\ best' = [k \in Key |-> IF k[1] = b THEN Absent ELSE best[k]]
  /\ Note
  /\ UNCHANGED <<at, walk, ways>>
-----------------------------------------------------------------------------
(* The upsert begins: its subselect will read the board of this snapshot.  A *)
(* board that is not in it has no direction, and the `case` takes its `else`. *)
Submit(r, b, p, sent) ==
  /\ at[r].pc = "idle" /\ score_of(sent)
  /\ at' = [at EXCEPT ![r] = [pc |-> "write", key |-> <<b, p>>, score |-> sent,
                              down |-> descending[b] = TRUE]]
  /\ UNCHANGED <<rowVars, descending, walk, best, ways, still>>

(* Mutant: the last score is kept, as an update without the comparison would. *)
Write_Last(r) ==
  /\ at[r].pc = "write" /\ Lockable(r, at[r].key) /\ descending[at[r].key[1]] # Absent
  /\ WriteRow(r, at[r].key, at[r].score)
  /\ at' = [at EXCEPT ![r].pc = "stand"]
  /\ UNCHANGED <<descending, walk, best, ways, still>>

(* Once the row is the statement's own: an insert, which the foreign key    *)
(* refuses when the board is gone, or an update when the score is better.   *)
(* A row that keeps its score is locked all the same.                       *)
Write(r) ==
  LET key == at[r].key
      new == at[r].score
  IN /\ at[r].pc = "write" /\ Lockable(r, key)
     /\ \/ /\ draft[key] = Absent /\ descending[key[1]] = Absent
           /\ at' = [at EXCEPT ![r] = Idle]
           /\ UNCHANGED <<rowVars, ways>>
        \/ /\ draft[key] = Absent /\ descending[key[1]] # Absent
           /\ WriteRow(r, key, new)
           /\ at' = [at EXCEPT ![r].pc = "stand"]
           /\ ways' = ways
        \/ /\ draft[key] # Absent
           /\ WriteRow(r, key, TheBetter(at[r].down, new, draft[key]))
           /\ at' = [at EXCEPT ![r].pc = "stand"]
           /\ ways' = [ways EXCEPT ![key[1]] = @ \cup {at[r].down}]
     /\ UNCHANGED <<descending, walk, best, still>>

(* The board and the entry with its rank are read, and the transaction ends. *)
Stand(r) ==
  /\ at[r].pc = "stand"
  /\ CommitRows(r)
  /\ best' = [best EXCEPT ![at[r].key] = TheBetter(descending[at[r].key[1]], at[r].score, @)]
  /\ at' = [at EXCEPT ![r] = Idle]
  /\ Note
  /\ UNCHANGED <<descending, walk, ways>>

(* The connection drops, or the process dies, before the commit. *)
Fail(r) ==
  /\ at[r].pc # "idle"
  /\ RollbackRows(r)
  /\ at' = [at EXCEPT ![r] = Idle]
  /\ UNCHANGED <<descending, walk, best, ways, still>>
-----------------------------------------------------------------------------
StartWalk(b) ==
  /\ walk.pc \in {"off", "done"}
  /\ walk' = [NoWalk EXCEPT !.pc = "next", !.board = b]
  /\ still' = Player
  /\ UNCHANGED <<rowVars, descending, at, ways, best>>

(* Mutant: a damaged cursor quietly starts the walk again. *)
AskPage_Restarting(damaged) ==
  /\ walk.pc = "next"
  /\ still' = IF descending[walk.board] = Absent THEN {} ELSE still
  /\ walk' = IF descending[walk.board] = Absent THEN NoWalk
             ELSE [walk EXCEPT !.pc = "page", !.down = descending[walk.board],
                               !.after = IF damaged THEN None ELSE @]
  /\ UNCHANGED <<rowVars, descending, at, ways, best>>

(* _page, first statement: the board, or 404.  A damaged cursor is a 422,   *)
(* and the client still has the one it was given.                           *)
AskPage(damaged) ==
  /\ walk.pc = "next" /\ ~damaged
  /\ still' = IF descending[walk.board] = Absent THEN {} ELSE still
  /\ walk' = IF descending[walk.board] = Absent THEN NoWalk
             ELSE [walk EXCEPT !.pc = "page", !.down = descending[walk.board]]
  /\ UNCHANGED <<rowVars, descending, at, ways, best>>

(* Second statement: one row more than the page shows says whether to go on *)
(* after the last row shown.                                                *)
ReadPage(limit) ==
  LET row(p) == store[<<walk.board, p>>]
      beyond == {p \in Player : row(p) # Absent /\ Beyond(walk.down, walk.after, row(p), p)}
      place(p) == Cardinality({q \in beyond : Before(walk.down, row(q), q, row(p), p)})
      shown == {p \in beyond : place(p) < page_size(limit)}
  IN /\ walk.pc = "page"
     /\ \/ /\ Cardinality(beyond) > page_size(limit)
           /\ \E last \in shown :
                /\ \A p \in shown \ {last} : Before(walk.down, row(p), p, row(last), last)
                /\ walk' = [walk EXCEPT !.pc = "next",
                              !.after = [score |-> row(last), player |-> last],
                              !.seen = [p \in Player |-> @[p] + (IF p \in shown THEN 1 ELSE 0)]]
        \/ /\ Cardinality(beyond) <= page_size(limit)
           /\ walk' = [walk EXCEPT !.pc = "done", !.after = None,
                         !.seen = [p \in Player |-> @[p] + (IF p \in shown THEN 1 ELSE 0)]]
     /\ UNCHANGED <<rowVars, descending, at, ways, best, still>>

Handle(r) == Write(r) \/ Stand(r) \/ Fail(r)

Edit(b) ==
  \/ DeleteBoard(b)
  \/ \E name \in {"readable", "blank"}, sent \in BOOLEAN \cup {None} : SaveBoard(b, name, sent)

Walk ==
  \/ \E b \in Board : StartWalk(b)
  \/ \E damaged \in BOOLEAN : AskPage(damaged)
  \/ \E limit \in {None, 0, MOST_ENTRIES_PER_PAGE + 1} : ReadPage(limit)

Next ==
  \/ \E r \in Request : \/ Handle(r)
                        \/ \E b \in Board, p \in Player :
                             \E sent \in (MIN_SCORE - 1)..(MAX_SCORE + 1) : Submit(r, b, p, sent)
  \/ \E b \in Board : Edit(b)
  \/ Walk

Spec == Init /\ [][Next]_vars
-----------------------------------------------------------------------------
(* "A better score is never lost to a worse one arriving at the same        *)
(* moment": while a board has one direction, and every submission compared  *)
(* in it, each entry is the best of the scores committed for it.            *)
BestIsKept ==
  \A b \in Board, p \in Player :
    Cardinality(ways[b]) < 2 => store[<<b, p>>] = best[<<b, p>>]

(* "A row whose score does not change is returned exactly once across a     *)
(* walk, never skipped, never repeated", whatever else is written and       *)
(* whatever page sizes are asked for, on a board that keeps its direction.  *)
WalkedOnce ==
  walk.board # None /\ Cardinality(ways[walk.board]) < 2 =>
    \A p \in still :
      /\ walk.seen[p] <= IF store[<<walk.board, p>>] = Absent THEN 0 ELSE 1
      /\ walk.pc = "done" => walk.seen[p] = IF store[<<walk.board, p>>] = Absent THEN 0 ELSE 1
=============================================================================
