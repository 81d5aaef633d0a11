-------------------------------- MODULE Rows --------------------------------
(***************************************************************************)
(* Table rows as transactions under PostgreSQL's read committed isolation  *)
(* see them.  PostgreSQL is not part of the repository: what is here is    *)
(* what the statements the service sends rely on.                          *)
(*                                                                         *)
(* A row has a committed version, store[k], and a newest version, draft[k],*)
(* which only the transaction holding the row's lock may have written.     *)
(* A statement that wants the row waits for that transaction to end, goes  *)
(* on from the newest version, and keeps the lock until its own transaction*)
(* commits or rolls back.  Inserting a key takes the same lock: a second   *)
(* insert of the key waits for the first one's transaction.                *)
(***************************************************************************)
CONSTANTS
  Client,     \* the connections, each with at most one open transaction
  Key,        \* the primary keys of the table
  Absent,     \* the version of a row that does not exist
  Nobody      \* the holder of a row no open transaction has locked

VARIABLES
  store,      \* committed version of each row
  draft,      \* newest version of each row, committed or not
  holder      \* the transaction that holds each row's lock

(* No row is locked and nothing is uncommitted. *)
AtRest(rows) ==
  /\ store = rows
  /\ draft = rows
  /\ holder = [k \in Key |-> Nobody]

(* A transaction may lock a free row, and a row it has locked already. *)
Lockable(c, k) == holder[k] \in {Nobody, c}

(* One statement of c's writes version v of row k, and locks the row. *)
WriteRow(c, k, v) ==
  /\ draft' = [draft EXCEPT ![k] = v]
  /\ holder' = [holder EXCEPT ![k] = c]
  /\ store' = store

(* One statement writes version v(k) of every row k in ks. *)
WriteRows(c, ks, v(_)) ==
  /\ draft' = [k \in Key |-> IF k \in ks THEN v(k) ELSE draft[k]]
  /\ holder' = [k \in Key |-> IF k \in ks THEN c ELSE holder[k]]
  /\ store' = store

Released(c) == [k \in Key |-> IF holder[k] = c THEN Nobody ELSE holder[k]]

(* COMMIT: everything c wrote becomes the committed version at once. *)
CommitRows(c) ==
  /\ store' = [k \in Key |-> IF holder[k] = c THEN draft[k] ELSE store[k]]
  /\ draft' = draft
  /\ holder' = Released(c)

(* ROLLBACK: everything c wrote is gone. *)
RollbackRows(c) ==
  /\ draft' = [k \in Key |-> IF holder[k] = c THEN store[k] ELSE draft[k]]
  /\ store' = store
  /\ holder' = Released(c)

(* Another session's DELETE of the rows in ks, committed in one step.  It   *)
(* waits for their locks, and knows nothing of rows not committed yet.     *)
DeleteRows(ks) ==
  /\ \A k \in ks : holder[k] = Nobody
  /\ store' = [k \in Key |-> IF k \in ks THEN Absent ELSE store[k]]
  /\ draft' = [k \in Key |-> IF k \in ks THEN Absent ELSE draft[k]]
  /\ holder' = holder

(* Some of the waiters wait for each other all the way round, c among them. *)
CycleThrough(c, Waiter, waitsFor(_, _)) ==
  \E S \in SUBSET Waiter :
    /\ c \in S
    /\ \E order \in [S -> S] :
         /\ \A a \in S : waitsFor(a, order[a])
         /\ {order[a] : a \in S} = S
=============================================================================
