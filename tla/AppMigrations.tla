------------------------------ MODULE AppMigrations ------------------------------
(***************************************************************************)
(* Running the migrations of an app (platform/plugins/migrations.py): one  *)
(* transaction under an advisory lock, the catalog listed before and after,*)
(* what changed judged against what the app owns, and all of it kept or    *)
(* rolled back.  What an app owns is in a table of the runner's, the       *)
(* ledger: a name carrying the app's prefix is the app's only when the app *)
(* made the object, since the platform's tables may carry it too.          *)
(*                                                                         *)
(* A migration is any statements at all, a COMMIT among them.  Tables,     *)
(* types and functions are objects; an index is an object that belongs to  *)
(* one.  The catalog has a fingerprint of each.  A listing sees what other *)
(* transactions have committed since the last one, as READ COMMITTED does. *)
(***************************************************************************)
EXTENDS Integers

CONSTANTS
  Runner,           \* services starting, and installs
  App,
  Object,
  Prefixed,         \* the objects whose names carry each app's prefix
  BelongsTo,        \* the table an index is of; of any other object, itself
  History,          \* the objects the platform's own history makes
  HANDED_OVER,      \* those of them, tables all, that are given to an app
  Platform,         \* stands for the platform's own history
  Unjudged,         \* stands for no one
  MAX_STATEMENTS,   \* bound: statements in one app's migrations
  Absent

AppMigrationsAssumption ==
  /\ Prefixed \in [App -> SUBSET Object] /\ History \subseteq Object
  /\ HANDED_OVER \in [App -> SUBSET History]
  /\ BelongsTo \in [Object -> Object]
  /\ \A a \in App : \A o \in HANDED_OVER[a] : BelongsTo[o] = o
  /\ MAX_STATEMENTS \in Nat /\ {Platform, Unjudged, Absent} \cap App = {}
  /\ Absent \notin Runner \cup {1, 2, Unjudged}

VARIABLES
  catalog,    \* the fingerprint of each object, or Absent
  ledger,     \* wavemaker_app_object: the app each object is recorded for, or Absent
  version,    \* alembic_version: how much of the platform's history has run
  lock,       \* the runner that holds the advisory lock, or Absent
  run,        \* where each runner is
  maker       \* auxiliary: who made each object that is there; Unjudged for good
              \* once a migration's own COMMIT has changed it, or the platform's
              \* history has made it in the middle of some run

vars == <<catalog, ledger, version, lock, run, maker>>

Idle == [pc |-> "idle"]

Init ==
  /\ catalog = [o \in Object |-> Absent] /\ ledger = [o \in Object |-> Absent]
  /\ version = {} /\ lock = Absent
  /\ run = [r \in Runner |-> Idle]
  /\ maker = [o \in Object |-> Absent]
-----------------------------------------------------------------------------
(* The transaction's own view: what is committed, under what it has done.  *)
snapshot(t) == [o \in Object |-> IF o \in t.touched THEN t.now[o] ELSE catalog[o]]

_hand_over(a) == {o \in HANDED_OVER[a] : catalog[o] # Absent /\ ledger[o] = Absent}

is_own(a, o) == o \in Prefixed[a]
Independent(o) == BelongsTo[o] = o

(* A bug: whatever carries the prefix is taken for the app's. *)
_owned_ByName(a, claims) == {o \in Object : is_own(a, o)} \cup claims

(* What the app owns: what earlier runs recorded, and what is handed over. *)
_owned(a, claims) == {o \in Object : ledger[o] = a} \cup claims

(* judge: what was created, dropped and altered between two listings, and  *)
(* whether any of it was not the app's to do.  Rows written to a table that*)
(* is gone are not counted.                                                *)
judge(before, after, a, owned, wrote) ==
  LET made    == {o \in Object : before[o] = Absent /\ after[o] # Absent}
      gone    == {o \in Object : before[o] # Absent /\ after[o] = Absent}
      changed == {o \in Object : Absent \notin {before[o], after[o]} /\ before[o] # after[o]}
      created == {o \in made : Independent(o) /\ is_own(a, o)}
      dropped == {o \in gone : BelongsTo[o] \in owned \cup created}
      outside ==
        \/ \E o \in made : Independent(o) /\ ~is_own(a, o)
        \/ \E o \in made \cup gone \cup changed :
             BelongsTo[o] \notin owned \cup created
        \/ \E o \in wrote : after[o] # Absent /\ o \notin owned \cup created
  IN [refused |-> outside, created |-> created, dropped |-> dropped]

-----------------------------------------------------------------------------
(* migrate_app: the lock, the tables handed over, what the app owns, and   *)
(* the first listing.  The platform's history, as old as the hand-overs at *)
(* least, has been run first (install.py:112-116, factory.py:132-133).     *)
Begin(r, a) ==
  /\ run[r] = Idle
  /\ UNION {HANDED_OVER[b] : b \in App} \subseteq version
  /\ lock = Absent
  /\ lock' = r
  /\ run' = [run EXCEPT ![r] =
       [pc |-> "migrating", app |-> a, claims |-> _hand_over(a),
        owned |-> _owned(a, _hand_over(a)), before |-> catalog,
        now |-> catalog, touched |-> {}, wrote |-> {}, left |-> MAX_STATEMENTS]]
  /\ UNCHANGED <<catalog, ledger, version, maker>>

Rewritten(r, objects, value) ==
  run' = [run EXCEPT
    ![r].now = [o \in Object |-> IF o \in objects THEN value ELSE run[r].now[o]],
    ![r].touched = @ \cup objects, ![r].left = @ - 1]

(* Two transactions that have changed one object wait for each other. *)
Untouched(r, o) ==
  \A s \in Runner \ {r} : run[s].pc = "migrating" => o \notin run[s].touched \cup run[s].wrote

Can(r, o) == run[r].pc = "migrating" /\ run[r].left > 0 /\ Untouched(r, o)

(* The app's revisions (_upgrade): any statement on any object. *)
Create(r, o) ==
  /\ Can(r, o) /\ snapshot(run[r])[o] = Absent
  /\ Independent(o) \/ snapshot(run[r])[BelongsTo[o]] # Absent
  /\ Rewritten(r, {o}, IF run[r].before[o] = 1 THEN 2 ELSE 1)
  /\ UNCHANGED <<catalog, ledger, version, lock, maker>>

Alter(r, o) ==
  /\ Can(r, o) /\ snapshot(run[r])[o] # Absent
  /\ Rewritten(r, {o}, 3 - snapshot(run[r])[o])
  /\ UNCHANGED <<catalog, ledger, version, lock, maker>>

(* A table goes with its indexes. *)
Drop(r, o) ==
  LET going == {p \in Object : p = o \/ BelongsTo[p] = o}
  IN /\ Can(r, o) /\ snapshot(run[r])[o] # Absent
     /\ \A p \in going : Untouched(r, p)
     /\ Rewritten(r, going, Absent)
     /\ UNCHANGED <<catalog, ledger, version, lock, maker>>

WriteRows(r, o) ==
  /\ Can(r, o) /\ Independent(o) /\ snapshot(run[r])[o] # Absent
  /\ run' = [run EXCEPT ![r].wrote = @ \cup {o}, ![r].left = @ - 1]
  /\ UNCHANGED <<catalog, ledger, version, lock, maker>>

(* A commit, after which only what is there counts: the fingerprints are   *)
(* numbered anew.                                                          *)
Committed(t) == catalog' = [o \in Object |-> IF snapshot(t)[o] = Absent THEN Absent ELSE 1]

Made(t, o) ==
  IF maker[o] = Unjudged THEN Unjudged
  ELSE IF snapshot(t)[o] = Absent THEN Absent
  ELSE IF t.before[o] = Absent THEN t.app ELSE maker[o]

Claimed(book, objects, a) ==
  [o \in Object |-> IF o \in objects /\ book[o] = Absent THEN a ELSE book[o]]

(* A bug: what the app has dropped stays recorded for it. *)
_record_Undropped(t, created, dropped) == Claimed(ledger, t.claims \cup created, t.app)

_record(t, created, dropped) ==
  LET book == Claimed(ledger, t.claims \cup created, t.app)
  IN [o \in Object |-> IF o \in dropped /\ book[o] = t.app THEN Absent ELSE book[o]]

(* A COMMIT among the statements: what came before it is there for good,   *)
(* and the lock is let go with the transaction.  What comes after is of    *)
(* another transaction and is rolled back in the end, so it is left out.   *)
Escape(r) ==
  LET t == run[r]
  IN /\ t.pc = "migrating"
     /\ Committed(t)
     /\ ledger' = Claimed(ledger, t.claims, t.app)
     /\ lock' = Absent
     /\ maker' = [o \in Object |-> IF o \in t.touched THEN Unjudged ELSE maker[o]]
     /\ run' = [run EXCEPT ![r] = [pc |-> "escaped"]]
     /\ UNCHANGED version

Ended(r) ==
  /\ run' = [run EXCEPT ![r] = Idle]
  /\ lock' = IF lock = r THEN Absent ELSE lock

(* A revision raises, or the process goes: rolled back. *)
Break(r) ==
  /\ run[r].pc = "migrating"
  /\ Ended(r)
  /\ UNCHANGED <<catalog, ledger, version, maker>>

(* The second listing and the judgement, and the end of the transaction. *)
Judgement(t) == judge(t.before, snapshot(t), t.app, t.owned, t.wrote)
Kept(t) == ~Judgement(t).refused

(* The transaction is not the one that was begun: refused, loudly. *)
Refuse(r) ==
  /\ run[r].pc = "escaped"
  /\ Ended(r)
  /\ UNCHANGED <<catalog, ledger, version, maker>>

Judge(r) ==
  LET t == run[r]
  IN /\ t.pc = "migrating"
     /\ Ended(r)
     /\ IF Kept(t)
        THEN /\ Committed(t) /\ maker' = [o \in Object |-> Made(t, o)]
             /\ ledger' = _record(t, Judgement(t).created, Judgement(t).dropped)
        ELSE UNCHANGED <<catalog, ledger, maker>>
     /\ UNCHANGED version

(* The platform's history, run by any service that starts, not under the   *)
(* advisory lock.                                                          *)
migrate(o) ==
  /\ o \in History \ version /\ version' = version \cup {o}
  /\ catalog[o] = Absent /\ (Independent(o) \/ catalog[BelongsTo[o]] # Absent)
  /\ \A r \in Runner : run[r].pc = "migrating" => o \notin run[r].touched
  /\ catalog' = [catalog EXCEPT ![o] = 1]
  /\ maker' = [maker EXCEPT ![o] =
       IF maker[o] = Unjudged \/ \E r \in Runner : run[r].pc = "migrating" THEN Unjudged ELSE Platform]
  /\ UNCHANGED <<ledger, lock, run>>

Next ==
  \/ \E r \in Runner :
       \/ \E a \in App : Begin(r, a)
       \/ \E o \in Object : Create(r, o) \/ Alter(r, o) \/ Drop(r, o) \/ WriteRows(r, o)
       \/ Escape(r) \/ Break(r) \/ Refuse(r) \/ Judge(r)
  \/ \E o \in Object : migrate(o)

Spec == Init /\ [][Next]_vars
-----------------------------------------------------------------------------
HandedTo(a, o) == maker[o] = Platform /\ o \in HANDED_OVER[a]

(* An app's migrations that are kept have changed, dropped and written     *)
(* only what the app made itself or was handed (migrations.py:1-2,         *)
(* catalog.py:12-14): whatever else the database holds, another app's      *)
(* tables and the platform's included, a kept run leaves as it was.  What  *)
(* nothing judged is left out: a table the platform makes in the middle of *)
(* a run is listed as the app's creation, and a COMMIT is past judging.    *)
(* A table that a run made and dropped again, with its rows, is no change. *)
OnlyItsOwn ==
  [][\A r \in Runner :
       run[r].pc = "migrating" /\ Judge(r) /\ Kept(run[r]) =>
         LET t == run[r]
         IN \A o \in t.touched \cup t.wrote :
              LET table == BelongsTo[o]
              IN \/ Unjudged \in {maker[o], maker[table]}
                 \/ t.before[table] = Absent /\ is_own(t.app, table)
                 \/ maker[table] = t.app \/ HandedTo(t.app, table)
                 \/ t.now[o] = t.before[o] /\ (o \in t.wrote => t.now[o] = Absent)]_vars

(* What the ledger records for an app and is there, that app made or was   *)
(* handed: no app comes to own another's table, or one of the platform's   *)
(* that happens to carry its prefix (migrations.py:25-27), however many    *)
(* runs were refused and rolled back, or let the lock go in the middle.    *)
(* What nothing judged is left out here too.                               *)
LedgerIsTrue ==
  \A o \in Object :
    Absent \notin {ledger[o], catalog[o]} /\ maker[o] # Unjudged
      => maker[o] = ledger[o] \/ HandedTo(ledger[o], o)
=============================================================================
