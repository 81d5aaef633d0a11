--------------------------------- MODULE Waves ---------------------------------
(***************************************************************************)
(* Authors write wave documents (apps/content): one at a time, or a whole  *)
(* import in one transaction of as many upserts.  An upsert holds its row  *)
(* until the transaction ends, and an order that another transaction has   *)
(* taken or given up is settled only when that one ends: two imports can   *)
(* wait for each other, and then the database ends one.                    *)
(*                                                                         *)
(* A document is its id and its order, and a row has its publication too.  *)
(* What is wrong with a body is a set of faults.                           *)
(***************************************************************************)
EXTENDS Integers, Sequences, SequencesExt

CONSTANTS
  Author,
  Wave,
  Order,         \* the orders documents ask for
  MAX_BATCH,
  Absent, Nobody

WavesAssumption ==
  /\ Order \subseteq Int /\ MAX_BATCH \in Nat \ {0}
  /\ Nobody \notin Author /\ Absent \notin [order : Order, published : BOOLEAN]

Key == Wave

VARIABLES
  store, draft, holder,  \* the rows of wave
  app_config,            \* the configuration document, or Absent
  at,                    \* where each author's request is
  book                   \* auxiliary: the waves the committed requests add up to

INSTANCE Rows WITH Client <- Author

rowVars == <<store, draft, holder>>
vars == <<store, draft, holder, app_config, at, book>>

Document == [id : Wave, order : Order]
Idle == [pc |-> "idle"]

Init ==
  /\ AtRest([w \in Wave |-> Absent])
  /\ app_config = Absent
  /\ at = [a \in Author |-> Idle]
  /\ book = [w \in Wave |-> Absent]
-----------------------------------------------------------------------------
(* schema.check, the schema and then the texts jsonb cannot hold.  The       *)
(* fields WaveDocument.read takes are ones the schema has already required.  *)
check(faults) == faults \cap {"breaks_the_schema", "nul", "lone_surrogate"}
read(faults) == faults \cap {"not_an_object", "no_id", "no_name", "no_order", "bad_version"}

(* _accepted: a body that is a wave document, or a 400 or 422. *)
_accepted(faults) == "not_json" \notin faults /\ check(faults) = {} /\ read(faults) = {}

(* The array is cut, not parsed: what is around its elements may be wrong. *)
split_documents(faults) ==
  faults \cap {"not_utf8", "not_an_array", "unfinished", "no_comma", "more_than_one_value",
               "not_json"} = {}

(* A batch of ids is a known set: not empty, not too long, no id twice. *)
read_batch_ids(ids) == Len(ids) \in 1..MAX_BATCH /\ IsInjective(ids)

(* A configuration is any JSON text that jsonb can hold as well. *)
accept(faults) == faults \cap {"blank", "not_json", "not_utf8", "nul", "lone_surrogate"} = {}

EMPTY == "{}"
Configuration == IF app_config = Absent THEN EMPTY ELSE app_config
-----------------------------------------------------------------------------
(* create_wave: an id nobody has, as a statement of its own sees it; a PUT   *)
(* to the path the document names; an import.                               *)
Create(a, d, faults) ==
  /\ at[a].pc = "idle" /\ _accepted(faults)
  /\ store[d.id] = Absent
  /\ at' = [at EXCEPT ![a] = [pc |-> "write", todo |-> <<d>>, sent |-> <<d>>]]
  /\ UNCHANGED <<rowVars, app_config, book>>

Replace(a, path, d, faults) ==
  /\ at[a].pc = "idle" /\ _accepted(faults) /\ d.id = path
  /\ at' = [at EXCEPT ![a] = [pc |-> "write", todo |-> <<d>>, sent |-> <<d>>]]
  /\ UNCHANGED <<rowVars, app_config, book>>

Import(a, ds, faults) ==
  /\ at[a].pc = "idle" /\ split_documents(faults)
  /\ check(faults) = {} /\ read(faults) = {}
  /\ at' = [at EXCEPT ![a] = [pc |-> "write", todo |-> ds, sent |-> ds]]
  /\ UNCHANGED <<rowVars, app_config, book>>

(* Mutant: a save publishes, or withdraws, as an insert would. *)
Upserted_Fresh(old, d) == [order |-> d.order, published |-> FALSE]

(* "A save is not a publish": an update leaves the publication as it was. *)
Upserted(old, d) ==
  [order |-> d.order, published |-> IF old = Absent THEN FALSE ELSE old.published]

(* uq_wave_order: whether another transaction's end decides about an order,  *)
(* and whether another wave has it.                                         *)
Contested(a, d) ==
  \E w \in Wave \ {d.id} : /\ holder[w] \notin {Nobody, a}
                           /\ \E v \in {store[w], draft[w]} : v # Absent /\ v.order = d.order
OrderTaken(d) == \E w \in Wave \ {d.id} : draft[w] # Absent /\ draft[w].order = d.order

(* Mutant: each document of an import is saved by a commit of its own. *)
Write_Each(a) ==
  LET d == Head(at[a].todo)
  IN /\ at[a].pc = "write" /\ at[a].todo # <<>>
     /\ Lockable(a, d.id) /\ ~Contested(a, d) /\ ~OrderTaken(d)
     /\ draft' = [draft EXCEPT ![d.id] = Upserted(draft[d.id], d)]
     /\ store' = [store EXCEPT ![d.id] = Upserted(draft[d.id], d)]
     /\ at' = [at EXCEPT ![a].todo = Tail(at[a].todo)]
     /\ UNCHANGED <<holder, app_config, book>>

(* The upsert of the next document. *)
Write(a) ==
  LET d == Head(at[a].todo)
  IN /\ at[a].pc = "write" /\ at[a].todo # <<>>
     /\ Lockable(a, d.id) /\ ~Contested(a, d) /\ ~OrderTaken(d)
     /\ WriteRow(a, d.id, Upserted(draft[d.id], d))
     /\ at' = [at EXCEPT ![a].todo = Tail(at[a].todo)]
     /\ UNCHANGED <<app_config, book>>

(* The row of wave w, when it was old and the documents ds were saved. *)
Saved(old, ds, w) ==
  LET row[i \in 0..Len(ds)] ==
        IF i = 0 THEN old
        ELSE IF ds[i].id = w THEN Upserted(row[i - 1], ds[i]) ELSE row[i - 1]
  IN row[Len(ds)]

(* After the last one all are committed; the rest of the request only reads. *)
Commit(a) ==
  /\ at[a].pc = "write" /\ at[a].todo = <<>>
  /\ CommitRows(a)
  /\ book' = [w \in Wave |-> Saved(book[w], at[a].sent, w)]
  /\ at' = [at EXCEPT ![a] = Idle]
  /\ UNCHANGED app_config

(* An order that is taken, the loser of a deadlock, a connection that drops. *)
Fail(a) ==
  /\ at[a].pc = "write"
  /\ RollbackRows(a)
  /\ at' = [at EXCEPT ![a] = Idle]
  /\ UNCHANGED <<app_config, book>>
-----------------------------------------------------------------------------
(* One statement, once the row is free: it updates the newest version. *)
SetPublished(w, published) ==
  /\ store[w] # Absent /\ holder[w] = Nobody
  /\ store' = [store EXCEPT ![w].published = published]
  /\ draft' = [draft EXCEPT ![w].published = published]
  /\ book' = [book EXCEPT ![w].published = published]
  /\ UNCHANGED <<holder, app_config, at>>

(* delete, of one id, and delete_all: the rows that are there, and all of    *)
(* them or none.                                                            *)
DeleteWaves(ids) ==
  /\ read_batch_ids(ids) /\ \A w \in ToSet(ids) : store[w] # Absent
  /\ DeleteRows(ToSet(ids))
  /\ book' = [w \in Wave |-> IF w \in ToSet(ids) THEN Absent ELSE book[w]]
  /\ UNCHANGED <<app_config, at>>

(* The whole document, not a patch: the last to write has written all of it. *)
ReplaceAppConfig(document, faults) ==
  /\ accept(faults) /\ document # Configuration
  /\ app_config' = document
  /\ UNCHANGED <<rowVars, at, book>>

Faults == {{}, {"not_json"}, {"no_order"}, {"lone_surrogate"}}
Imports == {<<>>} \cup {<<d>> : d \in Document} \cup {<<d, e>> : d, e \in Document}

Handle(a) == Write(a) \/ Commit(a) \/ Fail(a)

Ask(a, faults) ==
  \/ \E d \in Document : Create(a, d, faults)
  \/ \E path \in Wave, d \in Document : Replace(a, path, d, faults)
  \/ \E ds \in Imports : Import(a, ds, faults)

Change ==
  \/ \E w \in Wave, published \in BOOLEAN : SetPublished(w, published)
  \/ \E ids \in {<<v>> : v \in Wave} \cup {<<v, w>> : v, w \in Wave} : DeleteWaves(ids)

Next ==
  \/ \E a \in Author : Handle(a) \/ \E faults \in Faults : Ask(a, faults)
  \/ Change
  \/ \E document \in {EMPTY, "hard"}, faults \in Faults : ReplaceAppConfig(document, faults)

Spec == Init /\ [][Next]_vars
-----------------------------------------------------------------------------
(* "Every document in one transaction, so a bad one leaves the catalogue    *)
(* untouched", and "A save is not a publish": whatever fails or waits, the   *)
(* waves are those of the requests that were committed, one after another.  *)
CatalogueIsWhole == store = book
=============================================================================
