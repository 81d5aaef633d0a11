--------------------------------- MODULE Items ---------------------------------
(***************************************************************************)
(* The catalogue of items and the schema their attributes answer to        *)
(* (apps/inventory).  An item is saved in three steps: the request is read,*)
(* the schema is selected and the attributes checked against it, and the   *)
(* item is upserted.  Between the last two another request may replace the *)
(* schema, and items that are there are never checked again.               *)
(*                                                                         *)
(* A document and a schema are members of small sets; what a client may    *)
(* send wrong is a set of faults, one for each thing the code tells apart. *)
(***************************************************************************)
CONSTANTS
  Editor,       \* requests that save an item
  Item,
  Document,     \* attributes, as read from the text that is stored
  Schema,       \* the schemas that validate something
  Fits,         \* Fits[s]: the documents schema s has nothing against
  Unholdable,   \* documents with a number jsonb cannot hold
  Absent

ItemsAssumption ==
  Fits \in [Schema -> SUBSET Document] /\ Absent \notin Schema \cup Document

VARIABLES
  schema,    \* inventory_item_schema: the project's schema, or Absent
  item,      \* inventory_item: the attributes of each item, or Absent
  saving,    \* the item each editor is saving, and how far it is
  current,   \* auxiliary: the schemas the project had while each was saved
  since      \* auxiliary: those of the save that wrote each item

vars == <<schema, item, saving, current, since>>

Idle == [pc |-> "idle"]

Init ==
  /\ schema = Absent
  /\ item = [i \in Item |-> Absent]
  /\ saving = [e \in Editor |-> Idle]
  /\ current = [e \in Editor |-> {}]
  /\ since = [i \in Item |-> {}]
-----------------------------------------------------------------------------
(* storable.unstorable: NUL and lone surrogates. *)
unstorable == {"nul", "lone_surrogate"}

(* documents: what is not JSON, and what could be read and not stored. *)
problems == {"not_json", "too_deep", "not_finite"} \cup unstorable

(* What is wrong with a field of an ItemRequest, of all that may be wrong.  *)
_text == {"not_text", "too_long"} \cup unstorable
_name == {"blank"} \cup _text
_item_type == {"not_a_slug"}
_sprite_ref == _text
_attributes == {"not_text", "too_long", "not_an_object"} \cup problems

(* draft_of: every field is checked before any is refused. *)
draft_of(body) ==
  {<<"id", f>> : f \in body.id \cap _item_type} \cup {<<"name", f>> : f \in body.name \cap _name}
    \cup {<<"itemType", f>> : f \in body.itemType \cap _item_type}
    \cup {<<"spriteRef", f>> : f \in body.spriteRef \cap _sprite_ref}
    \cup {<<"attributes", f>> : f \in body.attributes \cap _attributes}

(* attribute_schema.read: a text in one dialect, an object or a boolean,     *)
(* that refers only inside itself.  require_usable: a schema, by the meta-   *)
(* schema, in which every reference is found.                               *)
read(raw) ==
  raw \cap ({"too_long", "not_utf8", "blank", "not_a_schema", "other_dialect", "remote_ref"}
             \cup problems)
require_usable(raw) == raw \cap {"breaks_the_meta_schema", "dangling_ref"}
-----------------------------------------------------------------------------
StartSave(e, i, body, document) ==
  /\ saving[e].pc = "idle" /\ draft_of(body) = {}
  /\ saving' = [saving EXCEPT ![e] = [pc |-> "check", item |-> i, document |-> document]]
  /\ current' = [current EXCEPT ![e] = {schema}]
  /\ UNCHANGED <<schema, item, since>>

(* Mutant: an item that is there already is not checked again. *)
Check_New(e) ==
  /\ saving[e].pc = "check"
  /\ saving' = [saving EXCEPT ![e] =
                  IF item[saving[e].item] = Absent /\ schema # Absent
                     /\ saving[e].document \notin Fits[schema]
                    THEN Idle ELSE [@ EXCEPT !.pc = "save"]]
  /\ UNCHANGED <<schema, item, current, since>>

(* The schema is selected, and the attributes are checked: a project with   *)
(* none checks nothing.                                                     *)
Check(e) ==
  /\ saving[e].pc = "check"
  /\ saving' = [saving EXCEPT ![e] =
                  IF schema # Absent /\ saving[e].document \notin Fits[schema]
                    THEN Idle ELSE [@ EXCEPT !.pc = "save"]]
  /\ UNCHANGED <<schema, item, current, since>>

(* The upsert: it creates or replaces, unless jsonb cannot hold a number.   *)
Save(e) ==
  /\ saving[e].pc = "save"
  /\ \/ /\ saving[e].document \in Unholdable
        /\ UNCHANGED <<item, since>>
     \/ /\ saving[e].document \notin Unholdable
        /\ item' = [item EXCEPT ![saving[e].item] = saving[e].document]
        /\ since' = [since EXCEPT ![saving[e].item] = current[e]]
  /\ saving' = [saving EXCEPT ![e] = Idle]
  /\ current' = [current EXCEPT ![e] = {}]
  /\ UNCHANGED schema

(* Items that are there are not validated again. *)
ReplaceSchema(raw, s) ==
  /\ read(raw) = {} /\ require_usable(raw) = {}
  /\ schema' = s
  /\ current' = [e \in Editor |-> IF saving[e].pc = "idle" THEN {} ELSE current[e] \cup {s}]
  /\ UNCHANGED <<item, saving, since>>

DeleteItem(i) ==
  /\ item[i] # Absent
  /\ item' = [item EXCEPT ![i] = Absent]
  /\ since' = [since EXCEPT ![i] = {}]
  /\ UNCHANGED <<schema, saving, current>>
-----------------------------------------------------------------------------
(* A body with nothing wrong, and some with one thing wrong. *)
Sound == [id |-> {}, name |-> {}, itemType |-> {}, spriteRef |-> {}, attributes |-> {}]
Bodies == {Sound, [Sound EXCEPT !.name = {"blank"}], [Sound EXCEPT !.attributes = {"not_finite"}]}

Next ==
  \/ \E e \in Editor : \/ \E i \in Item, body \in Bodies, d \in Document : StartSave(e, i, body, d)
                       \/ Check(e) \/ Save(e)
  \/ \E raw \in {{}, {"remote_ref"}, {"dangling_ref"}}, s \in Schema : ReplaceSchema(raw, s)
  \/ \E i \in Item : DeleteItem(i)

Spec == Init /\ [][Next]_vars
-----------------------------------------------------------------------------
(* "Create or replace an item, once its attributes satisfy the project's     *)
(* schema": an item satisfied one the project had while it was being saved, *)
(* though perhaps not the one it has by the time the item is written.       *)
ItemsFitASchema ==
  \A i \in Item : item[i] # Absent =>
    \E s \in since[i] : s = Absent \/ item[i] \in Fits[s]
=============================================================================
