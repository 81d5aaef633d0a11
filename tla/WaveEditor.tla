------------------------------ MODULE WaveEditor ------------------------------
(***************************************************************************)
(* One page of the editor and the waves it edits: the store behind the wave*)
(* screen (editor/src/modules/content/stores/editor.ts), the conversion of *)
(* a movement sequence to a timeline and back (lib/timeline.ts), and the   *)
(* screen's calls to the engine (screens/WaveEditor.tsx).                  *)
(*                                                                         *)
(* The store is the page's, not the screen's: it outlives the screen, and  *)
(* so do the calls a screen has sent.  Other authors write the same waves. *)
(* Start times are left out, being derived from the order of the blocks,   *)
(* and so is what a view keeps for itself (the playhead, what is selected).*)
(***************************************************************************)
EXTENDS Naturals, FiniteSets, Sequences, SequencesExt, Listing

CONSTANTS
  Wave,         \* the ids of waves
  Text,         \* what authors may have stored: lists of sequences, one a rule
  MovementType, \* the kinds of movement, "jump" among them
  Configured,   \* what configures a movement; for a jump, where it leads
  Config,       \* the ones an author may set here
  Duration,     \* the durations an author may set
  MAX_BLOCKS, MAX_SCREENS, MAX_TEXTS,   \* bounds of the instance
  Absent

VARIABLES
  stored,       \* the engine's document of each wave, or Absent
  wave,         \* the wave in the store, or Absent
  timelines,    \* its rules as rows of blocks
  selectedRule,
  dirty,
  screen,       \* the screen that shows: its number, its wave, its save
  calls,        \* calls to the engine under way
  held          \* auxiliary: every document the engine has had of each wave

storeVars == <<wave, timelines, selectedRule, dirty>>
vars == <<stored, storeVars, screen, calls, held>>

DEFAULT_DURATION == 2

DocumentOf(w, text) == [id |-> w, spawn_rules |-> text]

Step == [type : STRING, duration : Nat, config : Configured \cup {Absent}, fires : BOOLEAN]

(* The schema, as far as an edit can break it: a sequence has a step, and a*)
(* jump says where to.                                                     *)
Accepted(d) ==
  \A r \in DOMAIN d.spawn_rules :
    /\ d.spawn_rules[r] # <<>>
    /\ \A i \in DOMAIN d.spawn_rules[r] :
         d.spawn_rules[r][i].type = "jump" => d.spawn_rules[r][i].config # Absent

WaveEditorAssumption ==
  /\ "jump" \in MovementType /\ MovementType \subseteq STRING
  /\ DEFAULT_DURATION \in Duration /\ 0 \in Duration /\ Duration \subseteq Nat
  /\ Config \subseteq Configured /\ Absent \notin Configured
  /\ \A w \in Wave, t \in Text : t \in Seq(Seq(Step)) /\ Accepted(DocumentOf(w, t))
-----------------------------------------------------------------------------
isFoldableJump(step) == step.type = "jump" /\ step.duration = 0

(* The steps of a sequence that become blocks: a jump that takes no time   *)
(* has none, unless nothing follows it.                                    *)
Drawn(sequence) ==
  {i \in DOMAIN sequence : isFoldableJump(sequence[i]) => i = Len(sequence)}

(* Where the block of step i begins, if a jump was folded into it. *)
JumpTo(sequence, i) ==
  IF i > 1 /\ isFoldableJump(sequence[i - 1]) THEN sequence[i - 1].config ELSE Absent

BlockOf(sequence, i) == [step |-> sequence[i], jumpTo |-> JumpTo(sequence, i)]

(* Mutant: a jump that ends the sequence is folded away, too. *)
toTimeline_Trailing(sequence) ==
  Closed([i \in {i \in DOMAIN sequence : ~isFoldableJump(sequence[i])} |-> BlockOf(sequence, i)])

toTimeline(sequence) == Closed([i \in Drawn(sequence) |-> BlockOf(sequence, i)])

Jump(target) == [type |-> "jump", duration |-> 0, config |-> target, fires |-> FALSE]

toSequence(blocks) ==
  FlattenSeq([k \in DOMAIN blocks |->
    IF blocks[k].jumpTo = Absent THEN <<blocks[k].step>>
    ELSE <<Jump(blocks[k].jumpTo), blocks[k].step>>])

document == DocumentOf(wave, [r \in DOMAIN timelines |-> toSequence(timelines[r])])
-----------------------------------------------------------------------------
Init ==
  /\ stored \in {f \in [Wave -> {Absent} \cup {DocumentOf(w, t) : w \in Wave, t \in Text}] :
                   \A w \in Wave : f[w] # Absent => f[w].id = w}
  /\ held = [w \in Wave |-> {stored[w]} \ {Absent}]
  /\ wave = Absent /\ timelines = <<>> /\ selectedRule = 1 /\ dirty = FALSE
  /\ screen = [number |-> 0, id |-> Absent, saving |-> FALSE]
  /\ calls = {}

(* load: the document becomes the truth and the blocks a view of it. *)
load(d) ==
  /\ wave' = d.id
  /\ timelines' = [r \in DOMAIN d.spawn_rules |-> toTimeline(d.spawn_rules[r])]
  /\ selectedRule' = 1
  /\ dirty' = FALSE

(* An edit, on the wave the screen shows: its selected rule's row. *)
Edit(blocks) ==
  /\ screen.id # Absent /\ wave # Absent
  /\ timelines' = [timelines EXCEPT ![selectedRule] = blocks]
  /\ dirty' = TRUE
  /\ UNCHANGED <<stored, wave, selectedRule, screen, calls, held>>

Row == timelines[selectedRule]

moveBlock(from, to) ==
  Edit(InsertAt(RemoveAt(Row, from), to, Row[from]))

resizeBlock(k, duration) ==
  Edit([Row EXCEPT ![k].step.duration = duration])

updateBlockConfig(k, config) ==
  Edit([Row EXCEPT ![k].step.config = config])

addBlock(type) ==
  /\ Len(Row) < MAX_BLOCKS
  /\ Edit(Append(Row, [step |-> [type |-> type, duration |-> DEFAULT_DURATION,
                                 config |-> Absent, fires |-> FALSE],
                       jumpTo |-> Absent]))

removeBlock(k) ==
  Edit(RemoveAt(Row, k))

selectRule(r) ==
  /\ screen.id # Absent /\ wave # Absent
  /\ selectedRule' = r
  /\ UNCHANGED <<stored, wave, timelines, dirty, screen, calls, held>>

Author ==
  /\ wave # Absent
  /\ \/ \E r \in DOMAIN timelines : selectRule(r)
     \/ \E type \in MovementType : addBlock(type)
     \/ \E k \in DOMAIN Row :
          \/ removeBlock(k)
          \/ \E l \in DOMAIN Row \cap {k - 1, k + 1} : moveBlock(k, l)
          \/ \E duration \in Duration : resizeBlock(k, duration)
          \/ \E config \in Config : updateBlockConfig(k, config)
-----------------------------------------------------------------------------
(* The screen of wave w opens and asks the engine for it; what the store   *)
(* had is there until the answer comes.                                    *)
Show(w) ==
  /\ screen.number < MAX_SCREENS
  /\ screen' = [number |-> screen.number + 1, id |-> w, saving |-> FALSE]
  /\ calls' = calls \cup {[kind |-> "open", screen |-> screen.number + 1, id |-> w,
                           document |-> Absent, status |-> "sent"]}
  /\ UNCHANGED <<stored, storeVars, held>>

Leave ==
  /\ screen.id # Absent
  /\ screen' = [screen EXCEPT !.id = Absent]
  /\ UNCHANGED <<stored, storeVars, calls, held>>

(* The page is loaded anew: the store and the calls' listeners are gone. *)
Reload ==
  /\ wave' = Absent /\ timelines' = <<>> /\ selectedRule' = 1 /\ dirty' = FALSE
  /\ screen' = [screen EXCEPT !.id = Absent, !.saving = FALSE]
  /\ calls' = {}
  /\ UNCHANGED <<stored, held>>

save ==
  /\ screen.id # Absent /\ wave # Absent /\ dirty /\ ~screen.saving
  /\ Cardinality(held[screen.id]) < MAX_TEXTS
  /\ screen' = [screen EXCEPT !.saving = TRUE]
  /\ calls' = calls \cup {[kind |-> "save", screen |-> screen.number, id |-> screen.id,
                           document |-> document, status |-> "sent"]}
  /\ UNCHANGED <<stored, storeVars, held>>

Answer(c, answered) == calls' = (calls \ {c}) \cup {answered}
Denied(c) == [c EXCEPT !.status = "refused"]

(* get_wave_document: the stored bytes, or 404. *)
ServeOpen(c) ==
  /\ c.kind = "open" /\ c.status = "sent"
  /\ Answer(c, IF stored[c.id] = Absent THEN Denied(c)
               ELSE [c EXCEPT !.status = "ok", !.document = stored[c.id]])
  /\ UNCHANGED <<stored, storeVars, screen, held>>

Stores(w, d) ==
  /\ stored' = [stored EXCEPT ![w] = d]
  /\ held' = [held EXCEPT ![w] = @ \cup {d}]

(* Mutant: replace_wave takes the path's word for which wave it is. *)
ServeSave_Unchecked(c) ==
  /\ c.kind = "save" /\ c.status = "sent"
  /\ IF Accepted(c.document)
     THEN Stores(c.id, c.document) /\ Answer(c, [c EXCEPT !.status = "ok"])
     ELSE Answer(c, Denied(c)) /\ UNCHANGED <<stored, held>>
  /\ UNCHANGED <<storeVars, screen>>

(* replace_wave: the schema, then the id, then the document is stored. *)
ServeSave(c) ==
  /\ c.kind = "save" /\ c.status = "sent"
  /\ IF Accepted(c.document) /\ c.document.id = c.id
     THEN Stores(c.id, c.document) /\ Answer(c, [c EXCEPT !.status = "ok"])
     ELSE Answer(c, Denied(c)) /\ UNCHANGED <<stored, held>>
  /\ UNCHANGED <<storeVars, screen>>

(* Some refusal of the engine's that is not the document's fault (its order*)
(* is another wave's), before anything is stored.                          *)
Refuse(c) ==
  /\ c.status = "sent"
  /\ Answer(c, Denied(c))
  /\ UNCHANGED <<stored, storeVars, screen, held>>

Done(c) ==
  /\ calls' = calls \ {c}
  /\ screen' = IF c.kind = "save" /\ c.screen = screen.number
               THEN [screen EXCEPT !.saving = FALSE] ELSE screen
  /\ UNCHANGED <<stored, held>>

Opened(c) ==
  /\ c.kind = "open" /\ c.status = "ok"
  /\ load(c.document)
  /\ Done(c)

(* Mutant: whatever the engine answers, the document counts as saved. *)
Saved_Whatever(c) ==
  /\ c.kind = "save" /\ c.status # "sent"
  /\ load(c.document)
  /\ Done(c)

(* The document that was sent is loaded, whatever the author did since. *)
Saved(c) ==
  /\ c.kind = "save" /\ c.status = "ok"
  /\ load(c.document)
  /\ Done(c)

(* A refusal, or no answer at all: the error shows and the store stays. *)
Failed(c) ==
  /\ Done(c)
  /\ UNCHANGED storeVars

OtherAuthor(w) ==
  /\ \/ \E t \in Text :
          /\ Cardinality(held[w]) < MAX_TEXTS
          /\ Stores(w, DocumentOf(w, t))
     \/ /\ stored[w] # Absent
        /\ stored' = [stored EXCEPT ![w] = Absent]
        /\ UNCHANGED held
  /\ UNCHANGED <<storeVars, screen, calls>>

Next ==
  \/ Author \/ save \/ Leave \/ Reload
  \/ \E w \in Wave : Show(w) \/ OtherAuthor(w)
  \/ \E c \in calls : ServeOpen(c) \/ ServeSave(c) \/ Refuse(c)
                      \/ Opened(c) \/ Saved(c) \/ Failed(c)

Spec == Init /\ [][Next]_vars
-----------------------------------------------------------------------------
(* What plays: a jump that takes no time and is followed by another such   *)
(* leads nowhere, and fires nothing.                                       *)
Playing(sequence) ==
  {i \in DOMAIN sequence : isFoldableJump(sequence[i]) /\ i < Len(sequence)
                             => ~isFoldableJump(sequence[i + 1])}

AsPlayed(step) == IF isFoldableJump(step) THEN Jump(step.config) ELSE step

Played(sequence) == Closed([i \in Playing(sequence) |-> AsPlayed(sequence[i])])

PlayedBy(d) == [r \in DOMAIN d.spawn_rules |-> Played(d.spawn_rules[r])]

(* No document is ever stored under another wave's id, although a screen   *)
(* shows, edits and saves whatever the store has: another wave's, until the*)
(* answer to the screen's own question comes, or when one comes late.      *)
NoWaveUnderAnothersName ==
  \A w \in DOMAIN stored : stored[w] # Absent => stored[w].id = w

(* A store that is not dirty plays what the engine has or had of its wave: *)
(* nothing that was refused, or edited since, counts as saved, and nothing *)
(* is lost by drawing a sequence and writing it out again.                 *)
CleanIsStored ==
  wave # Absent /\ ~dirty => \E d \in held[wave] : PlayedBy(d) = PlayedBy(document)
=============================================================================
