------------------------------ MODULE Serving ------------------------------
(***************************************************************************)
(* How a game client keeps its copy of the content current                 *)
(* (content/adapters/http.py, docs/concepts/caching.md): a poll of         *)
(* /status, the list of published waves, their documents, and the active   *)
(* level, each answered "not modified" when the tag the client sends is    *)
(* the tag of what the service has.                                        *)
(*                                                                         *)
(* A hash is its input: the tag of a catalogue is the set of facts it was  *)
(* taken over, the tag of a document is the document.  Changes to levels   *)
(* are whole (LevelBook), and the service keeps nothing about a client, so *)
(* one client is enough.                                                   *)
(***************************************************************************)
EXTENDS Naturals, Sequences

CONSTANTS Wave, Level, Text, Lists, MaxStamp, Absent

ASSUME ServingAssumption ==
  /\ MaxStamp \in Nat
  /\ \A names \in Lists : names \in Seq(Wave)
  /\ Absent \notin Level /\ Absent \notin Seq(Wave)
  /\ Absent \notin [id : Level, names : {Absent} \cup Seq(Wave),
                     found : Seq([id : Wave, created : Nat, updated : Nat])]

VARIABLES
  clock,      \* the last moment a wave was stamped with
  wave,       \* each wave's row
  level,      \* the list of each level
  active,     \* the active level, or Absent
  hash,       \* client: the content hash of what it plays
  list,       \* client: its catalogue, which is its own tag
  docs,       \* client: the document it holds for each wave
  pc,         \* client: what it does next
  fetched,    \* client: the catalogue it is fetching
  missing,    \* client: the documents it has yet to ask for
  read,       \* the service, in the middle of answering for the active level
  levelTag,   \* client: the tag of its active level
  levelBody   \* client: its active level

contentVars == <<clock, wave, level, active>>
catalogueVars == <<hash, list, docs, pc, fetched, missing>>
levelVars == <<read, levelTag, levelBody>>
vars == <<contentVars, catalogueVars, levelVars>>

Init ==
  /\ clock = 0
  /\ wave = [w \in Wave |-> Absent]
  /\ level = [l \in Level |-> Absent]
  /\ active = Absent
  /\ hash = Absent /\ list = Absent
  /\ docs = [w \in Wave |-> Absent]
  /\ pc = "play" /\ fetched = Absent /\ missing = {}
  /\ read = Absent
  /\ levelTag = Absent /\ levelBody = Absent
-----------------------------------------------------------------------------
(* The authors.  Every write of a wave takes the time it is made at. *)
Stamped == clock < MaxStamp /\ clock' = clock + 1

(* Mutant: replacing a document leaves its row's time alone. *)
Save_Unstamped(w, t) ==
  /\ Stamped
  /\ wave' = [wave EXCEPT ![w] =
       IF @ = Absent
         THEN [created |-> clock', updated |-> clock', published |-> FALSE, text |-> t]
         ELSE [@ EXCEPT !.text = t]]
  /\ UNCHANGED <<level, active, catalogueVars, levelVars>>

(* save: created as a draft, or replaced without touching publication. *)
Save(w, t) ==
  /\ Stamped
  /\ wave' = [wave EXCEPT ![w] =
       IF @ = Absent
         THEN [created |-> clock', updated |-> clock', published |-> FALSE, text |-> t]
         ELSE [@ EXCEPT !.text = t, !.updated = clock']]
  /\ UNCHANGED <<level, active, catalogueVars, levelVars>>

(* Mutant: publication does not move updated_at. *)
SetPublished_Unstamped(w, p) ==
  /\ wave[w] # Absent
  /\ Stamped
  /\ wave' = [wave EXCEPT ![w].published = p]
  /\ UNCHANGED <<level, active, catalogueVars, levelVars>>

SetPublished(w, p) ==
  /\ wave[w] # Absent
  /\ Stamped
  /\ wave' = [wave EXCEPT ![w].published = p, ![w].updated = clock']
  /\ UNCHANGED <<level, active, catalogueVars, levelVars>>

Without(names, w) ==
  LET kept[i \in 0..Len(names)] ==
        IF i = 0 THEN <<>>
        ELSE IF names[i] = w THEN kept[i - 1] ELSE Append(kept[i - 1], names[i])
  IN IF names = Absent THEN Absent ELSE kept[Len(names)]

DeleteWave(w) ==
  /\ wave[w] # Absent
  /\ wave' = [wave EXCEPT ![w] = Absent]
  /\ level' = [l \in Level |-> Without(level[l], w)]
  /\ UNCHANGED <<clock, active, catalogueVars, levelVars>>

WriteLevel(l, names) ==
  /\ \A i \in DOMAIN names : wave[names[i]] # Absent
  /\ level' = [level EXCEPT ![l] = names]
  /\ UNCHANGED <<clock, wave, active, catalogueVars, levelVars>>

ActivateLevel(l) ==
  /\ level[l] # Absent
  /\ active' = l
  /\ UNCHANGED <<clock, wave, level, catalogueVars, levelVars>>

DeleteLevel(l) ==
  /\ level[l] # Absent
  /\ level' = [level EXCEPT ![l] = Absent]
  /\ active' = IF active = l THEN Absent ELSE active
  /\ UNCHANGED <<clock, wave, catalogueVars, levelVars>>

Author ==
  \/ \E w \in Wave : \/ \E t \in Text : Save(w, t)
                     \/ \E p \in BOOLEAN : SetPublished(w, p)
                     \/ DeleteWave(w)
  \/ \E l \in Level : \/ \E names \in Lists : WriteLevel(l, names)
                      \/ ActivateLevel(l) \/ DeleteLevel(l)
-----------------------------------------------------------------------------
Published(w) == wave[w] # Absent /\ wave[w].published

(* What a list shows of a wave; its document is not in it. *)
Summary(w) == [id |-> w, created |-> wave[w].created, updated |-> wave[w].updated]

Catalogue == {Summary(w) : w \in {v \in Wave : Published(v)}}

(* of_catalogue sorts by id: what it hashes is a set of facts. *)
OfCatalogue(summaries) == summaries

(* Mutant: the list has a tag function of its own, over the ids. *)
ListTag_Separate(summaries) == {s.id : s \in summaries}

(* The tag of the list, by the function that answers /status. *)
ListTag(summaries) == OfCatalogue(summaries)

Matches(sent, tag) == sent # Absent /\ sent = tag

Names(summaries) == {s.id : s \in summaries}

(* On launch the client polls.  Nothing changed: it plays from its copy. *)
Poll ==
  /\ pc = "play"
  /\ pc' = IF OfCatalogue(Catalogue) = hash THEN "play" ELSE "list"
  /\ UNCHANGED <<contentVars, hash, list, docs, fetched, missing, levelVars>>

FetchList ==
  /\ pc = "list"
  /\ fetched' = IF list # Absent /\ Matches(ListTag(list), ListTag(Catalogue))
                  THEN list ELSE Catalogue
  /\ missing' = Names(fetched')
  /\ pc' = "documents"
  /\ UNCHANGED <<contentVars, hash, list, docs, levelVars>>

(* A draft and a wave that is not there are both a 404. *)
FetchDocument(w) ==
  /\ pc = "documents" /\ w \in missing
  /\ docs' = [docs EXCEPT ![w] = IF ~Published(w) THEN Absent
                                 ELSE IF Matches(@, wave[w].text) THEN @ ELSE wave[w].text]
  /\ missing' = missing \ {w}
  /\ UNCHANGED <<contentVars, hash, list, pc, fetched, levelVars>>

(* Everything is there: the list is kept with the tag it came with, which *)
(* is the hash a poll would have answered at that moment.                  *)
Keep ==
  /\ pc = "documents" /\ missing = {}
  /\ list' = fetched /\ hash' = ListTag(fetched)
  /\ pc' = "play" /\ fetched' = Absent
  /\ UNCHANGED <<contentVars, docs, missing, levelVars>>

(* The network or the game goes away; the documents that came are stored. *)
GiveUp ==
  /\ pc # "play"
  /\ pc' = "play" /\ fetched' = Absent /\ missing' = {}
  /\ UNCHANGED <<contentVars, hash, list, docs, levelVars>>

(* active_level and _published_in: the level, then the waves it names,     *)
(* then each wave, in a statement of its own, while authors go on writing. *)
ReadLevel ==
  /\ read = Absent /\ active # Absent
  /\ read' = [id |-> active, names |-> Absent, found |-> <<>>]
  /\ UNCHANGED <<contentVars, catalogueVars, levelTag, levelBody>>

ReadNames ==
  /\ read # Absent /\ read.names = Absent
  /\ read' = [read EXCEPT !.names = IF level[read.id] = Absent THEN <<>> ELSE level[read.id]]
  /\ UNCHANGED <<contentVars, catalogueVars, levelTag, levelBody>>

ReadWave ==
  /\ read # Absent /\ read.names # Absent /\ read.names # <<>>
  /\ LET w == Head(read.names)
     IN  read' = [read EXCEPT !.names = Tail(@),
                              !.found = IF Published(w) THEN Append(@, Summary(w)) ELSE @]
  /\ UNCHANGED <<contentVars, catalogueVars, levelTag, levelBody>>

Facts(summaries) == {summaries[i] : i \in DOMAIN summaries}
LevelTag == OfCatalogue(Facts(read.found))
LevelAnswer == [id |-> read.id, waves |-> read.found]
Unmodified == Matches(levelTag, LevelTag)

AnswerLevel ==
  /\ read # Absent /\ read.names = <<>>
  /\ levelBody' = IF Unmodified THEN levelBody ELSE LevelAnswer
  /\ levelTag' = LevelTag
  /\ read' = Absent
  /\ UNCHANGED <<contentVars, catalogueVars>>

Client == Poll \/ FetchList \/ (\E w \in Wave : FetchDocument(w)) \/ Keep

Next ==
  \/ Author \/ Client \/ GiveUp
  \/ ReadLevel \/ ReadNames \/ ReadWave \/ AnswerLevel

Spec == Init /\ [][Next]_vars

(* A client that polls again and again, on a network that works again some *)
(* day.  Nothing is assumed of the authors.                                 *)
FairSpec ==
  /\ Spec
  /\ WF_vars(Poll) /\ WF_vars(FetchList) /\ WF_vars(Keep)
  /\ \A w \in Wave : WF_vars(FetchDocument(w))
  /\ <>[][GiveUp => Keep]_vars
-----------------------------------------------------------------------------
(* "Unchanged: play from cache.  No further requests."  When the poll says  *)
(* unchanged, the client has every published wave, and has the document the *)
(* service has now, though the poll reads no document and the list and the  *)
(* documents were fetched one by one while authors wrote.                   *)
PlaysWhatIsPublished ==
  hash = OfCatalogue(Catalogue) =>
    /\ pc = "play" => list = Catalogue
    /\ \A w \in Wave : Published(w) /\ pc = "play" => docs[w] = wave[w].text

(* Poll and list never disagree for good: a client that keeps polling gets  *)
(* to where the poll says unchanged, each time the authors leave the waves  *)
(* alone (domain/hashing.py: "It never settles, and nothing in a log looks  *)
(* wrong").                                                                 *)
Settles == []<>(hash = OfCatalogue(Catalogue))

(* Withdrawing a wave is seen: whoever holds a level with a wave in it as   *)
(* the service has it now holds one that is published.  A wave withdrawn    *)
(* while the level is being read may still be shown, as it was before.      *)
LevelShowsNoDraft ==
  levelBody # Absent =>
    \A i \in DOMAIN levelBody.waves :
      LET shown == levelBody.waves[i]
      IN  wave[shown.id] # Absent /\ Summary(shown.id) = shown => Published(shown.id)

(* "Your cached copy is current": a 304 for the active level leaves the     *)
(* client with the answer it would have been sent.                          *)
LevelCopyIsCurrent ==
  [][AnswerLevel /\ Unmodified => levelBody = LevelAnswer]_vars
=============================================================================
