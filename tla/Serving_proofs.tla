---------------------------- MODULE Serving_proofs ----------------------------
(***************************************************************************)
(* "Unchanged: play from cache" is safe, for any waves, documents, authors'*)
(* steps and bound on the time: a client that is told so has every         *)
(* published wave, and the document the service has now.                   *)
(*                                                                         *)
(* The poll compares summaries, and no summary has the document in it.  But*)
(* every write of a wave takes a later time than any a client has heard of,*)
(* so a summary that is still true vouches for the document that was       *)
(* fetched after it.  That is the invariant: of the list a client keeps,   *)
(* and of what it has fetched so far of the list it is fetching.           *)
(***************************************************************************)
EXTENDS Serving, Numbers

Row == [created : Nat, updated : Nat, published : BOOLEAN, text : Text]
Shown == [id : Wave, created : Nat, updated : Nat]

TypeOK ==
  /\ clock \in Nat
  /\ wave \in [Wave -> {Absent} \cup Row]
  /\ docs \in [Wave -> {Absent} \cup Text]
  /\ hash = list
  /\ list # Absent => list \in SUBSET Shown
  /\ pc = "documents" => fetched \in SUBSET Shown

(* No stamp is in the future: not a row's, nor any the client has seen. *)
StampsArePast ==
  /\ \A w \in Wave : wave[w] # Absent => wave[w].updated <= clock
  /\ list # Absent => \A s \in list : s.updated <= clock
  /\ pc = "documents" => \A s \in fetched : s.updated <= clock

(* If a summary is still a published wave's, the client has its document. *)
Vouches(s) == Published(s.id) /\ Summary(s.id) = s => docs[s.id] = wave[s.id].text

ListVouches == list # Absent => \A s \in list : Vouches(s)

FetchedVouch == pc = "documents" => \A s \in fetched : s.id \in missing \/ Vouches(s)

Inv == TypeOK /\ StampsArePast /\ ListVouches /\ FetchedVouch

LEMMA InitInv == ASSUME Init PROVE Inv
BY DEF Init, Inv, TypeOK, StampsArePast, ListVouches, FetchedVouch

(* A wave's row is written at a new time: what vouched for it no longer does. *)
LEMMA WrittenInv ==
  ASSUME Inv, NEW w \in Wave, NEW row \in Row, row.updated = clock + 1,
         clock' = clock + 1, wave' = [wave EXCEPT ![w] = row],
         UNCHANGED catalogueVars
  PROVE  Inv'
<1>1. clock \in Nat /\ UNCHANGED <<hash, list, docs, pc, fetched, missing>>
  BY DEF Inv, TypeOK, catalogueVars
<1>2. wave'[w] = row /\ \A v \in Wave \ {w} : wave'[v] = wave[v]
  BY DEF Inv, TypeOK
<1>3. TypeOK'
  BY <1>1 DEF Inv, TypeOK
<1>4. row.updated <= clock'
  BY <1>1
<1>5. \A t \in Nat : t <= clock => t <= clock'
  BY <1>1
<1>6. \A v \in Wave : wave'[v] # Absent => wave'[v].updated <= clock'
  BY <1>2, <1>4, <1>5 DEF Inv, TypeOK, StampsArePast, Row
<1>7. StampsArePast'
  BY <1>1, <1>5, <1>6 DEF Inv, TypeOK, StampsArePast, Shown
<1>8. ASSUME NEW s \in Shown, s.updated <= clock, Vouches(s)
      PROVE  Vouches(s)'
  <2>1. CASE s.id = w
    <3>1. wave'[w].updated # s.updated
      BY <1>1, <1>2, <1>8 DEF Shown
    <3> QED
      BY <2>1, <3>1 DEF Vouches, Summary
  <2>2. CASE s.id # w
    BY <1>1, <1>2, <1>8, <2>2 DEF Vouches, Summary, Published, Shown
  <2> QED
    BY <2>1, <2>2
<1>9. ListVouches'
  BY <1>1, <1>8 DEF Inv, TypeOK, StampsArePast, ListVouches
<1>10. FetchedVouch'
  BY <1>1, <1>8 DEF Inv, TypeOK, StampsArePast, FetchedVouch
<1> QED
  BY <1>3, <1>7, <1>9, <1>10 DEF Inv

LEMMA SaveInv ==
  ASSUME Inv, NEW w \in Wave, NEW t \in Text, Save(w, t)
  PROVE  Inv'
<1> DEFINE draft == [created |-> clock + 1, updated |-> clock + 1, published |-> FALSE, text |-> t]
           row == IF wave[w] = Absent THEN draft
                  ELSE [wave[w] EXCEPT !.text = t, !.updated = clock + 1]
<1>1. clock' = clock + 1 /\ wave' = [wave EXCEPT ![w] = row] /\ UNCHANGED catalogueVars
  BY DEF Save, Stamped
<1>2. clock + 1 \in Nat
  BY DEF Inv, TypeOK
<1>3. row \in Row /\ row.updated = clock + 1
  <2>1. CASE wave[w] = Absent
    BY <1>2, <2>1 DEF Row
  <2>2. CASE wave[w] # Absent
    <3>1. wave[w] \in Row
      BY <2>2 DEF Inv, TypeOK
    <3>2. [wave[w] EXCEPT !.text = t] \in Row
      BY <3>1 DEF Row
    <3>3. [[wave[w] EXCEPT !.text = t] EXCEPT !.updated = clock + 1] \in Row
      BY <1>2, <3>2 DEF Row
    <3>4. row = [[wave[w] EXCEPT !.text = t] EXCEPT !.updated = clock + 1]
      BY <2>2, <3>1 DEF Row
    <3> QED
      BY <3>1, <3>3, <3>4 DEF Row
  <2> QED
    BY <2>1, <2>2
<1> HIDE DEF row
<1> QED
  BY <1>1, <1>3, WrittenInv

LEMMA SetPublishedInv ==
  ASSUME Inv, NEW w \in Wave, NEW p \in BOOLEAN, SetPublished(w, p)
  PROVE  Inv'
<1> DEFINE row == [[wave[w] EXCEPT !.published = p] EXCEPT !.updated = clock + 1]
<1>1. wave[w] \in Row
  BY DEF SetPublished, Inv, TypeOK
<1>2. clock' = clock + 1 /\ UNCHANGED catalogueVars
      /\ wave' = [wave EXCEPT ![w].published = p, ![w].updated = clock + 1]
  BY DEF SetPublished, Stamped
<1>3. wave' = [wave EXCEPT ![w] = row]
  BY <1>2 DEF Inv, TypeOK
<1>4. clock + 1 \in Nat
  BY DEF Inv, TypeOK
<1>5. [wave[w] EXCEPT !.published = p] \in Row
  BY <1>1 DEF Row
<1>6. row \in Row /\ row.updated = clock + 1
  BY <1>4, <1>5 DEF Row
<1> HIDE DEF row
<1> QED
  BY <1>2, <1>3, <1>6, WrittenInv

LEMMA DeleteWaveInv ==
  ASSUME Inv, NEW w \in Wave, DeleteWave(w)
  PROVE  Inv'
<1>1. wave' = [wave EXCEPT ![w] = Absent]
      /\ UNCHANGED <<clock, hash, list, docs, pc, fetched, missing>>
  BY DEF DeleteWave, catalogueVars
<1>2. TypeOK'
  BY <1>1 DEF Inv, TypeOK
<1>3. StampsArePast'
  BY <1>1 DEF Inv, TypeOK, StampsArePast
<1>4. ASSUME NEW s \in Shown, Vouches(s) PROVE Vouches(s)'
  BY <1>1, <1>4 DEF Inv, TypeOK, Vouches, Published, Summary, Shown
<1>5. ListVouches'
  BY <1>1, <1>4 DEF Inv, TypeOK, ListVouches
<1>6. FetchedVouch'
  BY <1>1, <1>4 DEF Inv, TypeOK, FetchedVouch
<1> QED
  BY <1>2, <1>3, <1>5, <1>6 DEF Inv
-----------------------------------------------------------------------------
(* Steps that change neither the waves nor what the client has. *)
LEMMA UnchangedInv ==
  ASSUME Inv, UNCHANGED <<clock, wave, catalogueVars>>
  PROVE  Inv'
BY DEF catalogueVars, Inv, TypeOK, StampsArePast, ListVouches, FetchedVouch, Vouches,
   Published,
       Summary

LEMMA PollInv ==
  ASSUME Inv, Poll \/ GiveUp
  PROVE  Inv'
<1>1. pc' # "documents" /\ UNCHANGED <<clock, wave, hash, list, docs>>
  BY DEF Poll, GiveUp, contentVars
<1> QED
  BY <1>1
     DEF Inv, TypeOK, StampsArePast, ListVouches, FetchedVouch, Vouches, Published,
     Summary

LEMMA CatalogueShown ==
  ASSUME Inv
  PROVE  Catalogue \in SUBSET Shown /\ \A s \in Catalogue : s.updated <= clock
<1> SUFFICES ASSUME NEW w \in Wave, Published(w)
             PROVE  Summary(w) \in Shown /\ Summary(w).updated <= clock
  BY DEF Catalogue
<1>1. wave[w] # Absent /\ wave[w] \in Row
  BY DEF Published, Inv, TypeOK
<1> QED
  BY <1>1 DEF Summary, Shown, Row, Inv, StampsArePast

LEMMA FetchListInv ==
  ASSUME Inv, FetchList
  PROVE  Inv'
<1>1. fetched' = Catalogue /\ missing' = Names(fetched') /\ pc' = "documents"
      /\ UNCHANGED <<clock, wave, hash, list, docs>>
  BY DEF FetchList, contentVars, Matches, ListTag, OfCatalogue
<1>2. TypeOK' /\ StampsArePast'
  BY <1>1, CatalogueShown DEF Inv, TypeOK, StampsArePast
<1>3. ListVouches'
  BY <1>1 DEF Inv, ListVouches, Vouches, Published, Summary
<1>4. FetchedVouch'
  BY <1>1 DEF FetchedVouch, Names
<1> QED
  BY <1>2, <1>3, <1>4 DEF Inv

(* The document that comes is the one the service has now, if it has any. *)
LEMMA FetchDocumentInv ==
  ASSUME Inv, NEW w \in Wave, FetchDocument(w)
  PROVE  Inv'
<1>1. pc = "documents" /\ missing' = missing \ {w}
      /\ UNCHANGED <<clock, wave, hash, list, pc, fetched>>
  BY DEF FetchDocument, contentVars
<1>2. docs' = [docs EXCEPT ![w] = IF ~Published(w) THEN Absent ELSE wave[w].text]
  BY DEF FetchDocument, Matches
<1>3. Published(w) => wave[w].text \in Text
  BY DEF Inv, TypeOK, Published, Row
<1>4. TypeOK'
  BY <1>1, <1>2, <1>3 DEF Inv, TypeOK
<1>5. StampsArePast'
  BY <1>1 DEF Inv, StampsArePast
<1>6. ASSUME NEW s \in Shown, s.id = w \/ Vouches(s) PROVE Vouches(s)'
  BY <1>1, <1>2, <1>6 DEF Inv, TypeOK, Vouches, Published, Summary, Shown
<1>7. ListVouches'
  BY <1>1, <1>6 DEF Inv, TypeOK, ListVouches
<1>8. FetchedVouch'
  BY <1>1, <1>6 DEF Inv, TypeOK, FetchedVouch
<1> QED
  BY <1>4, <1>5, <1>7, <1>8 DEF Inv

LEMMA KeepInv ==
  ASSUME Inv, Keep
  PROVE  Inv'
<1>1. /\ pc = "documents" /\ missing = {} /\ list' = fetched /\ hash' = fetched /\ pc' = "play"
      /\ UNCHANGED <<clock, wave, docs>>
  BY DEF Keep, contentVars, ListTag, OfCatalogue
<1>2. TypeOK' /\ StampsArePast'
  BY <1>1 DEF Inv, TypeOK, StampsArePast
<1>3. ListVouches' /\ FetchedVouch'
  BY <1>1 DEF Inv, ListVouches, FetchedVouch, Vouches, Published, Summary
<1> QED
  BY <1>2, <1>3 DEF Inv

LEMMA StepInv ==
  ASSUME Inv, [Next]_vars
  PROVE  Inv'
<1>1. CASE Author
  <2>1. ASSUME NEW w \in Wave, NEW t \in Text, Save(w, t) PROVE Inv'
    BY <2>1, SaveInv
  <2>2. ASSUME NEW w \in Wave, NEW p \in BOOLEAN, SetPublished(w, p) PROVE Inv'
    BY <2>2, SetPublishedInv
  <2>3. ASSUME NEW w \in Wave, DeleteWave(w) PROVE Inv'
    BY <2>3, DeleteWaveInv
  <2>4. ASSUME NEW l \in Level, NEW names \in Lists, WriteLevel(l, names) PROVE Inv'
    BY <2>4, UnchangedInv DEF WriteLevel
  <2>5. ASSUME NEW l \in Level, ActivateLevel(l) \/ DeleteLevel(l) PROVE Inv'
    BY <2>5, UnchangedInv DEF ActivateLevel, DeleteLevel
  <2> QED
    BY <1>1, <2>1, <2>2, <2>3, <2>4, <2>5 DEF Author
<1>2. CASE Client \/ GiveUp
  BY <1>2, PollInv, FetchListInv, FetchDocumentInv, KeepInv DEF Client, FetchDocument
<1>3. CASE ReadLevel \/ ReadNames \/ ReadWave \/ AnswerLevel
  BY <1>3, UnchangedInv DEF ReadLevel, ReadNames, ReadWave, AnswerLevel, contentVars
<1>4. CASE UNCHANGED vars
  BY <1>4, UnchangedInv DEF vars, contentVars
<1> QED
  BY <1>1, <1>2, <1>3, <1>4 DEF Next

(***************************************************************************)
(* A client whose poll is answered "unchanged" plays what is published: the*)
(* one hash of summaries that /status and the list share (hashing.py,      *)
(* http.py) is enough, although documents are fetched one at a time while  *)
(* authors write.  "Nothing cached yet" must not itself be a list of waves.*)
(***************************************************************************)
THEOREM UnchangedIsSafe ==
  ASSUME Absent \notin SUBSET Shown
  PROVE  Spec => []PlaysWhatIsPublished
<1>1. Init => Inv
  BY InitInv
<1>2. Inv /\ [Next]_vars => Inv'
  BY StepInv
<1>3. Inv => PlaysWhatIsPublished
  <2> SUFFICES ASSUME Inv, hash = Catalogue
               PROVE  /\ list = Catalogue
                      /\ \A w \in Wave : Published(w) => docs[w] = wave[w].text
    BY DEF PlaysWhatIsPublished, OfCatalogue
  <2>1. list = Catalogue
    BY DEF Inv, TypeOK
  <2>2. list # Absent
    BY <2>1, CatalogueShown
  <2>3. \A w \in Wave : Published(w) => Summary(w) \in list /\ Summary(w).id = w
    BY <2>1 DEF Catalogue, Summary
  <2> QED
    BY <2>1, <2>2, <2>3 DEF Inv, ListVouches, Vouches
<1> QED
  BY <1>1, <1>2, <1>3, PTL DEF Spec
-----------------------------------------------------------------------------
(***************************************************************************)
(* What a client is shown of a level.  An answer is put together from      *)
(* statements of different moments, and a wave may be withdrawn between    *)
(* any two; but to be withdrawn is to be stamped anew, so of every wave    *)
(* that was shown, what was shown is either true of a published wave or    *)
(* true of none any more.                                                  *)
(***************************************************************************)
Naming == Seq(Wave)
Showing == Seq(Shown)
Reading == [id : Level, names : {Absent} \cup Naming, found : Showing]
Answered == [id : Level, waves : Showing]

LevelTyped ==
  /\ level \in [Level -> {Absent} \cup Naming]
  /\ active \in {Absent} \cup Level
  /\ read \in {Absent} \cup Reading
  /\ levelBody \in {Absent} \cup Answered

(* A summary that is still true of a wave is true of a published one. *)
NoDraft(s) ==
  s.updated <= clock /\ (wave[s.id] # Absent /\ Summary(s.id) = s => Published(s.id))

NoDrafts(summaries) == \A i \in DOMAIN summaries : NoDraft(summaries[i])

LevelInv ==
  /\ LevelTyped
  /\ read # Absent => NoDrafts(read.found)
  /\ levelBody # Absent => NoDrafts(levelBody.waves)

(* What is left of a list of waves is a list of waves. *)
LEMMA WithoutIsNaming ==
  ASSUME NEW names \in {Absent} \cup Naming, NEW w
  PROVE  Without(names, w) \in {Absent} \cup Naming
<1> SUFFICES ASSUME names # Absent PROVE Without(names, w) \in Naming
  BY DEF Without
<1> DEFINE L == Len(names)
           step == [i \in 1..L |-> [s \in Naming |-> IF names[i] = w THEN s ELSE Append(s, names[i])]]
           kept[i \in 0..L] == IF i = 0 THEN <<>>
                               ELSE IF names[i] = w THEN kept[i - 1] ELSE Append(kept[i - 1], names[i])
<1>1. L \in Nat /\ L \in 0..L /\ \A i \in 1..L : names[i] \in Wave
  BY DEF Naming
<1>2. Without(names, w) = kept[L]
  BY DEF Without
<1>3. kept = CHOOSE g : g = [i \in 0..L |->
                              IF i = 0 THEN <<>>
                              ELSE IF names[i] = w THEN g[i - 1] ELSE Append(g[i - 1], names[i])]
  OBVIOUS
<1> HIDE DEF kept, L
<1>4. step \in [1..L -> [Naming -> Naming]]
  BY <1>1 DEF Naming
<1>5. \A i \in 1..L, s \in Naming :
        step[i][s] = IF names[i] = w THEN s ELSE Append(s, names[i])
  OBVIOUS
<1> HIDE DEF step
<1>6. PICK g \in [0..L -> Naming] : g[0] = <<>> /\ \A i \in 1..L : g[i] = step[i][g[i - 1]]
  <2>1. <<>> \in Naming
    BY DEF Naming
  <2>2. Recurs(L, Naming, <<>>, step)
    BY <1>1, <1>4, <2>1, Recursion
  <2> QED
    BY <2>2 DEF Recurs
<1>7. g = [i \in 0..L |->
             IF i = 0 THEN <<>> ELSE IF names[i] = w THEN g[i - 1] ELSE Append(g[i - 1], names[i])]
  <2>1. \A i \in 1..L : i - 1 \in 0..L
    BY <1>1
  <2>2. \A i \in 1..L : g[i] = IF names[i] = w THEN g[i - 1] ELSE Append(g[i - 1], names[i])
    BY <1>5, <1>6, <2>1
  <2>3. \A i \in 0..L : i = 0 \/ i \in 1..L
    BY <1>1
  <2>4. \A i \in 0..L : g[i] = IF i = 0 THEN <<>>
                               ELSE IF names[i] = w THEN g[i - 1] ELSE Append(g[i - 1], names[i])
    BY <1>6, <2>2, <2>3
  <2> QED
    BY <1>6, <2>4
<1>8. kept = [i \in 0..L |->
                IF i = 0 THEN <<>>
                ELSE IF names[i] = w THEN kept[i - 1] ELSE Append(kept[i - 1], names[i])]
  BY <1>3, <1>7, Zenon
<1>9. kept[0] = <<>>
      /\ \A i \in 1..L : kept[i] = IF names[i] = w THEN kept[i - 1] ELSE Append(kept[i - 1], names[i])
  <2>1. \A i \in 0..L : kept[i] = IF i = 0 THEN <<>>
                                  ELSE IF names[i] = w THEN kept[i - 1] ELSE Append(kept[i - 1], names[i])
    BY <1>8, Zenon
  <2>2. 0 \in 0..L /\ \A i \in 1..L : i \in 0..L /\ i # 0
    BY <1>1
  <2> QED
    BY <2>1, <2>2, Zenon
<1> DEFINE T == {n \in 0..L : kept[n] \in Naming}
<1>10. 0 \in T /\ \A n \in 1..L : n - 1 \in T => n \in T
  <2>1. <<>> \in Naming /\ \A s \in Naming, v \in Wave : Append(s, v) \in Naming
    BY DEF Naming
  <2>2. 0 \in T
    BY <1>1, <1>9, <2>1
  <2>3. ASSUME NEW n \in 1..L, n - 1 \in T PROVE n \in T
    BY <1>1, <1>9, <2>1, <2>3
  <2> QED
    BY <2>2, <2>3
<1> HIDE DEF T
<1>11. \A n \in 0..L : n \in T
  BY <1>1, <1>10, UpTo
<1> QED
  BY <1>1, <1>2, <1>11 DEF T

LEMMA LevelInitInv == ASSUME Init PROVE LevelInv
BY DEF Init, LevelInv, LevelTyped

(* A wave is written at a new time, or removed: no summary of it is true.  *)
LEMMA DraftsAfterWrite ==
  ASSUME Inv, LevelInv, LevelTyped', UNCHANGED <<read, levelBody>>,
         NEW w \in Wave, NEW row, wave' = [wave EXCEPT ![w] = row],
         clock' \in Nat, clock <= clock', row # Absent => row.updated = clock' /\ clock < clock'
  PROVE  LevelInv'
<1>1. wave'[w] = row /\ \A v \in Wave \ {w} : wave'[v] = wave[v]
  BY DEF Inv, TypeOK
<1>2. ASSUME NEW s \in Shown, NoDraft(s) PROVE NoDraft(s)'
  <2>1. s.updated <= clock'
    BY <1>2 DEF NoDraft, Shown, Inv, TypeOK
  <2>2. CASE s.id = w
    <3>1. ASSUME row # Absent PROVE row.updated # s.updated
      BY <1>2, <3>1 DEF NoDraft, Shown, Inv, TypeOK
    <3> QED
      BY <1>1, <2>1, <2>2, <3>1 DEF NoDraft, Summary
  <2>3. CASE s.id # w
    <3>1. wave'[s.id] = wave[s.id]
      BY <1>1, <2>3 DEF Shown
    <3> QED
      BY <1>2, <2>1, <3>1 DEF NoDraft, Summary, Published
  <2> QED
    BY <2>2, <2>3
<1>3. ASSUME NEW summaries \in Showing, NoDrafts(summaries) PROVE NoDrafts(summaries)'
  <2>1. \A i \in DOMAIN summaries : summaries[i] \in Shown
    BY <1>3 DEF Showing
  <2> QED
    BY <1>2, <1>3, <2>1 DEF NoDrafts
<1>4. read # Absent => read.found \in Showing /\ NoDrafts(read.found)
  BY DEF LevelInv, LevelTyped, Reading
<1>5. levelBody # Absent => levelBody.waves \in Showing /\ NoDrafts(levelBody.waves)
  BY DEF LevelInv, LevelTyped, Answered
<1>6. (read # Absent => NoDrafts(read.found))' /\ (levelBody # Absent => NoDrafts(levelBody.waves))'
  BY <1>3, <1>4, <1>5 DEF NoDrafts
<1> QED
  BY <1>6 DEF LevelInv

(* The steps that leave the waves alone. *)
LEMMA DraftsStay ==
  ASSUME LevelInv, LevelTyped', UNCHANGED <<clock, wave, read, levelBody>>
  PROVE  LevelInv'
BY DEF LevelInv, NoDrafts, NoDraft, Summary, Published

LEMMA AuthorLevelInv ==
  ASSUME ServingAssumption, Inv, LevelInv, Author
  PROVE  LevelInv'
<1>1. UNCHANGED <<read, levelBody>> /\ clock \in Nat
  BY DEF Author, Save, SetPublished, DeleteWave, WriteLevel, ActivateLevel, DeleteLevel,
     levelVars,
         Inv, TypeOK
<1>2. ASSUME NEW w \in Wave, NEW t \in Text, Save(w, t) PROVE LevelInv'
  <2> DEFINE draft == [created |-> clock', updated |-> clock', published |-> FALSE, text |-> t]
             row == IF wave[w] = Absent THEN draft
                    ELSE [wave[w] EXCEPT !.text = t, !.updated = clock']
  <2>1. wave' = [wave EXCEPT ![w] = row] /\ clock' = clock + 1 /\ UNCHANGED <<level, active>>
    BY <1>2 DEF Save, Stamped
  <2>2. row.updated = clock'
    <3>1. wave[w] # Absent => wave[w] \in Row
      BY DEF Inv, TypeOK
    <3> QED
      BY <3>1 DEF Row
  <2> HIDE DEF row
  <2>3. LevelTyped'
    BY <1>1, <2>1 DEF LevelInv, LevelTyped
  <2>4. clock' \in Nat /\ clock <= clock' /\ clock < clock'
    BY <1>1, <2>1
  <2> QED
    BY <1>1, <2>1, <2>2, <2>3, <2>4, DraftsAfterWrite
<1>3. ASSUME NEW w \in Wave, NEW p \in BOOLEAN, SetPublished(w, p) PROVE LevelInv'
  <2> DEFINE row == [[wave[w] EXCEPT !.published = p] EXCEPT !.updated = clock']
  <2>1. wave[w] \in Row
    BY <1>3 DEF SetPublished, Inv, TypeOK
  <2>2. wave' = [wave EXCEPT ![w].published = p, ![w].updated = clock']
        /\ clock' = clock + 1 /\ UNCHANGED <<level, active>>
    BY <1>3 DEF SetPublished, Stamped
  <2>3. wave' = [wave EXCEPT ![w] = row] /\ row.updated = clock'
    BY <2>1, <2>2 DEF Inv, TypeOK, Row
  <2> HIDE DEF row
  <2>4. LevelTyped'
    BY <1>1, <2>2 DEF LevelInv, LevelTyped
  <2>5. clock' \in Nat /\ clock <= clock' /\ clock < clock'
    BY <1>1, <2>2
  <2> QED
    BY <1>1, <2>2, <2>3, <2>4, <2>5, DraftsAfterWrite
<1>4. ASSUME NEW w \in Wave, DeleteWave(w) PROVE LevelInv'
  <2>1. wave' = [wave EXCEPT ![w] = Absent] /\ UNCHANGED <<clock, active>>
        /\ level' = [l \in Level |-> Without(level[l], w)]
    BY <1>4 DEF DeleteWave
  <2>2. \A l \in Level : Without(level[l], w) \in {Absent} \cup Naming
    BY WithoutIsNaming DEF LevelInv, LevelTyped
  <2>3. LevelTyped'
    BY <1>1, <2>1, <2>2 DEF LevelInv, LevelTyped
  <2>4. clock' \in Nat /\ clock <= clock'
    BY <1>1, <2>1
  <2> QED
    BY <1>1, <2>1, <2>3, <2>4, DraftsAfterWrite
<1>5. ASSUME NEW l \in Level, NEW names \in Lists, WriteLevel(l, names) PROVE LevelInv'
  <2>1. names \in Naming
    BY DEF ServingAssumption, Naming
  <2>2. LevelTyped'
    BY <1>1, <1>5, <2>1 DEF WriteLevel, LevelInv, LevelTyped
  <2> QED
    BY <1>1, <1>5, <2>2, DraftsStay DEF WriteLevel
<1>6. ASSUME NEW l \in Level, ActivateLevel(l) \/ DeleteLevel(l) PROVE LevelInv'
  <2>1. LevelTyped' /\ UNCHANGED <<clock, wave>>
    BY <1>1, <1>6 DEF ActivateLevel, DeleteLevel, LevelInv, LevelTyped
  <2> QED
    BY <1>1, <2>1, DraftsStay
<1> QED
  BY <1>2, <1>3, <1>4, <1>5, <1>6 DEF Author

LEMMA ReadLevelInv ==
  ASSUME ServingAssumption, Inv, LevelInv, ReadLevel
  PROVE  LevelInv'
<1>1. /\ active \in Level /\ read' = [id |-> active, names |-> Absent, found |-> <<>>]
      /\ UNCHANGED <<clock, wave, level, active, levelBody>>
  BY DEF ReadLevel, contentVars, LevelInv, LevelTyped
<1>2. read' \in Reading /\ read'.found = <<>>
  BY <1>1 DEF Reading, Showing
<1>3. LevelTyped'
  BY <1>1, <1>2 DEF LevelInv, LevelTyped
<1>4. NoDrafts(read.found)'
  BY <1>2 DEF NoDrafts
<1> QED
  BY <1>1, <1>3, <1>4 DEF LevelInv, NoDrafts, NoDraft, Summary, Published

(* A step of the reading, which finds a row or changes what is to be read. *)
LEMMA FoundInv ==
  ASSUME Inv, LevelInv, read # Absent, NEW names \in {Absent} \cup Naming, NEW found \in Showing,
         NoDrafts(found), read' = [id |-> read.id, names |-> names, found |-> found],
         UNCHANGED <<clock, wave, level, active, levelBody>>
  PROVE  LevelInv'
<1>1. read' \in Reading /\ read'.found = found
  BY DEF LevelInv, LevelTyped, Reading
<1>2. LevelTyped'
  BY <1>1 DEF LevelInv, LevelTyped
<1>3. NoDrafts(found)'
  BY DEF NoDrafts, NoDraft, Summary, Published
<1>4. NoDrafts(read.found)'
  BY <1>1, <1>3 DEF NoDrafts
<1> QED
  BY <1>2, <1>4 DEF LevelInv, NoDrafts, NoDraft, Summary, Published

LEMMA ReadNamesInv ==
  ASSUME Inv, LevelInv, ReadNames
  PROVE  LevelInv'
<1> DEFINE names == IF level[read.id] = Absent THEN <<>> ELSE level[read.id]
<1>1. /\ read # Absent /\ read \in Reading /\ read' = [read EXCEPT !.names = names]
      /\ UNCHANGED <<clock, wave, level, active, levelBody>>
  BY DEF ReadNames, contentVars, LevelInv, LevelTyped
<1>2. names \in Naming
  BY <1>1 DEF LevelInv, LevelTyped, Reading, Naming
<1> HIDE DEF names
<1>3. read' = [id |-> read.id, names |-> names, found |-> read.found]
      /\ read.found \in Showing /\ NoDrafts(read.found)
  BY <1>1 DEF Reading, LevelInv
<1> QED
  BY <1>1, <1>2, <1>3, FoundInv

LEMMA ReadWaveInv ==
  ASSUME Inv, LevelInv, ReadWave
  PROVE  LevelInv'
<1> DEFINE w == Head(read.names)
           found == IF Published(w) THEN Append(read.found, Summary(w)) ELSE read.found
<1>1. /\ read # Absent /\ read.names # Absent /\ read.names # <<>> /\ read \in Reading
      /\ read' = [read EXCEPT !.names = Tail(read.names), !.found = found]
      /\ UNCHANGED <<clock, wave, level, active, levelBody>>
  BY DEF ReadWave, contentVars, LevelInv, LevelTyped
<1>2. read.names \in Naming /\ read.found \in Showing /\ NoDrafts(read.found)
  BY <1>1 DEF Reading, LevelInv
<1>3. w \in Wave /\ Tail(read.names) \in Naming
  BY <1>1, <1>2 DEF Naming
<1>4. read' = [id |-> read.id, names |-> Tail(read.names), found |-> found]
  BY <1>1 DEF Reading
<1> HIDE DEF w
<1>5. found \in Showing /\ NoDrafts(found)
  <2>1. CASE ~Published(w)
    BY <1>2, <2>1
  <2>2. CASE Published(w)
    <3>1. wave[w] \in Row /\ wave[w].updated <= clock
      BY <1>3, <2>2 DEF Published, Inv, TypeOK, StampsArePast
    <3>2. Summary(w) \in Shown /\ Summary(w).id = w /\ Summary(w).updated <= clock
      BY <1>3, <3>1 DEF Summary, Shown, Row
    <3>3. NoDraft(Summary(w))
      BY <2>2, <3>2 DEF NoDraft
    <3>4. found = Append(read.found, Summary(w))
      BY <2>2
    <3> HIDE DEF found
    <3>5. found \in Showing
      BY <1>2, <3>2, <3>4 DEF Showing
    <3>6. \A i \in DOMAIN found : found[i] = Summary(w) \/ (i \in DOMAIN read.found /\ found[i] = read.found[i])
      BY <1>2, <3>2, <3>4 DEF Showing
    <3> QED
      BY <1>2, <3>3, <3>5, <3>6 DEF NoDrafts
  <2> QED
    BY <2>1, <2>2
<1> HIDE DEF found
<1> QED
  BY <1>1, <1>3, <1>4, <1>5, FoundInv

LEMMA AnswerLevelInv ==
  ASSUME Inv, LevelInv, AnswerLevel
  PROVE  LevelInv'
<1>1. /\ read # Absent /\ read \in Reading /\ read' = Absent
      /\ levelBody' = levelBody \/ levelBody' = LevelAnswer
      /\ UNCHANGED <<clock, wave, level, active>>
  BY DEF AnswerLevel, contentVars, LevelInv, LevelTyped
<1>2. LevelAnswer \in Answered /\ LevelAnswer.waves = read.found /\ NoDrafts(read.found)
  BY <1>1 DEF LevelAnswer, Answered, Reading, LevelInv
<1>3. LevelTyped'
  BY <1>1, <1>2 DEF LevelInv, LevelTyped
<1>4. (levelBody # Absent => NoDrafts(levelBody.waves))'
  BY <1>1, <1>2 DEF LevelInv, NoDrafts, NoDraft, Summary, Published
<1> QED
  BY <1>1, <1>3, <1>4 DEF LevelInv

(***************************************************************************)
(* A level that was put together while authors wrote, answered by http.py  *)
(* and kept by a client, shows no wave as it is now unless it is published *)
(* now: a withdrawal always shows in the summary.                          *)
(***************************************************************************)
THEOREM WithdrawnIsSeen ==
  ASSUME ServingAssumption
  PROVE  Spec => []LevelShowsNoDraft
<1>1. Init => Inv /\ LevelInv
  BY InitInv, LevelInitInv
<1>2. Inv /\ LevelInv /\ [Next]_vars => Inv' /\ LevelInv'
  <2> SUFFICES ASSUME Inv, LevelInv, [Next]_vars PROVE LevelInv'
    BY StepInv
  <2>1. CASE Author
    BY <2>1, AuthorLevelInv
  <2>2. CASE Client \/ GiveUp \/ UNCHANGED vars
    <3>1. UNCHANGED <<clock, wave, level, active, read, levelBody>>
      BY <2>2
         DEF Client, Poll, FetchList, FetchDocument, Keep, GiveUp, contentVars,
         levelVars, vars
    <3>2. LevelTyped'
      BY <3>1 DEF LevelInv, LevelTyped
    <3> QED
      BY <3>1, <3>2, DraftsStay
  <2> QED
    BY <2>1, <2>2, ReadLevelInv, ReadNamesInv, ReadWaveInv, AnswerLevelInv DEF Next
<1>3. LevelInv => LevelShowsNoDraft
  BY DEF LevelInv, LevelShowsNoDraft, NoDrafts, NoDraft
<1> QED
  BY <1>1, <1>2, <1>3, PTL DEF Spec
====
