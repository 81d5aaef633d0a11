---- MODULE PlatformParts_proofs ----
(***************************************************************************)
(* What the parts of the platform that only meet in its callers keep, for  *)
(* any number of them: players and keys, plugins, migrations and media. As *)
(* in Apps_proofs, a step of another part is a stutter here, and every     *)
(* section has the part's invariant, a lemma for each step, and the        *)
(* theorems.                                                               *)
(***************************************************************************)
EXTENDS PlatformParts, Integers, Sequences, FiniteSetTheorems, TLAPS
-----------------------------------------------------------------------------
(***************************************************************************)
(* Every session a game starts for one identifier is the same player's, and*)
(* no other identifier's, however many requests of first launches overlap. *)
(*                                                                         *)
(* OnePlayerEach speaks of what was answered.  The induction is over what  *)
(* is stored and what is under way: an answer is the row's id, no two rows *)
(* share an id, and the ids that requests in flight would give a new player*)
(* are nobody else's.                                                      *)
(***************************************************************************)

PlayerRow == [id : PlayerId, seen : Int, name : PlayerId \cup {None}]
Starting == [pc : {"start"}, external : ExternalId]
Upserting == [pc : {"upsert"}, external : ExternalId, id : PlayerId, now : Int]

PlayersTyped ==
  /\ player \in [ExternalId -> {Absent} \cup PlayerRow]
  /\ joining \in [Caller -> {players!Idle} \cup Starting \cup Upserting]
  /\ clock \in Int

(* What was answered is what is stored. *)
AnsweredIsStored ==
  \A s \in bought :
    s.external \in players!Registered /\ s.player = player[s.external].id

IdsDiffer ==
  \A e, f \in players!Registered : player[e].id = player[f].id => e = f

(* The id a request brings along is fresh until it is used. *)
FreshIds ==
  \A r \in Caller : joining[r].pc = "upsert" =>
    /\ \A e \in players!Registered : player[e].id # joining[r].id
    /\ \A q \in Caller : joining[q].pc = "upsert" /\ joining[q].id = joining[r].id => q = r

PlayersInv == PlayersTyped /\ AnsweredIsStored /\ IdsDiffer /\ FreshIds

LEMMA PlayersInitInv == ASSUME players!Init PROVE PlayersInv
BY DEF players!Init, PlayersInv, PlayersTyped, AnsweredIsStored, IdsDiffer, FreshIds,
   players!Registered, players!Idle

(* A step that leaves the ids, the answers and the requests alone. *)
LEMMA SameIds ==
  ASSUME PlayersInv, PlayersTyped', players!Registered' = players!Registered,
         \A e \in players!Registered : player'[e].id = player[e].id,
         UNCHANGED <<joining, bought>>
  PROVE  PlayersInv'
BY DEF PlayersInv, AnsweredIsStored, IdsDiffer, FreshIds

LEMMA StartSessionInv ==
  ASSUME PlayersInv, NEW r \in Caller, NEW k \in ApiKey, NEW e \in ExternalId,
         players!StartSession(r, k, e)
  PROVE  PlayersInv'
<1>1. /\ joining' = [joining EXCEPT ![r] = [pc |-> "start", external |-> e]]
      /\ UNCHANGED <<player, bought, clock>>
  BY DEF players!StartSession
<1>2. PlayersTyped'
  BY <1>1 DEF PlayersInv, PlayersTyped, Starting
<1>3. players!Registered' = players!Registered
  BY <1>1 DEF players!Registered
<1>4. FreshIds'
  BY <1>1, <1>3 DEF PlayersInv, PlayersTyped, FreshIds
<1> QED
  BY <1>1, <1>2, <1>3, <1>4 DEF PlayersInv, AnsweredIsStored, IdsDiffer

LEMMA TakeTimeInv ==
  ASSUME PlayersInv, NEW r \in Caller, players!TakeTime(r)
  PROVE  PlayersInv'
<1>1. PICK id \in PlayerId :
        /\ \A e \in players!Registered : player[e].id # id
        /\ \A q \in Caller : joining[q].pc = "upsert" => joining[q].id # id
        /\ joining' = [joining EXCEPT ![r] = [pc |-> "upsert", external |-> @.external, id |-> id,
                                    now |-> clock]]
  BY DEF players!TakeTime
<1>2. joining[r] \in Starting /\ UNCHANGED <<player, bought, clock>>
  BY DEF players!TakeTime, PlayersInv, PlayersTyped, players!Idle, Starting, Upserting
<1>3. joining'[r] \in Upserting /\ joining'[r].id = id
  BY <1>1, <1>2 DEF PlayersInv, PlayersTyped, Starting, Upserting
<1>4. \A q \in Caller \ {r} : joining'[q] = joining[q]
  BY <1>1 DEF PlayersInv, PlayersTyped
<1>5. PlayersTyped'
  BY <1>1, <1>2, <1>3, <1>4 DEF PlayersInv, PlayersTyped
<1>6. players!Registered' = players!Registered
  BY <1>2 DEF players!Registered
<1>7. FreshIds'
  BY <1>1, <1>2, <1>3, <1>4, <1>6 DEF PlayersInv, FreshIds
<1> QED
  BY <1>2, <1>5, <1>6, <1>7 DEF PlayersInv, AnsweredIsStored, IdsDiffer

(* The two ways the upsert goes: a first sight, and a row that is there. *)
LEMMA UpsertInv ==
  ASSUME players!PlayersAssumption, PlayersInv, NEW r \in Caller, players!Upsert(r)
  PROVE  PlayersInv'
<1> DEFINE e == joining[r].external
           now == joining[r].now
<1>1. joining[r] \in Upserting /\ e \in ExternalId
  BY DEF players!Upsert, PlayersInv, PlayersTyped, players!Idle, Starting, Upserting
<1> DEFINE latest == IF now > player[e].seen THEN now ELSE player[e].seen
           value == IF player[e] = Absent THEN [id |-> joining[r].id, seen |-> now, name |-> None]
                    ELSE [player[e] EXCEPT !.seen = latest]
<1>2. /\ player' = [player EXCEPT ![e] = value]
      /\ bought' = bought \cup {[external |-> e, player |-> player'[e].id]}
      /\ joining' = [joining EXCEPT ![r] = players!Idle] /\ clock' = clock
  BY DEF players!Upsert
<1>3. \A f \in ExternalId \ {e} : player'[f] = player[f]
  BY <1>2 DEF PlayersInv, PlayersTyped
<1>4. value \in PlayerRow /\ value.id = IF player[e] = Absent THEN joining[r].id ELSE player[e].id
  <2>1. CASE player[e] = Absent
    BY <1>1, <2>1 DEF PlayerRow, Upserting
  <2>2. CASE player[e] # Absent
    <3>1. player[e] \in PlayerRow
      BY <1>1, <2>2 DEF PlayersInv, PlayersTyped
    <3>2. latest \in Int
      BY <1>1, <3>1 DEF PlayerRow, Upserting
    <3> HIDE DEF latest
    <3> QED
      BY <2>2, <3>1, <3>2 DEF PlayerRow
  <2> QED
    BY <2>1, <2>2
<1> HIDE DEF value
<1>5. player'[e] \in PlayerRow /\ player'[e].id = IF player[e] = Absent THEN joining[r].id ELSE player[e].id
  BY <1>1, <1>2, <1>4 DEF PlayersInv, PlayersTyped
<1>6. players!Registered' = players!Registered \cup {e}
  BY <1>1, <1>3, <1>5 DEF players!Registered, players!PlayersAssumption, PlayerRow
<1>7. \A q \in Caller : joining'[q] = IF q = r THEN players!Idle ELSE joining[q]
  BY <1>2 DEF PlayersInv, PlayersTyped
<1>8. PlayersTyped'
  BY <1>1, <1>2, <1>4 DEF PlayersInv, PlayersTyped
<1> DEFINE new == [external |-> e, player |-> player'[e].id]
<1>9. bought' = bought \cup {new} /\ new.external = e /\ new.player = player'[e].id
  BY <1>2
<1>10. joining[r].pc = "upsert"
  BY DEF players!Upsert
<1> HIDE DEF e, now, new
<1>11. \A f \in players!Registered : player'[f].id = player[f].id
  BY <1>3, <1>5 DEF players!Registered
<1>12. AnsweredIsStored'
  BY <1>6, <1>9, <1>11 DEF PlayersInv, AnsweredIsStored
<1>13. IdsDiffer'
  BY <1>1, <1>3, <1>5, <1>6, <1>10, <1>11
     DEF PlayersInv, IdsDiffer, FreshIds, players!Registered
<1>14. FreshIds'
  <2> SUFFICES ASSUME NEW q \in Caller, joining'[q].pc = "upsert"
               PROVE  /\ \A f \in players!Registered' : player'[f].id # joining'[q].id
                      /\ \A p \in Caller : joining'[p].pc = "upsert" /\ joining'[p].id = joining'[q].id => p = q
    BY DEF FreshIds
  <2>1. q # r /\ joining'[q] = joining[q]
    BY <1>7 DEF players!Idle
  <2>2. \A f \in players!Registered' : player'[f].id # joining'[q].id
    BY <1>1, <1>5, <1>6, <1>10, <1>11, <2>1 DEF PlayersInv, FreshIds, players!Registered
  <2>3. \A p \in Caller : joining'[p].pc = "upsert" => joining'[p] = joining[p]
    BY <1>7 DEF players!Idle
  <2> QED
    BY <2>1, <2>2, <2>3 DEF PlayersInv, FreshIds
<1> QED
  BY <1>8, <1>12, <1>13, <1>14 DEF PlayersInv

LEMMA RenameInv ==
  ASSUME players!PlayersAssumption, PlayersInv, NEW token, NEW e \in ExternalId,
         players!Rename(token, e)
  PROVE  PlayersInv'
<1>1. /\ player' = [player EXCEPT ![e].name = token.sub]
      /\ player[e].id = token.sub /\ player[e] \in PlayerRow
      /\ UNCHANGED <<bought, clock, joining>>
  BY DEF players!Rename, players!Registered, PlayersInv, PlayersTyped
<1>2. player'[e] \in PlayerRow /\ player'[e].id = player[e].id
  BY <1>1 DEF PlayersInv, PlayersTyped, PlayerRow
<1>3. \A f \in ExternalId \ {e} : player'[f] = player[f]
  BY <1>1 DEF PlayersInv, PlayersTyped
<1>4. PlayersTyped'
  BY <1>1, <1>2 DEF PlayersInv, PlayersTyped
<1>5. e \in players!Registered /\ players!Registered' = players!Registered
  BY <1>2, <1>3
     DEF players!Rename, players!Registered, players!PlayersAssumption, PlayerRow
<1> QED
  BY <1>1, <1>2, <1>3, <1>4, <1>5, SameIds DEF players!Registered

(* The steps that touch no player and no session start. *)
LEMMA OtherPlayersInv ==
  ASSUME PlayersInv, UNCHANGED <<player, bought, joining>>, clock' \in Int
  PROVE  PlayersInv'
<1>1. PlayersTyped' /\ players!Registered' = players!Registered
  BY DEF PlayersInv, PlayersTyped, players!Registered
<1> QED
  BY <1>1, SameIds

LEMMA PlayersNextInv ==
  ASSUME players!PlayersAssumption, PlayersInv, [players!Next]_(players!vars)
  PROVE  PlayersInv'
<1>1. clock \in Int
  BY DEF PlayersInv, PlayersTyped
<1>2. CASE players!Tick
  BY <1>1, <1>2, OtherPlayersInv DEF players!Tick
<1>3. ASSUME NEW a \in Staff, players!SignIn(a) PROVE PlayersInv'
  BY <1>1, <1>3, OtherPlayersInv DEF players!SignIn
<1>4. ASSUME NEW r \in Caller, players!Handle(r) PROVE PlayersInv'
  BY <1>4, TakeTimeInv, UpsertInv DEF players!Handle
<1>5. ASSUME NEW r \in Caller, NEW k \in ApiKey, NEW e \in ExternalId,
             players!StartSession(r, k, e)
      PROVE  PlayersInv'
  BY <1>5, StartSessionInv
<1>6. ASSUME NEW token \in tokens, players!Act(token) PROVE PlayersInv'
  <2>1. ASSUME NEW k \in ApiKey, players!CreateKey(token, k) \/ players!RevokeKey(token, k)
        PROVE  PlayersInv'
    BY <1>1, <2>1, OtherPlayersInv DEF players!CreateKey, players!RevokeKey
  <2>2. ASSUME NEW e \in ExternalId, players!Rename(token, e) PROVE PlayersInv'
    BY <2>2, RenameInv
  <2>3. CASE players!Expire(token)
    BY <1>1, <2>3, OtherPlayersInv DEF players!Expire
  <2> QED
    BY <1>6, <2>1, <2>2, <2>3 DEF players!Act
<1>7. ASSUME NEW token \in tokens, players!Look(token) PROVE PlayersInv'
  <2>1. UNCHANGED <<player, bought, joining, clock>>
    BY <1>7 DEF players!Look, players!ListPlayers
  <2> QED
    BY <1>1, <2>1, OtherPlayersInv
<1>8. CASE players!StartWalk
  BY <1>1, <1>8, OtherPlayersInv DEF players!StartWalk
<1>9. CASE UNCHANGED players!vars
  BY <1>1, <1>9, OtherPlayersInv DEF players!vars
<1> QED
  BY <1>2, <1>3, <1>4, <1>5, <1>6, <1>7, <1>8, <1>9 DEF players!Next

(* What the platform does is, for the players, a step of theirs or none. *)
LEMMA PlayersStepOrNone ==
  ASSUME [PlatformNext]_platformVars PROVE [players!Next]_(players!vars)
BY DEF PlatformNext, platformVars, SessionsStep, PlayersStep, PluginsStep, MigrationsStep,
       MediaStep, playerVars, players!vars

(***************************************************************************)
(* One identifier, one player: what the upsert of players.py settles, for  *)
(* any number of games, identifiers and requests in flight.                *)
(***************************************************************************)
THEOREM SessionsShareAPlayer ==
  ASSUME PlatformAssumption
  PROVE  PlatformSpec => []OnePlayerEach
<1>1. PlatformInit => PlayersInv
  BY PlayersInitInv DEF PlatformInit
<1>2. PlayersInv /\ [PlatformNext]_platformVars => PlayersInv'
  BY PlayersNextInv, PlayersStepOrNone DEF PlatformAssumption
<1>3. PlayersInv => OnePlayerEach
  BY DEF PlayersInv, AnsweredIsStored, IdsDiffer, OnePlayerEach, players!OnePlayerEach
<1> QED
  BY <1>1, <1>2, <1>3, PTL DEF PlatformSpec
-----------------------------------------------------------------------------
(***************************************************************************)
(* A walk over the pages of players shows a player that stays as they were *)
(* once.  The cursor divides the players: those beyond it have not been    *)
(* shown, the others have.  A page takes a stretch from the front of those *)
(* beyond, and the next cursor is the last of that stretch; that nobody is *)
(* left out between two pages rests on the order being total, so on ids.   *)
(***************************************************************************)
Cursor == [seen : Int, id : PlayerId]

WalkTyped ==
  /\ walk.pc \in {"off", "next", "done"}
  /\ walk.after \in {None} \cup Cursor
  /\ walk.seen \in [ExternalId -> Int]
  /\ still \subseteq ExternalId

(* How often a player that stayed as they were has been shown so far. *)
ShownSoFar(e) ==
  walk.seen[e] = IF e \in players!Registered
                      /\ (walk.pc = "next" => ~players!Beyond(walk.after, e)) THEN 1 ELSE 0

WalkInv ==
  /\ WalkTyped /\ IsFiniteSet(players!Registered)
  /\ walk.pc = "off" => still = {}
  /\ \A e \in still : ShownSoFar(e)

LEMMA RegisteredPlayer ==
  ASSUME players!PlayersAssumption, PlayersInv, NEW e \in players!Registered
  PROVE  e \in ExternalId /\ player[e].seen \in Int /\ player[e].id \in Int
BY DEF players!PlayersAssumption, PlayersInv, PlayersTyped, players!Registered, PlayerRow

(* A player whose row keeps its time and its id keeps their place. *)
LEMMA WalkGoesOn ==
  ASSUME WalkInv, walk' = walk, still' \subseteq still, IsFiniteSet(players!Registered'),
         \A e \in still' : /\ e \in players!Registered' <=> e \in players!Registered
                           /\ e \in players!Registered =>
                                player'[e].seen = player[e].seen /\ player'[e].id = player[e].id
  PROVE  WalkInv'
<1>1. WalkTyped' /\ (walk'.pc = "off" => still' = {})
  BY DEF WalkInv, WalkTyped
<1>2. \A e \in still' : ShownSoFar(e)'
  BY DEF WalkInv, ShownSoFar, players!Beyond
<1> QED
  BY <1>1, <1>2 DEF WalkInv

LEMMA UpsertWalkInv ==
  ASSUME players!PlayersAssumption, PlayersInv, WalkInv, NEW r \in Caller, players!Upsert(r)
  PROVE  WalkInv'
<1> SUFFICES ASSUME NEW e \in ExternalId, e = joining[r].external PROVE WalkInv'
  BY DEF players!Upsert, PlayersInv, PlayersTyped, players!Idle, Starting, Upserting
<1> DEFINE now == joining[r].now
           latest == IF now > player[e].seen THEN now ELSE player[e].seen
           value == IF player[e] = Absent THEN [id |-> joining[r].id, seen |-> now, name |-> None]
                    ELSE [player[e] EXCEPT !.seen = latest]
<1>1. joining[r] \in Upserting /\ now \in Int
  BY DEF players!Upsert, PlayersInv, PlayersTyped, players!Idle, Starting, Upserting
<1>2. /\ player' = [player EXCEPT ![e] = value] /\ walk' = walk
      /\ still' = IF player'[e].seen = players!Seen(e) THEN still ELSE still \ {e}
  BY DEF players!Upsert
<1>3. \A f \in ExternalId \ {e} : player'[f] = player[f]
  BY <1>2 DEF PlayersInv, PlayersTyped
<1>4. player'[e] = value
  BY <1>2 DEF PlayersInv, PlayersTyped
<1>5. value.seen \in Int /\ value # Absent /\ (player[e] # Absent => value.id = player[e].id)
  <2>1. CASE player[e] = Absent
    <3>1. value \in PlayerRow
      BY <1>1, <2>1 DEF PlayerRow, Upserting
    <3> QED
      BY <1>1, <2>1, <3>1 DEF players!PlayersAssumption, PlayerRow
  <2>2. CASE player[e] # Absent
    <3>1. player[e] \in PlayerRow
      BY <2>2 DEF PlayersInv, PlayersTyped
    <3>2. latest \in Int
      BY <1>1, <3>1 DEF PlayerRow
    <3> HIDE DEF latest
    <3>3. value \in PlayerRow
      BY <2>2, <3>1, <3>2 DEF PlayerRow
    <3> QED
      BY <2>2, <3>1, <3>2, <3>3 DEF players!PlayersAssumption, PlayerRow
  <2> QED
    BY <2>1, <2>2
<1> HIDE DEF now, value
<1>6. players!Registered' = players!Registered \cup {e}
  BY <1>3, <1>4, <1>5 DEF players!Registered
<1>7. IsFiniteSet(players!Registered')
  BY <1>6, FS_AddElement DEF WalkInv
<1>8. e \in still' => e \in players!Registered /\ player'[e].seen = player[e].seen
  BY <1>2, <1>4, <1>5 DEF players!Seen, players!Registered, players!PlayersAssumption
<1>9. still' \subseteq still /\ \A f \in still' : f \in ExternalId
  BY <1>2 DEF WalkInv, WalkTyped
<1>10. \A f \in still' : /\ f \in players!Registered' <=> f \in players!Registered
                         /\ f \in players!Registered =>
                              player'[f].seen = player[f].seen /\ player'[f].id = player[f].id
  BY <1>3, <1>4, <1>5, <1>6, <1>8, <1>9 DEF players!Registered
<1> QED
  BY <1>2, <1>7, <1>9, <1>10, WalkGoesOn

LEMMA RenameWalkInv ==
  ASSUME players!PlayersAssumption, PlayersInv, WalkInv, NEW token, NEW e \in ExternalId,
         players!Rename(token, e)
  PROVE  WalkInv'
<1>1. /\ player' = [player EXCEPT ![e].name = token.sub]
      /\ player[e].id = token.sub /\ player[e] \in PlayerRow /\ UNCHANGED <<walk, still>>
  BY DEF players!Rename, players!Registered, PlayersInv, PlayersTyped
<1>2. player'[e] \in PlayerRow /\ player'[e].id = player[e].id /\ player'[e].seen = player[e].seen
  BY <1>1 DEF PlayersInv, PlayersTyped, PlayerRow
<1>3. \A f \in ExternalId \ {e} : player'[f] = player[f]
  BY <1>1 DEF PlayersInv, PlayersTyped
<1>4. players!Registered' = players!Registered
  BY <1>2, <1>3
     DEF players!Rename, players!Registered, players!PlayersAssumption, PlayerRow
<1>5. IsFiniteSet(players!Registered')
  BY <1>4 DEF WalkInv
<1>6. still' \subseteq still /\ \A f \in still' : f \in ExternalId
  BY <1>1 DEF WalkInv, WalkTyped
<1> QED
  BY <1>1, <1>2, <1>3, <1>4, <1>5, <1>6, WalkGoesOn

LEMMA StartWalkInv ==
  ASSUME WalkInv, players!StartWalk
  PROVE  WalkInv'
<1>1. /\ walk' = [pc |-> "next", after |-> None, seen |-> [e \in ExternalId |-> 0]]
      /\ still' = ExternalId /\ player' = player
  BY DEF players!StartWalk, players!NoWalk
<1>2. walk'.pc = "next" /\ walk'.after = None /\ walk'.seen = [e \in ExternalId |-> 0]
  BY <1>1
<1>3. players!Registered' = players!Registered
  BY <1>1 DEF players!Registered
<1>4. \A e \in ExternalId : ShownSoFar(e)'
  BY <1>2 DEF ShownSoFar, players!Beyond
<1> QED
  BY <1>1, <1>2, <1>3, <1>4 DEF WalkInv, WalkTyped

LEMMA CountIsCardinality == ASSUME NEW S PROVE players!Cardinality(S) = Cardinality(S)
BY DEF players!Cardinality, Cardinality

(* A page from the front of some finite set of players: whoever is not on it *)
(* comes after whoever is.                                                 *)
LEMMA PageIsAFront ==
  ASSUME players!PlayersAssumption, PlayersInv, NEW S \in SUBSET players!Registered,
         IsFiniteSet(S),
         NEW n \in Nat, NEW e \in S, NEW last \in S,
         Cardinality({f \in S : players!Before(f, last)}) < n,
         ~(Cardinality({f \in S : players!Before(f, e)}) < n)
  PROVE  players!Before(last, e)
<1> DEFINE front(x) == {f \in S : players!Before(f, x)}
<1>1. e # last
  OBVIOUS
<1>2. player[e].id # player[last].id
  BY <1>1 DEF PlayersInv, IdsDiffer
<1>3. players!Before(e, last) \/ players!Before(last, e)
  BY <1>2, RegisteredPlayer DEF players!Before
<1>4. ASSUME players!Before(e, last) PROVE FALSE
  <2>1. front(e) \subseteq front(last)
    BY <1>4, RegisteredPlayer DEF players!Before
  <2>2. IsFiniteSet(front(last)) /\ IsFiniteSet(front(e))
    BY FS_Subset
  <2>3. Cardinality(front(e)) <= Cardinality(front(last))
    BY <2>1, <2>2, FS_Subset
  <2>4. Cardinality(front(e)) \in Nat /\ Cardinality(front(last)) \in Nat
    BY <2>2, FS_CardinalityType
  <2>5. Cardinality(front(last)) < n /\ ~(Cardinality(front(e)) < n)
    OBVIOUS
  <2> HIDE DEF front
  <2> QED
    BY <2>3, <2>4, <2>5
<1> QED
  BY <1>3, <1>4

LEMMA PageSizeIsNat ==
  ASSUME players!PlayersAssumption, NEW limit \in {None, 0, MOST_PLAYERS_PER_PAGE + 1}
  PROVE  players!page_size(limit) \in Nat
BY DEF players!PlayersAssumption, players!page_size

LEMMA ListPlayersInv ==
  ASSUME players!PlayersAssumption, PlayersInv, WalkInv, NEW token,
         NEW limit \in {None, 0, MOST_PLAYERS_PER_PAGE + 1}, players!ListPlayers(token, limit)
  PROVE  WalkInv'
<1> DEFINE beyond == {e \in players!Registered : players!Beyond(walk.after, e)}
           shown == {e \in beyond :
                      Cardinality({f \in beyond : players!Before(f, e)}) < players!page_size(limit)}
           seen == [e \in ExternalId |-> walk.seen[e] + (IF e \in shown THEN 1 ELSE 0)]
<1>1. walk.pc = "next" /\ player' = player /\ still' = still
  BY DEF players!ListPlayers
<1>11. \/ shown = beyond /\ walk' = [pc |-> "done", after |-> None, seen |-> seen]
       \/ \E last \in shown :
            /\ \A e \in shown \ {last} : players!Before(e, last)
            /\ walk' = [pc |-> "next", seen |-> seen,
                        after |-> [seen |-> player[last].seen, id |-> player[last].id]]
  BY Zenon, CountIsCardinality DEF players!ListPlayers
<1>2. beyond \in SUBSET players!Registered /\ IsFiniteSet(beyond)
  BY FS_Subset DEF WalkInv
<1>3. shown \subseteq beyond /\ players!page_size(limit) \in Nat
  BY PageSizeIsNat
<1>4. \A last \in shown, e \in beyond \ shown : players!Before(last, e)
  BY <1>2, <1>3, PageIsAFront
<1>5. /\ \A e \in players!Registered : e \in beyond <=> players!Beyond(walk.after, e)
      /\ \A e \in ExternalId : e \in beyond => e \in players!Registered
  OBVIOUS
<1>6. seen \in [ExternalId -> Int]
      /\ \A e \in ExternalId : seen[e] = walk.seen[e] + (IF e \in shown THEN 1 ELSE 0)
  BY DEF WalkInv, WalkTyped
<1>7. \A e \in still : /\ e \in ExternalId
                       /\ walk.seen[e] = IF e \in players!Registered /\ e \notin beyond THEN 1 ELSE 0
  BY <1>1, <1>5 DEF WalkInv, WalkTyped, ShownSoFar
<1> HIDE DEF beyond, shown, seen
<1>8. players!Registered' = players!Registered /\ IsFiniteSet(players!Registered')
  BY <1>1 DEF players!Registered, WalkInv
<1>9. CASE shown = beyond /\ walk' = [pc |-> "done", after |-> None, seen |-> seen]
  <2>1. walk'.pc = "done" /\ walk'.after = None /\ walk'.seen = seen
    BY <1>9
  <2>2. \A e \in still : ShownSoFar(e)'
    BY <1>2, <1>6, <1>7, <1>8, <1>9, <2>1 DEF ShownSoFar
  <2> QED
    BY <1>1, <1>6, <1>8, <2>1, <2>2 DEF WalkInv, WalkTyped
<1>10. ASSUME NEW last \in shown,
              \A e \in shown \ {last} : players!Before(e, last),
              walk' = [pc |-> "next", seen |-> seen,
                       after |-> [seen |-> player[last].seen, id |-> player[last].id]]
       PROVE  WalkInv'
  <2>1. /\ walk'.pc = "next" /\ walk'.seen = seen
        /\ walk'.after.seen = player[last].seen /\ walk'.after.id = player[last].id
        /\ walk'.after \in [seen : Int, id : Int]
    BY <1>2, <1>3, <1>10, RegisteredPlayer
  <2>2. walk'.after \in Cursor
    BY <1>2, <1>3, <1>10
       DEF Cursor, PlayersInv, PlayersTyped, players!Registered, PlayerRow
  <2>3. walk'.after # None
    BY <2>2 DEF Cursor, players!PlayersAssumption
  <2>4. \A e \in players!Registered :
          players!Beyond(walk'.after, e) <=> players!Before(last, e)
    BY <1>2, <1>3, <2>1, <2>3, RegisteredPlayer DEF players!Beyond, players!Before
  <2>5. \A e \in players!Registered : players!Before(last, e) <=> e \in beyond \ shown
    <3> SUFFICES ASSUME NEW e \in players!Registered
                 PROVE  players!Before(last, e) <=> e \in beyond \ shown
      OBVIOUS
    <3>1. CASE e \in shown
      BY <1>2, <1>3, <1>10, <3>1, RegisteredPlayer DEF players!Before
    <3>2. CASE e \in beyond \ shown
      BY <1>4, <3>2
    <3>3. CASE e \notin beyond
      <4>1. ~players!Beyond(walk.after, e) /\ players!Beyond(walk.after, last)
        BY <1>2, <1>3, <1>5, <3>3
      <4>2. walk.after \in [seen : Int, id : Int]
        BY <4>1 DEF players!Beyond, WalkInv, WalkTyped, Cursor, players!PlayersAssumption
      <4> QED
        BY <1>2, <1>3, <3>3, <4>1, <4>2, RegisteredPlayer
           DEF players!Before, players!Beyond
    <3> QED
      BY <3>1, <3>2, <3>3
  <2>6. \A e \in still : ShownSoFar(e)'
    <3> SUFFICES ASSUME NEW e \in ExternalId, e \in still PROVE ShownSoFar(e)'
      BY <1>1 DEF WalkInv, WalkTyped
    <3>1. players!Beyond(walk.after, e)' <=> players!Beyond(walk'.after, e)
      BY <1>1 DEF players!Beyond
    <3>2. seen[e] = walk.seen[e] + (IF e \in shown THEN 1 ELSE 0)
      BY <1>6
    <3>3. walk.seen[e] = IF e \in players!Registered /\ e \notin beyond THEN 1 ELSE 0
      BY <1>7
    <3>4. e \in players!Registered => (players!Beyond(walk'.after, e) <=> e \in beyond \ shown)
      BY <2>4, <2>5
    <3>5. seen[e] = IF e \in players!Registered /\ ~players!Beyond(walk'.after, e) THEN 1 ELSE 0
      BY <1>2, <1>3, <3>2, <3>3, <3>4
    <3> QED
      BY <1>8, <2>1, <3>1, <3>5 DEF ShownSoFar
  <2> QED
    BY <1>1, <1>6, <1>8, <2>1, <2>2, <2>6 DEF WalkInv, WalkTyped
<1> QED
  BY <1>9, <1>10, <1>11

LEMMA WalkNextInv ==
  ASSUME players!PlayersAssumption, PlayersInv, WalkInv, [players!Next]_(players!vars)
  PROVE  WalkInv'
<1>1. ASSUME UNCHANGED <<player, walk, still>> PROVE WalkInv'
  <2>1. players!Registered' = players!Registered
    BY <1>1 DEF players!Registered
  <2>2. IsFiniteSet(players!Registered')
    BY <2>1 DEF WalkInv
  <2> QED
    BY <1>1, <2>1, <2>2, WalkGoesOn
<1>2. CASE players!Tick \/ UNCHANGED players!vars
  BY <1>1, <1>2 DEF players!Tick, players!vars
<1>3. ASSUME NEW a \in Staff, players!SignIn(a) PROVE WalkInv'
  BY <1>1, <1>3 DEF players!SignIn
<1>4. ASSUME NEW r \in Caller, players!Handle(r) PROVE WalkInv'
  BY <1>1, <1>4, UpsertWalkInv DEF players!Handle, players!TakeTime
<1>5. ASSUME NEW r \in Caller, NEW k \in ApiKey, NEW e \in ExternalId,
             players!StartSession(r, k, e)
      PROVE  WalkInv'
  BY <1>1, <1>5 DEF players!StartSession
<1>6. ASSUME NEW token \in tokens, players!Act(token) PROVE WalkInv'
  <2>1. ASSUME NEW k \in ApiKey, players!CreateKey(token, k) \/ players!RevokeKey(token, k)
        PROVE  WalkInv'
    BY <1>1, <2>1 DEF players!CreateKey, players!RevokeKey
  <2>2. ASSUME NEW e \in ExternalId, players!Rename(token, e) PROVE WalkInv'
    BY <2>2, RenameWalkInv
  <2>3. CASE players!Expire(token)
    BY <1>1, <2>3 DEF players!Expire
  <2> QED
    BY <1>6, <2>1, <2>2, <2>3 DEF players!Act
<1>7. ASSUME NEW token \in tokens, players!Look(token) PROVE WalkInv'
  BY <1>7, ListPlayersInv DEF players!Look
<1>8. CASE players!StartWalk
  BY <1>8, StartWalkInv
<1> QED
  BY <1>2, <1>3, <1>4, <1>5, <1>6, <1>7, <1>8 DEF players!Next

(***************************************************************************)
(* An editor's walk over the pages of list_players shows every player that *)
(* stays as they were, and shows nobody twice, whoever else starts a       *)
(* session meanwhile and whatever page sizes are asked for.                *)
(***************************************************************************)
THEOREM WalkShowsPlayersOnce ==
  ASSUME PlatformAssumption
  PROVE  PlatformSpec => []PlayersWalkedOnce
<1>1. PlatformInit => PlayersInv /\ WalkInv
  <2> SUFFICES ASSUME players!Init PROVE PlayersInv /\ WalkInv
    BY DEF PlatformInit
  <2>1. players!Registered = {}
    BY DEF players!Init, players!Registered
  <2>2. walk = [pc |-> "off", after |-> None, seen |-> [e \in ExternalId |-> 0]] /\ still = {}
    BY DEF players!Init, players!NoWalk
  <2> QED
    BY <2>1, <2>2, PlayersInitInv, FS_EmptySet DEF WalkInv, WalkTyped
<1>2. PlayersInv /\ WalkInv /\ [PlatformNext]_platformVars => PlayersInv' /\ WalkInv'
  BY PlayersNextInv, WalkNextInv, PlayersStepOrNone DEF PlatformAssumption
<1>3. WalkInv => PlayersWalkedOnce
  BY DEF WalkInv, WalkTyped, ShownSoFar, PlayersWalkedOnce, players!PlayersWalkedOnce
<1> QED
  BY <1>1, <1>2, <1>3, PTL DEF PlatformSpec

(* Whoever minted a key, and whoever a name is of, was allowed to.         *)
MintedByAdmins ==
  /\ mintedBy = [k \in ApiKey |-> mintedBy[k]] /\ revokedAt = [k \in ApiKey |-> revokedAt[k]]
  /\ \A k \in ApiKey : revokedAt[k] # Absent =>
       mintedBy[k].typ = "access" /\ mintedBy[k].rol = "ADMIN"

NamesAreOwn ==
  \A e \in players!Registered : player[e].name \in {None, player[e].id}

LEMMA MintedNext ==
  ASSUME players!PlayersAssumption, MintedByAdmins, [players!Next]_(players!vars)
  PROVE  MintedByAdmins'
<1>1. ASSUME UNCHANGED <<mintedBy, revokedAt>> PROVE MintedByAdmins'
  BY <1>1 DEF MintedByAdmins
<1>2. ASSUME NEW token, NEW k \in ApiKey, players!CreateKey(token, k)
      PROVE  MintedByAdmins'
  <2>1. token.typ = "access" /\ token.rol = "ADMIN"
    BY <1>2 DEF players!CreateKey, players!requires, players!read
  <2> QED
    BY <1>2, <2>1 DEF players!CreateKey, MintedByAdmins
<1>3. ASSUME NEW token, NEW k \in ApiKey, players!RevokeKey(token, k)
      PROVE  MintedByAdmins'
  BY <1>3 DEF players!RevokeKey, MintedByAdmins
<1>4. ASSUME NEW token \in tokens, players!Act(token) \/ players!Look(token)
      PROVE  MintedByAdmins'
  BY <1>1, <1>2, <1>3, <1>4 DEF players!Act, players!Look, players!Rename, players!Expire,
     players!ListPlayers
<1>5. ASSUME NEW r \in Caller, players!Handle(r) PROVE MintedByAdmins'
  BY <1>1, <1>5 DEF players!Handle, players!TakeTime, players!Upsert
<1> QED
  BY <1>1, <1>4, <1>5
     DEF players!Next, players!Tick, players!SignIn, players!StartSession,
     players!StartWalk, players!vars

LEMMA NamesNext ==
  ASSUME players!PlayersAssumption, PlayersInv, NamesAreOwn, [players!Next]_(players!vars)
  PROVE  NamesAreOwn'
<1>1. ASSUME UNCHANGED player PROVE NamesAreOwn'
  BY <1>1 DEF NamesAreOwn, players!Registered
<1>2. ASSUME NEW r \in Caller, players!Upsert(r) PROVE NamesAreOwn'
  <2> SUFFICES ASSUME NEW e \in ExternalId, e = joining[r].external PROVE NamesAreOwn'
    BY <1>2
       DEF players!Upsert, PlayersInv, PlayersTyped, players!Idle, Starting, Upserting
  <2> DEFINE now == joining[r].now
             latest == IF now > player[e].seen THEN now ELSE player[e].seen
  <2>1. player' = [player EXCEPT ![e] =
                     IF player[e] = Absent
                     THEN [id |-> joining[r].id, seen |-> now, name |-> None]
                     ELSE [player[e] EXCEPT !.seen = latest]]
    BY <1>2 DEF players!Upsert
  <2> HIDE DEF now, latest
  <2>2. \A f \in ExternalId \ {e} : player'[f] = player[f]
    BY <2>1 DEF PlayersInv, PlayersTyped
  <2>3. CASE player[e] = Absent
    BY <2>1, <2>2, <2>3 DEF PlayersInv, PlayersTyped, NamesAreOwn, players!Registered
  <2>4. CASE player[e] # Absent
    <3>1. player'[e] = [player[e] EXCEPT !.seen = latest] /\ player[e] \in PlayerRow
      BY <2>1, <2>4 DEF PlayersInv, PlayersTyped
    <3>2. player'[e].name = player[e].name /\ player'[e].id = player[e].id
      BY <3>1 DEF PlayerRow
    <3> QED
      BY <2>2, <2>4, <3>2 DEF NamesAreOwn, players!Registered
  <2> QED
    BY <2>3, <2>4
<1>3. ASSUME NEW token, NEW e \in ExternalId, players!Rename(token, e) PROVE NamesAreOwn'
  <2>1. /\ player' = [player EXCEPT ![e].name = token.sub]
        /\ player[e].id = token.sub /\ player[e] \in PlayerRow /\ player[e] # Absent
    BY <1>3 DEF players!Rename, players!Registered, PlayersInv, PlayersTyped
  <2>2. player'[e].name = token.sub /\ player'[e].id = player[e].id
    BY <2>1 DEF PlayersInv, PlayersTyped, PlayerRow
  <2>3. \A f \in ExternalId \ {e} : player'[f] = player[f]
    BY <2>1 DEF PlayersInv, PlayersTyped
  <2> QED
    BY <2>1, <2>2, <2>3 DEF NamesAreOwn, players!Registered
<1>4. ASSUME NEW token \in tokens, players!Act(token) \/ players!Look(token)
      PROVE  NamesAreOwn'
  BY <1>1, <1>3, <1>4 DEF players!Act, players!Look, players!CreateKey, players!RevokeKey,
     players!Expire, players!ListPlayers
<1>5. ASSUME NEW r \in Caller, players!Handle(r) PROVE NamesAreOwn'
  BY <1>1, <1>2, <1>5 DEF players!Handle, players!TakeTime
<1> QED
  BY <1>1, <1>4, <1>5
     DEF players!Next, players!Tick, players!SignIn, players!StartSession,
     players!StartWalk, players!vars

(***************************************************************************)
(* No credential stands in for another: a key is minted with an            *)
(* administrator's access token and nothing less, and the name a player    *)
(* shows is one they gave themselves.                                      *)
(***************************************************************************)
THEOREM NoTokenIsTakenForAnother ==
  ASSUME PlatformAssumption
  PROVE  PlatformSpec => []NoTokenStandsIn
<1>1. PlatformInit => PlayersInv /\ MintedByAdmins /\ NamesAreOwn
  BY PlayersInitInv
     DEF PlatformInit, players!Init, MintedByAdmins, NamesAreOwn, players!Registered
<1>2. PlayersInv /\ MintedByAdmins /\ NamesAreOwn /\ [PlatformNext]_platformVars
        => PlayersInv' /\ MintedByAdmins' /\ NamesAreOwn'
  BY PlayersNextInv, MintedNext, NamesNext, PlayersStepOrNone DEF PlatformAssumption
<1>3. MintedByAdmins /\ NamesAreOwn => NoTokenStandsIn
  BY DEF MintedByAdmins, NamesAreOwn, NoTokenStandsIn, players!NoTokenStandsIn
<1> QED
  BY <1>1, <1>2, <1>3, PTL DEF PlatformSpec
-----------------------------------------------------------------------------
(***************************************************************************)
(* What is installed with a receipt is what somebody trusted signed, and   *)
(* the screens a service reports are vouched for, for any number of        *)
(* publishers, installs and archives, and whatever anybody does to the     *)
(* registry and to the plugins directory meanwhile.                        *)
(*                                                                         *)
(* Neither is inductive: the bytes that are put in place were checked some *)
(* steps earlier, and nothing in the registry is still what it was then.   *)
(* So the invariant follows the archive: a checked install carries bytes   *)
(* and a key for which a statement exists, and statements never go away.   *)
(***************************************************************************)

Statement == SigningKey \X plugins!Address \X Archive
Entry == [sha256 : Archive, key : SigningKey, signature : Statement]
Index == [plugins!Address -> {Absent} \cup Entry]
Receipt == [of : plugins!Address, sha256 : Archive, key : Trusted]
Tree == [tree : Archive, receipt : {Absent} \cup Receipt]

Listing == [pc : {"listing"}, entry : Entry]
Writing == [pc : {"writing"}, entry : Entry, kept : Index]

Found == [pc : {"found"}, want : plugins!Address, entry : Entry]
Checked == [pc : {"verified", "fits"}, data : Archive, key : Trusted]
Unpacked == [pc : {"staged", "aside"}, tree : Archive, receipt : Receipt]

Running ==
  [pc : {"down", "registered", "mounted", "up"},
   apps : [Name -> {Absent} \cup Version],
   code : [Name -> {Absent} \cup Archive],
   screens : [Name -> {Absent} \cup Archive]]

StoreTyped ==
  /\ index \in Index
  /\ shop \in [Publisher -> {plugins!Idle} \cup Listing \cup Writing]
  /\ installing \in [Caller -> {plugins!Idle} \cup Found \cup Checked \cup Unpacked]
  /\ disk \in [Name -> {Absent} \cup Tree]
  /\ service \in Running

(* The receipt is the tree's, and its key's holder stated what the tree is. *)
Vouches(receipt, tree) ==
  /\ receipt.sha256 = tree /\ receipt.of = Declares[tree]
  /\ <<receipt.key, Declares[tree], tree>> \in signed

InstallsAreChecked ==
  \A i \in Caller :
    /\ installing[i] \in Checked => <<installing[i].key, Declares[installing[i].data], installing[i].data>> \in signed
    /\ installing[i] \in Unpacked => Vouches(installing[i].receipt, installing[i].tree)

ReceiptsVouch ==
  \A n \in Name :
    (disk[n] # Absent /\ disk[n].receipt # Absent) =>
      Vouches(disk[n].receipt, disk[n].tree) /\ plugins!NameOf(disk[n].tree) = n

StoreInv == StoreTyped /\ InstallsAreChecked /\ ReceiptsVouch /\ plugins!ScreenIsVouched

LEMMA StoreInitInv == ASSUME plugins!Init PROVE StoreInv
<1>1. StoreTyped
  BY DEF plugins!Init, StoreTyped, Index, Running, plugins!Nothing, plugins!Down
<1>2. InstallsAreChecked /\ ReceiptsVouch /\ plugins!ScreenIsVouched
  BY DEF plugins!Init, InstallsAreChecked, ReceiptsVouch, plugins!ScreenIsVouched,
     plugins!Nothing, plugins!Down, plugins!Idle,
         Checked, Unpacked
<1> QED
  BY <1>1, <1>2 DEF StoreInv

(* The registry's steps: statements are only added. *)
LEMMA RegistryInv ==
  ASSUME StoreInv, StoreTyped', signed \subseteq signed', UNCHANGED <<installing, disk,
         service>>
  PROVE  StoreInv'
BY DEF StoreInv, InstallsAreChecked, ReceiptsVouch, plugins!ScreenIsVouched, Vouches

LEMMA PublishInv ==
  ASSUME plugins!PluginStoreAssumption, StoreInv,
         NEW p \in Publisher, NEW a \in Archive, NEW k \in SigningKey, plugins!Publish(p, a, k)
  PROVE  StoreInv'
<1> DEFINE entry == [sha256 |-> a, key |-> k, signature |-> <<k, Declares[a], a>>]
<1>1. entry \in Entry
  BY DEF plugins!PluginStoreAssumption, Entry, Statement, plugins!Address
<1>2. shop' = [shop EXCEPT ![p] = [pc |-> "listing", entry |-> entry]]
      /\ signed \subseteq signed' /\ UNCHANGED <<index, installing, disk, service>>
  BY DEF plugins!Publish
<1> HIDE DEF entry
<1>3. [pc |-> "listing", entry |-> entry] \in Listing
  BY <1>1 DEF Listing
<1>4. StoreTyped'
  BY <1>2, <1>3 DEF StoreInv, StoreTyped
<1> QED
  BY <1>2, <1>4, RegistryInv

LEMMA ReadIndexInv ==
  ASSUME StoreInv, NEW p \in Publisher, plugins!ReadIndex(p)
  PROVE  StoreInv'
<1>1. shop[p] \in Listing /\ index \in Index
  BY DEF plugins!ReadIndex, StoreInv, StoreTyped, plugins!Idle, Listing, Writing
<1>2. [pc |-> "writing", entry |-> shop[p].entry, kept |-> index] \in Writing
  BY <1>1 DEF Listing, Writing
<1>3. shop' = [shop EXCEPT ![p] = [pc |-> "writing", entry |-> shop[p].entry, kept |-> index]]
      /\ UNCHANGED <<index, signed, installing, disk, service>>
  BY DEF plugins!ReadIndex
<1>4. StoreTyped'
  BY <1>2, <1>3 DEF StoreInv, StoreTyped
<1> QED
  BY <1>3, <1>4, RegistryInv

LEMMA WriteIndexInv ==
  ASSUME plugins!PluginStoreAssumption, StoreInv, NEW p \in Publisher,
         plugins!_write_index(p)
  PROVE  StoreInv'
<1>1. shop[p] \in Writing
  BY DEF plugins!_write_index, StoreInv, StoreTyped, plugins!Idle, Listing, Writing
<1>2. shop[p].kept \in Index /\ shop[p].entry \in Entry
  BY <1>1 DEF Writing
<1>3. index' = [shop[p].kept EXCEPT ![Declares[shop[p].entry.sha256]] = shop[p].entry]
      /\ shop' = [shop EXCEPT ![p] = plugins!Idle]
      /\ UNCHANGED <<signed, installing, disk, service>>
  BY DEF plugins!_write_index
<1>4. index' \in Index
  BY <1>2, <1>3 DEF Index
<1>5. StoreTyped'
  BY <1>3, <1>4 DEF StoreInv, StoreTyped
<1> QED
  BY <1>3, <1>5, RegistryInv

LEMMA EditIndexInv ==
  ASSUME StoreInv, NEW d \in plugins!Address, NEW a \in Archive, plugins!EditIndex(d, a)
  PROVE  StoreInv'
<1>1. index[d] \in Entry /\ index' = [index EXCEPT ![d].sha256 = a]
      /\ UNCHANGED <<signed, shop, installing, disk, service>>
  BY DEF plugins!EditIndex, StoreInv, StoreTyped, Index
<1>2. [index[d] EXCEPT !.sha256 = a] \in Entry
  BY <1>1 DEF Entry
<1>3. index' \in Index
  BY <1>1, <1>2 DEF StoreInv, StoreTyped, Index
<1>4. StoreTyped'
  BY <1>1, <1>3 DEF StoreInv, StoreTyped
<1> QED
  BY <1>1, <1>4, RegistryInv
-----------------------------------------------------------------------------
(* A step of an install, which moves to `step` and leaves the disk alone. *)
LEMMA GoInv ==
  ASSUME StoreInv, NEW i \in Caller,
         NEW step \in {plugins!Idle} \cup Found \cup Checked \cup Unpacked,
         step \in Checked => <<step.key, Declares[step.data], step.data>> \in signed,
         step \in Unpacked => Vouches(step.receipt, step.tree),
         plugins!Go(i, step), UNCHANGED <<index, signed, shop, disk, service>>
  PROVE  StoreInv'
<1>1. installing' = [installing EXCEPT ![i] = step]
  BY DEF plugins!Go
<1>2. StoreTyped'
  BY <1>1 DEF StoreInv, StoreTyped
<1>3. InstallsAreChecked'
  BY <1>1 DEF StoreInv, StoreTyped, InstallsAreChecked, Vouches
<1>4. ReceiptsVouch' /\ plugins!ScreenIsVouched'
  BY DEF StoreInv, ReceiptsVouch, plugins!ScreenIsVouched, Vouches
<1> QED
  BY <1>2, <1>3, <1>4 DEF StoreInv

LEMMA FindInv ==
  ASSUME StoreInv, NEW i \in Caller, NEW d \in plugins!Address, plugins!find(i, d)
  PROVE  StoreInv'
<1> DEFINE step == [pc |-> "found", want |-> d, entry |-> index[d]]
<1>1. index[d] \in Entry
  BY DEF plugins!find, StoreInv, StoreTyped, Index
<1>2. step \in Found
  BY <1>1 DEF Found
<1>3. step \notin Checked /\ step \notin Unpacked
  BY DEF Checked, Unpacked
<1>4. plugins!Go(i, step) /\ UNCHANGED <<index, signed, shop, disk, service>>
  BY DEF plugins!find
<1> HIDE DEF step
<1> QED
  BY <1>2, <1>3, <1>4, GoInv

LEMMA VerifyInv ==
  ASSUME StoreInv, NEW i \in Caller, plugins!Verify(i)
  PROVE  StoreInv'
<1> DEFINE data == file[installing[i].want]
           step == [pc |-> "verified", data |-> data, key |-> installing[i].entry.key]
<1>1. installing[i] \in Found
  BY DEF plugins!Verify, StoreInv, StoreTyped, plugins!Idle, Found, Checked, Unpacked
<1>2. /\ data = installing[i].entry.sha256 /\ Declares[data] = installing[i].want
      /\ installing[i].entry.key \in Trusted
      /\ <<installing[i].entry.key, installing[i].want, installing[i].entry.sha256>> \in signed
  BY DEF plugins!Verify, plugins!verify
<1>3. data \in Archive
  BY <1>1, <1>2 DEF Found, Entry
<1>4. step \in Checked
  BY <1>2, <1>3 DEF Checked
<1>5. <<step.key, Declares[step.data], step.data>> \in signed
  BY <1>2
<1>6. step \notin Unpacked
  BY DEF Unpacked
<1>7. plugins!Go(i, step) /\ UNCHANGED <<index, signed, shop, disk, service>>
  BY DEF plugins!Verify
<1> HIDE DEF step
<1> QED
  BY <1>4, <1>5, <1>6, <1>7, GoInv

LEMMA FitInv ==
  ASSUME StoreInv, NEW i \in Caller, plugins!Fit(i)
  PROVE  StoreInv'
<1> DEFINE step == [installing[i] EXCEPT !.pc = "fits"]
<1>1. installing[i] \in Checked
  BY DEF plugins!Fit, StoreInv, StoreTyped, plugins!Idle, Found, Checked, Unpacked
<1>2. step \in Checked /\ step.key = installing[i].key /\ step.data = installing[i].data
  BY <1>1 DEF Checked
<1>3. step \notin Unpacked
  BY <1>1 DEF Checked, Unpacked
<1>4. plugins!Go(i, step) /\ UNCHANGED <<index, signed, shop, disk, service>>
  BY DEF plugins!Fit
<1>5. <<step.key, Declares[step.data], step.data>> \in signed
  BY <1>1, <1>2 DEF StoreInv, InstallsAreChecked
<1> HIDE DEF step
<1> QED
  BY <1>2, <1>3, <1>4, <1>5, GoInv

LEMMA StageInv ==
  ASSUME plugins!PluginStoreAssumption, StoreInv, NEW i \in Caller, plugins!Stage(i)
  PROVE  StoreInv'
<1> DEFINE receipt == plugins!write_receipt(installing[i].data, installing[i].key)
           step == [pc |-> "staged", tree |-> installing[i].data, receipt |-> receipt]
<1>1. installing[i] \in Checked
  BY DEF plugins!Stage, StoreInv, StoreTyped, plugins!Idle, Found, Checked, Unpacked
<1>2. /\ installing[i].data \in Archive /\ installing[i].key \in Trusted
      /\ <<installing[i].key, Declares[installing[i].data], installing[i].data>> \in signed
  BY <1>1 DEF Checked, StoreInv, InstallsAreChecked
<1>3. receipt \in Receipt
  BY <1>2
     DEF plugins!PluginStoreAssumption, plugins!write_receipt, Receipt, plugins!Address
<1>4. Vouches(receipt, installing[i].data)
  BY <1>2 DEF Vouches, plugins!write_receipt
<1> HIDE DEF receipt
<1>5. step \in Unpacked /\ step \notin Checked
  BY <1>2, <1>3 DEF Unpacked, Checked
<1>6. Vouches(step.receipt, step.tree)
  BY <1>4
<1>7. plugins!Go(i, step) /\ UNCHANGED <<index, signed, shop, disk, service>>
  BY DEF plugins!Stage, receipt
<1> HIDE DEF step
<1> QED
  BY <1>5, <1>6, <1>7, GoInv

LEMMA AbandonInv ==
  ASSUME StoreInv, NEW i \in Caller, plugins!Abandon(i)
  PROVE  StoreInv'
BY GoInv DEF plugins!Abandon, plugins!Idle, Checked, Unpacked
-----------------------------------------------------------------------------
(* A change of the disk at one name, to nothing or to what is vouched for  *)
(* or has no receipt.                                                      *)
LEMMA DiskInv ==
  ASSUME StoreInv, NEW n \in Name, NEW there \in {Absent} \cup Tree,
         (there # Absent /\ there.receipt # Absent) =>
           Vouches(there.receipt, there.tree) /\ plugins!NameOf(there.tree) = n,
         disk' = [disk EXCEPT ![n] = there],
         installing' \in [Caller -> {plugins!Idle} \cup Found \cup Checked \cup Unpacked],
         InstallsAreChecked', UNCHANGED <<index, signed, shop, service>>
  PROVE  StoreInv'
<1>1. StoreTyped'
  BY DEF StoreInv, StoreTyped
<1>2. ReceiptsVouch'
  BY DEF StoreInv, StoreTyped, ReceiptsVouch, Vouches
<1>3. plugins!ScreenIsVouched'
  BY DEF StoreInv, plugins!ScreenIsVouched
<1> QED
  BY <1>1, <1>2, <1>3 DEF StoreInv

LEMMA UnpackedName ==
  ASSUME plugins!PluginStoreAssumption, NEW a \in Archive
  PROVE  plugins!NameOf(a) \in Name
BY DEF plugins!PluginStoreAssumption, plugins!NameOf

LEMMA AsideInv ==
  ASSUME plugins!PluginStoreAssumption, StoreInv, NEW i \in Caller, plugins!Aside(i)
  PROVE  StoreInv'
<1>1. installing[i] \in Unpacked
  BY DEF plugins!Aside, StoreInv, StoreTyped, plugins!Idle, Found, Checked, Unpacked
<1>2. [installing[i] EXCEPT !.pc = "aside"] \in Unpacked /\ [installing[i] EXCEPT !.pc = "aside"] \notin Checked
      /\ [installing[i] EXCEPT !.pc = "aside"].receipt = installing[i].receipt
      /\ [installing[i] EXCEPT !.pc = "aside"].tree = installing[i].tree
  BY <1>1 DEF Unpacked, Checked
<1>3. installing' = [installing EXCEPT ![i] = [installing[i] EXCEPT !.pc = "aside"]]
      /\ disk' = [disk EXCEPT ![plugins!NameOf(installing[i].tree)] = Absent]
      /\ UNCHANGED <<index, signed, shop, service>>
  BY DEF plugins!Aside, plugins!Go
<1>4. installing' \in [Caller -> {plugins!Idle} \cup Found \cup Checked \cup Unpacked]
  BY <1>2, <1>3 DEF StoreInv, StoreTyped
<1>5. InstallsAreChecked'
  BY <1>1, <1>2, <1>3 DEF StoreInv, StoreTyped, InstallsAreChecked, Vouches
<1>6. plugins!NameOf(installing[i].tree) \in Name
  BY <1>1, UnpackedName DEF Unpacked
<1> QED
  BY <1>3, <1>4, <1>5, <1>6, DiskInv

LEMMA PlaceInv ==
  ASSUME plugins!PluginStoreAssumption, StoreInv, NEW i \in Caller, plugins!Place(i)
  PROVE  StoreInv'
<1> DEFINE there == [tree |-> installing[i].tree, receipt |-> installing[i].receipt]
<1>1. installing[i] \in Unpacked
  BY DEF plugins!Place, StoreInv, StoreTyped, plugins!Idle, Found, Checked, Unpacked
<1>2. Vouches(installing[i].receipt, installing[i].tree)
  BY <1>1 DEF StoreInv, InstallsAreChecked
<1>3. there \in Tree
  BY <1>1 DEF Unpacked, Tree
<1>4. installing' = [installing EXCEPT ![i] = plugins!Idle]
      /\ disk' = [disk EXCEPT ![plugins!NameOf(installing[i].receipt.sha256)] = there]
      /\ UNCHANGED <<index, signed, shop, service>>
  BY DEF plugins!Place, plugins!Go
<1>5. installing' \in [Caller -> {plugins!Idle} \cup Found \cup Checked \cup Unpacked]
  BY <1>4 DEF StoreInv, StoreTyped
<1>6. InstallsAreChecked'
  BY <1>4
     DEF StoreInv, StoreTyped, InstallsAreChecked, Vouches, plugins!Idle, Checked,
     Unpacked
<1>7. installing[i].receipt.sha256 = installing[i].tree /\ plugins!NameOf(installing[i].tree) \in Name
  BY <1>1, <1>2, UnpackedName DEF Unpacked, Vouches
<1>8. Vouches(there.receipt, there.tree) /\ there.tree = installing[i].tree
  BY <1>2
<1> HIDE DEF there
<1> QED
  BY <1>3, <1>4, <1>5, <1>6, <1>7, <1>8, DiskInv

LEMMA ByHandInv ==
  ASSUME plugins!PluginStoreAssumption, StoreInv,
         (\E n \in Name : plugins!Remove(n)) \/ (\E a \in Archive : plugins!CopyIn(a))
  PROVE  StoreInv'
<1>1. ASSUME UNCHANGED <<installing, signed>> PROVE InstallsAreChecked'
  BY <1>1 DEF StoreInv, InstallsAreChecked, Vouches
<1>2. ASSUME NEW n \in Name, plugins!Remove(n) PROVE StoreInv'
  <2>1. /\ disk' = [disk EXCEPT ![n] = Absent]
        /\ UNCHANGED <<index, signed, shop, installing, service>>
    BY <1>2 DEF plugins!Remove
  <2> QED
    BY <1>1, <2>1, DiskInv DEF StoreInv, StoreTyped
<1>3. ASSUME NEW a \in Archive, plugins!CopyIn(a) PROVE StoreInv'
  <2> DEFINE there == [tree |-> a, receipt |-> Absent]
  <2>1. /\ disk' = [disk EXCEPT ![plugins!NameOf(a)] = there]
        /\ UNCHANGED <<index, signed, shop, installing, service>>
    BY <1>3 DEF plugins!CopyIn
  <2>2. there \in Tree /\ there.receipt = Absent /\ plugins!NameOf(a) \in Name
    BY UnpackedName DEF Tree
  <2> HIDE DEF there
  <2> QED
    BY <1>1, <2>1, <2>2, DiskInv DEF StoreInv, StoreTyped
<1> QED
  BY <1>2, <1>3
-----------------------------------------------------------------------------
(* A step of the service, which changes nothing else. *)
LEMMA ServiceInv ==
  ASSUME StoreInv, service' \in Running, plugins!ScreenIsVouched',
         UNCHANGED <<file, index, signed, shop, installing, disk>>
  PROVE  StoreInv'
BY DEF StoreInv, StoreTyped, InstallsAreChecked, ReceiptsVouch, Vouches

LEMMA StartingInv ==
  ASSUME plugins!PluginStoreAssumption, StoreInv,
         plugins!build_registry \/ plugins!mount \/ plugins!Stop
  PROVE  StoreInv'
<1>1. service'.pc # "up" => plugins!ScreenIsVouched'
  BY DEF plugins!ScreenIsVouched
<1>2. CASE plugins!build_registry
  <2> DEFINE apps == [n \in Name |-> IF disk[n] = Absent THEN Absent ELSE plugins!VersionOf(disk[n].tree)]
  <2>1. apps \in [Name -> {Absent} \cup Version]
    BY DEF StoreInv, StoreTyped, Tree, plugins!VersionOf, plugins!PluginStoreAssumption
  <2>2. service' = [service EXCEPT !.pc = "registered", !.apps = apps]
        /\ UNCHANGED <<file, index, signed, shop, installing, disk>>
    BY <1>2 DEF plugins!build_registry
  <2> HIDE DEF apps
  <2>3. service' \in Running /\ service'.pc # "up"
    BY <2>1, <2>2 DEF StoreInv, StoreTyped, Running
  <2> QED
    BY <1>1, <2>2, <2>3, ServiceInv
<1>3. CASE plugins!mount
  <2> DEFINE code == [n \in Name |-> IF service.apps[n] = Absent THEN Absent ELSE disk[n].tree]
  <2>1. code \in [Name -> {Absent} \cup Archive]
    BY <1>3 DEF plugins!mount, StoreInv, StoreTyped, Tree
  <2>2. service' = [service EXCEPT !.pc = "mounted", !.code = code]
        /\ UNCHANGED <<file, index, signed, shop, installing, disk>>
    BY <1>3 DEF plugins!mount
  <2> HIDE DEF code
  <2>3. service' \in Running /\ service'.pc # "up"
    BY <2>1, <2>2 DEF StoreInv, StoreTyped, Running
  <2> QED
    BY <1>1, <2>2, <2>3, ServiceInv
<1>4. CASE plugins!Stop
  <2>1. service' = plugins!Down /\ UNCHANGED <<file, index, signed, shop, installing, disk>>
    BY <1>4 DEF plugins!Stop
  <2>2. service' \in Running /\ service'.pc # "up"
    BY <2>1 DEF plugins!Down, plugins!Nothing, Running
  <2> QED
    BY <1>1, <2>1, <2>2, ServiceInv
<1> QED
  BY <1>2, <1>3, <1>4

(* A receipt of this name and version is one somebody's statement is about. *)
LEMMA ScreensInv ==
  ASSUME StoreInv, plugins!served_screens
  PROVE  StoreInv'
<1> DEFINE screens == [n \in Name |-> plugins!served_ui(n)]
<1>1. ASSUME NEW n \in Name, plugins!served_ui(n) # Absent
      PROVE  /\ plugins!served_ui(n) \in Archive
             /\ \E k \in Trusted : <<k, <<n, service.apps[n]>>, plugins!served_ui(n)>> \in signed
  <2>1. disk[n] # Absent /\ disk[n].receipt # Absent
        /\ disk[n].receipt.of = <<n, service.apps[n]>> /\ plugins!served_ui(n) = disk[n].receipt.sha256
    BY <1>1 DEF plugins!served_ui
  <2>2. disk[n].receipt \in Receipt
    BY <2>1 DEF StoreInv, StoreTyped, Tree
  <2>3. Vouches(disk[n].receipt, disk[n].tree)
    BY <2>1 DEF StoreInv, ReceiptsVouch
  <2> QED
    BY <2>1, <2>2, <2>3 DEF Vouches, Receipt
<1>2. screens \in [Name -> {Absent} \cup Archive]
  BY <1>1
<1>3. service' = [service EXCEPT !.pc = "up", !.screens = screens]
      /\ UNCHANGED <<file, index, signed, shop, installing, disk>>
  BY DEF plugins!served_screens
<1>4. \A n \in Name : screens[n] = plugins!served_ui(n)
  OBVIOUS
<1> HIDE DEF screens
<1>5. service' \in Running /\ service'.apps = service.apps /\ service'.screens = screens
  BY <1>2, <1>3 DEF StoreInv, StoreTyped, Running
<1>6. plugins!ScreenIsVouched'
  BY <1>1, <1>3, <1>4, <1>5 DEF plugins!ScreenIsVouched
<1> QED
  BY <1>3, <1>5, <1>6, ServiceInv
-----------------------------------------------------------------------------
LEMMA StoreNextInv ==
  ASSUME plugins!PluginStoreAssumption, StoreInv, [plugins!Next]_(plugins!vars)
  PROVE  StoreInv'
<1>1. ASSUME NEW p \in Publisher, NEW a \in Archive, NEW k \in SigningKey,
             plugins!Publish(p, a, k)
      PROVE  StoreInv'
  BY <1>1, PublishInv
<1>2. ASSUME NEW p \in Publisher, plugins!ReadIndex(p) \/ plugins!_write_index(p)
      PROVE  StoreInv'
  BY <1>2, ReadIndexInv, WriteIndexInv
<1>3. ASSUME NEW d \in plugins!Address, NEW a \in Archive, plugins!Misplace(d, a)
      PROVE  StoreInv'
  BY <1>3, RegistryInv DEF plugins!Misplace, StoreInv, StoreTyped
<1>4. ASSUME NEW d \in plugins!Address, NEW a \in Archive, plugins!EditIndex(d, a)
      PROVE  StoreInv'
  BY <1>4, EditIndexInv
<1>5. ASSUME NEW i \in Caller, NEW d \in plugins!Address, plugins!find(i, d)
      PROVE  StoreInv'
  BY <1>5, FindInv
<1>6. ASSUME NEW i \in Caller,
             plugins!Verify(i) \/ plugins!Fit(i) \/ plugins!Stage(i) \/ plugins!Aside(i) \/ plugins!Place(i) \/ plugins!Abandon(i)
      PROVE  StoreInv'
  BY <1>6, VerifyInv, FitInv, StageInv, AsideInv, PlaceInv, AbandonInv
<1>7. CASE (\E n \in Name : plugins!Remove(n)) \/ (\E a \in Archive : plugins!CopyIn(a))
  BY <1>7, ByHandInv
<1>8. CASE plugins!build_registry \/ plugins!mount \/ plugins!Stop
  BY <1>8, StartingInv
<1>9. CASE plugins!served_screens
  BY <1>9, ScreensInv
<1>10. CASE UNCHANGED plugins!vars
  BY <1>10, RegistryInv DEF plugins!vars, StoreInv, StoreTyped
<1> QED
  BY <1>1, <1>2, <1>3, <1>4, <1>5, <1>6, <1>7, <1>8, <1>9, <1>10 DEF plugins!Next

LEMMA PluginsStepOrNone ==
  ASSUME [PlatformNext]_platformVars PROVE [plugins!Next]_(plugins!vars)
BY DEF PlatformNext, platformVars, SessionsStep, PlayersStep, PluginsStep, MigrationsStep,
       MediaStep, pluginVars, plugins!vars

LEMMA StoreInvariant == ASSUME PlatformAssumption PROVE PlatformSpec => []StoreInv
<1>1. PlatformInit => StoreInv
  BY StoreInitInv DEF PlatformInit
<1>2. StoreInv /\ [PlatformNext]_platformVars => StoreInv'
  BY StoreNextInv, PluginsStepOrNone DEF PlatformAssumption
<1> QED
  BY <1>1, <1>2, PTL DEF PlatformSpec

(***************************************************************************)
(* A directory with a receipt holds what a trusted key signed as it, under *)
(* its own name: the check made in memory covers what is put in place      *)
(* (install.py), although the registry may change at every step between.   *)
(***************************************************************************)
THEOREM OnlySignedIsPlaced ==
  ASSUME PlatformAssumption
  PROVE  PlatformSpec => []RunsWhatWasSigned
<1>1. StoreInv => RunsWhatWasSigned
  <2> SUFFICES ASSUME StoreInv, NEW n \in Name, disk[n] # Absent, disk[n].receipt # Absent
               PROVE  /\ disk[n].tree = disk[n].receipt.sha256 /\ plugins!NameOf(disk[n].tree) = n
                      /\ disk[n].receipt.key \in Trusted
                      /\ <<disk[n].receipt.key, Declares[disk[n].tree], disk[n].tree>> \in signed
    BY DEF RunsWhatWasSigned, plugins!RunsWhatWasSigned
  <2>1. disk[n].receipt \in Receipt
    BY DEF StoreInv, StoreTyped, Tree
  <2>2. Vouches(disk[n].receipt, disk[n].tree) /\ plugins!NameOf(disk[n].tree) = n
    BY DEF StoreInv, ReceiptsVouch
  <2> QED
    BY <2>1, <2>2 DEF Vouches, Receipt
<1> QED
  BY <1>1, StoreInvariant, PTL

(***************************************************************************)
(* The hash a service reports for a screen is of bytes signed as the name  *)
(* and version it reports (ui.py), whatever is installed while it starts.  *)
(***************************************************************************)
THEOREM ScreensAreSigned ==
  ASSUME PlatformAssumption
  PROVE  PlatformSpec => []ScreenIsVouched
<1>1. StoreInv => ScreenIsVouched
  BY DEF StoreInv, ScreenIsVouched
<1> QED
  BY <1>1, StoreInvariant, PTL
-----------------------------------------------------------------------------
(***************************************************************************)
(* Migrations.  The ledger says whose every table is, and it is true: what *)
(* an app made is recorded for it, by the transaction that made it.  A run *)
(* is judged by what was there when it began, so the invariant says that   *)
(* this is still there when it is judged: runs wait for each other.        *)
(***************************************************************************)
Objects == SUBSET Object
Fingerprints == [Object -> {Absent, 1, 2}]
Migrating ==
  [pc : {"migrating"}, app : App, claims : Objects, owned : Objects, before : Fingerprints,
   now : Fingerprints, touched : Objects, wrote : Objects, left : Int]
Escaped == [pc |-> "escaped"]

MigrationsTyped ==
  /\ catalog \in Fingerprints
  /\ ledger \in [Object -> {Absent} \cup App]
  /\ maker \in [Object -> {Absent, Platform, Unjudged} \cup App]
  /\ run \in [Caller -> {migrations!Idle, Escaped} \cup Migrating]

(* What a run read when it began is still so, but for what nothing judges. *)
RunIsTrue(t) ==
  /\ \A o \in Object : catalog[o] # t.before[o] => maker[o] = Unjudged
  /\ \A o \in t.claims : o \in HANDED_OVER[t.app] /\ t.before[o] # Absent /\ ledger[o] = Absent
  /\ \A o \in t.owned : ledger[o] = t.app \/ o \in t.claims
  /\ \A o \in Object : o \notin t.touched => t.now[o] = t.before[o]
  /\ \A o \in t.wrote : migrations!Independent(o)

(* Only one is under way, and it has the lock. *)
RunsAreTrue ==
  \A r \in Caller : run[r].pc = "migrating" => lock = r /\ RunIsTrue(run[r])

(* What is recorded is a table, and there: unless nothing has judged it. *)
RecordsAreThere ==
  \A o \in Object : ledger[o] # Absent =>
    migrations!Independent(o) /\ (maker[o] # Unjudged => catalog[o] # Absent)

(* A table that is there and recorded for nobody is the platform's. *)
TheRestIsPlatforms ==
  \A o \in Object :
    migrations!Independent(o) /\ ledger[o] = Absent /\ catalog[o] # Absent
      /\ maker[o] # Unjudged => maker[o] = Platform

MigrationsInv ==
  /\ MigrationsTyped /\ RunsAreTrue /\ RecordsAreThere /\ TheRestIsPlatforms
  /\ migrations!LedgerIsTrue

LEMMA MigrationsInitInv == ASSUME migrations!Init PROVE MigrationsInv
BY DEF migrations!Init, MigrationsInv, MigrationsTyped, RunsAreTrue, RecordsAreThere,
       TheRestIsPlatforms, migrations!LedgerIsTrue, migrations!Idle, Fingerprints

(* What happens to the run alone. *)
LEMMA RunsOnly ==
  ASSUME MigrationsInv, NEW r \in Caller,
         NEW step \in {migrations!Idle, Escaped} \cup Migrating,
         run' = [run EXCEPT ![r] = step], UNCHANGED <<catalog, ledger, maker>>,
         lock' = lock \/ \A q \in Caller \ {r} : run[q].pc # "migrating",
         step.pc = "migrating" => lock' = r /\ RunIsTrue(step)
  PROVE  MigrationsInv'
<1>1. MigrationsTyped'
  BY DEF MigrationsInv, MigrationsTyped
<1>2. run'[r] = step /\ \A q \in Caller \ {r} : run'[q] = run[q]
  BY DEF MigrationsInv, MigrationsTyped
<1>3. RunsAreTrue'
  BY <1>2 DEF MigrationsInv, RunsAreTrue, RunIsTrue
<1> QED
  BY <1>1, <1>3 DEF MigrationsInv, RecordsAreThere, TheRestIsPlatforms,
     migrations!LedgerIsTrue, migrations!HandedTo

LEMMA BeginInv ==
  ASSUME migrations!AppMigrationsAssumption, MigrationsInv, NEW r \in Caller, NEW a \in App,
         migrations!Begin(r, a)
  PROVE  MigrationsInv'
<1> DEFINE claims == migrations!_hand_over(a)
           owned == migrations!_owned(a, claims)
           step == [pc |-> "migrating", app |-> a, claims |-> claims, owned |-> owned,
                    before |-> catalog, now |-> catalog, touched |-> {}, wrote |-> {},
                    left |-> MAX_STATEMENTS]
<1>1. claims \in Objects /\ owned \in Objects /\ {} \in Objects
  BY DEF Objects, migrations!_hand_over, migrations!_owned,
     migrations!AppMigrationsAssumption
<1>2. \A o \in claims : o \in HANDED_OVER[a] /\ catalog[o] # Absent /\ ledger[o] = Absent
  BY DEF migrations!_hand_over
<1>3. \A o \in owned : ledger[o] = a \/ o \in claims
  BY DEF migrations!_owned
<1>4. run' = [run EXCEPT ![r] = step] /\ lock' = r /\ lock = Absent
      /\ UNCHANGED <<catalog, ledger, maker>>
  BY DEF migrations!Begin
<1> HIDE DEF claims, owned
<1>5. catalog \in Fingerprints /\ MAX_STATEMENTS \in Int
  BY DEF MigrationsInv, MigrationsTyped, migrations!AppMigrationsAssumption
<1>6. step \in Migrating
  BY <1>1, <1>5 DEF Migrating
<1>7. /\ step.app = a /\ step.claims = claims /\ step.owned = owned /\ step.before = catalog
      /\ step.now = catalog /\ step.touched = {} /\ step.wrote = {}
  OBVIOUS
<1> HIDE DEF step
<1>8. \A q \in Caller : run[q].pc # "migrating"
  BY <1>4 DEF MigrationsInv, RunsAreTrue, migrations!AppMigrationsAssumption
<1>9. RunIsTrue(step)
  BY <1>2, <1>3, <1>7 DEF RunIsTrue
<1> QED
  BY <1>4, <1>6, <1>8, <1>9, RunsOnly

LEMMA FewerLeft ==
  ASSUME NEW s \in Migrating
  PROVE  [s EXCEPT !.left = @ - 1] \in Migrating
BY DEF Migrating

LEMMA StatementInv ==
  ASSUME migrations!AppMigrationsAssumption, MigrationsInv, NEW r \in Caller,
         NEW o \in Object,
         migrations!Create(r, o) \/ migrations!Alter(r, o) \/ migrations!Drop(r, o)
           \/ migrations!WriteRows(r, o)
  PROVE  MigrationsInv'
<1>1. run[r].pc = "migrating" /\ UNCHANGED <<catalog, ledger, lock, maker>>
  BY DEF migrations!Create, migrations!Alter, migrations!Drop, migrations!WriteRows,
         migrations!Can
<1>2. run[r] \in Migrating
  BY <1>1 DEF MigrationsInv, MigrationsTyped, migrations!Idle, Escaped
<1>9. lock = r /\ RunIsTrue(run[r])
  BY <1>1 DEF MigrationsInv, RunsAreTrue
<1>3. ASSUME NEW objects \in Objects, NEW value \in {Absent, 1, 2},
             migrations!Rewritten(r, objects, value)
      PROVE  MigrationsInv'
  <2> DEFINE now == [p \in Object |-> IF p \in objects THEN value ELSE run[r].now[p]]
             touched == run[r].touched \cup objects
             step == [[[run[r] EXCEPT !.now = now] EXCEPT !.touched = touched]
                        EXCEPT !.left = @ - 1]
  <2>1. run' = [run EXCEPT ![r].now = now, ![r].touched = touched, ![r].left = @ - 1]
    BY <1>3 DEF migrations!Rewritten
  <2>2. now \in Fingerprints /\ touched \in Objects
    BY <1>2 DEF Fingerprints, Objects, Migrating
  <2>3. \A p \in Object : p \notin touched => p \notin run[r].touched /\ now[p] = run[r].now[p]
    OBVIOUS
  <2> HIDE DEF now, touched
  <2>4. step \in Migrating
    <3>1. [run[r] EXCEPT !.now = now] \in Migrating
      BY <1>2, <2>2 DEF Migrating
    <3>2. [[run[r] EXCEPT !.now = now] EXCEPT !.touched = touched] \in Migrating
      BY <2>2, <3>1 DEF Migrating
    <3> QED
      BY <3>2, FewerLeft
  <2>5. run' = [run EXCEPT ![r] = step]
    BY <1>2, <2>1 DEF MigrationsInv, MigrationsTyped, Migrating
  <2>6. /\ step.app = run[r].app /\ step.claims = run[r].claims /\ step.owned = run[r].owned
        /\ step.before = run[r].before /\ step.now = now /\ step.touched = touched
        /\ step.wrote = run[r].wrote
    BY <1>2 DEF Migrating
  <2> HIDE DEF step
  <2>7. RunIsTrue(step)
    BY <1>9, <2>3, <2>6 DEF RunIsTrue
  <2> QED
    BY <1>1, <1>9, <2>4, <2>5, <2>7, RunsOnly
<1>4. \A p \in Object : migrations!snapshot(run[r])[p] \in {Absent, 1, 2}
  BY <1>2 DEF migrations!snapshot, Migrating, Fingerprints, MigrationsInv, MigrationsTyped
<1>5. CASE migrations!Create(r, o)
  BY <1>3, <1>5 DEF migrations!Create, Objects
<1>6. CASE migrations!Alter(r, o)
  <2>1. 3 - migrations!snapshot(run[r])[o] \in {1, 2}
    BY <1>4, <1>6 DEF migrations!Alter
  <2> QED
    BY <1>3, <1>6, <2>1 DEF migrations!Alter, Objects
<1>7. CASE migrations!Drop(r, o)
  BY <1>3, <1>7 DEF migrations!Drop, Objects
<1>8. CASE migrations!WriteRows(r, o)
  <2> DEFINE wrote == run[r].wrote \cup {o}
             step == [[run[r] EXCEPT !.wrote = wrote] EXCEPT !.left = @ - 1]
  <2>1. run' = [run EXCEPT ![r].wrote = wrote, ![r].left = @ - 1]
    BY <1>8 DEF migrations!WriteRows
  <2>2. wrote \in Objects
    BY <1>2 DEF Objects, Migrating
  <2>3. \A p \in wrote : migrations!Independent(p)
    BY <1>8, <1>9 DEF migrations!WriteRows, RunIsTrue
  <2> HIDE DEF wrote
  <2>4. step \in Migrating
    <3>1. [run[r] EXCEPT !.wrote = wrote] \in Migrating
      BY <1>2, <2>2 DEF Migrating
    <3> QED
      BY <3>1, FewerLeft
  <2>5. run' = [run EXCEPT ![r] = step]
    BY <1>2, <2>1 DEF MigrationsInv, MigrationsTyped, Migrating
  <2>6. /\ step.app = run[r].app /\ step.claims = run[r].claims /\ step.owned = run[r].owned
        /\ step.before = run[r].before /\ step.now = run[r].now /\ step.touched = run[r].touched
        /\ step.wrote = wrote
    BY <1>2 DEF Migrating
  <2> HIDE DEF step
  <2>7. RunIsTrue(step)
    BY <1>9, <2>3, <2>6 DEF RunIsTrue
  <2> QED
    BY <1>1, <1>9, <2>4, <2>5, <2>7, RunsOnly
<1> QED
  BY <1>5, <1>6, <1>7, <1>8

(* How a run ends: nobody else's is under way. *)
LEMMA EndedRuns ==
  ASSUME MigrationsInv, NEW r \in Caller, NEW step \in {migrations!Idle, Escaped},
         run[r].pc = "migrating", run' = [run EXCEPT ![r] = step]
  PROVE  /\ \A q \in Caller : run'[q].pc # "migrating"
         /\ run' \in [Caller -> {migrations!Idle, Escaped} \cup Migrating]
<1>1. run' \in [Caller -> {migrations!Idle, Escaped} \cup Migrating]
  BY DEF MigrationsInv, MigrationsTyped
<1>2. run'[r] = step /\ \A q \in Caller \ {r} : run'[q] = run[q]
  BY DEF MigrationsInv, MigrationsTyped
<1>3. step.pc # "migrating"
  BY DEF migrations!Idle, Escaped
<1> QED
  BY <1>1, <1>2, <1>3 DEF MigrationsInv, RunsAreTrue

LEMMA RolledBackInv ==
  ASSUME MigrationsInv, NEW r \in Caller, run[r].pc \in {"migrating", "escaped"},
         migrations!Ended(r), UNCHANGED <<catalog, ledger, version, maker>>
  PROVE  MigrationsInv'
<1>1. run' = [run EXCEPT ![r] = migrations!Idle]
      /\ lock' = IF lock = r THEN Absent ELSE lock
  BY DEF migrations!Ended
<1>2. lock' = lock \/ \A q \in Caller \ {r} : run[q].pc # "migrating"
  BY <1>1 DEF MigrationsInv, RunsAreTrue
<1>3. migrations!Idle.pc # "migrating"
  BY DEF migrations!Idle
<1> QED
  BY <1>1, <1>2, <1>3, RunsOnly

(* What was judged and kept. *)
Created(t) ==
  {o \in Object : t.before[o] = Absent /\ migrations!snapshot(t)[o] # Absent
                    /\ migrations!Independent(o) /\ migrations!is_own(t.app, o)}

LEMMA KeptRuns ==
  ASSUME NEW t, migrations!Kept(t)
  PROVE  /\ \A o \in Object :
              t.before[o] = Absent /\ migrations!snapshot(t)[o] # Absent
                /\ migrations!Independent(o) => o \in Created(t)
         /\ \A o \in Object :
              t.before[o] # migrations!snapshot(t)[o] => BelongsTo[o] \in t.owned \cup Created(t)
         /\ \A o \in t.wrote :
              migrations!snapshot(t)[o] # Absent => o \in t.owned \cup Created(t)
BY DEF migrations!Kept, migrations!Judgement, migrations!judge, Created

LEMMA Recorded ==
  ASSUME NEW t
  PROVE  migrations!_record(t, migrations!Judgement(t).created, migrations!Judgement(t).dropped)
           = [o \in Object |->
               LET book == IF o \in t.claims \cup Created(t) /\ ledger[o] = Absent
                             THEN t.app ELSE ledger[o]
               IN IF /\ t.before[o] # Absent /\ migrations!snapshot(t)[o] = Absent
                     /\ BelongsTo[o] \in t.owned \cup Created(t) /\ book = t.app
                    THEN Absent ELSE book]
BY DEF migrations!_record, migrations!Claimed, migrations!Judgement, migrations!judge,
   Created

LEMMA EscapeInv ==
  ASSUME migrations!AppMigrationsAssumption, MigrationsInv, NEW r \in Caller,
         migrations!Escape(r)
  PROVE  MigrationsInv'
<1> DEFINE t == run[r]
<1>1. /\ t.pc = "migrating" /\ run' = [run EXCEPT ![r] = Escaped]
      /\ catalog' = [o \in Object |-> IF migrations!snapshot(t)[o] = Absent THEN Absent ELSE 1]
      /\ ledger' = [o \in Object |-> IF o \in t.claims /\ ledger[o] = Absent THEN t.app ELSE ledger[o]]
      /\ maker' = [o \in Object |-> IF o \in t.touched THEN Unjudged ELSE maker[o]]
  BY DEF migrations!Escape, migrations!Committed, migrations!Claimed, Escaped
<1>2. t \in Migrating
  BY <1>1 DEF MigrationsInv, MigrationsTyped, migrations!Idle, Escaped
<1>3. t.app \in App
  BY <1>2 DEF Migrating
<1>4. RunIsTrue(t)
  BY <1>1 DEF MigrationsInv, RunsAreTrue
<1>5. run' \in [Caller -> {migrations!Idle, Escaped} \cup Migrating] /\ RunsAreTrue'
  BY <1>1, EndedRuns DEF RunsAreTrue
<1>6. \A o \in Object : o \notin t.touched => migrations!snapshot(t)[o] = catalog[o]
  BY DEF migrations!snapshot
<1> HIDE DEF t
<1>7. MigrationsTyped'
  BY <1>1, <1>3, <1>5 DEF MigrationsInv, MigrationsTyped, Fingerprints
<1>8. \A o \in Object : maker'[o] # Unjudged =>
        /\ maker'[o] = maker[o] /\ (catalog'[o] = Absent <=> catalog[o] = Absent)
        /\ catalog[o] = t.before[o]
  <2>1. Absent # 1
    BY DEF migrations!AppMigrationsAssumption
  <2> QED
    BY <1>1, <1>4, <1>6, <2>1 DEF RunIsTrue
<1>9. \A o \in Object :
        \/ ledger'[o] = ledger[o]
        \/ /\ ledger[o] = Absent /\ ledger'[o] = t.app
           /\ o \in HANDED_OVER[t.app] /\ t.before[o] # Absent /\ migrations!Independent(o)
  BY <1>1, <1>3, <1>4
     DEF RunIsTrue, migrations!AppMigrationsAssumption, migrations!Independent
<1>10. RecordsAreThere'
  BY <1>8, <1>9 DEF MigrationsInv, RecordsAreThere, migrations!Independent
<1>11. TheRestIsPlatforms'
  BY <1>3, <1>8, <1>9 DEF MigrationsInv, TheRestIsPlatforms, migrations!Independent,
                          migrations!AppMigrationsAssumption
<1>12. migrations!LedgerIsTrue'
  BY <1>8, <1>9
     DEF MigrationsInv, TheRestIsPlatforms, migrations!LedgerIsTrue, migrations!HandedTo
<1> QED
  BY <1>5, <1>7, <1>10, <1>11, <1>12 DEF MigrationsInv

LEMMA JudgeInv ==
  ASSUME migrations!AppMigrationsAssumption, MigrationsInv, NEW r \in Caller,
         migrations!Judge(r)
  PROVE  MigrationsInv'
<1>1. run[r].pc = "migrating" /\ migrations!Ended(r) /\ version' = version
  BY DEF migrations!Judge
<1>2. CASE ~migrations!Kept(run[r])
  BY <1>1, <1>2, RolledBackInv DEF migrations!Judge
<1>3. CASE migrations!Kept(run[r])
  <2> DEFINE t == run[r]
             after == migrations!snapshot(t)
  <2>1. /\ run' = [run EXCEPT ![r] = migrations!Idle]
        /\ catalog' = [o \in Object |-> IF after[o] = Absent THEN Absent ELSE 1]
        /\ maker' = [o \in Object |-> IF maker[o] = Unjudged THEN Unjudged
                                      ELSE IF after[o] = Absent THEN Absent
                                      ELSE IF t.before[o] = Absent THEN t.app ELSE maker[o]]
    BY <1>1, <1>3
       DEF migrations!Judge, migrations!Committed, migrations!Made, migrations!Ended
  <2>2. ledger' = [o \in Object |->
               LET book == IF o \in t.claims \cup Created(t) /\ ledger[o] = Absent
                             THEN t.app ELSE ledger[o]
               IN IF /\ t.before[o] # Absent /\ after[o] = Absent
                     /\ BelongsTo[o] \in t.owned \cup Created(t) /\ book = t.app
                    THEN Absent ELSE book]
    BY <1>3, Recorded DEF migrations!Judge
  <2>3. t \in Migrating
    BY <1>1 DEF MigrationsInv, MigrationsTyped, migrations!Idle, Escaped
  <2>4. t.app \in App /\ t.app # Absent /\ t.app # Unjudged
    BY <2>3 DEF Migrating, migrations!AppMigrationsAssumption
  <2>5. RunIsTrue(t)
    BY <1>1 DEF MigrationsInv, RunsAreTrue
  <2>6. run' \in [Caller -> {migrations!Idle, Escaped} \cup Migrating] /\ RunsAreTrue'
    BY <1>1, <2>1, EndedRuns DEF RunsAreTrue
  <2>7. /\ \A o \in Object :
              t.before[o] = Absent /\ after[o] # Absent /\ migrations!Independent(o)
                => o \in Created(t)
        /\ \A o \in Object : t.before[o] # after[o] => BelongsTo[o] \in t.owned \cup Created(t)
    BY <1>3, KeptRuns
  <2>8. \A o \in Created(t) : t.before[o] = Absent /\ after[o] # Absent /\ migrations!Independent(o)
    BY DEF Created
  <2> HIDE DEF t, after
  <2>9. MigrationsTyped'
    BY <2>1, <2>2, <2>4, <2>6 DEF MigrationsInv, MigrationsTyped, Fingerprints
  <2>10. \A o \in Object : maker'[o] # Unjudged =>
           /\ maker[o] # Unjudged /\ catalog[o] = t.before[o]
           /\ (catalog'[o] = Absent <=> after[o] = Absent)
    <3>1. Absent # 1
      BY DEF migrations!AppMigrationsAssumption
    <3> QED
      BY <2>1, <2>5, <3>1 DEF RunIsTrue
  <2>11. \A o \in t.claims :
           o \in HANDED_OVER[t.app] /\ t.before[o] # Absent /\ ledger[o] = Absent
             /\ migrations!Independent(o)
    BY <2>4, <2>5
       DEF RunIsTrue, migrations!AppMigrationsAssumption, migrations!Independent
  <2>12. \A o \in Object : ledger'[o] # Absent =>
           \/ ledger[o] # Absent /\ ledger'[o] = ledger[o]
           \/ ledger[o] = Absent /\ ledger'[o] = t.app /\ o \in t.claims \cup Created(t)
    BY <2>2
  <2>13. RecordsAreThere'
    <3> SUFFICES ASSUME NEW o \in Object, ledger'[o] # Absent
                 PROVE  migrations!Independent(o) /\ (maker'[o] # Unjudged => catalog'[o] # Absent)
      BY DEF RecordsAreThere, migrations!Independent
    <3>1. migrations!Independent(o)
      BY <2>8, <2>11, <2>12 DEF MigrationsInv, RecordsAreThere
    <3>2. ASSUME maker'[o] # Unjudged, after[o] = Absent PROVE FALSE
      <4>1. maker[o] # Unjudged /\ catalog[o] = t.before[o]
        BY <2>10, <3>2
      <4>2. t.before[o] # Absent
        BY <2>8, <2>11, <2>12, <3>2, <4>1 DEF MigrationsInv, RecordsAreThere
      <4>3. BelongsTo[o] = o /\ o \in t.owned
        BY <2>7, <2>8, <3>1, <3>2, <4>2 DEF migrations!Independent
      <4>4. ledger[o] = t.app \/ o \in t.claims
        BY <2>5, <4>3 DEF RunIsTrue
      <4> QED
        BY <2>2, <2>4, <2>11, <3>2, <4>2, <4>3, <4>4
    <3> QED
      BY <2>10, <3>1, <3>2
  <2>14. TheRestIsPlatforms'
    <3> SUFFICES ASSUME NEW o \in Object, migrations!Independent(o), ledger'[o] = Absent,
                        catalog'[o] # Absent, maker'[o] # Unjudged
                 PROVE  maker'[o] = Platform
      BY DEF TheRestIsPlatforms, migrations!Independent
    <3>1. after[o] # Absent /\ maker[o] # Unjudged /\ catalog[o] = t.before[o]
      BY <2>10
    <3>2. o \notin t.claims \cup Created(t) /\ ledger[o] = Absent
      BY <2>2, <2>4, <3>1
    <3>3. t.before[o] # Absent
      BY <2>7, <3>1, <3>2
    <3> QED
      BY <2>1, <3>1, <3>2, <3>3 DEF MigrationsInv, TheRestIsPlatforms
  <2>15. migrations!LedgerIsTrue'
    <3> SUFFICES ASSUME NEW o \in Object, ledger'[o] # Absent, catalog'[o] # Absent,
                        maker'[o] # Unjudged
                 PROVE  \/ maker'[o] = ledger'[o]
                        \/ maker'[o] = Platform /\ o \in HANDED_OVER[ledger'[o]]
      BY DEF migrations!LedgerIsTrue, migrations!HandedTo
    <3>1. after[o] # Absent /\ maker[o] # Unjudged /\ catalog[o] = t.before[o]
      BY <2>10
    <3>2. CASE ledger[o] # Absent /\ ledger'[o] = ledger[o]
      <4>1. t.before[o] # Absent
        BY <3>1, <3>2 DEF MigrationsInv, RecordsAreThere
      <4> QED
        BY <2>1, <3>1, <3>2, <4>1
           DEF MigrationsInv, migrations!LedgerIsTrue, migrations!HandedTo
    <3>3. CASE o \in Created(t) /\ ledger'[o] = t.app
      BY <2>1, <2>8, <3>1, <3>3
    <3>4. CASE o \in t.claims /\ ledger'[o] = t.app
      BY <2>1, <2>11, <3>1, <3>4 DEF MigrationsInv, TheRestIsPlatforms
    <3> QED
      BY <2>12, <3>2, <3>3, <3>4
  <2> QED
    BY <2>6, <2>9, <2>13, <2>14, <2>15 DEF MigrationsInv
<1> QED
  BY <1>2, <1>3

LEMMA MigrateInv ==
  ASSUME migrations!AppMigrationsAssumption, MigrationsInv, NEW o \in Object,
         migrations!migrate(o)
  PROVE  MigrationsInv'
<1> DEFINE by == IF maker[o] = Unjudged \/ \E r \in Caller : run[r].pc = "migrating"
                   THEN Unjudged ELSE Platform
<1>1. /\ catalog[o] = Absent /\ catalog' = [catalog EXCEPT ![o] = 1]
      /\ maker' = [maker EXCEPT ![o] = by] /\ UNCHANGED <<ledger, lock, run>>
  BY DEF migrations!migrate
<1>2. by \in {Unjudged, Platform} /\ (maker[o] = Unjudged => by = Unjudged)
      /\ ((\E r \in Caller : run[r].pc = "migrating") => by = Unjudged)
  OBVIOUS
<1> HIDE DEF by
<1>3. MigrationsTyped'
  BY <1>1, <1>2 DEF MigrationsInv, MigrationsTyped, Fingerprints
<1>4. catalog'[o] = 1 /\ maker'[o] = by
      /\ \A p \in Object \ {o} : catalog'[p] = catalog[p] /\ maker'[p] = maker[p]
  BY <1>1 DEF MigrationsInv, MigrationsTyped, Fingerprints
<1>5. RunsAreTrue'
  BY <1>1, <1>2, <1>4 DEF MigrationsInv, RunsAreTrue, RunIsTrue
<1>6. RecordsAreThere'
  BY <1>1, <1>4 DEF MigrationsInv, RecordsAreThere, migrations!AppMigrationsAssumption
<1>7. TheRestIsPlatforms'
  BY <1>1, <1>2, <1>4 DEF MigrationsInv, TheRestIsPlatforms
<1>8. migrations!LedgerIsTrue'
  BY <1>1, <1>2, <1>4 DEF MigrationsInv, RecordsAreThere, migrations!LedgerIsTrue,
                          migrations!HandedTo
<1> QED
  BY <1>3, <1>5, <1>6, <1>7, <1>8 DEF MigrationsInv

LEMMA MigrationsNextInv ==
  ASSUME migrations!AppMigrationsAssumption, MigrationsInv,
         [migrations!Next]_(migrations!vars)
  PROVE  MigrationsInv'
<1>1. ASSUME NEW r \in Caller, NEW a \in App, migrations!Begin(r, a) PROVE MigrationsInv'
  BY <1>1, BeginInv
<1>2. ASSUME NEW r \in Caller, NEW o \in Object,
             migrations!Create(r, o) \/ migrations!Alter(r, o) \/ migrations!Drop(r, o)
               \/ migrations!WriteRows(r, o)
      PROVE  MigrationsInv'
  BY <1>2, StatementInv
<1>3. ASSUME NEW r \in Caller, migrations!Escape(r) PROVE MigrationsInv'
  BY <1>3, EscapeInv
<1>4. ASSUME NEW r \in Caller, migrations!Break(r) \/ migrations!Refuse(r)
      PROVE  MigrationsInv'
  BY <1>4, RolledBackInv DEF migrations!Break, migrations!Refuse
<1>5. ASSUME NEW r \in Caller, migrations!Judge(r) PROVE MigrationsInv'
  BY <1>5, JudgeInv
<1>6. ASSUME NEW o \in Object, migrations!migrate(o) PROVE MigrationsInv'
  BY <1>6, MigrateInv
<1>7. CASE UNCHANGED migrations!vars
  BY <1>7 DEF migrations!vars, MigrationsInv, MigrationsTyped, RunsAreTrue, RunIsTrue,
              RecordsAreThere, TheRestIsPlatforms, migrations!LedgerIsTrue, migrations!HandedTo
<1> QED
  BY <1>1, <1>2, <1>3, <1>4, <1>5, <1>6, <1>7 DEF migrations!Next

LEMMA MigrationsStepOrNone ==
  ASSUME [PlatformNext]_platformVars PROVE [migrations!Next]_(migrations!vars)
BY DEF PlatformNext, platformVars, SessionsStep, PlayersStep, PluginsStep, MigrationsStep,
       MediaStep, migrationVars, migrations!vars

LEMMA MigrationsInvariant ==
  ASSUME PlatformAssumption
  PROVE  PlatformSpec => []MigrationsInv
<1>1. PlatformInit => MigrationsInv
  BY MigrationsInitInv DEF PlatformInit
<1>2. MigrationsInv /\ [PlatformNext]_platformVars => MigrationsInv'
  BY MigrationsNextInv, MigrationsStepOrNone DEF PlatformAssumption
<1> QED
  BY <1>1, <1>2, PTL DEF PlatformSpec

(***************************************************************************)
(* What the ledger records for an app, that app made or was handed, for any*)
(* number of apps, runs and objects: no app comes to own what is another's *)
(* or the platform's, although a name with its prefix may be either's.     *)
(***************************************************************************)
THEOREM LedgerStaysTrue ==
  ASSUME PlatformAssumption
  PROVE  PlatformSpec => []LedgerIsTrue
<1>1. MigrationsInv => LedgerIsTrue
  BY DEF MigrationsInv, LedgerIsTrue
<1> QED
  BY <1>1, MigrationsInvariant, PTL

(* What the judgement of a run comes to, the ledger being true. *)
LEMMA KeptIsOwn ==
  ASSUME migrations!AppMigrationsAssumption, MigrationsInv,
         NEW r \in Caller, run[r].pc = "migrating", migrations!Kept(run[r]),
         NEW o \in run[r].touched \cup run[r].wrote
  PROVE  LET t == run[r]
             table == BelongsTo[o]
         IN \/ Unjudged \in {maker[o], maker[table]}
            \/ t.before[table] = Absent /\ migrations!is_own(t.app, table)
            \/ maker[table] = t.app \/ migrations!HandedTo(t.app, table)
            \/ t.now[o] = t.before[o] /\ (o \in t.wrote => t.now[o] = Absent)
<1> DEFINE t == run[r]
           after == migrations!snapshot(t)
           table == BelongsTo[o]
<1>1. t \in Migrating
  BY DEF MigrationsInv, MigrationsTyped, migrations!Idle, Escaped
<1>2. RunIsTrue(t) /\ o \in Object /\ table \in Object
  BY <1>1
     DEF MigrationsInv, RunsAreTrue, Migrating, Objects,
     migrations!AppMigrationsAssumption
<1>3. after[o] = IF o \in t.touched THEN t.now[o] ELSE catalog[o]
  BY <1>2 DEF migrations!snapshot
<1>4. /\ t.before[o] # after[o] => table \in t.owned \cup Created(t)
      /\ o \in t.wrote => (after[o] # Absent => o \in t.owned \cup Created(t))
  BY <1>2, KeptRuns
<1>5. \A p \in Created(t) : t.before[p] = Absent /\ migrations!is_own(t.app, p)
  BY DEF Created
<1> HIDE DEF t, after, table
<1>6. ASSUME maker[o] # Unjudged, maker[table] # Unjudged,
             ~(t.now[o] = t.before[o] /\ (o \in t.wrote => t.now[o] = Absent))
      PROVE  table \in t.owned \cup Created(t)
  <2>1. catalog[o] = t.before[o] /\ (o \notin t.touched => t.now[o] = t.before[o])
    BY <1>2, <1>6 DEF RunIsTrue
  <2>2. o \in t.wrote => table = o
    BY <1>2 DEF RunIsTrue, migrations!Independent, table
  <2> QED
    BY <1>3, <1>4, <1>6, <2>1, <2>2
<1>7. ASSUME maker[table] # Unjudged, table \in t.owned
      PROVE  maker[table] = t.app \/ migrations!HandedTo(t.app, table)
  <2>1. catalog[table] = t.before[table]
    BY <1>2, <1>7 DEF RunIsTrue
  <2>2. CASE ledger[table] = t.app
    BY <1>1, <1>2, <1>7, <2>2 DEF MigrationsInv, RecordsAreThere, migrations!LedgerIsTrue,
       migrations!AppMigrationsAssumption, Migrating
  <2>3. CASE table \in t.claims
    <3>1. table \in HANDED_OVER[t.app] /\ catalog[table] # Absent /\ ledger[table] = Absent
      BY <1>2, <2>1, <2>3 DEF RunIsTrue
    <3>2. migrations!Independent(table)
      BY <1>1, <3>1
         DEF migrations!AppMigrationsAssumption, migrations!Independent, Migrating
    <3> QED
      BY <1>2, <1>7, <3>1, <3>2 DEF MigrationsInv, TheRestIsPlatforms, migrations!HandedTo
  <2> QED
    BY <1>2, <1>7, <2>2, <2>3 DEF RunIsTrue
<1> QED
  BY <1>5, <1>6, <1>7 DEF t, table

(***************************************************************************)
(* A run that is kept has touched nothing that is not its app's: what the  *)
(* judgement of catalog.py comes to, the ledger being true.                *)
(***************************************************************************)
THEOREM AppsKeepToTheirOwn ==
  ASSUME PlatformAssumption
  PROVE  PlatformSpec => OnlyItsOwn
<1>1. ASSUME MigrationsInv, PlatformAssumption
      PROVE  \A r \in Caller :
               run[r].pc = "migrating" /\ migrations!Judge(r) /\ migrations!Kept(run[r]) =>
                 LET t == run[r]
                 IN \A o \in t.touched \cup t.wrote :
                      LET table == BelongsTo[o]
                      IN \/ Unjudged \in {maker[o], maker[table]}
                         \/ t.before[table] = Absent /\ migrations!is_own(t.app, table)
                         \/ maker[table] = t.app \/ migrations!HandedTo(t.app, table)
                         \/ t.now[o] = t.before[o] /\ (o \in t.wrote => t.now[o] = Absent)
  BY <1>1, KeptIsOwn DEF PlatformAssumption
<1> QED
  BY <1>1, MigrationsInvariant, PTL DEF OnlyItsOwn, migrations!OnlyItsOwn
-----------------------------------------------------------------------------
(***************************************************************************)
(* Media.  An id is under way in at most one upload, and has no row until  *)
(* that one adds it; from then on nothing adds bytes to it, and its row    *)
(* goes before its bytes do.  What lies about besides is accounted for: by *)
(* a request under way, or by a crash.                                     *)
(***************************************************************************)
Size == {Absent} \cup Nat
Declared == {"ogg", "png", "jpeg"}
Uploading ==
  [pc : {"receive", "add"}, id : Id, kind : media!Kind, declared : Declared]
Mixing == [pc : {"resolve"}, todo : Seq(Id)]
RunningTool == [pc |-> "run"]
Removing == [pc : {"unlink"}, id : Id]
Finding == [pc : {"open"}, id : Id, size : Nat]
Streaming == [pc : {"stream"}, size : Nat, holds : Nat]

MediaTyped ==
  /\ row \in [Id -> {Absent} \cup [kind : media!Kind, size : Nat]]
  /\ partial \in [Id -> Size] /\ bytes \in [Id -> Size]
  /\ uploading \in [Caller -> {media!Idle, RunningTool} \cup Uploading \cup Mixing]
  /\ ask \in [Client -> {media!Idle} \cup Removing \cup Finding \cup Streaming]

Holds(r, i) == uploading[r].pc \in {"receive", "add"} /\ uploading[r].id = i

(* An id under way is one request's, and has no row yet. *)
UploadsAreFresh ==
  \A r \in Caller, i \in Id : Holds(r, i) =>
    /\ i \in used /\ row[i] = Absent
    /\ \A q \in Caller : Holds(q, i) => q = r
    /\ uploading[r].pc = "receive" => partial[i] \in 0..LIMIT /\ bytes[i] = Absent
    /\ uploading[r].pc = "add" => bytes[i] \in 1..LIMIT

UnusedIsEmpty ==
  \A i \in Id \ used : row[i] = Absent /\ partial[i] = Absent /\ bytes[i] = Absent

(* An id that was given out and is under way no more: nothing is added to it. *)
Past(i) == i \in used /\ \A r \in Caller : ~Holds(r, i)

PastIsPast ==
  /\ \A i \in doubtful : i \in Id /\ Past(i) /\ bytes[i] = Absent
  /\ \A c \in Client :
       /\ ask[c].pc = "unlink" => Past(ask[c].id) /\ row[ask[c].id] = Absent
       /\ ask[c].pc = "open" => Past(ask[c].id) /\ bytes[ask[c].id] \in {Absent, ask[c].size}

(* Every leftover is of something under way, or was stranded by a crash. *)
LeftoversAreKnown ==
  /\ \A r \in jobs : r \in stranded \/ (r \in Caller /\ uploading[r].pc \in {"run", "receive", "add"})
  /\ \A i \in Id : partial[i] # Absent =>
       i \in stranded \/ \E r \in Caller : uploading[r].pc = "receive" /\ uploading[r].id = i
  /\ \A i \in Id : bytes[i] # Absent /\ row[i] = Absent =>
       \/ i \in stranded
       \/ \E r \in Caller : uploading[r].pc = "add" /\ uploading[r].id = i
       \/ \E c \in Client : ask[c].pc = "unlink" /\ ask[c].id = i

MediaInv ==
  /\ MediaTyped /\ UploadsAreFresh /\ UnusedIsEmpty /\ PastIsPast /\ LeftoversAreKnown
  /\ media!RowsHaveBytes

LEMMA MediaInitInv == ASSUME media!Init PROVE MediaInv
BY DEF media!Init, media!Idle, MediaInv, MediaTyped, UploadsAreFresh, UnusedIsEmpty,
   PastIsPast,
       LeftoversAreKnown, Holds, Size, media!RowsHaveBytes

LEMMA BeginUploadInv ==
  ASSUME media!MediaAssumption, MediaInv, NEW r \in Caller, NEW i \in media!Fresh,
         NEW kind \in media!Kind, NEW declared, media!Begin(r, i, kind, declared),
         uploading[r].pc \in {"idle", "run"},
         UNCHANGED <<row, bytes, jobs, ask, doubtful, stranded>>
  PROVE  MediaInv'
<1> DEFINE step == [pc |-> "receive", id |-> i, kind |-> kind, declared |-> declared]
<1>1. /\ declared \in Declared /\ used' = used \cup {i} /\ i \in Id \ used
      /\ partial' = [partial EXCEPT ![i] = 0] /\ uploading' = [uploading EXCEPT ![r] = step]
  BY DEF media!Begin, media!Fresh, media!accept_declared, media!allowed,
     media!AUDIO_TYPES,
         media!IMAGE_TYPES, Declared
<1>2. step \in Uploading
  BY <1>1 DEF Uploading
<1>3. MediaTyped'
  BY <1>1, <1>2 DEF MediaInv, MediaTyped, Size
<1>4. uploading'[r] = step /\ \A q \in Caller \ {r} : uploading'[q] = uploading[q]
  BY <1>1 DEF MediaInv, MediaTyped
<1>5. \A j \in Id : partial'[j] = IF j = i THEN 0 ELSE partial[j]
  BY <1>1 DEF MediaInv, MediaTyped
<1>6. step.pc = "receive" /\ step.id = i
  OBVIOUS
<1> HIDE DEF step
<1>7. \A q \in Caller, j \in Id : Holds(q, j)' <=> IF q = r THEN j = i ELSE Holds(q, j)
  BY <1>4, <1>6 DEF Holds
<1>8. \A q \in Caller : ~Holds(q, i)
  BY <1>1 DEF MediaInv, UploadsAreFresh
<1>9. ~Holds(r, i) /\ \A j \in Id : ~Holds(r, j)
  BY DEF Holds
<1>10. UploadsAreFresh'
  <2> SUFFICES ASSUME NEW q \in Caller, NEW j \in Id, Holds(q, j)'
               PROVE  /\ j \in used' /\ row[j] = Absent
                      /\ \A p \in Caller : Holds(p, j)' => p = q
                      /\ uploading'[q].pc = "receive" => partial'[j] \in 0..LIMIT /\ bytes[j] = Absent
                      /\ uploading'[q].pc = "add" => bytes[j] \in 1..LIMIT
    BY DEF UploadsAreFresh
  <2>1. CASE q = r
    <3>1. j = i /\ bytes[i] = Absent /\ row[i] = Absent
      BY <1>1, <1>7, <2>1 DEF MediaInv, UnusedIsEmpty
    <3> QED
      BY <1>1, <1>4, <1>5, <1>6, <1>7, <1>8, <2>1, <3>1 DEF media!MediaAssumption
  <2>2. CASE q # r
    <3>1. Holds(q, j) /\ j # i /\ uploading'[q] = uploading[q] /\ partial'[j] = partial[j]
      BY <1>4, <1>5, <1>7, <1>8, <2>2
    <3>2. /\ j \in used /\ row[j] = Absent
          /\ \A p \in Caller : Holds(p, j) => p = q
          /\ uploading[q].pc = "receive" => partial[j] \in 0..LIMIT /\ bytes[j] = Absent
          /\ uploading[q].pc = "add" => bytes[j] \in 1..LIMIT
      BY <3>1 DEF MediaInv, UploadsAreFresh
    <3> QED
      BY <1>1, <1>7, <3>1, <3>2
  <2> QED
    BY <2>1, <2>2
<1>11. UnusedIsEmpty'
  BY <1>1, <1>5 DEF MediaInv, UnusedIsEmpty
<1>12. \A j \in Id : Past(j) => Past(j)'
  BY <1>1, <1>7 DEF Past
<1>13. PastIsPast'
  BY <1>12 DEF MediaInv, PastIsPast, MediaTyped, media!Idle, Removing, Finding, Streaming
<1>14. LeftoversAreKnown'
  BY <1>1, <1>4, <1>5, <1>6 DEF MediaInv, LeftoversAreKnown
<1>15. media!RowsHaveBytes'
  BY DEF MediaInv, media!RowsHaveBytes
<1> QED
  BY <1>3, <1>10, <1>11, <1>13, <1>14, <1>15 DEF MediaInv

(* What the id of an upload is, and where its bytes are. *)
LEMMA UploadUnderWay ==
  ASSUME MediaInv, NEW r \in Caller, uploading[r].pc \in {"receive", "add"}
  PROVE  /\ uploading[r] \in Uploading /\ uploading[r].id \in Id
         /\ uploading[r].id \in used /\ row[uploading[r].id] = Absent
         /\ \A q \in Caller : Holds(q, uploading[r].id) => q = r
         /\ uploading[r].pc = "receive" =>
              partial[uploading[r].id] \in 0..LIMIT /\ bytes[uploading[r].id] = Absent
         /\ uploading[r].pc = "add" => bytes[uploading[r].id] \in 1..LIMIT
<1>1. uploading[r] \in Uploading
  BY DEF MediaInv, MediaTyped, media!Idle, RunningTool, Mixing
<1>2. uploading[r].id \in Id /\ Holds(r, uploading[r].id)
  BY <1>1 DEF Uploading, Holds
<1> QED
  BY <1>1, <1>2 DEF MediaInv, UploadsAreFresh

LEMMA ReceiveInv ==
  ASSUME media!MediaAssumption, MediaInv, NEW r \in Caller, media!Receive(r)
  PROVE  MediaInv'
<1> DEFINE i == uploading[r].id
<1>1. /\ uploading[r].pc = "receive" /\ partial[i] + 1 <= LIMIT
      /\ partial' = [partial EXCEPT ![i] = @ + 1]
      /\ UNCHANGED <<row, bytes, jobs, uploading, ask, used, doubtful, stranded>>
  BY DEF media!Receive, media!fits
<1>2. i \in Id /\ i \in used /\ partial[i] \in 0..LIMIT
  BY <1>1, UploadUnderWay
<1> HIDE DEF i
<1>3. partial'[i] \in 0..LIMIT /\ partial'[i] \in Nat /\ \A j \in Id \ {i} : partial'[j] = partial[j]
  BY <1>1, <1>2 DEF MediaInv, MediaTyped, media!MediaAssumption
<1>4. MediaTyped'
  BY <1>1, <1>2, <1>3 DEF MediaInv, MediaTyped, Size
<1>5. UploadsAreFresh'
  BY <1>1, <1>2, <1>3 DEF MediaInv, UploadsAreFresh, Holds
<1>6. UnusedIsEmpty'
  BY <1>1, <1>2, <1>3 DEF MediaInv, UnusedIsEmpty
<1>7. PastIsPast'
  BY <1>1 DEF MediaInv, PastIsPast, Past, Holds
<1>8. LeftoversAreKnown'
  <2>1. partial[i] # Absent
    BY <1>2 DEF media!MediaAssumption
  <2> QED
    BY <1>1, <1>3, <2>1 DEF MediaInv, LeftoversAreKnown
<1> QED
  BY <1>1, <1>4, <1>5, <1>6, <1>7, <1>8 DEF MediaInv, media!RowsHaveBytes

(* A request that is not, or no longer, an upload. *)
LEMMA OtherUploads ==
  ASSUME MediaInv, NEW r \in Caller, NEW step \in {media!Idle, RunningTool} \cup Mixing,
         uploading' = [uploading EXCEPT ![r] = step]
  PROVE  /\ uploading' \in [Caller -> {media!Idle, RunningTool} \cup Uploading \cup Mixing]
         /\ uploading'[r] = step /\ step.pc \notin {"receive", "add"}
         /\ \A q \in Caller \ {r} : uploading'[q] = uploading[q]
         /\ \A q \in Caller, j \in Id : Holds(q, j)' <=> q # r /\ Holds(q, j)
<1>1. uploading' \in [Caller -> {media!Idle, RunningTool} \cup Uploading \cup Mixing]
      /\ uploading'[r] = step /\ \A q \in Caller \ {r} : uploading'[q] = uploading[q]
  BY DEF MediaInv, MediaTyped
<1>2. step.pc \notin {"receive", "add"}
  BY DEF media!Idle, RunningTool, Mixing
<1> QED
  BY <1>1, <1>2 DEF Holds

LEMMA AbortInv ==
  ASSUME media!MediaAssumption, MediaInv, NEW r \in Caller, media!Abort(r)
  PROVE  MediaInv'
<1> DEFINE i == uploading[r].id
<1>1. /\ uploading[r].pc = "receive" /\ partial' = [partial EXCEPT ![i] = Absent]
      /\ jobs' = jobs \ {r} /\ uploading' = [uploading EXCEPT ![r] = media!Idle]
      /\ UNCHANGED <<row, bytes, ask, used, doubtful, stranded>>
  BY DEF media!Abort
<1>2. i \in Id /\ bytes[i] = Absent /\ \A q \in Caller : Holds(q, i) => q = r
  BY <1>1, UploadUnderWay
<1>9. i = uploading[r].id
  OBVIOUS
<1> HIDE DEF i
<1>3. /\ uploading' \in [Caller -> {media!Idle, RunningTool} \cup Uploading \cup Mixing]
      /\ uploading'[r] = media!Idle
      /\ \A q \in Caller \ {r} : uploading'[q] = uploading[q]
      /\ \A q \in Caller, j \in Id : Holds(q, j)' <=> q # r /\ Holds(q, j)
  BY <1>1, OtherUploads
<1>4. \A j \in Id : partial'[j] = IF j = i THEN Absent ELSE partial[j]
  BY <1>1 DEF MediaInv, MediaTyped
<1>5. MediaTyped'
  BY <1>1, <1>2, <1>3 DEF MediaInv, MediaTyped, Size
<1>6. UploadsAreFresh'
  BY <1>1, <1>2, <1>3, <1>4 DEF MediaInv, UploadsAreFresh
<1>7. UnusedIsEmpty'
  BY <1>1, <1>4 DEF MediaInv, UnusedIsEmpty
<1>8. PastIsPast'
  <2>1. \A j \in Id : Past(j) => Past(j)'
    BY <1>1, <1>3 DEF Past
  <2> QED
    BY <1>1, <2>1
       DEF MediaInv, PastIsPast, MediaTyped, media!Idle, Removing, Finding, Streaming
<1>10. LeftoversAreKnown'
  <2>1. \A j \in Id, q \in Caller : uploading[q].id = j /\ uploading[q].pc = "receive" /\ j # i
          => q # r
    BY <1>9
  <2> QED
    BY <1>1, <1>3, <1>4, <2>1 DEF MediaInv, LeftoversAreKnown
<1> QED
  BY <1>1, <1>5, <1>6, <1>7, <1>8, <1>10 DEF MediaInv, media!RowsHaveBytes

LEMMA MediaFinishInv ==
  ASSUME media!MediaAssumption, MediaInv, NEW r \in Caller, NEW head, media!Finish(r, head)
  PROVE  MediaInv'
<1> DEFINE i == uploading[r].id
<1>1. /\ uploading[r].pc = "receive" /\ partial[i] > 0
      /\ bytes' = [bytes EXCEPT ![i] = partial[i]] /\ partial' = [partial EXCEPT ![i] = Absent]
      /\ uploading' = [uploading EXCEPT ![r].pc = "add"]
      /\ UNCHANGED <<row, jobs, ask, used, doubtful, stranded>>
  BY DEF media!Finish
<1>2. /\ uploading[r] \in Uploading /\ i \in Id /\ i \in used /\ row[i] = Absent
      /\ partial[i] \in 0..LIMIT /\ \A q \in Caller : Holds(q, i) => q = r
  BY <1>1, UploadUnderWay
<1>3. partial[i] \in 1..LIMIT /\ partial[i] \in Nat
  BY <1>1, <1>2 DEF media!MediaAssumption
<1>4. [uploading[r] EXCEPT !.pc = "add"] \in Uploading
  BY <1>2 DEF Uploading
<1>5. /\ uploading' \in [Caller -> {media!Idle, RunningTool} \cup Uploading \cup Mixing]
      /\ uploading'[r].pc = "add" /\ uploading'[r].id = i
      /\ \A q \in Caller \ {r} : uploading'[q] = uploading[q]
  BY <1>1, <1>2, <1>4 DEF MediaInv, MediaTyped, Uploading
<1>6. Holds(r, i) /\ i = uploading[r].id
  BY <1>1 DEF Holds
<1> HIDE DEF i
<1>7. \A q \in Caller, j \in Id : Holds(q, j)' <=> Holds(q, j)
  BY <1>1, <1>5, <1>6 DEF Holds
<1>8. \A j \in Id : /\ partial'[j] = IF j = i THEN Absent ELSE partial[j]
                    /\ bytes'[j] = IF j = i THEN partial[i] ELSE bytes[j]
  BY <1>1 DEF MediaInv, MediaTyped
<1>9. MediaTyped'
  BY <1>1, <1>3, <1>5 DEF MediaInv, MediaTyped, Size
<1>10. UploadsAreFresh'
  <2> SUFFICES ASSUME NEW q \in Caller, NEW j \in Id, Holds(q, j)
               PROVE  /\ j \in used /\ row[j] = Absent
                      /\ \A p \in Caller : Holds(p, j) => p = q
                      /\ uploading'[q].pc = "receive" => partial'[j] \in 0..LIMIT /\ bytes'[j] = Absent
                      /\ uploading'[q].pc = "add" => bytes'[j] \in 1..LIMIT
    BY <1>1, <1>7 DEF UploadsAreFresh
  <2>1. /\ j \in used /\ row[j] = Absent
        /\ \A p \in Caller : Holds(p, j) => p = q
        /\ uploading[q].pc = "receive" => partial[j] \in 0..LIMIT /\ bytes[j] = Absent
        /\ uploading[q].pc = "add" => bytes[j] \in 1..LIMIT
    BY DEF MediaInv, UploadsAreFresh
  <2>2. CASE q = r
    <3>1. j = i
      BY <1>6, <2>2 DEF Holds
    <3> QED
      BY <1>3, <1>5, <1>8, <2>1, <2>2, <3>1
  <2>3. CASE q # r
    <3>1. j # i
      BY <1>2, <2>3
    <3> QED
      BY <1>5, <1>8, <2>1, <2>3, <3>1
  <2> QED
    BY <2>2, <2>3
<1>11. UnusedIsEmpty'
  BY <1>1, <1>2, <1>8 DEF MediaInv, UnusedIsEmpty
<1>12. \A j \in Id : (Past(j) => j # i) /\ (Past(j) => Past(j)')
  BY <1>1, <1>6, <1>7 DEF Past
<1>13. PastIsPast'
  BY <1>1, <1>8, <1>12
     DEF MediaInv, PastIsPast, MediaTyped, media!Idle, Removing, Finding, Streaming
<1>14. LeftoversAreKnown'
  <2>1. \A r2 \in jobs : r2 \in stranded
          \/ (r2 \in Caller /\ uploading'[r2].pc \in {"run", "receive", "add"})
    BY <1>5 DEF MediaInv, LeftoversAreKnown
  <2>2. \A j \in Id : partial'[j] # Absent =>
          j \in stranded \/ \E q \in Caller : uploading'[q].pc = "receive" /\ uploading'[q].id = j
    <3> SUFFICES ASSUME NEW j \in Id, partial'[j] # Absent, j \notin stranded
                 PROVE  \E q \in Caller : uploading'[q].pc = "receive" /\ uploading'[q].id = j
      OBVIOUS
    <3>1. j # i /\ partial[j] # Absent
      BY <1>8
    <3>2. PICK q \in Caller : uploading[q].pc = "receive" /\ uploading[q].id = j
      BY <3>1 DEF MediaInv, LeftoversAreKnown
    <3>3. q # r
      BY <1>6, <3>1, <3>2
    <3> QED
      BY <1>5, <3>2, <3>3
  <2>3. \A j \in Id : bytes'[j] # Absent /\ row[j] = Absent =>
          \/ j \in stranded
          \/ \E q \in Caller : uploading'[q].pc = "add" /\ uploading'[q].id = j
          \/ \E c \in Client : ask[c].pc = "unlink" /\ ask[c].id = j
    <3> SUFFICES ASSUME NEW j \in Id, bytes'[j] # Absent, row[j] = Absent
                 PROVE  \/ j \in stranded
                        \/ \E q \in Caller : uploading'[q].pc = "add" /\ uploading'[q].id = j
                        \/ \E c \in Client : ask[c].pc = "unlink" /\ ask[c].id = j
      OBVIOUS
    <3>1. CASE j = i
      BY <1>5, <3>1
    <3>2. CASE j # i
      BY <1>1, <1>5, <1>8, <3>2 DEF MediaInv, LeftoversAreKnown
    <3> QED
      BY <3>1, <3>2
  <2> QED
    BY <1>1, <2>1, <2>2, <2>3 DEF LeftoversAreKnown
<1>15. media!RowsHaveBytes'
  BY <1>1, <1>2, <1>8 DEF MediaInv, media!RowsHaveBytes
<1> QED
  BY <1>9, <1>10, <1>11, <1>13, <1>14, <1>15 DEF MediaInv

LEMMA AddRowInv ==
  ASSUME media!MediaAssumption, MediaInv, NEW r \in Caller, media!AddRow(r)
  PROVE  MediaInv'
<1> SUFFICES ASSUME NEW i \in Id, i = uploading[r].id, uploading[r].pc = "add"
             PROVE  MediaInv'
  BY UploadUnderWay DEF media!AddRow
<1> DEFINE new == [kind |-> uploading[r].kind, size |-> bytes[i]]
           added == [row EXCEPT ![i] = new]
<1>1. /\ uploading[r].pc = "add"
      /\ jobs' = jobs \ {r} /\ uploading' = [uploading EXCEPT ![r] = media!Idle]
      /\ \/ row' = added /\ bytes' = bytes /\ doubtful' = doubtful
         \/ row' = row /\ bytes' = [bytes EXCEPT ![i] = Absent] /\ doubtful' = doubtful
         \/ row' = added /\ bytes' = [bytes EXCEPT ![i] = Absent] /\ doubtful' = doubtful \cup {i}
      /\ UNCHANGED <<partial, ask, used, stranded>>
  BY DEF media!AddRow
<1>2. /\ uploading[r] \in Uploading /\ i \in Id /\ i \in used /\ row[i] = Absent
      /\ bytes[i] \in 1..LIMIT /\ \A q \in Caller : Holds(q, i) => q = r
  BY <1>1, UploadUnderWay
<1>3. new \in [kind : media!Kind, size : Nat] /\ new.size = bytes[i] /\ new # Absent
  BY <1>2 DEF Uploading, media!MediaAssumption
<1>4. Holds(r, i)
  BY <1>1 DEF Holds
<1> HIDE DEF new
<1>5. /\ uploading' \in [Caller -> {media!Idle, RunningTool} \cup Uploading \cup Mixing]
      /\ uploading'[r] = media!Idle
      /\ \A q \in Caller \ {r} : uploading'[q] = uploading[q]
      /\ \A q \in Caller, j \in Id : Holds(q, j)' <=> q # r /\ Holds(q, j)
  BY <1>1, OtherUploads
<1>6. /\ \A j \in Id \ {i} : row'[j] = row[j] /\ bytes'[j] = bytes[j]
      /\ \/ row'[i] = new /\ bytes'[i] = bytes[i] /\ doubtful' = doubtful
         \/ row'[i] = Absent /\ bytes'[i] = Absent /\ doubtful' = doubtful
         \/ row'[i] = new /\ bytes'[i] = Absent /\ doubtful' = doubtful \cup {i}
  BY <1>1, <1>2 DEF MediaInv, MediaTyped
<1>7. MediaTyped'
  BY <1>1, <1>3, <1>5 DEF MediaInv, MediaTyped, Size
<1>8. UploadsAreFresh'
  <2>1. \A q \in Caller, j \in Id : Holds(q, j)' => j # i /\ Holds(q, j) /\ uploading'[q] = uploading[q]
    BY <1>2, <1>5
  <2> QED
    BY <1>1, <1>5, <1>6, <2>1 DEF MediaInv, UploadsAreFresh
<1>9. UnusedIsEmpty'
  BY <1>1, <1>2, <1>6 DEF MediaInv, UnusedIsEmpty
<1>10. Past(i)' /\ \A j \in Id : (Past(j) => j # i) /\ (Past(j) => Past(j)')
  BY <1>1, <1>2, <1>4, <1>5 DEF Past
<1>11. PastIsPast'
  <2>1. \A j \in doubtful' : j \in Id /\ Past(j)' /\ bytes'[j] = Absent
    BY <1>2, <1>6, <1>10 DEF MediaInv, PastIsPast
  <2>2. \A c \in Client, j \in Id : ask[c].id = j =>
          /\ ask[c].pc = "unlink" => Past(j)' /\ row'[j] = Absent
          /\ ask[c].pc = "open" => Past(j)' /\ bytes'[j] \in {Absent, ask[c].size}
    BY <1>6, <1>10 DEF MediaInv, PastIsPast
  <2>3. \A c \in Client : ask[c].pc \in {"unlink", "open"} => ask[c].id \in Id
    BY DEF MediaInv, MediaTyped, media!Idle, Removing, Finding, Streaming
  <2> QED
    BY <1>1, <2>1, <2>2, <2>3 DEF PastIsPast
<1>12. LeftoversAreKnown'
  <2>1. \A j \in Id : partial'[j] # Absent =>
          j \in stranded \/ \E q \in Caller : uploading'[q].pc = "receive" /\ uploading'[q].id = j
    BY <1>1, <1>5 DEF MediaInv, LeftoversAreKnown
  <2>2. \A j \in Id : bytes'[j] # Absent /\ row'[j] = Absent =>
          \/ j \in stranded
          \/ \E q \in Caller : uploading'[q].pc = "add" /\ uploading'[q].id = j
          \/ \E c \in Client : ask[c].pc = "unlink" /\ ask[c].id = j
    <3> SUFFICES ASSUME NEW j \in Id, bytes'[j] # Absent, row'[j] = Absent
                 PROVE  \/ j \in stranded
                        \/ \E q \in Caller : uploading'[q].pc = "add" /\ uploading'[q].id = j
                        \/ \E c \in Client : ask[c].pc = "unlink" /\ ask[c].id = j
      OBVIOUS
    <3>1. j # i /\ row[j] = Absent /\ bytes[j] # Absent
      BY <1>3, <1>6
    <3> QED
      BY <1>4, <1>5, <3>1 DEF MediaInv, LeftoversAreKnown
  <2> QED
    BY <1>1, <1>5, <2>1, <2>2 DEF MediaInv, LeftoversAreKnown
<1>13. media!RowsHaveBytes'
  BY <1>1, <1>2, <1>3, <1>6 DEF MediaInv, media!RowsHaveBytes
<1> QED
  BY <1>7, <1>8, <1>9, <1>11, <1>12, <1>13 DEF MediaInv

(* The steps of a mix before it has anything to upload. *)
LEMMA MixingInv ==
  ASSUME MediaInv, NEW r \in Caller, uploading[r].pc \in {"idle", "resolve", "run"},
         NEW step \in {media!Idle, RunningTool} \cup Mixing,
         uploading' = [uploading EXCEPT ![r] = step],
         jobs' \subseteq jobs \cup {r}, r \in jobs' => step = RunningTool \/ r \in stranded,
         UNCHANGED <<row, partial, bytes, ask, used, doubtful, stranded>>
  PROVE  MediaInv'
<1>1. /\ uploading' \in [Caller -> {media!Idle, RunningTool} \cup Uploading \cup Mixing]
      /\ uploading'[r] = step
      /\ \A q \in Caller \ {r} : uploading'[q] = uploading[q]
      /\ \A q \in Caller, j \in Id : Holds(q, j)' <=> q # r /\ Holds(q, j)
  BY OtherUploads
<1>2. \A q \in Caller, j \in Id : Holds(q, j)' <=> Holds(q, j)
  BY <1>1 DEF Holds
<1>3. \A q \in Caller : uploading[q].pc \in {"receive", "add"} => uploading'[q] = uploading[q]
  BY <1>1
<1>4. MediaTyped'
  BY <1>1 DEF MediaInv, MediaTyped
<1>5. UploadsAreFresh'
  BY <1>2, <1>3 DEF MediaInv, UploadsAreFresh, Holds
<1>6. \A j \in Id : Past(j) <=> Past(j)'
  BY <1>2 DEF Past
<1>7. PastIsPast'
  BY <1>6 DEF MediaInv, PastIsPast, MediaTyped, media!Idle, Removing, Finding, Streaming
<1>8. LeftoversAreKnown'
  <2>1. \A q \in jobs' : q \in stranded
          \/ (q \in Caller /\ uploading'[q].pc \in {"run", "receive", "add"})
    BY <1>1 DEF MediaInv, LeftoversAreKnown, RunningTool
  <2> QED
    BY <1>3, <2>1 DEF MediaInv, LeftoversAreKnown
<1> QED
  BY <1>4, <1>5, <1>7, <1>8 DEF MediaInv, UnusedIsEmpty, media!RowsHaveBytes

LEMMA FunctionIsSeq == ASSUME NEW n \in Nat, NEW f \in [1..n -> Id] PROVE f \in Seq(Id)
OBVIOUS

LEMMA MixInv ==
  ASSUME MediaInv, NEW r \in Caller,
         \/ \E tracks \in media!Tracks, faults \in {{}, {"not_a_gain"}} : media!Mix(r, tracks, faults)
         \/ media!Resolve(r) \/ media!Run(r) \/ media!StopRun(r)
  PROVE  MediaInv'
<1>1. ASSUME NEW tracks \in media!Tracks, NEW faults, media!Mix(r, tracks, faults)
      PROVE  MediaInv'
  <2>1. tracks \in Seq(Id)
    BY <1>1, FunctionIsSeq DEF media!Tracks
  <2>2. [pc |-> "resolve", todo |-> tracks] \in Mixing
    BY <2>1 DEF Mixing
  <2>3. r \in jobs => r \in stranded
    BY <1>1 DEF media!Mix, MediaInv, LeftoversAreKnown
  <2> QED
    BY <1>1, <2>2, <2>3, MixingInv DEF media!Mix
<1>2. CASE media!Resolve(r)
  <2>1. uploading[r] \in Mixing
    BY <1>2 DEF media!Resolve, MediaInv, MediaTyped, media!Idle, RunningTool, Uploading
  <2> DEFINE rest == [uploading[r] EXCEPT !.todo = Tail(uploading[r].todo)]
  <2>2. rest \in Mixing
    BY <1>2, <2>1 DEF Mixing, media!Resolve
  <2>3. r \in jobs => r \in stranded
    BY <1>2 DEF media!Resolve, MediaInv, LeftoversAreKnown
  <2>4. PICK step \in {media!Idle, rest} : uploading' = [uploading EXCEPT ![r] = step]
    BY <1>2 DEF media!Resolve
  <2> HIDE DEF rest
  <2> QED
    BY <1>2, <2>2, <2>3, <2>4, MixingInv DEF media!Resolve
<1>3. CASE media!Run(r)
  BY <1>3, MixingInv DEF media!Run, RunningTool
<1>4. CASE media!StopRun(r)
  BY <1>4, MixingInv DEF media!StopRun
<1> QED
  BY <1>1, <1>2, <1>3, <1>4

(* What is served: a row is found, its bytes are opened and read to the end.*)
LEMMA ServeInv ==
  ASSUME media!MediaAssumption, MediaInv, NEW c \in Client,
         (\E kind \in media!Kind, i \in Id : media!Find(c, kind, i)) \/ media!Open(c) \/ media!Served(c)
  PROVE  MediaInv'
<1>1. ask[c].pc # "unlink" /\ UNCHANGED <<row, partial, bytes, jobs, uploading, used, doubtful, stranded>>
  BY DEF media!Find, media!Open, media!Served
<1>2. ASSUME NEW step \in {media!Idle} \cup Finding \cup Streaming,
             ask' = [ask EXCEPT ![c] = step],
             step.pc = "open" => Past(step.id) /\ bytes[step.id] \in {Absent, step.size},
             step.pc = "stream" => step.holds = step.size
      PROVE  MediaInv'
  <2>1. MediaTyped'
    BY <1>1, <1>2 DEF MediaInv, MediaTyped
  <2>2. ask'[c] = step /\ step.pc # "unlink" /\ \A d \in Client \ {c} : ask'[d] = ask[d]
    BY <1>2 DEF MediaInv, MediaTyped, media!Idle, Finding, Streaming
  <2>3. \A i : Past(i)' <=> Past(i)
    BY <1>1 DEF Past, Holds
  <2>4. PastIsPast'
    <3>1. \A i \in doubtful : i \in Id /\ Past(i)' /\ bytes[i] = Absent
      BY <2>3 DEF MediaInv, PastIsPast
    <3>2. \A d \in Client : \A i : ask'[d].id = i =>
            /\ ask'[d].pc = "unlink" => Past(i)' /\ row[i] = Absent
            /\ ask'[d].pc = "open" => Past(i)' /\ bytes[i] \in {Absent, ask'[d].size}
      BY <1>2, <2>2, <2>3 DEF MediaInv, PastIsPast
    <3> QED
      BY <1>1, <3>1, <3>2 DEF PastIsPast
  <2>5. LeftoversAreKnown'
    BY <1>1, <2>2 DEF MediaInv, LeftoversAreKnown
  <2>6. media!RowsHaveBytes'
    BY <1>1, <1>2, <2>2 DEF MediaInv, media!RowsHaveBytes
  <2> QED
    BY <1>1, <2>1, <2>4, <2>5, <2>6 DEF MediaInv, UploadsAreFresh, UnusedIsEmpty, Holds
<1>3. ASSUME NEW kind \in media!Kind, NEW i \in Id, media!Find(c, kind, i) PROVE MediaInv'
  <2> DEFINE step == [pc |-> "open", id |-> i, size |-> row[i].size]
  <2>1. row[i] # Absent /\ row[i] \in [kind : media!Kind, size : Nat]
        /\ ask' = [ask EXCEPT ![c] = step]
    BY <1>3 DEF media!Find, MediaInv, MediaTyped
  <2>2. step \in Finding
    BY <2>1 DEF Finding
  <2>3. Past(i) /\ bytes[i] \in {Absent, row[i].size}
    BY <2>1
       DEF MediaInv, UploadsAreFresh, UnusedIsEmpty, PastIsPast, media!RowsHaveBytes, Past
  <2>4. step.pc = "open" /\ step.id = i /\ step.size = row[i].size
    OBVIOUS
  <2> HIDE DEF step
  <2> QED
    BY <1>2, <2>1, <2>2, <2>3, <2>4
<1>4. CASE media!Open(c)
  <2> DEFINE step == [pc |-> "stream", size |-> ask[c].size, holds |-> bytes[ask[c].id]]
  <2>1. ask[c] \in Finding /\ Past(ask[c].id) /\ bytes[ask[c].id] \in {Absent, ask[c].size}
    BY <1>4
       DEF media!Open, MediaInv, MediaTyped, PastIsPast, media!Idle, Removing, Streaming
  <2>2. CASE bytes[ask[c].id] = Absent
    <3>1. ask' = [ask EXCEPT ![c] = media!Idle]
      BY <1>4, <2>2 DEF media!Open
    <3> QED
      BY <1>2, <3>1 DEF media!Idle
  <2>3. CASE bytes[ask[c].id] # Absent
    <3>1. ask' = [ask EXCEPT ![c] = step]
      BY <1>4, <2>3 DEF media!Open
    <3>2. step \in Streaming /\ step.pc = "stream" /\ step.holds = step.size
      BY <2>1, <2>3 DEF Finding, Streaming
    <3> HIDE DEF step
    <3> QED
      BY <1>2, <3>1, <3>2
  <2> QED
    BY <2>2, <2>3
<1>5. CASE media!Served(c)
  BY <1>2, <1>5 DEF media!Served, media!Idle
<1> QED
  BY <1>3, <1>4, <1>5

LEMMA RemoveInv ==
  ASSUME media!MediaAssumption, MediaInv, NEW c \in Client, NEW kind \in media!Kind,
         NEW i \in Id,
         media!Remove(c, kind, i)
  PROVE  MediaInv'
<1> DEFINE step == [pc |-> "unlink", id |-> i]
<1>1. /\ ask[c].pc = "idle" /\ row[i] # Absent
      /\ row' = [row EXCEPT ![i] = Absent] /\ ask' = [ask EXCEPT ![c] = step]
      /\ UNCHANGED <<partial, bytes, jobs, uploading, used, doubtful, stranded>>
  BY DEF media!Remove
<1>2. step \in Removing /\ step.pc = "unlink" /\ step.id = i
  BY DEF Removing
<1> HIDE DEF step
<1>3. MediaTyped'
  BY <1>1, <1>2 DEF MediaInv, MediaTyped
<1>4. /\ ask'[c] = step /\ \A d \in Client \ {c} : ask'[d] = ask[d]
      /\ row'[i] = Absent /\ \A j \in Id \ {i} : row'[j] = row[j]
  BY <1>1, <1>2 DEF MediaInv, MediaTyped
<1>5. Past(i)
  BY <1>1 DEF MediaInv, UploadsAreFresh, UnusedIsEmpty, Past
<1>6. \A j : Past(j)' <=> Past(j)
  BY <1>1 DEF Past, Holds
<1>7. UploadsAreFresh' /\ UnusedIsEmpty'
  BY <1>1, <1>4 DEF MediaInv, UploadsAreFresh, UnusedIsEmpty, Holds
<1>8. PastIsPast'
  <2>1. \A j \in doubtful : j \in Id /\ Past(j)' /\ bytes[j] = Absent
    BY <1>6 DEF MediaInv, PastIsPast
  <2>2. \A d \in Client, j \in Id : ask'[d].id = j =>
          /\ ask'[d].pc = "unlink" => Past(j)' /\ row'[j] = Absent
          /\ ask'[d].pc = "open" => Past(j)' /\ bytes[j] \in {Absent, ask'[d].size}
    BY <1>2, <1>4, <1>5, <1>6 DEF MediaInv, PastIsPast
  <2>3. \A d \in Client : ask'[d].pc \in {"unlink", "open"} => ask'[d].id \in Id
    BY <1>3 DEF MediaTyped, media!Idle, Removing, Finding, Streaming
  <2> QED
    BY <1>1, <2>1, <2>2, <2>3 DEF PastIsPast
<1>9. LeftoversAreKnown'
  BY <1>1, <1>2, <1>4 DEF MediaInv, LeftoversAreKnown
<1>10. media!RowsHaveBytes'
  BY <1>1, <1>2, <1>4 DEF MediaInv, media!RowsHaveBytes
<1> QED
  BY <1>3, <1>7, <1>8, <1>9, <1>10 DEF MediaInv

LEMMA UnlinkInv ==
  ASSUME media!MediaAssumption, MediaInv, NEW c \in Client, media!Unlink(c)
  PROVE  MediaInv'
<1> SUFFICES ASSUME NEW i \in Id, i = ask[c].id PROVE MediaInv'
  BY DEF media!Unlink, MediaInv, MediaTyped, media!Idle, Removing, Finding, Streaming
<1>1. /\ ask[c].pc = "unlink"
      /\ bytes' = [bytes EXCEPT ![i] = Absent] /\ ask' = [ask EXCEPT ![c] = media!Idle]
      /\ UNCHANGED <<row, partial, jobs, uploading, used, doubtful, stranded>>
  BY DEF media!Unlink
<1>2. Past(i) /\ row[i] = Absent
  BY <1>1 DEF MediaInv, PastIsPast
<1>3. MediaTyped'
  BY <1>1 DEF MediaInv, MediaTyped, Size
<1>4. /\ ask'[c].pc = "idle" /\ \A d \in Client \ {c} : ask'[d] = ask[d]
      /\ bytes'[i] = Absent /\ \A j \in Id \ {i} : bytes'[j] = bytes[j]
  BY <1>1 DEF MediaInv, MediaTyped, media!Idle
<1>5. \A j : Past(j)' <=> Past(j)
  BY <1>1 DEF Past, Holds
<1>6. UploadsAreFresh' /\ UnusedIsEmpty'
  BY <1>1, <1>2, <1>4 DEF MediaInv, UploadsAreFresh, UnusedIsEmpty, Holds, Past
<1>7. PastIsPast'
  <2>1. \A j \in doubtful : j \in Id /\ Past(j)' /\ bytes'[j] = Absent
    BY <1>4, <1>5 DEF MediaInv, PastIsPast
  <2>2. \A d \in Client, j \in Id : ask'[d].id = j =>
          /\ ask'[d].pc = "unlink" => Past(j)' /\ row[j] = Absent
          /\ ask'[d].pc = "open" => Past(j)' /\ bytes'[j] \in {Absent, ask'[d].size}
    BY <1>4, <1>5 DEF MediaInv, PastIsPast
  <2>3. \A d \in Client : ask'[d].pc \in {"unlink", "open"} => ask'[d].id \in Id
    BY <1>3 DEF MediaTyped, media!Idle, Removing, Finding, Streaming
  <2> QED
    BY <1>1, <2>1, <2>2, <2>3 DEF PastIsPast
<1>8. LeftoversAreKnown'
  <2>1. \A j \in Id : bytes'[j] # Absent /\ row[j] = Absent =>
          \/ j \in stranded
          \/ \E q \in Caller : uploading[q].pc = "add" /\ uploading[q].id = j
          \/ \E d \in Client : ask'[d].pc = "unlink" /\ ask'[d].id = j
    <3> SUFFICES ASSUME NEW j \in Id, bytes'[j] # Absent, row[j] = Absent, j \notin stranded,
                        \A q \in Caller : ~(uploading[q].pc = "add" /\ uploading[q].id = j)
                 PROVE  \E d \in Client : ask'[d].pc = "unlink" /\ ask'[d].id = j
      OBVIOUS
    <3>1. j # i /\ bytes[j] # Absent
      BY <1>4
    <3>2. PICK d \in Client : ask[d].pc = "unlink" /\ ask[d].id = j
      BY <3>1 DEF MediaInv, LeftoversAreKnown
    <3> QED
      BY <1>4, <3>1, <3>2
  <2> QED
    BY <1>1, <2>1 DEF MediaInv, LeftoversAreKnown
<1>9. media!RowsHaveBytes'
  BY <1>1, <1>2, <1>4 DEF MediaInv, media!RowsHaveBytes
<1> QED
  BY <1>3, <1>6, <1>7, <1>8, <1>9 DEF MediaInv

LEMMA CrashInv == ASSUME MediaInv, media!Crash PROVE MediaInv'
<1>1. /\ uploading' = [r \in Caller |-> media!Idle] /\ ask' = [c \in Client |-> media!Idle]
      /\ UNCHANGED <<row, partial, bytes, jobs, used, doubtful>>
      /\ jobs \subseteq stranded' /\ stranded \subseteq stranded'
  BY DEF media!Crash
<1>2. \A r \in Caller : uploading[r].pc \in {"receive", "add"} => uploading[r].id \in stranded'
  <2> SUFFICES ASSUME NEW r \in Caller, uploading[r].pc \in {"receive", "add"}
               PROVE  uploading[r].id \in stranded'
    OBVIOUS
  <2>1. uploading[r] \in Uploading
    BY UploadUnderWay
  <2>2. "id" \in DOMAIN uploading[r]
    BY <2>1 DEF Uploading
  <2> QED
    BY <2>2 DEF media!Crash
<1>3. \A c \in Client : ask[c].pc = "unlink" => ask[c].id \in stranded'
  BY DEF media!Crash
<1>4. /\ \A r \in Caller : uploading'[r] = media!Idle /\ uploading'[r].pc = "idle"
      /\ \A c \in Client : ask'[c].pc = "idle"
  BY <1>1 DEF media!Idle
<1>5. MediaTyped'
  BY <1>1 DEF MediaInv, MediaTyped
<1>6. \A r \in Caller : \A i : ~Holds(r, i)'
  BY <1>4 DEF Holds
<1>7. \A i : Past(i) => Past(i)'
  BY <1>1, <1>6 DEF Past
<1>8. PastIsPast'
  BY <1>1, <1>4, <1>7 DEF MediaInv, PastIsPast
<1>9. LeftoversAreKnown'
  BY <1>1, <1>2, <1>3 DEF MediaInv, LeftoversAreKnown
<1>10. media!RowsHaveBytes'
  BY <1>1, <1>4 DEF MediaInv, media!RowsHaveBytes
<1> QED
  BY <1>1, <1>5, <1>6, <1>8, <1>9, <1>10 DEF MediaInv, UploadsAreFresh, UnusedIsEmpty

LEMMA MediaNextInv ==
  ASSUME media!MediaAssumption, MediaInv, [media!Next]_(media!vars)
  PROVE  MediaInv'
<1>1. ASSUME NEW r \in Caller, NEW i \in media!Fresh, NEW kind \in media!Kind, NEW declared,
             NEW faults, media!Upload(r, i, kind, declared, faults)
      PROVE  MediaInv'
  BY <1>1, BeginUploadInv DEF media!Upload
<1>2. ASSUME NEW r \in Caller, NEW i \in media!Fresh, media!Mixed(r, i) PROVE MediaInv'
  BY <1>2, BeginUploadInv DEF media!Mixed, media!Kind
<1>3. ASSUME NEW r \in Caller, media!Receive(r) \/ media!Abort(r) \/ media!AddRow(r)
      PROVE  MediaInv'
  BY <1>3, ReceiveInv, AbortInv, AddRowInv
<1>4. ASSUME NEW r \in Caller, NEW head, media!Finish(r, head) PROVE MediaInv'
  BY <1>4, MediaFinishInv
<1>5. ASSUME NEW r \in Caller,
             \/ \E tracks \in media!Tracks, faults \in {{}, {"not_a_gain"}} : media!Mix(r, tracks, faults)
             \/ media!Resolve(r) \/ media!Run(r) \/ media!StopRun(r)
      PROVE  MediaInv'
  BY <1>5, MixInv
<1>6. ASSUME NEW c \in Client, NEW kind \in media!Kind, NEW i \in Id, media!Remove(c,
             kind, i)
      PROVE  MediaInv'
  BY <1>6, RemoveInv
<1>7. ASSUME NEW c \in Client,
             (\E kind \in media!Kind, i \in Id : media!Find(c, kind, i))
               \/ media!Open(c) \/ media!Served(c)
      PROVE  MediaInv'
  BY <1>7, ServeInv
<1>8. ASSUME NEW c \in Client, media!Unlink(c) PROVE MediaInv'
  BY <1>8, UnlinkInv
<1>9. CASE media!Crash
  BY <1>9, CrashInv
<1>10. CASE UNCHANGED media!vars
  BY <1>10
     DEF media!vars, MediaInv, MediaTyped, UploadsAreFresh, UnusedIsEmpty, PastIsPast,
     Past,
               LeftoversAreKnown, Holds, media!RowsHaveBytes
<1> QED
  BY <1>1, <1>2, <1>3, <1>4, <1>5, <1>6, <1>7, <1>8, <1>9, <1>10 DEF media!Next

LEMMA MediaStepOrNone ==
  ASSUME [PlatformNext]_platformVars PROVE [media!Next]_(media!vars)
BY DEF PlatformNext, platformVars, SessionsStep, PlayersStep, PluginsStep, MigrationsStep,
       MediaStep, mediaVars, media!vars

LEMMA MediaInvariant == ASSUME PlatformAssumption PROVE PlatformSpec => []MediaInv
<1>1. PlatformInit => MediaInv
  BY MediaInitInv DEF PlatformInit
<1>2. MediaInv /\ [PlatformNext]_platformVars => MediaInv'
  BY MediaNextInv, MediaStepOrNone DEF PlatformAssumption
<1> QED
  BY <1>1, <1>2, PTL DEF PlatformSpec

(***************************************************************************)
(* A row serves its bytes, all of them, and a download is what its row     *)
(* says: uploads, mixes, deletes and crashes of any number of requests may *)
(* fall between the steps of media's storing and serving.                  *)
(***************************************************************************)
THEOREM RowsKeepTheirBytes ==
  ASSUME PlatformAssumption
  PROVE  PlatformSpec => []RowsHaveBytes
<1>1. MediaInv => RowsHaveBytes
  BY DEF MediaInv, RowsHaveBytes
<1> QED
  BY <1>1, MediaInvariant, PTL

(***************************************************************************)
(* When nothing is under way, every file is the bytes of a row, but for    *)
(* what a crash of the process left.                                       *)
(***************************************************************************)
THEOREM NothingStaysBehind ==
  ASSUME PlatformAssumption
  PROVE  PlatformSpec => []NothingLeftBehind
<1>1. MediaInv => NothingLeftBehind
  BY DEF MediaInv, LeftoversAreKnown, NothingLeftBehind, media!NothingLeftBehind
<1> QED
  BY <1>1, MediaInvariant, PTL
====
