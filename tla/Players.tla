-------------------------------- MODULE Players --------------------------------
(***************************************************************************)
(* Players, API keys and the credentials that reach them (platform/        *)
(* identity: players, api_keys, player_http, and the readers of tokens).   *)
(*                                                                         *)
(* A game presents an API key and its own identifier for a player, and is  *)
(* handed a player token.  Authenticating the key is a select; the player  *)
(* is one upsert later, at a time the request took in between.  An editor  *)
(* walks over the players, most recently seen first, while games go on.    *)
(*                                                                         *)
(* A token is what its signed claims say: nothing is looked up to read it, *)
(* and it is good until it expires.                                        *)
(***************************************************************************)
EXTENDS Integers, FiniteSets

CONSTANTS
  Request,       \* player sessions being started
  ExternalId,    \* the games' identifiers, trimmed and storable
  PlayerId,      \* a set of integers: ids are compared to break ties
  ApiKey,
  Account, RoleOf,          \* accounts, and the role of each
  PLAYERS_PER_PAGE, MOST_PLAYERS_PER_PAGE,
  MaxTime,       \* bounds the clock
  Absent, None

PlayersAssumption ==
  /\ PlayerId \subseteq Int /\ MaxTime \in Nat /\ Absent # None
  /\ RoleOf \in [Account -> {"VIEWER", "EDITOR", "ADMIN"}]
  /\ Account \cap PlayerId = {} /\ Absent \notin Int
  /\ Absent \notin [id : PlayerId, seen : Int, name : PlayerId \cup {None}]
  /\ None \notin [seen : Int, id : PlayerId]
  /\ PLAYERS_PER_PAGE \in 1..MOST_PLAYERS_PER_PAGE /\ MOST_PLAYERS_PER_PAGE \in Nat

VARIABLES
  player,    \* the row of each identifier: its id, last_seen_at and whose name
             \* for it is shown; or Absent
  revokedAt, \* api_key: None while a key works, the time it was revoked, or Absent
  mintedBy,  \* auxiliary: the token each key was minted with
  tokens,    \* the tokens that were issued and have not expired
  bought,    \* auxiliary: the player every session was given, by identifier
  clock,
  at,        \* how far each session start is
  walk,      \* an editor's walk over the pages
  still      \* auxiliary: identifiers whose last_seen_at has not changed since

vars == <<player, revokedAt, mintedBy, tokens, bought, clock, at, walk, still>>

Idle == [pc |-> "idle"]
NoWalk == [pc |-> "off", after |-> None, seen |-> [e \in ExternalId |-> 0]]

Init ==
  /\ player = [e \in ExternalId |-> Absent]
  /\ revokedAt = [k \in ApiKey |-> Absent]
  /\ mintedBy = [k \in ApiKey |-> None]
  /\ tokens = {}
  /\ bought = {}
  /\ clock = 1
  /\ at = [r \in Request |-> Idle]
  /\ walk = NoWalk
  /\ still = {}
-----------------------------------------------------------------------------
(* tokens.issue gives an account's tokens a kind and a role, issue_player    *)
(* gives a player's no role.                                                *)
issue(kind, a) == [typ |-> kind, sub |-> a, rol |-> RoleOf[a]]
issue_player(p) == [typ |-> "player", sub |-> p, rol |-> None]

(* Mutant: a token signed by this service is a token. *)
read_AnyKind(token, expect) == token \in tokens

(* A token is refused unless it is of the kind that was asked for. *)
read(token, expect) == token \in tokens /\ token.typ = expect

current_player(token) == read(token, "player")
requires(token, allowed) == read(token, "access") /\ token.rol \in allowed

(* _api_key: a key that is missing, unknown or revoked is one answer. *)
authenticate(k) == revokedAt[k] = None

page_size(limit) ==
  IF limit = None THEN PLAYERS_PER_PAGE
  ELSE IF limit < 1 THEN 1
  ELSE IF limit > MOST_PLAYERS_PER_PAGE THEN MOST_PLAYERS_PER_PAGE ELSE limit

Registered == {e \in ExternalId : player[e] # Absent}
Seen(e) == IF player[e] = Absent THEN Absent ELSE player[e].seen
-----------------------------------------------------------------------------
Tick == clock < MaxTime /\ clock' = clock + 1
        /\ UNCHANGED <<player, revokedAt, mintedBy, tokens, bought, at, walk, still>>

(* Somebody signs in: both tokens of the pair. *)
SignIn(a) ==
  /\ tokens' = tokens \cup {issue("access", a), issue("refresh", a)}
  /\ UNCHANGED <<player, revokedAt, mintedBy, bought, clock, at, walk, still>>

Expire(token) ==
  /\ token \in tokens
  /\ tokens' = tokens \ {token}
  /\ UNCHANGED <<player, revokedAt, mintedBy, bought, clock, at, walk, still>>

(* api_keys.issue, for an administrator. *)
CreateKey(token, k) ==
  /\ requires(token, {"ADMIN"}) /\ revokedAt[k] = Absent
  /\ revokedAt' = [revokedAt EXCEPT ![k] = None]
  /\ mintedBy' = [mintedBy EXCEPT ![k] = token]
  /\ UNCHANGED <<player, tokens, bought, clock, at, walk, still>>

(* The first stamp stays. *)
RevokeKey(token, k) ==
  /\ requires(token, {"ADMIN"}) /\ revokedAt[k] # Absent
  /\ revokedAt' = [revokedAt EXCEPT ![k] = IF @ = None THEN clock ELSE @]
  /\ UNCHANGED <<player, mintedBy, tokens, bought, clock, at, walk, still>>
-----------------------------------------------------------------------------
(* start_player_session: the key is authenticated by a statement of its own. *)
StartSession(r, k, e) ==
  /\ at[r].pc = "idle" /\ authenticate(k)
  /\ at' = [at EXCEPT ![r] = [pc |-> "start", external |-> e]]
  /\ UNCHANGED <<player, revokedAt, mintedBy, tokens, bought, clock, walk, still>>

(* start takes the time, and the id the player would have. *)
TakeTime(r) ==
  /\ at[r].pc = "start"
  /\ \E id \in PlayerId :
       /\ \A e \in Registered : player[e].id # id
       /\ \A q \in Request : at[q].pc = "upsert" => at[q].id # id
       /\ at' = [at EXCEPT ![r] = [pc |-> "upsert", external |-> @.external, id |-> id,
                                   now |-> clock]]
  /\ UNCHANGED <<player, revokedAt, mintedBy, tokens, bought, clock, walk, still>>

(* Mutant: a row that is there is not looked at, as by find and then insert. *)
Upsert_Insert(r) ==
  /\ at[r].pc = "upsert"
  /\ player' = [player EXCEPT ![at[r].external] =
                  [id |-> at[r].id, seen |-> at[r].now, name |-> None]]
  /\ bought' = bought \cup {[external |-> at[r].external, player |-> at[r].id]}
  /\ tokens' = tokens \cup {issue_player(at[r].id)}
  /\ at' = [at EXCEPT ![r] = Idle]
  /\ still' = still \ {at[r].external}
  /\ UNCHANGED <<revokedAt, mintedBy, clock, walk>>

(* One statement and its commit: the player of this identifier, created on  *)
(* first sight, seen now unless somebody with a later time was here first.   *)
(* The token that follows is not stored and nothing revokes it.             *)
Upsert(r) ==
  LET e == at[r].external
      now == at[r].now
      latest == IF now > player[e].seen THEN now ELSE player[e].seen
  IN /\ at[r].pc = "upsert"
     /\ player' = [player EXCEPT ![e] =
                     IF @ = Absent THEN [id |-> at[r].id, seen |-> now, name |-> None]
                     ELSE [player[e] EXCEPT !.seen = latest]]
     /\ bought' = bought \cup {[external |-> e, player |-> player'[e].id]}
     /\ tokens' = tokens \cup {issue_player(player'[e].id)}
     /\ at' = [at EXCEPT ![r] = Idle]
     /\ still' = IF player'[e].seen = Seen(e) THEN still ELSE still \ {e}
     /\ UNCHANGED <<revokedAt, mintedBy, clock, walk>>

(* rename_player_self: the player is the token's, never the request's. *)
Rename(token, e) ==
  /\ current_player(token) /\ e \in Registered /\ player[e].id = token.sub
  /\ player' = [player EXCEPT ![e].name = token.sub]
  /\ UNCHANGED <<revokedAt, mintedBy, tokens, bought, clock, at, walk, still>>
-----------------------------------------------------------------------------
(* Mutant: the rows after a cursor are those seen earlier, not at its time. *)
Beyond_Untied(after, e) == after = None \/ player[e].seen < after.seen

(* (last_seen_at, id) < (:seen, :id) *)
Beyond(after, e) ==
  \/ after = None
  \/ player[e].seen < after.seen
  \/ player[e].seen = after.seen /\ player[e].id < after.id

(* ORDER BY last_seen_at DESC, id DESC *)
Before(e, f) ==
  \/ player[e].seen > player[f].seen
  \/ player[e].seen = player[f].seen /\ player[e].id > player[f].id

StartWalk ==
  /\ walk.pc \in {"off", "done"}
  /\ walk' = [NoWalk EXCEPT !.pc = "next"]
  /\ still' = ExternalId
  /\ UNCHANGED <<player, revokedAt, mintedBy, tokens, bought, clock, at>>

(* list_players: a page of `page`, and the cursor when there is one more. A  *)
(* damaged cursor is a 422, after which the one it was damaged from is used. *)
ListPlayers(token, limit) ==
  LET beyond == {e \in Registered : Beyond(walk.after, e)}
      shown == {e \in beyond : Cardinality({f \in beyond : Before(f, e)}) < page_size(limit)}
      seen == [e \in ExternalId |-> walk.seen[e] + (IF e \in shown THEN 1 ELSE 0)]
  IN /\ walk.pc = "next" /\ requires(token, {"EDITOR", "ADMIN"})
     /\ \/ /\ shown = beyond
           /\ walk' = [pc |-> "done", after |-> None, seen |-> seen]
        \/ /\ shown # beyond
           /\ \E last \in shown :
                /\ \A e \in shown \ {last} : Before(e, last)
                /\ walk' = [pc |-> "next", seen |-> seen,
                            after |-> [seen |-> player[last].seen, id |-> player[last].id]]
     /\ UNCHANGED <<player, revokedAt, mintedBy, tokens, bought, clock, at, still>>

Handle(r) == TakeTime(r) \/ Upsert(r)

Act(token) ==
  \/ \E k \in ApiKey : CreateKey(token, k) \/ RevokeKey(token, k)
  \/ \E e \in ExternalId : Rename(token, e)
  \/ Expire(token)

Look(token) == \E limit \in {None, 0, MOST_PLAYERS_PER_PAGE + 1} : ListPlayers(token, limit)

Next ==
  \/ Tick
  \/ \E a \in Account : SignIn(a)
  \/ \E r \in Request : Handle(r) \/ \E k \in ApiKey, e \in ExternalId : StartSession(r, k, e)
  \/ \E token \in tokens : Act(token) \/ Look(token)
  \/ StartWalk

Spec == Init /\ [][Next]_vars
-----------------------------------------------------------------------------
(* "Two requests from a first launch": the database settles it, and every    *)
(* session of one identifier is one player's and nobody else's.             *)
OnePlayerEach ==
  \A s, t \in bought : s.external = t.external <=> s.player = t.player

(* "A player whose last_seen_at does not change during a walk is returned    *)
(* exactly once", whoever else starts a session, at whatever page sizes.    *)
PlayersWalkedOnce ==
  \A e \in still :
    /\ walk.seen[e] <= IF e \in Registered THEN 1 ELSE 0
    /\ walk.pc = "done" => walk.seen[e] = IF e \in Registered THEN 1 ELSE 0

(* No credential stands in for another: a key is minted with the access      *)
(* token of an administrator, and the name a player shows is their own.     *)
NoTokenStandsIn ==
  /\ \A k \in ApiKey : revokedAt[k] # Absent =>
       mintedBy[k].typ = "access" /\ mintedBy[k].rol = "ADMIN"
  /\ \A e \in Registered : player[e].name \in {None, player[e].id}
=============================================================================
