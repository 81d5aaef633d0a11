------------------------------ MODULE MCPlatform ------------------------------
(***************************************************************************)
(* The platform's parts in one run.  They share no state, so what one of   *)
(* them does is the same whatever the others do, and each behaviour belongs*)
(* to one of them: part says which, and the others stay as they began.     *)
(* Players and plugins are two parts each, one for what meets and one for  *)
(* how far it goes.                                                        *)
(*                                                                         *)
(* In each part the two callers are symmetric.                             *)
(***************************************************************************)
EXTENDS PlatformParts, MCSessions, FiniteSets

CONSTANTS root, writer, p1, p1b, p2, q1, p, q, v1, v2, good, bad, th, ts, ix

VARIABLE part

MCRoleOf == [a \in {root, writer} |-> IF a = root THEN "ADMIN" ELSE "EDITOR"]

(* Two archives of one version of p, one of the next, and one of another   *)
(* plugin, whose tables p could claim and which does not unpack.           *)
MCDeclares ==
  [a \in Archive |-> IF a = q1 THEN <<q, v1>> ELSE <<p, IF a = p2 THEN v2 ELSE v1>>]
MCFaults == [a \in Archive |-> IF a = q1 THEN {"inflates"} ELSE {}]
MCOverlapping == {Name}
MCMeddled == {<<p, v2>>}

(* The platform's history makes th, which is handed to the app inventory,  *)
(* and its index.  The names of both tables carry the prefix of inventory, *)
(* and that of th carries the prefix of an app called inventory-item, too. *)
MCPrefixed == [a \in App |-> IF a = "inventory" THEN {th, ts} ELSE {th}]
MCHandedOver == [a \in App |-> IF a = "inventory" THEN {th} ELSE {}]
MCBelongsTo == [o \in Object |-> IF o = ix THEN th ELSE o]
-----------------------------------------------------------------------------
(* Of two requests, one is idle. *)
Alone(steps) == \A c, d \in Caller : c # d => [pc |-> "idle"] \in {steps[c], steps[d]}

(* Players: two identifiers while tokens and keys come and go, or three    *)
(* that are walked over while one at a time starts a session.              *)
KeysOrWalk ==
  \/ players!Tick
  \/ \E a \in Staff : players!SignIn(a) /\ (part = "walk" => a = root)
  \/ \E c \in Caller :
       \/ players!Handle(c)
       \/ \E e \in ExternalId :
            /\ players!StartSession(c, "k1", e)
            /\ IF part = "walk" THEN Alone(joining)' ELSE e # "x3"
  \/ \E token \in tokens :
       \/ part = "keys" /\ players!Act(token)
       \/ part = "walk" /\ players!Look(token)
       \/ part = "walk" /\ revokedAt["k1"] = Absent /\ players!CreateKey(token, "k1")
  \/ part = "walk" /\ players!StartWalk

(* Plugins: one install at a time of one plugin's three archives, or two   *)
(* installs of what a publisher signs with a trusted key and with another, *)
(* beside a plugin copied in by hand.                                      *)
OnePlugin ==
  /\ Alone(installing)' /\ disk'[q] = Absent
  /\ \A d \in Meddled : file'[d] \in {Absent, p2, p1}
                         /\ (index'[d] # Absent => index'[d].sha256 \in {p2, p1})
  /\ \A s \in signed' : s[1] = good /\ s[3] # q1
TwoInstalls ==
  /\ \A d \in Meddled : file'[d] \in {Absent, p2} /\ (index'[d] # Absent => index'[d].sha256 = p2)
  /\ disk'[p] # Absent => disk'[p].receipt # Absent
  /\ \A s \in signed' : s \in {<<good, <<p, v1>>, p1>>, <<bad, <<p, v2>>, p2>>,
                                  <<good, <<p, v2>>, p2>>}

MCInit ==
  /\ part \in {"sessions", "keys", "walk", "plugin", "installs", "migrations", "media"}
  /\ PlatformInit

MCNext ==
  /\ UNCHANGED part
  /\ \/ part = "sessions" /\ SessionsStep
     \/ /\ part \in {"keys", "walk"} /\ KeysOrWalk
        /\ part = "keys" => Cardinality(tokens') <= 2
        /\ UNCHANGED <<vars, pluginVars, migrationVars, mediaVars>>
     \/ part = "plugin" /\ PluginsStep /\ OnePlugin
     \/ part = "installs" /\ PluginsStep /\ TwoInstalls
     \/ part = "migrations" /\ MigrationsStep
     \/ part = "media" /\ MediaStep

MCSpec == MCInit /\ [][MCNext]_<<part, platformVars>>

ASSUME PlatformAssumption
=============================================================================
