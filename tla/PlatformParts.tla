----------------------------- MODULE PlatformParts -----------------------------
(***************************************************************************)
(* The platform's own parts, side by side: sessions, players and API keys, *)
(* the plugin store, the migrations of apps, and media.  They keep tables, *)
(* files and memory of their own and share none of it, so a step of one    *)
(* leaves the others as they are, and any of them may take the next step.  *)
(*                                                                         *)
(* The callers of the sessions stand for the requests, the installs and    *)
(* the runners of the other parts.                                         *)
(***************************************************************************)
EXTENDS Sessions

CONSTANTS
  ExternalId, PlayerId, ApiKey, Staff, RoleOf,              \* players and keys
  PLAYERS_PER_PAGE, MOST_PLAYERS_PER_PAGE, MaxTime,
  Publisher, Archive, Name, Version, SigningKey, Declares,  \* plugins
  Faults, Trusted, Overlapping, Meddled, ByHand,
  App, Object, Prefixed, BelongsTo, History, HANDED_OVER,   \* migrations
  Platform, Unjudged, MAX_STATEMENTS,
  Client, Id, LIMIT, MAX_TRACKS                             \* media

VARIABLES
  player, revokedAt, mintedBy, tokens, bought, clock, joining, walk, still,
  file, index, signed, shop, installing, disk, service,
  catalog, ledger, version, lock, run, maker,
  row, partial, bytes, jobs, uploading, ask, used, doubtful, stranded

players == INSTANCE Players WITH Request <- Caller, Account <- Staff, at <- joining

plugins == INSTANCE PluginStore WITH
  Installer <- Caller, Key <- SigningKey, at <- installing

migrations == INSTANCE AppMigrations WITH Runner <- Caller

media == INSTANCE Media WITH Request <- Caller, Caller <- Client, at <- uploading

PlatformAssumption ==
  /\ players!PlayersAssumption /\ plugins!PluginStoreAssumption
  /\ migrations!AppMigrationsAssumption /\ media!MediaAssumption

playerVars == <<player, revokedAt, mintedBy, tokens, bought, clock, joining, walk, still>>
pluginVars == <<file, index, signed, shop, installing, disk, service>>
migrationVars == <<catalog, ledger, version, lock, run, maker>>
mediaVars == <<row, partial, bytes, jobs, uploading, ask, used, doubtful, stranded>>
platformVars == <<vars, playerVars, pluginVars, migrationVars, mediaVars>>
-----------------------------------------------------------------------------
PlatformInit == Init /\ players!Init /\ plugins!Init /\ migrations!Init /\ media!Init

SessionsStep == Next /\ UNCHANGED <<playerVars, pluginVars, migrationVars, mediaVars>>
PlayersStep == players!Next /\ UNCHANGED <<vars, pluginVars, migrationVars, mediaVars>>
PluginsStep == plugins!Next /\ UNCHANGED <<vars, playerVars, migrationVars, mediaVars>>
MigrationsStep == migrations!Next /\ UNCHANGED <<vars, playerVars, pluginVars, mediaVars>>
MediaStep == media!Next /\ UNCHANGED <<vars, playerVars, pluginVars, migrationVars>>

PlatformNext == SessionsStep \/ PlayersStep \/ PluginsStep \/ MigrationsStep \/ MediaStep

PlatformSpec == PlatformInit /\ [][PlatformNext]_platformVars
-----------------------------------------------------------------------------
(* The properties of these parts, each stated where its part is modelled. *)
OnePlayerEach == players!OnePlayerEach
PlayersWalkedOnce == players!PlayersWalkedOnce
NoTokenStandsIn == players!NoTokenStandsIn
RunsWhatWasSigned == plugins!RunsWhatWasSigned
ScreenIsVouched == plugins!ScreenIsVouched
OnlyItsOwn == migrations!OnlyItsOwn
LedgerIsTrue == migrations!LedgerIsTrue
RowsHaveBytes == media!RowsHaveBytes
NothingLeftBehind == media!NothingLeftBehind
=============================================================================
