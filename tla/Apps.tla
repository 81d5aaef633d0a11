---------------------------------- MODULE Apps ----------------------------------
(***************************************************************************)
(* The apps that keep their own tables, side by side: leaderboards,        *)
(* inventory's grants and its catalogue, the progression curve and the     *)
(* waves.  They share no table and call nothing of each other's, so a step *)
(* of one leaves the others as they are; they do share the service, so any *)
(* of them may take the next step.                                         *)
(***************************************************************************)
EXTENDS Boards

CONSTANTS
  Holder, Held, MAX_QUANTITY, MAX_LINES,                    \* grants
  Catalogued, Attributes, Schema, Fits, Unholdable,         \* the catalogue
  Reader, MAX_STAGE, MAX_XP,                                \* the curve
  Wave, Order, MAX_BATCH                                    \* the waves

VARIABLES
  held, heldDraft, heldHolder, items, granting, granted,
  schema, item, saving, current, since,
  rows, lock, edit, xp, ask, sent,
  waves, waveDraft, waveHolder, app_config, authoring, book

grants == INSTANCE Grants WITH
  Player <- Holder, Item <- Held,
  store <- held, draft <- heldDraft, holder <- heldHolder, at <- granting

catalogue == INSTANCE Items WITH
  Editor <- Request, Item <- Catalogued, Document <- Attributes

progression == INSTANCE Curve WITH Editor <- Request

content == INSTANCE Waves WITH
  Author <- Request,
  store <- waves, draft <- waveDraft, holder <- waveHolder, at <- authoring

AppsAssumption ==
  /\ grants!GrantsAssumption /\ catalogue!ItemsAssumption
  /\ progression!CurveAssumption /\ content!WavesAssumption

grantVars == <<held, heldDraft, heldHolder, items, granting, granted>>
catalogueVars == <<schema, item, saving, current, since>>
curveVars == <<rows, lock, edit, xp, ask, sent>>
contentVars == <<waves, waveDraft, waveHolder, app_config, authoring, book>>
appVars == <<vars, grantVars, catalogueVars, curveVars, contentVars>>
-----------------------------------------------------------------------------
AppsInit == Init /\ grants!Init /\ catalogue!Init /\ progression!Init /\ content!Init

BoardsStep == Next /\ UNCHANGED <<grantVars, catalogueVars, curveVars, contentVars>>
GrantsStep == grants!Next /\ UNCHANGED <<vars, catalogueVars, curveVars, contentVars>>
CatalogueStep == catalogue!Next /\ UNCHANGED <<vars, grantVars, curveVars, contentVars>>
CurveStep == progression!Next /\ UNCHANGED <<vars, grantVars, catalogueVars, contentVars>>
ContentStep == content!Next /\ UNCHANGED <<vars, grantVars, catalogueVars, curveVars>>

AppsNext == BoardsStep \/ GrantsStep \/ CatalogueStep \/ CurveStep \/ ContentStep

AppsSpec == AppsInit /\ [][AppsNext]_appVars
-----------------------------------------------------------------------------
(* The properties of the apps, each stated where its app is modelled. *)
GrantsAddUp == grants!GrantsAddUp
HoldingsAreOfItems == grants!HoldingsAreOfItems
OneLineIsSafe == grants!OneLineIsSafe
ItemsFitASchema == catalogue!ItemsFitASchema
CurveIsWhole == progression!CurveIsWhole
StageOfTheXp == progression!StageOfTheXp
CatalogueIsWhole == content!CatalogueIsWhole
=============================================================================
