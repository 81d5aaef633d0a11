-------------------------------- MODULE Editor --------------------------------
(***************************************************************************)
(* A page of the editor: the session of its browser (EditorSession) and the*)
(* wave screen (WaveEditor).  The screen sends its calls through apiFetch, *)
(* which renews the session and repeats the call, or fails; to the screen  *)
(* that is a call that takes longer, or one that is refused.  So they share*)
(* no variable, and a step of one leaves the other as it is.               *)
(***************************************************************************)
EXTENDS EditorSession

CONSTANTS Wave, Text, MovementType, Configured, Config, Duration, MAX_BLOCKS, MAX_SCREENS, MAX_TEXTS

VARIABLES stored, wave, timelines, selectedRule, dirty, screen, calls, held

waves == INSTANCE WaveEditor

waveVars == <<stored, wave, timelines, selectedRule, dirty, screen, calls, held>>
pageVars == <<allVars, waveVars>>

PageInit == EditorInit /\ waves!Init

SessionStep == EditorNext /\ UNCHANGED waveVars
ScreenStep == waves!Next /\ UNCHANGED allVars

PageNext == SessionStep \/ ScreenStep

PageSpec == PageInit /\ [][PageNext]_pageVars
-----------------------------------------------------------------------------
(* The properties of the wave screen, stated where it is modelled. *)
NoWaveUnderAnothersName == waves!NoWaveUnderAnothersName
CleanIsStored == waves!CleanIsStored
=============================================================================
