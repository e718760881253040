--------------------------- MODULE MCThemeStudio ---------------------------
(***************************************************************************)
(* Two themes, one of which allows a single look, a preset, a background   *)
(* of one's own and one to upload, a valid and an invalid package.         *)
(***************************************************************************)
EXTENDS ThemeStudio

CONSTANTS slate, candy, beach, forest, lake, good, bad

MCThemes == {slate, candy}
MCLocked == {candy}
MCMedia == {beach, forest, lake}
MCLibrary == {beach, lake}
MCPresets == {lake}
MCFiles == {good, bad}
MCGoodFiles == {good}
=============================================================================
