SPECIFICATION StudioSpec
CONSTANTS
  slate = slate
  candy = candy
  beach = beach
  forest = forest
  lake = lake
  good = good
  bad = bad
  None = None
  Url = Url
  NoFile = NoFile
  ThemeIds <- MCThemes
  OneLook <- MCLocked
  Initial = slate
  Media <- MCMedia
  Library <- MCLibrary
  Presets <- MCPresets
  Limit = 2
  Files <- MCFiles
  GoodFiles <- MCGoodFiles
  MaxActs = 3
INVARIANT ScreenIsTrue
INVARIANT PreviewFollows
PROPERTY SavesKeepTheRest
CHECK_DEADLOCK FALSE
