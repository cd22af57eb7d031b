CONSTANTS
  Prefs = {"interval", "startup"}
  Intervals = {30, 7}
  Keys = {k1}
  NoKey = NoKey
  MaxDialogs = 2
  ApiKeys = {k1, k2}
  NoFile = NoFile
  Torn = Torn
SPECIFICATION SettingsSpec
INVARIANTS
  EveryChangeIsTold
  KeyFileIsWhole
  AnswerIsTrue
PROPERTY
  SaveStoresControls
