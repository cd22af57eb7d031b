CONSTANTS
  Prefs = {"interval", "notify"}
  Intervals = {0, 30}
  Keys = {k1}
  NoKey = NoKey
  MaxDialogs = 1
SPECIFICATION Spec
PROPERTY SavedPreferencesStored
