SPECIFICATION FairSpec
INVARIANTS
  DialledAsWanted
PROPERTIES
  SettingIsMade
