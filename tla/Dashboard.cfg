SPECIFICATION LiveSpec
CONSTANTS
  Tabs = {t1, t2}
  LiveTabs = {t1}
  MaxTokens = 3
  None = None
INVARIANTS SettledFormsHonoured
PROPERTIES OnlyReactivateActivates RecoversUnlessRefused
