SPECIFICATION Spec
CONSTANTS
  BarTokens <- MCBarTokens
  MaxBarTokens = 3
  BarMails <- MCBarMails
  StatusBits = {"read"}
  SelectFields = {}
  SelectTexts <- MCSelectTexts
  SelectMails <- MCSelectMails
  Identities = {"ann", "bob"}
  MaxEdits = 2
  Addresses = {"a1", "a2"}
  Fields = {"To", "Cc"}
  Files = {"f"}
  MaxEditors = 2
  MaxTries = 2
  Msgs = {1, 2, 3}
  ReplyTo <- MCReplyTo
  RuleNames = {1, 2}
  Loaded <- MCLoaded
  NewActions <- MCNewActions
  MaxChanges = 3
  Keyboards <- MCKeyboards
  Conditions <- MCConditions
  Message <- MCMessage
  MaxTokens = 5
  Emails = {"bob", "eve"}
  Names = {"n"}
  Options <- MCOptions
  FirstIdentities <- MCFirstIdentities
  FirstConfig <- MCFirstConfig
  FirstPrograms <- MCFirstPrograms
  Viewers <- MCViewers
  Named = TRUE
  m_default_values <- MCDefaults
  Faults = {"fetch", "config", "viewers", "identities"}
  MaxPrefsEdits = 3
  MaxOthers = 1
CONSTRAINT NoSlip
INVARIANTS
  TypeOK
  SelectsAsAsked
  SentAsComposed
  StoredIsWhole
  TreeOfReplies
  RulesSavedAsShown
  EvaluatesAsWritten
  PreferencesSaved
CHECK_DEADLOCK FALSE
