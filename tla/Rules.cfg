SPECIFICATION MCSpec
CONSTANTS
  Surveys <- SurveySet
  Forms <- FormSet
  Given <- GivenAnswers
  Unset = Unset
  Undefined = Undefined
  Blank = Blank
  NaN = NaN
  Half = Half
  MaxStored = 2
  Tenants = {"v4", "v7"}
  Inputs <- InputSets
  MaxRetries = 1
  MaxRows = 2
  Anything = Anything
  PostIds = {1, 2, 3}
  Workspaces = {w1, w2}
  Limit = 1
  MaxAge = 2
  Commands <- CommandSet
  Setups <- SetupSet
  Absent = Absent
  Environments <- EnvironmentSet
  ProtocolCommands <- ProtocolCommandSet
  MaxStarts = 2
  RuntimePin = "s1"
  MaxReleases = 3
  Families <- MCFamilies
  Authorities <- MCAuthorities
INVARIANTS
  StoredIsFit
  
  PagesMissNothing
  GatewaysAreTrue
  OldClientsStillWork
  CorrectionIsTrue
CHECK_DEADLOCK FALSE
