SPECIFICATION MCSpec
CONSTANTS
  Formats = {"cddl", "proto"}
  Tabs = {tab1, tab2}
  Subjects <- MCSubjects
  Types = {"T", "U"}
  OldType = "old"
  MinTerminals = 2
  MaxTopicDepth = 2
  MaxOps <- MCOps
  Payloads = {"p", "q"}
  Topics = {A, B}
  RulesOf <- MCRulesOf
  FileOf <- MCFileOf
  Accepted <- MCAccepted
  Broken <- MCBroken
  MaxProbes = 1
  MaxChoices = 2
  NoRule = "none"
  NoPayload = "nopay"
  Schema <- MCSchema
  Rules <- MCRules
  Whole <- MCWhole
  Closed <- MCClosed
  Texts <- MCTexts
  Inputs <- MCInputs
  MaxRows = 3
  MaxTurns = 2
SYMMETRY MCSymmetry
INVARIANTS
  CachesSound
  RulesSound
  FormSound
PROPERTIES
  PreferenceKept
CHECK_DEADLOCK FALSE
