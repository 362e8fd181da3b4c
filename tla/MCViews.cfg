SPECIFICATION MCSpec
CONSTANTS
  Subjects = {"sys"}
  SysSubjects = {"sys"}
  MaxHistory = 1
  Trim = 2
  MaxArrivals = 3
  MaxMarks = 2
  StreamSubjects = {"a", "b"}
  NameOf <- MCNameOf
  MaxSeq = 3
  Intervals <- MCIntervals
  MaxApplies = 1
  MaxRows = 3
  MaxCalls = 3
  LastSeq = 4
  MsgNames = {"a", "b"}
  SubjectOf <- MCSubjectOf
  TimeOf <- MCTimeOf
  PageRequests <- MCPageRequests
  Bytes = {"p", "q"}
  ProtoTopics = {"a", "$a"}
  FilesOf <- MCFilesOf
  WithFields <- MCWithFields
  NoFields <- MCNoFields
  ScoreOf <- MCScoreOf
  CleanTopic <- MCCleanTopic
  CleanId <- MCCleanId
  PatternsOf <- MCPatternsOf
  MaxQuick = 2
  KeptCap = 1
  MaxCommits = 1
  MaxPicks = 2
CONSTRAINTS OneTyped StillSaid
INVARIANTS
  LiveCardSound
  PagesSound
  BrowseSound
  RequestsSound
  ProtoSound
PROPERTIES
  ImplementsLatest
CHECK_DEADLOCK FALSE
