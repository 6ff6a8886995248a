CONSTANTS
  PathTokens <- Toks
  MaxTokens = 4
  VolSpecs <- VolSpecs_
  AssignSpecs <- AssignSpecs_
  HostTree <- HostTree_
  HostCwd <- HostCwd_
  ListOrder <- ListOrder_
  Low <- Low_
  CharsOf <- CharsOf_
  BaseDir <- BaseDir_
  MaxEdits = 4
  LockSlots = 5
  LockAddrs = {1, 2, 3, 4, 5, 6}
  StartTree <- StartTree_
  DosDevices <- DosDevices_
  LockPaths <- LockPaths_
  MaxNames = 3
  MaxChanges = 1
  FhAddrs = {1, 2, 3}
  FileNames = {"f"}
  HostFiles <- HostFiles_
  FileBytes = {1}
  NewLine = 10
  FhWord = 16
  MaxData = 3
  MaxPackets = 1
  MaxFileOps = 5
  TypeChars = {"esc", "[", "x"}
  MaxTyped = 4
  ReadSizes = {1, 2, 3}
  MaxProcs = 3
  MaxDepth = 3
  MaxPkts = 2
  MaxWorks = 3
  VarNames = {"v", "V", "w"}
  VarTypes = {0}
  VarValues <- VarValues_
  MaxVarOps = 4
  TreeDirs <- TreeDirs_
  TreeFiles <- TreeFiles_
  MatchPatterns <- MatchPatterns_
  StartDir <- StartDir_
  WorkDirs <- WorkDirs_
  Trees <- Trees_
  Texts <- Texts_
  MaxSteps = 200
  Templates <- Templates_
  ArgWords <- ArgWords_
  MaxWords = 3
  CmdPieces <- CmdPieces_
  MaxPieces = 2
SPECIFICATION DosSpec
CHECK_DEADLOCK FALSE
INVARIANTS
    PathsLead
    LocksRight
    StreamsRight
    ProcessesTidy
    VarsRight
    MatchingRight
    ArgsRight
    NoDeadChannels
