SPECIFICATION ToolSpec
CONSTANTS
  Names <- MCNames
  Edited = {"write_file"}
  Creds = {s1}
  EnvName <- MCEnvName
  Requests <- MCRequests
  InitialJobs <- MCJobs
  Agent = "mine"
  IsPosix = TRUE
  ToolTimeout = 1
  CommandTimeout = 2
  BrowserTimeout = 2
  MaxTimeout = 1
  MaxCalls = 1
  MaxCommands = 2
  MaxFailures = 1
  Configs <- MCConfigs
  None = None
  Torn = Torn
INVARIANTS
  SecretsKept
  CallsInBounds
  RecordsAgree
PROPERTIES
  NothingForeignChanged
CHECK_DEADLOCK FALSE
