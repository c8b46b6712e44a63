SPECIFICATION Spec
CONSTANTS
  Requests = {r1}
  Keys = {k1}
  NoKey = NoKey
  Urls = {openai, proxy}
  DefaultUrl = openai
  NoUrl = NoUrl
  Envs <- MCEnvs
  Pieces <- MCPieces
  MaxPieces = 3
  MaxConfigs = 2
  None = None
INVARIANTS
  AnswerIsExact
  RunningIsAbortable
PROPERTIES
  SettingsInForce
  Answered
CHECK_DEADLOCK FALSE
