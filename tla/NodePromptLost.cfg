SPECIFICATION FunctionalSpec
CONSTANTS
  Hosts = {"node"}
  Clients = {1}
  TaskIDs = {1, 2}
  Body <- MCBody
  Persistent = {1, 2}
  Asking = {}
  TaskAttempts <- MCAttempts
  MaxConcurrency = 1
  Inputs = {1, 2}
  AnswerValues = {1, 2}
  MaxThreadCheckpoints = 3
  MaxInvocations = 2
  MaxMishaps = 0
CHECK_DEADLOCK FALSE
PROPERTY PromptsReported
