CONSTANTS
  Poller = {p1}
  Hook = {}
  MaxFixAttempts = 3
  PromptMode = FALSE
  MaxReports = 0
SPECIFICATION Spec
PROPERTY RevivedOnlyByTasks
