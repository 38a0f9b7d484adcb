SPECIFICATION DeployedSpec
CONSTANTS
  s1 = s1
  p1 = p1
  p2 = p2
  Films = {f1, f2}
  ScriptOf <- MCScriptOf
  ScenesOf <- MCScenesOf
  NoPrompt = NoPrompt
  MaxRetries = 1
  Faults = {"disk", "commit", "crash"}
  MaxFaults = 2
  MaxFilms = 3
  Tracked = {"thumbnails", "voices", "chat_sessions", "chat_messages", "uploads"}
  DevMode = TRUE
  CreateTypeHeeded = FALSE
CHECK_DEADLOCK FALSE
INVARIANTS AskedOnce PicturesStay DiskFreed ScenesIllustrated HeadServesModels OnlyKnownBlocks
PROPERTIES FilmsGoOn StepBackIsUndone
