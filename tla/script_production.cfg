SPECIFICATION Spec
CONSTANTS
  Sentences = {"a", "b", "subscribe", "leak"}
  Topic <- MCTopic
  TargetWords = 4
  MinScore = 70
  MinSeo = 60
  NoCta = "none"
  Leaks = {"leak"}
  Drafts <- MCDrafts
  Expansions <- MCExpansions
  Evaluations <- MCEvaluations
  Cleanings <- MCCleanings
  LowRamModes = {TRUE, FALSE}
  MaxWaits = 2
  MaxRetries = 1
  MaxTakes = 2
CHECK_DEADLOCK FALSE
INVARIANTS GivesUpLast ScriptHonest NarrationHonest CompleteShowsSaved
PROPERTIES GateStopsUnparsed
