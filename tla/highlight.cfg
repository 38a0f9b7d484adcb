SPECIFICATION Spec
CONSTANTS
  Wide = {"b"}
  LineWidth = 3
  CaptionLines = 3
  MaxShown = 8
  Part = "part"
  MinCard = 3
  MinShare = 6
  Fade = 2
  Closing = 5
  Sentences <- MCSentences
  SceneLengths <- MCSceneLengths
  Beats = {1, 3}
  MaxSentences = 2
  MaxRests = {0, 5}
  Lead = 1
  MaxRuns = 2
CHECK_DEADLOCK FALSE
INVARIANT HighlightIsSpoken
