SPECIFICATION MCSpec
CONSTANTS
  FieldCount <- TwoSlaves
  Attempts = 2
  Stray = {0, 1}
  RequestMod = 4
  MaxAnswers = 1
  MaxFrames = 14
  MaxStray = 1
  Frames <- SomeFrames
  Errors <- SomeErrors
INVARIANTS
  AnswerFits NoiseTolerated
  MatchesPolynomial WholeFramePasses OnlyWholePass
PROPERTIES EveryDevicePolled
