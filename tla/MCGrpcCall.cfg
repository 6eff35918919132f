CONSTANTS
  EOS = EOS
  Values = {1, 2}
  Scenarios <- MCScenarios
  MaxReplies = 2
  NSUIntegerSize = 4
SPECIFICATION CallSpec
CHECK_DEADLOCK FALSE
INVARIANTS CallTypeOK BatchesInOrder ReadsAreAskedFor PipeCorrect
PROPERTIES PipeContract HandlerContract CallCloses WritesGoOut
