SPECIFICATION Spec
CONSTANTS
  MaxVars = 3
  CacheSize = 1
  Calls <- mcCalls
  Questions <- mcQuestions
  Handles = {1, 2}
  Tables <- mcTables
  Images <- mcImages
  Arguments <- mcArguments
  MaxPairId = 3
INVARIANTS
  CallsRight
  AnswersRight
  
