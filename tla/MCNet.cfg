SPECIFICATION Spec
INVARIANTS
  
  AnswersAccepted
  
  ArrivalsInOrder
CHECK_DEADLOCK FALSE
