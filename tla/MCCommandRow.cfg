SPECIFICATION Spec
CONSTANTS
  Handlers = {h1, h2}
  Requeuers = {q1, q2}
  Unset = Unset
  MaxSequence = 2
  MaxTime = 2
SYMMETRY RowSymmetry
INVARIANTS
  TypeOK
  EventLogContiguous
  TerminalEventFinalizes
  OutcomeHasItsEvent
  EarlierAnswerIsVisible
PROPERTIES
  FinalizedStaysFinal
