CONSTANTS
  c1 = c1
  c2 = c2
  c3 = c3
  q1 = q1
  id1 = id1
  id2 = id2
  Consumers = {c1, c2, c3}
  Replays = {q1}
  Ids = {id1, id2}
  IdOf <- MCIdOf
  Scripts <- MCScripts
SPECIFICATION Spec
INVARIANTS
  TypeOK
  LogIsWhole
  ReplayGivesLog
  LogBeginsBeforeAnswers
PROPERTIES
  NotOpenIsEmpty
CHECK_DEADLOCK FALSE
