SPECIFICATION EitherSpec
CONSTANTS
  c1 = c1  c2 = c2  c3 = c3  t1 = t1  t2 = t2  a1 = a1  a2 = a2  a3 = a3
  Calls = {c1, c2, c3}
  MaxConnections = 2
  Tasks = {t1, t2}
  Askers = {a1, a2, a3}
INVARIANTS ConnectionAnswers NoneLeftBehind
PROPERTIES CallsEnd TasksSettle
CHECK_DEADLOCK FALSE
