SPECIFICATION Spec
CONSTANTS
  q1 = q1
  q2 = q2
  a = a
  b = b
  c = c
  d = d
  Queries = {q1, q2}
  Labels = {a, b, c, d}
  Of <- MCOf
  Kind <- MCKind
  Events = {"call", "crash", "delete"}
INVARIANTS
  TypeOK
  LearnedFromItsLog
  SignalsAgree
  ForgottenWereOvertaken
\* Taps are bounded: when all are done nothing is left to do.
CHECK_DEADLOCK FALSE
