SPECIFICATION Spec
CONSTANTS
  Strangers = {s1}
  MaxKnocks = 2
  MaxLives = 2
  Events = {"call", "send", "crash"}
  Texts = {t1, t2, t3}
  NoDraft = NoDraft
SYMMETRY MCSymmetry
INVARIANTS
  TypeOK
  ToldOncePerLife
  SilenceIsAFailedSend
  SavedOnce
  StrayDraftsAreLate
  TalkIsWhatWasHeard
\* The owner may stop writing: texts, updates and restarts are bounded.
CHECK_DEADLOCK FALSE
