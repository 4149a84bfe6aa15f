CONSTANTS
  Threads = {t1, t2, t3}
  SentBound = 4
SPECIFICATION FairSpec
INVARIANTS
  TypeOK
  NoLostWakeup
PROPERTIES
  HeadTaken
  TimedCallReturns
