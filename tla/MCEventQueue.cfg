SPECIFICATION FairSpec
CONSTANTS
  Producers = {p1, p2}
  Tasks = {t1}
  Waiters = {w1, w2}
  MaxEvents = 3
  NoTask = NoTask
PROPERTY NoConsumerSleepsOn
CHECK_DEADLOCK FALSE
