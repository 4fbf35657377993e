\* Two messages, delivered three times in all, two turns at a time.
SPECIFICATION FairSpec
CONSTANTS
  Clients = {ana, leo}
  Social = {leo}
  Messages = {m1, m2}
  Senders <- OneSender
  Convs = {k1, k2}
  Turns = {t1, t2}
  MaxDeliveries = 3
  MaxTools = 2
  NoConv = NoConv
INVARIANTS
  AnsweredOnce
  ActsAreRemembered
  StoredIsAnswered
  LeadQueuedOnce
PROPERTIES
  HandoverSticks
  EveryTurnEnds
CHECK_DEADLOCK FALSE
