\* A second message, after the first one was handed to a human.
SPECIFICATION Spec
CONSTANTS
  Clients = {ana, leo}
  Social = {leo}
  Messages = {m1, m2}
  Senders <- OneSender
  Convs = {k1, k2}
  Turns = {t1, t2}
  MaxDeliveries = 3
  MaxTools = 2
  NoConv = NoConv
INVARIANT EscalatedStaysQuiet
CHECK_DEADLOCK FALSE
