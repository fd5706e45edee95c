CONSTANTS
  Producers = {p1, p2}
  Consumers = {c1, c2}
  MaxItems = 4
SPECIFICATION Spec
INVARIANTS NoLostWakeup
PROPERTIES ImplementsBlockingFifo
