SPECIFICATION Spec
CONSTANTS
  Clients = {c1, m1}
  Monitors = {m1}
INVARIANTS TypeOK QueueShape NoLostWakeup OneOwner
PROPERTIES Served Halts
