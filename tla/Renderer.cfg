SPECIFICATION Spec
CONSTANTS
  MaxBuffers = 3
  MaxResizes = 2
  Queues = {q1, q2, copy}
  DirectQueues = {q1, q2}
  Submitters = {t1, t2}
  MaxRefs = 2
  NoQueue = none
  Failures = {"device", "d3d12", "view", "shader"}
INVARIANTS
  TypeOK
  OnlyBoundHeld
  DrawsCurrent
  AimShaded
  QueueOwned
CHECK_DEADLOCK FALSE
