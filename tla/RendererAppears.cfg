SPECIFICATION FairSpec
CONSTANTS
  MaxBuffers = 2
  MaxResizes = 1
  Queues = {q1, copy}
  DirectQueues = {q1}
  Submitters = {t1, t2}
  MaxRefs = 2
  NoQueue = none
  Failures = {}
PROPERTY
  Appears
