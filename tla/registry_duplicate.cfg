SPECIFICATION RSpec
CONSTANTS
  t1 = t1
  t2 = t2
  t3 = t3
  k1 = k1
  k2 = k2
  l1 = l1
  l2 = l2
  l3 = l3
  l4 = l4
  i1 = i1
  i2 = i2
  i3 = i3
  i4 = i4
  Tasks <- ThreeTasks
  Keys <- OneKey
  Locks <- MCLocks
  Instances <- MCInstances
  Faulty <- OneKey
  CanCancel = FALSE
  None = None
INVARIANTS
  SingleLoader
