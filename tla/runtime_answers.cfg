SPECIFICATION MFairSpec
CONSTANTS
  u1 = u1
  u2 = u2
  b = b
  k1 = k1
  k2 = k2
  a1 = a1
  a2 = a2
  a3 = a3
  must = must
  may = may
  late = late
  dense = dense
  l1 = l1
  l2 = l2
  l3 = l3
  l4 = l4
  l5 = l5
  i1 = i1
  i2 = i2
  i3 = i3
  i4 = i4
  i5 = i5
  Tasks <- OneUserTasks
  Keys <- MCKeys
  Locks <- MCLocks
  Instances <- MCInstances
  Users <- OneUser
  Aliases <- MCAliases
  Specs <- MCSpecs
  KeyOf <- MCKeyOf
  Policy <- MCPolicy
  Required <- MCRequired
  Catalog <- LateWarmed
  Surfaces <- MCSurfaces
  Views <- MCViews
  Builder = b
  Faulty <- MCKeys
  CanCancel = TRUE
  None = None
INVARIANTS
  OnlyWarmModels
PROPERTIES
  EverythingEnds
CHECK_DEADLOCK FALSE
