SPECIFICATION MSpec
CONSTANTS
  u1 = u1
  u2 = u2
  b = b
  k1 = k1
  k2 = k2
  a1 = a1
  a2 = a2
  a3 = a3
  must = must
  may = may
  late = late
  dense = dense
  l1 = l1
  l2 = l2
  l3 = l3
  l4 = l4
  l5 = l5
  i1 = i1
  i2 = i2
  i3 = i3
  i4 = i4
  i5 = i5
  Tasks <- TwoUserTasks
  Keys <- MCKeys
  Locks <- MCLocks
  Instances <- MCInstances
  Users <- TwoUsers
  Aliases <- MCAliases
  Specs <- MCSpecs
  KeyOf <- MCKeyOf
  Policy <- MCPolicy
  Required <- MCRequired
  Catalog <- LateRegistered
  Surfaces <- MCSurfaces
  Views <- MCViews
  Builder = b
  Faulty <- MCKeys
  CanCancel = FALSE
  None = None
SYMMETRY UserSymmetry
INVARIANTS
  RequiredIsLoaded
  OneWrapper
  CacheFollowsCatalog
  LockMapBounded
CHECK_DEADLOCK FALSE
