SPECIFICATION FairSpec
CONSTANTS
  first = first
  second = second
  other = other
  invalid = invalid
  k1 = k1
  k2 = k2
  Ticks <- MCTicks
  Valid <- MCValid
  Keys <- MCKeys
  KeyOf <- MCKeyOf
  IngestRetries = 3
  DailyRetries = 2
  MaxCopies = 2
  MaxFaults = 1
INVARIANTS LakeInv OneAppendIsUnique
PROPERTIES BronzeReachesGold GoldIsRebuilt
