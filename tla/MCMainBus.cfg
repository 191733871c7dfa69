SPECIFICATION FairSpec
CONSTANTS
  Child = {dummy, disk, hook, late}
  Old = {disk}
  Boot = {}
  Probed = {hook}
  Requeued = {late}
  Higher = above
  Caller = {entry, windows}
  Entry = entry
  MaxBuses = 2
  MaxAdds = 1
  None = none
CHECK_DEADLOCK FALSE
INVARIANTS
  ReferencesMatch
  ListedIsAssigned
  OneBus
  HeldUnlessStarted
PROPERTIES
  AddedIsReported
