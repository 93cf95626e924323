\* Addresses are used again, callbacks create and delete, listeners come and go.
CONSTANTS
  Addresses = {1, 2}
  Indexes = {1}
  Listeners = {1}
  MaxHandles = 3
  MaxDepth = 6
  CallsBack <- Everything
SPECIFICATION FairSpec
INVARIANTS RecordsConsistent CallbacksSeeRecord EventsPaired
PROPERTIES EventuallyAnnounced
CHECK_DEADLOCK FALSE
