\* Calls return, leave requests are honoured, nothing is lost on the way.
CONSTANTS
  MaxActions = 4
  EventTypes = {"DONE", "SUSTAIN", "CHANGE_TO"}
  Priorities = {1}
  EventsDuring = {}
  Resets = "never"
SPECIFICATION FairSpec
INVARIANT NoLeak
PROPERTIES CallsReturn LeaveRequestsHonoured
CHECK_DEADLOCK FALSE
