\* Transitions, contained actions, teardown, and event results that arrive between
\* the updates and from inside every callback.
CONSTANTS
  MaxActions = 4
  EventTypes = {"DONE", "SUSPEND_FOR"}
  Priorities = {1, 3}
  EventsDuring = {"onStart", "onUpdate", "onSuspend", "onResume", "onEnd", "initial"}
  Resets = "betweenUpdates"
SPECIFICATION Spec
INVARIANTS TypeOK StackLinksAgree ChildrenEndFirst ReplacedEndsFirst CallsTouchLiveActions
PROPERTIES PendingNotDowngraded EndedBeforeFreed
CHECK_DEADLOCK FALSE
