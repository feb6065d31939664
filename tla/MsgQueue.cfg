CONSTANTS
  Types = {"event"}
  Delays <- MCDelays
  MaxSends = 4
  Horizon = 4
SPECIFICATION QueueFairSpec
INVARIANTS HandledWhenDue
PROPERTIES ImplementsDelayedDelivery EventuallyHandled
CHECK_DEADLOCK FALSE
