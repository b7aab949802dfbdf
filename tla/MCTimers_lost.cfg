CONSTANTS
  Events = {e1}
  Never = Never
  CallTimes <- ForEver
  Interval = 1
  MaxTick = 2
SPECIFICATION Spec
PROPERTY TimerFires
CHECK_DEADLOCK FALSE
