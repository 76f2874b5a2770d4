CONSTANTS
  Messages = {m1}
  Timers = {t1}
  Caller = caller
  None = None
  Calls = {"create", "platformReset", "disable"}
  BatchSize = 1
  MaxFaults = 3
SPECIFICATION FairSpec
PROPERTIES EveryMessageSettles
