CONSTANTS
  Messages = {m1, m2}
  Timers = {t1}
  Caller = caller
  None = None
  Calls = {"create", "invite", "resend", "reset", "disable"}
  BatchSize = 1
  MaxFaults = 1
SPECIFICATION Spec
INVARIANTS DeliveryIInv
PROPERTIES ImplementsMailbox SettledIsFinal
SYMMETRY Symmetry
