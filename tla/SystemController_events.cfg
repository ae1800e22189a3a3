SPECIFICATION FairSpec
CONSTANTS
  None = None
  Size = 3
  Burst = 2
  MaxErrors = 2
  Raised = {"ACTIVATE", "EMERGENCY", "FAULT_CLEARED"}
INVARIANTS
  TypeOK
PROPERTIES
  ImplementsFifo
  StoppedUntilReleased
  ErrorsStop
  EventsHandled
