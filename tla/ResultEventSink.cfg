SPECIFICATION Spec
CONSTANTS
  MaxEvents = 4
  MaxRuns = 2
INVARIANTS
  TypeOK
  TriedBeforeStop
PROPERTIES
  ImplementsChannel
  EventsAreTaken
CHECK_DEADLOCK FALSE
