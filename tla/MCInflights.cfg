CONSTANTS
  Index <- Indexes
  Capacity <- Capacities
SPECIFICATION RingSpec
INVARIANTS RingIsSound FullIsExact
PROPERTIES ImplementsWindow
