SPECIFICATION MuseSpec
CHECK_DEADLOCK FALSE
INVARIANTS
    SomeStreamKeepsItsOrder
