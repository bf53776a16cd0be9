SPECIFICATION LoopsSpec
PROPERTIES LoopsCount
CHECK_DEADLOCK FALSE
