SPECIFICATION FairSpec
CONSTANTS
  Guiones <- BuenosYMalos
  TodoJunto = TRUE
  MaxDespachos = 2
INVARIANTS IdaYVuelta
PROPERTIES Llega ColaDeDispatch
CHECK_DEADLOCK FALSE
