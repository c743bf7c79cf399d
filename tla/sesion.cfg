SPECIFICATION FairSpec
CONSTANTS
  c1 = c1
  c2 = c2
  c3 = c3
  Consola <- Dos
  Nadie = Nadie
  Grado = 2
  Rechazables <- Dos
  Mortales <- Una
CHECK_DEADLOCK FALSE
INVARIANTS  CuentaDeExit CuentaDePermisos
PROPERTIES ImplementaAtencion 
