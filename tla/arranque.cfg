SPECIFICATION FairSpec
CONSTANTS
  Mortales <- CualquieraOTodos
  Muertes = 1
  Ocupados <- Nadie
  MaxConexiones = 8
INVARIANTS UnHiloPorRol ArranqueCompleto
PROPERTIES NadieSaleConectado TodosAtienden
CHECK_DEADLOCK FALSE
