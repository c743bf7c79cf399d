SPECIFICATION Spec
CONSTANTS
  p1 = p1
  p2 = p2
  Proc <- Dos
  TABLAS = 1
  ENTRADAS = 2
  MARCOS = 1
  Algoritmos <- SoloClock
  Valor <- Bit
  Accesibles <- Puntas
  GRADO = 1
  ENTRADAS_TLB = 1
  AlgoritmoTlb = "LRU"
  MaxEscrituras = 1
  Puntual = TRUE
INVARIANTS TablasAlcanzan 
 
CHECK_DEADLOCK FALSE
