SPECIFICATION Spec
CONSTANTS
  p1 = p1
  p2 = p2
  Proc <- Uno
  TABLAS = 1
  ENTRADAS = 2
  MARCOS = 2
  Algoritmos <- LosDos
  Valor <- SoloCero
  Accesibles <- Tres
  GRADO = 1
  ENTRADAS_TLB = 2
  AlgoritmoTlb = "LRU"
  MaxEscrituras = 1
  Puntual = FALSE
INVARIANTS MarcosCoherentes
PROPERTIES VictimaDeMenorClase
CHECK_DEADLOCK FALSE
