SPECIFICATION Spec
CONSTANTS
  p1 = p1
  p2 = p2
  p3 = p3
  Proc <- Tres
  Programa <- ProgramaBreve
  Excesivos <- El3
  GRADO = 2
  Algoritmo = "FIFO"
  TiempoMaximoAlcanzable = TRUE
  Puntual = FALSE
INVARIANTS UnSoloDespacho ReadyConRespaldo LargoConRespaldo
CHECK_DEADLOCK FALSE
