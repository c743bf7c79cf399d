SPECIFICATION FairSpec
CONSTANTS
  p1 = p1
  p2 = p2
  p3 = p3
  Proc <- Dos
  Programa <- ProgramaPermisos
  Excesivos <- Vacio
  GRADO = 2
  Algoritmo = "SRT"
  TiempoMaximoAlcanzable = TRUE
  Puntual = TRUE
INVARIANTS CaeSoloPorAvisoDeMas  GradoRespetado
PROPERTIES  ImplementaCiclo FinalizanSinAvisoDeMas
CHECK_DEADLOCK FALSE
