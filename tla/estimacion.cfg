SPECIFICATION Spec
CHECK_DEADLOCK FALSE
CONSTANTS
  Proc = {p1, p2}
  EstimacionInicial = 2
  AlfaNum = 1
  AlfaDen = 5
  MsPorSegundo = 2
  NsPorMs = 2
  Duracion = {1, 6}
  MaxRafagas = 2
  MaxTramos = 2
SYMMETRY Simetria
INVARIANTS EstimacionDeLaHistoria ErrorDeMedicion
PROPERTY SeEligeElMenor
