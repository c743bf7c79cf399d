SPECIFICATION Spec
CONSTANTS
  TamanioPagina = 4
  TamanioPalabra = 2
  EntradasPorTabla = 2
  CantidadProcesosMax = 2
  MarcosPorProceso = 1
  Direccion = {6, 12}
  Valor = {1, 2}
INVARIANTS CadaByteEnSuLugar MarcosPropios ModificadoEsEscrita
