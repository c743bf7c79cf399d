SPECIFICATION FairSpec
CONSTANTS
  p1 = p1
  p2 = p2
  Proc <- Dos
  Programa <- ProgramaMixto
  Dir <- DosDir
  Basura <- CeroYUno
  Ninguno = Ninguno
INVARIANTS TlbPropia 
PROPERTIES CadaDespachoAvanza ImplementaMaquina
CHECK_DEADLOCK FALSE
