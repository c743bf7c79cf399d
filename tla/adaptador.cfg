SPECIFICATION AdaptadorFairSpec
CONSTANTS
  Hilo = {largo, libera}
  Cpu = Cpu
  Nadie = Nadie
  MaxEscrituras = 1
INVARIANTS RespuestaPropia
PROPERTIES LlamadasVuelven
