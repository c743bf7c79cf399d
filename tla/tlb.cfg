SPECIFICATION TlbSpec
CONSTANTS
  Paginas = {0, 1, 2}
  Marcos = {0, 1}
  ENTRADAS_TLB = 2
  MaxInstante = 8
INVARIANTS LibresAlDia
PROPERTIES ImplementaCola
