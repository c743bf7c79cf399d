-------------------------------- MODULE Tlb --------------------------------
(***************************************************************************)
(* The TLB of the CPU (cpu/src/tlb.c): a fixed array of entries, a count   *)
(* of the free ones and a clock that stamps each registration and, under   *)
(* LRU, each reference. Its only user is the thread that executes          *)
(* instructions, which registers a page after a miss on it, and flushes    *)
(* when a process is dispatched.                                           *)
(***************************************************************************)
EXTENDS Integers, FiniteSetsExt, SequencesExt

CONSTANTS
  Paginas, Marcos,
  ENTRADAS_TLB,
  MaxInstante     \* bound of the clock, which in the code never goes back

ASSUME EntradasAssumption == ENTRADAS_TLB \in Nat \ {0} /\ MaxInstante \in Nat
ASSUME PaginasAssumption == Paginas \subseteq Nat /\ Marcos \subseteq Nat

VARIABLES
  entradas,                 \* the array of t_entrada_tlb
  cantidadEntradasLibres,
  ultimoInstanteDeTiempo,
  algoritmoReemplazo,       \* "FIFO" or "LRU"
  faltante,                 \* page the CPU is asking Memory for, after a miss
  despachado                \* a process was dispatched (pidProcesoEnExec # -1)

tlbVars == <<entradas, cantidadEntradasLibres, ultimoInstanteDeTiempo, algoritmoReemplazo,
             faltante, despachado>>

Indices == 0..(ENTRADAS_TLB - 1)
EntradaTlb == [numeroPagina : Paginas \union {-1, 0}, marco : Marcos \union {-1, 0},
               instanteDeTiempo : -1..MaxInstante]
Ninguna == -1

EsLibre(i) == entradas[i].numeroPagina = -1 /\ entradas[i].marco = -1
PrimerLibre == Min({i \in Indices : EsLibre(i)})
\* Mutant: the entry with the highest stamp.
MayorInstante ==
  Min({i \in Indices : \A j \in Indices :
         entradas[i].instanteDeTiempo >= entradas[j].instanteDeTiempo})
\* The counter after a registration
RestarSiHay == IF cantidadEntradasLibres > 0 THEN cantidadEntradasLibres - 1 ELSE cantidadEntradasLibres
\* The first of the entries with the lowest stamp.
MenorInstante ==
  Min({i \in Indices : \A j \in Indices :
         entradas[i].instanteDeTiempo <= entradas[j].instanteDeTiempo})

\* tlb_create leaves the entries as calloc does, on page 0 and frame 0.
TlbInit ==
  /\ entradas = [i \in Indices |-> [numeroPagina |-> 0, marco |-> 0, instanteDeTiempo |-> 0]]
  /\ cantidadEntradasLibres = ENTRADAS_TLB
  /\ ultimoInstanteDeTiempo = 0
  /\ algoritmoReemplazo \in {"FIFO", "LRU"}
  /\ faltante = Ninguna
  /\ despachado = FALSE

\* Mutant: the counter is not reset.
FlushSinContador ==
  /\ faltante = Ninguna
  /\ entradas' = [i \in Indices |->
                    [numeroPagina |-> -1, marco |-> -1, instanteDeTiempo |-> -1]]
  /\ despachado' = TRUE
  /\ UNCHANGED <<cantidadEntradasLibres, ultimoInstanteDeTiempo, algoritmoReemplazo, faltante>>

\* A dispatch of another process, or of the last one suspended. The first dispatch
\* is always one: no process has executed.
Flush ==
  /\ faltante = Ninguna
  /\ entradas' = [i \in Indices |->
                    [numeroPagina |-> -1, marco |-> -1, instanteDeTiempo |-> -1]]
  /\ cantidadEntradasLibres' = ENTRADAS_TLB
  /\ despachado' = TRUE
  /\ UNCHANGED <<ultimoInstanteDeTiempo, algoritmoReemplazo, faltante>>

\* tlb_get_marco finds p; actualizar_ultima_referencia is empty for FIFO.
Acertar(p) ==
  LET e == {i \in Indices : entradas[i].numeroPagina = p} IN
  /\ despachado /\ faltante = Ninguna
  /\ e # {}
  /\ IF algoritmoReemplazo = "LRU"
     THEN /\ ultimoInstanteDeTiempo < MaxInstante
          /\ entradas' = [entradas EXCEPT ![Min(e)].instanteDeTiempo = ultimoInstanteDeTiempo]
          /\ ultimoInstanteDeTiempo' = ultimoInstanteDeTiempo + 1
     ELSE UNCHANGED <<entradas, ultimoInstanteDeTiempo>>
  /\ UNCHANGED <<cantidadEntradasLibres, algoritmoReemplazo, faltante, despachado>>

\* tlb_get_marco does not find p: the CPU asks Memory for its frame.
Fallar(p) ==
  /\ despachado /\ faltante = Ninguna
  /\ ultimoInstanteDeTiempo < MaxInstante
  /\ \A i \in Indices : entradas[i].numeroPagina # p
  /\ faltante' = p
  /\ UNCHANGED <<entradas, cantidadEntradasLibres, ultimoInstanteDeTiempo, algoritmoReemplazo,
                 despachado>>

\* tlb_registrar_entrada_en_tlb with the frame f that Memory answered
Registrar(f) ==
  LET hayLibre == cantidadEntradasLibres > 0
      indiceEntrada == IF hayLibre THEN PrimerLibre ELSE MenorInstante IN
  /\ faltante # Ninguna
  /\ entradas' = [entradas EXCEPT ![indiceEntrada] =
                    [numeroPagina |-> faltante, marco |-> f,
                     instanteDeTiempo |-> ultimoInstanteDeTiempo]]
  /\ cantidadEntradasLibres' = RestarSiHay
  /\ ultimoInstanteDeTiempo' = ultimoInstanteDeTiempo + 1
  /\ faltante' = Ninguna
  /\ UNCHANGED <<algoritmoReemplazo, despachado>>

TlbNext ==
  \/ Flush
  \/ \E p \in Paginas : Acertar(p) \/ Fallar(p)
  \/ \E f \in Marcos : Registrar(f)

TlbSpec == TlbInit /\ [][TlbNext]_tlbVars

-----------------------------------------------------------------------------
(* Properties                                                              *)

\* The entries hold pages, frames and stamps, and the counter stays in the array.
TlbTypeOK ==
  /\ entradas \in [Indices -> EntradaTlb]
  /\ cantidadEntradasLibres \in 0..ENTRADAS_TLB
  /\ ultimoInstanteDeTiempo \in 0..MaxInstante
  /\ algoritmoReemplazo \in {"FIFO", "LRU"}
  /\ faltante \in Paginas \union {Ninguna}
  /\ despachado \in BOOLEAN

\* The counter of free entries agrees with the array, however hits, registrations,
\* replacements and flushes alternate: tlb_registrar_entrada_en_tlb never writes at
\* the index -1 that __obtener_primer_entrada_libre answers when there is none.
LibresAlDia ==
  despachado => cantidadEntradasLibres = Cardinality({i \in Indices : EsLibre(i)})

\* The translations of the entries S of e by their stamps, oldest first: the k-th has k - 1
\* older ones.
PorInstante(S, e) ==
  [k \in 1..Cardinality(S) |->
     LET i == CHOOSE i \in S :
                Cardinality({j \in S : e[j].instanteDeTiempo < e[i].instanteDeTiempo}) = k - 1
     IN [pagina |-> e[i].numeroPagina, marco |-> e[i].marco]]

Ocupadas == {i \in Indices : despachado /\ ~EsLibre(i)}
OrdenDeReemplazo == PorInstante(Ocupadas, entradas)

Cola == INSTANCE ColaDeTraducciones WITH orden <- OrdenDeReemplazo,
                                         algoritmo <- algoritmoReemplazo

\* The stamps, which survive flushes and are shared by registrations and references,
\* implement the order of replacement of the algorithm: the array replaces the least
\* recently registered (FIFO) or used (LRU) page and never holds a page twice.
ImplementaCola == Cola!Spec

\* What it takes: occupied entries differ in their pages and in their stamps, which are
\* behind the clock, and the page the CPU is asking for is not in the array.
Vigentes ==
  /\ \A i \in Ocupadas : /\ entradas[i].numeroPagina \in Paginas /\ entradas[i].marco \in Marcos
                         /\ entradas[i].instanteDeTiempo \in 0..(ultimoInstanteDeTiempo - 1)
  /\ \A i, j \in Ocupadas :
       i # j => /\ entradas[i].numeroPagina # entradas[j].numeroPagina
                /\ entradas[i].instanteDeTiempo # entradas[j].instanteDeTiempo
  /\ faltante # Ninguna => \A i \in Ocupadas : entradas[i].numeroPagina # faltante

=============================================================================
