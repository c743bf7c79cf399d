------------------------------ MODULE Memoria ------------------------------
(***************************************************************************)
(* The Memory process (memoria/src): the two levels of page tables, the    *)
(* frames of each first level table, the main memory, the swap files and   *)
(* the table of suspended processes, with what each request of the CPU     *)
(* and of the Kernel does to them. The two threads that serve requests     *)
(* hold mutexMemoriaData during a request, so a request is one step.       *)
(*                                                                         *)
(* Pages are numbered over all the tables: the entry j of the second level *)
(* table n is the page n * ENTRADAS + j, and the i-th first level table    *)
(* owns the second level tables i * ENTRADAS .. (i + 1) * ENTRADAS - 1 and *)
(* the frames i * MARCOS .. (i + 1) * MARCOS - 1. A page holds one value.  *)
(***************************************************************************)
EXTENDS Integers, FiniteSetsExt, SequencesExt

CONSTANTS
  Proc,       \* the processes; each one stands for the number of its first level table
  TABLAS,     \* cantidadProcesosMax
  ENTRADAS,   \* ENTRADAS_POR_TABLA
  MARCOS,     \* MARCOS_POR_PROCESO
  Algoritmos, \* the values of ALGORITMO_REEMPLAZO considered, "CLOCK" and "CLOCK-M"
  Valor       \* what a page may hold; 0 is what Memory clears it with

ASSUME TamaniosAssumption ==
  TABLAS \in Nat \ {0} /\ ENTRADAS \in Nat \ {0} /\ MARCOS \in Nat \ {0}
ASSUME ProcAssumption == "libre" \notin Proc
ASSUME AlgoritmosAssumption == Algoritmos \subseteq {"CLOCK", "CLOCK-M"}
ASSUME ValorAssumption == Valor \subseteq Nat /\ 0 \in Valor

VARIABLES
  tabla1,       \* tablasDeNivel1: the process that has each one, if any, and its pointer
  tabla2,       \* the entries of tablasDeNivel2, by page
  marcos,       \* marcos: whether each frame is in use and the page it has
  ram,          \* memoriaPrincipal, by frame
  swap,         \* the swap file of each process, by page of the process
  suspendidos,  \* tablaSuspendidos: for each process in it, its pages in swap
  algoritmo     \* seleccionar_victima, set once from ALGORITMO_REEMPLAZO

memoria == <<tabla1, tabla2, marcos, ram, swap, suspendidos>>

Libre == "libre"
Tablas == 0..(TABLAS - 1)
Local == 0..(ENTRADAS * ENTRADAS - 1)
Pagina == 0..(TABLAS * ENTRADAS * ENTRADAS - 1)
Marco == 0..(TABLAS * MARCOS - 1)
SinPagina == -1

\* obtener_indice, and the first level table a page belongs to
Indice(pagina) == pagina % (ENTRADAS * ENTRADAS)
TablaDe(pagina) == pagina \div (ENTRADAS * ENTRADAS)
\* The page l of the process that has the table i: its second level table is the
\* entry l \div ENTRADAS of i, and its entry there is l % ENTRADAS.
PaginaDe(i, l) == (i * ENTRADAS + (l \div ENTRADAS)) * ENTRADAS + (l % ENTRADAS)
PaginasDe(i) == {PaginaDe(i, l) : l \in Local}
PrimerMarco(i) == i * MARCOS
MarcosDe(i) == PrimerMarco(i)..(PrimerMarco(i) + MARCOS - 1)

TieneTabla(p) == \E i \in Tablas : tabla1[i].id = p
TablaNivel1(p) == CHOOSE i \in Tablas : tabla1[i].id = p
TablasLibres == {i \in Tablas : tabla1[i].id = Libre}
MarcosLibres(i) == {f \in MarcosDe(i) : ~marcos[f].enUso}
EstaSuspendido(p) == p \in DOMAIN suspendidos

EntradaVacia == [marco |-> -1, presencia |-> FALSE, uso |-> FALSE,
                 modificado |-> FALSE, enSwap |-> FALSE]
EntradaNivel2 == [marco : Marco \union {-1}, presencia : BOOLEAN, uso : BOOLEAN,
                  modificado : BOOLEAN, enSwap : BOOLEAN]

InitMemoria ==
  /\ tabla1 = [i \in Tablas |-> [id |-> Libre, puntero |-> 0]]
  /\ tabla2 = [n \in Pagina |-> EntradaVacia]
  /\ marcos = [f \in Marco |-> [enUso |-> FALSE, pagina |-> SinPagina]]
  /\ ram = [f \in Marco |-> 0]
  /\ swap = [p \in Proc |-> [l \in Local |-> 0]]
  /\ suspendidos = << >>
  /\ algoritmo \in Algoritmos

-----------------------------------------------------------------------------
(* Requests of the Kernel                                                  *)

\* HEADER_solicitud_tabla_paginas: the first free table, and a swap file of zeros
CrearProceso(p) ==
  /\ TablasLibres # {}
  /\ tabla1' = [tabla1 EXCEPT ![Min(TablasLibres)].id = p]
  /\ swap' = [swap EXCEPT ![p] = [l \in Local |-> 0]]
  /\ UNCHANGED <<tabla2, marcos, ram, suspendidos>>

\* Mutant: the table keeps its owner.
LimpiarTablasSinId(i) ==
  /\ tabla1' = [tabla1 EXCEPT ![i].puntero = 0]
  /\ tabla2' = [n \in Pagina |-> IF n \in PaginasDe(i) THEN EntradaVacia ELSE tabla2[n]]
  /\ marcos' = [f \in Marco |-> IF f \in MarcosDe(i) THEN [enUso |-> FALSE, pagina |-> SinPagina]
                                                     ELSE marcos[f]]
\* limpiar_tabla_nivel_1 and limpiar_tabla_nivel_2 of all its entries
LimpiarTablas(i) ==
  /\ tabla1' = [tabla1 EXCEPT ![i] = [id |-> Libre, puntero |-> 0]]
  /\ tabla2' = [n \in Pagina |-> IF n \in PaginasDe(i) THEN EntradaVacia ELSE tabla2[n]]
  /\ marcos' = [f \in Marco |-> IF f \in MarcosDe(i) THEN [enUso |-> FALSE, pagina |-> SinPagina]
                                                     ELSE marcos[f]]

\* The pages of a process that will be in swap once it is suspended, given its entries
PaginasEnSwap(e) == {l \in Local : e[l].enSwap \/ (e[l].presencia /\ e[l].modificado)}

\* suspender_proceso: the modified pages in memory go to swap, the frames that had
\* a page are cleared and the tables are given up.
SuspenderAlojado(p) ==
  LET i == TablaNivel1(p)
      e == [l \in Local |-> tabla2[PaginaDe(i, l)]]
      escritas == {l \in Local : e[l].presencia /\ e[l].modificado} IN
  /\ ~EstaSuspendido(p)
  /\ swap' = [swap EXCEPT ![p] = [l \in Local |-> IF l \in escritas THEN ram[e[l].marco] ELSE @[l]]]
  /\ ram' = [f \in Marco |-> IF \E l \in Local : e[l].presencia /\ e[l].marco = f THEN 0 ELSE ram[f]]
  /\ suspendidos' = [q \in DOMAIN suspendidos \union {p} |->
                       IF q = p THEN PaginasEnSwap(e) ELSE suspendidos[q]]
  /\ LimpiarTablas(i)

\* HEADER_proceso_suspendido: nothing to do if it is already suspended.
SuspenderProceso(p) ==
  \/ SuspenderAlojado(p)
  \/ EstaSuspendido(p) /\ UNCHANGED memoria

\* HEADER_proceso_terminado: its swap file is removed.
TerminarProceso(p) ==
  /\ swap' = [swap EXCEPT ![p] = [l \in Local |-> 0]]
  /\ UNCHANGED ram
  /\ IF EstaSuspendido(p)
     THEN /\ suspendidos' = [q \in DOMAIN suspendidos \ {p} |-> suspendidos[q]]
          /\ UNCHANGED <<tabla1, tabla2, marcos>>
     ELSE LimpiarTablas(TablaNivel1(p)) /\ UNCHANGED suspendidos

-----------------------------------------------------------------------------
(* Requests of the CPU                                                     *)

\* despertar_proceso: the first free table, and which of its pages are in swap
DespertarProceso(p) ==
  LET i == Min(TablasLibres) IN
  /\ EstaSuspendido(p)
  /\ TablasLibres # {}
  /\ tabla1' = [tabla1 EXCEPT ![i].id = p]
  /\ tabla2' = [n \in Pagina |-> IF n \in PaginasDe(i) /\ Indice(n) \in suspendidos[p]
                                 THEN [tabla2[n] EXCEPT !.enSwap = TRUE] ELSE tabla2[n]]
  /\ suspendidos' = [q \in DOMAIN suspendidos \ {p} |-> suspendidos[q]]
  /\ UNCHANGED <<marcos, ram, swap>>

\* HEADER_tabla_nivel_2: a process without table is taken to be suspended.
ObtenerTablaNivel2(p) ==
  \/ TieneTabla(p) /\ UNCHANGED memoria
  \/ ~TieneTabla(p) /\ DespertarProceso(p)

\* The pages of the frames of i, from the one the pointer is on; from the first
\* frame if none of them is.
Ronda(i) ==
  LET pagina(k) == marcos[PrimerMarco(i) + k].pagina
      enPuntero == {k \in 0..(MARCOS - 1) : Indice(pagina(k)) = tabla1[i].puntero}
      desde == IF enPuntero = {} THEN 0 ELSE Max(enPuntero)
  IN [k \in 1..MARCOS |-> pagina((desde + k - 1) % MARCOS)]

\* The position in the round where the pointer is left when k is chosen
Siguiente(k) == (k % MARCOS) + 1

\* The victim is the one at position en of the round, once the bit of use of the
\* positions in visitadas is cleared.
Eleccion(en, visitadas) == [en |-> en, visitadas |-> visitadas]

\* seleccionar_victima_clock: the first page with the bit of use off, or the first
\* of all in the second round.
Clock(ronda) ==
  LET sinUso == {k \in 1..MARCOS : ~tabla2[ronda[k]].uso} IN
  IF sinUso # {} THEN Eleccion(Min(sinUso), 1..(Min(sinUso) - 1))
                 ELSE Eleccion(1, 1..MARCOS)

\* Mutant: modified pages are not told apart.
ClockSinModificado(ronda) == Clock(ronda)

\* seleccionar_victima_clock_modificado: the first page neither used nor modified;
\* then the first one not used, clearing bits on the way; then the same again.
ClockModificado(ronda) ==
  LET sinUso == {k \in 1..MARCOS : ~tabla2[ronda[k]].uso}
      limpias == {k \in 1..MARCOS : ~tabla2[ronda[k]].modificado} IN
  CASE sinUso \intersect limpias # {} -> Eleccion(Min(sinUso \intersect limpias), {})
    [] sinUso \intersect limpias = {} /\ sinUso # {} ->
         Eleccion(Min(sinUso), 1..(Min(sinUso) - 1))
    [] sinUso = {} /\ limpias # {} -> Eleccion(Min(limpias), 1..MARCOS)
    [] OTHER -> Eleccion(1, 1..MARCOS)

SeleccionarVictima(ronda) ==
  IF algoritmo = "CLOCK" THEN Clock(ronda) ELSE ClockModificado(ronda)

\* swap_in: the entry of a page that was brought to the frame f, and the content of f
Cargada(n, f) == [marco |-> f, presencia |-> TRUE, uso |-> FALSE, modificado |-> FALSE,
                  enSwap |-> tabla2[n].enSwap]
\* Mutant: nothing is ever brought from swap.
CargarNada(n, f) == ram' = ram

\* Nothing is brought of a page that is not in swap: the frame stays as it was.
CargarEn(n, f) ==
  ram' = IF tabla2[n].enSwap
         THEN [ram EXCEPT ![f] = swap[tabla1[TablaDe(n)].id][Indice(n)]] ELSE ram

\* The frame that HEADER_marco answers for the page n, once the request is served
MarcoObtenido(n) == tabla2'[n].marco

ObtenerMarcoPresente(n) == tabla2[n].presencia /\ UNCHANGED memoria

ObtenerMarcoLibre(n) ==
  LET i == TablaDe(n)
      f == Min(MarcosLibres(i)) IN
  /\ ~tabla2[n].presencia
  /\ MarcosLibres(i) # {}
  /\ tabla1' = IF f = PrimerMarco(i) THEN [tabla1 EXCEPT ![i].puntero = Indice(n)] ELSE tabla1
  /\ marcos' = [marcos EXCEPT ![f] = [enUso |-> TRUE, pagina |-> n]]
  /\ tabla2' = [tabla2 EXCEPT ![n] = Cargada(n, f)]
  /\ CargarEn(n, f)
  /\ UNCHANGED <<swap, suspendidos>>

\* Mutant: the victim is still present.
DescargadaPresente(m, uso) == [tabla2[m] EXCEPT !.uso = uso, !.enSwap = @ \/ tabla2[m].modificado]

\* The entry of the victim, its bit of use being uso, once it is out (swap_out)
Descargada(m, uso) == [tabla2[m] EXCEPT !.presencia = FALSE, !.uso = uso,
                                        !.enSwap = @ \/ tabla2[m].modificado]

\* The victim's frame is taken (__swap_marco); its page goes to swap if modified.
ObtenerMarcoReemplazando(n) ==
  LET i == TablaDe(n)
      ronda == Ronda(i)
      eleccion == SeleccionarVictima(ronda)
      victima == ronda[eleccion.en]
      siguiente == ronda[Siguiente(eleccion.en)]
      f == tabla2[victima].marco
      sinUso == {ronda[k] : k \in eleccion.visitadas} IN
  /\ ~tabla2[n].presencia
  /\ MarcosLibres(i) = {}
  /\ tabla1' = [tabla1 EXCEPT ![i].puntero = Indice(siguiente)]
  /\ tabla2' = [m \in Pagina |->
                  CASE m = n -> Cargada(n, f)
                    [] m = victima -> Descargada(m, tabla2[m].uso /\ m \notin sinUso)
                    [] OTHER -> [tabla2[m] EXCEPT !.uso = @ /\ m \notin sinUso]]
  /\ marcos' = [marcos EXCEPT ![f] = [enUso |-> TRUE, pagina |-> n]]
  /\ swap' = IF tabla2[victima].modificado
             THEN [swap EXCEPT ![tabla1[i].id][Indice(victima)] = ram[f]] ELSE swap
  /\ CargarEn(n, f)
  /\ UNCHANGED suspendidos

\* HEADER_marco
ObtenerMarco(n) ==
  ObtenerMarcoPresente(n) \/ ObtenerMarcoLibre(n) \/ ObtenerMarcoReemplazando(n)

\* __actualizar_pagina: the bits are those of the page that is in the frame by now.
ActualizarPagina(f, esEscritura) ==
  tabla2' = [tabla2 EXCEPT ![marcos[f].pagina].uso = TRUE,
                           ![marcos[f].pagina].modificado = @ \/ esEscritura]

\* HEADER_read; the value at f is the answer.
Leer(f) ==
  /\ ActualizarPagina(f, FALSE)
  /\ UNCHANGED <<tabla1, marcos, ram, swap, suspendidos>>

\* HEADER_write, which has no answer
Escribir(f, v) ==
  /\ ram' = [ram EXCEPT ![f] = v]
  /\ ActualizarPagina(f, TRUE)
  /\ UNCHANGED <<tabla1, marcos, swap, suspendidos>>

-----------------------------------------------------------------------------
(* Properties                                                              *)

\* Each table, entry, frame, page and swap file has the shape the code gives it.
MemoriaTypeOK ==
  /\ tabla1 \in [Tablas -> [id : Proc \union {Libre}, puntero : Local]]
  /\ tabla2 \in [Pagina -> EntradaNivel2]
  /\ marcos \in [Marco -> [enUso : BOOLEAN, pagina : Pagina \union {SinPagina}]]
  /\ ram \in [Marco -> Valor]
  /\ swap \in [Proc -> [Local -> Valor]]
  /\ algoritmo \in Algoritmos
  /\ DOMAIN suspendidos \subseteq Proc
  /\ \A p \in DOMAIN suspendidos : suspendidos[p] \subseteq Local

\* The frames and the page tables say the same: a frame in use has a page that is
\* present in that frame, which is one of the frames of its own table, and a present
\* page is in the frame that has it. So no two pages, of one process or of two,
\* share a frame.
MarcosCoherentes ==
  /\ \A f \in Marco : marcos[f].enUso =>
       /\ marcos[f].pagina \in Pagina
       /\ tabla2[marcos[f].pagina].presencia /\ tabla2[marcos[f].pagina].marco = f
       /\ f \in MarcosDe(TablaDe(marcos[f].pagina))
  /\ \A n \in Pagina : tabla2[n].presencia =>
       /\ tabla1[TablaDe(n)].id # Libre
       /\ tabla2[n].marco \in Marco
       /\ marcos[tabla2[n].marco] = [enUso |-> TRUE, pagina |-> n]

\* A process is in one place: one table or the table of suspended ones.
UnAlojamiento ==
  /\ \A i, j \in Tablas : tabla1[i].id # Libre /\ tabla1[i].id = tabla1[j].id => i = j
  /\ \A p \in Proc : ~(TieneTabla(p) /\ EstaSuspendido(p))

=============================================================================
