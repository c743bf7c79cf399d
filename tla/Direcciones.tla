----------------------------- MODULE Direcciones -----------------------------
(***************************************************************************)
(* The arithmetic of addresses, byte by byte: how the CPU splits a logical *)
(* address (cpu/src/cpu_mem_client.c), how Memory numbers second level     *)
(* tables, pages and frames and goes back from a physical address to the   *)
(* entry of its page (memoria/src/tabla_nivel_1.c, tabla_nivel_2.c,        *)
(* marcos.c), and where in the swap file of the process each byte goes.    *)
(*                                                                         *)
(* Which page is the victim is module Memoria; here it is any page of the  *)
(* process in memory. A word is aligned and inside the pages the tables    *)
(* can hold, as in every script of consola/instrucciones-de-prueba.        *)
(***************************************************************************)
EXTENDS Integers, FiniteSets

CONSTANTS
  TamanioPagina,        \* TAM_PAGINA, in bytes
  TamanioPalabra,       \* sizeof(uint32_t), in bytes
  EntradasPorTabla,
  CantidadProcesosMax,
  MarcosPorProceso,
  Direccion,            \* logical addresses that programs use
  Valor                 \* words they write

ASSUME TamaniosAssumption ==
  /\ TamanioPagina \in Nat \ {0} /\ EntradasPorTabla \in Nat \ {0}
  /\ CantidadProcesosMax \in Nat /\ MarcosPorProceso \in Nat \ {0}
PaginasPorProceso == EntradasPorTabla * EntradasPorTabla
ASSUME PalabraAssumption == TamanioPalabra \in Nat \ {0} /\ TamanioPagina % TamanioPalabra = 0
ASSUME DireccionAssumption ==
  \A d \in Direccion : d \in 0..(TamanioPagina * PaginasPorProceso - 1) /\ d % TamanioPalabra = 0

Proceso == 0..(CantidadProcesosMax - 1)   \* the index of its first level table
Pagina == 0..(PaginasPorProceso - 1)      \* a page as its process numbers it
Marco == 0..(CantidadProcesosMax * MarcosPorProceso - 1)
Tabla2 == 0..(CantidadProcesosMax * EntradasPorTabla - 1)
Entrada2 == 0..(EntradasPorTabla - 1)

-----------------------------------------------------------------------------
(* The CPU: __cpu_obtener_marco.                                           *)

NumeroPagina(direccion) == direccion \div TamanioPagina
EntradaTablaNivel1(numeroPagina) == numeroPagina \div EntradasPorTabla
EntradaTablaNivel2(numeroPagina) == numeroPagina % EntradasPorTabla
Offset(direccion) == direccion - NumeroPagina(direccion) * TamanioPagina

(* Memory: the numbers given by crear_tablas_de_nivel_1.                   *)

NroTablaNivel2(i, entrada) == i * EntradasPorTabla + entrada
MarcosDe(i) == (i * MarcosPorProceso)..(i * MarcosPorProceso + MarcosPorProceso - 1)

(* And the ways back.                                                      *)

ObtenerPagina(tabla2, entrada) == tabla2 * EntradasPorTabla + entrada
ObtenerIndice(pagina) == pagina % PaginasPorProceso
\* Mutant: the remainder by the pages of a process is forgotten.
EntradaSinTabla(pagina) == (pagina % PaginasPorProceso) \div EntradasPorTabla
ObtenerEntrada(pagina) == (pagina % PaginasPorProceso) % EntradasPorTabla
\* Mutant: divided by the pages of a process.
TablaDelProceso(pagina) == pagina \div PaginasPorProceso
ObtenerTabla2(pagina) == pagina \div EntradasPorTabla
ObtenerTablaDeNivel2Pagina(pagina) ==
  NroTablaNivel2(pagina \div PaginasPorProceso, (pagina % PaginasPorProceso) \div EntradasPorTabla)

-----------------------------------------------------------------------------
VARIABLES
  presencia, modificado, enSwap,  \* the entries <<tabla2, entrada>> with each bit set
  indiceMarco,                    \* indiceMarco[e]: the last frame of the entry, -1 at first
  pagina,                         \* pagina[m]: the page of the whole memory in a frame, or -1
  principal,                      \* the bytes of memoriaPrincipal
  swap,                           \* swap[i]: the bytes of the file of each process
  espacio,                        \* espacio[i][d]: what the process wrote last at d (history)
  escritas                        \* <<i, n>>: pages written since they came to memory (history)
varsTablas == <<presencia, modificado, enSwap, indiceMarco, pagina>>
vars == <<varsTablas, principal, swap, espacio, escritas>>

Espacio == 0..(TamanioPagina * PaginasPorProceso - 1)
Entrada == Tabla2 \X Entrada2
Cero == <<0, 0>>    \* a byte of memory that was never written; <<v, k>> is byte k of the word v

Init ==
  /\ presencia = {} /\ modificado = {} /\ enSwap = {}
  /\ indiceMarco = [e \in Entrada |-> -1]
  /\ pagina = [m \in Marco |-> -1]
  /\ principal = [b \in 0..(Cardinality(Marco) * TamanioPagina - 1) |-> Cero]
  /\ swap = [i \in Proceso |-> [d \in Espacio |-> Cero]]
  /\ espacio = [i \in Proceso |-> [d \in Espacio |-> Cero]]
  /\ escritas = {}

\* The entry the CPU asks for: the second level table, by HEADER_tabla_nivel_2, and its entry.
EntradaDe(i, n) == <<NroTablaNivel2(i, EntradaTablaNivel1(n)), EntradaTablaNivel2(n)>>
\* The entry Memory updates: by the frame of the physical address and its page.
EntradaDePagina(p) == <<ObtenerTablaDeNivel2Pagina(p), ObtenerEntrada(p)>>

Libres(i) == {m \in MarcosDe(i) : pagina[m] = -1}

\* The bytes of a page: where they are in memory and in the file of its process.
EnMemoria(m) == (m * TamanioPagina)..(m * TamanioPagina + TamanioPagina - 1)
EnArchivo(e) ==
  LET base == TamanioPagina * ObtenerIndice(ObtenerPagina(e[1], e[2])) IN base..(base + TamanioPagina - 1)

\* Mutant: a page that already is in the file is not written again.
GuardadaUnaVez(i, e, m) ==
  IF e \notin modificado \/ e \in enSwap THEN swap[i]
  ELSE [d \in Espacio |->
         IF d \in EnArchivo(e)
         THEN principal[m * TamanioPagina + d - TamanioPagina * ObtenerIndice(ObtenerPagina(e[1], e[2]))]
         ELSE swap[i][d]]
\* swap_out: the file of process i after page e leaves frame m, if it was modified.
Guardada(i, e, m) ==
  IF e \notin modificado THEN swap[i]
  ELSE [d \in Espacio |->
         IF d \in EnArchivo(e)
         THEN principal[m * TamanioPagina + d - TamanioPagina * ObtenerIndice(ObtenerPagina(e[1], e[2]))]
         ELSE swap[i][d]]
\* swap_in: the memory after page e comes from file f to frame m, if it is in it.
Cargada(e, m, f, conSwap) ==
  IF e \notin conSwap THEN principal
  ELSE [b \in DOMAIN principal |->
         IF b \in EnMemoria(m)
         THEN f[TamanioPagina * ObtenerIndice(ObtenerPagina(e[1], e[2])) + b - m * TamanioPagina]
         ELSE principal[b]]

\* The victim is a page of the process; it comes as the page the process knows.
EntradaVictima(i, n) == <<NroTablaNivel2(i, n \div EntradasPorTabla), n % EntradasPorTabla>>

\* __obtener_marco when the page is not in memory: a free frame, the first, or a victim's.
Traer(i, n) ==
  LET e == EntradaDe(i, n) IN
  /\ e \notin presencia
  /\ IF Libres(i) # {}
     THEN \E m \in Libres(i) :
          /\ \A otro \in Libres(i) : m <= otro
          /\ presencia' = presencia \union {e}
          /\ modificado' = modificado \ {e}
          /\ UNCHANGED <<enSwap, swap>>
          /\ indiceMarco' = [indiceMarco EXCEPT ![e] = m]
          /\ pagina' = [pagina EXCEPT ![m] = ObtenerPagina(e[1], e[2])]
          /\ principal' = Cargada(e, m, swap[i], enSwap)
     ELSE \E v \in Pagina :
          LET fuera == EntradaVictima(i, v)  m == indiceMarco[fuera]  f == Guardada(i, fuera, m) IN
          /\ fuera \in presencia
          /\ presencia' = (presencia \ {fuera}) \union {e}
          /\ modificado' = modificado \ {e}
          /\ enSwap' = enSwap \union (IF fuera \in modificado THEN {fuera} ELSE {})
          /\ swap' = [swap EXCEPT ![i] = f]
          /\ indiceMarco' = [indiceMarco EXCEPT ![e] = m]
          /\ pagina' = [pagina EXCEPT ![m] = ObtenerPagina(e[1], e[2])]
          /\ principal' = Cargada(e, m, f, enSwap)
  /\ escritas' = escritas \ {<<i, n>>}
  /\ UNCHANGED espacio

Fisica(i, d) == indiceMarco[EntradaDe(i, NumeroPagina(d))] * TamanioPagina + Offset(d)
Palabra(b) == b..(b + TamanioPalabra - 1)

\* HEADER_write: the word, and the bit of the page that Memory finds in the frame.
Escribir(i, d, v) ==
  LET f == Fisica(i, d) IN
  /\ EntradaDe(i, NumeroPagina(d)) \in presencia
  /\ principal' = [b \in DOMAIN principal |-> IF b \in Palabra(f) THEN <<v, b - f>> ELSE principal[b]]
  /\ modificado' = modificado \union {EntradaDePagina(pagina[f \div TamanioPagina])}
  /\ espacio' = [espacio EXCEPT ![i] = [b \in Espacio |-> IF b \in Palabra(d) THEN <<v, b - d>> ELSE @[b]]]
  /\ escritas' = escritas \union {<<i, NumeroPagina(d)>>}
  /\ UNCHANGED <<presencia, enSwap, indiceMarco, pagina, swap>>

Next ==
  \E i \in Proceso :
    \/ \E d \in Direccion : Traer(i, NumeroPagina(d))
    \/ \E d \in Direccion, v \in Valor : Escribir(i, d, v)

Spec == Init /\ [][Next]_vars

-----------------------------------------------------------------------------
(* Properties.                                                             *)

\* Every byte a process wrote is where its address leads: in the frame of its page, or in its
\* file at the very address.
CadaByteEnSuLugar ==
  \A i \in Proceso, d \in Espacio :
    espacio[i][d] # Cero =>
      IF EntradaDe(i, NumeroPagina(d)) \in presencia
      THEN principal[Fisica(i, d)] = espacio[i][d]
      ELSE swap[i][d] = espacio[i][d]

\* The page that Memory finds for a physical address is the one the CPU means: the bit of a
\* page in memory says whether its process wrote it since it came.
ModificadoEsEscrita ==
  \A i \in Proceso, n \in Pagina :
    EntradaDe(i, n) \in presencia => (EntradaDe(i, n) \in modificado <=> <<i, n>> \in escritas)

\* Entries and frames name each other, and a process only has its own frames.
EntradaDeMarco(m) == <<ObtenerTabla2(pagina[m]), ObtenerEntrada(pagina[m])>>
MarcosPropios ==
  \A i \in Proceso, n \in Pagina :
    LET e == EntradaDe(i, n) IN
    e \in presencia => /\ indiceMarco[e] \in MarcosDe(i)
                       /\ pagina[indiceMarco[e]] = ObtenerPagina(e[1], e[2])
                       /\ EntradaDeMarco(indiceMarco[e]) = e

TypeOK ==
  /\ presencia \subseteq Entrada
  /\ indiceMarco \in [Entrada -> Marco \union {-1}]
  /\ pagina \in [Marco -> -1..(CantidadProcesosMax * PaginasPorProceso - 1)]
\* The inductive invariant of the tables.
IInv == TypeOK /\ MarcosPropios /\ ModificadoEsEscrita

\* And that of the bytes. A page that is out, or that nobody wrote since it came, has all that
\* was ever written in it in the file, and its entry says that it is there.
CopiasAlDia ==
  \A i \in Proceso, d \in Espacio :
    LET e == EntradaDe(i, NumeroPagina(d)) IN
    espacio[i][d] # Cero /\ (e \notin presencia \/ e \notin modificado) =>
      e \in enSwap /\ swap[i][d] = espacio[i][d]
MemoriasEnteras ==
  /\ DOMAIN principal = 0..(Cardinality(Marco) * TamanioPagina - 1)
  /\ DOMAIN swap = Proceso /\ DOMAIN espacio = Proceso
BytesInv == MemoriasEnteras /\ CadaByteEnSuLugar /\ CopiasAlDia

=============================================================================
