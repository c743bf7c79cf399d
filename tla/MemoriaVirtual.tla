--------------------------- MODULE MemoriaVirtual ---------------------------
(***************************************************************************)
(* The CPU, its TLB, Memory and what the Kernel asks of them: processes    *)
(* are admitted, dispatched, blocked, suspended, resumed and ended while   *)
(* the one in the CPU reads and writes its pages.                          *)
(*                                                                         *)
(* Memory serves the CPU and the Kernel from two sockets. The requests of  *)
(* the CPU wait for their answer, except HEADER_write, which is left in    *)
(* the socket; the Kernel's requests may overtake it.                      *)
(***************************************************************************)
EXTENDS Memoria

CONSTANTS
  Accesibles,     \* the pages the instructions name, of those a process may have
  GRADO,          \* GRADO_MULTIPROGRAMACION
  ENTRADAS_TLB,
  AlgoritmoTlb,   \* REEMPLAZO_TLB: "FIFO" or "LRU"
  MaxEscrituras,  \* bound of the writes left in the socket
  Puntual         \* whether sleeps of the Kernel outlast pending writes and keep their order

ASSUME SistemaAssumption ==
  /\ Accesibles \subseteq Local
  /\ GRADO \in 1..TABLAS
  /\ ENTRADAS_TLB \in Nat \ {0}
  /\ AlgoritmoTlb \in {"FIFO", "LRU"}
  /\ MaxEscrituras \in Nat \ {0}
  /\ Puntual \in BOOLEAN

VARIABLES
  proceso,           \* where the Kernel has each process
  temporizados,      \* the blocked processes whose timer runs, by the start of the block
  ultimoPIDSuspendido,
  pidProcesoEnExec,  \* the last process dispatched in the CPU
  cpu,               \* the access the CPU is doing for the process in execution
  tlb,               \* the translations of the TLB, in order of replacement
  escrituras,        \* HEADER_write requests in the socket, oldest first
  fuera              \* Memory wrote outside of its tables: what follows is undefined

kernel == <<proceso, temporizados, ultimoPIDSuspendido>>
varsCpu == <<pidProcesoEnExec, cpu, tlb, escrituras>>
vars == <<memoria, kernel, varsCpu, fuera, algoritmo>>

Ninguno == "ninguno"
EstadoProceso == {"nuevo", "listo", "ejecutando", "bloqueado", "suspendido", "terminado", "liberado"}
\* The processes that hold a permit of multiprogramming
Admitidos == {p \in Proc : proceso[p] \in {"listo", "ejecutando", "bloqueado", "terminado"}}

Tlb == INSTANCE ColaDeTraducciones WITH Paginas <- Local, Marcos <- Marco,
                                        orden <- tlb, algoritmo <- AlgoritmoTlb

EnReposo == [paso |-> "libre", indice |-> 0, pagina |-> 0, marco |-> 0, escribe |-> FALSE, valor |-> 0]
Ejecuta == {p \in Proc : proceso[p] = "ejecutando"}
EntreAccesos == cpu.paso \in {"libre", "leido"}

Init ==
  /\ InitMemoria
  /\ proceso = [p \in Proc |-> "nuevo"]
  /\ temporizados = << >>
  /\ ultimoPIDSuspendido = Ninguno
  /\ pidProcesoEnExec = Ninguno
  /\ cpu = EnReposo
  /\ tlb = << >>
  /\ escrituras = << >>
  /\ fuera = FALSE

-----------------------------------------------------------------------------
(* The Kernel                                                              *)
Pasar(p, de, a) == proceso[p] = de /\ proceso' = [proceso EXCEPT ![p] = a]

Admitir(p) ==
  /\ Cardinality(Admitidos) < GRADO
  /\ Pasar(p, "nuevo", "listo")
  /\ CrearProceso(p)
  /\ UNCHANGED <<temporizados, ultimoPIDSuspendido, varsCpu, fuera>>

\* Mutant: only another process flushes the TLB.
DespacharSinUltimo(p) ==
  /\ Ejecuta = {}
  /\ Pasar(p, "listo", "ejecutando")
  /\ pidProcesoEnExec' = p
  /\ tlb' = IF pidProcesoEnExec # p THEN << >> ELSE tlb
  /\ UNCHANGED <<memoria, temporizados, ultimoPIDSuspendido, cpu, escrituras, fuera>>

\* The header says whether p is the last process that was suspended.
Despachar(p) ==
  /\ Ejecuta = {}
  /\ Pasar(p, "listo", "ejecutando")
  /\ pidProcesoEnExec' = p
  /\ tlb' = IF ultimoPIDSuspendido = p \/ pidProcesoEnExec # p THEN << >> ELSE tlb
  /\ UNCHANGED <<memoria, temporizados, ultimoPIDSuspendido, cpu, escrituras, fuera>>

\* Between two accesses the process leaves the CPU: interrupted, or after I/O or EXIT.
Dejar(p, a) ==
  /\ EntreAccesos
  /\ Pasar(p, "ejecutando", a)
  /\ cpu' = EnReposo
  /\ UNCHANGED <<memoria, ultimoPIDSuspendido, pidProcesoEnExec, tlb, escrituras, fuera>>

Desalojar(p) == Dejar(p, "listo") /\ UNCHANGED temporizados
Bloquear(p) == Dejar(p, "bloqueado") /\ temporizados' = Append(temporizados, p)
Terminar(p) == Dejar(p, "terminado") /\ UNCHANGED temporizados

\* No write of p waits for Memory.
Atendido(p) ==
  TieneTabla(p) => \A k \in 1..Len(escrituras) : escrituras[k].marco \notin MarcosDe(TablaNivel1(p))

\* TIEMPO_MAXIMO_BLOQUEADO went by. The timers of the blocks that started earlier
\* went off before, if they keep their order.
Suspender(p) ==
  \E k \in 1..Len(temporizados) :
    /\ temporizados[k] = p
    /\ Puntual => Atendido(p)
    /\ Pasar(p, "bloqueado", "suspendido")
    /\ SuspenderProceso(p)
    /\ ultimoPIDSuspendido' = p
    /\ temporizados' = IF Puntual THEN SubSeq(temporizados, k + 1, Len(temporizados))
                                  ELSE RemoveAt(temporizados, k)
    /\ UNCHANGED <<varsCpu, fuera>>

\* Its timer, if it still runs, finds it unblocked and does nothing.
TerminarIO(p) ==
  /\ Pasar(p, "bloqueado", "listo")
  /\ \/ \E k \in 1..Len(temporizados) : temporizados[k] = p /\ temporizados' = RemoveAt(temporizados, k)
     \/ (\A k \in 1..Len(temporizados) : temporizados[k] # p) /\ UNCHANGED temporizados
  /\ UNCHANGED <<memoria, ultimoPIDSuspendido, varsCpu, fuera>>

\* Its I/O ended and there is a permit for it; Memory is not told.
Reanudar(p) ==
  /\ Cardinality(Admitidos) < GRADO
  /\ Pasar(p, "suspendido", "listo")
  /\ UNCHANGED <<memoria, temporizados, ultimoPIDSuspendido, varsCpu, fuera>>

Liberar(p) ==
  /\ Puntual => Atendido(p)
  /\ Pasar(p, "terminado", "liberado")
  /\ TerminarProceso(p)
  /\ UNCHANGED <<temporizados, ultimoPIDSuspendido, varsCpu, fuera>>

-----------------------------------------------------------------------------
(* The CPU (cpu/src/cpu_mem_client.c), for the process in execution. It    *)
(* waits for the answer of Memory, which serves its earlier writes first.  *)

\* READ, WRITE or the two accesses of COPY: tlb_get_marco.
CpuAcceder(l, escribe) ==
  /\ Ejecuta # {} /\ EntreAccesos
  /\ IF Tlb!Tiene(tlb, l)
     THEN /\ tlb' = Tlb!Referida(tlb, l, AlgoritmoTlb)
          /\ cpu' = [EnReposo EXCEPT !.paso = "acceso", !.indice = l, !.escribe = escribe,
                                     !.marco = Tlb!Traducida(tlb, l).marco]
     ELSE /\ cpu' = [EnReposo EXCEPT !.paso = "tabla", !.indice = l, !.escribe = escribe]
          /\ UNCHANGED tlb
  /\ UNCHANGED <<memoria, kernel, pidProcesoEnExec, escrituras, fuera>>

CpuPedirTabla ==
  /\ cpu.paso = "tabla" /\ escrituras = << >>
  /\ ObtenerTablaNivel2(pidProcesoEnExec)
  /\ cpu' = [cpu EXCEPT !.paso = "marco",
               !.pagina = PaginaDe(CHOOSE i \in Tablas : tabla1'[i].id = pidProcesoEnExec, cpu.indice)]
  /\ UNCHANGED <<kernel, pidProcesoEnExec, tlb, escrituras, fuera>>

CpuPedirMarco ==
  /\ cpu.paso = "marco" /\ escrituras = << >>
  /\ ObtenerMarco(cpu.pagina)
  /\ cpu' = [cpu EXCEPT !.paso = "acceso", !.pagina = 0, !.marco = MarcoObtenido(cpu.pagina)]
  /\ tlb' = Tlb!Registrada(tlb, [pagina |-> cpu.indice, marco |-> MarcoObtenido(cpu.pagina)])
  /\ UNCHANGED <<kernel, pidProcesoEnExec, escrituras, fuera>>

CpuLeer ==
  /\ cpu.paso = "acceso" /\ ~cpu.escribe /\ escrituras = << >>
  /\ marcos[cpu.marco].pagina # SinPagina
  /\ Leer(cpu.marco)
  /\ cpu' = [cpu EXCEPT !.paso = "leido", !.marco = 0, !.valor = ram[cpu.marco]]
  /\ UNCHANGED <<kernel, pidProcesoEnExec, tlb, escrituras, fuera>>

\* The value is an operand of WRITE, or what COPY read.
CpuEscribir(v) ==
  /\ cpu.paso = "acceso" /\ cpu.escribe /\ Len(escrituras) < MaxEscrituras
  /\ escrituras' = Append(escrituras, [marco |-> cpu.marco, valor |-> v])
  /\ cpu' = EnReposo
  /\ UNCHANGED <<memoria, kernel, pidProcesoEnExec, tlb, fuera>>

-----------------------------------------------------------------------------
(* Memory takes a write out of the socket.                                 *)
MemoriaEscribir ==
  /\ escrituras # << >>
  /\ marcos[Head(escrituras).marco].pagina # SinPagina
  /\ Escribir(Head(escrituras).marco, Head(escrituras).valor)
  /\ escrituras' = Tail(escrituras)
  /\ UNCHANGED <<kernel, pidProcesoEnExec, cpu, tlb, fuera>>

\* The frame has no page any more: __actualizar_pagina updates the entry -1.
MemoriaAccederFuera ==
  /\ \/ escrituras # << >> /\ marcos[Head(escrituras).marco].pagina = SinPagina
     \/ /\ cpu.paso = "acceso" /\ ~cpu.escribe /\ escrituras = << >>
        /\ marcos[cpu.marco].pagina = SinPagina
  /\ fuera' = TRUE
  /\ UNCHANGED <<memoria, kernel, varsCpu>>

Next ==
  /\ ~fuera
  /\ UNCHANGED algoritmo
  /\ \/ \E p \in Proc :
          Admitir(p) \/ Despachar(p) \/ Desalojar(p) \/ Bloquear(p) \/ Terminar(p)
            \/ Suspender(p) \/ TerminarIO(p) \/ Reanudar(p) \/ Liberar(p)
     \/ \E l \in Accesibles, escribe \in BOOLEAN : CpuAcceder(l, escribe)
     \/ CpuPedirTabla \/ CpuPedirMarco \/ CpuLeer
     \/ \E v \in Valor : CpuEscribir(v)
     \/ MemoriaEscribir \/ MemoriaAccederFuera

Spec == Init /\ [][Next]_vars

-----------------------------------------------------------------------------
(* Properties                                                              *)

\* A permit of the Kernel is as good as a table of Memory: the tables that are free
\* are enough for the permits that are free and for the suspended processes that
\* were resumed and will ask for theirs with their next access. So the Kernel is
\* never refused a table and despertar_proceso, which does not look, finds one.
TablasAlcanzan ==
  (GRADO - Cardinality(Admitidos)) + Cardinality({p \in Admitidos : EstaSuspendido(p)})
    <= Cardinality(TablasLibres)

\* The processes, the access of the CPU and what waits in the socket.
TypeOK ==
  /\ MemoriaTypeOK
  /\ proceso \in [Proc -> EstadoProceso]
  /\ pidProcesoEnExec \in Proc \union {Ninguno}
  /\ cpu \in [paso : {"libre", "tabla", "marco", "acceso", "leido"}, indice : Local,
             pagina : Pagina, marco : Marco, escribe : BOOLEAN, valor : Valor]
  /\ tlb \in Seq([pagina : Local, marco : Marco])
  /\ escrituras \in Seq([marco : Marco, valor : Valor])

\* Memory knows the processes the Kernel admitted, and no others.
Alojados ==
  \A p \in Proc :
    /\ proceso[p] \in {"nuevo", "liberado"} => ~TieneTabla(p) /\ ~EstaSuspendido(p)
    /\ proceso[p] = "suspendido" => EstaSuspendido(p)
    /\ p \in Admitidos => TieneTabla(p) \/ EstaSuspendido(p)
\* An access is of the process in execution, and the page it asks for is of its table.
AccesoEnCurso ==
  /\ Ejecuta \subseteq {pidProcesoEnExec}
  /\ ~EntreAccesos => pidProcesoEnExec \in Ejecuta
  /\ cpu.paso = "marco" => tabla1[TablaDe(cpu.pagina)].id = pidProcesoEnExec
\* The invariant MarcosCoherentes rests on; inductive.
IInv == TypeOK /\ UnAlojamiento /\ Alojados /\ AccesoEnCurso /\ MarcosCoherentes

\* Every translation in the TLB is the one Memory would give to the process in
\* execution: Memory never tells the CPU that it took a frame back.
TlbCoherente ==
  \A k \in 1..Len(tlb), p \in Ejecuta :
    /\ TieneTabla(p)
    /\ marcos[tlb[k].marco] = [enUso |-> TRUE, pagina |-> PaginaDe(TablaNivel1(p), tlb[k].pagina)]

\* A blocked process has at most one timer that runs, and timers go off in the order of the
\* blocks: the last one to block is the last one dispatched.
TimersEnOrden ==
  \A k \in 1..Len(temporizados) :
    /\ proceso[temporizados[k]] = "bloqueado"
    /\ \A j \in 1..Len(temporizados) : temporizados[j] = temporizados[k] => j = k
    /\ temporizados[k] = pidProcesoEnExec => k = Len(temporizados)
\* The frame f has the page l of the last process dispatched.
Traduce(f, l) ==
  /\ TieneTabla(pidProcesoEnExec)
  /\ marcos[f] = [enUso |-> TRUE, pagina |-> PaginaDe(TablaNivel1(pidProcesoEnExec), l)]
TlbDelUltimo == \A k \in 1..Len(tlb) : Traduce(tlb[k].marco, tlb[k].pagina)
\* A TLB that is not coherent is of a process that ended, or that was the last one to be
\* suspended: the dispatch that could use it flushes it.
TlbVencida ==
  \/ proceso[pidProcesoEnExec] = "liberado"
  \/ /\ proceso[pidProcesoEnExec] \in {"suspendido", "listo"}
     /\ ultimoPIDSuspendido = pidProcesoEnExec /\ temporizados = << >>
AccesoTraducido ==
  /\ cpu.paso = "marco" => Indice(cpu.pagina) = cpu.indice
  /\ cpu.paso = "acceso" => Traduce(cpu.marco, cpu.indice)
  /\ cpu.paso # "libre" => pidProcesoEnExec \in Ejecuta
  /\ cpu.paso = "libre" => cpu = EnReposo
\* The invariant TlbCoherente rests on, with IInv and Puntual.
TlbInv ==
  /\ temporizados \in Seq(Proc)
  /\ Len(tlb) <= ENTRADAS_TLB
  /\ TimersEnOrden
  /\ tlb # << >> => pidProcesoEnExec \in Proc /\ (TlbDelUltimo \/ TlbVencida)
  /\ AccesoTraducido

\* A page in memory that is not modified and is in swap too is the same in both; a table that
\* is free knows of no page in swap; and what is written later has a page to go to.
CopiasIguales ==
  /\ \A n \in Pagina :
       tabla2[n].presencia /\ ~tabla2[n].modificado /\ tabla2[n].enSwap =>
         ram[tabla2[n].marco] = swap[tabla1[TablaDe(n)].id][Indice(n)]
  /\ \A n \in Pagina : tabla1[TablaDe(n)].id = Libre => ~tabla2[n].enSwap
  /\ \A k \in 1..Len(escrituras) : marcos[escrituras[k].marco].enUso

\* The last write to f that is still in the socket, if any
Pendientes(f) == {k \in 1..Len(escrituras) : escrituras[k].marco = f}

\* What p would read in its page l, Indefinido if it never wrote it
Indefinido == -1
EnTabla(p, l) ==
  LET n == PaginaDe(TablaNivel1(p), l)
      f == tabla2[n].marco IN
  CASE tabla2[n].presencia /\ Pendientes(f) # {} -> escrituras[Max(Pendientes(f))].valor
    [] tabla2[n].presencia /\ Pendientes(f) = {} /\ (tabla2[n].modificado \/ tabla2[n].enSwap) -> ram[f]
    [] ~tabla2[n].presencia /\ tabla2[n].enSwap -> swap[p][l]
    [] OTHER -> Indefinido
Contenido(p, l) ==
  CASE EstaSuspendido(p) /\ l \in suspendidos[p] -> swap[p][l]
    [] TieneTabla(p) -> EnTabla(p, l)
    [] OTHER -> Indefinido

Almacen == INSTANCE AlmacenDePaginas WITH
  contenido <- [p \in Proc |-> [l \in Local |-> Contenido(p, l)]],
  pedido <- [estado |-> CASE cpu.paso = "libre" -> "nada" [] cpu.paso = "leido" -> "leido"
                          [] OTHER -> "pendiente",
             proc |-> IF cpu.paso = "libre" THEN CHOOSE p \in Proc : TRUE ELSE pidProcesoEnExec,
             pagina |-> cpu.indice, escribe |-> cpu.escribe, valor |-> cpu.valor],
  terminados <- {p \in Proc : proceso[p] = "liberado"}

\* The page the clock replaces is in the lowest class there is in its round. Clock:
\* not used, used. Clock-M: neither used nor modified, modified only, used only, both.
Clase(n) ==
  (IF tabla2[n].uso THEN 2 ELSE 0) + (IF algoritmo = "CLOCK-M" /\ tabla2[n].modificado THEN 1 ELSE 0)
VictimaDeMenorClase ==
  [][cpu.paso = "marco" /\ cpu'.paso = "acceso" =>
       \A n \in Pagina : tabla2[n].presencia /\ ~tabla2'[n].presencia =>
         \A f \in MarcosDe(TablaDe(n)) : Clase(n) <= Clase(marcos[f].pagina)]_vars

\* Through frames, swap, suspension and writes on their way, every process reads
\* what it wrote last and nobody else's writes.
ImplementaAlmacen == Almacen!Spec

=============================================================================
