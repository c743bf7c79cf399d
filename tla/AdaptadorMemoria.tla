-------------------------- MODULE AdaptadorMemoria --------------------------
(***************************************************************************)
(* Who talks to Memory, and how the answers find their way back.           *)
(*                                                                         *)
(* Threads of the Kernel (long term, block timers, the one that frees      *)
(* PCBs) share one socket under mutexSocketMemoria (kernel/src/mem_        *)
(* adapter.c); the CPU has another one, with no mutex and with writes that *)
(* are not answered (cpu/src/cpu_mem_client.c). Memory has a thread per    *)
(* socket; it reads the header of a request outside mutexMemoriaData and   *)
(* the rest inside (memoria/src/atender_kernel.c and atender_cpu.c).       *)
(*                                                                         *)
(* What the requests do to Memory is in module Memoria.                    *)
(***************************************************************************)
EXTENDS Naturals, Sequences

CONSTANTS
  Hilo,           \* the threads of the Kernel that call the adapter
  Cpu,            \* the dispatch thread of the CPU
  Nadie,          \* no thread: the mutex is free
  MaxEscrituras   \* bound of the model: requests of the CPU in its socket

ASSUME HilosAssumption == Cpu \notin Hilo /\ Nadie \notin Hilo
ASSUME MaxEscriturasAssumption == MaxEscrituras \in Nat

Socket == {"kernel", "cpu"}
PedidoKernel == {"solicitud_tabla_paginas", "proceso_suspendido", "proceso_terminado"}
\* "lectura" stands for tabla_nivel_2, marco and read, which the CPU waits for.
PedidoCpu == {"lectura", "write"}
Pedido == PedidoKernel \union PedidoCpu

\* What Memory may answer, and nothing else is taken by who asked.
Respuestas(p) ==
  CASE p = "solicitud_tabla_paginas" -> {"tabla", "error"}
    [] p \in {"proceso_suspendido", "proceso_terminado"} -> {"ok_continue"}
    [] p = "lectura" -> {"valor"}
    [] p = "write" -> {}

Cliente == Hilo \union {Cpu}
Mensaje == [pedido : Pedido, de : Cliente]
Respuesta == [header : {"tabla", "error", "ok_continue", "valor"}, a : Mensaje]

VARIABLES
  en,                   \* en[c]: where a client stands
  pedido,               \* pedido[c]: its last request
  respondido,           \* respondido[h]: the request whose answer a thread of the Kernel took
  mutexSocketMemoria,
  ida, vuelta,          \* ida[s], vuelta[s]: the two directions of each socket
  memoria,              \* memoria[s]: where the thread of Memory for s stands
  actual,               \* actual[s]: the request it has
  mutexMemoriaData

varsClientes == <<en, pedido, respondido, mutexSocketMemoria>>
varsMemoria == <<memoria, actual, mutexMemoriaData>>
adaptadorVars == <<varsClientes, ida, vuelta, varsMemoria>>

Ninguno == [pedido |-> "write", de |-> Cpu]

AdaptadorInit ==
  /\ en = [c \in Cliente |-> "fuera"]
  /\ pedido = [c \in Cliente |-> "write"]
  /\ respondido = [h \in Hilo |-> Ninguno]
  /\ mutexSocketMemoria = Nadie
  /\ ida = [s \in Socket |-> << >>] /\ vuelta = [s \in Socket |-> << >>]
  /\ memoria = [s \in Socket |-> "recibir"]
  /\ actual = [s \in Socket |-> Ninguno]
  /\ mutexMemoriaData = "nadie"

-----------------------------------------------------------------------------
(* The Kernel: mem_adapter_obtener_tabla_pagina, mem_adapter_finalizar_    *)
(* proceso and mem_adapter_avisar_suspension.                              *)

Llamar(h) ==
  /\ en[h] = "fuera"
  /\ \E p \in PedidoKernel : pedido' = [pedido EXCEPT ![h] = p]
  /\ en' = [en EXCEPT ![h] = "tomar"]
  /\ UNCHANGED <<respondido, mutexSocketMemoria, ida, vuelta, varsMemoria>>

Tomar(h) ==
  /\ en[h] = "tomar"
  /\ mutexSocketMemoria = Nadie
  /\ mutexSocketMemoria' = h
  /\ en' = [en EXCEPT ![h] = "enviar"]
  /\ UNCHANGED <<pedido, respondido, ida, vuelta, varsMemoria>>

EnviarPedido(h) ==
  /\ en[h] = "enviar"
  /\ ida' = [ida EXCEPT !["kernel"] = Append(@, [pedido |-> pedido[h], de |-> h])]
  /\ en' = [en EXCEPT ![h] = "recibir"]
  /\ UNCHANGED <<pedido, respondido, mutexSocketMemoria, vuelta, varsMemoria>>

\* exit(-1) if the answer is none of those for this request.
RecibirRespuesta(h) ==
  LET r == Head(vuelta["kernel"]) IN
  /\ en[h] = "recibir"
  /\ vuelta["kernel"] # << >>
  /\ vuelta' = [vuelta EXCEPT !["kernel"] = Tail(@)]
  /\ respondido' = [respondido EXCEPT ![h] = r.a]
  /\ en' = [en EXCEPT ![h] = IF r.header \in Respuestas(pedido[h]) THEN "soltar" ELSE "caido"]
  /\ UNCHANGED <<pedido, mutexSocketMemoria, ida, varsMemoria>>

\* Mutant: the branch of an error returns without unlocking.
SoltarSinError(h) ==
  /\ en[h] = "soltar"
  /\ mutexSocketMemoria' \in
       IF pedido[h] = "solicitud_tabla_paginas" THEN {Nadie, h} ELSE {Nadie}
  /\ en' = [en EXCEPT ![h] = "fuera"]
  /\ UNCHANGED <<pedido, respondido, ida, vuelta, varsMemoria>>
Soltar(h) ==
  /\ en[h] = "soltar"
  /\ mutexSocketMemoria' = Nadie
  /\ en' = [en EXCEPT ![h] = "fuera"]
  /\ UNCHANGED <<pedido, respondido, ida, vuelta, varsMemoria>>

-----------------------------------------------------------------------------
(* The CPU: __cpu_solicitar_a_memoria, cpu_leer_en_memoria and             *)
(* cpu_escribir_en_memoria.                                                *)

CpuPedir(p) ==
  /\ en[Cpu] = "fuera"
  /\ Len(ida["cpu"]) < MaxEscrituras
  /\ pedido' = [pedido EXCEPT ![Cpu] = p]
  /\ ida' = [ida EXCEPT !["cpu"] = Append(@, [pedido |-> p, de |-> Cpu])]
  /\ en' = [en EXCEPT ![Cpu] = IF p = "write" THEN "fuera" ELSE "recibir"]
  /\ UNCHANGED <<respondido, mutexSocketMemoria, vuelta, varsMemoria>>

CpuRecibirRespuesta ==
  LET r == Head(vuelta["cpu"]) IN
  /\ en[Cpu] = "recibir"
  /\ vuelta["cpu"] # << >>
  /\ vuelta' = [vuelta EXCEPT !["cpu"] = Tail(@)]
  /\ en' = [en EXCEPT ![Cpu] = IF r.header \in Respuestas(pedido[Cpu]) THEN "fuera" ELSE "caido"]
  /\ UNCHANGED <<pedido, respondido, mutexSocketMemoria, ida, varsMemoria>>

-----------------------------------------------------------------------------
(* Memory: escuchar_peticiones_kernel and escuchar_peticiones_cpu.         *)

MemoriaRecibir(s) ==
  /\ memoria[s] = "recibir"
  /\ ida[s] # << >>
  /\ actual' = [actual EXCEPT ![s] = Head(ida[s])]
  /\ ida' = [ida EXCEPT ![s] = Tail(@)]
  /\ memoria' = [memoria EXCEPT ![s] = "tomar"]
  /\ UNCHANGED <<varsClientes, vuelta, mutexMemoriaData>>

MemoriaTomar(s) ==
  /\ memoria[s] = "tomar"
  /\ mutexMemoriaData = "nadie"
  /\ mutexMemoriaData' = s
  /\ memoria' = [memoria EXCEPT ![s] = "atender"]
  /\ UNCHANGED <<varsClientes, ida, vuelta, actual>>

\* Mutant: a write is answered too.
RespondeSiempre(p) == IF p = "write" THEN {"valor"} ELSE Respuestas(p)
Responde(p) == Respuestas(p)

MemoriaAtender(s) ==
  /\ memoria[s] = "atender"
  /\ IF Responde(actual[s].pedido) = {}
     THEN UNCHANGED vuelta
     ELSE \E header \in Responde(actual[s].pedido) :
            vuelta' = [vuelta EXCEPT ![s] = Append(@, [header |-> header, a |-> actual[s]])]
  /\ memoria' = [memoria EXCEPT ![s] = "soltar"]
  /\ UNCHANGED <<varsClientes, ida, actual, mutexMemoriaData>>

MemoriaSoltar(s) ==
  /\ memoria[s] = "soltar"
  /\ mutexMemoriaData' = "nadie"
  /\ memoria' = [memoria EXCEPT ![s] = "recibir"]
  /\ UNCHANGED <<varsClientes, ida, vuelta, actual>>

-----------------------------------------------------------------------------
Kernel(h) == Llamar(h) \/ Tomar(h) \/ EnviarPedido(h) \/ RecibirRespuesta(h) \/ Soltar(h)
ClienteCpu == (\E p \in PedidoCpu : CpuPedir(p)) \/ CpuRecibirRespuesta
Memoria(s) == MemoriaRecibir(s) \/ MemoriaTomar(s) \/ MemoriaAtender(s) \/ MemoriaSoltar(s)
AdaptadorNext == (\E h \in Hilo : Kernel(h)) \/ ClienteCpu \/ (\E s \in Socket : Memoria(s))

AdaptadorSpec == AdaptadorInit /\ [][AdaptadorNext]_adaptadorVars

\* Threads run, and a mutex that is free again and again is given in the end to each thread
\* that waits for it.
AdaptadorFairSpec ==
  /\ AdaptadorSpec
  /\ \A h \in Hilo : SF_adaptadorVars(Tomar(h)) /\ WF_adaptadorVars(EnviarPedido(h) \/ RecibirRespuesta(h) \/ Soltar(h))
  /\ WF_adaptadorVars(CpuRecibirRespuesta)
  /\ \A s \in Socket :
       SF_adaptadorVars(MemoriaTomar(s)) /\ WF_adaptadorVars(MemoriaRecibir(s) \/ MemoriaAtender(s) \/ MemoriaSoltar(s))

-----------------------------------------------------------------------------
(* Properties.                                                             *)

AdaptadorTypeOK ==
  /\ en \in [Cliente -> {"fuera", "tomar", "enviar", "recibir", "soltar", "caido"}]
  /\ pedido \in [Cliente -> Pedido]
  /\ respondido \in [Hilo -> Mensaje]
  /\ mutexSocketMemoria \in Hilo \union {Nadie}
  /\ ida \in [Socket -> Seq(Mensaje)]
  /\ vuelta \in [Socket -> Seq(Respuesta)]
  /\ memoria \in [Socket -> {"recibir", "tomar", "atender", "soltar"}]
  /\ actual \in [Socket -> Mensaje]
  /\ mutexMemoriaData \in Socket \union {"nadie"}

\* A message carries no name of who sent it: each thread takes the answer to its own request
\* all the same, so nobody ends for an answer it did not expect, and the CPU never takes for the
\* value it waits for the answer to a write.
RespuestaPropia ==
  /\ \A c \in Cliente : en[c] # "caido"
  /\ \A h \in Hilo : en[h] = "soltar" => respondido[h] = [pedido |-> pedido[h], de |-> h]
  /\ en[Cpu] = "recibir" /\ vuelta["cpu"] # << >> => vuelta["cpu"][1].a.pedido = "lectura"

\* Every call to the adapter returns, although Memory makes the Kernel wait for the CPU.
LlamadasVuelven == \A h \in Hilo : en[h] = "tomar" ~> en[h] = "fuera"

\* The threads of the Kernel never write in memory.
PedidosDelKernel == \A h \in Hilo : en[h] # "fuera" => pedido[h] \in PedidoKernel
\* Where the only request there is in the socket of the Kernel can be.
Conversando == mutexSocketMemoria # Nadie /\ en[mutexSocketMemoria] = "recibir"
Suyo(m) == m.de = mutexSocketMemoria /\ m.pedido = pedido[mutexSocketMemoria]
ConversacionKernel ==
  LET i == ida["kernel"] v == vuelta["kernel"] m == memoria["kernel"] IN
  IF Conversando
  THEN \/ i # << >> /\ Suyo(i[1]) /\ Len(i) = 1 /\ v = << >> /\ m \in {"recibir", "soltar"}
       \/ i = << >> /\ v = << >> /\ m \in {"tomar", "atender"} /\ Suyo(actual["kernel"])
       \/ /\ i = << >> /\ v # << >> /\ Len(v) = 1 /\ m \in {"recibir", "soltar"}
          /\ Suyo(v[1].a) /\ v[1].header \in Respuestas(v[1].a.pedido)
  ELSE i = << >> /\ v = << >> /\ m \in {"recibir", "soltar"}
Mutexes ==
  /\ \A h \in Hilo : en[h] \in {"enviar", "recibir", "soltar"} <=> mutexSocketMemoria = h
  /\ \A s \in Socket : memoria[s] \in {"atender", "soltar"} <=> mutexMemoriaData = s
\* The CPU waits for the last request it sent, and those before it are writes.
ConversacionCpu ==
  LET i == ida["cpu"] v == vuelta["cpu"] m == memoria["cpu"]
      esperada == en[Cpu] = "recibir"
  IN
  /\ en[Cpu] \in {"fuera", "recibir"}
  /\ esperada => pedido[Cpu] = "lectura"
  /\ \A k \in 1..Len(i) : i[k].pedido = IF esperada /\ k = Len(i) THEN "lectura" ELSE "write"
  /\ m \in {"tomar", "atender"} =>
       actual["cpu"].pedido = IF esperada /\ i = << >> THEN "lectura" ELSE "write"
  /\ v # << >> =>
       /\ esperada /\ Len(v) = 1 /\ i = << >> /\ m \in {"recibir", "soltar"}
       /\ v[1].header = "valor" /\ v[1].a = [pedido |-> "lectura", de |-> Cpu]
  /\ \A k \in 1..Len(i) : i[k].de = Cpu
  /\ actual["cpu"].de = Cpu
\* The inductive invariant.
AdaptadorIInv == AdaptadorTypeOK /\ PedidosDelKernel /\ Mutexes /\ ConversacionKernel /\ ConversacionCpu /\ RespuestaPropia

=============================================================================
