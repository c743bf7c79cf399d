---------------------------- MODULE Planificador ----------------------------
(***************************************************************************)
(* The scheduler of the Kernel process (kernel/src/scheduler.c): the       *)
(* threads that move a PCB between the state queues, the semaphores that   *)
(* pace them, and the two processes they talk to as this code sees them    *)
(* (the CPU, which answers a dispatch with the PCB it was running, and     *)
(* the Memory, which grants or refuses a first level page table).          *)
(*                                                                         *)
(* Grain of atomicity.  One action is the stretch of a thread's code that  *)
(* ends where another thread can see an intermediate state.  A sem_wait is *)
(* merged with what follows it and a sem_post with what precedes it:       *)
(* delaying the first and advancing the second never removes a behaviour.  *)
(* Two writes to shared data in a row are two actions.                     *)
(*                                                                         *)
(* Time.  A sleep (intervalo_de_pausa) ends at any moment, so delays of a  *)
(* thread of any length are covered; Puntual is the assumption under which *)
(* a sleep outlasts the straight-line code other threads are executing.    *)
(***************************************************************************)
EXTENDS Naturals, SequencesExt

CONSTANTS
  Proc,           \* the processes the consoles submit
  Programa,       \* Programa[p]: instructions of p, as far as the kernel can tell them apart
  Excesivos,      \* the processes larger than the maximum file size of Memory
  GRADO,          \* GRADO_MULTIPROGRAMACION
  Algoritmo,      \* ALGORITMO_PLANIFICACION: "FIFO" or "SRT"
  TiempoMaximoAlcanzable, \* whether a block may last TIEMPO_MAXIMO_BLOQUEADO
  Puntual         \* whether no sleep ends inside another thread's stretch of code

\* NO_OP stands for every instruction after which the CPU goes on (NO_OP, READ,
\* WRITE, COPY); IO_CORTA and IO_LARGA are I/O bursts of at most, and of more
\* than, TIEMPO_MAXIMO_BLOQUEADO.
Instruccion == {"NO_OP", "IO_CORTA", "IO_LARGA", "EXIT"}

Ninguno == "ninguno"

ASSUME AlgoritmoAssumption == Algoritmo \in {"FIFO", "SRT"}
ASSUME GradoAssumption == GRADO \in Nat \ {0}
ASSUME ProgramaAssumption ==
  /\ Programa \in [Proc -> Seq(Instruccion)]
  /\ \A p \in Proc :
       /\ Programa[p] # << >>
       /\ \A i \in 1..Len(Programa[p]) : Programa[p][i] = "EXIT" <=> i = Len(Programa[p])
ASSUME NingunoAssumption == Ninguno \notin Proc
ASSUME ModoAssumption ==
  Excesivos \subseteq Proc /\ TiempoMaximoAlcanzable \in BOOLEAN /\ Puntual \in BOOLEAN

VARIABLES
  cola,                \* cola[e]: the list of the state e (t_estado)
  sem,                 \* sem[s]: value of the semaphore s
  hilo,                \* hilo[t]: where the thread t stands
  enMano,              \* enMano[t]: the PCB in a local variable of the thread t
  pcb,                 \* pcb[p]: the fields of t_pcb the scheduler reads
  hayQueDesalojar,     \* a process became READY since the last evaluation
  ultimoPIDSuspendido,
  temporizador,        \* temporizador[<<p, k>>]: thread spawned by the I/O at index k of p
  cpu,                 \* the CPU process: the PCB it got and its answer, if any
  canalInterrupt,      \* interrupts sent and not yet taken by the CPU's interrupt thread
  enMemoria,           \* the processes for which Memory holds a page table
  caido                \* a NULL PCB was dereferenced: the Kernel died

vars == <<cola, sem, hilo, enMano, pcb, hayQueDesalojar, ultimoPIDSuspendido,
          temporizador, cpu, canalInterrupt, enMemoria, caido>>

Colas == {"NEW", "READY", "EXEC", "EXIT", "BLOCKED", "SUSPENDED_BLOCKED",
          "SUSPENDED_READY", "IO"}
Semaforos == {"READY", "EXEC", "EXIT", "IO", "hayPcbs", "gradoMultiprog",
              "dispatchPermitido", "transicionar"}
\* Threads that hold a PCB between two of their actions.
Hilos == {"largo", "mediano", "corto", "atender", "io"}
Temporizadores == UNION {{p} \X (1..Len(Programa[p])) : p \in Proc}

\* The values of estadoActual, plus NULL (not created) and LIBERADO (freed).
EstadoPcb == {"NULL", "NEW", "READY", "BLOCKED", "SUSPENDED_BLOCKED",
              "SUSPENDED_READY", "EXIT", "LIBERADO"}
TiempoBloqueo == {"cero", "corto", "largo"}
\* tiempoFinalBloqueado - tiempoInicialBloqueado against TIEMPO_MAXIMO_BLOQUEADO:
\* dentro: the wait and the burst fit in it; justo: the wait alone does;
\* excedido: not even the wait does.
Espera == {"dentro", "justo", "excedido"}

\* Where a thread stands: before its first semaphore ("esperar"), or at the stretch
\* of code the name says.
Lugares == {"esperar", "esperarGrado", "solicitarTabla", "avisarReady", "encolarReady",
            "despachar", "esperarCpu", "devolverReady", "encolarExit", "encolarIO",
            "marcarBlocked", "encolarBlocked", "dormir", "avisarLargo"}
Pcb == [estado : EstadoPcb, programCounter : Nat, tiempoDeBloqueo : TiempoBloqueo,
        vecesBloqueado : Nat, finalEstablecido : BOOLEAN, espera : Espera]
Reloj == [en : {"noCreado", "inicio", "dormir", "remover", "marcarFinal", "suspender", "fin"},
          vez : Nat]
EstadoCpu == [proc : Proc \union {Ninguno}, programCounter : Nat, ultimoSuspendido : BOOLEAN,
              hayInterrupcion : BOOLEAN,
              respuesta : {Ninguno, "desalojado", "terminado", "bloqueado"}]

Post(s) == [sem EXCEPT ![s] = @ + 1]
Wait(s) == [sem EXCEPT ![s] = @ - 1]
\* The thread t stands at l; a Kernel that died takes no step.
En(t, l) == ~caido /\ hilo[t] = l
TemporizadorEn(t, l) == ~caido /\ temporizador[t].en = l
Ir(t, l) == [hilo EXCEPT ![t] = l]

EncolarPcb(e, p) == [cola EXCEPT ![e] = Append(@, p)]
DesencolarPrimero(e) == [cola EXCEPT ![e] = Tail(@)]
ContienePcb(e, p) == \E i \in 1..Len(cola[e]) : cola[e][i] = p
\* Mutant: nothing is removed.
RemoverNada(e, p) == cola[e]
\* The list of e without p, if p is there. Only BLOCKED and SUSPENDED_BLOCKED lose
\* elements this way, and nobody looks at the order of those two.
RemoverPcb(e, p) ==
  IF ContienePcb(e, p)
  THEN RemoveAt(cola[e], CHOOSE i \in 1..Len(cola[e]) : cola[e][i] = p)
  ELSE cola[e]
MoverPcb(e, f, p) ==
  [cola EXCEPT ![e] = RemoverPcb(e, p), ![f] = Append(@, p)]

\* The mutex of a PCB is held across actions only by the I/O device.
MutexLibre(p) == ~(hilo["io"] \in {"avisarReady", "avisarLargo"} /\ enMano["io"] = p)

\* Reading or writing a PCB that was freed is undefined: it may bring the Kernel down.
Tocar(p) == caido' \in (IF pcb[p].estado = "LIBERADO" THEN BOOLEAN ELSE {FALSE})

\* pcb_test_and_set_tiempo_final_bloqueado, e being the wait as of now
TestAndSetTiempoFinal(p, e) ==
  IF pcb[p].finalEstablecido THEN pcb
  ELSE [pcb EXCEPT ![p].finalEstablecido = TRUE, ![p].espera = e]

-----------------------------------------------------------------------------
Init ==
  /\ cola = [e \in Colas |-> << >>]
  /\ sem = [s \in Semaforos |-> CASE s = "gradoMultiprog" -> GRADO
                                  [] s = "dispatchPermitido" -> 1
                                  [] OTHER -> 0]
  /\ hilo = [t \in Hilos |-> "esperar"]
  /\ enMano = [t \in Hilos |-> Ninguno]
  /\ pcb = [p \in Proc |-> [estado |-> "NULL", programCounter |-> 0,
                            tiempoDeBloqueo |-> "cero", vecesBloqueado |-> 0,
                            finalEstablecido |-> FALSE, espera |-> "dentro"]]
  /\ hayQueDesalojar = FALSE
  /\ ultimoPIDSuspendido = Ninguno
  /\ temporizador = [t \in Temporizadores |-> [en |-> "noCreado", vez |-> 0]]
  /\ cpu = [proc |-> Ninguno, programCounter |-> 0, ultimoSuspendido |-> FALSE,
            respuesta |-> Ninguno, hayInterrupcion |-> FALSE]
  /\ canalInterrupt = 0
  /\ enMemoria = {}
  /\ caido = FALSE

pares == <<cpu, canalInterrupt, enMemoria>>
-----------------------------------------------------------------------------
(* encolar_en_new_a_nuevo_pcb_entrante: a console submitted p.             *)
EncolarEnNew(p) ==
  /\ ~caido
  /\ pcb[p].estado = "NULL"
  /\ pcb' = [pcb EXCEPT ![p].estado = "NEW"]
  /\ cola' = EncolarPcb("NEW", p)
  /\ sem' = Post("hayPcbs")
  /\ UNCHANGED <<hilo, enMano, hayQueDesalojar, ultimoPIDSuspendido, temporizador, pares, caido>>

-----------------------------------------------------------------------------
(* __planificador_largo_plazo                                              *)

LargoTomarPcb ==
  /\ En("largo", "esperar")
  /\ sem["hayPcbs"] > 0
  /\ sem' = Wait("hayPcbs")
  /\ hilo' = Ir("largo", "esperarGrado")
  /\ UNCHANGED <<cola, enMano, pcb, hayQueDesalojar, ultimoPIDSuspendido, temporizador, pares, caido>>

\* Mutants: the permit is not taken; the thread goes on with the request it passed on.
LargoTransicionarSinPermiso ==
  /\ En("largo", "esperarGrado")
  /\ cola["SUSPENDED_READY"] # << >>
  /\ sem' = Post("transicionar")
  /\ hilo' = Ir("largo", "esperar")
  /\ UNCHANGED <<cola, enMano, pcb, hayQueDesalojar, ultimoPIDSuspendido, temporizador, pares, caido>>
LargoTransicionarYSeguir ==
  /\ En("largo", "esperarGrado")
  /\ sem["gradoMultiprog"] > 0
  /\ cola["SUSPENDED_READY"] # << >>
  /\ sem' = [sem EXCEPT !["gradoMultiprog"] = @ - 1, !["transicionar"] = @ + 1]
  /\ UNCHANGED <<hilo, cola, enMano, pcb, hayQueDesalojar, ultimoPIDSuspendido, temporizador, pares,
                 caido>>

\* A suspended process has priority: its return is left to the medium term thread.
LargoTransicionarSusready ==
  /\ En("largo", "esperarGrado")
  /\ sem["gradoMultiprog"] > 0
  /\ cola["SUSPENDED_READY"] # << >>
  /\ sem' = [sem EXCEPT !["gradoMultiprog"] = @ - 1, !["transicionar"] = @ + 1]
  /\ hilo' = Ir("largo", "esperar")
  /\ UNCHANGED <<cola, enMano, pcb, hayQueDesalojar, ultimoPIDSuspendido, temporizador, pares, caido>>

LargoTomarNew ==
  /\ En("largo", "esperarGrado")
  /\ sem["gradoMultiprog"] > 0
  /\ cola["SUSPENDED_READY"] = << >>
  /\ sem' = Wait("gradoMultiprog")
  /\ enMano' = [enMano EXCEPT !["largo"] = Head(cola["NEW"])]
  /\ cola' = DesencolarPrimero("NEW")
  /\ hilo' = Ir("largo", "solicitarTabla")
  /\ UNCHANGED <<pcb, hayQueDesalojar, ultimoPIDSuspendido, temporizador, pares, caido>>

\* Memory refused the process (__responder_memoria_insuficiente): it goes to the
\* EXIT list and no semaphore is posted.
LargoRechazar ==
  /\ En("largo", "solicitarTabla")
  /\ enMano["largo"] \in Excesivos
  /\ cola' = EncolarPcb("EXIT", enMano["largo"])
  /\ enMano' = [enMano EXCEPT !["largo"] = Ninguno]
  /\ hilo' = Ir("largo", "esperar")
  /\ UNCHANGED <<sem, pcb, hayQueDesalojar, ultimoPIDSuspendido, temporizador, pares, caido>>

LargoAdmitir ==
  /\ En("largo", "solicitarTabla")
  /\ enMano["largo"] \notin Excesivos
  /\ enMemoria' = enMemoria \union {enMano["largo"]}
  /\ cola' = EncolarPcb("READY", enMano["largo"])
  /\ enMano' = [enMano EXCEPT !["largo"] = Ninguno]
  /\ hilo' = Ir("largo", "avisarReady")
  /\ UNCHANGED <<sem, pcb, hayQueDesalojar, ultimoPIDSuspendido, temporizador, cpu, canalInterrupt, caido>>

LargoAvisarReady ==
  /\ En("largo", "avisarReady")
  /\ hayQueDesalojar' = TRUE
  /\ sem' = Post("READY")
  /\ hilo' = Ir("largo", "esperar")
  /\ UNCHANGED <<cola, enMano, pcb, ultimoPIDSuspendido, temporizador, pares, caido>>

-----------------------------------------------------------------------------
(* __planificador_mediano_plazo                                            *)
MedianoTomarSusready ==
  LET p == Head(cola["SUSPENDED_READY"]) IN
  /\ En("mediano", "esperar")
  /\ sem["transicionar"] > 0
  /\ cola["SUSPENDED_READY"] # << >>
  /\ sem' = Wait("transicionar")
  /\ cola' = DesencolarPrimero("SUSPENDED_READY")
  /\ pcb' = [pcb EXCEPT ![p].estado = "READY"]
  /\ enMano' = [enMano EXCEPT !["mediano"] = p]
  /\ hilo' = Ir("mediano", "encolarReady")
  /\ UNCHANGED <<hayQueDesalojar, ultimoPIDSuspendido, temporizador, pares, caido>>

\* list_remove answers NULL and its estadoActual is written.
MedianoCaer ==
  /\ En("mediano", "esperar")
  /\ sem["transicionar"] > 0
  /\ cola["SUSPENDED_READY"] = << >>
  /\ caido' = TRUE
  /\ UNCHANGED <<cola, sem, hilo, enMano, pcb, hayQueDesalojar, ultimoPIDSuspendido,
                 temporizador, pares>>

MedianoEncolarReady ==
  /\ En("mediano", "encolarReady")
  /\ cola' = EncolarPcb("READY", enMano["mediano"])
  /\ enMano' = [enMano EXCEPT !["mediano"] = Ninguno]
  /\ hilo' = Ir("mediano", "avisarReady")
  /\ UNCHANGED <<sem, pcb, hayQueDesalojar, ultimoPIDSuspendido, temporizador, pares, caido>>

MedianoAvisarReady ==
  /\ En("mediano", "avisarReady")
  /\ hayQueDesalojar' = TRUE
  /\ sem' = Post("READY")
  /\ hilo' = Ir("mediano", "esperar")
  /\ UNCHANGED <<cola, enMano, pcb, ultimoPIDSuspendido, temporizador, pares, caido>>

-----------------------------------------------------------------------------
(* __planificador_corto_plazo                                              *)

\* sem_wait(READY) and evaluar_desalojo. FIFO evaluates nothing.
CortoEvaluarDesalojo ==
  /\ En("corto", "esperar")
  /\ sem["READY"] > 0
  /\ sem' = Wait("READY")
  /\ hilo' = Ir("corto", "despachar")
  /\ IF Algoritmo = "SRT" /\ hayQueDesalojar
     THEN /\ hayQueDesalojar' = FALSE
          /\ canalInterrupt' = IF Len(cola["EXEC"]) = 1 THEN canalInterrupt + 1 ELSE canalInterrupt
     ELSE UNCHANGED <<hayQueDesalojar, canalInterrupt>>
  /\ UNCHANGED <<cola, enMano, pcb, ultimoPIDSuspendido, temporizador, cpu, enMemoria, caido>>

\* The positions of READY elegir_pcb may pick. The bursts SRT compares are
\* measured times: any order of them is possible.
Elegibles == IF Algoritmo = "FIFO" THEN {1} ELSE 1..Len(cola["READY"])

\* Mutant: dispatchPermitido is not waited for.
CortoDespacharSiempre ==
  /\ En("corto", "despachar")
  /\ sem' = Post("EXEC")
  /\ hilo' = Ir("corto", "esperar")
  /\ \E i \in Elegibles :
       cola' = [cola EXCEPT !["READY"] = RemoveAt(@, i),
                            !["EXEC"] = Append(@, cola["READY"][i])]
  /\ UNCHANGED <<enMano, pcb, hayQueDesalojar, ultimoPIDSuspendido, temporizador, pares, caido>>

\* The CPU is waited for after the evaluation, so the choice is made as late as it can.
CortoDespachar ==
  /\ En("corto", "despachar")
  /\ sem["dispatchPermitido"] > 0
  /\ sem' = [sem EXCEPT !["dispatchPermitido"] = @ - 1, !["EXEC"] = @ + 1]
  /\ hilo' = Ir("corto", "esperar")
  /\ \E i \in Elegibles :
       cola' = [cola EXCEPT !["READY"] = RemoveAt(@, i),
                            !["EXEC"] = Append(@, cola["READY"][i])]
  /\ UNCHANGED <<enMano, pcb, hayQueDesalojar, ultimoPIDSuspendido, temporizador, pares, caido>>

-----------------------------------------------------------------------------
(* __atender_pcb                                                           *)

\* list_get(EXEC, 0), then cpu_adapter_enviar_pcb_a_cpu with the header that
\* tells the CPU whether this is the last process that was suspended.
AtenderEnviarPcb ==
  /\ En("atender", "esperar")
  /\ sem["EXEC"] > 0
  /\ sem' = Wait("EXEC")
  /\ hilo' = Ir("atender", "esperarCpu")
  /\ LET p == Head(cola["EXEC"]) IN
     /\ enMano' = [enMano EXCEPT !["atender"] = p]
     /\ cpu' = [cpu EXCEPT !.proc = p, !.programCounter = pcb[p].programCounter,
                           !.ultimoSuspendido = (ultimoPIDSuspendido = p)]
  /\ UNCHANGED <<cola, pcb, hayQueDesalojar, ultimoPIDSuspendido, temporizador,
                 canalInterrupt, enMemoria, caido>>

\* What the CPU's header makes of the PCB: the next stretch of __atender_pcb.
Tramo(respuesta) ==
  CASE respuesta = "desalojado" -> "devolverReady"
    [] respuesta = "terminado"  -> "encolarExit"
    [] respuesta = "bloqueado"  -> "encolarIO"

\* cpu_adapter_recibir_pcb_actualizado_de_cpu and the removal from EXEC.
AtenderRecibirPcb ==
  LET p == enMano["atender"]
      instruccion == Programa[p][cpu.programCounter] IN
  /\ En("atender", "esperarCpu")
  /\ cpu.respuesta # Ninguno
  /\ cpu.proc = p
  /\ pcb' = [pcb EXCEPT
               ![p].programCounter = cpu.programCounter,
               ![p].tiempoDeBloqueo =
                 IF cpu.respuesta # "bloqueado" THEN @
                 ELSE IF instruccion = "IO_CORTA" THEN "corto" ELSE "largo"]
  /\ cola' = DesencolarPrimero("EXEC")
  /\ hilo' = Ir("atender", Tramo(cpu.respuesta))
  /\ cpu' = [cpu EXCEPT !.proc = Ninguno, !.programCounter = 0,
                        !.ultimoSuspendido = FALSE, !.respuesta = Ninguno]
  /\ UNCHANGED <<sem, enMano, hayQueDesalojar, ultimoPIDSuspendido, temporizador,
                 canalInterrupt, enMemoria, caido>>

AtenderDesalojado ==
  /\ En("atender", "devolverReady")
  /\ pcb' = [pcb EXCEPT ![enMano["atender"]].estado = "READY"]
  /\ cola' = EncolarPcb("READY", enMano["atender"])
  /\ sem' = [sem EXCEPT !["READY"] = @ + 1, !["dispatchPermitido"] = @ + 1]
  /\ enMano' = [enMano EXCEPT !["atender"] = Ninguno]
  /\ hilo' = Ir("atender", "esperar")
  /\ UNCHANGED <<hayQueDesalojar, ultimoPIDSuspendido, temporizador, pares, caido>>

AtenderTerminado ==
  /\ En("atender", "encolarExit")
  /\ pcb' = [pcb EXCEPT ![enMano["atender"]].estado = "EXIT"]
  /\ cola' = EncolarPcb("EXIT", enMano["atender"])
  /\ sem' = [sem EXCEPT !["EXIT"] = @ + 1, !["dispatchPermitido"] = @ + 1]
  /\ enMano' = [enMano EXCEPT !["atender"] = Ninguno]
  /\ hilo' = Ir("atender", "esperar")
  /\ UNCHANGED <<hayQueDesalojar, ultimoPIDSuspendido, temporizador, pares, caido>>

\* __atender_bloqueo, first stretch: from here on the I/O device has the PCB.
\* The start of the block is marked; a final time left set is now in the past.
AtenderEncolarIO ==
  /\ En("atender", "encolarIO")
  /\ pcb' = [pcb EXCEPT ![enMano["atender"]].espera = "dentro"]
  /\ cola' = EncolarPcb("IO", enMano["atender"])
  /\ sem' = Post("IO")
  /\ hilo' = Ir("atender", "marcarBlocked")
  /\ UNCHANGED <<enMano, hayQueDesalojar, ultimoPIDSuspendido, temporizador, pares, caido>>

\* __atender_bloqueo, second: estadoActual, written without the mutex of the PCB.
AtenderMarcarBlocked ==
  /\ En("atender", "marcarBlocked")
  /\ pcb' = [pcb EXCEPT ![enMano["atender"]].estado = "BLOCKED"]
  /\ hilo' = Ir("atender", "encolarBlocked")
  /\ UNCHANGED <<cola, sem, enMano, hayQueDesalojar, ultimoPIDSuspendido, temporizador, pares, caido>>

\* __atender_bloqueo, third: the BLOCKED list and the thread that times the block.
AtenderEncolarBlocked ==
  /\ En("atender", "encolarBlocked")
  /\ LET p == enMano["atender"] IN
     /\ cola' = EncolarPcb("BLOCKED", p)
     /\ temporizador' = [temporizador EXCEPT ![<<p, pcb[p].programCounter>>].en = "inicio"]
  /\ sem' = Post("dispatchPermitido")
  /\ enMano' = [enMano EXCEPT !["atender"] = Ninguno]
  /\ hilo' = Ir("atender", "esperar")
  /\ UNCHANGED <<pcb, hayQueDesalojar, ultimoPIDSuspendido, pares, caido>>

-----------------------------------------------------------------------------
(* Sleeps.                                                                 *)
SinTramosEnCurso ==
  /\ hilo["atender"] \notin {"marcarBlocked", "encolarBlocked"}
  /\ \A t \in Temporizadores :
       temporizador[t].en \notin {"inicio", "remover", "marcarFinal", "suspender"}
PuedeDespertar == Puntual => SinTramosEnCurso

(* __iniciar_dispositivo_io                                                *)

\* The wait of p so far, when the device starts with it: under Puntual the timer
\* of the block would already have run if it exceeded the maximum.
IOIniciar ==
  /\ En("io", "esperar")
  /\ sem["IO"] > 0
  /\ sem' = Wait("IO")
  /\ cola' = DesencolarPrimero("IO")
  /\ enMano' = [enMano EXCEPT !["io"] = Head(cola["IO"])]
  /\ \E e \in (IF Puntual THEN {"dentro", "justo"} ELSE Espera) :
       pcb' = TestAndSetTiempoFinal(Head(cola["IO"]), e)
  /\ hilo' = Ir("io", "dormir")
  /\ UNCHANGED <<hayQueDesalojar, ultimoPIDSuspendido, temporizador, pares, caido>>

\* The burst ended; p is BLOCKED. From here to IOAvisar* the mutex of p is held.
IOVolverAReady ==
  /\ En("io", "dormir")
  /\ PuedeDespertar
  /\ pcb[enMano["io"]].estado = "BLOCKED"
  /\ cola' = MoverPcb("BLOCKED", "READY", enMano["io"])
  /\ pcb' = [pcb EXCEPT ![enMano["io"]].estado = "READY"]
  /\ hilo' = Ir("io", "avisarReady")
  /\ UNCHANGED <<sem, enMano, hayQueDesalojar, ultimoPIDSuspendido, temporizador, pares, caido>>

IOVolverASusready ==
  /\ En("io", "dormir")
  /\ PuedeDespertar
  /\ pcb[enMano["io"]].estado = "SUSPENDED_BLOCKED"
  /\ cola' = MoverPcb("SUSPENDED_BLOCKED", "SUSPENDED_READY", enMano["io"])
  /\ pcb' = [pcb EXCEPT ![enMano["io"]].estado = "SUSPENDED_READY"]
  /\ hilo' = Ir("io", "avisarLargo")
  /\ UNCHANGED <<sem, enMano, hayQueDesalojar, ultimoPIDSuspendido, temporizador, pares, caido>>

\* p is in neither state: the device drops it.
IODescartar ==
  /\ En("io", "dormir")
  /\ PuedeDespertar
  /\ pcb[enMano["io"]].estado \notin {"BLOCKED", "SUSPENDED_BLOCKED"}
  /\ pcb' = [pcb EXCEPT ![enMano["io"]].finalEstablecido = FALSE]
  /\ enMano' = [enMano EXCEPT !["io"] = Ninguno]
  /\ hilo' = Ir("io", "esperar")
  /\ UNCHANGED <<cola, sem, hayQueDesalojar, ultimoPIDSuspendido, temporizador, pares, caido>>

\* The device is done with the PCB: the rest of its critical section.
TerminarIO ==
  /\ pcb' = [pcb EXCEPT ![enMano["io"]].tiempoDeBloqueo = "cero",
                        ![enMano["io"]].finalEstablecido = FALSE]
  /\ enMano' = [enMano EXCEPT !["io"] = Ninguno]
  /\ hilo' = Ir("io", "esperar")
  /\ UNCHANGED <<cola, ultimoPIDSuspendido, temporizador, pares, caido>>

\* Mutant: the semaphore is not posted.
IOReadySinAvisar ==
  /\ En("io", "avisarReady")
  /\ hayQueDesalojar' = TRUE
  /\ UNCHANGED sem
  /\ TerminarIO
IOAvisarReady ==
  /\ En("io", "avisarReady")
  /\ hayQueDesalojar' = TRUE
  /\ sem' = Post("READY")
  /\ TerminarIO

IOAvisarLargo ==
  /\ En("io", "avisarLargo")
  /\ sem' = Post("hayPcbs")
  /\ UNCHANGED hayQueDesalojar
  /\ TerminarIO

-----------------------------------------------------------------------------
(* __iniciar_contador_blocked_a_suspended_blocked: the thread t = <<p, k>> *)
IrTemporizador(t, l) == [temporizador EXCEPT ![t].en = l]

TemporizadorIniciar(t) ==
  LET p == t[1] IN
  /\ TemporizadorEn(t, "inicio")
  /\ MutexLibre(p)
  /\ pcb' = [pcb EXCEPT ![p].vecesBloqueado = @ + 1]
  /\ temporizador' = [temporizador EXCEPT ![t] =
                        [en |-> "dormir", vez |-> pcb[p].vecesBloqueado + 1]]
  /\ Tocar(p)
  /\ UNCHANGED <<cola, sem, hilo, enMano, hayQueDesalojar, ultimoPIDSuspendido, pares>>

\* Mutant: blocked now, in whichever block.
SigueEnBlocked(t) == ContienePcb("BLOCKED", t[1])
\* Is the process still in the block that t times?
SigueBloqueado(t) ==
  ContienePcb("BLOCKED", t[1]) /\ pcb[t[1]].vecesBloqueado = temporizador[t].vez

\* TIEMPO_MAXIMO_BLOQUEADO went by.
TemporizadorVencer(t) ==
  LET p == t[1] IN
  /\ TemporizadorEn(t, "dormir")
  /\ TiempoMaximoAlcanzable
  /\ PuedeDespertar
  /\ temporizador' = IrTemporizador(t, IF SigueBloqueado(t) THEN "remover" ELSE "fin")
  /\ IF ContienePcb("BLOCKED", p) THEN Tocar(p) ELSE UNCHANGED caido
  /\ UNCHANGED <<cola, sem, hilo, enMano, pcb, hayQueDesalojar, ultimoPIDSuspendido, pares>>

TemporizadorRemover(t) ==
  LET p == t[1] IN
  /\ TemporizadorEn(t, "remover")
  /\ cola' = [cola EXCEPT !["BLOCKED"] = RemoverPcb("BLOCKED", p)]
  /\ temporizador' = IrTemporizador(t, IF ContienePcb("BLOCKED", p) THEN "marcarFinal" ELSE "fin")
  /\ UNCHANGED <<sem, hilo, enMano, pcb, hayQueDesalojar, ultimoPIDSuspendido, pares, caido>>

\* At least TIEMPO_MAXIMO_BLOQUEADO passed since the start of the block.
TemporizadorMarcarFinal(t) ==
  /\ TemporizadorEn(t, "marcarFinal")
  /\ MutexLibre(t[1])
  /\ \E e \in {"justo", "excedido"} : pcb' = TestAndSetTiempoFinal(t[1], e)
  /\ temporizador' = IrTemporizador(t, "suspender")
  /\ Tocar(t[1])
  /\ UNCHANGED <<cola, sem, hilo, enMano, hayQueDesalojar, ultimoPIDSuspendido, pares>>

\* The wait plus the burst fit in the maximum.
BloqueoBreve(p) ==
  \/ pcb[p].tiempoDeBloqueo = "corto" /\ pcb[p].espera = "dentro"
  \/ pcb[p].tiempoDeBloqueo = "cero" /\ pcb[p].espera # "excedido"

TemporizadorNoSuspender(t) ==
  /\ TemporizadorEn(t, "suspender")
  /\ MutexLibre(t[1])
  /\ BloqueoBreve(t[1])
  /\ temporizador' = IrTemporizador(t, "fin")
  /\ Tocar(t[1])
  /\ UNCHANGED <<cola, sem, hilo, enMano, pcb, hayQueDesalojar, ultimoPIDSuspendido, pares>>

TemporizadorSuspender(t) ==
  LET p == t[1] IN
  /\ TemporizadorEn(t, "suspender")
  /\ MutexLibre(p)
  /\ ~BloqueoBreve(p)
  /\ pcb' = [pcb EXCEPT ![p].estado = "SUSPENDED_BLOCKED"]
  /\ ultimoPIDSuspendido' = p
  /\ cola' = EncolarPcb("SUSPENDED_BLOCKED", p)
  /\ sem' = Post("gradoMultiprog")
  /\ temporizador' = IrTemporizador(t, "fin")
  /\ Tocar(p)
  /\ UNCHANGED <<hilo, enMano, hayQueDesalojar, pares>>

-----------------------------------------------------------------------------
(* __hilo_que_libera_pcbs_en_exit. Memory is told to release a table; told *)
(* to release one that does not exist, it writes outside of its tables and *)
(* may take the Kernel, which waits for its answer, with it.               *)
LiberarPcb ==
  LET p == Head(cola["EXIT"]) IN
  /\ ~caido
  /\ sem["EXIT"] > 0
  /\ cola' = DesencolarPrimero("EXIT")
  /\ caido' \in (IF p \in enMemoria THEN {FALSE} ELSE BOOLEAN)
  /\ enMemoria' = enMemoria \ {p}
  /\ pcb' = [pcb EXCEPT ![p].estado = "LIBERADO"]
  /\ sem' = [sem EXCEPT !["EXIT"] = @ - 1, !["gradoMultiprog"] = @ + 1]
  /\ UNCHANGED <<hilo, enMano, hayQueDesalojar, ultimoPIDSuspendido, temporizador,
                 cpu, canalInterrupt>>

-----------------------------------------------------------------------------
(* The CPU (cpu/src/cpu_kernel_server.c), as far as the scheduler can tell. *)
Ejecutando == cpu.proc # Ninguno /\ cpu.respuesta = Ninguno
InstruccionActual == Programa[cpu.proc][cpu.programCounter + 1]

\* An instruction after which the CPU looks at hayInterrupcion.
CpuSeguir ==
  /\ Ejecutando
  /\ InstruccionActual = "NO_OP"
  /\ cpu' = [cpu EXCEPT !.programCounter = @ + 1,
                        !.respuesta = IF cpu.hayInterrupcion THEN "desalojado" ELSE @,
                        !.hayInterrupcion = FALSE]
  /\ UNCHANGED <<cola, sem, hilo, enMano, pcb, hayQueDesalojar, ultimoPIDSuspendido,
                 temporizador, canalInterrupt, enMemoria, caido>>

\* I/O or EXIT: the CPU answers and leaves hayInterrupcion as it is.
CpuDetener ==
  /\ Ejecutando
  /\ InstruccionActual # "NO_OP"
  /\ cpu' = [cpu EXCEPT !.programCounter = @ + 1,
                        !.respuesta = IF InstruccionActual = "EXIT" THEN "terminado" ELSE "bloqueado"]
  /\ UNCHANGED <<cola, sem, hilo, enMano, pcb, hayQueDesalojar, ultimoPIDSuspendido,
                 temporizador, canalInterrupt, enMemoria, caido>>

CpuRecibirInterrupcion ==
  /\ canalInterrupt > 0
  /\ canalInterrupt' = canalInterrupt - 1
  /\ cpu' = [cpu EXCEPT !.hayInterrupcion = TRUE]
  /\ UNCHANGED <<cola, sem, hilo, enMano, pcb, hayQueDesalojar, ultimoPIDSuspendido,
                 temporizador, enMemoria, caido>>

-----------------------------------------------------------------------------
Largo == LargoTomarPcb \/ LargoTransicionarSusready \/ LargoTomarNew \/ LargoRechazar
           \/ LargoAdmitir \/ LargoAvisarReady
Mediano == MedianoTomarSusready \/ MedianoCaer \/ MedianoEncolarReady \/ MedianoAvisarReady
Corto == CortoEvaluarDesalojo \/ CortoDespachar
Atender == AtenderEnviarPcb \/ AtenderRecibirPcb \/ AtenderDesalojado \/ AtenderTerminado
             \/ AtenderEncolarIO \/ AtenderMarcarBlocked \/ AtenderEncolarBlocked
DispositivoIO == IOIniciar \/ IOVolverAReady \/ IOVolverASusready \/ IODescartar
                   \/ IOAvisarReady \/ IOAvisarLargo
Temporizador(t) ==
  TemporizadorIniciar(t) \/ TemporizadorVencer(t) \/ TemporizadorRemover(t)
    \/ TemporizadorMarcarFinal(t) \/ TemporizadorNoSuspender(t) \/ TemporizadorSuspender(t)
Cpu == CpuSeguir \/ CpuDetener \/ CpuRecibirInterrupcion

Next ==
  \/ \E p \in Proc : EncolarEnNew(p)
  \/ Largo \/ Mediano \/ Corto \/ Atender \/ DispositivoIO \/ LiberarPcb \/ Cpu
  \/ \E t \in Temporizadores : Temporizador(t)

Spec == Init /\ [][Next]_vars

(* Every thread of the three processes is scheduled again and again, every *)
(* sleep ends and every console submits its process. No semaphore has two  *)
(* waiters, so weak fairness of each thread is enough.                     *)
Equidad ==
  /\ \A p \in Proc : WF_vars(EncolarEnNew(p))
  /\ WF_vars(Largo)
  /\ WF_vars(Mediano)
  /\ WF_vars(Corto)
  /\ WF_vars(Atender)
  /\ WF_vars(DispositivoIO)
  /\ WF_vars(LiberarPcb)
  /\ WF_vars((CpuSeguir \/ CpuDetener))
  /\ WF_vars(CpuRecibirInterrupcion)
  /\ \A t \in Temporizadores : WF_vars(Temporizador(t))

FairSpec == Spec /\ Equidad

-----------------------------------------------------------------------------
(* Properties                                                              *)

TypeOK ==
  /\ cola \in [Colas -> Seq(Proc)]
  /\ sem \in [Semaforos -> Nat]
  /\ hilo \in [Hilos -> Lugares]
  /\ enMano \in [Hilos -> Proc \union {Ninguno}]
  /\ pcb \in [Proc -> Pcb]
  /\ hayQueDesalojar \in BOOLEAN
  /\ ultimoPIDSuspendido \in Proc \union {Ninguno}
  /\ temporizador \in [Temporizadores -> Reloj]
  /\ cpu \in EstadoCpu
  /\ canalInterrupt \in Nat
  /\ enMemoria \subseteq Proc
  /\ caido \in BOOLEAN

Uno(condicion) == IF condicion THEN 1 ELSE 0

\* dispatchPermitido makes the CPU exclusive: EXEC never has two processes, and
\* what the CPU runs or answers with is the process __atender_pcb waits for, so
\* the PID check of cpu_adapter, which would end the Kernel, never fails.
UnSoloDespacho ==
  /\ Len(cola["EXEC"]) <= 1
  /\ cpu.proc # Ninguno => hilo["atender"] = "esperarCpu" /\ cola["EXEC"] = <<cpu.proc>>
                              /\ enMano["atender"] = cpu.proc

\* Each PCB in READY is backed by one unit of the semaphore, by the unit the short
\* term thread already took or by a post that is about to come; so elegir_pcb
\* never finds an empty list, however the five producers interleave.
ReadyConRespaldo ==
  Len(cola["READY"]) = sem["READY"] + Uno(hilo["corto"] = "despachar")
                         + Uno(hilo["largo"] = "avisarReady")
                         + Uno(hilo["mediano"] = "avisarReady")
                         + Uno(hilo["io"] = "avisarReady")

\* hayPcbs counts NEW and SUSPENDED_READY together although its consumer looks at
\* the two lists separately: it never takes a PCB out of an empty NEW.
LargoConRespaldo ==
  hilo["largo"] = "esperarGrado" /\ cola["SUSPENDED_READY"] = << >> => cola["NEW"] # << >>

\* What the semaphores, the places of the threads and the lists owe each other.
\* dispatchPermitido is handed from the short term thread to __atender_pcb and back.
DespachoConservado ==
  sem["dispatchPermitido"] + sem["EXEC"] + Uno(hilo["atender"] # "esperar") = 1
ExecConRespaldo == Len(cola["EXEC"]) = sem["EXEC"] + Uno(hilo["atender"] = "esperarCpu")
\* hayPcbs, the request the long term thread is serving and those it passed on to
\* the medium term one add up to the processes in NEW and SUSPENDED_READY.
PorAdmitir == Len(cola["NEW"]) + Len(cola["SUSPENDED_READY"])
AdmisionConRespaldo ==
  PorAdmitir = sem["hayPcbs"] + sem["transicionar"] + Uno(hilo["largo"] = "esperarGrado")
                 + Uno(hilo["io"] = "avisarLargo")
\* EXIT may have more: the processes Memory refused.
IOyExitConRespaldo == Len(cola["IO"]) = sem["IO"] /\ Len(cola["EXIT"]) >= sem["EXIT"]
ManosOcupadas ==
  /\ hilo["largo"] = "solicitarTabla" => enMano["largo"] \in Proc
  /\ hilo["mediano"] = "encolarReady" => enMano["mediano"] \in Proc
  /\ hilo["atender"] # "esperar" => enMano["atender"] \in Proc
  /\ hilo["io"] # "esperar" => enMano["io"] \in Proc
CpuAlDia ==
  /\ cpu.proc # Ninguno <=> hilo["atender"] = "esperarCpu"
  /\ cpu.proc # Ninguno => cola["EXEC"] = <<cpu.proc>> /\ enMano["atender"] = cpu.proc
  /\ cpu.respuesta # Ninguno => cpu.proc # Ninguno

\* The accounting the safety properties above rest on; unlike them, inductive.
IInv ==
  /\ TypeOK
  /\ DespachoConservado /\ ExecConRespaldo /\ ReadyConRespaldo
  /\ AdmisionConRespaldo /\ IOyExitConRespaldo
  /\ ManosOcupadas /\ CpuAlDia

\* The long term thread passes on no more requests than suspended processes there are
\* to bring back. It may: it looks at SUSPENDED_READY before the medium term thread
\* has taken out the process of its last request.
SinAvisoDeMas == sem["transicionar"] <= Len(cola["SUSPENDED_READY"])

\* That is the one way to dereference a NULL PCB: no timer, I/O burst or permit that
\* comes late touches a PCB that was freed, and no table is given back twice.
CaeSoloPorAvisoDeMas == caido => ~SinAvisoDeMas

\* Lists and hands a PCB is in. The I/O queue and device are left out: a PCB is in
\* one of them besides its state's list.
EnLista(e, p) == Cardinality({i \in 1..Len(cola[e]) : cola[e][i] = p})
Apariciones(p) ==
  EnLista("NEW", p) + EnLista("READY", p) + EnLista("EXEC", p) + EnLista("EXIT", p)
    + EnLista("BLOCKED", p) + EnLista("SUSPENDED_BLOCKED", p) + EnLista("SUSPENDED_READY", p)
    + Uno(enMano["largo"] = p) + Uno(enMano["mediano"] = p)
    + Uno(enMano["atender"] = p /\ hilo["atender"] # "esperarCpu")
EnIO(p) == EnLista("IO", p) > 0 \/ enMano["io"] = p

\* A PCB is never in two states at once and never gets lost: if no list has it,
\* the I/O device will give it back.
UnLugarPorPcb ==
  \A p \in Proc :
    /\ Apariciones(p) <= 1
    /\ pcb[p].estado \notin {"NULL", "LIBERADO"} => Apariciones(p) = 1 \/ EnIO(p)

\* Processes that hold one of the GRADO permits: those between their admission and
\* their end or suspension. Every permit is held by one of them, by the long term
\* thread's request to bring back a suspended process, or is available.
Admitidos ==
  {p \in Proc : p \in enMemoria /\ pcb[p].estado \notin {"SUSPENDED_BLOCKED", "SUSPENDED_READY"}}
GradoRespetado ==
  sem["gradoMultiprog"] + Cardinality(Admitidos) + sem["transicionar"]
    + Uno(hilo["largo"] = "solicitarTabla") = GRADO

\* A timer suspends the process for the very block it times, while the process is
\* still blocked: neither a timer left over from an earlier block nor one that
\* lost the race against the end of the burst does.
Suspende(t) == temporizador[t].en = "suspender" /\ ~BloqueoBreve(t[1])
SuspendeSuBloqueo ==
  [][\A t \in Temporizadores :
       Suspende(t) /\ temporizador'[t].en = "fin" =>
         pcb[t[1]].estado = "BLOCKED" /\ pcb[t[1]].programCounter = t[2]]_vars

\* The state a process is in for an observer of the lists: estadoActual alone is
\* not, as it stays behind when a process is dispatched and when a new one is
\* admitted.
EstadoObservable(p) ==
  CASE ContienePcb("EXEC", p) \/ enMano["atender"] = p -> "EXEC"
    [] pcb[p].estado = "NEW" /\ ContienePcb("READY", p) -> "READY"
    [] OTHER -> pcb[p].estado

Ciclo == INSTANCE CicloDeVida WITH estado <- [p \in Proc |-> EstadoObservable(p)]

\* The eight threads together move every process through the life cycle the Kernel
\* logs, with one process in EXEC and at most GRADO admitted.
ImplementaCiclo == Ciclo!Spec

\* The Kernel has nothing to do until the process in the CPU, an I/O burst or a
\* timer goes on.
KernelQuieto ==
  /\ \/ hilo["largo"] = "esperar" /\ sem["hayPcbs"] = 0
     \/ hilo["largo"] = "esperarGrado" /\ sem["gradoMultiprog"] = 0
  /\ hilo["mediano"] = "esperar" /\ sem["transicionar"] = 0
  /\ \/ hilo["corto"] = "esperar" /\ sem["READY"] = 0
     \/ hilo["corto"] = "despachar" /\ sem["dispatchPermitido"] = 0
  /\ hilo["io"] \in {"esperar", "dormir"}
  /\ Ejecutando /\ canalInterrupt = 0 /\ ~cpu.hayInterrupcion

\* SRT: once the Kernel is quiet, every arrival to READY was weighed against the
\* process in execution.
LlegadasEvaluadas == Algoritmo = "SRT" /\ KernelQuieto => ~hayQueDesalojar

\* Every process Memory has room for ends and is released.
AlojadosFinalizan == \A p \in Proc \ Excesivos : <>(pcb[p].estado = "LIBERADO")

\* Every process a console submits ends and is released.
TodosFinalizan == \A p \in Proc : <>(pcb[p].estado = "LIBERADO")

\* The request passed on twice is also the only thing that keeps a process from its end:
\* preemptions, suspensions and late interrupts take nobody's turn for ever.
FinalizanSinAvisoDeMas == []SinAvisoDeMas => <>(\A p \in Proc : pcb[p].estado = "LIBERADO")

=============================================================================
