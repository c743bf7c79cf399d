------------------------------ MODULE CicloCpu ------------------------------
(***************************************************************************)
(* The instruction cycle of the CPU process (cpu/src/cpu_kernel_server.c), *)
(* its two sockets with the Kernel and the Kernel's end of them            *)
(* (kernel/src/cpu_adapter.c and __atender_pcb).  The program counter of a *)
(* process travels: Kernel, message, CPU, message, Kernel.                 *)
(*                                                                         *)
(* Two threads of the CPU share hayInterrupcion under a mutex.  Instants   *)
(* that can be told apart are the end of a receive, the fetch of operands  *)
(* (for COPY, an access to Memory), the execution, and the look at         *)
(* hayInterrupcion.  The accesses to Memory are those of MemoriaVirtual:   *)
(* here one step each, on the data of the process; its first level table,  *)
(* which the messages carry, is told by its pid.                           *)
(***************************************************************************)
EXTENDS Naturals, Sequences

CONSTANTS
  Proc,      \* the processes, in READY when the model starts
  Programa,  \* Programa[p]: its instructions, as sent to the CPU
  Dir,       \* the addresses the instructions name
  Basura,    \* what an address may hold before it is written
  Ninguno    \* no process

Tipo == {"NO_OP", "IO", "READ", "WRITE", "COPY", "EXIT"}
Instruccion == [tipo : Tipo, op1 : Nat, op2 : Nat]

ASSUME ProgramaAssumption ==
  /\ Programa \in [Proc -> Seq(Instruccion)]
  /\ \A p \in Proc :
       /\ Programa[p] # << >>
       /\ \A k \in 1..Len(Programa[p]) :
            /\ Programa[p][k].tipo = "EXIT" <=> k = Len(Programa[p])
            /\ Programa[p][k].tipo \in {"READ", "WRITE", "COPY"} => Programa[p][k].op1 \in Dir
            /\ Programa[p][k].tipo = "COPY" => Programa[p][k].op2 \in Dir
ASSUME DatosAssumption == Dir \subseteq Nat /\ Basura \subseteq Nat
ASSUME NingunoAssumption == Ninguno \notin Proc

VARIABLES
  atender,          \* where __atender_pcb stands
  enExec,           \* the process in EXEC
  pcb,              \* pcb[p]: the fields of t_pcb that the CPU changes, and the state of p
  hayQueDesalojar,  \* a process became READY since the last evaluation
  canalDispatch,    \* Kernel to CPU, dispatch socket
  canalRespuesta,   \* CPU to Kernel, dispatch socket
  canalInterrupt,   \* interrupts in the interrupt socket
  cpu,              \* the dispatch thread: its place and its t_cpu_pcb
  hayInterrupcion,
  pidProcesoEnExec, \* the last process the CPU ran
  tlb,              \* the processes with translations in the TLB
  datos             \* what Memory holds for each process

varsKernel == <<atender, enExec, pcb, hayQueDesalojar>>
varsCpu == <<cpu, hayInterrupcion, pidProcesoEnExec, tlb, datos>>
vars == <<varsKernel, canalDispatch, canalRespuesta, canalInterrupt, varsCpu>>

EstadoPcb == {"READY", "EXEC", "BLOCKED", "EXIT"}
Cpu == [en : {"recibirPcb", "recibirLista", "fetch", "exec", "interrupcion", "caida"},
        pid : Proc \union {Ninguno}, programCounter : Nat, instrucciones : Seq(Instruccion),
        operando2 : Nat]
MensajePcb ==
  [header : {"pcb_a_ejecutar", "pcb_a_ejecutar_ultimo_suspendido"}, pid : Proc, programCounter : Nat]
MensajeLista == [header : {"lista_instrucciones"}, instrucciones : Seq(Instruccion)]
Respuesta == [header : {"desalojado", "bloqueado", "terminado"}, pid : Proc, programCounter : Nat,
              tiempoDeBloqueo : Nat]

Init ==
  /\ atender = "esperar" /\ enExec = Ninguno /\ hayQueDesalojar = TRUE
  /\ pcb = [p \in Proc |-> [estado |-> "READY", programCounter |-> 0, tiempoDeBloqueo |-> 0]]
  /\ canalDispatch = << >> /\ canalRespuesta = << >> /\ canalInterrupt = 0
  /\ cpu = [en |-> "recibirPcb", pid |-> Ninguno, programCounter |-> 0, instrucciones |-> << >>,
            operando2 |-> 0]
  /\ hayInterrupcion = FALSE /\ pidProcesoEnExec = Ninguno /\ tlb = {}
  /\ datos \in [Proc -> [Dir -> Basura]]

-----------------------------------------------------------------------------
(* The Kernel.                                                             *)

\* The short term thread waited for dispatchPermitido and put p in EXEC.
Elegir(p) ==
  /\ atender = "esperar"
  /\ pcb[p].estado = "READY"
  /\ pcb' = [pcb EXCEPT ![p].estado = "EXEC"]
  /\ enExec' = p
  /\ atender' = "enviarPcb"
  /\ UNCHANGED <<hayQueDesalojar, canalDispatch, canalRespuesta, canalInterrupt, varsCpu>>

\* cpu_adapter_enviar_pcb_a_cpu, in two messages. Which header goes in the first one is
\* the matter of Planificador and MemoriaVirtual (ultimoPIDSuspendido).
EnviarPcb ==
  /\ atender = "enviarPcb"
  /\ \E h \in {"pcb_a_ejecutar", "pcb_a_ejecutar_ultimo_suspendido"} :
       canalDispatch' = Append(canalDispatch,
         [header |-> h, pid |-> enExec, programCounter |-> pcb[enExec].programCounter])
  /\ atender' = "enviarLista"
  /\ UNCHANGED <<enExec, pcb, hayQueDesalojar, canalRespuesta, canalInterrupt, varsCpu>>
EnviarLista ==
  /\ atender = "enviarLista"
  /\ canalDispatch' = Append(canalDispatch,
       [header |-> "lista_instrucciones", instrucciones |-> Programa[enExec]])
  /\ atender' = "esperarCpu"
  /\ UNCHANGED <<enExec, pcb, hayQueDesalojar, canalRespuesta, canalInterrupt, varsCpu>>

EstadoTras(header) ==
  CASE header = "desalojado" -> "READY" [] header = "bloqueado" -> "BLOCKED"
    [] header = "terminado" -> "EXIT"

\* Mutants: the time of the block is not taken from the message; the program counter
\* of a preempted process is not.
ActualizadoSinTiempo(f, m) ==
  [f EXCEPT !.estado = EstadoTras(m.header), !.programCounter = m.programCounter]
ActualizadoSinPc(f, m) ==
  [estado |-> EstadoTras(m.header),
   programCounter |-> IF m.header = "desalojado" THEN f.programCounter ELSE m.programCounter,
   tiempoDeBloqueo |-> IF m.header = "bloqueado" THEN m.tiempoDeBloqueo ELSE f.tiempoDeBloqueo]
\* The fields f of a PCB after the message m of the CPU.
Actualizado(f, m) ==
  [estado |-> EstadoTras(m.header),
   programCounter |-> m.programCounter,
   tiempoDeBloqueo |-> IF m.header = "bloqueado" THEN m.tiempoDeBloqueo ELSE f.tiempoDeBloqueo]

\* cpu_adapter_recibir_pcb_actualizado_de_cpu, the switch on the header, and the post of
\* dispatchPermitido. A message of another process ends the Kernel.
RecibirRespuesta ==
  LET m == Head(canalRespuesta) IN
  /\ atender = "esperarCpu"
  /\ canalRespuesta # << >>
  /\ canalRespuesta' = Tail(canalRespuesta)
  /\ IF m.pid = enExec
     THEN /\ pcb' = [pcb EXCEPT ![enExec] = Actualizado(@, m)]
          /\ atender' = "esperar"
     ELSE /\ atender' = "caido"
          /\ UNCHANGED pcb
  /\ enExec' = Ninguno
  /\ UNCHANGED <<hayQueDesalojar, canalDispatch, canalInterrupt, varsCpu>>

\* An I/O ended, or a suspended process came back: it is READY, and the process in EXEC is to
\* be weighed against it.
VolverAReady(p) ==
  /\ pcb[p].estado = "BLOCKED"
  /\ pcb' = [pcb EXCEPT ![p].estado = "READY"]
  /\ hayQueDesalojar' = TRUE
  /\ UNCHANGED <<atender, enExec, canalDispatch, canalRespuesta, canalInterrupt, varsCpu>>

\* __evaluar_desalojo_segun_srt: the interrupt goes out if EXEC has a process, wherever that
\* process is by then: still to be sent, in the CPU, or answered and not yet received.
EvaluarDesalojo ==
  /\ hayQueDesalojar
  /\ hayQueDesalojar' = FALSE
  /\ canalInterrupt' = IF enExec # Ninguno THEN canalInterrupt + 1 ELSE canalInterrupt
  /\ UNCHANGED <<atender, enExec, pcb, canalDispatch, canalRespuesta, varsCpu>>

-----------------------------------------------------------------------------
(* The CPU.                                                                *)

\* Mutant: only a suspension drops the translations.
FlushSoloSuspendido(m) ==
  IF m.header = "pcb_a_ejecutar_ultimo_suspendido"
  THEN tlb' = {} /\ pidProcesoEnExec' = m.pid
  ELSE UNCHANGED <<tlb, pidProcesoEnExec>>
Flush(m) ==
  IF m.header = "pcb_a_ejecutar_ultimo_suspendido" \/ m.pid # pidProcesoEnExec
  THEN tlb' = {} /\ pidProcesoEnExec' = m.pid
  ELSE UNCHANGED <<tlb, pidProcesoEnExec>>

\* Anything but the PCB, or later anything but its list, ends the CPU.
CpuRecibirPcb ==
  LET m == Head(canalDispatch) IN
  /\ cpu.en = "recibirPcb"
  /\ canalDispatch # << >>
  /\ canalDispatch' = Tail(canalDispatch)
  /\ IF m.header \in {"pcb_a_ejecutar", "pcb_a_ejecutar_ultimo_suspendido"}
     THEN /\ Flush(m)
          /\ cpu' = [cpu EXCEPT !.en = "recibirLista", !.pid = m.pid,
                                !.programCounter = m.programCounter]
     ELSE cpu' = [cpu EXCEPT !.en = "caida"] /\ UNCHANGED <<tlb, pidProcesoEnExec>>
  /\ UNCHANGED <<varsKernel, canalRespuesta, canalInterrupt, hayInterrupcion, datos>>
CpuRecibirLista ==
  LET m == Head(canalDispatch) IN
  /\ cpu.en = "recibirLista"
  /\ canalDispatch # << >>
  /\ canalDispatch' = Tail(canalDispatch)
  /\ cpu' = IF m.header = "lista_instrucciones"
            THEN [cpu EXCEPT !.en = "fetch", !.instrucciones = m.instrucciones]
            ELSE [cpu EXCEPT !.en = "caida"]
  /\ UNCHANGED <<varsKernel, canalRespuesta, canalInterrupt, hayInterrupcion, pidProcesoEnExec,
                 tlb, datos>>

Actual == cpu.instrucciones[cpu.programCounter + 1]

\* __cpu_fetch_instruction, __cpu_decode_instruction and __cpu_fetch_operands: the second
\* operand of COPY is what its origin holds.
CpuFetch ==
  /\ cpu.en = "fetch"
  /\ cpu' = [cpu EXCEPT !.en = "exec",
               !.operando2 = IF Actual.tipo = "COPY" THEN datos[cpu.pid][Actual.op2] ELSE Actual.op2]
  /\ tlb' = IF Actual.tipo = "COPY" THEN tlb \union {cpu.pid} ELSE tlb
  /\ UNCHANGED <<varsKernel, canalDispatch, canalRespuesta, canalInterrupt, hayInterrupcion,
                 pidProcesoEnExec, datos>>

Responder(header, programCounter, tiempo) ==
  canalRespuesta' = Append(canalRespuesta,
    [header |-> header, pid |-> cpu.pid, programCounter |-> programCounter,
     tiempoDeBloqueo |-> tiempo])

Escrito(d) ==
  IF Actual.tipo \in {"WRITE", "COPY"} THEN [d EXCEPT ![Actual.op1] = cpu.operando2] ELSE d

\* __cpu_exec_instruction, for the instructions after which the CPU goes on...
CpuExec ==
  /\ cpu.en = "exec"
  /\ Actual.tipo \notin {"IO", "EXIT"}
  /\ cpu' = [cpu EXCEPT !.en = "interrupcion", !.programCounter = @ + 1]
  /\ datos' = [datos EXCEPT ![cpu.pid] = Escrito(@)]
  /\ tlb' = IF Actual.tipo = "NO_OP" THEN tlb ELSE tlb \union {cpu.pid}
  /\ UNCHANGED <<varsKernel, canalDispatch, canalRespuesta, canalInterrupt, hayInterrupcion,
                 pidProcesoEnExec>>
\* ...and for those that give the process back. hayInterrupcion is not looked at.
CpuExecDetener ==
  /\ cpu.en = "exec"
  /\ Actual.tipo \in {"IO", "EXIT"}
  /\ IF Actual.tipo = "IO" THEN Responder("bloqueado", cpu.programCounter + 1, Actual.op1)
                           ELSE Responder("terminado", cpu.programCounter + 1, 0)
  /\ cpu' = [cpu EXCEPT !.en = "recibirPcb", !.programCounter = @ + 1]
  /\ UNCHANGED <<varsKernel, canalDispatch, canalInterrupt, hayInterrupcion, pidProcesoEnExec,
                 tlb, datos>>

\* Mutant: the interrupt is looked at before an instruction, instead of after it.
AtenderInterrupcionAntes ==
  /\ cpu.en \in {"interrupcion", "fetch"}
  /\ IF hayInterrupcion
     THEN /\ Responder("desalojado", cpu.programCounter, 0)
          /\ cpu' = [cpu EXCEPT !.en = "recibirPcb"]
     ELSE cpu' = [cpu EXCEPT !.en = "fetch"] /\ UNCHANGED canalRespuesta
  /\ hayInterrupcion' = FALSE
  /\ UNCHANGED <<varsKernel, canalDispatch, canalInterrupt, pidProcesoEnExec, tlb, datos>>
\* __cpu_atender_interrupcion
CpuAtenderInterrupcion ==
  /\ cpu.en = "interrupcion"
  /\ IF hayInterrupcion
     THEN /\ Responder("desalojado", cpu.programCounter, 0)
          /\ cpu' = [cpu EXCEPT !.en = "recibirPcb"]
     ELSE cpu' = [cpu EXCEPT !.en = "fetch"] /\ UNCHANGED canalRespuesta
  /\ hayInterrupcion' = FALSE
  /\ UNCHANGED <<varsKernel, canalDispatch, canalInterrupt, pidProcesoEnExec, tlb, datos>>

\* The interrupt thread. The process the interrupt was meant for may have left the CPU.
CpuRecibirInterrupcion ==
  /\ canalInterrupt > 0
  /\ canalInterrupt' = canalInterrupt - 1
  /\ hayInterrupcion' = TRUE
  /\ UNCHANGED <<varsKernel, canalDispatch, canalRespuesta, cpu, pidProcesoEnExec, tlb, datos>>

-----------------------------------------------------------------------------
AtenderPcb == (\E p \in Proc : Elegir(p)) \/ EnviarPcb \/ EnviarLista \/ RecibirRespuesta
HiloDispatch ==
  \/ CpuRecibirPcb \/ CpuRecibirLista \/ CpuFetch \/ CpuExec \/ CpuExecDetener
  \/ CpuAtenderInterrupcion
Next ==
  \/ AtenderPcb \/ HiloDispatch
  \/ \E p \in Proc : VolverAReady(p)
  \/ EvaluarDesalojo
  \/ CpuRecibirInterrupcion

Spec == Init /\ [][Next]_vars

\* The threads of both processes take turns, and every I/O burst ends. Nothing is asked of
\* interrupts, which may come as late as they like.
FairSpec ==
  /\ Spec
  /\ WF_vars(AtenderPcb) /\ WF_vars(HiloDispatch)
  /\ \A p \in Proc : WF_vars(VolverAReady(p))

-----------------------------------------------------------------------------
(* Properties.                                                             *)

TypeOK ==
  /\ atender \in {"esperar", "enviarPcb", "enviarLista", "esperarCpu", "caido"}
  /\ enExec \in Proc \union {Ninguno}
  /\ pcb \in [Proc -> [estado : EstadoPcb, programCounter : Nat, tiempoDeBloqueo : Nat]]
  /\ hayQueDesalojar \in BOOLEAN
  /\ canalDispatch \in Seq(MensajePcb \union MensajeLista)
  /\ canalRespuesta \in Seq(Respuesta)
  /\ canalInterrupt \in Nat
  /\ cpu \in Cpu
  /\ hayInterrupcion \in BOOLEAN
  /\ pidProcesoEnExec \in Proc \union {Ninguno}
  /\ tlb \subseteq Proc
  /\ datos \in [Proc -> [Dir -> Nat]]

\* Neither process finds in the socket something it did not expect: the Kernel gets the answer
\* of the process it sent, the CPU a PCB followed by its list. Either would end otherwise.
NadieCae == atender # "caido" /\ cpu.en # "caida"

Ejecutando == cpu.en \in {"fetch", "exec", "interrupcion"}

\* The program counter the CPU has is one more than where the next instruction is: while a
\* process runs there is always one, so the list is never read past its end.
HayInstruccion ==
  cpu.en \in {"fetch", "exec"} =>
    cpu.instrucciones = Programa[cpu.pid] /\ cpu.programCounter < Len(cpu.instrucciones)

\* The TLB, which knows nothing of processes, only has translations of the one in execution.
TlbPropia == Ejecutando => tlb \subseteq {cpu.pid}

\* A blocked process waits for the I/O it asked for last, although the same message format,
\* with and without the time, serves four kinds of answers.
BloqueoPedido ==
  \A p \in Proc : pcb[p].estado = "BLOCKED" =>
    LET i == Programa[p][pcb[p].programCounter] IN
    i.tipo = "IO" /\ pcb[p].tiempoDeBloqueo = i.op1

\* However many interrupts there are, and whomever they were meant for, a process that is
\* dispatched comes back further than it was.
CadaDespachoAvanza ==
  [][\A p \in Proc :
       pcb[p].estado = "EXEC" /\ pcb'[p].estado # "EXEC" =>
         pcb'[p].programCounter > pcb[p].programCounter]_vars

\* Where the PCB in EXEC can be on its trip, and what the rest is like meanwhile.
Tranquilos == canalDispatch = << >> /\ canalRespuesta = << >> /\ cpu.en = "recibirPcb"
EsPcb(m) == m \in MensajePcb /\ m.pid = enExec /\ m.programCounter = pcb[enExec].programCounter
EsLista(m) == m \in MensajeLista /\ m.instrucciones = Programa[enExec]
CpuAlDia == cpu.pid = enExec /\ cpu.programCounter = pcb[enExec].programCounter
EnReposo == atender = "esperar" /\ enExec = Ninguno /\ Tranquilos
Elegido == atender = "enviarPcb" /\ Tranquilos
PcbEnCamino ==
  /\ atender = "enviarLista" /\ canalRespuesta = << >> /\ cpu.en = "recibirPcb"
  /\ Len(canalDispatch) = 1 /\ EsPcb(canalDispatch[1])
PcbRecibido ==
  /\ atender = "enviarLista" /\ canalRespuesta = << >> /\ canalDispatch = << >>
  /\ cpu.en = "recibirLista" /\ CpuAlDia
TodoEnCamino ==
  /\ atender = "esperarCpu" /\ canalRespuesta = << >> /\ cpu.en = "recibirPcb"
  /\ Len(canalDispatch) = 2 /\ EsPcb(canalDispatch[1]) /\ EsLista(canalDispatch[2])
ListaEnCamino ==
  /\ atender = "esperarCpu" /\ canalRespuesta = << >>
  /\ cpu.en = "recibirLista" /\ CpuAlDia
  /\ Len(canalDispatch) = 1 /\ EsLista(canalDispatch[1])
EnCpu ==
  /\ atender = "esperarCpu" /\ canalRespuesta = << >> /\ canalDispatch = << >>
  /\ Ejecutando
  /\ cpu.pid = enExec /\ cpu.instrucciones = Programa[enExec]
  /\ cpu.programCounter < Len(Programa[enExec])
  /\ cpu.programCounter >= pcb[enExec].programCounter
  /\ cpu.en = "interrupcion" => cpu.programCounter > pcb[enExec].programCounter
  /\ cpu.en = "exec" =>
       cpu.operando2 = IF Actual.tipo = "COPY" THEN datos[enExec][Actual.op2] ELSE Actual.op2
\* What an answer with this header says of p.
Consta(p, estado, programCounter, tiempo) ==
  /\ programCounter <= Len(Programa[p])
  /\ estado = "EXIT" <=> programCounter = Len(Programa[p])
  /\ estado = "BLOCKED" =>
       /\ programCounter > 0
       /\ Programa[p][programCounter].tipo = "IO" /\ tiempo = Programa[p][programCounter].op1
RespuestaEnCamino ==
  /\ atender = "esperarCpu" /\ canalDispatch = << >> /\ cpu.en = "recibirPcb"
  /\ Len(canalRespuesta) = 1
  /\ LET m == canalRespuesta[1] IN
     /\ m.pid = enExec
     /\ m.programCounter > pcb[enExec].programCounter
     /\ Consta(enExec, EstadoTras(m.header), m.programCounter, m.tiempoDeBloqueo)
Viaje ==
  \/ EnReposo
  \/ /\ enExec \in Proc
     /\ \/ Elegido \/ PcbEnCamino \/ PcbRecibido \/ TodoEnCamino \/ ListaEnCamino \/ EnCpu
        \/ RespuestaEnCamino
PcbsAlDia ==
  \A p \in Proc :
    /\ pcb[p].estado = "EXEC" <=> p = enExec
    /\ Consta(p, pcb[p].estado, pcb[p].programCounter, pcb[p].tiempoDeBloqueo)
TlbAlDia ==
  /\ tlb \subseteq {pidProcesoEnExec}
  /\ cpu.en # "recibirPcb" => pidProcesoEnExec = cpu.pid
\* The invariant all of the above and the refinement rest on; inductive.
IInv == TypeOK /\ Viaje /\ PcbsAlDia /\ TlbAlDia

\* Where p really is: its program counter is in the answer, in the CPU, or in the Kernel.
Respondido(p) == canalRespuesta # << >> /\ Head(canalRespuesta).pid = p
ProgramCounter(p) ==
  IF Respondido(p) THEN Head(canalRespuesta).programCounter
  ELSE IF Ejecutando /\ cpu.pid = p THEN cpu.programCounter
  ELSE pcb[p].programCounter
FaseDe(estado) ==
  CASE estado = "BLOCKED" -> "bloqueada" [] estado = "EXIT" -> "fin" [] OTHER -> "lista"
Fase(p) ==
  FaseDe(IF Respondido(p) THEN EstadoTras(Head(canalRespuesta).header) ELSE pcb[p].estado)

Maquina == INSTANCE MaquinaSecuencial WITH
  pc <- [p \in Proc |-> ProgramCounter(p)],
  fase <- [p \in Proc |-> Fase(p)],
  Datos <- [Dir -> Basura]

\* Preemption, late interrupts and the trips of the program counter are invisible: no
\* instruction is lost or repeated, and every process gets to its EXIT.
ImplementaMaquina == Maquina!FairSpec

=============================================================================
