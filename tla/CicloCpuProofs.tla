--------------------------- MODULE CicloCpuProofs ---------------------------
(* Theorems about CicloCpu, for any processes and programs.                *)
EXTENDS CicloCpu, SequenceTheorems, TLAPS

-----------------------------------------------------------------------------
(* Facts about the program in execution.                                   *)

\* The instruction the CPU fetches is one of the program, with its operands.
LEMMA ActualEsInstruccion ==
  ASSUME IInv, EnCpu, enExec \in Proc
  PROVE  /\ Actual = Programa[enExec][cpu.programCounter + 1]
         /\ Actual \in Instruccion
         /\ Actual.tipo = "EXIT" <=> cpu.programCounter + 1 = Len(Programa[enExec])
         /\ Actual.tipo \in {"READ", "WRITE", "COPY"} => Actual.op1 \in Dir
         /\ Actual.tipo = "COPY" => Actual.op2 \in Dir
  <1>1. cpu.programCounter + 1 \in 1..Len(Programa[enExec])
    <2>1. cpu.programCounter \in Nat /\ Len(Programa[enExec]) \in Nat
      BY ProgramaAssumption DEF IInv, TypeOK, Cpu
    <2>2. QED
      BY <2>1 DEF EnCpu
  <1>2. Actual = Programa[enExec][cpu.programCounter + 1]
    BY DEF Actual, EnCpu
  <1>3. Programa[enExec] \in Seq(Instruccion)
    BY ProgramaAssumption
  <1>4. QED
    BY <1>1, <1>2, <1>3, ProgramaAssumption

-----------------------------------------------------------------------------
(* The invariant holds at first.                                           *)

\* The Kernel and the CPU start with nothing in the sockets.
LEMMA InicioIInv == Init => IInv
  <1> SUFFICES ASSUME Init PROVE IInv
    OBVIOUS
  <1>1. TypeOK
    <2>1. << >> \in Seq(MensajePcb \union MensajeLista) /\ << >> \in Seq(Respuesta)
          /\ << >> \in Seq(Instruccion)
      OBVIOUS
    <2>2. datos \in [Proc -> [Dir -> Nat]]
      BY DatosAssumption DEF Init
    <2>3. cpu \in Cpu
      BY <2>1 DEF Init, Cpu
    <2>4. pcb \in [Proc -> [estado : EstadoPcb, programCounter : Nat, tiempoDeBloqueo : Nat]]
      BY DEF Init, EstadoPcb
    <2>5. QED
      BY <2>1, <2>2, <2>3, <2>4 DEF Init, TypeOK
  <1>2. Viaje
    BY DEF Init, Viaje, EnReposo, Tranquilos
  <1>3. PcbsAlDia
    <2> SUFFICES ASSUME NEW p \in Proc
                 PROVE  /\ pcb[p].estado = "EXEC" <=> p = enExec
                        /\ Consta(p, pcb[p].estado, pcb[p].programCounter, pcb[p].tiempoDeBloqueo)
      BY DEF PcbsAlDia
    <2>1. Programa[p] \in Seq(Instruccion) /\ Programa[p] # << >>
      BY ProgramaAssumption
    <2>2. Len(Programa[p]) \in Nat /\ Len(Programa[p]) # 0
      BY <2>1, EmptySeq, LenProperties
    <2>3. pcb[p] = [estado |-> "READY", programCounter |-> 0, tiempoDeBloqueo |-> 0]
      BY DEF Init
    <2>4. QED
      BY <2>2, <2>3, NingunoAssumption DEF Init, Consta
  <1>4. TlbAlDia
    BY DEF Init, TlbAlDia
  <1>5. QED
    BY <1>1, <1>2, <1>3, <1>4 DEF IInv

-----------------------------------------------------------------------------
(* Types.                                                                  *)

\* Receiving takes a message of the socket and leaves messages.
LEMMA Mensajes ==
  ASSUME TypeOK
  PROVE  /\ canalDispatch # << >> =>
              /\ Head(canalDispatch) = canalDispatch[1]
              /\ Head(canalDispatch) \in MensajePcb \union MensajeLista
              /\ Tail(canalDispatch) \in Seq(MensajePcb \union MensajeLista)
         /\ canalRespuesta # << >> =>
              /\ Head(canalRespuesta) = canalRespuesta[1]
              /\ Head(canalRespuesta) \in Respuesta
              /\ Tail(canalRespuesta) \in Seq(Respuesta)
  BY DEF TypeOK

\* What the Kernel keeps of an answer is a PCB.
LEMMA ActualizadoEsPcb ==
  ASSUME NEW f \in [estado : EstadoPcb, programCounter : Nat, tiempoDeBloqueo : Nat],
         NEW m \in Respuesta
  PROVE  Actualizado(f, m) \in [estado : EstadoPcb, programCounter : Nat, tiempoDeBloqueo : Nat]
  BY DEF Actualizado, EstadoTras, Respuesta, EstadoPcb

\* What the CPU sends back is an answer.
LEMMA ResponderTipos ==
  ASSUME TypeOK, cpu.pid \in Proc, NEW h \in {"desalojado", "bloqueado", "terminado"},
         NEW n \in Nat, NEW t \in Nat, Responder(h, n, t)
  PROVE  canalRespuesta' \in Seq(Respuesta)
  <1>1. [header |-> h, pid |-> cpu.pid, programCounter |-> n, tiempoDeBloqueo |-> t] \in Respuesta
    BY DEF Respuesta
  <1>2. QED
    BY <1>1 DEF Responder, TypeOK

\* While the cycle runs, it runs the process in EXEC.
LEMMA EnCpuSiEjecuta ==
  ASSUME IInv, cpu.en \in {"fetch", "exec", "interrupcion"}
  PROVE  EnCpu /\ enExec \in Proc /\ cpu.pid = enExec
  BY DEF IInv, Viaje, EnReposo, Elegido, Tranquilos, PcbEnCamino, PcbRecibido, TodoEnCamino,
         ListaEnCamino, RespuestaEnCamino, EnCpu

\* Every step preserves the types.
LEMMA PasoTipos ==
  ASSUME IInv, [Next]_vars
  PROVE  TypeOK'
  <1> USE DEF IInv
  <1>1. ASSUME NEW p \in Proc, Elegir(p) PROVE TypeOK'
    BY <1>1 DEF TypeOK, Elegir, varsCpu, EstadoPcb
  <1>2. CASE EnviarPcb
    <2>1. enExec \in Proc
      BY <1>2 DEF EnviarPcb, Viaje, EnReposo
    <2>2. ASSUME NEW h \in {"pcb_a_ejecutar", "pcb_a_ejecutar_ultimo_suspendido"}
          PROVE  [header |-> h, pid |-> enExec, programCounter |-> pcb[enExec].programCounter]
                   \in MensajePcb
      BY <2>1 DEF TypeOK, MensajePcb
    <2>3. canalDispatch' \in Seq(MensajePcb \union MensajeLista)
      BY <1>2, <2>2 DEF EnviarPcb, TypeOK
    <2>4. QED
      BY <1>2, <2>3 DEF TypeOK, EnviarPcb, varsCpu
  <1>3. CASE EnviarLista
    <2>1. enExec \in Proc
      BY <1>3 DEF EnviarLista, Viaje, EnReposo
    <2>2. [header |-> "lista_instrucciones", instrucciones |-> Programa[enExec]] \in MensajeLista
      BY <2>1, ProgramaAssumption DEF MensajeLista
    <2>3. canalDispatch' \in Seq(MensajePcb \union MensajeLista)
      BY <1>3, <2>2 DEF EnviarLista, TypeOK
    <2>4. QED
      BY <1>3, <2>3 DEF TypeOK, EnviarLista, varsCpu
  <1>4. CASE RecibirRespuesta
    <2>1. enExec \in Proc
      BY <1>4 DEF RecibirRespuesta, Viaje, EnReposo
    <2>2. pcb' \in [Proc -> [estado : EstadoPcb, programCounter : Nat, tiempoDeBloqueo : Nat]]
      <3>1. Actualizado(pcb[enExec], Head(canalRespuesta))
              \in [estado : EstadoPcb, programCounter : Nat, tiempoDeBloqueo : Nat]
        BY <1>4, <2>1, Mensajes, ActualizadoEsPcb DEF RecibirRespuesta, TypeOK
      <3>2. QED
        BY <1>4, <2>1, <3>1 DEF RecibirRespuesta, TypeOK
    <2>3. canalRespuesta' \in Seq(Respuesta)
      BY <1>4, Mensajes DEF RecibirRespuesta
    <2>4. QED
      BY <1>4, <2>2, <2>3 DEF RecibirRespuesta, TypeOK, varsCpu
  <1>5. ASSUME NEW p \in Proc, VolverAReady(p) PROVE TypeOK'
    BY <1>5 DEF TypeOK, VolverAReady, varsCpu, EstadoPcb
  <1>6. CASE EvaluarDesalojo
    <2>1. canalInterrupt' \in Nat
      BY <1>6 DEF TypeOK, EvaluarDesalojo
    <2>2. QED
      BY <1>6, <2>1 DEF TypeOK, EvaluarDesalojo, varsCpu
  <1>7. CASE CpuRecibirPcb
    <2>1. Head(canalDispatch).header # "lista_instrucciones" => Head(canalDispatch) \in MensajePcb
      BY <1>7, Mensajes DEF CpuRecibirPcb, MensajeLista
    <2>2. cpu' \in Cpu
      BY <1>7, <2>1 DEF CpuRecibirPcb, TypeOK, Cpu, MensajePcb
    <2>3. tlb' \subseteq Proc /\ pidProcesoEnExec' \in Proc \union {Ninguno}
      BY <1>7, <2>1 DEF CpuRecibirPcb, TypeOK, Flush, MensajePcb
    <2>4. canalDispatch' \in Seq(MensajePcb \union MensajeLista)
      BY <1>7, Mensajes DEF CpuRecibirPcb
    <2>5. QED
      BY <1>7, <2>2, <2>3, <2>4 DEF CpuRecibirPcb, TypeOK, varsKernel
  <1>8. CASE CpuRecibirLista
    <2>1. Head(canalDispatch).header = "lista_instrucciones" => Head(canalDispatch) \in MensajeLista
      BY <1>8, Mensajes DEF CpuRecibirLista, MensajePcb
    <2>2. cpu' \in Cpu
      BY <1>8, <2>1 DEF CpuRecibirLista, TypeOK, Cpu, MensajeLista
    <2>3. canalDispatch' \in Seq(MensajePcb \union MensajeLista)
      BY <1>8, Mensajes DEF CpuRecibirLista
    <2>4. QED
      BY <1>8, <2>2, <2>3 DEF CpuRecibirLista, TypeOK, varsKernel
  <1>9. CASE CpuFetch
    <2>1. EnCpu /\ enExec \in Proc /\ cpu.pid = enExec
      BY <1>9, EnCpuSiEjecuta DEF CpuFetch
    <2>2. Actual \in Instruccion /\ (Actual.tipo = "COPY" => Actual.op2 \in Dir)
      BY <2>1, ActualEsInstruccion
    <2>3. (IF Actual.tipo = "COPY" THEN datos[cpu.pid][Actual.op2] ELSE Actual.op2) \in Nat
      BY <2>1, <2>2 DEF TypeOK, Instruccion
    <2>4. cpu' \in Cpu
      BY <1>9, <2>3 DEF CpuFetch, TypeOK, Cpu
    <2>5. tlb' \subseteq Proc
      BY <1>9, <2>1 DEF CpuFetch, TypeOK
    <2>6. QED
      BY <1>9, <2>4, <2>5 DEF CpuFetch, TypeOK, varsKernel
  <1>10. CASE CpuExec
    <2>1. EnCpu /\ enExec \in Proc /\ cpu.pid = enExec
      BY <1>10, EnCpuSiEjecuta DEF CpuExec
    <2>2. cpu' \in Cpu
      <3>1. cpu.programCounter + 1 \in Nat
        BY DEF TypeOK, Cpu
      <3>2. QED
        BY <1>10, <3>1 DEF CpuExec, TypeOK, Cpu
    <2>3. tlb' \subseteq Proc
      BY <1>10, <2>1 DEF CpuExec, TypeOK
    <2>4. datos' \in [Proc -> [Dir -> Nat]]
      <3>1. datos[cpu.pid] \in [Dir -> Nat] /\ cpu.operando2 \in Nat
        BY <2>1 DEF TypeOK, Cpu
      <3>2. Escrito(datos[cpu.pid]) \in [Dir -> Nat]
        BY <3>1 DEF Escrito
      <3>3. QED
        BY <1>10, <2>1, <3>2 DEF CpuExec, TypeOK
    <2>5. QED
      BY <1>10, <2>2, <2>3, <2>4 DEF CpuExec, TypeOK, varsKernel
  <1>11. CASE CpuExecDetener
    <2>1. EnCpu /\ enExec \in Proc /\ cpu.pid = enExec
      BY <1>11, EnCpuSiEjecuta DEF CpuExecDetener
    <2>2. cpu.programCounter + 1 \in Nat /\ Actual.op1 \in Nat
      BY <2>1, ActualEsInstruccion, SMTT(20) DEF TypeOK, Cpu, Instruccion
    <2>3. canalRespuesta' \in Seq(Respuesta)
      BY <1>11, <2>1, <2>2, ResponderTipos DEF CpuExecDetener
    <2>4. cpu' \in Cpu
      <3>1. cpu.programCounter + 1 \in Nat
        BY DEF TypeOK, Cpu
      <3>2. QED
        BY <1>11, <3>1 DEF CpuExecDetener, TypeOK, Cpu
    <2>5. QED
      BY <1>11, <2>3, <2>4 DEF CpuExecDetener, TypeOK, varsKernel
  <1>12. CASE CpuAtenderInterrupcion
    <2>1. EnCpu /\ enExec \in Proc /\ cpu.pid = enExec
      BY <1>12, EnCpuSiEjecuta DEF CpuAtenderInterrupcion
    <2>2. canalRespuesta' \in Seq(Respuesta)
      BY <1>12, <2>1, ResponderTipos DEF CpuAtenderInterrupcion, TypeOK, Cpu
    <2>3. cpu' \in Cpu
      BY <1>12 DEF CpuAtenderInterrupcion, TypeOK, Cpu
    <2>4. QED
      BY <1>12, <2>2, <2>3 DEF CpuAtenderInterrupcion, TypeOK, varsKernel
  <1>13. CASE CpuRecibirInterrupcion
    BY <1>13 DEF CpuRecibirInterrupcion, TypeOK, varsKernel
  <1>14. CASE UNCHANGED vars
    BY <1>14 DEF TypeOK, vars, varsKernel, varsCpu
  <1>15. QED
    BY <1>1, <1>2, <1>3, <1>4, <1>5, <1>6, <1>7, <1>8, <1>9, <1>10, <1>11, <1>12, <1>13, <1>14
       DEF Next, AtenderPcb, HiloDispatch

-----------------------------------------------------------------------------
(* The trip of a PCB. Each action is possible at one or two stages of it.  *)

\* The stages at which the Kernel or the CPU can take a given step.
LEMMA Etapas ==
  ASSUME IInv
  PROVE  /\ atender = "esperar" => EnReposo
         /\ atender # "esperar" => enExec \in Proc
         /\ atender = "enviarPcb" => Elegido
         /\ atender = "enviarLista" => PcbEnCamino \/ PcbRecibido
         /\ atender = "esperarCpu" /\ canalRespuesta # << >> => RespuestaEnCamino
         /\ cpu.en = "recibirPcb" /\ canalDispatch # << >> => PcbEnCamino \/ TodoEnCamino
         /\ cpu.en = "recibirLista" /\ canalDispatch # << >> => ListaEnCamino
         /\ cpu.en # "caida" /\ atender # "caido"
  BY DEF IInv, Viaje, EnReposo, Elegido, Tranquilos, PcbEnCamino, PcbRecibido, TodoEnCamino,
         ListaEnCamino, RespuestaEnCamino, EnCpu, Ejecutando

\* What the Kernel has of the process in EXEC, and that there is only one.
LEMMA EnExec ==
  ASSUME IInv, enExec \in Proc
  PROVE  /\ pcb[enExec].estado = "EXEC"
         /\ pcb[enExec].programCounter \in Nat /\ Len(Programa[enExec]) \in Nat
         /\ pcb[enExec].programCounter < Len(Programa[enExec])
  <1>1. pcb[enExec].programCounter \in Nat /\ Len(Programa[enExec]) \in Nat
    BY ProgramaAssumption DEF IInv, TypeOK
  <1>2. QED
    BY <1>1 DEF IInv, PcbsAlDia, Consta

\* A message in an empty socket is the only one there.
LEMMA UnMensaje ==
  ASSUME NEW S, NEW s \in Seq(S), NEW m \in S
  PROVE  /\ s = << >> => Len(Append(s, m)) = 1 /\ Append(s, m)[1] = m
         /\ Len(s) = 1 => Len(Append(s, m)) = 2 /\ Append(s, m)[1] = s[1] /\ Append(s, m)[2] = m
         /\ Len(s) = 1 => Tail(s) = << >>
         /\ Len(s) = 2 => Len(Tail(s)) = 1 /\ Tail(s)[1] = s[2]
  <1>1. ASSUME Len(s) = 1 PROVE Tail(s) = << >>
    <2>1. s # << >>
      BY <1>1, EmptySeq
    <2>2. Tail(s) \in Seq(S) /\ Len(Tail(s)) = 0
      BY <1>1, <2>1, HeadTailProperties
    <2>3. QED
      BY <2>2, EmptySeq
  <1>2. ASSUME Len(s) = 2 PROVE Len(Tail(s)) = 1 /\ Tail(s)[1] = s[2]
    BY <1>2, EmptySeq, HeadTailProperties, SMTT(20)
  <1>3. ASSUME s = << >> PROVE Len(Append(s, m)) = 1 /\ Append(s, m)[1] = m
    BY <1>3, EmptySeq, AppendProperties
  <1>4. ASSUME Len(s) = 1
        PROVE  Len(Append(s, m)) = 2 /\ Append(s, m)[1] = s[1] /\ Append(s, m)[2] = m
    <2>1. Len(Append(s, m)) = Len(s) + 1 /\ Append(s, m)[Len(s) + 1] = m
          /\ \A k \in 1..Len(s) : Append(s, m)[k] = s[k]
      BY AppendProperties
    <2>2. QED
      BY <1>4, <2>1
  <1>5. QED
    BY <1>1, <1>2, <1>3, <1>4

\* The steps of the Kernel move the trip one stage on.
LEMMA PasoKernel ==
  ASSUME IInv, TypeOK', AtenderPcb
  PROVE  Viaje' /\ PcbsAlDia'
  <1>1. ASSUME NEW p \in Proc, Elegir(p) PROVE Viaje' /\ PcbsAlDia'
    <2>1. EnReposo
      BY <1>1, Etapas DEF Elegir
    <2>2. Elegido' /\ enExec' \in Proc
      BY <1>1, <2>1 DEF Elegir, EnReposo, Elegido, Tranquilos, varsCpu
    <2>3. PcbsAlDia'
      <3> SUFFICES ASSUME NEW q \in Proc
                   PROVE  /\ pcb'[q].estado = "EXEC" <=> q = p
                          /\ Consta(q, pcb'[q].estado, pcb'[q].programCounter, pcb'[q].tiempoDeBloqueo)
        BY <1>1 DEF PcbsAlDia, Elegir, Consta
      <3>1. /\ pcb[q].estado # "EXEC"
            /\ Consta(q, pcb[q].estado, pcb[q].programCounter, pcb[q].tiempoDeBloqueo)
        BY <2>1, NingunoAssumption DEF IInv, PcbsAlDia, EnReposo
      <3>2. CASE q = p
        BY <1>1, <3>1, <3>2 DEF Elegir, IInv, TypeOK, Consta
      <3>3. CASE q # p
        BY <1>1, <3>1, <3>3 DEF Elegir, IInv, TypeOK
      <3>4. QED
        BY <3>2, <3>3
    <2>4. QED
      BY <2>2, <2>3 DEF Viaje
  <1>2. CASE EnviarPcb
    <2>1. Elegido /\ enExec \in Proc
      BY <1>2, Etapas DEF EnviarPcb
    <2>2. PICK h \in {"pcb_a_ejecutar", "pcb_a_ejecutar_ultimo_suspendido"} :
            canalDispatch' = Append(canalDispatch,
              [header |-> h, pid |-> enExec, programCounter |-> pcb[enExec].programCounter])
      BY <1>2 DEF EnviarPcb
    <2>3. EsPcb([header |-> h, pid |-> enExec, programCounter |-> pcb[enExec].programCounter])
      BY <2>1, EnExec DEF EsPcb, MensajePcb
    <2>4. Len(canalDispatch') = 1 /\ EsPcb(canalDispatch'[1])
      BY <2>1, <2>2, <2>3, UnMensaje DEF EsPcb, Elegido, Tranquilos, IInv, TypeOK
    <2>5. PcbEnCamino' /\ enExec' \in Proc
      BY <1>2, <2>1, <2>4 DEF EnviarPcb, PcbEnCamino, Elegido, Tranquilos, EsPcb, varsCpu
    <2>6. QED
      BY <1>2, <2>5 DEF Viaje, EnviarPcb, IInv, PcbsAlDia, Consta
  <1>3. CASE EnviarLista
    <2>1. enExec \in Proc /\ enExec' = enExec /\ pcb' = pcb /\ cpu' = cpu
          /\ canalRespuesta' = canalRespuesta /\ atender' = "esperarCpu"
      BY <1>3, Etapas DEF EnviarLista, varsCpu
    <2>2. EsLista([header |-> "lista_instrucciones", instrucciones |-> Programa[enExec]])
      BY <2>1, ProgramaAssumption DEF EsLista, MensajeLista
    <2>3. CASE PcbEnCamino
      <3>1. /\ Len(canalDispatch') = 2
            /\ EsPcb(canalDispatch'[1]) /\ EsLista(canalDispatch'[2])
        <4> DEFINE m == [header |-> "lista_instrucciones", instrucciones |-> Programa[enExec]]
        <4>1. m \in MensajePcb \union MensajeLista /\ EsLista(m)
          BY <2>2 DEF EsLista
        <4>2. canalDispatch' = Append(canalDispatch, m) /\ Len(canalDispatch) = 1
              /\ EsPcb(canalDispatch[1])
          BY <1>3, <2>3 DEF EnviarLista, PcbEnCamino
        <4> HIDE DEF m
        <4>3. Len(canalDispatch') = 2 /\ canalDispatch'[1] = canalDispatch[1] /\ canalDispatch'[2] = m
          <5>1. canalDispatch \in Seq(MensajePcb \union MensajeLista)
            BY DEF IInv, TypeOK
          <5>2. /\ Len(Append(canalDispatch, m)) = 2
                /\ Append(canalDispatch, m)[1] = canalDispatch[1]
                /\ Append(canalDispatch, m)[2] = m
            BY <4>1, <4>2, <5>1, UnMensaje
          <5>3. QED
            BY <4>2, <5>2
        <4>4. QED
          BY <4>1, <4>2, <4>3
      <3>2. TodoEnCamino'
        BY <2>1, <2>3, <3>1 DEF TodoEnCamino, PcbEnCamino, EsPcb, EsLista
      <3>3. QED
        BY <2>1, <3>2 DEF Viaje, IInv, PcbsAlDia, Consta
    <2>4. CASE PcbRecibido
      <3>1. Len(canalDispatch') = 1 /\ EsLista(canalDispatch'[1])
        BY <1>3, <2>2, <2>4, UnMensaje DEF EnviarLista, EsLista, PcbRecibido, IInv, TypeOK
      <3>2. ListaEnCamino'
        BY <2>1, <2>4, <3>1 DEF ListaEnCamino, PcbRecibido, CpuAlDia, EsLista
      <3>3. QED
        BY <2>1, <3>2 DEF Viaje, IInv, PcbsAlDia, Consta
    <2>5. QED
      BY <1>3, <2>3, <2>4, Etapas DEF EnviarLista
  <1>4. CASE RecibirRespuesta
    <2> DEFINE m == Head(canalRespuesta)
    <2>1. RespuestaEnCamino /\ enExec \in Proc
      BY <1>4, Etapas DEF RecibirRespuesta
    <2>2. m = canalRespuesta[1] /\ m \in Respuesta /\ canalRespuesta' = << >>
      BY <1>4, <2>1, Mensajes, UnMensaje DEF RecibirRespuesta, RespuestaEnCamino, IInv, TypeOK
    <2>3. /\ m.pid = enExec
          /\ Consta(enExec, EstadoTras(m.header), m.programCounter, m.tiempoDeBloqueo)
      BY <2>1, <2>2 DEF RespuestaEnCamino
    <2>4. /\ pcb' = [pcb EXCEPT ![enExec] = Actualizado(@, m)]
          /\ atender' = "esperar" /\ enExec' = Ninguno
      BY <1>4, <2>3 DEF RecibirRespuesta
    <2> HIDE DEF m
    <2>5. EnReposo'
      BY <1>4, <2>1, <2>2, <2>4 DEF RecibirRespuesta, EnReposo, Tranquilos, RespuestaEnCamino, varsCpu
    <2>6. PcbsAlDia'
      <3> SUFFICES ASSUME NEW q \in Proc
                   PROVE  /\ pcb'[q].estado # "EXEC"
                          /\ Consta(q, pcb'[q].estado, pcb'[q].programCounter, pcb'[q].tiempoDeBloqueo)
        BY <2>4, NingunoAssumption DEF PcbsAlDia, Consta
      <3>1. CASE q = enExec
        <4>1. pcb'[q] = Actualizado(pcb[q], m)
          BY <2>4, <3>1 DEF IInv, TypeOK
        <4>2. /\ pcb'[q].estado = EstadoTras(m.header)
              /\ pcb'[q].programCounter = m.programCounter
              /\ m.header = "bloqueado" => pcb'[q].tiempoDeBloqueo = m.tiempoDeBloqueo
          BY <4>1 DEF Actualizado
        <4>3. EstadoTras(m.header) # "EXEC" /\ (EstadoTras(m.header) = "BLOCKED" => m.header = "bloqueado")
          BY <2>2 DEF EstadoTras, Respuesta
        <4>4. QED
          BY <2>3, <3>1, <4>2, <4>3 DEF Consta
      <3>2. CASE q # enExec
        BY <2>4, <3>2 DEF IInv, TypeOK, PcbsAlDia
      <3>3. QED
        BY <3>1, <3>2
    <2>7. QED
      BY <2>5, <2>6 DEF Viaje
  <1>5. QED
    BY <1>1, <1>2, <1>3, <1>4 DEF AtenderPcb

\* So do those of the dispatch thread.
LEMMA PasoDispatch ==
  ASSUME IInv, TypeOK', HiloDispatch
  PROVE  Viaje' /\ PcbsAlDia'
  <1>1. /\ atender' = atender /\ enExec' = enExec /\ pcb' = pcb
    BY DEF HiloDispatch, CpuRecibirPcb, CpuRecibirLista, CpuFetch, CpuExec, CpuExecDetener,
           CpuAtenderInterrupcion, varsKernel
  <1>2. PcbsAlDia'
    BY <1>1 DEF IInv, PcbsAlDia, Consta
  <1>3. CASE CpuRecibirPcb
    <2>1. PcbEnCamino \/ TodoEnCamino
      BY <1>3, Etapas DEF CpuRecibirPcb
    <2>2. EsPcb(Head(canalDispatch))
      BY <1>3, <2>1, Mensajes DEF IInv, PcbEnCamino, TodoEnCamino, CpuRecibirPcb
    <2>3. cpu' = [cpu EXCEPT !.en = "recibirLista", !.pid = enExec,
                             !.programCounter = pcb[enExec].programCounter]
      BY <1>3, <2>2 DEF CpuRecibirPcb, EsPcb, MensajePcb
    <2>4. cpu'.en = "recibirLista" /\ CpuAlDia'
      BY <1>1, <2>3 DEF CpuAlDia, IInv, TypeOK, Cpu
    <2>5. CASE PcbEnCamino
      <3>1. PcbRecibido'
        BY <1>1, <1>3, <2>4, <2>5, UnMensaje DEF PcbEnCamino, PcbRecibido, CpuRecibirPcb, IInv, TypeOK
      <3>2. QED
        BY <1>1, <1>2, <1>3, <3>1, Etapas DEF Viaje, PcbRecibido
    <2>6. CASE TodoEnCamino
      <3>1. Len(canalDispatch') = 1 /\ EsLista(canalDispatch'[1])
        BY <1>3, <2>6, UnMensaje DEF TodoEnCamino, CpuRecibirPcb, IInv, TypeOK
      <3>2. ListaEnCamino'
        BY <1>1, <1>3, <2>4, <2>6, <3>1 DEF TodoEnCamino, ListaEnCamino, CpuRecibirPcb, EsLista
      <3>3. QED
        BY <1>1, <1>2, <3>2, Etapas DEF Viaje, ListaEnCamino
    <2>7. QED
      BY <2>1, <2>5, <2>6
  <1>4. CASE CpuRecibirLista
    <2>1. ListaEnCamino /\ enExec \in Proc
      BY <1>4, Etapas DEF CpuRecibirLista, ListaEnCamino
    <2>2. EsLista(Head(canalDispatch)) /\ canalDispatch' = << >>
      BY <1>4, <2>1, Mensajes, UnMensaje, SMTT(20) DEF IInv, ListaEnCamino, CpuRecibirLista, TypeOK
    <2>3. cpu' = [cpu EXCEPT !.en = "fetch", !.instrucciones = Programa[enExec]]
      BY <1>4, <2>2 DEF CpuRecibirLista, EsLista, MensajeLista
    <2>4. EnCpu'
      <3>1. /\ cpu'.en = "fetch" /\ cpu'.pid = enExec /\ cpu'.instrucciones = Programa[enExec]
            /\ cpu'.programCounter = pcb[enExec].programCounter
        BY <2>1, <2>3 DEF ListaEnCamino, CpuAlDia, IInv, TypeOK, Cpu
      <3>2. canalRespuesta' = << >> /\ atender = "esperarCpu"
        BY <1>4, <2>1 DEF ListaEnCamino, CpuRecibirLista
      <3>3. QED
        BY <1>1, <2>1, <2>2, <3>1, <3>2, EnExec DEF EnCpu, Ejecutando
    <2>5. QED
      BY <1>1, <1>2, <2>1, <2>4 DEF Viaje
  <1> DEFINE En == cpu.en \in {"fetch", "exec", "interrupcion"}
  <1>5. ASSUME En
        PROVE  /\ EnCpu /\ enExec \in Proc /\ cpu.pid = enExec
               /\ Actual = Programa[enExec][cpu.programCounter + 1]
               /\ Actual.tipo = "EXIT" <=> cpu.programCounter + 1 = Len(Programa[enExec])
               /\ cpu.programCounter \in Nat /\ Len(Programa[enExec]) \in Nat
               /\ pcb[enExec].programCounter \in Nat
    BY <1>5, EnCpuSiEjecuta, ActualEsInstruccion, EnExec DEF IInv, TypeOK, Cpu
  <1>6. CASE CpuFetch
    <2>1. EnCpu /\ enExec \in Proc
      BY <1>5, <1>6 DEF CpuFetch
    <2>2. /\ cpu'.en = "exec" /\ cpu'.pid = cpu.pid /\ cpu'.programCounter = cpu.programCounter
          /\ cpu'.instrucciones = cpu.instrucciones
          /\ cpu'.operando2 = IF Actual.tipo = "COPY" THEN datos[cpu.pid][Actual.op2] ELSE Actual.op2
      BY <1>6 DEF CpuFetch, IInv, TypeOK, Cpu
    <2>3. Actual' = Actual /\ datos' = datos
      BY <1>6, <2>2 DEF Actual, CpuFetch
    <2>4. EnCpu'
      BY <1>1, <1>6, <2>1, <2>2, <2>3 DEF EnCpu, CpuFetch, Ejecutando
    <2>5. QED
      BY <1>1, <1>2, <2>1, <2>4 DEF Viaje
  <1>7. CASE CpuExec
    <2>1. EnCpu /\ enExec \in Proc
      BY <1>5, <1>7 DEF CpuExec
    <2>2. /\ cpu'.en = "interrupcion" /\ cpu'.pid = cpu.pid
          /\ cpu'.programCounter = cpu.programCounter + 1 /\ cpu'.instrucciones = cpu.instrucciones
      BY <1>7 DEF CpuExec, IInv, TypeOK, Cpu
    <2>3. cpu.programCounter + 1 # Len(Programa[enExec])
      BY <1>5, <1>7 DEF CpuExec
    <2>4. EnCpu'
      BY <1>1, <1>5, <1>7, <2>1, <2>2, <2>3 DEF EnCpu, CpuExec, Ejecutando
    <2>5. QED
      BY <1>1, <1>2, <2>1, <2>4 DEF Viaje
  <1>8. CASE CpuExecDetener
    <2>1. EnCpu /\ enExec \in Proc
      BY <1>5, <1>8 DEF CpuExecDetener
    <2> DEFINE m == IF Actual.tipo = "IO"
                    THEN [header |-> "bloqueado", pid |-> cpu.pid,
                          programCounter |-> cpu.programCounter + 1, tiempoDeBloqueo |-> Actual.op1]
                    ELSE [header |-> "terminado", pid |-> cpu.pid,
                          programCounter |-> cpu.programCounter + 1, tiempoDeBloqueo |-> 0]
    <2>2. canalRespuesta' = Append(canalRespuesta, m)
      BY <1>8 DEF CpuExecDetener, Responder
    <2>3. /\ m.pid = enExec /\ m.programCounter > pcb[enExec].programCounter
          /\ Consta(enExec, EstadoTras(m.header), m.programCounter, m.tiempoDeBloqueo)
      BY <1>5, <1>8, <2>1 DEF CpuExecDetener, EnCpu, Consta, EstadoTras
    <2> HIDE DEF m
    <2>4. Len(canalRespuesta') = 1 /\ canalRespuesta'[1] = m
      BY <2>1, <2>2 DEF EnCpu
    <2>5. cpu'.en = "recibirPcb"
      BY <1>8 DEF CpuExecDetener, IInv, TypeOK, Cpu
    <2>6. RespuestaEnCamino'
      BY <1>1, <1>8, <2>1, <2>3, <2>4, <2>5 DEF RespuestaEnCamino, EnCpu, CpuExecDetener, Consta
    <2>7. QED
      BY <1>1, <1>2, <2>1, <2>6 DEF Viaje
  <1>9. CASE CpuAtenderInterrupcion
    <2>1. EnCpu /\ enExec \in Proc /\ cpu.pid = enExec
      BY <1>5, <1>9 DEF CpuAtenderInterrupcion
    <2>2. CASE hayInterrupcion
      <3> DEFINE m == [header |-> "desalojado", pid |-> cpu.pid,
                       programCounter |-> cpu.programCounter, tiempoDeBloqueo |-> 0]
      <3>1. canalRespuesta' = Append(canalRespuesta, m) /\ cpu' = [cpu EXCEPT !.en = "recibirPcb"]
        BY <1>9, <2>2 DEF CpuAtenderInterrupcion, Responder
      <3>2. /\ m.pid = enExec /\ m.programCounter > pcb[enExec].programCounter
            /\ Consta(enExec, EstadoTras(m.header), m.programCounter, m.tiempoDeBloqueo)
        BY <1>5, <1>9, <2>1 DEF CpuAtenderInterrupcion, EnCpu, Consta, EstadoTras
      <3> HIDE DEF m
      <3>3. Len(canalRespuesta') = 1 /\ canalRespuesta'[1] = m
        BY <2>1, <3>1 DEF EnCpu
      <3>4. cpu'.en = "recibirPcb"
        BY <3>1 DEF IInv, TypeOK, Cpu
      <3>5. RespuestaEnCamino'
        BY <1>1, <1>9, <2>1, <3>2, <3>3, <3>4
           DEF RespuestaEnCamino, EnCpu, CpuAtenderInterrupcion, Consta
      <3>6. QED
        BY <1>1, <1>2, <2>1, <3>5 DEF Viaje
    <2>3. CASE ~hayInterrupcion
      <3>1. /\ cpu'.en = "fetch" /\ cpu'.pid = cpu.pid /\ cpu'.programCounter = cpu.programCounter
            /\ cpu'.instrucciones = cpu.instrucciones /\ canalRespuesta' = canalRespuesta
        BY <1>9, <2>3 DEF CpuAtenderInterrupcion, IInv, TypeOK, Cpu
      <3>2. EnCpu'
        BY <1>1, <1>9, <2>1, <3>1 DEF EnCpu, CpuAtenderInterrupcion, Ejecutando
      <3>3. QED
        BY <1>1, <1>2, <2>1, <3>2 DEF Viaje
    <2>4. QED
      BY <2>2, <2>3
  <1>10. QED
    BY <1>3, <1>4, <1>6, <1>7, <1>8, <1>9 DEF HiloDispatch

-----------------------------------------------------------------------------
(* The invariant.                                                          *)

\* What is left: I/O that ends, interrupts, and the account of the TLB.
LEMMA PasoIInv == IInv /\ [Next]_vars => IInv'
  <1> SUFFICES ASSUME IInv, [Next]_vars PROVE IInv'
    OBVIOUS
  <1>1. TypeOK'
    BY PasoTipos
  <1>2. Viaje' /\ PcbsAlDia'
    <2>1. CASE AtenderPcb
      BY <1>1, <2>1, PasoKernel
    <2>2. CASE HiloDispatch
      BY <1>1, <2>2, PasoDispatch
    <2>3. ASSUME NEW p \in Proc, VolverAReady(p) PROVE Viaje' /\ PcbsAlDia'
      <3>1. p # enExec
        BY <2>3, EnExec DEF VolverAReady
      <3>2. /\ pcb' = [pcb EXCEPT ![p].estado = "READY"]
            /\ UNCHANGED <<atender, enExec, canalDispatch, canalRespuesta, cpu, datos>>
        BY <2>3 DEF VolverAReady, varsCpu
      <3>3. enExec \in Proc => pcb'[enExec] = pcb[enExec]
        BY <3>1, <3>2 DEF IInv, TypeOK
      <3>4. Viaje'
        <4>1. EnReposo => EnReposo'
          BY <3>2 DEF EnReposo, Tranquilos
        <4>2. enExec \in Proc =>
                 /\ Elegido => Elegido'
                 /\ PcbEnCamino => PcbEnCamino'
                 /\ PcbRecibido => PcbRecibido'
                 /\ TodoEnCamino => TodoEnCamino'
          BY <3>2, <3>3 DEF Elegido, Tranquilos, PcbEnCamino, PcbRecibido, TodoEnCamino, EsPcb,
                            EsLista, CpuAlDia
        <4>3. enExec \in Proc =>
                 /\ ListaEnCamino => ListaEnCamino'
                 /\ RespuestaEnCamino => RespuestaEnCamino'
          BY <3>2, <3>3 DEF ListaEnCamino, RespuestaEnCamino, EsLista, CpuAlDia, Consta
        <4>4. enExec \in Proc => (EnCpu => EnCpu')
          BY <3>2, <3>3 DEF EnCpu, Ejecutando, Actual
        <4>5. QED
          BY <3>2, <4>1, <4>2, <4>3, <4>4 DEF Viaje, IInv
      <3>5. PcbsAlDia'
        <4> SUFFICES ASSUME NEW q \in Proc
                     PROVE  /\ pcb'[q].estado = "EXEC" <=> q = enExec
                            /\ Consta(q, pcb'[q].estado, pcb'[q].programCounter,
                                      pcb'[q].tiempoDeBloqueo)
          BY <3>2 DEF PcbsAlDia, Consta
        <4>1. /\ pcb[q].estado = "EXEC" <=> q = enExec
              /\ Consta(q, pcb[q].estado, pcb[q].programCounter, pcb[q].tiempoDeBloqueo)
          BY DEF IInv, PcbsAlDia
        <4>2. CASE q = p
          BY <2>3, <3>1, <3>2, <4>1, <4>2 DEF VolverAReady, Consta, IInv, TypeOK
        <4>3. CASE q # p
          BY <3>2, <4>1, <4>3 DEF IInv, TypeOK
        <4>4. QED
          BY <4>2, <4>3
      <3>6. QED
        BY <3>4, <3>5
    <2>4. CASE EvaluarDesalojo \/ CpuRecibirInterrupcion \/ UNCHANGED vars
      <3>1. UNCHANGED <<atender, enExec, pcb, canalDispatch, canalRespuesta, cpu, datos>>
        BY <2>4 DEF EvaluarDesalojo, CpuRecibirInterrupcion, vars, varsKernel, varsCpu
      <3>2. Viaje'
        BY <3>1 DEF IInv, Viaje, EnReposo, Elegido, Tranquilos, PcbEnCamino, PcbRecibido, TodoEnCamino,
                    ListaEnCamino, RespuestaEnCamino, EnCpu, EsPcb, EsLista, CpuAlDia, Consta,
                    Ejecutando, Actual
      <3>3. PcbsAlDia'
        BY <3>1 DEF IInv, PcbsAlDia, Consta
      <3>4. QED
        BY <3>2, <3>3
    <2>5. QED
      BY <2>1, <2>2, <2>3, <2>4 DEF Next
  <1>3. TlbAlDia'
    <2>1. ASSUME UNCHANGED <<tlb, pidProcesoEnExec, cpu>> PROVE TlbAlDia'
      BY <2>1 DEF IInv, TlbAlDia
    <2>2. CASE CpuRecibirPcb
      <3>1. cpu'.en # "caida"
        BY <1>1, <1>2, <2>2, Etapas DEF CpuRecibirPcb, Viaje, EnReposo, Elegido, Tranquilos,
           PcbEnCamino, PcbRecibido, TodoEnCamino, ListaEnCamino, RespuestaEnCamino, EnCpu, Ejecutando
      <3>2. cpu' = [cpu EXCEPT !.en = "recibirLista", !.pid = Head(canalDispatch).pid,
                               !.programCounter = Head(canalDispatch).programCounter]
            /\ Flush(Head(canalDispatch))
        BY <2>2, <3>1 DEF CpuRecibirPcb, IInv, TypeOK, Cpu
      <3>3. QED
        BY <3>2 DEF Flush, IInv, TlbAlDia, TypeOK, Cpu
    <2>3. CASE CpuRecibirLista \/ CpuFetch \/ CpuExec \/ CpuExecDetener \/ CpuAtenderInterrupcion
      <3>1. cpu'.pid = cpu.pid /\ cpu.en # "recibirPcb" /\ pidProcesoEnExec' = pidProcesoEnExec
        BY <2>3 DEF CpuRecibirLista, CpuFetch, CpuExec, CpuExecDetener, CpuAtenderInterrupcion,
                    IInv, TypeOK, Cpu
      <3>2. tlb' \subseteq tlb \union {cpu.pid}
        BY <2>3 DEF CpuRecibirLista, CpuFetch, CpuExec, CpuExecDetener, CpuAtenderInterrupcion
      <3>3. QED
        BY <3>1, <3>2 DEF IInv, TlbAlDia
    <2>4. ASSUME NEW p \in Proc, Elegir(p) \/ VolverAReady(p) PROVE TlbAlDia'
      BY <2>1, <2>4 DEF Elegir, VolverAReady, varsCpu
    <2>5. CASE EnviarPcb \/ EnviarLista \/ RecibirRespuesta \/ EvaluarDesalojo
               \/ CpuRecibirInterrupcion \/ UNCHANGED vars
      BY <2>1, <2>5 DEF EnviarPcb, EnviarLista, RecibirRespuesta, EvaluarDesalojo,
         CpuRecibirInterrupcion, vars, varsCpu
    <2>6. QED
      BY <2>2, <2>3, <2>4, <2>5 DEF Next, AtenderPcb, HiloDispatch
  <1>4. QED
    BY <1>1, <1>2, <1>3 DEF IInv

\* Where a PCB can be, what the messages and both ends hold meanwhile, and whose the TLB is:
\* whatever the programs, the order of arrival and the interrupts.
THEOREM ViajeInvariante == Spec => []IInv
  <1>1. QED
    BY InicioIInv, PasoIInv, PTL DEF Spec

\* Neither the Kernel nor the CPU ends because of a message it did not expect.
THEOREM NadieSeCae == Spec => []NadieCae
  <1>1. IInv => NadieCae
    BY Etapas DEF NadieCae
  <1>2. QED
    BY <1>1, ViajeInvariante, PTL

\* The CPU never reads past the end of a list of instructions.
THEOREM SiempreHayInstruccion == Spec => []HayInstruccion
  <1>1. IInv => HayInstruccion
    BY EnCpuSiEjecuta DEF HayInstruccion, EnCpu
  <1>2. QED
    BY <1>1, ViajeInvariante, PTL

\* No process is translated with the translations of another one.
THEOREM TlbSoloPropia == Spec => []TlbPropia
  <1>1. IInv => TlbPropia
    BY DEF IInv, TlbAlDia, TlbPropia, Ejecutando
  <1>2. QED
    BY <1>1, ViajeInvariante, PTL

\* A blocked process waits for the I/O it asked for last.
THEOREM BloqueoEsElPedido == Spec => []BloqueoPedido
  <1>1. IInv => BloqueoPedido
    BY DEF IInv, PcbsAlDia, Consta, BloqueoPedido
  <1>2. QED
    BY <1>1, ViajeInvariante, PTL

-----------------------------------------------------------------------------
(* Every dispatch gets somewhere.                                          *)

\* A PCB leaves EXEC with an answer, which was sent after an instruction.
THEOREM DespachoAvanza == Spec => CadaDespachoAvanza
  <1>1. ASSUME IInv, [Next]_vars, NEW p \in Proc, pcb[p].estado = "EXEC", pcb'[p].estado # "EXEC"
        PROVE  pcb'[p].programCounter > pcb[p].programCounter
    <2>1. p = enExec /\ enExec \in Proc
      BY <1>1 DEF IInv, PcbsAlDia
    <2>2. CASE RecibirRespuesta
      <3>1. RespuestaEnCamino /\ Head(canalRespuesta) = canalRespuesta[1]
        BY <1>1, <2>2, Etapas, Mensajes DEF RecibirRespuesta, IInv
      <3>2. pcb' = [pcb EXCEPT ![enExec] = Actualizado(@, Head(canalRespuesta))]
        BY <2>2, <3>1 DEF RecibirRespuesta, RespuestaEnCamino
      <3>3. pcb'[p].programCounter = canalRespuesta[1].programCounter
        BY <1>1, <2>1, <3>1, <3>2 DEF Actualizado, IInv, TypeOK
      <3>4. QED
        BY <2>1, <3>1, <3>3 DEF RespuestaEnCamino
    <2>3. ASSUME NEW q \in Proc, Elegir(q) \/ VolverAReady(q) PROVE FALSE
      <3>1. pcb[q].estado # "EXEC"
        BY <2>3 DEF Elegir, VolverAReady
      <3>2. pcb'[p] = pcb[p]
        BY <1>1, <2>3, <3>1 DEF Elegir, VolverAReady, IInv, TypeOK
      <3>3. QED
        BY <1>1, <3>2
    <2>4. CASE EnviarPcb \/ EnviarLista \/ EvaluarDesalojo \/ CpuRecibirInterrupcion \/ HiloDispatch
               \/ UNCHANGED vars
      BY <1>1, <2>4 DEF EnviarPcb, EnviarLista, EvaluarDesalojo, CpuRecibirInterrupcion, HiloDispatch,
         CpuRecibirPcb, CpuRecibirLista, CpuFetch, CpuExec, CpuExecDetener, CpuAtenderInterrupcion,
         vars, varsKernel
    <2>5. QED
      BY <1>1, <2>2, <2>3, <2>4 DEF Next, AtenderPcb
  <1>2. IInv /\ [Next]_vars =>
          [\A p \in Proc :
             pcb[p].estado = "EXEC" /\ pcb'[p].estado # "EXEC" =>
               pcb'[p].programCounter > pcb[p].programCounter]_vars
    BY <1>1
  <1>3. QED
    BY <1>2, ViajeInvariante, PTL DEF Spec, CadaDespachoAvanza

-----------------------------------------------------------------------------
(* The refinement.                                                         *)

\* A step that leaves the program counter and the phase of each process where they were.
LEMMA Invisible ==
  ASSUME \A q \in Proc : ProgramCounter(q)' = ProgramCounter(q) /\ Fase(q)' = Fase(q),
         datos' = datos
  PROVE  UNCHANGED Maquina!vars
  <1>1. [q \in Proc |-> ProgramCounter(q)]' = [q \in Proc |-> ProgramCounter(q)]
    OBVIOUS
  <1>2. [q \in Proc |-> Fase(q)]' = [q \in Proc |-> Fase(q)]
    OBVIOUS
  <1>3. QED
    BY <1>1, <1>2 DEF Maquina!vars

\* An instruction the CPU executes is the next one of the abstract machine.
LEMMA EjecutaUna ==
  ASSUME IInv, IInv', CpuExec \/ CpuExecDetener
  PROVE  Maquina!Ejecutar(enExec)
  <1> DEFINE n == cpu.programCounter
             i == Programa[enExec][n + 1]
  <1>1. EnCpu /\ enExec \in Proc /\ cpu.pid = enExec /\ cpu.en = "exec" /\ Actual = i
        /\ n \in Nat
    BY EnCpuSiEjecuta, ActualEsInstruccion DEF CpuExec, CpuExecDetener, IInv, TypeOK, Cpu
  <1>2. ProgramCounter(enExec) = n /\ Fase(enExec) = "lista"
    BY <1>1, EnExec DEF ProgramCounter, Fase, Respondido, EnCpu, FaseDe
  <1>3. /\ enExec' = enExec /\ pcb' = pcb
        /\ cpu'.pid = enExec /\ cpu'.programCounter = n + 1
    BY <1>1 DEF CpuExec, CpuExecDetener, varsKernel, IInv, TypeOK, Cpu
  <1>4. ProgramCounter(enExec)' = n + 1 /\ Fase(enExec)' = Maquina!FaseTras(i)
    <2>1. CASE CpuExec
      <3>1. canalRespuesta' = << >> /\ cpu'.en = "interrupcion" /\ i.tipo \notin {"IO", "EXIT"}
        BY <1>1, <2>1 DEF CpuExec, EnCpu, IInv, TypeOK, Cpu
      <3>2. QED
        BY <1>1, <1>3, <3>1, EnExec
           DEF ProgramCounter, Fase, Respondido, Ejecutando, FaseDe, Maquina!FaseTras
    <2>2. CASE CpuExecDetener
      <3> DEFINE m == IF i.tipo = "IO"
                      THEN [header |-> "bloqueado", pid |-> cpu.pid,
                            programCounter |-> n + 1, tiempoDeBloqueo |-> i.op1]
                      ELSE [header |-> "terminado", pid |-> cpu.pid,
                            programCounter |-> n + 1, tiempoDeBloqueo |-> 0]
      <3>1. canalRespuesta' = Append(<< >>, m) /\ i.tipo \in {"IO", "EXIT"}
        BY <1>1, <2>2 DEF CpuExecDetener, Responder, EnCpu
      <3>2. /\ m.pid = enExec /\ m.programCounter = n + 1
            /\ m.header = IF i.tipo = "IO" THEN "bloqueado" ELSE "terminado"
        BY <1>1
      <3> HIDE DEF m
      <3>3. canalRespuesta' # << >> /\ Head(canalRespuesta') = m
        BY <3>1
      <3>4. Respondido(enExec)'
        BY <1>3, <3>2, <3>3 DEF Respondido
      <3>5. QED
        BY <1>3, <3>1, <3>2, <3>3, <3>4
           DEF ProgramCounter, Fase, FaseDe, EstadoTras, Maquina!FaseTras
    <2>3. QED
      BY <2>1, <2>2
  <1>5. ASSUME NEW q \in Proc, q # enExec
        PROVE  ProgramCounter(q)' = ProgramCounter(q) /\ Fase(q)' = Fase(q)
    <2>1. ~Respondido(q) /\ ~(Ejecutando /\ cpu.pid = q)
      BY <1>1, <1>5 DEF Respondido, EnCpu
    <2>2. ~(Ejecutando' /\ cpu'.pid = q)
      BY <1>3, <1>5
    <2>3. ~Respondido(q)'
      <3>1. CASE CpuExec
        BY <1>1, <3>1 DEF CpuExec, EnCpu, Respondido
      <3>2. CASE CpuExecDetener
        BY <1>1, <1>5, <3>2 DEF CpuExecDetener, Responder, EnCpu, Respondido
      <3>3. QED
        BY <3>1, <3>2
    <2>4. QED
      BY <1>3, <2>1, <2>2, <2>3 DEF ProgramCounter, Fase
  <1>6. datos' = [datos EXCEPT ![enExec] = Maquina!Resultado(@, i)]
    <2>1. CASE CpuExec
      <3>1. Escrito(datos[enExec]) = Maquina!Resultado(datos[enExec], i)
        BY <1>1 DEF Escrito, Maquina!Resultado, EnCpu
      <3>2. QED
        BY <1>1, <2>1, <3>1 DEF CpuExec
    <2>2. CASE CpuExecDetener
      <3>1. datos' = datos /\ Maquina!Resultado(datos[enExec], i) = datos[enExec]
        BY <1>1, <2>2 DEF CpuExecDetener, Maquina!Resultado
      <3>2. QED
        BY <3>1 DEF IInv, TypeOK
    <2>3. QED
      BY <2>1, <2>2
  <1>7. [q \in Proc |-> ProgramCounter(q)]' =
          [[q \in Proc |-> ProgramCounter(q)] EXCEPT ![enExec] = n + 1]
    <2>1. \A q \in Proc : ProgramCounter(q)' = IF q = enExec THEN n + 1 ELSE ProgramCounter(q)
      BY <1>3, <1>4, <1>5
    <2>2. [q \in Proc |-> ProgramCounter(q)]' =
            [q \in Proc |-> IF q = enExec THEN n + 1 ELSE ProgramCounter(q)]
      BY <2>1
    <2>3. QED
      BY <1>1, <2>2
  <1>8. [q \in Proc |-> Fase(q)]' =
          [[q \in Proc |-> Fase(q)] EXCEPT ![enExec] = Maquina!FaseTras(i)]
    <2>1. \A q \in Proc : Fase(q)' = IF q = enExec THEN Maquina!FaseTras(i) ELSE Fase(q)
      BY <1>3, <1>4, <1>5
    <2>2. [q \in Proc |-> Fase(q)]' =
            [q \in Proc |-> IF q = enExec THEN Maquina!FaseTras(i) ELSE Fase(q)]
      BY <2>1
    <2>3. QED
      BY <1>1, <2>2
  <1>9. [q \in Proc |-> ProgramCounter(q)][enExec] = n /\ [q \in Proc |-> Fase(q)][enExec] = "lista"
    BY <1>1, <1>2
  <1>10. QED
    BY <1>6, <1>7, <1>8, <1>9 DEF Maquina!Ejecutar

\* The end of an I/O is that of the abstract machine.
LEMMA DesbloqueaUno ==
  ASSUME IInv, NEW p \in Proc, VolverAReady(p)
  PROVE  Maquina!Desbloquear(p)
  <1>1. /\ pcb[p].estado = "BLOCKED" /\ pcb' = [pcb EXCEPT ![p].estado = "READY"]
        /\ UNCHANGED <<canalRespuesta, cpu, datos>>
    BY DEF VolverAReady, varsCpu
  <1>2. p # enExec
    BY <1>1, EnExec
  <1>3. ~Respondido(p) /\ ~(Ejecutando /\ cpu.pid = p)
    BY <1>2, Etapas, EnCpuSiEjecuta, Mensajes
       DEF Respondido, Ejecutando, IInv, Viaje, EnReposo, Elegido, Tranquilos, PcbEnCamino,
           PcbRecibido, TodoEnCamino, ListaEnCamino, EnCpu, RespuestaEnCamino
  <1>4. Fase(p) = "bloqueada" /\ Fase(p)' = "lista" /\ ProgramCounter(p)' = ProgramCounter(p)
    BY <1>1, <1>3 DEF Fase, FaseDe, ProgramCounter, Respondido, Ejecutando, IInv, TypeOK
  <1>5. ASSUME NEW q \in Proc, q # p
        PROVE  ProgramCounter(q)' = ProgramCounter(q) /\ Fase(q)' = Fase(q)
    <2>1. pcb'[q] = pcb[q]
      BY <1>1, <1>5 DEF IInv, TypeOK
    <2>2. QED
      <3>1. Respondido(q)' <=> Respondido(q)
        BY <1>1 DEF Respondido
      <3>2. (Ejecutando /\ cpu.pid = q)' <=> (Ejecutando /\ cpu.pid = q)
        BY <1>1 DEF Ejecutando
      <3>3. ProgramCounter(q)' = ProgramCounter(q)
        BY <1>1, <2>1, <3>1, <3>2 DEF ProgramCounter
      <3>4. Fase(q)' = Fase(q)
        <4>1. CASE Respondido(q)
          BY <1>1, <3>1, <4>1 DEF Fase
        <4>2. CASE ~Respondido(q)
          BY <2>1, <3>1, <4>2 DEF Fase
        <4>3. QED
          BY <4>1, <4>2
      <3>5. QED
        BY <3>3, <3>4
  <1>6. [q \in Proc |-> ProgramCounter(q)]' = [q \in Proc |-> ProgramCounter(q)]
    BY <1>4, <1>5
  <1>7. [q \in Proc |-> Fase(q)]' = [[q \in Proc |-> Fase(q)] EXCEPT ![p] = "lista"]
    BY <1>4, <1>5
  <1>8. QED
    BY <1>1, <1>4, <1>6, <1>7 DEF Maquina!Desbloquear

\* The other steps are trips of the program counter, which nobody sees.
LEMMA ViajesInvisibles ==
  ASSUME IInv, IInv', Next, ~(CpuExec \/ CpuExecDetener), \A p \in Proc : ~VolverAReady(p)
  PROVE  UNCHANGED Maquina!vars
  <1>1. datos' = datos
    BY DEF Next, AtenderPcb, HiloDispatch, Elegir, EnviarPcb, EnviarLista, RecibirRespuesta,
           EvaluarDesalojo, CpuRecibirInterrupcion, CpuRecibirPcb, CpuRecibirLista, CpuFetch,
           CpuAtenderInterrupcion, varsCpu
  <1> SUFFICES ASSUME NEW q \in Proc
               PROVE  ProgramCounter(q)' = ProgramCounter(q) /\ Fase(q)' = Fase(q)
    BY <1>1, Invisible
  <1>2. ASSUME NEW p \in Proc, Elegir(p)
        PROVE  ProgramCounter(q)' = ProgramCounter(q) /\ Fase(q)' = Fase(q)
    <2>1. canalRespuesta = << >> /\ cpu.en = "recibirPcb" /\ canalRespuesta' = << >> /\ cpu' = cpu
      BY <1>2, Etapas DEF Elegir, EnReposo, Tranquilos, varsCpu
    <2>2. /\ pcb'[q].programCounter = pcb[q].programCounter
          /\ FaseDe(pcb'[q].estado) = FaseDe(pcb[q].estado)
      BY <1>2 DEF Elegir, IInv, TypeOK, FaseDe
    <2>3. QED
      BY <2>1, <2>2 DEF ProgramCounter, Fase, Respondido, Ejecutando
  <1>3. CASE EnviarPcb \/ EnviarLista \/ EvaluarDesalojo \/ CpuRecibirInterrupcion
    <2>1. pcb' = pcb /\ cpu' = cpu /\ canalRespuesta' = canalRespuesta
      BY <1>3 DEF EnviarPcb, EnviarLista, EvaluarDesalojo, CpuRecibirInterrupcion, varsKernel, varsCpu
    <2>2. QED
      BY <2>1 DEF ProgramCounter, Fase, Respondido, Ejecutando
  <1>4. CASE RecibirRespuesta
    <2> DEFINE m == Head(canalRespuesta)
    <2>1. RespuestaEnCamino /\ enExec \in Proc /\ m = canalRespuesta[1] /\ canalRespuesta' = << >>
          /\ cpu.en = "recibirPcb" /\ cpu' = cpu /\ canalRespuesta # << >>
      BY <1>4, Etapas, Mensajes, UnMensaje, SMTT(20)
         DEF RecibirRespuesta, RespuestaEnCamino, IInv, TypeOK, varsCpu
    <2>2. m.pid = enExec /\ m \in Respuesta
      BY <2>1, Mensajes DEF RespuestaEnCamino, IInv
    <2>3. pcb' = [pcb EXCEPT ![enExec] = Actualizado(@, m)]
      BY <1>4, <2>2 DEF RecibirRespuesta
    <2> HIDE DEF m
    <2>4. CASE q = enExec
      <3>1. pcb'[q].programCounter = m.programCounter /\ pcb'[q].estado = EstadoTras(m.header)
        BY <2>1, <2>3, <2>4 DEF Actualizado, IInv, TypeOK
      <3>2. Respondido(q) /\ ~Respondido(q)'
        BY <2>1, <2>2, <2>4 DEF Respondido, m
      <3>3. QED
        BY <2>1, <3>1, <3>2 DEF ProgramCounter, Fase, Ejecutando, m
    <2>5. CASE q # enExec
      <3>1. pcb'[q] = pcb[q]
        BY <2>3, <2>5 DEF IInv, TypeOK
      <3>2. ~Respondido(q) /\ ~Respondido(q)'
        BY <2>1, <2>2, <2>5 DEF Respondido, m
      <3>3. QED
        BY <2>1, <3>1, <3>2 DEF ProgramCounter, Fase, Ejecutando
    <2>6. QED
      BY <2>4, <2>5
  <1>5. CASE CpuRecibirPcb \/ CpuRecibirLista
    <2>1. /\ canalRespuesta = << >> /\ canalRespuesta' = << >> /\ pcb' = pcb
          /\ cpu.en \in {"recibirPcb", "recibirLista"}
      BY <1>5, Etapas DEF CpuRecibirPcb, CpuRecibirLista, varsKernel, PcbEnCamino, TodoEnCamino,
                          ListaEnCamino
    <2>2. ~Respondido(q) /\ ~Respondido(q)' /\ ~Ejecutando
      BY <2>1 DEF Respondido, Ejecutando
    <2>3. Ejecutando' /\ cpu'.pid = q => cpu'.programCounter = pcb[q].programCounter
      <3>1. CASE CpuRecibirPcb
        BY <3>1 DEF CpuRecibirPcb, Ejecutando, IInv, TypeOK, Cpu
      <3>2. CASE CpuRecibirLista
        <4>1. CpuAlDia
          BY <3>2, Etapas DEF CpuRecibirLista, ListaEnCamino
        <4>2. cpu'.pid = cpu.pid /\ cpu'.programCounter = cpu.programCounter
          BY <3>2 DEF CpuRecibirLista, IInv, TypeOK, Cpu
        <4>3. QED
          BY <4>1, <4>2 DEF CpuAlDia
      <3>3. QED
        BY <1>5, <3>1, <3>2
    <2>4. QED
      BY <2>1, <2>2, <2>3 DEF ProgramCounter, Fase
  <1>6. CASE CpuFetch
    <2>1. /\ cpu'.pid = cpu.pid /\ cpu'.programCounter = cpu.programCounter
          /\ cpu.en = "fetch" /\ cpu'.en = "exec" /\ pcb' = pcb /\ canalRespuesta' = canalRespuesta
      BY <1>6 DEF CpuFetch, IInv, TypeOK, Cpu, varsKernel
    <2>2. QED
      BY <2>1 DEF ProgramCounter, Fase, Respondido, Ejecutando
  <1>7. CASE CpuAtenderInterrupcion
    <2>1. EnCpu /\ enExec \in Proc /\ cpu.pid = enExec /\ cpu.en = "interrupcion"
          /\ canalRespuesta = << >> /\ Ejecutando /\ pcb' = pcb
      BY <1>7, EnCpuSiEjecuta DEF CpuAtenderInterrupcion, EnCpu, varsKernel
    <2>2. CASE hayInterrupcion
      <3> DEFINE m == [header |-> "desalojado", pid |-> cpu.pid,
                       programCounter |-> cpu.programCounter, tiempoDeBloqueo |-> 0]
      <3>1. canalRespuesta' = Append(<< >>, m) /\ cpu'.en = "recibirPcb"
        BY <1>7, <2>1, <2>2 DEF CpuAtenderInterrupcion, Responder, IInv, TypeOK, Cpu
      <3>2. /\ m.pid = enExec /\ m.programCounter = cpu.programCounter
            /\ FaseDe(EstadoTras(m.header)) = "lista"
        BY <2>1 DEF EstadoTras, FaseDe
      <3> HIDE DEF m
      <3>3. canalRespuesta' # << >> /\ Head(canalRespuesta') = m
        BY <3>1
      <3>4. Respondido(q)' <=> q = enExec
        BY <3>2, <3>3 DEF Respondido
      <3>5. ~Respondido(q) /\ ~Ejecutando'
        BY <2>1, <3>1 DEF Respondido, Ejecutando
      <3>6. CASE q = enExec
        BY <2>1, <3>2, <3>3, <3>4, <3>5, <3>6, EnExec DEF ProgramCounter, Fase, FaseDe
      <3>7. CASE q # enExec
        BY <2>1, <3>4, <3>5, <3>7 DEF ProgramCounter, Fase
      <3>8. QED
        BY <3>6, <3>7
    <2>3. CASE ~hayInterrupcion
      <3>1. /\ cpu'.en = "fetch" /\ cpu'.pid = cpu.pid /\ cpu'.programCounter = cpu.programCounter
            /\ canalRespuesta' = canalRespuesta
        BY <1>7, <2>3 DEF CpuAtenderInterrupcion, IInv, TypeOK, Cpu
      <3>2. QED
        BY <2>1, <3>1 DEF ProgramCounter, Fase, Respondido, Ejecutando
    <2>4. QED
      BY <2>2, <2>3
  <1>8. QED
    BY <1>2, <1>3, <1>4, <1>5, <1>6, <1>7 DEF Next, AtenderPcb, HiloDispatch

\* Preemption, late interrupts and the trips of the program counter are invisible: each
\* process runs its instructions one by one, as if it were alone (the part of
\* ImplementaMaquina that says what may not happen).
THEOREM ImplementaSinPerderNada == Spec => Maquina!Spec
  <1>1. Init => Maquina!Init
    <2> SUFFICES ASSUME Init PROVE Maquina!Init
      OBVIOUS
    <2>1. \A q \in Proc : ProgramCounter(q) = 0 /\ Fase(q) = "lista"
      BY DEF Init, ProgramCounter, Fase, Respondido, Ejecutando, FaseDe
    <2>2. datos \in [Proc -> [Dir -> Basura]]
      BY DEF Init
    <2>3. QED
      BY <2>1, <2>2 DEF Maquina!Init
  <1>2. IInv /\ IInv' /\ [Next]_vars => [Maquina!Next]_(Maquina!vars)
    <2> SUFFICES ASSUME IInv, IInv', [Next]_vars
                 PROVE  Maquina!Next \/ UNCHANGED Maquina!vars
      OBVIOUS
    <2>1. CASE CpuExec \/ CpuExecDetener
      <3>1. enExec \in Proc
        BY <2>1, EnCpuSiEjecuta DEF CpuExec, CpuExecDetener
      <3>2. QED
        BY <2>1, <3>1, EjecutaUna DEF Maquina!Next
    <2>2. CASE \E p \in Proc : VolverAReady(p)
      BY <2>2, DesbloqueaUno DEF Maquina!Next
    <2>3. CASE UNCHANGED vars
      <3>1. UNCHANGED <<pcb, cpu, canalRespuesta, datos>>
        BY <2>3 DEF vars, varsKernel, varsCpu
      <3>2. \A q \in Proc : ProgramCounter(q)' = ProgramCounter(q) /\ Fase(q)' = Fase(q)
        BY <3>1 DEF ProgramCounter, Fase, Respondido, Ejecutando
      <3>3. QED
        BY <3>1, <3>2, Invisible
    <2>4. CASE Next /\ ~(CpuExec \/ CpuExecDetener) /\ \A p \in Proc : ~VolverAReady(p)
      BY <2>4, ViajesInvisibles
    <2>5. QED
      BY <2>1, <2>2, <2>3, <2>4
  <1>3. QED
    BY <1>1, <1>2, ViajeInvariante, PTL DEF Spec, Maquina!Spec

=============================================================================
