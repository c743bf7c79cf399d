------------------------- MODULE PlanificadorProofs -------------------------
(* Proofs about Planificador, for any processes, programs, degree of       *)
(* multiprogramming, algorithm and timing.                                 *)
EXTENDS Planificador, SequenceTheorems, FiniteSetTheorems, TLAPS

-----------------------------------------------------------------------------
(* Lists.                                                                  *)

\* Taking an element out of a list leaves a list one shorter.
LEMMA RemoveAtProperties ==
  ASSUME NEW S, NEW s \in Seq(S), NEW i \in 1..Len(s)
  PROVE  RemoveAt(s, i) \in Seq(S) /\ Len(RemoveAt(s, i)) = Len(s) - 1
<1> DEFINE antes == SubSeq(s, 1, i-1)
           despues == SubSeq(s, i+1, Len(s))
<1>1. Len(s) \in Nat /\ i - 1 \in Nat
  BY LenProperties
<1>2. antes \in Seq(S) /\ Len(antes) = i - 1
  BY <1>1, SubSeqProperties
<1>3. despues \in Seq(S) /\ Len(despues) = Len(s) - i
  BY <1>1, SubSeqProperties
<1> HIDE DEF antes, despues
<1>4. antes \o despues \in Seq(S) /\ Len(antes \o despues) = Len(antes) + Len(despues)
  BY <1>2, <1>3, ConcatProperties
<1>5. Len(antes \o despues) = Len(s) - 1
  BY <1>1, <1>2, <1>3, <1>4
<1> QED BY <1>4, <1>5 DEF RemoveAt, antes, despues

-----------------------------------------------------------------------------
(* The lists of PCBs.                                                      *)

\* list_remove by PID leaves a list of PCBs, whether or not it finds the PID.
LEMMA RemoverPcbType ==
  ASSUME TypeOK, NEW e \in Colas, NEW p \in Proc
  PROVE  RemoverPcb(e, p) \in Seq(Proc)
<1>1. cola[e] \in Seq(Proc)
  BY DEF TypeOK
<1>2. CASE ContienePcb(e, p)
  <2> DEFINE i == CHOOSE i \in 1..Len(cola[e]) : cola[e][i] = p
  <2>1. i \in 1..Len(cola[e])
    BY <1>2 DEF ContienePcb
  <2> HIDE DEF i
  <2>2. RemoveAt(cola[e], i) \in Seq(Proc)
    BY <1>1, <2>1, RemoveAtProperties
  <2> QED BY <1>2, <2>2 DEF RemoverPcb, i
<1>3. CASE ~ContienePcb(e, p)
  BY <1>1, <1>3 DEF RemoverPcb
<1> QED BY <1>2, <1>3

\* The lists, as any step finds them.
LEMMA ColasSonListas ==
  ASSUME TypeOK
  PROVE  \A e \in Colas : cola[e] \in Seq(Proc) /\ Len(cola[e]) \in Nat
BY LenProperties DEF TypeOK

\* estado_encolar_pcb: one list is one longer.
LEMMA Encolar ==
  ASSUME TypeOK, NEW e \in Colas, NEW p \in Proc
  PROVE  /\ EncolarPcb(e, p) \in [Colas -> Seq(Proc)]
         /\ Len(EncolarPcb(e, p)[e]) = Len(cola[e]) + 1
         /\ \A f \in Colas : f # e => EncolarPcb(e, p)[f] = cola[f]
<1>1. cola[e] \in Seq(Proc) /\ cola \in [Colas -> Seq(Proc)]
  BY DEF TypeOK
<1>2. Append(cola[e], p) \in Seq(Proc) /\ Len(Append(cola[e], p)) = Len(cola[e]) + 1
  BY <1>1, AppendProperties
<1> QED BY <1>1, <1>2 DEF EncolarPcb

\* estado_desencolar_primer_pcb, when the list has one: it is one shorter.
LEMMA Desencolar ==
  ASSUME TypeOK, NEW e \in Colas, cola[e] # << >>
  PROVE  /\ Head(cola[e]) \in Proc
         /\ DesencolarPrimero(e) \in [Colas -> Seq(Proc)]
         /\ Len(DesencolarPrimero(e)[e]) = Len(cola[e]) - 1
         /\ \A f \in Colas : f # e => DesencolarPrimero(e)[f] = cola[f]
<1>1. cola[e] \in Seq(Proc) /\ cola \in [Colas -> Seq(Proc)]
  BY DEF TypeOK
<1>2. Head(cola[e]) \in Proc /\ Tail(cola[e]) \in Seq(Proc) /\ Len(Tail(cola[e])) = Len(cola[e]) - 1
  BY <1>1, HeadTailProperties
<1> QED BY <1>1, <1>2 DEF DesencolarPrimero

\* A PCB leaves a list by its PID and enters another one.
LEMMA Mover ==
  ASSUME TypeOK, NEW e \in Colas, NEW f \in Colas, e # f, NEW p \in Proc
  PROVE  /\ MoverPcb(e, f, p) \in [Colas -> Seq(Proc)]
         /\ Len(MoverPcb(e, f, p)[f]) = Len(cola[f]) + 1
         /\ \A g \in Colas : g # e /\ g # f => MoverPcb(e, f, p)[g] = cola[g]
<1>1. cola[f] \in Seq(Proc) /\ cola \in [Colas -> Seq(Proc)]
  BY DEF TypeOK
<1>2. RemoverPcb(e, p) \in Seq(Proc)
  BY RemoverPcbType
<1>3. Append(cola[f], p) \in Seq(Proc) /\ Len(Append(cola[f], p)) = Len(cola[f]) + 1
  BY <1>1, AppendProperties
<1> QED BY <1>1, <1>2, <1>3 DEF MoverPcb

\* A semaphore stays a natural number: it is taken only when it is positive.
LEMMA Semaforo ==
  ASSUME TypeOK, NEW s \in Semaforos
  PROVE  /\ Post(s) \in [Semaforos -> Nat]
         /\ sem[s] > 0 => Wait(s) \in [Semaforos -> Nat]
BY DEF TypeOK, Post, Wait

\* A thread goes from one place to another.
LEMMA HiloVa ==
  ASSUME TypeOK, NEW t \in Hilos, NEW l \in Lugares
  PROVE  Ir(t, l) \in [Hilos -> Lugares]
BY DEF TypeOK, Ir

\* The processes waiting to be admitted are counted.
LEMMA PorAdmitirNat ==
  ASSUME TypeOK
  PROVE  PorAdmitir \in Nat
<1> DEFINE nuevos == Len(cola["NEW"])
           suspendidos == Len(cola["SUSPENDED_READY"])
<1>1. nuevos \in Nat /\ suspendidos \in Nat
  BY ColasSonListas DEF Colas
<1>2. PorAdmitir = nuevos + suspendidos
  BY DEF PorAdmitir
<1> HIDE DEF nuevos, suspendidos
<1> QED BY <1>1, <1>2

\* One more or one less in NEW or in SUSPENDED_READY is one more or less of them.
LEMMA PorAdmitirCambia ==
  ASSUME TypeOK, cola' \in [Colas -> Seq(Proc)],
         NEW e \in {"NEW", "SUSPENDED_READY"},
         \A f \in {"NEW", "SUSPENDED_READY"} : f # e => cola'[f] = cola[f]
  PROVE  /\ Len(cola'[e]) = Len(cola[e]) + 1 => PorAdmitir' = PorAdmitir + 1
         /\ Len(cola'[e]) = Len(cola[e]) - 1 => PorAdmitir' = PorAdmitir - 1
<1> DEFINE nuevos == Len(cola["NEW"])
           suspendidos == Len(cola["SUSPENDED_READY"])
           nuevosDespues == Len(cola'["NEW"])
           suspendidosDespues == Len(cola'["SUSPENDED_READY"])
<1>1. nuevos \in Nat /\ suspendidos \in Nat
  BY ColasSonListas DEF Colas
<1>2. nuevosDespues \in Nat /\ suspendidosDespues \in Nat
  BY LenProperties DEF Colas
<1>3. PorAdmitir = nuevos + suspendidos /\ PorAdmitir' = nuevosDespues + suspendidosDespues
  BY DEF PorAdmitir
<1>4. CASE e = "NEW"
  <2>1. suspendidosDespues = suspendidos
    BY <1>4
  <2>2. /\ nuevosDespues = nuevos + 1 => PorAdmitir' = PorAdmitir + 1
        /\ nuevosDespues = nuevos - 1 => PorAdmitir' = PorAdmitir - 1
    <3> HIDE DEF nuevos, suspendidos, nuevosDespues, suspendidosDespues
    <3> QED BY <1>1, <1>2, <1>3, <2>1
  <2> QED BY <1>4, <2>2
<1>5. CASE e = "SUSPENDED_READY"
  <2>1. nuevosDespues = nuevos
    BY <1>5
  <2>2. /\ suspendidosDespues = suspendidos + 1 => PorAdmitir' = PorAdmitir + 1
        /\ suspendidosDespues = suspendidos - 1 => PorAdmitir' = PorAdmitir - 1
    <3> HIDE DEF nuevos, suspendidos, nuevosDespues, suspendidosDespues
    <3> QED BY <1>1, <1>2, <1>3, <2>1
  <2> QED BY <1>5, <2>2
<1> QED BY <1>4, <1>5

\* What CpuAlDia says once the CPU answered.
LEMMA CpuResponde ==
  ASSUME IInv, cpu.respuesta # Ninguno
  PROVE  cpu.respuesta \in {"desalojado", "terminado", "bloqueado"}
BY DEF IInv, TypeOK, EstadoCpu

\* The writes to a PCB keep it one.
LEMMA PcbEstado ==
  ASSUME TypeOK, NEW p \in Proc, NEW e \in EstadoPcb
  PROVE  [pcb EXCEPT ![p].estado = e] \in [Proc -> Pcb]
<1>1. [pcb[p] EXCEPT !.estado = e] \in Pcb
  <2>1. pcb[p] \in Pcb
    BY DEF TypeOK
  <2> QED BY <2>1 DEF Pcb
<1> QED BY <1>1 DEF TypeOK

\* The final time of a wait is set.
LEMMA PcbTiempoFinal ==
  ASSUME TypeOK, NEW p \in Proc, NEW e \in Espera
  PROVE  TestAndSetTiempoFinal(p, e) \in [Proc -> Pcb]
<1>1. [pcb[p] EXCEPT !.finalEstablecido = TRUE, !.espera = e] \in Pcb
  <2>1. pcb[p] \in Pcb
    BY DEF TypeOK
  <2> QED BY <2>1 DEF Pcb
<1> QED BY <1>1 DEF TypeOK, TestAndSetTiempoFinal

\* The device is done with the PCB.
LEMMA PcbSinBloqueo ==
  ASSUME TypeOK, NEW p \in Proc
  PROVE  [pcb EXCEPT ![p].tiempoDeBloqueo = "cero", ![p].finalEstablecido = FALSE]
           \in [Proc -> Pcb]
<1>1. [pcb[p] EXCEPT !.tiempoDeBloqueo = "cero", !.finalEstablecido = FALSE] \in Pcb
  <2>1. pcb[p] \in Pcb
    BY DEF TypeOK
  <2> QED BY <2>1 DEF Pcb, TiempoBloqueo
<1> QED BY <1>1 DEF TypeOK

\* The long term thread takes a unit of hayPcbs: the request it is now serving.
LEMMA LargoTomarPcbIInv ==
  ASSUME IInv, LargoTomarPcb
  PROVE  IInv'
<1> USE DEF IInv
<1>1. /\ hilo["largo"] = "esperar"
      /\ hilo'["largo"] = "esperarGrado"
      /\ \A h \in Hilos : h # "largo" => hilo'[h] = hilo[h]
      /\ sem["hayPcbs"] > 0 /\ sem'["hayPcbs"] = sem["hayPcbs"] - 1
      /\ \A s \in Semaforos : s # "hayPcbs" => sem'[s] = sem[s]
      /\ UNCHANGED <<cola, enMano, cpu>>
  BY DEF TypeOK, Semaforos, Hilos, LargoTomarPcb, Wait, Ir, En, pares
<1>2. TypeOK'
  <2>1. sem' \in [Semaforos -> Nat]
    BY <1>1 DEF TypeOK, LargoTomarPcb, Wait, Semaforos
  <2>2. hilo' \in [Hilos -> Lugares]
    BY <1>1 DEF TypeOK, LargoTomarPcb, Ir, Hilos, Lugares
  <2> QED BY <2>1, <2>2 DEF TypeOK, LargoTomarPcb, pares
<1>3. DespachoConservado'
  BY <1>1 DEF DespachoConservado, TypeOK, Hilos, Semaforos, Uno
<1>4. ExecConRespaldo'
  <2>1. /\ sem["EXEC"] \in Nat /\ Len(cola["EXEC"]) \in Nat
        /\ cola'["EXEC"] = cola["EXEC"]
    BY <1>1, ColasSonListas DEF TypeOK, Semaforos, Colas
  <2> QED BY <2>1, <1>1 DEF ExecConRespaldo, Semaforos, Hilos, Uno
<1>5. ReadyConRespaldo'
  <2>1. /\ sem["READY"] \in Nat /\ Len(cola["READY"]) \in Nat
        /\ cola'["READY"] = cola["READY"]
    BY <1>1, ColasSonListas DEF TypeOK, Semaforos, Colas
  <2> QED BY <2>1, <1>1 DEF ReadyConRespaldo, Semaforos, Hilos, Uno
<1>6. IOyExitConRespaldo'
  <2>1. /\ sem["IO"] \in Nat /\ Len(cola["IO"]) \in Nat
        /\ sem["EXIT"] \in Nat /\ Len(cola["EXIT"]) \in Nat
        /\ cola'["IO"] = cola["IO"]
        /\ cola'["EXIT"] = cola["EXIT"]
    BY <1>1, ColasSonListas DEF TypeOK, Semaforos, Colas
  <2> QED BY <2>1, <1>1 DEF IOyExitConRespaldo, Semaforos
<1>7. AdmisionConRespaldo'
  <2>1. PorAdmitir' = PorAdmitir
    BY <1>1 DEF PorAdmitir, Colas
  <2>2. sem["hayPcbs"] \in Nat /\ sem["transicionar"] \in Nat
    BY DEF TypeOK, Semaforos
  <2> QED BY <2>1, <2>2, <1>1, PorAdmitirNat DEF AdmisionConRespaldo, Hilos, Semaforos, Uno
<1>8. ManosOcupadas'
  BY <1>1 DEF ManosOcupadas, TypeOK, Hilos
<1>9. CpuAlDia'
  BY <1>1 DEF CpuAlDia, Hilos, Colas
<1> QED BY <1>2, <1>3, <1>4, <1>5, <1>6, <1>7, <1>8, <1>9

\* The request becomes a unit of transicionarSusreadyAReady.
LEMMA LargoTransicionarSusreadyIInv ==
  ASSUME IInv, LargoTransicionarSusready
  PROVE  IInv'
<1> USE DEF IInv
<1>1. /\ hilo["largo"] = "esperarGrado"
      /\ hilo'["largo"] = "esperar"
      /\ \A h \in Hilos : h # "largo" => hilo'[h] = hilo[h]
      /\ sem'["transicionar"] = sem["transicionar"] + 1
      /\ sem["gradoMultiprog"] > 0 /\ sem'["gradoMultiprog"] = sem["gradoMultiprog"] - 1
      /\ \A s \in Semaforos : s # "gradoMultiprog" /\ s # "transicionar" => sem'[s] = sem[s]
      /\ UNCHANGED <<cola, enMano, cpu>>
  BY DEF TypeOK, Semaforos, Hilos, LargoTransicionarSusready, Ir, En, pares
<1>2. TypeOK'
  <2>1. sem' \in [Semaforos -> Nat]
    BY <1>1 DEF TypeOK, LargoTransicionarSusready, Semaforos
  <2>2. hilo' \in [Hilos -> Lugares]
    BY <1>1 DEF TypeOK, LargoTransicionarSusready, Ir, Hilos, Lugares
  <2> QED BY <2>1, <2>2 DEF TypeOK, LargoTransicionarSusready, pares
<1>3. DespachoConservado'
  BY <1>1 DEF DespachoConservado, TypeOK, Hilos, Semaforos, Uno
<1>4. ExecConRespaldo'
  <2>1. /\ sem["EXEC"] \in Nat /\ Len(cola["EXEC"]) \in Nat
        /\ cola'["EXEC"] = cola["EXEC"]
    BY <1>1, ColasSonListas DEF TypeOK, Semaforos, Colas
  <2> QED BY <2>1, <1>1 DEF ExecConRespaldo, Semaforos, Hilos, Uno
<1>5. ReadyConRespaldo'
  <2>1. /\ sem["READY"] \in Nat /\ Len(cola["READY"]) \in Nat
        /\ cola'["READY"] = cola["READY"]
    BY <1>1, ColasSonListas DEF TypeOK, Semaforos, Colas
  <2> QED BY <2>1, <1>1 DEF ReadyConRespaldo, Semaforos, Hilos, Uno
<1>6. IOyExitConRespaldo'
  <2>1. /\ sem["IO"] \in Nat /\ Len(cola["IO"]) \in Nat
        /\ sem["EXIT"] \in Nat /\ Len(cola["EXIT"]) \in Nat
        /\ cola'["IO"] = cola["IO"]
        /\ cola'["EXIT"] = cola["EXIT"]
    BY <1>1, ColasSonListas DEF TypeOK, Semaforos, Colas
  <2> QED BY <2>1, <1>1 DEF IOyExitConRespaldo, Semaforos
<1>7. AdmisionConRespaldo'
  <2>1. PorAdmitir' = PorAdmitir
    BY <1>1 DEF PorAdmitir, Colas
  <2>2. sem["hayPcbs"] \in Nat /\ sem["transicionar"] \in Nat
    BY DEF TypeOK, Semaforos
  <2> QED BY <2>1, <2>2, <1>1, PorAdmitirNat DEF AdmisionConRespaldo, Hilos, Semaforos, Uno
<1>8. ManosOcupadas'
  BY <1>1 DEF ManosOcupadas, TypeOK, Hilos
<1>9. CpuAlDia'
  BY <1>1 DEF CpuAlDia, Hilos, Colas
<1> QED BY <1>2, <1>3, <1>4, <1>5, <1>6, <1>7, <1>8, <1>9

\* The request becomes a PCB in the hands of the long term thread.
LEMMA LargoTomarNewIInv ==
  ASSUME IInv, LargoTomarNew
  PROVE  IInv'
<1> USE DEF IInv
<1>1. /\ hilo["largo"] = "esperarGrado"
      /\ hilo'["largo"] = "solicitarTabla"
      /\ \A h \in Hilos : h # "largo" => hilo'[h] = hilo[h]
      /\ sem["gradoMultiprog"] > 0 /\ sem'["gradoMultiprog"] = sem["gradoMultiprog"] - 1
      /\ \A s \in Semaforos : s # "gradoMultiprog" => sem'[s] = sem[s]
      /\ cpu' = cpu
  BY DEF TypeOK, Semaforos, Hilos, LargoTomarNew, Wait, Ir, En, pares
<1>2. cola["NEW"] # << >>
  <2>1. sem["hayPcbs"] \in Nat /\ sem["transicionar"] \in Nat
    BY DEF TypeOK, Semaforos
  <2>2. PorAdmitir > 0
    BY <1>1, <2>1, PorAdmitirNat DEF AdmisionConRespaldo, Uno
  <2>3. Len(cola["SUSPENDED_READY"]) = 0
    BY DEF LargoTomarNew
  <2>4. Len(cola["NEW"]) > 0
    BY <2>2, <2>3, ColasSonListas DEF PorAdmitir, Colas
  <2> QED BY <2>4
<1>3. /\ Head(cola["NEW"]) \in Proc /\ cola' \in [Colas -> Seq(Proc)]
      /\ Len(cola'["NEW"]) = Len(cola["NEW"]) - 1
      /\ \A e \in Colas : e # "NEW" => cola'[e] = cola[e]
  BY <1>2, Desencolar DEF LargoTomarNew, Colas
<1>4. TypeOK'
  <2>1. sem' \in [Semaforos -> Nat]
    BY <1>1 DEF TypeOK, LargoTomarNew, Wait, Semaforos
  <2>2. hilo' \in [Hilos -> Lugares]
    BY <1>1 DEF TypeOK, LargoTomarNew, Ir, Hilos, Lugares
  <2>3. enMano' \in [Hilos -> Proc \union {Ninguno}]
    BY <1>3 DEF TypeOK, LargoTomarNew, Hilos
  <2> QED BY <2>1, <2>2, <2>3, <1>3 DEF TypeOK, LargoTomarNew, pares
<1>5. DespachoConservado'
  BY <1>1 DEF DespachoConservado, TypeOK, Hilos, Semaforos, Uno
<1>6. ExecConRespaldo'
  <2>1. /\ sem["EXEC"] \in Nat /\ Len(cola["EXEC"]) \in Nat
        /\ cola'["EXEC"] = cola["EXEC"]
    BY <1>1, <1>3, ColasSonListas DEF TypeOK, Semaforos, Colas
  <2> QED BY <2>1, <1>1 DEF ExecConRespaldo, Semaforos, Hilos, Uno
<1>7. ReadyConRespaldo'
  <2>1. /\ sem["READY"] \in Nat /\ Len(cola["READY"]) \in Nat
        /\ cola'["READY"] = cola["READY"]
    BY <1>1, <1>3, ColasSonListas DEF TypeOK, Semaforos, Colas
  <2> QED BY <2>1, <1>1 DEF ReadyConRespaldo, Semaforos, Hilos, Uno
<1>8. IOyExitConRespaldo'
  <2>1. /\ sem["IO"] \in Nat /\ Len(cola["IO"]) \in Nat
        /\ sem["EXIT"] \in Nat /\ Len(cola["EXIT"]) \in Nat
        /\ cola'["IO"] = cola["IO"]
        /\ cola'["EXIT"] = cola["EXIT"]
    BY <1>1, <1>3, ColasSonListas DEF TypeOK, Semaforos, Colas
  <2> QED BY <2>1, <1>1 DEF IOyExitConRespaldo, Semaforos
<1>9. AdmisionConRespaldo'
  <2>1. PorAdmitir' = PorAdmitir - 1
    BY <1>3, PorAdmitirCambia DEF Colas
  <2>2. sem["hayPcbs"] \in Nat /\ sem["transicionar"] \in Nat
    BY DEF TypeOK, Semaforos
  <2> QED BY <2>1, <2>2, <1>1, PorAdmitirNat DEF AdmisionConRespaldo, Hilos, Semaforos, Uno
<1>10. ManosOcupadas'
  BY <1>1, <1>3 DEF ManosOcupadas, TypeOK, Hilos, LargoTomarNew
<1>11. CpuAlDia'
  BY <1>1, <1>3 DEF CpuAlDia, Hilos, Colas, LargoTomarNew, TypeOK
<1> QED BY <1>4, <1>5, <1>6, <1>7, <1>8, <1>9, <1>10, <1>11

\* A refused PCB enters EXIT without a unit of its semaphore.
LEMMA LargoRechazarIInv ==
  ASSUME IInv, LargoRechazar
  PROVE  IInv'
<1> USE DEF IInv
<1>1. /\ hilo["largo"] = "solicitarTabla"
      /\ hilo'["largo"] = "esperar"
      /\ \A h \in Hilos : h # "largo" => hilo'[h] = hilo[h]
      /\ UNCHANGED <<sem, cpu>>
  BY DEF TypeOK, Semaforos, Hilos, LargoRechazar, Ir, En, pares
<1>2. enMano["largo"] \in Proc
  BY <1>1 DEF ManosOcupadas
<1>3. /\ cola' \in [Colas -> Seq(Proc)]
      /\ Len(cola'["EXIT"]) = Len(cola["EXIT"]) + 1
      /\ \A e \in Colas : e # "EXIT" => cola'[e] = cola[e]
  BY <1>2, Encolar DEF LargoRechazar, Colas
<1>4. TypeOK'
  <2>1. hilo' \in [Hilos -> Lugares]
    BY <1>1 DEF TypeOK, LargoRechazar, Ir, Hilos, Lugares
  <2>2. enMano' \in [Hilos -> Proc \union {Ninguno}]
    BY <1>2, <1>3 DEF TypeOK, LargoRechazar, Hilos
  <2> QED BY <2>1, <2>2, <1>3 DEF TypeOK, LargoRechazar, pares
<1>5. DespachoConservado'
  BY <1>1 DEF DespachoConservado, TypeOK, Hilos, Semaforos, Uno
<1>6. ExecConRespaldo'
  <2>1. /\ sem["EXEC"] \in Nat /\ Len(cola["EXEC"]) \in Nat
        /\ cola'["EXEC"] = cola["EXEC"]
    BY <1>1, <1>3, ColasSonListas DEF TypeOK, Semaforos, Colas
  <2> QED BY <2>1, <1>1 DEF ExecConRespaldo, Semaforos, Hilos, Uno
<1>7. ReadyConRespaldo'
  <2>1. /\ sem["READY"] \in Nat /\ Len(cola["READY"]) \in Nat
        /\ cola'["READY"] = cola["READY"]
    BY <1>1, <1>3, ColasSonListas DEF TypeOK, Semaforos, Colas
  <2> QED BY <2>1, <1>1 DEF ReadyConRespaldo, Semaforos, Hilos, Uno
<1>8. IOyExitConRespaldo'
  <2>1. /\ sem["IO"] \in Nat /\ Len(cola["IO"]) \in Nat
        /\ sem["EXIT"] \in Nat /\ Len(cola["EXIT"]) \in Nat
        /\ cola'["IO"] = cola["IO"]
        /\ Len(cola'["EXIT"]) = Len(cola["EXIT"]) + 1
    BY <1>1, <1>3, ColasSonListas DEF TypeOK, Semaforos, Colas
  <2> QED BY <2>1, <1>1 DEF IOyExitConRespaldo, Semaforos
<1>9. AdmisionConRespaldo'
  <2>1. PorAdmitir' = PorAdmitir
    BY <1>3 DEF PorAdmitir, Colas
  <2>2. sem["hayPcbs"] \in Nat /\ sem["transicionar"] \in Nat
    BY DEF TypeOK, Semaforos
  <2> QED BY <2>1, <2>2, <1>1, PorAdmitirNat DEF AdmisionConRespaldo, Hilos, Semaforos, Uno
<1>10. ManosOcupadas'
  BY <1>1, <1>2, <1>3 DEF ManosOcupadas, TypeOK, Hilos, LargoRechazar
<1>11. CpuAlDia'
  BY <1>1, <1>2, <1>3 DEF CpuAlDia, Hilos, Colas, LargoRechazar, TypeOK
<1> QED BY <1>4, <1>5, <1>6, <1>7, <1>8, <1>9, <1>10, <1>11

\* The new PCB is in READY before its unit is posted.
LEMMA LargoAdmitirIInv ==
  ASSUME IInv, LargoAdmitir
  PROVE  IInv'
<1> USE DEF IInv
<1>1. /\ hilo["largo"] = "solicitarTabla"
      /\ hilo'["largo"] = "avisarReady"
      /\ \A h \in Hilos : h # "largo" => hilo'[h] = hilo[h]
      /\ UNCHANGED <<sem, cpu>>
  BY DEF TypeOK, Semaforos, Hilos, LargoAdmitir, Ir, En, pares
<1>2. enMano["largo"] \in Proc
  BY <1>1 DEF ManosOcupadas
<1>3. /\ cola' \in [Colas -> Seq(Proc)]
      /\ Len(cola'["READY"]) = Len(cola["READY"]) + 1
      /\ \A e \in Colas : e # "READY" => cola'[e] = cola[e]
  BY <1>2, Encolar DEF LargoAdmitir, Colas
<1>4. TypeOK'
  <2>1. hilo' \in [Hilos -> Lugares]
    BY <1>1 DEF TypeOK, LargoAdmitir, Ir, Hilos, Lugares
  <2>2. enMano' \in [Hilos -> Proc \union {Ninguno}]
    BY <1>2, <1>3 DEF TypeOK, LargoAdmitir, Hilos
  <2> QED BY <2>1, <2>2, <1>3, <1>2 DEF TypeOK, LargoAdmitir, pares
<1>5. DespachoConservado'
  BY <1>1 DEF DespachoConservado, TypeOK, Hilos, Semaforos, Uno
<1>6. ExecConRespaldo'
  <2>1. /\ sem["EXEC"] \in Nat /\ Len(cola["EXEC"]) \in Nat
        /\ cola'["EXEC"] = cola["EXEC"]
    BY <1>1, <1>3, ColasSonListas DEF TypeOK, Semaforos, Colas
  <2> QED BY <2>1, <1>1 DEF ExecConRespaldo, Semaforos, Hilos, Uno
<1>7. ReadyConRespaldo'
  <2>1. /\ sem["READY"] \in Nat /\ Len(cola["READY"]) \in Nat
        /\ Len(cola'["READY"]) = Len(cola["READY"]) + 1
    BY <1>1, <1>3, ColasSonListas DEF TypeOK, Semaforos, Colas
  <2> QED BY <2>1, <1>1 DEF ReadyConRespaldo, Semaforos, Hilos, Uno
<1>8. IOyExitConRespaldo'
  <2>1. /\ sem["IO"] \in Nat /\ Len(cola["IO"]) \in Nat
        /\ sem["EXIT"] \in Nat /\ Len(cola["EXIT"]) \in Nat
        /\ cola'["IO"] = cola["IO"]
        /\ cola'["EXIT"] = cola["EXIT"]
    BY <1>1, <1>3, ColasSonListas DEF TypeOK, Semaforos, Colas
  <2> QED BY <2>1, <1>1 DEF IOyExitConRespaldo, Semaforos
<1>9. AdmisionConRespaldo'
  <2>1. PorAdmitir' = PorAdmitir
    BY <1>3 DEF PorAdmitir, Colas
  <2>2. sem["hayPcbs"] \in Nat /\ sem["transicionar"] \in Nat
    BY DEF TypeOK, Semaforos
  <2> QED BY <2>1, <2>2, <1>1, PorAdmitirNat DEF AdmisionConRespaldo, Hilos, Semaforos, Uno
<1>10. ManosOcupadas'
  BY <1>1, <1>2, <1>3 DEF ManosOcupadas, TypeOK, Hilos, LargoAdmitir
<1>11. CpuAlDia'
  BY <1>1, <1>2, <1>3 DEF CpuAlDia, Hilos, Colas, LargoAdmitir, TypeOK
<1> QED BY <1>4, <1>5, <1>6, <1>7, <1>8, <1>9, <1>10, <1>11

\* The unit of READY the long term thread owed.
LEMMA LargoAvisarReadyIInv ==
  ASSUME IInv, LargoAvisarReady
  PROVE  IInv'
<1> USE DEF IInv
<1>1. /\ hilo["largo"] = "avisarReady"
      /\ hilo'["largo"] = "esperar"
      /\ \A h \in Hilos : h # "largo" => hilo'[h] = hilo[h]
      /\ sem'["READY"] = sem["READY"] + 1
      /\ \A s \in Semaforos : s # "READY" => sem'[s] = sem[s]
      /\ UNCHANGED <<cola, enMano, cpu>>
  BY DEF TypeOK, Semaforos, Hilos, LargoAvisarReady, Post, Ir, En, pares
<1>2. TypeOK'
  <2>1. sem' \in [Semaforos -> Nat]
    BY <1>1 DEF TypeOK, LargoAvisarReady, Post, Semaforos
  <2>2. hilo' \in [Hilos -> Lugares]
    BY <1>1 DEF TypeOK, LargoAvisarReady, Ir, Hilos, Lugares
  <2> QED BY <2>1, <2>2 DEF TypeOK, LargoAvisarReady, pares
<1>3. DespachoConservado'
  BY <1>1 DEF DespachoConservado, TypeOK, Hilos, Semaforos, Uno
<1>4. ExecConRespaldo'
  <2>1. /\ sem["EXEC"] \in Nat /\ Len(cola["EXEC"]) \in Nat
        /\ cola'["EXEC"] = cola["EXEC"]
    BY <1>1, ColasSonListas DEF TypeOK, Semaforos, Colas
  <2> QED BY <2>1, <1>1 DEF ExecConRespaldo, Semaforos, Hilos, Uno
<1>5. ReadyConRespaldo'
  <2>1. /\ sem["READY"] \in Nat /\ Len(cola["READY"]) \in Nat
        /\ cola'["READY"] = cola["READY"]
    BY <1>1, ColasSonListas DEF TypeOK, Semaforos, Colas
  <2> QED BY <2>1, <1>1 DEF ReadyConRespaldo, Semaforos, Hilos, Uno
<1>6. IOyExitConRespaldo'
  <2>1. /\ sem["IO"] \in Nat /\ Len(cola["IO"]) \in Nat
        /\ sem["EXIT"] \in Nat /\ Len(cola["EXIT"]) \in Nat
        /\ cola'["IO"] = cola["IO"]
        /\ cola'["EXIT"] = cola["EXIT"]
    BY <1>1, ColasSonListas DEF TypeOK, Semaforos, Colas
  <2> QED BY <2>1, <1>1 DEF IOyExitConRespaldo, Semaforos
<1>7. AdmisionConRespaldo'
  <2>1. PorAdmitir' = PorAdmitir
    BY <1>1 DEF PorAdmitir, Colas
  <2>2. sem["hayPcbs"] \in Nat /\ sem["transicionar"] \in Nat
    BY DEF TypeOK, Semaforos
  <2> QED BY <2>1, <2>2, <1>1, PorAdmitirNat DEF AdmisionConRespaldo, Hilos, Semaforos, Uno
<1>8. ManosOcupadas'
  BY <1>1 DEF ManosOcupadas, TypeOK, Hilos
<1>9. CpuAlDia'
  BY <1>1 DEF CpuAlDia, Hilos, Colas
<1> QED BY <1>2, <1>3, <1>4, <1>5, <1>6, <1>7, <1>8, <1>9

\* A unit of transicionar and a PCB of SUSPENDED_READY are taken together.
LEMMA MedianoTomarSusreadyIInv ==
  ASSUME IInv, MedianoTomarSusready
  PROVE  IInv'
<1> USE DEF IInv
<1>1. /\ hilo["mediano"] = "esperar"
      /\ hilo'["mediano"] = "encolarReady"
      /\ \A h \in Hilos : h # "mediano" => hilo'[h] = hilo[h]
      /\ sem["transicionar"] > 0 /\ sem'["transicionar"] = sem["transicionar"] - 1
      /\ \A s \in Semaforos : s # "transicionar" => sem'[s] = sem[s]
      /\ cpu' = cpu
  BY DEF TypeOK, Semaforos, Hilos, MedianoTomarSusready, Wait, Ir, En, pares
<1>2. cola["SUSPENDED_READY"] # << >>
  BY <1>1, ColasSonListas DEF MedianoTomarSusready, Colas, Semaforos, TypeOK, Uno, IOyExitConRespaldo, ExecConRespaldo
<1>3. /\ Head(cola["SUSPENDED_READY"]) \in Proc /\ cola' \in [Colas -> Seq(Proc)]
      /\ Len(cola'["SUSPENDED_READY"]) = Len(cola["SUSPENDED_READY"]) - 1
      /\ \A e \in Colas : e # "SUSPENDED_READY" => cola'[e] = cola[e]
  BY <1>2, Desencolar DEF MedianoTomarSusready, Colas
<1>4. TypeOK'
  <2>1. pcb' \in [Proc -> Pcb]
    BY <1>3, PcbEstado DEF EstadoPcb, MedianoTomarSusready
  <2>2. sem' \in [Semaforos -> Nat]
    BY <1>1 DEF TypeOK, MedianoTomarSusready, Wait, Semaforos
  <2>3. hilo' \in [Hilos -> Lugares]
    BY <1>1 DEF TypeOK, MedianoTomarSusready, Ir, Hilos, Lugares
  <2>4. enMano' \in [Hilos -> Proc \union {Ninguno}]
    BY <1>3 DEF TypeOK, MedianoTomarSusready, Hilos
  <2> QED BY <2>1, <2>2, <2>3, <2>4, <1>3 DEF TypeOK, MedianoTomarSusready, pares
<1>5. DespachoConservado'
  BY <1>1 DEF DespachoConservado, TypeOK, Hilos, Semaforos, Uno
<1>6. ExecConRespaldo'
  <2>1. /\ sem["EXEC"] \in Nat /\ Len(cola["EXEC"]) \in Nat
        /\ cola'["EXEC"] = cola["EXEC"]
    BY <1>1, <1>3, ColasSonListas DEF TypeOK, Semaforos, Colas
  <2> QED BY <2>1, <1>1 DEF ExecConRespaldo, Semaforos, Hilos, Uno
<1>7. ReadyConRespaldo'
  <2>1. /\ sem["READY"] \in Nat /\ Len(cola["READY"]) \in Nat
        /\ cola'["READY"] = cola["READY"]
    BY <1>1, <1>3, ColasSonListas DEF TypeOK, Semaforos, Colas
  <2> QED BY <2>1, <1>1 DEF ReadyConRespaldo, Semaforos, Hilos, Uno
<1>8. IOyExitConRespaldo'
  <2>1. /\ sem["IO"] \in Nat /\ Len(cola["IO"]) \in Nat
        /\ sem["EXIT"] \in Nat /\ Len(cola["EXIT"]) \in Nat
        /\ cola'["IO"] = cola["IO"]
        /\ cola'["EXIT"] = cola["EXIT"]
    BY <1>1, <1>3, ColasSonListas DEF TypeOK, Semaforos, Colas
  <2> QED BY <2>1, <1>1 DEF IOyExitConRespaldo, Semaforos
<1>9. AdmisionConRespaldo'
  <2>1. PorAdmitir' = PorAdmitir - 1
    BY <1>3, PorAdmitirCambia DEF Colas
  <2>2. sem["hayPcbs"] \in Nat /\ sem["transicionar"] \in Nat
    BY DEF TypeOK, Semaforos
  <2> QED BY <2>1, <2>2, <1>1, PorAdmitirNat DEF AdmisionConRespaldo, Hilos, Semaforos, Uno
<1>10. ManosOcupadas'
  BY <1>1, <1>3 DEF ManosOcupadas, TypeOK, Hilos, MedianoTomarSusready
<1>11. CpuAlDia'
  BY <1>1, <1>3 DEF CpuAlDia, Hilos, Colas, MedianoTomarSusready, TypeOK
<1> QED BY <1>4, <1>5, <1>6, <1>7, <1>8, <1>9, <1>10, <1>11

\* The medium term thread dereferences NULL: nothing else changes.
LEMMA MedianoCaerIInv ==
  ASSUME IInv, MedianoCaer
  PROVE  IInv'
<1> USE DEF IInv
<1>1. /\ hilo["mediano"] = "esperar"
      /\ UNCHANGED <<cola, sem, hilo, enMano, cpu>>
  BY DEF TypeOK, Semaforos, Hilos, MedianoCaer, En, pares
<1>2. TypeOK'
  <2> QED BY DEF TypeOK, MedianoCaer, pares
<1>3. DespachoConservado'
  BY <1>1 DEF DespachoConservado, TypeOK, Hilos, Semaforos, Uno
<1>4. ExecConRespaldo'
  <2>1. /\ sem["EXEC"] \in Nat /\ Len(cola["EXEC"]) \in Nat
        /\ cola'["EXEC"] = cola["EXEC"]
    BY <1>1, ColasSonListas DEF TypeOK, Semaforos, Colas
  <2> QED BY <2>1, <1>1 DEF ExecConRespaldo, Semaforos, Hilos, Uno
<1>5. ReadyConRespaldo'
  <2>1. /\ sem["READY"] \in Nat /\ Len(cola["READY"]) \in Nat
        /\ cola'["READY"] = cola["READY"]
    BY <1>1, ColasSonListas DEF TypeOK, Semaforos, Colas
  <2> QED BY <2>1, <1>1 DEF ReadyConRespaldo, Semaforos, Hilos, Uno
<1>6. IOyExitConRespaldo'
  <2>1. /\ sem["IO"] \in Nat /\ Len(cola["IO"]) \in Nat
        /\ sem["EXIT"] \in Nat /\ Len(cola["EXIT"]) \in Nat
        /\ cola'["IO"] = cola["IO"]
        /\ cola'["EXIT"] = cola["EXIT"]
    BY <1>1, ColasSonListas DEF TypeOK, Semaforos, Colas
  <2> QED BY <2>1, <1>1 DEF IOyExitConRespaldo, Semaforos
<1>7. AdmisionConRespaldo'
  <2>1. PorAdmitir' = PorAdmitir
    BY <1>1 DEF PorAdmitir, Colas
  <2>2. sem["hayPcbs"] \in Nat /\ sem["transicionar"] \in Nat
    BY DEF TypeOK, Semaforos
  <2> QED BY <2>1, <2>2, <1>1, PorAdmitirNat DEF AdmisionConRespaldo, Hilos, Semaforos, Uno
<1>8. ManosOcupadas'
  BY <1>1 DEF ManosOcupadas, TypeOK, Hilos
<1>9. CpuAlDia'
  BY <1>1 DEF CpuAlDia, Hilos, Colas
<1> QED BY <1>2, <1>3, <1>4, <1>5, <1>6, <1>7, <1>8, <1>9

\* The returning PCB is in READY before its unit is posted.
LEMMA MedianoEncolarReadyIInv ==
  ASSUME IInv, MedianoEncolarReady
  PROVE  IInv'
<1> USE DEF IInv
<1>1. /\ hilo["mediano"] = "encolarReady"
      /\ hilo'["mediano"] = "avisarReady"
      /\ \A h \in Hilos : h # "mediano" => hilo'[h] = hilo[h]
      /\ UNCHANGED <<sem, cpu>>
  BY DEF TypeOK, Semaforos, Hilos, MedianoEncolarReady, Ir, En, pares
<1>2. enMano["mediano"] \in Proc
  BY <1>1 DEF ManosOcupadas
<1>3. /\ cola' \in [Colas -> Seq(Proc)]
      /\ Len(cola'["READY"]) = Len(cola["READY"]) + 1
      /\ \A e \in Colas : e # "READY" => cola'[e] = cola[e]
  BY <1>2, Encolar DEF MedianoEncolarReady, Colas
<1>4. TypeOK'
  <2>1. hilo' \in [Hilos -> Lugares]
    BY <1>1 DEF TypeOK, MedianoEncolarReady, Ir, Hilos, Lugares
  <2>2. enMano' \in [Hilos -> Proc \union {Ninguno}]
    BY <1>2, <1>3 DEF TypeOK, MedianoEncolarReady, Hilos
  <2> QED BY <2>1, <2>2, <1>3 DEF TypeOK, MedianoEncolarReady, pares
<1>5. DespachoConservado'
  BY <1>1 DEF DespachoConservado, TypeOK, Hilos, Semaforos, Uno
<1>6. ExecConRespaldo'
  <2>1. /\ sem["EXEC"] \in Nat /\ Len(cola["EXEC"]) \in Nat
        /\ cola'["EXEC"] = cola["EXEC"]
    BY <1>1, <1>3, ColasSonListas DEF TypeOK, Semaforos, Colas
  <2> QED BY <2>1, <1>1 DEF ExecConRespaldo, Semaforos, Hilos, Uno
<1>7. ReadyConRespaldo'
  <2>1. /\ sem["READY"] \in Nat /\ Len(cola["READY"]) \in Nat
        /\ Len(cola'["READY"]) = Len(cola["READY"]) + 1
    BY <1>1, <1>3, ColasSonListas DEF TypeOK, Semaforos, Colas
  <2> QED BY <2>1, <1>1 DEF ReadyConRespaldo, Semaforos, Hilos, Uno
<1>8. IOyExitConRespaldo'
  <2>1. /\ sem["IO"] \in Nat /\ Len(cola["IO"]) \in Nat
        /\ sem["EXIT"] \in Nat /\ Len(cola["EXIT"]) \in Nat
        /\ cola'["IO"] = cola["IO"]
        /\ cola'["EXIT"] = cola["EXIT"]
    BY <1>1, <1>3, ColasSonListas DEF TypeOK, Semaforos, Colas
  <2> QED BY <2>1, <1>1 DEF IOyExitConRespaldo, Semaforos
<1>9. AdmisionConRespaldo'
  <2>1. PorAdmitir' = PorAdmitir
    BY <1>3 DEF PorAdmitir, Colas
  <2>2. sem["hayPcbs"] \in Nat /\ sem["transicionar"] \in Nat
    BY DEF TypeOK, Semaforos
  <2> QED BY <2>1, <2>2, <1>1, PorAdmitirNat DEF AdmisionConRespaldo, Hilos, Semaforos, Uno
<1>10. ManosOcupadas'
  BY <1>1, <1>2, <1>3 DEF ManosOcupadas, TypeOK, Hilos, MedianoEncolarReady
<1>11. CpuAlDia'
  BY <1>1, <1>2, <1>3 DEF CpuAlDia, Hilos, Colas, MedianoEncolarReady, TypeOK
<1> QED BY <1>4, <1>5, <1>6, <1>7, <1>8, <1>9, <1>10, <1>11

\* The unit of READY the medium term thread owed.
LEMMA MedianoAvisarReadyIInv ==
  ASSUME IInv, MedianoAvisarReady
  PROVE  IInv'
<1> USE DEF IInv
<1>1. /\ hilo["mediano"] = "avisarReady"
      /\ hilo'["mediano"] = "esperar"
      /\ \A h \in Hilos : h # "mediano" => hilo'[h] = hilo[h]
      /\ sem'["READY"] = sem["READY"] + 1
      /\ \A s \in Semaforos : s # "READY" => sem'[s] = sem[s]
      /\ UNCHANGED <<cola, enMano, cpu>>
  BY DEF TypeOK, Semaforos, Hilos, MedianoAvisarReady, Post, Ir, En, pares
<1>2. TypeOK'
  <2>1. sem' \in [Semaforos -> Nat]
    BY <1>1 DEF TypeOK, MedianoAvisarReady, Post, Semaforos
  <2>2. hilo' \in [Hilos -> Lugares]
    BY <1>1 DEF TypeOK, MedianoAvisarReady, Ir, Hilos, Lugares
  <2> QED BY <2>1, <2>2 DEF TypeOK, MedianoAvisarReady, pares
<1>3. DespachoConservado'
  BY <1>1 DEF DespachoConservado, TypeOK, Hilos, Semaforos, Uno
<1>4. ExecConRespaldo'
  <2>1. /\ sem["EXEC"] \in Nat /\ Len(cola["EXEC"]) \in Nat
        /\ cola'["EXEC"] = cola["EXEC"]
    BY <1>1, ColasSonListas DEF TypeOK, Semaforos, Colas
  <2> QED BY <2>1, <1>1 DEF ExecConRespaldo, Semaforos, Hilos, Uno
<1>5. ReadyConRespaldo'
  <2>1. /\ sem["READY"] \in Nat /\ Len(cola["READY"]) \in Nat
        /\ cola'["READY"] = cola["READY"]
    BY <1>1, ColasSonListas DEF TypeOK, Semaforos, Colas
  <2> QED BY <2>1, <1>1 DEF ReadyConRespaldo, Semaforos, Hilos, Uno
<1>6. IOyExitConRespaldo'
  <2>1. /\ sem["IO"] \in Nat /\ Len(cola["IO"]) \in Nat
        /\ sem["EXIT"] \in Nat /\ Len(cola["EXIT"]) \in Nat
        /\ cola'["IO"] = cola["IO"]
        /\ cola'["EXIT"] = cola["EXIT"]
    BY <1>1, ColasSonListas DEF TypeOK, Semaforos, Colas
  <2> QED BY <2>1, <1>1 DEF IOyExitConRespaldo, Semaforos
<1>7. AdmisionConRespaldo'
  <2>1. PorAdmitir' = PorAdmitir
    BY <1>1 DEF PorAdmitir, Colas
  <2>2. sem["hayPcbs"] \in Nat /\ sem["transicionar"] \in Nat
    BY DEF TypeOK, Semaforos
  <2> QED BY <2>1, <2>2, <1>1, PorAdmitirNat DEF AdmisionConRespaldo, Hilos, Semaforos, Uno
<1>8. ManosOcupadas'
  BY <1>1 DEF ManosOcupadas, TypeOK, Hilos
<1>9. CpuAlDia'
  BY <1>1 DEF CpuAlDia, Hilos, Colas
<1> QED BY <1>2, <1>3, <1>4, <1>5, <1>6, <1>7, <1>8, <1>9

\* The short term thread holds the unit of READY it took.
LEMMA CortoEvaluarDesalojoIInv ==
  ASSUME IInv, CortoEvaluarDesalojo
  PROVE  IInv'
<1> USE DEF IInv
<1>1. /\ hilo["corto"] = "esperar"
      /\ hilo'["corto"] = "despachar"
      /\ \A h \in Hilos : h # "corto" => hilo'[h] = hilo[h]
      /\ sem["READY"] > 0 /\ sem'["READY"] = sem["READY"] - 1
      /\ \A s \in Semaforos : s # "READY" => sem'[s] = sem[s]
      /\ UNCHANGED <<cola, enMano, cpu>>
  BY DEF TypeOK, Semaforos, Hilos, CortoEvaluarDesalojo, Wait, Ir, En, pares
<1>2. TypeOK'
  <2>1. sem' \in [Semaforos -> Nat]
    BY <1>1 DEF TypeOK, CortoEvaluarDesalojo, Wait, Semaforos
  <2>2. hilo' \in [Hilos -> Lugares]
    BY <1>1 DEF TypeOK, CortoEvaluarDesalojo, Ir, Hilos, Lugares
  <2>3. canalInterrupt' \in Nat /\ hayQueDesalojar' \in BOOLEAN
    <3>1. canalInterrupt \in Nat /\ canalInterrupt + 1 \in Nat /\ hayQueDesalojar \in BOOLEAN
      BY DEF TypeOK
    <3>2. CASE Algoritmo = "SRT" /\ hayQueDesalojar
      <4>1. canalInterrupt' \in {canalInterrupt, canalInterrupt + 1} /\ hayQueDesalojar' = FALSE
        BY <3>2 DEF CortoEvaluarDesalojo
      <4> QED BY <3>1, <4>1
    <3>3. CASE ~(Algoritmo = "SRT" /\ hayQueDesalojar)
      <4>1. canalInterrupt' = canalInterrupt /\ hayQueDesalojar' = hayQueDesalojar
        BY <3>3 DEF CortoEvaluarDesalojo
      <4> QED BY <3>1, <4>1
    <3> QED BY <3>2, <3>3
  <2> QED BY <2>1, <2>2, <2>3 DEF TypeOK, CortoEvaluarDesalojo, pares
<1>3. DespachoConservado'
  BY <1>1 DEF DespachoConservado, TypeOK, Hilos, Semaforos, Uno
<1>4. ExecConRespaldo'
  <2>1. /\ sem["EXEC"] \in Nat /\ Len(cola["EXEC"]) \in Nat
        /\ cola'["EXEC"] = cola["EXEC"]
    BY <1>1, ColasSonListas DEF TypeOK, Semaforos, Colas
  <2> QED BY <2>1, <1>1 DEF ExecConRespaldo, Semaforos, Hilos, Uno
<1>5. ReadyConRespaldo'
  <2>1. /\ sem["READY"] \in Nat /\ Len(cola["READY"]) \in Nat
        /\ cola'["READY"] = cola["READY"]
    BY <1>1, ColasSonListas DEF TypeOK, Semaforos, Colas
  <2> QED BY <2>1, <1>1 DEF ReadyConRespaldo, Semaforos, Hilos, Uno
<1>6. IOyExitConRespaldo'
  <2>1. /\ sem["IO"] \in Nat /\ Len(cola["IO"]) \in Nat
        /\ sem["EXIT"] \in Nat /\ Len(cola["EXIT"]) \in Nat
        /\ cola'["IO"] = cola["IO"]
        /\ cola'["EXIT"] = cola["EXIT"]
    BY <1>1, ColasSonListas DEF TypeOK, Semaforos, Colas
  <2> QED BY <2>1, <1>1 DEF IOyExitConRespaldo, Semaforos
<1>7. AdmisionConRespaldo'
  <2>1. PorAdmitir' = PorAdmitir
    BY <1>1 DEF PorAdmitir, Colas
  <2>2. sem["hayPcbs"] \in Nat /\ sem["transicionar"] \in Nat
    BY DEF TypeOK, Semaforos
  <2> QED BY <2>1, <2>2, <1>1, PorAdmitirNat DEF AdmisionConRespaldo, Hilos, Semaforos, Uno
<1>8. ManosOcupadas'
  BY <1>1 DEF ManosOcupadas, TypeOK, Hilos
<1>9. CpuAlDia'
  BY <1>1 DEF CpuAlDia, Hilos, Colas
<1> QED BY <1>2, <1>3, <1>4, <1>5, <1>6, <1>7, <1>8, <1>9

\* A PCB goes from READY to EXEC, which dispatchPermitido says is empty.
LEMMA CortoDespacharIInv ==
  ASSUME IInv, CortoDespachar
  PROVE  IInv'
<1> USE DEF IInv
<1>1. /\ hilo["corto"] = "despachar"
      /\ hilo'["corto"] = "esperar"
      /\ \A h \in Hilos : h # "corto" => hilo'[h] = hilo[h]
      /\ sem'["EXEC"] = sem["EXEC"] + 1
      /\ sem["dispatchPermitido"] > 0 /\ sem'["dispatchPermitido"] = sem["dispatchPermitido"] - 1
      /\ \A s \in Semaforos : s # "EXEC" /\ s # "dispatchPermitido" => sem'[s] = sem[s]
      /\ UNCHANGED <<enMano, cpu>>
  BY DEF TypeOK, Semaforos, Hilos, CortoDespachar, Ir, En, pares
<1>2. /\ cola' \in [Colas -> Seq(Proc)]
      /\ Len(cola'["READY"]) = Len(cola["READY"]) - 1
      /\ Len(cola'["EXEC"]) = Len(cola["EXEC"]) + 1
      /\ \A e \in Colas : e # "READY" /\ e # "EXEC" => cola'[e] = cola[e]
  <2>1. sem["READY"] \in Nat
    BY DEF TypeOK, Semaforos
  <2>2. cola["READY"] \in Seq(Proc) /\ cola["EXEC"] \in Seq(Proc) /\ Len(cola["READY"]) \in Nat
    BY ColasSonListas DEF Colas
  <2>3. Len(cola["READY"]) > 0
    BY <1>1, <2>1, <2>2 DEF ReadyConRespaldo, Uno
  <2>4. PICK i \in Elegibles : cola' = [cola EXCEPT !["READY"] = RemoveAt(@, i),
                                                    !["EXEC"] = Append(@, cola["READY"][i])]
    BY DEF CortoDespachar
  <2>5. i \in 1..Len(cola["READY"])
    BY <2>2, <2>3, <2>4 DEF Elegibles
  <2>6. /\ RemoveAt(cola["READY"], i) \in Seq(Proc)
        /\ Len(RemoveAt(cola["READY"], i)) = Len(cola["READY"]) - 1
    BY <2>2, <2>5, RemoveAtProperties
  <2>7. /\ Append(cola["EXEC"], cola["READY"][i]) \in Seq(Proc)
        /\ Len(Append(cola["EXEC"], cola["READY"][i])) = Len(cola["EXEC"]) + 1
    <3>1. cola["READY"][i] \in Proc
      BY <2>2, <2>5, ElementOfSeq
    <3> QED BY <2>2, <3>1, AppendProperties
  <2> QED BY <2>4, <2>6, <2>7 DEF TypeOK, Colas
<1>3. TypeOK'
  <2>1. sem' \in [Semaforos -> Nat]
    BY <1>1 DEF TypeOK, CortoDespachar, Semaforos
  <2>2. hilo' \in [Hilos -> Lugares]
    BY <1>1 DEF TypeOK, CortoDespachar, Ir, Hilos, Lugares
  <2> QED BY <1>2, <2>1, <2>2 DEF TypeOK, CortoDespachar, pares
<1>4. DespachoConservado'
  BY <1>1 DEF DespachoConservado, TypeOK, Hilos, Semaforos, Uno
<1>5. ExecConRespaldo'
  <2>1. /\ sem["EXEC"] \in Nat /\ Len(cola["EXEC"]) \in Nat
        /\ Len(cola'["EXEC"]) = Len(cola["EXEC"]) + 1
    BY <1>2, ColasSonListas DEF TypeOK, Semaforos, Colas
  <2> QED BY <2>1, <1>1 DEF ExecConRespaldo, Semaforos, Hilos, Uno
<1>6. ReadyConRespaldo'
  <2>1. /\ sem["READY"] \in Nat /\ Len(cola["READY"]) \in Nat
        /\ Len(cola'["READY"]) = Len(cola["READY"]) - 1
    BY <1>2, ColasSonListas DEF TypeOK, Semaforos, Colas
  <2> QED BY <2>1, <1>1, SMTT(20) DEF ReadyConRespaldo, Semaforos, Hilos, Uno
<1>7. IOyExitConRespaldo'
  <2>1. /\ sem["IO"] \in Nat /\ Len(cola["IO"]) \in Nat
        /\ sem["EXIT"] \in Nat /\ Len(cola["EXIT"]) \in Nat
        /\ cola'["IO"] = cola["IO"]
        /\ cola'["EXIT"] = cola["EXIT"]
    BY <1>2, ColasSonListas DEF TypeOK, Semaforos, Colas
  <2> QED BY <2>1, <1>1 DEF IOyExitConRespaldo, Semaforos
<1>8. AdmisionConRespaldo'
  <2>1. PorAdmitir' = PorAdmitir
    BY <1>2 DEF PorAdmitir, Colas
  <2>2. sem["hayPcbs"] \in Nat /\ sem["transicionar"] \in Nat
    BY DEF TypeOK, Semaforos
  <2> QED BY <2>1, <2>2, <1>1, PorAdmitirNat DEF AdmisionConRespaldo, Hilos, Semaforos, Uno
<1>9. ManosOcupadas'
  BY <1>1 DEF ManosOcupadas, TypeOK, Hilos
<1>10. CpuAlDia'
  <2>1. sem["EXEC"] \in Nat /\ sem["dispatchPermitido"] \in Nat
    BY DEF TypeOK, Semaforos
  <2>2. hilo["atender"] = "esperar"
    BY <1>1, <2>1 DEF DespachoConservado, Uno
  <2> QED BY <1>1, <2>2 DEF CpuAlDia, Hilos
<1> QED BY <1>3, <1>4, <1>5, <1>6, <1>7, <1>8, <1>9, <1>10

\* The only PCB of EXEC goes to the CPU.
LEMMA AtenderEnviarPcbIInv ==
  ASSUME IInv, AtenderEnviarPcb
  PROVE  IInv'
<1> USE DEF IInv
<1>1. /\ hilo["atender"] = "esperar"
      /\ hilo'["atender"] = "esperarCpu"
      /\ \A h \in Hilos : h # "atender" => hilo'[h] = hilo[h]
      /\ sem["EXEC"] > 0 /\ sem'["EXEC"] = sem["EXEC"] - 1
      /\ \A s \in Semaforos : s # "EXEC" => sem'[s] = sem[s]
      /\ cola' = cola
  BY DEF TypeOK, Semaforos, Hilos, AtenderEnviarPcb, Wait, Ir, En, pares
<1>2. /\ Head(cola["EXEC"]) \in Proc /\ cola["EXEC"] = <<Head(cola["EXEC"])>>
      /\ cpu' \in EstadoCpu /\ cpu'.proc = Head(cola["EXEC"]) /\ cpu'.respuesta = cpu.respuesta
  <2>1. /\ hilo["atender"] = "esperar" /\ sem["EXEC"] > 0
        /\ sem["EXEC"] \in Nat /\ sem["dispatchPermitido"] \in Nat
    BY DEF AtenderEnviarPcb, En, TypeOK, Semaforos
  <2>2. sem["EXEC"] = 1
    BY <2>1 DEF DespachoConservado, Uno
  <2>3. Len(cola["EXEC"]) = 1
    BY <2>1, <2>2 DEF ExecConRespaldo, Uno
  <2>4. cola["EXEC"] \in Seq(Proc)
    BY DEF TypeOK, Colas
  <2> DEFINE p == Head(cola["EXEC"])
  <2>5. p \in Proc /\ cola["EXEC"] = <<p>>
    BY <2>3, <2>4
  <2>6. pcb[p].programCounter \in Nat /\ cpu \in EstadoCpu
    BY <2>5 DEF TypeOK, Pcb
  <2>7. cpu' = [cpu EXCEPT !.proc = p, !.programCounter = pcb[p].programCounter,
                             !.ultimoSuspendido = (ultimoPIDSuspendido = p)]
    BY DEF AtenderEnviarPcb
  <2>8. (ultimoPIDSuspendido = p) \in BOOLEAN
    OBVIOUS
  <2> HIDE DEF p
  <2>9. cpu' \in EstadoCpu
    BY <2>5, <2>6, <2>7, <2>8 DEF EstadoCpu
  <2>10. cpu'.proc = p
    BY <2>5, <2>6, <2>7, <2>8 DEF EstadoCpu
  <2>11. cpu'.respuesta = cpu.respuesta
    BY <2>5, <2>6, <2>7, <2>8 DEF EstadoCpu
  <2> QED BY <2>5, <2>9, <2>10, <2>11 DEF p
<1>3. enMano'["atender"] = Head(cola["EXEC"]) /\ \A h \in Hilos : h # "atender" => enMano'[h] = enMano[h]
  BY DEF TypeOK, Hilos, AtenderEnviarPcb
<1>4. TypeOK'
  <2>1. cpu' \in EstadoCpu
    BY <1>2
  <2>2. sem' \in [Semaforos -> Nat]
    BY <1>1 DEF TypeOK, AtenderEnviarPcb, Wait, Semaforos
  <2>3. hilo' \in [Hilos -> Lugares]
    BY <1>1 DEF TypeOK, AtenderEnviarPcb, Ir, Hilos, Lugares
  <2>4. enMano' \in [Hilos -> Proc \union {Ninguno}]
    BY <1>2 DEF TypeOK, AtenderEnviarPcb, Hilos
  <2> QED BY <2>1, <2>2, <2>3, <2>4 DEF TypeOK, AtenderEnviarPcb, pares
<1>5. DespachoConservado'
  BY <1>1 DEF DespachoConservado, TypeOK, Hilos, Semaforos, Uno
<1>6. ExecConRespaldo'
  <2>1. /\ sem["EXEC"] \in Nat /\ Len(cola["EXEC"]) \in Nat
        /\ cola'["EXEC"] = cola["EXEC"]
    BY <1>1, ColasSonListas DEF TypeOK, Semaforos, Colas
  <2> QED BY <2>1, <1>1 DEF ExecConRespaldo, Semaforos, Hilos, Uno
<1>7. ReadyConRespaldo'
  <2>1. /\ sem["READY"] \in Nat /\ Len(cola["READY"]) \in Nat
        /\ cola'["READY"] = cola["READY"]
    BY <1>1, ColasSonListas DEF TypeOK, Semaforos, Colas
  <2> QED BY <2>1, <1>1 DEF ReadyConRespaldo, Semaforos, Hilos, Uno
<1>8. IOyExitConRespaldo'
  <2>1. /\ sem["IO"] \in Nat /\ Len(cola["IO"]) \in Nat
        /\ sem["EXIT"] \in Nat /\ Len(cola["EXIT"]) \in Nat
        /\ cola'["IO"] = cola["IO"]
        /\ cola'["EXIT"] = cola["EXIT"]
    BY <1>1, ColasSonListas DEF TypeOK, Semaforos, Colas
  <2> QED BY <2>1, <1>1 DEF IOyExitConRespaldo, Semaforos
<1>9. AdmisionConRespaldo'
  <2>1. PorAdmitir' = PorAdmitir
    BY <1>1 DEF PorAdmitir, Colas
  <2>2. sem["hayPcbs"] \in Nat /\ sem["transicionar"] \in Nat
    BY DEF TypeOK, Semaforos
  <2> QED BY <2>1, <2>2, <1>1, PorAdmitirNat DEF AdmisionConRespaldo, Hilos, Semaforos, Uno
<1>10. ManosOcupadas'
  BY <1>1, <1>2, <1>3 DEF ManosOcupadas, Hilos
<1>11. CpuAlDia'
  BY <1>1, <1>2, <1>3, NingunoAssumption DEF CpuAlDia
<1> QED BY <1>4, <1>5, <1>6, <1>7, <1>8, <1>9, <1>10, <1>11

\* The CPU's answer empties EXEC.
LEMMA AtenderRecibirPcbIInv ==
  ASSUME IInv, AtenderRecibirPcb
  PROVE  IInv'
<1> USE DEF IInv
<1>1. /\ hilo["atender"] = "esperarCpu"
      /\ hilo'["atender"] \in {"devolverReady", "encolarExit", "encolarIO"}
      /\ \A h \in Hilos : h # "atender" => hilo'[h] = hilo[h]
      /\ UNCHANGED <<sem, enMano>>
  BY CpuResponde DEF TypeOK, Semaforos, Hilos, AtenderRecibirPcb, Ir, En, Tramo, pares
<1>2. enMano["atender"] \in Proc
  BY <1>1 DEF ManosOcupadas
<1>3. cola["EXEC"] # << >>
  BY <1>1, ColasSonListas, SMTT(20) DEF AtenderRecibirPcb, Colas, Semaforos, TypeOK, Uno, IOyExitConRespaldo, ExecConRespaldo
<1>4. /\ Head(cola["EXEC"]) \in Proc /\ cola' \in [Colas -> Seq(Proc)]
      /\ Len(cola'["EXEC"]) = Len(cola["EXEC"]) - 1
      /\ \A e \in Colas : e # "EXEC" => cola'[e] = cola[e]
  BY <1>3, Desencolar DEF AtenderRecibirPcb, Colas
<1>5. TypeOK'
  <2>1. pcb' \in [Proc -> Pcb]
    <3> DEFINE p == enMano["atender"]
    <3>1. PICK b \in TiempoBloqueo :
            pcb' = [pcb EXCEPT ![p].programCounter = cpu.programCounter, ![p].tiempoDeBloqueo = b]
      <4>1. pcb[p].tiempoDeBloqueo \in TiempoBloqueo
        BY <1>2 DEF TypeOK, Pcb
      <4> QED BY <4>1 DEF AtenderRecibirPcb, TiempoBloqueo
    <3>2. pcb[p] \in Pcb /\ cpu.programCounter \in Nat
      BY <1>2 DEF TypeOK, EstadoCpu
    <3>3. [pcb[p] EXCEPT !.programCounter = cpu.programCounter, !.tiempoDeBloqueo = b] \in Pcb
      BY <3>2 DEF Pcb
    <3> QED BY <1>2, <3>1, <3>3 DEF TypeOK
  <2>2. cpu' \in EstadoCpu
    BY <1>2, <1>4 DEF TypeOK, EstadoCpu, AtenderRecibirPcb
  <2>3. hilo' \in [Hilos -> Lugares]
    BY <1>1, CpuResponde DEF TypeOK, AtenderRecibirPcb, Ir, Hilos, Lugares, Tramo
  <2> QED BY <2>1, <2>2, <2>3, <1>4 DEF TypeOK, AtenderRecibirPcb, pares
<1>6. DespachoConservado'
  BY <1>1 DEF DespachoConservado, TypeOK, Hilos, Semaforos, Uno
<1>7. ExecConRespaldo'
  <2>1. /\ sem["EXEC"] \in Nat /\ Len(cola["EXEC"]) \in Nat
        /\ Len(cola'["EXEC"]) = Len(cola["EXEC"]) - 1
    BY <1>1, <1>4, ColasSonListas DEF TypeOK, Semaforos, Colas
  <2> QED BY <2>1, <1>1 DEF ExecConRespaldo, Semaforos, Hilos, Uno
<1>8. ReadyConRespaldo'
  <2>1. /\ sem["READY"] \in Nat /\ Len(cola["READY"]) \in Nat
        /\ cola'["READY"] = cola["READY"]
    BY <1>1, <1>4, ColasSonListas DEF TypeOK, Semaforos, Colas
  <2> QED BY <2>1, <1>1 DEF ReadyConRespaldo, Semaforos, Hilos, Uno
<1>9. IOyExitConRespaldo'
  <2>1. /\ sem["IO"] \in Nat /\ Len(cola["IO"]) \in Nat
        /\ sem["EXIT"] \in Nat /\ Len(cola["EXIT"]) \in Nat
        /\ cola'["IO"] = cola["IO"]
        /\ cola'["EXIT"] = cola["EXIT"]
    BY <1>1, <1>4, ColasSonListas DEF TypeOK, Semaforos, Colas
  <2> QED BY <2>1, <1>1 DEF IOyExitConRespaldo, Semaforos
<1>10. AdmisionConRespaldo'
  <2>1. PorAdmitir' = PorAdmitir
    BY <1>4 DEF PorAdmitir, Colas
  <2>2. sem["hayPcbs"] \in Nat /\ sem["transicionar"] \in Nat
    BY DEF TypeOK, Semaforos
  <2> QED BY <2>1, <2>2, <1>1, PorAdmitirNat DEF AdmisionConRespaldo, Hilos, Semaforos, Uno
<1>11. ManosOcupadas'
  BY <1>1, <1>2, <1>4 DEF ManosOcupadas, TypeOK, Hilos
<1>12. CpuAlDia'
  BY <1>1, <1>2, <1>4 DEF CpuAlDia, Hilos, Colas, AtenderRecibirPcb, TypeOK, EstadoCpu
<1> QED BY <1>5, <1>6, <1>7, <1>8, <1>9, <1>10, <1>11, <1>12

\* A preempted PCB enters READY with its unit, and the CPU may be dispatched to.
LEMMA AtenderDesalojadoIInv ==
  ASSUME IInv, AtenderDesalojado
  PROVE  IInv'
<1> USE DEF IInv
<1>1. /\ hilo["atender"] = "devolverReady"
      /\ hilo'["atender"] = "esperar"
      /\ \A h \in Hilos : h # "atender" => hilo'[h] = hilo[h]
      /\ sem'["READY"] = sem["READY"] + 1
      /\ sem'["dispatchPermitido"] = sem["dispatchPermitido"] + 1
      /\ \A s \in Semaforos : s # "READY" /\ s # "dispatchPermitido" => sem'[s] = sem[s]
      /\ cpu' = cpu
  BY DEF TypeOK, Semaforos, Hilos, AtenderDesalojado, Ir, En, pares
<1>2. enMano["atender"] \in Proc
  BY <1>1 DEF ManosOcupadas
<1>3. /\ cola' \in [Colas -> Seq(Proc)]
      /\ Len(cola'["READY"]) = Len(cola["READY"]) + 1
      /\ \A e \in Colas : e # "READY" => cola'[e] = cola[e]
  BY <1>2, Encolar DEF AtenderDesalojado, Colas
<1>4. TypeOK'
  <2>1. pcb' \in [Proc -> Pcb]
    BY <1>2, <1>3, PcbEstado DEF EstadoPcb, AtenderDesalojado
  <2>2. sem' \in [Semaforos -> Nat]
    BY <1>1 DEF TypeOK, AtenderDesalojado, Semaforos
  <2>3. hilo' \in [Hilos -> Lugares]
    BY <1>1 DEF TypeOK, AtenderDesalojado, Ir, Hilos, Lugares
  <2>4. enMano' \in [Hilos -> Proc \union {Ninguno}]
    BY <1>2, <1>3 DEF TypeOK, AtenderDesalojado, Hilos
  <2> QED BY <2>1, <2>2, <2>3, <2>4, <1>3 DEF TypeOK, AtenderDesalojado, pares
<1>5. DespachoConservado'
  BY <1>1, SMTT(20) DEF DespachoConservado, TypeOK, Hilos, Semaforos, Uno
<1>6. ExecConRespaldo'
  <2>1. /\ sem["EXEC"] \in Nat /\ Len(cola["EXEC"]) \in Nat
        /\ cola'["EXEC"] = cola["EXEC"]
    BY <1>1, <1>3, ColasSonListas DEF TypeOK, Semaforos, Colas
  <2> QED BY <2>1, <1>1 DEF ExecConRespaldo, Semaforos, Hilos, Uno
<1>7. ReadyConRespaldo'
  <2>1. /\ sem["READY"] \in Nat /\ Len(cola["READY"]) \in Nat
        /\ Len(cola'["READY"]) = Len(cola["READY"]) + 1
    BY <1>1, <1>3, ColasSonListas DEF TypeOK, Semaforos, Colas
  <2> QED BY <2>1, <1>1, SMTT(20) DEF ReadyConRespaldo, Semaforos, Hilos, Uno
<1>8. IOyExitConRespaldo'
  <2>1. /\ sem["IO"] \in Nat /\ Len(cola["IO"]) \in Nat
        /\ sem["EXIT"] \in Nat /\ Len(cola["EXIT"]) \in Nat
        /\ cola'["IO"] = cola["IO"]
        /\ cola'["EXIT"] = cola["EXIT"]
    BY <1>1, <1>3, ColasSonListas DEF TypeOK, Semaforos, Colas
  <2> QED BY <2>1, <1>1 DEF IOyExitConRespaldo, Semaforos
<1>9. AdmisionConRespaldo'
  <2>1. PorAdmitir' = PorAdmitir
    BY <1>3 DEF PorAdmitir, Colas
  <2>2. sem["hayPcbs"] \in Nat /\ sem["transicionar"] \in Nat
    BY DEF TypeOK, Semaforos
  <2> QED BY <2>1, <2>2, <1>1, PorAdmitirNat DEF AdmisionConRespaldo, Hilos, Semaforos, Uno
<1>10. ManosOcupadas'
  BY <1>1, <1>2, <1>3 DEF ManosOcupadas, TypeOK, Hilos, AtenderDesalojado
<1>11. CpuAlDia'
  BY <1>1, <1>2, <1>3 DEF CpuAlDia, Hilos, Colas, AtenderDesalojado, TypeOK
<1> QED BY <1>4, <1>5, <1>6, <1>7, <1>8, <1>9, <1>10, <1>11

\* A finished PCB enters EXIT with its unit, and the CPU may be dispatched to.
LEMMA AtenderTerminadoIInv ==
  ASSUME IInv, AtenderTerminado
  PROVE  IInv'
<1> USE DEF IInv
<1>1. /\ hilo["atender"] = "encolarExit"
      /\ hilo'["atender"] = "esperar"
      /\ \A h \in Hilos : h # "atender" => hilo'[h] = hilo[h]
      /\ sem'["EXIT"] = sem["EXIT"] + 1
      /\ sem'["dispatchPermitido"] = sem["dispatchPermitido"] + 1
      /\ \A s \in Semaforos : s # "EXIT" /\ s # "dispatchPermitido" => sem'[s] = sem[s]
      /\ cpu' = cpu
  BY DEF TypeOK, Semaforos, Hilos, AtenderTerminado, Ir, En, pares
<1>2. enMano["atender"] \in Proc
  BY <1>1 DEF ManosOcupadas
<1>3. /\ cola' \in [Colas -> Seq(Proc)]
      /\ Len(cola'["EXIT"]) = Len(cola["EXIT"]) + 1
      /\ \A e \in Colas : e # "EXIT" => cola'[e] = cola[e]
  BY <1>2, Encolar DEF AtenderTerminado, Colas
<1>4. TypeOK'
  <2>1. pcb' \in [Proc -> Pcb]
    BY <1>2, <1>3, PcbEstado DEF EstadoPcb, AtenderTerminado
  <2>2. sem' \in [Semaforos -> Nat]
    BY <1>1 DEF TypeOK, AtenderTerminado, Semaforos
  <2>3. hilo' \in [Hilos -> Lugares]
    BY <1>1 DEF TypeOK, AtenderTerminado, Ir, Hilos, Lugares
  <2>4. enMano' \in [Hilos -> Proc \union {Ninguno}]
    BY <1>2, <1>3 DEF TypeOK, AtenderTerminado, Hilos
  <2> QED BY <2>1, <2>2, <2>3, <2>4, <1>3 DEF TypeOK, AtenderTerminado, pares
<1>5. DespachoConservado'
  BY <1>1, SMTT(20) DEF DespachoConservado, TypeOK, Hilos, Semaforos, Uno
<1>6. ExecConRespaldo'
  <2>1. /\ sem["EXEC"] \in Nat /\ Len(cola["EXEC"]) \in Nat
        /\ cola'["EXEC"] = cola["EXEC"]
    BY <1>1, <1>3, ColasSonListas DEF TypeOK, Semaforos, Colas
  <2> QED BY <2>1, <1>1 DEF ExecConRespaldo, Semaforos, Hilos, Uno
<1>7. ReadyConRespaldo'
  <2>1. /\ sem["READY"] \in Nat /\ Len(cola["READY"]) \in Nat
        /\ cola'["READY"] = cola["READY"]
    BY <1>1, <1>3, ColasSonListas DEF TypeOK, Semaforos, Colas
  <2> QED BY <2>1, <1>1 DEF ReadyConRespaldo, Semaforos, Hilos, Uno
<1>8. IOyExitConRespaldo'
  <2>1. /\ sem["IO"] \in Nat /\ Len(cola["IO"]) \in Nat
        /\ sem["EXIT"] \in Nat /\ Len(cola["EXIT"]) \in Nat
        /\ cola'["IO"] = cola["IO"]
        /\ Len(cola'["EXIT"]) = Len(cola["EXIT"]) + 1
    BY <1>1, <1>3, ColasSonListas DEF TypeOK, Semaforos, Colas
  <2> QED BY <2>1, <1>1 DEF IOyExitConRespaldo, Semaforos
<1>9. AdmisionConRespaldo'
  <2>1. PorAdmitir' = PorAdmitir
    BY <1>3 DEF PorAdmitir, Colas
  <2>2. sem["hayPcbs"] \in Nat /\ sem["transicionar"] \in Nat
    BY DEF TypeOK, Semaforos
  <2> QED BY <2>1, <2>2, <1>1, PorAdmitirNat DEF AdmisionConRespaldo, Hilos, Semaforos, Uno
<1>10. ManosOcupadas'
  BY <1>1, <1>2, <1>3 DEF ManosOcupadas, TypeOK, Hilos, AtenderTerminado
<1>11. CpuAlDia'
  BY <1>1, <1>2, <1>3 DEF CpuAlDia, Hilos, Colas, AtenderTerminado, TypeOK
<1> QED BY <1>4, <1>5, <1>6, <1>7, <1>8, <1>9, <1>10, <1>11

\* A blocked PCB enters the I/O queue with its unit.
LEMMA AtenderEncolarIOIInv ==
  ASSUME IInv, AtenderEncolarIO
  PROVE  IInv'
<1> USE DEF IInv
<1>1. /\ hilo["atender"] = "encolarIO"
      /\ hilo'["atender"] = "marcarBlocked"
      /\ \A h \in Hilos : h # "atender" => hilo'[h] = hilo[h]
      /\ sem'["IO"] = sem["IO"] + 1
      /\ \A s \in Semaforos : s # "IO" => sem'[s] = sem[s]
      /\ UNCHANGED <<enMano, cpu>>
  BY DEF TypeOK, Semaforos, Hilos, AtenderEncolarIO, Post, Ir, En, pares
<1>2. enMano["atender"] \in Proc
  BY <1>1 DEF ManosOcupadas
<1>3. /\ cola' \in [Colas -> Seq(Proc)]
      /\ Len(cola'["IO"]) = Len(cola["IO"]) + 1
      /\ \A e \in Colas : e # "IO" => cola'[e] = cola[e]
  BY <1>2, Encolar DEF AtenderEncolarIO, Colas
<1>4. TypeOK'
  <2>1. pcb' \in [Proc -> Pcb]
    <3>1. pcb[enMano["atender"]] \in Pcb
      BY <1>2 DEF TypeOK
    <3>2. [pcb[enMano["atender"]] EXCEPT !.espera = "dentro"] \in Pcb
      BY <3>1 DEF Pcb, Espera
    <3> QED BY <3>2 DEF TypeOK, AtenderEncolarIO
  <2>2. sem' \in [Semaforos -> Nat]
    BY <1>1 DEF TypeOK, AtenderEncolarIO, Post, Semaforos
  <2>3. hilo' \in [Hilos -> Lugares]
    BY <1>1 DEF TypeOK, AtenderEncolarIO, Ir, Hilos, Lugares
  <2> QED BY <2>1, <2>2, <2>3, <1>3 DEF TypeOK, AtenderEncolarIO, pares
<1>5. DespachoConservado'
  BY <1>1 DEF DespachoConservado, TypeOK, Hilos, Semaforos, Uno
<1>6. ExecConRespaldo'
  <2>1. /\ sem["EXEC"] \in Nat /\ Len(cola["EXEC"]) \in Nat
        /\ cola'["EXEC"] = cola["EXEC"]
    BY <1>1, <1>3, ColasSonListas DEF TypeOK, Semaforos, Colas
  <2> QED BY <2>1, <1>1 DEF ExecConRespaldo, Semaforos, Hilos, Uno
<1>7. ReadyConRespaldo'
  <2>1. /\ sem["READY"] \in Nat /\ Len(cola["READY"]) \in Nat
        /\ cola'["READY"] = cola["READY"]
    BY <1>1, <1>3, ColasSonListas DEF TypeOK, Semaforos, Colas
  <2> QED BY <2>1, <1>1 DEF ReadyConRespaldo, Semaforos, Hilos, Uno
<1>8. IOyExitConRespaldo'
  <2>1. /\ sem["IO"] \in Nat /\ Len(cola["IO"]) \in Nat
        /\ sem["EXIT"] \in Nat /\ Len(cola["EXIT"]) \in Nat
        /\ Len(cola'["IO"]) = Len(cola["IO"]) + 1
        /\ cola'["EXIT"] = cola["EXIT"]
    BY <1>1, <1>3, ColasSonListas DEF TypeOK, Semaforos, Colas
  <2> QED BY <2>1, <1>1 DEF IOyExitConRespaldo, Semaforos
<1>9. AdmisionConRespaldo'
  <2>1. PorAdmitir' = PorAdmitir
    BY <1>3 DEF PorAdmitir, Colas
  <2>2. sem["hayPcbs"] \in Nat /\ sem["transicionar"] \in Nat
    BY DEF TypeOK, Semaforos
  <2> QED BY <2>1, <2>2, <1>1, PorAdmitirNat DEF AdmisionConRespaldo, Hilos, Semaforos, Uno
<1>10. ManosOcupadas'
  BY <1>1, <1>2, <1>3 DEF ManosOcupadas, TypeOK, Hilos
<1>11. CpuAlDia'
  BY <1>1, <1>2, <1>3 DEF CpuAlDia, Hilos, Colas
<1> QED BY <1>4, <1>5, <1>6, <1>7, <1>8, <1>9, <1>10, <1>11

\* Only estadoActual changes.
LEMMA AtenderMarcarBlockedIInv ==
  ASSUME IInv, AtenderMarcarBlocked
  PROVE  IInv'
<1> USE DEF IInv
<1>1. /\ hilo["atender"] = "marcarBlocked"
      /\ hilo'["atender"] = "encolarBlocked"
      /\ \A h \in Hilos : h # "atender" => hilo'[h] = hilo[h]
      /\ UNCHANGED <<cola, sem, enMano, cpu>>
  BY DEF TypeOK, Semaforos, Hilos, AtenderMarcarBlocked, Ir, En, pares
<1>2. enMano["atender"] \in Proc
  BY <1>1 DEF ManosOcupadas
<1>3. TypeOK'
  <2>1. pcb' \in [Proc -> Pcb]
    BY <1>2, PcbEstado DEF EstadoPcb, AtenderMarcarBlocked
  <2>2. hilo' \in [Hilos -> Lugares]
    BY <1>1 DEF TypeOK, AtenderMarcarBlocked, Ir, Hilos, Lugares
  <2> QED BY <2>1, <2>2 DEF TypeOK, AtenderMarcarBlocked, pares
<1>4. DespachoConservado'
  BY <1>1 DEF DespachoConservado, TypeOK, Hilos, Semaforos, Uno
<1>5. ExecConRespaldo'
  <2>1. /\ sem["EXEC"] \in Nat /\ Len(cola["EXEC"]) \in Nat
        /\ cola'["EXEC"] = cola["EXEC"]
    BY <1>1, ColasSonListas DEF TypeOK, Semaforos, Colas
  <2> QED BY <2>1, <1>1 DEF ExecConRespaldo, Semaforos, Hilos, Uno
<1>6. ReadyConRespaldo'
  <2>1. /\ sem["READY"] \in Nat /\ Len(cola["READY"]) \in Nat
        /\ cola'["READY"] = cola["READY"]
    BY <1>1, ColasSonListas DEF TypeOK, Semaforos, Colas
  <2> QED BY <2>1, <1>1 DEF ReadyConRespaldo, Semaforos, Hilos, Uno
<1>7. IOyExitConRespaldo'
  <2>1. /\ sem["IO"] \in Nat /\ Len(cola["IO"]) \in Nat
        /\ sem["EXIT"] \in Nat /\ Len(cola["EXIT"]) \in Nat
        /\ cola'["IO"] = cola["IO"]
        /\ cola'["EXIT"] = cola["EXIT"]
    BY <1>1, ColasSonListas DEF TypeOK, Semaforos, Colas
  <2> QED BY <2>1, <1>1 DEF IOyExitConRespaldo, Semaforos
<1>8. AdmisionConRespaldo'
  <2>1. PorAdmitir' = PorAdmitir
    BY <1>1 DEF PorAdmitir, Colas
  <2>2. sem["hayPcbs"] \in Nat /\ sem["transicionar"] \in Nat
    BY DEF TypeOK, Semaforos
  <2> QED BY <2>1, <2>2, <1>1, PorAdmitirNat DEF AdmisionConRespaldo, Hilos, Semaforos, Uno
<1>9. ManosOcupadas'
  BY <1>1, <1>2 DEF ManosOcupadas, TypeOK, Hilos
<1>10. CpuAlDia'
  BY <1>1, <1>2 DEF CpuAlDia, Hilos, Colas
<1> QED BY <1>3, <1>4, <1>5, <1>6, <1>7, <1>8, <1>9, <1>10

\* The PCB enters BLOCKED and the CPU may be dispatched to.
LEMMA AtenderEncolarBlockedIInv ==
  ASSUME IInv, AtenderEncolarBlocked
  PROVE  IInv'
<1> USE DEF IInv
<1>1. /\ hilo["atender"] = "encolarBlocked"
      /\ hilo'["atender"] = "esperar"
      /\ \A h \in Hilos : h # "atender" => hilo'[h] = hilo[h]
      /\ sem'["dispatchPermitido"] = sem["dispatchPermitido"] + 1
      /\ \A s \in Semaforos : s # "dispatchPermitido" => sem'[s] = sem[s]
      /\ cpu' = cpu
  BY DEF TypeOK, Semaforos, Hilos, AtenderEncolarBlocked, Post, Ir, En, pares
<1>2. enMano["atender"] \in Proc
  BY <1>1 DEF ManosOcupadas
<1>3. /\ cola' \in [Colas -> Seq(Proc)]
      /\ Len(cola'["BLOCKED"]) = Len(cola["BLOCKED"]) + 1
      /\ \A e \in Colas : e # "BLOCKED" => cola'[e] = cola[e]
  BY <1>2, Encolar DEF AtenderEncolarBlocked, Colas
<1>4. TypeOK'
  <2>1. temporizador' \in [Temporizadores -> Reloj]
    BY DEF TypeOK, Reloj, AtenderEncolarBlocked
  <2>2. sem' \in [Semaforos -> Nat]
    BY <1>1 DEF TypeOK, AtenderEncolarBlocked, Post, Semaforos
  <2>3. hilo' \in [Hilos -> Lugares]
    BY <1>1 DEF TypeOK, AtenderEncolarBlocked, Ir, Hilos, Lugares
  <2>4. enMano' \in [Hilos -> Proc \union {Ninguno}]
    BY <1>2, <1>3 DEF TypeOK, AtenderEncolarBlocked, Hilos
  <2> QED BY <2>1, <2>2, <2>3, <2>4, <1>3 DEF TypeOK, AtenderEncolarBlocked, pares
<1>5. DespachoConservado'
  BY <1>1 DEF DespachoConservado, TypeOK, Hilos, Semaforos, Uno
<1>6. ExecConRespaldo'
  <2>1. /\ sem["EXEC"] \in Nat /\ Len(cola["EXEC"]) \in Nat
        /\ cola'["EXEC"] = cola["EXEC"]
    BY <1>1, <1>3, ColasSonListas DEF TypeOK, Semaforos, Colas
  <2> QED BY <2>1, <1>1 DEF ExecConRespaldo, Semaforos, Hilos, Uno
<1>7. ReadyConRespaldo'
  <2>1. /\ sem["READY"] \in Nat /\ Len(cola["READY"]) \in Nat
        /\ cola'["READY"] = cola["READY"]
    BY <1>1, <1>3, ColasSonListas DEF TypeOK, Semaforos, Colas
  <2> QED BY <2>1, <1>1 DEF ReadyConRespaldo, Semaforos, Hilos, Uno
<1>8. IOyExitConRespaldo'
  <2>1. /\ sem["IO"] \in Nat /\ Len(cola["IO"]) \in Nat
        /\ sem["EXIT"] \in Nat /\ Len(cola["EXIT"]) \in Nat
        /\ cola'["IO"] = cola["IO"]
        /\ cola'["EXIT"] = cola["EXIT"]
    BY <1>1, <1>3, ColasSonListas DEF TypeOK, Semaforos, Colas
  <2> QED BY <2>1, <1>1 DEF IOyExitConRespaldo, Semaforos
<1>9. AdmisionConRespaldo'
  <2>1. PorAdmitir' = PorAdmitir
    BY <1>3 DEF PorAdmitir, Colas
  <2>2. sem["hayPcbs"] \in Nat /\ sem["transicionar"] \in Nat
    BY DEF TypeOK, Semaforos
  <2> QED BY <2>1, <2>2, <1>1, PorAdmitirNat DEF AdmisionConRespaldo, Hilos, Semaforos, Uno
<1>10. ManosOcupadas'
  BY <1>1, <1>2, <1>3 DEF ManosOcupadas, TypeOK, Hilos, AtenderEncolarBlocked
<1>11. CpuAlDia'
  BY <1>1, <1>2, <1>3 DEF CpuAlDia, Hilos, Colas, AtenderEncolarBlocked, TypeOK
<1> QED BY <1>4, <1>5, <1>6, <1>7, <1>8, <1>9, <1>10, <1>11

\* The device takes a PCB and its unit from the I/O queue.
LEMMA IOIniciarIInv ==
  ASSUME IInv, IOIniciar
  PROVE  IInv'
<1> USE DEF IInv
<1>1. /\ hilo["io"] = "esperar"
      /\ hilo'["io"] = "dormir"
      /\ \A h \in Hilos : h # "io" => hilo'[h] = hilo[h]
      /\ sem["IO"] > 0 /\ sem'["IO"] = sem["IO"] - 1
      /\ \A s \in Semaforos : s # "IO" => sem'[s] = sem[s]
      /\ cpu' = cpu
  BY DEF TypeOK, Semaforos, Hilos, IOIniciar, Wait, Ir, En, pares
<1>2. cola["IO"] # << >>
  BY <1>1, ColasSonListas, SMTT(20) DEF IOIniciar, Colas, Semaforos, TypeOK, Uno, IOyExitConRespaldo, ExecConRespaldo
<1>3. /\ Head(cola["IO"]) \in Proc /\ cola' \in [Colas -> Seq(Proc)]
      /\ Len(cola'["IO"]) = Len(cola["IO"]) - 1
      /\ \A e \in Colas : e # "IO" => cola'[e] = cola[e]
  BY <1>2, Desencolar DEF IOIniciar, Colas
<1>4. TypeOK'
  <2>1. pcb' \in [Proc -> Pcb]
    BY <1>3, PcbTiempoFinal DEF Espera, IOIniciar
  <2>2. sem' \in [Semaforos -> Nat]
    BY <1>1 DEF TypeOK, IOIniciar, Wait, Semaforos
  <2>3. hilo' \in [Hilos -> Lugares]
    BY <1>1 DEF TypeOK, IOIniciar, Ir, Hilos, Lugares
  <2>4. enMano' \in [Hilos -> Proc \union {Ninguno}]
    BY <1>3 DEF TypeOK, IOIniciar, Hilos
  <2> QED BY <2>1, <2>2, <2>3, <2>4, <1>3 DEF TypeOK, IOIniciar, pares
<1>5. DespachoConservado'
  BY <1>1 DEF DespachoConservado, TypeOK, Hilos, Semaforos, Uno
<1>6. ExecConRespaldo'
  <2>1. /\ sem["EXEC"] \in Nat /\ Len(cola["EXEC"]) \in Nat
        /\ cola'["EXEC"] = cola["EXEC"]
    BY <1>1, <1>3, ColasSonListas DEF TypeOK, Semaforos, Colas
  <2> QED BY <2>1, <1>1 DEF ExecConRespaldo, Semaforos, Hilos, Uno
<1>7. ReadyConRespaldo'
  <2>1. /\ sem["READY"] \in Nat /\ Len(cola["READY"]) \in Nat
        /\ cola'["READY"] = cola["READY"]
    BY <1>1, <1>3, ColasSonListas DEF TypeOK, Semaforos, Colas
  <2> QED BY <2>1, <1>1 DEF ReadyConRespaldo, Semaforos, Hilos, Uno
<1>8. IOyExitConRespaldo'
  <2>1. /\ sem["IO"] \in Nat /\ Len(cola["IO"]) \in Nat
        /\ sem["EXIT"] \in Nat /\ Len(cola["EXIT"]) \in Nat
        /\ Len(cola'["IO"]) = Len(cola["IO"]) - 1
        /\ cola'["EXIT"] = cola["EXIT"]
    BY <1>1, <1>3, ColasSonListas DEF TypeOK, Semaforos, Colas
  <2> QED BY <2>1, <1>1 DEF IOyExitConRespaldo, Semaforos
<1>9. AdmisionConRespaldo'
  <2>1. PorAdmitir' = PorAdmitir
    BY <1>3 DEF PorAdmitir, Colas
  <2>2. sem["hayPcbs"] \in Nat /\ sem["transicionar"] \in Nat
    BY DEF TypeOK, Semaforos
  <2> QED BY <2>1, <2>2, <1>1, PorAdmitirNat DEF AdmisionConRespaldo, Hilos, Semaforos, Uno
<1>10. ManosOcupadas'
  BY <1>1, <1>3 DEF ManosOcupadas, TypeOK, Hilos, IOIniciar
<1>11. CpuAlDia'
  BY <1>1, <1>3 DEF CpuAlDia, Hilos, Colas, IOIniciar, TypeOK
<1> QED BY <1>4, <1>5, <1>6, <1>7, <1>8, <1>9, <1>10, <1>11

\* The PCB is in READY before its unit is posted.
LEMMA IOVolverAReadyIInv ==
  ASSUME IInv, IOVolverAReady
  PROVE  IInv'
<1> USE DEF IInv
<1>1. /\ hilo["io"] = "dormir"
      /\ hilo'["io"] = "avisarReady"
      /\ \A h \in Hilos : h # "io" => hilo'[h] = hilo[h]
      /\ UNCHANGED <<sem, enMano, cpu>>
  BY DEF TypeOK, Semaforos, Hilos, IOVolverAReady, Ir, En, pares
<1>2. enMano["io"] \in Proc
  BY <1>1 DEF ManosOcupadas
<1>3. /\ cola' \in [Colas -> Seq(Proc)]
      /\ Len(cola'["READY"]) = Len(cola["READY"]) + 1
      /\ \A e \in Colas : e # "BLOCKED" /\ e # "READY" => cola'[e] = cola[e]
  <2>1. cola' = MoverPcb("BLOCKED", "READY", enMano["io"])
    BY DEF IOVolverAReady
  <2>2. "BLOCKED" \in Colas /\ "READY" \in Colas
    BY DEF Colas
  <2> QED BY <1>2, <2>1, <2>2, Mover
<1>4. TypeOK'
  <2>1. pcb' \in [Proc -> Pcb]
    BY <1>2, <1>3, PcbEstado DEF EstadoPcb, IOVolverAReady
  <2>2. hilo' \in [Hilos -> Lugares]
    BY <1>1 DEF TypeOK, IOVolverAReady, Ir, Hilos, Lugares
  <2> QED BY <2>1, <2>2, <1>3 DEF TypeOK, IOVolverAReady, pares
<1>5. DespachoConservado'
  BY <1>1 DEF DespachoConservado, TypeOK, Hilos, Semaforos, Uno
<1>6. ExecConRespaldo'
  <2>1. /\ sem["EXEC"] \in Nat /\ Len(cola["EXEC"]) \in Nat
        /\ cola'["EXEC"] = cola["EXEC"]
    BY <1>1, <1>3, ColasSonListas DEF TypeOK, Semaforos, Colas
  <2> QED BY <2>1, <1>1 DEF ExecConRespaldo, Semaforos, Hilos, Uno
<1>7. ReadyConRespaldo'
  <2>1. /\ sem["READY"] \in Nat /\ Len(cola["READY"]) \in Nat
        /\ Len(cola'["READY"]) = Len(cola["READY"]) + 1
    BY <1>1, <1>3, ColasSonListas DEF TypeOK, Semaforos, Colas
  <2> QED BY <2>1, <1>1 DEF ReadyConRespaldo, Semaforos, Hilos, Uno
<1>8. IOyExitConRespaldo'
  <2>1. /\ sem["IO"] \in Nat /\ Len(cola["IO"]) \in Nat
        /\ sem["EXIT"] \in Nat /\ Len(cola["EXIT"]) \in Nat
        /\ cola'["IO"] = cola["IO"]
        /\ cola'["EXIT"] = cola["EXIT"]
    BY <1>1, <1>3, ColasSonListas DEF TypeOK, Semaforos, Colas
  <2> QED BY <2>1, <1>1 DEF IOyExitConRespaldo, Semaforos
<1>9. AdmisionConRespaldo'
  <2>1. PorAdmitir' = PorAdmitir
    BY <1>3 DEF PorAdmitir, Colas
  <2>2. sem["hayPcbs"] \in Nat /\ sem["transicionar"] \in Nat
    BY DEF TypeOK, Semaforos
  <2> QED BY <2>1, <2>2, <1>1, PorAdmitirNat DEF AdmisionConRespaldo, Hilos, Semaforos, Uno
<1>10. ManosOcupadas'
  BY <1>1, <1>2, <1>3 DEF ManosOcupadas, TypeOK, Hilos
<1>11. CpuAlDia'
  BY <1>1, <1>2, <1>3 DEF CpuAlDia, Hilos, Colas
<1> QED BY <1>4, <1>5, <1>6, <1>7, <1>8, <1>9, <1>10, <1>11

\* The PCB is in SUSPENDED_READY before hayPcbs is posted.
LEMMA IOVolverASusreadyIInv ==
  ASSUME IInv, IOVolverASusready
  PROVE  IInv'
<1> USE DEF IInv
<1>1. /\ hilo["io"] = "dormir"
      /\ hilo'["io"] = "avisarLargo"
      /\ \A h \in Hilos : h # "io" => hilo'[h] = hilo[h]
      /\ UNCHANGED <<sem, enMano, cpu>>
  BY DEF TypeOK, Semaforos, Hilos, IOVolverASusready, Ir, En, pares
<1>2. enMano["io"] \in Proc
  BY <1>1 DEF ManosOcupadas
<1>3. /\ cola' \in [Colas -> Seq(Proc)]
      /\ Len(cola'["SUSPENDED_READY"]) = Len(cola["SUSPENDED_READY"]) + 1
      /\ \A e \in Colas : e # "SUSPENDED_BLOCKED" /\ e # "SUSPENDED_READY" => cola'[e] = cola[e]
  <2>1. cola' = MoverPcb("SUSPENDED_BLOCKED", "SUSPENDED_READY", enMano["io"])
    BY DEF IOVolverASusready
  <2>2. "SUSPENDED_BLOCKED" \in Colas /\ "SUSPENDED_READY" \in Colas
    BY DEF Colas
  <2> QED BY <1>2, <2>1, <2>2, Mover
<1>4. TypeOK'
  <2>1. pcb' \in [Proc -> Pcb]
    BY <1>2, <1>3, PcbEstado DEF EstadoPcb, IOVolverASusready
  <2>2. hilo' \in [Hilos -> Lugares]
    BY <1>1 DEF TypeOK, IOVolverASusready, Ir, Hilos, Lugares
  <2> QED BY <2>1, <2>2, <1>3 DEF TypeOK, IOVolverASusready, pares
<1>5. DespachoConservado'
  BY <1>1 DEF DespachoConservado, TypeOK, Hilos, Semaforos, Uno
<1>6. ExecConRespaldo'
  <2>1. /\ sem["EXEC"] \in Nat /\ Len(cola["EXEC"]) \in Nat
        /\ cola'["EXEC"] = cola["EXEC"]
    BY <1>1, <1>3, ColasSonListas DEF TypeOK, Semaforos, Colas
  <2> QED BY <2>1, <1>1 DEF ExecConRespaldo, Semaforos, Hilos, Uno
<1>7. ReadyConRespaldo'
  <2>1. /\ sem["READY"] \in Nat /\ Len(cola["READY"]) \in Nat
        /\ cola'["READY"] = cola["READY"]
    BY <1>1, <1>3, ColasSonListas DEF TypeOK, Semaforos, Colas
  <2> QED BY <2>1, <1>1 DEF ReadyConRespaldo, Semaforos, Hilos, Uno
<1>8. IOyExitConRespaldo'
  <2>1. /\ sem["IO"] \in Nat /\ Len(cola["IO"]) \in Nat
        /\ sem["EXIT"] \in Nat /\ Len(cola["EXIT"]) \in Nat
        /\ cola'["IO"] = cola["IO"]
        /\ cola'["EXIT"] = cola["EXIT"]
    BY <1>1, <1>3, ColasSonListas DEF TypeOK, Semaforos, Colas
  <2> QED BY <2>1, <1>1 DEF IOyExitConRespaldo, Semaforos
<1>9. AdmisionConRespaldo'
  <2>1. PorAdmitir' = PorAdmitir + 1
    BY <1>3, PorAdmitirCambia DEF Colas
  <2>2. sem["hayPcbs"] \in Nat /\ sem["transicionar"] \in Nat
    BY DEF TypeOK, Semaforos
  <2> QED BY <2>1, <2>2, <1>1, PorAdmitirNat DEF AdmisionConRespaldo, Hilos, Semaforos, Uno
<1>10. ManosOcupadas'
  BY <1>1, <1>2, <1>3 DEF ManosOcupadas, TypeOK, Hilos
<1>11. CpuAlDia'
  BY <1>1, <1>2, <1>3 DEF CpuAlDia, Hilos, Colas
<1> QED BY <1>4, <1>5, <1>6, <1>7, <1>8, <1>9, <1>10, <1>11

\* The device lets go of a PCB it does not find blocked.
LEMMA IODescartarIInv ==
  ASSUME IInv, IODescartar
  PROVE  IInv'
<1> USE DEF IInv
<1>1. /\ hilo["io"] = "dormir"
      /\ hilo'["io"] = "esperar"
      /\ \A h \in Hilos : h # "io" => hilo'[h] = hilo[h]
      /\ UNCHANGED <<cola, sem, cpu>>
  BY DEF TypeOK, Semaforos, Hilos, IODescartar, Ir, En, pares
<1>2. enMano["io"] \in Proc
  BY <1>1 DEF ManosOcupadas
<1>3. TypeOK'
  <2>1. pcb' \in [Proc -> Pcb]
    <3>1. pcb[enMano["io"]] \in Pcb
      BY <1>2 DEF TypeOK
    <3>2. [pcb[enMano["io"]] EXCEPT !.finalEstablecido = FALSE] \in Pcb
      BY <3>1 DEF Pcb
    <3> QED BY <3>2 DEF TypeOK, IODescartar
  <2>2. hilo' \in [Hilos -> Lugares]
    BY <1>1 DEF TypeOK, IODescartar, Ir, Hilos, Lugares
  <2>3. enMano' \in [Hilos -> Proc \union {Ninguno}]
    BY <1>2 DEF TypeOK, IODescartar, Hilos
  <2> QED BY <2>1, <2>2, <2>3 DEF TypeOK, IODescartar, pares
<1>4. DespachoConservado'
  BY <1>1 DEF DespachoConservado, TypeOK, Hilos, Semaforos, Uno
<1>5. ExecConRespaldo'
  <2>1. /\ sem["EXEC"] \in Nat /\ Len(cola["EXEC"]) \in Nat
        /\ cola'["EXEC"] = cola["EXEC"]
    BY <1>1, ColasSonListas DEF TypeOK, Semaforos, Colas
  <2> QED BY <2>1, <1>1 DEF ExecConRespaldo, Semaforos, Hilos, Uno
<1>6. ReadyConRespaldo'
  <2>1. /\ sem["READY"] \in Nat /\ Len(cola["READY"]) \in Nat
        /\ cola'["READY"] = cola["READY"]
    BY <1>1, ColasSonListas DEF TypeOK, Semaforos, Colas
  <2> QED BY <2>1, <1>1 DEF ReadyConRespaldo, Semaforos, Hilos, Uno
<1>7. IOyExitConRespaldo'
  <2>1. /\ sem["IO"] \in Nat /\ Len(cola["IO"]) \in Nat
        /\ sem["EXIT"] \in Nat /\ Len(cola["EXIT"]) \in Nat
        /\ cola'["IO"] = cola["IO"]
        /\ cola'["EXIT"] = cola["EXIT"]
    BY <1>1, ColasSonListas DEF TypeOK, Semaforos, Colas
  <2> QED BY <2>1, <1>1 DEF IOyExitConRespaldo, Semaforos
<1>8. AdmisionConRespaldo'
  <2>1. PorAdmitir' = PorAdmitir
    BY <1>1 DEF PorAdmitir, Colas
  <2>2. sem["hayPcbs"] \in Nat /\ sem["transicionar"] \in Nat
    BY DEF TypeOK, Semaforos
  <2> QED BY <2>1, <2>2, <1>1, PorAdmitirNat DEF AdmisionConRespaldo, Hilos, Semaforos, Uno
<1>9. ManosOcupadas'
  BY <1>1, <1>2 DEF ManosOcupadas, TypeOK, Hilos, IODescartar
<1>10. CpuAlDia'
  BY <1>1, <1>2 DEF CpuAlDia, Hilos, Colas, IODescartar, TypeOK
<1> QED BY <1>3, <1>4, <1>5, <1>6, <1>7, <1>8, <1>9, <1>10

\* The unit of READY the device owed.
LEMMA IOAvisarReadyIInv ==
  ASSUME IInv, IOAvisarReady
  PROVE  IInv'
<1> USE DEF IInv
<1>1. /\ hilo["io"] = "avisarReady"
      /\ hilo'["io"] = "esperar"
      /\ \A h \in Hilos : h # "io" => hilo'[h] = hilo[h]
      /\ sem'["READY"] = sem["READY"] + 1
      /\ \A s \in Semaforos : s # "READY" => sem'[s] = sem[s]
      /\ UNCHANGED <<cola, cpu>>
  BY DEF TypeOK, Semaforos, Hilos, IOAvisarReady, TerminarIO, Post, Ir, En, pares
<1>2. enMano["io"] \in Proc
  BY <1>1 DEF ManosOcupadas
<1>3. TypeOK'
  <2>1. pcb' \in [Proc -> Pcb]
    BY <1>2, PcbSinBloqueo DEF IOAvisarReady, TerminarIO
  <2>2. sem' \in [Semaforos -> Nat]
    BY <1>1 DEF TypeOK, IOAvisarReady, TerminarIO, Post, Semaforos
  <2>3. hilo' \in [Hilos -> Lugares]
    BY <1>1 DEF TypeOK, IOAvisarReady, TerminarIO, Ir, Hilos, Lugares
  <2>4. enMano' \in [Hilos -> Proc \union {Ninguno}]
    BY <1>2 DEF TypeOK, IOAvisarReady, TerminarIO, Hilos
  <2> QED BY <2>1, <2>2, <2>3, <2>4 DEF TypeOK, IOAvisarReady, TerminarIO, pares
<1>4. DespachoConservado'
  BY <1>1 DEF DespachoConservado, TypeOK, Hilos, Semaforos, Uno
<1>5. ExecConRespaldo'
  <2>1. /\ sem["EXEC"] \in Nat /\ Len(cola["EXEC"]) \in Nat
        /\ cola'["EXEC"] = cola["EXEC"]
    BY <1>1, ColasSonListas DEF TypeOK, Semaforos, Colas
  <2> QED BY <2>1, <1>1 DEF ExecConRespaldo, Semaforos, Hilos, Uno
<1>6. ReadyConRespaldo'
  <2>1. /\ sem["READY"] \in Nat /\ Len(cola["READY"]) \in Nat
        /\ cola'["READY"] = cola["READY"]
    BY <1>1, ColasSonListas DEF TypeOK, Semaforos, Colas
  <2> QED BY <2>1, <1>1 DEF ReadyConRespaldo, Semaforos, Hilos, Uno
<1>7. IOyExitConRespaldo'
  <2>1. /\ sem["IO"] \in Nat /\ Len(cola["IO"]) \in Nat
        /\ sem["EXIT"] \in Nat /\ Len(cola["EXIT"]) \in Nat
        /\ cola'["IO"] = cola["IO"]
        /\ cola'["EXIT"] = cola["EXIT"]
    BY <1>1, ColasSonListas DEF TypeOK, Semaforos, Colas
  <2> QED BY <2>1, <1>1 DEF IOyExitConRespaldo, Semaforos
<1>8. AdmisionConRespaldo'
  <2>1. PorAdmitir' = PorAdmitir
    BY <1>1 DEF PorAdmitir, Colas
  <2>2. sem["hayPcbs"] \in Nat /\ sem["transicionar"] \in Nat
    BY DEF TypeOK, Semaforos
  <2> QED BY <2>1, <2>2, <1>1, PorAdmitirNat DEF AdmisionConRespaldo, Hilos, Semaforos, Uno
<1>9. ManosOcupadas'
  BY <1>1, <1>2 DEF ManosOcupadas, TypeOK, Hilos, IOAvisarReady, TerminarIO
<1>10. CpuAlDia'
  BY <1>1, <1>2 DEF CpuAlDia, Hilos, Colas, IOAvisarReady, TerminarIO, TypeOK
<1> QED BY <1>3, <1>4, <1>5, <1>6, <1>7, <1>8, <1>9, <1>10

\* The unit of hayPcbs the device owed.
LEMMA IOAvisarLargoIInv ==
  ASSUME IInv, IOAvisarLargo
  PROVE  IInv'
<1> USE DEF IInv
<1>1. /\ hilo["io"] = "avisarLargo"
      /\ hilo'["io"] = "esperar"
      /\ \A h \in Hilos : h # "io" => hilo'[h] = hilo[h]
      /\ sem'["hayPcbs"] = sem["hayPcbs"] + 1
      /\ \A s \in Semaforos : s # "hayPcbs" => sem'[s] = sem[s]
      /\ UNCHANGED <<cola, cpu>>
  BY DEF TypeOK, Semaforos, Hilos, IOAvisarLargo, TerminarIO, Post, Ir, En, pares
<1>2. enMano["io"] \in Proc
  BY <1>1 DEF ManosOcupadas
<1>3. TypeOK'
  <2>1. pcb' \in [Proc -> Pcb]
    BY <1>2, PcbSinBloqueo DEF IOAvisarLargo, TerminarIO
  <2>2. sem' \in [Semaforos -> Nat]
    BY <1>1 DEF TypeOK, IOAvisarLargo, TerminarIO, Post, Semaforos
  <2>3. hilo' \in [Hilos -> Lugares]
    BY <1>1 DEF TypeOK, IOAvisarLargo, TerminarIO, Ir, Hilos, Lugares
  <2>4. enMano' \in [Hilos -> Proc \union {Ninguno}]
    BY <1>2 DEF TypeOK, IOAvisarLargo, TerminarIO, Hilos
  <2> QED BY <2>1, <2>2, <2>3, <2>4 DEF TypeOK, IOAvisarLargo, TerminarIO, pares
<1>4. DespachoConservado'
  BY <1>1 DEF DespachoConservado, TypeOK, Hilos, Semaforos, Uno
<1>5. ExecConRespaldo'
  <2>1. /\ sem["EXEC"] \in Nat /\ Len(cola["EXEC"]) \in Nat
        /\ cola'["EXEC"] = cola["EXEC"]
    BY <1>1, ColasSonListas DEF TypeOK, Semaforos, Colas
  <2> QED BY <2>1, <1>1 DEF ExecConRespaldo, Semaforos, Hilos, Uno
<1>6. ReadyConRespaldo'
  <2>1. /\ sem["READY"] \in Nat /\ Len(cola["READY"]) \in Nat
        /\ cola'["READY"] = cola["READY"]
    BY <1>1, ColasSonListas DEF TypeOK, Semaforos, Colas
  <2> QED BY <2>1, <1>1 DEF ReadyConRespaldo, Semaforos, Hilos, Uno
<1>7. IOyExitConRespaldo'
  <2>1. /\ sem["IO"] \in Nat /\ Len(cola["IO"]) \in Nat
        /\ sem["EXIT"] \in Nat /\ Len(cola["EXIT"]) \in Nat
        /\ cola'["IO"] = cola["IO"]
        /\ cola'["EXIT"] = cola["EXIT"]
    BY <1>1, ColasSonListas DEF TypeOK, Semaforos, Colas
  <2> QED BY <2>1, <1>1 DEF IOyExitConRespaldo, Semaforos
<1>8. AdmisionConRespaldo'
  <2>1. PorAdmitir' = PorAdmitir
    BY <1>1 DEF PorAdmitir, Colas
  <2>2. sem["hayPcbs"] \in Nat /\ sem["transicionar"] \in Nat
    BY DEF TypeOK, Semaforos
  <2> QED BY <2>1, <2>2, <1>1, PorAdmitirNat DEF AdmisionConRespaldo, Hilos, Semaforos, Uno
<1>9. ManosOcupadas'
  BY <1>1, <1>2 DEF ManosOcupadas, TypeOK, Hilos, IOAvisarLargo, TerminarIO
<1>10. CpuAlDia'
  BY <1>1, <1>2 DEF CpuAlDia, Hilos, Colas, IOAvisarLargo, TerminarIO, TypeOK
<1> QED BY <1>3, <1>4, <1>5, <1>6, <1>7, <1>8, <1>9, <1>10

\* A PCB leaves EXIT with its unit.
LEMMA LiberarPcbIInv ==
  ASSUME IInv, LiberarPcb
  PROVE  IInv'
<1> USE DEF IInv
<1>1. /\ sem'["gradoMultiprog"] = sem["gradoMultiprog"] + 1
      /\ sem["EXIT"] > 0 /\ sem'["EXIT"] = sem["EXIT"] - 1
      /\ \A s \in Semaforos : s # "EXIT" /\ s # "gradoMultiprog" => sem'[s] = sem[s]
      /\ UNCHANGED <<hilo, enMano, cpu>>
  BY DEF TypeOK, Semaforos, Hilos, LiberarPcb, pares
<1>2. cola["EXIT"] # << >>
  BY <1>1, ColasSonListas DEF LiberarPcb, Colas, Semaforos, TypeOK, Uno, IOyExitConRespaldo, ExecConRespaldo
<1>3. /\ Head(cola["EXIT"]) \in Proc /\ cola' \in [Colas -> Seq(Proc)]
      /\ Len(cola'["EXIT"]) = Len(cola["EXIT"]) - 1
      /\ \A e \in Colas : e # "EXIT" => cola'[e] = cola[e]
  BY <1>2, Desencolar DEF LiberarPcb, Colas
<1>4. TypeOK'
  <2>1. pcb' \in [Proc -> Pcb]
    BY <1>3, PcbEstado DEF EstadoPcb, LiberarPcb
  <2>2. sem' \in [Semaforos -> Nat]
    BY <1>1 DEF TypeOK, LiberarPcb, Semaforos
  <2> QED BY <2>1, <2>2, <1>3 DEF TypeOK, LiberarPcb, pares
<1>5. DespachoConservado'
  BY <1>1 DEF DespachoConservado, TypeOK, Hilos, Semaforos, Uno
<1>6. ExecConRespaldo'
  <2>1. /\ sem["EXEC"] \in Nat /\ Len(cola["EXEC"]) \in Nat
        /\ cola'["EXEC"] = cola["EXEC"]
    BY <1>1, <1>3, ColasSonListas DEF TypeOK, Semaforos, Colas
  <2> QED BY <2>1, <1>1 DEF ExecConRespaldo, Semaforos, Hilos, Uno
<1>7. ReadyConRespaldo'
  <2>1. /\ sem["READY"] \in Nat /\ Len(cola["READY"]) \in Nat
        /\ cola'["READY"] = cola["READY"]
    BY <1>1, <1>3, ColasSonListas DEF TypeOK, Semaforos, Colas
  <2> QED BY <2>1, <1>1 DEF ReadyConRespaldo, Semaforos, Hilos, Uno
<1>8. IOyExitConRespaldo'
  <2>1. /\ sem["IO"] \in Nat /\ Len(cola["IO"]) \in Nat
        /\ sem["EXIT"] \in Nat /\ Len(cola["EXIT"]) \in Nat
        /\ cola'["IO"] = cola["IO"]
        /\ Len(cola'["EXIT"]) = Len(cola["EXIT"]) - 1
    BY <1>1, <1>3, ColasSonListas DEF TypeOK, Semaforos, Colas
  <2> QED BY <2>1, <1>1 DEF IOyExitConRespaldo, Semaforos
<1>9. AdmisionConRespaldo'
  <2>1. PorAdmitir' = PorAdmitir
    BY <1>3 DEF PorAdmitir, Colas
  <2>2. sem["hayPcbs"] \in Nat /\ sem["transicionar"] \in Nat
    BY DEF TypeOK, Semaforos
  <2> QED BY <2>1, <2>2, <1>1, PorAdmitirNat DEF AdmisionConRespaldo, Hilos, Semaforos, Uno
<1>10. ManosOcupadas'
  BY <1>1, <1>3 DEF ManosOcupadas, TypeOK, Hilos
<1>11. CpuAlDia'
  BY <1>1, <1>3 DEF CpuAlDia, Hilos, Colas
<1> QED BY <1>4, <1>5, <1>6, <1>7, <1>8, <1>9, <1>10, <1>11

\* The CPU answers for the PCB it runs, or goes on with it.
LEMMA CpuSeguirIInv ==
  ASSUME IInv, CpuSeguir
  PROVE  IInv'
<1> USE DEF IInv
<1>1. /\ UNCHANGED <<cola, sem, hilo, enMano>>
  BY DEF TypeOK, Semaforos, Hilos, CpuSeguir, pares
<1>2. cpu' \in EstadoCpu /\ cpu'.proc = cpu.proc /\ cpu.proc # Ninguno
  <2>1. cpu \in EstadoCpu
    BY DEF TypeOK
  <2>2. PICK r \in {Ninguno, "desalojado", "terminado", "bloqueado"} :
          cpu' = [cpu EXCEPT !.programCounter = cpu.programCounter + 1, !.respuesta = r,
                             !.hayInterrupcion = FALSE]
    BY <2>1 DEF CpuSeguir, EstadoCpu
  <2>3. cpu.proc # Ninguno
    BY DEF CpuSeguir, Ejecutando
  <2>4. cpu.programCounter + 1 \in Nat
    BY <2>1 DEF EstadoCpu
  <2> QED BY <2>1, <2>2, <2>3, <2>4 DEF EstadoCpu
<1>3. TypeOK'
  <2>1. cpu' \in EstadoCpu
    BY <1>2
  <2> QED BY <2>1 DEF TypeOK, CpuSeguir, pares
<1>4. DespachoConservado'
  BY <1>1 DEF DespachoConservado, TypeOK, Hilos, Semaforos, Uno
<1>5. ExecConRespaldo'
  <2>1. /\ sem["EXEC"] \in Nat /\ Len(cola["EXEC"]) \in Nat
        /\ cola'["EXEC"] = cola["EXEC"]
    BY <1>1, ColasSonListas DEF TypeOK, Semaforos, Colas
  <2> QED BY <2>1, <1>1 DEF ExecConRespaldo, Semaforos, Hilos, Uno
<1>6. ReadyConRespaldo'
  <2>1. /\ sem["READY"] \in Nat /\ Len(cola["READY"]) \in Nat
        /\ cola'["READY"] = cola["READY"]
    BY <1>1, ColasSonListas DEF TypeOK, Semaforos, Colas
  <2> QED BY <2>1, <1>1 DEF ReadyConRespaldo, Semaforos, Hilos, Uno
<1>7. IOyExitConRespaldo'
  <2>1. /\ sem["IO"] \in Nat /\ Len(cola["IO"]) \in Nat
        /\ sem["EXIT"] \in Nat /\ Len(cola["EXIT"]) \in Nat
        /\ cola'["IO"] = cola["IO"]
        /\ cola'["EXIT"] = cola["EXIT"]
    BY <1>1, ColasSonListas DEF TypeOK, Semaforos, Colas
  <2> QED BY <2>1, <1>1 DEF IOyExitConRespaldo, Semaforos
<1>8. AdmisionConRespaldo'
  <2>1. PorAdmitir' = PorAdmitir
    BY <1>1 DEF PorAdmitir, Colas
  <2>2. sem["hayPcbs"] \in Nat /\ sem["transicionar"] \in Nat
    BY DEF TypeOK, Semaforos
  <2> QED BY <2>1, <2>2, <1>1, PorAdmitirNat DEF AdmisionConRespaldo, Hilos, Semaforos, Uno
<1>9. ManosOcupadas'
  BY <1>1 DEF ManosOcupadas, TypeOK, Hilos
<1>10. CpuAlDia'
  BY <1>1, <1>2 DEF CpuAlDia
<1> QED BY <1>3, <1>4, <1>5, <1>6, <1>7, <1>8, <1>9, <1>10

\* The CPU answers for the PCB it runs.
LEMMA CpuDetenerIInv ==
  ASSUME IInv, CpuDetener
  PROVE  IInv'
<1> USE DEF IInv
<1>1. /\ UNCHANGED <<cola, sem, hilo, enMano>>
  BY DEF TypeOK, Semaforos, Hilos, CpuDetener, pares
<1>2. cpu' \in EstadoCpu /\ cpu'.proc = cpu.proc /\ cpu.proc # Ninguno
  <2>1. cpu \in EstadoCpu
    BY DEF TypeOK
  <2>2. PICK r \in {"terminado", "bloqueado"} :
          cpu' = [cpu EXCEPT !.programCounter = cpu.programCounter + 1, !.respuesta = r]
    BY DEF CpuDetener
  <2>3. cpu.proc # Ninguno
    BY DEF CpuDetener, Ejecutando
  <2>4. cpu.programCounter + 1 \in Nat
    BY <2>1 DEF EstadoCpu
  <2>5. cpu' \in EstadoCpu
    BY <2>1, <2>2, <2>4 DEF EstadoCpu
  <2>6. cpu'.proc = cpu.proc
    BY <2>1, <2>2, <2>4 DEF EstadoCpu
  <2> QED BY <2>3, <2>5, <2>6
<1>3. TypeOK'
  <2>1. cpu' \in EstadoCpu
    BY <1>2
  <2> QED BY <2>1 DEF TypeOK, CpuDetener, pares
<1>4. DespachoConservado'
  BY <1>1 DEF DespachoConservado, TypeOK, Hilos, Semaforos, Uno
<1>5. ExecConRespaldo'
  <2>1. /\ sem["EXEC"] \in Nat /\ Len(cola["EXEC"]) \in Nat
        /\ cola'["EXEC"] = cola["EXEC"]
    BY <1>1, ColasSonListas DEF TypeOK, Semaforos, Colas
  <2> QED BY <2>1, <1>1 DEF ExecConRespaldo, Semaforos, Hilos, Uno
<1>6. ReadyConRespaldo'
  <2>1. /\ sem["READY"] \in Nat /\ Len(cola["READY"]) \in Nat
        /\ cola'["READY"] = cola["READY"]
    BY <1>1, ColasSonListas DEF TypeOK, Semaforos, Colas
  <2> QED BY <2>1, <1>1 DEF ReadyConRespaldo, Semaforos, Hilos, Uno
<1>7. IOyExitConRespaldo'
  <2>1. /\ sem["IO"] \in Nat /\ Len(cola["IO"]) \in Nat
        /\ sem["EXIT"] \in Nat /\ Len(cola["EXIT"]) \in Nat
        /\ cola'["IO"] = cola["IO"]
        /\ cola'["EXIT"] = cola["EXIT"]
    BY <1>1, ColasSonListas DEF TypeOK, Semaforos, Colas
  <2> QED BY <2>1, <1>1 DEF IOyExitConRespaldo, Semaforos
<1>8. AdmisionConRespaldo'
  <2>1. PorAdmitir' = PorAdmitir
    BY <1>1 DEF PorAdmitir, Colas
  <2>2. sem["hayPcbs"] \in Nat /\ sem["transicionar"] \in Nat
    BY DEF TypeOK, Semaforos
  <2> QED BY <2>1, <2>2, <1>1, PorAdmitirNat DEF AdmisionConRespaldo, Hilos, Semaforos, Uno
<1>9. ManosOcupadas'
  BY <1>1 DEF ManosOcupadas, TypeOK, Hilos
<1>10. CpuAlDia'
  BY <1>1, <1>2 DEF CpuAlDia
<1> QED BY <1>3, <1>4, <1>5, <1>6, <1>7, <1>8, <1>9, <1>10

\* Only the CPU's interrupt flag changes.
LEMMA CpuRecibirInterrupcionIInv ==
  ASSUME IInv, CpuRecibirInterrupcion
  PROVE  IInv'
<1> USE DEF IInv
<1>1. /\ UNCHANGED <<cola, sem, hilo, enMano>>
  BY DEF TypeOK, Semaforos, Hilos, CpuRecibirInterrupcion, pares
<1>2. TypeOK'
  <2>1. cpu' \in EstadoCpu
    BY DEF TypeOK, EstadoCpu, CpuRecibirInterrupcion
  <2> QED BY <2>1 DEF TypeOK, CpuRecibirInterrupcion, pares
<1>3. DespachoConservado'
  BY <1>1 DEF DespachoConservado, TypeOK, Hilos, Semaforos, Uno
<1>4. ExecConRespaldo'
  <2>1. /\ sem["EXEC"] \in Nat /\ Len(cola["EXEC"]) \in Nat
        /\ cola'["EXEC"] = cola["EXEC"]
    BY <1>1, ColasSonListas DEF TypeOK, Semaforos, Colas
  <2> QED BY <2>1, <1>1 DEF ExecConRespaldo, Semaforos, Hilos, Uno
<1>5. ReadyConRespaldo'
  <2>1. /\ sem["READY"] \in Nat /\ Len(cola["READY"]) \in Nat
        /\ cola'["READY"] = cola["READY"]
    BY <1>1, ColasSonListas DEF TypeOK, Semaforos, Colas
  <2> QED BY <2>1, <1>1 DEF ReadyConRespaldo, Semaforos, Hilos, Uno
<1>6. IOyExitConRespaldo'
  <2>1. /\ sem["IO"] \in Nat /\ Len(cola["IO"]) \in Nat
        /\ sem["EXIT"] \in Nat /\ Len(cola["EXIT"]) \in Nat
        /\ cola'["IO"] = cola["IO"]
        /\ cola'["EXIT"] = cola["EXIT"]
    BY <1>1, ColasSonListas DEF TypeOK, Semaforos, Colas
  <2> QED BY <2>1, <1>1 DEF IOyExitConRespaldo, Semaforos
<1>7. AdmisionConRespaldo'
  <2>1. PorAdmitir' = PorAdmitir
    BY <1>1 DEF PorAdmitir, Colas
  <2>2. sem["hayPcbs"] \in Nat /\ sem["transicionar"] \in Nat
    BY DEF TypeOK, Semaforos
  <2> QED BY <2>1, <2>2, <1>1, PorAdmitirNat DEF AdmisionConRespaldo, Hilos, Semaforos, Uno
<1>8. ManosOcupadas'
  BY <1>1 DEF ManosOcupadas, TypeOK, Hilos
<1>9. CpuAlDia'
  BY <1>1 DEF CpuAlDia, Hilos, Colas, CpuRecibirInterrupcion, TypeOK, EstadoCpu
<1> QED BY <1>2, <1>3, <1>4, <1>5, <1>6, <1>7, <1>8, <1>9

\* A console submits a process: hayPcbs and NEW grow together.
LEMMA EncolarEnNewIInv ==
  ASSUME IInv, NEW p \in Proc, EncolarEnNew(p)
  PROVE  IInv'
<1> USE DEF IInv
<1>1. /\ sem'["hayPcbs"] = sem["hayPcbs"] + 1
      /\ \A s \in Semaforos : s # "hayPcbs" => sem'[s] = sem[s]
      /\ UNCHANGED <<hilo, enMano, cpu>>
  BY DEF TypeOK, Semaforos, EncolarEnNew, Post, pares
<1>2. /\ cola' \in [Colas -> Seq(Proc)]
      /\ Len(cola'["NEW"]) = Len(cola["NEW"]) + 1
      /\ \A e \in Colas : e # "NEW" => cola'[e] = cola[e]
  BY Encolar DEF EncolarEnNew, Colas
<1>3. TypeOK'
  <2>1. pcb' \in [Proc -> Pcb]
    BY PcbEstado DEF EncolarEnNew, EstadoPcb
  <2>2. sem' \in [Semaforos -> Nat]
    BY Semaforo DEF EncolarEnNew, Semaforos
  <2> QED BY <1>2, <2>1, <2>2 DEF TypeOK, EncolarEnNew, pares
<1>4. DespachoConservado' /\ ExecConRespaldo'
  <2>1. cola'["EXEC"] = cola["EXEC"] /\ sem'["EXEC"] = sem["EXEC"]
        /\ sem'["dispatchPermitido"] = sem["dispatchPermitido"]
    BY <1>1, <1>2 DEF Colas, Semaforos
  <2> QED BY <1>1, <2>1 DEF DespachoConservado, ExecConRespaldo
<1>5. ReadyConRespaldo'
  <2>1. cola'["READY"] = cola["READY"] /\ sem'["READY"] = sem["READY"]
    BY <1>1, <1>2 DEF Colas, Semaforos
  <2> QED BY <1>1, <2>1 DEF ReadyConRespaldo
<1>6. AdmisionConRespaldo'
  <2>1. PorAdmitir' = PorAdmitir + 1
    BY <1>2, PorAdmitirCambia DEF Colas
  <2>2. sem["hayPcbs"] \in Nat /\ sem["transicionar"] \in Nat
    BY DEF TypeOK, Semaforos
  <2> QED BY <2>1, <2>2, <1>1, PorAdmitirNat DEF AdmisionConRespaldo, Hilos, Semaforos, Uno
<1>7. IOyExitConRespaldo'
  <2>1. /\ cola'["IO"] = cola["IO"] /\ sem'["IO"] = sem["IO"]
        /\ cola'["EXIT"] = cola["EXIT"] /\ sem'["EXIT"] = sem["EXIT"]
    BY <1>1, <1>2 DEF Colas, Semaforos
  <2> QED BY <2>1 DEF IOyExitConRespaldo
<1>8. ManosOcupadas' /\ CpuAlDia'
  <2>1. cola'["EXEC"] = cola["EXEC"]
    BY <1>2 DEF Colas
  <2> QED BY <1>1, <2>1 DEF ManosOcupadas, CpuAlDia
<1> QED BY <1>3, <1>4, <1>5, <1>6, <1>7, <1>8

\* The timers write BLOCKED, SUSPENDED_BLOCKED and gradoMultiprog, which the
\* accounting does not mention.
LEMMA MarcoTemporizador ==
  ASSUME IInv, TypeOK', UNCHANGED <<hilo, enMano, cpu>>,
         \A s \in Semaforos : s # "gradoMultiprog" => sem'[s] = sem[s],
         \A e \in Colas : e # "BLOCKED" /\ e # "SUSPENDED_BLOCKED" => cola'[e] = cola[e]
  PROVE  IInv'
<1> USE DEF IInv
<1>1. /\ sem'["dispatchPermitido"] = sem["dispatchPermitido"] /\ sem'["EXEC"] = sem["EXEC"]
      /\ sem'["READY"] = sem["READY"] /\ sem'["hayPcbs"] = sem["hayPcbs"]
      /\ sem'["transicionar"] = sem["transicionar"] /\ sem'["IO"] = sem["IO"]
      /\ sem'["EXIT"] = sem["EXIT"]
  BY DEF Semaforos
<1>2. /\ cola'["NEW"] = cola["NEW"] /\ cola'["SUSPENDED_READY"] = cola["SUSPENDED_READY"]
      /\ cola'["READY"] = cola["READY"] /\ cola'["EXEC"] = cola["EXEC"]
      /\ cola'["IO"] = cola["IO"] /\ cola'["EXIT"] = cola["EXIT"]
  BY DEF Colas
<1>3. DespachoConservado' /\ ExecConRespaldo'
  BY <1>1, <1>2 DEF DespachoConservado, ExecConRespaldo
<1>4. ReadyConRespaldo'
  BY <1>1, <1>2 DEF ReadyConRespaldo
<1>5. AdmisionConRespaldo'
  BY <1>1, <1>2 DEF AdmisionConRespaldo, PorAdmitir
<1>6. IOyExitConRespaldo' /\ ManosOcupadas' /\ CpuAlDia'
  BY <1>1, <1>2 DEF IOyExitConRespaldo, ManosOcupadas, CpuAlDia
<1> QED BY <1>3, <1>4, <1>5, <1>6

\* Every step of the thread that times a block preserves the accounting.
LEMMA TemporizadorIInv ==
  ASSUME IInv, NEW t \in Temporizadores, Temporizador(t)
  PROVE  IInv'
<1> USE DEF IInv
<1>1. t[1] \in Proc
  BY DEF Temporizadores
<1>2. \A l \in {"noCreado", "inicio", "dormir", "remover", "marcarFinal", "suspender", "fin"} :
        IrTemporizador(t, l) \in [Temporizadores -> Reloj]
  <2> TAKE l \in {"noCreado", "inicio", "dormir", "remover", "marcarFinal", "suspender", "fin"}
  <2>1. temporizador[t] \in Reloj
    BY DEF TypeOK
  <2>2. [temporizador[t] EXCEPT !.en = l] \in Reloj
    BY <2>1 DEF Reloj
  <2> QED BY <2>2 DEF TypeOK, IrTemporizador
<1>3. CASE TemporizadorIniciar(t)
  <2>1. pcb[t[1]] \in Pcb /\ pcb[t[1]].vecesBloqueado + 1 \in Nat
    BY <1>1 DEF TypeOK, Pcb
  <2>2. pcb' \in [Proc -> Pcb]
    <3>1. [pcb[t[1]] EXCEPT !.vecesBloqueado = pcb[t[1]].vecesBloqueado + 1] \in Pcb
      BY <2>1 DEF Pcb
    <3> QED BY <1>3, <3>1 DEF TypeOK, TemporizadorIniciar
  <2>3. temporizador' \in [Temporizadores -> Reloj]
    <3>1. [en |-> "dormir", vez |-> pcb[t[1]].vecesBloqueado + 1] \in Reloj
      BY <2>1 DEF Reloj
    <3> QED BY <1>3, <3>1 DEF TypeOK, TemporizadorIniciar
  <2>4. TypeOK'
    BY <1>3, <2>2, <2>3 DEF TypeOK, TemporizadorIniciar, Tocar, pares
  <2> QED BY <1>3, <2>4, MarcoTemporizador DEF TemporizadorIniciar, pares
<1>4. CASE TemporizadorVencer(t)
  <2>1. temporizador' \in [Temporizadores -> Reloj]
    BY <1>2, <1>4 DEF TemporizadorVencer
  <2>2. caido' \in BOOLEAN
    BY <1>4 DEF TypeOK, TemporizadorVencer, Tocar
  <2>3. TypeOK'
    BY <1>4, <2>1, <2>2 DEF TypeOK, TemporizadorVencer, pares
  <2> QED BY <1>4, <2>3, MarcoTemporizador DEF TemporizadorVencer, pares
<1>5. CASE TemporizadorRemover(t)
  <2>1. temporizador' \in [Temporizadores -> Reloj]
    BY <1>2, <1>5 DEF TemporizadorRemover
  <2>2. RemoverPcb("BLOCKED", t[1]) \in Seq(Proc)
    BY <1>1, RemoverPcbType DEF Colas
  <2>3. /\ cola' \in [Colas -> Seq(Proc)]
        /\ \A e \in Colas : e # "BLOCKED" => cola'[e] = cola[e]
    BY <1>5, <2>2 DEF TypeOK, TemporizadorRemover
  <2>4. TypeOK'
    BY <1>5, <2>1, <2>3 DEF TypeOK, TemporizadorRemover, pares
  <2> QED BY <1>5, <2>3, <2>4, MarcoTemporizador DEF TemporizadorRemover, pares
<1>6. CASE TemporizadorMarcarFinal(t)
  <2>1. temporizador' \in [Temporizadores -> Reloj]
    BY <1>2, <1>6 DEF TemporizadorMarcarFinal
  <2>2. pcb' \in [Proc -> Pcb]
    BY <1>1, <1>6, PcbTiempoFinal DEF TemporizadorMarcarFinal, Espera
  <2>3. TypeOK'
    BY <1>6, <2>1, <2>2 DEF TypeOK, TemporizadorMarcarFinal, Tocar, pares
  <2> QED BY <1>6, <2>3, MarcoTemporizador DEF TemporizadorMarcarFinal, pares
<1>7. CASE TemporizadorNoSuspender(t)
  <2>1. temporizador' \in [Temporizadores -> Reloj]
    BY <1>2, <1>7 DEF TemporizadorNoSuspender
  <2>2. TypeOK'
    BY <1>7, <2>1 DEF TypeOK, TemporizadorNoSuspender, Tocar, pares
  <2> QED BY <1>7, <2>2, MarcoTemporizador DEF TemporizadorNoSuspender, pares
<1>8. CASE TemporizadorSuspender(t)
  <2>1. temporizador' \in [Temporizadores -> Reloj]
    BY <1>2, <1>8 DEF TemporizadorSuspender
  <2>2. pcb' \in [Proc -> Pcb]
    BY <1>1, <1>8, PcbEstado DEF TemporizadorSuspender, EstadoPcb
  <2>3. /\ cola' \in [Colas -> Seq(Proc)]
        /\ \A e \in Colas : e # "SUSPENDED_BLOCKED" => cola'[e] = cola[e]
    BY <1>1, <1>8, Encolar DEF TemporizadorSuspender, Colas
  <2>4. sem' \in [Semaforos -> Nat] /\ \A s \in Semaforos : s # "gradoMultiprog" => sem'[s] = sem[s]
    BY <1>8 DEF TypeOK, TemporizadorSuspender, Post, Semaforos
  <2>5. TypeOK'
    BY <1>1, <1>8, <2>1, <2>2, <2>3, <2>4 DEF TypeOK, TemporizadorSuspender, Tocar, pares
  <2>6. UNCHANGED <<hilo, enMano, cpu>>
    BY <1>8 DEF TemporizadorSuspender, pares
  <2> QED BY <2>3, <2>4, <2>5, <2>6, MarcoTemporizador
<1> QED BY <1>3, <1>4, <1>5, <1>6, <1>7, <1>8 DEF Temporizador

\* The accounting holds when the Kernel starts: every list is empty and the only
\* positive semaphores are the GRADO permits and dispatchPermitido.
LEMMA InitIInv ==
  Init => IInv
<1> SUFFICES ASSUME Init PROVE IInv
  OBVIOUS
<1>1. TypeOK
  <2>1. pcb \in [Proc -> Pcb]
    BY DEF Init, Pcb, EstadoPcb, TiempoBloqueo, Espera
  <2>2. cpu \in EstadoCpu
    BY DEF Init, EstadoCpu
  <2>3. temporizador \in [Temporizadores -> Reloj]
    BY DEF Init, Reloj
  <2>4. sem \in [Semaforos -> Nat]
    BY GradoAssumption DEF Init, Semaforos
  <2>5. cola \in [Colas -> Seq(Proc)]
    BY DEF Init, Colas
  <2>6. hilo \in [Hilos -> Lugares] /\ enMano \in [Hilos -> Proc \union {Ninguno}]
    BY DEF Init, Hilos, Lugares
  <2> QED BY <2>1, <2>2, <2>3, <2>4, <2>5, <2>6 DEF TypeOK, Init
<1>2. /\ hilo["largo"] = "esperar" /\ hilo["mediano"] = "esperar" /\ hilo["corto"] = "esperar" 
      /\ hilo["atender"] = "esperar" /\ hilo["io"] = "esperar"
  BY DEF Init, Hilos
<1>3. /\ sem["dispatchPermitido"] = 1
  /\ sem["EXEC"] = 0 /\ sem["READY"] = 0 /\ sem["EXIT"] = 0 /\ sem["IO"] = 0 /\ sem["hayPcbs"] = 0 
  /\ sem["transicionar"] = 0
  BY DEF Init, Semaforos
<1>4. \A e \in Colas : Len(cola[e]) = 0
  BY DEF Init, Colas
<1>5. DespachoConservado /\ ExecConRespaldo
  BY <1>2, <1>3, <1>4 DEF DespachoConservado, ExecConRespaldo, Uno, Colas
<1>6. ReadyConRespaldo
  BY <1>2, <1>3, <1>4 DEF ReadyConRespaldo, Uno, Colas
<1>7. AdmisionConRespaldo
  <2>1. PorAdmitir = 0
    <3> DEFINE nuevos == Len(cola["NEW"])
               suspendidos == Len(cola["SUSPENDED_READY"])
    <3>1. nuevos = 0 /\ suspendidos = 0
      BY <1>4 DEF Colas
    <3>2. PorAdmitir = nuevos + suspendidos
      BY DEF PorAdmitir
    <3> HIDE DEF nuevos, suspendidos
    <3> QED BY <3>1, <3>2
  <2> QED BY <2>1, <1>2, <1>3 DEF AdmisionConRespaldo, Uno
<1>8. IOyExitConRespaldo
  BY <1>3, <1>4 DEF IOyExitConRespaldo, Colas
<1>9. ManosOcupadas 
  BY <1>2 DEF ManosOcupadas
<1>10. CpuAlDia
  BY <1>2 DEF CpuAlDia, Init
<1> QED BY <1>1, <1>5, <1>6, <1>7, <1>8, <1>9, <1>10 DEF IInv

\* Every step preserves the accounting, and so does a step of the environment.
LEMMA PasoIInv ==
  IInv /\ [Next]_vars => IInv'
<1> SUFFICES ASSUME IInv, [Next]_vars
             PROVE  IInv'
  OBVIOUS
<1>1. ASSUME NEW p \in Proc, EncolarEnNew(p)
      PROVE  IInv'
  BY <1>1, EncolarEnNewIInv
<1>2. CASE Largo
  BY <1>2, LargoTomarPcbIInv,
     LargoTransicionarSusreadyIInv,
     LargoTomarNewIInv,
     LargoRechazarIInv,
     LargoAdmitirIInv,
     LargoAvisarReadyIInv
  DEF Largo
<1>3. CASE Mediano
  BY <1>3, MedianoTomarSusreadyIInv,
     MedianoCaerIInv,
     MedianoEncolarReadyIInv,
     MedianoAvisarReadyIInv
  DEF Mediano
<1>4. CASE Corto
  BY <1>4, CortoEvaluarDesalojoIInv,
     CortoDespacharIInv
  DEF Corto
<1>5. CASE Atender
  BY <1>5, AtenderEnviarPcbIInv,
     AtenderRecibirPcbIInv,
     AtenderDesalojadoIInv,
     AtenderTerminadoIInv,
     AtenderEncolarIOIInv,
     AtenderMarcarBlockedIInv,
     AtenderEncolarBlockedIInv
  DEF Atender
<1>6. CASE DispositivoIO
  BY <1>6, IOIniciarIInv,
     IOVolverAReadyIInv,
     IOVolverASusreadyIInv,
     IODescartarIInv,
     IOAvisarReadyIInv,
     IOAvisarLargoIInv
  DEF DispositivoIO
<1>7. CASE Cpu
  BY <1>7, CpuSeguirIInv,
     CpuDetenerIInv,
     CpuRecibirInterrupcionIInv
  DEF Cpu
<1>8. CASE LiberarPcb
  BY <1>8, LiberarPcbIInv
<1>9. ASSUME NEW t \in Temporizadores, Temporizador(t)
      PROVE  IInv'
  BY <1>9, TemporizadorIInv
<1>10. CASE UNCHANGED vars
  BY <1>10 DEF vars, IInv, TypeOK, DespachoConservado, ExecConRespaldo, ReadyConRespaldo,
               AdmisionConRespaldo, PorAdmitir, IOyExitConRespaldo, ManosOcupadas, CpuAlDia
<1> QED BY <1>1, <1>2, <1>3, <1>4, <1>5, <1>6, <1>7, <1>8, <1>9, <1>10 DEF Next

\* The accounting of semaphores, threads and lists holds in every state.
THEOREM Contabilidad == Spec => []IInv
<1>1. Init => IInv
  BY InitIInv
<1>2. IInv /\ [Next]_vars => IInv'
  BY PasoIInv
<1> QED BY <1>1, <1>2, PTL DEF Spec

\* Every variable keeps its type; among others no semaphore is taken below zero and
\* no thread goes on with a PCB it did not get.
THEOREM TiposCorrectos == Spec => []TypeOK
<1>1. IInv => TypeOK
  BY DEF IInv
<1> QED BY <1>1, Contabilidad, PTL

\* The CPU runs one process at a time, the one __atender_pcb waits for, whatever the
\* order in which preemptions, I/O and terminations happen.
THEOREM DespachoExclusivo == Spec => []UnSoloDespacho
<1>1. IInv => UnSoloDespacho
  <2> SUFFICES ASSUME IInv
               PROVE  UnSoloDespacho
    OBVIOUS
  <2>1. sem["EXEC"] \in Nat /\ sem["dispatchPermitido"] \in Nat /\ Len(cola["EXEC"]) \in Nat
    BY ColasSonListas DEF IInv, TypeOK, Semaforos, Colas
  <2>2. Len(cola["EXEC"]) <= 1
    BY <2>1 DEF IInv, DespachoConservado, ExecConRespaldo, Uno
  <2> QED BY <2>2 DEF IInv, CpuAlDia, UnSoloDespacho
<1> QED BY <1>1, Contabilidad, PTL

\* Every PCB in READY has its unit of the semaphore on the way, so elegir_pcb never
\* takes one out of an empty list.
THEOREM ReadyRespaldado == Spec => []ReadyConRespaldo
<1>1. IInv => ReadyConRespaldo
  BY DEF IInv
<1> QED BY <1>1, Contabilidad, PTL

\* The long term thread never takes a PCB out of an empty NEW, although hayPcbs
\* counts two lists and the medium term thread empties one of them meanwhile.
THEOREM LargoRespaldado == Spec => []LargoConRespaldo
<1>1. IInv => LargoConRespaldo
  <2> SUFFICES ASSUME IInv, hilo["largo"] = "esperarGrado", cola["SUSPENDED_READY"] = << >>
               PROVE  cola["NEW"] # << >>
    BY DEF LargoConRespaldo
  <2>1. sem["hayPcbs"] \in Nat /\ sem["transicionar"] \in Nat
    BY DEF IInv, TypeOK, Semaforos
  <2>2. PorAdmitir > 0
    BY <2>1, PorAdmitirNat DEF IInv, AdmisionConRespaldo, Uno
  <2>3. Len(cola["SUSPENDED_READY"]) = 0 /\ Len(cola["NEW"]) \in Nat
    BY ColasSonListas DEF IInv, Colas
  <2>4. Len(cola["NEW"]) > 0
    BY <2>2, <2>3 DEF PorAdmitir
  <2> QED BY <2>4
<1> QED BY <1>1, Contabilidad, PTL

-----------------------------------------------------------------------------
(* Where each PCB is.                                                      *)

\* The lists of states, and the threads that hold a PCB no list has.
Sitios == (Colas \ {"IO"}) \union {"largo", "mediano", "atender"}

\* p is in the list s, or in the hand of the thread s. While __atender_pcb waits for
\* the CPU its PCB is still in EXEC.
EstaEn(s, p) ==
  IF s \in Colas THEN ContienePcb(s, p)
  ELSE enMano[s] = p /\ (s = "atender" => hilo[s] # "esperarCpu")
SinSitio(p) == \A s \in Sitios : ~EstaEn(s, p)

\* p waits for the I/O device or the device is busy with it.
EnColaIO(p) == ContienePcb("IO", p)
Durmiendo(p) == hilo["io"] = "dormir" /\ enMano["io"] = p
EnBloqueo(p) == EnColaIO(p) \/ Durmiendo(p)

\* The values of estadoActual of a PCB at s: it stays behind when the PCB is dispatched
\* and when a new one is admitted, or refused.
EstadosDe(s) ==
  CASE s \in {"NEW", "largo"} -> {"NEW"}
    [] s \in {"READY", "EXEC"} -> {"NEW", "READY"}
    [] s = "EXIT" -> {"NEW", "EXIT"}
    [] s = "mediano" -> {"READY"}
    [] s = "atender" -> IF hilo["atender"] = "encolarBlocked" THEN {"BLOCKED"} ELSE {"NEW", "READY"}
    [] OTHER -> {s}

UnSitio(p) == \A a, b \in Sitios : EstaEn(a, p) /\ EstaEn(b, p) => a = b

\* estadoActual follows the PCB. Only one that a timer took out of BLOCKED is nowhere.
EstadoAlDia(p) ==
  /\ \A s \in Sitios : EstaEn(s, p) => pcb[p].estado \in EstadosDe(s)
  /\ SinSitio(p) => pcb[p].estado \in {"NULL", "LIBERADO", "BLOCKED"}
  /\ EstaEn("EXIT", p) /\ pcb[p].estado = "NEW" => p \in Excesivos

\* A blocked PCB, suspended or not, is the I/O device's business, and nobody else is
\* but the one __atender_pcb is about to mark.
BloqueoAlDia(p) ==
  /\ EnBloqueo(p) <=> \/ pcb[p].estado \in {"BLOCKED", "SUSPENDED_BLOCKED"}
                      \/ EstaEn("atender", p) /\ hilo["atender"] = "marcarBlocked"
  /\ ~(EnColaIO(p) /\ Durmiendo(p))

\* The timers of p: one per block, each with the number of its own, and the only one
\* that is doing something times the block p is in.
Iniciado(t) == temporizador[t].en \notin {"noCreado", "inicio"}
RelojesAlDia(p) ==
  /\ \A k \in 1..Len(Programa[p]) :
       /\ temporizador[<<p, k>>].en # "noCreado" =>
            k <= pcb[p].programCounter /\ (EstaEn("atender", p) => k < pcb[p].programCounter)
       /\ Iniciado(<<p, k>>) => temporizador[<<p, k>>].vez <= pcb[p].vecesBloqueado
       /\ temporizador[<<p, k>>].en \in {"inicio", "remover"} =>
            EstaEn("BLOCKED", p) /\ k = pcb[p].programCounter
       /\ temporizador[<<p, k>>].en \in {"marcarFinal", "suspender"} =>
            SinSitio(p) /\ pcb[p].estado = "BLOCKED" /\ k = pcb[p].programCounter
       /\ \A j \in 1..Len(Programa[p]) :
            Iniciado(<<p, j>>) /\ Iniciado(<<p, k>>) /\ temporizador[<<p, j>>].vez = temporizador[<<p, k>>].vez
              => j = k
  /\ EstaEn("BLOCKED", p) =>
       /\ pcb[p].programCounter \in 1..Len(Programa[p])
       /\ temporizador[<<p, pcb[p].programCounter>>].en # "noCreado"
       /\ \/ temporizador[<<p, pcb[p].programCounter>>].en = "inicio"
          \/ temporizador[<<p, pcb[p].programCounter>>].vez = pcb[p].vecesBloqueado

\* p has instructions left unless it ended, and the CPU advances when it runs it.
ProgramaAlDia(p) ==
  /\ pcb[p].programCounter <= Len(Programa[p])
  /\ pcb[p].programCounter = Len(Programa[p]) =>
       \/ pcb[p].estado \in {"EXIT", "LIBERADO"}
       \/ EstaEn("atender", p) /\ hilo["atender"] = "encolarExit"
  /\ EstaEn("atender", p) => pcb[p].programCounter > 0
  /\ cpu.proc = p =>
       /\ cpu.programCounter <= Len(Programa[p])
       /\ cpu.programCounter = Len(Programa[p]) => cpu.respuesta = "terminado"
       /\ cpu.programCounter >= pcb[p].programCounter
       /\ cpu.respuesta # Ninguno => cpu.programCounter > pcb[p].programCounter

\* Memory has a table for the processes it admitted, until they are released.
MemoriaAlDia(p) ==
  p \in enMemoria <=>
    \/ pcb[p].estado \in {"READY", "BLOCKED", "SUSPENDED_BLOCKED", "SUSPENDED_READY", "EXIT"}
    \/ pcb[p].estado = "NEW" /\ \E s \in {"READY", "EXEC", "atender"} : EstaEn(s, p)

Ubicado(p) ==
  /\ UnSitio(p) /\ EstadoAlDia(p) /\ BloqueoAlDia(p)
  /\ RelojesAlDia(p) /\ ProgramaAlDia(p) /\ MemoriaAlDia(p)

\* The list s has q.
Tiene(s, q) == \E i \in 1..Len(s) : s[i] = q
\* No list has a PCB twice.
SinRepetidos(s) == \A i, j \in 1..Len(s) : s[i] = s[j] => i = j
\* A thread holds a PCB only from where it takes it to where it leaves it.
ManosLibres ==
  /\ enMano["largo"] # Ninguno => hilo["largo"] = "solicitarTabla"
  /\ enMano["mediano"] # Ninguno => hilo["mediano"] = "encolarReady"
  /\ enMano["atender"] # Ninguno => hilo["atender"] # "esperar"

\* The permits of GRADO_MULTIPROGRAMACION: a process Memory refused keeps its own
\* until its PCB is released.
TienePermiso(p) ==
  \/ pcb[p].estado \in {"READY", "BLOCKED", "EXIT"}
  \/ pcb[p].estado = "NEW" /\ \E s \in {"READY", "EXEC", "EXIT", "atender"} : EstaEn(s, p)
ConPermiso == {p \in Proc : TienePermiso(p)}
PermisosConservados ==
  /\ IsFiniteSet(ConPermiso)
  /\ sem["gradoMultiprog"] + Cardinality(ConPermiso) + sem["transicionar"]
       + Uno(hilo["largo"] = "solicitarTabla") = GRADO

ListasSinRepetidos == \A e \in Colas : SinRepetidos(cola[e])

\* Every PCB is well placed; relative to IInv, inductive if no sleep ends in the middle of
\* another thread's stretch of code.
Orden ==
  /\ \A p \in Proc : Ubicado(p)
  /\ ListasSinRepetidos
  /\ ManosLibres
  /\ PermisosConservados

-----------------------------------------------------------------------------
(* What a step leaves as it was for a process.                             *)
MismoSitio(p) ==
  /\ \A s \in Sitios : EstaEn(s, p)' <=> EstaEn(s, p)
  /\ EstaEn("atender", p) => hilo'["atender"] = hilo["atender"]
MismaIO(p) == (EnColaIO(p)' <=> EnColaIO(p)) /\ (Durmiendo(p)' <=> Durmiendo(p))
MismosRelojes(p) ==
  /\ pcb'[p].vecesBloqueado = pcb[p].vecesBloqueado
  /\ \A k \in 1..Len(Programa[p]) : temporizador'[<<p, k>>] = temporizador[<<p, k>>]
MismoPrograma(p) ==
  /\ pcb'[p].programCounter = pcb[p].programCounter
  /\ cpu'.proc = p => /\ cpu.proc = p
                      /\ cpu'.programCounter = cpu.programCounter
                      /\ cpu'.respuesta = cpu.respuesta
Ajeno(p) ==
  /\ MismoSitio(p) /\ MismaIO(p) /\ MismosRelojes(p) /\ MismoPrograma(p)
  /\ pcb'[p].estado = pcb[p].estado
  /\ p \in enMemoria' <=> p \in enMemoria

\* Which parts of the placement of a process survive a step that does not move it.
LEMMA QuietoAlDia ==
  ASSUME NEW p \in Proc, Ubicado(p), MismoSitio(p), pcb'[p].estado = pcb[p].estado,
         p \in enMemoria' <=> p \in enMemoria
  PROVE  /\ UnSitio(p)' /\ EstadoAlDia(p)' /\ MemoriaAlDia(p)'
         /\ MismaIO(p) => BloqueoAlDia(p)'
         /\ MismosRelojes(p) /\ pcb'[p].programCounter = pcb[p].programCounter => RelojesAlDia(p)'
         /\ MismoPrograma(p) => ProgramaAlDia(p)'
         /\ TienePermiso(p)' <=> TienePermiso(p)
<1> USE DEF MismoSitio
<1>1. UnSitio(p)'
  BY DEF Ubicado, UnSitio
<1>2. SinSitio(p)' <=> SinSitio(p)
  BY DEF SinSitio
<1>3. {"atender", "EXIT", "BLOCKED", "READY", "EXEC"} \subseteq Sitios
  BY DEF Sitios, Colas
<1>4. EstadoAlDia(p)'
  BY <1>2, <1>3 DEF Ubicado, EstadoAlDia, EstadosDe
<1>5. MismaIO(p) => BloqueoAlDia(p)'
  BY <1>3 DEF Ubicado, BloqueoAlDia, MismaIO, EnBloqueo
<1>6. MismosRelojes(p) /\ pcb'[p].programCounter = pcb[p].programCounter => RelojesAlDia(p)'
  BY <1>2, <1>3 DEF Ubicado, RelojesAlDia, MismosRelojes, Iniciado
<1>7. MismoPrograma(p) => ProgramaAlDia(p)'
  BY <1>3 DEF Ubicado, ProgramaAlDia, MismoPrograma
<1>8. MemoriaAlDia(p)'
  BY <1>3 DEF Ubicado, MemoriaAlDia
<1>9. TienePermiso(p)' <=> TienePermiso(p)
  BY <1>3 DEF TienePermiso
<1> QED BY <1>1, <1>4, <1>5, <1>6, <1>7, <1>8, <1>9

\* A step that does not concern a process leaves it well placed.
LEMMA AjenoUbicado ==
  ASSUME NEW p \in Proc, Ubicado(p), Ajeno(p)
  PROVE  Ubicado(p)' /\ (TienePermiso(p)' <=> TienePermiso(p))
<1>1. MismoPrograma(p) => pcb'[p].programCounter = pcb[p].programCounter
  BY DEF MismoPrograma
<1> QED BY <1>1, QuietoAlDia DEF Ajeno, Ubicado

-----------------------------------------------------------------------------
(* What the lists contain after each operation.                            *)

\* list_add
LEMMA AgregarContiene ==
  ASSUME NEW S, NEW s \in Seq(S), NEW p \in S
  PROVE  /\ \A q : Tiene(Append(s, p), q)
                     <=> q = p \/ Tiene(s, q)
         /\ SinRepetidos(s) /\ ~Tiene(s, p) => SinRepetidos(Append(s, p))
<1>1. /\ Len(s) \in Nat /\ Len(Append(s, p)) = Len(s) + 1
      /\ \A i \in 1..Len(s) : Append(s, p)[i] = s[i]
      /\ Append(s, p)[Len(s) + 1] = p
  BY AppendProperties, LenProperties
<1>2. 1..(Len(s) + 1) = (1..Len(s)) \union {Len(s) + 1}
  BY <1>1
<1> DEFINE n == Len(s)
           t == Append(s, p)
<1>3. \A q : (\E i \in 1..n + 1 : t[i] = q) <=> q = p \/ \E i \in 1..n : s[i] = q
  BY <1>1, <1>2
<1>4. ASSUME SinRepetidos(s), \A i \in 1..n : s[i] # p
      PROVE  SinRepetidos(t)
  <2>1. \A i, j \in 1..n + 1 : t[i] = t[j] => i = j
    BY <1>1, <1>2, <1>4 DEF SinRepetidos
  <2> QED BY <2>1, <1>1 DEF SinRepetidos
<1> QED BY <1>1, <1>3, <1>4 DEF Tiene

\* list_remove(lista, 0)
LEMMA QuitarPrimeroContiene ==
  ASSUME NEW S, NEW s \in Seq(S), s # << >>, SinRepetidos(s)
  PROVE  /\ Tiene(s, Head(s))
         /\ \A q : Tiene(Tail(s), q)
                     <=> q # Head(s) /\ Tiene(s, q)
         /\ SinRepetidos(Tail(s))
<1>1. /\ Len(s) \in Nat /\ Len(s) > 0 /\ Head(s) = s[1]
      /\ Len(Tail(s)) = Len(s) - 1
      /\ \A i \in 1..Len(s) - 1 : Tail(s)[i] = s[i + 1]
  BY HeadTailProperties, EmptySeq, LenProperties
<1> DEFINE n == Len(s)
           t == Tail(s)
<1>2. \A i \in 1..n : i = 1 \/ (i - 1 \in 1..n - 1 /\ t[i - 1] = s[i])
  BY <1>1
<1>3. \A i \in 1..n - 1 : i + 1 \in 1..n /\ i + 1 # 1
  BY <1>1
<1>4. \A i, j \in 1..n : s[i] = s[j] => i = j
  BY DEF SinRepetidos
<1>5. ASSUME NEW q
      PROVE  (\E i \in 1..n - 1 : t[i] = q) <=> q # s[1] /\ \E i \in 1..n : s[i] = q
  <2>1. ASSUME NEW i \in 1..n - 1, t[i] = q
        PROVE  q # s[1] /\ \E j \in 1..n : s[j] = q
    BY <2>1, <1>1, <1>3, <1>4
  <2>2. ASSUME NEW i \in 1..n, s[i] = q, q # s[1]
        PROVE  \E j \in 1..n - 1 : t[j] = q
    BY <2>2, <1>2
  <2> QED BY <2>1, <2>2
<1>6. \A i, j \in 1..n - 1 : t[i] = t[j] => i = j
  <2> SUFFICES ASSUME NEW i \in 1..n - 1, NEW j \in 1..n - 1, t[i] = t[j]
               PROVE  i = j
    OBVIOUS
  <2>1. i + 1 = j + 1
    BY <1>1, <1>3, <1>4
  <2> QED BY <2>1, <1>1
<1> QED BY <1>1, <1>5, <1>6 DEF SinRepetidos, Tiene

\* list_remove(lista, i)
LEMMA QuitarContiene ==
  ASSUME NEW S, NEW s \in Seq(S), SinRepetidos(s), NEW m \in 1..Len(s)
  PROVE  /\ \A q : Tiene(RemoveAt(s, m), q)
                     <=> q # s[m] /\ Tiene(s, q)
         /\ SinRepetidos(RemoveAt(s, m))
<1> DEFINE antes == SubSeq(s, 1, m - 1)
           despues == SubSeq(s, m + 1, Len(s))
           n == Len(s)
           t == RemoveAt(s, m)
<1>1. n \in Nat /\ m \in Nat /\ m - 1 \in Nat
  BY LenProperties
<1>2. /\ antes \in Seq(S) /\ Len(antes) = m - 1
      /\ \A i \in 1..m - 1 : antes[i] = s[i]
  BY <1>1, SubSeqProperties
<1>3. /\ despues \in Seq(S) /\ Len(despues) = n - m
      /\ \A i \in 1..n - m : despues[i] = s[m + i]
  BY <1>1, SubSeqProperties
<1>4. t = antes \o despues
  BY DEF RemoveAt
<1>5. /\ Len(t) = n - 1
      /\ \A i \in 1..n - 1 : t[i] = IF i < m THEN s[i] ELSE s[i + 1]
  <2> HIDE DEF antes, despues, n, t
  <2>1. m \in 1..n
    BY DEF n
  <2>2. /\ Len(t) = Len(antes) + Len(despues)
        /\ \A i \in 1..Len(antes) + Len(despues) :
             t[i] = IF i <= Len(antes) THEN antes[i] ELSE despues[i - Len(antes)]
    BY <1>2, <1>3, <1>4, ConcatProperties
  <2>3. Len(antes) + Len(despues) = n - 1
    BY <1>1, <1>2, <1>3, <2>1
  <2>4. ASSUME NEW i \in 1..n - 1, i < m
        PROVE  t[i] = s[i]
    BY <2>1, <2>2, <2>3, <2>4, <1>1, <1>2
  <2>5. ASSUME NEW i \in 1..n - 1, ~(i < m)
        PROVE  t[i] = s[i + 1]
    <3>1. i - (m - 1) \in 1..n - m /\ m + (i - (m - 1)) = i + 1 /\ ~(i <= m - 1)
      BY <2>1, <2>5, <1>1
    <3>2. t[i] = despues[i - (m - 1)]
      BY <3>1, <2>2, <2>3, <1>2
    <3>3. despues[i - (m - 1)] = s[m + (i - (m - 1))]
      BY <3>1, <1>3
    <3> QED BY <3>1, <3>2, <3>3
  <2> QED BY <2>2, <2>3, <2>4, <2>5
<1>6. \A i, j \in 1..n : s[i] = s[j] => i = j
  BY DEF SinRepetidos
<1> HIDE DEF t, n, antes, despues
<1>7. m \in 1..n
  BY DEF n
<1>8. ASSUME NEW q
      PROVE  (\E i \in 1..n - 1 : t[i] = q) <=> q # s[m] /\ \E i \in 1..n : s[i] = q
  <2>1. ASSUME NEW i \in 1..n - 1, t[i] = q
        PROVE  q # s[m] /\ \E j \in 1..n : s[j] = q
    <3>1. CASE i < m
      BY <3>1, <2>1, <1>1, <1>5, <1>6, <1>7, SMTT(20)
    <3>2. CASE ~(i < m)
      <4>1. i + 1 \in 1..n /\ i + 1 # m /\ s[i + 1] = q
        BY <3>2, <2>1, <1>1, <1>5, <1>7
      <4> QED BY <4>1, <1>6, <1>7
    <3> QED BY <3>1, <3>2
  <2>2. ASSUME NEW i \in 1..n, s[i] = q, q # s[m]
        PROVE  \E j \in 1..n - 1 : t[j] = q
    <3>1. CASE i < m
      <4>1. i \in 1..n - 1
        BY <3>1, <1>1, <1>7
      <4> QED BY <3>1, <4>1, <2>2, <1>5
    <3>2. CASE i > m
      <4>1. i - 1 \in 1..n - 1 /\ ~(i - 1 < m) /\ (i - 1) + 1 = i
        BY <3>2, <1>1, <1>7
      <4>2. t[i - 1] = q
        BY <4>1, <2>2, <1>5
      <4> QED BY <4>1, <4>2
    <3>3. i # m
      BY <2>2
    <3> QED BY <3>1, <3>2, <3>3, <1>1, <1>7
  <2> QED BY <2>1, <2>2
<1>9. \A i, j \in 1..n - 1 : t[i] = t[j] => i = j
  <2> SUFFICES ASSUME NEW i \in 1..n - 1, NEW j \in 1..n - 1, t[i] = t[j]
               PROVE  i = j
    OBVIOUS
  <2> DEFINE a == IF i < m THEN i ELSE i + 1
             b == IF j < m THEN j ELSE j + 1
  <2>1. a \in 1..n /\ b \in 1..n /\ s[a] = t[i] /\ s[b] = t[j]
    BY <1>1, <1>5, <1>7
  <2>2. a = b
    BY <2>1, <1>6
  <2> QED BY <2>2, <1>1, <1>7
<1> QED BY <1>5, <1>8, <1>9 DEF SinRepetidos, Tiene, t, n

\* ContienePcb, before and after a step.
LEMMA ContieneTiene ==
  ASSUME NEW e \in Colas, NEW q \in Proc
  PROVE  /\ ContienePcb(e, q) <=> Tiene(cola[e], q)
         /\ ContienePcb(e, q)' <=> Tiene(cola'[e], q)
BY DEF ContienePcb, Tiene

\* estado_encolar_pcb, of a PCB that the list has not.
LEMMA EncolarLugares ==
  ASSUME TypeOK, ListasSinRepetidos, NEW e \in Colas, NEW p \in Proc,
         ~ContienePcb(e, p), cola' = EncolarPcb(e, p)
  PROVE  /\ ListasSinRepetidos'
         /\ \A f \in Colas, q \in Proc : ContienePcb(f, q)' <=> ContienePcb(f, q) \/ (f = e /\ q = p)
<1>1. cola[e] \in Seq(Proc) /\ cola \in [Colas -> Seq(Proc)] /\ SinRepetidos(cola[e])
  BY DEF TypeOK, ListasSinRepetidos
<1>2. cola'[e] = Append(cola[e], p) /\ \A f \in Colas : f # e => cola'[f] = cola[f]
  BY <1>1 DEF EncolarPcb
<1>3. SinRepetidos(Append(cola[e], p))
  BY <1>1, AgregarContiene, ContieneTiene
<1>4. \A q : Tiene(Append(cola[e], p), q)
               <=> q = p \/ Tiene(cola[e], q)
  BY <1>1, AgregarContiene
<1>5. ListasSinRepetidos'
  BY <1>2, <1>3 DEF ListasSinRepetidos
<1>6. ASSUME NEW f \in Colas, NEW q \in Proc
      PROVE  ContienePcb(f, q)' <=> ContienePcb(f, q) \/ (f = e /\ q = p)
  BY <1>2, <1>4, ContieneTiene
<1> QED BY <1>5, <1>6

\* estado_desencolar_primer_pcb, of a list that has one.
LEMMA DesencolarLugares ==
  ASSUME TypeOK, ListasSinRepetidos, NEW e \in Colas, cola[e] # << >>,
         NEW p \in Proc, p = Head(cola[e]),
         cola' = DesencolarPrimero(e)
  PROVE  /\ ListasSinRepetidos'
         /\ ContienePcb(e, p)
         /\ \A f \in Colas, q \in Proc : ContienePcb(f, q)' <=> ContienePcb(f, q) /\ ~(f = e /\ q = p)
<1>1. cola[e] \in Seq(Proc) /\ cola \in [Colas -> Seq(Proc)] /\ SinRepetidos(cola[e])
  BY DEF TypeOK, ListasSinRepetidos
<1>2. cola'[e] = Tail(cola[e]) /\ \A f \in Colas : f # e => cola'[f] = cola[f]
  BY <1>1 DEF DesencolarPrimero
<1>3. /\ SinRepetidos(Tail(cola[e]))
      /\ Tiene(cola[e], p)
      /\ \A q : Tiene(Tail(cola[e]), q)
                  <=> q # p /\ Tiene(cola[e], q)
  BY <1>1, QuitarPrimeroContiene
<1>4. ListasSinRepetidos'
  BY <1>2, <1>3 DEF ListasSinRepetidos
<1>5. ASSUME NEW f \in Colas, NEW q \in Proc
      PROVE  ContienePcb(f, q)' <=> ContienePcb(f, q) /\ ~(f = e /\ q = p)
  BY <1>2, <1>3, ContieneTiene
<1>6. ContienePcb(e, p)
  BY <1>3, ContieneTiene
<1> QED BY <1>4, <1>5, <1>6

\* estado_remover_pcb_de_cola: p leaves the list, if it was there.
LEMMA RemoverContiene ==
  ASSUME TypeOK, ListasSinRepetidos, NEW e \in Colas, NEW p \in Proc
  PROVE  /\ SinRepetidos(RemoverPcb(e, p))
         /\ \A q : Tiene(RemoverPcb(e, p), q)
                     <=> q # p /\ Tiene(cola[e], q)
<1>1. cola[e] \in Seq(Proc) /\ SinRepetidos(cola[e])
  BY DEF TypeOK, ListasSinRepetidos
<1>2. CASE ContienePcb(e, p)
  <2> DEFINE i == CHOOSE i \in 1..Len(cola[e]) : cola[e][i] = p
  <2>1. i \in 1..Len(cola[e]) /\ cola[e][i] = p
    BY <1>2 DEF ContienePcb, Tiene
  <2> HIDE DEF i
  <2>2. /\ SinRepetidos(RemoveAt(cola[e], i))
        /\ \A q : Tiene(RemoveAt(cola[e], i), q)
                    <=> q # p /\ Tiene(cola[e], q)
    BY <1>1, <2>1, QuitarContiene
  <2>3. RemoverPcb(e, p) = RemoveAt(cola[e], i)
    BY <1>2 DEF RemoverPcb, i
  <2> QED BY <2>2, <2>3
<1>3. CASE ~ContienePcb(e, p)
  <2>1. RemoverPcb(e, p) = cola[e]
    BY <1>3 DEF RemoverPcb
  <2>2. ~Tiene(cola[e], p)
    BY <1>3, ContieneTiene
  <2> QED BY <1>1, <2>1, <2>2
<1> QED BY <1>2, <1>3

LEMMA RemoverLugares ==
  ASSUME TypeOK, ListasSinRepetidos, NEW e \in Colas, NEW p \in Proc,
         cola' = [cola EXCEPT ![e] = RemoverPcb(e, p)]
  PROVE  /\ ListasSinRepetidos'
         /\ \A f \in Colas, q \in Proc : ContienePcb(f, q)' <=> ContienePcb(f, q) /\ ~(f = e /\ q = p)
<1>1. cola'[e] = RemoverPcb(e, p) /\ \A f \in Colas : f # e => cola'[f] = cola[f]
  BY DEF TypeOK
<1>2. /\ SinRepetidos(RemoverPcb(e, p))
      /\ \A q : Tiene(RemoverPcb(e, p), q)
                  <=> q # p /\ Tiene(cola[e], q)
  BY RemoverContiene
<1>3. ListasSinRepetidos'
  BY <1>1, <1>2 DEF ListasSinRepetidos
<1>4. ASSUME NEW f \in Colas, NEW q \in Proc
      PROVE  ContienePcb(f, q)' <=> ContienePcb(f, q) /\ ~(f = e /\ q = p)
  BY <1>1, <1>2, ContieneTiene
<1> QED BY <1>3, <1>4

\* p passes from one list, if it was there, to another that has it not.
LEMMA MoverLugares ==
  ASSUME TypeOK, ListasSinRepetidos, NEW e \in Colas, NEW f \in Colas, e # f, NEW p \in Proc,
         ~ContienePcb(f, p), cola' = MoverPcb(e, f, p)
  PROVE  /\ ListasSinRepetidos'
         /\ \A g \in Colas, q \in Proc :
              ContienePcb(g, q)' <=> IF q = p /\ g \in {e, f} THEN g = f ELSE ContienePcb(g, q)
<1>1. cola[f] \in Seq(Proc) /\ cola \in [Colas -> Seq(Proc)] /\ SinRepetidos(cola[f])
  BY DEF TypeOK, ListasSinRepetidos
<1>2. /\ cola'[e] = RemoverPcb(e, p) /\ cola'[f] = Append(cola[f], p)
      /\ \A g \in Colas : g # e /\ g # f => cola'[g] = cola[g]
  BY <1>1 DEF MoverPcb
<1>3. /\ SinRepetidos(RemoverPcb(e, p))
      /\ \A q : Tiene(RemoverPcb(e, p), q)
                  <=> q # p /\ Tiene(cola[e], q)
  BY RemoverContiene
<1>4. SinRepetidos(Append(cola[f], p))
  BY <1>1, AgregarContiene, ContieneTiene
<1>5. \A q : Tiene(Append(cola[f], p), q)
               <=> q = p \/ Tiene(cola[f], q)
  BY <1>1, AgregarContiene
<1>6. ListasSinRepetidos'
  BY <1>2, <1>3, <1>4 DEF ListasSinRepetidos
<1>7. ASSUME NEW g \in Colas, NEW q \in Proc
      PROVE  ContienePcb(g, q)' <=> IF q = p /\ g \in {e, f} THEN g = f ELSE ContienePcb(g, q)
  <2>1. CASE g = e
    BY <2>1, <1>2, <1>3, ContieneTiene
  <2>2. CASE g = f
    BY <2>2, <1>2, <1>5, ContieneTiene
  <2>3. CASE g # e /\ g # f
    BY <2>3, <1>2, ContieneTiene
  <2> QED BY <2>1, <2>2, <2>3
<1> QED BY <1>6, <1>7

\* elegir_pcb took some PCB out of READY, and EXEC was empty.
LEMMA DespacharLugares ==
  ASSUME IInv, ListasSinRepetidos, CortoDespachar
  PROVE  /\ ListasSinRepetidos'
         /\ \A q \in Proc : ~ContienePcb("EXEC", q)
         /\ hilo["atender"] = "esperar"
         /\ \E p \in Proc :
              /\ ContienePcb("READY", p)
              /\ \A g \in Colas, q \in Proc :
                   ContienePcb(g, q)' <=> IF q = p /\ g \in {"READY", "EXEC"} THEN g = "EXEC" ELSE ContienePcb(g, q)
<1>1. /\ sem["READY"] \in Nat /\ sem["EXEC"] \in Nat /\ sem["dispatchPermitido"] \in Nat
      /\ sem["dispatchPermitido"] > 0 /\ hilo["corto"] = "despachar"
  BY DEF IInv, TypeOK, Semaforos, CortoDespachar, En
<1>2. /\ cola["READY"] \in Seq(Proc) /\ cola["EXEC"] \in Seq(Proc)
      /\ Len(cola["READY"]) \in Nat /\ Len(cola["EXEC"]) \in Nat
      /\ cola \in [Colas -> Seq(Proc)] /\ SinRepetidos(cola["READY"]) /\ SinRepetidos(cola["EXEC"])
  BY ColasSonListas DEF IInv, TypeOK, Colas, ListasSinRepetidos
<1>3. Len(cola["READY"]) > 0
  BY <1>1, <1>2 DEF IInv, ReadyConRespaldo, Uno
<1>4. Len(cola["EXEC"]) = 0 /\ hilo["atender"] = "esperar"
  BY <1>1, <1>2 DEF IInv, DespachoConservado, ExecConRespaldo, Uno
<1>5. \A q \in Proc : ~ContienePcb("EXEC", q)
  BY <1>4 DEF ContienePcb
<1>6. PICK i \in Elegibles : cola' = [cola EXCEPT !["READY"] = RemoveAt(@, i),
                                                  !["EXEC"] = Append(@, cola["READY"][i])]
  BY DEF CortoDespachar
<1>7. i \in 1..Len(cola["READY"])
  BY <1>2, <1>3, <1>6 DEF Elegibles
<1>8. PICK p \in Proc : p = cola["READY"][i]
  BY <1>2, <1>7, ElementOfSeq
<1>9. /\ cola'["READY"] = RemoveAt(cola["READY"], i) /\ cola'["EXEC"] = Append(cola["EXEC"], p)
      /\ \A g \in Colas : g # "READY" /\ g # "EXEC" => cola'[g] = cola[g]
  BY <1>2, <1>6, <1>8 DEF Colas
<1>10. /\ SinRepetidos(RemoveAt(cola["READY"], i))
       /\ \A q : Tiene(RemoveAt(cola["READY"], i), q) <=> q # p /\ Tiene(cola["READY"], q)
  BY <1>2, <1>7, <1>8, QuitarContiene
<1>11. ~Tiene(cola["EXEC"], p)
  BY <1>5, ContieneTiene DEF Colas
<1>12. /\ SinRepetidos(Append(cola["EXEC"], p))
       /\ \A q : Tiene(Append(cola["EXEC"], p), q) <=> q = p \/ Tiene(cola["EXEC"], q)
  BY <1>2, <1>11, AgregarContiene
<1>13. ListasSinRepetidos'
  BY <1>9, <1>10, <1>12 DEF ListasSinRepetidos
<1>14. ContienePcb("READY", p)
  BY <1>7, <1>8 DEF ContienePcb
<1>15. ASSUME NEW g \in Colas, NEW q \in Proc
       PROVE  ContienePcb(g, q)' <=> IF q = p /\ g \in {"READY", "EXEC"} THEN g = "EXEC" ELSE ContienePcb(g, q)
  <2>1. CASE g = "READY"
    BY <2>1, <1>9, <1>10, ContieneTiene
  <2>2. CASE g = "EXEC"
    BY <2>2, <1>9, <1>12, ContieneTiene
  <2>3. CASE g # "READY" /\ g # "EXEC"
    BY <2>3, <1>9, ContieneTiene
  <2> QED BY <2>1, <2>2, <2>3
<1> QED BY <1>4, <1>5, <1>13, <1>14, <1>15

-----------------------------------------------------------------------------
(* What each action does to the PCB it is about.                           *)

\* p is now at the site a, or nowhere, and no other process is concerned.
Queda(p, a) ==
  /\ \A s \in Sitios : EstaEn(s, p)' <=> s = a
  /\ \A q \in Proc : q # p => Ajeno(q)
Conserva(p) == MismaIO(p) /\ MismosRelojes(p) /\ MismoPrograma(p)

LEMMA EncolarEnNewEfecto ==
  ASSUME IInv, Orden, NEW p \in Proc, EncolarEnNew(p)
  PROVE  /\ ListasSinRepetidos'
         /\ SinSitio(p) /\ Queda(p, "NEW") /\ Conserva(p)
         /\ pcb[p].estado = "NULL" /\ pcb'[p].estado = "NEW"
         /\ p \in enMemoria' <=> p \in enMemoria
<1>1. /\ pcb[p].estado = "NULL" /\ pcb' = [pcb EXCEPT ![p].estado = "NEW"]
      /\ cola' = EncolarPcb("NEW", p)
      /\ UNCHANGED <<hilo, enMano, temporizador, cpu, enMemoria>>
  BY DEF EncolarEnNew, pares
<1>2. pcb \in [Proc -> Pcb] /\ TypeOK /\ ListasSinRepetidos
  BY DEF IInv, TypeOK, Orden
<1>3. SinSitio(p)
  BY <1>1 DEF Orden, Ubicado, EstadoAlDia, SinSitio, EstadosDe, Sitios, Colas
<1>4. ~ContienePcb("NEW", p)
  BY <1>3 DEF SinSitio, EstaEn, Sitios, Colas
<1>5. /\ ListasSinRepetidos'
      /\ \A f \in Colas, q \in Proc : ContienePcb(f, q)' <=> ContienePcb(f, q) \/ (f = "NEW" /\ q = p)
  BY <1>1, <1>2, <1>4, EncolarLugares DEF Colas
<1>6. \A s \in Sitios, q \in Proc : EstaEn(s, q)' <=> IF q = p THEN s = "NEW" ELSE EstaEn(s, q)
  BY <1>1, <1>3, <1>5 DEF EstaEn, SinSitio, Sitios
<1>7. \A q \in Proc : MismaIO(q)
  BY <1>1, <1>5 DEF MismaIO, EnColaIO, Durmiendo, Colas
<1>8. Queda(p, "NEW")
  <2>1. \A q \in Proc : q # p => pcb'[q] = pcb[q]
    BY <1>1, <1>2
  <2> QED BY <1>1, <1>6, <1>7, <2>1 DEF Queda, Ajeno, MismoSitio, MismosRelojes, MismoPrograma
<1>9. pcb'[p].estado = "NEW" /\ Conserva(p)
  BY <1>1, <1>2, <1>7 DEF Conserva, MismosRelojes, MismoPrograma, Pcb
<1> QED BY <1>1, <1>3, <1>5, <1>8, <1>9

LEMMA LargoAdmitirEfecto ==
  ASSUME IInv, Orden, LargoAdmitir
  PROVE  /\ ListasSinRepetidos'
         /\ \E p \in Proc :
              /\ EstaEn("largo", p) /\ p \notin Excesivos
              /\ Queda(p, "READY") /\ Conserva(p)
              /\ pcb'[p].estado = pcb[p].estado
              /\ p \in enMemoria'
<1>1. PICK p \in Proc : p = enMano["largo"]
  BY DEF IInv, ManosOcupadas, LargoAdmitir, En
<1>2. /\ hilo["largo"] = "solicitarTabla" /\ p \notin Excesivos
      /\ enMemoria' = enMemoria \union {p}
      /\ cola' = EncolarPcb("READY", p)
      /\ enMano'["largo"] = Ninguno /\ \A t \in Hilos : t # "largo" => enMano'[t] = enMano[t]
      /\ \A t \in Hilos : t # "largo" => hilo'[t] = hilo[t]
      /\ UNCHANGED <<pcb, temporizador, cpu>>
  BY <1>1 DEF LargoAdmitir, En, Ir, IInv, TypeOK, Hilos
<1>3. TypeOK /\ ListasSinRepetidos /\ UnSitio(p)
  BY DEF IInv, Orden, Ubicado
<1>4. EstaEn("largo", p)
  BY <1>1 DEF EstaEn, Colas
<1>5. ~ContienePcb("READY", p)
  BY <1>3, <1>4 DEF UnSitio, EstaEn, Sitios, Colas
<1>6. /\ ListasSinRepetidos'
      /\ \A f \in Colas, q \in Proc : ContienePcb(f, q)' <=> ContienePcb(f, q) \/ (f = "READY" /\ q = p)
  BY <1>2, <1>3, <1>5, EncolarLugares DEF Colas
<1>7. \A s \in Sitios, q \in Proc : EstaEn(s, q)' <=> IF q = p THEN s = "READY" ELSE EstaEn(s, q)
  <2>1. \A s \in Sitios : EstaEn(s, p) => s = "largo"
    BY <1>3, <1>4 DEF UnSitio, Sitios
  <2> QED BY <1>1, <1>2, <1>6, <2>1, NingunoAssumption DEF EstaEn, Sitios, Colas, Hilos
<1>8. \A q \in Proc : MismaIO(q)
  BY <1>2, <1>6 DEF MismaIO, EnColaIO, Durmiendo, Colas, Hilos
<1>9. Queda(p, "READY")
  BY <1>2, <1>7, <1>8 DEF Queda, Ajeno, MismoSitio, MismosRelojes, MismoPrograma, Hilos
<1>10. Conserva(p)
  BY <1>2, <1>8 DEF Conserva, MismosRelojes, MismoPrograma
<1> QED BY <1>2, <1>4, <1>6, <1>9, <1>10

\* What LargoConRespaldo says, from the accounting.
LEMMA NuevoDisponible ==
  ASSUME IInv, hilo["largo"] = "esperarGrado", cola["SUSPENDED_READY"] = << >>
  PROVE  cola["NEW"] # << >>
<1>1. sem["hayPcbs"] \in Nat /\ sem["transicionar"] \in Nat
  BY DEF IInv, TypeOK, Semaforos
<1>2. PorAdmitir > 0
  BY <1>1, PorAdmitirNat DEF IInv, AdmisionConRespaldo, Uno
<1>3. Len(cola["SUSPENDED_READY"]) = 0 /\ Len(cola["NEW"]) \in Nat
  BY ColasSonListas DEF IInv, Colas
<1>4. Len(cola["NEW"]) > 0
  BY <1>2, <1>3 DEF PorAdmitir
<1> QED BY <1>4

LEMMA LargoTomarNewEfecto ==
  ASSUME IInv, Orden, LargoTomarNew
  PROVE  /\ ListasSinRepetidos'
         /\ \E p \in Proc :
              /\ EstaEn("NEW", p)
              /\ Queda(p, "largo") /\ Conserva(p)
              /\ pcb'[p].estado = pcb[p].estado
              /\ p \in enMemoria' <=> p \in enMemoria
<1>1. /\ hilo["largo"] = "esperarGrado" /\ cola["SUSPENDED_READY"] = << >>
      /\ enMano["largo"] = Ninguno
  BY DEF LargoTomarNew, En, Orden, ManosLibres
<1>2. TypeOK /\ ListasSinRepetidos /\ cola["NEW"] # << >>
  BY <1>1, NuevoDisponible DEF IInv, Orden
<1>3. PICK p \in Proc : p = Head(cola["NEW"])
  BY <1>2, Desencolar DEF Colas
<1>4. /\ cola' = DesencolarPrimero("NEW")
      /\ enMano'["largo"] = p /\ \A t \in Hilos : t # "largo" => enMano'[t] = enMano[t]
      /\ \A t \in Hilos : t # "largo" => hilo'[t] = hilo[t]
      /\ UNCHANGED <<pcb, temporizador, cpu, enMemoria>>
  BY <1>3 DEF LargoTomarNew, Ir, pares, IInv, TypeOK, Hilos
<1>5. /\ ListasSinRepetidos' /\ ContienePcb("NEW", p)
      /\ \A f \in Colas, q \in Proc : ContienePcb(f, q)' <=> ContienePcb(f, q) /\ ~(f = "NEW" /\ q = p)
  BY <1>2, <1>3, <1>4, DesencolarLugares DEF Colas
<1>6. EstaEn("NEW", p)
  BY <1>5 DEF EstaEn, Colas
<1>7. \A s \in Sitios, q \in Proc : EstaEn(s, q)' <=> IF q = p THEN s = "largo" ELSE EstaEn(s, q)
  <2>1. \A s \in Sitios : EstaEn(s, p) => s = "NEW"
    BY <1>6 DEF Orden, Ubicado, UnSitio, Sitios, Colas
  <2> QED BY <1>1, <1>4, <1>5, <2>1, NingunoAssumption DEF EstaEn, Sitios, Colas, Hilos
<1>8. \A q \in Proc : MismaIO(q)
  BY <1>4, <1>5 DEF MismaIO, EnColaIO, Durmiendo, Colas, Hilos
<1>9. Queda(p, "largo")
  BY <1>4, <1>7, <1>8 DEF Queda, Ajeno, MismoSitio, MismosRelojes, MismoPrograma, Hilos
<1>10. Conserva(p)
  BY <1>4, <1>8 DEF Conserva, MismosRelojes, MismoPrograma
<1> QED BY <1>4, <1>5, <1>6, <1>9, <1>10

LEMMA LargoRechazarEfecto ==
  ASSUME IInv, Orden, LargoRechazar
  PROVE  /\ ListasSinRepetidos'
         /\ \E p \in Proc :
              /\ EstaEn("largo", p) /\ p \in Excesivos
              /\ Queda(p, "EXIT") /\ Conserva(p)
              /\ pcb'[p].estado = pcb[p].estado
              /\ p \in enMemoria' <=> p \in enMemoria
<1>1. PICK p \in Proc : p = enMano["largo"]
  BY DEF IInv, ManosOcupadas, LargoRechazar, En
<1>2. /\ p \in Excesivos
      /\ cola' = EncolarPcb("EXIT", p)
      /\ enMano'["largo"] = Ninguno /\ \A t \in Hilos : t # "largo" => enMano'[t] = enMano[t]
      /\ \A t \in Hilos : t # "largo" => hilo'[t] = hilo[t]
      /\ UNCHANGED <<pcb, temporizador, cpu, enMemoria>>
  BY <1>1 DEF LargoRechazar, Ir, IInv, TypeOK, Hilos, pares
<1>3. TypeOK /\ ListasSinRepetidos /\ UnSitio(p)
  BY DEF IInv, Orden, Ubicado
<1>4. EstaEn("largo", p)
  BY <1>1 DEF EstaEn, Colas
<1>5. ~ContienePcb("EXIT", p)
  BY <1>3, <1>4 DEF UnSitio, EstaEn, Sitios, Colas
<1>6. /\ ListasSinRepetidos'
      /\ \A f \in Colas, q \in Proc : ContienePcb(f, q)' <=> ContienePcb(f, q) \/ (f = "EXIT" /\ q = p)
  BY <1>2, <1>3, <1>5, EncolarLugares DEF Colas
<1>7. \A s \in Sitios, q \in Proc : EstaEn(s, q)' <=> IF q = p THEN s = "EXIT" ELSE EstaEn(s, q)
  <2>1. \A s \in Sitios : EstaEn(s, p) => s = "largo"
    BY <1>3, <1>4 DEF UnSitio, Sitios
  <2> QED BY <1>1, <1>2, <1>6, <2>1, NingunoAssumption DEF EstaEn, Sitios, Colas, Hilos
<1>8. \A q \in Proc : MismaIO(q)
  BY <1>2, <1>6 DEF MismaIO, EnColaIO, Durmiendo, Colas, Hilos
<1>9. Queda(p, "EXIT")
  BY <1>2, <1>7, <1>8 DEF Queda, Ajeno, MismoSitio, MismosRelojes, MismoPrograma, Hilos
<1>10. Conserva(p)
  BY <1>2, <1>8 DEF Conserva, MismosRelojes, MismoPrograma
<1> QED BY <1>2, <1>4, <1>6, <1>9, <1>10

LEMMA MedianoTomarSusreadyEfecto ==
  ASSUME IInv, Orden, MedianoTomarSusready
  PROVE  /\ ListasSinRepetidos'
         /\ \E p \in Proc :
              /\ EstaEn("SUSPENDED_READY", p)
              /\ Queda(p, "mediano") /\ Conserva(p)
              /\ pcb'[p].estado = "READY"
              /\ p \in enMemoria' <=> p \in enMemoria
<1>1. /\ hilo["mediano"] = "esperar" /\ cola["SUSPENDED_READY"] # << >>
      /\ enMano["mediano"] = Ninguno
  BY DEF MedianoTomarSusready, En, Orden, ManosLibres
<1>2. TypeOK /\ ListasSinRepetidos
  BY DEF IInv, Orden
<1>3. PICK p \in Proc : p = Head(cola["SUSPENDED_READY"])
  BY <1>1, <1>2, Desencolar DEF Colas
<1>4. /\ cola' = DesencolarPrimero("SUSPENDED_READY")
      /\ enMano'["mediano"] = p /\ \A t \in Hilos : t # "mediano" => enMano'[t] = enMano[t]
      /\ \A t \in Hilos : t # "mediano" => hilo'[t] = hilo[t]
      /\ pcb' = [pcb EXCEPT ![p].estado = "READY"] /\ pcb \in [Proc -> Pcb]
      /\ UNCHANGED <<temporizador, cpu, enMemoria>>
  BY <1>3 DEF MedianoTomarSusready, Ir, pares, IInv, TypeOK, Hilos
<1>5. /\ ListasSinRepetidos' /\ ContienePcb("SUSPENDED_READY", p)
      /\ \A f \in Colas, q \in Proc :
           ContienePcb(f, q)' <=> ContienePcb(f, q) /\ ~(f = "SUSPENDED_READY" /\ q = p)
  BY <1>1, <1>2, <1>3, <1>4, DesencolarLugares DEF Colas
<1>6. EstaEn("SUSPENDED_READY", p)
  BY <1>5 DEF EstaEn, Colas
<1>7. \A s \in Sitios, q \in Proc : EstaEn(s, q)' <=> IF q = p THEN s = "mediano" ELSE EstaEn(s, q)
  <2>1. \A s \in Sitios : EstaEn(s, p) => s = "SUSPENDED_READY"
    BY <1>6 DEF Orden, Ubicado, UnSitio, Sitios, Colas
  <2> QED BY <1>1, <1>4, <1>5, <2>1, NingunoAssumption DEF EstaEn, Sitios, Colas, Hilos
<1>8. \A q \in Proc : MismaIO(q)
  BY <1>4, <1>5 DEF MismaIO, EnColaIO, Durmiendo, Colas, Hilos
<1>9. /\ \A q \in Proc : q # p => pcb'[q] = pcb[q]
      /\ pcb'[p].estado = "READY"
      /\ pcb'[p].programCounter = pcb[p].programCounter
      /\ pcb'[p].vecesBloqueado = pcb[p].vecesBloqueado
  BY <1>4 DEF Pcb
<1>10. Queda(p, "mediano")
  BY <1>4, <1>7, <1>8, <1>9 DEF Queda, Ajeno, MismoSitio, MismosRelojes, MismoPrograma, Hilos
<1>11. Conserva(p)
  BY <1>4, <1>8, <1>9 DEF Conserva, MismosRelojes, MismoPrograma
<1> QED BY <1>4, <1>5, <1>6, <1>9, <1>10, <1>11

LEMMA MedianoEncolarReadyEfecto ==
  ASSUME IInv, Orden, MedianoEncolarReady
  PROVE  /\ ListasSinRepetidos'
         /\ \E p \in Proc :
              /\ EstaEn("mediano", p)
              /\ Queda(p, "READY") /\ Conserva(p)
              /\ pcb'[p].estado = pcb[p].estado
              /\ p \in enMemoria' <=> p \in enMemoria
<1>1. PICK p \in Proc : p = enMano["mediano"]
  BY DEF IInv, ManosOcupadas, MedianoEncolarReady, En
<1>2. /\ cola' = EncolarPcb("READY", p)
      /\ enMano'["mediano"] = Ninguno /\ \A t \in Hilos : t # "mediano" => enMano'[t] = enMano[t]
      /\ \A t \in Hilos : t # "mediano" => hilo'[t] = hilo[t]
      /\ UNCHANGED <<pcb, temporizador, cpu, enMemoria>>
  BY <1>1 DEF MedianoEncolarReady, Ir, IInv, TypeOK, Hilos, pares
<1>3. TypeOK /\ ListasSinRepetidos /\ UnSitio(p)
  BY DEF IInv, Orden, Ubicado
<1>4. EstaEn("mediano", p)
  BY <1>1 DEF EstaEn, Colas
<1>5. ~ContienePcb("READY", p)
  BY <1>3, <1>4 DEF UnSitio, EstaEn, Sitios, Colas
<1>6. /\ ListasSinRepetidos'
      /\ \A f \in Colas, q \in Proc : ContienePcb(f, q)' <=> ContienePcb(f, q) \/ (f = "READY" /\ q = p)
  BY <1>2, <1>3, <1>5, EncolarLugares DEF Colas
<1>7. \A s \in Sitios, q \in Proc : EstaEn(s, q)' <=> IF q = p THEN s = "READY" ELSE EstaEn(s, q)
  <2>1. \A s \in Sitios : EstaEn(s, p) => s = "mediano"
    BY <1>3, <1>4 DEF UnSitio, Sitios
  <2> QED BY <1>1, <1>2, <1>6, <2>1, NingunoAssumption DEF EstaEn, Sitios, Colas, Hilos
<1>8. \A q \in Proc : MismaIO(q)
  BY <1>2, <1>6 DEF MismaIO, EnColaIO, Durmiendo, Colas, Hilos
<1>9. Queda(p, "READY")
  BY <1>2, <1>7, <1>8 DEF Queda, Ajeno, MismoSitio, MismosRelojes, MismoPrograma, Hilos
<1>10. Conserva(p)
  BY <1>2, <1>8 DEF Conserva, MismosRelojes, MismoPrograma
<1> QED BY <1>2, <1>4, <1>6, <1>9, <1>10

LEMMA CortoDespacharEfecto ==
  ASSUME IInv, Orden, CortoDespachar
  PROVE  /\ ListasSinRepetidos'
         /\ \A q \in Proc : ~EstaEn("EXEC", q) /\ ~EstaEn("atender", q)
         /\ \E p \in Proc :
              /\ EstaEn("READY", p)
              /\ Queda(p, "EXEC") /\ Conserva(p)
              /\ pcb'[p].estado = pcb[p].estado
              /\ p \in enMemoria' <=> p \in enMemoria
<1>1. /\ ListasSinRepetidos' /\ hilo["atender"] = "esperar"
      /\ \A q \in Proc : ~ContienePcb("EXEC", q)
  BY DespacharLugares DEF Orden
<1>2. PICK p \in Proc :
        /\ ContienePcb("READY", p)
        /\ \A g \in Colas, q \in Proc :
             ContienePcb(g, q)' <=> IF q = p /\ g \in {"READY", "EXEC"} THEN g = "EXEC" ELSE ContienePcb(g, q)
  BY DespacharLugares DEF Orden
<1>3. /\ \A t \in Hilos : t # "corto" => hilo'[t] = hilo[t]
      /\ UNCHANGED <<enMano, pcb, temporizador, cpu, enMemoria>>
  BY DEF CortoDespachar, Ir, pares, IInv, TypeOK, Hilos
<1>4. \A q \in Proc : ~EstaEn("EXEC", q) /\ ~EstaEn("atender", q)
  BY <1>1, NingunoAssumption DEF EstaEn, Colas, Orden, ManosLibres
<1>5. EstaEn("READY", p)
  BY <1>2 DEF EstaEn, Colas
<1>6. \A s \in Sitios, q \in Proc : EstaEn(s, q)' <=> IF q = p THEN s = "EXEC" ELSE EstaEn(s, q)
  <2>1. \A s \in Sitios : EstaEn(s, p) => s = "READY"
    BY <1>5 DEF Orden, Ubicado, UnSitio, Sitios, Colas
  <2> QED BY <1>2, <1>3, <2>1 DEF EstaEn, Sitios, Colas, Hilos
<1>7. \A q \in Proc : MismaIO(q)
  BY <1>2, <1>3 DEF MismaIO, EnColaIO, Durmiendo, Colas, Hilos
<1>8. Queda(p, "EXEC")
  BY <1>3, <1>6, <1>7 DEF Queda, Ajeno, MismoSitio, MismosRelojes, MismoPrograma, Hilos
<1>9. Conserva(p)
  BY <1>3, <1>7 DEF Conserva, MismosRelojes, MismoPrograma
<1> QED BY <1>1, <1>3, <1>4, <1>5, <1>8, <1>9

\* The PCB __atender_pcb has is at its site once it left EXEC.
LEMMA ManoDeAtender ==
  ASSUME IInv, Orden, hilo["atender"] \notin {"esperar", "esperarCpu"}
  PROVE  \E p \in Proc :
           /\ p = enMano["atender"] /\ EstaEn("atender", p)
           /\ \A s \in Sitios : EstaEn(s, p) => s = "atender"
<1>1. PICK p \in Proc : p = enMano["atender"]
  BY DEF IInv, ManosOcupadas
<1>2. EstaEn("atender", p)
  BY <1>1 DEF EstaEn, Colas
<1>3. \A s \in Sitios : EstaEn(s, p) => s = "atender"
  BY <1>2 DEF Orden, Ubicado, UnSitio, Sitios
<1> QED BY <1>1, <1>2, <1>3

\* The CPU gets the PCB that EXEC has, which stays there.
LEMMA AtenderEnviarPcbEfecto ==
  ASSUME IInv, Orden, AtenderEnviarPcb
  PROVE  /\ ListasSinRepetidos'
         /\ \E p \in Proc :
              /\ EstaEn("EXEC", p)
              /\ Queda(p, "EXEC") /\ MismaIO(p) /\ MismosRelojes(p)
              /\ pcb'[p] = pcb[p]
              /\ cpu'.proc = p /\ cpu'.programCounter = pcb[p].programCounter /\ cpu'.respuesta = Ninguno
              /\ p \in enMemoria' <=> p \in enMemoria
<1>1. /\ hilo["atender"] = "esperar" /\ sem["EXEC"] > 0 /\ enMano["atender"] = Ninguno
      /\ sem["EXEC"] \in Nat /\ Len(cola["EXEC"]) \in Nat
  BY ColasSonListas DEF AtenderEnviarPcb, En, Orden, ManosLibres, IInv, TypeOK, Semaforos, Colas
<1>2. cola["EXEC"] # << >>
  BY <1>1 DEF IInv, ExecConRespaldo, Uno
<1>3. cola["EXEC"] \in Seq(Proc) /\ Len(cola["EXEC"]) > 0
  BY <1>2, EmptySeq, LenProperties DEF IInv, TypeOK, Colas
<1>4. PICK p \in Proc : p = Head(cola["EXEC"])
  BY <1>2, <1>3, HeadTailProperties
<1>5. EstaEn("EXEC", p)
  <2>1. 1 \in 1..Len(cola["EXEC"]) /\ cola["EXEC"][1] = p
    BY <1>1, <1>3, <1>4
  <2> QED BY <2>1 DEF EstaEn, ContienePcb, Colas
<1>6. /\ enMano'["atender"] = p /\ \A t \in Hilos : t # "atender" => enMano'[t] = enMano[t]
      /\ hilo'["atender"] = "esperarCpu" /\ \A t \in Hilos : t # "atender" => hilo'[t] = hilo[t]
      /\ cpu' = [cpu EXCEPT !.proc = p, !.programCounter = pcb[p].programCounter,
                            !.ultimoSuspendido = (ultimoPIDSuspendido = p)]
      /\ UNCHANGED <<cola, pcb, temporizador, enMemoria>>
  BY <1>4 DEF AtenderEnviarPcb, Ir, IInv, TypeOK, Hilos
<1>7. cpu \in EstadoCpu /\ cpu.respuesta = Ninguno
  BY <1>1 DEF IInv, TypeOK, CpuAlDia
<1>8. /\ cpu'.proc = p /\ cpu'.programCounter = pcb[p].programCounter /\ cpu'.respuesta = Ninguno
  BY <1>6, <1>7 DEF EstadoCpu
<1>9. \A s \in Sitios, q \in Proc : EstaEn(s, q)' <=> EstaEn(s, q)
  BY <1>1, <1>6, NingunoAssumption DEF EstaEn, ContienePcb, Sitios, Colas, Hilos
<1>10. \A s \in Sitios : EstaEn(s, p) <=> s = "EXEC"
  BY <1>5 DEF Orden, Ubicado, UnSitio, Sitios, Colas
<1>11. \A q \in Proc : MismaIO(q)
  BY <1>6 DEF MismaIO, EnColaIO, Durmiendo, ContienePcb, Colas, Hilos
<1>12. \A q \in Proc : ~EstaEn("atender", q)
  BY <1>1, NingunoAssumption DEF EstaEn, Colas
<1>13. Queda(p, "EXEC")
  BY <1>6, <1>8, <1>9, <1>10, <1>11, <1>12
     DEF Queda, Ajeno, MismoSitio, MismosRelojes, MismoPrograma
<1>14. ListasSinRepetidos'
  BY <1>6 DEF Orden, ListasSinRepetidos
<1>15. MismaIO(p) /\ MismosRelojes(p)
  BY <1>6, <1>11 DEF MismosRelojes
<1> QED BY <1>5, <1>6, <1>8, <1>13, <1>14, <1>15

\* What the CPU answered tells where __atender_pcb takes the PCB.
LEMMA AtenderRecibirPcbEfecto ==
  ASSUME IInv, Orden, AtenderRecibirPcb
  PROVE  /\ ListasSinRepetidos'
         /\ \E p \in Proc :
              /\ EstaEn("EXEC", p) /\ cpu.proc = p
              /\ Queda(p, "atender") /\ MismaIO(p) /\ MismosRelojes(p)
              /\ pcb'[p].estado = pcb[p].estado
              /\ pcb'[p].programCounter = cpu.programCounter
              /\ cpu'.proc = Ninguno /\ cpu.respuesta \in {"desalojado", "terminado", "bloqueado"}
              /\ hilo'["atender"] = Tramo(cpu.respuesta)
              /\ p \in enMemoria' <=> p \in enMemoria
<1>1. PICK p \in Proc : p = enMano["atender"]
  BY DEF IInv, ManosOcupadas, AtenderRecibirPcb, En
<1>2. /\ hilo["atender"] = "esperarCpu" /\ cpu.proc = p /\ cola["EXEC"] = <<p>>
      /\ cpu.respuesta \in {"desalojado", "terminado", "bloqueado"}
  BY <1>1, CpuResponde, NingunoAssumption DEF AtenderRecibirPcb, En, IInv, CpuAlDia
<1>3. TypeOK /\ ListasSinRepetidos /\ cola["EXEC"] # << >> /\ p = Head(cola["EXEC"])
  BY <1>2 DEF IInv, Orden
<1>4. /\ cola' = DesencolarPrimero("EXEC")
      /\ hilo'["atender"] = Tramo(cpu.respuesta) /\ \A t \in Hilos : t # "atender" => hilo'[t] = hilo[t]
      /\ UNCHANGED <<enMano, temporizador, enMemoria>>
  BY DEF AtenderRecibirPcb, Ir, IInv, TypeOK, Hilos
<1>5. /\ pcb'[p].estado = pcb[p].estado
      /\ pcb'[p].programCounter = cpu.programCounter
      /\ pcb'[p].vecesBloqueado = pcb[p].vecesBloqueado
      /\ \A q \in Proc : q # p => pcb'[q] = pcb[q]
  BY <1>1 DEF AtenderRecibirPcb, IInv, TypeOK, Pcb
<1>6. cpu'.proc = Ninguno
  BY DEF AtenderRecibirPcb, IInv, TypeOK, EstadoCpu
<1>7. /\ ListasSinRepetidos' /\ ContienePcb("EXEC", p)
      /\ \A f \in Colas, q \in Proc : ContienePcb(f, q)' <=> ContienePcb(f, q) /\ ~(f = "EXEC" /\ q = p)
  BY <1>3, <1>4, DesencolarLugares DEF Colas
<1>8. EstaEn("EXEC", p)
  BY <1>7 DEF EstaEn, Colas
<1>9. hilo'["atender"] # "esperarCpu"
  BY <1>2, <1>4 DEF Tramo
<1>10. \A s \in Sitios, q \in Proc : EstaEn(s, q)' <=> IF q = p THEN s = "atender" ELSE EstaEn(s, q)
  <2>1. \A s \in Sitios : EstaEn(s, p) => s = "EXEC"
    BY <1>8 DEF Orden, Ubicado, UnSitio, Sitios, Colas
  <2> QED BY <1>1, <1>2, <1>4, <1>7, <1>9, <2>1 DEF EstaEn, Sitios, Colas, Hilos
<1>11. \A q \in Proc : MismaIO(q)
  BY <1>4, <1>7 DEF MismaIO, EnColaIO, Durmiendo, Colas, Hilos
<1>12. \A q \in Proc : ~EstaEn("atender", q)
  BY <1>2 DEF EstaEn, Colas
<1>13. Queda(p, "atender")
  BY <1>4, <1>5, <1>6, <1>10, <1>11, <1>12, NingunoAssumption
     DEF Queda, Ajeno, MismoSitio, MismosRelojes, MismoPrograma
<1>14. MismaIO(p) /\ MismosRelojes(p)
  BY <1>4, <1>5, <1>11 DEF MismosRelojes
<1> QED BY <1>2, <1>4, <1>5, <1>6, <1>7, <1>8, <1>13, <1>14

LEMMA AtenderDesalojadoEfecto ==
  ASSUME IInv, Orden, AtenderDesalojado
  PROVE  /\ ListasSinRepetidos'
         /\ \E p \in Proc :
              /\ EstaEn("atender", p)
              /\ Queda(p, "READY") /\ Conserva(p)
              /\ pcb'[p].estado = "READY"
              /\ p \in enMemoria' <=> p \in enMemoria
<1>1. hilo["atender"] = "devolverReady" /\ TypeOK /\ ListasSinRepetidos
  BY DEF AtenderDesalojado, En, IInv, Orden
<1>2. PICK p \in Proc : /\ p = enMano["atender"] /\ EstaEn("atender", p)
                        /\ \A s \in Sitios : EstaEn(s, p) => s = "atender"
  BY <1>1, ManoDeAtender
<1>3. /\ cola' = EncolarPcb("READY", p)
      /\ enMano'["atender"] = Ninguno /\ \A t \in Hilos : t # "atender" => enMano'[t] = enMano[t]
      /\ \A t \in Hilos : t # "atender" => hilo'[t] = hilo[t]
      /\ UNCHANGED <<temporizador, cpu, enMemoria>>
  BY <1>2 DEF AtenderDesalojado, Ir, IInv, TypeOK, Hilos, pares
<1>4. /\ \A q \in Proc : q # p => pcb'[q] = pcb[q]
      /\ pcb'[p].estado = "READY"
      /\ pcb'[p].programCounter = pcb[p].programCounter
      /\ pcb'[p].vecesBloqueado = pcb[p].vecesBloqueado
  BY <1>2 DEF AtenderDesalojado, IInv, TypeOK, Pcb
<1>5. ~ContienePcb("READY", p)
  BY <1>2 DEF EstaEn, Sitios, Colas
<1>6. /\ ListasSinRepetidos'
      /\ \A f \in Colas, q \in Proc : ContienePcb(f, q)' <=> ContienePcb(f, q) \/ (f = "READY" /\ q = p)
  BY <1>1, <1>3, <1>5, EncolarLugares DEF Colas
<1>7. \A s \in Sitios, q \in Proc : EstaEn(s, q)' <=> IF q = p THEN s = "READY" ELSE EstaEn(s, q)
  BY <1>2, <1>3, <1>6, NingunoAssumption DEF EstaEn, Sitios, Colas, Hilos
<1>8. \A q \in Proc : MismaIO(q)
  BY <1>3, <1>6 DEF MismaIO, EnColaIO, Durmiendo, Colas, Hilos
<1>9. \A q \in Proc : EstaEn("atender", q) => q = p
  BY <1>2 DEF EstaEn, Colas
<1>10. Queda(p, "READY")
  BY <1>3, <1>4, <1>7, <1>8, <1>9 DEF Queda, Ajeno, MismoSitio, MismosRelojes, MismoPrograma
<1>11. Conserva(p)
  BY <1>3, <1>4, <1>8 DEF Conserva, MismosRelojes, MismoPrograma
<1> QED BY <1>2, <1>3, <1>4, <1>6, <1>10, <1>11

LEMMA AtenderTerminadoEfecto ==
  ASSUME IInv, Orden, AtenderTerminado
  PROVE  /\ ListasSinRepetidos'
         /\ \E p \in Proc :
              /\ EstaEn("atender", p)
              /\ Queda(p, "EXIT") /\ Conserva(p)
              /\ pcb'[p].estado = "EXIT"
              /\ p \in enMemoria' <=> p \in enMemoria
<1>1. hilo["atender"] = "encolarExit" /\ TypeOK /\ ListasSinRepetidos
  BY DEF AtenderTerminado, En, IInv, Orden
<1>2. PICK p \in Proc : /\ p = enMano["atender"] /\ EstaEn("atender", p)
                        /\ \A s \in Sitios : EstaEn(s, p) => s = "atender"
  BY <1>1, ManoDeAtender
<1>3. /\ cola' = EncolarPcb("EXIT", p)
      /\ enMano'["atender"] = Ninguno /\ \A t \in Hilos : t # "atender" => enMano'[t] = enMano[t]
      /\ \A t \in Hilos : t # "atender" => hilo'[t] = hilo[t]
      /\ UNCHANGED <<temporizador, cpu, enMemoria>>
  BY <1>2 DEF AtenderTerminado, Ir, IInv, TypeOK, Hilos, pares
<1>4. /\ \A q \in Proc : q # p => pcb'[q] = pcb[q]
      /\ pcb'[p].estado = "EXIT"
      /\ pcb'[p].programCounter = pcb[p].programCounter
      /\ pcb'[p].vecesBloqueado = pcb[p].vecesBloqueado
  BY <1>2 DEF AtenderTerminado, IInv, TypeOK, Pcb
<1>5. ~ContienePcb("EXIT", p)
  BY <1>2 DEF EstaEn, Sitios, Colas
<1>6. /\ ListasSinRepetidos'
      /\ \A f \in Colas, q \in Proc : ContienePcb(f, q)' <=> ContienePcb(f, q) \/ (f = "EXIT" /\ q = p)
  BY <1>1, <1>3, <1>5, EncolarLugares DEF Colas
<1>7. \A s \in Sitios, q \in Proc : EstaEn(s, q)' <=> IF q = p THEN s = "EXIT" ELSE EstaEn(s, q)
  BY <1>2, <1>3, <1>6, NingunoAssumption DEF EstaEn, Sitios, Colas, Hilos
<1>8. \A q \in Proc : MismaIO(q)
  BY <1>3, <1>6 DEF MismaIO, EnColaIO, Durmiendo, Colas, Hilos
<1>9. \A q \in Proc : EstaEn("atender", q) => q = p
  BY <1>2 DEF EstaEn, Colas
<1>10. Queda(p, "EXIT")
  BY <1>3, <1>4, <1>7, <1>8, <1>9 DEF Queda, Ajeno, MismoSitio, MismosRelojes, MismoPrograma
<1>11. Conserva(p)
  BY <1>3, <1>4, <1>8 DEF Conserva, MismosRelojes, MismoPrograma
<1> QED BY <1>2, <1>3, <1>4, <1>6, <1>10, <1>11

\* From here on the I/O device has the PCB besides __atender_pcb.
LEMMA AtenderEncolarIOEfecto ==
  ASSUME IInv, Orden, AtenderEncolarIO
  PROVE  /\ ListasSinRepetidos'
         /\ hilo["atender"] = "encolarIO" /\ hilo'["atender"] = "marcarBlocked"
         /\ \E p \in Proc :
              /\ EstaEn("atender", p) /\ ~EnBloqueo(p)
              /\ Queda(p, "atender") /\ MismosRelojes(p) /\ MismoPrograma(p)
              /\ EnColaIO(p)' /\ ~Durmiendo(p)'
              /\ pcb'[p].estado = pcb[p].estado
              /\ p \in enMemoria' <=> p \in enMemoria
<1>1. hilo["atender"] = "encolarIO" /\ TypeOK /\ ListasSinRepetidos
  BY DEF AtenderEncolarIO, En, IInv, Orden
<1>2. PICK p \in Proc : /\ p = enMano["atender"] /\ EstaEn("atender", p)
                        /\ \A s \in Sitios : EstaEn(s, p) => s = "atender"
  BY <1>1, ManoDeAtender
<1>3. ~EnBloqueo(p)
  BY <1>1, <1>2 DEF Orden, Ubicado, BloqueoAlDia, EstadoAlDia, EstadosDe, Sitios, Colas
<1>4. /\ cola' = EncolarPcb("IO", p)
      /\ hilo'["atender"] = "marcarBlocked" /\ \A t \in Hilos : t # "atender" => hilo'[t] = hilo[t]
      /\ UNCHANGED <<enMano, temporizador, cpu, enMemoria>>
  BY <1>2 DEF AtenderEncolarIO, Ir, IInv, TypeOK, Hilos, pares
<1>5. /\ \A q \in Proc : q # p => pcb'[q] = pcb[q]
      /\ pcb'[p].estado = pcb[p].estado
      /\ pcb'[p].programCounter = pcb[p].programCounter
      /\ pcb'[p].vecesBloqueado = pcb[p].vecesBloqueado
  BY <1>2 DEF AtenderEncolarIO, IInv, TypeOK, Pcb
<1>6. ~ContienePcb("IO", p)
  BY <1>3 DEF EnBloqueo, EnColaIO
<1>7. /\ ListasSinRepetidos'
      /\ \A f \in Colas, q \in Proc : ContienePcb(f, q)' <=> ContienePcb(f, q) \/ (f = "IO" /\ q = p)
  BY <1>1, <1>4, <1>6, EncolarLugares DEF Colas
<1>8. \A s \in Sitios, q \in Proc : EstaEn(s, q)' <=> EstaEn(s, q)
  BY <1>1, <1>4, <1>7 DEF EstaEn, Sitios, Colas, Hilos
<1>9. \A q \in Proc : q # p => MismaIO(q)
  BY <1>4, <1>7 DEF MismaIO, EnColaIO, Durmiendo, Colas, Hilos
<1>10. EnColaIO(p)' /\ ~Durmiendo(p)'
  BY <1>3, <1>4, <1>7 DEF EnColaIO, Durmiendo, EnBloqueo, Colas, Hilos
<1>11. \A q \in Proc : EstaEn("atender", q) => q = p
  BY <1>2 DEF EstaEn, Colas
<1>12. Queda(p, "atender")
  BY <1>2, <1>4, <1>5, <1>8, <1>9, <1>11 DEF Queda, Ajeno, MismoSitio, MismosRelojes, MismoPrograma
<1>13. MismosRelojes(p) /\ MismoPrograma(p)
  BY <1>4, <1>5 DEF MismosRelojes, MismoPrograma
<1> QED BY <1>1, <1>2, <1>3, <1>4, <1>5, <1>7, <1>10, <1>12, <1>13

LEMMA AtenderMarcarBlockedEfecto ==
  ASSUME IInv, Orden, AtenderMarcarBlocked
  PROVE  /\ ListasSinRepetidos'
         /\ hilo["atender"] = "marcarBlocked" /\ hilo'["atender"] = "encolarBlocked"
         /\ \E p \in Proc :
              /\ EstaEn("atender", p)
              /\ Queda(p, "atender") /\ Conserva(p)
              /\ pcb'[p].estado = "BLOCKED"
              /\ p \in enMemoria' <=> p \in enMemoria
<1>1. hilo["atender"] = "marcarBlocked" /\ TypeOK /\ ListasSinRepetidos
  BY DEF AtenderMarcarBlocked, En, IInv, Orden
<1>2. PICK p \in Proc : /\ p = enMano["atender"] /\ EstaEn("atender", p)
                        /\ \A s \in Sitios : EstaEn(s, p) => s = "atender"
  BY <1>1, ManoDeAtender
<1>3. /\ hilo'["atender"] = "encolarBlocked" /\ \A t \in Hilos : t # "atender" => hilo'[t] = hilo[t]
      /\ UNCHANGED <<cola, enMano, temporizador, cpu, enMemoria>>
  BY <1>2 DEF AtenderMarcarBlocked, Ir, IInv, TypeOK, Hilos, pares
<1>4. /\ \A q \in Proc : q # p => pcb'[q] = pcb[q]
      /\ pcb'[p].estado = "BLOCKED"
      /\ pcb'[p].programCounter = pcb[p].programCounter
      /\ pcb'[p].vecesBloqueado = pcb[p].vecesBloqueado
  BY <1>2 DEF AtenderMarcarBlocked, IInv, TypeOK, Pcb
<1>5. ListasSinRepetidos'
  BY <1>1, <1>3 DEF ListasSinRepetidos
<1>6. \A s \in Sitios, q \in Proc : EstaEn(s, q)' <=> EstaEn(s, q)
  BY <1>1, <1>3 DEF EstaEn, ContienePcb, Sitios, Colas, Hilos
<1>7. \A q \in Proc : MismaIO(q)
  BY <1>3 DEF MismaIO, EnColaIO, Durmiendo, ContienePcb, Colas, Hilos
<1>8. \A q \in Proc : EstaEn("atender", q) => q = p
  BY <1>2 DEF EstaEn, Colas
<1>9. Queda(p, "atender")
  BY <1>2, <1>3, <1>4, <1>6, <1>7, <1>8 DEF Queda, Ajeno, MismoSitio, MismosRelojes, MismoPrograma
<1>10. Conserva(p)
  BY <1>3, <1>4, <1>7 DEF Conserva, MismosRelojes, MismoPrograma
<1> QED BY <1>1, <1>2, <1>3, <1>4, <1>5, <1>9, <1>10

\* The block begins for the lists, and its timer is created.
LEMMA AtenderEncolarBlockedEfecto ==
  ASSUME IInv, Orden, AtenderEncolarBlocked
  PROVE  /\ ListasSinRepetidos'
         /\ hilo["atender"] = "encolarBlocked"
         /\ \E p \in Proc :
              /\ EstaEn("atender", p)
              /\ Queda(p, "BLOCKED") /\ MismaIO(p) /\ MismoPrograma(p)
              /\ pcb'[p].estado = pcb[p].estado /\ pcb'[p].vecesBloqueado = pcb[p].vecesBloqueado
              /\ pcb[p].programCounter \in 1..Len(Programa[p])
              /\ temporizador[<<p, pcb[p].programCounter>>].en = "noCreado"
              /\ temporizador'[<<p, pcb[p].programCounter>>].en = "inicio"
              /\ \A k \in 1..Len(Programa[p]) :
                   k # pcb[p].programCounter => temporizador'[<<p, k>>] = temporizador[<<p, k>>]
              /\ p \in enMemoria' <=> p \in enMemoria
<1>1. hilo["atender"] = "encolarBlocked" /\ TypeOK /\ ListasSinRepetidos
  BY DEF AtenderEncolarBlocked, En, IInv, Orden
<1>2. PICK p \in Proc : /\ p = enMano["atender"] /\ EstaEn("atender", p)
                        /\ \A s \in Sitios : EstaEn(s, p) => s = "atender"
  BY <1>1, ManoDeAtender
<1>3. pcb[p].programCounter \in Nat /\ Len(Programa[p]) \in Nat
  BY ProgramaAssumption, LenProperties DEF IInv, TypeOK, Pcb
<1>4. pcb[p].programCounter \in 1..Len(Programa[p])
  BY <1>2, <1>3 DEF Orden, Ubicado, ProgramaAlDia
<1>5. temporizador[<<p, pcb[p].programCounter>>].en = "noCreado"
  BY <1>2, <1>3, <1>4 DEF Orden, Ubicado, RelojesAlDia
<1>6. PICK k \in 1..Len(Programa[p]) : k = pcb[p].programCounter
  BY <1>4
<1>7. /\ cola' = EncolarPcb("BLOCKED", p)
      /\ enMano'["atender"] = Ninguno /\ \A t \in Hilos : t # "atender" => enMano'[t] = enMano[t]
      /\ \A t \in Hilos : t # "atender" => hilo'[t] = hilo[t]
      /\ temporizador' = [temporizador EXCEPT ![<<p, k>>].en = "inicio"]
      /\ UNCHANGED <<pcb, cpu, enMemoria>>
  BY <1>2, <1>6 DEF AtenderEncolarBlocked, Ir, IInv, TypeOK, Hilos, pares
<1>8. /\ <<p, k>> \in Temporizadores
      /\ temporizador'[<<p, k>>].en = "inicio"
      /\ \A t \in Temporizadores : t # <<p, k>> => temporizador'[t] = temporizador[t]
  <2>1. <<p, k>> \in Temporizadores
    BY <1>6 DEF Temporizadores
  <2> QED BY <2>1, <1>7 DEF IInv, TypeOK, Reloj
<1>9. /\ \A q \in Proc : q # p => MismosRelojes(q)
      /\ \A j \in 1..Len(Programa[p]) : j # k => temporizador'[<<p, j>>] = temporizador[<<p, j>>]
  BY <1>7, <1>8 DEF MismosRelojes, Temporizadores
<1>10. ~ContienePcb("BLOCKED", p)
  BY <1>2 DEF EstaEn, Sitios, Colas
<1>11. /\ ListasSinRepetidos'
       /\ \A f \in Colas, q \in Proc : ContienePcb(f, q)' <=> ContienePcb(f, q) \/ (f = "BLOCKED" /\ q = p)
  BY <1>1, <1>7, <1>10, EncolarLugares DEF Colas
<1>12. \A s \in Sitios, q \in Proc : EstaEn(s, q)' <=> IF q = p THEN s = "BLOCKED" ELSE EstaEn(s, q)
  BY <1>2, <1>7, <1>11, NingunoAssumption DEF EstaEn, Sitios, Colas, Hilos
<1>13. \A q \in Proc : MismaIO(q)
  BY <1>7, <1>11 DEF MismaIO, EnColaIO, Durmiendo, Colas, Hilos
<1>14. \A q \in Proc : EstaEn("atender", q) => q = p
  BY <1>2 DEF EstaEn, Colas
<1>15. Queda(p, "BLOCKED")
  BY <1>7, <1>9, <1>12, <1>13, <1>14 DEF Queda, Ajeno, MismoSitio, MismoPrograma
<1>16. MismaIO(p) /\ MismoPrograma(p)
  BY <1>7, <1>13 DEF MismoPrograma
<1> QED BY <1>1, <1>2, <1>4, <1>5, <1>6, <1>7, <1>8, <1>9, <1>11, <1>15, <1>16

\* The device takes the first PCB of its queue, wherever the lists have it.
LEMMA IOIniciarEfecto ==
  ASSUME IInv, Orden, IOIniciar
  PROVE  /\ ListasSinRepetidos'
         /\ \E p \in Proc :
              /\ \A q \in Proc : q # p => Ajeno(q)
              /\ MismoSitio(p) /\ MismosRelojes(p) /\ MismoPrograma(p)
              /\ EnColaIO(p) /\ ~EnColaIO(p)' /\ Durmiendo(p)'
              /\ pcb'[p].estado = pcb[p].estado
              /\ p \in enMemoria' <=> p \in enMemoria
<1>1. /\ hilo["io"] = "esperar" /\ sem["IO"] > 0 /\ TypeOK /\ ListasSinRepetidos
      /\ sem["IO"] \in Nat /\ Len(cola["IO"]) = sem["IO"]
  BY DEF IOIniciar, En, IInv, TypeOK, Semaforos, IOyExitConRespaldo, Orden
<1>2. cola["IO"] # << >>
  BY <1>1
<1>3. PICK p \in Proc : p = Head(cola["IO"])
  BY <1>1, <1>2, Desencolar DEF Colas
<1>4. /\ cola' = DesencolarPrimero("IO")
      /\ enMano'["io"] = p /\ \A t \in Hilos : t # "io" => enMano'[t] = enMano[t]
      /\ hilo'["io"] = "dormir" /\ \A t \in Hilos : t # "io" => hilo'[t] = hilo[t]
      /\ UNCHANGED <<temporizador, cpu, enMemoria>>
  BY <1>3 DEF IOIniciar, Ir, IInv, TypeOK, Hilos, pares
<1>5. /\ pcb'[p].estado = pcb[p].estado
      /\ pcb'[p].programCounter = pcb[p].programCounter
      /\ pcb'[p].vecesBloqueado = pcb[p].vecesBloqueado
      /\ \A q \in Proc : q # p => pcb'[q] = pcb[q]
  BY <1>3 DEF IOIniciar, TestAndSetTiempoFinal, IInv, TypeOK, Pcb
<1>6. /\ ListasSinRepetidos' /\ ContienePcb("IO", p)
      /\ \A f \in Colas, q \in Proc : ContienePcb(f, q)' <=> ContienePcb(f, q) /\ ~(f = "IO" /\ q = p)
  BY <1>1, <1>2, <1>3, <1>4, DesencolarLugares DEF Colas
<1>7. \A s \in Sitios, q \in Proc : EstaEn(s, q)' <=> EstaEn(s, q)
  BY <1>4, <1>6 DEF EstaEn, Sitios, Colas, Hilos
<1>8. \A q \in Proc : q # p => MismaIO(q)
  BY <1>1, <1>4, <1>6 DEF MismaIO, EnColaIO, Durmiendo, Colas
<1>9. EnColaIO(p) /\ ~EnColaIO(p)' /\ Durmiendo(p)'
  BY <1>4, <1>6 DEF EnColaIO, Durmiendo, Colas
<1>10. \A q \in Proc : MismoSitio(q)
  BY <1>4, <1>7 DEF MismoSitio, Hilos
<1>11. \A q \in Proc : MismosRelojes(q) /\ MismoPrograma(q)
  BY <1>4, <1>5 DEF MismosRelojes, MismoPrograma
<1>12. \A q \in Proc : q # p => Ajeno(q)
  BY <1>4, <1>5, <1>8, <1>10, <1>11 DEF Ajeno
<1> QED BY <1>4, <1>5, <1>6, <1>9, <1>10, <1>11, <1>12

\* No sleep ends in the middle of a stretch of code that moves a PCB.
LEMMA TramosTerminados ==
  ASSUME Puntual, PuedeDespertar
  PROVE  /\ hilo["atender"] \notin {"marcarBlocked", "encolarBlocked"}
         /\ \A p \in Proc : \A k \in 1..Len(Programa[p]) :
              temporizador[<<p, k>>].en \notin {"inicio", "remover", "marcarFinal", "suspender"}
<1>1. \A p \in Proc : \A k \in 1..Len(Programa[p]) : <<p, k>> \in Temporizadores
  BY DEF Temporizadores
<1> QED BY <1>1 DEF PuedeDespertar, SinTramosEnCurso

\* The burst ends before the process is suspended: the device returns it to READY.
LEMMA IOVolverAReadyEfecto ==
  ASSUME IInv, Orden, Puntual, IOVolverAReady
  PROVE  /\ ListasSinRepetidos'
         /\ \E p \in Proc :
              /\ pcb[p].estado = "BLOCKED"
              /\ ~EstaEn("atender", p)
              /\ \A k \in 1..Len(Programa[p]) :
                   temporizador[<<p, k>>].en \notin {"inicio", "remover", "marcarFinal", "suspender"}
              /\ Queda(p, "READY") /\ MismosRelojes(p) /\ MismoPrograma(p)
              /\ ~EnColaIO(p)' /\ ~Durmiendo(p)'
              /\ pcb'[p].estado = "READY"
              /\ p \in enMemoria' <=> p \in enMemoria
<1>1. /\ hilo["io"] = "dormir" /\ TypeOK /\ ListasSinRepetidos /\ PuedeDespertar
  BY DEF IOVolverAReady, En, IInv, Orden
<1>2. PICK p \in Proc : p = enMano["io"]
  BY <1>1 DEF IInv, ManosOcupadas
<1>3. /\ cola' = MoverPcb("BLOCKED", "READY", p) /\ pcb[p].estado = "BLOCKED"
      /\ hilo'["io"] = "avisarReady" /\ \A t \in Hilos : t # "io" => hilo'[t] = hilo[t]
      /\ UNCHANGED <<enMano, temporizador, cpu, enMemoria>>
  BY <1>2 DEF IOVolverAReady, Ir, IInv, TypeOK, Hilos, pares
<1>4. /\ \A q \in Proc : q # p => pcb'[q] = pcb[q]
      /\ pcb'[p].estado = "READY"
      /\ pcb'[p].programCounter = pcb[p].programCounter
      /\ pcb'[p].vecesBloqueado = pcb[p].vecesBloqueado
  BY <1>2 DEF IOVolverAReady, IInv, TypeOK, Pcb
<1>5. /\ hilo["atender"] # "encolarBlocked"
      /\ \A k \in 1..Len(Programa[p]) :
           temporizador[<<p, k>>].en \notin {"inicio", "remover", "marcarFinal", "suspender"}
  BY <1>1, TramosTerminados
<1>6. \A s \in Sitios : EstaEn(s, p) => s = "BLOCKED"
  BY <1>3, <1>5 DEF Orden, Ubicado, EstadoAlDia, EstadosDe, Sitios, Colas
<1>7. ~ContienePcb("READY", p)
  BY <1>6 DEF EstaEn, Sitios, Colas
<1>8. /\ ListasSinRepetidos'
      /\ \A g \in Colas, q \in Proc :
           ContienePcb(g, q)' <=> IF q = p /\ g \in {"BLOCKED", "READY"} THEN g = "READY" ELSE ContienePcb(g, q)
  BY <1>1, <1>3, <1>7, MoverLugares DEF Colas
<1>9. \A s \in Sitios, q \in Proc : EstaEn(s, q)' <=> IF q = p THEN s = "READY" ELSE EstaEn(s, q)
  BY <1>3, <1>6, <1>8 DEF EstaEn, Sitios, Colas, Hilos
<1>10. \A q \in Proc : q # p => MismaIO(q)
  BY <1>2, <1>3, <1>8 DEF MismaIO, EnColaIO, Durmiendo, Colas
<1>11. ~EnColaIO(p)' /\ ~Durmiendo(p)'
  <2>1. Durmiendo(p) /\ ~EnColaIO(p)
    BY <1>1, <1>2 DEF Durmiendo, Orden, Ubicado, BloqueoAlDia
  <2> QED BY <2>1, <1>3, <1>8 DEF EnColaIO, Durmiendo, Colas
<1>12. Queda(p, "READY")
  BY <1>3, <1>4, <1>9, <1>10 DEF Queda, Ajeno, MismoSitio, MismosRelojes, MismoPrograma, Hilos
<1>13. MismosRelojes(p) /\ MismoPrograma(p) /\ ~EstaEn("atender", p)
  BY <1>3, <1>4, <1>6 DEF MismosRelojes, MismoPrograma, Sitios
<1> QED BY <1>3, <1>4, <1>5, <1>8, <1>11, <1>12, <1>13

\* It ends after: the process waits for its turn to come back.
LEMMA IOVolverASusreadyEfecto ==
  ASSUME IInv, Orden, IOVolverASusready
  PROVE  /\ ListasSinRepetidos'
         /\ \E p \in Proc :
              /\ pcb[p].estado = "SUSPENDED_BLOCKED" /\ EstaEn("SUSPENDED_BLOCKED", p)
              /\ Queda(p, "SUSPENDED_READY") /\ MismosRelojes(p) /\ MismoPrograma(p)
              /\ ~EnColaIO(p)' /\ ~Durmiendo(p)'
              /\ pcb'[p].estado = "SUSPENDED_READY"
              /\ p \in enMemoria' <=> p \in enMemoria
<1>1. /\ hilo["io"] = "dormir" /\ TypeOK /\ ListasSinRepetidos
  BY DEF IOVolverASusready, En, IInv, Orden
<1>2. PICK p \in Proc : p = enMano["io"]
  BY <1>1 DEF IInv, ManosOcupadas
<1>3. /\ cola' = MoverPcb("SUSPENDED_BLOCKED", "SUSPENDED_READY", p)
      /\ pcb[p].estado = "SUSPENDED_BLOCKED"
      /\ hilo'["io"] = "avisarLargo" /\ \A t \in Hilos : t # "io" => hilo'[t] = hilo[t]
      /\ UNCHANGED <<enMano, temporizador, cpu, enMemoria>>
  BY <1>2 DEF IOVolverASusready, Ir, IInv, TypeOK, Hilos, pares
<1>4. /\ \A q \in Proc : q # p => pcb'[q] = pcb[q]
      /\ pcb'[p].estado = "SUSPENDED_READY"
      /\ pcb'[p].programCounter = pcb[p].programCounter
      /\ pcb'[p].vecesBloqueado = pcb[p].vecesBloqueado
  BY <1>2 DEF IOVolverASusready, IInv, TypeOK, Pcb
<1>5. \A s \in Sitios : EstaEn(s, p) <=> s = "SUSPENDED_BLOCKED"
  <2>1. EstadoAlDia(p)
    BY DEF Orden, Ubicado
  <2>2. \A s \in Sitios : EstaEn(s, p) => s = "SUSPENDED_BLOCKED"
    BY <1>3, <2>1 DEF EstadoAlDia, EstadosDe, Sitios, Colas
  <2>3. \E s \in Sitios : EstaEn(s, p)
    BY <1>3, <2>1 DEF EstadoAlDia, SinSitio
  <2> QED BY <2>2, <2>3
<1>6. ~ContienePcb("SUSPENDED_READY", p) /\ EstaEn("SUSPENDED_BLOCKED", p)
  BY <1>5 DEF EstaEn, Sitios, Colas
<1>7. /\ ListasSinRepetidos'
      /\ \A g \in Colas, q \in Proc :
           ContienePcb(g, q)' <=> IF q = p /\ g \in {"SUSPENDED_BLOCKED", "SUSPENDED_READY"}
                                  THEN g = "SUSPENDED_READY" ELSE ContienePcb(g, q)
  BY <1>1, <1>3, <1>6, MoverLugares DEF Colas
<1>8. \A s \in Sitios, q \in Proc :
        EstaEn(s, q)' <=> IF q = p THEN s = "SUSPENDED_READY" ELSE EstaEn(s, q)
  BY <1>3, <1>5, <1>7 DEF EstaEn, Sitios, Colas, Hilos
<1>9. \A q \in Proc : q # p => MismaIO(q)
  BY <1>2, <1>3, <1>7 DEF MismaIO, EnColaIO, Durmiendo, Colas
<1>10. ~EnColaIO(p)' /\ ~Durmiendo(p)'
  <2>1. Durmiendo(p) /\ ~EnColaIO(p)
    BY <1>1, <1>2 DEF Durmiendo, Orden, Ubicado, BloqueoAlDia
  <2> QED BY <2>1, <1>3, <1>7 DEF EnColaIO, Durmiendo, Colas
<1>11. Queda(p, "SUSPENDED_READY")
  BY <1>3, <1>4, <1>8, <1>9 DEF Queda, Ajeno, MismoSitio, MismosRelojes, MismoPrograma, Hilos
<1>12. MismosRelojes(p) /\ MismoPrograma(p)
  BY <1>3, <1>4 DEF MismosRelojes, MismoPrograma
<1> QED BY <1>3, <1>4, <1>6, <1>7, <1>10, <1>11, <1>12

\* The device never finds its PCB in another state: it drops none.
LEMMA NadaQueDescartar ==
  ASSUME IInv, Orden, Puntual
  PROVE  ~IODescartar
<1> SUFFICES ASSUME IODescartar
             PROVE  FALSE
  OBVIOUS
<1>1. hilo["io"] = "dormir" /\ PuedeDespertar /\ hilo["atender"] # "marcarBlocked"
  BY TramosTerminados DEF IODescartar, En
<1>2. PICK p \in Proc : p = enMano["io"]
  BY <1>1 DEF IInv, ManosOcupadas
<1>3. EnBloqueo(p) /\ pcb[p].estado \notin {"BLOCKED", "SUSPENDED_BLOCKED"}
  BY <1>1, <1>2 DEF EnBloqueo, Durmiendo, IODescartar
<1> QED BY <1>1, <1>3 DEF Orden, Ubicado, BloqueoAlDia

\* hilo_que_libera_pcbs_en_exit: p is nowhere, and Memory has no table for it.
LEMMA LiberarPcbEfecto ==
  ASSUME IInv, Orden, LiberarPcb
  PROVE  /\ ListasSinRepetidos'
         /\ \E p \in Proc :
              /\ EstaEn("EXIT", p)
              /\ Queda(p, Ninguno) /\ Conserva(p)
              /\ pcb'[p].estado = "LIBERADO"
              /\ p \notin enMemoria'
              /\ p \in enMemoria => caido' = FALSE
<1>1. /\ TypeOK /\ ListasSinRepetidos /\ sem["EXIT"] > 0
      /\ sem["EXIT"] \in Nat /\ Len(cola["EXIT"]) \in Nat /\ Len(cola["EXIT"]) >= sem["EXIT"]
  BY ColasSonListas DEF LiberarPcb, IInv, TypeOK, Semaforos, IOyExitConRespaldo, Orden, Colas
<1>2. cola["EXIT"] # << >>
  BY <1>1
<1>3. PICK p \in Proc : p = Head(cola["EXIT"])
  BY <1>1, <1>2, Desencolar DEF Colas
<1>4. /\ cola' = DesencolarPrimero("EXIT")
      /\ enMemoria' = enMemoria \ {p}
      /\ p \in enMemoria => caido' = FALSE
      /\ UNCHANGED <<hilo, enMano, temporizador, cpu>>
  BY <1>3 DEF LiberarPcb
<1>5. /\ \A q \in Proc : q # p => pcb'[q] = pcb[q]
      /\ pcb'[p].estado = "LIBERADO"
      /\ pcb'[p].programCounter = pcb[p].programCounter
      /\ pcb'[p].vecesBloqueado = pcb[p].vecesBloqueado
  BY <1>3 DEF LiberarPcb, IInv, TypeOK, Pcb
<1>6. /\ ListasSinRepetidos' /\ ContienePcb("EXIT", p)
      /\ \A f \in Colas, q \in Proc : ContienePcb(f, q)' <=> ContienePcb(f, q) /\ ~(f = "EXIT" /\ q = p)
  BY <1>1, <1>2, <1>3, <1>4, DesencolarLugares DEF Colas
<1>7. EstaEn("EXIT", p)
  BY <1>6 DEF EstaEn, Colas
<1>8. \A s \in Sitios, q \in Proc : EstaEn(s, q)' <=> IF q = p THEN s = Ninguno ELSE EstaEn(s, q)
  <2>1. \A s \in Sitios : EstaEn(s, p) => s = "EXIT"
    BY <1>7 DEF Orden, Ubicado, UnSitio, Sitios, Colas
  <2> QED BY <1>4, <1>6, <2>1 DEF EstaEn, Sitios, Colas, Ninguno
<1>9. \A q \in Proc : MismaIO(q)
  BY <1>4, <1>6 DEF MismaIO, EnColaIO, Durmiendo, Colas
<1>10. Queda(p, Ninguno)
  BY <1>4, <1>5, <1>8, <1>9 DEF Queda, Ajeno, MismoSitio, MismosRelojes, MismoPrograma, Hilos
<1>11. Conserva(p)
  BY <1>4, <1>5, <1>9 DEF Conserva, MismosRelojes, MismoPrograma
<1> QED BY <1>4, <1>5, <1>6, <1>7, <1>10, <1>11

\* The CPU runs an instruction of the process it has.
LEMMA CpuEfecto ==
  ASSUME IInv, Orden, CpuSeguir \/ CpuDetener
  PROVE  /\ UNCHANGED <<cola, sem, hilo, enMano, pcb, temporizador, enMemoria>>
         /\ \E p \in Proc :
              /\ \A q \in Proc : q # p => Ajeno(q)
              /\ MismoSitio(p) /\ MismaIO(p) /\ MismosRelojes(p)
              /\ cpu.proc = p /\ cpu.respuesta = Ninguno
              /\ cpu'.proc = p /\ cpu'.programCounter = cpu.programCounter + 1
              /\ CpuSeguir => /\ Programa[p][cpu.programCounter + 1] = "NO_OP"
                              /\ cpu'.respuesta \in {Ninguno, "desalojado"}
              /\ CpuDetener => cpu'.respuesta = IF Programa[p][cpu.programCounter + 1] = "EXIT"
                                                THEN "terminado" ELSE "bloqueado"
<1>1. /\ cpu \in EstadoCpu /\ cpu.proc \in Proc /\ cpu.respuesta = Ninguno
  BY DEF CpuSeguir, CpuDetener, Ejecutando, IInv, TypeOK, EstadoCpu
<1>2. PICK p \in Proc : p = cpu.proc
  BY <1>1
<1>3. UNCHANGED <<cola, sem, hilo, enMano, pcb, temporizador, enMemoria>>
  BY DEF CpuSeguir, CpuDetener
<1>4. /\ cpu'.proc = p /\ cpu'.programCounter = cpu.programCounter + 1
      /\ CpuSeguir => /\ Programa[p][cpu.programCounter + 1] = "NO_OP"
                      /\ cpu'.respuesta \in {Ninguno, "desalojado"}
      /\ CpuDetener => cpu'.respuesta = IF Programa[p][cpu.programCounter + 1] = "EXIT"
                                        THEN "terminado" ELSE "bloqueado"
  BY <1>1, <1>2 DEF CpuSeguir, CpuDetener, InstruccionActual, EstadoCpu
<1>5. \A q \in Proc : MismoSitio(q) /\ MismaIO(q) /\ MismosRelojes(q)
  BY <1>3 DEF MismoSitio, EstaEn, ContienePcb, MismaIO, EnColaIO, Durmiendo, MismosRelojes
<1>6. \A q \in Proc : q # p => Ajeno(q)
  BY <1>3, <1>4, <1>5 DEF Ajeno, MismoPrograma
<1> QED BY <1>1, <1>2, <1>3, <1>4, <1>5, <1>6

\* A thread that times a block is the one of some I/O of some process.
LEMMA UnReloj ==
  ASSUME NEW t \in Temporizadores
  PROVE  \E p \in Proc : \E k \in 1..Len(Programa[p]) : t = <<p, k>>
<1>1. PICK p \in Proc : t \in {p} \X (1..Len(Programa[p]))
  BY DEF Temporizadores
<1>2. PICK k \in 1..Len(Programa[p]) : t = <<p, k>>
  BY <1>1
<1> QED BY <1>2

\* It changes, and leaves the others alone.
LEMMA CambiaReloj ==
  ASSUME TypeOK, NEW p \in Proc, NEW k \in 1..Len(Programa[p]), NEW r,
         temporizador' = [temporizador EXCEPT ![<<p, k>>] = r]
  PROVE  /\ temporizador'[<<p, k>>] = r
         /\ \A j \in 1..Len(Programa[p]) : j # k => temporizador'[<<p, j>>] = temporizador[<<p, j>>]
         /\ \A q \in Proc : q # p =>
              \A j \in 1..Len(Programa[q]) : temporizador'[<<q, j>>] = temporizador[<<q, j>>]
<1>1. /\ temporizador \in [Temporizadores -> Reloj]
      /\ \A q \in Proc : \A j \in 1..Len(Programa[q]) : <<q, j>> \in Temporizadores
  BY DEF TypeOK, Temporizadores
<1> QED BY <1>1

\* The timer numbers the block it times.
LEMMA TemporizadorIniciarEfecto ==
  ASSUME IInv, Orden, NEW t \in Temporizadores, TemporizadorIniciar(t)
  PROVE  /\ UNCHANGED <<cola, sem, hilo, enMano, enMemoria>>
         /\ \E p \in Proc : \E k \in 1..Len(Programa[p]) :
              /\ t = <<p, k>> /\ temporizador[<<p, k>>].en = "inicio"
              /\ \A q \in Proc : q # p => Ajeno(q)
              /\ MismoSitio(p) /\ MismaIO(p) /\ MismoPrograma(p)
              /\ pcb'[p].estado = pcb[p].estado
              /\ pcb'[p].vecesBloqueado = pcb[p].vecesBloqueado + 1
              /\ temporizador'[<<p, k>>] = [en |-> "dormir", vez |-> pcb[p].vecesBloqueado + 1]
              /\ \A j \in 1..Len(Programa[p]) : j # k => temporizador'[<<p, j>>] = temporizador[<<p, j>>]
<1>1. TypeOK
  BY DEF IInv
<1>2. PICK p \in Proc : \E k \in 1..Len(Programa[p]) : t = <<p, k>>
  BY UnReloj
<1>3. PICK k \in 1..Len(Programa[p]) : t = <<p, k>>
  BY <1>2
<1>4. /\ temporizador' = [temporizador EXCEPT ![<<p, k>>] =
                            [en |-> "dormir", vez |-> pcb[p].vecesBloqueado + 1]]
      /\ temporizador[<<p, k>>].en = "inicio"
      /\ UNCHANGED <<cola, sem, hilo, enMano, enMemoria, cpu>>
  BY <1>3 DEF TemporizadorIniciar, TemporizadorEn, pares
<1>5. /\ \A q \in Proc : q # p => pcb'[q] = pcb[q]
      /\ pcb'[p].estado = pcb[p].estado
      /\ pcb'[p].programCounter = pcb[p].programCounter
      /\ pcb'[p].vecesBloqueado = pcb[p].vecesBloqueado + 1
  BY <1>1, <1>3 DEF TemporizadorIniciar, TypeOK, Pcb
<1>6. /\ temporizador'[<<p, k>>] = [en |-> "dormir", vez |-> pcb[p].vecesBloqueado + 1]
      /\ \A j \in 1..Len(Programa[p]) : j # k => temporizador'[<<p, j>>] = temporizador[<<p, j>>]
      /\ \A q \in Proc : q # p =>
           \A j \in 1..Len(Programa[q]) : temporizador'[<<q, j>>] = temporizador[<<q, j>>]
  BY <1>1, <1>4, CambiaReloj
<1>7. \A q \in Proc : MismoSitio(q) /\ MismaIO(q) /\ MismoPrograma(q)
  BY <1>4, <1>5 DEF MismoSitio, EstaEn, ContienePcb, MismaIO, EnColaIO, Durmiendo, MismoPrograma
<1>8. \A q \in Proc : q # p => Ajeno(q)
  BY <1>4, <1>5, <1>6, <1>7 DEF Ajeno, MismosRelojes
<1> QED BY <1>3, <1>4, <1>5, <1>6, <1>7, <1>8

\* It goes on to another stretch of its code.
LEMMA RelojAvanza ==
  ASSUME TypeOK, NEW p \in Proc, NEW k \in 1..Len(Programa[p]), NEW l,
         temporizador' = IrTemporizador(<<p, k>>, l)
  PROVE  /\ temporizador'[<<p, k>>] = [temporizador[<<p, k>>] EXCEPT !.en = l]
         /\ \A j \in 1..Len(Programa[p]) : j # k => temporizador'[<<p, j>>] = temporizador[<<p, j>>]
         /\ \A q \in Proc : q # p =>
              \A j \in 1..Len(Programa[q]) : temporizador'[<<q, j>>] = temporizador[<<q, j>>]
<1>1. PICK r : r = [temporizador[<<p, k>>] EXCEPT !.en = l]
  OBVIOUS
<1>2. temporizador' = [temporizador EXCEPT ![<<p, k>>] = r]
  BY <1>1 DEF IrTemporizador
<1>3. /\ temporizador'[<<p, k>>] = r
      /\ \A j \in 1..Len(Programa[p]) : j # k => temporizador'[<<p, j>>] = temporizador[<<p, j>>]
      /\ \A q \in Proc : q # p =>
           \A j \in 1..Len(Programa[q]) : temporizador'[<<q, j>>] = temporizador[<<q, j>>]
  BY <1>2, CambiaReloj
<1> QED BY <1>1, <1>3

\* A timer that wakes up, sets the final time or lets the process be.
LEMMA TemporizadorMueveEfecto ==
  ASSUME IInv, Orden, Puntual, NEW t \in Temporizadores,
         TemporizadorVencer(t) \/ TemporizadorMarcarFinal(t) \/ TemporizadorNoSuspender(t)
  PROVE  /\ UNCHANGED <<cola, sem, hilo, enMano, enMemoria>>
         /\ \E p \in Proc : \E k \in 1..Len(Programa[p]) : \E l \in {"remover", "suspender", "fin"} :
              /\ t = <<p, k>>
              /\ \A q \in Proc : q # p => Ajeno(q)
              /\ MismoSitio(p) /\ MismaIO(p) /\ MismoPrograma(p)
              /\ pcb'[p].estado = pcb[p].estado
              /\ pcb'[p].vecesBloqueado = pcb[p].vecesBloqueado
              /\ temporizador'[<<p, k>>] = [temporizador[<<p, k>>] EXCEPT !.en = l]
              /\ \A j \in 1..Len(Programa[p]) : j # k => temporizador'[<<p, j>>] = temporizador[<<p, j>>]
              /\ temporizador[<<p, k>>].en \in {"dormir", "marcarFinal", "suspender"}
              /\ l = "remover" => /\ temporizador[<<p, k>>].en = "dormir"
                                  /\ EstaEn("BLOCKED", p)
                                  /\ pcb[p].vecesBloqueado = temporizador[<<p, k>>].vez
                                  /\ \A j \in 1..Len(Programa[p]) : temporizador[<<p, j>>].en # "inicio"
              /\ l = "suspender" => temporizador[<<p, k>>].en = "marcarFinal"
<1>1. TypeOK
  BY DEF IInv
<1>2. PICK l \in {"remover", "suspender", "fin"} :
        /\ temporizador' = IrTemporizador(t, l)
        /\ temporizador[t].en \in {"dormir", "marcarFinal", "suspender"}
        /\ l = "remover" => TemporizadorVencer(t) /\ SigueBloqueado(t) /\ temporizador[t].en = "dormir"
        /\ l = "suspender" => temporizador[t].en = "marcarFinal"
  BY DEF TemporizadorVencer, TemporizadorMarcarFinal, TemporizadorNoSuspender, TemporizadorEn
<1>3. UNCHANGED <<cola, sem, hilo, enMano, cpu, enMemoria>>
  BY DEF TemporizadorVencer, TemporizadorMarcarFinal, TemporizadorNoSuspender, pares
<1>4. \A q \in Proc : /\ pcb'[q].estado = pcb[q].estado
                      /\ pcb'[q].programCounter = pcb[q].programCounter
                      /\ pcb'[q].vecesBloqueado = pcb[q].vecesBloqueado
  <2>1. CASE TemporizadorMarcarFinal(t)
    <3>1. t[1] \in Proc
      BY DEF Temporizadores
    <3>2. PICK e \in {"justo", "excedido"} : pcb' = TestAndSetTiempoFinal(t[1], e)
      BY <2>1 DEF TemporizadorMarcarFinal
    <3> QED BY <1>1, <3>1, <3>2 DEF TestAndSetTiempoFinal, TypeOK, Pcb
  <2>2. CASE ~TemporizadorMarcarFinal(t)
    BY <2>2 DEF TemporizadorVencer, TemporizadorNoSuspender
  <2> QED BY <2>1, <2>2
<1>5. PICK p \in Proc : \E k \in 1..Len(Programa[p]) : t = <<p, k>>
  BY UnReloj
<1>6. PICK k \in 1..Len(Programa[p]) : t = <<p, k>>
  BY <1>5
<1>7. /\ temporizador'[<<p, k>>] = [temporizador[<<p, k>>] EXCEPT !.en = l]
      /\ \A j \in 1..Len(Programa[p]) : j # k => temporizador'[<<p, j>>] = temporizador[<<p, j>>]
      /\ \A q \in Proc : q # p =>
           \A j \in 1..Len(Programa[q]) : temporizador'[<<q, j>>] = temporizador[<<q, j>>]
  BY <1>1, <1>2, <1>6, RelojAvanza
<1>8. \A q \in Proc : MismoSitio(q) /\ MismaIO(q) /\ MismoPrograma(q)
  BY <1>3, <1>4 DEF MismoSitio, EstaEn, ContienePcb, MismaIO, EnColaIO, Durmiendo, MismoPrograma
<1>9. \A q \in Proc : q # p => Ajeno(q)
  BY <1>3, <1>4, <1>7, <1>8 DEF Ajeno, MismosRelojes
<1>10. ASSUME l = "remover"
      PROVE  /\ EstaEn("BLOCKED", p) /\ pcb[p].vecesBloqueado = temporizador[t].vez
             /\ \A j \in 1..Len(Programa[p]) : temporizador[<<p, j>>].en # "inicio"
  <2>1. t[1] = p /\ SigueBloqueado(t) /\ PuedeDespertar
    BY <1>2, <1>6, <1>10 DEF TemporizadorVencer
  <2>2. \A j \in 1..Len(Programa[p]) : temporizador[<<p, j>>].en # "inicio"
    BY <2>1, TramosTerminados
  <2> QED BY <2>1, <2>2 DEF SigueBloqueado, EstaEn, Colas
<1> QED BY <1>2, <1>3, <1>4, <1>6, <1>7, <1>8, <1>9, <1>10

\* The process leaves BLOCKED: for a moment no list has it.
LEMMA TemporizadorRemoverEfecto ==
  ASSUME IInv, Orden, NEW t \in Temporizadores, TemporizadorRemover(t)
  PROVE  /\ ListasSinRepetidos'
         /\ \E p \in Proc : \E k \in 1..Len(Programa[p]) :
              /\ t = <<p, k>>
              /\ temporizador[<<p, k>>].en = "remover" /\ EstaEn("BLOCKED", p)
              /\ Queda(p, Ninguno) /\ MismaIO(p) /\ MismoPrograma(p)
              /\ pcb' = pcb
              /\ temporizador'[<<p, k>>] = [temporizador[<<p, k>>] EXCEPT !.en = "marcarFinal"]
              /\ \A j \in 1..Len(Programa[p]) : j # k => temporizador'[<<p, j>>] = temporizador[<<p, j>>]
              /\ p \in enMemoria' <=> p \in enMemoria
<1>1. TypeOK /\ ListasSinRepetidos
  BY DEF IInv, Orden
<1>2. PICK p \in Proc : \E k \in 1..Len(Programa[p]) : t = <<p, k>>
  BY UnReloj
<1>3. PICK k \in 1..Len(Programa[p]) : t = <<p, k>>
  BY <1>2
<1>4. temporizador[<<p, k>>].en = "remover" /\ EstaEn("BLOCKED", p)
  BY <1>3 DEF TemporizadorRemover, TemporizadorEn, Orden, Ubicado, RelojesAlDia
<1>5. ContienePcb("BLOCKED", p)
  BY <1>4 DEF EstaEn, Colas
<1>6. /\ cola' = [cola EXCEPT !["BLOCKED"] = RemoverPcb("BLOCKED", p)]
      /\ temporizador' = IrTemporizador(t, "marcarFinal")
      /\ UNCHANGED <<hilo, enMano, pcb, cpu, enMemoria>>
  BY <1>3, <1>5 DEF TemporizadorRemover, pares
<1>7. /\ ListasSinRepetidos'
      /\ \A f \in Colas, q \in Proc : ContienePcb(f, q)' <=> ContienePcb(f, q) /\ ~(f = "BLOCKED" /\ q = p)
  BY <1>1, <1>6, RemoverLugares DEF Colas
<1>8. /\ temporizador'[<<p, k>>] = [temporizador[<<p, k>>] EXCEPT !.en = "marcarFinal"]
      /\ \A j \in 1..Len(Programa[p]) : j # k => temporizador'[<<p, j>>] = temporizador[<<p, j>>]
      /\ \A q \in Proc : q # p =>
           \A j \in 1..Len(Programa[q]) : temporizador'[<<q, j>>] = temporizador[<<q, j>>]
  BY <1>1, <1>3, <1>6, RelojAvanza
<1>9. \A s \in Sitios, q \in Proc : EstaEn(s, q)' <=> IF q = p THEN s = Ninguno ELSE EstaEn(s, q)
  <2>1. \A s \in Sitios : EstaEn(s, p) => s = "BLOCKED"
    BY <1>4 DEF Orden, Ubicado, UnSitio, Sitios, Colas
  <2> QED BY <1>6, <1>7, <2>1 DEF EstaEn, Sitios, Colas, Ninguno
<1>10. \A q \in Proc : MismaIO(q)
  BY <1>6, <1>7 DEF MismaIO, EnColaIO, Durmiendo, Colas
<1>11. Queda(p, Ninguno)
  BY <1>6, <1>8, <1>9, <1>10 DEF Queda, Ajeno, MismoSitio, MismosRelojes, MismoPrograma
<1>12. MismaIO(p) /\ MismoPrograma(p)
  BY <1>6, <1>10 DEF MismoPrograma
<1> QED BY <1>3, <1>4, <1>6, <1>7, <1>8, <1>11, <1>12

\* The process is suspended.
LEMMA TemporizadorSuspenderEfecto ==
  ASSUME IInv, Orden, NEW t \in Temporizadores, TemporizadorSuspender(t)
  PROVE  /\ ListasSinRepetidos'
         /\ \E p \in Proc : \E k \in 1..Len(Programa[p]) :
              /\ t = <<p, k>>
              /\ temporizador[<<p, k>>].en = "suspender"
              /\ SinSitio(p) /\ pcb[p].estado = "BLOCKED"
              /\ Queda(p, "SUSPENDED_BLOCKED") /\ MismaIO(p) /\ MismoPrograma(p)
              /\ pcb'[p].estado = "SUSPENDED_BLOCKED" /\ pcb'[p].vecesBloqueado = pcb[p].vecesBloqueado
              /\ temporizador'[<<p, k>>] = [temporizador[<<p, k>>] EXCEPT !.en = "fin"]
              /\ \A j \in 1..Len(Programa[p]) : j # k => temporizador'[<<p, j>>] = temporizador[<<p, j>>]
              /\ p \in enMemoria' <=> p \in enMemoria
<1>1. TypeOK /\ ListasSinRepetidos
  BY DEF IInv, Orden
<1>2. PICK p \in Proc : \E k \in 1..Len(Programa[p]) : t = <<p, k>>
  BY UnReloj
<1>3. PICK k \in 1..Len(Programa[p]) : t = <<p, k>>
  BY <1>2
<1>4. temporizador[<<p, k>>].en = "suspender" /\ SinSitio(p) /\ pcb[p].estado = "BLOCKED"
  BY <1>3 DEF TemporizadorSuspender, TemporizadorEn, Orden, Ubicado, RelojesAlDia
<1>5. ~ContienePcb("SUSPENDED_BLOCKED", p)
  BY <1>4 DEF SinSitio, EstaEn, Sitios, Colas
<1>6. /\ cola' = EncolarPcb("SUSPENDED_BLOCKED", p)
      /\ temporizador' = IrTemporizador(t, "fin")
      /\ UNCHANGED <<hilo, enMano, cpu, enMemoria>>
  BY <1>3 DEF TemporizadorSuspender, pares
<1>7. /\ \A q \in Proc : q # p => pcb'[q] = pcb[q]
      /\ pcb'[p].estado = "SUSPENDED_BLOCKED"
      /\ pcb'[p].programCounter = pcb[p].programCounter
      /\ pcb'[p].vecesBloqueado = pcb[p].vecesBloqueado
  BY <1>1, <1>3 DEF TemporizadorSuspender, TypeOK, Pcb
<1>8. /\ ListasSinRepetidos'
      /\ \A f \in Colas, q \in Proc :
           ContienePcb(f, q)' <=> ContienePcb(f, q) \/ (f = "SUSPENDED_BLOCKED" /\ q = p)
  BY <1>1, <1>5, <1>6, EncolarLugares DEF Colas
<1>9. /\ temporizador'[<<p, k>>] = [temporizador[<<p, k>>] EXCEPT !.en = "fin"]
      /\ \A j \in 1..Len(Programa[p]) : j # k => temporizador'[<<p, j>>] = temporizador[<<p, j>>]
      /\ \A q \in Proc : q # p =>
           \A j \in 1..Len(Programa[q]) : temporizador'[<<q, j>>] = temporizador[<<q, j>>]
  BY <1>1, <1>3, <1>6, RelojAvanza
<1>10. \A s \in Sitios, q \in Proc :
         EstaEn(s, q)' <=> IF q = p THEN s = "SUSPENDED_BLOCKED" ELSE EstaEn(s, q)
  BY <1>4, <1>6, <1>8 DEF EstaEn, SinSitio, Sitios, Colas
<1>11. \A q \in Proc : MismaIO(q)
  BY <1>6, <1>8 DEF MismaIO, EnColaIO, Durmiendo, Colas
<1>12. Queda(p, "SUSPENDED_BLOCKED")
  BY <1>6, <1>7, <1>9, <1>10, <1>11 DEF Queda, Ajeno, MismoSitio, MismosRelojes, MismoPrograma
<1>13. MismaIO(p) /\ MismoPrograma(p)
  BY <1>6, <1>7, <1>11 DEF MismoPrograma
<1> QED BY <1>3, <1>4, <1>6, <1>7, <1>8, <1>9, <1>12, <1>13

\* The steps that move no PCB: they are about semaphores and notices.
Avisos == \/ LargoTomarPcb \/ LargoTransicionarSusready \/ LargoAvisarReady
          \/ MedianoCaer \/ MedianoAvisarReady \/ CortoEvaluarDesalojo
          \/ IOAvisarReady \/ IOAvisarLargo \/ CpuRecibirInterrupcion

LEMMA AvisosEfecto ==
  ASSUME IInv, Avisos
  PROVE  cola' = cola /\ \A q \in Proc : Ajeno(q)
<1>1. UNCHANGED <<cola, temporizador, enMemoria>>
  BY DEF Avisos, LargoTomarPcb, LargoTransicionarSusready, LargoAvisarReady, MedianoCaer,
         MedianoAvisarReady, CortoEvaluarDesalojo, IOAvisarReady, IOAvisarLargo, TerminarIO,
         CpuRecibirInterrupcion, pares
<1>2. /\ \A t \in {"largo", "mediano", "atender"} : enMano'[t] = enMano[t]
      /\ hilo'["atender"] = hilo["atender"]
  BY DEF Avisos, LargoTomarPcb, LargoTransicionarSusready, LargoAvisarReady, MedianoCaer,
         MedianoAvisarReady, CortoEvaluarDesalojo, IOAvisarReady, IOAvisarLargo, TerminarIO,
         CpuRecibirInterrupcion, Ir, IInv, TypeOK, Hilos
<1>3. \A q \in Proc : Durmiendo(q)' <=> Durmiendo(q)
  BY DEF Avisos, LargoTomarPcb, LargoTransicionarSusready, LargoAvisarReady, MedianoCaer,
         MedianoAvisarReady, CortoEvaluarDesalojo, IOAvisarReady, IOAvisarLargo, TerminarIO,
         CpuRecibirInterrupcion, Ir, En, IInv, TypeOK, Hilos, Durmiendo
<1>4. cpu'.proc = cpu.proc /\ cpu'.programCounter = cpu.programCounter /\ cpu'.respuesta = cpu.respuesta
  BY DEF Avisos, LargoTomarPcb, LargoTransicionarSusready, LargoAvisarReady, MedianoCaer,
         MedianoAvisarReady, CortoEvaluarDesalojo, IOAvisarReady, IOAvisarLargo, TerminarIO,
         CpuRecibirInterrupcion, pares, IInv, TypeOK, EstadoCpu
<1>5. \A q \in Proc : /\ pcb'[q].estado = pcb[q].estado
                      /\ pcb'[q].programCounter = pcb[q].programCounter
                      /\ pcb'[q].vecesBloqueado = pcb[q].vecesBloqueado
  <2>1. CASE IOAvisarReady \/ IOAvisarLargo
    <3>1. pcb' = [pcb EXCEPT ![enMano["io"]].tiempoDeBloqueo = "cero",
                             ![enMano["io"]].finalEstablecido = FALSE]
      BY <2>1 DEF IOAvisarReady, IOAvisarLargo, TerminarIO
    <3> QED BY <3>1 DEF IInv, TypeOK, Pcb
  <2>2. CASE ~(IOAvisarReady \/ IOAvisarLargo)
    BY <2>2 DEF Avisos, LargoTomarPcb, LargoTransicionarSusready, LargoAvisarReady, MedianoCaer,
                MedianoAvisarReady, CortoEvaluarDesalojo, CpuRecibirInterrupcion
  <2> QED BY <2>1, <2>2
<1>6. \A q \in Proc : MismoSitio(q)
  BY <1>1, <1>2 DEF MismoSitio, EstaEn, ContienePcb, Sitios
<1>7. \A q \in Proc : MismaIO(q)
  BY <1>1, <1>3 DEF MismaIO, EnColaIO, ContienePcb
<1>8. \A q \in Proc : Ajeno(q)
  BY <1>1, <1>4, <1>5, <1>6, <1>7 DEF Ajeno, MismosRelojes, MismoPrograma
<1> QED BY <1>1, <1>8

-----------------------------------------------------------------------------
(* Every action keeps every PCB well placed.                               *)

\* One process gets or gives back a permit, or none does.
LEMMA PermisosSiguen ==
  ASSUME TypeOK, TypeOK', PermisosConservados, NEW p \in Proc,
         \A q \in Proc : q # p => (TienePermiso(q)' <=> TienePermiso(q)),
         sem'["gradoMultiprog"] + sem'["transicionar"] + Uno(hilo'["largo"] = "solicitarTabla")
           + Uno(TienePermiso(p)')
         = sem["gradoMultiprog"] + sem["transicionar"] + Uno(hilo["largo"] = "solicitarTabla")
           + Uno(TienePermiso(p))
  PROVE  PermisosConservados'
<1> DEFINE antes == Cardinality(ConPermiso)
           despues == Cardinality(ConPermiso')
<1>1. /\ sem["gradoMultiprog"] \in Nat /\ sem["transicionar"] \in Nat
      /\ sem'["gradoMultiprog"] \in Nat /\ sem'["transicionar"] \in Nat
  BY DEF TypeOK, Semaforos
<1>2. IsFiniteSet(ConPermiso) /\ antes \in Nat
  BY FS_CardinalityType DEF PermisosConservados
<1>3. IsFiniteSet(ConPermiso') /\ despues \in Nat /\ despues + Uno(TienePermiso(p)) = antes + Uno(TienePermiso(p)')
  <2>1. CASE TienePermiso(p)' <=> TienePermiso(p)
    <3>1. ConPermiso' = ConPermiso
      BY <2>1 DEF ConPermiso
    <3> QED BY <3>1, <2>1, <1>2 DEF Uno
  <2>2. CASE TienePermiso(p)' /\ ~TienePermiso(p)
    <3>1. ConPermiso' = ConPermiso \union {p} /\ p \notin ConPermiso
      BY <2>2 DEF ConPermiso
    <3>2. IsFiniteSet(ConPermiso') /\ despues = antes + 1
      BY <3>1, <1>2, FS_AddElement
    <3> QED BY <3>2, <2>2, <1>2 DEF Uno
  <2>3. CASE ~TienePermiso(p)' /\ TienePermiso(p)
    <3>1. ConPermiso' = ConPermiso \ {p} /\ p \in ConPermiso
      BY <2>3 DEF ConPermiso
    <3>2. IsFiniteSet(ConPermiso') /\ despues = antes - 1
      BY <3>1, <1>2, FS_RemoveElement
    <3>3. despues \in Nat
      BY <3>2, FS_CardinalityType
    <3> QED BY <3>2, <3>3, <2>3, <1>2 DEF Uno
  <2> QED BY <2>1, <2>2, <2>3
<1>4. sem["gradoMultiprog"] + antes + sem["transicionar"] + Uno(hilo["largo"] = "solicitarTabla") = GRADO
  BY DEF PermisosConservados
<1>5. IsFiniteSet(ConPermiso)'
  BY <1>3
<1> HIDE DEF antes, despues
<1>6. sem'["gradoMultiprog"] + despues + sem'["transicionar"] + Uno(hilo'["largo"] = "solicitarTabla") = GRADO
  BY <1>1, <1>2, <1>3, <1>4 DEF Uno
<1> QED BY <1>5, <1>6 DEF PermisosConservados, despues

\* What remains to be seen of a step about one process.
LEMMA OrdenDelPaso ==
  ASSUME IInv, IInv', Orden, NEW p \in Proc,
         \A q \in Proc : q # p => Ajeno(q),
         Ubicado(p)', ListasSinRepetidos', ManosLibres',
         sem'["gradoMultiprog"] + sem'["transicionar"] + Uno(hilo'["largo"] = "solicitarTabla")
           + Uno(TienePermiso(p)')
         = sem["gradoMultiprog"] + sem["transicionar"] + Uno(hilo["largo"] = "solicitarTabla")
           + Uno(TienePermiso(p))
  PROVE  Orden'
<1>1. \A q \in Proc : q # p => Ubicado(q)' /\ (TienePermiso(q)' <=> TienePermiso(q))
  BY AjenoUbicado DEF Orden
<1>2. PermisosConservados'
  BY <1>1, PermisosSiguen DEF IInv, Orden
<1>3. \A q \in Proc : Ubicado(q)'
  BY <1>1
<1> QED BY <1>2, <1>3 DEF Orden

\* A PCB that is not blocked, before or after, goes to another site.
LEMMA TrasladoUbicado ==
  ASSUME NEW p \in Proc, NEW a, Ubicado(p), Queda(p, a), Conserva(p),
         a \notin {"BLOCKED", "atender"}, ~EstaEn("BLOCKED", p),
         pcb[p].estado \notin {"BLOCKED", "SUSPENDED_BLOCKED"},
         pcb'[p].estado \notin {"BLOCKED", "SUSPENDED_BLOCKED"},
         ~(EstaEn("atender", p) /\ hilo["atender"] = "marcarBlocked"),
         IF a \in Sitios THEN pcb'[p].estado \in EstadosDe(a) ELSE pcb'[p].estado = "LIBERADO",
         a = "EXIT" /\ pcb'[p].estado = "NEW" => p \in Excesivos,
         pcb[p].programCounter = Len(Programa[p]) => pcb'[p].estado \in {"EXIT", "LIBERADO"},
         MemoriaAlDia(p)'
  PROVE  Ubicado(p)'
<1>1. \A s \in Sitios : EstaEn(s, p)' <=> s = a
  BY DEF Queda
<1>2. "atender" \in Sitios /\ "EXIT" \in Sitios /\ "BLOCKED" \in Sitios
  BY DEF Sitios, Colas
<1>3. UnSitio(p)'
  BY <1>1 DEF UnSitio
<1>4. EstadoAlDia(p)'
  BY <1>1, <1>2 DEF EstadoAlDia, SinSitio, EstadosDe
<1>5. BloqueoAlDia(p)'
  BY <1>1, <1>2 DEF BloqueoAlDia, Ubicado, EnBloqueo, Conserva, MismaIO
<1>6. RelojesAlDia(p)'
  <2>1. \A k \in 1..Len(Programa[p]) :
          temporizador[<<p, k>>].en \notin {"inicio", "remover", "marcarFinal", "suspender"}
    BY DEF Ubicado, RelojesAlDia
  <2> QED BY <1>1, <1>2, <2>1 DEF RelojesAlDia, Ubicado, Conserva, MismosRelojes, MismoPrograma, Iniciado
<1>7. ProgramaAlDia(p)'
  BY <1>1, <1>2 DEF ProgramaAlDia, Ubicado, Conserva, MismoPrograma
<1> QED BY <1>3, <1>4, <1>5, <1>6, <1>7 DEF Ubicado

LEMMA EncolarEnNewOrden ==
  ASSUME IInv, IInv', Orden, NEW p \in Proc, EncolarEnNew(p)
  PROVE  Orden'
<1>1. /\ ListasSinRepetidos'
      /\ SinSitio(p) /\ Queda(p, "NEW") /\ Conserva(p)
      /\ pcb[p].estado = "NULL" /\ pcb'[p].estado = "NEW"
      /\ p \in enMemoria' <=> p \in enMemoria
  BY EncolarEnNewEfecto
<1>2. Ubicado(p)
  BY DEF Orden
<1>3. \A s \in Sitios : ~EstaEn(s, p) /\ (EstaEn(s, p)' <=> s = "NEW")
  BY <1>1 DEF SinSitio, Queda
<1>4. {"NEW", "READY", "EXEC", "EXIT", "BLOCKED", "atender"} \subseteq Sitios
  BY DEF Sitios, Colas
<1>5. MemoriaAlDia(p)'
  BY <1>1, <1>2, <1>3, <1>4 DEF Ubicado, MemoriaAlDia
<1>6. Ubicado(p)'
  <2>1. pcb[p].programCounter # Len(Programa[p])
    BY <1>1, <1>2, <1>3, <1>4 DEF Ubicado, ProgramaAlDia
  <2> QED BY <1>1, <1>2, <1>3, <1>4, <1>5, <2>1, TrasladoUbicado DEF EstadosDe
<1>7. ~TienePermiso(p) /\ ~TienePermiso(p)'
  BY <1>1, <1>3, <1>4 DEF TienePermiso
<1>8. UNCHANGED <<hilo, enMano>> /\ \A s \in {"gradoMultiprog", "transicionar"} : sem'[s] = sem[s]
  BY DEF EncolarEnNew, Post, IInv, TypeOK, Semaforos
<1>9. ManosLibres'
  BY <1>8 DEF Orden, ManosLibres
<1>10. \A q \in Proc : q # p => Ajeno(q)
  BY <1>1 DEF Queda
<1> QED BY <1>1, <1>6, <1>7, <1>8, <1>9, <1>10, OrdenDelPaso DEF Uno

LEMMA LargoTomarNewOrden ==
  ASSUME IInv, IInv', Orden, LargoTomarNew
  PROVE  Orden'
<1>1. ListasSinRepetidos'
  BY LargoTomarNewEfecto
<1>2. PICK p \in Proc :
        /\ EstaEn("NEW", p)
        /\ Queda(p, "largo") /\ Conserva(p)
        /\ pcb'[p].estado = pcb[p].estado
        /\ p \in enMemoria' <=> p \in enMemoria
  BY LargoTomarNewEfecto
<1>3. Ubicado(p)
  BY DEF Orden
<1>4. {"NEW", "largo", "READY", "EXEC", "EXIT", "BLOCKED", "atender"} \subseteq Sitios
  BY DEF Sitios, Colas
<1>5. /\ \A s \in Sitios : (EstaEn(s, p) <=> s = "NEW") /\ (EstaEn(s, p)' <=> s = "largo")
      /\ pcb[p].estado = "NEW"
  BY <1>2, <1>3, <1>4 DEF Ubicado, UnSitio, EstadoAlDia, EstadosDe, Queda
<1>6. MemoriaAlDia(p)'
  BY <1>2, <1>3, <1>4, <1>5 DEF Ubicado, MemoriaAlDia
<1>7. Ubicado(p)'
  <2>1. pcb[p].programCounter # Len(Programa[p])
    BY <1>3, <1>4, <1>5 DEF Ubicado, ProgramaAlDia
  <2> QED BY <1>2, <1>3, <1>4, <1>5, <1>6, <2>1, TrasladoUbicado DEF EstadosDe
<1>8. ~TienePermiso(p) /\ ~TienePermiso(p)'
  BY <1>2, <1>4, <1>5 DEF TienePermiso
<1>9. /\ hilo["largo"] = "esperarGrado" /\ hilo'["largo"] = "solicitarTabla"
      /\ hilo'["atender"] = hilo["atender"] /\ hilo'["mediano"] = hilo["mediano"]
      /\ enMano'["atender"] = enMano["atender"] /\ enMano'["mediano"] = enMano["mediano"]
      /\ sem'["gradoMultiprog"] = sem["gradoMultiprog"] - 1 /\ sem["gradoMultiprog"] \in Nat
      /\ sem'["transicionar"] = sem["transicionar"] /\ sem["transicionar"] \in Nat
  BY DEF LargoTomarNew, En, Wait, Ir, IInv, TypeOK, Semaforos, Hilos
<1>10. ManosLibres'
  BY <1>9 DEF Orden, ManosLibres
<1>11. \A q \in Proc : q # p => Ajeno(q)
  BY <1>2 DEF Queda
<1>12. /\ Uno(TienePermiso(p)) = 0 /\ Uno(TienePermiso(p)') = 0
       /\ Uno(hilo["largo"] = "solicitarTabla") = 0 /\ Uno(hilo'["largo"] = "solicitarTabla") = 1
  BY <1>8, <1>9 DEF Uno
<1> QED BY <1>1, <1>7, <1>9, <1>10, <1>11, <1>12, OrdenDelPaso

LEMMA LargoRechazarOrden ==
  ASSUME IInv, IInv', Orden, LargoRechazar
  PROVE  Orden'
<1>1. ListasSinRepetidos'
  BY LargoRechazarEfecto
<1>2. PICK p \in Proc :
        /\ EstaEn("largo", p) /\ p \in Excesivos
        /\ Queda(p, "EXIT") /\ Conserva(p)
        /\ pcb'[p].estado = pcb[p].estado
        /\ p \in enMemoria' <=> p \in enMemoria
  BY LargoRechazarEfecto
<1>3. Ubicado(p)
  BY DEF Orden
<1>4. {"NEW", "READY", "EXEC", "EXIT", "BLOCKED", "atender", "largo"} \subseteq Sitios
  BY DEF Sitios, Colas
<1>5. /\ \A s \in Sitios : (EstaEn(s, p) <=> s = "largo") /\ (EstaEn(s, p)' <=> s = "EXIT")
      /\ pcb[p].estado \in {"NEW"}
  BY <1>2, <1>3, <1>4 DEF Ubicado, UnSitio, EstadoAlDia, EstadosDe, Queda
<1>6. MemoriaAlDia(p)'
  BY <1>2, <1>3, <1>4, <1>5 DEF Ubicado, MemoriaAlDia
<1>7. Ubicado(p)'
  <2>1. pcb[p].programCounter = Len(Programa[p]) => pcb'[p].estado \in {"EXIT", "LIBERADO"}
    BY <1>2, <1>3, <1>4, <1>5 DEF Ubicado, ProgramaAlDia
  <2> QED BY <1>2, <1>3, <1>4, <1>5, <1>6, <2>1, TrasladoUbicado DEF EstadosDe
<1>8. ~TienePermiso(p) /\ TienePermiso(p)'
  BY <1>2, <1>3, <1>4, <1>5 DEF TienePermiso
<1>9. /\ hilo["largo"] = "solicitarTabla" /\ hilo'["largo"] = "esperar"
      /\ hilo'["mediano"] = hilo["mediano"]
      /\ hilo'["atender"] = hilo["atender"]
      /\ enMano'["largo"] = Ninguno
      /\ enMano'["mediano"] = enMano["mediano"]
      /\ enMano'["atender"] = enMano["atender"]
      /\ sem'["gradoMultiprog"] = sem["gradoMultiprog"] /\ sem["gradoMultiprog"] \in Nat
      /\ sem'["transicionar"] = sem["transicionar"] /\ sem["transicionar"] \in Nat
  BY DEF LargoRechazar, En, Post, Wait, Ir, IInv, TypeOK, Semaforos, Hilos
<1>10. ManosLibres'
  BY <1>9 DEF Orden, ManosLibres
<1>11. \A q \in Proc : q # p => Ajeno(q)
  BY <1>2 DEF Queda
<1>12. /\ Uno(TienePermiso(p)) = 0 /\ Uno(TienePermiso(p)') = 1
       /\ Uno(hilo["largo"] = "solicitarTabla") = 1 /\ Uno(hilo'["largo"] = "solicitarTabla") = 0
  BY <1>8, <1>9 DEF Uno
<1> QED BY <1>1, <1>7, <1>9, <1>10, <1>11, <1>12, OrdenDelPaso

LEMMA LargoAdmitirOrden ==
  ASSUME IInv, IInv', Orden, LargoAdmitir
  PROVE  Orden'
<1>1. ListasSinRepetidos'
  BY LargoAdmitirEfecto
<1>2. PICK p \in Proc :
        /\ EstaEn("largo", p) /\ p \notin Excesivos
        /\ Queda(p, "READY") /\ Conserva(p)
        /\ pcb'[p].estado = pcb[p].estado
        /\ p \in enMemoria'
  BY LargoAdmitirEfecto
<1>3. Ubicado(p)
  BY DEF Orden
<1>4. {"NEW", "READY", "EXEC", "EXIT", "BLOCKED", "atender", "largo"} \subseteq Sitios
  BY DEF Sitios, Colas
<1>5. /\ \A s \in Sitios : (EstaEn(s, p) <=> s = "largo") /\ (EstaEn(s, p)' <=> s = "READY")
      /\ pcb[p].estado \in {"NEW"}
  BY <1>2, <1>3, <1>4 DEF Ubicado, UnSitio, EstadoAlDia, EstadosDe, Queda
<1>6. MemoriaAlDia(p)'
  BY <1>2, <1>3, <1>4, <1>5 DEF Ubicado, MemoriaAlDia
<1>7. Ubicado(p)'
  <2>1. pcb[p].programCounter = Len(Programa[p]) => pcb'[p].estado \in {"EXIT", "LIBERADO"}
    BY <1>2, <1>3, <1>4, <1>5 DEF Ubicado, ProgramaAlDia
  <2> QED BY <1>2, <1>3, <1>4, <1>5, <1>6, <2>1, TrasladoUbicado DEF EstadosDe
<1>8. ~TienePermiso(p) /\ TienePermiso(p)'
  BY <1>2, <1>3, <1>4, <1>5 DEF TienePermiso
<1>9. /\ hilo["largo"] = "solicitarTabla" /\ hilo'["largo"] = "avisarReady"
      /\ hilo'["mediano"] = hilo["mediano"]
      /\ hilo'["atender"] = hilo["atender"]
      /\ enMano'["largo"] = Ninguno
      /\ enMano'["mediano"] = enMano["mediano"]
      /\ enMano'["atender"] = enMano["atender"]
      /\ sem'["gradoMultiprog"] = sem["gradoMultiprog"] /\ sem["gradoMultiprog"] \in Nat
      /\ sem'["transicionar"] = sem["transicionar"] /\ sem["transicionar"] \in Nat
  BY DEF LargoAdmitir, En, Post, Wait, Ir, IInv, TypeOK, Semaforos, Hilos
<1>10. ManosLibres'
  BY <1>9 DEF Orden, ManosLibres
<1>11. \A q \in Proc : q # p => Ajeno(q)
  BY <1>2 DEF Queda
<1>12. /\ Uno(TienePermiso(p)) = 0 /\ Uno(TienePermiso(p)') = 1
       /\ Uno(hilo["largo"] = "solicitarTabla") = 1 /\ Uno(hilo'["largo"] = "solicitarTabla") = 0
  BY <1>8, <1>9 DEF Uno
<1> QED BY <1>1, <1>7, <1>9, <1>10, <1>11, <1>12, OrdenDelPaso

LEMMA MedianoTomarSusreadyOrden ==
  ASSUME IInv, IInv', Orden, MedianoTomarSusready
  PROVE  Orden'
<1>1. ListasSinRepetidos'
  BY MedianoTomarSusreadyEfecto
<1>2. PICK p \in Proc :
        /\ EstaEn("SUSPENDED_READY", p)
        /\ Queda(p, "mediano") /\ Conserva(p)
        /\ pcb'[p].estado = "READY"
        /\ p \in enMemoria' <=> p \in enMemoria
  BY MedianoTomarSusreadyEfecto
<1>3. Ubicado(p)
  BY DEF Orden
<1>4. {"NEW", "READY", "EXEC", "EXIT", "BLOCKED", "atender", "SUSPENDED_READY", "mediano"} \subseteq Sitios
  BY DEF Sitios, Colas
<1>5. /\ \A s \in Sitios : (EstaEn(s, p) <=> s = "SUSPENDED_READY") /\ (EstaEn(s, p)' <=> s = "mediano")
      /\ pcb[p].estado \in {"SUSPENDED_READY"}
  BY <1>2, <1>3, <1>4 DEF Ubicado, UnSitio, EstadoAlDia, EstadosDe, Queda
<1>6. MemoriaAlDia(p)'
  BY <1>2, <1>3, <1>4, <1>5 DEF Ubicado, MemoriaAlDia
<1>7. Ubicado(p)'
  <2>1. pcb[p].programCounter = Len(Programa[p]) => pcb'[p].estado \in {"EXIT", "LIBERADO"}
    BY <1>2, <1>3, <1>4, <1>5 DEF Ubicado, ProgramaAlDia
  <2> QED BY <1>2, <1>3, <1>4, <1>5, <1>6, <2>1, TrasladoUbicado DEF EstadosDe
<1>8. ~TienePermiso(p) /\ TienePermiso(p)'
  BY <1>2, <1>3, <1>4, <1>5 DEF TienePermiso
<1>9. /\ hilo'["largo"] = hilo["largo"]
      /\ hilo["mediano"] = "esperar" /\ hilo'["mediano"] = "encolarReady"
      /\ hilo'["atender"] = hilo["atender"]
      /\ enMano'["largo"] = enMano["largo"]
      /\ enMano'["atender"] = enMano["atender"]
      /\ sem'["gradoMultiprog"] = sem["gradoMultiprog"] /\ sem["gradoMultiprog"] \in Nat
      /\ sem'["transicionar"] = sem["transicionar"] - 1 /\ sem["transicionar"] \in Nat
  BY DEF MedianoTomarSusready, En, Post, Wait, Ir, IInv, TypeOK, Semaforos, Hilos
<1>10. ManosLibres'
  BY <1>9 DEF Orden, ManosLibres
<1>11. \A q \in Proc : q # p => Ajeno(q)
  BY <1>2 DEF Queda
<1>12. /\ Uno(TienePermiso(p)) = 0 /\ Uno(TienePermiso(p)') = 1
       /\ Uno(hilo'["largo"] = "solicitarTabla") = Uno(hilo["largo"] = "solicitarTabla")
       /\ Uno(hilo["largo"] = "solicitarTabla") \in Nat
  BY <1>8, <1>9 DEF Uno
<1> QED BY <1>1, <1>7, <1>9, <1>10, <1>11, <1>12, OrdenDelPaso

LEMMA MedianoEncolarReadyOrden ==
  ASSUME IInv, IInv', Orden, MedianoEncolarReady
  PROVE  Orden'
<1>1. ListasSinRepetidos'
  BY MedianoEncolarReadyEfecto
<1>2. PICK p \in Proc :
        /\ EstaEn("mediano", p)
        /\ Queda(p, "READY") /\ Conserva(p)
        /\ pcb'[p].estado = pcb[p].estado
        /\ p \in enMemoria' <=> p \in enMemoria
  BY MedianoEncolarReadyEfecto
<1>3. Ubicado(p)
  BY DEF Orden
<1>4. {"NEW", "READY", "EXEC", "EXIT", "BLOCKED", "atender", "mediano"} \subseteq Sitios
  BY DEF Sitios, Colas
<1>5. /\ \A s \in Sitios : (EstaEn(s, p) <=> s = "mediano") /\ (EstaEn(s, p)' <=> s = "READY")
      /\ pcb[p].estado \in {"READY"}
  BY <1>2, <1>3, <1>4 DEF Ubicado, UnSitio, EstadoAlDia, EstadosDe, Queda
<1>6. MemoriaAlDia(p)'
  BY <1>2, <1>3, <1>4, <1>5 DEF Ubicado, MemoriaAlDia
<1>7. Ubicado(p)'
  <2>1. pcb[p].programCounter = Len(Programa[p]) => pcb'[p].estado \in {"EXIT", "LIBERADO"}
    BY <1>2, <1>3, <1>4, <1>5 DEF Ubicado, ProgramaAlDia
  <2> QED BY <1>2, <1>3, <1>4, <1>5, <1>6, <2>1, TrasladoUbicado DEF EstadosDe
<1>8. TienePermiso(p) /\ TienePermiso(p)'
  BY <1>2, <1>3, <1>4, <1>5 DEF TienePermiso
<1>9. /\ hilo'["largo"] = hilo["largo"]
      /\ hilo["mediano"] = "encolarReady" /\ hilo'["mediano"] = "avisarReady"
      /\ hilo'["atender"] = hilo["atender"]
      /\ enMano'["largo"] = enMano["largo"]
      /\ enMano'["mediano"] = Ninguno
      /\ enMano'["atender"] = enMano["atender"]
      /\ sem'["gradoMultiprog"] = sem["gradoMultiprog"] /\ sem["gradoMultiprog"] \in Nat
      /\ sem'["transicionar"] = sem["transicionar"] /\ sem["transicionar"] \in Nat
  BY DEF MedianoEncolarReady, En, Post, Wait, Ir, IInv, TypeOK, Semaforos, Hilos
<1>10. ManosLibres'
  BY <1>9 DEF Orden, ManosLibres
<1>11. \A q \in Proc : q # p => Ajeno(q)
  BY <1>2 DEF Queda
<1>12. Uno(TienePermiso(p)) = 1 /\ Uno(TienePermiso(p)') = 1
  BY <1>8, <1>9 DEF Uno
<1> QED BY <1>1, <1>7, <1>9, <1>10, <1>11, <1>12, OrdenDelPaso

LEMMA CortoDespacharOrden ==
  ASSUME IInv, IInv', Orden, CortoDespachar
  PROVE  Orden'
<1>1. ListasSinRepetidos'
  BY CortoDespacharEfecto
<1>2. PICK p \in Proc :
        /\ EstaEn("READY", p)
        /\ Queda(p, "EXEC") /\ Conserva(p)
        /\ pcb'[p].estado = pcb[p].estado
        /\ p \in enMemoria' <=> p \in enMemoria
  BY CortoDespacharEfecto
<1>3. Ubicado(p)
  BY DEF Orden
<1>4. {"NEW", "READY", "EXEC", "EXIT", "BLOCKED", "atender"} \subseteq Sitios
  BY DEF Sitios, Colas
<1>5. /\ \A s \in Sitios : (EstaEn(s, p) <=> s = "READY") /\ (EstaEn(s, p)' <=> s = "EXEC")
      /\ pcb[p].estado \in {"NEW", "READY"}
  BY <1>2, <1>3, <1>4 DEF Ubicado, UnSitio, EstadoAlDia, EstadosDe, Queda
<1>6. MemoriaAlDia(p)'
  BY <1>2, <1>3, <1>4, <1>5 DEF Ubicado, MemoriaAlDia
<1>7. Ubicado(p)'
  <2>1. pcb[p].programCounter = Len(Programa[p]) => pcb'[p].estado \in {"EXIT", "LIBERADO"}
    BY <1>2, <1>3, <1>4, <1>5 DEF Ubicado, ProgramaAlDia
  <2> QED BY <1>2, <1>3, <1>4, <1>5, <1>6, <2>1, TrasladoUbicado DEF EstadosDe
<1>8. TienePermiso(p) /\ TienePermiso(p)'
  BY <1>2, <1>3, <1>4, <1>5 DEF TienePermiso
<1>9. /\ hilo'["largo"] = hilo["largo"]
      /\ hilo'["mediano"] = hilo["mediano"]
      /\ hilo'["atender"] = hilo["atender"]
      /\ enMano'["largo"] = enMano["largo"]
      /\ enMano'["mediano"] = enMano["mediano"]
      /\ enMano'["atender"] = enMano["atender"]
      /\ sem'["gradoMultiprog"] = sem["gradoMultiprog"] /\ sem["gradoMultiprog"] \in Nat
      /\ sem'["transicionar"] = sem["transicionar"] /\ sem["transicionar"] \in Nat
  BY DEF CortoDespachar, En, Post, Wait, Ir, IInv, TypeOK, Semaforos, Hilos
<1>10. ManosLibres'
  BY <1>9 DEF Orden, ManosLibres
<1>11. \A q \in Proc : q # p => Ajeno(q)
  BY <1>2 DEF Queda
<1>12. Uno(TienePermiso(p)) = 1 /\ Uno(TienePermiso(p)') = 1
  BY <1>8, <1>9 DEF Uno
<1> QED BY <1>1, <1>7, <1>9, <1>10, <1>11, <1>12, OrdenDelPaso

LEMMA AtenderDesalojadoOrden ==
  ASSUME IInv, IInv', Orden, AtenderDesalojado
  PROVE  Orden'
<1>1. ListasSinRepetidos'
  BY AtenderDesalojadoEfecto
<1>2. PICK p \in Proc :
        /\ EstaEn("atender", p)
        /\ Queda(p, "READY") /\ Conserva(p)
        /\ pcb'[p].estado = "READY"
        /\ p \in enMemoria' <=> p \in enMemoria
  BY AtenderDesalojadoEfecto
<1>3. Ubicado(p)
  BY DEF Orden
<1>4. {"NEW", "READY", "EXEC", "EXIT", "BLOCKED", "atender"} \subseteq Sitios
  BY DEF Sitios, Colas
<1>5. /\ \A s \in Sitios : (EstaEn(s, p) <=> s = "atender") /\ (EstaEn(s, p)' <=> s = "READY")
      /\ pcb[p].estado \in {"NEW", "READY"}
      /\ hilo["atender"] = "devolverReady"
  BY <1>2, <1>3, <1>4 DEF AtenderDesalojado, En, Ubicado, UnSitio, EstadoAlDia, EstadosDe, Queda
<1>6. MemoriaAlDia(p)'
  BY <1>2, <1>3, <1>4, <1>5 DEF Ubicado, MemoriaAlDia
<1>7. Ubicado(p)'
  <2>1. pcb[p].programCounter = Len(Programa[p]) => pcb'[p].estado \in {"EXIT", "LIBERADO"}
    BY <1>2, <1>3, <1>4, <1>5 DEF Ubicado, ProgramaAlDia
  <2> QED BY <1>2, <1>3, <1>4, <1>5, <1>6, <2>1, TrasladoUbicado DEF EstadosDe
<1>8. TienePermiso(p) /\ TienePermiso(p)'
  BY <1>2, <1>3, <1>4, <1>5 DEF TienePermiso
<1>9. /\ hilo'["largo"] = hilo["largo"]
      /\ hilo'["mediano"] = hilo["mediano"]
      /\ hilo["atender"] = "devolverReady" /\ hilo'["atender"] = "esperar"
      /\ enMano'["largo"] = enMano["largo"]
      /\ enMano'["mediano"] = enMano["mediano"]
      /\ enMano'["atender"] = Ninguno
      /\ sem'["gradoMultiprog"] = sem["gradoMultiprog"] /\ sem["gradoMultiprog"] \in Nat
      /\ sem'["transicionar"] = sem["transicionar"] /\ sem["transicionar"] \in Nat
  BY DEF AtenderDesalojado, En, Post, Wait, Ir, IInv, TypeOK, Semaforos, Hilos
<1>10. ManosLibres'
  BY <1>9 DEF Orden, ManosLibres
<1>11. \A q \in Proc : q # p => Ajeno(q)
  BY <1>2 DEF Queda
<1>12. Uno(TienePermiso(p)) = 1 /\ Uno(TienePermiso(p)') = 1
  BY <1>8, <1>9 DEF Uno
<1> QED BY <1>1, <1>7, <1>9, <1>10, <1>11, <1>12, OrdenDelPaso

LEMMA AtenderTerminadoOrden ==
  ASSUME IInv, IInv', Orden, AtenderTerminado
  PROVE  Orden'
<1>1. ListasSinRepetidos'
  BY AtenderTerminadoEfecto
<1>2. PICK p \in Proc :
        /\ EstaEn("atender", p)
        /\ Queda(p, "EXIT") /\ Conserva(p)
        /\ pcb'[p].estado = "EXIT"
        /\ p \in enMemoria' <=> p \in enMemoria
  BY AtenderTerminadoEfecto
<1>3. Ubicado(p)
  BY DEF Orden
<1>4. {"NEW", "READY", "EXEC", "EXIT", "BLOCKED", "atender"} \subseteq Sitios
  BY DEF Sitios, Colas
<1>5. /\ \A s \in Sitios : (EstaEn(s, p) <=> s = "atender") /\ (EstaEn(s, p)' <=> s = "EXIT")
      /\ pcb[p].estado \in {"NEW", "READY"}
      /\ hilo["atender"] = "encolarExit"
  BY <1>2, <1>3, <1>4 DEF AtenderTerminado, En, Ubicado, UnSitio, EstadoAlDia, EstadosDe, Queda
<1>6. MemoriaAlDia(p)'
  BY <1>2, <1>3, <1>4, <1>5 DEF Ubicado, MemoriaAlDia
<1>7. Ubicado(p)'
  <2>1. pcb[p].programCounter = Len(Programa[p]) => pcb'[p].estado \in {"EXIT", "LIBERADO"}
    BY <1>2, <1>3, <1>4, <1>5 DEF Ubicado, ProgramaAlDia
  <2> QED BY <1>2, <1>3, <1>4, <1>5, <1>6, <2>1, TrasladoUbicado DEF EstadosDe
<1>8. TienePermiso(p) /\ TienePermiso(p)'
  BY <1>2, <1>3, <1>4, <1>5 DEF TienePermiso
<1>9. /\ hilo'["largo"] = hilo["largo"]
      /\ hilo'["mediano"] = hilo["mediano"]
      /\ hilo["atender"] = "encolarExit" /\ hilo'["atender"] = "esperar"
      /\ enMano'["largo"] = enMano["largo"]
      /\ enMano'["mediano"] = enMano["mediano"]
      /\ enMano'["atender"] = Ninguno
      /\ sem'["gradoMultiprog"] = sem["gradoMultiprog"] /\ sem["gradoMultiprog"] \in Nat
      /\ sem'["transicionar"] = sem["transicionar"] /\ sem["transicionar"] \in Nat
  BY DEF AtenderTerminado, En, Post, Wait, Ir, IInv, TypeOK, Semaforos, Hilos
<1>10. ManosLibres'
  BY <1>9 DEF Orden, ManosLibres
<1>11. \A q \in Proc : q # p => Ajeno(q)
  BY <1>2 DEF Queda
<1>12. Uno(TienePermiso(p)) = 1 /\ Uno(TienePermiso(p)') = 1
  BY <1>8, <1>9 DEF Uno
<1> QED BY <1>1, <1>7, <1>9, <1>10, <1>11, <1>12, OrdenDelPaso

LEMMA LiberarPcbOrden ==
  ASSUME IInv, IInv', Orden, LiberarPcb
  PROVE  Orden'
<1>1. ListasSinRepetidos'
  BY LiberarPcbEfecto
<1>2. PICK p \in Proc :
        /\ EstaEn("EXIT", p)
        /\ Queda(p, Ninguno) /\ Conserva(p)
        /\ pcb'[p].estado = "LIBERADO"
        /\ p \notin enMemoria'
  BY LiberarPcbEfecto
<1>3. Ubicado(p)
  BY DEF Orden
<1>4. {"NEW", "READY", "EXEC", "EXIT", "BLOCKED", "atender"} \subseteq Sitios
  BY DEF Sitios, Colas
<1>5. /\ \A s \in Sitios : (EstaEn(s, p) <=> s = "EXIT") /\ (EstaEn(s, p)' <=> s = Ninguno)
      /\ pcb[p].estado \in {"NEW", "EXIT"}
  BY <1>2, <1>3, <1>4 DEF Ubicado, UnSitio, EstadoAlDia, EstadosDe, Queda, Ninguno, Sitios, Colas
<1>6. MemoriaAlDia(p)'
  BY <1>2, <1>3, <1>4, <1>5 DEF Ubicado, MemoriaAlDia
<1>7. Ubicado(p)'
  <2>1. pcb[p].programCounter = Len(Programa[p]) => pcb'[p].estado \in {"EXIT", "LIBERADO"}
    BY <1>2, <1>3, <1>4, <1>5 DEF Ubicado, ProgramaAlDia
  <2> QED BY <1>2, <1>3, <1>4, <1>5, <1>6, <2>1, TrasladoUbicado DEF EstadosDe, Ninguno, Sitios, Colas
<1>8. TienePermiso(p) /\ ~TienePermiso(p)'
  BY <1>2, <1>3, <1>4, <1>5 DEF TienePermiso
<1>9. /\ hilo'["largo"] = hilo["largo"]
      /\ hilo'["mediano"] = hilo["mediano"]
      /\ hilo'["atender"] = hilo["atender"]
      /\ enMano'["largo"] = enMano["largo"]
      /\ enMano'["mediano"] = enMano["mediano"]
      /\ enMano'["atender"] = enMano["atender"]
      /\ sem'["gradoMultiprog"] = sem["gradoMultiprog"] + 1 /\ sem["gradoMultiprog"] \in Nat
      /\ sem'["transicionar"] = sem["transicionar"] /\ sem["transicionar"] \in Nat
  BY DEF LiberarPcb, En, Post, Wait, Ir, IInv, TypeOK, Semaforos, Hilos
<1>10. ManosLibres'
  BY <1>9 DEF Orden, ManosLibres
<1>11. \A q \in Proc : q # p => Ajeno(q)
  BY <1>2 DEF Queda
<1>12. /\ Uno(TienePermiso(p)) = 1 /\ Uno(TienePermiso(p)') = 0
       /\ Uno(hilo'["largo"] = "solicitarTabla") = Uno(hilo["largo"] = "solicitarTabla")
       /\ Uno(hilo["largo"] = "solicitarTabla") \in Nat
  BY <1>8, <1>9 DEF Uno
<1> QED BY <1>1, <1>7, <1>9, <1>10, <1>11, <1>12, OrdenDelPaso

\* Nothing about permits changes when __atender_pcb or the CPU go on with a process.
LEMMA SinPermisos ==
  ASSUME TypeOK, NEW p \in Proc, TienePermiso(p)' <=> TienePermiso(p),
         hilo'["largo"] = hilo["largo"],
         sem'["gradoMultiprog"] = sem["gradoMultiprog"], sem'["transicionar"] = sem["transicionar"]
  PROVE  sem'["gradoMultiprog"] + sem'["transicionar"] + Uno(hilo'["largo"] = "solicitarTabla")
           + Uno(TienePermiso(p)')
         = sem["gradoMultiprog"] + sem["transicionar"] + Uno(hilo["largo"] = "solicitarTabla")
           + Uno(TienePermiso(p))
<1>1. Uno(TienePermiso(p)') = Uno(TienePermiso(p))
  BY DEF Uno
<1> QED BY <1>1

LEMMA AtenderEnviarPcbOrden ==
  ASSUME IInv, IInv', Orden, AtenderEnviarPcb
  PROVE  Orden'
<1>1. ListasSinRepetidos'
  BY AtenderEnviarPcbEfecto
<1>2. PICK p \in Proc :
        /\ EstaEn("EXEC", p)
        /\ Queda(p, "EXEC") /\ MismaIO(p) /\ MismosRelojes(p)
        /\ pcb'[p] = pcb[p]
        /\ cpu'.proc = p /\ cpu'.programCounter = pcb[p].programCounter /\ cpu'.respuesta = Ninguno
        /\ p \in enMemoria' <=> p \in enMemoria
  BY AtenderEnviarPcbEfecto
<1>3. Ubicado(p)
  BY DEF Orden
<1>4. {"NEW", "READY", "EXEC", "EXIT", "BLOCKED", "atender"} \subseteq Sitios
  BY DEF Sitios, Colas
<1>5. /\ \A s \in Sitios : (EstaEn(s, p) <=> s = "EXEC") /\ (EstaEn(s, p)' <=> s = "EXEC")
      /\ pcb[p].estado \in {"NEW", "READY"}
  BY <1>2, <1>3, <1>4 DEF Ubicado, UnSitio, EstadoAlDia, EstadosDe, Queda
<1>6. UnSitio(p)' /\ EstadoAlDia(p)'
  BY <1>2, <1>4, <1>5 DEF UnSitio, EstadoAlDia, SinSitio, EstadosDe
<1>7. BloqueoAlDia(p)'
  BY <1>2, <1>3, <1>4, <1>5 DEF Ubicado, BloqueoAlDia, EnBloqueo, MismaIO
<1>8. RelojesAlDia(p)'
  <2>1. SinSitio(p)' <=> SinSitio(p)
    BY <1>5 DEF SinSitio
  <2> QED BY <1>2, <1>3, <1>4, <1>5, <2>1 DEF Ubicado, RelojesAlDia, MismosRelojes, Iniciado
<1>9. ProgramaAlDia(p)'
  <2>1. pcb[p].programCounter \in Nat /\ Len(Programa[p]) \in Nat
    BY ProgramaAssumption, LenProperties DEF IInv, TypeOK, Pcb
  <2> QED BY <1>2, <1>3, <1>4, <1>5, <2>1 DEF Ubicado, ProgramaAlDia
<1>10. MemoriaAlDia(p)'
  BY <1>2, <1>3, <1>4, <1>5 DEF Ubicado, MemoriaAlDia
<1>11. TienePermiso(p)' <=> TienePermiso(p)
  BY <1>2, <1>4, <1>5 DEF TienePermiso
<1>12. /\ hilo'["largo"] = hilo["largo"] /\ hilo'["mediano"] = hilo["mediano"]
       /\ hilo'["atender"] = "esperarCpu"
       /\ enMano'["largo"] = enMano["largo"] /\ enMano'["mediano"] = enMano["mediano"]
       /\ sem'["gradoMultiprog"] = sem["gradoMultiprog"] /\ sem'["transicionar"] = sem["transicionar"]
  BY DEF AtenderEnviarPcb, Wait, Ir, IInv, TypeOK, Semaforos, Hilos
<1>13. ManosLibres'
  BY <1>12 DEF Orden, ManosLibres
<1>14. \A q \in Proc : q # p => Ajeno(q)
  BY <1>2 DEF Queda
<1>15. Ubicado(p)'
  BY <1>6, <1>7, <1>8, <1>9, <1>10 DEF Ubicado
<1>16. TypeOK
  BY DEF IInv
<1> QED BY <1>1, <1>11, <1>12, <1>13, <1>14, <1>15, <1>16, SinPermisos, OrdenDelPaso

LEMMA AtenderRecibirPcbOrden ==
  ASSUME IInv, IInv', Orden, AtenderRecibirPcb
  PROVE  Orden'
<1>1. ListasSinRepetidos'
  BY AtenderRecibirPcbEfecto
<1>2. PICK p \in Proc :
        /\ EstaEn("EXEC", p) /\ cpu.proc = p
        /\ Queda(p, "atender") /\ MismaIO(p) /\ MismosRelojes(p)
        /\ pcb'[p].estado = pcb[p].estado
        /\ pcb'[p].programCounter = cpu.programCounter
        /\ cpu'.proc = Ninguno /\ cpu.respuesta \in {"desalojado", "terminado", "bloqueado"}
        /\ hilo'["atender"] = Tramo(cpu.respuesta)
        /\ p \in enMemoria' <=> p \in enMemoria
  BY AtenderRecibirPcbEfecto
<1>3. Ubicado(p)
  BY DEF Orden
<1>4. {"NEW", "READY", "EXEC", "EXIT", "BLOCKED", "atender"} \subseteq Sitios
  BY DEF Sitios, Colas
<1>5. /\ \A s \in Sitios : (EstaEn(s, p) <=> s = "EXEC") /\ (EstaEn(s, p)' <=> s = "atender")
      /\ pcb[p].estado \in {"NEW", "READY"}
  BY <1>2, <1>3, <1>4 DEF Ubicado, UnSitio, EstadoAlDia, EstadosDe, Queda
<1>6. /\ hilo'["atender"] \in {"devolverReady", "encolarExit", "encolarIO"}
      /\ hilo'["atender"] = "encolarExit" <=> cpu.respuesta = "terminado"
      /\ hilo["atender"] = "esperarCpu"
  BY <1>2 DEF Tramo, AtenderRecibirPcb, En
<1>7. /\ cpu.programCounter \in Nat /\ pcb[p].programCounter \in Nat /\ Len(Programa[p]) \in Nat
      /\ cpu.programCounter > pcb[p].programCounter /\ cpu.programCounter <= Len(Programa[p])
      /\ cpu.programCounter = Len(Programa[p]) => cpu.respuesta = "terminado"
  <2>1. cpu.programCounter \in Nat /\ pcb[p].programCounter \in Nat /\ Len(Programa[p]) \in Nat
    BY ProgramaAssumption, LenProperties DEF IInv, TypeOK, Pcb, EstadoCpu
  <2>2. cpu.respuesta # Ninguno
    BY <1>2 DEF Ninguno
  <2> QED BY <1>2, <1>3, <2>1, <2>2 DEF Ubicado, ProgramaAlDia
<1>8. UnSitio(p)' /\ EstadoAlDia(p)'
  BY <1>2, <1>4, <1>5, <1>6 DEF UnSitio, EstadoAlDia, SinSitio, EstadosDe
<1>9. BloqueoAlDia(p)'
  BY <1>2, <1>3, <1>4, <1>5, <1>6 DEF Ubicado, BloqueoAlDia, EnBloqueo, MismaIO
<1>10. RelojesAlDia(p)'
  <2>1. \A k \in 1..Len(Programa[p]) :
          /\ temporizador[<<p, k>>].en \notin {"inicio", "remover", "marcarFinal", "suspender"}
          /\ temporizador[<<p, k>>].en # "noCreado" => k < cpu.programCounter
    BY <1>3, <1>4, <1>5, <1>7 DEF Ubicado, RelojesAlDia
  <2> QED BY <1>2, <1>3, <1>4, <1>5, <1>7, <2>1, SMTT(20) DEF Ubicado, RelojesAlDia, MismosRelojes, Iniciado
<1>11. ProgramaAlDia(p)'
  <2>1. cpu'.proc # p
    BY <1>2, NingunoAssumption
  <2> QED BY <1>2, <1>4, <1>5, <1>6, <1>7, <2>1 DEF ProgramaAlDia
<1>12. MemoriaAlDia(p)'
  BY <1>2, <1>3, <1>4, <1>5 DEF Ubicado, MemoriaAlDia
<1>13. TienePermiso(p)' <=> TienePermiso(p)
  BY <1>2, <1>4, <1>5 DEF TienePermiso
<1>14. /\ hilo'["largo"] = hilo["largo"] /\ hilo'["mediano"] = hilo["mediano"]
       /\ UNCHANGED <<enMano, sem>>
  BY DEF AtenderRecibirPcb, Ir, IInv, TypeOK, Hilos
<1>15. ManosLibres'
  BY <1>6, <1>14 DEF Orden, ManosLibres
<1>16. \A q \in Proc : q # p => Ajeno(q)
  BY <1>2 DEF Queda
<1>17. Ubicado(p)'
  BY <1>8, <1>9, <1>10, <1>11, <1>12 DEF Ubicado
<1>18. TypeOK
  BY DEF IInv
<1> QED BY <1>1, <1>13, <1>14, <1>15, <1>16, <1>17, <1>18, SinPermisos, OrdenDelPaso

LEMMA AtenderEncolarIOOrden ==
  ASSUME IInv, IInv', Orden, AtenderEncolarIO
  PROVE  Orden'
<1>1. ListasSinRepetidos' /\ hilo["atender"] = "encolarIO" /\ hilo'["atender"] = "marcarBlocked"
  BY AtenderEncolarIOEfecto
<1>2. PICK p \in Proc :
        /\ EstaEn("atender", p) /\ ~EnBloqueo(p)
        /\ Queda(p, "atender") /\ MismosRelojes(p) /\ MismoPrograma(p)
        /\ EnColaIO(p)' /\ ~Durmiendo(p)'
        /\ pcb'[p].estado = pcb[p].estado
        /\ p \in enMemoria' <=> p \in enMemoria
  BY AtenderEncolarIOEfecto
<1>3. Ubicado(p)
  BY DEF Orden
<1>4. {"NEW", "READY", "EXEC", "EXIT", "BLOCKED", "atender"} \subseteq Sitios
  BY DEF Sitios, Colas
<1>5. /\ \A s \in Sitios : (EstaEn(s, p) <=> s = "atender") /\ (EstaEn(s, p)' <=> s = "atender")
      /\ pcb[p].estado \in {"NEW", "READY"}
  BY <1>1, <1>2, <1>3, <1>4 DEF Ubicado, UnSitio, EstadoAlDia, EstadosDe, Queda
<1>6. UnSitio(p)' /\ EstadoAlDia(p)'
  BY <1>1, <1>2, <1>4, <1>5 DEF UnSitio, EstadoAlDia, SinSitio, EstadosDe
<1>7. BloqueoAlDia(p)'
  BY <1>1, <1>2, <1>4, <1>5 DEF BloqueoAlDia, EnBloqueo
<1>8. RelojesAlDia(p)'
  <2>1. SinSitio(p)' <=> SinSitio(p)
    BY <1>5 DEF SinSitio
  <2> QED BY <1>2, <1>3, <1>4, <1>5, <2>1 DEF Ubicado, RelojesAlDia, MismosRelojes, MismoPrograma, Iniciado
<1>9. ProgramaAlDia(p)'
  BY <1>1, <1>2, <1>3, <1>4, <1>5 DEF Ubicado, ProgramaAlDia, MismoPrograma
<1>10. MemoriaAlDia(p)'
  BY <1>2, <1>3, <1>4, <1>5 DEF Ubicado, MemoriaAlDia
<1>11. TienePermiso(p)' <=> TienePermiso(p)
  BY <1>2, <1>4, <1>5 DEF TienePermiso
<1>12. /\ hilo'["largo"] = hilo["largo"] /\ hilo'["mediano"] = hilo["mediano"] /\ enMano' = enMano
       /\ sem'["gradoMultiprog"] = sem["gradoMultiprog"] /\ sem'["transicionar"] = sem["transicionar"]
  BY DEF AtenderEncolarIO, Post, Ir, IInv, TypeOK, Semaforos, Hilos
<1>13. ManosLibres'
  BY <1>1, <1>12 DEF Orden, ManosLibres
<1>14. \A q \in Proc : q # p => Ajeno(q)
  BY <1>2 DEF Queda
<1>15. Ubicado(p)'
  BY <1>6, <1>7, <1>8, <1>9, <1>10 DEF Ubicado
<1>16. TypeOK
  BY DEF IInv
<1> QED BY <1>1, <1>11, <1>12, <1>13, <1>14, <1>15, <1>16, SinPermisos, OrdenDelPaso

LEMMA AtenderMarcarBlockedOrden ==
  ASSUME IInv, IInv', Orden, AtenderMarcarBlocked
  PROVE  Orden'
<1>1. ListasSinRepetidos' /\ hilo["atender"] = "marcarBlocked" /\ hilo'["atender"] = "encolarBlocked"
  BY AtenderMarcarBlockedEfecto
<1>2. PICK p \in Proc :
        /\ EstaEn("atender", p)
        /\ Queda(p, "atender") /\ Conserva(p)
        /\ pcb'[p].estado = "BLOCKED"
        /\ p \in enMemoria' <=> p \in enMemoria
  BY AtenderMarcarBlockedEfecto
<1>3. Ubicado(p)
  BY DEF Orden
<1>4. {"NEW", "READY", "EXEC", "EXIT", "BLOCKED", "atender"} \subseteq Sitios
  BY DEF Sitios, Colas
<1>5. /\ \A s \in Sitios : (EstaEn(s, p) <=> s = "atender") /\ (EstaEn(s, p)' <=> s = "atender")
      /\ pcb[p].estado \in {"NEW", "READY"}
  BY <1>1, <1>2, <1>3, <1>4 DEF Ubicado, UnSitio, EstadoAlDia, EstadosDe, Queda
<1>6. UnSitio(p)' /\ EstadoAlDia(p)'
  BY <1>1, <1>2, <1>4, <1>5 DEF UnSitio, EstadoAlDia, SinSitio, EstadosDe
<1>7. BloqueoAlDia(p)'
  BY <1>1, <1>2, <1>3, <1>4, <1>5 DEF Ubicado, BloqueoAlDia, EnBloqueo, Conserva, MismaIO
<1>8. RelojesAlDia(p)'
  <2>1. \A k \in 1..Len(Programa[p]) :
          temporizador[<<p, k>>].en \notin {"inicio", "remover", "marcarFinal", "suspender"}
    BY <1>3, <1>4, <1>5 DEF Ubicado, RelojesAlDia
  <2> QED BY <1>2, <1>3, <1>4, <1>5, <2>1
          DEF Ubicado, RelojesAlDia, Conserva, MismosRelojes, MismoPrograma, Iniciado
<1>9. ProgramaAlDia(p)'
  BY <1>1, <1>2, <1>3, <1>4, <1>5 DEF Ubicado, ProgramaAlDia, Conserva, MismoPrograma
<1>10. MemoriaAlDia(p)'
  BY <1>2, <1>3, <1>4, <1>5 DEF Ubicado, MemoriaAlDia
<1>11. TienePermiso(p)' <=> TienePermiso(p)
  BY <1>2, <1>4, <1>5 DEF TienePermiso
<1>12. /\ hilo'["largo"] = hilo["largo"] /\ hilo'["mediano"] = hilo["mediano"]
       /\ UNCHANGED <<enMano, sem>>
  BY DEF AtenderMarcarBlocked, Ir, IInv, TypeOK, Hilos
<1>13. ManosLibres'
  BY <1>1, <1>12 DEF Orden, ManosLibres
<1>14. \A q \in Proc : q # p => Ajeno(q)
  BY <1>2 DEF Queda
<1>15. Ubicado(p)'
  BY <1>6, <1>7, <1>8, <1>9, <1>10 DEF Ubicado
<1>16. TypeOK
  BY DEF IInv
<1> QED BY <1>1, <1>11, <1>12, <1>13, <1>14, <1>15, <1>16, SinPermisos, OrdenDelPaso

LEMMA AtenderEncolarBlockedOrden ==
  ASSUME IInv, IInv', Orden, AtenderEncolarBlocked
  PROVE  Orden'
<1>1. ListasSinRepetidos' /\ hilo["atender"] = "encolarBlocked"
  BY AtenderEncolarBlockedEfecto
<1>2. PICK p \in Proc :
        /\ EstaEn("atender", p)
        /\ Queda(p, "BLOCKED") /\ MismaIO(p) /\ MismoPrograma(p)
        /\ pcb'[p].estado = pcb[p].estado /\ pcb'[p].vecesBloqueado = pcb[p].vecesBloqueado
        /\ pcb[p].programCounter \in 1..Len(Programa[p])
        /\ temporizador[<<p, pcb[p].programCounter>>].en = "noCreado"
        /\ temporizador'[<<p, pcb[p].programCounter>>].en = "inicio"
        /\ \A k \in 1..Len(Programa[p]) :
             k # pcb[p].programCounter => temporizador'[<<p, k>>] = temporizador[<<p, k>>]
        /\ p \in enMemoria' <=> p \in enMemoria
  BY AtenderEncolarBlockedEfecto
<1>3. Ubicado(p)
  BY DEF Orden
<1>4. {"NEW", "READY", "EXEC", "EXIT", "BLOCKED", "atender"} \subseteq Sitios
  BY DEF Sitios, Colas
<1>5. /\ \A s \in Sitios : (EstaEn(s, p) <=> s = "atender") /\ (EstaEn(s, p)' <=> s = "BLOCKED")
      /\ pcb[p].estado = "BLOCKED"
  BY <1>1, <1>2, <1>3, <1>4 DEF Ubicado, UnSitio, EstadoAlDia, EstadosDe, Queda
<1>6. UnSitio(p)' /\ EstadoAlDia(p)'
  BY <1>2, <1>4, <1>5 DEF UnSitio, EstadoAlDia, SinSitio, EstadosDe
<1>7. BloqueoAlDia(p)'
  BY <1>1, <1>2, <1>3, <1>4, <1>5 DEF Ubicado, BloqueoAlDia, EnBloqueo, MismaIO
<1>8. pcb'[p].programCounter = pcb[p].programCounter
  BY <1>2 DEF MismoPrograma
<1>9. RelojesAlDia(p)'
  <2>1. \A k \in 1..Len(Programa[p]) :
          /\ temporizador[<<p, k>>].en \notin {"inicio", "remover", "marcarFinal", "suspender"}
          /\ temporizador[<<p, k>>].en # "noCreado" => k < pcb[p].programCounter
    BY <1>3, <1>4, <1>5 DEF Ubicado, RelojesAlDia
  <2>2. pcb[p].programCounter \in Nat /\ Len(Programa[p]) \in Nat
    BY ProgramaAssumption, LenProperties DEF IInv, TypeOK, Pcb
  <2> QED BY <1>2, <1>3, <1>4, <1>5, <1>8, <2>1, <2>2 DEF Ubicado, RelojesAlDia, Iniciado
<1>10. ProgramaAlDia(p)'
  BY <1>1, <1>2, <1>3, <1>4, <1>5 DEF Ubicado, ProgramaAlDia, MismoPrograma
<1>11. MemoriaAlDia(p)'
  BY <1>2, <1>3, <1>4, <1>5 DEF Ubicado, MemoriaAlDia
<1>12. TienePermiso(p)' <=> TienePermiso(p)
  BY <1>2, <1>4, <1>5 DEF TienePermiso
<1>13. /\ hilo'["largo"] = hilo["largo"] /\ hilo'["mediano"] = hilo["mediano"]
       /\ enMano'["largo"] = enMano["largo"] /\ enMano'["mediano"] = enMano["mediano"]
       /\ enMano'["atender"] = Ninguno
       /\ sem'["gradoMultiprog"] = sem["gradoMultiprog"] /\ sem'["transicionar"] = sem["transicionar"]
  BY DEF AtenderEncolarBlocked, Post, Ir, IInv, TypeOK, Semaforos, Hilos
<1>14. ManosLibres'
  BY <1>13 DEF Orden, ManosLibres
<1>15. \A q \in Proc : q # p => Ajeno(q)
  BY <1>2 DEF Queda
<1>16. Ubicado(p)'
  BY <1>6, <1>7, <1>9, <1>10, <1>11 DEF Ubicado
<1>17. TypeOK
  BY DEF IInv
<1> QED BY <1>1, <1>12, <1>13, <1>14, <1>15, <1>16, <1>17, SinPermisos, OrdenDelPaso

LEMMA IOIniciarOrden ==
  ASSUME IInv, IInv', Orden, IOIniciar
  PROVE  Orden'
<1>1. ListasSinRepetidos'
  BY IOIniciarEfecto
<1>2. PICK p \in Proc :
        /\ \A q \in Proc : q # p => Ajeno(q)
        /\ MismoSitio(p) /\ MismosRelojes(p) /\ MismoPrograma(p)
        /\ EnColaIO(p) /\ ~EnColaIO(p)' /\ Durmiendo(p)'
        /\ pcb'[p].estado = pcb[p].estado
        /\ p \in enMemoria' <=> p \in enMemoria
  BY IOIniciarEfecto
<1>3. Ubicado(p)
  BY DEF Orden
<1>4. "atender" \in Sitios
  BY DEF Sitios
<1>5. BloqueoAlDia(p)'
  BY <1>2, <1>3, <1>4 DEF Ubicado, BloqueoAlDia, EnBloqueo, MismoSitio
<1>6. Ubicado(p)' /\ (TienePermiso(p)' <=> TienePermiso(p))
  <2>1. pcb'[p].programCounter = pcb[p].programCounter
    BY <1>2 DEF MismoPrograma
  <2> QED BY <1>2, <1>3, <1>5, <2>1, QuietoAlDia DEF Ubicado
<1>7. /\ \A h \in {"largo", "mediano", "atender"} : hilo'[h] = hilo[h] /\ enMano'[h] = enMano[h]
      /\ \A s \in {"gradoMultiprog", "transicionar"} : sem'[s] = sem[s]
      /\ TypeOK
  BY DEF IOIniciar, Wait, Ir, IInv, TypeOK, Semaforos, Hilos
<1>8. ManosLibres'
  BY <1>7 DEF Orden, ManosLibres
<1> QED BY <1>1, <1>2, <1>6, <1>7, <1>8, SinPermisos, OrdenDelPaso

LEMMA IOVolverAReadyOrden ==
  ASSUME IInv, IInv', Orden, Puntual, IOVolverAReady
  PROVE  Orden'
<1>1. ListasSinRepetidos'
  BY IOVolverAReadyEfecto
<1>2. PICK p \in Proc :
        /\ pcb[p].estado = "BLOCKED"
        /\ ~EstaEn("atender", p)
        /\ \A k \in 1..Len(Programa[p]) :
             temporizador[<<p, k>>].en \notin {"inicio", "remover", "marcarFinal", "suspender"}
        /\ Queda(p, "READY") /\ MismosRelojes(p) /\ MismoPrograma(p)
        /\ ~EnColaIO(p)' /\ ~Durmiendo(p)'
        /\ pcb'[p].estado = "READY"
        /\ p \in enMemoria' <=> p \in enMemoria
  BY IOVolverAReadyEfecto
<1>3. Ubicado(p)
  BY DEF Orden
<1>4. {"NEW", "READY", "EXEC", "EXIT", "BLOCKED", "atender"} \subseteq Sitios
  BY DEF Sitios, Colas
<1>5. \A s \in Sitios : EstaEn(s, p)' <=> s = "READY"
  BY <1>2 DEF Queda
<1>6. UnSitio(p)' /\ EstadoAlDia(p)'
  BY <1>2, <1>4, <1>5 DEF UnSitio, EstadoAlDia, SinSitio, EstadosDe
<1>7. BloqueoAlDia(p)'
  BY <1>2, <1>4, <1>5 DEF BloqueoAlDia, EnBloqueo
<1>8. RelojesAlDia(p)'
  BY <1>2, <1>3, <1>4, <1>5 DEF RelojesAlDia, Ubicado, MismosRelojes, MismoPrograma, Iniciado
<1>9. ProgramaAlDia(p)'
  BY <1>2, <1>3, <1>4, <1>5 DEF Ubicado, ProgramaAlDia, MismoPrograma
<1>10. MemoriaAlDia(p)'
  BY <1>2, <1>3, <1>4, <1>5 DEF Ubicado, MemoriaAlDia
<1>11. TienePermiso(p)' <=> TienePermiso(p)
  BY <1>2 DEF TienePermiso
<1>12. /\ \A h \in {"largo", "mediano", "atender"} : hilo'[h] = hilo[h] /\ enMano'[h] = enMano[h]
       /\ sem' = sem
       /\ TypeOK
  BY DEF IOVolverAReady, Ir, IInv, TypeOK, Hilos
<1>13. ManosLibres'
  BY <1>12 DEF Orden, ManosLibres
<1>14. \A q \in Proc : q # p => Ajeno(q)
  BY <1>2 DEF Queda
<1>15. Ubicado(p)'
  BY <1>6, <1>7, <1>8, <1>9, <1>10 DEF Ubicado
<1> QED BY <1>1, <1>11, <1>12, <1>13, <1>14, <1>15, SinPermisos, OrdenDelPaso

LEMMA IOVolverASusreadyOrden ==
  ASSUME IInv, IInv', Orden, IOVolverASusready
  PROVE  Orden'
<1>1. ListasSinRepetidos'
  BY IOVolverASusreadyEfecto
<1>2. PICK p \in Proc :
        /\ pcb[p].estado = "SUSPENDED_BLOCKED" /\ EstaEn("SUSPENDED_BLOCKED", p)
        /\ Queda(p, "SUSPENDED_READY") /\ MismosRelojes(p) /\ MismoPrograma(p)
        /\ ~EnColaIO(p)' /\ ~Durmiendo(p)'
        /\ pcb'[p].estado = "SUSPENDED_READY"
        /\ p \in enMemoria' <=> p \in enMemoria
  BY IOVolverASusreadyEfecto
<1>3. Ubicado(p)
  BY DEF Orden
<1>4. {"NEW", "READY", "EXEC", "EXIT", "BLOCKED", "SUSPENDED_BLOCKED", "SUSPENDED_READY", "atender"}
        \subseteq Sitios
  BY DEF Sitios, Colas
<1>5. \A s \in Sitios : (EstaEn(s, p) <=> s = "SUSPENDED_BLOCKED") /\ (EstaEn(s, p)' <=> s = "SUSPENDED_READY")
  BY <1>2, <1>3, <1>4 DEF Ubicado, UnSitio, Queda
<1>6. UnSitio(p)' /\ EstadoAlDia(p)'
  BY <1>2, <1>4, <1>5 DEF UnSitio, EstadoAlDia, SinSitio, EstadosDe
<1>7. BloqueoAlDia(p)'
  BY <1>2, <1>4, <1>5 DEF BloqueoAlDia, EnBloqueo
<1>8. RelojesAlDia(p)'
  <2>1. \A k \in 1..Len(Programa[p]) :
          temporizador[<<p, k>>].en \notin {"inicio", "remover", "marcarFinal", "suspender"}
    BY <1>2, <1>3, <1>4, <1>5 DEF RelojesAlDia, Ubicado
  <2> QED BY <1>2, <1>3, <1>4, <1>5, <2>1 DEF RelojesAlDia, Ubicado, MismosRelojes, MismoPrograma, Iniciado
<1>9. ProgramaAlDia(p)'
  BY <1>2, <1>3, <1>4, <1>5 DEF Ubicado, ProgramaAlDia, MismoPrograma
<1>10. MemoriaAlDia(p)'
  BY <1>2, <1>3, <1>4, <1>5 DEF Ubicado, MemoriaAlDia
<1>11. TienePermiso(p)' <=> TienePermiso(p)
  BY <1>2 DEF TienePermiso
<1>12. /\ \A h \in {"largo", "mediano", "atender"} : hilo'[h] = hilo[h] /\ enMano'[h] = enMano[h]
       /\ sem' = sem
       /\ TypeOK
  BY DEF IOVolverASusready, Ir, IInv, TypeOK, Hilos
<1>13. ManosLibres'
  BY <1>12 DEF Orden, ManosLibres
<1>14. \A q \in Proc : q # p => Ajeno(q)
  BY <1>2 DEF Queda
<1>15. Ubicado(p)'
  BY <1>6, <1>7, <1>8, <1>9, <1>10 DEF Ubicado
<1> QED BY <1>1, <1>11, <1>12, <1>13, <1>14, <1>15, SinPermisos, OrdenDelPaso

\* The CPU advances in the program; it stops at the EXIT, which is the last instruction.
LEMMA CpuOrden ==
  ASSUME IInv, IInv', Orden, CpuSeguir \/ CpuDetener
  PROVE  Orden'
<1>1. UNCHANGED <<cola, sem, hilo, enMano, pcb, temporizador, enMemoria>>
  BY CpuEfecto
<1>2. PICK p \in Proc :
        /\ \A q \in Proc : q # p => Ajeno(q)
        /\ MismoSitio(p) /\ MismaIO(p) /\ MismosRelojes(p)
        /\ cpu.proc = p /\ cpu.respuesta = Ninguno
        /\ cpu'.proc = p /\ cpu'.programCounter = cpu.programCounter + 1
        /\ CpuSeguir => /\ Programa[p][cpu.programCounter + 1] = "NO_OP"
                        /\ cpu'.respuesta \in {Ninguno, "desalojado"}
        /\ CpuDetener => cpu'.respuesta = IF Programa[p][cpu.programCounter + 1] = "EXIT"
                                          THEN "terminado" ELSE "bloqueado"
  BY CpuEfecto
<1>3. Ubicado(p)
  BY DEF Orden
<1>4. /\ pcb[p].programCounter \in Nat /\ cpu.programCounter \in Nat
      /\ Len(Programa[p]) \in Nat
      /\ \A i \in 1..Len(Programa[p]) : Programa[p][i] = "EXIT" <=> i = Len(Programa[p])
  BY ProgramaAssumption, LenProperties DEF IInv, TypeOK, Pcb, EstadoCpu
<1>5. cpu.programCounter < Len(Programa[p])
  BY <1>2, <1>3, <1>4 DEF Ubicado, ProgramaAlDia, Ninguno
<1>6. cpu'.programCounter = Len(Programa[p]) => cpu'.respuesta = "terminado"
  <2> SUFFICES ASSUME cpu'.programCounter = Len(Programa[p])
               PROVE  cpu'.respuesta = "terminado"
    OBVIOUS
  <2>1. Programa[p][cpu.programCounter + 1] = "EXIT"
    BY <1>2, <1>4, <1>5
  <2> QED BY <1>2, <2>1
<1>7. "atender" \in Sitios
  BY DEF Sitios
<1>8. ProgramaAlDia(p)'
  BY <1>1, <1>2, <1>3, <1>4, <1>5, <1>6, <1>7 DEF Ubicado, ProgramaAlDia, MismoSitio
<1>9. Ubicado(p)' /\ (TienePermiso(p)' <=> TienePermiso(p))
  BY <1>1, <1>2, <1>3, <1>8, QuietoAlDia DEF Ubicado
<1>10. ListasSinRepetidos' /\ ManosLibres' /\ TypeOK
  BY <1>1 DEF Orden, ListasSinRepetidos, ManosLibres, IInv
<1> QED BY <1>1, <1>2, <1>9, <1>10, SinPermisos, OrdenDelPaso

\* The timer takes the next number: no other block has it.
LEMMA TemporizadorIniciarOrden ==
  ASSUME IInv, IInv', Orden, NEW t \in Temporizadores, TemporizadorIniciar(t)
  PROVE  Orden'
<1>1. UNCHANGED <<cola, sem, hilo, enMano, enMemoria>>
  BY TemporizadorIniciarEfecto
<1>2. PICK p \in Proc : \E k \in 1..Len(Programa[p]) :
        /\ t = <<p, k>> /\ temporizador[<<p, k>>].en = "inicio"
        /\ \A q \in Proc : q # p => Ajeno(q)
        /\ MismoSitio(p) /\ MismaIO(p) /\ MismoPrograma(p)
        /\ pcb'[p].estado = pcb[p].estado
        /\ pcb'[p].vecesBloqueado = pcb[p].vecesBloqueado + 1
        /\ temporizador'[<<p, k>>] = [en |-> "dormir", vez |-> pcb[p].vecesBloqueado + 1]
        /\ \A j \in 1..Len(Programa[p]) : j # k => temporizador'[<<p, j>>] = temporizador[<<p, j>>]
  BY TemporizadorIniciarEfecto
<1>3. PICK k \in 1..Len(Programa[p]) :
        /\ temporizador[<<p, k>>].en = "inicio"
        /\ temporizador'[<<p, k>>] = [en |-> "dormir", vez |-> pcb[p].vecesBloqueado + 1]
        /\ \A j \in 1..Len(Programa[p]) : j # k => temporizador'[<<p, j>>] = temporizador[<<p, j>>]
  BY <1>2
<1>4. Ubicado(p)
  BY DEF Orden
<1>5. /\ pcb[p].vecesBloqueado \in Nat
      /\ \A j \in 1..Len(Programa[p]) : temporizador[<<p, j>>].vez \in Nat
      /\ pcb'[p].programCounter = pcb[p].programCounter
  <2>1. \A j \in 1..Len(Programa[p]) : <<p, j>> \in Temporizadores
    BY DEF Temporizadores
  <2> QED BY <1>2, <2>1 DEF IInv, TypeOK, Pcb, Reloj, MismoPrograma
<1>6. /\ "atender" \in Sitios /\ "BLOCKED" \in Sitios
      /\ SinSitio(p)' <=> SinSitio(p)
  BY <1>2 DEF Sitios, Colas, SinSitio, MismoSitio
<1>7. EstaEn("BLOCKED", p) /\ k = pcb[p].programCounter
  BY <1>3, <1>4 DEF Ubicado, RelojesAlDia
<1>8. RelojesAlDia(p)'
  <2>1. ASSUME NEW j \in 1..Len(Programa[p])
        PROVE  /\ temporizador'[<<p, j>>].en # "noCreado" =>
                    j <= pcb'[p].programCounter /\ (EstaEn("atender", p)' => j < pcb'[p].programCounter)
               /\ Iniciado(<<p, j>>)' => temporizador'[<<p, j>>].vez <= pcb'[p].vecesBloqueado
               /\ temporizador'[<<p, j>>].en \in {"inicio", "remover"} =>
                    EstaEn("BLOCKED", p)' /\ j = pcb'[p].programCounter
               /\ temporizador'[<<p, j>>].en \in {"marcarFinal", "suspender"} =>
                    SinSitio(p)' /\ pcb'[p].estado = "BLOCKED" /\ j = pcb'[p].programCounter
    <3>1. CASE j = k
      <4>1. /\ temporizador[<<p, j>>].en # "noCreado" =>
                 j <= pcb[p].programCounter /\ (EstaEn("atender", p) => j < pcb[p].programCounter)
        BY <1>4 DEF Ubicado, RelojesAlDia
      <4> QED BY <3>1, <4>1, <1>2, <1>3, <1>5, <1>6, <1>7 DEF MismoSitio, Iniciado
    <3>2. CASE j # k
      <4>1. /\ temporizador[<<p, j>>].en # "noCreado" =>
                 j <= pcb[p].programCounter /\ (EstaEn("atender", p) => j < pcb[p].programCounter)
            /\ Iniciado(<<p, j>>) => temporizador[<<p, j>>].vez <= pcb[p].vecesBloqueado
            /\ temporizador[<<p, j>>].en \in {"inicio", "remover"} =>
                 EstaEn("BLOCKED", p) /\ j = pcb[p].programCounter
            /\ temporizador[<<p, j>>].en \in {"marcarFinal", "suspender"} =>
                 SinSitio(p) /\ pcb[p].estado = "BLOCKED" /\ j = pcb[p].programCounter
        BY <1>4 DEF Ubicado, RelojesAlDia
      <4>2. temporizador'[<<p, j>>] = temporizador[<<p, j>>]
        BY <3>2, <1>3
      <4> QED BY <4>1, <4>2, <1>2, <1>5, <1>6 DEF MismoSitio, Iniciado
    <3> QED BY <3>1, <3>2
  <2>2. ASSUME NEW i \in 1..Len(Programa[p]), NEW j \in 1..Len(Programa[p]),
               Iniciado(<<p, j>>)', Iniciado(<<p, i>>)',
               temporizador'[<<p, j>>].vez = temporizador'[<<p, i>>].vez
        PROVE  j = i
    <3>1. \A m \in 1..Len(Programa[p]) : m # k /\ Iniciado(<<p, m>>)' =>
            temporizador'[<<p, m>>].vez \in Nat /\ temporizador'[<<p, m>>].vez <= pcb[p].vecesBloqueado
      BY <1>3, <1>4, <1>5 DEF Ubicado, RelojesAlDia, Iniciado
    <3>2. temporizador'[<<p, k>>].vez = pcb[p].vecesBloqueado + 1
      BY <1>3
    <3>3. CASE i # k /\ j # k
      <4>1. /\ temporizador'[<<p, j>>] = temporizador[<<p, j>>]
            /\ temporizador'[<<p, i>>] = temporizador[<<p, i>>]
        BY <3>3, <1>3
      <4> QED BY <4>1, <2>2, <1>4 DEF Ubicado, RelojesAlDia, Iniciado
    <3>4. CASE i = k /\ j # k
      BY <3>1, <3>2, <3>4, <2>2, <1>5
    <3>5. CASE i # k /\ j = k
      BY <3>1, <3>2, <3>5, <2>2, <1>5
    <3> QED BY <3>3, <3>4, <3>5
  <2>3. /\ pcb'[p].programCounter \in 1..Len(Programa[p])
        /\ temporizador'[<<p, pcb'[p].programCounter>>].en # "noCreado"
        /\ temporizador'[<<p, pcb'[p].programCounter>>].vez = pcb'[p].vecesBloqueado
    BY <1>2, <1>3, <1>5, <1>7
  <2> QED BY <2>1, <2>2, <2>3 DEF RelojesAlDia
<1>9. Ubicado(p)' /\ (TienePermiso(p)' <=> TienePermiso(p))
  BY <1>1, <1>2, <1>4, <1>8, QuietoAlDia DEF Ubicado
<1>10. ListasSinRepetidos' /\ ManosLibres' /\ TypeOK
  BY <1>1 DEF Orden, ListasSinRepetidos, ManosLibres, IInv
<1>11. \A q \in Proc : q # p => Ajeno(q)
  BY <1>2
<1> QED BY <1>1, <1>9, <1>10, <1>11, SinPermisos, OrdenDelPaso

\* The clock of one block moves on; the processes stay where they are.
LEMMA TemporizadorMueveOrden ==
  ASSUME IInv, IInv', Orden, Puntual, NEW t \in Temporizadores,
         TemporizadorVencer(t) \/ TemporizadorMarcarFinal(t) \/ TemporizadorNoSuspender(t)
  PROVE  Orden'
<1>1. UNCHANGED <<cola, sem, hilo, enMano, enMemoria>>
  BY TemporizadorMueveEfecto
<1>2. PICK p \in Proc : \E k \in 1..Len(Programa[p]) : \E l \in {"remover", "suspender", "fin"} :
        /\ t = <<p, k>>
        /\ \A q \in Proc : q # p => Ajeno(q)
        /\ MismoSitio(p) /\ MismaIO(p) /\ MismoPrograma(p)
        /\ pcb'[p].estado = pcb[p].estado
        /\ pcb'[p].vecesBloqueado = pcb[p].vecesBloqueado
        /\ temporizador'[<<p, k>>] = [temporizador[<<p, k>>] EXCEPT !.en = l]
        /\ \A j \in 1..Len(Programa[p]) : j # k => temporizador'[<<p, j>>] = temporizador[<<p, j>>]
        /\ temporizador[<<p, k>>].en \in {"dormir", "marcarFinal", "suspender"}
        /\ l = "remover" => /\ temporizador[<<p, k>>].en = "dormir"
                            /\ EstaEn("BLOCKED", p)
                            /\ pcb[p].vecesBloqueado = temporizador[<<p, k>>].vez
                            /\ \A j \in 1..Len(Programa[p]) : temporizador[<<p, j>>].en # "inicio"
        /\ l = "suspender" => temporizador[<<p, k>>].en = "marcarFinal"
  BY TemporizadorMueveEfecto
<1>3. PICK k \in 1..Len(Programa[p]) : \E l \in {"remover", "suspender", "fin"} :
        /\ temporizador'[<<p, k>>] = [temporizador[<<p, k>>] EXCEPT !.en = l]
        /\ \A j \in 1..Len(Programa[p]) : j # k => temporizador'[<<p, j>>] = temporizador[<<p, j>>]
        /\ temporizador[<<p, k>>].en \in {"dormir", "marcarFinal", "suspender"}
        /\ l = "remover" => /\ temporizador[<<p, k>>].en = "dormir"
                            /\ EstaEn("BLOCKED", p)
                            /\ pcb[p].vecesBloqueado = temporizador[<<p, k>>].vez
                            /\ \A j \in 1..Len(Programa[p]) : temporizador[<<p, j>>].en # "inicio"
        /\ l = "suspender" => temporizador[<<p, k>>].en = "marcarFinal"
  BY <1>2
<1>4. PICK l \in {"remover", "suspender", "fin"} :
        /\ temporizador'[<<p, k>>] = [temporizador[<<p, k>>] EXCEPT !.en = l]
        /\ \A j \in 1..Len(Programa[p]) : j # k => temporizador'[<<p, j>>] = temporizador[<<p, j>>]
        /\ temporizador[<<p, k>>].en \in {"dormir", "marcarFinal", "suspender"}
        /\ l = "remover" => /\ temporizador[<<p, k>>].en = "dormir"
                            /\ EstaEn("BLOCKED", p)
                            /\ pcb[p].vecesBloqueado = temporizador[<<p, k>>].vez
                            /\ \A j \in 1..Len(Programa[p]) : temporizador[<<p, j>>].en # "inicio"
        /\ l = "suspender" => temporizador[<<p, k>>].en = "marcarFinal"
  BY <1>3
<1>5. Ubicado(p) /\ RelojesAlDia(p)
  BY DEF Orden, Ubicado
<1>6. pcb'[p].programCounter = pcb[p].programCounter
  BY <1>2 DEF MismoPrograma
<1>7. /\ "atender" \in Sitios /\ "BLOCKED" \in Sitios
      /\ SinSitio(p)' <=> SinSitio(p)
  BY <1>2 DEF Sitios, Colas, SinSitio, MismoSitio
<1>8. /\ \A j \in 1..Len(Programa[p]) : temporizador'[<<p, j>>].vez = temporizador[<<p, j>>].vez
      /\ temporizador'[<<p, k>>].en = l
      /\ \A j \in 1..Len(Programa[p]) : Iniciado(<<p, j>>)' <=> Iniciado(<<p, j>>)
  <2>1. temporizador[<<p, k>>] \in Reloj
    <3>1. <<p, k>> \in Temporizadores
      BY DEF Temporizadores
    <3> QED BY <3>1 DEF IInv, TypeOK
  <2>2. temporizador'[<<p, k>>].vez = temporizador[<<p, k>>].vez /\ temporizador'[<<p, k>>].en = l
    BY <1>4, <2>1 DEF Reloj
  <2>3. Iniciado(<<p, k>>) /\ Iniciado(<<p, k>>)'
    BY <1>4, <2>2 DEF Iniciado
  <2> QED BY <1>4, <2>2, <2>3 DEF Iniciado
<1>9. RelojesAlDia(p)'
  <2>1. ASSUME NEW j \in 1..Len(Programa[p])
        PROVE  /\ temporizador'[<<p, j>>].en # "noCreado" =>
                    j <= pcb'[p].programCounter /\ (EstaEn("atender", p)' => j < pcb'[p].programCounter)
               /\ Iniciado(<<p, j>>)' => temporizador'[<<p, j>>].vez <= pcb'[p].vecesBloqueado
               /\ temporizador'[<<p, j>>].en \in {"inicio", "remover"} =>
                    EstaEn("BLOCKED", p)' /\ j = pcb'[p].programCounter
               /\ temporizador'[<<p, j>>].en \in {"marcarFinal", "suspender"} =>
                    SinSitio(p)' /\ pcb'[p].estado = "BLOCKED" /\ j = pcb'[p].programCounter
    <3>1. /\ temporizador[<<p, j>>].en # "noCreado" =>
               j <= pcb[p].programCounter /\ (EstaEn("atender", p) => j < pcb[p].programCounter)
          /\ Iniciado(<<p, j>>) => temporizador[<<p, j>>].vez <= pcb[p].vecesBloqueado
          /\ temporizador[<<p, j>>].en \in {"inicio", "remover"} =>
               EstaEn("BLOCKED", p) /\ j = pcb[p].programCounter
          /\ temporizador[<<p, j>>].en \in {"marcarFinal", "suspender"} =>
               SinSitio(p) /\ pcb[p].estado = "BLOCKED" /\ j = pcb[p].programCounter
      BY <1>5 DEF RelojesAlDia
    <3>2. EstaEn("atender", p)' => EstaEn("atender", p)
      BY <1>2, <1>7 DEF MismoSitio
    <3>3. temporizador'[<<p, j>>].en # "noCreado" =>
            j <= pcb'[p].programCounter /\ (EstaEn("atender", p)' => j < pcb'[p].programCounter)
      BY <3>1, <3>2, <1>4, <1>6
    <3>4. Iniciado(<<p, j>>)' => temporizador'[<<p, j>>].vez <= pcb'[p].vecesBloqueado
      BY <3>1, <1>2, <1>8
    <3>5. CASE j # k
      BY <3>1, <3>3, <3>4, <3>5, <1>2, <1>4, <1>6, <1>7 DEF MismoSitio
    <3>6. CASE j = k
      <4>1. l = "remover" => EstaEn("BLOCKED", p)' /\ j = pcb'[p].programCounter
        <5> SUFFICES ASSUME l = "remover"
                     PROVE  EstaEn("BLOCKED", p)' /\ j = pcb'[p].programCounter
          OBVIOUS
        <5>1. PICK i \in 1..Len(Programa[p]) : i = pcb[p].programCounter
          BY <1>4, <1>5 DEF RelojesAlDia
        <5>2. Iniciado(<<p, i>>) /\ temporizador[<<p, i>>].vez = pcb[p].vecesBloqueado
          BY <1>4, <1>5, <5>1 DEF RelojesAlDia, Iniciado
        <5>3. Iniciado(<<p, k>>) /\ temporizador[<<p, k>>].vez = pcb[p].vecesBloqueado
          BY <1>4 DEF Iniciado
        <5>4. i = k
          BY <1>5, <5>2, <5>3 DEF RelojesAlDia
        <5> QED BY <5>1, <5>4, <3>6, <1>2, <1>4, <1>6, <1>7 DEF MismoSitio
      <4> QED BY <4>1, <3>1, <3>3, <3>4, <3>6, <1>2, <1>4, <1>6, <1>7, <1>8
    <3> QED BY <3>5, <3>6
  <2>2. ASSUME NEW i \in 1..Len(Programa[p]), NEW j \in 1..Len(Programa[p]),
               Iniciado(<<p, j>>)', Iniciado(<<p, i>>)',
               temporizador'[<<p, j>>].vez = temporizador'[<<p, i>>].vez
        PROVE  j = i
    BY <2>2, <1>5, <1>8 DEF RelojesAlDia
  <2>3. EstaEn("BLOCKED", p)' =>
          /\ pcb'[p].programCounter \in 1..Len(Programa[p])
          /\ temporizador'[<<p, pcb'[p].programCounter>>].en # "noCreado"
          /\ \/ temporizador'[<<p, pcb'[p].programCounter>>].en = "inicio"
             \/ temporizador'[<<p, pcb'[p].programCounter>>].vez = pcb'[p].vecesBloqueado
    <3> SUFFICES ASSUME EstaEn("BLOCKED", p)
                 PROVE  /\ pcb[p].programCounter \in 1..Len(Programa[p])
                        /\ temporizador'[<<p, pcb[p].programCounter>>].en # "noCreado"
                        /\ \/ temporizador'[<<p, pcb[p].programCounter>>].en = "inicio"
                           \/ temporizador'[<<p, pcb[p].programCounter>>].vez = pcb[p].vecesBloqueado
      BY <1>2, <1>6, <1>7 DEF MismoSitio
    <3>1. PICK i \in 1..Len(Programa[p]) : i = pcb[p].programCounter
      BY <1>5 DEF RelojesAlDia
    <3>2. /\ temporizador[<<p, i>>].en # "noCreado"
          /\ \/ temporizador[<<p, i>>].en = "inicio"
             \/ temporizador[<<p, i>>].vez = pcb[p].vecesBloqueado
      BY <1>5, <3>1 DEF RelojesAlDia
    <3>3. temporizador[<<p, i>>].en = "inicio" => i # k
      BY <1>4
    <3> QED BY <3>1, <3>2, <3>3, <1>4, <1>8
  <2> QED BY <2>1, <2>2, <2>3 DEF RelojesAlDia
<1>10. Ubicado(p)' /\ (TienePermiso(p)' <=> TienePermiso(p))
  BY <1>1, <1>2, <1>5, <1>9, QuietoAlDia DEF Ubicado
<1>11. ListasSinRepetidos' /\ ManosLibres' /\ TypeOK
  BY <1>1 DEF Orden, ListasSinRepetidos, ManosLibres, IInv
<1>12. \A q \in Proc : q # p => Ajeno(q)
  BY <1>2
<1> QED BY <1>1, <1>10, <1>11, <1>12, SinPermisos, OrdenDelPaso

\* The process is in no list from here until it is suspended.
LEMMA TemporizadorRemoverOrden ==
  ASSUME IInv, IInv', Orden, NEW t \in Temporizadores, TemporizadorRemover(t)
  PROVE  Orden'
<1>1. ListasSinRepetidos'
  BY TemporizadorRemoverEfecto
<1>2. PICK p \in Proc : \E k \in 1..Len(Programa[p]) :
        /\ t = <<p, k>>
        /\ temporizador[<<p, k>>].en = "remover" /\ EstaEn("BLOCKED", p)
        /\ Queda(p, Ninguno) /\ MismaIO(p) /\ MismoPrograma(p)
        /\ pcb' = pcb
        /\ temporizador'[<<p, k>>] = [temporizador[<<p, k>>] EXCEPT !.en = "marcarFinal"]
        /\ \A j \in 1..Len(Programa[p]) : j # k => temporizador'[<<p, j>>] = temporizador[<<p, j>>]
        /\ p \in enMemoria' <=> p \in enMemoria
  BY TemporizadorRemoverEfecto
<1>3. PICK k \in 1..Len(Programa[p]) :
        /\ temporizador[<<p, k>>].en = "remover"
        /\ temporizador'[<<p, k>>] = [temporizador[<<p, k>>] EXCEPT !.en = "marcarFinal"]
        /\ \A j \in 1..Len(Programa[p]) : j # k => temporizador'[<<p, j>>] = temporizador[<<p, j>>]
  BY <1>2
<1>4. Ubicado(p) /\ RelojesAlDia(p)
  BY DEF Orden, Ubicado
<1>5. {"NEW", "READY", "EXEC", "EXIT", "BLOCKED", "atender"} \subseteq Sitios /\ Ninguno \notin Sitios
  BY DEF Sitios, Colas, Ninguno
<1>6. /\ \A s \in Sitios : (EstaEn(s, p) <=> s = "BLOCKED") /\ ~EstaEn(s, p)'
      /\ pcb[p].estado = "BLOCKED"
  BY <1>2, <1>4, <1>5 DEF Ubicado, UnSitio, EstadoAlDia, EstadosDe, Queda
<1>7. UnSitio(p)' /\ EstadoAlDia(p)'
  BY <1>2, <1>5, <1>6 DEF UnSitio, EstadoAlDia
<1>8. BloqueoAlDia(p)'
  BY <1>2, <1>4, <1>5, <1>6 DEF Ubicado, BloqueoAlDia, EnBloqueo, MismaIO
<1>9. RelojesAlDia(p)'
  <2>1. /\ \A j \in 1..Len(Programa[p]) : temporizador'[<<p, j>>].vez = temporizador[<<p, j>>].vez
        /\ temporizador'[<<p, k>>].en = "marcarFinal"
        /\ \A j \in 1..Len(Programa[p]) : Iniciado(<<p, j>>)' <=> Iniciado(<<p, j>>)
    <3>1. temporizador[<<p, k>>] \in Reloj
      <4>1. <<p, k>> \in Temporizadores
        BY DEF Temporizadores
      <4> QED BY <4>1 DEF IInv, TypeOK
    <3>2. temporizador'[<<p, k>>].vez = temporizador[<<p, k>>].vez /\ temporizador'[<<p, k>>].en = "marcarFinal"
      BY <1>3, <3>1 DEF Reloj
    <3>3. Iniciado(<<p, k>>) /\ Iniciado(<<p, k>>)'
      BY <1>3, <3>2 DEF Iniciado
    <3> QED BY <1>3, <3>2, <3>3 DEF Iniciado
  <2>2. SinSitio(p)' /\ k = pcb[p].programCounter
    BY <1>3, <1>4, <1>6 DEF SinSitio, RelojesAlDia
  <2>3. ASSUME NEW j \in 1..Len(Programa[p])
        PROVE  /\ temporizador'[<<p, j>>].en # "noCreado" =>
                    j <= pcb'[p].programCounter /\ (EstaEn("atender", p)' => j < pcb'[p].programCounter)
               /\ Iniciado(<<p, j>>)' => temporizador'[<<p, j>>].vez <= pcb'[p].vecesBloqueado
               /\ temporizador'[<<p, j>>].en \in {"inicio", "remover"} =>
                    EstaEn("BLOCKED", p)' /\ j = pcb'[p].programCounter
               /\ temporizador'[<<p, j>>].en \in {"marcarFinal", "suspender"} =>
                    SinSitio(p)' /\ pcb'[p].estado = "BLOCKED" /\ j = pcb'[p].programCounter
    <3>1. /\ temporizador[<<p, j>>].en # "noCreado" => j <= pcb[p].programCounter
          /\ Iniciado(<<p, j>>) => temporizador[<<p, j>>].vez <= pcb[p].vecesBloqueado
          /\ temporizador[<<p, j>>].en \in {"inicio", "remover"} => j = pcb[p].programCounter
          /\ temporizador[<<p, j>>].en \notin {"marcarFinal", "suspender"}
      BY <1>4, <1>5, <1>6 DEF RelojesAlDia, SinSitio
    <3> QED BY <3>1, <2>1, <2>2, <1>2, <1>3, <1>5, <1>6
  <2>4. ASSUME NEW i \in 1..Len(Programa[p]), NEW j \in 1..Len(Programa[p]),
               Iniciado(<<p, j>>)', Iniciado(<<p, i>>)',
               temporizador'[<<p, j>>].vez = temporizador'[<<p, i>>].vez
        PROVE  j = i
    BY <2>4, <1>4, <2>1 DEF RelojesAlDia
  <2> QED BY <2>3, <2>4, <1>5, <1>6 DEF RelojesAlDia
<1>10. ProgramaAlDia(p)'
  BY <1>2, <1>4, <1>5, <1>6 DEF Ubicado, ProgramaAlDia, MismoPrograma
<1>11. MemoriaAlDia(p)'
  BY <1>2, <1>4, <1>5, <1>6 DEF Ubicado, MemoriaAlDia
<1>12. TienePermiso(p)' <=> TienePermiso(p)
  BY <1>2, <1>6 DEF TienePermiso
<1>13. UNCHANGED <<sem, hilo, enMano>> /\ TypeOK
  BY DEF TemporizadorRemover, IInv
<1>14. ManosLibres'
  BY <1>13 DEF Orden, ManosLibres
<1>15. \A q \in Proc : q # p => Ajeno(q)
  BY <1>2 DEF Queda
<1>16. Ubicado(p)'
  BY <1>7, <1>8, <1>9, <1>10, <1>11 DEF Ubicado
<1> QED BY <1>1, <1>12, <1>13, <1>14, <1>15, <1>16, SinPermisos, OrdenDelPaso

\* The process appears in SUSPENDED_BLOCKED and gives its permit back.
LEMMA TemporizadorSuspenderOrden ==
  ASSUME IInv, IInv', Orden, NEW t \in Temporizadores, TemporizadorSuspender(t)
  PROVE  Orden'
<1>1. ListasSinRepetidos'
  BY TemporizadorSuspenderEfecto
<1>2. PICK p \in Proc : \E k \in 1..Len(Programa[p]) :
        /\ t = <<p, k>>
        /\ temporizador[<<p, k>>].en = "suspender"
        /\ SinSitio(p) /\ pcb[p].estado = "BLOCKED"
        /\ Queda(p, "SUSPENDED_BLOCKED") /\ MismaIO(p) /\ MismoPrograma(p)
        /\ pcb'[p].estado = "SUSPENDED_BLOCKED" /\ pcb'[p].vecesBloqueado = pcb[p].vecesBloqueado
        /\ temporizador'[<<p, k>>] = [temporizador[<<p, k>>] EXCEPT !.en = "fin"]
        /\ \A j \in 1..Len(Programa[p]) : j # k => temporizador'[<<p, j>>] = temporizador[<<p, j>>]
        /\ p \in enMemoria' <=> p \in enMemoria
  BY TemporizadorSuspenderEfecto
<1>3. PICK k \in 1..Len(Programa[p]) :
        /\ temporizador[<<p, k>>].en = "suspender"
        /\ temporizador'[<<p, k>>] = [temporizador[<<p, k>>] EXCEPT !.en = "fin"]
        /\ \A j \in 1..Len(Programa[p]) : j # k => temporizador'[<<p, j>>] = temporizador[<<p, j>>]
  BY <1>2
<1>4. Ubicado(p) /\ RelojesAlDia(p)
  BY DEF Orden, Ubicado
<1>5. {"NEW", "READY", "EXEC", "EXIT", "BLOCKED", "SUSPENDED_BLOCKED", "atender"} \subseteq Sitios
  BY DEF Sitios, Colas
<1>6. \A s \in Sitios : ~EstaEn(s, p) /\ (EstaEn(s, p)' <=> s = "SUSPENDED_BLOCKED")
  BY <1>2 DEF SinSitio, Queda
<1>7. UnSitio(p)' /\ EstadoAlDia(p)'
  BY <1>2, <1>5, <1>6 DEF UnSitio, EstadoAlDia, SinSitio, EstadosDe
<1>8. BloqueoAlDia(p)'
  BY <1>2, <1>4, <1>5, <1>6 DEF Ubicado, BloqueoAlDia, EnBloqueo, MismaIO
<1>9. RelojesAlDia(p)'
  <2>1. /\ \A j \in 1..Len(Programa[p]) : temporizador'[<<p, j>>].vez = temporizador[<<p, j>>].vez
        /\ temporizador'[<<p, k>>].en = "fin"
        /\ \A j \in 1..Len(Programa[p]) : Iniciado(<<p, j>>)' <=> Iniciado(<<p, j>>)
    <3>1. temporizador[<<p, k>>] \in Reloj
      <4>1. <<p, k>> \in Temporizadores
        BY DEF Temporizadores
      <4> QED BY <4>1 DEF IInv, TypeOK
    <3>2. temporizador'[<<p, k>>].vez = temporizador[<<p, k>>].vez /\ temporizador'[<<p, k>>].en = "fin"
      BY <1>3, <3>1 DEF Reloj
    <3>3. Iniciado(<<p, k>>) /\ Iniciado(<<p, k>>)'
      BY <1>3, <3>2 DEF Iniciado
    <3> QED BY <1>3, <3>2, <3>3 DEF Iniciado
  <2>2. pcb'[p].programCounter = pcb[p].programCounter /\ k = pcb[p].programCounter
    BY <1>2, <1>3, <1>4 DEF RelojesAlDia, MismoPrograma
  <2>3. ASSUME NEW j \in 1..Len(Programa[p])
        PROVE  /\ temporizador'[<<p, j>>].en # "noCreado" =>
                    j <= pcb'[p].programCounter /\ (EstaEn("atender", p)' => j < pcb'[p].programCounter)
               /\ Iniciado(<<p, j>>)' => temporizador'[<<p, j>>].vez <= pcb'[p].vecesBloqueado
               /\ temporizador'[<<p, j>>].en \notin {"inicio", "remover", "marcarFinal", "suspender"}
    <3>1. /\ temporizador[<<p, j>>].en # "noCreado" => j <= pcb[p].programCounter
          /\ Iniciado(<<p, j>>) => temporizador[<<p, j>>].vez <= pcb[p].vecesBloqueado
          /\ temporizador[<<p, j>>].en \notin {"inicio", "remover"}
          /\ temporizador[<<p, j>>].en \in {"marcarFinal", "suspender"} => j = pcb[p].programCounter
      BY <1>4, <1>5, <1>6 DEF RelojesAlDia
    <3> QED BY <3>1, <2>1, <2>2, <1>2, <1>3, <1>5, <1>6
  <2>4. ASSUME NEW i \in 1..Len(Programa[p]), NEW j \in 1..Len(Programa[p]),
               Iniciado(<<p, j>>)', Iniciado(<<p, i>>)',
               temporizador'[<<p, j>>].vez = temporizador'[<<p, i>>].vez
        PROVE  j = i
    BY <2>4, <1>4, <2>1 DEF RelojesAlDia
  <2> QED BY <2>3, <2>4, <1>5, <1>6 DEF RelojesAlDia
<1>10. ProgramaAlDia(p)'
  BY <1>2, <1>4, <1>5, <1>6 DEF Ubicado, ProgramaAlDia, MismoPrograma
<1>11. MemoriaAlDia(p)'
  BY <1>2, <1>4, <1>5, <1>6 DEF Ubicado, MemoriaAlDia
<1>12. TienePermiso(p) /\ ~TienePermiso(p)'
  BY <1>2 DEF TienePermiso
<1>13. /\ UNCHANGED <<hilo, enMano>>
       /\ sem'["gradoMultiprog"] = sem["gradoMultiprog"] + 1 /\ sem["gradoMultiprog"] \in Nat
       /\ sem'["transicionar"] = sem["transicionar"] /\ sem["transicionar"] \in Nat
  BY DEF TemporizadorSuspender, Post, IInv, TypeOK, Semaforos
<1>14. ManosLibres'
  BY <1>13 DEF Orden, ManosLibres
<1>15. \A q \in Proc : q # p => Ajeno(q)
  BY <1>2 DEF Queda
<1>16. Ubicado(p)'
  BY <1>7, <1>8, <1>9, <1>10, <1>11 DEF Ubicado
<1>17. /\ Uno(TienePermiso(p)) = 1 /\ Uno(TienePermiso(p)') = 0
       /\ Uno(hilo'["largo"] = "solicitarTabla") = Uno(hilo["largo"] = "solicitarTabla")
       /\ Uno(hilo["largo"] = "solicitarTabla") \in Nat
  BY <1>12, <1>13 DEF Uno
<1> QED BY <1>1, <1>13, <1>14, <1>15, <1>16, <1>17, OrdenDelPaso, SMTT(20)

\* A step that moves no PCB: at most a permit becomes a request to bring one back.
LEMMA AvisosOrden ==
  ASSUME IInv, IInv', Orden, Avisos
  PROVE  Orden'
<1>1. cola' = cola /\ \A q \in Proc : Ajeno(q)
  BY AvisosEfecto
<1>2. \A q \in Proc : Ubicado(q)' /\ (TienePermiso(q)' <=> TienePermiso(q))
  BY <1>1, AjenoUbicado DEF Orden
<1>3. ListasSinRepetidos'
  BY <1>1 DEF Orden, ListasSinRepetidos
<1>4. /\ ManosLibres'
      /\ \/ hilo["largo"] # "solicitarTabla" /\ hilo'["largo"] # "solicitarTabla"
         \/ hilo'["largo"] = hilo["largo"]
  BY DEF Orden, ManosLibres, Avisos, LargoTomarPcb, LargoTransicionarSusready, LargoAvisarReady, MedianoCaer,
         MedianoAvisarReady, CortoEvaluarDesalojo, IOAvisarReady, IOAvisarLargo, TerminarIO,
         CpuRecibirInterrupcion, Ir, En, IInv, TypeOK, Hilos
<1>5. ConPermiso' = ConPermiso
  BY <1>2 DEF ConPermiso
<1>6. /\ sem["gradoMultiprog"] \in Nat /\ sem["transicionar"] \in Nat
      /\ \/ sem'["gradoMultiprog"] = sem["gradoMultiprog"] /\ sem'["transicionar"] = sem["transicionar"]
         \/ sem'["gradoMultiprog"] = sem["gradoMultiprog"] - 1 /\ sem'["transicionar"] = sem["transicionar"] + 1
  BY DEF Avisos, LargoTomarPcb, LargoTransicionarSusready, LargoAvisarReady, MedianoCaer,
         MedianoAvisarReady, CortoEvaluarDesalojo, IOAvisarReady, IOAvisarLargo, TerminarIO,
         CpuRecibirInterrupcion, Post, Wait, En, IInv, TypeOK, Semaforos
<1>7. PermisosConservados'
  <2>1. /\ IsFiniteSet(ConPermiso)
        /\ sem["gradoMultiprog"] + Cardinality(ConPermiso) + sem["transicionar"]
             + Uno(hilo["largo"] = "solicitarTabla") = GRADO
    BY DEF Orden, PermisosConservados
  <2>2. Cardinality(ConPermiso) \in Nat
    BY <2>1, FS_CardinalityType
  <2>3. Cardinality(ConPermiso') = Cardinality(ConPermiso) /\ IsFiniteSet(ConPermiso')
    BY <1>5, <2>1
  <2>4. sem'["gradoMultiprog"] + Cardinality(ConPermiso') + sem'["transicionar"]
             + Uno(hilo'["largo"] = "solicitarTabla") = GRADO
    BY <1>4, <1>6, <2>1, <2>2, <2>3 DEF Uno
  <2> QED BY <2>3, <2>4 DEF PermisosConservados
<1> QED BY <1>2, <1>3, <1>4, <1>7 DEF Orden

\* Nothing is anywhere at first, and every permit is available.
LEMMA InicioOrden ==
  ASSUME Init
  PROVE  Orden
<1>1. /\ \A e \in Colas : cola[e] = << >>
      /\ \A t \in Hilos : hilo[t] = "esperar" /\ enMano[t] = Ninguno
      /\ cpu.proc = Ninguno /\ enMemoria = {}
      /\ sem["gradoMultiprog"] = GRADO /\ sem["transicionar"] = 0
  BY DEF Init, Hilos, Semaforos
<1>2. \A p \in Proc : pcb[p].estado = "NULL" /\ pcb[p].programCounter = 0
  BY DEF Init
<1>3. \A p \in Proc : \A k \in 1..Len(Programa[p]) : temporizador[<<p, k>>].en = "noCreado"
  <2>1. \A p \in Proc : \A k \in 1..Len(Programa[p]) : <<p, k>> \in Temporizadores
    BY DEF Temporizadores
  <2> QED BY <2>1 DEF Init
<1>4. ASSUME NEW p \in Proc
      PROVE  Ubicado(p) /\ ~TienePermiso(p)
  <2>1. /\ \A s \in Sitios : ~EstaEn(s, p)
        /\ ~EnBloqueo(p)
    BY <1>1, NingunoAssumption DEF EstaEn, ContienePcb, EnBloqueo, EnColaIO, Durmiendo, Sitios, Colas, Hilos
  <2>2. {"NEW", "READY", "EXEC", "EXIT", "BLOCKED", "atender"} \subseteq Sitios
    BY DEF Sitios, Colas
  <2>3. UnSitio(p) /\ EstadoAlDia(p)
    BY <1>2, <2>1, <2>2 DEF UnSitio, EstadoAlDia
  <2>4. BloqueoAlDia(p)
    BY <1>2, <2>1, <2>2 DEF BloqueoAlDia, EnBloqueo
  <2>5. RelojesAlDia(p)
    BY <1>3, <2>1, <2>2 DEF RelojesAlDia, Iniciado
  <2>6. ProgramaAlDia(p)
    <3>1. Programa[p] \in Seq(Instruccion) /\ Programa[p] # << >> /\ Len(Programa[p]) \in Nat
      BY ProgramaAssumption, LenProperties
    <3>2. Len(Programa[p]) > 0
      BY <3>1
    <3> QED BY <1>1, <1>2, <2>1, <2>2, <3>1, <3>2, NingunoAssumption DEF ProgramaAlDia
  <2>7. MemoriaAlDia(p) /\ ~TienePermiso(p)
    BY <1>1, <1>2, <2>1, <2>2 DEF MemoriaAlDia, TienePermiso
  <2> QED BY <2>3, <2>4, <2>5, <2>6, <2>7 DEF Ubicado
<1>5. ListasSinRepetidos /\ ManosLibres
  BY <1>1 DEF ListasSinRepetidos, SinRepetidos, ManosLibres, Hilos
<1>6. PermisosConservados
  <2>1. ConPermiso = {}
    BY <1>4 DEF ConPermiso
  <2>2. IsFiniteSet(ConPermiso) /\ Cardinality(ConPermiso) = 0
    BY <2>1, FS_EmptySet
  <2>3. Uno(hilo["largo"] = "solicitarTabla") = 0
    BY <1>1 DEF Uno, Hilos
  <2> QED BY <1>1, <2>2, <2>3, GradoAssumption DEF PermisosConservados
<1> QED BY <1>4, <1>5, <1>6 DEF Orden

\* Nothing moves.
LEMMA NadaCambiaOrden ==
  ASSUME Orden, UNCHANGED vars
  PROVE  Orden'
<1>1. UNCHANGED <<cola, sem, hilo, enMano, pcb, temporizador, cpu, enMemoria>>
  BY DEF vars
<1>2. \A p \in Proc : Ajeno(p)
  BY <1>1 DEF Ajeno, MismoSitio, MismaIO, MismosRelojes, MismoPrograma, EstaEn, ContienePcb,
              EnColaIO, Durmiendo
<1>3. \A p \in Proc : Ubicado(p)' /\ (TienePermiso(p)' <=> TienePermiso(p))
  BY <1>2, AjenoUbicado DEF Orden
<1>4. ConPermiso' = ConPermiso
  BY <1>3 DEF ConPermiso
<1>5. PermisosConservados'
  BY <1>1, <1>4 DEF Orden, PermisosConservados
<1> QED BY <1>1, <1>3, <1>5 DEF Orden, ListasSinRepetidos, ManosLibres

LEMMA PasoOrden ==
  ASSUME Puntual, IInv, IInv', Orden, [Next]_vars
  PROVE  Orden'
<1>1. CASE UNCHANGED vars
  BY <1>1, NadaCambiaOrden
<1>2. CASE \E p \in Proc : EncolarEnNew(p)
  BY <1>2, EncolarEnNewOrden
<1>3. CASE Avisos
  BY <1>3, AvisosOrden
<1>4. CASE Largo
  BY <1>3, <1>4, LargoTomarNewOrden, LargoRechazarOrden, LargoAdmitirOrden DEF Largo, Avisos
<1>5. CASE Mediano
  BY <1>3, <1>5, MedianoTomarSusreadyOrden, MedianoEncolarReadyOrden DEF Mediano, Avisos
<1>6. CASE Corto
  BY <1>3, <1>6, CortoDespacharOrden DEF Corto, Avisos
<1>7. CASE Atender
  BY <1>7, AtenderEnviarPcbOrden, AtenderRecibirPcbOrden, AtenderDesalojadoOrden, AtenderTerminadoOrden,
     AtenderEncolarIOOrden, AtenderMarcarBlockedOrden, AtenderEncolarBlockedOrden DEF Atender
<1>8. CASE DispositivoIO
  BY <1>3, <1>8, IOIniciarOrden, IOVolverAReadyOrden, IOVolverASusreadyOrden, NadaQueDescartar
     DEF DispositivoIO, Avisos
<1>9. CASE LiberarPcb
  BY <1>9, LiberarPcbOrden
<1>10. CASE Cpu
  BY <1>3, <1>10, CpuOrden DEF Cpu, Avisos
<1>11. CASE \E t \in Temporizadores : Temporizador(t)
  BY <1>11, TemporizadorIniciarOrden, TemporizadorMueveOrden, TemporizadorRemoverOrden,
     TemporizadorSuspenderOrden DEF Temporizador
<1> QED BY <1>1, <1>2, <1>4, <1>5, <1>6, <1>7, <1>8, <1>9, <1>10, <1>11 DEF Next

-----------------------------------------------------------------------------
(* What the placement gives.                                               *)

\* Every PCB is where its state, its timers and its program say, at every moment.
THEOREM PcbsUbicados ==
  ASSUME Puntual
  PROVE  Spec => [](IInv /\ Orden)
<1>1. Init => IInv /\ Orden
  BY InitIInv, InicioOrden
<1>2. IInv /\ Orden /\ [Next]_vars => (IInv /\ Orden)'
  BY PasoIInv, PasoOrden
<1> QED BY <1>1, <1>2, PTL DEF Spec

\* The permits of the degree of multiprogramming are neither lost nor made up, also when
\* Memory refuses processes: one it refused keeps its permit until it is released.
THEOREM PermisosNoSePierden ==
  ASSUME Puntual
  PROVE  Spec => []PermisosConservados
<1>1. Orden => PermisosConservados
  BY DEF Orden
<1> QED BY <1>1, PcbsUbicados, PTL

\* A list without repetitions has a PCB once or not at all.
LEMMA EnListaUno ==
  ASSUME IInv, ListasSinRepetidos, NEW e \in Colas, NEW p \in Proc
  PROVE  EnLista(e, p) = Uno(ContienePcb(e, p))
<1> DEFINE donde == {i \in 1..Len(cola[e]) : cola[e][i] = p}
<1>1. CASE ContienePcb(e, p)
  <2>1. PICK i \in 1..Len(cola[e]) : cola[e][i] = p
    BY <1>1 DEF ContienePcb
  <2>2. donde = {i}
    BY <2>1 DEF ListasSinRepetidos, SinRepetidos
  <2>3. Cardinality({i}) = 1
    BY FS_Singleton
  <2> QED BY <1>1, <2>2, <2>3 DEF EnLista, Uno
<1>2. CASE ~ContienePcb(e, p)
  <2>1. donde = {}
    BY <1>2 DEF ContienePcb
  <2>2. Cardinality({}) = 0
    BY FS_EmptySet
  <2> QED BY <1>2, <2>1, <2>2 DEF EnLista, Uno
<1> QED BY <1>1, <1>2

\* A PCB appears once in the lists and hands if it is at some site.
LEMMA AparicionesPorSitio ==
  ASSUME IInv, Orden, NEW p \in Proc
  PROVE  Apariciones(p) = IF SinSitio(p) THEN 0 ELSE 1
<1>1. /\ EnLista("NEW", p) = Uno(EstaEn("NEW", p)) /\ EnLista("READY", p) = Uno(EstaEn("READY", p))
      /\ EnLista("EXEC", p) = Uno(EstaEn("EXEC", p)) /\ EnLista("EXIT", p) = Uno(EstaEn("EXIT", p))
      /\ EnLista("BLOCKED", p) = Uno(EstaEn("BLOCKED", p))
      /\ EnLista("SUSPENDED_BLOCKED", p) = Uno(EstaEn("SUSPENDED_BLOCKED", p))
      /\ EnLista("SUSPENDED_READY", p) = Uno(EstaEn("SUSPENDED_READY", p))
  BY EnListaUno DEF Orden, EstaEn, Colas
<1>2. /\ Uno(enMano["largo"] = p) = Uno(EstaEn("largo", p))
      /\ Uno(enMano["mediano"] = p) = Uno(EstaEn("mediano", p))
      /\ Uno(enMano["atender"] = p /\ hilo["atender"] # "esperarCpu") = Uno(EstaEn("atender", p))
  BY DEF EstaEn, Colas, Uno
<1>3. Apariciones(p) = Uno(EstaEn("NEW", p)) + Uno(EstaEn("READY", p)) + Uno(EstaEn("EXEC", p))
        + Uno(EstaEn("EXIT", p)) + Uno(EstaEn("BLOCKED", p)) + Uno(EstaEn("SUSPENDED_BLOCKED", p))
        + Uno(EstaEn("SUSPENDED_READY", p)) + Uno(EstaEn("largo", p)) + Uno(EstaEn("mediano", p))
        + Uno(EstaEn("atender", p))
  BY <1>1, <1>2 DEF Apariciones
<1>4. Sitios = {"NEW", "READY", "EXEC", "EXIT", "BLOCKED", "SUSPENDED_BLOCKED", "SUSPENDED_READY",
                "largo", "mediano", "atender"}
  BY DEF Sitios, Colas
<1>5. CASE SinSitio(p)
  <2>1. \A s \in Sitios : Uno(EstaEn(s, p)) = 0
    BY <1>5 DEF SinSitio, Uno
  <2> QED BY <1>3, <1>4, <1>5, <2>1
<1>6. CASE ~SinSitio(p)
  <2>1. PICK a \in Sitios : EstaEn(a, p)
    BY <1>6 DEF SinSitio
  <2>2. \A s \in Sitios : Uno(EstaEn(s, p)) = IF s = a THEN 1 ELSE 0
    BY <2>1 DEF Orden, Ubicado, UnSitio, Uno
  <2> QED BY <1>3, <1>4, <1>6, <2>1, <2>2
<1> QED BY <1>5, <1>6

\* A PCB is in one list, or in the hands of one thread, and in none only while the I/O
\* device has it: a timer that suspends a process and the end of its burst do not lose it.
THEOREM UnSoloLugarPorPcb ==
  ASSUME Puntual
  PROVE  Spec => []UnLugarPorPcb
<1>1. IInv /\ Orden => UnLugarPorPcb
  <2> SUFFICES ASSUME IInv, Orden, NEW p \in Proc
               PROVE  /\ Apariciones(p) <= 1
                      /\ pcb[p].estado \notin {"NULL", "LIBERADO"} => Apariciones(p) = 1 \/ EnIO(p)
    BY DEF UnLugarPorPcb
  <2>1. Apariciones(p) = IF SinSitio(p) THEN 0 ELSE 1
    BY AparicionesPorSitio
  <2>2. SinSitio(p) /\ pcb[p].estado \notin {"NULL", "LIBERADO"} => EnBloqueo(p)
    BY DEF Orden, Ubicado, EstadoAlDia, BloqueoAlDia
  <2>3. EnBloqueo(p) => EnIO(p)
    <3>1. EnLista("IO", p) = Uno(ContienePcb("IO", p))
      BY EnListaUno DEF Orden, Colas
    <3> QED BY <3>1 DEF EnBloqueo, EnColaIO, Durmiendo, EnIO, Uno
  <2> QED BY <2>1, <2>2, <2>3
<1> QED BY <1>1, PcbsUbicados, PTL

\* A timer about to suspend its process still times the block the process is in.
THEOREM SuspensionDeSuBloqueo ==
  ASSUME Puntual
  PROVE  Spec => SuspendeSuBloqueo
<1>1. IInv /\ Orden =>
        \A t \in Temporizadores :
          Suspende(t) => pcb[t[1]].estado = "BLOCKED" /\ pcb[t[1]].programCounter = t[2]
  <2> SUFFICES ASSUME Orden, NEW t \in Temporizadores, Suspende(t)
               PROVE  pcb[t[1]].estado = "BLOCKED" /\ pcb[t[1]].programCounter = t[2]
    OBVIOUS
  <2>1. PICK p \in Proc : \E k \in 1..Len(Programa[p]) : t = <<p, k>>
    BY UnReloj
  <2>2. PICK k \in 1..Len(Programa[p]) : t = <<p, k>>
    BY <2>1
  <2>3. temporizador[<<p, k>>].en = "suspender"
    BY <2>2 DEF Suspende
  <2>4. pcb[p].estado = "BLOCKED" /\ k = pcb[p].programCounter
    BY <2>3 DEF Orden, Ubicado, RelojesAlDia
  <2> QED BY <2>2, <2>4
<1>2. IInv /\ Orden /\ [Next]_vars =>
        [\A t \in Temporizadores :
           Suspende(t) /\ temporizador'[t].en = "fin" =>
             pcb[t[1]].estado = "BLOCKED" /\ pcb[t[1]].programCounter = t[2]]_vars
  BY <1>1
<1> QED BY <1>2, PcbsUbicados, PTL DEF Spec, SuspendeSuBloqueo

\* Without refusals, those that hold a permit are those Memory holds and are not suspended.
LEMMA AdmitidosConPermiso ==
  ASSUME Orden, Excesivos = {}
  PROVE  Admitidos = ConPermiso
<1>1. {"READY", "EXEC", "EXIT", "atender"} \subseteq Sitios
  BY DEF Sitios, Colas
<1>2. ASSUME NEW p \in Proc
      PROVE  TienePermiso(p) <=>
               p \in enMemoria /\ pcb[p].estado \notin {"SUSPENDED_BLOCKED", "SUSPENDED_READY"}
  BY <1>1 DEF Orden, Ubicado, EstadoAlDia, MemoriaAlDia, TienePermiso
<1> QED BY <1>2 DEF Admitidos, ConPermiso

\* Every permit of GRADO is available, with an admitted process or with a request to bring
\* one back, if no process is refused.
THEOREM GradoDeMultiprogramacion ==
  ASSUME Puntual, Excesivos = {}
  PROVE  Spec => []GradoRespetado
<1>1. IInv /\ Orden => GradoRespetado
  BY AdmitidosConPermiso DEF Orden, PermisosConservados, GradoRespetado
<1> QED BY <1>1, PcbsUbicados, PTL

\* Without refusals no step dereferences a NULL PCB but that of the medium term thread: the
\* timers touch blocked PCBs, and Memory is told to release a table it has.
LEMMA SoloCaeElMediano ==
  ASSUME IInv, Orden, Puntual, Excesivos = {}, [Next]_vars, ~caido, caido'
  PROVE  MedianoCaer
<1>1. ASSUME NEW t \in Temporizadores, Temporizador(t)
      PROVE  FALSE
  <2>1. PICK p \in Proc : \E k \in 1..Len(Programa[p]) : t = <<p, k>>
    BY UnReloj
  <2>2. PICK k \in 1..Len(Programa[p]) : t = <<p, k>>
    BY <2>1
  <2>3. pcb[p].estado = "LIBERADO" =>
          /\ temporizador[<<p, k>>].en \notin {"inicio", "remover", "marcarFinal", "suspender"}
          /\ ~ContienePcb("BLOCKED", p)
    <3>1. "BLOCKED" \in Sitios /\ EstaEn("BLOCKED", p) = ContienePcb("BLOCKED", p)
      BY DEF Sitios, Colas, EstaEn
    <3> QED BY <3>1 DEF Orden, Ubicado, EstadoAlDia, EstadosDe, RelojesAlDia
  <2> QED BY <1>1, <2>2, <2>3
          DEF Temporizador, TemporizadorIniciar, TemporizadorVencer, TemporizadorRemover,
              TemporizadorMarcarFinal, TemporizadorNoSuspender, TemporizadorSuspender, TemporizadorEn,
              Tocar, pares
<1>2. ~LiberarPcb
  <2> SUFFICES ASSUME LiberarPcb
               PROVE  FALSE
    OBVIOUS
  <2>1. PICK p \in Proc : EstaEn("EXIT", p) /\ (p \in enMemoria => caido' = FALSE)
    BY LiberarPcbEfecto
  <2>2. "EXIT" \in Sitios
    BY DEF Sitios, Colas
  <2>3. p \in enMemoria
    BY <2>1, <2>2 DEF Orden, Ubicado, EstadoAlDia, EstadosDe, MemoriaAlDia
  <2> QED BY <2>1, <2>3
<1>3. ~UNCHANGED caido
  OBVIOUS
<1>4. ~(\E p \in Proc : EncolarEnNew(p)) /\ ~(UNCHANGED vars)
  BY <1>3 DEF EncolarEnNew, vars
<1>5. ~Largo /\ ~Corto /\ ~Cpu
  BY <1>3 DEF Largo, LargoTomarPcb, LargoTransicionarSusready, LargoTomarNew, LargoRechazar, LargoAdmitir,
              LargoAvisarReady, Corto, CortoEvaluarDesalojo, CortoDespachar,
              Cpu, CpuSeguir, CpuDetener, CpuRecibirInterrupcion
<1>6. ~Atender /\ ~DispositivoIO
  BY <1>3 DEF Atender, AtenderEnviarPcb, AtenderRecibirPcb, AtenderDesalojado, AtenderTerminado,
              AtenderEncolarIO, AtenderMarcarBlocked, AtenderEncolarBlocked,
              DispositivoIO, IOIniciar, IOVolverAReady, IOVolverASusready, IODescartar, IOAvisarReady,
              IOAvisarLargo, TerminarIO
<1>7. Mediano => MedianoCaer
  BY <1>3 DEF Mediano, MedianoTomarSusready, MedianoEncolarReady, MedianoAvisarReady
<1> QED BY <1>1, <1>2, <1>4, <1>5, <1>6, <1>7 DEF Next

\* A Kernel that died changes neither its semaphores nor its lists.
LEMMA CaidoQuieto ==
  ASSUME [Next]_vars, caido
  PROVE  UNCHANGED <<sem, cola>>
<1>1. Next => Cpu
  BY DEF Next, Largo, LargoTomarPcb, LargoTransicionarSusready, LargoTomarNew, LargoRechazar, LargoAdmitir,
         LargoAvisarReady, Mediano, MedianoTomarSusready, MedianoCaer, MedianoEncolarReady,
         MedianoAvisarReady, Corto, CortoEvaluarDesalojo, CortoDespachar, Atender, AtenderEnviarPcb,
         AtenderRecibirPcb, AtenderDesalojado, AtenderTerminado, AtenderEncolarIO, AtenderMarcarBlocked,
         AtenderEncolarBlocked, DispositivoIO, IOIniciar, IOVolverAReady, IOVolverASusready, IODescartar,
         IOAvisarReady, IOAvisarLargo, LiberarPcb, EncolarEnNew, Temporizador, TemporizadorIniciar,
         TemporizadorVencer, TemporizadorRemover, TemporizadorMarcarFinal, TemporizadorNoSuspender,
         TemporizadorSuspender, En, TemporizadorEn
<1>2. Cpu => UNCHANGED <<sem, cola>>
  BY DEF Cpu, CpuSeguir, CpuDetener, CpuRecibirInterrupcion
<1> QED BY <1>1, <1>2 DEF vars

\* The Kernel dies only where the long term thread passed on one request too many.
THEOREM SoloCaePorAvisoDeMas ==
  ASSUME Puntual, Excesivos = {}
  PROVE  Spec => []CaeSoloPorAvisoDeMas
<1>1. Init => CaeSoloPorAvisoDeMas
  BY DEF Init, CaeSoloPorAvisoDeMas
<1>2. IInv /\ Orden /\ CaeSoloPorAvisoDeMas /\ [Next]_vars => CaeSoloPorAvisoDeMas'
  <2> SUFFICES ASSUME IInv, Orden, CaeSoloPorAvisoDeMas, [Next]_vars, caido'
               PROVE  ~SinAvisoDeMas'
    BY DEF CaeSoloPorAvisoDeMas
  <2>1. CASE caido
    BY <2>1, CaidoQuieto DEF CaeSoloPorAvisoDeMas, SinAvisoDeMas
  <2>2. CASE ~caido
    <3>1. MedianoCaer
      BY <2>2, SoloCaeElMediano
    <3>2. /\ sem["transicionar"] \in Nat /\ sem["transicionar"] > 0
          /\ cola["SUSPENDED_READY"] = << >> /\ UNCHANGED <<sem, cola>>
      BY <3>1 DEF MedianoCaer, IInv, TypeOK, Semaforos
    <3>3. Len(cola["SUSPENDED_READY"]) = 0
      BY <3>2
    <3> QED BY <3>2, <3>3 DEF SinAvisoDeMas
  <2> QED BY <2>1, <2>2
<1> QED BY <1>1, <1>2, PcbsUbicados, PTL DEF Spec

-----------------------------------------------------------------------------
(* The life cycle of the processes.                                        *)

\* What an observer of the lists sees of a process, by its site.
LEMMA Observacion ==
  ASSUME IInv, NEW p \in Proc, UnSitio(p)
  PROVE  EstadoObservable(p) =
           IF EstaEn("EXEC", p) \/ EstaEn("atender", p) THEN "EXEC"
           ELSE IF pcb[p].estado = "NEW" /\ EstaEn("READY", p) THEN "READY"
           ELSE pcb[p].estado
<1>1. ContienePcb("EXEC", p) \/ enMano["atender"] = p <=> EstaEn("EXEC", p) \/ EstaEn("atender", p)
  <2>1. enMano["atender"] = p /\ hilo["atender"] = "esperarCpu" => ContienePcb("EXEC", p)
    <3> SUFFICES ASSUME enMano["atender"] = p, hilo["atender"] = "esperarCpu"
                 PROVE  ContienePcb("EXEC", p)
      OBVIOUS
    <3>1. cola["EXEC"] = <<p>>
      BY DEF IInv, CpuAlDia
    <3> QED BY <3>1 DEF ContienePcb
  <2> QED BY <2>1 DEF EstaEn, Colas
<1>2. ContienePcb("READY", p) <=> EstaEn("READY", p)
  BY DEF EstaEn, Colas
<1>3. CASE ContienePcb("EXEC", p) \/ enMano["atender"] = p
  <2>1. ~ContienePcb("READY", p)
    BY <1>1, <1>2, <1>3 DEF UnSitio, Sitios, Colas
  <2>2. EstadoObservable(p) = "EXEC"
    BY <1>3, <2>1 DEF EstadoObservable
  <2> QED BY <1>1, <1>3, <2>2
<1>4. CASE ~(ContienePcb("EXEC", p) \/ enMano["atender"] = p)
  BY <1>1, <1>2, <1>4 DEF EstadoObservable
<1> QED BY <1>3, <1>4

\* The same, after a step.
LEMMA ObservacionDespues ==
  ASSUME IInv', NEW p \in Proc, UnSitio(p)'
  PROVE  EstadoObservable(p)' =
           IF EstaEn("EXEC", p)' \/ EstaEn("atender", p)' THEN "EXEC"
           ELSE IF pcb'[p].estado = "NEW" /\ EstaEn("READY", p)' THEN "READY"
           ELSE pcb'[p].estado
<1>1. (ContienePcb("EXEC", p) \/ enMano["atender"] = p)' <=> EstaEn("EXEC", p)' \/ EstaEn("atender", p)'
  <2>1. enMano'["atender"] = p /\ hilo'["atender"] = "esperarCpu" => ContienePcb("EXEC", p)'
    <3> SUFFICES ASSUME enMano'["atender"] = p, hilo'["atender"] = "esperarCpu"
                 PROVE  ContienePcb("EXEC", p)'
      OBVIOUS
    <3>1. cola'["EXEC"] = <<p>>
      BY DEF IInv, CpuAlDia
    <3> QED BY <3>1 DEF ContienePcb
  <2> QED BY <2>1 DEF EstaEn, Colas
<1>2. ContienePcb("READY", p)' <=> EstaEn("READY", p)'
  BY DEF EstaEn, Colas
<1>3. CASE ContienePcb("EXEC", p)' \/ enMano'["atender"] = p
  <2>1. ~ContienePcb("READY", p)'
    BY <1>1, <1>2, <1>3 DEF UnSitio, Sitios, Colas
  <2>2. EstadoObservable(p)' = "EXEC"
    BY <1>3, <2>1 DEF EstadoObservable
  <2> QED BY <1>1, <1>3, <2>2
<1>4. CASE ~(ContienePcb("EXEC", p)' \/ enMano'["atender"] = p)
  BY <1>1, <1>2, <1>4 DEF EstadoObservable
<1> QED BY <1>3, <1>4

\* The variable of CicloDeVida.
Observado == [p \in Proc |-> EstadoObservable(p)]

\* Nobody sees a step that moves no PCB.
LEMMA AjenoObservado ==
  ASSUME IInv, IInv', Orden, NEW p \in Proc, MismoSitio(p), pcb'[p].estado = pcb[p].estado
  PROVE  EstadoObservable(p)' = EstadoObservable(p)
<1>1. {"EXEC", "READY", "atender"} \subseteq Sitios
  BY DEF Sitios, Colas
<1>2. UnSitio(p) /\ UnSitio(p)'
  BY DEF Orden, Ubicado, UnSitio, MismoSitio
<1> QED BY <1>1, <1>2, Observacion, ObservacionDespues DEF MismoSitio

LEMMA NadieCambia ==
  ASSUME IInv, IInv', Orden, \A q \in Proc : MismoSitio(q) /\ pcb'[q].estado = pcb[q].estado
  PROVE  Observado' = Observado
BY AjenoObservado DEF Observado

\* One process is seen to pass from a state to another, or to stay.
LEMMA UnoCambia ==
  ASSUME IInv, IInv', Orden, NEW p \in Proc, \A q \in Proc : q # p => Ajeno(q)
  PROVE  /\ Ciclo!Pasar(p, EstadoObservable(p), EstadoObservable(p)')
         /\ EstadoObservable(p)' = EstadoObservable(p) => Observado' = Observado
<1>1. \A q \in Proc : q # p => EstadoObservable(q)' = EstadoObservable(q)
  BY AjenoObservado DEF Ajeno
<1> QED BY <1>1 DEF Ciclo!Pasar, Observado

\* Those who are seen to be admitted hold a permit.
LEMMA GradoAlcanza ==
  ASSUME IInv, Orden,
         sem["transicionar"] > 0 \/ hilo["largo"] = "solicitarTabla"
  PROVE  Ciclo!Cardinality(Ciclo!Admitidos) < GRADO
<1>1. ASSUME NEW p \in Proc, EstadoObservable(p) \in {"READY", "EXEC", "BLOCKED", "EXIT"}
      PROVE  TienePermiso(p)
  <2>1. {"READY", "EXEC", "EXIT", "atender"} \subseteq Sitios
    BY DEF Sitios, Colas
  <2>2. \/ EstaEn("EXEC", p) \/ EstaEn("atender", p)
        \/ pcb[p].estado = "NEW" /\ EstaEn("READY", p)
        \/ pcb[p].estado \in {"READY", "EXEC", "BLOCKED", "EXIT"}
    BY <1>1, Observacion DEF Orden, Ubicado
  <2>3. /\ EstaEn("EXEC", p) => pcb[p].estado \in {"NEW", "READY"}
        /\ EstaEn("atender", p) => pcb[p].estado \in {"NEW", "READY", "BLOCKED"}
    BY <2>1 DEF Orden, Ubicado, EstadoAlDia, EstadosDe
  <2>4. pcb[p].estado # "EXEC"
    BY DEF IInv, TypeOK, Pcb, EstadoPcb
  <2> QED BY <2>1, <2>2, <2>3, <2>4 DEF TienePermiso
<1>2. Ciclo!Admitidos \subseteq ConPermiso
  BY <1>1 DEF Ciclo!Admitidos, Ciclo!En, ConPermiso
<1>3. /\ IsFiniteSet(ConPermiso)
      /\ sem["gradoMultiprog"] + Cardinality(ConPermiso) + sem["transicionar"]
           + Uno(hilo["largo"] = "solicitarTabla") = GRADO
  BY DEF Orden, PermisosConservados
<1>4. /\ Cardinality(ConPermiso) \in Nat /\ Cardinality(Ciclo!Admitidos) \in Nat
      /\ Cardinality(Ciclo!Admitidos) <= Cardinality(ConPermiso)
  BY <1>2, <1>3, FS_Subset, FS_CardinalityType
<1>5. sem["gradoMultiprog"] \in Nat /\ sem["transicionar"] \in Nat
  BY DEF IInv, TypeOK, Semaforos
<1>6. Cardinality(ConPermiso) < GRADO
  BY <1>3, <1>4, <1>5, GradoAssumption DEF Uno
<1>7. Cardinality(Ciclo!Admitidos) < GRADO
  BY <1>4, <1>6, GradoAssumption
<1>8. Ciclo!Cardinality(Ciclo!Admitidos) = Cardinality(Ciclo!Admitidos)
  BY DEF Ciclo!Cardinality, Cardinality
<1> QED BY <1>7, <1>8

\* What each action looks like to that observer.

LEMMA LargoTomarNewCiclo ==
  ASSUME IInv, IInv', Orden, Orden', LargoTomarNew
  PROVE  Observado' = Observado
<1>1. PICK p \in Proc :
        /\ EstaEn("NEW", p)
        /\ Queda(p, "largo")
        /\ pcb'[p].estado = pcb[p].estado
  BY LargoTomarNewEfecto
<1>2. {"NEW", "READY", "EXEC", "EXIT", "BLOCKED", "atender", "largo"} \subseteq Sitios
  BY DEF Sitios, Colas
<1>3. Ubicado(p) /\ UnSitio(p) /\ UnSitio(p)'
  BY DEF Orden, Ubicado
<1>4. EstadoObservable(p) = "NEW"
  <2>1. /\ ~EstaEn("EXEC", p) /\ ~EstaEn("atender", p) /\ ~EstaEn("READY", p)
        /\ pcb[p].estado \in {"NEW"}
    BY <1>1, <1>2, <1>3 DEF Ubicado, UnSitio, EstadoAlDia, EstadosDe, SinSitio
  <2> QED BY <1>1, <1>3, <2>1, Observacion
<1>5. EstadoObservable(p)' = "NEW"
  <2>1. ~EstaEn("EXEC", p)' /\ ~EstaEn("atender", p)' /\ ~EstaEn("READY", p)'
    BY <1>1, <1>2, <1>4 DEF Queda
  <2>2. pcb'[p].estado = "NEW"
    BY <1>1, <1>2, <1>3 DEF Ubicado, EstadoAlDia, EstadosDe
  <2> QED BY <1>3, <2>1, <2>2, ObservacionDespues
<1>6. \A q \in Proc : q # p => Ajeno(q)
  BY <1>1 DEF Queda
<1>7. Observado' = Observado
  BY <1>4, <1>5, <1>6, UnoCambia
<1> QED BY <1>7

LEMMA LargoAdmitirCiclo ==
  ASSUME IInv, IInv', Orden, Orden', LargoAdmitir
  PROVE  Ciclo!Next
<1>1. PICK p \in Proc :
        /\ EstaEn("largo", p)
        /\ Queda(p, "READY")
        /\ pcb'[p].estado = pcb[p].estado
  BY LargoAdmitirEfecto
<1>2. {"NEW", "READY", "EXEC", "EXIT", "BLOCKED", "atender", "largo"} \subseteq Sitios
  BY DEF Sitios, Colas
<1>3. Ubicado(p) /\ UnSitio(p) /\ UnSitio(p)'
  BY DEF Orden, Ubicado
<1>4. EstadoObservable(p) = "NEW"
  <2>1. /\ ~EstaEn("EXEC", p) /\ ~EstaEn("atender", p) /\ ~EstaEn("READY", p)
        /\ pcb[p].estado \in {"NEW"}
    BY <1>1, <1>2, <1>3 DEF Ubicado, UnSitio, EstadoAlDia, EstadosDe, SinSitio
  <2> QED BY <1>1, <1>3, <2>1, Observacion
<1>5. EstadoObservable(p)' = "READY"
  <2>1. ~EstaEn("EXEC", p)' /\ ~EstaEn("atender", p)' /\ EstaEn("READY", p)'
    BY <1>1, <1>2, <1>4 DEF Queda
  <2>2. pcb'[p].estado = "NEW"
    BY <1>1, <1>2, <1>3 DEF Ubicado, EstadoAlDia, EstadosDe
  <2> QED BY <1>3, <2>1, <2>2, ObservacionDespues
<1>6. \A q \in Proc : q # p => Ajeno(q)
  BY <1>1 DEF Queda
<1>7. Ciclo!Pasar(p, "NEW", "READY")
  BY <1>4, <1>5, <1>6, UnoCambia
<1>8. Ciclo!Cardinality(Ciclo!Admitidos) < GRADO
  <2>1. hilo["largo"] = "solicitarTabla"
    BY DEF LargoAdmitir, En
  <2> QED BY <2>1, GradoAlcanza
<1> QED BY <1>7, <1>8 DEF Ciclo!Next, Ciclo!Admitir

LEMMA MedianoTomarSusreadyCiclo ==
  ASSUME IInv, IInv', Orden, Orden', MedianoTomarSusready
  PROVE  Ciclo!Next
<1>1. PICK p \in Proc :
        /\ EstaEn("SUSPENDED_READY", p)
        /\ Queda(p, "mediano")
        /\ pcb'[p].estado = "READY"
  BY MedianoTomarSusreadyEfecto
<1>2. {"NEW", "READY", "EXEC", "EXIT", "BLOCKED", "atender", "SUSPENDED_READY", "mediano"} \subseteq Sitios
  BY DEF Sitios, Colas
<1>3. Ubicado(p) /\ UnSitio(p) /\ UnSitio(p)'
  BY DEF Orden, Ubicado
<1>4. EstadoObservable(p) = "SUSPENDED_READY"
  <2>1. /\ ~EstaEn("EXEC", p) /\ ~EstaEn("atender", p) /\ ~EstaEn("READY", p)
        /\ pcb[p].estado \in {"SUSPENDED_READY"}
    BY <1>1, <1>2, <1>3 DEF Ubicado, UnSitio, EstadoAlDia, EstadosDe, SinSitio
  <2> QED BY <1>1, <1>3, <2>1, Observacion
<1>5. EstadoObservable(p)' = "READY"
  <2>1. ~EstaEn("EXEC", p)' /\ ~EstaEn("atender", p)' /\ ~EstaEn("READY", p)'
    BY <1>1, <1>2, <1>4 DEF Queda
  <2>2. pcb'[p].estado = "READY"
    BY <1>1, <1>2, <1>3 DEF Ubicado, EstadoAlDia, EstadosDe
  <2> QED BY <1>3, <2>1, <2>2, ObservacionDespues
<1>6. \A q \in Proc : q # p => Ajeno(q)
  BY <1>1 DEF Queda
<1>7. Ciclo!Pasar(p, "SUSPENDED_READY", "READY")
  BY <1>4, <1>5, <1>6, UnoCambia
<1>8. Ciclo!Cardinality(Ciclo!Admitidos) < GRADO
  <2>1. sem["transicionar"] > 0
    BY DEF MedianoTomarSusready
  <2> QED BY <2>1, GradoAlcanza
<1> QED BY <1>7, <1>8 DEF Ciclo!Next, Ciclo!Admitir

LEMMA MedianoEncolarReadyCiclo ==
  ASSUME IInv, IInv', Orden, Orden', MedianoEncolarReady
  PROVE  Observado' = Observado
<1>1. PICK p \in Proc :
        /\ EstaEn("mediano", p)
        /\ Queda(p, "READY")
        /\ pcb'[p].estado = pcb[p].estado
  BY MedianoEncolarReadyEfecto
<1>2. {"NEW", "READY", "EXEC", "EXIT", "BLOCKED", "atender", "mediano"} \subseteq Sitios
  BY DEF Sitios, Colas
<1>3. Ubicado(p) /\ UnSitio(p) /\ UnSitio(p)'
  BY DEF Orden, Ubicado
<1>4. EstadoObservable(p) = "READY"
  <2>1. /\ ~EstaEn("EXEC", p) /\ ~EstaEn("atender", p) /\ ~EstaEn("READY", p)
        /\ pcb[p].estado \in {"READY"}
    BY <1>1, <1>2, <1>3 DEF Ubicado, UnSitio, EstadoAlDia, EstadosDe, SinSitio
  <2> QED BY <1>1, <1>3, <2>1, Observacion
<1>5. EstadoObservable(p)' = "READY"
  <2>1. ~EstaEn("EXEC", p)' /\ ~EstaEn("atender", p)' /\ EstaEn("READY", p)'
    BY <1>1, <1>2, <1>4 DEF Queda
  <2>2. pcb'[p].estado = "READY"
    BY <1>1, <1>2, <1>3 DEF Ubicado, EstadoAlDia, EstadosDe
  <2> QED BY <1>3, <2>1, <2>2, ObservacionDespues
<1>6. \A q \in Proc : q # p => Ajeno(q)
  BY <1>1 DEF Queda
<1>7. Observado' = Observado
  BY <1>4, <1>5, <1>6, UnoCambia
<1> QED BY <1>7

LEMMA CortoDespacharCiclo ==
  ASSUME IInv, IInv', Orden, Orden', CortoDespachar
  PROVE  Ciclo!Next
<1>1. PICK p \in Proc :
        /\ EstaEn("READY", p)
        /\ Queda(p, "EXEC")
        /\ pcb'[p].estado = pcb[p].estado
  BY CortoDespacharEfecto
<1>2. {"NEW", "READY", "EXEC", "EXIT", "BLOCKED", "atender"} \subseteq Sitios
  BY DEF Sitios, Colas
<1>3. Ubicado(p) /\ UnSitio(p) /\ UnSitio(p)'
  BY DEF Orden, Ubicado
<1>4. EstadoObservable(p) = "READY"
  <2>1. /\ ~EstaEn("EXEC", p) /\ ~EstaEn("atender", p) /\ EstaEn("READY", p)
        /\ pcb[p].estado \in {"NEW", "READY"}
    BY <1>1, <1>2, <1>3 DEF Ubicado, UnSitio, EstadoAlDia, EstadosDe, SinSitio
  <2> QED BY <1>1, <1>3, <2>1, Observacion
<1>5. EstadoObservable(p)' = "EXEC"
  <2>1. EstaEn("EXEC", p)' \/ EstaEn("atender", p)'
    BY <1>1, <1>2, <1>4 DEF Queda
  <2>2. pcb'[p].estado \in {"NEW", "READY"}
    BY <1>1, <1>2, <1>3 DEF Ubicado, EstadoAlDia, EstadosDe
  <2> QED BY <1>3, <2>1, <2>2, ObservacionDespues
<1>6. \A q \in Proc : q # p => Ajeno(q)
  BY <1>1 DEF Queda
<1>7. Ciclo!Pasar(p, "READY", "EXEC")
  BY <1>4, <1>5, <1>6, UnoCambia
<1>8. Ciclo!En("EXEC") = {}
  <2> SUFFICES ASSUME NEW q \in Proc, EstadoObservable(q) = "EXEC"
               PROVE  FALSE
    BY DEF Ciclo!En
  <2>1. ~EstaEn("EXEC", q)
    BY DespacharLugares DEF Orden, EstaEn, Colas
  <2>2. ~EstaEn("atender", q)
    <3>1. hilo["atender"] = "esperar"
      BY DespacharLugares DEF Orden
    <3> QED BY <3>1, NingunoAssumption DEF Orden, ManosLibres, EstaEn, Colas
  <2>3. pcb[q].estado # "EXEC" /\ UnSitio(q)
    BY DEF IInv, TypeOK, Pcb, EstadoPcb, Orden, Ubicado
  <2> QED BY <2>1, <2>2, <2>3, Observacion
<1> QED BY <1>7, <1>8 DEF Ciclo!Next, Ciclo!Despachar

LEMMA AtenderEnviarPcbCiclo ==
  ASSUME IInv, IInv', Orden, Orden', AtenderEnviarPcb
  PROVE  Observado' = Observado
<1>1. PICK p \in Proc :
        /\ EstaEn("EXEC", p)
        /\ Queda(p, "EXEC")
  BY AtenderEnviarPcbEfecto
<1>2. {"NEW", "READY", "EXEC", "EXIT", "BLOCKED", "atender"} \subseteq Sitios
  BY DEF Sitios, Colas
<1>3. Ubicado(p) /\ UnSitio(p) /\ UnSitio(p)'
  BY DEF Orden, Ubicado
<1>4. EstadoObservable(p) = "EXEC"
  <2>1. EstaEn("EXEC", p) \/ EstaEn("atender", p)
    BY <1>1, <1>2, <1>3 DEF Ubicado, UnSitio, EstadoAlDia, EstadosDe, SinSitio
  <2> QED BY <1>1, <1>3, <2>1, Observacion
<1>5. EstadoObservable(p)' = "EXEC"
  <2>1. EstaEn("EXEC", p)' \/ EstaEn("atender", p)'
    BY <1>1, <1>2, <1>4 DEF Queda
  <2> QED BY <1>3, <2>1, ObservacionDespues
<1>6. \A q \in Proc : q # p => Ajeno(q)
  BY <1>1 DEF Queda
<1>7. Observado' = Observado
  BY <1>4, <1>5, <1>6, UnoCambia
<1> QED BY <1>7

LEMMA AtenderRecibirPcbCiclo ==
  ASSUME IInv, IInv', Orden, Orden', AtenderRecibirPcb
  PROVE  Observado' = Observado
<1>1. PICK p \in Proc :
        /\ EstaEn("EXEC", p)
        /\ Queda(p, "atender")
  BY AtenderRecibirPcbEfecto
<1>2. {"NEW", "READY", "EXEC", "EXIT", "BLOCKED", "atender"} \subseteq Sitios
  BY DEF Sitios, Colas
<1>3. Ubicado(p) /\ UnSitio(p) /\ UnSitio(p)'
  BY DEF Orden, Ubicado
<1>4. EstadoObservable(p) = "EXEC"
  <2>1. EstaEn("EXEC", p) \/ EstaEn("atender", p)
    BY <1>1, <1>2, <1>3 DEF Ubicado, UnSitio, EstadoAlDia, EstadosDe, SinSitio
  <2> QED BY <1>1, <1>3, <2>1, Observacion
<1>5. EstadoObservable(p)' = "EXEC"
  <2>1. EstaEn("EXEC", p)' \/ EstaEn("atender", p)'
    BY <1>1, <1>2, <1>4 DEF Queda
  <2> QED BY <1>3, <2>1, ObservacionDespues
<1>6. \A q \in Proc : q # p => Ajeno(q)
  BY <1>1 DEF Queda
<1>7. Observado' = Observado
  BY <1>4, <1>5, <1>6, UnoCambia
<1> QED BY <1>7

LEMMA AtenderEncolarIOCiclo ==
  ASSUME IInv, IInv', Orden, Orden', AtenderEncolarIO
  PROVE  Observado' = Observado
<1>1. PICK p \in Proc :
        /\ EstaEn("atender", p)
        /\ Queda(p, "atender")
  BY AtenderEncolarIOEfecto
<1>2. {"NEW", "READY", "EXEC", "EXIT", "BLOCKED", "atender"} \subseteq Sitios
  BY DEF Sitios, Colas
<1>3. Ubicado(p) /\ UnSitio(p) /\ UnSitio(p)'
  BY DEF Orden, Ubicado
<1>4. EstadoObservable(p) = "EXEC"
  <2>1. EstaEn("EXEC", p) \/ EstaEn("atender", p)
    BY <1>1, <1>2, <1>3 DEF Ubicado, UnSitio, EstadoAlDia, EstadosDe, SinSitio
  <2> QED BY <1>1, <1>3, <2>1, Observacion
<1>5. EstadoObservable(p)' = "EXEC"
  <2>1. EstaEn("EXEC", p)' \/ EstaEn("atender", p)'
    BY <1>1, <1>2, <1>4 DEF Queda
  <2> QED BY <1>3, <2>1, ObservacionDespues
<1>6. \A q \in Proc : q # p => Ajeno(q)
  BY <1>1 DEF Queda
<1>7. Observado' = Observado
  BY <1>4, <1>5, <1>6, UnoCambia
<1> QED BY <1>7

LEMMA AtenderMarcarBlockedCiclo ==
  ASSUME IInv, IInv', Orden, Orden', AtenderMarcarBlocked
  PROVE  Observado' = Observado
<1>1. PICK p \in Proc :
        /\ EstaEn("atender", p)
        /\ Queda(p, "atender")
  BY AtenderMarcarBlockedEfecto
<1>2. {"NEW", "READY", "EXEC", "EXIT", "BLOCKED", "atender"} \subseteq Sitios
  BY DEF Sitios, Colas
<1>3. Ubicado(p) /\ UnSitio(p) /\ UnSitio(p)'
  BY DEF Orden, Ubicado
<1>4. EstadoObservable(p) = "EXEC"
  <2>1. EstaEn("EXEC", p) \/ EstaEn("atender", p)
    BY <1>1, <1>2, <1>3 DEF Ubicado, UnSitio, EstadoAlDia, EstadosDe, SinSitio
  <2> QED BY <1>1, <1>3, <2>1, Observacion
<1>5. EstadoObservable(p)' = "EXEC"
  <2>1. EstaEn("EXEC", p)' \/ EstaEn("atender", p)'
    BY <1>1, <1>2, <1>4 DEF Queda
  <2> QED BY <1>3, <2>1, ObservacionDespues
<1>6. \A q \in Proc : q # p => Ajeno(q)
  BY <1>1 DEF Queda
<1>7. Observado' = Observado
  BY <1>4, <1>5, <1>6, UnoCambia
<1> QED BY <1>7

LEMMA AtenderDesalojadoCiclo ==
  ASSUME IInv, IInv', Orden, Orden', AtenderDesalojado
  PROVE  Ciclo!Next
<1>1. PICK p \in Proc :
        /\ EstaEn("atender", p)
        /\ Queda(p, "READY")
        /\ pcb'[p].estado = "READY"
  BY AtenderDesalojadoEfecto
<1>2. {"NEW", "READY", "EXEC", "EXIT", "BLOCKED", "atender"} \subseteq Sitios
  BY DEF Sitios, Colas
<1>3. Ubicado(p) /\ UnSitio(p) /\ UnSitio(p)'
  BY DEF Orden, Ubicado
<1>4. EstadoObservable(p) = "EXEC"
  <2>1. EstaEn("EXEC", p) \/ EstaEn("atender", p)
    BY <1>1, <1>2, <1>3 DEF Ubicado, UnSitio, EstadoAlDia, EstadosDe, SinSitio
  <2> QED BY <1>1, <1>3, <2>1, Observacion
<1>5. EstadoObservable(p)' = "READY"
  <2>1. ~EstaEn("EXEC", p)' /\ ~EstaEn("atender", p)' /\ EstaEn("READY", p)'
    BY <1>1, <1>2, <1>4 DEF Queda
  <2>2. pcb'[p].estado = "READY"
    BY <1>1, <1>2, <1>3 DEF Ubicado, EstadoAlDia, EstadosDe
  <2> QED BY <1>3, <2>1, <2>2, ObservacionDespues
<1>6. \A q \in Proc : q # p => Ajeno(q)
  BY <1>1 DEF Queda
<1>7. Ciclo!Pasar(p, "EXEC", "READY")
  BY <1>4, <1>5, <1>6, UnoCambia
<1> QED BY <1>7 DEF Ciclo!Next

LEMMA AtenderTerminadoCiclo ==
  ASSUME IInv, IInv', Orden, Orden', AtenderTerminado
  PROVE  Ciclo!Next
<1>1. PICK p \in Proc :
        /\ EstaEn("atender", p)
        /\ Queda(p, "EXIT")
        /\ pcb'[p].estado = "EXIT"
  BY AtenderTerminadoEfecto
<1>2. {"NEW", "READY", "EXEC", "EXIT", "BLOCKED", "atender"} \subseteq Sitios
  BY DEF Sitios, Colas
<1>3. Ubicado(p) /\ UnSitio(p) /\ UnSitio(p)'
  BY DEF Orden, Ubicado
<1>4. EstadoObservable(p) = "EXEC"
  <2>1. EstaEn("EXEC", p) \/ EstaEn("atender", p)
    BY <1>1, <1>2, <1>3 DEF Ubicado, UnSitio, EstadoAlDia, EstadosDe, SinSitio
  <2> QED BY <1>1, <1>3, <2>1, Observacion
<1>5. EstadoObservable(p)' = "EXIT"
  <2>1. ~EstaEn("EXEC", p)' /\ ~EstaEn("atender", p)' /\ ~EstaEn("READY", p)'
    BY <1>1, <1>2, <1>4 DEF Queda
  <2>2. pcb'[p].estado = "EXIT"
    BY <1>1, <1>2, <1>3 DEF Ubicado, EstadoAlDia, EstadosDe
  <2> QED BY <1>3, <2>1, <2>2, ObservacionDespues
<1>6. \A q \in Proc : q # p => Ajeno(q)
  BY <1>1 DEF Queda
<1>7. Ciclo!Pasar(p, "EXEC", "EXIT")
  BY <1>4, <1>5, <1>6, UnoCambia
<1> QED BY <1>7 DEF Ciclo!Next

LEMMA AtenderEncolarBlockedCiclo ==
  ASSUME IInv, IInv', Orden, Orden', AtenderEncolarBlocked
  PROVE  Ciclo!Next
<1>1. PICK p \in Proc :
        /\ hilo["atender"] = "encolarBlocked" /\ EstaEn("atender", p)
        /\ Queda(p, "BLOCKED")
        /\ pcb'[p].estado = pcb[p].estado
  BY AtenderEncolarBlockedEfecto
<1>2. {"NEW", "READY", "EXEC", "EXIT", "BLOCKED", "atender"} \subseteq Sitios
  BY DEF Sitios, Colas
<1>3. Ubicado(p) /\ UnSitio(p) /\ UnSitio(p)'
  BY DEF Orden, Ubicado
<1>4. EstadoObservable(p) = "EXEC"
  <2>1. EstaEn("EXEC", p) \/ EstaEn("atender", p)
    BY <1>1, <1>2, <1>3 DEF Ubicado, UnSitio, EstadoAlDia, EstadosDe, SinSitio
  <2> QED BY <1>1, <1>3, <2>1, Observacion
<1>5. EstadoObservable(p)' = "BLOCKED"
  <2>1. ~EstaEn("EXEC", p)' /\ ~EstaEn("atender", p)' /\ ~EstaEn("READY", p)'
    BY <1>1, <1>2, <1>4 DEF Queda
  <2>2. pcb'[p].estado = "BLOCKED"
    BY <1>1, <1>2, <1>3 DEF Ubicado, EstadoAlDia, EstadosDe
  <2> QED BY <1>3, <2>1, <2>2, ObservacionDespues
<1>6. \A q \in Proc : q # p => Ajeno(q)
  BY <1>1 DEF Queda
<1>7. Ciclo!Pasar(p, "EXEC", "BLOCKED")
  BY <1>4, <1>5, <1>6, UnoCambia
<1> QED BY <1>7 DEF Ciclo!Next

LEMMA IOVolverAReadyCiclo ==
  ASSUME IInv, IInv', Orden, Orden', Puntual, IOVolverAReady
  PROVE  Ciclo!Next
<1>1. PICK p \in Proc :
        /\ pcb[p].estado = "BLOCKED" /\ ~EstaEn("atender", p)
        /\ Queda(p, "READY")
        /\ pcb'[p].estado = "READY"
  BY IOVolverAReadyEfecto
<1>2. {"NEW", "READY", "EXEC", "EXIT", "BLOCKED", "atender"} \subseteq Sitios
  BY DEF Sitios, Colas
<1>3. Ubicado(p) /\ UnSitio(p) /\ UnSitio(p)'
  BY DEF Orden, Ubicado
<1>4. EstadoObservable(p) = "BLOCKED"
  <2>1. /\ ~EstaEn("EXEC", p) /\ ~EstaEn("atender", p) /\ ~EstaEn("READY", p)
        /\ pcb[p].estado \in {"BLOCKED"}
    BY <1>1, <1>2, <1>3 DEF Ubicado, UnSitio, EstadoAlDia, EstadosDe, SinSitio
  <2> QED BY <1>1, <1>3, <2>1, Observacion
<1>5. EstadoObservable(p)' = "READY"
  <2>1. ~EstaEn("EXEC", p)' /\ ~EstaEn("atender", p)' /\ EstaEn("READY", p)'
    BY <1>1, <1>2, <1>4 DEF Queda
  <2>2. pcb'[p].estado = "READY"
    BY <1>1, <1>2, <1>3 DEF Ubicado, EstadoAlDia, EstadosDe
  <2> QED BY <1>3, <2>1, <2>2, ObservacionDespues
<1>6. \A q \in Proc : q # p => Ajeno(q)
  BY <1>1 DEF Queda
<1>7. Ciclo!Pasar(p, "BLOCKED", "READY")
  BY <1>4, <1>5, <1>6, UnoCambia
<1> QED BY <1>7 DEF Ciclo!Next

LEMMA IOVolverASusreadyCiclo ==
  ASSUME IInv, IInv', Orden, Orden', IOVolverASusready
  PROVE  Ciclo!Next
<1>1. PICK p \in Proc :
        /\ EstaEn("SUSPENDED_BLOCKED", p)
        /\ Queda(p, "SUSPENDED_READY")
        /\ pcb'[p].estado = "SUSPENDED_READY"
  BY IOVolverASusreadyEfecto
<1>2. {"NEW", "READY", "EXEC", "EXIT", "BLOCKED", "atender", "SUSPENDED_BLOCKED", "SUSPENDED_READY"} \subseteq Sitios
  BY DEF Sitios, Colas
<1>3. Ubicado(p) /\ UnSitio(p) /\ UnSitio(p)'
  BY DEF Orden, Ubicado
<1>4. EstadoObservable(p) = "SUSPENDED_BLOCKED"
  <2>1. /\ ~EstaEn("EXEC", p) /\ ~EstaEn("atender", p) /\ ~EstaEn("READY", p)
        /\ pcb[p].estado \in {"SUSPENDED_BLOCKED"}
    BY <1>1, <1>2, <1>3 DEF Ubicado, UnSitio, EstadoAlDia, EstadosDe, SinSitio
  <2> QED BY <1>1, <1>3, <2>1, Observacion
<1>5. EstadoObservable(p)' = "SUSPENDED_READY"
  <2>1. ~EstaEn("EXEC", p)' /\ ~EstaEn("atender", p)' /\ ~EstaEn("READY", p)'
    BY <1>1, <1>2, <1>4 DEF Queda
  <2>2. pcb'[p].estado = "SUSPENDED_READY"
    BY <1>1, <1>2, <1>3 DEF Ubicado, EstadoAlDia, EstadosDe
  <2> QED BY <1>3, <2>1, <2>2, ObservacionDespues
<1>6. \A q \in Proc : q # p => Ajeno(q)
  BY <1>1 DEF Queda
<1>7. Ciclo!Pasar(p, "SUSPENDED_BLOCKED", "SUSPENDED_READY")
  BY <1>4, <1>5, <1>6, UnoCambia
<1> QED BY <1>7 DEF Ciclo!Next

LEMMA LiberarPcbCiclo ==
  ASSUME IInv, IInv', Orden, Orden', Excesivos = {}, LiberarPcb
  PROVE  Ciclo!Next
<1>1. PICK p \in Proc :
        /\ EstaEn("EXIT", p)
        /\ Queda(p, Ninguno)
        /\ pcb'[p].estado = "LIBERADO"
  BY LiberarPcbEfecto
<1>2. {"NEW", "READY", "EXEC", "EXIT", "BLOCKED", "atender"} \subseteq Sitios
  BY DEF Sitios, Colas
<1>3. Ubicado(p) /\ UnSitio(p) /\ UnSitio(p)'
  BY DEF Orden, Ubicado
<1>4. EstadoObservable(p) = "EXIT"
  <2>1. /\ ~EstaEn("EXEC", p) /\ ~EstaEn("atender", p) /\ ~EstaEn("READY", p)
        /\ pcb[p].estado \in {"EXIT"}
    BY <1>1, <1>2, <1>3 DEF Ubicado, UnSitio, EstadoAlDia, EstadosDe, SinSitio
  <2> QED BY <1>1, <1>3, <2>1, Observacion
<1>5. EstadoObservable(p)' = "LIBERADO"
  <2>1. ~EstaEn("EXEC", p)' /\ ~EstaEn("atender", p)' /\ ~EstaEn("READY", p)'
    BY <1>1, <1>2, <1>4 DEF Queda, Ninguno, Sitios, Colas
  <2>2. pcb'[p].estado = "LIBERADO"
    BY <1>1, <1>2, <1>3 DEF Ubicado, EstadoAlDia, EstadosDe
  <2> QED BY <1>3, <2>1, <2>2, ObservacionDespues
<1>6. \A q \in Proc : q # p => Ajeno(q)
  BY <1>1 DEF Queda
<1>7. Ciclo!Pasar(p, "EXIT", "LIBERADO")
  BY <1>4, <1>5, <1>6, UnoCambia
<1> QED BY <1>7 DEF Ciclo!Next

\* The steps nobody sees: notices, the CPU, the timers before they suspend.
LEMMA PasoSinTransicion ==
  ASSUME IInv, IInv', Orden, Puntual,
         \/ Avisos \/ IOIniciar \/ CpuSeguir \/ CpuDetener
         \/ \E t \in Temporizadores : \/ TemporizadorIniciar(t) \/ TemporizadorVencer(t)
                                      \/ TemporizadorMarcarFinal(t) \/ TemporizadorNoSuspender(t)
  PROVE  Observado' = Observado
<1>1. CASE Avisos
  <2>1. \A q \in Proc : Ajeno(q)
    BY <1>1, AvisosEfecto
  <2> QED BY <2>1, NadieCambia DEF Ajeno
<1>2. CASE IOIniciar
  <2>1. PICK p \in Proc :
          /\ \A q \in Proc : q # p => Ajeno(q)
          /\ MismoSitio(p) /\ pcb'[p].estado = pcb[p].estado
    BY <1>2, IOIniciarEfecto
  <2> QED BY <2>1, NadieCambia DEF Ajeno
<1>3. CASE CpuSeguir \/ CpuDetener
  <2>1. PICK p \in Proc :
          /\ \A q \in Proc : q # p => Ajeno(q)
          /\ MismoSitio(p) /\ pcb' = pcb
    BY <1>3, CpuEfecto
  <2> QED BY <2>1, NadieCambia DEF Ajeno
<1>4. ASSUME NEW t \in Temporizadores,
             \/ TemporizadorIniciar(t) \/ TemporizadorVencer(t)
             \/ TemporizadorMarcarFinal(t) \/ TemporizadorNoSuspender(t)
      PROVE  Observado' = Observado
  <2>1. PICK p \in Proc :
          /\ \A q \in Proc : q # p => Ajeno(q)
          /\ MismoSitio(p) /\ pcb'[p].estado = pcb[p].estado
    BY <1>4, TemporizadorIniciarEfecto, TemporizadorMueveEfecto
  <2> QED BY <2>1, NadieCambia DEF Ajeno
<1> QED BY <1>1, <1>2, <1>3, <1>4

LEMMA TemporizadorRemoverCiclo ==
  ASSUME IInv, IInv', Orden, Orden', NEW t \in Temporizadores, TemporizadorRemover(t)
  PROVE  Observado' = Observado
<1>1. PICK p \in Proc : /\ EstaEn("BLOCKED", p)
                        /\ Queda(p, Ninguno)
                        /\ pcb' = pcb
  BY TemporizadorRemoverEfecto
<1>2. {"READY", "EXEC", "BLOCKED", "atender"} \subseteq Sitios /\ Ninguno \notin Sitios
  BY DEF Sitios, Colas, Ninguno
<1>3. Ubicado(p) /\ UnSitio(p) /\ UnSitio(p)'
  BY DEF Orden, Ubicado
<1>4. /\ pcb[p].estado = "BLOCKED"
      /\ \A s \in {"READY", "EXEC", "atender"} : ~EstaEn(s, p) /\ ~EstaEn(s, p)'
  BY <1>1, <1>2, <1>3 DEF Ubicado, UnSitio, EstadoAlDia, EstadosDe, Queda
<1>5. EstadoObservable(p) = "BLOCKED" /\ EstadoObservable(p)' = "BLOCKED"
  BY <1>1, <1>3, <1>4, Observacion, ObservacionDespues
<1> QED BY <1>1, <1>5, UnoCambia DEF Queda

LEMMA TemporizadorSuspenderCiclo ==
  ASSUME IInv, IInv', Orden, Orden', NEW t \in Temporizadores, TemporizadorSuspender(t)
  PROVE  Ciclo!Next
<1>1. PICK p \in Proc : /\ SinSitio(p) /\ pcb[p].estado = "BLOCKED"
                        /\ Queda(p, "SUSPENDED_BLOCKED")
                        /\ pcb'[p].estado = "SUSPENDED_BLOCKED"
  BY TemporizadorSuspenderEfecto
<1>2. {"READY", "EXEC", "SUSPENDED_BLOCKED", "atender"} \subseteq Sitios
  BY DEF Sitios, Colas
<1>3. UnSitio(p) /\ UnSitio(p)'
  BY DEF Orden, Ubicado
<1>4. \A s \in {"READY", "EXEC", "atender"} : ~EstaEn(s, p) /\ ~EstaEn(s, p)'
  BY <1>1, <1>2 DEF SinSitio, Queda
<1>5. EstadoObservable(p) = "BLOCKED" /\ EstadoObservable(p)' = "SUSPENDED_BLOCKED"
  BY <1>1, <1>3, <1>4, Observacion, ObservacionDespues
<1>6. Ciclo!Pasar(p, "BLOCKED", "SUSPENDED_BLOCKED")
  BY <1>1, <1>5, UnoCambia DEF Queda
<1> QED BY <1>6 DEF Ciclo!Next

LEMMA EncolarEnNewCiclo ==
  ASSUME IInv, IInv', Orden, Orden', NEW p \in Proc, EncolarEnNew(p)
  PROVE  Ciclo!Next
<1>1. /\ SinSitio(p) /\ Queda(p, "NEW")
      /\ pcb[p].estado = "NULL" /\ pcb'[p].estado = "NEW"
  BY EncolarEnNewEfecto
<1>2. {"READY", "EXEC", "NEW", "atender"} \subseteq Sitios
  BY DEF Sitios, Colas
<1>3. UnSitio(p) /\ UnSitio(p)'
  BY DEF Orden, Ubicado
<1>4. \A s \in {"READY", "EXEC", "atender"} : ~EstaEn(s, p) /\ ~EstaEn(s, p)'
  BY <1>1, <1>2 DEF SinSitio, Queda
<1>5. EstadoObservable(p) = "NULL" /\ EstadoObservable(p)' = "NEW"
  BY <1>1, <1>3, <1>4, Observacion, ObservacionDespues
<1>6. Ciclo!Pasar(p, "NULL", "NEW")
  BY <1>1, <1>5, UnoCambia DEF Queda
<1> QED BY <1>6 DEF Ciclo!Next

LEMMA PasoCiclo ==
  ASSUME Puntual, Excesivos = {}, IInv, IInv', Orden, Orden', [Next]_vars
  PROVE  Ciclo!Next \/ Observado' = Observado
<1>1. CASE UNCHANGED vars
  BY <1>1 DEF vars, Observado, EstadoObservable, ContienePcb
<1>2. CASE \E p \in Proc : EncolarEnNew(p)
  BY <1>2, EncolarEnNewCiclo
<1>3. CASE Avisos
  BY <1>3, PasoSinTransicion
<1>4. CASE Largo
  <2>1. ~LargoRechazar
    BY DEF LargoRechazar
  <2> QED BY <1>3, <1>4, <2>1, LargoTomarNewCiclo, LargoAdmitirCiclo DEF Largo, Avisos
<1>5. CASE Mediano
  BY <1>3, <1>5, MedianoTomarSusreadyCiclo, MedianoEncolarReadyCiclo DEF Mediano, Avisos
<1>6. CASE Corto
  BY <1>3, <1>6, CortoDespacharCiclo DEF Corto, Avisos
<1>7. CASE Atender
  BY <1>7, AtenderEnviarPcbCiclo, AtenderRecibirPcbCiclo, AtenderDesalojadoCiclo, AtenderTerminadoCiclo,
     AtenderEncolarIOCiclo, AtenderMarcarBlockedCiclo, AtenderEncolarBlockedCiclo DEF Atender
<1>8. CASE DispositivoIO
  BY <1>3, <1>8, PasoSinTransicion, IOVolverAReadyCiclo, IOVolverASusreadyCiclo, NadaQueDescartar
     DEF DispositivoIO, Avisos
<1>9. CASE LiberarPcb
  BY <1>9, LiberarPcbCiclo
<1>10. CASE Cpu
  BY <1>3, <1>10, PasoSinTransicion DEF Cpu, Avisos
<1>11. CASE \E t \in Temporizadores : Temporizador(t)
  BY <1>11, PasoSinTransicion, TemporizadorRemoverCiclo, TemporizadorSuspenderCiclo DEF Temporizador
<1> QED BY <1>1, <1>2, <1>4, <1>5, <1>6, <1>7, <1>8, <1>9, <1>10, <1>11 DEF Next

\* The Kernel moves the processes only through the transitions it logs, with one of them in
\* EXEC and at most GRADO admitted: the eight threads implement CicloDeVida.
THEOREM ImplementaCicloDeVida ==
  ASSUME Puntual, Excesivos = {}
  PROVE  Spec => ImplementaCiclo
<1>1. Init => Ciclo!Init
  <2> SUFFICES ASSUME Init
               PROVE  \A p \in Proc : EstadoObservable(p) = "NULL"
    BY DEF Ciclo!Init
  <2> TAKE p \in Proc
  <2>1. pcb[p].estado = "NULL" /\ cola["EXEC"] = << >> /\ enMano["atender"] # p
    BY NingunoAssumption DEF Init, Colas, Hilos
  <2> QED BY <2>1 DEF EstadoObservable, ContienePcb
<1>2. IInv /\ Orden /\ (IInv /\ Orden)' /\ [Next]_vars => [Ciclo!Next]_([p \in Proc |-> EstadoObservable(p)])
  BY PasoCiclo DEF Observado
<1> QED BY <1>1, <1>2, PcbsUbicados, PTL DEF Spec, ImplementaCiclo, Ciclo!Spec

=============================================================================
