----------------------------- MODULE SesionProofs -----------------------------
(* Theorems about Sesion: the accounts of EXIT and of the permits, the life of the Kernel, and *)
(* that every Consola is told what Atencion promises, for any number of Consolas.             *)
EXTENDS Sesion, SequenceTheorems, FiniteSetTheorems, TLAPS

-----------------------------------------------------------------------------
(* The inductive invariant.                                                *)

Antes == {"no", "handshake", "lista", "lock", "leer", "incrementar", "enviar"}
Hablados == {"encolar", "post", "fin"}   \* the Consola was sent its PID
ConPid == {"enviar"} \union Hablados
Mensajes == [header : {"HANDSHAKE_ok_continue", "HEADER_pid", "HEADER_proceso_terminado",
                       "HEADER_memoria_insuficiente"}, pid : Nat]
Puesto(ens) == [en : ens, pcb : Consola \union {Nadie}]

TiposConsolas ==
  /\ consola \in [Consola -> {"inicio", "handshake", "pid", "fin", "ok", "error", "muerta"}]
  /\ idProceso \in [Consola -> Nat]
  /\ alKernel \in [Consola -> Seq({"HANDSHAKE_consola", "HEADER_lista_instrucciones"})]
TiposEnvios ==
  /\ aConsola \in [Consola -> Seq(Mensajes)]
  /\ rst \in [Consola -> {"no", "vuelve", "llego"}]
  /\ kernel \in {"vive", "SIGPIPE", "liberado"}
TiposHilos ==
  /\ hilo \in [Consola -> Antes \union Hablados]
  /\ newPid \in [Consola -> Nat]
  /\ nextPid \in Nat \ {0}
  /\ nextPidMutex \in Consola \union {Nadie}
TiposSemaforos ==
  /\ hayPcbs \in Nat
  /\ grado \in Nat
  /\ semExit \in Nat
TiposPlan ==
  /\ new \in Seq(Consola)
  /\ largo \in Puesto({"esperar", "grado", "admitir", "rechazar", "avisar"})
  /\ atiende \in Puesto({"esperar", "avisar", "post"})
  /\ libera \in Puesto({"esperar", "desencolar", "avisar", "destruir"})
  /\ destino \in [Consola -> {"nada", "sistema", "terminado", "rechazado"}]
  /\ exit \in Seq(Consola)
  /\ liberados \in SUBSET Consola
TypeOK == TiposConsolas /\ TiposEnvios /\ TiposHilos /\ TiposSemaforos /\ TiposPlan

\* A thread has a PCB in its hands where its code uses one.
Manos ==
  /\ largo.pcb # Nadie <=> largo.en \in {"admitir", "rechazar", "avisar"}
  /\ atiende.pcb # Nadie <=> atiende.en # "esperar"
  /\ libera.pcb # Nadie <=> libera.en \in {"avisar", "destruir"}

Acabado(c) == destino[c] \in {"terminado", "rechazado"}

\* What each place says of the PCB in it.
Entrada ==
  /\ \A c \in Consola : hilo[c] \in Antes \union {"encolar"} => destino[c] = "nada" /\ largo.pcb # c
  /\ \A i \in 1..Len(new) : /\ hilo[new[i]] \in {"post", "fin"}
                            /\ destino[new[i]] = "nada" /\ largo.pcb # new[i]
  /\ \A i, j \in 1..Len(new) : new[i] = new[j] => i = j
  /\ largo.en = "admitir" => destino[largo.pcb] = "nada"
  /\ largo.en \in {"rechazar", "avisar"} => destino[largo.pcb] = "rechazado"

Salida ==
  /\ \A i \in 1..Len(exit) : Acabado(exit[i]) /\ exit[i] \notin liberados /\ libera.pcb # exit[i]
  /\ \A i, j \in 1..Len(exit) : exit[i] = exit[j] => i = j
  /\ libera.pcb # Nadie => Acabado(libera.pcb) /\ libera.pcb \notin liberados
  /\ \A c \in liberados : Acabado(c)
  /\ largo.en = "rechazar" => /\ \A i \in 1..Len(exit) : exit[i] # largo.pcb
                              /\ libera.pcb # largo.pcb /\ largo.pcb \notin liberados

\* The PCB __atender_pcb still has something to do with is behind as many PCBs of EXIT as there are
\* posts to take: the thread that frees PCBs does not get to it.
Turno ==
  atiende.en # "esperar" =>
    /\ destino[atiende.pcb] = "terminado"
    /\ \E i \in 1..Len(exit) : exit[i] = atiende.pcb /\ i > semExit + Uno(libera.en = "desencolar")

Los(d) == {c \in Consola : destino[c] = d}
Cuentas ==
  /\ IsFiniteSet(Los("sistema")) /\ IsFiniteSet(Los("rechazado"))
  /\ CuentaDeExit
  /\ CuentaDePermisos

\* The PIDs: nextPid is over all those given, and who is between the reading and the increment
\* has the mutex and the value of nextPid.
Pids ==
  /\ \A c \in Consola : hilo[c] \in {"leer", "incrementar"} <=> nextPidMutex = c
  /\ \A c \in Consola : hilo[c] = "incrementar" => newPid[c] = nextPid
  /\ \A c \in Consola : hilo[c] \in ConPid => newPid[c] \in 1..(nextPid - 1)
  /\ \A c, d \in Consola : hilo[c] \in ConPid /\ hilo[d] \in ConPid /\ newPid[c] = newPid[d] => c = d
  /\ \A c \in Consola : idProceso[c] # 0 => hilo[c] \in Hablados /\ idProceso[c] = newPid[c]

\* After its PID a Consola is sent two messages: what became of its process, unless that is not
\* known or who has to send it did not yet; and that its PCB is about to be freed.
Contestado(c) == /\ Acabado(c)
                 /\ ~(atiende.en = "avisar" /\ atiende.pcb = c)
                 /\ ~(largo.en \in {"rechazar", "avisar"} /\ largo.pcb = c)
Soltado(c) == c \in liberados \/ (libera.en = "destruir" /\ libera.pcb = c)
Avisos(c) == Uno(Contestado(c)) + Uno(Soltado(c))

\* They are in the socket behind the k messages before them, and the first of them is enough to know.
EnCamino(c, k) ==
  /\ Len(aConsola[c]) >= k
  /\ Vive => Len(aConsola[c]) = k + Avisos(c)
  /\ Len(aConsola[c]) > k =>
       destino[c] = IF aConsola[c][k + 1].header = "HEADER_proceso_terminado" THEN "terminado" ELSE "rechazado"

Conversacion(c) ==
  /\ consola[c] = "inicio" => hilo[c] = "no" /\ alKernel[c] = << >> /\ aConsola[c] = << >>
  /\ consola[c] = "handshake" =>
       \/ /\ hilo[c] \in {"no", "handshake"}
          /\ alKernel[c] = <<"HANDSHAKE_consola">> /\ aConsola[c] = << >>
       \/ /\ hilo[c] = "lista"
          /\ alKernel[c] = << >> /\ aConsola[c] = <<Header("HANDSHAKE_ok_continue")>>
  /\ consola[c] = "pid" =>
       \/ hilo[c] = "lista" /\ alKernel[c] = <<"HEADER_lista_instrucciones">> /\ aConsola[c] = << >>
       \/ /\ hilo[c] \in {"lock", "leer", "incrementar", "enviar"}
          /\ alKernel[c] = << >> /\ aConsola[c] = << >>
       \/ /\ hilo[c] \in Hablados
          /\ alKernel[c] = << >> /\ EnCamino(c, 1)
          /\ aConsola[c][1] = Mensaje("HEADER_pid", newPid[c])
  /\ consola[c] \in {"inicio", "handshake", "pid"} => idProceso[c] = 0
  /\ consola[c] \in {"fin", "ok", "error", "muerta"} => hilo[c] \in Hablados /\ alKernel[c] = << >> /\ idProceso[c] # 0
  /\ consola[c] = "fin" => EnCamino(c, 0)
  /\ consola[c] \in {"ok", "error"} /\ Vive =>
       Avisos(c) >= 1 /\ (rst[c] # "no" => Avisos(c) = 2)
  /\ rst[c] # "no" => Cerrada(c)

IInv == TypeOK /\ Manos /\ Entrada /\ Salida /\ Turno /\ Cuentas /\ Pids
        /\ (\A c \in Consola : Conversacion(c)) /\ KernelVive

-----------------------------------------------------------------------------
(* Types.                                                                  *)

LEMMA TiposEnviar ==
  ASSUME TypeOK, NEW c \in Consola, NEW m \in Mensajes, Enviar(c, m)
  PROVE  TiposEnvios'
<1>1. Append(aConsola[c], m) \in Seq(Mensajes)
  BY AppendProperties DEF TypeOK, TiposEnvios
<1> QED BY <1>1 DEF TypeOK, TiposEnvios, Enviar

LEMMA TiposIr ==
  ASSUME TypeOK, NEW c \in Consola, NEW resto \in Seq(Mensajes),
         NEW en \in {"inicio", "handshake", "pid", "fin", "ok", "error", "muerta"}, Ir(c, en, resto), kernel' = kernel
  PROVE  /\ consola' \in [Consola -> {"inicio", "handshake", "pid", "fin", "ok", "error", "muerta"}]
         /\ TiposEnvios'
  BY DEF TypeOK, TiposConsolas, TiposEnvios, Ir

LEMMA TiposConsola ==
  ASSUME TypeOK, NEW c \in Consola, ConsolaPaso(c) \/ Morir(c) \/ RstLlega(c)
  PROVE  TypeOK'
<1>1. /\ Append(alKernel[c], "HANDSHAKE_consola") \in Seq({"HANDSHAKE_consola", "HEADER_lista_instrucciones"})
      /\ Append(alKernel[c], "HEADER_lista_instrucciones")
           \in Seq({"HANDSHAKE_consola", "HEADER_lista_instrucciones"})
  BY AppendProperties DEF TypeOK, TiposConsolas
<1>2. << >> \in Seq(Mensajes) /\ aConsola[c] \in Seq(Mensajes)
  BY EmptySeq DEF TypeOK, TiposEnvios
<1>3. aConsola[c] # << >> => Tail(aConsola[c]) \in Seq(Mensajes) /\ Head(aConsola[c]).pid \in Nat
  <2> SUFFICES ASSUME aConsola[c] # << >> PROVE Tail(aConsola[c]) \in Seq(Mensajes) /\ Head(aConsola[c]).pid \in Nat
    OBVIOUS
  <2>1. Tail(aConsola[c]) \in Seq(Mensajes) /\ Head(aConsola[c]) \in Mensajes
    BY <1>2, HeadTailProperties
  <2> QED BY <2>1 DEF Mensajes
<1>4. UNCHANGED <<hilo, varsPid, varsPlan, kernel>>
  BY DEF ConsolaPaso, ConsolaConectar, ConsolaEnviarInstrucciones, ConsolaRecibirPid, ConsolaRecibirFin, Morir,
         RstLlega, varsSesion
<1>5. TiposHilos' /\ TiposSemaforos' /\ TiposPlan'
  BY <1>4 DEF TypeOK, TiposHilos, TiposSemaforos, TiposPlan, varsPid, varsPlan
<1>6. /\ consola' \in [Consola -> {"inicio", "handshake", "pid", "fin", "ok", "error", "muerta"}]
      /\ TiposEnvios'
  <2>1. CASE ConsolaConectar(c)
    BY <1>2, <1>4, <2>1, TiposIr DEF ConsolaConectar
  <2>2. CASE ConsolaEnviarInstrucciones(c)
    <3>1. Ir(c, "pid", Tail(aConsola[c])) \/ Ir(c, "error", Tail(aConsola[c]))
      BY <2>2 DEF ConsolaEnviarInstrucciones
    <3> QED BY <1>3, <1>4, <2>2, <3>1, TiposIr DEF ConsolaEnviarInstrucciones
  <2>3. CASE ConsolaRecibirPid(c)
    <3>1. Ir(c, "fin", Tail(aConsola[c])) \/ Ir(c, "error", Tail(aConsola[c]))
      BY <2>3 DEF ConsolaRecibirPid
    <3> QED BY <1>3, <1>4, <2>3, <3>1, TiposIr DEF ConsolaRecibirPid
  <2>4. CASE ConsolaRecibirFin(c)
    <3>1. Ir(c, "ok", Tail(aConsola[c])) \/ Ir(c, "error", Tail(aConsola[c]))
      BY <2>4 DEF ConsolaRecibirFin
    <3> QED BY <1>3, <1>4, <2>4, <3>1, TiposIr DEF ConsolaRecibirFin
  <2>5. CASE Morir(c)
    BY <1>2, <1>4, <2>5, TiposIr DEF Morir
  <2>6. CASE RstLlega(c)
    BY <2>6 DEF RstLlega, TypeOK, TiposConsolas, TiposEnvios, varsSesion, varsConsola
  <2> QED BY <2>1, <2>2, <2>3, <2>4, <2>5, <2>6 DEF ConsolaPaso
<1>7. idProceso' \in [Consola -> Nat]
  BY <1>3 DEF TypeOK, TiposConsolas, ConsolaPaso, ConsolaConectar, ConsolaEnviarInstrucciones, ConsolaRecibirPid,
              ConsolaRecibirFin, Morir, RstLlega, varsSesion, varsConsola
<1>8. alKernel' \in [Consola -> Seq({"HANDSHAKE_consola", "HEADER_lista_instrucciones"})]
  BY <1>1 DEF TypeOK, TiposConsolas, ConsolaPaso, ConsolaConectar, ConsolaEnviarInstrucciones, ConsolaRecibirPid,
              ConsolaRecibirFin, Morir, RstLlega, varsSesion
<1> QED BY <1>5, <1>6, <1>7, <1>8 DEF TypeOK, TiposConsolas

LEMMA TiposHilo ==
  ASSUME TypeOK, NEW c \in Consola, HiloPaso(c)
  PROVE  TypeOK'
<1>1. TiposConsolas'
  <2>1. alKernel[c] # << >> => Tail(alKernel[c]) \in Seq({"HANDSHAKE_consola", "HEADER_lista_instrucciones"})
    BY HeadTailProperties DEF TypeOK, TiposConsolas
  <2>2. UNCHANGED varsConsola
    BY DEF HiloPaso, Aceptar, HiloHandshake, HiloRecibirLista, HiloLock, HiloLeerPid, HiloIncrementar, HiloEnviarPid,
           HiloEncolar, HiloPost
  <2>3. alKernel' = alKernel \/ (alKernel[c] # << >> /\ alKernel' = [alKernel EXCEPT ![c] = Tail(@)])
    <3>1. CASE HiloHandshake(c) \/ HiloRecibirLista(c)
      BY <3>1 DEF HiloHandshake, HiloRecibirLista
    <3>2. CASE ~(HiloHandshake(c) \/ HiloRecibirLista(c))
      BY <3>2 DEF HiloPaso, Aceptar, HiloLock, HiloLeerPid, HiloIncrementar, HiloEnviarPid, HiloEncolar, HiloPost, varsRed
    <3> QED BY <3>1, <3>2
  <2> QED BY <2>1, <2>2, <2>3 DEF TypeOK, TiposConsolas, varsConsola
<1>2. TiposEnvios'
  <2>1. Header("HANDSHAKE_ok_continue") \in Mensajes /\ Mensaje("HEADER_pid", newPid[c]) \in Mensajes
    BY DEF TypeOK, TiposHilos, Mensajes, Mensaje, Header
  <2>2. \/ UNCHANGED <<aConsola, rst, kernel>>
        \/ Enviar(c, Header("HANDSHAKE_ok_continue"))
        \/ Enviar(c, Mensaje("HEADER_pid", newPid[c]))
    BY DEF HiloPaso, Aceptar, HiloHandshake, HiloRecibirLista, HiloLock, HiloLeerPid, HiloIncrementar, HiloEnviarPid,
           HiloEncolar, HiloPost, varsRed
  <2>3. CASE UNCHANGED <<aConsola, rst, kernel>>
    BY <2>3 DEF TypeOK, TiposEnvios
  <2> QED BY <2>1, <2>2, <2>3, TiposEnviar
<1>3. hilo' \in [Consola -> Antes \union Hablados]
  <2>1. PICK de \in Antes \union Hablados, a \in Antes \union Hablados : HiloIr(c, de, a)
    BY DEF HiloPaso, Aceptar, HiloHandshake, HiloRecibirLista, HiloLock, HiloLeerPid, HiloIncrementar, HiloEnviarPid,
           HiloEncolar, HiloPost, HiloPasar, Siguiente, Antes, Hablados
  <2> QED BY <2>1 DEF HiloIr, TypeOK, TiposHilos
<1>4. nextPidMutex' \in Consola \union {Nadie} /\ newPid' \in [Consola -> Nat] /\ nextPid' \in Nat \ {0}
  <2>1. \/ UNCHANGED varsPid
        \/ nextPidMutex' = c /\ UNCHANGED <<newPid, nextPid>>
        \/ newPid' = [newPid EXCEPT ![c] = nextPid] /\ UNCHANGED <<nextPid, nextPidMutex>>
        \/ nextPidMutex' = Nadie /\ nextPid' = newPid[c] + 1 /\ UNCHANGED newPid
    BY DEF HiloPaso, Aceptar, HiloHandshake, HiloRecibirLista, HiloLock, HiloLeerPid, HiloIncrementar, HiloEnviarPid,
           HiloEncolar, HiloPost
  <2> QED BY <2>1 DEF TypeOK, TiposHilos, varsPid
<1>5. TiposSemaforos'
  <2>1. UNCHANGED <<grado, semExit>> /\ (hayPcbs' = hayPcbs \/ hayPcbs' = hayPcbs + 1)
    BY DEF HiloPaso, Aceptar, HiloHandshake, HiloRecibirLista, HiloLock, HiloLeerPid, HiloIncrementar, HiloEnviarPid,
           HiloEncolar, HiloPost, varsPlan
  <2> QED BY <2>1 DEF TypeOK, TiposSemaforos
<1>6. TiposPlan'
  <2>1. Append(new, c) \in Seq(Consola)
    BY AppendProperties DEF TypeOK, TiposPlan
  <2>2. UNCHANGED <<largo, atiende, libera, destino, exit, liberados>> /\ (new' = new \/ new' = Append(new, c))
    BY DEF HiloPaso, Aceptar, HiloHandshake, HiloRecibirLista, HiloLock, HiloLeerPid, HiloIncrementar, HiloEnviarPid,
           HiloEncolar, HiloPost, varsPlan
  <2> QED BY <2>1, <2>2 DEF TypeOK, TiposPlan
<1> QED BY <1>1, <1>2, <1>3, <1>4, <1>5, <1>6 DEF TypeOK, TiposHilos

LEMMA TiposLargo ==
  ASSUME TypeOK, Manos, Largo
  PROVE  TypeOK'
<1>1. TiposConsolas' /\ TiposHilos'
  <2>1. UNCHANGED varsSesion
    BY DEF Largo, LargoTomarPcb, LargoPedirTabla, LargoAdmitir, LargoRechazar, LargoAvisar
  <2> QED BY <2>1 DEF TypeOK, TiposConsolas, TiposHilos, varsSesion, varsConsola, varsPid
<1>2. TiposEnvios'
  <2>1. CASE LargoAvisar
    <3>1. largo.pcb \in Consola
      BY <2>1 DEF LargoAvisar, LargoIr, TypeOK, TiposPlan, Manos, Puesto
    <3>2. Header("HEADER_memoria_insuficiente") \in Mensajes
      BY DEF Mensajes, Mensaje, Header
    <3> QED BY <2>1, <3>1, <3>2, TiposEnviar DEF LargoAvisar
  <2>2. CASE UNCHANGED <<aConsola, rst, kernel>>
    BY <2>2 DEF TypeOK, TiposEnvios
  <2> QED BY <2>1, <2>2 DEF Largo, LargoTomarPcb, LargoPedirTabla, LargoAdmitir, LargoRechazar
<1>3. TiposSemaforos'
  <2>1. \/ hayPcbs > 0 /\ hayPcbs' = hayPcbs - 1 /\ UNCHANGED <<grado, semExit>>
        \/ grado > 0 /\ grado' = grado - 1 /\ UNCHANGED <<hayPcbs, semExit>>
        \/ UNCHANGED <<hayPcbs, grado, semExit>>
    BY DEF Largo, LargoTomarPcb, LargoPedirTabla, LargoAdmitir, LargoRechazar, LargoAvisar
  <2> QED BY <2>1 DEF TypeOK, TiposSemaforos
<1>4. TiposPlan'
  <2>1. CASE LargoTomarPcb \/ LargoAvisar
    BY <2>1 DEF LargoTomarPcb, LargoAvisar, LargoIr, TypeOK, TiposPlan, Puesto
  <2>2. CASE LargoPedirTabla
    <3>1. Head(new) \in Consola /\ Tail(new) \in Seq(Consola)
      BY <2>2, HeadTailProperties DEF LargoPedirTabla, TypeOK, TiposPlan
    <3>2. largo' \in Puesto({"esperar", "grado", "admitir", "rechazar", "avisar"})
      BY <2>2, <3>1 DEF LargoPedirTabla, LargoIr, Puesto
    <3>3. destino' \in [Consola -> {"nada", "sistema", "terminado", "rechazado"}]
      BY <2>2, <3>1 DEF LargoPedirTabla, TypeOK, TiposPlan
    <3> QED BY <2>2, <3>1, <3>2, <3>3 DEF LargoPedirTabla, TypeOK, TiposPlan
  <2>3. CASE LargoAdmitir
    BY <2>3 DEF LargoAdmitir, LargoIr, TypeOK, TiposPlan, Puesto
  <2>4. CASE LargoRechazar
    <3>1. largo.pcb \in Consola
      BY <2>4 DEF LargoRechazar, LargoIr, TypeOK, TiposPlan, Manos, Puesto
    <3>2. Append(exit, largo.pcb) \in Seq(Consola)
      BY <3>1, AppendProperties DEF TypeOK, TiposPlan
    <3> QED BY <2>4, <3>1, <3>2 DEF LargoRechazar, LargoIr, TypeOK, TiposPlan, Puesto
  <2> QED BY <2>1, <2>2, <2>3, <2>4 DEF Largo
<1> QED BY <1>1, <1>2, <1>3, <1>4 DEF TypeOK

LEMMA TiposAtiende ==
  ASSUME TypeOK, Manos, Atiende
  PROVE  TypeOK'
<1>1. TiposConsolas' /\ TiposHilos'
  <2>1. UNCHANGED varsSesion
    BY DEF Atiende, AtenderFin, AtenderAvisar, AtenderPost
  <2> QED BY <2>1 DEF TypeOK, TiposConsolas, TiposHilos, varsSesion, varsConsola, varsPid
<1>2. TiposEnvios'
  <2>1. CASE AtenderAvisar
    <3>1. atiende.pcb \in Consola
      BY <2>1 DEF AtenderAvisar, AtiendePasar, TypeOK, TiposPlan, Manos, Puesto
    <3>2. Header("HEADER_proceso_terminado") \in Mensajes
      BY DEF Mensajes, Mensaje, Header
    <3> QED BY <2>1, <3>1, <3>2, TiposEnviar DEF AtenderAvisar
  <2>2. CASE UNCHANGED <<aConsola, rst, kernel>>
    BY <2>2 DEF TypeOK, TiposEnvios
  <2> QED BY <2>1, <2>2 DEF Atiende, AtenderFin, AtenderPost
<1>3. TiposSemaforos'
  <2>1. UNCHANGED <<hayPcbs, grado>> /\ (semExit' = semExit \/ semExit' = semExit + 1)
    BY DEF Atiende, AtenderFin, AtenderAvisar, AtenderPost
  <2> QED BY <2>1 DEF TypeOK, TiposSemaforos
<1>4. TiposPlan'
  <2>1. ASSUME NEW c \in Consola, AtenderFin(c) PROVE TiposPlan'
    <3>1. Append(exit, c) \in Seq(Consola)
      BY AppendProperties DEF TypeOK, TiposPlan
    <3> QED BY <2>1, <3>1 DEF AtenderFin, AtiendePasar, Despues, Libre, TypeOK, TiposPlan, Puesto
  <2>2. CASE AtenderAvisar \/ AtenderPost
    BY <2>2 DEF AtenderAvisar, AtenderPost, AtiendePasar, Despues, Libre, TypeOK, TiposPlan, Puesto
  <2> QED BY <2>1, <2>2 DEF Atiende
<1> QED BY <1>1, <1>2, <1>3, <1>4 DEF TypeOK

LEMMA TiposLibera ==
  ASSUME TypeOK, Manos, Libera
  PROVE  TypeOK'
<1>1. TiposConsolas' /\ TiposHilos'
  <2>1. UNCHANGED varsSesion
    BY DEF Libera, LiberarEsperar, LiberarDesencolar, LiberarAvisar, LiberarDestruir
  <2> QED BY <2>1 DEF TypeOK, TiposConsolas, TiposHilos, varsSesion, varsConsola, varsPid
<1>2. TiposEnvios'
  <2>1. CASE LiberarAvisar
    <3>1. libera.pcb \in Consola
      BY <2>1 DEF LiberarAvisar, LiberaIr, TypeOK, TiposPlan, Manos, Puesto
    <3>2. Header("HANDSHAKE_ok_continue") \in Mensajes
      BY DEF Mensajes, Mensaje, Header
    <3> QED BY <2>1, <3>1, <3>2, TiposEnviar DEF LiberarAvisar
  <2>2. CASE UNCHANGED <<aConsola, rst, kernel>>
    BY <2>2 DEF TypeOK, TiposEnvios
  <2> QED BY <2>1, <2>2 DEF Libera, LiberarEsperar, LiberarDesencolar, LiberarDestruir
<1>3. TiposSemaforos'
  <2>1. \/ semExit > 0 /\ semExit' = semExit - 1 /\ UNCHANGED <<grado, hayPcbs>>
        \/ grado' = grado + 1 /\ UNCHANGED <<hayPcbs, semExit>>
        \/ UNCHANGED <<hayPcbs, grado, semExit>>
    BY DEF Libera, LiberarEsperar, LiberarDesencolar, LiberarAvisar, LiberarDestruir
  <2> QED BY <2>1 DEF TypeOK, TiposSemaforos
<1>4. TiposPlan'
  <2>1. CASE LiberarDesencolar
    <3>1. Head(exit) \in Consola /\ Tail(exit) \in Seq(Consola)
      BY <2>1, HeadTailProperties DEF LiberarDesencolar, TypeOK, TiposPlan
    <3> QED BY <2>1, <3>1 DEF LiberarDesencolar, LiberaIr, TypeOK, TiposPlan, Puesto
  <2>2. CASE LiberarEsperar
    BY <2>2 DEF LiberarEsperar, LiberaIr, TypeOK, TiposPlan, Puesto
  <2>3. CASE LiberarAvisar \/ LiberarDestruir
    <3>1. libera.pcb \in Consola
      BY <2>3 DEF LiberarAvisar, LiberarDestruir, LiberaIr, TypeOK, TiposPlan, Manos, Puesto
    <3> QED BY <2>3, <3>1 DEF LiberarAvisar, LiberarDestruir, LiberaIr, TypeOK, TiposPlan, Puesto
  <2> QED BY <2>1, <2>2, <2>3 DEF Libera
<1> QED BY <1>1, <1>2, <1>3, <1>4 DEF TypeOK

-----------------------------------------------------------------------------
(* What each group of steps leaves alone.                                  *)

LEMMA ConsolaNoToca ==
  ASSUME NEW c \in Consola, ConsolaPaso(c) \/ Morir(c) \/ RstLlega(c)
  PROVE  UNCHANGED <<hilo, varsPid, varsPlan, kernel>>
  BY DEF ConsolaPaso, ConsolaConectar, ConsolaEnviarInstrucciones, ConsolaRecibirPid, ConsolaRecibirFin, Morir,
         RstLlega, varsSesion

LEMMA HiloNoToca ==
  ASSUME NEW c \in Consola, HiloPaso(c)
  PROVE  /\ UNCHANGED <<varsConsola, grado, largo, atiende, libera, destino, exit, semExit, liberados>>
         /\ new' = new \/ HiloEncolar(c)
  BY DEF HiloPaso, Aceptar, HiloHandshake, HiloRecibirLista, HiloLock, HiloLeerPid, HiloIncrementar, HiloEnviarPid,
         HiloEncolar, HiloPost, varsPlan

\* The stages of the thread of a connection.
LEMMA EtapasHilo ==
  ASSUME TypeOK, NEW c \in Consola, HiloPaso(c)
  PROVE  /\ hilo' = [hilo EXCEPT ![c] = hilo'[c]]
         /\ hilo[c] = "encolar" <=> HiloEncolar(c)
         /\ hilo[c] = "encolar" => hilo'[c] = "post"
         /\ hilo'[c] \in Antes \union {"encolar"} => hilo[c] \in Antes
         /\ hilo[c] \in Hablados => hilo'[c] \in {"post", "fin"}
<1>1. PICK de \in Antes \union Hablados, a \in Antes \union Hablados : HiloIr(c, de, a)
  BY DEF HiloPaso, Aceptar, HiloHandshake, HiloRecibirLista, HiloLock, HiloLeerPid, HiloIncrementar, HiloEnviarPid,
         HiloEncolar, HiloPost, HiloPasar, Siguiente, Antes, Hablados
<1>2. hilo' = [hilo EXCEPT ![c] = hilo'[c]]
  BY <1>1 DEF HiloIr, TypeOK, TiposHilos
<1> QED
  BY <1>2 DEF HiloPaso, Aceptar, HiloHandshake, HiloRecibirLista, HiloLock, HiloLeerPid, HiloIncrementar, HiloEnviarPid,
         HiloEncolar, HiloPost, HiloPasar, HiloIr, Siguiente, Antes, Hablados, TypeOK, TiposHilos

\* Who the threads have in hand.
LEMMA EnMano ==
  ASSUME TypeOK, Manos
  PROVE  /\ largo.en \in {"admitir", "rechazar", "avisar"} => largo.pcb \in Consola
         /\ largo.en \in {"esperar", "grado"} => largo.pcb = Nadie
         /\ atiende.en \in {"avisar", "post"} => atiende.pcb \in Consola
         /\ atiende.en = "esperar" => atiende.pcb = Nadie
         /\ libera.en \in {"avisar", "destruir"} => libera.pcb \in Consola
         /\ libera.en \in {"esperar", "desencolar"} => libera.pcb = Nadie
         /\ Nadie \notin Consola
  BY NadieAssumption DEF TypeOK, TiposPlan, Puesto, Manos

\* The first of NEW and of EXIT, and what is left.
LEMMA Primero ==
  ASSUME NEW S, NEW s \in Seq(S), s # << >>
  PROVE  /\ Len(s) \in Nat /\ Len(s) >= 1
         /\ Head(s) \in S /\ Head(s) = s[1]
         /\ Tail(s) \in Seq(S) /\ Len(Tail(s)) = Len(s) - 1
         /\ \A i \in 1..(Len(s) - 1) : Tail(s)[i] = s[i + 1]
         /\ \A i \in 1..Len(Tail(s)) : Tail(s)[i] = s[i + 1] /\ i + 1 \in 1..Len(s) /\ i + 1 # 1
<1>1. Len(s) \in Nat /\ Len(s) >= 1 /\ Head(s) = s[1] /\ Head(s) \in S /\ Tail(s) \in Seq(S)
      /\ Len(Tail(s)) = Len(s) - 1 /\ \A i \in 1..Len(Tail(s)) : Tail(s)[i] = s[i + 1]
  BY HeadTailProperties, EmptySeq, LenProperties
<1> QED BY <1>1

LEMMA Ultimo ==
  ASSUME NEW S, NEW s \in Seq(S), NEW x \in S
  PROVE  /\ Len(s) \in Nat
         /\ Append(s, x) \in Seq(S) /\ Len(Append(s, x)) = Len(s) + 1
         /\ \A i \in 1..Len(s) : Append(s, x)[i] = s[i] /\ i \in 1..Len(Append(s, x))
         /\ Append(s, x)[Len(s) + 1] = x
         /\ \A i \in 1..Len(Append(s, x)) : i \in 1..Len(s) \/ i = Len(s) + 1
  BY AppendProperties, LenProperties

-----------------------------------------------------------------------------
(* Where each PCB is.                                                      *)

LEMMA PasoManos ==
  ASSUME TypeOK, Manos, Next
  PROVE  Manos'
<1>1. ASSUME NEW c \in Consola, ConsolaPaso(c) \/ HiloPaso(c) \/ Morir(c) \/ RstLlega(c) PROVE Manos'
  BY <1>1, ConsolaNoToca, HiloNoToca DEF Manos, varsPlan
<1>2. CASE Largo
  <2>1. CASE LargoPedirTabla
    <3>1. Head(new) \in Consola
      BY <2>1, Primero DEF LargoPedirTabla, TypeOK, TiposPlan
    <3> QED BY <2>1, <3>1, NadieAssumption DEF LargoPedirTabla, LargoIr, Manos
  <2> QED BY <1>2, <2>1 DEF Largo, LargoTomarPcb, LargoAdmitir, LargoRechazar, LargoAvisar, LargoIr, Manos
<1>3. CASE Atiende
  BY <1>3, NadieAssumption
     DEF Atiende, AtenderFin, AtenderAvisar, AtenderPost, AtiendePasar, Despues, Libre, Manos
<1>4. CASE Libera
  <2>1. CASE LiberarDesencolar
    <3>1. Head(exit) \in Consola
      BY <2>1, Primero DEF LiberarDesencolar, TypeOK, TiposPlan
    <3> QED BY <2>1, <3>1, NadieAssumption DEF LiberarDesencolar, LiberaIr, Manos
  <2> QED BY <1>4, <2>1 DEF Libera, LiberarEsperar, LiberarAvisar, LiberarDestruir, LiberaIr, Manos
<1> QED BY <1>1, <1>2, <1>3, <1>4 DEF Next

LEMMA PasoEntrada ==
  ASSUME TypeOK, Manos, Entrada, Next
  PROVE  Entrada'
<1>1. ASSUME NEW c \in Consola, ConsolaPaso(c) \/ Morir(c) \/ RstLlega(c) PROVE Entrada'
  BY <1>1, ConsolaNoToca DEF Entrada, varsPlan
<1>2. ASSUME NEW c \in Consola, HiloPaso(c) PROVE Entrada'
  <2>1. UNCHANGED <<destino, largo>> /\ (new' = new \/ HiloEncolar(c))
    BY <1>2, HiloNoToca
  <2>2. /\ hilo' = [hilo EXCEPT ![c] = hilo'[c]]
        /\ hilo[c] = "encolar" <=> HiloEncolar(c)
        /\ hilo[c] = "encolar" => hilo'[c] = "post"
        /\ hilo'[c] \in Antes \union {"encolar"} => hilo[c] \in Antes
        /\ hilo[c] \in Hablados => hilo'[c] \in {"post", "fin"}
    BY <1>2, EtapasHilo
  <2>3. CASE HiloEncolar(c)
    <3>1. new' = Append(new, c) /\ new \in Seq(Consola)
      BY <2>3 DEF HiloEncolar, TypeOK, TiposPlan
    <3>2. /\ Len(new) \in Nat /\ Len(new') = Len(new) + 1
          /\ \A i \in 1..Len(new) : new'[i] = new[i] /\ i \in 1..Len(new')
          /\ new'[Len(new) + 1] = c
          /\ \A i \in 1..Len(new') : i \in 1..Len(new) \/ i = Len(new) + 1
      BY <3>1, Ultimo
    <3>3. \A i \in 1..Len(new) : new[i] \in Consola /\ new[i] # c
      BY <2>2, <2>3, <3>1 DEF Entrada, TypeOK, TiposPlan
    <3>4. \A i \in 1..Len(new') : /\ hilo'[new'[i]] \in {"post", "fin"}
                                  /\ destino'[new'[i]] = "nada" /\ largo'.pcb # new'[i]
      BY <2>1, <2>2, <2>3, <3>2, <3>3 DEF Entrada, TypeOK, TiposHilos
    <3>5. \A i, j \in 1..Len(new') : new'[i] = new'[j] => i = j
      BY <3>2, <3>3 DEF Entrada
    <3>6. \A d \in Consola : hilo'[d] \in Antes \union {"encolar"} => destino'[d] = "nada" /\ largo'.pcb # d
      BY <2>1, <2>2 DEF Entrada, TypeOK, TiposHilos, Antes
    <3> QED BY <2>1, <3>4, <3>5, <3>6 DEF Entrada
  <2>4. CASE new' = new
    <3>1. \A i \in 1..Len(new) : hilo'[new[i]] \in {"post", "fin"}
      BY <2>2 DEF Entrada, TypeOK, TiposHilos, TiposPlan, Hablados
    <3>2. \A d \in Consola : hilo'[d] \in Antes \union {"encolar"} => destino'[d] = "nada" /\ largo'.pcb # d
      BY <2>1, <2>2 DEF Entrada, TypeOK, TiposHilos, Antes
    <3> QED BY <2>1, <2>4, <3>1, <3>2 DEF Entrada
  <2> QED BY <2>1, <2>3, <2>4
<1>3. CASE Largo
  <2> USE EnMano
  <2>1. UNCHANGED hilo
    BY <1>3 DEF Largo, LargoTomarPcb, LargoPedirTabla, LargoAdmitir, LargoRechazar, LargoAvisar, varsSesion
  <2>2. \A i \in 1..Len(new) : new[i] \in Consola
    BY DEF TypeOK, TiposPlan
  <2>3. CASE LargoTomarPcb \/ LargoAvisar
    BY <2>1, <2>2, <2>3 DEF LargoTomarPcb, LargoAvisar, LargoIr, Entrada
  <2>4. CASE LargoPedirTabla
    <3>1. /\ Len(new) \in Nat /\ Len(new) >= 1 /\ new[1] \in Consola
          /\ largo'.pcb = new[1] /\ Len(new') = Len(new) - 1
          /\ \A i \in 1..Len(new') : new'[i] = new[i + 1] /\ i + 1 \in 1..Len(new) /\ i + 1 # 1
      BY <2>4, Primero DEF LargoPedirTabla, LargoIr, TypeOK, TiposPlan
    <3>2. /\ hilo[new[1]] \in {"post", "fin"} /\ destino[new[1]] = "nada"
          /\ \A i \in 1..Len(new') : new'[i] # new[1]
      BY <3>1 DEF Entrada
    <3>3. \/ largo'.en = "admitir" /\ destino' = destino
          \/ largo'.en = "rechazar" /\ destino' = [destino EXCEPT ![new[1]] = "rechazado"]
      BY <2>4, <3>1, Primero DEF LargoPedirTabla, LargoIr, TypeOK, TiposPlan
    <3>4. destino \in [Consola -> {"nada", "sistema", "terminado", "rechazado"}]
      BY DEF TypeOK, TiposPlan
    <3>5. \A d \in Consola : hilo'[d] \in Antes \union {"encolar"} => destino'[d] = "nada" /\ largo'.pcb # d
      BY <2>1, <3>1, <3>2, <3>3, <3>4 DEF Entrada, Antes
    <3>6. \A i \in 1..Len(new') : /\ hilo'[new'[i]] \in {"post", "fin"}
                                  /\ destino'[new'[i]] = "nada" /\ largo'.pcb # new'[i]
      BY <2>1, <2>2, <3>1, <3>2, <3>3, <3>4 DEF Entrada
    <3>7. \A i, j \in 1..Len(new') : new'[i] = new'[j] => i = j
      BY <3>1 DEF Entrada
    <3>8. /\ largo'.en = "admitir" => destino'[largo'.pcb] = "nada"
          /\ largo'.en \in {"rechazar", "avisar"} => destino'[largo'.pcb] = "rechazado"
      BY <3>1, <3>2, <3>3, <3>4
    <3> QED BY <3>5, <3>6, <3>7, <3>8 DEF Entrada
  <2>5. CASE LargoAdmitir
    BY <2>1, <2>2, <2>5 DEF LargoAdmitir, LargoIr, Entrada, TypeOK, TiposPlan
  <2>6. CASE LargoRechazar
    BY <2>1, <2>2, <2>6 DEF LargoRechazar, LargoIr, Entrada
  <2> QED BY <1>3, <2>3, <2>4, <2>5, <2>6 DEF Largo
<1>4. CASE Atiende
  <2>1. UNCHANGED <<hilo, largo, new>>
    BY <1>4 DEF Atiende, AtenderFin, AtenderAvisar, AtenderPost, varsSesion
  <2>2. \A d \in Consola : destino[d] \in {"nada", "rechazado"} => destino'[d] = destino[d]
    BY <1>4 DEF Atiende, AtenderFin, AtenderAvisar, AtenderPost, TypeOK, TiposPlan
  <2>3. \A i \in 1..Len(new) : new[i] \in Consola
    BY DEF TypeOK, TiposPlan
  <2> QED BY <2>1, <2>2, <2>3, EnMano DEF Entrada
<1>5. CASE Libera
  BY <1>5 DEF Libera, LiberarEsperar, LiberarDesencolar, LiberarAvisar, LiberarDestruir, varsSesion, Entrada
<1> QED BY <1>1, <1>2, <1>3, <1>4, <1>5 DEF Next

LEMMA PasoSalida ==
  ASSUME TypeOK, Manos, Entrada, Salida, Next
  PROVE  Salida'
<1> USE EnMano
<1>1. /\ exit \in Seq(Consola) /\ Len(exit) \in Nat /\ liberados \in SUBSET Consola
      /\ \A i \in 1..Len(exit) : exit[i] \in Consola
      /\ destino \in [Consola -> {"nada", "sistema", "terminado", "rechazado"}]
      /\ libera.pcb \in Consola \union {Nadie}
  BY LenProperties DEF TypeOK, TiposPlan, Puesto
<1>2. ASSUME NEW c \in Consola, ConsolaPaso(c) \/ HiloPaso(c) \/ Morir(c) \/ RstLlega(c) PROVE Salida'
  <2>1. UNCHANGED <<largo, libera, destino, exit, liberados>>
    BY <1>2, ConsolaNoToca, HiloNoToca DEF varsPlan
  <2> QED BY <2>1 DEF Salida, Acabado
<1>3. CASE Largo
  <2>1. UNCHANGED <<libera, liberados>>
    BY <1>3 DEF Largo, LargoTomarPcb, LargoPedirTabla, LargoAdmitir, LargoRechazar, LargoAvisar
  <2>2. CASE LargoTomarPcb \/ LargoAvisar
    BY <2>1, <2>2 DEF LargoTomarPcb, LargoAvisar, LargoIr, Salida, Acabado
  <2>3. CASE LargoPedirTabla
    <3>1. /\ new[1] \in Consola /\ largo'.pcb = new[1] /\ destino[new[1]] = "nada" /\ exit' = exit
          /\ destino' = destino \/ destino' = [destino EXCEPT ![new[1]] = "rechazado"]
      <4>1. Head(new) = new[1] /\ new[1] \in Consola /\ Len(new) \in Nat /\ Len(new) >= 1
        BY <2>3, Primero DEF LargoPedirTabla, TypeOK, TiposPlan
      <4> QED BY <2>3, <4>1 DEF LargoPedirTabla, LargoIr, Entrada
    <3>2. \A d \in Consola : Acabado(d) => Acabado(d)' /\ d # new[1]
      BY <1>1, <3>1 DEF Acabado
    <3> QED BY <1>1, <2>1, <3>1, <3>2 DEF Salida
  <2>4. CASE LargoAdmitir
    <3>1. \A d \in Consola : Acabado(d) => Acabado(d)'
      BY <1>1, <2>4 DEF Acabado, LargoAdmitir, LargoIr, Entrada
    <3> QED BY <1>1, <2>1, <2>4, <3>1 DEF Salida, LargoAdmitir, LargoIr
  <2>5. CASE LargoRechazar
    <3>1. largo.en = "rechazar" /\ largo.pcb \in Consola /\ largo'.en = "avisar"
          /\ exit' = Append(exit, largo.pcb) /\ destino' = destino
      BY <2>5 DEF LargoRechazar, LargoIr
    <3>2. /\ Len(exit') = Len(exit) + 1
          /\ \A i \in 1..Len(exit) : exit'[i] = exit[i] /\ i \in 1..Len(exit')
          /\ exit'[Len(exit) + 1] = largo.pcb
          /\ \A i \in 1..Len(exit') : i \in 1..Len(exit) \/ i = Len(exit) + 1
      BY <1>1, <3>1, Ultimo
    <3>3. Acabado(largo.pcb)
      BY <3>1 DEF Entrada, Acabado
    <3>4. \A i \in 1..Len(exit') : Acabado(exit[i])' /\ exit'[i] \notin liberados' /\ libera'.pcb # exit'[i]
      BY <2>1, <3>1, <3>2, <3>3 DEF Salida, Acabado
    <3>5. \A i, j \in 1..Len(exit') : exit'[i] = exit'[j] => i = j
      BY <3>1, <3>2 DEF Salida
    <3> QED BY <2>1, <3>1, <3>4, <3>5 DEF Salida, Acabado
  <2> QED BY <1>3, <2>2, <2>3, <2>4, <2>5 DEF Largo
<1>4. ASSUME NEW c \in Consola, AtenderFin(c) PROVE Salida'
  <2>1. /\ destino[c] = "sistema" /\ destino' = [destino EXCEPT ![c] = "terminado"]
        /\ exit' = Append(exit, c) /\ UNCHANGED <<largo, libera, liberados>>
    BY <1>4 DEF AtenderFin
  <2>2. /\ Len(exit') = Len(exit) + 1
        /\ \A i \in 1..Len(exit) : exit'[i] = exit[i] /\ i \in 1..Len(exit')
        /\ exit'[Len(exit) + 1] = c
        /\ \A i \in 1..Len(exit') : i \in 1..Len(exit) \/ i = Len(exit) + 1
    BY <1>1, <2>1, Ultimo
  <2>3. ~Acabado(c) /\ Acabado(c)' /\ \A d \in Consola : Acabado(d) => Acabado(d)'
    BY <1>1, <2>1 DEF Acabado
  <2>4. \A i \in 1..Len(exit') : Acabado(exit[i])' /\ exit'[i] \notin liberados' /\ libera'.pcb # exit'[i]
    BY <1>1, <2>1, <2>2, <2>3 DEF Salida
  <2>5. \A i, j \in 1..Len(exit') : exit'[i] = exit'[j] => i = j
    BY <2>2, <2>3 DEF Salida
  <2>6. largo.en = "rechazar" => largo.pcb # c
    BY <2>1 DEF Entrada
  <2>7. libera.pcb # Nadie => Acabado(libera.pcb)' /\ libera.pcb \notin liberados
    BY <1>1, <2>1, <2>3 DEF Salida
  <2>8. \A d \in liberados' : Acabado(d)'
    BY <1>1, <2>1, <2>3 DEF Salida
  <2>9. largo.en = "rechazar" => /\ \A i \in 1..Len(exit') : exit'[i] # largo.pcb
                                 /\ libera.pcb # largo.pcb /\ largo.pcb \notin liberados
    BY <2>2, <2>6 DEF Salida
  <2> QED BY <2>1, <2>4, <2>5, <2>7, <2>8, <2>9 DEF Salida
<1>5. CASE AtenderAvisar \/ AtenderPost
  BY <1>5 DEF AtenderAvisar, AtenderPost, Salida, Acabado
<1>6. CASE Libera
  <2>1. UNCHANGED <<largo, destino>>
    BY <1>6 DEF Libera, LiberarEsperar, LiberarDesencolar, LiberarAvisar, LiberarDestruir
  <2>2. CASE LiberarEsperar
    BY <1>1, <2>1, <2>2 DEF LiberarEsperar, LiberaIr, Salida, Acabado
  <2>3. CASE LiberarDesencolar
    <3>1. /\ Len(exit) >= 1 /\ exit[1] \in Consola
          /\ libera'.pcb = exit[1] /\ liberados' = liberados /\ Len(exit') = Len(exit) - 1
          /\ \A i \in 1..Len(exit') : exit'[i] = exit[i + 1] /\ i + 1 \in 1..Len(exit) /\ i + 1 # 1
      BY <1>1, <2>3, Primero DEF LiberarDesencolar, LiberaIr
    <3>2. /\ Acabado(exit[1]) /\ exit[1] \notin liberados
          /\ \A i \in 1..Len(exit') : exit'[i] # exit[1]
      BY <1>1, <3>1 DEF Salida
    <3>3. \A i \in 1..Len(exit') : Acabado(exit'[i]) /\ exit'[i] \notin liberados
      BY <3>1 DEF Salida
    <3>4. \A i, j \in 1..Len(exit') : exit'[i] = exit'[j] => i = j
      BY <1>1, <3>1 DEF Salida
    <3>5. largo.en = "rechazar" => /\ \A i \in 1..Len(exit') : exit'[i] # largo.pcb
                                   /\ exit[1] # largo.pcb /\ largo.pcb \notin liberados
      BY <1>1, <3>1 DEF Salida
    <3> QED BY <2>1, <3>1, <3>2, <3>3, <3>4, <3>5 DEF Salida, Acabado
  <2>4. CASE LiberarAvisar
    BY <2>1, <2>4 DEF LiberarAvisar, LiberaIr, Salida, Acabado
  <2>5. CASE LiberarDestruir
    <3>1. libera.pcb \in Consola /\ libera'.pcb = Nadie /\ liberados' = liberados \union {libera.pcb} /\ exit' = exit
      BY <2>5 DEF LiberarDestruir, LiberaIr
    <3> QED BY <1>1, <2>1, <2>5, <3>1 DEF Salida, Acabado, LiberarDestruir, LiberaIr
  <2> QED BY <1>6, <2>2, <2>3, <2>4, <2>5 DEF Libera
<1> QED BY <1>2, <1>3, <1>4, <1>5, <1>6 DEF Next, Atiende

-----------------------------------------------------------------------------
(* The accounts.                                                           *)

\* A process that goes to another fate does not concern the rest.
LEMMA OtroDestino ==
  ASSUME TypeOK, NEW c \in Consola, NEW d, NEW otro, d # otro, destino[c] # d,
         destino' = [destino EXCEPT ![c] = otro]
  PROVE  Los(d)' = Los(d) /\ Con(d)' = Con(d)
<1>1. Los(d)' = Los(d)
  BY DEF Los, TypeOK, TiposPlan
<1>2. Con(d) = Cardinality(Los(d)) /\ Con(d)' = Cardinality(Los(d)')
  BY DEF Con, Los
<1> QED BY <1>1, <1>2

LEMMA MismoDestino ==
  ASSUME NEW d, destino' = destino
  PROVE  Los(d)' = Los(d) /\ Con(d)' = Con(d)
  BY DEF Los, Con

LEMMA ConNatural ==
  ASSUME NEW d, IsFiniteSet(Los(d))
  PROVE  Con(d) \in Nat /\ ((\E c \in Consola : destino[c] = d) => Con(d) >= 1)
<1>1. Con(d) = Cardinality(Los(d)) /\ Con(d) \in Nat
  BY FS_CardinalityType DEF Con, Los
<1>2. Los(d) # {} => Con(d) # 0
  BY <1>1, FS_EmptySet
<1> QED BY <1>1, <1>2 DEF Los

LEMMA PasoCuentas ==
  ASSUME TypeOK, Manos, Entrada, Cuentas, Next
  PROVE  Cuentas'
<1> DEFINE sis == Con("sistema")
           rec == Con("rechazado")
           n == Len(exit)
           q == Uno(libera.en = "desencolar")
           l == Uno(libera.en \in {"avisar", "destruir"})
           t == Uno(atiende.en # "esperar")
           r == Uno(largo.en = "rechazar")
           p == Uno(largo.en \in {"admitir", "rechazar"})
<1>1. sis \in Nat /\ rec \in Nat /\ n \in Nat /\ q \in 0..1 /\ l \in 0..1 /\ t \in 0..1 /\ r \in 0..1 /\ p \in 0..1
  BY ConNatural, LenProperties DEF Cuentas, Uno, TypeOK, TiposPlan
<1>2. semExit \in Nat /\ grado \in Nat /\ exit \in Seq(Consola) /\ Grado \in Nat
  BY GradoAssumption DEF TypeOK, TiposSemaforos, TiposPlan
<1>3. n = semExit + q + t + rec - r /\ grado + p + sis + n + l = Grado
  BY DEF Cuentas, CuentaDeExit, CuentaDePermisos
<1>4. ASSUME IsFiniteSet(Los("sistema")'), IsFiniteSet(Los("rechazado")'),
             n' = semExit' + q' + t' + rec' - r', grado' + p' + sis' + n' + l' = Grado
      PROVE  Cuentas'
  BY <1>4 DEF Cuentas, CuentaDeExit, CuentaDePermisos
<1>5. ASSUME UNCHANGED destino
      PROVE  sis' = sis /\ rec' = rec /\ IsFiniteSet(Los("sistema")') /\ IsFiniteSet(Los("rechazado")')
  BY <1>5, MismoDestino DEF Cuentas
<1>6. /\ UNCHANGED libera => q' = q /\ l' = l
      /\ UNCHANGED atiende => t' = t
      /\ UNCHANGED largo => r' = r /\ p' = p
      /\ UNCHANGED exit => n' = n
  OBVIOUS
<1>7. ASSUME NEW c \in Consola, ConsolaPaso(c) \/ HiloPaso(c) \/ Morir(c) \/ RstLlega(c) PROVE Cuentas'
  <2>1. UNCHANGED <<grado, largo, atiende, libera, destino, exit, semExit>>
    BY <1>7, ConsolaNoToca, HiloNoToca DEF varsPlan
  <2> HIDE DEF sis, rec, n, q, l, t, r, p
  <2> QED BY <1>3, <1>4, <1>5, <1>6, <2>1
<1>8. CASE LargoTomarPcb \/ LargoAvisar
  <2>1. UNCHANGED <<grado, atiende, libera, destino, exit, semExit>>
    BY <1>8 DEF LargoTomarPcb, LargoAvisar
  <2>2. p = 0 /\ p' = 0 /\ r = 0 /\ r' = 0
    BY <1>8 DEF LargoTomarPcb, LargoAvisar, LargoIr, Uno
  <2> HIDE DEF sis, rec, n, q, l, t, r, p
  <2> QED BY <1>3, <1>4, <1>5, <1>6, <2>1, <2>2
<1>9. CASE LargoPedirTabla
  <2>1. UNCHANGED <<atiende, libera, exit, semExit>> /\ grado' = grado - 1 /\ p = 0 /\ p' = 1 /\ r = 0
    BY <1>9 DEF LargoPedirTabla, LargoIr, Uno
  <2>2. new[1] \in Consola /\ destino[new[1]] = "nada" /\ Head(new) = new[1]
    <3>1. Head(new) = new[1] /\ new[1] \in Consola /\ Len(new) \in Nat /\ Len(new) >= 1
      BY <1>9, Primero DEF LargoPedirTabla, TypeOK, TiposPlan
    <3> QED BY <3>1 DEF Entrada
  <2>3. CASE largo'.en = "admitir" /\ destino' = destino
    <3>1. r' = 0
      BY <2>3 DEF Uno
    <3> HIDE DEF sis, rec, n, q, l, t, r, p
    <3> QED BY <1>1, <1>2, <1>3, <1>4, <1>5, <1>6, <2>1, <2>3, <3>1
  <2>4. CASE largo'.en = "rechazar" /\ destino' = [destino EXCEPT ![new[1]] = "rechazado"]
    <3>1. IsFiniteSet(Los("rechazado")') /\ rec' = rec + 1
      <4>1. Los("rechazado")' = Los("rechazado") \union {new[1]} /\ new[1] \notin Los("rechazado")
        BY <2>2, <2>4 DEF Los, TypeOK, TiposPlan
      <4>2. IsFiniteSet(Los("rechazado"))
        BY DEF Cuentas
      <4>3. /\ IsFiniteSet(Los("rechazado") \union {new[1]})
            /\ Cardinality(Los("rechazado") \union {new[1]}) = Cardinality(Los("rechazado")) + 1
        BY <4>1, <4>2, FS_AddElement
      <4> QED BY <4>1, <4>3 DEF Con, Los
    <3>2. IsFiniteSet(Los("sistema")') /\ sis' = sis
      BY <2>2, <2>4, OtroDestino DEF Cuentas
    <3>3. r' = 1
      BY <2>4 DEF Uno
    <3> HIDE DEF sis, rec, n, q, l, t, r, p
    <3> QED BY <1>1, <1>2, <1>3, <1>4, <1>6, <2>1, <3>1, <3>2, <3>3
  <2> QED BY <1>9, <2>2, <2>3, <2>4 DEF LargoPedirTabla, LargoIr
<1>10. CASE LargoAdmitir
  <2>1. /\ UNCHANGED <<grado, atiende, libera, exit, semExit>>
        /\ destino' = [destino EXCEPT ![largo.pcb] = "sistema"]
    BY <1>10 DEF LargoAdmitir, LargoIr
  <2>2. largo.pcb \in Consola /\ destino[largo.pcb] = "nada" /\ p = 1 /\ p' = 0 /\ r = 0 /\ r' = 0
    BY <1>10, EnMano DEF Entrada, LargoAdmitir, LargoIr, Uno
  <2>3. IsFiniteSet(Los("sistema")') /\ sis' = sis + 1
    <3>1. Los("sistema")' = Los("sistema") \union {largo.pcb} /\ largo.pcb \notin Los("sistema")
      BY <2>1, <2>2 DEF Los, TypeOK, TiposPlan
    <3>2. IsFiniteSet(Los("sistema"))
      BY DEF Cuentas
    <3>3. /\ IsFiniteSet(Los("sistema") \union {largo.pcb})
          /\ Cardinality(Los("sistema") \union {largo.pcb}) = Cardinality(Los("sistema")) + 1
      BY <3>1, <3>2, FS_AddElement
    <3> QED BY <3>1, <3>3 DEF Con, Los
  <2>4. IsFiniteSet(Los("rechazado")') /\ rec' = rec
    BY <2>1, <2>2, OtroDestino DEF Cuentas
  <2> HIDE DEF sis, rec, n, q, l, t, r, p
  <2> QED BY <1>1, <1>2, <1>3, <1>4, <1>6, <2>1, <2>2, <2>3, <2>4
<1>11. CASE LargoRechazar
  <2>1. /\ UNCHANGED <<grado, atiende, libera, destino, semExit>> /\ p = 1 /\ p' = 0 /\ r = 1 /\ r' = 0
        /\ exit' = Append(exit, largo.pcb) /\ largo.pcb \in Consola
    BY <1>11, EnMano DEF LargoRechazar, LargoIr, Uno
  <2>2. n' = n + 1
    BY <1>2, <2>1, Ultimo
  <2> HIDE DEF sis, rec, n, q, l, t, r, p
  <2> QED BY <1>1, <1>2, <1>3, <1>4, <1>5, <1>6, <2>1, <2>2
<1>12. ASSUME NEW c \in Consola, AtenderFin(c) PROVE Cuentas'
  <2>1. /\ UNCHANGED <<grado, largo, libera, semExit>> /\ t = 0 /\ t' = 1
        /\ destino[c] = "sistema" /\ destino' = [destino EXCEPT ![c] = "terminado"]
        /\ exit' = Append(exit, c)
    BY <1>12 DEF AtenderFin, AtiendePasar, Despues, Uno
  <2>2. IsFiniteSet(Los("sistema")') /\ sis' = sis - 1
    <3>1. Los("sistema")' = Los("sistema") \ {c} /\ c \in Los("sistema")
      BY <2>1 DEF Los, TypeOK, TiposPlan
    <3>2. IsFiniteSet(Los("sistema"))
      BY DEF Cuentas
    <3>3. /\ IsFiniteSet(Los("sistema") \ {c})
          /\ Cardinality(Los("sistema") \ {c}) = Cardinality(Los("sistema")) - 1
      BY <3>1, <3>2, FS_RemoveElement
    <3> QED BY <3>1, <3>3 DEF Con, Los
  <2>3. IsFiniteSet(Los("rechazado")') /\ rec' = rec
    BY <2>1, OtroDestino DEF Cuentas
  <2>4. n' = n + 1
    BY <1>2, <2>1, Ultimo
  <2> HIDE DEF sis, rec, n, q, l, t, r, p
  <2> QED BY <1>1, <1>2, <1>3, <1>4, <1>6, <2>1, <2>2, <2>3, <2>4
<1>13. CASE AtenderAvisar
  <2>1. UNCHANGED <<grado, largo, libera, destino, exit, semExit>> /\ t = 1 /\ t' = 1
    BY <1>13 DEF AtenderAvisar, AtiendePasar, Despues, Uno
  <2> HIDE DEF sis, rec, n, q, l, t, r, p
  <2> QED BY <1>3, <1>4, <1>5, <1>6, <2>1
<1>14. CASE AtenderPost
  <2>1. /\ UNCHANGED <<grado, largo, libera, destino, exit>> /\ semExit' = semExit + 1 /\ t = 1 /\ t' = 0
    BY <1>14 DEF AtenderPost, AtiendePasar, Despues, Libre, Uno
  <2> HIDE DEF sis, rec, n, q, l, t, r, p
  <2> QED BY <1>1, <1>2, <1>3, <1>4, <1>5, <1>6, <2>1
<1>15. CASE LiberarEsperar
  <2>1. /\ UNCHANGED <<grado, largo, atiende, destino, exit>> /\ semExit' = semExit - 1
        /\ q = 0 /\ q' = 1 /\ l = 0 /\ l' = 0
    BY <1>15 DEF LiberarEsperar, LiberaIr, Uno
  <2> HIDE DEF sis, rec, n, q, l, t, r, p
  <2> QED BY <1>1, <1>2, <1>3, <1>4, <1>5, <1>6, <2>1
<1>16. CASE LiberarDesencolar
  <2>1. /\ UNCHANGED <<grado, largo, atiende, destino, semExit>> /\ exit # << >> /\ exit' = Tail(exit)
        /\ q = 1 /\ q' = 0 /\ l = 0 /\ l' = 1
    BY <1>16 DEF LiberarDesencolar, LiberaIr, Uno
  <2>2. n' = n - 1
    BY <1>2, <2>1, Primero
  <2> HIDE DEF sis, rec, n, q, l, t, r, p
  <2> QED BY <1>1, <1>2, <1>3, <1>4, <1>5, <1>6, <2>1, <2>2
<1>17. CASE LiberarAvisar
  <2>1. /\ UNCHANGED <<grado, largo, atiende, destino, exit, semExit>> /\ q = 0 /\ q' = 0 /\ l = 1 /\ l' = 1
    BY <1>17 DEF LiberarAvisar, LiberaIr, Uno
  <2> HIDE DEF sis, rec, n, q, l, t, r, p
  <2> QED BY <1>3, <1>4, <1>5, <1>6, <2>1
<1>18. CASE LiberarDestruir
  <2>1. /\ UNCHANGED <<largo, atiende, destino, exit, semExit>> /\ grado' = grado + 1
        /\ q = 0 /\ q' = 0 /\ l = 1 /\ l' = 0
    BY <1>18 DEF LiberarDestruir, LiberaIr, Uno
  <2> HIDE DEF sis, rec, n, q, l, t, r, p
  <2> QED BY <1>1, <1>2, <1>3, <1>4, <1>5, <1>6, <2>1
<1> QED BY <1>7, <1>8, <1>9, <1>10, <1>11, <1>12, <1>13, <1>14, <1>15, <1>16, <1>17, <1>18
        DEF Next, Largo, Atiende, Libera

LEMMA PasoTurno ==
  ASSUME TypeOK, Manos, Entrada, Turno, Cuentas, Next
  PROVE  Turno'
<1> DEFINE q == Uno(libera.en = "desencolar")
<1>1. /\ exit \in Seq(Consola) /\ Len(exit) \in Nat /\ semExit \in Nat /\ q \in 0..1
      /\ destino \in [Consola -> {"nada", "sistema", "terminado", "rechazado"}]
  BY LenProperties DEF TypeOK, TiposPlan, TiposSemaforos, Uno
<1>2. atiende.en # "esperar" => atiende.pcb \in Consola
  BY EnMano DEF TypeOK, TiposPlan, Puesto
<1>3. ASSUME NEW c \in Consola, ConsolaPaso(c) \/ HiloPaso(c) \/ Morir(c) \/ RstLlega(c) PROVE Turno'
  <2>1. UNCHANGED <<atiende, libera, destino, exit, semExit>>
    BY <1>3, ConsolaNoToca, HiloNoToca DEF varsPlan
  <2> QED BY <2>1 DEF Turno
<1>4. CASE Largo
  <2> SUFFICES ASSUME atiende.en # "esperar" PROVE Turno'
    BY <1>4 DEF Turno, Largo, LargoTomarPcb, LargoPedirTabla, LargoAdmitir, LargoRechazar, LargoAvisar
  <2>1. UNCHANGED <<atiende, libera, semExit>>
    BY <1>4 DEF Largo, LargoTomarPcb, LargoPedirTabla, LargoAdmitir, LargoRechazar, LargoAvisar
  <2>2. PICK i \in 1..Len(exit) : exit[i] = atiende.pcb /\ i > semExit + q
    BY DEF Turno
  <2>3. \A d \in Consola : destino[d] = "terminado" => destino'[d] = "terminado"
    <3>1. CASE LargoPedirTabla
      <4>1. Head(new) = new[1] /\ new[1] \in Consola /\ Len(new) \in Nat /\ Len(new) >= 1
        BY <3>1, Primero DEF LargoPedirTabla, TypeOK, TiposPlan
      <4>2. destino[Head(new)] = "nada"
        BY <4>1 DEF Entrada
      <4> QED BY <1>1, <3>1, <4>1, <4>2 DEF LargoPedirTabla
    <3>2. CASE LargoAdmitir
      BY <1>1, <3>2 DEF LargoAdmitir, LargoIr, Entrada
    <3> QED BY <1>4, <3>1, <3>2 DEF Largo, LargoTomarPcb, LargoRechazar, LargoAvisar
  <2>4. i \in 1..Len(exit') /\ exit'[i] = exit[i]
    <3>1. CASE LargoRechazar
      <4>1. exit' = Append(exit, largo.pcb) /\ largo.pcb \in Consola
        BY <3>1, EnMano DEF LargoRechazar, LargoIr
      <4> QED BY <1>1, <4>1, Ultimo
    <3> QED BY <1>4, <3>1 DEF Largo, LargoTomarPcb, LargoPedirTabla, LargoAdmitir, LargoAvisar
  <2> QED BY <1>2, <2>1, <2>2, <2>3, <2>4 DEF Turno
<1>5. ASSUME NEW c \in Consola, AtenderFin(c) PROVE Turno'
  <2>1. /\ atiende.en = "esperar" /\ atiende' = [en |-> "avisar", pcb |-> c] /\ destino'[c] = "terminado"
        /\ exit' = Append(exit, c) /\ UNCHANGED <<libera, semExit>>
    BY <1>1, <1>5 DEF AtenderFin, AtiendePasar, Despues
  <2>2. Len(exit) + 1 \in 1..Len(exit') /\ exit'[Len(exit) + 1] = c
    BY <1>1, <2>1, Ultimo
  <2>3. Len(exit) >= semExit + q
    <3> DEFINE rec == Con("rechazado")
               r == Uno(largo.en = "rechazar")
               t == Uno(atiende.en # "esperar")
    <3>1. rec \in Nat /\ r \in 0..1 /\ t = 0 /\ Len(exit) = semExit + q + t + rec - r
      BY <2>1, ConNatural DEF Cuentas, CuentaDeExit, Uno
    <3>2. largo.en = "rechazar" => rec >= 1
      BY ConNatural, EnMano DEF Entrada, Cuentas
    <3>3. r <= rec
      BY <3>1, <3>2 DEF Uno
    <3> HIDE DEF rec, r, t, q
    <3> QED BY <1>1, <3>1, <3>3
  <2> QED BY <1>1, <2>1, <2>2, <2>3 DEF Turno
<1>6. CASE AtenderAvisar
  BY <1>6 DEF Turno, AtenderAvisar, AtiendePasar, Despues
<1>7. CASE AtenderPost
  BY <1>7 DEF Turno, AtenderPost, AtiendePasar, Despues, Libre
<1>8. CASE Libera
  <2>1. UNCHANGED <<atiende, destino>>
    BY <1>8 DEF Libera, LiberarEsperar, LiberarDesencolar, LiberarAvisar, LiberarDestruir
  <2> SUFFICES ASSUME atiende.en # "esperar" PROVE Turno'
    BY <2>1 DEF Turno
  <2>2. PICK i \in 1..Len(exit) : exit[i] = atiende.pcb /\ i > semExit + q
    BY DEF Turno
  <2>3. CASE LiberarEsperar
    <3>1. exit' = exit /\ semExit' = semExit - 1 /\ q = 0 /\ q' = 1
      BY <2>3 DEF LiberarEsperar, LiberaIr, Uno
    <3>2. i > semExit' + q'
      <4> HIDE DEF q
      <4> QED BY <1>1, <2>2, <3>1
    <3> QED BY <2>1, <2>2, <3>1, <3>2 DEF Turno
  <2>4. CASE LiberarDesencolar
    <3>1. exit # << >> /\ exit' = Tail(exit) /\ semExit' = semExit /\ q = 1 /\ q' = 0
      BY <2>4 DEF LiberarDesencolar, LiberaIr, Uno
    <3>2. Len(exit') = Len(exit) - 1 /\ \A j \in 1..(Len(exit) - 1) : exit'[j] = exit[j + 1]
      BY <1>1, <3>1, Primero
    <3>3. i - 1 \in 1..Len(exit') /\ exit'[i - 1] = exit[i] /\ i - 1 > semExit' + q'
      <4> HIDE DEF q
      <4> QED BY <1>1, <2>2, <3>1, <3>2
    <3> QED BY <2>1, <2>2, <3>3 DEF Turno
  <2>5. CASE LiberarAvisar \/ LiberarDestruir
    <3>1. exit' = exit /\ semExit' = semExit /\ q = 0 /\ q' = 0
      BY <2>5 DEF LiberarAvisar, LiberarDestruir, LiberaIr, Uno
    <3> QED BY <2>1, <2>2, <3>1 DEF Turno
  <2> QED BY <1>8, <2>3, <2>4, <2>5 DEF Libera
<1> QED BY <1>3, <1>4, <1>5, <1>6, <1>7, <1>8 DEF Next, Atiende

-----------------------------------------------------------------------------
(* What is in the socket of a Consola.                                     *)

LEMMA Unitaria ==
  ASSUME NEW S, NEW x \in S
  PROVE  /\ Append(<< >>, x) = <<x>> /\ Head(<<x>>) = x /\ Tail(<<x>>) = << >>
         /\ Len(<<x>>) = 1 /\ <<x>> # << >> /\ <<x>>[1] = x
  OBVIOUS

\* What main of the Consola reads in each of its receptions.
LEMMA LoQueLee ==
  ASSUME TypeOK, NEW c \in Consola, Conversacion(c), aConsola[c] # << >>
  PROVE  /\ consola[c] = "handshake" => /\ aConsola[c] = <<Header("HANDSHAKE_ok_continue")>>
                                        /\ Head(aConsola[c]).header = "HANDSHAKE_ok_continue"
                                        /\ hilo[c] = "lista" /\ alKernel[c] = << >>
         /\ consola[c] = "pid" => /\ Head(aConsola[c]).header = "HEADER_pid"
                                  /\ Head(aConsola[c]).pid = newPid[c]
                                  /\ hilo[c] \in Hablados /\ alKernel[c] = << >> /\ EnCamino(c, 1)
<1>1. consola[c] = "handshake" => /\ aConsola[c] = <<Header("HANDSHAKE_ok_continue")>>
                                  /\ hilo[c] = "lista" /\ alKernel[c] = << >>
  BY DEF Conversacion
<1>2. Head(<<Header("HANDSHAKE_ok_continue")>>).header = "HANDSHAKE_ok_continue"
  BY DEF Header, Mensaje
<1>3. ASSUME consola[c] = "pid"
      PROVE  /\ Head(aConsola[c]) = Mensaje("HEADER_pid", newPid[c])
             /\ hilo[c] \in Hablados /\ alKernel[c] = << >> /\ EnCamino(c, 1)
  <2>1. /\ hilo[c] \in Hablados /\ alKernel[c] = << >> /\ EnCamino(c, 1)
        /\ aConsola[c][1] = Mensaje("HEADER_pid", newPid[c])
    BY <1>3 DEF Conversacion
  <2>2. Head(aConsola[c]) = aConsola[c][1]
    BY Primero DEF TypeOK, TiposEnvios
  <2> QED BY <2>1, <2>2
<1> QED BY <1>1, <1>2, <1>3 DEF Mensaje

\* And what the thread of its connection does.
LEMMA LoQueOye ==
  ASSUME TypeOK, NEW c \in Consola, Conversacion(c), alKernel[c] # << >>
  PROVE  /\ hilo[c] = "handshake" => /\ alKernel[c] = <<"HANDSHAKE_consola">>
                                     /\ Head(alKernel[c]) = "HANDSHAKE_consola" /\ Tail(alKernel[c]) = << >>
                                     /\ consola[c] = "handshake" /\ aConsola[c] = << >>
         /\ hilo[c] = "lista" => /\ alKernel[c] = <<"HEADER_lista_instrucciones">>
                                 /\ Head(alKernel[c]) = "HEADER_lista_instrucciones" /\ Tail(alKernel[c]) = << >>
                                 /\ consola[c] = "pid" /\ aConsola[c] = << >>
<1>1. consola[c] \in {"inicio", "handshake", "pid", "fin", "ok", "error", "muerta"}
  BY DEF TypeOK, TiposConsolas
<1>2. hilo[c] = "handshake" => alKernel[c] = <<"HANDSHAKE_consola">> /\ consola[c] = "handshake" /\ aConsola[c] = << >>
  BY <1>1 DEF Conversacion, Hablados
<1>3. hilo[c] = "lista" =>
        alKernel[c] = <<"HEADER_lista_instrucciones">> /\ consola[c] = "pid" /\ aConsola[c] = << >>
  BY <1>1 DEF Conversacion, Hablados
<1> QED BY <1>2, <1>3, Unitaria

\* The stages, once it is known what the thread hears.
LEMMA EtapasEnOrden ==
  ASSUME TypeOK, NEW c \in Consola, Conversacion(c), HiloPaso(c)
  PROVE  /\ hilo' = [hilo EXCEPT ![c] = hilo'[c]]
         /\ \/ Aceptar(c) /\ hilo[c] = "no" /\ hilo'[c] = "handshake"
            \/ HiloHandshake(c) /\ hilo[c] = "handshake" /\ hilo'[c] = "lista"
            \/ HiloRecibirLista(c) /\ hilo[c] = "lista" /\ hilo'[c] = "lock"
            \/ HiloLock(c) /\ hilo[c] = "lock" /\ hilo'[c] = "leer"
            \/ HiloLeerPid(c) /\ hilo[c] = "leer" /\ hilo'[c] = "incrementar"
            \/ HiloIncrementar(c) /\ hilo[c] = "incrementar" /\ hilo'[c] = "enviar"
            \/ HiloEnviarPid(c) /\ hilo[c] = "enviar" /\ hilo'[c] = "encolar"
            \/ HiloEncolar(c) /\ hilo[c] = "encolar" /\ hilo'[c] = "post"
            \/ HiloPost(c) /\ hilo[c] = "post" /\ hilo'[c] = "fin"
<1>1. hilo' = [hilo EXCEPT ![c] = hilo'[c]]
  BY EtapasHilo
<1>2. CASE HiloHandshake(c)
  <2>1. alKernel[c] # << >> /\ hilo[c] = "handshake"
    BY <1>2 DEF HiloHandshake, HiloIr
  <2>2. Head(alKernel[c]) = "HANDSHAKE_consola"
    BY <2>1, LoQueOye
  <2> QED BY <1>1, <1>2, <2>2 DEF HiloHandshake, HiloIr, TypeOK, TiposHilos
<1>3. CASE HiloRecibirLista(c)
  <2>1. alKernel[c] # << >> /\ hilo[c] = "lista"
    BY <1>3 DEF HiloRecibirLista, HiloIr
  <2>2. Head(alKernel[c]) = "HEADER_lista_instrucciones"
    BY <2>1, LoQueOye
  <2> QED BY <1>1, <1>3, <2>2 DEF HiloRecibirLista, HiloIr, TypeOK, TiposHilos
<1> QED BY <1>1, <1>2, <1>3 DEF HiloPaso, Aceptar, HiloLock, HiloLeerPid, HiloIncrementar, HiloEnviarPid, HiloEncolar,
                                HiloPost, HiloPasar, HiloIr, Siguiente, TypeOK, TiposHilos

LEMMA PasoPids ==
  ASSUME TypeOK, Pids, \A d \in Consola : Conversacion(d), Next
  PROVE  Pids'
<1>1. /\ hilo \in [Consola -> Antes \union Hablados] /\ newPid \in [Consola -> Nat] /\ nextPid \in Nat \ {0}
      /\ idProceso \in [Consola -> Nat] /\ Nadie \notin Consola
  BY NadieAssumption DEF TypeOK, TiposHilos, TiposConsolas
<1>2. ASSUME NEW c \in Consola, ConsolaPaso(c) \/ Morir(c) \/ RstLlega(c) PROVE Pids'
  <2>1. UNCHANGED <<hilo, newPid, nextPid, nextPidMutex>>
    BY <1>2, ConsolaNoToca DEF varsPid
  <2>2. \/ idProceso' = idProceso
        \/ idProceso' = [idProceso EXCEPT ![c] = newPid[c]] /\ hilo[c] \in Hablados
    <3>1. CASE ConsolaRecibirPid(c)
      <4>1. Conversacion(c) /\ aConsola[c] # << >> /\ consola[c] = "pid"
        BY <3>1 DEF ConsolaRecibirPid
      <4>2. hilo[c] \in Hablados /\ Head(aConsola[c]).pid = newPid[c]
        BY <4>1, LoQueLee
      <4> QED BY <3>1, <4>2 DEF ConsolaRecibirPid
    <3> QED BY <1>2, <3>1 DEF ConsolaPaso, ConsolaConectar, ConsolaEnviarInstrucciones, ConsolaRecibirFin, Morir,
                             RstLlega, varsSesion, varsConsola
  <2> QED BY <1>1, <2>1, <2>2 DEF Pids
<1>3. ASSUME NEW c \in Consola, HiloPaso(c) PROVE Pids'
  <2>1. idProceso' = idProceso
    BY <1>3, HiloNoToca DEF varsConsola
  <2>2. Conversacion(c) /\ hilo' = [hilo EXCEPT ![c] = hilo'[c]]
    BY <1>3, EtapasHilo
  <2>3. CASE HiloLock(c) /\ hilo[c] = "lock" /\ hilo'[c] = "leer"
    <3>1. nextPidMutex = Nadie /\ nextPidMutex' = c /\ newPid' = newPid /\ nextPid' = nextPid
      BY <2>3 DEF HiloLock
    <3> QED BY <1>1, <2>1, <2>2, <2>3, <3>1 DEF Pids, ConPid, Hablados
  <2>4. CASE HiloLeerPid(c) /\ hilo[c] = "leer" /\ hilo'[c] = "incrementar"
    <3>1. newPid' = [newPid EXCEPT ![c] = nextPid] /\ UNCHANGED <<nextPid, nextPidMutex>>
      BY <2>4 DEF HiloLeerPid
    <3> QED BY <1>1, <2>1, <2>2, <2>4, <3>1 DEF Pids, ConPid, Hablados
  <2>5. CASE HiloIncrementar(c) /\ hilo[c] = "incrementar" /\ hilo'[c] = "enviar"
    <3>1. newPid[c] = nextPid /\ nextPidMutex = c
      BY <2>5 DEF Pids
    <3>2. nextPid' = nextPid + 1 /\ nextPidMutex' = Nadie /\ newPid' = newPid
      BY <2>5, <3>1 DEF HiloIncrementar
    <3>3. \A d \in Consola : hilo'[d] \in ConPid => newPid'[d] \in 1..(nextPid' - 1)
      BY <1>1, <2>2, <3>1, <3>2 DEF Pids
    <3>4. \A d \in Consola \ {c} : hilo'[d] = hilo[d] /\ (hilo[d] \in ConPid => newPid[d] # newPid[c])
      BY <1>1, <2>2, <3>1 DEF Pids
    <3>5. \A d, e \in Consola : hilo'[d] \in ConPid /\ hilo'[e] \in ConPid /\ newPid'[d] = newPid'[e] => d = e
      BY <1>1, <3>2, <3>4 DEF Pids
    <3>6. \A d \in Consola : hilo'[d] \in {"leer", "incrementar"} <=> nextPidMutex' = d
      BY <1>1, <2>2, <2>5, <3>1, <3>2 DEF Pids
    <3>7. \A d \in Consola : idProceso'[d] # 0 => hilo'[d] \in Hablados /\ idProceso'[d] = newPid'[d]
      BY <1>1, <2>1, <2>2, <2>5, <3>2 DEF Pids, Hablados
    <3>8. \A d \in Consola : hilo'[d] # "incrementar"
      BY <1>1, <3>2, <3>6
    <3> QED BY <3>3, <3>5, <3>6, <3>7, <3>8 DEF Pids
  <2>6. ASSUME UNCHANGED varsPid,
               \/ hilo[c] \in Antes \ {"leer", "incrementar", "enviar"}
                  /\ hilo'[c] \in Antes \ {"leer", "incrementar", "enviar"}
               \/ hilo[c] \in ConPid /\ hilo'[c] \in Hablados
        PROVE  Pids'
    <3>1. UNCHANGED <<newPid, nextPid, nextPidMutex>>
      BY <2>6 DEF varsPid
    <3>2. \A d \in Consola : /\ hilo'[d] \in ConPid => hilo[d] \in ConPid
                             /\ hilo[d] \in Hablados => hilo'[d] \in Hablados
                             /\ hilo'[d] \in {"leer", "incrementar"} => hilo'[d] = hilo[d]
                             /\ hilo[d] \in {"leer", "incrementar"} => hilo'[d] = hilo[d]
      BY <1>1, <2>2, <2>6 DEF ConPid, Hablados, Antes
    <3> QED BY <2>1, <3>1, <3>2 DEF Pids
  <2>7. CASE Aceptar(c) /\ hilo[c] = "no" /\ hilo'[c] = "handshake"
    BY <2>6, <2>7 DEF Aceptar, Antes
  <2>8. CASE HiloHandshake(c) /\ hilo[c] = "handshake" /\ hilo'[c] = "lista"
    BY <2>6, <2>8 DEF HiloHandshake, Antes
  <2>9. CASE HiloRecibirLista(c) /\ hilo[c] = "lista" /\ hilo'[c] = "lock"
    BY <2>6, <2>9 DEF HiloRecibirLista, Antes
  <2>10. CASE HiloEnviarPid(c) /\ hilo[c] = "enviar" /\ hilo'[c] = "encolar"
    BY <2>6, <2>10 DEF HiloEnviarPid, ConPid, Hablados
  <2>11. CASE HiloEncolar(c) /\ hilo[c] = "encolar" /\ hilo'[c] = "post"
    BY <2>6, <2>11 DEF HiloEncolar, ConPid, Hablados
  <2>12. CASE HiloPost(c) /\ hilo[c] = "post" /\ hilo'[c] = "fin"
    BY <2>6, <2>12 DEF HiloPost, ConPid, Hablados
  <2> QED BY <1>3, <2>2, <2>3, <2>4, <2>5, <2>7, <2>8, <2>9, <2>10, <2>11, <2>12, EtapasEnOrden
<1>4. CASE Largo \/ Atiende \/ Libera
  <2>1. UNCHANGED varsSesion
    BY <1>4 DEF Largo, LargoTomarPcb, LargoPedirTabla, LargoAdmitir, LargoRechazar, LargoAvisar, Atiende, AtenderFin,
                AtenderAvisar, AtenderPost, Libera, LiberarEsperar, LiberarDesencolar, LiberarAvisar, LiberarDestruir
  <2> QED BY <2>1 DEF Pids, varsSesion, varsConsola, varsPid
<1> QED BY <1>2, <1>3, <1>4 DEF Next

\* How many of the two last messages were sent.
LEMMA AvisosAcotados ==
  ASSUME NEW c \in Consola
  PROVE  /\ Avisos(c) \in 0..2
         /\ Avisos(c) = 0 <=> ~Contestado(c) /\ ~Soltado(c)
         /\ Avisos(c) = 2 <=> Contestado(c) /\ Soltado(c)
  BY DEF Avisos, Uno

\* Nothing is sent before it is known what becomes of the process.
LEMMA SinAvisos ==
  ASSUME TypeOK, Manos, Salida, NEW c \in Consola, ~Acabado(c)
  PROVE  Avisos(c) = 0 /\ c \notin liberados
  BY EnMano DEF Avisos, Uno, Contestado, Soltado, Salida

\* A conversation that a step does not touch.
LEMMA MarcoConversacion ==
  ASSUME NEW c \in Consola, TypeOK, Conversacion(c),
         consola'[c] = consola[c], idProceso'[c] = idProceso[c], alKernel'[c] = alKernel[c],
         aConsola'[c] = aConsola[c], rst'[c] = rst[c], hilo'[c] = hilo[c], newPid'[c] = newPid[c],
         Vive' => Vive, Vive' => Avisos(c)' = Avisos(c),
         destino'[c] = destino[c] \/ (Vive /\ Avisos(c) = 0)
  PROVE  Conversacion(c)'
<1>1. ASSUME NEW k \in {0, 1}, EnCamino(c, k) PROVE EnCamino(c, k)'
  BY <1>1, LenProperties DEF EnCamino, TypeOK, TiposEnvios
<1>2. Cerrada(c)' <=> Cerrada(c)
  BY DEF Cerrada
<1> QED BY <1>1, <1>2 DEF Conversacion

\* A message sent to a Consola that was given its PID, and the only way the Kernel dies of it.
LEMMA EnvioDeAviso ==
  ASSUME TypeOK, NEW c \in Consola, NEW m \in Mensajes, Conversacion(c), Vive, hilo[c] \in Hablados,
         Enviar(c, m), UNCHANGED varsSesion, destino'[c] = destino[c],
         Avisos(c) < 2, Avisos(c)' = Avisos(c) + 1,
         Avisos(c) = 0 =>
           destino[c] = IF m.header = "HEADER_proceso_terminado" THEN "terminado" ELSE "rechazado"
  PROVE  /\ Conversacion(c)'
         /\ kernel' \in {"vive", "SIGPIPE"} \/ c \in liberados
         /\ kernel' = "SIGPIPE" => consola[c] = "muerta"
<1> DEFINE q == aConsola[c]
<1>1. /\ q \in Seq(Mensajes) /\ Len(q) \in Nat /\ aConsola \in [Consola -> Seq(Mensajes)]
      /\ rst \in [Consola -> {"no", "vuelve", "llego"}]
      /\ consola[c] \in {"inicio", "handshake", "pid", "fin", "ok", "error", "muerta"}
      /\ Avisos(c) \in 0..2
  BY LenProperties, AvisosAcotados DEF TypeOK, TiposConsolas, TiposEnvios
<1>2. UNCHANGED <<consola, idProceso, alKernel, hilo, newPid>>
  BY DEF varsSesion, varsConsola, varsPid
<1>3. consola[c] \in {"pid", "fin", "ok", "error", "muerta"} /\ alKernel[c] = << >>
  BY <1>1 DEF Conversacion, Hablados
<1>4. Cerrada(c) <=> consola[c] \in {"ok", "error", "muerta"}
  BY DEF Cerrada
<1>5. Cerrada(c)' <=> Cerrada(c)
  BY <1>2 DEF Cerrada
<1>6. CASE c \in liberados
  <2>1. kernel' = "liberado" /\ UNCHANGED <<aConsola, rst>>
    BY <1>6 DEF Enviar
  <2>2. Conversacion(c)'
    <3>1. ASSUME NEW k \in {0, 1}, EnCamino(c, k) PROVE EnCamino(c, k)'
      BY <2>1, <3>1 DEF EnCamino, Vive
    <3> QED BY <1>2, <1>5, <2>1, <3>1 DEF Conversacion, Vive
  <2> QED BY <1>6, <2>1, <2>2
<1>7. CASE c \notin liberados /\ rst[c] = "llego"
  <2>1. kernel' = "SIGPIPE" /\ UNCHANGED <<aConsola, rst>>
    BY <1>7 DEF Enviar
  <2>2. consola[c] = "muerta"
    BY <1>4, <1>7 DEF Conversacion
  <2>3. Conversacion(c)'
    BY <1>2, <1>5, <2>1, <2>2 DEF Conversacion
  <2> QED BY <2>1, <2>2, <2>3
<1>8. CASE c \notin liberados /\ rst[c] # "llego" /\ Cerrada(c)
  <2>1. rst' = [rst EXCEPT ![c] = "vuelve"] /\ UNCHANGED <<aConsola, kernel>>
    BY <1>8 DEF Enviar
  <2>2. Avisos(c)' >= 1 /\ (consola[c] \in {"ok", "error"} => Avisos(c)' = 2)
    BY <1>1, <1>8 DEF Conversacion
  <2>3. Conversacion(c)'
    BY <1>2, <1>4, <1>5, <1>8, <2>1, <2>2 DEF Conversacion
  <2> QED BY <2>1, <2>3 DEF Vive
<1>9. CASE c \notin liberados /\ rst[c] # "llego" /\ ~Cerrada(c)
  <2>1. aConsola' = [aConsola EXCEPT ![c] = Append(q, m)] /\ UNCHANGED <<rst, kernel>>
    BY <1>9 DEF Enviar
  <2>2. /\ Len(aConsola'[c]) = Len(q) + 1 /\ aConsola'[c][Len(q) + 1] = m
        /\ \A i \in 1..Len(q) : aConsola'[c][i] = q[i]
    BY <1>1, <2>1, Ultimo
  <2>3. ASSUME NEW k \in {0, 1}, EnCamino(c, k) PROVE EnCamino(c, k)'
    <3>1. Len(q) = k + Avisos(c) /\ Len(aConsola'[c]) = k + Avisos(c)' /\ Len(aConsola'[c]) >= k
      BY <1>1, <2>2, <2>3 DEF EnCamino
    <3>2. CASE Avisos(c) = 0
      <4>1. aConsola'[c][k + 1] = m
        BY <1>1, <2>2, <3>1, <3>2
      <4> QED BY <3>1, <3>2, <4>1 DEF EnCamino
    <3>3. CASE Avisos(c) # 0
      <4>1. Len(q) > k /\ aConsola'[c][k + 1] = q[k + 1]
        BY <1>1, <2>2, <3>1, <3>3
      <4> QED BY <2>3, <3>1, <4>1 DEF EnCamino
    <3> QED BY <3>2, <3>3
  <2>4. consola[c] = "pid" => EnCamino(c, 1) /\ aConsola[c][1] = Mensaje("HEADER_pid", newPid[c])
    BY DEF Conversacion, Hablados
  <2>5. consola[c] = "pid" => aConsola'[c][1] = Mensaje("HEADER_pid", newPid[c])
    BY <1>1, <2>2, <2>4 DEF EnCamino
  <2>6. CASE consola[c] = "pid"
    <3>1. EnCamino(c, 1)'
      BY <2>3, <2>4, <2>6
    <3>2. consola'[c] = "pid" /\ hilo'[c] \in Hablados /\ alKernel'[c] = << >> /\ idProceso'[c] = 0
      BY <1>2, <1>3, <2>6 DEF Conversacion
    <3>3. rst'[c] = "no" /\ newPid'[c] = newPid[c]
      BY <1>2, <1>9, <2>1 DEF Conversacion
    <3> QED BY <2>1, <2>5, <2>6, <3>1, <3>2, <3>3 DEF Conversacion, Vive
  <2>7. CASE consola[c] = "fin"
    <3>1. EnCamino(c, 0)'
      BY <2>3, <2>7 DEF Conversacion
    <3>2. consola'[c] = "fin" /\ hilo'[c] \in Hablados /\ alKernel'[c] = << >> /\ idProceso'[c] # 0
      BY <1>2, <1>3, <2>7 DEF Conversacion
    <3>3. rst'[c] = "no"
      BY <1>9, <2>1 DEF Conversacion
    <3> QED BY <2>1, <3>1, <3>2, <3>3 DEF Conversacion, Vive
  <2> QED BY <1>3, <1>4, <1>9, <2>1, <2>6, <2>7 DEF Vive
<1> QED BY <1>6, <1>7, <1>8, <1>9

\* The conversation of a Consola that takes a step.
LEMMA ConversaConsola ==
  ASSUME TypeOK, Pids, NEW c \in Consola, Conversacion(c), ConsolaPaso(c) \/ Morir(c) \/ RstLlega(c)
  PROVE  Conversacion(c)'
<1>1. /\ aConsola \in [Consola -> Seq(Mensajes)] /\ rst \in [Consola -> {"no", "vuelve", "llego"}]
      /\ consola \in [Consola -> {"inicio", "handshake", "pid", "fin", "ok", "error", "muerta"}]
      /\ idProceso \in [Consola -> Nat] /\ newPid \in [Consola -> Nat]
      /\ alKernel \in [Consola -> Seq({"HANDSHAKE_consola", "HEADER_lista_instrucciones"})]
      /\ aConsola[c] \in Seq(Mensajes) /\ Len(aConsola[c]) \in Nat /\ Avisos(c) \in 0..2
  BY LenProperties, AvisosAcotados DEF TypeOK, TiposConsolas, TiposEnvios, TiposHilos
<1>2. UNCHANGED <<hilo, newPid, kernel>> /\ Avisos(c)' = Avisos(c) /\ destino' = destino
  BY ConsolaNoToca DEF varsPid, varsPlan, Avisos, Contestado, Soltado, Acabado
<1>3. Vive' <=> Vive
  BY <1>2 DEF Vive
<1>4. CASE ConsolaConectar(c)
  <2>1. /\ consola[c] = "inicio" /\ consola'[c] = "handshake" /\ aConsola'[c] = << >> /\ rst'[c] = rst[c]
        /\ alKernel'[c] = Append(alKernel[c], "HANDSHAKE_consola") /\ idProceso'[c] = idProceso[c]
    BY <1>1, <1>4 DEF ConsolaConectar, Ir
  <2>2. alKernel'[c] = <<"HANDSHAKE_consola">> /\ hilo[c] = "no" /\ rst[c] = "no" /\ idProceso[c] = 0
    BY <2>1, Unitaria DEF Conversacion, Cerrada
  <2> QED BY <1>2, <2>1, <2>2 DEF Conversacion
<1>5. CASE ConsolaEnviarInstrucciones(c)
  <2>1. consola[c] = "handshake" /\ aConsola[c] # << >>
    BY <1>5 DEF ConsolaEnviarInstrucciones
  <2>2. /\ aConsola[c] = <<Header("HANDSHAKE_ok_continue")>>
        /\ Head(aConsola[c]).header = "HANDSHAKE_ok_continue"
        /\ hilo[c] = "lista" /\ alKernel[c] = << >>
    BY <2>1, LoQueLee
  <2>3. /\ consola'[c] = "pid" /\ aConsola'[c] = Tail(aConsola[c]) /\ rst'[c] = rst[c]
        /\ alKernel'[c] = Append(alKernel[c], "HEADER_lista_instrucciones") /\ idProceso'[c] = idProceso[c]
    BY <1>1, <1>5, <2>2 DEF ConsolaEnviarInstrucciones, Ir
  <2>4. alKernel'[c] = <<"HEADER_lista_instrucciones">> /\ aConsola'[c] = << >>
    BY <2>2, <2>3, Unitaria
  <2>5. rst[c] = "no" /\ idProceso[c] = 0
    BY <2>1 DEF Conversacion, Cerrada
  <2> QED BY <1>2, <2>2, <2>3, <2>4, <2>5 DEF Conversacion
<1>6. CASE ConsolaRecibirPid(c)
  <2>1. consola[c] = "pid" /\ aConsola[c] # << >>
    BY <1>6 DEF ConsolaRecibirPid
  <2>2. /\ Head(aConsola[c]).header = "HEADER_pid" /\ Head(aConsola[c]).pid = newPid[c]
        /\ hilo[c] \in Hablados /\ alKernel[c] = << >> /\ EnCamino(c, 1)
    BY <2>1, LoQueLee
  <2>3. /\ consola'[c] = "fin" /\ aConsola'[c] = Tail(aConsola[c]) /\ rst'[c] = rst[c]
        /\ alKernel' = alKernel /\ idProceso'[c] = newPid[c]
    BY <1>1, <1>6, <2>2 DEF ConsolaRecibirPid, Ir
  <2>4. /\ Len(aConsola'[c]) = Len(aConsola[c]) - 1
        /\ \A i \in 1..(Len(aConsola[c]) - 1) : aConsola'[c][i] = aConsola[c][i + 1]
    BY <1>1, <2>1, <2>3, Primero
  <2>5. EnCamino(c, 0)'
    <3>1. Len(aConsola[c]) > 1 => aConsola'[c][1] = aConsola[c][2]
      BY <1>1, <2>4
    <3>2. /\ Len(aConsola'[c]) \in Nat /\ (Vive' => Len(aConsola'[c]) = Avisos(c)')
          /\ Len(aConsola'[c]) > 0 <=> Len(aConsola[c]) > 1
      BY <1>1, <1>2, <1>3, <2>2, <2>4 DEF EnCamino
    <3> QED BY <1>2, <2>2, <3>1, <3>2 DEF EnCamino
  <2>6. rst[c] = "no" /\ newPid[c] # 0
    BY <1>1, <2>1, <2>2 DEF Conversacion, Cerrada, Pids, ConPid, TypeOK, TiposHilos
  <2> QED BY <1>2, <2>2, <2>3, <2>5, <2>6 DEF Conversacion
<1>7. CASE ConsolaRecibirFin(c)
  <2>1. /\ consola[c] = "fin" /\ aConsola[c] # << >> /\ consola'[c] \in {"ok", "error"}
        /\ alKernel' = alKernel /\ idProceso' = idProceso
        /\ rst'[c] = IF Tail(aConsola[c]) # << >> THEN "vuelve" ELSE rst[c]
    BY <1>1, <1>7 DEF ConsolaRecibirFin, Ir
  <2>2. Vive => Len(aConsola[c]) = Avisos(c)
    BY <1>1, <2>1 DEF Conversacion, EnCamino
  <2>3. Len(aConsola[c]) >= 1 /\ (Tail(aConsola[c]) # << >> => Len(aConsola[c]) >= 2)
    BY <1>1, <2>1, Primero, EmptySeq
  <2>4. rst[c] = "no" /\ hilo[c] \in Hablados /\ alKernel[c] = << >> /\ idProceso[c] # 0
    BY <2>1 DEF Conversacion, Cerrada
  <2>5. Vive => Avisos(c) >= 1 /\ (rst'[c] # "no" => Avisos(c) = 2)
    BY <1>1, <2>1, <2>2, <2>3, <2>4
  <2>6. Cerrada(c)'
    BY <2>1 DEF Cerrada
  <2> QED BY <1>2, <1>3, <2>1, <2>4, <2>5, <2>6 DEF Conversacion
<1>8. CASE Morir(c)
  <2>1. consola[c] = "fin" /\ consola'[c] = "muerta" /\ alKernel' = alKernel /\ idProceso' = idProceso
    BY <1>1, <1>8 DEF Morir, Ir
  <2>2. Cerrada(c)'
    BY <2>1 DEF Cerrada
  <2> QED BY <1>2, <2>1, <2>2 DEF Conversacion
<1>9. CASE RstLlega(c)
  <2>1. rst[c] # "no" /\ UNCHANGED <<consola, aConsola, alKernel, idProceso>>
    BY <1>9 DEF RstLlega, varsSesion, varsConsola
  <2>2. Cerrada(c) /\ Cerrada(c)'
    BY <2>1 DEF Conversacion, Cerrada
  <2>3. \A k \in {0, 1} : EnCamino(c, k)' <=> EnCamino(c, k)
    BY <1>2, <1>3, <2>1 DEF EnCamino
  <2> QED BY <1>2, <1>3, <2>1, <2>2, <2>3 DEF Conversacion, Cerrada
<1> QED BY <1>4, <1>5, <1>6, <1>7, <1>8, <1>9 DEF ConsolaPaso

\* That of a Consola whose thread takes one: nothing of it kills the Kernel.
LEMMA ConversaHilo ==
  ASSUME TypeOK, Manos, Entrada, Salida, NEW c \in Consola, Conversacion(c), HiloPaso(c)
  PROVE  Conversacion(c)' /\ kernel' = kernel
<1>1. /\ aConsola \in [Consola -> Seq(Mensajes)] /\ aConsola[c] \in Seq(Mensajes)
      /\ alKernel \in [Consola -> Seq({"HANDSHAKE_consola", "HEADER_lista_instrucciones"})]
      /\ newPid \in [Consola -> Nat]
  BY DEF TypeOK, TiposConsolas, TiposEnvios, TiposHilos
<1>2. UNCHANGED <<consola, idProceso, destino>> /\ Avisos(c)' = Avisos(c) /\ (Cerrada(c)' <=> Cerrada(c))
  BY HiloNoToca DEF varsConsola, Avisos, Contestado, Soltado, Acabado, Cerrada
<1>3. consola[c] \in {"inicio", "handshake", "pid", "fin", "ok", "error", "muerta"}
  BY DEF TypeOK, TiposConsolas
<1>4. hilo[c] \in Antes \union {"encolar"} => Avisos(c) = 0 /\ c \notin liberados
  BY SinAvisos DEF Entrada, Acabado
<1>5. CASE Aceptar(c) /\ hilo[c] = "no" /\ hilo'[c] = "handshake"
  <2>1. consola[c] # "inicio" /\ UNCHANGED <<varsRed, varsPid, kernel>>
    BY <1>5 DEF Aceptar
  <2>2. consola[c] = "handshake"
    BY <1>3, <1>5, <2>1 DEF Conversacion, Hablados
  <2> QED BY <1>2, <1>5, <2>1, <2>2 DEF Conversacion, varsRed
<1>6. CASE HiloHandshake(c) /\ hilo[c] = "handshake" /\ hilo'[c] = "lista"
  <2>1. alKernel[c] # << >> /\ alKernel' = [alKernel EXCEPT ![c] = Tail(@)] /\ UNCHANGED varsPid
    BY <1>6 DEF HiloHandshake
  <2>2. /\ Head(alKernel[c]) = "HANDSHAKE_consola" /\ Tail(alKernel[c]) = << >>
        /\ consola[c] = "handshake" /\ aConsola[c] = << >>
    BY <1>6, <2>1, LoQueOye
  <2>3. Enviar(c, Header("HANDSHAKE_ok_continue"))
    BY <1>6, <2>2 DEF HiloHandshake
  <2>4. ~Cerrada(c) /\ rst[c] = "no" /\ c \notin liberados
    BY <1>4, <1>6, <2>2 DEF Conversacion, Cerrada, Antes
  <2>5. aConsola'[c] = Append(aConsola[c], Header("HANDSHAKE_ok_continue")) /\ UNCHANGED <<rst, kernel>>
    BY <1>1, <2>3, <2>4 DEF Enviar
  <2>6. aConsola'[c] = <<Header("HANDSHAKE_ok_continue")>> /\ alKernel'[c] = << >>
    BY <1>1, <2>1, <2>2, <2>5, Unitaria
  <2>7. Conversacion(c)'
    <3>1. consola'[c] = "handshake" /\ rst'[c] = "no" /\ idProceso'[c] = 0
      BY <1>2, <2>2, <2>4, <2>5 DEF Conversacion
    <3> QED BY <1>6, <2>6, <3>1 DEF Conversacion, Header, Mensaje
  <2> QED BY <2>5, <2>7
<1>7. CASE HiloRecibirLista(c) /\ hilo[c] = "lista" /\ hilo'[c] = "lock"
  <2>1. /\ alKernel[c] # << >> /\ alKernel' = [alKernel EXCEPT ![c] = Tail(@)]
        /\ UNCHANGED <<aConsola, rst, varsPid, kernel>>
    BY <1>7 DEF HiloRecibirLista
  <2>2. Tail(alKernel[c]) = << >> /\ consola[c] = "pid" /\ aConsola[c] = << >>
    BY <1>7, <2>1, LoQueOye
  <2>3. alKernel'[c] = << >>
    BY <1>1, <2>1, <2>2
  <2> QED BY <1>2, <1>7, <2>1, <2>2, <2>3 DEF Conversacion
<1>8. CASE /\ hilo[c] \in {"lock", "leer", "incrementar"} /\ hilo'[c] \in {"leer", "incrementar", "enviar"}
           /\ UNCHANGED <<varsRed, kernel>>
  <2>1. consola[c] = "pid" /\ alKernel[c] = << >> /\ aConsola[c] = << >>
    BY <1>3, <1>8 DEF Conversacion, Hablados
  <2> QED BY <1>2, <1>8, <2>1 DEF Conversacion, varsRed
<1>9. CASE HiloEnviarPid(c) /\ hilo[c] = "enviar" /\ hilo'[c] = "encolar"
  <2>1. Enviar(c, Mensaje("HEADER_pid", newPid[c])) /\ UNCHANGED <<alKernel, newPid>>
    BY <1>9 DEF HiloEnviarPid, varsPid
  <2>2. consola[c] = "pid" /\ alKernel[c] = << >> /\ aConsola[c] = << >>
    BY <1>3, <1>9 DEF Conversacion, Hablados
  <2>3. ~Cerrada(c) /\ rst[c] = "no" /\ c \notin liberados /\ Avisos(c) = 0
    BY <1>4, <1>9, <2>2 DEF Conversacion, Cerrada, Antes
  <2>4. aConsola'[c] = Append(aConsola[c], Mensaje("HEADER_pid", newPid[c])) /\ UNCHANGED <<rst, kernel>>
    BY <1>1, <2>1, <2>3 DEF Enviar
  <2>5. Mensaje("HEADER_pid", newPid[c]) \in Mensajes
    BY <1>1 DEF Mensaje, Mensajes
  <2>6. aConsola'[c] = <<Mensaje("HEADER_pid", newPid[c])>>
    BY <2>2, <2>4, <2>5, Unitaria
  <2>7. Len(aConsola'[c]) = 1 /\ aConsola'[c][1] = Mensaje("HEADER_pid", newPid[c])
    BY <2>5, <2>6, Unitaria
  <2>8. EnCamino(c, 1)'
    BY <1>2, <2>3, <2>7 DEF EnCamino
  <2>9. Conversacion(c)'
    <3>1. consola'[c] = "pid" /\ rst'[c] = "no" /\ idProceso'[c] = 0 /\ alKernel'[c] = << >> /\ newPid'[c] = newPid[c]
      BY <1>2, <2>1, <2>2, <2>3, <2>4 DEF Conversacion
    <3> QED BY <1>9, <2>7, <2>8, <3>1 DEF Conversacion, Hablados
  <2> QED BY <2>4, <2>9
<1>10. CASE /\ hilo[c] \in Hablados /\ hilo'[c] \in Hablados
            /\ UNCHANGED <<varsRed, varsPid, kernel>>
  <2>1. UNCHANGED <<alKernel, aConsola, rst, newPid>>
    BY <1>10 DEF varsRed, varsPid
  <2>2. consola[c] \in {"pid", "fin", "ok", "error", "muerta"}
    BY <1>3, <1>10 DEF Conversacion, Hablados
  <2>3. \A k \in {0, 1} : EnCamino(c, k)' <=> EnCamino(c, k)
    BY <1>2, <1>10, <2>1 DEF EnCamino, Vive
  <2>4. consola[c] = "pid" => EnCamino(c, 1) /\ aConsola[c][1] = Mensaje("HEADER_pid", newPid[c])
    BY <1>10 DEF Conversacion, Hablados
  <2>5. Vive' <=> Vive
    BY <1>10 DEF Vive
  <2>6. CASE consola[c] = "pid"
    <3>1. idProceso[c] = 0 /\ alKernel[c] = << >> /\ (rst[c] # "no" => Cerrada(c))
      BY <1>10, <2>6 DEF Conversacion, Hablados
    <3> QED BY <1>2, <1>10, <2>1, <2>3, <2>4, <2>6, <3>1 DEF Conversacion
  <2>7. CASE consola[c] # "pid"
    BY <1>2, <1>10, <2>1, <2>2, <2>3, <2>5, <2>7 DEF Conversacion
  <2> QED BY <2>6, <2>7
<1>11. \/ Aceptar(c) /\ hilo[c] = "no" /\ hilo'[c] = "handshake"
       \/ HiloHandshake(c) /\ hilo[c] = "handshake" /\ hilo'[c] = "lista"
       \/ HiloRecibirLista(c) /\ hilo[c] = "lista" /\ hilo'[c] = "lock"
       \/ HiloLock(c) /\ hilo[c] = "lock" /\ hilo'[c] = "leer"
       \/ HiloLeerPid(c) /\ hilo[c] = "leer" /\ hilo'[c] = "incrementar"
       \/ HiloIncrementar(c) /\ hilo[c] = "incrementar" /\ hilo'[c] = "enviar"
       \/ HiloEnviarPid(c) /\ hilo[c] = "enviar" /\ hilo'[c] = "encolar"
       \/ HiloEncolar(c) /\ hilo[c] = "encolar" /\ hilo'[c] = "post"
       \/ HiloPost(c) /\ hilo[c] = "post" /\ hilo'[c] = "fin"
  BY EtapasEnOrden
<1>12. HiloLock(c) \/ HiloLeerPid(c) \/ HiloIncrementar(c) => UNCHANGED <<varsRed, kernel>>
  BY DEF HiloLock, HiloLeerPid, HiloIncrementar
<1>13. HiloEncolar(c) \/ HiloPost(c) => UNCHANGED <<varsRed, varsPid, kernel>>
  BY DEF HiloEncolar, HiloPost
<1> QED BY <1>5, <1>6, <1>7, <1>8, <1>9, <1>10, <1>11, <1>12, <1>13 DEF Hablados

\* A step of one Consola, or of the thread of its connection, and the conversations of the others.
LEMMA ConversaAjena ==
  ASSUME TypeOK, NEW c \in Consola, ConsolaPaso(c) \/ HiloPaso(c) \/ Morir(c) \/ RstLlega(c),
         Vive' => Vive, NEW d \in Consola, d # c, Conversacion(d)
  PROVE  Conversacion(d)'
<1>1. Avisos(d)' = Avisos(d) /\ destino' = destino
  BY ConsolaNoToca, HiloNoToca DEF varsPlan, Avisos, Contestado, Soltado, Acabado
<1>2. consola'[d] = consola[d] /\ idProceso'[d] = idProceso[d] /\ alKernel'[d] = alKernel[d] /\ aConsola'[d] = aConsola[d]
      /\ rst'[d] = rst[d] /\ newPid'[d] = newPid[d]
  <2>1. CASE ConsolaPaso(c) \/ Morir(c) \/ RstLlega(c)
    BY <2>1 DEF ConsolaPaso, ConsolaConectar, ConsolaEnviarInstrucciones, ConsolaRecibirPid, ConsolaRecibirFin, Morir,
                RstLlega, Ir, varsSesion, varsConsola, varsPid, TypeOK, TiposConsolas, TiposEnvios
  <2>2. CASE HiloPaso(c)
    <3>1. consola' = consola /\ idProceso' = idProceso
      BY <2>2, HiloNoToca DEF varsConsola
    <3>2. alKernel'[d] = alKernel[d] /\ newPid'[d] = newPid[d]
      BY <2>2 DEF HiloPaso, Aceptar, HiloHandshake, HiloRecibirLista, HiloLock, HiloLeerPid, HiloIncrementar,
                  HiloEnviarPid, HiloEncolar, HiloPost, varsRed, varsPid, TypeOK, TiposConsolas, TiposHilos
    <3>3. \/ UNCHANGED <<aConsola, rst>>
          \/ Enviar(c, Header("HANDSHAKE_ok_continue"))
          \/ Enviar(c, Mensaje("HEADER_pid", newPid[c]))
      BY <2>2 DEF HiloPaso, Aceptar, HiloHandshake, HiloRecibirLista, HiloLock, HiloLeerPid, HiloIncrementar,
                  HiloEnviarPid, HiloEncolar, HiloPost, varsRed
    <3>4. aConsola'[d] = aConsola[d] /\ rst'[d] = rst[d]
      BY <3>3 DEF Enviar, TypeOK, TiposEnvios
    <3> QED BY <3>1, <3>2, <3>4
  <2> QED BY <2>1, <2>2
<1>3. hilo'[d] = hilo[d]
  <2>1. hilo' = hilo \/ hilo' = [hilo EXCEPT ![c] = hilo'[c]]
    BY ConsolaNoToca, EtapasHilo
  <2> QED BY <2>1 DEF TypeOK, TiposHilos
<1> QED BY <1>1, <1>2, <1>3, MarcoConversacion

\* Sending to one Consola says nothing to the others.
LEMMA EnvioAjeno ==
  ASSUME TypeOK, NEW c \in Consola, NEW m, Enviar(c, m), UNCHANGED varsSesion, Vive,
         NEW d \in Consola, d # c, Conversacion(d), destino' = destino, Avisos(d)' = Avisos(d)
  PROVE  Conversacion(d)'
<1>1. UNCHANGED <<consola, idProceso, alKernel, hilo, newPid>>
  BY DEF varsSesion, varsConsola, varsPid
<1>2. aConsola'[d] = aConsola[d] /\ rst'[d] = rst[d]
  BY DEF Enviar, TypeOK, TiposEnvios
<1> QED BY <1>1, <1>2, MarcoConversacion

\* The steps of the three threads that send nothing.
Calladas ==
  \/ LargoTomarPcb \/ LargoPedirTabla \/ LargoAdmitir \/ LargoRechazar
  \/ (\E c \in Consola : AtenderFin(c)) \/ AtenderPost
  \/ LiberarEsperar \/ LiberarDesencolar \/ LiberarDestruir

LEMMA AvisosDeCalladas ==
  ASSUME TypeOK, Manos, Entrada, Salida, Calladas, NEW d \in Consola
  PROVE  /\ Avisos(d)' = Avisos(d)
         /\ destino'[d] = destino[d] \/ Avisos(d) = 0
<1> USE EnMano
<1>1. destino \in [Consola -> {"nada", "sistema", "terminado", "rechazado"}]
  BY DEF TypeOK, TiposPlan
<1>2. SUFFICES /\ Contestado(d)' <=> Contestado(d)
               /\ Soltado(d)' <=> Soltado(d)
               /\ destino'[d] = destino[d] \/ ~Acabado(d)
  <2>1. ~Acabado(d) => Avisos(d) = 0
    BY SinAvisos
  <2> QED BY <2>1 DEF Avisos, Uno
<1>3. CASE LargoTomarPcb
  BY <1>3 DEF LargoTomarPcb, LargoIr, Contestado, Soltado, Acabado
<1>4. CASE LargoPedirTabla
  <2>1. /\ new[1] \in Consola /\ largo.en = "grado" /\ largo'.pcb = new[1] /\ destino[new[1]] = "nada"
        /\ \/ destino' = destino
           \/ destino' = [destino EXCEPT ![new[1]] = "rechazado"] /\ largo'.en = "rechazar"
        /\ UNCHANGED <<atiende, libera, liberados>>
    <3>1. Head(new) = new[1] /\ new[1] \in Consola /\ Len(new) \in Nat /\ Len(new) >= 1
      BY <1>4, Primero DEF LargoPedirTabla, TypeOK, TiposPlan
    <3> QED BY <1>4, <3>1 DEF LargoPedirTabla, LargoIr, Entrada
  <2>2. CASE d = new[1]
    BY <1>1, <2>1, <2>2 DEF Contestado, Soltado, Acabado
  <2>3. CASE d # new[1]
    BY <1>1, <2>1, <2>3 DEF Contestado, Soltado, Acabado
  <2> QED BY <2>2, <2>3
<1>5. CASE LargoAdmitir
  BY <1>1, <1>5 DEF LargoAdmitir, LargoIr, Entrada, Contestado, Soltado, Acabado
<1>6. CASE LargoRechazar
  BY <1>6 DEF LargoRechazar, LargoIr, Contestado, Soltado, Acabado
<1>7. ASSUME NEW c \in Consola, AtenderFin(c)
      PROVE  /\ Contestado(d)' <=> Contestado(d)
             /\ Soltado(d)' <=> Soltado(d)
             /\ destino'[d] = destino[d] \/ ~Acabado(d)
  BY <1>1, <1>7 DEF AtenderFin, AtiendePasar, Despues, Contestado, Soltado, Acabado
<1>8. CASE AtenderPost
  BY <1>8 DEF AtenderPost, AtiendePasar, Despues, Libre, Contestado, Soltado, Acabado
<1>9. CASE LiberarEsperar \/ LiberarDesencolar \/ LiberarDestruir
  BY <1>9 DEF LiberarEsperar, LiberarDesencolar, LiberarDestruir, LiberaIr, Contestado, Soltado, Acabado
<1> QED BY <1>3, <1>4, <1>5, <1>6, <1>7, <1>8, <1>9 DEF Calladas

\* And those that send something.
LEMMA ConversaLargoAvisar ==
  ASSUME TypeOK, Manos, Entrada, Salida, Turno, \A d \in Consola : Conversacion(d), LargoAvisar
  PROVE  /\ \A d \in Consola : Conversacion(d)'
         /\ kernel' = "SIGPIPE" => \E d \in Consola : consola[d] = "muerta"
         /\ kernel' = "liberado" => \E d \in Consola : destino[d] = "rechazado"
<1> DEFINE m == Header("HEADER_memoria_insuficiente")
<1>0. PICK c \in Consola : c = largo.pcb
  BY EnMano DEF LargoAvisar, LargoIr
<1>1. /\ Vive /\ largo.en = "avisar" /\ c = largo.pcb /\ largo'.en = "esperar" /\ destino[c] = "rechazado"
      /\ Enviar(c, m) /\ UNCHANGED varsSesion /\ UNCHANGED <<destino, atiende, libera, liberados>>
  BY <1>0 DEF LargoAvisar, LargoIr, Entrada
<1>2. m \in Mensajes /\ m.header = "HEADER_memoria_insuficiente"
  BY DEF Mensajes, Mensaje, Header
<1>3. hilo[c] \in Hablados
  BY <1>1 DEF Entrada, TypeOK, TiposHilos, Hablados
<1>4. Avisos(c) < 2 /\ Avisos(c)' = Avisos(c) + 1
  <2>1. ~Contestado(c) /\ Contestado(c)' /\ (Soltado(c)' <=> Soltado(c))
    BY <1>1 DEF Contestado, Soltado, Acabado, Turno
  <2> QED BY <2>1 DEF Avisos, Uno
<1>5. ASSUME NEW d \in Consola, d # c PROVE Avisos(d)' = Avisos(d)
  <2>1. (Contestado(d)' <=> Contestado(d)) /\ (Soltado(d)' <=> Soltado(d))
    BY <1>1, <1>5 DEF Contestado, Soltado, Acabado
  <2> QED BY <2>1 DEF Avisos, Uno
<1> HIDE DEF m
<1>6. Conversacion(c)' /\ (kernel' = "SIGPIPE" => consola[c] = "muerta")
  BY <1>1, <1>2, <1>3, <1>4, EnvioDeAviso
<1>7. ASSUME NEW d \in Consola, d # c PROVE Conversacion(d)'
  BY <1>1, <1>5, <1>7, EnvioAjeno
<1> QED BY <1>1, <1>6, <1>7

LEMMA ConversaAtenderAvisar ==
  ASSUME TypeOK, Manos, Entrada, Salida, Turno, \A d \in Consola : Conversacion(d), AtenderAvisar
  PROVE  /\ \A d \in Consola : Conversacion(d)'
         /\ kernel' = "SIGPIPE" => \E d \in Consola : consola[d] = "muerta"
         /\ kernel' # "liberado"
<1> DEFINE m == Header("HEADER_proceso_terminado")
<1>0. PICK c \in Consola : c = atiende.pcb
  BY EnMano DEF AtenderAvisar, AtiendePasar
<1>1. /\ Vive /\ atiende.en = "avisar" /\ c = atiende.pcb /\ atiende'.en = "post" /\ destino[c] = "terminado"
      /\ Enviar(c, m) /\ UNCHANGED varsSesion /\ UNCHANGED <<destino, largo, libera, liberados>>
  BY <1>0 DEF AtenderAvisar, AtiendePasar, Despues, Turno
<1>2. m \in Mensajes /\ m.header = "HEADER_proceso_terminado"
  BY DEF Mensajes, Mensaje, Header
<1>3. hilo[c] \in Hablados
  BY <1>1 DEF Entrada, TypeOK, TiposHilos, Hablados
<1>4. c \notin liberados /\ libera.pcb # c
  BY <1>1 DEF Turno, Salida
<1>5. Avisos(c) < 2 /\ Avisos(c)' = Avisos(c) + 1
  <2>1. ~Contestado(c) /\ Contestado(c)' /\ (Soltado(c)' <=> Soltado(c))
    BY <1>1 DEF Contestado, Soltado, Acabado, Entrada
  <2> QED BY <2>1 DEF Avisos, Uno
<1>6. ASSUME NEW d \in Consola, d # c PROVE Avisos(d)' = Avisos(d)
  <2>1. (Contestado(d)' <=> Contestado(d)) /\ (Soltado(d)' <=> Soltado(d))
    BY <1>1, <1>6 DEF Contestado, Soltado, Acabado, AtenderAvisar, AtiendePasar
  <2> QED BY <2>1 DEF Avisos, Uno
<1> HIDE DEF m
<1>7. /\ Conversacion(c)' /\ (kernel' = "SIGPIPE" => consola[c] = "muerta")
      /\ kernel' \in {"vive", "SIGPIPE"}
  BY <1>1, <1>2, <1>3, <1>4, <1>5, EnvioDeAviso
<1>8. ASSUME NEW d \in Consola, d # c PROVE Conversacion(d)'
  BY <1>1, <1>6, <1>8, EnvioAjeno
<1> QED BY <1>1, <1>7, <1>8

LEMMA ConversaLiberarAvisar ==
  ASSUME TypeOK, Manos, Entrada, Salida, Turno, \A d \in Consola : Conversacion(d), LiberarAvisar
  PROVE  /\ \A d \in Consola : Conversacion(d)'
         /\ kernel' = "SIGPIPE" => \E d \in Consola : consola[d] = "muerta"
         /\ kernel' # "liberado"
<1> DEFINE m == Header("HANDSHAKE_ok_continue")
<1>0. PICK c \in Consola : c = libera.pcb
  BY EnMano DEF LiberarAvisar, LiberaIr
<1>1. /\ Vive /\ libera.en = "avisar" /\ c = libera.pcb /\ libera' = [en |-> "destruir", pcb |-> c]
      /\ Acabado(c) /\ c \notin liberados
      /\ Enviar(c, m) /\ UNCHANGED varsSesion /\ UNCHANGED <<destino, largo, atiende, liberados>>
  BY <1>0 DEF LiberarAvisar, LiberaIr, Salida, Manos
<1>2. m \in Mensajes /\ m.header # "HEADER_proceso_terminado"
  BY DEF Mensajes, Mensaje, Header
<1>3. hilo[c] \in Hablados
  BY <1>1 DEF Entrada, Acabado, TypeOK, TiposHilos, Hablados
<1>4. Avisos(c) < 2 /\ Avisos(c)' = Avisos(c) + 1
  <2>1. ~Soltado(c) /\ Soltado(c)' /\ (Contestado(c)' <=> Contestado(c))
    BY <1>1 DEF Contestado, Soltado, Acabado
  <2> QED BY <2>1 DEF Avisos, Uno
<1>5. Avisos(c) = 0 => destino[c] = "rechazado"
  <2>1. destino[c] = "terminado" => Contestado(c)
    <3>1. atiende.en = "avisar" => atiende.pcb # c
      BY <1>1 DEF Turno, Salida
    <3>2. destino[c] = "terminado" /\ largo.en \in {"rechazar", "avisar"} => largo.pcb # c
      BY DEF Entrada
    <3> QED BY <3>1, <3>2 DEF Contestado, Acabado
  <2> QED BY <1>1, <2>1 DEF Avisos, Uno, Acabado
<1>6. ASSUME NEW d \in Consola, d # c PROVE Avisos(d)' = Avisos(d)
  <2>1. (Contestado(d)' <=> Contestado(d)) /\ (Soltado(d)' <=> Soltado(d))
    BY <1>1, <1>6 DEF Contestado, Soltado, Acabado
  <2> QED BY <2>1 DEF Avisos, Uno
<1> HIDE DEF m
<1>7. /\ Conversacion(c)' /\ (kernel' = "SIGPIPE" => consola[c] = "muerta")
      /\ kernel' \in {"vive", "SIGPIPE"}
  BY <1>1, <1>2, <1>3, <1>4, <1>5, EnvioDeAviso
<1>8. ASSUME NEW d \in Consola, d # c PROVE Conversacion(d)'
  BY <1>1, <1>6, <1>8, EnvioAjeno
<1> QED BY <1>1, <1>7, <1>8

LEMMA PasoConversaciones ==
  ASSUME TypeOK, Manos, Entrada, Salida, Turno, Pids, \A d \in Consola : Conversacion(d), KernelVive, Next
  PROVE  (\A d \in Consola : Conversacion(d)') /\ KernelVive'
<1>1. ASSUME NEW c \in Consola, ConsolaPaso(c) \/ Morir(c) \/ RstLlega(c)
      PROVE  (\A d \in Consola : Conversacion(d)') /\ KernelVive'
  <2>1. UNCHANGED <<kernel, destino>>
    BY <1>1, ConsolaNoToca DEF varsPlan
  <2>2. \A d \in Consola : Conversacion(d)'
    BY <1>1, <2>1, ConversaConsola, ConversaAjena DEF Vive
  <2>3. \A d \in Consola : consola[d] = "muerta" => consola'[d] = "muerta"
    BY <1>1 DEF ConsolaPaso, ConsolaConectar, ConsolaEnviarInstrucciones, ConsolaRecibirPid, ConsolaRecibirFin, Morir,
                RstLlega, Ir, varsSesion, varsConsola, TypeOK, TiposConsolas
  <2> QED BY <2>1, <2>2, <2>3 DEF KernelVive
<1>2. ASSUME NEW c \in Consola, HiloPaso(c)
      PROVE  (\A d \in Consola : Conversacion(d)') /\ KernelVive'
  <2>1. Conversacion(c)' /\ kernel' = kernel
    BY <1>2, ConversaHilo
  <2>2. \A d \in Consola : Conversacion(d)'
    BY <1>2, <2>1, ConversaAjena DEF Vive
  <2>3. UNCHANGED <<consola, destino>>
    BY <1>2, HiloNoToca DEF varsConsola
  <2> QED BY <2>1, <2>2, <2>3 DEF KernelVive
<1>3. CASE Calladas
  <2>1. UNCHANGED varsSesion /\ UNCHANGED <<aConsola, rst, kernel>>
    BY <1>3 DEF Calladas, LargoTomarPcb, LargoPedirTabla, LargoAdmitir, LargoRechazar, AtenderFin, AtenderPost,
                LiberarEsperar, LiberarDesencolar, LiberarDestruir
  <2>2. Vive
    BY <1>3 DEF Calladas, LargoTomarPcb, LargoPedirTabla, LargoAdmitir, LargoRechazar, AtenderFin, AtenderPost,
                LiberarEsperar, LiberarDesencolar, LiberarDestruir, LargoIr, AtiendePasar, LiberaIr
  <2>3. UNCHANGED <<consola, idProceso, alKernel, hilo, newPid>>
    BY <2>1 DEF varsSesion, varsConsola, varsPid
  <2>4. ASSUME NEW d \in Consola PROVE Conversacion(d)'
    <3>1. Avisos(d)' = Avisos(d) /\ (destino'[d] = destino[d] \/ Avisos(d) = 0)
      BY <1>3, AvisosDeCalladas
    <3> QED BY <2>1, <2>2, <2>3, <3>1, MarcoConversacion
  <2> QED BY <2>1, <2>2, <2>4 DEF KernelVive, Vive
<1>4. CASE LargoAvisar
  <2>1. UNCHANGED <<consola, destino>>
    BY <1>4 DEF LargoAvisar, varsSesion, varsConsola
  <2> QED BY <1>4, <2>1, ConversaLargoAvisar DEF KernelVive
<1>5. CASE AtenderAvisar
  <2>1. UNCHANGED <<consola, destino>>
    BY <1>5 DEF AtenderAvisar, varsSesion, varsConsola
  <2> QED BY <1>5, <2>1, ConversaAtenderAvisar DEF KernelVive
<1>6. CASE LiberarAvisar
  <2>1. UNCHANGED <<consola, destino>>
    BY <1>6 DEF LiberarAvisar, varsSesion, varsConsola
  <2> QED BY <1>6, <2>1, ConversaLiberarAvisar DEF KernelVive
<1> QED BY <1>1, <1>2, <1>3, <1>4, <1>5, <1>6 DEF Next, Largo, Atiende, Libera, Calladas

-----------------------------------------------------------------------------
(* The theorems.                                                           *)

LEMMA InicioIInv ==
  ASSUME Init
  PROVE  IInv
<1>1. << >> \in Seq(Consola) /\ << >> \in Seq(Mensajes) /\ Len(<< >>) = 0
      /\ << >> \in Seq({"HANDSHAKE_consola", "HEADER_lista_instrucciones"})
  BY EmptySeq
<1>2. TypeOK
  BY <1>1, GradoAssumption DEF Init, TypeOK, TiposConsolas, TiposEnvios, TiposHilos, TiposSemaforos, TiposPlan, Puesto,
                               Libre, Antes
<1>3. Manos /\ Entrada /\ Salida /\ Turno
  BY <1>1, NadieAssumption DEF Init, Manos, Entrada, Salida, Turno, Libre, Acabado
<1>4. Cuentas
  <2>1. Los("sistema") = {} /\ Los("rechazado") = {} /\ Con("sistema") = 0 /\ Con("rechazado") = 0
    <3>1. Los("sistema") = {} /\ Los("rechazado") = {}
      BY DEF Init, Los
    <3> QED BY <3>1, FS_EmptySet DEF Con, Los
  <2>2. IsFiniteSet(Los("sistema")) /\ IsFiniteSet(Los("rechazado"))
    BY <2>1, FS_EmptySet
  <2>3. /\ Uno(libera.en = "desencolar") = 0 /\ Uno(atiende.en # "esperar") = 0 /\ Uno(largo.en = "rechazar") = 0
        /\ Uno(largo.en \in {"admitir", "rechazar"}) = 0 /\ Uno(libera.en \in {"avisar", "destruir"}) = 0
    BY DEF Init, Libre, Uno
  <2>4. Len(exit) = 0 /\ semExit = 0 /\ grado = Grado /\ Grado \in Nat
    BY <1>1, GradoAssumption DEF Init
  <2> QED BY <2>1, <2>2, <2>3, <2>4 DEF Cuentas, CuentaDeExit, CuentaDePermisos
<1>5. Pids
  BY NadieAssumption DEF Init, Pids, ConPid, Hablados
<1>6. \A c \in Consola : Conversacion(c)
  BY DEF Init, Conversacion
<1>7. KernelVive
  BY DEF Init, KernelVive
<1> QED BY <1>2, <1>3, <1>4, <1>5, <1>6, <1>7 DEF IInv

LEMMA PasoTypeOK ==
  ASSUME TypeOK, Manos, Next
  PROVE  TypeOK'
  BY TiposConsola, TiposHilo, TiposLargo, TiposAtiende, TiposLibera DEF Next

LEMMA PasoIInv ==
  ASSUME IInv, [Next]_vars
  PROVE  IInv'
<1>1. CASE Next
  <2>1. TypeOK' /\ Manos'
    BY <1>1, PasoTypeOK, PasoManos DEF IInv
  <2>2. Entrada' /\ Salida'
    BY <1>1, PasoEntrada, PasoSalida DEF IInv
  <2>3. Turno' /\ Cuentas' /\ Pids'
    BY <1>1, PasoTurno, PasoCuentas, PasoPids DEF IInv
  <2>4. (\A d \in Consola : Conversacion(d)') /\ KernelVive'
    BY <1>1, PasoConversaciones DEF IInv
  <2> QED BY <2>1, <2>2, <2>3, <2>4 DEF IInv
<1>2. CASE UNCHANGED vars
  <2>1. UNCHANGED <<consola, idProceso, alKernel, aConsola, rst, hilo, newPid, nextPid, nextPidMutex, new, hayPcbs, grado,
                    largo, atiende, libera, destino, exit, semExit, liberados, kernel>>
    BY <1>2 DEF vars, varsConsola, varsRed, varsPid, varsPlan
  <2>2. TypeOK' /\ Manos' /\ Entrada'
    BY <2>1 DEF IInv, TypeOK, TiposConsolas, TiposEnvios, TiposHilos, TiposSemaforos, TiposPlan, Manos, Entrada
  <2>3. Salida' /\ Turno' /\ Pids' /\ KernelVive'
    BY <2>1 DEF IInv, Salida, Acabado, Turno, Pids, KernelVive
  <2>4. Cuentas'
    <3>1. /\ Los("sistema")' = Los("sistema") /\ Con("sistema")' = Con("sistema")
          /\ Los("rechazado")' = Los("rechazado") /\ Con("rechazado")' = Con("rechazado")
      BY <2>1, MismoDestino
    <3>2. IsFiniteSet(Los("sistema")') /\ IsFiniteSet(Los("rechazado")')
      BY <3>1 DEF IInv, Cuentas
    <3> QED BY <2>1, <3>1, <3>2 DEF IInv, Cuentas, CuentaDeExit, CuentaDePermisos
  <2>5. ASSUME NEW c \in Consola PROVE Conversacion(c)'
    <3>1. Avisos(c)' = Avisos(c)
      BY <2>1 DEF Avisos, Contestado, Soltado, Acabado
    <3> QED BY <2>1, <3>1, MarcoConversacion DEF IInv, Vive
  <2> QED BY <2>2, <2>3, <2>4, <2>5 DEF IInv
<1> QED BY <1>1, <1>2

\* The Consolas, their sockets, the threads that write in them and the lists NEW and EXIT agree:
\* each PCB is in one place at most, each Consola was sent what its process is due and no more, and
\* PIDs are never repeated, whatever Memory refuses and whichever Consolas are stopped.
THEOREM SesionesInvariante == Spec => []IInv
<1>1. Init => IInv
  BY InicioIInv
<1>2. IInv /\ [Next]_vars => IInv'
  BY PasoIInv
<1> QED BY <1>1, <1>2, PTL DEF Spec

\* Only a Consola that somebody stopped, or a refused PCB that was freed before its Consola was
\* told, ends the Kernel: no Consola that comes to its end does.
THEOREM KernelSobreviveALasSesiones == Spec => []KernelVive
<1>1. IInv => KernelVive
  BY DEF IInv
<1> QED BY <1>1, SesionesInvariante, PTL

\* EXIT has a PCB for the thread that frees them whenever it goes for one, and keeps as many as
\* Memory refused.
THEOREM ExitEnCuenta == Spec => []CuentaDeExit
<1>1. IInv => CuentaDeExit
  BY DEF IInv, Cuentas
<1> QED BY <1>1, SesionesInvariante, PTL

\* No permit is lost or given twice: those that are missing are of PCBs that Memory refused.
THEOREM PermisosEnCuenta == Spec => []CuentaDePermisos
<1>1. IInv => CuentaDePermisos
  BY DEF IInv, Cuentas
<1> QED BY <1>1, SesionesInvariante, PTL

-----------------------------------------------------------------------------
(* Atencion.                                                               *)

Vistas == [c \in Consola |-> Vista(c)]

LEMMA InicioAtencion ==
  ASSUME Init
  PROVE  A!Init
  BY DEF Init, A!Init, Vista

\* What a Consola shows changes only when it reads the end of its process.
LEMMA PasoVista ==
  ASSUME TypeOK, NEW c \in Consola, consola' = [consola EXCEPT ![c] = consola'[c]],
         NEW v \in {"atendida", "rechazada", "espera"}, Vista(c)' = v
  PROVE  Vistas' = [Vistas EXCEPT ![c] = v]
  BY DEF Vistas, Vista, TypeOK, TiposConsolas

LEMMA ConsolaAtiende ==
  ASSUME IInv, NEW c \in Consola, ConsolaPaso(c) \/ Morir(c) \/ RstLlega(c)
  PROVE  [A!Next]_(A!vars)
<1>1. destino' = destino /\ TypeOK /\ Pids /\ Conversacion(c)
  BY ConsolaNoToca DEF varsPlan, IInv
<1>2. consola \in [Consola -> {"inicio", "handshake", "pid", "fin", "ok", "error", "muerta"}]
      /\ idProceso \in [Consola -> Nat] /\ newPid \in [Consola -> Nat]
  BY <1>1 DEF TypeOK, TiposConsolas, TiposHilos
<1>3. ASSUME idProceso' = idProceso, Vistas' = Vistas PROVE [A!Next]_(A!vars)
  BY <1>1, <1>3 DEF A!vars, Vistas
<1>4. ASSUME consola' = [consola EXCEPT ![c] = consola'[c]], consola[c] \notin {"ok", "error"}, consola'[c] \notin {"ok", "error"}
      PROVE  Vistas' = Vistas
  BY <1>2, <1>4 DEF Vistas, Vista
<1>5. CASE ConsolaConectar(c)
  BY <1>2, <1>3, <1>4, <1>5 DEF ConsolaConectar, Ir
<1>6. CASE ConsolaEnviarInstrucciones(c)
  <2>1. Head(aConsola[c]).header = "HANDSHAKE_ok_continue"
    BY <1>1, <1>6, LoQueLee DEF ConsolaEnviarInstrucciones
  <2> QED BY <1>2, <1>3, <1>4, <1>6, <2>1 DEF ConsolaEnviarInstrucciones, Ir
<1>7. CASE ConsolaRecibirPid(c)
  <2>1. consola[c] = "pid" /\ aConsola[c] # << >>
    BY <1>7 DEF ConsolaRecibirPid
  <2>2. Head(aConsola[c]).header = "HEADER_pid" /\ Head(aConsola[c]).pid = newPid[c] /\ hilo[c] \in Hablados
    BY <1>1, <2>1, LoQueLee
  <2>3. consola' = [consola EXCEPT ![c] = "fin"] /\ idProceso' = [idProceso EXCEPT ![c] = newPid[c]]
    BY <1>7, <2>2 DEF ConsolaRecibirPid, Ir
  <2>4. Vistas' = Vistas
    BY <1>2, <1>4, <2>1, <2>3
  <2>5. idProceso[c] = 0 /\ newPid[c] \in Nat \ {0}
    BY <1>1, <1>2, <2>1, <2>2 DEF Conversacion, Pids, ConPid, TypeOK, TiposHilos
  <2>6. \A otra \in Consola \ {c} : idProceso[otra] # newPid[c]
    BY <1>1, <2>2, <2>5 DEF Pids, ConPid
  <2>7. A!Numerar(c)
    BY <1>1, <1>2, <2>3, <2>4, <2>5, <2>6 DEF A!Numerar, Vistas
  <2> QED BY <2>7 DEF A!Next
<1>8. CASE ConsolaRecibirFin(c)
  <2>1. /\ consola[c] = "fin" /\ aConsola[c] # << >> /\ idProceso' = idProceso
        /\ consola' = [consola EXCEPT ![c] = IF Head(aConsola[c]).header = "HEADER_proceso_terminado"
                                             THEN "ok" ELSE "error"]
    BY <1>8 DEF ConsolaRecibirFin, Ir
  <2>2. /\ Head(aConsola[c]) = aConsola[c][1] /\ Len(aConsola[c]) > 0
    BY <1>1, <2>1, Primero DEF TypeOK, TiposEnvios
  <2>3. destino[c] = IF Head(aConsola[c]).header = "HEADER_proceso_terminado" THEN "terminado" ELSE "rechazado"
    BY <1>1, <2>1, <2>2 DEF Conversacion, EnCamino
  <2>4. idProceso[c] # 0 /\ Vistas[c] = "espera"
    BY <1>1, <2>1 DEF Conversacion, Vistas, Vista
  <2>5. /\ Vistas' = [Vistas EXCEPT ![c] = Vista(c)']
        /\ Vista(c)' = IF consola'[c] = "ok" THEN "atendida" ELSE "rechazada"
    BY <1>1, <1>2, <2>1, PasoVista DEF Vista
  <2>6. A!Responder(c)
    BY <1>1, <1>2, <2>1, <2>3, <2>4, <2>5 DEF A!Responder, Vistas
  <2> QED BY <2>6 DEF A!Next
<1>9. CASE Morir(c)
  BY <1>2, <1>3, <1>4, <1>9 DEF Morir, Ir
<1>10. CASE RstLlega(c)
  BY <1>3, <1>10 DEF RstLlega, varsSesion, varsConsola, Vistas, Vista
<1> QED BY <1>5, <1>6, <1>7, <1>8, <1>9, <1>10 DEF ConsolaPaso

LEMMA PasoAtencion ==
  ASSUME IInv, [Next]_vars
  PROVE  [A!Next]_(A!vars)
<1>1. ASSUME idProceso' = idProceso, consola' = consola, destino' = destino PROVE [A!Next]_(A!vars)
  BY <1>1 DEF A!vars, Vista
<1>2. ASSUME idProceso' = idProceso, consola' = consola, NEW c \in Consola, A!Avanzar(c) PROVE [A!Next]_(A!vars)
  BY <1>2 DEF A!Next
<1>3. ASSUME idProceso' = idProceso, consola' = consola, NEW c \in Consola, NEW d,
             destino' = [destino EXCEPT ![c] = d],
             \/ destino[c] = "nada" /\ d \in {"sistema", "rechazado"}
             \/ destino[c] = "sistema" /\ d = "terminado"
      PROVE  [A!Next]_(A!vars)
  <2>1. A!Avanzar(c)
    BY <1>3 DEF A!Avanzar, Vista
  <2> QED BY <2>1 DEF A!Next
<1>4. ASSUME NEW c \in Consola, HiloPaso(c) PROVE [A!Next]_(A!vars)
  BY <1>1, <1>4, HiloNoToca DEF varsConsola
<1>5. CASE Largo \/ Atiende \/ Libera
  <2>1. idProceso' = idProceso /\ consola' = consola
    BY <1>5 DEF Largo, LargoTomarPcb, LargoPedirTabla, LargoAdmitir, LargoRechazar, LargoAvisar, Atiende, AtenderFin,
                AtenderAvisar, AtenderPost, Libera, LiberarEsperar, LiberarDesencolar, LiberarAvisar, LiberarDestruir,
                varsSesion, varsConsola
  <2>2. CASE LargoPedirTabla
    <3>1. Head(new) = new[1] /\ new[1] \in Consola /\ Len(new) \in Nat /\ Len(new) >= 1
      BY <2>2, Primero DEF LargoPedirTabla, IInv, TypeOK, TiposPlan
    <3>2. destino[Head(new)] = "nada" /\ Head(new) \in Consola
      BY <3>1 DEF IInv, Entrada
    <3> QED BY <1>1, <1>3, <2>1, <2>2, <3>2 DEF LargoPedirTabla
  <2>3. CASE LargoAdmitir
    <3>1. largo.pcb \in Consola /\ destino[largo.pcb] = "nada"
      BY <2>3, EnMano DEF LargoAdmitir, LargoIr, IInv, Entrada
    <3> QED BY <1>3, <2>1, <2>3, <3>1 DEF LargoAdmitir
  <2>4. ASSUME NEW c \in Consola, AtenderFin(c) PROVE [A!Next]_(A!vars)
    BY <1>3, <2>1, <2>4 DEF AtenderFin
  <2>5. CASE destino' = destino
    BY <1>1, <2>1, <2>5
  <2> QED BY <1>5, <2>2, <2>3, <2>4, <2>5 DEF Largo, LargoTomarPcb, LargoRechazar, LargoAvisar, Atiende, AtenderAvisar,
                AtenderPost, Libera, LiberarEsperar, LiberarDesencolar, LiberarAvisar, LiberarDestruir
<1>6. CASE UNCHANGED vars
  BY <1>1, <1>6 DEF vars, varsConsola, varsPlan
<1> QED BY <1>4, <1>5, <1>6, ConsolaAtiende DEF Next

\* Every Consola is given a number nobody else has and then told, once, what became of its process,
\* whatever else happens to the Kernel.
THEOREM SesionesAtendidas == Spec => ImplementaAtencion
<1>1. Init => A!Init
  BY InicioAtencion
<1>2. IInv /\ [Next]_vars => [A!Next]_(A!vars)
  BY PasoAtencion
<1> QED BY <1>1, <1>2, SesionesInvariante, PTL DEF Spec, ImplementaAtencion, A!Spec

=============================================================================
