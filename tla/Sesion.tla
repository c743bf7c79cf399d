-------------------------------- MODULE Sesion --------------------------------
(***************************************************************************)
(* The sessions of the Consolas: consola/src/consola.c on one side; on the *)
(* other, in kernel/src/scheduler.c, the thread of each connection         *)
(* (encolar_en_new_a_nuevo_pcb_entrante) and the three threads that write  *)
(* in its socket later: the long term one when Memory refuses the process, *)
(* __atender_pcb when it ends and the one that frees PCBs.                 *)
(*                                                                         *)
(* A PCB is named by its Consola. What a process does between READY and    *)
(* EXIT is module Planificador: here it may end at any time. A send to a   *)
(* socket whose other end is closed brings a RST back, and the next one    *)
(* raises SIGPIPE, which nothing in the program catches or ignores.        *)
(***************************************************************************)
EXTENDS Naturals, Sequences, FiniteSets

CONSTANTS
  Consola,
  Nadie,        \* no PCB, no thread
  Grado,        \* GRADO_MULTIPROGRAMACION
  Rechazables,  \* processes Memory may have no room for
  Mortales      \* Consolas somebody may stop while they wait for the end

ASSUME NadieAssumption == Nadie \notin Consola
ASSUME GradoAssumption == Grado \in Nat \ {0}
ASSUME SubconjuntosAssumption == Rechazables \subseteq Consola /\ Mortales \subseteq Consola

VARIABLES
  consola,       \* consola[c]: where main stands; "ok", "error" and "muerta" are its ends
  idProceso,     \* idProceso[c]: the PID it received, 0 before
  alKernel,      \* alKernel[c], aConsola[c]: the two directions of the socket
  aConsola,
  rst,           \* rst[c]: "no", "vuelve" or "llego": the RST of a closed Consola
  hilo,          \* hilo[c]: where the thread of the connection stands
  newPid,        \* newPid[c]: its local variable, then the PID of the PCB
  nextPid, nextPidMutex,
  new,           \* the list NEW
  hayPcbs,       \* hayPcbsParaAgregarAlSistema
  grado,         \* gradoMultiprog
  largo, atiende, libera,   \* where each of the three threads stands and with which PCB
  destino,       \* destino[c]: "nada", "sistema", "terminado" or "rechazado", its process
  exit, semExit, \* the list EXIT and its semaphore
  liberados,     \* PCBs that pcb_destroy freed
  kernel         \* "vive", or what ended it: "SIGPIPE" or "liberado" (a freed PCB was used)

varsConsola == <<consola, idProceso>>
varsPid == <<newPid, nextPid, nextPidMutex>>
varsSesion == <<varsConsola, alKernel, hilo, varsPid>>
varsRed == <<alKernel, aConsola, rst>>
varsPlan == <<new, hayPcbs, grado, largo, atiende, libera, destino, exit, semExit, liberados>>
vars == <<varsConsola, varsRed, hilo, varsPid, varsPlan, kernel>>

Libre(en) == [en |-> en, pcb |-> Nadie]

Init ==
  /\ consola = [c \in Consola |-> "inicio"]
  /\ idProceso = [c \in Consola |-> 0]
  /\ alKernel = [c \in Consola |-> << >>] /\ aConsola = [c \in Consola |-> << >>]
  /\ rst = [c \in Consola |-> "no"]
  /\ hilo = [c \in Consola |-> "no"]
  /\ newPid = [c \in Consola |-> 0]
  /\ nextPid = 1 /\ nextPidMutex = Nadie
  /\ new = << >> /\ hayPcbs = 0
  /\ grado = Grado
  /\ largo = Libre("esperar") /\ atiende = Libre("esperar") /\ libera = Libre("esperar")
  /\ destino = [c \in Consola |-> "nada"]
  /\ exit = << >> /\ semExit = 0
  /\ liberados = {}
  /\ kernel = "vive"

Cerrada(c) == consola[c] \in {"ok", "error", "muerta"}
Mensaje(header, pid) == [header |-> header, pid |-> pid]
Header(m) == Mensaje(m, 0)

-----------------------------------------------------------------------------
(* Consola: main.                                                          *)

\* Moves to en. When it ends, what it leaves unread makes its socket answer with a RST.
Ir(c, en, resto) ==
  /\ consola' = [consola EXCEPT ![c] = en]
  /\ aConsola' = [aConsola EXCEPT ![c] = resto]
  /\ rst' = [rst EXCEPT ![c] = IF en \in {"ok", "error", "muerta"} /\ resto # << >> THEN "vuelve" ELSE @]

ConsolaConectar(c) ==
  /\ consola[c] = "inicio"
  /\ alKernel' = [alKernel EXCEPT ![c] = Append(@, "HANDSHAKE_consola")]
  /\ Ir(c, "handshake", << >>)
  /\ UNCHANGED <<idProceso, hilo, varsPid, varsPlan, kernel>>

ConsolaEnviarInstrucciones(c) ==
  /\ consola[c] = "handshake" /\ aConsola[c] # << >>
  /\ IF Head(aConsola[c]).header = "HANDSHAKE_ok_continue"
     THEN /\ alKernel' = [alKernel EXCEPT ![c] = Append(@, "HEADER_lista_instrucciones")]
          /\ Ir(c, "pid", Tail(aConsola[c]))
     ELSE Ir(c, "error", Tail(aConsola[c])) /\ UNCHANGED alKernel
  /\ UNCHANGED <<idProceso, hilo, varsPid, varsPlan, kernel>>

ConsolaRecibirPid(c) ==
  /\ consola[c] = "pid" /\ aConsola[c] # << >>
  /\ IF Head(aConsola[c]).header = "HEADER_pid"
     THEN /\ idProceso' = [idProceso EXCEPT ![c] = Head(aConsola[c]).pid]
          /\ Ir(c, "fin", Tail(aConsola[c]))
     ELSE Ir(c, "error", Tail(aConsola[c])) /\ UNCHANGED idProceso
  /\ UNCHANGED <<alKernel, hilo, varsPid, varsPlan, kernel>>

ConsolaRecibirFin(c) ==
  /\ consola[c] = "fin" /\ aConsola[c] # << >>
  /\ Ir(c, IF Head(aConsola[c]).header = "HEADER_proceso_terminado" THEN "ok" ELSE "error",
        Tail(aConsola[c]))
  /\ UNCHANGED <<idProceso, alKernel, hilo, varsPid, varsPlan, kernel>>

\* Somebody stops the Consola.
Morir(c) ==
  /\ c \in Mortales /\ consola[c] = "fin"
  /\ Ir(c, "muerta", aConsola[c])
  /\ UNCHANGED <<idProceso, alKernel, hilo, varsPid, varsPlan, kernel>>

RstLlega(c) ==
  /\ rst[c] = "vuelve"
  /\ rst' = [rst EXCEPT ![c] = "llego"]
  /\ UNCHANGED <<varsSesion, aConsola, varsPlan, kernel>>

-----------------------------------------------------------------------------
(* The Kernel: __stream_send, to the Consola of a PCB.                     *)

Vive == kernel = "vive"

Enviar(c, m) ==
  IF c \in liberados
  THEN kernel' = "liberado" /\ UNCHANGED <<aConsola, rst>>
  ELSE IF rst[c] = "llego"
  THEN kernel' = "SIGPIPE" /\ UNCHANGED <<aConsola, rst>>
  ELSE IF Cerrada(c)
  THEN rst' = [rst EXCEPT ![c] = "vuelve"] /\ UNCHANGED <<aConsola, kernel>>
  ELSE aConsola' = [aConsola EXCEPT ![c] = Append(@, m)] /\ UNCHANGED <<rst, kernel>>

(* The thread of a connection: encolar_en_new_a_nuevo_pcb_entrante.        *)

\* The order of its steps after it has the instructions.
Siguiente(en) ==
  CASE en = "lock" -> "leer" [] en = "leer" -> "incrementar" [] en = "incrementar" -> "enviar"
    [] en = "enviar" -> "encolar" [] en = "encolar" -> "post" [] en = "post" -> "fin"

HiloIr(c, de, a) ==
  /\ Vive
  /\ hilo[c] = de
  /\ hilo' = [hilo EXCEPT ![c] = a]
HiloPasar(c, de) == HiloIr(c, de, Siguiente(de))

Aceptar(c) ==
  /\ HiloIr(c, "no", "handshake")
  /\ consola[c] # "inicio"
  /\ UNCHANGED <<varsConsola, varsRed, varsPid, varsPlan, kernel>>

HiloHandshake(c) ==
  /\ alKernel[c] # << >>
  /\ alKernel' = [alKernel EXCEPT ![c] = Tail(@)]
  /\ IF Head(alKernel[c]) = "HANDSHAKE_consola"
     THEN /\ HiloIr(c, "handshake", "lista")
          /\ Enviar(c, Header("HANDSHAKE_ok_continue"))
     ELSE /\ HiloIr(c, "handshake", "fin")
          /\ UNCHANGED <<aConsola, rst, kernel>>
  /\ UNCHANGED <<varsConsola, varsPid, varsPlan>>

HiloRecibirLista(c) ==
  /\ alKernel[c] # << >>
  /\ alKernel' = [alKernel EXCEPT ![c] = Tail(@)]
  /\ HiloIr(c, "lista", IF Head(alKernel[c]) = "HEADER_lista_instrucciones" THEN "lock" ELSE "fin")
  /\ UNCHANGED <<varsConsola, aConsola, rst, varsPid, varsPlan, kernel>>

\* __obtener_siguiente_pid: the lock, the reading of nextPid and its increment.
\* Mutant: nextPid is not protected.
SinNextPidMutex(c) ==
  /\ HiloPasar(c, "lock")
  /\ nextPidMutex' = c
  /\ UNCHANGED <<varsConsola, varsRed, newPid, nextPid, varsPlan, kernel>>
HiloLock(c) ==
  /\ HiloPasar(c, "lock")
  /\ nextPidMutex = Nadie
  /\ nextPidMutex' = c
  /\ UNCHANGED <<varsConsola, varsRed, newPid, nextPid, varsPlan, kernel>>

HiloLeerPid(c) ==
  /\ HiloPasar(c, "leer")
  /\ newPid' = [newPid EXCEPT ![c] = nextPid]
  /\ UNCHANGED <<varsConsola, varsRed, nextPid, nextPidMutex, varsPlan, kernel>>

HiloIncrementar(c) ==
  /\ HiloPasar(c, "incrementar")
  /\ nextPid' = newPid[c] + 1
  /\ nextPidMutex' = Nadie
  /\ UNCHANGED <<varsConsola, varsRed, newPid, varsPlan, kernel>>

HiloEnviarPid(c) ==
  /\ HiloPasar(c, "enviar")
  /\ Enviar(c, Mensaje("HEADER_pid", newPid[c]))
  /\ UNCHANGED <<varsConsola, alKernel, varsPid, varsPlan>>

HiloEncolar(c) ==
  /\ HiloPasar(c, "encolar")
  /\ new' = Append(new, c)
  /\ UNCHANGED <<varsConsola, varsRed, varsPid, hayPcbs, grado, largo, atiende, libera, destino,
                 exit, semExit, liberados, kernel>>

HiloPost(c) ==
  /\ HiloPasar(c, "post")
  /\ hayPcbs' = hayPcbs + 1
  /\ UNCHANGED <<varsConsola, varsRed, varsPid, new, grado, largo, atiende, libera, destino,
                 exit, semExit, liberados, kernel>>

-----------------------------------------------------------------------------
(* The long term thread, as far as NEW.                                    *)

LargoIr(de, a, c) == Vive /\ largo.en = de /\ largo' = [en |-> a, pcb |-> c]

LargoTomarPcb ==
  /\ LargoIr("esperar", "grado", Nadie)
  /\ hayPcbs > 0 /\ hayPcbs' = hayPcbs - 1
  /\ UNCHANGED <<varsSesion, aConsola, rst, new, grado, atiende, libera, destino, exit, semExit,
                 liberados, kernel>>

\* Takes a permit, the first of NEW, and the answer of Memory.
LargoPedirTabla ==
  /\ grado > 0 /\ grado' = grado - 1
  /\ new # << >> /\ new' = Tail(new)
  /\ \/ LargoIr("grado", "admitir", Head(new)) /\ UNCHANGED destino
     \/ /\ Head(new) \in Rechazables
        /\ LargoIr("grado", "rechazar", Head(new))
        /\ destino' = [destino EXCEPT ![Head(new)] = "rechazado"]
  /\ UNCHANGED <<varsSesion, aConsola, rst, hayPcbs, atiende, libera, exit, semExit,
                 liberados, kernel>>

LargoAdmitir ==
  /\ LargoIr("admitir", "esperar", Nadie)
  /\ destino' = [destino EXCEPT ![largo.pcb] = "sistema"]
  /\ UNCHANGED <<varsSesion, aConsola, rst, new, hayPcbs, grado, atiende, libera, exit, semExit,
                 liberados, kernel>>

\* __responder_memoria_insuficiente: in EXIT, with no post, and then the message.
LargoRechazar ==
  /\ LargoIr("rechazar", "avisar", largo.pcb)
  /\ exit' = Append(exit, largo.pcb)
  /\ UNCHANGED <<varsSesion, aConsola, rst, new, hayPcbs, grado, atiende, libera, destino, semExit,
                 liberados, kernel>>

\* Mutant: the refused Consola is not told.
LargoCallar ==
  /\ LargoIr("avisar", "esperar", Nadie)
  /\ UNCHANGED <<varsSesion, aConsola, rst, new, hayPcbs, grado, atiende, libera, destino, exit,
                 semExit, liberados, kernel>>
LargoAvisar ==
  /\ LargoIr("avisar", "esperar", Nadie)
  /\ Enviar(largo.pcb, Header("HEADER_memoria_insuficiente"))
  /\ UNCHANGED <<varsSesion, new, hayPcbs, grado, atiende, libera, destino, exit, semExit, liberados>>

-----------------------------------------------------------------------------
(* __atender_pcb, when the CPU answers that the process ended.             *)

\* The order of its steps.
\* Mutant: the post comes before the message.
PostAntes(en) ==
  CASE en = "esperar" -> "post" [] en = "post" -> "avisar" [] en = "avisar" -> "esperar"
Despues(en) ==
  CASE en = "esperar" -> "avisar" [] en = "avisar" -> "post" [] en = "post" -> "esperar"

AtiendePasar(en, c) ==
  /\ Vive /\ atiende.en = en
  /\ atiende' = IF Despues(en) = "esperar" THEN Libre("esperar") ELSE [en |-> Despues(en), pcb |-> c]

AtenderFin(c) ==
  /\ AtiendePasar("esperar", c)
  /\ destino[c] = "sistema"
  /\ destino' = [destino EXCEPT ![c] = "terminado"]
  /\ exit' = Append(exit, c)
  /\ UNCHANGED <<varsSesion, aConsola, rst, new, hayPcbs, grado, largo, libera, semExit, liberados, kernel>>

AtenderAvisar ==
  /\ AtiendePasar("avisar", atiende.pcb)
  /\ Enviar(atiende.pcb, Header("HEADER_proceso_terminado"))
  /\ UNCHANGED <<varsSesion, new, hayPcbs, grado, largo, libera, destino, exit, semExit, liberados>>

AtenderPost ==
  /\ AtiendePasar("post", atiende.pcb)
  /\ semExit' = semExit + 1
  /\ UNCHANGED <<varsSesion, aConsola, rst, new, hayPcbs, grado, largo, libera, destino, exit,
                 liberados, kernel>>

-----------------------------------------------------------------------------
(* __hilo_que_libera_pcbs_en_exit.                                         *)

LiberaIr(de, a, c) == Vive /\ libera.en = de /\ libera' = [en |-> a, pcb |-> c]

\* Mutant: the thread does not wait for the semaphore when there is a PCB.
LiberarSinEsperar ==
  /\ LiberaIr("esperar", "desencolar", Nadie)
  /\ exit # << >>
  /\ UNCHANGED <<varsSesion, aConsola, rst, new, hayPcbs, grado, largo, atiende, destino, exit,
                 semExit, liberados, kernel>>
LiberarEsperar ==
  /\ LiberaIr("esperar", "desencolar", Nadie)
  /\ semExit > 0 /\ semExit' = semExit - 1
  /\ UNCHANGED <<varsSesion, aConsola, rst, new, hayPcbs, grado, largo, atiende, destino, exit,
                 liberados, kernel>>

\* And mem_adapter_finalizar_proceso.
LiberarDesencolar ==
  /\ LiberaIr("desencolar", "avisar", Head(exit))
  /\ exit # << >> /\ exit' = Tail(exit)
  /\ UNCHANGED <<varsSesion, aConsola, rst, new, hayPcbs, grado, largo, atiende, destino, semExit,
                 liberados, kernel>>

LiberarAvisar ==
  /\ LiberaIr("avisar", "destruir", libera.pcb)
  /\ Enviar(libera.pcb, Header("HANDSHAKE_ok_continue"))
  /\ UNCHANGED <<varsSesion, new, hayPcbs, grado, largo, atiende, destino, exit, semExit, liberados>>

\* pcb_destroy closes the socket; then the permit is given back.
\* Mutant: the permit is not given back.
DestruirSinPermiso ==
  /\ LiberaIr("destruir", "esperar", Nadie)
  /\ liberados' = liberados \union {libera.pcb}
  /\ UNCHANGED <<varsSesion, aConsola, rst, new, hayPcbs, grado, largo, atiende, destino, exit,
                 semExit, kernel>>
LiberarDestruir ==
  /\ LiberaIr("destruir", "esperar", Nadie)
  /\ liberados' = liberados \union {libera.pcb}
  /\ grado' = grado + 1
  /\ UNCHANGED <<varsSesion, aConsola, rst, new, hayPcbs, largo, atiende, destino, exit, semExit, kernel>>

-----------------------------------------------------------------------------
ConsolaPaso(c) ==
  \/ ConsolaConectar(c) \/ ConsolaEnviarInstrucciones(c) \/ ConsolaRecibirPid(c) \/ ConsolaRecibirFin(c)
HiloPaso(c) ==
  \/ Aceptar(c) \/ HiloHandshake(c) \/ HiloRecibirLista(c) \/ HiloLock(c) \/ HiloLeerPid(c)
  \/ HiloIncrementar(c) \/ HiloEnviarPid(c) \/ HiloEncolar(c) \/ HiloPost(c)
Largo == LargoTomarPcb \/ LargoPedirTabla \/ LargoAdmitir \/ LargoRechazar \/ LargoAvisar
Atiende == (\E c \in Consola : AtenderFin(c)) \/ AtenderAvisar \/ AtenderPost
Libera == LiberarEsperar \/ LiberarDesencolar \/ LiberarAvisar \/ LiberarDestruir

Next ==
  \/ \E c \in Consola : ConsolaPaso(c) \/ HiloPaso(c) \/ Morir(c) \/ RstLlega(c)
  \/ Largo \/ Atiende \/ Libera

Spec == Init /\ [][Next]_vars

\* Threads and Consolas run, nobody keeps nextPidMutex from whoever waits for it, and every
\* process that is admitted ends.
FairSpec ==
  /\ Spec
  /\ \A c \in Consola : WF_vars(ConsolaPaso(c)) /\ WF_vars(HiloPaso(c)) /\ SF_vars(HiloLock(c))
  /\ WF_vars(Largo)
  /\ \A c \in Consola : SF_vars(AtenderFin(c))
  /\ WF_vars(AtenderAvisar) /\ WF_vars(AtenderPost)
  /\ WF_vars(Libera)

-----------------------------------------------------------------------------
(* Properties.                                                             *)

\* The Kernel outlives the Consolas that come to their end: it never writes twice to one that
\* closed by itself, although the thread that frees the PCB writes after the message that makes
\* the Consola end, and only a refused PCB is used by a thread after another one freed it.
KernelVive ==
  /\ kernel = "SIGPIPE" => \E c \in Consola : consola[c] = "muerta"
  /\ kernel = "liberado" => \E c \in Consola : destino[c] = "rechazado"

Uno(condicion) == IF condicion THEN 1 ELSE 0
Con(d) == Cardinality({c \in Consola : destino[c] = d})

\* The thread that frees PCBs never finds EXIT empty, and EXIT keeps for ever, with its socket
\* open, as many PCBs as Memory refused: they were queued with no post.
CuentaDeExit ==
  Len(exit) = semExit + Uno(libera.en = "desencolar") + Uno(atiende.en # "esperar")
              + Con("rechazado") - Uno(largo.en = "rechazar")

\* Each permit is free, or of a process that runs, or of a PCB that waits in EXIT to be freed:
\* so those that wait there for ever keep theirs.
CuentaDePermisos ==
  grado + Uno(largo.en \in {"admitir", "rechazar"}) + Con("sistema") + Len(exit)
    + Uno(libera.en \in {"avisar", "destruir"}) = Grado

\* While the Kernel lives, a Consola whose process was admitted or refused comes to its end.
SesionesTerminan == []Vive =>
  \A c \in Consola : destino[c] \in {"sistema", "rechazado"} ~> Cerrada(c)

\* What the Consola shows is what became of its process.
Vista(c) == CASE consola[c] = "ok" -> "atendida" [] consola[c] = "error" -> "rechazada" [] OTHER -> "espera"
A == INSTANCE Atencion WITH numero <- idProceso, proceso <- destino,
                            resultado <- [c \in Consola |-> Vista(c)]
ImplementaAtencion == A!Spec

\* Whoever is refused is told so by its own PCB, which is still there.
RechazadoAvisado == kernel # "liberado"

\* A Consola that somebody stops does not take the Kernel with it.
KernelSobrevive == kernel # "SIGPIPE"

=============================================================================
