------------------------------ MODULE Arranque ------------------------------
(***************************************************************************)
(* How Memoria, the CPU and the Kernel start (main in memoria.c, cpu.c and *)
(* kernel.c) over the sockets of utils/src/connections.c.  Each main is a  *)
(* list of steps; a module that gives up ends, and whoever operates the    *)
(* system launches it again.  A module may also be killed.                 *)
(*                                                                         *)
(* recv on a socket whose other end was closed before sending, or on the   *)
(* descriptor -1, leaves the header of stream_recv_header uninitialised:   *)
(* any value.                                                              *)
(***************************************************************************)
EXTENDS Naturals, Sequences

CONSTANTS
  Mortales,       \* the sets of modules that may be killed together
  Muertes,        \* how many times
  Ocupados,       \* ports that another program holds, without listening
  MaxConexiones   \* bound of the model: connections in a behaviour

Modulo == {"memoria", "cpu", "kernel"}
Puerto == {"memoria", "dispatch", "interrupt", "escucha"}
\* A connection is told by the handshake its client is to send.
Handshake == {"cpu", "kernel", "dispatch", "interrupt"}
Header == Handshake \union {"ok_continue", "otro"}

ASSUME ConstantesAssumption ==
  /\ Mortales \subseteq SUBSET Modulo /\ Ocupados \subseteq Puerto
  /\ Muertes \in Nat /\ MaxConexiones \in Nat

PuertoDe(h) == IF h \in {"cpu", "kernel"} THEN "memoria" ELSE h
ClienteDe(h) == IF h = "cpu" THEN "cpu" ELSE "kernel"
ServidorDe(p) ==
  CASE p = "memoria" -> "memoria" [] p \in {"dispatch", "interrupt"} -> "cpu"
    [] p = "escucha" -> "kernel"

VARIABLES
  en,          \* en[m]: the step of m that comes next; 0, not running
  abiertos,    \* the ports that are listened to
  con,         \* every connection so far, in the order of its connect
  socket,      \* socket[h]: the connection of the last client that sent h; 0, descriptor -1
  aceptada,    \* aceptada[m]: the last connection m accepted
  sinAtender,  \* cpuSinAtender and kernelSinAtender
  muertes      \* the sets of modules that were killed, in order

vars == <<en, abiertos, con, socket, aceptada, sinAtender, muertes>>

\* cliente and servidor: that end is open. enviado: the handshake was sent. rol: what the
\* server took the client for. respondida: HANDSHAKE_ok_continue was sent back.
ConexionNueva(h) == [handshake |-> h, cliente |-> TRUE, servidor |-> TRUE, enviado |-> FALSE,
                     aceptada |-> FALSE, rol |-> "ninguno", respondida |-> FALSE]

P(que, sobre) == [que |-> que, sobre |-> sobre]
Cliente(h) == <<P("conectar", h), P("enviar", h), P("esperar", h)>>
Servidor(p) == <<P("aceptar", p), P("leer", p), P("responder", p)>>
PasosMemoria == <<P("abrir", "memoria")>> \o Servidor("memoria") \o Servidor("memoria")
\* Mutant: the port of interrupts is opened when the dispatch connection is done.
PasosCpuDeAUno ==
  Cliente("cpu") \o <<P("abrir", "dispatch")>> \o Servidor("dispatch")
    \o <<P("abrir", "interrupt")>> \o Servidor("interrupt")
PasosCpu ==
  Cliente("cpu") \o <<P("abrir", "dispatch"), P("abrir", "interrupt")>>
    \o Servidor("dispatch") \o Servidor("interrupt")
\* Mutant: the answer in the interrupt socket is not waited for.
PasosKernelSinEsperar ==
  Cliente("dispatch") \o SubSeq(Cliente("interrupt"), 1, 2) \o Cliente("kernel")
    \o <<P("abrir", "escucha")>>
PasosKernel ==
  Cliente("dispatch") \o Cliente("interrupt") \o Cliente("kernel") \o <<P("abrir", "escucha")>>
Pasos(m) ==
  CASE m = "memoria" -> PasosMemoria [] m = "cpu" -> PasosCpu [] m = "kernel" -> PasosKernel

Atiende(m) == en[m] > Len(Pasos(m))
Toca(m, que, sobre) ==
  en[m] > 0 /\ ~Atiende(m) /\ Pasos(m)[en[m]] = P(que, sobre)
Seguir(m) == en' = [en EXCEPT ![m] = @ + 1]

Init ==
  /\ en = [m \in Modulo |-> 0]
  /\ abiertos = {} /\ con = << >>
  /\ socket = [h \in Handshake |-> 0] /\ aceptada = [m \in Modulo |-> 0]
  /\ sinAtender = {"cpu", "kernel"} /\ muertes = << >>

-----------------------------------------------------------------------------
(* The sockets.                                                            *)

\* connect finds the port; it need not have been accepted.
Conectable(h) == PuertoDe(h) \in abiertos
Pendientes(p) ==
  {i \in DOMAIN con : PuertoDe(con[i].handshake) = p /\ con[i].servidor /\ ~con[i].aceptada}
Primera(p) == CHOOSE i \in Pendientes(p) : \A j \in Pendientes(p) : i <= j

\* What a read of each end of connection i may give; nothing while there is nothing to read.
LeeCliente(i) ==
  CASE i = 0 -> Header
    [] i # 0 /\ con[i].respondida -> {"ok_continue"}
    [] OTHER -> IF con[i].servidor THEN {} ELSE Header
LeeServidor(i) ==
  IF con[i].enviado THEN {con[i].handshake} ELSE IF con[i].cliente THEN {} ELSE Header

\* The modules ms end, and their descriptors are closed.
Terminan(ms) ==
  /\ en' = [m \in Modulo |-> IF m \in ms THEN 0 ELSE en[m]]
  /\ abiertos' = {p \in abiertos : ServidorDe(p) \notin ms}
  /\ con' = [i \in DOMAIN con |->
       [con[i] EXCEPT !.cliente = @ /\ ClienteDe(con[i].handshake) \notin ms,
                      !.servidor = @ /\ ServidorDe(PuertoDe(con[i].handshake)) \notin ms]]
  /\ UNCHANGED <<socket, aceptada, sinAtender>>
Salir(m) == Terminan({m})

-----------------------------------------------------------------------------
(* The steps of the three mains.                                           *)

Lanzar(m) ==
  /\ en[m] = 0
  /\ Seguir(m)
  /\ sinAtender' = IF m = "memoria" THEN {"cpu", "kernel"} ELSE sinAtender
  /\ UNCHANGED <<abiertos, con, socket, aceptada, muertes>>

Matar(ms) ==
  /\ Len(muertes) < Muertes
  /\ \A m \in ms : en[m] > 0
  /\ Terminan(ms)
  /\ muertes' = Append(muertes, ms)

\* iniciar_servidor. When bind fails it answers EXIT_FAILURE, which nobody compares with.
Abrir(m) == \E p \in Puerto :
  /\ Toca(m, "abrir", p)
  /\ abiertos' = IF p \in Ocupados THEN abiertos ELSE abiertos \union {p}
  /\ Seguir(m)
  /\ UNCHANGED <<con, socket, aceptada, sinAtender, muertes>>

\* conectar_a_servidor. For Memory, the Kernel looks for the failure in the socket of
\* interrupts and goes on with the descriptor -1.
Conectar(m) == \E h \in Handshake :
  /\ Toca(m, "conectar", h)
  /\ IF Conectable(h)
     THEN /\ Len(con) < MaxConexiones
          /\ con' = Append(con, ConexionNueva(h))
          /\ socket' = [socket EXCEPT ![h] = Len(con')]
          /\ Seguir(m)
          /\ UNCHANGED <<abiertos, aceptada, sinAtender>>
     ELSE IF h = "kernel"
     THEN /\ socket' = [socket EXCEPT ![h] = 0]
          /\ Seguir(m)
          /\ UNCHANGED <<abiertos, con, aceptada, sinAtender>>
     ELSE Salir(m)
  /\ UNCHANGED muertes

\* The handshake; a send that fails is only logged.
Enviar(m) == \E h \in Handshake :
  /\ Toca(m, "enviar", h)
  /\ con' = [i \in DOMAIN con |-> [con[i] EXCEPT !.enviado = @ \/ i = socket[h]]]
  /\ Seguir(m)
  /\ UNCHANGED <<abiertos, socket, aceptada, sinAtender, muertes>>

\* The answer to the handshake.
Esperar(m) == \E h \in Handshake :
  /\ Toca(m, "esperar", h)
  /\ \E r \in LeeCliente(socket[h]) :
       IF r = "ok_continue"
       THEN Seguir(m) /\ UNCHANGED <<abiertos, con, socket, aceptada, sinAtender>>
       ELSE Salir(m)
  /\ UNCHANGED muertes

\* accept, on a port that is open or on the descriptor that is not a socket.
Aceptar(m) == \E p \in Puerto :
  /\ Toca(m, "aceptar", p)
  /\ IF p \in abiertos
     THEN /\ Pendientes(p) # {}
          /\ aceptada' = [aceptada EXCEPT ![m] = Primera(p)]
          /\ con' = [con EXCEPT ![Primera(p)].aceptada = TRUE]
          /\ Seguir(m)
          /\ UNCHANGED <<abiertos, socket, sinAtender>>
     ELSE Salir(m)
  /\ UNCHANGED muertes

\* Mutant: Memory does not look at cpuSinAtender and kernelSinAtender.
EsperaATodos(m, p, h) == IF m = "memoria" THEN h \in {"cpu", "kernel"} ELSE h = p
\* The handshakes with which m goes on: Memory takes one client of each kind.
Espera(m, p, h) == IF m = "memoria" THEN h \in sinAtender ELSE h = p

\* The handshake is read and compared.
Leer(m) == \E p \in Puerto :
  /\ Toca(m, "leer", p)
  /\ \E h \in LeeServidor(aceptada[m]) :
       IF Espera(m, p, h)
       THEN /\ con' = [con EXCEPT ![aceptada[m]].rol = h]
            /\ Seguir(m)
            /\ UNCHANGED <<abiertos, socket, aceptada, sinAtender>>
       ELSE Salir(m)
  /\ UNCHANGED muertes

\* The answer. Memory also creates the thread of this client.
Responder(m) == \E p \in Puerto :
  /\ Toca(m, "responder", p)
  /\ con' = [con EXCEPT ![aceptada[m]].respondida = TRUE]
  /\ sinAtender' = IF m = "memoria" THEN sinAtender \ {con[aceptada[m]].rol} ELSE sinAtender
  /\ Seguir(m)
  /\ UNCHANGED <<abiertos, socket, aceptada, muertes>>

-----------------------------------------------------------------------------
Paso(m) ==
  \/ Abrir(m) \/ Conectar(m) \/ Enviar(m) \/ Esperar(m)
  \/ Aceptar(m) \/ Leer(m) \/ Responder(m)
Next == (\E m \in Modulo : Lanzar(m) \/ Paso(m)) \/ (\E ms \in Mortales : Matar(ms))

Spec == Init /\ [][Next]_vars

\* A module that ended is launched again, and what is running runs.
FairSpec == Spec /\ \A m \in Modulo : WF_vars(Lanzar(m)) /\ WF_vars(Paso(m))

-----------------------------------------------------------------------------
(* Properties.                                                             *)

Atendida(h) == socket[h] # 0 /\ con[socket[h]].respondida

\* Nothing went down but all three modules together.
MaquinaEntera == \A k \in DOMAIN muertes : muertes[k] = Modulo

\* Nothing having gone down alone, when the Kernel takes consoles, the CPU and Memory are done
\* with their own start, the CPU with the page sizes of Memory, and all connections were answered.
ArranqueCompleto ==
  MaquinaEntera /\ Atiende("kernel") =>
    Atiende("cpu") /\ Atiende("memoria") /\ \A h \in Handshake : Atendida(h)

\* Whatever the order in which they are launched, a module that gives up leaves nobody behind
\* with a connection to it: it is enough to launch that module again.
Conectada(m) ==
  \E i \in DOMAIN con :
    /\ con[i].cliente \/ con[i].servidor
    /\ m \in {ClienteDe(con[i].handshake), ServidorDe(PuertoDe(con[i].handshake))}
NadieSaleConectado ==
  [][MaquinaEntera /\ muertes' = muertes =>
       \A m \in Modulo : en[m] > 0 /\ en'[m] = 0 => ~Conectada(m)]_vars

\* In whatever order they are launched, and again if the machine goes down, the three
\* modules end up attending.
TodosAtienden == []MaquinaEntera => <>[](\A m \in Modulo : Atiende(m))

\* Memory has at most one thread for the CPU and one for the Kernel, although modules are
\* killed and connect again: its tables are served to one client of each kind.
UnHiloPorRol ==
  \A i, j \in DOMAIN con :
    /\ i # j
    /\ con[i].respondida /\ con[i].servidor /\ PuertoDe(con[i].handshake) = "memoria"
    /\ con[j].respondida /\ con[j].servidor /\ PuertoDe(con[j].handshake) = "memoria"
    => con[i].rol # con[j].rol

\* A Kernel that takes consoles connected to Memory: kernel.c:97 means to say "Error al
\* intentar conectar con módulo Memoria" and exit otherwise.
KernelConMemoria == Atiende("kernel") => socket["kernel"] # 0

\* A Kernel that takes consoles has the port they connect to: kernel.c:116 means to say
\* "Error al intentar iniciar servidor" and exit otherwise.
KernelEscucha == Atiende("kernel") => "escucha" \in abiertos

=============================================================================
