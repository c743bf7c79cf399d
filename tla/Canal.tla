-------------------------------- MODULE Canal --------------------------------
(***************************************************************************)
(* A direction of a socket as utils/src/stream.c uses it: stream_send_     *)
(* buffer writes a header, the size and the payload; stream_recv_header    *)
(* and stream_recv_buffer read them with one recv each, which gives what   *)
(* has arrived, be it less than asked for.  The module that has the socket *)
(* gives the messages and says when each end acts: see Guion.              *)
(***************************************************************************)
EXTENDS Naturals, Sequences

CONSTANTS
  TodoJunto,      \* TRUE: the bytes of a message arrive together
  MaxPendientes   \* bound of the model: messages sent and not received

VARIABLES
  enViaje,     \* what of each message has not arrived
  llegados,    \* bytes that arrived and were not read
  lector,      \* the receiver: where it stands, and what it has of the message
  entregado,   \* the last message it took; << >> before the first
  sinRecibir   \* history: the messages sent, less as many as it took

vars == <<enViaje, llegados, lector, entregado, sinRecibir>>

\* A uint32_t, little endian.
Tamanio(n) == <<n % 256, (n \div 256) % 256, (n \div 65536) % 256, (n \div 16777216) % 256>>
Valor(w) == w[1] + 256 * w[2] + 65536 * w[3] + 16777216 * w[4]
Basura == 255
Stream(m) == <<m.header>> \o Tamanio(Len(m.payload)) \o m.payload

Init ==
  /\ enViaje = << >> /\ llegados = << >>
  /\ lector = [en |-> "header", header |-> 0, size |-> 0]
  /\ entregado = << >> /\ sinRecibir = << >>

\* stream_send_buffer of a message [header : byte, payload : sequence of bytes].
Enviar(m) ==
  /\ Len(sinRecibir) < MaxPendientes
  /\ enViaje' = Append(enViaje, Stream(m))
  /\ sinRecibir' = Append(sinRecibir, m)
  /\ UNCHANGED <<llegados, lector, entregado>>

\* The network.
Llegar ==
  /\ enViaje # << >>
  /\ \E k \in 1..Len(Head(enViaje)) :
       /\ TodoJunto => k = Len(Head(enViaje))
       /\ llegados' = llegados \o SubSeq(Head(enViaje), 1, k)
       /\ enViaje' = IF k = Len(Head(enViaje)) THEN Tail(enViaje)
                     ELSE [enViaje EXCEPT ![1] = SubSeq(@, k + 1, Len(@))]
  /\ UNCHANGED <<lector, entregado, sinRecibir>>

\* What recv(n) puts in a buffer that holds previo, and what it leaves in the socket.
Recv(n, previo) ==
  [k \in 1..n |-> IF k <= Len(llegados) THEN llegados[k] ELSE previo[k]]
Quedan(n) == SubSeq(llegados, n + 1, Len(llegados))

\* stream_recv_header
RecibirHeader ==
  /\ lector.en = "header"
  /\ llegados # << >>
  /\ lector' = [lector EXCEPT !.en = "size", !.header = Head(llegados)]
  /\ llegados' = Quedan(1)
  /\ UNCHANGED <<enViaje, entregado, sinRecibir>>

Tomado(payload) ==
  /\ lector' = [lector EXCEPT !.en = "header"]
  /\ entregado' = <<[header |-> lector.header, payload |-> payload]>>
  /\ sinRecibir' = IF sinRecibir = << >> THEN << >> ELSE Tail(sinRecibir)

\* Mutant: the payload is awaited even if it is empty.
SizeYEsperar ==
  /\ lector.en = "size"
  /\ llegados # << >>
  /\ lector' = [lector EXCEPT !.en = "payload", !.size = Valor(Recv(4, Tamanio(0)))]
  /\ llegados' = Quedan(4)
  /\ UNCHANGED <<enViaje, entregado, sinRecibir>>
\* stream_recv_buffer: the size, into a buffer of size 0. An empty payload is not awaited.
RecibirSize ==
  LET size == Valor(Recv(4, Tamanio(0))) IN
  /\ lector.en = "size"
  /\ llegados # << >>
  /\ llegados' = Quedan(4)
  /\ IF size = 0
     THEN Tomado(<< >>)
     ELSE /\ lector' = [lector EXCEPT !.en = "payload", !.size = size]
          /\ UNCHANGED <<entregado, sinRecibir>>
  /\ UNCHANGED enViaje

\* stream_recv_buffer: the payload, into fresh memory. What recv answers is not looked at.
RecibirPayload ==
  /\ lector.en = "payload"
  /\ llegados # << >>
  /\ Tomado(Recv(lector.size, [k \in 1..lector.size |-> Basura]))
  /\ llegados' = Quedan(lector.size)
  /\ UNCHANGED enViaje

Recibir == RecibirHeader \/ RecibirSize \/ RecibirPayload

-----------------------------------------------------------------------------
(* Properties.                                                             *)

Cola == INSTANCE ColaDeMensajes WITH pendientes <- sinRecibir

\* Messages with and without payload share the socket, several may be waiting in it, and the
\* receiver takes each of them whole, once and in order, and in the end all of them.
ImplementaCola == Cola!FairSpec

\* The same without fairness.
RecibeLoEnviado == Cola!Spec

=============================================================================
