--------------------------- MODULE ColaDeMensajes ---------------------------
(***************************************************************************)
(* What stream.h promises of a socket: each buffer that one end sends is   *)
(* received by the other end, whole, once and in order.                    *)
(***************************************************************************)
EXTENDS Sequences, SequencesExt

VARIABLES
  pendientes,  \* sent and not received
  entregado    \* the last one received; << >> before the first

vars == <<pendientes, entregado>>

Init == pendientes = << >> /\ entregado = << >>

\* Of any message.
Enviar ==
  /\ pendientes' # << >>
  /\ pendientes' = Append(pendientes, Last(pendientes'))
  /\ UNCHANGED entregado

Recibir ==
  /\ pendientes # << >>
  /\ entregado' = <<Head(pendientes)>>
  /\ pendientes' = Tail(pendientes)

Next == Enviar \/ Recibir

Spec == Init /\ [][Next]_vars
FairSpec == Spec /\ WF_vars(Recibir)

=============================================================================
