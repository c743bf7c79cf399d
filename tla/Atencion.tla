------------------------------- MODULE Atencion -------------------------------
(***************************************************************************)
(* What the Kernel promises to who launches a Consola: each one is given a *)
(* number nobody else has, and then the end of its process or the refusal  *)
(* of Memory, the one that happened.                                       *)
(***************************************************************************)
EXTENDS Naturals

CONSTANTS Consola

VARIABLES
  numero,      \* numero[c]: the PID, or 0 before it is known
  proceso,     \* proceso[c]: "nada", "sistema", "terminado" or "rechazado"
  resultado    \* resultado[c]: "espera", "atendida" or "rechazada"
vars == <<numero, proceso, resultado>>

Init ==
  /\ numero = [c \in Consola |-> 0]
  /\ proceso = [c \in Consola |-> "nada"]
  /\ resultado = [c \in Consola |-> "espera"]

Numerar(c) ==
  /\ numero[c] = 0
  /\ numero'[c] \in Nat \ {0}
  /\ \A otra \in Consola \ {c} : numero[otra] # numero'[c]
  /\ numero' = [numero EXCEPT ![c] = numero'[c]]
  /\ UNCHANGED <<proceso, resultado>>

Avanzar(c) ==
  /\ \/ proceso[c] = "nada" /\ \E d \in {"sistema", "rechazado"} : proceso' = [proceso EXCEPT ![c] = d]
     \/ proceso[c] = "sistema" /\ proceso' = [proceso EXCEPT ![c] = "terminado"]
  /\ UNCHANGED <<numero, resultado>>

Responder(c) ==
  /\ numero[c] # 0
  /\ resultado[c] = "espera"
  /\ \/ proceso[c] = "terminado" /\ resultado' = [resultado EXCEPT ![c] = "atendida"]
     \/ proceso[c] = "rechazado" /\ resultado' = [resultado EXCEPT ![c] = "rechazada"]
  /\ UNCHANGED <<numero, proceso>>

Next == \E c \in Consola : Numerar(c) \/ Avanzar(c) \/ Responder(c)

Spec == Init /\ [][Next]_vars

=============================================================================
