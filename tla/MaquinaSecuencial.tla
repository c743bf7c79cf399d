-------------------------- MODULE MaquinaSecuencial --------------------------
(***************************************************************************)
(* What the CPU and the Kernel promise together to whoever wrote a script: *)
(* each process runs its instructions one after the other, each of them    *)
(* once, on data nobody else touches, as if it were alone in the machine.  *)
(* An I/O takes it out of the CPU for a while; EXIT ends it.               *)
(***************************************************************************)
EXTENDS Naturals, Sequences

CONSTANTS Proc, Programa, Datos

VARIABLES
  pc,     \* pc[p]: instructions p has executed
  datos,  \* datos[p]: what is at each address of p
  fase    \* fase[p]: "lista", "bloqueada" by an I/O, or "fin"

vars == <<pc, datos, fase>>

Init ==
  /\ pc = [p \in Proc |-> 0]
  /\ datos \in [Proc -> Datos]
  /\ fase = [p \in Proc |-> "lista"]

\* The data after the instruction i: a WRITE stores its second operand, a COPY
\* what the address in its second operand holds.
Resultado(d, i) ==
  CASE i.tipo = "WRITE" -> [d EXCEPT ![i.op1] = i.op2]
    [] i.tipo = "COPY"  -> [d EXCEPT ![i.op1] = d[i.op2]]
    [] OTHER            -> d

FaseTras(i) ==
  CASE i.tipo = "IO" -> "bloqueada" [] i.tipo = "EXIT" -> "fin" [] OTHER -> "lista"

Ejecutar(p) ==
  LET i == Programa[p][pc[p] + 1] IN
  /\ fase[p] = "lista"
  /\ pc' = [pc EXCEPT ![p] = @ + 1]
  /\ datos' = [datos EXCEPT ![p] = Resultado(@, i)]
  /\ fase' = [fase EXCEPT ![p] = FaseTras(i)]

Desbloquear(p) ==
  /\ fase[p] = "bloqueada"
  /\ fase' = [fase EXCEPT ![p] = "lista"]
  /\ UNCHANGED <<pc, datos>>

Next == \E p \in Proc : Ejecutar(p) \/ Desbloquear(p)

Spec == Init /\ [][Next]_vars

\* Nobody is kept from its next instruction for ever.
FairSpec == Spec /\ \A p \in Proc : WF_vars(Ejecutar(p)) /\ WF_vars(Desbloquear(p))

=============================================================================
