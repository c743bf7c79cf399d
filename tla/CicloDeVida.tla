---------------------------- MODULE CicloDeVida ----------------------------
(***************************************************************************)
(* What the Kernel promises of the processes it schedules: the transitions *)
(* it logs (__log_transition in kernel/src/scheduler.c) and no others, one *)
(* process at a time in EXEC, and no more than GRADO processes admitted.   *)
(***************************************************************************)
EXTENDS Naturals, FiniteSets

CONSTANTS Proc, GRADO

VARIABLE estado

Estados == {"NULL", "NEW", "READY", "EXEC", "BLOCKED", "SUSPENDED_BLOCKED",
            "SUSPENDED_READY", "EXIT", "LIBERADO"}

En(e) == {p \in Proc : estado[p] = e}
\* The processes that count for the degree of multiprogramming.
Admitidos == En("READY") \union En("EXEC") \union En("BLOCKED") \union En("EXIT")

Init == estado = [p \in Proc |-> "NULL"]

Pasar(p, de, a) == estado[p] = de /\ estado' = [estado EXCEPT ![p] = a]

Admitir(p) ==
  /\ Cardinality(Admitidos) < GRADO
  /\ Pasar(p, "NEW", "READY") \/ Pasar(p, "SUSPENDED_READY", "READY")

Despachar(p) == En("EXEC") = {} /\ Pasar(p, "READY", "EXEC")

Next ==
  \E p \in Proc :
    \/ Pasar(p, "NULL", "NEW")
    \/ Admitir(p)
    \/ Despachar(p)
    \/ \E a \in {"READY", "BLOCKED", "EXIT"} : Pasar(p, "EXEC", a)
    \/ Pasar(p, "BLOCKED", "READY")
    \/ Pasar(p, "BLOCKED", "SUSPENDED_BLOCKED")
    \/ Pasar(p, "SUSPENDED_BLOCKED", "SUSPENDED_READY")
    \/ Pasar(p, "EXIT", "LIBERADO")

Spec == Init /\ [][Next]_estado

=============================================================================
