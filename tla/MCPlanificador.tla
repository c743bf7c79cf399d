--------------------------- MODULE MCPlanificador ---------------------------
(* Instances of Planificador for TLC.                                      *)
EXTENDS Planificador, TLC

CONSTANTS p1, p2, p3

Dos == {p1, p2}
Tres == {p1, p2, p3}
Vacio == {}
El3 == {p3}

\* Two I/O bound processes and one that only computes.
ProgramaMixto ==
  p1 :> <<"IO_CORTA", "NO_OP", "EXIT">> @@ p2 :> <<"NO_OP", "IO_CORTA", "EXIT">>
    @@ p3 :> <<"NO_OP", "EXIT">>
\* Two bursts of p1, so that a timer may outlive the block it times; p2 is preempted before its own.
ProgramaPermisos ==
  p1 :> <<"IO_CORTA", "IO_LARGA", "EXIT">> @@ p2 :> <<"NO_OP", "IO_LARGA", "EXIT">>
\* One burst each; p3 only computes.
ProgramaBreve ==
  p1 :> <<"IO_CORTA", "EXIT">> @@ p2 :> <<"IO_LARGA", "EXIT">> @@ p3 :> <<"NO_OP", "EXIT">>
ProgramaCarrera ==
  p1 :> <<"IO_CORTA", "EXIT">> @@ p2 :> <<"NO_OP", "EXIT">>
\* consola/instrucciones-de-prueba: SUSPE_1, SUSPE_2 and SUSPE_3
ProgramaSuspe ==
  p1 :> <<"NO_OP", "IO_LARGA", "NO_OP", "EXIT">> @@ p2 :> <<"NO_OP", "IO_CORTA", "NO_OP", "EXIT">>
    @@ p3 :> <<"NO_OP", "EXIT">>

=============================================================================
