----------------------------- MODULE MCCicloCpu -----------------------------
(* Instances of CicloCpu for TLC.                                          *)
EXTENDS CicloCpu, TLC

CONSTANTS p1, p2

Dos == {p1, p2}
DosDir == {1, 2}
CeroYUno == {0, 1}

I(tipo, a, b) == [tipo |-> tipo, op1 |-> a, op2 |-> b]
\* Every instruction; p2 arrives again while p1 runs.
ProgramaMixto ==
  p1 :> <<I("WRITE", 1, 5), I("COPY", 2, 1), I("IO", 3, 0), I("NO_OP", 0, 0), I("EXIT", 0, 0)>> @@
  p2 :> <<I("READ", 1, 0), I("IO", 4, 0), I("COPY", 1, 2), I("EXIT", 0, 0)>>

=============================================================================
