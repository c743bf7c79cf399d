-------------------------- MODULE MCMemoriaVirtual --------------------------
(* Instances of MemoriaVirtual for TLC.                                    *)
EXTENDS MemoriaVirtual

CONSTANTS p1, p2

Uno == {p1}
Dos == {p1, p2}
SoloCero == {0}
Bit == {0, 1}
SoloClock == {"CLOCK"}
LosDos == {"CLOCK", "CLOCK-M"}
Cero == {0}
\* With ENTRADAS = 2: the first page, the last, and one of each second level table
Puntas == {0, 3}
Tres == {0, 1, 3}
=============================================================================
