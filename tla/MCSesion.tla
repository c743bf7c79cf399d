------------------------------ MODULE MCSesion ------------------------------
(* Instances of Sesion for TLC.                                            *)
EXTENDS Sesion

CONSTANTS c1, c2, c3

Una == {c1}
Dos == {c1, c2}
Tres == {c1, c2, c3}
Ninguna == {}

=============================================================================
