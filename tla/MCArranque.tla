----------------------------- MODULE MCArranque -----------------------------
(* Instances of Arranque for TLC.                                          *)
EXTENDS Arranque

Nadie == {}
CualquieraOTodos == {Modulo, {"cpu"}, {"memoria"}}
SoloMemoria == {{"memoria"}}
PuertoEscucha == {"escucha"}

=============================================================================
