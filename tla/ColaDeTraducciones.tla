------------------------ MODULE ColaDeTraducciones ------------------------
(***************************************************************************)
(* What the TLB promises the CPU: a bounded list of translations in the    *)
(* order in which they will be replaced, the next victim first. The TLB of *)
(* cpu/src/tlb.c is shown to implement it (module Tlb), and the model of   *)
(* the virtual memory uses it in its place.                                *)
(***************************************************************************)
EXTENDS Naturals, SequencesExt

CONSTANTS
  Paginas,     \* page numbers
  Marcos,      \* frames
  ENTRADAS_TLB

VARIABLES
  orden,       \* the translations, the next victim first
  algoritmo    \* REEMPLAZO_TLB: "FIFO" or "LRU"

Traduccion == [pagina : Paginas, marco : Marcos]

De(cola, p) == {i \in 1..Len(cola) : cola[i].pagina = p}
Tiene(cola, p) == De(cola, p) # {}
Posicion(cola, p) == CHOOSE i \in De(cola, p) : TRUE
Traducida(cola, p) == cola[Posicion(cola, p)]

\* The order after a hit on p: only LRU looks at references.
Referida(cola, p, alg) ==
  IF alg = "FIFO" THEN cola
  ELSE Append(RemoveAt(cola, Posicion(cola, p)), Traducida(cola, p))

\* The order after t was registered.
Registrada(cola, t) ==
  Append(IF Len(cola) = ENTRADAS_TLB THEN Tail(cola) ELSE cola, t)

Init == orden = << >> /\ algoritmo \in {"FIFO", "LRU"}

Acertar(p) == Tiene(orden, p) /\ orden' = Referida(orden, p, algoritmo)
Registrar(t) == ~Tiene(orden, t.pagina) /\ orden' = Registrada(orden, t)
Flush == orden' = << >>

Next ==
  /\ \/ \E p \in Paginas : Acertar(p)
     \/ \E t \in Traduccion : Registrar(t)
     \/ Flush
  /\ UNCHANGED algoritmo

Spec == Init /\ [][Next]_<<orden, algoritmo>>

=============================================================================
