-------------------------- MODULE AlmacenDePaginas --------------------------
(***************************************************************************)
(* What the CPU, its TLB and Memory promise together to the processes: a   *)
(* private store of pages, where a page holds what its process wrote last, *)
(* wherever it is (a frame, swap, a write on its way) and however often    *)
(* it was replaced or its process suspended.                               *)
(***************************************************************************)
EXTENDS Integers

CONSTANTS Proc, Local, Valor

Indefinido == -1

VARIABLES
  contenido,   \* contenido[p][l]: what p wrote last in its page l
  pedido,      \* the access of the process in execution, and the value it read
  terminados   \* the processes that ended

Pedido == [estado : {"nada", "pendiente", "leido"}, proc : Proc, pagina : Local,
           escribe : BOOLEAN, valor : Valor]

NadaEscrito == [l \in Local |-> Indefinido]

Init ==
  /\ contenido = [p \in Proc |-> NadaEscrito]
  /\ pedido.estado = "nada"
  /\ terminados = {}

Pedir ==
  /\ pedido.estado # "pendiente"
  /\ pedido' \in Pedido
  /\ pedido'.estado = "pendiente" /\ pedido'.proc \notin terminados
  /\ UNCHANGED <<contenido, terminados>>

\* What is written is known when it is: COPY reads it first.
Escribir ==
  /\ pedido.estado = "pendiente" /\ pedido.escribe
  /\ \E v \in Valor : contenido' = [contenido EXCEPT ![pedido.proc][pedido.pagina] = v]
  /\ pedido'.estado = "nada"
  /\ UNCHANGED terminados

\* A page that was never written may hold anything.
Leer ==
  /\ pedido.estado = "pendiente" /\ ~pedido.escribe
  /\ \E v \in Valor :
       /\ contenido[pedido.proc][pedido.pagina] \in {v, Indefinido}
       /\ pedido' = [pedido EXCEPT !.estado = "leido", !.valor = v]
  /\ UNCHANGED <<contenido, terminados>>

\* The process leaves the CPU.
Dejar ==
  /\ pedido.estado = "leido" /\ pedido'.estado = "nada"
  /\ UNCHANGED <<contenido, terminados>>

\* The process ends; nothing else may lose what it wrote.
Olvidar(p) ==
  /\ p \notin terminados
  /\ terminados' = terminados \union {p}
  /\ contenido' = [contenido EXCEPT ![p] = NadaEscrito]
  /\ UNCHANGED pedido

Next == Pedir \/ Leer \/ Escribir \/ Dejar \/ \E p \in Proc : Olvidar(p)

Spec == Init /\ [][Next]_<<contenido, pedido, terminados>>

=============================================================================
