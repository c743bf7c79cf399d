----------------------------- MODULE Estimacion -----------------------------
(***************************************************************************)
(* Shortest Remaining Time (kernel/src/scheduler.c): the time of a process *)
(* in the CPU is measured between two readings of the clock, added up over *)
(* the times it is preempted, and folded into its estimate when it blocks; *)
(* the process with the least estimate left is dispatched.                 *)
(*                                                                         *)
(* The estimates are doubles. With at most MaxRafagas blocks, they are     *)
(* kept here multiplied by Escala, so that every average is exact: the     *)
(* rounding of a double is not modelled. Why a process leaves the CPU is   *)
(* module Planificador; here it may at any time.                           *)
(***************************************************************************)
EXTENDS Integers, SequencesExt

CONSTANTS
  Proc,
  EstimacionInicial,    \* ESTIMACION_INICIAL, in milliseconds
  AlfaNum, AlfaDen,     \* ALFA is AlfaNum / AlfaDen
  MsPorSegundo,         \* SECS_TO_MILISECS
  NsPorMs,              \* NANOSECS_TO_MILISECS
  Duracion,             \* the nanoseconds a process may stay in the CPU
  MaxRafagas, MaxTramos \* bounds: blocks of a process, stays in the CPU between two blocks

Ninguno == "ninguno"

ASSUME ProcAssumption == Ninguno \notin Proc
ASSUME RelojAssumption ==
  MsPorSegundo \in Nat \ {0} /\ NsPorMs \in Nat \ {0} /\ Duracion \subseteq Nat
ASSUME AlfaAssumption ==
  EstimacionInicial \in Nat /\ AlfaNum \in Nat /\ AlfaDen \in Nat \ {0} /\ AlfaNum <= AlfaDen
ASSUME CotasAssumption == MaxRafagas \in Nat /\ MaxTramos \in Nat \ {0}

NsPorSegundo == MsPorSegundo * NsPorMs
Suma(b, s) == FoldLeft(+, b, s)
Potencia(b, n) == FoldLeft(LAMBDA x, y : x * y, 1, [k \in 1..n |-> b])
Escala == Potencia(AlfaDen, MaxRafagas)

VARIABLES
  ready,                        \* the list of READY
  ejecutando,                   \* the process in EXEC, or Ninguno
  start,                        \* tv_nsec when it was dispatched
  fuera,                        \* the processes not admitted yet, or in I/O
  estimacionActual, realAnterior, realesEjecutadosHastaAhora,  \* fields of t_pcb
  rafagas,                      \* rafagas[p]: the measured bursts of p until each block (history)
  tramos,                       \* tramos[p]: the measured stays since the last block (history)
  enCpu                         \* enCpu[p]: the nanoseconds p really had since the last block (history)
campos == <<estimacionActual, realAnterior, realesEjecutadosHastaAhora>>
historia == <<rafagas, tramos, enCpu>>
vars == <<ready, ejecutando, start, fuera, campos, historia>>

\* pcb_create
Init ==
  /\ ready = << >> /\ ejecutando = Ninguno /\ start = 0
  /\ fuera = Proc
  /\ estimacionActual = [p \in Proc |-> EstimacionInicial * Escala]
  /\ realAnterior = [p \in Proc |-> 0]
  /\ realesEjecutadosHastaAhora = [p \in Proc |-> 0]
  /\ rafagas = [p \in Proc |-> << >>]
  /\ tramos = [p \in Proc |-> << >>]
  /\ enCpu = [p \in Proc |-> 0]

\* A division in C rounds towards zero.
Cociente(a, b) == IF a >= 0 THEN a \div b ELSE -((-a) \div b)

\* Mutant: the distance between the nanoseconds, forgetting that they may go back.
DiferencialAbsoluto(inicio, d) ==
  LET fin == inicio + d
      nsec == (fin % NsPorSegundo) - inicio
  IN  (fin \div NsPorSegundo) * MsPorSegundo + (IF nsec >= 0 THEN nsec ELSE -nsec) \div NsPorMs
\* The milliseconds between a reading at nanosecond inicio of a second, and another d later.
Diferencial(inicio, d) ==
  LET fin == inicio + d IN
  (fin \div NsPorSegundo) * MsPorSegundo + Cociente((fin % NsPorSegundo) - inicio, NsPorMs)

EstimacionRestante(p) == estimacionActual[p] - realesEjecutadosHastaAhora[p] * Escala
\* Mutant: a tie is for the last one.
MenorEstricta(uno, otro) == IF EstimacionRestante(uno) < EstimacionRestante(otro) THEN uno ELSE otro
MenorRafagaRestante(uno, otro) ==
  IF EstimacionRestante(uno) <= EstimacionRestante(otro) THEN uno ELSE otro
MediaExponencial(real, estimacion) ==
  (AlfaNum * real * Escala + (AlfaDen - AlfaNum) * estimacion) \div AlfaDen

\* A process becomes READY: NEW or the end of its I/O.
Llegar(p) ==
  /\ p \in fuera
  /\ fuera' = fuera \ {p}
  /\ ready' = Append(ready, p)
  /\ UNCHANGED <<ejecutando, start, campos, historia>>

\* elegir_pcb_segun_srt, and the first reading of the clock.
Elegir ==
  LET p == FoldLeft(MenorRafagaRestante, Head(ready), Tail(ready)) IN
  /\ ejecutando = Ninguno /\ ready # << >>
  /\ ejecutando' = p
  /\ ready' = RemoveAt(ready, CHOOSE i \in 1..Len(ready) : ready[i] = p)
  /\ start' \in 0..(NsPorSegundo - 1)
  /\ UNCHANGED <<fuera, campos, historia>>

\* The process in EXEC comes back from the CPU.
Volver(p) ==
  /\ ejecutando = p
  /\ ejecutando' = Ninguno /\ start' = 0
\* actualizar_pcb_por_desalojo, and it is READY again, behind the others.
Desalojar(p, d) ==
  LET real == Diferencial(start, d) IN
  /\ Volver(p) /\ Len(tramos[p]) + 1 < MaxTramos
  /\ realesEjecutadosHastaAhora' = [realesEjecutadosHastaAhora EXCEPT ![p] = @ + real]
  /\ ready' = Append(ready, p)
  /\ tramos' = [tramos EXCEPT ![p] = Append(@, real)]
  /\ enCpu' = [enCpu EXCEPT ![p] = @ + d]
  /\ UNCHANGED <<fuera, estimacionActual, realAnterior, rafagas>>

\* Mutant: the time before the preemptions is not forgotten.
ActualizarSinCero(p, real) ==
  /\ realAnterior' = [realAnterior EXCEPT ![p] = realesEjecutadosHastaAhora[p] + real]
  /\ estimacionActual' = [estimacionActual EXCEPT ![p] = MediaExponencial(realAnterior'[p], @)]
  /\ UNCHANGED realesEjecutadosHastaAhora
\* What the estimate of a process becomes when it blocks: the previous burst is set before.
Actualizar(p, real) ==
  /\ realAnterior' = [realAnterior EXCEPT ![p] = realesEjecutadosHastaAhora[p] + real]
  /\ realesEjecutadosHastaAhora' = [realesEjecutadosHastaAhora EXCEPT ![p] = 0]
  /\ estimacionActual' = [estimacionActual EXCEPT ![p] = MediaExponencial(realAnterior'[p], @)]
Bloquear(p, d) ==
  LET real == Diferencial(start, d) IN
  /\ Volver(p) /\ Len(rafagas[p]) < MaxRafagas
  /\ Actualizar(p, real)
  /\ fuera' = fuera \union {p}
  /\ rafagas' = [rafagas EXCEPT ![p] = Append(@, Suma(real, tramos[p]))]
  /\ tramos' = [tramos EXCEPT ![p] = << >>]
  /\ enCpu' = [enCpu EXCEPT ![p] = 0]
  /\ UNCHANGED ready

\* A process that ends is measured and nothing else.
Terminar(p) == Volver(p) /\ UNCHANGED <<ready, fuera, campos, historia>>

Next ==
  \/ \E p \in Proc : Llegar(p) \/ Terminar(p)
  \/ Elegir
  \/ \E p \in Proc, d \in Duracion : Desalojar(p, d) \/ Bloquear(p, d)

Spec == Init /\ [][Next]_vars

-----------------------------------------------------------------------------
(* Properties.                                                             *)

\* The exponential average in closed form: each burst weighs less than the next, and the
\* initial estimate less than all of them. Multiplied by Escala.
Promedio(rs) ==
  LET n == Len(rs)
      peso(k) == AlfaNum * Potencia(AlfaDen - AlfaNum, n - k) * Potencia(AlfaDen, k - 1)
      suma == Suma(0, [k \in 1..n |-> peso(k) * rs[k]])
  IN  (Potencia(AlfaDen - AlfaNum, n) * EstimacionInicial + suma)
        * Potencia(AlfaDen, MaxRafagas - n)
RestanteDeLaHistoria(p) == Promedio(rafagas[p]) - Suma(0, tramos[p]) * Escala

\* The estimate is the average of the bursts of the process, however preemptions split each.
EstimacionDeLaHistoria == \A p \in Proc : estimacionActual[p] = Promedio(rafagas[p])

\* Who is dispatched has the least left of all in READY, and the others with as little came
\* after it (test_empates_en_srt_degradan_en_un_fifo).
ElegirElMenor ==
  ejecutando = Ninguno /\ ejecutando' # Ninguno =>
    \E i \in 1..Len(ready) :
      /\ ready[i] = ejecutando'
      /\ \A j \in 1..Len(ready) :
           LET r == RestanteDeLaHistoria(ready[i])  s == RestanteDeLaHistoria(ready[j]) IN
           IF j < i THEN r < s ELSE r <= s
SeEligeElMenor == [][ElegirElMenor]_vars

\* The time a process is charged is the time it had, to less than a millisecond for each time
\* it was in the CPU: nanoseconds that go back at the turn of a second are not lost or doubled.
ErrorDeMedicion ==
  \A p \in Proc :
    LET error == realesEjecutadosHastaAhora[p] * NsPorMs - enCpu[p]
        cota == Len(tramos[p]) * (NsPorMs - 1)
    IN  -cota <= error /\ error <= cota

TypeOK ==
  /\ start \in 0..(NsPorSegundo - 1)
  /\ realesEjecutadosHastaAhora \in [Proc -> Int]
  /\ enCpu \in [Proc -> Nat]
  /\ tramos \in [Proc -> Seq(Int)]

=============================================================================
