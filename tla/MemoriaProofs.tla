---------------------------- MODULE MemoriaProofs ----------------------------
(***************************************************************************)
(* Theorems about Memoria, as MemoriaVirtual uses it, for any numbers of   *)
(* processes, tables, entries and frames, both clock algorithms, and       *)
(* writes that the Kernel may overtake.                                    *)
(***************************************************************************)
EXTENDS MemoriaVirtual, SequenceTheorems, FiniteSetTheorems, WellFoundedInduction, TLAPS

-----------------------------------------------------------------------------
(* Quotients, remainders and products.                                     *)

\* Quotient and remainder, as C computes them for naturals.
LEMMA Division ==
  ASSUME NEW b \in Nat \ {0}, NEW a \in Nat
  PROVE  a \div b \in Nat /\ a % b \in 0..(b - 1) /\ a = (a \div b) * b + (a % b)
  OBVIOUS

\* The quotient and the remainder of a number written in base b are its digits.
LEMMA Cociente ==
  ASSUME NEW b \in Nat \ {0}, NEW q \in Nat, NEW r \in Nat, r < b
  PROVE  (q * b + r) \div b = q /\ (q * b + r) % b = r
  OBVIOUS

\* Multiplying keeps the order.
LEMMA MenorIgual ==
  ASSUME NEW b \in Nat, NEW p \in Nat, NEW q \in Nat, p <= q
  PROVE  p * b <= q * b /\ p * b \in Nat
  OBVIOUS

\* The ranges of b items that begin at p * b and at q * b do not meet.
LEMMA Producto ==
  ASSUME NEW b \in Nat, NEW p \in Nat, NEW q \in Nat, p < q
  PROVE  p * b + b <= q * b /\ p * b \in Nat /\ q * b \in Nat
  OBVIOUS

\* An address under c * b is in one of the c items of b bytes.
LEMMA Menor ==
  ASSUME NEW b \in Nat \ {0}, NEW c \in Nat, NEW a \in Nat, a < c * b
  PROVE  a \div b \in 0..(c - 1)
  <1>1. a \div b \in Nat /\ a % b \in 0..(b - 1) /\ a = (a \div b) * b + (a % b)
    BY Division
  <1>2. a \div b < c
    <2> SUFFICES ASSUME c <= a \div b PROVE FALSE
      BY <1>1
    <2>1. c * b <= (a \div b) * b /\ c * b \in Nat
      BY <1>1, MenorIgual
    <2>2. (a \div b) * b \in Nat
      BY <1>1, MenorIgual
    <2>3. (a \div b) * b <= a
      BY <1>1, <2>2
    <2>4. QED
      BY <2>1, <2>2, <2>3
  <1>3. QED
    BY <1>1, <1>2

\* The product that the numbering of tables, pages and bytes expands.
LEMMA Distributiva ==
  ASSUME NEW b \in Nat, NEW p \in Nat, NEW q \in Nat
  PROVE  (p * b + q) * b = p * (b * b) + q * b
  OBVIOUS

\* An item of the table i of e tables of e items each, by its number in the table.
LEMMA Numeracion ==
  ASSUME NEW e \in Nat \ {0}, NEW i \in Nat, NEW l \in Nat
  PROVE  (i * e + (l \div e)) * e + (l % e) = i * (e * e) + l
  <1> DEFINE a == l \div e
             r == l % e
             u == i * (e * e)
             v == a * e
  <1>1. a \in Nat /\ r \in Nat /\ l = a * e + r
    BY Division
  <1> HIDE DEF a, r
  <1>2. (i * e + a) * e = u + v
    BY <1>1, Distributiva
  <1>3. u \in Nat /\ v \in Nat
    BY <1>1, MenorIgual
  <1> HIDE DEF u, v
  <1>4. (u + v) + r = u + (v + r)
    BY <1>1, <1>3
  <1>5. v + r = l
    BY <1>1 DEF v
  <1>6. (i * e + a) * e + r = u + l
    BY <1>2, <1>4, <1>5, Zenon
  <1>7. QED
    BY <1>6 DEF a, r, u

\* The number of an item in a table of tables.
LEMMA NumeroEnTabla ==
  ASSUME NEW b \in Nat \ {0}, NEW n \in Nat, NEW q \in 0..(n - 1), NEW r \in 0..(b - 1)
  PROVE  q * b + r \in 0..(n * b - 1)
  <1>1. q * b + b <= n * b /\ q * b \in Nat
    BY Producto
  <1>2. QED
    BY <1>1

-----------------------------------------------------------------------------
(* Minima and maxima.                                                      *)

\* A set of integers that is not empty and has a lower bound has a minimum, which Min
\* chooses: of the intervals from the bound to each member, one is inside all the others.
LEMMA Minimo ==
  ASSUME NEW b \in Int, NEW T \in SUBSET Int, T # {}, \A y \in T : b <= y
  PROVE  Min(T) \in T /\ \A y \in T : Min(T) <= y
<1>1. PICK x0 \in T : TRUE
  OBVIOUS
<1> DEFINE S == b..x0
           Bajos == {t \in T : t <= x0}
           F == {b..t : t \in Bajos}
           R == StrictSubsetOrdering(S)
<1>2. IsWellFoundedOn(R, SUBSET S)
  <2>1. IsFiniteSet(S)
    BY <1>1, FS_Interval
  <2> HIDE DEF S
  <2> QED BY <2>1, FS_FiniteSubsetsOfFinite, FS_StrictSubsetOrderingWellFounded
<1>3. F \subseteq SUBSET S /\ F # {}
  <2>1. x0 \in Bajos
    BY <1>1
  <2>2. \A t \in Bajos : b..t \subseteq S
    BY <1>1
  <2> QED BY <2>1, <2>2
<1>4. PICK I \in F : \A J \in F : <<J, I>> \notin R
  <2> HIDE DEF F, R, S
  <2> QED BY <1>2, <1>3, WFMin
<1>5. PICK x \in Bajos : I = b..x
  BY <1>4
<1>6. \A y \in T : x <= y
  <2> SUFFICES ASSUME NEW y \in T, y < x PROVE FALSE
    BY <1>1, <1>5
  <2>1. y \in Bajos /\ b..y \in F
    BY <1>1, <1>5
  <2>2. b..y \subseteq I /\ b..y # I
    <3>1. x \in I /\ x \notin b..y
      BY <1>5
    <3> QED BY <3>1, <1>5
  <2>3. b..y \in SUBSET S /\ I \in SUBSET S
    BY <1>3, <1>4, <2>1
  <2>4. <<b..y, I>> \in R
    BY <2>2, <2>3 DEF StrictSubsetOrdering
  <2> QED BY <1>4, <2>1, <2>4
<1>7. x \in T
  BY <1>5
<1> HIDE DEF Bajos
<1>8. \E m \in T : \A y \in T : m <= y
  BY <1>6, <1>7
<1> QED BY <1>8 DEF Min

\* A set of integers that is not empty and has an upper bound has a maximum: its opposite has
\* a minimum.
LEMMA Maximo ==
  ASSUME NEW b \in Int, NEW T \in SUBSET Int, T # {}, \A y \in T : y <= b
  PROVE  Max(T) \in T /\ \A y \in T : y <= Max(T)
<1> DEFINE U == {-t : t \in T}
<1>1. -b \in Int /\ U \in SUBSET Int /\ \A u \in U : -b <= u
  OBVIOUS
<1>2. U # {}
  <2>1. PICK t \in T : TRUE
    OBVIOUS
  <2>2. -t \in U
    OBVIOUS
  <2> QED BY <2>2
<1>3. Min(U) \in U /\ \A u \in U : Min(U) <= u
  <2> HIDE DEF U
  <2> QED BY <1>1, <1>2, Minimo
<1>4. PICK x \in T : Min(U) = -x
  BY <1>3
<1>5. \A y \in T : x >= y
  <2> SUFFICES ASSUME NEW y \in T PROVE x >= y
    OBVIOUS
  <2>1. -y \in U
    OBVIOUS
  <2>2. -x <= -y
    BY <1>3, <1>4, <2>1
  <2> QED BY <2>2
<1>6. Max(T) \in T /\ \A y \in T : Max(T) >= y
  BY <1>5 DEF Max
<1>7. Max(T) \in Int /\ T \in SUBSET Int
  BY <1>6
<1> QED BY <1>6, <1>7

-----------------------------------------------------------------------------
(* Lists.                                                                  *)

\* Taking an element out of a list leaves a list one shorter.
LEMMA RemoveAtProperties ==
  ASSUME NEW S, NEW s \in Seq(S), NEW i \in 1..Len(s)
  PROVE  RemoveAt(s, i) \in Seq(S) /\ Len(RemoveAt(s, i)) = Len(s) - 1
<1> DEFINE antes == SubSeq(s, 1, i-1)
           despues == SubSeq(s, i+1, Len(s))
<1>1. Len(s) \in Nat /\ i - 1 \in Nat
  BY LenProperties
<1>2. antes \in Seq(S) /\ Len(antes) = i - 1
  BY <1>1, SubSeqProperties
<1>3. despues \in Seq(S) /\ Len(despues) = Len(s) - i
  BY <1>1, SubSeqProperties
<1> HIDE DEF antes, despues
<1>4. antes \o despues \in Seq(S) /\ Len(antes \o despues) = Len(antes) + Len(despues)
  BY <1>2, <1>3, ConcatProperties
<1>5. Len(antes \o despues) = Len(s) - 1
  BY <1>1, <1>2, <1>3, <1>4
<1> QED BY <1>4, <1>5 DEF RemoveAt, antes, despues

\* Each element that is left is where it was, or one place before.
LEMMA RemoveAtElementos ==
  ASSUME NEW S, NEW s \in Seq(S), NEW i \in 1..Len(s)
  PROVE  \A j \in 1..(Len(s) - 1) : RemoveAt(s, i)[j] = IF j < i THEN s[j] ELSE s[j + 1]
<1> DEFINE antes == SubSeq(s, 1, i-1)
           despues == SubSeq(s, i+1, Len(s))
           n == Len(s)
<1>1. n \in Nat /\ i \in 1..n /\ i - 1 \in Nat
  BY LenProperties
<1>2. antes \in Seq(S) /\ Len(antes) = i - 1 /\ \A j \in 1..(i - 1) : antes[j] = s[j]
  BY <1>1, SubSeqProperties
<1>3. despues \in Seq(S) /\ Len(despues) = n - i /\ \A j \in 1..(n - i) : despues[j] = s[i + j]
  BY <1>1, SubSeqProperties
<1>4. RemoveAt(s, i) = antes \o despues
  BY DEF RemoveAt
<1> HIDE DEF antes, despues, n
<1>5. \A j \in 1..(Len(antes) + Len(despues)) :
        (antes \o despues)[j] = IF j <= Len(antes) THEN antes[j] ELSE despues[j - Len(antes)]
  BY <1>2, <1>3, ConcatProperties
<1>6. ASSUME NEW j \in 1..(n - 1), j < i PROVE (antes \o despues)[j] = s[j]
  BY <1>1, <1>2, <1>3, <1>5, <1>6
<1>7. ASSUME NEW j \in 1..(n - 1), ~(j < i) PROVE (antes \o despues)[j] = s[j + 1]
  <2>1. j - (i - 1) \in 1..(n - i) /\ i + (j - (i - 1)) = j + 1 /\ ~(j <= i - 1)
    BY <1>1, <1>7
  <2>2. (antes \o despues)[j] = despues[j - (i - 1)]
    BY <1>1, <1>2, <1>3, <1>5, <2>1
  <2>3. despues[j - (i - 1)] = s[i + (j - (i - 1))]
    BY <1>3, <2>1
  <2> QED BY <2>1, <2>2, <2>3
<1> QED BY <1>4, <1>6, <1>7 DEF n

-----------------------------------------------------------------------------
(* The numbers of pages and frames.                                        *)

EE == ENTRADAS * ENTRADAS

\* A process may have pages, and all of them together are those of each, as many times.
LEMMA Tamanios ==
  /\ EE \in Nat \ {0} /\ TABLAS \in Nat \ {0} /\ MARCOS \in Nat \ {0} /\ ENTRADAS \in Nat \ {0}
  /\ Local = 0..(EE - 1) /\ Pagina = 0..(TABLAS * EE - 1)
<1>1. ENTRADAS * ENTRADAS \in Nat /\ ENTRADAS * ENTRADAS >= 1
  BY TamaniosAssumption
<1>2. TABLAS * ENTRADAS * ENTRADAS = TABLAS * (ENTRADAS * ENTRADAS)
  BY TamaniosAssumption
<1> QED BY <1>1, <1>2, TamaniosAssumption DEF EE, Local, Pagina

\* The page of an entry of a process, its table and its number in it.
LEMMA PaginaDeEntrada ==
  ASSUME NEW i \in Tablas, NEW l \in Local
  PROVE  /\ PaginaDe(i, l) \in Pagina
         /\ TablaDe(PaginaDe(i, l)) = i
         /\ Indice(PaginaDe(i, l)) = l
<1>1. i \in 0..(TABLAS - 1) /\ l \in 0..(EE - 1)
  BY Tamanios DEF Tablas
<1>2. i \in Nat /\ l \in Nat /\ l < EE /\ EE \in Nat \ {0} /\ TABLAS \in Nat
  BY <1>1, Tamanios
<1>3. PaginaDe(i, l) = i * EE + l
  BY <1>2, Tamanios, Numeracion DEF PaginaDe, EE
<1>4. i * EE + l \in 0..(TABLAS * EE - 1)
  BY <1>1, <1>2, NumeroEnTabla
<1>5. (i * EE + l) \div EE = i /\ (i * EE + l) % EE = l
  BY <1>2, Cociente
<1> QED BY <1>3, <1>4, <1>5, Tamanios DEF TablaDe, Indice, EE

\* Every page is that of an entry of a table.
LEMMA EntradaDePagina ==
  ASSUME NEW n \in Pagina
  PROVE  /\ TablaDe(n) \in Tablas /\ Indice(n) \in Local
         /\ n = PaginaDe(TablaDe(n), Indice(n))
         /\ \A i \in Tablas : n \in PaginasDe(i) <=> TablaDe(n) = i
<1> DEFINE q == n \div EE
           l == n % EE
<1>1. n \in Nat /\ n < TABLAS * EE
  <2>1. TABLAS * EE \in Nat
    BY Tamanios
  <2> QED BY <2>1, Tamanios
<1>2. q \in 0..(TABLAS - 1)
  BY <1>1, Tamanios, Menor
<1>3. l \in 0..(EE - 1) /\ n = q * EE + l
  BY <1>1, Tamanios, Division
<1>4. TablaDe(n) = q /\ Indice(n) = l /\ q \in Tablas /\ l \in Local
  BY <1>2, <1>3, Tamanios DEF TablaDe, Indice, EE, Tablas
<1> HIDE DEF q, l
<1>5. n = PaginaDe(q, l)
  <2>1. q \in Nat /\ l \in Nat
    BY <1>2, <1>3, Tamanios
  <2> QED BY <1>3, <2>1, Tamanios, Numeracion DEF PaginaDe, EE
<1> QED BY <1>4, <1>5, PaginaDeEntrada DEF PaginasDe

\* The frames of a table are frames, and of no other table.
LEMMA MarcosDeTabla ==
  ASSUME NEW i \in Tablas
  PROVE  /\ MarcosDe(i) \subseteq Marco
         /\ \A k \in 0..(MARCOS - 1) : PrimerMarco(i) + k \in MarcosDe(i)
         /\ \A f \in MarcosDe(i) : f - PrimerMarco(i) \in 0..(MARCOS - 1) /\ f \in Int
         /\ PrimerMarco(i) \in Nat
         /\ \A j \in Tablas : j # i => MarcosDe(i) \intersect MarcosDe(j) = {}
<1>1. i \in Nat /\ i < TABLAS
  BY Tamanios DEF Tablas
<1>2. i * MARCOS \in Nat /\ TABLAS * MARCOS \in Nat /\ i * MARCOS + MARCOS <= TABLAS * MARCOS
  BY <1>1, Tamanios, Producto
<1>3. ASSUME NEW j \in Tablas, j # i PROVE MarcosDe(i) \intersect MarcosDe(j) = {}
  <2>1. j \in Nat
    BY Tamanios DEF Tablas
  <2>2. CASE i < j
    <3>1. i * MARCOS + MARCOS <= j * MARCOS /\ j * MARCOS \in Nat
      BY <1>1, <2>1, <2>2, Tamanios, Producto
    <3> QED BY <1>2, <3>1, Tamanios DEF MarcosDe, PrimerMarco
  <2>3. CASE j < i
    <3>1. j * MARCOS + MARCOS <= i * MARCOS /\ j * MARCOS \in Nat
      BY <1>1, <2>1, <2>3, Tamanios, Producto
    <3> QED BY <1>2, <3>1, Tamanios DEF MarcosDe, PrimerMarco
  <2> QED BY <1>1, <1>3, <2>1, <2>2, <2>3
<1>4. MarcosDe(i) \subseteq Marco
  BY <1>2, Tamanios DEF MarcosDe, PrimerMarco, Marco
<1>5. PrimerMarco(i) \in Nat
  BY <1>2 DEF PrimerMarco
<1>6. /\ \A k \in 0..(MARCOS - 1) : PrimerMarco(i) + k \in MarcosDe(i)
      /\ \A f \in MarcosDe(i) : f - PrimerMarco(i) \in 0..(MARCOS - 1) /\ f \in Int
  BY <1>5, Tamanios DEF MarcosDe
<1> QED BY <1>3, <1>4, <1>5, <1>6

\* A set of frames, tables or places has its minimum.
LEMMA MinimoDeNaturales ==
  ASSUME NEW T \in SUBSET Nat, T # {}
  PROVE  Min(T) \in T
<1>1. 0 \in Int /\ T \in SUBSET Int /\ \A t \in T : 0 <= t
  OBVIOUS
<1> QED BY <1>1, Minimo

-----------------------------------------------------------------------------
(* The tables: who has them, and what their cleaning leaves.               *)

MemInv == MemoriaTypeOK /\ UnAlojamiento /\ MarcosCoherentes

\* The table of a process that has one is its own, and the only one.
LEMMA TablaPropia ==
  ASSUME UnAlojamiento, NEW p \in Proc, TieneTabla(p)
  PROVE  /\ TablaNivel1(p) \in Tablas /\ tabla1[TablaNivel1(p)].id = p
         /\ \A i \in Tablas : tabla1[i].id = p => i = TablaNivel1(p)
<1>1. TablaNivel1(p) \in Tablas /\ tabla1[TablaNivel1(p)].id = p
  BY DEF TieneTabla, TablaNivel1
<1> QED BY <1>1, ProcAssumption DEF UnAlojamiento, Libre

\* The first free table is a free table.
LEMMA PrimeraTablaLibre ==
  ASSUME TablasLibres # {}
  PROVE  Min(TablasLibres) \in Tablas /\ tabla1[Min(TablasLibres)].id = Libre
<1>1. TablasLibres \in SUBSET Nat
  BY Tamanios DEF TablasLibres, Tablas
<1>2. Min(TablasLibres) \in TablasLibres
  BY <1>1, MinimoDeNaturales
<1> QED BY <1>2 DEF TablasLibres

\* Both levels of the tables of i and its frames are cleaned, and those of the others are not.
LEMMA PasoLimpiarTablas ==
  ASSUME MemInv, NEW i \in Tablas, LimpiarTablas(i)
  PROVE  /\ tabla1' \in [Tablas -> [id : Proc \union {Libre}, puntero : Local]]
         /\ tabla2' \in [Pagina -> EntradaNivel2]
         /\ marcos' \in [Marco -> [enUso : BOOLEAN, pagina : Pagina \union {SinPagina}]]
         /\ tabla1'[i].id = Libre /\ \A j \in Tablas : j # i => tabla1'[j] = tabla1[j]
         /\ MarcosCoherentes'
<1>1. tabla1' = [tabla1 EXCEPT ![i] = [id |-> Libre, puntero |-> 0]]
      /\ tabla1 \in [Tablas -> [id : Proc \union {Libre}, puntero : Local]]
  BY DEF LimpiarTablas, MemInv, MemoriaTypeOK
<1>2. 0 \in Local
  BY Tamanios
<1>3. /\ tabla1' \in [Tablas -> [id : Proc \union {Libre}, puntero : Local]]
      /\ tabla1'[i].id = Libre /\ \A j \in Tablas : j # i => tabla1'[j] = tabla1[j]
  BY <1>1, <1>2
<1>4. EntradaVacia \in EntradaNivel2 /\ EntradaVacia.presencia = FALSE
  BY DEF EntradaVacia, EntradaNivel2
<1>5. /\ tabla2' \in [Pagina -> EntradaNivel2]
      /\ \A n \in Pagina : tabla2'[n] = IF n \in PaginasDe(i) THEN EntradaVacia ELSE tabla2[n]
  BY <1>4 DEF LimpiarTablas, MemInv, MemoriaTypeOK
<1>6. /\ marcos' \in [Marco -> [enUso : BOOLEAN, pagina : Pagina \union {SinPagina}]]
      /\ \A f \in Marco : marcos'[f] = IF f \in MarcosDe(i) THEN [enUso |-> FALSE, pagina |-> SinPagina]
                                                             ELSE marcos[f]
  BY DEF LimpiarTablas, MemInv, MemoriaTypeOK
<1>7. ASSUME NEW f \in Marco, marcos'[f].enUso
      PROVE  /\ marcos'[f].pagina \in Pagina
             /\ tabla2'[marcos'[f].pagina].presencia /\ tabla2'[marcos'[f].pagina].marco = f
             /\ f \in MarcosDe(TablaDe(marcos'[f].pagina))
  <2>1. f \notin MarcosDe(i) /\ marcos'[f] = marcos[f]
    BY <1>6, <1>7
  <2> DEFINE n == marcos[f].pagina
  <2>2. /\ n \in Pagina /\ tabla2[n].presencia /\ tabla2[n].marco = f
        /\ f \in MarcosDe(TablaDe(n))
    BY <1>7, <2>1 DEF MemInv, MarcosCoherentes
  <2>3. n \notin PaginasDe(i)
    BY <2>1, <2>2, EntradaDePagina
  <2> QED BY <1>5, <2>1, <2>2, <2>3
<1>8. ASSUME NEW n \in Pagina, tabla2'[n].presencia
      PROVE  /\ tabla1'[TablaDe(n)].id # Libre
             /\ tabla2'[n].marco \in Marco
             /\ marcos'[tabla2'[n].marco] = [enUso |-> TRUE, pagina |-> n]
  <2>1. n \notin PaginasDe(i) /\ tabla2'[n] = tabla2[n]
    BY <1>4, <1>5, <1>8
  <2>2. TablaDe(n) \in Tablas /\ TablaDe(n) # i
    BY <2>1, EntradaDePagina
  <2> DEFINE f == tabla2[n].marco
  <2>3. tabla1[TablaDe(n)].id # Libre /\ f \in Marco /\ marcos[f] = [enUso |-> TRUE, pagina |-> n]
    BY <1>8, <2>1 DEF MemInv, MarcosCoherentes
  <2>4. f \in MarcosDe(TablaDe(n))
    BY <2>3 DEF MemInv, MarcosCoherentes
  <2>5. f \notin MarcosDe(i)
    BY <2>2, <2>4, MarcosDeTabla
  <2> QED BY <1>3, <1>6, <2>1, <2>2, <2>3, <2>5
<1>9. MarcosCoherentes'
  BY <1>7, <1>8 DEF MarcosCoherentes
<1> QED BY <1>3, <1>5, <1>6, <1>9

-----------------------------------------------------------------------------
(* The requests of the Kernel.                                             *)

\* The other processes keep their tables and their place among the suspended ones.
Ajenos(p) ==
  \A q \in Proc : q # p =>
    /\ \A j \in Tablas : tabla1'[j].id = q <=> tabla1[j].id = q
    /\ EstaSuspendido(q)' <=> EstaSuspendido(q)

\* HEADER_solicitud_tabla_paginas
LEMMA PasoCrearProceso ==
  ASSUME MemInv, NEW p \in Proc, CrearProceso(p), algoritmo' = algoritmo,
         ~TieneTabla(p), ~EstaSuspendido(p)
  PROVE  MemInv' /\ Ajenos(p) /\ TieneTabla(p)'
<1> DEFINE i == Min(TablasLibres)
<1>1. i \in Tablas /\ tabla1[i].id = Libre
  BY PrimeraTablaLibre DEF CrearProceso
<1>2. /\ tabla1' = [tabla1 EXCEPT ![i].id = p]
      /\ swap' = [swap EXCEPT ![p] = [l \in Local |-> 0]]
      /\ UNCHANGED <<tabla2, marcos, ram, suspendidos, algoritmo>>
  BY DEF CrearProceso
<1> HIDE DEF i
<1>3. tabla1 \in [Tablas -> [id : Proc \union {Libre}, puntero : Local]]
  BY DEF MemInv, MemoriaTypeOK
<1>4. /\ tabla1' \in [Tablas -> [id : Proc \union {Libre}, puntero : Local]]
      /\ tabla1'[i].id = p /\ \A j \in Tablas : j # i => tabla1'[j].id = tabla1[j].id
  BY <1>1, <1>2, <1>3
<1>5. swap' \in [Proc -> [Local -> Valor]]
  BY <1>2, ValorAssumption DEF MemInv, MemoriaTypeOK
<1>6. MemoriaTypeOK'
  BY <1>2, <1>4, <1>5 DEF MemInv, MemoriaTypeOK, EstaSuspendido
<1>7. MarcosCoherentes'
  <2>1. \A j \in Tablas : tabla1[j].id # Libre => tabla1'[j].id # Libre
    BY <1>1, <1>4
  <2> QED BY <1>2, <2>1, EntradaDePagina DEF MemInv, MarcosCoherentes
<1>8. UnAlojamiento'
  <2>1. \A j \in Tablas : tabla1[j].id # p
    BY DEF TieneTabla
  <2>2. \A q \in Proc : TieneTabla(q)' => TieneTabla(q) \/ q = p
    BY <1>1, <1>4 DEF TieneTabla
  <2>3. \A q \in Proc : EstaSuspendido(q)' <=> EstaSuspendido(q)
    BY <1>2 DEF EstaSuspendido
  <2>4. ASSUME NEW j \in Tablas, NEW k \in Tablas, tabla1'[j].id # Libre, tabla1'[j].id = tabla1'[k].id
        PROVE  j = k
    BY <1>1, <1>4, <2>1, <2>4 DEF MemInv, UnAlojamiento
  <2> QED BY <2>2, <2>3, <2>4 DEF MemInv, UnAlojamiento
<1>9. Ajenos(p)
  BY <1>1, <1>2, <1>4, ProcAssumption DEF Ajenos, EstaSuspendido, Libre
<1> QED BY <1>1, <1>4, <1>6, <1>7, <1>8, <1>9 DEF MemInv, TieneTabla

\* The tables of p are cleaned, and p is left without one.
LEMMA PasoLimpiarPropia ==
  ASSUME MemInv, NEW p \in Proc, TieneTabla(p), LimpiarTablas(TablaNivel1(p)),
         \A q \in Proc : q # p => (EstaSuspendido(q)' <=> EstaSuspendido(q))
  PROVE  UnAlojamiento' /\ Ajenos(p) /\ ~TieneTabla(p)'
<1> DEFINE i == TablaNivel1(p)
<1>1. i \in Tablas /\ tabla1[i].id = p /\ \A j \in Tablas : tabla1[j].id = p => j = i
  BY TablaPropia DEF MemInv
<1>2. tabla1'[i].id = Libre /\ \A j \in Tablas : j # i => tabla1'[j] = tabla1[j]
  BY <1>1, PasoLimpiarTablas
<1> HIDE DEF i
<1>3. ~TieneTabla(p)'
  BY <1>1, <1>2, ProcAssumption DEF TieneTabla, Libre
<1>4. Ajenos(p)
  BY <1>1, <1>2, ProcAssumption DEF Ajenos, Libre
<1>5. \A j, k \in Tablas : tabla1'[j].id # Libre /\ tabla1'[j].id = tabla1'[k].id => j = k
  BY <1>2 DEF MemInv, UnAlojamiento
<1>6. \A q \in Proc : ~(TieneTabla(q)' /\ EstaSuspendido(q)')
  BY <1>3, <1>4 DEF Ajenos, TieneTabla, MemInv, UnAlojamiento
<1> QED BY <1>3, <1>4, <1>5, <1>6 DEF UnAlojamiento

\* HEADER_proceso_suspendido
LEMMA PasoSuspender ==
  ASSUME MemInv, NEW p \in Proc, SuspenderProceso(p), algoritmo' = algoritmo,
         TieneTabla(p) \/ EstaSuspendido(p)
  PROVE  MemInv' /\ Ajenos(p) /\ EstaSuspendido(p)'
<1>1. CASE UNCHANGED memoria /\ EstaSuspendido(p)
  BY <1>1 DEF memoria, MemInv, MemoriaTypeOK, UnAlojamiento, MarcosCoherentes, Ajenos, TieneTabla,
              EstaSuspendido
<1>2. CASE SuspenderAlojado(p)
  <2> DEFINE i == TablaNivel1(p)
             e == [l \in Local |-> tabla2[PaginaDe(i, l)]]
             escritas == {l \in Local : e[l].presencia /\ e[l].modificado}
  <2>1. TieneTabla(p) /\ i \in Tablas
    BY <1>2, TablaPropia DEF SuspenderAlojado, MemInv
  <2>2. /\ swap' = [swap EXCEPT ![p] = [l \in Local |-> IF l \in escritas THEN ram[e[l].marco] ELSE @[l]]]
        /\ ram' = [f \in Marco |-> IF \E l \in Local : e[l].presencia /\ e[l].marco = f THEN 0 ELSE ram[f]]
        /\ suspendidos' = [q \in DOMAIN suspendidos \union {p} |->
                             IF q = p THEN PaginasEnSwap(e) ELSE suspendidos[q]]
        /\ LimpiarTablas(i)
    BY <1>2 DEF SuspenderAlojado
  <2>3. \A l \in Local : e[l].presencia => e[l].marco \in Marco
    BY <2>1, PaginaDeEntrada DEF MemInv, MarcosCoherentes
  <2> HIDE DEF i, e
  <2>4. swap' \in [Proc -> [Local -> Valor]]
    BY <2>2, <2>3 DEF MemInv, MemoriaTypeOK
  <2>5. ram' \in [Marco -> Valor]
    BY <2>2, ValorAssumption DEF MemInv, MemoriaTypeOK
  <2>6. PaginasEnSwap(e) \subseteq Local
    BY DEF PaginasEnSwap
  <2>7. DOMAIN suspendidos' = DOMAIN suspendidos \union {p}
    BY <2>2
  <2>8. DOMAIN suspendidos' \subseteq Proc /\ \A q \in DOMAIN suspendidos' : suspendidos'[q] \subseteq Local
    BY <2>2, <2>6, <2>7 DEF MemInv, MemoriaTypeOK
  <2>9. EstaSuspendido(p)' /\ \A q \in Proc : q # p => (EstaSuspendido(q)' <=> EstaSuspendido(q))
    BY <2>7 DEF EstaSuspendido
  <2>10. UnAlojamiento' /\ Ajenos(p)
    BY <2>1, <2>2, <2>9, PasoLimpiarPropia DEF i
  <2>11. MemoriaTypeOK' /\ MarcosCoherentes'
    BY <2>1, <2>2, <2>4, <2>5, <2>8, PasoLimpiarTablas DEF MemoriaTypeOK, MemInv
  <2> QED BY <2>9, <2>10, <2>11 DEF MemInv
<1> QED BY <1>1, <1>2 DEF SuspenderProceso

\* HEADER_proceso_terminado
LEMMA PasoTerminarProceso ==
  ASSUME MemInv, NEW p \in Proc, TerminarProceso(p), algoritmo' = algoritmo,
         TieneTabla(p) \/ EstaSuspendido(p)
  PROVE  MemInv' /\ Ajenos(p) /\ ~TieneTabla(p)' /\ ~EstaSuspendido(p)'
<1>1. swap' \in [Proc -> [Local -> Valor]] /\ ram' \in [Marco -> Valor] /\ algoritmo' \in Algoritmos
  BY ValorAssumption DEF TerminarProceso, MemInv, MemoriaTypeOK
<1>2. CASE EstaSuspendido(p)
  <2>1. /\ suspendidos' = [q \in DOMAIN suspendidos \ {p} |-> suspendidos[q]]
        /\ UNCHANGED <<tabla1, tabla2, marcos>>
    BY <1>2 DEF TerminarProceso
  <2>2. DOMAIN suspendidos' = DOMAIN suspendidos \ {p}
    BY <2>1
  <2>3. MemoriaTypeOK'
    BY <1>1, <2>1, <2>2 DEF MemInv, MemoriaTypeOK
  <2>4. MarcosCoherentes'
    BY <2>1 DEF MemInv, MarcosCoherentes
  <2>5. ~TieneTabla(p) /\ \A q \in Proc : TieneTabla(q)' <=> TieneTabla(q)
    BY <1>2, <2>1 DEF TieneTabla, MemInv, UnAlojamiento
  <2>6. ~EstaSuspendido(p)' /\ \A q \in Proc : q # p => (EstaSuspendido(q)' <=> EstaSuspendido(q))
    BY <2>2 DEF EstaSuspendido
  <2>7. UnAlojamiento'
    BY <2>1, <2>5, <2>6 DEF MemInv, UnAlojamiento
  <2>8. Ajenos(p)
    BY <2>1, <2>6 DEF Ajenos
  <2> QED BY <2>3, <2>4, <2>5, <2>6, <2>7, <2>8 DEF MemInv
<1>3. CASE ~EstaSuspendido(p)
  <2>1. TieneTabla(p) /\ LimpiarTablas(TablaNivel1(p)) /\ suspendidos' = suspendidos
    BY <1>3 DEF TerminarProceso
  <2>2. \A q \in Proc : EstaSuspendido(q)' <=> EstaSuspendido(q)
    BY <2>1 DEF EstaSuspendido
  <2>3. UnAlojamiento' /\ Ajenos(p) /\ ~TieneTabla(p)'
    BY <2>1, <2>2, PasoLimpiarPropia
  <2>4. TablaNivel1(p) \in Tablas
    BY <2>1, TablaPropia DEF MemInv
  <2>5. MemoriaTypeOK' /\ MarcosCoherentes'
    BY <1>1, <2>1, <2>4, PasoLimpiarTablas DEF MemoriaTypeOK, MemInv
  <2> QED BY <1>3, <2>2, <2>3, <2>5 DEF MemInv
<1> QED BY <1>2, <1>3

-----------------------------------------------------------------------------
(* The requests of the CPU.                                                *)

\* HEADER_tabla_nivel_2: the process has a table afterwards, and only it was touched.
LEMMA PasoObtenerTablaNivel2 ==
  ASSUME MemInv, NEW p \in Proc, ObtenerTablaNivel2(p), algoritmo' = algoritmo
  PROVE  MemInv' /\ Ajenos(p) /\ TieneTabla(p)'
<1>1. CASE TieneTabla(p) /\ UNCHANGED memoria
  BY <1>1 DEF memoria, MemInv, MemoriaTypeOK, UnAlojamiento, MarcosCoherentes, Ajenos, TieneTabla,
              EstaSuspendido
<1>2. CASE ~TieneTabla(p) /\ DespertarProceso(p)
  <2> DEFINE i == Min(TablasLibres)
  <2>1. i \in Tablas /\ tabla1[i].id = Libre
    BY <1>2, PrimeraTablaLibre DEF DespertarProceso
  <2>2. /\ EstaSuspendido(p)
        /\ tabla1' = [tabla1 EXCEPT ![i].id = p]
        /\ tabla2' = [n \in Pagina |-> IF n \in PaginasDe(i) /\ Indice(n) \in suspendidos[p]
                                       THEN [tabla2[n] EXCEPT !.enSwap = TRUE] ELSE tabla2[n]]
        /\ suspendidos' = [q \in DOMAIN suspendidos \ {p} |-> suspendidos[q]]
        /\ UNCHANGED <<marcos, ram, swap>>
    BY <1>2 DEF DespertarProceso
  <2> HIDE DEF i
  <2>3. tabla1 \in [Tablas -> [id : Proc \union {Libre}, puntero : Local]]
    BY DEF MemInv, MemoriaTypeOK
  <2>4. /\ tabla1' \in [Tablas -> [id : Proc \union {Libre}, puntero : Local]]
        /\ tabla1'[i].id = p /\ \A j \in Tablas : j # i => tabla1'[j].id = tabla1[j].id
    BY <2>1, <2>2, <2>3
  <2>5. /\ tabla2' \in [Pagina -> EntradaNivel2]
        /\ \A n \in Pagina : /\ tabla2'[n].presencia = tabla2[n].presencia
                             /\ tabla2'[n].marco = tabla2[n].marco
    BY <2>2, ZenonT(30) DEF MemInv, MemoriaTypeOK, EntradaNivel2
  <2>6. DOMAIN suspendidos' = DOMAIN suspendidos \ {p}
    BY <2>2
  <2>7. MemoriaTypeOK'
    BY <2>2, <2>4, <2>5, <2>6 DEF MemInv, MemoriaTypeOK
  <2>8. MarcosCoherentes'
    <3>1. \A j \in Tablas : tabla1[j].id # Libre => tabla1'[j].id # Libre
      BY <2>1, <2>4
    <3> QED BY <2>2, <2>5, <3>1, EntradaDePagina DEF MemInv, MarcosCoherentes
  <2>9. Ajenos(p) /\ TieneTabla(p)' /\ ~EstaSuspendido(p)'
    BY <2>1, <2>4, <2>6, ProcAssumption DEF Ajenos, EstaSuspendido, TieneTabla, Libre
  <2>10. UnAlojamiento'
    <3>1. \A j \in Tablas : tabla1[j].id # p
      BY <1>2 DEF TieneTabla
    <3>2. ASSUME NEW j \in Tablas, NEW k \in Tablas, tabla1'[j].id # Libre, tabla1'[j].id = tabla1'[k].id
          PROVE  j = k
      BY <2>1, <2>4, <3>1, <3>2 DEF MemInv, UnAlojamiento
    <3>3. \A q \in Proc : ~(TieneTabla(q)' /\ EstaSuspendido(q)')
      BY <2>9 DEF Ajenos, TieneTabla, MemInv, UnAlojamiento
    <3> QED BY <3>2, <3>3 DEF UnAlojamiento
  <2> QED BY <2>7, <2>8, <2>9, <2>10 DEF MemInv
<1> QED BY <1>1, <1>2 DEF ObtenerTablaNivel2

\* A request that leaves the owners of the tables and the suspended processes as they were
LEMMA MismosDuenios ==
  ASSUME UnAlojamiento, \A j \in Tablas : tabla1'[j].id = tabla1[j].id, suspendidos' = suspendidos
  PROVE  /\ UnAlojamiento'
         /\ \A q \in Proc : (TieneTabla(q)' <=> TieneTabla(q)) /\ (EstaSuspendido(q)' <=> EstaSuspendido(q))
BY DEF UnAlojamiento, TieneTabla, EstaSuspendido

\* swap_in in the frame f of the table of n: what comes has the type of what there was.
LEMMA PasoCargar ==
  ASSUME MemoriaTypeOK, NEW n \in Pagina, NEW f \in Marco, CargarEn(n, f),
         tabla1[TablaDe(n)].id \in Proc
  PROVE  ram' \in [Marco -> Valor] /\ Cargada(n, f) \in EntradaNivel2
<1>1. Indice(n) \in Local
  BY EntradaDePagina
<1>2. swap[tabla1[TablaDe(n)].id][Indice(n)] \in Valor
  BY <1>1 DEF MemoriaTypeOK
<1>3. ram' \in [Marco -> Valor]
  BY <1>2 DEF CargarEn, MemoriaTypeOK
<1>4. Cargada(n, f) \in EntradaNivel2
  BY DEF Cargada, EntradaNivel2, MemoriaTypeOK
<1> QED BY <1>3, <1>4

\* HEADER_marco when there is a free frame: it is of the table of the page.
LEMMA PasoObtenerMarcoLibre ==
  ASSUME MemInv, NEW n \in Pagina, ObtenerMarcoLibre(n), algoritmo' = algoritmo,
         tabla1[TablaDe(n)].id \in Proc
  PROVE  /\ MemInv' /\ suspendidos' = suspendidos
         /\ \A j \in Tablas : tabla1'[j].id = tabla1[j].id
         /\ MarcoObtenido(n) \in Marco
<1> DEFINE i == TablaDe(n)
           f == Min(MarcosLibres(i))
<1>1. i \in Tablas /\ Indice(n) \in Local
  BY EntradaDePagina
<1>2. f \in MarcosDe(i) /\ ~marcos[f].enUso
  <2>1. MarcosLibres(i) # {}
    BY DEF ObtenerMarcoLibre
  <2>2. MarcosLibres(i) \in SUBSET Nat
    BY <1>1, MarcosDeTabla DEF MarcosLibres, Marco
  <2>3. f \in MarcosLibres(i)
    BY <2>1, <2>2, MinimoDeNaturales
  <2> QED BY <2>3 DEF MarcosLibres
<1>3. /\ ~tabla2[n].presencia
      /\ tabla1' = IF f = PrimerMarco(i) THEN [tabla1 EXCEPT ![i].puntero = Indice(n)] ELSE tabla1
      /\ marcos' = [marcos EXCEPT ![f] = [enUso |-> TRUE, pagina |-> n]]
      /\ tabla2' = [tabla2 EXCEPT ![n] = Cargada(n, f)]
      /\ CargarEn(n, f)
      /\ UNCHANGED <<swap, suspendidos, algoritmo>>
  BY DEF ObtenerMarcoLibre
<1> HIDE DEF f, i
<1>4. f \in Marco
  BY <1>1, <1>2, MarcosDeTabla
<1>5. ram' \in [Marco -> Valor] /\ Cargada(n, f) \in EntradaNivel2
  BY <1>3, <1>4, PasoCargar DEF MemInv
<1>6. /\ tabla1' \in [Tablas -> [id : Proc \union {Libre}, puntero : Local]]
      /\ \A j \in Tablas : tabla1'[j].id = tabla1[j].id
  BY <1>1, <1>3 DEF MemInv, MemoriaTypeOK
<1>7. /\ tabla2' \in [Pagina -> EntradaNivel2]
      /\ marcos' \in [Marco -> [enUso : BOOLEAN, pagina : Pagina \union {SinPagina}]]
  BY <1>3, <1>4, <1>5 DEF MemInv, MemoriaTypeOK
<1>8. MemoriaTypeOK'
  BY <1>3, <1>5, <1>6, <1>7 DEF MemInv, MemoriaTypeOK
<1>9. /\ tabla2'[n] = Cargada(n, f) /\ \A m \in Pagina : m # n => tabla2'[m] = tabla2[m]
      /\ marcos'[f] = [enUso |-> TRUE, pagina |-> n] /\ \A g \in Marco : g # f => marcos'[g] = marcos[g]
      /\ Cargada(n, f).presencia /\ Cargada(n, f).marco = f
  BY <1>3, <1>4 DEF MemInv, MemoriaTypeOK, Cargada
<1>10. MarcosCoherentes'
  <2>1. ASSUME NEW g \in Marco, marcos'[g].enUso
        PROVE  /\ marcos'[g].pagina \in Pagina
               /\ tabla2'[marcos'[g].pagina].presencia /\ tabla2'[marcos'[g].pagina].marco = g
               /\ g \in MarcosDe(TablaDe(marcos'[g].pagina))
    <3>1. CASE g = f
      BY <1>2, <1>9, <3>1 DEF i
    <3>2. CASE g # f
      <4>1. marcos'[g] = marcos[g] /\ marcos[g].pagina # n
        BY <1>3, <1>9, <2>1, <3>2 DEF MemInv, MarcosCoherentes
      <4> QED BY <1>9, <2>1, <4>1 DEF MemInv, MarcosCoherentes
    <3> QED BY <3>1, <3>2
  <2>2. ASSUME NEW m \in Pagina, tabla2'[m].presencia
        PROVE  /\ tabla1'[TablaDe(m)].id # Libre /\ tabla2'[m].marco \in Marco
               /\ marcos'[tabla2'[m].marco] = [enUso |-> TRUE, pagina |-> m]
    <3>1. TablaDe(m) \in Tablas
      BY EntradaDePagina
    <3>2. CASE m = n
      BY <1>4, <1>6, <1>9, <3>1, <3>2, ProcAssumption DEF Libre
    <3>3. CASE m # n
      <4>1. tabla2[m].marco # f
        <5>1. tabla2[m].presencia
          BY <1>9, <2>2, <3>3
        <5>2. marcos[tabla2[m].marco] = [enUso |-> TRUE, pagina |-> m]
          BY <5>1 DEF MemInv, MarcosCoherentes
        <5> QED BY <1>2, <5>2
      <4> QED BY <1>6, <1>9, <2>2, <3>1, <3>3, <4>1 DEF MemInv, MarcosCoherentes
    <3> QED BY <3>2, <3>3
  <2> QED BY <2>1, <2>2 DEF MarcosCoherentes
<1>11. UnAlojamiento'
  BY <1>3, <1>6, MismosDuenios DEF MemInv
<1> QED BY <1>3, <1>4, <1>6, <1>8, <1>9, <1>10, <1>11 DEF MemInv, MarcoObtenido

\* The place of the frames where the round of a table starts
LEMMA InicioDeRonda ==
  ASSUME NEW i \in Tablas
  PROVE  LET enPuntero == {c \in 0..(MARCOS - 1) :
                             Indice(marcos[PrimerMarco(i) + c].pagina) = tabla1[i].puntero}
         IN  (IF enPuntero = {} THEN 0 ELSE Max(enPuntero)) \in 0..(MARCOS - 1)
<1> DEFINE enPuntero == {c \in 0..(MARCOS - 1) :
                           Indice(marcos[PrimerMarco(i) + c].pagina) = tabla1[i].puntero}
<1>1. enPuntero \subseteq 0..(MARCOS - 1)
  OBVIOUS
<1> HIDE DEF enPuntero
<1>2. MARCOS \in Int /\ enPuntero \in SUBSET Int /\ \A y \in enPuntero : y <= MARCOS
  BY <1>1, Tamanios
<1>3. enPuntero # {} => Max(enPuntero) \in enPuntero
  BY <1>2, Maximo
<1>4. 0 \in 0..(MARCOS - 1)
  BY Tamanios
<1>5. (IF enPuntero = {} THEN 0 ELSE Max(enPuntero)) \in 0..(MARCOS - 1)
  BY <1>1, <1>3, <1>4
<1> QED BY <1>5 DEF enPuntero

\* The round of a table has pages of its frames, wherever the pointer is.
LEMMA PaginasDeRonda ==
  ASSUME NEW i \in Tablas, NEW k \in 1..MARCOS
  PROVE  \E f \in MarcosDe(i) : Ronda(i)[k] = marcos[f].pagina
<1> DEFINE enPuntero == {c \in 0..(MARCOS - 1) :
                           Indice(marcos[PrimerMarco(i) + c].pagina) = tabla1[i].puntero}
           desde == IF enPuntero = {} THEN 0 ELSE Max(enPuntero)
           c == (desde + k - 1) % MARCOS
<1>1. desde \in 0..(MARCOS - 1)
  BY InicioDeRonda
<1>2. c \in 0..(MARCOS - 1)
  <2>1. desde + k - 1 \in Nat /\ MARCOS \in Nat \ {0}
    BY <1>1, Tamanios
  <2> HIDE DEF desde
  <2> QED BY <2>1, Division
<1>3. Ronda(i)[k] = marcos[PrimerMarco(i) + c].pagina
  BY DEF Ronda
<1> HIDE DEF c
<1> QED BY <1>2, <1>3, MarcosDeTabla

\* Both algorithms choose a place of the round.
LEMMA EleccionEnRonda ==
  ASSUME NEW ronda
  PROVE  SeleccionarVictima(ronda).en \in 1..MARCOS
<1>1. \A T \in SUBSET (1..MARCOS) : T # {} => Min(T) \in 1..MARCOS
  <2> SUFFICES ASSUME NEW T \in SUBSET (1..MARCOS), T # {} PROVE Min(T) \in 1..MARCOS
    OBVIOUS
  <2>1. T \in SUBSET Nat
    OBVIOUS
  <2> QED BY <2>1, MinimoDeNaturales
<1>2. 1 \in 1..MARCOS
  BY Tamanios
<1>3. Clock(ronda).en \in 1..MARCOS
  <2> DEFINE sinUso == {k \in 1..MARCOS : ~tabla2[ronda[k]].uso}
  <2>1. sinUso # {} => Min(sinUso) \in 1..MARCOS
    BY <1>1
  <2> HIDE DEF sinUso
  <2>2. Clock(ronda) = IF sinUso # {} THEN Eleccion(Min(sinUso), 1..(Min(sinUso) - 1))
                                      ELSE Eleccion(1, 1..MARCOS)
    BY DEF Clock, sinUso
  <2> QED BY <1>2, <2>1, <2>2 DEF Eleccion
<1>4. ClockModificado(ronda).en \in 1..MARCOS
  <2> DEFINE sinUso == {k \in 1..MARCOS : ~tabla2[ronda[k]].uso}
             limpias == {k \in 1..MARCOS : ~tabla2[ronda[k]].modificado}
             ambas == sinUso \intersect limpias
  <2>1. /\ sinUso # {} => Min(sinUso) \in 1..MARCOS
        /\ limpias # {} => Min(limpias) \in 1..MARCOS
        /\ ambas # {} => Min(ambas) \in 1..MARCOS
    BY <1>1
  <2>2. ClockModificado(ronda) =
          CASE ambas # {} -> Eleccion(Min(ambas), {})
            [] ambas = {} /\ sinUso # {} -> Eleccion(Min(sinUso), 1..(Min(sinUso) - 1))
            [] sinUso = {} /\ limpias # {} -> Eleccion(Min(limpias), 1..MARCOS)
            [] OTHER -> Eleccion(1, 1..MARCOS)
    BY DEF ClockModificado
  <2>3. ambas \subseteq sinUso
    OBVIOUS
  <2> HIDE DEF sinUso, limpias, ambas
  <2>4. CASE ambas # {}
    BY <2>1, <2>2, <2>3, <2>4 DEF Eleccion
  <2>5. CASE ambas = {} /\ sinUso # {}
    BY <2>1, <2>2, <2>5 DEF Eleccion
  <2>6. CASE sinUso = {} /\ limpias # {}
    BY <2>1, <2>2, <2>3, <2>6 DEF Eleccion
  <2>7. CASE sinUso = {} /\ limpias = {}
    BY <1>2, <2>2, <2>3, <2>7 DEF Eleccion
  <2> QED BY <2>4, <2>5, <2>6, <2>7
<1> QED BY <1>3, <1>4 DEF SeleccionarVictima

\* With no free frame, each page of the round is a present page of the table, in its own frame.
LEMMA PaginasPresentes ==
  ASSUME MemInv, NEW i \in Tablas, MarcosLibres(i) = {}, NEW k \in 1..MARCOS
  PROVE  LET m == Ronda(i)[k] IN
         /\ m \in Pagina /\ tabla2[m].presencia /\ TablaDe(m) = i
         /\ tabla2[m].marco \in MarcosDe(i)
<1>1. PICK f \in MarcosDe(i) : Ronda(i)[k] = marcos[f].pagina
  BY PaginasDeRonda
<1> DEFINE m == marcos[f].pagina
<1>2. f \in Marco /\ marcos[f].enUso
  BY MarcosDeTabla DEF MarcosLibres
<1>3. m \in Pagina /\ tabla2[m].presencia /\ tabla2[m].marco = f /\ f \in MarcosDe(TablaDe(m))
  BY <1>2 DEF MemInv, MarcosCoherentes
<1>4. TablaDe(m) \in Tablas
  BY <1>3, EntradaDePagina
<1>5. TablaDe(m) = i
  BY <1>3, <1>4, MarcosDeTabla
<1> QED BY <1>1, <1>3, <1>5

\* HEADER_marco when there is none free: the page takes the place of the victim, and the
\* victim has none.
LEMMA PasoObtenerMarcoReemplazando ==
  ASSUME MemInv, NEW n \in Pagina, ObtenerMarcoReemplazando(n), algoritmo' = algoritmo,
         tabla1[TablaDe(n)].id \in Proc
  PROVE  /\ MemInv' /\ suspendidos' = suspendidos
         /\ \A j \in Tablas : tabla1'[j].id = tabla1[j].id
         /\ MarcoObtenido(n) \in Marco
<1> DEFINE i == TablaDe(n)
           ronda == Ronda(i)
           eleccion == SeleccionarVictima(ronda)
           victima == ronda[eleccion.en]
           siguiente == ronda[Siguiente(eleccion.en)]
           f == tabla2[victima].marco
           sinUso == {ronda[k] : k \in eleccion.visitadas}
<1>1. i \in Tablas /\ Indice(n) \in Local
  BY EntradaDePagina
<1>2. /\ ~tabla2[n].presencia
      /\ MarcosLibres(i) = {}
      /\ tabla1' = [tabla1 EXCEPT ![i].puntero = Indice(siguiente)]
      /\ tabla2' = [m \in Pagina |->
                      CASE m = n -> Cargada(n, f)
                        [] m = victima -> Descargada(m, tabla2[m].uso /\ m \notin sinUso)
                        [] OTHER -> [tabla2[m] EXCEPT !.uso = @ /\ m \notin sinUso]]
      /\ marcos' = [marcos EXCEPT ![f] = [enUso |-> TRUE, pagina |-> n]]
      /\ swap' = IF tabla2[victima].modificado
                 THEN [swap EXCEPT ![tabla1[i].id][Indice(victima)] = ram[f]] ELSE swap
      /\ CargarEn(n, f)
      /\ UNCHANGED <<suspendidos, algoritmo>>
  BY DEF ObtenerMarcoReemplazando
<1>3. eleccion.en \in 1..MARCOS /\ Siguiente(eleccion.en) \in 1..MARCOS
  <2>1. eleccion.en \in 1..MARCOS
    BY EleccionEnRonda
  <2> HIDE DEF eleccion
  <2>2. eleccion.en \in Nat /\ MARCOS \in Nat \ {0}
    BY <2>1, Tamanios
  <2>3. eleccion.en % MARCOS \in 0..(MARCOS - 1)
    BY <2>2, Division
  <2> QED BY <2>1, <2>2, <2>3 DEF Siguiente
<1> HIDE DEF eleccion, sinUso
<1>4. /\ victima \in Pagina /\ tabla2[victima].presencia /\ TablaDe(victima) = i /\ f \in MarcosDe(i)
      /\ siguiente \in Pagina
  BY <1>1, <1>2, <1>3, PaginasPresentes
<1> HIDE DEF i, ronda, victima, siguiente, f
<1>5. f \in Marco /\ f = tabla2[victima].marco /\ victima # n
  BY <1>1, <1>2, <1>4, MarcosDeTabla DEF f
<1>6. ram' \in [Marco -> Valor] /\ Cargada(n, f) \in EntradaNivel2
  BY <1>2, <1>5, PasoCargar DEF MemInv
<1>7. /\ tabla1' \in [Tablas -> [id : Proc \union {Libre}, puntero : Local]]
      /\ \A j \in Tablas : tabla1'[j].id = tabla1[j].id
  <2>1. Indice(siguiente) \in Local
    BY <1>4, EntradaDePagina
  <2> QED BY <1>1, <1>2, <2>1 DEF MemInv, MemoriaTypeOK
<1>8. /\ tabla2'[n] = Cargada(n, f) /\ tabla2'[n].presencia /\ tabla2'[n].marco = f
      /\ ~tabla2'[victima].presencia
      /\ \A m \in Pagina : m # n /\ m # victima =>
           tabla2'[m].presencia = tabla2[m].presencia /\ tabla2'[m].marco = tabla2[m].marco
  BY <1>2, <1>4, <1>5 DEF MemInv, MemoriaTypeOK, EntradaNivel2, Cargada, Descargada
<1>9. tabla2' \in [Pagina -> EntradaNivel2]
  BY <1>2, <1>6, ZenonT(30) DEF MemInv, MemoriaTypeOK, EntradaNivel2, Descargada
<1>10. /\ marcos' \in [Marco -> [enUso : BOOLEAN, pagina : Pagina \union {SinPagina}]]
       /\ marcos'[f] = [enUso |-> TRUE, pagina |-> n] /\ \A g \in Marco : g # f => marcos'[g] = marcos[g]
  BY <1>2, <1>5 DEF MemInv, MemoriaTypeOK
<1>11. swap' \in [Proc -> [Local -> Valor]]
  <2>1. Indice(victima) \in Local /\ ram[f] \in Valor
    BY <1>4, <1>5, EntradaDePagina DEF MemInv, MemoriaTypeOK
  <2> QED BY <1>2, <2>1 DEF MemInv, MemoriaTypeOK
<1>12. MemoriaTypeOK'
  BY <1>2, <1>6, <1>7, <1>9, <1>10, <1>11 DEF MemInv, MemoriaTypeOK
<1>13. marcos[f] = [enUso |-> TRUE, pagina |-> victima]
  BY <1>4, <1>5 DEF MemInv, MarcosCoherentes
<1>14. MarcosCoherentes'
  <2>1. ASSUME NEW g \in Marco, marcos'[g].enUso
        PROVE  /\ marcos'[g].pagina \in Pagina
               /\ tabla2'[marcos'[g].pagina].presencia /\ tabla2'[marcos'[g].pagina].marco = g
               /\ g \in MarcosDe(TablaDe(marcos'[g].pagina))
    <3>1. CASE g = f
      BY <1>4, <1>8, <1>10, <3>1 DEF i
    <3>2. CASE g # f
      <4> DEFINE m == marcos[g].pagina
      <4>1. marcos'[g] = marcos[g] /\ marcos[g].enUso
        BY <1>10, <2>1, <3>2
      <4>2. m \in Pagina /\ tabla2[m].presencia /\ tabla2[m].marco = g /\ g \in MarcosDe(TablaDe(m))
        BY <4>1 DEF MemInv, MarcosCoherentes
      <4>3. m # n /\ m # victima
        BY <1>2, <1>5, <3>2, <4>2
      <4> QED BY <1>8, <4>1, <4>2, <4>3
    <3> QED BY <3>1, <3>2
  <2>2. ASSUME NEW m \in Pagina, tabla2'[m].presencia
        PROVE  /\ tabla1'[TablaDe(m)].id # Libre /\ tabla2'[m].marco \in Marco
               /\ marcos'[tabla2'[m].marco] = [enUso |-> TRUE, pagina |-> m]
    <3>1. TablaDe(m) \in Tablas
      BY EntradaDePagina
    <3>2. CASE m = n
      BY <1>5, <1>7, <1>8, <1>10, <3>1, <3>2, ProcAssumption DEF Libre
    <3>3. CASE m # n
      <4>1. m # victima /\ tabla2[m].presencia /\ tabla2'[m].marco = tabla2[m].marco
        BY <1>8, <2>2, <3>3
      <4>2. /\ tabla1[TablaDe(m)].id # Libre /\ tabla2[m].marco \in Marco
            /\ marcos[tabla2[m].marco] = [enUso |-> TRUE, pagina |-> m]
        BY <4>1 DEF MemInv, MarcosCoherentes
      <4>3. tabla2[m].marco # f
        BY <1>13, <4>1, <4>2
      <4> QED BY <1>7, <1>10, <3>1, <4>1, <4>2, <4>3
    <3> QED BY <3>2, <3>3
  <2> QED BY <2>1, <2>2 DEF MarcosCoherentes
<1>15. UnAlojamiento'
  BY <1>2, <1>7, MismosDuenios DEF MemInv
<1> QED BY <1>2, <1>5, <1>7, <1>8, <1>12, <1>14, <1>15 DEF MemInv, MarcoObtenido

\* HEADER_marco
LEMMA PasoObtenerMarco ==
  ASSUME MemInv, NEW n \in Pagina, ObtenerMarco(n), algoritmo' = algoritmo,
         tabla1[TablaDe(n)].id \in Proc
  PROVE  /\ MemInv' /\ suspendidos' = suspendidos
         /\ \A j \in Tablas : tabla1'[j].id = tabla1[j].id
         /\ MarcoObtenido(n) \in Marco
<1>1. CASE ObtenerMarcoPresente(n)
  <2>1. UNCHANGED <<memoria, algoritmo>> /\ tabla2[n].presencia
    BY <1>1 DEF ObtenerMarcoPresente
  <2>2. tabla2[n].marco \in Marco
    BY <2>1 DEF MemInv, MarcosCoherentes
  <2> QED BY <2>1, <2>2 DEF memoria, MemInv, MemoriaTypeOK, UnAlojamiento, MarcosCoherentes, TieneTabla,
                           EstaSuspendido, MarcoObtenido
<1> QED BY <1>1, PasoObtenerMarcoLibre, PasoObtenerMarcoReemplazando DEF ObtenerMarco

\* HEADER_read and HEADER_write, in a frame that has a page: only bits of the page change.
LEMMA PasoActualizarPagina ==
  ASSUME MemInv, NEW f \in Marco, NEW esEscritura \in BOOLEAN, ActualizarPagina(f, esEscritura),
         UNCHANGED <<tabla1, marcos, swap, suspendidos, algoritmo>>, ram' \in [Marco -> Valor],
         marcos[f].pagina # SinPagina
  PROVE  MemInv'
<1> DEFINE n == marcos[f].pagina
<1>1. n \in Pagina
  BY DEF MemInv, MemoriaTypeOK
<1> HIDE DEF n
<1>2. tabla2' = [tabla2 EXCEPT ![n].uso = TRUE, ![n].modificado = @ \/ esEscritura]
  BY DEF ActualizarPagina, n
<1>3. /\ tabla2' \in [Pagina -> EntradaNivel2]
      /\ \A m \in Pagina : tabla2'[m].presencia = tabla2[m].presencia /\ tabla2'[m].marco = tabla2[m].marco
  <2>1. tabla2 \in [Pagina -> EntradaNivel2]
    BY DEF MemInv, MemoriaTypeOK
  <2>2. tabla2' = [tabla2 EXCEPT ![n] = [tabla2[n] EXCEPT !.uso = TRUE, !.modificado = @ \/ esEscritura]]
    BY <1>1, <1>2, <2>1 DEF EntradaNivel2
  <2>3. /\ [tabla2[n] EXCEPT !.uso = TRUE, !.modificado = @ \/ esEscritura] \in EntradaNivel2
        /\ [tabla2[n] EXCEPT !.uso = TRUE, !.modificado = @ \/ esEscritura].presencia = tabla2[n].presencia
        /\ [tabla2[n] EXCEPT !.uso = TRUE, !.modificado = @ \/ esEscritura].marco = tabla2[n].marco
    BY <1>1, <2>1 DEF EntradaNivel2
  <2> QED BY <1>1, <2>1, <2>2, <2>3
<1>4. MemoriaTypeOK'
  BY <1>3 DEF MemInv, MemoriaTypeOK
<1>5. MarcosCoherentes'
  BY <1>3 DEF MemInv, MarcosCoherentes
<1>6. UnAlojamiento'
  BY MismosDuenios DEF MemInv
<1> QED BY <1>4, <1>5, <1>6 DEF MemInv

-----------------------------------------------------------------------------
(* The processes of the Kernel.                                            *)

\* Alojados, for one process
Alojado(p) ==
  /\ proceso[p] \in {"nuevo", "liberado"} => ~TieneTabla(p) /\ ~EstaSuspendido(p)
  /\ proceso[p] = "suspendido" => EstaSuspendido(p)
  /\ p \in Admitidos => TieneTabla(p) \/ EstaSuspendido(p)

LEMMA Alojamiento == Alojados <=> \A p \in Proc : Alojado(p)
BY DEF Alojados, Alojado

\* A step that leaves Memory as it was
LEMMA PasoSinMemoria ==
  ASSUME MemInv, UNCHANGED <<memoria, algoritmo>>
  PROVE  /\ MemInv' /\ tabla1' = tabla1
         /\ \A p \in Proc : /\ Ajenos(p) /\ (TieneTabla(p)' <=> TieneTabla(p))
                           /\ (EstaSuspendido(p)' <=> EstaSuspendido(p))
BY DEF memoria, MemInv, MemoriaTypeOK, UnAlojamiento, MarcosCoherentes, Ajenos, TieneTabla, EstaSuspendido

\* The process p goes from one list to another, neither of them that of the CPU, and
\* Memory is told at most about p: whatever the CPU was doing goes on.
LEMMA PasoDelKernel ==
  ASSUME IInv, NEW p \in Proc, NEW de, de # "ejecutando",
         NEW a \in EstadoProceso, a # "ejecutando", Pasar(p, de, a),
         MemInv', Ajenos(p), Alojado(p)', UNCHANGED varsCpu
  PROVE  IInv'
<1>1. proceso[p] # "ejecutando" /\ proceso' = [proceso EXCEPT ![p] = a]
      /\ proceso \in [Proc -> EstadoProceso]
  BY DEF Pasar, IInv, TypeOK
<1>2. /\ proceso' \in [Proc -> EstadoProceso] /\ proceso'[p] = a
      /\ \A q \in Proc : q # p => proceso'[q] = proceso[q]
  BY <1>1
<1>3. TypeOK'
  BY <1>2 DEF IInv, TypeOK, varsCpu, MemInv
<1>4. \A q \in Proc : Alojado(q)'
  <2> SUFFICES ASSUME NEW q \in Proc, q # p PROVE Alojado(q)'
    OBVIOUS
  <2>1. Alojado(q)
    BY Alojamiento DEF IInv
  <2>2. (TieneTabla(q)' <=> TieneTabla(q)) /\ (EstaSuspendido(q)' <=> EstaSuspendido(q))
    BY DEF Ajenos, TieneTabla
  <2> QED BY <1>2, <2>1, <2>2 DEF Alojado, Admitidos
<1>5. Alojados'
  BY <1>4 DEF Alojados, Alojado
<1>6. Ejecuta' = Ejecuta
  BY <1>1, <1>2 DEF Ejecuta
<1>7. AccesoEnCurso'
  <2>1. ASSUME cpu.paso = "marco" PROVE tabla1'[TablaDe(cpu.pagina)].id = pidProcesoEnExec
    <3>1. tabla1[TablaDe(cpu.pagina)].id = pidProcesoEnExec /\ pidProcesoEnExec \in Ejecuta
      BY <2>1 DEF IInv, AccesoEnCurso, EntreAccesos
    <3>2. pidProcesoEnExec \in Proc /\ pidProcesoEnExec # p
      BY <1>1, <3>1 DEF Ejecuta
    <3>3. TablaDe(cpu.pagina) \in Tablas
      BY EntradaDePagina DEF IInv, TypeOK
    <3> QED BY <3>1, <3>2, <3>3 DEF Ajenos
  <2> QED BY <1>6, <2>1 DEF IInv, AccesoEnCurso, EntreAccesos, varsCpu
<1> QED BY <1>3, <1>5, <1>7 DEF IInv, MemInv

\* What IInv says of Memory and of one process
LEMMA DeIInv ==
  ASSUME IInv
  PROVE  /\ MemInv /\ TypeOK /\ AccesoEnCurso
         /\ \A p \in Proc : Alojado(p)
BY Alojamiento DEF IInv, MemInv, TypeOK

LEMMA PasoAdmitir ==
  ASSUME IInv, NEW p \in Proc, Admitir(p), algoritmo' = algoritmo
  PROVE  IInv'
<1>1. Pasar(p, "nuevo", "listo") /\ CrearProceso(p) /\ UNCHANGED varsCpu
  BY DEF Admitir
<1>2. proceso[p] = "nuevo" /\ proceso'[p] = "listo"
  BY <1>1, DeIInv DEF Pasar, TypeOK
<1>3. ~TieneTabla(p) /\ ~EstaSuspendido(p)
  BY <1>2, DeIInv DEF Alojado
<1>4. MemInv' /\ Ajenos(p) /\ TieneTabla(p)'
  BY <1>1, <1>3, DeIInv, PasoCrearProceso
<1>5. Alojado(p)'
  BY <1>2, <1>4 DEF Alojado
<1> QED BY <1>1, <1>4, <1>5, PasoDelKernel DEF EstadoProceso

LEMMA PasoSuspenderDelKernel ==
  ASSUME IInv, NEW p \in Proc, Suspender(p), algoritmo' = algoritmo
  PROVE  IInv'
<1>1. Pasar(p, "bloqueado", "suspendido") /\ SuspenderProceso(p) /\ UNCHANGED varsCpu
  BY DEF Suspender
<1>2. proceso[p] = "bloqueado" /\ proceso'[p] = "suspendido"
  BY <1>1, DeIInv DEF Pasar, TypeOK
<1>3. TieneTabla(p) \/ EstaSuspendido(p)
  BY <1>2, DeIInv DEF Alojado, Admitidos
<1>4. MemInv' /\ Ajenos(p) /\ EstaSuspendido(p)'
  BY <1>1, <1>3, DeIInv, PasoSuspender
<1>5. Alojado(p)'
  BY <1>2, <1>4 DEF Alojado
<1> QED BY <1>1, <1>4, <1>5, PasoDelKernel DEF EstadoProceso

LEMMA PasoLiberar ==
  ASSUME IInv, NEW p \in Proc, Liberar(p), algoritmo' = algoritmo
  PROVE  IInv'
<1>1. Pasar(p, "terminado", "liberado") /\ TerminarProceso(p) /\ UNCHANGED varsCpu
  BY DEF Liberar
<1>2. proceso[p] = "terminado" /\ proceso'[p] = "liberado"
  BY <1>1, DeIInv DEF Pasar, TypeOK
<1>3. TieneTabla(p) \/ EstaSuspendido(p)
  BY <1>2, DeIInv DEF Alojado, Admitidos
<1>4. MemInv' /\ Ajenos(p) /\ ~TieneTabla(p)' /\ ~EstaSuspendido(p)'
  BY <1>1, <1>3, DeIInv, PasoTerminarProceso
<1>5. Alojado(p)'
  BY <1>2, <1>4 DEF Alojado, Admitidos
<1> QED BY <1>1, <1>4, <1>5, PasoDelKernel DEF EstadoProceso

\* TerminarIO and Reanudar: Memory is not told.
LEMMA PasoVolver ==
  ASSUME IInv, NEW p \in Proc, TerminarIO(p) \/ Reanudar(p), algoritmo' = algoritmo
  PROVE  IInv'
<1>1. /\ Pasar(p, "bloqueado", "listo") \/ Pasar(p, "suspendido", "listo")
      /\ UNCHANGED <<memoria, algoritmo>> /\ UNCHANGED varsCpu
  BY DEF TerminarIO, Reanudar
<1>2. proceso[p] \in {"bloqueado", "suspendido"} /\ proceso'[p] = "listo"
  BY <1>1, DeIInv DEF Pasar, TypeOK
<1>3. TieneTabla(p) \/ EstaSuspendido(p)
  BY <1>2, DeIInv DEF Alojado, Admitidos
<1>4. /\ MemInv' /\ Ajenos(p) /\ (TieneTabla(p)' <=> TieneTabla(p))
      /\ (EstaSuspendido(p)' <=> EstaSuspendido(p))
  BY <1>1, DeIInv, PasoSinMemoria
<1>5. Alojado(p)'
  BY <1>2, <1>3, <1>4 DEF Alojado
<1> QED BY <1>1, <1>4, <1>5, PasoDelKernel DEF EstadoProceso

\* The access of the CPU when it does none
Acceso == [paso : {"libre", "tabla", "marco", "acceso", "leido"}, indice : Local,
           pagina : Pagina, marco : Marco, escribe : BOOLEAN, valor : Valor]

LEMMA ReposoType == EnReposo \in Acceso
<1>1. TABLAS * EE \in Nat /\ TABLAS * EE >= 1 /\ TABLAS * MARCOS \in Nat /\ TABLAS * MARCOS >= 1
  BY Tamanios
<1>2. 0 \in Local /\ 0 \in Pagina /\ 0 \in Marco
  BY <1>1, Tamanios DEF Marco
<1> QED BY <1>2, ValorAssumption DEF EnReposo, Acceso

LEMMA PasoDespachar ==
  ASSUME IInv, NEW p \in Proc, Despachar(p), algoritmo' = algoritmo
  PROVE  IInv'
<1>1. /\ Ejecuta = {} /\ proceso[p] = "listo" /\ proceso' = [proceso EXCEPT ![p] = "ejecutando"]
      /\ pidProcesoEnExec' = p /\ (tlb' = << >> \/ tlb' = tlb)
      /\ UNCHANGED <<memoria, algoritmo>> /\ UNCHANGED <<cpu, escrituras>>
  BY DEF Despachar, Pasar
<1>2. /\ MemInv'
      /\ \A q \in Proc : (TieneTabla(q)' <=> TieneTabla(q)) /\ (EstaSuspendido(q)' <=> EstaSuspendido(q))
  BY <1>1, DeIInv, PasoSinMemoria
<1>3. /\ proceso' \in [Proc -> EstadoProceso] /\ proceso'[p] = "ejecutando"
      /\ \A q \in Proc : q # p => proceso'[q] = proceso[q]
  BY <1>1, DeIInv DEF TypeOK, EstadoProceso
<1>4. tlb' \in Seq([pagina : Local, marco : Marco])
  BY <1>1, DeIInv, EmptySeq DEF TypeOK
<1>5. TypeOK'
  BY <1>1, <1>2, <1>3, <1>4, DeIInv DEF TypeOK, MemInv
<1>6. Alojados'
  <2>1. \A q \in Proc : Alojado(q)'
    BY <1>1, <1>2, <1>3, DeIInv DEF Alojado, Admitidos
  <2> QED BY <2>1 DEF Alojados, Alojado
<1>7. AccesoEnCurso'
  <2>1. Ejecuta' = {p}
    BY <1>1, <1>3 DEF Ejecuta
  <2>2. EntreAccesos
    BY <1>1, DeIInv DEF AccesoEnCurso
  <2> QED BY <1>1, <2>1, <2>2 DEF AccesoEnCurso, EntreAccesos
<1> QED BY <1>2, <1>5, <1>6, <1>7 DEF IInv, MemInv

\* Desalojar, Bloquear and Terminar
LEMMA PasoDejar ==
  ASSUME IInv, NEW p \in Proc, NEW a \in {"listo", "bloqueado", "terminado"}, Dejar(p, a),
         algoritmo' = algoritmo
  PROVE  IInv'
<1>1. /\ proceso[p] = "ejecutando" /\ proceso' = [proceso EXCEPT ![p] = a] /\ cpu' = EnReposo
      /\ UNCHANGED <<memoria, algoritmo>> /\ UNCHANGED <<pidProcesoEnExec, tlb, escrituras>>
  BY DEF Dejar, Pasar
<1>2. /\ MemInv'
      /\ \A q \in Proc : (TieneTabla(q)' <=> TieneTabla(q)) /\ (EstaSuspendido(q)' <=> EstaSuspendido(q))
  BY <1>1, DeIInv, PasoSinMemoria
<1>3. /\ proceso' \in [Proc -> EstadoProceso] /\ proceso'[p] = a
      /\ \A q \in Proc : q # p => proceso'[q] = proceso[q]
  BY <1>1, DeIInv DEF TypeOK, EstadoProceso
<1>4. TypeOK'
  BY <1>1, <1>2, <1>3, DeIInv, ReposoType DEF TypeOK, MemInv, Acceso
<1>5. Alojados'
  <2>1. \A q \in Proc : Alojado(q)'
    BY <1>1, <1>2, <1>3, DeIInv DEF Alojado, Admitidos
  <2> QED BY <2>1 DEF Alojados, Alojado
<1>6. AccesoEnCurso'
  BY <1>1, <1>3, DeIInv DEF AccesoEnCurso, Ejecuta, EntreAccesos, EnReposo
<1> QED BY <1>2, <1>4, <1>5, <1>6 DEF IInv, MemInv

-----------------------------------------------------------------------------
(* The CPU and its requests.                                               *)

\* The entries of the TLB and the writes in the socket
EntradaTlb == [pagina : Local, marco : Marco]
Escritura == [marco : Marco, valor : Valor]

\* With the same processes in the same states, the same owners of the tables and the
\* same suspended processes, every process is where it was.
LEMMA MismosLugares ==
  ASSUME IInv, \A j \in Tablas : tabla1'[j].id = tabla1[j].id, suspendidos' = suspendidos,
         proceso' = proceso
  PROVE  \A p \in Proc : Alojado(p)'
<1>1. \A p \in Proc : (TieneTabla(p)' <=> TieneTabla(p)) /\ (EstaSuspendido(p)' <=> EstaSuspendido(p))
  BY MismosDuenios DEF IInv
<1> QED BY <1>1, DeIInv DEF Alojado, Admitidos

\* A step of the CPU or of Memory for it: the processes are where the Kernel has them.
LEMMA PasoDeLaCpu ==
  ASSUME IInv, MemInv', UNCHANGED <<proceso, pidProcesoEnExec>>, \A p \in Proc : Alojado(p)',
         cpu' \in Acceso, tlb' \in Seq(EntradaTlb), escrituras' \in Seq(Escritura),
         EntreAccesos' \/ ~EntreAccesos \/ Ejecuta # {},
         cpu'.paso = "marco" => tabla1'[TablaDe(cpu'.pagina)].id = pidProcesoEnExec
  PROVE  IInv'
<1>1. TypeOK'
  BY DeIInv DEF TypeOK, MemInv, Acceso, EntradaTlb, Escritura
<1>2. Alojados'
  BY DEF Alojados, Alojado
<1>3. Ejecuta' = Ejecuta
  BY DEF Ejecuta
<1>4. AccesoEnCurso'
  BY <1>3, DeIInv DEF AccesoEnCurso
<1> QED BY <1>1, <1>2, <1>4 DEF IInv, MemInv

\* The types of the CPU and the socket, as any of their steps finds them
LEMMA TiposDeCpu ==
  ASSUME IInv
  PROVE  /\ cpu \in Acceso /\ tlb \in Seq(EntradaTlb) /\ escrituras \in Seq(Escritura)
         /\ cpu.indice \in Local /\ cpu.pagina \in Pagina /\ cpu.marco \in Marco
         /\ ~EntreAccesos => pidProcesoEnExec \in Proc /\ pidProcesoEnExec \in Ejecuta
BY DeIInv DEF TypeOK, Acceso, EntradaTlb, Escritura, AccesoEnCurso, Ejecuta

\* tlb_get_marco: a translation, and the rest of them as they were or with it at the end.
LEMMA PasoTlb ==
  ASSUME IInv, NEW l \in Local, Tlb!Tiene(tlb, l)
  PROVE  /\ Tlb!Referida(tlb, l, AlgoritmoTlb) \in Seq(EntradaTlb)
         /\ Tlb!Traducida(tlb, l).marco \in Marco
<1> DEFINE k == Tlb!Posicion(tlb, l)
<1>1. tlb \in Seq(EntradaTlb) /\ k \in 1..Len(tlb)
  BY TiposDeCpu DEF Tlb!Tiene, Tlb!De, Tlb!Posicion
<1> HIDE DEF k
<1>2. tlb[k] \in EntradaTlb
  BY <1>1, ElementOfSeq
<1>3. RemoveAt(tlb, k) \in Seq(EntradaTlb)
  BY <1>1, RemoveAtProperties
<1>4. Append(RemoveAt(tlb, k), tlb[k]) \in Seq(EntradaTlb)
  BY <1>2, <1>3, AppendProperties
<1>5. tlb[k].marco \in Marco
  BY <1>2 DEF EntradaTlb
<1>6. Tlb!Traducida(tlb, l) = tlb[k]
  BY DEF Tlb!Traducida, k
<1>7. \/ Tlb!Referida(tlb, l, AlgoritmoTlb) = tlb
      \/ Tlb!Referida(tlb, l, AlgoritmoTlb) = Append(RemoveAt(tlb, k), tlb[k])
  <2>1. Tlb!RemoveAt(tlb, k) = RemoveAt(tlb, k)
    BY DEF Tlb!RemoveAt, RemoveAt
  <2> QED BY <1>6, <2>1 DEF Tlb!Referida, k
<1> QED BY <1>1, <1>4, <1>5, <1>6, <1>7

LEMMA PasoCpuAcceder ==
  ASSUME IInv, NEW l \in Accesibles, NEW escribe \in BOOLEAN, CpuAcceder(l, escribe), algoritmo' = algoritmo
  PROVE  IInv'
<1>1. /\ Ejecuta # {} /\ UNCHANGED <<memoria, algoritmo>>
      /\ UNCHANGED <<proceso, pidProcesoEnExec, escrituras>>
  BY DEF CpuAcceder, kernel
<1>2. MemInv' /\ tabla1' = tabla1 /\ suspendidos' = suspendidos
  BY <1>1, DeIInv, PasoSinMemoria DEF memoria
<1>3. l \in Local
  BY SistemaAssumption
<1>4. cpu' \in Acceso /\ cpu'.paso # "marco" /\ tlb' \in Seq(EntradaTlb)
  <2>1. CASE Tlb!Tiene(tlb, l)
    <3>1. /\ tlb' = Tlb!Referida(tlb, l, AlgoritmoTlb)
          /\ cpu' = [EnReposo EXCEPT !.paso = "acceso", !.indice = l, !.escribe = escribe,
                                     !.marco = Tlb!Traducida(tlb, l).marco]
      BY <2>1 DEF CpuAcceder
    <3> QED BY <1>3, <2>1, <3>1, PasoTlb, ReposoType DEF Acceso, EnReposo
  <2>2. CASE ~Tlb!Tiene(tlb, l)
    <3>1. cpu' = [EnReposo EXCEPT !.paso = "tabla", !.indice = l, !.escribe = escribe] /\ tlb' = tlb
      BY <2>2 DEF CpuAcceder
    <3> QED BY <1>3, <3>1, ReposoType, TiposDeCpu DEF Acceso, EnReposo
  <2> QED BY <2>1, <2>2
<1>5. \A p \in Proc : Alojado(p)'
  BY <1>1, <1>2, MismosLugares
<1> QED BY <1>1, <1>2, <1>4, <1>5, TiposDeCpu, PasoDeLaCpu

LEMMA PasoCpuPedirTabla ==
  ASSUME IInv, CpuPedirTabla, algoritmo' = algoritmo
  PROVE  IInv'
<1>0. PICK p \in Proc : p = pidProcesoEnExec
  BY TiposDeCpu DEF CpuPedirTabla, EntreAccesos
<1> DEFINE i == CHOOSE i \in Tablas : tabla1'[i].id = p
<1>1. /\ cpu.paso = "tabla" /\ ObtenerTablaNivel2(p)
      /\ cpu' = [cpu EXCEPT !.paso = "marco", !.pagina = PaginaDe(i, cpu.indice)]
      /\ UNCHANGED <<proceso, pidProcesoEnExec, tlb, escrituras>>
  BY <1>0 DEF CpuPedirTabla, kernel
<1>2. ~EntreAccesos /\ proceso[p] = "ejecutando"
  BY <1>0, <1>1, TiposDeCpu DEF EntreAccesos, Ejecuta
<1>3. MemInv' /\ Ajenos(p) /\ TieneTabla(p)'
  BY <1>1, <1>2, DeIInv, PasoObtenerTablaNivel2
<1>4. i \in Tablas /\ tabla1'[i].id = p
  BY <1>3 DEF TieneTabla
<1> HIDE DEF i
<1>5. PaginaDe(i, cpu.indice) \in Pagina /\ TablaDe(PaginaDe(i, cpu.indice)) = i
  BY <1>4, TiposDeCpu, PaginaDeEntrada
<1>6. cpu' \in Acceso /\ cpu'.pagina = PaginaDe(i, cpu.indice)
  BY <1>1, <1>5, TiposDeCpu DEF Acceso
<1>7. \A q \in Proc : Alojado(q)'
  <2>1. Alojado(p)'
    BY <1>1, <1>2, <1>3 DEF Alojado
  <2>2. ASSUME NEW q \in Proc, q # p PROVE Alojado(q)'
    <3>1. (TieneTabla(q)' <=> TieneTabla(q)) /\ (EstaSuspendido(q)' <=> EstaSuspendido(q))
      BY <1>3, <2>2 DEF Ajenos, TieneTabla
    <3>2. Alojado(q)
      BY DeIInv
    <3> QED BY <1>1, <3>1, <3>2 DEF Alojado, Admitidos
  <2> QED BY <2>1, <2>2
<1> QED BY <1>0, <1>1, <1>2, <1>3, <1>4, <1>5, <1>6, <1>7, TiposDeCpu, PasoDeLaCpu

LEMMA PasoCpuPedirMarco ==
  ASSUME IInv, CpuPedirMarco, algoritmo' = algoritmo
  PROVE  IInv'
<1> DEFINE f == MarcoObtenido(cpu.pagina)
           t == [pagina |-> cpu.indice, marco |-> f]
<1>1. /\ cpu.paso = "marco" /\ ObtenerMarco(cpu.pagina)
      /\ cpu' = [cpu EXCEPT !.paso = "acceso", !.pagina = 0, !.marco = f]
      /\ tlb' = Tlb!Registrada(tlb, t)
      /\ UNCHANGED <<proceso, pidProcesoEnExec, escrituras>>
  BY DEF CpuPedirMarco, kernel
<1>2. ~EntreAccesos /\ tabla1[TablaDe(cpu.pagina)].id \in Proc /\ cpu.pagina \in Pagina
  BY <1>1, TiposDeCpu, DeIInv DEF EntreAccesos, AccesoEnCurso
<1>3. /\ MemInv' /\ suspendidos' = suspendidos /\ \A j \in Tablas : tabla1'[j].id = tabla1[j].id
      /\ f \in Marco
  BY <1>1, <1>2, DeIInv, PasoObtenerMarco
<1> HIDE DEF f
<1>4. cpu' \in Acceso /\ cpu'.paso # "marco"
  BY <1>1, <1>3, TiposDeCpu, ReposoType DEF Acceso, EnReposo
<1>5. tlb' \in Seq(EntradaTlb)
  <2> DEFINE resto == IF Len(tlb) = ENTRADAS_TLB THEN Tail(tlb) ELSE tlb
  <2>1. tlb \in Seq(EntradaTlb) /\ t \in EntradaTlb
    BY <1>3, TiposDeCpu DEF EntradaTlb
  <2>2. resto \in Seq(EntradaTlb)
    <3>1. CASE Len(tlb) = ENTRADAS_TLB
      <4>1. tlb # << >>
        BY <3>1, SistemaAssumption
      <4> QED BY <2>1, <3>1, <4>1, HeadTailProperties
    <3>2. CASE Len(tlb) # ENTRADAS_TLB
      BY <2>1, <3>2
    <3> QED BY <3>1, <3>2
  <2>3. tlb' = Append(resto, t)
    BY <1>1 DEF Tlb!Registrada
  <2> HIDE DEF resto, t
  <2> QED BY <2>1, <2>2, <2>3, AppendProperties
<1>6. \A p \in Proc : Alojado(p)'
  BY <1>1, <1>3, MismosLugares
<1> QED BY <1>1, <1>2, <1>3, <1>4, <1>5, <1>6, TiposDeCpu, PasoDeLaCpu

LEMMA PasoCpuLeer ==
  ASSUME IInv, CpuLeer, algoritmo' = algoritmo
  PROVE  IInv'
<1> DEFINE f == cpu.marco
<1>1. /\ marcos[f].pagina # SinPagina /\ ActualizarPagina(f, FALSE)
      /\ UNCHANGED <<tabla1, marcos, ram, swap, suspendidos, algoritmo>>
      /\ cpu' = [cpu EXCEPT !.paso = "leido", !.marco = 0, !.valor = ram[f]]
      /\ UNCHANGED <<proceso, pidProcesoEnExec, tlb, escrituras>>
  BY DEF CpuLeer, Leer, kernel
<1>2. f \in Marco /\ ram \in [Marco -> Valor]
  BY TiposDeCpu, DeIInv DEF TypeOK, MemoriaTypeOK
<1>3. MemInv'
  BY <1>1, <1>2, DeIInv, PasoActualizarPagina
<1>4. cpu' \in Acceso /\ cpu'.paso = "leido"
  BY <1>1, <1>2, TiposDeCpu, ReposoType DEF Acceso, EnReposo
<1>5. \A p \in Proc : Alojado(p)'
  BY <1>1, MismosLugares
<1> QED BY <1>1, <1>3, <1>4, <1>5, TiposDeCpu, PasoDeLaCpu DEF EntreAccesos

LEMMA PasoCpuEscribir ==
  ASSUME IInv, NEW v \in Valor, CpuEscribir(v), algoritmo' = algoritmo
  PROVE  IInv'
<1> DEFINE w == [marco |-> cpu.marco, valor |-> v]
<1>1. /\ escrituras' = Append(escrituras, w) /\ cpu' = EnReposo
      /\ UNCHANGED <<memoria, algoritmo>> /\ UNCHANGED <<proceso, pidProcesoEnExec, tlb>>
  BY DEF CpuEscribir, kernel
<1>2. w \in Escritura
  BY TiposDeCpu DEF Escritura
<1> HIDE DEF w
<1>3. escrituras' \in Seq(Escritura)
  BY <1>1, <1>2, TiposDeCpu, AppendProperties
<1>4. MemInv' /\ tabla1' = tabla1 /\ suspendidos' = suspendidos
  BY <1>1, DeIInv, PasoSinMemoria DEF memoria
<1>5. \A p \in Proc : Alojado(p)'
  BY <1>1, <1>4, MismosLugares
<1>6. cpu' \in Acceso /\ cpu'.paso = "libre"
  BY <1>1, ReposoType DEF EnReposo
<1> QED BY <1>1, <1>3, <1>4, <1>5, <1>6, TiposDeCpu, PasoDeLaCpu DEF EntreAccesos

LEMMA PasoMemoriaEscribir ==
  ASSUME IInv, MemoriaEscribir, algoritmo' = algoritmo
  PROVE  IInv'
<1> DEFINE f == Head(escrituras).marco
           v == Head(escrituras).valor
<1>1. /\ escrituras # << >> /\ marcos[f].pagina # SinPagina
      /\ ram' = [ram EXCEPT ![f] = v] /\ ActualizarPagina(f, TRUE)
      /\ UNCHANGED <<tabla1, marcos, swap, suspendidos, algoritmo>>
      /\ escrituras' = Tail(escrituras)
      /\ UNCHANGED <<proceso, pidProcesoEnExec, cpu, tlb>>
  BY DEF MemoriaEscribir, Escribir, kernel
<1>2. Head(escrituras) \in Escritura /\ escrituras' \in Seq(Escritura)
  BY <1>1, TiposDeCpu, HeadTailProperties
<1>3. f \in Marco /\ v \in Valor
  BY <1>2 DEF Escritura
<1> HIDE DEF f, v
<1>4. ram' \in [Marco -> Valor]
  BY <1>1, <1>3, DeIInv DEF TypeOK, MemoriaTypeOK
<1>5. MemInv'
  BY <1>1, <1>3, <1>4, DeIInv, PasoActualizarPagina
<1>6. \A p \in Proc : Alojado(p)'
  BY <1>1, MismosLugares
<1>7. cpu'.paso = "marco" => tabla1'[TablaDe(cpu'.pagina)].id = pidProcesoEnExec
  BY <1>1, DeIInv DEF AccesoEnCurso
<1>8. EntreAccesos' \/ ~EntreAccesos
  BY <1>1 DEF EntreAccesos
<1> QED BY <1>1, <1>2, <1>5, <1>6, <1>7, <1>8, TiposDeCpu, PasoDeLaCpu

-----------------------------------------------------------------------------
(* The permits of the Kernel and the tables of Memory.                     *)

\* The processes that have a table
Duenios == {p \in Proc : TieneTabla(p)}

\* Every table is free or of one process, which has no other: there are as many free
\* tables as processes without one are missing to fill them.
LEMMA TablasYDuenios ==
  ASSUME IInv
  PROVE  /\ IsFiniteSet(Duenios) /\ IsFiniteSet(TablasLibres)
         /\ Cardinality(Duenios) \in Nat /\ Cardinality(TablasLibres) \in Nat
         /\ Cardinality(TablasLibres) + Cardinality(Duenios) = TABLAS
<1> DEFINE Ocupadas == Tablas \ TablasLibres
           duenio == [i \in Ocupadas |-> tabla1[i].id]
<1>1. IsFiniteSet(Tablas) /\ Cardinality(Tablas) = TABLAS
  BY Tamanios, FS_Interval DEF Tablas
<1>2. TablasLibres \subseteq Tablas /\ Tablas \intersect TablasLibres = TablasLibres
  BY DEF TablasLibres
<1>3. IsFiniteSet(TablasLibres) /\ IsFiniteSet(Ocupadas)
  BY <1>1, <1>2, FS_Subset
<1>4. Cardinality(Ocupadas) = TABLAS - Cardinality(TablasLibres)
  BY <1>1, <1>2, FS_Difference
<1>5. Cardinality(TablasLibres) \in Nat
  BY <1>3, FS_CardinalityType
<1>6. duenio \in Bijection(Ocupadas, Duenios)
  <2>1. \A i \in Ocupadas : tabla1[i].id \in Proc /\ TieneTabla(tabla1[i].id)
    BY DEF TablasLibres, IInv, TypeOK, MemoriaTypeOK, TieneTabla
  <2>2. duenio \in [Ocupadas -> Duenios]
    BY <2>1 DEF Duenios
  <2>3. \A i, j \in Ocupadas : tabla1[i].id = tabla1[j].id => i = j
    BY DEF TablasLibres, IInv, UnAlojamiento
  <2>4. \A p \in Duenios : \E i \in Ocupadas : tabla1[i].id = p
    BY ProcAssumption DEF Duenios, TieneTabla, TablasLibres, Libre
  <2> QED BY <2>2, <2>3, <2>4 DEF Bijection, Injection, IsInjective, Surjection
<1>7. ExistsBijection(Ocupadas, Duenios)
  BY <1>6 DEF ExistsBijection
<1>8. IsFiniteSet(Duenios) /\ Cardinality(Duenios) = Cardinality(Ocupadas)
  BY <1>3, <1>7, FS_Bijection
<1>9. Cardinality(Duenios) \in Nat
  BY <1>8, FS_CardinalityType
<1> HIDE DEF Ocupadas
<1> QED BY <1>3, <1>4, <1>5, <1>8, <1>9, Tamanios

\* The admitted processes are the ones that have a table and those that will ask for one.
LEMMA AdmitidosConTabla ==
  ASSUME IInv
  PROVE  Admitidos \ {p \in Admitidos : EstaSuspendido(p)} = Duenios
<1>1. \A p \in Proc : TieneTabla(p) => ~EstaSuspendido(p)
  BY DEF IInv, UnAlojamiento
<1>2. ASSUME NEW p \in Proc, TieneTabla(p) PROVE p \in Admitidos
  <2>1. proceso[p] \in EstadoProceso /\ proceso[p] \notin {"nuevo", "liberado", "suspendido"}
    BY <1>1, <1>2 DEF IInv, TypeOK, Alojados
  <2> QED BY <2>1 DEF Admitidos, EstadoProceso
<1>3. \A p \in Admitidos : TieneTabla(p) \/ EstaSuspendido(p)
  BY DEF IInv, Alojados, Admitidos
<1> QED BY <1>1, <1>2, <1>3 DEF Duenios, Admitidos

\* The permits given are never more than GRADO_MULTIPROGRAMACION.
Permisos == IsFiniteSet(Admitidos) /\ Cardinality(Admitidos) <= GRADO

LEMMA InicioPermisos == Init => Permisos
<1> SUFFICES ASSUME Init PROVE Permisos
  OBVIOUS
<1>1. Admitidos = {}
  BY DEF Init, Admitidos
<1> QED BY <1>1, FS_EmptySet, SistemaAssumption, Tamanios DEF Permisos

LEMMA PasoPermisos ==
  ASSUME IInv, Permisos, [Next]_vars
  PROVE  Permisos'
<1>1. CASE Admitidos' \subseteq Admitidos
  <2>1. IsFiniteSet(Admitidos') /\ Cardinality(Admitidos') <= Cardinality(Admitidos)
    BY <1>1, FS_Subset DEF Permisos
  <2>2. Cardinality(Admitidos) \in Nat /\ Cardinality(Admitidos') \in Nat /\ GRADO \in Nat
    BY <2>1, FS_CardinalityType, SistemaAssumption, Tamanios DEF Permisos
  <2> QED BY <2>1, <2>2 DEF Permisos
<1>2. ASSUME NEW p \in Proc, Cardinality(Admitidos) < GRADO, Admitidos' = Admitidos \union {p}
      PROVE  Permisos'
  <2>1. IsFiniteSet(Admitidos') /\ Cardinality(Admitidos') <= Cardinality(Admitidos) + 1
    <3>1. Cardinality(Admitidos) \in Nat
      BY FS_CardinalityType DEF Permisos
    <3>2. /\ IsFiniteSet(Admitidos \union {p})
          /\ Cardinality(Admitidos \union {p}) <= Cardinality(Admitidos) + 1
      BY <3>1, FS_AddElement DEF Permisos
    <3> QED BY <1>2, <3>2, Zenon
  <2>2. Cardinality(Admitidos) \in Nat /\ Cardinality(Admitidos') \in Nat /\ GRADO \in Nat
    BY <2>1, FS_CardinalityType, SistemaAssumption, Tamanios DEF Permisos
  <2> QED BY <1>2, <2>1, <2>2 DEF Permisos
<1>3. ASSUME NEW p \in Proc, Admitir(p) \/ Reanudar(p) PROVE Permisos'
  <2>1. /\ Cardinality(Admitidos) < GRADO
        /\ proceso \in [Proc -> EstadoProceso] /\ proceso' = [proceso EXCEPT ![p] = "listo"]
    BY <1>3 DEF Admitir, Reanudar, Pasar, IInv, TypeOK
  <2>2. Admitidos' = Admitidos \union {p}
    BY <2>1 DEF Admitidos
  <2> QED BY <1>2, <2>1, <2>2
<1>4. ASSUME NEW p \in Proc,
             Despachar(p) \/ Desalojar(p) \/ Bloquear(p) \/ Terminar(p) \/ Suspender(p) \/ TerminarIO(p)
               \/ Liberar(p)
      PROVE  Permisos'
  <2>1. PICK de, a \in EstadoProceso :
          /\ proceso' = [proceso EXCEPT ![p] = a] /\ proceso[p] = de
          /\ a \in {"suspendido", "liberado"} \/ de \in {"listo", "ejecutando", "bloqueado", "terminado"}
    BY <1>4 DEF Despachar, Desalojar, Bloquear, Terminar, Dejar, Suspender, TerminarIO, Liberar, Pasar, EstadoProceso
  <2>2. Admitidos' \subseteq Admitidos
    BY <2>1 DEF Admitidos, IInv, TypeOK
  <2> QED BY <1>1, <2>2
<1>5. CASE UNCHANGED proceso
  BY <1>1, <1>5 DEF Admitidos
<1>6. UNCHANGED proceso \/ \E p \in Proc :
          Admitir(p) \/ Despachar(p) \/ Desalojar(p) \/ Bloquear(p) \/ Terminar(p)
            \/ Suspender(p) \/ TerminarIO(p) \/ Reanudar(p) \/ Liberar(p)
  BY DEF Next, vars, kernel, CpuAcceder, CpuPedirTabla, CpuPedirMarco, CpuLeer, CpuEscribir, MemoriaEscribir,
         MemoriaAccederFuera
<1> QED BY <1>3, <1>4, <1>5, <1>6

LEMMA TablasParaPermisos ==
  ASSUME IInv, Permisos
  PROVE  /\ TablasAlcanzan
         /\ Cardinality(Admitidos) < GRADO \/ (\E p \in Admitidos : EstaSuspendido(p)) => TablasLibres # {}
<1> DEFINE Esperan == {p \in Admitidos : EstaSuspendido(p)}
<1>1. /\ Cardinality(Admitidos) \in Nat /\ Cardinality(Admitidos) <= GRADO
      /\ IsFiniteSet(Esperan) /\ Cardinality(Esperan) \in Nat
  BY FS_CardinalityType, FS_Subset DEF Permisos
<1>2. Cardinality(Duenios) = Cardinality(Admitidos) - Cardinality(Esperan)
  <2>1. Esperan \intersect Admitidos = Esperan /\ Admitidos \intersect Esperan = Esperan
    OBVIOUS
  <2>2. Duenios = Admitidos \ Esperan
    BY AdmitidosConTabla
  <2> HIDE DEF Esperan
  <2> QED BY <2>1, <2>2, FS_Difference, SMTT(20) DEF Permisos
<1>3. Esperan # {} => Cardinality(Esperan) # 0
  BY <1>1, FS_EmptySet
<1> HIDE DEF Esperan
<1>4. /\ Cardinality(TablasLibres) \in Nat /\ Cardinality(Duenios) \in Nat
      /\ Cardinality(TablasLibres) + Cardinality(Duenios) = TABLAS
      /\ GRADO \in Nat /\ GRADO <= TABLAS
  BY TablasYDuenios, SistemaAssumption, Tamanios
<1>5. (GRADO - Cardinality(Admitidos)) + Cardinality(Esperan) <= Cardinality(TablasLibres)
  BY <1>1, <1>2, <1>4, Tamanios
<1>6. Cardinality(Admitidos) < GRADO \/ Esperan # {} => Cardinality(TablasLibres) # 0
  BY <1>1, <1>3, <1>4, <1>5
<1>7. TablasLibres = {} => Cardinality(TablasLibres) = 0
  BY FS_EmptySet
<1> QED BY <1>5, <1>6, <1>7 DEF TablasAlcanzan, Esperan

-----------------------------------------------------------------------------
(* The page that is replaced.                                              *)

\* The round goes over all the frames of the table, wherever it starts.
LEMMA RondaCompleta ==
  ASSUME NEW i \in Tablas, NEW f \in MarcosDe(i)
  PROVE  \E k \in 1..MARCOS : Ronda(i)[k] = marcos[f].pagina
<1> DEFINE enPuntero == {c \in 0..(MARCOS - 1) :
                           Indice(marcos[PrimerMarco(i) + c].pagina) = tabla1[i].puntero}
           desde == IF enPuntero = {} THEN 0 ELSE Max(enPuntero)
           c == f - PrimerMarco(i)
           k == IF desde <= c THEN c - desde + 1 ELSE c - desde + 1 + MARCOS
<1>1. desde \in 0..(MARCOS - 1)
  BY InicioDeRonda
<1>2. c \in 0..(MARCOS - 1) /\ f = PrimerMarco(i) + c
  BY MarcosDeTabla
<1>3. Ronda(i) = [h \in 1..MARCOS |-> marcos[PrimerMarco(i) + ((desde + h - 1) % MARCOS)].pagina]
  BY DEF Ronda
<1> HIDE DEF desde, c
<1>4. k \in 1..MARCOS /\ (desde + k - 1 = c \/ desde + k - 1 = MARCOS + c)
  BY <1>1, <1>2, Tamanios
<1>5. c % MARCOS = c /\ (MARCOS + c) % MARCOS = c
  <2>1. MARCOS \in Nat \ {0} /\ c \in Nat /\ c < MARCOS
    BY <1>2, Tamanios
  <2>2. (0 * MARCOS + c) % MARCOS = c /\ (1 * MARCOS + c) % MARCOS = c
    BY <2>1, Cociente
  <2>3. 0 * MARCOS + c = c /\ 1 * MARCOS + c = MARCOS + c
    BY <2>1
  <2> QED BY <2>2, <2>3
<1> HIDE DEF k
<1>6. (desde + k - 1) % MARCOS = c
  BY <1>4, <1>5
<1> QED BY <1>2, <1>3, <1>4, <1>6

\* No page of the round is in a lower class than the one that either algorithm chooses.
LEMMA EleccionDeMenorClase ==
  ASSUME algoritmo \in Algoritmos, NEW ronda, NEW k \in 1..MARCOS
  PROVE  Clase(ronda[SeleccionarVictima(ronda).en]) <= Clase(ronda[k])
<1> DEFINE sinUso == {h \in 1..MARCOS : ~tabla2[ronda[h]].uso}
           limpias == {h \in 1..MARCOS : ~tabla2[ronda[h]].modificado}
           ambas == sinUso \intersect limpias
           en == SeleccionarVictima(ronda).en
<1>1. \A T \in SUBSET (1..MARCOS) : T # {} => Min(T) \in T
  BY MinimoDeNaturales
<1>2. /\ sinUso # {} => Min(sinUso) \in sinUso
      /\ limpias # {} => Min(limpias) \in limpias
      /\ ambas # {} => Min(ambas) \in ambas
  BY <1>1
<1>3. 1 \in 1..MARCOS
  BY Tamanios
<1>4. CASE algoritmo = "CLOCK"
  <2>1. en = IF sinUso # {} THEN Min(sinUso) ELSE 1
    BY <1>4 DEF SeleccionarVictima, Clock, Eleccion
  <2> HIDE DEF en
  <2>2. en \in sinUso \/ (sinUso = {} /\ en = 1)
    BY <1>2, <2>1
  <2> QED BY <1>3, <1>4, <2>2 DEF Clase, en
<1>5. CASE algoritmo # "CLOCK"
  <2>1. algoritmo = "CLOCK-M"
    BY <1>5, AlgoritmosAssumption
  <2>2. ClockModificado(ronda) =
          CASE ambas # {} -> Eleccion(Min(ambas), {})
            [] ambas = {} /\ sinUso # {} -> Eleccion(Min(sinUso), 1..(Min(sinUso) - 1))
            [] sinUso = {} /\ limpias # {} -> Eleccion(Min(limpias), 1..MARCOS)
            [] OTHER -> Eleccion(1, 1..MARCOS)
    BY DEF ClockModificado
  <2>3. en = ClockModificado(ronda).en
    BY <1>5 DEF SeleccionarVictima
  <2>4. ambas \subseteq sinUso
    OBVIOUS
  <2>5. \/ en \in ambas
        \/ ambas = {} /\ en \in sinUso
        \/ sinUso = {} /\ en \in limpias
        \/ sinUso = {} /\ limpias = {} /\ en = 1
    <3> HIDE DEF en, sinUso, limpias, ambas
    <3>1. CASE ambas # {}
      BY <1>2, <2>2, <2>3, <2>4, <3>1 DEF Eleccion
    <3>2. CASE ambas = {} /\ sinUso # {}
      BY <1>2, <2>2, <2>3, <3>2 DEF Eleccion
    <3>3. CASE sinUso = {} /\ limpias # {}
      BY <1>2, <2>2, <2>3, <2>4, <3>3 DEF Eleccion
    <3>4. CASE sinUso = {} /\ limpias = {}
      BY <2>2, <2>3, <2>4, <3>4 DEF Eleccion
    <3> QED BY <3>1, <3>2, <3>3, <3>4
  <2> HIDE DEF en
  <2> QED BY <1>3, <2>1, <2>5 DEF Clase, en
<1> QED BY <1>4, <1>5

\* Only the victim of a replacement stops being present when Memory answers HEADER_marco.
LEMMA VictimaDelReemplazo ==
  ASSUME MemInv, NEW n \in Pagina, ObtenerMarco(n), NEW m \in Pagina, tabla2[m].presencia, ~tabla2'[m].presencia
  PROVE  \A f \in MarcosDe(TablaDe(m)) : Clase(m) <= Clase(marcos[f].pagina)
<1> DEFINE i == TablaDe(n)
           ronda == Ronda(i)
           eleccion == SeleccionarVictima(ronda)
           victima == ronda[eleccion.en]
           f == tabla2[victima].marco
           sinUso == {ronda[k] : k \in eleccion.visitadas}
<1>1. ~ObtenerMarcoPresente(n)
  BY DEF ObtenerMarcoPresente, memoria
<1>2. ~ObtenerMarcoLibre(n)
  BY DEF ObtenerMarcoLibre, Cargada, MemInv, MemoriaTypeOK
<1>3. /\ ~tabla2[n].presencia /\ MarcosLibres(i) = {}
      /\ tabla2' = [q \in Pagina |->
                      CASE q = n -> Cargada(n, f)
                        [] q = victima -> Descargada(q, tabla2[q].uso /\ q \notin sinUso)
                        [] OTHER -> [tabla2[q] EXCEPT !.uso = @ /\ q \notin sinUso]]
  BY <1>1, <1>2 DEF ObtenerMarco, ObtenerMarcoReemplazando
<1>4. i \in Tablas /\ eleccion.en \in 1..MARCOS
  BY EntradaDePagina, EleccionEnRonda
<1>5. TablaDe(victima) = i
  BY <1>3, <1>4, PaginasPresentes
<1> HIDE DEF i, ronda, eleccion, f, sinUso
<1>6. m = victima
  <2> HIDE DEF victima
  <2>1. m # n
    BY <1>3
  <2> QED BY <1>3, <2>1 DEF MemInv, MemoriaTypeOK, EntradaNivel2
<1>7. algoritmo \in Algoritmos
  BY DEF MemInv, MemoriaTypeOK
<1>8. ASSUME NEW g \in MarcosDe(i) PROVE Clase(victima) <= Clase(marcos[g].pagina)
  <2>1. PICK k \in 1..MARCOS : ronda[k] = marcos[g].pagina
    BY <1>4, RondaCompleta DEF ronda
  <2>2. Clase(victima) <= Clase(ronda[k])
    BY <1>7, EleccionDeMenorClase DEF eleccion
  <2> QED BY <2>1, <2>2
<1> QED BY <1>5, <1>6, <1>8

LEMMA PasoVictima ==
  ASSUME IInv, Next, cpu.paso = "marco", cpu'.paso = "acceso",
         NEW n \in Pagina, tabla2[n].presencia, ~tabla2'[n].presencia
  PROVE  \A f \in MarcosDe(TablaDe(n)) : Clase(n) <= Clase(marcos[f].pagina)
<1>1. CpuPedirMarco
  <2>1. ASSUME NEW p \in Proc,
               Admitir(p) \/ Despachar(p) \/ Desalojar(p) \/ Bloquear(p) \/ Terminar(p)
                 \/ Suspender(p) \/ TerminarIO(p) \/ Reanudar(p) \/ Liberar(p)
        PROVE  FALSE
    BY <2>1 DEF Admitir, Despachar, Desalojar, Bloquear, Terminar, Dejar, Suspender, TerminarIO, Reanudar,
                Liberar, varsCpu, EntreAccesos
  <2>2. ASSUME NEW l \in Accesibles, NEW escribe \in BOOLEAN, CpuAcceder(l, escribe) PROVE FALSE
    BY <2>2 DEF CpuAcceder, EntreAccesos
  <2> QED BY <2>1, <2>2 DEF Next, CpuPedirTabla, CpuLeer, CpuEscribir, MemoriaEscribir, MemoriaAccederFuera, varsCpu
<1>2. cpu.pagina \in Pagina /\ ObtenerMarco(cpu.pagina) /\ MemInv
  BY <1>1, TiposDeCpu, DeIInv DEF CpuPedirMarco
<1> QED BY <1>2, VictimaDelReemplazo

-----------------------------------------------------------------------------
(* What Memory keeps of each process.                                      *)

\* Memory keeps of q what it kept: its table, its pages, its frames and what they hold, its
\* file and its place among the suspended ones.
Intacto(q) ==
  /\ \A j \in Tablas : tabla1'[j].id = q <=> tabla1[j].id = q
  /\ EstaSuspendido(q)' <=> EstaSuspendido(q)
  /\ EstaSuspendido(q) => suspendidos'[q] = suspendidos[q]
  /\ swap'[q] = swap[q]
  /\ \A n \in Pagina : tabla1[TablaDe(n)].id = q => tabla2'[n] = tabla2[n]
  /\ \A i \in Tablas : tabla1[i].id = q =>
       \A f \in MarcosDe(i) : marcos'[f] = marcos[f] /\ ram'[f] = ram[f]

\* The table of p once a request was served
LEMMA TablaPropiaDespues ==
  ASSUME UnAlojamiento', NEW p \in Proc, NEW j \in Tablas, tabla1'[j].id = p
  PROVE  TieneTabla(p)' /\ TablaNivel1(p)' = j
<1>1. TieneTabla(p)'
  BY DEF TieneTabla
<1>2. TablaNivel1(p)' \in Tablas /\ tabla1'[TablaNivel1(p)'].id = p
  BY DEF TablaNivel1
<1> HIDE DEF TablaNivel1
<1> QED BY <1>1, <1>2, ProcAssumption DEF UnAlojamiento, Libre

\* A page in memory is in a frame of its table, and the page of a frame in use in its table too.
LEMMA MarcoDePresente ==
  ASSUME MemInv, NEW n \in Pagina, tabla2[n].presencia
  PROVE  /\ tabla2[n].marco \in MarcosDe(TablaDe(n)) /\ tabla2[n].marco \in Marco
         /\ marcos[tabla2[n].marco] = [enUso |-> TRUE, pagina |-> n]
         /\ \A m \in Pagina : tabla2[m].presencia /\ tabla2[m].marco = tabla2[n].marco => m = n
<1>1. tabla2[n].marco \in Marco /\ marcos[tabla2[n].marco] = [enUso |-> TRUE, pagina |-> n]
  BY DEF MemInv, MarcosCoherentes
<1>2. tabla2[n].marco \in MarcosDe(TablaDe(n))
  BY <1>1 DEF MemInv, MarcosCoherentes
<1>3. ASSUME NEW m \in Pagina, tabla2[m].presencia, tabla2[m].marco = tabla2[n].marco PROVE m = n
  <2>1. marcos[tabla2[m].marco] = [enUso |-> TRUE, pagina |-> m]
    BY <1>3 DEF MemInv, MarcosCoherentes
  <2> QED BY <1>1, <1>3, <2>1
<1> QED BY <1>1, <1>2, <1>3

\* Cleaning the tables of a process leaves alone those of the others.
LEMMA LimpiarAjenos ==
  ASSUME MemInv, NEW p \in Proc, TieneTabla(p), LimpiarTablas(TablaNivel1(p)), NEW q \in Proc, q # p
  PROVE  /\ \A n \in Pagina : tabla1[TablaDe(n)].id = q => tabla2'[n] = tabla2[n]
         /\ \A i \in Tablas : tabla1[i].id = q => \A f \in MarcosDe(i) : marcos'[f] = marcos[f]
<1> DEFINE t == TablaNivel1(p)
<1>1. t \in Tablas /\ tabla1[t].id = p
  BY TablaPropia DEF MemInv
<1>2. /\ tabla2' = [n \in Pagina |-> IF n \in PaginasDe(t) THEN EntradaVacia ELSE tabla2[n]]
      /\ marcos' = [f \in Marco |-> IF f \in MarcosDe(t) THEN [enUso |-> FALSE, pagina |-> SinPagina]
                                                         ELSE marcos[f]]
  BY DEF LimpiarTablas
<1> HIDE DEF t
<1>3. ASSUME NEW n \in Pagina, tabla1[TablaDe(n)].id = q PROVE tabla2'[n] = tabla2[n]
  <2>1. n \notin PaginasDe(t)
    BY <1>1, <1>3, EntradaDePagina
  <2> QED BY <1>2, <2>1
<1>4. ASSUME NEW i \in Tablas, tabla1[i].id = q, NEW f \in MarcosDe(i) PROVE marcos'[f] = marcos[f]
  <2>1. i # t
    BY <1>1, <1>4
  <2>2. f \in Marco /\ f \notin MarcosDe(t)
    BY <1>1, <1>4, <2>1, MarcosDeTabla
  <2> QED BY <1>2, <2>2
<1> QED BY <1>3, <1>4

LEMMA CrearIntactos ==
  ASSUME MemInv, NEW p \in Proc, CrearProceso(p), algoritmo' = algoritmo, ~TieneTabla(p), ~EstaSuspendido(p),
         NEW q \in Proc, q # p
  PROVE  Intacto(q)
<1>1. Ajenos(p)
  BY PasoCrearProceso
<1>2. UNCHANGED <<tabla2, marcos, ram, suspendidos>> /\ swap'[q] = swap[q]
  BY DEF CrearProceso, MemInv, MemoriaTypeOK
<1> QED BY <1>1, <1>2 DEF Intacto, Ajenos

LEMMA SuspenderIntactos ==
  ASSUME MemInv, NEW p \in Proc, SuspenderProceso(p), algoritmo' = algoritmo,
         TieneTabla(p) \/ EstaSuspendido(p), NEW q \in Proc, q # p
  PROVE  Intacto(q)
<1>1. Ajenos(p)
  BY PasoSuspender
<1>2. CASE UNCHANGED memoria
  BY <1>1, <1>2 DEF Intacto, Ajenos, memoria
<1>3. CASE SuspenderAlojado(p)
  <2> DEFINE t == TablaNivel1(p)
             e == [l \in Local |-> tabla2[PaginaDe(t, l)]]
             Ocupa(f) == \E l \in Local : e[l].presencia /\ e[l].marco = f
  <2>1. TieneTabla(p) /\ t \in Tablas /\ tabla1[t].id = p /\ LimpiarTablas(t)
    BY <1>3, TablaPropia DEF SuspenderAlojado, MemInv
  <2>2. /\ ram' = [f \in Marco |-> IF Ocupa(f) THEN 0 ELSE ram[f]]
        /\ suspendidos' = [r \in DOMAIN suspendidos \union {p} |->
                             IF r = p THEN PaginasEnSwap(e) ELSE suspendidos[r]]
        /\ swap'[q] = swap[q]
    BY <1>3 DEF SuspenderAlojado, MemInv, MemoriaTypeOK
  <2>3. ASSUME NEW i \in Tablas, tabla1[i].id = q, NEW f \in MarcosDe(i) PROVE ram'[f] = ram[f]
    <3>1. f \in Marco /\ f \notin MarcosDe(t)
      BY <2>1, <2>3, MarcosDeTabla
    <3>2. ASSUME NEW l \in Local, e[l].presencia, e[l].marco = f PROVE FALSE
      <4> DEFINE n == PaginaDe(t, l)
      <4>1. n \in Pagina /\ TablaDe(n) = t
        BY <2>1, PaginaDeEntrada
      <4> HIDE DEF n, t
      <4>2. tabla2[n].presencia /\ tabla2[n].marco = f
        BY <3>2 DEF n
      <4> QED BY <3>1, <4>1, <4>2, MarcoDePresente
    <3> HIDE DEF t, e
    <3> QED BY <2>2, <3>1, <3>2
  <2> HIDE DEF t, e
  <2>4. EstaSuspendido(q) => suspendidos'[q] = suspendidos[q]
    BY <2>2 DEF EstaSuspendido
  <2>5. /\ \A n \in Pagina : tabla1[TablaDe(n)].id = q => tabla2'[n] = tabla2[n]
        /\ \A i \in Tablas : tabla1[i].id = q => \A f \in MarcosDe(i) : marcos'[f] = marcos[f]
    BY <2>1, LimpiarAjenos DEF t
  <2> QED BY <1>1, <2>2, <2>3, <2>4, <2>5, ZenonT(30) DEF Intacto, Ajenos
<1> QED BY <1>2, <1>3 DEF SuspenderProceso

LEMMA TerminarIntactos ==
  ASSUME MemInv, NEW p \in Proc, TerminarProceso(p), algoritmo' = algoritmo,
         TieneTabla(p) \/ EstaSuspendido(p), NEW q \in Proc, q # p
  PROVE  Intacto(q)
<1>1. Ajenos(p) /\ swap'[q] = swap[q] /\ ram' = ram
  BY PasoTerminarProceso DEF TerminarProceso, MemInv, MemoriaTypeOK
<1>2. CASE EstaSuspendido(p)
  <2>1. /\ suspendidos' = [r \in DOMAIN suspendidos \ {p} |-> suspendidos[r]]
        /\ UNCHANGED <<tabla1, tabla2, marcos>>
    BY <1>2 DEF TerminarProceso
  <2> QED BY <1>1, <2>1 DEF Intacto, Ajenos, EstaSuspendido
<1>3. CASE ~EstaSuspendido(p)
  <2>1. TieneTabla(p) /\ LimpiarTablas(TablaNivel1(p)) /\ suspendidos' = suspendidos
    BY <1>3 DEF TerminarProceso
  <2>2. /\ \A n \in Pagina : tabla1[TablaDe(n)].id = q => tabla2'[n] = tabla2[n]
        /\ \A i \in Tablas : tabla1[i].id = q => \A f \in MarcosDe(i) : marcos'[f] = marcos[f]
    BY <2>1, LimpiarAjenos
  <2> QED BY <1>1, <2>1, <2>2 DEF Intacto, Ajenos
<1> QED BY <1>2, <1>3

LEMMA TablaNivel2Intactos ==
  ASSUME MemInv, NEW p \in Proc, ObtenerTablaNivel2(p), algoritmo' = algoritmo, NEW q \in Proc, q # p
  PROVE  Intacto(q)
<1>1. Ajenos(p)
  BY PasoObtenerTablaNivel2
<1>2. CASE UNCHANGED memoria
  BY <1>1, <1>2 DEF Intacto, Ajenos, memoria
<1>3. CASE DespertarProceso(p)
  <2> DEFINE i == Min(TablasLibres)
  <2>1. i \in Tablas /\ tabla1[i].id = Libre
    BY <1>3, PrimeraTablaLibre DEF DespertarProceso
  <2>2. /\ tabla2' = [n \in Pagina |-> IF n \in PaginasDe(i) /\ Indice(n) \in suspendidos[p]
                                       THEN [tabla2[n] EXCEPT !.enSwap = TRUE] ELSE tabla2[n]]
        /\ suspendidos' = [r \in DOMAIN suspendidos \ {p} |-> suspendidos[r]]
        /\ UNCHANGED <<marcos, ram, swap>>
    BY <1>3 DEF DespertarProceso
  <2> HIDE DEF i
  <2>3. ASSUME NEW n \in Pagina, tabla1[TablaDe(n)].id = q PROVE tabla2'[n] = tabla2[n]
    <3>1. n \notin PaginasDe(i)
      BY <2>1, <2>3, EntradaDePagina, ProcAssumption DEF Libre
    <3> QED BY <2>2, <3>1
  <2> QED BY <1>1, <2>2, <2>3 DEF Intacto, Ajenos, EstaSuspendido
<1> QED BY <1>2, <1>3 DEF ObtenerTablaNivel2

-----------------------------------------------------------------------------
(* The TLB, when the Kernel keeps its pace (Puntual).                      *)

\* The translations of the last process dispatched hold while it keeps its table and their
\* frames.
LEMMA TraduceQueda ==
  ASSUME UnAlojamiento, UnAlojamiento', NEW u \in Proc, pidProcesoEnExec = u, pidProcesoEnExec' = u,
         \A j \in Tablas : tabla1'[j].id = u <=> tabla1[j].id = u,
         NEW f \in Marco, NEW l \in Local, marcos'[f] = marcos[f], Traduce(f, l)
  PROVE  Traduce(f, l)'
<1> DEFINE t == TablaNivel1(u)
<1>1. TieneTabla(u) /\ marcos[f] = [enUso |-> TRUE, pagina |-> PaginaDe(t, l)]
  BY DEF Traduce
<1>2. t \in Tablas /\ tabla1[t].id = u
  BY <1>1, TablaPropia
<1> HIDE DEF t
<1>3. TieneTabla(u)' /\ TablaNivel1(u)' = t
  BY <1>2, TablaPropiaDespues
<1>4. TieneTabla(pidProcesoEnExec)' /\ TablaNivel1(pidProcesoEnExec)' = t
  BY <1>3 DEF TieneTabla, TablaNivel1
<1> HIDE DEF TablaNivel1, TieneTabla
<1>5. PaginaDe(TablaNivel1(pidProcesoEnExec), l)' = PaginaDe(t, l)
  BY <1>4 DEF PaginaDe
<1> QED BY <1>1, <1>4, <1>5 DEF Traduce

\* The same, of a process that Memory leaves alone
LEMMA TraduceIntacto ==
  ASSUME MemInv, MemInv', NEW u \in Proc, pidProcesoEnExec = u, pidProcesoEnExec' = u, Intacto(u),
         NEW f \in Marco, NEW l \in Local, Traduce(f, l)
  PROVE  Traduce(f, l)'
<1> DEFINE t == TablaNivel1(u)
           n == PaginaDe(t, l)
<1>1. t \in Tablas /\ tabla1[t].id = u /\ marcos[f] = [enUso |-> TRUE, pagina |-> n]
  BY TablaPropia DEF Traduce, MemInv
<1>2. n \in Pagina /\ TablaDe(n) = t
  BY <1>1, PaginaDeEntrada
<1> HIDE DEF t, n
<1>3. f \in MarcosDe(t)
  BY <1>1, <1>2 DEF MemInv, MarcosCoherentes
<1>4. marcos'[f] = marcos[f]
  BY <1>1, <1>3 DEF Intacto
<1> QED BY <1>4, TraduceQueda DEF Intacto, MemInv

\* A step that leaves every process intact
LEMMA SinMemoriaIntactos ==
  ASSUME UNCHANGED memoria, NEW q \in Proc
  PROVE  Intacto(q)
BY DEF Intacto, memoria, EstaSuspendido

\* A step of the Kernel with the process p, which is not in the CPU: the TLB is as coherent
\* as it was, or expires.
LEMMA TlbDelKernel ==
  ASSUME IInv, IInv', TlbInv, NEW p \in Proc, proceso[p] # "ejecutando", UNCHANGED varsCpu,
         Ejecuta' = Ejecuta,
         \A q \in Proc : q # p => Intacto(q),
         temporizados' \in Seq(Proc), TimersEnOrden',
         tlb # << >> /\ TlbVencida => TlbVencida',
         tlb # << >> /\ pidProcesoEnExec = p => TlbVencida' \/ Intacto(p)
  PROVE  TlbInv'
<1>1. UNCHANGED <<pidProcesoEnExec, cpu, tlb, escrituras>> /\ MemInv /\ MemInv' /\ tlb \in Seq(EntradaTlb)
  BY TiposDeCpu DEF varsCpu, IInv, MemInv, TypeOK
<1>2. ASSUME tlb # << >> PROVE pidProcesoEnExec \in Proc /\ (TlbDelUltimo' \/ TlbVencida')
  <2>1. PICK u \in Proc : u = pidProcesoEnExec
    BY <1>2 DEF TlbInv
  <2>2. TlbVencida' \/ (TlbDelUltimo /\ Intacto(u))
    BY <1>2, <2>1 DEF TlbInv
  <2>3. ASSUME TlbDelUltimo, Intacto(u) PROVE TlbDelUltimo'
    <3>1. ASSUME NEW k \in 1..Len(tlb) PROVE Traduce(tlb[k].marco, tlb[k].pagina)'
      <4>1. tlb[k].marco \in Marco /\ tlb[k].pagina \in Local
        <5>1. tlb[k] \in EntradaTlb
          BY <1>1, ElementOfSeq
        <5> QED BY <5>1 DEF EntradaTlb
      <4>2. PICK f \in Marco, l \in Local : f = tlb[k].marco /\ l = tlb[k].pagina
        BY <4>1
      <4>3. Traduce(f, l)
        BY <2>3, <4>2 DEF TlbDelUltimo
      <4>4. Traduce(f, l)'
        BY <1>1, <2>1, <2>3, <4>3, TraduceIntacto
      <4> QED BY <1>1, <4>2, <4>4 DEF Traduce
    <3> QED BY <1>1, <3>1 DEF TlbDelUltimo
  <2> QED BY <2>1, <2>2, <2>3
<1>3. AccesoTraducido'
  <2>1. ASSUME cpu.paso = "acceso" PROVE Traduce(cpu.marco, cpu.indice)'
    <3>1. PICK u \in Proc : u = pidProcesoEnExec /\ u # p
      BY <2>1 DEF TlbInv, AccesoTraducido, Ejecuta
    <3>2. PICK f \in Marco, l \in Local : f = cpu.marco /\ l = cpu.indice
      BY TiposDeCpu
    <3>3. Traduce(f, l)
      BY <2>1, <3>2 DEF TlbInv, AccesoTraducido
    <3>4. Traduce(f, l)'
      BY <1>1, <3>1, <3>3, TraduceIntacto
    <3> QED BY <1>1, <3>2, <3>4 DEF Traduce
  <2> QED BY <1>1, <2>1 DEF TlbInv, AccesoTraducido
<1>4. tlb' # << >> => pidProcesoEnExec' \in Proc /\ (TlbDelUltimo' \/ TlbVencida')
  BY <1>1, <1>2
<1> QED BY <1>1, <1>3, <1>4 DEF TlbInv

\* The timers, when p takes a place that is not that of the blocked ones, and its timer does not run.
LEMMA TimersDeOtros ==
  ASSUME TimersEnOrden, UNCHANGED <<temporizados, pidProcesoEnExec>>, NEW p \in Proc,
         \A q : q # p => proceso'[q] = proceso[q], proceso[p] # "bloqueado"
  PROVE  TimersEnOrden'
BY DEF TimersEnOrden

LEMMA TlbAdmitir ==
  ASSUME IInv, IInv', TlbInv, NEW p \in Proc, Admitir(p), algoritmo' = algoritmo
  PROVE  TlbInv'
<1>1. /\ Pasar(p, "nuevo", "listo") /\ CrearProceso(p)
      /\ UNCHANGED <<temporizados, ultimoPIDSuspendido, varsCpu>>
  BY DEF Admitir
<1>2. /\ proceso[p] = "nuevo" /\ proceso'[p] = "listo" /\ proceso' = [proceso EXCEPT ![p] = "listo"]
      /\ \A q : q # p => proceso'[q] = proceso[q]
  BY <1>1, DeIInv DEF Pasar, TypeOK
<1>3. ~TieneTabla(p) /\ ~EstaSuspendido(p)
  BY <1>2, DeIInv DEF Alojado
<1>4. \A q \in Proc : q # p => Intacto(q)
  BY <1>1, <1>3, CrearIntactos, DeIInv
<1>5. Ejecuta' = Ejecuta
  BY <1>2 DEF Ejecuta
<1>6. TimersEnOrden'
  BY <1>1, <1>2, TimersDeOtros DEF TlbInv, varsCpu
<1>7. tlb # << >> => pidProcesoEnExec # p
  <2> SUFFICES ASSUME tlb # << >>, pidProcesoEnExec = p PROVE FALSE
    OBVIOUS
  <2>1. ~TlbVencida
    BY <1>2 DEF TlbVencida
  <2>2. 1 \in 1..Len(tlb)
    BY TiposDeCpu, EmptySeq
  <2> QED BY <1>3, <2>1, <2>2 DEF TlbInv, TlbDelUltimo, Traduce
<1>8. tlb # << >> /\ TlbVencida => TlbVencida'
  BY <1>1, <1>2, <1>7 DEF TlbVencida, varsCpu
<1> QED BY <1>1, <1>2, <1>4, <1>5, <1>6, <1>7, <1>8, TlbDelKernel DEF TlbInv

\* The timer of the last process to block is the last to go off: if it is the one that was
\* dispatched last, no other runs.
LEMMA TlbSuspender ==
  ASSUME Puntual, IInv, IInv', TlbInv, NEW p \in Proc, Suspender(p), algoritmo' = algoritmo
  PROVE  TlbInv'
<1>0. PICK k \in 1..Len(temporizados) :
        /\ temporizados[k] = p
        /\ temporizados' = SubSeq(temporizados, k + 1, Len(temporizados))
  BY DEF Suspender
<1>1. /\ Pasar(p, "bloqueado", "suspendido") /\ SuspenderProceso(p)
      /\ ultimoPIDSuspendido' = p /\ UNCHANGED varsCpu
  BY DEF Suspender
<1>2. /\ proceso[p] = "bloqueado" /\ proceso'[p] = "suspendido"
      /\ proceso' = [proceso EXCEPT ![p] = "suspendido"] /\ \A q : q # p => proceso'[q] = proceso[q]
  BY <1>1, DeIInv DEF Pasar, TypeOK
<1>3. TieneTabla(p) \/ EstaSuspendido(p)
  BY <1>2, DeIInv DEF Alojado, Admitidos
<1>4. \A q \in Proc : q # p => Intacto(q)
  BY <1>1, <1>3, SuspenderIntactos, DeIInv
<1>5. Ejecuta' = Ejecuta
  BY <1>2 DEF Ejecuta
<1> DEFINE s == temporizados
           n == Len(temporizados)
<1>6. s \in Seq(Proc) /\ n \in Nat /\ k \in 1..n /\ \A i \in 1..n : s[i] \in Proc
  BY <1>0, ElementOfSeq, LenProperties DEF TlbInv
<1>7. /\ temporizados' \in Seq(Proc) /\ Len(temporizados') = n - k
      /\ \A i \in 1..(n - k) : temporizados'[i] = s[k + i]
  BY <1>0, <1>6, SubSeqProperties
<1>8. TimersEnOrden'
  <2>1. /\ \A i \in 1..n : proceso[s[i]] = "bloqueado"
        /\ \A i, j \in 1..n : s[j] = s[i] => j = i
        /\ \A i \in 1..n : s[i] = pidProcesoEnExec => i = n
    BY DEF TlbInv, TimersEnOrden
  <2> HIDE DEF s, n
  <2>2. ASSUME NEW i \in 1..(n - k)
        PROVE  /\ proceso'[temporizados'[i]] = "bloqueado"
               /\ \A j \in 1..(n - k) : temporizados'[j] = temporizados'[i] => j = i
               /\ temporizados'[i] = pidProcesoEnExec => i = n - k
    <3>1. k + i \in 1..n /\ temporizados'[i] = s[k + i] /\ s[k] = p /\ k + i # k
      BY <1>0, <1>6, <1>7 DEF s
    <3>2. s[k + i] # p
      BY <1>6, <2>1, <3>1
    <3>3. proceso'[temporizados'[i]] = "bloqueado"
      BY <1>2, <2>1, <3>1, <3>2
    <3>4. ASSUME NEW j \in 1..(n - k), temporizados'[j] = temporizados'[i] PROVE j = i
      <4>1. k + j \in 1..n /\ temporizados'[j] = s[k + j]
        BY <1>6, <1>7
      <4>2. k + j = k + i
        BY <2>1, <3>1, <3>4, <4>1
      <4> QED BY <1>6, <4>2
    <3>5. temporizados'[i] = pidProcesoEnExec => i = n - k
      <4>1. s[k + i] = pidProcesoEnExec => k + i = n
        BY <2>1, <3>1
      <4> QED BY <1>6, <3>1, <4>1
    <3> QED BY <3>3, <3>4, <3>5
  <2> QED BY <1>1, <1>7, <2>2 DEF TimersEnOrden, varsCpu
<1>9. tlb # << >> /\ TlbVencida => TlbVencida'
  <2>1. temporizados # << >>
    BY <1>6, EmptySeq
  <2>2. pidProcesoEnExec # p /\ TlbVencida => TlbVencida'
    BY <1>1, <1>2, <2>1 DEF TlbVencida, varsCpu
  <2>3. pidProcesoEnExec = p => ~TlbVencida
    BY <1>2 DEF TlbVencida
  <2> QED BY <2>2, <2>3
<1>10. pidProcesoEnExec = p => TlbVencida'
  <2> SUFFICES ASSUME pidProcesoEnExec = p PROVE TlbVencida'
    OBVIOUS
  <2>1. k = n
    BY <1>0 DEF TlbInv, TimersEnOrden
  <2>2. temporizados' = << >>
    <3>1. k + 1 \in Int /\ n \in Int /\ n < k + 1
      BY <1>6, <2>1
    <3> HIDE DEF n
    <3>2. SubSeq(temporizados, k + 1, n) = << >>
      BY <3>1, SubSeqEmpty
    <3> QED BY <1>0, <3>2 DEF n
  <2> QED BY <1>1, <1>2, <2>2 DEF TlbVencida, varsCpu
<1> QED BY <1>1, <1>2, <1>4, <1>5, <1>7, <1>8, <1>9, <1>10, TlbDelKernel

\* The I/O of p ended: its timer is taken out, or had gone off.
LEMMA TlbTerminarIO ==
  ASSUME IInv, IInv', TlbInv, NEW p \in Proc, TerminarIO(p), algoritmo' = algoritmo
  PROVE  TlbInv'
<1>1. Pasar(p, "bloqueado", "listo") /\ UNCHANGED <<memoria, ultimoPIDSuspendido, varsCpu>>
  BY DEF TerminarIO
<1>2. /\ proceso[p] = "bloqueado" /\ proceso'[p] = "listo"
      /\ proceso' = [proceso EXCEPT ![p] = "listo"] /\ \A q : q # p => proceso'[q] = proceso[q]
  BY <1>1, DeIInv DEF Pasar, TypeOK
<1>3. \A q \in Proc : Intacto(q)
  BY <1>1, SinMemoriaIntactos
<1>4. Ejecuta' = Ejecuta
  BY <1>2 DEF Ejecuta
<1> DEFINE s == temporizados
           n == Len(temporizados)
<1>5. s \in Seq(Proc) /\ n \in Nat
  BY LenProperties DEF TlbInv
<1>6. /\ \A i \in 1..n : proceso[s[i]] = "bloqueado"
      /\ \A i, j \in 1..n : s[j] = s[i] => j = i
      /\ \A i \in 1..n : s[i] = pidProcesoEnExec => i = n
  BY DEF TlbInv, TimersEnOrden
<1>7. /\ temporizados' \in Seq(Proc) /\ TimersEnOrden'
      /\ temporizados = << >> => temporizados' = << >>
  <2>1. ASSUME NEW k \in 1..n, s[k] = p, temporizados' = RemoveAt(s, k)
        PROVE  temporizados' \in Seq(Proc) /\ TimersEnOrden' /\ temporizados # << >>
    <3> DEFINE r == RemoveAt(s, k)
    <3>1. k \in 1..Len(s)
      OBVIOUS
    <3>2. r \in Seq(Proc) /\ Len(r) = n - 1
      BY <1>5, <3>1, RemoveAtProperties
    <3>3. \A i \in 1..(n - 1) : r[i] = IF i < k THEN s[i] ELSE s[i + 1]
      BY <1>5, <3>1, RemoveAtElementos
    <3>4. temporizados # << >>
      BY <1>5, <3>1, EmptySeq
    <3> HIDE DEF r, s, n
    <3>5. \A i \in 1..(n - 1) : r[i] # p
      BY <1>5, <1>6, <2>1, <3>3
    <3>6. \A i \in 1..(n - 1) : proceso'[r[i]] = "bloqueado"
      <4>1. \A i \in 1..(n - 1) : proceso[r[i]] = "bloqueado"
        BY <1>5, <1>6, <3>3
      <4> QED BY <1>2, <3>5, <4>1
    <3>7. \A i, j \in 1..(n - 1) : r[j] = r[i] => j = i
      BY <1>5, <1>6, <3>3
    <3>8. \A i \in 1..(n - 1) : r[i] = pidProcesoEnExec => i = n - 1
      BY <1>5, <1>6, <3>3, <2>1
    <3>9. temporizados' = r /\ Len(temporizados') = n - 1
      BY <2>1, <3>2 DEF r
    <3> QED BY <1>1, <3>2, <3>4, <3>6, <3>7, <3>8, <3>9 DEF TimersEnOrden, varsCpu
  <2>2. ASSUME \A k \in 1..n : s[k] # p, temporizados' = temporizados
        PROVE  temporizados' \in Seq(Proc) /\ TimersEnOrden'
    <3>1. \A i \in 1..n : proceso'[s[i]] = "bloqueado"
      BY <1>2, <1>6, <2>2
    <3> QED BY <1>1, <1>5, <1>6, <2>2, <3>1 DEF TimersEnOrden, varsCpu
  <2> QED BY <2>1, <2>2 DEF TerminarIO
<1>8. tlb # << >> /\ TlbVencida => TlbVencida'
  <2>1. pidProcesoEnExec # p /\ TlbVencida => TlbVencida'
    BY <1>1, <1>2, <1>7 DEF TlbVencida, varsCpu
  <2>2. pidProcesoEnExec = p => ~TlbVencida
    BY <1>2 DEF TlbVencida
  <2> QED BY <2>1, <2>2
<1> QED BY <1>1, <1>2, <1>3, <1>4, <1>7, <1>8, TlbDelKernel

LEMMA TlbReanudar ==
  ASSUME IInv, IInv', TlbInv, NEW p \in Proc, Reanudar(p), algoritmo' = algoritmo
  PROVE  TlbInv'
<1>1. Pasar(p, "suspendido", "listo") /\ UNCHANGED <<memoria, temporizados, ultimoPIDSuspendido, varsCpu>>
  BY DEF Reanudar
<1>2. /\ proceso[p] = "suspendido" /\ proceso'[p] = "listo"
      /\ proceso' = [proceso EXCEPT ![p] = "listo"] /\ \A q : q # p => proceso'[q] = proceso[q]
  BY <1>1, DeIInv DEF Pasar, TypeOK
<1>3. \A q \in Proc : Intacto(q)
  BY <1>1, SinMemoriaIntactos
<1>4. Ejecuta' = Ejecuta
  BY <1>2 DEF Ejecuta
<1>5. TimersEnOrden'
  BY <1>1, <1>2, TimersDeOtros DEF TlbInv, varsCpu
<1>6. TlbVencida => TlbVencida'
  BY <1>1, <1>2 DEF TlbVencida, varsCpu
<1> QED BY <1>1, <1>2, <1>3, <1>4, <1>5, <1>6, TlbDelKernel DEF TlbInv

LEMMA TlbLiberar ==
  ASSUME IInv, IInv', TlbInv, NEW p \in Proc, Liberar(p), algoritmo' = algoritmo
  PROVE  TlbInv'
<1>1. /\ Pasar(p, "terminado", "liberado") /\ TerminarProceso(p)
      /\ UNCHANGED <<temporizados, ultimoPIDSuspendido, varsCpu>>
  BY DEF Liberar
<1>2. /\ proceso[p] = "terminado" /\ proceso'[p] = "liberado"
      /\ proceso' = [proceso EXCEPT ![p] = "liberado"] /\ \A q : q # p => proceso'[q] = proceso[q]
  BY <1>1, DeIInv DEF Pasar, TypeOK
<1>3. TieneTabla(p) \/ EstaSuspendido(p)
  BY <1>2, DeIInv DEF Alojado, Admitidos
<1>4. \A q \in Proc : q # p => Intacto(q)
  BY <1>1, <1>3, TerminarIntactos, DeIInv
<1>5. Ejecuta' = Ejecuta
  BY <1>2 DEF Ejecuta
<1>6. TimersEnOrden'
  BY <1>1, <1>2, TimersDeOtros DEF TlbInv, varsCpu
<1>7. pidProcesoEnExec = p => TlbVencida'
  BY <1>1, <1>2 DEF TlbVencida, varsCpu
<1>8. TlbVencida => TlbVencida'
  BY <1>1, <1>2, <1>7 DEF TlbVencida, varsCpu
<1> QED BY <1>1, <1>2, <1>4, <1>5, <1>6, <1>7, <1>8, TlbDelKernel DEF TlbInv

\* A process that goes on with the TLB it left finds it coherent: it is the last one that was
\* dispatched, and not the last one that was suspended.
LEMMA TlbDespachar ==
  ASSUME IInv, IInv', TlbInv, NEW p \in Proc, Despachar(p), algoritmo' = algoritmo
  PROVE  TlbInv'
<1>1. /\ Ejecuta = {} /\ Pasar(p, "listo", "ejecutando") /\ pidProcesoEnExec' = p
      /\ tlb' = IF ultimoPIDSuspendido = p \/ pidProcesoEnExec # p THEN << >> ELSE tlb
      /\ UNCHANGED <<memoria, temporizados, ultimoPIDSuspendido, cpu, escrituras>>
  BY DEF Despachar
<1>2. proceso[p] = "listo" /\ \A q : q # p => proceso'[q] = proceso[q]
  BY <1>1, DeIInv DEF Pasar, TypeOK
<1>3. AccesoTraducido'
  <2>1. cpu.paso = "libre" /\ cpu = EnReposo
    BY <1>1 DEF TlbInv, AccesoTraducido
  <2> QED BY <1>1, <2>1 DEF AccesoTraducido
<1>4. TimersEnOrden'
  <2>1. \A k \in 1..Len(temporizados) : temporizados[k] # p
    BY <1>2 DEF TlbInv, TimersEnOrden
  <2> QED BY <1>1, <1>2, <2>1 DEF TlbInv, TimersEnOrden
<1>5. ASSUME tlb' # << >> PROVE TlbDelUltimo'
  <2>1. tlb' = tlb /\ tlb # << >> /\ pidProcesoEnExec = p /\ ultimoPIDSuspendido # p
    BY <1>1, <1>5
  <2>2. TlbDelUltimo
    BY <1>2, <2>1 DEF TlbInv, TlbVencida
  <2> QED BY <1>1, <2>1, <2>2 DEF TlbDelUltimo, Traduce, TieneTabla, TablaNivel1, memoria
<1>6. Len(tlb') <= ENTRADAS_TLB
  <2>1. Len(<< >>) = 0
    OBVIOUS
  <2> QED BY <1>1, <2>1, SistemaAssumption DEF TlbInv
<1> QED BY <1>1, <1>3, <1>4, <1>5, <1>6 DEF TlbInv

\* While a process is in the CPU, the TLB is its own.
LEMMA TlbEnUso ==
  ASSUME IInv, TlbInv, Ejecuta # {}
  PROVE  /\ pidProcesoEnExec \in Proc /\ Ejecuta = {pidProcesoEnExec} /\ ~TlbVencida
         /\ TlbDelUltimo
<1>1. pidProcesoEnExec \in Proc /\ Ejecuta = {pidProcesoEnExec} /\ proceso[pidProcesoEnExec] = "ejecutando"
  BY DeIInv DEF AccesoEnCurso, Ejecuta
<1>2. ~TlbVencida
  BY <1>1 DEF TlbVencida
<1>3. tlb = << >> => TlbDelUltimo
  <2>1. Len(<< >>) = 0
    OBVIOUS
  <2> QED BY <2>1 DEF TlbDelUltimo
<1> QED BY <1>1, <1>2, <1>3 DEF TlbInv

\* Desalojar, Bloquear and Terminar
LEMMA TlbDejar ==
  ASSUME IInv, IInv', TlbInv, NEW p \in Proc, Desalojar(p) \/ Bloquear(p) \/ Terminar(p),
         algoritmo' = algoritmo
  PROVE  TlbInv'
<1>0. PICK a \in {"listo", "bloqueado", "terminado"} :
        /\ Dejar(p, a)
        /\ \/ a # "bloqueado" /\ temporizados' = temporizados
           \/ a = "bloqueado" /\ temporizados' = Append(temporizados, p)
  BY DEF Desalojar, Bloquear, Terminar
<1>1. /\ EntreAccesos /\ Pasar(p, "ejecutando", a) /\ cpu' = EnReposo
      /\ UNCHANGED <<memoria, ultimoPIDSuspendido, pidProcesoEnExec, tlb, escrituras>>
  BY <1>0 DEF Dejar
<1>2. /\ proceso[p] = "ejecutando" /\ proceso'[p] = a /\ p \in Ejecuta
      /\ \A q : q # p => proceso'[q] = proceso[q]
  BY <1>1, DeIInv DEF Pasar, TypeOK, Ejecuta
<1>3. TlbDelUltimo /\ pidProcesoEnExec = p
  BY <1>2, TlbEnUso
<1>4. TlbDelUltimo'
  BY <1>1, <1>3 DEF TlbDelUltimo, Traduce, TieneTabla, TablaNivel1, memoria
<1>5. AccesoTraducido'
  BY <1>1 DEF AccesoTraducido, EnReposo
<1> DEFINE s == temporizados
           n == Len(temporizados)
<1>6. /\ \A i \in 1..n : proceso[s[i]] = "bloqueado"
      /\ \A i, j \in 1..n : s[j] = s[i] => j = i
      /\ s \in Seq(Proc) /\ n \in Nat
  BY LenProperties DEF TlbInv, TimersEnOrden
<1>7. \A i \in 1..n : s[i] # p /\ proceso'[s[i]] = "bloqueado"
  BY <1>2, <1>6
<1>8. temporizados' \in Seq(Proc) /\ TimersEnOrden'
  <2>1. CASE temporizados' = temporizados
    BY <1>1, <1>3, <1>6, <1>7, <2>1 DEF TimersEnOrden
  <2>2. CASE temporizados' = Append(s, p) /\ a = "bloqueado"
    <3> DEFINE r == Append(s, p)
    <3>1. r \in Seq(Proc) /\ Len(r) = n + 1 /\ (\A i \in 1..n : r[i] = s[i]) /\ r[n + 1] = p
      BY <1>6, AppendProperties
    <3> HIDE DEF r, s, n
    <3>2. \A i \in 1..(n + 1) : proceso'[r[i]] = "bloqueado"
      BY <1>2, <1>6, <1>7, <2>2, <3>1
    <3>3. \A i, j \in 1..(n + 1) : r[j] = r[i] => j = i
      BY <1>6, <1>7, <3>1
    <3>4. \A i \in 1..(n + 1) : r[i] = p => i = n + 1
      BY <1>6, <1>7, <3>1
    <3>5. temporizados' = r /\ pidProcesoEnExec' = p
      BY <1>1, <1>3, <2>2 DEF r
    <3> QED BY <3>1, <3>2, <3>3, <3>4, <3>5 DEF TimersEnOrden
  <2> QED BY <1>0, <2>1, <2>2
<1> QED BY <1>1, <1>3, <1>4, <1>5, <1>8 DEF TlbInv

\* A step of the CPU, or of Memory for it, while its process is in it: the kernel does not move.
LEMMA TlbDeLaCpu ==
  ASSUME IInv', TlbInv, UNCHANGED <<kernel, pidProcesoEnExec>>, Len(tlb') <= ENTRADAS_TLB,
         Ejecuta = {pidProcesoEnExec}, pidProcesoEnExec \in Proc, TlbDelUltimo', AccesoTraducido'
  PROVE  TlbInv'
<1>1. TimersEnOrden'
  BY DEF TlbInv, TimersEnOrden, kernel
<1> QED BY <1>1 DEF TlbInv, kernel

\* The access and the translations hold when neither the frames nor the owners of the tables change.
LEMMA TraducenIgual ==
  ASSUME UNCHANGED <<tabla1, marcos, pidProcesoEnExec>>
  PROVE  /\ \A f, l : Traduce(f, l)' <=> Traduce(f, l)
         /\ tlb' = tlb /\ TlbDelUltimo => TlbDelUltimo'
BY DEF TlbDelUltimo, Traduce, TieneTabla, TablaNivel1

LEMMA TlbCpuAcceder ==
  ASSUME IInv, IInv', TlbInv, NEW l \in Accesibles, NEW escribe \in BOOLEAN, CpuAcceder(l, escribe)
  PROVE  TlbInv'
<1>1. /\ Ejecuta # {} /\ UNCHANGED <<memoria, kernel, pidProcesoEnExec, escrituras>>
      /\ UNCHANGED <<tabla1, marcos>> /\ l \in Local
  BY SistemaAssumption DEF CpuAcceder, memoria
<1>2. /\ Ejecuta = {pidProcesoEnExec} /\ pidProcesoEnExec \in Proc /\ TlbDelUltimo
      /\ Ejecuta' = Ejecuta
  BY <1>1, TlbEnUso DEF Ejecuta, kernel
<1>3. tlb \in Seq(EntradaTlb)
  BY TiposDeCpu
<1>4. CASE Tlb!Tiene(tlb, l)
  <2> DEFINE k == Tlb!Posicion(tlb, l)
             n == Len(tlb)
  <2>1. k \in 1..n /\ tlb[k].pagina = l /\ tlb[k] \in EntradaTlb /\ n \in Nat
    <3>1. k \in 1..n /\ tlb[k].pagina = l
      BY <1>4 DEF Tlb!Tiene, Tlb!De, Tlb!Posicion
    <3> HIDE DEF k
    <3> QED BY <1>3, <3>1, ElementOfSeq, LenProperties
  <2>2. /\ tlb' = Tlb!Referida(tlb, l, AlgoritmoTlb)
        /\ cpu' = [EnReposo EXCEPT !.paso = "acceso", !.indice = l, !.escribe = escribe,
                                   !.marco = tlb[k].marco]
    BY <1>4 DEF CpuAcceder, Tlb!Traducida
  <2>3. /\ Len(tlb') = n
        /\ \A j \in 1..Len(tlb') : \E h \in 1..n : tlb'[j] = tlb[h]
    <3>1. tlb' = tlb \/ tlb' = Append(RemoveAt(tlb, k), tlb[k])
      <4>1. Tlb!RemoveAt(tlb, k) = RemoveAt(tlb, k)
        BY DEF Tlb!RemoveAt, RemoveAt
      <4> QED BY <2>2, <4>1 DEF Tlb!Referida, Tlb!Traducida
    <3> HIDE DEF k
    <3>2. ASSUME tlb' = Append(RemoveAt(tlb, k), tlb[k])
          PROVE  Len(tlb') = n /\ \A j \in 1..n : \E h \in 1..n : tlb'[j] = tlb[h]
      <4> DEFINE r == RemoveAt(tlb, k)
      <4>1. r \in Seq(EntradaTlb) /\ Len(r) = n - 1
        BY <1>3, <2>1, RemoveAtProperties
      <4>2. \A j \in 1..(n - 1) : r[j] = IF j < k THEN tlb[j] ELSE tlb[j + 1]
        BY <1>3, <2>1, RemoveAtElementos
      <4> HIDE DEF r
      <4>3. /\ Len(Append(r, tlb[k])) = Len(r) + 1
            /\ \A j \in 1..Len(r) : Append(r, tlb[k])[j] = r[j]
            /\ Append(r, tlb[k])[Len(r) + 1] = tlb[k]
        BY <2>1, <4>1, AppendProperties
      <4>4. tlb' = Append(r, tlb[k])
        BY <3>2 DEF r
      <4> HIDE DEF n
      <4>5. Len(tlb') = n /\ tlb'[n] = tlb[k] /\ \A j \in 1..(n - 1) : tlb'[j] = r[j]
        BY <2>1, <4>1, <4>3, <4>4
      <4> QED BY <2>1, <4>2, <4>5
    <3>3. CASE tlb' = tlb
      BY <3>3
    <3> QED BY <3>1, <3>2, <3>3
  <2> HIDE DEF k, n
  <2>4. TlbDelUltimo'
    <3>1. \A h \in 1..n : Traduce(tlb[h].marco, tlb[h].pagina)
      BY <1>2 DEF TlbDelUltimo, n
    <3>2. \A h \in 1..n : Traduce(tlb[h].marco, tlb[h].pagina)
                           => \A j \in 1..Len(tlb') : tlb'[j] = tlb[h] => Traduce(tlb'[j].marco, tlb'[j].pagina)
      OBVIOUS
    <3>3. \A j \in 1..Len(tlb') : Traduce(tlb'[j].marco, tlb'[j].pagina)
      BY <2>3, <3>1, <3>2
    <3> QED BY <1>1, <3>3 DEF TlbDelUltimo, Traduce, TieneTabla, TablaNivel1
  <2>5. AccesoTraducido'
    <3>1. cpu'.paso = "acceso" /\ cpu'.marco = tlb[k].marco /\ cpu'.indice = l
      BY <2>2 DEF EnReposo
    <3>2. Traduce(tlb[k].marco, l)
      BY <1>2, <2>1 DEF TlbDelUltimo, n
    <3>3. Traduce(cpu'.marco, cpu'.indice)
      BY <3>1, <3>2
    <3>4. Traduce(cpu.marco, cpu.indice)'
      BY <1>1, <3>3 DEF Traduce, TieneTabla, TablaNivel1
    <3> QED BY <1>1, <1>2, <3>1, <3>4 DEF AccesoTraducido
  <2> QED BY <1>1, <1>2, <2>3, <2>4, <2>5, TlbDeLaCpu DEF TlbInv, n
<1>5. CASE ~Tlb!Tiene(tlb, l)
  <2>1. cpu' = [EnReposo EXCEPT !.paso = "tabla", !.indice = l, !.escribe = escribe] /\ tlb' = tlb
    BY <1>5 DEF CpuAcceder
  <2>2. TlbDelUltimo'
    BY <1>1, <1>2, <2>1, TraducenIgual
  <2>3. AccesoTraducido'
    BY <1>1, <1>2, <2>1 DEF AccesoTraducido, EnReposo
  <2> QED BY <1>1, <1>2, <2>1, <2>2, <2>3, TlbDeLaCpu DEF TlbInv
<1> QED BY <1>4, <1>5

\* The process in execution has no table only if it was resumed, and then the TLB is empty.
LEMMA TlbCpuPedirTabla ==
  ASSUME IInv, IInv', TlbInv, CpuPedirTabla, algoritmo' = algoritmo
  PROVE  TlbInv'
<1>0. PICK p \in Proc : p = pidProcesoEnExec
  BY TiposDeCpu DEF CpuPedirTabla, EntreAccesos
<1> DEFINE i == CHOOSE i \in Tablas : tabla1'[i].id = p
<1>1. /\ cpu.paso = "tabla" /\ ObtenerTablaNivel2(p)
      /\ cpu' = [cpu EXCEPT !.paso = "marco", !.pagina = PaginaDe(i, cpu.indice)]
      /\ UNCHANGED <<kernel, pidProcesoEnExec, tlb, escrituras>>
  BY <1>0 DEF CpuPedirTabla
<1>2. /\ Ejecuta = {p} /\ TlbDelUltimo /\ Ejecuta' = Ejecuta
  BY <1>0, <1>1, TlbEnUso, TiposDeCpu DEF EntreAccesos, Ejecuta, kernel
<1>3. TieneTabla(p)'
  BY <1>1, DeIInv, PasoObtenerTablaNivel2
<1>4. i \in Tablas
  BY <1>3 DEF TieneTabla
<1> HIDE DEF i
<1>5. Indice(PaginaDe(i, cpu.indice)) = cpu.indice
  BY <1>4, TiposDeCpu, PaginaDeEntrada
<1>6. AccesoTraducido'
  <2>1. cpu'.paso = "marco" /\ cpu'.pagina = PaginaDe(i, cpu.indice) /\ cpu'.indice = cpu.indice
    BY <1>1, TiposDeCpu DEF Acceso
  <2> QED BY <1>0, <1>1, <1>2, <1>5, <2>1 DEF AccesoTraducido
<1>7. TlbDelUltimo'
  <2>1. CASE Len(tlb) = 0
    BY <1>1, <2>1 DEF TlbDelUltimo
  <2>2. CASE Len(tlb) # 0
    <3>1. 1 \in 1..Len(tlb)
      BY <2>2, TiposDeCpu, LenProperties
    <3>2. TieneTabla(p)
      BY <1>0, <1>2, <3>1 DEF TlbDelUltimo, Traduce
    <3>3. UNCHANGED <<tabla1, marcos>>
      BY <1>1, <3>2 DEF ObtenerTablaNivel2, memoria
    <3> QED BY <1>1, <1>2, <3>3, TraducenIgual
  <2> QED BY <2>1, <2>2
<1> QED BY <1>0, <1>1, <1>2, <1>6, <1>7, TlbDeLaCpu DEF TlbInv

\* A TLB of one translation, or frames for all the pages of a process: a page that loses its
\* frame is never the one of a translation that stays.
TlbAlcanza == ENTRADAS_TLB = 1 \/ EE <= MARCOS

\* With frames for all of its pages, a process never has one replaced: a page that is not in
\* memory has a frame that is free.
LEMMA MarcosSobran ==
  ASSUME MemInv, EE <= MARCOS, NEW n \in Pagina, ~tabla2[n].presencia
  PROVE  MarcosLibres(TablaDe(n)) # {}
<1> DEFINE i == TablaDe(n)
           Otros == Local \ {Indice(n)}
           indice == [f \in MarcosDe(i) |-> Indice(marcos[f].pagina)]
<1> SUFFICES ASSUME MarcosLibres(i) = {} PROVE FALSE
  OBVIOUS
<1>1. i \in Tablas /\ Indice(n) \in Local /\ n = PaginaDe(i, Indice(n))
  BY EntradaDePagina
<1>2. ASSUME NEW f \in MarcosDe(i)
      PROVE  /\ marcos[f].pagina \in Pagina /\ TablaDe(marcos[f].pagina) = i
             /\ marcos[f].pagina # n /\ tabla2[marcos[f].pagina].marco = f
  <2>1. f \in Marco /\ marcos[f].enUso
    BY <1>1, MarcosDeTabla DEF MarcosLibres
  <2> DEFINE m == marcos[f].pagina
  <2>2. m \in Pagina /\ tabla2[m].presencia /\ tabla2[m].marco = f /\ f \in MarcosDe(TablaDe(m))
    BY <2>1 DEF MemInv, MarcosCoherentes
  <2>3. TablaDe(m) \in Tablas
    BY <2>2, EntradaDePagina
  <2> HIDE DEF m
  <2>4. TablaDe(m) = i
    BY <1>1, <2>2, <2>3, MarcosDeTabla
  <2> QED BY <2>2, <2>4 DEF m
<1>3. \A f \in MarcosDe(i) : Indice(marcos[f].pagina) \in Otros
                              /\ PaginaDe(i, Indice(marcos[f].pagina)) = marcos[f].pagina
  <2> SUFFICES ASSUME NEW f \in MarcosDe(i)
               PROVE  /\ Indice(marcos[f].pagina) \in Otros
                      /\ PaginaDe(i, Indice(marcos[f].pagina)) = marcos[f].pagina
    OBVIOUS
  <2>1. PICK m \in Pagina : m = marcos[f].pagina
    BY <1>2
  <2>2. Indice(m) \in Local /\ m = PaginaDe(i, Indice(m)) /\ m # n
    BY <1>2, <2>1, EntradaDePagina
  <2> QED BY <1>1, <2>1, <2>2
<1>4. indice \in Injection(MarcosDe(i), Otros)
  <2>1. ASSUME NEW f \in MarcosDe(i), NEW g \in MarcosDe(i), Indice(marcos[f].pagina) = Indice(marcos[g].pagina)
        PROVE  f = g
    BY <1>2, <1>3, <2>1
  <2>2. indice \in [MarcosDe(i) -> Otros]
    BY <1>3
  <2> QED BY <2>1, <2>2 DEF Injection, IsInjective
<1>5. IsFiniteSet(Local) /\ Cardinality(Local) = EE
  BY Tamanios, FS_Interval
<1>6. IsFiniteSet(Otros) /\ Cardinality(Otros) = EE - 1
  BY <1>1, <1>5, FS_RemoveElement
<1>7. Cardinality(MarcosDe(i)) = MARCOS
  <2>1. PrimerMarco(i) \in Nat /\ MARCOS \in Nat \ {0}
    BY <1>1, MarcosDeTabla, Tamanios
  <2>2. /\ PrimerMarco(i) \in Int /\ PrimerMarco(i) + MARCOS - 1 \in Int
        /\ ~(PrimerMarco(i) > PrimerMarco(i) + MARCOS - 1)
        /\ (PrimerMarco(i) + MARCOS - 1) - PrimerMarco(i) + 1 = MARCOS
    BY <2>1
  <2> HIDE DEF i
  <2> QED BY <2>2, FS_Interval DEF MarcosDe
<1> HIDE DEF i, Otros, indice
<1>8. Cardinality(MarcosDe(i)) <= Cardinality(Otros)
  BY <1>4, <1>6, FS_Injection
<1> QED BY <1>6, <1>7, <1>8, Tamanios

\* The page Memory was asked for is in the frame it answered.
LEMMA MarcoDePaginaPedida ==
  ASSUME MemInv, MemInv', NEW n \in Pagina, ObtenerMarco(n)
  PROVE  tabla2'[n].presencia /\ marcos'[MarcoObtenido(n)] = [enUso |-> TRUE, pagina |-> n]
<1>1. tabla2'[n].presencia
  <2>1. CASE ObtenerMarcoPresente(n)
    BY <2>1 DEF ObtenerMarcoPresente, memoria
  <2>2. CASE ObtenerMarcoLibre(n)
    <3>1. tabla2' = [tabla2 EXCEPT ![n] = Cargada(n, Min(MarcosLibres(TablaDe(n))))]
      BY <2>2 DEF ObtenerMarcoLibre
    <3> QED BY <3>1 DEF Cargada, MemInv, MemoriaTypeOK
  <2>3. CASE ObtenerMarcoReemplazando(n)
    <3> DEFINE ronda == Ronda(TablaDe(n))
               eleccion == SeleccionarVictima(ronda)
               victima == ronda[eleccion.en]
               f == tabla2[victima].marco
               sinUso == {ronda[k] : k \in eleccion.visitadas}
    <3>1. tabla2' = [m \in Pagina |->
                      CASE m = n -> Cargada(n, f)
                        [] m = victima -> Descargada(m, tabla2[m].uso /\ m \notin sinUso)
                        [] OTHER -> [tabla2[m] EXCEPT !.uso = @ /\ m \notin sinUso]]
      BY <2>3 DEF ObtenerMarcoReemplazando
    <3>2. victima # n
      <4>1. tabla2[victima].presencia /\ ~tabla2[n].presencia
        <5>1. MarcosLibres(TablaDe(n)) = {} /\ TablaDe(n) \in Tablas /\ eleccion.en \in 1..MARCOS
          BY <2>3, EntradaDePagina, EleccionEnRonda DEF ObtenerMarcoReemplazando
        <5> QED BY <2>3, <5>1, PaginasPresentes DEF ObtenerMarcoReemplazando
      <4> QED BY <4>1
    <3> HIDE DEF ronda, eleccion, victima, f, sinUso
    <3>3. tabla2'[n] = Cargada(n, f)
      BY <3>1, <3>2
    <3> QED BY <3>3 DEF Cargada
  <2> QED BY <2>1, <2>2, <2>3 DEF ObtenerMarco
<1> QED BY <1>1 DEF MemInv, MarcosCoherentes, MarcoObtenido

\* Without a replacement, the frames in use keep their pages.
LEMMA MarcosEnUsoQuedan ==
  ASSUME MemInv, NEW n \in Pagina, ObtenerMarco(n), ~ObtenerMarcoReemplazando(n),
         NEW f \in Marco, marcos[f].enUso
  PROVE  marcos'[f] = marcos[f]
<1>1. CASE ObtenerMarcoPresente(n)
  BY <1>1 DEF ObtenerMarcoPresente, memoria
<1>2. CASE ObtenerMarcoLibre(n)
  <2> DEFINE i == TablaDe(n)
             g == Min(MarcosLibres(i))
  <2>1. i \in Tablas /\ MarcosLibres(i) # {} /\ marcos' = [marcos EXCEPT ![g] = [enUso |-> TRUE, pagina |-> n]]
    BY <1>2, EntradaDePagina DEF ObtenerMarcoLibre
  <2>2. MarcosLibres(i) \in SUBSET Nat
    BY <2>1, MarcosDeTabla DEF MarcosLibres, Marco
  <2>3. g \in MarcosLibres(i)
    BY <2>1, <2>2, MinimoDeNaturales
  <2> HIDE DEF g
  <2>4. ~marcos[g].enUso
    BY <2>3 DEF MarcosLibres
  <2> QED BY <2>1, <2>4 DEF MemInv, MemoriaTypeOK
<1> QED BY <1>1, <1>2 DEF ObtenerMarco

LEMMA TlbCpuPedirMarco ==
  ASSUME TlbAlcanza, IInv, IInv', TlbInv, CpuPedirMarco, algoritmo' = algoritmo
  PROVE  TlbInv'
<1>0. PICK u \in Proc, n \in Pagina, l \in Local : u = pidProcesoEnExec /\ n = cpu.pagina /\ l = cpu.indice
  BY TiposDeCpu DEF CpuPedirMarco, EntreAccesos
<1>1. /\ cpu.paso = "marco" /\ ObtenerMarco(n)
      /\ cpu' = [cpu EXCEPT !.paso = "acceso", !.pagina = 0, !.marco = MarcoObtenido(n)]
      /\ tlb' = Tlb!Registrada(tlb, [pagina |-> l, marco |-> MarcoObtenido(n)])
      /\ UNCHANGED <<kernel, pidProcesoEnExec, escrituras>>
  BY <1>0 DEF CpuPedirMarco
<1>2. /\ Ejecuta = {u} /\ TlbDelUltimo /\ Ejecuta' = Ejecuta
  BY <1>0, <1>1, TlbEnUso, TiposDeCpu DEF EntreAccesos, Ejecuta, kernel
<1>3. tabla1[TablaDe(n)].id = u /\ Indice(n) = l
  BY <1>0, <1>1, DeIInv DEF AccesoEnCurso, TlbInv, AccesoTraducido
<1>4. /\ MemInv /\ MemInv' /\ MarcoObtenido(n) \in Marco
      /\ \A j \in Tablas : tabla1'[j].id = tabla1[j].id
  BY <1>1, <1>3, DeIInv, PasoObtenerMarco
<1>5. PICK f \in Marco : f = MarcoObtenido(n)
  BY <1>4
<1>6. PICK e \in EntradaTlb : e = [pagina |-> l, marco |-> f]
  BY DEF EntradaTlb
<1>7. Traduce(f, l)'
  <2>1. marcos'[f] = [enUso |-> TRUE, pagina |-> n]
    BY <1>1, <1>4, <1>5, MarcoDePaginaPedida
  <2>2. PICK t \in Tablas : t = TablaDe(n)
    BY EntradaDePagina
  <2>3. n = PaginaDe(t, l) /\ tabla1'[t].id = u
    BY <1>3, <1>4, <2>2, EntradaDePagina
  <2>4. TieneTabla(u)' /\ TablaNivel1(u)' = t
    BY <1>4, <2>3, TablaPropiaDespues DEF MemInv
  <2>5. TieneTabla(pidProcesoEnExec)' /\ TablaNivel1(pidProcesoEnExec)' = t
    BY <1>0, <1>1, <2>4 DEF TieneTabla, TablaNivel1
  <2> HIDE DEF TieneTabla, TablaNivel1
  <2> QED BY <2>1, <2>3, <2>5 DEF Traduce, PaginaDe
<1>8. AccesoTraducido'
  <2>1. cpu'.paso = "acceso" /\ cpu'.marco = f /\ cpu'.indice = l
    BY <1>0, <1>1, <1>5, TiposDeCpu DEF Acceso
  <2>2. Traduce(cpu.marco, cpu.indice)'
    BY <1>7, <2>1 DEF Traduce
  <2> QED BY <1>0, <1>1, <1>2, <2>1, <2>2 DEF AccesoTraducido
<1> DEFINE resto == IF Len(tlb) = ENTRADAS_TLB THEN Tail(tlb) ELSE tlb
<1>9. tlb \in Seq(EntradaTlb) /\ Len(tlb) \in Nat /\ Len(tlb) <= ENTRADAS_TLB /\ ENTRADAS_TLB \in Nat \ {0}
  BY TiposDeCpu, LenProperties, SistemaAssumption DEF TlbInv
<1>10. /\ resto \in Seq(EntradaTlb) /\ Len(resto) \in Nat /\ Len(resto) < ENTRADAS_TLB
       /\ \A j \in 1..Len(resto) : \E k \in 1..Len(tlb) : resto[j] = tlb[k]
  <2>1. CASE Len(tlb) = ENTRADAS_TLB
    <3>1. tlb # << >>
      BY <1>9, <2>1
    <3>2. /\ Tail(tlb) \in Seq(EntradaTlb) /\ Len(Tail(tlb)) = Len(tlb) - 1
          /\ \A j \in 1..Len(Tail(tlb)) : Tail(tlb)[j] = tlb[j + 1]
      BY <1>9, <3>1, HeadTailProperties
    <3>3. \A j \in 1..Len(Tail(tlb)) : j + 1 \in 1..Len(tlb)
      BY <1>9, <3>2
    <3> QED BY <1>9, <2>1, <3>2, <3>3
  <2>2. CASE Len(tlb) # ENTRADAS_TLB
    BY <1>9, <2>2
  <2> QED BY <2>1, <2>2
<1>11. tlb' = Append(resto, e)
  BY <1>1, <1>5, <1>6 DEF Tlb!Registrada
<1> HIDE DEF resto
<1>12. PICK h \in Nat : h = Len(resto)
  BY <1>10
<1>13. /\ Len(tlb') = h + 1 /\ tlb'[h + 1] = e
       /\ \A j \in 1..h : tlb'[j] = resto[j]
  BY <1>10, <1>11, <1>12, AppendProperties
<1>14. ASSUME NEW j \in 1..h PROVE Traduce(tlb[j].marco, tlb[j].pagina)'
  <2>1. PICK k \in 1..Len(tlb) : tlb'[j] = tlb[k]
    BY <1>10, <1>12, <1>13
  <2>2. tlb[k] \in EntradaTlb
    BY <1>9, ElementOfSeq
  <2>3. PICK g \in Marco, m \in Local : g = tlb[k].marco /\ m = tlb[k].pagina
    BY <2>2 DEF EntradaTlb
  <2>4. Traduce(g, m)
    BY <1>2, <2>3 DEF TlbDelUltimo
  <2>5. ~ObtenerMarcoReemplazando(n)
    <3>1. ENTRADAS_TLB # 1
      BY <1>9, <1>10, <1>12
    <3>2. EE <= MARCOS
      BY <3>1 DEF TlbAlcanza
    <3> QED BY <1>4, <3>2, MarcosSobran DEF ObtenerMarcoReemplazando
  <2>6. marcos'[g] = marcos[g]
    BY <1>1, <1>4, <2>4, <2>5, MarcosEnUsoQuedan DEF Traduce
  <2>7. Traduce(g, m)'
    BY <1>0, <1>1, <1>4, <2>4, <2>6, TraduceQueda DEF MemInv
  <2> QED BY <2>1, <2>3, <2>7 DEF Traduce
<1>15. Traduce(tlb[h + 1].marco, tlb[h + 1].pagina)'
  BY <1>6, <1>7, <1>13 DEF Traduce
<1>16. TlbDelUltimo'
  <2>1. \A k \in 1..(h + 1) : k \in 1..h \/ k = h + 1
    OBVIOUS
  <2>2. ASSUME NEW k \in 1..(h + 1) PROVE Traduce(tlb[k].marco, tlb[k].pagina)'
    BY <1>14, <1>15, <2>1
  <2> QED BY <1>13, <2>2 DEF TlbDelUltimo
<1>17. Len(tlb') <= ENTRADAS_TLB
  BY <1>9, <1>10, <1>12, <1>13
<1> QED BY <1>0, <1>1, <1>2, <1>8, <1>16, <1>17, TlbDeLaCpu

\* CpuLeer, CpuEscribir, MemoriaEscribir and MemoriaAccederFuera: nothing moves.
LEMMA TlbSinCambios ==
  ASSUME IInv, IInv', TlbInv,
         CpuLeer \/ (\E v \in Valor : CpuEscribir(v)) \/ MemoriaEscribir \/ MemoriaAccederFuera
  PROVE  TlbInv'
<1>1. UNCHANGED <<kernel, pidProcesoEnExec, tlb, tabla1, marcos>>
  BY DEF CpuLeer, Leer, CpuEscribir, MemoriaEscribir, Escribir, MemoriaAccederFuera, memoria, varsCpu
<1>2. /\ \A f, l : Traduce(f, l)' <=> Traduce(f, l)
      /\ TlbDelUltimo => TlbDelUltimo'
  BY <1>1, TraducenIgual
<1>3. Ejecuta' = Ejecuta
  BY <1>1 DEF Ejecuta, kernel
<1>4. AccesoTraducido'
  <2>1. CASE cpu' = cpu
    <3>1. ASSUME cpu.paso = "acceso" PROVE Traduce(cpu.marco, cpu.indice)'
      <4>1. PICK f, l : f = cpu.marco /\ l = cpu.indice
        OBVIOUS
      <4>2. Traduce(f, l)
        BY <3>1, <4>1 DEF TlbInv, AccesoTraducido
      <4>3. Traduce(f, l)'
        BY <1>2, <4>2
      <4> QED BY <2>1, <4>1, <4>3 DEF Traduce
    <3> QED BY <1>1, <1>3, <2>1, <3>1 DEF TlbInv, AccesoTraducido
  <2>2. CASE cpu' = EnReposo
    BY <2>2 DEF AccesoTraducido, EnReposo
  <2>3. CASE CpuLeer
    <3>1. cpu'.paso = "leido" /\ cpu.paso = "acceso"
      BY <2>3, TiposDeCpu DEF CpuLeer, Acceso
    <3> QED BY <1>1, <1>3, <3>1 DEF TlbInv, AccesoTraducido
  <2> QED BY <2>1, <2>2, <2>3 DEF CpuEscribir, MemoriaEscribir, MemoriaAccederFuera, varsCpu
<1>5. TimersEnOrden'
  BY <1>1 DEF TlbInv, TimersEnOrden, kernel
<1>6. TlbVencida' <=> TlbVencida
  BY <1>1 DEF TlbVencida, kernel
<1> QED BY <1>1, <1>2, <1>4, <1>5, <1>6 DEF TlbInv, kernel

LEMMA PasoTlbInv ==
  ASSUME Puntual, TlbAlcanza, IInv, IInv', TlbInv, [Next]_vars
  PROVE  TlbInv'
<1>1. CASE UNCHANGED vars
  <2>1. UNCHANGED <<kernel, pidProcesoEnExec, cpu, tlb, tabla1, marcos>>
    BY <1>1 DEF vars, memoria, varsCpu
  <2>2. TimersEnOrden' /\ (TlbVencida' <=> TlbVencida) /\ Ejecuta' = Ejecuta
    BY <2>1 DEF TlbInv, TimersEnOrden, TlbVencida, kernel, Ejecuta
  <2>3. TlbDelUltimo => TlbDelUltimo'
    BY <2>1, TraducenIgual
  <2>4. AccesoTraducido'
    BY <2>1, <2>2 DEF TlbInv, AccesoTraducido, Traduce, TieneTabla, TablaNivel1
  <2> QED BY <2>1, <2>2, <2>3, <2>4 DEF TlbInv, kernel
<1>2. CASE Next
  <2>1. algoritmo' = algoritmo
    BY <1>2 DEF Next
  <2>2. ASSUME NEW p \in Proc,
               Admitir(p) \/ Despachar(p) \/ Desalojar(p) \/ Bloquear(p) \/ Terminar(p)
                 \/ Suspender(p) \/ TerminarIO(p) \/ Reanudar(p) \/ Liberar(p)
        PROVE  TlbInv'
    BY <2>1, <2>2, TlbAdmitir, TlbDespachar, TlbDejar, TlbSuspender, TlbTerminarIO, TlbReanudar, TlbLiberar
  <2>3. ASSUME NEW l \in Accesibles, NEW escribe \in BOOLEAN, CpuAcceder(l, escribe) PROVE TlbInv'
    BY <2>3, TlbCpuAcceder
  <2> QED BY <1>2, <2>1, <2>2, <2>3, TlbCpuPedirTabla, TlbCpuPedirMarco, TlbSinCambios DEF Next
<1> QED BY <1>1, <1>2

LEMMA InicioTlbInv == Init => TlbInv
<1> SUFFICES ASSUME Init PROVE TlbInv
  OBVIOUS
<1>1. temporizados \in Seq(Proc) /\ Len(temporizados) = 0 /\ Len(tlb) = 0
  BY EmptySeq DEF Init
<1>2. cpu = EnReposo /\ cpu.paso = "libre" /\ tlb = << >>
  BY DEF Init, EnReposo
<1> QED BY <1>1, <1>2, SistemaAssumption DEF TlbInv, TimersEnOrden, AccesoTraducido

-----------------------------------------------------------------------------
(* What a process reads in a page, wherever it is.                         *)

\* The places of the writes to f of the list s, and what the last one writes
EscriturasEn(s, f) == {k \in 1..Len(s) : s[k].marco = f}
SinEscritura == -1
UltimaEn(s, f) == IF EscriturasEn(s, f) = {} THEN SinEscritura ELSE s[Max(EscriturasEn(s, f))].valor

\* There is no write, or the value is that of a write that no other one follows.
LEMMA UltimaEscritura ==
  ASSUME NEW s \in Seq(Escritura), NEW f
  PROVE  \/ (\A k \in 1..Len(s) : s[k].marco # f) /\ UltimaEn(s, f) = SinEscritura
         \/ \E k \in 1..Len(s) : /\ s[k].marco = f /\ UltimaEn(s, f) = s[k].valor
                                 /\ \A j \in 1..Len(s) : s[j].marco = f => j <= k
<1> DEFINE P == EscriturasEn(s, f)
<1>1. Len(s) \in Nat
  BY LenProperties
<1>2. P \in SUBSET Int /\ Len(s) \in Int /\ \A y \in P : y <= Len(s)
  BY <1>1 DEF EscriturasEn
<1>3. CASE P = {}
  BY <1>3 DEF UltimaEn, EscriturasEn
<1>4. CASE P # {}
  <2> DEFINE k == Max(P)
  <2>1. k \in P /\ \A y \in P : y <= k
    <3> HIDE DEF P
    <3> QED BY <1>2, <1>4, Maximo
  <2>2. UltimaEn(s, f) = s[k].valor
    BY <1>4 DEF UltimaEn
  <2> HIDE DEF k
  <2> QED BY <2>1, <2>2 DEF EscriturasEn
<1> QED BY <1>3, <1>4

\* The write that no other one follows is the last one.
LEMMA EsLaUltima ==
  ASSUME NEW s \in Seq(Escritura), NEW f, NEW k \in 1..Len(s), s[k].marco = f,
         \A j \in 1..Len(s) : s[j].marco = f => j <= k
  PROVE  UltimaEn(s, f) = s[k].valor
<1>1. Len(s) \in Nat
  BY LenProperties
<1>2. PICK h \in 1..Len(s) : /\ s[h].marco = f /\ UltimaEn(s, f) = s[h].valor
                             /\ \A j \in 1..Len(s) : s[j].marco = f => j <= h
  BY UltimaEscritura
<1>3. h <= k /\ k <= h
  BY <1>2
<1>4. h = k
  BY <1>1, <1>2, <1>3
<1> QED BY <1>2, <1>4

LEMMA NingunaEscritura ==
  ASSUME NEW s, NEW f, \A k \in 1..Len(s) : s[k].marco # f
  PROVE  UltimaEn(s, f) = SinEscritura
BY DEF UltimaEn, EscriturasEn

LEMMA UltimaType ==
  ASSUME NEW s \in Seq(Escritura), NEW f
  PROVE  UltimaEn(s, f) \in Valor \union {SinEscritura}
<1>1. \A k \in 1..Len(s) : s[k] \in Escritura
  BY ElementOfSeq
<1>2. \A k \in 1..Len(s) : s[k].valor \in Valor
  BY <1>1 DEF Escritura
<1> QED BY <1>2, UltimaEscritura

\* A write that is left in the socket is the last one to its frame, and of no other.
LEMMA UltimaAlAgregar ==
  ASSUME NEW s \in Seq(Escritura), NEW e \in Escritura
  PROVE  /\ UltimaEn(Append(s, e), e.marco) = e.valor
         /\ \A g : g # e.marco => UltimaEn(Append(s, e), g) = UltimaEn(s, g)
<1> DEFINE t == Append(s, e)
           n == Len(s)
<1>1. n \in Nat
  BY LenProperties
<1>2. t \in Seq(Escritura) /\ Len(t) = n + 1 /\ (\A j \in 1..n : t[j] = s[j]) /\ t[n + 1] = e
  BY AppendProperties
<1> HIDE DEF t
<1>3. n + 1 \in 1..Len(t) /\ \A j \in 1..Len(t) : j <= n + 1
  BY <1>1, <1>2
<1>4. UltimaEn(t, e.marco) = e.valor
  BY <1>2, <1>3, EsLaUltima
<1>5. ASSUME NEW g, g # e.marco PROVE UltimaEn(t, g) = UltimaEn(s, g)
  <2>1. CASE \A k \in 1..n : s[k].marco # g
    <3>1. \A k \in 1..Len(t) : t[k].marco # g
      <4>1. \A k \in 1..(n + 1) : k \in 1..n \/ k = n + 1
        BY <1>1
      <4> QED BY <1>2, <1>5, <2>1, <4>1
    <3> QED BY <2>1, <3>1, NingunaEscritura
  <2>2. CASE ~(\A k \in 1..n : s[k].marco # g)
    <3>1. PICK k \in 1..n : /\ s[k].marco = g /\ UltimaEn(s, g) = s[k].valor
                            /\ \A j \in 1..n : s[j].marco = g => j <= k
      BY <2>2, UltimaEscritura
    <3>2. k \in 1..Len(t) /\ t[k] = s[k]
      BY <1>1, <1>2
    <3>3. \A j \in 1..Len(t) : t[j].marco = g => j <= k
      <4>1. \A j \in 1..(n + 1) : j \in 1..n \/ j = n + 1
        BY <1>1
      <4> QED BY <1>2, <1>5, <3>1, <4>1
    <3>4. UltimaEn(t, g) = t[k].valor
      BY <1>2, <3>1, <3>2, <3>3, EsLaUltima
    <3> QED BY <3>1, <3>2, <3>4
  <2> QED BY <2>1, <2>2
<1> QED BY <1>4, <1>5 DEF t

\* The first write leaves the socket: if none other waits for its frame, it was the last one.
LEMMA UltimaAlSacar ==
  ASSUME NEW s \in Seq(Escritura), s # << >>
  PROVE  /\ \A g : g # Head(s).marco => UltimaEn(Tail(s), g) = UltimaEn(s, g)
         /\ UltimaEn(s, Head(s).marco) = IF UltimaEn(Tail(s), Head(s).marco) = SinEscritura
                                         THEN Head(s).valor ELSE UltimaEn(Tail(s), Head(s).marco)
<1> DEFINE t == Tail(s)
           n == Len(s)
<1>1. n \in Nat /\ n # 0
  BY LenProperties, EmptySeq
<1>2. t \in Seq(Escritura) /\ Len(t) = n - 1 /\ \A j \in 1..(n - 1) : t[j] = s[j + 1]
  BY HeadTailProperties
<1>3. Head(s) = s[1]
  OBVIOUS
<1> HIDE DEF t
<1>4. ASSUME NEW g, NEW k \in 1..(n - 1), t[k].marco = g,
             \A j \in 1..(n - 1) : t[j].marco = g => j <= k
      PROVE  UltimaEn(s, g) = t[k].valor /\ UltimaEn(t, g) = t[k].valor
  <2>1. k + 1 \in 1..n /\ s[k + 1] = t[k]
    BY <1>1, <1>2
  <2>2. ASSUME NEW j \in 1..n, s[j].marco = g PROVE j <= k + 1
    <3>1. CASE j = 1
      BY <3>1
    <3>2. CASE j # 1
      <4>1. j - 1 \in 1..(n - 1) /\ (j - 1) + 1 = j
        BY <1>1, <3>2
      <4>2. t[j - 1] = s[(j - 1) + 1]
        BY <1>2, <4>1
      <4>3. j - 1 <= k
        BY <1>4, <2>2, <4>1, <4>2
      <4> QED BY <1>1, <4>1, <4>3
    <3> QED BY <3>1, <3>2
  <2>3. UltimaEn(s, g) = s[k + 1].valor
    BY <1>4, <2>1, <2>2, EsLaUltima
  <2>4. UltimaEn(t, g) = t[k].valor
    BY <1>2, <1>4, EsLaUltima
  <2> QED BY <2>1, <2>3, <2>4
<1>5. ASSUME NEW g, \A k \in 1..(n - 1) : t[k].marco # g
      PROVE  /\ UltimaEn(t, g) = SinEscritura
             /\ UltimaEn(s, g) = IF s[1].marco = g THEN s[1].valor ELSE SinEscritura
  <2>1. UltimaEn(t, g) = SinEscritura
    BY <1>2, <1>5, NingunaEscritura
  <2>2. ASSUME NEW j \in 1..n, s[j].marco = g PROVE j = 1
    <3> SUFFICES ASSUME j # 1 PROVE FALSE
      OBVIOUS
    <3>1. j - 1 \in 1..(n - 1) /\ (j - 1) + 1 = j
      BY <1>1
    <3>2. t[j - 1] = s[(j - 1) + 1]
      BY <1>2, <3>1
    <3> QED BY <1>5, <2>2, <3>1, <3>2
  <2>3. CASE s[1].marco = g
    <3>1. 1 \in 1..n /\ \A j \in 1..n : s[j].marco = g => j <= 1
      BY <1>1, <2>2
    <3> QED BY <2>1, <2>3, <3>1, EsLaUltima
  <2>4. CASE s[1].marco # g
    <3>1. \A k \in 1..n : s[k].marco # g
      BY <2>2, <2>4
    <3> QED BY <2>1, <2>4, <3>1, NingunaEscritura
  <2> QED BY <2>3, <2>4
<1>6. ASSUME NEW g PROVE \/ \A k \in 1..(n - 1) : t[k].marco # g
                         \/ \E k \in 1..(n - 1) : t[k].marco = g /\ t[k].valor # SinEscritura
                              /\ \A j \in 1..(n - 1) : t[j].marco = g => j <= k
  <2>1. \A k \in 1..(n - 1) : t[k] \in Escritura
    BY <1>2, ElementOfSeq
  <2>2. \A k \in 1..(n - 1) : t[k].valor # SinEscritura
    BY <2>1, ValorAssumption DEF Escritura, SinEscritura
  <2>3. CASE \A k \in 1..(n - 1) : t[k].marco # g
    BY <2>3
  <2>4. CASE \E k \in 1..(n - 1) : t[k].marco = g
    <3>1. PICK k \in 1..Len(t) : t[k].marco = g /\ \A j \in 1..Len(t) : t[j].marco = g => j <= k
      BY <1>2, <2>4, UltimaEscritura
    <3> QED BY <1>2, <2>2, <3>1
  <2> QED BY <2>3, <2>4
<1>7. \A g : g # s[1].marco => UltimaEn(t, g) = UltimaEn(s, g)
  <2> SUFFICES ASSUME NEW g, g # s[1].marco PROVE UltimaEn(t, g) = UltimaEn(s, g)
    OBVIOUS
  <2>1. CASE \A k \in 1..(n - 1) : t[k].marco # g
    BY <1>5, <2>1
  <2>2. CASE ~(\A k \in 1..(n - 1) : t[k].marco # g)
    <3>1. PICK k \in 1..(n - 1) : t[k].marco = g /\ \A j \in 1..(n - 1) : t[j].marco = g => j <= k
      BY <1>6, <2>2
    <3>2. UltimaEn(s, g) = t[k].valor /\ UltimaEn(t, g) = t[k].valor
      BY <1>4, <3>1
    <3> QED BY <3>2
  <2> QED BY <2>1, <2>2
<1>8. UltimaEn(s, s[1].marco) = IF UltimaEn(t, s[1].marco) = SinEscritura THEN s[1].valor
                                ELSE UltimaEn(t, s[1].marco)
  <2> DEFINE g == s[1].marco
  <2>1. CASE \A k \in 1..(n - 1) : t[k].marco # g
    BY <1>5, <2>1
  <2>2. CASE ~(\A k \in 1..(n - 1) : t[k].marco # g)
    <3>1. PICK k \in 1..(n - 1) : /\ t[k].marco = g /\ t[k].valor # SinEscritura
                                  /\ \A j \in 1..(n - 1) : t[j].marco = g => j <= k
      BY <1>6, <2>2
    <3>2. UltimaEn(s, g) = t[k].valor /\ UltimaEn(t, g) = t[k].valor
      BY <1>4, <3>1
    <3> QED BY <3>1, <3>2
  <2> QED BY <2>1, <2>2
<1> QED BY <1>3, <1>7, <1>8 DEF t

\* What the page n of a table with owner holds
EnPagina(n) ==
  LET f == tabla2[n].marco IN
  IF tabla2[n].presencia
  THEN IF UltimaEn(escrituras, f) # SinEscritura THEN UltimaEn(escrituras, f)
       ELSE IF tabla2[n].modificado \/ tabla2[n].enSwap THEN ram[f] ELSE Indefinido
  ELSE IF tabla2[n].enSwap THEN swap[tabla1[TablaDe(n)].id][Indice(n)] ELSE Indefinido

\* Contenido, by the place where Memory has the process
FormaDeContenido ==
  /\ \A i \in Tablas, l \in Local : tabla1[i].id \in Proc =>
       Contenido(tabla1[i].id, l) = EnPagina(PaginaDe(i, l))
  /\ \A p \in Proc, l \in Local : EstaSuspendido(p) =>
       Contenido(p, l) = IF l \in suspendidos[p] THEN swap[p][l] ELSE Indefinido
  /\ \A p \in Proc, l \in Local : ~TieneTabla(p) /\ ~EstaSuspendido(p) => Contenido(p, l) = Indefinido

LEMMA ContenidoSegunLugar == IInv => FormaDeContenido
<1> SUFFICES ASSUME IInv PROVE FormaDeContenido
  OBVIOUS
<1>1. UnAlojamiento /\ escrituras \in Seq(Escritura)
  BY TiposDeCpu DEF IInv
<1>2. ASSUME NEW i \in Tablas, NEW l \in Local, tabla1[i].id \in Proc
      PROVE  Contenido(tabla1[i].id, l) = EnPagina(PaginaDe(i, l))
  <2>1. PICK p \in Proc : p = tabla1[i].id
    BY <1>2
  <2>2. TieneTabla(p) /\ ~EstaSuspendido(p)
    BY <1>1, <2>1 DEF TieneTabla, UnAlojamiento
  <2>3. TablaNivel1(p) = i
    BY <1>1, <2>1, <2>2, TablaPropia
  <2>4. Contenido(p, l) = EnTabla(p, l)
    BY <2>2 DEF Contenido
  <2> DEFINE n == PaginaDe(i, l)
             f == tabla2[n].marco
  <2>5. n \in Pagina /\ TablaDe(n) = i /\ Indice(n) = l
    BY PaginaDeEntrada
  <2>6. EnTabla(p, l) =
          CASE tabla2[n].presencia /\ Pendientes(f) # {} -> escrituras[Max(Pendientes(f))].valor
            [] tabla2[n].presencia /\ Pendientes(f) = {} /\ (tabla2[n].modificado \/ tabla2[n].enSwap) -> ram[f]
            [] ~tabla2[n].presencia /\ tabla2[n].enSwap -> swap[p][l]
            [] OTHER -> Indefinido
    BY <2>3 DEF EnTabla
  <2>7. Pendientes(f) = EscriturasEn(escrituras, f)
    BY DEF Pendientes, EscriturasEn
  <2>8. /\ Pendientes(f) = {} => UltimaEn(escrituras, f) = SinEscritura
        /\ Pendientes(f) # {} => /\ UltimaEn(escrituras, f) = escrituras[Max(Pendientes(f))].valor
                                 /\ UltimaEn(escrituras, f) # SinEscritura
    <3>1. SinEscritura \notin Valor
      BY ValorAssumption DEF SinEscritura
    <3>2. (\A k \in 1..Len(escrituras) : escrituras[k].marco # f) <=> Pendientes(f) = {}
      BY DEF Pendientes
    <3>3. \A k \in 1..Len(escrituras) : escrituras[k].valor \in Valor
      <4>1. \A k \in 1..Len(escrituras) : escrituras[k] \in Escritura
        BY <1>1, ElementOfSeq
      <4> QED BY <4>1 DEF Escritura
    <3>4. Pendientes(f) # {} => UltimaEn(escrituras, f) # SinEscritura
      BY <1>1, <3>1, <3>2, <3>3, UltimaEscritura
    <3> QED BY <2>7, <3>4 DEF UltimaEn
  <2> HIDE DEF n, f
  <2>9. tabla1[TablaDe(n)].id = p
    BY <2>1, <2>5
  <2>10. EnPagina(n) =
          IF tabla2[n].presencia
          THEN IF UltimaEn(escrituras, f) # SinEscritura THEN UltimaEn(escrituras, f)
               ELSE IF tabla2[n].modificado \/ tabla2[n].enSwap THEN ram[f] ELSE Indefinido
          ELSE IF tabla2[n].enSwap THEN swap[p][l] ELSE Indefinido
    BY <2>5, <2>9 DEF EnPagina, f
  <2>11. EnPagina(n) = EnTabla(p, l)
    <3> DEFINE ultima == UltimaEn(escrituras, f)
               pendiente == escrituras[Max(Pendientes(f))].valor
               hay == Pendientes(f) # {}
    <3>1. /\ ~hay => ultima = SinEscritura
          /\ hay => ultima = pendiente /\ ultima # SinEscritura
      BY <2>8
    <3> HIDE DEF ultima, pendiente
    <3>2. EnTabla(p, l) =
          CASE tabla2[n].presencia /\ hay -> pendiente
            [] tabla2[n].presencia /\ ~hay /\ (tabla2[n].modificado \/ tabla2[n].enSwap) -> ram[f]
            [] ~tabla2[n].presencia /\ tabla2[n].enSwap -> swap[p][l]
            [] OTHER -> Indefinido
      BY <2>6 DEF pendiente
    <3>3. EnPagina(n) =
          IF tabla2[n].presencia
          THEN IF ultima # SinEscritura THEN ultima
               ELSE IF tabla2[n].modificado \/ tabla2[n].enSwap THEN ram[f] ELSE Indefinido
          ELSE IF tabla2[n].enSwap THEN swap[p][l] ELSE Indefinido
      BY <2>10 DEF ultima
    <3> HIDE DEF hay
    <3>4. CASE tabla2[n].presencia /\ hay
      BY <3>1, <3>2, <3>3, <3>4
    <3>5. CASE tabla2[n].presencia /\ ~hay /\ (tabla2[n].modificado \/ tabla2[n].enSwap)
      BY <3>1, <3>2, <3>3, <3>5
    <3>6. CASE ~tabla2[n].presencia /\ tabla2[n].enSwap
      BY <3>2, <3>3, <3>6
    <3>7. CASE /\ ~(tabla2[n].presencia /\ hay)
               /\ ~(tabla2[n].presencia /\ ~hay /\ (tabla2[n].modificado \/ tabla2[n].enSwap))
               /\ ~(~tabla2[n].presencia /\ tabla2[n].enSwap)
      BY <3>1, <3>2, <3>3, <3>7
    <3> QED BY <3>4, <3>5, <3>6, <3>7
  <2> QED BY <2>1, <2>4, <2>11 DEF n
<1>3. ASSUME NEW p \in Proc, NEW l \in Local, EstaSuspendido(p)
      PROVE  Contenido(p, l) = IF l \in suspendidos[p] THEN swap[p][l] ELSE Indefinido
  BY <1>1, <1>3 DEF Contenido, UnAlojamiento
<1>4. ASSUME NEW p \in Proc, NEW l \in Local, ~TieneTabla(p), ~EstaSuspendido(p)
      PROVE  Contenido(p, l) = Indefinido
  BY <1>4 DEF Contenido
<1> QED BY <1>2, <1>3, <1>4 DEF FormaDeContenido

LEMMA ContenidoDespues == IInv' => FormaDeContenido'
BY ContenidoSegunLugar, PTL

\* A page of a process that Memory leaves alone, its bit of use aside: where it is, and what is there
Conserva(n) ==
  /\ tabla2'[n].presencia = tabla2[n].presencia /\ tabla2'[n].marco = tabla2[n].marco
  /\ tabla2'[n].modificado = tabla2[n].modificado /\ tabla2'[n].enSwap = tabla2[n].enSwap
  /\ tabla2[n].presencia => ram'[tabla2[n].marco] = ram[tabla2[n].marco]
  /\ tabla1'[TablaDe(n)].id = tabla1[TablaDe(n)].id
  /\ tabla1[TablaDe(n)].id \in Proc /\ swap'[tabla1[TablaDe(n)].id][Indice(n)] = swap[tabla1[TablaDe(n)].id][Indice(n)]

\* A page in memory that is not modified and in swap too is the same in both.
CopiaIgual(n) ==
  tabla2[n].presencia /\ ~tabla2[n].modificado /\ tabla2[n].enSwap =>
    ram[tabla2[n].marco] = swap[tabla1[TablaDe(n)].id][Indice(n)]

LEMMA PaginaConservada ==
  ASSUME NEW n \in Pagina, Conserva(n)
  PROVE  /\ CopiaIgual(n) => CopiaIgual(n)'
         /\ (tabla2[n].presencia => UltimaEn(escrituras', tabla2[n].marco) = UltimaEn(escrituras, tabla2[n].marco))
              => EnPagina(n)' = EnPagina(n)
<1>1. CopiaIgual(n) => CopiaIgual(n)'
  BY DEF Conserva, CopiaIgual
<1>2. ASSUME tabla2[n].presencia => UltimaEn(escrituras', tabla2[n].marco) = UltimaEn(escrituras, tabla2[n].marco)
      PROVE  EnPagina(n)' = EnPagina(n)
  <2> DEFINE f == tabla2[n].marco
  <2>1. EnPagina(n)' =
          IF tabla2'[n].presencia
          THEN IF UltimaEn(escrituras', tabla2'[n].marco) # SinEscritura THEN UltimaEn(escrituras', tabla2'[n].marco)
               ELSE IF tabla2'[n].modificado \/ tabla2'[n].enSwap THEN ram'[tabla2'[n].marco] ELSE Indefinido
          ELSE IF tabla2'[n].enSwap THEN swap'[tabla1'[TablaDe(n)].id][Indice(n)] ELSE Indefinido
    BY DEF EnPagina, UltimaEn, EscriturasEn
  <2>2. EnPagina(n) =
          IF tabla2[n].presencia
          THEN IF UltimaEn(escrituras, f) # SinEscritura THEN UltimaEn(escrituras, f)
               ELSE IF tabla2[n].modificado \/ tabla2[n].enSwap THEN ram[f] ELSE Indefinido
          ELSE IF tabla2[n].enSwap THEN swap[tabla1[TablaDe(n)].id][Indice(n)] ELSE Indefinido
    BY DEF EnPagina
  <2>3. tabla2'[n].marco = f
    BY DEF Conserva
  <2> HIDE DEF f
  <2>4. UltimaEn(escrituras', tabla2'[n].marco) = UltimaEn(escrituras', f)
    BY <2>3
  <2>5. tabla2[n].presencia => UltimaEn(escrituras', f) = UltimaEn(escrituras, f)
    BY <1>2 DEF f
  <2> HIDE DEF UltimaEn
  <2>6. tabla2[n].presencia => ram'[f] = ram[f]
    BY DEF Conserva, f
  <2> QED BY <2>1, <2>2, <2>3, <2>4, <2>5, <2>6 DEF Conserva
<1> QED BY <1>1, <1>2

\* The pages of a process that Memory leaves alone
LEMMA PaginasIntactas ==
  ASSUME MemInv, NEW q \in Proc, Intacto(q), NEW n \in Pagina, tabla1[TablaDe(n)].id = q
  PROVE  Conserva(n)
<1>1. TablaDe(n) \in Tablas
  BY EntradaDePagina
<1>2. tabla1'[TablaDe(n)].id = q /\ tabla2'[n] = tabla2[n] /\ swap'[q] = swap[q]
  BY <1>1 DEF Intacto
<1>3. tabla2[n].presencia => ram'[tabla2[n].marco] = ram[tabla2[n].marco]
  BY <1>1, MarcoDePresente, ZenonT(30) DEF Intacto
<1> QED BY <1>2, <1>3 DEF Conserva

\* The process q reads what it would have read.
Quedan(q) == \A l \in Local : Contenido(q, l)' = Contenido(q, l)

\* The pages of q hold what they held, and q is where it was.
LEMMA QuedanSegunPaginas ==
  ASSUME IInv, IInv', NEW q \in Proc,
         \A j \in Tablas : tabla1'[j].id = q <=> tabla1[j].id = q,
         EstaSuspendido(q)' <=> EstaSuspendido(q),
         EstaSuspendido(q) => suspendidos'[q] = suspendidos[q] /\ swap'[q] = swap[q],
         \A n \in Pagina : tabla1[TablaDe(n)].id = q => EnPagina(n)' = EnPagina(n)
  PROVE  Quedan(q)
<1>1. FormaDeContenido /\ FormaDeContenido'
  BY ContenidoSegunLugar, ContenidoDespues
<1> SUFFICES ASSUME NEW l \in Local PROVE Contenido(q, l)' = Contenido(q, l)
  BY DEF Quedan
<1>2. CASE TieneTabla(q)
  <2>1. PICK i \in Tablas : tabla1[i].id = q
    BY <1>2 DEF TieneTabla
  <2>2. PICK n \in Pagina : n = PaginaDe(i, l) /\ TablaDe(n) = i
    BY PaginaDeEntrada
  <2>3. tabla1'[i].id = q
    BY <2>1
  <2>4. Contenido(tabla1[i].id, l) = EnPagina(PaginaDe(i, l))
    BY <1>1, <2>1 DEF FormaDeContenido
  <2>5. Contenido(q, l) = EnPagina(n)
    BY <2>1, <2>2, <2>4
  <2>6. Contenido(tabla1[i].id, l)' = EnPagina(PaginaDe(i, l))'
    BY <1>1, <2>3 DEF FormaDeContenido
  <2>7. Contenido(q, l)' = EnPagina(n)'
    BY <2>2, <2>3, <2>6
  <2> QED BY <2>1, <2>2, <2>5, <2>7
<1>3. CASE EstaSuspendido(q)
  <2>1. Contenido(q, l) = IF l \in suspendidos[q] THEN swap[q][l] ELSE Indefinido
    BY <1>1, <1>3 DEF FormaDeContenido
  <2>2. Contenido(q, l)' = IF l \in suspendidos'[q] THEN swap'[q][l] ELSE Indefinido
    BY <1>1, <1>3 DEF FormaDeContenido
  <2> QED BY <1>3, <2>1, <2>2
<1>4. CASE ~TieneTabla(q) /\ ~EstaSuspendido(q)
  <2>1. ~TieneTabla(q)'
    BY <1>4 DEF TieneTabla
  <2> QED BY <1>1, <1>4, <2>1 DEF FormaDeContenido
<1> QED BY <1>2, <1>3, <1>4

LEMMA IntactoQueda ==
  ASSUME IInv, IInv', NEW q \in Proc, Intacto(q), escrituras' = escrituras
  PROVE  Quedan(q)
<1>1. ASSUME NEW n \in Pagina, tabla1[TablaDe(n)].id = q PROVE EnPagina(n)' = EnPagina(n)
  BY <1>1, PaginasIntactas, PaginaConservada, DeIInv
<1> QED BY <1>1, QuedanSegunPaginas DEF Intacto

LEMMA CopiasPorPagina ==
  CopiasIguales <=> /\ \A n \in Pagina : CopiaIgual(n)
                    /\ \A n \in Pagina : tabla1[TablaDe(n)].id = Libre => ~tabla2[n].enSwap
                    /\ \A k \in 1..Len(escrituras) : marcos[escrituras[k].marco].enUso
BY DEF CopiasIguales, CopiaIgual

\* Memory is told about p, or only its table is touched.
LEMMA CopiasDeOtros ==
  ASSUME IInv, IInv', CopiasIguales, NEW p \in Proc, \A q \in Proc : q # p => Intacto(q),
         \A n \in Pagina : tabla1'[TablaDe(n)].id = p => CopiaIgual(n)',
         \A n \in Pagina : tabla1'[TablaDe(n)].id = Libre => ~tabla2'[n].enSwap,
         \A k \in 1..Len(escrituras') : marcos'[escrituras'[k].marco].enUso
  PROVE  CopiasIguales'
<1>1. ASSUME NEW n \in Pagina PROVE CopiaIgual(n)'
  <2>1. TablaDe(n) \in Tablas
    BY EntradaDePagina
  <2>2. CASE tabla1'[TablaDe(n)].id = Libre
    BY <2>2 DEF IInv, MarcosCoherentes, CopiaIgual
  <2>3. CASE tabla1'[TablaDe(n)].id \in Proc /\ tabla1'[TablaDe(n)].id # p
    <3>1. PICK q \in Proc : q = tabla1'[TablaDe(n)].id /\ q # p
      BY <2>3
    <3>2. Intacto(q)
      BY <3>1
    <3>3. tabla1[TablaDe(n)].id = q
      BY <2>1, <3>1, <3>2 DEF Intacto
    <3>4. Conserva(n) /\ CopiaIgual(n)
      BY <3>2, <3>3, PaginasIntactas, DeIInv, CopiasPorPagina
    <3> QED BY <3>4, PaginaConservada
  <2>4. tabla1'[TablaDe(n)].id \in Proc \union {Libre}
    BY <2>1 DEF IInv, TypeOK, MemoriaTypeOK
  <2> QED BY <2>2, <2>3, <2>4
<1> QED BY <1>1 DEF CopiasIguales, CopiaIgual

\* A step that leaves Memory as it was, and the socket
LEMMA CopiasSinMemoria ==
  ASSUME IInv, IInv', CopiasIguales, UNCHANGED <<memoria, escrituras>>
  PROVE  CopiasIguales' /\ \A q \in Proc : Quedan(q)
<1>1. CopiasIguales'
  BY DEF CopiasIguales, memoria
<1> QED BY <1>1, SinMemoriaIntactos, IntactoQueda

\* The pages of a table without owner are nowhere.
LEMMA PaginasLibres ==
  ASSUME MemInv, CopiasIguales, NEW n \in Pagina, tabla1[TablaDe(n)].id = Libre
  PROVE  ~tabla2[n].presencia /\ ~tabla2[n].enSwap
BY DEF MemInv, MarcosCoherentes, CopiasIguales

LEMMA ContenidoAdmitir ==
  ASSUME IInv, IInv', CopiasIguales, NEW p \in Proc, Admitir(p), algoritmo' = algoritmo
  PROVE  CopiasIguales' /\ \A q \in Proc : Quedan(q)
<1>1. CrearProceso(p) /\ proceso[p] = "nuevo" /\ escrituras' = escrituras
  BY DEF Admitir, Pasar, varsCpu
<1>2. ~TieneTabla(p) /\ ~EstaSuspendido(p)
  BY <1>1, DeIInv DEF Alojado
<1>3. \A q \in Proc : q # p => Intacto(q)
  BY <1>1, <1>2, CrearIntactos, DeIInv
<1> DEFINE i == Min(TablasLibres)
<1>4. i \in Tablas /\ tabla1[i].id = Libre
  BY <1>1, PrimeraTablaLibre DEF CrearProceso
<1>5. /\ tabla1' = [tabla1 EXCEPT ![i].id = p] /\ tabla1 \in [Tablas -> [id : Proc \union {Libre}, puntero : Local]]
      /\ UNCHANGED <<tabla2, marcos, ram, suspendidos>>
  BY <1>1 DEF CrearProceso, IInv, TypeOK, MemoriaTypeOK
<1> HIDE DEF i
<1>6. tabla1'[i].id = p /\ \A j \in Tablas : j # i => tabla1'[j].id = tabla1[j].id
  BY <1>4, <1>5
<1>7. \A n \in Pagina : TablaDe(n) = i => ~tabla2'[n].presencia /\ ~tabla2'[n].enSwap
  BY <1>4, <1>5, PaginasLibres, DeIInv
<1>8. \A j \in Tablas : tabla1'[j].id = p => j = i
  BY <1>2, <1>6 DEF TieneTabla
<1>9. CopiasIguales'
  <2>1. \A n \in Pagina : tabla1'[TablaDe(n)].id = p => CopiaIgual(n)'
    BY <1>7, <1>8, EntradaDePagina DEF CopiaIgual
  <2>2. \A n \in Pagina : tabla1'[TablaDe(n)].id = Libre => ~tabla2'[n].enSwap
    BY <1>5, <1>6, <1>7, EntradaDePagina DEF CopiasIguales
  <2>3. \A k \in 1..Len(escrituras') : marcos'[escrituras'[k].marco].enUso
    BY <1>1, <1>5 DEF CopiasIguales
  <2> QED BY <1>3, <2>1, <2>2, <2>3, CopiasDeOtros
<1>10. Quedan(p)
  <2> SUFFICES ASSUME NEW l \in Local PROVE Contenido(p, l)' = Contenido(p, l)
    BY DEF Quedan
  <2>1. Contenido(p, l) = Indefinido
    BY <1>2, ContenidoSegunLugar DEF FormaDeContenido
  <2>2. PICK n \in Pagina : n = PaginaDe(i, l) /\ TablaDe(n) = i
    BY <1>4, PaginaDeEntrada
  <2>3. PICK j \in Tablas : j = i
    BY <1>4
  <2>4. Contenido(tabla1[j].id, l)' = EnPagina(PaginaDe(j, l))'
    BY <1>6, <2>3, ContenidoDespues DEF FormaDeContenido
  <2>5. Contenido(p, l)' = EnPagina(n)'
    BY <1>6, <2>2, <2>3, <2>4
  <2>6. EnPagina(n)' = Indefinido
    BY <1>7, <2>2 DEF EnPagina
  <2> QED BY <2>1, <2>5, <2>6
<1>11. \A q \in Proc : q # p => Quedan(q)
  BY <1>1, <1>3, IntactoQueda
<1> QED BY <1>9, <1>10, <1>11

\* The tables of p are cleaned, and no write of it waits: the copies of the others are the same.
LEMMA CopiasAlLimpiar ==
  ASSUME IInv, IInv', CopiasIguales, NEW p \in Proc, TieneTabla(p), LimpiarTablas(TablaNivel1(p)),
         \A q \in Proc : q # p => Intacto(q), Atendido(p), ~TieneTabla(p)', escrituras' = escrituras
  PROVE  CopiasIguales'
<1>1. PICK t \in Tablas : t = TablaNivel1(p) /\ tabla1[t].id = p
  BY TablaPropia, DeIInv DEF MemInv
<1>2. /\ tabla2' = [n \in Pagina |-> IF n \in PaginasDe(t) THEN EntradaVacia ELSE tabla2[n]]
      /\ marcos' = [f \in Marco |-> IF f \in MarcosDe(t) THEN [enUso |-> FALSE, pagina |-> SinPagina]
                                                         ELSE marcos[f]]
  BY <1>1 DEF LimpiarTablas
<1>3. \A j \in Tablas : j # t => tabla1'[j] = tabla1[j]
  BY <1>1, PasoLimpiarTablas, DeIInv
<1>4. ASSUME NEW n \in Pagina, tabla1'[TablaDe(n)].id = Libre PROVE ~tabla2'[n].enSwap
  <2>1. TablaDe(n) \in Tablas /\ (n \in PaginasDe(t) <=> TablaDe(n) = t)
    BY EntradaDePagina
  <2>2. CASE n \in PaginasDe(t)
    BY <1>2, <2>2 DEF EntradaVacia
  <2>3. CASE n \notin PaginasDe(t)
    BY <1>2, <1>3, <1>4, <2>1, <2>3 DEF CopiasIguales
  <2> QED BY <2>2, <2>3
<1>5. ASSUME NEW k \in 1..Len(escrituras') PROVE marcos'[escrituras'[k].marco].enUso
  <2>1. escrituras[k] \in Escritura
    BY TiposDeCpu, ElementOfSeq
  <2>2. PICK f \in Marco : f = escrituras[k].marco
    BY <2>1 DEF Escritura
  <2>3. f \notin MarcosDe(t) /\ marcos[f].enUso
    BY <1>1, <2>2 DEF Atendido, CopiasIguales
  <2> QED BY <1>2, <2>2, <2>3
<1>6. \A n \in Pagina : tabla1'[TablaDe(n)].id # p
  BY EntradaDePagina DEF TieneTabla
<1> QED BY <1>4, <1>5, <1>6, CopiasDeOtros

LEMMA ContenidoSuspender ==
  ASSUME Puntual, IInv, IInv', CopiasIguales, NEW p \in Proc, Suspender(p), algoritmo' = algoritmo
  PROVE  CopiasIguales' /\ \A q \in Proc : Quedan(q)
<1>1. SuspenderProceso(p) /\ proceso[p] = "bloqueado" /\ escrituras' = escrituras /\ Atendido(p)
  BY DEF Suspender, Pasar, varsCpu
<1>2. TieneTabla(p) \/ EstaSuspendido(p)
  BY <1>1, DeIInv DEF Alojado, Admitidos
<1>3. \A q \in Proc : q # p => Intacto(q)
  BY <1>1, <1>2, SuspenderIntactos, DeIInv
<1>4. CASE UNCHANGED memoria
  BY <1>1, <1>4, CopiasSinMemoria
<1>5. CASE SuspenderAlojado(p)
  <2>1. TieneTabla(p) /\ ~EstaSuspendido(p)
    BY <1>2, <1>5 DEF SuspenderAlojado
  <2>2. PICK t \in Tablas : t = TablaNivel1(p) /\ tabla1[t].id = p
    BY <2>1, TablaPropia, DeIInv DEF MemInv
  <2> DEFINE e == [l \in Local |-> tabla2[PaginaDe(t, l)]]
             escritas == {l \in Local : e[l].presencia /\ e[l].modificado}
  <2>3. /\ swap' = [swap EXCEPT ![p] = [l \in Local |-> IF l \in escritas THEN ram[e[l].marco] ELSE @[l]]]
        /\ suspendidos' = [q \in DOMAIN suspendidos \union {p} |->
                             IF q = p THEN PaginasEnSwap(e) ELSE suspendidos[q]]
        /\ LimpiarTablas(t)
    BY <1>5, <2>2 DEF SuspenderAlojado
  <2>4. EstaSuspendido(p)' /\ suspendidos'[p] = PaginasEnSwap(e)
    <3> HIDE DEF e
    <3>1. DOMAIN suspendidos' = DOMAIN suspendidos \union {p}
      BY <2>3
    <3> QED BY <2>3, <3>1 DEF EstaSuspendido
  <2>5. ~TieneTabla(p)'
    BY <2>4 DEF IInv, UnAlojamiento
  <2>6. CopiasIguales'
    BY <1>1, <1>3, <2>1, <2>2, <2>3, <2>5, CopiasAlLimpiar
  <2>7. ASSUME NEW l \in Local PROVE Contenido(p, l)' = Contenido(p, l)
    <3>1. PICK n \in Pagina : n = PaginaDe(t, l) /\ TablaDe(n) = t /\ Indice(n) = l
      BY PaginaDeEntrada
    <3>2. e[l] = tabla2[n]
      BY <3>1
    <3> DEFINE f == tabla2[n].marco
    <3>3. swap'[p][l] = IF tabla2[n].presencia /\ tabla2[n].modificado THEN ram[f] ELSE swap[p][l]
      <4>1. l \in escritas <=> tabla2[n].presencia /\ tabla2[n].modificado
        BY <3>2
      <4> HIDE DEF e, escritas
      <4>2. swap'[p] = [h \in Local |-> IF h \in escritas THEN ram[e[h].marco] ELSE swap[p][h]]
        BY <2>3 DEF IInv, TypeOK, MemoriaTypeOK
      <4> QED BY <3>2, <4>1, <4>2
    <3>4. l \in suspendidos'[p] <=> tabla2[n].enSwap \/ (tabla2[n].presencia /\ tabla2[n].modificado)
      <4> HIDE DEF e
      <4> QED BY <2>4, <3>2 DEF PaginasEnSwap
    <3>5. Contenido(p, l)' = IF l \in suspendidos'[p] THEN swap'[p][l] ELSE Indefinido
      BY <2>4, ContenidoDespues DEF FormaDeContenido
    <3>6. Contenido(p, l) = EnPagina(n)
      BY <2>2, <3>1, ContenidoSegunLugar DEF FormaDeContenido
    <3>7. tabla2[n].presencia => UltimaEn(escrituras, f) = SinEscritura
      <4>1. tabla2[n].presencia => f \in MarcosDe(t)
        BY <3>1, MarcoDePresente, DeIInv
      <4> HIDE DEF f
      <4>2. tabla2[n].presencia => \A k \in 1..Len(escrituras) : escrituras[k].marco # f
        BY <1>1, <2>1, <2>2, <4>1 DEF Atendido
      <4> QED BY <4>2, NingunaEscritura
    <3>8. EnPagina(n) =
            IF tabla2[n].presencia
            THEN IF UltimaEn(escrituras, f) # SinEscritura THEN UltimaEn(escrituras, f)
                 ELSE IF tabla2[n].modificado \/ tabla2[n].enSwap THEN ram[f] ELSE Indefinido
            ELSE IF tabla2[n].enSwap THEN swap[p][l] ELSE Indefinido
      BY <2>2, <3>1 DEF EnPagina
    <3>9. tabla2[n].presencia /\ ~tabla2[n].modificado /\ tabla2[n].enSwap => ram[f] = swap[p][l]
      BY <2>2, <3>1 DEF CopiasIguales
    <3> HIDE DEF f
    <3> QED BY <3>3, <3>4, <3>5, <3>6, <3>7, <3>8, <3>9
  <2>8. Quedan(p)
    BY <2>7 DEF Quedan
  <2>9. \A q \in Proc : q # p => Quedan(q)
    BY <1>1, <1>3, IntactoQueda
  <2> QED BY <2>6, <2>8, <2>9
<1> QED BY <1>1, <1>4, <1>5 DEF SuspenderProceso

\* The process that ends has nothing any more.
LEMMA ContenidoLiberar ==
  ASSUME Puntual, IInv, IInv', CopiasIguales, NEW p \in Proc, Liberar(p), algoritmo' = algoritmo
  PROVE  /\ CopiasIguales' /\ \A q \in Proc : q # p => Quedan(q)
         /\ \A l \in Local : Contenido(p, l)' = Indefinido
<1>1. TerminarProceso(p) /\ proceso[p] = "terminado" /\ escrituras' = escrituras /\ Atendido(p)
  BY DEF Liberar, Pasar, varsCpu
<1>2. TieneTabla(p) \/ EstaSuspendido(p)
  BY <1>1, DeIInv DEF Alojado, Admitidos
<1>3. \A q \in Proc : q # p => Intacto(q)
  BY <1>1, <1>2, TerminarIntactos, DeIInv
<1>4. ~TieneTabla(p)' /\ ~EstaSuspendido(p)'
  BY <1>1, <1>2, PasoTerminarProceso, DeIInv
<1>5. \A l \in Local : Contenido(p, l)' = Indefinido
  BY <1>4, ContenidoDespues DEF FormaDeContenido
<1>6. CopiasIguales'
  <2>1. CASE EstaSuspendido(p)
    <3>1. UNCHANGED <<tabla1, tabla2, marcos>>
      BY <1>1, <2>1 DEF TerminarProceso
    <3>2. \A n \in Pagina : tabla1'[TablaDe(n)].id # p
      BY <1>4, EntradaDePagina DEF TieneTabla
    <3>3. \A n \in Pagina : tabla1'[TablaDe(n)].id = Libre => ~tabla2'[n].enSwap
      BY <3>1 DEF CopiasIguales
    <3>4. \A k \in 1..Len(escrituras') : marcos'[escrituras'[k].marco].enUso
      BY <1>1, <3>1 DEF CopiasIguales
    <3> QED BY <1>3, <3>2, <3>3, <3>4, CopiasDeOtros
  <2>2. CASE ~EstaSuspendido(p)
    <3>1. TieneTabla(p) /\ LimpiarTablas(TablaNivel1(p))
      BY <1>1, <1>2, <2>2 DEF TerminarProceso
    <3> QED BY <1>1, <1>3, <1>4, <3>1, CopiasAlLimpiar
  <2> QED BY <2>1, <2>2
<1> QED BY <1>1, <1>3, <1>5, <1>6, IntactoQueda

\* A process that is resumed finds in its new table the pages it had in swap.
LEMMA ContenidoPedirTabla ==
  ASSUME IInv, IInv', CopiasIguales, NEW p \in Proc, ObtenerTablaNivel2(p), algoritmo' = algoritmo,
         escrituras' = escrituras
  PROVE  CopiasIguales' /\ \A q \in Proc : Quedan(q)
<1>1. \A q \in Proc : q # p => Intacto(q)
  BY TablaNivel2Intactos, DeIInv
<1>2. CASE UNCHANGED memoria
  BY <1>2, CopiasSinMemoria
<1>3. CASE ~TieneTabla(p) /\ DespertarProceso(p)
  <2> DEFINE i == Min(TablasLibres)
  <2>1. i \in Tablas /\ tabla1[i].id = Libre
    BY <1>3, PrimeraTablaLibre DEF DespertarProceso
  <2>2. /\ EstaSuspendido(p)
        /\ tabla1' = [tabla1 EXCEPT ![i].id = p]
        /\ tabla2' = [n \in Pagina |-> IF n \in PaginasDe(i) /\ Indice(n) \in suspendidos[p]
                                       THEN [tabla2[n] EXCEPT !.enSwap = TRUE] ELSE tabla2[n]]
        /\ UNCHANGED <<marcos, ram, swap>>
    BY <1>3 DEF DespertarProceso
  <2> HIDE DEF i
  <2>3. tabla1'[i].id = p /\ \A j \in Tablas : j # i => tabla1'[j].id = tabla1[j].id
    BY <2>1, <2>2, DeIInv DEF MemInv, MemoriaTypeOK
  <2>4. ASSUME NEW n \in Pagina, TablaDe(n) = i
        PROVE  ~tabla2'[n].presencia /\ (tabla2'[n].enSwap <=> Indice(n) \in suspendidos[p])
    <3>1. n \in PaginasDe(i) /\ ~tabla2[n].presencia /\ ~tabla2[n].enSwap /\ tabla2[n] \in EntradaNivel2
      BY <2>1, <2>4, EntradaDePagina, PaginasLibres, DeIInv DEF MemInv, MemoriaTypeOK
    <3> QED BY <2>2, <3>1 DEF EntradaNivel2
  <2>5. \A n \in Pagina : TablaDe(n) # i => tabla2'[n] = tabla2[n]
    BY <2>1, <2>2, EntradaDePagina
  <2>6. \A j \in Tablas : tabla1'[j].id = p => j = i
    BY <1>3, <2>3 DEF TieneTabla
  <2>7. CopiasIguales'
    <3>1. \A n \in Pagina : tabla1'[TablaDe(n)].id = p => CopiaIgual(n)'
      BY <2>4, <2>6, EntradaDePagina DEF CopiaIgual
    <3>2. \A n \in Pagina : tabla1'[TablaDe(n)].id = Libre => ~tabla2'[n].enSwap
      <4>1. p # Libre
        BY ProcAssumption DEF Libre
      <4> QED BY <2>3, <2>5, <4>1, EntradaDePagina DEF CopiasIguales
    <3>3. \A k \in 1..Len(escrituras') : marcos'[escrituras'[k].marco].enUso
      BY <2>2 DEF CopiasIguales
    <3> QED BY <1>1, <3>1, <3>2, <3>3, CopiasDeOtros
  <2>8. Quedan(p)
    <3> SUFFICES ASSUME NEW l \in Local PROVE Contenido(p, l)' = Contenido(p, l)
      BY DEF Quedan
    <3>1. Contenido(p, l) = IF l \in suspendidos[p] THEN swap[p][l] ELSE Indefinido
      BY <2>2, ContenidoSegunLugar DEF FormaDeContenido
    <3>2. PICK n \in Pagina : n = PaginaDe(i, l) /\ TablaDe(n) = i /\ Indice(n) = l
      BY <2>1, PaginaDeEntrada
    <3>3. PICK j \in Tablas : j = i
      BY <2>1
    <3>4. Contenido(tabla1[j].id, l)' = EnPagina(PaginaDe(j, l))'
      BY <2>3, <3>3, ContenidoDespues DEF FormaDeContenido
    <3>5. Contenido(p, l)' = EnPagina(n)'
      BY <2>3, <3>2, <3>3, <3>4
    <3>6. EnPagina(n)' = IF l \in suspendidos[p] THEN swap'[p][l] ELSE Indefinido
      BY <2>3, <2>4, <3>2 DEF EnPagina
    <3> QED BY <2>2, <3>1, <3>5, <3>6
  <2> QED BY <1>1, <2>7, <2>8, IntactoQueda
<1> QED BY <1>2, <1>3 DEF ObtenerTablaNivel2

\* The page that loses its frame, if any, is in swap if it has to be, as it was in the frame.
Sale(n) ==
  /\ tabla2[n].presencia /\ ~tabla2'[n].presencia
  /\ tabla2'[n].enSwap <=> tabla2[n].enSwap \/ tabla2[n].modificado
  /\ tabla1[TablaDe(n)].id \in Proc /\ tabla1'[TablaDe(n)].id = tabla1[TablaDe(n)].id
  /\ swap'[tabla1[TablaDe(n)].id][Indice(n)] =
       IF tabla2[n].modificado THEN ram[tabla2[n].marco] ELSE swap[tabla1[TablaDe(n)].id][Indice(n)]
\* The page that gets a frame has in it what swap has of it.
Entra(n) ==
  /\ ~tabla2[n].presencia /\ tabla2'[n].presencia
  /\ ~tabla2'[n].modificado /\ tabla2'[n].enSwap = tabla2[n].enSwap
  /\ tabla2[n].enSwap => ram'[tabla2'[n].marco] = swap[tabla1[TablaDe(n)].id][Indice(n)]
  /\ tabla1[TablaDe(n)].id \in Proc /\ tabla1'[TablaDe(n)].id = tabla1[TablaDe(n)].id
  /\ swap'[tabla1[TablaDe(n)].id][Indice(n)] = swap[tabla1[TablaDe(n)].id][Indice(n)]

\* Without writes on their way, none of the three changes what the page holds.
LEMMA PaginaQueda ==
  ASSUME NEW n \in Pagina, Conserva(n) \/ Sale(n) \/ Entra(n), CopiaIgual(n),
         escrituras = << >>, escrituras' = << >>
  PROVE  CopiaIgual(n)' /\ EnPagina(n)' = EnPagina(n)
<1>1. \A f : UltimaEn(escrituras, f) = SinEscritura /\ UltimaEn(escrituras', f) = SinEscritura
  <2>1. Len(<< >>) = 0
    OBVIOUS
  <2> QED BY <2>1, NingunaEscritura
<1>2. EnPagina(n) =
        IF tabla2[n].presencia
        THEN IF tabla2[n].modificado \/ tabla2[n].enSwap THEN ram[tabla2[n].marco] ELSE Indefinido
        ELSE IF tabla2[n].enSwap THEN swap[tabla1[TablaDe(n)].id][Indice(n)] ELSE Indefinido
  BY <1>1 DEF EnPagina
<1>3. EnPagina(n)' =
        IF tabla2'[n].presencia
        THEN IF tabla2'[n].modificado \/ tabla2'[n].enSwap THEN ram'[tabla2'[n].marco] ELSE Indefinido
        ELSE IF tabla2'[n].enSwap THEN swap'[tabla1'[TablaDe(n)].id][Indice(n)] ELSE Indefinido
  BY <1>1 DEF EnPagina, UltimaEn, EscriturasEn
<1>4. CASE Conserva(n)
  BY <1>1, <1>4, PaginaConservada
<1>5. CASE Sale(n)
  BY <1>2, <1>3, <1>5 DEF Sale, CopiaIgual
<1>6. CASE Entra(n)
  BY <1>2, <1>3, <1>6 DEF Entra, CopiaIgual
<1> QED BY <1>4, <1>5, <1>6

\* HEADER_marco brings a page in and takes another one out, or none.
LEMMA PaginasTrasMarcoLibre ==
  ASSUME MemInv, NEW n \in Pagina, ObtenerMarcoLibre(n), tabla1[TablaDe(n)].id \in Proc,
         NEW m \in Pagina, tabla1[TablaDe(m)].id \in Proc
  PROVE  Conserva(m) \/ Entra(m)
<1> DEFINE i == TablaDe(n)
           f == Min(MarcosLibres(i))
<1>1. i \in Tablas /\ TablaDe(m) \in Tablas /\ Indice(n) \in Local
  BY EntradaDePagina
<1>2. /\ ~tabla2[n].presencia /\ MarcosLibres(i) # {}
      /\ tabla1' = IF f = PrimerMarco(i) THEN [tabla1 EXCEPT ![i].puntero = Indice(n)] ELSE tabla1
      /\ tabla2' = [tabla2 EXCEPT ![n] = Cargada(n, f)]
      /\ CargarEn(n, f) /\ swap' = swap
  BY DEF ObtenerMarcoLibre
<1>3. f \in Marco /\ ~marcos[f].enUso
  <2>1. MarcosLibres(i) \in SUBSET Nat
    BY <1>1, MarcosDeTabla DEF MarcosLibres, Marco
  <2>2. f \in MarcosLibres(i)
    BY <1>2, <2>1, MinimoDeNaturales
  <2> HIDE DEF f
  <2> QED BY <1>1, <2>2, MarcosDeTabla DEF MarcosLibres
<1> HIDE DEF f, i
<1>4. \A j \in Tablas : tabla1'[j].id = tabla1[j].id
  BY <1>1, <1>2 DEF MemInv, MemoriaTypeOK
<1>5. ram' = IF tabla2[n].enSwap
             THEN [ram EXCEPT ![f] = swap[tabla1[TablaDe(n)].id][Indice(n)]] ELSE ram
  BY <1>2 DEF CargarEn
<1>6. CASE m = n
  <2>1. tabla2'[n] = Cargada(n, f)
    BY <1>2 DEF MemInv, MemoriaTypeOK
  <2>2. tabla2[n].enSwap => ram'[f] = swap[tabla1[TablaDe(n)].id][Indice(n)]
    BY <1>3, <1>5 DEF MemInv, MemoriaTypeOK
  <2> QED BY <1>1, <1>2, <1>4, <1>6, <2>1, <2>2 DEF Cargada, Entra
<1>7. CASE m # n
  <2>1. tabla2'[m] = tabla2[m]
    BY <1>2, <1>7
  <2>2. tabla2[m].presencia => ram'[tabla2[m].marco] = ram[tabla2[m].marco]
    <3>1. tabla2[m].presencia => tabla2[m].marco # f /\ tabla2[m].marco \in Marco
      <4> SUFFICES ASSUME tabla2[m].presencia PROVE tabla2[m].marco # f /\ tabla2[m].marco \in Marco
        OBVIOUS
      <4>1. tabla2[m].marco \in Marco /\ marcos[tabla2[m].marco] = [enUso |-> TRUE, pagina |-> m]
        BY MarcoDePresente
      <4>2. marcos[tabla2[m].marco].enUso
        BY <4>1
      <4> QED BY <1>3, <4>1, <4>2
    <3> QED BY <1>5, <3>1 DEF MemInv, MemoriaTypeOK
  <2> QED BY <1>1, <1>2, <1>4, <2>1, <2>2 DEF Conserva
<1> QED BY <1>6, <1>7

LEMMA PaginasTrasReemplazo ==
  ASSUME MemInv, NEW n \in Pagina, ObtenerMarcoReemplazando(n), tabla1[TablaDe(n)].id \in Proc,
         NEW m \in Pagina, tabla1[TablaDe(m)].id \in Proc
  PROVE  Conserva(m) \/ Entra(m) \/ Sale(m)
<1> DEFINE i == TablaDe(n)
           u == tabla1[i].id
           ronda == Ronda(i)
           eleccion == SeleccionarVictima(ronda)
           v == ronda[eleccion.en]
           siguiente == ronda[Siguiente(eleccion.en)]
           f == tabla2[v].marco
           sinUso == {ronda[k] : k \in eleccion.visitadas}
<1>1. i \in Tablas /\ TablaDe(m) \in Tablas /\ Indice(n) \in Local /\ Indice(m) \in Local
  BY EntradaDePagina
<1>2. /\ ~tabla2[n].presencia /\ MarcosLibres(i) = {}
      /\ tabla1' = [tabla1 EXCEPT ![i].puntero = Indice(siguiente)]
      /\ tabla2' = [h \in Pagina |->
                      CASE h = n -> Cargada(n, f)
                        [] h = v -> Descargada(h, tabla2[h].uso /\ h \notin sinUso)
                        [] OTHER -> [tabla2[h] EXCEPT !.uso = @ /\ h \notin sinUso]]
      /\ swap' = IF tabla2[v].modificado THEN [swap EXCEPT ![u][Indice(v)] = ram[f]] ELSE swap
      /\ CargarEn(n, f)
  BY DEF ObtenerMarcoReemplazando
<1>3. v \in Pagina /\ tabla2[v].presencia /\ TablaDe(v) = i
  <2>1. eleccion.en \in 1..MARCOS
    BY EleccionEnRonda
  <2> QED BY <1>1, <1>2, <2>1, PaginasPresentes
<1> HIDE DEF siguiente, v, eleccion, ronda, sinUso
<1>4. v # n /\ Indice(v) \in Local /\ Indice(v) # Indice(n)
  <2>1. v # n
    BY <1>2, <1>3
  <2>2. v = PaginaDe(TablaDe(v), Indice(v)) /\ n = PaginaDe(TablaDe(n), Indice(n)) /\ Indice(v) \in Local
    BY <1>3, EntradaDePagina
  <2> QED BY <1>3, <2>1, <2>2
<1>5. f \in Marco /\ \A h \in Pagina : tabla2[h].presencia /\ tabla2[h].marco = f => h = v
  BY <1>3, MarcoDePresente
<1>6. \A j \in Tablas : tabla1'[j].id = tabla1[j].id
  BY <1>1, <1>2 DEF MemInv, MemoriaTypeOK
<1>7. ram' = IF tabla2[n].enSwap THEN [ram EXCEPT ![f] = swap[u][Indice(n)]] ELSE ram
  BY <1>2 DEF CargarEn
<1> HIDE DEF f
<1>8. /\ \A p \in Proc, l \in Local : p # u \/ l # Indice(v) => swap'[p][l] = swap[p][l]
      /\ swap'[u][Indice(v)] = IF tabla2[v].modificado THEN ram[f] ELSE swap[u][Indice(v)]
  <2>1. swap \in [Proc -> [Local -> Valor]] /\ u \in Proc
    BY DEF MemInv, MemoriaTypeOK
  <2> HIDE DEF u
  <2> QED BY <1>2, <1>4, <2>1
<1>9. CASE m = n
  <2>1. tabla2'[n] = Cargada(n, f)
    BY <1>2, <1>4
  <2>2. tabla2[n].enSwap => ram'[f] = swap[u][Indice(n)]
    BY <1>5, <1>7 DEF MemInv, MemoriaTypeOK
  <2> QED BY <1>1, <1>2, <1>4, <1>6, <1>8, <1>9, <2>1, <2>2 DEF Cargada, Entra
<1>10. CASE m = v
  <2>1. tabla2'[v] = Descargada(v, tabla2[v].uso /\ v \notin sinUso)
    BY <1>2, <1>3, <1>4
  <2>2. tabla2[v] \in EntradaNivel2
    BY <1>3 DEF MemInv, MemoriaTypeOK
  <2>3. ~tabla2'[v].presencia /\ (tabla2'[v].enSwap <=> tabla2[v].enSwap \/ tabla2[v].modificado)
    BY <2>1, <2>2 DEF Descargada, EntradaNivel2
  <2> QED BY <1>1, <1>3, <1>6, <1>8, <1>10, <2>3 DEF Sale, f
<1>11. CASE m # n /\ m # v
  <2>1. tabla2'[m] = [tabla2[m] EXCEPT !.uso = @ /\ m \notin sinUso]
    BY <1>2, <1>11
  <2>2. tabla2[m] \in EntradaNivel2
    BY DEF MemInv, MemoriaTypeOK
  <2>3. /\ tabla2'[m].presencia = tabla2[m].presencia /\ tabla2'[m].marco = tabla2[m].marco
        /\ tabla2'[m].modificado = tabla2[m].modificado /\ tabla2'[m].enSwap = tabla2[m].enSwap
    BY <2>1, <2>2 DEF EntradaNivel2
  <2>4. tabla2[m].presencia => ram'[tabla2[m].marco] = ram[tabla2[m].marco]
    <3>1. tabla2[m].presencia => tabla2[m].marco # f /\ tabla2[m].marco \in Marco
      BY <1>5, <1>11, MarcoDePresente
    <3> QED BY <1>7, <3>1 DEF MemInv, MemoriaTypeOK
  <2>5. tabla1[TablaDe(m)].id # u \/ Indice(m) # Indice(v)
    <3> SUFFICES ASSUME tabla1[TablaDe(m)].id = u, Indice(m) = Indice(v) PROVE FALSE
      OBVIOUS
    <3>1. TablaDe(m) = i
      BY <1>1, ProcAssumption DEF MemInv, UnAlojamiento, Libre
    <3>2. m = PaginaDe(TablaDe(m), Indice(m)) /\ v = PaginaDe(TablaDe(v), Indice(v))
      BY <1>3, EntradaDePagina
    <3> QED BY <1>3, <1>11, <3>1, <3>2
  <2>6. swap'[tabla1[TablaDe(m)].id][Indice(m)] = swap[tabla1[TablaDe(m)].id][Indice(m)]
    BY <1>1, <1>8, <2>5
  <2> QED BY <1>1, <1>6, <2>3, <2>4, <2>6 DEF Conserva
<1> QED BY <1>9, <1>10, <1>11

LEMMA ContenidoPedirMarco ==
  ASSUME IInv, IInv', CopiasIguales, NEW n \in Pagina, ObtenerMarco(n), tabla1[TablaDe(n)].id \in Proc,
         algoritmo' = algoritmo, escrituras = << >>, escrituras' = << >>
  PROVE  CopiasIguales' /\ \A q \in Proc : Quedan(q)
<1>1. CASE ObtenerMarcoPresente(n)
  BY <1>1, CopiasSinMemoria DEF ObtenerMarcoPresente
<1>2. CASE ObtenerMarcoLibre(n) \/ ObtenerMarcoReemplazando(n)
  <2>1. /\ suspendidos' = suspendidos /\ MemInv
        /\ \A j \in Tablas : tabla1'[j].id = tabla1[j].id
    BY PasoObtenerMarco, DeIInv
  <2>2. ASSUME NEW m \in Pagina, tabla1[TablaDe(m)].id \in Proc
        PROVE  CopiaIgual(m)' /\ EnPagina(m)' = EnPagina(m)
    <3>1. CopiaIgual(m)
      BY CopiasPorPagina
    <3>2. Conserva(m) \/ Sale(m) \/ Entra(m)
      BY <1>2, <2>1, <2>2, PaginasTrasMarcoLibre, PaginasTrasReemplazo
    <3> QED BY <3>1, <3>2, PaginaQueda
  <2>3. ASSUME NEW m \in Pagina, tabla1[TablaDe(m)].id = Libre
        PROVE  tabla2'[m].enSwap = FALSE
    <3>1. m # n /\ TablaDe(m) # TablaDe(n) /\ ~tabla2[m].presencia /\ ~tabla2[m].enSwap
      BY <2>1, <2>3, PaginasLibres, ProcAssumption DEF Libre
    <3>2. tabla2[m] \in EntradaNivel2
      BY <2>1 DEF MemInv, MemoriaTypeOK
    <3>3. CASE ObtenerMarcoLibre(n)
      <4>1. tabla2'[m] = tabla2[m]
        BY <3>1, <3>3 DEF ObtenerMarcoLibre
      <4> QED BY <3>1, <3>2, <4>1 DEF EntradaNivel2
    <3>4. CASE ObtenerMarcoReemplazando(n)
      <4> DEFINE ronda == Ronda(TablaDe(n))
                 eleccion == SeleccionarVictima(ronda)
                 v == ronda[eleccion.en]
                 f == tabla2[v].marco
                 sinUso == {ronda[k] : k \in eleccion.visitadas}
      <4>1. tabla2' = [h \in Pagina |->
                        CASE h = n -> Cargada(n, f)
                          [] h = v -> Descargada(h, tabla2[h].uso /\ h \notin sinUso)
                          [] OTHER -> [tabla2[h] EXCEPT !.uso = @ /\ h \notin sinUso]]
        BY <3>4 DEF ObtenerMarcoReemplazando
      <4>2. tabla2[v].presencia
        <5>1. MarcosLibres(TablaDe(n)) = {} /\ TablaDe(n) \in Tablas /\ eleccion.en \in 1..MARCOS
          BY <3>4, EntradaDePagina, EleccionEnRonda DEF ObtenerMarcoReemplazando
        <5> QED BY <2>1, <5>1, PaginasPresentes
      <4>3. m # v
        BY <3>1, <4>2
      <4> HIDE DEF ronda, eleccion, v, f, sinUso
      <4>4. tabla2'[m] = [tabla2[m] EXCEPT !.uso = @ /\ m \notin sinUso]
        BY <3>1, <4>1, <4>3
      <4> QED BY <3>1, <3>2, <4>4 DEF EntradaNivel2
    <3> QED BY <1>2, <3>3, <3>4
  <2>4. CopiasIguales'
    <3>1. ASSUME NEW m \in Pagina PROVE CopiaIgual(m)'
      <4>1. TablaDe(m) \in Tablas
        BY EntradaDePagina
      <4>2. CASE tabla1'[TablaDe(m)].id = Libre
        BY <4>2 DEF IInv, MarcosCoherentes, CopiaIgual
      <4>3. CASE tabla1[TablaDe(m)].id \in Proc
        BY <2>2, <4>3
      <4> QED BY <2>1, <4>1, <4>2, <4>3 DEF MemInv, MemoriaTypeOK
    <3>2. \A m \in Pagina : tabla1'[TablaDe(m)].id = Libre => ~tabla2'[m].enSwap
      BY <2>1, <2>3, EntradaDePagina
    <3>3. Len(escrituras') = 0
      OBVIOUS
    <3> QED BY <3>1, <3>2, <3>3 DEF CopiasIguales, CopiaIgual
  <2>5. ASSUME NEW q \in Proc PROVE Quedan(q)
    <3>1. \A m \in Pagina : tabla1[TablaDe(m)].id = q => EnPagina(m)' = EnPagina(m)
      BY <2>2
    <3>2. EstaSuspendido(q)' <=> EstaSuspendido(q)
      BY <2>1 DEF EstaSuspendido
    <3>3. EstaSuspendido(q) => suspendidos'[q] = suspendidos[q] /\ swap'[q] = swap[q]
      <4>1. EstaSuspendido(q) => tabla1[TablaDe(n)].id # q
        BY <2>1, EntradaDePagina DEF MemInv, UnAlojamiento, TieneTabla
      <4>2. tabla1[TablaDe(n)].id # q => swap'[q] = swap[q]
        BY <1>2, <2>1 DEF ObtenerMarcoLibre, ObtenerMarcoReemplazando, MemInv, MemoriaTypeOK
      <4> QED BY <2>1, <4>1, <4>2
    <3> QED BY <2>1, <3>1, <3>2, <3>3, QuedanSegunPaginas
  <2> QED BY <2>4, <2>5
<1> QED BY <1>1, <1>2 DEF ObtenerMarco

\* HEADER_read and HEADER_write move no page.
LEMMA CopiasSinMover ==
  ASSUME IInv, IInv', CopiasIguales, tabla1' = tabla1, marcos' = marcos,
         \A m \in Pagina : tabla2'[m].enSwap = tabla2[m].enSwap,
         \A m \in Pagina : tabla1[TablaDe(m)].id \in Proc => CopiaIgual(m)',
         \A k \in 1..Len(escrituras') : marcos[escrituras'[k].marco].enUso
  PROVE  CopiasIguales'
<1>1. ASSUME NEW m \in Pagina PROVE CopiaIgual(m)'
  <2>1. TablaDe(m) \in Tablas
    BY EntradaDePagina
  <2>2. CASE tabla1'[TablaDe(m)].id = Libre
    BY <2>2 DEF IInv, MarcosCoherentes, CopiaIgual
  <2>3. CASE tabla1[TablaDe(m)].id \in Proc
    BY <2>3
  <2> QED BY <2>1, <2>2, <2>3, DeIInv DEF MemInv, MemoriaTypeOK
<1> QED BY <1>1 DEF CopiasIguales, CopiaIgual

\* The bits of the page that is in f, and of no other
LEMMA BitsDePagina ==
  ASSUME MemInv, NEW f \in Marco, NEW esEscritura \in BOOLEAN, ActualizarPagina(f, esEscritura), NEW m \in Pagina
  PROVE  /\ tabla2'[m].presencia = tabla2[m].presencia /\ tabla2'[m].marco = tabla2[m].marco
         /\ tabla2'[m].enSwap = tabla2[m].enSwap
         /\ m # marcos[f].pagina => tabla2'[m].modificado = tabla2[m].modificado
         /\ m = marcos[f].pagina => (tabla2'[m].modificado <=> tabla2[m].modificado \/ esEscritura)
<1>1. tabla2[m] \in EntradaNivel2 /\ tabla2 \in [Pagina -> EntradaNivel2]
  BY DEF MemInv, MemoriaTypeOK
<1> DEFINE n == marcos[f].pagina
<1>2. tabla2' = [tabla2 EXCEPT ![n].uso = TRUE, ![n].modificado = @ \/ esEscritura]
  BY DEF ActualizarPagina
<1> HIDE DEF n
<1>3. CASE m # n
  <2>1. tabla2'[m] = tabla2[m]
    BY <1>1, <1>2, <1>3
  <2> QED BY <1>3, <2>1 DEF n
<1>4. CASE m = n
  <2>1. tabla2'[m] = [tabla2[m] EXCEPT !.uso = TRUE, !.modificado = @ \/ esEscritura]
    BY <1>1, <1>2, <1>4
  <2> QED BY <1>1, <1>4, <2>1 DEF EntradaNivel2, n
<1> QED BY <1>3, <1>4

LEMMA ContenidoLeer ==
  ASSUME IInv, IInv', CopiasIguales, CpuLeer, algoritmo' = algoritmo
  PROVE  CopiasIguales' /\ \A q \in Proc : Quedan(q)
<1>1. PICK f \in Marco : f = cpu.marco
  BY TiposDeCpu
<1>2. /\ ActualizarPagina(f, FALSE) /\ escrituras' = escrituras
      /\ UNCHANGED <<tabla1, marcos, ram, swap, suspendidos>>
  BY <1>1 DEF CpuLeer, Leer
<1>3. ASSUME NEW m \in Pagina
      PROVE  /\ tabla2'[m].presencia = tabla2[m].presencia /\ tabla2'[m].marco = tabla2[m].marco
             /\ tabla2'[m].enSwap = tabla2[m].enSwap /\ (tabla2'[m].modificado <=> tabla2[m].modificado)
  BY <1>2, BitsDePagina, DeIInv
<1>4. ASSUME NEW m \in Pagina, tabla1[TablaDe(m)].id \in Proc PROVE Conserva(m)
  <2>1. tabla2[m] \in EntradaNivel2 /\ tabla2'[m] \in EntradaNivel2
    BY DEF IInv, TypeOK, MemoriaTypeOK
  <2>2. tabla2'[m].modificado = tabla2[m].modificado
    BY <1>3, <2>1 DEF EntradaNivel2
  <2> QED BY <1>2, <1>3, <1>4, <2>2 DEF Conserva
<1>5. \A m \in Pagina : tabla1[TablaDe(m)].id \in Proc => CopiaIgual(m)' /\ EnPagina(m)' = EnPagina(m)
  BY <1>2, <1>4, PaginaConservada, CopiasPorPagina
<1>6. CopiasIguales'
  <2>1. \A k \in 1..Len(escrituras') : marcos[escrituras'[k].marco].enUso
    BY <1>2 DEF CopiasIguales
  <2> QED BY <1>2, <1>3, <1>5, <2>1, CopiasSinMover
<1>7. ASSUME NEW q \in Proc PROVE Quedan(q)
  BY <1>2, <1>5, QuedanSegunPaginas DEF EstaSuspendido
<1> QED BY <1>6, <1>7

\* The page of the access of the CPU: the page l of u, in the table i, is n, and it is in f.
Accedida(i, n, u, f, l) ==
  /\ tabla1[i].id = u /\ n = PaginaDe(i, l) /\ TablaDe(n) = i
  /\ marcos[f] = [enUso |-> TRUE, pagina |-> n]
  /\ tabla2[n].presencia /\ tabla2[n].marco = f

LEMMA PaginaTraducida ==
  ASSUME MemInv, NEW u \in Proc, pidProcesoEnExec = u, NEW f \in Marco, NEW l \in Local, Traduce(f, l)
  PROVE  \E i \in Tablas, n \in Pagina : Accedida(i, n, u, f, l)
<1> DEFINE i == TablaNivel1(u)
<1>1. i \in Tablas /\ tabla1[i].id = u /\ marcos[f] = [enUso |-> TRUE, pagina |-> PaginaDe(i, l)]
  BY TablaPropia DEF Traduce, MemInv
<1> HIDE DEF i
<1>2. PICK n \in Pagina : n = PaginaDe(i, l) /\ TablaDe(n) = i
  BY <1>1, PaginaDeEntrada
<1>3. marcos[f].enUso /\ marcos[f].pagina = n
  BY <1>1, <1>2
<1>4. tabla2[n].presencia /\ tabla2[n].marco = f
  BY <1>3 DEF MemInv, MarcosCoherentes
<1>5. Accedida(i, n, u, f, l)
  BY <1>1, <1>2, <1>4 DEF Accedida
<1> QED BY <1>1, <1>5

\* The write is what the process will read in that page, and only there.
LEMMA ContenidoEscribir ==
  ASSUME IInv, IInv', TlbInv, CopiasIguales, NEW v \in Valor, CpuEscribir(v), algoritmo' = algoritmo,
         NEW u \in Proc, u = pidProcesoEnExec, NEW l \in Local, l = cpu.indice
  PROVE  /\ CopiasIguales'
         /\ \A q \in Proc : q # u => Quedan(q)
         /\ \A h \in Local : Contenido(u, h)' = IF h = l THEN v ELSE Contenido(u, h)
<1>1. PICK f \in Marco : f = cpu.marco
  BY TiposDeCpu
<1>2. /\ Traduce(f, l) /\ UNCHANGED memoria /\ pidProcesoEnExec' = pidProcesoEnExec
      /\ escrituras' = Append(escrituras, [marco |-> f, valor |-> v])
  BY <1>1 DEF CpuEscribir, TlbInv, AccesoTraducido
<1>0. PICK i \in Tablas, n \in Pagina : Accedida(i, n, u, f, l)
  <2>1. MemInv /\ pidProcesoEnExec = u
    BY DeIInv
  <2> QED BY <1>2, <2>1, PaginaTraducida
<1>3. /\ tabla1[i].id = u /\ n = PaginaDe(i, l) /\ TablaDe(n) = i
      /\ marcos[f] = [enUso |-> TRUE, pagina |-> n] /\ tabla2[n].presencia /\ tabla2[n].marco = f
  BY <1>0 DEF Accedida
<1>4. PICK e \in Escritura : e = [marco |-> f, valor |-> v]
  BY DEF Escritura
<1>5. /\ UltimaEn(escrituras', f) = v /\ v # SinEscritura
      /\ \A g : g # f => UltimaEn(escrituras', g) = UltimaEn(escrituras, g)
  <2>1. v # SinEscritura
    BY ValorAssumption DEF SinEscritura
  <2>2. /\ UltimaEn(Append(escrituras, e), e.marco) = e.valor
        /\ \A g : g # e.marco => UltimaEn(Append(escrituras, e), g) = UltimaEn(escrituras, g)
    BY TiposDeCpu, UltimaAlAgregar
  <2>3. e.marco = f /\ e.valor = v /\ escrituras' = Append(escrituras, e)
    BY <1>2, <1>4
  <2> QED BY <2>1, <2>2, <2>3
<1>6. UNCHANGED <<tabla1, tabla2, marcos, ram, swap, suspendidos>>
  BY <1>2 DEF memoria
<1>7. ASSUME NEW m \in Pagina, tabla1[TablaDe(m)].id \in Proc
      PROVE  CopiaIgual(m)' /\ (m # n => EnPagina(m)' = EnPagina(m))
  <2>1. Conserva(m) /\ CopiaIgual(m)
    BY <1>6, <1>7, CopiasPorPagina DEF Conserva
  <2>2. tabla2[m].presencia /\ m # n => tabla2[m].marco # f
    <3> SUFFICES ASSUME tabla2[m].presencia, m # n, tabla2[m].marco = f PROVE FALSE
      OBVIOUS
    <3>1. marcos[tabla2[m].marco] = [enUso |-> TRUE, pagina |-> m]
      BY MarcoDePresente, DeIInv
    <3> QED BY <1>3, <3>1
  <2>3. m # n => (tabla2[m].presencia => UltimaEn(escrituras', tabla2[m].marco) = UltimaEn(escrituras, tabla2[m].marco))
    BY <1>5, <2>2
  <2> QED BY <2>1, <2>3, PaginaConservada
<1>8. EnPagina(n)' = v
  <2>1. EnPagina(n)' = IF UltimaEn(escrituras', tabla2'[n].marco) # SinEscritura
                       THEN UltimaEn(escrituras', tabla2'[n].marco)
                       ELSE IF tabla2'[n].modificado \/ tabla2'[n].enSwap THEN ram'[tabla2'[n].marco] ELSE Indefinido
    BY <1>3, <1>6 DEF EnPagina, UltimaEn, EscriturasEn
  <2> QED BY <1>3, <1>5, <1>6, <2>1
<1>9. CopiasIguales'
  <2>1. ASSUME NEW k \in 1..Len(escrituras') PROVE marcos[escrituras'[k].marco].enUso
    <3> DEFINE h == Len(escrituras)
    <3>1. h \in Nat /\ escrituras \in Seq(Escritura)
      BY TiposDeCpu, LenProperties
    <3>2. /\ Len(Append(escrituras, e)) = h + 1 /\ Append(escrituras, e)[h + 1] = e
          /\ \A j \in 1..h : Append(escrituras, e)[j] = escrituras[j]
      BY <3>1, AppendProperties
    <3>3. escrituras' = Append(escrituras, e)
      BY <1>2, <1>4
    <3>4. \A j \in 1..h : marcos[escrituras[j].marco].enUso
      BY DEF CopiasIguales
    <3> HIDE DEF h
    <3>5. k \in 1..h \/ k = h + 1
      BY <2>1, <3>1, <3>2, <3>3
    <3>6. CASE k \in 1..h
      BY <3>2, <3>3, <3>4, <3>6
    <3>7. CASE k = h + 1
      BY <1>3, <1>4, <3>2, <3>3, <3>7
    <3> QED BY <3>5, <3>6, <3>7
  <2> QED BY <1>6, <1>7, <2>1, CopiasSinMover
<1>10. ASSUME NEW q \in Proc, q # u PROVE Quedan(q)
  <2>1. \A m \in Pagina : tabla1[TablaDe(m)].id = q => EnPagina(m)' = EnPagina(m)
    BY <1>3, <1>7, <1>10
  <2> QED BY <1>6, <2>1, QuedanSegunPaginas DEF EstaSuspendido
<1>11. ASSUME NEW h \in Local
       PROVE  Contenido(u, h)' = IF h = l THEN v ELSE Contenido(u, h)
  <2>1. PICK m \in Pagina : m = PaginaDe(i, h) /\ TablaDe(m) = i /\ Indice(m) = h
    BY PaginaDeEntrada
  <2>2. Contenido(tabla1[i].id, h) = EnPagina(PaginaDe(i, h))
    BY <1>3, ContenidoSegunLugar DEF FormaDeContenido
  <2>3. Contenido(tabla1[i].id, h)' = EnPagina(PaginaDe(i, h))'
    BY <1>3, <1>6, ContenidoDespues DEF FormaDeContenido
  <2>4. Contenido(u, h) = EnPagina(m)
    BY <1>3, <2>1, <2>2
  <2>5. Contenido(u, h)' = EnPagina(m)'
    BY <1>3, <1>6, <2>1, <2>3
  <2>6. h = l <=> m = n
    BY <1>3, <2>1, PaginaDeEntrada
  <2> QED BY <1>3, <1>7, <1>8, <2>1, <2>4, <2>5, <2>6
<1> QED BY <1>9, <1>10, <1>11

\* HEADER_write is served: the page has what the process already reads.
LEMMA ContenidoMemoriaEscribir ==
  ASSUME IInv, IInv', CopiasIguales, MemoriaEscribir, algoritmo' = algoritmo
  PROVE  CopiasIguales' /\ \A q \in Proc : Quedan(q)
<1>1. /\ escrituras # << >> /\ escrituras' = Tail(escrituras)
      /\ Escribir(Head(escrituras).marco, Head(escrituras).valor)
  BY DEF MemoriaEscribir
<1>2. escrituras \in Seq(Escritura) /\ Len(escrituras) \in Nat \ {0}
  BY <1>1, TiposDeCpu, LenProperties, EmptySeq
<1>3. Head(escrituras) = escrituras[1] /\ 1 \in 1..Len(escrituras)
  BY <1>2
<1>4. escrituras[1] \in Escritura
  BY <1>2, <1>3, ElementOfSeq
<1>5. PICK f \in Marco, v \in Valor : f = Head(escrituras).marco /\ v = Head(escrituras).valor
  BY <1>3, <1>4 DEF Escritura
<1>6. marcos[f].enUso
  BY <1>3, <1>5 DEF CopiasIguales
<1>7. PICK n \in Pagina : n = marcos[f].pagina /\ tabla2[n].presencia /\ tabla2[n].marco = f
  BY <1>6 DEF IInv, MarcosCoherentes
<1>8. /\ ram' = [ram EXCEPT ![f] = v] /\ ActualizarPagina(f, TRUE)
      /\ UNCHANGED <<tabla1, marcos, swap, suspendidos>>
  BY <1>1, <1>5 DEF Escribir
<1>9. ram \in [Marco -> Valor] /\ MemInv
  BY DeIInv DEF MemInv, MemoriaTypeOK
<1>10. ASSUME NEW m \in Pagina
       PROVE  /\ tabla2'[m].presencia = tabla2[m].presencia /\ tabla2'[m].marco = tabla2[m].marco
              /\ tabla2'[m].enSwap = tabla2[m].enSwap
              /\ m # n => tabla2'[m].modificado = tabla2[m].modificado
              /\ m = n => tabla2'[m].modificado
  BY <1>7, <1>8, <1>9, BitsDePagina
<1>11. /\ \A g : g # f => UltimaEn(escrituras', g) = UltimaEn(escrituras, g)
       /\ UltimaEn(escrituras, f) = IF UltimaEn(escrituras', f) = SinEscritura THEN v ELSE UltimaEn(escrituras', f)
  BY <1>1, <1>2, <1>5, UltimaAlSacar
<1>12. v # SinEscritura
  BY ValorAssumption DEF SinEscritura
<1>13. ASSUME NEW m \in Pagina, m # n, tabla1[TablaDe(m)].id \in Proc
       PROVE  CopiaIgual(m)' /\ EnPagina(m)' = EnPagina(m)
  <2>1. ASSUME tabla2[m].presencia PROVE tabla2[m].marco # f /\ tabla2[m].marco \in Marco
    <3>1. tabla2[m].marco \in Marco /\ marcos[tabla2[m].marco] = [enUso |-> TRUE, pagina |-> m]
      BY <1>9, <2>1, MarcoDePresente
    <3>2. marcos[tabla2[m].marco].pagina = m
      BY <3>1
    <3> QED BY <1>7, <1>13, <3>1, <3>2
  <2>2. Conserva(m) /\ CopiaIgual(m)
    BY <1>8, <1>9, <1>10, <1>13, <2>1, CopiasPorPagina DEF Conserva
  <2>3. tabla2[m].presencia => UltimaEn(escrituras', tabla2[m].marco) = UltimaEn(escrituras, tabla2[m].marco)
    BY <1>11, <2>1
  <2> QED BY <2>2, <2>3, PaginaConservada
<1>14. EnPagina(n)' = EnPagina(n)
  <2>1. EnPagina(n)' = IF UltimaEn(escrituras', tabla2'[n].marco) # SinEscritura
                       THEN UltimaEn(escrituras', tabla2'[n].marco)
                       ELSE IF tabla2'[n].modificado \/ tabla2'[n].enSwap THEN ram'[tabla2'[n].marco] ELSE Indefinido
    BY <1>7, <1>10 DEF EnPagina, UltimaEn, EscriturasEn
  <2>2. EnPagina(n) = UltimaEn(escrituras, f)
    <3>1. UltimaEn(escrituras, f) # SinEscritura
      BY <1>11, <1>12
    <3> QED BY <1>7, <3>1 DEF EnPagina
  <2>3. tabla2'[n].marco = f /\ tabla2'[n].modificado /\ ram'[f] = v
    BY <1>7, <1>8, <1>9, <1>10
  <2> QED BY <1>11, <2>1, <2>2, <2>3
<1>15. CopiasIguales'
  <2>1. CopiaIgual(n)'
    BY <1>10 DEF CopiaIgual
  <2>2. ASSUME NEW k \in 1..Len(escrituras') PROVE marcos[escrituras'[k].marco].enUso
    <3>1. k + 1 \in 1..Len(escrituras) /\ escrituras'[k] = escrituras[k + 1]
      BY <1>1, <1>2, <2>2, HeadTailProperties
    <3> QED BY <3>1 DEF CopiasIguales
  <2> QED BY <1>8, <1>10, <1>13, <2>1, <2>2, CopiasSinMover
<1>16. ASSUME NEW q \in Proc PROVE Quedan(q)
  <2>1. \A m \in Pagina : tabla1[TablaDe(m)].id = q => EnPagina(m)' = EnPagina(m)
    BY <1>13, <1>14
  <2> QED BY <1>8, <2>1, QuedanSegunPaginas DEF EstaSuspendido
<1> QED BY <1>15, <1>16

-----------------------------------------------------------------------------
(* The store of pages that the CPU, its TLB and Memory implement.          *)

InvAlmacen == IInv /\ TlbInv /\ CopiasIguales

\* The substituted variables of AlmacenDePaginas
ContenidoDe == [p \in Proc |-> [l \in Local |-> Contenido(p, l)]]
PedidoDe ==
  [estado |-> CASE cpu.paso = "libre" -> "nada" [] cpu.paso = "leido" -> "leido"
                [] OTHER -> "pendiente",
   proc |-> IF cpu.paso = "libre" THEN CHOOSE p \in Proc : TRUE ELSE pidProcesoEnExec,
   pagina |-> cpu.indice, escribe |-> cpu.escribe, valor |-> cpu.valor]
Liberados == {p \in Proc : proceso[p] = "liberado"}
Visible == <<ContenidoDe, PedidoDe, Liberados>>

LEMMA TodosQuedan ==
  ASSUME \A q \in Proc : Quedan(q)
  PROVE  ContenidoDe' = ContenidoDe
BY DEF Quedan, ContenidoDe

\* The access of the CPU depends on the process in it only if there is an access.
LEMMA MismoPedido ==
  ASSUME cpu' = cpu, cpu.paso # "libre" => pidProcesoEnExec' = pidProcesoEnExec
  PROVE  PedidoDe' = PedidoDe
<1> DEFINE estado == CASE cpu.paso = "libre" -> "nada" [] cpu.paso = "leido" -> "leido" [] OTHER -> "pendiente"
           alguno == CHOOSE p \in Proc : TRUE
           proc == IF cpu.paso = "libre" THEN alguno ELSE pidProcesoEnExec
<1>1. estado' = estado
  OBVIOUS
<1> HIDE DEF estado, alguno
<1>2. proc' = proc
  BY DEF alguno
<1> HIDE DEF proc
<1>3. PedidoDe = [estado |-> estado, proc |-> proc, pagina |-> cpu.indice, escribe |-> cpu.escribe,
                  valor |-> cpu.valor]
  BY DEF PedidoDe, estado, proc, alguno
<1>4. PedidoDe' = [estado |-> estado', proc |-> proc', pagina |-> cpu'.indice, escribe |-> cpu'.escribe,
                   valor |-> cpu'.valor]
  BY DEF PedidoDe, estado, proc, alguno
<1> QED BY <1>1, <1>2, <1>3, <1>4

LEMMA PasaUno ==
  ASSUME TypeOK, NEW p \in Proc, NEW de, NEW a \in EstadoProceso, Pasar(p, de, a), de # "liberado"
  PROVE  /\ Liberados' = IF a = "liberado" THEN Liberados \union {p} ELSE Liberados
         /\ p \notin Liberados
<1>1. proceso[p] = de /\ proceso'[p] = a /\ \A q \in Proc : q # p => proceso'[q] = proceso[q]
  BY DEF Pasar, TypeOK
<1> QED BY <1>1 DEF Liberados

\* Admission, dispatch, suspension, the end of the I/O and the return of a permit are invisible.
LEMMA KernelInvisible ==
  ASSUME Puntual, InvAlmacen, IInv', NEW p \in Proc, algoritmo' = algoritmo,
         Admitir(p) \/ Despachar(p) \/ Suspender(p) \/ TerminarIO(p) \/ Reanudar(p)
  PROVE  CopiasIguales' /\ UNCHANGED Visible
<1>1. IInv /\ TypeOK /\ CopiasIguales /\ TlbInv
  BY DeIInv DEF InvAlmacen
<1>2. CopiasIguales' /\ \A q \in Proc : Quedan(q)
  <2>1. CASE Admitir(p)
    BY <1>1, <2>1, ContenidoAdmitir
  <2>2. CASE Suspender(p)
    BY <1>1, <2>2, ContenidoSuspender
  <2>3. CASE Despachar(p) \/ TerminarIO(p) \/ Reanudar(p)
    <3>1. UNCHANGED <<memoria, escrituras>>
      BY <2>3 DEF Despachar, TerminarIO, Reanudar, varsCpu
    <3> QED BY <1>1, <3>1, CopiasSinMemoria
  <2> QED BY <2>1, <2>2, <2>3
<1>3. \E de \in {"nuevo", "listo", "bloqueado", "suspendido"}, a \in {"listo", "ejecutando", "suspendido"} :
        Pasar(p, de, a)
  BY DEF Admitir, Despachar, Suspender, TerminarIO, Reanudar
<1>4. Liberados' = Liberados
  <2>1. PICK de \in {"nuevo", "listo", "bloqueado", "suspendido"}, a \in {"listo", "ejecutando", "suspendido"} :
          Pasar(p, de, a)
    BY <1>3
  <2>2. a \in EstadoProceso /\ a # "liberado" /\ de # "liberado"
    BY DEF EstadoProceso
  <2> QED BY <1>1, <2>1, <2>2, PasaUno
<1>5. cpu' = cpu /\ (cpu.paso # "libre" => pidProcesoEnExec' = pidProcesoEnExec)
  <2>1. CASE Despachar(p)
    BY <1>1, <2>1 DEF Despachar, TlbInv, AccesoTraducido
  <2>2. CASE ~Despachar(p)
    BY <2>2 DEF Admitir, Suspender, TerminarIO, Reanudar, varsCpu
  <2> QED BY <2>1, <2>2
<1> QED BY <1>2, <1>4, <1>5, TodosQuedan, MismoPedido DEF Visible

LEMMA DejarVisible ==
  ASSUME InvAlmacen, IInv', NEW p \in Proc, Desalojar(p) \/ Bloquear(p) \/ Terminar(p)
  PROVE  CopiasIguales' /\ (Almacen!Dejar \/ UNCHANGED Visible)
<1>1. PICK a \in {"listo", "bloqueado", "terminado"} : Dejar(p, a)
  BY DEF Desalojar, Bloquear, Terminar
<1>2. IInv /\ TypeOK /\ CopiasIguales /\ TlbInv
  BY DeIInv DEF InvAlmacen
<1>3. /\ EntreAccesos /\ Pasar(p, "ejecutando", a) /\ cpu' = EnReposo
      /\ UNCHANGED <<memoria, escrituras, pidProcesoEnExec>>
  BY <1>1 DEF Dejar
<1>4. CopiasIguales' /\ ContenidoDe' = ContenidoDe
  BY <1>2, <1>3, CopiasSinMemoria, TodosQuedan
<1>5. Liberados' = Liberados
  <2>1. a \in EstadoProceso /\ a # "liberado"
    BY DEF EstadoProceso
  <2> QED BY <1>2, <1>3, <2>1, PasaUno
<1>6. CASE cpu.paso = "libre"
  <2>1. cpu' = cpu
    BY <1>2, <1>3, <1>6 DEF TlbInv, AccesoTraducido
  <2> QED BY <1>3, <1>4, <1>5, <1>6, <2>1, MismoPedido DEF Visible
<1>7. CASE cpu.paso = "leido"
  <2>1. PedidoDe.estado = "leido" /\ PedidoDe'.estado = "nada"
    BY <1>3, <1>7 DEF PedidoDe, EnReposo
  <2> QED BY <1>4, <1>5, <2>1 DEF Almacen!Dejar, ContenidoDe, PedidoDe, Liberados
<1> QED BY <1>3, <1>6, <1>7 DEF EntreAccesos

LEMMA LiberarVisible ==
  ASSUME Puntual, InvAlmacen, IInv', NEW p \in Proc, Liberar(p), algoritmo' = algoritmo
  PROVE  CopiasIguales' /\ Almacen!Olvidar(p)
<1>1. IInv /\ TypeOK /\ CopiasIguales
  BY DeIInv DEF InvAlmacen
<1>2. /\ CopiasIguales' /\ \A q \in Proc : q # p => Quedan(q)
      /\ \A l \in Local : Contenido(p, l)' = Indefinido
  BY <1>1, ContenidoLiberar
<1>3. ContenidoDe' = [ContenidoDe EXCEPT ![p] = [l \in Local |-> Indefinido]]
  <2>1. ContenidoDe' = [q \in Proc |-> [l \in Local |-> Contenido(q, l)']]
    BY DEF ContenidoDe
  <2>2. ASSUME NEW q \in Proc
        PROVE  [l \in Local |-> Contenido(q, l)'] = [ContenidoDe EXCEPT ![p] = [l \in Local |-> Indefinido]][q]
    <3>1. CASE q = p
      BY <1>2, <3>1 DEF ContenidoDe
    <3>2. CASE q # p
      <4>1. \A l \in Local : Contenido(q, l)' = Contenido(q, l)
        BY <1>2, <3>2 DEF Quedan
      <4> QED BY <3>2, <4>1 DEF ContenidoDe
    <3> QED BY <3>1, <3>2
  <2> QED BY <2>1, <2>2 DEF ContenidoDe
<1>4. Pasar(p, "terminado", "liberado") /\ UNCHANGED varsCpu
  BY DEF Liberar
<1>5. Liberados' = Liberados \union {p} /\ p \notin Liberados
  BY <1>1, <1>4, PasaUno DEF EstadoProceso
<1>6. PedidoDe' = PedidoDe
  BY <1>4, MismoPedido DEF varsCpu
<1> QED BY <1>2, <1>3, <1>5, <1>6 DEF Almacen!Olvidar, Almacen!NadaEscrito, Almacen!Indefinido, Indefinido,
                                       ContenidoDe, PedidoDe, Liberados

\* The steps of the CPU and of Memory leave the processes where the Kernel has them.
LEMMA MismosLiberados == proceso' = proceso => Liberados' = Liberados
BY DEF Liberados

\* The substituted request, while the CPU does an access for the process u
LEMMA PedidoPendiente ==
  ASSUME ~EntreAccesos
  PROVE  /\ PedidoDe.estado = "pendiente" /\ PedidoDe.proc = pidProcesoEnExec
         /\ PedidoDe.pagina = cpu.indice /\ PedidoDe.escribe = cpu.escribe
         /\ PedidoDe = [estado |-> "pendiente", proc |-> pidProcesoEnExec, pagina |-> cpu.indice,
                        escribe |-> cpu.escribe, valor |-> cpu.valor]
BY DEF EntreAccesos, PedidoDe

LEMMA CpuAccederVisible ==
  ASSUME InvAlmacen, IInv', NEW l \in Accesibles, NEW escribe \in BOOLEAN, CpuAcceder(l, escribe)
  PROVE  CopiasIguales' /\ Almacen!Pedir
<1>1. IInv /\ CopiasIguales /\ TlbInv /\ Ejecuta # {} /\ EntreAccesos /\ l \in Local
  BY SistemaAssumption DEF InvAlmacen, CpuAcceder
<1>2. PICK u \in Proc : u = pidProcesoEnExec /\ proceso[u] = "ejecutando"
  BY <1>1, TlbEnUso DEF Ejecuta
<1>3. UNCHANGED <<memoria, escrituras>> /\ proceso' = proceso /\ pidProcesoEnExec' = u
  BY <1>2 DEF CpuAcceder, kernel
<1>4. CopiasIguales' /\ ContenidoDe' = ContenidoDe
  BY <1>1, <1>3, CopiasSinMemoria, TodosQuedan
<1>5. /\ cpu'.paso \in {"acceso", "tabla"} /\ cpu'.indice = l /\ cpu'.escribe = escribe /\ cpu'.valor = 0
  BY DEF CpuAcceder, EnReposo
<1>6. PedidoDe' = [estado |-> "pendiente", proc |-> u, pagina |-> l, escribe |-> escribe, valor |-> 0]
  BY <1>3, <1>5 DEF PedidoDe
<1>7. PedidoDe' \in Almacen!Pedido /\ PedidoDe'.estado = "pendiente" /\ PedidoDe'.proc = u
  BY <1>1, <1>6, ValorAssumption DEF Almacen!Pedido
<1>8. PedidoDe.estado # "pendiente"
  BY <1>1 DEF EntreAccesos, PedidoDe
<1>9. u \notin Liberados'
  BY <1>2, <1>3 DEF Liberados
<1> QED BY <1>3, <1>4, <1>7, <1>8, <1>2, MismosLiberados DEF Almacen!Pedir, ContenidoDe, PedidoDe, Liberados

\* The translation and the replacement, and the write that Memory serves, are invisible.
LEMMA MemoriaInvisible ==
  ASSUME InvAlmacen, IInv', algoritmo' = algoritmo,
         CpuPedirTabla \/ CpuPedirMarco \/ MemoriaEscribir \/ MemoriaAccederFuera
  PROVE  CopiasIguales' /\ UNCHANGED Visible
<1>1. IInv /\ CopiasIguales /\ TlbInv
  BY DEF InvAlmacen
<1>2. CopiasIguales' /\ \A q \in Proc : Quedan(q)
  <2>1. CASE CpuPedirTabla
    <3>1. PICK u \in Proc : u = pidProcesoEnExec
      BY <1>1, <2>1, TiposDeCpu DEF CpuPedirTabla, EntreAccesos
    <3>2. ObtenerTablaNivel2(u) /\ escrituras' = escrituras
      BY <2>1, <3>1 DEF CpuPedirTabla
    <3> QED BY <1>1, <3>2, ContenidoPedirTabla
  <2>2. CASE CpuPedirMarco
    <3>1. PICK n \in Pagina : n = cpu.pagina
      BY <1>1, TiposDeCpu
    <3>2. ObtenerMarco(n) /\ escrituras = << >> /\ escrituras' = << >> /\ cpu.paso = "marco"
      BY <2>2, <3>1 DEF CpuPedirMarco
    <3>3. tabla1[TablaDe(n)].id \in Proc
      BY <1>1, <3>1, <3>2, TiposDeCpu, DeIInv DEF AccesoEnCurso, EntreAccesos
    <3> QED BY <1>1, <3>2, <3>3, ContenidoPedirMarco
  <2>3. CASE MemoriaEscribir
    BY <1>1, <2>3, ContenidoMemoriaEscribir
  <2>4. CASE MemoriaAccederFuera
    <3>1. UNCHANGED <<memoria, escrituras>>
      BY <2>4 DEF MemoriaAccederFuera, varsCpu
    <3> QED BY <1>1, <3>1, CopiasSinMemoria
  <2> QED BY <2>1, <2>2, <2>3, <2>4
<1>3. proceso' = proceso /\ pidProcesoEnExec' = pidProcesoEnExec
  BY DEF CpuPedirTabla, CpuPedirMarco, MemoriaEscribir, MemoriaAccederFuera, kernel, varsCpu
<1>4. PedidoDe' = PedidoDe
  <2>1. CASE cpu' = cpu
    BY <1>3, <2>1, MismoPedido
  <2>2. CASE CpuPedirTabla \/ CpuPedirMarco
    <3>1. /\ cpu.paso \in {"tabla", "marco"} /\ cpu'.paso \in {"marco", "acceso"}
          /\ cpu'.indice = cpu.indice /\ cpu'.escribe = cpu.escribe /\ cpu'.valor = cpu.valor
      BY <1>1, <2>2, TiposDeCpu DEF CpuPedirTabla, CpuPedirMarco, Acceso
    <3>2. PedidoDe' = [estado |-> "pendiente", proc |-> pidProcesoEnExec, pagina |-> cpu.indice,
                       escribe |-> cpu.escribe, valor |-> cpu.valor]
      BY <1>3, <3>1 DEF PedidoDe
    <3> QED BY <3>1, <3>2, PedidoPendiente DEF EntreAccesos
  <2> QED BY <2>1, <2>2 DEF MemoriaEscribir, MemoriaAccederFuera, varsCpu
<1> QED BY <1>2, <1>3, <1>4, TodosQuedan, MismosLiberados DEF Visible

\* What HEADER_read answers is what the process wrote last, if it ever wrote the page.
LEMMA CpuLeerVisible ==
  ASSUME InvAlmacen, IInv', CpuLeer, algoritmo' = algoritmo
  PROVE  CopiasIguales' /\ Almacen!Leer
<1>1. IInv /\ CopiasIguales /\ TlbInv /\ MemInv
  BY DeIInv DEF InvAlmacen
<1>2. CopiasIguales' /\ ContenidoDe' = ContenidoDe
  BY <1>1, ContenidoLeer, TodosQuedan
<1>3. /\ cpu.paso = "acceso" /\ ~cpu.escribe /\ escrituras = << >> /\ ~EntreAccesos
      /\ cpu' = [cpu EXCEPT !.paso = "leido", !.marco = 0, !.valor = ram[cpu.marco]]
      /\ proceso' = proceso /\ pidProcesoEnExec' = pidProcesoEnExec
  BY DEF CpuLeer, kernel, EntreAccesos
<1>4. PICK u \in Proc, f \in Marco, l \in Local : u = pidProcesoEnExec /\ f = cpu.marco /\ l = cpu.indice
  BY <1>1, <1>3, TiposDeCpu
<1>5. PICK v \in Valor : v = ram[f]
  BY <1>1 DEF MemInv, MemoriaTypeOK
<1>6. Traduce(f, l)
  BY <1>1, <1>3, <1>4 DEF TlbInv, AccesoTraducido
<1>7. PICK i \in Tablas, n \in Pagina : Accedida(i, n, u, f, l)
  BY <1>1, <1>4, <1>6, PaginaTraducida
<1>8. Contenido(u, l) \in {v, Indefinido}
  <2>1. tabla1[i].id = u /\ n = PaginaDe(i, l) /\ tabla2[n].presencia /\ tabla2[n].marco = f
    BY <1>7 DEF Accedida
  <2>2. Contenido(tabla1[i].id, l) = EnPagina(PaginaDe(i, l))
    BY <1>1, <2>1, ContenidoSegunLugar DEF FormaDeContenido
  <2>3. Contenido(u, l) = EnPagina(n)
    BY <2>1, <2>2
  <2>4. UltimaEn(escrituras, f) = SinEscritura
    <3>1. Len(escrituras) = 0
      BY <1>3
    <3> QED BY <3>1, NingunaEscritura
  <2>5. EnPagina(n) \in {ram[f], Indefinido}
    BY <2>1, <2>4 DEF EnPagina
  <2> QED BY <1>5, <2>3, <2>5
<1>9. ContenidoDe[u][l] = Contenido(u, l)
  BY DEF ContenidoDe
<1>10. PedidoDe' = [PedidoDe EXCEPT !.estado = "leido", !.valor = v]
  <2>1. /\ cpu'.paso = "leido" /\ cpu'.indice = cpu.indice /\ cpu'.escribe = cpu.escribe /\ cpu'.valor = v
    BY <1>1, <1>3, <1>4, <1>5, TiposDeCpu DEF Acceso
  <2>2. PedidoDe' = [estado |-> "leido", proc |-> pidProcesoEnExec, pagina |-> cpu.indice,
                     escribe |-> cpu.escribe, valor |-> v]
    BY <1>3, <2>1 DEF PedidoDe
  <2>3. PedidoDe = [estado |-> "pendiente", proc |-> pidProcesoEnExec, pagina |-> cpu.indice,
                    escribe |-> cpu.escribe, valor |-> cpu.valor]
    BY <1>3, PedidoPendiente
  <2> DEFINE P == [estado : {"leido", "pendiente"}, proc : Proc, pagina : Local, escribe : BOOLEAN, valor : Valor]
  <2>4. cpu.escribe \in BOOLEAN /\ cpu.valor \in Valor
    BY <1>1, TiposDeCpu DEF Acceso
  <2>5. PedidoDe \in P /\ PedidoDe' \in P
    BY <1>4, <2>2, <2>3, <2>4
  <2> DEFINE r == [PedidoDe EXCEPT !.estado = "leido", !.valor = v]
  <2>6. r \in P
    BY <2>5
  <2>7. r.estado = "leido" /\ r.valor = v /\ r.proc = PedidoDe.proc /\ r.pagina = PedidoDe.pagina
        /\ r.escribe = PedidoDe.escribe
    BY <2>5
  <2> HIDE DEF r
  <2>8. /\ PedidoDe'.estado = "leido" /\ PedidoDe'.valor = v /\ PedidoDe'.proc = PedidoDe.proc
        /\ PedidoDe'.pagina = PedidoDe.pagina /\ PedidoDe'.escribe = PedidoDe.escribe
    BY <2>2, <2>3
  <2>9. PedidoDe' = r
    BY <2>5, <2>6, <2>7, <2>8
  <2> QED BY <2>9 DEF r
<1>11. /\ PedidoDe.estado = "pendiente" /\ ~PedidoDe.escribe
       /\ ContenidoDe[PedidoDe.proc][PedidoDe.pagina] \in {v, Indefinido}
  BY <1>3, <1>4, <1>8, <1>9, PedidoPendiente
<1>12. Liberados' = Liberados
  BY <1>3, MismosLiberados
<1> QED BY <1>2, <1>10, <1>11, <1>12 DEF Almacen!Leer, Almacen!Indefinido, Indefinido, ContenidoDe, PedidoDe, Liberados

LEMMA CpuEscribirVisible ==
  ASSUME InvAlmacen, IInv', NEW v \in Valor, CpuEscribir(v), algoritmo' = algoritmo
  PROVE  CopiasIguales' /\ Almacen!Escribir
<1>1. IInv /\ CopiasIguales /\ TlbInv
  BY DEF InvAlmacen
<1>2. cpu.paso = "acceso" /\ cpu.escribe /\ ~EntreAccesos /\ cpu' = EnReposo /\ proceso' = proceso
  BY DEF CpuEscribir, kernel, EntreAccesos
<1>3. PICK u \in Proc, l \in Local : u = pidProcesoEnExec /\ l = cpu.indice
  BY <1>1, <1>2, TiposDeCpu
<1>4. /\ CopiasIguales' /\ \A q \in Proc : q # u => Quedan(q)
      /\ \A h \in Local : Contenido(u, h)' = IF h = l THEN v ELSE Contenido(u, h)
  BY <1>1, <1>3, ContenidoEscribir
<1>5. ContenidoDe' = [ContenidoDe EXCEPT ![u][l] = v]
  <2>1. ContenidoDe' = [q \in Proc |-> [h \in Local |-> Contenido(q, h)']]
    BY DEF ContenidoDe
  <2>2. ASSUME NEW q \in Proc
        PROVE  [h \in Local |-> Contenido(q, h)'] = [ContenidoDe EXCEPT ![u][l] = v][q]
    <3>1. CASE q = u
      BY <1>4, <3>1 DEF ContenidoDe
    <3>2. CASE q # u
      <4>1. \A h \in Local : Contenido(q, h)' = Contenido(q, h)
        BY <1>4, <3>2 DEF Quedan
      <4> QED BY <3>2, <4>1 DEF ContenidoDe
    <3> QED BY <3>1, <3>2
  <2> QED BY <2>1, <2>2 DEF ContenidoDe
<1>6. /\ PedidoDe.estado = "pendiente" /\ PedidoDe.escribe /\ PedidoDe.proc = u /\ PedidoDe.pagina = l
      /\ PedidoDe'.estado = "nada"
  <2>1. PedidoDe'.estado = "nada"
    BY <1>2 DEF PedidoDe, EnReposo
  <2> QED BY <1>2, <1>3, <2>1, PedidoPendiente
<1>7. ContenidoDe' = [ContenidoDe EXCEPT ![PedidoDe.proc][PedidoDe.pagina] = v]
  BY <1>5, <1>6
<1>8. Liberados' = Liberados
  BY <1>2, MismosLiberados
<1> QED BY <1>4, <1>6, <1>7, <1>8 DEF Almacen!Escribir, ContenidoDe, PedidoDe, Liberados

LEMMA PasoAlmacen ==
  ASSUME Puntual, InvAlmacen, IInv', [Next]_vars
  PROVE  CopiasIguales' /\ (Almacen!Next \/ UNCHANGED Visible)
<1>1. CASE UNCHANGED vars
  <2>1. UNCHANGED <<memoria, escrituras>> /\ proceso' = proceso /\ cpu' = cpu /\ pidProcesoEnExec' = pidProcesoEnExec
    BY <1>1 DEF vars, kernel, varsCpu
  <2>2. CopiasIguales' /\ ContenidoDe' = ContenidoDe
    BY <2>1, CopiasSinMemoria, TodosQuedan DEF InvAlmacen
  <2> QED BY <2>1, <2>2, MismoPedido, MismosLiberados DEF Visible
<1>2. CASE Next
  <2>1. algoritmo' = algoritmo
    BY <1>2 DEF Next
  <2>2. ASSUME NEW p \in Proc,
               Admitir(p) \/ Despachar(p) \/ Suspender(p) \/ TerminarIO(p) \/ Reanudar(p)
        PROVE  CopiasIguales' /\ UNCHANGED Visible
    BY <2>1, <2>2, KernelInvisible
  <2>3. ASSUME NEW p \in Proc, Desalojar(p) \/ Bloquear(p) \/ Terminar(p)
        PROVE  CopiasIguales' /\ (Almacen!Dejar \/ UNCHANGED Visible)
    BY <2>3, DejarVisible
  <2>4. ASSUME NEW p \in Proc, Liberar(p) PROVE CopiasIguales' /\ Almacen!Olvidar(p)
    BY <2>1, <2>4, LiberarVisible
  <2>5. ASSUME NEW l \in Accesibles, NEW escribe \in BOOLEAN, CpuAcceder(l, escribe)
        PROVE  CopiasIguales' /\ Almacen!Pedir
    BY <2>5, CpuAccederVisible
  <2>6. CASE CpuPedirTabla \/ CpuPedirMarco \/ MemoriaEscribir \/ MemoriaAccederFuera
    BY <2>1, <2>6, MemoriaInvisible
  <2>7. CASE CpuLeer
    BY <2>1, <2>7, CpuLeerVisible DEF Almacen!Next
  <2>8. ASSUME NEW v \in Valor, CpuEscribir(v) PROVE CopiasIguales' /\ Almacen!Escribir
    BY <2>1, <2>8, CpuEscribirVisible
  <2> QED BY <1>2, <2>2, <2>3, <2>4, <2>5, <2>6, <2>7, <2>8 DEF Next, Almacen!Next
<1> QED BY <1>1, <1>2

LEMMA InicioAlmacen == Init => Almacen!Init
<1> SUFFICES ASSUME Init PROVE Almacen!Init
  OBVIOUS
<1>1. DOMAIN suspendidos = {} /\ \A i \in Tablas : tabla1[i].id = Libre
  BY DEF Init, InitMemoria
<1>2. \A p \in Proc, l \in Local : Contenido(p, l) = Indefinido
  BY <1>1, ProcAssumption DEF Contenido, TieneTabla, EstaSuspendido, Libre
<1>3. ContenidoDe = [p \in Proc |-> [l \in Local |-> Indefinido]]
  BY <1>2 DEF ContenidoDe
<1>4. PedidoDe.estado = "nada" /\ Liberados = {}
  BY DEF Init, EnReposo, PedidoDe, Liberados
<1> QED BY <1>3, <1>4 DEF Almacen!Init, Almacen!NadaEscrito, Almacen!Indefinido, Indefinido,
                          ContenidoDe, PedidoDe, Liberados

-----------------------------------------------------------------------------
(* The theorems.                                                           *)

LEMMA InicioIInv == Init => IInv
<1> SUFFICES ASSUME Init PROVE IInv
  OBVIOUS
<1>1. 0 \in Local /\ EntradaVacia \in EntradaNivel2 /\ EntradaVacia.presencia = FALSE
  BY Tamanios DEF EntradaVacia, EntradaNivel2
<1>2. DOMAIN suspendidos = {}
  BY DEF Init, InitMemoria
<1>3. MemoriaTypeOK
  BY <1>1, <1>2, ValorAssumption DEF Init, InitMemoria, MemoriaTypeOK
<1>4. \A i \in Tablas : tabla1[i].id = Libre
  BY DEF Init, InitMemoria
<1>5. \A p \in Proc : ~TieneTabla(p) /\ ~EstaSuspendido(p)
  BY <1>2, <1>4, ProcAssumption DEF TieneTabla, EstaSuspendido, Libre
<1>6. UnAlojamiento
  BY <1>4, <1>5 DEF UnAlojamiento
<1>7. MarcosCoherentes
  BY <1>1 DEF Init, InitMemoria, MarcosCoherentes
<1>8. TypeOK
  BY <1>3, ReposoType, EmptySeq DEF Init, TypeOK, Acceso, EstadoProceso
<1>9. Alojados
  BY <1>5 DEF Init, Alojados, Admitidos
<1>10. AccesoEnCurso
  BY DEF Init, AccesoEnCurso, Ejecuta, EntreAccesos, EnReposo
<1> QED BY <1>6, <1>7, <1>8, <1>9, <1>10 DEF IInv

LEMMA PasoIInv == IInv /\ [Next]_vars => IInv'
<1> SUFFICES ASSUME IInv, [Next]_vars PROVE IInv'
  OBVIOUS
<1>1. CASE UNCHANGED vars
  BY <1>1 DEF vars, memoria, kernel, varsCpu, IInv, TypeOK, MemoriaTypeOK, UnAlojamiento, MarcosCoherentes,
              Alojados, AccesoEnCurso, Ejecuta, EntreAccesos, Admitidos, TieneTabla, EstaSuspendido
<1>2. CASE Next
  <2>1. algoritmo' = algoritmo
    BY <1>2 DEF Next
  <2>2. ASSUME NEW p \in Proc,
               Admitir(p) \/ Despachar(p) \/ Desalojar(p) \/ Bloquear(p) \/ Terminar(p)
                 \/ Suspender(p) \/ TerminarIO(p) \/ Reanudar(p) \/ Liberar(p)
        PROVE  IInv'
    <3>1. CASE Desalojar(p) \/ Bloquear(p) \/ Terminar(p)
      BY <2>1, <3>1, PasoDejar DEF Desalojar, Bloquear, Terminar
    <3> QED BY <2>1, <2>2, <3>1, PasoAdmitir, PasoDespachar, PasoSuspenderDelKernel, PasoVolver, PasoLiberar
  <2>3. ASSUME NEW l \in Accesibles, NEW escribe \in BOOLEAN, CpuAcceder(l, escribe) PROVE IInv'
    BY <2>1, <2>3, PasoCpuAcceder
  <2>4. CASE CpuPedirTabla \/ CpuPedirMarco \/ CpuLeer \/ MemoriaEscribir
    BY <2>1, <2>4, PasoCpuPedirTabla, PasoCpuPedirMarco, PasoCpuLeer, PasoMemoriaEscribir
  <2>5. ASSUME NEW v \in Valor, CpuEscribir(v) PROVE IInv'
    BY <2>1, <2>5, PasoCpuEscribir
  <2>6. CASE MemoriaAccederFuera
    BY <2>1, <2>6 DEF MemoriaAccederFuera, memoria, kernel, varsCpu, IInv, TypeOK, MemoriaTypeOK,
         UnAlojamiento, MarcosCoherentes, Alojados, AccesoEnCurso, Ejecuta, EntreAccesos, Admitidos,
         TieneTabla, EstaSuspendido
  <2> QED BY <1>2, <2>2, <2>3, <2>4, <2>5, <2>6 DEF Next
<1> QED BY <1>1, <1>2

\* The states of MemoriaVirtual have the shape the code gives them, a process is in at
\* most one place of Memory and is there if and only if the Kernel has it admitted or
\* suspended, the access in course is of the process in execution and its table, and
\* frames and page tables say the same.
THEOREM MemoriaInvariante == Spec => []IInv
<1>1. Init => IInv
  BY InicioIInv
<1>2. IInv /\ [Next]_vars => IInv'
  BY PasoIInv
<1> QED BY <1>1, <1>2, PTL DEF Spec

\* No two pages, of one process or of two, ever share a frame, and the pages that are
\* present are of a table that has an owner (obtener_marco and __swap_marco of
\* tabla_nivel_1.c, the suspension and the end of processes), even with writes that
\* the Kernel's requests overtake.
THEOREM MarcosYTablas == Spec => []MarcosCoherentes
<1>1. IInv => MarcosCoherentes
  BY DEF IInv
<1> QED BY <1>1, MemoriaInvariante, PTL

\* A process never has two tables, nor a table while it is among the suspended ones.
THEOREM UnSoloLugar == Spec => []UnAlojamiento
<1>1. IInv => UnAlojamiento
  BY DEF IInv
<1> QED BY <1>1, MemoriaInvariante, PTL

\* The tables of Memory are enough for the permits of the Kernel that are free and for
\* the processes that were resumed without Memory being told (scheduler.c and
\* tabla_suspendido.c), whatever the number of processes.
THEOREM TablasParaTodos == Spec => []TablasAlcanzan
<1>1. Init => IInv /\ Permisos
  BY InicioIInv, InicioPermisos
<1>2. (IInv /\ Permisos) /\ [Next]_vars => (IInv /\ Permisos)'
  BY PasoIInv, PasoPermisos
<1>3. IInv /\ Permisos => TablasAlcanzan
  BY TablasParaPermisos
<1> QED BY <1>1, <1>2, <1>3, PTL DEF Spec

\* While there is a free permit, or an admitted process that Memory still has among the
\* suspended ones, there is a free table: the Kernel is never answered that there is none,
\* and despertar_proceso, which does not look for the end of the tables, finds one.
NuncaSinTabla ==
  Cardinality(Admitidos) < GRADO \/ (\E p \in Admitidos : EstaSuspendido(p)) => TablasLibres # {}

\* despertar_proceso always finds a free table for who comes back.
THEOREM DespertarEncuentraTabla == Spec => []NuncaSinTabla
<1>1. Init => IInv /\ Permisos
  BY InicioIInv, InicioPermisos
<1>2. (IInv /\ Permisos) /\ [Next]_vars => (IInv /\ Permisos)'
  BY PasoIInv, PasoPermisos
<1>3. IInv /\ Permisos => NuncaSinTabla
  BY TablasParaPermisos DEF NuncaSinTabla
<1> QED BY <1>1, <1>2, <1>3, PTL DEF Spec

\* Both algorithms of algoritmos.c replace a page that is in the lowest class of all the
\* pages its table has in memory, wherever the pointer was left.
THEOREM ReemplazoDeMenorClase == Spec => VictimaDeMenorClase
<1> DEFINE Minima == \A n \in Pagina : tabla2[n].presencia /\ ~tabla2'[n].presencia =>
                       \A f \in MarcosDe(TablaDe(n)) : Clase(n) <= Clase(marcos[f].pagina)
<1>1. IInv /\ [Next]_vars => [cpu.paso = "marco" /\ cpu'.paso = "acceso" => Minima]_vars
  BY PasoVictima
<1> QED BY <1>1, MemoriaInvariante, PTL DEF Spec, VictimaDeMenorClase

\* Every translation in the TLB is the one Memory would give to the process in execution, if
\* sleeps of the Kernel outlast pending writes and keep their order, although Memory never
\* tells the CPU that it took a frame back: the kernel's header makes it flush (cpu.c, and
\* ultimoPIDSuspendido of scheduler.c).
THEOREM TlbSiempreCoherente ==
  ASSUME Puntual, TlbAlcanza
  PROVE  Spec => []TlbCoherente
<1>1. Init => IInv /\ TlbInv
  BY InicioIInv, InicioTlbInv
<1>2. (IInv /\ TlbInv) /\ [Next]_vars => (IInv /\ TlbInv)'
  BY PasoIInv, PasoTlbInv
<1>3. IInv /\ TlbInv => TlbCoherente
  <2> SUFFICES ASSUME IInv, TlbInv, NEW k \in 1..Len(tlb), NEW p \in Ejecuta
               PROVE  /\ TieneTabla(p)
                      /\ marcos[tlb[k].marco] = [enUso |-> TRUE, pagina |-> PaginaDe(TablaNivel1(p), tlb[k].pagina)]
    BY DEF TlbCoherente
  <2>1. p = pidProcesoEnExec /\ TlbDelUltimo
    BY TlbEnUso
  <2> QED BY <2>1 DEF TlbDelUltimo, Traduce
<1> QED BY <1>1, <1>2, <1>3, PTL DEF Spec

LEMMA InicioInvAlmacen == Init => InvAlmacen
<1> SUFFICES ASSUME Init PROVE InvAlmacen
  OBVIOUS
<1>1. /\ \A n \in Pagina : ~tabla2[n].presencia /\ ~tabla2[n].enSwap
      /\ Len(escrituras) = 0
  BY DEF Init, InitMemoria, EntradaVacia
<1>2. CopiasIguales
  BY <1>1 DEF CopiasIguales
<1> QED BY <1>2, InicioIInv, InicioTlbInv DEF InvAlmacen

\* Through frames, swap files, suspensions and writes that wait in the socket, a process
\* reads in a page what it wrote there last, and no other process writes in it (tlb.c,
\* cpu_mem_client.c, tabla_nivel_1.c, tabla_suspendido.c), if sleeps of the Kernel outlast
\* pending writes and keep their order.
THEOREM MemoriaPrivada ==
  ASSUME Puntual, TlbAlcanza
  PROVE  Spec => ImplementaAlmacen
<1>1. Init => InvAlmacen /\ Almacen!Init
  BY InicioInvAlmacen, InicioAlmacen
<1>2. InvAlmacen /\ [Next]_vars => InvAlmacen'
  <2> SUFFICES ASSUME InvAlmacen, [Next]_vars PROVE InvAlmacen'
    OBVIOUS
  <2>1. IInv' /\ TlbInv'
    BY PasoIInv, PasoTlbInv DEF InvAlmacen
  <2> QED BY <2>1, PasoAlmacen DEF InvAlmacen
<1>3. InvAlmacen /\ InvAlmacen' /\ [Next]_vars => [Almacen!Next]_Visible
  BY PasoAlmacen DEF InvAlmacen
<1> QED BY <1>1, <1>2, <1>3, PTL DEF Spec, ImplementaAlmacen, Almacen!Spec, Visible, ContenidoDe, PedidoDe, Liberados

=============================================================================
