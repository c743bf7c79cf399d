--------------------------- MODULE AccesoMemoriaProofs ---------------------------
(***************************************************************************)
(* Theorems about the ways to Memory: the arithmetic of Direcciones, for   *)
(* any sizes; the entries of Tlb, for any numbers of entries, pages and    *)
(* frames; and the conversation of AdaptadorMemoria, for any number of     *)
(* threads.                                                                *)
(***************************************************************************)
EXTENDS Direcciones, Tlb, AdaptadorMemoria, FiniteSetTheorems, SequenceTheorems,
        WellFoundedInduction, TLAPS

-----------------------------------------------------------------------------
(* Quotients, remainders and products.                                     *)

\* Quotient and remainder, as C computes them for naturals.
LEMMA Division ==
  ASSUME NEW b \in Nat \ {0}, NEW a \in Nat
  PROVE  a \div b \in Nat /\ a % b \in 0..(b - 1) /\ a = (a \div b) * b + (a % b)
  OBVIOUS

\* The quotient and the remainder of a number written in base b are its digits.
LEMMA Cociente ==
  ASSUME NEW b \in Nat \ {0}, NEW q \in Nat, NEW r \in Nat, r < b
  PROVE  (q * b + r) \div b = q /\ (q * b + r) % b = r
  OBVIOUS

\* Multiplying keeps the order.
LEMMA MenorIgual ==
  ASSUME NEW b \in Nat, NEW p \in Nat, NEW q \in Nat, p <= q
  PROVE  p * b <= q * b /\ p * b \in Nat
  OBVIOUS

\* The ranges of b items that begin at p * b and at q * b do not meet.
LEMMA Producto ==
  ASSUME NEW b \in Nat, NEW p \in Nat, NEW q \in Nat, p < q
  PROVE  p * b + b <= q * b /\ p * b \in Nat /\ q * b \in Nat
  OBVIOUS

\* An address under c * b is in one of the c items of b bytes.
LEMMA Menor ==
  ASSUME NEW b \in Nat \ {0}, NEW c \in Nat, NEW a \in Nat, a < c * b
  PROVE  a \div b \in 0..(c - 1)
  <1>1. a \div b \in Nat /\ a % b \in 0..(b - 1) /\ a = (a \div b) * b + (a % b)
    BY Division
  <1>2. a \div b < c
    <2> SUFFICES ASSUME c <= a \div b PROVE FALSE
      BY <1>1
    <2>1. c * b <= (a \div b) * b /\ c * b \in Nat
      BY <1>1, MenorIgual
    <2>2. (a \div b) * b \in Nat
      BY <1>1, MenorIgual
    <2>3. (a \div b) * b <= a
      BY <1>1, <2>2
    <2>4. QED
      BY <2>1, <2>2, <2>3
  <1>3. QED
    BY <1>1, <1>2

\* The product that the numbering of tables, pages and bytes expands.
LEMMA Distributiva ==
  ASSUME NEW b \in Nat, NEW p \in Nat, NEW q \in Nat
  PROVE  (p * b + q) * b = p * (b * b) + q * b
  OBVIOUS

\* The number of an item in a table of tables.
LEMMA NumeroEnTabla ==
  ASSUME NEW b \in Nat \ {0}, NEW n \in Nat, NEW q \in 0..(n - 1), NEW r \in 0..(b - 1)
  PROVE  q * b + r \in 0..(n * b - 1)
  <1>1. q * b + b <= n * b /\ q * b \in Nat
    BY Producto
  <1>2. QED
    BY <1>1

-----------------------------------------------------------------------------
(* Tables and pages.                                                       *)

\* A process may have pages.
LEMMA CuantasPaginas == PaginasPorProceso \in Nat \ {0}
  <1>1. EntradasPorTabla * EntradasPorTabla \in Nat /\ EntradasPorTabla * EntradasPorTabla >= 1
    BY TamaniosAssumption
  <1>2. QED
    BY <1>1 DEF PaginasPorProceso

\* What the CPU asks for is in the tables of Memory.
LEMMA EntradaExiste ==
  ASSUME NEW i \in Proceso, NEW n \in Pagina
  PROVE  /\ EntradaDe(i, n) \in Entrada
         /\ n \div EntradasPorTabla \in 0..(EntradasPorTabla - 1)
         /\ n % EntradasPorTabla \in 0..(EntradasPorTabla - 1)
         /\ n = (n \div EntradasPorTabla) * EntradasPorTabla + (n % EntradasPorTabla)
  <1> DEFINE a == n \div EntradasPorTabla
             r == n % EntradasPorTabla
  <1>1. n \in Nat /\ n < EntradasPorTabla * EntradasPorTabla
    BY CuantasPaginas DEF Pagina, PaginasPorProceso
  <1>2. a \in Nat /\ r \in 0..(EntradasPorTabla - 1) /\ n = a * EntradasPorTabla + r
    BY <1>1, Division, TamaniosAssumption
  <1>3. a \in 0..(EntradasPorTabla - 1)
    BY <1>1, Menor, TamaniosAssumption
  <1>4. NroTablaNivel2(i, a) \in Tabla2
    <2>1. i \in 0..(CantidadProcesosMax - 1) /\ CantidadProcesosMax \in Nat
      BY TamaniosAssumption DEF Proceso
    <2>2. i * EntradasPorTabla + a \in 0..(CantidadProcesosMax * EntradasPorTabla - 1)
      BY <1>3, <2>1, NumeroEnTabla, TamaniosAssumption
    <2>3. QED
      BY <2>2 DEF NroTablaNivel2, Tabla2
  <1>5. QED
    BY <1>2, <1>3, <1>4 DEF EntradaDe, Entrada, Entrada2, EntradaTablaNivel1, EntradaTablaNivel2

\* Memory numbers the page of an entry, and from that number comes back to the page its process
\* knows, to the table and to the entry, by each of its three ways.
THEOREM IdaYVuelta ==
  ASSUME NEW i \in Proceso, NEW n \in Pagina,
         NEW e, e = EntradaDe(i, n), NEW p, p = ObtenerPagina(e[1], e[2])
  PROVE  /\ p \in 0..(CantidadProcesosMax * PaginasPorProceso - 1)
         /\ p = i * PaginasPorProceso + n
         /\ ObtenerIndice(p) = n
         /\ ObtenerTabla2(p) = e[1]
         /\ ObtenerEntrada(p) = e[2]
         /\ ObtenerTablaDeNivel2Pagina(p) = e[1]
  <1> DEFINE E == EntradasPorTabla
             a == n \div E
             r == n % E
             P == PaginasPorProceso
  <1>1. /\ i \in Nat /\ i \in 0..(CantidadProcesosMax - 1) /\ n \in 0..(P - 1) /\ P \in Nat \ {0}
        /\ P = E * E /\ E \in Nat \ {0} /\ CantidadProcesosMax \in Nat
    BY CuantasPaginas, TamaniosAssumption DEF Proceso, Pagina, PaginasPorProceso
  <1>2. a \in 0..(E - 1) /\ r \in 0..(E - 1) /\ n = a * E + r
    BY EntradaExiste
  <1>3. e = <<i * E + a, r>>
    BY DEF EntradaDe, NroTablaNivel2, EntradaTablaNivel1, EntradaTablaNivel2
  <1>4. e[1] = i * E + a /\ e[2] = r /\ i * E + a \in Nat
    BY <1>1, <1>2, <1>3
  <1>5. p = (i * E + a) * E + r
    BY <1>4 DEF ObtenerPagina
  <1>6. (i * E + a) * E = i * (E * E) + a * E
    <2>1. i \in Nat /\ a \in Nat /\ E \in Nat
      BY <1>1, <1>2
    <2> HIDE DEF a, E
    <2>2. QED
      BY <2>1, Distributiva, Zenon
  <1>7. p = i * P + n
    <2>1. i * (E * E) \in Nat /\ a * E \in Nat /\ r \in Nat
      <3>1. i \in Nat /\ E \in Nat /\ a \in Nat /\ r \in Nat
        BY <1>1, <1>2
      <3> HIDE DEF a, r, E
      <3>2. QED
        BY <3>1, MenorIgual
    <2>2. p = (i * (E * E) + a * E) + r
      <3> HIDE DEF a, r, E
      <3>1. QED
        BY <1>5, <1>6, Zenon
    <2>3. (i * (E * E) + a * E) + r = i * (E * E) + (a * E + r)
      <3> DEFINE u == i * (E * E)
                 v == a * E
      <3>1. u \in Nat /\ v \in Nat /\ r \in Nat
        BY <2>1
      <3> HIDE DEF u, v, r
      <3>2. (u + v) + r = u + (v + r)
        BY <3>1
      <3>3. QED
        BY <3>2 DEF u, v
    <2>4. p = i * (E * E) + n
      <3> HIDE DEF a, r, E
      <3>1. QED
        BY <1>2, <2>2, <2>3, Zenon
    <2>5. QED
      BY <1>1, <2>4, Zenon
  <1>8. p \in 0..(CantidadProcesosMax * P - 1)
    BY <1>1, <1>7, NumeroEnTabla
  <1>9. p \div P = i /\ p % P = n
    <2>1. i \in Nat /\ n \in Nat /\ n < P /\ P \in Nat \ {0}
      BY <1>1
    <2> HIDE DEF P
    <2>2. (i * P + n) \div P = i /\ (i * P + n) % P = n
      BY <2>1, Cociente
    <2>3. QED
      BY <2>2, <1>7, Zenon
  <1>10. p \div E = i * E + a
    <2> DEFINE q == i * E + a
    <2>1. q \in Nat /\ r \in Nat /\ r < E /\ E \in Nat \ {0} /\ p = q * E + r
      BY <1>1, <1>2, <1>4, <1>5
    <2> HIDE DEF q, r, E
    <2>2. (q * E + r) \div E = q
      BY <2>1, Cociente
    <2>3. p \div E = q
      BY <2>1, <2>2, Zenon
    <2>4. QED
      BY <2>3, Zenon DEF q
  <1>11. QED
    BY <1>4, <1>7, <1>8, <1>9, <1>10, <1>3
    DEF ObtenerIndice, ObtenerTabla2, ObtenerEntrada, ObtenerTablaDeNivel2Pagina, NroTablaNivel2

\* Different pages have different entries.
LEMMA EntradasDistintas ==
  ASSUME NEW i \in Proceso, NEW n \in Pagina, NEW j \in Proceso, NEW k \in Pagina,
         EntradaDe(i, n) = EntradaDe(j, k)
  PROVE  i = j /\ n = k
  <1> DEFINE e == EntradaDe(i, n)
             p == ObtenerPagina(e[1], e[2])
  <1>1. p = i * PaginasPorProceso + n /\ p = j * PaginasPorProceso + k
    BY IdaYVuelta
  <1>2. i \in Nat /\ j \in Nat /\ n \in Nat /\ k \in Nat /\ n < PaginasPorProceso /\ k < PaginasPorProceso
    BY CuantasPaginas, TamaniosAssumption DEF Proceso, Pagina
  <1>3. p \div PaginasPorProceso = i /\ p % PaginasPorProceso = n
    <2>1. (i * PaginasPorProceso + n) \div PaginasPorProceso = i
          /\ (i * PaginasPorProceso + n) % PaginasPorProceso = n
      BY <1>2, CuantasPaginas, Cociente
    <2>2. QED
      BY <1>1, <2>1
  <1>4. p \div PaginasPorProceso = j /\ p % PaginasPorProceso = k
    <2>1. (j * PaginasPorProceso + k) \div PaginasPorProceso = j
          /\ (j * PaginasPorProceso + k) % PaginasPorProceso = k
      BY <1>2, CuantasPaginas, Cociente
    <2>2. QED
      BY <1>1, <2>1
  <1>5. QED
    BY <1>3, <1>4

\* Every entry is that of a page of some process.
LEMMA TodaEntrada ==
  ASSUME NEW x \in Entrada
  PROVE  \E i \in Proceso, n \in Pagina : x = EntradaDe(i, n)
  <1> DEFINE E == EntradasPorTabla
             i == x[1] \div E
             a == x[1] % E
             n == a * E + x[2]
  <1>1. /\ x = <<x[1], x[2]>> /\ x[1] \in 0..(CantidadProcesosMax * E - 1) /\ x[2] \in 0..(E - 1)
        /\ E \in Nat \ {0} /\ CantidadProcesosMax \in Nat
    BY TamaniosAssumption DEF Entrada, Tabla2, Entrada2
  <1>2. x[1] \in Nat /\ x[2] \in Nat /\ x[1] < CantidadProcesosMax * E
    <2>1. CantidadProcesosMax * E \in Nat
      BY <1>1
    <2>2. QED
      BY <1>1, <2>1
  <1>3. i \in Nat /\ a \in 0..(E - 1) /\ x[1] = i * E + a
    BY <1>1, <1>2, Division
  <1>4. i \in 0..(CantidadProcesosMax - 1)
    BY <1>1, <1>2, Menor
  <1>5. n \in Pagina
    <2>1. a * E + x[2] \in 0..(E * E - 1)
      BY <1>1, <1>3, NumeroEnTabla
    <2>2. QED
      BY <2>1, Zenon DEF Pagina, PaginasPorProceso
  <1>6. n \div E = a /\ n % E = x[2]
    <2> DEFINE r == x[2]
    <2>1. a \in Nat /\ r \in Nat /\ r < E /\ E \in Nat \ {0} /\ n = a * E + r
      BY <1>1, <1>2, <1>3
    <2> HIDE DEF a, r, E, n
    <2>2. (a * E + r) \div E = a /\ (a * E + r) % E = r
      BY <2>1, Cociente
    <2>3. n \div E = a /\ n % E = r
      BY <2>1, <2>2, Zenon
    <2>4. QED
      BY <2>3, Zenon DEF r
  <1>7. x = EntradaDe(i, n)
    BY <1>1, <1>3, <1>6 DEF EntradaDe, NroTablaNivel2, EntradaTablaNivel1, EntradaTablaNivel2
  <1>8. i \in Proceso
    BY <1>1, <1>3, <1>4 DEF Proceso
  <1>9. QED
    BY <1>5, <1>7, <1>8

\* The page of a victim is found in the same entry that the CPU would ask for.
LEMMA Victima ==
  ASSUME NEW i, NEW n
  PROVE  EntradaVictima(i, n) = EntradaDe(i, n)
  BY DEF EntradaVictima, EntradaDe, EntradaTablaNivel1, EntradaTablaNivel2

-----------------------------------------------------------------------------
(* Addresses and frames.                                                   *)

\* A logical address the program may use is a page of its process and an offset in it.
LEMMA PaginaDeDireccion ==
  ASSUME NEW d \in Direccion
  PROVE  NumeroPagina(d) \in Pagina /\ Offset(d) \in 0..(TamanioPagina - 1)
  <1> DEFINE n == d \div TamanioPagina
             P == PaginasPorProceso
  <1>0. P \in Nat \ {0} /\ TamanioPagina \in Nat \ {0}
    BY CuantasPaginas, TamaniosAssumption
  <1>1. d \in Nat /\ d < TamanioPagina * P
    <2>1. TamanioPagina * P \in Nat
      BY <1>0
    <2>2. QED
      BY <2>1, DireccionAssumption
  <1>2. n \in Nat /\ d % TamanioPagina \in 0..(TamanioPagina - 1) /\ d = n * TamanioPagina + (d % TamanioPagina)
    BY <1>0, <1>1, Division
  <1>3. n \in 0..(P - 1)
    <2>1. TamanioPagina * P = P * TamanioPagina
      BY <1>0
    <2>2. QED
      BY <1>0, <1>1, <2>1, Menor
  <1>4. Offset(d) = d % TamanioPagina
    BY <1>0, <1>1, <1>2 DEF Offset, NumeroPagina
  <1>5. QED
    BY <1>0, <1>2, <1>3, <1>4 DEF NumeroPagina, Pagina

\* Memory finds the frame of a physical address.
LEMMA MarcoDeFisica ==
  ASSUME NEW m \in Nat, NEW o \in 0..(TamanioPagina - 1)
  PROVE  (m * TamanioPagina + o) \div TamanioPagina = m
  BY Cociente, TamaniosAssumption

\* The frames of a process are frames of Memory.
LEMMA MarcosExisten ==
  ASSUME NEW i \in Proceso, NEW m \in MarcosDe(i)
  PROVE  m \in Marco /\ m \in Nat
  <1>1. i * MarcosPorProceso \in Nat /\ i * MarcosPorProceso + MarcosPorProceso <= CantidadProcesosMax * MarcosPorProceso
    BY Producto, TamaniosAssumption DEF Proceso
  <1>2. QED
    BY <1>1, TamaniosAssumption DEF Marco, MarcosDe

-----------------------------------------------------------------------------
(* The invariant.                                                          *)

\* The tables that memoria.c creates satisfy the invariant.
LEMMA Inicio == Init => IInv
  <1> SUFFICES ASSUME Init PROVE IInv
    OBVIOUS
  <1>1. -1 \in -1..(CantidadProcesosMax * PaginasPorProceso - 1)
    BY CuantasPaginas, TamaniosAssumption
  <1>2. QED
    BY <1>1 DEF Init, IInv, TypeOK, MarcosPropios, ModificadoEsEscrita

\* The page of a frame leads back to the entry of the page.
LEMMA EntradaDeSuPagina ==
  ASSUME NEW i \in Proceso, NEW n \in Pagina, NEW e, e = EntradaDe(i, n)
  PROVE  EntradaDePagina(ObtenerPagina(e[1], e[2])) = e
  <1>1. e \in Entrada
    BY EntradaExiste
  <1>2. /\ ObtenerTablaDeNivel2Pagina(ObtenerPagina(e[1], e[2])) = e[1]
        /\ ObtenerEntrada(ObtenerPagina(e[1], e[2])) = e[2]
    BY IdaYVuelta
  <1>3. QED
    BY <1>1, <1>2 DEF EntradaDePagina, Entrada

\* A free frame is of no page in memory.
LEMMA MarcoLibreSinEntrada ==
  ASSUME IInv, NEW i \in Proceso, NEW m \in Libres(i)
  PROVE  \A x \in presencia : x \in Entrada => indiceMarco[x] # m
  <1> SUFFICES ASSUME NEW x \in presencia, x \in Entrada PROVE indiceMarco[x] # m
    OBVIOUS
  <1>1. PICK j \in Proceso, k \in Pagina : x = EntradaDe(j, k)
    BY TodaEntrada
  <1>2. pagina[indiceMarco[x]] = ObtenerPagina(x[1], x[2]) /\ pagina[m] = -1
    BY <1>1 DEF IInv, MarcosPropios, Libres
  <1>3. ObtenerPagina(x[1], x[2]) \in 0..(CantidadProcesosMax * PaginasPorProceso - 1)
    BY <1>1, IdaYVuelta
  <1>4. ObtenerPagina(x[1], x[2]) # -1
    BY <1>3, CuantasPaginas, TamaniosAssumption
  <1>5. QED
    BY <1>2, <1>4

\* The frame of a page in memory is of no other one.
LEMMA MarcoDeUnaEntrada ==
  ASSUME IInv, NEW i \in Proceso, NEW v \in Pagina, EntradaDe(i, v) \in presencia
  PROVE  \A x \in presencia :
           x \in Entrada /\ indiceMarco[x] = indiceMarco[EntradaDe(i, v)] => x = EntradaDe(i, v)
  <1> SUFFICES ASSUME NEW x \in presencia, x \in Entrada, indiceMarco[x] = indiceMarco[EntradaDe(i, v)]
               PROVE  x = EntradaDe(i, v)
    OBVIOUS
  <1>1. PICK j \in Proceso, k \in Pagina : x = EntradaDe(j, k)
    BY TodaEntrada
  <1>2. EntradaDeMarco(indiceMarco[x]) = x /\ EntradaDeMarco(indiceMarco[EntradaDe(i, v)]) = EntradaDe(i, v)
    BY <1>1 DEF IInv, MarcosPropios
  <1>3. QED
    BY <1>2

\* What a page that comes to memory and a page that leaves it do to the tables.
LEMMA Cambio ==
  ASSUME IInv, NEW i \in Proceso, NEW n \in Pagina, NEW e, e = EntradaDe(i, n),
         e \notin presencia, NEW m \in MarcosDe(i), NEW fuera,
         \A x \in presencia : x = fuera \/ indiceMarco[x] # m \/ x \notin Entrada,
         presencia' = (presencia \ {fuera}) \union {e},
         modificado' = modificado \ {e},
         indiceMarco' = [indiceMarco EXCEPT ![e] = m],
         pagina' = [pagina EXCEPT ![m] = ObtenerPagina(e[1], e[2])],
         escritas' = escritas \ {<<i, n>>}
  PROVE  IInv'
  <1> DEFINE p == ObtenerPagina(e[1], e[2])
  <1>1. e \in Entrada /\ m \in Marco /\ p \in 0..(CantidadProcesosMax * PaginasPorProceso - 1)
    BY EntradaExiste, MarcosExisten, IdaYVuelta
  <1>2. TypeOK'
    BY <1>1 DEF IInv, TypeOK
  <1>3. MarcosPropios'
    <2> SUFFICES ASSUME NEW j \in Proceso, NEW k \in Pagina, NEW x, x = EntradaDe(j, k), x \in presencia'
                 PROVE  /\ indiceMarco'[x] \in MarcosDe(j)
                        /\ pagina'[indiceMarco'[x]] = ObtenerPagina(x[1], x[2])
                        /\ <<ObtenerTabla2(pagina'[indiceMarco'[x]]), ObtenerEntrada(pagina'[indiceMarco'[x]])>> = x
      BY DEF MarcosPropios, EntradaDeMarco
    <2>0. x \in Entrada
      BY EntradaExiste
    <2>1. x = <<ObtenerTabla2(ObtenerPagina(x[1], x[2])), ObtenerEntrada(ObtenerPagina(x[1], x[2]))>>
      <3>1. ObtenerTabla2(ObtenerPagina(x[1], x[2])) = x[1] /\ ObtenerEntrada(ObtenerPagina(x[1], x[2])) = x[2]
        BY IdaYVuelta
      <3>2. QED
        BY <2>0, <3>1 DEF Entrada
    <2>2. CASE x = e
      <3>1. i = j
        BY <2>2, EntradasDistintas
      <3>2. indiceMarco'[x] = m /\ pagina'[m] = p
        BY <2>2, <1>1 DEF IInv, TypeOK
      <3>3. QED
        BY <2>1, <2>2, <3>1, <3>2
    <2>3. CASE x # e
      <3>1. x \in presencia /\ x # fuera
        BY <2>3
      <3>2. indiceMarco'[x] = indiceMarco[x] /\ indiceMarco[x] # m
        BY <1>1, <2>0, <2>3, <3>1 DEF IInv, TypeOK
      <3>3. indiceMarco[x] \in MarcosDe(j) /\ pagina[indiceMarco[x]] = ObtenerPagina(x[1], x[2])
        BY <3>1 DEF IInv, MarcosPropios
      <3>4. pagina'[indiceMarco[x]] = pagina[indiceMarco[x]]
        BY <3>2, <3>3, MarcosExisten DEF IInv, TypeOK
      <3>5. QED
        BY <2>1, <3>2, <3>3, <3>4
    <2>4. QED
      BY <2>2, <2>3
  <1>4. ModificadoEsEscrita'
    <2> SUFFICES ASSUME NEW j \in Proceso, NEW k \in Pagina, EntradaDe(j, k) \in presencia'
                 PROVE  EntradaDe(j, k) \in modificado' <=> <<j, k>> \in escritas'
      BY DEF ModificadoEsEscrita
    <2>1. CASE EntradaDe(j, k) = e
      <3>1. j = i /\ k = n
        BY <2>1, EntradasDistintas
      <3>2. QED
        BY <2>1, <3>1
    <2>2. CASE EntradaDe(j, k) # e
      <3>1. EntradaDe(j, k) \in presencia /\ <<j, k>> # <<i, n>>
        BY <2>2
      <3>2. QED
        BY <2>2, <3>1 DEF IInv, ModificadoEsEscrita
    <2>3. QED
      BY <2>1, <2>2
  <1>5. QED
    BY <1>2, <1>3, <1>4 DEF IInv

\* Bringing a page, into a free frame or into that of a victim, keeps the invariant.
LEMMA PasoTraer ==
  ASSUME IInv, NEW i \in Proceso, NEW n \in Pagina, Traer(i, n)
  PROVE  IInv'
  <1> DEFINE e == EntradaDe(i, n)
  <1>1. CASE Libres(i) # {}
    <2>1. PICK m \in Libres(i) :
            /\ presencia' = presencia \union {e}
            /\ modificado' = modificado \ {e}
            /\ indiceMarco' = [indiceMarco EXCEPT ![e] = m]
            /\ pagina' = [pagina EXCEPT ![m] = ObtenerPagina(e[1], e[2])]
      BY <1>1 DEF Traer
    <2>2. e \notin presencia /\ escritas' = escritas \ {<<i, n>>} /\ m \in MarcosDe(i) /\ pagina[m] = -1
      BY DEF Traer, Libres
    <2>3. \A x \in presencia : x = e \/ indiceMarco[x] # m \/ x \notin Entrada
      BY MarcoLibreSinEntrada
    <2>4. presencia' = (presencia \ {e}) \union {e}
      BY <2>1, <2>2
    <2>5. QED
      BY <2>1, <2>2, <2>3, <2>4, Cambio
  <1>2. CASE Libres(i) = {}
    <2>1. PICK v \in Pagina :
            LET fuera == EntradaVictima(i, v)  m == indiceMarco[fuera] IN
            /\ fuera \in presencia
            /\ presencia' = (presencia \ {fuera}) \union {e}
            /\ modificado' = modificado \ {e}
            /\ indiceMarco' = [indiceMarco EXCEPT ![e] = m]
            /\ pagina' = [pagina EXCEPT ![m] = ObtenerPagina(e[1], e[2])]
      BY <1>2 DEF Traer
    <2> DEFINE fuera == EntradaDe(i, v)
               m == indiceMarco[fuera]
    <2>2. /\ fuera \in presencia
          /\ presencia' = (presencia \ {fuera}) \union {e}
          /\ modificado' = modificado \ {e}
          /\ indiceMarco' = [indiceMarco EXCEPT ![e] = m]
          /\ pagina' = [pagina EXCEPT ![m] = ObtenerPagina(e[1], e[2])]
      BY <2>1, Victima
    <2>3. e \notin presencia /\ escritas' = escritas \ {<<i, n>>}
      BY DEF Traer
    <2>4. m \in MarcosDe(i)
      BY <2>2 DEF IInv, MarcosPropios
    <2>5. \A x \in presencia : x = fuera \/ indiceMarco[x] # m \/ x \notin Entrada
      BY <2>2, MarcoDeUnaEntrada
    <2> HIDE DEF fuera, m
    <2>6. QED
      BY <2>2, <2>3, <2>4, <2>5, Cambio
  <1>3. QED
    BY <1>1, <1>2

\* Memory sets the bit of the page that the CPU writes.
LEMMA PasoEscribir ==
  ASSUME IInv, NEW i \in Proceso, NEW d \in Direccion, NEW v \in Valor, Escribir(i, d, v)
  PROVE  IInv'
  <1> DEFINE n == NumeroPagina(d)
             e == EntradaDe(i, n)
             m == indiceMarco[e]
  <1>1. n \in Pagina /\ Offset(d) \in 0..(TamanioPagina - 1)
    BY PaginaDeDireccion
  <1>2. e \in presencia /\ UNCHANGED <<presencia, indiceMarco, pagina>>
        /\ modificado' = modificado \union {EntradaDePagina(pagina[Fisica(i, d) \div TamanioPagina])}
        /\ escritas' = escritas \union {<<i, n>>}
    BY DEF Escribir
  <1>3. m \in MarcosDe(i) /\ pagina[m] = ObtenerPagina(e[1], e[2])
    BY <1>1, <1>2 DEF IInv, MarcosPropios
  <1>4. Fisica(i, d) \div TamanioPagina = m
    BY <1>1, <1>3, MarcosExisten, MarcoDeFisica DEF Fisica
  <1>5. EntradaDePagina(ObtenerPagina(e[1], e[2])) = e
    BY <1>1, EntradaDeSuPagina
  <1>6. modificado' = modificado \union {e}
    BY <1>2, <1>3, <1>4, <1>5
  <1>7. TypeOK' /\ MarcosPropios'
    BY <1>2 DEF IInv, TypeOK, MarcosPropios, EntradaDeMarco
  <1>8. ModificadoEsEscrita'
    <2> SUFFICES ASSUME NEW j \in Proceso, NEW k \in Pagina, EntradaDe(j, k) \in presencia'
                 PROVE  EntradaDe(j, k) \in modificado' <=> <<j, k>> \in escritas'
      BY DEF ModificadoEsEscrita
    <2>1. EntradaDe(j, k) = e <=> <<j, k>> = <<i, n>>
      BY <1>1, EntradasDistintas
    <2>2. EntradaDe(j, k) \in modificado <=> <<j, k>> \in escritas
      BY <1>2 DEF IInv, ModificadoEsEscrita
    <2>3. QED
      BY <1>2, <1>6, <2>1, <2>2
  <1>9. QED
    BY <1>7, <1>8 DEF IInv

-----------------------------------------------------------------------------
(* The bytes.                                                              *)

\* Every byte of a process is in one of its pages.
LEMMA PaginaDelByte ==
  ASSUME NEW d \in Espacio
  PROVE  /\ NumeroPagina(d) \in Pagina
         /\ Offset(d) \in 0..(TamanioPagina - 1)
         /\ d = NumeroPagina(d) * TamanioPagina + Offset(d)
         /\ NumeroPagina(d) * TamanioPagina \in Nat
  <1> DEFINE n == d \div TamanioPagina
             P == PaginasPorProceso
  <1>0. P \in Nat \ {0} /\ TamanioPagina \in Nat \ {0}
    BY CuantasPaginas, TamaniosAssumption
  <1>1. d \in Nat /\ d < TamanioPagina * P /\ TamanioPagina * P = P * TamanioPagina
    BY <1>0 DEF Espacio
  <1>2. n \in Nat /\ d % TamanioPagina \in 0..(TamanioPagina - 1) /\ d = n * TamanioPagina + (d % TamanioPagina)
    BY <1>0, <1>1, Division
  <1>3. n \in 0..(P - 1)
    BY <1>0, <1>1, Menor
  <1>4. Offset(d) = d % TamanioPagina /\ n * TamanioPagina \in Nat
    BY <1>0, <1>1, <1>2 DEF Offset, NumeroPagina
  <1>5. QED
    BY <1>0, <1>2, <1>3, <1>4 DEF NumeroPagina, Pagina

\* A word does not cross the end of its page: both are whole numbers of words.
LEMMA PalabraEntera ==
  ASSUME NEW d \in Direccion
  PROVE  d \in Espacio /\ Offset(d) + TamanioPalabra <= TamanioPagina
  <1> DEFINE n == NumeroPagina(d)
             W == TamanioPalabra
             c == TamanioPagina \div W
             q == d \div W
             o == Offset(d)
  <1>1. d \in Espacio
    BY DireccionAssumption DEF Espacio
  <1>2. /\ n \in Nat /\ o \in Nat /\ o < TamanioPagina /\ d = n * TamanioPagina + o
        /\ d \in Nat /\ n * TamanioPagina \in Nat
    BY <1>1, PaginaDelByte, CuantasPaginas, TamaniosAssumption DEF Pagina, Espacio
  <1>3. W \in Nat \ {0} /\ c \in Nat /\ TamanioPagina = c * W
    BY PalabraAssumption, TamaniosAssumption, Division
  <1>4. q \in Nat /\ d = q * W
    BY <1>2, <1>3, DireccionAssumption, Division
  <1> HIDE DEF c, q, o, n, W
  <1>5. n * TamanioPagina = (n * c) * W /\ n * c \in Nat
    BY <1>2, <1>3
  <1> DEFINE k == n * c
  <1>6. q * W = k * W + o /\ k \in Nat
    BY <1>2, <1>4, <1>5
  <1> HIDE DEF k
  <1>7. q < k + c
    <2> SUFFICES ASSUME k + c <= q PROVE FALSE
      BY <1>3, <1>4, <1>6
    <2>1. (k + c) * W <= q * W
      BY <1>3, <1>4, <1>6, MenorIgual
    <2>2. (k + c) * W = k * W + c * W /\ k * W \in Nat /\ c * W \in Nat
      BY <1>3, <1>6
    <2> QED
      BY <1>2, <1>3, <1>6, <2>1, <2>2
  <1>8. q * W + W <= (k + c) * W
    BY <1>3, <1>4, <1>6, <1>7, Producto
  <1>9. (k + c) * W = k * W + c * W /\ k * W \in Nat /\ c * W \in Nat
    BY <1>3, <1>6
  <1>10. o + W <= TamanioPagina
    BY <1>2, <1>3, <1>6, <1>8, <1>9
  <1> QED
    BY <1>1, <1>10 DEF o, W

\* An offset in a frame is a byte of memoriaPrincipal, and of no other frame.
LEMMA ByteDeMarco ==
  ASSUME MemoriasEnteras, NEW m \in Marco, NEW o \in 0..(TamanioPagina - 1)
  PROVE  /\ m * TamanioPagina \in Nat
         /\ m * TamanioPagina + o \in DOMAIN principal
         /\ m * TamanioPagina + o \in EnMemoria(m)
         /\ \A otro \in Marco : otro # m => m * TamanioPagina + o \notin EnMemoria(otro)
  <1> DEFINE M == CantidadProcesosMax * MarcosPorProceso
  <1>1. M \in Nat /\ TamanioPagina \in Nat \ {0} /\ m \in 0..(M - 1)
    BY TamaniosAssumption DEF Marco
  <1>2. Cardinality(Marco) = M
    <2>1. Marco = 0..(M - 1)
      BY DEF Marco
    <2> HIDE DEF M
    <2>2. Cardinality(0..(M - 1)) = IF 0 > M - 1 THEN 0 ELSE (M - 1) - 0 + 1
      BY <1>1, FS_Interval
    <2> QED
      BY <1>1, <2>1, <2>2
  <1> HIDE DEF M
  <1>3. m * TamanioPagina + o \in 0..(M * TamanioPagina - 1)
    BY <1>1, NumeroEnTabla
  <1>4. m * TamanioPagina \in Nat
    BY <1>1
  <1>5. ASSUME NEW otro \in Marco, otro # m PROVE m * TamanioPagina + o \notin EnMemoria(otro)
    <2>1. otro \in Nat /\ m \in Nat
      BY <1>1 DEF Marco
    <2>2. CASE otro < m
      <3>1. otro * TamanioPagina + TamanioPagina <= m * TamanioPagina /\ otro * TamanioPagina \in Nat
        BY <1>1, <2>1, <2>2, Producto
      <3> QED
        BY <1>1, <1>4, <3>1 DEF EnMemoria
    <2>3. CASE m < otro
      <3>1. m * TamanioPagina + TamanioPagina <= otro * TamanioPagina /\ otro * TamanioPagina \in Nat
        BY <1>1, <2>1, <2>3, Producto
      <3> QED
        BY <1>1, <1>4, <3>1 DEF EnMemoria
    <2> QED
      BY <1>5, <2>1, <2>2, <2>3
  <1>6. m * TamanioPagina + o \in EnMemoria(m)
    BY <1>1, <1>4 DEF EnMemoria
  <1> QED
    BY <1>2, <1>3, <1>4, <1>5, <1>6 DEF MemoriasEnteras

\* The bytes of a page in the file of its process are those of its addresses.
LEMMA ByteDeArchivo ==
  ASSUME NEW i \in Proceso, NEW n \in Pagina, NEW e, e = EntradaDe(i, n)
  PROVE  /\ ObtenerIndice(ObtenerPagina(e[1], e[2])) = n
         /\ \A d \in Espacio : d \in EnArchivo(e) <=> NumeroPagina(d) = n
  <1>1. ObtenerIndice(ObtenerPagina(e[1], e[2])) = n
    BY IdaYVuelta
  <1>2. ASSUME NEW d \in Espacio PROVE d \in EnArchivo(e) <=> NumeroPagina(d) = n
    <2> DEFINE k == NumeroPagina(d)
               o == Offset(d)
               T == TamanioPagina
    <2>1. k \in Nat /\ n \in Nat /\ o \in 0..(T - 1) /\ d = k * T + o /\ T \in Nat \ {0}
      BY PaginaDelByte, CuantasPaginas, TamaniosAssumption DEF Pagina
    <2>2. EnArchivo(e) = (T * n)..(T * n + T - 1)
      BY <1>1 DEF EnArchivo
    <2> HIDE DEF k, o, T
    <2>3. T * n = n * T /\ n * T \in Nat /\ k * T \in Nat
      BY <2>1
    <2>4. CASE k = n
      BY <2>1, <2>2, <2>3, <2>4 DEF k
    <2>5. CASE k < n
      <3>1. k * T + T <= n * T
        BY <2>1, <2>5, Producto
      <3>2. d < n * T
        BY <2>1, <2>3, <3>1
      <3> QED
        BY <2>1, <2>2, <2>3, <2>5, <3>2 DEF k
    <2>6. CASE n < k
      <3>1. n * T + T <= k * T
        BY <2>1, <2>6, Producto
      <3>2. d >= n * T + T
        BY <2>1, <2>3, <3>1
      <3> QED
        BY <2>1, <2>2, <2>3, <2>6, <3>2 DEF k
    <2> QED
      BY <2>1, <2>4, <2>5, <2>6
  <1> QED
    BY <1>1, <1>2

\* No page in memory but the one that leaves has frame m.
MarcoSoloDe(fuera, m) == \A x \in presencia : x = fuera \/ indiceMarco[x] # m \/ x \notin Entrada
\* Page k of process i leaves frame m: if it was modified, its bytes go to the file.
SaleAlArchivo(i, k, fuera, m) ==
  /\ DOMAIN swap' = Proceso
  /\ enSwap \subseteq enSwap'
  /\ fuera \in presencia /\ fuera \in modificado => fuera \in enSwap'
  /\ \A j \in Proceso, d \in Espacio :
       swap'[j][d] = IF j = i /\ NumeroPagina(d) = k /\ fuera \in presencia /\ fuera \in modificado
                     THEN principal[m * TamanioPagina + Offset(d)] ELSE swap[j][d]
\* Page n of process i comes to frame m: its bytes, if the file has it, and no other byte.
EntraEnMarco(i, n, e, m) ==
  /\ DOMAIN principal' = DOMAIN principal
  /\ \A b \in DOMAIN principal : b \notin EnMemoria(m) => principal'[b] = principal[b]
  /\ e \in enSwap =>
       \A d \in Espacio : NumeroPagina(d) = n => principal'[m * TamanioPagina + Offset(d)] = swap'[i][d]

\* Changing a page for another one keeps every byte of both, and of the rest.
LEMMA CambioDeBytes ==
  ASSUME IInv, BytesInv, NEW i \in Proceso, NEW n \in Pagina, NEW e, e = EntradaDe(i, n),
         e \notin presencia, NEW m \in MarcosDe(i), NEW fuera,
         fuera = e \/ (fuera \in presencia /\ indiceMarco[fuera] = m),
         NEW k \in Pagina, fuera = EntradaDe(i, k),
         MarcoSoloDe(fuera, m), SaleAlArchivo(i, k, fuera, m), EntraEnMarco(i, n, e, m),
         presencia' = (presencia \ {fuera}) \union {e},
         modificado' = modificado \ {e},
         indiceMarco' = [indiceMarco EXCEPT ![e] = m],
         espacio' = espacio
  PROVE  BytesInv'
  <1>0. e \in Entrada /\ m \in Marco
    BY EntradaExiste, MarcosExisten
  <1> USE DEF MarcoSoloDe, SaleAlArchivo, EntraEnMarco
  <1>1. MemoriasEnteras'
    BY DEF BytesInv, MemoriasEnteras
  <1>2. ASSUME NEW j \in Proceso, NEW d \in Espacio, espacio[j][d] # Cero,
               NEW x, x = EntradaDe(j, NumeroPagina(d))
        PROVE  /\ x \in presencia' => principal'[indiceMarco'[x] * TamanioPagina + Offset(d)] = espacio[j][d]
               /\ x \notin presencia' \/ x \notin modificado' => x \in enSwap' /\ swap'[j][d] = espacio[j][d]
    <2>0. NumeroPagina(d) \in Pagina /\ Offset(d) \in 0..(TamanioPagina - 1) /\ x \in Entrada
      BY <1>2, PaginaDelByte, EntradaExiste
    <2>1. /\ x \in presencia => principal[indiceMarco[x] * TamanioPagina + Offset(d)] = espacio[j][d]
          /\ x \notin presencia \/ x \notin modificado => x \in enSwap /\ swap[j][d] = espacio[j][d]
      BY <1>2 DEF BytesInv, CadaByteEnSuLugar, CopiasAlDia, Fisica
    <2>d. (x = e => j = i /\ NumeroPagina(d) = n) /\ (x = fuera => j = i /\ NumeroPagina(d) = k)
      <3>1. \A l \in Pagina : EntradaDe(j, NumeroPagina(d)) = EntradaDe(i, l) => j = i /\ NumeroPagina(d) = l
        BY <2>0, EntradasDistintas
      <3> QED
        BY <1>2, <3>1
    <2>2. CASE x = e
      <3>1. j = i /\ NumeroPagina(d) = n
        BY <2>2, <2>d
      <3>2. x \in enSwap /\ swap[j][d] = espacio[j][d]
        BY <2>1, <2>2
      <3>3. swap'[i][d] = swap[i][d]
        <4>1. NumeroPagina(d) = k => fuera = e
          BY <3>1
        <4> QED
          BY <4>1
      <3>4. principal'[m * TamanioPagina + Offset(d)] = espacio[j][d]
        BY <2>2, <3>1, <3>2, <3>3
      <3>5. indiceMarco'[x] = m
        BY <1>0, <2>2 DEF IInv, TypeOK
      <3> QED
        BY <3>1, <3>2, <3>3, <3>4, <3>5
    <2>3. CASE x # e /\ x = fuera
      <3>1. j = i /\ NumeroPagina(d) = k
        BY <2>3, <2>d
      <3>2. x \in presencia /\ indiceMarco[x] = m /\ x \notin presencia'
        BY <2>3
      <3>3. swap'[i][d] = IF x \in modificado THEN principal[m * TamanioPagina + Offset(d)] ELSE swap[i][d]
        BY <2>3, <3>1, <3>2
      <3>4. CASE x \in modificado
        BY <2>1, <2>3, <3>1, <3>2, <3>3, <3>4
      <3>5. CASE x \notin modificado
        BY <2>1, <3>1, <3>2, <3>3, <3>5
      <3> QED
        BY <3>4, <3>5
    <2>4. CASE x # e /\ x # fuera
      <3>1. ~(j = i /\ NumeroPagina(d) = k)
        BY <1>2, <2>4
      <3>2. swap'[j][d] = swap[j][d]
        BY <3>1
      <3>3. (x \in presencia' <=> x \in presencia) /\ (x \in modificado' <=> x \in modificado)
        BY <2>4
      <3>4. ASSUME x \in presencia
            PROVE principal'[indiceMarco'[x] * TamanioPagina + Offset(d)] = espacio[j][d]
        <4>1. indiceMarco'[x] = indiceMarco[x] /\ indiceMarco[x] # m
          BY <2>0, <2>4, <3>4 DEF IInv, TypeOK
        <4>2. indiceMarco[x] \in MarcosDe(j)
          BY <1>2, <2>0, <3>4 DEF IInv, MarcosPropios
        <4>3. indiceMarco[x] \in Marco
          BY <4>2, MarcosExisten
        <4> DEFINE b == indiceMarco[x] * TamanioPagina + Offset(d)
        <4>4. b \in DOMAIN principal /\ b \notin EnMemoria(m)
          BY <1>0, <2>0, <4>1, <4>3, ByteDeMarco DEF BytesInv
        <4>5. principal'[b] = principal[b]
          BY <4>4
        <4> QED
          BY <2>1, <3>4, <4>1, <4>5
      <3> QED
        BY <2>1, <3>2, <3>3, <3>4
    <2> QED
      BY <2>2, <2>3, <2>4
  <1>3. CadaByteEnSuLugar'
    <2> SUFFICES ASSUME NEW j \in Proceso, NEW d \in Espacio, espacio'[j][d] # Cero
                 PROVE  IF EntradaDe(j, NumeroPagina(d)) \in presencia'
                        THEN principal'[Fisica(j, d)'] = espacio'[j][d]
                        ELSE swap'[j][d] = espacio'[j][d]
      BY DEF CadaByteEnSuLugar
    <2> QED
      BY <1>2 DEF Fisica
  <1>4. CopiasAlDia'
    BY <1>2 DEF CopiasAlDia
  <1> QED
    BY <1>1, <1>3, <1>4 DEF BytesInv

\* Bringing a page keeps every byte: the two cases are a free frame and a victim.
LEMMA PasoTraerBytes ==
  ASSUME IInv, BytesInv, NEW i \in Proceso, NEW n \in Pagina, Traer(i, n)
  PROVE  BytesInv'
  <1> DEFINE e == EntradaDe(i, n)
             T == TamanioPagina
  <1>1. e \notin presencia /\ espacio' = espacio /\ e \in Entrada
    BY EntradaExiste DEF Traer
  <1>2. DOMAIN swap = Proceso /\ MemoriasEnteras
    BY DEF BytesInv, MemoriasEnteras
  <1>3. ASSUME NEW m \in MarcosDe(i), NEW f, principal' = Cargada(e, m, f, enSwap)
        PROVE  /\ DOMAIN principal' = DOMAIN principal
               /\ \A b \in DOMAIN principal : b \notin EnMemoria(m) => principal'[b] = principal[b]
               /\ e \in enSwap => \A d \in Espacio : NumeroPagina(d) = n => principal'[m * T + Offset(d)] = f[d]
    <2>1. DOMAIN principal' = DOMAIN principal
          /\ \A b \in DOMAIN principal : b \notin EnMemoria(m) => principal'[b] = principal[b]
      BY <1>3 DEF Cargada
    <2>2. ASSUME e \in enSwap, NEW d \in Espacio, NumeroPagina(d) = n
          PROVE  principal'[m * T + Offset(d)] = f[d]
      <3> DEFINE b == m * T + Offset(d)
      <3>1. b \in DOMAIN principal /\ b \in EnMemoria(m) /\ m * T \in Nat
        BY <1>2, PaginaDelByte, MarcosExisten, ByteDeMarco
      <3>2. principal'[b] = f[T * n + b - m * T]
        BY <1>3, <2>2, <3>1, ByteDeArchivo DEF Cargada
      <3>3. T * n + b - m * T = d
        <4>1. Offset(d) \in Nat /\ d = n * T + Offset(d) /\ n * T \in Nat /\ T * n = n * T
          BY <2>2, PaginaDelByte, CuantasPaginas, TamaniosAssumption DEF Pagina
        <4> QED
          BY <3>1, <4>1
      <3> QED
        BY <3>2, <3>3
    <2> QED
      BY <2>1, <2>2
  <1>4. CASE Libres(i) # {}
    <2>1. PICK m \in Libres(i) :
            /\ presencia' = presencia \union {e}
            /\ modificado' = modificado \ {e}
            /\ UNCHANGED <<enSwap, swap>>
            /\ indiceMarco' = [indiceMarco EXCEPT ![e] = m]
            /\ principal' = Cargada(e, m, swap[i], enSwap)
      BY <1>4 DEF Traer
    <2>2. m \in MarcosDe(i)
      BY DEF Libres
    <2>3. \A x \in presencia : x = e \/ indiceMarco[x] # m \/ x \notin Entrada
      BY MarcoLibreSinEntrada
    <2>4. presencia' = (presencia \ {e}) \union {e}
      BY <1>1, <2>1
    <2>5. EntraEnMarco(i, n, e, m)
      BY <1>3, <2>1, <2>2 DEF EntraEnMarco
    <2>6. SaleAlArchivo(i, n, e, m)
      BY <1>1, <1>2, <2>1 DEF SaleAlArchivo
    <2>7. MarcoSoloDe(e, m)
      BY <2>3 DEF MarcoSoloDe
    <2> HIDE DEF e
    <2>8. e = EntradaDe(i, n)
      BY DEF e
    <2> QED
      BY <1>1, <2>1, <2>2, <2>4, <2>5, <2>6, <2>7, <2>8, CambioDeBytes
  <1>5. CASE Libres(i) = {}
    <2>1. PICK v \in Pagina :
            LET fuera == EntradaVictima(i, v)  m == indiceMarco[fuera]  f == Guardada(i, fuera, m) IN
            /\ fuera \in presencia
            /\ presencia' = (presencia \ {fuera}) \union {e}
            /\ modificado' = modificado \ {e}
            /\ enSwap' = enSwap \union (IF fuera \in modificado THEN {fuera} ELSE {})
            /\ swap' = [swap EXCEPT ![i] = f]
            /\ indiceMarco' = [indiceMarco EXCEPT ![e] = m]
            /\ principal' = Cargada(e, m, f, enSwap)
      BY <1>5 DEF Traer
    <2> DEFINE fuera == EntradaDe(i, v)
               m == indiceMarco[fuera]
               f == Guardada(i, fuera, m)
    <2>2. /\ fuera \in presencia
          /\ presencia' = (presencia \ {fuera}) \union {e}
          /\ modificado' = modificado \ {e}
          /\ enSwap' = enSwap \union (IF fuera \in modificado THEN {fuera} ELSE {})
          /\ swap' = [swap EXCEPT ![i] = f]
          /\ indiceMarco' = [indiceMarco EXCEPT ![e] = m]
          /\ principal' = Cargada(e, m, f, enSwap)
      BY <2>1, Victima
    <2>3. m \in MarcosDe(i)
      BY <2>2 DEF IInv, MarcosPropios
    <2>4. \A x \in presencia : x = fuera \/ indiceMarco[x] # m \/ x \notin Entrada
      BY <2>2, MarcoDeUnaEntrada
    <2>5. DOMAIN swap' = Proceso /\ swap'[i] = f /\ \A j \in Proceso : j # i => swap'[j] = swap[j]
      BY <1>2, <2>2
    <2>6. EntraEnMarco(i, n, e, m)
      <3> HIDE DEF m, f, e
      <3> QED
        BY <1>3, <2>2, <2>3, <2>5 DEF EntraEnMarco
    <2>7. \A j \in Proceso, d \in Espacio :
            swap'[j][d] = IF j = i /\ NumeroPagina(d) = v /\ fuera \in presencia /\ fuera \in modificado
                          THEN principal[m * T + Offset(d)] ELSE swap[j][d]
      <3> SUFFICES ASSUME NEW d \in Espacio
                   PROVE  f[d] = IF NumeroPagina(d) = v /\ fuera \in modificado
                                 THEN principal[m * T + Offset(d)] ELSE swap[i][d]
        BY <2>2, <2>5
      <3>1. CASE fuera \notin modificado
        BY <3>1 DEF Guardada
      <3>2. CASE fuera \in modificado /\ NumeroPagina(d) # v
        <4>1. d \notin EnArchivo(fuera)
          BY <3>2, ByteDeArchivo
        <4> QED
          BY <3>2, <4>1 DEF Guardada
      <3>3. CASE fuera \in modificado /\ NumeroPagina(d) = v
        <4>1. d \in EnArchivo(fuera) /\ ObtenerIndice(ObtenerPagina(fuera[1], fuera[2])) = v
          BY <3>3, ByteDeArchivo
        <4>2. f[d] = principal[m * T + d - T * v]
          BY <3>3, <4>1 DEF Guardada
        <4>3. m * T + d - T * v = m * T + Offset(d)
          <5>1. Offset(d) \in Nat /\ d = v * T + Offset(d) /\ v * T \in Nat /\ T * v = v * T
            BY <3>3, PaginaDelByte, CuantasPaginas, TamaniosAssumption DEF Pagina
          <5>2. m * T \in Nat
            BY <2>3, MarcosExisten, TamaniosAssumption
          <5> HIDE DEF m
          <5> QED
            BY <5>1, <5>2
        <4> QED
          BY <3>3, <4>2, <4>3
      <3> QED
        BY <3>1, <3>2, <3>3
    <2>8. SaleAlArchivo(i, v, fuera, m) /\ MarcoSoloDe(fuera, m)
      <3> HIDE DEF m, f, e, fuera
      <3> QED
        BY <2>2, <2>4, <2>5, <2>7 DEF SaleAlArchivo, MarcoSoloDe
    <2> HIDE DEF e, m, f, fuera
    <2>9. fuera = EntradaDe(i, v) /\ e = EntradaDe(i, n) /\ indiceMarco[fuera] = m
      BY DEF e, m, fuera
    <2> QED
      BY <1>1, <2>2, <2>3, <2>6, <2>8, <2>9, CambioDeBytes
  <1> QED
    BY <1>4, <1>5

\* A word written reaches the bytes of its address and no other.
LEMMA PasoEscribirBytes ==
  ASSUME IInv, BytesInv, NEW i \in Proceso, NEW d \in Direccion, NEW v \in Valor, Escribir(i, d, v)
  PROVE  BytesInv'
  <1> DEFINE n == NumeroPagina(d)
             e == EntradaDe(i, n)
             m == indiceMarco[e]
             f == m * TamanioPagina + Offset(d)
             W == TamanioPalabra
  <1>1. /\ n \in Pagina /\ Offset(d) \in 0..(TamanioPagina - 1) /\ d \in Espacio
        /\ Offset(d) + W <= TamanioPagina /\ W \in Nat \ {0}
    BY PalabraEntera, PaginaDelByte, PalabraAssumption
  <1>2. /\ e \in presencia /\ UNCHANGED <<presencia, enSwap, indiceMarco, pagina, swap>>
        /\ modificado' = modificado \union {EntradaDePagina(pagina[f \div TamanioPagina])}
        /\ principal' = [b \in DOMAIN principal |-> IF b \in Palabra(f) THEN <<v, b - f>> ELSE principal[b]]
        /\ espacio' = [espacio EXCEPT ![i] = [b \in Espacio |-> IF b \in Palabra(d) THEN <<v, b - d>> ELSE @[b]]]
    BY DEF Escribir, Fisica
  <1>3. /\ m \in MarcosDe(i) /\ m \in Marco /\ m * TamanioPagina \in Nat /\ MemoriasEnteras
        /\ pagina[m] = ObtenerPagina(e[1], e[2])
    <2>1. m \in MarcosDe(i) /\ pagina[m] = ObtenerPagina(e[1], e[2])
      BY <1>1, <1>2 DEF IInv, MarcosPropios
    <2>2. m \in Marco /\ m \in Nat
      BY <2>1, MarcosExisten
    <2> QED
      BY <2>1, <2>2, <1>1, ByteDeMarco DEF BytesInv
  <1>4. modificado' = modificado \union {e}
    <2>1. f \div TamanioPagina = m
      BY <1>1, <1>3, MarcosExisten, MarcoDeFisica
    <2>2. EntradaDePagina(ObtenerPagina(e[1], e[2])) = e
      BY <1>1, EntradaDeSuPagina
    <2> QED
      BY <1>2, <1>3, <2>1, <2>2
  <1>5. MemoriasEnteras'
    BY <1>2, <1>3 DEF MemoriasEnteras
  <1>6. ASSUME NEW j \in Proceso, NEW k \in Espacio, espacio'[j][k] # Cero,
               NEW x, x = EntradaDe(j, NumeroPagina(k))
        PROVE  /\ x \in presencia => principal'[indiceMarco[x] * TamanioPagina + Offset(k)] = espacio'[j][k]
               /\ x \notin presencia \/ x \notin modificado' => x \in enSwap /\ swap[j][k] = espacio'[j][k]
    <2>0. /\ NumeroPagina(k) \in Pagina /\ Offset(k) \in 0..(TamanioPagina - 1)
          /\ k = NumeroPagina(k) * TamanioPagina + Offset(k) /\ NumeroPagina(k) * TamanioPagina \in Nat
          /\ d = n * TamanioPagina + Offset(d) /\ n * TamanioPagina \in Nat
      BY <1>1, PaginaDelByte
    <2>1. espacio[j][k] # Cero =>
            /\ x \in presencia => principal[indiceMarco[x] * TamanioPagina + Offset(k)] = espacio[j][k]
            /\ x \notin presencia \/ x \notin modificado => x \in enSwap /\ swap[j][k] = espacio[j][k]
      BY <1>6 DEF BytesInv, CadaByteEnSuLugar, CopiasAlDia, Fisica
    <2>2. x = e <=> j = i /\ NumeroPagina(k) = n
      <3>1. EntradaDe(j, NumeroPagina(k)) = EntradaDe(i, n) => j = i /\ NumeroPagina(k) = n
        BY <1>1, <2>0, EntradasDistintas
      <3> QED
        BY <1>6, <3>1
    <2>3. espacio'[j][k] = IF j = i /\ k \in Palabra(d) THEN <<v, k - d>> ELSE espacio[j][k]
      BY <1>2, <1>3 DEF MemoriasEnteras
    <2>4. CASE x = e
      <3> DEFINE b == m * TamanioPagina + Offset(k)
      <3>1. b \in DOMAIN principal
        BY <1>3, <2>0, ByteDeMarco
      <3>2. (b \in Palabra(f) <=> k \in Palabra(d)) /\ b - f = k - d
        <4>1. j = i /\ NumeroPagina(k) = n
          BY <2>2, <2>4
        <4> DEFINE u == n * TamanioPagina
                   w == m * TamanioPagina
                   o == Offset(d)
                   q == Offset(k)
        <4>2. u \in Nat /\ w \in Nat /\ o \in Int /\ q \in Int /\ k = u + q /\ d = u + o /\ f = w + o /\ b = w + q
          BY <1>1, <1>3, <2>0, <4>1
        <4> HIDE DEF u, w, o, q, b, f, n, m, W
        <4> QED
          BY <1>1, <4>2 DEF Palabra, W
      <3>3. principal'[b] = IF k \in Palabra(d) THEN <<v, k - d>> ELSE principal[b]
        BY <1>2, <3>1, <3>2
      <3>4. x \in presencia /\ x \in modificado' /\ j = i
        BY <1>2, <1>4, <2>2, <2>4
      <3>5. CASE k \in Palabra(d)
        BY <2>3, <2>4, <3>3, <3>4, <3>5
      <3>6. CASE k \notin Palabra(d)
        BY <1>6, <2>1, <2>3, <2>4, <3>3, <3>4, <3>6
      <3> QED
        BY <3>5, <3>6
    <2>5. CASE x # e
      <3>1. ~(j = i /\ k \in Palabra(d))
        <4> SUFFICES ASSUME j = i, k \in Palabra(d) PROVE FALSE
          OBVIOUS
        <4>1. NumeroPagina(k) # n
          BY <2>2, <2>5
        <4> DEFINE T == TamanioPagina
                   s == NumeroPagina(k)
        <4>2. s \in Nat /\ n \in Nat /\ T \in Nat
          BY <1>1, <2>0, CuantasPaginas, TamaniosAssumption DEF Pagina
        <4>3. k \in d..(d + W - 1)
          BY DEF Palabra
        <4> DEFINE u == s * T
                   w == n * T
                   o == Offset(d)
                   q == Offset(k)
        <4>4. /\ u \in Nat /\ w \in Nat /\ o \in Int /\ q \in Int /\ k = u + q /\ d = w + o
              /\ 0 <= o /\ 0 <= q /\ q < T /\ o + W <= T
          BY <1>1, <2>0, <4>2
        <4>5. s < n => u + T <= w
          BY <4>2, Producto
        <4>6. n < s => w + T <= u
          BY <4>2, Producto
        <4>7. s # n
          BY <4>1
        <4> HIDE DEF u, w, o, q, s, n, T, W
        <4>8. d <= k /\ k <= d + W - 1 /\ W \in Int
          BY <1>1, <4>3, <4>4 DEF W
        <4> QED
          BY <4>2, <4>4, <4>5, <4>6, <4>7, <4>8
      <3>2. espacio'[j][k] = espacio[j][k] /\ espacio[j][k] # Cero
        BY <1>6, <2>3, <3>1
      <3>3. x \in modificado' <=> x \in modificado
        BY <1>4, <2>5
      <3>4. ASSUME x \in presencia
            PROVE  principal'[indiceMarco[x] * TamanioPagina + Offset(k)] = espacio'[j][k]
        <4> DEFINE b == indiceMarco[x] * TamanioPagina + Offset(k)
        <4>1. indiceMarco[x] \in MarcosDe(j) /\ EntradaDeMarco(indiceMarco[x]) = x
          BY <1>6, <2>0, <3>4 DEF IInv, MarcosPropios
        <4>2. EntradaDeMarco(m) = e
          BY <1>1, <1>2 DEF IInv, MarcosPropios
        <4>3. indiceMarco[x] \in Marco /\ indiceMarco[x] # m
          BY <2>5, <4>1, <4>2, MarcosExisten
        <4>4. b \in DOMAIN principal /\ b \notin EnMemoria(m)
          BY <1>3, <2>0, <4>3, ByteDeMarco
        <4>5. Palabra(f) \subseteq EnMemoria(m)
          <5> DEFINE w == m * TamanioPagina
                     o == Offset(d)
          <5>1. w \in Nat /\ o \in Int /\ 0 <= o /\ o + W <= TamanioPagina /\ f = w + o /\ W \in Int
            BY <1>1, <1>3
          <5>2. EnMemoria(m) = w..(w + TamanioPagina - 1)
            BY DEF EnMemoria
          <5>3. Palabra(f) = (w + o)..(w + o + W - 1) /\ TamanioPagina \in Int
            BY <5>1, TamaniosAssumption DEF Palabra
          <5> HIDE DEF w, o, f, m, W
          <5> QED
            BY <5>1, <5>2, <5>3
        <4>6. principal'[b] = principal[b]
          BY <1>2, <4>4, <4>5
        <4> QED
          BY <2>1, <3>2, <3>4, <4>6
      <3> QED
        BY <2>1, <3>2, <3>3, <3>4
    <2> QED
      BY <2>4, <2>5
  <1>7. CadaByteEnSuLugar'
    <2> SUFFICES ASSUME NEW j \in Proceso, NEW k \in Espacio, espacio'[j][k] # Cero
                 PROVE  IF EntradaDe(j, NumeroPagina(k)) \in presencia'
                        THEN principal'[Fisica(j, k)'] = espacio'[j][k]
                        ELSE swap'[j][k] = espacio'[j][k]
      BY DEF CadaByteEnSuLugar
    <2> QED
      BY <1>2, <1>6 DEF Fisica
  <1>8. CopiasAlDia'
    BY <1>2, <1>6 DEF CopiasAlDia
  <1> QED
    BY <1>5, <1>7, <1>8 DEF BytesInv

\* Frames and entries name each other, and no byte is lost, whatever the sizes and the victims.
THEOREM TablasYMarcos == Spec => [](IInv /\ BytesInv)
  <1>1. Init => IInv /\ BytesInv
    <2>1. Init => BytesInv
      BY DEF Init, BytesInv, MemoriasEnteras, CadaByteEnSuLugar, CopiasAlDia
    <2> QED
      BY <2>1, Inicio
  <1>2. IInv /\ BytesInv /\ [Next]_vars => (IInv /\ BytesInv)'
    <2> SUFFICES ASSUME IInv, BytesInv, [Next]_vars PROVE IInv' /\ BytesInv'
      OBVIOUS
    <2>1. ASSUME NEW i \in Proceso, NEW d \in Direccion, Traer(i, NumeroPagina(d)) PROVE IInv' /\ BytesInv'
      BY <2>1, PasoTraer, PasoTraerBytes, PaginaDeDireccion
    <2>2. ASSUME NEW i \in Proceso, NEW d \in Direccion, NEW v \in Valor, Escribir(i, d, v) PROVE IInv' /\ BytesInv'
      BY <2>2, PasoEscribir, PasoEscribirBytes
    <2>3. CASE UNCHANGED vars
      <3>1. IInv'
        BY <2>3 DEF vars, varsTablas, IInv, TypeOK, MarcosPropios, EntradaDeMarco, ModificadoEsEscrita
      <3>2. BytesInv'
        BY <2>3 DEF vars, varsTablas, BytesInv, MemoriasEnteras, CadaByteEnSuLugar, CopiasAlDia, Fisica
      <3> QED
        BY <3>1, <3>2
    <2>4. QED
      BY <2>1, <2>2, <2>3 DEF Next
  <1>3. QED
    BY <1>1, <1>2, PTL DEF Spec

\* MarcosPropios: a process only has its own frames, each with the page its entry says.
THEOREM SoloMarcosPropios == Spec => []MarcosPropios
  BY TablasYMarcos, PTL DEF IInv

\* ModificadoEsEscrita: the page Memory finds for an address is the one the CPU means.
THEOREM BitDeLaPaginaEscrita == Spec => []ModificadoEsEscrita
  BY TablasYMarcos, PTL DEF IInv

\* CadaByteEnSuLugar: a byte that was written is where its address leads, in memory or in the file.
THEOREM NingunByteSePierde == Spec => []CadaByteEnSuLugar
  BY TablasYMarcos, PTL DEF BytesInv

-----------------------------------------------------------------------------
(* Minima.                                                                 *)

\* A set of integers that is not empty and has a lower bound has a minimum, which Min
\* chooses: of the intervals from the bound to each member, one is inside all the others.
LEMMA Minimo ==
  ASSUME NEW b \in Int, NEW T \in SUBSET Int, T # {}, \A y \in T : b <= y
  PROVE  Min(T) \in T /\ \A y \in T : Min(T) <= y
<1>1. PICK x0 \in T : TRUE
  OBVIOUS
<1> DEFINE S == b..x0
           Bajos == {t \in T : t <= x0}
           F == {b..t : t \in Bajos}
           R == StrictSubsetOrdering(S)
<1>2. IsWellFoundedOn(R, SUBSET S)
  <2>1. IsFiniteSet(S)
    BY <1>1, FS_Interval
  <2> HIDE DEF S
  <2> QED BY <2>1, FS_FiniteSubsetsOfFinite, FS_StrictSubsetOrderingWellFounded
<1>3. F \subseteq SUBSET S /\ F # {}
  <2>1. x0 \in Bajos
    BY <1>1
  <2>2. \A t \in Bajos : b..t \subseteq S
    BY <1>1
  <2> QED BY <2>1, <2>2
<1>4. PICK I \in F : \A J \in F : <<J, I>> \notin R
  <2> HIDE DEF F, R, S
  <2> QED BY <1>2, <1>3, WFMin
<1>5. PICK x \in Bajos : I = b..x
  BY <1>4
<1>6. \A y \in T : x <= y
  <2> SUFFICES ASSUME NEW y \in T, y < x PROVE FALSE
    BY <1>1, <1>5
  <2>1. y \in Bajos /\ b..y \in F
    BY <1>1, <1>5
  <2>2. b..y \subseteq I /\ b..y # I
    <3>1. x \in I /\ x \notin b..y
      BY <1>5
    <3> QED BY <3>1, <1>5
  <2>3. b..y \in SUBSET S /\ I \in SUBSET S
    BY <1>3, <1>4, <2>1
  <2>4. <<b..y, I>> \in R
    BY <2>2, <2>3 DEF StrictSubsetOrdering
  <2> QED BY <1>4, <2>1, <2>4
<1>7. x \in T
  BY <1>5
<1> HIDE DEF Bajos
<1>8. \E m \in T : \A y \in T : m <= y
  BY <1>6, <1>7
<1> QED BY <1>8 DEF Min

-----------------------------------------------------------------------------
(* The entries of the TLB.                                                 *)

\* Indices are naturals, so a set of them has its minimum too.
LEMMA MinimoDeIndices ==
  ASSUME NEW T \in SUBSET Indices, T # {}
  PROVE  Min(T) \in T
<1>1. 0 \in Int /\ T \in SUBSET Int /\ \A i \in T : 0 <= i
  BY EntradasAssumption DEF Indices
<1> QED BY <1>1, Minimo

EntradasLibres == {i \in Indices : EsLibre(i)}

\* The inductive invariant: between a miss and its registration there was a dispatch, so the
\* counter holds, and the clock has an instant left.
TlbIInv ==
  /\ TlbTypeOK
  /\ LibresAlDia
  /\ faltante # Ninguna => despachado /\ ultimoInstanteDeTiempo < MaxInstante

\* The counter is that of a finite set.
LEMMA LibresFinito == IsFiniteSet(EntradasLibres) /\ EntradasLibres \subseteq Indices
<1>1. IsFiniteSet(Indices)
  BY EntradasAssumption, FS_Interval DEF Indices
<1> QED BY <1>1, FS_Subset DEF EntradasLibres

\* With the counter above zero there is a free entry to find.
LEMMA HayPrimerLibre ==
  ASSUME EntradasLibres # {}
  PROVE  PrimerLibre \in EntradasLibres
<1>1. Min(EntradasLibres) \in EntradasLibres
  BY LibresFinito, MinimoDeIndices
<1> QED BY <1>1 DEF PrimerLibre, EntradasLibres

\* Some entry has the lowest stamp.
LEMMA HayMenorInstante ==
  ASSUME TlbTypeOK
  PROVE  /\ MenorInstante \in Indices
         /\ \A j \in Indices :
              entradas[MenorInstante].instanteDeTiempo <= entradas[j].instanteDeTiempo
<1> DEFINE Instantes == {entradas[i].instanteDeTiempo : i \in Indices}
           Menores == {i \in Indices : \A j \in Indices :
                         entradas[i].instanteDeTiempo <= entradas[j].instanteDeTiempo}
<1>1. Instantes \in SUBSET Int /\ \A t \in Instantes : -1 <= t
  BY EntradasAssumption DEF TlbTypeOK, EntradaTlb
<1>2. 0 \in Indices
  BY EntradasAssumption DEF Indices
<1>3. Instantes # {}
  BY <1>2
<1>4. Min(Instantes) \in Instantes /\ \A t \in Instantes : Min(Instantes) <= t
  <2> HIDE DEF Instantes
  <2> QED BY <1>1, <1>3, Minimo
<1>5. PICK i \in Indices : entradas[i].instanteDeTiempo = Min(Instantes)
  BY <1>4
<1>6. i \in Menores
  BY <1>4, <1>5
<1>7. Min(Menores) \in Menores
  <2>1. Menores \in SUBSET Indices
    OBVIOUS
  <2> HIDE DEF Menores
  <2> QED BY <1>6, <2>1, MinimoDeIndices
<1> QED BY <1>7 DEF MenorInstante

\* Before the first dispatch the counter owes nothing to the array.
LEMMA TlbInicio == TlbInit => TlbIInv
<1> SUFFICES ASSUME TlbInit PROVE TlbIInv
  OBVIOUS
<1>1. 0 \in 0..MaxInstante /\ 0 \in -1..MaxInstante /\ ENTRADAS_TLB \in 0..ENTRADAS_TLB
  BY EntradasAssumption
<1>2. TlbTypeOK
  BY <1>1 DEF TlbInit, TlbTypeOK, EntradaTlb
<1> QED BY <1>2 DEF TlbInit, TlbIInv, LibresAlDia

\* After a flush every entry is free.
LEMMA PasoFlush ==
  ASSUME TlbIInv, Flush
  PROVE  TlbIInv'
<1>1. TlbTypeOK'
  BY EntradasAssumption DEF TlbIInv, TlbTypeOK, Flush, EntradaTlb
<1>2. EntradasLibres' = Indices
  BY DEF EntradasLibres, EsLibre, Flush
<1>3. Cardinality(Indices) = ENTRADAS_TLB
  BY EntradasAssumption, FS_Interval DEF Indices
<1>4. LibresAlDia'
  BY <1>2, <1>3 DEF LibresAlDia, EntradasLibres, Flush
<1> QED BY <1>1, <1>4 DEF TlbIInv, Flush

\* A hit moves a stamp, and no entry becomes free or occupied.
LEMMA PasoAcertar ==
  ASSUME TlbIInv, NEW p \in Paginas, Acertar(p)
  PROVE  TlbIInv'
<1>1. CASE algoritmoReemplazo = "LRU"
  <2> DEFINE e == {i \in Indices : entradas[i].numeroPagina = p}
             k == Min(e)
  <2>1. e # {} /\ e \in SUBSET Indices
    BY DEF Acertar
  <2>2. k \in e
    <3> HIDE DEF e
    <3> QED BY <2>1, MinimoDeIndices
  <2>3. /\ ultimoInstanteDeTiempo < MaxInstante
        /\ entradas' = [entradas EXCEPT ![k].instanteDeTiempo = ultimoInstanteDeTiempo]
        /\ ultimoInstanteDeTiempo' = ultimoInstanteDeTiempo + 1
        /\ UNCHANGED <<cantidadEntradasLibres, algoritmoReemplazo, faltante, despachado>>
        /\ faltante = Ninguna
    BY <1>1 DEF Acertar
  <2>4. k \in Indices
    BY <2>2
  <2> HIDE DEF k
  <2>5. TlbTypeOK'
    <3>1. entradas'[k] \in EntradaTlb
      BY <2>3, <2>4, EntradasAssumption DEF TlbIInv, TlbTypeOK, EntradaTlb
    <3> QED BY <2>3, <2>4, <3>1, EntradasAssumption DEF TlbIInv, TlbTypeOK
  <2>6. EntradasLibres' = EntradasLibres
    BY <2>3, <2>4 DEF TlbIInv, TlbTypeOK, EntradaTlb, EntradasLibres, EsLibre
  <2> QED BY <2>3, <2>5, <2>6 DEF TlbIInv, LibresAlDia, EntradasLibres
<1>2. CASE algoritmoReemplazo # "LRU"
  <2>1. UNCHANGED tlbVars
    BY <1>2 DEF Acertar, tlbVars
  <2> QED BY <2>1 DEF TlbIInv, TlbTypeOK, LibresAlDia, EsLibre, tlbVars
<1> QED BY <1>1, <1>2

\* A miss changes no entry.
LEMMA PasoFallar ==
  ASSUME TlbIInv, NEW p \in Paginas, Fallar(p)
  PROVE  TlbIInv'
BY DEF TlbIInv, TlbTypeOK, LibresAlDia, EsLibre, Fallar

\* A registration takes the first free entry, or the one with the lowest stamp if there is none.
LEMMA PasoRegistrar ==
  ASSUME TlbIInv, NEW f \in Marcos, Registrar(f)
  PROVE  TlbIInv'
<1> DEFINE hayLibre == cantidadEntradasLibres > 0
           k == IF hayLibre THEN PrimerLibre ELSE MenorInstante
<1>1. cantidadEntradasLibres = Cardinality(EntradasLibres) /\ despachado
  BY DEF TlbIInv, LibresAlDia, Registrar, EntradasLibres
<1>2. hayLibre <=> EntradasLibres # {}
  <2>1. Cardinality(EntradasLibres) = 0 <=> EntradasLibres = {}
    BY LibresFinito, FS_EmptySet
  <2> QED BY <1>1, <2>1 DEF TlbIInv, TlbTypeOK
<1>3. k \in Indices /\ (hayLibre => k \in EntradasLibres)
  BY <1>2, HayPrimerLibre, HayMenorInstante, LibresFinito DEF TlbIInv
<1>4. /\ faltante \in Paginas
      /\ ultimoInstanteDeTiempo < MaxInstante
      /\ entradas' = [entradas EXCEPT ![k] =
                        [numeroPagina |-> faltante, marco |-> f,
                         instanteDeTiempo |-> ultimoInstanteDeTiempo]]
      /\ cantidadEntradasLibres' = RestarSiHay
      /\ ultimoInstanteDeTiempo' = ultimoInstanteDeTiempo + 1
      /\ faltante' = Ninguna
      /\ UNCHANGED <<algoritmoReemplazo, despachado>>
  BY DEF TlbIInv, TlbTypeOK, Registrar
<1> HIDE DEF k
<1>5. TlbTypeOK'
  <2>1. entradas'[k] \in EntradaTlb
    BY <1>3, <1>4, EntradasAssumption DEF TlbIInv, TlbTypeOK, EntradaTlb
  <2>2. cantidadEntradasLibres' \in 0..ENTRADAS_TLB
    BY <1>4, EntradasAssumption DEF TlbIInv, TlbTypeOK, RestarSiHay
  <2> QED BY <1>3, <1>4, <2>1, <2>2, EntradasAssumption DEF TlbIInv, TlbTypeOK
<1>6. EntradasLibres' = EntradasLibres \ {k}
  <2>1. faltante # -1
    BY <1>4, PaginasAssumption
  <2> QED BY <1>3, <1>4, <2>1 DEF TlbIInv, TlbTypeOK, EntradasLibres, EsLibre
<1>7. Cardinality(EntradasLibres') = IF k \in EntradasLibres THEN Cardinality(EntradasLibres) - 1 ELSE Cardinality(EntradasLibres)
  BY <1>6, LibresFinito, FS_RemoveElement
<1>8. k \in EntradasLibres <=> hayLibre
  BY <1>2, <1>3
<1>9. cantidadEntradasLibres' = Cardinality(EntradasLibres')
  BY <1>1, <1>4, <1>7, <1>8 DEF RestarSiHay
<1> QED BY <1>4, <1>5, <1>9 DEF TlbIInv, LibresAlDia, EntradasLibres

\* The counter, the array and the clock agree through any sequence of hits, misses,
\* registrations and flushes, for either algorithm.
THEOREM TlbInvariante == TlbSpec => []TlbIInv
<1>1. TlbIInv /\ [TlbNext]_tlbVars => TlbIInv'
  <2> SUFFICES ASSUME TlbIInv, [TlbNext]_tlbVars PROVE TlbIInv'
    OBVIOUS
  <2>1. CASE UNCHANGED tlbVars
    BY <2>1 DEF TlbIInv, TlbTypeOK, LibresAlDia, EsLibre, tlbVars
  <2> QED BY <2>1, PasoFlush, PasoAcertar, PasoFallar, PasoRegistrar DEF TlbNext
<1> QED BY <1>1, TlbInicio, PTL DEF TlbSpec

\* tlb_registrar_entrada_en_tlb never writes at the index of an entry that is not there.
THEOREM ContadorAlDia == TlbSpec => []LibresAlDia
<1>1. TlbIInv => LibresAlDia
  BY DEF TlbIInv
<1> QED BY <1>1, TlbInvariante, PTL

-----------------------------------------------------------------------------
(* The entries of the TLB by their stamps.                                 *)

\* The translation in entry i of e.
DeEntrada(e, i) == [pagina |-> e[i].numeroPagina, marco |-> e[i].marco]
\* s has the entries S of e, each one older than those after it.
EnOrden(s, S, e) ==
  /\ s \in Seq(S)
  /\ \A i \in S : e[i].instanteDeTiempo \in Int
  /\ \A i \in S : \E k \in 1..Len(s) : s[k] = i
  /\ \A j, k \in 1..Len(s) : j < k => e[s[j]].instanteDeTiempo < e[s[k]].instanteDeTiempo
\* The translations of those entries.
Traducciones(s, e) == [k \in 1..Len(s) |-> DeEntrada(e, s[k])]

\* The k-th entry in order is the only one with k - 1 older ones.
LEMMA OrdenUnico ==
  ASSUME NEW S, NEW e, NEW s, EnOrden(s, S, e)
  PROVE  /\ IsFiniteSet(S) /\ Cardinality(S) = Len(s)
         /\ PorInstante(S, e) = Traducciones(s, e)
<1> DEFINE n == Len(s)
           Mas(i) == {j \in S : e[j].instanteDeTiempo < e[i].instanteDeTiempo}
<1>1. n \in Nat /\ s \in [1..n -> S]
  BY DEF EnOrden
<1>2. \A j, k \in 1..n : j # k => s[j] # s[k]
  <2> SUFFICES ASSUME NEW j \in 1..n, NEW k \in 1..n, j < k, s[j] = s[k] PROVE FALSE
    BY <1>1
  <2>1. e[s[j]].instanteDeTiempo < e[s[j]].instanteDeTiempo /\ e[s[j]].instanteDeTiempo \in Int
    BY <1>1 DEF EnOrden
  <2> QED BY <2>1
<1>3. IsFiniteSet(S) /\ Cardinality(S) = n
  <2>1. s \in Bijection(1..n, S)
    BY <1>1, <1>2 DEF EnOrden, Bijection, Injection, IsInjective, Surjection
  <2>2. IsFiniteSet(1..n) /\ Cardinality(1..n) = n
    BY <1>1, FS_Interval
  <2> HIDE DEF n
  <2> QED BY <2>1, <2>2, FS_Bijection DEF ExistsBijection
<1>4. ASSUME NEW k \in 1..n PROVE Cardinality(Mas(s[k])) = k - 1
  <2> DEFINE b == [m \in 1..(k - 1) |-> s[m]]
  <2>1. \A m \in 1..(k - 1) : s[m] \in Mas(s[k])
    BY <1>1 DEF EnOrden
  <2>2. \A i \in Mas(s[k]) : \E m \in 1..(k - 1) : s[m] = i
    <3> SUFFICES ASSUME NEW i \in Mas(s[k]) PROVE \E m \in 1..(k - 1) : s[m] = i
      OBVIOUS
    <3>1. PICK m \in 1..n : s[m] = i
      BY DEF EnOrden
    <3>2. e[s[m]].instanteDeTiempo < e[s[k]].instanteDeTiempo
      BY <3>1
    <3>3. e[s[m]].instanteDeTiempo \in Int /\ e[s[k]].instanteDeTiempo \in Int
      BY <1>1 DEF EnOrden
    <3>4. m # k
      BY <3>2, <3>3
    <3>5. ~(k < m)
      <4> SUFFICES ASSUME k < m PROVE FALSE
        OBVIOUS
      <4>1. e[s[k]].instanteDeTiempo < e[s[m]].instanteDeTiempo
        BY DEF EnOrden
      <4> QED BY <3>2, <3>3, <4>1
    <3> HIDE DEF n
    <3> QED BY <3>1, <3>4, <3>5, <1>1
  <2>3. b \in Bijection(1..(k - 1), Mas(s[k]))
    <3>1. b \in [1..(k - 1) -> Mas(s[k])]
      BY <2>1
    <3> HIDE DEF Mas
    <3>2. \A m \in 1..(k - 1) : m \in 1..n
      BY <1>1
    <3>3. \A x, y \in 1..(k - 1) : b[x] = b[y] => x = y
      <4> HIDE DEF n
      <4> QED BY <3>2, <1>2
    <3>4. \A i \in Mas(s[k]) : \E m \in 1..(k - 1) : b[m] = i
      BY <2>2
    <3> HIDE DEF b
    <3>5. b \in Injection(1..(k - 1), Mas(s[k]))
      BY <3>1, <3>3 DEF Injection, IsInjective
    <3>6. b \in Surjection(1..(k - 1), Mas(s[k]))
      BY <3>1, <3>4 DEF Surjection
    <3> QED BY <3>5, <3>6 DEF Bijection
  <2>4. IsFiniteSet(1..(k - 1)) /\ Cardinality(1..(k - 1)) = k - 1
    <3>1. 1 \in Int /\ k - 1 \in Int /\ k >= 1
      BY <1>1
    <3> HIDE DEF n, b, Mas
    <3> QED BY <3>1, FS_Interval
  <2> HIDE DEF Mas, b
  <2> QED BY <2>3, <2>4, FS_Bijection DEF ExistsBijection
<1>5. ASSUME NEW k \in 1..n PROVE (CHOOSE i \in S : Cardinality(Mas(i)) = k - 1) = s[k]
  <2> HIDE DEF Mas
  <2>1. s[k] \in S /\ Cardinality(Mas(s[k])) = k - 1
    BY <1>1, <1>4
  <2>2. \A i \in S : Cardinality(Mas(i)) = k - 1 => i = s[k]
    <3> SUFFICES ASSUME NEW i \in S, Cardinality(Mas(i)) = k - 1 PROVE i = s[k]
      OBVIOUS
    <3>1. PICK m \in 1..n : s[m] = i
      BY DEF EnOrden
    <3>2. m - 1 = k - 1
      BY <3>1, <1>4
    <3> QED BY <3>1, <3>2, <1>1
  <2> QED BY <2>1, <2>2
<1>6. PorInstante(S, e) = [k \in 1..n |-> DeEntrada(e, CHOOSE i \in S : Cardinality(Mas(i)) = k - 1)]
  BY <1>3 DEF PorInstante, DeEntrada
<1>7. PorInstante(S, e) = [k \in 1..n |-> DeEntrada(e, s[k])]
  <2> HIDE DEF Mas
  <2> QED BY <1>5, <1>6
<1> QED BY <1>3, <1>7 DEF Traducciones

\* Entries with different stamps have an order: the place of each is the number of older ones.
LEMMA HayOrden ==
  ASSUME NEW S, NEW e, IsFiniteSet(S),
         \A i \in S : e[i].instanteDeTiempo \in Int,
         \A i, j \in S : i # j => e[i].instanteDeTiempo # e[j].instanteDeTiempo
  PROVE  \E s : EnOrden(s, S, e)
<1> DEFINE n == Cardinality(S)
           Mas(i) == {j \in S : e[j].instanteDeTiempo < e[i].instanteDeTiempo}
           f == [i \in S |-> Cardinality(Mas(i)) + 1]
<1>1. n \in Nat
  BY FS_CardinalityType
<1>2. \A i \in S : Mas(i) \in SUBSET S /\ i \notin Mas(i)
  OBVIOUS
<1>3. \A i \in S : IsFiniteSet(Mas(i)) /\ Cardinality(Mas(i)) \in 0..(n - 1)
  <2> SUFFICES ASSUME NEW i \in S PROVE IsFiniteSet(Mas(i)) /\ Cardinality(Mas(i)) \in 0..(n - 1)
    OBVIOUS
  <2> HIDE DEF Mas
  <2>1. IsFiniteSet(Mas(i)) /\ Cardinality(Mas(i)) <= n /\ (n = Cardinality(Mas(i)) => S = Mas(i))
    BY <1>2, FS_Subset
  <2>2. Cardinality(Mas(i)) \in Nat
    BY <2>1, FS_CardinalityType
  <2> QED BY <1>1, <1>2, <2>1, <2>2
<1>4. \A i, j \in S : e[i].instanteDeTiempo < e[j].instanteDeTiempo =>
                         Cardinality(Mas(i)) < Cardinality(Mas(j))
  <2> SUFFICES ASSUME NEW i \in S, NEW j \in S, e[i].instanteDeTiempo < e[j].instanteDeTiempo
               PROVE  Cardinality(Mas(i)) < Cardinality(Mas(j))
    OBVIOUS
  <2>1. Mas(i) \in SUBSET Mas(j) /\ i \in Mas(j) /\ i \notin Mas(i)
    OBVIOUS
  <2> HIDE DEF Mas
  <2>2. Cardinality(Mas(i)) <= Cardinality(Mas(j))
        /\ (Cardinality(Mas(j)) = Cardinality(Mas(i)) => Mas(j) = Mas(i))
    BY <1>3, <2>1, FS_Subset
  <2> QED BY <2>1, <2>2, <1>3, <1>1
<1>5. f \in Injection(S, 1..n)
  <2> HIDE DEF Mas
  <2>1. f \in [S -> 1..n]
    BY <1>1, <1>3
  <2>2. \A i, j \in S : i # j => f[i] # f[j]
    BY <1>1, <1>3, <1>4
  <2> HIDE DEF f
  <2> QED BY <2>1, <2>2 DEF Injection, IsInjective
<1>6. f \in Surjection(S, 1..n)
  <2>1. IsFiniteSet(1..n) /\ Cardinality(1..n) = n
    BY <1>1, FS_Interval
  <2> HIDE DEF f
  <2> QED BY <1>5, <2>1, FS_Injection
<1> DEFINE s == [k \in 1..n |-> CHOOSE i \in S : f[i] = k]
<1>7. \A k \in 1..n : s[k] \in S /\ f[s[k]] = k
  <2> HIDE DEF f
  <2> QED BY <1>6 DEF Surjection
<1>8. s \in Seq(S) /\ Len(s) = n
  <2>1. s \in [1..n -> S]
    <3> HIDE DEF f
    <3> QED BY <1>7
  <2> HIDE DEF s
  <2> QED BY <1>1, <2>1
<1>9. \A i \in S : f[i] \in 1..n /\ s[f[i]] = i
  <2> HIDE DEF f
  <2>1. \A i \in S : f[i] \in 1..n
    BY <1>5 DEF Injection
  <2>2. \A i \in S : f[s[f[i]]] = f[i] /\ s[f[i]] \in S
    BY <1>7, <2>1
  <2> HIDE DEF s
  <2> QED BY <1>5, <2>1, <2>2 DEF Injection, IsInjective
<1>10. \A j, k \in 1..n : j < k => e[s[j]].instanteDeTiempo < e[s[k]].instanteDeTiempo
  <2> SUFFICES ASSUME NEW j \in 1..n, NEW k \in 1..n, j < k,
                      ~(e[s[j]].instanteDeTiempo < e[s[k]].instanteDeTiempo)
               PROVE  FALSE
    OBVIOUS
  <2> HIDE DEF s
  <2>1. s[j] \in S /\ s[k] \in S /\ f[s[j]] = j /\ f[s[k]] = k
    BY <1>7
  <2>2. s[j] # s[k]
    <3> HIDE DEF f, n
    <3>1. f[s[j]] # f[s[k]]
      BY <1>1, <2>1
    <3> QED BY <3>1
  <2>3. e[s[k]].instanteDeTiempo < e[s[j]].instanteDeTiempo
    BY <2>1, <2>2
  <2>4. Cardinality(Mas(s[k])) < Cardinality(Mas(s[j]))
    BY <1>4, <2>1, <2>3
  <2> HIDE DEF Mas
  <2>5. f[s[j]] = Cardinality(Mas(s[j])) + 1 /\ f[s[k]] = Cardinality(Mas(s[k])) + 1
    BY <2>1
  <2> QED BY <1>3, <2>1, <2>4, <2>5, <1>1
<1> HIDE DEF s, f, Mas, n
<1>11. EnOrden(s, S, e)
  BY <1>8, <1>9, <1>10 DEF EnOrden
<1> QED BY <1>11

\* r is s without its p-th item.
Sin(r, s, p) ==
  /\ Len(r) = Len(s) - 1
  /\ \A k \in 1..(Len(s) - 1) : r[k] = IF k < p THEN s[k] ELSE s[k + 1]

\* RemoveAt leaves the other items in their order, and Tail is what is left without the first.
LEMMA SinUno ==
  ASSUME NEW S, NEW s \in Seq(S), NEW p \in 1..Len(s)
  PROVE  /\ RemoveAt(s, p) \in Seq(S)
         /\ Sin(RemoveAt(s, p), s, p)
         /\ p = 1 => RemoveAt(s, p) = Tail(s)
<1>1. PICK a : a = SubSeq(s, 1, p - 1)
  OBVIOUS
<1>2. PICK b : b = SubSeq(s, p + 1, Len(s))
  OBVIOUS
<1>3. a \in Seq(S) /\ Len(a) = p - 1 /\ \A k \in 1..(p - 1) : a[k] = s[k]
  BY <1>1
<1>4. b \in Seq(S) /\ Len(b) = Len(s) - p /\ \A k \in 1..(Len(s) - p) : b[k] = s[p + k]
  BY <1>2
<1>5. RemoveAt(s, p) = a \o b
  BY <1>1, <1>2 DEF RemoveAt
<1>7. PICK c : c = a \o b
  OBVIOUS
<1>13. a \in Seq(S) /\ b \in Seq(S)
  BY <1>3, <1>4
<1>9. /\ c \in Seq(S) /\ Len(c) = Len(a) + Len(b)
      /\ \A k \in 1..(Len(a) + Len(b)) : c[k] = IF k <= Len(a) THEN a[k] ELSE b[k - Len(a)]
  BY <1>7, <1>13, ConcatProperties
<1>10. Len(s) \in Nat
  OBVIOUS
<1>11. Len(c) = Len(s) - 1
  BY <1>3, <1>4, <1>9, <1>10
<1>6. \A k \in 1..(Len(s) - 1) : c[k] = IF k < p THEN s[k] ELSE s[k + 1]
  <2> SUFFICES ASSUME NEW k \in 1..(Len(s) - 1)
               PROVE  c[k] = IF k < p THEN s[k] ELSE s[k + 1]
    OBVIOUS
  <2>1. c[k] = IF k <= p - 1 THEN a[k] ELSE b[k - (p - 1)]
    BY <1>3, <1>9, <1>11
  <2>2. CASE k < p
    <3>1. k \in 1..(p - 1)
      BY <2>2, <1>10
    <3> QED BY <2>1, <2>2, <3>1, <1>3
  <2>3. CASE ~(k < p)
    <3>1. PICK m \in 1..(Len(s) - p) : m = k - (p - 1)
      BY <2>3, <1>10
    <3>2. b[m] = s[p + m] /\ p + m = k + 1
      BY <3>1, <1>4, <1>10
    <3> QED BY <2>1, <2>3, <3>1, <3>2
  <2> QED BY <2>2, <2>3
<1>8. ASSUME p = 1 PROVE c = Tail(s)
  <2>1. Tail(s) \in Seq(S) /\ Len(Tail(s)) = Len(s) - 1 /\ \A k \in 1..(Len(s) - 1) : Tail(s)[k] = s[k + 1]
    OBVIOUS
  <2>2. c \in Seq(S) /\ Len(c) = Len(s) - 1 /\ \A k \in 1..(Len(s) - 1) : c[k] = s[k + 1]
    BY <1>6, <1>8, <1>9, <1>11
  <2>3. PICK t : t = Tail(s)
    OBVIOUS
  <2> QED BY <2>1, <2>2, <2>3, SeqEqual
<1>12. Sin(c, s, p)
  BY <1>6, <1>11 DEF Sin
<1> QED BY <1>5, <1>7, <1>8, <1>9, <1>12

\* t has the translations of s, one by one.
SonDe(t, s, e) == Len(t) = Len(s) /\ \A k \in 1..Len(s) : t[k] = DeEntrada(e, s[k])

\* Traducciones is one of each.
LEMMA TraduccionesTipos ==
  ASSUME NEW S, NEW s \in Seq(S), NEW e, NEW T, \A i \in S : DeEntrada(e, i) \in T
  PROVE  Traducciones(s, e) \in Seq(T) /\ SonDe(Traducciones(s, e), s, e)
<1>2. \A k \in 1..Len(s) : DeEntrada(e, s[k]) \in T
  OBVIOUS
<1>3. Len(s) \in Nat
  OBVIOUS
<1> QED BY <1>2, <1>3 DEF Traducciones, SonDe

\* In e1 entry i is stamped after all of S, which are as in e.
MasNueva(i, S, e, e1) ==
  /\ i \notin S
  /\ e1[i].instanteDeTiempo \in Int
  /\ \A j \in S : e1[j] = e[j] /\ e[j].instanteDeTiempo < e1[i].instanteDeTiempo

\* Then it goes after all of them.
Crece(s, S, e, i, e1) ==
  /\ EnOrden(Append(s, i), S \union {i}, e1)
  /\ Traducciones(Append(s, i), e1) = Append(Traducciones(s, e), DeEntrada(e1, i))

\* Who is stamped after all the others is the last.
LEMMA UnaMas ==
  ASSUME NEW S, NEW e, NEW e1, NEW s, EnOrden(s, S, e), NEW i, MasNueva(i, S, e, e1)
  PROVE  Crece(s, S, e, i, e1)
<1>1. PICK R : R = S \union {i}
  OBVIOUS
<1>2. PICK t : t = Append(s, i)
  OBVIOUS
<1>3. s \in Seq(S) /\ s \in Seq(R) /\ i \in R
  BY <1>1 DEF EnOrden
<1> USE DEF MasNueva
<1>4. /\ t \in Seq(R) /\ Len(t) = Len(s) + 1 /\ Len(s) \in Nat
      /\ \A k \in 1..Len(s) : t[k] = s[k] /\ t[k] \in S
      /\ t[Len(s) + 1] = i
  BY <1>2, <1>3
<1>5. \A j \in R : e1[j].instanteDeTiempo \in Int
  BY <1>1 DEF EnOrden
<1>6. \A j \in R : \E k \in 1..Len(t) : t[k] = j
  <2> SUFFICES ASSUME NEW j \in R PROVE \E k \in 1..Len(t) : t[k] = j
    OBVIOUS
  <2>1. CASE j = i
    BY <2>1, <1>4
  <2>2. CASE j # i
    <3>1. j \in S
      BY <2>2, <1>1
    <3>2. PICK k \in 1..Len(s) : s[k] = j
      BY <3>1 DEF EnOrden
    <3> QED BY <3>2, <1>4
  <2> QED BY <2>1, <2>2
<1>7. \A j, k \in 1..Len(t) : j < k => e1[t[j]].instanteDeTiempo < e1[t[k]].instanteDeTiempo
  <2> SUFFICES ASSUME NEW j \in 1..Len(t), NEW k \in 1..Len(t), j < k
               PROVE  e1[t[j]].instanteDeTiempo < e1[t[k]].instanteDeTiempo
    OBVIOUS
  <2>5. Len(t) = Len(s) + 1 /\ Len(s) \in Nat
    BY <1>4
  <2>1. j \in 1..Len(s) /\ (k \in 1..Len(s) \/ k = Len(s) + 1)
    BY <2>5
  <2>2. t[j] = s[j] /\ s[j] \in S /\ e1[t[j]] = e[s[j]]
    BY <2>1, <1>4
  <2>3. CASE k = Len(s) + 1
    BY <2>2, <2>3, <1>4
  <2>4. CASE k \in 1..Len(s)
    <3>1. e1[t[k]] = e[s[k]]
      BY <2>4, <1>4
    <3>2. e[s[j]].instanteDeTiempo < e[s[k]].instanteDeTiempo
      BY <2>1, <2>4 DEF EnOrden
    <3> QED BY <2>2, <3>1, <3>2
  <2> QED BY <2>1, <2>3, <2>4
<1>8. EnOrden(t, R, e1)
  BY <1>4, <1>5, <1>6, <1>7 DEF EnOrden
<1>9. Traducciones(t, e1) = Append(Traducciones(s, e), DeEntrada(e1, i))
  <2>1. PICK u : u = Traducciones(t, e1)
    OBVIOUS
  <2>2. PICK v : v = Traducciones(s, e)
    OBVIOUS
  <2>3. PICK U : U = {DeEntrada(e1, j) : j \in R}
    OBVIOUS
  <2>13. \A j \in R : DeEntrada(e1, j) \in U
    BY <2>3
  <2>4. u \in Seq(U) /\ Len(u) = Len(t) /\ \A k \in 1..Len(t) : u[k] = DeEntrada(e1, t[k])
    BY <2>1, <2>13, <1>4, TraduccionesTipos DEF SonDe
  <2>14. \A j \in S : DeEntrada(e, j) \in U
    BY <2>13, <1>1 DEF DeEntrada
  <2>5. v \in Seq(U) /\ Len(v) = Len(s) /\ \A k \in 1..Len(s) : v[k] = DeEntrada(e, s[k])
    <3>1. s \in Seq(S)
      BY <1>3
    <3> QED BY <2>2, <2>14, <3>1, TraduccionesTipos DEF SonDe
  <2>6. \A k \in 1..Len(s) : v[k] = u[k]
    BY <2>4, <2>5, <1>4 DEF DeEntrada
  <2>7. PICK w : w = DeEntrada(e1, i)
    OBVIOUS
  <2>8. u[Len(s) + 1] = w
    BY <2>4, <2>7, <1>4
  <2>9. v \in Seq(U) /\ w \in U
    <3>1. w \in U
      BY <2>7, <2>13, <1>3
    <3> QED BY <2>5, <3>1
  <2>10. /\ Append(v, w) \in Seq(U) /\ Len(Append(v, w)) = Len(u)
         /\ \A k \in 1..Len(u) : Append(v, w)[k] = u[k]
    BY <2>4, <2>5, <2>6, <2>8, <2>9, <1>4
  <2>11. PICK x : x = Append(v, w)
    OBVIOUS
  <2>12. x = u
    BY <2>4, <2>10, <2>11, SeqEqual
  <2> QED BY <2>1, <2>2, <2>7, <2>11, <2>12
<1> QED BY <1>1, <1>2, <1>8, <1>9 DEF Crece

\* The p-th goes to the end, and its translation too.
PasaAlFinal(s, p, S, e, e1) ==
  /\ EnOrden(Append(RemoveAt(s, p), s[p]), S, e1)
  /\ Traducciones(Append(RemoveAt(s, p), s[p]), e1)
       = Append(RemoveAt(Traducciones(s, e), p), DeEntrada(e1, s[p]))

\* Who is stamped again, after all the others, goes from its place to the end.
LEMMA AlFinal ==
  ASSUME NEW S, NEW e, NEW e1, NEW s, EnOrden(s, S, e), NEW p \in 1..Len(s),
         MasNueva(s[p], S \ {s[p]}, e, e1)
  PROVE  PasaAlFinal(s, p, S, e, e1)
<1>1. PICK i : i = s[p]
  OBVIOUS
<1>2. PICK r : r = RemoveAt(s, p)
  OBVIOUS
<1>3. PICK R : R = S \ {i}
  OBVIOUS
<1>4. s \in Seq(S) /\ Len(s) \in Nat /\ i \in S
  BY <1>1 DEF EnOrden
<1>5. /\ r \in Seq(S) /\ Len(r) = Len(s) - 1
      /\ \A k \in 1..(Len(s) - 1) : r[k] = IF k < p THEN s[k] ELSE s[k + 1]
  BY <1>2, <1>4, SinUno DEF Sin
<1>6. \A j, k \in 1..Len(s) : j # k => s[j] # s[k]
  <2> SUFFICES ASSUME NEW j \in 1..Len(s), NEW k \in 1..Len(s), j < k, s[j] = s[k] PROVE FALSE
    <3>1. Len(s) \in Nat
      BY <1>4
    <3> QED BY <3>1
  <2>1. e[s[j]].instanteDeTiempo < e[s[j]].instanteDeTiempo /\ e[s[j]].instanteDeTiempo \in Int
    <3>1. s[j] \in S
      BY <1>4
    <3> QED BY <3>1 DEF EnOrden
  <2> QED BY <2>1
<1>7. \A k \in 1..Len(r) : r[k] \in R
  <2> SUFFICES ASSUME NEW k \in 1..Len(r) PROVE r[k] # i
    BY <1>3, <1>5
  <2>1. CASE k < p
    BY <2>1, <1>1, <1>4, <1>5, <1>6
  <2>2. CASE ~(k < p)
    <3>1. k + 1 \in 1..Len(s) /\ k + 1 # p /\ r[k] = s[k + 1]
      BY <2>2, <1>4, <1>5
    <3> QED BY <3>1, <1>1, <1>6
  <2> QED BY <2>1, <2>2
<1>8. r \in Seq(R)
  BY <1>5, <1>7
<1>9. \A j \in R : \E k \in 1..Len(r) : r[k] = j
  <2> SUFFICES ASSUME NEW j \in R PROVE \E k \in 1..Len(r) : r[k] = j
    OBVIOUS
  <2>1. PICK k \in 1..Len(s) : s[k] = j
    BY <1>3 DEF EnOrden
  <2>2. k # p
    BY <2>1, <1>1, <1>3
  <2>3. CASE k < p
    BY <2>1, <2>3, <1>4, <1>5
  <2>4. CASE k > p
    <3>1. k - 1 \in 1..Len(r) /\ ~(k - 1 < p) /\ r[k - 1] = s[k - 1 + 1] /\ k - 1 + 1 = k
      BY <2>4, <1>4, <1>5
    <3> QED BY <3>1, <2>1
  <2> QED BY <2>2, <2>3, <2>4, <1>4
<1>10. \A j, k \in 1..Len(r) : j < k => e[r[j]].instanteDeTiempo < e[r[k]].instanteDeTiempo
  <2> SUFFICES ASSUME NEW j \in 1..Len(r), NEW k \in 1..Len(r), j < k
               PROVE  e[r[j]].instanteDeTiempo < e[r[k]].instanteDeTiempo
    OBVIOUS
  <2>1. PICK a \in 1..Len(s) : a = IF j < p THEN j ELSE j + 1
    BY <1>4, <1>5
  <2>2. PICK b \in 1..Len(s) : b = IF k < p THEN k ELSE k + 1
    BY <1>4, <1>5
  <2>3. a < b /\ r[j] = s[a] /\ r[k] = s[b]
    <3>1. a < b
      BY <2>1, <2>2, <1>4
    <3>2. r[j] = s[a]
      BY <2>1, <1>5
    <3>3. r[k] = s[b]
      BY <2>2, <1>5
    <3> QED BY <3>1, <3>2, <3>3
  <2>4. e[s[a]].instanteDeTiempo < e[s[b]].instanteDeTiempo
    BY <2>3 DEF EnOrden
  <2> QED BY <2>3, <2>4
<1>11. EnOrden(r, R, e)
  BY <1>3, <1>8, <1>9, <1>10 DEF EnOrden
<1>12. MasNueva(i, R, e, e1)
  BY <1>1, <1>3
<1>13. R \union {i} = S
  BY <1>3, <1>4
<1>14. /\ EnOrden(Append(r, i), R \union {i}, e1)
       /\ Traducciones(Append(r, i), e1) = Append(Traducciones(r, e), DeEntrada(e1, i))
  <2>1. Crece(r, R, e, i, e1)
    BY <1>11, <1>12, UnaMas
  <2> QED BY <2>1 DEF Crece
<1>15. Traducciones(r, e) = RemoveAt(Traducciones(s, e), p)
  <2>1. PICK u : u = Traducciones(r, e)
    OBVIOUS
  <2>2. PICK v : v = Traducciones(s, e)
    OBVIOUS
  <2>3. PICK U : U = {DeEntrada(e, j) : j \in S}
    OBVIOUS
  <2>13. \A j \in S : DeEntrada(e, j) \in U
    BY <2>3
  <2>4. u \in Seq(U) /\ Len(u) = Len(r) /\ \A k \in 1..Len(r) : u[k] = DeEntrada(e, r[k])
    BY <2>1, <2>13, <1>5, TraduccionesTipos DEF SonDe
  <2>5. v \in Seq(U) /\ Len(v) = Len(s) /\ \A k \in 1..Len(s) : v[k] = DeEntrada(e, s[k])
    BY <2>2, <2>13, <1>4, TraduccionesTipos DEF SonDe
  <2>6. p \in 1..Len(v)
    BY <2>5
  <2>7. PICK w : w = RemoveAt(v, p)
    OBVIOUS
  <2>8. /\ w \in Seq(U) /\ Len(w) = Len(v) - 1
        /\ \A k \in 1..(Len(v) - 1) : w[k] = IF k < p THEN v[k] ELSE v[k + 1]
    BY <2>5, <2>6, <2>7, SinUno DEF Sin
  <2>9. \A k \in 1..Len(u) : w[k] = u[k]
    <3> SUFFICES ASSUME NEW k \in 1..Len(u) PROVE w[k] = u[k]
      OBVIOUS
    <3>1. k \in 1..(Len(s) - 1) /\ k \in 1..Len(s) /\ k + 1 \in 1..Len(s)
      BY <2>4, <1>4, <1>5
    <3>2. u[k] = DeEntrada(e, IF k < p THEN s[k] ELSE s[k + 1])
      BY <3>1, <2>4, <1>5
    <3>3. w[k] = IF k < p THEN v[k] ELSE v[k + 1]
      BY <3>1, <2>5, <2>8
    <3> QED BY <3>1, <3>2, <3>3, <2>5
  <2>10. w = u
    BY <2>4, <2>5, <2>8, <2>9, <1>5, SeqEqual
  <2> QED BY <2>1, <2>2, <2>7, <2>10
<1> QED BY <1>1, <1>2, <1>13, <1>14, <1>15 DEF PasaAlFinal

-----------------------------------------------------------------------------
(* The TLB implements ColaDeTraducciones.                                  *)

\* The inductive invariant.
ColaInv == TlbIInv /\ Vigentes

\* An occupied entry has a page and a frame, and a free one has none.
LEMMA OcupadasFinitas ==
  /\ IsFiniteSet(Ocupadas) /\ Ocupadas \subseteq Indices
  /\ despachado => EntradasLibres = Indices \ Ocupadas
<1>1. IsFiniteSet(Indices) /\ Ocupadas \subseteq Indices
  BY EntradasAssumption, FS_Interval DEF Indices, Ocupadas
<1> QED BY <1>1, FS_Subset DEF Ocupadas, EntradasLibres

\* The entries in order and their translations, which are what the queue has.
LEMMA OrdenDeAhora ==
  ASSUME ColaInv
  PROVE  \E s : /\ EnOrden(s, Ocupadas, entradas)
                /\ Len(s) = Cardinality(Ocupadas)
                /\ OrdenDeReemplazo = Traducciones(s, entradas)
<1>1. PICK S : S = Ocupadas
  OBVIOUS
<1>2. PICK e : e = entradas
  OBVIOUS
<1>3. \A i \in S : e[i].instanteDeTiempo \in Int
  BY <1>1, <1>2 DEF ColaInv, Vigentes
<1>4. \A i, j \in S : i # j => e[i].instanteDeTiempo # e[j].instanteDeTiempo
  BY <1>1, <1>2 DEF ColaInv, Vigentes
<1>5. IsFiniteSet(S)
  BY <1>1, OcupadasFinitas
<1>6. PICK s : EnOrden(s, S, e)
  BY <1>3, <1>4, <1>5, HayOrden
<1>7. Cardinality(S) = Len(s) /\ PorInstante(S, e) = Traducciones(s, e)
  BY <1>6, OrdenUnico
<1> QED BY <1>1, <1>2, <1>6, <1>7 DEF OrdenDeReemplazo

\* The place of a page in the queue is that of the entry that has it, and there is no other.
LEMMA SuLugar ==
  ASSUME NEW S, NEW e, NEW s, EnOrden(s, S, e), NEW q \in 1..Len(s),
         \A i, j \in S : i # j => e[i].numeroPagina # e[j].numeroPagina
  PROVE  Cola!De(Traducciones(s, e), e[s[q]].numeroPagina) = {q}
<1>1. s \in Seq(S) /\ Len(s) \in Nat
  BY DEF EnOrden
<1>2. \A k \in 1..Len(s) : s[k] \in S
  BY <1>1
<1>3. \A j, k \in 1..Len(s) : j # k => s[j] # s[k]
  <2> SUFFICES ASSUME NEW j \in 1..Len(s), NEW k \in 1..Len(s), j < k, s[j] = s[k] PROVE FALSE
    <3>1. Len(s) \in Nat
      BY <1>1
    <3> QED BY <3>1
  <2>1. e[s[j]].instanteDeTiempo < e[s[j]].instanteDeTiempo /\ e[s[j]].instanteDeTiempo \in Int
    BY <1>2 DEF EnOrden
  <2> QED BY <2>1
<1>4. PICK c : c = Traducciones(s, e)
  OBVIOUS
<1>5. Len(c) = Len(s) /\ \A k \in 1..Len(s) : c[k].pagina = e[s[k]].numeroPagina
  BY <1>1, <1>4 DEF Traducciones, DeEntrada
<1>6. \A k \in 1..Len(c) : c[k].pagina = e[s[q]].numeroPagina <=> k = q
  BY <1>2, <1>3, <1>5
<1> QED BY <1>4, <1>5, <1>6 DEF Cola!De

\* At first the queue is empty: nothing was dispatched.
LEMMA InicioCola == TlbInit => Vigentes /\ Cola!Init
<1> SUFFICES ASSUME TlbInit PROVE Vigentes /\ Cola!Init
  OBVIOUS
<1>1. Ocupadas = {}
  BY DEF TlbInit, Ocupadas
<1>2. OrdenDeReemplazo = << >>
  <2>1. PICK e : e = entradas
    OBVIOUS
  <2>2. PorInstante({}, e) = << >>
    BY FS_EmptySet DEF PorInstante
  <2> QED BY <1>1, <2>1, <2>2 DEF OrdenDeReemplazo
<1> QED BY <1>1, <1>2 DEF TlbInit, Vigentes, Cola!Init

\* A flush empties the queue.
LEMMA FlushCola ==
  ASSUME ColaInv, Flush
  PROVE  Vigentes' /\ [Cola!Next]_<<OrdenDeReemplazo, algoritmoReemplazo>>
<1>1. Ocupadas' = {}
  BY DEF Flush, Ocupadas, EsLibre
<1>2. OrdenDeReemplazo' = << >>
  <2>1. PICK e : e = entradas'
    OBVIOUS
  <2>2. PorInstante({}, e) = << >>
    BY FS_EmptySet DEF PorInstante
  <2> QED BY <1>1, <2>1, <2>2 DEF OrdenDeReemplazo
<1>3. Vigentes'
  BY <1>1 DEF Vigentes, Flush
<1> QED BY <1>2, <1>3 DEF Flush, Cola!Next, Cola!Flush

\* A miss leaves the queue as it was, and the page that is asked for is in no entry.
LEMMA FallarCola ==
  ASSUME ColaInv, NEW p \in Paginas, Fallar(p)
  PROVE  Vigentes' /\ [Cola!Next]_<<OrdenDeReemplazo, algoritmoReemplazo>>
<1>1. UNCHANGED <<entradas, ultimoInstanteDeTiempo, algoritmoReemplazo, despachado>> /\ faltante' = p
  BY DEF Fallar
<1>2. Ocupadas' = Ocupadas /\ OrdenDeReemplazo' = OrdenDeReemplazo
  BY <1>1 DEF Ocupadas, EsLibre, OrdenDeReemplazo
<1>3. \A i \in Ocupadas : entradas[i].numeroPagina # p
  BY DEF Fallar, Ocupadas
<1>4. Vigentes'
  BY <1>1, <1>2, <1>3 DEF ColaInv, Vigentes
<1> QED BY <1>1, <1>2, <1>4

\* A hit moves its page to the end for LRU, and is not noticed for FIFO.
LEMMA AcertarCola ==
  ASSUME ColaInv, NEW p \in Paginas, Acertar(p)
  PROVE  Vigentes' /\ [Cola!Next]_<<OrdenDeReemplazo, algoritmoReemplazo>>
<1>1. CASE algoritmoReemplazo # "LRU"
  <2>1. UNCHANGED tlbVars
    BY <1>1 DEF Acertar, tlbVars
  <2>2. UNCHANGED <<Ocupadas, OrdenDeReemplazo, algoritmoReemplazo>>
    BY <2>1 DEF tlbVars, Ocupadas, EsLibre, OrdenDeReemplazo
  <2>3. Vigentes'
    BY <2>1, <2>2 DEF ColaInv, Vigentes, tlbVars
  <2> QED BY <2>2, <2>3
<1>2. CASE algoritmoReemplazo = "LRU"
  <2> DEFINE con == {i \in Indices : entradas[i].numeroPagina = p}
  <2>1. con # {} /\ con \in SUBSET Indices
    BY DEF Acertar
  <2>2. PICK k : k = Min(con)
    OBVIOUS
  <2>3. k \in Indices /\ entradas[k].numeroPagina = p
    <3>1. k \in con
      <4> HIDE DEF con
      <4> QED BY <2>1, <2>2, MinimoDeIndices
    <3> QED BY <3>1
  <2>4. /\ entradas' = [entradas EXCEPT ![k].instanteDeTiempo = ultimoInstanteDeTiempo]
        /\ ultimoInstanteDeTiempo' = ultimoInstanteDeTiempo + 1
        /\ UNCHANGED <<algoritmoReemplazo, faltante, despachado>>
        /\ faltante = Ninguna /\ despachado
    BY <1>2, <2>2 DEF Acertar
  <2>5. ultimoInstanteDeTiempo \in Nat /\ entradas \in [Indices -> EntradaTlb]
    BY DEF ColaInv, TlbIInv, TlbTypeOK
  <2>6. PICK S : S = Ocupadas
    OBVIOUS
  <2>7. PICK e : e = entradas
    OBVIOUS
  <2>8. PICK e1 : e1 = entradas'
    OBVIOUS
  <2>9. /\ e1[k] = [numeroPagina |-> p, marco |-> e[k].marco, instanteDeTiempo |-> ultimoInstanteDeTiempo]
        /\ \A i \in Indices \ {k} : e1[i] = e[i]
    BY <2>3, <2>4, <2>5, <2>7, <2>8 DEF EntradaTlb
  <2>10. S \subseteq Indices /\ k \in S
    <3>1. p # -1
      BY PaginasAssumption
    <3> QED BY <2>3, <2>4, <2>6, <3>1 DEF Ocupadas, EsLibre
  <2>11. Ocupadas' = S
    <3>1. \A i \in Indices : EsLibre(i)' <=> EsLibre(i)
      BY <2>3, <2>7, <2>8, <2>9 DEF EsLibre
    <3> QED BY <3>1, <2>4, <2>6 DEF Ocupadas
  <2>12. /\ \A i \in S : /\ e[i].numeroPagina \in Paginas /\ e[i].marco \in Marcos
                         /\ e[i].instanteDeTiempo \in 0..(ultimoInstanteDeTiempo - 1)
         /\ \A i, j \in S : i # j => /\ e[i].numeroPagina # e[j].numeroPagina
                                     /\ e[i].instanteDeTiempo # e[j].instanteDeTiempo
    BY <2>6, <2>7 DEF ColaInv, Vigentes
  <2>13. Vigentes'
    <3>1. \A i \in S : /\ e1[i].numeroPagina = e[i].numeroPagina /\ e1[i].marco = e[i].marco
                       /\ e1[i].instanteDeTiempo
                            = IF i = k THEN ultimoInstanteDeTiempo ELSE e[i].instanteDeTiempo
      BY <2>3, <2>7, <2>9, <2>10
    <3>2. \A i \in S : /\ e1[i].numeroPagina \in Paginas /\ e1[i].marco \in Marcos
                       /\ e1[i].instanteDeTiempo \in 0..(ultimoInstanteDeTiempo' - 1)
      BY <2>4, <2>5, <2>12, <3>1
    <3>3. \A i, j \in S : i # j => /\ e1[i].numeroPagina # e1[j].numeroPagina
                                   /\ e1[i].instanteDeTiempo # e1[j].instanteDeTiempo
      BY <2>5, <2>12, <3>1
    <3> QED BY <2>4, <2>8, <2>11, <3>2, <3>3 DEF Vigentes
  <2>14. PICK s : /\ EnOrden(s, S, e)
                  /\ OrdenDeReemplazo = Traducciones(s, e)
    BY <2>6, <2>7, OrdenDeAhora
  <2>15. PICK q \in 1..Len(s) : s[q] = k
    BY <2>10, <2>14 DEF EnOrden
  <2>16. MasNueva(s[q], S \ {s[q]}, e, e1)
    BY <2>5, <2>9, <2>10, <2>12, <2>15 DEF MasNueva
  <2>17. PICK t : t = Append(RemoveAt(s, q), s[q])
    OBVIOUS
  <2>18. /\ EnOrden(t, S, e1)
         /\ Traducciones(t, e1) = Append(RemoveAt(Traducciones(s, e), q), DeEntrada(e1, s[q]))
    <3>1. PasaAlFinal(s, q, S, e, e1)
      BY <2>14, <2>16, AlFinal
    <3> QED BY <2>17, <3>1 DEF PasaAlFinal
  <2>19. OrdenDeReemplazo' = Traducciones(t, e1)
    <3>1. PorInstante(S, e1) = Traducciones(t, e1)
      BY <2>18, OrdenUnico
    <3> QED BY <2>8, <2>11, <3>1 DEF OrdenDeReemplazo
  <2>20. PICK c : c = OrdenDeReemplazo
    OBVIOUS
  <2>21. Cola!De(c, p) = {q}
    <3>1. \A i, j \in S : i # j => e[i].numeroPagina # e[j].numeroPagina
      BY <2>12
    <3>2. e[s[q]].numeroPagina = p
      BY <2>3, <2>7, <2>15
    <3> QED BY <2>14, <2>20, <3>1, <3>2, SuLugar
  <2>22. Cola!Posicion(c, p) = q /\ Cola!Tiene(c, p)
    BY <2>21 DEF Cola!Posicion, Cola!Tiene
  <2>23. c[q] = DeEntrada(e1, s[q])
    <3>1. c[q] = DeEntrada(e, s[q])
      BY <2>14, <2>20 DEF Traducciones
    <3> QED BY <3>1, <2>3, <2>7, <2>9, <2>15 DEF DeEntrada
  <2>24. Cola!RemoveAt(c, q) = RemoveAt(c, q)
    BY DEF Cola!RemoveAt, RemoveAt
  <2>25. OrdenDeReemplazo' = Cola!Referida(c, p, "LRU")
    BY <2>14, <2>18, <2>19, <2>20, <2>22, <2>23, <2>24 DEF Cola!Referida, Cola!Traducida
  <2>26. Cola!Next
    BY <1>2, <2>4, <2>20, <2>22, <2>25 DEF Cola!Next, Cola!Acertar
  <2> QED BY <2>13, <2>26
<1> QED BY <1>1, <1>2

\* A registration puts the page that was missing at the end, in place of the first of the queue
\* when it is full.
LEMMA RegistrarCola ==
  ASSUME ColaInv, NEW f \in Marcos, Registrar(f)
  PROVE  Vigentes' /\ [Cola!Next]_<<OrdenDeReemplazo, algoritmoReemplazo>>
<1> DEFINE hayLibre == cantidadEntradasLibres > 0
<1>1. PICK k : k = IF hayLibre THEN PrimerLibre ELSE MenorInstante
  OBVIOUS
<1>2. /\ faltante \in Paginas
      /\ entradas' = [entradas EXCEPT ![k] =
                        [numeroPagina |-> faltante, marco |-> f,
                         instanteDeTiempo |-> ultimoInstanteDeTiempo]]
      /\ ultimoInstanteDeTiempo' = ultimoInstanteDeTiempo + 1
      /\ faltante' = Ninguna
      /\ UNCHANGED <<algoritmoReemplazo, despachado>>
      /\ despachado /\ faltante # Ninguna
  BY <1>1 DEF ColaInv, TlbIInv, TlbTypeOK, Registrar
<1>3. /\ ultimoInstanteDeTiempo \in Nat /\ entradas \in [Indices -> EntradaTlb]
      /\ cantidadEntradasLibres \in Nat
  BY EntradasAssumption DEF ColaInv, TlbIInv, TlbTypeOK
<1>4. hayLibre <=> EntradasLibres # {}
  <2>1. Cardinality(EntradasLibres) = 0 <=> EntradasLibres = {}
    BY LibresFinito, FS_EmptySet
  <2>2. cantidadEntradasLibres = Cardinality(EntradasLibres)
    BY <1>2 DEF ColaInv, TlbIInv, LibresAlDia, EntradasLibres
  <2> QED BY <1>3, <2>1, <2>2
<1>5. PICK S : S = Ocupadas
  OBVIOUS
<1>6. PICK e : e = entradas
  OBVIOUS
<1>7. PICK e1 : e1 = entradas'
  OBVIOUS
<1>8. S \subseteq Indices /\ IsFiniteSet(S) /\ EntradasLibres = Indices \ S
  BY <1>2, <1>5, OcupadasFinitas
<1>9. /\ k \in Indices
      /\ IF hayLibre THEN k \notin S ELSE S = Indices
      /\ ~hayLibre => \A j \in Indices : e[k].instanteDeTiempo <= e[j].instanteDeTiempo
  BY <1>1, <1>4, <1>6, <1>8, HayPrimerLibre, HayMenorInstante DEF ColaInv, TlbIInv
<1>10. /\ e1[k] = [numeroPagina |-> faltante, marco |-> f, instanteDeTiempo |-> ultimoInstanteDeTiempo]
       /\ \A i \in Indices \ {k} : e1[i] = e[i]
  BY <1>2, <1>3, <1>6, <1>7, <1>9
<1>11. Ocupadas' = S \union {k}
  <2>1. \A i \in Indices : EsLibre(i)' <=> i # k /\ EsLibre(i)
    <3>1. faltante # -1
      BY <1>2 DEF Ninguna
    <3> QED BY <1>6, <1>7, <1>10, <3>1 DEF EsLibre
  <2> QED BY <2>1, <1>2, <1>5, <1>9 DEF Ocupadas
<1>12. /\ \A i \in S : /\ e[i].numeroPagina \in Paginas /\ e[i].marco \in Marcos
                       /\ e[i].instanteDeTiempo \in 0..(ultimoInstanteDeTiempo - 1)
       /\ \A i, j \in S : i # j => /\ e[i].numeroPagina # e[j].numeroPagina
                                   /\ e[i].instanteDeTiempo # e[j].instanteDeTiempo
       /\ \A i \in S : e[i].numeroPagina # faltante
  BY <1>2, <1>5, <1>6 DEF ColaInv, Vigentes
<1>13. PICK R : R = S \union {k}
  OBVIOUS
<1>14. \A i \in R : i # k => i \in S /\ e1[i] = e[i]
  BY <1>8, <1>10, <1>13
<1>15. Vigentes'
  <2>1. \A i \in R : /\ e1[i].numeroPagina \in Paginas /\ e1[i].marco \in Marcos
                     /\ e1[i].instanteDeTiempo \in 0..(ultimoInstanteDeTiempo' - 1)
    <3> SUFFICES ASSUME NEW i \in R
                 PROVE  /\ e1[i].numeroPagina \in Paginas /\ e1[i].marco \in Marcos
                        /\ e1[i].instanteDeTiempo \in 0..(ultimoInstanteDeTiempo' - 1)
      OBVIOUS
    <3>1. CASE i = k
      BY <3>1, <1>2, <1>3, <1>10
    <3>2. CASE i # k
      BY <3>2, <1>2, <1>3, <1>12, <1>14
    <3> QED BY <3>1, <3>2
  <2>2. \A i, j \in R : i # j => /\ e1[i].numeroPagina # e1[j].numeroPagina
                                 /\ e1[i].instanteDeTiempo # e1[j].instanteDeTiempo
    BY <1>3, <1>10, <1>12, <1>14
  <2> QED BY <1>2, <1>7, <1>11, <1>13, <2>1, <2>2 DEF Vigentes
<1>16. PICK s : /\ EnOrden(s, S, e) /\ Len(s) = Cardinality(S)
                /\ OrdenDeReemplazo = Traducciones(s, e)
  BY <1>5, <1>6, OrdenDeAhora
<1>17. PICK c : c = OrdenDeReemplazo
  OBVIOUS
<1>18. PICK u : u = DeEntrada(e1, k)
  OBVIOUS
<1>19. u = [pagina |-> faltante, marco |-> f] /\ u \in Cola!Traduccion /\ u.pagina = faltante
  BY <1>2, <1>10, <1>18 DEF DeEntrada, Cola!Traduccion
<1>20. s \in Seq(S) /\ Len(s) \in Nat /\ \A j \in 1..Len(s) : s[j] \in S
  BY <1>16 DEF EnOrden
<1>21. Len(c) = Len(s) /\ \A j \in 1..Len(s) : c[j].pagina = e[s[j]].numeroPagina
  BY <1>16, <1>17, <1>20 DEF Traducciones, DeEntrada
<1>22. ~Cola!Tiene(c, faltante)
  BY <1>12, <1>20, <1>21 DEF Cola!Tiene, Cola!De
<1>23. MasNueva(k, S \ {k}, e, e1)
  BY <1>3, <1>8, <1>10, <1>12 DEF MasNueva
<1>24. Cardinality(Indices) = ENTRADAS_TLB /\ IsFiniteSet(Indices)
  BY EntradasAssumption, FS_Interval DEF Indices
<1>25. OrdenDeReemplazo' = Cola!Registrada(c, u)
  <2>1. CASE hayLibre
    <3>1. k \notin S /\ k \in Indices
      BY <2>1, <1>9
    <3>2. Len(c) # ENTRADAS_TLB
      BY <3>1, <1>8, <1>16, <1>21, <1>24, FS_Subset
    <3>3. S \ {k} = S
      BY <3>1
    <3>4. Crece(s, S, e, k, e1)
      <4>1. MasNueva(k, S, e, e1)
        BY <3>3, <1>23
      <4> QED BY <4>1, <1>16, UnaMas
    <3>5. PICK t : t = Append(s, k)
      OBVIOUS
    <3>6. EnOrden(t, R, e1) /\ Traducciones(t, e1) = Append(c, u)
      BY <3>4, <3>5, <1>13, <1>16, <1>17, <1>18 DEF Crece
    <3>7. PorInstante(R, e1) = Traducciones(t, e1)
      BY <3>6, OrdenUnico
    <3>8. OrdenDeReemplazo' = Append(c, u)
      BY <3>6, <3>7, <1>7, <1>11, <1>13 DEF OrdenDeReemplazo
    <3> QED BY <3>2, <3>8 DEF Cola!Registrada
  <2>2. CASE ~hayLibre
    <3>1. S = Indices /\ k \in S /\ R = S
      BY <2>2, <1>9, <1>13
    <3>2. Len(c) = ENTRADAS_TLB /\ Len(s) > 0
      BY <3>1, <1>16, <1>21, <1>24, EntradasAssumption
    <3>3. s[1] = k
      <4>1. PICK q \in 1..Len(s) : s[q] = k
        BY <3>1, <1>16 DEF EnOrden
      <4>2. 1 \in 1..Len(s) /\ s[1] \in Indices
        BY <3>1, <3>2, <1>20
      <4>3. e[k].instanteDeTiempo <= e[s[1]].instanteDeTiempo
        BY <2>2, <4>2, <1>9
      <4>4. 1 < q => e[s[1]].instanteDeTiempo < e[s[q]].instanteDeTiempo
        BY <4>2, <1>16 DEF EnOrden
      <4>5. e[k].instanteDeTiempo \in Int /\ e[s[1]].instanteDeTiempo \in Int
        BY <3>1, <4>2, <1>16 DEF EnOrden
      <4>6. q = 1
        BY <4>1, <4>3, <4>4, <4>5, <1>20
      <4> QED BY <4>1, <4>6
    <3>4. 1 \in 1..Len(s) /\ 1 \in 1..Len(c)
      BY <3>2, <1>20, <1>21
    <3>5. PICK t : t = Append(RemoveAt(s, 1), s[1])
      OBVIOUS
    <3>6. /\ EnOrden(t, S, e1)
          /\ Traducciones(t, e1) = Append(RemoveAt(Traducciones(s, e), 1), DeEntrada(e1, s[1]))
      <4>1. MasNueva(s[1], S \ {s[1]}, e, e1)
        BY <3>3, <1>23
      <4>2. PasaAlFinal(s, 1, S, e, e1)
        BY <4>1, <3>4, <1>16, AlFinal
      <4> QED BY <4>2, <3>5 DEF PasaAlFinal
    <3>7. RemoveAt(c, 1) = Tail(c)
      <4>1. PICK T : T = {DeEntrada(e, i) : i \in S}
        OBVIOUS
      <4>2. \A i \in S : DeEntrada(e, i) \in T
        BY <4>1
      <4>3. c \in Seq(T)
        BY <4>2, <1>16, <1>17, <1>20, TraduccionesTipos
      <4> QED BY <4>3, <3>4, SinUno
    <3>8. PorInstante(S, e1) = Traducciones(t, e1)
      BY <3>6, OrdenUnico
    <3>9. OrdenDeReemplazo' = Append(Tail(c), u)
      BY <3>1, <3>3, <3>6, <3>7, <3>8, <1>7, <1>11, <1>13, <1>16, <1>17, <1>18 DEF OrdenDeReemplazo
    <3> QED BY <3>2, <3>9 DEF Cola!Registrada
  <2> QED BY <2>1, <2>2
<1>26. Cola!Next
  BY <1>2, <1>17, <1>19, <1>22, <1>25 DEF Cola!Next, Cola!Registrar
<1> QED BY <1>15, <1>26

\* The array, with its stamps shared by references and registrations and kept by flushes,
\* is a queue: it replaces the page registered (FIFO) or used (LRU) the longest ago, and never
\* has one twice.
THEOREM ColaDeReemplazo == TlbSpec => ImplementaCola
<1>1. TlbInit => ColaInv /\ Cola!Init
  BY TlbInicio, InicioCola DEF ColaInv
<1>2. ColaInv /\ [TlbNext]_tlbVars
        => ColaInv' /\ [Cola!Next]_<<OrdenDeReemplazo, algoritmoReemplazo>>
  <2> SUFFICES ASSUME ColaInv, [TlbNext]_tlbVars
               PROVE  ColaInv' /\ [Cola!Next]_<<OrdenDeReemplazo, algoritmoReemplazo>>
    OBVIOUS
  <2>1. TlbIInv
    BY DEF ColaInv
  <2>2. CASE Flush
    BY <2>1, <2>2, PasoFlush, FlushCola DEF ColaInv
  <2>3. ASSUME NEW p \in Paginas, Acertar(p)
        PROVE  ColaInv' /\ [Cola!Next]_<<OrdenDeReemplazo, algoritmoReemplazo>>
    BY <2>1, <2>3, PasoAcertar, AcertarCola DEF ColaInv
  <2>4. ASSUME NEW p \in Paginas, Fallar(p)
        PROVE  ColaInv' /\ [Cola!Next]_<<OrdenDeReemplazo, algoritmoReemplazo>>
    BY <2>1, <2>4, PasoFallar, FallarCola DEF ColaInv
  <2>5. ASSUME NEW f \in Marcos, Registrar(f)
        PROVE  ColaInv' /\ [Cola!Next]_<<OrdenDeReemplazo, algoritmoReemplazo>>
    BY <2>1, <2>5, PasoRegistrar, RegistrarCola DEF ColaInv
  <2>6. CASE UNCHANGED tlbVars
    <3>1. TlbIInv'
      BY <2>1, <2>6 DEF TlbIInv, TlbTypeOK, LibresAlDia, EsLibre, tlbVars
    <3>2. UNCHANGED <<Ocupadas, OrdenDeReemplazo, algoritmoReemplazo>>
      BY <2>6 DEF tlbVars, Ocupadas, EsLibre, OrdenDeReemplazo
    <3>3. Vigentes'
      BY <2>6, <3>2 DEF ColaInv, Vigentes, tlbVars
    <3> QED BY <3>1, <3>2, <3>3 DEF ColaInv
  <2> QED BY <2>2, <2>3, <2>4, <2>5, <2>6 DEF TlbNext
<1> QED BY <1>1, <1>2, PTL DEF TlbSpec, ImplementaCola, Cola!Spec

-----------------------------------------------------------------------------
(* The conversation of the adapters with Memory.                           *)

\* What Head, Tail and Append do to the first message and to the rest.
LEMMA Primero ==
  ASSUME NEW S, NEW s \in Seq(S), s # << >>
  PROVE  /\ Head(s) = s[1] /\ s[1] \in S /\ Tail(s) \in Seq(S) /\ Len(s) \in Nat /\ Len(s) >= 1
         /\ Len(Tail(s)) = Len(s) - 1 /\ \A k \in 1..Len(Tail(s)) : Tail(s)[k] = s[k + 1]
         /\ Len(s) = 1 => Tail(s) = << >>
  <1>1. Tail(s) \in Seq(S) /\ Len(Tail(s)) = Len(s) - 1 /\ Len(s) \in Nat
    OBVIOUS
  <1>2. Len(s) = 1 => Len(Tail(s)) = 0
    BY <1>1
  <1>4. \A t \in Seq(S) : Len(t) = 0 => t = << >>
    BY EmptySeq
  <1>3. QED
    BY <1>1, <1>2, <1>4

\* Appending to a socket makes it longer by one and keeps its messages.
LEMMA UnoMas ==
  ASSUME NEW S, NEW s \in Seq(S), NEW m \in S
  PROVE  /\ Append(s, m) \in Seq(S) /\ Append(s, m) # << >> /\ Len(Append(s, m)) = Len(s) + 1
         /\ Len(s) \in Nat /\ Append(s, m)[Len(s) + 1] = m
         /\ \A k \in 1..Len(s) : Append(s, m)[k] = s[k]
         /\ s = << >> => Append(s, m)[1] = m /\ Len(Append(s, m)) = 1
  OBVIOUS

\* Memory answers something to every request but a write, and only what may be answered.
LEMMA RespuestasTipos ==
  ASSUME NEW p \in Pedido
  PROVE  /\ Respuestas(p) \subseteq {"tabla", "error", "ok_continue", "valor"}
         /\ Respuestas(p) = {} <=> p = "write"
         /\ p = "lectura" => Respuestas(p) = {"valor"}
  BY DEF Respuestas, Pedido, PedidoKernel, PedidoCpu

\* Nobody has asked anything at first.
LEMMA InicioIInv == AdaptadorInit => AdaptadorIInv
  <1> SUFFICES ASSUME AdaptadorInit PROVE AdaptadorIInv
    OBVIOUS
  <1> USE HilosAssumption
  <1>1. Ninguno \in Mensaje /\ Ninguno.de = Cpu /\ Ninguno.pedido = "write"
    BY DEF Ninguno, Mensaje, Cliente, Pedido, PedidoCpu
  <1>2. AdaptadorTypeOK
    BY <1>1 DEF AdaptadorInit, AdaptadorTypeOK, Socket, Pedido, PedidoCpu
  <1>3. Mutexes
    BY DEF AdaptadorInit, Mutexes, Socket, Cliente
  <1>4. ConversacionKernel
    BY DEF AdaptadorInit, ConversacionKernel, Conversando, Socket
  <1>5. ConversacionCpu
    BY <1>1 DEF AdaptadorInit, ConversacionCpu, Cliente, Socket
  <1>6. RespuestaPropia
    BY DEF AdaptadorInit, RespuestaPropia, Cliente
  <1>7. PedidosDelKernel
    BY DEF AdaptadorInit, PedidosDelKernel, Cliente
  <1>8. QED
    BY <1>2, <1>3, <1>4, <1>5, <1>6, <1>7 DEF AdaptadorIInv

\* What a thread of the Kernel asks is one of the three requests of the adapter.
LEMMA PasoPedidos ==
  ASSUME AdaptadorIInv, AdaptadorNext
  PROVE  PedidosDelKernel'
  <1> USE HilosAssumption DEF AdaptadorIInv, Cliente, AdaptadorTypeOK
  <1>1. ASSUME NEW h \in Hilo, Kernel(h) PROVE PedidosDelKernel'
    BY <1>1 DEF Kernel, Llamar, Tomar, EnviarPedido, RecibirRespuesta, Soltar, PedidosDelKernel
  <1>2. CASE ClienteCpu
    BY <1>2 DEF ClienteCpu, CpuPedir, CpuRecibirRespuesta, PedidosDelKernel
  <1>3. ASSUME NEW s \in Socket, Memoria(s) PROVE PedidosDelKernel'
    BY <1>3 DEF Memoria, MemoriaRecibir, MemoriaTomar, MemoriaAtender, MemoriaSoltar, varsClientes, PedidosDelKernel
  <1>4. QED
    BY <1>1, <1>2, <1>3 DEF AdaptadorNext

\* The steps of a thread of the Kernel.
LEMMA PasoKernel ==
  ASSUME AdaptadorIInv, NEW h \in Hilo, Kernel(h)
  PROVE  AdaptadorIInv'
  <1> USE HilosAssumption DEF AdaptadorIInv, Cliente
  <1>p. PedidosDelKernel'
    BY PasoPedidos DEF AdaptadorNext
  <1> USE <1>p
  <1>1. CASE Llamar(h)
    <2>0. PICK p \in PedidoKernel : pedido' = [pedido EXCEPT ![h] = p]
      BY <1>1 DEF Llamar
    <2>1. AdaptadorTypeOK'
      BY <1>1, <2>0 DEF Llamar, AdaptadorTypeOK, varsMemoria, Pedido
    <2>2. mutexSocketMemoria # h
      BY <1>1 DEF Llamar, Mutexes
    <2>3. Mutexes'
      BY <1>1 DEF Llamar, AdaptadorTypeOK, varsMemoria, Mutexes
    <2>4. ConversacionKernel'
      BY <1>1, <2>2 DEF Llamar, AdaptadorTypeOK, varsMemoria, ConversacionKernel, Conversando, Suyo
    <2>5. ConversacionCpu'
      BY <1>1 DEF Llamar, AdaptadorTypeOK, varsMemoria, ConversacionCpu
    <2>6. RespuestaPropia'
      BY <1>1 DEF Llamar, AdaptadorTypeOK, varsMemoria, RespuestaPropia
    <2>7. QED
      BY <2>1, <2>3, <2>4, <2>5, <2>6
  <1>2. CASE Tomar(h)
    <2>1. AdaptadorTypeOK'
      BY <1>2 DEF Tomar, AdaptadorTypeOK, varsMemoria
    <2>3. Mutexes'
      BY <1>2 DEF Tomar, AdaptadorTypeOK, varsMemoria, Mutexes
    <2>4. ConversacionKernel'
      BY <1>2 DEF Tomar, AdaptadorTypeOK, varsMemoria, ConversacionKernel, Conversando, Suyo
    <2>5. ConversacionCpu'
      BY <1>2 DEF Tomar, AdaptadorTypeOK, varsMemoria, ConversacionCpu
    <2>6. RespuestaPropia'
      BY <1>2 DEF Tomar, AdaptadorTypeOK, varsMemoria, RespuestaPropia
    <2>7. QED
      BY <2>1, <2>3, <2>4, <2>5, <2>6
  <1>3. CASE EnviarPedido(h)
    <2> DEFINE m == [pedido |-> pedido[h], de |-> h]
    <2>0. m \in Mensaje /\ ida["kernel"] \in Seq(Mensaje) /\ ida' = [ida EXCEPT !["kernel"] = Append(@, m)]
          /\ "kernel" \in Socket /\ "cpu" \in Socket
      BY <1>3 DEF EnviarPedido, AdaptadorTypeOK, Mensaje, Socket
    <2>1. AdaptadorTypeOK'
      BY <1>3, <2>0, UnoMas DEF EnviarPedido, AdaptadorTypeOK, varsMemoria
    <2>2. mutexSocketMemoria = h /\ ida["kernel"] = << >> /\ vuelta["kernel"] = << >>
          /\ memoria["kernel"] \in {"recibir", "soltar"}
      BY <1>3 DEF EnviarPedido, Mutexes, ConversacionKernel, Conversando
    <2>3. Mutexes'
      BY <1>3 DEF EnviarPedido, AdaptadorTypeOK, varsMemoria, Mutexes
    <2>4. ConversacionKernel'
      <3>1. ida'["kernel"] = Append(<< >>, m)
        BY <2>0, <2>2 DEF AdaptadorTypeOK
      <3>2. ida'["kernel"] # << >> /\ ida'["kernel"][1] = m /\ Len(ida'["kernel"]) = 1
        BY <3>1, <2>0, <2>2, UnoMas
      <3>3. QED
        BY <3>2, <1>3, <2>2 DEF EnviarPedido, AdaptadorTypeOK, varsMemoria, ConversacionKernel, Conversando, Suyo
    <2>5. ConversacionCpu'
      BY <1>3, <2>0 DEF EnviarPedido, AdaptadorTypeOK, varsMemoria, ConversacionCpu
    <2>6. RespuestaPropia'
      BY <1>3 DEF EnviarPedido, AdaptadorTypeOK, varsMemoria, RespuestaPropia
    <2>7. QED
      BY <2>1, <2>3, <2>4, <2>5, <2>6
  <1>4. CASE RecibirRespuesta(h)
    <2> DEFINE r == Head(vuelta["kernel"])
    <2>0. /\ vuelta["kernel"] \in Seq(Respuesta) /\ vuelta["kernel"] # << >>
          /\ "kernel" \in Socket /\ "cpu" \in Socket
          /\ vuelta' = [vuelta EXCEPT !["kernel"] = Tail(@)]
      BY <1>4 DEF RecibirRespuesta, AdaptadorTypeOK, Socket
    <2>1. r = vuelta["kernel"][1] /\ r \in Respuesta /\ Tail(vuelta["kernel"]) \in Seq(Respuesta)
      BY <2>0, Primero
    <2>2. mutexSocketMemoria = h /\ Conversando
      BY <1>4 DEF RecibirRespuesta, Mutexes, Conversando
    <2>3. ida["kernel"] = << >> /\ Len(vuelta["kernel"]) = 1 /\ memoria["kernel"] \in {"recibir", "soltar"}
          /\ r.a.de = h /\ r.a.pedido = pedido[h] /\ r.header \in Respuestas(pedido[h])
      BY <2>0, <2>1, <2>2 DEF ConversacionKernel, Suyo
    <2>4. en' = [en EXCEPT ![h] = "soltar"]
      BY <1>4, <2>3 DEF RecibirRespuesta
    <2>5. r.a \in Mensaje /\ r.a = [pedido |-> pedido[h], de |-> h]
      BY <2>1, <2>3 DEF Respuesta, Mensaje
    <2>6. AdaptadorTypeOK'
      BY <1>4, <2>0, <2>1, <2>4, <2>5 DEF RecibirRespuesta, AdaptadorTypeOK, varsMemoria
    <2>7. Mutexes'
      BY <1>4, <2>2, <2>4 DEF RecibirRespuesta, AdaptadorTypeOK, varsMemoria, Mutexes
    <2>8. ConversacionKernel'
      <3>1. vuelta'["kernel"] = << >>
        BY <2>0, <2>3, Primero DEF AdaptadorTypeOK
      <3>2. QED
        BY <3>1, <1>4, <2>2, <2>3, <2>4 DEF RecibirRespuesta, AdaptadorTypeOK, varsMemoria, ConversacionKernel, Conversando
    <2>9. ConversacionCpu'
      BY <1>4, <2>0, <2>4 DEF RecibirRespuesta, AdaptadorTypeOK, varsMemoria, ConversacionCpu
    <2>10. RespuestaPropia'
      <3>1. respondido' = [respondido EXCEPT ![h] = r.a] /\ pedido' = pedido /\ vuelta'["cpu"] = vuelta["cpu"]
        BY <1>4, <2>0 DEF RecibirRespuesta, AdaptadorTypeOK
      <3>2. QED
        BY <3>1, <2>4, <2>5 DEF AdaptadorTypeOK, RespuestaPropia
    <2>11. QED
      BY <2>6, <2>7, <2>8, <2>9, <2>10
  <1>5. CASE Soltar(h)
    <2>1. AdaptadorTypeOK'
      BY <1>5 DEF Soltar, AdaptadorTypeOK, varsMemoria
    <2>2. mutexSocketMemoria = h /\ ~Conversando
      BY <1>5 DEF Soltar, Mutexes, Conversando
    <2>3. Mutexes'
      BY <1>5, <2>2 DEF Soltar, AdaptadorTypeOK, varsMemoria, Mutexes
    <2>4. ConversacionKernel'
      BY <1>5, <2>2 DEF Soltar, AdaptadorTypeOK, varsMemoria, ConversacionKernel, Conversando
    <2>5. ConversacionCpu'
      BY <1>5 DEF Soltar, AdaptadorTypeOK, varsMemoria, ConversacionCpu
    <2>6. RespuestaPropia'
      BY <1>5 DEF Soltar, AdaptadorTypeOK, varsMemoria, RespuestaPropia
    <2>7. QED
      BY <2>1, <2>3, <2>4, <2>5, <2>6
  <1>6. QED
    BY <1>1, <1>2, <1>3, <1>4, <1>5 DEF Kernel

\* The steps of the CPU.
LEMMA PasoCpu ==
  ASSUME AdaptadorIInv, ClienteCpu
  PROVE  AdaptadorIInv'
  <1> USE HilosAssumption DEF AdaptadorIInv, Cliente
  <1>p. PedidosDelKernel'
    BY PasoPedidos DEF AdaptadorNext
  <1> USE <1>p
  <1>0. "kernel" \in Socket /\ "cpu" \in Socket /\ ida["cpu"] \in Seq(Mensaje) /\ vuelta["cpu"] \in Seq(Respuesta)
    BY DEF AdaptadorTypeOK, Socket
  <1>1. ASSUME NEW p \in PedidoCpu, CpuPedir(p) PROVE AdaptadorIInv'
    <2> DEFINE m == [pedido |-> p, de |-> Cpu]
               i == ida["cpu"]
    <2>1. m \in Mensaje /\ ida' = [ida EXCEPT !["cpu"] = Append(@, m)]
      BY <1>1 DEF CpuPedir, Mensaje, Pedido
    <2>2. Append(i, m) \in Seq(Mensaje) /\ Len(Append(i, m)) = Len(i) + 1 /\ Len(i) \in Nat
          /\ Append(i, m)[Len(i) + 1] = m /\ \A k \in 1..Len(i) : Append(i, m)[k] = i[k]
          /\ Append(i, m) # << >>
      BY <1>0, <2>1, UnoMas
    <2>3. AdaptadorTypeOK'
      BY <1>0, <1>1, <2>1, <2>2 DEF CpuPedir, AdaptadorTypeOK, varsMemoria, Pedido, PedidoCpu
    <2>4. Mutexes'
      BY <1>1 DEF CpuPedir, AdaptadorTypeOK, varsMemoria, Mutexes
    <2>5. ConversacionKernel'
      BY <1>0, <1>1, <2>1 DEF CpuPedir, AdaptadorTypeOK, varsMemoria, ConversacionKernel, Conversando, Suyo
    <2>6. ConversacionCpu'
      <3>1. ida'["cpu"] = Append(i, m)
        BY <1>0, <2>1 DEF AdaptadorTypeOK
      <3>2. en[Cpu] = "fuera" /\ vuelta["cpu"] = << >> /\ vuelta' = vuelta /\ pedido'[Cpu] = p
            /\ memoria' = memoria /\ actual' = actual
            /\ en'[Cpu] = IF p = "write" THEN "fuera" ELSE "recibir"
        BY <1>1 DEF CpuPedir, AdaptadorTypeOK, varsMemoria, ConversacionCpu
      <3>3. p \in {"lectura", "write"}
        BY DEF PedidoCpu
      <3>4. \A k \in 1..Len(i) : i[k].pedido = "write" /\ i[k].de = Cpu
        BY <3>2 DEF ConversacionCpu
      <3>5. actual["cpu"].de = Cpu /\ (memoria["cpu"] \in {"tomar", "atender"} => actual["cpu"].pedido = "write")
        BY <3>2 DEF ConversacionCpu
      <3>6. \A k \in 1..Len(Append(i, m)) :
              /\ Append(i, m)[k].pedido = IF k = Len(Append(i, m)) THEN p ELSE "write"
              /\ Append(i, m)[k].de = Cpu
        <4> SUFFICES ASSUME NEW k \in 1..(Len(i) + 1)
                     PROVE  /\ Append(i, m)[k].pedido = IF k = Len(i) + 1 THEN p ELSE "write"
                            /\ Append(i, m)[k].de = Cpu
          BY <2>2
        <4>1. CASE k = Len(i) + 1
          BY <4>1, <2>2
        <4>2. CASE k # Len(i) + 1
          BY <4>2, <2>2, <3>4
        <4>3. QED
          BY <4>1, <4>2
      <3>7. QED
        BY <2>2, <3>1, <3>2, <3>3, <3>5, <3>6 DEF ConversacionCpu
    <2>7. RespuestaPropia'
      BY <1>1, <2>6 DEF CpuPedir, AdaptadorTypeOK, varsMemoria, RespuestaPropia, ConversacionCpu
    <2>8. QED
      BY <2>3, <2>4, <2>5, <2>6, <2>7
  <1>2. CASE CpuRecibirRespuesta
    <2> DEFINE r == Head(vuelta["cpu"])
    <2>1. /\ vuelta["cpu"] # << >> /\ vuelta' = [vuelta EXCEPT !["cpu"] = Tail(@)]
          /\ r = vuelta["cpu"][1] /\ Tail(vuelta["cpu"]) \in Seq(Respuesta)
      BY <1>0, <1>2, Primero DEF CpuRecibirRespuesta
    <2>2. /\ pedido[Cpu] = "lectura" /\ Len(vuelta["cpu"]) = 1 /\ ida["cpu"] = << >>
          /\ memoria["cpu"] \in {"recibir", "soltar"} /\ r.header = "valor"
      BY <1>2, <2>1 DEF CpuRecibirRespuesta, ConversacionCpu
    <2>3. en' = [en EXCEPT ![Cpu] = "fuera"]
      BY <1>2, <2>2 DEF CpuRecibirRespuesta, Respuestas
    <2>4. vuelta'["cpu"] = << >>
      BY <1>0, <2>1, <2>2, Primero DEF AdaptadorTypeOK
    <2>5. AdaptadorTypeOK'
      BY <1>0, <1>2, <2>1, <2>3 DEF CpuRecibirRespuesta, AdaptadorTypeOK, varsMemoria
    <2>6. Mutexes'
      BY <1>2, <2>3 DEF CpuRecibirRespuesta, AdaptadorTypeOK, varsMemoria, Mutexes
    <2>7. ConversacionKernel'
      BY <1>0, <1>2, <2>1, <2>3 DEF CpuRecibirRespuesta, AdaptadorTypeOK, varsMemoria, ConversacionKernel, Conversando, Suyo
    <2>8. ConversacionCpu'
      BY <1>2, <2>2, <2>3, <2>4 DEF CpuRecibirRespuesta, AdaptadorTypeOK, varsMemoria, ConversacionCpu
    <2>9. RespuestaPropia'
      BY <1>2, <2>3 DEF CpuRecibirRespuesta, AdaptadorTypeOK, varsMemoria, RespuestaPropia
    <2>10. QED
      BY <2>5, <2>6, <2>7, <2>8, <2>9
  <1>3. QED
    BY <1>1, <1>2 DEF ClienteCpu

\* The steps of the two threads of Memory.
LEMMA PasoMemoria ==
  ASSUME AdaptadorIInv, NEW s \in Socket, Memoria(s)
  PROVE  AdaptadorIInv'
  <1> USE HilosAssumption DEF AdaptadorIInv, Cliente
  <1>p. PedidosDelKernel'
    BY PasoPedidos DEF AdaptadorNext
  <1> USE <1>p
  <1>0. /\ "kernel" \in Socket /\ "cpu" \in Socket /\ s \in {"kernel", "cpu"}
        /\ ida[s] \in Seq(Mensaje) /\ vuelta[s] \in Seq(Respuesta)
    BY DEF AdaptadorTypeOK, Socket
  <1>1. CASE MemoriaRecibir(s)
    <2>1. /\ ida[s] # << >> /\ Head(ida[s]) = ida[s][1] /\ ida[s][1] \in Mensaje
          /\ Tail(ida[s]) \in Seq(Mensaje) /\ Len(ida[s]) \in Nat /\ Len(ida[s]) >= 1
          /\ Len(Tail(ida[s])) = Len(ida[s]) - 1
          /\ \A k \in 1..Len(Tail(ida[s])) : Tail(ida[s])[k] = ida[s][k + 1]
          /\ Len(ida[s]) = 1 => Tail(ida[s]) = << >>
      BY <1>0, <1>1, Primero DEF MemoriaRecibir
    <2>2. /\ actual' = [actual EXCEPT ![s] = ida[s][1]] /\ ida' = [ida EXCEPT ![s] = Tail(ida[s])]
          /\ memoria' = [memoria EXCEPT ![s] = "tomar"]
      BY <1>1, <2>1 DEF MemoriaRecibir
    <2>3. AdaptadorTypeOK'
      BY <1>0, <1>1, <2>1, <2>2 DEF MemoriaRecibir, AdaptadorTypeOK, varsClientes
    <2>4. Mutexes'
      BY <1>1 DEF MemoriaRecibir, AdaptadorTypeOK, varsClientes, Mutexes
    <2>5. ConversacionKernel'
      <3>1. CASE s = "cpu"
        BY <3>1, <1>0, <1>1, <2>2 DEF MemoriaRecibir, AdaptadorTypeOK, varsClientes, ConversacionKernel, Conversando, Suyo
      <3>2. CASE s = "kernel"
        <4>1. Conversando /\ Suyo(ida[s][1]) /\ Len(ida[s]) = 1 /\ vuelta[s] = << >>
          BY <3>2, <1>1, <2>1 DEF MemoriaRecibir, ConversacionKernel
        <4>2. ida'["kernel"] = << >> /\ vuelta' = vuelta /\ memoria'["kernel"] = "tomar"
              /\ actual'["kernel"] = ida[s][1]
          BY <3>2, <4>1, <1>0, <1>1, <2>1, <2>2 DEF MemoriaRecibir, AdaptadorTypeOK
        <4>3. Conversando' /\ mutexSocketMemoria' = mutexSocketMemoria /\ pedido' = pedido
          BY <4>1, <1>1 DEF MemoriaRecibir, varsClientes, Conversando
        <4>4. QED
          BY <3>2, <4>1, <4>2, <4>3 DEF ConversacionKernel, Suyo
      <3>3. QED
        BY <3>1, <3>2, <1>0
    <2>6. ConversacionCpu'
      <3>1. CASE s = "kernel"
        BY <3>1, <1>0, <1>1, <2>2 DEF MemoriaRecibir, AdaptadorTypeOK, varsClientes, ConversacionCpu
      <3>2. CASE s = "cpu"
        <4>1. ida'[s] = Tail(ida[s]) /\ actual'[s] = ida[s][1] /\ memoria'[s] = "tomar"
          BY <1>0, <2>2 DEF AdaptadorTypeOK
        <4>2. en' = en /\ pedido' = pedido /\ vuelta' = vuelta /\ memoria[s] = "recibir"
          BY <1>1 DEF MemoriaRecibir, varsClientes
        <4>3. vuelta[s] = << >>
          BY <3>2, <2>1 DEF ConversacionCpu
        <4>4. \A k \in 1..Len(ida[s]) :
                ida[s][k].de = Cpu
                /\ ida[s][k].pedido = IF en[Cpu] = "recibir" /\ k = Len(ida[s]) THEN "lectura" ELSE "write"
          BY <3>2 DEF ConversacionCpu
        <4>5. \A k \in 1..Len(Tail(ida[s])) :
                Tail(ida[s])[k].de = Cpu
                /\ Tail(ida[s])[k].pedido
                     = IF en[Cpu] = "recibir" /\ k = Len(Tail(ida[s])) THEN "lectura" ELSE "write"
          BY <2>1, <4>4
        <4>6. ida[s][1].de = Cpu
              /\ ida[s][1].pedido = IF en[Cpu] = "recibir" /\ Tail(ida[s]) = << >> THEN "lectura" ELSE "write"
          <5>1. 1 \in 1..Len(ida[s])
            BY <2>1
          <5>2. Tail(ida[s]) = << >> <=> Len(ida[s]) = 1
            <6>1. Len(Tail(ida[s])) # 0 => Tail(ida[s]) # << >>
              BY EmptySeq
            <6>2. QED
              BY <6>1, <2>1
          <5>3. QED
            BY <5>1, <5>2, <4>4
        <4>7. PICK t, m : t = Tail(ida[s]) /\ m = ida[s][1]
          OBVIOUS
        <4>8. /\ \A k \in 1..Len(t) : t[k].de = Cpu
              /\ \A k \in 1..Len(t) :
                   t[k].pedido = IF en[Cpu] = "recibir" /\ k = Len(t) THEN "lectura" ELSE "write"
          BY <4>5, <4>7
        <4>9. /\ m.de = Cpu
              /\ m.pedido = IF en[Cpu] = "recibir" /\ t = << >> THEN "lectura" ELSE "write"
          BY <4>6, <4>7
        <4>10. ida'["cpu"] = t /\ actual'["cpu"] = m /\ memoria'["cpu"] = "tomar" /\ vuelta'["cpu"] = << >>
          BY <3>2, <4>1, <4>2, <4>3, <4>7
        <4>11. en[Cpu] \in {"fuera", "recibir"} /\ (en[Cpu] = "recibir" => pedido[Cpu] = "lectura")
          BY DEF ConversacionCpu
        <4>12. QED
          BY <4>2, <4>8, <4>9, <4>10, <4>11 DEF ConversacionCpu
      <3>3. QED
        BY <3>1, <3>2, <1>0
    <2>7. RespuestaPropia'
      BY <1>1 DEF MemoriaRecibir, varsClientes, RespuestaPropia
    <2>8. QED
      BY <2>3, <2>4, <2>5, <2>6, <2>7
  <1>2. CASE MemoriaTomar(s)
    <2>1. AdaptadorTypeOK'
      BY <1>0, <1>2 DEF MemoriaTomar, AdaptadorTypeOK, varsClientes
    <2>2. Mutexes'
      BY <1>0, <1>2 DEF MemoriaTomar, AdaptadorTypeOK, varsClientes, Mutexes, Socket
    <2>3. ConversacionKernel'
      BY <1>0, <1>2 DEF MemoriaTomar, AdaptadorTypeOK, varsClientes, ConversacionKernel, Conversando, Suyo
    <2>4. ConversacionCpu'
      BY <1>0, <1>2 DEF MemoriaTomar, AdaptadorTypeOK, varsClientes, ConversacionCpu
    <2>5. RespuestaPropia'
      BY <1>2 DEF MemoriaTomar, varsClientes, RespuestaPropia
    <2>6. QED
      BY <2>1, <2>2, <2>3, <2>4, <2>5
  <1>3. CASE MemoriaAtender(s)
    <2> DEFINE p == actual[s].pedido
    <2>0. actual[s] \in Mensaje /\ p \in Pedido /\ Responde(p) = Respuestas(p)
      BY DEF AdaptadorTypeOK, Mensaje, Responde
    <2>1. CASE p = "write"
      <3>1. vuelta' = vuelta
        BY <1>3, <2>0, <2>1, RespuestasTipos DEF MemoriaAtender
      <3>2. AdaptadorTypeOK'
        BY <1>0, <1>3, <3>1 DEF MemoriaAtender, AdaptadorTypeOK, varsClientes
      <3>3. Mutexes'
        BY <1>0, <1>3 DEF MemoriaAtender, AdaptadorTypeOK, varsClientes, Mutexes
      <3>4. s = "cpu"
        <4>1. s = "kernel" => mutexSocketMemoria \in Hilo /\ p = pedido[mutexSocketMemoria]
                              /\ en[mutexSocketMemoria] = "recibir"
          BY <1>3 DEF MemoriaAtender, AdaptadorTypeOK, ConversacionKernel, Conversando, Suyo
        <4>2. QED
          BY <1>0, <4>1, <2>1 DEF PedidosDelKernel, PedidoKernel
      <3>5. ConversacionKernel'
        BY <1>0, <1>3, <3>1, <3>4 DEF MemoriaAtender, AdaptadorTypeOK, varsClientes, ConversacionKernel, Conversando, Suyo
      <3>6. ConversacionCpu'
        BY <1>0, <1>3, <2>1, <3>1, <3>4 DEF MemoriaAtender, AdaptadorTypeOK, varsClientes, ConversacionCpu
      <3>7. RespuestaPropia'
        BY <1>3, <3>1 DEF MemoriaAtender, varsClientes, RespuestaPropia
      <3>8. QED
        BY <3>2, <3>3, <3>5, <3>6, <3>7
    <2>2. CASE p # "write"
      <3>0. PICK header \in Respuestas(p) :
              vuelta' = [vuelta EXCEPT ![s] = Append(@, [header |-> header, a |-> actual[s]])]
        BY <1>3, <2>0, <2>2, RespuestasTipos DEF MemoriaAtender
      <3> DEFINE r == [header |-> header, a |-> actual[s]]
      <3>1. r \in Respuesta
        BY <2>0, <3>0, RespuestasTipos DEF Respuesta
      <3>2. vuelta'[s] = Append(vuelta[s], r) /\ Append(vuelta[s], r) \in Seq(Respuesta)
        BY <1>0, <3>0, <3>1, UnoMas DEF AdaptadorTypeOK
      <3>3. AdaptadorTypeOK'
        BY <1>0, <1>3, <3>0, <3>2 DEF MemoriaAtender, AdaptadorTypeOK, varsClientes
      <3>4. Mutexes'
        BY <1>0, <1>3 DEF MemoriaAtender, AdaptadorTypeOK, varsClientes, Mutexes
      <3>5. vuelta[s] = << >> => /\ vuelta'[s] # << >> /\ Len(vuelta'[s]) = 1 /\ vuelta'[s][1] = r
        BY <1>0, <3>1, <3>2, UnoMas
      <3>6. memoria'[s] = "soltar" /\ en' = en /\ pedido' = pedido /\ ida' = ida /\ actual' = actual
            /\ mutexSocketMemoria' = mutexSocketMemoria
        BY <1>3 DEF MemoriaAtender, AdaptadorTypeOK, varsClientes
      <3>7. CASE s = "kernel"
        <4>1. Conversando /\ ida[s] = << >> /\ vuelta[s] = << >> /\ Suyo(actual[s])
          BY <3>7, <1>3 DEF MemoriaAtender, ConversacionKernel
        <4>2. ConversacionKernel'
          BY <3>7, <4>1, <3>5, <3>6, <3>0 DEF ConversacionKernel, Conversando, Suyo
        <4>3. memoria'["cpu"] = memoria["cpu"] /\ vuelta'["cpu"] = vuelta["cpu"]
          BY <3>7, <1>3, <3>0 DEF MemoriaAtender, AdaptadorTypeOK, Socket
        <4>4. ConversacionCpu'
          BY <3>6, <4>3 DEF ConversacionCpu
        <4>5. RespuestaPropia'
          BY <1>3, <4>3 DEF MemoriaAtender, varsClientes, RespuestaPropia
        <4>6. QED
          BY <3>3, <3>4, <4>2, <4>4, <4>5
      <3>8. CASE s = "cpu"
        <4>1. en[Cpu] = "recibir" /\ ida[s] = << >> /\ vuelta[s] = << >> /\ p = "lectura" /\ actual[s].de = Cpu
          BY <3>8, <1>3, <2>2 DEF MemoriaAtender, ConversacionCpu
        <4>2. header = "valor" /\ actual[s] = [pedido |-> "lectura", de |-> Cpu]
          BY <4>1, <2>0, <3>0, RespuestasTipos DEF Mensaje
        <4>3. ConversacionCpu'
          BY <3>8, <4>1, <4>2, <3>5, <3>6 DEF ConversacionCpu
        <4>4. memoria'["kernel"] = memoria["kernel"] /\ vuelta'["kernel"] = vuelta["kernel"]
          BY <3>8, <1>3, <3>0 DEF MemoriaAtender, AdaptadorTypeOK, Socket
        <4>5. ConversacionKernel'
          BY <3>6, <4>4 DEF ConversacionKernel, Conversando, Suyo
        <4>6. RespuestaPropia'
          BY <3>8, <1>3, <3>5, <4>1, <4>2 DEF MemoriaAtender, varsClientes, RespuestaPropia
        <4>7. QED
          BY <3>3, <3>4, <4>3, <4>5, <4>6
      <3>9. QED
        BY <1>0, <3>7, <3>8
    <2>3. QED
      BY <2>1, <2>2
  <1>4. CASE MemoriaSoltar(s)
    <2>1. AdaptadorTypeOK'
      BY <1>0, <1>4 DEF MemoriaSoltar, AdaptadorTypeOK, varsClientes
    <2>2. Mutexes'
      BY <1>0, <1>4 DEF MemoriaSoltar, AdaptadorTypeOK, varsClientes, Mutexes, Socket
    <2>3. ConversacionKernel'
      BY <1>0, <1>4 DEF MemoriaSoltar, AdaptadorTypeOK, varsClientes, ConversacionKernel, Conversando, Suyo
    <2>4. ConversacionCpu'
      BY <1>0, <1>4 DEF MemoriaSoltar, AdaptadorTypeOK, varsClientes, ConversacionCpu
    <2>5. RespuestaPropia'
      BY <1>4 DEF MemoriaSoltar, varsClientes, RespuestaPropia
    <2>6. QED
      BY <2>1, <2>2, <2>3, <2>4, <2>5
  <1>5. QED
    BY <1>1, <1>2, <1>3, <1>4 DEF Memoria

\* The conversation with Memory is as AdaptadorIInv says, whatever the threads and their calls.
THEOREM ConversacionInvariante == AdaptadorSpec => []AdaptadorIInv
  <1>1. AdaptadorIInv /\ [AdaptadorNext]_adaptadorVars => AdaptadorIInv'
    <2> SUFFICES ASSUME AdaptadorIInv, [AdaptadorNext]_adaptadorVars PROVE AdaptadorIInv'
      OBVIOUS
    <2>1. CASE UNCHANGED adaptadorVars
      BY <2>1 DEF adaptadorVars, varsClientes, varsMemoria, AdaptadorIInv, AdaptadorTypeOK, PedidosDelKernel, Mutexes, ConversacionKernel, Conversando,
                  Suyo, ConversacionCpu, RespuestaPropia
    <2>2. QED
      BY <2>1, PasoKernel, PasoCpu, PasoMemoria DEF AdaptadorNext
  <1>2. QED
    BY <1>1, InicioIInv, PTL DEF AdaptadorSpec

\* RespuestaPropia: nobody takes the answer to a request that is not the one it made.
THEOREM CadaUnoSuRespuesta == AdaptadorSpec => []RespuestaPropia
  BY ConversacionInvariante, PTL DEF AdaptadorIInv

=============================================================================
