--------------------------- MODULE EstimacionProofs ---------------------------
(***************************************************************************)
(* Theorems about Estimacion, for any clock, any durations and any alfa:   *)
(* the error of what is measured, the estimate as the average of the       *)
(* bursts, and the choice of the process with the least left.              *)
(*                                                                         *)
(* Sums, powers and the choice are folds, so that what they give is shown  *)
(* by induction on the numbers up to the length of the list.               *)
(***************************************************************************)
EXTENDS Estimacion, SequenceTheorems, FiniteSetTheorems, WellFoundedInduction, TLAPS

\* The products the proofs expand.
LEMMA Distributiva ==
  ASSUME NEW a \in Int, NEW b \in Int, NEW c \in Int
  PROVE  (a + b) * c = a * c + b * c /\ a * c \in Int /\ b * c \in Int
  OBVIOUS
LEMMA UnaVezMas ==
  ASSUME NEW a \in Int, NEW c \in Int
  PROVE  (a + 1) * c = a * c + 1 * c /\ a * c \in Int
  OBVIOUS

\* The other product the proofs expand.
LEMMA Asociativa ==
  ASSUME NEW a \in Int, NEW b \in Int, NEW c \in Int
  PROVE  (a * b) * c = a * (b * c) /\ a * b \in Int
  OBVIOUS

-----------------------------------------------------------------------------
(* Folds.                                                                  *)

\* A set of naturals that is not empty has a least one.
LEMMA Minimo ==
  ASSUME NEW T \in SUBSET Nat, T # {}
  PROVE  \E x \in T : \A y \in T : x <= y
<1>1. PICK x0 \in T : TRUE
  OBVIOUS
<1> DEFINE S == 0..x0
           Bajos == {t \in T : t <= x0}
           F == {0..t : t \in Bajos}
           R == StrictSubsetOrdering(S)
<1>2. IsWellFoundedOn(R, SUBSET S)
  <2>1. IsFiniteSet(S)
    BY <1>1, FS_Interval
  <2> HIDE DEF S
  <2> QED BY <2>1, FS_FiniteSubsetsOfFinite, FS_StrictSubsetOrderingWellFounded
<1>3. F \subseteq SUBSET S /\ F # {}
  OBVIOUS
<1>4. PICK I \in F : \A J \in F : <<J, I>> \notin R
  <2> HIDE DEF F, R, S
  <2> QED BY <1>2, <1>3, WFMin
<1>5. PICK x \in Bajos : I = 0..x
  BY <1>4
<1>6. ASSUME NEW y \in T, y < x PROVE FALSE
  <2>1. 0..y \in F /\ 0..y \subseteq I /\ x \in I /\ x \notin 0..y
    BY <1>5, <1>6
  <2>2. 0..y \in SUBSET S /\ I \in SUBSET S
    BY <1>3, <1>4, <2>1
  <2>3. <<0..y, I>> \in R
    BY <2>1, <2>2 DEF StrictSubsetOrdering
  <2> QED BY <1>4, <2>1, <2>3
<1> QED BY <1>5, <1>6

\* Induction up to n, on the set of those that have the property.
LEMMA Induccion ==
  ASSUME NEW n \in Nat, NEW T,
         0 \in T, \A k \in 0..(n - 1) : k \in T => k + 1 \in T
  PROVE  \A k \in 0..n : k \in T
<1> DEFINE F == {k \in 0..n : k \notin T}
<1> SUFFICES ASSUME F # {} PROVE FALSE
  OBVIOUS
<1>1. F \in SUBSET Nat
  OBVIOUS
<1>2. PICK x \in F : \A y \in F : x <= y
  <2> HIDE DEF F
  <2> QED BY <1>1, Minimo
<1>3. x \in 1..n /\ x \notin T
  BY <1>2
<1>4. x - 1 \in 0..(n - 1) /\ x - 1 \in 0..n /\ x - 1 < x
  BY <1>3
<1>5. x - 1 \in T
  <2> SUFFICES ASSUME x - 1 \notin T PROVE FALSE
    OBVIOUS
  <2>1. x - 1 \in F
    BY <1>4
  <2>2. x <= x - 1
    BY <1>2, <2>1
  <2> QED BY <1>3, <1>4, <2>2
<1>6. (x - 1) + 1 \in T
  BY <1>4, <1>5
<1>7. (x - 1) + 1 = x
  BY <1>3
<1> QED BY <1>3, <1>6, <1>7

\* The largest of a set that has m + 1 and nothing above it.
LEMMA Mayor ==
  ASSUME NEW m \in Nat, NEW t \in SUBSET (1..(m + 1)), m + 1 \in t
  PROVE  Max(t) = m + 1 /\ t \ {m + 1} \in SUBSET (1..m)
<1>1. \A y \in t : m + 1 >= y
  OBVIOUS
<1>2. \A x \in t : (\A y \in t : x >= y) => x = m + 1
  OBVIOUS
<1>3. Max(t) \in t /\ \A y \in t : Max(t) >= y
  BY <1>1, Zenon DEF Max
<1>4. Max(t) = m + 1
  BY <1>2, <1>3
<1> QED BY <1>4

\* What a fold of the numbers up to N is: h takes them from the largest down.
Paso(g, b, h, t) == IF t = {} THEN b ELSE h[<<g[t \ {Max(t)}], Max(t)>>]
Pliega(g, V, N, b, h) ==
  g \in [SUBSET (1..N) -> V] /\ \A t \in SUBSET (1..N) : g[t] = Paso(g, b, h, t)

\* A fold exists, whatever is done with each number.
LEMMA PliegueExiste ==
  ASSUME NEW V, NEW N \in Nat, NEW b \in V, NEW h \in [V \X (1..N) -> V]
  PROVE  \E g : Pliega(g, V, N, b, h)
<1> DEFINE T == {m \in 0..N : \E g \in [SUBSET (1..m) -> V] :
                                \A t \in SUBSET (1..m) : g[t] = Paso(g, b, h, t)}
<1>1. 0 \in T
  <2> DEFINE g == [t \in SUBSET (1..0) |-> b]
  <2>1. g \in [SUBSET (1..0) -> V]
    OBVIOUS
  <2>2. \A t \in SUBSET (1..0) : t = {}
    OBVIOUS
  <2>3. \A t \in SUBSET (1..0) : g[t] = Paso(g, b, h, t)
    BY <2>2 DEF Paso
  <2>4. 0 \in 0..N
    OBVIOUS
  <2> HIDE DEF g
  <2> QED BY <2>1, <2>3, <2>4
<1>2. ASSUME NEW m \in 0..(N - 1), m \in T
      PROVE  m + 1 \in T
  <2>1. PICK g \in [SUBSET (1..m) -> V] : \A t \in SUBSET (1..m) : g[t] = Paso(g, b, h, t)
    BY <1>2
  <2> DEFINE D == SUBSET (1..(m + 1))
             f == [t \in D |-> IF m + 1 \in t THEN h[<<g[t \ {m + 1}], m + 1>>] ELSE g[t]]
  <2>2. m \in Nat /\ m + 1 \in 1..N /\ m + 1 \in 0..N
    OBVIOUS
  <2>3. \A t \in D : m + 1 \notin t => t \in SUBSET (1..m)
    BY <2>2
  <2>4. \A t \in D : m + 1 \in t => t \ {m + 1} \in SUBSET (1..m) /\ Max(t) = m + 1
    BY <2>2, Mayor
  <2>5. f \in [D -> V]
    <3> SUFFICES ASSUME NEW t \in D
                 PROVE  (IF m + 1 \in t THEN h[<<g[t \ {m + 1}], m + 1>>] ELSE g[t]) \in V
      OBVIOUS
    <3>1. CASE m + 1 \in t
      <4>1. g[t \ {m + 1}] \in V
        BY <2>1, <2>4, <3>1
      <4>2. <<g[t \ {m + 1}], m + 1>> \in V \X (1..N)
        BY <2>2, <4>1
      <4> QED BY <3>1, <4>2
    <3>2. CASE m + 1 \notin t
      BY <2>1, <2>3, <3>2
    <3> QED BY <3>1, <3>2
  <2>6. ASSUME NEW t \in D
        PROVE  f[t] = Paso(f, b, h, t)
    <3>1. CASE m + 1 \in t
      <4>1. t \ {m + 1} \in D /\ t # {}
        BY <3>1
      <4>2. f[t \ {m + 1}] = g[t \ {m + 1}]
        BY <4>1
      <4>3. f[t] = h[<<g[t \ {m + 1}], m + 1>>]
        BY <3>1
      <4> HIDE DEF f, D
      <4> QED BY <2>4, <2>6, <3>1, <4>1, <4>2, <4>3 DEF Paso
    <3>2. CASE m + 1 \notin t
      <4> DEFINE r == t \ {Max(t)}
      <4>1. t \in SUBSET (1..m) /\ r \in SUBSET (1..m) /\ r \in D
        BY <2>3, <3>2
      <4>2. m + 1 \notin r
        BY <3>2
      <4>3. f[t] = g[t] /\ f[r] = g[r]
        BY <3>2, <4>1, <4>2
      <4> HIDE DEF f, D
      <4>4. g[t] = Paso(g, b, h, t)
        BY <2>1, <4>1
      <4> QED BY <4>3, <4>4 DEF Paso
    <3> QED BY <3>1, <3>2
  <2> HIDE DEF f
  <2> QED BY <2>2, <2>5, <2>6
<1>3. N \in T
  <2> HIDE DEF T
  <2>1. \A k \in 0..N : k \in T
    BY <1>1, <1>2, Induccion
  <2> QED BY <2>1
<1> QED BY <1>3 DEF Pliega

\* Along 1..k, a fold takes the numbers one by one.
LEMMA DeUnoEnUno ==
  ASSUME NEW N \in Nat, NEW k \in 1..N
  PROVE  /\ 1..k \in SUBSET (1..N) /\ 1..k # {}
         /\ Max(1..k) = k /\ (1..k) \ {k} = 1..(k - 1)
<1>1. k - 1 \in Nat /\ (k - 1) + 1 = k
  OBVIOUS
<1>2. 1..k \in SUBSET (1..N) /\ 1..k # {} /\ k \in 1..k
  OBVIOUS
<1>3. Max(1..k) = k
  <2>1. PICK m \in Nat : m + 1 = k
    BY <1>1
  <2>2. 1..k \in SUBSET (1..(m + 1)) /\ m + 1 \in 1..k
    BY <2>1
  <2>3. Max(1..k) = m + 1
    BY <2>2, Mayor
  <2> QED BY <2>1, <2>3
<1>4. (1..k) \ {k} = 1..(k - 1)
  OBVIOUS
<1> QED BY <1>2, <1>3, <1>4

\* The largest of some numbers up to N is one of them.
LEMMA MayorExiste ==
  ASSUME NEW N \in Nat, NEW t \in SUBSET (1..N), t # {}
  PROVE  Max(t) \in t /\ Max(t) \in 1..N /\ t \ {Max(t)} \in SUBSET (1..N)
<1> DEFINE D == {N - x : x \in t}
<1>0. \A x \in t : N - x \in Nat
  OBVIOUS
<1>1. D \in SUBSET Nat /\ D # {}
  BY <1>0
<1>2. PICK d \in D : \A y \in D : d <= y
  <2> HIDE DEF D
  <2> QED BY <1>1, Minimo
<1>3. PICK x \in t : d = N - x
  BY <1>2
<1>4. \A y \in t : x >= y
  <2> SUFFICES ASSUME NEW y \in t PROVE x >= y
    OBVIOUS
  <2>1. N - x <= N - y
    BY <1>2, <1>3
  <2> QED BY <2>1
<1>5. Max(t) \in t
  BY <1>3, <1>4, Zenon DEF Max
<1> QED BY <1>5

\* What Potencia multiplies, and what elegir_pcb_segun_srt compares.
Producto(b, s) == FoldLeft(LAMBDA x, y : x * y, b, s)
Menor(b, s) == FoldLeft(MenorRafagaRestante, b, s)

\* A sum is made of partial sums.
LEMMA SumaPorPartes ==
  ASSUME NEW s \in Seq(Int), NEW b \in Int
  PROVE  \E v : /\ v \in [0..Len(s) -> Int]
                /\ v[0] = b /\ \A k \in 1..Len(s) : v[k] = v[k - 1] + s[k]
                /\ Suma(b, s) = v[Len(s)]
<1> DEFINE N == Len(s)
           h == [x \in Int \X (1..N) |-> x[1] + s[x[2]]]
           Es(g) == g = [t \in SUBSET (DOMAIN s) |->
                           IF t = {} THEN b ELSE g[t \ {Max(t)}] + s[Max(t)]]
           G == CHOOSE g : Es(g)
           v == [k \in 0..N |-> G[1..k]]
<1>1. N \in Nat /\ DOMAIN s = 1..N /\ \A k \in 1..N : s[k] \in Int
  OBVIOUS
<1>2. \A x \in Int, y \in Int : x + y \in Int
  OBVIOUS
<1>3. h \in [Int \X (1..N) -> Int]
  BY <1>1, <1>2
<1>4. \A x \in Int, k \in 1..N : h[<<x, k>>] = x + s[k]
  OBVIOUS
<1> HIDE DEF N, h
<1>5. PICK g : Pliega(g, Int, N, b, h)
  BY <1>1, <1>3, PliegueExiste
<1>6. ASSUME NEW t \in SUBSET (1..N)
      PROVE  g[t] = IF t = {} THEN b ELSE g[t \ {Max(t)}] + s[Max(t)]
  <2>1. CASE t = {}
    BY <1>5, <2>1 DEF Paso, Pliega
  <2>2. CASE t # {}
    <3>1. Max(t) \in 1..N /\ t \ {Max(t)} \in SUBSET (1..N)
      BY <1>1, <2>2, MayorExiste
    <3>2. g[t \ {Max(t)}] \in Int
      BY <1>5, <3>1 DEF Pliega
    <3>3. h[<<g[t \ {Max(t)}], Max(t)>>] = g[t \ {Max(t)}] + s[Max(t)]
      BY <1>4, <3>1, <3>2
    <3> QED BY <1>5, <2>2, <3>3 DEF Paso, Pliega
  <2> QED BY <2>1, <2>2
<1>7. Es(g)
  <2> DEFINE r(t) == IF t = {} THEN b ELSE g[t \ {Max(t)}] + s[Max(t)]
  <2>1. g = [t \in SUBSET (1..N) |-> g[t]]
    BY <1>5 DEF Pliega
  <2>2. \A t \in SUBSET (1..N) : g[t] = r(t)
    BY <1>6
  <2>3. g = [t \in SUBSET (DOMAIN s) |-> r(t)]
    <3> HIDE DEF r
    <3> QED BY <1>1, <2>1, <2>2
  <2> QED BY <2>3
<1>8. Es(G)
  <2> HIDE DEF Es
  <2> QED BY <1>7
<1>9. Suma(b, s) = G[DOMAIN s]
  BY DEF Suma, FoldLeft, MapThenFoldSet
<1> HIDE DEF G
<1>10. \A t \in SUBSET (1..N) : G[t] = IF t = {} THEN b ELSE G[t \ {Max(t)}] + s[Max(t)]
  BY <1>1, <1>8
<1> HIDE DEF Es
<1>11. G[1..0] = b
  <2>1. 1..0 = {} /\ 1..0 \in SUBSET (1..N)
    BY <1>1
  <2> QED BY <1>10, <2>1
<1>12. ASSUME NEW k \in 1..N
       PROVE  G[1..k] = G[1..(k - 1)] + s[k]
  <2>1. 1..k \in SUBSET (1..N) /\ 1..k # {} /\ Max(1..k) = k /\ (1..k) \ {k} = 1..(k - 1)
    BY <1>1, DeUnoEnUno
  <2> QED BY <1>10, <2>1
<1>13. \A k \in 0..N : G[1..k] \in Int
  <2> DEFINE T == {k \in 0..N : G[1..k] \in Int}
  <2>1. 0 \in T
    BY <1>1, <1>11
  <2>2. ASSUME NEW k \in 0..(N - 1), k \in T PROVE k + 1 \in T
    <3>1. k + 1 \in 1..N /\ (k + 1) - 1 = k /\ k + 1 \in 0..N
      BY <1>1
    <3>2. G[1..(k + 1)] = G[1..k] + s[k + 1]
      BY <1>12, <3>1
    <3>3. G[1..k] + s[k + 1] \in Int
      BY <1>1, <1>2, <2>2, <3>1
    <3> QED BY <3>1, <3>2, <3>3
  <2> HIDE DEF T
  <2>3. \A k \in 0..N : k \in T
    BY <1>1, <2>1, <2>2, Induccion
  <2> QED BY <2>3 DEF T
<1>14. v \in [0..N -> Int] /\ v[0] = b
  BY <1>1, <1>11, <1>13
<1>15. ASSUME NEW k \in 1..N
       PROVE  v[k] = v[k - 1] + s[k]
  <2>1. k \in 0..N /\ k - 1 \in 0..N
    BY <1>1
  <2>2. v[k] = G[1..k] /\ v[k - 1] = G[1..(k - 1)]
    BY <2>1
  <2> QED BY <1>12, <2>2
<1>16. v[N] = G[DOMAIN s]
  BY <1>1
<1> HIDE DEF v
<1> QED BY <1>9, <1>14, <1>15, <1>16 DEF N

\* And partial sums make the sum.
LEMMA SumaEs ==
  ASSUME NEW s \in Seq(Int), NEW b \in Int, NEW w,
         w[0] = b, \A k \in 1..Len(s) : w[k] = w[k - 1] + s[k]
  PROVE  Suma(b, s) = w[Len(s)]
<1>1. PICK v : /\ v \in [0..Len(s) -> Int]
               /\ v[0] = b /\ \A k \in 1..Len(s) : v[k] = v[k - 1] + s[k]
               /\ Suma(b, s) = v[Len(s)]
  BY SumaPorPartes
<1> DEFINE T == {k \in 0..Len(s) : v[k] = w[k]}
<1>0. Len(s) \in Nat /\ 0 \in 0..Len(s)
  OBVIOUS
<1>2. 0 \in T
  BY <1>0, <1>1
<1>3. ASSUME NEW k \in 0..(Len(s) - 1), k \in T PROVE k + 1 \in T
  <2>1. k + 1 \in 1..Len(s) /\ (k + 1) - 1 = k /\ k + 1 \in 0..Len(s)
    OBVIOUS
  <2>2. v[k + 1] = v[k] + s[k + 1] /\ w[k + 1] = w[k] + s[k + 1]
    BY <1>1, <2>1
  <2>3. v[k] = w[k]
    BY <1>3
  <2>4. v[k + 1] = w[k + 1]
    BY <2>2, <2>3, Zenon
  <2> QED BY <2>1, <2>4
<1> HIDE DEF T
<1>4. Len(s) \in T
  <2>1. \A k \in 0..Len(s) : k \in T
    BY <1>0, <1>2, <1>3, Induccion
  <2> QED BY <1>0, <2>1
<1> QED BY <1>1, <1>4 DEF T

\* A product is made of partial products.
LEMMA ProductoPorPartes ==
  ASSUME NEW s \in Seq(Int), NEW b \in Int
  PROVE  \E v : /\ v \in [0..Len(s) -> Int]
                /\ v[0] = b /\ \A k \in 1..Len(s) : v[k] = v[k - 1] * s[k]
                /\ Producto(b, s) = v[Len(s)]
<1> DEFINE N == Len(s)
           h == [x \in Int \X (1..N) |-> x[1] * s[x[2]]]
           Es(g) == g = [t \in SUBSET (DOMAIN s) |->
                           IF t = {} THEN b ELSE g[t \ {Max(t)}] * s[Max(t)]]
           G == CHOOSE g : Es(g)
           v == [k \in 0..N |-> G[1..k]]
<1>1. N \in Nat /\ DOMAIN s = 1..N /\ \A k \in 1..N : s[k] \in Int
  OBVIOUS
<1>2. \A x \in Int, y \in Int : x * y \in Int
  OBVIOUS
<1>3. h \in [Int \X (1..N) -> Int]
  BY <1>1, <1>2
<1>4. \A x \in Int, k \in 1..N : h[<<x, k>>] = x * s[k]
  OBVIOUS
<1> HIDE DEF N, h
<1>5. PICK g : Pliega(g, Int, N, b, h)
  BY <1>1, <1>3, PliegueExiste
<1>6. ASSUME NEW t \in SUBSET (1..N)
      PROVE  g[t] = IF t = {} THEN b ELSE g[t \ {Max(t)}] * s[Max(t)]
  <2>1. CASE t = {}
    BY <1>5, <2>1 DEF Paso, Pliega
  <2>2. CASE t # {}
    <3>1. Max(t) \in 1..N /\ t \ {Max(t)} \in SUBSET (1..N)
      BY <1>1, <2>2, MayorExiste
    <3>2. g[t \ {Max(t)}] \in Int
      BY <1>5, <3>1 DEF Pliega
    <3>3. h[<<g[t \ {Max(t)}], Max(t)>>] = g[t \ {Max(t)}] * s[Max(t)]
      BY <1>4, <3>1, <3>2
    <3> QED BY <1>5, <2>2, <3>3 DEF Paso, Pliega
  <2> QED BY <2>1, <2>2
<1>7. Es(g)
  <2> DEFINE r(t) == IF t = {} THEN b ELSE g[t \ {Max(t)}] * s[Max(t)]
  <2>1. g = [t \in SUBSET (1..N) |-> g[t]]
    BY <1>5 DEF Pliega
  <2>2. \A t \in SUBSET (1..N) : g[t] = r(t)
    BY <1>6
  <2>3. g = [t \in SUBSET (DOMAIN s) |-> r(t)]
    <3> HIDE DEF r
    <3> QED BY <1>1, <2>1, <2>2
  <2> QED BY <2>3
<1>8. Es(G)
  <2> HIDE DEF Es
  <2> QED BY <1>7
<1>9. Producto(b, s) = G[DOMAIN s]
  BY DEF Producto, FoldLeft, MapThenFoldSet
<1> HIDE DEF G
<1>10. \A t \in SUBSET (1..N) : G[t] = IF t = {} THEN b ELSE G[t \ {Max(t)}] * s[Max(t)]
  BY <1>1, <1>8
<1> HIDE DEF Es
<1>11. G[1..0] = b
  <2>1. 1..0 = {} /\ 1..0 \in SUBSET (1..N)
    BY <1>1
  <2> QED BY <1>10, <2>1
<1>12. ASSUME NEW k \in 1..N
       PROVE  G[1..k] = G[1..(k - 1)] * s[k]
  <2>1. 1..k \in SUBSET (1..N) /\ 1..k # {} /\ Max(1..k) = k /\ (1..k) \ {k} = 1..(k - 1)
    BY <1>1, DeUnoEnUno
  <2> QED BY <1>10, <2>1
<1>13. \A k \in 0..N : G[1..k] \in Int
  <2> DEFINE T == {k \in 0..N : G[1..k] \in Int}
  <2>1. 0 \in T
    BY <1>1, <1>11
  <2>2. ASSUME NEW k \in 0..(N - 1), k \in T PROVE k + 1 \in T
    <3>1. k + 1 \in 1..N /\ (k + 1) - 1 = k /\ k + 1 \in 0..N
      BY <1>1
    <3>2. G[1..(k + 1)] = G[1..k] * s[k + 1]
      BY <1>12, <3>1
    <3>3. G[1..k] * s[k + 1] \in Int
      BY <1>1, <1>2, <2>2, <3>1
    <3> QED BY <3>1, <3>2, <3>3
  <2> HIDE DEF T
  <2>3. \A k \in 0..N : k \in T
    BY <1>1, <2>1, <2>2, Induccion
  <2> QED BY <2>3 DEF T
<1>14. v \in [0..N -> Int] /\ v[0] = b
  BY <1>1, <1>11, <1>13
<1>15. ASSUME NEW k \in 1..N
       PROVE  v[k] = v[k - 1] * s[k]
  <2>1. k \in 0..N /\ k - 1 \in 0..N
    BY <1>1
  <2>2. v[k] = G[1..k] /\ v[k - 1] = G[1..(k - 1)]
    BY <2>1
  <2> QED BY <1>12, <2>2
<1>16. v[N] = G[DOMAIN s]
  BY <1>1
<1> HIDE DEF v
<1> QED BY <1>9, <1>14, <1>15, <1>16 DEF N

\* And partial products make the product.
LEMMA ProductoEs ==
  ASSUME NEW s \in Seq(Int), NEW b \in Int, NEW w,
         w[0] = b, \A k \in 1..Len(s) : w[k] = w[k - 1] * s[k]
  PROVE  Producto(b, s) = w[Len(s)]
<1>1. PICK v : /\ v \in [0..Len(s) -> Int]
               /\ v[0] = b /\ \A k \in 1..Len(s) : v[k] = v[k - 1] * s[k]
               /\ Producto(b, s) = v[Len(s)]
  BY ProductoPorPartes
<1> DEFINE T == {k \in 0..Len(s) : v[k] = w[k]}
<1>0. Len(s) \in Nat /\ 0 \in 0..Len(s)
  OBVIOUS
<1>2. 0 \in T
  BY <1>0, <1>1
<1>3. ASSUME NEW k \in 0..(Len(s) - 1), k \in T PROVE k + 1 \in T
  <2>1. k + 1 \in 1..Len(s) /\ (k + 1) - 1 = k /\ k + 1 \in 0..Len(s)
    OBVIOUS
  <2>2. v[k + 1] = v[k] * s[k + 1] /\ w[k + 1] = w[k] * s[k + 1]
    BY <1>1, <2>1
  <2>3. v[k] = w[k]
    BY <1>3
  <2>4. v[k + 1] = w[k + 1]
    BY <2>2, <2>3, Zenon
  <2> QED BY <2>1, <2>4
<1> HIDE DEF T
<1>4. Len(s) \in T
  <2>1. \A k \in 0..Len(s) : k \in T
    BY <1>0, <1>2, <1>3, Induccion
  <2> QED BY <1>0, <2>1
<1> QED BY <1>1, <1>4 DEF T

\* The choice of elegir_pcb_segun_srt compares one process after another.
LEMMA MenorPorPartes ==
  ASSUME NEW s \in Seq(Proc), NEW b \in Proc
  PROVE  \E v : /\ v \in [0..Len(s) -> Proc]
                /\ v[0] = b /\ \A k \in 1..Len(s) : v[k] = MenorRafagaRestante(v[k - 1], s[k])
                /\ Menor(b, s) = v[Len(s)]
<1> DEFINE N == Len(s)
           h == [x \in Proc \X (1..N) |-> MenorRafagaRestante(x[1], s[x[2]])]
           Es(g) == g = [t \in SUBSET (DOMAIN s) |->
                           IF t = {} THEN b ELSE MenorRafagaRestante(g[t \ {Max(t)}], s[Max(t)])]
           G == CHOOSE g : Es(g)
           v == [k \in 0..N |-> G[1..k]]
<1>1. N \in Nat /\ DOMAIN s = 1..N /\ \A k \in 1..N : s[k] \in Proc
  OBVIOUS
<1>2. \A x \in Proc, y \in Proc : MenorRafagaRestante(x, y) \in Proc
  BY DEF MenorRafagaRestante
<1>3. h \in [Proc \X (1..N) -> Proc]
  BY <1>1, <1>2
<1>4. \A x \in Proc, k \in 1..N : h[<<x, k>>] = MenorRafagaRestante(x, s[k])
  OBVIOUS
<1> HIDE DEF N, h
<1>5. PICK g : Pliega(g, Proc, N, b, h)
  BY <1>1, <1>3, PliegueExiste
<1>6. ASSUME NEW t \in SUBSET (1..N)
      PROVE  g[t] = IF t = {} THEN b ELSE MenorRafagaRestante(g[t \ {Max(t)}], s[Max(t)])
  <2>1. CASE t = {}
    BY <1>5, <2>1 DEF Paso, Pliega
  <2>2. CASE t # {}
    <3>1. Max(t) \in 1..N /\ t \ {Max(t)} \in SUBSET (1..N)
      BY <1>1, <2>2, MayorExiste
    <3>2. g[t \ {Max(t)}] \in Proc
      BY <1>5, <3>1 DEF Pliega
    <3>3. h[<<g[t \ {Max(t)}], Max(t)>>] = MenorRafagaRestante(g[t \ {Max(t)}], s[Max(t)])
      BY <1>4, <3>1, <3>2
    <3> QED BY <1>5, <2>2, <3>3 DEF Paso, Pliega
  <2> QED BY <2>1, <2>2
<1>7. Es(g)
  <2> DEFINE r(t) == IF t = {} THEN b ELSE MenorRafagaRestante(g[t \ {Max(t)}], s[Max(t)])
  <2>1. g = [t \in SUBSET (1..N) |-> g[t]]
    BY <1>5 DEF Pliega
  <2>2. \A t \in SUBSET (1..N) : g[t] = r(t)
    BY <1>6
  <2>3. g = [t \in SUBSET (DOMAIN s) |-> r(t)]
    <3> HIDE DEF r
    <3> QED BY <1>1, <2>1, <2>2
  <2> QED BY <2>3
<1>8. Es(G)
  <2> HIDE DEF Es
  <2> QED BY <1>7
<1>9. Menor(b, s) = G[DOMAIN s]
  BY DEF Menor, FoldLeft, MapThenFoldSet
<1> HIDE DEF G
<1>10. \A t \in SUBSET (1..N) : G[t] = IF t = {} THEN b ELSE MenorRafagaRestante(G[t \ {Max(t)}], s[Max(t)])
  BY <1>1, <1>8
<1> HIDE DEF Es
<1>11. G[1..0] = b
  <2>1. 1..0 = {} /\ 1..0 \in SUBSET (1..N)
    BY <1>1
  <2> QED BY <1>10, <2>1
<1>12. ASSUME NEW k \in 1..N
       PROVE  G[1..k] = MenorRafagaRestante(G[1..(k - 1)], s[k])
  <2>1. 1..k \in SUBSET (1..N) /\ 1..k # {} /\ Max(1..k) = k /\ (1..k) \ {k} = 1..(k - 1)
    BY <1>1, DeUnoEnUno
  <2> QED BY <1>10, <2>1
<1>13. \A k \in 0..N : G[1..k] \in Proc
  <2> DEFINE T == {k \in 0..N : G[1..k] \in Proc}
  <2>1. 0 \in T
    BY <1>1, <1>11
  <2>2. ASSUME NEW k \in 0..(N - 1), k \in T PROVE k + 1 \in T
    <3>1. k + 1 \in 1..N /\ (k + 1) - 1 = k /\ k + 1 \in 0..N
      BY <1>1
    <3>2. G[1..(k + 1)] = MenorRafagaRestante(G[1..k], s[k + 1])
      BY <1>12, <3>1
    <3>3. MenorRafagaRestante(G[1..k], s[k + 1]) \in Proc
      BY <1>1, <1>2, <2>2, <3>1
    <3> QED BY <3>1, <3>2, <3>3
  <2> HIDE DEF T
  <2>3. \A k \in 0..N : k \in T
    BY <1>1, <2>1, <2>2, Induccion
  <2> QED BY <2>3 DEF T
<1>14. v \in [0..N -> Proc] /\ v[0] = b
  BY <1>1, <1>11, <1>13
<1>15. ASSUME NEW k \in 1..N
       PROVE  v[k] = MenorRafagaRestante(v[k - 1], s[k])
  <2>1. k \in 0..N /\ k - 1 \in 0..N
    BY <1>1
  <2>2. v[k] = G[1..k] /\ v[k - 1] = G[1..(k - 1)]
    BY <2>1
  <2> QED BY <1>12, <2>2
<1>16. v[N] = G[DOMAIN s]
  BY <1>1
<1> HIDE DEF v
<1> QED BY <1>9, <1>14, <1>15, <1>16 DEF N

-----------------------------------------------------------------------------
(* Sums, powers and averages.                                              *)

\* A sum of integers is one.
LEMMA SumaEntera ==
  ASSUME NEW s \in Seq(Int), NEW b \in Int
  PROVE  Suma(b, s) \in Int
<1>1. PICK v : v \in [0..Len(s) -> Int] /\ Suma(b, s) = v[Len(s)]
  BY SumaPorPartes
<1>2. Len(s) \in 0..Len(s)
  OBVIOUS
<1> QED BY <1>1, <1>2

\* Nothing adds up to what there was.
LEMMA SumaDeNada ==
  ASSUME NEW s \in Seq(Int), NEW b \in Int
  PROVE  Len(s) = 0 => Suma(b, s) = b
<1>1. PICK v : /\ v \in [0..Len(s) -> Int]
               /\ v[0] = b /\ \A k \in 1..Len(s) : v[k] = v[k - 1] + s[k]
               /\ Suma(b, s) = v[Len(s)]
  BY SumaPorPartes
<1> QED BY <1>1

\* The empty list has nothing to add.
LEMMA SumaVacia ==
  ASSUME NEW b \in Int
  PROVE  Suma(b, << >>) = b
<1>1. << >> \in Seq(Int) /\ Len(<< >>) = 0
  OBVIOUS
<1> QED BY <1>1, SumaDeNada, Zenon

\* One more is added last.
LEMMA SumaConUno ==
  ASSUME NEW s \in Seq(Int), NEW b \in Int, NEW x \in Int
  PROVE  Suma(b, Append(s, x)) = Suma(b, s) + x
<1> DEFINE u == Append(s, x)
<1>1. /\ u \in Seq(Int) /\ Len(u) = Len(s) + 1 /\ Len(s) \in Nat
      /\ u[Len(s) + 1] = x /\ \A k \in 1..Len(s) : u[k] = s[k]
  OBVIOUS
<1> HIDE DEF u
<1>2. PICK v : /\ v \in [0..Len(u) -> Int]
               /\ v[0] = b /\ \A k \in 1..Len(u) : v[k] = v[k - 1] + u[k]
               /\ Suma(b, u) = v[Len(u)]
  BY <1>1, SumaPorPartes
<1>3. \A k \in 1..Len(s) : v[k] = v[k - 1] + s[k]
  BY <1>1, <1>2
<1>4. Suma(b, s) = v[Len(s)]
  BY <1>2, <1>3, SumaEs
<1>5. v[Len(s) + 1] = v[Len(s)] + x
  <2>1. Len(s) + 1 \in 1..Len(u) /\ (Len(s) + 1) - 1 = Len(s)
    BY <1>1
  <2>2. v[Len(s) + 1] = v[(Len(s) + 1) - 1] + u[Len(s) + 1]
    BY <1>2, <2>1
  <2> QED BY <1>1, <2>1, <2>2
<1> QED BY <1>1, <1>2, <1>4, <1>5 DEF u

\* What there was is added to the rest.
LEMMA SumaDesde ==
  ASSUME NEW s \in Seq(Int), NEW b \in Int
  PROVE  Suma(b, s) = b + Suma(0, s)
<1>1. PICK v : /\ v \in [0..Len(s) -> Int]
               /\ v[0] = 0 /\ \A k \in 1..Len(s) : v[k] = v[k - 1] + s[k]
               /\ Suma(0, s) = v[Len(s)]
  BY SumaPorPartes
<1> DEFINE w == [k \in 0..Len(s) |-> b + v[k]]
<1>2. Len(s) \in Nat /\ Len(s) \in 0..Len(s)
  OBVIOUS
<1>3. w[0] = b
  BY <1>1, <1>2
<1>4. ASSUME NEW k \in 1..Len(s) PROVE w[k] = w[k - 1] + s[k]
  <2>1. k \in 0..Len(s) /\ k - 1 \in 0..Len(s) /\ s[k] \in Int
    BY <1>2
  <2>2. v[k] \in Int /\ v[k - 1] \in Int /\ v[k] = v[k - 1] + s[k]
    BY <1>1, <2>1
  <2>3. w[k] = b + v[k] /\ w[k - 1] = b + v[k - 1]
    BY <2>1
  <2> QED BY <2>1, <2>2, <2>3
<1>5. w[Len(s)] = b + v[Len(s)]
  BY <1>2
<1> HIDE DEF w
<1>6. Suma(b, s) = w[Len(s)]
  BY <1>3, <1>4, SumaEs
<1> QED BY <1>1, <1>5, <1>6

\* A power, one factor at a time.
LEMMA PotenciaDeUno ==
  ASSUME NEW b \in Int, NEW n \in Nat
  PROVE  /\ Potencia(b, 0) = 1 /\ Potencia(b, n) \in Int
         /\ Potencia(b, n + 1) = Potencia(b, n) * b
<1> DEFINE q(m) == [k \in 1..m |-> b]
<1>1. \A m \in Nat : q(m) \in Seq(Int) /\ Len(q(m)) = m /\ \A k \in 1..m : q(m)[k] = b
  OBVIOUS
<1>2. \A m \in Nat : Potencia(b, m) = Producto(1, q(m))
  BY DEF Potencia, Producto
<1> HIDE DEF q
<1>3. ASSUME NEW m \in Nat
      PROVE  \E v : /\ v \in [0..m -> Int] /\ v[0] = 1
                    /\ \A k \in 1..m : v[k] = v[k - 1] * b
                    /\ Potencia(b, m) = v[m]
  <2>1. PICK s \in Seq(Int) : s = q(m)
    BY <1>1
  <2>2. Len(s) = m /\ \A k \in 1..m : s[k] = b
    BY <1>1, <2>1
  <2>3. PICK v : /\ v \in [0..Len(s) -> Int]
                 /\ v[0] = 1 /\ \A k \in 1..Len(s) : v[k] = v[k - 1] * s[k]
                 /\ Producto(1, s) = v[Len(s)]
    BY ProductoPorPartes
  <2>4. Potencia(b, m) = v[m]
    BY <1>2, <2>1, <2>2, <2>3
  <2> QED BY <2>2, <2>3, <2>4
<1>4. Potencia(b, 0) = 1
  <2>1. PICK v : v[0] = 1 /\ Potencia(b, 0) = v[0]
    BY <1>3
  <2> QED BY <2>1
<1>5. PICK v : /\ v \in [0..(n + 1) -> Int] /\ v[0] = 1
               /\ \A k \in 1..(n + 1) : v[k] = v[k - 1] * b
               /\ Potencia(b, n + 1) = v[n + 1]
  <2>1. n + 1 \in Nat
    OBVIOUS
  <2> QED BY <1>3, <2>1
<1>6. Potencia(b, n) = v[n]
  <2>1. PICK s \in Seq(Int) : s = q(n)
    BY <1>1
  <2>2. Len(s) = n /\ \A k \in 1..n : s[k] = b
    BY <1>1, <2>1
  <2>3. \A k \in 1..Len(s) : v[k] = v[k - 1] * s[k]
    BY <1>5, <2>2
  <2>4. Producto(1, s) = v[Len(s)]
    <3>1. 1 \in Int /\ v[0] = 1
      BY <1>5
    <3> QED BY <2>3, <3>1, ProductoEs
  <2> QED BY <1>2, <2>1, <2>2, <2>4
<1>7. n + 1 \in 1..(n + 1) /\ (n + 1) - 1 = n /\ n \in 0..(n + 1)
  OBVIOUS
<1>8. v[n + 1] = v[n] * b /\ v[n] \in Int
  <2>1. v[n + 1] = v[(n + 1) - 1] * b
    BY <1>5, <1>7
  <2> QED BY <1>5, <1>7, <2>1
<1> QED BY <1>4, <1>5, <1>6, <1>8

\* The power of a sum is the product of the powers.
LEMMA PotenciaDeSuma ==
  ASSUME NEW b \in Int, NEW n \in Nat, NEW m \in Nat
  PROVE  Potencia(b, n + m) = Potencia(b, n) * Potencia(b, m)
<1> DEFINE T == {k \in 0..m : Potencia(b, n + k) = Potencia(b, n) * Potencia(b, k)}
<1>1. 0 \in T
  <2>1. Potencia(b, 0) = 1 /\ Potencia(b, n) \in Int /\ n + 0 = n
    BY PotenciaDeUno
  <2>2. Potencia(b, n + 0) = Potencia(b, n) * Potencia(b, 0)
    BY <2>1
  <2> QED BY <2>2
<1>2. ASSUME NEW k \in 0..(m - 1), k \in T PROVE k + 1 \in T
  <2>1. k \in Nat /\ n + k \in Nat /\ (n + k) + 1 = n + (k + 1) /\ k + 1 \in 0..m
    OBVIOUS
  <2>2. Potencia(b, (n + k) + 1) = Potencia(b, n + k) * b
    BY <2>1, PotenciaDeUno
  <2>3. Potencia(b, k + 1) = Potencia(b, k) * b
    BY <2>1, PotenciaDeUno
  <2>4. Potencia(b, n) \in Int /\ Potencia(b, k) \in Int
    BY <2>1, PotenciaDeUno
  <2>5. Potencia(b, n + k) = Potencia(b, n) * Potencia(b, k)
    BY <1>2
  <2>6. (Potencia(b, n) * Potencia(b, k)) * b = Potencia(b, n) * (Potencia(b, k) * b)
    BY <2>4, Asociativa
  <2>7. Potencia(b, n + (k + 1)) = Potencia(b, n) * Potencia(b, k + 1)
    BY <2>1, <2>2, <2>3, <2>5, <2>6
  <2> QED BY <2>1, <2>7
<1> HIDE DEF T
<1>3. m \in T
  <2>1. \A k \in 0..m : k \in T
    BY <1>1, <1>2, Induccion
  <2> QED BY <2>1
<1> QED BY <1>3 DEF T

\* The sum behind the average.
Peso(n, k) == AlfaNum * Potencia(AlfaDen - AlfaNum, n - k) * Potencia(AlfaDen, k - 1)
Pesadas(rs) == [k \in 1..Len(rs) |-> Peso(Len(rs), k) * rs[k]]

\* The weights are integers, and one burst more multiplies them by one minus alfa.
LEMMA PesoSiguiente ==
  ASSUME NEW n \in Nat, NEW k \in 1..n
  PROVE  /\ Peso(n, k) \in Int
         /\ Peso(n + 1, k) = (AlfaDen - AlfaNum) * Peso(n, k)
         /\ Peso(n + 1, n + 1) = AlfaNum * Potencia(AlfaDen, n)
<1> DEFINE C == AlfaDen - AlfaNum
<1>1. AlfaNum \in Int /\ AlfaDen \in Int /\ C \in Int
  BY AlfaAssumption
<1>2. n - k \in Nat /\ k - 1 \in Nat /\ (n + 1) - k = (n - k) + 1 /\ (n + 1) - (n + 1) = 0 /\ (n + 1) - 1 = n
  OBVIOUS
<1> HIDE DEF C
<1>3. PICK x \in Int : x = Potencia(C, n - k) /\ Potencia(C, (n + 1) - k) = x * C
  BY <1>1, <1>2, PotenciaDeUno
<1>4. PICK y \in Int : y = Potencia(AlfaDen, k - 1)
  BY <1>1, <1>2, PotenciaDeUno
<1>5. PICK z \in Int : z = Potencia(AlfaDen, n)
  BY <1>1, PotenciaDeUno
<1>6. Peso(n, k) = (AlfaNum * x) * y /\ Peso(n + 1, k) = (AlfaNum * (x * C)) * y
  BY <1>3, <1>4 DEF Peso, C
<1>7. (AlfaNum * (x * C)) * y = C * ((AlfaNum * x) * y) /\ (AlfaNum * x) * y \in Int
  <2> PICK a \in Int : a = AlfaNum
    BY <1>1
  <2>1. (a * (x * C)) * y = C * ((a * x) * y) /\ (a * x) * y \in Int
    BY <1>1
  <2> QED BY <2>1
<1>8. Peso(n + 1, n + 1) = (AlfaNum * Potencia(C, 0)) * z
  BY <1>2, <1>5 DEF Peso, C
<1>9. Potencia(C, 0) = 1
  BY <1>1, PotenciaDeUno
<1>10. AlfaNum * 1 = AlfaNum
  BY <1>1
<1> QED BY <1>5, <1>6, <1>7, <1>8, <1>9, <1>10 DEF C

\* One burst more, in the sum behind the average.
LEMMA PesadasConUna ==
  ASSUME NEW rs \in Seq(Int), NEW r \in Int
  PROVE  /\ Suma(0, Pesadas(rs)) \in Int
         /\ Suma(0, Pesadas(Append(rs, r))) =
              (AlfaDen - AlfaNum) * Suma(0, Pesadas(rs))
                + (AlfaNum * Potencia(AlfaDen, Len(rs))) * r
<1> DEFINE C == AlfaDen - AlfaNum
           n == Len(rs)
           us == Append(rs, r)
<1>1. C \in Int /\ n \in Nat
  BY AlfaAssumption
<1>2. /\ us \in Seq(Int) /\ Len(us) = n + 1 /\ us[n + 1] = r
      /\ \A k \in 1..n : us[k] = rs[k] /\ rs[k] \in Int
  OBVIOUS
<1>3. AlfaNum * Potencia(AlfaDen, n) \in Int
  <2>1. AlfaNum \in Int /\ AlfaDen \in Int
    BY AlfaAssumption
  <2>2. Potencia(AlfaDen, n) \in Int
    BY <1>1, <2>1, PotenciaDeUno
  <2> QED BY <2>1, <2>2
<1> HIDE DEF n, us
<1>4. \A k \in 1..n : Peso(n, k) \in Int
  BY <1>1, PesoSiguiente
<1>5. PICK p : p = Pesadas(rs)
  OBVIOUS
<1>6. p \in Seq(Int) /\ Len(p) = n /\ \A k \in 1..n : p[k] = Peso(n, k) * rs[k] /\ p[k] \in Int
  <2>1. p = [k \in 1..n |-> Peso(n, k) * rs[k]]
    BY <1>5 DEF Pesadas, n
  <2>2. \A k \in 1..n : Peso(n, k) * rs[k] \in Int
    BY <1>2, <1>4
  <2> QED BY <1>1, <2>1, <2>2
<1>7. PICK q : q = Pesadas(us)
  OBVIOUS
<1>8. /\ q \in Seq(Int) /\ Len(q) = n + 1
      /\ q[n + 1] = (AlfaNum * Potencia(AlfaDen, n)) * r
      /\ \A k \in 1..n : q[k] = C * p[k]
  <2>1. q = [k \in 1..(n + 1) |-> Peso(n + 1, k) * us[k]]
    BY <1>2, <1>7 DEF Pesadas
  <2>2. ASSUME NEW k \in 1..n
        PROVE  k \in 1..(n + 1) /\ Peso(n + 1, k) * us[k] = C * p[k] /\ C * p[k] \in Int
    <3>1. Peso(n + 1, k) = C * Peso(n, k) /\ Peso(n, k) \in Int /\ us[k] = rs[k] /\ rs[k] \in Int
      BY <1>1, <1>2, PesoSiguiente DEF C
    <3>2. (C * Peso(n, k)) * rs[k] = C * (Peso(n, k) * rs[k])
      BY <1>1, <3>1, Asociativa
    <3>3. k \in 1..(n + 1)
      BY <1>1
    <3>4. C * p[k] \in Int
      BY <1>1, <1>6
    <3> QED BY <1>6, <3>1, <3>2, <3>3, <3>4
  <2>3. n + 1 \in 1..(n + 1) /\ Peso(n + 1, n + 1) * us[n + 1] = (AlfaNum * Potencia(AlfaDen, n)) * r
    <3>1. CASE n = 0
      <4>1. Peso(1, 1) = (AlfaNum * Potencia(AlfaDen - AlfaNum, 0)) * Potencia(AlfaDen, 0)
        BY DEF Peso
      <4>2. Potencia(AlfaDen - AlfaNum, 0) = 1
        BY <1>1, PotenciaDeUno DEF C
      <4>3. AlfaNum * 1 = AlfaNum
        BY AlfaAssumption
      <4>4. n + 1 = 1 /\ 1 \in 1..1
        BY <3>1
      <4>5. Peso(n + 1, n + 1) = AlfaNum * Potencia(AlfaDen, n)
        BY <3>1, <4>1, <4>2, <4>3, <4>4
      <4> QED BY <1>2, <4>4, <4>5
    <3>2. CASE n # 0
      <4>1. n \in 1..n /\ n + 1 \in 1..(n + 1)
        BY <1>1, <3>2
      <4>2. Peso(n + 1, n + 1) = AlfaNum * Potencia(AlfaDen, n)
        BY <1>1, <4>1, PesoSiguiente
      <4> QED BY <1>2, <4>1, <4>2
    <3> QED BY <3>1, <3>2
  <2>4. \A k \in 1..(n + 1) : k \in 1..n \/ k = n + 1
    BY <1>1
  <2>5. (AlfaNum * Potencia(AlfaDen, n)) * r \in Int
    BY <1>3
  <2>6. \A k \in 1..(n + 1) : q[k] \in Int
    BY <2>1, <2>2, <2>3, <2>4, <2>5
  <2>7. q \in Seq(Int) /\ Len(q) = n + 1
    <3>1. q = [k \in 1..(n + 1) |-> q[k]] /\ n + 1 \in Nat
      BY <1>1, <2>1
    <3>2. q \in [1..(n + 1) -> Int]
      BY <2>6, <3>1
    <3>3. q \in Seq(Int)
      BY <3>1, <3>2, SeqDef
    <3>4. Len(q) = n + 1
      BY <3>1, <3>2, <3>3, LenProperties
    <3> QED BY <3>3, <3>4
  <2> QED BY <2>1, <2>2, <2>3, <2>7
<1>9. PICK v : /\ v \in [0..n -> Int]
               /\ v[0] = 0 /\ \A k \in 1..n : v[k] = v[k - 1] + p[k]
               /\ Suma(0, p) = v[n]
  <2>1. PICK v : /\ v \in [0..Len(p) -> Int]
                 /\ v[0] = 0 /\ \A k \in 1..Len(p) : v[k] = v[k - 1] + p[k]
                 /\ Suma(0, p) = v[Len(p)]
    <3>1. 0 \in Int /\ p \in Seq(Int)
      BY <1>6
    <3> QED BY <3>1, SumaPorPartes
  <2> QED BY <1>6, <2>1
<1> DEFINE w == [k \in 0..(n + 1) |-> IF k = n + 1 THEN C * v[n] + q[n + 1] ELSE C * v[k]]
<1>10. w[0] = 0
  <2>1. 0 \in 0..(n + 1) /\ 0 # n + 1 /\ C * 0 = 0
    BY <1>1
  <2> QED BY <1>9, <2>1
<1>11. ASSUME NEW k \in 1..(n + 1) PROVE w[k] = w[k - 1] + q[k]
  <2>1. k \in 0..(n + 1) /\ k - 1 \in 0..(n + 1) /\ k - 1 # n + 1
    BY <1>1
  <2>2. CASE k = n + 1
    <3>1. w[k] = C * v[n] + q[n + 1] /\ w[k - 1] = C * v[k - 1] /\ k - 1 = n
      BY <1>1, <2>1, <2>2
    <3> QED BY <2>2, <3>1
  <2>3. CASE k # n + 1
    <3>1. k \in 1..n /\ k \in 0..n /\ k - 1 \in 0..n
      BY <1>1, <2>3
    <3>2. w[k] = C * v[k] /\ w[k - 1] = C * v[k - 1]
      BY <2>1, <2>3
    <3>3. v[k] = v[k - 1] + p[k] /\ v[k - 1] \in Int /\ p[k] \in Int /\ q[k] = C * p[k]
      BY <1>6, <1>8, <1>9, <3>1
    <3>4. C * (v[k - 1] + p[k]) = C * v[k - 1] + C * p[k]
      BY <1>1, <3>3
    <3> QED BY <3>2, <3>3, <3>4
  <2> QED BY <2>2, <2>3
<1>12. w[n + 1] = C * v[n] + q[n + 1]
  BY <1>1
<1> HIDE DEF w
<1>13. Suma(0, q) = w[n + 1]
  <2>1. 0 \in Int /\ \A k \in 1..Len(q) : w[k] = w[k - 1] + q[k]
    BY <1>8, <1>11
  <2>2. Suma(0, q) = w[Len(q)]
    BY <1>8, <1>10, <2>1, SumaEs
  <2> QED BY <1>8, <2>2
<1>14. Suma(0, p) \in Int
  BY <1>6, SumaEntera
<1>15. Suma(0, q) = C * Suma(0, p) + (AlfaNum * Potencia(AlfaDen, n)) * r
  BY <1>8, <1>9, <1>12, <1>13
<1> QED BY <1>5, <1>7, <1>14, <1>15 DEF C, n, us

\* The average, with its parts named.
LEMMA PromedioPorPartes ==
  ASSUME NEW rs
  PROVE  Promedio(rs) = (Potencia(AlfaDen - AlfaNum, Len(rs)) * EstimacionInicial + Suma(0, Pesadas(rs)))
                          * Potencia(AlfaDen, MaxRafagas - Len(rs))
BY DEF Promedio, Pesadas, Peso

\* A division that leaves nothing.
LEMMA DivisionExacta ==
  ASSUME NEW b \in Nat \ {0}, NEW q \in Int
  PROVE  (b * q) \div b = q
OBVIOUS

\* What the products of MediaExponencial come to.
LEMMA Cuentas ==
  ASSUME NEW a \in Int, NEW c \in Int, NEW d \in Int, NEW w \in Int, NEW x \in Int, NEW y \in Int,
         NEW s \in Int, NEW r \in Int, NEW e \in Int
  PROVE  /\ (a * r) * (w * (x * d)) + c * ((y * e + s) * (x * d))
               = d * (((y * c) * e + (c * s + (a * w) * r)) * x)
         /\ ((y * c) * e + (c * s + (a * w) * r)) * x \in Int
OBVIOUS

\* The average of the bursts is a whole number, and the estimate after one burst more is the
\* average of all of them: the division leaves nothing.
LEMMA PromedioSiguiente ==
  ASSUME NEW rs \in Seq(Int), Len(rs) < MaxRafagas, NEW r \in Int
  PROVE  MediaExponencial(r, Promedio(rs)) = Promedio(Append(rs, r))
<1> DEFINE us == Append(rs, r)
           n == Len(rs)
           C == AlfaDen - AlfaNum
           j == (MaxRafagas - n) - 1
<1>1. /\ AlfaNum \in Int /\ AlfaDen \in Nat \ {0} /\ AlfaDen \in Int /\ C \in Int
      /\ EstimacionInicial \in Int /\ MaxRafagas \in Nat
  BY AlfaAssumption, CotasAssumption
<1>2. n \in Nat /\ n < MaxRafagas /\ us \in Seq(Int) /\ Len(us) = n + 1
  OBVIOUS
<1>3. j \in Nat /\ MaxRafagas - n = j + 1 /\ MaxRafagas - (n + 1) = j /\ MaxRafagas = n + (j + 1)
  BY <1>1, <1>2
<1> HIDE DEF us, n, j, C
<1>4. PICK w \in Int : w = Potencia(AlfaDen, n)
  BY <1>1, <1>2, PotenciaDeUno
<1>5. PICK x \in Int : x = Potencia(AlfaDen, j) /\ Potencia(AlfaDen, j + 1) = x * AlfaDen
  BY <1>1, <1>3, PotenciaDeUno
<1>6. PICK y \in Int : y = Potencia(C, n) /\ Potencia(C, n + 1) = y * C
  BY <1>1, <1>2, PotenciaDeUno
<1>7. Escala = w * (x * AlfaDen)
  <2>1. j + 1 \in Nat
    BY <1>3
  <2>2. Potencia(AlfaDen, n + (j + 1)) = Potencia(AlfaDen, n) * Potencia(AlfaDen, j + 1)
    BY <1>1, <1>2, <2>1, PotenciaDeSuma
  <2> QED BY <1>3, <1>4, <1>5, <2>2 DEF Escala
<1>8. PICK s \in Int : s = Suma(0, Pesadas(rs)) /\ Suma(0, Pesadas(us)) = C * s + (AlfaNum * w) * r
  BY <1>4, PesadasConUna DEF us, C, n
<1>9. Promedio(rs) = (y * EstimacionInicial + s) * (x * AlfaDen)
  BY <1>3, <1>5, <1>6, <1>8, PromedioPorPartes DEF n, C
<1>10. Promedio(us) = ((y * C) * EstimacionInicial + (C * s + (AlfaNum * w) * r)) * x
  BY <1>2, <1>3, <1>5, <1>6, <1>8, PromedioPorPartes DEF C
<1>11. MediaExponencial(r, Promedio(rs)) =
         ((AlfaNum * r) * (w * (x * AlfaDen)) + C * ((y * EstimacionInicial + s) * (x * AlfaDen)))
           \div AlfaDen
  BY <1>7, <1>9 DEF MediaExponencial, C
<1>12. PICK q \in Int : q = ((y * C) * EstimacionInicial + (C * s + (AlfaNum * w) * r)) * x
  BY <1>1, Cuentas
<1>13. (AlfaNum * r) * (w * (x * AlfaDen)) + C * ((y * EstimacionInicial + s) * (x * AlfaDen)) = AlfaDen * q
  BY <1>1, <1>12, Cuentas
<1>14. (AlfaDen * q) \div AlfaDen = q
  BY <1>1, DivisionExacta
<1> QED BY <1>10, <1>11, <1>12, <1>13, <1>14 DEF us

\* The average of no bursts is the initial estimate.
LEMMA PromedioInicial == Promedio(<< >>) = EstimacionInicial * Escala
<1>1. EstimacionInicial \in Int /\ AlfaDen \in Int /\ AlfaDen - AlfaNum \in Int /\ MaxRafagas \in Nat
  BY AlfaAssumption, CotasAssumption
<1>2. Len(<< >>) = 0 /\ MaxRafagas - 0 = MaxRafagas
  BY <1>1
<1>3. Potencia(AlfaDen - AlfaNum, 0) = 1
  BY <1>1, PotenciaDeUno
<1>4. Suma(0, Pesadas(<< >>)) = 0
  <2>1. PICK p : p = Pesadas(<< >>)
    OBVIOUS
  <2>2. p = << >>
    BY <2>1 DEF Pesadas
  <2> QED BY <2>1, <2>2, SumaVacia
<1>5. Promedio(<< >>) = (1 * EstimacionInicial + 0) * Potencia(AlfaDen, MaxRafagas)
  BY <1>2, <1>3, <1>4, PromedioPorPartes
<1>6. 1 * EstimacionInicial + 0 = EstimacionInicial
  BY <1>1
<1> QED BY <1>5, <1>6 DEF Escala

-----------------------------------------------------------------------------
(* The clock.                                                              *)

\* Quotient and remainder of naturals.
LEMMA Division ==
  ASSUME NEW b \in Nat \ {0}, NEW a \in Nat
  PROVE  a \div b \in Nat /\ a % b \in 0..(b - 1) /\ a = (a \div b) * b + (a % b)
  OBVIOUS

\* A division of C is less than one away from the fraction.
LEMMA CocienteCerca ==
  ASSUME NEW a \in Int, NEW b \in Nat \ {0}
  PROVE  /\ Cociente(a, b) \in Int
         /\ Cociente(a, b) * b - a \in -(b - 1)..(b - 1)
  <1>1. CASE a >= 0
    <2>0. a \in Nat
      BY <1>1
    <2>1. a \div b \in Nat /\ a % b \in 0..(b - 1) /\ a = (a \div b) * b + (a % b)
      BY <2>0, Division, Zenon
    <2>2. Cociente(a, b) = a \div b
      BY <1>1 DEF Cociente
    <2>3. (a \div b) * b \in Int
      BY <2>1, Asociativa
    <2>4. QED
      BY <2>1, <2>2, <2>3
  <1>2. CASE a < 0
    <2> DEFINE m == -a
               q == m \div b
               r == m % b
    <2>0. m \in Nat
      BY <1>2
    <2>1. q \in Nat /\ r \in 0..(b - 1) /\ m = q * b + r
      <3> HIDE DEF m
      <3>1. QED
        BY <2>0, Division, Zenon
    <2>2. Cociente(a, b) = -q
      BY <1>2 DEF Cociente
    <2>3. q * b \in Int
      BY <2>1, Asociativa
    <2>5. m = -a
      OBVIOUS
    <2> HIDE DEF m, q, r
    <2>4. (-q) * b = -(q * b)
      BY <2>1
    <2>6. QED
      BY <2>1, <2>2, <2>3, <2>4, <2>5
  <1>3. QED
    BY <1>1, <1>2

\* A second has nanoseconds.
LEMMA Segundo == NsPorSegundo \in Nat \ {0} /\ 0 \in 0..(NsPorSegundo - 1)
  <1>1. MsPorSegundo * NsPorMs \in Nat /\ MsPorSegundo * NsPorMs >= 1
    BY RelojAssumption
  <1>2. NsPorSegundo \in Nat \ {0}
    BY <1>1 DEF NsPorSegundo
  <1>3. QED
    BY <1>2

\* One measure is less than a millisecond away from the time that passed.
LEMMA DiferencialCerca ==
  ASSUME NEW inicio \in 0..(NsPorSegundo - 1), NEW d \in Nat
  PROVE  /\ Diferencial(inicio, d) \in Int
         /\ Diferencial(inicio, d) * NsPorMs - d \in -(NsPorMs - 1)..(NsPorMs - 1)
  <1> DEFINE S == NsPorSegundo
             M == MsPorSegundo
             N == NsPorMs
             q == (inicio + d) \div S
             r == (inicio + d) % S
             w == r - inicio
             t == Cociente(w, N)
  <1>1. M \in Nat \ {0} /\ N \in Nat \ {0} /\ S = M * N
    BY RelojAssumption DEF NsPorSegundo
  <1>2. S \in Nat \ {0}
    BY Segundo
  <1>3. inicio \in Nat /\ inicio + d \in Nat
    BY <1>2
  <1>4. q \in Nat /\ r \in 0..(S - 1) /\ inicio + d = q * S + r
    BY <1>2, <1>3, Division
  <1>5. t \in Int /\ t * N - w \in -(N - 1)..(N - 1) /\ w = r - inicio
    <2>1. w \in Int /\ N \in Nat \ {0} /\ w = r - inicio
      <3>1. S \in Nat /\ r \in Int /\ inicio \in Int
        BY <1>2, <1>3, <1>4
      <3> HIDE DEF r, S
      <3>2. QED
        BY <1>1, <3>1
    <2> HIDE DEF w, N
    <2>2. QED
      BY <2>1, CocienteCerca, Zenon
  <1>6. Diferencial(inicio, d) = q * M + t
    BY DEF Diferencial
  <1> HIDE DEF S, M, N, q, r, w, t
  <1>7. (q * M + t) * N = q * S + t * N
    <2>1. q \in Int /\ M \in Int /\ N \in Int /\ q * M \in Int
      BY <1>1, <1>4
    <2>2. (q * M + t) * N = (q * M) * N + t * N
      BY <2>1, <1>5, Distributiva
    <2>3. (q * M) * N = q * (M * N)
      BY <2>1, Asociativa
    <2>4. QED
      BY <2>2, <2>3, <1>1, Zenon
  <1>8. q * M + t \in Int /\ q * S \in Int /\ t * N \in Int
    BY <1>1, <1>2, <1>4, <1>5
  <1>9. (q * M + t) * N - d \in -(N - 1)..(N - 1)
    <2>1. (q * S + t * N) - d \in -(N - 1)..(N - 1)
      <3> DEFINE u == q * S
                 v == t * N
      <3>1. u \in Int /\ v \in Int /\ inicio + d = u + r /\ v - w \in -(N - 1)..(N - 1) /\ w = r - inicio
        BY <1>4, <1>5, <1>8
      <3>2. r \in Int /\ N \in Int /\ inicio \in Int
        BY <1>1, <1>2, <1>3, <1>4
      <3> HIDE DEF u, v
      <3>3. (u + v) - d \in -(N - 1)..(N - 1)
        BY <3>1, <3>2
      <3>4. QED
        BY <3>3 DEF u, v
    <2>2. QED
      BY <2>1, <1>7, Zenon
  <1>10. QED
    BY <1>6, <1>8, <1>9 DEF N

-----------------------------------------------------------------------------
(* The invariant.                                                          *)

IInv == TypeOK /\ ErrorDeMedicion

\* A process begins with nothing measured, so with no error.
LEMMA Inicio == Init => IInv
  <1> SUFFICES ASSUME Init PROVE IInv
    OBVIOUS
  <1>2. TypeOK
    BY Segundo DEF Init, TypeOK
  <1>3. ErrorDeMedicion
    BY RelojAssumption DEF Init, ErrorDeMedicion
  <1>4. QED
    BY <1>2, <1>3 DEF IInv

\* A process that is preempted is charged one more measure, and is in the CPU one more time.
LEMMA PasoDesalojar ==
  ASSUME IInv, NEW p \in Proc, NEW d \in Duracion, Desalojar(p, d)
  PROVE  IInv'
  <1> DEFINE real == Diferencial(start, d)
             N == NsPorMs
  <1>1. d \in Nat /\ N \in Nat \ {0} /\ 0 \in 0..(NsPorSegundo - 1)
    BY RelojAssumption, Segundo
  <1>2. real \in Int /\ real * N - d \in -(N - 1)..(N - 1)
    BY <1>1, DiferencialCerca DEF IInv, TypeOK
  <1>3. /\ realesEjecutadosHastaAhora' = [realesEjecutadosHastaAhora EXCEPT ![p] = @ + real]
        /\ tramos' = [tramos EXCEPT ![p] = Append(@, real)]
        /\ enCpu' = [enCpu EXCEPT ![p] = @ + d]
        /\ start' = 0
    BY DEF Desalojar, Volver
  <1> HIDE DEF real
  <1>4. TypeOK'
    BY <1>1, <1>2, <1>3 DEF IInv, TypeOK
  <1>5. ErrorDeMedicion'
    <2> SUFFICES ASSUME NEW x \in Proc
                 PROVE  LET error == realesEjecutadosHastaAhora'[x] * N - enCpu'[x]
                            cota == Len(tramos'[x]) * (N - 1)
                        IN  -cota <= error /\ error <= cota
      BY DEF ErrorDeMedicion
    <2>1. CASE x # p
      BY <1>3, <2>1 DEF IInv, TypeOK, ErrorDeMedicion
    <2>2. CASE x = p
      <3> DEFINE a == realesEjecutadosHastaAhora[p]
                 l == Len(tramos[p])
                 u == a * N
                 c == l * (N - 1)
                 v == real * N
      <3>1. a \in Int /\ l \in Nat /\ enCpu[p] \in Nat /\ N \in Int /\ N - 1 \in Int
        BY <1>1 DEF IInv, TypeOK
      <3>2. realesEjecutadosHastaAhora'[p] = a + real /\ Len(tramos'[p]) = l + 1 /\ enCpu'[p] = enCpu[p] + d
        BY <1>2, <1>3 DEF IInv, TypeOK
      <3>3. -c <= u - enCpu[p] /\ u - enCpu[p] <= c
        BY DEF IInv, ErrorDeMedicion
      <3>4. (a + real) * N = u + v /\ u \in Int /\ v \in Int
        BY <1>2, <3>1, Distributiva
      <3>5. (l + 1) * (N - 1) = c + (N - 1) /\ c \in Int
        <4> DEFINE k == N - 1
        <4>1. k \in Int /\ l \in Int /\ 1 \in Int
          BY <3>1
        <4> HIDE DEF k, l
        <4>2. (l + 1) * k = l * k + 1 * k /\ l * k \in Int
          BY <4>1, UnaVezMas
        <4>3. (l + 1) * k = l * k + k
          BY <4>1, <4>2
        <4>4. QED
          BY <4>2, <4>3, Zenon DEF k
      <3>6. v - d \in -(N - 1)..(N - 1)
        BY <1>2
      <3> HIDE DEF a, l, u, c, v
      <3>7. -(c + (N - 1)) <= (u + v) - (enCpu[p] + d) /\ (u + v) - (enCpu[p] + d) <= c + (N - 1)
        BY <1>1, <3>1, <3>3, <3>4, <3>5, <3>6
      <3>8. QED
        BY <2>2, <3>2, <3>4, <3>5, <3>7
    <2>3. QED
      BY <2>1, <2>2
  <1>6. QED
    BY <1>4, <1>5 DEF IInv

\* A process that blocks starts again from nothing.
LEMMA PasoBloquear ==
  ASSUME IInv, NEW p \in Proc, NEW d \in Duracion, Bloquear(p, d)
  PROVE  IInv'
  <1>1. /\ realesEjecutadosHastaAhora' = [realesEjecutadosHastaAhora EXCEPT ![p] = 0]
        /\ tramos' = [tramos EXCEPT ![p] = << >>]
        /\ enCpu' = [enCpu EXCEPT ![p] = 0]
        /\ start' = 0
    BY DEF Bloquear, Volver, Actualizar
  <1>2. TypeOK'
    BY <1>1, Segundo DEF IInv, TypeOK
  <1>3. ErrorDeMedicion'
    <2> SUFFICES ASSUME NEW x \in Proc
                 PROVE  LET error == realesEjecutadosHastaAhora'[x] * NsPorMs - enCpu'[x]
                            cota == Len(tramos'[x]) * (NsPorMs - 1)
                        IN  -cota <= error /\ error <= cota
      BY DEF ErrorDeMedicion
    <2>1. CASE x # p
      BY <1>1, <2>1 DEF IInv, TypeOK, ErrorDeMedicion
    <2>2. CASE x = p
      <3>1. realesEjecutadosHastaAhora'[x] = 0 /\ Len(tramos'[x]) = 0 /\ enCpu'[x] = 0
        BY <1>1, <2>2 DEF IInv, TypeOK
      <3>2. QED
        BY <3>1, RelojAssumption
    <2>3. QED
      BY <2>1, <2>2
  <1>4. QED
    BY <1>2, <1>3 DEF IInv

\* No step loses more than a millisecond of a stay.
LEMMA PreservaIInv == IInv /\ [Next]_vars => IInv'
<1> SUFFICES ASSUME IInv, [Next]_vars PROVE IInv'
  OBVIOUS
<1>1. ASSUME NEW p \in Proc, Llegar(p) PROVE IInv'
  BY <1>1 DEF Llegar, campos, historia, IInv, TypeOK, ErrorDeMedicion
<1>2. ASSUME Elegir PROVE IInv'
  BY <1>2, Segundo DEF Elegir, campos, historia, IInv, TypeOK, ErrorDeMedicion
<1>3. ASSUME NEW p \in Proc, Terminar(p) PROVE IInv'
  BY <1>3, Segundo DEF Terminar, Volver, campos, historia, IInv, TypeOK, ErrorDeMedicion
<1>4. CASE UNCHANGED vars
  BY <1>4 DEF vars, campos, historia, IInv, TypeOK, ErrorDeMedicion
<1> QED BY <1>1, <1>2, <1>3, <1>4, PasoDesalojar, PasoBloquear DEF Next

\* ErrorDeMedicion, and the types it needs, whatever the clock, the durations and the bounds.
THEOREM MedicionAcotada == Spec => []ErrorDeMedicion
<1>1. IInv => ErrorDeMedicion
  BY DEF IInv
<1> QED BY <1>1, Inicio, PreservaIInv, PTL DEF Spec

-----------------------------------------------------------------------------
(* The estimates.                                                          *)

\* What the estimates say of the history, with the types that takes: the time a process has
\* had since its last block is the sum of its stays, and its estimate the average of its bursts.
Historia ==
  /\ ready \in Seq(Proc) /\ ejecutando \in Proc \union {Ninguno}
  /\ estimacionActual \in [Proc -> Int] /\ realAnterior \in [Proc -> Int]
  /\ rafagas \in [Proc -> Seq(Int)]
  /\ \A p \in Proc : realesEjecutadosHastaAhora[p] = Suma(0, tramos[p])
  /\ EstimacionDeLaHistoria
HInv == IInv /\ Historia

\* No process has been in the CPU.
LEMMA InicioHistoria == Init => Historia
<1> SUFFICES ASSUME Init PROVE Historia
  OBVIOUS
<1>1. Suma(0, << >>) = 0
  BY SumaVacia
<1>2. EstimacionInicial * Escala \in Int
  <2>1. AlfaDen \in Int /\ EstimacionInicial \in Int /\ MaxRafagas \in Nat
    BY AlfaAssumption, CotasAssumption
  <2>2. Escala \in Int
    BY <2>1, PotenciaDeUno DEF Escala
  <2> QED BY <2>1, <2>2
<1>3. \A p \in Proc : estimacionActual[p] = Promedio(rafagas[p])
  BY PromedioInicial DEF Init
<1>4. \A p \in Proc : realesEjecutadosHastaAhora[p] = Suma(0, tramos[p])
  BY <1>1 DEF Init
<1> QED BY <1>2, <1>3, <1>4 DEF Init, Historia, EstimacionDeLaHistoria

\* Who leaves READY for the CPU is one of those that were there, and the others stay.
LEMMA QuitarType ==
  ASSUME NEW s \in Seq(Proc), NEW i \in 1..Len(s)
  PROVE  RemoveAt(s, i) \in Seq(Proc)
<1>1. SubSeq(s, 1, i - 1) \in Seq(Proc) /\ SubSeq(s, i + 1, Len(s)) \in Seq(Proc)
  OBVIOUS
<1> QED BY <1>1 DEF RemoveAt

\* The choice of elegir_pcb_segun_srt: the first of those that have the least estimate left.
LEMMA ElMenor ==
  ASSUME ready \in Seq(Proc), ready # << >>,
         \A p \in Proc : EstimacionRestante(p) \in Int
  PROVE  \E i \in 1..Len(ready) :
           /\ ready[i] = FoldLeft(MenorRafagaRestante, Head(ready), Tail(ready))
           /\ ready[i] \in Proc
           /\ \A j \in 1..Len(ready) :
                IF j < i THEN EstimacionRestante(ready[i]) < EstimacionRestante(ready[j])
                ELSE EstimacionRestante(ready[i]) <= EstimacionRestante(ready[j])
<1>1. PICK s \in Seq(Proc) : s = Tail(ready)
  <2>1. Tail(ready) \in Seq(Proc)
    OBVIOUS
  <2> QED BY <2>1, Zenon
<1>2. PICK b \in Proc : b = Head(ready)
  OBVIOUS
<1>3. /\ Len(ready) = Len(s) + 1 /\ Len(s) \in Nat
      /\ ready[1] = b /\ \A k \in 1..Len(s) : ready[k + 1] = s[k]
  BY <1>1, <1>2
<1>4. PICK v : /\ v \in [0..Len(s) -> Proc]
               /\ v[0] = b /\ \A k \in 1..Len(s) : v[k] = MenorRafagaRestante(v[k - 1], s[k])
               /\ Menor(b, s) = v[Len(s)]
  BY MenorPorPartes
<1> DEFINE R(p) == EstimacionRestante(p)
           Primero(i, k) ==
             /\ i \in 1..(k + 1)
             /\ ready[i] = v[k]
             /\ \A j \in 1..(k + 1) : IF j < i THEN R(ready[i]) < R(ready[j]) ELSE R(ready[i]) <= R(ready[j])
           T == {k \in 0..Len(s) : \E i \in 1..(k + 1) : Primero(i, k)}
<1>5. \A k \in 1..Len(ready) : ready[k] \in Proc /\ R(ready[k]) \in Int
  OBVIOUS
<1>6. \A p, q \in Proc : MenorRafagaRestante(p, q) = IF R(p) <= R(q) THEN p ELSE q
  BY DEF MenorRafagaRestante
<1> HIDE DEF R
<1>7. 0 \in T
  <2>1. \A j \in 1..(0 + 1) : j = 1
    OBVIOUS
  <2>2. Primero(1, 0)
    BY <1>3, <1>4, <1>5, <2>1
  <2>3. 1 \in 1..(0 + 1) /\ 0 \in 0..Len(s)
    BY <1>3
  <2> QED BY <2>2, <2>3
<1>8. ASSUME NEW k \in 0..(Len(s) - 1), k \in T PROVE k + 1 \in T
  <2>1. PICK i \in 1..(k + 1) : Primero(i, k)
    BY <1>8
  <2>2. /\ k + 1 \in 1..Len(s) /\ k + 1 \in 0..Len(s) /\ (k + 1) - 1 = k /\ k \in 0..Len(s)
        /\ (k + 1) + 1 \in 1..Len(ready) /\ i \in 1..Len(ready) /\ k \in Nat
    BY <1>3
  <2>3. ready[(k + 1) + 1] = s[k + 1]
    BY <1>3, <2>2
  <2>4. v[k] \in Proc /\ s[k + 1] \in Proc
    <3>1. v[k] \in Proc
      BY <1>4, <2>2, Zenon
    <3>2. s[k + 1] \in Proc
      BY <2>2, ElementOfSeq
    <3> QED BY <3>1, <3>2
  <2>5. v[k + 1] = IF R(v[k]) <= R(s[k + 1]) THEN v[k] ELSE s[k + 1]
    BY <1>4, <1>6, <2>2, <2>4
  <2>6. \A j \in 1..((k + 1) + 1) : j \in 1..(k + 1) \/ j = (k + 1) + 1
    BY <2>2
  <2>7. ASSUME NEW j \in 1..(k + 1) PROVE j \in 1..Len(ready) /\ R(ready[j]) \in Int
    <3>1. Len(ready) = Len(s) + 1 /\ Len(s) \in Nat /\ k + 1 <= Len(s) /\ j <= k + 1 /\ j \in Nat /\ 1 <= j
      BY <1>3, <2>2
    <3> HIDE DEF T
    <3>2. j \in 1..Len(ready)
      BY <3>1
    <3> QED BY <1>5, <3>2
  <2>8. R(ready[(k + 1) + 1]) \in Int /\ R(ready[i]) \in Int
    BY <1>5, <2>2
  <2>9. ready[i] = v[k] /\ \A j \in 1..(k + 1) : R(ready[i]) <= R(ready[j])
    BY <2>1, <2>7
  <2>10. CASE R(v[k]) <= R(s[k + 1])
    <3>1. i \in 1..((k + 1) + 1) /\ ~((k + 1) + 1 < i)
      BY <2>2
    <3>2. v[k + 1] = ready[i]
      BY <2>5, <2>9, <2>10
    <3>3. \A j \in 1..((k + 1) + 1) :
            IF j < i THEN R(ready[i]) < R(ready[j]) ELSE R(ready[i]) <= R(ready[j])
      BY <2>1, <2>3, <2>6, <2>9, <2>10, <3>1
    <3>4. Primero(i, k + 1)
      BY <3>1, <3>2, <3>3
    <3> QED BY <2>2, <3>1, <3>4
  <2>11. CASE ~(R(v[k]) <= R(s[k + 1]))
    <3> DEFINE l == (k + 1) + 1
    <3>1. l \in 1..l /\ l \in 1..((k + 1) + 1)
      BY <2>2
    <3>2. v[k + 1] = ready[l]
      BY <2>3, <2>5, <2>11
    <3>3. R(ready[l]) < R(ready[i])
      BY <2>3, <2>8, <2>9, <2>11
    <3>4. \A j \in 1..(k + 1) : R(ready[l]) < R(ready[j]) /\ j < l
      BY <2>2, <2>7, <2>8, <2>9, <3>3
    <3>5. \A j \in 1..l : IF j < l THEN R(ready[l]) < R(ready[j]) ELSE R(ready[l]) <= R(ready[j])
      <4> SUFFICES ASSUME NEW j \in 1..l
                   PROVE  IF j < l THEN R(ready[l]) < R(ready[j]) ELSE R(ready[l]) <= R(ready[j])
        OBVIOUS
      <4>1. CASE j \in 1..(k + 1)
        BY <3>4, <4>1
      <4>2. CASE j = l
        BY <2>8, <4>2
      <4> QED BY <2>6, <4>1, <4>2
    <3>6. Primero(l, k + 1)
      BY <3>1, <3>2, <3>5
    <3> QED BY <2>2, <3>1, <3>6
  <2> QED BY <2>10, <2>11
<1> HIDE DEF T
<1>9. Len(s) \in T
  <2>1. \A k \in 0..Len(s) : k \in T
    BY <1>3, <1>7, <1>8, Induccion
  <2>2. Len(s) \in 0..Len(s)
    BY <1>3
  <2> QED BY <2>1, <2>2
<1>10. PICK i \in 1..(Len(s) + 1) : Primero(i, Len(s))
  BY <1>9 DEF T
<1>11. FoldLeft(MenorRafagaRestante, Head(ready), Tail(ready)) = Menor(b, s)
  BY <1>1, <1>2 DEF Menor
<1> QED BY <1>3, <1>4, <1>5, <1>10, <1>11 DEF R

\* What is left of an estimate is an integer, and it is that of the history.
LEMMA RestanteEntera ==
  ASSUME HInv, NEW p \in Proc
  PROVE  EstimacionRestante(p) \in Int /\ EstimacionRestante(p) = RestanteDeLaHistoria(p)
<1>1. estimacionActual[p] \in Int /\ realesEjecutadosHastaAhora[p] \in Int
  BY DEF HInv, IInv, TypeOK, Historia
<1>2. AlfaDen \in Int /\ MaxRafagas \in Nat
  BY AlfaAssumption, CotasAssumption
<1>3. Escala \in Int
  BY <1>2, PotenciaDeUno DEF Escala
<1>4. EstimacionRestante(p) \in Int
  BY <1>1, <1>3 DEF EstimacionRestante
<1>5. Promedio(rafagas[p]) = estimacionActual[p] /\ Suma(0, tramos[p]) = realesEjecutadosHastaAhora[p]
  BY DEF HInv, Historia, EstimacionDeLaHistoria
<1> QED BY <1>4, <1>5 DEF EstimacionRestante, RestanteDeLaHistoria

\* A process that is preempted adds its stay to those it had, on both sides.
LEMMA DesalojarHistoria ==
  ASSUME HInv, NEW p \in Proc, NEW d \in Duracion, Desalojar(p, d)
  PROVE  Historia'
<1>1. PICK real \in Int : real = Diferencial(start, d)
  <2>1. d \in Nat
    BY RelojAssumption
  <2> QED BY <2>1, DiferencialCerca DEF HInv, IInv, TypeOK
<1>2. /\ realesEjecutadosHastaAhora' = [realesEjecutadosHastaAhora EXCEPT ![p] = @ + real]
      /\ tramos' = [tramos EXCEPT ![p] = Append(@, real)]
      /\ ready' = Append(ready, p) /\ ejecutando' = Ninguno
      /\ UNCHANGED <<estimacionActual, realAnterior, rafagas>>
  BY <1>1 DEF Desalojar, Volver
<1>3. ASSUME NEW q \in Proc PROVE realesEjecutadosHastaAhora'[q] = Suma(0, tramos'[q])
  <2>1. realesEjecutadosHastaAhora[q] = Suma(0, tramos[q]) /\ tramos[q] \in Seq(Int) /\ 0 \in Int
    BY DEF HInv, IInv, TypeOK, Historia
  <2>2. CASE q = p
    <3>1. Suma(0, Append(tramos[q], real)) = Suma(0, tramos[q]) + real
      BY <2>1, SumaConUno
    <3>2. realesEjecutadosHastaAhora'[q] = realesEjecutadosHastaAhora[q] + real /\ tramos'[q] = Append(tramos[q], real)
      BY <1>2, <2>2 DEF HInv, IInv, TypeOK
    <3> QED BY <2>1, <3>1, <3>2
  <2>3. CASE q # p
    BY <1>2, <2>1, <2>3 DEF HInv, IInv, TypeOK
  <2> QED BY <2>2, <2>3
<1>4. EstimacionDeLaHistoria'
  BY <1>2 DEF HInv, Historia, EstimacionDeLaHistoria
<1> QED BY <1>2, <1>3, <1>4 DEF HInv, Historia

\* A process that blocks closes a burst, and its estimate becomes the average with it.
LEMMA BloquearHistoria ==
  ASSUME HInv, NEW p \in Proc, NEW d \in Duracion, Bloquear(p, d)
  PROVE  Historia'
<1>1. PICK real \in Int : real = Diferencial(start, d)
  <2>1. d \in Nat
    BY RelojAssumption
  <2> QED BY <2>1, DiferencialCerca DEF HInv, IInv, TypeOK
<1>2. /\ Actualizar(p, real)
      /\ rafagas' = [rafagas EXCEPT ![p] = Append(@, Suma(real, tramos[p]))]
      /\ tramos' = [tramos EXCEPT ![p] = << >>]
      /\ ready' = ready /\ ejecutando' = Ninguno
      /\ Len(rafagas[p]) < MaxRafagas
  BY <1>1 DEF Bloquear, Volver
<1>3. /\ tramos[p] \in Seq(Int) /\ rafagas[p] \in Seq(Int)
      /\ realesEjecutadosHastaAhora[p] = Suma(0, tramos[p])
      /\ realesEjecutadosHastaAhora[p] \in Int
      /\ estimacionActual[p] = Promedio(rafagas[p])
  BY DEF HInv, IInv, TypeOK, Historia, EstimacionDeLaHistoria
<1>4. PICK r \in Int : r = realesEjecutadosHastaAhora[p] + real
  BY <1>3
<1>5. Suma(real, tramos[p]) = r
  <2>1. Suma(real, tramos[p]) = real + Suma(0, tramos[p])
    BY <1>3, SumaDesde
  <2> QED BY <1>3, <1>4, <2>1
<1>6. /\ realAnterior' = [realAnterior EXCEPT ![p] = r]
      /\ realesEjecutadosHastaAhora' = [realesEjecutadosHastaAhora EXCEPT ![p] = 0]
  BY <1>2, <1>4 DEF Actualizar
<1>7. realAnterior'[p] = r /\ realAnterior' \in [Proc -> Int]
  BY <1>6 DEF HInv, Historia
<1>8. estimacionActual' = [estimacionActual EXCEPT ![p] = MediaExponencial(r, estimacionActual[p])]
  BY <1>2, <1>7 DEF Actualizar
<1>9. PICK us : us = Append(rafagas[p], r) /\ us \in Seq(Int)
  <2>1. Append(rafagas[p], r) \in Seq(Int)
    BY <1>3
  <2> QED BY <2>1, Zenon
<1>10. MediaExponencial(r, estimacionActual[p]) = Promedio(us)
  BY <1>2, <1>3, <1>9, PromedioSiguiente
<1>11. MediaExponencial(r, estimacionActual[p]) \in Int
  <2>1. AlfaNum \in Int /\ AlfaDen \in Nat \ {0} /\ MaxRafagas \in Nat /\ AlfaDen \in Int
    BY AlfaAssumption, CotasAssumption
  <2>2. Escala \in Int
    BY <2>1, PotenciaDeUno DEF Escala
  <2>3. PICK e \in Int : e = estimacionActual[p]
    BY DEF HInv, Historia
  <2>4. PICK m \in Int : m = AlfaNum * r * Escala + (AlfaDen - AlfaNum) * e
    BY <2>1, <2>2
  <2>5. m \div AlfaDen \in Int
    BY <2>1
  <2> QED BY <2>3, <2>4, <2>5 DEF MediaExponencial
<1>12. rafagas' = [rafagas EXCEPT ![p] = us]
  BY <1>2, <1>5, <1>9
<1>13. ASSUME NEW q \in Proc PROVE realesEjecutadosHastaAhora'[q] = Suma(0, tramos'[q])
  <2>1. CASE q = p
    <3>1. realesEjecutadosHastaAhora'[q] = 0 /\ tramos'[q] = << >>
      BY <1>2, <1>6, <2>1 DEF HInv, IInv, TypeOK
    <3> QED BY <3>1, SumaVacia
  <2>2. CASE q # p
    BY <1>2, <1>6, <2>2 DEF HInv, IInv, TypeOK, Historia
  <2> QED BY <2>1, <2>2
<1>14. ASSUME NEW q \in Proc PROVE estimacionActual'[q] = Promedio(rafagas'[q])
  <2>1. CASE q = p
    <3>1. estimacionActual'[q] = Promedio(us) /\ rafagas'[q] = us
      BY <1>8, <1>10, <1>12, <2>1 DEF HInv, Historia
    <3> QED BY <3>1
  <2>2. CASE q # p
    BY <1>8, <1>12, <2>2 DEF HInv, Historia, EstimacionDeLaHistoria
  <2> QED BY <2>1, <2>2
<1>15. EstimacionDeLaHistoria'
  BY <1>14 DEF EstimacionDeLaHistoria
<1>16. estimacionActual' \in [Proc -> Int] /\ rafagas' \in [Proc -> Seq(Int)]
  BY <1>8, <1>9, <1>11, <1>12 DEF HInv, Historia
<1> QED BY <1>2, <1>7, <1>13, <1>15, <1>16 DEF HInv, Historia

\* Choosing and arriving move processes between lists.
LEMMA ElegirHistoria ==
  ASSUME HInv, Elegir
  PROVE  Historia'
<1>1. ready \in Seq(Proc) /\ ready # << >>
  BY DEF HInv, Historia, Elegir
<1>2. PICK i \in 1..Len(ready) :
        /\ ready[i] = FoldLeft(MenorRafagaRestante, Head(ready), Tail(ready))
        /\ ready[i] \in Proc
  BY <1>1, RestanteEntera, ElMenor
<1>3. PICK p \in Proc : p = FoldLeft(MenorRafagaRestante, Head(ready), Tail(ready))
  BY <1>2
<1>4. ejecutando' = p /\ ready' = RemoveAt(ready, CHOOSE k \in 1..Len(ready) : ready[k] = p)
  BY <1>3 DEF Elegir
<1>5. (CHOOSE k \in 1..Len(ready) : ready[k] = p) \in 1..Len(ready)
  BY <1>2, <1>3
<1>6. ready' \in Seq(Proc)
  BY <1>1, <1>4, <1>5, QuitarType
<1>7. UNCHANGED <<campos, historia>>
  BY DEF Elegir
<1> QED BY <1>4, <1>6, <1>7 DEF HInv, Historia, EstimacionDeLaHistoria, campos, historia

\* The invariant holds in every behaviour.
THEOREM HistoriaInvariante == Spec => []HInv
<1>1. IInv /\ [Next]_vars => IInv'
  BY PreservaIInv
<1>2. HInv /\ [Next]_vars => Historia'
  <2> SUFFICES ASSUME HInv, [Next]_vars PROVE Historia'
    OBVIOUS
  <2>1. ASSUME NEW p \in Proc, Llegar(p) PROVE Historia'
    BY <2>1 DEF Llegar, campos, historia, HInv, Historia, EstimacionDeLaHistoria
  <2>2. ASSUME NEW p \in Proc, Terminar(p) PROVE Historia'
    BY <2>2 DEF Terminar, Volver, campos, historia, HInv, Historia, EstimacionDeLaHistoria
  <2>3. CASE UNCHANGED vars
    BY <2>3 DEF vars, campos, historia, HInv, Historia, EstimacionDeLaHistoria
  <2> QED BY <2>1, <2>2, <2>3, ElegirHistoria, DesalojarHistoria, BloquearHistoria DEF Next
<1>3. HInv /\ [Next]_vars => HInv'
  BY <1>1, <1>2 DEF HInv
<1>4. Init => HInv
  BY Inicio, InicioHistoria DEF HInv
<1> QED BY <1>3, <1>4, PTL DEF Spec

\* The estimate of a process is the exponential average of its bursts, each of them whole however
\* many preemptions split it (actualizar_pcb_por_desalojo, actualizar_pcb_por_bloqueo_segun_srt).
THEOREM EstimacionEsLaDeLaHistoria == Spec => []EstimacionDeLaHistoria
<1>1. HInv => EstimacionDeLaHistoria
  BY DEF HInv, Historia
<1> QED BY <1>1, HistoriaInvariante, PTL

\* elegir_pcb_segun_srt dispatches the first of those that have the least left, by the history.
THEOREM EligeElMenor == Spec => SeEligeElMenor
<1>1. HInv /\ [Next]_vars => [ElegirElMenor]_vars
  <2> SUFFICES ASSUME HInv, [Next]_vars, ejecutando = Ninguno, ejecutando' # Ninguno
               PROVE  ElegirElMenor
    BY DEF ElegirElMenor
  <2>1. CASE Elegir
    <3>1. ready \in Seq(Proc) /\ ready # << >>
      BY <2>1 DEF HInv, Historia, Elegir
    <3>2. PICK i \in 1..Len(ready) :
            /\ ready[i] = FoldLeft(MenorRafagaRestante, Head(ready), Tail(ready))
            /\ ready[i] \in Proc
            /\ \A j \in 1..Len(ready) :
                 IF j < i THEN EstimacionRestante(ready[i]) < EstimacionRestante(ready[j])
                 ELSE EstimacionRestante(ready[i]) <= EstimacionRestante(ready[j])
      BY <3>1, RestanteEntera, ElMenor
    <3>3. ready[i] = ejecutando'
      BY <2>1, <3>2 DEF Elegir
    <3>4. \A j \in 1..Len(ready) : EstimacionRestante(ready[j]) = RestanteDeLaHistoria(ready[j])
      BY <3>1, RestanteEntera
    <3> QED BY <3>2, <3>3, <3>4 DEF ElegirElMenor
  <2>2. CASE \E p \in Proc : Llegar(p) \/ Terminar(p)
    BY <2>2, ProcAssumption DEF Llegar, Terminar, Volver
  <2>3. CASE \E p \in Proc, d \in Duracion : Desalojar(p, d) \/ Bloquear(p, d)
    BY <2>3, ProcAssumption DEF Desalojar, Bloquear, Volver
  <2>4. CASE UNCHANGED vars
    BY <2>4 DEF vars
  <2> QED BY <2>1, <2>2, <2>3, <2>4 DEF Next
<1> QED BY <1>1, HistoriaInvariante, PTL DEF Spec, SeEligeElMenor

=============================================================================
