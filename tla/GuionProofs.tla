------------------------------ MODULE GuionProofs ------------------------------
(***************************************************************************)
(* Theorems about Guion and the Canal of its socket, for any set of        *)
(* scripts whose operands and bytes fit in 32 bits and any number of       *)
(* dispatches: the list the CPU runs is the script, and the socket is a    *)
(* queue of whole messages.                                                *)
(***************************************************************************)
EXTENDS Guion, SequenceTheorems, FiniteSetTheorems, WellFoundedInduction, TLAPS

\* A set of naturals that is not empty has a minimum.
LEMMA Minimo ==
  ASSUME NEW T \in SUBSET Nat, T # {}
  PROVE  \E x \in T : \A y \in T : x <= y
<1>1. PICK x0 \in T : TRUE
  OBVIOUS
<1> DEFINE S == 0..x0
           Bajos == {t \in T : t <= x0}
           F == {0..t : t \in Bajos}
           R == StrictSubsetOrdering(S)
<1>2. IsWellFoundedOn(R, SUBSET S)
  <2>1. IsFiniteSet(S)
    BY <1>1, FS_Interval
  <2> HIDE DEF S
  <2> QED BY <2>1, FS_FiniteSubsetsOfFinite, FS_StrictSubsetOrderingWellFounded
<1>3. F \subseteq SUBSET S /\ F # {}
  OBVIOUS
<1>4. PICK I \in F : \A J \in F : <<J, I>> \notin R
  <2> HIDE DEF F, R, S
  <2> QED BY <1>2, <1>3, WFMin
<1>5. PICK x \in Bajos : I = 0..x
  BY <1>4
<1>6. ASSUME NEW y \in T, y < x PROVE FALSE
  <2>1. 0..y \in F /\ 0..y \subseteq I /\ x \in I /\ x \notin 0..y
    BY <1>5, <1>6
  <2>2. 0..y \in SUBSET S /\ I \in SUBSET S
    BY <1>3, <1>4, <2>1
  <2>3. <<0..y, I>> \in R
    BY <2>1, <2>2 DEF StrictSubsetOrdering
  <2> QED BY <1>4, <2>1, <2>3
<1> QED BY <1>5, <1>6

\* Induction up to n, on the set of those that have the property.
LEMMA Induccion ==
  ASSUME NEW n \in Nat, NEW T,
         0 \in T, \A k \in 0..(n - 1) : k \in T => k + 1 \in T
  PROVE  \A k \in 0..n : k \in T
<1> DEFINE F == {k \in 0..n : k \notin T}
<1> SUFFICES ASSUME F # {} PROVE FALSE
  OBVIOUS
<1>1. F \in SUBSET Nat
  OBVIOUS
<1>2. PICK x \in F : \A y \in F : x <= y
  <2> HIDE DEF F
  <2> QED BY <1>1, Minimo
<1>3. x \in 1..n /\ x \notin T
  BY <1>2
<1>4. x - 1 \in 0..(n - 1) /\ x - 1 \in 0..n /\ x - 1 < x
  BY <1>3
<1>5. x - 1 \in T
  <2> SUFFICES ASSUME x - 1 \notin T PROVE FALSE
    OBVIOUS
  <2>1. x - 1 \in F
    BY <1>4
  <2>2. x <= x - 1
    BY <1>2, <2>1
  <2> QED BY <1>3, <1>4, <2>2
<1>6. (x - 1) + 1 \in T
  BY <1>4, <1>5
<1>7. (x - 1) + 1 = x
  BY <1>3
<1> QED BY <1>3, <1>6, <1>7

\* The largest of a set that has m + 1 and nothing above it.
-----------------------------------------------------------------------------
(* Sequences.                                                              *)

\* Concatenation is associative.
LEMMA Asocia ==
  ASSUME NEW S, NEW a \in Seq(S), NEW b \in Seq(S), NEW c \in Seq(S)
  PROVE  (a \o b) \o c = a \o (b \o c)
  BY ConcatAssociative

\* Lists of sequences; the proofs that concatenate what they give do not expand it.
Listas(S) == Seq(Seq(S))

\* The first m of a list, and what follows them.
Hasta(s, m) == SubSeq(s, 1, m)
Desde(s, m) == SubSeq(s, m + 1, Len(s))

\* One more of the list.
LEMMA Avanzar ==
  ASSUME NEW S, NEW s \in Seq(S), NEW m \in 0..(Len(s) - 1)
  PROVE  /\ s[m + 1] \in S /\ m + 1 \in 1..Len(s)
         /\ Hasta(s, m) \in Seq(S) /\ Hasta(s, m + 1) = Append(Hasta(s, m), s[m + 1])
         /\ Desde(s, m) \in Seq(S) /\ Desde(s, m) = <<s[m + 1]>> \o Desde(s, m + 1)
         /\ Desde(s, m) # << >> /\ Desde(s, m)[1] = s[m + 1] /\ Tail(Desde(s, m)) = Desde(s, m + 1)
         /\ Desde(s, m + 1) \in Seq(S)
<1>1. Len(s) \in Nat /\ m \in Nat /\ m + 1 \in 1..Len(s) /\ s[m + 1] \in S
  OBVIOUS
<1>2. Hasta(s, m) \in Seq(S) /\ Len(Hasta(s, m)) = m /\ \A k \in 1..m : Hasta(s, m)[k] = s[k]
  BY <1>1 DEF Hasta
<1>3. /\ Hasta(s, m + 1) \in Seq(S) /\ Len(Hasta(s, m + 1)) = m + 1
      /\ \A k \in 1..(m + 1) : Hasta(s, m + 1)[k] = s[k]
  BY <1>1 DEF Hasta
<1>4. Hasta(s, m + 1) = Append(Hasta(s, m), s[m + 1])
  <2> DEFINE h == Hasta(s, m)
             a == Append(h, s[m + 1])
  <2>1. /\ a \in Seq(S) /\ Len(a) = Len(h) + 1 /\ a[Len(h) + 1] = s[m + 1]
        /\ \A i \in 1..Len(h) : a[i] = h[i]
    <3> HIDE DEF h
    <3> QED BY <1>1, <1>2, AppendProperties DEF h
  <2>2. Len(a) = m + 1 /\ a[m + 1] = s[m + 1] /\ \A i \in 1..m : a[i] = s[i]
    BY <2>1, <1>2
  <2> HIDE DEF a, h
  <2>3. \A i \in 1..(m + 1) : i \in 1..m \/ i = m + 1
    BY <1>1
  <2>4. \A i \in 1..(m + 1) : a[i] = Hasta(s, m + 1)[i]
    BY <2>2, <2>3, <1>3
  <2>5. a = Hasta(s, m + 1)
    BY <2>1, <2>2, <2>4, <1>3, SeqEqual
  <2> QED BY <2>5 DEF a, h
<1>5. /\ Desde(s, m) \in Seq(S) /\ Len(Desde(s, m)) = Len(s) - m
      /\ \A k \in 1..(Len(s) - m) : Desde(s, m)[k] = s[m + k]
  BY <1>1 DEF Desde
<1>6. /\ Desde(s, m + 1) \in Seq(S) /\ Len(Desde(s, m + 1)) = Len(s) - (m + 1)
      /\ \A k \in 1..(Len(s) - (m + 1)) : Desde(s, m + 1)[k] = s[(m + 1) + k]
  BY <1>1 DEF Desde
<1>7. m + 1 \in 1..Len(s) /\ Len(s) \in (m + 1)..Len(s)
  BY <1>1
<1>8. Desde(s, m) = <<s[m + 1]>> \o Desde(s, m + 1)
  BY <1>7, SubSeqRecursiveFirst DEF Desde
<1>9. Desde(s, m) # << >> /\ Desde(s, m)[1] = s[m + 1]
  BY <1>1, <1>5
<1>10. Tail(Desde(s, m)) = Desde(s, m + 1)
  BY <1>7, HeadTailOfSubSeq DEF Desde
<1> QED BY <1>1, <1>2, <1>4, <1>5, <1>6, <1>8, <1>9, <1>10

\* None of the list, and all of it.
LEMMA Extremos ==
  ASSUME NEW S, NEW s \in Seq(S)
  PROVE  /\ Hasta(s, 0) = << >> /\ Desde(s, 0) = s /\ Hasta(s, Len(s)) = s
         /\ Desde(s, Len(s)) = << >> /\ << >> \in Seq(S)
  BY DEF Hasta, Desde

-----------------------------------------------------------------------------
(* Sequences of sequences, one after the other.                            *)

\* g[i] is what the first i sequences of s give.
Aplana(g, s, n) ==
  \A i \in 1..n : g[i] = IF i = 1 THEN s[i] ELSE g[i - 1] \o s[i]

\* The results of the first sequences exist.
LEMMA AplanaExiste ==
  ASSUME NEW S, NEW s \in Seq(Seq(S))
  PROVE  \E g \in [1..Len(s) -> Seq(S)] : Aplana(g, s, Len(s))
<1> DEFINE T == {m \in 0..Len(s) : \E g \in [1..m -> Seq(S)] : Aplana(g, s, m)}
<1>0. Len(s) \in Nat /\ \A i \in 1..Len(s) : s[i] \in Seq(S)
  OBVIOUS
<1>1. 0 \in T
  <2> DEFINE g == [i \in 1..0 |-> << >>]
  <2>1. g \in [1..0 -> Seq(S)]
    OBVIOUS
  <2>2. 1..0 = {}
    OBVIOUS
  <2>3. Aplana(g, s, 0)
    BY <2>2 DEF Aplana
  <2>4. 0 \in 0..Len(s)
    BY <1>0
  <2> HIDE DEF g
  <2> QED BY <2>1, <2>3, <2>4
<1>2. ASSUME NEW m \in 0..(Len(s) - 1), m \in T
      PROVE  m + 1 \in T
  <2>1. PICK g \in [1..m -> Seq(S)] : Aplana(g, s, m)
    BY <1>2
  <2> DEFINE x == IF m + 1 = 1 THEN s[m + 1] ELSE g[m] \o s[m + 1]
             f == [i \in 1..(m + 1) |-> IF i = m + 1 THEN x ELSE g[i]]
  <2>2. m \in Nat /\ m + 1 \in 1..Len(s) /\ m + 1 \in 0..Len(s) /\ (m + 1) - 1 = m
    BY <1>0
  <2>3. x \in Seq(S)
    <3>1. s[m + 1] \in Seq(S)
      BY <1>0, <2>2
    <3>2. m + 1 # 1 => g[m] \in Seq(S)
      BY <2>1, <2>2
    <3> QED BY <3>1, <3>2
  <2> HIDE DEF x
  <2>4. f \in [1..(m + 1) -> Seq(S)]
    BY <2>1, <2>2, <2>3
  <2>5. ASSUME NEW i \in 1..(m + 1)
        PROVE  f[i] = IF i = 1 THEN s[i] ELSE f[i - 1] \o s[i]
    <3>1. CASE i = m + 1
      <4>1. f[i] = x
        BY <3>1
      <4>2. m + 1 # 1 => f[m] = g[m]
        BY <2>2
      <4> HIDE DEF f
      <4> QED BY <3>1, <4>1, <4>2, <2>2 DEF x
    <3>2. CASE i # m + 1
      <4>1. i \in 1..m /\ f[i] = g[i] /\ (i # 1 => f[i - 1] = g[i - 1])
        BY <3>2, <2>2
      <4>2. g[i] = IF i = 1 THEN s[i] ELSE g[i - 1] \o s[i]
        BY <4>1, <2>1 DEF Aplana
      <4> HIDE DEF f
      <4> QED BY <4>1, <4>2
    <3> QED BY <3>1, <3>2
  <2>6. Aplana(f, s, m + 1)
    <3> HIDE DEF f
    <3> QED BY <2>5 DEF Aplana
  <2> HIDE DEF f
  <2> QED BY <2>2, <2>4, <2>6
<1> HIDE DEF T
<1>3. Len(s) \in T
  <2>1. \A k \in 0..Len(s) : k \in T
    BY <1>0, <1>1, <1>2, Induccion
  <2> QED BY <2>1, <1>0
<1> QED BY <1>3 DEF T

\* FlattenSeq is the last of them.
LEMMA AplanarEs ==
  ASSUME NEW S, NEW s \in Seq(Seq(S)), Len(s) # 0,
         NEW g \in [1..Len(s) -> Seq(S)], Aplana(g, s, Len(s))
  PROVE  FlattenSeq(s) = g[Len(s)]
<1> DEFINE n == Len(s)
           F == CHOOSE f : f = [i \in 1..n |-> IF i = 1 THEN s[i] ELSE f[i - 1] \o s[i]]
           T == {m \in 0..n : \A i \in 1..m : F[i] = g[i]}
<1>0. n \in Nat
  OBVIOUS
<1>1. g = [i \in 1..n |-> IF i = 1 THEN s[i] ELSE g[i - 1] \o s[i]]
  BY DEF Aplana
<1>2. F = [i \in 1..n |-> IF i = 1 THEN s[i] ELSE F[i - 1] \o s[i]]
  BY <1>1
<1>3. FlattenSeq(s) = F[n]
  BY DEF FlattenSeq
<1> HIDE DEF F
<1>4. \A i \in 1..n : F[i] = IF i = 1 THEN s[i] ELSE F[i - 1] \o s[i]
  BY <1>2
<1>5. 0 \in T
  BY <1>0
<1>6. ASSUME NEW m \in 0..(n - 1), m \in T PROVE m + 1 \in T
  <2>1. m + 1 \in 1..n /\ m + 1 \in 0..n /\ (m + 1) - 1 = m /\ (m + 1 # 1 => m \in 1..m)
    BY <1>0
  <2>2. \A i \in 1..m : F[i] = g[i]
    BY <1>6
  <2>3. F[m + 1] = IF m + 1 = 1 THEN s[m + 1] ELSE F[m] \o s[m + 1]
    BY <1>4, <2>1
  <2>4. g[m + 1] = IF m + 1 = 1 THEN s[m + 1] ELSE g[m] \o s[m + 1]
    BY <2>1 DEF Aplana
  <2>5. F[m + 1] = g[m + 1]
    BY <2>1, <2>2, <2>3, <2>4
  <2>6. \A i \in 1..(m + 1) : i \in 1..m \/ i = m + 1
    BY <2>1
  <2> QED BY <2>1, <2>2, <2>5, <2>6
<1> HIDE DEF T, n
<1>7. n \in T
  <2>1. \A k \in 0..n : k \in T
    BY <1>0, <1>5, <1>6, Induccion
  <2> QED BY <2>1, <1>0
<1>8. n \in 1..n
  BY <1>0 DEF n
<1> QED BY <1>3, <1>7, <1>8 DEF T, n

\* Nothing gives nothing.
LEMMA AplanarNada == FlattenSeq(<< >>) = << >>
BY DEF FlattenSeq

\* One sequence more goes at the end.
LEMMA AplanarUnaMas ==
  ASSUME NEW S, NEW s \in Seq(Seq(S)), NEW x \in Seq(S)
  PROVE  FlattenSeq(s) \in Seq(S) /\ FlattenSeq(Append(s, x)) = FlattenSeq(s) \o x
<1> DEFINE t == Append(s, x)
           n == Len(s)
<1>1. /\ t \in Seq(Seq(S)) /\ Len(t) = n + 1 /\ t[n + 1] = x
      /\ \A i \in 1..n : t[i] = s[i]
      /\ n \in Nat
  OBVIOUS
<1> HIDE DEF t
<1>2. PICK g \in [1..Len(t) -> Seq(S)] : Aplana(g, t, Len(t))
  BY <1>1, AplanaExiste
<1>3. FlattenSeq(t) = g[n + 1]
  <2>1. Len(t) # 0
    BY <1>1
  <2>2. FlattenSeq(t) = g[Len(t)]
    BY <1>1, <1>2, <2>1, AplanarEs
  <2> QED BY <2>2, <1>1
<1>4. g[n + 1] = IF n + 1 = 1 THEN x ELSE g[n] \o x
  <2>1. n + 1 \in 1..Len(t) /\ (n + 1) - 1 = n
    BY <1>1
  <2>2. g[n + 1] = IF n + 1 = 1 THEN t[n + 1] ELSE g[(n + 1) - 1] \o t[n + 1]
    BY <1>2, <2>1 DEF Aplana
  <2> QED BY <2>1, <2>2, <1>1
<1>5. CASE n = 0
  <2>1. s = << >>
    BY <1>5
  <2>2. FlattenSeq(s) = << >> /\ g[n + 1] = x
    BY <2>1, <1>4, <1>5, AplanarNada
  <2> QED BY <1>3, <2>2 DEF t
<1>6. CASE n # 0
  <2> DEFINE h == [i \in 1..n |-> g[i]]
  <2>1. h \in [1..Len(s) -> Seq(S)]
    BY <1>1, <1>2
  <2>2. ASSUME NEW i \in 1..n
        PROVE  h[i] = IF i = 1 THEN s[i] ELSE h[i - 1] \o s[i]
    <3>1. i \in 1..Len(t) /\ t[i] = s[i] /\ h[i] = g[i] /\ (i # 1 => h[i - 1] = g[i - 1])
      BY <1>1
    <3>2. g[i] = IF i = 1 THEN t[i] ELSE g[i - 1] \o t[i]
      BY <1>2, <3>1 DEF Aplana
    <3> HIDE DEF h
    <3> QED BY <3>1, <3>2
  <2>3. Aplana(h, s, Len(s))
    <3> HIDE DEF h
    <3> QED BY <2>2 DEF Aplana
  <2>4. h[n] = g[n] /\ g[n] \in Seq(S)
    BY <1>1, <1>2, <1>6
  <2> HIDE DEF h
  <2>5. FlattenSeq(s) = h[n]
    BY <2>1, <2>3, <1>6, AplanarEs
  <2>6. g[n + 1] = g[n] \o x
    BY <1>1, <1>4, <1>6
  <2> QED BY <1>3, <2>4, <2>5, <2>6 DEF t
<1> QED BY <1>5, <1>6

\* One sequence alone.
LEMMA AplanarUna ==
  ASSUME NEW S, NEW x \in Seq(S)
  PROVE  FlattenSeq(<<x>>) = x
<1>1. << >> \in Seq(Seq(S)) /\ Append(<< >>, x) = <<x>> /\ << >> \o x = x
  OBVIOUS
<1>2. FlattenSeq(Append(<< >>, x)) = FlattenSeq(<< >>) \o x
  BY <1>1, AplanarUnaMas
<1> QED BY <1>1, <1>2, AplanarNada

\* A list and one more sequence of another.
LEMMA UnionUnaMas ==
  ASSUME NEW S, NEW s \in Seq(S), NEW t \in Seq(S), NEW x \in S
  PROVE  s \o Append(t, x) = Append(s \o t, x) /\ s \o t \in Seq(S)
  OBVIOUS

\* The step of AplanarUnion.
LEMMA AplanarUnionPaso ==
  ASSUME NEW S, NEW s \in Listas(S), NEW t \in Listas(S), NEW x \in Seq(S),
         FlattenSeq(s \o t) = FlattenSeq(s) \o FlattenSeq(t)
  PROVE  FlattenSeq(s \o Append(t, x)) = FlattenSeq(s) \o FlattenSeq(Append(t, x))
<1> DEFINE a == FlattenSeq(s)
           b == FlattenSeq(t)
           u == s \o t
<1>1. u \in Listas(S) /\ s \o Append(t, x) = Append(u, x)
  BY UnionUnaMas DEF Listas
<1>2. FlattenSeq(Append(t, x)) = b \o x /\ a \in Seq(S) /\ b \in Seq(S)
  BY AplanarUnaMas DEF Listas
<1>3. FlattenSeq(Append(u, x)) = FlattenSeq(u) \o x
  <2> HIDE DEF u
  <2> QED BY <1>1, AplanarUnaMas DEF Listas
<1>4. FlattenSeq(u) = a \o b
  OBVIOUS
<1> HIDE DEF a, b, u
<1>5. (a \o b) \o x = a \o (b \o x)
  BY <1>2, Asocia
<1>6. FlattenSeq(s \o Append(t, x)) = a \o FlattenSeq(Append(t, x))
  BY <1>1, <1>2, <1>3, <1>4, <1>5
<1> QED BY <1>6 DEF a

\* What two lists of sequences give, one list after the other.
LEMMA AplanarUnion ==
  ASSUME NEW S, NEW s \in Listas(S), NEW t \in Listas(S)
  PROVE  FlattenSeq(s \o t) = FlattenSeq(s) \o FlattenSeq(t)
<1> DEFINE n == Len(t)
           T == {m \in 0..n : FlattenSeq(s \o Hasta(t, m)) = FlattenSeq(s) \o FlattenSeq(Hasta(t, m))}
<1>0. n \in Nat
  BY DEF Listas
<1>1. 0 \in T
  <2>1. Hasta(t, 0) = << >> /\ s \o << >> = s /\ 0 \in 0..n
    BY DEF Listas, Hasta
  <2>2. FlattenSeq(s) \in Seq(S)
    <3>1. << >> \in Seq(S)
      OBVIOUS
    <3> QED BY <3>1, AplanarUnaMas DEF Listas
  <2>3. FlattenSeq(s) \o << >> = FlattenSeq(s)
    BY <2>2
  <2> QED BY <2>1, <2>3, AplanarNada
<1>2. ASSUME NEW m \in 0..(n - 1), m \in T PROVE m + 1 \in T
  <2>1. m + 1 \in 0..n
    BY <1>0
  <2>2. /\ Hasta(t, m + 1) = Append(Hasta(t, m), t[m + 1])
        /\ t[m + 1] \in Seq(S) /\ Hasta(t, m) \in Listas(S)
    BY Avanzar DEF Listas
  <2>3. FlattenSeq(s \o Hasta(t, m)) = FlattenSeq(s) \o FlattenSeq(Hasta(t, m))
    BY <1>2
  <2>4. FlattenSeq(s \o Hasta(t, m + 1)) = FlattenSeq(s) \o FlattenSeq(Hasta(t, m + 1))
    <3>1. PICK v : v = Hasta(t, m)
      OBVIOUS
    <3>2. PICK y : y = t[m + 1]
      OBVIOUS
    <3>3. v \in Listas(S) /\ y \in Seq(S) /\ FlattenSeq(s \o v) = FlattenSeq(s) \o FlattenSeq(v)
      BY <2>2, <2>3, <3>1, <3>2
    <3>4. FlattenSeq(s \o Append(v, y)) = FlattenSeq(s) \o FlattenSeq(Append(v, y))
      BY <3>3, AplanarUnionPaso
    <3> QED BY <2>2, <3>1, <3>2, <3>4
  <2> QED BY <2>1, <2>4
<1> HIDE DEF T
<1>3. n \in T
  <2>1. \A k \in 0..n : k \in T
    <3> HIDE DEF n
    <3> QED BY <1>0, <1>1, <1>2, Induccion
  <2> QED BY <2>1, <1>0
<1>4. Hasta(t, n) = t
  BY DEF Listas, Hasta
<1> QED BY <1>3, <1>4 DEF T

\* The first sequence goes first.
LEMMA AplanarPrimera ==
  ASSUME NEW S, NEW s \in Listas(S), s # << >>
  PROVE  /\ s[1] \in Seq(S) /\ Tail(s) \in Listas(S) /\ FlattenSeq(Tail(s)) \in Seq(S)
         /\ FlattenSeq(s) = s[1] \o FlattenSeq(Tail(s))
<1>1. s[1] \in Seq(S) /\ Tail(s) \in Listas(S) /\ s = <<s[1]>> \o Tail(s)
  BY DEF Listas
<1>2. <<s[1]>> \in Listas(S)
  BY <1>1 DEF Listas
<1>3. FlattenSeq(<<s[1]>> \o Tail(s)) = FlattenSeq(<<s[1]>>) \o FlattenSeq(Tail(s))
  BY <1>1, <1>2, AplanarUnion
<1>4. FlattenSeq(<<s[1]>>) = s[1]
  BY <1>1, AplanarUna
<1>5. FlattenSeq(Tail(s)) \in Seq(S)
  <2>1. << >> \in Seq(S)
    OBVIOUS
  <2> QED BY <1>1, <2>1, AplanarUnaMas DEF Listas
<1> QED BY <1>1, <1>3, <1>4, <1>5

-----------------------------------------------------------------------------
(* What each member of a list gives, one after the other.                  *)

\* f gives a sequence of members of B for each member of A.
Da(f, A, B) == f \in [A -> Seq(B)]
Cada(f, s) == [k \in DOMAIN s |-> f[s[k]]]
Cadena(f, s) == FlattenSeq(Cada(f, s))

\* The sequences the members of a list give are a list.
LEMMA CadaTipo ==
  ASSUME NEW A, NEW B, NEW f, Da(f, A, B), NEW s \in Seq(A)
  PROVE  /\ Cada(f, s) \in Listas(B) /\ Len(Cada(f, s)) = Len(s)
         /\ \A k \in 1..Len(s) : Cada(f, s)[k] = f[s[k]]
<1>1. DOMAIN s = 1..Len(s) /\ Len(s) \in Nat /\ \A k \in 1..Len(s) : s[k] \in A
  OBVIOUS
<1>2. Cada(f, s) = [k \in 1..Len(s) |-> f[s[k]]] /\ \A k \in 1..Len(s) : f[s[k]] \in Seq(B)
  BY <1>1 DEF Cada, Da
<1> QED BY <1>1, <1>2 DEF Listas

\* Lists with the same members are the same.
LEMMA ListasIguales ==
  ASSUME NEW B, NEW d \in Listas(B), NEW e \in Listas(B),
         Len(d) = Len(e), \A k \in 1..Len(d) : d[k] = e[k]
  PROVE  d = e
  BY SeqEqual DEF Listas

\* A list and one more sequence.
LEMMA ListaUnaMas ==
  ASSUME NEW B, NEW c \in Listas(B), NEW x \in Seq(B)
  PROVE  /\ Append(c, x) \in Listas(B) /\ Len(Append(c, x)) = Len(c) + 1
         /\ Append(c, x)[Len(c) + 1] = x /\ \A k \in 1..Len(c) : Append(c, x)[k] = c[k]
  BY DEF Listas

\* A list after another.
LEMMA ListasUnion ==
  ASSUME NEW B, NEW c \in Listas(B), NEW d \in Listas(B)
  PROVE  /\ c \o d \in Listas(B) /\ Len(c \o d) = Len(c) + Len(d)
         /\ \A k \in 1..(Len(c) + Len(d)) :
              (c \o d)[k] = IF k <= Len(c) THEN c[k] ELSE d[k - Len(c)]
  BY ConcatProperties DEF Listas

\* No member, and one more.
LEMMA CadenaUnaMas ==
  ASSUME NEW A, NEW B, NEW f, Da(f, A, B), NEW s \in Seq(A), NEW x \in A
  PROVE  /\ Cadena(f, << >>) = << >> /\ Cadena(f, s) \in Seq(B)
         /\ Cadena(f, Append(s, x)) = Cadena(f, s) \o f[x]
<1>1. Cadena(f, << >>) = << >>
  <2>1. Cada(f, << >>) = << >>
    BY DEF Cada
  <2> QED BY <2>1, AplanarNada DEF Cadena
<1>2. f[x] \in Seq(B)
  BY DEF Da
<1> DEFINE c == Cada(f, s)
           d == Cada(f, Append(s, x))
<1>3. /\ Append(s, x) \in Seq(A) /\ Len(Append(s, x)) = Len(s) + 1 /\ Len(s) \in Nat
      /\ Append(s, x)[Len(s) + 1] = x /\ \A k \in 1..Len(s) : Append(s, x)[k] = s[k]
  OBVIOUS
<1>4. c \in Listas(B) /\ Len(c) = Len(s) /\ \A k \in 1..Len(s) : c[k] = f[s[k]]
  BY CadaTipo
<1>5. d \in Listas(B) /\ Len(d) = Len(s) + 1 /\ \A k \in 1..(Len(s) + 1) : d[k] = f[Append(s, x)[k]]
  <2>1. /\ d \in Listas(B) /\ Len(d) = Len(Append(s, x))
        /\ \A k \in 1..Len(Append(s, x)) : d[k] = f[Append(s, x)[k]]
    <3> DEFINE t == Append(s, x)
    <3>1. t \in Seq(A)
      BY <1>3
    <3> HIDE DEF t
    <3>2. /\ Cada(f, t) \in Listas(B) /\ Len(Cada(f, t)) = Len(t)
          /\ \A k \in 1..Len(t) : Cada(f, t)[k] = f[t[k]]
      BY <3>1, CadaTipo
    <3> QED BY <3>2 DEF t
  <2> QED BY <2>1, <1>3
<1> HIDE DEF c, d
<1>6. d = Append(c, f[x])
  <2> DEFINE e == Append(c, f[x])
  <2>1. /\ e \in Listas(B) /\ Len(e) = Len(c) + 1 /\ e[Len(c) + 1] = f[x]
        /\ \A k \in 1..Len(c) : e[k] = c[k]
    BY <1>2, <1>4, ListaUnaMas
  <2> HIDE DEF e
  <2>2. \A k \in 1..Len(d) : d[k] = e[k]
    <3> SUFFICES ASSUME NEW k \in 1..Len(d) PROVE d[k] = e[k]
      OBVIOUS
    <3>1. k \in 1..Len(s) \/ k = Len(s) + 1
      BY <1>3, <1>5
    <3>2. CASE k \in 1..Len(s)
      BY <3>2, <2>1, <1>3, <1>4, <1>5
    <3>3. CASE k = Len(s) + 1
      BY <3>3, <2>1, <1>3, <1>4, <1>5
    <3> QED BY <3>1, <3>2, <3>3
  <2>3. Len(d) = Len(e)
    BY <2>1, <1>4, <1>5
  <2>4. d = e
    BY <1>5, <2>1, <2>2, <2>3, ListasIguales
  <2> QED BY <2>4 DEF e
<1>7. FlattenSeq(c) \in Seq(B) /\ FlattenSeq(Append(c, f[x])) = FlattenSeq(c) \o f[x]
  BY <1>2, <1>4, AplanarUnaMas DEF Listas
<1> QED BY <1>1, <1>6, <1>7 DEF Cadena, c, d

\* Two lists, one after the other.
LEMMA CadenaUnion ==
  ASSUME NEW A, NEW B, NEW f, Da(f, A, B), NEW s \in Seq(A), NEW t \in Seq(A)
  PROVE  Cadena(f, s \o t) = Cadena(f, s) \o Cadena(f, t)
<1>1. /\ s \o t \in Seq(A) /\ Len(s \o t) = Len(s) + Len(t) /\ Len(s) \in Nat /\ Len(t) \in Nat
      /\ \A k \in 1..(Len(s) + Len(t)) : (s \o t)[k] = IF k <= Len(s) THEN s[k] ELSE t[k - Len(s)]
  BY ConcatProperties
<1> DEFINE c == Cada(f, s)
           d == Cada(f, t)
           e == Cada(f, s \o t)
<1>2. c \in Listas(B) /\ Len(c) = Len(s) /\ \A k \in 1..Len(s) : c[k] = f[s[k]]
  BY CadaTipo
<1>3. d \in Listas(B) /\ Len(d) = Len(t) /\ \A k \in 1..Len(t) : d[k] = f[t[k]]
  BY CadaTipo
<1>4. /\ e \in Listas(B) /\ Len(e) = Len(s) + Len(t)
      /\ \A k \in 1..(Len(s) + Len(t)) : e[k] = f[(s \o t)[k]]
  <2>1. /\ e \in Listas(B) /\ Len(e) = Len(s \o t)
        /\ \A k \in 1..Len(s \o t) : e[k] = f[(s \o t)[k]]
    <3> DEFINE u == s \o t
    <3>1. u \in Seq(A)
      BY <1>1
    <3> HIDE DEF u
    <3>2. /\ Cada(f, u) \in Listas(B) /\ Len(Cada(f, u)) = Len(u)
          /\ \A k \in 1..Len(u) : Cada(f, u)[k] = f[u[k]]
      BY <3>1, CadaTipo
    <3> QED BY <3>2 DEF u
  <2> QED BY <2>1, <1>1
<1> HIDE DEF c, d, e
<1>5. e = c \o d
  <2> DEFINE h == c \o d
  <2>1. /\ h \in Listas(B) /\ Len(h) = Len(c) + Len(d)
        /\ \A k \in 1..(Len(c) + Len(d)) : h[k] = IF k <= Len(c) THEN c[k] ELSE d[k - Len(c)]
    <3>1. c \in Listas(B) /\ d \in Listas(B)
      BY <1>2, <1>3
    <3> QED BY <3>1, ListasUnion
  <2> HIDE DEF h
  <2>2. \A k \in 1..Len(e) : e[k] = h[k]
    <3> SUFFICES ASSUME NEW k \in 1..Len(e) PROVE e[k] = h[k]
      OBVIOUS
    <3>1. k \in 1..(Len(s) + Len(t)) /\ Len(s) \in Nat /\ Len(t) \in Nat
      BY <1>1, <1>4
    <3>2. CASE k <= Len(s)
      <4>1. k \in 1..Len(s)
        BY <3>1, <3>2
      <4>2. e[k] = f[s[k]] /\ c[k] = f[s[k]]
        BY <3>1, <3>2, <4>1, <1>1, <1>2, <1>4
      <4>3. h[k] = c[k]
        BY <3>1, <3>2, <2>1, <1>2, <1>3
      <4> QED BY <4>2, <4>3
    <3>3. CASE ~(k <= Len(s))
      <4>1. k - Len(s) \in 1..Len(t)
        BY <3>1, <3>3
      <4>2. e[k] = f[t[k - Len(s)]] /\ d[k - Len(s)] = f[t[k - Len(s)]]
        BY <3>1, <3>3, <4>1, <1>1, <1>3, <1>4
      <4>3. h[k] = d[k - Len(s)]
        BY <3>1, <3>3, <2>1, <1>2, <1>3
      <4> QED BY <4>2, <4>3
    <3> QED BY <3>2, <3>3
  <2>3. Len(e) = Len(h)
    BY <2>1, <1>2, <1>3, <1>4
  <2>4. e = h
    BY <1>4, <2>1, <2>2, <2>3, ListasIguales
  <2> QED BY <2>4 DEF h
<1>6. FlattenSeq(c \o d) = FlattenSeq(c) \o FlattenSeq(d)
  BY <1>2, <1>3, AplanarUnion
<1> QED BY <1>5, <1>6 DEF Cadena, c, d, e

\* A list with one more in front.
ConPrimera(x, s) == <<x>> \o s

\* The first member goes first.
LEMMA CadenaPrimera ==
  ASSUME NEW A, NEW B, NEW f, Da(f, A, B), NEW s \in Seq(A), NEW x \in A
  PROVE  /\ f[x] \in Seq(B) /\ Cadena(f, s) \in Seq(B)
         /\ Cadena(f, ConPrimera(x, s)) = f[x] \o Cadena(f, s)
<1>1. <<x>> \in Seq(A) /\ << >> \in Seq(A) /\ Append(<< >>, x) = <<x>> /\ f[x] \in Seq(B)
  BY DEF Da
<1>2. Cadena(f, <<x>> \o s) = Cadena(f, <<x>>) \o Cadena(f, s)
  <2> DEFINE y == <<x>>
  <2>1. y \in Seq(A)
    BY <1>1
  <2> HIDE DEF y
  <2>2. Cadena(f, y \o s) = Cadena(f, y) \o Cadena(f, s)
    BY <2>1, CadenaUnion
  <2> QED BY <2>2 DEF y
<1>3. Cadena(f, Append(<< >>, x)) = Cadena(f, << >>) \o f[x] /\ Cadena(f, << >>) = << >>
  <2> DEFINE v == << >>
  <2>1. v \in Seq(A)
    BY <1>1
  <2> HIDE DEF v
  <2>2. Cadena(f, Append(v, x)) = Cadena(f, v) \o f[x] /\ Cadena(f, << >>) = << >>
    BY <2>1, CadenaUnaMas
  <2> QED BY <2>2 DEF v
<1>4. << >> \o f[x] = f[x]
  BY <1>1
<1>5. Cadena(f, s) \in Seq(B)
  BY CadenaUnaMas
<1> QED BY <1>1, <1>2, <1>3, <1>4, <1>5 DEF ConPrimera

\* f gives c alone for x.
Sola(f, x, c) == f[x] = <<c>>

\* n times the same member that gives one thing.
LEMMA CadenaDeCopias ==
  ASSUME NEW A, NEW B, NEW f, Da(f, A, B), NEW x \in A, NEW c \in B, Sola(f, x, c),
         NEW n \in Nat
  PROVE  /\ [j \in 1..n |-> x] \in Seq(A)
         /\ Cadena(f, [j \in 1..n |-> x]) = [j \in 1..n |-> c]
<1>1. [j \in 1..n |-> x] \in Seq(A)
  OBVIOUS
<1> DEFINE X(m) == [j \in 1..m |-> x]
           C(m) == [j \in 1..m |-> c]
           T == {m \in 0..n : Cadena(f, X(m)) = C(m)}
<1>2. 0 \in T
  <2>1. X(0) = << >> /\ C(0) = << >> /\ 0 \in 0..n
    OBVIOUS
  <2>2. << >> \in Seq(A)
    OBVIOUS
  <2>3. Cadena(f, << >>) = << >>
    BY <2>2, CadenaUnaMas
  <2> QED BY <2>1, <2>3
<1>3. ASSUME NEW m \in 0..(n - 1), m \in T PROVE m + 1 \in T
  <2>1. m + 1 \in 0..n /\ m \in Nat
    OBVIOUS
  <2>2. X(m) \in Seq(A) /\ X(m + 1) = Append(X(m), x)
    BY <2>1
  <2>3. C(m + 1) = C(m) \o <<c>>
    BY <2>1
  <2>4. Cadena(f, X(m)) = C(m)
    BY <1>3
  <2> HIDE DEF X, C
  <2>5. Cadena(f, Append(X(m), x)) = Cadena(f, X(m)) \o f[x]
    <3> DEFINE y == X(m)
    <3>1. y \in Seq(A)
      BY <2>2
    <3> HIDE DEF y
    <3>2. Cadena(f, Append(y, x)) = Cadena(f, y) \o f[x]
      BY <3>1, CadenaUnaMas
    <3> QED BY <3>2 DEF y
  <2> QED BY <2>1, <2>2, <2>3, <2>4, <2>5 DEF Sola
<1> HIDE DEF T
<1>4. n \in T
  <2>1. \A k \in 0..n : k \in T
    BY <1>2, <1>3, Induccion
  <2> QED BY <2>1
<1> QED BY <1>1, <1>4 DEF T

-----------------------------------------------------------------------------
(* The scripts the theorems are about.                                     *)

\* t_tipo_instruccion by name, the numbers of a uint32_t, and a script's instructions.
TipoDe == {"COPY", "EXIT", "I/O", "NO_OP", "READ", "WRITE"}
Entero32 == {n \in Nat : n <= 4294967295}
Byte == 0..255
Instruccion == [tipo : TipoDe, op1 : Entero32, op2 : Entero32]

\* What the CPU makes of an instruction, and the bytes it is packed in.
RegistroDe(i) ==
  [tipo |-> i.tipo,
   op1 |-> IF Aridad(i.tipo) > 0 THEN Entero(i.op1) ELSE MenosUno,
   op2 |-> IF Aridad(i.tipo) > 1 THEN Entero(i.op2) ELSE MenosUno]
Copias(i) == [j \in 1..(IF i.tipo = "NO_OP" THEN i.op1 ELSE 1) |-> RegistroDe(i)]
BytesDe(r) ==
  <<Codigo(r.tipo)>> \o (IF Aridad(r.tipo) = 0 THEN << >>
                         ELSE IF Aridad(r.tipo) = 1 THEN r.op1 ELSE r.op1 \o r.op2)
Bytes(rs) == FlattenSeq([k \in DOMAIN rs |-> BytesDe(rs[k])])

\* The end of a file at whose first line the parser fails: a word that is no instruction, or
\* an instruction followed by something that is not its number.
Rehusado(f) ==
  /\ f # << >>
  /\ \/ EsNumero(f[1])
     \/ f[1].palabra \notin TipoDe
     \/ f[1].palabra # "EXIT" /\ Len(f) > 1 /\ ~EsNumero(f[2])

\* EXIT is the last instruction, if there is one.
ExitAlFinal(prog) == \A k \in DOMAIN prog : prog[k].tipo = "EXIT" => k = Len(prog)
TerminaEnExit(prog) == prog # << >> /\ prog[Len(prog)].tipo = "EXIT"

\* Operands and the bytes of the script fit in a uint32_t; the script ends with EXIT, whatever
\* follows, or its file ends, or the parser refuses what follows.  Left out are the files in
\* which an operand is missing and the parser does not notice.
BienEscrito(g) ==
  /\ g.programa \in Seq(Instruccion)
  /\ g.final \in Seq({g.final[k] : k \in DOMAIN g.final})
  /\ ExitAlFinal(g.programa)
  /\ TerminaEnExit(g.programa) \/ g.final = << >> \/ Rehusado(g.final)
  /\ Len(Bytes(Significado(g.programa))) \in Entero32

BienEscritos == \A g \in Guiones : BienEscrito(g)

-----------------------------------------------------------------------------
(* The inductive invariant.                                                *)

\* The parser is at line k + 1, or goes round at the end of a file without EXIT.
Leyendo(g, k) ==
  /\ archivo = Tokens(Desde(programa, k)) \o g.final
  /\ buffer = Bytes(Significado(Hasta(programa, k)))
  /\ instruccion = (IF k = 0 THEN "sin leer" ELSE programa[k].tipo)
  /\ k = 0 \/ programa[k].tipo # "EXIT"
Perdido == archivo = << >> /\ instruccion \in TipoDe \ {"EXIT"}

Parser ==
  /\ \E g \in Guiones : programa = g.programa
  /\ consola \in {"parsear", "aceptado", "rechazado", "enviado", "caida"}
  /\ consola = "parsear" =>
       \/ \E g \in Guiones : programa = g.programa /\ \E k \in 0..Len(programa) : Leyendo(g, k)
       \/ Perdido
  /\ consola \in {"aceptado", "rechazado", "enviado"} => buffer = Bytes(Significado(programa))

\* What the PCB holds.
Pcb ==
  /\ kernel = "sin pcb" <=> consola # "enviado"
  /\ consola = "enviado" => instructionsBuffer = Bytes(Significado(programa))

\* What is left in the socket of the message the CPU is taking.
Sin(m) ==
  IF lector.en = "header" THEN Dispatch!Stream(m)
  ELSE IF lector.en = "size" THEN Entero(Len(m.payload)) \o m.payload
  ELSE m.payload
Leido(m) ==
  /\ lector.en \in {"size", "payload"} => lector.header = m.header
  /\ lector.en = "payload" => lector.size = Len(m.payload) /\ lector.size # 0

\* No message, one, or two in the socket.
Vacio ==
  lector.en = "header" /\ sinRecibir = << >> /\ enViaje = << >> /\ llegados = << >>
Uno(a) ==
  /\ sinRecibir = <<a>> /\ Leido(a)
  /\ \/ lector.en = "header" /\ enViaje = <<Dispatch!Stream(a)>> /\ llegados = << >>
     \/ enViaje = << >> /\ llegados = Sin(a)
Dos(a, b) ==
  /\ sinRecibir = <<a, b>> /\ Leido(a)
  /\ \/ /\ lector.en = "header" /\ llegados = << >>
        /\ enViaje = <<Dispatch!Stream(a), Dispatch!Stream(b)>>
     \/ enViaje = <<Dispatch!Stream(b)>> /\ llegados = Sin(a)
     \/ enViaje = << >> /\ llegados = Sin(a) \o Dispatch!Stream(b)

\* What is in it, if a is the message of the PCB and b that of the list.
SocketDe(a, b) ==
  \/ cpu = "esperar pcb" /\ kernel \in {"sin pcb", "elegido"} /\ Vacio
  \/ cpu = "esperar pcb" /\ kernel = "pcb enviado" /\ Uno(a)
  \/ cpu = "esperar pcb" /\ kernel = "espera respuesta" /\ Dos(a, b)
  \/ cpu = "esperar lista" /\ kernel = "pcb enviado" /\ Vacio
  \/ cpu = "esperar lista" /\ kernel = "espera respuesta" /\ Uno(b)
  \/ cpu \in {"desempaquetar", "ejecutar", "caida"} /\ kernel = "espera respuesta" /\ Vacio
LectorTipo == lector \in [en : {"header", "size", "payload"}, header : Nat, size : Nat]
Socket == LectorTipo /\ \E a, b : a = MensajePcb /\ b = MensajeLista /\ SocketDe(a, b)

\* The CPU has unpacked the first j instructions.
Desempaquetado(s, j) ==
  /\ lista = Hasta(s, j)
  /\ recibido = Bytes(Desde(s, j))
  /\ cpu = "ejecutar" => j = Len(s)
CpuInv ==
  cpu \in {"desempaquetar", "ejecutar"} =>
    \E s : s = Significado(programa) /\ \E j \in 0..Len(s) : Desempaquetado(s, j)

GInv == Parser /\ Pcb /\ Socket /\ CpuInv

-----------------------------------------------------------------------------
(* Words, codes and bytes.                                                 *)

\* The names of the instructions have each a code of its own.
LEMMA Codigos ==
  /\ {Tipos[k] : k \in 1..6} = TipoDe
  /\ \A t \in TipoDe : Codigo(t) \in 0..5 /\ Tipos[Codigo(t) + 1] = t
<1>1. /\ Tipos[1] = "COPY" /\ Tipos[2] = "EXIT" /\ Tipos[3] = "I/O" /\ Tipos[4] = "NO_OP"
      /\ Tipos[5] = "READ" /\ Tipos[6] = "WRITE"
  BY DEF Tipos
<1>2. \A t \in TipoDe : \E k \in 1..6 : Tipos[k] = t
  BY <1>1 DEF TipoDe
<1>3. \A k \in 1..6 : Tipos[k] \in TipoDe
  BY <1>1 DEF TipoDe
<1>4. {Tipos[k] : k \in 1..6} = TipoDe
  BY <1>2, <1>3
<1>5. ASSUME NEW t \in TipoDe PROVE Codigo(t) \in 0..5 /\ Tipos[Codigo(t) + 1] = t
  <2> DEFINE c == CHOOSE k \in 1..6 : Tipos[k] = t
  <2>1. c \in 1..6 /\ Tipos[c] = t
    BY <1>2
  <2>2. Codigo(t) = c - 1
    BY DEF Codigo
  <2> HIDE DEF c
  <2>3. (c - 1) + 1 = c /\ c - 1 \in 0..5
    BY <2>1
  <2> QED BY <2>1, <2>2, <2>3
<1> QED BY <1>4, <1>5

\* The operands of each instruction.
LEMMA Aridades ==
  /\ Aridad("NO_OP") = 0 /\ Aridad("EXIT") = 0 /\ Aridad("I/O") = 1 /\ Aridad("READ") = 1
  /\ Aridad("WRITE") = 2 /\ Aridad("COPY") = 2
  /\ \A t \in TipoDe : Aridad(t) \in {0, 1, 2}
<1>1. /\ Aridad("NO_OP") = 0 /\ Aridad("EXIT") = 0 /\ Aridad("I/O") = 1 /\ Aridad("READ") = 1
      /\ Aridad("WRITE") = 2 /\ Aridad("COPY") = 2
  BY DEF Aridad
<1> QED BY <1>1 DEF TipoDe

\* What fits in 32 bits is a natural.
LEMMA SonNaturales == Entero32 \subseteq Nat /\ 1 \in Entero32
BY SMT DEF Entero32

\* The four bytes of a number, as digits.
LEMMA Digitos ==
  ASSUME NEW n \in Entero32
  PROVE  /\ n % 256 \in Byte /\ (n \div 256) % 256 \in Byte /\ (n \div 65536) % 256 \in Byte
         /\ (n \div 16777216) % 256 \in Byte
         /\ (n % 256) + 256 * ((n \div 256) % 256) + 65536 * ((n \div 65536) % 256)
              + 16777216 * ((n \div 16777216) % 256) = n
<1> DEFINE a == n \div 256
           b == n \div 65536
           c == n \div 16777216
<1>1. n \in Nat /\ n <= 4294967295
  BY SMT DEF Entero32
<1>2. a \in Nat /\ b \in Nat /\ c \in Nat
  BY <1>1, SMT
<1>3. n = 256 * a + (n % 256) /\ n % 256 \in 0..255
  BY <1>1, SMT
<1>4. n = 65536 * b + (n % 65536) /\ n % 65536 \in Nat /\ n % 65536 < 65536
  BY <1>1, SMT
<1>5. n = 16777216 * c + (n % 16777216) /\ n % 16777216 \in Nat /\ n % 16777216 < 16777216
  BY <1>1, SMT
<1>6. a = 256 * (a \div 256) + (a % 256) /\ a % 256 \in 0..255 /\ a \div 256 \in Nat
  BY <1>2, SMT
<1>7. b = 256 * (b \div 256) + (b % 256) /\ b % 256 \in 0..255 /\ b \div 256 \in Nat
  BY <1>2, SMT
<1>8. c \in 0..255 /\ c % 256 = c
  BY <1>1, <1>2, <1>5, SMT
<1> DEFINE r == n % 256
           ra == a % 256
           rb == b % 256
           qa == a \div 256
           qb == b \div 256
           s == n % 65536
           u == n % 16777216
<1>9. /\ n \in Nat /\ a \in Nat /\ b \in Nat /\ c \in Nat /\ qa \in Nat /\ qb \in Nat
      /\ r \in 0..255 /\ ra \in 0..255 /\ rb \in 0..255 /\ s \in Nat /\ s < 65536 /\ u \in Nat /\ u < 16777216
      /\ n = 256 * a + r /\ n = 65536 * b + s /\ n = 16777216 * c + u
      /\ a = 256 * qa + ra /\ b = 256 * qb + rb
  BY <1>1, <1>2, <1>3, <1>4, <1>5, <1>6, <1>7, SMT
<1> HIDE DEF a, b, c, r, ra, rb, qa, qb, s, u
<1>10. qa = b
  BY <1>9, SMT
<1>11. qb = c
  BY <1>9, SMT
<1>12. n = r + 256 * ra + 65536 * rb + 16777216 * c
  BY <1>9, <1>10, <1>11, SMT
<1> QED BY <1>8, <1>9, <1>12, SMT DEF r, ra, rb, a, b, c, Byte

\* A uint32_t is read as it was written.
LEMMA EnteroEs ==
  ASSUME NEW n \in Entero32
  PROVE  Entero(n) \in Seq(Byte) /\ Len(Entero(n)) = 4 /\ Dispatch!Valor(Entero(n)) = n
<1> DEFINE w == <<n % 256, (n \div 256) % 256, (n \div 65536) % 256, (n \div 16777216) % 256>>
<1>1. Entero(n) = w
  BY SMT DEF Entero, Dispatch!Tamanio, SMT
<1>2. w \in Seq(Byte) /\ Len(w) = 4
  BY Digitos, SMT
<1>3. Dispatch!Valor(w) = w[1] + 256 * w[2] + 65536 * w[3] + 16777216 * w[4]
  BY SMT DEF Dispatch!Valor, SMT
<1>4. Dispatch!Valor(w) = n
  BY <1>3, Digitos, SMT
<1> QED BY <1>1, <1>2, <1>4, SMT

-----------------------------------------------------------------------------
(* Lines, records and their bytes.                                         *)

Ficha == {Palabra(t) : t \in TipoDe} \cup {Numero(n) : n \in Entero32}
Registro == {RegistroDe(i) : i \in Instruccion}
EnLinea == [i \in Instruccion |-> Linea(i)]
EnCopias == [i \in Instruccion |-> Copias(i)]
EnBytes == [r \in Registro |-> BytesDe(r)]

\* A record has four bytes in each operand.
LEMMA RegistroTipo ==
  ASSUME NEW i \in Instruccion
  PROVE  /\ i.tipo \in TipoDe /\ i.op1 \in Entero32 /\ i.op2 \in Entero32
         /\ RegistroDe(i) \in Registro /\ RegistroDe(i).tipo = i.tipo
         /\ RegistroDe(i).op1 = (IF Aridad(i.tipo) > 0 THEN Entero(i.op1) ELSE MenosUno)
         /\ RegistroDe(i).op2 = (IF Aridad(i.tipo) > 1 THEN Entero(i.op2) ELSE MenosUno)
         /\ RegistroDe(i).op1 \in Seq(Byte) /\ Len(RegistroDe(i).op1) = 4
         /\ RegistroDe(i).op2 \in Seq(Byte) /\ Len(RegistroDe(i).op2) = 4
<1>1. i.tipo \in TipoDe /\ i.op1 \in Entero32 /\ i.op2 \in Entero32
  BY DEF Instruccion
<1>2. RegistroDe(i) \in Registro
  BY DEF Registro
<1>3. /\ RegistroDe(i).tipo = i.tipo
      /\ RegistroDe(i).op1 = (IF Aridad(i.tipo) > 0 THEN Entero(i.op1) ELSE MenosUno)
      /\ RegistroDe(i).op2 = (IF Aridad(i.tipo) > 1 THEN Entero(i.op2) ELSE MenosUno)
  BY DEF RegistroDe
<1>4. MenosUno \in Seq(Byte) /\ Len(MenosUno) = 4
  BY DEF MenosUno, Byte
<1>5. Entero(i.op1) \in Seq(Byte) /\ Len(Entero(i.op1)) = 4
  BY <1>1, EnteroEs
<1>6. Entero(i.op2) \in Seq(Byte) /\ Len(Entero(i.op2)) = 4
  BY <1>1, EnteroEs
<1> QED BY <1>1, <1>2, <1>3, <1>4, <1>5, <1>6

\* What is packed of a record.
LEMMA BytesTipo ==
  ASSUME NEW r \in Registro
  PROVE  /\ BytesDe(r) \in Seq(Byte) /\ r.tipo \in TipoDe
         /\ BytesDe(r) = <<Codigo(r.tipo)>> \o (IF Aridad(r.tipo) = 0 THEN << >>
              ELSE IF Aridad(r.tipo) = 1 THEN r.op1 ELSE r.op1 \o r.op2)
         /\ r.op1 \in Seq(Byte) /\ Len(r.op1) = 4 /\ r.op2 \in Seq(Byte) /\ Len(r.op2) = 4
<1>1. PICK i \in Instruccion : r = RegistroDe(i)
  BY DEF Registro
<1>2. r.tipo \in TipoDe /\ r.op1 \in Seq(Byte) /\ Len(r.op1) = 4 /\ r.op2 \in Seq(Byte) /\ Len(r.op2) = 4
  BY <1>1, RegistroTipo
<1>3. Codigo(r.tipo) \in Byte
  <2>1. Codigo(r.tipo) \in 0..5
    BY <1>2, Codigos
  <2> QED BY <2>1 DEF Byte
<1>4. BytesDe(r) = <<Codigo(r.tipo)>> \o (IF Aridad(r.tipo) = 0 THEN << >>
        ELSE IF Aridad(r.tipo) = 1 THEN r.op1 ELSE r.op1 \o r.op2)
  BY DEF BytesDe
<1> DEFINE o == IF Aridad(r.tipo) = 0 THEN << >>
                ELSE IF Aridad(r.tipo) = 1 THEN r.op1 ELSE r.op1 \o r.op2
<1>5. o \in Seq(Byte)
  BY <1>2
<1> HIDE DEF o
<1>6. <<Codigo(r.tipo)>> \o o \in Seq(Byte)
  BY <1>3, <1>5
<1> QED BY <1>2, <1>4, <1>6 DEF o

\* One thing and another.
LEMMA PegarDos ==
  ASSUME NEW S, NEW p \in S, NEW a \in S
  PROVE  <<p>> \o <<a>> = <<p, a>>
<1> DEFINE c == <<p>> \o <<a>>
           d == <<p, a>>
<1>1. c \in Seq(S) /\ Len(c) = 2 /\ c[1] = p /\ c[2] = a
  OBVIOUS
<1>2. d \in Seq(S) /\ Len(d) = 2 /\ d[1] = p /\ d[2] = a
  OBVIOUS
<1> HIDE DEF c, d
<1>3. \A k \in 1..2 : c[k] = d[k]
  <2>1. \A k \in 1..2 : k = 1 \/ k = 2
    OBVIOUS
  <2> QED BY <2>1, <1>1, <1>2
<1>4. c = d
  BY <1>1, <1>2, <1>3, SeqEqual
<1> QED BY <1>4 DEF c, d

\* One thing and up to two more.
LEMMA Pegar ==
  ASSUME NEW S, NEW p \in S, NEW a \in S, NEW b \in S
  PROVE  /\ <<p>> \o << >> = <<p>> /\ <<p>> \o <<a>> = <<p, a>> /\ <<p>> \o <<a, b>> = <<p, a, b>>
         /\ <<p>> \in Seq(S) /\ <<p, a>> \in Seq(S) /\ <<p, a, b>> \in Seq(S)
<1>1. <<p>> \in Seq(S) /\ <<a>> \in Seq(S) /\ <<a, b>> \in Seq(S) /\ << >> \in Seq(S)
  OBVIOUS
<1>2. <<p>> \o << >> = <<p>>
  OBVIOUS
<1>3. <<p>> \o <<a>> = <<p, a>>
  BY PegarDos
<1>4. <<p>> \o <<a, b>> = <<p, a, b>>
  <2> DEFINE c == <<p>> \o <<a, b>>
             d == <<p, a, b>>
  <2>1. c \in Seq(S) /\ Len(c) = 3 /\ c[1] = p /\ c[2] = a /\ c[3] = b
    OBVIOUS
  <2>2. d \in Seq(S) /\ Len(d) = 3 /\ d[1] = p /\ d[2] = a /\ d[3] = b
    OBVIOUS
  <2> HIDE DEF c, d
  <2>3. \A k \in 1..3 : c[k] = d[k]
    <3>1. \A k \in 1..3 : k = 1 \/ k = 2 \/ k = 3
      OBVIOUS
    <3> QED BY <3>1, <2>1, <2>2
  <2>4. c = d
    BY <2>1, <2>2, <2>3, SeqEqual
  <2> QED BY <2>4 DEF c, d
<1>5. <<p, a>> \in Seq(S) /\ <<p, a, b>> \in Seq(S)
  OBVIOUS
<1> QED BY <1>1, <1>2, <1>3, <1>4, <1>5

\* The line of an instruction, by its type.
LEMMA LineaEs ==
  ASSUME NEW i \in Instruccion
  PROVE  /\ i.tipo = "EXIT" => Linea(i) = <<Palabra(i.tipo)>>
         /\ i.tipo \in {"NO_OP", "I/O", "READ"} => Linea(i) = <<Palabra(i.tipo), Numero(i.op1)>>
         /\ i.tipo \in {"WRITE", "COPY"} =>
              Linea(i) = <<Palabra(i.tipo), Numero(i.op1), Numero(i.op2)>>
         /\ Linea(i) \in Seq(Ficha)
<1> DEFINE p == Palabra(i.tipo)
           a == Numero(i.op1)
           b == Numero(i.op2)
<1>1. p \in Ficha /\ a \in Ficha /\ b \in Ficha /\ i.tipo \in TipoDe
  BY RegistroTipo DEF Ficha
<1> DEFINE o == CASE i.tipo \in {"NO_OP", "I/O", "READ"} -> <<a>>
                  [] i.tipo \in {"WRITE", "COPY"} -> <<a, b>>
                  [] i.tipo = "EXIT" -> << >>
<1>2. Linea(i) = <<p>> \o o
  BY DEF Linea
<1>3. /\ i.tipo = "EXIT" => o = << >>
      /\ i.tipo \in {"NO_OP", "I/O", "READ"} => o = <<a>>
      /\ i.tipo \in {"WRITE", "COPY"} => o = <<a, b>>
  OBVIOUS
<1>4. i.tipo = "EXIT" \/ i.tipo \in {"NO_OP", "I/O", "READ"} \/ i.tipo \in {"WRITE", "COPY"}
  BY <1>1 DEF TipoDe
<1> HIDE DEF p, a, b, o
<1>9. <<p>> \o << >> = <<p>> /\ <<p>> \o <<a>> = <<p, a>> /\ <<p>> \o <<a, b>> = <<p, a, b>>
  BY <1>1, Pegar
<1>5. i.tipo = "EXIT" => Linea(i) = <<p>>
  BY <1>9, <1>2, <1>3
<1>6. i.tipo \in {"NO_OP", "I/O", "READ"} => Linea(i) = <<p, a>>
  BY <1>9, <1>2, <1>3
<1>7. i.tipo \in {"WRITE", "COPY"} => Linea(i) = <<p, a, b>>
  BY <1>9, <1>2, <1>3
<1>8. Linea(i) \in Seq(Ficha)
  <2>1. <<p>> \in Seq(Ficha) /\ <<p, a>> \in Seq(Ficha) /\ <<p, a, b>> \in Seq(Ficha)
    BY <1>1, Pegar
  <2> QED BY <2>1, <1>4, <1>5, <1>6, <1>7
<1> QED BY <1>5, <1>6, <1>7, <1>8 DEF p, a, b

\* Each gives sequences of its kind.
LEMMA Dan ==
  /\ Da(EnLinea, Instruccion, Ficha)
  /\ Da(EnCopias, Instruccion, Registro)
  /\ Da(EnBytes, Registro, Byte)
<1>1. Da(EnLinea, Instruccion, Ficha)
  BY LineaEs DEF Da, EnLinea
<1>2. \A i \in Instruccion : Copias(i) \in Seq(Registro)
  <2> SUFFICES ASSUME NEW i \in Instruccion PROVE Copias(i) \in Seq(Registro)
    OBVIOUS
  <2> DEFINE n == IF i.tipo = "NO_OP" THEN i.op1 ELSE 1
             r == RegistroDe(i)
  <2>1. n \in Nat /\ r \in Registro
    BY RegistroTipo, SonNaturales
  <2>2. Copias(i) = [j \in 1..n |-> r]
    BY DEF Copias
  <2> HIDE DEF n, r
  <2> QED BY <2>1, <2>2
<1>3. Da(EnCopias, Instruccion, Registro)
  BY <1>2 DEF Da, EnCopias
<1>4. Da(EnBytes, Registro, Byte)
  BY BytesTipo DEF Da, EnBytes
<1> QED BY <1>1, <1>3, <1>4

\* The operators of the model as chains.
LEMMA SonCadenas ==
  /\ \A p \in Seq(Instruccion) : Tokens(p) = Cadena(EnLinea, p)
  /\ \A p \in Seq(Instruccion) : Significado(p) = Cadena(EnCopias, p)
  /\ \A rs \in Seq(Registro) : Bytes(rs) = Cadena(EnBytes, rs)
<1>1. ASSUME NEW p \in Seq(Instruccion)
      PROVE  /\ [k \in DOMAIN p |-> Linea(p[k])] = Cada(EnLinea, p)
             /\ [k \in DOMAIN p |-> Copias(p[k])] = Cada(EnCopias, p)
  <2>1. \A k \in DOMAIN p : p[k] \in Instruccion
    OBVIOUS
  <2>2. /\ \A k \in DOMAIN p : EnLinea[p[k]] = Linea(p[k])
        /\ \A k \in DOMAIN p : EnCopias[p[k]] = Copias(p[k])
    BY <2>1 DEF EnLinea, EnCopias
  <2> QED BY <2>2, Zenon DEF Cada
<1>2. ASSUME NEW p \in Seq(Instruccion) PROVE Tokens(p) = Cadena(EnLinea, p)
  BY <1>1 DEF Tokens, Cadena
<1>3. ASSUME NEW p \in Seq(Instruccion) PROVE Significado(p) = Cadena(EnCopias, p)
  BY <1>1 DEF Significado, Cadena, Copias, RegistroDe
<1>4. ASSUME NEW rs \in Seq(Registro) PROVE Bytes(rs) = Cadena(EnBytes, rs)
  <2>1. \A k \in DOMAIN rs : rs[k] \in Registro
    OBVIOUS
  <2>2. \A k \in DOMAIN rs : EnBytes[rs[k]] = BytesDe(rs[k])
    BY <2>1 DEF EnBytes
  <2>3. [k \in DOMAIN rs |-> BytesDe(rs[k])] = Cada(EnBytes, rs)
    BY <2>2, Zenon DEF Cada
  <2> QED BY <2>3 DEF Bytes, Cadena
<1> QED BY <1>2, <1>3, <1>4

-----------------------------------------------------------------------------
(* One line more, read and packed.                                         *)

\* The tokens from line m + 1 on are those of that line and the rest.
LEMMA TokensDesde ==
  ASSUME NEW p \in Seq(Instruccion), NEW m \in 0..(Len(p) - 1)
  PROVE  /\ p[m + 1] \in Instruccion /\ m + 1 \in 1..Len(p)
         /\ Linea(p[m + 1]) \in Seq(Ficha) /\ Tokens(Desde(p, m + 1)) \in Seq(Ficha)
         /\ Tokens(Desde(p, m)) = Linea(p[m + 1]) \o Tokens(Desde(p, m + 1))
<1>1. /\ p[m + 1] \in Instruccion /\ m + 1 \in 1..Len(p)
      /\ Desde(p, m) \in Seq(Instruccion) /\ Desde(p, m + 1) \in Seq(Instruccion)
      /\ Desde(p, m) = <<p[m + 1]>> \o Desde(p, m + 1)
  BY Avanzar
<1> DEFINE x == p[m + 1]
           s == Desde(p, m + 1)
<1> HIDE DEF x, s
<1>2. /\ Cadena(EnLinea, s) \in Seq(Ficha)
      /\ Cadena(EnLinea, ConPrimera(x, s)) = EnLinea[x] \o Cadena(EnLinea, s)
  <2>1. x \in Instruccion /\ s \in Seq(Instruccion)
    BY <1>1 DEF x, s
  <2>2. Da(EnLinea, Instruccion, Ficha)
    BY Dan
  <2> QED BY <2>1, <2>2, CadenaPrimera
<1>3. EnLinea[x] = Linea(x) /\ Linea(x) \in Seq(Ficha)
  BY <1>1, LineaEs DEF EnLinea, x
<1>4. Tokens(s) = Cadena(EnLinea, s) /\ Tokens(Desde(p, m)) = Cadena(EnLinea, ConPrimera(x, s))
  BY <1>1, SonCadenas DEF x, s, ConPrimera
<1> QED BY <1>1, <1>2, <1>3, <1>4 DEF x, s

\* The bytes of the first m + 1 lines are those of the first m and of line m + 1.
LEMMA BytesHasta ==
  ASSUME NEW p \in Seq(Instruccion), NEW m \in 0..(Len(p) - 1)
  PROVE  /\ Bytes(Significado(Hasta(p, m))) \in Seq(Byte)
         /\ Copias(p[m + 1]) \in Seq(Registro)
         /\ Bytes(Significado(Hasta(p, m + 1)))
              = Bytes(Significado(Hasta(p, m))) \o Bytes(Copias(p[m + 1]))
<1> DEFINE x == p[m + 1]
           s == Hasta(p, m)
<1>1. /\ x \in Instruccion /\ s \in Seq(Instruccion) /\ Hasta(p, m + 1) = Append(s, x)
  BY Avanzar
<1> HIDE DEF x, s
<1>10. Append(s, x) \in Seq(Instruccion)
  BY <1>1
<1>2. /\ Cadena(EnCopias, s) \in Seq(Registro)
      /\ Cadena(EnCopias, Append(s, x)) = Cadena(EnCopias, s) \o EnCopias[x]
  BY <1>1, Dan, CadenaUnaMas
<1>3. EnCopias[x] = Copias(x) /\ EnCopias[x] \in Seq(Registro)
  BY <1>1, Dan DEF EnCopias, Da
<1>4. /\ Significado(s) = Cadena(EnCopias, s)
      /\ Significado(Append(s, x)) = Cadena(EnCopias, Append(s, x))
  BY <1>1, <1>10, SonCadenas
<1> DEFINE a == Significado(s)
           b == Copias(x)
<1>5. a \in Seq(Registro) /\ b \in Seq(Registro) /\ Significado(Append(s, x)) = a \o b
  BY <1>2, <1>3, <1>4
<1> HIDE DEF a, b
<1>6. Cadena(EnBytes, a \o b) = Cadena(EnBytes, a) \o Cadena(EnBytes, b)
  BY <1>5, Dan, CadenaUnion
<1>7. a \o b \in Seq(Registro)
  BY <1>5
<1>8. /\ Bytes(a) = Cadena(EnBytes, a) /\ Bytes(b) = Cadena(EnBytes, b)
      /\ Bytes(a \o b) = Cadena(EnBytes, a \o b)
  BY <1>5, <1>7, SonCadenas
<1>9. Cadena(EnBytes, a) \in Seq(Byte)
  <2>1. \E r : r \in Registro
    <3>1. [tipo |-> "EXIT", op1 |-> 1, op2 |-> 1] \in Instruccion
      BY SonNaturales DEF Instruccion, TipoDe
    <3> QED BY <3>1 DEF Registro
  <2>2. PICK r : r \in Registro
    BY <2>1
  <2> QED BY <1>5, <2>2, Dan, CadenaUnaMas
<1> QED BY <1>1, <1>3, <1>5, <1>6, <1>8, <1>9 DEF x, s, a, b

\* What the parser packs for a line.
LEMMA BytesDeCopias ==
  ASSUME NEW i \in Instruccion
  PROVE  /\ i.tipo = "NO_OP" => Bytes(Copias(i)) = [k \in 1..i.op1 |-> Codigo("NO_OP")]
         /\ i.tipo = "EXIT" => Bytes(Copias(i)) = <<Codigo("EXIT")>> \o << >>
         /\ i.tipo \in {"I/O", "READ"} =>
              Bytes(Copias(i)) = <<Codigo(i.tipo)>> \o Entero(i.op1)
         /\ i.tipo \in {"WRITE", "COPY"} =>
              Bytes(Copias(i)) = <<Codigo(i.tipo)>> \o (Entero(i.op1) \o Entero(i.op2))
<1> DEFINE r == RegistroDe(i)
<1>1. /\ i.tipo \in TipoDe /\ i.op1 \in Entero32 /\ i.op2 \in Entero32 /\ r \in Registro
      /\ r.tipo = i.tipo
      /\ r.op1 = (IF Aridad(i.tipo) > 0 THEN Entero(i.op1) ELSE MenosUno)
      /\ r.op2 = (IF Aridad(i.tipo) > 1 THEN Entero(i.op2) ELSE MenosUno)
  BY RegistroTipo
<1>2. Copias(i) = [j \in 1..(IF i.tipo = "NO_OP" THEN i.op1 ELSE 1) |-> r]
  BY DEF Copias
<1> HIDE DEF r
<1>3. /\ EnBytes[r] = BytesDe(r) /\ BytesDe(r) \in Seq(Byte)
      /\ BytesDe(r) = <<Codigo(i.tipo)>> \o (IF Aridad(i.tipo) = 0 THEN << >>
              ELSE IF Aridad(i.tipo) = 1 THEN r.op1 ELSE r.op1 \o r.op2)
  BY <1>1, BytesTipo DEF EnBytes
<1>4. Codigo(i.tipo) \in Byte
  <2>1. Codigo(i.tipo) \in 0..5
    BY <1>1, Codigos
  <2> QED BY <2>1 DEF Byte
<1>5. CASE i.tipo = "NO_OP"
  <2>1. i.op1 \in Nat
    BY <1>1, SonNaturales
  <2>2. BytesDe(r) = <<Codigo("NO_OP")>>
    <3>1. <<Codigo("NO_OP")>> \o << >> = <<Codigo("NO_OP")>>
      BY <1>4, <1>5, Pegar
    <3> QED BY <1>3, <1>5, <3>1, Aridades
  <2>3. Sola(EnBytes, r, Codigo("NO_OP"))
    BY <1>3, <2>2 DEF Sola
  <2>4. /\ [j \in 1..i.op1 |-> r] \in Seq(Registro)
        /\ Cadena(EnBytes, [j \in 1..i.op1 |-> r]) = [j \in 1..i.op1 |-> Codigo("NO_OP")]
    BY <1>1, <1>4, <1>5, <2>1, <2>3, Dan, CadenaDeCopias
  <2>5. Copias(i) = [j \in 1..i.op1 |-> r]
    BY <1>2, <1>5
  <2>6. Bytes(Copias(i)) = [j \in 1..i.op1 |-> Codigo("NO_OP")]
    BY <2>4, <2>5, SonCadenas
  <2> QED BY <1>5, <2>6
<1>6. CASE i.tipo # "NO_OP"
  <2>1. Copias(i) = <<r>>
    BY <1>2, <1>6
  <2> DEFINE v == << >>
  <2>2. v \in Seq(Registro) /\ Append(v, r) = <<r>> /\ <<r>> \in Seq(Registro)
    BY <1>1
  <2> HIDE DEF v
  <2>3. Cadena(EnBytes, Append(v, r)) = Cadena(EnBytes, v) \o EnBytes[r] /\ Cadena(EnBytes, << >>) = << >>
    <3>1. r \in Registro /\ v \in Seq(Registro) /\ Da(EnBytes, Registro, Byte)
      BY <1>1, <2>2, Dan
    <3> QED BY <3>1, CadenaUnaMas
  <2>4. Cadena(EnBytes, <<r>>) = << >> \o BytesDe(r)
    BY <2>2, <2>3, <1>3 DEF v
  <2>5. << >> \o BytesDe(r) = BytesDe(r)
    BY <1>3
  <2>6. Bytes(<<r>>) = BytesDe(r)
    BY <2>2, <2>4, <2>5, SonCadenas
  <2>7. i.tipo = "EXIT" => Bytes(Copias(i)) = <<Codigo("EXIT")>> \o << >>
    BY <2>1, <2>6, <1>3, Aridades
  <2>8. i.tipo \in {"I/O", "READ"} => Bytes(Copias(i)) = <<Codigo(i.tipo)>> \o Entero(i.op1)
    <3> SUFFICES ASSUME i.tipo \in {"I/O", "READ"}
                 PROVE  Bytes(Copias(i)) = <<Codigo(i.tipo)>> \o Entero(i.op1)
      OBVIOUS
    <3>1. Aridad(i.tipo) = 1
      BY Aridades
    <3>2. BytesDe(r) = <<Codigo(i.tipo)>> \o r.op1 /\ r.op1 = Entero(i.op1)
      BY <3>1, <1>1, <1>3
    <3> QED BY <2>1, <2>6, <3>2
  <2>9. i.tipo \in {"WRITE", "COPY"} =>
          Bytes(Copias(i)) = <<Codigo(i.tipo)>> \o (Entero(i.op1) \o Entero(i.op2))
    <3> SUFFICES ASSUME i.tipo \in {"WRITE", "COPY"}
                 PROVE  Bytes(Copias(i)) = <<Codigo(i.tipo)>> \o (Entero(i.op1) \o Entero(i.op2))
      OBVIOUS
    <3>1. Aridad(i.tipo) = 2
      BY Aridades
    <3>2. /\ BytesDe(r) = <<Codigo(i.tipo)>> \o (r.op1 \o r.op2)
          /\ r.op1 = Entero(i.op1) /\ r.op2 = Entero(i.op2)
      BY <3>1, <1>1, <1>3
    <3> QED BY <2>1, <2>6, <3>2
  <2> QED BY <1>6, <2>7, <2>8, <2>9
<1> QED BY <1>5, <1>6

-----------------------------------------------------------------------------
(* The parser.                                                             *)

\* A token before others.
LEMMA Delante ==
  ASSUME NEW S, NEW x \in S, NEW d \in Seq(S)
  PROVE  /\ <<x>> \o d \in Seq(S) /\ <<x>> \o d # << >>
         /\ (<<x>> \o d)[1] = x /\ Tail(<<x>> \o d) = d
<1> DEFINE e == <<x>> \o d
<1>1. /\ e \in Seq(S) /\ Len(e) = 1 + Len(d) /\ e[1] = x /\ \A k \in 1..Len(d) : e[k + 1] = d[k]
      /\ Len(d) \in Nat
  OBVIOUS
<1> HIDE DEF e
<1>2. e # << >>
  BY <1>1
<1>3. Tail(e) \in Seq(S) /\ Len(Tail(e)) = Len(d) /\ \A k \in 1..Len(d) : Tail(e)[k] = d[k]
  BY <1>1, <1>2, HeadTailProperties
<1>4. Tail(e) = d
  BY <1>3, SeqEqual
<1> QED BY <1>1, <1>2, <1>4 DEF e

\* Numbers are told from words.
LEMMA FichasSon ==
  ASSUME NEW t, NEW n
  PROVE  /\ ~EsNumero(Palabra(t)) /\ Palabra(t).palabra = t
         /\ EsNumero(Numero(n)) /\ Numero(n).numero = n
  BY DEF EsNumero, Palabra, Numero

\* What fscanf finds in front of what follows a line, which is d.
LEMMA LineaDelante ==
  ASSUME NEW i \in Instruccion, NEW S, Ficha \subseteq S, NEW d \in Seq(S),
         archivo = Linea(i) \o d
  PROVE  /\ archivo # << >> /\ Leida = i.tipo
         /\ i.tipo = "EXIT" => Resto = d
         /\ i.tipo \in {"NO_OP", "I/O", "READ"} =>
              /\ HayNumero(Resto) /\ ~NoEsNumero(Resto) /\ Tras(Resto) = d
              /\ \A op : Operando(Resto, op) = Entero(i.op1)
         /\ i.tipo \in {"WRITE", "COPY"} =>
              /\ HayNumero(Resto) /\ ~NoEsNumero(Resto) /\ Tras(Tail(Resto)) = d
              /\ \A op : Operando(Resto, op) = Entero(i.op1)
              /\ \A op : Operando(Tail(Resto), op) = Entero(i.op2)
<1> DEFINE p == Palabra(i.tipo)
           a == Numero(i.op1)
           b == Numero(i.op2)
<1>1. p \in S /\ a \in S /\ b \in S /\ i.tipo \in TipoDe
  BY RegistroTipo DEF Ficha
<1>2. /\ ~EsNumero(p) /\ p.palabra = i.tipo /\ EsNumero(a) /\ a.numero = i.op1
      /\ EsNumero(b) /\ b.numero = i.op2
  BY FichasSon
<1>3. /\ i.tipo = "EXIT" => Linea(i) = <<p>>
      /\ i.tipo \in {"NO_OP", "I/O", "READ"} => Linea(i) = <<p, a>>
      /\ i.tipo \in {"WRITE", "COPY"} => Linea(i) = <<p, a, b>>
  BY LineaEs
<1> HIDE DEF p, a, b
<1>4. i.tipo = "EXIT" \/ i.tipo \in {"NO_OP", "I/O", "READ"} \/ i.tipo \in {"WRITE", "COPY"}
  BY <1>1 DEF TipoDe
<1> DEFINE db == <<b>> \o d
           da == <<a>> \o d
           dab == <<a>> \o db
<1>5. /\ db \in Seq(S) /\ db # << >> /\ db[1] = b /\ Tail(db) = d
      /\ da \in Seq(S) /\ da # << >> /\ da[1] = a /\ Tail(da) = d
  BY <1>1, Delante
<1> HIDE DEF db
<1>6. dab \in Seq(S) /\ dab # << >> /\ dab[1] = a /\ Tail(dab) = db
  BY <1>1, <1>5, Delante
<1>7. <<p, a>> \o d = <<p>> \o da
  <2>1. <<p>> \in Seq(S) /\ <<a>> \in Seq(S)
    BY <1>1
  <2>3. <<p>> \o <<a>> = <<p, a>>
    BY <1>1, PegarDos
  <2>2. (<<p>> \o <<a>>) \o d = <<p>> \o (<<a>> \o d)
    BY <2>1, Asocia
  <2> QED BY <2>2, <2>3
<1>8. <<p, a, b>> \o d = <<p>> \o dab
  <2>1. <<p>> \in Seq(S) /\ <<a>> \in Seq(S) /\ <<b>> \in Seq(S) /\ <<a, b>> \in Seq(S)
    BY <1>1
  <2>4. <<p>> \o <<a, b>> = <<p, a, b>>
    BY <1>1, Pegar
  <2>5. <<a>> \o <<b>> = <<a, b>>
    BY <1>1, PegarDos
  <2>2. (<<p>> \o <<a, b>>) \o d = <<p>> \o (<<a, b>> \o d)
    BY <2>1, Asocia
  <2>3. (<<a>> \o <<b>>) \o d = <<a>> \o (<<b>> \o d)
    BY <2>1, Asocia
  <2> QED BY <2>2, <2>3, <2>4, <2>5 DEF db
<1> HIDE DEF da, dab
<1>9. CASE i.tipo = "EXIT"
  <2>1. archivo = <<p>> \o d
    BY <1>3, <1>9
  <2>2. archivo # << >> /\ archivo[1] = p /\ Tail(archivo) = d
    BY <2>1, <1>1, Delante
  <2>3. Leida = i.tipo /\ Resto = d
    BY <2>2, <1>2 DEF Leida, Resto
  <2> QED BY <1>9, <2>2, <2>3
<1>10. CASE i.tipo \in {"NO_OP", "I/O", "READ"}
  <2>1. archivo = <<p>> \o da
    BY <1>3, <1>7, <1>10
  <2>2. archivo # << >> /\ archivo[1] = p /\ Tail(archivo) = da
    BY <2>1, <1>1, <1>5, Delante
  <2>3. Leida = i.tipo /\ Resto = da
    BY <2>2, <1>2 DEF Leida, Resto
  <2>4. /\ HayNumero(Resto) /\ ~NoEsNumero(Resto) /\ Tras(Resto) = d
        /\ \A op : Operando(Resto, op) = Entero(i.op1)
    BY <2>3, <1>2, <1>5 DEF HayNumero, NoEsNumero, Tras, Operando
  <2> QED BY <1>10, <2>2, <2>3, <2>4
<1>11. CASE i.tipo \in {"WRITE", "COPY"}
  <2>1. archivo = <<p>> \o dab
    BY <1>3, <1>8, <1>11
  <2>2. archivo # << >> /\ archivo[1] = p /\ Tail(archivo) = dab
    BY <2>1, <1>1, <1>6, Delante
  <2>3. Leida = i.tipo /\ Resto = dab /\ Tail(Resto) = db
    BY <2>2, <1>2, <1>6 DEF Leida, Resto
  <2>4. HayNumero(Resto) /\ ~NoEsNumero(Resto) /\ \A op : Operando(Resto, op) = Entero(i.op1)
    BY <2>3, <1>2, <1>6 DEF HayNumero, NoEsNumero, Operando
  <2>5. Tras(Tail(Resto)) = d /\ \A op : Operando(Tail(Resto), op) = Entero(i.op2)
    BY <2>3, <1>2, <1>5 DEF HayNumero, Tras, Operando
  <2> QED BY <1>11, <2>2, <2>3, <2>4, <2>5
<1> QED BY <1>4, <1>9, <1>10, <1>11

\* The parser packs an instruction after the others.
LEMMA Empaca ==
  ASSUME NEW b \in Seq(Byte), NEW t \in TipoDe, NEW o \in Seq(Byte)
  PROVE  (b \o <<Codigo(t)>>) \o o = b \o (<<Codigo(t)>> \o o)
<1>1. Codigo(t) \in Byte
  <2>1. Codigo(t) \in 0..5
    BY Codigos
  <2> QED BY <2>1 DEF Byte
<1>2. <<Codigo(t)>> \in Seq(Byte)
  BY <1>1
<1> QED BY <1>2, Asocia

\* A step of the parser.
PasoParser == LeerNoOp \/ LeerUnOperando \/ LeerDosOperandos \/ LeerExit \/ LeerOtra

\* The good script the state is of.
LEMMA Bien ==
  ASSUME BienEscritos, NEW g \in Guiones
  PROVE  /\ g.programa \in Seq(Instruccion) /\ Len(g.programa) \in Nat
         /\ g.final \in Seq({g.final[k] : k \in DOMAIN g.final})
         /\ \A k \in 1..Len(g.programa) : g.programa[k].tipo = "EXIT" => k = Len(g.programa)
         /\ TerminaEnExit(g.programa) \/ g.final = << >> \/ Rehusado(g.final)
         /\ Len(Bytes(Significado(g.programa))) \in Entero32
<1>1. BienEscrito(g)
  BY DEF BienEscritos
<1>2. g.programa \in Seq(Instruccion)
  BY <1>1 DEF BienEscrito
<1>3. DOMAIN g.programa = 1..Len(g.programa) /\ Len(g.programa) \in Nat
  BY <1>2
<1> QED BY <1>1, <1>2, <1>3 DEF BienEscrito, ExitAlFinal

\* Concatenation is associative, of members of some set.
DeUnTipo(S, a, b, c) == a \in Seq(S) /\ b \in Seq(S) /\ c \in Seq(S)
LEMMA AsociaDeUnTipo ==
  ASSUME NEW S, NEW a, NEW b, NEW c, DeUnTipo(S, a, b, c)
  PROVE  (a \o b) \o c = a \o (b \o c) /\ b \o c \in Seq(S)
<1>1. a \in Seq(S) /\ b \in Seq(S) /\ c \in Seq(S)
  BY DEF DeUnTipo
<1> QED BY <1>1, Asocia

\* What is second in a list is first in its tail.
LEMMA Segundo ==
  ASSUME NEW T, NEW f \in Seq(T), Len(f) > 1
  PROVE  Tail(f) # << >> /\ Tail(f)[1] = f[2]
<1>1. f # << >>
  OBVIOUS
<1>2. Tail(f) \in Seq(T) /\ Len(Tail(f)) = Len(f) - 1 /\ \A j \in 1..Len(Tail(f)) : Tail(f)[j] = f[j + 1]
  BY <1>1, HeadTailProperties
<1>3. 1 \in 1..Len(Tail(f)) /\ 1 + 1 = 2
  BY <1>2
<1>4. Tail(f) # << >>
  BY <1>3
<1> QED BY <1>2, <1>3, <1>4

\* The file from line k + 1 on: the line, and d.
Ante(g, p, k) ==
  \E S, d : /\ Ficha \subseteq S /\ d \in Seq(S)
            /\ d = Tokens(Desde(p, k + 1)) \o g.final /\ archivo = Linea(p[k + 1]) \o d

\* What is in front of the parser at a line of the script.
LEMMA AnteLinea ==
  ASSUME BienEscritos, NEW g \in Guiones, NEW p, p = g.programa, programa = p,
         NEW k \in 0..(Len(p) - 1), Leyendo(g, k)
  PROVE  Ante(g, p, k)
<1> DEFINE F == {g.final[j] : j \in DOMAIN g.final}
           S == Ficha \cup F
           a == Linea(p[k + 1])
           b == Tokens(Desde(p, k + 1))
           c == g.final
<1>1. p \in Seq(Instruccion) /\ c \in Seq(F)
  BY Bien
<1>2. a \in Seq(Ficha) /\ b \in Seq(Ficha) /\ Tokens(Desde(p, k)) = a \o b
  BY <1>1, TokensDesde
<1>3. archivo = (a \o b) \o c
  BY <1>2 DEF Leyendo
<1> HIDE DEF F, a, b, c
<1>4. a \in Seq(S) /\ b \in Seq(S) /\ c \in Seq(S) /\ Ficha \subseteq S
  BY <1>1, <1>2
<1> HIDE DEF S
<1>5. (a \o b) \o c = a \o (b \o c) /\ b \o c \in Seq(S)
  <2>1. DeUnTipo(S, a, b, c)
    BY <1>4 DEF DeUnTipo
  <2> QED BY <2>1, AsociaDeUnTipo
<1> QED BY <1>3, <1>4, <1>5 DEF a, b, c, Ante

\* A line of the script is read.
LEMMA EnLineaPaso ==
  ASSUME BienEscritos, NEW g \in Guiones, NEW p, p = g.programa, programa = p,
         NEW k \in 0..(Len(p) - 1), Leyendo(g, k), consola = "parsear", PasoParser
  PROVE  /\ programa' = p
         /\ \/ consola' = "parsear" /\ Leyendo(g, k + 1)'
            \/ consola' = "aceptado" /\ buffer' = Bytes(Significado(p))
<1> DEFINE i == p[k + 1]
<1>1. /\ p \in Seq(Instruccion) /\ Len(p) \in Nat
      /\ \A j \in 1..Len(p) : p[j].tipo = "EXIT" => j = Len(p)
  BY Bien
<1>2. k + 1 \in 1..Len(p) /\ i \in Instruccion
  BY <1>1
<1>3. /\ Bytes(Significado(Hasta(p, k))) \in Seq(Byte)
      /\ Bytes(Significado(Hasta(p, k + 1))) = Bytes(Significado(Hasta(p, k))) \o Bytes(Copias(i))
  BY <1>1, BytesHasta
<1>4. buffer = Bytes(Significado(Hasta(p, k))) /\ buffer \in Seq(Byte)
  BY <1>3 DEF Leyendo
<1>5. PICK S, d : /\ Ficha \subseteq S /\ d \in Seq(S)
                  /\ d = Tokens(Desde(p, k + 1)) \o g.final /\ archivo = Linea(i) \o d
  <2>1. Ante(g, p, k)
    BY AnteLinea
  <2> QED BY <2>1 DEF Ante
<1>6. /\ i.tipo \in TipoDe /\ i.op1 \in Entero32 /\ i.op2 \in Entero32
      /\ Entero(i.op1) \in Seq(Byte) /\ Entero(i.op2) \in Seq(Byte)
      /\ Dispatch!Valor(Entero(i.op1)) = i.op1
  <2>1. i.tipo \in TipoDe /\ i.op1 \in Entero32 /\ i.op2 \in Entero32
    BY <1>2, RegistroTipo
  <2> QED BY <2>1, EnteroEs
<1>7. Leida = i.tipo
  BY <1>2, <1>5, LineaDelante
<1>8. /\ i.tipo = "NO_OP" => Bytes(Copias(i)) = [j \in 1..i.op1 |-> Codigo("NO_OP")]
      /\ i.tipo = "EXIT" => Bytes(Copias(i)) = <<Codigo("EXIT")>> \o << >>
      /\ i.tipo \in {"I/O", "READ"} => Bytes(Copias(i)) = <<Codigo(i.tipo)>> \o Entero(i.op1)
      /\ i.tipo \in {"WRITE", "COPY"} =>
           Bytes(Copias(i)) = <<Codigo(i.tipo)>> \o (Entero(i.op1) \o Entero(i.op2))
  BY <1>2, BytesDeCopias
<1>9. programa' = p
  BY DEF PasoParser, LeerNoOp, LeerUnOperando, LeerDosOperandos, LeerExit, LeerOtra, Leer
<1>10. ASSUME i.tipo # "EXIT", archivo' = d, buffer' = buffer \o Bytes(Copias(i)),
              instruccion' = i.tipo
       PROVE  Leyendo(g, k + 1)'
  <2>1. k + 1 # 0
    BY <1>2
  <2>2. buffer' = Bytes(Significado(Hasta(p, k + 1)))
    BY <1>3, <1>4, <1>10
  <2> QED BY <2>1, <2>2, <1>5, <1>9, <1>10 DEF Leyendo
<1>11. CASE LeerNoOp
  <2>1. i.tipo = "NO_OP"
    BY <1>7, <1>11 DEF LeerNoOp, Leer
  <2>2. ~NoEsNumero(Resto) /\ Tras(Resto) = d /\ Operando(Resto, op1) = Entero(i.op1)
    BY <1>2, <1>5, <2>1, LineaDelante
  <2>3. /\ instruccion' = i.tipo /\ op1' = Entero(i.op1) /\ archivo' = d /\ consola' = consola
        /\ buffer' = buffer \o [j \in 1..Valor(op1') |-> Codigo("NO_OP")]
    BY <1>7, <1>11, <2>2 DEF LeerNoOp
  <2>4. Valor(op1') = i.op1
    BY <2>3, <1>6 DEF Valor
  <2>5. buffer' = buffer \o Bytes(Copias(i))
    BY <2>1, <2>3, <2>4, <1>8
  <2> QED BY <1>9, <1>10, <2>1, <2>3, <2>5
<1>12. CASE LeerUnOperando
  <2>1. i.tipo \in {"I/O", "READ"}
    BY <1>7, <1>12 DEF LeerUnOperando, Leer
  <2>2. ~NoEsNumero(Resto) /\ Tras(Resto) = d /\ Operando(Resto, op1) = Entero(i.op1)
    BY <1>2, <1>5, <2>1, LineaDelante
  <2>3. /\ instruccion' = i.tipo /\ op1' = Entero(i.op1) /\ archivo' = d /\ consola' = consola
        /\ Empaquetar(Leida, op1')
    BY <1>7, <1>12, <2>2 DEF LeerUnOperando
  <2>4. buffer' = (buffer \o <<Codigo(i.tipo)>>) \o Entero(i.op1)
    BY <2>3, <1>7 DEF Empaquetar
  <2>5. buffer' = buffer \o Bytes(Copias(i))
    <3>1. (buffer \o <<Codigo(i.tipo)>>) \o Entero(i.op1) = buffer \o (<<Codigo(i.tipo)>> \o Entero(i.op1))
      BY <1>4, <1>6, Empaca
    <3> QED BY <2>1, <2>4, <3>1, <1>8
  <2> QED BY <1>9, <1>10, <2>1, <2>3, <2>5
<1>13. CASE LeerDosOperandos
  <2>1. i.tipo \in {"WRITE", "COPY"}
    BY <1>7, <1>13 DEF LeerDosOperandos, Leer
  <2>2. /\ ~NoEsNumero(Resto) /\ HayNumero(Resto) /\ Tras(Tail(Resto)) = d
        /\ Operando(Resto, op1) = Entero(i.op1) /\ Operando(Tail(Resto), op2) = Entero(i.op2)
    BY <1>2, <1>5, <2>1, LineaDelante
  <2>3. /\ instruccion' = i.tipo /\ op1' = Entero(i.op1) /\ op2' = Entero(i.op2)
        /\ archivo' = d /\ consola' = consola /\ Empaquetar(Leida, op1' \o op2')
    BY <1>7, <1>13, <2>2 DEF LeerDosOperandos
  <2>4. buffer' = (buffer \o <<Codigo(i.tipo)>>) \o (Entero(i.op1) \o Entero(i.op2))
    BY <2>3, <1>7 DEF Empaquetar
  <2>5. Entero(i.op1) \o Entero(i.op2) \in Seq(Byte)
    BY <1>6
  <2>6. buffer' = buffer \o Bytes(Copias(i))
    <3> DEFINE o == Entero(i.op1) \o Entero(i.op2)
    <3> HIDE DEF o
    <3>1. (buffer \o <<Codigo(i.tipo)>>) \o o = buffer \o (<<Codigo(i.tipo)>> \o o)
      <4>1. buffer \in Seq(Byte) /\ i.tipo \in TipoDe /\ o \in Seq(Byte)
        BY <1>4, <1>6, <2>5 DEF o
      <4> QED BY <4>1, Empaca
    <3> QED BY <2>1, <2>4, <3>1, <1>8 DEF o
  <2> QED BY <1>9, <1>10, <2>1, <2>3, <2>6
<1>14. CASE LeerExit
  <2>1. i.tipo = "EXIT"
    BY <1>7, <1>14 DEF LeerExit, Leer
  <2>2. k + 1 = Len(p)
    BY <1>1, <1>2, <2>1
  <2>3. consola' = "aceptado" /\ buffer' = (buffer \o <<Codigo(i.tipo)>>) \o << >>
    BY <1>14, <2>1 DEF LeerExit, Empaquetar
  <2>4. << >> \in Seq(Byte)
    OBVIOUS
  <2>5. buffer' = buffer \o Bytes(Copias(i))
    <3> DEFINE o == << >>
    <3>1. o \in Seq(Byte)
      OBVIOUS
    <3> HIDE DEF o
    <3>2. (buffer \o <<Codigo(i.tipo)>>) \o o = buffer \o (<<Codigo(i.tipo)>> \o o)
      BY <1>4, <1>6, <3>1, Empaca
    <3> QED BY <2>1, <2>3, <3>2, <1>8 DEF o
  <2>6. Hasta(p, k + 1) = p
    BY <1>1, <2>2, Extremos
  <2> QED BY <1>3, <1>4, <1>9, <2>3, <2>5, <2>6
<1>15. CASE LeerOtra
  <2>1. i.tipo \notin TipoDe
    BY <1>7, <1>15, Codigos DEF LeerOtra
  <2> QED BY <1>6, <2>1
<1> QED BY <1>11, <1>12, <1>13, <1>14, <1>15 DEF PasoParser

\* At the end of a file the last word is read again and again.
LEMMA SinArchivoPaso ==
  ASSUME archivo = << >>, instruccion \in TipoDe \ {"EXIT"}, consola = "parsear", PasoParser
  PROVE  programa' = programa /\ consola' = "parsear" /\ Perdido'
<1>1. Leida = instruccion /\ Resto = << >>
  BY DEF Leida, Resto
<1>2. ~NoEsNumero(Resto) /\ ~HayNumero(Resto) /\ Tras(Resto) = << >>
  BY <1>1 DEF NoEsNumero, HayNumero, Tras
<1>3. programa' = programa
  BY DEF PasoParser, LeerNoOp, LeerUnOperando, LeerDosOperandos, LeerExit, LeerOtra, Leer
<1>4. ~LeerExit
  BY <1>1 DEF LeerExit, Leer
<1>5. ~LeerOtra
  BY <1>1, Codigos DEF LeerOtra
<1>6. archivo' = << >> /\ instruccion' = instruccion /\ consola' = consola
  <2>1. CASE LeerNoOp
    BY <2>1, <1>1, <1>2 DEF LeerNoOp
  <2>2. CASE LeerUnOperando
    BY <2>2, <1>1, <1>2 DEF LeerUnOperando
  <2>3. CASE LeerDosOperandos
    BY <2>3, <1>1, <1>2 DEF LeerDosOperandos
  <2> QED BY <1>4, <1>5, <2>1, <2>2, <2>3 DEF PasoParser
<1> QED BY <1>3, <1>6 DEF Perdido

\* After the last line of the script.
LEMMA EnFinalPaso ==
  ASSUME BienEscritos, NEW g \in Guiones, NEW p, p = g.programa, programa = p,
         Leyendo(g, Len(p)), consola = "parsear", PasoParser
  PROVE  /\ programa' = p
         /\ \/ consola' = "parsear" /\ Perdido'
            \/ consola' = "caida"
            \/ consola' = "rechazado" /\ buffer' = Bytes(Significado(p))
<1> DEFINE f == g.final
<1>1. /\ p \in Seq(Instruccion) /\ Len(p) \in Nat /\ f \in Seq({f[k] : k \in DOMAIN f})
      /\ TerminaEnExit(p) \/ f = << >> \/ Rehusado(f)
  BY Bien
<1>2. Desde(p, Len(p)) = << >> /\ Hasta(p, Len(p)) = p
  BY <1>1, Extremos
<1>3. archivo = f
  <2>1. Tokens(<< >>) = << >>
    <3>1. << >> \in Seq(Instruccion) /\ \E x : x \in Instruccion
      <4>1. [tipo |-> "EXIT", op1 |-> 1, op2 |-> 1] \in Instruccion
        BY SonNaturales DEF Instruccion, TipoDe
      <4> QED BY <4>1
    <3>2. PICK x : x \in Instruccion
      BY <3>1
    <3>3. Cadena(EnLinea, << >>) = << >>
      BY <3>1, <3>2, Dan, CadenaUnaMas
    <3> QED BY <3>1, <3>3, SonCadenas
  <2>2. << >> \o f = f
    BY <1>1
  <2> QED BY <1>2, <2>1, <2>2 DEF Leyendo
<1>4. buffer = Bytes(Significado(p))
  BY <1>2 DEF Leyendo
<1>5. instruccion = IF Len(p) = 0 THEN "sin leer" ELSE p[Len(p)].tipo
  BY DEF Leyendo
<1>6. Len(p) # 0 => p[Len(p)].tipo \in TipoDe \ {"EXIT"}
  <2>1. Len(p) # 0 => p[Len(p)] \in Instruccion
    BY <1>1
  <2> QED BY <2>1, RegistroTipo DEF Leyendo
<1>7. ~TerminaEnExit(p)
  <2>1. p # << >> => Len(p) # 0
    BY <1>1
  <2> QED BY <2>1, <1>6 DEF TerminaEnExit
<1>8. programa' = p
  BY DEF PasoParser, LeerNoOp, LeerUnOperando, LeerDosOperandos, LeerExit, LeerOtra, Leer
<1>9. ASSUME Leida \notin TipoDe
      PROVE  consola' = "rechazado" /\ buffer' = buffer
  <2>1. ~LeerNoOp /\ ~LeerUnOperando /\ ~LeerDosOperandos /\ ~LeerExit
    BY <1>9 DEF LeerNoOp, LeerUnOperando, LeerDosOperandos, LeerExit, Leer, TipoDe
  <2> QED BY <2>1 DEF PasoParser, LeerOtra
<1>10. CASE f = << >>
  <2>1. CASE Len(p) = 0
    <3>1. Leida = "sin leer"
      BY <2>1, <1>3, <1>5, <1>10 DEF Leida
    <3>2. Leida \notin TipoDe
      BY <3>1 DEF TipoDe
    <3> QED BY <3>2, <1>4, <1>8, <1>9
  <2>2. CASE Len(p) # 0
    BY <2>2, <1>3, <1>5, <1>6, <1>8, <1>10, SinArchivoPaso
  <2> QED BY <2>1, <2>2
<1>11. CASE Rehusado(f)
  <2>1. f # << >>
    BY <1>11 DEF Rehusado
  <2>2. CASE EsNumero(f[1])
    <3>1. Leida = "un numero"
      BY <2>1, <2>2, <1>3 DEF Leida
    <3>2. Leida \notin TipoDe
      BY <3>1 DEF TipoDe
    <3> QED BY <3>2, <1>4, <1>8, <1>9
  <2>3. CASE ~EsNumero(f[1]) /\ f[1].palabra \notin TipoDe
    <3>1. Leida \notin TipoDe
      BY <2>1, <2>3, <1>3 DEF Leida
    <3> QED BY <3>1, <1>4, <1>8, <1>9
  <2>4. CASE /\ ~EsNumero(f[1]) /\ f[1].palabra \in TipoDe
             /\ f[1].palabra # "EXIT" /\ Len(f) > 1 /\ ~EsNumero(f[2])
    <3>1. Leida \in TipoDe /\ Leida # "EXIT"
      BY <2>1, <2>4, <1>3 DEF Leida
    <3>2. Resto = Tail(f)
      BY <2>1, <1>3 DEF Resto
    <3>3. Tail(f) # << >> /\ Tail(f)[1] = f[2]
        BY <1>1, <2>4, Segundo
    <3>4. NoEsNumero(Resto)
      BY <2>4, <3>2, <3>3 DEF NoEsNumero
    <3>5. ~LeerExit
      BY <3>1 DEF LeerExit, Leer
    <3>6. ~LeerOtra
      BY <3>1, Codigos DEF LeerOtra
    <3>7. Abortar
      BY <3>4, <3>5, <3>6 DEF PasoParser, LeerNoOp, LeerUnOperando, LeerDosOperandos
    <3> QED BY <3>7, <1>8 DEF Abortar
  <2> QED BY <1>11, <2>2, <2>3, <2>4 DEF Rehusado
<1> QED BY <1>1, <1>7, <1>10, <1>11

-----------------------------------------------------------------------------
(* The socket.                                                             *)

EsMensaje(m) == m \in [header : Byte, payload : Seq(Byte)] /\ Len(m.payload) \in Entero32

\* A sequence is told by its members.
LEMMA PorMiembros ==
  ASSUME NEW S, NEW x \in Seq(S), NEW n, n = Len(x)
  PROVE  x = [k \in 1..n |-> x[k]]
  OBVIOUS

\* recv takes the first bytes of what arrived and leaves the others.
LEMMA Partir ==
  ASSUME NEW x \in Seq(Byte), NEW y \in Seq(Byte), llegados = x \o y, NEW n, n = Len(x), NEW previo
  PROVE  Dispatch!Recv(n, previo) = x /\ Dispatch!Quedan(n) = y
<1>1. /\ x \o y \in Seq(Byte) /\ Len(x \o y) = Len(x) + Len(y) /\ Len(x) \in Nat /\ Len(y) \in Nat
      /\ \A i \in 1..(Len(x) + Len(y)) : (x \o y)[i] = IF i <= Len(x) THEN x[i] ELSE y[i - Len(x)]
  BY ConcatProperties
<1>2. /\ llegados \in Seq(Byte) /\ Len(llegados) = n + Len(y) /\ n \in Nat
      /\ \A i \in 1..n : i <= Len(llegados) /\ llegados[i] = x[i]
      /\ \A i \in 1..Len(y) : llegados[n + i] = y[i]
  <2>1. llegados \in Seq(Byte) /\ Len(llegados) = n + Len(y) /\ n \in Nat
    BY <1>1
  <2>2. \A i \in 1..n : i <= Len(llegados) /\ llegados[i] = x[i]
    BY <1>1
  <2>3. ASSUME NEW i \in 1..Len(y) PROVE llegados[n + i] = y[i]
    <3>1. n + i \in 1..(Len(x) + Len(y)) /\ ~(n + i <= Len(x)) /\ (n + i) - Len(x) = i
      BY <1>1
    <3> QED BY <1>1, <3>1
  <2> QED BY <2>1, <2>2, <2>3
<1>3. Dispatch!Recv(n, previo) = x
  <2>1. Dispatch!Recv(n, previo) = [k \in 1..n |-> x[k]]
    BY <1>2 DEF Dispatch!Recv
  <2> QED BY <2>1, PorMiembros
<1>4. Dispatch!Quedan(n) = y
  <2> DEFINE q == SubSeq(llegados, n + 1, Len(llegados))
  <2>1. q \in Seq(Byte) /\ Len(q) = Len(y) /\ \A i \in 1..Len(y) : q[i] = llegados[n + i]
    <3>1. PICK r : r = llegados
      OBVIOUS
    <3>2. PICK e : e = Len(r)
      OBVIOUS
    <3>3. PICK d : d = n + 1
      OBVIOUS
    <3>4. r \in Seq(Byte) /\ d \in 1..(Len(r) + 1) /\ e \in (d - 1)..Len(r)
      BY <1>1, <1>2, <3>1, <3>2, <3>3
    <3>5. /\ SubSeq(r, d, e) \in Seq(Byte) /\ Len(SubSeq(r, d, e)) = (e - d) + 1
          /\ \A i \in 1..((e - d) + 1) : SubSeq(r, d, e)[i] = r[(d + i) - 1]
      BY <3>4, SubSeqProperties
    <3>6. (e - d) + 1 = Len(y) /\ \A i \in 1..Len(y) : (d + i) - 1 = n + i
      BY <1>1, <1>2, <3>1, <3>2, <3>3
    <3>7. q = SubSeq(r, d, e)
      BY <3>1, <3>2, <3>3
    <3> HIDE DEF q
    <3> QED BY <3>1, <3>5, <3>6, <3>7
  <2>2. q = y
    <3> HIDE DEF q
    <3>1. \A i \in 1..Len(q) : q[i] = y[i]
      BY <1>2, <2>1
    <3> QED BY <2>1, <3>1, SeqEqual
  <2> QED BY <2>2 DEF Dispatch!Quedan
<1> QED BY <1>3, <1>4

\* The bytes of a message.
LEMMA StreamEs ==
  ASSUME NEW m, EsMensaje(m)
  PROVE  /\ m.header \in Byte /\ m.payload \in Seq(Byte) /\ Len(m.payload) \in Entero32
         /\ m = [header |-> m.header, payload |-> m.payload]
         /\ Entero(Len(m.payload)) \in Seq(Byte) /\ Len(Entero(Len(m.payload))) = 4
         /\ Dispatch!Valor(Entero(Len(m.payload))) = Len(m.payload)
         /\ Entero(Len(m.payload)) \o m.payload \in Seq(Byte)
         /\ Dispatch!Stream(m) \in Seq(Byte)
         /\ Dispatch!Stream(m) = <<m.header>> \o (Entero(Len(m.payload)) \o m.payload)
<1> DEFINE h == m.header
           p == m.payload
           w == Entero(Len(m.payload))
<1>1. h \in Byte /\ p \in Seq(Byte) /\ Len(p) \in Entero32 /\ m = [header |-> h, payload |-> p]
  BY DEF EsMensaje
<1>2. w \in Seq(Byte) /\ Len(w) = 4 /\ Dispatch!Valor(w) = Len(p)
  BY <1>1, EnteroEs
<1>3. Dispatch!Stream(m) = (<<h>> \o w) \o p
  BY DEF Dispatch!Stream, Entero
<1> HIDE DEF h, p, w
<1>4. <<h>> \in Seq(Byte)
  BY <1>1
<1>5. (<<h>> \o w) \o p = <<h>> \o (w \o p)
  BY <1>1, <1>2, <1>4, Asocia
<1>6. w \o p \in Seq(Byte)
  BY <1>1, <1>2
<1>7. <<h>> \o (w \o p) \in Seq(Byte)
  BY <1>1, <1>6, Delante
<1> QED BY <1>1, <1>2, <1>3, <1>5, <1>6, <1>7 DEF h, p, w

\* stream_recv_header takes the header of the first message.
LEMMA TomaHeader ==
  ASSUME NEW a, EsMensaje(a), NEW y \in Seq(Byte), llegados = Sin(a) \o y, Leido(a), LectorTipo,
         Dispatch!RecibirHeader
  PROVE  /\ lector'.header = a.header /\ lector'.en = "size" /\ LectorTipo'
         /\ Sin(a)' = Entero(Len(a.payload)) \o a.payload
         /\ llegados' = Sin(a)' \o y /\ Leido(a)'
<1> DEFINE w == Entero(Len(a.payload)) \o a.payload
           h == <<a.header>>
<1>1. w \in Seq(Byte) /\ Dispatch!Stream(a) = h \o w /\ a.header \in Byte /\ h \in Seq(Byte)
  <2>1. w \in Seq(Byte) /\ Dispatch!Stream(a) = h \o w /\ a.header \in Byte
    BY StreamEs
  <2>2. h \in Seq(Byte)
    BY <2>1
  <2> QED BY <2>1, <2>2
<1>2. lector.en = "header" /\ lector' = [lector EXCEPT !.en = "size", !.header = Head(llegados)]
      /\ llegados' = Dispatch!Quedan(1)
  BY DEF Dispatch!RecibirHeader
<1>3. Sin(a) = h \o w
  BY <1>1, <1>2 DEF Sin
<1> HIDE DEF w
<1>4. llegados = h \o (w \o y) /\ w \o y \in Seq(Byte)
  <2>1. DeUnTipo(Byte, h, w, y)
    BY <1>1 DEF DeUnTipo
  <2>2. (h \o w) \o y = h \o (w \o y) /\ w \o y \in Seq(Byte)
    BY <2>1, AsociaDeUnTipo
  <2> QED BY <1>3, <2>2
<1>5. Dispatch!Quedan(1) = w \o y
  <2>1. Len(h) = 1
    OBVIOUS
  <2> HIDE DEF h
  <2> QED BY <1>1, <1>4, <2>1, Partir
<1>6. Head(llegados) = a.header
  <2> DEFINE v == w \o y
  <2>1. v \in Seq(Byte) /\ llegados = <<a.header>> \o v
    BY <1>4
  <2> HIDE DEF v
  <2>2. llegados \in Seq(Byte) /\ llegados # << >> /\ llegados[1] = a.header
    BY <1>1, <2>1, Delante
  <2> QED BY <2>2
<1>7. lector'.header = a.header /\ lector'.en = "size" /\ LectorTipo'
  <2>1. a.header \in Nat
    <3>1. Byte \subseteq Nat
      BY DEF Byte
    <3> QED BY <1>1, <3>1
  <2>2. lector' = [lector EXCEPT !.en = "size", !.header = a.header]
    BY <1>2, <1>6
  <2> QED BY <2>1, <2>2 DEF LectorTipo
<1>8. Sin(a)' = w
  BY <1>7 DEF Sin, w
<1> QED BY <1>2, <1>5, <1>7, <1>8 DEF Leido, w

\* stream_recv_buffer takes the size, and the message is over if it is 0.
LEMMA TomaSize ==
  ASSUME NEW a, EsMensaje(a), NEW y \in Seq(Byte), llegados = Sin(a) \o y, Leido(a), LectorTipo,
         Dispatch!RecibirSize
  PROVE  /\ enViaje' = enViaje /\ LectorTipo'
         /\ \/ /\ lector'.en = "header" /\ entregado' = <<a>> /\ llegados' = y
               /\ sinRecibir' = IF sinRecibir = << >> THEN << >> ELSE Tail(sinRecibir)
            \/ /\ lector'.en = "payload" /\ llegados' = Sin(a)' \o y /\ Leido(a)'
               /\ UNCHANGED <<entregado, sinRecibir>>
<1> DEFINE w == Entero(Len(a.payload))
           p == a.payload
           n == Len(a.payload)
           size == Dispatch!Valor(Dispatch!Recv(4, Dispatch!Tamanio(0)))
<1>1. /\ w \in Seq(Byte) /\ Len(w) = 4 /\ Dispatch!Valor(w) = n /\ p \in Seq(Byte)
      /\ a = [header |-> a.header, payload |-> p] /\ n \in Nat /\ a.header \in Byte
  BY StreamEs, SonNaturales
<1>2. /\ lector.en = "size" /\ llegados' = Dispatch!Quedan(4) /\ enViaje' = enViaje
      /\ IF size = 0 THEN Dispatch!Tomado(<< >>)
         ELSE /\ lector' = [lector EXCEPT !.en = "payload", !.size = size]
              /\ UNCHANGED <<entregado, sinRecibir>>
  BY DEF Dispatch!RecibirSize
<1>3. llegados = (w \o p) \o y
  BY <1>2 DEF Sin
<1>9. lector.header = a.header
  BY <1>2 DEF Leido
<1> HIDE DEF w, size
<1>4. llegados = w \o (p \o y) /\ p \o y \in Seq(Byte)
  <2>1. DeUnTipo(Byte, w, p, y)
    BY <1>1 DEF DeUnTipo
  <2>2. (w \o p) \o y = w \o (p \o y) /\ p \o y \in Seq(Byte)
    BY <2>1, AsociaDeUnTipo
  <2> QED BY <1>3, <2>2
<1>5. Dispatch!Quedan(4) = p \o y /\ Dispatch!Recv(4, Dispatch!Tamanio(0)) = w
  <2> DEFINE v == p \o y
             t == Dispatch!Tamanio(0)
             c == 4
  <2>1. v \in Seq(Byte) /\ llegados = w \o v /\ w \in Seq(Byte) /\ c = Len(w)
    BY <1>1, <1>4
  <2> HIDE DEF v, t, c
  <2>2. Dispatch!Recv(c, t) = w /\ Dispatch!Quedan(c) = v
    BY <2>1, Partir
  <2> QED BY <2>2 DEF v, t, c
<1>6. size = n
  BY <1>1, <1>5 DEF size
<1>7. CASE n = 0
  <2>1. p = << >> /\ p \o y = y
    BY <1>1, <1>7
  <2>2. Dispatch!Tomado(<< >>)
    BY <1>2, <1>6, <1>7
  <2>3. lector' = [lector EXCEPT !.en = "header"]
        /\ entregado' = <<[header |-> lector.header, payload |-> << >>]>>
        /\ sinRecibir' = IF sinRecibir = << >> THEN << >> ELSE Tail(sinRecibir)
    BY <2>2 DEF Dispatch!Tomado
  <2>4. entregado' = <<a>>
    BY <2>1, <2>3, <1>1, <1>9
  <2>5. lector'.en = "header" /\ LectorTipo'
    BY <2>3 DEF LectorTipo
  <2> QED BY <2>1, <2>3, <2>4, <2>5, <1>2, <1>5
<1>8. CASE n # 0
  <2>1. /\ lector' = [lector EXCEPT !.en = "payload", !.size = n]
        /\ UNCHANGED <<entregado, sinRecibir>>
    BY <1>2, <1>6, <1>8
  <2>2. lector'.en = "payload" /\ lector'.size = n /\ lector'.header = a.header /\ LectorTipo'
    BY <2>1, <1>1, <1>9 DEF LectorTipo
  <2>3. Sin(a)' = p /\ Leido(a)'
    BY <2>2, <1>8 DEF Sin, Leido
  <2> QED BY <2>1, <2>2, <2>3, <1>2, <1>5
<1> QED BY <1>7, <1>8

\* stream_recv_buffer takes the payload.
LEMMA TomaPayload ==
  ASSUME NEW a, EsMensaje(a), NEW y \in Seq(Byte), llegados = Sin(a) \o y, Leido(a), LectorTipo,
         Dispatch!RecibirPayload
  PROVE  /\ enViaje' = enViaje /\ LectorTipo'
         /\ lector'.en = "header" /\ entregado' = <<a>> /\ llegados' = y
         /\ sinRecibir' = IF sinRecibir = << >> THEN << >> ELSE Tail(sinRecibir)
<1> DEFINE p == a.payload
           r == Dispatch!Recv(lector.size, [k \in 1..lector.size |-> Dispatch!Basura])
<1>1. p \in Seq(Byte) /\ a = [header |-> a.header, payload |-> p]
  BY StreamEs
<1>2. /\ lector.en = "payload" /\ llegados' = Dispatch!Quedan(lector.size) /\ enViaje' = enViaje
      /\ Dispatch!Tomado(r)
  BY DEF Dispatch!RecibirPayload
<1>3. lector.size = Len(p) /\ llegados = p \o y
  BY <1>2 DEF Sin, Leido
<1>9. lector.header = a.header
  BY <1>2 DEF Leido
<1>4. Dispatch!Quedan(lector.size) = y /\ r = p
  <2> DEFINE v == [k \in 1..lector.size |-> Dispatch!Basura]
             n == lector.size
  <2>1. p \in Seq(Byte) /\ llegados = p \o y /\ n = Len(p)
    BY <1>1, <1>3
  <2> HIDE DEF v, n, p
  <2>2. Dispatch!Recv(n, v) = p /\ Dispatch!Quedan(n) = y
    BY <2>1, Partir
  <2> QED BY <2>2 DEF v, n
<1> HIDE DEF r
<1>5. /\ lector' = [lector EXCEPT !.en = "header"]
      /\ entregado' = <<[header |-> lector.header, payload |-> p]>>
      /\ sinRecibir' = IF sinRecibir = << >> THEN << >> ELSE Tail(sinRecibir)
  BY <1>2, <1>4 DEF Dispatch!Tomado
<1>6. entregado' = <<a>>
  BY <1>1, <1>5, <1>9
<1>7. lector'.en = "header" /\ LectorTipo'
  BY <1>5 DEF LectorTipo
<1> QED BY <1>2, <1>4, <1>5, <1>6, <1>7

\* One message more is sent.
LEMMA EnviarUno ==
  ASSUME Vacio, NEW m, Dispatch!Enviar(m)
  PROVE  Uno(m)'
<1>1. /\ enViaje' = Append(enViaje, Dispatch!Stream(m)) /\ sinRecibir' = Append(sinRecibir, m)
      /\ llegados' = llegados /\ lector' = lector
  BY DEF Dispatch!Enviar
<1>2. enViaje' = <<Dispatch!Stream(m)>> /\ sinRecibir' = <<m>> /\ lector'.en = "header"
  BY <1>1 DEF Vacio
<1>3. llegados' = << >>
  BY <1>1 DEF Vacio
<1> QED BY <1>2, <1>3 DEF Uno, Leido

\* One member appended to one.
LEMMA AgregarAUno ==
  ASSUME NEW S, NEW s \in Seq(S), Len(s) = 1, NEW y \in S
  PROVE  /\ Append(s, y) \in Seq(S) /\ Len(Append(s, y)) = 2
         /\ Append(s, y)[1] = s[1] /\ Append(s, y)[2] = y
<1>1. Append(s, y) \in Seq(S) /\ Len(Append(s, y)) = 2
  OBVIOUS
<1>2. Append(s, y)[1] = s[1]
  OBVIOUS
<1>3. PICK n : n = Len(s) + 1
  OBVIOUS
<1>4. Append(s, y)[n] = y
  BY <1>3, AppendProperties
<1>5. n = 2
  BY <1>3
<1> QED BY <1>1, <1>2, <1>4, <1>5

\* A list of two is told by its members.
LEMMA Par ==
  ASSUME NEW S, NEW s \in Seq(S), NEW t \in Seq(S), Len(s) = 2, Len(t) = 2,
         s[1] = t[1], s[2] = t[2]
  PROVE  s = t
<1>1. \A k \in 1..Len(s) : k = 1 \/ k = 2
  OBVIOUS
<1>2. \A k \in 1..Len(s) : s[k] = t[k]
  BY <1>1
<1> QED BY <1>2, SeqEqual

\* And so it is the list of the two.
LEMMA Dobla ==
  ASSUME NEW x, NEW y
  PROVE  Append(<<x>>, y) = <<x, y>>
<1>1. PICK S : S = {x, y}
  OBVIOUS
<1>2. PICK s : s = <<x>>
  OBVIOUS
<1>3. PICK t : t = <<x, y>>
  OBVIOUS
<1>4. s \in Seq(S) /\ Len(s) = 1 /\ s[1] = x /\ y \in S
  BY <1>1, <1>2
<1>5. t \in Seq(S) /\ Len(t) = 2 /\ t[1] = x /\ t[2] = y
  BY <1>1, <1>3
<1>6. /\ Append(s, y) \in Seq(S) /\ Len(Append(s, y)) = 2
      /\ Append(s, y)[1] = s[1] /\ Append(s, y)[2] = y
  BY <1>4, AgregarAUno
<1>7. Append(s, y) = t
  BY <1>4, <1>5, <1>6, Par
<1> QED BY <1>2, <1>3, <1>7

\* And another, while the first is not taken yet.
LEMMA EnviarDos ==
  ASSUME NEW a, Uno(a), NEW m, Dispatch!Enviar(m)
  PROVE  Dos(a, m)'
<1>1. /\ enViaje' = Append(enViaje, Dispatch!Stream(m)) /\ sinRecibir' = Append(sinRecibir, m)
      /\ llegados' = llegados /\ lector' = lector
  BY DEF Dispatch!Enviar
<1>2. sinRecibir' = <<a, m>>
  <2>1. sinRecibir = <<a>>
    BY DEF Uno
  <2> QED BY <1>1, <2>1, Dobla
<1>6. Leido(a)'
  BY <1>1 DEF Uno, Leido
<1>3. Sin(a)' = Sin(a)
  BY <1>1 DEF Sin
<1>4. CASE lector.en = "header" /\ enViaje = <<Dispatch!Stream(a)>> /\ llegados = << >>
  <2> DEFINE x == Dispatch!Stream(a)
             z == Dispatch!Stream(m)
  <2>1. enViaje' = <<x, z>>
    <3> HIDE DEF x, z
    <3>1. enViaje = <<x>> /\ enViaje' = Append(enViaje, z)
      BY <1>1, <1>4 DEF x, z
    <3> QED BY <3>1, Dobla
  <2> QED BY <1>1, <1>2, <1>4, <1>6, <2>1 DEF Dos
<1>5. CASE enViaje = << >> /\ llegados = Sin(a)
  <2>1. enViaje' = <<Dispatch!Stream(m)>>
    BY <1>1, <1>5
  <2> QED BY <1>1, <1>2, <1>3, <1>5, <1>6, <2>1 DEF Dos
<1> QED BY <1>4, <1>5 DEF Uno

\* The bytes of a message arrive together.
LEMMA LlegaEntero ==
  ASSUME TodoJunto, Dispatch!Llegar, NEW S, NEW x \in Seq(S), enViaje # << >>, Head(enViaje) = x
  PROVE  /\ llegados' = llegados \o x /\ enViaje' = Tail(enViaje)
         /\ UNCHANGED <<lector, entregado, sinRecibir>>
<1>1. PICK k \in 1..Len(Head(enViaje)) :
        /\ k = Len(Head(enViaje))
        /\ llegados' = llegados \o SubSeq(Head(enViaje), 1, k)
        /\ enViaje' = IF k = Len(Head(enViaje)) THEN Tail(enViaje)
                      ELSE [enViaje EXCEPT ![1] = SubSeq(@, k + 1, Len(@))]
  BY DEF Dispatch!Llegar
<1>2. SubSeq(x, 1, Len(x)) = x
  BY SubSeqFull
<1> QED BY <1>1, <1>2 DEF Dispatch!Llegar

\* The only message arrives.
LEMMA LlegarUno ==
  ASSUME TodoJunto, NEW a, EsMensaje(a), Uno(a), Dispatch!Llegar
  PROVE  Uno(a)' /\ lector' = lector
<1> DEFINE x == Dispatch!Stream(a)
<1>1. x \in Seq(Byte)
  BY StreamEs
<1> HIDE DEF x
<1>2. lector.en = "header" /\ enViaje = <<x>> /\ llegados = << >>
  BY DEF Uno, Dispatch!Llegar, x
<1>3. enViaje # << >> /\ Head(enViaje) = x /\ Tail(enViaje) = << >>
  BY <1>2
<1>4. /\ llegados' = llegados \o x /\ enViaje' = << >>
      /\ UNCHANGED <<lector, entregado, sinRecibir>>
  BY <1>1, <1>3, LlegaEntero
<1>5. llegados' = x
  BY <1>1, <1>2, <1>4
<1>6. Sin(a)' = x /\ Leido(a)' /\ sinRecibir' = <<a>>
  BY <1>2, <1>4 DEF Sin, Leido, Uno, x
<1> QED BY <1>4, <1>5, <1>6 DEF Uno

\* One of two messages arrives.
LEMMA LlegarDos ==
  ASSUME TodoJunto, NEW a, EsMensaje(a), NEW b, EsMensaje(b), Dos(a, b), Dispatch!Llegar
  PROVE  Dos(a, b)' /\ lector' = lector
<1> DEFINE x == Dispatch!Stream(a)
           z == Dispatch!Stream(b)
<1>1. x \in Seq(Byte) /\ z \in Seq(Byte)
  BY StreamEs
<1> HIDE DEF x, z
<1>2. CASE lector.en = "header" /\ llegados = << >> /\ enViaje = <<x, z>>
  <2>1. enViaje # << >> /\ Head(enViaje) = x /\ Tail(enViaje) = <<z>>
    BY <1>2
  <2>2. /\ llegados' = llegados \o x /\ enViaje' = <<z>>
        /\ UNCHANGED <<lector, entregado, sinRecibir>>
    BY <1>1, <2>1, LlegaEntero
  <2>3. llegados' = x
    BY <1>1, <1>2, <2>2
  <2>4. Sin(a)' = x /\ Leido(a)' /\ sinRecibir' = <<a, b>>
    BY <1>2, <2>2 DEF Sin, Leido, Dos, x
  <2> QED BY <2>2, <2>3, <2>4 DEF Dos, z
<1>3. CASE enViaje = <<z>> /\ llegados = Sin(a)
  <2>1. enViaje # << >> /\ Head(enViaje) = z /\ Tail(enViaje) = << >>
    BY <1>3
  <2>2. /\ llegados' = llegados \o z /\ enViaje' = << >>
        /\ UNCHANGED <<lector, entregado, sinRecibir>>
    BY <1>1, <2>1, LlegaEntero
  <2>3. Sin(a)' = Sin(a) /\ Leido(a)' /\ sinRecibir' = <<a, b>>
    BY <2>2 DEF Sin, Leido, Dos
  <2> QED BY <1>3, <2>2, <2>3 DEF Dos, z
<1>4. CASE enViaje = << >>
  BY <1>4 DEF Dispatch!Llegar
<1> QED BY <1>2, <1>3, <1>4 DEF Dos, x, z

\* What arrived of the first message, and of the second, when something is received.
LEMMA HayUno ==
  ASSUME NEW a, EsMensaje(a), Uno(a), llegados # << >>
  PROVE  enViaje = << >> /\ \E y \in Seq(Byte) : y = << >> /\ llegados = Sin(a) \o y
<1>1. enViaje = << >> /\ llegados = Sin(a)
  BY DEF Uno
<1>2. Sin(a) \in Seq(Byte)
  BY StreamEs DEF Sin
<1>3. Sin(a) \o << >> = Sin(a) /\ << >> \in Seq(Byte)
  BY <1>2
<1> QED BY <1>1, <1>3

\* With two messages, either only the first arrived or both did.
LEMMA HayDos ==
  ASSUME NEW a, EsMensaje(a), NEW b, EsMensaje(b), Dos(a, b), llegados # << >>
  PROVE  \E y \in Seq(Byte) :
           /\ llegados = Sin(a) \o y
           /\ \/ enViaje = <<Dispatch!Stream(b)>> /\ y = << >>
              \/ enViaje = << >> /\ y = Dispatch!Stream(b)
<1>1. \/ enViaje = <<Dispatch!Stream(b)>> /\ llegados = Sin(a)
      \/ enViaje = << >> /\ llegados = Sin(a) \o Dispatch!Stream(b)
  BY DEF Dos
<1>2. Sin(a) \in Seq(Byte) /\ Dispatch!Stream(b) \in Seq(Byte)
  <2>1. Sin(a) \in Seq(Byte)
    BY StreamEs DEF Sin
  <2>2. Dispatch!Stream(b) \in Seq(Byte)
    BY StreamEs
  <2> QED BY <2>1, <2>2
<1>3. Sin(a) \o << >> = Sin(a) /\ << >> \in Seq(Byte)
  BY <1>2
<1> QED BY <1>1, <1>2, <1>3

\* The receiver takes what it can of the only message.
LEMMA RecibirUno ==
  ASSUME NEW a, EsMensaje(a), Uno(a), LectorTipo, Dispatch!Recibir
  PROVE  /\ LectorTipo'
         /\ \/ Dispatch!RecibirHeader /\ lector'.header = a.header /\ Uno(a)'
            \/ ~Dispatch!RecibirHeader /\ lector'.en # "header" /\ Uno(a)'
            \/ ~Dispatch!RecibirHeader /\ lector'.en = "header" /\ Vacio' /\ entregado' = <<a>>
<1>1. llegados # << >>
  BY DEF Dispatch!Recibir, Dispatch!RecibirHeader, Dispatch!RecibirSize, Dispatch!RecibirPayload
<1>2. enViaje = << >>
  BY <1>1, HayUno
<1>3. PICK y \in Seq(Byte) : y = << >> /\ llegados = Sin(a) \o y
  BY <1>1, HayUno
<1>4. sinRecibir = <<a>> /\ Leido(a) /\ Tail(<<a>>) = << >>
  BY DEF Uno
<1>5. CASE Dispatch!RecibirHeader
  <2>1. /\ lector'.header = a.header /\ LectorTipo' /\ llegados' = Sin(a)' \o y
        /\ Sin(a)' = Entero(Len(a.payload)) \o a.payload /\ Leido(a)'
    BY <1>3, <1>4, <1>5, TomaHeader
  <2>2. enViaje' = << >> /\ sinRecibir' = <<a>>
    BY <1>2, <1>4, <1>5 DEF Dispatch!RecibirHeader
  <2>3. llegados' = Sin(a)'
    <3>1. Entero(Len(a.payload)) \o a.payload \in Seq(Byte)
      BY StreamEs
    <3> QED BY <2>1, <3>1, <1>3
  <2> QED BY <1>5, <2>1, <2>2, <2>3 DEF Uno
<1>6. CASE Dispatch!RecibirSize
  <2>1. ~Dispatch!RecibirHeader
    BY <1>6 DEF Dispatch!RecibirHeader, Dispatch!RecibirSize
  <2>2. /\ enViaje' = enViaje /\ LectorTipo'
        /\ \/ /\ lector'.en = "header" /\ entregado' = <<a>> /\ llegados' = y
              /\ sinRecibir' = IF sinRecibir = << >> THEN << >> ELSE Tail(sinRecibir)
           \/ /\ lector'.en = "payload" /\ llegados' = Sin(a)' \o y /\ Leido(a)'
              /\ UNCHANGED <<entregado, sinRecibir>>
    BY <1>3, <1>4, <1>6, TomaSize
  <2>3. CASE lector'.en = "header"
    BY <2>1, <2>2, <2>3, <1>2, <1>3, <1>4 DEF Vacio
  <2>4. CASE lector'.en = "payload"
    <3>1. Sin(a)' = a.payload /\ a.payload \in Seq(Byte)
      BY <2>4, StreamEs DEF Sin
    <3>2. llegados' = Sin(a)'
      BY <2>2, <2>4, <3>1, <1>3
    <3> QED BY <2>1, <2>2, <2>4, <3>2, <1>2, <1>4 DEF Uno
  <2> QED BY <2>2, <2>3, <2>4
<1>7. CASE Dispatch!RecibirPayload
  <2>1. ~Dispatch!RecibirHeader
    BY <1>7 DEF Dispatch!RecibirHeader, Dispatch!RecibirPayload
  <2>2. /\ enViaje' = enViaje /\ LectorTipo'
        /\ lector'.en = "header" /\ entregado' = <<a>> /\ llegados' = y
        /\ sinRecibir' = IF sinRecibir = << >> THEN << >> ELSE Tail(sinRecibir)
    BY <1>3, <1>4, <1>7, TomaPayload
  <2> QED BY <2>1, <2>2, <1>2, <1>3, <1>4 DEF Vacio
<1> QED BY <1>5, <1>6, <1>7 DEF Dispatch!Recibir

\* The receiver takes what it can of the first of two messages.
LEMMA RecibirDos ==
  ASSUME NEW a, EsMensaje(a), NEW b, EsMensaje(b), Dos(a, b), LectorTipo, Dispatch!Recibir
  PROVE  /\ LectorTipo'
         /\ \/ Dispatch!RecibirHeader /\ lector'.header = a.header /\ Dos(a, b)'
            \/ ~Dispatch!RecibirHeader /\ lector'.en # "header" /\ Dos(a, b)'
            \/ ~Dispatch!RecibirHeader /\ lector'.en = "header" /\ Uno(b)' /\ entregado' = <<a>>
<1>1. llegados # << >>
  BY DEF Dispatch!Recibir, Dispatch!RecibirHeader, Dispatch!RecibirSize, Dispatch!RecibirPayload
<1> DEFINE z == Dispatch!Stream(b)
<1>2. PICK y \in Seq(Byte) : /\ llegados = Sin(a) \o y
                            /\ \/ enViaje = <<z>> /\ y = << >>
                               \/ enViaje = << >> /\ y = z
  BY <1>1, HayDos
<1> HIDE DEF z
<1>4. sinRecibir = <<a, b>> /\ Leido(a) /\ Tail(<<a, b>>) = <<b>>
  BY DEF Dos
<1>8. ASSUME sinRecibir' = <<a, b>>, Leido(a)', llegados' = Sin(a)' \o y, enViaje' = enViaje,
             Sin(a)' \in Seq(Byte)
      PROVE  Dos(a, b)'
  <2>1. Sin(a)' \o << >> = Sin(a)'
    BY <1>8
  <2>2. CASE enViaje = <<z>> /\ y = << >>
    BY <1>8, <2>1, <2>2 DEF Dos, z
  <2>3. CASE enViaje = << >> /\ y = z
    BY <1>8, <2>3 DEF Dos, z
  <2> QED BY <1>2, <2>2, <2>3
<1>9. ASSUME sinRecibir' = <<b>>, lector'.en = "header", llegados' = y, enViaje' = enViaje
      PROVE  Uno(b)'
  <2>1. Leido(b)' /\ Sin(b)' = z
    BY <1>9 DEF Leido, Sin, z
  <2> QED BY <1>2, <1>9, <2>1 DEF Uno, z
<1>5. CASE Dispatch!RecibirHeader
  <2>1. /\ lector'.header = a.header /\ LectorTipo' /\ llegados' = Sin(a)' \o y
        /\ Sin(a)' = Entero(Len(a.payload)) \o a.payload /\ Leido(a)'
    BY <1>2, <1>4, <1>5, TomaHeader
  <2>2. enViaje' = enViaje /\ sinRecibir' = <<a, b>>
    BY <1>4, <1>5 DEF Dispatch!RecibirHeader
  <2>3. Sin(a)' \in Seq(Byte)
    BY <2>1, StreamEs
  <2> QED BY <1>5, <1>8, <2>1, <2>2, <2>3
<1>6. CASE Dispatch!RecibirSize
  <2>1. ~Dispatch!RecibirHeader
    BY <1>6 DEF Dispatch!RecibirHeader, Dispatch!RecibirSize
  <2>2. /\ enViaje' = enViaje /\ LectorTipo'
        /\ \/ /\ lector'.en = "header" /\ entregado' = <<a>> /\ llegados' = y
              /\ sinRecibir' = IF sinRecibir = << >> THEN << >> ELSE Tail(sinRecibir)
           \/ /\ lector'.en = "payload" /\ llegados' = Sin(a)' \o y /\ Leido(a)'
              /\ UNCHANGED <<entregado, sinRecibir>>
    BY <1>2, <1>4, <1>6, TomaSize
  <2>3. CASE lector'.en = "header"
    <3>1. sinRecibir' = <<b>> /\ llegados' = y /\ entregado' = <<a>>
      BY <2>2, <2>3, <1>4
    <3> QED BY <2>1, <2>2, <2>3, <3>1, <1>9
  <2>4. CASE lector'.en = "payload"
    <3>1. Sin(a)' \in Seq(Byte)
      BY <2>4, StreamEs DEF Sin
    <3>2. sinRecibir' = <<a, b>> /\ llegados' = Sin(a)' \o y /\ Leido(a)'
      BY <2>2, <2>4, <1>4
    <3> QED BY <2>1, <2>2, <2>4, <3>1, <3>2, <1>8
  <2> QED BY <2>2, <2>3, <2>4
<1>7. CASE Dispatch!RecibirPayload
  <2>1. ~Dispatch!RecibirHeader
    BY <1>7 DEF Dispatch!RecibirHeader, Dispatch!RecibirPayload
  <2>2. /\ enViaje' = enViaje /\ LectorTipo'
        /\ lector'.en = "header" /\ entregado' = <<a>> /\ llegados' = y
        /\ sinRecibir' = IF sinRecibir = << >> THEN << >> ELSE Tail(sinRecibir)
    BY <1>2, <1>4, <1>7, TomaPayload
  <2>3. sinRecibir' = <<b>>
    BY <2>2, <1>4
  <2> QED BY <2>1, <2>2, <2>3, <1>9
<1> QED BY <1>5, <1>6, <1>7 DEF Dispatch!Recibir

-----------------------------------------------------------------------------
(* The CPU unpacks.                                                        *)

\* What follows a sequence.
LEMMA Sobra ==
  ASSUME NEW S, NEW a \in Seq(S), NEW c \in Seq(S), NEW x, x = a \o c, NEW p, p = Len(a) + 1
  PROVE  SubSeq(x, p, Len(x)) = c /\ x \in Seq(S) /\ Len(x) = Len(a) + Len(c)
<1>1. /\ x \in Seq(S) /\ Len(x) = Len(a) + Len(c) /\ Len(a) \in Nat /\ Len(c) \in Nat
      /\ \A i \in 1..(Len(a) + Len(c)) : x[i] = IF i <= Len(a) THEN a[i] ELSE c[i - Len(a)]
  BY ConcatProperties
<1>2. \A i \in 1..Len(c) : x[Len(a) + i] = c[i]
  <2> SUFFICES ASSUME NEW i \in 1..Len(c) PROVE x[Len(a) + i] = c[i]
    OBVIOUS
  <2>1. Len(a) + i \in 1..(Len(a) + Len(c)) /\ ~(Len(a) + i <= Len(a)) /\ (Len(a) + i) - Len(a) = i
    BY <1>1
  <2> QED BY <1>1, <2>1
<1> DEFINE q == SubSeq(x, p, Len(x))
<1>3. q \in Seq(S) /\ Len(q) = Len(c) /\ \A i \in 1..Len(c) : q[i] = x[Len(a) + i]
  BY <1>1
<1> HIDE DEF q
<1>4. \A i \in 1..Len(q) : q[i] = c[i]
  BY <1>2, <1>3
<1>5. q = c
  BY <1>3, <1>4, SeqEqual
<1> QED BY <1>1, <1>5 DEF q

\* x is three sequences.
Tres(x, a, b, c) == x = (a \o b) \o c

\* w is two sequences, and b a part of x.
Union(w, a, b) == w = a \o b
EsCorte(x, p, q, b) == SubSeq(x, p, q) = b

\* From p to q, what follows a and is as long as b.
Entre(p, q, a, b) == p = Len(a) + 1 /\ q = Len(a) + Len(b)

\* Concatenation is a sequence as long as the two.
LEMMA Concatena ==
  ASSUME NEW S, NEW a \in Seq(S), NEW b \in Seq(S)
  PROVE  /\ a \o b \in Seq(S) /\ Len(a \o b) = Len(a) + Len(b) /\ Len(a) \in Nat /\ Len(b) \in Nat
         /\ \A i \in 1..Len(a) : (a \o b)[i] = a[i]
         /\ \A i \in 1..Len(b) : (a \o b)[Len(a) + i] = b[i]
<1>1. /\ a \o b \in Seq(S) /\ Len(a \o b) = Len(a) + Len(b) /\ Len(a) \in Nat /\ Len(b) \in Nat
      /\ \A i \in 1..(Len(a) + Len(b)) : (a \o b)[i] = IF i <= Len(a) THEN a[i] ELSE b[i - Len(a)]
  BY ConcatProperties
<1>2. \A i \in 1..Len(a) : (a \o b)[i] = a[i]
  BY <1>1
<1>3. \A i \in 1..Len(b) : (a \o b)[Len(a) + i] = b[i]
  <2> SUFFICES ASSUME NEW i \in 1..Len(b) PROVE (a \o b)[Len(a) + i] = b[i]
    OBVIOUS
  <2>1. Len(a) + i \in 1..(Len(a) + Len(b)) /\ ~(Len(a) + i <= Len(a)) /\ (Len(a) + i) - Len(a) = i
    BY <1>1
  <2> QED BY <1>1, <2>1
<1> QED BY <1>1, <1>2, <1>3

\* A sequence between two others.
LEMMA Trozo ==
  ASSUME NEW S, NEW a, NEW b, NEW c, a \in Seq(S) /\ b \in Seq(S) /\ c \in Seq(S), NEW x, Tres(x, a, b, c),
         NEW p, NEW q, Entre(p, q, a, b)
  PROVE  EsCorte(x, p, q, b)
<1>1. PICK y : y = a \o b
  OBVIOUS
<1>2. /\ y \in Seq(S) /\ Len(y) = Len(a) + Len(b) /\ Len(a) \in Nat /\ Len(b) \in Nat
      /\ \A i \in 1..Len(b) : y[Len(a) + i] = b[i]
  BY <1>1, Concatena
<1>3. /\ x \in Seq(S) /\ Len(x) = Len(y) + Len(c) /\ Len(c) \in Nat
      /\ \A i \in 1..Len(y) : x[i] = y[i]
  <2>1. x = y \o c
    BY <1>1 DEF Tres
  <2>2. y \in Seq(S)
    BY <1>2
  <2>3. /\ y \o c \in Seq(S) /\ Len(y \o c) = Len(y) + Len(c) /\ Len(c) \in Nat
        /\ \A i \in 1..Len(y) : (y \o c)[i] = y[i]
    BY <2>2, Concatena
  <2> QED BY <2>1, <2>3
<1>4. \A i \in 1..Len(b) : Len(a) + i \in 1..Len(y)
  BY <1>2
<1>5. \A i \in 1..Len(b) : x[Len(a) + i] = b[i]
  BY <1>2, <1>3, <1>4
<1>6. PICK r : r = SubSeq(x, p, q)
  OBVIOUS
<1>7. r \in Seq(S) /\ Len(r) = Len(b) /\ \A i \in 1..Len(b) : r[i] = x[Len(a) + i]
  <2>1. p \in 1..(Len(x) + 1) /\ q \in Nat /\ q <= Len(x) /\ p \in Nat /\ (q - p) + 1 = Len(b)
    BY <1>2, <1>3 DEF Entre
  <2>2. \A i \in 1..Len(b) : (p + i) - 1 = Len(a) + i
    BY <1>2 DEF Entre
  <2>3. \A i \in p..q : i \in 1..Len(x)
    BY <2>1
  <2>4. /\ r \in Seq(S) /\ Len(r) = (q - p) + 1
        /\ \A i \in 1..((q - p) + 1) : r[i] = x[(p + i) - 1]
    BY <1>3, <1>6, <2>1, <2>3
  <2> QED BY <2>1, <2>2, <2>4
<1>8. \A i \in 1..Len(r) : r[i] = b[i]
  BY <1>5, <1>7
<1>9. r = b
  BY <1>7, <1>8, SeqEqual
<1> QED BY <1>6, <1>9 DEF EsCorte

\* Four bytes after the first.
LEMMA CorteUno ==
  ASSUME NEW S, NEW h, NEW u, NEW y, h \in Seq(S) /\ u \in Seq(S) /\ y \in Seq(S),
         Len(h) = 1, Len(u) = 4, NEW x, Tres(x, h, u, y)
  PROVE  EsCorte(x, 2, 5, u)
<1>1. PICK p : p = 2
  OBVIOUS
<1>2. PICK q : q = 5
  OBVIOUS
<1>3. Entre(p, q, h, u)
  BY <1>1, <1>2 DEF Entre
<1>4. EsCorte(x, p, q, u)
  BY <1>3, Trozo
<1> QED BY <1>1, <1>2, <1>4

\* Of four sequences, two in a row count as one.
LEMMA TresJuntas ==
  ASSUME NEW S, NEW h, NEW u, NEW v, NEW y,
         h \in Seq(S) /\ u \in Seq(S) /\ v \in Seq(S) /\ y \in Seq(S),
         NEW x, NEW w, NEW g, NEW d,
         Union(w, u, v), Union(g, h, u), Union(d, v, y), Tres(x, h, w, y)
  PROVE  Tres(x, g, v, y) /\ Tres(x, h, u, d)
<1>1. (h \o u) \o v = h \o (u \o v)
  <2>1. DeUnTipo(S, h, u, v)
    BY DEF DeUnTipo
  <2> QED BY <2>1, AsociaDeUnTipo
<1>2. g \in Seq(S) /\ v \in Seq(S) /\ y \in Seq(S)
  BY DEF Union
<1>3. (g \o v) \o y = g \o (v \o y)
  <2>1. DeUnTipo(S, g, v, y)
    BY <1>2 DEF DeUnTipo
  <2> QED BY <2>1, AsociaDeUnTipo
<1>4. g \o v = h \o w
  BY <1>1 DEF Union
<1> QED BY <1>3, <1>4 DEF Tres, Union

\* Four bytes, and four more.
LEMMA CorteDos ==
  ASSUME NEW S, NEW h, NEW u, NEW v, NEW y,
         h \in Seq(S) /\ u \in Seq(S) /\ v \in Seq(S) /\ y \in Seq(S), Len(h) = 1,
         Len(u) = 4, Len(v) = 4, NEW x, NEW w, Union(w, u, v), Tres(x, h, w, y)
  PROVE  EsCorte(x, 2, 5, u) /\ EsCorte(x, 6, 9, v)
<1>1. PICK g : Union(g, h, u)
  BY DEF Union
<1>2. PICK d : Union(d, v, y)
  BY DEF Union
<1>3. g \in Seq(S) /\ Len(g) = 5 /\ d \in Seq(S)
  <2>1. g \in Seq(S) /\ Len(g) = Len(h) + Len(u)
    BY <1>1, Concatena DEF Union
  <2>2. d \in Seq(S)
    BY <1>2, Concatena DEF Union
  <2> QED BY <2>1, <2>2
<1>4. Tres(x, g, v, y) /\ Tres(x, h, u, d)
  BY <1>1, <1>2, TresJuntas
<1>5. EsCorte(x, 2, 5, u)
  BY <1>3, <1>4, CorteUno
<1>6. PICK p : p = 6
  OBVIOUS
<1>7. PICK q : q = 9
  OBVIOUS
<1>8. Entre(p, q, g, v)
  BY <1>3, <1>6, <1>7 DEF Entre
<1>9. EsCorte(x, p, q, v)
  BY <1>3, <1>4, <1>8, Trozo
<1> QED BY <1>5, <1>6, <1>7, <1>9

\* x begins with the n operands and the code of r, and y follows.
Empieza(x, r, y, n) ==
  /\ x # << >> /\ x[1] \in 0..5 /\ Tipos[x[1] + 1] = r.tipo /\ ~(Len(x) < 1 + 4 * n)
  /\ SubSeq(x, 2 + 4 * n, Len(x)) = y
  /\ r = [tipo |-> r.tipo, op1 |-> IF n > 0 THEN SubSeq(x, 2, 5) ELSE MenosUno,
          op2 |-> IF n > 1 THEN SubSeq(x, 6, 9) ELSE MenosUno]

\* The bytes of an instruction, before others, say what it is and where it ends.
LEMMA Desempaca ==
  ASSUME NEW r \in Registro, NEW y \in Seq(Byte), NEW x, x = BytesDe(r) \o y,
         NEW n, n = Aridad(r.tipo)
  PROVE  Empieza(x, r, y, n)
<1>1. /\ BytesDe(r) \in Seq(Byte) /\ r.tipo \in TipoDe
      /\ BytesDe(r) = <<Codigo(r.tipo)>> \o (IF Aridad(r.tipo) = 0 THEN << >>
           ELSE IF Aridad(r.tipo) = 1 THEN r.op1 ELSE r.op1 \o r.op2)
      /\ r.op1 \in Seq(Byte) /\ Len(r.op1) = 4 /\ r.op2 \in Seq(Byte) /\ Len(r.op2) = 4
  BY BytesTipo
<1>2. Codigo(r.tipo) \in 0..5 /\ Tipos[Codigo(r.tipo) + 1] = r.tipo /\ n \in {0, 1, 2}
  BY <1>1, Codigos, Aridades
<1>3. /\ r = [tipo |-> r.tipo, op1 |-> r.op1, op2 |-> r.op2]
      /\ ~(n > 0) => r.op1 = MenosUno
      /\ ~(n > 1) => r.op2 = MenosUno
  <2>1. PICK i \in Instruccion : r = RegistroDe(i)
    BY DEF Registro
  <2> QED BY <2>1 DEF RegistroDe
<1> DEFINE h == <<Codigo(r.tipo)>>
           c == Codigo(r.tipo)
<1>4. c \in Byte /\ h \in Seq(Byte) /\ Len(h) = 1 /\ h = <<c>> /\ << >> \in Seq(Byte)
  <2>1. c \in Byte
    BY <1>2 DEF Byte
  <2> QED BY <2>1
<1> HIDE DEF h, c
<1>5. ASSUME NEW o \in Seq(Byte), BytesDe(r) = h \o o, Len(o) = 4 * n
      PROVE  /\ x = (h \o o) \o y /\ x = h \o (o \o y) /\ o \o y \in Seq(Byte)
             /\ x # << >> /\ x[1] = c /\ ~(Len(x) < 1 + 4 * n)
             /\ SubSeq(x, 2 + 4 * n, Len(x)) = y
  <2>1. x = (h \o o) \o y
    BY <1>5
  <2>2. (h \o o) \o y = h \o (o \o y) /\ o \o y \in Seq(Byte)
    <3>1. DeUnTipo(Byte, h, o, y)
      BY <1>4 DEF DeUnTipo
    <3> QED BY <3>1, AsociaDeUnTipo
  <2> DEFINE v == o \o y
             w == h \o o
  <2>3. v \in Seq(Byte) /\ x = <<c>> \o v
    BY <1>4, <2>1, <2>2
  <2>4. w \in Seq(Byte) /\ Len(w) = 1 + 4 * n /\ x = w \o y
    BY <1>4, <1>5, <2>1
  <2> HIDE DEF v, w
  <2>5. x # << >> /\ x[1] = c
    BY <1>4, <2>3, Delante
  <2>6. 2 + 4 * n = Len(w) + 1
    BY <1>2, <2>4
  <2> DEFINE p == 2 + 4 * n
  <2>7. p = Len(w) + 1
    BY <2>6
  <2> HIDE DEF p
  <2>8. SubSeq(x, p, Len(x)) = y /\ Len(x) = Len(w) + Len(y)
    BY <2>4, <2>7, Sobra
  <2>9. ~(Len(x) < 1 + 4 * n)
    BY <1>2, <2>4, <2>8
  <2> QED BY <2>1, <2>2, <2>5, <2>8, <2>9 DEF p
<1>6. CASE n = 0
  <2>1. BytesDe(r) = h \o << >> /\ << >> \in Seq(Byte) /\ Len(<< >>) = 4 * n
    BY <1>1, <1>4, <1>6 DEF h
  <2>2. x # << >> /\ x[1] = c /\ ~(Len(x) < 1 + 4 * n) /\ SubSeq(x, 2 + 4 * n, Len(x)) = y
    <3> DEFINE v == << >>
    <3>1. BytesDe(r) = h \o v /\ v \in Seq(Byte) /\ Len(v) = 4 * n
      BY <2>1
    <3> HIDE DEF v
    <3> QED BY <3>1, <1>5
  <2> QED BY <1>2, <1>3, <1>6, <2>2 DEF c, Empieza
<1> DEFINE u == r.op1
           v == r.op2
<1>9. u \in Seq(Byte) /\ Len(u) = 4 /\ v \in Seq(Byte) /\ Len(v) = 4
  BY <1>1
<1>7. CASE n = 1
  <2>1. BytesDe(r) = h \o u
    BY <1>1, <1>7 DEF h
  <2> HIDE DEF u, v
  <2>4. Len(u) = 4 * n
    BY <1>7, <1>9
  <2>2. /\ x = (h \o u) \o y /\ x # << >> /\ x[1] = c /\ ~(Len(x) < 1 + 4 * n)
        /\ SubSeq(x, 2 + 4 * n, Len(x)) = y
    BY <1>9, <1>5, <2>1, <2>4
  <2>5. Tres(x, h, u, y)
    BY <2>2 DEF Tres
  <2>8. EsCorte(x, 2, 5, u)
    BY <1>4, <1>9, <2>5, CorteUno
  <2>3. SubSeq(x, 2, 5) = u
    BY <2>8 DEF EsCorte
  <2>6. n > 0 /\ ~(n > 1)
    BY <1>7
  <2>7. r = [tipo |-> r.tipo, op1 |-> SubSeq(x, 2, 5), op2 |-> MenosUno]
    BY <1>3, <2>3, <2>6 DEF u
  <2> QED BY <1>2, <2>2, <2>6, <2>7 DEF c, Empieza
<1>8. CASE n = 2
  <2> DEFINE o == u \o v
  <2>1. BytesDe(r) = h \o o
    BY <1>1, <1>8 DEF h
  <2> HIDE DEF u, v
  <2>4. o \in Seq(Byte) /\ Len(o) = 4 * n
    <3>1. o \in Seq(Byte) /\ Len(o) = Len(u) + Len(v)
      BY <1>9, Concatena
    <3> HIDE DEF o
    <3> QED BY <3>1, <1>8, <1>9
  <2>2. /\ x = (h \o o) \o y /\ x # << >> /\ x[1] = c /\ ~(Len(x) < 1 + 4 * n)
        /\ SubSeq(x, 2 + 4 * n, Len(x)) = y
    <3> HIDE DEF o
    <3> QED BY <1>5, <2>1, <2>4
  <2>5. Tres(x, h, o, y)
    BY <2>2 DEF Tres
  <2>8. EsCorte(x, 2, 5, u) /\ EsCorte(x, 6, 9, v)
    <3>1. Union(o, u, v)
      BY DEF Union
    <3> HIDE DEF o
    <3> QED BY <1>4, <1>9, <2>5, <3>1, CorteDos
  <2>3. SubSeq(x, 2, 5) = u /\ SubSeq(x, 6, 9) = v
    BY <2>8 DEF EsCorte
  <2>6. n > 0 /\ n > 1
    BY <1>8
  <2>7. r = [tipo |-> r.tipo, op1 |-> SubSeq(x, 2, 5), op2 |-> SubSeq(x, 6, 9)]
    BY <1>3, <2>3 DEF u, v
  <2> QED BY <1>2, <2>2, <2>6, <2>7 DEF c, Empieza
<1> QED BY <1>2, <1>6, <1>7, <1>8
\* No instruction, no bytes.
LEMMA SinBytes == Bytes(<< >>) = << >>
<1>1. Cadena(EnBytes, << >>) = << >>
  <2>1. [tipo |-> "EXIT", op1 |-> 1, op2 |-> 1] \in Instruccion
    BY SonNaturales DEF Instruccion, TipoDe
  <2>2. PICK r : r \in Registro
    BY <2>1 DEF Registro
  <2>3. << >> \in Seq(Registro)
    OBVIOUS
  <2> QED BY <2>2, <2>3, Dan, CadenaUnaMas
<1>2. << >> \in Seq(Registro)
  OBVIOUS
<1> QED BY <1>1, <1>2, SonCadenas

\* The bytes of what is left are those of the next instruction and of what follows it.
LEMMA BytesPrimera ==
  ASSUME NEW s \in Seq(Registro), NEW j \in 0..(Len(s) - 1)
  PROVE  /\ s[j + 1] \in Registro /\ j + 1 \in 1..Len(s)
         /\ Bytes(Desde(s, j + 1)) \in Seq(Byte)
         /\ Bytes(Desde(s, j)) = BytesDe(s[j + 1]) \o Bytes(Desde(s, j + 1))
         /\ Hasta(s, j + 1) = Append(Hasta(s, j), s[j + 1])
<1> DEFINE r == s[j + 1]
           d == Desde(s, j + 1)
<1>1. /\ r \in Registro /\ j + 1 \in 1..Len(s) /\ d \in Seq(Registro)
      /\ Desde(s, j) \in Seq(Registro) /\ Desde(s, j) = <<r>> \o d
      /\ Hasta(s, j + 1) = Append(Hasta(s, j), r)
  BY Avanzar
<1> HIDE DEF r, d
<1>2. Desde(s, j) = ConPrimera(r, d)
  BY <1>1 DEF ConPrimera
<1>3. Da(EnBytes, Registro, Byte)
  BY Dan
<1>4. Cadena(EnBytes, d) \in Seq(Byte) /\ Cadena(EnBytes, ConPrimera(r, d)) = EnBytes[r] \o Cadena(EnBytes, d)
  BY <1>1, <1>3, CadenaPrimera
<1>5. EnBytes[r] = BytesDe(r)
  BY <1>1 DEF EnBytes
<1>6. Bytes(d) = Cadena(EnBytes, d) /\ Bytes(Desde(s, j)) = Cadena(EnBytes, Desde(s, j))
  BY <1>1, SonCadenas
<1> QED BY <1>1, <1>2, <1>4, <1>5, <1>6 DEF r, d

\* What a script means is a list of records, longer by what each line means.
LEMMA SignificadoTipo ==
  ASSUME NEW p \in Seq(Instruccion)
  PROVE  /\ Significado(p) \in Seq(Registro) /\ Significado(<< >>) = << >>
         /\ \A x \in Instruccion : /\ Copias(x) \in Seq(Registro)
                                  /\ Significado(Append(p, x)) = Significado(p) \o Copias(x)
<1>1. Da(EnCopias, Instruccion, Registro)
  BY Dan
<1>2. ASSUME NEW x \in Instruccion
      PROVE  /\ Significado(p) \in Seq(Registro) /\ Significado(<< >>) = << >>
             /\ Copias(x) \in Seq(Registro)
             /\ Significado(Append(p, x)) = Significado(p) \o Copias(x)
  <2>1. /\ Cadena(EnCopias, << >>) = << >> /\ Cadena(EnCopias, p) \in Seq(Registro)
        /\ Cadena(EnCopias, Append(p, x)) = Cadena(EnCopias, p) \o EnCopias[x]
    BY <1>1, CadenaUnaMas
  <2>2. EnCopias[x] = Copias(x) /\ EnCopias[x] \in Seq(Registro)
    BY <1>1 DEF EnCopias, Da
  <2>3. Append(p, x) \in Seq(Instruccion) /\ << >> \in Seq(Instruccion)
    OBVIOUS
  <2>4. /\ Significado(p) = Cadena(EnCopias, p) /\ Significado(<< >>) = Cadena(EnCopias, << >>)
        /\ Significado(Append(p, x)) = Cadena(EnCopias, Append(p, x))
    BY <2>3, SonCadenas
  <2> QED BY <2>1, <2>2, <2>4
<1>3. [tipo |-> "EXIT", op1 |-> 1, op2 |-> 1] \in Instruccion
  BY SonNaturales DEF Instruccion, TipoDe
<1> QED BY <1>2, <1>3

\* EXIT is the last instruction the CPU gets.
ExitUltimo(s) == \A k \in 1..Len(s) : s[k].tipo = "EXIT" => k = Len(s)
SinExit(s) == \A k \in 1..Len(s) : s[k].tipo # "EXIT"

\* No EXIT, and then the copies of a line.
LEMMA ExitDespues ==
  ASSUME NEW s \in Seq(Registro), SinExit(s), NEW i \in Instruccion
  PROVE  /\ s \o Copias(i) \in Seq(Registro) /\ ExitUltimo(s \o Copias(i))
         /\ i.tipo # "EXIT" => SinExit(s \o Copias(i))
<1>1. PICK c : c = Copias(i)
  OBVIOUS
<1>2. /\ c \in Seq(Registro) /\ \A k \in 1..Len(c) : c[k].tipo = i.tipo
      /\ i.tipo = "EXIT" => Len(c) = 1
  <2>1. i.tipo \in TipoDe /\ i.op1 \in Nat /\ RegistroDe(i) \in Registro /\ RegistroDe(i).tipo = i.tipo
    BY RegistroTipo, SonNaturales
  <2> DEFINE n == IF i.tipo = "NO_OP" THEN i.op1 ELSE 1
             r == RegistroDe(i)
  <2>2. n \in Nat /\ (i.tipo = "EXIT" => n = 1)
    BY <2>1
  <2>3. c = [j \in 1..n |-> r]
    BY <1>1 DEF Copias
  <2> HIDE DEF n, r
  <2>4. c \in Seq(Registro) /\ Len(c) = n /\ \A k \in 1..n : c[k] = r
    BY <2>1, <2>2, <2>3 DEF r
  <2> QED BY <2>1, <2>2, <2>4 DEF r
<1>3. /\ s \o c \in Seq(Registro) /\ Len(s \o c) = Len(s) + Len(c) /\ Len(s) \in Nat /\ Len(c) \in Nat
      /\ \A k \in 1..Len(s) : (s \o c)[k] = s[k]
      /\ \A k \in 1..Len(c) : (s \o c)[Len(s) + k] = c[k]
  BY <1>2, Concatena
<1>4. PICK t : t = s \o c
  OBVIOUS
<1>5. \A k \in 1..(Len(s) + Len(c)) :
        k \in 1..Len(s) \/ \E h \in 1..Len(c) : k = Len(s) + h
  <2> SUFFICES ASSUME NEW k \in 1..(Len(s) + Len(c)), k \notin 1..Len(s)
               PROVE  \E h \in 1..Len(c) : k = Len(s) + h
    OBVIOUS
  <2>1. k - Len(s) \in 1..Len(c) /\ k = Len(s) + (k - Len(s))
    BY <1>3
  <2> QED BY <2>1
<1>6. ASSUME NEW k \in 1..Len(t), t[k].tipo = "EXIT"
      PROVE  i.tipo = "EXIT" /\ k = Len(t)
  <2>1. k \notin 1..Len(s)
    BY <1>3, <1>4, <1>6 DEF SinExit
  <2>2. PICK h \in 1..Len(c) : k = Len(s) + h
    BY <1>3, <1>4, <1>5, <2>1
  <2>3. i.tipo = "EXIT"
    BY <1>2, <1>3, <1>4, <1>6, <2>2
  <2>4. h = 1 /\ Len(t) = Len(s) + 1
    <3>1. Len(c) = 1
      BY <1>2, <2>3
    <3>2. h = 1
      BY <2>2, <3>1
    <3> QED BY <1>3, <1>4, <3>1, <3>2
  <2> QED BY <2>2, <2>3, <2>4
<1>7. ExitUltimo(t) /\ (i.tipo # "EXIT" => SinExit(t))
  BY <1>6 DEF ExitUltimo, SinExit
<1> QED BY <1>1, <1>3, <1>4, <1>7

\* EXIT is the last line, so it is the last instruction.
LEMMA SignificadoExit ==
  ASSUME NEW p \in Seq(Instruccion), \A k \in 1..Len(p) : p[k].tipo = "EXIT" => k = Len(p)
  PROVE  ExitUltimo(Significado(p))
<1> DEFINE n == Len(p)
           T == {m \in 0..n : /\ ExitUltimo(Significado(Hasta(p, m)))
                              /\ m < n => SinExit(Significado(Hasta(p, m)))}
<1>1. n \in Nat
  OBVIOUS
<1>2. 0 \in T
  <2>1. Hasta(p, 0) = << >> /\ Significado(<< >>) = << >>
    BY Extremos, SignificadoTipo
  <2>2. ExitUltimo(<< >>) /\ SinExit(<< >>)
    BY DEF ExitUltimo, SinExit
  <2> QED BY <2>1, <2>2
<1>3. ASSUME NEW m \in 0..(n - 1), m \in T PROVE m + 1 \in T
  <2> DEFINE i == p[m + 1]
             h == Hasta(p, m)
  <2>1. i \in Instruccion /\ h \in Seq(Instruccion) /\ Hasta(p, m + 1) = Append(h, i)
    BY Avanzar
  <2>2. m < n /\ m + 1 \in 0..n /\ m + 1 \in 1..n
    OBVIOUS
  <2>3. SinExit(Significado(h))
    BY <1>3, <2>2
  <2>4. m + 1 < n => i.tipo # "EXIT"
    BY <2>2
  <2> HIDE DEF i, h
  <2>5. /\ Significado(h) \in Seq(Registro)
        /\ Significado(Append(h, i)) = Significado(h) \o Copias(i)
    BY <2>1, SignificadoTipo
  <2>6. /\ ExitUltimo(Significado(h) \o Copias(i))
        /\ i.tipo # "EXIT" => SinExit(Significado(h) \o Copias(i))
    BY <2>1, <2>3, <2>5, ExitDespues
  <2> QED BY <2>1, <2>2, <2>4, <2>5, <2>6
<1> HIDE DEF T
<1>4. \A m \in 0..n : m \in T
  BY <1>1, <1>2, <1>3, Induccion
<1>5. n \in T /\ Hasta(p, n) = p
  BY <1>1, <1>4, Extremos
<1> QED BY <1>5 DEF T

\* An iteration of instruccion_list_create_from_buffer.
LEMMA DesempaquetarPaso ==
  ASSUME NEW s \in Seq(Registro), ExitUltimo(s), NEW j \in 0..Len(s), Desempaquetado(s, j),
         CpuDesempaquetar
  PROVE  \/ cpu' = "caida"
         \/ cpu' \in {"desempaquetar", "ejecutar"} /\ j + 1 \in 0..Len(s) /\ Desempaquetado(s, j + 1)'
<1>1. lista = Hasta(s, j) /\ recibido = Bytes(Desde(s, j)) /\ Len(s) \in Nat
  BY DEF Desempaquetado
<1>2. CASE j = Len(s)
  <2>1. Desde(s, j) = << >>
    BY <1>2, Extremos
  <2>2. Bytes(<< >>) = << >>
    BY SinBytes
  <2>3. recibido = << >>
    BY <1>1, <2>1, <2>2
  <2> QED BY <2>3 DEF CpuDesempaquetar
<1>3. CASE j # Len(s)
  <2>1. j \in 0..(Len(s) - 1) /\ j + 1 \in 0..Len(s)
    BY <1>1, <1>3
  <2> DEFINE r == s[j + 1]
             y == Bytes(Desde(s, j + 1))
             n == Aridad(r.tipo)
  <2>2. /\ r \in Registro /\ j + 1 \in 1..Len(s) /\ y \in Seq(Byte) /\ recibido = BytesDe(r) \o y
        /\ Hasta(s, j + 1) = Append(lista, r)
    BY <1>1, <2>1, BytesPrimera
  <2>7. r.tipo = "EXIT" => j + 1 = Len(s)
    BY <2>2 DEF ExitUltimo
  <2> HIDE DEF r, y, n
  <2>3. n = Aridad(r.tipo)
    BY DEF n
  <2>4. /\ recibido # << >> /\ recibido[1] \in 0..5 /\ Tipos[recibido[1] + 1] = r.tipo
        /\ ~(Len(recibido) < 1 + 4 * n)
        /\ SubSeq(recibido, 2 + 4 * n, Len(recibido)) = y
        /\ r = [tipo |-> r.tipo, op1 |-> IF n > 0 THEN SubSeq(recibido, 2, 5) ELSE MenosUno,
                op2 |-> IF n > 1 THEN SubSeq(recibido, 6, 9) ELSE MenosUno]
    <3>1. Empieza(recibido, r, y, n)
      BY <2>2, <2>3, Desempaca
    <3> QED BY <3>1 DEF Empieza
  <2>5. Operandos(r.tipo) = n
    BY <2>3 DEF Operandos
  <2>6. /\ lista' = Append(lista,
              [tipo |-> r.tipo, op1 |-> IF n > 0 THEN SubSeq(recibido, 2, 5) ELSE MenosUno,
               op2 |-> IF n > 1 THEN SubSeq(recibido, 6, 9) ELSE MenosUno])
        /\ recibido' = SubSeq(recibido, 2 + 4 * n, Len(recibido))
        /\ cpu' = IF r.tipo = "EXIT" THEN "ejecutar" ELSE "desempaquetar"
    BY <2>4, <2>5 DEF CpuDesempaquetar
  <2>8. lista' = Hasta(s, j + 1) /\ recibido' = Bytes(Desde(s, j + 1))
    BY <2>2, <2>4, <2>6 DEF y
  <2> QED BY <2>1, <2>6, <2>7, <2>8 DEF Desempaquetado
<1> QED BY <1>2, <1>3
-----------------------------------------------------------------------------
(* The invariant.                                                          *)

\* It holds when the Consola starts.
LEMMA AlEmpezar ==
  ASSUME BienEscritos, Init
  PROVE  GInv
<1>1. PICK g \in Guiones : programa = g.programa /\ archivo = Tokens(g.programa) \o g.final
  BY DEF Init
<1>2. g.programa \in Seq(Instruccion) /\ Len(g.programa) \in Nat
  BY Bien
<1>3. /\ instruccion = "sin leer" /\ buffer = << >> /\ consola = "parsear"
      /\ kernel = "sin pcb" /\ cpu = "esperar pcb" /\ Dispatch!Init
  BY DEF Init
<1>4. Hasta(g.programa, 0) = << >> /\ Desde(g.programa, 0) = g.programa
  BY <1>2, Extremos
<1>5. Significado(<< >>) = << >>
  BY <1>2, SignificadoTipo
<1>6. Bytes(<< >>) = << >>
  BY SinBytes
<1>7. Leyendo(g, 0)
  BY <1>1, <1>3, <1>4, <1>5, <1>6 DEF Leyendo
<1>8. Parser
  <2>1. 0 \in 0..Len(programa)
    BY <1>1, <1>2
  <2> QED BY <1>1, <1>3, <1>7, <2>1 DEF Parser
<1>9. Vacio /\ LectorTipo
  BY <1>3 DEF Dispatch!Init, Vacio, LectorTipo
<1>10. Socket
  <2>1. PICK a : a = MensajePcb
    OBVIOUS
  <2>2. PICK b : b = MensajeLista
    OBVIOUS
  <2>3. SocketDe(a, b)
    BY <1>3, <1>9 DEF SocketDe
  <2> QED BY <1>9, <2>1, <2>2, <2>3 DEF Socket
<1> QED BY <1>3, <1>8, <1>10 DEF GInv, Pcb, CpuInv

\* What the Kernel and the CPU do is nothing to the parser and the PCB.
LEMMA Quieta ==
  ASSUME Parser, Pcb,
         UNCHANGED <<programa, archivo, instruccion, buffer, consola, instructionsBuffer>>,
         kernel' = "sin pcb" <=> kernel = "sin pcb"
  PROVE  Parser' /\ Pcb'
<1>1. \A g, k : Leyendo(g, k)' <=> Leyendo(g, k)
  BY DEF Leyendo
<1>2. Perdido' <=> Perdido
  BY DEF Perdido
<1>3. Parser'
  BY <1>1, <1>2 DEF Parser
<1>4. Pcb'
  BY DEF Pcb
<1> QED BY <1>3, <1>4

\* What the parser does is nothing to the socket and the CPU.
LEMMA QuietoResto ==
  ASSUME Socket, CpuInv, UNCHANGED <<programa, varsResto>>
  PROVE  Socket' /\ CpuInv'
<1>1. /\ programa' = programa /\ instructionsBuffer' = instructionsBuffer /\ kernel' = kernel
      /\ recibido' = recibido /\ cpu' = cpu /\ lista' = lista
      /\ enViaje' = enViaje /\ llegados' = llegados /\ lector' = lector
      /\ entregado' = entregado /\ sinRecibir' = sinRecibir
  BY DEF varsResto, varsKernel, varsCpu, varsDispatch
<1>2. \A a, b : /\ Uno(a)' <=> Uno(a)
                /\ Dos(a, b)' <=> Dos(a, b)
  <2>1. \A a : Sin(a)' = Sin(a) /\ (Leido(a)' <=> Leido(a))
    BY <1>1 DEF Sin, Leido
  <2> QED BY <1>1, <2>1 DEF Uno, Dos
<1>3. Vacio' <=> Vacio
  BY <1>1 DEF Vacio
<1>4. \A a, b : SocketDe(a, b)' <=> SocketDe(a, b)
  BY <1>1, <1>2, <1>3 DEF SocketDe
<1>5. MensajeLista' = MensajeLista /\ MensajePcb' = MensajePcb
  BY <1>1 DEF MensajeLista, MensajePcb
<1>6. Socket'
  BY <1>1, <1>4, <1>5 DEF Socket, LectorTipo
<1>7. \A s, j : Desempaquetado(s, j)' <=> Desempaquetado(s, j)
  BY <1>1 DEF Desempaquetado
<1>8. CpuInv'
  BY <1>1, <1>7 DEF CpuInv
<1> QED BY <1>6, <1>8

\* A step of the parser.
LEMMA ConsolaPaso ==
  ASSUME BienEscritos, GInv, PasoParser
  PROVE  GInv'
<1>1. consola = "parsear" /\ UNCHANGED <<programa, varsResto>>
  BY DEF PasoParser, LeerNoOp, LeerUnOperando, LeerDosOperandos, LeerExit, LeerOtra, Leer
<1>2. Socket' /\ CpuInv' /\ Parser /\ Pcb
  BY <1>1, QuietoResto DEF GInv
<1>3. kernel' = kernel /\ instructionsBuffer' = instructionsBuffer /\ programa' = programa
  BY <1>1 DEF varsResto, varsKernel
<1>4. /\ consola' \in {"parsear", "aceptado", "rechazado", "caida"}
      /\ consola' = "parsear" =>
           \/ \E g \in Guiones : programa' = g.programa
                                 /\ \E k \in 0..Len(programa') : Leyendo(g, k)'
           \/ Perdido'
      /\ consola' \in {"aceptado", "rechazado"} => buffer' = Bytes(Significado(programa'))
  <2>1. CASE Perdido
    BY <1>1, <2>1, SinArchivoPaso DEF Perdido
  <2>2. CASE ~Perdido
    <3>1. PICK g \in Guiones : programa = g.programa /\ \E k \in 0..Len(programa) : Leyendo(g, k)
      BY <1>1, <1>2, <2>2 DEF Parser
    <3>2. PICK k \in 0..Len(programa) : Leyendo(g, k)
      BY <3>1
    <3>3. PICK p : p = g.programa
      OBVIOUS
    <3>4. Len(p) \in Nat /\ programa = p /\ programa' = p
      BY <1>3, <3>1, <3>3, Bien
    <3>5. CASE k = Len(p)
      <4>1. Leyendo(g, Len(p))
        BY <3>2, <3>5
      <4>2. \/ consola' = "parsear" /\ Perdido'
            \/ consola' = "caida"
            \/ consola' = "rechazado" /\ buffer' = Bytes(Significado(p))
        BY <1>1, <3>3, <3>4, <4>1, EnFinalPaso
      <4> QED BY <3>4, <4>2
    <3>6. CASE k # Len(p)
      <4>1. k \in 0..(Len(p) - 1) /\ k + 1 \in 0..Len(p)
        BY <3>2, <3>4, <3>6
      <4>2. \/ consola' = "parsear" /\ Leyendo(g, k + 1)'
            \/ consola' = "aceptado" /\ buffer' = Bytes(Significado(p))
        BY <1>1, <3>2, <3>3, <3>4, <4>1, EnLineaPaso
      <4> QED BY <3>3, <3>4, <4>1, <4>2
    <3> QED BY <3>5, <3>6
  <2> QED BY <2>1, <2>2
<1>5. Parser'
  BY <1>2, <1>3, <1>4 DEF Parser
<1>6. Pcb'
  BY <1>1, <1>2, <1>3, <1>4 DEF Pcb
<1> QED BY <1>2, <1>5, <1>6 DEF GInv

\* The Kernel gets the instructions, and the PCB keeps them.
LEMMA EnviarPaso ==
  ASSUME GInv, Enviar
  PROVE  GInv'
<1>1. /\ consola \in {"aceptado", "rechazado"} /\ consola' = "enviado"
      /\ instructionsBuffer' = buffer /\ kernel' = "elegido"
      /\ UNCHANGED <<programa, varsConsola, despachos, varsCpu, varsDispatch>>
  BY DEF Enviar
<1>2. /\ programa' = programa /\ archivo' = archivo /\ instruccion' = instruccion /\ buffer' = buffer
      /\ recibido' = recibido /\ cpu' = cpu /\ lista' = lista
      /\ enViaje' = enViaje /\ llegados' = llegados /\ lector' = lector
      /\ entregado' = entregado /\ sinRecibir' = sinRecibir
  BY <1>1 DEF varsConsola, varsCpu, varsDispatch
<1>3. buffer = Bytes(Significado(programa)) /\ kernel = "sin pcb"
  BY <1>1 DEF GInv, Parser, Pcb
<1>4. cpu = "esperar pcb" /\ Vacio
  BY <1>3 DEF GInv, Socket, SocketDe
<1>5. Parser' /\ Pcb'
  BY <1>1, <1>2, <1>3 DEF GInv, Parser, Pcb
<1>6. Vacio'
  BY <1>2, <1>4 DEF Vacio
<1>7. Socket'
  <2>1. PICK a : a = MensajePcb'
    OBVIOUS
  <2>2. PICK b : b = MensajeLista'
    OBVIOUS
  <2>3. SocketDe(a, b)'
    BY <1>1, <1>2, <1>4, <1>6 DEF SocketDe
  <2>4. LectorTipo'
    BY <1>2 DEF GInv, Socket, LectorTipo
  <2> QED BY <2>1, <2>2, <2>3, <2>4 DEF Socket
<1>8. CpuInv'
  BY <1>2, <1>4 DEF CpuInv
<1> QED BY <1>5, <1>7, <1>8 DEF GInv
\* Some numbers that fit.
LEMMA Chicos == 0 \in Entero32 /\ 12 \in Entero32 /\ 2 \in Byte /\ 5 \in Byte
<1>1. 0 \in Entero32 /\ 12 \in Entero32
  BY SMT DEF Entero32
<1>2. 2 \in Byte /\ 5 \in Byte
  BY SMT DEF Byte
<1> QED BY <1>1, <1>2

\* The message of the PCB.
LEMMA PcbEsMensaje == EsMensaje(MensajePcb) /\ MensajePcb.header = 5
<1>1. PICK w : w = Entero(0)
  OBVIOUS
<1>2. 0 \in Entero32 /\ 12 \in Entero32 /\ 2 \in Byte /\ 5 \in Byte
  BY Chicos
<1>3. w \in Seq(Byte) /\ Len(w) = 4
  BY <1>1, <1>2, EnteroEs
<1>4. PICK v : v = w \o w
  OBVIOUS
<1>5. v \in Seq(Byte) /\ Len(v) = Len(w) + Len(w)
  BY <1>3, <1>4, Concatena
<1>6. PICK x : x = v \o w
  OBVIOUS
<1>7. x \in Seq(Byte) /\ Len(x) = Len(v) + Len(w)
  BY <1>3, <1>5, <1>6, Concatena
<1>8. Len(x) = 12
  <2>1. Len(x) = (4 + 4) + 4
    BY <1>3, <1>5, <1>7
  <2> QED BY <2>1
<1>9. MensajePcb = [header |-> 5, payload |-> x]
  BY <1>1, <1>4, <1>6 DEF MensajePcb
<1> QED BY <1>2, <1>7, <1>8, <1>9 DEF EsMensaje

\* The two messages of a dispatch.
LEMMA MensajesSon ==
  ASSUME BienEscritos, GInv, kernel # "sin pcb"
  PROVE  /\ EsMensaje(MensajePcb) /\ MensajePcb.header = 5
         /\ EsMensaje(MensajeLista) /\ MensajeLista.header = 2
         /\ MensajeLista.payload = Bytes(Significado(programa))
         /\ Significado(programa) \in Seq(Registro) /\ ExitUltimo(Significado(programa))
<1>1. consola = "enviado" /\ instructionsBuffer = Bytes(Significado(programa))
  BY DEF GInv, Pcb
<1>2. PICK g \in Guiones : programa = g.programa
  BY DEF GInv, Parser
<1>3. PICK p : p = g.programa
  OBVIOUS
<1>4. /\ p \in Seq(Instruccion) /\ Len(p) \in Nat /\ programa = p
      /\ \A k \in 1..Len(p) : p[k].tipo = "EXIT" => k = Len(p)
      /\ Len(Bytes(Significado(p))) \in Entero32
  BY <1>2, <1>3, Bien
<1>5. Significado(p) \in Seq(Registro) /\ ExitUltimo(Significado(p))
  BY <1>4, SignificadoTipo, SignificadoExit
<1>6. Bytes(Significado(p)) \in Seq(Byte)
  <2>1. PICK s : s = Significado(p)
    OBVIOUS
  <2>2. PICK r : r \in Registro
    <3>1. [tipo |-> "EXIT", op1 |-> 1, op2 |-> 1] \in Instruccion
      BY SonNaturales DEF Instruccion, TipoDe
    <3> QED BY <3>1 DEF Registro
  <2>3. s \in Seq(Registro) /\ Bytes(s) = Cadena(EnBytes, s)
    BY <1>5, <2>1, SonCadenas
  <2>4. Cadena(EnBytes, s) \in Seq(Byte)
    BY <2>2, <2>3, Dan, CadenaUnaMas
  <2> QED BY <2>1, <2>3, <2>4
<1>7. PICK b : b = MensajeLista
  OBVIOUS
<1>8. b = [header |-> 2, payload |-> Bytes(Significado(p))]
  BY <1>1, <1>4, <1>7 DEF MensajeLista
<1>9. 2 \in Byte
  BY Chicos
<1>10. EsMensaje(b) /\ b.header = 2 /\ b.payload = Bytes(Significado(p))
  BY <1>4, <1>6, <1>8, <1>9 DEF EsMensaje
<1>11. EsMensaje(MensajePcb) /\ MensajePcb.header = 5
  BY PcbEsMensaje
<1> QED BY <1>4, <1>5, <1>7, <1>10, <1>11

\* What the steps of the Kernel and of the socket leave of the invariant.
LEMMA SinLaConsola ==
  ASSUME GInv, UNCHANGED <<programa, varsConsola, consola, instructionsBuffer>>,
         kernel' # "sin pcb", kernel # "sin pcb", LectorTipo',
         NEW a, a = MensajePcb, NEW b, b = MensajeLista, SocketDe(a, b)', CpuInv'
  PROVE  GInv'
<1>1. /\ programa' = programa /\ archivo' = archivo /\ instruccion' = instruccion
      /\ buffer' = buffer /\ consola' = consola /\ instructionsBuffer' = instructionsBuffer
  BY DEF varsConsola
<1>2. Parser' /\ Pcb'
  BY <1>1, Quieta DEF GInv
<1>3. MensajePcb' = a /\ MensajeLista' = b
  BY <1>1 DEF MensajePcb, MensajeLista
<1>4. Socket'
  BY <1>3 DEF Socket
<1> QED BY <1>2, <1>4 DEF GInv

\* The CPU has not begun to unpack, or is no further.
LEMMA CpuQuieta ==
  ASSUME CpuInv, UNCHANGED <<programa, recibido, lista>>, cpu' = cpu
  PROVE  CpuInv'
<1>1. \A s, j : Desempaquetado(s, j)' <=> Desempaquetado(s, j)
  BY DEF Desempaquetado
<1> QED BY <1>1 DEF CpuInv

\* cpu_adapter_enviar_pcb_a_cpu, the PCB.
LEMMA KernelEnviarPcbPaso ==
  ASSUME GInv, KernelEnviarPcb
  PROVE  GInv'
<1>1. /\ kernel = "elegido" /\ Dispatch!Enviar(MensajePcb) /\ kernel' = "pcb enviado"
      /\ UNCHANGED <<programa, varsConsola, consola, instructionsBuffer, varsCpu>>
  BY DEF KernelEnviarPcb
<1>2. recibido' = recibido /\ cpu' = cpu /\ lista' = lista
  BY <1>1 DEF varsCpu
<1>3. PICK a, b : a = MensajePcb /\ b = MensajeLista /\ SocketDe(a, b)
  BY DEF GInv, Socket
<1>4. cpu = "esperar pcb" /\ Vacio
  BY <1>1, <1>3 DEF SocketDe
<1>5. Dispatch!Enviar(a)
  BY <1>1, <1>3
<1>6. Uno(a)'
  BY <1>4, <1>5, EnviarUno
<1>7. LectorTipo'
  BY <1>5 DEF GInv, Socket, LectorTipo, Dispatch!Enviar
<1>8. SocketDe(a, b)'
  BY <1>1, <1>2, <1>4, <1>6 DEF SocketDe
<1>9. CpuInv'
  BY <1>1, <1>2, CpuQuieta DEF GInv
<1>10. kernel # "sin pcb" /\ kernel' # "sin pcb"
  BY <1>1
<1> QED BY <1>1, <1>3, <1>7, <1>8, <1>9, <1>10, SinLaConsola

\* cpu_adapter_enviar_pcb_a_cpu, the list.
LEMMA KernelEnviarListaPaso ==
  ASSUME GInv, KernelEnviarLista
  PROVE  GInv'
<1>1. /\ kernel = "pcb enviado" /\ Dispatch!Enviar(MensajeLista) /\ kernel' = "espera respuesta"
      /\ UNCHANGED <<programa, varsConsola, consola, instructionsBuffer, varsCpu>>
  BY DEF KernelEnviarLista
<1>2. recibido' = recibido /\ cpu' = cpu /\ lista' = lista
  BY <1>1 DEF varsCpu
<1>3. PICK a, b : a = MensajePcb /\ b = MensajeLista /\ SocketDe(a, b)
  BY DEF GInv, Socket
<1>4. (cpu = "esperar pcb" /\ Uno(a)) \/ (cpu = "esperar lista" /\ Vacio)
  BY <1>1, <1>3 DEF SocketDe
<1>5. Dispatch!Enviar(b)
  BY <1>1, <1>3
<1>6. SocketDe(a, b)'
  <2>1. CASE cpu = "esperar pcb" /\ Uno(a)
    <3>1. Dos(a, b)'
      BY <1>5, <2>1, EnviarDos
    <3> QED BY <1>1, <1>2, <2>1, <3>1 DEF SocketDe
  <2>2. CASE cpu = "esperar lista" /\ Vacio
    <3>1. Uno(b)'
      BY <1>5, <2>2, EnviarUno
    <3> QED BY <1>1, <1>2, <2>2, <3>1 DEF SocketDe
  <2> QED BY <1>4, <2>1, <2>2
<1>7. LectorTipo'
  BY <1>5 DEF GInv, Socket, LectorTipo, Dispatch!Enviar
<1>8. CpuInv'
  BY <1>1, <1>2, CpuQuieta DEF GInv
<1>9. kernel # "sin pcb" /\ kernel' # "sin pcb"
  BY <1>1
<1> QED BY <1>1, <1>3, <1>6, <1>7, <1>8, <1>9, SinLaConsola

\* The network.
LEMMA LlegarPaso ==
  ASSUME BienEscritos, TodoJunto, GInv, Llegar
  PROVE  GInv'
<1>1. Dispatch!Llegar /\ UNCHANGED <<programa, varsConsola, consola, varsKernel, varsCpu>>
  BY DEF Llegar
<1>2. /\ recibido' = recibido /\ cpu' = cpu /\ lista' = lista
      /\ kernel' = kernel /\ instructionsBuffer' = instructionsBuffer
  BY <1>1 DEF varsCpu, varsKernel
<1>3. PICK a, b : a = MensajePcb /\ b = MensajeLista /\ SocketDe(a, b)
  BY DEF GInv, Socket
<1>4. ~Vacio
  BY <1>1 DEF Vacio, Dispatch!Llegar
<1>5. \/ cpu = "esperar pcb" /\ kernel = "pcb enviado" /\ Uno(a)
      \/ cpu = "esperar pcb" /\ kernel = "espera respuesta" /\ Dos(a, b)
      \/ cpu = "esperar lista" /\ kernel = "espera respuesta" /\ Uno(b)
  BY <1>3, <1>4 DEF SocketDe
<1>6. kernel # "sin pcb" /\ kernel' # "sin pcb"
  BY <1>2, <1>5
<1>7. EsMensaje(a) /\ EsMensaje(b)
  BY <1>3, <1>6, MensajesSon
<1>8. SocketDe(a, b)' /\ lector' = lector
  <2>1. CASE cpu = "esperar pcb" /\ kernel = "pcb enviado" /\ Uno(a)
    <3>1. Uno(a)' /\ lector' = lector
      BY <1>1, <1>7, <2>1, LlegarUno
    <3> QED BY <1>2, <2>1, <3>1 DEF SocketDe
  <2>2. CASE cpu = "esperar pcb" /\ kernel = "espera respuesta" /\ Dos(a, b)
    <3>1. Dos(a, b)' /\ lector' = lector
      BY <1>1, <1>7, <2>2, LlegarDos
    <3> QED BY <1>2, <2>2, <3>1 DEF SocketDe
  <2>3. CASE cpu = "esperar lista" /\ kernel = "espera respuesta" /\ Uno(b)
    <3>1. Uno(b)' /\ lector' = lector
      BY <1>1, <1>7, <2>3, LlegarUno
    <3> QED BY <1>2, <2>3, <3>1 DEF SocketDe
  <2> QED BY <1>5, <2>1, <2>2, <2>3
<1>9. LectorTipo'
  BY <1>8 DEF GInv, Socket, LectorTipo
<1>10. CpuInv'
  BY <1>1, <1>2, CpuQuieta DEF GInv
<1> QED BY <1>1, <1>2, <1>3, <1>6, <1>8, <1>9, <1>10, SinLaConsola

\* Where the socket is when the CPU receives.
Esperando(a, b) ==
  \/ cpu = "esperar pcb" /\ kernel = "pcb enviado" /\ Uno(a)
  \/ cpu = "esperar pcb" /\ kernel = "espera respuesta" /\ Dos(a, b)
  \/ cpu = "esperar lista" /\ kernel = "espera respuesta" /\ Uno(b)

\* There is a message to receive.
LEMMA HayMensaje ==
  ASSUME BienEscritos, GInv, Dispatch!Recibir, NEW a, NEW b, a = MensajePcb, b = MensajeLista,
         SocketDe(a, b), cpu \in {"esperar pcb", "esperar lista"}
  PROVE  /\ Esperando(a, b) /\ EsMensaje(a) /\ EsMensaje(b) /\ kernel # "sin pcb"
         /\ a.header = 5 /\ b.header = 2
<1>1. ~Vacio
  BY DEF Vacio, Dispatch!Recibir, Dispatch!RecibirHeader, Dispatch!RecibirSize, Dispatch!RecibirPayload
<1>2. Esperando(a, b)
  BY <1>1 DEF SocketDe, Esperando
<1>3. kernel # "sin pcb"
  BY <1>2 DEF Esperando
<1> QED BY <1>2, <1>3, MensajesSon

\* The CPU takes a header, the one it waits for.
LEMMA CpuRecibirHeaderPaso ==
  ASSUME BienEscritos, GInv, CpuRecibirHeader
  PROVE  GInv'
<1>1. /\ cpu \in {"esperar pcb", "esperar lista"} /\ Dispatch!RecibirHeader
      /\ cpu' = IF lector'.header = (IF cpu = "esperar pcb" THEN 5 ELSE 2) THEN cpu ELSE "caida"
      /\ UNCHANGED <<programa, varsConsola, consola, varsKernel, recibido, lista>>
  BY DEF CpuRecibirHeader
<1>2. kernel' = kernel /\ instructionsBuffer' = instructionsBuffer
  BY <1>1 DEF varsKernel
<1>3. PICK a, b : a = MensajePcb /\ b = MensajeLista /\ SocketDe(a, b)
  BY DEF GInv, Socket
<1>4. Dispatch!Recibir
  BY <1>1 DEF Dispatch!Recibir
<1>5. /\ Esperando(a, b) /\ EsMensaje(a) /\ EsMensaje(b) /\ kernel # "sin pcb"
      /\ a.header = 5 /\ b.header = 2
  BY <1>1, <1>3, <1>4, HayMensaje
<1>6. LectorTipo
  BY DEF GInv, Socket
<1>7. SocketDe(a, b)' /\ LectorTipo' /\ cpu' = cpu
  <2>1. CASE cpu = "esperar pcb" /\ kernel = "pcb enviado" /\ Uno(a)
    <3>1. LectorTipo' /\ lector'.header = a.header /\ Uno(a)'
      BY <1>1, <1>4, <1>5, <1>6, <2>1, RecibirUno
    <3> QED BY <1>1, <1>2, <1>5, <2>1, <3>1 DEF SocketDe
  <2>2. CASE cpu = "esperar pcb" /\ kernel = "espera respuesta" /\ Dos(a, b)
    <3>1. LectorTipo' /\ lector'.header = a.header /\ Dos(a, b)'
      BY <1>1, <1>4, <1>5, <1>6, <2>2, RecibirDos
    <3> QED BY <1>1, <1>2, <1>5, <2>2, <3>1 DEF SocketDe
  <2>3. CASE cpu = "esperar lista" /\ kernel = "espera respuesta" /\ Uno(b)
    <3>1. LectorTipo' /\ lector'.header = b.header /\ Uno(b)'
      BY <1>1, <1>4, <1>5, <1>6, <2>3, RecibirUno
    <3> QED BY <1>1, <1>2, <1>5, <2>3, <3>1 DEF SocketDe
  <2> QED BY <1>5, <2>1, <2>2, <2>3 DEF Esperando
<1>8. CpuInv'
  BY <1>1, <1>7, CpuQuieta DEF GInv
<1> QED BY <1>1, <1>2, <1>3, <1>5, <1>7, <1>8, SinLaConsola

\* The CPU takes the size or the payload, and with the last of the list begins to unpack.
LEMMA CpuRecibirBufferPaso ==
  ASSUME BienEscritos, GInv, CpuRecibirBuffer
  PROVE  GInv'
<1>1. /\ cpu \in {"esperar pcb", "esperar lista"}
      /\ Dispatch!RecibirSize \/ Dispatch!RecibirPayload
      /\ IF lector'.en # "header" THEN UNCHANGED varsCpu
         ELSE IF cpu = "esperar pcb" THEN cpu' = "esperar lista" /\ UNCHANGED <<recibido, lista>>
         ELSE cpu' = "desempaquetar" /\ recibido' = entregado'[1].payload /\ lista' = << >>
      /\ UNCHANGED <<programa, varsConsola, consola, varsKernel>>
  BY DEF CpuRecibirBuffer
<1>2. kernel' = kernel /\ instructionsBuffer' = instructionsBuffer /\ programa' = programa
  BY <1>1 DEF varsKernel
<1>3. PICK a, b : a = MensajePcb /\ b = MensajeLista /\ SocketDe(a, b)
  BY DEF GInv, Socket
<1>4. Dispatch!Recibir /\ ~Dispatch!RecibirHeader
  BY <1>1 DEF Dispatch!Recibir, Dispatch!RecibirHeader, Dispatch!RecibirSize, Dispatch!RecibirPayload
<1>5. Esperando(a, b) /\ EsMensaje(a) /\ EsMensaje(b) /\ kernel # "sin pcb"
  BY <1>1, <1>3, <1>4, HayMensaje
<1>6. LectorTipo
  BY DEF GInv, Socket
<1>7. ASSUME lector'.en # "header" PROVE cpu' = cpu /\ CpuInv'
  <2>1. cpu' = cpu /\ recibido' = recibido /\ lista' = lista
    BY <1>1, <1>7 DEF varsCpu
  <2> QED BY <1>2, <2>1, CpuQuieta DEF GInv
<1>8. ASSUME lector'.en = "header", cpu = "esperar pcb" PROVE cpu' = "esperar lista" /\ CpuInv'
  <2>1. cpu' = "esperar lista"
    BY <1>1, <1>8
  <2> QED BY <2>1 DEF CpuInv
<1>9. ASSUME lector'.en = "header", cpu = "esperar lista", entregado' = <<b>>
      PROVE  cpu' = "desempaquetar" /\ CpuInv'
  <2>1. cpu' = "desempaquetar" /\ recibido' = b.payload /\ lista' = << >>
    BY <1>1, <1>9
  <2>2. PICK s : s = Significado(programa)
    OBVIOUS
  <2>3. b.payload = Bytes(s) /\ s \in Seq(Registro)
    BY <1>3, <1>5, <2>2, MensajesSon
  <2>4. Hasta(s, 0) = << >> /\ Desde(s, 0) = s /\ 0 \in 0..Len(s)
    BY <2>3, Extremos
  <2>5. Desempaquetado(s, 0)'
    BY <2>1, <2>3, <2>4 DEF Desempaquetado
  <2> QED BY <1>2, <2>1, <2>2, <2>4, <2>5 DEF CpuInv
<1>10. SocketDe(a, b)' /\ LectorTipo' /\ CpuInv'
  <2>1. CASE cpu = "esperar pcb" /\ kernel = "pcb enviado" /\ Uno(a)
    <3>1. /\ LectorTipo'
          /\ \/ lector'.en # "header" /\ Uno(a)'
             \/ lector'.en = "header" /\ Vacio'
      BY <1>4, <1>5, <1>6, <2>1, RecibirUno
    <3> QED BY <1>2, <1>7, <1>8, <2>1, <3>1 DEF SocketDe
  <2>2. CASE cpu = "esperar pcb" /\ kernel = "espera respuesta" /\ Dos(a, b)
    <3>1. /\ LectorTipo'
          /\ \/ lector'.en # "header" /\ Dos(a, b)'
             \/ lector'.en = "header" /\ Uno(b)'
      BY <1>4, <1>5, <1>6, <2>2, RecibirDos
    <3> QED BY <1>2, <1>7, <1>8, <2>2, <3>1 DEF SocketDe
  <2>3. CASE cpu = "esperar lista" /\ kernel = "espera respuesta" /\ Uno(b)
    <3>1. /\ LectorTipo'
          /\ \/ lector'.en # "header" /\ Uno(b)'
             \/ lector'.en = "header" /\ Vacio' /\ entregado' = <<b>>
      BY <1>4, <1>5, <1>6, <2>3, RecibirUno
    <3> QED BY <1>2, <1>7, <1>9, <2>3, <3>1 DEF SocketDe
  <2> QED BY <1>5, <2>1, <2>2, <2>3 DEF Esperando
<1> QED BY <1>1, <1>2, <1>3, <1>5, <1>10, SinLaConsola

\* An iteration of instruccion_list_create_from_buffer, and the process sent again.
LEMMA CpuPaso ==
  ASSUME BienEscritos, GInv, CpuDesempaquetar \/ VolverAElegir
  PROVE  GInv'
<1>1. /\ cpu \in {"desempaquetar", "ejecutar"}
      /\ UNCHANGED <<programa, varsConsola, consola, instructionsBuffer, varsDispatch>>
  BY DEF CpuDesempaquetar, VolverAElegir, varsKernel
<1>2. /\ enViaje' = enViaje /\ llegados' = llegados /\ lector' = lector
      /\ entregado' = entregado /\ sinRecibir' = sinRecibir /\ programa' = programa
  BY <1>1 DEF varsDispatch
<1>3. PICK a, b : a = MensajePcb /\ b = MensajeLista /\ SocketDe(a, b)
  BY DEF GInv, Socket
<1>4. kernel = "espera respuesta" /\ Vacio
  BY <1>1, <1>3 DEF SocketDe
<1>5. Vacio' /\ LectorTipo'
  BY <1>2, <1>4 DEF Vacio, GInv, Socket, LectorTipo
<1>6. CASE CpuDesempaquetar
  <2>1. kernel' = kernel
    BY <1>6 DEF CpuDesempaquetar, varsKernel
  <2>2. PICK s : s = Significado(programa) /\ \E j \in 0..Len(s) : Desempaquetado(s, j)
    BY <1>1 DEF GInv, CpuInv
  <2>3. PICK j \in 0..Len(s) : Desempaquetado(s, j)
    BY <2>2
  <2>4. s \in Seq(Registro) /\ ExitUltimo(s)
    BY <1>4, <2>2, MensajesSon
  <2>5. \/ cpu' = "caida"
        \/ cpu' \in {"desempaquetar", "ejecutar"} /\ j + 1 \in 0..Len(s) /\ Desempaquetado(s, j + 1)'
    BY <1>6, <2>3, <2>4, DesempaquetarPaso
  <2>6. CpuInv'
    BY <1>2, <2>2, <2>5 DEF CpuInv
  <2>7. SocketDe(a, b)'
    BY <1>4, <1>5, <2>1, <2>5 DEF SocketDe
  <2> QED BY <1>1, <1>3, <1>4, <1>5, <2>1, <2>6, <2>7, SinLaConsola
<1>7. CASE VolverAElegir
  <2>1. cpu' = "esperar pcb" /\ kernel' = "elegido"
    BY <1>7 DEF VolverAElegir
  <2>2. SocketDe(a, b)' /\ CpuInv'
    BY <1>5, <2>1 DEF SocketDe, CpuInv
  <2> QED BY <1>1, <1>3, <1>4, <1>5, <2>1, <2>2, SinLaConsola
<1> QED BY <1>6, <1>7

\* The invariant: GInv holds in every state.
THEOREM GuionInvariante ==
  ASSUME BienEscritos, TodoJunto
  PROVE  Spec => []GInv
<1>1. Init => GInv
  BY AlEmpezar
<1>2. GInv /\ [Next]_vars => GInv'
  <2> SUFFICES ASSUME GInv, [Next]_vars PROVE GInv'
    OBVIOUS
  <2>1. CASE PasoParser
    BY <2>1, ConsolaPaso
  <2>2. CASE Enviar
    BY <2>2, EnviarPaso
  <2>3. CASE KernelEnviarPcb
    BY <2>3, KernelEnviarPcbPaso
  <2>4. CASE KernelEnviarLista
    BY <2>4, KernelEnviarListaPaso
  <2>5. CASE Llegar
    BY <2>5, LlegarPaso
  <2>6. CASE CpuRecibirHeader
    BY <2>6, CpuRecibirHeaderPaso
  <2>7. CASE CpuRecibirBuffer
    BY <2>7, CpuRecibirBufferPaso
  <2>8. CASE CpuDesempaquetar \/ VolverAElegir
    BY <2>8, CpuPaso
  <2>9. CASE UNCHANGED vars
    <3>1. UNCHANGED <<programa, varsResto>> /\ UNCHANGED <<varsConsola, consola>>
      BY <2>9 DEF vars
    <3>2. /\ programa' = programa /\ archivo' = archivo /\ instruccion' = instruccion
          /\ buffer' = buffer /\ consola' = consola /\ kernel' = kernel
          /\ instructionsBuffer' = instructionsBuffer
      BY <3>1 DEF varsConsola, varsResto, varsKernel
    <3>3. Socket' /\ CpuInv'
      BY <3>1, QuietoResto DEF GInv
    <3>4. Parser' /\ Pcb'
      BY <3>2, Quieta DEF GInv
    <3> QED BY <3>3, <3>4 DEF GInv
  <2> QED BY <2>1, <2>2, <2>3, <2>4, <2>5, <2>6, <2>7, <2>8, <2>9 DEF Next, PasoParser
<1> QED BY <1>1, <1>2, PTL DEF Spec

\* IdaYVuelta: the list the CPU runs is the script, whatever the operands kept from one line to
\* the next and wherever the bytes of the buffer fall.
THEOREM IdaYVueltaCorrecta ==
  ASSUME BienEscritos, TodoJunto
  PROVE  Spec => []IdaYVuelta
<1>1. GInv => IdaYVuelta
  <2> SUFFICES ASSUME GInv, cpu = "ejecutar" PROVE lista = Significado(programa)
    BY DEF IdaYVuelta
  <2>1. PICK s : s = Significado(programa) /\ \E j \in 0..Len(s) : Desempaquetado(s, j)
    BY DEF GInv, CpuInv
  <2>2. PICK j \in 0..Len(s) : Desempaquetado(s, j)
    BY <2>1
  <2>3. PICK a, b : SocketDe(a, b)
    BY DEF GInv, Socket
  <2>4. kernel # "sin pcb"
    BY <2>3 DEF SocketDe
  <2>5. s \in Seq(Registro)
    BY <2>1, <2>4, MensajesSon
  <2>6. lista = Hasta(s, Len(s)) /\ Hasta(s, Len(s)) = s
    BY <2>2, <2>5, Extremos DEF Desempaquetado
  <2> QED BY <2>1, <2>6
<1> QED BY <1>1, GuionInvariante, PTL

-----------------------------------------------------------------------------
(* The socket gives the CPU what the Kernel sends.                         *)

\* A message is sent: it is the last of those pending.
LEMMA EnviarEsCola ==
  ASSUME NEW m, Dispatch!Enviar(m), sinRecibir = << >> \/ \E a : sinRecibir = <<a>>
  PROVE  Dispatch!Cola!Enviar
<1>1. sinRecibir' = Append(sinRecibir, m) /\ entregado' = entregado
  BY DEF Dispatch!Enviar
<1>2. sinRecibir' # << >> /\ Last(sinRecibir') = m
  <2>1. CASE sinRecibir = << >>
    <3>1. sinRecibir' = <<m>>
      BY <1>1, <2>1
    <3> QED BY <3>1 DEF Last
  <2>2. CASE \E a : sinRecibir = <<a>>
    <3>1. PICK a : sinRecibir = <<a>>
      BY <2>2
    <3>2. sinRecibir' = <<a, m>>
      BY <1>1, <3>1, Dobla
    <3> QED BY <3>2 DEF Last
  <2> QED BY <2>1, <2>2
<1> QED BY <1>1, <1>2 DEF Dispatch!Cola!Enviar, Dispatch!Cola!Last, Last

\* Until the last byte of a message is taken nothing is delivered.
LEMMA RecibirParte ==
  ASSUME LectorTipo, Dispatch!Recibir, Dispatch!RecibirHeader \/ lector'.en # "header"
  PROVE  UNCHANGED <<entregado, sinRecibir>>
<1>1. CASE Dispatch!RecibirHeader
  BY <1>1 DEF Dispatch!RecibirHeader
<1>2. CASE lector'.en # "header" /\ Dispatch!RecibirSize
  BY <1>2 DEF Dispatch!RecibirSize, Dispatch!Tomado, LectorTipo
<1>3. CASE lector'.en # "header" /\ Dispatch!RecibirPayload
  BY <1>3 DEF Dispatch!RecibirPayload, Dispatch!Tomado, LectorTipo
<1> QED BY <1>1, <1>2, <1>3 DEF Dispatch!Recibir

\* Lists of one and of two.
LEMMA Colas ==
  ASSUME NEW a, NEW b
  PROVE  /\ <<a>> # << >> /\ Head(<<a>>) = a /\ Tail(<<a>>) = << >>
         /\ <<a, b>> # << >> /\ Head(<<a, b>>) = a /\ Tail(<<a, b>>) = <<b>>
<1>1. Head(<<a>>) = a /\ Head(<<a, b>>) = a
  OBVIOUS
<1>2. Tail(<<a>>) = << >>
  OBVIOUS
<1>3. Tail(<<a, b>>) = <<b>>
  OBVIOUS
<1>4. <<a>> # << >> /\ <<a, b>> # << >>
  OBVIOUS
<1> QED BY <1>1, <1>2, <1>3, <1>4

\* The CPU receives: part of the first message, or all that was left of it.
LEMMA RecibirEsCola ==
  ASSUME BienEscritos, GInv, Dispatch!Recibir, cpu \in {"esperar pcb", "esperar lista"}
  PROVE  Dispatch!Cola!Recibir \/ UNCHANGED <<entregado, sinRecibir>>
<1>1. PICK a, b : a = MensajePcb /\ b = MensajeLista /\ SocketDe(a, b)
  BY DEF GInv, Socket
<1>2. Esperando(a, b) /\ EsMensaje(a) /\ EsMensaje(b)
  BY <1>1, HayMensaje
<1>3. LectorTipo
  BY DEF GInv, Socket
<1>4. CASE Dispatch!RecibirHeader \/ lector'.en # "header"
  BY <1>3, <1>4, RecibirParte
<1>5. CASE ~Dispatch!RecibirHeader /\ lector'.en = "header"
  <2>1. ASSUME NEW m, Uno(m), EsMensaje(m) PROVE Dispatch!Cola!Recibir
    <3>1. Vacio' /\ entregado' = <<m>> /\ sinRecibir = <<m>>
      BY <1>3, <1>5, <2>1, RecibirUno DEF Uno
    <3>2. sinRecibir' = << >> /\ sinRecibir # << >> /\ Head(sinRecibir) = m /\ Tail(sinRecibir) = << >>
      <4>1. sinRecibir' = << >>
        BY <3>1 DEF Vacio
      <4> QED BY <3>1, <4>1, Colas
    <3> QED BY <3>1, <3>2 DEF Dispatch!Cola!Recibir
  <2>2. ASSUME Dos(a, b) PROVE Dispatch!Cola!Recibir
    <3>1. Uno(b)' /\ entregado' = <<a>> /\ sinRecibir = <<a, b>>
      BY <1>2, <1>3, <1>5, <2>2, RecibirDos DEF Dos
    <3>2. sinRecibir' = <<b>> /\ sinRecibir # << >> /\ Head(sinRecibir) = a /\ Tail(sinRecibir) = <<b>>
      <4>1. sinRecibir' = <<b>>
        BY <3>1 DEF Uno
      <4> QED BY <3>1, <4>1, Colas
    <3> QED BY <3>1, <3>2 DEF Dispatch!Cola!Recibir
  <2> QED BY <1>2, <2>1, <2>2 DEF Esperando
<1> QED BY <1>4, <1>5

\* RecibeLoEnviado: the CPU takes each PCB and each list whole, once and in the order in which
\* the Kernel sent them, whatever their lengths: the socket implements ColaDeMensajes.
THEOREM RecibeLoEnviadoCorrecto ==
  ASSUME BienEscritos, TodoJunto
  PROVE  Spec => RecibeLoEnviado
<1>1. Init => Dispatch!Cola!Init
  BY DEF Init, Dispatch!Init, Dispatch!Cola!Init
<1>2. GInv /\ [Next]_vars => [Dispatch!Cola!Next]_(Dispatch!Cola!vars)
  <2> SUFFICES ASSUME GInv, [Next]_vars
               PROVE  Dispatch!Cola!Enviar \/ Dispatch!Cola!Recibir \/ UNCHANGED <<entregado, sinRecibir>>
    BY DEF Dispatch!Cola!Next, Dispatch!Cola!vars
  <2>1. CASE PasoParser \/ Enviar
    <3>1. UNCHANGED varsDispatch
      BY <2>1 DEF PasoParser, LeerNoOp, LeerUnOperando, LeerDosOperandos, LeerExit, LeerOtra,
                  Leer, varsResto, Enviar
    <3> QED BY <3>1 DEF varsDispatch
  <2>2. CASE KernelEnviarPcb \/ KernelEnviarLista
    <3>1. PICK m : Dispatch!Enviar(m)
      BY <2>2 DEF KernelEnviarPcb, KernelEnviarLista
    <3>2. kernel \in {"elegido", "pcb enviado"}
      BY <2>2 DEF KernelEnviarPcb, KernelEnviarLista
    <3>3. sinRecibir = << >> \/ \E a : sinRecibir = <<a>>
      BY <3>2 DEF GInv, Socket, SocketDe, Vacio, Uno
    <3> QED BY <3>1, <3>3, EnviarEsCola
  <2>3. CASE Llegar
    BY <2>3 DEF Llegar, Dispatch!Llegar
  <2>4. CASE CpuRecibirHeader \/ CpuRecibirBuffer
    <3>1. cpu \in {"esperar pcb", "esperar lista"} /\ Dispatch!Recibir
      BY <2>4 DEF CpuRecibirHeader, CpuRecibirBuffer, Dispatch!Recibir
    <3> QED BY <3>1, RecibirEsCola
  <2>5. CASE CpuDesempaquetar \/ VolverAElegir
    BY <2>5 DEF CpuDesempaquetar, VolverAElegir, varsDispatch
  <2>6. CASE UNCHANGED vars
    BY <2>6 DEF vars, varsResto, varsDispatch
  <2> QED BY <2>1, <2>2, <2>3, <2>4, <2>5, <2>6 DEF Next, PasoParser
<1>3. Spec => []GInv
  BY GuionInvariante
<1> QED BY <1>1, <1>2, <1>3, PTL
        DEF Spec, RecibeLoEnviado, Dispatch!RecibeLoEnviado, Dispatch!Cola!Spec
=============================================================================
