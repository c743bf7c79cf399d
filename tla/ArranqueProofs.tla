---------------------------- MODULE ArranqueProofs ----------------------------
(***************************************************************************)
(* What Arranque promises, proved: Memory has one thread for each role     *)
(* whatever is killed, and while nothing goes down but the whole machine a *)
(* main that gives up leaves nobody connected to it and a Kernel that      *)
(* takes consoles finds the others started.                                *)
(***************************************************************************)
EXTENDS Arranque, SequenceTheorems, FiniteSetTheorems, WellFoundedInduction, TLAPS

-----------------------------------------------------------------------------
(* The steps of the three mains.                                           *)

\* What a step does, and on what.
Que == {"abrir", "conectar", "enviar", "esperar", "aceptar", "leer", "responder"}
Tramo == [que : Que, sobre : Puerto \union Handshake]

\* A step is a step.
LEMMA TipoP ==
  ASSUME NEW q \in Que, NEW h \in Puerto \union Handshake
  PROVE  P(q, h) \in Tramo
  BY DEF P, Tramo

\* The three steps of a client: connect, send the handshake, wait for the answer.
LEMMA PasosDeCliente ==
  ASSUME NEW h \in Handshake, NEW s, s = Cliente(h)
  PROVE  /\ s \in Seq(Tramo) /\ Len(s) = 3
         /\ s[1] = P("conectar", h) /\ s[2] = P("enviar", h) /\ s[3] = P("esperar", h)
<1>1. P("conectar", h) \in Tramo /\ P("enviar", h) \in Tramo /\ P("esperar", h) \in Tramo
  BY TipoP DEF Que
<1>2. s = <<P("conectar", h), P("enviar", h), P("esperar", h)>>
  BY DEF Cliente
<1> QED BY <1>1, <1>2

\* The three steps of a server: accept, read the handshake, answer.
LEMMA PasosDeServidor ==
  ASSUME NEW p \in Puerto, NEW s, s = Servidor(p)
  PROVE  /\ s \in Seq(Tramo) /\ Len(s) = 3
         /\ s[1] = P("aceptar", p) /\ s[2] = P("leer", p) /\ s[3] = P("responder", p)
<1>1. P("aceptar", p) \in Tramo /\ P("leer", p) \in Tramo /\ P("responder", p) \in Tramo
  BY TipoP DEF Que
<1>2. s = <<P("aceptar", p), P("leer", p), P("responder", p)>>
  BY DEF Servidor
<1> QED BY <1>1, <1>2

\* Some steps, and then others.
LEMMA PegarPasos ==
  ASSUME NEW a \in Seq(Tramo), NEW b \in Seq(Tramo)
  PROVE  /\ a \o b \in Seq(Tramo) /\ Len(a \o b) = Len(a) + Len(b)
         /\ \A k \in 1..(Len(a) + Len(b)) : (a \o b)[k] = IF k <= Len(a) THEN a[k] ELSE b[k - Len(a)]
  BY ConcatProperties

\* The eleven steps of the main of the CPU.
LEMMA PasosDeCpu ==
  ASSUME NEW s, s = PasosCpu
  PROVE
  /\ Len(s) = 11
  /\ s[1] = P("conectar", "cpu") /\ s[2] = P("enviar", "cpu") /\ s[3] = P("esperar", "cpu")
  /\ s[4] = P("abrir", "dispatch") /\ s[5] = P("abrir", "interrupt")
  /\ s[6] = P("aceptar", "dispatch") /\ s[7] = P("leer", "dispatch") /\ s[8] = P("responder", "dispatch")
  /\ s[9] = P("aceptar", "interrupt") /\ s[10] = P("leer", "interrupt") /\ s[11] = P("responder", "interrupt")
<1>1. PICK c : c = Cliente("cpu")
  OBVIOUS
<1>2. PICK a : a = <<P("abrir", "dispatch"), P("abrir", "interrupt")>>
  OBVIOUS
<1>3. PICK d : d = Servidor("dispatch")
  OBVIOUS
<1>4. PICK i : i = Servidor("interrupt")
  OBVIOUS
<1>5. PICK u : u = c \o a
  OBVIOUS
<1>6. PICK v : v = u \o d
  OBVIOUS
<1>7. s = v \o i
  BY <1>1, <1>2, <1>3, <1>4, <1>5, <1>6 DEF PasosCpu
<1>a. a \in Seq(Tramo) /\ Len(a) = 2 /\ a[1] = P("abrir", "dispatch") /\ a[2] = P("abrir", "interrupt")
  <2>1. P("abrir", "dispatch") \in Tramo /\ P("abrir", "interrupt") \in Tramo
    BY TipoP DEF Que, Puerto
  <2> QED BY <1>2, <2>1
<1>c. /\ c \in Seq(Tramo) /\ Len(c) = 3
      /\ c[1] = P("conectar", "cpu") /\ c[2] = P("enviar", "cpu") /\ c[3] = P("esperar", "cpu")
  BY <1>1, PasosDeCliente DEF Handshake
<1>d. /\ d \in Seq(Tramo) /\ Len(d) = 3
      /\ d[1] = P("aceptar", "dispatch") /\ d[2] = P("leer", "dispatch") /\ d[3] = P("responder", "dispatch")
  BY <1>3, PasosDeServidor DEF Puerto
<1>i. /\ i \in Seq(Tramo) /\ Len(i) = 3
      /\ i[1] = P("aceptar", "interrupt") /\ i[2] = P("leer", "interrupt") /\ i[3] = P("responder", "interrupt")
  BY <1>4, PasosDeServidor DEF Puerto
<1>u. u \in Seq(Tramo) /\ Len(u) = 5 /\ \A k \in 1..5 : u[k] = IF k <= 3 THEN c[k] ELSE a[k - 3]
  <2>1. /\ c \o a \in Seq(Tramo) /\ Len(c \o a) = Len(c) + Len(a)
        /\ \A k \in 1..(Len(c) + Len(a)) : (c \o a)[k] = IF k <= Len(c) THEN c[k] ELSE a[k - Len(c)]
    BY <1>a, <1>c, PegarPasos
  <2> QED BY <1>a, <1>c, <1>5, <2>1
<1>v. v \in Seq(Tramo) /\ Len(v) = 8 /\ \A k \in 1..8 : v[k] = IF k <= 5 THEN u[k] ELSE d[k - 5]
  <2>1. /\ u \o d \in Seq(Tramo) /\ Len(u \o d) = Len(u) + Len(d)
        /\ \A k \in 1..(Len(u) + Len(d)) : (u \o d)[k] = IF k <= Len(u) THEN u[k] ELSE d[k - Len(u)]
    BY <1>u, <1>d, PegarPasos
  <2>2. Len(u) = 5 /\ Len(d) = 3
    BY <1>u, <1>d
  <2>3. /\ v \in Seq(Tramo) /\ Len(v) = Len(u) + Len(d)
        /\ \A k \in 1..(Len(u) + Len(d)) : v[k] = IF k <= Len(u) THEN u[k] ELSE d[k - Len(u)]
    BY <1>6, <2>1
  <2> QED BY <2>2, <2>3
<1>w. Len(s) = 11 /\ \A k \in 1..11 : s[k] = IF k <= 8 THEN v[k] ELSE i[k - 8]
  <2>1. /\ v \o i \in Seq(Tramo) /\ Len(v \o i) = Len(v) + Len(i)
        /\ \A k \in 1..(Len(v) + Len(i)) : (v \o i)[k] = IF k <= Len(v) THEN v[k] ELSE i[k - Len(v)]
    BY <1>v, <1>i, PegarPasos
  <2>2. Len(s) = Len(v) + Len(i) /\ \A k \in 1..(Len(v) + Len(i)) : s[k] = IF k <= Len(v) THEN v[k] ELSE i[k - Len(v)]
    BY <1>7, <2>1
  <2>3. Len(v) + Len(i) = 11 /\ Len(v) = 8
    BY <1>v, <1>i
  <2> QED BY <2>2, <2>3
<1>x. u[1] = c[1] /\ u[2] = c[2] /\ u[3] = c[3] /\ u[4] = a[1] /\ u[5] = a[2]
  BY <1>u
<1>y. /\ v[1] = u[1] /\ v[2] = u[2] /\ v[3] = u[3] /\ v[4] = u[4] /\ v[5] = u[5]
      /\ v[6] = d[1] /\ v[7] = d[2] /\ v[8] = d[3]
  BY <1>v
<1>z. /\ s[1] = v[1] /\ s[2] = v[2] /\ s[3] = v[3] /\ s[4] = v[4] /\ s[5] = v[5]
      /\ s[6] = v[6] /\ s[7] = v[7] /\ s[8] = v[8]
      /\ s[9] = i[1] /\ s[10] = i[2] /\ s[11] = i[3]
  BY <1>w
<1> QED BY <1>a, <1>c, <1>d, <1>i, <1>w, <1>x, <1>y, <1>z

\* The ten steps of the main of the Kernel.
LEMMA PasosDeKernel ==
  ASSUME NEW s, s = PasosKernel
  PROVE
  /\ Len(s) = 10
  /\ s[1] = P("conectar", "dispatch") /\ s[2] = P("enviar", "dispatch") /\ s[3] = P("esperar", "dispatch")
  /\ s[4] = P("conectar", "interrupt") /\ s[5] = P("enviar", "interrupt") /\ s[6] = P("esperar", "interrupt")
  /\ s[7] = P("conectar", "kernel") /\ s[8] = P("enviar", "kernel") /\ s[9] = P("esperar", "kernel")
  /\ s[10] = P("abrir", "escucha")
<1>1. PICK c : c = Cliente("dispatch")
  OBVIOUS
<1>2. PICK a : a = Cliente("interrupt")
  OBVIOUS
<1>3. PICK d : d = Cliente("kernel")
  OBVIOUS
<1>4. PICK i : i = <<P("abrir", "escucha")>>
  OBVIOUS
<1>5. PICK u : u = c \o a
  OBVIOUS
<1>6. PICK v : v = u \o d
  OBVIOUS
<1>7. s = v \o i
  BY <1>1, <1>2, <1>3, <1>4, <1>5, <1>6 DEF PasosKernel
<1>i. i \in Seq(Tramo) /\ Len(i) = 1 /\ i[1] = P("abrir", "escucha")
  <2>1. P("abrir", "escucha") \in Tramo
    BY TipoP DEF Que, Puerto
  <2> QED BY <1>4, <2>1
<1>c. /\ c \in Seq(Tramo) /\ Len(c) = 3
      /\ c[1] = P("conectar", "dispatch") /\ c[2] = P("enviar", "dispatch") /\ c[3] = P("esperar", "dispatch")
  BY <1>1, PasosDeCliente DEF Handshake
<1>a. /\ a \in Seq(Tramo) /\ Len(a) = 3
      /\ a[1] = P("conectar", "interrupt") /\ a[2] = P("enviar", "interrupt") /\ a[3] = P("esperar", "interrupt")
  BY <1>2, PasosDeCliente DEF Handshake
<1>d. /\ d \in Seq(Tramo) /\ Len(d) = 3
      /\ d[1] = P("conectar", "kernel") /\ d[2] = P("enviar", "kernel") /\ d[3] = P("esperar", "kernel")
  BY <1>3, PasosDeCliente DEF Handshake
<1>u. u \in Seq(Tramo) /\ Len(u) = 6 /\ \A k \in 1..6 : u[k] = IF k <= 3 THEN c[k] ELSE a[k - 3]
  <2>1. /\ c \o a \in Seq(Tramo) /\ Len(c \o a) = Len(c) + Len(a)
        /\ \A k \in 1..(Len(c) + Len(a)) : (c \o a)[k] = IF k <= Len(c) THEN c[k] ELSE a[k - Len(c)]
    BY <1>a, <1>c, PegarPasos
  <2> QED BY <1>a, <1>c, <1>5, <2>1
<1>v. v \in Seq(Tramo) /\ Len(v) = 9 /\ \A k \in 1..9 : v[k] = IF k <= 6 THEN u[k] ELSE d[k - 6]
  <2>1. /\ u \o d \in Seq(Tramo) /\ Len(u \o d) = Len(u) + Len(d)
        /\ \A k \in 1..(Len(u) + Len(d)) : (u \o d)[k] = IF k <= Len(u) THEN u[k] ELSE d[k - Len(u)]
    BY <1>u, <1>d, PegarPasos
  <2>2. Len(u) = 6 /\ Len(d) = 3
    BY <1>u, <1>d
  <2>3. /\ v \in Seq(Tramo) /\ Len(v) = Len(u) + Len(d)
        /\ \A k \in 1..(Len(u) + Len(d)) : v[k] = IF k <= Len(u) THEN u[k] ELSE d[k - Len(u)]
    BY <1>6, <2>1
  <2> QED BY <2>2, <2>3
<1>w. Len(s) = 10 /\ \A k \in 1..10 : s[k] = IF k <= 9 THEN v[k] ELSE i[k - 9]
  <2>1. /\ v \o i \in Seq(Tramo) /\ Len(v \o i) = Len(v) + Len(i)
        /\ \A k \in 1..(Len(v) + Len(i)) : (v \o i)[k] = IF k <= Len(v) THEN v[k] ELSE i[k - Len(v)]
    BY <1>v, <1>i, PegarPasos
  <2> QED BY <1>v, <1>i, <1>7, <2>1
<1> QED BY <1>a, <1>c, <1>d, <1>i, <1>u, <1>v, <1>w

\* The seven steps of the main of Memory.
LEMMA PasosDeMemoria ==
  ASSUME NEW s, s = PasosMemoria
  PROVE
  /\ Len(s) = 7
  /\ s[1] = P("abrir", "memoria")
  /\ s[2] = P("aceptar", "memoria") /\ s[3] = P("leer", "memoria") /\ s[4] = P("responder", "memoria")
  /\ s[5] = P("aceptar", "memoria") /\ s[6] = P("leer", "memoria") /\ s[7] = P("responder", "memoria")
<1>1. PICK i : i = <<P("abrir", "memoria")>>
  OBVIOUS
<1>2. PICK c : c = Servidor("memoria")
  OBVIOUS
<1>3. PICK u : u = i \o c
  OBVIOUS
<1>4. s = u \o c
  BY <1>1, <1>2, <1>3 DEF PasosMemoria
<1>i. i \in Seq(Tramo) /\ Len(i) = 1 /\ i[1] = P("abrir", "memoria")
  <2>1. P("abrir", "memoria") \in Tramo
    BY TipoP DEF Que, Puerto
  <2> QED BY <1>1, <2>1
<1>c. /\ c \in Seq(Tramo) /\ Len(c) = 3
      /\ c[1] = P("aceptar", "memoria") /\ c[2] = P("leer", "memoria") /\ c[3] = P("responder", "memoria")
  BY <1>2, PasosDeServidor DEF Puerto
<1>u. u \in Seq(Tramo) /\ Len(u) = 4 /\ \A k \in 1..4 : u[k] = IF k <= 1 THEN i[k] ELSE c[k - 1]
  <2>1. /\ i \o c \in Seq(Tramo) /\ Len(i \o c) = Len(i) + Len(c)
        /\ \A k \in 1..(Len(i) + Len(c)) : (i \o c)[k] = IF k <= Len(i) THEN i[k] ELSE c[k - Len(i)]
    BY <1>i, <1>c, PegarPasos
  <2> QED BY <1>i, <1>c, <1>3, <2>1
<1>w. Len(s) = 7 /\ \A k \in 1..7 : s[k] = IF k <= 4 THEN u[k] ELSE c[k - 4]
  <2>1. /\ u \o c \in Seq(Tramo) /\ Len(u \o c) = Len(u) + Len(c)
        /\ \A k \in 1..(Len(u) + Len(c)) : (u \o c)[k] = IF k <= Len(u) THEN u[k] ELSE c[k - Len(u)]
    BY <1>u, <1>c, PegarPasos
  <2> QED BY <1>u, <1>c, <1>4, <2>1
<1> QED BY <1>i, <1>c, <1>u, <1>w

\* A step is known by what it does and what on.
LEMMA IgualP ==
  ASSUME NEW a, NEW b, NEW c, NEW d, P(a, b) = P(c, d)
  PROVE  a = c /\ b = d
  BY DEF P

\* At which step of which main each call stands.
LEMMA TocaMemoria ==
  ASSUME en["memoria"] \in Nat, NEW q, NEW x, Toca("memoria", q, x)
  PROVE  \/ en["memoria"] = 1 /\ q = "abrir" /\ x = "memoria"
         \/ en["memoria"] = 2 /\ q = "aceptar" /\ x = "memoria"
         \/ en["memoria"] = 3 /\ q = "leer" /\ x = "memoria"
         \/ en["memoria"] = 4 /\ q = "responder" /\ x = "memoria"
         \/ en["memoria"] = 5 /\ q = "aceptar" /\ x = "memoria"
         \/ en["memoria"] = 6 /\ q = "leer" /\ x = "memoria"
         \/ en["memoria"] = 7 /\ q = "responder" /\ x = "memoria"
<1>1. PICK s : s = PasosMemoria
  OBVIOUS
<1>2. Pasos("memoria") = s
  BY <1>1 DEF Pasos
<1>3. en["memoria"] \in 1..Len(s) /\ s[en["memoria"]] = P(q, x)
  BY <1>2 DEF Toca, Atiende
<1>4. PICK k : k = en["memoria"]
  OBVIOUS
<1>5. k \in 1..7 /\ s[k] = P(q, x)
  BY <1>1, <1>3, <1>4, PasosDeMemoria
<1>6. k \in {1, 2, 3, 4, 5, 6, 7}
  BY <1>5
<1> QED BY <1>1, <1>4, <1>5, <1>6, PasosDeMemoria, IgualP

\* The same of the CPU.
LEMMA TocaCpu ==
  ASSUME en["cpu"] \in Nat, NEW q, NEW x, Toca("cpu", q, x)
  PROVE  \/ en["cpu"] = 1 /\ q = "conectar" /\ x = "cpu"
         \/ en["cpu"] = 2 /\ q = "enviar" /\ x = "cpu"
         \/ en["cpu"] = 3 /\ q = "esperar" /\ x = "cpu"
         \/ en["cpu"] = 4 /\ q = "abrir" /\ x = "dispatch"
         \/ en["cpu"] = 5 /\ q = "abrir" /\ x = "interrupt"
         \/ en["cpu"] = 6 /\ q = "aceptar" /\ x = "dispatch"
         \/ en["cpu"] = 7 /\ q = "leer" /\ x = "dispatch"
         \/ en["cpu"] = 8 /\ q = "responder" /\ x = "dispatch"
         \/ en["cpu"] = 9 /\ q = "aceptar" /\ x = "interrupt"
         \/ en["cpu"] = 10 /\ q = "leer" /\ x = "interrupt"
         \/ en["cpu"] = 11 /\ q = "responder" /\ x = "interrupt"
<1>1. PICK s : s = PasosCpu
  OBVIOUS
<1>2. Pasos("cpu") = s
  BY <1>1 DEF Pasos
<1>3. en["cpu"] \in 1..Len(s) /\ s[en["cpu"]] = P(q, x)
  BY <1>2 DEF Toca, Atiende
<1>4. PICK k : k = en["cpu"]
  OBVIOUS
<1>5. k \in 1..11 /\ s[k] = P(q, x)
  BY <1>1, <1>3, <1>4, PasosDeCpu
<1>6. k \in {1, 2, 3, 4, 5, 6, 7, 8, 9, 10, 11}
  BY <1>5
<1> QED BY <1>1, <1>4, <1>5, <1>6, PasosDeCpu, IgualP

\* The same of the Kernel.
LEMMA TocaKernel ==
  ASSUME en["kernel"] \in Nat, NEW q, NEW x, Toca("kernel", q, x)
  PROVE  \/ en["kernel"] = 1 /\ q = "conectar" /\ x = "dispatch"
         \/ en["kernel"] = 2 /\ q = "enviar" /\ x = "dispatch"
         \/ en["kernel"] = 3 /\ q = "esperar" /\ x = "dispatch"
         \/ en["kernel"] = 4 /\ q = "conectar" /\ x = "interrupt"
         \/ en["kernel"] = 5 /\ q = "enviar" /\ x = "interrupt"
         \/ en["kernel"] = 6 /\ q = "esperar" /\ x = "interrupt"
         \/ en["kernel"] = 7 /\ q = "conectar" /\ x = "kernel"
         \/ en["kernel"] = 8 /\ q = "enviar" /\ x = "kernel"
         \/ en["kernel"] = 9 /\ q = "esperar" /\ x = "kernel"
         \/ en["kernel"] = 10 /\ q = "abrir" /\ x = "escucha"
<1>1. PICK s : s = PasosKernel
  OBVIOUS
<1>2. Pasos("kernel") = s
  BY <1>1 DEF Pasos
<1>3. en["kernel"] \in 1..Len(s) /\ s[en["kernel"]] = P(q, x)
  BY <1>2 DEF Toca, Atiende
<1>4. PICK k : k = en["kernel"]
  OBVIOUS
<1>5. k \in 1..10 /\ s[k] = P(q, x)
  BY <1>1, <1>3, <1>4, PasosDeKernel
<1>6. k \in {1, 2, 3, 4, 5, 6, 7, 8, 9, 10}
  BY <1>5
<1> QED BY <1>1, <1>4, <1>5, <1>6, PasosDeKernel, IgualP

\* When a main is done with its start.
LEMMA Atienden ==
  ASSUME \A m \in Modulo : en[m] \in Nat
  PROVE  /\ Atiende("memoria") <=> en["memoria"] > 7
         /\ Atiende("cpu") <=> en["cpu"] > 11
         /\ Atiende("kernel") <=> en["kernel"] > 10
<1>1. Len(Pasos("memoria")) = 7
  <2>1. PICK s : s = PasosMemoria
    OBVIOUS
  <2>2. Pasos("memoria") = s
    BY <2>1 DEF Pasos
  <2> QED BY <2>1, <2>2, PasosDeMemoria
<1>2. Len(Pasos("cpu")) = 11
  <2>1. PICK s : s = PasosCpu
    OBVIOUS
  <2>2. Pasos("cpu") = s
    BY <2>1 DEF Pasos
  <2> QED BY <2>1, <2>2, PasosDeCpu
<1>3. Len(Pasos("kernel")) = 10
  <2>1. PICK s : s = PasosKernel
    OBVIOUS
  <2>2. Pasos("kernel") = s
    BY <2>1 DEF Pasos
  <2> QED BY <2>1, <2>2, PasosDeKernel
<1> QED BY <1>1, <1>2, <1>3 DEF Atiende

-----------------------------------------------------------------------------
(* The state, and what becomes of a connection that is changed.            *)

\* What a server may take a client for.
Rol == Header \union {"ninguno"}
Conexion == [handshake : Handshake, cliente : BOOLEAN, servidor : BOOLEAN, enviado : BOOLEAN,
             aceptada : BOOLEAN, rol : Rol, respondida : BOOLEAN]

\* Every variable is of its kind: a main is at one of its steps, or not running.
TypeOK ==
  /\ en \in [Modulo -> 0..12] /\ en["memoria"] <= 8 /\ en["kernel"] <= 11
  /\ abiertos \subseteq Puerto
  /\ con \in Seq(Conexion)
  /\ socket \in [Handshake -> 0..Len(con)]
  /\ aceptada \in [Modulo -> 0..Len(con)]
  /\ sinAtender \subseteq {"cpu", "kernel"}
  /\ muertes \in Seq(SUBSET Modulo)

\* The fields of a connection.
LEMMA Campos ==
  ASSUME NEW c \in Conexion
  PROVE  /\ c.handshake \in Handshake /\ c.rol \in Rol
         /\ c.cliente \in BOOLEAN /\ c.servidor \in BOOLEAN /\ c.enviado \in BOOLEAN
         /\ c.aceptada \in BOOLEAN /\ c.respondida \in BOOLEAN
  BY DEF Conexion

\* What one connection becomes when it is changed.
LEMMA AlCerrar ==
  ASSUME NEW c \in Conexion, NEW x \in BOOLEAN, NEW y \in BOOLEAN, NEW d,
         d = [c EXCEPT !.cliente = @ /\ x, !.servidor = @ /\ y]
  PROVE  /\ d \in Conexion
         /\ d.handshake = c.handshake /\ d.rol = c.rol /\ d.enviado = c.enviado
         /\ d.aceptada = c.aceptada /\ d.respondida = c.respondida
         /\ d.cliente <=> c.cliente /\ x
         /\ d.servidor <=> c.servidor /\ y
  BY DEF Conexion

\* The same when the handshake is sent.
LEMMA AlEnviar ==
  ASSUME NEW c \in Conexion, NEW x \in BOOLEAN, NEW d, d = [c EXCEPT !.enviado = @ \/ x]
  PROVE  /\ d \in Conexion
         /\ d.handshake = c.handshake /\ d.rol = c.rol /\ d.cliente = c.cliente
         /\ d.servidor = c.servidor /\ d.aceptada = c.aceptada /\ d.respondida = c.respondida
         /\ d.enviado <=> c.enviado \/ x
  BY DEF Conexion

\* The same when it is accepted.
LEMMA AlAceptar ==
  ASSUME NEW c \in Conexion, NEW d, d = [c EXCEPT !.aceptada = TRUE]
  PROVE  /\ d \in Conexion /\ d.aceptada
         /\ d.handshake = c.handshake /\ d.rol = c.rol /\ d.cliente = c.cliente
         /\ d.servidor = c.servidor /\ d.enviado = c.enviado /\ d.respondida = c.respondida
  BY DEF Conexion

\* The same when its role is read.
LEMMA AlLeer ==
  ASSUME NEW c \in Conexion, NEW h \in Rol, NEW d, d = [c EXCEPT !.rol = h]
  PROVE  /\ d \in Conexion /\ d.rol = h
         /\ d.handshake = c.handshake /\ d.aceptada = c.aceptada /\ d.cliente = c.cliente
         /\ d.servidor = c.servidor /\ d.enviado = c.enviado /\ d.respondida = c.respondida
  BY DEF Conexion

\* The same when it is answered.
LEMMA AlResponder ==
  ASSUME NEW c \in Conexion, NEW d, d = [c EXCEPT !.respondida = TRUE]
  PROVE  /\ d \in Conexion /\ d.respondida
         /\ d.handshake = c.handshake /\ d.aceptada = c.aceptada /\ d.cliente = c.cliente
         /\ d.servidor = c.servidor /\ d.enviado = c.enviado /\ d.rol = c.rol
  BY DEF Conexion

\* A new one.
LEMMA AlConectar ==
  ASSUME NEW h \in Handshake, NEW d, d = ConexionNueva(h)
  PROVE  /\ d \in Conexion
         /\ d.handshake = h /\ d.cliente /\ d.servidor /\ ~d.enviado /\ ~d.aceptada /\ ~d.respondida
  BY DEF ConexionNueva, Conexion, Rol

\* A list in which one item is changed.
LEMMA AlCambiar ==
  ASSUME NEW S, NEW s \in Seq(S), NEW k \in 1..Len(s), NEW x \in S, NEW t, t = [s EXCEPT ![k] = x]
  PROVE  /\ t \in Seq(S) /\ Len(t) = Len(s) /\ t[k] = x
         /\ \A i \in 1..Len(s) : i # k => t[i] = s[i]
  OBVIOUS

\* A function from the places of a list is a list of the same length.
LEMMA AlRehacer ==
  ASSUME NEW S, NEW n \in Nat, NEW t \in [1..n -> S]
  PROVE  t \in Seq(S) /\ Len(t) = n
  OBVIOUS

-----------------------------------------------------------------------------
(* What the steps do to the connections.                                   *)

\* Which modules and which ports there are.
LEMMA Nombres ==
  /\ \A h \in Handshake : ClienteDe(h) \in Modulo /\ PuertoDe(h) \in Puerto
  /\ \A p \in Puerto : ServidorDe(p) \in Modulo
  /\ PuertoDe("cpu") = "memoria" /\ PuertoDe("kernel") = "memoria"
  /\ PuertoDe("dispatch") = "dispatch" /\ PuertoDe("interrupt") = "interrupt"
  /\ ClienteDe("cpu") = "cpu" /\ ClienteDe("kernel") = "kernel"
  /\ ClienteDe("dispatch") = "kernel" /\ ClienteDe("interrupt") = "kernel"
  /\ ServidorDe("memoria") = "memoria" /\ ServidorDe("escucha") = "kernel"
  /\ ServidorDe("dispatch") = "cpu" /\ ServidorDe("interrupt") = "cpu"
<1>1. \A p \in Puerto : ServidorDe(p) \in Modulo
  BY DEF Puerto, Modulo, ServidorDe
<1>2. /\ ServidorDe("memoria") = "memoria" /\ ServidorDe("escucha") = "kernel"
      /\ ServidorDe("dispatch") = "cpu" /\ ServidorDe("interrupt") = "cpu"
  BY DEF ServidorDe
<1>3. \A h \in Handshake : ClienteDe(h) \in Modulo /\ PuertoDe(h) \in Puerto
  BY DEF Puerto, Modulo, Handshake, ClienteDe, PuertoDe
<1>4. /\ PuertoDe("cpu") = "memoria" /\ PuertoDe("kernel") = "memoria"
      /\ PuertoDe("dispatch") = "dispatch" /\ PuertoDe("interrupt") = "interrupt"
      /\ ClienteDe("cpu") = "cpu" /\ ClienteDe("kernel") = "kernel"
      /\ ClienteDe("dispatch") = "kernel" /\ ClienteDe("interrupt") = "kernel"
  BY DEF ClienteDe, PuertoDe
<1> QED BY <1>1, <1>2, <1>3, <1>4

\* What a step leaves of the connection at place i.
Intacta(i) ==
  /\ con'[i].handshake = con[i].handshake /\ con'[i].rol = con[i].rol
  /\ con'[i].cliente = con[i].cliente /\ con'[i].servidor = con[i].servidor
  /\ con'[i].enviado = con[i].enviado /\ con'[i].aceptada = con[i].aceptada
  /\ con'[i].respondida = con[i].respondida

\* What the steps of the sockets do to each connection.
LEMMA ConTerminan ==
  ASSUME TypeOK, NEW ms \in SUBSET Modulo, Terminan(ms)
  PROVE  /\ con' \in Seq(Conexion) /\ Len(con') = Len(con)
         /\ \A i \in 1..Len(con) :
              /\ con'[i].handshake = con[i].handshake /\ con'[i].rol = con[i].rol
              /\ con'[i].enviado = con[i].enviado /\ con'[i].aceptada = con[i].aceptada
              /\ con'[i].respondida = con[i].respondida
              /\ con'[i].cliente <=> con[i].cliente /\ ClienteDe(con[i].handshake) \notin ms
              /\ con'[i].servidor <=> con[i].servidor /\ ServidorDe(PuertoDe(con[i].handshake)) \notin ms
<1>1. con \in Seq(Conexion) /\ DOMAIN con = 1..Len(con) /\ Len(con) \in Nat
  BY DEF TypeOK
<1>2. /\ DOMAIN con' = 1..Len(con)
      /\ con' = [i \in 1..Len(con) |-> con'[i]]
      /\ \A i \in 1..Len(con) :
           con'[i] = [con[i] EXCEPT !.cliente = @ /\ ClienteDe(con[i].handshake) \notin ms,
                                    !.servidor = @ /\ ServidorDe(PuertoDe(con[i].handshake)) \notin ms]
  BY <1>1 DEF Terminan
<1>3. ASSUME NEW i \in 1..Len(con)
      PROVE  /\ con'[i] \in Conexion
             /\ con'[i].handshake = con[i].handshake /\ con'[i].rol = con[i].rol
             /\ con'[i].enviado = con[i].enviado /\ con'[i].aceptada = con[i].aceptada
             /\ con'[i].respondida = con[i].respondida
             /\ con'[i].cliente <=> con[i].cliente /\ ClienteDe(con[i].handshake) \notin ms
             /\ con'[i].servidor <=> con[i].servidor /\ ServidorDe(PuertoDe(con[i].handshake)) \notin ms
  <2>1. PICK c \in Conexion : c = con[i]
    BY <1>1
  <2>2. PICK x \in BOOLEAN : x = (ClienteDe(c.handshake) \notin ms)
    OBVIOUS
  <2>3. PICK y \in BOOLEAN : y = (ServidorDe(PuertoDe(c.handshake)) \notin ms)
    OBVIOUS
  <2>4. PICK d : d = con'[i]
    OBVIOUS
  <2>5. d = [c EXCEPT !.cliente = @ /\ x, !.servidor = @ /\ y]
    BY <1>2, <2>1, <2>2, <2>3, <2>4
  <2>6. /\ d \in Conexion
        /\ d.handshake = c.handshake /\ d.rol = c.rol /\ d.enviado = c.enviado
        /\ d.aceptada = c.aceptada /\ d.respondida = c.respondida
        /\ d.cliente <=> c.cliente /\ x
        /\ d.servidor <=> c.servidor /\ y
    BY <2>5 DEF Conexion
  <2> QED BY <2>1, <2>2, <2>3, <2>4, <2>6
<1>4. con' \in [1..Len(con) -> Conexion]
  BY <1>2, <1>3
<1>5. con' \in Seq(Conexion) /\ Len(con') = Len(con)
  BY <1>1, <1>4, AlRehacer
<1> QED BY <1>3, <1>5

\* The client of connection k sends its handshake.
SeEnvia(k) == con' = [i \in DOMAIN con |-> [con[i] EXCEPT !.enviado = @ \/ i = k]]

\* send marks the connection, and changes nothing else of it.
LEMMA ConEnviar ==
  ASSUME TypeOK, NEW k \in 0..Len(con),
         SeEnvia(k)
  PROVE  /\ con' \in Seq(Conexion) /\ Len(con') = Len(con)
         /\ \A i \in 1..Len(con) :
              /\ con'[i].handshake = con[i].handshake /\ con'[i].rol = con[i].rol
              /\ con'[i].cliente = con[i].cliente /\ con'[i].servidor = con[i].servidor
              /\ con'[i].aceptada = con[i].aceptada /\ con'[i].respondida = con[i].respondida
              /\ con'[i].enviado <=> con[i].enviado \/ i = k
<1>1. con \in Seq(Conexion) /\ DOMAIN con = 1..Len(con) /\ Len(con) \in Nat
  BY DEF TypeOK
<1>2. /\ con' = [i \in 1..Len(con) |-> con'[i]]
      /\ \A i \in 1..Len(con) : con'[i] = [con[i] EXCEPT !.enviado = @ \/ i = k]
  BY <1>1 DEF SeEnvia
<1>3. ASSUME NEW i \in 1..Len(con)
      PROVE  /\ con'[i] \in Conexion
             /\ con'[i].handshake = con[i].handshake /\ con'[i].rol = con[i].rol
             /\ con'[i].cliente = con[i].cliente /\ con'[i].servidor = con[i].servidor
             /\ con'[i].aceptada = con[i].aceptada /\ con'[i].respondida = con[i].respondida
             /\ con'[i].enviado <=> con[i].enviado \/ i = k
  <2>1. con[i] \in Conexion /\ con'[i] = [con[i] EXCEPT !.enviado = @ \/ i = k]
    BY <1>1, <1>2
  <2> QED BY <2>1 DEF Conexion
<1>4. con' \in [1..Len(con) -> Conexion]
  BY <1>2, <1>3
<1>5. con' \in Seq(Conexion) /\ Len(con') = Len(con)
  BY <1>1, <1>4, AlRehacer
<1> QED BY <1>3, <1>5

\* connect adds a connection, of which nothing was done.
LEMMA ConConectar ==
  ASSUME TypeOK, NEW h \in Handshake, con' = Append(con, ConexionNueva(h))
  PROVE  /\ con' \in Seq(Conexion) /\ Len(con') = Len(con) + 1
         /\ \A i \in 1..Len(con) : Intacta(i)
         /\ con'[Len(con')].handshake = h
         /\ con'[Len(con')].cliente /\ con'[Len(con')].servidor
         /\ ~con'[Len(con')].enviado /\ ~con'[Len(con')].aceptada /\ ~con'[Len(con')].respondida
<1>1. con \in Seq(Conexion) /\ Len(con) \in Nat
  BY DEF TypeOK
<1>2. PICK d : d = ConexionNueva(h)
  OBVIOUS
<1>3. d \in Conexion /\ d.handshake = h /\ d.cliente /\ d.servidor /\ ~d.enviado /\ ~d.aceptada /\ ~d.respondida
  BY <1>2, AlConectar
<1>4. /\ con' \in Seq(Conexion) /\ Len(con') = Len(con) + 1
      /\ \A i \in 1..Len(con) : con'[i] = con[i]
      /\ con'[Len(con) + 1] = d
  BY <1>1, <1>2, <1>3, AppendProperties
<1> QED BY <1>3, <1>4 DEF Intacta

\* accept marks the connection, and changes nothing else of it.
LEMMA ConAceptar ==
  ASSUME TypeOK, NEW k \in 1..Len(con), con' = [con EXCEPT ![k].aceptada = TRUE]
  PROVE  /\ con' \in Seq(Conexion) /\ Len(con') = Len(con)
         /\ \A i \in 1..Len(con) : i # k => Intacta(i)
         /\ con'[k].aceptada
         /\ con'[k].handshake = con[k].handshake /\ con'[k].rol = con[k].rol
         /\ con'[k].cliente = con[k].cliente /\ con'[k].servidor = con[k].servidor
         /\ con'[k].enviado = con[k].enviado /\ con'[k].respondida = con[k].respondida
<1>1. con \in Seq(Conexion) /\ con[k] \in Conexion
  BY DEF TypeOK
<1>2. PICK d : d = [con[k] EXCEPT !.aceptada = TRUE]
  OBVIOUS
<1>3. /\ d \in Conexion /\ d.aceptada
      /\ d.handshake = con[k].handshake /\ d.rol = con[k].rol /\ d.cliente = con[k].cliente
      /\ d.servidor = con[k].servidor /\ d.enviado = con[k].enviado /\ d.respondida = con[k].respondida
  BY <1>1, <1>2, AlAceptar
<1>4. con' = [con EXCEPT ![k] = d]
  BY <1>1, <1>2
<1>5. con' \in Seq(Conexion) /\ Len(con') = Len(con) /\ con'[k] = d /\ \A i \in 1..Len(con) : i # k => con'[i] = con[i]
  <2>1. PICK s, t : s = con /\ t = con'
    OBVIOUS
  <2>2. s \in Seq(Conexion) /\ k \in 1..Len(s) /\ t = [s EXCEPT ![k] = d]
    BY <1>1, <1>4, <2>1
  <2>3. t \in Seq(Conexion) /\ Len(t) = Len(s) /\ t[k] = d /\ \A i \in 1..Len(s) : i # k => t[i] = s[i]
    BY <1>3, <2>2, AlCambiar
  <2> QED BY <2>1, <2>3
<1> QED BY <1>3, <1>5 DEF Intacta

\* Reading the handshake says what role the client has, and no more.
LEMMA ConLeer ==
  ASSUME TypeOK, NEW k \in 1..Len(con), NEW h \in Rol, con' = [con EXCEPT ![k].rol = h]
  PROVE  /\ con' \in Seq(Conexion) /\ Len(con') = Len(con)
         /\ \A i \in 1..Len(con) : i # k => Intacta(i)
         /\ con'[k].rol = h
         /\ con'[k].handshake = con[k].handshake /\ con'[k].aceptada = con[k].aceptada
         /\ con'[k].cliente = con[k].cliente /\ con'[k].servidor = con[k].servidor
         /\ con'[k].enviado = con[k].enviado /\ con'[k].respondida = con[k].respondida
<1>1. con \in Seq(Conexion) /\ con[k] \in Conexion
  BY DEF TypeOK
<1>2. PICK d : d = [con[k] EXCEPT !.rol = h]
  OBVIOUS
<1>3. /\ d \in Conexion /\ d.rol = h
      /\ d.handshake = con[k].handshake /\ d.aceptada = con[k].aceptada /\ d.cliente = con[k].cliente
      /\ d.servidor = con[k].servidor /\ d.enviado = con[k].enviado /\ d.respondida = con[k].respondida
  BY <1>1, <1>2, AlLeer
<1>4. con' = [con EXCEPT ![k] = d]
  BY <1>1, <1>2
<1>5. con' \in Seq(Conexion) /\ Len(con') = Len(con) /\ con'[k] = d /\ \A i \in 1..Len(con) : i # k => con'[i] = con[i]
  <2>1. PICK s, t : s = con /\ t = con'
    OBVIOUS
  <2>2. s \in Seq(Conexion) /\ k \in 1..Len(s) /\ t = [s EXCEPT ![k] = d]
    BY <1>1, <1>4, <2>1
  <2>3. t \in Seq(Conexion) /\ Len(t) = Len(s) /\ t[k] = d /\ \A i \in 1..Len(s) : i # k => t[i] = s[i]
    BY <1>3, <2>2, AlCambiar
  <2> QED BY <2>1, <2>3
<1> QED BY <1>3, <1>5 DEF Intacta

\* The answer marks the connection, and changes nothing else of it.
LEMMA ConResponder ==
  ASSUME TypeOK, NEW k \in 1..Len(con), con' = [con EXCEPT ![k].respondida = TRUE]
  PROVE  /\ con' \in Seq(Conexion) /\ Len(con') = Len(con)
         /\ \A i \in 1..Len(con) : i # k => Intacta(i)
         /\ con'[k].respondida
         /\ con'[k].handshake = con[k].handshake /\ con'[k].rol = con[k].rol
         /\ con'[k].cliente = con[k].cliente /\ con'[k].servidor = con[k].servidor
         /\ con'[k].enviado = con[k].enviado /\ con'[k].aceptada = con[k].aceptada
<1>1. con \in Seq(Conexion) /\ con[k] \in Conexion
  BY DEF TypeOK
<1>2. PICK d : d = [con[k] EXCEPT !.respondida = TRUE]
  OBVIOUS
<1>3. /\ d \in Conexion /\ d.respondida
      /\ d.handshake = con[k].handshake /\ d.aceptada = con[k].aceptada /\ d.cliente = con[k].cliente
      /\ d.servidor = con[k].servidor /\ d.enviado = con[k].enviado /\ d.rol = con[k].rol
  BY <1>1, <1>2, AlResponder
<1>4. con' = [con EXCEPT ![k] = d]
  BY <1>1, <1>2
<1>5. con' \in Seq(Conexion) /\ Len(con') = Len(con) /\ con'[k] = d /\ \A i \in 1..Len(con) : i # k => con'[i] = con[i]
  <2>1. PICK s, t : s = con /\ t = con'
    OBVIOUS
  <2>2. s \in Seq(Conexion) /\ k \in 1..Len(s) /\ t = [s EXCEPT ![k] = d]
    BY <1>1, <1>4, <2>1
  <2>3. t \in Seq(Conexion) /\ Len(t) = Len(s) /\ t[k] = d /\ \A i \in 1..Len(s) : i # k => t[i] = s[i]
    BY <1>3, <2>2, AlCambiar
  <2> QED BY <2>1, <2>3
<1> QED BY <1>3, <1>5 DEF Intacta

-----------------------------------------------------------------------------
(* The invariant that needs no assumption.                                 *)

\* What a main that runs holds open: a port, or its end of a connection.
Cerradas ==
  /\ \A p \in abiertos : en[ServidorDe(p)] > 0
  /\ \A i \in DOMAIN con : con[i].servidor => en[ServidorDe(PuertoDe(con[i].handshake))] > 0
  /\ \A i \in DOMAIN con : con[i].respondida => con[i].aceptada

\* A main that reads or answers has a connection of that port in its hands, which nobody else
\* accepts and which was not answered; Memory answers a role it was waiting for.
Tomada(i, p) ==
  /\ i # 0 /\ PuertoDe(con[i].handshake) = p
  /\ con[i].servidor /\ con[i].aceptada /\ ~con[i].respondida
EnMano ==
  /\ en["memoria"] \in {3, 4, 6, 7} => Tomada(aceptada["memoria"], "memoria")
  /\ en["memoria"] \in {4, 7} => con[aceptada["memoria"]].rol \in sinAtender
  /\ en["cpu"] \in {7, 8} => Tomada(aceptada["cpu"], "dispatch")
  /\ en["cpu"] \in {10, 11} => Tomada(aceptada["cpu"], "interrupt")

\* The threads of Memory: one for each role that it is not waiting for.
Hilo(i) == con[i].respondida /\ con[i].servidor /\ PuertoDe(con[i].handshake) = "memoria"
Hilos ==
  /\ \A i \in DOMAIN con : Hilo(i) => con[i].rol \in {"cpu", "kernel"} \ sinAtender
  /\ UnHiloPorRol

IInv == TypeOK /\ Cerradas /\ EnMano /\ Hilos

\* A main that goes on is one step further; the others stay where they are.
LEMMA Avanza ==
  ASSUME TypeOK, NEW m \in Modulo, Seguir(m)
  PROVE  en'[m] = en[m] + 1 /\ \A n \in Modulo : n # m => en'[n] = en[n]
  BY DEF TypeOK, Seguir

\* Nobody goes beyond its last step.
LEMMA TipoEn ==
  ASSUME TypeOK, NEW m \in Modulo, Seguir(m), m = "memoria" => en[m] <= 7,
         m = "cpu" => en[m] <= 11, m = "kernel" => en[m] <= 10
  PROVE  en' \in [Modulo -> 0..12] /\ en'["memoria"] <= 8 /\ en'["kernel"] <= 11
<1>1. /\ en \in [Modulo -> 0..12] /\ en["memoria"] <= 8 /\ en["kernel"] <= 11
      /\ "memoria" \in Modulo /\ "kernel" \in Modulo
  BY DEF TypeOK, Modulo
<1>2. en[m] + 1 \in 0..12
  <2>1. en[m] \in 0..12
    BY <1>1
  <2>2. m = "memoria" \/ m = "cpu" \/ m = "kernel"
    BY DEF Modulo
  <2>3. en[m] <= 11
    BY <1>1, <2>1, <2>2
  <2> QED BY <2>1, <2>3
<1>3. en' \in [Modulo -> 0..12]
  BY <1>1, <1>2 DEF Seguir
<1>4. en'["memoria"] <= 8 /\ en'["kernel"] <= 11
  <2>1. /\ en'[m] = en[m] + 1
        /\ \A n \in Modulo : n # m => en'[n] = en[n]
    BY Avanza
  <2>2. m = "memoria" => en'["memoria"] <= 8
    BY <1>1, <2>1
  <2>3. m = "kernel" => en'["kernel"] <= 11
    BY <1>1, <2>1
  <2> QED BY <1>1, <2>1, <2>2, <2>3
<1> QED BY <1>3, <1>4

\* What the type of the state says, as the proofs use it.
LEMMA Rangos ==
  ASSUME TypeOK
  PROVE  /\ en["memoria"] \in 0..8 /\ en["cpu"] \in 0..12 /\ en["kernel"] \in 0..11
         /\ \A m \in Modulo : en[m] \in Nat
         /\ Len(con) \in Nat /\ DOMAIN con = 1..Len(con)
         /\ \A i \in 1..Len(con) : con[i] \in Conexion
<1>0. \A m \in Modulo : en[m] \in 0..12
  BY DEF TypeOK
<1>1. en["memoria"] \in 0..8 /\ en["cpu"] \in 0..12 /\ en["kernel"] \in 0..11
  <2>1. en["memoria"] \in 0..12 /\ en["cpu"] \in 0..12 /\ en["kernel"] \in 0..12
    BY <1>0 DEF Modulo
  <2>2. en["memoria"] <= 8 /\ en["kernel"] <= 11
    BY DEF TypeOK
  <2> QED BY <2>1, <2>2
<1>2. \A m \in Modulo : en[m] \in Nat
  BY <1>0
<1>3. /\ Len(con) \in Nat /\ DOMAIN con = 1..Len(con)
      /\ \A i \in 1..Len(con) : con[i] \in Conexion
  BY DEF TypeOK
<1> QED BY <1>1, <1>2, <1>3

\* The steps of a main that are taken by each kind of call.
LEMMA TocaAbrir ==
  ASSUME TypeOK, NEW m \in Modulo, NEW p \in Puerto, Toca(m, "abrir", p)
  PROVE  /\ en[m] > 0 /\ ServidorDe(p) = m
         /\ \/ m = "memoria" /\ en[m] = 1 /\ p = "memoria"
            \/ m = "cpu" /\ en[m] = 4 /\ p = "dispatch"
            \/ m = "cpu" /\ en[m] = 5 /\ p = "interrupt"
            \/ m = "kernel" /\ en[m] = 10 /\ p = "escucha"
<1>1. CASE m = "memoria"
  BY <1>1, Rangos, TocaMemoria, Nombres
<1>2. CASE m = "cpu"
  BY <1>2, Rangos, TocaCpu, Nombres
<1>3. CASE m = "kernel"
  BY <1>3, Rangos, TocaKernel, Nombres
<1> QED BY <1>1, <1>2, <1>3 DEF Modulo

\* The same for what clients do.
LEMMA TocaCliente ==
  ASSUME TypeOK, NEW m \in Modulo, NEW h \in Handshake, NEW q \in {"conectar", "enviar", "esperar"},
         Toca(m, q, h)
  PROVE  /\ en[m] > 0 /\ ClienteDe(h) = m
         /\ \/ m = "cpu" /\ h = "cpu" /\ en[m] = 1 /\ q = "conectar"
            \/ m = "cpu" /\ h = "cpu" /\ en[m] = 2 /\ q = "enviar"
            \/ m = "cpu" /\ h = "cpu" /\ en[m] = 3 /\ q = "esperar"
            \/ m = "kernel" /\ h = "dispatch" /\ en[m] = 1 /\ q = "conectar"
            \/ m = "kernel" /\ h = "dispatch" /\ en[m] = 2 /\ q = "enviar"
            \/ m = "kernel" /\ h = "dispatch" /\ en[m] = 3 /\ q = "esperar"
            \/ m = "kernel" /\ h = "interrupt" /\ en[m] = 4 /\ q = "conectar"
            \/ m = "kernel" /\ h = "interrupt" /\ en[m] = 5 /\ q = "enviar"
            \/ m = "kernel" /\ h = "interrupt" /\ en[m] = 6 /\ q = "esperar"
            \/ m = "kernel" /\ h = "kernel" /\ en[m] = 7 /\ q = "conectar"
            \/ m = "kernel" /\ h = "kernel" /\ en[m] = 8 /\ q = "enviar"
            \/ m = "kernel" /\ h = "kernel" /\ en[m] = 9 /\ q = "esperar"
<1>1. CASE m = "memoria"
  BY <1>1, Rangos, TocaMemoria, Nombres
<1>2. CASE m = "cpu"
  BY <1>2, Rangos, TocaCpu, Nombres
<1>3. CASE m = "kernel"
  BY <1>3, Rangos, TocaKernel, Nombres
<1> QED BY <1>1, <1>2, <1>3 DEF Modulo

\* The same for what servers do.
LEMMA TocaServidor ==
  ASSUME TypeOK, NEW m \in Modulo, NEW p \in Puerto, NEW q \in {"aceptar", "leer", "responder"},
         Toca(m, q, p)
  PROVE  /\ en[m] > 0 /\ ServidorDe(p) = m
         /\ \/ m = "memoria" /\ p = "memoria" /\ en[m] \in {2, 5} /\ q = "aceptar"
            \/ m = "memoria" /\ p = "memoria" /\ en[m] \in {3, 6} /\ q = "leer"
            \/ m = "memoria" /\ p = "memoria" /\ en[m] \in {4, 7} /\ q = "responder"
            \/ m = "cpu" /\ p = "dispatch" /\ en[m] = 6 /\ q = "aceptar"
            \/ m = "cpu" /\ p = "dispatch" /\ en[m] = 7 /\ q = "leer"
            \/ m = "cpu" /\ p = "dispatch" /\ en[m] = 8 /\ q = "responder"
            \/ m = "cpu" /\ p = "interrupt" /\ en[m] = 9 /\ q = "aceptar"
            \/ m = "cpu" /\ p = "interrupt" /\ en[m] = 10 /\ q = "leer"
            \/ m = "cpu" /\ p = "interrupt" /\ en[m] = 11 /\ q = "responder"
<1>1. CASE m = "memoria"
  BY <1>1, Rangos, TocaMemoria, Nombres
<1>2. CASE m = "cpu"
  BY <1>2, Rangos, TocaCpu, Nombres
<1>3. CASE m = "kernel"
  BY <1>3, Rangos, TocaKernel, Nombres
<1> QED BY <1>1, <1>2, <1>3 DEF Modulo

-----------------------------------------------------------------------------
(* It is kept by each step.                                                *)

\* A step that answers nobody and takes nobody: the connections keep what they were, but for
\* what the client has sent, and a new one was not answered.
LEMMA Sigue ==
  ASSUME IInv, TypeOK', NEW m \in Modulo, Seguir(m), en[m] > 0,
         m = "memoria" => en[m] = 1, m = "cpu" => en[m] \in 1..5,
         aceptada' = aceptada, sinAtender' = sinAtender,
         \A p \in abiertos' : p \in abiertos \/ ServidorDe(p) = m,
         Len(con') >= Len(con),
         \A i \in 1..Len(con) :
           /\ con'[i].handshake = con[i].handshake /\ con'[i].rol = con[i].rol
           /\ con'[i].servidor = con[i].servidor
           /\ con'[i].aceptada = con[i].aceptada /\ con'[i].respondida = con[i].respondida,
         \A i \in (Len(con) + 1)..Len(con') :
           ~con'[i].respondida /\ en[ServidorDe(PuertoDe(con'[i].handshake))] > 0
  PROVE  IInv'
<1>1. /\ Len(con) \in Nat /\ DOMAIN con = 1..Len(con)
      /\ Len(con') \in Nat /\ DOMAIN con' = 1..Len(con')
  BY DEF IInv, TypeOK
<1>2. en'[m] = en[m] + 1 /\ \A n \in Modulo : n # m => en'[n] = en[n]
  BY Avanza DEF IInv
<1>3. \A n \in Modulo : en[n] > 0 => en'[n] > 0
  BY <1>2, Rangos DEF IInv
<1>4. ASSUME NEW i \in DOMAIN con' PROVE i \in 1..Len(con) \/ i \in (Len(con) + 1)..Len(con')
  BY <1>1
<1>5. Cerradas'
  <2>1. ASSUME NEW p \in abiertos' PROVE en'[ServidorDe(p)] > 0
    <3>1. p \in Puerto /\ ServidorDe(p) \in Modulo
      BY Nombres DEF TypeOK
    <3> QED BY <1>2, <1>3, <3>1, Rangos DEF IInv, Cerradas
  <2>2. ASSUME NEW i \in DOMAIN con', con'[i].servidor
        PROVE  en'[ServidorDe(PuertoDe(con'[i].handshake))] > 0
    <3>1. ServidorDe(PuertoDe(con'[i].handshake)) \in Modulo
      <4>1. con'[i] \in Conexion
        BY <1>1 DEF TypeOK
      <4> QED BY <4>1, Campos, Nombres
    <3>2. CASE i \in 1..Len(con)
      BY <1>1, <1>3, <2>2, <3>1, <3>2 DEF IInv, Cerradas
    <3>3. CASE i \in (Len(con) + 1)..Len(con')
      BY <1>3, <3>1, <3>3
    <3> QED BY <1>4, <3>2, <3>3
  <2>3. ASSUME NEW i \in DOMAIN con', con'[i].respondida PROVE con'[i].aceptada
    BY <1>1, <1>4, <2>3 DEF IInv, Cerradas
  <2> QED BY <2>1, <2>2, <2>3 DEF Cerradas
<1>6. EnMano'
  <2>1. \A n \in {"memoria", "cpu"} : aceptada[n] \in 0..Len(con)
    BY DEF IInv, TypeOK, Modulo
  <2>2. ASSUME NEW i \in 0..Len(con), NEW p, Tomada(i, p)
        PROVE  /\ i # 0 /\ PuertoDe(con'[i].handshake) = p
               /\ con'[i].servidor /\ con'[i].aceptada /\ ~con'[i].respondida
               /\ con'[i].rol = con[i].rol
    <3>1. i \in 1..Len(con)
      BY <1>1, <2>2 DEF Tomada
    <3> QED BY <2>2, <3>1 DEF Tomada
  <2>3. en'["memoria"] \in {3, 4, 6, 7} => en'["memoria"] = en["memoria"]
    BY <1>2 DEF Modulo
  <2>4. en'["cpu"] \in {7, 8, 10, 11} => en'["cpu"] = en["cpu"]
    BY <1>2 DEF Modulo
  <2>5. en'["memoria"] \in {3, 4, 6, 7} => Tomada(aceptada["memoria"], "memoria")'
    BY <2>1, <2>2, <2>3 DEF IInv, EnMano, Tomada
  <2>6. en'["memoria"] \in {4, 7} => con'[aceptada'["memoria"]].rol \in sinAtender'
    BY <2>1, <2>2, <2>3 DEF IInv, EnMano
  <2>7. en'["cpu"] \in {7, 8} => Tomada(aceptada["cpu"], "dispatch")'
    BY <2>1, <2>2, <2>4 DEF IInv, EnMano, Tomada
  <2>8. en'["cpu"] \in {10, 11} => Tomada(aceptada["cpu"], "interrupt")'
    BY <2>1, <2>2, <2>4 DEF IInv, EnMano, Tomada
  <2> QED BY <2>5, <2>6, <2>7, <2>8 DEF EnMano
<1>7. Hilos'
  <2>1. ASSUME NEW i \in DOMAIN con', Hilo(i)'
        PROVE  i \in DOMAIN con /\ Hilo(i) /\ con'[i].rol = con[i].rol
    BY <1>1, <1>4, <2>1 DEF Hilo
  <2>2. \A i \in DOMAIN con' : Hilo(i)' => con'[i].rol \in {"cpu", "kernel"} \ sinAtender'
    BY <2>1 DEF IInv, Hilos
  <2>3. UnHiloPorRol'
    <3>1. ASSUME NEW i \in DOMAIN con', NEW j \in DOMAIN con', i # j, Hilo(i)', Hilo(j)'
          PROVE  con'[i].rol # con'[j].rol
      <4>1. i \in DOMAIN con /\ Hilo(i) /\ con'[i].rol = con[i].rol
        BY <2>1, <3>1
      <4>2. j \in DOMAIN con /\ Hilo(j) /\ con'[j].rol = con[j].rol
        BY <2>1, <3>1
      <4> QED BY <3>1, <4>1, <4>2 DEF IInv, Hilos, UnHiloPorRol, Hilo
    <3> QED BY <3>1 DEF UnHiloPorRol, Hilo
  <2> QED BY <2>2, <2>3 DEF Hilos
<1> QED BY <1>5, <1>6, <1>7 DEF IInv

\* The modules that end close what they held.
LEMMA SeCierra ==
  ASSUME IInv, NEW ms \in SUBSET Modulo, Terminan(ms), muertes' \in Seq(SUBSET Modulo)
  PROVE  IInv'
<1>1. /\ con' \in Seq(Conexion) /\ Len(con') = Len(con)
         /\ \A i \in 1..Len(con) :
              /\ con'[i].handshake = con[i].handshake /\ con'[i].rol = con[i].rol
              /\ con'[i].enviado = con[i].enviado /\ con'[i].aceptada = con[i].aceptada
              /\ con'[i].respondida = con[i].respondida
              /\ con'[i].cliente <=> con[i].cliente /\ ClienteDe(con[i].handshake) \notin ms
              /\ con'[i].servidor <=> con[i].servidor /\ ServidorDe(PuertoDe(con[i].handshake)) \notin ms
  BY ConTerminan DEF IInv
<1>2. /\ DOMAIN con = 1..Len(con) /\ DOMAIN con' = 1..Len(con) /\ Len(con) \in Nat
      /\ \A i \in 1..Len(con) : con[i] \in Conexion
  BY <1>1 DEF IInv, TypeOK
<1>3. /\ \A m \in Modulo : en'[m] = IF m \in ms THEN 0 ELSE en[m]
      /\ abiertos' = {p \in abiertos : ServidorDe(p) \notin ms}
      /\ socket' = socket /\ aceptada' = aceptada /\ sinAtender' = sinAtender
      /\ en' = [m \in Modulo |-> IF m \in ms THEN 0 ELSE en[m]]
  BY DEF Terminan
<1>4. TypeOK'
  <2>1. en' \in [Modulo -> 0..12] /\ en'["memoria"] <= 8 /\ en'["kernel"] <= 11
    BY <1>3 DEF IInv, TypeOK, Modulo
  <2> QED BY <1>1, <1>3, <2>1 DEF IInv, TypeOK
<1>5. Cerradas'
  <2>1. ASSUME NEW p \in abiertos' PROVE en'[ServidorDe(p)] > 0
    <3>1. p \in Puerto /\ p \in abiertos /\ ServidorDe(p) \in Modulo
      BY <1>3, Nombres DEF IInv, TypeOK
    <3> QED BY <1>3, <3>1 DEF IInv, Cerradas
  <2>2. ASSUME NEW i \in DOMAIN con', con'[i].servidor
        PROVE  en'[ServidorDe(PuertoDe(con'[i].handshake))] > 0
    <3>1. i \in 1..Len(con) /\ con[i].servidor /\ ServidorDe(PuertoDe(con[i].handshake)) \notin ms
      BY <1>1, <1>2, <2>2
    <3>2. ServidorDe(PuertoDe(con[i].handshake)) \in Modulo
      BY <1>2, <3>1, Campos, Nombres
    <3> QED BY <1>1, <1>2, <1>3, <3>1, <3>2 DEF IInv, Cerradas
  <2>3. ASSUME NEW i \in DOMAIN con', con'[i].respondida PROVE con'[i].aceptada
    BY <1>1, <1>2, <2>3 DEF IInv, Cerradas
  <2> QED BY <2>1, <2>2, <2>3 DEF Cerradas
<1>6. EnMano'
  <2>1. \A n \in {"memoria", "cpu"} : aceptada[n] \in 0..Len(con)
    BY DEF IInv, TypeOK, Modulo
  <2>2. ASSUME NEW i \in 0..Len(con), NEW p, Tomada(i, p), ServidorDe(p) \notin ms
        PROVE  /\ i # 0 /\ PuertoDe(con'[i].handshake) = p
               /\ con'[i].servidor /\ con'[i].aceptada /\ ~con'[i].respondida
               /\ con'[i].rol = con[i].rol
    <3>1. i \in 1..Len(con)
      BY <1>2, <2>2 DEF Tomada
    <3> QED BY <1>1, <2>2, <3>1 DEF Tomada
  <2>3. en'["memoria"] # 0 => en'["memoria"] = en["memoria"] /\ "memoria" \notin ms
    BY <1>3 DEF Modulo
  <2>4. en'["cpu"] # 0 => en'["cpu"] = en["cpu"] /\ "cpu" \notin ms
    BY <1>3 DEF Modulo
  <2>5. en'["memoria"] \in {3, 4, 6, 7} => Tomada(aceptada["memoria"], "memoria")'
    <3> SUFFICES ASSUME en'["memoria"] \in {3, 4, 6, 7} PROVE Tomada(aceptada["memoria"], "memoria")'
      OBVIOUS
    <3>1. en["memoria"] \in {3, 4, 6, 7} /\ "memoria" \notin ms
      BY <2>3
    <3>2. PICK i : i = aceptada["memoria"]
      OBVIOUS
    <3>3. i \in 0..Len(con) /\ Tomada(i, "memoria")
      BY <2>1, <3>1, <3>2 DEF IInv, EnMano
    <3>4. /\ i # 0 /\ PuertoDe(con'[i].handshake) = "memoria"
          /\ con'[i].servidor /\ con'[i].aceptada /\ ~con'[i].respondida
      BY <2>2, <3>1, <3>3, Nombres
    <3> QED BY <1>3, <3>2, <3>4 DEF Tomada
  <2>6. en'["memoria"] \in {4, 7} => con'[aceptada'["memoria"]].rol \in sinAtender'
    <3> SUFFICES ASSUME en'["memoria"] \in {4, 7}
                 PROVE  con'[aceptada["memoria"]].rol \in sinAtender
      BY <1>3
    <3>1. en["memoria"] \in {4, 7} /\ "memoria" \notin ms
      BY <2>3
    <3>2. PICK i : i = aceptada["memoria"]
      OBVIOUS
    <3>3. i \in 0..Len(con) /\ Tomada(i, "memoria") /\ con[i].rol \in sinAtender
      BY <2>1, <3>1, <3>2 DEF IInv, EnMano
    <3>4. con'[i].rol = con[i].rol
      BY <2>2, <3>1, <3>3, Nombres
    <3> QED BY <3>2, <3>3, <3>4
  <2>7. en'["cpu"] \in {7, 8} => Tomada(aceptada["cpu"], "dispatch")'
    BY <1>3, <2>1, <2>2, <2>4, Nombres DEF IInv, EnMano, Tomada
  <2>8. en'["cpu"] \in {10, 11} => Tomada(aceptada["cpu"], "interrupt")'
    BY <1>3, <2>1, <2>2, <2>4, Nombres DEF IInv, EnMano, Tomada
  <2> QED BY <2>5, <2>6, <2>7, <2>8 DEF EnMano
<1>7. Hilos'
  <2>1. ASSUME NEW i \in DOMAIN con', Hilo(i)'
        PROVE  i \in DOMAIN con /\ Hilo(i) /\ con'[i].rol = con[i].rol
    BY <1>1, <1>2, <2>1 DEF Hilo
  <2>2. \A i \in DOMAIN con' : Hilo(i)' => con'[i].rol \in {"cpu", "kernel"} \ sinAtender'
    BY <1>3, <2>1 DEF IInv, Hilos
  <2>3. UnHiloPorRol'
    <3>1. ASSUME NEW i \in DOMAIN con', NEW j \in DOMAIN con', i # j, Hilo(i)', Hilo(j)'
          PROVE  con'[i].rol # con'[j].rol
      <4>1. i \in DOMAIN con /\ Hilo(i) /\ con'[i].rol = con[i].rol
        BY <2>1, <3>1
      <4>2. j \in DOMAIN con /\ Hilo(j) /\ con'[j].rol = con[j].rol
        BY <2>1, <3>1
      <4> QED BY <3>1, <4>1, <4>2 DEF IInv, Hilos, UnHiloPorRol, Hilo
    <3> QED BY <3>1 DEF UnHiloPorRol, Hilo
  <2> QED BY <2>2, <2>3 DEF Hilos
<1> QED BY <1>4, <1>5, <1>6, <1>7 DEF IInv

\* A main that is launched.
LEMMA AlLanzar ==
  ASSUME IInv, NEW m \in Modulo, Lanzar(m)
  PROVE  IInv'
<1>1. en[m] = 0 /\ en'[m] = 1 /\ \A n \in Modulo : n # m => en'[n] = en[n]
  BY Avanza DEF IInv, Lanzar
<1>2. UNCHANGED <<abiertos, con, socket, aceptada, muertes>>
      /\ sinAtender' = IF m = "memoria" THEN {"cpu", "kernel"} ELSE sinAtender
  BY DEF Lanzar
<1>3. TypeOK'
  <2>1. en' \in [Modulo -> 0..12] /\ en'["memoria"] <= 8 /\ en'["kernel"] <= 11
    BY <1>1, TipoEn DEF IInv, Lanzar
  <2> QED BY <1>2, <2>1 DEF IInv, TypeOK
<1>4. Cerradas'
  <2>1. \A n \in Modulo : en[n] > 0 => en'[n] > 0
    BY <1>1
  <2>2. \A p \in abiertos : ServidorDe(p) \in Modulo
    BY Nombres DEF IInv, TypeOK
  <2>3. \A i \in DOMAIN con : ServidorDe(PuertoDe(con[i].handshake)) \in Modulo
    BY Rangos, Campos, Nombres DEF IInv
  <2> QED BY <1>2, <2>1, <2>2, <2>3 DEF IInv, Cerradas
<1>5. EnMano'
  <2>1. en'["memoria"] \in {3, 4, 6, 7} => en'["memoria"] = en["memoria"] /\ sinAtender' = sinAtender
    BY <1>1, <1>2 DEF Modulo
  <2>2. en'["cpu"] \in {7, 8, 10, 11} => en'["cpu"] = en["cpu"]
    BY <1>1 DEF Modulo
  <2>3. aceptada' = aceptada /\ con' = con
    BY <1>2
  <2> QED BY <2>1, <2>2, <2>3 DEF IInv, EnMano, Tomada
<1>6. Hilos'
  <2>1. CASE m = "memoria"
    <3>1. \A i \in DOMAIN con' : ~Hilo(i)'
      BY <1>1, <1>2, <2>1, Nombres DEF IInv, Cerradas, Hilo
    <3> QED BY <3>1 DEF Hilos, UnHiloPorRol, Hilo
  <2>2. CASE m # "memoria"
    BY <1>2, <2>2 DEF IInv, Hilos, UnHiloPorRol, Hilo
  <2> QED BY <2>1, <2>2
<1> QED BY <1>3, <1>4, <1>5, <1>6 DEF IInv

\* A main that opens a port.
LEMMA AlAbrir ==
  ASSUME IInv, NEW m \in Modulo, Abrir(m)
  PROVE  IInv'
<1>1. PICK p \in Puerto : /\ Toca(m, "abrir", p)
                          /\ abiertos' = IF p \in Ocupados THEN abiertos ELSE abiertos \union {p}
  BY DEF Abrir
<1>2. Seguir(m) /\ UNCHANGED <<con, socket, aceptada, sinAtender, muertes>>
  BY DEF Abrir
<1>3. /\ en[m] > 0 /\ ServidorDe(p) = m
      /\ \/ m = "memoria" /\ en[m] = 1 /\ p = "memoria"
         \/ m = "cpu" /\ en[m] = 4 /\ p = "dispatch"
         \/ m = "cpu" /\ en[m] = 5 /\ p = "interrupt"
         \/ m = "kernel" /\ en[m] = 10 /\ p = "escucha"
  BY <1>1, TocaAbrir DEF IInv
<1>4. TypeOK'
  <2>1. en' \in [Modulo -> 0..12] /\ en'["memoria"] <= 8 /\ en'["kernel"] <= 11
    BY <1>2, <1>3, TipoEn DEF IInv
  <2> QED BY <1>1, <1>2, <2>1 DEF IInv, TypeOK
<1>5. m = "memoria" => en[m] = 1
  BY <1>3
<1>6. m = "cpu" => en[m] \in 1..5
  BY <1>3
<1>7. \A q \in abiertos' : q \in abiertos \/ ServidorDe(q) = m
  BY <1>1, <1>3
<1>8. Len(con') = Len(con) /\ Len(con) \in Nat /\ con' = con
  BY <1>2 DEF IInv, TypeOK
<1>9. Len(con') >= Len(con) /\ (Len(con) + 1)..Len(con') = {}
  BY <1>8
<1> QED BY <1>2, <1>3, <1>4, <1>5, <1>6, <1>7, <1>8, <1>9, Sigue

\* A main that gives up.
LEMMA AlSalir ==
  ASSUME IInv, NEW m \in Modulo, Salir(m), UNCHANGED muertes
  PROVE  IInv'
<1>1. {m} \in SUBSET Modulo /\ Terminan({m})
  BY DEF Salir
<1>2. muertes' \in Seq(SUBSET Modulo)
  BY DEF IInv, TypeOK
<1> QED BY <1>1, <1>2, SeCierra

\* A main that goes on and changes nothing of what the others see.
LEMMA SoloSigue ==
  ASSUME IInv, NEW m \in Modulo, Seguir(m), en[m] > 0,
         m = "memoria" => en[m] = 1, m = "cpu" => en[m] \in 1..5, m = "kernel" => en[m] <= 10,
         UNCHANGED <<abiertos, con, aceptada, sinAtender, muertes>>,
         socket' \in [Handshake -> 0..Len(con)]
  PROVE  IInv'
<1>1. TypeOK'
  <2>1. en' \in [Modulo -> 0..12] /\ en'["memoria"] <= 8 /\ en'["kernel"] <= 11
    BY TipoEn DEF IInv
  <2> QED BY <2>1 DEF IInv, TypeOK
<1>2. Len(con') = Len(con) /\ Len(con) \in Nat
  BY DEF IInv, TypeOK
<1>3. Len(con') >= Len(con) /\ (Len(con) + 1)..Len(con') = {}
  BY <1>2
<1> QED BY <1>1, <1>3, Sigue

\* A main that connects, or finds that it cannot.
LEMMA AlConectarse ==
  ASSUME IInv, NEW m \in Modulo, Conectar(m)
  PROVE  IInv'
<1>1. PICK h \in Handshake :
        /\ Toca(m, "conectar", h)
        /\ IF Conectable(h)
           THEN /\ Len(con) < MaxConexiones
                /\ con' = Append(con, ConexionNueva(h))
                /\ socket' = [socket EXCEPT ![h] = Len(con')]
                /\ Seguir(m)
                /\ UNCHANGED <<abiertos, aceptada, sinAtender>>
           ELSE IF h = "kernel"
           THEN /\ socket' = [socket EXCEPT ![h] = 0]
                /\ Seguir(m)
                /\ UNCHANGED <<abiertos, con, aceptada, sinAtender>>
           ELSE Salir(m)
  BY DEF Conectar
<1>2. UNCHANGED muertes
  BY DEF Conectar
<1>3. /\ en[m] > 0
      /\ m # "memoria" /\ (m = "cpu" => en[m] \in 1..5) /\ (m = "kernel" => en[m] <= 10)
  BY <1>1, TocaCliente DEF IInv
<1>4. CASE ~Conectable(h) /\ h # "kernel"
  BY <1>1, <1>2, <1>4, AlSalir
<1>5. CASE ~Conectable(h) /\ h = "kernel"
  <2>1. socket' \in [Handshake -> 0..Len(con)]
    <3>1. socket' = [socket EXCEPT ![h] = 0]
      BY <1>1, <1>5
    <3>2. Len(con) \in Nat /\ socket \in [Handshake -> 0..Len(con)]
      BY DEF IInv, TypeOK
    <3> QED BY <3>1, <3>2
  <2> QED BY <1>1, <1>2, <1>3, <1>5, <2>1, SoloSigue
<1>6. CASE Conectable(h)
  <2>1. /\ con' = Append(con, ConexionNueva(h)) /\ socket' = [socket EXCEPT ![h] = Len(con')]
        /\ Seguir(m) /\ UNCHANGED <<abiertos, aceptada, sinAtender, muertes>>
    BY <1>1, <1>2, <1>6
  <2>2. /\ con' \in Seq(Conexion) /\ Len(con') = Len(con) + 1
        /\ \A i \in 1..Len(con) : Intacta(i)
        /\ con'[Len(con')].handshake = h /\ ~con'[Len(con')].respondida
    BY <2>1, ConConectar DEF IInv
  <2>3. Len(con) \in Nat
    BY DEF IInv, TypeOK
  <2>4. TypeOK'
    <3>1. en' \in [Modulo -> 0..12] /\ en'["memoria"] <= 8 /\ en'["kernel"] <= 11
      BY <1>3, <2>1, TipoEn DEF IInv
    <3>2. socket' \in [Handshake -> 0..Len(con')]
      BY <2>1, <2>2, <2>3 DEF IInv, TypeOK
    <3>3. aceptada' \in [Modulo -> 0..Len(con')]
      BY <2>1, <2>2, <2>3 DEF IInv, TypeOK
    <3> QED BY <2>1, <2>2, <3>1, <3>2, <3>3 DEF IInv, TypeOK
  <2>5. \A i \in (Len(con) + 1)..Len(con') : i = Len(con')
    BY <2>2, <2>3
  <2>6. en[ServidorDe(PuertoDe(h))] > 0
    BY <1>6 DEF IInv, Cerradas, Conectable
  <2>7. Len(con') >= Len(con)
    BY <2>2, <2>3
  <2>8. \A i \in (Len(con) + 1)..Len(con') :
          ~con'[i].respondida /\ en[ServidorDe(PuertoDe(con'[i].handshake))] > 0
    BY <2>2, <2>5, <2>6
  <2>9. m = "memoria" => en[m] = 1
    BY <1>3
  <2> QED BY <1>3, <2>1, <2>2, <2>4, <2>7, <2>8, <2>9, Sigue DEF Intacta
<1> QED BY <1>4, <1>5, <1>6

\* A main that sends its handshake.
LEMMA AlEnviarse ==
  ASSUME IInv, NEW m \in Modulo, Enviar(m)
  PROVE  IInv'
<1>1. PICK h \in Handshake : Toca(m, "enviar", h) /\ SeEnvia(socket[h])
  BY DEF Enviar, SeEnvia
<1>2. Seguir(m) /\ UNCHANGED <<abiertos, socket, aceptada, sinAtender, muertes>>
  BY DEF Enviar
<1>3. /\ en[m] > 0
      /\ m # "memoria" /\ (m = "cpu" => en[m] \in 1..5) /\ (m = "kernel" => en[m] <= 10)
  BY <1>1, TocaCliente DEF IInv
<1>4. socket[h] \in 0..Len(con) /\ Len(con) \in Nat
  BY DEF IInv, TypeOK
<1>5. /\ con' \in Seq(Conexion) /\ Len(con') = Len(con)
      /\ \A i \in 1..Len(con) :
           /\ con'[i].handshake = con[i].handshake /\ con'[i].rol = con[i].rol
           /\ con'[i].cliente = con[i].cliente /\ con'[i].servidor = con[i].servidor
           /\ con'[i].aceptada = con[i].aceptada /\ con'[i].respondida = con[i].respondida
  BY <1>1, <1>4, ConEnviar DEF IInv
<1>6. TypeOK'
  <2>1. en' \in [Modulo -> 0..12] /\ en'["memoria"] <= 8 /\ en'["kernel"] <= 11
    BY <1>2, <1>3, TipoEn DEF IInv
  <2> QED BY <1>2, <1>5, <2>1 DEF IInv, TypeOK
<1>7. Len(con') >= Len(con) /\ (Len(con) + 1)..Len(con') = {}
  BY <1>4, <1>5
<1>8. m = "memoria" => en[m] = 1
  BY <1>3
<1> QED BY <1>2, <1>3, <1>5, <1>6, <1>7, <1>8, Sigue

\* A main that reads the answer.
LEMMA AlEsperar ==
  ASSUME IInv, NEW m \in Modulo, Esperar(m)
  PROVE  IInv'
<1>1. PICK h \in Handshake : Toca(m, "esperar", h)
  BY DEF Esperar
<1>2. /\ en[m] > 0
      /\ m # "memoria" /\ (m = "cpu" => en[m] \in 1..5) /\ (m = "kernel" => en[m] <= 10)
  BY <1>1, TocaCliente DEF IInv
<1>3. \/ Seguir(m) /\ UNCHANGED <<abiertos, con, socket, aceptada, sinAtender>>
      \/ Salir(m)
  BY DEF Esperar
<1>4. UNCHANGED muertes
  BY DEF Esperar
<1>5. socket \in [Handshake -> 0..Len(con)]
  BY DEF IInv, TypeOK
<1>6. m = "memoria" => en[m] = 1
  BY <1>2
<1> QED BY <1>2, <1>3, <1>4, <1>5, <1>6, AlSalir, SoloSigue

\* A set of naturals that is not empty has a least one.
LEMMA Minimo ==
  ASSUME NEW T \in SUBSET Nat, T # {}
  PROVE  \E x \in T : \A y \in T : x <= y
<1>1. PICK x0 \in T : TRUE
  OBVIOUS
<1> DEFINE S == 0..x0
           Bajos == {t \in T : t <= x0}
           F == {0..t : t \in Bajos}
           R == StrictSubsetOrdering(S)
<1>2. IsWellFoundedOn(R, SUBSET S)
  <2>1. IsFiniteSet(S)
    BY <1>1, FS_Interval
  <2> HIDE DEF S
  <2> QED BY <2>1, FS_FiniteSubsetsOfFinite, FS_StrictSubsetOrderingWellFounded
<1>3. F \subseteq SUBSET S /\ F # {}
  OBVIOUS
<1>4. PICK I \in F : \A J \in F : <<J, I>> \notin R
  <2> HIDE DEF F, R, S
  <2> QED BY <1>2, <1>3, WFMin
<1>5. PICK x \in Bajos : I = 0..x
  BY <1>4
<1>6. ASSUME NEW y \in T, y < x PROVE FALSE
  <2>1. 0..y \in F /\ 0..y \subseteq I /\ x \in I /\ x \notin 0..y
    BY <1>5, <1>6
  <2>2. 0..y \in SUBSET S /\ I \in SUBSET S
    BY <1>3, <1>4, <2>1
  <2>3. <<0..y, I>> \in R
    BY <2>1, <2>2 DEF StrictSubsetOrdering
  <2> QED BY <1>4, <2>1, <2>3
<1> QED BY <1>5, <1>6

\* The first of those that wait is one of them.
LEMMA HayPrimera ==
  ASSUME TypeOK, NEW p, Pendientes(p) # {}
  PROVE  Primera(p) \in Pendientes(p)
<1>1. Pendientes(p) \in SUBSET Nat
  BY DEF TypeOK, Pendientes
<1>2. \E x \in Pendientes(p) : \A y \in Pendientes(p) : x <= y
  BY <1>1, Minimo
<1> QED BY <1>2 DEF Primera

\* A main that accepts a connection, or has no port to accept from.
LEMMA AlAceptarse ==
  ASSUME IInv, NEW m \in Modulo, Aceptar(m)
  PROVE  IInv'
<1>1. PICK p \in Puerto :
        /\ Toca(m, "aceptar", p)
        /\ IF p \in abiertos
           THEN /\ Pendientes(p) # {}
                /\ aceptada' = [aceptada EXCEPT ![m] = Primera(p)]
                /\ con' = [con EXCEPT ![Primera(p)].aceptada = TRUE]
                /\ Seguir(m)
                /\ UNCHANGED <<abiertos, socket, sinAtender>>
           ELSE Salir(m)
  BY DEF Aceptar
<1>2. UNCHANGED muertes
  BY DEF Aceptar
<1>3. CASE p \notin abiertos
  BY <1>1, <1>2, <1>3, AlSalir
<1>4. CASE p \in abiertos
  <2>1. PICK k : k = Primera(p)
    OBVIOUS
  <2>2. /\ k \in 1..Len(con) /\ PuertoDe(con[k].handshake) = p /\ con[k].servidor /\ ~con[k].aceptada
    BY <1>1, <1>4, <2>1, HayPrimera DEF IInv, TypeOK, Pendientes
  <2>3. /\ aceptada' = [aceptada EXCEPT ![m] = k] /\ con' = [con EXCEPT ![k].aceptada = TRUE]
        /\ Seguir(m) /\ UNCHANGED <<abiertos, socket, sinAtender, muertes>>
    BY <1>1, <1>2, <1>4, <2>1
  <2>4. /\ con' \in Seq(Conexion) /\ Len(con') = Len(con)
        /\ \A i \in 1..Len(con) : i # k => Intacta(i)
        /\ con'[k].aceptada
        /\ con'[k].handshake = con[k].handshake /\ con'[k].rol = con[k].rol
        /\ con'[k].cliente = con[k].cliente /\ con'[k].servidor = con[k].servidor
        /\ con'[k].enviado = con[k].enviado /\ con'[k].respondida = con[k].respondida
    BY <2>2, <2>3, ConAceptar DEF IInv
  <2>5. \A i \in 1..Len(con) :
           /\ con'[i].handshake = con[i].handshake /\ con'[i].rol = con[i].rol
           /\ con'[i].servidor = con[i].servidor /\ con'[i].respondida = con[i].respondida
           /\ con[i].aceptada => con'[i].aceptada
    BY <2>4 DEF Intacta
  <2>6. /\ en[m] > 0 /\ m = ServidorDe(p)
        /\ \/ m = "memoria" /\ p = "memoria" /\ en[m] \in {2, 5}
           \/ m = "cpu" /\ p = "dispatch" /\ en[m] = 6
           \/ m = "cpu" /\ p = "interrupt" /\ en[m] = 9
    BY <1>1, TocaServidor DEF IInv
  <2>7. en'[m] = en[m] + 1 /\ \A n \in Modulo : n # m => en'[n] = en[n]
    BY <2>3, Avanza DEF IInv
  <2>8. /\ DOMAIN con = 1..Len(con) /\ DOMAIN con' = 1..Len(con) /\ Len(con) \in Nat
        /\ \A i \in 1..Len(con) : con[i] \in Conexion
    BY <2>4 DEF IInv, TypeOK
  <2>9. TypeOK'
    <3>1. en' \in [Modulo -> 0..12] /\ en'["memoria"] <= 8 /\ en'["kernel"] <= 11
      BY <2>3, <2>6, TipoEn DEF IInv
    <3>2. aceptada' \in [Modulo -> 0..Len(con')]
      BY <2>2, <2>3, <2>4, <2>8 DEF IInv, TypeOK
    <3> QED BY <2>3, <2>4, <3>1, <3>2 DEF IInv, TypeOK
  <2>10. \A n \in Modulo : en[n] > 0 => en'[n] > 0
    BY <2>7, Rangos DEF IInv
  <2>11. Cerradas'
    <3>1. ASSUME NEW i \in DOMAIN con', con'[i].servidor
          PROVE  en'[ServidorDe(PuertoDe(con'[i].handshake))] > 0
      <4>1. ServidorDe(PuertoDe(con[i].handshake)) \in Modulo
        BY <2>8, Campos, Nombres
      <4> QED BY <2>5, <2>8, <2>10, <3>1, <4>1 DEF IInv, Cerradas
    <3>2. ASSUME NEW q \in abiertos' PROVE en'[ServidorDe(q)] > 0
      <4>1. q \in Puerto /\ ServidorDe(q) \in Modulo
        BY <2>3, Nombres DEF IInv, TypeOK
      <4> QED BY <2>3, <2>10, <4>1 DEF IInv, Cerradas
    <3>3. ASSUME NEW i \in DOMAIN con', con'[i].respondida PROVE con'[i].aceptada
      BY <2>5, <2>8, <3>3 DEF IInv, Cerradas
    <3> QED BY <3>1, <3>2, <3>3 DEF Cerradas
  <2>12. EnMano'
    <3>1. /\ k # 0 /\ PuertoDe(con'[k].handshake) = p
          /\ con'[k].servidor /\ con'[k].aceptada /\ ~con'[k].respondida
      BY <2>2, <2>4, <2>8 DEF IInv, Cerradas
    <3>2. aceptada'[m] = k /\ \A n \in Modulo : n # m => aceptada'[n] = aceptada[n]
      BY <2>3 DEF IInv, TypeOK
    <3>3. Tomada(aceptada[m], p)'
      BY <3>1, <3>2 DEF Tomada
    <3>4. \A n \in Modulo : aceptada[n] \in 0..Len(con)
      BY DEF IInv, TypeOK
    <3>5. ASSUME NEW n \in Modulo, n # m, NEW q, Tomada(aceptada[n], q)
          PROVE  Tomada(aceptada[n], q)' /\ con'[aceptada'[n]].rol = con[aceptada[n]].rol
      <4>1. aceptada[n] \in 1..Len(con) /\ aceptada'[n] = aceptada[n]
        BY <2>8, <3>2, <3>4, <3>5 DEF Tomada
      <4> QED BY <2>5, <3>5, <4>1 DEF Tomada
    <3>6. CASE m = "memoria"
      <4>1. p = "memoria" /\ en'["memoria"] \in {3, 6} /\ en'["cpu"] = en["cpu"]
        BY <2>6, <2>7, <3>6 DEF Modulo
      <4>2. "cpu" \in Modulo /\ "cpu" # m
        BY <3>6 DEF Modulo
      <4> QED BY <3>3, <3>5, <3>6, <4>1, <4>2 DEF IInv, EnMano
    <3>7. CASE m = "cpu"
      <4>1. \/ p = "dispatch" /\ en'["cpu"] = 7
            \/ p = "interrupt" /\ en'["cpu"] = 10
        BY <2>6, <2>7, <3>7
      <4>2. "memoria" \in Modulo /\ "memoria" # m /\ en'["memoria"] = en["memoria"]
        BY <2>7, <3>7 DEF Modulo
      <4> QED BY <2>3, <3>3, <3>5, <3>7, <4>1, <4>2 DEF IInv, EnMano
    <3> QED BY <2>6, <3>6, <3>7
  <2>13. Hilos'
    BY <2>3, <2>5, <2>8 DEF IInv, Hilos, Hilo, UnHiloPorRol
  <2> QED BY <2>9, <2>11, <2>12, <2>13 DEF IInv
<1> QED BY <1>3, <1>4

\* A main that reads a handshake.
LEMMA AlLeerse ==
  ASSUME IInv, NEW m \in Modulo, Leer(m)
  PROVE  IInv'
<1>1. PICK p \in Puerto :
        /\ Toca(m, "leer", p)
        /\ \E h \in LeeServidor(aceptada[m]) :
             IF Espera(m, p, h)
             THEN /\ con' = [con EXCEPT ![aceptada[m]].rol = h]
                  /\ Seguir(m)
                  /\ UNCHANGED <<abiertos, socket, aceptada, sinAtender>>
             ELSE Salir(m)
  BY DEF Leer
<1>2. UNCHANGED muertes
  BY DEF Leer
<1>3. PICK h \in LeeServidor(aceptada[m]) :
             IF Espera(m, p, h)
             THEN /\ con' = [con EXCEPT ![aceptada[m]].rol = h]
                  /\ Seguir(m)
                  /\ UNCHANGED <<abiertos, socket, aceptada, sinAtender>>
             ELSE Salir(m)
  BY <1>1
<1>4. CASE ~Espera(m, p, h)
  BY <1>2, <1>3, <1>4, AlSalir
<1>5. CASE Espera(m, p, h)
  <2>1. PICK k : k = aceptada[m]
    OBVIOUS
  <2>2. /\ con' = [con EXCEPT ![k].rol = h]
        /\ Seguir(m) /\ UNCHANGED <<abiertos, socket, aceptada, sinAtender, muertes>>
    BY <1>2, <1>3, <1>5, <2>1
  <2>3. /\ en[m] > 0 /\ m = ServidorDe(p)
        /\ \/ m = "memoria" /\ p = "memoria" /\ en[m] \in {3, 6}
           \/ m = "cpu" /\ p = "dispatch" /\ en[m] = 7
           \/ m = "cpu" /\ p = "interrupt" /\ en[m] = 10
    BY <1>1, TocaServidor DEF IInv
  <2>4. Tomada(k, p) /\ k \in 1..Len(con) /\ Len(con) \in Nat
    <3>1. Tomada(k, p)
      BY <2>1, <2>3 DEF IInv, EnMano
    <3>2. k \in 0..Len(con) /\ Len(con) \in Nat
      BY <2>1 DEF IInv, TypeOK
    <3> QED BY <3>1, <3>2 DEF Tomada
  <2>5. h \in Rol /\ (m = "memoria" => h \in sinAtender)
    <3>1. m = "memoria" => h \in sinAtender
      BY <1>5 DEF Espera
    <3>2. m # "memoria" => h = p /\ p \in {"dispatch", "interrupt"}
      BY <1>5, <2>3 DEF Espera
    <3>3. sinAtender \subseteq {"cpu", "kernel"}
      BY DEF IInv, TypeOK
    <3> QED BY <3>1, <3>2, <3>3 DEF Rol, Header, Handshake
  <2>6. /\ con' \in Seq(Conexion) /\ Len(con') = Len(con)
        /\ \A i \in 1..Len(con) : i # k => Intacta(i)
        /\ con'[k].rol = h
        /\ con'[k].handshake = con[k].handshake /\ con'[k].aceptada = con[k].aceptada
        /\ con'[k].cliente = con[k].cliente /\ con'[k].servidor = con[k].servidor
        /\ con'[k].enviado = con[k].enviado /\ con'[k].respondida = con[k].respondida
    BY <2>2, <2>4, <2>5, ConLeer DEF IInv
  <2>7. \A i \in 1..Len(con) :
           /\ con'[i].handshake = con[i].handshake /\ con'[i].aceptada = con[i].aceptada
           /\ con'[i].servidor = con[i].servidor /\ con'[i].respondida = con[i].respondida
           /\ i # k => con'[i].rol = con[i].rol
    BY <2>6 DEF Intacta
  <2>8. /\ DOMAIN con = 1..Len(con) /\ DOMAIN con' = 1..Len(con)
        /\ \A i \in 1..Len(con) : con[i] \in Conexion
    BY <2>6 DEF IInv, TypeOK
  <2>9. en'[m] = en[m] + 1 /\ \A n \in Modulo : n # m => en'[n] = en[n]
    BY <2>2, Avanza DEF IInv
  <2>10. \A n \in Modulo : en[n] > 0 => en'[n] > 0
    BY <2>9, Rangos DEF IInv
  <2>11. TypeOK'
    <3>1. en' \in [Modulo -> 0..12] /\ en'["memoria"] <= 8 /\ en'["kernel"] <= 11
      BY <2>2, <2>3, TipoEn DEF IInv
    <3> QED BY <2>2, <2>6, <3>1 DEF IInv, TypeOK
  <2>12. Cerradas'
    <3>1. ASSUME NEW i \in DOMAIN con', con'[i].servidor
          PROVE  en'[ServidorDe(PuertoDe(con'[i].handshake))] > 0
      <4>1. ServidorDe(PuertoDe(con[i].handshake)) \in Modulo
        BY <2>8, Campos, Nombres
      <4> QED BY <2>7, <2>8, <2>10, <3>1, <4>1 DEF IInv, Cerradas
    <3>2. ASSUME NEW q \in abiertos' PROVE en'[ServidorDe(q)] > 0
      <4>1. q \in Puerto /\ ServidorDe(q) \in Modulo
        BY <2>2, Nombres DEF IInv, TypeOK
      <4> QED BY <2>2, <2>10, <4>1 DEF IInv, Cerradas
    <3>3. ASSUME NEW i \in DOMAIN con', con'[i].respondida PROVE con'[i].aceptada
      BY <2>7, <2>8, <3>3 DEF IInv, Cerradas
    <3> QED BY <3>1, <3>2, <3>3 DEF Cerradas
  <2>13. EnMano'
    <3>1. \A n \in Modulo : aceptada[n] \in 0..Len(con) /\ aceptada'[n] = aceptada[n]
      BY <2>2 DEF IInv, TypeOK
    <3>2. ASSUME NEW n \in Modulo, NEW q, Tomada(aceptada[n], q)
          PROVE  Tomada(aceptada[n], q)'
      <4>1. aceptada[n] \in 1..Len(con) /\ aceptada'[n] = aceptada[n]
        BY <2>4, <3>1, <3>2 DEF Tomada
      <4> QED BY <2>7, <3>2, <4>1 DEF Tomada
    <3>3. Tomada(aceptada[m], p)'
      BY <2>1, <2>4, <3>2
    <3>4. CASE m = "memoria"
      <4>1. p = "memoria" /\ en'["memoria"] \in {4, 7} /\ en'["cpu"] = en["cpu"]
        BY <2>3, <2>9, <3>4 DEF Modulo
      <4>2. "cpu" \in Modulo
        BY DEF Modulo
      <4>3. con'[aceptada'["memoria"]].rol \in sinAtender'
        BY <2>1, <2>2, <2>5, <2>6, <3>4
      <4> QED BY <3>2, <3>3, <3>4, <4>1, <4>2, <4>3 DEF IInv, EnMano
    <3>5. CASE m = "cpu"
      <4>1. \/ p = "dispatch" /\ en'["cpu"] = 8
            \/ p = "interrupt" /\ en'["cpu"] = 11
        BY <2>3, <2>9, <3>5
      <4>2. "memoria" \in Modulo /\ en'["memoria"] = en["memoria"]
        BY <2>9, <3>5 DEF Modulo
      <4>3. en["memoria"] \in {4, 7} => con'[aceptada'["memoria"]].rol = con[aceptada["memoria"]].rol
        <5>1. en["memoria"] \in {4, 7} => Tomada(aceptada["memoria"], "memoria") /\ aceptada["memoria"] # k
          BY <2>3, <2>4, <3>5 DEF IInv, EnMano, Tomada
        <5>2. en["memoria"] \in {4, 7} => aceptada["memoria"] \in 1..Len(con) /\ aceptada' = aceptada
          BY <2>2, <2>4, <3>1, <4>2, <5>1 DEF Tomada
        <5> QED BY <2>7, <5>1, <5>2
      <4> QED BY <2>2, <3>2, <3>3, <3>5, <4>1, <4>2, <4>3 DEF IInv, EnMano
    <3> QED BY <2>3, <3>4, <3>5
  <2>14. Hilos'
    <3>1. ASSUME NEW i \in DOMAIN con', Hilo(i)'
          PROVE  i \in DOMAIN con /\ Hilo(i) /\ con'[i].rol = con[i].rol
      BY <2>4, <2>7, <2>8, <3>1 DEF Hilo, Tomada
    <3>2. \A i \in DOMAIN con' : Hilo(i)' => con'[i].rol \in {"cpu", "kernel"} \ sinAtender'
      BY <2>2, <3>1 DEF IInv, Hilos
    <3>3. ASSUME NEW i \in DOMAIN con', NEW j \in DOMAIN con', i # j, Hilo(i)', Hilo(j)'
          PROVE  con'[i].rol # con'[j].rol
      <4>1. i \in DOMAIN con /\ Hilo(i) /\ con'[i].rol = con[i].rol
        BY <3>1, <3>3
      <4>2. j \in DOMAIN con /\ Hilo(j) /\ con'[j].rol = con[j].rol
        BY <3>1, <3>3
      <4> QED BY <3>3, <4>1, <4>2 DEF IInv, Hilos, UnHiloPorRol, Hilo
    <3> QED BY <3>2, <3>3 DEF Hilos, UnHiloPorRol, Hilo
  <2> QED BY <2>11, <2>12, <2>13, <2>14 DEF IInv
<1> QED BY <1>4, <1>5

\* A main that answers; Memory creates the thread.
LEMMA AlContestar ==
  ASSUME IInv, NEW m \in Modulo, Responder(m)
  PROVE  IInv'
<1>1. PICK p \in Puerto : Toca(m, "responder", p)
  BY DEF Responder
<1>2. PICK k : k = aceptada[m]
  OBVIOUS
<1>3. /\ con' = [con EXCEPT ![k].respondida = TRUE]
      /\ Seguir(m) /\ UNCHANGED <<abiertos, socket, aceptada, muertes>>
  BY <1>2 DEF Responder
<1>4. sinAtender' = IF m = "memoria" THEN sinAtender \ {con[k].rol} ELSE sinAtender
  BY <1>2 DEF Responder
<1>5. /\ en[m] > 0 /\ m = ServidorDe(p)
      /\ \/ m = "memoria" /\ p = "memoria" /\ en[m] \in {4, 7}
         \/ m = "cpu" /\ p = "dispatch" /\ en[m] = 8
         \/ m = "cpu" /\ p = "interrupt" /\ en[m] = 11
  BY <1>1, TocaServidor DEF IInv
<1>6. Tomada(k, p) /\ k \in 1..Len(con) /\ Len(con) \in Nat
  <2>1. Tomada(k, p)
    BY <1>2, <1>5 DEF IInv, EnMano
  <2>2. k \in 0..Len(con) /\ Len(con) \in Nat
    BY <1>2 DEF IInv, TypeOK
  <2> QED BY <2>1, <2>2 DEF Tomada
<1>7. m = "memoria" => con[k].rol \in sinAtender
  BY <1>2, <1>5 DEF IInv, EnMano
<1>8. /\ con' \in Seq(Conexion) /\ Len(con') = Len(con)
      /\ \A i \in 1..Len(con) : i # k => Intacta(i)
      /\ con'[k].respondida
      /\ con'[k].handshake = con[k].handshake /\ con'[k].rol = con[k].rol
      /\ con'[k].cliente = con[k].cliente /\ con'[k].servidor = con[k].servidor
      /\ con'[k].enviado = con[k].enviado /\ con'[k].aceptada = con[k].aceptada
  BY <1>3, <1>6, ConResponder DEF IInv
<1>9. \A i \in 1..Len(con) :
         /\ con'[i].handshake = con[i].handshake /\ con'[i].aceptada = con[i].aceptada
         /\ con'[i].servidor = con[i].servidor /\ con'[i].rol = con[i].rol
         /\ i # k => con'[i].respondida = con[i].respondida
  BY <1>8 DEF Intacta
<1>10. /\ DOMAIN con = 1..Len(con) /\ DOMAIN con' = 1..Len(con)
       /\ \A i \in 1..Len(con) : con[i] \in Conexion
  BY <1>8 DEF IInv, TypeOK
<1>11. en'[m] = en[m] + 1 /\ \A n \in Modulo : n # m => en'[n] = en[n]
  BY <1>3, Avanza DEF IInv
<1>12. \A n \in Modulo : en[n] > 0 => en'[n] > 0
  BY <1>11, Rangos DEF IInv
<1>13. TypeOK'
  <2>1. en' \in [Modulo -> 0..12] /\ en'["memoria"] <= 8 /\ en'["kernel"] <= 11
    BY <1>3, <1>5, TipoEn DEF IInv
  <2>2. sinAtender' \subseteq {"cpu", "kernel"}
    BY <1>4 DEF IInv, TypeOK
  <2> QED BY <1>3, <1>8, <2>1, <2>2 DEF IInv, TypeOK
<1>14. Cerradas'
  <2>1. ASSUME NEW i \in DOMAIN con', con'[i].servidor
        PROVE  en'[ServidorDe(PuertoDe(con'[i].handshake))] > 0
    <3>1. ServidorDe(PuertoDe(con[i].handshake)) \in Modulo
      BY <1>10, Campos, Nombres
    <3> QED BY <1>9, <1>10, <1>12, <2>1, <3>1 DEF IInv, Cerradas
  <2>2. ASSUME NEW q \in abiertos' PROVE en'[ServidorDe(q)] > 0
    <3>1. q \in Puerto /\ ServidorDe(q) \in Modulo
      BY <1>3, Nombres DEF IInv, TypeOK
    <3> QED BY <1>3, <1>12, <3>1 DEF IInv, Cerradas
  <2>3. ASSUME NEW i \in DOMAIN con', con'[i].respondida PROVE con'[i].aceptada
    BY <1>6, <1>9, <1>10, <2>3 DEF IInv, Cerradas, Tomada
  <2> QED BY <2>1, <2>2, <2>3 DEF Cerradas
<1>15. EnMano'
  <2>1. \A n \in Modulo : aceptada[n] \in 0..Len(con) /\ aceptada'[n] = aceptada[n]
    BY <1>3 DEF IInv, TypeOK
  <2>2. ASSUME NEW n \in Modulo, NEW q, Tomada(aceptada[n], q), q # p
        PROVE  Tomada(aceptada[n], q)' /\ con'[aceptada'[n]].rol = con[aceptada[n]].rol
    <3>1. aceptada[n] \in 1..Len(con) /\ aceptada'[n] = aceptada[n] /\ aceptada[n] # k
      BY <1>6, <2>1, <2>2 DEF Tomada
    <3> QED BY <1>9, <2>2, <3>1 DEF Tomada
  <2>3. CASE m = "memoria"
    <3>1. p = "memoria" /\ en'["memoria"] \in {5, 8} /\ en'["cpu"] = en["cpu"]
      BY <1>5, <1>11, <2>3 DEF Modulo
    <3>2. "cpu" \in Modulo
      BY DEF Modulo
    <3>3. en["cpu"] \in {7, 8} => Tomada(aceptada["cpu"], "dispatch")'
      BY <2>2, <3>1, <3>2 DEF IInv, EnMano
    <3>4. en["cpu"] \in {10, 11} => Tomada(aceptada["cpu"], "interrupt")'
      BY <2>2, <3>1, <3>2 DEF IInv, EnMano
    <3> QED BY <3>1, <3>3, <3>4 DEF EnMano
  <2>4. CASE m = "cpu"
    <3>1. p # "memoria" /\ en'["cpu"] \in {9, 12}
      BY <1>5, <1>11, <2>4
    <3>2. "memoria" \in Modulo /\ en'["memoria"] = en["memoria"] /\ sinAtender' = sinAtender
      BY <1>4, <1>11, <2>4 DEF Modulo
    <3> QED BY <2>2, <2>4, <3>1, <3>2 DEF IInv, EnMano
  <2> QED BY <1>5, <2>3, <2>4
<1>16. Hilos'
  <2>1. ASSUME NEW i \in DOMAIN con', Hilo(i)'
        PROVE  /\ i \in DOMAIN con /\ con'[i].rol = con[i].rol
               /\ i # k => Hilo(i)
               /\ i = k => m = "memoria"
    <3>1. i \in 1..Len(con) /\ PuertoDe(con[i].handshake) = "memoria"
      BY <1>9, <1>10, <2>1 DEF Hilo
    <3>2. i = k => p = "memoria"
      BY <1>6, <3>1 DEF Tomada
    <3> QED BY <1>5, <1>9, <1>10, <2>1, <3>1, <3>2 DEF Hilo
  <2>2. ASSUME NEW i \in DOMAIN con', Hilo(i)'
        PROVE  con'[i].rol \in {"cpu", "kernel"} \ sinAtender'
    <3>1. CASE i = k
      <4>1. m = "memoria" /\ con[k].rol \in sinAtender /\ con'[k].rol = con[k].rol
        BY <1>7, <2>1, <2>2, <3>1
      <4> QED BY <1>4, <3>1, <4>1 DEF IInv, TypeOK
    <3>2. CASE i # k
      <4>1. con'[i].rol \in {"cpu", "kernel"} \ sinAtender
        BY <2>1, <2>2, <3>2 DEF IInv, Hilos
      <4> QED BY <1>4, <4>1
    <3> QED BY <3>1, <3>2
  <2>3. ASSUME NEW i \in DOMAIN con', NEW j \in DOMAIN con', i # j, Hilo(i)', Hilo(j)'
        PROVE  con'[i].rol # con'[j].rol
    <3>1. CASE i # k /\ j # k
      <4>1. i \in DOMAIN con /\ Hilo(i) /\ con'[i].rol = con[i].rol
        BY <2>1, <2>3, <3>1
      <4>2. j \in DOMAIN con /\ Hilo(j) /\ con'[j].rol = con[j].rol
        BY <2>1, <2>3, <3>1
      <4> QED BY <2>3, <4>1, <4>2 DEF IInv, Hilos, UnHiloPorRol, Hilo
    <3>2. CASE i = k
      <4>1. con'[i].rol \in sinAtender
        BY <1>7, <2>1, <2>3, <3>2
      <4>2. con'[j].rol \notin sinAtender
        BY <2>1, <2>3, <3>2 DEF IInv, Hilos
      <4> QED BY <4>1, <4>2
    <3>3. CASE j = k
      <4>1. con'[j].rol \in sinAtender
        BY <1>7, <2>1, <2>3, <3>3
      <4>2. con'[i].rol \notin sinAtender
        BY <2>1, <2>3, <3>3 DEF IInv, Hilos
      <4> QED BY <4>1, <4>2
    <3> QED BY <3>1, <3>2, <3>3
  <2> QED BY <2>2, <2>3 DEF Hilos, UnHiloPorRol, Hilo
<1> QED BY <1>13, <1>14, <1>15, <1>16 DEF IInv

\* The invariant holds at the start, and every step keeps it.
LEMMA AlEmpezar == Init => IInv
<1> SUFFICES ASSUME Init PROVE IInv
  OBVIOUS
<1>1. TypeOK
  <2>1. en \in [Modulo -> 0..12] /\ en["memoria"] <= 8 /\ en["kernel"] <= 11
    BY DEF Init, Modulo
  <2>2. con \in Seq(Conexion) /\ Len(con) = 0 /\ muertes \in Seq(SUBSET Modulo)
    BY DEF Init
  <2> QED BY <2>1, <2>2 DEF Init, TypeOK
<1>2. DOMAIN con = {} /\ abiertos = {}
  BY DEF Init
<1>3. \A m \in Modulo : en[m] = 0
  BY DEF Init
<1>4. EnMano
  BY <1>3 DEF EnMano, Modulo
<1> QED BY <1>1, <1>2, <1>4 DEF IInv, Cerradas, Hilos, UnHiloPorRol

\* Modules that are killed.
LEMMA AlMatar ==
  ASSUME IInv, NEW ms \in Mortales, Matar(ms)
  PROVE  IInv'
<1>1. ms \in SUBSET Modulo /\ Terminan(ms)
  BY ConstantesAssumption DEF Matar
<1>2. muertes' \in Seq(SUBSET Modulo)
  <2>1. muertes' = Append(muertes, ms) /\ muertes \in Seq(SUBSET Modulo)
    BY DEF Matar, IInv, TypeOK
  <2> QED BY <1>1, <2>1
<1> QED BY <1>1, <1>2, SeCierra

\* Every step keeps the invariant.
LEMMA Preserva == IInv /\ [Next]_vars => IInv'
<1> SUFFICES ASSUME IInv, [Next]_vars PROVE IInv'
  OBVIOUS
<1>1. ASSUME NEW m \in Modulo, Lanzar(m) PROVE IInv'
  BY <1>1, AlLanzar
<1>2. ASSUME NEW m \in Modulo, Paso(m) PROVE IInv'
  BY <1>2, AlAbrir, AlConectarse, AlEnviarse, AlEsperar, AlAceptarse, AlLeerse, AlContestar DEF Paso
<1>3. ASSUME NEW ms \in Mortales, Matar(ms) PROVE IInv'
  BY <1>3, AlMatar
<1>4. CASE UNCHANGED vars
  BY <1>4 DEF vars, IInv, TypeOK, Cerradas, EnMano, Tomada, Hilos, Hilo, UnHiloPorRol
<1> QED BY <1>1, <1>2, <1>3, <1>4 DEF Next

\* The invariant holds in every behaviour, whatever is killed and when.
THEOREM InvarianteCorrecto == Spec => []IInv
  BY AlEmpezar, Preserva, PTL DEF Spec

\* Whatever is launched, killed and launched again, in whatever order and as often as it may
\* be, Memory serves its tables with at most one thread for the CPU and one for the Kernel
\* (cpuSinAtender and kernelSinAtender of memoria.c).
THEOREM UnHiloCorrecto == Spec => []UnHiloPorRol
<1>1. IInv => UnHiloPorRol
  BY DEF IInv, Hilos
<1> QED BY <1>1, InvarianteCorrecto, PTL

-----------------------------------------------------------------------------
(* The invariant of a machine of which nothing went down alone.            *)

\* The last connection of the client that sends h, while it is open, and how far it went.
UltimaDe(h) == con[socket[h]]
Viva(h) == socket[h] # 0 /\ UltimaDe(h).cliente
Enviada(h) == Viva(h) /\ UltimaDe(h).enviado
Aceptada(h) == Viva(h) /\ UltimaDe(h).aceptada
Respondida(h) == Viva(h) /\ UltimaDe(h).respondida

\* Both ends of a connection are open or both are closed, and an open one is the last of its
\* client.
Puntas ==
  /\ \A i \in DOMAIN con : con[i].cliente <=> con[i].servidor
  /\ \A i \in DOMAIN con : con[i].cliente => socket[con[i].handshake] = i
  /\ \A h \in Handshake : socket[h] # 0 => con[socket[h]].handshake = h

\* How far a client is tells how far its connection went.
LadoCliente ==
  /\ Viva("cpu") <=> en["cpu"] > 1
  /\ Enviada("cpu") <=> en["cpu"] > 2
  /\ en["cpu"] > 3 => Respondida("cpu")
  /\ Viva("dispatch") <=> en["kernel"] > 1
  /\ Enviada("dispatch") <=> en["kernel"] > 2
  /\ en["kernel"] > 3 => Respondida("dispatch")
  /\ Viva("interrupt") <=> en["kernel"] > 4
  /\ Enviada("interrupt") <=> en["kernel"] > 5
  /\ en["kernel"] > 6 => Respondida("interrupt")
  /\ Viva("kernel") <=> en["kernel"] > 7
  /\ Enviada("kernel") <=> en["kernel"] > 8
  /\ en["kernel"] > 9 => Respondida("kernel")

\* How far a server is tells whether its port is open; nobody is connected to a closed one.
Puertos ==
  /\ "memoria" \in abiertos <=> en["memoria"] > 1 /\ "memoria" \notin Ocupados
  /\ "dispatch" \in abiertos <=> en["cpu"] > 4
  /\ "interrupt" \in abiertos <=> en["cpu"] > 5
  /\ \A h \in Handshake : Viva(h) => PuertoDe(h) \in abiertos

\* How far the CPU is tells which connections of the Kernel it accepted and answered.
LadoCpu ==
  /\ Aceptada("dispatch") <=> en["cpu"] > 6
  /\ Respondida("dispatch") <=> en["cpu"] > 8
  /\ Aceptada("interrupt") <=> en["cpu"] > 9
  /\ Respondida("interrupt") <=> en["cpu"] > 11
  /\ en["cpu"] \in {7, 8} => aceptada["cpu"] = socket["dispatch"]
  /\ en["cpu"] \in {10, 11} => aceptada["cpu"] = socket["interrupt"]

\* How far Memory is tells how many roles it still waits for, and sinAtender which.
LadoMemoria ==
  /\ \A h \in {"cpu", "kernel"} : Respondida(h) <=> h \notin sinAtender
  /\ en["memoria"] \in {1, 2, 5, 8} => \A h \in {"cpu", "kernel"} : Aceptada(h) <=> h \notin sinAtender
  /\ en["memoria"] \in {3, 4, 6, 7} =>
       \E h \in sinAtender :
         /\ Aceptada(h) /\ aceptada["memoria"] = socket[h]
         /\ en["memoria"] \in {4, 7} => UltimaDe(h).rol = h
         /\ \A g \in {"cpu", "kernel"} \ {h} : Aceptada(g) <=> g \notin sinAtender
  /\ en["memoria"] \in {1, 2, 3, 4} => sinAtender = {"cpu", "kernel"}
  /\ en["memoria"] \in {5, 6, 7} => sinAtender \in {{"cpu"}, {"kernel"}}
  /\ en["memoria"] = 8 => sinAtender = {}
Entera == Puntas /\ LadoCliente /\ Puertos /\ LadoCpu /\ (en["memoria"] > 0 => LadoMemoria)

\* What the step leaves of the last connection of h.
Mismas(h) ==
  /\ Viva(h)' <=> Viva(h)
  /\ Enviada(h)' <=> Enviada(h)
  /\ Aceptada(h)' <=> Aceptada(h)
  /\ Respondida(h)' <=> Respondida(h)

\* Nobody has a connection with m.
Suelta(m) == \A h \in Handshake : Viva(h) => ClienteDe(h) # m /\ ServidorDe(PuertoDe(h)) # m

\* The last connection of h is a connection of h.
LEMMA DeViva ==
  ASSUME IInv, Puntas, NEW h \in Handshake, Viva(h)
  PROVE  /\ socket[h] \in 1..Len(con) /\ con[socket[h]] \in Conexion
         /\ UltimaDe(h).handshake = h /\ UltimaDe(h).servidor /\ UltimaDe(h).cliente
<1>1. socket[h] \in 0..Len(con) /\ Len(con) \in Nat /\ socket[h] # 0 /\ UltimaDe(h).cliente
  BY DEF IInv, TypeOK, Viva
<1>2. socket[h] \in 1..Len(con)
  BY <1>1
<1>3. con[socket[h]] \in Conexion /\ socket[h] \in DOMAIN con
  BY <1>2 DEF IInv, TypeOK
<1> QED BY <1>1, <1>2, <1>3 DEF Puntas, UltimaDe

\* A connection that is open at the server is the last of its client.
LEMMA DeAbierta ==
  ASSUME IInv, Puntas, NEW k \in 1..Len(con), con[k].servidor
  PROVE  /\ con[k].handshake \in Handshake /\ socket[con[k].handshake] = k
         /\ Viva(con[k].handshake) /\ UltimaDe(con[k].handshake) = con[k]
<1>1. k \in DOMAIN con /\ con[k] \in Conexion /\ k # 0
  BY Rangos DEF IInv
<1>2. con[k].cliente /\ socket[con[k].handshake] = k
  BY <1>1 DEF Puntas
<1>3. con[k].handshake \in Handshake
  BY <1>1, Campos
<1> QED BY <1>1, <1>2, <1>3 DEF Viva, UltimaDe

\* What was answered had been accepted.
LEMMA RespondidaAceptada ==
  ASSUME IInv, Puntas, NEW h \in Handshake, Respondida(h)
  PROVE  Aceptada(h)
<1>1. Viva(h) /\ UltimaDe(h).respondida
  BY DEF Respondida
<1>2. socket[h] \in 1..Len(con)
  BY <1>1, DeViva
<1>3. socket[h] \in DOMAIN con
  BY <1>2, Rangos DEF IInv
<1>4. UltimaDe(h).aceptada
  BY <1>1, <1>3 DEF IInv, Cerradas, UltimaDe
<1> QED BY <1>1, <1>4 DEF Aceptada

\* A step that leaves the sockets alone.
LEMMA Quietas ==
  ASSUME con' = con, socket' = socket, NEW h
  PROVE  Mismas(h)
  BY DEF Mismas, Viva, Enviada, Aceptada, Respondida, UltimaDe

\* A step that leaves the sockets alone keeps both ends of each.
LEMMA PuntasQuietas ==
  ASSUME Puntas, con' = con, socket' = socket
  PROVE  Puntas'
  BY DEF Puntas

\* A module with which nobody has a connection ends: the machine goes on.
LEMMA EnteraSalir ==
  ASSUME IInv, Entera, NEW m \in Modulo, Suelta(m), Salir(m)
  PROVE  Entera'
<1>1. Terminan({m}) /\ {m} \in SUBSET Modulo
  BY DEF Salir
<1>2. /\ con' \in Seq(Conexion) /\ Len(con') = Len(con)
      /\ \A i \in 1..Len(con) :
           /\ con'[i].handshake = con[i].handshake /\ con'[i].rol = con[i].rol
           /\ con'[i].enviado = con[i].enviado /\ con'[i].aceptada = con[i].aceptada
           /\ con'[i].respondida = con[i].respondida
           /\ con'[i].cliente <=> con[i].cliente /\ ClienteDe(con[i].handshake) \notin {m}
           /\ con'[i].servidor <=> con[i].servidor /\ ServidorDe(PuertoDe(con[i].handshake)) \notin {m}
  BY <1>1, ConTerminan DEF IInv
<1>3. /\ \A n \in Modulo : en'[n] = IF n = m THEN 0 ELSE en[n]
      /\ abiertos' = {p \in abiertos : ServidorDe(p) # m}
      /\ socket' = socket /\ aceptada' = aceptada /\ sinAtender' = sinAtender
  BY <1>1 DEF Terminan
<1>4. /\ DOMAIN con = 1..Len(con) /\ DOMAIN con' = 1..Len(con) /\ Len(con) \in Nat
      /\ \A i \in 1..Len(con) : con[i] \in Conexion
  BY <1>2 DEF IInv, TypeOK
<1>5. ASSUME NEW i \in 1..Len(con)
      PROVE  /\ con'[i].cliente <=> con[i].cliente
             /\ con'[i].servidor <=> con[i].servidor
  <2>1. con[i].cliente <=> con[i].servidor
    BY <1>4 DEF Entera, Puntas
  <2>2. CASE ~con[i].servidor
    BY <1>2, <2>1, <2>2
  <2>3. CASE con[i].servidor
    <3>1. con[i].handshake \in Handshake /\ Viva(con[i].handshake)
      BY <2>3, DeAbierta DEF Entera
    <3>2. ClienteDe(con[i].handshake) # m /\ ServidorDe(PuertoDe(con[i].handshake)) # m
      BY <3>1 DEF Suelta
    <3> QED BY <1>2, <2>1, <2>3, <3>2
  <2> QED BY <2>2, <2>3
<1>6. \A h \in Handshake : socket[h] \in 0..Len(con)
  BY DEF IInv, TypeOK
<1>7. Puntas'
  BY <1>2, <1>3, <1>4, <1>5, <1>6 DEF Entera, Puntas
<1>8. ASSUME NEW h \in Handshake PROVE Mismas(h) /\ (Viva(h) => UltimaDe(h)'.rol = UltimaDe(h).rol)
  <2>1. CASE socket[h] = 0
    BY <1>3, <2>1 DEF Mismas, Viva, Enviada, Aceptada, Respondida
  <2>2. CASE socket[h] # 0
    <3>1. socket[h] \in 1..Len(con)
      BY <1>4, <1>6, <2>2
    <3> QED BY <1>2, <1>3, <1>5, <3>1 DEF Mismas, Viva, Enviada, Aceptada, Respondida, UltimaDe
  <2> QED BY <2>1, <2>2
<1>9. /\ Mismas("cpu") /\ Mismas("kernel") /\ Mismas("dispatch") /\ Mismas("interrupt")
  BY <1>8 DEF Handshake
<1>10. /\ en'["memoria"] = IF m = "memoria" THEN 0 ELSE en["memoria"]
       /\ en'["cpu"] = IF m = "cpu" THEN 0 ELSE en["cpu"]
       /\ en'["kernel"] = IF m = "kernel" THEN 0 ELSE en["kernel"]
  BY <1>3 DEF Modulo
<1>11. /\ Viva("cpu") => m # "cpu" /\ m # "memoria"
       /\ Viva("kernel") => m # "kernel" /\ m # "memoria"
       /\ Viva("dispatch") => m # "kernel" /\ m # "cpu"
       /\ Viva("interrupt") => m # "kernel" /\ m # "cpu"
  BY Nombres DEF Suelta, Handshake
<1>12. LadoCliente'
  BY <1>9, <1>10, <1>11, Rangos DEF Entera, LadoCliente, Mismas, IInv
<1>13. Puertos'
  <2>1. \A p \in abiertos : p \in Puerto
    BY DEF IInv, TypeOK
  <2>2. "memoria" \in abiertos' <=> en'["memoria"] > 1 /\ "memoria" \notin Ocupados
    BY <1>3, <1>10, Nombres DEF Entera, Puertos
  <2>3. "dispatch" \in abiertos' <=> en'["cpu"] > 4
    BY <1>3, <1>10, Nombres DEF Entera, Puertos
  <2>4. "interrupt" \in abiertos' <=> en'["cpu"] > 5
    BY <1>3, <1>10, Nombres DEF Entera, Puertos
  <2>5. \A h \in Handshake : Viva(h)' => PuertoDe(h) \in abiertos'
    BY <1>3, <1>8 DEF Entera, Puertos, Mismas, Suelta
  <2> QED BY <2>2, <2>3, <2>4, <2>5 DEF Puertos
<1>14. LadoCpu'
  <2>1. /\ en["cpu"] > 6 => m # "cpu" 
    BY <1>11 DEF Entera, LadoCpu, Aceptada
  <2> QED BY <1>3, <1>9, <1>10, <2>1, Rangos DEF Entera, LadoCpu, Mismas, IInv
<1>15. en'["memoria"] > 0 => LadoMemoria'
  <2> SUFFICES ASSUME en'["memoria"] > 0 PROVE LadoMemoria'
    OBVIOUS
  <2>1. en'["memoria"] = en["memoria"] /\ sinAtender' = sinAtender /\ aceptada' = aceptada /\ socket' = socket
    BY <1>3, <1>10
  <2>2. LadoMemoria
    BY <2>1 DEF Entera
  <2>3. \A h \in {"cpu", "kernel"} : h \in Handshake
    BY DEF Handshake
  <2>4. sinAtender \subseteq {"cpu", "kernel"}
    BY DEF IInv, TypeOK
  <2> QED BY <1>8, <2>1, <2>2, <2>3, <2>4 DEF LadoMemoria, Mismas, Aceptada
<1> QED BY <1>7, <1>12, <1>13, <1>14, <1>15 DEF Entera

-----------------------------------------------------------------------------
(* It is kept by each step, if the ports of the CPU are free.              *)

\* Another program has none of the ports of the CPU.
PuertosDeCpuLibres == "dispatch" \notin Ocupados /\ "interrupt" \notin Ocupados

\* The four handshakes, by name.
LEMMA CuatroMismas ==
  ASSUME \A h \in Handshake : Mismas(h)
  PROVE  /\ Mismas("cpu") /\ Mismas("kernel") /\ Mismas("dispatch") /\ Mismas("interrupt")
  BY DEF Handshake

\* A main that is launched.
LEMMA EnteraLanzar ==
  ASSUME IInv, Entera, NEW m \in Modulo, Lanzar(m)
  PROVE  Entera'
<1>1. en[m] = 0 /\ en'[m] = 1 /\ \A n \in Modulo : n # m => en'[n] = en[n]
  BY Avanza DEF IInv, Lanzar
<1>2. UNCHANGED <<abiertos, con, socket, aceptada>>
      /\ sinAtender' = IF m = "memoria" THEN {"cpu", "kernel"} ELSE sinAtender
  BY DEF Lanzar
<1>3. \A h \in Handshake : Mismas(h)
  BY <1>2, Quietas
<1>4. /\ Mismas("cpu") /\ Mismas("kernel") /\ Mismas("dispatch") /\ Mismas("interrupt")
  BY <1>3, CuatroMismas
<1>5. /\ en["memoria"] = en'["memoria"] \/ (en["memoria"] = 0 /\ en'["memoria"] = 1 /\ m = "memoria")
      /\ en["cpu"] = en'["cpu"] \/ (en["cpu"] = 0 /\ en'["cpu"] = 1)
      /\ en["kernel"] = en'["kernel"] \/ (en["kernel"] = 0 /\ en'["kernel"] = 1)
  BY <1>1 DEF Modulo
<1>6. Puntas'
  BY <1>2, PuntasQuietas DEF Entera
<1>7. LadoCliente'
  BY <1>4, <1>5 DEF Entera, LadoCliente, Mismas
<1>8. Puertos'
  BY <1>2, <1>3, <1>5 DEF Entera, Puertos, Mismas
<1>9. LadoCpu'
  BY <1>2, <1>4, <1>5 DEF Entera, LadoCpu, Mismas
<1>10. en'["memoria"] > 0 => LadoMemoria'
  <2> SUFFICES ASSUME en'["memoria"] > 0 PROVE LadoMemoria'
    OBVIOUS
  <2>1. CASE m = "memoria"
    <3>1. en["memoria"] = 0 /\ en'["memoria"] = 1 /\ sinAtender' = {"cpu", "kernel"}
      BY <1>1, <1>2, <2>1
    <3>2. ~Viva("cpu") /\ ~Viva("kernel")
      BY <3>1, Nombres DEF Entera, Puertos, Handshake
    <3>3. \A h \in {"cpu", "kernel"} : ~Respondida(h)' /\ ~Aceptada(h)'
      BY <1>4, <3>2 DEF Mismas, Respondida, Aceptada
    <3> QED BY <3>1, <3>3 DEF LadoMemoria
  <2>2. CASE m # "memoria"
    <3>1. en'["memoria"] = en["memoria"] /\ sinAtender' = sinAtender /\ LadoMemoria
      BY <1>1, <1>2, <2>2 DEF Entera, Modulo
    <3>2. \A h \in {"cpu", "kernel"} : Mismas(h)
      BY <1>4
    <3>3. sinAtender \subseteq {"cpu", "kernel"}
      BY DEF IInv, TypeOK
    <3>4. \A h : UltimaDe(h)' = UltimaDe(h)
      BY <1>2 DEF UltimaDe
    <3> QED BY <1>2, <3>1, <3>2, <3>3, <3>4 DEF LadoMemoria, Mismas
  <2> QED BY <2>1, <2>2
<1> QED BY <1>6, <1>7, <1>8, <1>9, <1>10 DEF Entera

\* A main that opens a port.
LEMMA EnteraAbrir ==
  ASSUME PuertosDeCpuLibres, IInv, Entera, NEW m \in Modulo, Abrir(m)
  PROVE  Entera'
<1>1. PICK p \in Puerto : /\ Toca(m, "abrir", p)
                          /\ abiertos' = IF p \in Ocupados THEN abiertos ELSE abiertos \union {p}
  BY DEF Abrir
<1>2. Seguir(m) /\ UNCHANGED <<con, socket, aceptada, sinAtender>>
  BY DEF Abrir
<1>3. /\ \/ m = "memoria" /\ en[m] = 1 /\ p = "memoria"
         \/ m = "cpu" /\ en[m] = 4 /\ p = "dispatch"
         \/ m = "cpu" /\ en[m] = 5 /\ p = "interrupt"
         \/ m = "kernel" /\ en[m] = 10 /\ p = "escucha"
  BY <1>1, TocaAbrir DEF IInv
<1>4. en'[m] = en[m] + 1 /\ \A n \in Modulo : n # m => en'[n] = en[n]
  BY <1>2, Avanza DEF IInv
<1>5. \A h \in Handshake : Mismas(h)
  BY <1>2, Quietas
<1>6. /\ Mismas("cpu") /\ Mismas("kernel") /\ Mismas("dispatch") /\ Mismas("interrupt")
  BY <1>5, CuatroMismas
<1>7. \/ /\ p = "memoria" /\ en["memoria"] = 1 /\ en'["memoria"] = 2
         /\ en'["cpu"] = en["cpu"] /\ en'["kernel"] = en["kernel"]
      \/ /\ p = "dispatch" /\ en["cpu"] = 4 /\ en'["cpu"] = 5
         /\ en'["memoria"] = en["memoria"] /\ en'["kernel"] = en["kernel"]
      \/ /\ p = "interrupt" /\ en["cpu"] = 5 /\ en'["cpu"] = 6
         /\ en'["memoria"] = en["memoria"] /\ en'["kernel"] = en["kernel"]
      \/ /\ p = "escucha" /\ en["kernel"] = 10 /\ en'["kernel"] = 11
         /\ en'["memoria"] = en["memoria"] /\ en'["cpu"] = en["cpu"]
  BY <1>3, <1>4 DEF Modulo
<1>8. Puntas'
  BY <1>2, PuntasQuietas DEF Entera
<1>9. LadoCliente'
  BY <1>6, <1>7 DEF Entera, LadoCliente, Mismas
<1>10. Puertos'
  <2>1. \A h \in Handshake : Viva(h)' => PuertoDe(h) \in abiertos'
    BY <1>1, <1>5 DEF Entera, Puertos, Mismas
  <2>2. "memoria" \in abiertos' <=> en'["memoria"] > 1 /\ "memoria" \notin Ocupados
    BY <1>1, <1>7 DEF Entera, Puertos
  <2>3. "dispatch" \in abiertos' <=> en'["cpu"] > 4
    BY <1>1, <1>7 DEF Entera, Puertos, PuertosDeCpuLibres
  <2>4. "interrupt" \in abiertos' <=> en'["cpu"] > 5
    BY <1>1, <1>7 DEF Entera, Puertos, PuertosDeCpuLibres
  <2> QED BY <2>1, <2>2, <2>3, <2>4 DEF Puertos
<1>11. LadoCpu'
  BY <1>2, <1>6, <1>7 DEF Entera, LadoCpu, Mismas
<1>12. en'["memoria"] > 0 => LadoMemoria'
  <2> SUFFICES ASSUME en'["memoria"] > 0 PROVE LadoMemoria'
    OBVIOUS
  <2>1. /\ en'["memoria"] = en["memoria"] \/ (en["memoria"] = 1 /\ en'["memoria"] = 2)
        /\ sinAtender' = sinAtender /\ LadoMemoria
    BY <1>2, <1>7 DEF Entera
  <2>2. \A h \in {"cpu", "kernel"} : Mismas(h)
    BY <1>6
  <2>3. sinAtender \subseteq {"cpu", "kernel"}
    BY DEF IInv, TypeOK
  <2>4. \A h : UltimaDe(h)' = UltimaDe(h)
    BY <1>2 DEF UltimaDe
  <2> QED BY <1>2, <2>1, <2>2, <2>3, <2>4 DEF LadoMemoria, Mismas
<1> QED BY <1>8, <1>9, <1>10, <1>11, <1>12 DEF Entera

\* The whole machine goes down.
LEMMA EnteraMatar ==
  ASSUME IInv, Entera, Terminan(Modulo)
  PROVE  Entera'
<1>1. /\ con' \in Seq(Conexion) /\ Len(con') = Len(con)
      /\ \A i \in 1..Len(con) :
           /\ con'[i].handshake = con[i].handshake
           /\ con'[i].cliente <=> con[i].cliente /\ ClienteDe(con[i].handshake) \notin Modulo
           /\ con'[i].servidor <=> con[i].servidor /\ ServidorDe(PuertoDe(con[i].handshake)) \notin Modulo
  BY ConTerminan DEF IInv
<1>2. /\ \A n \in Modulo : en'[n] = 0
      /\ abiertos' = {p \in abiertos : ServidorDe(p) \notin Modulo}
      /\ socket' = socket
  BY DEF Terminan
<1>3. /\ DOMAIN con = 1..Len(con) /\ DOMAIN con' = 1..Len(con) /\ Len(con) \in Nat
      /\ \A i \in 1..Len(con) : con[i] \in Conexion
  BY <1>1 DEF IInv, TypeOK
<1>4. \A i \in 1..Len(con) : ~con'[i].cliente /\ ~con'[i].servidor
  BY <1>1, <1>3, Campos, Nombres
<1>5. ASSUME NEW h \in Handshake PROVE ~Viva(h)'
  <2>1. socket[h] \in 0..Len(con)
    BY DEF IInv, TypeOK
  <2> QED BY <1>2, <1>3, <1>4, <2>1 DEF Viva, UltimaDe
<1>6. \A h \in {"cpu", "kernel", "dispatch", "interrupt"} :
        ~Viva(h)' /\ ~Enviada(h)' /\ ~Aceptada(h)' /\ ~Respondida(h)'
  BY <1>5 DEF Handshake, Enviada, Aceptada, Respondida
<1>7. en'["memoria"] = 0 /\ en'["cpu"] = 0 /\ en'["kernel"] = 0
  BY <1>2 DEF Modulo
<1>8. \A p \in Puerto : p \notin abiertos'
  BY <1>2, Nombres
<1>9. Puntas'
  <2>1. \A h \in Handshake : socket[h] # 0 => con'[socket[h]].handshake = h
    <3>1. \A h \in Handshake : socket[h] \in 0..Len(con)
      BY DEF IInv, TypeOK
    <3> QED BY <1>1, <1>3, <3>1 DEF Entera, Puntas
  <2> QED BY <1>2, <1>3, <1>4, <2>1 DEF Puntas
<1>10. LadoCliente'
  BY <1>6, <1>7 DEF LadoCliente
<1>11. Puertos'
  BY <1>5, <1>7, <1>8 DEF Puertos, Puerto
<1>12. LadoCpu'
  BY <1>6, <1>7 DEF LadoCpu
<1> QED BY <1>7, <1>9, <1>10, <1>11, <1>12 DEF Entera

\* A main that connects, or finds that it cannot and has no connection.
LEMMA EnteraConectar ==
  ASSUME IInv, Entera, NEW m \in Modulo, Conectar(m)
  PROVE  Entera' /\ (Suelta(m) \/ en'[m] > 0)
<1>1. PICK h \in Handshake :
        /\ Toca(m, "conectar", h)
        /\ IF Conectable(h)
           THEN /\ Len(con) < MaxConexiones
                /\ con' = Append(con, ConexionNueva(h))
                /\ socket' = [socket EXCEPT ![h] = Len(con')]
                /\ Seguir(m)
                /\ UNCHANGED <<abiertos, aceptada, sinAtender>>
           ELSE IF h = "kernel"
           THEN /\ socket' = [socket EXCEPT ![h] = 0]
                /\ Seguir(m)
                /\ UNCHANGED <<abiertos, con, aceptada, sinAtender>>
           ELSE Salir(m)
  BY DEF Conectar
<1>2. /\ m = ClienteDe(h)
      /\ \/ m = "cpu" /\ h = "cpu" /\ en["cpu"] = 1
         \/ m = "kernel" /\ h = "dispatch" /\ en["kernel"] = 1
         \/ m = "kernel" /\ h = "interrupt" /\ en["kernel"] = 4
         \/ m = "kernel" /\ h = "kernel" /\ en["kernel"] = 7
  BY <1>1, TocaCliente DEF IInv
<1>3. CASE ~Conectable(h)
  <2>1. h # "interrupt"
    <3>1. ASSUME h = "interrupt" PROVE FALSE
      <4>1. Respondida("dispatch")
        BY <1>2, <3>1 DEF Entera, LadoCliente
      <4>2. en["cpu"] > 8
        BY <4>1 DEF Entera, LadoCpu
      <4>3. "interrupt" \in abiertos
        BY <4>2, Rangos DEF Entera, Puertos, IInv
      <4> QED BY <1>3, <3>1, <4>3, Nombres DEF Conectable
    <3> QED BY <3>1
  <2>2. h # "kernel"
    <3>1. ASSUME h = "kernel" PROVE FALSE
      <4>1. Respondida("interrupt")
        BY <1>2, <3>1 DEF Entera, LadoCliente
      <4>2. en["cpu"] > 11
        BY <4>1 DEF Entera, LadoCpu
      <4>3. Viva("cpu")
        BY <4>2, Rangos DEF Entera, LadoCliente, IInv
      <4>4. "memoria" \in abiertos
        BY <4>3, Nombres DEF Entera, Puertos, Handshake
      <4> QED BY <1>3, <3>1, <4>4, Nombres DEF Conectable
    <3> QED BY <3>1
  <2>3. Suelta(m)
    <3>1. CASE m = "cpu"
      <4>1. ~Viva("cpu") /\ "dispatch" \notin abiertos /\ "interrupt" \notin abiertos
        BY <1>2, <3>1 DEF Entera, LadoCliente, Puertos
      <4>2. ~Viva("dispatch") /\ ~Viva("interrupt")
        BY <4>1, Nombres DEF Entera, Puertos, Handshake
      <4> QED BY <3>1, <4>1, <4>2, Nombres DEF Suelta, Handshake
    <3>2. CASE m = "kernel"
      <4>1. ~Viva("dispatch") /\ ~Viva("interrupt") /\ ~Viva("kernel")
        BY <1>2, <2>1, <2>2, <3>2 DEF Entera, LadoCliente
      <4> QED BY <3>2, <4>1, Nombres DEF Suelta, Handshake
    <3> QED BY <1>2, <3>1, <3>2
  <2>4. Salir(m)
    BY <1>1, <1>3, <2>2
  <2> QED BY <2>3, <2>4, EnteraSalir
<1>4. CASE Conectable(h)
  <2>1. /\ con' = Append(con, ConexionNueva(h)) /\ socket' = [socket EXCEPT ![h] = Len(con')]
        /\ Seguir(m) /\ UNCHANGED <<abiertos, aceptada, sinAtender>>
    BY <1>1, <1>4
  <2>2. /\ con' \in Seq(Conexion) /\ Len(con') = Len(con) + 1
        /\ \A i \in 1..Len(con) : Intacta(i)
        /\ con'[Len(con')].handshake = h
        /\ con'[Len(con')].cliente /\ con'[Len(con')].servidor
        /\ ~con'[Len(con')].enviado /\ ~con'[Len(con')].aceptada /\ ~con'[Len(con')].respondida
    BY <2>1, ConConectar DEF IInv
  <2>3. PICK n : n = Len(con')
    OBVIOUS
  <2>4. /\ Len(con) \in Nat /\ n = Len(con) + 1
        /\ DOMAIN con = 1..Len(con) /\ DOMAIN con' = 1..n
        /\ \A i \in 1..Len(con) : con[i] \in Conexion
    BY <2>2, <2>3 DEF IInv, TypeOK
  <2>5. /\ socket'[h] = n /\ \A g \in Handshake : g # h => socket'[g] = socket[g]
        /\ \A g \in Handshake : socket[g] \in 0..Len(con)
    BY <2>1, <2>3 DEF IInv, TypeOK
  <2>6. en'[m] = en[m] + 1 /\ \A x \in Modulo : x # m => en'[x] = en[x]
    BY <2>1, Avanza DEF IInv
  <2>7. ~Viva(h) /\ ~Enviada(h) /\ ~Aceptada(h) /\ ~Respondida(h)
    <3>1. ~Viva(h)
      BY <1>2 DEF Entera, LadoCliente
    <3> QED BY <3>1 DEF Enviada, Aceptada, Respondida
  <2>8. Viva(h)' /\ ~Enviada(h)' /\ ~Aceptada(h)' /\ ~Respondida(h)'
    <3>1. Viva(h)'
      BY <2>2, <2>3, <2>4, <2>5 DEF Viva, UltimaDe
    <3>2. ~UltimaDe(h)'.enviado /\ ~UltimaDe(h)'.aceptada /\ ~UltimaDe(h)'.respondida
      BY <2>2, <2>3, <2>5 DEF UltimaDe
    <3> QED BY <3>1, <3>2 DEF Enviada, Aceptada, Respondida
  <2>9. ASSUME NEW g \in Handshake, g # h PROVE Mismas(g) /\ (Viva(g) => UltimaDe(g)'.rol = UltimaDe(g).rol)
    <3>1. CASE socket[g] = 0
      BY <2>5, <2>9, <3>1 DEF Mismas, Viva, Enviada, Aceptada, Respondida
    <3>2. CASE socket[g] # 0
      <4>1. socket[g] \in 1..Len(con)
        BY <2>4, <2>5, <3>2
      <4> QED BY <2>2, <2>5, <2>9, <4>1 DEF Intacta, Mismas, Viva, Enviada, Aceptada, Respondida, UltimaDe
    <3> QED BY <3>1, <3>2
  <2>10. Puntas'
    <3>1. ASSUME NEW i \in DOMAIN con' PROVE con'[i].cliente <=> con'[i].servidor
      <4>1. CASE i = n
        BY <2>2, <2>3, <4>1
      <4>2. CASE i # n
        BY <2>2, <2>4, <4>2 DEF Intacta, Entera, Puntas
      <4> QED BY <4>1, <4>2
    <3>2. ASSUME NEW i \in DOMAIN con', con'[i].cliente PROVE socket'[con'[i].handshake] = i
      <4>1. CASE i = n
        BY <2>2, <2>3, <2>5, <4>1
      <4>2. CASE i # n
        <5>1. i \in 1..Len(con) /\ con[i].cliente /\ con'[i].handshake = con[i].handshake
          BY <2>2, <2>4, <3>2, <4>2 DEF Intacta
        <5>2. con[i].servidor
          BY <2>4, <5>1 DEF Entera, Puntas
        <5>3. con[i].handshake \in Handshake /\ socket[con[i].handshake] = i /\ Viva(con[i].handshake)
          BY <5>1, <5>2, DeAbierta DEF Entera
        <5>4. con[i].handshake # h
          BY <2>7, <5>3
        <5> QED BY <2>5, <5>1, <5>3, <5>4
      <4> QED BY <4>1, <4>2
    <3>3. ASSUME NEW g \in Handshake, socket'[g] # 0 PROVE con'[socket'[g]].handshake = g
      <4>1. CASE g = h
        BY <2>2, <2>3, <2>5, <4>1
      <4>2. CASE g # h
        <5>1. socket'[g] = socket[g] /\ socket[g] \in 1..Len(con)
          BY <2>4, <2>5, <3>3, <4>2
        <5> QED BY <2>2, <3>3, <5>1 DEF Intacta, Entera, Puntas
      <4> QED BY <4>1, <4>2
    <3> QED BY <3>1, <3>2, <3>3 DEF Puntas
  <2>11. LadoCliente'
    <3>1. CASE h = "cpu"
      <4>1. en["cpu"] = 1 /\ en'["cpu"] = 2 /\ en'["kernel"] = en["kernel"]
        BY <1>2, <2>6, <3>1 DEF Modulo
      <4>2. Mismas("kernel") /\ Mismas("dispatch") /\ Mismas("interrupt")
        BY <2>9, <3>1 DEF Handshake
      <4> QED BY <2>8, <3>1, <4>1, <4>2 DEF Entera, LadoCliente, Mismas
    <3>2. CASE h = "dispatch"
      <4>1. en["kernel"] = 1 /\ en'["kernel"] = 2 /\ en'["cpu"] = en["cpu"]
        BY <1>2, <2>6, <3>2 DEF Modulo
      <4>2. Mismas("kernel") /\ Mismas("cpu") /\ Mismas("interrupt")
        BY <2>9, <3>2 DEF Handshake
      <4> QED BY <2>8, <3>2, <4>1, <4>2 DEF Entera, LadoCliente, Mismas
    <3>3. CASE h = "interrupt"
      <4>1. en["kernel"] = 4 /\ en'["kernel"] = 5 /\ en'["cpu"] = en["cpu"]
        BY <1>2, <2>6, <3>3 DEF Modulo
      <4>2. Mismas("kernel") /\ Mismas("cpu") /\ Mismas("dispatch")
        BY <2>9, <3>3 DEF Handshake
      <4> QED BY <2>8, <3>3, <4>1, <4>2 DEF Entera, LadoCliente, Mismas
    <3>4. CASE h = "kernel"
      <4>1. en["kernel"] = 7 /\ en'["kernel"] = 8 /\ en'["cpu"] = en["cpu"]
        BY <1>2, <2>6, <3>4 DEF Modulo
      <4>2. Mismas("interrupt") /\ Mismas("cpu") /\ Mismas("dispatch")
        BY <2>9, <3>4 DEF Handshake
      <4> QED BY <2>8, <3>4, <4>1, <4>2 DEF Entera, LadoCliente, Mismas
    <3> QED BY <1>2, <3>1, <3>2, <3>3, <3>4
  <2>12. /\ en'["memoria"] = en["memoria"]
         /\ en'["cpu"] = en["cpu"] \/ (en["cpu"] = 1 /\ en'["cpu"] = 2)
    BY <1>2, <2>6 DEF Modulo
  <2>13. Puertos'
    <3>1. \A g \in Handshake : Viva(g)' => PuertoDe(g) \in abiertos'
      BY <1>4, <2>1, <2>9 DEF Entera, Puertos, Mismas, Conectable
    <3> QED BY <2>1, <2>12, <3>1 DEF Entera, Puertos
  <2>14. LadoCpu'
    <3>1. Aceptada("dispatch")' <=> Aceptada("dispatch")
      BY <2>7, <2>8, <2>9 DEF Mismas, Handshake
    <3>2. Respondida("dispatch")' <=> Respondida("dispatch")
      BY <2>7, <2>8, <2>9 DEF Mismas, Handshake
    <3>3. Aceptada("interrupt")' <=> Aceptada("interrupt")
      BY <2>7, <2>8, <2>9 DEF Mismas, Handshake
    <3>4. Respondida("interrupt")' <=> Respondida("interrupt")
      BY <2>7, <2>8, <2>9 DEF Mismas, Handshake
    <3>5. en["cpu"] \in {7, 8} => socket'["dispatch"] = socket["dispatch"]
      BY <2>5, <2>7 DEF Entera, LadoCpu, Handshake
    <3>6. en["cpu"] \in {10, 11} => socket'["interrupt"] = socket["interrupt"]
      BY <2>5, <2>7 DEF Entera, LadoCpu, Handshake
    <3> QED BY <2>1, <2>12, <3>1, <3>2, <3>3, <3>4, <3>5, <3>6 DEF Entera, LadoCpu
  <2>15. en'["memoria"] > 0 => LadoMemoria'
    <3> SUFFICES ASSUME en'["memoria"] > 0 PROVE LadoMemoria'
      OBVIOUS
    <3>1. LadoMemoria /\ en'["memoria"] = en["memoria"] /\ sinAtender' = sinAtender /\ aceptada' = aceptada
      BY <2>1, <2>12 DEF Entera
    <3>2. \A g \in {"cpu", "kernel"} :
            (Respondida(g)' <=> Respondida(g)) /\ (Aceptada(g)' <=> Aceptada(g))
      BY <2>7, <2>8, <2>9 DEF Mismas, Handshake
    <3>3. \A g \in {"cpu", "kernel"} : Aceptada(g) => socket'[g] = socket[g] /\ UltimaDe(g)'.rol = UltimaDe(g).rol
      BY <2>5, <2>7, <2>9 DEF Handshake, Aceptada
    <3>4. sinAtender \subseteq {"cpu", "kernel"}
      BY DEF IInv, TypeOK
    <3> QED BY <3>1, <3>2, <3>3, <3>4 DEF LadoMemoria
  <2>16. en'[m] > 0
    BY <2>6, Rangos DEF IInv
  <2> QED BY <2>10, <2>11, <2>13, <2>14, <2>15, <2>16 DEF Entera
<1> QED BY <1>3, <1>4

\* A main that sends its handshake.
LEMMA EnteraEnviar ==
  ASSUME IInv, Entera, NEW m \in Modulo, Enviar(m)
  PROVE  Entera' /\ en'[m] > 0
<1>1. PICK h \in Handshake : Toca(m, "enviar", h) /\ SeEnvia(socket[h])
  BY DEF Enviar, SeEnvia
<1>2. Seguir(m) /\ UNCHANGED <<abiertos, socket, aceptada, sinAtender>>
  BY DEF Enviar
<1>3. \/ m = "cpu" /\ h = "cpu" /\ en["cpu"] = 2
      \/ m = "kernel" /\ h = "dispatch" /\ en["kernel"] = 2
      \/ m = "kernel" /\ h = "interrupt" /\ en["kernel"] = 5
      \/ m = "kernel" /\ h = "kernel" /\ en["kernel"] = 8
  BY <1>1, TocaCliente DEF IInv
<1>4. \A g \in Handshake : socket[g] \in 0..Len(con)
  BY DEF IInv, TypeOK
<1>5. /\ con' \in Seq(Conexion) /\ Len(con') = Len(con)
      /\ \A i \in 1..Len(con) :
           /\ con'[i].handshake = con[i].handshake /\ con'[i].rol = con[i].rol
           /\ con'[i].cliente = con[i].cliente /\ con'[i].servidor = con[i].servidor
           /\ con'[i].aceptada = con[i].aceptada /\ con'[i].respondida = con[i].respondida
           /\ con'[i].enviado <=> con[i].enviado \/ i = socket[h]
  BY <1>1, <1>4, ConEnviar DEF IInv
<1>6. /\ Len(con) \in Nat /\ DOMAIN con = 1..Len(con) /\ DOMAIN con' = 1..Len(con)
  BY <1>5 DEF IInv, TypeOK
<1>7. en'[m] = en[m] + 1 /\ \A x \in Modulo : x # m => en'[x] = en[x]
  BY <1>2, Avanza DEF IInv
<1>8. Viva(h)
  BY <1>3 DEF Entera, LadoCliente
<1>9. ASSUME NEW g \in Handshake
      PROVE  /\ Viva(g)' <=> Viva(g)
             /\ Aceptada(g)' <=> Aceptada(g)
             /\ Respondida(g)' <=> Respondida(g)
             /\ Viva(g) => UltimaDe(g)'.rol = UltimaDe(g).rol
             /\ g # h => (Enviada(g)' <=> Enviada(g))
             /\ g = h => Enviada(g)'
  <2>1. CASE socket[g] = 0
    BY <1>2, <1>8, <2>1 DEF Viva, Enviada, Aceptada, Respondida
  <2>2. CASE socket[g] # 0
    <3>1. socket[g] \in 1..Len(con)
      BY <1>4, <1>6, <2>2
    <3>2. socket[g] = socket[h] => g = h
      BY <1>6, <1>8, <2>2 DEF Entera, Puntas, Viva
    <3> QED BY <1>2, <1>5, <1>8, <3>1, <3>2 DEF Viva, Enviada, Aceptada, Respondida, UltimaDe
  <2> QED BY <2>1, <2>2
<1>10. Puntas'
  BY <1>2, <1>4, <1>5, <1>6 DEF Entera, Puntas
<1>11. /\ en'["memoria"] = en["memoria"]
       /\ \/ /\ h = "cpu" /\ en["cpu"] = 2 /\ en'["cpu"] = 3 /\ en'["kernel"] = en["kernel"]
          \/ /\ h = "dispatch" /\ en["kernel"] = 2 /\ en'["kernel"] = 3 /\ en'["cpu"] = en["cpu"]
          \/ /\ h = "interrupt" /\ en["kernel"] = 5 /\ en'["kernel"] = 6 /\ en'["cpu"] = en["cpu"]
          \/ /\ h = "kernel" /\ en["kernel"] = 8 /\ en'["kernel"] = 9 /\ en'["cpu"] = en["cpu"]
  BY <1>3, <1>7 DEF Modulo
<1>12. LadoCliente'
  <2>1. \A g \in {"cpu", "kernel", "dispatch", "interrupt"} :
           /\ Viva(g)' <=> Viva(g)
           /\ Respondida(g)' <=> Respondida(g)
           /\ g # h => (Enviada(g)' <=> Enviada(g))
           /\ g = h => Enviada(g)'
    BY <1>9 DEF Handshake
  <2> QED BY <1>11, <2>1 DEF Entera, LadoCliente
<1>13. Puertos'
  BY <1>2, <1>9, <1>11 DEF Entera, Puertos
<1>14. LadoCpu'
  <2>1. \A g \in {"dispatch", "interrupt"} :
           (Aceptada(g)' <=> Aceptada(g)) /\ (Respondida(g)' <=> Respondida(g))
    BY <1>9 DEF Handshake
  <2> QED BY <1>2, <1>11, <2>1 DEF Entera, LadoCpu
<1>15. en'["memoria"] > 0 => LadoMemoria'
  <2> SUFFICES ASSUME en'["memoria"] > 0 PROVE LadoMemoria'
    OBVIOUS
  <2>1. LadoMemoria /\ en'["memoria"] = en["memoria"]
    BY <1>11 DEF Entera
  <2>2. \A g \in {"cpu", "kernel"} :
          /\ (Respondida(g)' <=> Respondida(g)) /\ (Aceptada(g)' <=> Aceptada(g))
          /\ Aceptada(g) => UltimaDe(g)'.rol = UltimaDe(g).rol
    BY <1>9 DEF Handshake, Aceptada
  <2>3. sinAtender \subseteq {"cpu", "kernel"}
    BY DEF IInv, TypeOK
  <2> QED BY <1>2, <2>1, <2>2, <2>3 DEF LadoMemoria
<1>16. en'[m] > 0
  BY <1>7, Rangos DEF IInv
<1> QED BY <1>10, <1>12, <1>13, <1>14, <1>15, <1>16 DEF Entera

\* A main that reads the answer: it is the one it waits for.
LEMMA EnteraEsperar ==
  ASSUME IInv, Entera, NEW m \in Modulo, Esperar(m)
  PROVE  Entera' /\ en'[m] > 0
<1>1. PICK h \in Handshake :
        /\ Toca(m, "esperar", h)
        /\ \E r \in LeeCliente(socket[h]) :
             IF r = "ok_continue"
             THEN Seguir(m) /\ UNCHANGED <<abiertos, con, socket, aceptada, sinAtender>>
             ELSE Salir(m)
  BY DEF Esperar
<1>2. \/ m = "cpu" /\ h = "cpu" /\ en["cpu"] = 3
      \/ m = "kernel" /\ h = "dispatch" /\ en["kernel"] = 3
      \/ m = "kernel" /\ h = "interrupt" /\ en["kernel"] = 6
      \/ m = "kernel" /\ h = "kernel" /\ en["kernel"] = 9
  BY <1>1, TocaCliente DEF IInv
<1>3. Viva(h)
  BY <1>2 DEF Entera, LadoCliente
<1>4. socket[h] # 0 /\ UltimaDe(h).servidor
  BY <1>3, DeViva DEF Viva, Entera
<1>5. LeeCliente(socket[h]) = IF UltimaDe(h).respondida THEN {"ok_continue"} ELSE {}
  BY <1>4 DEF LeeCliente, UltimaDe
<1>6. Respondida(h) /\ Seguir(m) /\ UNCHANGED <<abiertos, con, socket, aceptada, sinAtender>>
  BY <1>1, <1>3, <1>5 DEF Respondida
<1>7. en'[m] = en[m] + 1 /\ \A x \in Modulo : x # m => en'[x] = en[x]
  BY <1>6, Avanza DEF IInv
<1>8. \A g \in Handshake : Mismas(g)
  BY <1>6, Quietas
<1>9. /\ Mismas("cpu") /\ Mismas("kernel") /\ Mismas("dispatch") /\ Mismas("interrupt")
  BY <1>8, CuatroMismas
<1>10. /\ en'["memoria"] = en["memoria"]
       /\ \/ /\ h = "cpu" /\ en["cpu"] = 3 /\ en'["cpu"] = 4 /\ en'["kernel"] = en["kernel"]
          \/ /\ h = "dispatch" /\ en["kernel"] = 3 /\ en'["kernel"] = 4 /\ en'["cpu"] = en["cpu"]
          \/ /\ h = "interrupt" /\ en["kernel"] = 6 /\ en'["kernel"] = 7 /\ en'["cpu"] = en["cpu"]
          \/ /\ h = "kernel" /\ en["kernel"] = 9 /\ en'["kernel"] = 10 /\ en'["cpu"] = en["cpu"]
  BY <1>2, <1>7 DEF Modulo
<1>11. Puntas'
  BY <1>6, PuntasQuietas DEF Entera
<1>12. LadoCliente'
  BY <1>6, <1>9, <1>10 DEF Entera, LadoCliente, Mismas
<1>13. Puertos'
  BY <1>6, <1>8, <1>10 DEF Entera, Puertos, Mismas
<1>14. LadoCpu'
  BY <1>6, <1>9, <1>10 DEF Entera, LadoCpu, Mismas
<1>15. en'["memoria"] > 0 => LadoMemoria'
  <2> SUFFICES ASSUME en'["memoria"] > 0 PROVE LadoMemoria'
    OBVIOUS
  <2>1. LadoMemoria /\ en'["memoria"] = en["memoria"]
    BY <1>10 DEF Entera
  <2>2. \A g \in {"cpu", "kernel"} : Mismas(g)
    BY <1>9
  <2>3. sinAtender \subseteq {"cpu", "kernel"}
    BY DEF IInv, TypeOK
  <2>4. \A g : UltimaDe(g)' = UltimaDe(g)
    BY <1>6 DEF UltimaDe
  <2> QED BY <1>6, <2>1, <2>2, <2>3, <2>4 DEF LadoMemoria, Mismas
<1>16. en'[m] > 0
  BY <1>7, Rangos DEF IInv
<1> QED BY <1>11, <1>12, <1>13, <1>14, <1>15, <1>16 DEF Entera

\* The steps of a server leave the ends of the connections where they were.
LEMMA PuntasServidor ==
  ASSUME IInv, Puntas, socket' = socket, Len(con') = Len(con), con' \in Seq(Conexion),
         \A i \in 1..Len(con) :
           /\ con'[i].handshake = con[i].handshake
           /\ con'[i].cliente = con[i].cliente /\ con'[i].servidor = con[i].servidor
  PROVE  Puntas'
<1>1. DOMAIN con = 1..Len(con) /\ DOMAIN con' = 1..Len(con) /\ Len(con) \in Nat
  BY DEF IInv, TypeOK
<1>2. \A g \in Handshake : socket[g] \in 0..Len(con)
  BY DEF IInv, TypeOK
<1> QED BY <1>1, <1>2 DEF Puntas

\* A main that accepts; if it has no port nobody is connected to it.
LEMMA EnteraAceptar ==
  ASSUME IInv, Entera, NEW m \in Modulo, Aceptar(m)
  PROVE  Entera' /\ (Suelta(m) \/ en'[m] > 0)
<1>1. PICK p \in Puerto :
        /\ Toca(m, "aceptar", p)
        /\ IF p \in abiertos
           THEN /\ Pendientes(p) # {}
                /\ aceptada' = [aceptada EXCEPT ![m] = Primera(p)]
                /\ con' = [con EXCEPT ![Primera(p)].aceptada = TRUE]
                /\ Seguir(m)
                /\ UNCHANGED <<abiertos, socket, sinAtender>>
           ELSE Salir(m)
  BY DEF Aceptar
<1>2. \/ m = "memoria" /\ p = "memoria" /\ en["memoria"] \in {2, 5}
      \/ m = "cpu" /\ p = "dispatch" /\ en["cpu"] = 6
      \/ m = "cpu" /\ p = "interrupt" /\ en["cpu"] = 9
  BY <1>1, TocaServidor DEF IInv
<1>3. CASE p \notin abiertos
  <2>1. m = "memoria"
    BY <1>2, <1>3 DEF Entera, Puertos
  <2>2. ~Viva("cpu") /\ ~Viva("kernel")
    BY <1>2, <1>3, <2>1, Nombres DEF Entera, Puertos, Handshake
  <2>3. Suelta(m)
    BY <2>1, <2>2, Nombres DEF Suelta, Handshake
  <2> QED BY <1>1, <1>3, <2>3, EnteraSalir
<1>4. CASE p \in abiertos
  <2>1. PICK k : k = Primera(p)
    OBVIOUS
  <2>2. /\ k \in 1..Len(con) /\ PuertoDe(con[k].handshake) = p /\ con[k].servidor /\ ~con[k].aceptada
    BY <1>1, <1>4, <2>1, HayPrimera DEF IInv, TypeOK, Pendientes
  <2>3. /\ aceptada' = [aceptada EXCEPT ![m] = k] /\ con' = [con EXCEPT ![k].aceptada = TRUE]
        /\ Seguir(m) /\ UNCHANGED <<abiertos, socket, sinAtender>>
    BY <1>1, <1>4, <2>1
  <2>4. /\ con' \in Seq(Conexion) /\ Len(con') = Len(con)
        /\ \A i \in 1..Len(con) : i # k => Intacta(i)
        /\ con'[k].aceptada
        /\ con'[k].handshake = con[k].handshake /\ con'[k].rol = con[k].rol
        /\ con'[k].cliente = con[k].cliente /\ con'[k].servidor = con[k].servidor
        /\ con'[k].enviado = con[k].enviado /\ con'[k].respondida = con[k].respondida
    BY <2>2, <2>3, ConAceptar DEF IInv
  <2>5. \A i \in 1..Len(con) :
           /\ con'[i].handshake = con[i].handshake /\ con'[i].rol = con[i].rol
           /\ con'[i].cliente = con[i].cliente /\ con'[i].servidor = con[i].servidor
           /\ con'[i].enviado = con[i].enviado /\ con'[i].respondida = con[i].respondida
           /\ i # k => con'[i].aceptada = con[i].aceptada
    BY <2>4 DEF Intacta
  <2>6. PICK h \in Handshake : h = con[k].handshake /\ socket[h] = k /\ Viva(h) /\ UltimaDe(h) = con[k]
    BY <2>2, DeAbierta DEF Entera
  <2>7. PuertoDe(h) = p /\ ~Aceptada(h)
    BY <2>2, <2>6 DEF Aceptada
  <2>8. \A g \in Handshake : socket[g] \in 0..Len(con) /\ Len(con) \in Nat
    BY DEF IInv, TypeOK
  <2>9. ASSUME NEW g \in Handshake
        PROVE  /\ Viva(g)' <=> Viva(g)
               /\ Enviada(g)' <=> Enviada(g)
               /\ Respondida(g)' <=> Respondida(g)
               /\ Viva(g) => UltimaDe(g)'.rol = UltimaDe(g).rol
               /\ g # h => (Aceptada(g)' <=> Aceptada(g))
               /\ g = h => Aceptada(g)'
    <3>1. CASE socket[g] = 0
      BY <2>3, <2>6, <3>1 DEF Viva, Enviada, Aceptada, Respondida
    <3>2. CASE socket[g] # 0
      <4>1. socket[g] \in 1..Len(con)
        BY <2>8, <3>2
      <4>2. socket[g] = k => g = h
        BY <2>6, <3>2 DEF Entera, Puntas
      <4>3. Viva(g)' <=> Viva(g)
        BY <2>3, <2>5, <4>1 DEF Viva, UltimaDe
      <4>4. g = h => Aceptada(g)'
        BY <2>3, <2>4, <2>6, <4>3 DEF Aceptada, UltimaDe
      <4> QED BY <2>3, <2>5, <4>1, <4>2, <4>3, <4>4 DEF Enviada, Aceptada, Respondida, UltimaDe
    <3> QED BY <3>1, <3>2
  <2>10. en'[m] = en[m] + 1 /\ \A x \in Modulo : x # m => en'[x] = en[x]
    BY <2>3, Avanza DEF IInv
  <2>11. aceptada'[m] = k /\ \A x \in Modulo : x # m => aceptada'[x] = aceptada[x]
    BY <2>3 DEF IInv, TypeOK
  <2>12. /\ en'["kernel"] = en["kernel"]
         /\ \/ /\ m = "memoria" /\ h \in {"cpu", "kernel"} /\ en["memoria"] \in {2, 5}
               /\ en'["memoria"] = en["memoria"] + 1 /\ en'["cpu"] = en["cpu"]
               /\ aceptada'["memoria"] = k /\ aceptada'["cpu"] = aceptada["cpu"]
            \/ /\ m = "cpu" /\ h = "dispatch" /\ en["cpu"] = 6 /\ en'["cpu"] = 7
               /\ en'["memoria"] = en["memoria"] /\ aceptada'["memoria"] = aceptada["memoria"]
               /\ aceptada'["cpu"] = k
            \/ /\ m = "cpu" /\ h = "interrupt" /\ en["cpu"] = 9 /\ en'["cpu"] = 10
               /\ en'["memoria"] = en["memoria"] /\ aceptada'["memoria"] = aceptada["memoria"]
               /\ aceptada'["cpu"] = k
    <3>1. p = "memoria" => h \in {"cpu", "kernel"}
      BY <2>7, Nombres DEF Handshake
    <3>2. p = "dispatch" => h = "dispatch"
      BY <2>7, Nombres DEF Handshake
    <3>3. p = "interrupt" => h = "interrupt"
      BY <2>7, Nombres DEF Handshake
    <3> QED BY <1>2, <2>10, <2>11, <3>1, <3>2, <3>3 DEF Modulo
  <2>13. Puntas'
    BY <2>3, <2>4, <2>5, PuntasServidor DEF Entera
  <2>14. /\ en'["cpu"] = en["cpu"] \/ (en["cpu"] = 6 /\ en'["cpu"] = 7) \/ (en["cpu"] = 9 /\ en'["cpu"] = 10)
         /\ en'["memoria"] = en["memoria"] \/ (en["memoria"] = 2 /\ en'["memoria"] = 3) \/ (en["memoria"] = 5 /\ en'["memoria"] = 6)
    BY <2>12
  <2>15. LadoCliente'
    <3>1. \A g \in {"cpu", "kernel", "dispatch", "interrupt"} :
             /\ Viva(g)' <=> Viva(g)
             /\ Enviada(g)' <=> Enviada(g)
             /\ Respondida(g)' <=> Respondida(g)
      BY <2>9 DEF Handshake
    <3> QED BY <2>12, <2>14, <3>1 DEF Entera, LadoCliente
  <2>16. Puertos'
    BY <2>3, <2>9, <2>14 DEF Entera, Puertos
  <2>17. LadoCpu'
    <3>1. \A g \in {"dispatch", "interrupt"} :
             /\ Respondida(g)' <=> Respondida(g)
             /\ g # h => (Aceptada(g)' <=> Aceptada(g))
             /\ g = h => Aceptada(g)'
      BY <2>9 DEF Handshake
    <3>2. socket' = socket /\ socket[h] = k
      BY <2>3, <2>6
    <3> QED BY <2>12, <3>1, <3>2 DEF Entera, LadoCpu
  <2>18. en'["memoria"] > 0 => LadoMemoria'
    <3> SUFFICES ASSUME en'["memoria"] > 0 PROVE LadoMemoria'
      OBVIOUS
    <3>1. LadoMemoria
      BY <2>14 DEF Entera
    <3>2. sinAtender \subseteq {"cpu", "kernel"} /\ sinAtender' = sinAtender
      BY <2>3 DEF IInv, TypeOK
    <3>3. \A g \in {"cpu", "kernel"} :
             /\ Respondida(g)' <=> Respondida(g)
             /\ g # h => (Aceptada(g)' <=> Aceptada(g))
             /\ g = h => Aceptada(g)'
             /\ Aceptada(g) => UltimaDe(g)'.rol = UltimaDe(g).rol
      BY <2>9 DEF Handshake, Aceptada
    <3>4. CASE m = "memoria"
      <4>1. /\ h \in {"cpu", "kernel"} /\ aceptada'["memoria"] = k /\ socket'[h] = k
            /\ (en["memoria"] = 2 /\ en'["memoria"] = 3) \/ (en["memoria"] = 5 /\ en'["memoria"] = 6)
        BY <2>3, <2>6, <2>12, <3>4
      <4>2. h \in sinAtender /\ \A g \in {"cpu", "kernel"} : Aceptada(g) <=> g \notin sinAtender
        BY <2>7, <3>1, <4>1 DEF LadoMemoria
      <4> QED BY <3>1, <3>2, <3>3, <4>1, <4>2 DEF LadoMemoria
    <3>5. CASE m # "memoria"
      <4>1. /\ h \notin {"cpu", "kernel"} /\ en'["memoria"] = en["memoria"]
            /\ aceptada'["memoria"] = aceptada["memoria"] /\ socket' = socket
        BY <2>3, <2>12, <3>5
      <4>2. \A g \in {"cpu", "kernel"} : Aceptada(g)' <=> Aceptada(g)
        BY <3>3, <4>1
      <4> QED BY <3>1, <3>2, <3>3, <4>1, <4>2 DEF LadoMemoria
    <3> QED BY <3>4, <3>5
  <2>19. en'[m] > 0
    BY <2>10, Rangos DEF IInv
  <2> QED BY <2>13, <2>15, <2>16, <2>17, <2>18, <2>19 DEF Entera
<1> QED BY <1>3, <1>4

\* What m has in its hands is the last connection of a client, which sent its handshake or is to.
LEMMA EnManoViva ==
  ASSUME IInv, Entera, NEW k \in 0..Len(con), NEW p, Tomada(k, p)
  PROVE  /\ k \in 1..Len(con)
         /\ con[k].handshake \in Handshake /\ socket[con[k].handshake] = k
         /\ Viva(con[k].handshake) /\ UltimaDe(con[k].handshake) = con[k]
         /\ PuertoDe(con[k].handshake) = p /\ ~Respondida(con[k].handshake)
<1>1. k \in 1..Len(con) /\ con[k].servidor /\ PuertoDe(con[k].handshake) = p /\ ~con[k].respondida
  BY Rangos DEF Tomada, IInv
<1>2. /\ con[k].handshake \in Handshake /\ socket[con[k].handshake] = k
      /\ Viva(con[k].handshake) /\ UltimaDe(con[k].handshake) = con[k]
  BY <1>1, DeAbierta DEF Entera
<1> QED BY <1>1, <1>2 DEF Respondida

\* A main that reads a handshake: it is one that it waits for.
LEMMA EnteraLeer ==
  ASSUME IInv, Entera, NEW m \in Modulo, Leer(m)
  PROVE  Entera' /\ en'[m] > 0
<1>1. PICK p \in Puerto :
        /\ Toca(m, "leer", p)
        /\ \E h \in LeeServidor(aceptada[m]) :
             IF Espera(m, p, h)
             THEN /\ con' = [con EXCEPT ![aceptada[m]].rol = h]
                  /\ Seguir(m)
                  /\ UNCHANGED <<abiertos, socket, aceptada, sinAtender>>
             ELSE Salir(m)
  BY DEF Leer
<1>2. \/ m = "memoria" /\ p = "memoria" /\ en["memoria"] \in {3, 6}
      \/ m = "cpu" /\ p = "dispatch" /\ en["cpu"] = 7
      \/ m = "cpu" /\ p = "interrupt" /\ en["cpu"] = 10
  BY <1>1, TocaServidor DEF IInv
<1>3. PICK k : k = aceptada[m]
  OBVIOUS
<1>4. Tomada(k, p) /\ k \in 0..Len(con)
  BY <1>2, <1>3 DEF IInv, TypeOK, EnMano
<1>5. PICK h \in Handshake : /\ h = con[k].handshake /\ socket[h] = k /\ k \in 1..Len(con)
                             /\ Viva(h) /\ UltimaDe(h) = con[k]
                             /\ PuertoDe(h) = p /\ ~Respondida(h)
  BY <1>4, EnManoViva
<1>6. LeeServidor(k) = IF con[k].enviado THEN {h} ELSE {}
  BY <1>5 DEF LeeServidor, Viva
<1>7. Espera(m, p, h)
  <2>1. CASE m = "memoria"
    <3>1. h \in {"cpu", "kernel"}
      BY <1>2, <1>5, <2>1, Nombres DEF Handshake
    <3>2. LadoMemoria
      BY <1>2, <2>1 DEF Entera
    <3> QED BY <1>5, <2>1, <3>1, <3>2 DEF LadoMemoria, Espera
  <2>2. CASE m = "cpu"
    <3>1. p = "dispatch" => h = "dispatch"
      BY <1>5, Nombres DEF Handshake
    <3>2. p = "interrupt" => h = "interrupt"
      BY <1>5, Nombres DEF Handshake
    <3> QED BY <1>2, <2>2, <3>1, <3>2 DEF Espera
  <2> QED BY <1>2, <2>1, <2>2
<1>8. /\ con' = [con EXCEPT ![k].rol = h]
      /\ Seguir(m) /\ UNCHANGED <<abiertos, socket, aceptada, sinAtender>>
  BY <1>1, <1>3, <1>6, <1>7
<1>9. h \in Rol
  BY DEF Rol, Header
<1>10. /\ con' \in Seq(Conexion) /\ Len(con') = Len(con)
       /\ \A i \in 1..Len(con) : i # k => Intacta(i)
       /\ con'[k].rol = h
       /\ con'[k].handshake = con[k].handshake /\ con'[k].aceptada = con[k].aceptada
       /\ con'[k].cliente = con[k].cliente /\ con'[k].servidor = con[k].servidor
       /\ con'[k].enviado = con[k].enviado /\ con'[k].respondida = con[k].respondida
  BY <1>5, <1>8, <1>9, ConLeer DEF IInv
<1>11. \A i \in 1..Len(con) :
          /\ con'[i].handshake = con[i].handshake /\ con'[i].aceptada = con[i].aceptada
          /\ con'[i].cliente = con[i].cliente /\ con'[i].servidor = con[i].servidor
          /\ con'[i].enviado = con[i].enviado /\ con'[i].respondida = con[i].respondida
          /\ i # k => con'[i].rol = con[i].rol
  BY <1>10 DEF Intacta
<1>12. \A g \in Handshake : socket[g] \in 0..Len(con) /\ Len(con) \in Nat
  BY DEF IInv, TypeOK
<1>13. ASSUME NEW g \in Handshake
       PROVE  /\ Mismas(g)
              /\ g # h /\ Viva(g) => UltimaDe(g)'.rol = UltimaDe(g).rol
              /\ g = h => UltimaDe(g)'.rol = h
  <2>1. CASE socket[g] = 0
    BY <1>5, <1>8, <2>1 DEF Mismas, Viva, Enviada, Aceptada, Respondida
  <2>2. CASE socket[g] # 0
    <3>1. socket[g] \in 1..Len(con)
      BY <1>12, <2>2
    <3>2. socket[g] = k => g = h
      BY <1>5, <2>2 DEF Entera, Puntas
    <3>3. g = h => UltimaDe(g)'.rol = h
      BY <1>5, <1>8, <1>10 DEF UltimaDe
    <3>4. g # h => UltimaDe(g)'.rol = UltimaDe(g).rol
      BY <1>8, <1>11, <3>1, <3>2 DEF UltimaDe
    <3>5. Mismas(g)
      BY <1>8, <1>11, <3>1 DEF Mismas, Viva, Enviada, Aceptada, Respondida, UltimaDe
    <3> QED BY <3>3, <3>4, <3>5
  <2> QED BY <2>1, <2>2
<1>14. en'[m] = en[m] + 1 /\ \A x \in Modulo : x # m => en'[x] = en[x]
  BY <1>8, Avanza DEF IInv
<1>15. /\ en'["kernel"] = en["kernel"]
       /\ en'["cpu"] = en["cpu"] \/ (en["cpu"] = 7 /\ en'["cpu"] = 8) \/ (en["cpu"] = 10 /\ en'["cpu"] = 11)
       /\ m = "memoria" => (en["memoria"] = 3 /\ en'["memoria"] = 4) \/ (en["memoria"] = 6 /\ en'["memoria"] = 7)
       /\ m # "memoria" => en'["memoria"] = en["memoria"]
  BY <1>2, <1>14 DEF Modulo
<1>16. /\ Mismas("cpu") /\ Mismas("kernel") /\ Mismas("dispatch") /\ Mismas("interrupt")
  BY <1>13, CuatroMismas
<1>17. Puntas'
  BY <1>8, <1>10, <1>11, PuntasServidor DEF Entera
<1>18. LadoCliente'
  BY <1>15, <1>16 DEF Entera, LadoCliente, Mismas
<1>19. Puertos'
  <2>1. /\ en'["memoria"] = en["memoria"] \/ (en["memoria"] = 3 /\ en'["memoria"] = 4) \/ (en["memoria"] = 6 /\ en'["memoria"] = 7)
    BY <1>15
  <2> QED BY <1>8, <1>13, <1>15, <2>1 DEF Entera, Puertos, Mismas
<1>20. LadoCpu'
  BY <1>8, <1>15, <1>16 DEF Entera, LadoCpu, Mismas
<1>21. en'["memoria"] > 0 => LadoMemoria'
  <2> SUFFICES ASSUME en'["memoria"] > 0 PROVE LadoMemoria'
    OBVIOUS
  <2>1. LadoMemoria
    BY <1>15 DEF Entera
  <2>2. sinAtender \subseteq {"cpu", "kernel"} /\ sinAtender' = sinAtender /\ socket' = socket /\ aceptada' = aceptada
    BY <1>8 DEF IInv, TypeOK
  <2>3. \A g \in {"cpu", "kernel"} :
           /\ Respondida(g)' <=> Respondida(g)
           /\ Aceptada(g)' <=> Aceptada(g)
           /\ g # h /\ Aceptada(g) => UltimaDe(g)'.rol = UltimaDe(g).rol
           /\ g = h => UltimaDe(g)'.rol = h
    BY <1>13 DEF Handshake, Aceptada, Mismas
  <2>4. CASE m = "memoria"
    <3>1. /\ aceptada["memoria"] = k /\ socket[h] = k
          /\ (en["memoria"] = 3 /\ en'["memoria"] = 4) \/ (en["memoria"] = 6 /\ en'["memoria"] = 7)
      BY <1>3, <1>5, <1>15, <2>4
    <3>2. PICK f \in sinAtender :
            /\ Aceptada(f) /\ aceptada["memoria"] = socket[f]
            /\ \A g \in {"cpu", "kernel"} \ {f} : Aceptada(g) <=> g \notin sinAtender
      BY <2>1, <3>1 DEF LadoMemoria
    <3>3. f = h
      <4>1. f \in Handshake /\ socket[f] # 0
        BY <2>2, <3>2 DEF Handshake, Aceptada, Viva
      <4> QED BY <1>5, <3>1, <3>2, <4>1 DEF Entera, Puntas
    <3>4. UltimaDe(h)'.rol = h
      BY <1>13
    <3> QED BY <2>1, <2>2, <2>3, <3>1, <3>2, <3>3, <3>4 DEF LadoMemoria
  <2>5. CASE m # "memoria"
    <3>1. h \notin {"cpu", "kernel"} /\ en'["memoria"] = en["memoria"]
      BY <1>2, <1>5, <1>15, <2>5, Nombres
    <3>2. \A g \in {"cpu", "kernel"} : Aceptada(g) => UltimaDe(g)'.rol = UltimaDe(g).rol
      BY <2>3, <3>1
    <3> QED BY <2>1, <2>2, <2>3, <3>1, <3>2 DEF LadoMemoria
  <2> QED BY <2>4, <2>5
<1>22. en'[m] > 0
  BY <1>14, Rangos DEF IInv
<1> QED BY <1>17, <1>18, <1>19, <1>20, <1>21, <1>22 DEF Entera

\* A main that answers.
LEMMA EnteraResponder ==
  ASSUME IInv, Entera, NEW m \in Modulo, Responder(m)
  PROVE  Entera' /\ en'[m] > 0
<1>1. PICK p \in Puerto : Toca(m, "responder", p)
  BY DEF Responder
<1>2. \/ m = "memoria" /\ p = "memoria" /\ en["memoria"] \in {4, 7}
      \/ m = "cpu" /\ p = "dispatch" /\ en["cpu"] = 8
      \/ m = "cpu" /\ p = "interrupt" /\ en["cpu"] = 11
  BY <1>1, TocaServidor DEF IInv
<1>3. PICK k : k = aceptada[m]
  OBVIOUS
<1>4. Tomada(k, p) /\ k \in 0..Len(con)
  BY <1>2, <1>3 DEF IInv, TypeOK, EnMano
<1>5. PICK h \in Handshake : /\ h = con[k].handshake /\ socket[h] = k /\ k \in 1..Len(con)
                             /\ Viva(h) /\ UltimaDe(h) = con[k]
                             /\ PuertoDe(h) = p /\ ~Respondida(h)
  BY <1>4, EnManoViva
<1>6. /\ con' = [con EXCEPT ![k].respondida = TRUE]
      /\ Seguir(m) /\ UNCHANGED <<abiertos, socket, aceptada>>
      /\ sinAtender' = IF m = "memoria" THEN sinAtender \ {con[k].rol} ELSE sinAtender
  BY <1>3 DEF Responder
<1>7. /\ con' \in Seq(Conexion) /\ Len(con') = Len(con)
      /\ \A i \in 1..Len(con) : i # k => Intacta(i)
      /\ con'[k].respondida
      /\ con'[k].handshake = con[k].handshake /\ con'[k].rol = con[k].rol
      /\ con'[k].cliente = con[k].cliente /\ con'[k].servidor = con[k].servidor
      /\ con'[k].enviado = con[k].enviado /\ con'[k].aceptada = con[k].aceptada
  BY <1>5, <1>6, ConResponder DEF IInv
<1>8. \A i \in 1..Len(con) :
         /\ con'[i].handshake = con[i].handshake /\ con'[i].rol = con[i].rol
         /\ con'[i].cliente = con[i].cliente /\ con'[i].servidor = con[i].servidor
         /\ con'[i].enviado = con[i].enviado /\ con'[i].aceptada = con[i].aceptada
         /\ i # k => con'[i].respondida = con[i].respondida
  BY <1>7 DEF Intacta
<1>9. \A g \in Handshake : socket[g] \in 0..Len(con) /\ Len(con) \in Nat
  BY DEF IInv, TypeOK
<1>10. ASSUME NEW g \in Handshake
       PROVE  /\ Viva(g)' <=> Viva(g)
              /\ Enviada(g)' <=> Enviada(g)
              /\ Aceptada(g)' <=> Aceptada(g)
              /\ Viva(g) => UltimaDe(g)'.rol = UltimaDe(g).rol
              /\ g # h => (Respondida(g)' <=> Respondida(g))
              /\ g = h => Respondida(g)'
  <2>1. CASE socket[g] = 0
    BY <1>5, <1>6, <2>1 DEF Viva, Enviada, Aceptada, Respondida
  <2>2. CASE socket[g] # 0
    <3>1. socket[g] \in 1..Len(con)
      BY <1>9, <2>2
    <3>2. socket[g] = k => g = h
      BY <1>5, <2>2 DEF Entera, Puntas
    <3>3. Viva(g)' <=> Viva(g)
      BY <1>6, <1>8, <3>1 DEF Viva, UltimaDe
    <3>4. g = h => Respondida(g)'
      BY <1>5, <1>6, <1>7, <3>3 DEF Respondida, UltimaDe
    <3> QED BY <1>6, <1>8, <3>1, <3>2, <3>3, <3>4 DEF Enviada, Aceptada, Respondida, UltimaDe
  <2> QED BY <2>1, <2>2
<1>11. en'[m] = en[m] + 1 /\ \A x \in Modulo : x # m => en'[x] = en[x]
  BY <1>6, Avanza DEF IInv
<1>12. /\ en'["kernel"] = en["kernel"]
       /\ \/ /\ m = "memoria" /\ h \in {"cpu", "kernel"} /\ en'["cpu"] = en["cpu"]
             /\ (en["memoria"] = 4 /\ en'["memoria"] = 5) \/ (en["memoria"] = 7 /\ en'["memoria"] = 8)
          \/ /\ m = "cpu" /\ h = "dispatch" /\ en["cpu"] = 8 /\ en'["cpu"] = 9
             /\ en'["memoria"] = en["memoria"]
          \/ /\ m = "cpu" /\ h = "interrupt" /\ en["cpu"] = 11 /\ en'["cpu"] = 12
             /\ en'["memoria"] = en["memoria"]
  <2>1. p = "memoria" => h \in {"cpu", "kernel"}
    BY <1>5, Nombres DEF Handshake
  <2>2. p = "dispatch" => h = "dispatch"
    BY <1>5, Nombres DEF Handshake
  <2>3. p = "interrupt" => h = "interrupt"
    BY <1>5, Nombres DEF Handshake
  <2> QED BY <1>2, <1>11, <2>1, <2>2, <2>3 DEF Modulo
<1>13. Puntas'
  BY <1>6, <1>7, <1>8, PuntasServidor DEF Entera
<1>14. \A g \in {"cpu", "kernel", "dispatch", "interrupt"} :
          /\ Viva(g)' <=> Viva(g)
          /\ Enviada(g)' <=> Enviada(g)
          /\ Aceptada(g)' <=> Aceptada(g)
          /\ Viva(g) => UltimaDe(g)'.rol = UltimaDe(g).rol
          /\ g # h => (Respondida(g)' <=> Respondida(g))
          /\ g = h => Respondida(g)'
  BY <1>10 DEF Handshake
<1>15. LadoCliente'
  <2>1. en'["cpu"] = en["cpu"] \/ (en["cpu"] = 8 /\ en'["cpu"] = 9) \/ (en["cpu"] = 11 /\ en'["cpu"] = 12)
    BY <1>12
  <2>2. \A g \in {"cpu", "kernel", "dispatch", "interrupt"} : Respondida(g) => Respondida(g)'
    BY <1>14
  <2> QED BY <1>12, <1>14, <2>1, <2>2 DEF Entera, LadoCliente
<1>16. Puertos'
  BY <1>6, <1>10, <1>12 DEF Entera, Puertos
<1>17. LadoCpu'
  BY <1>6, <1>12, <1>14 DEF Entera, LadoCpu
<1>18. en'["memoria"] > 0 => LadoMemoria'
  <2> SUFFICES ASSUME en'["memoria"] > 0 PROVE LadoMemoria'
    OBVIOUS
  <2>1. LadoMemoria
    BY <1>12 DEF Entera
  <2>2. sinAtender \subseteq {"cpu", "kernel"} /\ socket' = socket /\ aceptada' = aceptada
    BY <1>6 DEF IInv, TypeOK
  <2>3. CASE m = "memoria"
    <3>1. /\ h \in {"cpu", "kernel"} /\ aceptada["memoria"] = k /\ socket[h] = k
          /\ (en["memoria"] = 4 /\ en'["memoria"] = 5) \/ (en["memoria"] = 7 /\ en'["memoria"] = 8)
      BY <1>3, <1>5, <1>12, <2>3
    <3>2. PICK f \in sinAtender :
            /\ Aceptada(f) /\ aceptada["memoria"] = socket[f] /\ UltimaDe(f).rol = f
            /\ \A g \in {"cpu", "kernel"} \ {f} : Aceptada(g) <=> g \notin sinAtender
      BY <2>1, <3>1 DEF LadoMemoria
    <3>3. f = h
      <4>1. f \in Handshake /\ socket[f] # 0
        BY <2>2, <3>2 DEF Handshake, Aceptada, Viva
      <4> QED BY <1>5, <3>1, <3>2, <4>1 DEF Entera, Puntas
    <3>4. sinAtender' = sinAtender \ {h} /\ h \in sinAtender /\ Aceptada(h)
      BY <1>5, <1>6, <2>3, <3>2, <3>3
    <3>5. \A g \in {"cpu", "kernel"} : Respondida(g)' <=> g \notin sinAtender'
      <4>1. \A g \in {"cpu", "kernel"} : Respondida(g) <=> g \notin sinAtender
        BY <2>1 DEF LadoMemoria
      <4> QED BY <1>14, <3>4, <4>1
    <3>6. \A g \in {"cpu", "kernel"} : Aceptada(g)' <=> g \notin sinAtender'
      BY <1>14, <3>1, <3>2, <3>3, <3>4
    <3>7. en'["memoria"] = 5 => sinAtender' \in {{"cpu"}, {"kernel"}}
      <4>1. en'["memoria"] = 5 => sinAtender = {"cpu", "kernel"}
        BY <2>1, <3>1 DEF LadoMemoria
      <4>2. {"cpu", "kernel"} \ {"cpu"} = {"kernel"} /\ {"cpu", "kernel"} \ {"kernel"} = {"cpu"}
        OBVIOUS
      <4> QED BY <3>1, <3>4, <4>1, <4>2
    <3>8. en'["memoria"] = 8 => sinAtender' = {}
      <4>1. en'["memoria"] = 8 => sinAtender \in {{"cpu"}, {"kernel"}}
        BY <2>1, <3>1 DEF LadoMemoria
      <4> QED BY <3>4, <4>1
    <3> QED BY <3>1, <3>5, <3>6, <3>7, <3>8 DEF LadoMemoria
  <2>4. CASE m # "memoria"
    <3>1. h \notin {"cpu", "kernel"} /\ en'["memoria"] = en["memoria"] /\ sinAtender' = sinAtender
      BY <1>6, <1>12, <2>4
    <3>2. \A g \in {"cpu", "kernel"} :
             /\ Respondida(g)' <=> Respondida(g)
             /\ Aceptada(g)' <=> Aceptada(g)
             /\ Aceptada(g) => UltimaDe(g)'.rol = UltimaDe(g).rol
      BY <1>14, <3>1 DEF Aceptada
    <3> QED BY <2>1, <2>2, <3>1, <3>2 DEF LadoMemoria
  <2> QED BY <2>3, <2>4
<1>19. en'[m] > 0
  BY <1>11, Rangos DEF IInv
<1> QED BY <1>13, <1>15, <1>16, <1>17, <1>18, <1>19 DEF Entera

-----------------------------------------------------------------------------
(* The theorems.                                                           *)

\* What holds while nothing went down but all three modules together.
InvEntera == IInv /\ (MaquinaEntera => Entera)

\* Nobody is connected at the start.
LEMMA EnteraEmpezar == Init => Entera
<1> SUFFICES ASSUME Init PROVE Entera
  OBVIOUS
<1>1. /\ en["memoria"] = 0 /\ en["cpu"] = 0 /\ en["kernel"] = 0
      /\ abiertos = {} /\ DOMAIN con = {} /\ \A h \in Handshake : socket[h] = 0
  BY DEF Init, Modulo
<1>2. \A h \in Handshake : ~Viva(h) /\ ~Enviada(h) /\ ~Aceptada(h) /\ ~Respondida(h)
  BY <1>1 DEF Viva, Enviada, Aceptada, Respondida
<1>3. Puntas
  BY <1>1 DEF Puntas
<1>4. LadoCliente
  BY <1>1, <1>2 DEF LadoCliente, Handshake
<1>5. Puertos
  BY <1>1, <1>2 DEF Puertos
<1>6. LadoCpu
  BY <1>1, <1>2 DEF LadoCpu, Handshake
<1> QED BY <1>1, <1>3, <1>4, <1>5, <1>6 DEF Entera

\* A step of a main goes on, or ends it, and then nobody has a connection with it.
LEMMA EnteraPaso ==
  ASSUME PuertosDeCpuLibres, IInv, Entera, NEW m \in Modulo, Paso(m)
  PROVE  Entera' /\ (Suelta(m) \/ en'[m] > 0)
<1>1. ASSUME Abrir(m) PROVE en'[m] > 0
  <2>1. Seguir(m)
    BY <1>1 DEF Abrir
  <2> QED BY <2>1, Avanza, Rangos DEF IInv
<1> QED BY <1>1, EnteraAbrir, EnteraConectar, EnteraEnviar, EnteraEsperar, EnteraAceptar,
           EnteraLeer, EnteraResponder DEF Paso

\* What a step of one main does to the list of what went down, and to the others.
LEMMA OtrosQuedan ==
  ASSUME IInv, NEW m \in Modulo, Paso(m) \/ Lanzar(m)
  PROVE  muertes' = muertes /\ \A n \in Modulo : n # m => en'[n] = en[n]
<1>1. muertes' = muertes
  BY DEF Paso, Lanzar, Abrir, Conectar, Enviar, Esperar, Aceptar, Leer, Responder
<1>2. Seguir(m) \/ Salir(m)
  BY DEF Paso, Lanzar, Abrir, Conectar, Enviar, Esperar, Aceptar, Leer, Responder
<1>3. CASE Seguir(m)
  BY <1>1, <1>3, Avanza DEF IInv
<1>4. CASE Salir(m)
  BY <1>1, <1>4 DEF Salir, Terminan
<1> QED BY <1>2, <1>3, <1>4

\* Every step keeps the invariant of a machine of which nothing went down alone.
LEMMA EnteraPreserva ==
  ASSUME PuertosDeCpuLibres
  PROVE  InvEntera /\ [Next]_vars => InvEntera'
<1> SUFFICES ASSUME InvEntera, [Next]_vars, MaquinaEntera' PROVE Entera'
  BY Preserva DEF InvEntera
<1>1. IInv
  BY DEF InvEntera
<1>2. ASSUME NEW m \in Modulo, Lanzar(m) \/ Paso(m) PROVE Entera'
  <2>1. muertes' = muertes
    BY <1>1, <1>2, OtrosQuedan
  <2>2. MaquinaEntera
    BY <2>1 DEF MaquinaEntera
  <2> QED BY <1>1, <1>2, <2>2, EnteraLanzar, EnteraPaso DEF InvEntera
<1>3. ASSUME NEW ms \in Mortales, Matar(ms) PROVE Entera'
  <2>1. muertes' = Append(muertes, ms) /\ muertes \in Seq(SUBSET Modulo) /\ ms \in SUBSET Modulo
    BY <1>1, <1>3, ConstantesAssumption DEF Matar, IInv, TypeOK
  <2>2. /\ DOMAIN muertes = 1..Len(muertes) /\ Len(muertes) \in Nat
        /\ DOMAIN muertes' = 1..(Len(muertes) + 1)
        /\ \A k \in 1..Len(muertes) : muertes'[k] = muertes[k]
        /\ muertes'[Len(muertes) + 1] = ms
    BY <2>1
  <2>3. MaquinaEntera /\ ms = Modulo
    BY <2>2 DEF MaquinaEntera
  <2>4. Terminan(Modulo)
    BY <1>3, <2>3 DEF Matar
  <2> QED BY <1>1, <2>3, <2>4, EnteraMatar DEF InvEntera
<1>4. CASE UNCHANGED vars
  <2>1. Entera
    BY <1>4 DEF InvEntera, MaquinaEntera, vars
  <2> QED BY <1>4, <2>1 DEF vars, Entera, Puntas, LadoCliente, Puertos, LadoCpu, LadoMemoria,
             Viva, Enviada, Aceptada, Respondida, UltimaDe
<1> QED BY <1>2, <1>3, <1>4 DEF Next

\* It holds in every behaviour, if nobody else has the ports of the CPU.
THEOREM EnteraCorrecta ==
  ASSUME PuertosDeCpuLibres
  PROVE  Spec => []InvEntera
<1>1. Init => InvEntera
  BY AlEmpezar, EnteraEmpezar DEF InvEntera
<1> QED BY <1>1, EnteraPreserva, PTL DEF Spec

\* When the Kernel takes consoles (the end of main in kernel.c) the CPU and Memory are done with
\* their start and all four handshakes were answered, if nothing went down alone.
THEOREM ArranqueCompletoCorrecto ==
  ASSUME PuertosDeCpuLibres
  PROVE  Spec => []ArranqueCompleto
<1>1. InvEntera => ArranqueCompleto
  <2> SUFFICES ASSUME InvEntera, MaquinaEntera, Atiende("kernel")
               PROVE  Atiende("cpu") /\ Atiende("memoria") /\ \A h \in Handshake : Atendida(h)
    BY DEF ArranqueCompleto
  <2>1. Entera /\ IInv
    BY DEF InvEntera
  <2>2. /\ en["kernel"] > 10 /\ (Atiende("cpu") <=> en["cpu"] > 11)
        /\ (Atiende("memoria") <=> en["memoria"] > 7)
        /\ en["kernel"] \in 0..11 /\ en["cpu"] \in 0..12 /\ en["memoria"] \in 0..8
    BY <2>1, Atienden, Rangos DEF IInv
  <2>3. Respondida("dispatch") /\ Respondida("interrupt") /\ Respondida("kernel")
    BY <2>1, <2>2 DEF Entera, LadoCliente
  <2>4. en["cpu"] > 11
    BY <2>1, <2>3 DEF Entera, LadoCpu
  <2>5. Respondida("cpu")
    BY <2>1, <2>2, <2>4 DEF Entera, LadoCliente
  <2>6. en["memoria"] > 0
    <3>1. Viva("cpu")
      BY <2>5 DEF Respondida
    <3>2. "memoria" \in abiertos
      BY <2>1, <3>1, Nombres DEF Entera, Puertos, Handshake
    <3> QED BY <2>1, <2>2, <3>2 DEF Entera, Puertos
  <2>7. sinAtender = {}
    <3>1. "cpu" \notin sinAtender /\ "kernel" \notin sinAtender
      BY <2>1, <2>3, <2>5, <2>6 DEF Entera, LadoMemoria
    <3> QED BY <2>1, <3>1 DEF IInv, TypeOK
  <2>8. en["memoria"] = 8
    <3>1. en["memoria"] \in {1, 2, 3, 4, 5, 6, 7, 8}
      BY <2>2, <2>6
    <3>2. en["memoria"] \notin {1, 2, 3, 4} /\ en["memoria"] \notin {5, 6, 7}
      BY <2>1, <2>6, <2>7 DEF Entera, LadoMemoria
    <3> QED BY <3>1, <3>2
  <2>9. \A h \in Handshake : Atendida(h)
    BY <2>3, <2>5 DEF Handshake, Atendida, Respondida, Viva, UltimaDe
  <2> QED BY <2>2, <2>4, <2>8, <2>9
<1> QED BY <1>1, EnteraCorrecta, PTL

\* While nothing was killed alone, a main that gives up (its port is not there yet, in cpu.c and
\* kernel.c) leaves nobody with a connection to it.
THEOREM NadieSaleConectadoCorrecto ==
  ASSUME PuertosDeCpuLibres
  PROVE  Spec => NadieSaleConectado
<1>1. InvEntera /\ [Next]_vars =>
        [MaquinaEntera /\ muertes' = muertes =>
           \A m \in Modulo : en[m] > 0 /\ en'[m] = 0 => ~Conectada(m)]_vars
  <2> SUFFICES ASSUME InvEntera, [Next]_vars, MaquinaEntera, muertes' = muertes,
                      NEW m \in Modulo, en[m] > 0, en'[m] = 0
               PROVE  ~Conectada(m) \/ UNCHANGED vars
    OBVIOUS
  <2>1. IInv /\ Entera
    BY DEF InvEntera
  <2>2. Suelta(m) => ~Conectada(m)
    <3> SUFFICES ASSUME Suelta(m), NEW i \in DOMAIN con, con[i].cliente \/ con[i].servidor
                 PROVE  m # ClienteDe(con[i].handshake) /\ m # ServidorDe(PuertoDe(con[i].handshake))
      BY DEF Conectada
    <3>1. i \in 1..Len(con) /\ con[i].servidor
      BY <2>1, Rangos DEF IInv, Entera, Puntas
    <3>2. con[i].handshake \in Handshake /\ Viva(con[i].handshake)
      BY <2>1, <3>1, DeAbierta DEF Entera
    <3> QED BY <3>2 DEF Suelta
  <2>3. ASSUME NEW n \in Modulo, Lanzar(n) PROVE FALSE
    <3>1. n # m => en'[m] = en[m]
      BY <2>1, <2>3, OtrosQuedan
    <3>2. en'[n] = en[n] + 1 /\ en[n] = 0
      BY <2>1, <2>3, Avanza DEF Lanzar, IInv
    <3> QED BY <2>1, <3>1, <3>2, Rangos DEF IInv
  <2>4. ASSUME NEW n \in Modulo, Paso(n) PROVE Suelta(m)
    <3>1. n # m => en'[m] = en[m]
      BY <2>1, <2>4, OtrosQuedan
    <3>2. n = m
      BY <2>1, <3>1, Rangos DEF IInv
    <3> QED BY <2>1, <2>4, <3>2, EnteraPaso
  <2>5. ASSUME NEW ms \in Mortales, Matar(ms) PROVE FALSE
    <3>1. muertes' = Append(muertes, ms) /\ muertes \in Seq(SUBSET Modulo) /\ ms \in SUBSET Modulo
      BY <2>1, <2>5, ConstantesAssumption DEF Matar, IInv, TypeOK
    <3>2. Len(muertes') = Len(muertes) + 1 /\ Len(muertes) \in Nat
      BY <3>1
    <3> QED BY <3>2
  <2> QED BY <2>2, <2>3, <2>4, <2>5 DEF Next
<1> QED BY <1>1, EnteraCorrecta, PTL DEF Spec, NadieSaleConectado

=============================================================================
