------------------------------- MODULE MCGuion -------------------------------
(* Instances of Guion for TLC: programs, and the ends of their files.      *)
EXTENDS Guion, TLC

I(tipo, a, b) == [tipo |-> tipo, op1 |-> a, op2 |-> b]
Exit == I("EXIT", 0, 0)
\* Operands whose bytes are codes of other instructions or of none.
Lineas ==
  {I("NO_OP", 2, 0), I("I/O", 3000, 0), I("READ", 1, 0), I("WRITE", 5, 3), I("COPY", 0, 257),
   I("COPY", 2, 1066)}
De(largos) == UNION {[1..n -> Lineas] : n \in largos}
Archivos(programas, finales) ==
  {[programa |-> p, final |-> f] : p \in programas, f \in finales}

Buenos == Archivos({Append(p, Exit) : p \in De(0..3)}, {<< >>})
\* A word that is none, with or without more after it, and a READ without its operand.
Malos ==
  Archivos(De(0..2), {<<Palabra("EXITO")>>, <<Palabra("NOOP"), Numero(5), Palabra("EXIT")>>,
                   <<Numero(7)>>, <<Palabra("READ"), Palabra("EXIT")>>})
BuenosYMalos == Buenos \cup Malos

SinExit == Archivos({<<I("I/O", 3000, 0)>>}, {<< >>})
FaltaUno ==
  Archivos({<< >>},
    {<<Palabra("WRITE"), Numero(4), Numero(42), Palabra("COPY"), Numero(0), Palabra("EXIT")>>})
UnaIO == Archivos({<<I("I/O", 3000, 0), Exit>>}, {<< >>})
ArchivoI0 ==
  Archivos({<<I("NO_OP", 5, 0), I("I/O", 3000, 0), I("READ", 0, 0), I("WRITE", 4, 42),
           I("COPY", 0, 4), Exit>>}, {<< >>})

=============================================================================
