-------------------------------- MODULE Guion --------------------------------
(***************************************************************************)
(* The script of a process, from the file the Consola reads to the list of *)
(* instructions the CPU runs: the parser and the serializer of the         *)
(* Consola, the bytes of the buffer, which the Kernel keeps in the PCB and *)
(* sends in each dispatch over its socket (Canal), and instruccion_list_   *)
(* create_from_buffer in the CPU.                                          *)
(*                                                                         *)
(* A file is a sequence of tokens, what fscanf separates by spaces and     *)
(* line ends.  fscanf answers 0 if the token does not match, and EOF (-1,  *)
(* which is true in an if) when there is none.                             *)
(***************************************************************************)
EXTENDS Naturals, Sequences, SequencesExt

CONSTANTS
  Guiones,       \* [programa : sequence of instructions, final : tokens the file ends with]
  TodoJunto,     \* TRUE: the bytes of a message arrive together
  MaxDespachos   \* bound of the model: how often the process is sent to the CPU

ASSUME GuionAssumption == TodoJunto \in BOOLEAN /\ MaxDespachos \in Nat \ {0}

\* t_tipo_instruccion
Tipos == <<"COPY", "EXIT", "I/O", "NO_OP", "READ", "WRITE">>
Codigo(tipo) == (CHOOSE k \in 1..6 : Tipos[k] = tipo) - 1
Aridad(tipo) ==
  CASE tipo \in {"NO_OP", "EXIT"} -> 0 [] tipo \in {"I/O", "READ"} -> 1
    [] tipo \in {"WRITE", "COPY"} -> 2

VARIABLES
  programa,     \* what the author meant
  archivo,      \* the tokens that are still to be read
  instruccion,  \* the last word read
  op1, op2,     \* the operands, kept from one instruction to the next
  buffer,       \* the bytes packed
  consola,      \* "parsear", "aceptado", "rechazado", "enviado" or "caida"
  instructionsBuffer,  \* the copy of the PCB
  kernel,       \* "sin pcb", "elegido", "pcb enviado" or "espera respuesta"
  despachos,    \* dispatches so far
  recibido,     \* the bytes the CPU has not unpacked yet
  cpu,          \* "esperar pcb", "esperar lista", "desempaquetar", "ejecutar" or "caida"
  lista,        \* the instructions unpacked
  enViaje, llegados, lector, entregado, sinRecibir   \* the socket of dispatch: Canal

Dispatch == INSTANCE Canal WITH MaxPendientes <- 2

\* A uint32_t is its four bytes, the lowest first.
Entero(n) == Dispatch!Tamanio(n)
Valor(w) == Dispatch!Valor(w)
MenosUno == <<255, 255, 255, 255>>

varsConsola == <<archivo, instruccion, op1, op2, buffer>>
varsKernel == <<instructionsBuffer, kernel, despachos>>
varsCpu == <<recibido, cpu, lista>>
varsDispatch == <<enViaje, llegados, lector, entregado, sinRecibir>>
varsResto == <<varsKernel, varsCpu, varsDispatch>>
vars == <<programa, varsConsola, consola, varsResto>>

-----------------------------------------------------------------------------
(* The file of a program.                                                  *)

Palabra(p) == [palabra |-> p]
Numero(n) == [numero |-> n]
EsNumero(t) == DOMAIN t = {"numero"}

\* The script has one line for n NO_OP in a row: op1 tells how many.
Linea(i) ==
  <<Palabra(i.tipo)>>
    \o (CASE i.tipo \in {"NO_OP", "I/O", "READ"} -> <<Numero(i.op1)>>
          [] i.tipo \in {"WRITE", "COPY"} -> <<Numero(i.op1), Numero(i.op2)>>
          [] i.tipo = "EXIT" -> << >>)
Tokens(prog) == FlattenSeq([k \in DOMAIN prog |-> Linea(prog[k])])

Init ==
  /\ \E g \in Guiones : programa = g.programa /\ archivo = Tokens(g.programa) \o g.final
  /\ instruccion = "sin leer" /\ op1 = MenosUno /\ op2 = MenosUno
  /\ buffer = << >> /\ consola = "parsear"
  /\ instructionsBuffer = << >> /\ kernel = "sin pcb" /\ despachos = 0
  /\ recibido = << >> /\ cpu = "esperar pcb" /\ lista = << >>
  /\ Dispatch!Init

-----------------------------------------------------------------------------
(* consola_parser_parse_instructions, an iteration at a time.              *)

\* fscanf("%s"): at the end of the file the word read last is still there.
Leida ==
  IF archivo = << >> THEN instruccion
  ELSE IF EsNumero(archivo[1]) THEN "un numero" ELSE archivo[1].palabra
Resto == IF archivo = << >> THEN << >> ELSE Tail(archivo)

\* fscanf("%d") and fscanf("%d %d") are 0 only if a token is there and is not a number.
NoEsNumero(ts) == ts # << >> /\ ~EsNumero(ts[1])
HayNumero(ts) == ts # << >> /\ EsNumero(ts[1])
Operando(ts, op) == IF HayNumero(ts) THEN Entero(ts[1].numero) ELSE op
Tras(ts) == IF HayNumero(ts) THEN Tail(ts) ELSE ts

\* consola_serializer_pack_no_args, pack_one_args and pack_two_args.
Empaquetar(tipo, ops) == buffer' = buffer \o <<Codigo(tipo)>> \o ops

\* The message of the error is written through a null pointer, and exit(-1) follows.
Abortar == consola' = "caida" /\ UNCHANGED <<varsConsola>>

Leer(tipos) == consola = "parsear" /\ Leida \in tipos /\ UNCHANGED <<programa, varsResto>>

LeerNoOp ==
  /\ Leer({"NO_OP"})
  /\ IF NoEsNumero(Resto) THEN Abortar
     ELSE /\ instruccion' = Leida
          /\ op1' = Operando(Resto, op1)
          /\ buffer' = buffer \o [k \in 1..Valor(op1') |-> Codigo("NO_OP")]
          /\ archivo' = Tras(Resto)
          /\ UNCHANGED <<op2, consola>>

LeerUnOperando ==
  /\ Leer({"I/O", "READ"})
  /\ IF NoEsNumero(Resto) THEN Abortar
     ELSE /\ instruccion' = Leida
          /\ op1' = Operando(Resto, op1)
          /\ Empaquetar(Leida, op1')
          /\ archivo' = Tras(Resto)
          /\ UNCHANGED <<op2, consola>>

\* The second operand may be missing: fscanf is then 1.
LeerDosOperandos ==
  /\ Leer({"COPY", "WRITE"})
  /\ IF NoEsNumero(Resto) THEN Abortar
     ELSE /\ instruccion' = Leida
          /\ op1' = Operando(Resto, op1)
          /\ op2' = IF HayNumero(Resto) THEN Operando(Tail(Resto), op2) ELSE op2
          /\ Empaquetar(Leida, op1' \o op2')
          /\ archivo' = IF HayNumero(Resto) THEN Tras(Tail(Resto)) ELSE Resto
          /\ UNCHANGED consola

LeerExit ==
  /\ Leer({"EXIT"})
  /\ instruccion' = Leida
  /\ Empaquetar("EXIT", << >>)
  /\ archivo' = Resto
  /\ consola' = "aceptado"
  /\ UNCHANGED <<op1, op2>>

LeerOtra ==
  /\ consola = "parsear" /\ Leida \notin {Tipos[k] : k \in 1..6}
  /\ instruccion' = Leida
  /\ archivo' = Resto
  /\ consola' = "rechazado"
  /\ UNCHANGED <<programa, op1, op2, buffer, varsResto>>

\* __consola_enviar_instrucciones_a_kernel: what the parser answered is not looked at.  The
\* Kernel keeps a copy of the buffer.
Enviar ==
  /\ consola \in {"aceptado", "rechazado"}
  /\ consola' = "enviado"
  /\ instructionsBuffer' = buffer
  /\ kernel' = "elegido"
  /\ UNCHANGED <<programa, varsConsola, despachos, varsCpu, varsDispatch>>

-----------------------------------------------------------------------------
(* cpu_adapter_enviar_pcb_a_cpu and __dispatch_peticiones_de_kernel.       *)

\* HEADER_pcb_a_ejecutar and HEADER_lista_instrucciones. What the PCB has besides its
\* instructions is three numbers.
MensajePcb == [header |-> 5, payload |-> Entero(0) \o Entero(0) \o Entero(0)]
MensajeLista == [header |-> 2, payload |-> instructionsBuffer]

KernelEnviarPcb ==
  /\ kernel = "elegido"
  /\ Dispatch!Enviar(MensajePcb)
  /\ kernel' = "pcb enviado"
  /\ despachos' = despachos + 1
  /\ UNCHANGED <<programa, varsConsola, consola, instructionsBuffer, varsCpu>>

KernelEnviarLista ==
  /\ kernel = "pcb enviado"
  /\ Dispatch!Enviar(MensajeLista)
  /\ kernel' = "espera respuesta"
  /\ UNCHANGED <<programa, varsConsola, consola, instructionsBuffer, despachos, varsCpu>>

Llegar ==
  /\ Dispatch!Llegar
  /\ UNCHANGED <<programa, varsConsola, consola, varsKernel, varsCpu>>

\* Another header than the one expected ends the CPU.
CpuRecibirHeader ==
  /\ cpu \in {"esperar pcb", "esperar lista"}
  /\ Dispatch!RecibirHeader
  /\ cpu' = IF lector'.header = (IF cpu = "esperar pcb" THEN 5 ELSE 2) THEN cpu ELSE "caida"
  /\ UNCHANGED <<programa, varsConsola, consola, varsKernel, recibido, lista>>

CpuRecibirBuffer ==
  /\ cpu \in {"esperar pcb", "esperar lista"}
  /\ Dispatch!RecibirSize \/ Dispatch!RecibirPayload
  /\ IF lector'.en # "header" THEN UNCHANGED varsCpu
     ELSE IF cpu = "esperar pcb" THEN cpu' = "esperar lista" /\ UNCHANGED <<recibido, lista>>
     ELSE cpu' = "desempaquetar" /\ recibido' = entregado'[1].payload /\ lista' = << >>
  /\ UNCHANGED <<programa, varsConsola, consola, varsKernel>>

\* The process leaves the CPU, as after an interrupt or an I/O, and is dispatched again.
VolverAElegir ==
  /\ cpu = "ejecutar" /\ despachos < MaxDespachos
  /\ cpu' = "esperar pcb"
  /\ kernel' = "elegido"
  /\ UNCHANGED <<programa, varsConsola, consola, instructionsBuffer, despachos, recibido, lista,
                 varsDispatch>>

-----------------------------------------------------------------------------
(* instruccion_list_create_from_buffer.                                    *)

\* Mutant: COPY is taken for an instruction of one operand.
OperandosDeMenos(tipo) == IF tipo = "WRITE" THEN 2 ELSE IF Aridad(tipo) = 0 THEN 0 ELSE 1
\* How many operands are unpacked for each instruction.
Operandos(tipo) == Aridad(tipo)

\* An iteration. buffer_unpack of an empty buffer and an unknown code end the CPU.
CpuDesempaquetar ==
  /\ cpu = "desempaquetar"
  /\ IF recibido = << >> \/ recibido[1] \notin 0..5
     THEN cpu' = "caida" /\ UNCHANGED <<recibido, lista>>
     ELSE LET tipo == Tipos[recibido[1] + 1]
              n == Operandos(tipo)
          IN
          IF Len(recibido) < 1 + 4 * n
          THEN cpu' = "caida" /\ UNCHANGED <<recibido, lista>>
          ELSE /\ lista' = Append(lista,
                    [tipo |-> tipo,
                     op1 |-> IF n > 0 THEN SubSeq(recibido, 2, 5) ELSE MenosUno,
                     op2 |-> IF n > 1 THEN SubSeq(recibido, 6, 9) ELSE MenosUno])
               /\ recibido' = SubSeq(recibido, 2 + 4 * n, Len(recibido))
               /\ cpu' = IF tipo = "EXIT" THEN "ejecutar" ELSE "desempaquetar"
  /\ UNCHANGED <<programa, varsConsola, consola, varsKernel, varsDispatch>>

-----------------------------------------------------------------------------
Next ==
  \/ LeerNoOp \/ LeerUnOperando \/ LeerDosOperandos \/ LeerExit \/ LeerOtra
  \/ Enviar \/ KernelEnviarPcb \/ KernelEnviarLista \/ Llegar
  \/ CpuRecibirHeader \/ CpuRecibirBuffer \/ CpuDesempaquetar \/ VolverAElegir

Spec == Init /\ [][Next]_vars
FairSpec == Spec /\ WF_vars(Next)

-----------------------------------------------------------------------------
(* Properties.                                                             *)

\* What the author of the script is to get: each NO_OP as often as the line says, and every
\* other instruction with its own operands.
Significado(prog) ==
  FlattenSeq([k \in DOMAIN prog |->
    LET i == prog[k]
        n == Aridad(i.tipo)
        leida == [tipo |-> i.tipo,
                  op1 |-> IF n > 0 THEN Entero(i.op1) ELSE MenosUno,
                  op2 |-> IF n > 1 THEN Entero(i.op2) ELSE MenosUno]
    IN [j \in 1..(IF i.tipo = "NO_OP" THEN i.op1 ELSE 1) |-> leida]])

\* In each dispatch the list the CPU runs is the script, whatever the operands the parser kept
\* from earlier lines and wherever the bytes of the buffer fall.
IdaYVuelta == cpu = "ejecutar" => lista = Significado(programa)

\* A script that ends with EXIT gets to the CPU, as often as the process is dispatched.
Llega ==
  programa # << >> /\ Last(programa).tipo = "EXIT" =>
    <>(cpu = "ejecutar" /\ despachos = MaxDespachos)

\* The CPU takes the PCB and the list of each dispatch as the Kernel sent them: an empty list,
\* as that of a script refused at its first word, is not waited for.
ColaDeDispatch == Dispatch!ImplementaCola

\* The same without fairness: stream_recv_buffer "Recibe solamente el payload (stream de bytes)
\* del buffer enviado" (stream.h:14).
RecibeLoEnviado == Dispatch!RecibeLoEnviado

\* A file without EXIT is not read for ever: at its end the parser is to log "Error al leer el
\* archivo" (consola_parser.c:84) and stop packing.
FinNoEmpaqueta == [][archivo = << >> /\ consola = "parsear" => buffer' = buffer]_vars

\* Both operands of a line are in the file: when one is missing the parser is to log an error
\* in "argumentos de COPY" or "argumentos de WRITE" (consola_parser.c:54 and 62).
OperandosLeidos ==
  [][consola = "parsear" /\ Leida \in {"COPY", "WRITE"} /\ buffer' # buffer =>
       HayNumero(Resto) /\ HayNumero(Tail(Resto))]_vars

\* A script the parser refuses goes no further: the tests of the parser call it "no es posible
\* parsear un archivo invalido" (consola_parser_tests.c:91).
RechazadoNoLlega == [][consola = "rechazado" => UNCHANGED instructionsBuffer]_vars

\* The bytes of consola_tests/instrucciones/i0 as test_es_posible_parsear_un_archivo_valido_de_
\* instrucciones expects them (consola_parser_tests.c:43).
BytesDelTest ==
  <<0, 0, 0, 0, 0>> \o <<1>> \o Entero(3000) \o <<2>> \o Entero(0)
    \o <<4>> \o Entero(4) \o Entero(42) \o <<3>> \o Entero(0) \o Entero(4) \o <<5>>
CodigosDelTest == consola = "aceptado" => buffer = BytesDelTest

=============================================================================
