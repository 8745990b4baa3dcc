--------------------------- MODULE IrOptimizador ---------------------------
(* The IR optimiser (jasboot-ir/src/optimizer_ir.c) and, to say what a       *)
(* program does, the opcodes it touches as the VM executes them (vm.c).      *)
(*                                                                           *)
(* A program is built one instruction at a time and optimised any number of  *)
(* times.  An instruction has three 8-bit operands and a set of flags: "A",  *)
(* "B", "C" for an immediate operand, "R" for relative.  Code addresses      *)
(* count bytes, TamInst to an instruction; data addresses count cells of     *)
(* eight bytes.  The third byte of a 24-bit target and the `stats` are left  *)
(* out, and so is try_propagate_immediate, called only for registers that    *)
(* are not known, which it leaves alone.  Two opcodes stand for the hundreds *)
(* the optimiser does not know: MOVER_U24, which defines a register, and     *)
(* IMPRIMIR_NUMERO, which reads one.  The data section ends below the        *)
(* globals and the frames, so that literals fall on neither.                 *)
EXTENDS Integers, Sequences

CONSTANTS
  Instrucciones,   \* the instructions a program is made of
  MaxIns,          \* bound: instructions of a program
  Byte,            \* 256
  TamInst,         \* IR_INSTRUCTION_SIZE
  Ancho,           \* 64: bits of a word
  Entradas,        \* values of the first cell of the frame: what the opcodes left out put there
  MaxPasos         \* bound: instructions executed to compare two programs

\* What a bit is worth.
Peso[i \in 0 .. Ancho] == IF i = 0 THEN 1 ELSE 2 * Peso[i - 1]
Palabra   == Peso[Ancho]
Palabras  == 0 .. Palabra - 1
Registros == 0 .. Byte - 1

Comparaciones == {"COMPARAR", "CMP_EQ", "CMP_LT", "CMP_GT", "CMP_LE", "CMP_GE"}
Binarias      == {"SUMAR", "RESTAR", "MULTIPLICAR", "DIVIDIR", "MODULO", "Y", "O", "XOR"} \cup Comparaciones
Saltos        == {"IR", "SI", "LLAMAR"}
Definen       == Binarias \cup {"MOVER", "LEER", "NO"}
Opcodes       == Definen \cup Saltos \cup
                 {"RETORNAR", "ESCRIBIR", "HALT", "NOP", "MOVER_U24", "IMPRIMIR_NUMERO"}

Instruccion ==
  [op : Opcodes, f : SUBSET {"A", "B", "C", "R"}, a : Registros, b : Registros, c : Registros]

\* What COMPARAR gives fits in an operand, and an operand in a word.
ASSUME IrAssumption ==
  /\ Instrucciones \subseteq Instruccion
  /\ MaxIns \in Nat /\ TamInst \in Nat \ {0} /\ Ancho \in Nat /\ MaxPasos \in Nat
  /\ Byte \in Nat /\ 4 <= Byte /\ Byte <= Palabra
  /\ Entradas \subseteq Palabras

VARIABLES
  codigo,    \* [ins, datos]: the code and data sections
  cerrado    \* the compiler is done with it

vars == <<codigo, cerrado>>

Init == codigo = [ins |-> <<>>, datos |-> <<>>] /\ cerrado = FALSE

Nop == [op |-> "NOP", f |-> {}, a |-> 0, b |-> 0, c |-> 0]

Es(inst, bandera) == bandera \in inst.f
Control(inst)     == inst.op \in Saltos \cup {"RETORNAR"}

-----------------------------------------------------------------------------
(* What the instructions compute.                                          *)

Signo(x)  == IF 2 * x >= Palabra THEN x - Palabra ELSE x
Si(cond)  == IF cond THEN 1 ELSE 0
Orden(x, y) == IF x < y THEN 2 ELSE IF x > y THEN 3 ELSE 0

Bit(x, i) == (x \div Peso[i]) % 2

\* The word of these bits.
DeBits(bits) ==
  LET s[i \in 0 .. Ancho] == IF i = 0 THEN 0 ELSE s[i - 1] + Peso[i - 1] * bits[i - 1]
  IN  s[Ancho]

Calculo(op, x, y) ==
  CASE op = "SUMAR"       -> (x + y) % Palabra
    [] op = "RESTAR"      -> (x - y) % Palabra
    [] op = "MULTIPLICAR" -> (x * y) % Palabra
    [] op = "DIVIDIR"     -> x \div y
    [] op = "MODULO"      -> x % y
    [] op = "Y"           -> DeBits([i \in 0 .. Ancho - 1 |-> Bit(x, i) * Bit(y, i)])
    [] op = "O"           -> DeBits([i \in 0 .. Ancho - 1 |-> Si(1 \in {Bit(x, i), Bit(y, i)})])
    [] op = "XOR"         -> DeBits([i \in 0 .. Ancho - 1 |-> Si(Bit(x, i) # Bit(y, i))])
    [] op = "CMP_EQ"      -> Si(x = y)
    [] op = "CMP_LT"      -> Si(Signo(x) < Signo(y))
    [] op = "CMP_GT"      -> Si(Signo(x) > Signo(y))
    [] op = "CMP_LE"      -> Si(Signo(x) <= Signo(y))
    [] op = "CMP_GE"      -> Si(Signo(x) >= Signo(y))
    [] op = "COMPARAR"    -> Orden(x, y)

\* The VM compares with sign.
CalculoVm(op, x, y) == IF op = "COMPARAR" THEN Orden(Signo(x), Signo(y)) ELSE Calculo(op, x, y)

Imposible(op, y) == op \in {"DIVIDIR", "MODULO"} /\ y = 0

-----------------------------------------------------------------------------
(* Forward analysis of a block.  st.k[r] has the value of r when it is known. *)

\* const_state_reset
NadaSabido == [r \in Registros |-> IF r = 0 THEN {0} ELSE {}]

\* The value of an operand, when it is known.
Operando(st, inst, x, bandera) == IF Es(inst, bandera) THEN {x} ELSE st.k[x]

\* r has the value in V, or none that is known.
Sabido(st, r, V) == [st EXCEPT !.k[r] = V]

Quitar(st, i)           == [st EXCEPT !.ins[i] = Nop, !.quitadas = @ \cup {i}]
Reescribir(st, i, inst) == [st EXCEPT !.ins[i] = inst]

\* A register takes an operand, or a literal of the data section.
Inmediata(r, v) == [op |-> "MOVER", f |-> {"B"}, a |-> r, b |-> v, c |-> 0]
DeDatos(r, n) ==
  [op |-> "LEER", f |-> IF n \div Byte > 0 THEN {"B", "C"} ELSE {"B"},
   a |-> r, b |-> n % Byte, c |-> n \div Byte]

\* fold_to_literal without the test of what fits in an operand.
LiteralSinLimite(st, i, v) == Reescribir(st, i, Inmediata(st.ins[i].a, v))

\* fold_to_literal: a value that fits in no operand goes to the data section.
Literal(st, i, v) ==
  IF v < Byte THEN Reescribir(st, i, Inmediata(st.ins[i].a, v))
  ELSE [Reescribir(st, i, DeDatos(st.ins[i].a, Len(st.datos))) EXCEPT !.datos = Append(@, v)]

Plegado(st, i, v) ==
  IF v < Byte \/ Len(st.datos) < Byte * Byte THEN Sabido(Literal(st, i, v), st.ins[i].a, {v})
  ELSE Sabido([st EXCEPT !.datos = Append(@, v)], st.ins[i].a, {})

\* try_strength_reduce, of an instruction with at most one known operand.
Copia(inst, bandera, x) ==
  [inst EXCEPT !.op = "MOVER", !.f = IF Es(inst, bandera) THEN {"B"} ELSE {}, !.b = x, !.c = 0]
Cero(inst) == [inst EXCEPT !.op = "MOVER", !.f = {"B"}, !.b = 0, !.c = 0]

Reducida(inst, X, Y) ==
  IF inst.op \in {"SUMAR", "RESTAR"} /\ Y = {0}                THEN Copia(inst, "B", inst.b)
  ELSE IF inst.op = "SUMAR" /\ X = {0}                         THEN Copia(inst, "C", inst.c)
  ELSE IF inst.op = "MULTIPLICAR" /\ {0} \in {X, Y}            THEN Cero(inst)
  ELSE IF inst.op \in {"MULTIPLICAR", "DIVIDIR"} /\ Y = {1}    THEN Copia(inst, "B", inst.b)
  ELSE IF inst.op = "MULTIPLICAR" /\ X = {1}                   THEN Copia(inst, "C", inst.c)
  ELSE IF inst.op = "XOR" /\ inst.f \cap {"B", "C"} = {} /\ inst.b = inst.c THEN Cero(inst)
  ELSE inst

\* A copy of what is known.
ConInmediato(inst, v) == [inst EXCEPT !.f = @ \cup {"B"}, !.b = v]

AnalizarMover(st, i) ==
  LET inst == st.ins[i]
      V    == Operando(st, inst, inst.b, "B")
      nuevo == Sabido(st, inst.a, V)
  IN  IF IF Es(inst, "B") THEN st.k[inst.a] = {inst.b} ELSE inst.b = inst.a
      THEN Quitar(st, i)
      ELSE IF \E v \in V : v < Byte
      THEN Reescribir(nuevo, i, ConInmediato(inst, CHOOSE v \in V : TRUE))
      ELSE nuevo

AnalizarBinaria(st, i) ==
  LET inst == st.ins[i]
      X == Operando(st, inst, inst.b, "B")
      Y == Operando(st, inst, inst.c, "C")
  IN  IF {} \in {X, Y} THEN Sabido(Reescribir(st, i, Reducida(inst, X, Y)), inst.a, {})
      ELSE LET x == CHOOSE v \in X : TRUE
               y == CHOOSE v \in Y : TRUE
           IN  IF Imposible(inst.op, y) THEN Sabido(st, inst.a, {})
               ELSE Plegado(st, i, Calculo(inst.op, x, y))

\* The complement of the bits.
AnalizarNo(st, i) ==
  LET X == Operando(st, st.ins[i], st.ins[i].b, "B")
  IN  IF X = {} THEN Sabido(st, st.ins[i].a, {}) ELSE Plegado(st, i, Palabra - 1 - (CHOOSE v \in X : TRUE))

\* A condition that is known removes the jump or makes it unconditional.
AnalizarSi(st, i) ==
  LET inst == st.ins[i]
      X == Operando(st, inst, inst.a, "A")
  IN  IF X = {} THEN st
      ELSE IF X = {0} THEN Quitar(st, i)
      ELSE Reescribir(st, i, [op |-> "IR", f |-> (inst.f \cap {"R"}) \cup {"A"}, a |-> inst.b, b |-> 0, c |-> 0])

\* The other opcodes leave what is known as it was, also of the register they define.
Analizar(st, i) ==
  CASE st.ins[i].op = "MOVER"     -> AnalizarMover(st, i)
    [] st.ins[i].op \in Binarias  -> AnalizarBinaria(st, i)
    [] st.ins[i].op = "NO"        -> AnalizarNo(st, i)
    [] st.ins[i].op = "SI"        -> AnalizarSi(st, i)
    [] OTHER                      -> st

-----------------------------------------------------------------------------
(* Backward analysis of a block.  st.vivos has the registers somebody reads. *)

\* Operands in registers, of those named in `campos`.
Leidos(inst, campos) ==
  (IF "a" \in campos /\ ~Es(inst, "A") THEN {inst.a} ELSE {}) \cup
  (IF "b" \in campos /\ ~Es(inst, "B") THEN {inst.b} ELSE {}) \cup
  (IF "c" \in campos /\ ~Es(inst, "C") THEN {inst.c} ELSE {})

\* The uses without the third operand.
UsaSinTercero(inst) ==
  CASE inst.op \in Definen        -> Leidos(inst, {"b"})
    [] inst.op = "ESCRIBIR"       -> Leidos(inst, {"a", "b"})
    [] inst.op \in Saltos         -> Leidos(inst, {"a"})
    [] OTHER                      -> {}

Usa(inst) ==
  CASE inst.op \in {"MOVER", "LEER", "NO"} -> Leidos(inst, {"b"})
    [] inst.op \in Binarias       -> Leidos(inst, {"b", "c"})
    [] inst.op = "ESCRIBIR"       -> Leidos(inst, {"a", "b"})
    [] inst.op \in Saltos         -> Leidos(inst, {"a"})
    [] OTHER                      -> {}

Podar(st, i) ==
  LET inst == st.ins[i]
      define == IF inst.op \in Definen THEN {inst.a} ELSE {}
  IN  IF i \in st.quitadas THEN st
      ELSE IF define # {} /\ define \cap st.vivos = {} THEN Quitar(st, i)
      ELSE [st EXCEPT !.vivos = (@ \ define) \cup Usa(inst)]

-----------------------------------------------------------------------------
(* analyze_block, of st.inicio .. fin.                                     *)

Ida(st, fin) ==
  LET n == fin + 1 - st.inicio
      f[d \in 0 .. n] == IF d = 0 THEN [st EXCEPT !.k = NadaSabido]
                         ELSE Analizar(f[d - 1], st.inicio + d - 1)
  IN  f[n]

\* At a RETORNAR, or at the end of the code, only r0 is awaited.
Vuelta(st, fin) ==
  LET n == fin + 1 - st.inicio
      f[d \in 0 .. n] ==
        IF d = 0 THEN [st EXCEPT !.vivos = IF st.ins[fin].op \in Saltos THEN Registros ELSE {0}]
        ELSE Podar(f[d - 1], fin + 1 - d)
  IN  f[n]

AnalizarBloque(st, fin) == [Vuelta(Ida(st, fin), fin) EXCEPT !.inicio = fin + 1]

-----------------------------------------------------------------------------
(* ir_optimize.                                                            *)

\* A block ends at a control flow and nowhere else: a target may lie inside it.
Analizado(cod) ==
  LET n == Len(cod.ins)
      f[i \in 0 .. n] ==
        IF i = 0 THEN [ins |-> cod.ins, datos |-> cod.datos, quitadas |-> {}, k |-> NadaSabido,
                       vivos |-> {}, inicio |-> 1]
        ELSE IF Control(f[i - 1].ins[i]) \/ i = n THEN AnalizarBloque(f[i - 1], i)
        ELSE f[i - 1]
  IN  f[n]

\* The instructions of quedan up to n, in order.
Viejos(quedan, n) ==
  LET f[i \in 0 .. n] == IF i = 0 THEN <<>> ELSE IF i \in quedan THEN Append(f[i - 1], i) ELSE f[i - 1]
  IN  f[n]

\* The rank of the kept instruction before i.
NuevoAnterior(quedan, n, i) ==
  LET antes == Len(Viejos(quedan, i - 1)) IN IF antes = 0 THEN 1 ELSE antes

\* Where instruction i of n went: its own place, that of the next one kept, or the last.
Nuevo(quedan, n, i) ==
  LET antes == Len(Viejos(quedan, i - 1))
  IN  IF antes = Len(Viejos(quedan, n)) THEN antes ELSE antes + 1

\* The low byte of a jump is moved; the others are not looked at.
Destino(inst, i) ==
  (IF inst.op = "SI" THEN inst.b ELSE inst.a) + (IF Es(inst, "R") THEN (i - 1) * TamInst ELSE 0)
NuevoDestino(quedan, n, inst, i) ==
  (Nuevo(quedan, n, Destino(inst, i) \div TamInst + 1) - 1) * TamInst
    - (IF Es(inst, "R") THEN (Nuevo(quedan, n, i) - 1) * TamInst ELSE 0)

Movible(quedan, n, inst, i) ==
  inst.op \in Saltos =>
    /\ Destino(inst, i) % TamInst = 0
    /\ Destino(inst, i) \div TamInst < n
    /\ NuevoDestino(quedan, n, inst, i) \in 0 .. Byte - 1

Movida(quedan, n, inst, i) ==
  CASE inst.op = "SI"               -> [inst EXCEPT !.b = NuevoDestino(quedan, n, inst, i)]
    [] inst.op \in {"IR", "LLAMAR"} -> [inst EXCEPT !.a = NuevoDestino(quedan, n, inst, i)]
    [] OTHER                        -> inst

\* The removed instructions are NOPs when a jump cannot be moved.
Compactado(ins) ==
  LET n      == Len(ins)
      quedan == {i \in 1 .. n : ins[i].op # "NOP"}
      viejo  == Viejos(quedan, n)
  IN  IF \A i \in quedan : Movible(quedan, n, ins[i], i)
      THEN [j \in 1 .. Len(viejo) |-> Movida(quedan, n, ins[viejo[j]], viejo[j])]
      ELSE ins

Optimizado(cod) == LET st == Analizado(cod) IN [ins |-> Compactado(st.ins), datos |-> st.datos]

\* The compiler emits an instruction.
Emitir(inst) ==
  /\ ~cerrado /\ Len(codigo.ins) < MaxIns
  /\ codigo' = [codigo EXCEPT !.ins = Append(@, inst)]
  /\ UNCHANGED cerrado

Optimizar ==
  /\ codigo.ins # <<>>
  /\ codigo' = Optimizado(codigo)
  /\ cerrado' = TRUE

Next == (\E inst \in Instrucciones : Emitir(inst)) \/ Optimizar

Spec == Init /\ [][Next]_vars

-----------------------------------------------------------------------------
(* What a program does: vm_run_with_limit on these opcodes.  Memory is the   *)
(* frame and the data section, cells that were not written hold 0.           *)

Maquina(cod, entrada) ==
  [pc |-> 0, r |-> [x \in Registros |-> 0], pila |-> <<>>, salida |-> <<>>, fin |-> FALSE, exit_code |-> 0,
   pasos |-> 0,
   mem |-> [d \in {<<"datos", i - 1>> : i \in DOMAIN cod.datos} \cup {<<"marco", 0>>} |->
              IF d = <<"marco", 0>> THEN entrada ELSE cod.datos[d[2] + 1]]]

\* r0 is always zero.
EnRegistro(m, x, v) == IF x = 0 THEN m ELSE [m EXCEPT !.r[x] = v]
Terminar(m, cual)   == [m EXCEPT !.fin = TRUE, !.exit_code = cual]
Celda(inst, dir)    == <<IF Es(inst, "R") THEN "marco" ELSE "datos", dir>>
Largo(inst, bajo, alto, bandera) == bajo + (IF Es(inst, bandera) THEN Byte * alto ELSE 0)

Con(f, x, v) == [y \in DOMAIN f \cup {x} |-> IF y = x THEN v ELSE f[y]]

Leido(m, inst, x, bandera) == IF Es(inst, bandera) THEN x ELSE m.r[x]

\* The cells an instruction reads and writes.
CeldaLeida(m, inst) ==
  Celda(inst, IF Es(inst, "B") THEN Largo(inst, inst.b, inst.c, "C") ELSE m.r[inst.b])
CeldaEscrita(m, inst) ==
  Celda(inst, IF Es(inst, "A") THEN Largo(inst, inst.a, inst.c, "C") ELSE m.r[inst.a])

\* What an instruction gives to its register.
Valor(m, inst) ==
  LET b == Leido(m, inst, inst.b, "B")
      c == Leido(m, inst, inst.c, "C")
  IN  CASE inst.op = "MOVER"     -> IF {"B", "C"} \subseteq inst.f THEN b + Byte * inst.c ELSE b
        [] inst.op = "MOVER_U24" -> inst.b + Byte * inst.c
        [] inst.op = "LEER"      -> IF CeldaLeida(m, inst) \in DOMAIN m.mem THEN m.mem[CeldaLeida(m, inst)] ELSE 0
        [] inst.op = "NO"        -> Si(b = 0)
        [] inst.op \in Binarias  -> CalculoVm(inst.op, b, c)

\* One instruction; m.pc is moved past it beforehand.
Efecto(m, inst) ==
  LET a == Leido(m, inst, inst.a, "A")
      relativo == IF Es(inst, "R") THEN m.pc - TamInst ELSE 0
  IN  CASE inst.op \in Definen \cup {"MOVER_U24"} ->
             IF Imposible(inst.op, Leido(m, inst, inst.c, "C")) THEN Terminar(m, 1)
             ELSE EnRegistro(m, inst.a, Valor(m, inst))
        [] inst.op = "ESCRIBIR" ->
             [m EXCEPT !.mem = Con(@, CeldaEscrita(m, inst), Leido(m, inst, inst.b, "B"))]
        [] inst.op = "IR" -> [m EXCEPT !.pc = Largo(inst, a, inst.b, "B")]
        [] inst.op = "LLAMAR" -> [m EXCEPT !.pila = Append(@, m.pc),
                       !.pc = relativo + IF Es(inst, "A") THEN Largo(inst, a, inst.b, "B") ELSE a]
        [] inst.op = "SI" ->
             IF a = 0 THEN m
             ELSE [m EXCEPT !.pc = (IF Es(inst, "R") THEN m.pc ELSE 0) + Largo(inst, inst.b, inst.c, "C")]
        [] inst.op = "RETORNAR" ->
             IF m.pila = <<>> THEN Terminar(m, a)
             ELSE [m EXCEPT !.pc = m.pila[Len(m.pila)], !.pila = SubSeq(@, 1, Len(@) - 1)]
        [] inst.op = "HALT" -> Terminar(m, 0)
        [] inst.op = "IMPRIMIR_NUMERO" -> [m EXCEPT !.salida = Append(@, m.r[inst.a])]
        [] inst.op = "NOP" -> m

\* Past the end the run stops; between two instructions it would execute their
\* bytes, which no comparison needs.
Paso(ins, m) ==
  IF m.fin THEN m
  ELSE IF m.pc >= Len(ins) * TamInst THEN Terminar(m, 0)
  ELSE IF m.pc % TamInst # 0 THEN Terminar(m, -1)
  ELSE Efecto([m EXCEPT !.pc = @ + TamInst, !.pasos = @ + 1], ins[m.pc \div TamInst + 1])

Ejecutado(cod, entrada) ==
  LET f[n \in 0 .. MaxPasos] == IF n = 0 THEN Maquina(cod, entrada) ELSE Paso(cod.ins, f[n - 1])
  IN  f[MaxPasos]

\* What a run leaves for others to see: output, exit code and the frame.
Visible(m) == <<m.salida, m.exit_code, {<<d, m.mem[d]>> : d \in {x \in DOMAIN m.mem : x[1] = "marco"}}>>

-----------------------------------------------------------------------------
(* Properties.                                                             *)

\* Types: whatever the optimiser rewrites, operands fit in their eight bits and
\* literals in a word.
TypeOK ==
  /\ codigo \in [ins : Seq(Instruccion), datos : Seq(Palabras)] /\ Len(codigo.ins) <= MaxIns
  /\ cerrado \in BOOLEAN

\* The programs the optimiser is right about.
DefinidaAntes(ins, i) ==   \* registers their block defines before i, other than by LEER
  {ins[j].a : j \in {j \in 1 .. i - 1 : /\ ins[j].op \in Definen \ {"LEER"}
                                        /\ \A h \in j .. i - 1 : ~Control(ins[h])}}

Entera(ins) ==
  /\ ins # <<>>
  /\ Len(ins) * TamInst <= Byte
  /\ ins[Len(ins)].op \in {"HALT", "RETORNAR"}

\* A literal read is one the code has.
SinExcepcion(cod, i) ==
  LET inst == cod.ins[i]
  IN  /\ inst.op \in (Definen \ {"NO", "COMPARAR"}) \cup {"SI", "IR", "ESCRIBIR", "RETORNAR", "HALT"}
      /\ inst.op \in Definen => inst.a # 0
      /\ inst.op = "MOVER" => ~Es(inst, "C")
      /\ inst.op \in {"DIVIDIR", "MODULO"} => Es(inst, "C") /\ inst.c # 0
      /\ inst.op = "LEER" =>
           /\ inst.a \notin DefinidaAntes(cod.ins, i)
           /\ Es(inst, "R") \/ (Es(inst, "B") /\ Largo(inst, inst.b, inst.c, "C") < Len(cod.datos))
      /\ inst.op = "ESCRIBIR" => {"A", "R"} \subseteq inst.f
      /\ inst.op = "RETORNAR" => Es(inst, "A") \/ inst.a = 0
      /\ inst.op = "SI" => IF Es(inst, "A") THEN inst.a # 0 ELSE inst.a \notin DefinidaAntes(cod.ins, i) \cup {0}

\* Absolute jumps to the beginning of a block.
SaltaABloque(ins, inst) ==
  inst.op \in {"IR", "SI"} =>
    /\ ~Es(inst, "R") /\ Es(inst, IF inst.op = "SI" THEN "B" ELSE "A")
    /\ ~Es(inst, "C") /\ (inst.op = "IR" => ~Es(inst, "B"))
    /\ \E i \in 1 .. Len(ins) : /\ Destino(inst, 0) = (i - 1) * TamInst
                               /\ (i = 1 \/ Control(ins[i - 1]))

Fiable(cod) ==
  Entera(cod.ins) /\ \A i \in 1 .. Len(cod.ins) : SinExcepcion(cod, i) /\ SaltaABloque(cod.ins, cod.ins[i])

MismoEfecto(uno, otro) ==
  \A e \in Entradas :
    LET m == Ejecutado(uno, e)
    IN  m.fin => Ejecutado(otro, e).fin /\ Visible(Ejecutado(otro, e)) = Visible(m)

\* On the programs of the fragment an optimisation changes nothing that can be seen,
\* for every input, whatever it folds, removes and moves (ir_optimize).
FragmentoFiel == [][cerrado' /\ Fiable(codigo) => MismoEfecto(codigo, codigo')]_vars

\* Nor does it make a run longer: what ends within a step limit still does.
NoTardaMas ==
  [][cerrado' /\ Fiable(codigo) =>
       \A e \in Entradas : Ejecutado(codigo', e).pasos <= Ejecutado(codigo, e).pasos]_vars

\* "Mantiene semantica del programa" (GUIA_ESTADO_Y_PRUEBAS.md), of every program
\* that ends in HALT or RETORNAR.
MantieneSemantica == [][cerrado' /\ Entera(codigo.ins) => MismoEfecto(codigo, codigo')]_vars
=============================================================================
