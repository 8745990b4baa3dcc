--------------------------------- MODULE Maquina ---------------------------------
(***************************************************************************)
(* The virtual machine that runs what the generator emits (vm_step of      *)
(* vm.c), one instruction at a time.  A machine m has                      *)
(*    pc   the instruction         r     the registers, 0 if never set     *)
(*    mem  the words of memory, 0 if never written                         *)
(*    fp, sp  the frame of the running function and the end of the stack   *)
(*    alto    the first free address of the heap                           *)
(*    pila    the calls, [pc, fp, env]                                     *)
(*    intentos  the handlers, [pc, fp, sp, n, env]                         *)
(*    tx   the texts, [s, h]: h when the id is the hash of the text        *)
(*    ls, ms   lists and maps by id, nl the ids given to them              *)
(*    cl   closures, [pc, env]                                             *)
(*    env  the list of captured values of the running closure              *)
(*    sale what was printed                                                *)
(*    fin  running, ended "bien" or "mal", or "fuera" of the code          *)
(*                                                                         *)
(* Integers have no width here, flotantes are counted in thousandths, and  *)
(* two different texts never have the same hash.                           *)
(***************************************************************************)
EXTENDS Generador, Cadenas, FiniteSets

CONSTANTS MEMORIA,        \* bytes of memory
          INTENTOS_MAX,   \* VM_TRY_STACK_MAX
          LLAMADAS_MAX    \* VM_MAX_RECURSION

INICIO_PILA == 16384
INICIO_ALTO == 131072
TEXTOS == 10000000
LISTAS == 20000000
MAPAS == 30000000
CLAUSURAS == 40000000

Maquina0 ==
  [pc |-> 1, r |-> <<>>, mem |-> <<>>, sp |-> INICIO_PILA, fp |-> INICIO_PILA, alto |-> INICIO_ALTO,
   pila |-> <<>>, intentos |-> <<>>, tx |-> <<>>, ls |-> <<>>, nl |-> 0, ms |-> <<>>, cl |-> <<>>, env |-> 0,
   sale |-> "", fin |-> "corre"]

De(f, k) == IF k \in DOMAIN f THEN f[k] ELSE 0
Reg(m, k) == De(m.r, k % 256)
Sigue(m) == [m EXCEPT !.pc = @ + 1]

(* vm_set_register: an operand is one byte, and register 0 is never written. *)
Queda(m, a, v) == IF a % 256 = 0 THEN Sigue(m) ELSE [m EXCEPT !.r = ((a % 256) :> v) @@ @, !.pc = @ + 1]
Imprime1(m, s) == [m EXCEPT !.sale = @ \o s, !.pc = @ + 1]

(***************************************************************************)
(* Texts                                                                   *)
(***************************************************************************)
EsTexto(m, id) == id - TEXTOS \in DOMAIN m.tx
Textos(m) == {TEXTOS + k : k \in DOMAIN m.tx}
Texto(m, id) == IF EsTexto(m, id) THEN m.tx[id - TEXTOS].s ELSE ""

Conocidos(m, s) == {k \in DOMAIN m.tx : m.tx[k].h /\ m.tx[k].s = s}
ConTexto(m, s) == IF Conocidos(m, s) = {} THEN [m EXCEPT !.tx = Append(@, [s |-> s, h |-> TRUE])] ELSE m
IdTexto(m, s) == TEXTOS + CHOOSE k \in Conocidos(m, s) : TRUE

(* A text by its hash: the same text has the same id. *)
QuedaTexto(m, a, s) == LET m1 == ConTexto(m, s) IN Queda(m1, a, IdTexto(m1, s))

(* A concatenation has an id of its own, whatever its text. *)
QuedaNuevo(m, a, s) == Queda([m EXCEPT !.tx = Append(@, [s |-> s, h |-> FALSE])], a, TEXTOS + Len(m.tx) + 1)

(***************************************************************************)
(* Errors                                                                  *)
(***************************************************************************)
(* The innermost handler takes the error, with the state of its intentar;
   with none the machine stops. *)
Falla(m, s) ==
  IF m.intentos = <<>> THEN [m EXCEPT !.fin = "mal"]
  ELSE LET t == Last(m.intentos)
       IN [QuedaTexto(m, 1, s) EXCEPT !.pc = t.pc, !.fp = t.fp, !.sp = t.sp, !.env = t.env,
             !.pila = SubSeq(@, 1, t.n), !.intentos = Front(@)]

(***************************************************************************)
(* Numbers                                                                 *)
(***************************************************************************)
Bit(b) == IF b THEN 1 ELSE 0

RECURSIVE BitY(_, _), BitO(_, _)
BitY(x, y) == IF x = 0 \/ y = 0 THEN 0 ELSE (x % 2) * (y % 2) + 2 * BitY(x \div 2, y \div 2)
BitO(x, y) == x + y - BitY(x, y)

Enteras == {"SUMAR", "RESTAR", "MULTIPLICAR", "DIVIDIR", "MODULO", "Y", "O", "NO", "NEGAR", "SUMARI",
            "RESTARI", "BIT_SHL", "BIT_SHR", "BIT_SHLI"}
Calcula(op, b, c) ==
  CASE op \in {"SUMAR", "SUMARI"} -> b + c
    [] op \in {"RESTAR", "RESTARI"} -> b - c
    [] op = "MULTIPLICAR" -> b * c
    [] op = "DIVIDIR" -> b \div c
    [] op = "MODULO" -> b % c
    [] op = "Y" -> BitY(b, c)
    [] op = "O" -> BitO(b, c)
    [] op = "NO" -> Bit(b = 0)
    [] op = "NEGAR" -> -b
    [] op \in {"BIT_SHL", "BIT_SHLI"} -> b * 2 ^ c
    [] op = "BIT_SHR" -> b \div 2 ^ c

Comparaciones == {"CMP_EQ", "CMP_EQI", "CMP_LT", "CMP_GT", "CMP_LE", "CMP_GE"}
Compara(op, b, c) ==
  Bit(CASE op \in {"CMP_EQ", "CMP_EQI"} -> b = c
        [] op = "CMP_LT" -> b < c
        [] op = "CMP_GT" -> b > c
        [] op = "CMP_LE" -> b <= c
        [] op = "CMP_GE" -> b >= c)

(* A product is rounded down, and a division by zero is zero. *)
CalculaFlotante(op, b, c) ==
  LET x == Milesimas(b)
      y == Milesimas(c)
  IN CASE op = "SUMAR_FLT" -> Flotante(x + y)
       [] op = "RESTAR_FLT" -> Flotante(x - y)
       [] op = "MULTIPLICAR_FLT" -> Flotante((x * y) \div 1000)
       [] op = "DIVIDIR_FLT" -> IF y = 0 THEN 0 ELSE Flotante((x * 1000) \div y)
Flotantes4 == {"SUMAR_FLT", "RESTAR_FLT", "MULTIPLICAR_FLT", "DIVIDIR_FLT"}

ComparacionesFlotantes ==
  ("CMP_EQ_FLT" :> "CMP_EQ") @@ ("CMP_LT_FLT" :> "CMP_LT") @@ ("CMP_GT_FLT" :> "CMP_GT") @@
  ("CMP_LE_FLT" :> "CMP_LE") @@ ("CMP_GE_FLT" :> "CMP_GE")
ComparaFlotante(op, b, c) == Compara(ComparacionesFlotantes[op], Milesimas(b), Milesimas(c))

RaizEntera(n) == CHOOSE k \in 0..40000 : k * k <= n /\ (k + 1) * (k + 1) > n

EsBits(v) == v >= BITS \div 2
Convierte2(op, v) ==
  CASE op = "CONV_I2F" -> Flotante(v * 1000)
    [] op = "CONV_F2I" -> Milesimas(v) \div 1000
    [] op = "CONV_ANY2F" -> IF EsBits(v) \/ v = 0 THEN v ELSE Flotante(v * 1000)
    [] op = "CONV_ANY2I" -> IF EsBits(v) THEN Milesimas(v) \div 1000 ELSE v
    [] op = "RAIZ" -> Flotante(RaizEntera(Milesimas(v) * 1000))
Conversiones == {"CONV_I2F", "CONV_F2I", "CONV_ANY2F", "CONV_ANY2I", "RAIZ"}

Numerica(m, i) ==
  LET b == Reg(m, i.b)
      c == IF i.op \in {"SUMARI", "RESTARI", "BIT_SHLI", "CMP_EQI"} THEN i.c ELSE Reg(m, i.c)
  IN CASE i.op \in {"DIVIDIR", "MODULO"} /\ c = 0 -> Falla(m, "por cero")
       [] i.op \in Enteras /\ ~(i.op \in {"DIVIDIR", "MODULO"} /\ c = 0) -> Queda(m, i.a, Calcula(i.op, b, c))
       [] i.op \in Comparaciones -> Queda(m, i.a, Compara(i.op, b, c))
       [] i.op \in Flotantes4 -> Queda(m, i.a, CalculaFlotante(i.op, b, c))
       [] i.op \in DOMAIN ComparacionesFlotantes -> Queda(m, i.a, ComparaFlotante(i.op, b, c))
       [] i.op \in Conversiones -> Queda(m, i.a, Convierte2(i.op, b))

Numericas == Enteras \cup Comparaciones \cup Flotantes4 \cup DOMAIN ComparacionesFlotantes \cup Conversiones

(***************************************************************************)
(* Memory                                                                  *)
(***************************************************************************)
DireccionDe(m, i, base) == base + (IF i.c = 1 THEN m.fp ELSE 0)

Lee(m, a, dir) == IF dir \notin 0..MEMORIA - 8 THEN Falla(m, "acceso") ELSE Queda(m, a, De(m.mem, dir))
Escribe1(m, dir, v) ==
  IF dir \notin 0..MEMORIA - 8 THEN Falla(m, "acceso") ELSE Sigue([m EXCEPT !.mem = (dir :> v) @@ @])

(* A prologue run again in the same frame reserves nothing; the words of a
   new frame are zero. *)
ReservaPila(m, n) ==
  IF m.sp > m.fp THEN Sigue(m)
  ELSE Sigue([m EXCEPT !.sp = @ + n,
                !.mem = [d \in DOMAIN @ \ {x \in DOMAIN @ : x >= m.sp /\ x < m.sp + n} |-> @[d]]])

ReservaAlto(m, a, n) ==
  IF m.alto + n > MEMORIA THEN Queda(m, a, 0)
  ELSE Queda([m EXCEPT !.alto = @ + ((n + 7) \div 8) * 8], a, m.alto)

Memorial(m, i) ==
  CASE i.op = "MOVER" -> Queda(m, i.a, Reg(m, i.b))
    [] i.op = "MOVERI" -> Queda(m, i.a, i.b)
    [] i.op = "GET_FP" -> Queda(m, i.a, m.fp)
    [] i.op = "LEER" -> Lee(m, i.a, DireccionDe(m, i, i.b))
    [] i.op = "LEERR" -> Lee(m, i.a, DireccionDe(m, i, Reg(m, i.b)))
    [] i.op = "ESCRIBIR" -> Escribe1(m, DireccionDe(m, i, i.a), Reg(m, i.b))
    [] i.op = "ESCRIBIRR" -> Escribe1(m, DireccionDe(m, i, Reg(m, i.a)), Reg(m, i.b))
    [] i.op = "RESERVAR_PILA" -> ReservaPila(m, i.a)
    [] i.op = "HEAP_RESERVAR" -> ReservaAlto(m, i.a, i.b)
    [] i.op = "RESERVAR_MEMORIA" -> ReservaAlto(m, i.a, Reg(m, i.b))

Memoriales == {"MOVER", "MOVERI", "GET_FP", "LEER", "LEERR", "ESCRIBIR", "ESCRIBIRR", "RESERVAR_PILA",
               "HEAP_RESERVAR", "RESERVAR_MEMORIA"}

(***************************************************************************)
(* Control                                                                 *)
(***************************************************************************)
Salta(m, l) == [m EXCEPT !.pc = l]

EntraIntentar(m, l) ==
  IF Len(m.intentos) >= INTENTOS_MAX THEN [m EXCEPT !.fin = "mal"]
  ELSE Sigue([m EXCEPT !.intentos =
         Append(@, [pc |-> l, fp |-> m.fp, sp |-> m.sp, n |-> Len(m.pila), env |-> m.env])])
SaleIntentarSinQuitar(m) == Sigue(m)
SaleIntentar(m) == Sigue(IF m.intentos = <<>> THEN m ELSE [m EXCEPT !.intentos = Front(@)])

(* The new frame starts where the last one ends. *)
LlamaA(m, l, env) ==
  IF Len(m.pila) >= LLAMADAS_MAX THEN Falla(m, "recursion")
  ELSE [m EXCEPT !.pila = Append(@, [pc |-> m.pc + 1, fp |-> m.fp, env |-> m.env]),
          !.fp = m.sp, !.pc = l, !.env = env]

(* A value that is no closure is a place in the code; 0 is its start. *)
LlamaValor(m, v) ==
  LET k == v - CLAUSURAS IN
  IF k \in DOMAIN m.cl THEN LlamaA(m, m.cl[k].pc, m.cl[k].env) ELSE LlamaA(m, IF v = 0 THEN 1 ELSE v, 0)

Retorna(m) ==
  IF m.pila = <<>> THEN [m EXCEPT !.fin = "bien"]
  ELSE [m EXCEPT !.sp = m.fp, !.fp = Last(m.pila).fp, !.env = Last(m.pila).env, !.pc = Last(m.pila).pc,
          !.pila = Front(@)]

Control(m, i) ==
  CASE i.op = "IR" -> Salta(m, i.c)
    [] i.op = "SI" -> IF Reg(m, i.a) = 0 THEN Sigue(m) ELSE Salta(m, i.c)
    [] i.op = "TRY_ENTER" -> EntraIntentar(m, i.c)
    [] i.op = "TRY_LEAVE" -> SaleIntentar(m)
    [] i.op = "LLAMAR" -> LlamaA(m, i.c, 0)
    [] i.op = "LLAMARR" -> LlamaValor(m, Reg(m, i.a))
    [] i.op = "RETORNAR" -> Retorna(m)
    [] i.op = "LANZAR" -> Falla(m, IF EsTexto(m, Reg(m, i.a)) THEN Texto(m, Reg(m, i.a)) ELSE "excepcion")
    [] i.op = "HALT" -> [m EXCEPT !.fin = "bien"]

Controles == {"IR", "SI", "TRY_ENTER", "TRY_LEAVE", "LLAMAR", "LLAMARR", "RETORNAR", "LANZAR", "HALT"}

(***************************************************************************)
(* Printing                                                                *)
(***************************************************************************)
(* A negative number in a text is one of 32 bits without sign. *)
Decimal32(v) == IF v >= 0 THEN ToString(v) ELSE "42949" \o ToString(67296 + v)
(* Printed with four decimals; in a text, only if it is not a whole number. *)
CuatroDecimales(v) ==
  LET x == Milesimas(v)
      y == IF x < 0 THEN -x ELSE x
  IN (IF x < 0 THEN "-" ELSE "") \o ToString(y \div 1000) \o "." \o SubSeq(ToString(1000 + (y % 1000)), 2, 4) \o "0"
EnteroODecimales(v) == IF Milesimas(v) % 1000 = 0 THEN ToString(Milesimas(v) \div 1000) ELSE CuatroDecimales(v)

RECURSIVE Muestra(_, _)
Muestra(m, v) ==
  LET junta(n, f(_)) == FoldLeft(LAMBDA acc, k : acc \o (IF k = 1 THEN "" ELSE ", ") \o f(k),
                                 "", [k \in 1..n |-> k])
  IN CASE EsTexto(m, v) -> "\"" \o Texto(m, v) \o "\""
       [] v \in DOMAIN m.ls -> "[" \o junta(Len(m.ls[v]), LAMBDA k : Muestra(m, m.ls[v][k])) \o "]"
       [] v \in DOMAIN m.ms ->
            "{" \o junta(Len(m.ms[v]), LAMBDA k : Muestra(m, m.ms[v][k].k) \o ": " \o Muestra(m, m.ms[v][k].v)) \o "}"
       [] ~EsTexto(m, v) /\ v \notin DOMAIN m.ls \cup DOMAIN m.ms /\ EsBits(v) -> CuatroDecimales(v)
       [] OTHER -> ToString(v)

Salida(m, i) ==
  LET v == Reg(m, i.a) IN
  Imprime1(m, CASE i.op = "IMPRIMIR_LITERAL" -> i.s
                [] i.op = "IMPRIMIR_NUMERO" -> ToString(v)
                [] i.op = "IMPRIMIR_FLOTANTE" -> CuatroDecimales(v)
                [] i.op = "IMPRIMIR_ID" -> Muestra(m, v)
                [] i.op = "IMPRIMIR_TEXTO" ->
                     IF v = 0 THEN "indefinido" ELSE IF EsTexto(m, v) THEN Texto(m, v) ELSE "<ID>")

Salidas5 == {"IMPRIMIR_LITERAL", "IMPRIMIR_NUMERO", "IMPRIMIR_FLOTANTE", "IMPRIMIR_ID", "IMPRIMIR_TEXTO"}

(***************************************************************************)
(* Texts, lists, maps and closures                                         *)
(***************************************************************************)
Subtexto(s, desde, n) ==
  IF desde >= Len(s) THEN "" ELSE SubSeq(s, desde + 1, IF desde + n > Len(s) THEN Len(s) ELSE desde + n)

(* A number that is the id of a text is taken for that text. *)
ATextoNumero(m, i) ==
  LET v == Reg(m, i.b)
      entero == IF i.op = "STR_DESDE_NUMERO" THEN i.c = 1 ELSE ~EsBits(v)
  IN IF EsTexto(m, v) THEN Queda(m, i.a, v)
     ELSE QuedaTexto(m, i.a, IF entero THEN Decimal32(v) ELSE EnteroODecimales(v))

DeTexto(m, i) ==
  LET s == Texto(m, Reg(m, i.b))
      n == Decimal10(s)
  IN IF ~EsDecimal(s) THEN Falla(m, "no es un numero")
     ELSE Queda(m, i.a, IF i.op = "STR_A_ENTERO" THEN n ELSE Flotante(1000 * n))

(* The pieces go to a list named after the text and the separator. *)
Divide(m, i) ==
  LET t == Texto(m, Reg(m, i.b))
      sep == Texto(m, Reg(m, i.c))
      ps == Partes(t, sep)
      m1 == FoldLeft(LAMBDA acc, p : ConTexto(acc, p), m, <<t, sep>> \o ps)
      id == LISTAS + 100000 + 1000 * (IdTexto(m1, t) - TEXTOS) + IdTexto(m1, sep) - TEXTOS
  IN Queda([m1 EXCEPT !.ls = (id :> [k \in DOMAIN ps |-> IdTexto(m1, ps[k])]) @@ @], i.a, id)

Textual(m, i) ==
  LET b == Texto(m, Reg(m, i.b))
      c == Texto(m, Reg(m, i.c))
  IN CASE i.op = "STR_REGISTRAR" -> Sigue(ConTexto(m, i.s))
       [] i.op = "LOAD_STR" -> QuedaTexto(m, i.a, i.s)
       [] i.op = "STR_CONCAT" ->
            IF {Reg(m, i.b), Reg(m, i.c)} \subseteq {0} \cup Textos(m) THEN QuedaNuevo(m, i.a, b \o c)
            ELSE Queda(m, i.a, 0)
       [] i.op = "STR_LONGITUD" -> Queda(m, i.a, Len(b))
       [] i.op = "CONTIENE_TEXTO" -> Queda(m, i.a, Bit(Contiene(b, c)))
       [] i.op = "TERMINA_CON" -> Queda(m, i.a, Bit(TerminaEn(b, c)))
       [] i.op = "STR_SUBTEXTO" -> QuedaTexto(m, i.a, Subtexto(b, Reg(m, i.c), Reg(m, i.c + 1)))
       [] i.op = "STR_CARACTER" ->
            IF Reg(m, i.c) < Len(b) THEN QuedaTexto(m, i.a, Subtexto(b, Reg(m, i.c), 1)) ELSE Queda(m, i.a, 0)
       [] i.op = "STR_ANTES" -> QuedaTexto(m, i.a, IF Contiene(b, c) THEN Antes(b, c) ELSE "")
       [] i.op = "STR_DESPUES" -> QuedaTexto(m, i.a, IF Contiene(b, c) THEN SinDelante(Despues(b, c)) ELSE "")
       [] i.op = "STR_COPIAR" -> IF EsTexto(m, Reg(m, i.b)) THEN QuedaNuevo(m, i.a, b) ELSE Queda(m, i.a, 0)
       [] i.op = "STR_ULTIMA" ->
            IF EsTexto(m, Reg(m, i.b)) THEN QuedaNuevo(m, i.a, Last(Partes(b, " "))) ELSE Queda(m, i.a, 0)
       [] i.op \in {"STR_DESDE_NUMERO", "STR_DESDE_ANY"} -> ATextoNumero(m, i)
       [] i.op \in {"STR_A_ENTERO", "STR_A_FLOTANTE"} -> DeTexto(m, i)
       [] i.op = "STR_DIVIDIR" -> Divide(m, i)
       [] i.op = "STR_DESDE_CODIGO" -> QuedaTexto(m, i.a, LetraDe(Reg(m, i.b) % 256))
       [] i.op = "STR_FLOTANTE_PREC" -> QuedaTexto(m, i.a, CuatroDecimales(Reg(m, i.b)))

OPS_TEXTO == {"STR_REGISTRAR", "LOAD_STR", "STR_CONCAT", "STR_LONGITUD", "CONTIENE_TEXTO", "TERMINA_CON",
                "STR_SUBTEXTO", "STR_CARACTER", "STR_ANTES", "STR_DESPUES", "STR_DESDE_NUMERO",
                "STR_DESDE_ANY", "STR_A_ENTERO", "STR_A_FLOTANTE", "STR_DIVIDIR", "STR_COPIAR", "STR_ULTIMA",
                "STR_DESDE_CODIGO", "STR_FLOTANTE_PREC"}

(* An id that is given is that of the list, which is emptied if it exists. *)
Lista(m, id) == IF id \in DOMAIN m.ls THEN m.ls[id] ELSE <<>>
ConLista(m, id, s) == [m EXCEPT !.ls = (id :> s) @@ @]
CreaLista(m, a, id) ==
  IF id # 0 THEN Queda(ConLista(m, id, <<>>), a, id)
  ELSE Queda([ConLista(m, LISTAS + m.nl + 1, <<>>) EXCEPT !.nl = @ + 1], a, LISTAS + m.nl + 1)

PonEnLista(m, id, k, v) ==
  IF k \in 0..Len(Lista(m, id)) - 1 THEN ConLista(m, id, [Lista(m, id) EXCEPT ![k + 1] = v]) ELSE m

DeLista(m, i) ==
  LET a == Reg(m, i.a)
      b == Reg(m, i.b)
      c == Reg(m, i.c)
  IN CASE i.op = "LISTA_CREAR" -> CreaLista(m, i.a, b)
       [] i.op = "LISTA_AGREGAR" -> Sigue(ConLista(m, a, Append(Lista(m, a), b)))
       [] i.op = "LISTA_PONER" -> Sigue(PonEnLista(m, a, b, c))
       [] i.op = "LISTA_OBTENER" ->
            IF b \notin DOMAIN m.ls THEN Queda(m, i.a, 0)
            ELSE IF c \in 0..Len(Lista(m, b)) - 1 THEN Queda(m, i.a, Lista(m, b)[c + 1])
            ELSE Falla(m, "indice de lista invalido")
       [] i.op = "LISTA_TAMANO" -> Queda(m, i.a, Len(Lista(m, b)))
       [] i.op = "LISTA_LIMPIAR" -> Sigue(IF a \in DOMAIN m.ls THEN ConLista(m, a, <<>>) ELSE m)
       [] i.op = "LISTA_LIBERAR" -> Sigue([m EXCEPT !.ls = [l \in DOMAIN @ \ {a} |-> @[l]]])

DeListas == {"LISTA_CREAR", "LISTA_AGREGAR", "LISTA_PONER", "LISTA_OBTENER", "LISTA_TAMANO",
             "LISTA_LIMPIAR", "LISTA_LIBERAR"}

(* A map is the sequence of its pairs, in the order of their keys' arrival. *)
Mapa(m, id) == IF id \in DOMAIN m.ms THEN m.ms[id] ELSE <<>>
ConMapa(m, id, s) == [m EXCEPT !.ms = (id :> s) @@ @]
Donde(s, k) == {j \in DOMAIN s : s[j].k = k}
Inserta(s, k, v) ==
  IF Donde(s, k) = {} THEN Append(s, [k |-> k, v |-> v])
  ELSE [j \in DOMAIN s |-> IF s[j].k = k THEN [k |-> k, v |-> v] ELSE s[j]]
Valor(s, k) == IF Donde(s, k) = {} THEN 0 ELSE s[CHOOSE j \in Donde(s, k) : TRUE].v

LlavesDe(m, a, s) ==
  LET ks == SelectSeq([j \in DOMAIN s |-> s[j].k], LAMBDA k : k # 0)
      m1 == CreaLista(m, a, 0)
  IN ConLista(m1, Reg(m1, a), ks)

DeMapa(m, i) ==
  LET a == Reg(m, i.a)
      b == Reg(m, i.b)
      c == Reg(m, i.c)
      nuevo == MAPAS + m.nl + 1
  IN CASE i.op = "MAPA_CREAR" -> Queda([ConMapa(m, nuevo, <<>>) EXCEPT !.nl = @ + 1], i.a, nuevo)
       [] i.op = "MAPA_PONER" -> Sigue(ConMapa(m, a, Inserta(Mapa(m, a), b, c)))
       [] i.op = "MAPA_OBTENER" -> Queda(m, i.a, Valor(Mapa(m, b), c))
       [] i.op = "MAPA_BORRAR" -> Sigue(m)   \* its number is that of OP_MEM_PENALIZAR
       [] i.op = "MAPA_TAMANO" -> Queda(m, i.a, Len(Mapa(m, b)))
       [] i.op = "MAPA_CONTIENE" -> Queda(m, i.a, Bit(Donde(Mapa(m, b), c) # {}))
       [] i.op = "MAPA_LLAVES" -> LlavesDe(m, i.a, Mapa(m, b))

DeMapas == {"MAPA_CREAR", "MAPA_PONER", "MAPA_OBTENER", "MAPA_BORRAR", "MAPA_TAMANO", "MAPA_CONTIENE",
            "MAPA_LLAVES"}

CreaClausura1(m, i) ==
  Queda([m EXCEPT !.cl = Append(@, [pc |-> Reg(m, i.b), env |-> Reg(m, i.c)])], i.a, CLAUSURAS + Len(m.cl) + 1)

CargaCapturada(m, i) ==
  IF m.env = 0 \/ i.b >= Len(Lista(m, m.env)) THEN Falla(m, "captura")
  ELSE Queda(m, i.a, Lista(m, m.env)[i.b + 1])

(***************************************************************************)
(* Matrices in memory, row by row                                          *)
(***************************************************************************)
Celdas(m, dir, n) == [k \in 0..n - 1 |-> Milesimas(De(m.mem, dir + 8 * k))]
PonCeldas(m, dir, f) ==
  Sigue([m EXCEPT !.mem = [d \in {dir + 8 * k : k \in DOMAIN f} |-> Flotante(f[(d - dir) \div 8])] @@ @])

ProductoMatriz(n, f, g, columnas) ==
  [k \in 0..n * columnas - 1 |->
     LET fila == k \div columnas
         col == k % columnas
         suma[j \in 0..n] == IF j = 0 THEN 0
                             ELSE suma[j - 1] + (f[fila * n + j - 1] * g[(j - 1) * columnas + col]) \div 1000
     IN suma[n]]

Matricial(m, i) ==
  LET a == Reg(m, i.a)
      b == Reg(m, i.b)
      c == Reg(m, i.c)
      n == IF i.op \in {"MAT3_MUL", "MAT3_MUL_VEC3"} THEN 3 ELSE 4
      f == Celdas(m, b, n * n)
  IN PonCeldas(m, a,
       CASE i.op \in {"MAT4_MUL", "MAT3_MUL"} -> ProductoMatriz(n, f, Celdas(m, c, n * n), n)
         [] i.op \in {"MAT4_MUL_VEC4", "MAT3_MUL_VEC3"} -> ProductoMatriz(n, f, Celdas(m, c, n), 1)
         [] i.op = "MAT4_TRANSPUESTA" -> [k \in 0..15 |-> f[4 * (k % 4) + k \div 4]]
         [] i.op = "MAT4_IDENTIDAD" -> [k \in 0..15 |-> IF k % 5 = 0 THEN 1000 ELSE 0])

Matriciales == {"MAT4_MUL", "MAT3_MUL", "MAT4_MUL_VEC4", "MAT3_MUL_VEC3", "MAT4_TRANSPUESTA", "MAT4_IDENTIDAD"}

(***************************************************************************)
(* The world outside: an operation is printed with what it is given, and   *)
(* its answer is a number that depends on when it was asked.               *)
(***************************************************************************)
RESPUESTA == 7000

Sistema(m, i) ==
  LET dado(x) == Muestra(m, IF x.reg THEN Reg(m, x.v) ELSE x.v)
      linea == FoldLeft(LAMBDA acc, x : acc \o " " \o dado(x), "<" \o i.s, i.lee) \o ">"
      m1 == [m EXCEPT !.sale = @ \o linea]
  IN IF i.a = 0 THEN Sigue(m1) ELSE Queda(m1, i.a, RESPUESTA + Len(m1.sale))

EntradaTexto(m, i) == QuedaTexto(m, i.a, "dato")

Clausural(m, i) == IF i.op = "CLOSURE_CREAR" THEN CreaClausura1(m, i) ELSE CargaCapturada(m, i)
================================================================================
