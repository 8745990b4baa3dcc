-------------------------------- MODULE Analizador --------------------------------
(***************************************************************************)
(* The parser: its state, and the expressions of the language.             *)
(*                                                                         *)
(* A parser p is [t, pos, err, mal, roto]: the tokens, the position, an    *)
(* error not yet reported (last_error), whether some error was reported    *)
(* (accumulated_errors), and whether the process has crashed.  A parsing   *)
(* function returns [p, a]: the parser afterwards, and one node or none.   *)
(***************************************************************************)
EXTENDS Lexemas, Nodos, SequencesExt

RECURSIVE Analiza(_, _, _)
(* The parsing functions that call one another; Analiza is at the end. *)
parse_function(p) == Analiza("funcion", p, {})
parse_struct_body(p, esClase) == Analiza("estructura", p, esClase)
Expresion(p) == Analiza("expresion", p, {})
Nivel(p, n) == Analiza("nivel", p, n)
Unario(p) == Analiza("unario", p, {})
Primario(p) == Analiza("primario", p, {})
Bloque(p, fines) == Analiza("bloque", p, fines)
Sentencia(p) == Analiza("sentencia", p, {})
Parametros(p) == Analiza("parametros", p, {})
ParametrosDe(p) == Analiza("parametrosDe", p, {})
CuerpoLambda(p) == Analiza("cuerpoLambda", p, {})
Campo(p) == Analiza("campo", p, {})

parser_init(t) == [t |-> t, pos |-> 1, err |-> FALSE, mal |-> FALSE, roto |-> FALSE]

(***************************************************************************)
(* Tokens                                                                  *)
(***************************************************************************)
NIL == Ficha("nil", "", 0)

Mira(p, n) == IF p.pos + n \in DOMAIN p.t THEN p.t[p.pos + n] ELSE NIL
Avanza(p) == [p EXCEPT !.pos = IF @ \in DOMAIN p.t THEN @ + 1 ELSE @]

(* The token is the word w, and not a text that says w. *)
Es(t, w) == t.k \in {"pal", "id", "op"} /\ t.s = w
EsFinal(t) == t.k \in {"fin", "nil"}

(* The string of a token; a number has none. *)
TieneCadena(t) == t.k \in {"pal", "id", "op", "txt", "con"}
Cadena(t) == IF TieneCadena(t) THEN t.s ELSE ""
(* Reading the string of a number that is not zero is a wild pointer. *)
LeerLoRompe(t) == t.k \in {"num", "flot"} /\ t.v # 0

Error(p) == [p EXCEPT !.err = TRUE]
Rota(p) == [Error(p) EXCEPT !.roto = TRUE]
Espera(p, w) == IF Es(Mira(p, 0), w) THEN Avanza(p) ELSE Error(p)
Opcional(p, w) == IF Es(Mira(p, 0), w) THEN Avanza(p) ELSE p

Da(p, n) == [p |-> p, a |-> <<n>>]
Nulo(p) == [p |-> p, a |-> <<>>]
Falla(p) == Nulo(Error(p))
Hijo(r) == IF r.a = <<>> THEN Nada ELSE r.a[1]

TIPOS ==
  {"entero", "texto", "flotante", "caracter", "bool", "lista", "mapa", "u32", "u64", "u8", "byte",
   "vec2", "vec3", "vec4", "mat3", "mat4", "funcion", "bytes", "tarea", "socket", "tls",
   "http_solicitud", "http_respuesta", "http_servidor", "objeto", "elemento"}
EsTipo(t) == TieneCadena(t) /\ t.s \in TIPOS

(* Keywords that an expression may use as a name. *)
PermitidaComoNombre(w) ==
  EsLlamadaSistema(w) \/ w \in {"resultado", "padre", "vec2", "vec3", "vec4", "mat3", "mat4"}

EsNombrable(t) == t.k = "id" \/ (t.k = "pal" /\ PermitidaComoNombre(t.s))

(* A name that the program declares: any token will do, a keyword, a function
   of the system and nulo excepted. *)
NombreValido(t) ==
  /\ ~LeerLoRompe(t)
  /\ t.k \notin {"nulo", "pal"}
  /\ TieneCadena(t) => ~EsLlamadaSistema(t.s)
SinNombre(p, t) == Nulo(IF LeerLoRompe(t) THEN Rota(p) ELSE Error(p))
NombreDe(t) == IF TieneCadena(t) THEN t.s ELSE "NULL"

(***************************************************************************)
(* Lists of expressions                                                    *)
(***************************************************************************)
(* Expressions between commas, at most max of them, up to one that is missing. *)
RECURSIVE ListaExp(_, _, _, _)
ListaExp(p, cierre, max, es) ==
  LET r == Expresion(p)
      mas == es \o r.a
  IN IF max = 0 \/ EsFinal(Mira(p, 0)) \/ Es(Mira(p, 0), cierre) THEN [p |-> p, es |-> es, falta |-> FALSE]
     ELSE IF r.a # <<>> /\ Es(Mira(r.p, 0), ",") THEN ListaExp(Avanza(r.p), cierre, max - 1, mas)
     ELSE [p |-> r.p, es |-> mas, falta |-> r.a = <<>>]

MAX_ARGS == 16
Argumentos(p) == ListaExp(p, ")", MAX_ARGS, <<>>)

LiteralLista(p) ==
  LET r == ListaExp(Avanza(p), "]", Len(p.t), <<>>)
  IN Da(Espera(r.p, "]"), Li(r.es))

Clave(p) ==
  LET t == Mira(p, 0)
  IN IF EsNombrable(t) \/ t.k = "txt" THEN Da(Avanza(p), T(t.s)) ELSE Expresion(p)

RECURSIVE Claves(_, _)
Claves(p, cs) ==
  LET c == Clave(p)
      v == Expresion(Espera(c.p, ":"))
      mas == Append(cs, <<Hijo(c), Hijo(v)>>)
  IN IF Mira(p, 0).k = "nil" \/ Es(Mira(p, 0), "}") THEN [p |-> p, cs |-> cs]
     ELSE IF c.a = <<>> THEN [p |-> c.p, cs |-> cs]
     ELSE IF v.a = <<>> THEN [p |-> v.p, cs |-> cs]
     ELSE IF Es(Mira(v.p, 0), ",") THEN Claves(Avanza(v.p), mas)
     ELSE [p |-> v.p, cs |-> mas]

LiteralMapa(p) ==
  LET r == Claves(Avanza(p), <<>>) IN Da(Espera(r.p, "}"), Ma(r.cs))

(* After `{`: the comma between two pairs may be missing. *)
RECURSIVE ClavesJson(_, _)
ClavesJson(p, cs) ==
  LET t == Mira(p, 0)
      v == Expresion(Avanza(Avanza(p)))
  IN IF Es(t, "}") THEN Da(Avanza(p), Js(cs))
     ELSE IF ~(EsNombrable(t) \/ t.k \in {"txt", "con"}) THEN Falla(p)
     ELSE IF ~Es(Mira(p, 1), ":") THEN Falla(Avanza(p))
     ELSE IF v.a = <<>> THEN v
     ELSE ClavesJson(Opcional(v.p, ","), Append(cs, <<T(t.s), v.a[1]>>))

LiteralJson(p) == IF Es(Mira(p, 0), "{") THEN ClavesJson(Avanza(p), <<>>) ELSE Falla(p)

(***************************************************************************)
(* Lambdas                                                                 *)
(***************************************************************************)
(* The parameters up to the closing parenthesis; nombre says that they end at
   a token that cannot be the name of one. *)
RECURSIVE ListaParametros(_, _)
ListaParametros(p, ps) ==
  LET t == Mira(p, 0)
      tipado == EsTipo(t)
      q == IF tipado THEN Avanza(p) ELSE p
      n == Mira(q, 0)
      mas == Append(ps, P(n.s, IF tipado THEN t.s ELSE "entero"))
      r == Avanza(q)
      falla(x, nombre) == [p |-> x, ok |-> FALSE, ps |-> ps, nombre |-> nombre]
  IN IF Es(t, ")") THEN [p |-> Avanza(p), ok |-> TRUE, ps |-> ps, nombre |-> FALSE]
     ELSE IF EsFinal(t) \/ Len(ps) = MAX_ARGS THEN falla(p, FALSE)
     ELSE IF ~EsNombrable(n) THEN falla(q, n.k # "nil")
     ELSE IF Es(Mira(r, 0), ")") THEN [p |-> Avanza(r), ok |-> TRUE, ps |-> mas, nombre |-> FALSE]
     ELSE IF Es(Mira(r, 0), ",") THEN ListaParametros(Avanza(r), mas)
     ELSE falla(r, FALSE)

(* What follows `=>`: a block between braces, or one expression. *)
parse_cuerpo(p) ==
  LET b == Bloque(Avanza(p), {"}"})
      e == Expresion(p)
  IN IF Es(Mira(p, 0), "{") THEN Da(Espera(b.p, "}"), Bl(b.ss))
     ELSE IF e.a = <<>> /\ Es(Mira(e.p, 0), ")") THEN Falla(e.p)
     ELSE e

LambdaTras(l) ==
  IF l.ok /\ Es(Mira(l.p, 0), "=>") THEN CuerpoLambda(Avanza(l.p)) ELSE Nulo(l.p)

(* The value of a macro. *)
parse_lambda(p) ==
  LET l == Parametros(Avanza(p))
      r == LambdaTras(l)
      malo == Mira(l.p, 0)
  IN IF ~Es(Mira(p, 0), "(") THEN IF Mira(p, 0).k = "nil" THEN Nulo(p) ELSE Falla(p)
     ELSE IF r.a # <<>> THEN Da(r.p, Lam(l.ps, r.a[1]))
     ELSE IF l.nombre THEN IF l.p.err THEN Nulo(l.p) ELSE SinNombre(l.p, malo)
     ELSE IF l.ok /\ ~Es(malo, "=>") /\ malo.k # "nil" THEN Falla(l.p)
     ELSE r

(* A bug: the right side of an operator keeps its parameters. *)
RECURSIVE SustituyeIzquierda(_, _, _)
SustituyeIzquierda(n, ps, es) ==
  LET copia(x) == SustituyeIzquierda(x, ps, es)
      suyos == {i \in DOMAIN ps : n.k = "var" /\ ps[i].n = n.n}
  IN CASE suyos # {} -> es[CHOOSE i \in suyos : \A j \in suyos : i <= j]
       [] n.k = "bin" -> B(copia(n.i), n.op, n.d)
       [] n.k = "un" -> U(n.op, copia(n.e))
       [] n.k = "ter" -> Ter(copia(n.c), copia(n.i), copia(n.d))
       [] n.k \in {"var", "num", "flot", "txt", "con", "car", "nulo"} -> n
       [] OTHER -> Nada

(* The body of a lambda with its arguments in the place of its parameters; only
   these five kinds of node are copied. *)
RECURSIVE Sustituye(_, _, _)
Sustituye(n, ps, es) ==
  LET copia(x) == Sustituye(x, ps, es)
  IN CASE n.k = "var" ->
            IF \E i \in DOMAIN ps : ps[i].n = n.n
            THEN Sustituye(es[CHOOSE i \in DOMAIN ps : ps[i].n = n.n /\ \A j \in 1..i - 1 : ps[j].n # n.n],
                           <<>>, <<>>)
            ELSE n
       [] n.k \in {"num", "flot", "txt", "con", "car", "nulo"} -> n
       [] n.k = "bin" -> B(copia(n.i), n.op, copia(n.d))
       [] n.k = "un" -> U(n.op, copia(n.e))
       [] n.k = "ter" -> Ter(copia(n.c), copia(n.i), copia(n.d))
       [] OTHER -> Nada

(* Between plain parentheses, from the outer one at pos. *)
Agrupada(p, pos) ==
  LET r == Expresion([p EXCEPT !.pos = pos + 1])
  IN IF p.err THEN Nulo(p)
     ELSE IF r.p.err THEN Nulo(r.p)
     ELSE [r EXCEPT !.p = Espera(r.p, ")")]

(* `((x) => ...)(args)`: a lambda called where it is written becomes its body. *)
Invocada(p, pos) ==
  LET fuera == [p EXCEPT !.pos = pos + 1]
      l == Parametros(Avanza(fuera))
      r == IF Es(Mira(fuera, 0), "(") THEN LambdaTras(l) ELSE Nulo(fuera)
      as == Argumentos(Avanza(Avanza(r.p)))
      n == Sustituye(r.a[1], l.ps, as.es)
  IN IF r.a = <<>> THEN Agrupada(r.p, pos)
     ELSE IF ~Es(Mira(r.p, 0), ")") THEN Da(r.p, Lam(l.ps, r.a[1]))
     ELSE IF ~Es(Mira(r.p, 1), "(") THEN Agrupada(Avanza(r.p), pos)
     ELSE IF as.falta \/ ~Es(Mira(as.p, 0), ")") THEN Agrupada(as.p, pos)
     ELSE IF Len(as.es) # Len(l.ps) THEN Falla(Avanza(as.p))
     ELSE [p |-> Avanza(as.p), a |-> IF n = Nada THEN <<>> ELSE <<n>>]

(* A parenthesis: a lambda, a lambda that is called at once, or an expression. *)
Parentesis(p) ==
  LET l == Parametros(Avanza(p))
      r == LambdaTras(l)
  IN IF r.a # <<>> THEN Da(r.p, Lam(l.ps, r.a[1])) ELSE Invocada(r.p, p.pos)

(***************************************************************************)
(* Primary and unary expressions                                           *)
(***************************************************************************)
make_literal_char(c) == Car(CodigoDe(c))

parse_primary(p) ==
  LET t == Mira(p, 0)
      entrada == Es(t, "ingresar_texto") \/ Es(t, "ingreso_inmediato")
      json == Es(t, "json") /\ Es(Mira(p, 1), "{")
  IN CASE t.k = "num" -> Da(Avanza(p), N(t.v))
       [] t.k = "flot" -> Da(Avanza(p), F(t.v))
       [] t.k = "nulo" -> Da(Avanza(p), Nul)
       [] t.k = "txt" -> Da(Avanza(p), T(t.s))
       [] t.k = "con" -> Da(Avanza(p), IF Len(t.s) = 1 THEN make_literal_char(t.s) ELSE Con(t.s))
       [] json -> LiteralJson(Avanza(p))
       [] entrada -> Da(Avanza(p), Entra(Es(t, "ingreso_inmediato")))
       [] EsNombrable(t) /\ ~entrada -> Da(Avanza(p), V(t.s))
       [] t.k = "pal" /\ ~EsNombrable(t) /\ ~entrada /\ ~json -> Falla(p)
       [] Es(t, "(") -> Parentesis(p)
       [] Es(t, "[") -> LiteralLista(p)
       [] Es(t, "{") -> LiteralMapa(p)
       [] OTHER -> Nulo(p)

(* `++` and `--`, after the calls of a value. *)
RECURSIVE Incrementos(_, _)
Incrementos(p, n) ==
  IF ~(Es(Mira(p, 0), "++") \/ Es(Mira(p, 0), "--")) THEN Da(p, n)
  ELSE IF n.k \notin {"var", "miem", "idx"} THEN Falla(Avanza(p))
  ELSE Incrementos(Avanza(p), Po(n, IF Es(Mira(p, 0), "++") THEN 1 ELSE -1))

Llamada(n, es) ==
  CASE n.k = "var" -> Ll(n.n, es)
    [] n.k = "miem" -> Met(n.b, n.c, es)
    [] OTHER -> Ic(n, es)

RECURSIVE Invocaciones(_, _)
Invocaciones(p, n) ==
  LET as == Argumentos(Avanza(p))
  IN IF ~Es(Mira(p, 0), "(") THEN Incrementos(p, n)
     ELSE IF ~Es(Mira(as.p, 0), ")") THEN Falla(as.p)
     ELSE Invocaciones(Avanza(as.p), Llamada(n, as.es))

(* `.` and `[` after a value. *)
RECURSIVE Sufijos(_, _)
Sufijos(p, n) ==
  LET m == Mira(p, 1)
      i == Expresion(Avanza(p))
  IN IF Es(Mira(p, 0), ".") /\ (m.k = "id" \/ Es(m, "y")) THEN Sufijos(Avanza(Avanza(p)), Mi(n, m.s))
     ELSE IF Es(Mira(p, 0), "[") THEN Sufijos(Espera(i.p, "]"), Ix(n, Hijo(i)))
     ELSE Invocaciones(Opcional(p, "."), n)

(* `llamar` asks of a primary expression that it be a call, which only one between
   parentheses is. *)
parse_unary(p) ==
  LET t == Mira(p, 0)
      e == Unario(Avanza(p))
      r == Primario(p)
      llamado == Primario(Avanza(p))
  IN CASE Es(t, "-") -> IF e.a = <<>> THEN e ELSE Da(e.p, B(N(0), "-", e.a[1]))
       [] Es(t, "no") \/ Es(t, "!") -> Da(e.p, U("no", Hijo(e)))
       [] Es(t, "esperar") -> Da(e.p, U("esperar", Hijo(e)))
       [] Es(t, "llamar") ->
            IF llamado.a # <<>> /\ llamado.a[1].k \in {"llam", "met", "icall"} THEN llamado
            ELSE IF Mira(p, 1).k = "nil" THEN Nulo(llamado.p) ELSE Falla(llamado.p)
       [] OTHER -> IF r.a = <<>> THEN r ELSE Sufijos(r.p, r.a[1])

(***************************************************************************)
(* Binary operators, from the loosest level                                *)
(***************************************************************************)
DISYUNCION == 1
COMPARACION == 3
ARITMETICA == 4
(* A bug: the sum binds as the product does. *)
OPERADORES_DE_MEZCLADOS ==
  <<{"o"}, {"y"}, {}, {}, {"+", "-", "*", "/", "%", "<<", ">>"}>>

OPERADORES_DE ==
  <<{"o"}, {"y"}, {}, {"+", "-"}, {"*", "/", "%", "<<", ">>"}>>
UNARIO == Len(OPERADORES_DE) + 1
MAX_O == 100

Opuesto(op) ==
  CASE op = "==" -> "!=" [] op = "!=" -> "==" [] op = "<" -> ">=" [] op = ">=" -> "<"
    [] op = ">" -> "<=" [] op = "<=" -> ">"
COMPARADORES == {"==", "!=", "<", ">", "<=", ">="}

(* Comparisons in words. *)
FRASES ==
  <<[ws |-> <<{"es"}, {"igual"}, {"a"}>>, op |-> "=="],
    [ws |-> <<{"es"}, {"mayor"}, {"o"}, {"igual"}, {"a"}>>, op |-> ">="],
    [ws |-> <<{"es"}, {"menor"}, {"o"}, {"igual"}, {"a"}>>, op |-> "<="],
    [ws |-> <<{"es"}, {"mayor"}, {"que"}>>, op |-> ">"],
    [ws |-> <<{"es"}, {"menor"}, {"que"}>>, op |-> "<"],
    [ws |-> <<{"es"}, {"distinto", "diferente"}, {"de", "a"}>>, op |-> "!="],
    [ws |-> <<{"esta"}, {"vacia", "vacio"}>>, op |-> "=="]>>

(* The first n words of a phrase are next in the source. *)
Coincide(p, f, n) == /\ Es(Mira(p, 0), Cadena(Mira(p, 0)))
                     /\ \A k \in 1..n : Cadena(Mira(p, k - 1)) \in f.ws[k]
FrasesEn(p) == {k \in DOMAIN FRASES : Coincide(p, FRASES[k], Len(FRASES[k].ws))}
(* A number where a phrase could go on is read as a string. *)
FraseRota(p) ==
  \E k \in DOMAIN FRASES : \E n \in 1..Len(FRASES[k].ws) - 1 :
    Coincide(p, FRASES[k], n) /\ LeerLoRompe(Mira(p, n))

Comparacion(p0, izq) ==
  LET negado == Es(Mira(p0, 0), "no") /\ (Es(Mira(p0, 1), "es") \/ Es(Mira(p0, 1), "esta"))
      p == IF negado THEN Avanza(p0) ELSE p0
      f == FRASES[CHOOSE k \in FrasesEn(p) : TRUE]
      simbolo == Mira(p, 0).k = "op" /\ Mira(p, 0).s \in COMPARADORES
      op == IF simbolo THEN Mira(p, 0).s ELSE f.op
      tras == [p EXCEPT !.pos = @ + (IF simbolo THEN 1 ELSE Len(f.ws))]
      der == Nivel(tras, ARITMETICA)
      nodo(d) == B(izq, IF negado THEN Opuesto(op) ELSE op, d)
  IN IF FraseRota(p) THEN Nulo(Rota(p))
     ELSE IF ~simbolo /\ FrasesEn(p) = {} THEN Da(p, izq)
     ELSE IF ~simbolo /\ f.ws[1] = {"esta"} THEN Da(tras, nodo(N(0)))
     ELSE IF der.a = <<>> THEN der ELSE Da(der.p, nodo(der.a[1]))

(* One level: its operators associate to the left, comparisons do not. *)
RECURSIVE Resto(_, _, _, _)
Resto(p, izq, n, veces) ==
  LET op == Mira(p, 0)
      der == Nivel(Avanza(p), n + 1)
  IN IF ~(op.k \in {"op", "pal"} /\ op.s \in OPERADORES_DE[n]) THEN Da(p, izq)
     ELSE IF n = DISYUNCION /\ veces = MAX_O THEN Falla(Avanza(p))
     ELSE IF der.a = <<>> THEN der
     ELSE Resto(der.p, B(izq, op.s, der.a[1]), n, veces + 1)

parse_nivel(p, n) ==
  LET r == Nivel(p, n + 1)
  IN IF n = UNARIO THEN Unario(p)
     ELSE IF r.a = <<>> THEN r
     ELSE IF n = COMPARACION THEN Comparacion(r.p, r.a[1])
     ELSE Resto(r.p, r.a[1], n, 0)

parse_expression(p) ==
  LET c == Nivel(p, DISYUNCION)
      si == Expresion(Avanza(c.p))
      no == Expresion(Espera(si.p, ":"))
  IN IF c.a = <<>> \/ ~Es(Mira(c.p, 0), "?") THEN c
     ELSE IF si.a = <<>> \/ no.a = <<>> THEN Nulo(no.p)
     ELSE Da(no.p, Ter(c.a[1], si.a[1], no.a[1]))

(***************************************************************************)
(* Blocks and recovery from errors                                         *)
(***************************************************************************)
ANCLAS ==
  {"entero", "texto", "flotante", "caracter", "bool", "lista", "mapa", "u32", "u64", "u8", "byte",
   "vec2", "vec3", "vec4", "mat3", "mat4", "si", "mientras", "para_cada", "hacer", "para",
   "seleccionar", "intentar", "asincrono", "esperar", "tarea", "funcion", "principal", "retornar",
   "lanzar", "llamar", "imprimir", "ingresar_texto", "ingreso_inmediato", "limpiar_consola", "pausa",
   "fin_si", "fin_mientras", "fin_para_cada", "fin_hacer", "fin_para", "fin_seleccionar",
   "fin_intentar", "fin_funcion", "fin_principal", "caso", "defecto", "atrapar", "final",
   "registro", "fin_registro", "clase", "fin_clase"}

(* Past the token that failed, up to one that may begin or end a statement. *)
parser_synchronize(p) ==
  LET hitos == {i \in p.pos + 1..Len(p.t) : p.t[i].k = "fin" \/ (p.t[i].k = "pal" /\ p.t[i].s \in ANCLAS)}
  IN [p EXCEPT !.pos = IF hitos = {} THEN Len(p.t) + 1 ELSE CHOOSE i \in hitos : \A j \in hitos : i <= j]

parser_accumulate_error(p) == [p EXCEPT !.err = FALSE, !.mal = TRUE]

EsFin(t) == t.k = "pal" /\ Len(t.s) >= 4 /\ SubSeq(t.s, 1, 4) = "fin_"

(* Statements up to one of the words that end the block, that is not read; an
   error is kept and the block goes on at the next statement. *)
RECURSIVE parse_block(_, _, _)
parse_block(p, fines, ss) ==
  LET t == Mira(p, 0)
      r == Sentencia(p)
      q == parser_accumulate_error(r.p)
      mas == ss \o r.a
      acaba(x, s) == [p |-> x, ss |-> s]
  IN IF t.k = "nil" \/ (t.k \in {"pal", "op"} /\ t.s \in fines) THEN acaba(p, ss)
     ELSE IF r.a = <<>>
          THEN IF ~r.p.err /\ (Mira(r.p, 0).k = "nil" \/ EsFin(Mira(r.p, 0))) THEN acaba(r.p, ss)
               ELSE IF Mira(q, 0).k = "fin" THEN acaba(q, ss)
               ELSE parse_block(parser_synchronize(q), fines, ss)
     ELSE IF r.a[1].k = "finHacer" THEN acaba(r.p, mas)
     ELSE parse_block(Opcional(r.p, "."), fines, mas)

(* The word that closes a statement, which is lost without it. *)
Cierra(p, fines, n) ==
  IF \E w \in fines : Es(Mira(p, 0), w) THEN Da(Avanza(p), n) ELSE Falla(p)

(***************************************************************************)
(* Declarations of variables                                               *)
(***************************************************************************)
PRIMITIVOS ==
  {"entero", "texto", "flotante", "bool", "caracter", "u32", "u64", "u8", "byte", "vec2", "vec3",
   "vec4", "mat3", "mat4", "bytes", "socket", "tls", "http_solicitud", "http_respuesta",
   "http_servidor", "elemento"}
DE_CONSTANTE ==
  {"entero", "texto", "flotante", "caracter", "bool", "u32", "u64", "u8", "byte", "vec2", "vec3",
   "vec4", "mat3", "mat4"}

(* `= value`, when it comes; the value itself may be missing. *)
Inicializada(p, t, el, n) ==
  LET v == Expresion(Avanza(p))
  IN IF Es(Mira(p, 0), "=") THEN Da(v.p, Decla(t, el, n, v.a, FALSE)) ELSE Da(p, Decla(t, el, n, <<>>, FALSE))

constante(p) ==
  LET tipo == Mira(p, 0)
      n == Mira(p, 1)
      q == Avanza(Avanza(p))
      v == Expresion(Avanza(q))
  IN IF ~(TieneCadena(tipo) /\ tipo.s \in DE_CONSTANTE) THEN Falla(p)
     ELSE IF ~NombreValido(n) THEN SinNombre(Avanza(p), n)
     ELSE IF ~Es(Mira(q, 0), "=") THEN Falla(q)
     ELSE IF v.a = <<>> THEN v
     ELSE Da(v.p, Cte(tipo.s, NombreDe(n), v.a[1]))

objeto(p) ==
  LET n == Mira(p, 0)
      v == IF Es(Mira(p, 1), "=") THEN Expresion(Avanza(Avanza(p))) ELSE LiteralJson(Avanza(p))
  IN IF ~NombreValido(n) THEN SinNombre(p, n)
     ELSE IF v.a = <<>> THEN v
     ELSE Da(v.p, Dec("objeto", NombreDe(n), v.a[1]))

(* `<T>` after lista or mapa, or after the name; tarea takes a keyword only. *)
TipoElemento(p, clases) ==
  LET t == Mira(p, 1)
      cierra == Espera(Avanza(Avanza(p)), ">")
      ok == t.k \in clases /\ Es(Mira(p, 2), ">")
  IN IF ~Es(Mira(p, 0), "<") THEN [p |-> p, el |-> "NULL", ok |-> TRUE]
     ELSE [p |-> IF t.k \in clases THEN cierra ELSE Error(Avanza(p)), el |-> IF ok THEN t.s ELSE "NULL",
           ok |-> ok]

(* The name and the value of a declaration whose type has been read. *)
Nombrada(p, tipo, el) ==
  LET n == Mira(p, 0)
  IN IF NombreValido(n) THEN Inicializada(Avanza(p), tipo, el, NombreDe(n)) ELSE SinNombre(p, n)

Coleccion(p, tipo) ==
  LET antes == TipoElemento(p, {"pal", "id"})
      n == Mira(antes.p, 0)
      e == IF antes.el = "NULL" THEN TipoElemento(Avanza(antes.p), {"pal", "id"})
           ELSE [antes EXCEPT !.p = Avanza(@)]
  IN IF ~NombreValido(n) THEN SinNombre(antes.p, n)
     ELSE IF e.p.err THEN Nulo(e.p)
     ELSE Inicializada(e.p, tipo, e.el, NombreDe(n))

Declaracion(p) ==
  LET t == Mira(p, 0).s
      opcional == Es(Mira(p, 1), "?")
      q == Opcional(Avanza(p), "?")
      tipo == IF opcional THEN t \o "?" ELSE t
      tarea == TipoElemento(q, {"pal"})
  IN CASE t \in PRIMITIVOS -> Nombrada(q, tipo, "NULL")
       [] t \in {"lista", "mapa"} -> Coleccion(q, tipo)
       [] t = "tarea" -> IF tarea.ok THEN Nombrada(tarea.p, tipo, tarea.el) ELSE Nulo(tarea.p)

(***************************************************************************)
(* seleccionar, intentar, mientras                                         *)
(***************************************************************************)
FinHacer(c) == [k |-> "finHacer", c |-> c]

(* The values of a case, at least one; after a comma the value may be missing.
   `rango` is no keyword: the case of a range is never read. *)
RECURSIVE Valores(_, _)
Valores(p, vs) ==
  LET v == Expresion(p)
  IN IF v.a # <<>> /\ Es(Mira(v.p, 0), ",") THEN Valores(Avanza(v.p), vs \o v.a)
     ELSE [p |-> v.p, vs |-> vs \o v.a]

RECURSIVE Casos(_, _, _)
Casos(p, e, cs) ==
  LET v == Valores(Avanza(p), <<>>)
      b == Bloque(v.p, {"caso", "defecto", "fin_seleccionar"})
      d == Bloque(Avanza(p), {"fin_seleccionar"})
  IN IF Es(Mira(p, 0), "caso")
     THEN IF v.vs = <<>> THEN Nulo(v.p)
          ELSE IF b.p.err THEN Nulo(b.p)
          ELSE Casos(b.p, e, Append(cs, Caso(v.vs, b.ss)))
     ELSE IF Es(Mira(p, 0), "defecto")
          THEN IF d.p.err THEN Nulo(d.p) ELSE Cierra(d.p, {"fin_seleccionar"}, Eleg(e, cs, d.ss))
     ELSE Cierra(p, {"fin_seleccionar"}, Eleg(e, cs, <<>>))

seleccionar(p) ==
  LET e == Expresion(p)
  IN IF e.a = <<>> THEN e
     ELSE IF ~Es(Mira(e.p, 0), "hacer") THEN Falla(e.p)
     ELSE Casos(Avanza(e.p), e.a[1], <<>>)

Finalmente(p, b, var, at) ==
  LET f == Bloque(Avanza(p), {"fin_intentar"})
  IN IF ~Es(Mira(p, 0), "final") THEN Cierra(p, {"fin_intentar"}, Intenta(b, var, at, <<>>))
     ELSE IF f.p.err THEN Nulo(f.p)
     ELSE Cierra(f.p, {"fin_intentar"}, Intenta(b, var, at, <<f.ss>>))

(* A keyword after atrapar is taken for its variable. *)
intentar(p) ==
  LET b == Bloque(p, {"atrapar", "final", "fin_intentar"})
      v == Mira(b.p, 1)
      conNombre == v.k \in {"id", "pal"}
      q == Avanza(b.p)
      a == Bloque(IF conNombre THEN Avanza(q) ELSE q, {"final", "fin_intentar"})
  IN IF b.p.err THEN Nulo(b.p)
     ELSE IF ~Es(Mira(b.p, 0), "atrapar") THEN Finalmente(b.p, b.ss, "NULL", <<>>)
     ELSE IF conNombre /\ ~NombreValido(v) THEN SinNombre(q, v)
     ELSE IF a.p.err THEN Nulo(a.p)
     ELSE Finalmente(a.p, b.ss, IF conNombre THEN v.s ELSE "NULL", <<a.ss>>)

(* `mientras c fin_hacer` ends a hacer; otherwise it is a loop of its own. *)
mientras(p) ==
  LET c == Expresion(p)
      b == Bloque(Avanza(c.p), {"fin_mientras"})
  IN IF Es(Mira(c.p, 0), "fin_hacer") THEN Da(Avanza(c.p), FinHacer(Hijo(c)))
     ELSE IF ~Es(Mira(c.p, 0), "hacer") THEN Falla(c.p)
     ELSE IF b.p.err THEN Nulo(b.p)
     ELSE Cierra(b.p, {"fin_mientras"}, Mien(Hijo(c), b.ss))

(***************************************************************************)
(* para, hacer                                                             *)
(***************************************************************************)
(* The type of the variable is optional; a type before `en` is its name, and
   elemento may be one. *)
ParaCada(p) ==
  LET tipado == /\ Mira(p, 0).k = "pal" /\ Mira(p, 0).s \in {"entero", "flotante", "texto", "bool"}
                /\ ~Es(Mira(p, 1), "en")
      q == IF tipado THEN Avanza(p) ELSE p
      n == Mira(q, 0)
      e == Expresion(Avanza(Avanza(q)))
      b == Bloque(Avanza(e.p), {"fin_para", "fin_para_cada"})
  IN IF ~NombreValido(n) /\ Cadena(n) # "elemento" THEN SinNombre(q, n)
     ELSE IF ~Es(Mira(q, 1), "en") THEN Falla(Avanza(q))
     ELSE IF e.a = <<>> THEN e
     ELSE IF ~Es(Mira(e.p, 0), "hacer") THEN Falla(e.p)
     ELSE IF b.p.err THEN Nulo(b.p)
     ELSE Cierra(b.p, {"fin_para", "fin_para_cada"},
                 Cada(IF tipado THEN Mira(p, 0).s ELSE "elemento", NombreDe(n), e.a[1], b.ss))

ParaMientras(p) ==
  LET ini == Sentencia(p)
      c == Expresion(Avanza(ini.p))
      paso == Expresion(Avanza(c.p))
      b == Bloque(Avanza(paso.p), {"fin_para"})
  IN IF ini.a = <<>> THEN ini
     ELSE IF ~Es(Mira(ini.p, 0), "mientras") THEN Falla(ini.p)
     ELSE IF c.a = <<>> THEN c
     ELSE IF ~Es(Mira(c.p, 0), "con") THEN Falla(c.p)
     ELSE IF paso.a = <<>> THEN paso
     ELSE IF ~Es(Mira(paso.p, 0), "hacer") THEN Falla(paso.p)
     ELSE IF b.p.err THEN Nulo(b.p)
     ELSE Cierra(b.p, {"fin_para"}, Para(ini.a[1], c.a[1], paso.a[1], b.ss))

para(p) == IF Es(Mira(p, 0), "cada") THEN ParaCada(Avanza(p)) ELSE ParaMientras(p)

(* The block ends at a `mientras ... fin_hacer`, which holds the condition. *)
hacer(p) ==
  LET b == Bloque(p, {"fin_principal", "fin_funcion"})
  IN IF b.p.err THEN Nulo(b.p)
     ELSE IF b.ss = <<>> \/ Last(b.ss).k # "finHacer" THEN Falla(b.p)
     ELSE Da(b.p, Hac(Front(b.ss), Last(b.ss).c))

(***************************************************************************)
(* si, cuando                                                              *)
(***************************************************************************)
(* The cases of a cuando; no holds the block of defecto, once it is read. *)
RECURSIVE CasosCuando(_, _, _, _)
CasosCuando(p, c, cs, no) ==
  LET t == Mira(p, 0)
      v == Valores(Avanza(p), <<>>)
      b == Bloque(Avanza(v.p), {"caso", "defecto", "fin_cuando"})
      d == Bloque(Avanza(p), {"fin_cuando"})
      nodo == Eleg(c, cs, FlattenSeq(no))
  IN IF EsFinal(t) THEN Da(p, nodo)
     ELSE IF Es(t, "caso")
          THEN IF Es(Mira(v.p, 0), "entonces") THEN CasosCuando(b.p, c, Append(cs, Caso(v.vs, b.ss)), no)
               ELSE Falla(v.p)
     ELSE IF Es(t, "defecto")
          THEN IF no = <<>> THEN CasosCuando(d.p, c, cs, <<d.ss>>) ELSE Falla(Avanza(p))
     ELSE IF Es(t, "fin_cuando") THEN Da(Avanza(p), nodo)
     ELSE Falla(p)

(* `sino si` is a statement of its own, that reads the only closing word. *)
Alternativa(p, c, si) ==
  LET encadenado == Cadena(Mira(p, 0)) \in {"si", "cuando"}
      s == Sentencia(p)
      b == Bloque(p, {"fin_cuando", "fin_si"})
  IN IF LeerLoRompe(Mira(p, 0)) THEN Nulo(Rota(p))
     ELSE IF encadenado THEN Da(s.p, Si(c, si, s.a))
     ELSE IF b.p.err THEN Nulo(b.p)
     ELSE Cierra(b.p, {"fin_cuando", "fin_si"}, Si(c, si, b.ss))

si(p) ==
  LET c == Expresion(Avanza(p))
      b == Bloque(Avanza(c.p), {"caso", "defecto", "fin_cuando", "fin_si", "sino"})
      conCasos == Es(Mira(p, 0), "cuando") /\ (Es(Mira(b.p, 0), "caso") \/ Es(Mira(b.p, 0), "defecto"))
  IN IF ~Es(Mira(c.p, 0), "entonces") THEN Falla(c.p)
     ELSE IF b.p.err THEN Nulo(b.p)
     ELSE IF conCasos THEN CasosCuando(b.p, Hijo(c), <<>>, <<>>)
     ELSE IF Es(Mira(b.p, 0), "sino") THEN Alternativa(Avanza(b.p), Hijo(c), b.ss)
     ELSE Cierra(b.p, {"fin_cuando", "fin_si"}, Si(Hijo(c), b.ss, <<>>))

(***************************************************************************)
(* Short statements                                                        *)
(***************************************************************************)
imprimir(p) ==
  LET e == Expresion(p)
      vacia == EsFinal(Mira(p, 0)) \/ EsFin(Mira(p, 0)) \/ Es(Mira(p, 0), "sino")
  IN IF vacia THEN Falla(p) ELSE IF e.a = <<>> THEN Falla(e.p) ELSE Da(e.p, Imp(e.a[1]))

imprimir_sin_salto(p) ==
  LET e == Expresion(p)
  IN IF EsFinal(Mira(p, 0)) THEN Falla(p)
     ELSE IF e.a = <<>> THEN e ELSE Da(e.p, Ex(Ll("imprimir_sin_salto", e.a)))

limpiar_consola(p) ==
  IF Es(Mira(p, 0), "(") THEN Cierra(Avanza(p), {")"}, Ex(Ll("limpiar_consola", <<>>)))
  ELSE Da(p, Ex(Ll("limpiar_consola", <<>>)))

pausa(p) ==
  LET e == Expresion(Avanza(p))
  IN IF ~Es(Mira(p, 0), "(") THEN Da(p, Ex(Ll("pausa", <<>>)))
     ELSE IF Es(Mira(p, 1), ")") THEN Da(Avanza(Avanza(p)), Ex(Ll("pausa", <<>>)))
     ELSE IF e.a = <<>> THEN e ELSE Cierra(e.p, {")"}, Ex(Ll("pausa", e.a)))

lanzar(p) == LET e == Expresion(p) IN IF e.a = <<>> THEN e ELSE Da(e.p, Lanza(e.a[1]))

Entrada(p, ya) ==
  IF NombreValido(Mira(p, 0)) THEN Da(Avanza(p), Lee(NombreDe(Mira(p, 0)), ya)) ELSE SinNombre(p, Mira(p, 0))

(* Before most keywords there is no value: they begin the next statement. *)
retornar(p) ==
  LET t == Mira(p, 0)
      e == Expresion(p)
      sinValor == /\ t.k = "pal"
                  /\ ~EsLlamadaSistema(t.s)
                  /\ t.s \notin {"llamar", "no", "vec2", "vec3", "vec4", "mat3", "mat4"}
  IN IF t.k = "nil" \/ sinValor THEN Da(p, Ret(<<>>)) ELSE Da(e.p, Ret(e.a))

(***************************************************************************)
(* Statements on concepts and memories                                     *)
(***************************************************************************)
recordar(p) ==
  LET c == Expresion(p)
      con == Es(Mira(c.p, 0), "con")
      v == Expresion(Avanza(Avanza(c.p)))
  IN IF con /\ Es(Mira(c.p, 1), "valor") THEN Da(v.p, Conc("recordar", <<Hijo(c)>> \o v.a))
     ELSE Da(Opcional(c.p, "con"), Conc("recordar", <<Hijo(c)>>))

(* What follows an operand of these statements is read even when it is a
   keyword; a keyword before the operand, a function of the system excepted, is
   an error. *)
SinOperando(t) == EsFinal(t) \/ (t.k = "pal" /\ ~EsLlamadaSistema(t.s))

(* `peso e` or `con peso e` after the concepts; the weight may be missing. *)
ConPeso(p, que, as) ==
  LET con == Es(Mira(p, 0), "con")
      q == Opcional(p, "con")
      w == Expresion(Avanza(q))
  IN IF Es(Mira(q, 0), "peso") THEN Da(w.p, Conc(que, as \o w.a))
     ELSE IF con THEN Falla(q) ELSE Da(p, Conc(que, as))

asociar(p) ==
  LET c == Expresion(p)
      d == Expresion(Avanza(c.p))
  IN IF EsFinal(Mira(p, 0)) THEN Falla(p)
     ELSE IF c.a = <<>> THEN c
     ELSE IF ~Es(Mira(c.p, 0), "con") THEN Falla(c.p)
     ELSE IF SinOperando(Mira(c.p, 1)) THEN Falla(Avanza(c.p))
     ELSE IF d.a = <<>> THEN d
     ELSE ConPeso(d.p, "asociar", c.a \o d.a)

(* Arguments in parentheses; unlike those of a call, none may be missing. *)
RECURSIVE ArgumentosEstrictos(_, _, _)
ArgumentosEstrictos(p, n, es) ==
  LET r == Expresion(p)
      mas == es \o r.a
  IN IF Es(Mira(p, 0), ")") THEN Da(Avanza(p), Ex(Ll(n, es)))
     ELSE IF r.a = <<>> THEN r
     ELSE IF Es(Mira(r.p, 0), ")") THEN Da(Avanza(r.p), Ex(Ll(n, mas)))
     ELSE IF Es(Mira(r.p, 0), ",") THEN ArgumentosEstrictos(Avanza(r.p), n, mas)
     ELSE Falla(r.p)

aprender(p) ==
  LET c == Expresion(p)
  IN IF Es(Mira(p, 0), "(") THEN ArgumentosEstrictos(Avanza(p), "aprender", <<>>)
     ELSE IF SinOperando(Mira(p, 0)) THEN Falla(p)
     ELSE IF c.a = <<>> THEN c
     ELSE ConPeso(c.p, "aprender", c.a)

responder(p) == LET e == Expresion(p) IN Da(e.p, Resp(Hijo(e)))
activar_modulo(p) == LET e == Expresion(p) IN Da(e.p, Mem("activar", <<Hijo(e)>>))
biblioteca(p) == LET e == Expresion(p) IN Da(e.p, Mem("biblioteca", <<Hijo(e)>>))

(* The three arguments; a missing parenthesis is an error and the node stays. *)
crear_memoria(p) ==
  LET otro(x) == IF Es(Mira(x, 0), ",") THEN Expresion(Avanza(x)) ELSE Nulo(x)
      f == Expresion(Espera(p, "("))
      n == otro(f.p)
      c == otro(n.p)
  IN Da(Espera(c.p, ")"), Mem("crear", <<Hijo(f)>> \o (IF c.a # <<>> THEN <<Hijo(n)>> ELSE n.a) \o c.a))

cerrar_memoria(p) ==
  IF Es(Mira(p, 0), "(") THEN Cierra(Avanza(p), {")"}, Mem("cerrar", <<>>)) ELSE Da(p, Mem("cerrar", <<>>))

define_concepto(p) ==
  LET c == Expresion(p)
      d == Expresion(Avanza(c.p))
  IN IF EsFinal(Mira(p, 0)) THEN Falla(p)
     ELSE IF c.a = <<>> THEN c
     ELSE IF ~Es(Mira(c.p, 0), "como") THEN Da(c.p, Mem("definir", c.a))
     ELSE IF SinOperando(Mira(c.p, 1)) THEN Falla(Avanza(c.p))
     ELSE IF d.a = <<>> THEN d
     ELSE Da(d.p, Mem("definir", c.a \o d.a))

(* copiar_texto(e) en n, ultima_palabra(e) en n *)
sentencia_de_texto(p, que) ==
  LET e == Expresion(Avanza(p))
      n == Mira(e.p, 2)
      q == Avanza(Avanza(e.p))
  IN IF ~Es(Mira(p, 0), "(") THEN Falla(p)
     ELSE IF e.a = <<>> THEN e
     ELSE IF ~Es(Mira(e.p, 0), ")") THEN Falla(e.p)
     ELSE IF ~Es(Mira(e.p, 1), "en") THEN Falla(Avanza(e.p))
     ELSE IF ~NombreValido(n) THEN SinNombre(q, n)
     ELSE Da(Avanza(q), Tex(que, e.a[1], NombreDe(n)))

(* A function of the system as a statement: without parentheses, the expression
   that follows is its argument. *)
llamada_sistema(p, n) ==
  LET as == ListaExp(Avanza(p), ")", Len(p.t), <<>>)
      e == Expresion(p)
  IN IF Es(Mira(p, 0), "(") THEN Da(Espera(as.p, ")"), Ex(Ll(n, as.es))) ELSE Da(e.p, Ex(Ll(n, e.a)))

(***************************************************************************)
(* Declarations with a type that has a name, assignments and expressions   *)
(***************************************************************************)
(* macro n = lambda, funcion n = e: the value may not be missing. *)
DeFuncion(p) ==
  LET tipo == Mira(p, 0).s
      q == Avanza(p)
      n == Mira(q, 0)
      r == Avanza(q)
      v == IF tipo = "macro" THEN parse_lambda(Avanza(r)) ELSE Expresion(Avanza(r))
  IN IF ~NombreValido(n) THEN SinNombre(q, n)
     ELSE IF ~Es(Mira(r, 0), "=") THEN Da(r, Dec0(tipo, NombreDe(n)))
     ELSE IF v.a = <<>> THEN IF NombreDe(n) = "NULL" THEN v ELSE Falla(v.p)
     ELSE Da(v.p, Dec(tipo, NombreDe(n), v.a[1]))

(* Type n, with the name of a registro or of a clase. *)
DeUsuario(p) ==
  LET t == Mira(p, 0)
      n == Mira(p, 1)
      q == Avanza(Avanza(p))
      v == Expresion(Avanza(q))
  IN IF ~NombreValido(t) \/ ~NombreValido(n) THEN Falla(p)
     ELSE IF ~Es(Mira(q, 0), "=") THEN Da(q, Dec0(t.s, n.s))
     ELSE IF v.a = <<>> THEN v
     ELSE Da(v.p, Dec(t.s, n.s, v.a[1]))

COMPUESTOS == [op \in {"+=", "-=", "*=", "/="} |-> SubSeq(op, 1, 1)]

Asignacion(d, v) ==
  CASE d.k = "idx" -> AsI(d.b, d.i, v)
    [] d.k = "var" -> As(d.n, v)
    [] OTHER -> AsM(d, v)

(* An assignment's value may be missing, that of `+=` may not. *)
DeExpresion(p) ==
  LET d == Expresion(p)
      op == Mira(d.p, 0)
      v == Expresion(Avanza(d.p))
  IN IF d.a = <<>> THEN d
     ELSE IF Es(op, "=") THEN Da(v.p, Asignacion(d.a[1], Hijo(v)))
     ELSE IF ~(op.k = "op" /\ op.s \in DOMAIN COMPUESTOS) THEN Da(d.p, Ex(d.a[1]))
     ELSE IF d.a[1].k # "var" THEN Falla(d.p)
     ELSE IF v.a = <<>> THEN v
     ELSE Da(v.p, As(d.a[1].n, B(d.a[1], COMPUESTOS[op.s], v.a[1])))

(***************************************************************************)
(* Functions                                                               *)
(***************************************************************************)
DE_RETORNO ==
  PRIMITIVOS \cup {"lista", "mapa", "tarea"}

(* The type of a parameter; of the collections, the element type too. *)
TipoParametro(p) ==
  LET t == Mira(p, 0)
      el == TipoElemento(Avanza(p), {"pal", "id"})
  IN IF t.k = "pal" /\ t.s \in {"lista", "mapa"} THEN [el EXCEPT !.ok = ~el.p.err]
     ELSE IF EsTipo(t) \/ (t.k = "id" /\ NombreValido(t)) THEN [p |-> Avanza(p), el |-> "NULL", ok |-> TRUE]
     ELSE [p |-> SinNombre(Avanza(p), t).p, el |-> "NULL", ok |-> FALSE]

(* The parameters of a function, up to the closing parenthesis, that is not read. *)
RECURSIVE ListaParametrosDe(_, _)
ListaParametrosDe(p, ps) ==
  LET t == TipoParametro(p)
      tipo == Mira(p, 0).s \o (IF Es(Mira(t.p, 0), "?") THEN "?" ELSE "")
      q == Opcional(t.p, "?")
      n == Mira(q, 0)
      r == Avanza(q)
      mas == Append(ps, PL(NombreDe(n), tipo, t.el))
      falla(x) == [p |-> x, ok |-> FALSE, ps |-> ps]
  IN IF EsFinal(Mira(p, 0)) \/ Es(Mira(p, 0), ")") THEN [p |-> p, ok |-> TRUE, ps |-> ps]
     ELSE IF ~t.ok THEN falla(t.p)
     ELSE IF EsFinal(n) \/ Es(n, ",") \/ Es(n, ")") THEN falla(Error(q))
     ELSE IF ~NombreValido(n) THEN falla(SinNombre(q, n).p)
     ELSE IF Es(Mira(r, 0), ",") THEN ListaParametrosDe(Avanza(r), mas)
     ELSE [p |-> r, ok |-> TRUE, ps |-> mas]

(* Without the closing parenthesis the error is kept at once, and what could be
   the body is sought. *)
SinCierre(p) ==
  LET hitos == {i \in p.pos..Len(p.t) :
                  \/ p.t[i].k = "fin"
                  \/ p.t[i].k = "pal" /\ (p.t[i].s \in {"retorna", "fin_funcion"} \/ EsTipo(p.t[i]))}
  IN [parser_accumulate_error(p) EXCEPT !.pos =
        IF hitos = {} THEN Len(p.t) + 1 ELSE CHOOSE i \in hitos : \A j \in hitos : i <= j]

(* The type that is returned, with or without the word `retorna`; only that of
   a tarea fails. *)
Retorno(p0) ==
  LET p == IF Cadena(Mira(p0, 0)) = "retorna" THEN Avanza(p0) ELSE p0
      t == Cadena(Mira(p, 0))
      opcional == Es(Mira(p, 1), "?")
      q == Opcional(Avanza(p), "?")
      e == TipoElemento(q, IF t = "tarea" THEN {"pal"} ELSE {"pal", "id"})
      tipo == IF opcional THEN t \o "?" ELSE t
  IN IF t \notin DE_RETORNO THEN [p |-> p, tipo |-> "entero", ok |-> TRUE]
     ELSE IF t \in {"lista", "mapa"} \/ tipo = "tarea"
          THEN [p |-> e.p, tipo |-> tipo, ok |-> tipo = "tarea" => e.ok]
     ELSE [p |-> q, tipo |-> tipo, ok |-> TRUE]

CuerpoFuncion(p) ==
  LET n == Mira(p, 1)
      q == Avanza(Avanza(p))
      ps == IF Es(Mira(q, 0), "(") THEN ParametrosDe(Avanza(q)) ELSE [p |-> q, ok |-> TRUE, ps |-> <<>>]
      cerrada == Es(Mira(q, 0), "(") => Es(Mira(ps.p, 0), ")")
      r == Retorno(IF Es(Mira(q, 0), "(") THEN Avanza(ps.p) ELSE q)
      b == Bloque(r.p, {"fin_funcion"})
  IN IF LeerLoRompe(n) THEN SinNombre(Avanza(p), n)
     ELSE IF n.k \notin {"id", "pal"} THEN Nulo(parser_synchronize(parser_accumulate_error(Avanza(p))))
     ELSE IF ~NombreValido(n) THEN SinNombre(Avanza(p), n)
     ELSE IF ~ps.ok THEN Nulo(ps.p)
     ELSE IF ~cerrada THEN Nulo(SinCierre(ps.p))
     ELSE IF ~r.ok THEN Nulo(r.p)
     ELSE Cierra(b.p, {"fin_funcion"}, Func(n.s, ps.ps, r.tipo, b.ss))

(***************************************************************************)
(* registro, clase                                                         *)
(***************************************************************************)
(* The bases, of which a comma promises another. *)
RECURSIVE Bases(_, _)
Bases(p, bs) ==
  LET n == Mira(p, 0)
      mas == Append(bs, NombreDe(n))
  IN IF ~NombreValido(n) THEN [p |-> SinNombre(p, n).p, ok |-> FALSE, bs |-> bs]
     ELSE IF Es(Mira(p, 1), ",") THEN Bases(Avanza(Avanza(p)), mas)
     ELSE [p |-> Avanza(p), ok |-> TRUE, bs |-> mas]

(* The type of a field, with its element and its `?` in the name; any token is
   one, and the list of one without a string is a crash.  tarea has an element only in the classic order. *)
TipoCampo(p, clasico) ==
  LET t == Mira(p, 0)
      coleccion == t.k = "pal" /\ t.s \in {"lista", "mapa"} \cup (IF clasico THEN {"tarea"} ELSE {})
      lista == Es(Mira(p, 1), "[") /\ Es(Mira(p, 2), "]")
      q == Opcional(IF lista /\ ~coleccion THEN Avanza(Avanza(Avanza(p))) ELSE Avanza(p), "?")
      marca == IF Es(Mira(IF lista /\ ~coleccion THEN Avanza(Avanza(Avanza(p))) ELSE Avanza(p), 0), "?")
               THEN "?" ELSE ""
      e == TipoElemento(q, IF t.s = "tarea" THEN {"pal"} ELSE {"pal", "id"})
      sufijo == IF e.el = "NULL" THEN "" ELSE "<" \o e.el \o ">"
      nombre == IF marca = "?" THEN Cadena(t) ELSE NombreDe(t)
  IN IF coleccion THEN [p |-> e.p, tipo |-> t.s \o marca \o sufijo]
     ELSE [p |-> IF LeerLoRompe(t) \/ (lista /\ ~TieneCadena(t)) THEN Rota(q) ELSE q,
           tipo |-> (IF lista THEN "lista<" \o NombreDe(t) \o ">" ELSE nombre) \o marca]

(* One field: `name: type`, or `type name`. *)
parse_campo(p) ==
  LET alReves == Mira(p, 0).k \in {"id", "pal"} /\ Es(Mira(p, 1), ":")
      t == TipoCampo(IF alReves THEN Avanza(Avanza(p)) ELSE p, ~alReves)
      n == Mira(t.p, 0)
  IN IF alReves THEN IF Mira(p, 2).k = "nil" THEN Nulo(p) ELSE Da(t.p, Ca(Mira(p, 0).s, t.tipo))
     ELSE IF t.p.roto \/ n.k = "nil" THEN Nulo(t.p)
     ELSE IF ~NombreValido(n) THEN SinNombre(t.p, n)
     ELSE Da(Avanza(t.p), Ca(NombreDe(n), t.tipo))

CIERRE_DE == [esClase \in BOOLEAN |-> IF esClase THEN "fin_clase" ELSE "fin_registro"]

(* Fields, and the methods of a class.  A word that begins another definition
   ends the body with no error and no node. *)
RECURSIVE Miembros(_, _, _, _)
Miembros(p, esClase, cs, ms) ==
  LET t == Mira(p, 0)
      privado == t.k = "pal" /\ t.s = "privado"
      q == IF privado THEN Avanza(p) ELSE p
      w == IF Mira(q, 0).k = "pal" THEN Mira(q, 0).s ELSE ""
      m == parse_function(q)
      c == Campo(q)
      falla(x) == [p |-> x, ok |-> FALSE, cs |-> cs, ms |-> ms]
  IN IF ~TieneCadena(t) \/ t.s = CIERRE_DE[esClase] THEN [p |-> p, ok |-> TRUE, cs |-> cs, ms |-> ms]
     ELSE IF w = "funcion"
          THEN IF ~esClase THEN falla(Error(q))
               ELSE IF m.a = <<>> THEN falla(m.p)
               ELSE Miembros(m.p, esClase, cs, Append(ms, [m.a[1] EXCEPT !.priv = privado]))
     ELSE IF w = CIERRE_DE[~esClase] THEN falla(Error(q))
     ELSE IF w \in {"principal", "asincrono", "registro", "clase", "extiende", "activar_modulo", "usar",
                    "fin_principal"} THEN falla(q)
     ELSE IF c.a = <<>> THEN falla(c.p)
     ELSE Miembros(c.p, esClase, Append(cs, [c.a[1] EXCEPT !.priv = privado]), ms)

(* After the word registro or clase. *)
CuerpoEstructura(p, esClase) ==
  LET n == Mira(p, 0)
      extiende == Mira(p, 1).k = "pal" /\ Mira(p, 1).s = "extiende"
      bs == IF extiende THEN Bases(Avanza(Avanza(p)), <<>>) ELSE [p |-> Avanza(p), ok |-> TRUE, bs |-> <<>>]
      ms == Miembros(bs.p, esClase, <<>>, <<>>)
  IN IF ~NombreValido(n) THEN SinNombre(p, n)
     ELSE IF ~bs.ok THEN Nulo(bs.p)
     ELSE IF ~ms.ok THEN Nulo(ms.p)
     ELSE Cierra(ms.p, {CIERRE_DE[esClase]},
                 [Clas(NombreDe(n), bs.bs, ms.cs, ms.ms) EXCEPT !.esClase = esClase])

(* A definition between statements. *)
Definida(r) == [r EXCEPT !.a = [i \in DOMAIN r.a |-> [k |-> "define", d |-> r.a[i]]]]

(***************************************************************************)
(* One statement                                                           *)
(***************************************************************************)
MEMORIA_O_CONCEPTO == {"recordar", "asociar", "aprender", "responder", "activar_modulo", "usar",
                       "biblioteca", "crear_memoria", "cerrar_memoria", "define_concepto",
                       "copiar_texto", "ultima_palabra"}
DE_MEMORIA(p, w) ==
  CASE w = "recordar" -> recordar(p)
    [] w = "asociar" -> asociar(p)
    [] w = "aprender" -> aprender(p)
    [] w = "responder" -> responder(p)
    [] w \in {"activar_modulo", "usar"} -> activar_modulo(p)
    [] w = "biblioteca" -> biblioteca(p)
    [] w = "crear_memoria" -> crear_memoria(p)
    [] w = "cerrar_memoria" -> cerrar_memoria(p)
    [] w = "define_concepto" -> define_concepto(p)
    [] w = "copiar_texto" -> sentencia_de_texto(p, "STR_COPIAR")
    [] w = "ultima_palabra" -> sentencia_de_texto(p, "STR_ULTIMA")

DE_CONTROL == {"seleccionar", "intentar", "lanzar", "mientras", "para", "hacer", "romper",
               "continuar", "retornar"}
DeControl(p, w) ==
  CASE w = "seleccionar" -> seleccionar(p)
    [] w = "intentar" -> intentar(p)
    [] w = "lanzar" -> lanzar(p)
    [] w = "mientras" -> mientras(p)
    [] w = "para" -> para(p)
    [] w = "hacer" -> hacer(p)
    [] w = "romper" -> Da(p, Rompe)
    [] w = "continuar" -> Da(p, Sigue1)
    [] w = "retornar" -> retornar(p)

DE_CONSOLA == {"imprimir", "imprimir_texto", "imprimir_sin_salto", "limpiar_consola", "pausa",
               "ingresar_texto", "ingreso_inmediato"}
DeConsola(p, w) ==
  CASE w \in {"imprimir", "imprimir_texto"} -> imprimir(p)
    [] w = "imprimir_sin_salto" -> imprimir_sin_salto(p)
    [] w = "limpiar_consola" -> limpiar_consola(p)
    [] w = "pausa" -> pausa(p)
    [] w \in {"ingresar_texto", "ingreso_inmediato"} -> Entrada(p, w = "ingreso_inmediato")

(* A word, keyword or not, that begins neither of the statements above. *)
DePalabra(p) ==
  LET t == Mira(p, 0)
      seguida == Mira(p, 1).k \in {"id", "pal"}
  IN CASE seguida /\ t.s \in {"macro", "funcion"} /\ t.k = "pal" -> DeFuncion(p)
       [] seguida /\ t.k = "id" -> DeUsuario(p)
       [] OTHER -> DeExpresion(p)

parse_statement(p) ==
  LET t == Mira(p, 0)
      w == t.s
      q == Avanza(p)
      deFuncion == w = "funcion" /\ EsNombrable(Mira(p, 1)) /\ Es(Mira(p, 2), "(")
  IN IF t.k = "id" THEN DePalabra(p)
     ELSE IF t.k # "pal" \/ EsFin(t) \/ w = "sino" THEN Nulo(p)
     ELSE CASE deFuncion -> Falla(p)
            [] w \in DE_CONSOLA -> DeConsola(q, w)
            [] w = "constante" -> constante(q)
            [] w = "objeto" -> objeto(q)
            [] w \in PRIMITIVOS \cup {"lista", "mapa", "tarea"} -> Declaracion(p)
            [] w \in DE_CONTROL -> DeControl(q, w)
            [] w \in {"si", "cuando"} -> si(p)
            [] w \in {"registro", "clase"} -> Definida(parse_struct_body(q, w = "clase"))
            [] w \in MEMORIA_O_CONCEPTO -> DE_MEMORIA(q, w)
            [] EsLlamadaSistema(w) /\ w \notin DE_CONSOLA \cup MEMORIA_O_CONCEPTO -> llamada_sistema(q, w)
            [] OTHER -> DePalabra(p)

Analiza(que, p, x) ==
  CASE que = "expresion" -> parse_expression(p)
    [] que = "nivel" -> parse_nivel(p, x)
    [] que = "unario" -> parse_unary(p)
    [] que = "primario" -> parse_primary(p)
    [] que = "bloque" -> parse_block(p, x, <<>>)
    [] que = "sentencia" -> parse_statement(p)
    [] que = "parametros" -> ListaParametros(p, <<>>)
    [] que = "parametrosDe" -> ListaParametrosDe(p, <<>>)
    [] que = "cuerpoLambda" -> parse_cuerpo(p)
    [] que = "campo" -> parse_campo(p)
    [] que = "funcion" -> CuerpoFuncion(p)
    [] que = "estructura" -> CuerpoEstructura(p, x)
=============================================================================
