-------------------------------- MODULE Llamadas --------------------------------
(***************************************************************************)
(* Calls in expressions and as statements (codegen.c): functions, methods  *)
(* with their object, constructors, variables that hold a function, and    *)
(* macros.  The two kinds of call are two copies in the source, that       *)
(* differ in the order of the object and the arguments and in how they     *)
(* pass the arguments of an indirect call.                                 *)
(***************************************************************************)
EXTENDS Incorporadas

Deja(r) == Pon(I("MOVER", r, 1, 0))
Invoca == Pon(I("LLAMARR", R_INVOCADO, 0, 0))
EsPadre(e) == e.k = "var" /\ e.n = "padre"

EsVarFuncion(g, n) == Declarado(g, n) /\ Busca(g, n).mac = <<>> /\ BuscaTipo(g, n) = "funcion"
EsMacro(g, n) == Declarado(g, n) /\ Busca(g, n).mac # <<>>

(* The object of the method whose body is being compiled, in register 1. *)
CargaEste(g) == IF Declarado(g, "este") THEN PonTodo(LeerVar(1, Busca(g, "este"))) ELSE <<>>
MetodoImplicito(g, n) == EtiquetaMetodo(g, g.ctx.clase, n)

(***************************************************************************)
(* Dynamic dispatch: the class of the object, the text at its start, is    *)
(* compared with each class that can answer.                               *)
(***************************************************************************)
Polimorfo(g, t, m) ==
  /\ EsClaseORegistro(g, t) /\ Clase(g, t).esClase
  /\ \E c \in ToSet(g.cls) : c.esClase /\ c.n # t /\ EsSubclase(g, c.n, t) /\ m \in Nombres(c.mets)

Responden(g, t, m) ==
  SelectSeq(g.cls, LAMBDA c : c.esClase /\ EsSubclase(g, c.n, t) /\ EtiquetaMetodo(g, c.n, m) > 0)

EtiquetasDespacho(g, t, m) == EtiquetasNuevas(g, 1 + Len(Responden(g, t, m)))

Despacho(g, t, m, final) ==
  LET cs == Responden(g, t, m)
      fin == Etiqueta(g, 1)
  IN <<Pon(I("LEERR", 250, 1, 0))>>
     \o Por(cs, LAMBDA k :
          <<Pon(ITexto("LOAD_STR", 251, cs[k].n)), Pon(I("CMP_EQ", 251, 250, 251)),
            Pon(I("CMP_EQI", 251, 251, 0)), SiNoCero(251, Etiqueta(g, 1 + k)),
            Llama(EtiquetaMetodo(g, cs[k].n, m))>> \o final
          \o <<Ir(fin), Marca(Etiqueta(g, 1 + k))>>)
     \o <<Marca(fin)>>

(***************************************************************************)
(* In expressions                                                          *)
(***************************************************************************)
Indirecta(g, callee, as, r) ==
  ConLiteralDeFuncion(g, <<Expr(callee, R_INVOCADO)>> \o Argumentos(g, as, 1)) \o <<Invoca, Deja(r)>>

(* The object is evaluated last, so that register 1 is still it. *)
VisitaMetodo(g, e, r) ==
  LET t == Tipo(g, e.b)
      l == EtiquetaMetodo(g, t, e.m)
      prepara == Argumentos(g, e.as, 2) \o <<Expr(e.b, 1)>>
      indirecta == Indirecta(g, [k |-> "miem", b |-> e.b, c |-> e.m], e.as, r)
  IN IF t \in Incorporados THEN Luego(g, indirecta)
     ELSE IF ~EsPadre(e.b) /\ Polimorfo(g, t, e.m)
     THEN Luego(EtiquetasDespacho(g, t, e.m), prepara \o Despacho(g, t, e.m, <<Deja(r)>>))
     ELSE IF l > 0 THEN Luego(g, prepara \o <<Llama(l), Deja(r)>>)
     ELSE Luego(g, prepara \o indirecta)

VisitaInvocada(g, e, r) == Luego(g, Indirecta(g, e.f, e.as, r))

LlamaVariable(g, e, r) ==
  PonTodo(LeerVar(R_INVOCADO, Busca(g, e.n)))
  \o ConLiteralDeFuncion(g, Argumentos(g, e.as, 1)) \o <<Invoca, Deja(r)>>

(* A macro is its body with the parameters as variables of a scope. *)
ExpandeMacro(g, e, en, suelta, r) ==
  LET m == Busca(g, e.n).mac[1]
      fin == Etiqueta(g, 1)
  IN IF Len(m.ps) # Len(e.as) THEN Rechaza(g)
     ELSE Luego(EtiquetasNuevas(g, 1),
       <<Entra(FALSE)>>
       \o ConLiteralDeFuncion(g, Por(e.as, LAMBDA k :
            <<Expr(e.as[k], en), DeclaraDeTipo([m.ps[k] EXCEPT !.t = IF suelta THEN "entero" ELSE @], e.as[k], en)>>))
       \o <<Contexto([g.ctx EXCEPT !.mEt = fin, !.mDest = r]), Expr(m.b, r), Marca(fin),
            Contexto(g.ctx), Sale>>)

LlamaFuncion(g, e, r) ==
  ConLiteralDeFuncion(g, Argumentos(g, e.as, 1)) \o <<Llama(Funcion(g, e.n).l), Deja(r)>>

(* Here the object is loaded before the arguments. *)
LlamaImplicita(g, e, r) ==
  ConLiteralDeFuncion(g, CargaEste(g) \o Argumentos(g, e.as, 2))
  \o <<Llama(MetodoImplicito(g, e.n)), Deja(r)>>

PonClase(g, n, rObjeto, rTexto) ==
  IF ~Clase(g, n).esClase THEN <<>>
  ELSE PonTodo(CargarTexto(rTexto, n) \o <<I("ESCRIBIRR", rObjeto, rTexto, 0)>>)

(* inicializar is called when there are arguments or it needs none. *)
Inicializador(g, n) == Metodo(g, n, "inicializar")
AridadMala(g, n, as) ==
  /\ EtiquetaMetodo(g, n, "inicializar") > 0 /\ Inicializador(g, n) # <<>>
  /\ as # <<>> /\ Len(as) # Len(Inicializador(g, n)[1].ps)
Inicializa(g, n, as) ==
  /\ EtiquetaMetodo(g, n, "inicializar") > 0
  /\ as # <<>> \/ Inicializador(g, n) = <<>> \/ Inicializador(g, n)[1].ps = <<>>

Construye(g, e, r) ==
  LET ro == IF r = 1 THEN 252 ELSE r
  IN IF AridadMala(g, e.n, e.as) THEN Rechaza(g)
     ELSE Luego(g,
       <<Pon(I("HEAP_RESERVAR", ro, Tamano(g, e.n), 0))>> \o PonClase(g, e.n, ro, 250)
       \o (IF ~Inicializa(g, e.n, e.as) THEN <<>>
           ELSE PonTodo(<<I("MOVER", 251, ro, 0), I("MOVER", 1, ro, 0)>>) \o Argumentos(g, e.as, 2)
                \o <<Llama(EtiquetaMetodo(g, e.n, "inicializar")), Pon(I("MOVER", ro, 251, 0))>>)
       \o <<Pon(I("MOVER", r, ro, 0))>>)

VisitaLlamada(g, e, r) ==
  IF EsSistema(e.n) THEN VisitaSistema(g, e, r)
  ELSE IF EsVarFuncion(g, e.n) THEN Luego(g, LlamaVariable(g, e, r))
  ELSE IF EsMacro(g, e.n) THEN ExpandeMacro(g, e, r + 1, FALSE, r)
  ELSE IF EsFuncion(g, e.n) THEN Luego(g, LlamaFuncion(g, e, r))
  ELSE IF MetodoImplicito(g, e.n) > 0 THEN Luego(g, LlamaImplicita(g, e, r))
  ELSE IF EsClaseORegistro(g, e.n) THEN Construye(g, e, r)
  ELSE Rechaza(g)

(***************************************************************************)
(* As statements: the value is dropped.  Indirect calls evaluate their     *)
(* arguments in the registers of the call, one after another.              *)
(***************************************************************************)
ArgumentosDirectos(as) == [k \in DOMAIN as |-> Expr(as[k], k)]

IndirectaSuelta(g, callee, as) ==
  ConLiteralDeFuncion(g, <<Expr(callee, R_INVOCADO)>> \o ArgumentosDirectos(as)) \o <<Invoca>>

LlamaVariableSuelta(g, e) ==
  LET v == Busca(g, e.n)
  IN <<Pon(I("LEER", R_INVOCADO, v.dir % 65536, IF v.rel THEN 1 ELSE 0))>>
     \o ConLiteralDeFuncion(g, ArgumentosDirectos(e.as)) \o <<Invoca>>

(* The object, in register 1, before the arguments. *)
ObjetoDelante(g, b) ==
  LET d == DireccionMiembro(g, b, 1) IN
  CASE b.k = "var" /\ Declarado(g, b.n) -> PonTodo(LeerVar(1, Busca(g, b.n)))
    [] b.k = "miem" -> PonTodo(d.is \o IF d.enReg THEN <<>> ELSE LeerU24(1, d.dir, d.rel))
    [] OTHER -> <<Expr(b, 1)>>

MetodoPrivado(g, t, m) ==
  Metodo(g, t, m) # <<>> /\ ~AccesoPermitido(g, t, Metodo(g, t, m)[1].priv)

MetodoSuelto(g, e) ==
  LET t == Tipo(g, e.b)
      l == EtiquetaMetodo(g, t, e.m)
      prepara == ObjetoDelante(g, e.b) \o Argumentos(g, e.as, 2)
  IN IF e.b.k = "miem" /\ ~DireccionMiembro(g, e.b, 1).ok THEN Rechaza(g)
     ELSE IF ~EsPadre(e.b) /\ Polimorfo(g, t, e.m)
     THEN Luego(EtiquetasDespacho(g, t, e.m), prepara \o Despacho(g, t, e.m, <<>>))
     ELSE IF l > 0 /\ MetodoPrivado(g, t, e.m) THEN Rechaza(g)
     ELSE IF l > 0 THEN Luego(g, prepara \o <<Llama(l)>>)
     ELSE Luego(g, prepara \o IndirectaSuelta(g, [k |-> "miem", b |-> e.b, c |-> e.m], e.as))

LlamadaSuelta(g, e) ==
  IF EsSistema(e.n) THEN Luego(g, <<Expr(e, 1)>>)
  ELSE IF EsVarFuncion(g, e.n) THEN Luego(g, LlamaVariableSuelta(g, e))
  ELSE IF EsMacro(g, e.n) THEN ExpandeMacro(g, e, 1, TRUE, 1)
  ELSE IF EsFuncion(g, e.n)
  THEN Luego(g, ConLiteralDeFuncion(g, Argumentos(g, e.as, 1)) \o <<Llama(Funcion(g, e.n).l)>>)
  ELSE IF MetodoImplicito(g, e.n) > 0
  THEN Luego(g, ConLiteralDeFuncion(g, CargaEste(g) \o Argumentos(g, e.as, 2))
                \o <<Llama(MetodoImplicito(g, e.n))>>)
  ELSE Rechaza(g)

SentenciaLlamada(g, e) ==
  CASE e.k = "llam" -> LlamadaSuelta(g, e)
    [] e.k = "met" -> MetodoSuelto(g, e)
    [] e.k = "icall" -> Luego(g, IndirectaSuelta(g, e.f, e.as))
================================================================================
