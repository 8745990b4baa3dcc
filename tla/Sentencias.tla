------------------------------- MODULE Sentencias -------------------------------
(***************************************************************************)
(* The statements of the code generator (codegen.c, visit_statement), the  *)
(* blocks they form, and the whole program: classes, globals, functions,   *)
(* methods and the main block (codegen_generate).                          *)
(***************************************************************************)
EXTENDS Llamadas, Colapsos

(***************************************************************************)
(* imprimir                                                                *)
(***************************************************************************)
Imprime(g, e) ==
  CASE e.k = "txt" -> PonTodo(ImprimirTexto(e.s))
    [] e.k = "interp" -> ImprimeInterpolado(g, e)
    [] e.k \notin {"txt", "interp"} /\ EsEstructura(g, Tipo(g, e)) /\ ~SumaConTexto(g, e) ->
         ImprimeRegistro(g, e)
    [] OTHER -> <<Expr(e, R_IMPRIMIR)>>
                \o ImprimirValor(IF SumaConTexto(g, e) THEN "texto" ELSE Tipo(g, e), R_IMPRIMIR)

SentenciaImprimir(g, s) ==
  IF NoImprimible(g, s.e) THEN Rechaza(g)
  ELSE Luego(g, Imprime(g, s.e) \o PonTodo(ImprimirTexto("\n")))

(***************************************************************************)
(* Storing a value                                                         *)
(***************************************************************************)
(* An entero and a flotante become each other, and both a text. *)
Convierte1(destino, t, r) ==
  CASE destino = "entero" /\ t = "flotante" -> <<Pon(I("CONV_F2I", r, r, 0))>>
    [] destino = "flotante" /\ t = "entero" -> <<Pon(I("CONV_I2F", r, r, 0))>>
    [] destino = "texto" /\ t \in {"entero", "flotante"} ->
         <<Pon(I("STR_DESDE_NUMERO", r, r, IF t = "entero" THEN 1 ELSE 0))>>
    [] OTHER -> <<>>

Escalares == {"entero", "flotante"}
NoNumerico(destino, t) ==
  destino \in Escalares /\ t \notin Escalares \cup {"elemento"} /\ ~(destino = "entero" /\ t = "objeto")

ConLiteralSi(g, cond, ordenes) == IF cond THEN ConLiteralDeFuncion(g, ordenes) ELSE ordenes

(* The value in a register, as the type of where it goes, and there. *)
GuardaValor(g, e, t, x) ==
  ConLiteralSi(g, t = "funcion", <<Expr(x, 1)>>) \o Convierte1(t, Tipo(g, x), 1)
  \o PonTodo(EscribirVar(e, 1))

(***************************************************************************)
(* Vectors are stored component by component.                              *)
(***************************************************************************)
Componentes(t) == CASE t = "vec2" -> 2 [] t = "vec3" -> 3 [] t = "vec4" -> 4 [] OTHER -> 0

EsConstructorVec(x, t) == x.k = "llam" /\ x.n = t /\ Componentes(t) > 0 /\ Len(x.as) = Componentes(t)

(* Where a vector lies; a short address has 16 bits. *)
Lugar(dir, rel, corta) == [dir |-> dir, rel |-> rel, corta |-> corta]
Bandera(rel) == IF rel THEN 1 ELSE 0

LeeParte(r, d, off) ==
  IF d.corta THEN <<I("LEER", r, (d.dir + off) % 65536, Bandera(d.rel))>> ELSE LeerU24(r, d.dir + off, d.rel)
EscribeParte(d, off) ==
  IF d.corta THEN <<I("ESCRIBIR", (d.dir + off) % 65536, 1, Bandera(d.rel))>> ELSE EscribirU24(d.dir + off, 1, d.rel)

ConstruyeVec(g, x, d) ==
  Por(x.as, LAMBDA k : <<Expr(x.as[k], 1)>> \o AFlotante(g, x.as[k], 1) \o PonTodo(EscribeParte(d, 8 * (k - 1))))

EsOperacionVec(g, x, t) ==
  /\ x.k = "bin" /\ x.op \in {"+", "-", "*"} /\ Componentes(t) > 0
  /\ <<Tipo(g, x.i), Tipo(g, x.d)>> \in {<<t, t>>} \cup (Escalares \X {t}) \cup ({t} \X Escalares)

(* A vector that is stored somewhere: a variable, or a field not reached
   through a register. *)
BaseVec(g, x) ==
  CASE x.k = "var" /\ Declarado(g, x.n) /\ Componentes(BuscaTipo(g, x.n)) > 0 ->
         [ok |-> TRUE, dir |-> Busca(g, x.n).dir, rel |-> Busca(g, x.n).rel]
    [] x.k = "miem" /\ Componentes(TipoCadena(g, x)) > 0 ->
         LET d == DireccionMiembro(g, x, 2) IN [ok |-> d.ok /\ ~d.enReg, dir |-> d.dir, rel |-> d.rel]
    [] OTHER -> [ok |-> FALSE, dir |-> 0, rel |-> FALSE]

(* Between a vector and a number the operation is always the product. *)
LadoVec(g, x, b, off, r) ==
  IF Tipo(g, x) \in Escalares THEN <<Expr(x, r)>> \o AFlotante(g, x, r) ELSE PonTodo(LeeParte(r, b, off))

Lados(g, x, izq, der, off) ==
  LET i == LadoVec(g, x.i, izq, off, 1)
      d == LadoVec(g, x.d, der, off, 2)
  IN IF Tipo(g, x.d) \in Escalares THEN d \o i ELSE i \o d

OperacionVec(g, x, t) ==
  IF Tipo(g, x.i) = t /\ Tipo(g, x.d) = t THEN Operaciones[x.op] \o "_FLT" ELSE "MULTIPLICAR_FLT"

OperaVec(g, x, t, izq, der, d) ==
  Por([k \in 1..Componentes(t) |-> k], LAMBDA k :
    Lados(g, x, izq, der, 8 * (k - 1)) \o <<Pon(I(OperacionVec(g, x, t), 1, 1, 2))>>
    \o PonTodo(EscribeParte(d, 8 * (k - 1))))

LugarDe(g, x, corta) == Lugar(BaseVec(g, x).dir, BaseVec(g, x).rel, corta)
OperaVariables(g, x, t, corta, d) == OperaVec(g, x, t, LugarDe(g, x.i, corta), LugarDe(g, x.d, corta), d)
ConDireccion(g, x) == Tipo(g, x) \in Escalares \/ BaseVec(g, x).ok

(***************************************************************************)
(* Declarations and assignments                                            *)
(***************************************************************************)
(* The variable exists before its value is computed. *)
TamanoVariable(g, t) == IF Tamano(g, t) > 0 THEN Tamano(g, t) ELSE PALABRA

(* Object in register 10, its variable written before the constructor runs. *)
DeclaraObjeto(g, e, x) ==
  IF AridadMala(g, x.n, x.as) THEN Rechaza(g)
  ELSE Luego(g,
    <<Pon(I("HEAP_RESERVAR", 10, Tamano(g, x.n), 0))>> \o PonClase(g, x.n, 10, R_IMPRIMIR)
    \o PonTodo(EscribirVar(e, 10))
    \o IF ~Inicializa(g, x.n, x.as) THEN <<>>
       ELSE <<Pon(I("MOVER", 1, 10, 0))>> \o Argumentos(g, x.as, 2)
            \o <<Llama(EtiquetaMetodo(g, x.n, "inicializar"))>>)

DeclaraConValor(g, s, e, x) ==
  IF EsConstructorVec(x, s.t) THEN Luego(g, ConstruyeVec(g, x, Lugar(e.dir, e.rel, FALSE)))
  ELSE IF x.k = "llam" /\ EsClaseORegistro(g, x.n) THEN DeclaraObjeto(g, e, x)
  ELSE IF EsOperacionVec(g, x, s.t) /\ x.i.k = "var" /\ x.d.k = "var"
  THEN Luego(g, OperaVariables(g, x, s.t, FALSE, Lugar(e.dir, e.rel, FALSE)))
  ELSE IF NoNumerico(s.t, Tipo(g, x)) THEN Rechaza(g)
  ELSE Luego(g, GuardaValor(g, e, s.t, x))

SentenciaDeclarar(g, s) ==
  IF ~Declarable(g, s.n, FALSE) THEN Rechaza(g)
  ELSE IF s.t = "macro" THEN Luego(DeclaraMacro(g, s.n, s.v[1]), <<>>)
  ELSE LET g1 == Declara(g, s.n, s.t, TamanoVariable(g, s.t), s.cte, s.el, <<>>)
       IN IF s.v = <<>> THEN Luego(g1, <<>>) ELSE DeclaraConValor(g1, s, Busca(g1, s.n), s.v[1])

SentenciaAsignarIndice(g, s) ==
  Luego(g, <<Expr(s.b, 10), Expr(s.i, 11), Expr(s.v, 12),
             Pon(I(IF Tipo(g, s.b) = "mapa" THEN "MAPA_PONER" ELSE "LISTA_PONER", 10, 11, 12))>>)

(* A vector field takes another vector, its components, or an operation. *)
AsignaVecEn(g, x, t, d) ==
  IF x.k = "var" /\ BuscaTipo(g, x.n) = t
  THEN Luego(g, Por([k \in 1..Componentes(t) |-> k], LAMBDA k :
                  PonTodo(LeeParte(1, LugarDe(g, x, TRUE), 8 * (k - 1)) \o EscribeParte(d, 8 * (k - 1)))))
  ELSE IF EsConstructorVec(x, t) THEN Luego(g, ConstruyeVec(g, x, d))
  ELSE IF EsOperacionVec(g, x, t) /\ ConDireccion(g, x.i) /\ ConDireccion(g, x.d)
  THEN Luego(g, OperaVariables(g, x, t, TRUE, d))
  ELSE Rechaza(g)

AsignaMiembroVec(g, x, t, d) ==
  IF ~d.ok \/ d.enReg THEN Rechaza(g) ELSE AsignaVecEn(g, x, t, Lugar(d.dir, d.rel, TRUE))

AsignaMiembro(g, s, t) ==
  LET d == DireccionMiembro(g, s.d, 254) IN
  IF NoNumerico(t, Tipo(g, s.v)) \/ ~d.ok THEN Rechaza(g)
  ELSE Luego(g, <<Expr(s.v, 10)>> \o Convierte1(t, Tipo(g, s.v), 10)
                \o PonTodo(d.is \o IF d.enReg THEN <<I("ESCRIBIRR", 254, 10, Bandera(d.rel))>>
                                   ELSE EscribirU24(d.dir, 10, d.rel)))

SentenciaAsignarMiembro(g, s) ==
  LET t == TipoCadena(g, s.d) IN
  IF Tipo(g, s.d.b) = "mapa"
  THEN Luego(g, <<Expr(s.v, 10), Expr(s.d.b, 11)>> \o PonTodo(CargarTexto(12, s.d.c))
                \o <<Pon(I("MAPA_PONER", 11, 12, 10))>>)
  ELSE IF t = NADA THEN Rechaza(g)
  ELSE IF Componentes(t) > 0 THEN AsignaMiembroVec(g, s.v, t, DireccionMiembro(g, s.d, 2))
  ELSE AsignaMiembro(g, s, t)

AsignaCampoImplicito(g, s) ==
  Luego(g, <<Expr(s.v, 10)>> \o PonTodo(LeerVar(254, Busca(g, "este"))
           \o SumarU24(254, 254, CampoImplicito(g, s.n)[1].des) \o <<I("ESCRIBIRR", 254, 10, 0)>>))

(* x = x op f(...): the call first, then x is read again. *)
EsAcumulador(s, t) ==
  /\ t \in Escalares /\ s.v.k = "bin" /\ s.v.op \in {"+", "-", "*", "/", "%"}
  /\ s.v.i.k = "var" /\ s.v.i.n = s.n /\ TieneLlamada(s.v.d)

Acumula(g, s, e) ==
  <<Expr(s.v.d, 2)>> \o PonTodo(LeerVar(1, e)) \o <<Pon(I(Operaciones[s.v.op], 1, 1, 2))>>
  \o Convierte1(e.tipo, Tipo(g, s.v), 1) \o PonTodo(EscribirVar(e, 1))

AsignaVariable(g, s, x, e) ==
  IF EsConstructorVec(x, e.tipo) THEN Luego(g, ConstruyeVec(g, x, Lugar(e.dir, e.rel, FALSE)))
  ELSE IF EsOperacionVec(g, x, e.tipo)
  THEN Luego(g, IF ConDireccion(g, x.i) /\ ConDireccion(g, x.d)
                THEN OperaVariables(g, x, e.tipo, TRUE, Lugar(e.dir, e.rel, FALSE)) ELSE <<>>)
  ELSE IF NoNumerico(e.tipo, Tipo(g, x)) THEN Rechaza(g)
  ELSE IF EsAcumulador(s, e.tipo) THEN Luego(g, Acumula(g, s, e))
  ELSE Luego(g, GuardaValor(g, e, e.tipo, x))

SentenciaAsignar(g, s) ==
  IF ~Declarado(g, s.n)
  THEN IF CampoImplicito(g, s.n) # <<>> THEN AsignaCampoImplicito(g, s) ELSE Rechaza(g)
  ELSE IF Busca(g, s.n).cte THEN Rechaza(g)
  ELSE AsignaVariable(g, s, s.v, Busca(g, s.n))

(***************************************************************************)
(* Control                                                                 *)
(***************************************************************************)
EnBucle(g, ini, fin) == [g.ctx EXCEPT !.bucles = Append(@, [ini |-> ini, fin |-> fin])]
EnAlcanceNuevo(b) == <<Entra(FALSE), Bloque(b), Sale>>

(* Jump to l when the condition is false; it is computed in high registers,
   away from register 1, the object of a method. *)
SiFalso(c, l) == <<Expr(c, 253), Pon(I("CMP_EQI", 254, 253, 0)), SiNoCero(254, l)>>

SentenciaSi(g, s) ==
  LET sino == Etiqueta(g, 1)
      fin == Etiqueta(g, 2)
  IN Luego(EtiquetasNuevas(g, 2),
       SiFalso(s.c, sino) \o <<Entra(FALSE), Bloque(s.si), Ir(fin), Marca(sino), Bloque(s.no), Sale, Marca(fin)>>)

(* A loop that only counts, around an assignment that does not depend on it,
   runs its body once. *)
MientrasInvariante(g, s) ==
  LET fin == Etiqueta(g, 1)
      cuenta == s.b[2].n
  IN IF ~Guardable(g, cuenta) THEN Rechaza(g)
     ELSE Luego(EtiquetasNuevas(g, 1),
       <<Expr(s.c, 1), Pon(I("CMP_EQI", 2, 1, 0)), SiNoCero(2, fin), Sent(s.b[1]), Expr(s.c.d, 1)>>
       \o Guarda1(g, cuenta, 1) \o <<Marca(fin)>>)

SentenciaMientras(g, s) ==
  LET ini == Etiqueta(g, 1)
      fin == Etiqueta(g, 2)
  IN IF Invariante(s) THEN MientrasInvariante(g, s)
     ELSE Luego(EtiquetasNuevas(g, 2),
       <<Contexto(EnBucle(g, ini, fin)), Marca(ini)>> \o SiFalso(s.c, fin) \o EnAlcanceNuevo(s.b)
       \o <<Ir(ini), Marca(fin), Contexto(g.ctx)>>)

SentenciaParaSinPaso(g, s) ==
  LET ini == Etiqueta(g, 1)
      fin == Etiqueta(g, 2)
  IN Luego(EtiquetasNuevas(g, 2),
       <<Entra(FALSE), Sent(s.ini), Contexto(EnBucle(g, ini, fin)), Marca(ini)>> \o SiFalso(s.c, fin)
       \o <<Bloque(s.b), Expr(s.paso, 253), Ir(ini), Marca(fin), Contexto(g.ctx), Sale>>)

(* continuar goes to the step. *)
SentenciaPara(g, s) ==
  LET ini == Etiqueta(g, 1)
      fin == Etiqueta(g, 2)
      paso == Etiqueta(g, 3)
  IN Luego(EtiquetasNuevas(g, 3),
       <<Entra(FALSE), Sent(s.ini), Contexto(EnBucle(g, paso, fin)), Marca(ini)>> \o SiFalso(s.c, fin)
       \o <<Bloque(s.b), Marca(paso), Expr(s.paso, 253), Ir(ini), Marca(fin), Contexto(g.ctx), Sale>>)

SentenciaHacer(g, s) ==
  LET ini == Etiqueta(g, 1)
      fin == Etiqueta(g, 2)
      sigue == Etiqueta(g, 3)
  IN Luego(EtiquetasNuevas(g, 3),
       <<Contexto(EnBucle(g, sigue, fin)), Marca(ini)>> \o EnAlcanceNuevo(s.b)
       \o <<Marca(sigue), Expr(s.c, 253), Pon(I("CMP_EQI", 254, 253, 0)), Pon(I("CMP_EQI", 254, 254, 0)),
            SiNoCero(254, ini), Marca(fin), Contexto(g.ctx)>>)

(* The collection and the position are temporaries of the frame, and so are
   the keys of a map; here continuar goes to the test. *)
SentenciaParaCada(g, s) ==
  LET ini == Etiqueta(g, 1)
      fin == Etiqueta(g, 2)
      mapa == Tipo(g, s.e) = "mapa"
      g1 == EtiquetasNuevas(g, 2)
      prepara == <<Expr(s.e, 253), ATemporal(2, 253)>>
                 \o (IF mapa THEN <<Pon(I("MAPA_LLAVES", 20, 253, 0)), ATemporal(3, 20)>> ELSE <<>>)
                 \o <<Pon(I("MOVERI", 15, 0, 0)), ATemporal(1, 15)>>
      prueba == <<DeTemporal(IF mapa THEN 3 ELSE 2, 15), Pon(I("LISTA_TAMANO", 16, 15, 0)), DeTemporal(1, 17),
                  Pon(I("CMP_LT", 18, 17, 16)), Pon(I("CMP_EQI", 18, 18, 0)), SiNoCero(18, fin)>>
      toma == IF mapa THEN <<Pon(I("LISTA_OBTENER", 21, 15, 17)), DeTemporal(2, 22), Pon(I("MAPA_OBTENER", 19, 22, 21))>>
              ELSE <<Pon(I("LISTA_OBTENER", 19, 15, 17))>>
      temporales == IF mapa THEN <<Reserva, Reserva, Reserva>> ELSE <<Reserva, Reserva>>
  IN Luego(g1,
       <<Entra(FALSE), Declarar(s.n, s.t), Contexto(EnBucle(g, ini, fin))>> \o temporales \o prepara
       \o <<Marca(ini)>> \o prueba \o toma \o <<EscribeEn(s.n, 19), Bloque(s.b), DeTemporal(1, 17),
            Pon(I("SUMARI", 17, 17, 1)), ATemporal(1, 17), Ir(ini), Marca(fin), Suelta(Len(temporales)),
            Contexto(g.ctx), Sale>>)

(* elegir: each case is a set of values. *)
Coincide(c) ==
  <<Pon(I("MOVERI", 13, 0, 0))>>
  \o Por(c.vs, LAMBDA k : <<Expr(c.vs[k], 11), Pon(I("CMP_EQ", 12, 10, 11)), Pon(I("O", 13, 13, 12))>>)

SentenciaElegir(g, s) ==
  LET fin == Etiqueta(g, 1)
      sigue(k) == Etiqueta(g, 1 + k)
  IN Luego(EtiquetasNuevas(g, 1 + Len(s.cs)),
       <<Expr(s.e, 10)>>
       \o Por(s.cs, LAMBDA k : Coincide(s.cs[k]) \o <<Pon(I("CMP_EQI", 12, 13, 0)), SiNoCero(12, sigue(k))>>
                \o EnAlcanceNuevo(s.cs[k].b) \o <<Ir(fin), Marca(sigue(k))>>)
       \o EnAlcanceNuevo(s.no) \o <<Marca(fin)>>)

(* With no atrapar the handler is the block that always runs. *)
SentenciaIntentar(g, s) ==
  LET atrapa == Etiqueta(g, 1)
      final == Etiqueta(g, 2)
      fin == Etiqueta(g, 3)
      salida == IF s.fin # <<>> THEN final ELSE fin
      conManejador == s.at # <<>> \/ s.fin # <<>>
  IN Luego(EtiquetasNuevas(g, 3),
       (IF conManejador THEN <<EntraIntento(IF s.at # <<>> THEN atrapa ELSE final)>> ELSE <<>>)
       \o EnAlcanceNuevo(s.b)
       \o (IF conManejador THEN <<Pon(I("TRY_LEAVE", 0, 0, 0))>> ELSE <<>>) \o <<Ir(salida)>>
       \o (IF s.at = <<>> THEN <<>>
           ELSE <<Marca(atrapa), Entra(FALSE)>>
                \o (IF s.vn = "NULL" THEN <<>> ELSE <<DeclaraParam([n |-> s.vn, t |-> "texto", el |-> NADA], 1)>>)
                \o <<Bloque(s.at[1]), Sale, Ir(salida)>>)
       \o (IF s.fin = <<>> THEN <<>> ELSE <<Marca(final)>> \o EnAlcanceNuevo(s.fin[1]))
       \o <<Marca(fin)>>)

SentenciaLanzar(g, s) ==
  Luego(g, <<Expr(s.e, 1)>>
           \o (IF Tipo(g, s.e) = "texto" THEN <<>> ELSE <<Pon(I("STR_DESDE_ANY", 1, 1, 0))>>)
           \o <<Pon(I("LANZAR", 1, 0, 0))>>)

SentenciaRomper(g) == IF g.ctx.bucles = <<>> THEN Rechaza(g) ELSE Luego(g, <<Ir(Last(g.ctx.bucles).fin)>>)
SentenciaSeguir(g) == IF g.ctx.bucles = <<>> THEN Rechaza(g) ELSE Luego(g, <<Ir(Last(g.ctx.bucles).ini)>>)

(* In a macro retornar leaves the macro, not the function. *)
SentenciaRetornar(g, s) ==
  IF g.ctx.mEt # 0
  THEN Luego(g, [k \in DOMAIN s.v |-> Expr(s.v[k], g.ctx.mDest)] \o <<Ir(g.ctx.mEt)>>)
  ELSE IF g.ctx.prof <= 0 THEN Rechaza(g)
  ELSE IF s.v = <<>> THEN Luego(g, <<Pon(I("RETORNAR", 0, 0, 0))>>)
  ELSE IF g.ctx.ret \in Escalares /\ Tipo(g, s.v[1]) \notin Escalares \cup {"elemento"} THEN Rechaza(g)
  ELSE Luego(g, <<Expr(s.v[1], 1)>> \o Convierte1(g.ctx.ret, Tipo(g, s.v[1]), 1)
                \o <<Pon(I("RETORNAR", 1, 0, 0))>>)

(* A variable not declared before is declared by reading into it. *)
SentenciaLeer(g, s) ==
  LET g1 == IF Declarado(g, s.n) THEN g ELSE Declara(g, s.n, "texto", PALABRA, FALSE, NADA, <<>>)
  IN IF ~Declarado(g, s.n) /\ EsReservado(s.n) THEN Rechaza(g)
     ELSE IF Busca(g1, s.n).cte THEN Rechaza(g)
     ELSE Luego(g1, <<Pon(Lectura(s.ya, 1))>> \o PonTodo(EscribirVar(Busca(g1, s.n), 1)))

(* Only a call or an increment does something as a statement. *)
SentenciaSuelta(g, s) ==
  CASE s.e.k \in {"llam", "met", "icall"} -> SentenciaLlamada(g, s.e)
    [] s.e.k = "post" -> Luego(g, <<Expr(s.e, 1)>>)
    [] OTHER -> Luego(g, <<>>)

(* recordar, asociar, aprender: concepts in registers 10, 11 and 12. *)
PESO_ASOCIA == 90
PESO_APRENDE == 100

SistemaSuelta(op, regs, fijos) ==
  [op |-> "SISTEMA", a |-> 0, b |-> 0, c |-> 0, s |-> op,
   lee |-> [k \in DOMAIN regs |-> [reg |-> TRUE, v |-> regs[k]]]
           \o [k \in DOMAIN fijos |-> [reg |-> FALSE, v |-> fijos[k]]]]

SentenciaConceptos(g, s) ==
  LET n == Len(s.as)
      aprende == s.que = "aprender" \/ (s.que = "recordar" /\ n = 1)
      regs == [k \in 1..n |-> 9 + k]
      faltaPeso == IF aprende THEN n = 1 ELSE n = 2
      peso == IF ~faltaPeso THEN <<>> ELSE IF aprende THEN <<PESO_APRENDE>> ELSE <<PESO_ASOCIA>>
  IN Luego(g, [k \in 1..n |-> Expr(s.as[k], 9 + k)]
              \o <<Pon(SistemaSuelta(IF aprende THEN "MEM_APRENDER_CONCEPTO" ELSE "MEM_ASOCIAR_CONCEPTOS",
                                     regs, peso))>>)

(* ultima_palabra, copiar_texto: the result goes to a variable that is
   declared here if it is new. *)
SentenciaTexto(g, s) ==
  Luego(g, <<Expr(s.e, 1), Pon(I(s.que, 2, 1, 0))>>
           \o (IF Declarado(g, s.n) THEN <<>> ELSE <<Declarar(s.n, NADA)>>) \o <<EscribeEn(s.n, 2)>>)

(* crear_memoria, cerrar_memoria, define_concepto and activar_modulo: a text
   that is written in the program goes in the instruction. *)
Escrito(op, s) == SistemaSuelta(op \o " " \o s, <<>>, <<>>)

SentenciaMemoria(g, s) ==
  LET escritos == SelectSeq(s.as, LAMBDA x : x.k = "txt") IN
  Luego(g,
    CASE s.que = "crear" ->
           [k \in DOMAIN s.as |-> Expr(s.as[k], k)]
           \o [k \in 1..3 - Len(s.as) |-> Pon(I("MOVERI", Len(s.as) + k, 0, 0))]
           \o <<Pon(SistemaSuelta("MEM_CREAR", <<1, 2, 3>>, <<>>))>>
      [] s.que = "cerrar" -> <<Pon(SistemaSuelta("MEM_CERRAR", <<>>, <<>>))>>
      [] s.que = "definir" -> [k \in DOMAIN escritos |-> Pon(Escrito("MEM_RECORDAR_TEXTO", escritos[k].s))]
      [] s.que = "activar" /\ escritos # <<>> -> <<Pon(Escrito("ACTIVAR_MODULO", escritos[1].s))>>
      [] s.que = "activar" /\ escritos = <<>> ->
           <<Expr(s.as[1], 1), Pon(SistemaSuelta("ACTIVAR_MODULO", <<1>>, <<>>))>>)

SentenciaResponder(g, s) ==
  Luego(g, <<Expr(s.e, 1), Pon(I("IMPRIMIR_ID", 1, 0, 0))>> \o PonTodo(ImprimirTexto("\n")))

(* A block, from its statement i on. *)
ConColapso(g, b, i, c) ==
  IF c.mal THEN Rechaza(g)
  ELSE IF c.ocupa = 0 THEN Luego(g, <<Sent(b[i]), Desde(b, i + 1)>>)
  ELSE Luego(g, c.ordenes \o <<Desde(b, i + c.ocupa)>>)

VisitaBloque(g, b, i) ==
  IF i > Len(b) THEN Luego(g, <<>>) ELSE ConColapso(g, b, i, Colapso(g, b, i))
================================================================================
