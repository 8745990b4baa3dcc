-------------------------------- MODULE Generador --------------------------------
(***************************************************************************)
(* The code generator of the compiler (codegen.c).                         *)
(*                                                                         *)
(* The generator g is a symbol table (TablaSimbolos) with                  *)
(*    cod    the instructions emitted       et   label -> position, or 0   *)
(*    par    the jumps to patch, [pos, l]   pat  the tables of functions   *)
(*    temps  the temporaries in use, by address                            *)
(*    marcos the positions of the RESERVAR_PILA still without a size       *)
(*    anid   the nesting of argument lists  lit  literal_counter           *)
(*    ctx    what the node being visited inherits from those around it     *)
(*    err    the program is rejected                                       *)
(*    pend   what is left to do, as orders                                 *)
(* A visit of the source calls itself on the children of a node between    *)
(* two emissions.  Here it replaces the node by the orders of its body, in *)
(* the same sequence: an instruction to emit, a label to mark, a child to  *)
(* visit.  Luego runs the orders up to the next child.                     *)
(*                                                                         *)
(* An instruction is [op, a, b, c, s]; the addressing of its operands is   *)
(* in the name: MOVERI loads an immediate, LEER and ESCRIBIR use an        *)
(* address, LEERR and ESCRIBIRR the address in a register, and c = 1 means *)
(* relative to the frame; SUMARI and CMP_EQI have an immediate c.  The     *)
(* position of an instruction is its index, not its byte.                  *)
(***************************************************************************)
EXTENDS TablaSimbolos, Cadenas

CONSTANT MARCO_MAX   \* CODEGEN_MAX_FRAME_BYTES

R_INVOCADO == 50     \* CG_INDIRECT_CALLEE_REG
R_U24 == 110         \* CG_U24_MATERIAL_TMP
R_SALVA_U24 == 119
R_IMPRIMIR == 120
R_ELEMENTO == 121
R_VALOR == 122
R_CAMPO == 4         \* CG_STRUCT_VAL_TMP
R_BASE == 6          \* CG_STRUCT_ADDR_TMP
R_ACC7 == 7
R_ACC8 == 8
R_FRAG == 9
R_COND == 10         \* CG_STRUCT_COND_TMP

(* A flotante is counted in thousandths, and its bits are those of no integer
   of a program; the bits of an integer are those of a flotante almost zero. *)
BITS == 100000000
Flotante(milesimas) == IF milesimas = 0 THEN 0 ELSE BITS + milesimas
Milesimas(bits) == IF bits < BITS \div 2 THEN 0 ELSE bits - BITS

Por(s, f(_)) == FlattenSeq([k \in DOMAIN s |-> f(k)])

I(op, a, b, c) == [op |-> op, a |-> a, b |-> b, c |-> c, s |-> ""]
ITexto(op, a, s) == [op |-> op, a |-> a, b |-> 0, c |-> 0, s |-> s]

(***************************************************************************)
(* Orders                                                                  *)
(***************************************************************************)
Pon(i) == [o |-> "pon", i |-> i]
PonTodo(is) == [k \in DOMAIN is |-> Pon(is[k])]
Ir(l) == [o |-> "parchada", i |-> I("IR", 0, 0, 0), l |-> l]
Llama(l) == [o |-> "parchada", i |-> I("LLAMAR", 0, 0, 0), l |-> l]
Direccion(r, l) == [o |-> "parchada", i |-> I("MOVERI", r, 0, 0), l |-> l]
EntraIntento(l) == [o |-> "parchada", i |-> I("TRY_ENTER", 0, 0, 0), l |-> l]
SiNoCero(r, l) == [o |-> "si", r |-> r, l |-> l]
Marca(l) == [o |-> "marca", l |-> l]
OIndefinido(r, letra, acc) == [o |-> "indefinido", r |-> r, letra |-> letra, acc |-> acc]
Reserva == [o |-> "reserva"]
ATemporal(k, r) == [o |-> "aTemporal", k |-> k, r |-> r]
DeTemporal(k, r) == [o |-> "deTemporal", k |-> k, r |-> r]
Suelta(n) == [o |-> "suelta", n |-> n]
Entra(esFuncion) == [o |-> "entra", f |-> esFuncion]
Sale == [o |-> "sale"]
Contexto(c) == [o |-> "ctx", c |-> c]
Anida(n) == [o |-> "anida", n |-> n]
AbreMarco == [o |-> "abreMarco"]
CierraMarco == [o |-> "cierraMarco"]
CierraPrincipal == [o |-> "cierraPrincipal"]
DeclaraParam(p, r) == [o |-> "param", p |-> p, r |-> r]
DeclaraReservado(p, r) == [o |-> "este", p |-> p, r |-> r]
DeclaraDeTipo(p, e, r) == [o |-> "paramDe", p |-> p, e |-> e, r |-> r]
Declarar(n, t) == [o |-> "declara", n |-> n, t |-> t]
EscribeEn(n, r) == [o |-> "escribeVar", n |-> n, r |-> r]
Expr(e, r) == [o |-> "expr", e |-> e, r |-> r]
Sent(s) == [o |-> "sent", s |-> s]
Desde(b, i) == [o |-> "bloque", b |-> b, i |-> i]
Bloque(b) == Desde(b, 1)

Guarda(r) == <<Reserva, ATemporal(1, r)>>
Repone(r) == <<DeTemporal(1, r), Suelta(1)>>

(***************************************************************************)
(* Instructions with an address                                            *)
(***************************************************************************)
Largo(dir) == dir > 65535

MoverU24(r, v) == <<I("MOVERI", r, v, 0)>>

SumarU24(r, base, v) ==
  IF v <= 255 THEN <<I("SUMARI", r, base, v)>>
  ELSE MoverU24(R_U24, v) \o <<I("SUMAR", r, base, R_U24)>>

EscribirU24(dir, r, rel) ==
  LET f == IF rel THEN 1 ELSE 0 IN
  IF ~Largo(dir) THEN <<I("ESCRIBIR", dir, r, f)>>
  ELSE IF r = R_U24
  THEN <<I("MOVER", R_SALVA_U24, r, 0)>> \o MoverU24(R_U24, dir)
         \o <<I("ESCRIBIRR", R_U24, R_SALVA_U24, f)>>
  ELSE MoverU24(R_U24, dir) \o <<I("ESCRIBIRR", R_U24, r, f)>>

LeerU24(r, dir, rel) ==
  LET f == IF rel THEN 1 ELSE 0 IN
  IF ~Largo(dir) THEN <<I("LEER", r, dir, f)>>
  ELSE MoverU24(R_U24, dir) \o <<I("LEERR", r, R_U24, f)>>

EscribirVar(e, r) == EscribirU24(e.dir, r, e.rel)
LeerVar(r, e) == LeerU24(r, e.dir, e.rel)

CargarTexto(r, s) == <<ITexto("STR_REGISTRAR", 0, s), ITexto("LOAD_STR", r, s)>>
ImprimirTexto(s) == <<ITexto("IMPRIMIR_LITERAL", 0, s)>>
PegaTexto(acc, s) == CargarTexto(R_FRAG, s) \o <<I("STR_CONCAT", acc, acc, R_FRAG)>>

(***************************************************************************)
(* Emission                                                                *)
(***************************************************************************)
(* A move of a register to itself is not emitted. *)
Emite(g, i) == IF i.op = "MOVER" /\ i.a = i.b THEN g ELSE [g EXCEPT !.cod = Append(@, i)]

EtiquetasNuevas(g, n) == [g EXCEPT !.et = @ \o [k \in 1..n |-> 0]]
Etiqueta(g, k) == Len(g.et) + k

MarcaEtiqueta(g, l) == [g EXCEPT !.et[l] = Len(g.cod) + 1]

EmiteParchada(g, i, l) ==
  [Emite(g, i) EXCEPT !.par = Append(@, [pos |-> Len(g.cod) + 1, l |-> l])]

(* A conditional jump reaches a jump of its own, which has the whole range. *)
EmiteSiNoCero(g, r, l) ==
  LET salto == Etiqueta(g, 1)
      sigue == Etiqueta(g, 2)
      g1 == EmiteParchada(EtiquetasNuevas(g, 2), I("SI", r, 0, 0), salto)
      g2 == EmiteParchada(g1, I("IR", 0, 0, 0), sigue)
      g3 == EmiteParchada(MarcaEtiqueta(g2, salto), I("IR", 0, 0, 0), l)
  IN MarcaEtiqueta(g3, sigue)

(* A jump to a label that was never marked keeps its zero. *)
ResuelveParches(g) ==
  [k \in DOMAIN g.cod |->
     LET ps == {p \in ToSet(g.par) : p.pos = k /\ g.et[p.l] > 0}
     IN IF ps = {} THEN g.cod[k]
        ELSE LET destino == g.et[(CHOOSE p \in ps : TRUE).l] IN
             IF g.cod[k].op = "MOVERI" THEN [g.cod[k] EXCEPT !.b = destino]
             ELSE [g.cod[k] EXCEPT !.c = destino]]

Rechaza(g) == [g EXCEPT !.err = TRUE, !.pend = <<>>]

AbreMarcoEn(g) ==
  [Emite(g, I("RESERVAR_PILA", 0, 0, 0)) EXCEPT !.marcos = Append(@, Len(g.cod) + 1)]

(* The size of a frame is known when its code has been generated.  The frame
   of the main block has no limit. *)
PonMarcoCorto(g) == [g EXCEPT !.cod[Last(g.marcos)].a = g.loc - PALABRA, !.marcos = Front(@)]
PonMarco(g) == [g EXCEPT !.cod[Last(g.marcos)].a = g.loc, !.marcos = Front(@)]
CierraMarcoEn(g) == IF g.loc > MARCO_MAX THEN Rechaza(g) ELSE PonMarco(g)

DireccionTemporal(g, k) == g.temps[Len(g.temps) - k + 1]

RECURSIVE Tipo(_, _), EmiteTodas(_, _)
EmiteTodas(g, is) == IF is = <<>> THEN g ELSE EmiteTodas(Emite(g, Head(is)), Tail(is))

(* A parameter takes the next slot and keeps what came in its register. *)
DeclaraParametro(g, p, r, permiteReservado) ==
  IF ~Declarable(g, p.n, permiteReservado) THEN Rechaza(g)
  ELSE LET g1 == Declara(g, p.n, p.t, PALABRA, FALSE, p.el, <<>>)
       IN EmiteTodas(g1, EscribirU24(Busca(g1, p.n).dir, r, TRUE))

(* A field that is the null text, or the character 0, shows as indefinido:
   printed when acc is 0, or joined to the text in acc. *)
EmiteOIndefinido(g, d) ==
  LET nulo == Etiqueta(g, 1)
      fin == Etiqueta(g, 2)
      g1 == EmiteSiNoCero(Emite(EtiquetasNuevas(g, 2), I("CMP_EQI", R_COND, d.r, 0)), R_COND, nulo)
      r == IF d.letra /\ d.acc # 0 THEN R_FRAG ELSE d.r
      g2 == EmiteTodas(g1, (IF d.letra THEN <<I("STR_DESDE_CODIGO", r, d.r, 0)>> ELSE <<>>)
                           \o <<IF d.acc = 0 THEN I("IMPRIMIR_TEXTO", r, 0, 0) ELSE I("STR_CONCAT", d.acc, d.acc, r)>>)
      g3 == MarcaEtiqueta(EmiteParchada(g2, I("IR", 0, 0, 0), fin), nulo)
  IN MarcaEtiqueta(EmiteTodas(g3, IF d.acc = 0 THEN ImprimirTexto("indefinido")
                                  ELSE PegaTexto(d.acc, "indefinido")), fin)

Basicas == {"pon", "parchada", "si", "indefinido", "marca", "reserva", "aTemporal", "deTemporal", "suelta",
            "entra", "sale", "ctx", "anida", "abreMarco", "cierraMarco", "param", "este", "paramDe",
            "declara", "escribeVar", "cierraPrincipal"}

Cumple(g, d) ==
  CASE d.o = "pon" -> Emite(g, d.i)
    [] d.o = "parchada" -> EmiteParchada(g, d.i, d.l)
    [] d.o = "si" -> EmiteSiNoCero(g, d.r, d.l)
    [] d.o = "indefinido" -> EmiteOIndefinido(g, d)
    [] d.o = "marca" -> MarcaEtiqueta(g, d.l)
    [] d.o = "reserva" -> [ReservaTemporal(g) EXCEPT !.temps = Append(@, g.loc)]
    [] d.o = "aTemporal" -> EmiteTodas(g, EscribirU24(DireccionTemporal(g, d.k), d.r, TRUE))
    [] d.o = "deTemporal" -> EmiteTodas(g, LeerU24(d.r, DireccionTemporal(g, d.k), TRUE))
    [] d.o = "suelta" -> [g EXCEPT !.temps = SubSeq(@, 1, Len(@) - d.n)]
    [] d.o = "entra" -> EntraAlcance(g, d.f)
    [] d.o = "sale" -> SaleAlcance(g)
    [] d.o = "ctx" -> [g EXCEPT !.ctx = d.c]
    [] d.o = "anida" -> [g EXCEPT !.anid = @ + d.n]
    [] d.o = "abreMarco" -> AbreMarcoEn(g)
    [] d.o = "cierraMarco" -> CierraMarcoEn(g)
    [] d.o = "cierraPrincipal" -> PonMarco(g)
    [] d.o = "param" -> DeclaraParametro(g, d.p, d.r, FALSE)
    [] d.o = "este" -> DeclaraParametro(g, d.p, d.r, TRUE)
    [] d.o = "paramDe" ->
         DeclaraParametro(g, IF d.p.t # NADA THEN d.p ELSE [d.p EXCEPT !.t = Tipo(g, d.e)], d.r, FALSE)
    [] d.o = "escribeVar" -> EmiteTodas(g, EscribirVar(Busca(g, d.n), d.r))
    [] d.o = "declara" ->
         IF Declarable(g, d.n, FALSE) THEN Declara(g, d.n, d.t, PALABRA, FALSE, NADA, <<>>) ELSE Rechaza(g)

(* Run the orders at the head that need no visit. *)
RECURSIVE Avanza(_)
Avanza(g) ==
  IF g.pend = <<>> \/ g.err \/ Head(g.pend).o \notin Basicas THEN g
  ELSE Avanza(Cumple([g EXCEPT !.pend = Tail(@)], Head(g.pend)))

(* The orders of a visit go before the rest. *)
Luego(g, ordenes) == [g EXCEPT !.pend = ordenes \o @]

(***************************************************************************)
(* Functions and methods                                                   *)
(***************************************************************************)
Funciones(g, n) == {i \in DOMAIN g.fun : g.fun[i].n = n}
EsFuncion(g, n) == Funciones(g, n) # {}
Funcion(g, n) == g.fun[CHOOSE i \in Funciones(g, n) : \A j \in Funciones(g, n) : i <= j]
NombreMetodo(clase, m) == clase \o "." \o m

(* The label of a method, of the class or of the first base that has one. *)
EtiquetaDe(g, cs, m) == IF cs = <<>> THEN 0 ELSE Funcion(g, NombreMetodo(Head(cs), m)).l
EtiquetaMetodo(g, clase, m) ==
  EtiquetaDe(g, SelectSeq(Linaje(g, clase), LAMBDA c : EsFuncion(g, NombreMetodo(c, m))), m)

AccesoPermitido(g, clase, privado) == privado => g.ctx.fnClase = clase

Incorporados == {"entero", "flotante", "texto", "booleano", "lista", "mapa", "vec2", "vec3", "vec4",
                 "color", "funcion", "macro", "u32", "u64", "u8", "byte"}

Contenedor(g, n) == g.ctx.caps # <<>> /\ Niveles(g, n, g.ctx.base) = {} /\ n \in Nombres(g.ctx.caps)
Capturada(g, n) == CHOOSE i \in DOMAIN g.ctx.caps :
                     g.ctx.caps[i].n = n /\ \A j \in 1..i-1 : g.ctx.caps[j].n # n

(***************************************************************************)
(* The static type of an expression                                        *)
(***************************************************************************)
(* The type of what a chain of members and indexes denotes.  A collection
   with an element type is taken for its element. *)
TipoO(t, otro) == IF t # NADA THEN t ELSE otro
TipoDeCampo(f) == IF f = <<>> THEN NADA ELSE f[1].tipo
TipoElemento(t, elem) == IF t \in {"mapa", "lista"} THEN TipoO(elem, t) ELSE t

RECURSIVE TipoCadena(_, _)
TipoCadena(g, e) ==
  CASE e.k = "var" -> TipoElemento(BuscaTipo(g, e.n), BuscaElemento(g, e.n))
    [] e.k = "idx" ->
         IF e.b.k = "var" /\ TipoCadena(g, e.b) # NADA THEN TipoO(BuscaElemento(g, e.b.n), "mapa") ELSE "mapa"
    [] e.k = "miem" -> TipoDeCampo(Campo(g, TipoCadena(g, e.b), e.c))
    [] OTHER -> NADA

(* The type of the first value a block returns. *)
RECURSIVE TipoRetornado(_, _)
TipoDeSentencia(g, s) ==
  CASE s.k = "ret" -> IF s.v = <<>> THEN NADA ELSE Tipo(g, s.v[1])
    [] s.k = "si" -> TipoO(TipoRetornado(g, s.si), TipoRetornado(g, s.no))
    [] OTHER -> NADA
TipoRetornado(g, ss) ==
  IF ss = <<>> THEN NADA ELSE TipoO(TipoDeSentencia(g, Head(ss)), TipoRetornado(g, Tail(ss)))

TipoVariable(g, n) ==
  TipoO(BuscaTipo(g, n), IF Contenedor(g, n) THEN g.ctx.caps[Capturada(g, n)].t ELSE "elemento")

TipoBinaria(lt, rt) ==
  IF "flotante" \in {lt, rt} THEN "flotante"
  ELSE IF "texto" \in {lt, rt} THEN "texto"
  ELSE IF lt = rt /\ lt \in {"vec2", "vec3", "vec4", "entero"} THEN lt
  ELSE "elemento"

(* What the built-in functions answer; those of a name no function of the
   program can take come first. *)
TipoPrimero(n, as) ==
  CASE n \in {"concatenar", "str_desde_numero", "texto_desde_numero", "formatear_timestamp"} -> "texto"
    [] n \in {"obtener_timestamp", "obtener_ahora", "ahora"} -> "entero"
    [] n = "decimal" /\ Len(as) = 2 -> "texto"
    [] OTHER -> NADA

TipoIncorporada(n) ==
  CASE n \in {"json_stringify", "json_a_texto", "bytes_a_texto", "dns_resolver", "extraer_antes_de",
              "extraer_despues_de"} -> "texto"
    [] n \in {"str_a_entero", "convertir_entero", "json_lista_tamano", "bytes_puntero"} -> "entero"
    [] n \in {"str_a_flotante", "convertir_flotante", "json_a_flotante", "entrada_flotante",
              "vec2_longitud", "vec3_longitud", "vec4_longitud", "vec2_dot", "vec3_dot", "vec4_dot",
              "sin", "cos", "tan", "exp", "log", "log10", "atan2", "arcotangente2"} -> "flotante"
    [] n \in {"lista_mapear", "mem_lista_mapear", "lista_filtrar", "mem_lista_filtrar"} -> "lista"
    [] n \in {"json_parse", "json_objeto_obtener", "json_lista_obtener"} -> "objeto"
    [] n \in {"bytes_desde_texto", "bytes_crear", "bytes_subbytes", "tcp_recibir", "tls_recibir"} -> "bytes"
    [] n \in {"tcp_conectar", "tcp_escuchar", "tcp_aceptar"} -> "socket"
    [] n \in {"tls_cliente", "tls_servidor"} -> "tls"
    [] OTHER -> NADA

TipoVectorial(n, as) ==
  IF \/ n = "vec2" /\ Len(as) = 2
     \/ n = "vec3" /\ Len(as) = 3
     \/ n = "vec4" /\ Len(as) = 4
  THEN n ELSE NADA

Obtenedoras == {"mem_lista_obtener", "lista_obtener", "mem_mapa_obtener", "mapa_obtener"}
TipoObtenido(g, n, as) ==
  IF n \in Obtenedoras /\ as # <<>> /\ as[1].k = "var" THEN BuscaElemento(g, as[1].n) ELSE NADA

TipoMacro(g, mac) == IF mac = <<>> THEN "elemento" ELSE Tipo(g, mac[1].b)

Retorno(m) == IF m = <<>> THEN NADA ELSE m[1].ret

(* What is not a function: a variable that holds one, a built-in, a macro. *)
TipoLlamadaOtra(g, n, as) ==
  IF BuscaTipo(g, n) = "funcion" THEN "elemento"
  ELSE TipoO(TipoVectorial(n, as), TipoO(TipoIncorporada(n), TipoO(TipoObtenido(g, n, as),
         IF Declarado(g, n) THEN TipoMacro(g, Busca(g, n).mac) ELSE "elemento")))

TipoLlamada(g, n, as) ==
  TipoO(TipoPrimero(n, as),
    IF EsClaseORegistro(g, n) THEN n
    ELSE TipoO(IF g.ctx.clase = NADA THEN NADA ELSE Retorno(Metodo(g, g.ctx.clase, n)),
               IF EsFuncion(g, n) THEN TipoO(Funcion(g, n).ret, "elemento") ELSE TipoLlamadaOtra(g, n, as)))

TipoMetodo(g, t, n) == TipoO(IF t \in Incorporados THEN NADA ELSE Retorno(Metodo(g, t, n)), "elemento")

TipoMiembro(t, c, cadena) ==
  IF t \in {"lista", "mapa"} /\ c \in {"medida", "tamano", "size"} THEN "entero" ELSE TipoO(cadena, "elemento")

Tipo(g, e) ==
  CASE e.k = "num" -> "entero"
    [] e.k = "flot" -> "flotante"
    [] e.k \in {"txt", "interp"} -> "texto"
    [] e.k = "con" -> "concepto"
    [] e.k = "car" -> "caracter"
    [] e.k = "nulo" -> "nulo"
    [] e.k = "var" -> TipoVariable(g, e.n)
    [] e.k = "post" -> Tipo(g, e.e)
    [] e.k = "bin" -> TipoBinaria(Tipo(g, e.i), Tipo(g, e.d))
    [] e.k = "idx" -> TipoO(TipoCadena(g, e), Tipo(g, e.b))
    [] e.k = "ter" -> Tipo(g, e.i)
    [] e.k = "un" -> IF e.op = "no" THEN "booleano" ELSE Tipo(g, e.e)
    [] e.k = "lista" -> "lista"
    [] e.k = "mapa" -> "mapa"
    [] e.k = "json" -> "objeto"
    [] e.k = "lam" -> "funcion"
    [] e.k = "met" -> TipoMetodo(g, Tipo(g, e.b), e.m)
    [] e.k = "llam" -> TipoLlamada(g, e.n, e.as)
    [] e.k = "bloque" -> TipoO(TipoRetornado(g, e.ss), "elemento")
    [] e.k = "miem" -> TipoMiembro(Tipo(g, e.b), e.c, TipoCadena(g, e))
    [] OTHER -> "elemento"

EsEstructura(g, t) == Tamano(g, t) > 0

(* Calls that already leave the id of a text. *)
YaEsTexto(g, e) == e.k \in {"llam", "met", "icall"} /\ Tipo(g, e) = "texto"

(* A call in a subexpression may overwrite any register. *)
RECURSIVE TieneLlamada(_)
TieneLlamada(e) ==
  CASE e.k \in {"llam", "met", "icall", "lam"} -> TRUE
    [] e.k = "bin" -> TieneLlamada(e.i) \/ TieneLlamada(e.d)
    [] e.k \in {"un", "post"} -> TieneLlamada(e.e)
    [] e.k = "ter" -> TieneLlamada(e.c) \/ TieneLlamada(e.i) \/ TieneLlamada(e.d)
    [] e.k = "idx" -> TieneLlamada(e.b) \/ TieneLlamada(e.i)
    [] e.k = "miem" -> TieneLlamada(e.b)
    [] OTHER -> FALSE

(***************************************************************************)
(* The address of a member: the instructions that compute it, and where it *)
(* is, a register or an address of the frame or of the globals.            *)
(***************************************************************************)
SinDireccion == [is |-> <<>>, enReg |-> FALSE, dir |-> 0, rel |-> FALSE, ok |-> FALSE]

EnRegistro(b, r) ==
  [b EXCEPT !.enReg = TRUE, !.rel = FALSE,
   !.is = @ \o IF b.enReg THEN <<I("LEERR", r, r, 0)>> ELSE LeerU24(r, b.dir, b.rel)]

MasCampo(b, f, r) ==
  IF b.enReg THEN [b EXCEPT !.is = @ \o SumarU24(r, r, f.des)] ELSE [b EXCEPT !.dir = @ + f.des]

EsObjeto(g, t) == EsClaseORegistro(g, t) /\ Clase(g, t).esClase

(* A field of what is at b, of type t: an object is followed first. *)
DireccionCampo(g, b, t, f, r) ==
  IF ~b.ok THEN SinDireccion
  ELSE IF t = NADA THEN [SinDireccion EXCEPT !.ok = TRUE]
  ELSE IF f = <<>> \/ ~AccesoPermitido(g, t, f[1].priv) THEN SinDireccion
  ELSE MasCampo(IF EsObjeto(g, t) THEN EnRegistro(b, r) ELSE b, f[1], r)

DireccionVariable(v) == [is |-> <<>>, enReg |-> FALSE, dir |-> v.dir, rel |-> v.rel, ok |-> TRUE]

RECURSIVE DireccionMiembro(_, _, _)
DireccionMiembro(g, e, r) ==
  CASE e.k = "var" -> IF Declarado(g, e.n) THEN DireccionVariable(Busca(g, e.n))
                      ELSE [SinDireccion EXCEPT !.ok = EsFuncion(g, e.n)]
    [] e.k = "miem" -> DireccionCampo(g, DireccionMiembro(g, e.b, r), TipoCadena(g, e.b),
                                      Campo(g, TipoCadena(g, e.b), e.c), r)
    [] OTHER -> [SinDireccion EXCEPT !.ok = TRUE]

(***************************************************************************)
(* A record as a text, field by field.  A base is where the record starts: *)
(* in an address, or in a register.                                        *)
(***************************************************************************)
Sangria(prof) == FoldLeft(LAMBDA acc, k : acc \o "  ", "", [k \in 1..prof |-> k])

(* The register plus an offset, at most 255 at a time. *)
RegistroMas(base, off, r) ==
  <<I("MOVER", r, base, 0)>>
  \o [k \in 1..((off + 254) \div 255) |-> I("SUMARI", r, r, IF k * 255 <= off THEN 255 ELSE off % 255)]

LeerEn(base, off, r) ==
  IF base.enReg THEN RegistroMas(base.r, off, R_BASE) \o <<I("LEERR", r, R_BASE, 0)>>
  ELSE <<I("LEER", r, (base.dir + off) % 65536, IF base.rel THEN 1 ELSE 0)>>

(* The base of a record inside another; in a register it is always the same. *)
DentroDe(base, off) ==
  IF base.enReg THEN [base EXCEPT !.r = R_BASE] ELSE [base EXCEPT !.dir = @ + off]
HaciaDentro(base, off) == IF base.enReg THEN RegistroMas(base.r, off, R_BASE) ELSE <<>>

Enteros == {"entero", "bool", "u32", "u8", "byte", "u64"}

(* The text is printed, or joined to what register acc holds; a record inside
   is joined in the other of two registers. *)
Escribe(acc, s) == PonTodo(IF acc = 0 THEN ImprimirTexto(s) ELSE PegaTexto(acc, s))

EscribeCampo(base, c, acc) ==
  PonTodo(LeerEn(base, c.des, R_CAMPO))
  \o CASE c.tipo \in {"texto", "caracter"} -> <<OIndefinido(R_CAMPO, c.tipo = "caracter", acc)>>
       [] c.tipo \notin {"texto", "caracter"} /\ acc = 0 ->
            <<Pon(I(IF c.tipo = "flotante" THEN "IMPRIMIR_FLOTANTE" ELSE "IMPRIMIR_NUMERO", R_CAMPO, 0, 0))>>
       [] OTHER ->
            PonTodo(<<IF c.tipo = "flotante" THEN I("STR_FLOTANTE_PREC", R_FRAG, R_CAMPO, 4)
                      ELSE I("STR_DESDE_NUMERO", R_FRAG, R_CAMPO, IF c.tipo \in Enteros THEN 1 ELSE 0),
                      I("STR_CONCAT", acc, acc, R_FRAG)>>)

RECURSIVE EscribeEstructura(_, _, _, _, _)
EscribeEstructura(g, t, base, acc, prof) ==
  LET cs == Clase(g, t).campos
      otro == IF acc = 0 THEN 0 ELSE IF acc = R_ACC7 THEN R_ACC8 ELSE R_ACC7
      campo(k) ==
        IF ~EsEstructura(g, cs[k].tipo) THEN EscribeCampo(base, cs[k], acc)
        ELSE PonTodo(HaciaDentro(base, cs[k].des))
             \o EscribeEstructura(g, cs[k].tipo, DentroDe(base, cs[k].des), otro, prof + 1)
             \o IF acc = 0 THEN <<>> ELSE <<Pon(I("STR_CONCAT", acc, acc, otro))>>
  IN Escribe(acc, "{\n")
     \o Por(cs, LAMBDA k : Escribe(acc, Sangria(prof + 1)) \o Escribe(acc, cs[k].n) \o Escribe(acc, ": ")
              \o campo(k) \o (IF k < Len(cs) THEN Escribe(acc, ",") ELSE <<>>) \o Escribe(acc, "\n"))
     \o Escribe(acc, Sangria(prof)) \o Escribe(acc, "}")

BaseDe(d, r) == [enReg |-> d.enReg, r |-> r, dir |-> d.dir, rel |-> d.rel]

(***************************************************************************)
(* Arguments.  Each is evaluated in a high register, chosen by the nesting *)
(* of the call, and kept in the frame; the registers of the call are       *)
(* loaded when all of them are known.                                      *)
(***************************************************************************)
RegistroArgumento(g) ==
  LET r == 255 - 2 * (g.anid + 1) IN IF r < 100 THEN 100 ELSE r

ArgumentosSinGuardar(g, as, primero) == [k \in DOMAIN as |-> Expr(as[k], primero + k - 1)]

Argumentos(g, as, primero) ==
  LET r == RegistroArgumento(g)
      n == Len(as)
  IN <<Anida(1)>> \o Por(as, LAMBDA k : <<Expr(as[k], r)>> \o Guarda(r))
     \o [k \in 1..n |-> DeTemporal(n - k + 1, primero + k - 1)] \o <<Suelta(n), Anida(-1)>>

ConLiteralDeFuncion(g, ordenes) ==
  <<Contexto([g.ctx EXCEPT !.func = TRUE])>> \o ordenes \o <<Contexto(g.ctx)>>

(***************************************************************************)
(* Expressions                                                             *)
(***************************************************************************)
(* What is read: a line, or the key that is down. *)
Lectura(ya, r) ==
  IF ya THEN [op |-> "SISTEMA", a |-> r, b |-> 0, c |-> 0, s |-> "IO_PERCIBIR_TECLADO", lee |-> <<>>]
  ELSE I("IO_INPUT", r, 0, 0)
VisitaEntrada(g, e, r) == Luego(g, <<Pon(Lectura(e.ya, r))>>)

VisitaLista(g, e, r) ==
  Luego(g, <<Pon(I("MOVERI", r, 0, 0)), Pon(I("LISTA_CREAR", r, r, 0))>>
           \o Por(e.es, LAMBDA k : <<Expr(e.es[k], R_ELEMENTO), Pon(I("LISTA_AGREGAR", r, R_ELEMENTO, 0))>>))

(* A literal of more than sixteen bits, and a flotante, is put together in a
   second register. *)
DosMitades(r, v) ==
  LET tmp == IF r # 3 THEN 3 ELSE 4 IN
  <<I("MOVERI", r, v % 65536, 0), I("MOVERI", tmp, v \div 65536, 0),
    I("BIT_SHLI", tmp, tmp, 16), I("O", r, r, tmp)>>

CargarNumero(r, v) == IF v <= 65535 THEN <<I("MOVERI", r, v, 0)>> ELSE DosMitades(r, v)

VisitaNumero(g, e, r) ==
  Luego(g, PonTodo(IF e.k = "flot" THEN DosMitades(r, Flotante(e.v)) ELSE CargarNumero(r, e.v)))

VisitaTexto(g, e, r) == Luego(g, PonTodo(CargarTexto(r, e.s)))

ATexto(r, t) ==
  IF t \in {"texto", "concepto"} THEN <<>>
  ELSE <<Pon(I("STR_DESDE_NUMERO", r, r, IF t = "entero" THEN 1 ELSE 0))>>

(* A text with expressions in it: the parts are joined in r; while an
   expression is evaluated, in register 3, what r holds waits in the frame. *)
VisitaInterpolado(g, e, r) ==
  LET tmp == IF r = R_FRAG THEN R_ACC7 ELSE R_FRAG
      trozo(k) == LET a == IF k = 1 THEN r ELSE tmp
                  IN PonTodo(CargarTexto(a, e.ps[k].s))
                     \o IF k = 1 THEN <<>> ELSE <<Pon(I("STR_CONCAT", r, r, tmp))>>
      registro(k) == EsEstructura(g, Tipo(g, e.ps[k]))
      deRegistro(k) == LET d == DireccionMiembro(g, e.ps[k], 2)
                       IN PonTodo(d.is) \o EscribeEstructura(g, Tipo(g, e.ps[k]), BaseDe(d, 2), R_ACC7, 0)
      valor(k) == LET rv == IF registro(k) THEN R_ACC7 ELSE 3 IN
                  (IF k = 1 THEN <<>> ELSE Guarda(r))
                  \o (IF registro(k) THEN deRegistro(k)
                      ELSE <<Expr(e.ps[k], 3)>> \o ATexto(3, Tipo(g, e.ps[k])))
                  \o (IF k = 1 THEN <<Pon(I("MOVER", r, rv, 0))>>
                      ELSE Repone(r) \o <<Pon(I("STR_CONCAT", r, r, rv))>>)
  IN IF \E k \in DOMAIN e.ps : e.ps[k].k # "trozo" /\ Tipo(g, e.ps[k]) = "funcion" THEN Rechaza(g)
     ELSE Luego(g, Por(e.ps, LAMBDA k : IF e.ps[k].k = "trozo" THEN trozo(k) ELSE valor(k)))

(* The names an expression or a block uses and declares, in order. *)
Usa(n) == <<[usa |-> TRUE, n |-> n]>>
Local(n) == <<[usa |-> FALSE, n |-> n]>>

RECURSIVE NombresDe(_), NombresSent(_)
NombresDe(e) ==
  CASE e.k = "var" -> Usa(e.n)
    [] e.k = "post" -> NombresDe(e.e)
    [] e.k = "bin" -> NombresDe(e.i) \o NombresDe(e.d)
    [] e.k = "un" -> NombresDe(e.e)
    [] e.k = "ter" -> NombresDe(e.c) \o NombresDe(e.i) \o NombresDe(e.d)
    [] e.k = "llam" -> Por(e.as, LAMBDA k : NombresDe(e.as[k]))
    [] e.k = "icall" -> NombresDe(e.f) \o Por(e.as, LAMBDA k : NombresDe(e.as[k]))
    [] e.k = "met" -> NombresDe(e.b) \o Por(e.as, LAMBDA k : NombresDe(e.as[k]))
    [] e.k = "idx" -> NombresDe(e.b) \o NombresDe(e.i)
    [] e.k = "miem" -> NombresDe(e.b)
    [] e.k = "bloque" -> Por(e.ss, LAMBDA k : NombresSent(e.ss[k]))
    [] OTHER -> <<>>

NombresSent(s) ==
  CASE s.k = "decl" -> Local(s.n) \o Por(s.v, LAMBDA k : NombresDe(s.v[k]))
    [] s.k = "imp" -> NombresDe(s.e)
    [] s.k \in {"asig", "asigMiem"} -> NombresDe(s.v)
    [] s.k = "asigIdx" -> NombresDe(s.b) \o NombresDe(s.i) \o NombresDe(s.v)
    [] s.k = "ret" -> Por(s.v, LAMBDA k : NombresDe(s.v[k]))
    [] s.k = "si" -> NombresDe(s.c) \o Por(s.si, LAMBDA k : NombresSent(s.si[k]))
                     \o Por(s.no, LAMBDA k : NombresSent(s.no[k]))
    [] s.k = "mien" -> NombresDe(s.c) \o Por(s.b, LAMBDA k : NombresSent(s.b[k]))
    [] s.k = "expr" -> NombresDe(s.e)
    [] OTHER -> <<>>

(* What a lambda takes with it: names used before any declaration of theirs
   inside it, that are variables outside it and not functions. *)
Capturas(g, lam) ==
  FoldLeft(LAMBDA acc, u :
      IF ~u.usa THEN [acc EXCEPT !.loc = @ \cup {u.n}]
      ELSE IF \/ u.n \in acc.loc \/ EsFuncion(g, u.n) \/ u.n \in Nombres(acc.caps)
              \/ BuscaTipo(g, u.n) = NADA
      THEN acc ELSE [acc EXCEPT !.caps = Append(@, [n |-> u.n, t |-> BuscaTipo(g, u.n)])],
    [loc |-> Nombres(lam.ps), caps |-> <<>>], NombresDe(lam.b)).caps

(* The captured values are put in a list whose id is fixed for the lambda. *)
CreaClausura(g, caps, lit, r) ==
  LET env == IF r = 1 THEN 2 ELSE 1
      lee(c) == LET v == Busca(g, c.n)
                IN <<I("LEER", 3, v.dir % 65536, IF v.rel THEN 1 ELSE 0), I("LISTA_AGREGAR", env, 3, 0)>>
  IN IF caps = <<>> THEN <<>>
     ELSE PonTodo(<<I("MOVERI", env, lit, 0), I("LISTA_CREAR", env, env, 0)>>
                  \o Por(caps, LAMBDA k : lee(caps[k])) \o <<I("CLOSURE_CREAR", r, r, env)>>)

(* The code of a lambda lies where it is written, jumped over. *)
VisitaLambda(g, e, r) ==
  LET entrada == Etiqueta(g, 1)
      salto == Etiqueta(g, 2)
      caps == Capturas(g, e)
      g1 == EmiteParchada(EtiquetasNuevas(g, 2), I("IR", 0, 0, 0), salto)
      g2 == EntraAlcance(MarcaEtiqueta(g1, entrada), TRUE)
      dentro == [g.ctx EXCEPT !.prof = @ + 1, !.fnClase = NADA, !.caps = caps, !.base = Len(g2.alc)]
      t == Tipo([g2 EXCEPT !.ctx = dentro], e.b)
      lit == g.lit + 1
  IN Luego([g2 EXCEPT !.ctx = [dentro EXCEPT !.ret = IF t = "funcion" THEN "entero" ELSE t],
                      !.lit = IF caps = <<>> THEN @ ELSE lit],
       <<AbreMarco>> \o [k \in DOMAIN e.ps |-> DeclaraParam(e.ps[k], k)]
       \o <<IF e.b.k = "bloque" THEN Bloque(e.b.ss) ELSE Expr(e.b, 1),
            CierraMarco, Pon(I("RETORNAR", 0, 0, 0)), Contexto(g.ctx), Sale, Marca(salto),
            Direccion(r, entrada)>>
       \o CreaClausura(g, caps, lit, r))

CampoImplicito(g, n) ==
  IF g.ctx.clase = NADA \/ ~Declarado(g, "este") THEN <<>> ELSE Campo(g, g.ctx.clase, n)

(* A name is, in this order, a captured variable, a variable, a field of the
   object of the method, a function. *)
VisitaVariable(g, e, r) ==
  IF Contenedor(g, e.n) THEN Luego(g, <<Pon(I("CLOSURE_CARGAR", r, Capturada(g, e.n) - 1, 0))>>)
  ELSE IF Declarado(g, e.n)
  THEN LET v == Busca(g, e.n)
       IN Luego(g, IF v.mac # <<>> THEN <<Pon(I("MOVERI", r, 0, 0))>> ELSE PonTodo(LeerVar(r, v)))
  ELSE IF CampoImplicito(g, e.n) # <<>>
  THEN Luego(g, PonTodo(LeerVar(254, Busca(g, "este"))
                  \o SumarU24(254, 254, CampoImplicito(g, e.n)[1].des) \o <<I("LEERR", r, 254, 0)>>))
  ELSE IF EsFuncion(g, e.n) /\ g.ctx.func THEN Luego(g, <<Direccion(r, Funcion(g, e.n).l)>>)
  ELSE Rechaza(g)

VisitaPosfijo(g, e, r) ==
  LET tmp == IF r = 254 THEN 253 ELSE 254 IN
  IF e.e.k # "var" \/ ~Declarado(g, e.e.n) THEN Rechaza(g)
  ELSE Luego(g, <<Expr(e.e, r),
                  Pon(I(IF e.d = 1 THEN "SUMARI" ELSE "RESTARI", tmp, r, 1))>>
                \o PonTodo(EscribirVar(Busca(g, e.e.n), tmp)))

VisitaUnaria(g, e, r) ==
  LET cero == IF r = 254 THEN 253 ELSE 254 IN
  Luego(g, <<Expr(e.e, r)>>
           \o CASE e.op = "no" -> <<Pon(I("NO", r, r, 0))>>
                [] e.op = "-" /\ Tipo(g, e.e) = "flotante" ->
                     PonTodo(<<I("MOVERI", cero, 0, 0), I("RESTAR_FLT", r, cero, r)>>)
                [] e.op = "-" /\ Tipo(g, e.e) # "flotante" -> <<Pon(I("NEGAR", r, r, 0))>>
                [] OTHER -> <<>>)

Textuales == {"texto", "concepto", "caracter", "elemento"}
ConvertiblesATexto == {"entero", "u32", "u64", "booleano", "flotante"}
EnTexto(t, r) ==
  CASE t = "caracter" -> <<Pon(I("STR_DESDE_CODIGO", r, r, 0))>>
    [] t \in ConvertiblesATexto -> <<Pon(I("STR_DESDE_NUMERO", r, r, IF t = "flotante" THEN 0 ELSE 1))>>
    [] OTHER -> <<>>

(* A concatenation keeps its left side in the frame. *)
VisitaConcatenacion(g, e, r) ==
  LET rd == IF r \in {1, 254} THEN 253 ELSE 254
      convierte(x, reg) == IF YaEsTexto(g, x) THEN <<>> ELSE EnTexto(Tipo(g, x), reg)
  IN Luego(g, <<Expr(e.i, r)>> \o Guarda(r) \o <<Expr(e.d, rd)>> \o Repone(r)
              \o convierte(e.i, r) \o convierte(e.d, rd) \o <<Pon(I("STR_CONCAT", r, r, rd))>>)

ABooleano(r) == PonTodo(<<I("CMP_EQI", r, r, 0), I("NO", r, r, 0)>>)

VisitaY(g, e, r) ==
  LET fin == Etiqueta(g, 1)
      tmp == IF r = 254 THEN 253 ELSE 254
  IN Luego(EtiquetasNuevas(g, 1),
           <<Expr(e.i, r), Pon(I("CMP_EQI", tmp, r, 0)), SiNoCero(tmp, fin), Expr(e.d, r), Marca(fin)>>
           \o ABooleano(r))

VisitaO(g, e, r) ==
  LET fin == Etiqueta(g, 1)
  IN Luego(EtiquetasNuevas(g, 1),
           <<Expr(e.i, r), SiNoCero(r, fin), Expr(e.d, r), Marca(fin)>> \o ABooleano(r))

Operaciones ==
  ("+" :> "SUMAR") @@ ("-" :> "RESTAR") @@ ("*" :> "MULTIPLICAR") @@ ("/" :> "DIVIDIR") @@
  ("%" :> "MODULO") @@ (">" :> "CMP_GT") @@ ("<" :> "CMP_LT") @@ ("==" :> "CMP_EQ") @@
  ("!=" :> "CMP_EQ") @@ ("<=" :> "CMP_LE") @@ (">=" :> "CMP_GE") @@ ("<<" :> "BIT_SHL") @@
  (">>" :> "BIT_SHR")

SinFlotante == {"%", "<<", ">>"}

(* With a flotante on one side, an entero on the other is converted. *)
EsFlotante(g, e) == "flotante" \in {Tipo(g, e.i), Tipo(g, e.d)}
AFlotante(g, x, r) == IF Tipo(g, x) = "entero" THEN <<Pon(I("CONV_I2F", r, r, 0))>> ELSE <<>>

Opera(g, e, r, rd) ==
  (IF EsFlotante(g, e)
   THEN AFlotante(g, e.i, r) \o AFlotante(g, e.d, rd)
        \o <<Pon(I(Operaciones[e.op] \o "_FLT", r, r, rd))>>
   ELSE <<Pon(I(Operaciones[e.op], r, r, rd))>>)
  \o IF e.op = "!=" THEN <<Pon(I("CMP_EQI", r, r, 0))>> ELSE <<>>

RegistroDerecho(r) == IF r + 1 > 250 THEN 250 ELSE r + 1

(* The side with a call goes first; the other waits in the frame. *)
VisitaAritmetica(g, e, r) ==
  LET rd == RegistroDerecho(r) IN
  Luego(g, (IF TieneLlamada(e.d) /\ ~TieneLlamada(e.i)
            THEN <<Expr(e.d, rd)>> \o Guarda(rd) \o <<Expr(e.i, r)>> \o Repone(rd)
            ELSE <<Expr(e.i, r)>> \o Guarda(r) \o <<Expr(e.d, rd)>> \o Repone(r))
           \o Opera(g, e, r, rd))

EntreCero(e) == e.op \in {"/", "%"} /\ e.d.k \in {"num", "car", "nulo"} /\ e.d.v = 0

VisitaBinaria(g, e, r) ==
  IF EntreCero(e) \/ (EsFlotante(g, e) /\ e.op \in SinFlotante) THEN Rechaza(g)
  ELSE IF e.op = "+" /\ {Tipo(g, e.i), Tipo(g, e.d)} \cap Textuales # {} THEN VisitaConcatenacion(g, e, r)
  ELSE IF e.op = "y" THEN VisitaY(g, e, r)
  ELSE IF e.op = "o" THEN VisitaO(g, e, r)
  ELSE VisitaAritmetica(g, e, r)

VisitaTernaria(g, e, r) ==
  LET sino == Etiqueta(g, 1)
      fin == Etiqueta(g, 2)
  IN Luego(EtiquetasNuevas(g, 2),
           <<Expr(e.c, 253), Pon(I("CMP_EQI", 254, 253, 0)), SiNoCero(254, sino),
             Expr(e.i, r), Ir(fin), Marca(sino), Expr(e.d, r), Marca(fin)>>)

VisitaIndice(g, e, r) ==
  LET ri == IF r = 1 THEN 2 ELSE 253
  IN Luego(g, <<Expr(e.b, r), Expr(e.i, ri),
                Pon(I(IF Tipo(g, e.b) = "mapa" THEN "MAPA_OBTENER" ELSE "LISTA_OBTENER", r, r, ri))>>)

(* Records inside lists and maps are maps themselves. *)
EnMapa(g, b) ==
  LET t == Tipo(g, b) IN
  \/ t = "mapa"
  \/ EsEstructura(g, t) /\ b.k = "idx"
  \/ EsEstructura(g, t) /\ b.k = "var" /\ BuscaTipo(g, b.n) = "mapa"

Medidas == {"medida", "tamano", "size"}

VisitaMiembro(g, e, r) ==
  LET rk == IF r = 254 THEN 253 ELSE 254
      d == DireccionMiembro(g, e, rk)
  IN IF Tipo(g, e.b) = "lista" /\ e.c \in Medidas
     THEN Luego(g, <<Expr(e.b, r), Pon(I("LISTA_TAMANO", r, r, 0))>>)
     ELSE IF EnMapa(g, e.b) /\ e.c \in Medidas
     THEN Luego(g, <<Expr(e.b, r), Pon(I("MAPA_TAMANO", r, r, 0))>>)
     ELSE IF EnMapa(g, e.b)
     THEN Luego(g, <<Expr(e.b, r)>> \o PonTodo(CargarTexto(rk, e.c)) \o <<Pon(I("MAPA_OBTENER", r, r, rk))>>)
     ELSE IF ~d.ok THEN Rechaza(g)
     ELSE Luego(g, PonTodo(d.is \o IF d.enReg THEN <<I("LEERR", r, rk, IF d.rel THEN 1 ELSE 0)>>
                                   ELSE LeerU24(r, d.dir, d.rel)))

VisitaMapa(g, e, r) ==
  Luego(g, <<Pon(I("MAPA_CREAR", r, 0, 0))>>
           \o Por(e.cs, LAMBDA k : <<Expr(e.cs[k][1], R_ELEMENTO)>> \o Guarda(R_ELEMENTO)
                    \o <<Expr(e.cs[k][2], R_VALOR)>> \o Repone(R_ELEMENTO)
                    \o <<Pon(I("MAPA_PONER", r, R_ELEMENTO, R_VALOR))>>))

(* A literal json is a text that is parsed when the program runs; only
   constants may be in it. *)
Letra(s, k) == SubSeq(s, k, k)
Escapada(c) ==
  CASE c = "\"" -> "\\\"" [] c = "\\" -> "\\\\" [] c = "\n" -> "\\n" [] c = "\t" -> "\\t" [] OTHER -> c
ContenidoJson(s) == FoldLeft(LAMBDA acc, k : acc \o Escapada(Letra(s, k)), "", [k \in 1..Len(s) |-> k])
TextoJson(s) == "\"" \o ContenidoJson(s) \o "\""
NumeroJson(v) == ToString(v \div 1000) \o IF v % 1000 = 0 THEN "" ELSE "." \o SubSeq(ToString(1000 + (v % 1000)), 2, 4)

Juntos(ss) == FoldLeft(LAMBDA acc, k : acc \o (IF k = 1 THEN "" ELSE ",") \o ss[k], "", [k \in DOMAIN ss |-> k])

RECURSIVE EsJson(_), ValorJson(_)
EsJson(e) ==
  \/ e.k \in {"txt", "con", "num", "flot", "car"}
  \/ e.k = "lista" /\ \A x \in ToSet(e.es) : EsJson(x)
  \/ e.k = "json" /\ \A c \in ToSet(e.cs) : EsJson(c[2])
ValorJson(e) ==
  CASE e.k \in {"txt", "con"} -> TextoJson(e.s)
    [] e.k = "car" -> TextoJson(LetraDe(e.v))
    [] e.k = "num" -> ToString(e.v)
    [] e.k = "flot" -> NumeroJson(e.v)
    [] e.k = "lista" -> "[" \o Juntos([k \in DOMAIN e.es |-> ValorJson(e.es[k])]) \o "]"
    [] e.k = "json" -> "{" \o Juntos([k \in DOMAIN e.cs |-> TextoJson(e.cs[k][1].s) \o ":" \o ValorJson(e.cs[k][2])]) \o "}"

VisitaJson(g, e, r) ==
  IF ~EsJson(e) THEN Rechaza(g)
  ELSE Luego(g, PonTodo(CargarTexto(1, ValorJson(e)))
         \o <<Pon([op |-> "SISTEMA", a |-> r, b |-> 0, c |-> 0, s |-> "JSON_PARSE", lee |-> <<[reg |-> TRUE, v |-> 1]>>])>>)

VisitaBloqueExpresion(g, e, r) == Luego(g, [k \in DOMAIN e.ss |-> Sent(e.ss[k])])
================================================================================
