-------------------------------- MODULE Programas --------------------------------
(***************************************************************************)
(* A whole program through the code generator (codegen_generate): its      *)
(* classes are registered, its globals declared, and then come, in the     *)
(* code, the initialisers of the globals, the functions, the methods of    *)
(* every class and the main block.                                         *)
(*                                                                         *)
(* A program is [cls, glob, fun, main]: class and record definitions,      *)
(* declarations of globals, functions and the statements of principal.     *)
(***************************************************************************)
EXTENDS Sentencias

SinContexto ==
  [clase |-> NADA, fnClase |-> NADA, ret |-> "entero", prof |-> 0, func |-> FALSE, mEt |-> 0,
   mDest |-> 0, caps |-> <<>>, base |-> 1, bucles |-> <<>>]

NombresReservados(p) ==
  \/ \E c \in ToSet(p.cls) : \/ EsReservado(c.n) \/ \E b \in ToSet(c.bases) : EsReservado(b)
                             \/ \E n \in Nombres(c.campos) \cup Nombres(c.mets) : EsReservado(n)
  \/ \E f \in ToSet(p.fun) : EsReservado(f.n)

(***************************************************************************)
(* Types                                                                   *)
(***************************************************************************)
Flotantes(ns) == [k \in DOMAIN ns |-> [n |-> ns[k], tipo |-> "flotante", des |-> 0, priv |-> FALSE]]

ConVectores(st) ==
  LET t2 == RegistraClase(st, "vec2", <<>>, Flotantes(<<"x", "y">>), <<>>, FALSE)
      t3 == RegistraClase(t2, "vec3", <<>>, Flotantes(<<"x", "y", "z">>), <<>>, FALSE)
      t4 == RegistraClase(t3, "vec4", <<>>, Flotantes(<<"x", "y", "z", "w">>), <<>>, FALSE)
      celda(n) == Flotantes([k \in 1..n |-> "e" \o ToString(k - 1)])
  IN RegistraClase(RegistraClase(t4, "mat3", <<>>, celda(9), <<>>, FALSE), "mat4", <<>>, celda(16), <<>>, FALSE)

(* One pass over the definitions; a class waits for its bases. *)
Pasada(st, cls) ==
  FoldLeft(LAMBDA t, c : IF EsClaseORegistro(t, c.n) THEN t
                         ELSE IF c.bases = <<>> THEN RegistraClase(t, c.n, <<>>, c.campos, c.mets, c.esClase)
                         ELSE RegistraClaseQueExtiende(t, c), st, cls)

RECURSIVE RegistraTodas(_, _)
RegistraTodas(st, cls) ==
  LET t == Pasada(st, cls) IN IF Len(t.cls) = Len(st.cls) THEN st ELSE RegistraTodas(t, cls)

(***************************************************************************)
(* Globals                                                                 *)
(***************************************************************************)
DeclaraGlobal(g, s) ==
  IF g.err \/ ~Declarable(g, s.n, FALSE) THEN Rechaza(g)
  ELSE IF s.t = "macro" THEN DeclaraMacro(g, s.n, s.v[1])
  ELSE Declara(g, s.n, s.t, TamanoVariable(g, s.t), s.cte, s.el, <<>>)

Inicializadores(p) ==
  LET con == SelectSeq(p.glob, LAMBDA s : s.v # <<>> /\ s.t # "macro")
  IN [k \in DOMAIN con |-> [o |-> "inicial", s |-> con[k]]]

VisitaInicial(g, s) ==
  IF NoNumerico(s.t, Tipo(g, s.v[1])) THEN Rechaza(g)
  ELSE Luego(g, GuardaValor(g, Busca(g, s.n), s.t, s.v[1]))

(***************************************************************************)
(* Functions                                                               *)
(***************************************************************************)
RetornoDe(f) == IF f.ret = NADA THEN "entero" ELSE f.ret

(* Every class has the code of the methods it inherits compiled for it. *)
Metodos(g, p) ==
  FlattenSeq([c \in DOMAIN p.cls |->
    LET ms == Clase(g, p.cls[c].n).mets
    IN [m \in DOMAIN ms |-> [f |-> ms[m], clase |-> p.cls[c].n]]])

Cuerpos(g, p) == [k \in DOMAIN p.fun |-> [f |-> p.fun[k], clase |-> NADA]] \o Metodos(g, p)

VisitaFuncion(g, c, l) ==
  LET clase == c.clase
      dentro == [g.ctx EXCEPT !.clase = clase, !.fnClase = clase, !.ret = RetornoDe(c.f), !.prof = @ + 1]
      este == IF clase = NADA THEN <<>>
              ELSE <<DeclaraReservado([n |-> "este", t |-> clase, el |-> NADA], 1)>>
                   \o IF Clase(g, clase).bases = <<>> THEN <<>>
                      ELSE <<DeclaraReservado([n |-> "padre", t |-> Clase(g, clase).bases[1], el |-> NADA], 1)>>
      primero == IF clase = NADA THEN 0 ELSE 1
  IN <<Marca(l), Entra(TRUE), Contexto(dentro), AbreMarco>> \o este
     \o [k \in DOMAIN c.f.ps |-> DeclaraParam(c.f.ps[k], primero + k)]
     \o <<Bloque(c.f.b), CierraMarco, Pon(I("RETORNAR", 0, 0, 0)), Contexto(g.ctx), Sale>>

Principal(b) == <<Entra(TRUE), AbreMarco, Bloque(b), CierraPrincipal, Sale, Pon(I("HALT", 0, 0, 0))>>

(* The functions get their labels after the initialisers, that cannot call
   them, have been generated. *)
VisitaFunciones(g, p) ==
  LET cs == Cuerpos(g, p)
      l(k) == Etiqueta(g, k)
      principal == Etiqueta(g, Len(cs) + 1)
      nombre(c) == IF c.clase = NADA THEN c.f.n ELSE NombreMetodo(c.clase, c.f.n)
  IN Luego([EtiquetasNuevas(g, Len(cs) + 1) EXCEPT
              !.fun = [k \in DOMAIN cs |-> [n |-> nombre(cs[k]), ret |-> RetornoDe(cs[k].f), l |-> l(k)]]],
       (IF cs = <<>> THEN <<>> ELSE <<Ir(principal)>>)
       \o Por(cs, LAMBDA k : VisitaFuncion(g, cs[k], l(k)))
       \o <<Marca(principal)>> \o Principal(p.main))

(***************************************************************************)
(* The generator at the start of a program                                 *)
(***************************************************************************)
Limpio(st) ==
  [alc |-> st.alc, loc |-> st.loc, glo |-> st.glo, cls |-> st.cls, cod |-> <<>>, et |-> <<>>,
   par |-> <<>>, fun |-> <<>>, temps |-> <<>>, marcos |-> <<>>, anid |-> 0, lit |-> 0,
   ctx |-> SinContexto, err |-> FALSE, pend |-> <<>>]

Inicia(p) ==
  LET g == Limpio(RegistraTodas(ConVectores(TablaInicial), p.cls))
      falta == \E c \in ToSet(p.cls) : ~EsClaseORegistro(g, c.n)
  IN IF NombresReservados(p) \/ falta THEN Rechaza(g)
     ELSE [FoldLeft(DeclaraGlobal, g, p.glob) EXCEPT
             !.pend = IF @ = <<>> THEN Inicializadores(p) \o <<[o |-> "funciones", p |-> p]>> ELSE @]

(* Nothing is left to do: the jumps are patched, unless there were errors. *)
Termino(g) == g.pend = <<>> \/ g.err
Codigo(g) == IF g.err THEN <<>> ELSE ResuelveParches(g)
================================================================================
