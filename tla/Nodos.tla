---------------------------------- MODULE Nodos ----------------------------------
(***************************************************************************)
(* The nodes of the syntax tree of a program.                              *)
(***************************************************************************)
EXTENDS Integers, Sequences

(* A child that is missing (NULL). *)
Nada == [k |-> "nada"]

(* Expressions *)
N(v) == [k |-> "num", v |-> v]
F(v) == [k |-> "flot", v |-> v]
T(s) == [k |-> "txt", s |-> s]
Con(s) == [k |-> "con", s |-> s]
Car(v) == [k |-> "car", v |-> v]
Nul == [k |-> "nulo", v |-> 0]
Tr(s) == [k |-> "trozo", s |-> s]
Inter(ps) == [k |-> "interp", ps |-> ps, raw |-> ""]
V(n) == [k |-> "var", n |-> n]
B(i, op, d) == [k |-> "bin", op |-> op, i |-> i, d |-> d]
U(op, e) == [k |-> "un", op |-> op, e |-> e]
Ter(c, i, d) == [k |-> "ter", c |-> c, i |-> i, d |-> d]
Ll(n, as) == [k |-> "llam", n |-> n, as |-> as]
Met(b, m, as) == [k |-> "met", b |-> b, m |-> m, as |-> as]
Ic(f, as) == [k |-> "icall", f |-> f, as |-> as]
Li(es) == [k |-> "lista", es |-> es]
Ma(cs) == [k |-> "mapa", cs |-> cs]
Js(cs) == [k |-> "json", cs |-> cs]
Ix(b, i) == [k |-> "idx", b |-> b, i |-> i]
Mi(b, c) == [k |-> "miem", b |-> b, c |-> c]
Po(e, d) == [k |-> "post", e |-> e, d |-> d]
P(n, t) == [n |-> n, t |-> t, el |-> "NULL"]
PL(n, t, el) == [n |-> n, t |-> t, el |-> el]
Lam(ps, b) == [k |-> "lam", ps |-> ps, b |-> b]
Bl(ss) == [k |-> "bloque", ss |-> ss]
Entra(ya) == [k |-> "entrada", ya |-> ya]
Entra1 == Entra(FALSE)

(* Statements *)
Decla(t, el, n, v, cte) == [k |-> "decl", n |-> n, t |-> t, el |-> el, v |-> v, cte |-> cte]
Dec(t, n, e) == Decla(t, "NULL", n, <<e>>, FALSE)
Dec0(t, n) == Decla(t, "NULL", n, <<>>, FALSE)
DecL(t, el, n, e) == Decla(t, el, n, <<e>>, FALSE)
Cte(t, n, e) == Decla(t, "NULL", n, <<e>>, TRUE)
Imp(e) == [k |-> "imp", e |-> e]
As(n, e) == [k |-> "asig", n |-> n, v |-> e]
AsM(d, e) == [k |-> "asigMiem", d |-> d, v |-> e]
AsI(b, i, v) == [k |-> "asigIdx", b |-> b, i |-> i, v |-> v]
Si(c, si, no) == [k |-> "si", c |-> c, si |-> si, no |-> no]
Mien(c, b) == [k |-> "mien", c |-> c, b |-> b]
Hac(b, c) == [k |-> "hacer", c |-> c, b |-> b]
Para(ini, c, paso, b) == [k |-> "para", ini |-> ini, c |-> c, paso |-> paso, b |-> b]
Cada(t, n, e, b) == [k |-> "cada", n |-> n, t |-> t, e |-> e, b |-> b]
Caso(vs, b) == [vs |-> vs, b |-> b]
Eleg(e, cs, no) == [k |-> "elegir", e |-> e, cs |-> cs, no |-> no]
(* at and fin: no block, or one. *)
Intenta(b, var, at, fin) == [k |-> "intentar", b |-> b, vn |-> var, at |-> at, fin |-> fin]
Lanza(e) == [k |-> "lanzar", e |-> e]
Rompe == [k |-> "romper"]
Sigue1 == [k |-> "seguir"]
Ret(v) == [k |-> "ret", v |-> v]
Lee(n, ya) == [k |-> "leer", n |-> n, ya |-> ya]
Lee1(n) == Lee(n, FALSE)
Ex(e) == [k |-> "expr", e |-> e]
Conc(que, as) == [k |-> "concepto", que |-> que, as |-> as]
Tex(que, e, n) == [k |-> "texto", que |-> que, e |-> e, n |-> n]
Mem(que, as) == [k |-> "memoria", que |-> que, as |-> as]
Resp(e) == [k |-> "responder", e |-> e]

(* Definitions *)
Ca(n, t) == [n |-> n, tipo |-> t, des |-> 0, priv |-> FALSE]
CaPriv(n, t) == [Ca(n, t) EXCEPT !.priv = TRUE]
Func(n, ps, ret, b) == [n |-> n, ps |-> ps, ret |-> ret, b |-> b, priv |-> FALSE]
MetPriv(n, ps, ret, b) == [Func(n, ps, ret, b) EXCEPT !.priv = TRUE]
Clas(n, bases, cs, ms) == [n |-> n, bases |-> bases, campos |-> cs, mets |-> ms, esClase |-> TRUE]
Regi(n, bases, cs, ms) == [Clas(n, bases, cs, ms) EXCEPT !.esClase = FALSE]
==================================================================================
