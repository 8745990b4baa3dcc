------------------------------- MODULE MCAnalizador -------------------------------
EXTENDS AnalizadorArchivo, MCFuentes

(***************************************************************************)
(* Sequences of up to three pieces                                         *)
(***************************************************************************)
SECUENCIAS == UNION {[1..n -> DOMAIN TROZOS] : n \in 1..3}
ENTERAS == UNION {[1..n -> 1..BUENOS] : n \in 1..3}

(* The i-th piece of a sequence, with the names of its own. *)
Propio(n, i) == n \o ToString(i)
Trozo(k, i) ==
  [j \in DOMAIN TROZOS[k] |->
     IF TROZOS[k][j] \in {"k", "R", "f", "g", "u"} THEN Propio(TROZOS[k][j], i) ELSE TROZOS[k][j]]

(***************************************************************************)
(* Expressions on four operands                                            *)
(***************************************************************************)
OPERADORES1 == {"o", "y", "==", "<", "+", "-", "*", "%"}
Expresion1(ops) ==
  <<"principal", "imprimir", "1", ops[1], "2", ops[2], "3", ops[3], "4", "fin_principal">>

MCFUENTES ==
  {[de |-> "casos", id |-> i, w |-> CASOS[i].w] : i \in DOMAIN CASOS}
  \cup {[de |-> "sueltas", id |-> i, w |-> SUELTAS[i]] : i \in DOMAIN SUELTAS}
  \cup {[de |-> "trozos", id |-> c, w |-> FlattenSeq([i \in DOMAIN c |-> Trozo(c[i], i)])] : c \in SECUENCIAS}
  \cup {[de |-> "expresiones", id |-> ops, w |-> Expresion1(ops)] : ops \in [1..3 -> OPERADORES1]}

Acabada(de) == fase \in FINALES /\ fuente.de = de

(***************************************************************************)
(* Properties                                                              *)
(***************************************************************************)
(* A sequence of pieces is a program if each is whole by itself or with the
   next: a registro that is closed by the piece after it, or a name and a name,
   which declare a variable of a type. *)
Entera(c) ==
  \A i \in DOMAIN c :
    LET antes == IF i > 1 THEN c[i - 1] ELSE 0
        luego == IF i < Len(c) THEN c[i + 1] ELSE 0
    IN \/ c[i] <= BUENOS
       \/ c[i] = 6 /\ luego = 10
       \/ c[i] = 10 /\ antes = 6
       \/ c[i] = 12 /\ (antes = 12) # (luego = 12)

(* Where the parser accepts or crashes on what is none: at a loose end of a
   statement it stops reading, and a registro that is not closed is dropped. *)
Descuidada(c) == \E i \in DOMAIN c : c[i] = 7 \/ (c[i] = 6 /\ i < Len(c) /\ c[i + 1] # 10)


(* A source made of whole definitions is accepted, and its tree has each of them
   once and in order. *)
DefinicionesCompletas ==
  Acabada("trozos") /\ fuente.id \in ENTERAS =>
    LET lugares(k) == SetToSortSeq({i \in DOMAIN fuente.id : fuente.id[i] = k}, <)
        son(k, ns, nodo(_)) == ns = [j \in DOMAIN lugares(k) |-> nodo(lugares(k)[j])]
    IN /\ fase = "aceptada"
       /\ son(1, arbol.glob, LAMBDA i : Dec("entero", Propio("k", i), N(1)))
       /\ son(2, arbol.cls, LAMBDA i : Regi(Propio("R", i), <<>>, <<Ca("x", "entero")>>, <<>>))
       /\ son(3, arbol.fun, LAMBDA i : Func(Propio("f", i), <<>>, "entero", <<>>))
       /\ son(4, arbol.main, LAMBDA i : Imp(V(Propio("k", i))))
       /\ son(5, arbol.usa, LAMBDA i : Usa(<<Propio("u", i)>>, "m"))

(* The grammar of the levels: an expression is cut at the last of its operators
   of the loosest level, and at a comparison only if it is the only one. *)
Laxitud(op) == CASE op = "o" -> 1 [] op = "y" -> 2 [] op \in {"==", "<"} -> 3
                 [] op \in {"+", "-"} -> 4 [] op \in {"*", "%"} -> 5
RECURSIVE PorNiveles(_, _, _)
PorNiveles(ops, i, j) ==
  LET nivel == CHOOSE n \in {Laxitud(ops[k]) : k \in i..j - 1} : \A k \in i..j - 1 : n <= Laxitud(ops[k])
      cortes == {k \in i..j - 1 : Laxitud(ops[k]) = nivel}
      k == CHOOSE x \in cortes : \A y \in cortes : y <= x
      izq == PorNiveles(ops, i, k)
      der == PorNiveles(ops, k + 1, j)
  IN IF i = j THEN <<N(i)>>
     ELSE IF (nivel = 3 /\ Cardinality(cortes) > 1) \/ izq = <<>> \/ der = <<>> THEN <<>>
     ELSE <<B(izq[1], ops[k], der[1])>>

(* An expression has the tree of the grammar, or is refused if it has none. *)
SegunNiveles ==
  Acabada("expresiones") =>
    LET e == PorNiveles(fuente.id, 1, 4)
    IN IF e = <<>> THEN fase = "rechazada" ELSE fase = "aceptada" /\ arbol.main = <<Imp(e[1])>>
=================================================================================
