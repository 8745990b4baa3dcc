------------------------------ MODULE TablaSimbolos ------------------------------
(***************************************************************************)
(* The symbol table of the compiler (symbol_table.c): nested scopes with   *)
(* the offsets of their variables, and the registered classes and records  *)
(* with what they inherit.  A table is a record with the fields            *)
(*    alc  the scopes, outermost first, each a sequence of entries         *)
(*    loc  next_local_offset        glo  next_global_offset                *)
(*    cls  the registered structs, in the order of their registration      *)
(* and an operator takes a table and returns the table or the entry.       *)
(***************************************************************************)
EXTENDS Integers, Sequences, SequencesExt, TLC

CONSTANTS SCOPE_DEPTH_MAX,   \* scopes a table can hold
          Reservados         \* names no declaration may use

PALABRA == 8                 \* DEFAULT_SIZE: the bytes of a variable
NADA == "NULL"               \* a missing type name

(* is_reserved_identifier *)
EsReservado(n) == n \in Reservados

Entrada(n, tipo, elem, dir, rel, cte, mac) ==
  [n |-> n, tipo |-> tipo, elem |-> elem, dir |-> dir, rel |-> rel, cte |-> cte, mac |-> mac]

(* The global scope holds the result of the last memory operation. *)
TablaInicial ==
  [alc |-> <<<<Entrada("resultado", "elemento", NADA, 1048576, FALSE, FALSE, <<>>)>>>>,
   loc |-> 0, glo |-> 1048584, cls |-> <<>>]

EnAlcance(alcance, n) == {i \in DOMAIN alcance : alcance[i].n = n}

(* A scope that does not fit is not entered; leaving always drops one. *)
EntraAlcance(st, esFuncion) ==
  IF Len(st.alc) >= SCOPE_DEPTH_MAX THEN st
  ELSE [st EXCEPT !.alc = Append(@, <<>>), !.loc = IF esFuncion THEN 0 ELSE @]

SaleAlcanceConDos(st) == IF Len(st.alc) <= 2 THEN st ELSE [st EXCEPT !.alc = Front(@)]
SaleAlcance(st) == IF Len(st.alc) <= 1 THEN st ELSE [st EXCEPT !.alc = Front(@)]

EsGlobal(st) == Len(st.alc) = 1

DeclarableRepetido(st, n, permiteReservado) == permiteReservado \/ ~EsReservado(n)
Declarable(st, n, permiteReservado) ==
  /\ permiteReservado \/ ~EsReservado(n)
  /\ EnAlcance(Last(st.alc), n) = {}

Declara(st, n, tipo, tam, cte, elem, mac) ==
  LET e == Entrada(n, tipo, elem, IF EsGlobal(st) THEN st.glo ELSE st.loc,
                   ~EsGlobal(st), cte, mac)
      con == [st EXCEPT !.alc[Len(st.alc)] = Append(@, e)]
  IN IF EsGlobal(st) THEN [con EXCEPT !.glo = @ + tam] ELSE [con EXCEPT !.loc = @ + tam]

DeclaraMacro(st, n, lambda) == Declara(st, n, "macro", PALABRA, TRUE, NADA, <<lambda>>)

(* A temporary is relative to the frame even in the global scope. *)
ReservaTemporal(st) == [st EXCEPT !.loc = @ + PALABRA]

(* Depths of the scopes that declare n, from a given depth up. *)
Niveles(st, n, desde) == {p \in desde..Len(st.alc) : EnAlcance(st.alc[p], n) # {}}

Declarado(st, n) == Niveles(st, n, 1) # {}

Busca(st, n) ==
  LET p == CHOOSE p \in Niveles(st, n, 1) : \A q \in Niveles(st, n, 1) : q <= p
  IN st.alc[p][CHOOSE i \in EnAlcance(st.alc[p], n) : TRUE]

BuscaTipo(st, n) == IF Declarado(st, n) THEN Busca(st, n).tipo ELSE NADA

(* The innermost entry that is a list with an element type: an entry of the
   same name that is not a list is passed over. *)
BuscaElemento(st, n) ==
  LET listas == {p \in Niveles(st, n, 1) : \E i \in EnAlcance(st.alc[p], n) :
                   st.alc[p][i].tipo = "lista" /\ st.alc[p][i].elem # NADA}
      p == CHOOSE p \in listas : \A q \in listas : q <= p
  IN IF listas = {} THEN NADA
     ELSE st.alc[p][CHOOSE i \in EnAlcance(st.alc[p], n) : TRUE].elem

(***************************************************************************)
(* Classes and records                                                     *)
(***************************************************************************)
Clases(st, n) == {i \in DOMAIN st.cls : st.cls[i].n = n}
EsClaseORegistro(st, n) == Clases(st, n) # {}
Clase(st, n) == st.cls[CHOOSE i \in Clases(st, n) : \A j \in Clases(st, n) : i <= j]
Tamano(st, n) == IF EsClaseORegistro(st, n) THEN Clase(st, n).tam ELSE 0

TamanoCampo(st, tipo) == IF Tamano(st, tipo) > 0 THEN Tamano(st, tipo) ELSE PALABRA

(* Fields in order; an object starts with the id of its class. *)
ConDesplazamientos(st, campos, esClase) ==
  LET inicio == IF esClase THEN PALABRA ELSE 0
      hasta[i \in 0..Len(campos)] ==
        IF i = 0 THEN inicio ELSE hasta[i - 1] + TamanoCampo(st, campos[i].tipo)
  IN [campos |-> [i \in DOMAIN campos |-> [campos[i] EXCEPT !.des = hasta[i - 1]]],
      tam |-> hasta[Len(campos)]]

RegistraClase(st, n, bases, campos, metodos, esClase) ==
  LET d == ConDesplazamientos(st, campos, esClase)
  IN [st EXCEPT !.cls = Append(@, [n |-> n, bases |-> bases, campos |-> d.campos,
                                   mets |-> metodos, tam |-> d.tam, esClase |-> esClase])]

Nombres(s) == {s[i].n : i \in DOMAIN s}

(* Items of t whose names s does not have yet, the first of each name. *)
AgregaNuevos(s, t) ==
  FoldLeft(LAMBDA acc, e : IF e.n \in Nombres(acc) THEN acc ELSE Append(acc, e), s, t)

(* An own method takes the place of the inherited one. *)
Sobrescribe(s, t) ==
  FoldLeft(LAMBDA acc, e :
             IF e.n \in Nombres(acc)
             THEN [i \in DOMAIN acc |-> IF acc[i].n = e.n THEN e ELSE acc[i]]
             ELSE Append(acc, e), s, t)

BasesRegistradas(st, bases) == \A b \in DOMAIN bases : EsClaseORegistro(st, bases[b])

Heredado(st, bases, parte(_)) ==
  FoldLeft(LAMBDA acc, b : AgregaNuevos(acc, parte(Clase(st, b))), <<>>, bases)

CamposDuplicados(st, bases, campos) ==
  \E i \in DOMAIN campos :
    \/ campos[i].n \in Nombres(Heredado(st, bases, LAMBDA c : c.campos))
    \/ \E j \in 1..i-1 : campos[j].n = campos[i].n

Extensible(st, c) ==
  /\ BasesRegistradas(st, c.bases)
  /\ ~CamposDuplicados(st, c.bases, c.campos)

(* The table with c, or the table as it was when a base is missing or a field
   is repeated: the caller tries again after the others. *)
RegistraClaseQueExtiende(st, c) ==
  IF ~Extensible(st, c) THEN st
  ELSE RegistraClase(st, c.n, c.bases,
         Heredado(st, c.bases, LAMBDA b : b.campos) \o c.campos,
         Sobrescribe(Heredado(st, c.bases, LAMBDA b : b.mets), c.mets), c.esClase)

RECURSIVE EsSubclase(_, _, _)
EsSubclase(st, derivada, base) ==
  \/ derivada = base
  \/ /\ EsClaseORegistro(st, derivada)
     /\ \E b \in ToSet(Clase(st, derivada).bases) : EsSubclase(st, b, base)

(* A struct and those it extends, depth first. *)
RECURSIVE Linaje(_, _)
Linaje(st, n) ==
  <<n>> \o IF ~EsClaseORegistro(st, n) THEN <<>>
          ELSE LET bs == Clase(st, n).bases IN FlattenSeq([b \in DOMAIN bs |-> Linaje(st, bs[b])])

LinajeRegistrado(st, n) == SelectSeq(Linaje(st, n), LAMBDA c : EsClaseORegistro(st, c))
Primera(s) == IF s = <<>> THEN <<>> ELSE <<Head(s)>>
PrimeraDe(s, n) == Primera(SelectSeq(s, LAMBDA f : f.n = n))

(* The field or the method of a struct, its own first and then its bases', or
   nothing. *)
EnLinaje(st, cs, parte(_), n) == PrimeraDe(FlattenSeq([k \in DOMAIN cs |-> parte(Clase(st, cs[k]))]), n)
Campo(st, clase, n) == EnLinaje(st, LinajeRegistrado(st, clase), LAMBDA c : c.campos, n)
Metodo(st, clase, n) == EnLinaje(st, LinajeRegistrado(st, clase), LAMBDA c : c.mets, n)
================================================================================
