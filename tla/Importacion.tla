----------------------------- MODULE Importacion ----------------------------
(* What `usar` promises, with no stack and no order of search: a program is  *)
(* the definitions of the entry followed by what each module it needs sends, *)
(* every module once and after the modules it needs itself; or it is refused.*)
(* When a module is asked for with several lists of names, which of them is  *)
(* looked at is left open.                                                   *)
EXTENDS Unidades

VARIABLES
  disco,
  veredicto,    \* "pendiente", "aceptado" or "rechazado"
  programa      \* its functions and globals, once it is accepted

vars == <<disco, veredicto, programa>>

Pedidos(a) == {a.piezas[k].de : k \in Usos(a)}

\* The modules reached from m by one `usar` or more: the least set with those m asks for
\* and those each of its readable modules asks for.
Cerrado(S) == \A x \in S : SeLee(disco[x]) => Pedidos(disco[x]) \subseteq S
Alcanzables(m) ==
  {x \in Archivos : \A S \in SUBSET Archivos : Pedidos(disco[m]) \subseteq S /\ Cerrado(S) => x \in S}

Necesarios == Alcanzables(Entrada)

\* Every module can be read, and none needs itself.
Completo == \A m \in Necesarios : SeLee(disco[m]) /\ m \notin Alcanzables(m)

\* The lists of names with which the program asks for m.
Listas(m) ==
  UNION {{disco[a].piezas[k].nombres : k \in {j \in Usos(disco[a]) : disco[a].piezas[j].de = m}} :
           a \in {Entrada} \cup Necesarios}

Validas(m) == {l \in Listas(m) : ListaValida(disco[m], l)}

\* The needed modules, each once and after those it needs.
Ordenes ==
  {s \in [1 .. Cardinality(Necesarios) -> Necesarios] :
     \A i, j \in DOMAIN s : (s[i] = s[j] => i = j) /\ (s[i] \in Alcanzables(s[j]) => i < j)}

ProgramaDe(s) ==
  LET f[i \in 0 .. Len(s)] == IF i = 0 THEN Propio(disco) ELSE Fundido(f[i - 1], disco, s[i])
  IN  f[Len(s)]

Init == disco \in [Archivos -> Archivo] /\ veredicto = "pendiente" /\ programa = NoHay

Acepta ==
  /\ veredicto = "pendiente" /\ veredicto' = "aceptado"
  /\ EntradaSeLee(disco) /\ Completo
  /\ \A m \in Necesarios : Validas(m) # {}
  /\ \E s \in Ordenes : Compilable(ProgramaDe(s)) /\ programa' = ProgramaDe(s)
  /\ UNCHANGED disco

Rechaza ==
  /\ veredicto = "pendiente" /\ veredicto' = "rechazado"
  /\ \/ ~ EntradaSeLee(disco)
     \/ ~ Completo
     \/ \E m \in Necesarios : Validas(m) # Listas(m)
     \/ \E s \in Ordenes : ~ Compilable(ProgramaDe(s))
  /\ UNCHANGED <<disco, programa>>

Next == Acepta \/ Rechaza

Spec == Init /\ [][Next]_vars
=============================================================================
