----------------------------- MODULE MCVmListas -----------------------------
(* Instance of VmListas for model checking: a list of the program, one of   *)
(* words, one of associates, the union of the first and the last, and the   *)
(* union of that with the first, whose id is that of the last.              *)
EXTENDS VmListas

Lista     == {3, 0}
Palabras  == {3, 0, 1}
Asociados == {3, 1}

SoloLista     == {Lista}
SoloPalabras  == {Palabras}
SoloAsociados == {Asociados}
DosUniones    == {<<Lista, Asociados>>, <<IdUnion(Lista, Asociados), Lista>>}
ClaveDeUnion  == {2}
=============================================================================
