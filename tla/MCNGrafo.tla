------------------------------ MODULE MCNGrafo ------------------------------
(* Instance of NGrafo: two types that are each other's, and a quality of one. *)
EXTENDS NGrafo

MCHechos == {<<"perro", "n_es_un", "animal">>, <<"animal", "n_es_un", "perro">>,
             <<"animal", "patas", "perro">>}

\* What strlen says of each.
MCLargo == [t \in Conceptos |-> CASE t = "n_es_un" -> 7 [] t = "animal" -> 6 [] OTHER -> 5]
=============================================================================
