-------------------------- MODULE MCJmnConexiones --------------------------
(* Instances of JmnConexiones for model checking.                          *)
EXTENDS JmnConexiones

\* cfg files have no negative numbers.
CambiosConSigno == {-1, 1}

TodosLosPares == Ids \X Ids
DosPares      == {<<1, 3>>, <<3, 1>>}
=============================================================================
