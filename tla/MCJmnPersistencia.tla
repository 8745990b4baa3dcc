------------------------- MODULE MCJmnPersistencia -------------------------
(* Instance of JmnPersistencia for model checking.                         *)
EXTENDS JmnPersistencia
=============================================================================
