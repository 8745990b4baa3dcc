------------------------------ MODULE MCCompilador ------------------------------
(***************************************************************************)
(* The compiler and the machine over the programs of MCEjemplos.           *)
(***************************************************************************)
EXTENDS Compilador

E == INSTANCE MCEjemplos

MCPrograma == E!Ejemplos
=================================================================================
