---------------------------- MODULE MCVmControl ----------------------------
(* Instance of VmControl: a main block and two functions whose frames      *)
(* differ, so that a frame restored for the wrong activation shows.        *)
EXTENDS VmControl

MCTamMarco == [f \in Funciones |-> IF f = "corta" THEN 0 ELSE IF f = "larga" THEN 2 ELSE 1]
=============================================================================
