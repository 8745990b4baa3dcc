-------------------------- MODULE MCIrOptimizador --------------------------
(* Instance of IrOptimizador: a few instructions of each kind, two registers  *)
(* beside r0, operands of four bits and words of five.                        *)
EXTENDS IrOptimizador

I(op, f, a, b, c) == [op |-> op, f |-> f, a |-> a, b |-> b, c |-> c]

\* Programs inside and outside the fragment.
MCInstrucciones ==
  { I("MOVER", {"B"}, 1, 9, 0), I("MOVER", {}, 2, 1, 0),
    I("SUMAR", {}, 1, 1, 1), I("SUMAR", {"C"}, 2, 1, 0), I("RESTAR", {}, 2, 1, 2),
    I("CMP_LT", {"C"}, 1, 2, 3), I("LEER", {"B", "R"}, 1, 0, 0), I("ESCRIBIR", {"A", "R"}, 0, 2, 0),
    I("SI", {"B"}, 1, 6, 0), I("IR", {"A"}, 4, 0, 0),
    I("RETORNAR", {}, 0, 0, 0) }

\* What a compiled program does first: load, print, stop.
MCImprime == {I("MOVER", {"B"}, 1, 9, 0), I("IMPRIMIR_NUMERO", {}, 1, 0, 0), I("HALT", {}, 0, 0, 0)}
=============================================================================
