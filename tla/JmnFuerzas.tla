----------------------------- MODULE JmnFuerzas -----------------------------
(***************************************************************************)
(* The arithmetic of memoria_neuronal_conexiones.c on the strength of one  *)
(* connection.  Strengths count units coarser than the 0.01 of the code,   *)
(* Unidad of them being 1.0; products are rounded down to a unit.          *)
(***************************************************************************)
EXTENDS Integers

CONSTANT Unidad        \* 1.0

ASSUME UnidadAssumption == Unidad \in Nat \ {0}

MinF(a, b) == IF a < b THEN a ELSE b
MaxF(a, b) == IF a < b THEN b ELSE a

\* A non-positive threshold becomes 0.01, below one unit.
UmbralDeDecaer(u) == IF u <= 0 THEN 1 ELSE u

\* One pass of jmn_decaer_conexiones_global.
Pasada(v, factor, u) ==
  LET w == (v * (Unidad - MaxF(0, MinF(factor, Unidad)))) \div Unidad
  IN  IF v <= 0 THEN v ELSE IF w < UmbralDeDecaer(u) THEN 0 ELSE w

\* All passes, at least one and at most a hundred.
Decaida(v, factor, pasadas, u) ==
  LET f[n \in Nat] == IF n = 0 THEN v ELSE Pasada(f[n - 1], factor, u)
  IN  f[MaxF(1, MinF(pasadas, 100))]

\* jmn_olvidar_conexiones_debiles forgets what is not above the threshold.
Debil(v, u) == v <= MaxF(0, u)

\* jmn_consolidar_conexiones_supervivientes: a relative boost of 0 .. 2, capped at 1.0.
Consolidada(v, b) ==
  IF v <= 0 THEN v
  ELSE MinF(Unidad, (v * (Unidad + MaxF(0, MinF(b, 2 * Unidad)))) \div Unidad)

\* jmn_penalizar_asociacion leaves strengths up to 0.01 alone.
Penalizada(v, delta) == IF v > 0 THEN MaxF(0, v - delta) ELSE v

\* jmn_reforzar_concepto and jmn_penalizar_concepto.
ReforzadaPor(v, delta) == MinF(Unidad, v + delta)
PenalizadaPor(v, delta) == MaxF(0, v - delta)
=============================================================================
