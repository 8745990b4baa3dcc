\* Two records and two lists of up to two items; every cut of every image.
SPECIFICATION Spec
CONSTANTS
  Registros = {r1, r2}
  Listas = {l1, l2}
  MaxItems = 2
INVARIANTS
  TypeOK
  LimpioEsReleible
PROPERTIES
  GuardadoFiel
