\* A cycle of types, repeated triples, and a vocabulary that outgrows the buffer.
SPECIFICATION Spec
CONSTANTS
  Conceptos = {"perro", "animal", "n_es_un", "patas"}
  Hechos <- MCHechos
  Sueltos = {"patas"}
  EsUn = "n_es_un"
  HeredarMax = 4
  TiposMax = 2
  Largo <- MCLargo
  Palabras = {2, 9}
  Bufer = 1
  MaxTriples = 3
INVARIANTS
  TypeOK
  IndicesExactos
  LimpioEsArchivo
  HeredarCompleta
PROPERTIES
  IdsEstables
