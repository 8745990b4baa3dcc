\* Four files; up to two `usar`s in the entry and in a, one in b and c; one thing wrong.
SPECIFICATION Spec
CONSTANTS
  Archivos = {"P", "a", "b", "c"}
  Entrada = "P"
  Nombres <- NombresMC
  Discos <- DiscosMC
INVARIANTS
  TypeOK
  SinRepetir
  OrdenDeCarga
PROPERTIES
  ImplementaImportacion
  Termina
