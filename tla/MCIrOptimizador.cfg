\* Programs of up to five instructions.
SPECIFICATION Spec
CONSTANTS
  Instrucciones <- MCInstrucciones
  MaxIns = 5
  Byte = 16
  TamInst = 2
  Ancho = 5
  Entradas = {0, 1}
  MaxPasos = 12
INVARIANTS
  TypeOK
PROPERTIES
  FragmentoFiel
  NoTardaMas
CHECK_DEADLOCK FALSE
