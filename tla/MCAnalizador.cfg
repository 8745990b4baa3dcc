CONSTANT
  FUENTES <- MCFUENTES
SPECIFICATION Spec
INVARIANTS  DefinicionesCompletas SegunNiveles
PROPERTIES ErrorNoSePierde Termina
