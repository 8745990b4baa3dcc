# jasboot: specifications

TLA+ models of the jasboot SDK: the compiler from the words of a source to the code of a
program, the loader of its modules, the virtual machine that runs it, the associative
memory JMN that programs learn into, the triple store n_grafo, and the optimiser of IR
programs.
Each module names the code it translates; `PROJECT.json` maps every definition to
source lines, and lists the runs, the mutants every property must catch, the theorems,
and the hazards the properties were written for.

Contents: 1 inventory, 2 modules and their code, 3 runs, 4 proofs, 5 what the code
does against its documents, 6 other defects met, 7 limits, 8 not modelled.

## 1. Inventory

A `.jasb` file is read by the lexer and the parser (`lexer.c`, `parser.c`), the driver
merges into its tree what the modules it asks for with `usar` send (`main.c`), and the
generator (`codegen.c`, with `symbol_table.c`) emits an IR program, which may be optimised
(`optimizer_ir.c`) and is run by the VM (`vm.c`). The VM keeps two JMN memories:
`mem_colecciones`, in RAM, for lists, texts and maps of the program, and `mem_neuronal`,
a `.jmn` file that the program opens and closes. n_grafo is a second, independent store.
JPM installs packages. There are no threads: what is hard is the *protocol* between long
sequences of opcodes, between a memory and its file, between a table and the caches and
indices beside it, and between what a compiler emits in one place and counts on in another.

| Component | State | Operations | Hard parts | What makes it correct |
|---|---|---|---|---|
| Lexer and parser | tokens, position, pending and accumulated errors | one function per construct, recovery | an error must not be lost nor read for ever; cut definitions; precedence | the tree of the source, or a refusal; an end |
| Symbol table (`symbol_table.c`) | scopes, offsets, temporaries, classes | enter, leave, declare, look up, register, extend | offsets across scopes and inheritance | one place per variable; what is undeclared or repeated is refused |
| Generator (`codegen.c`) | code, labels, patches, frames, contexts | one visit per node | a value in a register while the rest is computed; frames sized after their body; collapsed loops | the program prints what it means |
| Driver (`main.c`) | stack and set of modules, merged program | read, merge, check, generate | circles and diamonds; a module that fails half way | each module once, after its own; or a refusal |
| VM control (`vm.c`) | pc, fp, sp, call stacks, closure environment, `try_stack`, `heap_top`, `memory_size` | LLAMAR, RETORNAR, RESERVAR_PILA, TRY_ENTER, TRY_LEAVE, LANZAR, invalid access, division by zero, HEAP_RESERVAR, HALT, the step limit | an error caught several calls up; early exits from `intentar`; the limits; two memory paths | the activation that goes on has its own frame and environment; a handler belongs to an open body; no offset passes the memory; a limited run ends |
| VM data (`vm.c`) | registers, memory, texts, lists, maps, closures | one opcode each | ids shared by two texts; sharing of lists | what a program prints |
| VM lists (`vm.c`) | lists of two memories, cache of sizes | crear, agregar, unir, limpiar, liberar, dividir, tamaño; mem_crear, mem_cerrar | one id in both memories; xor of ids; lists refilled by the VM | the cached size is that of the list that is read |
| JMN connections (`memoria_neuronal_conexiones.c`) | hash table of records, chain per origin bucket, counter | associate, reinforce, penalise, decay, forget, consolidate, sleep | two chains in one table; other slots after a load | a graph of weighted associations, one record per pair |
| JMN file and session (`_io.c`, `_core.c`) | memory, dirty flag, file | create, change, close, open | truncation before writing; death during a save; half loads | what was closed is there when opened |
| JMN nodes, texts, lists, maps | hash tables, id % 10000 | add, find, remove | full tables, aliased maps | lookups find what was put |
| JMN search and propagation | none | searches, BFS with bounded queue | bounds drop concepts | reachability up to the bounds |
| n_grafo store (`n_grafo_core.c`) | vocabulary, triples, three indices, dirty, mapped file | record, forget, id, inherit, open, close | swap removals, repeated triples, a save over a mapped file | indices answer the triples; the file holds the store |
| n_grafo shards, partitions, replica, cache | stores | route, copy | dangling primary, ignored failures | a query finds what was recorded |
| IR optimiser | code array | optimise | blocks without jump targets, 8-bit targets | same run before and after |
| IR format, validator, native backend | a program | read, write, check, print | | |
| JPM | installation directory, lock | install, remove, lock, versions | failures half way, dry run | a failed or simulated command changes nothing |
| Win32 bridge, runtime shim, editor extension, examples | | | | not part of the core |

The full list, with the files and the status of each part, is `components` in
`PROJECT.json`; the places where things can go wrong are `hazards`, each at its line.

## 2. Modules and their code

| Module | Role |
|---|---|
| `Lexemas` | what token each word of a source is (`lexer.c`, `keywords.c`) |
| `Nodos` | the nodes of the tree (`nodes.h`) |
| `Analizador` | the parser: expressions, statements, functions, records and classes (`parser.c`) |
| `AnalizadorArchivo` | a source read word by word and definition by definition (`parser_parse`) |
| `Unidades` | what the files of a program say, and when they can be read, merged and compiled |
| `Importacion` | abstract: what `usar` promises |
| `Modulos` | the driver and the loader of modules; `ImplementaImportacion` refines `Importacion` |
| `ModulosProofs` | what the loader keeps: types, nothing twice, the order; and that it implements `Importacion` |
| `TablaSimbolos` | scopes, offsets, classes (`symbol_table.c`) |
| `Generador` | emission, types, addresses and the visits of expressions (`codegen.c`) |
| `Colapsos` | the loops the compiler replaces by their result |
| `Incorporadas` | the calls of the language itself, as tables |
| `Llamadas` | calls of functions, methods, closures, macros, constructors |
| `Sentencias` | the visits of statements and blocks |
| `Programas` | classes, globals, functions and the main block (`codegen_generate`) |
| `Cadenas` | operators on the characters of texts |
| `Maquina` | the opcodes on data and the control of the VM, for programs (`vm_step`) |
| `Compilador` | the composition: a program compiled and then run |
| `VmControl` | control state of the VM, for every program |
| `VmControlProofs` | its theorems |
| `VmListas` | lists of the VM in two memories and the cache of their sizes |
| `VmListasProofs` | its theorem |
| `JmnFuerzas` | arithmetic on the strength of a connection |
| `JmnGrafo` | abstract: a graph of weighted associations with a saved copy |
| `JmnConexiones` | the connection table; `ImplementaGrafo` refines `JmnGrafo` |
| `JmnConexionesProofs` | its invariants |
| `JmnGrafoProofs` | that the table with its file implements `JmnGrafo` |
| `JmnPersistencia` | memory, save and load of the `.jmn` file, cut anywhere |
| `JmnPersistenciaProofs` | its theorems |
| `NGrafo` | the triple store, its indices, its file and `n_heredar` |
| `NGrafoProofs` | its theorems |
| `IrOptimizador` | `ir_optimize`, and the opcodes it touches as the VM runs them |
| `IrOptimizadorProofs` | its theorems |
| `MCFuentes`, `MCEjemplos` | sources, whether each is to be accepted, and their trees; programs with what they mean to print |
| `MCAnalizador`, `MCModulos`, `MCCompilador`, `MCVmControl`, `MCVmListas`, `MCJmnConexiones`, `MCJmnPersistencia`, `MCNGrafo`, `MCIrOptimizador` | instances for TLC |

**Lexemas, Analizador.** A source is the sequence of its words; `lexer_next` says which
token a word is, or that it cannot be read. A parser `p` is the tokens, the position, the
error not yet reported, whether one was reported (`mal`), and whether the process crashed
(`roto`): some sources make the compiler dereference a null name. Each parsing function of
`parser.c` is an operator of the same name that returns the parser afterwards and one node
or none; they call each other through `Analiza`. The nodes are those of `nodes.h`, and the
same ones the generator visits, with no step in between.

**AnalizadorArchivo.** One action is one turn of the loop over `lexer_next` (`LeeFicha`),
and then one turn of the loop of `parser_parse`, by the kind of definition it finds. After
an error the code skips to a word that may begin a statement (`parser_synchronize`), and
`Recupera`, `Suelto`, `Sigue` and `Deja` are the ways a turn may end. `vuelta` changes at
every turn, so that a turn that reads nothing is a step and going round for ever is visible
to `Termina`.

**Unidades, Modulos.** A file is the sequence of its pieces (`usar`, `enviar`, functions,
globals, records and classes), each with what the loader and the checks after it look at,
and its `principal`. The loader reads only the pieces before the first word the lexer
cannot read; the entry is refused if there is one. A frame of `pila` is an invocation of
`process_usar_module_recursive` (the entry is at the bottom), with the piece its loop is
at, the errors its own modules returned, and the names it was asked for. Each early return
is an action: already loaded, in a circle, no file, cannot be parsed. A module with errors
is dropped and told to its caller (`Descarta`), but the modules it loaded stay, and it
stays out of the loaded set, so that another file that asks for it reads it again. After
the loader come the steps of `do_compile` on the merged program, in its order: reserved
names, functions without `retornar`, `resolve_program` (calls and bases that name nothing),
and the generator.

**Importacion.** No stack and no order of search: the accepted program is the definitions
of the entry followed by what each needed module sends, in some order in which each comes
after those it needs; a program is refused only if a file cannot be read, a module needs
itself, a list of names is wrong or the merged program cannot be compiled. If a module is
asked for with several lists it is left open which one is looked at, because the code
looks at the first it meets.

**TablaSimbolos, Generador and the rest of the compiler.** A visit of the source is a
recursive function that emits instructions between the visits of its children. Here the
generator keeps what is left to do in `pend`: a visit replaces a node by the orders of its
body, in the same sequence: an instruction, a label, a child in a given register and
context. So one action of `Compilador` is one node, there is an action per kind, and every
intermediate state of the generator is a state. What a visit saves in a C local and
restores afterwards is in the context `ctx` of the orders. Built-in calls are tables
(`Incorporadas`): names, arity, registers of the arguments, instruction, place of the
result. `Colapso` tries the patterns of `visit_block` in the order of the code.

**Maquina, Compilador.** The code is then run one instruction at a time. `m` has the
registers, the words of memory, the frames, calls and handlers, texts, lists, maps and
closures, and what was printed. Opcodes on files, sockets, clocks and the neural memory are
one instruction, `SISTEMA`, that carries the registers it was given and answers nothing
(they are the part marked external). Each of the 88 programs of `MCEjemplos` has `espera`,
what it means to print, or that it is to be refused. There is no reference of the language
to take it from: it is what a reader computes by hand from the source, in the form that
`imprimir` gives each type (four decimals for a flotante, quotes around a text whose type the
compiler does not know). The programs stay inside what the compiler gets right (section 6),
and for each the compiler and the VM of the repository answered the same when they were
given its source.

**VmControl.** The program is whatever `codegen.c` can emit: each function begins with
OP_RESERVAR_PILA, a body of `intentar` is bracketed by OP_TRY_ENTER and OP_TRY_LEAVE,
and `retornar`, `romper`, `continuar` leave such a body without OP_TRY_LEAVE
(`SalirDeIntentar`). A code address is its function and whether the prologue ran;
addresses count 8-byte words. One opcode is one action and includes the loop's
bookkeeping (`Paso`). `SaltarAlManejador` is `vm_try_catch_or_abort`. `AccesoInvalido`
chooses between the slow path, where a handler takes the error, and the fast path of
LEER and ESCRIBIR, which ends the run. History variables, read by no action's guard but
those that say which body is innermost: `abiertos` (levels of the bodies open per
activation), `env_de` (environment each activation was entered with), `salio_antes`
(some body was left early).

**VmListas.** A list is its number of items and an id is the set of its 1 bits, so that
the id of a union is computed as the code does (xor with `0x12345678` and the high bit).
`desfasadas` is history: ids of lists some operation changed without the cache, or whose
memory it switched.

**JmnConexiones.** A record is a slot of `conexiones`; a chain is followed from
`cabeza_origen` through `next_origen`. Loops that insert or unlink slot by slot
(`jmn_olvidar_conexiones_debiles`, the load) are stepped, one slot per action, so the
invariants hold inside them too. `colgado` is the insertion into a full table, whose
search for a free slot never ends. The strength arithmetic is in `JmnFuerzas`, shared
with the abstract graph.

**JmnGrafo and the refinement.** The abstract graph has no slots, chains, counter or
dirty flag. `grafo` is mapped to `GrafoVisible`, the used slots by pair of concepts,
and `guardado` to the records of `archivo`. While the loop of forgetting
runs, `GrafoVisible` is the graph it will leave, so its first step is the abstract one and
the others stutter; in a load it is the graph of the file, so the open is one step too. A
close without a save is an abstract save because a clean table equals its file, which is
what the refinement establishes.

**JmnPersistencia.** A memory is a set of records (nodes, connections, texts) and a
table of lists with a number of items each; a file is the part of the image its header
announces that reached the disk. stdio keeps the order of the writes, so a death or a
full disk (`Cortar`) leaves a prefix. `Abrir` takes what `jmn_io_cargar` takes: version 1
with any records, version 2 only whole; a refused load leaves what it read in the
memory, dirty.

**NGrafo.** Id i is the text at position i of the vocabulary. `Cerrar` is
`n_grafo_guardar` in its order: header, vocabulary, then the copy out of the mapping,
then the sorted triples. Sizes are in bytes as in the file: `FinDelVocab` is where the
triples begin, `Volcado` what stdio has handed to the file when the copy is made, and
`Reescritas` the words of the mapped triples that begin in those bytes. Each of them may read
as before, or as any word of `Palabras`: whether a private mapping shows a later write to its
file is left to the system by the standards. `Heredar` is the loop, turn by turn.

**IrOptimizador.** `Emitir` builds every program over an alphabet of instructions and
`Optimizar` is the whole of `ir_optimize`: `AnalizarBloque` on each block (`Analizar`
forwards, one case per opcode; `Podar` backwards), then `Compactado` with the jumps moved,
or NOPs in place when one cannot be. `Efecto` is the main loop of the VM on the same
opcodes, and `Ejecutado` runs a program so that the properties can compare it with its
optimised form. `Fiable` is the fragment on which the optimiser is right, found by taking
away one by one the programs it changes: each conjunct of `SinExcepcion` and
`SaltaABloque` is a reason why it is wrong elsewhere. They are: opcodes outside its table
are neither uses nor definitions; NO is folded as a complement and executed as a negation;
COMPARAR is folded unsigned and executed signed; the high byte of a MOVER and of a target
is dropped; LEER into a known register leaves the old constant and a
definition of r0, which the VM ignores, is believed; the register RETORNAR returns is not
read; a false SI ends a block whose registers nobody is then taken to read; a division by zero is dead
code like any other; a relative SI counts from its end in the VM; a target inside a block
sees the constants of the path that falls into it; a program that runs off its end has its
jumps to the removed tail sent to its last instruction.

## 3. Runs

| Run | Configuration | Shows |
|---|---|---|
| `analizador` | `MCAnalizador.cfg` | verdicts and trees of 2513 sources; precedence; no error is lost; the parser ends |
| `modulos` | `MCModulos.cfg` | modules loaded once and in order; the loader implements what `usar` promises; it ends |
| `compilador` | `MCCompilador.cfg` | 88 programs print what they mean or are refused; frames, jumps and handlers; they end |
| `vm_control` | `MCVmControl.cfg` | types and limits, frames, handlers, environments, memory bounds, and that a limited run ends |
| `vm_intentar` | `MCVmIntentar.cfg` | violation: a handler stays registered after its body is left early |
| `vm_listas` | `MCVmListas.cfg` | the cache of sizes, where the code keeps it |
| `jmn_conexiones` | `MCJmnConexiones.cfg` | chains, one record per pair, counter |
| `jmn_fuerzas` | `MCJmnFuerzas.cfg` | the table with its file implements the abstract graph |
| `jmn_persistencia` | `MCJmnPersistencia.cfg` | a clean memory is its file; a finished save is the memory |
| `ngrafo` | `MCNGrafo.cfg` | indices, saved copy, ids that keep their text, inheritance |
| `ir_opt` | `MCIrOptimizador.cfg` | optimised programs of the fragment do the same, in no more steps |
| `ir_opt_semantica` | `MCIrSemantica.cfg` | violation: the load of a printed register is removed |

Bounds, all constants of the configurations or sizes of their sets:

- `analizador`: sources of three kinds. 96 sources that go through the branches of the
  grammar, each with its verdict and tree: they are programs of the language, or have an
  error that the parser names in its message. The sequences of up to three of twelve
  pieces, whole definitions (of which the tree is known by construction) and broken ones:
  which are programs is the rule `Entera`, and nothing is said of those in which the parser
  is known to lose a piece (`Descuidada`: a loose `fin_si`, a registro that is not closed).
  And all expressions on four operands with eight operators of five levels, against
  `PorNiveles`, a definition of the grammar that cuts an expression at its loosest operator.
  Three pieces are what an error needs: something read before it, the error, and something
  read after it. 21 more sources have no verdict (`SUELTAS`, those of section 6 that the
  compiler crashes on, takes for something else, or decides against what the repository
  says): they are read so that errors are kept, and the parser ends, there too.
- `modulos`: four files, 72 ways in which they ask for each other, with circles through
  the entry and below it, diamonds, and a module asked for twice; and in one file one of
  22 things: as it is, missing, refused by the parser, unreadable from its first word or
  after its first definition, a reserved name where it is merged and where it is not, a
  function with no `retornar`, a function, global or class that is not sent, named twice or
  used where it is not to be had, a `principal` that cannot be compiled, and wrong lists of
  names. Three modules are what a diamond needs. A second defect changes no path, as each
  is an error at once.
- `compilador`: 88 programs, between them every kind of node, the built-in calls of each
  table, and the errors the generator looks for. `SCOPE_DEPTH_MAX` 64, `MARCO_MAX` 2^20 and
  `MEMORIA` 2^21 as in the code; `INTENTOS_MAX` 16 and `LLAMADAS_MAX` 512 stand for 64 and
  10000; a program reaches the size of a frame, none reaches the other limits, which are
  the question of `vm_control`.
- `vm_control`: three call levels (`MaxRecursion` 2), two levels of `intentar`, three
  functions with different frames, two environments, memory for two or three frames
  with a heap that starts inside it. A caught error needs one activation that throws,
  one between and one that catches; a limit needs one step past it.
- `jmn_conexiones`: three slots, all four pairs of two concepts, whose origins share one
  bucket: a table that fills, chains of three with two origins in them, records that
  come back in other slots. The operations that only change strengths change no chain, and
  are left to `jmn_fuerzas`. `jmn_fuerzas`: two slots, two pairs, strengths -1 to 2
  halves of 1.0, two types, every operation that changes a strength. `Tope` bounds the
  accumulated strength in the guard of the action that adds.
- `jmn_persistencia`: two records and two lists of up to two items, every cut.
- `vm_listas`: one list of each kind (created, split, refilled), unions that give two
  more ids, one item per list: the number of memories and ids matters here, not items.
- `ngrafo`: four texts, three facts with a cycle of `n_es_un`, three triples with
  repetitions; a queue of 4 and 2 types in `n_heredar`. Entries of the vocabulary are 15 to
  17 bytes and triples 13, so that one new text reaches two triples; every byte is written
  through (`Bufer` 1), the worst case of any buffer; a word written over reads as 2, an id,
  or 9, none.
- `ir_opt`: all programs of up to five of eleven instructions, inside and outside the
  fragment, with operands of 4 bits and words of 5, so that 9 + 9 is a literal; two
  instruction bytes; frames whose first cell holds 0 or 1, so that both ways of a SI are
  run; 12 steps, more than the longest loopless run. Literals in the data section, a SI
  kept beside removed code and a moved jump all occur in programs of the fragment.

The actions of `Compilador` and `AnalizadorArchivo` are deterministic: what a run of
theirs explores is its programs and sources, not interleavings, as the code has none.

`CHECK_DEADLOCK FALSE` stands where the system stops: the VM after its run
(`MCVmControl.cfg`, `MCVmIntentar.cfg`), the connection table once an insertion hangs, and
the optimiser on a program it emptied, which `ir_optimize` refuses (-1). The compiler and
the loader stop by `Terminado`, so that the check for deadlock is on and shows that they
are never stuck before their end.

Fairness. `VmControl` states `WF_vars(Next)`: the loop of `vm_run_with_limit` goes on
executing while `running` is set, and `Termina` follows because `steps` grows on each
instruction of a limited run. `Modulos` states `WF_vars(Paso)`: the driver is one thread
and each step is code that runs to its end. `Compilador` and `AnalizadorArchivo` state the
same with ENABLED written out (`Justicia`: if it lives for ever it steps for ever), since
evaluating ENABLED would repeat each step of the generator. Their `Termina` says that no
source and no program of the runs makes the loops go round for ever; each has a mutant
that does. The other modules have no liveness property: nothing in the code obliges a
program to call the next operation.

Each property has a mutant, a change of one definition that the property must detect;
the mutated definition stands before the real one in its module (`RetornarSinLiberar`,
`DesenlazarSinPredecesor`, `ArgumentosSinGuardar`, `DescartaCallado`, ...).

## 4. Proofs

`theorems` in `PROJECT.json` lists the results; each is proved for every value of the
constants that satisfies the assumptions named here. Each module has an inductive
invariant, one lemma per action that says that it is kept, and the theorems as what it
implies. Induction over numbers is used in the form the prover can be given: a *set* of
naturals that holds 0 and every successor is all of them (`InduccionNatural`).

**`VmControlProofs`**, from `FuncionesAssumption`, `LimitesAssumption` and
`MemoriaAssumption` (frames no larger than the u24 operand, base of the stack below the
heap below the initial memory, below the limit):

- `TiposCorrectos`: `TypeOK` is inductive by itself. It holds the limits of the call
  stacks and of `try_stack`.
- `MemoriaSegura` and `PilaSinFugas`: `MemoriaAcotada` needs a strengthening, since a
  caught error restores `sp` from a handler and a return from a saved frame. `InvEspacio`
  adds to it `CotaPila` and `CotaGuardada`: every pointer saved anywhere is bounded by
  the depth it was saved at. They hold of every program, early exits included.
- `MarcosDevueltos`, `ManejadoresCorrectos`, `EntornosCorrectos`: the inductive
  invariant is `Ordenado`: frames tile the stack, the levels of `try_stack` are those of
  the bodies open in each activation in order of depth, and each activation has its own
  environment. Its conjuncts are conditioned by `Disciplina` (the run goes on and no
  body was left early), the condition under which the code keeps them; `vm_intentar`
  shows what happens outside it. `CadenaConservada` is the lemma shared by returns and
  caught errors: levels that are kept stay contiguous.

**`VmListasProofs`**, from `ListasAssumption`: `CacheSiempreExacta`. The cache is right
where the code keeps it, for every set of lists and unions and every key that makes the id
of a union. The invariant adds only that every table maps ids to sizes; the lemma that
carries the proof is `BastaLaTocada`: an operation that touches one list has to account for
that id alone, in whichever memory it is read.

**`JmnConexionesProofs`**, from `TablaAssumption` and `UnidadAssumption`, for tables and
chains of any length. `CadenasExactas`, `SinDuplicadas` and `ContadorExacto` need one
another and are proved together (`Inductiva`): the chain of a bucket is the set of its used
slots, in an order in which no record has two predecessors (`EsCadena`, `SinUniones`); two
used slots have different pairs; the counter is the number of used slots; and, while a file
is loaded, the table holds the pairs of the records read so far, of a file without
repetitions. `InsercionCorrecta` and `DesenlaceCorrecto` say that the two loops of the code
on a chain keep this, and each operation cites them: so does every slot of the loop of
forgetting and every record of a load. `SondeoTermina` is where a free slot is found.

**`JmnGrafoProofs`**: `TablaImplementaGrafo`, the refinement of `JmnGrafo`: each step of
the table is a step of the graph or none. Beyond `Inductiva` it needs `Sincronia`: a clean
table has the connections of its file, so that a close that writes nothing is a save, and a
half loaded one those of the records read. `GrafoVisible` chooses a slot for each pair; a
table without repetitions has only one graph (`GrafoUnico`), so that what the abstract
operation computes is compared pair by pair with the new table.

**`JmnPersistenciaProofs`**, from `PersistenciaAssumption`: `IInv` is `TypeOK`,
`Escribiendo` (a save in progress writes parts of the memory it started from) and
`LimpioEsReleible`. `TiposDeMemoria`, `LimpiaSinPerdida` and `GuardadoCompleto` follow.
`Escribiendo` is what carries the memory to the file over the many steps of a save.

**`NGrafoProofs`**, from `NGrafoAssumption`, for any vocabulary and number of triples.
The order of a bucket changes (a removal puts the last in the place of the removed one), so
what an index answers is stated by how often a value stands under a key (`Veces`):
`AgregadoVeces` and `QuitadoVeces` say what the two operations do to those numbers, and
`ReconstruidoVeces` what building an index from an array does. The inductive invariant
`IInv` is stronger than the properties in three ways. The indices are right for *every*
number (`Indexados`), not only for the ids of the vocabulary, so that a new id finds nothing
under it, and whatever words were read over a mapping are found like any other; a clean store
has the very triples of its file (`Limpio`), in the same order; and the vocabulary of an open
store goes on from that of its file (`Continua`), which an open, a save, a death and a
numbering each keep for a different reason. `TextosSiempreUnicos`, `IndicesSiempreExactos`,
`LimpioSiempreEsArchivo` and `IdsSiempreEstables` follow; `qsort` is taken by its contract,
an order of the same triples, and nothing is assumed of `Palabras` but that they are numbers.
`HeredarSiempreCompleta` follows the loop of `n_heredar` turn by turn (`Buena`): what was
taken from the queue is what was visited, every type of a visited concept is visited or
waits, and the queue holds one concept and at most one more for each triple that gave a
visited concept a type (`TriplesDe`, counted through the index by `MenosVeces`), so that it
never fills and never drops one. When the loop ends the visited concepts are closed under
types and hold the whole chain, whatever its cycles. It is about stores in which no object
reads as the null id, a conjunct of `SinLimites`: an overwritten mapping may leave one.

**`ModulosProofs`**, from `UnidadesAssumption` (the entry is a file, and what a file says is
a sequence of pieces), for any number of files that ask for each other in any way:

- `SinRepetirSiempre`: no module is read inside itself or merged twice. It is inductive with
  the types alone: a module is pushed only if it is in neither the stack nor the set, and
  moves from one to the other.
- `OrdenSiempre`: each module is merged after every module it asks for, and a program that
  passes the loader has them all. That is not inductive: when a module is merged, one must
  know that the modules of all its pieces are loaded, and when an invocation returns without
  errors, that it was the module its caller asked for. `Recorrido` (a frame without errors
  has loaded what it asked for up to its piece) and `Encadenados` (each frame waits for the
  module above it) are what the frames carry, and `Inductiva` proves them together. One
  lemma per kind of step (`EntraMantiene`, `DescartaMantiene`, `FundeMantiene`, ...) rests on
  `Adelantada` and `Quitada`, what the loop and a return do to the stack.

Then `CumpleLaPromesa`, the refinement of `Importacion`. The modules a
program needs are a least closed set (`Alcanzables`), so that what is in the stack is in it
by closure, and what is outside the loaded set is outside it by leastness. The invariant
`Cumple` adds to that of `ModulosProofs` what decides the verdict: every module in the stack
is needed and asked for with one of its lists (`Pedidas`), every error counted is a defect of
the program (`Fallos`), every loaded module can be read and was asked for with a valid list
(`Sanos`), the program so far is the entry followed by what the loaded modules send
(`Mezclados`), and it passed the checks before the present one (`Comprobado`). When the
loader ends without errors, what it loaded is an order of what is needed
(`CargadosEsOrden`): it is closed under asking, and a chain of requests goes down in it
(`AlcanzaPorCadena`), so no module needs itself. Then each check of the merged program is the
abstract refusal, the abstract acceptance or a stutter.

**`IrOptimizadorProofs`**, from `IrAssumption` (a word holds an operand, an operand holds
every result of COMPARAR), for every program, word width and step limit. What a
run can only try on programs of a few instructions is here stated of all of them:

- `IrTypeOK`: what the optimiser writes is code, operand by operand.
- `IrFragmentoFiel` and `IrNoTardaMas`: on a program of the fragment the optimised one shows
  the same on every input, ends whenever it did, and takes no more steps. The argument is in
  three parts. *The analysis*: forwards and backwards it is a function defined by recursion
  over the instructions, so `HayIteracion` and `Contando` (a set of numbers that holds 0 and
  what follows each of its members) say that it exists and what its turns keep.
  `ProgramaCertificado` is what it leaves of each instruction: what is known before and after
  it, which registers may still be read, and whether the instruction is as it was, was
  replaced by the constant it computes, or was removed because nobody reads it. *The
  compaction*: an instruction that stays goes to the place of as many as stay before it, and
  the targets with it. *The simulation*: a machine of the optimised program is `Juntas` with
  one of the program when it is at the place of the same instruction, has the same frame
  and the registers that are read, and has made no more steps; a removed instruction
  is a step of one and none of the other. `CorridasEmparejadas` follows the two runs step
  by step up to its end or the limit, and `OptimizadoFiel` reads the two properties off it.
  The conjuncts of `Fiable` are used where the optimiser would be wrong without them.

Only model-checked, and why:

- the properties named `Termina`: liveness is out of the prover's reach;
- `Compilador` and `AnalizadorArchivo`: visits and parses are recursive over trees and
  sources (`RECURSIVE` operators), and what a program prints is stated of each program.

## 5. What the code does against its documents

Quoted in full under `findings`.

- `vm_intentar` (`codegen.c:7480`): `romper` and `continuar` out of a body of `intentar` are
  a bare jump, so that its handler stays registered although `vm.c:3067` says that there is
  none when no `intentar` is active. The trace is one activation: its prologue, OP_TRY_ENTER
  and the jump.
- `ir_opt_semantica` (`optimizer_ir.c:344`): a register that only opcodes unknown to the
  optimiser read is dead to it, and its load is removed.

## 6. Other defects met

The models reproduce the code where these are inside it. The programs of the run
`compilador` stay clear of the values lost or wrong in compiled programs, which were seen with
the compiler and the VM; in the run `analizador` no verdict is asked of a source of the last
group.

A store that loses what it holds; `Leidos` of `NGrafo` is what the save reads then:

- a store of n_grafo whose vocabulary grew, and whose triples nothing touched, saves bytes of
  its vocabulary for triples (`n_grafo_core.c:391`: the vocabulary is written over the mapped
  file before the triples are copied out of it), although `n_grafo.h:42` says that closing
  keeps the changes.

Values lost or wrong in compiled programs:

- `doble(1 + 2 * 3)` prints 10: the registers of an argument are chosen so as not to collide
  (`codegen.c:8056`), and the right sides of its operators are all computed in register 250
  (5914);
- `aa.crece(bb.dame())` changes bb: a method call that is an expression evaluates its
  arguments before its object, for the reason that 6056 gives, and the same call as a
  statement does the opposite (7705);
- `entero be = fa > 1.0 y fa <= 9.0` is 0: the result is 0 or 1, as 5890 says, but its type
  is flotante (1749), and it is converted;
- a method called for its effect on a field of a field, `kk.dentro.crece(1)`, has none;
- a sum one of whose sides is a call of unknown type (a function in a variable, `bit_shl`) is
  the concatenation of two texts: `hf(4) + 1` and `bit_shl(1, 4) + bit_shr(17, 2)` print 0;
- a comparison of flotantes has the type flotante (1749): `imprimir` shows 0.0000 for both
  truth values;
- an entero given for a parameter flotante is not converted: `mas(2)` with `n + 1.0` prints
  1.0000; `x = x + f(..)` on a flotante adds the bits (7054-7078);
- `imprimir_sin_salto 'a'` and `"${c}"` of a caracter print its code;
- `ffi_llamar` drops the arguments after the fourth;
- a lambda sets `next_local_offset` back and does not restore it, so the variables that
  follow it in its function share its places (`codegen.c:5605-5731`);
- `continuar` in `para cada` jumps to the test and past the increment, for ever (7484);
- an assignment to an element keeps its three parts in registers 10 to 12 across calls
  (6777), and a constructor in a declaration its object in register 1 (6623);
- the collapsed walk over records prints 30 where the loop gives 400 (1153);
- `lista_mapear` and `lista_filtrar` give an empty list (4605);
- `vec_normalizar` divides by the square of the length (3178);
- `"x" + concatenar(a, b)` loses b (2851);
- a joined text has an id of its own and is not equal to the same text as a literal
  (`vm.c:5691`); a negative number inside a text or a list is 2^32 - n, and division and
  remainder are unsigned;
- `retornar padre.x()` returns nothing; a constant may be incremented;
- a global that is imported is initialised after the globals of the file that imports it,
  which may read it before (`main.c:1411`).

Sources that should be refused and are not, the other way round, or crash:

- a registro must end with `fin_registro` (`parser.c:5546`); one that meets `principal` before
  is dropped without an error (4925);
- the test `test_clase_extiende.jasb` has a class with a field of type funcion and is refused:
  `funcion` inside a class always begins a method (4899);
- after `llamar` only a call in parentheses is taken, and the message that says so gives an
  example without them, `llamar mi_funcion(1, 2)` (2308-2316);
- a word with which nothing begins ends the parse of the file without an error
  (`parser.c:5764`), and the body of a `clase` that is not closed before `principal` is
  dropped, as that of a `registro` is;
- `f(1 + )` is `f()`; what stands between `cuando x entonces` and its first `caso` is
  dropped; `no x == 5` is `(no x) == 5`; a `principal` that ends with the file after a type
  is accepted with nothing in it; `macro m` alone declares a variable m of type macro; the
  dot of `x.y(1).z` is dropped and z read as a statement; a lambda with a block that is
  called at once leaves no error of its own;
- a comma after `extiende` is taken for a class, and `registro A entero 0` declares a field
  called NULL; other numbers where a name is declared, and `usar {` at the end of the file,
  dereference a null name;
- a second `usar { ... }` of a module that is already loaded is not checked
  (`main.c:1190`); a module with an unreadable word is merged up to it (1226), while an
  entry with one is refused; a function defined in two modules is accepted and the first
  merged is called by all, also from inside the other module;
- a module's functions that are not sent are not merged (437), although the comment there
  says that bodies share the symbols that are not listed: a sent function that calls one is
  refused as unresolved.

## 7. Limits

Allocation failures are left out everywhere, except where the code answers them with a
limit. Float rounding is replaced by units rounded down (`JmnFuerzas`) or by thousandths
(`Maquina`). In `Maquina` integers have no width, two different texts never have one hash,
ids of texts are told apart only by being a hash or not, and two maps never meet modulo
10000. In `Lexemas` a source is its words: comments, blanks and texts in backquotes are
left out. In `Analizador` and the generator an error is that there is one, without its
wording, and the words that open a graphic interface are in no source. In `Unidades` the
fields of a record and macros are left out, paths are canonical, `--werror` is not given and
the output file can be written. In `VmControl`, data
opcodes change no control state and are one stuttering step; OP_HEAP_LIBERAR and the
ahead-of-time path are left out. In `JmnPersistencia` maps are lists and memories kept
only in RAM are left out. In `NGrafo` the Bloom filter and the list of recent entries,
off unless a program configures them, the weights, and a save cut half way are left out,
and a word that is only half written over reads as one of `Palabras`.
In `IrOptimizador` the third byte of a target is left out, data addresses count cells, and
the data section ends below the frames.

## 8. Not modelled

System calls (sockets, TLS, processes, files, console, dates), the native backend's text,
the formatter, the linter and the diagnostics are I/O or wording. The IR format and its
validator, JSON, versions and archives of packages are sequential conversions that tests
reach. The perception and activation rings are two arrays, each behind one opcode. The
package manager is unfinished: its download is a stub that always fails, and reading its
lock file yields no entries (`jpm_lock.c:169`); it deletes the previous installation before
it copies the new one, also in a dry run (`jpm_install.c:261`). The shards, partitions and
replica of n_grafo open, close and copy whole stores and run only if a program asks. The
text cache with its lazy concatenations and the memo of substrings are the part of the VM
where a model would add most: `Maquina` would need ids that are not the texts. After it, the
propagation of JMN and a save of n_grafo that is cut.
