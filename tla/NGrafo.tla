------------------------------- MODULE NGrafo -------------------------------
(* The triple store n_grafo (n_grafo_core.c): a vocabulary that numbers       *)
(* texts, an array of triples of those numbers, three indices over them, and  *)
(* the file they are read from and written to when the store is closed.       *)
(*                                                                           *)
(* Ids count from 1 in the order of the vocabulary, so id i is vocab[i] and   *)
(* next_id is Len(vocab) + 1.  On POSIX the triples of an opened file are not *)
(* copied: they stay in a private mapping of it (`mapeado`) until the first   *)
(* operation on them, so a vocabulary written over them first changes them:   *)
(* the bytes of a text then read as numbers of a triple, and the next file    *)
(* keeps those.  The Bloom filter and the list of recent entries are off, as  *)
(* n_abrir_grafo leaves them; weights are not read by any search.             *)
EXTENDS Integers, Bags, SequencesExt

CONSTANTS
  Conceptos,      \* normalised texts
  Hechos,         \* the triples of texts a program records and forgets
  Sueltos,        \* the texts a program asks an id for
  EsUn,           \* the text "n_es_un"
  HeredarMax,     \* N_HEREDAR_MAX: queue and visited set of n_heredar
  TiposMax,       \* types n_heredar takes of one concept (16)
  Largo,          \* text_len of each text
  Palabras,       \* what four bytes written over a triple may read as: any 32-bit word
  Bufer,          \* bytes in a stdio buffer
  MaxTriples      \* bound on the array of triples

ASSUME NGrafoAssumption ==
  /\ Hechos \subseteq Conceptos \X Conceptos \X Conceptos
  /\ Sueltos \subseteq Conceptos /\ EsUn \in Conceptos
  /\ Largo \in [Conceptos -> Nat] /\ Palabras \subseteq Nat
  /\ HeredarMax \in Nat \ {0} /\ TiposMax \in Nat /\ Bufer \in Nat \ {0} /\ MaxTriples \in Nat

VARIABLES
  vocab,     \* sequence of texts
  triples,   \* sequence of <<s, p, o>>
  sp, po, oi,  \* sp_index, po_index, o_index: a sequence of values by key
  dirty,
  mapeado,   \* the triples are still those of the mapped file
  sesion,    \* "abierta" or "cerrada"
  archivo    \* the file: vocabulary and triples

indices == <<sp, po, oi>>
vars    == <<vocab, triples, indices, dirty, mapeado, sesion, archivo>>

NGF_ID_NULO     == 0
NGF_HEADER_SIZE == 28
NGF_TRIPLE_SIZE == 13   \* three words and a weight, packed

Init ==
  /\ vocab = <<>> /\ triples = <<>>
  /\ sp = <<>> /\ po = <<>> /\ oi = <<>>
  /\ dirty = FALSE /\ mapeado = FALSE
  /\ sesion = "abierta"
  /\ archivo = [vocab |-> <<>>, triples |-> <<>>]

-----------------------------------------------------------------------------
(* Vocabulary and indices.                                                 *)

\* n_grafo_resolver_id
Id(v, texto) == IF Contains(v, texto) THEN CHOOSE i \in DOMAIN v : v[i] = texto ELSE NGF_ID_NULO

\* A text is numbered whenever it is met.
ConTextoSinBuscar(v, texto) == Append(v, texto)

\* n_obtener_id: a text that is new is numbered.
ConTexto(v, texto) == IF Contains(v, texto) THEN v ELSE Append(v, texto)
ConTextos(v, h)    == ConTexto(ConTexto(ConTexto(v, h[1]), h[2]), h[3])

Valores(indice, clave) == IF clave \in DOMAIN indice THEN indice[clave] ELSE <<>>

Agregado(indice, clave, valor) ==
  [k \in DOMAIN indice \cup {clave} |-> IF k = clave THEN Append(Valores(indice, k), valor) ELSE indice[k]]

\* Swap removal: the last element takes the place of the first match.
SinUno(s, x) ==
  IF Contains(s, x) THEN Front([s EXCEPT ![SelectInSeq(s, LAMBDA y : y = x)] = Last(s)]) ELSE s

Quitado(indice, clave, valor) ==
  [k \in DOMAIN indice |-> IF k = clave THEN SinUno(indice[k], valor) ELSE indice[k]]

\* n_grafo_indice_agregar and n_grafo_indice_quitar.
IndiceAgregar(t) ==
  /\ sp' = Agregado(sp, <<t[1], t[2]>>, t[3])
  /\ po' = Agregado(po, <<t[2], t[3]>>, t[1])
  /\ oi' = Agregado(oi, t[3], <<t[1], t[2]>>)

\* A removal that leaves the inverse index alone.
IndiceQuitarSinInverso(t) ==
  /\ sp' = Quitado(sp, <<t[1], t[2]>>, t[3])
  /\ po' = Quitado(po, <<t[2], t[3]>>, t[1])
  /\ oi' = oi

IndiceQuitar(t) ==
  /\ sp' = Quitado(sp, <<t[1], t[2]>>, t[3])
  /\ po' = Quitado(po, <<t[2], t[3]>>, t[1])
  /\ oi' = Quitado(oi, t[3], <<t[1], t[2]>>)

-----------------------------------------------------------------------------
(* Operations of an open store.                                            *)

Abierta == sesion = "abierta" /\ UNCHANGED <<sesion, archivo>>

\* n_obtener_id; also what is left of n_recordar when one of its texts is empty.
ObtenerId(texto) ==
  /\ Abierta
  /\ vocab' = ConTexto(vocab, texto)
  /\ dirty' = (dirty \/ vocab' # vocab)
  /\ UNCHANGED <<triples, indices, mapeado>>

\* n_recordar: the same triple may be recorded twice.
Recordar(h) ==
  /\ Abierta /\ Len(triples) < MaxTriples
  /\ vocab' = ConTextos(vocab, h)
  /\ LET t == <<Id(vocab', h[1]), Id(vocab', h[2]), Id(vocab', h[3])>>
     IN  triples' = Append(triples, t) /\ IndiceAgregar(t)
  /\ dirty' = TRUE /\ mapeado' = FALSE

\* A removal that does not ask for a save.
OlvidarSinMarcar(h) ==
  /\ Abierta
  /\ LET t == <<Id(vocab, h[1]), Id(vocab, h[2]), Id(vocab, h[3])>>
     IN  IF NGF_ID_NULO \notin ToSet(t) /\ Contains(triples, t)
         THEN triples' = SinUno(triples, t) /\ IndiceQuitar(t)
         ELSE UNCHANGED <<triples, indices>>
  /\ mapeado' = FALSE
  /\ UNCHANGED <<vocab, dirty>>

\* n_olvidar_triple: the triples leave the mapping even when nothing is found.
Olvidar(h) ==
  /\ Abierta
  /\ LET t == <<Id(vocab, h[1]), Id(vocab, h[2]), Id(vocab, h[3])>>
     IN  IF NGF_ID_NULO \notin ToSet(t) /\ Contains(triples, t)
         THEN triples' = SinUno(triples, t) /\ IndiceQuitar(t) /\ dirty' = TRUE
         ELSE UNCHANGED <<triples, indices, dirty>>
  /\ mapeado' = FALSE
  /\ UNCHANGED vocab

-----------------------------------------------------------------------------
(* Closing and opening.                                                    *)

\* n_grafo_triple_cmp_sp
Menor(a, b) ==
  \/ a[1] < b[1]
  \/ a[1] = b[1] /\ a[2] < b[2]
  \/ a[1] = b[1] /\ a[2] = b[2] /\ a[3] <= b[3]

\* Where the triples begin in a file with vocabulary v: each entry is an id, a hash,
\* a length and the text.
FinDelVocab(v) == FoldLeft(LAMBDA fin, texto : fin + 10 + Largo[texto], NGF_HEADER_SIZE, v)

\* Bytes that reached the file by the time n_grafo_guardar has written the header
\* and the vocabulary: whole buffers only.
Volcado == (FinDelVocab(vocab) \div Bufer) * Bufer

\* The words of mapped triples that begin in those bytes.
Reescritas ==
  {x \in (DOMAIN triples) \X (1 .. 3) :
    mapeado /\ FinDelVocab(archivo.vocab) + NGF_TRIPLE_SIZE * (x[1] - 1) + 4 * (x[2] - 1) < Volcado}

\* What n_grafo_desmapear_triples then copies: whether a private mapping shows a later
\* write, and of which pages, is for the system to say.
Palabra(w, i, k) == IF <<i, k>> \in DOMAIN w THEN w[<<i, k>>] ELSE triples[i][k]
Leidos ==
  {[i \in DOMAIN triples |-> <<Palabra(w, i, 1), Palabra(w, i, 2), Palabra(w, i, 3)>>] :
    w \in UNION {[R -> Palabras] : R \in SUBSET Reescritas}}

CerrarMemoria ==
  /\ sesion = "abierta" /\ sesion' = "cerrada"
  /\ vocab' = <<>> /\ triples' = <<>>
  /\ sp' = <<>> /\ po' = <<>> /\ oi' = <<>>
  /\ dirty' = FALSE /\ mapeado' = FALSE

\* What qsort may leave of s.
Ordenes(s) ==
  {[i \in DOMAIN s |-> s[p[i]]] : p \in {p \in Bijection(DOMAIN s, DOMAIN s) :
    \A i, j \in DOMAIN s : i < j => Menor(s[p[i]], s[p[j]])}}

\* n_grafo_guardar
Guardar(ts) ==
  /\ dirty
  /\ \E orden \in Ordenes(ts) : archivo' = [vocab |-> vocab, triples |-> orden]

\* n_cerrar_grafo
Cerrar ==
  /\ CerrarMemoria
  /\ \/ \E ts \in Leidos : Guardar(ts)
     \/ ~dirty /\ UNCHANGED archivo

\* The process ends without closing, or the file cannot be opened for writing.  A
\* death in the middle of a save is left out.
Perder == CerrarMemoria /\ UNCHANGED archivo

\* n_grafo_reconstruir_indices: the indices are filled in the order of the file.
Reconstruido(entradas) ==
  LET hasta[n \in 0 .. Len(entradas)] ==
        IF n = 0 THEN <<>> ELSE Agregado(hasta[n - 1], entradas[n][1], entradas[n][2])
  IN  hasta[Len(entradas)]

\* n_abrir_grafo, with the vocabulary loaded up to v.
AbrirCon(v) ==
  /\ sesion = "cerrada" /\ sesion' = "abierta"
  /\ vocab' = v /\ triples' = archivo.triples
  /\ LET ts == archivo.triples
     IN  /\ sp' = Reconstruido([i \in DOMAIN ts |-> <<<<ts[i][1], ts[i][2]>>, ts[i][3]>>])
         /\ po' = Reconstruido([i \in DOMAIN ts |-> <<<<ts[i][2], ts[i][3]>>, ts[i][1]>>])
         /\ oi' = Reconstruido([i \in DOMAIN ts |-> <<ts[i][3], <<ts[i][1], ts[i][2]>>>>])
  /\ dirty' = FALSE
  /\ mapeado' = (archivo.triples # <<>>)
  /\ UNCHANGED archivo

\* A loop over the vocabulary that leaves its last entry out.
AbrirSinUltimo == AbrirCon(SubSeq(archivo.vocab, 1, Len(archivo.vocab) - 1))

Abrir == AbrirCon(archivo.vocab)

Next ==
  \/ \E texto \in Sueltos : ObtenerId(texto)
  \/ \E h \in Hechos : Recordar(h) \/ Olvidar(h)
  \/ Cerrar \/ Perder \/ Abrir

Spec == Init /\ [][Next]_vars

-----------------------------------------------------------------------------
(* n_heredar.                                                              *)

\* n_grafo_buscar_objeto_ids: the first object of (s, p).
Objeto(s, p) ==
  LET v == Valores(sp, <<s, p>>) IN IF v = <<>> \/ NGF_ID_NULO \in {s, p} THEN NGF_ID_NULO ELSE v[1]

Tipos(c) ==
  LET es_un == Id(vocab, EsUn) v == Valores(sp, <<c, es_un>>)
  IN  IF es_un = NGF_ID_NULO THEN <<>> ELSE SubSeq(v, 1, IF Len(v) < TiposMax THEN Len(v) ELSE TiposMax)

\* A type joins the queue unless it was visited; it may already be waiting.
Encolar(st, c) ==
  IF Len(st.cola) < HeredarMax /\ c \notin st.visitado THEN [st EXCEPT !.cola = Append(@, c)] ELSE st

Encolados(st, tipos) ==
  LET tras[n \in 0 .. Len(tipos)] == IF n = 0 THEN st ELSE Encolar(tras[n - 1], tipos[n])
  IN  tras[Len(tipos)]

\* The loop that marks a concept when it is queued and skips it when it is taken.
VueltaMarcandoAlEncolar(p, st) ==
  IF st.fuera > Len(st.cola) \/ st.o # NGF_ID_NULO THEN st
  ELSE LET c    == st.cola[st.fuera]
           sig  == [st EXCEPT !.fuera = @ + 1]
           vist == [sig EXCEPT !.visitado = @ \cup {c} \cup ToSet(Tipos(c))]
       IN  IF c \in st.visitado THEN sig
           ELSE IF Objeto(c, p) # NGF_ID_NULO THEN [vist EXCEPT !.o = Objeto(c, p)]
           ELSE [vist EXCEPT !.cola = @ \o Tipos(c)]

\* One turn of the loop: the concept at `fuera` is taken from the queue.
Vuelta(p, st) ==
  IF st.fuera > Len(st.cola) \/ st.o # NGF_ID_NULO THEN st
  ELSE LET c    == st.cola[st.fuera]
           sig  == [st EXCEPT !.fuera = @ + 1]
           vist == [sig EXCEPT !.visitado = @ \cup {c}]
       IN  IF c \in st.visitado THEN sig
           ELSE IF Objeto(c, p) # NGF_ID_NULO THEN [vist EXCEPT !.o = Objeto(c, p)]
           ELSE Encolados(vist, Tipos(c))

\* Each turn takes one of the at most HeredarMax concepts of the queue.
Heredar(s, p) ==
  LET tras[n \in 0 .. HeredarMax] ==
        IF n = 0 THEN [cola |-> <<s>>, fuera |-> 1, visitado |-> {}, o |-> NGF_ID_NULO]
        ELSE Vuelta(p, tras[n - 1])
  IN  IF NGF_ID_NULO \in {s, p} THEN NGF_ID_NULO ELSE tras[HeredarMax].o

-----------------------------------------------------------------------------
(* Properties.                                                             *)

\* Every number a search may be asked for: the ids, and the words of the triples.
Ids == (0 .. Len(vocab)) \cup {t[k] : t \in ToSet(triples), k \in 1 .. 3}

Triple == Nat \X Nat \X Nat

\* Types: a triple is three numbers, and no text has two ids.
TypeOK ==
  /\ vocab \in Seq(Conceptos) /\ Cardinality(ToSet(vocab)) = Len(vocab)
  /\ triples \in Seq(Triple) /\ Len(triples) <= MaxTriples
  /\ archivo.vocab \in Seq(Conceptos)
  /\ archivo.triples \in Seq(Triple) /\ Len(archivo.triples) <= MaxTriples
  /\ dirty \in BOOLEAN /\ mapeado \in BOOLEAN /\ sesion \in {"abierta", "cerrada"}

\* How often t is in the array.
Veces(s, x) == Cardinality({i \in DOMAIN s : s[i] = x})

\* Each of the three indices answers with exactly the triples of the array, repeated
\* ones as often, after any additions, swap removals and reloads
\* (n_grafo_indice_agregar, n_grafo_indice_quitar, n_olvidar_triple).
IndicesExactos ==
  /\ \A s, p, o \in Ids :
       LET n == Veces(triples, <<s, p, o>>)
       IN  /\ Veces(Valores(sp, <<s, p>>), o) = n
           /\ Veces(Valores(po, <<p, o>>), s) = n
           /\ Veces(Valores(oi, o), <<s, p>>) = n

EnDisco(a) == a.vocab = vocab /\ ToBag(a.triples) = ToBag(triples)

\* A store that would be closed without a save holds what its file holds.
LimpioEsArchivo == sesion = "abierta" /\ ~dirty => EnDisco(archivo)

Prolonga(v, w) == \A i \in DOMAIN v : i \in DOMAIN w /\ w[i] = v[i]

\* An id that reached the file names the same text in every later file, whatever was
\* opened, numbered, saved or lost in between: the triples of the file hold only ids
\* (n_obtener_id, n_grafo_guardar, n_abrir_grafo).
IdsEstables == [][Prolonga(archivo.vocab, archivo'.vocab)]_vars

\* Sets of concepts that hold the types of their members, and the concepts whose answer
\* n_heredar's chain may give: those in each of the sets that has s.
DeTipo(t) == t[2] = Id(vocab, EsUn) /\ t[2] # NGF_ID_NULO
Cerrados  == {S \in SUBSET Ids : \A t \in ToSet(triples) : DeTipo(t) /\ t[1] \in S => t[3] \in S}
Antepasados(s) == {x \in Ids : \A S \in Cerrados : s \in S => x \in S}

\* The queue and the lists of types of n_heredar are not full, and no object reads as null.
SinLimites ==
  /\ Len(triples) < HeredarMax
  /\ \A c \in Ids : Len(Valores(sp, <<c, Id(vocab, EsUn)>>)) <= TiposMax
  /\ \A t \in ToSet(triples) : t[3] # NGF_ID_NULO

\* Then n_heredar finds an object exactly when some concept up the chain has one,
\* whatever its cycles, and whatever else was read over the triples.
HeredarCompleta ==
  SinLimites =>
    \A s \in Ids \ {NGF_ID_NULO} :
      LET suyos == Antepasados(s)
      IN  \A p \in Ids \ {NGF_ID_NULO} :
            Heredar(s, p) # NGF_ID_NULO <=>
              \E c \in suyos, o \in Ids \ {NGF_ID_NULO} : Contains(triples, <<c, p, o>>)
=============================================================================
