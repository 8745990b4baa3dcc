--------------------------------- MODULE Cadenas ---------------------------------
(***************************************************************************)
(* Operators on the characters of a text.                                  *)
(***************************************************************************)
EXTENDS Integers, Sequences, TLC

RECURSIVE Repite(_, _), SinDelante(_), SinDetras(_), Partes(_, _)
Repite(s, veces) == IF veces = 0 THEN "" ELSE s \o Repite(s, veces - 1)

Contiene(s, t) == \E p \in 0..Len(s) - Len(t) : SubSeq(s, p + 1, p + Len(t)) = t

(* The place of the first t in s, from 0; also 0 when there is none. *)
PosicionEn(s, t) ==
  IF ~Contiene(s, t) THEN 0
  ELSE CHOOSE p \in 0..Len(s) - Len(t) :
         /\ SubSeq(s, p + 1, p + Len(t)) = t
         /\ \A q \in 0..p - 1 : SubSeq(s, q + 1, q + Len(t)) # t
TerminaEn(s, t) == Len(t) <= Len(s) /\ SubSeq(s, Len(s) - Len(t) + 1, Len(s)) = t

Antes(s, t) == SubSeq(s, 1, PosicionEn(s, t))
Despues(s, t) == SubSeq(s, PosicionEn(s, t) + Len(t) + 1, Len(s))

(* Without the spaces around it. *)
SinDelante(s) == IF Len(s) > 0 /\ SubSeq(s, 1, 1) = " " THEN SinDelante(SubSeq(s, 2, Len(s))) ELSE s
SinDetras(s) ==
  IF Len(s) > 0 /\ SubSeq(s, Len(s), Len(s)) = " " THEN SinDetras(SubSeq(s, 1, Len(s) - 1)) ELSE s
Recorta(s) == SinDetras(SinDelante(s))

(* The pieces of s between the separators; the empty ones are dropped. *)
Partes(s, sep) ==
  LET entera == sep = "" \/ ~Contiene(s, sep)
      pieza == Recorta(IF entera THEN s ELSE Antes(s, sep))
  IN (IF pieza = "" THEN <<>> ELSE <<pieza>>)
     \o IF entera THEN <<>> ELSE Partes(Despues(s, sep), sep)

(* A text of decimal digits, and its number. *)
Digitos == "0123456789"
EsDigito(c) == c # "" /\ Contiene(Digitos, c)
EsDecimal(s) == Len(s) > 0 /\ \A k \in 1..Len(s) : EsDigito(SubSeq(s, k, k))
Decimal10(s) ==
  LET f[k \in 0..Len(s)] == IF k = 0 THEN 0 ELSE 10 * f[k - 1] + PosicionEn(Digitos, SubSeq(s, k, k))
  IN f[Len(s)]

(* The code of a character and the character of a code; after the first string
   comes 97. *)
SIMBOLOS == " !\"#$%&'(" \o ")*+,-./0123456789:;<=>?@ABCDEFGHIJKLMNOPQRSTUVWXYZ[\\]^_"
MINUSCULAS == "abcdefghijklmnopqrstuvwxyz{|}~"
CodigoDe(c) == IF Contiene(MINUSCULAS, c) THEN 97 + PosicionEn(MINUSCULAS, c) ELSE 32 + PosicionEn(SIMBOLOS, c)
LetraDe(v) ==
  CASE v \in 97..126 -> SubSeq(MINUSCULAS, v - 96, v - 96)
    [] v \in 32..95 -> SubSeq(SIMBOLOS, v - 31, v - 31)
    [] OTHER -> ""
================================================================================
