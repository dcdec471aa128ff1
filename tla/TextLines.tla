----------------------------- MODULE TextLines -----------------------------
(***************************************************************************)
(* Text cut into lines, in the two ways the parser does it: str::lines on  *)
(* a whole log, and the splitting of chunks at '\n' with the last piece    *)
(* held back.  "nl" and "cr" are '\n' and '\r'.                            *)
(* A byte is an ASCII character, '\r', '\n', or the first or second half   *)
(* of a wider character.                                                   *)
(***************************************************************************)
EXTENDS Naturals, FiniteSets, Sequences, SequencesExt

IsCompleted(text) == text # <<>> /\ text[Len(text)] = "nl"

(* str::lines: a line ends at '\n' or "\r\n", which belong to no line; the *)
(* last line need not end, and keeps a lone '\r'.                          *)
NewlinesBefore(text, i) == Cardinality({j \in 1 .. i - 1 : text[j] = "nl"})

LinePlaces(text, k) ==
  {i \in DOMAIN text :
     /\ NewlinesBefore(text, i) = k - 1
     /\ text[i] # "nl"
     /\ ~(text[i] = "cr" /\ i < Len(text) /\ text[i + 1] = "nl")}

LineCount(text) ==
  NewlinesBefore(text, Len(text) + 1)
    + (IF text = <<>> \/ IsCompleted(text) THEN 0 ELSE 1)

lines(text) ==
  [k \in 1 .. LineCount(text) |->
     LET places == LinePlaces(text, k)
         first  == CHOOSE i \in places : \A j \in places : i <= j
     IN  [n \in 1 .. Cardinality(places) |-> text[first + n - 1]]]

(* The lines a text completes, and what follows its last '\n'.             *)
CompletedLines(text) ==
  IF text = <<>> \/ IsCompleted(text) THEN lines(text)
                                      ELSE Front(lines(text))

Remainder(text) ==
  IF text = <<>> \/ IsCompleted(text) THEN <<>> ELSE Last(lines(text))

(* split('\n'): the pieces between the newlines, one more than those.      *)
Cut(pieces, c) ==
  IF c = "nl" THEN Append(pieces, <<>>)
              ELSE [pieces EXCEPT ![Len(pieces)] = Append(@, c)]

split(text) ==
  LET after[n \in 0 .. Len(text)] ==
        IF n = 0 THEN <<<<>>>> ELSE Cut(after[n - 1], text[n])
  IN  after[Len(text)]

(* String::from_utf8_lossy, byte by byte: a half without the other becomes *)
(* U+FFFD.                                                                 *)
Ascii == {"char", "cr", "nl"}
Byte == Ascii \cup {"lead", "trail"}

Decode(text, bytes, i) ==
  LET IsAt(half, j) == j \in DOMAIN bytes /\ bytes[j] = half
  IN  CASE bytes[i] \in Ascii -> Append(text, bytes[i])
        [] IsAt("lead", i) /\ IsAt("trail", i + 1) -> Append(text, "wide")
        [] IsAt("trail", i) /\ IsAt("lead", i - 1) -> text
        [] OTHER -> Append(text, "replacement")

from_utf8_lossy(bytes) ==
  LET after[n \in 0 .. Len(bytes)] ==
        IF n = 0 THEN <<>> ELSE Decode(after[n - 1], bytes, n)
  IN  after[Len(bytes)]

(* The ASCII characters of a text, all that the parsers look at.           *)
KeepAscii(kept, c) == IF c \in Ascii THEN Append(kept, c) ELSE kept

AsciiOf(text) ==
  LET kept[n \in 0 .. Len(text)] ==
        IF n = 0 THEN <<>> ELSE KeepAscii(kept[n - 1], text[n])
  IN  kept[Len(text)]

(* strip_suffix('\r')                                                      *)
StripCr(line) ==
  IF line # <<>> /\ Last(line) = "cr" THEN Front(line) ELSE line
=============================================================================
