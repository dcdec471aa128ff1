----------------------------- MODULE EntryBody -----------------------------
(***************************************************************************)
(* The line buffer and the parsers look at the same characters.  The       *)
(* buffer counts braces line by line to decide where the body of an entry  *)
(* ends; the parsers look for the JSON in that body, with the scan of      *)
(* JsonExtract.                                                            *)
(***************************************************************************)
EXTENDS LineBuffer, JsonExtract

(* The body of the entry that begins with line i, if it ends with line j:  *)
(* its bracket header, and each further line behind a line break.          *)
BrokenBefore(line) == [line EXCEPT !.text = <<"other">> \o @]

BodyOf(in, i, j) ==
  LET broken == [k \in i + 1 .. j |-> BrokenBefore(in[k])]
  IN  (<<"[", "other", "]">> \o in[i].text) \o BodyText(broken, i, j)

(* What MTG Arena writes: no JSON on the line of a multi-line header, and  *)
(* no line break in the middle of an escape.  Its body begins with an      *)
(* object; of an array only the first element would be waited for.         *)
WrittenByArena(in, i) ==
  LET body  == BodyText(in, i, Extent(in, i))
      first == find(body, 1, {"{", "[", "quote"})
  IN  /\ find(in[i].text, 1, {"{", "["}) = 0
      /\ \A k \in i + 1 .. Extent(in, i) :
           LET text == in[k].text
           IN  text # <<>> => text[Len(text)] # "backslash"
      /\ first # 0 => body[first] = "{"

(* The two scans agree: an entry that is cut before the next header holds  *)
(* a whole JSON object, the one the parsers would find if everything up to *)
(* that header were in the body (entry.rs:239-259, api_common.rs:42-49).   *)
EntryHoldsItsJson ==
  \A k \in DOMAIN emitted :
    LET first == emitted[k].lines[1]
        last  == LastLine(emitted[k].lines)
        json  == extract_json_from_body(BodyOf(input, first, last))
        whole == BodyOf(input, first, Extent(input, first))
    IN  IsMultiLine(input[first]) /\ WrittenByArena(input, first) =>
          /\ json = extract_json_from_body(whole)
          /\ last # Extent(input, first) => json # <<>>
=============================================================================
