---------------------------- MODULE JsonExtract ----------------------------
(***************************************************************************)
(* extract_json_from_body of parsers/api_common.rs: the first JSON object  *)
(* or array in the body of an entry.  A body is a sequence of characters,  *)
(* of which those that matter to the scan are told apart; an Option is a   *)
(* sequence of at most one value.                                          *)
(***************************************************************************)
EXTENDS Integers, Sequences

(* The first place from `from' on that holds one of the characters, or 0.  *)
find(body, from, characters) ==
  LET places == {i \in from .. Len(body) : body[i] \in characters}
  IN  IF places = {} THEN 0 ELSE CHOOSE i \in places : \A j \in places : i <= j

(* Past the bracket header, if the body begins with one.                   *)
search_start(body) ==
  IF body # <<>> /\ body[1] = "[" THEN find(body, 1, {"]"}) + 1 ELSE 1

(* One character; only brackets of the kind that opened the text count.    *)
Scan(state, ch, open, close) ==
  CASE state.escape_next -> [state EXCEPT !.escape_next = FALSE]
    [] ~state.escape_next /\ ch = "backslash" /\ state.in_string ->
         [state EXCEPT !.escape_next = TRUE]
    [] ~state.escape_next /\ ch = "quote" -> [state EXCEPT !.in_string = ~@]
    [] ~state.escape_next /\ ch = open /\ ~state.in_string ->
         [state EXCEPT !.depth = @ + 1]
    [] ~state.escape_next /\ ch = close /\ ~state.in_string ->
         [state EXCEPT !.depth = @ - 1]
    [] OTHER -> state

extract_json_from_body(body) ==
  LET start == find(body, search_start(body), {"{", "["})
      open  == body[start]
      after[i \in start - 1 .. Len(body)] ==
        IF i < start THEN [depth |-> 0, in_string |-> FALSE, escape_next |-> FALSE]
        ELSE Scan(after[i - 1], body[i], open, IF open = "{" THEN "}" ELSE "]")
      ends  == {i \in start .. Len(body) : after[i].depth = 0}
  IN  IF start = 0 \/ ends = {} THEN <<>>
      ELSE <<SubSeq(body, start, CHOOSE i \in ends : \A j \in ends : i <= j)>>
=============================================================================
