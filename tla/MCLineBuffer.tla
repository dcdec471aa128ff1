--------------------------- MODULE MCLineBuffer ---------------------------
(***************************************************************************)
(* Lines for TLC: every way the classes of lines and of characters meet.   *)
(***************************************************************************)
EXTENDS EntryBody

L(kind, frames, text) == [kind |-> kind, frames |-> frames, text |-> text]

(* Headers of both classes, without, with one and with two frame prefixes; *)
(* the text of a header line opens a brace that must not count.            *)
HeaderLines ==
  {L("UnityDigit", 0, <<"{">>), L("UnityDigit", 1, <<>>),
   L("UnityDigit", 2, <<"}">>), L("UnityOther", 1, <<"{", "}">>),
   L("TruncationMarker", 0, <<>>)}

SegmentationLines ==
  HeaderLines \cup {L("Metadata", 0, <<>>), L("Text", 0, <<"{", "}">>),
                    L("Text", 1, <<"{">>), L("Text", 0, <<"}">>),
                    L("Text", 0, <<"other">>)}

(* Bodies with nested braces, strings and escapes split over lines.        *)
StringLines ==
  {L("UnityDigit", 0, <<>>), L("Text", 0, <<"{">>), L("Text", 0, <<"}">>),
   L("Text", 0, <<"quote">>), L("Text", 0, <<"{", "quote", "backslash">>),
   L("Text", 0, <<"quote", "}">>), L("Text", 0, <<"[", "backslash", "quote">>)}

AllLines == SegmentationLines \cup StringLines

(* To keep the runs small a behaviour takes its lines from one of the two  *)
(* sets, and fewer of the larger one.                                      *)
CONSTANT MaxSegmentation

OneSetOfLines ==
  LET used == {input[i] : i \in DOMAIN input} \ {FlushMark, ResetMark}
  IN  \/ used \subseteq StringLines
      \/ used \subseteq SegmentationLines /\ Len(input) <= MaxSegmentation
=============================================================================
