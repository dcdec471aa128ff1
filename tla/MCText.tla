------------------------------- MODULE MCText -------------------------------
(***************************************************************************)
(* The text of the log, in the three places that cut it up: the chunks of  *)
(* the WASM parser, the reads of the tailer, and the header lines whose    *)
(* timestamp the router reads.  A behaviour has one of them as subject.    *)
(***************************************************************************)
EXTENDS StreamingParser, Timestamps

CONSTANTS MaxBytes, ReadBufferCapacity

ASSUME BoundsAssumption ==
  /\ MaxText \in Nat /\ MaxChunk \in Nat
  /\ MaxBytes \in Nat /\ ReadBufferCapacity \in Nat \ {0}

VARIABLES
  subject,                                       \* "chunks", "reads" or "header"
  log, position, partial_line, flushed, polled,  \* of TailerText
  header                                         \* how the header line was written

readVars == <<log, position, partial_line, flushed, polled>>

Reads == INSTANCE TailerText WITH pushed <- polled

-----------------------------------------------------------------------------
(* Header lines: a date in one of the locales, a clock of 24 or 12 hours,  *)
(* or of 12 with AM and PM in another language, and what follows.          *)
Headers ==
  [sep : {"-", "/", "."}, order : {YearFirst, American, European},
   day : {1, 5, 13, 29, 31}, month : {2, 5, 12}, year : {2024, 2026}, hour : {0, 1, 11, 12, 13, 23},
   clock : {"24", "12", "localized"}, after : {"", ":", " Match", ": Match"}]

(* The days of 2024 and 2026 that there are, of those above.               *)
RealDate(h) == h.month = 2 => h.day <= IF h.year = 2024 THEN 29 ELSE 28

Locale(h) ==
  <<h.sep, h.order>> \in {<<"-", YearFirst>>, <<"/", YearFirst>>,
                          <<"/", American>>, <<"/", European>>, <<".", European>>}

Word(kind) == [kind |-> kind, punctuated |-> FALSE]

Written(h) ==
  LET value == [Y |-> h.year, m |-> h.month, d |-> h.day]
      date  == [kind |-> "date", punctuated |-> FALSE, sep |-> h.sep,
                parts |-> [i \in 1 .. 3 |-> value[h.order[i]]]]
      half  == IF h.hour < 12 THEN "AM" ELSE "PM"
      hour  == IF h.clock = "24" THEN h.hour
               ELSE IF h.hour % 12 = 0 THEN 12 ELSE h.hour % 12
      time  == [kind |-> "time", punctuated |-> FALSE, hour |-> hour]
      words == <<date, time>>
               \o (CASE h.clock = "24" -> <<>>
                     [] h.clock = "12" -> <<Word(half)>>
                     [] OTHER -> <<[Word("p") EXCEPT !.punctuated = TRUE],
                                   [Word("m") EXCEPT !.punctuated = TRUE]>>)
      ended == IF h.after \in {":", ": Match"}
               THEN [words EXCEPT ![Len(words)] = [@ EXCEPT !.punctuated = TRUE]]
               ELSE words
  IN  ended \o IF h.after \in {" Match", ": Match"}
               THEN <<Word("Match"), Word("to"), Word("player")>> ELSE <<>>

NoHeader == <<>>

TextInit ==
  /\ Init
  /\ Reads!Init
  /\ \/ subject \in {"chunks", "reads"} /\ header = NoHeader
     \/ subject = "header" /\ header \in {h \in Headers : Locale(h) /\ RealDate(h)}

NextChunk ==
  /\ subject = "chunks"
  /\ Next
  /\ UNCHANGED <<readVars, subject, header>>

NextRead ==
  /\ subject = "reads"
  /\ Reads!Next
  /\ UNCHANGED <<vars, subject, header>>

TextNext == NextChunk \/ NextRead

TextSpec == TextInit /\ [][TextNext]_<<subject, vars, readVars, header>>

-----------------------------------------------------------------------------
(* Wherever the reads of the tailer cut the bytes, its lines are those of  *)
(* the text, in their ASCII characters (tailer.rs:412-425).                *)
AsciiOfLinesSurvives == subject = "reads" => Reads!AsciiOfLinesSurvives

(* In every locale, with or without text and punctuation behind it, the    *)
(* time of a header line is the one that was written.  A European date     *)
(* with slashes and a day up to 12 is read as an American one, as          *)
(* timestamp.rs:101-106 says.  (AM and PM in another language are not      *)
(* known: the hours are then read on a clock of 24.)                       *)
TimeAsWritten ==
  subject = "header" =>
    LET said(month, day) == [year |-> header.year, month |-> month, day |-> day,
                             hour |-> IF header.clock = "localized"
                                      THEN Written(header)[2].hour ELSE header.hour]
        ambiguous == header.sep = "/" /\ header.order = European /\ header.day <= 12
    IN  extract_timestamp(Written(header)) =
          <<IF ambiguous THEN said(header.day, header.month)
                         ELSE said(header.month, header.day)>>
=============================================================================
