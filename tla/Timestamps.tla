----------------------------- MODULE Timestamps -----------------------------
(***************************************************************************)
(* The timestamp on the header line of an entry: extract_timestamp of      *)
(* router.rs and parse_log_timestamp of log/timestamp.rs.  A word of the   *)
(* line is a date (a separator and three numbers), a time, AM or PM, or    *)
(* something else, and may end with punctuation; minutes and seconds are   *)
(* left out.                                                               *)
(***************************************************************************)
EXTENDS Integers, Sequences, FiniteSetsExt

Format(sep, order, clock) == [sep |-> sep, order |-> order, clock |-> clock]

YearFirst == <<"Y", "m", "d">>
American  == <<"m", "d", "Y">>
European  == <<"d", "m", "Y">>

(* Mutant: European dates are tried before American ones.                  *)
EuropeanFirst ==
  <<Format("-", YearFirst, 24), Format("-", YearFirst, 12),
    Format("/", YearFirst, 24), Format("/", YearFirst, 12),
    Format("/", European, 24), Format("/", European, 12),
    Format("/", American, 24), Format("/", American, 12),
    Format(".", European, 24), Format(".", European, 12)>>

(* The formats of more than one word; the last one, ISO 8601 with a `T',   *)
(* is a single word.                                                       *)
LOCALE_FORMATS ==
  <<Format("-", YearFirst, 24), Format("-", YearFirst, 12),
    Format("/", YearFirst, 24), Format("/", YearFirst, 12),
    Format("/", American, 24), Format("/", American, 12),
    Format("/", European, 24), Format("/", European, 12),
    Format(".", European, 24), Format(".", European, 12)>>

FieldRange == [Y |-> 0 .. 9999, m |-> 1 .. 12, d |-> 1 .. 31]
HourRange(clock) == IF clock = 24 THEN 0 .. 23 ELSE 1 .. 12

Field(date, format, name) ==
  date.parts[CHOOSE i \in 1 .. 3 : format.order[i] = name]

DaysIn(year, month) ==
  IF month = 2
  THEN IF year % 4 = 0 /\ (year % 100 # 0 \/ year % 400 = 0) THEN 29 ELSE 28
  ELSE IF month \in {4, 6, 9, 11} THEN 30 ELSE 31

(* NaiveDateTime::parse_from_str: the whole text has the format, and the   *)
(* month has the day.                                                      *)
HasFormat(words, format) ==
  /\ Len(words) = IF format.clock = 24 THEN 2 ELSE 3
  /\ \A i \in DOMAIN words : ~words[i].punctuated
  /\ words[1].kind = "date" /\ words[1].sep = format.sep
  /\ \A i \in 1 .. 3 : words[1].parts[i] \in FieldRange[format.order[i]]
  /\ Field(words[1], format, "d") <= DaysIn(Field(words[1], format, "Y"),
                                            Field(words[1], format, "m"))
  /\ words[2].kind = "time" /\ words[2].hour \in HourRange(format.clock)
  /\ format.clock = 12 => words[3].kind \in {"AM", "PM"}

(* An Option is a sequence of at most one value.                           *)
parse_log_timestamp(words) ==
  LET fitting == {i \in DOMAIN LOCALE_FORMATS : HasFormat(words, LOCALE_FORMATS[i])}
      format  == LOCALE_FORMATS[Min(fitting)]
      hour    == words[2].hour
  IN  IF fitting = {} THEN <<>>
      ELSE <<[year  |-> Field(words[1], format, "Y"),
              month |-> Field(words[1], format, "m"),
              day   |-> Field(words[1], format, "d"),
              hour  |-> IF format.clock = 24 THEN hour
                        ELSE (hour % 12) + (IF words[3].kind = "PM" THEN 12 ELSE 0)]>>

(* The first words, without the punctuation behind the last of them.       *)
Candidate(words, end) ==
  [SubSeq(words, 1, end) EXCEPT ![end] = [@ EXCEPT !.punctuated = FALSE]]

(* The longest of the candidates of 4, 3 and 2 words that is a timestamp.  *)
extract_timestamp(words) ==
  LET ends == {end \in 2 .. Len(words) :
                 end <= 4 /\ parse_log_timestamp(Candidate(words, end)) # <<>>}
  IN  IF ends = {} THEN <<>> ELSE parse_log_timestamp(Candidate(words, Max(ends)))
=============================================================================
