----------------------------- MODULE RtspRange -----------------------------
(***************************************************************************)
(* The Range header of a request, "npt=start-end": rtsp_parse_range_npt,   *)
(* the branch of av_parse_time for a duration, av_small_strptime and       *)
(* date_get_num (ffutils.cpp).  The text is a sequence of characters, of   *)
(* what follows "npt="; a header with anything else is not read.  A time   *)
(* is in microseconds; the width of its integers and the number of a       *)
(* second's parts are parameters, so that short texts meet the limits.     *)
(***************************************************************************)
EXTENDS Integers, Sequences, SequencesExt, FiniteSets

CONSTANTS
  Chars,     (* what a text is made of                                     *)
  Starts,    (* the times that a client writes first                       *)
  Ends,      (* and after the minus, None for none                         *)
  None,
  Second,    (* parts of a second: 1000000, a power of ten                 *)
  Milli,     (* parts of a millisecond: 1000                               *)
  Max64      (* INT64_MAX                                                  *)

Numerals == <<"0", "1", "2", "3", "4", "5", "6", "7", "8", "9">>
Digits   == {Numerals[i] : i \in 1 .. 10}
DigitOf  == [d \in Digits |-> (CHOOSE i \in 1 .. 10 : d = Numerals[i]) - 1]
Point    == "."

\* A time is [clock, fraction, unit, junk]: one to three numbers, of digits; a point and
\* digits, or nothing; "s", "ms", "us" or nothing; what does not belong there.
Times     == [clock : Seq(Seq(Chars)), fraction : Seq(Chars), unit : Seq(Chars), junk : Seq(Chars)]
Text(x)   == (FlattenSeq([i \in DOMAIN x.clock |-> (IF i = 1 THEN <<>> ELSE <<":">>) \o x.clock[i]]))
             \o x.fraction \o x.unit \o x.junk
TextOf(a, b) == Text(a) \o (IF b = None THEN <<>> ELSE <<"-">> \o Text(b))

RangeAssumption ==
  /\ Second \in Nat \ {0} /\ Milli \in Nat \ {0} /\ Second % Milli = 0 /\ Max64 \in Nat
  /\ {":", "-"} \subseteq Chars /\ Starts \subseteq Times /\ Ends \subseteq Times \cup {None}

NoValue  == -Max64 - 1    \* AV_NOPTS_VALUE, the same number as INT64_MIN

VARIABLES
  start, end,     \* range_start, range_end
  part,           \* which of the two is parsed
  text,           \* the header
  p,              \* the rest of the time's text, q of av_parse_time
  t, micro, unit, \* t, microseconds, suffix
  negative,
  pc,
  given           \* auxiliary: the times this header was written from

timeVars == <<t, micro, unit, negative>>
vars == <<start, end, part, text, p, timeVars, pc, given>>

----------------------------------------------------------------------------
(* ffutils.cpp                                                             *)

From(s, n)  == SubSeq(s, n + 1, Len(s))
StartsWith(s, c) == s # <<>> /\ Head(s) = c
SpanDigits(s) == LET i == SelectInSeq(s, LAMBDA c : c \notin Digits) IN IF i = 0 THEN Len(s) ELSE i - 1
NumberOf(ds) ==
  LET v[i \in 0 .. Len(ds)] == IF i = 0 THEN 0 ELSE 10 * v[i - 1] + DigitOf[ds[i]] IN v[Len(ds)]
Smaller(a, b) == IF a < b THEN a ELSE b

Fail == [ok |-> FALSE, val |-> <<>>, rest |-> <<>>]

\* date_get_num: at most len digits, a number up to max.
DateGetNum(s, max, len) ==
  LET n == Smaller(SpanDigits(s), len)
      v == NumberOf(SubSeq(s, 1, n))
  IN IF n = 0 \/ v > max THEN Fail ELSE [ok |-> TRUE, val |-> v, rest |-> From(s, n)]

\* av_small_strptime, for fields with a colon between them. %J is any number of hours
\* with four digits.
Length(field) == IF field = "J" THEN 4 ELSE 2
Limit(field)  == IF field = "J" THEN 9999 ELSE 59
SmallStrptime(s, fields) ==
  LET r[i \in 0 .. Len(fields)] ==
        IF i = 0 THEN [ok |-> TRUE, val |-> <<>>, rest |-> s]
        ELSE LET last  == r[i - 1]
                 colon == i > 1
                 n     == DateGetNum(IF colon THEN Tail(last.rest) ELSE last.rest, Limit(fields[i]), Length(fields[i]))
             IN IF ~last.ok \/ (colon /\ ~StartsWith(last.rest, ":")) \/ ~n.ok THEN Fail
                ELSE [ok |-> TRUE, val |-> Append(last.val, n.val), rest |-> n.rest]
  IN r[Len(fields)]

\* get_word_sep, up to a minus. (A blank or a slash before the word is not sent.)
Word(s) == LET i == SelectInSeq(s, LAMBDA c : c = "-") IN IF i = 0 THEN s ELSE SubSeq(s, 1, i - 1)

----------------------------------------------------------------------------
(* rtsp_parse_range_npt and av_parse_time                                  *)

Receive ==
  /\ pc = "idle"
  /\ \E a \in Starts, b \in Ends : given' = <<a, b>> /\ text' = TextOf(a, b)
  /\ start' = NoValue /\ end' = NoValue /\ part' = "start"
  /\ p' = Word(text') /\ pc' = "clock"
  /\ UNCHANGED timeVars

\* av_parse_time begins.
Fresh == micro' = 0 /\ unit' = Second

\* A clock with hours or without, or else seconds. A minus is looked for, though rtsp_parse_range_npt ends the
\* text before one.
Clock ==
  /\ pc = "clock"
  /\ negative' = StartsWith(p, "-")
  /\ Fresh
  /\ LET q   == IF negative' THEN Tail(p) ELSE p
         hms == SmallStrptime(q, <<"J", "M", "S">>)
         ms  == SmallStrptime(q, <<"M", "S">>)
     IN \/ /\ hms.ok
           /\ t' = hms.val[1] * 3600 + hms.val[2] * 60 + hms.val[3] /\ p' = hms.rest /\ pc' = "fraction"
        \/ /\ ~hms.ok /\ ms.ok
           /\ t' = ms.val[1] * 60 + ms.val[2] /\ p' = ms.rest /\ pc' = "fraction"
        \/ /\ ~hms.ok /\ ~ms.ok
           /\ p' = q /\ pc' = "seconds" /\ UNCHANGED t
  /\ UNCHANGED <<start, end, part, text, given>>

\* strtoll: no digits, or too many, are an error.
Seconds ==
  /\ pc = "seconds"
  /\ LET n == SpanDigits(p)
         v == NumberOf(SubSeq(p, 1, n))
     IN IF n = 0 \/ v > Max64
          THEN pc' = "fail" /\ UNCHANGED <<t, p>>
          ELSE pc' = "fraction" /\ t' = v /\ p' = From(p, n)
  /\ UNCHANGED <<start, end, part, text, micro, unit, negative, given>>

\* The digits after a point, as far as a second has parts; the others are skipped.
\* (Faulty: the first digit is a whole second.)
FirstWeightFaulty == Second
FirstWeight       == Second \div 10
Parts(ds) ==
  LET sum[i \in 0 .. Len(ds)] ==
        IF i = 0 THEN [n |-> FirstWeight, micro |-> 0]
        ELSE [n |-> sum[i - 1].n \div 10, micro |-> sum[i - 1].micro + sum[i - 1].n * DigitOf[ds[i]]]
  IN sum[Len(ds)].micro
Fraction ==
  /\ pc = "fraction"
  /\ IF StartsWith(p, Point)
       THEN LET ds == SubSeq(Tail(p), 1, SpanDigits(Tail(p))) IN
            /\ micro' = Parts(ds)
            /\ p' = From(p, 1 + Len(ds))
       ELSE UNCHANGED <<micro, p>>
  /\ pc' = "suffix"
  /\ UNCHANGED <<start, end, part, text, t, unit, negative, given>>

Suffix ==
  /\ pc = "suffix"
  /\ CASE IsPrefix(<<"m", "s">>, p) -> unit' = Milli /\ micro' = micro \div (Second \div Milli) /\ p' = From(p, 2)
       [] IsPrefix(<<"u", "s">>, p) -> unit' = 1 /\ micro' = 0 /\ p' = From(p, 2)
       [] StartsWith(p, "s")        -> p' = Tail(p) /\ UNCHANGED <<unit, micro>>
       [] OTHER                     -> UNCHANGED <<unit, micro, p>>
  /\ pc' = "end"
  /\ UNCHANGED <<start, end, part, text, t, negative, given>>

\* The end of the text, and the width of the result.
InRange       == t <= Max64 \div unit /\ t * unit <= Max64 - micro
Value         == LET v == t * unit + micro IN IF negative THEN -v ELSE v

Store(v) == IF part = "start" THEN start' = v /\ UNCHANGED end ELSE end' = v /\ UNCHANGED start
EndTime ==
  /\ pc = "end"
  /\ IF p = <<>> /\ InRange THEN Store(Value) /\ pc' = "next"
                            ELSE pc' = "fail" /\ UNCHANGED <<start, end>>
  /\ UNCHANGED <<part, text, p, timeVars, given>>

\* After a start comes a minus and the end, which may fail, or be empty.
NextPart ==
  /\ pc = "next"
  /\ LET rest == From(text, Len(Word(text))) IN
     IF part = "start" /\ StartsWith(rest, "-")
       THEN part' = "end" /\ p' = Word(Tail(rest)) /\ pc' = "clock"
       ELSE pc' = "done" /\ UNCHANGED <<part, p>>
  /\ UNCHANGED <<start, end, text, timeVars, given>>

Failed ==
  /\ pc = "fail"
  /\ pc' = "done"
  /\ UNCHANGED <<start, end, part, text, p, timeVars, given>>

----------------------------------------------------------------------------

Init == /\ start = NoValue /\ end = NoValue /\ part = "start" /\ text = <<>> /\ p = <<>>
        /\ t = 0 /\ micro = 0 /\ unit = Second /\ negative = FALSE /\ pc = "idle"
        /\ given = <<>>

Next == Receive \/ Clock \/ Seconds \/ Fraction \/ Suffix \/ EndTime \/ NextPart \/ Failed

Spec == Init /\ [][Next]_vars

----------------------------------------------------------------------------
(* Properties                                                              *)

\* The types; what is computed fits its integers (ffutils.cpp:600-606).
TypeOK ==
  /\ \A v \in {start, end} : v = NoValue \/ v \in 0 .. Max64
  /\ part \in {"start", "end"} /\ pc \in {"idle", "clock", "seconds", "fraction", "suffix",
                                          "end", "next", "fail", "done"}
  /\ t \in Nat /\ micro \in 0 .. Second - 1 /\ unit \in {Second, Milli, 1}
  /\ negative = FALSE

\* What a time means: hours, minutes and seconds, the fraction cut to the unit.
Number(ds, max, len) == Len(ds) \in 1 .. len /\ NumberOf(ds) <= max
InForm(x) ==
  LET c == x.clock IN
  /\ x.junk = <<>>
  /\ CASE Len(c) = 3 -> Number(c[1], 9999, 4) /\ Number(c[2], 59, 2) /\ Number(c[3], 59, 2)
       [] Len(c) = 2 -> Number(c[1], 59, 2) /\ Number(c[2], 59, 2)
       [] OTHER      -> Number(c[1], Max64, Len(c[1]))
Meaning(x) ==
  LET c == FoldLeft(LAMBDA v, ds : 60 * v + NumberOf(ds), 0, x.clock)
      u == CASE x.unit = <<"m", "s">> -> Milli [] x.unit = <<"u", "s">> -> 1 [] OTHER -> Second
      f == IF x.fraction = <<>> THEN <<>> ELSE Tail(x.fraction)
      v == c * u + (NumberOf(f) * u) \div 10 ^ Len(f)
  IN IF InForm(x) /\ v <= Max64 THEN v ELSE NoValue

\* A header that was written from two times gives their meaning, to the microsecond; one
\* that is not of the form, or too large, gives none, and then the end is not read
\* either (ffutils.cpp:443-634).
Exact ==
  pc = "done" =>
    /\ start = Meaning(given[1])
    /\ end = (IF start = NoValue \/ given[2] = None THEN NoValue ELSE Meaning(given[2]))

============================================================================
