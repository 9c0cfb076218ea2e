------------------------------ MODULE MCRtsp ------------------------------
(* The parsers of two headers for TLC, one of them in each behaviour: H     *)
(* parses the Transport headers of a request, G its Range header.           *)
EXTENDS Integers, Sequences, SequencesExt

CONSTANTS HeaderTokens, TransportLists, TransportJunk, MaxTransports, MaxHeaders, Several,
          TimeChars, TimeStarts, TimeEnds, NoTime, Second, Milli, Max64

\* Transports of up to two parameters, lists of up to three of a few of them, and junk
\* of up to four tokens.
Parameters == {<<"client_port", <<"1">>>>, <<"client_port", <<"1", "-", "2">>>>, <<"client_port", <<>>>>,
               <<"interleaved", <<"2", "-", "1">>>>, <<"multicast", <<>>>>, <<"ttl", <<"1">>>>,
               <<"source", <<"host">>>>, <<"destination", <<"addr">>>>, <<"mode", <<"play">>>>,
               <<"mode", <<"record">>>>, <<"unicast", <<>>>>}
Transports == [proto : {"RTP", "raw"}, lower : {"", "TCP", "UDP"}, params : BoundedSeq(Parameters, 2)]
              \cup [proto : {"RDT"}, lower : {"TCP"}, params : BoundedSeq(Parameters, 1)]
Few        == {x \in Transports : x.proto = "RTP" /\ Len(x.params) < 2 /\ x.lower # ""}
ThreeLists == [1 .. 3 -> {x \in Few : x.lower = "TCP" /\ x.params \in {<<>>, <<<<"client_port", <<"1">>>>>>}}]
FewLists   == [1 .. 1 -> {x \in Few : x.lower = "TCP"}] \cup ThreeLists
MCLists    == [1 .. 1 -> Transports] \cup [1 .. 2 -> Few] \cup ThreeLists
MCTokens   == STRING
MCJunk     == SeqOf({"RTP", "/", ";", ",", "=", "client_port"}, 4)

\* Times. A second has 100 parts and the largest number is 40000000: 100 hours fit,
\* 999999 seconds do not, nor eight digits.
Numbers == {<<>>, <<"7">>, <<"5", "9">>, <<"6", "0">>, <<"1", "0", "0">>,
            <<"1", "2", "3", "4", "5">>, <<"9", "9", "9", "9", "9", "9", "9", "9">>}
Clocks  == UNION {[1 .. n -> Numbers] : n \in 1 .. 3}
Time(c, f, u, j) == [clock |-> c, fraction |-> f, unit |-> u, junk |-> j]
Small   == {<<<<"7">>>>, <<<<"7">>, <<"0", "3">>>>, <<<<"1">>, <<"0", "0">>, <<"4", "0">>>>,
            <<<<"9", "9", "9", "9", "9", "9">>>>}
MCStarts ==
  {Time(c, <<>>, <<>>, <<>>) : c \in Clocks}
  \cup {Time(c, f, u, j) : c \in Small, f \in {<<>>, <<".">>, <<".", "5">>, <<".", "0", "7", "9">>},
                           u \in {<<>>, <<"s">>, <<"m", "s">>, <<"u", "s">>}, j \in {<<>>, <<"x">>}}
MCEnds   == {NoTime} \cup {Time(c, f, u, <<>>) : c \in Small \cup {<<<<>>>>}, f \in {<<>>, <<".", "5">>},
                                              u \in {<<>>, <<"m", "s">>}}

VARIABLES header,
          transports, nb, ttext, tpc, headers, tgiven, before, hrounds,
          rangeStart, rangeEnd, rangePart, rangeText, rangeRest, seconds, micro, timeUnit,
          negative, rangePc, rangeGiven

H == INSTANCE RtspTransport WITH Tokens <- HeaderTokens, Lists <- TransportLists, Junk <- TransportJunk,
       text <- ttext, pc <- tpc, given <- tgiven, rounds <- hrounds
G == INSTANCE RtspRange WITH Chars <- TimeChars, Starts <- TimeStarts, Ends <- TimeEnds, None <- NoTime,
       start <- rangeStart, end <- rangeEnd, part <- rangePart, text <- rangeText, p <- rangeRest,
       t <- seconds, unit <- timeUnit, pc <- rangePc, given <- rangeGiven

hvars == <<transports, nb, ttext, tpc, headers, tgiven, before, hrounds>>
gvars == <<rangeStart, rangeEnd, rangePart, rangeText, rangeRest, seconds, micro, timeUnit,
           negative, rangePc, rangeGiven>>
headerVars == <<header, hvars, gvars>>

ASSUME HeaderAssumption == H!TransportAssumption /\ G!RangeAssumption

HeaderInit == header \in {"transport", "range"} /\ H!Init /\ G!Init
HeaderNext == \/ header = "transport" /\ H!Next /\ UNCHANGED <<header, gvars>>
              \/ header = "range" /\ G!Next /\ UNCHANGED <<header, hvars>>
HeaderSpec == HeaderInit /\ [][HeaderNext]_headerVars

\* Any text is parsed to its end, and no transport is outside the array (RtspServer.cpp:427-545).
Ends == H!TypeOK /\ H!Ends
\* A Transport header is read as the list it was written from, up to the size of the array
\* (RtspServer.cpp:416-548, ffutils.cpp:238-269): every transport of it, not only one, as
\* the comment at RtspServer.cpp:415 has it.
Parsed == H!Parsed
\* A Range header is read as the times it was written from, to the microsecond, and what is
\* computed fits its integers (ffutils.cpp:443-634).
Exact == G!TypeOK /\ G!Exact
============================================================================
