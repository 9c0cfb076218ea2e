--------------------------- MODULE RtspTransport ---------------------------
(***************************************************************************)
(* The Transport headers of a request: CRtspServer::rtsp_parse_transport   *)
(* (RtspServer.cpp) with get_word_sep and rtsp_parse_range (ffutils.cpp).  *)
(* The fields are those of m_RtspReplyMessage, cleared for each request;   *)
(* a request may have several such headers, one after the other.           *)
(*                                                                         *)
(* The text is a sequence of tokens: a separator, a word or a number each. *)
(* What a client writes is either rendered from a list of transports, or   *)
(* tokens in any order.                                                    *)
(***************************************************************************)
EXTENDS Integers, Sequences, SequencesExt

CONSTANTS
  Tokens,         (* what a text is made of                                *)
  Lists,          (* lists of transports that a client writes              *)
  Junk,           (* other texts                                           *)
  MaxTransports,  (* RTSP_MAX_TRANSPORTS                                   *)
  MaxHeaders,     (* BOUND on the headers of a request                     *)
  Several         (* BOUND on what a request with several headers has in them *)

Blank     == " "
Semicolon == ";"
Comma     == ","
Numbers   == {"1", "2"}
Ranges    == {"port", "client_port", "server_port", "interleaved"}

\* A transport is [proto, lower, params], a parameter <<name, value>> with a value that
\* is a sequence of tokens, empty for none.
Transport == [proto : Tokens, lower : Tokens, params : Seq(Tokens \X Seq(Tokens))]
Text(t) ==
  (CASE t.proto = "RDT" -> <<"x-real-rdt", "/", t.lower>>
     [] t.lower = ""    -> <<t.proto, "/", "AVP">>
     [] OTHER           -> <<t.proto, "/", "AVP", "/", t.lower>>)
  \o FlattenSeq([i \in DOMAIN t.params |->
       <<Semicolon, t.params[i][1]>> \o (IF t.params[i][2] = <<>> THEN <<>> ELSE <<"=">> \o t.params[i][2])])
TextOf(ts) == FlattenSeq([i \in DOMAIN ts |-> (IF i = 1 THEN <<>> ELSE <<Comma>>) \o Text(ts[i])])

TransportAssumption ==
  /\ MaxTransports \in Nat \ {0} /\ MaxHeaders \in Nat
  /\ {Semicolon, Comma, "/", "=", "AVP", "x-real-rdt"} \subseteq Tokens
  /\ Lists \subseteq Seq(Transport) /\ Junk \subseteq Seq(Tokens)

VARIABLES
  transports, nb,   \* transports, nb_transports of m_RtspReplyMessage
  text,             \* the rest of the header
  pc,               \* between headers, before a transport, in its parameters
  headers,          \* headers parsed, or begun
  given, before,    \* auxiliary: the list this header was written from; transports before it
  rounds            \* auxiliary: how many rounds of the parser's loops are allowed

auxVars == <<given, before>>
vars == <<transports, nb, text, pc, headers, auxVars, rounds>>

\* RTSPTransportField. A number is the tokens it is written with, none for 0.
NoRange == [min |-> <<>>, max |-> <<>>]
Field   == [transport |-> "RTP", lower |-> "UDP", range |-> [r \in Ranges |-> NoRange],
            ttl |-> <<>>, destination |-> <<>>, source |-> <<>>, mode_record |-> FALSE]

----------------------------------------------------------------------------
(* ffutils.cpp                                                             *)

\* The length of the part of s before the first token of S; and s from there on.
SpanTo(s, S) == LET i == SelectInSeq(s, LAMBDA c : c \in S) IN IF i = 0 THEN Len(s) ELSE i - 1
From(s, n)   == SubSeq(s, n + 1, Len(s))
SkipBlanks(s) == LET i == SelectInSeq(s, LAMBDA c : c # Blank)
                 IN IF i = 0 THEN <<>> ELSE From(s, i - 1)
StartsWith(s, c) == s # <<>> /\ Head(s) = c

\* get_word_sep: one slash is left out, then blanks; the word is up to a separator.
GetWord(s, seps) ==
  LET t == SkipBlanks(IF StartsWith(s, "/") THEN Tail(s) ELSE s)
      n == SpanTo(t, seps)
  IN [word |-> SubSeq(t, 1, n), rest |-> From(t, n)]

\* strtol: no digits are 0, and nothing is taken.
StrToL(s) ==
  LET t == SkipBlanks(s)
      n == IF StartsWith(t, "-") THEN 2 ELSE 1
  IN IF Len(t) >= n /\ t[n] \in Numbers THEN [val |-> SubSeq(t, 1, n), rest |-> From(t, n)]
                                        ELSE [val |-> <<>>, rest |-> s]

\* rtsp_parse_range: min-max, or one number for both.
ParseRange(s) ==
  LET a == StrToL(SkipBlanks(s))
      b == StrToL(Tail(a.rest))
  IN IF StartsWith(a.rest, "-") THEN [range |-> [min |-> a.val, max |-> b.val], rest |-> b.rest]
                                ELSE [range |-> [min |-> a.val, max |-> a.val], rest |-> a.rest]

----------------------------------------------------------------------------
(* rtsp_parse_transport                                                    *)

Round == rounds' = rounds - 1

\* The separators that end a value.
ValueEnds == {Semicolon, Comma}

\* A Transport header of the request. (Faulty: the number is left.)
RestartFaulty == nb
Restart       == 0
Begin(h, ts) ==
  /\ pc = "idle" /\ headers < MaxHeaders /\ (headers = 0 \/ {given, ts} \subseteq Several)
  /\ text' = h /\ nb' = Restart /\ pc' = "transport"
  /\ headers' = headers + 1 /\ given' = ts /\ before' = transports
  /\ rounds' = 3 * Len(h) + 1
  /\ UNCHANGED transports

\* protocol/profile[/lower]; RDT has no profile.
Protocol(s) ==
  LET proto   == GetWord(s, {"/"})
      profile == GetWord(proto.rest, {"/"} \cup ValueEnds)
      lower   == IF StartsWith(profile.rest, "/") THEN GetWord(profile.rest, ValueEnds)
                                                  ELSE [word |-> <<>>, rest |-> profile.rest]
  IN CASE proto.word = <<"RTP">>        -> [transport |-> "RTP", lower |-> lower.word, rest |-> lower.rest]
       [] proto.word = <<"raw">>        -> [transport |-> "raw", lower |-> lower.word, rest |-> lower.rest]
       [] proto.word = <<"x-real-rdt">> -> [transport |-> "RDT", lower |-> profile.word, rest |-> profile.rest]
       [] OTHER                         -> [transport |-> "none", lower |-> <<>>, rest |-> proto.rest]

\* The local lower_transport is not set when the protocol is unknown: it has any
\* content. The field keeps the transport that it had.
Lowers(p) == IF p.transport = "none" THEN {"TCP", "UDP"}
             ELSE IF p.lower = <<"TCP">> THEN {"TCP"} ELSE {"UDP"}

WithProtocol(f, p, l) == [f EXCEPT !.mode_record = TRUE, !.lower = l,
                                   !.transport = IF p.transport = "none" THEN @ ELSE p.transport]

NextTransport ==
  /\ pc = "transport" /\ SkipBlanks(text) # <<>>
  /\ LET p == Protocol(SkipBlanks(text)) IN
     /\ \E l \in Lowers(p) : transports' = [transports EXCEPT ![nb + 1] = WithProtocol(@, p, l)]
     /\ text' = IF StartsWith(p.rest, Semicolon) THEN Tail(p.rest) ELSE p.rest
  /\ pc' = "parameters"
  /\ Round /\ UNCHANGED <<nb, headers, auxVars>>

\* The field with a parameter, and the text after what was read of its value.
Numeric(w) == w = <<"addr">>
WithParameter(f, name, s) ==
  LET has  == StartsWith(s, "=")
      r    == ParseRange(Tail(s))
      n    == StrToL(Tail(s))
      w    == GetWord(Tail(s), ValueEnds)
      mode == GetWord(Tail(s), ValueEnds \cup {Blank})
  IN CASE has /\ \E k \in Ranges : name = <<k>> -> [field |-> [f EXCEPT !.range[name[1]] = r.range], rest |-> r.rest]
       [] name = <<"multicast">> -> [field |-> [f EXCEPT !.lower = IF @ = "UDP" THEN "UDP_MULTICAST" ELSE @],
                                     rest |-> s]
       [] has /\ name = <<"ttl">> -> [field |-> [f EXCEPT !.ttl = n.val], rest |-> n.rest]
       [] has /\ name = <<"destination">> -> [field |-> [f EXCEPT !.destination = IF Numeric(w.word) THEN w.word ELSE @],
                                              rest |-> w.rest]
       [] has /\ name = <<"source">> -> [field |-> [f EXCEPT !.source = w.word], rest |-> w.rest]
       [] has /\ name = <<"mode">> ->
            [field |-> [f EXCEPT !.mode_record = @ \/ mode.word \in {<<"record">>, <<"receive">>}], rest |-> mode.rest]
       [] OTHER -> [field |-> f, rest |-> s]

\* What is left of the parameter is skipped, and the semicolon. (Faulty: but that.)
PastFaulty(s) == From(s, SpanTo(s, ValueEnds))
Past(s) == LET t == From(s, SpanTo(s, ValueEnds)) IN IF StartsWith(t, Semicolon) THEN Tail(t) ELSE t

Parameter ==
  /\ pc = "parameters" /\ text # <<>> /\ ~StartsWith(text, Comma)
  /\ LET w == GetWord(text, {"="} \cup ValueEnds)
         p == WithParameter(transports[nb + 1], w.word, w.rest) IN
     /\ transports' = [transports EXCEPT ![nb + 1] = p.field]
     /\ text' = Past(p.rest)
  /\ Round /\ UNCHANGED <<nb, pc, headers, auxVars>>

Full(n) == n >= MaxTransports
EndTransport ==
  /\ pc = "parameters" /\ (text = <<>> \/ StartsWith(text, Comma))
  /\ nb' = nb + 1
  /\ text' = IF Full(nb') \/ text = <<>> THEN <<>> ELSE Tail(text)
  /\ pc' = IF Full(nb') THEN "idle" ELSE "transport"
  /\ Round /\ UNCHANGED <<transports, headers, auxVars>>

EndHeader ==
  /\ pc = "transport" /\ SkipBlanks(text) = <<>>
  /\ pc' = "idle" /\ text' = <<>>
  /\ Round /\ UNCHANGED <<transports, nb, headers, auxVars>>

----------------------------------------------------------------------------

Init == /\ transports = [i \in 1 .. MaxTransports |-> Field] /\ nb = 0
        /\ text = <<>> /\ pc = "idle" /\ headers = 0
        /\ given = <<>> /\ before = transports /\ rounds = 0

Parse == NextTransport \/ Parameter \/ EndTransport \/ EndHeader
Next  == \/ \E ts \in Lists : Begin(TextOf(ts), ts)
         \/ \E h \in Junk : Begin(h, <<>>)
         \/ Parse

Spec == Init /\ [][Next]_vars

----------------------------------------------------------------------------
(* Properties                                                              *)

\* The types. There is never a transport outside the array (RtspServer.cpp:432, 545).
TypeOK ==
  /\ DOMAIN transports = 1 .. MaxTransports
  /\ \A i \in DOMAIN transports :
       /\ transports[i].transport \in {"RTP", "RDT", "raw"}
       /\ transports[i].lower \in {"TCP", "UDP", "UDP_MULTICAST"}
       /\ DOMAIN transports[i].range = Ranges
  /\ pc \in {"idle", "transport", "parameters"}
  /\ nb \in 0 .. MaxTransports /\ (pc # "idle" => nb < MaxTransports)
  /\ headers \in 0 .. MaxHeaders

\* The value of the last parameter k of t, or what there was.
LastOf(t, k, old) ==
  LET i == SelectLastInSeq(t.params, LAMBDA p : p[1] = k /\ p[2] # <<>>)
  IN IF i = 0 THEN old ELSE t.params[i][2]
AsRange(v) == IF Len(v) = 3 THEN [min |-> <<v[1]>>, max |-> <<v[3]>>] ELSE [min |-> v, max |-> v]
HasParameter(t, k) == \E i \in DOMAIN t.params : t.params[i][1] = k
Means(f, t, old) ==
  /\ f.transport = t.proto
  /\ f.lower = (IF t.lower = "TCP" THEN "TCP"
                ELSE IF HasParameter(t, "multicast") THEN "UDP_MULTICAST" ELSE "UDP")
  /\ \A k \in Ranges : f.range[k] = (IF \E i \in DOMAIN t.params : t.params[i][1] = k /\ t.params[i][2] # <<>>
                                     THEN AsRange(LastOf(t, k, <<>>)) ELSE old.range[k])
  /\ f.ttl = LastOf(t, "ttl", old.ttl)
  /\ f.source = LastOf(t, "source", old.source)
  /\ f.destination = LastOf(t, "destination", old.destination)

\* What is left to do: a round takes some of the text, or leaves one of the two loops.
Left == 3 * Len(text) + (CASE pc = "parameters" -> 2 [] pc = "transport" -> 1 [] pc = "idle" -> 0)

\* The parser comes to an end on every text: the rounds it is allowed are always enough
\* for what is left to do (RtspServer.cpp:427, 471, 536).
Ends == Left <= rounds

\* A header that was written from a list of transports is read as that list, up to the
\* size of the array; what one does not mention is left from an earlier header of the
\* request, or 0; the other places are left (RtspServer.cpp:416-548, ffutils.cpp:238-269).
\* The comment above the function (415), "only one transport specification is parsed", is
\* not what its loop does.
Parsed ==
  (pc = "idle" /\ given # <<>>) =>
    /\ nb = (IF Len(given) < MaxTransports THEN Len(given) ELSE MaxTransports)
    /\ \A i \in 1 .. MaxTransports :
         IF i <= nb THEN Means(transports[i], given[i], before[i]) ELSE transports[i] = before[i]

============================================================================
