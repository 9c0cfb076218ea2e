----------------------------- MODULE RtspServer -----------------------------
(***************************************************************************)
(* The RTSP session of the TestUdpReceiver program, CRtspServer            *)
(* (RtspServer.cpp): the worker object that parses what a client sends and *)
(* answers it.  One packet is processed at a time, for the next read of a  *)
(* session is posted when the last one was processed.  The object outlives *)
(* the session and is given to another one.                                *)
(*                                                                         *)
(* The text is a sequence of tokens.  A line is two of them, the first one *)
(* up to its first blank, and then CR and LF.                              *)
(***************************************************************************)
EXTENDS Integers, Sequences, SequencesExt

CONSTANTS
  Asked,          (* the methods that the client uses                      *)
  LineBufSize,    (* LINEBUFSIZE, in tokens                                *)
  LongLine,       (* the length of a header nobody knows, in tokens        *)
  SeqWidth,       (* the values of a uint16_t: 65536 in the code           *)
  MaxRequests,    (* BOUND on the requests of a connection                 *)
  MaxConnections  (* BOUND on the connections that the object serves       *)

\* enum RTSPMethod.
Methods == {"DESCRIBE", "ANNOUNCE", "OPTIONS", "SETUP", "PLAY", "PAUSE", "TEARDOWN",
            "GET_PARAMETER", "SET_PARAMETER", "REDIRECT", "RECORD"}

RtspAssumption ==
  /\ Asked \subseteq Methods
  /\ LineBufSize \in Nat \ {0} /\ LongLine \in Nat /\ SeqWidth \in Nat \ {0}
  /\ MaxRequests \in Nat /\ MaxConnections \in Nat \ {0}

CR == <<"CR">>
LF == <<"LF">>
\* A command, with its URI and version; the headers CSeq and Transport; and another.
Command(m)   == << <<"command", m, 1>>, <<"command", m, 2>> >>
CSeq(i)      == << <<"cseq", i, 1>>, <<"cseq", i, 2>> >>
Transport    == << <<"transport", 0, 1>>, <<"transport", 0, 2>> >>
Other(n)     == [i \in 1 .. n |-> <<"other", 0, i>>]
Line(text)   == text \o <<CR, LF>>
Request(m, i, n) ==
  Line(Command(m)) \o (IF n > 0 THEN Line(Other(n)) ELSE <<>>) \o Line(CSeq(i))
    \o (IF m = "SETUP" THEN Line(Transport) ELSE <<>>) \o Line(<<>>)

VARIABLES
  anaPhase,             \* m_nAnaPhase
  rtspState,            \* m_RtspState
  methodcode,           \* methodcode
  header,               \* m_RtspReplyMessage
  temp,                 \* m_pTempDataBuf, m_nTempDataSize
  line, seen,           \* m_LineBuf in read_line; breturn and bnext
  pkt,                  \* what is left of the packet
  wire,                 \* what the client sent and was not received
  sent, handled,        \* the requests of this connection: sent, and processed
  answers,              \* the answers sent in this connection
  connections,
  options, answered,    \* auxiliary: OPTIONS sent and answers received, ever
  whole                 \* auxiliary: lines, and requests, were never cut

sessionVars == <<anaPhase, rtspState, methodcode, header, handled, answers, answered>>
clientVars  == <<wire, sent, connections, options>>
vars == <<sessionVars, temp, line, seen, pkt, clientVars, whole>>

EmptyHeader == [seq |-> 0, nb_transports |-> 0]

----------------------------------------------------------------------------
(* The client                                                              *)

\* With another header, of n tokens, or without.
Send(m, n) ==
  /\ Len(sent) < MaxRequests
  /\ sent' = Append(sent, [method |-> m, seq |-> Len(sent) + 1])
  /\ wire' = wire \o Request(m, Len(sent) + 1, n)
  /\ options' = IF m = "OPTIONS" THEN options + 1 ELSE options
  /\ UNCHANGED <<sessionVars, temp, line, seen, pkt, connections, whole>>

\* The object is given back and serves another connection. Only the constructor
\* sets the members of this class.
Reconnect ==
  /\ pkt = <<>> /\ connections < MaxConnections
  /\ connections' = connections + 1
  /\ wire' = <<>> /\ sent' = <<>> /\ handled' = <<>> /\ answers' = <<>>
  /\ whole' = (whole /\ anaPhase = 0)
  /\ UNCHANGED <<anaPhase, rtspState, methodcode, header, answered, temp, line, seen, pkt, options>>

----------------------------------------------------------------------------
(* read_line                                                               *)

\* read_line begins. What was kept of the last packet is copied to m_LineBuf, but its
\* size is set to 0 before it is used, so that the line begins empty; and the byte
\* before the first, where a CR or LF is looked for, is one of a null pointer.
BeginLine == line' = <<>> /\ seen' = "none"

\* A packet arrives: any part of what was sent.
Receive ==
  /\ pkt = <<>>
  /\ \E k \in 1 .. Len(wire) :
       /\ pkt' = SubSeq(wire, 1, k)
       /\ wire' = SubSeq(wire, k + 1, Len(wire))
  /\ temp' = <<>>
  /\ BeginLine
  /\ UNCHANGED <<sessionVars, sent, connections, options, whole>>

\* A character ends the line with the one before it, in either order.
EndsLine(c) == (c = LF /\ seen = "CR") \/ (c = CR /\ seen = "LF")

\* LF is stored as CR. A line that is too long begins anew.
Full       == 1 + Len(line) > LineBufSize
Stored(c)  == Append(IF Full THEN <<>> ELSE line, IF c = LF THEN CR ELSE c)
Seen(c)    == IF c = CR THEN "CR" ELSE IF c = LF THEN "LF" ELSE "none"

ReadChar ==
  /\ pkt # <<>> /\ ~EndsLine(Head(pkt)) /\ Len(pkt) > 1
  /\ line' = Stored(Head(pkt))
  /\ seen' = Seen(Head(pkt))
  /\ pkt' = Tail(pkt)
  /\ whole' = (whole /\ ~Full)
  /\ UNCHANGED <<sessionVars, temp, clientVars>>

\* The packet ends within a line, which is kept.
KeepRest ==
  /\ Len(pkt) = 1 /\ ~EndsLine(Head(pkt))
  /\ temp' = Stored(Head(pkt))
  /\ pkt' = <<>>
  /\ BeginLine
  /\ whole' = FALSE
  /\ UNCHANGED <<sessionVars, clientVars>>

\* A line without its end. (Faulty: the CR is left.)
TextFaulty == line
Text       == SubSeq(line, 1, Len(line) - 1)

\* A complete line was read; the next call goes on after it.
EndLine ==
  /\ pkt # <<>> /\ EndsLine(Head(pkt))
  /\ pkt' = Tail(pkt)
  /\ BeginLine
  /\ UNCHANGED <<temp, clientVars, whole>>

----------------------------------------------------------------------------
(* ReadedDataProcess, with a line                                          *)

Recognised(text) == \E m \in Methods : text = Command(m)
MethodOf(text)   == IF Recognised(text) THEN text[1][2] ELSE "UNKNOWN"
\* A word, not too long for a method, and a blank: that of a command or of CSeq.
HasWord(text) == \E i \in 1 .. Len(text) : text[i][1] \in {"command", "cseq"} /\ text[i][3] = 1

\* The check of the method with the state. (Faulty: the state is not looked at.)
AllowedFaulty(m) == m # "UNKNOWN"
Allowed(m) ==
  m \in CASE rtspState = "IDLE"      -> {"ANNOUNCE", "OPTIONS"}
          [] rtspState = "PAUSED"    -> {"OPTIONS", "RECORD", "SETUP"}
          [] rtspState = "STREAMING" -> {"PAUSE", "OPTIONS", "TEARDOWN"}
          [] OTHER                   -> {}

\* parse_command_line. The member methodcode is set before the checks.
CommandLine ==
  /\ EndLine /\ Text # <<>> /\ anaPhase = 0
  /\ methodcode' = IF HasWord(Text) THEN MethodOf(Text) ELSE methodcode
  /\ IF Recognised(Text) /\ Allowed(MethodOf(Text))
       THEN anaPhase' = 1 /\ header' = EmptyHeader
       ELSE UNCHANGED <<anaPhase, header>>
  /\ UNCHANGED <<rtspState, handled, answers, answered>>

\* parse_nocommand_line.
HeaderLine ==
  /\ EndLine /\ Text # <<>> /\ anaPhase = 1
  /\ \/ \E i \in 1 .. MaxRequests : Text = CSeq(i) /\ header' = [header EXCEPT !.seq = i]
     \/ Text = Transport /\ header' = [header EXCEPT !.nb_transports = 1]
     \/ /\ Text # Transport /\ \A i \in 1 .. MaxRequests : Text # CSeq(i)
        /\ UNCHANGED header
  /\ UNCHANGED <<anaPhase, rtspState, methodcode, handled, answers, answered>>

\* The methods that are answered, and the state after the answer. The others are
\* taken and nothing is sent.
Answered(m) == m \in {"OPTIONS", "PLAY", "TEARDOWN"} \/ (m = "SETUP" /\ header.nb_transports > 0)
StateAfter(m) == CASE m = "SETUP"    -> "PAUSED"
                   [] m = "PLAY"     -> "STREAMING"
                   [] m = "TEARDOWN" -> "IDLE"
                   [] OTHER          -> rtspState

\* m_nAnaPhase when a request was processed.
NextPhase       == 0

\* rtsp_send_reply, which takes the CSeq of the header as a uint16_t.
Cut(seq)  == seq % SeqWidth
SendReply == answers' = Append(answers, Cut(header.seq)) /\ answered' = answered + 1

\* The empty line after a request.
EndRequest ==
  /\ EndLine /\ Text = <<>> /\ anaPhase = 1
  /\ anaPhase' = NextPhase
  /\ handled' = Append(handled, [method |-> methodcode, seq |-> header.seq])
  /\ IF Answered(methodcode)
       THEN SendReply /\ rtspState' = StateAfter(methodcode)
       ELSE UNCHANGED <<answers, answered, rtspState>>
  /\ UNCHANGED <<methodcode, header>>

\* "unexpected rtsp end".
UnexpectedEnd ==
  /\ EndLine /\ Text = <<>> /\ anaPhase = 0
  /\ UNCHANGED sessionVars

----------------------------------------------------------------------------

Init ==
  /\ anaPhase = 0 /\ rtspState = "IDLE" /\ methodcode = "UNKNOWN" /\ header = EmptyHeader
  /\ temp = <<>> /\ line = <<>> /\ seen = "none" /\ pkt = <<>> /\ wire = <<>>
  /\ sent = <<>> /\ handled = <<>> /\ answers = <<>> /\ connections = 1
  /\ options = 0 /\ answered = 0 /\ whole = TRUE

Next == \/ \E m \in Asked, n \in {0, LongLine} : Send(m, n)
        \/ Reconnect \/ Receive \/ ReadChar \/ KeepRest
        \/ CommandLine \/ HeaderLine \/ EndRequest \/ UnexpectedEnd

Spec == Init /\ [][Next]_vars

----------------------------------------------------------------------------
(* Properties                                                              *)

\* The types; a line never outgrows its buffer (RtspServer.cpp:159, 177, 194).
TypeOK ==
  /\ anaPhase \in {0, 1} /\ rtspState \in {"IDLE", "PAUSED", "STREAMING"}
  /\ methodcode \in Methods \cup {"UNKNOWN"}
  /\ header.seq \in 0 .. MaxRequests /\ header.nb_transports \in {0, 1}
  /\ Len(temp) <= LineBufSize /\ Len(line) <= LineBufSize
  /\ seen \in {"none", "CR", "LF"}
  /\ Len(sent) <= MaxRequests /\ connections \in 1 .. MaxConnections
  /\ options \in Nat /\ answered \in Nat /\ whole \in BOOLEAN

\* The session never leaves the idle state, whatever a client sends and however it
\* is cut: SETUP, which alone would, is refused in that state (RtspServer.cpp:257-262, 627).
NeverLeavesIdle == rtspState = "IDLE"

\* While no line is cut by the end of a packet, none too long, and no connection ended
\* within a request, exactly the ANNOUNCE and OPTIONS requests are processed, in order,
\* each with its own CSeq, and those of the OPTIONS requests are answered with that CSeq
\* or, when it is above 65535, with what is left of it in 16 bits (550), however the packets
\* are cut between lines (19-109, 111-211). However lines are cut, there is no
\* answer without an OPTIONS request of its own (58-72).
Of(rs, ms) ==
  LET chosen[i \in 0 .. Len(rs)] ==
        IF i = 0 THEN <<>> ELSE IF rs[i].method \in ms THEN Append(chosen[i - 1], rs[i]) ELSE chosen[i - 1]
  IN  chosen[Len(rs)]
Accepted   == Of(sent, {"ANNOUNCE", "OPTIONS"})
SeqsOf(rs) == [i \in DOMAIN rs |-> Cut(rs[i].seq)]
Faithful ==
  /\ whole => /\ IsPrefix(handled, Accepted)
              /\ answers = SeqsOf(Of(handled, {"OPTIONS"}))
              /\ wire = <<>> /\ pkt = <<>> => handled = Accepted
  /\ answered <= options

============================================================================
