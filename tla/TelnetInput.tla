---------------------------- MODULE TelnetInput ----------------------------
(***************************************************************************)
(* The control connection as bytes: Telnet::Read, GetBuf and Write         *)
(* (Telnet.cpp), TelnetCommand::Parse (TelnetCommand.cpp) and ParseCommand *)
(* (String.cpp).  The client says tokens, that is characters, ends of      *)
(* lines and Telnet commands; the network delivers their bytes in pieces   *)
(* of any size, so that a token may be cut by the end of a Read.           *)
(*   waiting   between two ticks of the session                            *)
(*   reading   the loop of Telnet::Read around select() and recv()         *)
(*   parsing   the loop of Telnet::Read over the bytes                     *)
(*   line      Read has returned, GetBuf and ParseCommand are next         *)
(*   ended     ConnectionTerminated: the client has closed                 *)
(*   failed    SessionError: the session is removed                        *)
(***************************************************************************)
EXTENDS Integers, SequencesExt

CONSTANTS
  Said,        \* the tokens the clients of a run say
  MaxTokens    \* bound: tokens a client says

\* The bytes of a token.
Code == [
  a     |-> <<"a">>,
  space |-> <<"space">>,
  line  |-> <<"CR", "LF">>,
  data  |-> <<"IAC", "IAC">>,
  nop   |-> <<"IAC", "NOP">>,
  ayt   |-> <<"IAC", "AYT">>,
  ec    |-> <<"IAC", "EC">>,
  el    |-> <<"IAC", "EL">>,
  ga    |-> <<"IAC", "GA">>,
  will  |-> <<"IAC", "WILL", "echo">>,
  wont  |-> <<"IAC", "WONT", "echo">>,
  do    |-> <<"IAC", "DO", "echo">>,
  do0   |-> <<"IAC", "DO", "NUL">>]

Tokens == DOMAIN Code

ASSUME TelnetAssumption == Said \subseteq Tokens /\ MaxTokens \in Nat

VARIABLES
  said,      \* what the client has said
  arrived,   \* how many of its bytes the network has delivered
  taken,     \* how many recv() has returned
  buf,       \* buf of the Read that runs, the part not parsed
  readBuf,   \* Telnet::m_readBuf
  command,   \* TelnetCommand::m_buf, of m_byte bytes
  output,    \* what Telnet::Write has sent from inside Parse
  handled,   \* the commands ParseCommand returned; <<>> is a SyntaxError
  peer,      \* the client's end of the connection
  at         \* where the session is

network == <<said, arrived, peer>>
parser == <<readBuf, command, output>>
vars == <<network, taken, buf, parser, handled, at>>

\* The bytes of the first k tokens, for every k.
Encoded(tokens) ==
  LET e[k \in 0..Len(tokens)] == IF k = 0 THEN <<>> ELSE e[k - 1] \o Code[tokens[k]]
  IN  e

Stream == Encoded(said)[Len(said)]
Bytes == UNION {ToSet(Code[t]) : t \in Tokens}

TypeOK ==
  /\ said \in Seq(Said) /\ Len(said) <= MaxTokens
  /\ arrived \in 0..Len(Stream) /\ taken \in 0..arrived
  /\ buf \in Seq(Bytes) /\ Len(buf) <= taken
  /\ readBuf \in Seq(Bytes \ {"IAC"})
  /\ command \in {<<>>, <<"IAC">>} \cup {<<"IAC", b>> : b \in {"WILL", "WONT", "DO"}}
  /\ output \in Seq(Seq(Bytes \cup {"HELLO", "DONT"}))
  /\ handled \in Seq(Seq(Seq(Bytes \cup {"A"})))
  /\ peer \in {"up", "closed", "reset"}
  /\ at \in {"waiting", "reading", "parsing", "line", "ended", "failed"}

Init ==
  /\ said = <<>> /\ arrived = 0 /\ taken = 0
  /\ buf = <<>> /\ readBuf = <<>> /\ command = <<>>
  /\ output = <<>> /\ handled = <<>>
  /\ peer = "up"
  /\ at = "waiting"

Gone == at \in {"ended", "failed"}

-----------------------------------------------------------------------------
(* Telnet::Read: take what is there.                                       *)

\* SessionController ticks the session, for its control connection or for
\* another reason.
Tick ==
  /\ at = "waiting" /\ at' = "reading"
  /\ UNCHANGED <<network, taken, buf, parser, handled>>

\* select() finds the socket readable, recv() returns what has arrived.
Recv ==
  /\ at = "reading" /\ peer # "reset" /\ taken < arrived
  /\ buf' = buf \o SubSeq(Stream, taken + 1, arrived)
  /\ taken' = arrived
  /\ UNCHANGED <<network, parser, handled, at>>

\* The end of the connection: what this Read has taken goes with it.
RecvEnd ==
  /\ at = "reading" /\ peer = "closed" /\ taken = Len(Stream)
  /\ at' = "ended"
  /\ UNCHANGED <<network, taken, buf, parser, handled>>

RecvFails ==
  /\ at = "reading" /\ peer = "reset"
  /\ at' = "failed"
  /\ UNCHANGED <<network, taken, buf, parser, handled>>

NothingMore ==
  /\ at = "reading" /\ taken = arrived
  /\ peer # "reset"
  /\ peer = "closed" => taken < Len(Stream)
  /\ at' = "parsing"
  /\ UNCHANGED <<network, taken, buf, parser, handled>>

-----------------------------------------------------------------------------
(* TelnetCommand::Parse.                                                   *)

\* Telnet::Write: an IAC is doubled, a CRLF is appended.
Escaped(msg) ==
  LET e[k \in 0..Len(msg)] ==
        IF k = 0 THEN <<>>
        ELSE e[k - 1] \o (IF msg[k] = "IAC" THEN <<"IAC", "IAC">> ELSE <<msg[k]>>)
  IN  e[Len(msg)] \o <<"CR", "LF">>

\* The answer is sent, or send() fails.
Write(msg) ==
  \/ /\ peer # "reset"
     /\ output' = Append(output, Escaped(msg))
     /\ UNCHANGED at
  \/ /\ peer = "reset" /\ at' = "failed"
     /\ UNCHANGED output

\* A refusal is a C string: an option 0 is its end.
Refusal(verb, option) == <<"IAC", verb>> \o (IF option = "NUL" THEN <<>> ELSE <<option>>)

\* Telnet::EraseCharacter, which does not look at what it erases.
Erased(q) == IF q = <<>> THEN q ELSE Front(q)

Consume(b) == Head(buf) = b /\ buf' = Tail(buf)

Text ==
  /\ command = <<>> /\ Head(buf) # "IAC" /\ buf' = Tail(buf)
  /\ readBuf' = Append(readBuf, Head(buf))
  /\ UNCHANGED <<command, output, at>>

Begin ==
  /\ command = <<>> /\ Consume("IAC")
  /\ command' = <<"IAC">>
  /\ UNCHANGED <<readBuf, output, at>>

\* The second byte of a command of two, after which Reset.
Complete(b) == command = <<"IAC">> /\ Consume(b) /\ command' = <<>>

Ignored == Complete("NOP") /\ UNCHANGED <<readBuf, output, at>>
AreYouThere == Complete("AYT") /\ Write(<<"HELLO">>) /\ UNCHANGED readBuf
Doubled == Complete("IAC") /\ Write(<<"IAC">>) /\ UNCHANGED readBuf

Erase == Complete("EC") /\ readBuf' = Erased(readBuf) /\ UNCHANGED <<output, at>>

\* Mutant: WON'T is not in the switch.
RefuseWont ==
  /\ command = <<"IAC">>
  /\ Consume("EL") \/ Consume("GA") \/ Consume("WONT")
  /\ at' = "failed"
  /\ UNCHANGED parser

\* Parse() returns false, or EraseLine throws.
Refuse ==
  /\ command = <<"IAC">>
  /\ Consume("EL") \/ Consume("GA")
  /\ at' = "failed"
  /\ UNCHANGED parser

Negotiate ==
  /\ command = <<"IAC">>
  /\ \E verb \in {"WILL", "WONT", "DO"} : Consume(verb) /\ command' = Append(command, verb)
  /\ UNCHANGED <<readBuf, output, at>>

\* Mutant: no Reset after a command of three bytes.
OptionStays ==
  /\ Len(command) = 2 /\ buf' = Tail(buf)
  /\ command' = Append(command, Head(buf))
  /\ \/ command[2] = "WILL" /\ Write(Refusal("DONT", Head(buf)))
     \/ command[2] = "DO" /\ Write(Refusal("WONT", Head(buf)))
     \/ command[2] = "WONT" /\ UNCHANGED <<output, at>>
  /\ UNCHANGED readBuf

\* Mutant: DON'T for a DO.
OptionSwapped ==
  /\ Len(command) = 2 /\ buf' = Tail(buf)
  /\ command' = <<>>
  /\ \/ command[2] \in {"WILL", "DO"} /\ Write(Refusal("DONT", Head(buf)))
     \/ command[2] = "WONT" /\ UNCHANGED <<output, at>>
  /\ UNCHANGED readBuf

\* The third byte: WILL is answered with DON'T, DO with WON'T.
Option ==
  /\ Len(command) = 2 /\ buf' = Tail(buf)
  /\ command' = <<>>
  /\ \/ command[2] = "WILL" /\ Write(Refusal("DONT", Head(buf)))
     \/ command[2] = "DO" /\ Write(Refusal("WONT", Head(buf)))
     \/ command[2] = "WONT" /\ UNCHANGED <<output, at>>
  /\ UNCHANGED readBuf

Parse ==
  /\ at = "parsing" /\ buf # <<>>
  /\ \/ Text \/ Begin \/ Ignored \/ AreYouThere \/ Doubled
     \/ Erase \/ Refuse \/ Negotiate \/ Option
  /\ UNCHANGED <<network, taken, handled>>

\* Mutant: a command that is not complete does not outlive the Read.
ParsingEndsForgets ==
  /\ at = "parsing" /\ buf = <<>>
  /\ at' = IF \E i \in 1..(Len(readBuf) - 1) : SubSeq(readBuf, i, i + 1) = <<"CR", "LF">>
           THEN "line" ELSE "waiting"
  /\ command' = <<>>
  /\ UNCHANGED <<network, taken, buf, readBuf, output, handled>>

\* Mutant: only a line at the end of m_readBuf is noticed.
ParsingEndsLast ==
  /\ at = "parsing" /\ buf = <<>>
  /\ at' = IF IsSuffix(<<"CR", "LF">>, readBuf) THEN "line" ELSE "waiting"
  /\ UNCHANGED <<network, taken, buf, parser, handled>>

\* Read returns whether a line waits.
ParsingEnds ==
  /\ at = "parsing" /\ buf = <<>>
  /\ at' = IF \E i \in 1..(Len(readBuf) - 1) : SubSeq(readBuf, i, i + 1) = <<"CR", "LF">>
           THEN "line" ELSE "waiting"
  /\ UNCHANGED <<network, taken, buf, parser, handled>>

-----------------------------------------------------------------------------
(* Telnet::GetBuf and ParseCommand.                                        *)

\* Where the first line of q ends: at the CR of its CRLF.
LineEnd(q) ==
  Min({i \in 1..(Len(q) - 1) : SubSeq(q, i, i + 1) = <<"CR", "LF">>})

Upper(word) == [i \in DOMAIN word |-> IF word[i] = "a" THEN "A" ELSE word[i]]

\* The words before and after the first isspace(); an empty line is a
\* SyntaxError.
ParseCommand(text) ==
  LET spaces == {i \in DOMAIN text : text[i] \in {"space", "CR", "LF"}} IN
    IF text = <<>> THEN <<>>
    ELSE IF spaces = {} THEN <<Upper(text)>>
    ELSE <<Upper(SubSeq(text, 1, Min(spaces) - 1)),
           SubSeq(text, Min(spaces) + 1, Len(text))>>

\* One line, whatever waits behind it.
GetLine ==
  /\ at = "line" /\ at' = "waiting"
  /\ handled' = Append(handled, ParseCommand(SubSeq(readBuf, 1, LineEnd(readBuf) - 1)))
  /\ readBuf' = SubSeq(readBuf, LineEnd(readBuf) + 2, Len(readBuf))
  /\ UNCHANGED <<network, taken, buf, command, output>>

-----------------------------------------------------------------------------
(* The client and the network.  What they do while the bytes are parsed is *)
(* as if it was done right afterwards, but for a reset that Write sees.    *)

Outside == at \in {"waiting", "reading"}

Say ==
  /\ Outside /\ peer = "up" /\ Len(said) < MaxTokens
  /\ \E t \in Said : said' = Append(said, t)
  /\ UNCHANGED <<arrived, peer, taken, buf, parser, handled, at>>

Deliver ==
  /\ Outside /\ peer # "reset" /\ arrived < Len(Stream)
  /\ arrived' \in (arrived + 1)..Len(Stream)
  /\ UNCHANGED <<said, peer, taken, buf, parser, handled, at>>

Close ==
  /\ Outside /\ peer = "up" /\ peer' = "closed"
  /\ UNCHANGED <<said, arrived, taken, buf, parser, handled, at>>

Break ==
  /\ ~Gone /\ peer # "reset" /\ peer' = "reset"
  /\ UNCHANGED <<said, arrived, taken, buf, parser, handled, at>>

Session == Tick \/ Recv \/ RecvEnd \/ RecvFails \/ NothingMore \/ Parse \/ ParsingEnds \/ GetLine

Next == Session \/ Say \/ Deliver \/ Close \/ Break

Spec == Init /\ [][Next]_vars

\* A connection with something to read, or with an end, gets its tick; a tick
\* that has begun goes on; the network delivers, also if the session is often
\* busy (SF stands for a network that does not wait for it).
Readable ==
  at = "waiting" => taken < arrived \/ peer = "reset" \/ (peer = "closed" /\ taken = Len(Stream))

FairSpec == Spec /\ WF_vars(Readable /\ Session) /\ SF_vars(Deliver)

-----------------------------------------------------------------------------
(* What was said.                                                          *)

\* How many tokens are whole in the first n bytes.
WholeTokens(tokens, n) == Max({k \in 0..Len(tokens) : Len(Encoded(tokens)[k]) <= n})

\* What a token that asks for an answer gets.
Answers == [
  ayt  |-> <<"HELLO">>,
  will |-> <<"IAC", "IAC", "DONT", "echo">>,
  do   |-> <<"IAC", "IAC", "WONT", "echo">>,
  do0  |-> <<"IAC", "IAC", "WONT">>]

\* A token's effect for its sender: the words of the line that is being said,
\* the commands of the lines that are said, the answers, and whether an erase
\* was one that the server takes otherwise: one that found no character on its
\* line although lines were said, or that erased an escaped byte.  The byte 255,
\* escaped as IAC IAC, is a byte of the line (doc/rfc3659.txt:270).
Hears(t, s) ==
  CASE t = "a" /\ ~s.inArg -> [s EXCEPT !.verb = Append(@, "A")]
    [] t = "a" /\ s.inArg -> [s EXCEPT !.arg = Append(@, "a")]
    [] t = "data" /\ ~s.inArg -> [s EXCEPT !.verb = Append(@, "IAC")]
    [] t = "data" /\ s.inArg -> [s EXCEPT !.arg = Append(@, "IAC")]
    [] t = "space" /\ ~s.inArg -> [s EXCEPT !.inArg = TRUE]
    [] t = "space" /\ s.inArg -> [s EXCEPT !.arg = Append(@, "space")]
    [] t = "ec" /\ s.arg # <<>> ->
         [s EXCEPT !.arg = Front(@), !.torn = @ \/ Last(s.arg) = "IAC"]
    [] t = "ec" /\ s.arg = <<>> /\ s.inArg -> [s EXCEPT !.inArg = FALSE]
    [] t = "ec" /\ ~s.inArg /\ s.verb # <<>> ->
         [s EXCEPT !.verb = Front(@), !.torn = @ \/ Last(s.verb) = "IAC"]
    [] t = "ec" /\ ~s.inArg /\ s.verb = <<>> -> [s EXCEPT !.torn = @ \/ s.lines # <<>>]
    [] t = "line" ->
         [s EXCEPT !.lines = Append(@, IF s.inArg THEN <<s.verb, s.arg>>
                                       ELSE IF s.verb = <<>> THEN <<>> ELSE <<s.verb>>),
                   !.verb = <<>>, !.arg = <<>>, !.inArg = FALSE]
    [] t \in DOMAIN Answers ->
         [s EXCEPT !.answers = Append(@, Answers[t] \o <<"CR", "LF">>)]
    [] OTHER -> s

Silence ==
  [lines |-> <<>>, answers |-> <<>>, verb |-> <<>>, arg |-> <<>>, inArg |-> FALSE, torn |-> FALSE]

\* What the first k tokens mean, for every k.
Meaning(tokens) ==
  LET m[k \in 0..Len(tokens)] == IF k = 0 THEN Silence ELSE Hears(tokens[k], m[k - 1])
  IN  m

\* What the tokens that are parsed mean.
Parsed == WholeTokens(said, taken - Len(buf))
Heard == Meaning(said)[Parsed]

\* The commands of the lines in the first i bytes of q, as GetBuf will return
\* them, and the text behind these lines, for every i.
AddByte(w, b) ==
  IF b = "LF" /\ w.text # <<>> /\ Last(w.text) = "CR"
  THEN [done |-> Append(w.done, ParseCommand(Front(w.text))), text |-> <<>>]
  ELSE [w EXCEPT !.text = Append(@, b)]

Lines(q) ==
  LET w[i \in 0..Len(q)] ==
        IF i = 0 THEN [done |-> <<>>, text |-> <<>>] ELSE AddByte(w[i - 1], q[i])
  IN  w

\* The commands that wait in m_readBuf.
Waiting == Lines(readBuf)[Len(readBuf)].done

-----------------------------------------------------------------------------
(* Properties.                                                             *)

\* q without the members that are x.
Without(q, x) ==
  LET w[k \in 0..Len(q)] ==
        IF k = 0 THEN <<>> ELSE IF q[k] = x THEN w[k - 1] ELSE Append(w[k - 1], q[k])
  IN  w[Len(q)]

\* A command without its escaped bytes: a line of nothing else is empty.
Stripped(c) ==
  IF Len(c) = 1 /\ Without(c[1], "IAC") = <<>> THEN <<>>
  ELSE [i \in DOMAIN c |-> Without(c[i], "IAC")]

\* Telnet::Write of the one byte 255.
Echo == <<"IAC", "IAC", "CR", "LF">>

\* The commands handled and those that wait are what the client has said, each
\* once and in order, wherever the network cut the stream, and whatever Telnet
\* command stands in the middle of a word; only the bytes 255 are missing from
\* them, each escaped as IAC IAC and dropped (TelnetCommand.cpp:79), which is
\* not what the client has said: EscapedIsData below.  An erase at the start of
\* a line, or of an escaped byte, is excused: it takes another byte
\* (Telnet.cpp:155).
CommandsAreSaid ==
  Heard.torn \/ handled \o Waiting = [i \in DOMAIN Heard.lines |-> Stripped(Heard.lines[i])]

\* Each Telnet command that asks for an answer gets one, in its turn; the echoes
\* of escaped bytes, for which nobody has asked, are left aside.
AnswersInOrder == at # "failed" => Without(output, Echo) = Heard.answers

\* A session ends with an error only when the client asked for what the server
\* refuses or the connection broke, never for the way the bytes were cut.
FailureExcused == at = "failed" => peer = "reset" \/ "el" \in ToSet(said) \/ "ga" \in ToSet(said)

\* The first line a client says is handled, however many Reads its bytes take.
FirstLineHandled ==
  LET all == Meaning(said)[Len(said)] IN
    all.lines # <<>> ~> handled # <<>> \/ Gone \/ all.torn

-----------------------------------------------------------------------------
(* Why they hold.                                                          *)

\* The bytes behind the whole tokens, of a token that is cut.
Begun(tokens, n) ==
  SubSeq(Encoded(tokens)[Len(tokens)], Len(Encoded(tokens)[WholeTokens(tokens, n)]) + 1, n)

\* What the server makes of a token: the escaped byte is dropped and echoed.
Receives(t, s) ==
  IF t = "data" THEN [s EXCEPT !.answers = Append(@, Echo)] ELSE Hears(t, s)

Reception(tokens) ==
  LET m[k \in 0..Len(tokens)] == IF k = 0 THEN Silence ELSE Receives(tokens[k], m[k - 1])
  IN  m

Received == Reception(said)[Parsed]

LinesReceived == Received.torn \/ handled \o Waiting = Received.lines

AnswersGiven == at # "failed" => output = Received.answers

\* What a client that erases nothing more has typed on its line.
Typed(s) == [i \in DOMAIN s.verb |-> "a"] \o (IF s.inArg THEN <<"space">> \o s.arg ELSE <<>>)

\* The Read that runs has the next bytes of the stream, and the parser has what
\* has begun: a command in m_buf of TelnetCommand, the CR of a line in m_readBuf.
InStep ==
  LET begun == Begun(said, taken - Len(buf)) IN
    /\ buf = SubSeq(Stream, taken - Len(buf) + 1, taken)
    /\ at # "failed" => command = IF begun = <<"CR">> THEN <<>> ELSE begun
    /\ Received.torn \/
         Lines(readBuf)[Len(readBuf)].text
           = Typed(Received) \o (IF begun = <<"CR">> THEN begun ELSE <<>>)

\* GetBuf finds what Read has found.
LineThere ==
  at = "line" => \E i \in 1..(Len(readBuf) - 1) : SubSeq(readBuf, i, i + 1) = <<"CR", "LF">>

TelnetInv == TypeOK /\ InStep /\ LineThere /\ LinesReceived /\ AnswersGiven /\ FailureExcused

-----------------------------------------------------------------------------
(* What the documents say and the code does not do.                        *)

\* What the client's own Telnet makes of a byte it receives.
Understands(b, s) ==
  CASE s.command = <<>> -> IF b = "IAC" THEN [s EXCEPT !.command = <<b>>] ELSE s
    [] Len(s.command) = 1 ->
         [s EXCEPT !.command = IF b \in {"DONT", "WONT"} THEN Append(@, b) ELSE <<>>]
    [] OTHER -> [command |-> <<>>, refused |-> s.refused + 1]

\* doc/rfc1123.txt:1974 "a server-FTP MUST be capable of accepting and refusing
\* Telnet negotiations (i.e., sending DONT/WONT)".  Parse builds the refusal,
\* and Telnet::Write doubles its IAC, which makes it text.
NegotiationsRefused ==
  at = "waiting" =>
    FoldLeft(LAMBDA s, b : Understands(b, s), [command |-> <<>>, refused |-> 0],
             FlattenSeq(output)).refused
      = Len(SelectSeq(SubSeq(said, 1, Parsed), LAMBDA t : t \in {"will", "do", "do0"}))

\* doc/rfc3659.txt:270 "the Telnet IAC character, if part of a pathname sent
\* over the control connection, MUST be correctly escaped as defined by the
\* Telnet protocol", so that IAC IAC is that byte of the line.  Parse drops it.
EscapedIsData == Heard.torn \/ handled \o Waiting = Heard.lines
=============================================================================
