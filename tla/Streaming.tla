------------------------------ MODULE Streaming ------------------------------
(***************************************************************************)
(* One streamed generation, from the node's lines to the user's events:    *)
(* the node writes NDJSON, the transport hands it on in chunks that are    *)
(* not aligned to lines, stream_ndjson counts tokens, watches for the end  *)
(* and turns a break into a line of its own, and the OpenAI contract's     *)
(* converter buffers, parses and answers in events.                        *)
(*                                                                         *)
(* A line is three pieces: two halves of its JSON and the newline.  Which  *)
(* node serves the stream, and what opening it may do, is Upstream's and   *)
(* Dispatch's subject: here it opens or fails.                             *)
(***************************************************************************)
EXTENDS StreamReply, FiniteSets

CONSTANTS
    MaxTexts,      \* bound on the lines with text
    IncludeUsage   \* stream_options.include_usage

ASSUME StreamingAssumption == MaxTexts \in Nat /\ IncludeUsage \in BOOLEAN

VARIABLES
    wire,      \* pieces the node has written and nobody has read
    rest,      \* the converter's buffer
    stream,    \* where the stream is
    bytes,     \* pieces stream_ndjson has passed on: bytes_out, and first_byte once it is not 0
    counted,   \* record_tokens will add the tokens of the last line
    slot,      \* the node's slot: "free", "held", or "returned" with an outcome
    outcome    \* what observe was told

streamVars == <<wire, rest, stream, bytes, counted, slot, outcome>>
streamingVars == <<replyVars, streamVars>>

Line(e) == << <<e, 1>>, <<e, 2>>, <<e, 3>> >>     \* its halves and its newline
Lines == {Text(i) : i \in 1 .. MaxTexts} \cup {Finish, Error}
Pieces == Lines \X (1 .. 3)
Stages == {"new", "opening", "flowing", "leaving", "failing", "over", "gone"}

StreamingTypeOK ==
    /\ contract \in {"chat", "completion"}
    /\ made \in 0 .. MaxTexts /\ ending \in {"none", "done", "error"}
    /\ link \in {"open", "closed", "broken"}
    /\ got \in Seq(Lines \cup {Role, Usage, Done})
    /\ wire \in Seq(Pieces) /\ rest \in Seq(Pieces)
    /\ stream \in Stages /\ bytes \in Nat /\ counted \in BOOLEAN
    /\ slot \in {"free", "held", "returned"} /\ outcome \in {"none", "ok", "failed"}

StreamingInit ==
    /\ ReplyInit
    /\ wire = <<>> /\ rest = <<>> /\ stream = "new" /\ bytes = 0
    /\ counted = FALSE /\ slot = "free" /\ outcome = "none"

-----------------------------------------------------------------------------
(* The node                                                                 *)

Writes == slot = "held" /\ ending = "none" /\ link = "open"

WriteText ==
    /\ Writes /\ made < MaxTexts
    /\ made' = made + 1 /\ wire' = wire \o Line(Text(made + 1))
    /\ UNCHANGED <<contract, ending, link, got, rest, stream, bytes, counted, slot, outcome>>

\* The last line, with the counts, or a line that tells an error; then the end.
WriteLast ==
    /\ Writes
    /\ \/ ending' = "done" /\ wire' = wire \o Line(Finish)
       \/ ending' = "error" /\ wire' = wire \o Line(Error)
    /\ UNCHANGED <<contract, made, link, got, rest, stream, bytes, counted, slot, outcome>>

\* The connection ends, cleanly or not, or the read times out, wherever the node's lines
\* have got to, behind the last one too; what is on its way may be lost from any point on.
Disconnect ==
    /\ slot = "held" /\ link = "open"
    /\ link' \in {"closed", "broken"}
    /\ \E k \in 0 .. Len(wire) : wire' = SubSeq(wire, 1, k)
    /\ UNCHANGED <<contract, made, ending, got, rest, stream, bytes, counted, slot, outcome>>

-----------------------------------------------------------------------------
(* The converter                                                            *)

\* Mutant: what is left of a chunk after its last newline is not kept.
LeftOverDropped(state) == <<>>

\* _ndjson_lines: the buffer behind the last newline is kept for the next chunk.
LeftOver(state) == state.line

\* A line that is not one JSON object is passed over.
Parses(line) == Len(line) = 2 /\ line[1][1] = line[2][1] /\ line[1][2] = 1 /\ line[2][2] = 2

\* to_chat_sse, to_completion_sse: an error is followed by [DONE], and ends the reply.
EventsOf(line) ==
    IF ~Parses(line) THEN <<>> ELSE IF line[1][1] = Error THEN <<Error, Done>> ELSE <<line[1][1]>>

\* One piece more: a newline completes the line before it.  Behind an error nothing is
\* read any more.
Feed(state, piece) ==
    IF Told(state.events, Error) THEN state
    ELSE IF piece[2] = 3 THEN [line |-> <<>>, events |-> state.events \o EventsOf(state.line)]
    ELSE [line |-> Append(state.line, piece), events |-> state.events]

\* What a chunk adds to the buffer and to the events, piece by piece.
Converted(chunk) ==
    LET after[i \in 0 .. Len(chunk)] ==
            IF i = 0 THEN [line |-> rest, events |-> <<>>] ELSE Feed(after[i - 1], chunk[i])
    IN  after[Len(chunk)]

\* Usage and [DONE], when there is no more to read.
Closing(events) ==
    IF Told(events, Error) THEN <<>>
    ELSE (IF IncludeUsage /\ contract = "chat" /\ Told(events, Finish) THEN <<Usage>> ELSE <<>>) \o <<Done>>

\* _stream_tokens looks at one chunk: the last line counts if it is in it as a whole.
CountsTokens(chunk) == \E i \in 1 .. Len(chunk) - 1 : chunk[i] = <<Finish, 1>> /\ chunk[i + 1] = <<Finish, 2>>

-----------------------------------------------------------------------------
(* The stream                                                               *)

\* to_chat_sse speaks first, before a node is asked for.
Greet ==
    /\ stream = "new"
    /\ got' = IF contract = "chat" THEN <<Role>> ELSE <<>>
    /\ stream' = "opening"
    /\ UNCHANGED <<contract, made, ending, link, wire, rest, bytes, counted, slot, outcome>>

\* _open_stream, with a status below 400.
Open ==
    /\ stream = "opening"
    /\ stream' = "flowing" /\ slot' = "held"
    /\ UNCHANGED <<replyVars, wire, rest, bytes, counted, outcome>>

\* stream_ndjson's finally: the slot is returned and the outcome recorded.
Settle(result) == slot' = "returned" /\ outcome' = result

\* No node, no connection, a status of 400 and above: an exception in a reply that has
\* begun.
FailToOpen ==
    /\ stream = "opening"
    /\ stream' = "over"
    /\ UNCHANGED <<slot, outcome>> \/ Settle("failed")
    /\ UNCHANGED <<replyVars, wire, rest, bytes, counted>>

\* A chunk, of whatever length, passes through.
Read ==
    /\ stream = "flowing"
    /\ \E k \in 1 .. Len(wire) :
          LET chunk == SubSeq(wire, 1, k)
              after == Converted(chunk)
          IN  /\ wire' = SubSeq(wire, k + 1, Len(wire))
              /\ rest' = LeftOver(after)
              /\ got' = got \o after.events
              /\ counted' = (counted \/ CountsTokens(chunk))
              /\ bytes' = bytes + k
              /\ stream' = IF Told(after.events, Error) THEN "leaving" ELSE stream
    /\ UNCHANGED <<contract, made, ending, link, slot, outcome>>

\* Mutant: the buffer behind the last newline is not parsed when the node has closed.
EndWithoutTail ==
    /\ stream = "flowing" /\ wire = <<>> /\ link = "closed"
    /\ got' = got \o Closing(got)
    /\ stream' = "over" /\ rest' = <<>>
    /\ Settle("ok")
    /\ UNCHANGED <<contract, made, ending, link, wire, bytes, counted>>

\* The node has closed: what is left in the buffer may be a line without its newline.
EndOfStream ==
    /\ stream = "flowing" /\ wire = <<>> /\ link = "closed"
    /\ got' = LET all == got \o EventsOf(rest) IN all \o Closing(all)
    /\ stream' = "over" /\ rest' = <<>>
    /\ Settle("ok")
    /\ UNCHANGED <<contract, made, ending, link, wire, bytes, counted>>

\* A break behind the first byte: a line that tells the error is put into the stream.  A
\* converter that reads it returns, and stream_ndjson stays where it yields the line;
\* behind a piece of a line it is not read, and stream_ndjson comes to its end.
TellBreak ==
    /\ stream = "flowing" /\ wire = <<>> /\ link = "broken" /\ bytes > 0
    /\ LET all == got \o Converted(Line(Error)).events IN
          /\ got' = all \o Closing(all)
          /\ \/ Told(all, Error) /\ stream' = "failing" /\ UNCHANGED <<slot, outcome>>
             \/ ~Told(all, Error) /\ stream' = "over" /\ Settle("failed")
    /\ rest' = <<>>
    /\ UNCHANGED <<contract, made, ending, link, wire, bytes, counted>>

\* A break before it: an exception, and the reply is cut off.
RaiseBreak ==
    /\ stream = "flowing" /\ wire = <<>> /\ link = "broken" /\ bytes = 0
    /\ stream' = "over"
    /\ Settle("failed")
    /\ UNCHANGED <<replyVars, wire, rest, bytes, counted>>

\* to_chat_sse returned at an error and left the iterator of the node's lines where it
\* was; the event loop closes it some time later: behind a line of the node's, which is no
\* failure, or behind the line that tells of a break.
CloseLeftStream ==
    /\ \/ stream = "leaving" /\ Settle("ok")
       \/ stream = "failing" /\ Settle("failed")
    /\ stream' = "over"
    /\ UNCHANGED <<replyVars, wire, rest, bytes, counted>>

\* Mutant: the slot is returned behind the loop, not in its finally.
ClientLeavesKeeping ==
    /\ stream = "flowing"
    /\ stream' = "gone"
    /\ UNCHANGED <<replyVars, wire, rest, bytes, counted, slot, outcome>>

\* The user goes away: the cancellation, or the closing of the generator.
ClientLeaves ==
    /\ stream = "flowing"
    /\ stream' = "gone"
    /\ Settle("ok")
    /\ UNCHANGED <<replyVars, wire, rest, bytes, counted>>

StreamingNext ==
    \/ WriteText \/ WriteLast \/ Disconnect
    \/ Greet \/ Open \/ FailToOpen \/ Read \/ EndOfStream \/ TellBreak \/ RaiseBreak \/ CloseLeftStream \/ ClientLeaves

\* The read timeout ends a node that is silent; a user who does not go away takes the
\* chunks, and generators that are left are closed.
StreamingFair ==
    /\ WF_streamingVars(Disconnect)
    /\ WF_streamingVars(Read) /\ WF_streamingVars(EndOfStream) /\ WF_streamingVars(TellBreak)
    /\ WF_streamingVars(RaiseBreak)
    /\ WF_streamingVars(CloseLeftStream)

StreamingSpec == StreamingInit /\ [][StreamingNext]_streamingVars /\ StreamingFair

-----------------------------------------------------------------------------
(* Properties                                                               *)

\* Whatever the chunks, the user gets what StreamReply promises: no text lost, doubled
\* or out of order, and an end that the node has really come to (to_chat_sse,
\* to_completion_sse, _ndjson_lines).
Reply == INSTANCE StreamReply
KeepsReplyPromise == Reply!ReplySpec

\* However a stream ends, the node gets its slot back and the outcome is recorded.
StreamSettles == slot = "held" ~> (slot = "returned" /\ outcome # "none")

\* What a stream that began has told at its end is settled by how many bytes it passed on,
\* however they were cut into chunks: every line among them, the last one also without its
\* newline if the node closed behind it; a finish if the node's last line is among them; and
\* a break, behind the finish too, if and only if they end between two lines, as the line
\* that tells of it is otherwise lost with the piece of a line it is put behind
\* (_ndjson_lines, to_chat_sse, stream_ndjson).
Unended == link = "closed" /\ bytes % 3 = 2
LinesPassed == (bytes \div 3) + (IF Unended THEN 1 ELSE 0)
ToldAsPassed ==
    /\ Cardinality(TextsIn(got)) = IF LinesPassed <= made THEN LinesPassed ELSE made
    /\ Told(got, Finish) <=> ending = "done" /\ LinesPassed > made
    /\ Told(got, Error) <=> \/ ending = "error" /\ LinesPassed > made
                            \/ link = "broken" /\ bytes % 3 = 0
ToldByBytes == stream = "over" /\ bytes > 0 => ToldAsPassed

\* A break behind the first byte is told.  It is not: see the run.
BreakIsTold ==
    stream = "over" /\ link = "broken" /\ TextsIn(got) # {} => Told(got, Error)

\* The tokens of a reply that came to its finish are counted.  They are not always: see
\* the README.
FinishedIsCounted == stream = "over" /\ Told(got, Finish) => counted

=============================================================================
