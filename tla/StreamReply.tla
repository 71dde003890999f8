---------------------------- MODULE StreamReply ----------------------------
(***************************************************************************)
(* What a user of /v1/chat/completions or /v1/completions may rely on when *)
(* the reply is streamed: events come in the order of the OpenAI contract, *)
(* the texts are the node's own, in order and without a gap, and the end   *)
(* says no more than the node did.  Nothing is said of chunks and buffers. *)
(***************************************************************************)
EXTENDS Naturals, FiniteSets, Sequences, SequencesExt

VARIABLES
    contract, \* "chat" or "completion"
    made,     \* how many texts the node has made
    ending,   \* the node's last line: "none" yet, "done" or "error"
    link,     \* the connection to the node: "open", "closed" by the node, or "broken"
    got       \* the events the user has got

replyVars == <<contract, made, ending, link, got>>

Role == <<"role", 0>>
Text(i) == <<"text", i>>
Finish == <<"finish", 0>>
Usage == <<"usage", 0>>
Error == <<"error", 0>>
Done == <<"done", 0>>

TextsIn(events) == {i \in DOMAIN events : events[i][1] = "text"}
Told(events, e) == \E i \in DOMAIN events : events[i] = e

Turn(e) ==
    CASE e = Role -> 1 [] e[1] = "text" -> 2 [] e = Finish -> 3 [] e = Error -> 4
      [] e = Usage -> 5 [] OTHER -> 6

\* An order the contract knows: a chat opens with the role; a finish or an error comes
\* after every text, an error after a finish that the node has sent before it, usage after
\* a finish and never with an error, and [DONE] last.
InOrder(c, events) ==
    /\ \A i, j \in DOMAIN events : i < j =>
          \/ Turn(events[i]) < Turn(events[j])
          \/ events[i][1] = "text" /\ events[j][1] = "text"
    /\ c = "chat" /\ events # <<>> => events[1] = Role
    /\ Told(events, Usage) => Told(events, Finish) /\ ~Told(events, Error)

\* What is told is true of the node and the connection to it: the node's first texts, one
\* after the other, and their end.  An error behind a finish is thus one of the connection.
IsTrue(events, texts, end, connection) ==
    /\ \A i \in TextsIn(events) : events[i] = Text(Cardinality({j \in TextsIn(events) : j <= i}))
    /\ Cardinality(TextsIn(events)) <= texts
    /\ Told(events, Finish) => end = "done" /\ Cardinality(TextsIn(events)) = texts
    /\ Told(events, Error) => end = "error" \/ connection = "broken"
    /\ Told(events, Done) => Told(events, Error) \/ connection # "open"

ReplyInit ==
    /\ contract \in {"chat", "completion"}
    /\ made = 0 /\ ending = "none" /\ link = "open" /\ got = <<>>

\* The node goes on, writes its last line, or is gone: with it or without.
Produce ==
    /\ ending = "none" /\ link = "open"
    /\ made' = made + 1
    /\ UNCHANGED <<contract, ending, link, got>>

Close ==
    /\ ending = "none" /\ link = "open"
    /\ ending' \in {"done", "error"}
    /\ UNCHANGED <<contract, made, link, got>>

HangUp ==
    /\ link = "open"
    /\ link' \in {"closed", "broken"}
    /\ UNCHANGED <<contract, made, ending, got>>

\* The user is told more.
Tell ==
    /\ IsPrefix(got, got')
    /\ InOrder(contract, got') /\ IsTrue(got', made, ending, link)
    /\ UNCHANGED <<contract, made, ending, link>>

ReplyNext == Produce \/ Close \/ HangUp \/ Tell

ReplySpec == ReplyInit /\ [][ReplyNext]_replyVars

=============================================================================
