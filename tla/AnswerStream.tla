---------------------------- MODULE AnswerStream ----------------------------
(***************************************************************************)
(* How the local proxy gives an upstream answer to its client.  Codex      *)
(* always streams server-sent events; the client asked for Chat            *)
(* Completions or for Responses, streamed or whole.  The bytes arrive cut  *)
(* anywhere, and the stream may end well, report a failure, or break.      *)
(*                                                                         *)
(* An answer is a sequence of messages and function calls.  Their texts    *)
(* and arguments come in parts 1, 2, ..., so that a part lost, doubled or  *)
(* added to another call shows.  On the wire the data of an event is one   *)
(* symbol and its blank line two or four.  Identifiers, models, reasoning  *)
(* summaries and usage are left out.                                       *)
(***************************************************************************)
EXTENDS Integers, Sequences
LOCAL INSTANCE SequencesExt

CONSTANTS
  MaxItems,     \* bound: items of an answer
  MaxParts,     \* bound: parts of an item
  MaxAhead      \* bound: symbols on the wire before another event is sent

ASSUME AnswerBounds ==
  MaxItems \in Nat /\ MaxParts \in Nat \ {0} /\ MaxAhead \in Nat

VARIABLES
  client,       \* what was asked for
  newline,      \* how the upstream ends its lines
  writing,      \* the item it is writing
  answer,       \* the items it has finished
  said,         \* its last event, or "nothing"
  sending,      \* whether its stream is open, closed or broken
  wire,         \* symbols sent and not read
  buffer,       \* SseDecoder.buffer
  chat,         \* ChatStreamState
  got,          \* what the client has put together
  input         \* the input of the client's next request

answerVars ==
  <<client, newline, writing, answer, said, sending, wire, buffer, chat, got, input>>
upstreamVars == <<client, newline, writing, answer, said, sending>>
proxyVars == <<buffer, chat, got, input>>

Clients == {"chat stream", "chat whole", "responses stream", "responses whole"}
Streamed == {"chat stream", "responses stream"}
Nothing == [kind |-> "nothing", parts |-> 0]
Lf == [type |-> "lf"]
Cr == [type |-> "cr"]
Parts(n) == [k \in 1..n |-> k]
NoAnswer == [calls |-> <<>>, text |-> <<>>, ending |-> "none", closed |-> FALSE]

AnswerTypeOK ==
  /\ client \in Clients /\ newline \in {"lf", "crlf"}
  /\ writing.kind \in {"nothing", "message", "call", "told"} /\ writing.parts \in 0..MaxParts
  /\ answer \in Seq([kind: {"message", "call"}, id: 1..MaxItems, parts: 1..MaxParts])
  /\ said \in {"nothing", "completed", "incomplete", "failed"}
  /\ sending \in {"open", "closed", "broken"}
  /\ got.ending \in {"none", "stop", "tool_calls", "length", "error"} /\ got.closed \in BOOLEAN
  /\ chat.index \in -1..MaxItems /\ chat.delta \in BOOLEAN /\ chat.announced \in BOOLEAN

AnswerStart ==
  /\ newline \in {"lf", "crlf"}
  /\ writing = Nothing /\ answer = <<>> /\ said = "nothing" /\ sending = "open"
  /\ wire = <<>> /\ buffer = <<>> /\ got = NoAnswer /\ input = <<>>
  /\ chat = [index |-> -1, delta |-> FALSE, announced |-> FALSE]
AnswerInit == client \in Clients /\ AnswerStart

-----------------------------------------------------------------------------
(* The upstream.                                                           *)

BlankLine == IF newline = "lf" THEN <<Lf, Lf>> ELSE <<Cr, Lf, Cr, Lf>>

\* Only a streamed answer is read before the upstream has ended.
Sends(event, after) ==
  /\ sending = "open" /\ said = "nothing"
  /\ client \in Streamed => Len(wire) <= MaxAhead
  /\ wire' = wire \o <<event>> \o after
  /\ UNCHANGED <<client, newline, sending, proxyVars>>

\* response.output_item.added
Announces(kind) ==
  /\ writing = Nothing /\ Len(answer) < MaxItems
  /\ writing' = [kind |-> kind, parts |-> 0]
  /\ Sends([type |-> "added", kind |-> kind, id |-> Len(answer) + 1], BlankLine)
  /\ UNCHANGED <<answer, said>>

\* response.output_text.delta, response.function_call_arguments.delta
WritesPart ==
  /\ writing.kind \in {"message", "call"} /\ writing.parts < MaxParts
  /\ writing' = [writing EXCEPT !.parts = @ + 1]
  /\ Sends([type |-> "delta", kind |-> writing.kind, part |-> writing'.parts], BlankLine)
  /\ UNCHANGED <<answer, said>>

\* response.function_call_arguments.done, which tells all of them at once.
TellsArguments(parts) ==
  /\ writing.kind = "call" /\ (writing.parts # 0 => parts = writing.parts)
  /\ writing' = [kind |-> "told", parts |-> parts]
  /\ Sends([type |-> "arguments", parts |-> parts], BlankLine)
  /\ UNCHANGED <<answer, said>>

\* response.output_item.done
Finishes(kind, parts) ==
  LET item == [kind |-> kind, id |-> Len(answer) + 1, parts |-> parts] IN
  /\ answer' = Append(answer, item)
  /\ writing' = Nothing
  /\ Sends([type |-> "item", item |-> item], BlankLine)
  /\ UNCHANGED said

FinishesItem ==
  /\ writing.parts > 0
  /\ Finishes(IF writing.kind = "message" THEN "message" ELSE "call", writing.parts)

\* A call whose first event is its last.
FinishesUnannounced(parts) ==
  /\ writing = Nothing /\ Len(answer) < MaxItems
  /\ Finishes("call", parts)

\* The last event, whose blank line may be missing.  A completed response gives its
\* items, or none when they are not stored.
Ends(event) ==
  /\ event.type = "completed" => writing = Nothing /\ event.output \in {<<>>, answer}
  /\ \E after \in {BlankLine, <<>>} : Sends(event, after)
  /\ said' = event.type
  /\ UNCHANGED <<writing, answer>>

\* After its last event, or without one.
Closes ==
  /\ sending = "open"
  /\ sending' = "closed"
  /\ UNCHANGED <<client, newline, writing, answer, said, wire, proxyVars>>

Breaks ==
  /\ sending = "open"
  /\ sending' = "broken"
  /\ UNCHANGED <<client, newline, writing, answer, said, wire, proxyVars>>

-----------------------------------------------------------------------------
(* SseDecoder.                                                             *)

Matches(symbols, i, what) ==
  i + Len(what) - 1 <= Len(symbols) /\ SubSeq(symbols, i, i + Len(what) - 1) = what
CrLfs == <<Cr, Lf, Cr, Lf>>

\* find_sse_boundary; 0 when no event is whole yet.
Boundary(symbols) ==
  LET First(what) ==
        LET at == {i \in DOMAIN symbols : Matches(symbols, i, what)}
        IN  IF at = {} THEN 0 ELSE CHOOSE i \in at : \A j \in at : i <= j
  IN  IF First(CrLfs) # 0 THEN First(CrLfs) ELSE First(<<Lf, Lf>>)

\* parse_sse_event: a block without one event's data is none.
Parsed(block) ==
  LET data == SelectSeq(block, LAMBDA symbol : symbol \notin {Cr, Lf})
  IN  IF Len(data) = 1 THEN data ELSE <<>>

\* take_ready_events
TakesOne(taken) ==
  LET b == Boundary(taken.rest)
      skip == b + (IF Matches(taken.rest, b, CrLfs) THEN 4 ELSE 2)
  IN  IF b = 0 THEN taken
      ELSE [events |-> taken.events \o Parsed(SubSeq(taken.rest, 1, b - 1)),
            rest |-> SubSeq(taken.rest, skip, Len(taken.rest))]
Ready(symbols) ==
  LET after[n \in 0..Len(symbols)] ==
        IF n = 0 THEN [events |-> <<>>, rest |-> symbols] ELSE TakesOne(after[n - 1])
  IN  after[Len(symbols)]

-----------------------------------------------------------------------------
(* What the client makes of the events it is given.                        *)

\* The first end it is told is the one it believes.
Told(view, ending) == IF view.ending = "none" THEN [view EXCEPT !.ending = ending] ELSE view

\* A Chat Completions client adds arguments to the call of the index they come with.
Adds(view, index, parts) ==
  IF index + 1 \in DOMAIN view.calls
  THEN [view EXCEPT !.calls = [@ EXCEPT ![index + 1] = [@ EXCEPT !.args = @ \o parts]]]
  ELSE [view EXCEPT !.ending = "error"]
NewCall(view, id, parts) == [view EXCEPT !.calls = Append(@, [id |-> id, args |-> parts])]
Text(view, part) == [view EXCEPT !.text = Append(@, part)]

\* translate_sse_event_to_chat_chunk, and the client that reads the chunk.
CallFinishedAgain(s, event) ==                   \* variant: announced or not
  [chat |-> [s.chat EXCEPT !.index = @ + 1],
   got |-> NewCall(s.got, event.item.id, Parts(event.item.parts))]
CallFinished(s, event) ==
  IF s.chat.announced
  THEN [s EXCEPT !.chat = [@ EXCEPT !.announced = FALSE]]
  ELSE [chat |-> [s.chat EXCEPT !.index = @ + 1],
        got |-> NewCall(s.got, event.item.id, Parts(event.item.parts))]

ArgumentsTold(s, event) ==
  IF s.chat.delta THEN s
  ELSE [s EXCEPT !.got = Adds(@, s.chat.index, Parts(event.parts))]

LastEvent(event) == event.type \in {"completed", "incomplete", "failed"}

\* incomplete_finish_reason, or an error.
EndDropped(s, event) ==                          \* variant: failures are not passed on
  IF event.type = "completed"
  THEN [s EXCEPT !.got = Told(@, IF s.chat.index >= 0 THEN "tool_calls" ELSE "stop")]
  ELSE s
EndTold(s, event) ==
  LET ending == IF event.type = "completed"
                THEN IF s.chat.index >= 0 THEN "tool_calls" ELSE "stop"
                ELSE IF event.type = "incomplete" THEN "length" ELSE "error"
  IN  [s EXCEPT !.got = Told(@, ending)]

ChatChunk(s, event) ==
  IF event.type = "added" /\ event.kind = "call"
  THEN [chat |-> [index |-> s.chat.index + 1, delta |-> FALSE, announced |-> TRUE],
        got |-> NewCall(s.got, event.id, <<>>)]
  ELSE IF event.type = "delta" /\ event.kind = "call"
  THEN [chat |-> [s.chat EXCEPT !.delta = TRUE],
        got |-> Adds(s.got, s.chat.index, <<event.part>>)]
  ELSE IF event.type = "delta" THEN [s EXCEPT !.got = Text(@, event.part)]
  ELSE IF event.type = "arguments" THEN ArgumentsTold(s, event)
  ELSE IF event.type = "item" /\ event.item.kind = "call" THEN CallFinished(s, event)
  ELSE IF LastEvent(event) THEN EndTold(s, event)
  ELSE s

\* build_passthrough_sse_response: a Responses client reads the events themselves.
Passed(s, event) ==
  [s EXCEPT !.got =
     IF event.type = "delta" /\ event.kind = "message" THEN Text(@, event.part)
     ELSE IF event.type = "item" /\ event.item.kind = "call"
     THEN NewCall(@, event.item.id, Parts(event.item.parts))
     ELSE IF LastEvent(event)
     THEN Told(@, IF event.type = "completed" THEN "stop"
                  ELSE IF event.type = "incomplete" THEN "length" ELSE "error")
     ELSE @]

Gives(s, event) == IF client = "chat stream" THEN ChatChunk(s, event) ELSE Passed(s, event)
Given(events) == FoldLeft(Gives, [chat |-> chat, got |-> got], events)

-----------------------------------------------------------------------------
(* Reading the upstream: streamed, one chunk at a time.                    *)

Reading == client \in Streamed /\ ~got.closed

ReadsChunk(n) ==
  LET ready == Ready(buffer \o SubSeq(wire, 1, n)) IN
  /\ Reading
  /\ wire' = SubSeq(wire, n + 1, Len(wire))
  /\ buffer' = ready.rest
  /\ chat' = Given(ready.events).chat /\ got' = Given(ready.events).got
  /\ UNCHANGED <<upstreamVars, input>>

\* What is left when the upstream closes is an event without its blank line.
ReadsEnd ==
  LET end == Given(Ready(buffer).events \o Parsed(Ready(buffer).rest)) IN
  /\ Reading /\ sending = "closed" /\ wire = <<>>
  /\ buffer' = <<>> /\ chat' = end.chat
  /\ got' = [end.got EXCEPT !.closed = TRUE]
  /\ UNCHANGED <<upstreamVars, wire, input>>

\* What was sent before a stream broke may never be read.
ReadsBreak ==
  /\ Reading /\ sending = "broken"
  /\ got' = [Told(got, "error") EXCEPT !.closed = TRUE]
  /\ UNCHANGED <<upstreamVars, wire, buffer, chat, input>>

-----------------------------------------------------------------------------
(* Or whole: chat_completions_handler and responses_handler, once the      *)
(* upstream has ended.                                                     *)

OfKind(items, kind) == SelectSeq(items, LAMBDA item : item.kind = kind)
CallsIn(items) ==
  LET calls == OfKind(items, "call")
  IN  [i \in DOMAIN calls |-> [id |-> calls[i].id, args |-> Parts(calls[i].parts)]]
TextIn(items) ==
  LET texts == OfKind(items, "message")
  IN  FlattenSeq([i \in DOMAIN texts |-> Parts(texts[i].parts)])
LastText(items) ==
  IF OfKind(items, "message") = <<>> THEN <<>> ELSE Parts(Last(OfKind(items, "message")).parts)

\* convert_completed_response_to_chat_completion
ChatCompletion(items) ==
  [calls |-> CallsIn(items), text |-> LastText(items), closed |-> TRUE,
   ending |-> IF CallsIn(items) = <<>> THEN "stop" ELSE "tool_calls"]
Response(items) ==
  [calls |-> CallsIn(items), text |-> TextIn(items), closed |-> TRUE, ending |-> "stop"]
Failed == [NoAnswer EXCEPT !.ending = "error", !.closed = TRUE]

\* extract_completed_response_from_sse and finalize_response
WholeAsCompleted(events, completed) == completed.output    \* variant: as it was stored
Whole(events, completed) ==
  LET done == SelectSeq(events, LAMBDA event : event.type = "item")
  IN  IF completed.output # <<>> THEN completed.output
      ELSE [i \in DOMAIN done |-> done[i].item]

ReadsWhole ==
  LET ready == Ready(wire)
      events == ready.events \o Parsed(ready.rest)
      completed == SelectSeq(events, LAMBDA event : event.type = "completed")
  IN
  /\ client \in {"chat whole", "responses whole"} /\ sending # "open" /\ ~got.closed
  /\ got' = IF sending = "broken" \/ completed = <<>> THEN Failed
            ELSE IF client = "chat whole" THEN ChatCompletion(Whole(events, Last(completed)))
            ELSE Response(Whole(events, Last(completed)))
  /\ wire' = <<>>
  /\ UNCHANGED <<upstreamVars, buffer, chat, input>>

-----------------------------------------------------------------------------
(* The next request of a Chat Completions client gives the answer back,    *)
(* with what its functions returned.                                       *)

\* convert_openai_chat_request_to_codex
MessageOrCalls(message) ==                       \* variant: no calls beside a text
  IF message.role = "tool" THEN <<[type |-> "output", id |-> message.id]>>
  ELSE IF message.text # <<>> THEN <<[type |-> "message", text |-> message.text]>>
  ELSE [i \in DOMAIN message.calls |->
          [type |-> "call", id |-> message.calls[i].id, args |-> message.calls[i].args]]
MessageInput(message) ==
  IF message.role = "tool" THEN <<[type |-> "output", id |-> message.id]>>
  ELSE <<[type |-> "message", text |-> message.text]>>
       \o [i \in DOMAIN message.calls |->
             [type |-> "call", id |-> message.calls[i].id, args |-> message.calls[i].args]]

ClientContinues ==
  LET results == [i \in DOMAIN got.calls |-> [role |-> "tool", id |-> got.calls[i].id]]
      messages == <<[role |-> "assistant", text |-> got.text, calls |-> got.calls]>> \o results
  IN
  /\ client \in {"chat stream", "chat whole"}
  /\ got.closed /\ got.ending = "tool_calls" /\ input = <<>>
  /\ input' = FlattenSeq([i \in DOMAIN messages |-> MessageInput(messages[i])])
  /\ UNCHANGED <<upstreamVars, wire, buffer, chat, got>>

AnswerNext ==
  \/ \E kind \in {"message", "call"} : Announces(kind)
  \/ WritesPart \/ FinishesItem
  \/ \E n \in 1..MaxParts : TellsArguments(n) \/ FinishesUnannounced(n)
  \/ \E output \in {<<>>, answer} : Ends([type |-> "completed", output |-> output])
  \/ \E type \in {"incomplete", "failed"} : Ends([type |-> type])
  \/ Closes \/ Breaks
  \/ \E n \in 1..Len(wire) : ReadsChunk(n)
  \/ ReadsEnd \/ ReadsBreak \/ ReadsWhole \/ ClientContinues

AnswerSpec == AnswerInit /\ [][AnswerNext]_answerVars

-----------------------------------------------------------------------------
(* What is promised.                                                       *)

\* A client told that its answer is complete has every call of it once, in order and
\* with all its arguments, and all its text (of a whole chat answer the last
\* message's): however the bytes were cut, the calls announced and the items stored.
AnswersAreWhole ==
  got.ending \in {"stop", "tool_calls"} =>
    /\ said = "completed"
    /\ got.calls = CallsIn(answer)
    /\ got.text = IF client = "chat whole" THEN LastText(answer) ELSE TextIn(answer)
    /\ client \in {"chat stream", "chat whole"}
         => (got.ending = "tool_calls" <=> CallsIn(answer) # <<>>)

\* A client is told how its answer ended, with the end the upstream gave it unless
\* the stream broke first.  Only a stream that the upstream itself closes without a
\* last event just stops for its client too, who is then not told that it is
\* complete; one who asked for the whole answer is told of an error.
EndsAreTold ==
  /\ got.closed /\ got.ending = "none" =>
       sending = "closed" /\ said = "nothing" /\ client \in Streamed
  /\ got.ending = "length" => said = "incomplete"
  /\ got.ending = "error" =>
       \/ said = "failed" \/ sending = "broken"
       \/ client \notin Streamed /\ said \in {"incomplete", "nothing"}

\* What a client gives back in its next request is the answer it was given: the
\* upstream's calls, each with its arguments and before what it returned.
ConversationKept ==
  input # <<>> =>
    LET calls == SelectSeq(input, LAMBDA i : i.type = "call")
        outputs == SelectSeq(input, LAMBDA i : i.type = "output")
    IN  /\ [i \in DOMAIN calls |-> [id |-> calls[i].id, args |-> calls[i].args]] = CallsIn(answer)
        /\ [i \in DOMAIN outputs |-> outputs[i].id] = [i \in DOMAIN calls |-> calls[i].id]
        /\ \A i, j \in DOMAIN input :
             input[i].type = "call" /\ input[j].type = "output" => i < j

\* However an answer is cut, stored, announced and broken off, a client gets all of it,
\* is told the end it came to, and gives back what it was given.
AnswersArrive == AnswersAreWhole /\ EndsAreTold /\ ConversationKept
=============================================================================
