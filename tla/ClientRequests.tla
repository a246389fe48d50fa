--------------------------- MODULE ClientRequests ---------------------------
(***************************************************************************)
(* What the local proxy asks of the Codex upstream for a client            *)
(* (proxy_service.rs): a Chat Completions or a Responses request in, one   *)
(* Responses request out, sent to one candidate after another; the answer  *)
(* names the model in the form clients are shown, which they may ask with  *)
(* in their next turn.                                                     *)
(*                                                                         *)
(* A model name is the sequence of its segments, in lower case: names are  *)
(* looked up in lower case and only shown capitalised.  A client keeps its *)
(* settings for all its turns.                                            *)
(***************************************************************************)
EXTENDS Naturals, Sequences
LOCAL INSTANCE SequencesExt
LOCAL INSTANCE FiniteSetsExt

CONSTANTS
  ModelNames,   \* model names a client may start with
  MaxAsks       \* bound: requests of the client

ASSUME RequestBounds == MaxAsks \in Nat \ {0}

VARIABLES
  wish,    \* the client's settings
  name,    \* the model name it uses now
  words,    \* its last message
  asked,   \* the request made of it for the upstream
  sent,    \* the last attempt that carried it
  before,  \* the model asked in the turn before
  asks

requestVars == <<wish, name, words, asked, sent, before, asks>>

-----------------------------------------------------------------------------
(* Model names.                                                            *)

Efforts == {"low", "medium", "high", "xhigh"}
Digits == {"1", "2", "3", "4", "5"}

AliasEffort(model) == IF Len(model) > 1 /\ Last(model) \in Efforts THEN Last(model) ELSE "absent"

\* Every effort at the end of a name is left out, but for a name of nothing else.
Stem(model) == SubSeq(model, 1, Max({1} \cup {i \in DOMAIN model : model[i] \notin Efforts}))

RequestModelMappings == <<
  [from |-> <<"gpt", "5", "4">>, to |-> <<"gpt", "5.4">>],
  [from |-> <<"gpt", "5.4">>,    to |-> <<"gpt", "5.4">>],
  [from |-> <<"gpt5.4">>,        to |-> <<"gpt", "5.4">>]>>

Remapped(model) ==
  LET fits == {i \in DOMAIN RequestModelMappings : IsPrefix(RequestModelMappings[i].from, model)}
      m == RequestModelMappings[Min(fits)]
  IN IF fits = {} THEN <<>> ELSE m.to \o SubSeq(model, Len(m.from) + 1, Len(model))

SpeltApart(model) == Len(model) > 2 /\ model[2] = "5" /\ model[3] \in Digits
Joined(model) == <<"gpt", "5." \o model[3]>> \o SubSeq(model, 4, Len(model))

RevisionKept(model) == model                     \* variant: gpt-5-2 is asked for as such
Revision(model) == IF model[1] = "gpt" /\ SpeltApart(model) THEN Joined(model) ELSE model

UpstreamModel(model) ==
  LET stem == Stem(model) IN IF Remapped(stem) # <<>> THEN Remapped(stem) ELSE Revision(stem)

DisplayName(model) ==
  LET spelt == IF model[1] = "gpt5.4" THEN <<"gpt", "5.4">> \o Tail(model) ELSE model
  IN IF Len(spelt) < 2 \/ spelt[1] # "gpt" THEN model
     ELSE IF SpeltApart(spelt) THEN Joined(spelt) ELSE spelt

\* Codex models, and every generation from 5 on.
IsCodex(model) ==
  \/ "codex" \in Range(model) \/ model[1] = "gpt5.4"
  \/ model[1] = "gpt" /\ Len(model) > 1
       /\ model[2] \in {"5"} \cup {"5." \o d : d \in Digits}

-----------------------------------------------------------------------------
(* Wishes.  "blank" and "bogus" are values no upstream knows.            *)

DefaultEffort(model) == IF IsCodex(model) THEN "medium" ELSE "none"
NormalEffort(effort, model) ==
  IF effort \in Efforts \/ (~IsCodex(model) /\ effort = "none") THEN effort
  ELSE DefaultEffort(model)
NormalSummary(summary) == IF summary = "detailed" THEN summary ELSE "auto"

FirstGiven(values) == IF values = <<>> THEN "absent" ELSE Head(values)
Stated(values) == SelectSeq(values, LAMBDA v : v # "absent")

\* merged_reasoning_for_upstream: reasoning_effort, the reasoning object, the alias.
ChatReasoning(request, model) ==
  [effort |-> NormalEffort(FirstGiven(Stated(<<request.effort, request.reasoning,
                                              AliasEffort(request.model)>>)), model),
   summary |-> NormalSummary(request.summary)]

ResponsesEffort(request) ==
  IF request.reasoning \notin {"absent", "blank"} THEN request.reasoning
  ELSE IF AliasEffort(request.model) # "absent" THEN AliasEffort(request.model)
  ELSE "medium"
ResponsesReasoning(request) ==
  [effort |-> ResponsesEffort(request),
   summary |-> IF request.summary = "absent" THEN "auto" ELSE request.summary]

\* The text object of the upstream request: map_response_format, map_text_settings.
ResponseFormat(format) ==
  IF format = "absent" THEN [format |-> "absent", verbosity |-> "absent"]
  ELSE [format |-> IF format = "bogus" THEN "untyped" ELSE format, verbosity |-> "absent"]
NewTextSettings(text, verbosity) ==              \* variant: a text object of its own
  IF verbosity = "absent" THEN text ELSE [format |-> "absent", verbosity |-> verbosity]
TextSettings(text, verbosity) ==
  IF verbosity = "absent" THEN text ELSE [text EXCEPT !.verbosity = verbosity]

\* Functions are taken out of their wrapping, one without a function is left out.
ConvertedTools(tools) == SelectSeq(tools, LAMBDA tool : tool # "unnamed")

-----------------------------------------------------------------------------
(* Messages: the text of a message, or a sequence of its parts.            *)

Roles == {"system", "user", "assistant", "tool"}
CodexRole(role) ==
  CASE role = "system" -> "developer" [] role = "assistant" -> "assistant" [] OTHER -> "user"

ConvertedPart(role, part) ==
  CASE part = "text" -> <<part>>
    [] part \in {"image", "file"} /\ role \in {"user", "system"} -> <<part>>
    [] OTHER -> <<>>
ConvertedParts(role, content) ==
  IF content.is = "parts"
  THEN FlattenSeq([i \in DOMAIN content.parts |-> ConvertedPart(role, content.parts[i])])
  ELSE IF content.parts = <<>> THEN <<>> ELSE <<"text">>

\* What a tool returned becomes one text.
StringifiedContent(content) ==
  IF content.is = "parts" THEN SelectSeq(content.parts, LAMBDA part : part = "text")
  ELSE content.parts

ChatInput(message) ==
  IF message.role = "tool"
  THEN [role |-> "output", parts |-> StringifiedContent(message.content)]
  ELSE [role |-> CodexRole(message.role), parts |-> ConvertedParts(message.role, message.content)]

\* A string is what the user says, a lone message is converted, a list is left as it is.
ResponsesInput(message) ==
  IF message.form = "string" THEN [role |-> "user", parts |-> message.content.parts]
  ELSE IF message.form = "object"
  THEN [role |-> CodexRole(message.role), parts |-> ConvertedParts(message.role, message.content)]
  ELSE [role |-> message.role, parts |-> message.content.parts]

-----------------------------------------------------------------------------
(* The requests.                                                           *)

ChatRequest(request) ==
  LET model == UpstreamModel(request.model) IN
  [model |-> model, reasoning |-> ChatReasoning(request, model),
   text |-> TextSettings(ResponseFormat(request.format), request.verbosity),
   tools |-> ConvertedTools(request.tools), input |-> ChatInput(request.message)]

ResponsesRequest(request) ==
  [model |-> UpstreamModel(request.model), reasoning |-> ResponsesReasoning(request),
   text |-> [format |-> request.format, verbosity |-> request.verbosity],
   tools |-> request.tools, input |-> ResponsesInput(request.message)]

\* A Responses request may come to the chat endpoint, by a client that knows one only.
UpstreamRequest(endpoint, request) ==
  IF endpoint = "chat" THEN ChatRequest(request) ELSE ResponsesRequest(request)

-----------------------------------------------------------------------------

NoMessage == [role |-> "none"]
NothingAsked == [model |-> <<>>]
NotSent == [to |-> "none", session |-> "none"]

Wishes ==
  {w \in [effort : {"absent", "high", "bogus"}, reasoning : {"absent", "blank", "low"},
          summary : {"absent", "detailed"}, format : {"absent", "json_schema", "bogus"},
          verbosity : {"absent", "short"}, tools : {<<>>, <<"unnamed", "function", "search">>},
          session : {"own", "none"}] :
     /\ w.summary = "absent" <=> w.tools = <<>>
     /\ w.session = "own" <=> w.tools = <<>>
     /\ w.verbosity = "absent" <=> w.format = "bogus"}

Contents ==
  [is : {"string"}, parts : {<<>>, <<"text">>}]
    \cup [is : {"parts"}, parts : {<<"file", "text">>, <<"sound", "text", "image", "text">>}]

RequestsTypeOK ==
  /\ wish \in Wishes /\ asks \in 0..MaxAsks
  /\ name \in Seq(STRING) /\ name # <<>>
  /\ before = <<>> \/ before \in Seq(STRING)
  /\ asked = NothingAsked \/ asked.text.format \in {"absent", "json_schema", "bogus", "untyped"}
  /\ sent.to \in {"none", "codex", "general", "provider"}

RequestsInit ==
  /\ wish \in Wishes
  /\ name \in ModelNames
  /\ words = NoMessage
  /\ asked = NothingAsked /\ sent = NotSent /\ before = <<>> /\ asks = 0

AsksProxy(endpoint, message) ==
  LET request == [model |-> name, effort |-> wish.effort, reasoning |-> wish.reasoning,
                  summary |-> wish.summary, format |-> wish.format,
                  verbosity |-> wish.verbosity, tools |-> wish.tools, message |-> message]
  IN /\ asks < MaxAsks /\ asked = NothingAsked
     /\ asks' = asks + 1
     /\ words' = message
     /\ asked' = UpstreamRequest(endpoint, request)
     /\ UNCHANGED <<wish, name, sent, before>>

\* One attempt: at OpenAI, or at the provider the candidate's key is of.
Forwards(candidate) ==
  /\ asked # NothingAsked
  /\ sent' = [to |-> IF candidate = "provider" THEN "provider"
                     ELSE IF IsCodex(asked.model) THEN "codex" ELSE "general",
              session |-> IF wish.session = "own" THEN "own" ELSE "new"]
  /\ UNCHANGED <<wish, name, words, asked, before, asks>>

\* The answer: the client may go on with the name it shows.
Answered ==
  /\ sent # NotSent
  /\ name' \in {name, DisplayName(asked.model)}
  /\ before' = asked.model
  /\ words' = NoMessage /\ asked' = NothingAsked /\ sent' = NotSent
  /\ UNCHANGED <<wish, asks>>

Messages(endpoint) ==
  IF endpoint = "chat" THEN [role : Roles, form : {"message"}, content : Contents]
  ELSE [role : {"user"}, form : {"string"}, content : {c \in Contents : c.is = "string"}]
         \cup [role : Roles \ {"tool"}, form : {"object", "list"}, content : Contents]

RequestsNext ==
  \/ \E endpoint \in {"chat", "responses"} :
       \E message \in Messages(endpoint) : AsksProxy(endpoint, message)
  \/ \E candidate \in {"account", "provider"} : Forwards(candidate)
  \/ Answered

RequestsSpec == RequestsInit /\ [][RequestsNext]_requestVars

-----------------------------------------------------------------------------
(* What is promised.                                                       *)

StatedEffort ==
  IF wish.effort = wish.reasoning /\ wish.reasoning \in Efforts THEN wish.reasoning
  ELSE IF wish.effort = "absent" THEN wish.reasoning ELSE "unclear"

Words(parts) == SelectSeq(parts, LAMBDA part : part = "text")
Carried(parts) == SelectSeq(parts, LAMBDA part : part # "sound")

SameModel == before # <<>> => asked.model = before
EffortMeant ==
  IsCodex(asked.model) =>
    asked.reasoning.effort =
      CASE StatedEffort \in Efforts -> StatedEffort
        [] StatedEffort = "absent" /\ AliasEffort(name) # "absent" -> AliasEffort(name)
        [] StatedEffort = "absent" -> "medium"
        [] OTHER -> asked.reasoning.effort
TextMeant ==
  /\ wish.format # "bogus" => asked.text.format = wish.format
  /\ asked.text.verbosity = wish.verbosity
EverythingSaid ==
  /\ Words(asked.input.parts) = Words(words.content.parts)
  /\ words.role \in {"user", "system"} /\ words.form # "list" =>
       asked.input.parts = Carried(words.content.parts)

\* Whichever endpoint a client uses for a turn, and although it may go on with the model
\* name an answer showed it, the upstream is asked for the same model in every turn; for
\* a Codex model with the effort the client stated, else the one in the model's name,
\* else medium; for the format and the verbosity it wants, both; with all the texts of
\* the message, and the images and files of a user or system message.
AskedAsWished ==
  asked # NothingAsked => SameModel /\ EffortMeant /\ TextMeant /\ EverythingSaid
=============================================================================
