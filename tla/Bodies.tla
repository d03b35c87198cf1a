------------------------------- MODULE Bodies -------------------------------
(***************************************************************************)
(* The bodies of the requests and of the answers that are not streamed.    *)
(* A request is translated twice: from the format of the endpoint into a   *)
(* chat request (anthropicToChatRequest, responsesToChatRequest; the body  *)
(* of /chat/completions is forwarded as it came), and from that into the   *)
(* format of the provider (TransformRequest of each translator).  So is    *)
(* the answer, the other way (TransformResponse, chatResponseToAnthropic,  *)
(* chatResponseToResponses).                                               *)
(*                                                                         *)
(* The pieces of a conversation are numbered in the order the client wrote *)
(* them; the texts, images, calls and results themselves are left out.  A  *)
(* block holds pieces, several after their texts were joined into one.     *)
(***************************************************************************)
EXTENDS Translators

(* kind: the type of the block, as its writer named it; ns: the pieces in  *)
(* it; of: the call a result answers, else 0; mark: it has cache_control.  *)
Block(kind, ns, of, mark) == [kind |-> kind, ns |-> ns, of |-> of, mark |-> mark]

Of(blocks, kinds) ==
    FlattenSeq([i \in DOMAIN blocks |->
                  IF blocks[i].kind \in kinds THEN <<blocks[i]>> ELSE <<>>])

(* A field is assigned, not appended to: the last block of the kind stays. *)
LastOf(blocks, kind) ==
    LET found == Of(blocks, {kind})
    IN  IF found = <<>> THEN <<>> ELSE <<Last(found)>>

Pieces(blocks) == FlattenSeq([i \in DOMAIN blocks |-> blocks[i].ns])

Joined(blocks) == Block("text", Pieces(blocks), 0, FALSE)

Marked(blocks) == \E i \in DOMAIN blocks : blocks[i].mark

Unmarked(blocks) == [i \in DOMAIN blocks |-> [blocks[i] EXCEPT !.mark = FALSE]]

MarkLast(blocks) ==
    IF blocks = <<>> THEN blocks
    ELSE [blocks EXCEPT ![Len(blocks)] = [@ EXCEPT !.mark = TRUE]]

----------------------------------------------------------------------------
(* A message of a chat request.  form: its content is a "string", an array *)
(* of "parts" or absent, "none"; mark: the message has cache_control;      *)
(* named: it names the function of the result.                             *)

Message(role, form, content) ==
    [role |-> role, form |-> form, content |-> content, reasoning |-> <<>>,
     calls |-> <<>>, mark |-> FALSE, named |-> FALSE]

(* What clients of /chat/completions send.  Parts carry their own          *)
(* cache_control; strings and calls have that of their message.            *)
ChatMessage(t) ==
    LET content == Of(t.blocks, {"text", "image_url", "result"})
    IN  [role |-> t.role,
         form |-> IF content = <<>> THEN "none" ELSE t.form,
         content |-> IF t.form = "parts" THEN content ELSE Unmarked(content),
         reasoning |-> LastOf(t.blocks, "thinking"),
         calls |-> Unmarked(Of(t.blocks, {"call"})),
         mark |-> Marked(t.blocks) /\ ~(t.form = "parts" /\ Marked(content)),
         named |-> t.role = "tool"]

(* anthropicToChatRequest.  The texts of the system prompt become one.     *)
SystemMessage(t) ==
    [Message("system", "string", <<Joined(t.blocks)>>) EXCEPT !.mark = Marked(t.blocks)]

ToolMessage(b) ==
    [Message("tool", "string", Unmarked(<<b>>)) EXCEPT !.mark = b.mark]

(* Mutant: one result for each message. *)
ToolMessagesFirst(results) == <<ToolMessage(Head(results))>>

(* A message with results becomes one message for each of them, the first  *)
(* after the others.                                                       *)
ToolMessages(results) ==
    LET tool == [i \in DOMAIN results |-> ToolMessage(results[i])]
    IN  Tail(tool) \o <<Head(tool)>>

(* The texts of a message replace the array that its image had set.        *)
MessageOf(t) ==
    LET texts == Of(t.blocks, {"text"})
        raw   == Of(t.blocks, {"image"}) # <<>>
    IN  [Message(t.role,
                 IF texts # <<>> THEN "string" ELSE IF raw THEN "parts" ELSE "none",
                 IF texts # <<>> THEN <<Joined(texts)>>
                 ELSE IF raw THEN t.blocks ELSE <<>>)
           EXCEPT !.reasoning = Unmarked(LastOf(t.blocks, "thinking")),
                  !.calls = Unmarked(Of(t.blocks, {"call"})),
                  !.mark = Marked(texts)]

FromMessages(t) ==
    LET results == Of(t.blocks, {"result"})
    IN  CASE t.role = "system" -> <<SystemMessage(t)>>
          [] results # <<>>    -> ToolMessages(results)
          [] OTHER             -> <<MessageOf(t)>>

(* responsesToChatRequest, for one item of the input.                      *)
InputMessage(t) ==
    LET texts == Of(t.blocks, {"input_text"})
    IN  CASE t.form = "string"               -> Message(t.role, "string", t.blocks)
          [] t.form # "string" /\ texts # <<>> ->
                 Message(t.role, "string", <<Joined(texts)>>)
          [] OTHER                           -> Message(t.role, "parts", t.blocks)

FromResponses(t) ==
    CASE t.blocks[1].kind = "call" ->
             <<[Message("assistant", "none", <<>>) EXCEPT !.calls = t.blocks]>>
      [] t.blocks[1].kind = "result"   -> <<Message("tool", "string", t.blocks)>>
      [] t.blocks[1].kind = "thinking" -> <<>>
      [] OTHER                         -> <<InputMessage(t)>>

(* The messages of the chat request, from the turns the client sent. *)
ToChat(sink, turns) ==
    FlattenSeq([i \in DOMAIN turns |->
        CASE sink = "chat"      -> <<ChatMessage(turns[i])>>
          [] sink = "messages"  -> FromMessages(turns[i])
          [] sink = "responses" -> FromResponses(turns[i])])

----------------------------------------------------------------------------
(* The request the provider gets: the blocks of its system prompt, and its *)
(* turns.                                                                  *)

Turn(role, blocks) == [role |-> role, blocks |-> blocks]

With(msgs, roles) ==
    FlattenSeq([i \in DOMAIN msgs |->
                  IF msgs[i].role \in roles THEN <<msgs[i]>> ELSE <<>>])

Roles       == {"system", "developer", "user", "assistant", "tool"}
Instructing == {"system", "developer"}

(* Of several system messages the last one stays; an array of parts ends   *)
(* up in the text of the one block.                                        *)
AnthropicSystem(msgs) ==
    LET system == With(msgs, Instructing)
    IN  IF system = <<>> THEN <<>>
        ELSE <<[Joined(Last(system).content) EXCEPT !.mark = Last(system).mark]>>

AnthropicCalls(m) ==
    LET blocks == (IF m.form = "string" THEN m.content ELSE <<>>) \o m.calls
    IN  IF m.mark THEN MarkLast(blocks) ELSE blocks

(* A result that is not a string is sent as an empty one. *)
AnthropicResult(m) ==
    Block("result", IF m.form = "string" THEN m.content[1].ns ELSE <<>>,
          m.content[1].of, m.mark)

AnthropicTurn(m) ==
    CASE m.role = "tool" -> Turn("user", <<AnthropicResult(m)>>)
      [] m.role = "assistant" /\ m.calls # <<>> -> Turn("assistant", AnthropicCalls(m))
      [] OTHER -> Turn(m.role, IF m.mark /\ m.form = "string" THEN MarkLast(m.content)
                               ELSE m.content)

(* Which turns get cache_control: the last but one and, in long            *)
(* conversations, one at a third of them.                                  *)
Breakpoints(n) ==
    (IF n >= 2 THEN {n - 1} ELSE {}) \cup (IF n >= 10 THEN {n \div 3 + 1} ELSE {})

(* injectAnthropicCacheControl; cachedTools: the last tool is marked, if    *)
(* there is one.                                                           *)
InjectCacheControl(body) ==
    LET marked(i) == IF i \in Breakpoints(Len(body.turns))
                     THEN MarkLast(body.turns[i].blocks) ELSE body.turns[i].blocks
    IN  [body EXCEPT !.system = MarkLast(@), !.cachedTools = TRUE,
                     !.turns = [i \in DOMAIN @ |-> Turn(@[i].role, marked(i))]]

(* Mutant: the translator adds its own marks to the client's. *)
ClientCachingIgnored(msgs) == FALSE

(* clientCaching *)
ClientCaching(msgs) == \E i \in DOMAIN msgs : msgs[i].mark

AnthropicBody(msgs) ==
    LET said == With(msgs, Roles \ Instructing)
        body == [system |-> AnthropicSystem(msgs),
                 turns |-> [i \in DOMAIN said |-> AnthropicTurn(said[i])],
                 cachedTools |-> FALSE]
    IN  IF ClientCaching(msgs) THEN body ELSE InjectCacheControl(body)

(* AnthropicOAuthTranslator puts the attribution of the subscription first. *)
WithBilling(body) ==
    [body EXCEPT !.system = <<Block("billing", <<>>, 0, FALSE)>> \o @]

(* contentToString: of an array, the parts called "text", such as those of *)
(* a result.                                                               *)
Text(m) ==
    IF m.form = "string" THEN m.content[1].ns
    ELSE Pieces(Of(m.content, {"text", "result"}))

(* A result is sent under the name of its function, not the id of its call. *)
GoogleTurn(m) ==
    CASE m.role = "user" -> Turn("user", <<Block("text", Text(m), 0, FALSE)>>)
      [] m.role = "assistant" ->
             Turn("model", IF m.calls # <<>> THEN m.calls
                           ELSE <<Block("text", Text(m), 0, FALSE)>>)
      [] m.role = "tool" ->
             Turn("user", <<Block("result", Text(m),
                                  IF m.named THEN m.content[1].of ELSE 0, FALSE)>>)

GoogleBody(msgs) ==
    LET system == With(msgs, {"system"})
        said   == With(msgs, {"user", "assistant", "tool"})
    IN  [system |-> IF system = <<>> THEN <<>>
                    ELSE <<Block("text", Text(Last(system)), 0, FALSE)>>,
         turns |-> [i \in DOMAIN said |-> GoogleTurn(said[i])],
         cachedTools |-> FALSE]

(* Cohere gets the messages, calls and results as they are; an             *)
(* OpenAI-compatible provider gets the whole body, with its own model.     *)
CohereBody(msgs) ==
    [system |-> <<>>,
     turns |-> [i \in DOMAIN msgs |->
                  Turn(msgs[i].role, Unmarked(msgs[i].content) \o msgs[i].calls)],
     cachedTools |-> FALSE]

OpenAIBody(msgs) ==
    [system |-> <<>>,
     turns |-> [i \in DOMAIN msgs |->
                  Turn(msgs[i].role,
                       msgs[i].reasoning \o msgs[i].content \o msgs[i].calls)],
     cachedTools |-> FALSE]

TransformRequest(protocol, msgs) ==
    CASE protocol = "openai"    -> OpenAIBody(msgs)
      [] protocol = "anthropic" -> AnthropicBody(msgs)
      [] protocol = "google"    -> GoogleBody(msgs)
      [] protocol = "cohere"    -> CohereBody(msgs)

----------------------------------------------------------------------------
(* The settings of a request.  max: max_tokens; completion:                *)
(* max_completion_tokens; 0 where the client sets none.  thinking, budget: *)
(* the thinking of /v1/messages; effort: the reasoning effort of the other *)
(* endpoints; choice: whether and which tools the model is to call.        *)

(* anthropicToChatRequest knows no "none"; a named tool of /v1/responses   *)
(* keeps a form that is not that of chat requests.                         *)
ChatSettings(sink, s) ==
    CASE sink = "chat"      -> s
      [] sink = "messages"  ->
             [s EXCEPT !.choice = IF @ = "none" THEN "unset" ELSE @]
      [] sink = "responses" ->
             [s EXCEPT !.choice = IF @ = "named" THEN "named item" ELSE @]

Limit(s) == IF s.completion > 0 THEN s.completion ELSE s.max

EffortBudget == [low |-> 1024, medium |-> 8192, high |-> 16384, xhigh |-> 32768,
                 max |-> 65536]

(* Mutant: a budget as large as the limit is let through. *)
EnlargedUnlessEqual(limit, budget) == IF limit < budget THEN budget + 4096 ELSE limit

(* "Anthropic requires max_tokens > budget_tokens." *)
Enlarged(limit, budget) == IF limit <= budget THEN budget + 4096 ELSE limit

AnthropicSettings(s) ==
    LET budget   == IF s.thinking # "none" THEN s.budget
                    ELSE IF s.effort \in DOMAIN EffortBudget THEN EffortBudget[s.effort]
                    ELSE 0
        thinking == IF s.thinking = "none" /\ budget > 0 THEN "enabled" ELSE s.thinking
        exact    == thinking = "enabled" /\ budget > 0
        limit    == IF Limit(s) = 0 THEN 4096 ELSE Limit(s)
        tools    == s.tools /\ s.choice # "none"
    IN  [max |-> IF exact THEN Enlarged(limit, budget) ELSE limit,
         thinking |-> thinking, budget |-> budget,
         temperature |-> s.temperature /\ ~exact /\ thinking # "adaptive",
         tools |-> tools,
         choice |-> IF tools /\ s.choice # "named item" THEN s.choice ELSE "unset"]

(* Gemini and Cohere are told neither the effort nor the choice. *)
PlainSettings(s) ==
    [max |-> Limit(s), thinking |-> "none", budget |-> 0,
     temperature |-> s.temperature, tools |-> s.tools, choice |-> "unset"]

OpenAISettings(s) ==
    [PlainSettings(s) EXCEPT !.thinking = s.thinking, !.budget = s.budget,
                             !.choice = s.choice]

TransformSettings(protocol, s) ==
    CASE protocol = "openai"               -> OpenAISettings(s)
      [] protocol = "anthropic"            -> AnthropicSettings(s)
      [] protocol \in {"google", "cohere"} -> PlainSettings(s)

----------------------------------------------------------------------------
(* Answers.  A completion is the sequence of the kinds of its pieces, and  *)
(* why it stopped.  The chat response holds the numbers of the pieces in   *)
(* each field of its message, texts and thinkings joined, and the calls.   *)

Numbers(kinds, kind) ==
    FlattenSeq([i \in DOMAIN kinds |-> IF kinds[i] = kind THEN <<i>> ELSE <<>>])

(* Mutant: the thinking becomes part of the text. *)
ThoughtSpoken(p, kinds) ==
    [reasoning |-> <<>>, signature |-> <<>>,
     text |-> SelectSeq([i \in DOMAIN kinds |-> i], LAMBDA i : kinds[i] \in {"thinking", "text"}),
     calls |-> Numbers(kinds, "call")]

Fields(p, kinds) ==
    [reasoning |-> Numbers(kinds, "thinking"),
     signature |-> IF p = "openai" THEN Numbers(kinds, "signature") ELSE <<>>,
     text |-> Numbers(kinds, "text"), calls |-> Numbers(kinds, "call")]

(* TransformResponse.  Gemini and Cohere send no thinking, and that of an  *)
(* OpenAI-compatible provider is a field already, as its signature is;     *)
(* that of Anthropic is left out.                                          *)
TransformResponse(p, kinds, stop) ==
    [message |-> Fields(p, kinds), finish |-> FinishReason(stop)]

Item(kind, ns) == [kind |-> kind, ns |-> ns]

Unless(empty, item) == IF empty THEN <<>> ELSE <<item>>

CallItems(calls) == [i \in DOMAIN calls |-> Item("call", <<calls[i]>>)]

(* The content of a Messages answer, and the items of a Responses one,     *)
(* which has a message even if it is empty.  Neither has the signature.    *)
ToClient(sink, m) ==
    Unless(m.reasoning = <<>>, Item("thinking", m.reasoning))
    \o Unless(sink # "chat" \/ m.signature = <<>>, Item("signature", m.signature))
    \o Unless(sink # "responses" /\ m.text = <<>>, Item("text", m.text))
    \o CallItems(m.calls)
=============================================================================
