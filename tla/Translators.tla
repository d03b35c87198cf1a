---------------------------- MODULE Translators ----------------------------
(***************************************************************************)
(* What the provider translators make of one event of a provider's stream: *)
(* TransformStreamEvent of the Anthropic, Google and Cohere translators    *)
(* and of the OpenAI one, which passes chunks through.  The result is a    *)
(* chunk in the OpenAI format, to be forwarded or not, and whether the     *)
(* stream is done.                                                         *)
(*                                                                         *)
(* A completion is a sequence of pieces, numbered as the provider sends    *)
(* them; the kind of a piece is what it is a fragment of.  A "call" opens  *)
(* a tool call (its id and name), "args" are a fragment of its arguments,  *)
(* "fn" is a whole call, with all its arguments.                           *)
(***************************************************************************)
EXTENDS Naturals, Sequences, SequencesExt

Protocol == {"openai", "anthropic", "google", "cohere"}
ToolKind == {"call", "args", "fn"}
Kind     == {"thinking", "signature", "text"} \cup ToolKind

(* An event of a provider.  parts: the kinds of the pieces in it, the      *)
(* first of which is number n; stop: why the model stopped, "none" as long *)
(* as it did not; in, out: the tokens it reports, 0 where it reports none. *)
Event(type, n, parts, stop, in, out) ==
    [type |-> type, n |-> n, parts |-> parts, stop |-> stop,
     in |-> in, out |-> out]

(* A chunk in the OpenAI format, with the one choice the model generates:  *)
(* the numbers of the pieces in the fields of its delta (0: the field is   *)
(* empty), the tool calls of the delta, its finish reason, and its usage,  *)
(* a sequence of at most one report.                                       *)
Blank == [reasoning |-> 0, signature |-> 0, text |-> 0, calls |-> <<>>,
          finish |-> "none", usage |-> <<>>]

Usage(e) == <<[in |-> e.in, out |-> e.out]>>

(* Usage only where the provider's event has a usage field. *)
Reported(e) == IF e.in = 0 /\ e.out = 0 THEN <<>> ELSE Usage(e)

(* The number of the piece of kind k in e, 0 if there is none.  Of several *)
(* it is the last one: a field of the delta is assigned, not appended to.  *)
Field(e, k) ==
    IF \E i \in DOMAIN e.parts : e.parts[i] = k
    THEN e.n - 1 + CHOOSE i \in DOMAIN e.parts :
             /\ e.parts[i] = k
             /\ \A j \in DOMAIN e.parts : e.parts[j] = k => j <= i
    ELSE 0

(* The ToolCalls of the delta, in order: which piece is the id of each and *)
(* which its arguments.                                                    *)
Calls(e) ==
    LET Number(i, kinds) == IF e.parts[i] \in kinds THEN e.n - 1 + i ELSE 0
        Call(i) == [id   |-> Number(i, {"call", "fn"}),
                    args |-> Number(i, {"args", "fn"})]
    IN  FlattenSeq([i \in DOMAIN e.parts |->
                      IF e.parts[i] \in ToolKind THEN <<Call(i)>> ELSE <<>>])

(* mapAnthropicStopReason, mapGeminiFinishReason and mapCohereFinishReason *)
(* on the reasons the providers share: the end of the turn (also when a    *)
(* stop sequence was met), the token limit, a tool call.                   *)
FinishReason(stop) ==
    CASE stop = "none"  -> "none"
      [] stop = "end"   -> "stop"
      [] stop = "limit" -> "length"
      [] stop = "tool"  -> "tool_calls"

Forward(chunk) == [chunk |-> chunk, forward |-> TRUE, done |-> FALSE]
Drop(done)     == [chunk |-> Blank, forward |-> FALSE, done |-> done]

OpenAITransform(e) ==
    IF e.type = "[DONE]" THEN Drop(TRUE)
    ELSE Forward([reasoning |-> Field(e, "thinking"),
                  signature |-> Field(e, "signature"),
                  text |-> Field(e, "text"), calls |-> Calls(e),
                  finish |-> FinishReason(e.stop), usage |-> Reported(e)])

AnthropicTransform(e) ==
    CASE e.type = "message_start" ->
             Forward([Blank EXCEPT !.usage = Usage(e)])
      [] e.type = "content_block_start" ->
             Forward([Blank EXCEPT !.calls = Calls(e)])
      [] e.type = "content_block_delta" ->
             Forward([Blank EXCEPT !.reasoning = Field(e, "thinking"),
                                   !.signature = Field(e, "signature"),
                                   !.text = Field(e, "text"),
                                   !.calls = Calls(e)])
      [] e.type = "message_delta" ->
             Forward([Blank EXCEPT !.finish = FinishReason(e.stop),
                                   !.usage = Usage(e)])
      [] e.type = "message_stop" -> Drop(TRUE)
      [] OTHER -> Drop(FALSE)

(* Gemini has no terminator: the chunk with the finish reason is the last. *)
GoogleTransform(e) ==
    [chunk |-> [Blank EXCEPT !.text = Field(e, "text"), !.calls = Calls(e),
                             !.finish = FinishReason(e.stop),
                             !.usage = Usage(e)],
     forward |-> TRUE, done |-> e.stop # "none"]

(* Cohere ends its stream by closing it. *)
CohereTransform(e) ==
    CASE e.type = "message-start" -> Forward(Blank)
      [] e.type = "content-delta" ->
             Forward([Blank EXCEPT !.text = Field(e, "text")])
      [] e.type \in {"tool-call-start", "tool-call-delta"} ->
             Forward([Blank EXCEPT !.calls = Calls(e)])
      [] e.type = "message-end" ->
             Forward([Blank EXCEPT !.finish = FinishReason(e.stop),
                                   !.usage = Reported(e)])
      [] OTHER -> Drop(FALSE)

TransformStreamEvent(protocol, e) ==
    CASE protocol = "openai"    -> OpenAITransform(e)
      [] protocol = "anthropic" -> AnthropicTransform(e)
      [] protocol = "google"    -> GoogleTransform(e)
      [] protocol = "cohere"    -> CohereTransform(e)
=============================================================================
