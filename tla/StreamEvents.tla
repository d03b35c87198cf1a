---------------------------- MODULE StreamEvents ----------------------------
(***************************************************************************)
(* One stream of the gateway, from the events of the provider to those the *)
(* client receives: Upstream.Stream, which runs the translator of the      *)
(* provider's protocol on every event and calls back with a chunk, and the *)
(* three callbacks and epilogues that write the chunks as chat completion  *)
(* chunks (commitStream), as Anthropic Messages events                     *)
(* (handleAnthropicStreamWithRetry) or as Responses events                 *)
(* (handleResponsesStreamWithRetry).                                       *)
(*                                                                         *)
(* The callback runs to its end for each chunk, so that receiving an event *)
(* is one step.  Which route is tried, and everything before and after the *)
(* stream, is in Gateway.  sequence_number, which every write of a         *)
(* Responses event increments, is the position in what the client got.     *)
(***************************************************************************)
EXTENDS Translators, FiniteSets

CONSTANTS Protocols, (* the protocols of the providers                     *)
          MaxPieces, (* bound: the pieces of a completion                  *)
          MaxEvents  (* bound: the events of a provider's stream           *)

ASSUME StreamAssumption ==
    /\ Protocols \subseteq Protocol /\ Protocols # {}
    /\ MaxPieces \in Nat /\ MaxEvents \in Nat

(* The endpoint the client called: /chat/completions, /messages, /responses. *)
Sink == {"chat", "messages", "responses"}

VARIABLES
    protocol, (* the protocol of the provider                              *)
    sink,     (* the endpoint                                              *)
    sent,     (* history: of each piece sent, its kind and its event       *)
    events,   (* how many events the provider sent                         *)
    stop,     (* why the model stopped, as the provider said               *)
    reported, (* history: the last token counts the provider reported      *)
    w,        (* what the callback keeps, see Writer                       *)
    finish,   (* lastFinishReason, streamUsage.finish                      *)
    usage,    (* accumulatedUsage, streamUsage.usage                       *)
    outcome   (* "open"; "ok" or "error", as logged; "failover"            *)

provider   == <<protocol, sink, sent, events, stop, reported>>
streamVars == <<provider, w, finish, usage, outcome>>

(* An event the client receives: at is its index or output_index, of the   *)
(* kind of block, item or delta it is about, or the reason it carries, and *)
(* n the piece it carries, if any.                                         *)
Write(s, type, at, of, n) ==
    [s EXCEPT !.out = Append(@, [type |-> type, at |-> at, of |-> of, n |-> n])]

Types == {"message_start", "content_block_start", "content_block_delta",
          "content_block_stop", "message_delta", "message_stop", "created",
          "output_item.added", "part.added", "delta", "part.done",
          "output_item.done", "completed", "failed", "chunk", "[DONE]", "error"}
Names == {"", "thinking", "text", "tool", "reasoning", "max_tokens", "tool_use",
          "end_turn", "incomplete", "completed", "failed"}
ClientEvent == [type : Types, at : Nat, of : Names, n : Nat]

(* began: headersSent, or the first chunk was received; index: blockIndex, *)
(* outputIndex; open: currentBlockType; reasoning: "open" when             *)
(* reasoningStarted, "closed" when reasoningStopped; message:              *)
(* messageStarted.                                                         *)
Writer == [out : Seq(ClientEvent),
           began : BOOLEAN, index : Nat,
           open : {"none", "thinking", "text", "tool"},
           reasoning : {"none", "open", "closed"}, message : BOOLEAN]

Tokens == [in : Nat, out : Nat]

StreamTypeOK ==
    /\ protocol \in Protocols /\ sink \in Sink
    /\ sent \in Seq([kind : Kind, event : Nat])
    /\ events \in Nat
    /\ stop \in {"none", "end", "limit", "tool"}
    /\ finish \in {"none", "stop", "length", "tool_calls"}
    /\ reported \in Tokens /\ usage \in Tokens
    /\ w \in Writer
    /\ outcome \in {"open", "ok", "error", "failover"}

NoTokens == [in |-> 0, out |-> 0]

StreamInit ==
    /\ protocol \in Protocols /\ sink \in Sink
    /\ sent = <<>> /\ events = 0 /\ stop = "none"
    /\ w = [out |-> <<>>, began |-> FALSE, index |-> 0, open |-> "none",
            reasoning |-> "none", message |-> FALSE]
    /\ finish = "none"
    /\ reported = NoTokens /\ usage = NoTokens
    /\ outcome = "open"

----------------------------------------------------------------------------
(* What a provider may send next.  Every protocol sends the arguments of a *)
(* call right after it, and a signature after the thinking it signs.       *)

NextPiece == Len(sent) + 1
LastKind == IF sent = <<>> THEN "none" ELSE sent[Len(sent)].kind

(* The kinds of piece that may follow one of kind k. *)
After(k) == {"thinking", "text", "call"}
            \cup (IF k = "thinking" THEN {"signature"} ELSE {})
            \cup (IF k \in {"call", "args"} THEN {"args"} ELSE {})

Parts(p) ==
    CASE p = "openai"    -> {<<>>} \cup {<<k>> : k \in After(LastKind)}
                            \cup {<<"thinking", "text">>, <<"text", "call">>,
                                  <<"text", "fn">>, <<"fn", "fn">>}
      [] p = "anthropic" -> {<<k>> : k \in After(LastKind)}
      [] p = "google"    -> {<<"text">>, <<"fn">>, <<"text", "text">>,
                             <<"fn", "text">>, <<"fn", "fn">>}
      [] p = "cohere"    -> {<<k>> : k \in After(LastKind) \ {"thinking", "signature"}}

TypeOf(p, parts) ==
    CASE p = "anthropic" /\ parts = <<"call">> -> "content_block_start"
      [] p = "anthropic" /\ parts # <<"call">> -> "content_block_delta"
      [] p = "cohere" /\ parts = <<"text">>    -> "content-delta"
      [] p = "cohere" /\ parts = <<"call">>    -> "tool-call-start"
      [] p = "cohere" /\ parts = <<"args">>    -> "tool-call-delta"
      [] OTHER                                 -> "chunk"

(* Anthropic and Cohere announce the message before its content. *)
Announced == protocol \in {"openai", "google"} \/ events > 0

(* The output tokens so far: never 0, and growing with the completion. *)
Output == Len(sent) + 1

Content ==
    {Event(TypeOf(protocol, q), NextPiece, q, "none",
           IF protocol = "google" THEN 1 ELSE 0,
           IF protocol = "google" THEN Output ELSE 0) :
        q \in {q \in Parts(protocol) : /\ Announced /\ stop = "none"
                                       /\ Len(sent) + Len(q) <= MaxPieces}}

(* Why a model stops.  Gemini does not say that it stops for a call. *)
Reasons == IF protocol = "google" THEN {"end", "limit"} ELSE {"end", "limit", "tool"}

(* The event that says the model stopped, and what comes with it. *)
Stops ==
    {e \in UNION {
        CASE protocol = "openai"    -> {Event("chunk", NextPiece, <<>>, r, 0, 0)}
          [] protocol = "anthropic" -> {Event("message_delta", NextPiece, <<>>, r, 0, Output)}
          [] protocol = "google"    -> {Event("chunk", NextPiece, q, r, 1, Output) :
                                          q \in {<<>>} \cup Parts("google")}
          [] protocol = "cohere"    -> {Event("message-end", NextPiece, <<>>, r, 1, Output)}
        : r \in Reasons} : /\ Announced /\ stop = "none"
                           /\ Len(sent) + Len(e.parts) <= MaxPieces}

(* The events before the content and after the stop. *)
Frame ==
    CASE protocol = "openai" ->
           IF stop = "none" THEN {}
           ELSE {Event("chunk", NextPiece, <<>>, "none", 1, Output),
                 Event("[DONE]", NextPiece, <<>>, "none", 0, 0)}
      [] protocol = "anthropic" ->
           (IF events = 0 THEN {Event("message_start", 1, <<>>, "none", 1, 0)} ELSE {})
           \cup (IF stop = "none" THEN {}
                 ELSE {Event("message_stop", NextPiece, <<>>, "none", 0, 0)})
      [] protocol = "cohere" ->
           IF events = 0 THEN {Event("message-start", 1, <<>>, "none", 0, 0)} ELSE {}
      [] protocol = "google" -> {}

----------------------------------------------------------------------------
(* The Messages stream.                                                    *)

CloseBlock(s) ==
    IF s.open = "none" THEN s
    ELSE [Write(s, "content_block_stop", s.index, "", 0)
            EXCEPT !.index = @ + 1, !.open = "none"]

(* Mutant: the block before is left open. *)
OpenBlockOver(s, k, n) ==
    [Write(s, "content_block_start", s.index, k, n) EXCEPT !.open = k]

(* OpenBlock(s, k, n): the block of a tool call carries its id, n. *)
OpenBlock(s, k, n) ==
    LET c == CloseBlock(s)
    IN  [Write(c, "content_block_start", c.index, k, n) EXCEPT !.open = k]

Delta(s, k, n) == Write(s, "content_block_delta", s.index, k, n)

(* The field n of the delta, which belongs in a block of kind k. *)
IntoBlock(s, k, n) ==
    IF n = 0 THEN s
    ELSE Delta(IF s.open = k THEN s ELSE OpenBlock(s, k, 0), k, n)

ToolCall(s, call) ==
    LET started == IF call.id = 0 THEN s ELSE OpenBlock(s, "tool", call.id)
    IN  IF call.args = 0 THEN started ELSE Delta(started, "tool", call.args)

MessagesChunk(s, chunk) ==
    LET begun == IF s.began THEN s
                 ELSE [Write(s, "message_start", 0, "", 0) EXCEPT !.began = TRUE]
        delta == IntoBlock(IntoBlock(IntoBlock(begun, "thinking", chunk.reasoning),
                                     "thinking", chunk.signature),
                           "text", chunk.text)
    IN  FoldLeft(ToolCall, delta, chunk.calls)

(* mapFinishReasonToAnthropic *)
StopReason(f) ==
    CASE f = "length"     -> "max_tokens"
      [] f = "tool_calls" -> "tool_use"
      [] OTHER            -> "end_turn"

FinishMessages(s, f) ==
    Write(Write(s, "message_delta", s.index, StopReason(f), 0),
          "message_stop", s.index, "", 0)

(* A complete stream has at least one block. *)
MessagesDone(s, f) ==
    LET c == CloseBlock(s)
    IN  FinishMessages(IF c.index = 0 THEN CloseBlock(OpenBlock(c, "text", 0)) ELSE c, f)

(* So has a broken one, which ends like a complete one. *)
MessagesBroken(s, f) ==
    FinishMessages(CloseBlock(IF s.open = "none" THEN OpenBlock(s, "text", 0) ELSE s), f)

----------------------------------------------------------------------------
(* The Responses stream.  It has no events for signatures and tool calls.  *)

OpenReasoning(s) ==
    IF s.reasoning # "none" THEN s
    ELSE [Write(Write(s, "output_item.added", s.index, "reasoning", 0),
                "part.added", s.index, "reasoning", 0) EXCEPT !.reasoning = "open"]

CloseReasoning(s) ==
    IF s.reasoning # "open" THEN s
    ELSE [Write(Write(s, "part.done", s.index, "reasoning", 0),
                "output_item.done", s.index, "reasoning", 0)
            EXCEPT !.reasoning = "closed", !.index = @ + 1]

OpenMessage(s) ==
    IF s.message THEN s
    ELSE [Write(Write(s, "output_item.added", s.index, "text", 0),
                "part.added", s.index, "text", 0) EXCEPT !.message = TRUE]

CloseMessage(s) ==
    Write(Write(s, "part.done", s.index, "text", 0),
          "output_item.done", s.index, "text", 0)

ResponsesChunk(s, chunk) ==
    LET begun    == IF s.began THEN s
                    ELSE [Write(s, "created", 0, "", 0) EXCEPT !.began = TRUE]
        reasoned == IF chunk.reasoning = 0 THEN begun
                    ELSE Write(OpenReasoning(begun), "delta", begun.index,
                               "reasoning", chunk.reasoning)
        opened   == OpenMessage(CloseReasoning(reasoned))
    IN  IF chunk.text = 0 THEN reasoned
        ELSE Write(opened, "delta", opened.index, "text", chunk.text)

Status(f) == IF f = "length" THEN "incomplete" ELSE "completed"

ResponsesDone(s, f) ==
    LET c == CloseMessage(OpenMessage(CloseReasoning(s)))
    IN  Write(c, "completed", c.index, Status(f), 0)

(* A broken stream does not close its reasoning item. *)
ResponsesBroken(s) ==
    LET c == CloseMessage(OpenMessage(s))
    IN  Write(c, "failed", c.index, "failed", 0)

----------------------------------------------------------------------------
(* The chat stream forwards the chunks; here, the pieces in them.          *)

ChatChunk(s, chunk) ==
    LET Carried == <<chunk.reasoning, chunk.signature, chunk.text>>
                   \o FlattenSeq([i \in DOMAIN chunk.calls |->
                                   <<chunk.calls[i].id, chunk.calls[i].args>>])
    IN  FoldLeft(LAMBDA t, n : IF n = 0 THEN t ELSE Write(t, "chunk", 0, "", n),
                 [s EXCEPT !.began = TRUE], Carried)

----------------------------------------------------------------------------

OnChunk(s, chunk) ==
    CASE sink = "chat"      -> ChatChunk(s, chunk)
      [] sink = "messages"  -> MessagesChunk(s, chunk)
      [] sink = "responses" -> ResponsesChunk(s, chunk)

Complete(s, f) ==
    CASE sink = "chat"      -> Write(s, "[DONE]", 0, "", 0)
      [] sink = "messages"  -> MessagesDone(s, f)
      [] sink = "responses" -> ResponsesDone(s, f)

Break(s, f) ==
    CASE sink = "chat"      -> Write(s, "error", 0, "", 0)
      [] sink = "messages"  -> MessagesBroken(s, f)
      [] sink = "responses" -> ResponsesBroken(s)

(* Mutant: a report replaces the one before. *)
ObserveLast(old, new) == [in |-> new.in, out |-> new.out]

(* streamUsage.observe keeps what a report leaves out: "Anthropic splits   *)
(* input tokens (message_start) from output tokens (message_delta)".       *)
Observe(old, new) ==
    [in  |-> IF new.in = 0 THEN old.in ELSE new.in,
     out |-> IF new.out = 0 THEN old.out ELSE new.out]

(* The other two streams keep the last report. *)
Accumulate(old, report) ==
    IF report = <<>> THEN old
    ELSE IF sink = "chat" THEN Observe(old, report[1]) ELSE report[1]

(* Mutant: the last chunk only ends the stream. *)
RelayedUnlessDone(t) == t.forward /\ ~t.done

(* A chunk is forwarded even if it is the last. *)
Relayed(t) == t.forward

(* The provider sends e: the loop body of Upstream.Stream and, if e ends   *)
(* the stream, its end.                                                    *)
Receive(e) ==
    LET t == TransformStreamEvent(protocol, e)
        f == IF Relayed(t) /\ t.chunk.finish # "none" THEN t.chunk.finish ELSE finish
        s == IF Relayed(t) THEN OnChunk(w, t.chunk) ELSE w
    IN  /\ outcome = "open" /\ events < MaxEvents
        /\ events' = events + 1
        /\ sent' = sent \o [i \in DOMAIN e.parts |->
                              [kind |-> e.parts[i], event |-> events']]
        /\ stop' = IF e.stop = "none" THEN stop ELSE e.stop
        /\ reported' = [in  |-> IF e.in = 0 THEN reported.in ELSE e.in,
                       out |-> IF e.out = 0 THEN reported.out ELSE e.out]
        /\ finish' = f
        /\ usage' = IF Relayed(t) THEN Accumulate(usage, t.chunk.usage) ELSE usage
        /\ w' = IF t.done THEN Complete(s, f) ELSE s
        /\ outcome' = IF t.done THEN "ok" ELSE "open"
        /\ UNCHANGED <<protocol, sink>>

(* The provider closes the stream, with or without having finished. *)
UpstreamCloses ==
    /\ outcome = "open"
    /\ w' = Complete(w, finish)
    /\ outcome' = "ok"
    /\ UNCHANGED <<provider, finish, usage>>

(* The stream breaks, or its time is up.  Before the first chunk the       *)
(* handler fails over to the next route.                                   *)
UpstreamBreaks ==
    /\ outcome = "open"
    /\ IF w.began THEN w' = Break(w, finish) /\ outcome' = "error"
       ELSE w' = w /\ outcome' = "failover"
    /\ UNCHANGED <<provider, finish, usage>>

StreamNext ==
    \/ \E e \in Content \cup Stops \cup Frame : Receive(e)
    \/ UpstreamCloses
    \/ UpstreamBreaks

StreamSpec == StreamInit /\ [][StreamNext]_streamVars

----------------------------------------------------------------------------
(* The grammar of each stream, event by event: what may come right after   *)
(* the event p, and what may come first and last.                          *)

MessagesFollows(p, e) ==
    CASE e.type = "content_block_start" ->
             \/ p.type = "message_start" /\ e.at = 0
             \/ p.type = "content_block_stop" /\ e.at = p.at + 1
      [] e.type = "content_block_delta" ->
             /\ p.type \in {"content_block_start", "content_block_delta"}
             /\ e.at = p.at /\ e.of = p.of
      [] e.type = "content_block_stop" ->
             /\ p.type \in {"content_block_start", "content_block_delta"}
             /\ e.at = p.at
      [] e.type = "message_delta" -> p.type = "content_block_stop"
      [] e.type = "message_stop"  -> p.type = "message_delta"
      [] OTHER -> FALSE

ResponsesFollows(p, e) ==
    CASE e.type = "output_item.added" ->
             \/ p.type = "created" /\ e.at = 0
             \/ p.type = "output_item.done" /\ e.at = p.at + 1
      [] e.type = "part.added" ->
             p.type = "output_item.added" /\ e.at = p.at /\ e.of = p.of
      [] e.type \in {"delta", "part.done"} ->
             /\ p.type \in {"part.added", "delta"}
             /\ e.at = p.at /\ e.of = p.of
      [] e.type = "output_item.done" ->
             p.type = "part.done" /\ e.at = p.at /\ e.of = p.of
      [] e.type \in {"completed", "failed"} -> p.type = "output_item.done"
      [] OTHER -> FALSE

Follows(p, e) ==
    CASE sink = "chat"      -> p.type = "chunk"
      [] sink = "messages"  -> MessagesFollows(p, e)
      [] sink = "responses" -> ResponsesFollows(p, e)

Opening == CASE sink = "chat"      -> {"chunk", "[DONE]", "error"}
             [] sink = "messages"  -> {"message_start"}
             [] sink = "responses" -> {"created"}

Closing == CASE sink = "chat"      -> IF outcome = "ok" THEN "[DONE]" ELSE "error"
             [] sink = "messages"  -> "message_stop"
             [] sink = "responses" -> IF outcome = "ok" THEN "completed" ELSE "failed"

(* The client of a stream that was completed learns why the model stopped. *)
ReasonTold ==
    \A i \in DOMAIN w.out :
        /\ w.out[i].type = "message_delta" =>
               /\ (w.out[i].of = "max_tokens") <=> (stop = "limit")
               /\ (w.out[i].of = "tool_use") <=> (stop = "tool")
        /\ w.out[i].type = "completed" =>
               (w.out[i].of = "incomplete") <=> (stop = "limit")

(* Where the code departs from the grammar.  The Responses stream keeps    *)
(* one index for the open item: reasoning that comes after text is written *)
(* with the index of the message, and a stream that breaks in its          *)
(* reasoning adds the message at the index of the reasoning item, which    *)
(* stays open.  A stream the provider closed without a chunk is completed  *)
(* without having been opened.                                             *)
LateReasoning ==
    \E i, j \in DOMAIN sent :
        i < j /\ sent[i].kind = "text" /\ sent[j].kind = "thinking"

BrokenInReasoning == outcome = "error" /\ w.reasoning = "open"

Irregular == \/ sink = "responses" /\ (LateReasoning \/ BrokenInReasoning)
             \/ sink # "chat" /\ outcome = "ok" /\ ~w.began

(* What the client receives is a stream of its protocol: blocks and items  *)
(* are numbered from 0 on and do not overlap, every delta is of the kind   *)
(* of the one that is open, all are closed at the end, nothing follows the *)
(* last event, and that event says why the model stopped.  The one         *)
(* exception is Irregular.  The callbacks' interplay of open block, index  *)
(* and flags over every order of fields and chunks.                        *)
WellFormed ==
    ~Irregular =>
        /\ \A i \in DOMAIN w.out :
               IF i = 1 THEN w.out[i].type \in Opening
               ELSE Follows(w.out[i - 1], w.out[i])
        /\ outcome \in {"ok", "error"} => w.out[Len(w.out)].type = Closing
        /\ ReasonTold

(* The events that carry a piece to the client. *)
Carrying == {i \in DOMAIN w.out : w.out[i].n # 0}

(* Of two texts in one event of Gemini, the translator keeps the last. *)
Overwritten(i) ==
    \E j \in DOMAIN sent : /\ i < j /\ sent[j].event = sent[i].event
                           /\ sent[i].kind = "text" /\ sent[j].kind = "text"

Relevant == IF sink = "responses" THEN {"thinking", "text"} ELSE Kind

(* Translating twice, by the provider's translator and by the endpoint's   *)
(* callback, loses no piece of the completion but those a comment above    *)
(* names, invents none, and keeps the order of the events; within an event *)
(* of Gemini, text moves ahead of calls.  An event that ends the stream    *)
(* delivers its pieces too (upstream.go:145).                              *)
NothingLost ==
    /\ {w.out[i].n : i \in Carrying}
         = {i \in DOMAIN sent : sent[i].kind \in Relevant /\ ~Overwritten(i)}
    /\ \A i, j \in Carrying :
           LET m == w.out[i].n
               n == w.out[j].n
           IN  i < j => \/ m <= n
                        \/ /\ protocol = "google" /\ sent[m].event = sent[n].event
                           /\ sent[m].kind = "text"

(* What is logged, and charged, is what the provider reported, however it  *)
(* spreads it over its events.  The one exception: the Messages and        *)
(* Responses streams of an Anthropic provider forget the input tokens of   *)
(* message_start when message_delta reports the output tokens, which the   *)
(* chat stream was written to avoid (handler.go:520).                      *)
Forgotten == sink # "chat" /\ protocol = "anthropic" /\ reported.out # 0

UsageComplete ==
    outcome \in {"ok", "error"} =>
        usage = IF Forgotten THEN [reported EXCEPT !.in = 0] ELSE reported
=============================================================================
