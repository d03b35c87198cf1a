------------------------------ MODULE Exchange ------------------------------
(***************************************************************************)
(* One exchange with a provider, as Upstream.Call and Upstream.Stream make *)
(* it on the route the handler tries: the client's conversation is         *)
(* translated into the provider's request (Bodies), and the answer comes   *)
(* back whole (Bodies) or as a stream, whose steps are those of            *)
(* StreamEvents.                                                           *)
(*                                                                         *)
(* The handlers keep no request once an answer has begun, nor does the     *)
(* model.                                                                  *)
(***************************************************************************)
EXTENDS Bodies, StreamEvents

CONSTANTS MaxTurns, (* bound: the turns of a conversation                  *)
          MaxKinds, (* bound: the blocks of a turn                         *)
          MaxAsked, (* bound: the pieces of a conversation                 *)
          LongTurns (* how many turns the one longer conversation has      *)

ASSUME ExchangeAssumption ==
    /\ MaxTurns \in Nat /\ MaxKinds \in Nat /\ MaxAsked \in Nat
    /\ LongTurns \in Nat

VARIABLES
    phase,    (* "asking", "asked", "sent", "answering", "answered"        *)
    talk,     (* the turns of the client                                   *)
    pieces,   (* the kind and the turn of each piece in talk               *)
    marked,   (* the piece to which the client gave cache_control, else 0  *)
    body,     (* what the provider received                                *)
    settings, (* what the client set, and what the provider received       *)
    answer    (* history: the completion, and what the client received     *)

request == <<talk, pieces, marked, body, settings>>

Nothing == <<>>

Kinds == [n \in DOMAIN pieces |-> pieces[n].kind]

(* The results answer the calls in their order. *)
Results(kinds) == Len(Numbers(kinds, "result"))
CallOf(result) == Numbers(Kinds, "call")[result]

----------------------------------------------------------------------------
(* What a client may say next, in each endpoint's format.                  *)

SeqsUpTo(kinds) == UNION {[1..n -> kinds] : n \in 1..MaxKinds}

Said(role, form, kinds) == [role |-> role, form |-> form, kinds |-> kinds]

Strings(roles) == {Said(r, "string", <<"text">>) : r \in roles}

ChatTurns ==
    Strings({"system", "developer", "user", "assistant"})
    \cup {Said("system", "parts", <<"text", "text">>)}
    \cup {Said("user", "parts", q) : q \in SeqsUpTo({"text", "image_url"})}
    \cup {Said("assistant", f, <<"text", "call">>) : f \in {"string", "parts"}}
    \cup {Said("assistant", "string", q) : q \in {<<"thinking", "text">>,
                                                  <<"call">>, <<"call", "call">>}}
    \cup {Said("tool", f, <<"result">>) : f \in {"string", "parts"}}

MessagesTurns ==
    Strings({"user", "assistant"})
    \cup (IF talk = <<>> THEN {Said("system", "parts", q) : q \in SeqsUpTo({"text"})} ELSE {})
    \cup {Said("user", "parts", q) : q \in SeqsUpTo({"text", "image", "result"})}
    \cup {Said("assistant", "parts", q) : q \in SeqsUpTo({"text", "thinking", "call"})}

ResponsesTurns ==
    Strings({"developer", "user", "assistant"})
    \cup (IF talk = <<>> THEN Strings({"system"}) ELSE {})
    \cup {Said("user", "parts", q) : q \in SeqsUpTo({"input_text", "input_image"})}
    \cup {Said("assistant", "parts", q) : q \in {<<"output_text">>, <<"thinking">>, <<"call">>}}
    \cup {Said("tool", "parts", <<"result">>)}

TurnsOf(s) == CASE s = "chat"      -> ChatTurns
                [] s = "messages"  -> MessagesTurns
                [] s = "responses" -> ResponsesTurns

(* Every result of a turn answers a call of an earlier one. *)
Answers(kinds) == Results(Kinds) + Results(kinds) <= Len(Numbers(Kinds, "call"))

Blocks(kinds) ==
    [i \in DOMAIN kinds |->
        Block(kinds[i], <<Len(pieces) + i>>,
              IF kinds[i] # "result" THEN 0
              ELSE CallOf(Results(Kinds) + Results(SubSeq(kinds, 1, i))), FALSE)]

(* A conversation long enough for the mark at a third of it. *)
LongForm == IF sink = "chat" THEN "parts" ELSE "string"
LongRole(t) == IF t % 2 = 1 THEN "user" ELSE "assistant"

(* What the client sets.  The settings and the messages do not depend on   *)
(* each other: all settings go with a first message, one with the others.    *)
Hello == <<[role |-> "user", form |-> "string", blocks |-> <<Block("text", <<1>>, 0, FALSE)>>]>>

Settings ==
    [max : IF sink = "messages" THEN {1024, 1025, 9000} ELSE {0, 1024, 1025},
     completion : IF sink = "chat" THEN {0, 2000} ELSE {0},
     thinking : IF sink = "responses" THEN {"none"} ELSE {"none", "enabled", "adaptive"},
     budget : {0, 1024}, effort : IF sink = "messages" THEN {"none"} ELSE {"none", "low"},
     temperature : BOOLEAN, tools : BOOLEAN,
     choice : {"unset", "auto", "required", "none", "named"}]

Usual == [max |-> 1024, completion |-> 0, thinking |-> "none", budget |-> 0,
          effort |-> "none", temperature |-> FALSE, tools |-> TRUE, choice |-> "unset"]

(* cache_control is for providers of Anthropic, and not in Responses.      *)
Markable == IF protocol = "anthropic" /\ sink # "responses"
            THEN 0..Len(pieces) ELSE {0}

----------------------------------------------------------------------------

ExchangeTypeOK ==
    /\ StreamTypeOK
    /\ phase \in {"asking", "asked", "sent", "answering", "answered"}
    /\ \A t \in DOMAIN talk : talk[t].form \in {"string", "parts"}
    /\ marked \in 0..Len(pieces)
    /\ phase # "sent" => body = Nothing
    /\ phase # "answering" => w.out = <<>>

NoSettings == [asked |-> Usual, given |-> Nothing]

ExchangeInit ==
    /\ StreamInit
    /\ phase = "asking" /\ talk = <<>> /\ pieces = <<>> /\ marked = 0 /\ body = Nothing
    /\ settings = NoSettings /\ answer = Nothing

Say(turn) ==
    /\ phase = "asking" /\ Len(talk) < MaxTurns
    /\ Len(pieces) + Len(turn.kinds) <= MaxAsked /\ Answers(turn.kinds)
    /\ talk' = Append(talk, [role |-> turn.role, form |-> turn.form,
                             blocks |-> Blocks(turn.kinds)])
    /\ pieces' = pieces \o [i \in DOMAIN turn.kinds |->
                               [kind |-> turn.kinds[i], turn |-> Len(talk) + 1]]
    /\ UNCHANGED <<streamVars, phase, marked, body, settings, answer>>

SayMuch ==
    /\ phase = "asking" /\ talk = <<>>
    /\ talk' = [t \in 1..LongTurns |->
                  [role |-> LongRole(t), form |-> LongForm,
                   blocks |-> <<Block("text", <<t>>, 0, FALSE)>>]]
    /\ pieces' = [t \in 1..LongTurns |-> [kind |-> "text", turn |-> t]]
    /\ UNCHANGED <<streamVars, phase, marked, body, settings, answer>>

Mark(n) ==
    /\ phase = "asking" /\ n # 0
    /\ marked' = n
    /\ talk' = [t \in DOMAIN talk |->
                  [talk[t] EXCEPT !.blocks =
                      [i \in DOMAIN @ |-> Block(@[i].kind, @[i].ns, @[i].of, @[i].ns = <<n>>)]]]
    /\ phase' = "asked"
    /\ UNCHANGED <<streamVars, pieces, body, settings, answer>>

(* The translations before the request is sent, with an api key or with a  *)
(* subscription.                                                           *)
Send(s, oauth) ==
    LET translated == TransformRequest(protocol, ToChat(sink, talk))
    IN  /\ phase \in {"asking", "asked"} /\ talk # <<>>
        /\ body' = IF oauth THEN WithBilling(translated) ELSE translated
        /\ settings' = [asked |-> s,
                        given |-> TransformSettings(protocol, ChatSettings(sink, s))]
        /\ phase' = "sent"
        /\ UNCHANGED <<streamVars, talk, pieces, marked, answer>>

(* The provider accepts. *)
Accepted ==
    /\ phase = "sent"
    /\ phase' = "answering"
    /\ talk' = <<>> /\ pieces' = <<>> /\ marked' = 0
    /\ body' = Nothing /\ settings' = NoSettings
    /\ UNCHANGED <<streamVars, answer>>

(* The completions of a provider.  An OpenAI-compatible one sends the      *)
(* fields of a message, in their order, a signature among them             *)
(* (gateway.go:66); Anthropic may sign each thinking, as in a stream       *)
(* (translator_anthropic.go:74).                                           *)
Completions ==
    LET kinds == IF protocol \in {"google", "cohere"} THEN {"text", "call"}
                 ELSE {"thinking", "signature", "text", "call"}
        any == {q \in UNION {[1..n -> kinds] : n \in 0..MaxPieces} :
                  \A i \in DOMAIN q : q[i] = "signature" => i > 1 /\ q[i - 1] = "thinking"}
    IN  IF protocol = "openai"
        THEN {<<>>, <<"text">>, <<"thinking", "text">>, <<"thinking", "signature", "text">>,
              <<"text", "call", "call">>, <<"thinking", "call">>, <<"call", "call">>}
        ELSE any

(* The answer to a request that does not stream. *)
AnswerWhole(kinds, reason) ==
    LET resp == TransformResponse(protocol, kinds, reason)
    IN  /\ phase = "answering" /\ events = 0 /\ outcome = "open"
        /\ answer' = [kinds |-> kinds, reason |-> reason,
                      items |-> ToClient(sink, resp.message),
                      told |-> CASE sink = "chat"      -> resp.finish
                                 [] sink = "messages"  -> StopReason(resp.finish)
                                 [] sink = "responses" -> Status(resp.finish)]
        /\ phase' = "answered"
        /\ UNCHANGED <<streamVars, request>>

Stream ==
    /\ phase = "answering"
    /\ StreamNext
    /\ UNCHANGED <<phase, request, answer>>

ExchangeNext ==
    \/ phase = "asking" /\ \E turn \in TurnsOf(sink) : Say(turn)
    \/ SayMuch
    \/ \E n \in Markable : Mark(n)
    \/ \E s \in (IF talk = Hello /\ marked = 0 THEN Settings ELSE {Usual}),
          oauth \in (IF protocol = "anthropic" THEN BOOLEAN ELSE {FALSE}) : Send(s, oauth)
    \/ Accepted
    \/ \E kinds \in Completions, reason \in Reasons : AnswerWhole(kinds, reason)
    \/ Stream

ExchangeSpec == ExchangeInit /\ [][ExchangeNext]_<<streamVars, phase, request, answer>>

----------------------------------------------------------------------------
(* The pieces the provider received, in the order of its request, each     *)
(* with the voice in which it is said.                                     *)

Voice(role, kind) ==
    CASE kind = "result"                                 -> "tool"
      [] kind # "result" /\ role \in Instructing          -> "system"
      [] kind # "result" /\ role \in {"assistant", "model"} -> "model"
      [] kind # "result" /\ role = "user"                -> "user"

Arrived ==
    LET turns == <<Turn("system", body.system)>> \o body.turns
        of(role, b) == [j \in DOMAIN b.ns |->
                          [n |-> b.ns[j], voice |-> Voice(role, b.kind), of |-> b.of]]
    IN  FlattenSeq([i \in DOMAIN turns |->
            FlattenSeq([k \in DOMAIN turns[i].blocks |->
                          of(turns[i].role, turns[i].blocks[k])])])

TurnOf(n) == pieces[n].turn

(* A piece of a kind is in the turn t. *)
Has(t, kind) == \E n \in DOMAIN pieces : pieces[n] = [kind |-> kind, turn |-> t]

(* Where the code drops a piece.  Of several system messages Anthropic and *)
(* Gemini get the last, Gemini no developer message.  Thinking comes back  *)
(* only to OpenAI-compatible providers, the last of a turn.  /v1/messages  *)
(* drops what comes with a result, and an image that comes with a text;    *)
(* /v1/responses an image that comes with a text.  Gemini gets texts only, *)
(* and no text with a call.  Anthropic gets no array with a call or as a   *)
(* result.                                                                 *)
Superseded(t) ==
    CASE protocol = "anthropic" ->
             /\ talk[t].role \in Instructing
             /\ \E u \in DOMAIN talk : u > t /\ talk[u].role \in Instructing
      [] protocol = "google" ->
             \/ talk[t].role = "developer"
             \/ /\ talk[t].role = "system"
                /\ \E u \in DOMAIN talk : u > t /\ talk[u].role = "system"
      [] OTHER -> FALSE

ThoughtKept(n) ==
    /\ protocol = "openai" /\ sink # "responses"
    /\ \A m \in DOMAIN pieces : m > n => pieces[m] # pieces[n]

Dropped(n) ==
    LET turn == TurnOf(n)
        kind == Kinds[n]
    IN  \/ Superseded(turn)
        \/ kind = "thinking" /\ ~ThoughtKept(n)
        \/ sink = "messages" /\ kind # "result" /\ Has(turn, "result")
        \/ sink = "messages" /\ kind = "image" /\ Has(turn, "text")
        \/ kind = "input_image" /\ Has(turn, "input_text")
        \/ protocol = "google" /\ kind \in {"image", "image_url", "input_image", "output_text"}
        \/ protocol = "google" /\ kind = "text" /\ Has(turn, "call")
        \/ /\ protocol = "anthropic" /\ sink = "chat" /\ talk[turn].form = "parts"
           /\ kind = "result" \/ (kind = "text" /\ Has(turn, "call"))

(* Of two pieces, which may come first in the provider's request: the      *)
(* system prompt, what was said in an earlier turn and, within a turn, the *)
(* earlier of its kind, but that of several results in one message of      *)
(* /v1/messages the first comes last.                                      *)
MayPrecede(a, b) ==
    LET ta == TurnOf(a.n)
        tb == TurnOf(b.n)
        FirstResult(n) == \A m \in 1..(n - 1) : pieces[m] # pieces[n]
    IN  CASE a.voice = "system" /\ b.voice # "system" -> TRUE
          [] b.voice = "system" /\ a.voice # "system" ->
                 protocol \in {"openai", "cohere"} /\ ta < tb
          [] a.voice = "tool" /\ ta = tb -> FirstResult(b.n) \/ a.n < b.n
          [] OTHER -> ta < tb \/ (ta = tb /\ (Kinds[a.n] # Kinds[b.n] \/ a.n < b.n))

(* The conversation reaches the model: through both translations every     *)
(* piece but those of Dropped arrives, once, in the voice that said it and *)
(* in order; a result comes after its call and names it, but that Gemini   *)
(* is told the name of a function, which only chat clients give.  With a   *)
(* subscription, its attribution comes first.  The translators' interplay  *)
(* over every mix of turns; the tests send one of each                     *)
(* (handler_messages_test.go:131).                                         *)
RequestFaithful ==
    phase = "sent" =>
        LET arrived == Arrived
        IN  /\ {arrived[i].n : i \in DOMAIN arrived} = {n \in DOMAIN pieces : ~Dropped(n)}
            /\ \A i, j \in DOMAIN arrived :
                   i < j => /\ arrived[i].n # arrived[j].n
                            /\ MayPrecede(arrived[i], arrived[j])
            /\ \A i \in DOMAIN arrived :
                   LET a == arrived[i]
                   IN  /\ a.voice = Voice(talk[TurnOf(a.n)].role, Kinds[a.n])
                       /\ a.voice = "tool" =>
                              a.of = IF protocol = "google" /\ sink # "chat" THEN 0
                                     ELSE CallOf(Results(SubSeq(Kinds, 1, a.n)))
            /\ \A i \in DOMAIN body.system : body.system[i].kind = "billing" => i = 1

----------------------------------------------------------------------------
(* The mark of a part in an array, of a call and of an image is not seen   *)
(* by the translator, nor that of what /v1/messages drops.                 *)
Unseen ==
    LET turn == TurnOf(marked)
        kind == Kinds[marked]
    IN  IF sink = "chat" THEN talk[turn].form = "parts" /\ kind # "call"
        ELSE kind \notin {"text", "result"} \/ (kind = "text" /\ Has(turn, "result"))

MarkedBlocks ==
    LET blocks == body.system \o FlattenSeq([i \in DOMAIN body.turns |-> body.turns[i].blocks])
    IN  {blocks[i].ns : i \in {i \in DOMAIN blocks : blocks[i].mark}}

(* "If so, we skip auto-injection and respect the client's caching         *)
(* strategy" (translator_anthropic.go:188): with a mark of the client's,   *)
(* the provider is asked to cache no other turn and no tools, and the turn *)
(* with the mark if it arrives; without, at most the four blocks that      *)
(* injectAnthropicCacheControl lists.  The one exception is a mark the     *)
(* translator does not see, to which it adds its own.                      *)
CachingRespected ==
    phase = "sent" /\ protocol = "anthropic" =>
        /\ marked # 0 /\ ~Unseen =>
               /\ ~body.cachedTools
               /\ \A ns \in MarkedBlocks : \A n \in ToSet(ns) : TurnOf(n) = TurnOf(marked)
               /\ MarkedBlocks = {} => Dropped(marked)
        /\ marked = 0 => body.cachedTools /\ Cardinality(MarkedBlocks) <= 3

(* What the client set holds for the provider.  A thinking budget leaves   *)
(* room for the answer and no temperature; the limit is the client's but   *)
(* where that needs a larger one; a model that must not, or must, call a   *)
(* tool is told so.  The exceptions: Gemini and Cohere are never told,     *)
(* /v1/messages drops "none", and Anthropic is not told which tool a       *)
(* client of /v1/responses named.                                          *)
Told == /\ protocol \in {"openai", "anthropic"}
        /\ ~(sink = "messages" /\ settings.asked.choice = "none")

SettingsKept ==
    phase = "sent" =>
        LET asked == settings.asked
            given == settings.given
            thinks == given.thinking = "enabled" /\ given.budget > 0
        IN  /\ protocol = "anthropic" /\ thinks =>
                   given.max > given.budget /\ ~given.temperature
            /\ Limit(asked) # 0 =>
                   \/ given.max = Limit(asked)
                   \/ /\ protocol = "anthropic" /\ thinks
                      /\ given.max > Limit(asked) /\ Limit(asked) <= given.budget
            /\ given.temperature => asked.temperature
            /\ asked.tools /\ Told =>
                   /\ asked.choice = "none" => ~given.tools \/ given.choice = "none"
                   /\ asked.choice = "required" => given.choice = "required"
                   /\ asked.choice = "named" =>
                          \/ given.choice = "named"
                          \/ sink = "responses" /\ given.choice = "named item"
                          \/ sink = "responses" /\ protocol = "anthropic"

(* What a whole answer loses: the signature of a thinking, which a chat or *)
(* Messages stream delivers.  Anthropic's TransformResponse takes the      *)
(* thinking alone (translator_anthropic.go:445), and                       *)
(* chatResponseToAnthropic never sets the field its client has for it      *)
(* (handler_messages.go:79, 785).  Only a chat client of an                *)
(* OpenAI-compatible provider, whose message is passed on, keeps it.       *)
Unanswered == IF protocol = "openai" /\ sink = "chat" THEN {} ELSE {"signature"}

(* A whole answer has every piece of the completion but those of           *)
(* Unanswered, once, as what it is and in the order of its kind, and says  *)
(* why the model stopped.  It does not keep the order of pieces of         *)
(* different kinds.                                                        *)
AnswerFaithful ==
    /\ ExchangeTypeOK
    /\ phase = "answered" =>
        LET items == answer.items
            got(kind) == FlattenSeq([i \in DOMAIN items |->
                             IF items[i].kind = kind THEN items[i].ns ELSE <<>>])
        IN  /\ \A kind \in {"thinking", "signature", "text", "call"} :
                   /\ ToSet(got(kind)) = {i \in DOMAIN answer.kinds :
                                            answer.kinds[i] = kind /\ kind \notin Unanswered}
                   /\ \A i, j \in DOMAIN got(kind) : i < j => got(kind)[i] < got(kind)[j]
            /\ answer.told \in {"length", "max_tokens", "incomplete"}
                   <=> answer.reason = "limit"
            /\ sink # "responses" =>
                   (answer.told \in {"tool_calls", "tool_use"} <=> answer.reason = "tool")
=============================================================================
