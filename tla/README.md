# FreeRouter, specified in TLA+

FreeRouter is a self-hosted gateway to large language models, written in Go.
It speaks the OpenAI, Anthropic and Responses APIs to its clients, picks a
provider key for each request, translates the request, and fails over to
another key when a provider fails. Postgres holds the configuration, the
provider keys, the webhooks and the usage log; Redis holds the rate limits and
the response cache; IAMKit, an external service, authenticates.

This directory holds models of the parts of the program in which steps of
several actors, failures, timeouts or restarts meet, the runs of TLC that check
them on small instances, and proofs, checked by TLAPS, that hold for every
instance.

## Inventory

| Component | State | Operations | What is hard |
|---|---|---|---|
| rate limiter (`ratelimit/...`) | Redis: sorted set `ratelimit:rpm:<id>`, counter `ratelimit:concurrent:<id>` with a TTL; Postgres: limits; process: cache of limits, 30 s | `Check`, `Release`, `Get`, `Update`, `Delete` | several Redis commands per operation, lost replies, TTLs, limits changing between `Check` and `Release` |
| gateway handlers (`gateway/adapters/gatewayhttp`, `upstream.go`, `retry.go`) | the request in flight | chat, chat stream, messages, responses (sync and stream), modality passthrough | failover, streams that outlive their handler, token refresh in mid-request |
| router, strategies, key health (`router.go`, `strategy.go`, `keyhealth.go`) | `KeyHealthTracker`: per key an error run, a blacklist flag, latencies, a history | `ResolveAll`, `IsHealthy`, `ReportSuccess`, `ReportError`, sorts | requests report on keys others are choosing; decisions over several critical sections |
| OAuth refresh, provider keys (`providerkey/...`) | rows with encrypted tokens and status; a lock per key | `ForceRefresh`, refresh worker, CRUD | refresh tokens that work once, read-modify-write of whole rows, loss between provider and database |
| webhooks (`webhook/...`) | configurations, delivery rows | `Fire`, retry worker, CRUD | two goroutines deliver and overwrite the same row, nested contexts, restarts |
| usage log, purge (`usage/...`) | buffered channel, its worker, the purge goroutine and its stop channel | `LogRequest`, `Close`, purge, retention, reports | full channel, sends after close, shutdown order |
| bootstrap and shutdown (`bootstrap/container.go`, `cmd/server/main.go`) | - | start, signal, `Container.Cleanup` | what still runs when something is released |
| configuration caches (rate limits, routing) | map with a 30 s TTL | `resolveConfig`, `Update`, `Delete` | stores that race invalidations, cached fallbacks |
| response cache (`gateway/cache.go`) | Redis entries per subject and hashed request | `Get`, `Set`, invalidation by pattern | invalidation in batches against fills |
| authentication and token cache (`server/auth.go`, `token_cache.go`) | map of tokens by secret | `validate`, `Get`, `Set`, sweep | a token may be revoked or expire between the cache and IAMKit's introspection |
| guardrails (`guardrail/...`) | one configuration row, custom rules, the log of violations | `CheckMessages`, redaction, `UpsertConfig`, rules CRUD | redaction by index and by cursor, two reads while both are edited, whole rows written back |
| translators (`translator_*.go`, conversions and stream code of `handler_messages.go`, `handler_responses.go`) | state of one stream | translate requests, responses, chunks | two translations in a row, each regrouping what the other reads; order of events on every interleaving of chunk kinds |
| provider catalog (`provider/...`) | providers, models, mappings, fallbacks | CRUD with cascades | read row by row by the router while it is edited |
| access, api keys, profiles, metrics, shared types, console | Postgres rows, or none | proxies, arithmetic | little: one query or one computation per operation |

How they interact. A handler calls the rate limiter, which gives it a release
closure; then the guardrails, the response cache and the router; then the
upstream, whose failures it reports to the key-health tracker (read by the
router for every other request), to the OAuth refresh (which changes the row the
next call reads) and to the webhooks (which start goroutines of their own).
Every outcome goes to the usage log. A stream is written by a goroutine that
fasthttp starts after the handler returned, so whatever the handler defers runs
before the stream. `Cleanup` stops the workers in a fixed order and then closes
the database.

What makes each component correct:

* limiter: its counter counts slots that are owed; refusals are justified; no
  drift, leak or crash locks a subject out for ever; limits are enforced;
* handlers: one release, after the last byte; no failover after the first byte;
  all routes are tried; the log agrees with what the client saw; requests end;
* key health: each key is a circuit breaker; only what a provider rejected is
  blacklisted, and not silently;
* router: the key picked is one no other was better than, the routes are those of
  the catalog, the order is that of the strategy;
* guardrails: what is to be redacted is gone, a verdict rests on a rule in force,
  the log says what was done, updates are not lost;
* OAuth: the last tokens issued are the ones stored; no token is used twice;
* webhooks: what is recorded happened; attempts are bounded; nothing is pending
  for ever; every subscriber is served;
* usage log: accepted logs are written once and in order; a bounded number is
  lost at the end; no send on a closed channel; shutdown ends;
* caches: what is served was valid at some moment since the last invalidation, and
  not too long ago; a cached token outlives no revocation and costs no good secret a
  refusal;
* translators: every piece of a conversation and of a completion arrives, once, in
  order and in its voice; settings and caching marks are the client's; a stream is
  one its protocol allows.

`PROJECT.json` lists the hazards behind these sentences, each at its line.

## Modules

| Module | Models | Correspondence |
|---|---|---|
| `RateLimiter` | `limiter.go`, `Service.Check`/`Release`, `Handler.checkRateLimit` | One action per Redis round trip (a command or a `MULTI` block). `count`/`expiry` are the counter and its TTL, `window` the size of the sorted set, `slot` what the release closure of a request will do: `"nil"` for a failed check (fail open), `"unpaid"` for a closure that decrements without having incremented. |
| `RequestPromise` | abstract | What the gateway owes the limiter: a slot taken is held while the request is served and given back once, afterwards. |
| `Gateway` | `handler.go`, `handler_messages.go`, `handler_responses.go`, `upstream.go`, `retry.go`; blacklisting of `keyhealth.go` | The pieces of a handler between upstream calls and tracker calls. `owners` says who will call the release closure, `todo` is the rest of the routes, `answer` what the client saw, `logged` the last usage record. Implements `RequestPromise` but for the slots of translated streams. |
| `OAuthRefresh` | `refresh.go`, `Service.Update`/`Delete`, the row | One action per query or token call. A pair of tokens is known by its version; only the last issued can be refreshed. |
| `Webhook` | `webhooksvc/service.go` and its queries | One action per query or POST, for the goroutine of `fire` and for the worker; `job` is the copy of the row each holds; `expired` are outer contexts that are over. |
| `UsageLog` | `usagesvc/service.go`, `container.go` Cleanup, `main.go` | The channel, its worker, the purge goroutine, the main goroutine, requests whose client left a stream (`"orphan"`). |
| `ConfigCache` | `resolveConfig` and its cache, `Create`/`Update`/`Delete`, in `ratelimitsvc` and, word for word, in `routingconfigsvc` | One action per query or per operation on the `sync.Map`; `Range` deletes key by key. A configuration is known by the write it stems from. `origin` and `age` of an entry are history: whether an update overlapped the lookup it comes from, and the ticks since a query returned it. What `RateLimiter` calls any configuration is what this cache may serve. |
| `ResponseCache` | `cache.go`, its use in the three handlers, `InvalidateCache` | One action per command of Redis: `Get`, `Set`, `Scan` and `Delete` for each page of an invalidation. `doomed` and `outlived` of an entry are history: the invalidations that found it and are under way, and whether one of them ended without deleting it. |
| `TokenCache` | `server/auth.go`, `token_cache.go` | One action per call of IAMKit or operation on the map. IAMKit (`active`, `issued`, revocations) is external. `doomed` and `excused` are history: the validations whose credential was revoked before they began, and those that may be refused. |
| `Caches` | `ConfigCache`, `ResponseCache` and `TokenCache` in one process | They share no state, so a behaviour takes the steps of one (`part`). |
| `Translators` | `TransformStreamEvent` of the four protocols | Pure operators from an event of a provider to a chunk. A completion is a sequence of numbered pieces (thinking, signature, text, a call, its arguments); a chunk holds the numbers of the pieces in its fields. |
| `StreamEvents` | `Upstream.Stream`, `commitStream`, the callbacks and epilogues of `handleAnthropicStreamWithRetry` and `handleResponsesStreamWithRetry` | `Receive(e)` is one turn of the loop of `Upstream.Stream`: translate, call back, and end the stream if the translator says so. `w` holds what the callback keeps (`blockIndex` or `outputIndex`, the open block, the `...Started` flags) and, as history, what the client got. `UpstreamCloses` and `UpstreamBreaks` are the two ways out of the loop. What providers send is external (`Content`, `Stops`, `Frame`). |
| `Bodies` | `TransformRequest` and `TransformResponse` of the four protocols and of Anthropic's subscriptions, `anthropicToChatRequest`, `responsesToChatRequest`, `chatResponseToAnthropic`, `chatResponseToResponses` | Pure operators. A conversation is a sequence of numbered pieces in blocks (`ns`), a text joined from several being one block with their numbers; `form` says whether a content is a string, an array of parts or absent, which is what the conversions branch on. |
| `Exchange` | `Upstream.Call` and `Upstream.Stream`, `Bodies` and `StreamEvents` composed | A client says its turns (`Say`), may mark a piece for caching (`Mark`) and sends them (`Send`: both translations in a row); the provider answers whole (`AnswerWhole`) or streams (`Stream`, a step of `StreamEvents`). What clients say is external. |
| `Guardrail` | `guardrailsvc/service.go`, `detector.go`, its tables, `extractMessageTexts`, `applyRedactions` | A check is two queries and a goroutine that logs; an edit is a read and a later write of the whole row. A text is a sequence of units named for what finds them; positions count units, so that matches touch, overlap and repeat. `deduplicateMatches` walks the places of a text over the set of matches, which is the order it sorts them in. `always` and `ever` are history: the rules in force throughout, and at some moment of, a check. |
| `Routing` | `router.go`, `strategy.go`, `keyhealth.go`, the catalog's queries and edits | `ResolveAll` query by query; `pickBestKey` key by key, in its two critical sections (`PickHealthy`, `PickPenalty`); `sortByLatency` as the insertion sort of the library, each comparison two reads of the tracker (`ReadLeft`, `CompareRight`); `sortByCost`, whose prices cannot change meanwhile, by the contract of `sort.SliceStable` (`ByCost`). The history of a key is a set of numbered outcomes. Uptimes are fractions, not floats. `sickAll`, `sickEver`, `quiet`, `always`, `ever`, `lost` are history. |
| `CircuitBreaker` | abstract | What the tracker promises for each key: it rests after a row of `Threshold` errors until it has cooled down or a request on it succeeds; 401 and 403 stop it for ever. Implemented by `Routing`. |
| `RateLimiterProofs`, `GatewayProofs`, `WebhookProofs`, `CachesProofs`, `RoutingProofs`, `GuardrailProofs` | - | Theorems about the modules they are named for. |
| `ServicesProofs` | - | Theorems about `UsageLog`, `OAuthRefresh`, `StreamEvents` and `Exchange`, one section each. |
| `FoldLemmas` | - | Lemmas about the folds and flattened sequences of the community modules. |
| `MC*` | - | Values of constants and symmetry for TLC. |

Each module also holds a few operators marked as mutants: wrong variants of an
action, each of which makes one property fail. They are not part of the
specification; they show that the properties can fail.

Data is abstracted everywhere: bodies, prices, HMACs, ciphertexts, names.
HTTP statuses are the class the handlers branch on (`Verdict`), times are
"over or not", and in `Gateway` a route is its key.

## Runs

Passing runs:

| Run | Instance | What it shows |
|---|---|---|
| `limiter` | 3 requests, three configurations between which the administrator switches, one fault | The counter never exceeds the slots owed or lost (`NoPhantomSlot`); a refusal means max slots are owed or lost; the RPM window overshoots by less than the number of requests; a leaked slot does not block an idle subject for ever (`LeaksHeal`). |
| `gateway` | 2 requests, 1 key, up to 2 routes; chat, chat stream, messages stream, passthrough; fairness | One release, by one owner, after the answer (`KeepsPromise`: a slot with two owners counts as given back); errors are answered last; log and answer agree; blacklisting is justified and announced; no failover after the first byte; every admitted request leaves. A sync call of the translated endpoints (`"compat"`) is a chat call whose client never leaves, and the Responses stream differs from the Messages stream only in how it reports a broken stream: neither is an instance of its own. |
| `webhook` | 1 event, 2 webhooks, 2 attempts, batch of 2, one fault | Recorded successes happened; failures had all their attempts; the number of POSTs is bounded; no delivery stays pending. |
| `oauth` | 2 requests, the worker and the administrator; 3 rotations; one fault | The row holds the last tokens, and no used refresh token is presented, except after a write over tokens its writer never saw, which the model marks (`lost`). |
| `caches` | configurations: 1 subject and the default, 2 lookups, an administrator here and one elsewhere, 2 writes, a TTL of 2 ticks, one failing query, fairness; tokens: 1 secret, 2 tokens of 3 or 4 ticks with a margin of 3, 2 validations; responses: 2 subjects, 2 requests, 1 invalidation, a TTL of 2 ticks | A configuration's entry is what the database says, own or inherited, unless a lookup overlapped an update or another process wrote (`CoherentUnlessMixed`); in any case it left the database at most twice the TTL ago, twice because the default's entry is copied with a fresh TTL (`AgeBounded`, tight); stale entries die out (`Settles`). No request that began after its secret or token was revoked is accepted, and a good secret is refused only for a failure of IAMKit or a revocation (`AuthenticationJustified`). A cached response is for the subject and the request it was made for, no older than the TTL, and no completed invalidation had found it in Redis (`AnswersJustified`). |
| `guardrail` | 1 request, 2 administrators, 1 custom rule, 3 edits, one failing query; 12 message lists | What is to be redacted is gone (`RedactionHolds`); blocked and forwarded are so by a rule in force (`VerdictJustified`); the log says what was done (`LogTruthful`); the row is what the updates add up to (`UpdatesKept`). |
| `routing` | 3 models, providers and 4 keys, one of each yet to be created, a fallback; up to 3 reports, ticks, edits or failures during one `ResolveAll` | `BestKeyJustified`, `RoutesJustified`, `OrderKept`, and `CircuitBreaker` is implemented. |
| `streams` | four protocols, three endpoints; conversations of up to 3 turns, 2 blocks a turn and 5 pieces, and one of 12 turns; all settings; completions of up to 4 pieces; streams of up to 7 events | The provider receives the conversation (`RequestFaithful`), the client's caching marks or the program's own, never both (`CachingRespected`), and settings that agree (`SettingsKept`). The client gets a whole answer with every piece but the signatures of `Unanswered` (`AnswerFaithful`), or a stream of its protocol whatever the order of fields, chunks and calls and however the stream ends (`WellFormed`, `NothingLost`); the tokens logged are those reported (`UsageComplete`). The exceptions are below. |
| `usage_log` | 3 requests, channel of one, one failing query | Order and completeness of the channel; the loss at the end is bounded, and only a stream whose client left can panic; shutdown ends. |

Runs that find a disagreement between the code and what it says of itself:

| Run | Shown |
|---|---|
| `limiter_over_admission` | `Release` sends `DECR` and then `DEL`. An `INCR` of another request in between is erased with its slot, and more requests than `max_concurrent` are admitted, without any fault (`limiter.go:66`; `ports.go:42` says the limits are enforced). |
| `gateway_early_release` | The handlers of `/v1/messages` and `/v1/responses` defer the release, which runs when the handler returns, before the stream: a stream does not count as concurrent (`handler_messages.go:106`, `handler_responses.go:102`; `handler.go:765` says when it must be called). |
| `webhook_slow_receiver` | `fire` delivers to its webhooks in turn under one context of 5 s; a POST may take 10 s. After a slow receiver no row can be saved for the others: the event is not enqueued for them (`service.go:168`, against the comment at 161). |

Another, known from reading, needs no run: `Close` of the usage log "drains
remaining logs" (`service.go:46`) but closes the channel and returns, and the
database is closed next. `LossBounded` says what is lost.

The type invariant of a module is a conjunct of one of its properties, or proved
(`TypeCorrect`).

The properties of `streams` name the inputs for which the code does otherwise;
each exception was seen to be needed by checking without it:

* `LateReasoning`: the Responses stream has one index for the open item, so that
  reasoning after text is written with the index of the message
  (`handler_responses.go:360`).
* `BrokenInReasoning`: a stream that breaks in its reasoning adds the message at
  the index of the reasoning item, which stays open (`handler_responses.go:426`).
* A stream that the provider closes without a chunk is completed without
  `message_start` or `response.created`: only the callback writes them.
* `Relevant`: the Responses stream has no events for tool calls and signatures.
* `Overwritten`: of two texts in one event of Gemini the last one is kept
  (`translator_google.go:285`); and text moves ahead of the calls of its event.
* `Forgotten`: the Messages and Responses streams keep the last usage report
  only, so that under an Anthropic provider the input tokens are logged, and
  charged, as 0 (`handler_messages.go:355`, `handler_responses.go:329`). The chat
  stream was written to avoid this (comment at `handler.go:520`).
* `Dropped`, of `RequestFaithful`: Anthropic and Gemini get the last of several
  system messages, and Gemini no developer message (`translator_anthropic.go:193`);
  `/v1/messages` drops what stands beside a result and an image beside a text
  (`handler_messages.go:683`); `/v1/responses` an image beside a text; Gemini gets
  texts only, and no text with a call; Anthropic gets no array as a result or
  beside a call (`translator_anthropic.go:221`); thinking comes back only to
  OpenAI-compatible providers. Of several results in one message of `/v1/messages`
  the first comes last (`handler_messages.go:712`), and Gemini is told which
  function a result is of only by chat clients.
* `Unseen`, of `CachingRespected`: the mark of a part in an array, of an image or of
  a call in `/v1/messages` is not noticed, and the program adds its own. The comment
  "Second-to-last user message" at line 335 of `translator_anthropic.go` holds of the
  last message but one, whoever's it is.
* `Told`, of `SettingsKept`: Gemini and Cohere are not told of a tool choice,
  `/v1/messages` drops "none" (`handler_messages.go:748`), and Anthropic is not told
  which tool a client of `/v1/responses` named (`translator_anthropic.go:300`).
* `Unanswered`, of `AnswerFaithful`: a whole answer loses the signature of a thinking.
  Anthropic sends one with each thinking block (`translator_anthropic.go:74`), and
  `TransformResponse` takes the thinking alone (`translator_anthropic.go:445`);
  `chatResponseToAnthropic` never sets the field the client's format has for it
  (`handler_messages.go:79`, 785). Only a chat client of an OpenAI-compatible provider
  keeps it, whose message is passed on (`translator_openai.go:19`). The chat and
  Messages streams do deliver it (`translator_anthropic.go:609`,
  `handler_messages.go:381`), as `NothingLost` says.
* `AnswerFaithful` does not promise the order of thinking, text and calls among each
  other: a whole answer is grouped by kind. Gemini's reason is "end" even with calls,
  so that its `stop_reason` is `end_turn`.
* An array as a system prompt becomes the text of one block for Anthropic, and
  parts that are passed through keep the client's format: the model says which
  pieces arrive, not whether the provider accepts their form.

The exceptions of `guardrail`, by their operators:

* `RedactsLess`: only `/v1/chat/completions` redacts; a redaction is numbered among
  the texts and looked up among the messages, so that a message of parts in front of
  another shifts it (`service.go:238`, `handler.go:743`); and the matches of PII and
  secrets are redacted in one pass that expects them in order, which rewrites the
  text between a secret and a PII after it (`handler.go:756`).
* Custom rules and document leakage are logged as "redacted" and never redact
  (`service.go:268`, `:299`).
* `excused`, of `UpdatesKept`: overlapping updates, and a failed read that is taken
  for a missing row, whose second row is then never read (`service.go:40`).

The end-to-end tests know some of these
(`e2e/api/ws08_guardrail_test.go:182`, `:304`, `:347`).

What `routing` shows of the router is what the code does, not what one may wish:
fallback routes are sorted together with the routes of the model asked for
(`e2e/api/ws05_catalog_test.go:708`), the order ignores key health, "round-robin" is
a shuffle and latency is only known of routes that were used
(`ws07_gateway_resilience_test.go:411`, `:497`, `:521`); a fallback model's own
status is not looked at, and a key deleted after it was picked costs its provider
the route (`lost`).

What `caches` shows has limits that are the code's. A token that was revoked by itself
stays cached until its entry expires, since a failed introspection does not drop it:
its secret is refused for as long (`excused`). A request in flight during an
invalidation may store its answer after it, and it is served for the TTL. The key of
a response leaves out `max_completion_tokens`, `top_k` and the thinking settings
(`cache.go:41`), so that requests that differ only in these share an answer; and the
translated endpoints store a response with the upstream's name of the model under the
key of the chat endpoint, which overrides it only in what it stores itself
(`handler.go:236`).

Bounds, and why they are enough. One subject and the default are all the keys a
lookup meets, and two lookups make one copy what the other stored. Two validations
exchange one secret at the same time, and a token that lives one tick longer than the
margin is cached for one tick; two entries make an invalidation of two pages. Three requests are the fewest for which one
releases, a second loses its slot and a third is admitted in its place; two
share every other race in `RateLimiter`. In `Gateway`, handlers interact only
through the tracker, pairwise, and two routes distinguish first, next and last,
even over one key.
Two requests of `OAuthRefresh` and the worker give every order of lock holders;
a third rotation lets an update fall between two refreshes. Two webhooks are
needed for one to use up the context of the other, and two attempts to have a
first, a retried and a last one. One fault, at any moment, already covers every
single failure; what several do together is covered by the proofs. Four pieces
are a kind, another, a return to the first and the arguments of a call; seven
events are those four with the frame around them. Three turns hold a system
prompt, a call and its results, or two of a kind around another; twelve are past
the ten from which a second caching mark is set. Two edits of a row overlap, and a
third comes between; two matches of each kind touch and overlap. Two keys of one
provider, one of the other and a fallback are the fewest with a choice at every
level, and three events during a call reach any two steps of it with a third
before. The bounds are `MaxPieces`,
`MaxEvents`, `MaxTurns`, `MaxKinds`, `MaxAsked`, `LongTurns`, `MaxReports`, `MaxTicks`, `MaxFaults`, `MaxWrites`, `MaxVersion`, `MaxRoutes`, `MaxRetries` (5 in the code), `BufferSize`
(1000 in the code) and `MaxBatchSize` (50 in the code).

`CacheTTL`, `Life` and `Margin` are in ticks.

Symmetry is used only in runs without liveness. `CHECK_DEADLOCK FALSE` appears
where the system may stop: the process of `UsageLog` exits, an event of
`Webhook` is done, an exchange of `Exchange` ends, a key of `OAuthRefresh` may be
deleted, and nothing is followed in `Routing` once the call has returned.

Fairness. It is weak everywhere, and on steps the program takes by itself:
handlers run (every upstream call has a timeout: `ResponseHeaderTimeout`, and 5
minutes in all), Redis expires keys, time
passes, the ticker of the webhook worker fires, a
POST ends in 10 s, a log is written in 5 s, the main goroutine goes on. Nothing
obliges a client to send a request, an administrator to act, a fault or a
signal to happen. One assumption is about clients: the server sets no write
timeout (`server.go`), so a client that neither reads nor disconnects would hold
its stream for ever; `EveryRequestLeaves` and `ShutdownCompletes` assume there is
none. `ShutdownCompletes` says nothing of a purge goroutine left deaf on a nil
channel: `Cleanup` does not wait for it.

## Proofs

`RateLimiterProofs`, from `LimiterAssumption` (finitely many requests, limits
that are natural numbers with a bound on rpm), for any number of faults:

* `TypeCorrect`; `PhantomFree`: `NoPhantomSlot` is inductive on top of the
  types. `OutstandingChange` counts how a step changes the set of owing
  requests; every action then changes both sides alike or lowers the counter.
* `RefusalsJustified` follows for the refusing step from the reply of its `INCR`.
* `OvershootBounded`: requests about to be recorded were counted when the window
  had room, and the one just counted is not among them.
* `SafetyNet`: `SlotsExpire`, inductive as it stands with the types.

`CachesProofs`, from `CacheAssumption` and `CachesAssumption` (the margin and the
lives of tokens are at least two ticks, the TTL of a response at least one). For
any number of subjects, lookups, updates and failures and any TTL, with the
assumption built into the models that a lookup, a validation or a request takes
less than two ticks:

* `TypeCorrect`, for the configurations; the types of the other two are part of
  `AuthenticationInvariant` and `AnswersInvariant`;
* `Coherent`, through `Coherence`: no update runs beside an undisturbed lookup
  (`Calm`), what such a lookup found is current (`Inherits`, `FindsCurrent`), and
  a clean entry that an update made stale is one it is about to delete
  (`StaleDoomed`);
* `AgesBounded`, through `EntriesYoung` (age plus remaining life; the default's
  entry is never a copy) and `FindsYoung` (what a lookup may still store);
* `Authentication`, through `TokenInv`. `AuthenticationJustified` speaks of ended
  validations only. Before that, one must know what each holds (`Holds`), that
  one which began after a revocation still has a refusal ahead of it (`Refuses`)
  and one without an excuse a success (`Succeeds`): for that, that a token's life
  exceeds its entry's by the margin less one tick, which is why the code
  subtracts a margin (`EntriesSound`), and that no token of a revoked secret
  stands (`RevokedWithSecret`);
* `Answers`, through `ResponseInv`: an entry is filed under the key of its own
  request, its age and what is left of its TTL add up to the TTL and one at most,
  and every invalidation that found it is still under way and has it in its last
  page (`StoredSound`), so that none ends without deleting it.

`GatewayProofs`, from `GatewayAssumption`, for any number of requests, keys,
routes:

* `TypeCorrect`, which includes that a request using a route has one;
* `OneRelease`, through `Ownership`: `ReleasedOnce` alone is not inductive, since
  one must know that the handler of a committed chat stream no longer owns the
  closure, that an idle request owns none, and in which phases a stream is under
  way. `KeepsPromise` is where the runs check it;
* `NoFailover`, from `Ownership`: a committed stream is in a phase that cannot
  change its routes except by giving up;
* `BlacklistSound`, through `Accused`: whoever is about to blame a key for a 401
  was answered it by that key, across a refresh and a second call;
* `BlacklistKnown`: a key is announced, about to be, or was reported by a
  passthrough request (`silent`), whose handlers fire no webhook;
* `Refinement`: every step of `Gateway` is a step of `RequestPromise` or a stutter.
  The slots of translated streams are not among those `held`: for them it is
  false, see `gateway_early_release`;
* `QuitsLast` and `LogsTruthful`, both from `AllAccounted`: what each phase of a
  request says of its answer, its last record and the routes it has left. A
  request has routes only once it was routed, and success is recorded only at its
  end.

`ServicesProofs` on `OAuthRefresh`, from `OAuthAssumption`, for any number of requests,
rotations and failures:

* `RefreshTyped`, which includes that a caller between the lock and the row holds
  the lock (`LockHeld`);
* `TokensStayCurrent` and `TokensUsedOnce`, together in `RefreshInv`: neither property is
  inductive, nor are both. `DraftSound` and `CopiesSound` say what the copies of the
  row hold that the administrator and the callers will write; `PersistSound` says
  that tokens about to be written are the last ones, unless the row has
  newer ones by then, in which case the write loses tokens and the model marks it.

`ServicesProofs` on `UsageLog`, from `UsageAssumption`, for any number of requests and any buffer:

* `TypeCorrect`; `LogsKept`: `NothingVanishes` is inductive with the types, by
  lemmas on `Head`, `Tail` and concatenation;
* `LossesBounded`, through `LossInv`. The bound counts what is accepted and has no
  answer of the database (`Missing`). While the database is open that is in the
  channel or in the worker's hand (`Answered`, `MissingInFlight`); once it is closed
  the channel is closed too (`Staged`), so that nothing is accepted any more. The
  bound itself is part of the invariant, since what the worker takes from the
  channel afterwards is missing as it was before.

`WebhookProofs`, from `WebhookAssumption`, for any number of events, webhooks,
attempts, faults and any batch:

* `Invariant`: `Inv`, from which the others follow. A delivery has up to four
  records of itself: its row, a copy in the goroutine of `fire`, one in the worker's
  batch and one in its hand, and any of them may be the next to overwrite the
  row. For each of them the number of POSTs is at most the attempts it counts
  plus `Spare(d)`: one for the first attempt, which the worker may repeat while
  `fire` makes it, and one for each fault; plus one while the worker has posted and
  not yet recorded (`RowSound`, `CopySound`, `WorkSound`). While `fire` attempts a
  delivery, neither the row nor a copy says more than one attempt, so that its
  late write takes back nothing but that one (`FireSound`). No row is in a
  batch twice (`BatchDistinct`) or both in the batch and in work;
* `TypeCorrect`, `SuccessesTrue`, `FailuresHonest` and `ReceiversSpared` follow.

`RoutingProofs`, from `RoutingAssumption` (every key has an owner and a place, prices
and latencies are natural numbers, `None` is neither a route nor a number, the rows at
the start are well formed and there are finitely many), for any number of keys, reports and edits and any thresholds:

* `TypeCorrect`, with `FallbacksDistinct`: an uptime is a fraction whose denominator
  is not 0, whatever was reported and pruned; a stage of the call has what it works
  on (a model, a row, a key);
* `BestKeys`, through `PickInv`. `pickBestKey` reads each key twice and never all of
  them together, so the invariant says of the best key so far what was heard of it and
  of those it was preferred to at some moment of the pick (`sickAll`, `sickEver`), and
  while nothing is reported that it still holds (`BestSound`, `HeardSound`). Looking at
  a record and pruning it change neither what a pick reads of it nor its penalty
  (`StandingKept`), and penalties are ordered (`PenaltiesOrdered`, by cross
  multiplication): for that reason one pass suffices;
* `RoutesOfCatalog`, through `RoutesInv`. `Remaining(n)` says where a mapping without
  a route may still get one: in hand, under a model in the queue, or under a fallback
  not yet listed. Each step takes from it the mapping it is done with and no other
  (`MappingDone`, `ModelDone`); that mapping has a route by then, or was not in use
  all the while (`Covered`), and none that has a route remains (`Once`). An edit only
  adds to what the call may have seen and takes from what it must not miss
  (`CatalogEdited`). That no fallback leads back to the model asked for, and none
  twice to the same (`FallbacksDistinct`), keeps a mapping from coming twice;
* `OrderKeeping`, through `OrderInv`: in the insertion sort of the library, which compares
  latencies that other requests may change between two reads, the first `i` routes are
  always those found first (`Permuted`), and without reports they are in order but for
  the one in place `j`, which is on its way to the left and belongs before those it has
  passed (`SortedSoFar`). That one was found last (`LastFound`), so the sort is stable.
  An average is a sum over a set: `SumIsNumber` shows it a number, by a minimal
  counterexample, and `AverageKept` that looking and pruning do not change it. The order
  is transitive (`AheadOrders`). `OrderInv` was checked by TLC on the instance of the run
  `routing` (2 085 326 states) before it was proved;
* `TrackerIsBreaker`: `Routing` implements `CircuitBreaker`. `TrackerInv` relates a
  record's error count to the errors since the last success (`Fit`): they agree until
  the key has rested once; after that `IsHealthy` may have forgotten some, which the
  breaker allows. `Effects` sorts the steps by what they do to the tracker, so that
  the router and the catalog need no case of their own in what follows.

`GuardrailProofs`, from `GuardrailAssumption`, for any number of requests,
administrators, edits, rules and failed queries, messages and texts of any length and
any matches in them. The first half is about the operators, the second about the
steps:

* a detector finds what is in a text (its matches are the runs of units it knows),
  deduplication keeps matches that do not meet and that cover all of those it was
  given, and a pass over matches in ascending order leaves none of their text; so
  redacting a text for all that was found in it leaves none of it, as long as matches
  of secrets do not stand before those of PII, and redacting it again changes
  nothing;
* `GuardrailInv`: `Inv`, which TLC checked on the instance of `guardrail` before it was
  proved. `VerdictJustified` says something of two reads at different times and of
  the rows between them, so the invariant keeps, for each phase of a request, which
  of configuration and rules it has read, that what it has read was in force at some
  moment (`ever`), and that what was in force throughout (`always`) is in what it has
  read (`Phase`, `Witnessed`). `LogKept` relates what the logging goroutine has yet to
  write to what was done. `ConfigKept` and `EditKept` say that the row is the
  acknowledged updates, applied in order, and that an administrator who was not
  overtaken holds that row;
* `RedactionHolding`, `LogTelling`, `VerdictJustifying` and `UpdatesKeeping` follow.

`ServicesProofs` on `StreamEvents`, from `StreamAssumption`, for streams of any length:

* `TokensKept`: `UsageComplete`, through `AccountsHold`: the accounting holds in
  an open stream too, and nothing was reported before the first event. The
  lemmas `OfOpenAI`, `OfAnthropic`, `OfGoogle` and `OfCohere` say which events a
  translator forwards and with what usage; `ContentReports`, `StopReports` and
  `FrameReports` sort the events of a provider into those that report nothing,
  everything, or one of Anthropic's halves;
* `StreamsWellFormed`: `WellFormed`, through `Streaming`, which TLC checked first, on
  643 965 states. `WellFormed` speaks of neighbouring events in what the client got,
  the callback only of its flags, so the invariant says for which last event each
  setting of the flags stands (`MessagesOpen`, `ResponsesOpen`). Two facts come from what
  providers send: in a Messages stream a call without an id, which opens no block,
  comes when the last piece was a call or arguments, and then a tool block is open;
  in a Responses stream without late reasoning, closed reasoning means a begun
  message, so that no further reasoning finds its item closed (`SoundIn`). A chunk
  writes several events, so the lemmas go one write, one field and one call at a time
  (`MessagesChunkKeeps`, `ResponsesChunkKeeps`, `ChatChunkKeeps`), then from events to
  chunks (`Translated`, `ChunkIs`), and to the ends of a stream (`CompleteEnds`,
  `BreakEnds`). The callback's reason is the translation of the provider's
  (`ReasonKept`);
* `PiecesDelivered`: `NothingLost`, through `Delivery`: what the client got are the
  pieces that are due of those sent (`Due`), any two of them in the order they may
  come in (`Order`), and no piece is of an event to come, so that a later event can
  neither overwrite a text nor change a pair (`DueGrows`). Every write of a callback
  delivers one piece that may follow all those before it, or none; the lemmas go from
  a write to a block, a field, a call, a chunk (`MessagesChunkDelivers`,
  `ResponsesChunkDelivers`, `ChatChunkDelivers`) and the ends of a stream
  (`EndsDeliver`). On the other side no translator leaves out a field of its event
  (`WholeChunk`), a field is the last piece of its kind (`FieldLast`), the calls are
  those of the event in their order (`CallsInTurn`), and the kinds in one event come
  in the order in which the callbacks write the fields, text of Gemini excepted
  (`PartsFit`, `ChunkInTurn`, `ChunkCarries`);
* all three rest, as the run does, on what the model says providers send: arguments
  follow their call, a report is cumulative, and never 0 once made.

`ServicesProofs` on `Exchange`, from the same assumptions:

* `ExchangeStreams`: the exchange implements the stream by itself. Hence
  `ExchangesStreamWell`: the three results above hold in every exchange, which is where
  the run checks them;
* `AnswersFaithful`: `AnswerFaithful`, whose first part is the type invariant of the
  exchange. That one follows from `StreamsTyped` and `Asking`: only an exchange that is
  answering has events, so a whole answer finds a stream that has not begun. The second
  part is about the two translations (`AnswerGiven`): the numbers selected for a field
  are those of its kind, rising (`NumbersAre`); the items of the client are at most one
  each of thinking, signature and text (`OneItem`), and one for each call
  (`CallsAreItems`); items without a kind, in front or behind, change nothing of it
  (`HeldJoined`); so what is selected again from all of them is what went in. A
  completion may have signatures wherever it has thinking, and `Unanswered` says where
  they are lost;
* `SettingsHold`, through `SettingsInv`: what was sent is the translation of what was
  asked. The run enumerates a few limits and budgets; the proof is for all, by the
  lemma that a limit raised for the thinking budget exceeds it (`RoomForAnswer`) and
  one on each provider and each setting;
* `CachingHolds`: `CachingRespected`, for conversations of any length. The invariant is
  `Conversation` (`ConversationsHold`): each piece is in one block, of the turn it was
  said in; one block at most has the client's mark; and the body is the two
  translations of that. The rest is about the translations. What a turn becomes at each
  endpoint (`ChatGives`, `MessagesGive`, `ResponsesGive`) are messages with its pieces
  and, if the turn has the mark and the translator sees it, its mark; put together, of
  two messages that instruct the first is from an earlier turn (`MessagesAre`), which is
  why a marked system message that is replaced is `Superseded`, and a mark is missing
  for no other reason. Anthropic's translator keeps the mark on a block of that turn
  (`MarksKept`) or marks the last block of the system prompt and of two turns
  (`MarksInjected`), and the attribution of a subscription has no mark (`BillingIs`).

`FoldLemmas` is used by `RoutingProofs`, `GuardrailProofs` and `ServicesProofs`. The
folds of the community modules are defined by a recursion over sets of indices through
`CHOOSE`, of which the library states nothing. `FoldExists` shows that a function
solving the recursion exists, by a minimal counterexample (`LeastNatural`) instead of
an induction theorem, and `FoldTrace` that a fold is therefore the last element of a
sequence each of whose elements is one step from the one before. `FlatTrace` says the
same of flattening, `ElementsFlat` which elements a flattened sequence has, and
`PairsFlat` that it is in order if its parts are, and one before the other; `Selected`
and `PlacesAre` are what that makes of selecting elements of a sequence and positions.

Only model-checked:

* `RequestFaithful`: it says in which order, and in which voice, the pieces of a request
  arrive after being selected, grouped and flattened twice, through four translators and
  with the pieces each of them drops;
* liveness (`LeaksHeal`, `EveryRequestLeaves`, `EventuallySettled`, `Settles`,
  `ShutdownCompletes`): fairness and `ENABLED` are out of the prover's reach.

## Not modelled, and why

Access and api keys are one query or one proxied call per operation. Pricing,
profiles, metrics and configuration are arithmetic and tables. The console is a
client. Regular expressions, encryption, HMACs and SQL text are data.

Known limits of the modules that exist: one gateway process in `OAuthRefresh`
and `Webhook` (the limiter is right for several, its commands being serialised
by Redis); one choice
per chunk, and reasons that only some providers have, in `StreamEvents`; its
chunks reach the chat stream through a channel, which keeps their order and is
left out; the answer of a provider that does not rotate its refresh token; the
route named in a usage record; retention settings; editing the URL or the events
of a webhook; sampling parameters, response formats and stop sequences, which
are copied; the position of joined texts within one block; the `output_config` that goes
along with a reasoning effort; the identifiers of tool calls, a call being known by the
number of its piece, so that the "call_0" Gemini's translator gives each call of an
event on its own (`translator_google.go:290`) and the index it repeats do not show;
sorts by latency of 20 and more routes, which the
library does by blocks.

## Plan

In this order, most important behaviour first; the first eleven are written.

1. `RateLimiter`, `RateLimiterProofs`
2. `RequestPromise`, `Gateway`, `GatewayProofs`
3. `Webhook`, `WebhookProofs`
4. `OAuthRefresh`, `ServicesProofs`
5. `UsageLog`, `ServicesProofs`
6. `ConfigCache`, `CachesProofs`
7. `Translators`, `StreamEvents`, `ServicesProofs`
8. `CircuitBreaker`, `Routing`, `RoutingProofs`
9. `Guardrail`, `FoldLemmas`, `GuardrailProofs`
10. `Bodies`, `Exchange`, `ServicesProofs`
11. `ResponseCache`, `TokenCache`, `Caches`
12. A second process in `OAuthRefresh`, and providers that do not rotate.
13. A proof of `RequestFaithful`, from `Conversation`, one translator at a time.

## Running

    tlc -workers 2 -config MCRateLimiter.cfg MCRateLimiter
    tlapm RateLimiterProofs.tla

The other runs are listed in `PROJECT.json` with their module and configuration.
The longest takes two to three minutes.
