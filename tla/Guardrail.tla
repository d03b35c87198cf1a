----------------------------- MODULE Guardrail -----------------------------
(***************************************************************************)
(* The content check before a request is routed: CheckMessages reads the   *)
(* configuration and then the custom rules, the handler refuses, redacts   *)
(* or forwards the messages, and a goroutine logs the violations, while    *)
(* administrators edit the configuration and the rules, each by a read of  *)
(* the row and a later write of all of it.                                 *)
(*                                                                         *)
(* A message is a text or a list of parts.  A text is a sequence of units, *)
(* each named for what finds it: a detector of PII or of secrets, "both",  *)
(* the patterns of another system rule, the pattern of a custom rule, or   *)
(* nothing.  Positions count units instead of bytes.                       *)
(***************************************************************************)
EXTENDS Naturals, Sequences, FiniteSets, SequencesExt

CONSTANTS Request,    (* requests being checked (a slot is reused)          *)
          Admin,      (* administrators' calls (a slot is reused)           *)
          Rule,       (* ids of custom rules, never used twice              *)
          Commands,   (* the updates of the configuration that are made     *)
          Inputs,     (* the message lists that clients send                *)
          Unborn, Deleted, (* the row of a rule that is not there           *)
          Keep,       (* an omitted field of an update                      *)
          MaxWrites,  (* bound: calls of administrators                     *)
          MaxFaults   (* bound: failed queries                              *)

(* The system rules; jailbreak is checked exactly as injection.            *)
Category == {"injection", "pii", "secret", "mark"}
Pattern  == {"term", "unusable"}
Unit     == Category \cup Pattern \cup {"both", "plain", "[REDACTED]"}

(* What a rule does; "off" is a system rule that is not enabled.  No       *)
(* action of a system rule is validated: an unknown one warns.             *)
Action   == {"block", "redact", "warn"}

(* The content of a message that is no string. *)
Parts == <<"parts">>

(* "compat" is /v1/messages or /v1/responses.                              *)
Endpoint == {"chat", "compat"}

Setting == [Category -> Action \cup {"off"}]

ASSUME GuardrailAssumption ==
    /\ Commands \subseteq [enabled : {"yes", "no", Keep}, sys : Setting \cup {Keep}]
    /\ Inputs \subseteq Seq({Parts} \cup Seq(Unit))
    /\ MaxWrites \in Nat /\ MaxFaults \in Nat

VARIABLES
    configs,  (* the rows of guardrail_configs                              *)
    clock,    (* how many rows were given an id and a created_at            *)
    rules,    (* the row of each custom rule, or Unborn or Deleted          *)
    admin,    (* the edit each administrator is about to write, or NoEdit   *)
    pc,       (* what each request does                                     *)
    ep,       (* its endpoint                                               *)
    msgs,     (* its messages; once "passed", as they are forwarded         *)
    sent,     (* its messages as the client sent them                       *)
    setting,  (* the settings it was checked with                           *)
    fired,    (* its violations: the rule that matched and its action       *)
    redact,   (* its redactions: the numbers of texts                       *)
    logs,     (* its violations that are still to be logged                 *)
    logged,   (* the rows of guardrail_violations it caused                 *)
    promise,  (* the configuration the acknowledged updates add up to       *)
    excused,  (* whether updates overlapped, or a failed read was taken for *)
              (* a missing configuration                                    *)
    always,   (* what was in force throughout the check of a request        *)
    ever,     (* what was in force at some time during it                   *)
    broken,   (* whether a query of its check failed                        *)
    writes, faults

history == <<promise, excused, always, ever, broken>>
store   == <<configs, clock, rules>>
request == <<pc, ep, msgs, sent, setting, fired, redact, logs, logged>>
vars    == <<store, admin, request, history, writes, faults>>

NoEdit == [op |-> "none"]

----------------------------------------------------------------------------
(* The detectors.                                                          *)

Finds(kind, unit) == unit = kind \/ (unit = "both" /\ kind \in {"pii", "secret"})

(* FindAllStringIndex: from left to right, the places where w units in a   *)
(* row are of this kind; matches of one detector do not overlap.           *)
FindAll(text, kind, w) ==
    LET Here(i) == /\ i - 1 + w <= Len(text)
                   /\ \A k \in i..(i - 1 + w) : Finds(kind, text[k])
        Add(found, i) ==
            IF Here(i) /\ (found = <<>> \/ Last(found).end < i)
            THEN Append(found, [start |-> i - 1, end |-> i - 1 + w]) ELSE found
    IN  FoldLeftDomain(Add, <<>>, text)

(* Mutant: the first match of the longest detector is enough. *)
DeduplicateToFirst(text, matches) ==
    LET first == CHOOSE m \in matches : \A o \in matches :
                     m.start < o.start \/ (m.start = o.start /\ m.end >= o.end)
    IN  IF matches = {} THEN <<>> ELSE <<first>>

(* Sorted by start, the longer first where two start at one place; what    *)
(* begins before the end of a match that was kept is dropped.  The sorted  *)
(* list is walked place by place.                                          *)
DeduplicateMatches(text, matches) ==
    LET At(i) == {m \in matches : m.start = i - 1}
        Keeps(kept, i) ==
            IF At(i) # {} /\ (kept = <<>> \/ i - 1 >= Last(kept).end)
            THEN Append(kept, CHOOSE m \in At(i) : \A o \in At(i) : o.end <= m.end)
            ELSE kept
    IN  FoldLeftDomain(Keeps, <<>>, text)

(* Detectors of one kind have patterns of different lengths, for instance  *)
(* an account number and the shorter number within it: here 1 and 2.       *)
RunDetectors(text, kind) ==
    DeduplicateMatches(text, UNION {ToSet(FindAll(text, kind, w)) : w \in 1..2})

CheckPII(text)     == RunDetectors(text, "pii")
CheckSecrets(text) == RunDetectors(text, "secret")

(* The other checks answer the first match of their patterns.              *)
CheckPattern(text, kind) == \E i \in DOMAIN text : text[i] = kind

(* Each match is replaced, in the order of the list.                       *)
ApplyRedactions(text, matches) ==
    LET Between(b, m) == IF m.start > b.cursor THEN SubSeq(text, b.cursor + 1, m.start)
                         ELSE <<>>
        Replace(b, m) == [out |-> b.out \o Between(b, m) \o <<"[REDACTED]">>,
                          cursor |-> m.end]
        b == FoldLeft(Replace, [out |-> <<>>, cursor |-> 0], matches)
    IN  b.out \o SubSeq(text, b.cursor + 1, Len(text))

(* The handler's applyRedactions, for one entry of the redactions, whose   *)
(* number is taken for that of a message.  The matches of the secrets      *)
(* follow those of the PII: the list as a whole is not sorted.             *)
RedactMessage(messages, n) ==
    IF n > Len(messages) \/ messages[n] = Parts THEN messages
    ELSE [messages EXCEPT ![n] = ApplyRedactions(@, CheckPII(@) \o CheckSecrets(@))]

RedactAll(messages, redactions) == FoldLeft(RedactMessage, messages, redactions)

(* extractMessageTexts, extractAnthropicTexts and extractResponsesTexts:   *)
(* what is not a string is not checked.                                    *)
Texts(messages) ==
    LET Add(texts, m) == IF m = Parts THEN texts ELSE Append(texts, m)
    IN  FoldLeft(Add, <<>>, messages)

----------------------------------------------------------------------------
(* The rules.                                                              *)

Detected(text, c) ==
    CASE c = "pii"    -> CheckPII(text) # <<>>
      [] c = "secret" -> CheckSecrets(text) # <<>>
      [] OTHER        -> CheckPattern(text, c)

Violation(rule, action) == [rule |-> rule, action |-> action]

(* checkSystemRules, over all the texts.                                   *)
SystemViolations(texts, s) ==
    {Violation(c, s[c]) : c \in {d \in Category : /\ s[d] # "off"
                                     /\ \E i \in DOMAIN texts : Detected(texts[i], d)}}

(* One entry for each rule that fired on a text and says to redact: a text *)
(* may have several.                                                       *)
SystemRedactions(texts, s) ==
    LET Redacts(i, c) == s[c] = "redact" /\ Detected(texts[i], c)
        Entry(i, c)   == IF Redacts(i, c) THEN <<i>> ELSE <<>>
    IN  FlattenSeq([i \in DOMAIN texts |->
            Entry(i, "pii") \o Entry(i, "secret") \o Entry(i, "mark")])

Rows == {c \in Rule : rules[c] \notin {Unborn, Deleted}}

(* Mutant: disabled rules are not skipped. *)
CustomViolationsAll(texts, usable) ==
    {Violation(rules[c].pattern, rules[c].action) : c \in
        {d \in usable : \E i \in DOMAIN texts : CheckPattern(texts[i], rules[d].pattern)}}

(* checkCustomRules: enabled rules whose pattern occurs in a text; a       *)
(* pattern that cannot be used never does.                                 *)
CustomViolations(texts, usable) ==
    {Violation(rules[c].pattern, rules[c].action) : c \in
        {d \in usable : /\ rules[d].enabled
                        /\ \E i \in DOMAIN texts : CheckPattern(texts[i], rules[d].pattern)}}

Blocking(violations) == \E v \in violations : v.action = "block"

(* Mutant: what does not block is logged as a warning. *)
TakenTwoWays(action) == IF action = "block" THEN "blocked" ELSE "warned"

(* The word the log has for an action. *)
Taken(action) == CASE action = "block"  -> "blocked"
                   [] action = "redact" -> "redacted"
                   [] OTHER             -> "warned"

----------------------------------------------------------------------------
(* The configuration.                                                      *)

DefaultSystemRules == [c \in Category |-> CASE c = "pii"  -> "redact"
                                            [] c = "mark" -> "off"
                                            [] OTHER      -> "block"]

(* The row that every read selects: the oldest one.                        *)
Config == CHOOSE r \in configs : \A q \in configs : r.id <= q.id

Active == configs # {} /\ Config.enabled = "yes"

(* Mutant: fields that are omitted get their defaults again. *)
OverrideAll(row, cmd) ==
    [row EXCEPT !.enabled = IF cmd.enabled = Keep THEN "yes" ELSE cmd.enabled,
                !.sys     = IF cmd.sys = Keep THEN DefaultSystemRules ELSE cmd.sys]

(* The fields an update sets, over those of the row it has read.           *)
Override(row, cmd) ==
    [row EXCEPT !.enabled = IF cmd.enabled = Keep THEN @ ELSE cmd.enabled,
                !.sys     = IF cmd.sys = Keep THEN @ ELSE cmd.sys]

FirstConfig(id) == [id |-> id, enabled |-> "yes", sys |-> DefaultSystemRules]

RuleRow == [pattern : Pattern, enabled : BOOLEAN, action : Action]

(* What the tables say is in force: whether the rules are, which kinds the *)
(* system rules block, and which the custom rules do.                      *)
InForce(rows, customs) ==
    LET oldest == CHOOSE r \in rows : \A q \in rows : r.id <= q.id
        custom == {customs[c].pattern : c \in
            {d \in Rule : /\ customs[d] \notin {Unborn, Deleted}
                          /\ customs[d].enabled /\ customs[d].action = "block"}}
    IN  custom \cup IF rows = {} \/ oldest.enabled = "no" THEN {}
                    ELSE {"enabled"} \cup {c \in Category : oldest.sys[c] = "block"}

Checking(r) == pc[r] \in {"config", "rules"}

(* The tables change: what is in force is noted for the checks under way.  *)
Note ==
    LET now == InForce(configs', rules')
    IN  /\ always' = [r \in Request |-> IF Checking(r) THEN always[r] \cap now
                                        ELSE always[r]]
        /\ ever' = [r \in Request |-> IF Checking(r) THEN ever[r] \cup now
                                      ELSE ever[r]]

----------------------------------------------------------------------------

TypeOK ==
    /\ configs \subseteq [id : 1..clock, enabled : {"yes", "no"},
                          sys : Setting]
    /\ rules \in [Rule -> RuleRow \cup {Unborn, Deleted}]
    /\ pc \in [Request -> {"idle", "config", "rules", "passed", "refused"}]
    /\ ep \in [Request -> Endpoint]
    /\ \A r \in Request : /\ Len(msgs[r]) = Len(sent[r])
                          /\ \A i \in DOMAIN redact[r] : redact[r][i] <= Len(sent[r])
                          /\ fired[r] \subseteq
                                 [rule : Category \cup Pattern, action : Action]
                          /\ logs[r] \subseteq fired[r]
    /\ Cardinality(configs) <= clock
    /\ writes <= MaxWrites /\ faults <= MaxFaults

Init ==
    /\ configs = {} /\ clock = 0
    /\ rules = [c \in Rule |-> Unborn]
    /\ admin = [a \in Admin |-> NoEdit]
    /\ pc = [r \in Request |-> "idle"]
    /\ ep = [r \in Request |-> "chat"]
    /\ msgs = [r \in Request |-> <<>>] /\ sent = [r \in Request |-> <<>>]
    /\ setting = [r \in Request |-> DefaultSystemRules]
    /\ fired = [r \in Request |-> {}] /\ redact = [r \in Request |-> <<>>]
    /\ logs = [r \in Request |-> {}] /\ logged = [r \in Request |-> {}]
    /\ promise = [enabled |-> "yes", sys |-> DefaultSystemRules] /\ excused = FALSE
    /\ always = [r \in Request |-> {}] /\ ever = [r \in Request |-> {}]
    /\ broken = {}
    /\ writes = 0 /\ faults = 0

Set(f, k, v) == [f EXCEPT ![k] = v]

(* A query fails. *)
Fault == faults < MaxFaults /\ faults' = faults + 1

----------------------------------------------------------------------------
(* The administrators.                                                     *)

Call == writes < MaxWrites /\ writes' = writes + 1

Edit(a, e) == admin' = Set(admin, a, e)

(* UpsertConfig reads the row.  Any error is taken for a missing one, and  *)
(* a new row is made up.                                                   *)
StartUpsert(a) ==
    /\ admin[a] = NoEdit /\ Call
    /\ \E cmd \in Commands :
        \/ /\ configs # {}
           /\ Edit(a, [op |-> "config", cmd |-> cmd, row |-> Config, blind |-> FALSE])
           /\ UNCHANGED <<clock, faults>>
        \/ /\ \/ configs = {} /\ UNCHANGED faults
              \/ configs # {} /\ Fault
           /\ clock' = clock + 1
           /\ Edit(a, [op |-> "config", cmd |-> cmd, row |-> FirstConfig(clock + 1),
                       blind |-> configs # {}])
    /\ UNCHANGED <<configs, rules, request, history>>

(* The update of the row with its id, or its insertion. *)
WriteConfig(a) ==
    /\ admin[a].op = "config"
    /\ LET e   == admin[a]
           row == Override(e.row, e.cmd)
       IN  /\ configs' = {q \in configs : q.id # row.id} \cup {row}
           /\ promise' = [enabled |-> IF e.cmd.enabled = Keep THEN promise.enabled
                                      ELSE e.cmd.enabled,
                          sys |-> IF e.cmd.sys = Keep THEN promise.sys ELSE e.cmd.sys]
           /\ excused' = (\/ excused \/ e.blind
                          \/ \E b \in Admin \ {a} : admin[b].op = "config")
    /\ Edit(a, NoEdit)
    /\ UNCHANGED <<clock, rules, request, broken, writes, faults>>
    /\ Note

(* CreateRule: a new rule is enabled. *)
CreateRule(c) ==
    /\ rules[c] = Unborn /\ Call
    /\ \E p \in Pattern, act \in Action :
           rules' = Set(rules, c, [pattern |-> p, enabled |-> TRUE, action |-> act])
    /\ UNCHANGED <<configs, clock, admin, request, promise, excused, broken, faults>>
    /\ Note

(* UpdateRule reads the row of the rule, if there is one.                  *)
StartUpdateRule(a, c) ==
    /\ admin[a] = NoEdit /\ rules[c] \notin {Unborn, Deleted} /\ Call
    /\ \E on \in BOOLEAN, act \in Action :
           Edit(a, [op |-> "rule", id |-> c,
                    row |-> [rules[c] EXCEPT !.enabled = on, !.action = act]])
    /\ UNCHANGED <<store, request, history, faults>>

(* The update of the row with its id: a rule deleted meanwhile stays so.   *)
WriteRule(a) ==
    /\ admin[a].op = "rule"
    /\ LET c == admin[a].id
       IN  rules' = IF rules[c] = Deleted THEN rules ELSE Set(rules, c, admin[a].row)
    /\ Edit(a, NoEdit)
    /\ UNCHANGED <<configs, clock, request, promise, excused, broken, writes, faults>>
    /\ Note

DeleteRule(c) ==
    /\ rules[c] \notin {Unborn, Deleted} /\ Call
    /\ rules' = Set(rules, c, Deleted)
    /\ UNCHANGED <<configs, clock, admin, request, promise, excused, broken, faults>>
    /\ Note

(* A write fails: the administrator is told so. *)
EditFails(a) ==
    /\ admin[a] # NoEdit /\ Fault
    /\ Edit(a, NoEdit)
    /\ UNCHANGED <<store, request, history, writes>>

----------------------------------------------------------------------------
(* The requests.                                                           *)

Arrive(r) ==
    /\ pc[r] = "idle"
    /\ pc' = Set(pc, r, "config")
    /\ \E e \in Endpoint : ep' = Set(ep, r, e)
    /\ \E i \in Inputs : msgs' = Set(msgs, r, i) /\ sent' = Set(sent, r, i)
    /\ always' = Set(always, r, InForce(configs, rules))
    /\ ever' = Set(ever, r, InForce(configs, rules))
    /\ broken' = broken \ {r}
    /\ UNCHANGED <<store, admin, setting, fired, redact, logs, logged, promise,
                   excused, writes, faults>>

(* CheckMessages without a configuration, with one that is not enabled, or *)
(* without an answer: the request passes as it is.                         *)
PassUnchecked(r) ==
    /\ pc[r] = "config"
    /\ \/ ~Active /\ UNCHANGED <<faults, broken>>
       \/ Fault /\ broken' = broken \cup {r}
    /\ pc' = Set(pc, r, "passed")
    /\ UNCHANGED <<store, admin, ep, msgs, sent, setting, fired, redact, logs, logged,
                   promise, excused, always, ever, writes>>

(* The system rules of the configuration that was read. *)
CheckSystemRules(r) ==
    /\ pc[r] = "config" /\ Active
    /\ pc' = Set(pc, r, "rules")
    /\ setting' = Set(setting, r, Config.sys)
    /\ fired' = Set(fired, r, SystemViolations(Texts(msgs[r]), Config.sys))
    /\ redact' = Set(redact, r, SystemRedactions(Texts(msgs[r]), Config.sys))
    /\ UNCHANGED <<store, admin, ep, msgs, sent, logs, logged, history, writes, faults>>

(* The custom rules, if they could be listed, and the handler's use of the *)
(* result: only the chat endpoint redacts.                                 *)
CheckCustomRules(r) ==
    /\ pc[r] = "rules"
    /\ \E listed \in BOOLEAN :
        LET all == fired[r] \cup IF listed THEN CustomViolations(Texts(msgs[r]), Rows)
                                 ELSE {}
        IN  /\ IF listed THEN UNCHANGED <<faults, broken>>
               ELSE Fault /\ broken' = broken \cup {r}
            /\ fired' = Set(fired, r, all) /\ logs' = Set(logs, r, all)
            /\ pc' = Set(pc, r, IF Blocking(all) THEN "refused" ELSE "passed")
            /\ msgs' = IF Blocking(all) \/ ep[r] # "chat" THEN msgs
                       ELSE Set(msgs, r, RedactAll(msgs[r], redact[r]))
    /\ UNCHANGED <<store, admin, ep, sent, setting, redact, logged, promise, excused,
                   always, ever, writes>>

(* logViolations, which goes on after the request was answered: the row of *)
(* a violation, whose words are Taken of its action, or a failed insert.   *)
LogViolation(r) ==
    /\ pc[r] \in {"passed", "refused"}
    /\ \E v \in logs[r] :
        /\ logs' = Set(logs, r, logs[r] \ {v})
        /\ \/ /\ logged' = Set(logged, r, logged[r] \cup
                                [rule : {v.rule}, taken : {Taken(v.action)}])
              /\ UNCHANGED <<faults, broken>>
           \/ Fault /\ broken' = broken \cup {r} /\ UNCHANGED logged
    /\ UNCHANGED <<store, admin, pc, ep, msgs, sent, setting, fired, redact, promise,
                   excused, always, ever, writes>>

Leave(r) ==
    /\ pc[r] \in {"passed", "refused"} /\ logs[r] = {}
    /\ pc' = Set(pc, r, "idle")
    /\ ep' = Set(ep, r, "chat")
    /\ msgs' = Set(msgs, r, <<>>) /\ sent' = Set(sent, r, <<>>)
    /\ setting' = Set(setting, r, DefaultSystemRules)
    /\ fired' = Set(fired, r, {}) /\ redact' = Set(redact, r, <<>>)
    /\ logged' = Set(logged, r, {})
    /\ always' = Set(always, r, {}) /\ ever' = Set(ever, r, {})
    /\ broken' = broken \ {r}
    /\ UNCHANGED <<store, admin, logs, promise, excused, writes, faults>>

Next ==
    \/ \E a \in Admin : \/ StartUpsert(a) \/ WriteConfig(a)
                        \/ WriteRule(a) \/ EditFails(a)
                        \/ \E c \in Rule : StartUpdateRule(a, c)
    \/ \E c \in Rule : CreateRule(c) \/ DeleteRule(c)
    \/ \E r \in Request : \/ Arrive(r) \/ PassUnchecked(r)
                          \/ CheckSystemRules(r) \/ CheckCustomRules(r)
                          \/ LogViolation(r) \/ Leave(r)

Spec == Init /\ [][Next]_vars

----------------------------------------------------------------------------

(* What matches the kind in a text. *)
Carries(messages, kind) ==
    \E i \in DOMAIN messages :
        /\ messages[i] # Parts
        /\ \E k \in DOMAIN messages[i] : Finds(kind, messages[i][k])

(* Where the code redacts less than the rule says.  The other endpoints    *)
(* never redact.  The number of a text is taken for that of a message,     *)
(* which differ after a message that is no text.  And the matches of the   *)
(* secrets follow those of the PII: after a secret that stands before some *)
(* PII, the text between them is written a second time.                    *)
Misnumbered(messages) ==
    \E i, j \in DOMAIN messages : i < j /\ messages[i] = Parts /\ messages[j] # Parts

Unsorted(text) ==
    \E i, j \in DOMAIN text : i < j /\ Finds("secret", text[i]) /\ Finds("pii", text[j])

RedactsLess(r) ==
    \/ ep[r] # "chat" \/ Misnumbered(sent[r])
    \/ \E i \in DOMAIN sent[r] : Unsorted(sent[r][i])

(* A request that passed a check whose settings say to redact PII, or      *)
(* secrets, is forwarded without any, whatever the number, the place and   *)
(* the overlap of the matches, but for RedactsLess.  Detectors, their      *)
(* deduplication and the cursor of ApplyRedactions (detector.go:343,       *)
(* handler.go:743) have to agree on it.                                    *)
RedactionHolds ==
    TypeOK /\ \A r \in Request : \A kind \in {"pii", "secret"} :
        /\ pc[r] = "passed" /\ redact[r] # <<>> /\ setting[r][kind] = "redact"
        /\ ~RedactsLess(r)
        => ~Carries(msgs[r], kind)

(* What the log says was done, was done: only a refused request has a      *)
(* violation logged as blocked, and once all are logged it has one; one    *)
(* logged as redacted is gone from what was forwarded, or the request was  *)
(* refused, but for RedactsLess and the rules that never redact: custom    *)
(* ones and document leakage (service.go:268 and 299).                     *)
LogTruthful ==
    \A r \in Request :
        /\ \A v \in logged[r] :
               /\ v.taken = "blocked" => pc[r] = "refused"
               /\ /\ v.taken = "redacted" /\ v.rule \in {"pii", "secret"}
                  /\ pc[r] = "passed" /\ ~RedactsLess(r)
                  => ~Carries(msgs[r], v.rule)
        /\ /\ pc[r] # "idle" /\ ~Checking(r) /\ logs[r] = {} /\ r \notin broken
           => /\ pc[r] = "refused" => \E v \in logged[r] : v.taken = "blocked"
              /\ \A c \in {"pii", "secret"} :
                     Carries(sent[r], c) /\ ~Carries(msgs[r], c)
                     => \E v \in logged[r] : v.taken = "redacted"

(* Although the configuration and the rules are read at two moments, while *)
(* both are edited: what a rule blocked throughout the check is never      *)
(* forwarded, unless a query failed, and what is refused was blocked by a  *)
(* rule at some time during it.                                            *)
VerdictJustified ==
    \A r \in Request :
        LET Met(kinds) == \E k \in kinds \ {"enabled"} : Carries(sent[r], k)
        IN  /\ pc[r] = "passed" /\ r \notin broken
                => ~("enabled" \in always[r] /\ Met(always[r]))
            /\ pc[r] = "refused" => "enabled" \in ever[r] /\ Met(ever[r])

(* The configuration in force is what the acknowledged updates add up to,  *)
(* field by field, unless updates overlapped, or a failed read was taken   *)
(* for a missing configuration (service.go:40), whose row is never read.   *)
UpdatesKept ==
    configs # {} /\ ~excused =>
        promise = [enabled |-> Config.enabled, sys |-> Config.sys]
=============================================================================
