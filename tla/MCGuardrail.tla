---------------------------- MODULE MCGuardrail ----------------------------
EXTENDS Guardrail

(* Besides the defaults, each rule meets each of the other actions.        *)
Strict  == [injection |-> "off", pii |-> "block", secret |-> "redact", mark |-> "block"]
Lenient == [injection |-> "warn", pii |-> "redact", secret |-> "redact", mark |-> "redact"]

Update(enabled, sys) == [enabled |-> enabled, sys |-> sys]

MCCommands == {Update("no", Keep), Update("yes", Keep), Update(Keep, Strict),
               Update(Keep, Lenient)}

(* Texts with one match, with two of one or of both kinds in either order, *)
(* and a run of three, in which long and short matches overlap.            *)
Detectable == {<<"pii", "plain", "pii">>, <<"both">>, <<"pii", "secret">>, <<"secret", "pii">>,
               <<"plain", "secret", "secret">>, <<"pii", "pii", "both">>}

MCInputs ==
    {<<t>> : t \in Detectable \cup {<<"injection">>, <<"mark">>, <<"term">>}}
    \cup {<<Parts, <<"pii">>>>, <<<<"pii">>, Parts>>, <<<<"secret">>, <<"pii", "term">>>>}

Symmetry == Permutations(Admin)
=============================================================================
