----------------------------- MODULE RulesMatcher -----------------------------
(***************************************************************************)
(* internal/service/matcher.go: whether an event matches the rules of a    *)
(* subscription.  A rule answers "yes", "no" or "error", and the worker    *)
(* delivers on "yes" only.                                                 *)
(*                                                                         *)
(* A JSON value is a tuple that starts with its kind: <<"null">>,          *)
(* <<"bool", b>>, <<"number", n>>, <<"string", t>>, <<"list", s>> or       *)
(* <<"object", f>> with f a function on field names.  Numbers are integers *)
(* and the negative zero that a float64 has besides 0.  A path is the      *)
(* sequence of its field names, << >> for "$".  The characters of type,    *)
(* source and their patterns are told apart; a text of the payload is a    *)
(* sequence of words, one for each scalar.                                 *)
(***************************************************************************)
EXTENDS Integers, Sequences, SequencesExt

CONSTANTS Newline,       \* the one character that "." does not match
          Regex,         \* the texts that are valid regular expressions
          RegexAccepts,  \* which of them match which texts
          Json,          \* the JSON values in play and all their parts
          Numeral(_)     \* the sign and the decimal digits of a number

Missing == <<"missing">>

(* "-0" in JSON: another float64 than 0, although neither is less. *)
NegativeZero == <<"number", 0, "negative">>

(* %v writes the sign of a float64, that of a zero included, and as many   *)
(* digits as tell it from every other one.                                 *)
JsonAssumption ==
  /\ Missing \notin Json
  /\ \A v \in Json :
       /\ v[1] = "number" => v[2] \in Int /\ v \in {<<"number", v[2]>>, NegativeZero}
       /\ v[1] = "object" => \A k \in DOMAIN v[2] : v[2][k] \in Json
       /\ v[1] = "list" => \A k \in DOMAIN v[2] : v[2][k] \in Json
  /\ \A v, w \in Json :
       v[1] = "number" /\ w[1] = "number" /\ Numeral(v) = Numeral(w) => v = w

ASSUME JsonAssumption

VARIABLES rules,   \* a subscription's rules, valid if they can be parsed
          event    \* the event they are compared with

matcherVars == <<rules, event>>

YesNo(b) == IF b THEN "yes" ELSE "no"

-----------------------------------------------------------------------------
(* matchPattern. *)

\* A plausible bug: the pattern is not quoted, so "." stands for any character.
StepUnquoted(c, value, from) ==
  IF c = "*"
  THEN {k \in 0 .. Len(value) :
          \E j \in from : j <= k /\ \A i \in j + 1 .. k : value[i] # Newline}
  ELSE {j + 1 : j \in {j \in from : j < Len(value) /\ c \in {value[j + 1], "."}}}

(* How far into value a match can be after one more character of the       *)
(* pattern: a quoted one, or the ".*" that replaces "*".                   *)
Step(c, value, from) ==
  IF c = "*"
  THEN {k \in 0 .. Len(value) :
          \E j \in from : j <= k /\ \A i \in j + 1 .. k : value[i] # Newline}
  ELSE {j + 1 : j \in {j \in from : j < Len(value) /\ value[j + 1] = c}}

After(pattern, value) ==
  LET after[i \in 0 .. Len(pattern)] ==
        IF i = 0 THEN {0} ELSE Step(pattern[i], value, after[i - 1])
  IN  after

(* Without "*" a pattern is compared; the empty one matches everything. *)
MatchPattern(pattern, value) ==
  IF Contains(pattern, "*")
  THEN Len(value) \in After(pattern, value)[Len(pattern)]
  ELSE pattern \in {value, << >>}

-----------------------------------------------------------------------------
(* evaluatePayloadRule. *)

(* extractJSONPath goes through objects only. *)
Field(v, name) ==
  IF v[1] = "object" /\ name \in DOMAIN v[2] THEN v[2][name] ELSE Missing

ExtractPath(data, path) ==
  LET at[i \in 0 .. Len(path)] ==
        IF i = 0 THEN data ELSE Field(at[i - 1], path[i])
  IN  at[Len(path)]

Million == 1000000

\* A plausible bug: %.6g, which keeps six digits of a number.
DigitsRounded(v) ==
  IF -Million < v[2] /\ v[2] < Million
  THEN <<Numeral(v)>>
  ELSE <<Numeral(<<"number", (v[2] + 5) \div 10>>), "e">>

(* The text of a number: its digits, and an exponent from 10^6 on. *)
Digits(v) ==
  <<Numeral(v)>> \o IF -Million < v[2] /\ v[2] < Million THEN << >> ELSE <<"e">>

Scalar(v) ==
  CASE v[1] = "null"   -> <<"<nil>">>
    [] v[1] = "bool"   -> <<IF v[2] THEN "true" ELSE "false">>
    [] v[1] = "string" -> v[2]
    [] v[1] = "number" -> Digits(v)

shown[v \in Json] ==
  CASE v[1] = "list"   ->
         <<"[">> \o FlattenSeq([i \in DOMAIN v[2] |-> shown[v[2][i]]]) \o <<"]">>
    [] v[1] = "object" ->
         LET keys == SetToSeq(DOMAIN v[2])
         IN  <<"map[">>
             \o FlattenSeq([i \in DOMAIN keys |-> <<keys[i]>> \o shown[v[2][keys[i]]]])
             \o <<"]">>
    [] OTHER           -> Scalar(v)

(* fmt's %v: a string shows its text and a number its digits, so that the  *)
(* two may show the same, alone or in a list or an object.                 *)
Shown(v) == IF v[1] \in {"list", "object"} THEN shown[v] ELSE Scalar(v)

ValuesEqual(a, b) == Shown(a) = Shown(b)

(* float64's order, in which the two zeros are equal. *)
CompareNumbers(a, b, op) ==
  IF a[1] = "number" /\ b[1] = "number"
  THEN YesNo(CASE op = ">"  -> a[2] > b[2]
               [] op = "<"  -> a[2] < b[2]
               [] op = ">=" -> a[2] >= b[2]
               [] op = "<=" -> a[2] <= b[2])
  ELSE "error"

ValueIn(actual, expected) ==
  IF expected[1] = "list"
  THEN YesNo(\E i \in DOMAIN expected[2] : ValuesEqual(actual, expected[2][i]))
  ELSE "error"

MatchRegex(actual, expected) ==
  IF expected[1] = "string" /\ expected[2] \in Regex
  THEN YesNo(<<expected[2], Shown(actual)>> \in RegexAccepts)
  ELSE "error"

CompareValues(actual, op, expected) ==
  CASE op = "=="    -> YesNo(ValuesEqual(actual, expected))
    [] op = "!="    -> YesNo(~ValuesEqual(actual, expected))
    [] op \in {">", "<", ">=", "<="} -> CompareNumbers(actual, expected, op)
    [] op = "in"    -> ValueIn(actual, expected)
    [] op = "regex" -> MatchRegex(actual, expected)
    [] OTHER        -> "error"

EvaluatePayloadRule(payload, rule) ==
  LET actual == ExtractPath(payload, rule.path)
  IN  IF actual = Missing THEN "no" ELSE CompareValues(actual, rule.op, rule.value)

-----------------------------------------------------------------------------
(* Matches: the first payload rule that is not satisfied ends the loop. *)

FirstOther(outcomes) ==
  SelectInSeq(outcomes, LAMBDA o : o # "yes")

\* A plausible bug: an error ends the loop and what matched so far counts.
DecideIgnoringErrors(outcomes) ==
  IF FirstOther(outcomes) = 0 THEN "yes"
  ELSE IF outcomes[FirstOther(outcomes)] = "error" THEN "yes" ELSE "no"

Decide(outcomes) ==
  IF FirstOther(outcomes) = 0 THEN "yes" ELSE outcomes[FirstOther(outcomes)]

Matches(e, r) ==
  IF ~r.valid
  THEN "error"
  ELSE IF MatchPattern(r.type, e.type) /\ MatchPattern(r.source, e.source)
       THEN Decide([i \in DOMAIN r.payload |-> EvaluatePayloadRule(e.payload, r.payload[i])])
       ELSE "no"

(* ProcessEvent logs an error and goes on as if the rules did not match. *)
Delivers == Matches(event, rules) = "yes"

-----------------------------------------------------------------------------
(* A subscription whose payload rules are PUT again and again. *)

CONSTANTS Inputs,       \* the rules and events to start from
          PayloadRule,  \* the payload rules that may be used
          MaxRules      \* bound: how many a subscription has

PayloadRules == [path : Seq(STRING), op : STRING, value : Json]

RulesAssumption ==
  /\ PayloadRule \subseteq PayloadRules
  /\ \A i \in Inputs :
       /\ i[1] \in [valid : BOOLEAN, type : Seq(STRING), source : Seq(STRING),
                    payload : Seq(PayloadRule)]
       /\ i[2] \in [type : Seq(STRING), source : Seq(STRING), payload : Json]
  /\ MaxRules \in Nat

ASSUME RulesAssumption

MatcherInit == \E i \in Inputs : rules = i[1] /\ event = i[2]

(* Bound: payload rules are combined with each other and not with patterns. *)
NewPayloadRules ==
  IF rules.type = << >> THEN SeqOf(PayloadRule, MaxRules) ELSE {rules.payload}

PutRules ==
  /\ \E list \in NewPayloadRules :
       rules' = [rules EXCEPT !.payload = list, !.valid = TRUE]
  /\ UNCHANGED event

(* No request checks the rules: what cannot be parsed is stored as well. *)
PutMalformed ==
  /\ rules' = [rules EXCEPT !.payload = << >>, !.valid = FALSE]
  /\ UNCHANGED event

MatcherNext == PutRules \/ PutMalformed

MatcherSpec == MatcherInit /\ [][MatcherNext]_matcherVars

-----------------------------------------------------------------------------
(* What follows j in value, as far as k, is what c stands for: any         *)
(* characters, none included, or itself.                                   *)
Fits(c, value, j, k) ==
  \/ c = "*" /\ j <= k
  \/ k = j + 1 /\ value[k] = c

(* The value can be cut into pieces, one for each character of the pattern. *)
Glob(pattern, value) ==
  \E cut \in [0 .. Len(pattern) -> 0 .. Len(value)] :
    /\ cut[0] = 0 /\ cut[Len(pattern)] = Len(value)
    /\ \A i \in 1 .. Len(pattern) : Fits(pattern[i], value, cut[i - 1], cut[i])

(* The regular expression built from a pattern stands for the wildcards    *)
(* that were written, and everything else in it for itself, as long as the *)
(* value is a single line.                                                 *)
PatternMeansGlob ==
  ~Contains(event.type, Newline) =>
    (MatchPattern(rules.type, event.type)
       <=> rules.type = << >> \/ Glob(rules.type, event.type))

Holds(path, op, value) ==
  EvaluatePayloadRule(event.payload, [path |-> path, op |-> op, value |-> value]) = "yes"

OperatorsFit(path, x) ==
  LET actual == ExtractPath(event.payload, path)
  IN  /\ Holds(path, "!=", x) = (actual # Missing /\ ~Holds(path, "==", x))
      /\ Holds(path, "in", <<"list", <<x>>>>) = Holds(path, "==", x)
      /\ actual[1] = "number" /\ x[1] = "number" =>
           /\ Holds(path, "<", x) = ~Holds(path, ">=", x)
           /\ Holds(path, ">", x) = ~Holds(path, "<=", x)
           /\ Holds(path, "==", x) = /\ Holds(path, "<=", x) /\ Holds(path, ">=", x)
                                     /\ actual = NegativeZero <=> x = NegativeZero

(* Equality is that of the values' texts and order that of float64: still, *)
(* of two numbers exactly one of <, == and > holds, unless they are 0 and  *)
(* -0, the one pair that is <= and >= but not ==.  "in" with one item is   *)
(* "==", and "!=" is its negation, except that no operator is satisfied by *)
(* a field the payload does not have.                                      *)
ComparisonsAgree ==
  \A path \in {r.path : r \in PayloadRule}, x \in {r.value : r \in PayloadRule} :
    OperatorsFit(path, x)

(* Every rule counts, wherever it stands and whatever the ones before it   *)
(* come to: rules that are added never let an event through that was held  *)
(* back, and rules that are reordered change nothing.                      *)
AddedRulesOnlyNarrow ==
  [][rules'.valid /\ Range(rules.payload) \subseteq Range(rules'.payload)
       => (Delivers' /\ rules.valid => Delivers)]_matcherVars
==============================================================================
