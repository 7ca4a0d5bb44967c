---------------------------- MODULE MCRulesMatcher ----------------------------
(* Rules and events for RulesMatcher, small but with every kind of value. *)
EXTENDS RulesMatcher, TLC

NoRules == [valid |-> TRUE, type |-> << >>, source |-> << >>, payload |-> << >>]

SomeEvent == [type |-> <<"a">>, source |-> <<"b">>, payload |-> <<"object", << >>>>]

Characters == {"a", "b", ".", Newline}

(* Every pattern against every type, and one for the source. *)
PatternInputs ==
  {<<[NoRules EXCEPT !.type = p, !.source = s], [SomeEvent EXCEPT !.type = t]>> :
     p \in SeqOf({"a", ".", "*"}, 4) \ {<< >>},
     s \in {<< >>, <<"b">>},
     t \in SeqOf(Characters, 3) \ {<< >>}}

Object(k, v) == <<"object", k :> v>>

Values ==
  {<<"null">>, <<"bool", TRUE>>, <<"number", 0>>, NegativeZero, <<"number", 5>>,
   <<"number", 1000000>>, <<"number", 1000001>>, <<"string", <<"5">>>>, <<"string", <<"1000000">>>>,
   <<"string", <<"a">>>>, <<"list", <<<<"number", 5>>, <<"string", <<"a">>>>>>>>}

Payloads ==
  Values \cup {<<"object", << >>>>}
  \cup {Object("k", v) : v \in Values}
  \cup {Object("k", Object("l", v)) : v \in Values}

PayloadInputs ==
  {<<NoRules, [SomeEvent EXCEPT !.payload = v]>> : v \in Payloads}

RulesInputs == PatternInputs \cup PayloadInputs

Rule(path, op, value) == [path |-> path, op |-> op, value |-> value]

SomePayloadRules ==
  {Rule(<<"k">>, "==", <<"null">>),
   Rule(<<"k">>, "==", <<"bool", TRUE>>),
   Rule(<<"k">>, "==", <<"string", <<"5">>>>),
   Rule(<<"k">>, "!=", <<"number", 5>>),
   Rule(<<"k">>, ">", <<"number", 0>>),
   Rule(<<"k", "l">>, "==", NegativeZero),
   Rule(<<"k">>, "<", <<"number", 1000000>>),
   Rule(<<"k", "l">>, ">=", <<"number", 1000001>>),
   Rule(<<"k", "l">>, "in", <<"list", <<<<"number", 5>>, <<"null">>>>>>),
   Rule(<< >>, "regex", <<"string", <<"a">>>>),
   Rule(<<"k">>, "regex", <<"string", <<"(">>>>),
   Rule(<< >>, "=~", <<"string", <<"1000000">>>>)}

RuleValues == {r.value : r \in SomePayloadRules}

SomeJson ==
  Payloads \cup {Object("l", v) : v \in Values} \cup RuleValues

Decimal(v) == IF v = NegativeZero THEN "-0" ELSE ToString(v[2])

ValidRegex == {<<"a">>, <<"5">>}

RegexMatches == {<<r, t>> \in ValidRegex \X {<<"a">>, <<"5">>} : r = t}
==============================================================================
