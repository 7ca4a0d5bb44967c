SPECIFICATION MatcherSpec
CONSTANTS
  Newline = "newline"
  MaxRules = 2
  Regex <- ValidRegex
  RegexAccepts <- RegexMatches
  Json <- SomeJson
  Numeral <- Decimal
  Inputs <- RulesInputs
  PayloadRule <- SomePayloadRules
INVARIANTS
  PatternMeansGlob
  ComparisonsAgree
PROPERTY AddedRulesOnlyNarrow
