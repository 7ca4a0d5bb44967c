---------------------------- MODULE MatcherProofs ----------------------------
(***************************************************************************)
(* Proofs about RulesMatcher, for any rules and events, any JSON values    *)
(* and any regular expressions.                                            *)
(*                                                                         *)
(* The matcher's loops over the characters of a pattern and the fields of  *)
(* a path are recursive functions.  What is said of them needs induction,  *)
(* which is used on explicit sets of numbers: the numbers for which a      *)
(* claim holds contain 0 and are closed under successor.                   *)
(***************************************************************************)
EXTENDS RulesMatcher, WellFoundedInduction, TLAPS

-----------------------------------------------------------------------------
(* Induction and recursion. *)

(* A set of numbers that is not empty has a least element. *)
LEMMA LeastNumber ==
  ASSUME NEW T \in SUBSET Nat, T # {}
  PROVE  \E n \in T : \A m \in T : n <= m
<1> DEFINE R == {r \in Nat \X Nat : r[1] < r[2]}
<1>1. IsWellFoundedOn(R, Nat)
  BY NatLessThanWellFounded DEF OpToRel
<1> HIDE DEF R
<1>2. PICK n \in T : \A m \in T : <<m, n>> \notin R
  BY <1>1, WFMin
<1>3. \A m \in T : ~(m < n)
  BY <1>2 DEF R
<1> QED
  BY <1>3

(* Induction over the natural numbers, for a set instead of a predicate. *)
LEMMA Induction ==
  ASSUME NEW S,
         0 \in S,
         \A n \in Nat : n \in S => n + 1 \in S
  PROVE  Nat \subseteq S
<1> SUFFICES ASSUME Nat \ S # {} PROVE FALSE
  OBVIOUS
<1>1. PICK n \in Nat \ S : \A m \in Nat \ S : n <= m
  BY LeastNumber
<1>2. n # 0 /\ n - 1 \in Nat /\ n - 1 \notin Nat \ S
  BY <1>1
<1> QED
  BY <1>2

(* f starts with c and takes the first n steps of D. *)
Computes(f, c, D, n) ==
  f[0] = c /\ \A i \in 1 .. n : f[i] = D[<<f[i - 1], i>>]

(* A value for 0 and a step from each number to the next define a sequence *)
(* of values.                                                              *)
LEMMA Recursion ==
  ASSUME NEW V, NEW c \in V, NEW n \in Nat,
         NEW D \in [V \X (1 .. n) -> V]
  PROVE  \E f \in [0 .. n -> V] : Computes(f, c, D, n)
<1> DEFINE S == {m \in Nat : m <= n => \E f \in [0 .. m -> V] : Computes(f, c, D, m)}
<1>1. 0 \in S
  <2> DEFINE f == [i \in 0 .. 0 |-> c]
  <2>1. f \in [0 .. 0 -> V] /\ Computes(f, c, D, 0)
    BY DEF Computes
  <2> QED
    BY <2>1
<1>2. \A m \in Nat : m \in S => m + 1 \in S
  <2> SUFFICES ASSUME NEW m \in Nat, m \in S, m + 1 <= n PROVE m + 1 \in S
    OBVIOUS
  <2>1. PICK f \in [0 .. m -> V] : Computes(f, c, D, m)
    OBVIOUS
  <2>2. PICK d \in V : d = D[<<f[m], m + 1>>]
    OBVIOUS
  <2> DEFINE g == [i \in 0 .. m + 1 |-> IF i <= m THEN f[i] ELSE d]
  <2>3. /\ g \in [0 .. m + 1 -> V] /\ g[m + 1] = d
        /\ \A i \in 0 .. m : g[i] = f[i]
    OBVIOUS
  <2> HIDE DEF g
  <2>4. ASSUME NEW i \in 1 .. m + 1
        PROVE  g[i] = D[<<g[i - 1], i>>]
    <3>1. CASE i <= m
      <4>1. i \in 1 .. m /\ g[i] = f[i] /\ g[i - 1] = f[i - 1]
        BY <3>1, <2>3
      <4> QED
        BY <4>1, <2>1 DEF Computes
    <3>2. CASE i = m + 1
      <4>1. g[i - 1] = f[m] /\ g[i] = d
        BY <3>2, <2>3
      <4> QED
        BY <4>1, <3>2, <2>2
    <3> QED
      BY <3>1, <3>2
  <2>5. g[0] = c
    BY <2>1, <2>3 DEF Computes
  <2>6. Computes(g, c, D, m + 1)
    BY <2>4, <2>5 DEF Computes
  <2> QED
    BY <2>3, <2>6
<1>3. n \in S
  <2> HIDE DEF S
  <2> QED
    BY <1>1, <1>2, Induction
<1> QED
  BY <1>3

-----------------------------------------------------------------------------
(* matchPattern. *)

(* Step keeps within the value, and the recursion over the pattern has a   *)
(* solution: after each character the positions that Step finds.           *)
LEMMA AfterSteps ==
  ASSUME NEW pattern \in Seq(STRING), NEW value \in Seq(STRING)
  PROVE  /\ After(pattern, value) \in [0 .. Len(pattern) -> SUBSET (0 .. Len(value))]
         /\ After(pattern, value)[0] = {0}
         /\ \A i \in 1 .. Len(pattern) :
              After(pattern, value)[i] =
                Step(pattern[i], value, After(pattern, value)[i - 1])
<1> DEFINE n == Len(pattern)
           V == SUBSET (0 .. Len(value))
           D == [x \in V \X (1 .. n) |-> Step(pattern[x[2]], value, x[1])]
           Solves(f) == f = [i \in 0 .. n |->
                               IF i = 0 THEN {0} ELSE Step(pattern[i], value, f[i - 1])]
<1>1. n \in Nat /\ {0} \in V
  OBVIOUS
<1>2. \A c \in STRING, from \in V : Step(c, value, from) \in V
  BY DEF Step
<1>3. D \in [V \X (1 .. n) -> V]
  <2>1. ASSUME NEW x \in V \X (1 .. n)
        PROVE  Step(pattern[x[2]], value, x[1]) \in V
    <3>1. x[1] \in V /\ pattern[x[2]] \in STRING
      OBVIOUS
    <3> QED
      BY <3>1, <1>2
  <2> QED
    BY <2>1
<1>4. PICK f \in [0 .. n -> V] : Computes(f, {0}, D, n)
  <2> HIDE DEF D, V, n
  <2> QED
    BY <1>1, <1>3, Recursion
<1>5. \A i \in 1 .. n : f[i] = Step(pattern[i], value, f[i - 1])
  <2> SUFFICES ASSUME NEW i \in 1 .. n PROVE f[i] = Step(pattern[i], value, f[i - 1])
    OBVIOUS
  <2>1. <<f[i - 1], i>> \in V \X (1 .. n)
    OBVIOUS
  <2> QED
    BY <2>1, <1>4 DEF Computes
<1>6. Solves(f)
  <2>1. \A i \in 0 .. n :
          f[i] = IF i = 0 THEN {0} ELSE Step(pattern[i], value, f[i - 1])
    BY <1>4, <1>5 DEF Computes
  <2> QED
    BY <2>1
<1>7. Solves(After(pattern, value))
  <2>1. After(pattern, value) = CHOOSE g : Solves(g)
    BY DEF After
  <2> QED
    BY <2>1, <1>6
<1> PICK A : A = After(pattern, value)
  OBVIOUS
<1>8. A[0] = {0} /\ \A i \in 1 .. n : A[i] = Step(pattern[i], value, A[i - 1])
  <2>1. A = [i \in 0 .. n |-> IF i = 0 THEN {0} ELSE Step(pattern[i], value, A[i - 1])]
    BY <1>7
  <2>2. \A i \in 0 .. n : A[i] = IF i = 0 THEN {0} ELSE Step(pattern[i], value, A[i - 1])
    BY <2>1
  <2> QED
    BY <2>2
<1>9. A \in [0 .. n -> V]
  <2> DEFINE S == {i \in Nat : i <= n => A[i] \in V}
  <2>1. 0 \in S
    BY <1>8
  <2>2. \A i \in Nat : i \in S => i + 1 \in S
    <3> HIDE DEF V
    <3> SUFFICES ASSUME NEW i \in Nat, i \in S, i + 1 <= n PROVE A[i + 1] \in V
      OBVIOUS
    <3>1. i + 1 \in 1 .. n /\ pattern[i + 1] \in STRING /\ A[(i + 1) - 1] \in V
      OBVIOUS
    <3> QED
      BY <3>1, <1>2, <1>8
  <2>3. Nat \subseteq S
    <3> HIDE DEF S
    <3> QED
      BY <2>1, <2>2, Induction
  <2>4. \A i \in 0 .. n : A[i] \in V
    BY <2>3
  <2>5. A = [i \in 0 .. n |-> A[i]]
    BY <1>7
  <2> HIDE DEF V
  <2> QED
    BY <2>4, <2>5
<1> QED
  BY <1>8, <1>9

(* In a value of one line, a step of the regular expression reaches what   *)
(* the character of the pattern stands for.                                *)
LEMMA StepFits ==
  ASSUME NEW value \in Seq(STRING), ~Contains(value, Newline),
         NEW c \in STRING, NEW from \in SUBSET (0 .. Len(value)),
         NEW k \in 0 .. Len(value)
  PROVE  k \in Step(c, value, from) <=> \E j \in from : Fits(c, value, j, k)
<1>1. \A i \in 1 .. Len(value) : value[i] # Newline
  BY DEF Contains
<1>2. CASE c = "*"
  <2>1. \A j \in from : \A i \in j + 1 .. k : i \in 1 .. Len(value)
    OBVIOUS
  <2>2. k \in Step(c, value, from) <=> \E j \in from : j <= k
    BY <1>1, <1>2, <2>1 DEF Step
  <2>3. \A j \in from : Fits(c, value, j, k) <=> j <= k
    BY <1>2 DEF Fits
  <2> QED
    BY <2>2, <2>3
<1>3. CASE c # "*"
  <2>1. k \in Step(c, value, from)
          <=> \E j \in from : j < Len(value) /\ value[j + 1] = c /\ k = j + 1
    BY <1>3 DEF Step
  <2>2. \A j \in from :
          Fits(c, value, j, k) <=> j < Len(value) /\ value[j + 1] = c /\ k = j + 1
    BY <1>3 DEF Fits
  <2> QED
    BY <2>1, <2>2
<1> QED
  BY <1>2, <1>3

(* The first n characters of a pattern, and where the piece of each ends. *)
IsCut(cut, n, pattern, value) ==
  /\ cut \in [0 .. n -> 0 .. Len(value)] /\ cut[0] = 0
  /\ \A i \in 1 .. n : Fits(pattern[i], value, cut[i - 1], cut[i])

(* One more character and one more piece. *)
LEMMA CutFurther ==
  ASSUME NEW pattern \in Seq(STRING), NEW value \in Seq(STRING), NEW n \in Nat,
         NEW cut, IsCut(cut, n, pattern, value),
         NEW k \in 0 .. Len(value), Fits(pattern[n + 1], value, cut[n], k)
  PROVE  \E longer : IsCut(longer, n + 1, pattern, value) /\ longer[n + 1] = k
<1> DEFINE longer == [i \in 0 .. n + 1 |-> IF i <= n THEN cut[i] ELSE k]
<1>1. cut \in [0 .. n -> 0 .. Len(value)]
  BY DEF IsCut
<1>2. /\ longer \in [0 .. n + 1 -> 0 .. Len(value)] /\ longer[n + 1] = k
      /\ \A i \in 0 .. n : longer[i] = cut[i]
  BY <1>1
<1> HIDE DEF longer
<1>3. ASSUME NEW i \in 1 .. n + 1
      PROVE  Fits(pattern[i], value, longer[i - 1], longer[i])
  <2>1. CASE i <= n
    <3>1. i \in 1 .. n /\ longer[i] = cut[i] /\ longer[i - 1] = cut[i - 1]
      BY <2>1, <1>2
    <3> QED
      BY <3>1 DEF IsCut
  <2>2. CASE i = n + 1
    <3>1. longer[i - 1] = cut[n] /\ longer[i] = k
      BY <2>2, <1>2
    <3> QED
      BY <3>1, <2>2
  <2> QED
    BY <2>1, <2>2
<1>4. longer[0] = 0
  BY <1>2 DEF IsCut
<1>5. IsCut(longer, n + 1, pattern, value)
  BY <1>2, <1>3, <1>4 DEF IsCut
<1> QED
  BY <1>2, <1>5

(* A cut is one for the shorter pattern, too. *)
LEMMA CutShorter ==
  ASSUME NEW pattern \in Seq(STRING), NEW value \in Seq(STRING), NEW n \in Nat,
         NEW cut, IsCut(cut, n + 1, pattern, value)
  PROVE  \E shorter : IsCut(shorter, n, pattern, value) /\ shorter[n] = cut[n]
<1> DEFINE shorter == [i \in 0 .. n |-> cut[i]]
<1>1. cut \in [0 .. n + 1 -> 0 .. Len(value)]
  BY DEF IsCut
<1>2. /\ shorter \in [0 .. n -> 0 .. Len(value)]
      /\ \A i \in 0 .. n : shorter[i] = cut[i]
  BY <1>1
<1> HIDE DEF shorter
<1>3. ASSUME NEW i \in 1 .. n
      PROVE  Fits(pattern[i], value, shorter[i - 1], shorter[i])
  <2>1. i \in 1 .. n + 1 /\ shorter[i] = cut[i] /\ shorter[i - 1] = cut[i - 1]
    BY <1>2
  <2> QED
    BY <2>1 DEF IsCut
<1>4. shorter[0] = 0
  BY <1>2 DEF IsCut
<1>5. IsCut(shorter, n, pattern, value)
  BY <1>2, <1>3, <1>4 DEF IsCut
<1> QED
  BY <1>2, <1>5

(* What the regular expression reaches after some characters of a pattern  *)
(* is where a cut for these characters can end.                            *)
LEMMA AfterIsCut ==
  ASSUME NEW pattern \in Seq(STRING), NEW value \in Seq(STRING),
         ~Contains(value, Newline),
         NEW n \in 0 .. Len(pattern), NEW k \in 0 .. Len(value)
  PROVE  k \in After(pattern, value)[n]
           <=> \E cut : IsCut(cut, n, pattern, value) /\ cut[n] = k
<1> DEFINE A == After(pattern, value)
           Ends(i, m) == \E cut : IsCut(cut, i, pattern, value) /\ cut[i] = m
           Agree(i) == \A m \in 0 .. Len(value) : m \in A[i] <=> Ends(i, m)
           S == {i \in Nat : i <= Len(pattern) => Agree(i)}
<1> HIDE DEF A
<1>1. /\ A \in [0 .. Len(pattern) -> SUBSET (0 .. Len(value))] /\ A[0] = {0}
      /\ \A i \in 1 .. Len(pattern) : A[i] = Step(pattern[i], value, A[i - 1])
  BY AfterSteps DEF A
<1>2. 0 \in S
  <2> DEFINE none == [i \in 0 .. 0 |-> 0]
  <2>1. IsCut(none, 0, pattern, value) /\ none[0] = 0
    BY DEF IsCut
  <2> HIDE DEF none
  <2>2. Ends(0, 0)
    BY <2>1
  <2>3. \A m \in 0 .. Len(value) : Ends(0, m) => m = 0
    BY DEF IsCut
  <2>4. \A m \in 0 .. Len(value) : m \in A[0] <=> Ends(0, m)
    BY <2>2, <2>3, <1>1
  <2> QED
    BY <2>4
<1>3. \A i \in Nat : i \in S => i + 1 \in S
  <2> HIDE DEF Agree
  <2> SUFFICES ASSUME NEW i \in Nat, i \in S, i + 1 <= Len(pattern)
               PROVE  Agree(i + 1)
    OBVIOUS
  <2>0. Agree(i)
    OBVIOUS
  <2> HIDE DEF S
  <2>1. /\ A[i] \in SUBSET (0 .. Len(value)) /\ pattern[i + 1] \in STRING
        /\ A[i + 1] = Step(pattern[i + 1], value, A[i])
    <3>1. i \in 0 .. Len(pattern) /\ i + 1 \in 1 .. Len(pattern) /\ (i + 1) - 1 = i
      OBVIOUS
    <3>2. pattern[i + 1] \in STRING
      BY <3>1
    <3>3. A[i] \in SUBSET (0 .. Len(value))
      BY <3>1, <1>1
    <3>4. A[i + 1] = Step(pattern[i + 1], value, A[i])
      BY <3>1, <1>1
    <3> QED
      BY <3>2, <3>3, <3>4
  <2> USE DEF Agree
  <2> SUFFICES ASSUME NEW m \in 0 .. Len(value)
               PROVE  m \in A[i + 1] <=> Ends(i + 1, m)
    OBVIOUS
  <2>2. \A j \in 0 .. Len(value) : j \in A[i] <=> Ends(i, j)
    BY <2>0
  <2>3. m \in A[i + 1] <=> \E j \in A[i] : Fits(pattern[i + 1], value, j, m)
    <3>1. \A c \in STRING, from \in SUBSET (0 .. Len(value)) :
            m \in Step(c, value, from) <=> \E j \in from : Fits(c, value, j, m)
      BY StepFits
    <3>2. m \in Step(pattern[i + 1], value, A[i])
            <=> \E j \in A[i] : Fits(pattern[i + 1], value, j, m)
      BY <2>1, <3>1
    <3> QED
      BY <2>1, <3>2
  <2>4. ASSUME m \in A[i + 1] PROVE Ends(i + 1, m)
    <3>1. PICK j \in A[i] : Fits(pattern[i + 1], value, j, m)
      BY <2>3, <2>4
    <3>2. PICK cut : IsCut(cut, i, pattern, value) /\ cut[i] = j
      BY <2>1, <2>2
    <3> QED
      BY <3>1, <3>2, CutFurther
  <2>5. ASSUME Ends(i + 1, m) PROVE m \in A[i + 1]
    <3>1. PICK cut : IsCut(cut, i + 1, pattern, value) /\ cut[i + 1] = m
      BY <2>5
    <3>2. /\ cut[i] \in 0 .. Len(value) /\ i + 1 \in 1 .. i + 1 /\ (i + 1) - 1 = i
          /\ Fits(pattern[i + 1], value, cut[(i + 1) - 1], cut[i + 1])
      BY <3>1 DEF IsCut
    <3>3. Ends(i, cut[i])
      BY <3>1, CutShorter
    <3> QED
      BY <3>1, <3>2, <3>3, <2>2, <2>3
  <2> QED
    BY <2>4, <2>5
<1>4. n \in S
  <2> HIDE DEF S
  <2> QED
    BY <1>2, <1>3, Induction
<1> QED
  BY <1>4 DEF A

LEMMA GlobIsCut ==
  ASSUME NEW pattern \in Seq(STRING), NEW value \in Seq(STRING)
  PROVE  Glob(pattern, value)
           <=> \E cut : IsCut(cut, Len(pattern), pattern, value)
                        /\ cut[Len(pattern)] = Len(value)
  BY DEF Glob, IsCut

(* A pattern without "*" stands for itself. *)
LEMMA LiteralGlob ==
  ASSUME NEW pattern \in Seq(STRING), NEW value \in Seq(STRING),
         ~Contains(pattern, "*")
  PROVE  Glob(pattern, value) <=> pattern = value
<1> DEFINE n == Len(pattern)
<1>1. n \in Nat /\ Len(value) \in Nat /\ \A i \in 1 .. n : pattern[i] # "*"
  BY DEF Contains
<1>2. ASSUME Glob(pattern, value) PROVE pattern = value
  <2>1. PICK cut : IsCut(cut, n, pattern, value) /\ cut[n] = Len(value)
    BY <1>2, GlobIsCut
  <2>2. \A i \in 1 .. n : cut[i] = cut[i - 1] + 1 /\ value[cut[i]] = pattern[i]
    BY <2>1, <1>1 DEF IsCut, Fits
  <2> DEFINE S == {i \in Nat : i <= n => cut[i] = i}
  <2>3. 0 \in S
    BY <2>1 DEF IsCut
  <2>4. \A i \in Nat : i \in S => i + 1 \in S
    <3> SUFFICES ASSUME NEW i \in Nat, i \in S, i + 1 <= n PROVE cut[i + 1] = i + 1
      OBVIOUS
    <3>1. i + 1 \in 1 .. n /\ (i + 1) - 1 = i /\ cut[i] = i
      BY <1>1
    <3> QED
      BY <3>1, <2>2
  <2>5. Nat \subseteq S
    <3> HIDE DEF S
    <3> QED
      BY <2>3, <2>4, Induction
  <2>6. \A i \in 0 .. n : cut[i] = i
    BY <2>5, <1>1
  <2>7. Len(value) = n /\ \A i \in 1 .. n : value[i] = pattern[i]
    BY <2>1, <2>2, <2>6, <1>1
  <2> QED
    BY <2>7
<1>3. ASSUME pattern = value PROVE Glob(pattern, value)
  <2> DEFINE cut == [i \in 0 .. n |-> i]
  <2>1. cut \in [0 .. n -> 0 .. Len(value)] /\ cut[0] = 0 /\ cut[n] = Len(value)
    BY <1>1, <1>3
  <2>2. \A i \in 1 .. n : Fits(pattern[i], value, cut[i - 1], cut[i])
    BY <1>1, <1>3 DEF Fits
  <2>3. IsCut(cut, n, pattern, value)
    BY <2>1, <2>2 DEF IsCut
  <2> QED
    BY <2>1, <2>3, GlobIsCut
<1> QED
  BY <1>2, <1>3

(* What matchPattern computes with a regular expression, an equality and   *)
(* a special case for the empty pattern.                                   *)
LEMMA MatchPatternIsGlob ==
  ASSUME NEW pattern \in Seq(STRING), NEW value \in Seq(STRING),
         ~Contains(value, Newline)
  PROVE  MatchPattern(pattern, value) <=> pattern = << >> \/ Glob(pattern, value)
<1>1. CASE Contains(pattern, "*")
  <2>1. pattern # << >>
    BY <1>1 DEF Contains
  <2>2. Len(pattern) \in 0 .. Len(pattern) /\ Len(value) \in 0 .. Len(value)
    OBVIOUS
  <2>3. MatchPattern(pattern, value)
          <=> \E cut : IsCut(cut, Len(pattern), pattern, value)
                       /\ cut[Len(pattern)] = Len(value)
    BY <1>1, <2>2, AfterIsCut DEF MatchPattern
  <2> QED
    BY <2>1, <2>3, GlobIsCut
<1>2. CASE ~Contains(pattern, "*")
  <2>1. MatchPattern(pattern, value) <=> pattern = value \/ pattern = << >>
    BY <1>2 DEF MatchPattern
  <2> QED
    BY <2>1, <1>2, LiteralGlob
<1> QED
  BY <1>1, <1>2

-----------------------------------------------------------------------------
(* The types of rules and events. *)

MatcherTypes ==
  /\ rules \in [valid : BOOLEAN, type : Seq(STRING), source : Seq(STRING),
                payload : Seq(PayloadRule)]
  /\ event \in [type : Seq(STRING), source : Seq(STRING), payload : Json]

LEMMA MatcherTypesInductive ==
  /\ MatcherInit => MatcherTypes
  /\ MatcherTypes /\ [MatcherNext]_matcherVars => MatcherTypes'
<1>1. MatcherInit => MatcherTypes
  BY RulesAssumption DEF MatcherInit, MatcherTypes, RulesAssumption
<1>2. SeqOf(PayloadRule, MaxRules) \subseteq Seq(PayloadRule)
  BY RulesAssumption DEF SeqOf, RulesAssumption
<1>3. ASSUME MatcherTypes, PutRules PROVE MatcherTypes'
  <2>1. NewPayloadRules \subseteq Seq(PayloadRule)
    BY <1>2, <1>3 DEF NewPayloadRules, MatcherTypes
  <2> QED
    BY <1>3, <2>1 DEF PutRules, MatcherTypes
<1>4. ASSUME MatcherTypes, PutMalformed PROVE MatcherTypes'
  <2>1. << >> \in Seq(PayloadRule)
    OBVIOUS
  <2> QED
    BY <1>4, <2>1 DEF PutMalformed, MatcherTypes
<1>5. ASSUME MatcherTypes, UNCHANGED matcherVars PROVE MatcherTypes'
  BY <1>5 DEF matcherVars, MatcherTypes
<1> QED
  BY <1>1, <1>3, <1>4, <1>5 DEF MatcherNext

(* The rules and the event always have the fields the matcher reads. *)
LEMMA MatcherTypesAlways == MatcherSpec => []MatcherTypes
  BY MatcherTypesInductive, PTL DEF MatcherSpec

(* The regular expression that matchPattern builds from a pattern accepts  *)
(* what its wildcards and its other characters stand for, and nothing      *)
(* else, for every pattern and every type of one line.                     *)
THEOREM PatternsAreGlobs == MatcherSpec => []PatternMeansGlob
<1>1. MatcherTypes => PatternMeansGlob
  BY MatchPatternIsGlob DEF MatcherTypes, PatternMeansGlob
<1> QED
  BY <1>1, MatcherTypesAlways, PTL

-----------------------------------------------------------------------------
(* compareValues. *)

(* A path leads to a part of the payload or to nothing. *)
LEMMA PathLeadsToPart ==
  ASSUME JsonAssumption, NEW data \in Json, NEW path \in Seq(STRING)
  PROVE  ExtractPath(data, path) \in Json \cup {Missing}
<1> DEFINE n == Len(path)
           V == Json \cup {Missing}
           D == [x \in V \X (1 .. n) |-> Field(x[1], path[x[2]])]
           Solves(f) == f = [i \in 0 .. n |->
                               IF i = 0 THEN data ELSE Field(f[i - 1], path[i])]
<1>1. n \in Nat /\ data \in V
  OBVIOUS
<1>2. \A v \in V : \A name : Field(v, name) \in V
  <2> SUFFICES ASSUME NEW v \in V, NEW name, v[1] = "object", name \in DOMAIN v[2]
               PROVE  v[2][name] \in V
    BY DEF Field
  <2>1. v # Missing
    BY DEF Missing
  <2> QED
    BY <2>1 DEF JsonAssumption
<1>3. D \in [V \X (1 .. n) -> V]
  <2>1. \A x \in V \X (1 .. n) : Field(x[1], path[x[2]]) \in V
    BY <1>2
  <2> QED
    BY <2>1
<1>4. PICK f \in [0 .. n -> V] : Computes(f, data, D, n)
  <2> HIDE DEF D, V, n
  <2> QED
    BY <1>1, <1>3, Recursion
<1>5. \A i \in 1 .. n : f[i] = Field(f[i - 1], path[i])
  <2> SUFFICES ASSUME NEW i \in 1 .. n PROVE f[i] = Field(f[i - 1], path[i])
    OBVIOUS
  <2>1. <<f[i - 1], i>> \in V \X (1 .. n)
    OBVIOUS
  <2> QED
    BY <2>1, <1>4 DEF Computes
<1>6. Solves(f)
  <2>1. \A i \in 0 .. n : f[i] = IF i = 0 THEN data ELSE Field(f[i - 1], path[i])
    BY <1>4, <1>5 DEF Computes
  <2> QED
    BY <2>1
<1>7. PICK at : at = CHOOSE g : Solves(g)
  OBVIOUS
<1>8. ExtractPath(data, path) = at[n]
  BY <1>7 DEF ExtractPath
<1>9. at[0] = data /\ \A i \in 1 .. n : at[i] = Field(at[i - 1], path[i])
  <2>1. at = [i \in 0 .. n |-> IF i = 0 THEN data ELSE Field(at[i - 1], path[i])]
    BY <1>6, <1>7
  <2>2. \A i \in 0 .. n : at[i] = IF i = 0 THEN data ELSE Field(at[i - 1], path[i])
    BY <2>1
  <2> QED
    BY <2>2
<1> DEFINE S == {i \in Nat : i <= n => at[i] \in V}
<1>10. 0 \in S
  BY <1>9
<1>11. \A i \in Nat : i \in S => i + 1 \in S
  <2> HIDE DEF V
  <2> SUFFICES ASSUME NEW i \in Nat, i \in S, i + 1 <= n PROVE at[i + 1] \in V
    OBVIOUS
  <2>1. i + 1 \in 1 .. n /\ (i + 1) - 1 = i /\ at[i] \in V
    OBVIOUS
  <2> QED
    BY <2>1, <1>2, <1>9
<1>12. n \in S
  <2> HIDE DEF S
  <2> QED
    BY <1>1, <1>10, <1>11, Induction
<1> QED
  BY <1>8, <1>12

(* Two numbers show the same only if they are the same, the two zeros not. *)
LEMMA NumbersShown ==
  ASSUME JsonAssumption,
         NEW a \in Json, a[1] = "number", NEW b \in Json, b[1] = "number"
  PROVE  /\ a[2] \in Int /\ b[2] \in Int
         /\ ValuesEqual(a, b) <=> a[2] = b[2] /\ (a = NegativeZero <=> b = NegativeZero)
<1>1. /\ a[2] \in Int /\ b[2] \in Int
      /\ a \in {<<"number", a[2]>>, NegativeZero}
      /\ b \in {<<"number", b[2]>>, NegativeZero}
      /\ Numeral(a) = Numeral(b) => a = b
  BY DEF JsonAssumption
<1>2. Shown(a) = Digits(a) /\ Shown(b) = Digits(b)
  BY DEF Shown, Scalar
<1>3. Digits(a)[1] = Numeral(a) /\ Digits(b)[1] = Numeral(b)
  <2>1. ASSUME NEW v
        PROVE  Digits(v)[1] = Numeral(v)
    <3>1. \E e \in {<< >>, <<"e">>} : Digits(v) = <<Numeral(v)>> \o e
      BY DEF Digits
    <3>2. \A m : (<<m>> \o << >>)[1] = m /\ (<<m>> \o <<"e">>)[1] = m
      OBVIOUS
    <3> QED
      BY <3>1, <3>2
  <2> QED
    BY <2>1
<1>4. ValuesEqual(a, b) <=> a = b
  BY <1>1, <1>2, <1>3 DEF ValuesEqual
<1>5. a = b <=> a[2] = b[2] /\ (a = NegativeZero <=> b = NegativeZero)
  BY <1>1
<1> QED
  BY <1>1, <1>4, <1>5

(* The operators of the payload rules fit each other: of two numbers       *)
(* exactly one of <, == and > holds although == compares texts, 0 and -0   *)
(* excepted; "in" with one item is "==", and "!=" is its negation where    *)
(* the field is present.                                                   *)
THEOREM OperatorsAgree == MatcherSpec => []ComparisonsAgree
<1>1. ASSUME MatcherTypes,
             NEW path \in {r.path : r \in PayloadRule},
             NEW x \in {r.value : r \in PayloadRule}
      PROVE  OperatorsFit(path, x)
  <2> DEFINE actual == ExtractPath(event.payload, path)
             Says(op, y) == CompareValues(actual, op, y) = "yes"
  <2>1. x \in Json /\ path \in Seq(STRING) /\ event.payload \in Json
    BY <1>1, RulesAssumption DEF RulesAssumption, PayloadRules, MatcherTypes
  <2>2. actual \in Json \cup {Missing}
    BY <2>1, JsonAssumption, PathLeadsToPart
  <2>3. \A op, y : Holds(path, op, y) <=> actual # Missing /\ Says(op, y)
    BY DEF EvaluatePayloadRule, Holds
  <2>4. \A b \in BOOLEAN : YesNo(b) = "yes" <=> b
    BY DEF YesNo
  <2>5. Says("==", x) <=> ValuesEqual(actual, x)
    BY <2>4 DEF CompareValues, ValuesEqual
  <2>6. Says("!=", x) <=> ~ValuesEqual(actual, x)
    BY <2>4 DEF CompareValues, ValuesEqual
  <2>7. Says("in", <<"list", <<x>>>>) <=> ValuesEqual(actual, x)
    <3>1. (\E i \in DOMAIN <<x>> : ValuesEqual(actual, <<x>>[i])) <=> ValuesEqual(actual, x)
      OBVIOUS
    <3>2. CompareValues(actual, "in", <<"list", <<x>>>>)
            = YesNo(\E i \in DOMAIN <<x>> : ValuesEqual(actual, <<x>>[i]))
      BY DEF CompareValues, ValueIn
    <3> QED
      BY <3>1, <3>2, <2>4
  <2>8. ASSUME actual[1] = "number", x[1] = "number"
        PROVE  /\ Says("<", x) <=> ~Says(">=", x)
               /\ Says(">", x) <=> ~Says("<=", x)
               /\ Says("==", x) <=> /\ Says("<=", x) /\ Says(">=", x)
                                    /\ actual = NegativeZero <=> x = NegativeZero
    <3>1. actual # Missing
      BY <2>8 DEF Missing
    <3>2. /\ actual[2] \in Int /\ x[2] \in Int
          /\ ValuesEqual(actual, x) <=> /\ actual[2] = x[2]
                                        /\ actual = NegativeZero <=> x = NegativeZero
      BY <2>1, <2>2, <2>8, <3>1, NumbersShown, JsonAssumption
    <3>3. /\ CompareValues(actual, "<", x) = YesNo(actual[2] < x[2])
          /\ CompareValues(actual, ">", x) = YesNo(actual[2] > x[2])
          /\ CompareValues(actual, "<=", x) = YesNo(actual[2] <= x[2])
          /\ CompareValues(actual, ">=", x) = YesNo(actual[2] >= x[2])
      BY <2>8 DEF CompareValues, CompareNumbers
    <3>4. /\ Says("<", x) <=> actual[2] < x[2]
          /\ Says(">", x) <=> actual[2] > x[2]
          /\ Says("<=", x) <=> actual[2] <= x[2]
          /\ Says(">=", x) <=> actual[2] >= x[2]
      BY <3>3 DEF YesNo
    <3> QED
      BY <3>2, <3>4, <2>5
  <2> HIDE DEF Says
  <2>9. Holds(path, "!=", x) = (actual # Missing /\ ~Holds(path, "==", x))
    BY <2>3, <2>5, <2>6 DEF Holds
  <2>10. Holds(path, "in", <<"list", <<x>>>>) = Holds(path, "==", x)
    BY <2>3, <2>5, <2>7 DEF Holds
  <2>11. actual[1] = "number" /\ x[1] = "number" =>
           /\ Holds(path, "<", x) = ~Holds(path, ">=", x)
           /\ Holds(path, ">", x) = ~Holds(path, "<=", x)
           /\ Holds(path, "==", x) = /\ Holds(path, "<=", x) /\ Holds(path, ">=", x)
                                     /\ actual = NegativeZero <=> x = NegativeZero
    <3>1. \A op : /\ Holds(path, op, x) \in BOOLEAN
                  /\ actual[1] = "number" => (Holds(path, op, x) <=> Says(op, x))
      BY <2>3 DEF Missing, Holds
    <3> QED
      BY <3>1, <2>8
  <2> QED
    BY <2>9, <2>10, <2>11 DEF OperatorsFit
<1>2. MatcherTypes => ComparisonsAgree
  BY <1>1 DEF ComparisonsAgree
<1> QED
  BY <1>2, MatcherTypesAlways, PTL

-----------------------------------------------------------------------------
(* Matches. *)

(* The loop over the payload rules ends with "yes" only if each says so. *)
LEMMA DecideYes ==
  ASSUME NEW S, NEW outcomes \in Seq(S)
  PROVE  Decide(outcomes) = "yes" <=> \A i \in 1 .. Len(outcomes) : outcomes[i] = "yes"
<1> DEFINE I == {i \in 1 .. Len(outcomes) : outcomes[i] # "yes"}
<1>1. FirstOther(outcomes) = IF I # {} THEN Min(I) ELSE 0
  BY DEF FirstOther, SelectInSeq
<1>2. CASE I = {}
  BY <1>1, <1>2 DEF Decide
<1>3. CASE I # {}
  <2>1. PICK n \in I : \A m \in I : n <= m
    <3>1. I \in SUBSET Nat
      OBVIOUS
    <3> HIDE DEF I
    <3> QED
      BY <1>3, <3>1, LeastNumber
  <2>2. Min(I) \in I
    <3> HIDE DEF I
    <3> QED
      BY <2>1 DEF Min
  <2>3. FirstOther(outcomes) # 0 /\ outcomes[FirstOther(outcomes)] # "yes"
    BY <1>1, <1>3, <2>2
  <2> QED
    BY <1>3, <2>3 DEF Decide
<1> QED
  BY <1>2, <1>3

(* An event is let through by rules that can be parsed, both patterns and  *)
(* every payload rule.                                                     *)
LEMMA MatchesMeans ==
  ASSUME NEW e, NEW r, r.payload \in Seq(PayloadRule)
  PROVE  Matches(e, r) = "yes" <=>
           /\ r.valid /\ MatchPattern(r.type, e.type) /\ MatchPattern(r.source, e.source)
           /\ \A p \in Range(r.payload) : EvaluatePayloadRule(e.payload, p) = "yes"
<1> DEFINE says(p) == EvaluatePayloadRule(e.payload, p)
           outcomes == [i \in DOMAIN r.payload |-> says(r.payload[i])]
           S == {says(r.payload[i]) : i \in DOMAIN r.payload}
<1>1. /\ outcomes \in Seq(S) /\ DOMAIN r.payload = 1 .. Len(r.payload)
      /\ Len(outcomes) = Len(r.payload)
  <2> HIDE DEF says
  <2> QED
    OBVIOUS
<1>2. Decide(outcomes) = "yes" <=> \A i \in DOMAIN r.payload : says(r.payload[i]) = "yes"
  <2> HIDE DEF says, S
  <2>1. Decide(outcomes) = "yes" <=> \A i \in 1 .. Len(outcomes) : outcomes[i] = "yes"
    BY <1>1, DecideYes
  <2>2. \A i \in DOMAIN r.payload : outcomes[i] = says(r.payload[i])
    OBVIOUS
  <2> QED
    BY <1>1, <2>1, <2>2
<1>3. (\A i \in DOMAIN r.payload : says(r.payload[i]) = "yes")
        <=> \A p \in Range(r.payload) : says(p) = "yes"
  <2> HIDE DEF says
  <2> QED
    BY DEF Range
<1>4. Matches(e, r) = IF ~r.valid THEN "error"
                      ELSE IF MatchPattern(r.type, e.type) /\ MatchPattern(r.source, e.source)
                           THEN Decide(outcomes) ELSE "no"
  BY DEF Matches
<1> QED
  BY <1>2, <1>3, <1>4

(* Rules that are added let no event through that was held back before,    *)
(* and rules that are reordered or repeated change nothing.                *)
THEOREM RulesOnlyNarrow == MatcherSpec => AddedRulesOnlyNarrow
<1> DEFINE Narrow ==
             rules'.valid /\ Range(rules.payload) \subseteq Range(rules'.payload)
               => (Delivers' /\ rules.valid => Delivers)
<1>1. ASSUME MatcherTypes, MatcherTypes', [MatcherNext]_matcherVars
      PROVE  [Narrow]_matcherVars
  <2> SUFFICES ASSUME MatcherNext, rules'.valid, rules.valid, Delivers',
                      Range(rules.payload) \subseteq Range(rules'.payload)
               PROVE  Delivers
    BY <1>1
  <2>1. event' = event /\ rules'.type = rules.type /\ rules'.source = rules.source
    <3>1. CASE PutRules
      BY <1>1, <3>1 DEF PutRules, MatcherTypes
    <3>2. CASE PutMalformed
      BY <1>1, <3>2 DEF PutMalformed, MatcherTypes
    <3> QED
      BY <3>1, <3>2 DEF MatcherNext
  <2>2. rules.payload \in Seq(PayloadRule) /\ rules'.payload \in Seq(PayloadRule)
    BY <1>1 DEF MatcherTypes
  <2>3. /\ MatchPattern(rules.type, event.type) /\ MatchPattern(rules.source, event.source)
        /\ \A p \in Range(rules'.payload) : EvaluatePayloadRule(event.payload, p) = "yes"
    <3>1. Matches(event', rules') = "yes"
      BY DEF Delivers
    <3>2. Matches(event, rules') = "yes"
      BY <3>1, <2>1
    <3> QED
      BY <3>2, <2>1, <2>2, MatchesMeans
  <2> QED
    BY <2>2, <2>3, MatchesMeans DEF Delivers
<1> QED
  BY <1>1, MatcherTypesAlways, PTL DEF MatcherSpec, AddedRulesOnlyNarrow

==============================================================================
