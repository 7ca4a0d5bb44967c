----------------------------- MODULE AuditProofs ------------------------------
(***************************************************************************)
(* What a client that pages through an audit sees, for any number of rows, *)
(* page sizes, insertions and requests meanwhile.                          *)
(***************************************************************************)
EXTENDS AuditQueries, FiniteSetTheorems, SequenceTheorems, TLAPS

-----------------------------------------------------------------------------
(* The least of two, the pages of a list, and the sets of their rows.      *)
LEMMA MinLemma ==
  ASSUME NEW a \in Int, NEW b \in Int
  PROVE  Min({a, b}) = IF a <= b THEN a ELSE b
<1> DEFINE m == IF a <= b THEN a ELSE b
<1>1. m \in {a, b} /\ \A y \in {a, b} : m <= y
  OBVIOUS
<1>2. \A x \in {a, b} : (\A y \in {a, b} : x <= y) => x = m
  OBVIOUS
<1> HIDE DEF m
<1>3. Min({a, b}) = m
  BY <1>1, <1>2 DEF Min
<1> QED
  BY <1>3 DEF m

LEMMA ConcatenationLemma ==
  ASSUME NEW S, NEW s \in Seq(S), NEW t \in Seq(S)
  PROVE  /\ s \o t \in Seq(S) /\ Len(s \o t) = Len(s) + Len(t)
         /\ ToSet(s \o t) = ToSet(s) \cup ToSet(t)
<1>1. /\ s \o t \in Seq(S) /\ Len(s \o t) = Len(s) + Len(t)
      /\ \A i \in 1 .. Len(s) : (s \o t)[i] = s[i]
      /\ \A i \in 1 .. Len(t) : (s \o t)[Len(s) + i] = t[i]
  OBVIOUS
<1>2. ASSUME NEW x \in ToSet(s \o t)
      PROVE  x \in ToSet(s) \cup ToSet(t)
  <2>1. PICK i \in 1 .. Len(s) + Len(t) : x = (s \o t)[i]
    BY <1>1 DEF ToSet
  <2>2. CASE i <= Len(s)
    BY <1>1, <2>1, <2>2 DEF ToSet
  <2>3. CASE i > Len(s)
    <3>1. i - Len(s) \in 1 .. Len(t) /\ i = Len(s) + (i - Len(s))
      BY <2>1, <2>3
    <3> QED
      BY <1>1, <2>1, <3>1 DEF ToSet
  <2> QED
    BY <2>1, <2>2, <2>3
<1>3. ASSUME NEW x \in ToSet(s)
      PROVE  x \in ToSet(s \o t)
  <2>1. PICK i \in 1 .. Len(s) : x = s[i]
    BY DEF ToSet
  <2>2. i \in DOMAIN (s \o t) /\ (s \o t)[i] = x
    BY <1>1, <2>1
  <2> QED
    BY <2>2 DEF ToSet
<1>4. ASSUME NEW x \in ToSet(t)
      PROVE  x \in ToSet(s \o t)
  <2>1. PICK i \in 1 .. Len(t) : x = t[i]
    BY DEF ToSet
  <2>2. Len(s) + i \in DOMAIN (s \o t) /\ (s \o t)[Len(s) + i] = x
    BY <1>1, <2>1
  <2> QED
    BY <2>2 DEF ToSet
<1> QED
  BY <1>1, <1>2, <1>3, <1>4

-----------------------------------------------------------------------------
(* The table of attempts: finitely many rows, each with its created_at.    *)
Table ==
  /\ StoreTypeOK
  /\ created \in [Pair -> Nat]
  /\ IsFiniteSet(Rows(Pair))
  /\ \A p, q \in Rows(Pair) : created[p] = created[q] => p = q
  /\ \A p \in Pair : created[p] = 0 <=> ~Exists(p)

(* Places are what numbers the rows of a list from 1 on. *)
LEMMA PlaceLemma ==
  ASSUME Table, NEW sc, sc \subseteq Pair
  PROVE  /\ IsFiniteSet(Rows(sc)) /\ Cardinality(Rows(sc)) \in Nat
         /\ \A p \in Rows(sc) : Place(sc, p) \in 1 .. Cardinality(Rows(sc))
         /\ \A p, q \in Rows(sc) : Place(sc, p) = Place(sc, q) => p = q
         /\ \A i \in 1 .. Cardinality(Rows(sc)) : \E p \in Rows(sc) : Place(sc, p) = i
<1> DEFINE S == Rows(sc)
           n == Cardinality(S)
           N(p) == {q \in S : created[q] >= created[p]}
<1>1. S \subseteq Rows(Pair) /\ S \subseteq Pair
  BY DEF Rows
<1>2. IsFiniteSet(S) /\ n \in Nat
  BY <1>1, FS_Subset, FS_CardinalityType DEF Table
<1>3. \A p \in S : created[p] \in Nat
  BY <1>1 DEF Table
<1>4. \A p \in S : IsFiniteSet(N(p)) /\ Cardinality(N(p)) \in Nat /\ Cardinality(N(p)) <= n
  BY <1>2, FS_Subset, FS_CardinalityType
<1>5. \A p \in S : Cardinality(N(p)) # 0
  <2>1. \A p \in S : p \in N(p)
    BY <1>3
  <2>2. \A p \in S : N(p) # {}
    BY <2>1
  <2> QED
    BY <1>4, <2>2, FS_EmptySet
<1>6. \A p, q \in S : Cardinality(N(p)) = Cardinality(N(q)) => p = q
  <2>1. ASSUME NEW p \in S, NEW q \in S, Cardinality(N(p)) = Cardinality(N(q)),
               created[p] <= created[q]
        PROVE  p = q
    <3>1. N(q) \subseteq N(p)
      BY <1>3, <2>1
    <3>2. N(q) = N(p)
      BY <1>4, <2>1, <3>1, FS_Subset
    <3>3. p \in N(q)
      BY <1>3, <3>2
    <3>4. created[p] = created[q]
      BY <1>3, <2>1, <3>3
    <3> QED
      BY <1>1, <3>4 DEF Table
  <2>2. \A p, q \in S : created[p] <= created[q] \/ created[q] <= created[p]
    BY <1>3
  <2> QED
    BY <2>1, <2>2
<1>7. ASSUME NEW i \in 1 .. n
      PROVE  \E p \in S : Cardinality(N(p)) = i
  <2> DEFINE f == [p \in S |-> Cardinality(N(p))]
  <2>1. f \in Injection(S, 1 .. n)
    <3>1. \A p \in S : Cardinality(N(p)) \in 1 .. n
      BY <1>2, <1>4, <1>5
    <3>2. f \in [S -> 1 .. n]
      BY <3>1
    <3>3. \A p, q \in S : f[p] = f[q] => p = q
      BY <1>6
    <3> HIDE DEF f
    <3> QED
      BY <3>2, <3>3 DEF Injection, IsInjective
  <2>2. IsFiniteSet(1 .. n) /\ Cardinality(1 .. n) = n
    BY <1>2, FS_Interval
  <2>3. f \in Surjection(S, 1 .. n)
    BY <2>1, <2>2, FS_Injection
  <2> QED
    BY <2>3 DEF Surjection
<1>8. \A p : Place(sc, p) = Cardinality(N(p))
  BY DEF Place
<1> HIDE DEF N, n
<1> QED
  BY <1>2, <1>4, <1>5, <1>6, <1>7, <1>8 DEF n

(* The newest k rows are at least k. *)
LEMMA TopLemma ==
  ASSUME Table, NEW sc, sc \subseteq Pair, NEW k \in 0 .. Cardinality(Rows(sc))
  PROVE  k <= Cardinality({p \in Rows(sc) : Place(sc, p) <= k})
<1> DEFINE T == {p \in Rows(sc) : Place(sc, p) <= k}
           f == [p \in T |-> Place(sc, p)]
<1>1. /\ IsFiniteSet(Rows(sc)) /\ Cardinality(Rows(sc)) \in Nat
      /\ \A p \in Rows(sc) : Place(sc, p) \in 1 .. Cardinality(Rows(sc))
      /\ \A i \in 1 .. Cardinality(Rows(sc)) : \E p \in Rows(sc) : Place(sc, p) = i
  BY PlaceLemma
<1>2. k \in Nat /\ IsFiniteSet(T) /\ IsFiniteSet(1 .. k) /\ Cardinality(1 .. k) = k
  <2>1. T \in SUBSET Rows(sc) /\ k \in Nat
    BY <1>1
  <2>2. IsFiniteSet(T)
    BY <1>1, <2>1, FS_Subset
  <2>3. IsFiniteSet(1 .. k) /\ Cardinality(1 .. k) = k
    BY <2>1, FS_Interval
  <2> QED
    BY <2>1, <2>2, <2>3
<1>3. \A p \in T : Place(sc, p) \in 1 .. k
  BY <1>1, <1>2
<1>4. \A i \in 1 .. k : \E p \in T : Place(sc, p) = i
  <2>1. \A i \in 1 .. k : i \in 1 .. Cardinality(Rows(sc)) /\ i <= k
    BY <1>1
  <2> QED
    BY <1>1, <2>1
<1>5. f \in Surjection(T, 1 .. k)
  <2>1. f \in [T -> 1 .. k]
    BY <1>3
  <2>2. \A i \in 1 .. k : \E p \in T : f[p] = i
    BY <1>4
  <2> HIDE DEF f, T
  <2> QED
    BY <2>1, <2>2 DEF Surjection
<1> HIDE DEF f
<1>6. Cardinality(1 .. k) <= Cardinality(T)
  BY <1>2, <1>5, FS_Surjection
<1> QED
  BY <1>2, <1>6

(* ORDER BY lists every row of the scope, each in its place. *)
LEMMA NewestLemma ==
  ASSUME Table, NEW sc, sc \subseteq Pair
  PROVE  /\ Newest(sc) \in Seq(Rows(sc)) /\ Len(Newest(sc)) = Cardinality(Rows(sc))
         /\ \A p \in Rows(sc) : Newest(sc)[Place(sc, p)] = p
<1> DEFINE n == Cardinality(Rows(sc))
<1>1. /\ n \in Nat
      /\ \A p \in Rows(sc) : Place(sc, p) \in 1 .. n
      /\ \A p, q \in Rows(sc) : Place(sc, p) = Place(sc, q) => p = q
      /\ \A i \in 1 .. n : \E p \in Rows(sc) : Place(sc, p) = i
  BY PlaceLemma
<1> HIDE DEF n
<1>2. Newest(sc) = [i \in 1 .. n |-> CHOOSE p \in Rows(sc) : Place(sc, p) = i]
  BY DEF Newest, n
<1>3. \A i \in 1 .. n : Newest(sc)[i] \in Rows(sc) /\ Place(sc, Newest(sc)[i]) = i
  <2> TAKE i \in 1 .. n
  <2> DEFINE c == CHOOSE p \in Rows(sc) : Place(sc, p) = i
  <2>1. c \in Rows(sc) /\ Place(sc, c) = i
    BY <1>1
  <2>2. Newest(sc)[i] = c
    BY <1>2
  <2> QED
    BY <2>1, <2>2
<1>4. Newest(sc) \in [1 .. n -> Rows(sc)]
  BY <1>2, <1>3
<1>5. Newest(sc) \in Seq(Rows(sc)) /\ Len(Newest(sc)) = n
  BY <1>1, <1>4
<1>6. \A p \in Rows(sc) : Newest(sc)[Place(sc, p)] = p
  BY <1>1, <1>3
<1> QED
  BY <1>5, <1>6 DEF n

(* LIMIT and OFFSET take a piece of the list that begins after offset rows *)
(* and is empty only if there are no more.                                 *)
LEMMA WindowLemma ==
  ASSUME NEW S, NEW list \in Seq(S), offset \in Nat, limit \in Nat \ {0}
  PROVE  /\ Window(list) \in Seq(S)
         /\ offset <= Len(list) => offset + Len(Window(list)) <= Len(list)
         /\ \A i \in 1 .. Len(list) :
              offset < i => \/ list[i] \in ToSet(Window(list))
                            \/ Window(list) # << >> /\ i > offset + Len(Window(list))
<1> DEFINE last == IF offset + limit <= Len(list) THEN offset + limit ELSE Len(list)
           w == Window(list)
<1>1. Len(list) \in Nat /\ \A i \in 1 .. Len(list) : list[i] \in S
  OBVIOUS
<1>2. w = SubSeq(list, offset + 1, last) /\ last \in Nat /\ last <= Len(list)
  <2>1. offset + limit \in Int /\ Len(list) \in Int
    BY <1>1
  <2>2. Min({offset + limit, Len(list)}) = last
    BY <2>1, MinLemma
  <2>3. last \in Nat /\ last <= Len(list)
    BY <1>1
  <2> HIDE DEF last
  <2>4. w = SubSeq(list, offset + 1, last)
    BY <2>2 DEF Window
  <2> QED
    BY <2>3, <2>4
<1>3. last = offset + limit \/ last = Len(list)
  OBVIOUS
<1> HIDE DEF last, w
<1>4. /\ w \in Seq(S) /\ Len(w) = IF offset + 1 <= last THEN last - offset ELSE 0
      /\ \A i \in 1 .. last - offset : w[i] = list[offset + i]
  BY <1>1, <1>2, SubSeqProperties
<1>5. offset <= Len(list) => offset + Len(w) <= Len(list)
  BY <1>1, <1>2, <1>4
<1>6. ASSUME NEW i \in 1 .. Len(list), offset < i
      PROVE  \/ list[i] \in ToSet(w)
             \/ w # << >> /\ i > offset + Len(w)
  <2>1. CASE i <= last
    <3>1. i - offset \in 1 .. Len(w) /\ w[i - offset] = list[i]
      BY <1>1, <1>2, <1>4, <1>6, <2>1
    <3> QED
      BY <1>4, <3>1 DEF ToSet
  <2>2. CASE i > last
    <3>1. last = offset + limit
      BY <1>1, <1>2, <1>3, <2>2
    <3>2. Len(w) = limit
      BY <1>2, <1>4, <3>1
    <3>3. w # << >>
      BY <1>4, <3>2
    <3> QED
      BY <2>2, <3>1, <3>2, <3>3
  <2> QED
    BY <1>1, <1>2, <2>1, <2>2
<1> QED
  BY <1>4, <1>5, <1>6 DEF w

-----------------------------------------------------------------------------
(* An INSERT adds a row, or none, and puts no row nearer to the front. *)
LEMMA InsertStep ==
  ASSUME Table, NEW p \in Pair, Insert(p)
  PROVE  /\ Table'
         /\ \A sc \in SUBSET Pair :
              /\ Rows(sc)' = Rows(sc) \cup ({p} \cap sc)
              /\ \A q \in Rows(sc) : /\ {Place(sc, q), Place(sc, q)'} \subseteq Nat
                                     /\ Place(sc, q)' >= Place(sc, q)
<1>1. /\ rows \in [Pair -> Row] /\ older \subseteq Pair \X Pair
      /\ rows' = [rows EXCEPT ![p] = [number |-> rows[p].number + 1,
                                      status |-> "pending", next |-> "null"]]
      /\ older' \subseteq older
  BY DEF Table, StoreTypeOK, Insert, Create, Put
<1>2. PICK now \in 1 .. MaxTime :
        /\ \A q \in Pair : created[q] # now
        /\ created' = [created EXCEPT ![p] = IF Exists(p) THEN @ ELSE now]
  BY DEF Insert, CreatedAt
<1>3. /\ StoreTypeOK'
      /\ \A q \in Pair : Exists(q)' <=> (Exists(q) \/ q = p)
  <2>1. rows[p] \in Row
    BY <1>1
  <2>2. [number |-> rows[p].number + 1, status |-> "pending", next |-> "null"] \in Row
    BY <2>1 DEF Row
  <2>3. rows' \in [Pair -> Row] /\ rows'[p].status = "pending"
        /\ \A q \in Pair \ {p} : rows'[q] = rows[q]
    BY <1>1, <2>2
  <2> QED
    BY <1>1, <2>3 DEF StoreTypeOK, Exists
<1>4. /\ now \in Nat \ {0} /\ created \in [Pair -> Nat]
      /\ created' \in [Pair -> Nat]
      /\ \A q \in Pair \ {p} : created'[q] = created[q]
      /\ created'[p] = IF Exists(p) THEN created[p] ELSE now
  BY <1>2, AuditAssumption DEF Table
<1>5. \A sc \in SUBSET Pair : Rows(sc)' = Rows(sc) \cup ({p} \cap sc)
  BY <1>3 DEF Rows
<1>6. \A q \in Rows(Pair) : created'[q] = created[q]
  BY <1>4 DEF Rows
<1>7. IsFiniteSet(Rows(Pair))'
  <2>1. Rows(Pair)' = Rows(Pair) \cup {p}
    BY <1>5
  <2> QED
    BY <2>1, FS_AddElement DEF Table
<1>8. \A q, r \in Rows(Pair)' : created'[q] = created'[r] => q = r
  <2>1. \A q \in Rows(Pair)' : q \in Rows(Pair) \/ (q = p /\ ~Exists(p) /\ created'[q] = now)
    BY <1>4, <1>5 DEF Rows
  <2>2. \A q \in Rows(Pair) : created'[q] = created[q] /\ created'[q] # now
    BY <1>2, <1>6 DEF Rows
  <2> QED
    BY <2>1, <2>2 DEF Table
<1>9. \A q \in Pair : created'[q] = 0 <=> ~Exists(q)'
  BY <1>3, <1>4 DEF Table
<1>10. Table'
  BY <1>3, <1>4, <1>7, <1>8, <1>9 DEF Table
<1>11. ASSUME NEW sc \in SUBSET Pair, NEW q \in Rows(sc)
       PROVE  /\ {Place(sc, q), Place(sc, q)'} \subseteq Nat
              /\ Place(sc, q)' >= Place(sc, q)
  <2> DEFINE N == {r \in Rows(sc) : created[r] >= created[q]}
             M == {r \in Rows(sc)' : created'[r] >= created'[q]}
  <2>1. N \subseteq M
    BY <1>5, <1>6, <1>11 DEF Rows
  <2>2. IsFiniteSet(Rows(sc)')
    <3>1. Rows(sc)' \subseteq Rows(Pair)'
      BY DEF Rows
    <3> QED
      BY <1>7, <3>1, FS_Subset
  <2>3. IsFiniteSet(M)
    BY <2>2, FS_Subset
  <2>4. Cardinality(N) <= Cardinality(M)
    BY <2>1, <2>3, FS_Subset
  <2>5. Cardinality(N) \in Nat /\ Cardinality(M) \in Nat
    BY <2>1, <2>3, FS_Subset, FS_CardinalityType
  <2>6. Place(sc, q) = Cardinality(N) /\ Place(sc, q)' = Cardinality(M)
    BY DEF Place
  <2> QED
    BY <2>4, <2>5, <2>6
<1> QED
  BY <1>5, <1>10, <1>11

(* The other steps leave the table alone. *)
LEMMA TableKept ==
  ASSUME Table, UNCHANGED <<storeVars, created>>
  PROVE  /\ Table'
         /\ \A sc \in SUBSET Pair : Rows(sc)' = Rows(sc)
         /\ \A sc \in SUBSET Pair : \A q \in Rows(sc) : Place(sc, q)' = Place(sc, q)
BY DEF Table, StoreTypeOK, Rows, Place, Exists, storeVars

LEMMA TableStep ==
  ASSUME Table, [AuditNext]_auditVars
  PROVE  Table'
<1>1. (\E p \in Pair : Insert(p)) \/ UNCHANGED <<storeVars, created>>
  BY DEF AuditNext, ChangeSubscriptions, StartAudit, OpenRequest, ListPage, LoadUrl,
         LoadUrlFails, Respond, auditVars
<1> QED
  BY <1>1, InsertStep, TableKept

-----------------------------------------------------------------------------
(* What the client has asked for and received. *)
Reading ==
  /\ stage \in {"idle", "open", "list", "load", "done"}
  /\ scope \in SUBSET Pair
  /\ stage # "idle" => limit \in Nat \ {0}
  /\ seen \in Seq(Pair) /\ offset = Len(seen)
  /\ page \in Seq(Pair) /\ ToSet(page) \subseteq Rows(scope)
  /\ loaded \in 0 .. Len(page)
  /\ stage # "load" => page = << >>
  /\ stage = "idle" => scope = {} /\ seen = << >> /\ before = {} /\ inserted = 0

(* What it has still to receive of the rows there were at the beginning. *)
Unseen == before \ (ToSet(seen) \cup ToSet(page))

(* A row is inserted in front of some of the client's rows and behind      *)
(* others, so that what it has not seen is never nearer to the front than  *)
(* its offset; an empty page means that there is nothing beyond that.      *)
Paging ==
  /\ before \subseteq Rows(scope)
  /\ Cardinality(Rows(scope) \ before) = inserted
  /\ offset + Len(page) <= Cardinality(Rows(scope))
  /\ \A p \in before \ ToSet(seen) : Place(scope, p) > offset
  /\ \A p \in Unseen : Place(scope, p) > offset + Len(page)
  /\ stage \in {"load", "done"} /\ page = << >> => Unseen = {}

PagingInv == Table /\ Reading /\ Paging

LEMMA PagingStart ==
  ASSUME AuditInit
  PROVE  PagingInv
<1>1. /\ rows = [p \in Pair |-> NoRow] /\ older = {} /\ created = [p \in Pair |-> 0]
      /\ stage = "idle" /\ scope = {} /\ offset = 0 /\ page = << >> /\ loaded = 0
      /\ seen = << >> /\ before = {} /\ inserted = 0
  BY DEF AuditInit, StoreInit
<1>2. \A p \in Pair : ~Exists(p)
  BY <1>1 DEF NoRow, Exists
<1>3. Rows(Pair) = {} /\ Rows(scope) = {}
  BY <1>1, <1>2 DEF Rows
<1>4. StoreTypeOK
  BY <1>1 DEF StoreTypeOK, NoRow, Row
<1>5. Table
  BY <1>1, <1>2, <1>3, <1>4, FS_EmptySet DEF Table
<1>6. ToSet(page) = {} /\ Len(page) = 0
  BY <1>1 DEF ToSet
<1>7. Reading
  BY <1>1, <1>6 DEF Reading
<1>8. Paging
  BY <1>1, <1>3, <1>6, FS_EmptySet DEF Paging, Unseen
<1> QED
  BY <1>5, <1>7, <1>8 DEF PagingInv

(* What a step makes of the rows of the scope. *)
LEMMA ScopeInsert ==
  ASSUME Table, scope \in SUBSET Pair, NEW p \in Pair, Insert(p)
  PROVE  /\ Rows(scope)' = Rows(scope) \cup ({p} \cap scope)
         /\ \A q \in Rows(scope) : /\ {Place(scope, q), Place(scope, q)'} \subseteq Nat
                                   /\ Place(scope, q)' >= Place(scope, q)
<1>1. scope' = scope
  BY DEF Insert, requestVars
<1>2. PICK sc \in SUBSET Pair : sc = scope
  OBVIOUS
<1>3. Rows(scope)' = Rows(sc)' /\ \A q : Place(scope, q)' = Place(sc, q)'
  BY <1>1, <1>2 DEF Rows, Place
<1>4. Rows(scope) = Rows(sc) /\ \A q : Place(scope, q) = Place(sc, q)
  BY <1>2
<1> QED
  BY <1>2, <1>3, <1>4, InsertStep

LEMMA ScopeKept ==
  ASSUME Table, scope \in SUBSET Pair, UNCHANGED <<storeVars, created, scope>>
  PROVE  /\ Rows(scope)' = Rows(scope)
         /\ \A q \in Rows(scope) : Place(scope, q)' = Place(scope, q)
<1>1. PICK sc \in SUBSET Pair : sc = scope
  OBVIOUS
<1>2. Rows(scope)' = Rows(sc)' /\ \A q : Place(scope, q)' = Place(sc, q)'
  BY <1>1 DEF Rows, Place
<1>3. Rows(scope) = Rows(sc) /\ \A q : Place(scope, q) = Place(sc, q)
  BY <1>1
<1> QED
  BY <1>1, <1>2, <1>3, TableKept

LEMMA PagingInsert ==
  ASSUME PagingInv, NEW p \in Pair, Insert(p)
  PROVE  Reading' /\ Paging'
<1>1. /\ UNCHANGED <<stage, scope, limit, offset, page, loaded, seen, before>>
      /\ inserted' = IF stage # "idle" /\ p \in scope /\ ~Exists(p) THEN inserted + 1 ELSE inserted
  BY DEF Insert, requestVars
<1>2. /\ Rows(scope)' = Rows(scope) \cup ({p} \cap scope)
      /\ \A q \in Rows(scope) : /\ {Place(scope, q), Place(scope, q)'} \subseteq Nat
                                /\ Place(scope, q)' >= Place(scope, q)
  BY ScopeInsert DEF PagingInv, Reading
<1>3. Reading'
  BY <1>1, <1>2 DEF PagingInv, Reading
<1>4. /\ IsFiniteSet(Rows(scope)) /\ IsFiniteSet(Rows(scope)')
      /\ Cardinality(Rows(scope)) \in Nat /\ Cardinality(Rows(scope)') \in Nat
      /\ Cardinality(Rows(scope)) <= Cardinality(Rows(scope)')
  <2>1. IsFiniteSet(Rows(scope))
    BY PlaceLemma DEF PagingInv, Reading
  <2>2. Rows(scope)' = Rows(scope) \/ Rows(scope)' = Rows(scope) \cup {p}
    BY <1>2
  <2>3. IsFiniteSet(Rows(scope)')
    BY <2>1, <2>2, FS_AddElement
  <2> QED
    BY <1>2, <2>1, <2>3, FS_Subset, FS_CardinalityType
<1>5. Cardinality(Rows(scope)' \ before') = inserted'
  <2> DEFINE old == Rows(scope) \ before
  <2>1. IsFiniteSet(old) /\ Cardinality(old) = inserted
    BY <1>4, FS_Subset DEF PagingInv, Paging
  <2>2. CASE p \in scope /\ ~Exists(p)
    <3>1. Rows(scope)' \ before' = old \cup {p} /\ p \notin old
      BY <1>1, <1>2, <2>2 DEF PagingInv, Paging, Rows
    <3>2. inserted' = inserted + 1
      BY <1>1, <2>2 DEF PagingInv, Reading
    <3> QED
      BY <2>1, <3>1, <3>2, FS_AddElement
  <2>3. CASE ~(p \in scope /\ ~Exists(p))
    <3>1. Rows(scope)' = Rows(scope)
      BY <1>2, <2>3 DEF Rows
    <3> QED
      BY <1>1, <2>1, <2>3, <3>1
  <2> QED
    BY <2>2, <2>3
<1>6. /\ before' \subseteq Rows(scope)'
      /\ offset' + Len(page') <= Cardinality(Rows(scope)')
      /\ Unseen' = Unseen
  <2>1. offset + Len(page) \in Nat /\ offset + Len(page) <= Cardinality(Rows(scope))
    BY DEF PagingInv, Reading, Paging
  <2> QED
    BY <1>1, <1>2, <1>4, <2>1 DEF PagingInv, Paging, Unseen
<1>7. \A q \in before' \ ToSet(seen)' : Place(scope, q)' > offset'
  <2>1. offset \in Nat /\ \A q \in before \ ToSet(seen) : q \in Rows(scope) /\ Place(scope, q) > offset
    BY DEF PagingInv, Reading, Paging
  <2>2. \A q \in before \ ToSet(seen) : Place(scope, q)' > offset
    BY <1>2, <2>1
  <2> QED
    BY <1>1, <2>2
<1>8. \A q \in Unseen' : Place(scope, q)' > offset' + Len(page')
  <2>1. /\ offset + Len(page) \in Nat
        /\ \A q \in Unseen : q \in Rows(scope) /\ Place(scope, q) > offset + Len(page)
    BY DEF PagingInv, Reading, Paging, Unseen
  <2>2. \A q \in Unseen : Place(scope, q)' > offset + Len(page)
    BY <1>2, <2>1
  <2> QED
    BY <1>1, <1>6, <2>2
<1>9. stage' \in {"load", "done"} /\ page' = << >> => Unseen' = {}
  BY <1>1, <1>6 DEF PagingInv, Paging
<1> QED
  BY <1>3, <1>5, <1>6, <1>7, <1>8, <1>9 DEF Paging

LEMMA PagingQuiet ==
  ASSUME PagingInv,
         UNCHANGED <<storeVars, created, scope, limit, offset, page, historyVars>>,
         stage' = stage \/ (stage = "open" /\ stage' = "list"), loaded' \in 0 .. Len(page)
  PROVE  Reading' /\ Paging'
<1>1. /\ Rows(scope)' = Rows(scope)
      /\ \A q \in Rows(scope) : Place(scope, q)' = Place(scope, q)
  BY ScopeKept DEF PagingInv, Reading
<1>2. UNCHANGED <<scope, limit, offset, page, seen, before, inserted>> /\ Unseen' = Unseen
  BY DEF historyVars, Unseen
<1>3. Reading'
  BY <1>1, <1>2 DEF PagingInv, Reading
<1>4. Paging'
  <2>1. \A q \in before' \ ToSet(seen)' : Place(scope, q)' > offset'
    BY <1>1, <1>2 DEF PagingInv, Paging
  <2>2. \A q \in Unseen' : Place(scope, q)' > offset' + Len(page')
    BY <1>1, <1>2 DEF PagingInv, Paging, Unseen
  <2> QED
    BY <1>1, <1>2, <2>1, <2>2 DEF PagingInv, Paging
<1> QED
  BY <1>3, <1>4

LEMMA PagingBegins ==
  ASSUME PagingInv, NEW sc \in Scopes, NEW asked \in AskedLimits, StartAudit(sc, asked)
  PROVE  Reading' /\ Paging'
<1>1. sc \in SUBSET Pair
  BY DEF Scopes
<1>2. /\ stage' = "open" /\ scope' = sc /\ limit' = PageSize(asked) /\ before' = Rows(sc)
      /\ UNCHANGED <<storeVars, created, offset, page, loaded, seen, inserted>>
      /\ stage = "idle"
  BY DEF StartAudit
<1>3. /\ seen = << >> /\ page = << >> /\ offset = 0 /\ loaded = 0 /\ inserted = 0
  BY <1>2 DEF PagingInv, Reading
<1>4. PageSize(asked) \in Nat \ {0}
  BY AuditAssumption DEF PageSize, DefaultLimit
<1>5. /\ Rows(scope)' = Rows(sc)
      /\ \A q \in Rows(sc) : Place(scope, q)' = Place(sc, q)
  <2>1. Rows(scope)' = Rows(sc)' /\ \A q : Place(scope, q)' = Place(sc, q)'
    BY <1>2 DEF Rows, Place
  <2> QED
    BY <1>1, <1>2, <2>1, TableKept DEF PagingInv
<1>6. /\ Cardinality(Rows(sc)) \in Nat
      /\ \A q \in Rows(sc) : Place(sc, q) > 0
  BY <1>1, PlaceLemma DEF PagingInv
<1>7. ToSet(<< >>) = {} /\ Len(<< >>) = 0
  BY DEF ToSet
<1>8. Reading'
  BY <1>1, <1>2, <1>3, <1>4, <1>7 DEF Reading
<1>9. Paging'
  <2>1. Unseen' = Rows(sc) /\ before' \ ToSet(seen)' = Rows(sc)
    BY <1>2, <1>3, <1>7 DEF Unseen
  <2>2. Rows(sc) \ Rows(sc) = {} /\ Cardinality({}) = 0
    BY FS_EmptySet
  <2>3. /\ before' = Rows(scope)' /\ inserted' = 0 /\ stage' = "open"
        /\ offset' = 0 /\ page' = << >> /\ offset' + Len(page') = 0
    BY <1>2, <1>3, <1>5, <1>7
  <2>4. \A q \in Rows(sc) : Place(scope, q)' > 0
    BY <1>5, <1>6
  <2>5. Cardinality(Rows(scope)' \ before') = inserted'
    BY <1>2, <1>5, <2>2, <2>3
  <2>6. offset' + Len(page') <= Cardinality(Rows(scope)')
    BY <1>5, <1>6, <2>3
  <2> QED
    BY <2>1, <2>3, <2>4, <2>5, <2>6 DEF Paging
<1> QED
  BY <1>8, <1>9

LEMMA PagingLists ==
  ASSUME PagingInv, ListPage
  PROVE  Reading' /\ Paging'
<1> DEFINE list == Newest(scope)
<1>1. /\ stage = "list" /\ stage' = "load" /\ page' = Window(list) /\ loaded' = 0
      /\ UNCHANGED <<storeVars, created, scope, limit, offset, seen, before, inserted>>
  BY DEF ListPage, historyVars
<1>2. scope \in SUBSET Pair /\ offset \in Nat /\ limit \in Nat \ {0} /\ page = << >>
  BY <1>1 DEF PagingInv, Reading
<1>3. /\ Rows(scope)' = Rows(scope)
      /\ \A q \in Rows(scope) : Place(scope, q)' = Place(scope, q)
  BY <1>1, <1>2, ScopeKept DEF PagingInv
<1>4. /\ list \in Seq(Rows(scope)) /\ Len(list) = Cardinality(Rows(scope))
      /\ \A q \in Rows(scope) : list[Place(scope, q)] = q
  BY <1>2, NewestLemma DEF PagingInv
<1>5. /\ Cardinality(Rows(scope)) \in Nat
      /\ \A q \in Rows(scope) : Place(scope, q) \in 1 .. Cardinality(Rows(scope))
  BY <1>2, PlaceLemma DEF PagingInv
<1> HIDE DEF list
<1>6. ToSet(page) = {} /\ Len(page) = 0
  BY <1>2 DEF ToSet
<1>7. /\ page' \in Seq(Rows(scope))
      /\ offset <= Len(list) => offset + Len(page') <= Len(list)
      /\ \A i \in 1 .. Len(list) :
           offset < i => \/ list[i] \in ToSet(page')
                         \/ page' # << >> /\ i > offset + Len(page')
  BY <1>1, <1>2, <1>4, WindowLemma
<1>8. Reading'
  <2>1. page' \in Seq(Pair)
    BY <1>2, <1>7 DEF Rows
  <2>2. ToSet(page)' \subseteq Rows(scope)
    BY <1>7 DEF ToSet
  <2> QED
    BY <1>1, <1>3, <2>1, <2>2 DEF PagingInv, Reading
<1>9. ASSUME NEW q \in before, q \notin ToSet(seen), q \notin ToSet(page')
      PROVE  page' # << >> /\ Place(scope, q) > offset + Len(page')
  <2>1. q \in Rows(scope) /\ Place(scope, q) > offset
    BY <1>9 DEF PagingInv, Paging
  <2> QED
    BY <1>2, <1>4, <1>5, <1>7, <1>9, <2>1
<1>10. Paging'
  <2>1. offset' + Len(page') <= Cardinality(Rows(scope)')
    BY <1>1, <1>2, <1>3, <1>4, <1>5, <1>6, <1>7 DEF PagingInv, Paging
  <2>2. \A q \in before' \ ToSet(seen)' : Place(scope, q)' > offset'
    BY <1>1, <1>3 DEF PagingInv, Paging
  <2>3. \A q \in Unseen' : page' # << >> /\ Place(scope, q)' > offset' + Len(page')
    BY <1>1, <1>3, <1>9 DEF PagingInv, Paging, Unseen
  <2> QED
    BY <1>1, <1>3, <2>1, <2>2, <2>3 DEF PagingInv, Paging
<1> QED
  BY <1>8, <1>10

LEMMA PagingResponds ==
  ASSUME PagingInv, Respond
  PROVE  Reading' /\ Paging'
<1>1. /\ stage = "load" /\ seen' = seen \o page /\ offset' = offset + Len(page)
      /\ stage' = (IF page = << >> THEN "done" ELSE "open") /\ page' = << >> /\ loaded' = 0
      /\ UNCHANGED <<storeVars, created, scope, limit, before, inserted>>
  BY DEF Respond
<1>2. seen \in Seq(Pair) /\ page \in Seq(Pair) /\ offset = Len(seen)
  BY DEF PagingInv, Reading
<1>3. /\ seen' \in Seq(Pair) /\ offset' = Len(seen')
      /\ ToSet(seen)' = ToSet(seen) \cup ToSet(page)
  BY <1>1, <1>2, ConcatenationLemma
<1>4. ToSet(page)' = {} /\ Len(page') = 0
  BY <1>1 DEF ToSet
<1>5. /\ Rows(scope)' = Rows(scope)
      /\ \A q \in Rows(scope) : Place(scope, q)' = Place(scope, q)
  BY <1>1, ScopeKept DEF PagingInv, Reading
<1>6. Reading'
  BY <1>1, <1>3, <1>4, <1>5 DEF PagingInv, Reading
<1>7. Unseen' = Unseen /\ before' \ ToSet(seen)' = Unseen
  BY <1>1, <1>3, <1>4 DEF Unseen
<1>8. offset' + Len(page') = offset + Len(page) /\ offset' = offset + Len(page)
  BY <1>1, <1>2, <1>4
<1>9. \A q \in Unseen : Place(scope, q)' > offset + Len(page)
  BY <1>5 DEF PagingInv, Paging, Unseen
<1>10. stage' \in {"load", "done"} => Unseen = {}
  BY <1>1 DEF PagingInv, Paging
<1> QED
  BY <1>1, <1>5, <1>6, <1>7, <1>8, <1>9, <1>10 DEF PagingInv, Paging

LEMMA PagingStep ==
  ASSUME PagingInv, [AuditNext]_auditVars
  PROVE  PagingInv'
<1> SUFFICES Reading' /\ Paging'
  BY TableStep DEF PagingInv
<1> DEFINE same == <<storeVars, created, scope, limit, offset, page, historyVars>>
<1>1. CASE (\E h \in Handler : ChangeSubscriptions(h)) \/ UNCHANGED auditVars
  <2>1. UNCHANGED same /\ stage' = stage /\ loaded' = loaded
    BY <1>1 DEF ChangeSubscriptions, requestVars, auditVars
  <2>2. loaded' \in 0 .. Len(page)
    BY <2>1 DEF PagingInv, Reading
  <2> QED
    BY <2>1, <2>2, PagingQuiet
<1>2. CASE OpenRequest
  <2>1. /\ loaded' \in 0 .. Len(page)
        /\ stage' = stage \/ (stage = "open" /\ stage' = "list")
    BY <1>2 DEF OpenRequest, PagingInv, Reading
  <2>2. UNCHANGED same
    BY <1>2 DEF OpenRequest
  <2> QED
    BY <2>1, <2>2, PagingQuiet
<1>3. CASE LoadUrl \/ LoadUrlFails
  <2>1. /\ loaded' \in 0 .. Len(page)
        /\ stage' = stage \/ (stage = "open" /\ stage' = "list")
    BY <1>3 DEF LoadUrl, LoadUrlFails, PagingInv, Reading
  <2>2. UNCHANGED same
    BY <1>3 DEF LoadUrl, LoadUrlFails
  <2> QED
    BY <2>1, <2>2, PagingQuiet
<1> HIDE DEF same
<1> QED
  BY <1>1, <1>2, <1>3, PagingInsert, PagingBegins, PagingLists, PagingResponds
     DEF AuditNext

LEMMA PagingInvariant == AuditSpec => []PagingInv
<1>1. AuditInit => PagingInv
  BY PagingStart
<1>2. PagingInv /\ [AuditNext]_auditVars => PagingInv'
  BY PagingStep
<1> QED
  BY <1>1, <1>2, PTL DEF AuditSpec

(* Paging with OFFSET to an empty page misses no row that was there at the *)
(* first request, whatever is inserted between the pages.                  *)
THEOREM NothingMissed == AuditSpec => []PagesMissNothing
<1>1. PagingInv => PagesMissNothing
  BY DEF PagingInv, Reading, Paging, Unseen, PagesMissNothing, ToSet
<1> QED
  BY <1>1, PagingInvariant, PTL

(* A row is shown twice no more often than rows came in: the newest rows,  *)
(* as many as were shown, were shown or came in since.                     *)
THEOREM RepeatsBounded == AuditSpec => []RepeatsAreInserts
<1>1. ASSUME PagingInv
      PROVE  RepeatsAreInserts
  <2> DEFINE top == {p \in Rows(scope) : Place(scope, p) <= offset}
             new == Rows(scope) \ before
             got == ToSet(seen)
  <2>1. /\ scope \in SUBSET Pair /\ offset = Len(seen) /\ seen \in Seq(Pair) /\ offset \in Nat
        /\ offset <= Cardinality(Rows(scope)) /\ Cardinality(Rows(scope)) \in Nat
        /\ IsFiniteSet(Rows(scope))
    BY <1>1, PlaceLemma DEF PagingInv, Reading, Paging
  <2>2. offset <= Cardinality(top)
    BY <1>1, <2>1, TopLemma DEF PagingInv
  <2>3. top \subseteq got \cup new
    <3>1. \A p \in before \ got : Place(scope, p) > offset /\ Place(scope, p) \in Nat
      BY <1>1, <2>1, PlaceLemma DEF PagingInv, Paging
    <3> QED
      BY <2>1, <3>1
  <2>4. IsFiniteSet(new) /\ Cardinality(new) = inserted /\ inserted \in Nat
    <3>1. IsFiniteSet(new) /\ Cardinality(new) \in Nat
      BY <2>1, FS_Subset, FS_CardinalityType
    <3> QED
      BY <1>1, <3>1 DEF PagingInv, Paging
  <2>5. IsFiniteSet(got) /\ Cardinality(got) \in Nat
    <3>1. seen \in Surjection(1 .. Len(seen), got)
      <4>1. seen \in [1 .. Len(seen) -> got] /\ \A x \in got : \E i \in 1 .. Len(seen) : seen[i] = x
        BY <2>1 DEF ToSet
      <4> QED
        BY <4>1 DEF Surjection
    <3>2. IsFiniteSet(1 .. Len(seen))
      BY <2>1, FS_Interval
    <3> QED
      BY <3>1, <3>2, FS_Surjection, FS_CardinalityType
  <2> HIDE DEF top, new, got
  <2>6. IsFiniteSet(got \cup new) /\ Cardinality(got \cup new) <= Cardinality(got) + inserted
    <3>1. /\ IsFiniteSet(got \cup new)
          /\ Cardinality(got \cup new) = Cardinality(got) + Cardinality(new)
                                         - Cardinality(got \cap new)
      BY <2>4, <2>5, FS_Union
    <3>2. Cardinality(got \cap new) \in Nat
      BY <2>5, FS_Intersection, FS_CardinalityType
    <3> QED
      BY <2>4, <2>5, <3>1, <3>2
  <2>7. Cardinality(top) <= Cardinality(got \cup new) /\ Cardinality(top) \in Nat
        /\ Cardinality(got \cup new) \in Nat
    BY <2>3, <2>6, FS_Subset, FS_CardinalityType
  <2>8. offset - Cardinality(got) <= inserted
    BY <2>1, <2>2, <2>4, <2>5, <2>6, <2>7
  <2> QED
    BY <2>1, <2>8 DEF RepeatsAreInserts, got
<1> QED
  BY <1>1, PagingInvariant, PTL

-----------------------------------------------------------------------------
(* No row is without a subscription, which DELETE leaves in its table. *)
Known ==
  /\ SubsTypeOK
  /\ \A p \in Pair : Exists(p) => subs[p[2]].state # "absent"

LEMMA SubsKnown ==
  ASSUME SubsTypeOK, NEW h \in Handler, SubsStep(h)
  PROVE  /\ SubsTypeOK'
         /\ \A s \in Sub : subs[s].state # "absent" => subs'[s].state # "absent"
<1>1. /\ subs \in [Sub -> SubRow] /\ put \in [Handler -> PutCopy \cup {None}]
      /\ \A s \in Sub : subs[s] \in SubRow
  BY DEF SubsTypeOK
<1>2. ASSUME NEW s \in Sub, NEW b \in Body, CreateSubscription(s, b)
      PROVE  /\ SubsTypeOK'
             /\ \A t \in Sub : subs[t].state # "absent" => subs'[t].state # "absent"
  BY <1>1, <1>2 DEF CreateSubscription, SubsTypeOK, SubRow
<1>3. ASSUME NEW s \in Sub, NEW b \in Body, BeginUpdate(h, s, b)
      PROVE  /\ SubsTypeOK'
             /\ \A t \in Sub : subs[t].state # "absent" => subs'[t].state # "absent"
  <2>1. [sub |-> s, state |-> subs[s].state, body |-> b] \in PutCopy
    BY <1>1, <1>3 DEF BeginUpdate, SubRow, PutCopy
  <2> QED
    BY <1>1, <1>3, <2>1 DEF BeginUpdate, SubsTypeOK
<1>4. ASSUME NEW s \in Sub, DeleteSubscription(s)
      PROVE  /\ SubsTypeOK'
             /\ \A t \in Sub : subs[t].state # "absent" => subs'[t].state # "absent"
  <2>1. [subs[s] EXCEPT !.state = "inactive"] \in SubRow
    BY <1>1 DEF SubRow
  <2>2. /\ subs' = [subs EXCEPT ![s] = [subs[s] EXCEPT !.state = "inactive"]]
        /\ put' = put
    BY <1>1, <1>4 DEF DeleteSubscription
  <2>3. [subs[s] EXCEPT !.state = "inactive"].state = "inactive"
    BY <1>1 DEF SubRow
  <2> QED
    BY <1>1, <2>1, <2>2, <2>3 DEF SubsTypeOK
<1>5. CASE FinishUpdate(h)
  <2>1. put[h] \in PutCopy
    BY <1>1, <1>5 DEF FinishUpdate
  <2> QED
    BY <1>1, <1>5, <2>1 DEF FinishUpdate, SubsTypeOK, SubRow, PutCopy
<1>6. CASE AbortUpdate(h)
  BY <1>1, <1>6 DEF AbortUpdate, SubsTypeOK
<1> QED
  BY <1>2, <1>3, <1>4, <1>5, <1>6 DEF SubsStep

LEMMA KnownStep ==
  ASSUME PagingInv, Known, [AuditNext]_auditVars
  PROVE  Known'
<1>1. ASSUME NEW p \in Pair, Insert(p)
      PROVE  Known'
  <2>1. UNCHANGED subVars /\ subs[p[2]].state # "absent"
    BY <1>1 DEF Insert
  <2>2. \A q \in Pair : Exists(q)' => Exists(q) \/ q = p
    <3>1. Rows(Pair)' = Rows(Pair) \cup {p}
      BY <1>1, InsertStep DEF PagingInv
    <3> QED
      BY <3>1 DEF Rows
  <2> QED
    BY <2>1, <2>2 DEF Known, SubsTypeOK, subVars
<1>2. ASSUME NEW h \in Handler, ChangeSubscriptions(h)
      PROVE  Known'
  <2>1. /\ SubsTypeOK'
        /\ \A s \in Sub : subs[s].state # "absent" => subs'[s].state # "absent"
    BY <1>2, SubsKnown DEF ChangeSubscriptions, Known
  <2>2. \A q \in Pair : q[2] \in Sub /\ (Exists(q)' <=> Exists(q))
    BY <1>2 DEF ChangeSubscriptions, storeVars, Exists, Pair
  <2> QED
    BY <2>1, <2>2 DEF Known
<1>3. CASE UNCHANGED <<storeVars, subVars>>
  BY <1>3 DEF Known, SubsTypeOK, Exists, storeVars, subVars
<1> QED
  BY <1>1, <1>2, <1>3
     DEF AuditNext, StartAudit, OpenRequest, ListPage, LoadUrl, LoadUrlFails, Respond, auditVars

(* The rows of the page whose lookup has not failed have their URL. *)
Shown == FaultTypeOK /\ UrlsAreFound

LEMMA ShownStep ==
  ASSUME PagingInv, Known, Shown, [AuditNext]_auditVars
  PROVE  Shown'
<1>1. faults \in 0 .. MaxFaults /\ MaxFaults \in Nat /\ loaded \in Nat
  BY FaultsAssumption DEF Shown, FaultTypeOK, PagingInv, Reading
<1>2. CASE UNCHANGED <<faults, page, loaded, urls>>
  BY <1>2 DEF Shown, FaultTypeOK, UrlsAreFound
<1>3. CASE loaded' = 0 /\ UNCHANGED faults
  BY <1>3 DEF Shown, FaultTypeOK, UrlsAreFound
<1>4. CASE LoadUrl
  <2> DEFINE s == page[loaded + 1][2]
  <2>1. /\ loaded' = loaded + 1 /\ UNCHANGED <<faults, page>>
        /\ urls' = IF s \in urls THEN urls ELSE urls \cup Find(s)
        /\ loaded < Len(page)
    BY <1>4 DEF LoadUrl
  <2>2. page[loaded + 1] \in Rows(scope)
    <3>1. loaded + 1 \in DOMAIN page
      BY <1>1, <2>1 DEF PagingInv, Reading
    <3> QED
      BY <3>1 DEF PagingInv, Reading, ToSet
  <2>3. s \in urls'
    <3>1. subs[s].state # "absent"
      BY <2>2 DEF Known, Rows, PagingInv, Reading
    <3> QED
      BY <2>1, <3>1 DEF Find
  <2>4. \A i \in 1 .. loaded + 1 : i \in 1 .. loaded \/ i = loaded + 1
    BY <1>1
  <2> HIDE DEF s
  <2>5. \A i \in 1 .. loaded : faults = 0 => page[i][2] \in urls'
    BY <2>1 DEF Shown, UrlsAreFound
  <2> QED
    BY <1>1, <2>1, <2>3, <2>4, <2>5 DEF Shown, FaultTypeOK, UrlsAreFound, s
<1>5. CASE LoadUrlFails
  BY <1>1, <1>5 DEF LoadUrlFails, Fault, Shown, FaultTypeOK, UrlsAreFound
<1>6. CASE OpenRequest
  <2>1. loaded' = 0 /\ UNCHANGED faults
    BY <1>6 DEF OpenRequest, PagingInv, Reading
  <2> QED
    BY <1>3, <2>1
<1> QED
  BY <1>2, <1>3, <1>4, <1>5, <1>6
     DEF AuditNext, Insert, ChangeSubscriptions, StartAudit, ListPage, Respond,
         requestVars, auditVars

(* Where no lookup fails, every row is shown with its subscription's URL,  *)
(* that of a deleted subscription included.                                *)
THEOREM UrlsFound == AuditSpec => []UrlsAreFound
<1>1. AuditInit => Known /\ Shown
  <2> SUFFICES ASSUME AuditInit PROVE Known /\ Shown
    OBVIOUS
  <2>1. SubsTypeOK
    BY DEF AuditInit, SubsInit, SubsTypeOK, SubRow, Absent
  <2>2. \A p \in Pair : ~Exists(p)
    BY DEF AuditInit, StoreInit, NoRow, Exists
  <2>3. faults = 0 /\ loaded = 0 /\ MaxFaults \in Nat
    BY FaultsAssumption DEF AuditInit, FaultInit
  <2> QED
    BY <2>1, <2>2, <2>3 DEF Known, Shown, FaultTypeOK, UrlsAreFound
<1>2. PagingInv /\ Known /\ Shown /\ [AuditNext]_auditVars => (Known /\ Shown)'
  BY KnownStep, ShownStep
<1>3. Shown => UrlsAreFound
  BY DEF Shown
<1> QED
  BY <1>1, <1>2, <1>3, PagingInvariant, PTL DEF AuditSpec
=============================================================================
