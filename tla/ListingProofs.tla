----------------------------- MODULE ListingProofs -----------------------------
(***************************************************************************)
(* Theorems about Listing, for every collection, page size, pattern and    *)
(* number of changes: a walk lists each document once and in order.        *)
(***************************************************************************)
EXTENDS Listing, FiniteSetTheorems, TLAPS

USE ListingType, DocsFinite

-----------------------------------------------------------------------------
(* Pages. *)

LEMMA MinOfTwo ==
    ASSUME NEW a \in Int, NEW b \in Int
    PROVE  Min({a, b}) = IF a <= b THEN a ELSE b
<1> DEFINE m == IF a <= b THEN a ELSE b
<1>1. m \in {a, b} /\ \A y \in {a, b} : m =< y
  OBVIOUS
<1>2. \A x \in {a, b} : (\A y \in {a, b} : x =< y) => x = m
  OBVIOUS
<1> QED
  BY <1>1, <1>2 DEF Min

LEMMA MaxOfTwo ==
    ASSUME NEW a \in Int, NEW b \in Int
    PROVE  Max({a, b}) = IF a >= b THEN a ELSE b
<1> DEFINE m == IF a >= b THEN a ELSE b
<1>1. m \in {a, b} /\ \A y \in {a, b} : m >= y
  OBVIOUS
<1>2. \A x \in {a, b} : (\A y \in {a, b} : x >= y) => x = m
  OBVIOUS
<1> QED
  BY <1>1, <1>2 DEF Max

LEMMA Places ==
    ASSUME query \in Queries, page \in Nat \ {0}
    PROVE  /\ Skip \in Nat /\ Limit \in 1..100 /\ End \in Nat
           /\ End = Skip + Limit /\ Skip <= End
           /\ Limit = query.perPage
<1>1. query.perPage \in PageSizes
  BY DEF Queries
<1>2. PICK k \in 1..100 : k = query.perPage
  BY <1>1
<1>3. PICK n \in Nat : page = n + 1
  <2>1. page - 1 \in Nat /\ page = (page - 1) + 1
    OBVIOUS
  <2> QED
    BY <2>1
<1>4. PICK m \in Nat : m = n * k
  OBVIOUS
<1>5. (n + 1) * k = m + k
  BY <1>4
<1>6. Skip = m /\ End = m + k /\ Limit = k
  <2>1. page - 1 = n
    BY <1>3
  <2> QED
    BY <1>2, <1>3, <1>4, <1>5, <2>1, Zenon DEF Skip, End, Limit
<1> HIDE DEF Skip, End, Limit
<1> QED
  BY <1>2, <1>6

LEMMA Rows ==
    ASSUME query \in Queries, page \in Nat \ {0}, NEW n \in Nat
    PROVE  /\ RowsOf(n) \in 0..Limit
           /\ RowsOf(n) = IF n <= Skip THEN 0 ELSE IF n <= End THEN n - Skip ELSE Limit
<1>1. /\ Skip \in Nat /\ Limit \in 1..100 /\ End = Skip + Limit
  BY Places
<1> HIDE DEF Skip, Limit, End
<1>2. Max({0, n - Skip}) = IF 0 >= n - Skip THEN 0 ELSE n - Skip
  BY <1>1, MaxOfTwo
<1>3. PICK m \in Nat : m = Max({0, n - Skip})
  BY <1>1, <1>2
<1>4. Min({Limit, m}) = IF Limit <= m THEN Limit ELSE m
  BY <1>1, MinOfTwo
<1> QED
  BY <1>1, <1>2, <1>3, <1>4 DEF RowsOf

-----------------------------------------------------------------------------
(* The order of a collection. *)

Collections == [Docs -> {Absent} \cup [key: 1..MaxKey, state: States]]

LEMMA KeysAreNumbers ==
    ASSUME NEW c \in Collections, NEW d \in Docs
    PROVE  c[d].key \in 0..MaxKey
<1>1. c[d] \in {Absent} \cup [key: 1..MaxKey, state: States]
  BY DEF Collections
<1> QED
  BY <1>1 DEF Absent

LEMMA FinitePlaces ==
    ASSUME NEW c, NEW d
    PROVE  /\ IsFiniteSet(MatchingIn(c)) /\ Cardinality(MatchingIn(c)) \in Nat
           /\ Cardinality(MatchingIn(c)) <= Cardinality(Docs)
           /\ IsFiniteSet(Before(c, d)) /\ Place(c, d) \in Nat
<1>1. MatchingIn(c) \in SUBSET Docs /\ Before(c, d) \in SUBSET Docs
  BY DEF MatchingIn, Before
<1> QED
  BY <1>1, FS_Subset, FS_CardinalityType DEF Place

\* Who comes earlier has the lower place.
LEMMA PlacesFollowKeys ==
    ASSUME NEW c \in Collections, NEW d \in Docs, NEW e \in Docs
    PROVE  /\ c[d].key <= c[e].key => Place(c, d) <= Place(c, e)
           /\ d \in MatchingIn(c) /\ c[d].key < c[e].key => Place(c, d) < Place(c, e)
<1>1. \A x \in Docs : c[x].key \in Nat
  BY KeysAreNumbers
<1>2. IsFiniteSet(Before(c, e)) /\ Place(c, e) \in Nat /\ Place(c, d) \in Nat
  BY FinitePlaces
<1>3. ASSUME c[d].key <= c[e].key PROVE Place(c, d) <= Place(c, e)
  <2>1. Before(c, d) \in SUBSET Before(c, e)
    BY <1>1, <1>3 DEF Before, MatchingIn
  <2> QED
    BY <1>2, <2>1, FS_Subset DEF Place
<1>4. ASSUME d \in MatchingIn(c), c[d].key < c[e].key PROVE Place(c, d) < Place(c, e)
  <2>1. Before(c, d) \in SUBSET (Before(c, e) \ {d}) /\ d \in Before(c, e)
    BY <1>1, <1>4 DEF Before, MatchingIn
  <2>2. /\ IsFiniteSet(Before(c, e) \ {d})
        /\ Cardinality(Before(c, e) \ {d}) = Cardinality(Before(c, e)) - 1
    BY <1>2, <2>1, FS_RemoveElement
  <2>3. Cardinality(Before(c, d)) <= Cardinality(Before(c, e) \ {d})
    BY <2>1, <2>2, FS_Subset
  <2> QED
    BY <1>2, <2>2, <2>3 DEF Place
<1> QED
  BY <1>3, <1>4

\* Documents of different keys have places below the number of documents.
LEMMA PlaceBelowCount ==
    ASSUME NEW c \in Collections, NEW d \in MatchingIn(c)
    PROVE  Place(c, d) < Cardinality(MatchingIn(c))
<1>1. c[d].key \in Nat /\ d \in Docs
  BY KeysAreNumbers DEF MatchingIn
<1>2. Before(c, d) \in SUBSET (MatchingIn(c) \ {d})
  BY <1>1 DEF Before
<1>3. IsFiniteSet(MatchingIn(c)) /\ Cardinality(MatchingIn(c)) \in Nat /\ Place(c, d) \in Nat
  BY FinitePlaces
<1>4. /\ IsFiniteSet(MatchingIn(c) \ {d})
      /\ Cardinality(MatchingIn(c) \ {d}) = Cardinality(MatchingIn(c)) - 1
  BY <1>3, FS_RemoveElement
<1>5. Place(c, d) <= Cardinality(MatchingIn(c) \ {d})
  BY <1>2, <1>4, FS_Subset DEF Place
<1> QED
  BY <1>3, <1>4, <1>5

\* When no two keys are equal, the sort has one result: each document at its place.
LEMMA SortedByPlace ==
    ASSUME docs \in Collections, NEW s \in Sorted, ~Tied(docs)
    PROVE  /\ \A i \in 1..Len(s) : s[i] \in Matching /\ Place(docs, s[i]) = i - 1
           /\ \A i, j \in 1..Len(s) : i < j => docs[s[i]].key < docs[s[j]].key
           /\ \A d \in Matching : \E i \in 1..Len(s) : s[i] = d
<1> DEFINE n == Cardinality(Matching)
<1>1. IsFiniteSet(Matching) /\ n \in Nat
  BY FinitePlaces DEF Matching
<1>2. /\ s \in [1..n -> Matching]
      /\ \A i, j \in 1..n : i # j => s[i] # s[j]
  BY DEF Sorted, SetToSeqs
<1>3. Len(s) = n
  BY <1>1, <1>2
<1>4. \A d \in Matching : d \in Docs /\ docs[d].key \in Nat
  BY KeysAreNumbers DEF Matching, MatchingIn
<1>5. \A i, j \in 1..n : i < j => docs[s[i]].key <= docs[s[j]].key
  BY <1>3 DEF Sorted, IsSorted, InOrder
<1>6. \A i, j \in 1..n : i < j => docs[s[i]].key < docs[s[j]].key
  BY <1>1, <1>2, <1>4, <1>5 DEF Tied, Matching
<1>7. \A d \in Matching : \E i \in 1..n : s[i] = d
  <2>1. s \in Injection(1..n, Matching)
    BY <1>2 DEF Injection, IsInjective
  <2>2. Cardinality(1..n) = n
    BY <1>1, FS_Interval
  <2>3. s \in Surjection(1..n, Matching)
    BY <1>1, <2>1, <2>2, FS_Injection
  <2> QED
    BY <2>3 DEF Surjection
<1>8. ASSUME NEW i \in 1..n PROVE Place(docs, s[i]) = i - 1
  <2> DEFINE S == 1..(i - 1)
             f == [j \in S |-> s[j]]
             B == Before(docs, s[i])
  <2>1. f \in [S -> B]
    <3> SUFFICES ASSUME NEW j \in S PROVE s[j] \in B
      OBVIOUS
    <3>1. j \in 1..n /\ j < i
      BY <1>1
    <3>2. s[j] \in Matching /\ docs[s[j]].key < docs[s[i]].key
      BY <1>2, <1>6, <3>1
    <3> QED
      BY <3>2 DEF Before, Matching
  <2>2. \A j, k \in S : f[j] = f[k] => j = k
    BY <1>1, <1>2
  <2>3. \A d \in B : \E j \in S : f[j] = d
    <3> SUFFICES ASSUME NEW d \in B PROVE \E j \in S : f[j] = d
      OBVIOUS
    <3>1. d \in Matching /\ docs[d].key < docs[s[i]].key
      BY DEF Before, Matching
    <3>2. PICK j \in 1..n : s[j] = d
      BY <1>7, <3>1
    <3>3. ~(i < j) /\ i # j
      BY <1>1, <1>2, <1>4, <1>6, <3>1, <3>2
    <3> QED
      BY <1>1, <3>2, <3>3
  <2>4. f \in Bijection(S, B)
    BY <2>1, <2>2, <2>3 DEF Bijection, Injection, Surjection, IsInjective
  <2>5. IsFiniteSet(S) /\ Cardinality(S) = i - 1
    <3>1. i \in Int /\ i >= 1 /\ 1 \in Int /\ i - 1 \in Int
      BY <1>1
    <3>2. /\ IsFiniteSet(1..(i - 1))
          /\ Cardinality(1..(i - 1)) = IF 1 > i - 1 THEN 0 ELSE (i - 1) - 1 + 1
      BY <3>1, FS_Interval
    <3> QED
      BY <3>1, <3>2
  <2>6. Cardinality(B) = i - 1
    BY <2>4, <2>5, FS_Bijection DEF ExistsBijection
  <2> QED
    BY <2>6 DEF Place
<1> QED
  BY <1>2, <1>3, <1>6, <1>7, <1>8

-----------------------------------------------------------------------------
(* What one query of the page returns. *)

LEMMA MatchingKeys ==
    ASSUME docs \in Collections, NEW d \in Matching
    PROVE  d \in Docs /\ docs[d].key \in 1..MaxKey
<1>1. d \in Docs /\ docs[d] \in {Absent} \cup [key: 1..MaxKey, state: States]
  BY DEF Collections, Matching, MatchingIn
<1>2. docs[d].state # "absent"
  BY DEF Matching, MatchingIn, Matches
<1>3. docs[d] # Absent
  BY <1>2 DEF Absent
<1> QED
  BY <1>1, <1>3

LEMMA PageRows ==
    ASSUME query \in Queries, page \in Nat \ {0}, docs \in Collections, NEW s \in Sorted
    PROVE  /\ Page(s) \in Seq(Row) /\ Len(Page(s)) = RowsOf(Cardinality(Matching))
           /\ Len(s) = Cardinality(Matching)
           /\ \A i \in DOMAIN Page(s) :
                 /\ i \in 1..RowsOf(Len(s)) /\ i \in 1..Limit
                 /\ Skip + i \in 1..Len(s)
                 /\ Page(s)[i] = [id |-> s[Skip + i], key |-> docs[s[Skip + i]].key]
<1> DEFINE n == Cardinality(Matching)
           m == RowsOf(n)
<1>1. IsFiniteSet(Matching) /\ n \in Nat
  BY FinitePlaces DEF Matching
<1>2. s \in [1..n -> Matching] /\ Len(s) = n
  BY <1>1 DEF Sorted, SetToSeqs
<1>3. Skip \in Nat /\ Limit \in 1..100 /\ End = Skip + Limit
  BY Places
<1>4. m \in 0..Limit /\ m = IF n <= Skip THEN 0 ELSE IF n <= End THEN n - Skip ELSE Limit
  BY <1>1, Rows
<1> HIDE DEF n, m, Skip, Limit, End
<1>5. \A i \in 1..m : Skip + i \in 1..n
  BY <1>1, <1>3, <1>4
<1>6. Page(s) = [i \in 1..m |-> [id |-> s[Skip + i], key |-> docs[s[Skip + i]].key]]
  BY <1>2 DEF Page, m
<1>7. \A i \in 1..m : [id |-> s[Skip + i], key |-> docs[s[Skip + i]].key] \in Row
  <2> SUFFICES ASSUME NEW i \in 1..m
               PROVE  [id |-> s[Skip + i], key |-> docs[s[Skip + i]].key] \in Row
    OBVIOUS
  <2>1. s[Skip + i] \in Matching
    BY <1>2, <1>5
  <2>2. s[Skip + i] \in Docs /\ docs[s[Skip + i]].key \in 1..MaxKey
    BY <2>1, MatchingKeys
  <2> QED
    BY <2>2 DEF Row
<1>8. m \in Nat
  BY <1>3, <1>4
<1>9. Page(s) \in [1..m -> Row]
  BY <1>6, <1>7
<1>10. Page(s) \in Seq(Row) /\ Len(Page(s)) = m /\ DOMAIN Page(s) = 1..m
  BY <1>8, <1>9
<1>11. \A i \in 1..m : i \in 1..Limit
  BY <1>3, <1>4
<1> QED
  BY <1>2, <1>5, <1>6, <1>10, <1>11 DEF n, m

-----------------------------------------------------------------------------
(* Type correctness. *)

LEMMA NoRows == <<>> \in Seq(Row) /\ Len(<<>>) = 0 /\ DOMAIN <<>> = {}
  OBVIOUS

Typed == TypeOK /\ OnlyExecutionsStart

LEMMA TypedInit == Init => Typed
<1> SUFFICES ASSUME Init PROVE Typed
  OBVIOUS
<1>1. query \in Queries /\ clock \in 1..MaxKey
  BY DEF Init
<1>2. docs \in [Docs -> {Absent} \cup [key: 1..MaxKey, state: States]]
  <2>1. docs \in [Docs -> {Absent} \cup [key: 1..clock, state: States]]
    BY DEF Init
  <2>2. [key: 1..clock, state: States] \subseteq [key: 1..MaxKey, state: States]
    BY <1>1
  <2> QED
    BY <2>1, <2>2
<1>3. born \in [Docs -> 0..MaxKey] /\ \A d \in Docs : born[d] = 0
  BY DEF Init
<1>4. Cardinality(Docs) \in Nat
  BY FS_CardinalityType
<1>5. query.perPage \in 1..100
  BY <1>1 DEF Queries
<1>6. rows \in Seq(Row) /\ Len(rows) <= query.perPage
  <2>1. rows = <<>>
    BY DEF Init
  <2>2. rows \in Seq(Row) /\ Len(rows) = 0
    BY <2>1, NoRows, Zenon
  <2>3. 0 <= query.perPage
    BY <1>5
  <2> QED
    BY <2>2, <2>3, Zenon
<1>7. items \in Seq(Row)
  <2>1. items = <<>>
    BY DEF Init
  <2> QED
    BY <2>1, NoRows
<1>8. page \in Nat \ {0} /\ awaited \subseteq Both /\ more \in BOOLEAN
  BY DEF Init
<1>9. total \in 0..Cardinality(Docs)
  BY <1>4 DEF Init
<1> QED
  BY <1>1, <1>2, <1>3, <1>6, <1>7, <1>8, <1>9 DEF Typed, TypeOK, OnlyExecutionsStart

-----------------------------------------------------------------------------
(* What others write. *)

Documents == [key: 1..MaxKey, state: States]

\* doc is written for d: in a list of all executions, at the end or in its place, as
\* long as insertions keep the order of their creation times.
Puts(d, doc) ==
    /\ Write(d, doc)
    /\ UNCHANGED <<born, clock>>
    /\ overtaken => overtaken'
    /\ AllExecutions /\ ~overtaken' =>
          IF docs[d] = Absent THEN \A e \in Docs : docs[e].key < doc.key
          ELSE doc.key = docs[d].key

LEMMA Writers ==
    ASSUME Typed, NEW d \in Docs,
           CreatePart(d) \/ EditPart(d) \/ InsertExecution(d) \/ MoveExecution(d)
    PROVE  \E doc \in Documents : Puts(d, doc)
<1>1. query \in Queries /\ docs \in Collections
  BY DEF Typed, TypeOK, Collections
<1>2. CASE CreatePart(d)
  <2>1. PICK k \in 1..MaxKey : Write(d, [key |-> k, state |-> "live"])
    BY <1>2 DEF CreatePart
  <2>2. [key |-> k, state |-> "live"] \in Documents
    BY <1>2 DEF CreatePart, States, Documents
  <2>3. ~AllExecutions /\ UNCHANGED <<born, clock, overtaken>>
    BY <1>2 DEF CreatePart, AllExecutions
  <2> QED
    BY <2>1, <2>2, <2>3, Zenon DEF Puts
<1>3. CASE EditPart(d)
  <2>1. PICK k \in 1..MaxKey, s \in States : Write(d, [key |-> k, state |-> s])
    BY <1>3 DEF EditPart
  <2>2. [key |-> k, state |-> s] \in Documents
    BY DEF Documents
  <2>3. ~AllExecutions /\ UNCHANGED <<born, clock, overtaken>>
    BY <1>3 DEF EditPart, AllExecutions
  <2> QED
    BY <2>1, <2>2, <2>3, Zenon DEF Puts
<1>4. CASE InsertExecution(d)
  <2> DEFINE doc == [key |-> born[d], state |-> "QUEUED"]
  <2>1. query.of = "executions"
    BY <1>1, <1>4 DEF InsertExecution, Typed, OnlyExecutionsStart, Queries
  <2>2. born[d] \in 1..MaxKey
    BY <1>4 DEF InsertExecution, Typed, TypeOK
  <2>3. doc \in Documents
    BY <2>1, <2>2 DEF States, Statuses, Documents
  <2>4. \A e \in Docs : docs[e].key \in 0..MaxKey
    BY <1>1, KeysAreNumbers
  <2>5. ~overtaken' => \A e \in Docs : docs[e].key < doc.key
    <3>1. overtaken' = (overtaken \/ \E e \in Docs : docs[e].key >= born[d])
      BY <1>4, Zenon DEF InsertExecution
    <3>2. ~overtaken' => \A e \in Docs : ~(docs[e].key >= born[d])
      BY <3>1, Zenon
    <3> QED
      BY <2>2, <2>4, <3>2
  <2>6. Write(d, doc) /\ docs[d] = Absent /\ (overtaken => overtaken') /\ UNCHANGED <<born, clock>>
    BY <1>4 DEF InsertExecution
  <2> QED
    BY <2>3, <2>5, <2>6, Zenon DEF Puts
<1>5. CASE MoveExecution(d)
  <2>1. PICK s \in States : Write(d, [docs[d] EXCEPT !.state = s])
    BY <1>5 DEF MoveExecution
  <2>2. docs[d] \in Documents
    BY <1>1, <1>5 DEF MoveExecution, Collections, Documents
  <2>3. /\ [docs[d] EXCEPT !.state = s] \in Documents
        /\ [docs[d] EXCEPT !.state = s].key = docs[d].key
    BY <2>2 DEF Documents
  <2>4. docs[d] # Absent /\ UNCHANGED <<born, clock, overtaken>>
    BY <1>5 DEF MoveExecution
  <2> QED
    BY <2>1, <2>3, <2>4, Zenon DEF Puts
<1> QED
  BY <1>2, <1>3, <1>4, <1>5

LEMMA TypedWrite ==
    ASSUME Typed, NEW d \in Docs, NEW doc \in Documents, Puts(d, doc)
    PROVE  Typed'
<1>1. docs' \in [Docs -> {Absent} \cup [key: 1..MaxKey, state: States]]
  BY DEF Typed, TypeOK, Write, Puts, Documents
<1>2. UNCHANGED <<query, born, clock, awaited, rows, total, page, items, more>>
  BY DEF Write, Puts, answer, client
<1>3. States' = States
  BY <1>2 DEF States
<1> QED
  BY <1>1, <1>2, <1>3, Zenon DEF Typed, TypeOK, OnlyExecutionsStart, Both

LEMMA TypedNext == Typed /\ [Next]_vars => Typed'
<1> SUFFICES ASSUME Typed, [Next]_vars PROVE Typed'
  OBVIOUS
<1>1. /\ query \in Queries /\ docs \in Collections /\ page \in Nat \ {0}
      /\ query.perPage \in 1..100
  BY DEF Typed, TypeOK, Collections, Queries
<1>2. ASSUME UNCHANGED <<query, docs, born, clock, answer, client>> PROVE Typed'
  BY <1>2, Zenon
  DEF Typed, TypeOK, OnlyExecutionsStart, answer, client, States, Both
<1>3. CASE Find
  <2>1. PICK s \in Sorted : rows' = Page(s)
    BY <1>3 DEF Find
  <2>2. rows' \in Seq(Row) /\ Len(rows') = RowsOf(Cardinality(Matching))
    BY <1>1, <2>1, PageRows
  <2>3. RowsOf(Cardinality(Matching)) \in 0..Limit
    BY <1>1, Rows, FinitePlaces DEF Matching
  <2>4. Len(rows') <= query.perPage
    BY <1>1, <2>2, <2>3 DEF Limit
  <2>5. UNCHANGED <<query, docs, born, clock, total, page, items, more>>
    BY <1>3 DEF Find, Query, client
  <2>6. awaited' \subseteq Both
    BY <1>3 DEF Find, Typed, TypeOK
  <2>7. States' = States
    BY <2>5 DEF States
  <2> QED
    BY <2>2, <2>4, <2>5, <2>6, <2>7, Zenon DEF Typed, TypeOK, OnlyExecutionsStart
<1>4. CASE Count
  <2>1. total' \in 0..Cardinality(Docs)
    BY <1>4, FinitePlaces DEF Count, Matching
  <2>2. UNCHANGED <<query, docs, born, clock, rows, page, items, more>>
    BY <1>4 DEF Count, Query, client
  <2>3. awaited' \subseteq Both
    BY <1>4 DEF Count, Typed, TypeOK
  <2>4. States' = States
    BY <2>2 DEF States
  <2> QED
    BY <2>1, <2>2, <2>3, <2>4, Zenon DEF Typed, TypeOK, OnlyExecutionsStart
<1>5. CASE Reply
  <2>1. items' \in Seq(Row)
    BY <1>5 DEF Reply, Typed, TypeOK
  <2>2. more' \in BOOLEAN /\ page' \in Nat \ {0}
    BY <1>1, <1>5 DEF Reply
  <2>3. awaited' \subseteq Both /\ rows' = <<>> /\ total' = 0
    BY <1>5 DEF Reply
  <2>4. rows' \in Seq(Row) /\ Len(rows') <= query.perPage
    <3>1. rows' \in Seq(Row) /\ Len(rows') = 0
      BY <2>3, NoRows, Zenon
    <3>2. 0 <= query.perPage
      BY <1>1
    <3> QED
      BY <3>1, <3>2, Zenon
  <2>5. total' \in 0..Cardinality(Docs)
    BY <2>3, FS_CardinalityType
  <2>6. UNCHANGED <<query, docs, born, clock>>
    BY <1>5 DEF Reply
  <2>7. States' = States
    BY <2>6 DEF States
  <2> QED
    BY <2>1, <2>2, <2>3, <2>4, <2>5, <2>6, <2>7, Zenon DEF Typed, TypeOK, OnlyExecutionsStart
<1>6. ASSUME NEW d \in Docs,
             CreatePart(d) \/ EditPart(d) \/ InsertExecution(d) \/ MoveExecution(d)
      PROVE  Typed'
  BY <1>6, Writers, TypedWrite
<1>7. ASSUME NEW d \in Docs, StartExecution(d) PROVE Typed'
  <2>1. UNCHANGED <<query, docs, clock, awaited, rows, total, page, items, more>>
    BY <1>7 DEF StartExecution, answer, client
  <2>2. born' \in [Docs -> 0..MaxKey]
    BY <1>7 DEF StartExecution, Typed, TypeOK
  <2>3. OnlyExecutionsStart'
    BY <1>7 DEF StartExecution, OnlyExecutionsStart
  <2>4. States' = States
    BY <2>1 DEF States
  <2> QED
    BY <2>1, <2>2, <2>3, <2>4, Zenon DEF Typed, TypeOK, Both
<1>8. CASE Tick
  <2>1. UNCHANGED <<query, docs, born, awaited, rows, total, page, items, more>>
    BY <1>8 DEF Tick, answer, client
  <2>2. clock' \in 1..MaxKey
    BY <1>8 DEF Tick, Typed, TypeOK
  <2>3. States' = States
    BY <2>1 DEF States
  <2> QED
    BY <2>1, <2>2, <2>3, Zenon DEF Typed, TypeOK, OnlyExecutionsStart, Both
<1>9. CASE UNCHANGED vars
  BY <1>2, <1>9, Zenon DEF vars
<1> QED
  BY <1>3, <1>4, <1>5, <1>6, <1>7, <1>8, <1>9, Zenon DEF Next

-----------------------------------------------------------------------------
(* Nothing moves in front of the end of the page. *)

\* Covers, of any collection and any set of documents to be covered.
Shows(c, k, s, from, to) ==
    /\ \A i \in DOMAIN s :
          /\ s[i].id \in MatchingIn(c)
          /\ c[s[i].id].key = s[i].key
          /\ Place(c, s[i].id) \in from..(to - 1)
    /\ \A i, j \in DOMAIN s : i < j => s[i].key < s[j].key
    /\ \A d \in k : Place(c, d) \in from..(to - 1) => \E i \in DOMAIN s : s[i].id = d

LEMMA NextDocs ==
    ASSUME query' = query
    PROVE  /\ Matching' = MatchingIn(docs')
           /\ Tied(docs)' <=> Tied(docs')
           /\ \A d : Place(docs, d)' = Place(docs', d)
<1>1. \A d : Matches(docs[d])' <=> Matches(docs'[d])
  BY DEF Matches
<1>2. Matching' = MatchingIn(docs')
  BY <1>1, Zenon DEF Matching, MatchingIn
<1>3. MatchingIn(docs)' = MatchingIn(docs')
  BY <1>2 DEF Matching
<1>4. Tied(docs)' <=> Tied(docs')
  BY <1>3, Zenon DEF Tied
<1>5. \A d : Place(docs, d)' = Place(docs', d)
  BY <1>3, Zenon DEF Place, Before
<1> QED
  BY <1>2, <1>4, <1>5

LEMMA NothingMoves ==
    ASSUME Typed, ~Tied(docs), NEW d \in Docs, NEW doc \in Documents, Puts(d, doc),
           ~disturbed' \/ (AllExecutions /\ ~overtaken')
    PROVE  /\ ~Tied(docs')
           /\ \A e \in Matching :
                 Place(docs, e) < End =>
                     /\ e \in MatchingIn(docs')
                     /\ docs'[e].key = docs[e].key
                     /\ Place(docs', e) = Place(docs, e)
           /\ \A e \in Matching \cap MatchingIn(docs') :
                 Place(docs', e) < End => Place(docs, e) < End
<1> DEFINE N == MatchingIn(docs)
           M == MatchingIn(docs')
<1>1. /\ docs \in Collections /\ docs' \in Collections
      /\ docs'[d] = doc /\ \A x \in Docs \ {d} : docs'[x] = docs[x]
  BY DEF Typed, TypeOK, Collections, Puts, Write, Documents
<1>2. \A x \in Docs : docs[x].key \in Nat /\ docs'[x].key \in Nat
  BY <1>1, KeysAreNumbers
<1>3. N \subseteq Docs /\ M \subseteq Docs /\ \A x \in Docs \ {d} : x \in N <=> x \in M
  BY <1>1 DEF MatchingIn
<1>4. \A x : Place(docs, x) \in Nat /\ Place(docs', x) \in Nat
  BY FinitePlaces
<1>5. End \in Nat
  BY Places DEF Typed, TypeOK
<1>6. CASE AllExecutions /\ ~overtaken'
  <2>1. \A c : MatchingIn(c) = {x \in Docs : c[x].state # "absent"}
    BY <1>6 DEF AllExecutions, MatchingIn, Matches
  <2>2. doc.state # "absent"
    BY DEF Documents, States, Statuses
  <2>3. d \in M
    BY <1>1, <2>1, <2>2
  <2>4. IF docs[d] = Absent THEN \A e \in Docs : docs[e].key < doc.key
        ELSE doc.key = docs[d].key
    BY <1>6, Zenon DEF Puts
  <2>5. CASE docs[d] = Absent
    <3>1. d \notin N
      BY <2>1, <2>5 DEF Absent
    <3>2. ~Tied(docs')
      BY <1>1, <1>2, <1>3, <2>4, <2>5 DEF Tied
    <3>3. \A e \in N : docs'[e].key = docs[e].key /\ Before(docs', e) = Before(docs, e)
      BY <1>1, <1>2, <1>3, <2>4, <2>5, <3>1 DEF Before
    <3> QED
      BY <1>3, <3>1, <3>2, <3>3, Zenon DEF Place, Matching
  <2>6. CASE docs[d] # Absent
    <3>1. d \in N
      BY <1>1, <2>1, <2>6 DEF Collections, States, Statuses
    <3>2. \A x \in Docs : docs'[x].key = docs[x].key
      BY <1>1, <2>4, <2>6
    <3>3. M = N
      BY <1>3, <2>3, <3>1
    <3>4. ~Tied(docs')
      BY <1>3, <3>2, <3>3 DEF Tied
    <3>5. \A e \in N : Before(docs', e) = Before(docs, e)
      BY <1>3, <3>2, <3>3 DEF Before
    <3> QED
      BY <1>3, <3>2, <3>3, <3>4, <3>5, Zenon DEF Place, Matching
  <2> QED
    BY <2>5, <2>6
<1>7. CASE ~disturbed'
  <2>1. ~OnPage(docs, d) /\ ~InFront(docs', d) /\ ~Tied(docs')
    BY <1>7 DEF Puts, Write
  <2>2. d \in N => Place(docs, d) >= End
    BY <1>4, <1>5, <2>1 DEF OnPage
  <2>3. d \in M /\ Place(docs', d) < End => \A e \in M : ~(docs'[e].key > docs'[d].key)
    BY <2>1, Zenon DEF InFront, OnPage
  <2>4. ASSUME NEW e \in N, Place(docs, e) < End
        PROVE  e \in M /\ docs'[e].key = docs[e].key /\ Place(docs', e) = Place(docs, e)
    <3>1. e # d
      BY <1>4, <1>5, <2>2, <2>4
    <3>2. e \in Docs /\ e \in M /\ docs'[e].key = docs[e].key
      BY <1>1, <1>3, <2>4, <3>1
    <3>3. d \notin Before(docs, e)
      <4>1. d \in N => ~(docs[d].key < docs[e].key)
        <5> SUFFICES ASSUME d \in N, docs[d].key < docs[e].key PROVE FALSE
          OBVIOUS
        <5>1. Place(docs, d) < Place(docs, e)
          BY <1>1, <3>2, PlacesFollowKeys
        <5> QED
          BY <1>4, <1>5, <2>2, <2>4, <5>1
      <4> QED
        BY <4>1 DEF Before
    <3>4. d \notin Before(docs', e)
      <4> SUFFICES ASSUME d \in M, docs'[d].key < docs'[e].key PROVE FALSE
        BY DEF Before
      <4>1. Before(docs', d) \in SUBSET Before(docs, e)
        BY <1>1, <1>2, <1>3, <3>2 DEF Before
      <4>2. Place(docs', d) <= Place(docs, e)
        BY <4>1, FinitePlaces, FS_Subset DEF Place
      <4>3. Place(docs', d) < End
        BY <1>4, <1>5, <2>4, <4>2
      <4> QED
        BY <1>2, <2>3, <3>2, <4>3
    <3>5. Before(docs', e) = Before(docs, e)
      BY <1>1, <1>3, <3>2, <3>3, <3>4 DEF Before
    <3> QED
      BY <3>2, <3>5 DEF Place
  <2>5. ASSUME NEW e \in N \cap M, Place(docs', e) < End
        PROVE  Place(docs, e) < End
    <3> SUFFICES ASSUME ~(Place(docs, e) < End) PROVE FALSE
      OBVIOUS
    <3>1. e \in Docs /\ Place(docs, e) >= End
      BY <1>3, <1>4, <1>5
    <3>2. CASE e = d
      <4>1. \A x \in M \ {d} : docs'[x].key < docs'[d].key
        BY <1>2, <1>3, <2>1, <2>3, <2>5, <3>2 DEF Tied
      <4>2. Before(docs, d) \in SUBSET Before(docs', d)
        BY <1>2, <1>3, <4>1 DEF Before
      <4>3. Place(docs, d) <= Place(docs', d)
        BY <4>2, FinitePlaces, FS_Subset DEF Place
      <4> QED
        BY <1>4, <1>5, <2>5, <3>1, <3>2, <4>3
    <3>3. CASE e # d
      <4>1. docs'[e].key = docs[e].key
        BY <1>1, <3>1, <3>3
      <4>2. CASE d \in Before(docs, e)
        <5>1. d \in N /\ docs[d].key < docs[e].key
          BY <4>2 DEF Before
        <5>2. Before(docs, d) \in SUBSET Before(docs', e)
          BY <1>1, <1>2, <1>3, <3>1, <4>1, <5>1 DEF Before
        <5>3. Place(docs, d) <= Place(docs', e)
          BY <5>2, FinitePlaces, FS_Subset DEF Place
        <5> QED
          BY <1>4, <1>5, <2>2, <2>5, <5>1, <5>3
      <4>3. CASE d \notin Before(docs, e)
        <5>1. Before(docs, e) \in SUBSET Before(docs', e)
          BY <1>1, <1>3, <4>1, <4>3 DEF Before
        <5>2. Place(docs, e) <= Place(docs', e)
          BY <5>1, FinitePlaces, FS_Subset DEF Place
        <5> QED
          BY <1>4, <1>5, <2>5, <3>1, <5>2
      <4> QED
        BY <4>2, <4>3
    <3> QED
      BY <3>2, <3>3
  <2> QED
    BY <2>1, <2>4, <2>5 DEF Matching
<1> QED
  BY <1>6, <1>7

\* What was shown of documents in front of the end of the page is still so.
LEMMA StillShown ==
    ASSUME Typed, ~Tied(docs), NEW d \in Docs, NEW doc \in Documents, Puts(d, doc),
           ~disturbed' \/ (AllExecutions /\ ~overtaken'),
           kept \subseteq Matching,
           NEW s, NEW from \in Nat, NEW to \in Nat, to <= End, Shows(docs, kept, s, from, to)
    PROVE  Shows(docs', kept', s, from, to)
<1>1. /\ \A e \in Matching :
            Place(docs, e) < End =>
                /\ e \in MatchingIn(docs')
                /\ docs'[e].key = docs[e].key
                /\ Place(docs', e) = Place(docs, e)
      /\ \A e \in Matching \cap MatchingIn(docs') :
            Place(docs', e) < End => Place(docs, e) < End
  BY NothingMoves, Zenon
<1>2. /\ \A x : Place(docs, x) \in Nat /\ Place(docs', x) \in Nat
      /\ End \in Nat
  BY FinitePlaces, Places DEF Typed, TypeOK
<1>3. kept' = kept \cap MatchingIn(docs')
  BY DEF Puts, Write
<1>4. /\ \A i \in DOMAIN s :
            /\ s[i].id \in Matching
            /\ docs[s[i].id].key = s[i].key
            /\ Place(docs, s[i].id) \in from..(to - 1)
      /\ \A i, j \in DOMAIN s : i < j => s[i].key < s[j].key
      /\ \A e \in kept : Place(docs, e) \in from..(to - 1) => \E i \in DOMAIN s : s[i].id = e
  BY DEF Shows, Matching
<1>5. ASSUME NEW i \in DOMAIN s
      PROVE  /\ s[i].id \in MatchingIn(docs')
             /\ docs'[s[i].id].key = s[i].key
             /\ Place(docs', s[i].id) \in from..(to - 1)
  <2>1. PICK e \in Matching : e = s[i].id
    BY <1>4
  <2>2. Place(docs, e) \in from..(to - 1) /\ docs[e].key = s[i].key
    BY <1>4, <2>1
  <2>3. Place(docs, e) < End
    BY <1>2, <2>2
  <2> QED
    BY <1>1, <2>1, <2>2, <2>3
<1>6. ASSUME NEW e \in kept', Place(docs', e) \in from..(to - 1)
      PROVE  \E i \in DOMAIN s : s[i].id = e
  <2>1. e \in kept /\ e \in Matching \cap MatchingIn(docs')
    BY <1>3
  <2>2. Place(docs', e) < End
    BY <1>2, <1>6
  <2>3. Place(docs, e) = Place(docs', e)
    BY <1>1, <2>1, <2>2
  <2> QED
    BY <1>4, <1>6, <2>1, <2>3
<1> QED
  BY <1>4, <1>5, <1>6 DEF Shows

\* The rows of a page follow those of the pages before it.
LEMMA PagesFollow ==
    ASSUME NEW c \in Collections, NEW k, NEW s \in Seq(Row), NEW t \in Seq(Row),
           NEW a \in Nat, NEW b \in Nat, a <= b,
           Shows(c, k, s, 0, a), Shows(c, k, t, a, b)
    PROVE  Shows(c, k, s \o t, 0, b)
<1> DEFINE m == Len(s)
           n == Len(t)
           r == s \o t
<1>1. m \in Nat /\ n \in Nat /\ DOMAIN s = 1..m /\ DOMAIN t = 1..n
  OBVIOUS
<1>2. /\ DOMAIN r = 1..(m + n)
      /\ \A i \in 1..m : r[i] = s[i]
      /\ \A i \in (m + 1)..(m + n) : i - m \in 1..n /\ r[i] = t[i - m]
  BY <1>1
<1>3. \A x : Place(c, x) \in Nat
  BY FinitePlaces
<1>4. \A x \in Docs : c[x].key \in Nat
  BY KeysAreNumbers
<1>5. /\ \A i \in 1..m : /\ s[i].id \in MatchingIn(c)
                         /\ c[s[i].id].key = s[i].key
                         /\ Place(c, s[i].id) \in 0..(a - 1)
      /\ \A i, j \in 1..m : i < j => s[i].key < s[j].key
      /\ \A d \in k : Place(c, d) \in 0..(a - 1) => \E i \in 1..m : s[i].id = d
  BY <1>1 DEF Shows
<1>6. /\ \A i \in 1..n : /\ t[i].id \in MatchingIn(c)
                         /\ c[t[i].id].key = t[i].key
                         /\ Place(c, t[i].id) \in a..(b - 1)
      /\ \A i, j \in 1..n : i < j => t[i].key < t[j].key
      /\ \A d \in k : Place(c, d) \in a..(b - 1) => \E i \in 1..n : t[i].id = d
  BY <1>1 DEF Shows
<1> HIDE DEF m, n, r
<1>7. ASSUME NEW i \in 1..m, NEW j \in 1..n PROVE s[i].key < t[j].key
  <2>1. PICK d \in MatchingIn(c) : d = s[i].id
    BY <1>5
  <2>2. PICK e \in MatchingIn(c) : e = t[j].id
    BY <1>6
  <2>3. d \in Docs /\ e \in Docs
    BY DEF MatchingIn
  <2>4. Place(c, d) < Place(c, e)
    BY <1>3, <1>5, <1>6, <2>1, <2>2
  <2>5. ~(c[e].key <= c[d].key)
    BY <1>3, <2>3, <2>4, PlacesFollowKeys
  <2>6. c[d].key = s[i].key /\ c[e].key = t[j].key
    BY <1>5, <1>6, <2>1, <2>2
  <2> QED
    BY <1>4, <2>3, <2>5, <2>6
<1>8. ASSUME NEW i \in 1..(m + n)
      PROVE  /\ r[i].id \in MatchingIn(c)
             /\ c[r[i].id].key = r[i].key
             /\ Place(c, r[i].id) \in 0..(b - 1)
  <2>1. CASE i \in 1..m
    BY <1>2, <1>3, <1>5, <2>1
  <2>2. CASE i \in (m + 1)..(m + n)
    <3>1. i - m \in 1..n /\ r[i] = t[i - m]
      BY <1>2, <2>2
    <3> QED
      BY <1>3, <1>6, <3>1
  <2> QED
    BY <1>1, <2>1, <2>2 DEF m, n
<1>9. ASSUME NEW i \in 1..(m + n), NEW j \in 1..(m + n), i < j
      PROVE  r[i].key < r[j].key
  <2>0. m \in Nat /\ n \in Nat
    BY <1>1
  <2>1. CASE j \in 1..m
    <3>1. i \in 1..m
      BY <1>9, <2>0, <2>1
    <3> QED
      BY <1>2, <1>5, <1>9, <2>1, <3>1
  <2>2. CASE i \in 1..m /\ j \in (m + 1)..(m + n)
    BY <1>2, <1>7, <2>2
  <2>3. CASE i \in (m + 1)..(m + n)
    <3>1. j \in (m + 1)..(m + n) /\ i - m < j - m
      BY <1>9, <2>0, <2>3
    <3>2. /\ i - m \in 1..n /\ r[i] = t[i - m]
          /\ j - m \in 1..n /\ r[j] = t[j - m]
      BY <1>2, <2>3, <3>1
    <3> QED
      BY <1>6, <3>1, <3>2
  <2> QED
    BY <2>0, <2>1, <2>2, <2>3
<1>10. ASSUME NEW d \in k, Place(c, d) \in 0..(b - 1)
       PROVE  \E i \in 1..(m + n) : r[i].id = d
  <2>0. m \in Nat /\ n \in Nat
    BY <1>1
  <2>1. CASE Place(c, d) \in 0..(a - 1)
    <3>1. PICK i \in 1..m : s[i].id = d
      BY <1>5, <2>1
    <3>2. i \in 1..(m + n) /\ r[i] = s[i]
      BY <1>2, <2>0
    <3> QED
      BY <3>1, <3>2
  <2>2. CASE Place(c, d) \in a..(b - 1)
    <3>1. PICK i \in 1..n : t[i].id = d
      BY <1>6, <2>2
    <3>2. m + i \in (m + 1)..(m + n) /\ (m + i) - m = i
      BY <2>0
    <3>3. m + i \in 1..(m + n) /\ r[m + i] = t[i]
      BY <1>2, <2>0, <3>2
    <3> QED
      BY <3>1, <3>3
  <2> QED
    BY <1>3, <1>10, <2>1, <2>2
<1>11. DOMAIN r = 1..(m + n)
  BY <1>2
<1>12. Shows(c, k, r, 0, b)
  BY <1>8, <1>9, <1>10, <1>11 DEF Shows
<1> QED
  BY <1>12 DEF r

\* A find shows the documents at the places of its page.
LEMMA FindShows ==
    ASSUME query \in Queries, page \in Nat \ {0}, docs \in Collections, ~Tied(docs),
           kept \subseteq Matching, NEW s \in Sorted
    PROVE  Shows(docs, kept, Page(s), Skip, End)
<1> DEFINE n == Len(s)
           m == RowsOf(n)
<1>1. /\ \A i \in 1..n : s[i] \in Matching /\ Place(docs, s[i]) = i - 1
      /\ \A i, j \in 1..n : i < j => docs[s[i]].key < docs[s[j]].key
      /\ \A d \in Matching : \E i \in 1..n : s[i] = d
  BY SortedByPlace
<1>2. /\ Page(s) \in Seq(Row) /\ Len(Page(s)) = RowsOf(Cardinality(Matching))
      /\ n = Cardinality(Matching)
      /\ \A i \in DOMAIN Page(s) :
            /\ i \in 1..m /\ i \in 1..Limit
            /\ Skip + i \in 1..n
            /\ Page(s)[i] = [id |-> s[Skip + i], key |-> docs[s[Skip + i]].key]
  BY PageRows
<1>3. n \in Nat
  BY <1>2, FinitePlaces DEF Matching
<1>4. DOMAIN Page(s) = 1..m
  BY <1>2
<1>5. Skip \in Nat /\ Limit \in 1..100 /\ End = Skip + Limit
  BY Places
<1>6. m \in 0..Limit /\ m = IF n <= Skip THEN 0 ELSE IF n <= End THEN n - Skip ELSE Limit
  BY <1>3, Rows
<1> HIDE DEF n, m, Skip, Limit, End
<1>7. \A i \in 1..m : /\ Skip + i \in 1..n /\ i \in 1..Limit
                      /\ Page(s)[i].id = s[Skip + i]
                      /\ Page(s)[i].key = docs[s[Skip + i]].key
  <2> SUFFICES ASSUME NEW i \in 1..m
               PROVE  /\ Skip + i \in 1..n /\ i \in 1..Limit
                      /\ Page(s)[i].id = s[Skip + i]
                      /\ Page(s)[i].key = docs[s[Skip + i]].key
    OBVIOUS
  <2>1. /\ Skip + i \in 1..n /\ i \in 1..Limit
        /\ Page(s)[i] = [id |-> s[Skip + i], key |-> docs[s[Skip + i]].key]
    BY <1>2, <1>4, Zenon
  <2> QED
    BY <2>1
<1>8. ASSUME NEW i \in 1..m
      PROVE  /\ Page(s)[i].id \in MatchingIn(docs)
             /\ docs[Page(s)[i].id].key = Page(s)[i].key
             /\ Place(docs, Page(s)[i].id) \in Skip..(End - 1)
  <2>1. PICK j \in 1..n : j = Skip + i
    BY <1>7
  <2>2. s[j] \in Matching /\ Place(docs, s[j]) = j - 1
    BY <1>1
  <2>3. j - 1 \in Skip..(End - 1)
    BY <1>5, <1>7, <2>1
  <2>4. Page(s)[i].id = s[j] /\ Page(s)[i].key = docs[s[j]].key
    BY <1>7, <2>1, Zenon
  <2> QED
    BY <2>2, <2>3, <2>4, Zenon DEF Matching
<1>9. ASSUME NEW i \in 1..m, NEW j \in 1..m, i < j
      PROVE  Page(s)[i].key < Page(s)[j].key
  <2>1. Skip + i < Skip + j
    BY <1>5, <1>9
  <2> QED
    BY <1>1, <1>7, <2>1
<1>10. ASSUME NEW d \in kept, Place(docs, d) \in Skip..(End - 1)
       PROVE  \E i \in 1..m : Page(s)[i].id = d
  <2>1. PICK j \in 1..n : s[j] = d
    BY <1>1
  <2>2. j - 1 \in Skip..(End - 1)
    BY <1>1, <1>10, <2>1
  <2>3. j - Skip \in 1..m /\ Skip + (j - Skip) = j
    BY <1>3, <1>5, <1>6, <2>2
  <2> QED
    BY <1>7, <2>1, <2>3
<1> QED
  BY <1>4, <1>8, <1>9, <1>10 DEF Shows

-----------------------------------------------------------------------------
(* The invariant, step by step. *)

LEMMA Monotone ==
    ASSUME Typed, [Next]_vars
    PROVE  query' = query /\ initial' = initial /\ (Calm' => Calm)
<1>1. ASSUME UNCHANGED <<query, disturbed, overtaken, initial>>
      PROVE  query' = query /\ initial' = initial /\ (Calm' => Calm)
  BY <1>1, Zenon DEF Calm, AllExecutions
<1>2. ASSUME NEW d \in Docs,
             CreatePart(d) \/ EditPart(d) \/ InsertExecution(d) \/ MoveExecution(d)
      PROVE  query' = query /\ initial' = initial /\ (Calm' => Calm)
  <2>1. PICK doc \in Documents : Puts(d, doc)
    BY <1>2, Writers
  <2>2. query' = query /\ initial' = initial
    BY <2>1 DEF Puts, Write
  <2>3. (disturbed => disturbed') /\ (overtaken => overtaken')
    BY <2>1, Zenon DEF Puts, Write
  <2> QED
    BY <2>2, <2>3, Zenon DEF Calm, AllExecutions
<1>3. CASE Find \/ Count
  BY <1>1, <1>3, Zenon DEF Find, Count, Query
<1>4. CASE Reply \/ Tick \/ UNCHANGED vars \/ \E d \in Docs : StartExecution(d)
  <2>1. UNCHANGED <<query, history>>
    BY <1>4, Zenon DEF Reply, Tick, StartExecution, vars
  <2> QED
    BY <1>1, <2>1, Zenon DEF history
<1> QED
  BY <1>2, <1>3, <1>4, Zenon DEF Next

LEMMA KeptNext ==
    ASSUME Typed, KeptInv, [Next]_vars
    PROVE  KeptInv'
<1>0. query' = query /\ initial' = initial
  BY Monotone
<1>1. Matching' = MatchingIn(docs')
  BY <1>0, NextDocs
<1>2. ASSUME UNCHANGED <<docs, kept>> PROVE KeptInv'
  BY <1>0, <1>1, <1>2 DEF KeptInv, AllExecutions, Matching
<1>3. ASSUME NEW d \in Docs,
             CreatePart(d) \/ EditPart(d) \/ InsertExecution(d) \/ MoveExecution(d)
      PROVE  KeptInv'
  <2>1. PICK doc \in Documents : Puts(d, doc)
    BY <1>3, Writers
  <2>2. kept' = kept \cap MatchingIn(docs')
    BY <2>1 DEF Puts, Write
  <2>3. ASSUME AllExecutions PROVE kept' = kept
    <3>1. \A c : MatchingIn(c) = {x \in Docs : c[x].state # "absent"}
      BY <2>3 DEF AllExecutions, MatchingIn, Matches
    <3>2. doc.state # "absent"
      BY DEF Documents, States, Statuses
    <3>3. docs'[d] = doc /\ \A x \in Docs \ {d} : docs'[x] = docs[x]
      BY <2>1 DEF Puts, Write, Typed, TypeOK
    <3>4. Matching \subseteq MatchingIn(docs')
      BY <3>1, <3>2, <3>3 DEF Matching
    <3> QED
      BY <2>2, <3>4 DEF KeptInv
  <2> QED
    BY <1>0, <1>1, <2>2, <2>3 DEF KeptInv, AllExecutions
<1>4. CASE Find \/ Count
  BY <1>2, <1>4, Zenon DEF Find, Count, Query
<1>5. CASE Reply \/ Tick \/ UNCHANGED vars \/ \E d \in Docs : StartExecution(d)
  <2>1. UNCHANGED <<docs, history>>
    BY <1>5, Zenon DEF Reply, Tick, StartExecution, vars
  <2> QED
    BY <1>2, <2>1, Zenon DEF history
<1> QED
  BY <1>3, <1>4, <1>5, Zenon DEF Next

LEMMA PageNext ==
    ASSUME Typed, PageInv, [Next]_vars
    PROVE  PageInv'
<1>1. query \in Queries /\ docs \in Collections /\ page \in Nat \ {0} /\ awaited \subseteq Both
  BY DEF Typed, TypeOK, Collections
<1>2. query' = query
  BY Monotone
<1>3. ASSUME UNCHANGED <<docs, page>>
      PROVE  Matching' = Matching /\ \A n : RowsOf(n)' = RowsOf(n)
  <2>1. Matching' = Matching
    BY <1>2, <1>3, NextDocs DEF Matching
  <2>2. Skip' = Skip /\ Limit' = Limit
    BY <1>2, <1>3 DEF Skip, Limit
  <2> QED
    BY <2>1, <2>2, Zenon DEF RowsOf
<1>4. ASSUME UNCHANGED <<docs, page, awaited, rows, total, steady>> PROVE PageInv'
  <2>1. PICK n : n = Cardinality(Matching)
    OBVIOUS
  <2>2. Cardinality(Matching)' = n /\ RowsOf(Cardinality(Matching))' = RowsOf(n)
    BY <1>3, <1>4, <2>1
  <2> QED
    BY <1>4, <2>1, <2>2 DEF PageInv
<1>5. CASE Find
  <2>1. PICK s \in Sorted : rows' = Page(s)
    BY <1>5 DEF Find
  <2>2. PICK n : n = Cardinality(Matching)
    OBVIOUS
  <2>3. Len(rows') = RowsOf(n)
    BY <1>1, <2>1, <2>2, PageRows
  <2>4. UNCHANGED <<docs, page, total>> /\ awaited' = awaited \ {"find"}
    BY <1>5 DEF Find, Query, client
  <2>5. Matching' = Matching /\ RowsOf(n)' = RowsOf(n)
    BY <1>3, <2>4
  <2>6. steady' /\ "count" \notin awaited' => steady /\ "count" \notin awaited
    BY <1>5, <2>4, Zenon DEF Find, Both
  <2>7. steady' /\ "count" \notin awaited' => total' = n
    BY <2>2, <2>4, <2>6 DEF PageInv
  <2>8. Cardinality(Matching)' = n /\ RowsOf(Cardinality(Matching))' = RowsOf(n)
    BY <2>2, <2>5
  <2> QED
    BY <2>3, <2>7, <2>8 DEF PageInv
<1>6. CASE Count
  <2>1. PICK n : n = Cardinality(Matching)
    OBVIOUS
  <2>2. UNCHANGED <<docs, page, rows>> /\ awaited' = awaited \ {"count"} /\ total' = n
    BY <1>6, <2>1 DEF Count, Query, client
  <2>3. Matching' = Matching /\ RowsOf(n)' = RowsOf(n)
    BY <1>3, <2>2
  <2>4. steady' /\ "find" \notin awaited' => steady /\ "find" \notin awaited
    BY <1>6, <2>2, Zenon DEF Count, Both
  <2>5. steady' /\ "find" \notin awaited' => Len(rows') = RowsOf(n)
    BY <2>1, <2>2, <2>4 DEF PageInv
  <2>6. Cardinality(Matching)' = n /\ RowsOf(Cardinality(Matching))' = RowsOf(n)
    BY <2>1, <2>3
  <2> QED
    BY <2>2, <2>5, <2>6 DEF PageInv
<1>7. CASE Reply
  BY <1>7 DEF Reply, PageInv, Both
<1>8. ASSUME NEW d \in Docs,
             CreatePart(d) \/ EditPart(d) \/ InsertExecution(d) \/ MoveExecution(d)
      PROVE  PageInv'
  <2>1. PICK doc \in Documents : Puts(d, doc)
    BY <1>8, Writers
  <2>2. steady' = FALSE
    BY <2>1 DEF Puts, Write
  <2> QED
    BY <2>2 DEF PageInv
<1>9. CASE Tick \/ UNCHANGED vars \/ \E d \in Docs : StartExecution(d)
  <2>1. UNCHANGED <<docs, answer, client, history>>
    BY <1>9, Zenon DEF Tick, StartExecution, vars
  <2>2. UNCHANGED <<docs, page, awaited, rows, total, steady>>
    BY <2>1, Zenon DEF answer, client, history
  <2> QED
    BY <1>4, <2>2
<1> QED
  BY <1>5, <1>6, <1>7, <1>8, <1>9, Zenon DEF Next

\* WalkInv after a step, in terms of the collection after it.
LEMMA WalkAfter ==
    ASSUME query' = query,
           Calm' =>
               /\ ~Tied(docs')
               /\ Shows(docs', kept', items', 0, Seen')
               /\ more' /\ "find" \notin awaited' => Shows(docs', kept', rows', Skip', End')
               /\ more' /\ "count" \notin awaited' /\ total' <= End' =>
                      \A d \in kept' : Place(docs', d) < End'
               /\ ~more' => \A d \in kept' : Place(docs', d) < End'
    PROVE  WalkInv'
<1>1. /\ Matching' = MatchingIn(docs')
      /\ Tied(docs)' <=> Tied(docs')
      /\ \A d : Place(docs, d)' = Place(docs', d)
  BY NextDocs
<1>2. NoneBeyond' <=> \A d \in kept' : Place(docs', d) < End'
  BY <1>1, Zenon DEF NoneBeyond
<1>3. Covers(items, 0, Seen)' <=> Shows(docs', kept', items', 0, Seen')
  BY <1>1, SMT DEF Covers, Shows
<1>4. Covers(rows, Skip, End)' <=> Shows(docs', kept', rows', Skip', End')
  BY <1>1, SMT DEF Covers, Shows
<1> QED
  BY <1>1, <1>2, <1>3, <1>4, Zenon DEF WalkInv

LEMMA WalkNow ==
    ASSUME WalkInv, Calm
    PROVE  /\ ~Tied(docs)
           /\ Shows(docs, kept, items, 0, Seen)
           /\ more /\ "find" \notin awaited => Shows(docs, kept, rows, Skip, End)
           /\ more /\ "count" \notin awaited /\ total <= End => NoneBeyond
           /\ ~more => NoneBeyond
  BY DEF WalkInv, Covers, Shows, Matching

LEMMA WalkFind ==
    ASSUME Typed, KeptInv, WalkInv, Find
    PROVE  WalkInv'
<1>1. PICK s \in Sorted : rows' = Page(s)
  BY DEF Find
<1>2. /\ docs' = docs /\ query' = query /\ kept' = kept /\ items' = items /\ more' = more
      /\ page' = page /\ total' = total /\ awaited' = awaited \ {"find"} /\ more
  BY DEF Find, Query, client
<1>3. Skip' = Skip /\ End' = End /\ Seen' = Seen /\ (Calm' => Calm)
  <2>1. UNCHANGED <<query, disturbed, overtaken>>
    BY DEF Find, Query
  <2> QED
    BY <1>2, <2>1, Zenon DEF Skip, End, Seen, Calm, AllExecutions
<1>4. ASSUME Calm'
      PROVE  /\ ~Tied(docs')
             /\ Shows(docs', kept', items', 0, Seen')
             /\ Shows(docs', kept', rows', Skip', End')
             /\ more' /\ "count" \notin awaited' /\ total' <= End' =>
                    \A d \in kept' : Place(docs', d) < End'
  <2>1. /\ ~Tied(docs) /\ Shows(docs, kept, items, 0, Seen)
        /\ more /\ "count" \notin awaited /\ total <= End => NoneBeyond
    BY <1>3, <1>4, WalkNow
  <2>2. Shows(docs, kept, Page(s), Skip, End)
    BY <2>1, FindShows DEF KeptInv, Typed, TypeOK, Collections
  <2>3. "count" \notin awaited' => "count" \notin awaited
    BY <1>2
  <2> QED
    BY <1>1, <1>2, <1>3, <2>1, <2>2, <2>3, Zenon DEF NoneBeyond
<1> QED
  BY <1>2, <1>4, WalkAfter, Zenon

LEMMA WalkCount ==
    ASSUME Typed, KeptInv, WalkInv, Count
    PROVE  WalkInv'
<1>1. /\ docs' = docs /\ query' = query /\ kept' = kept /\ items' = items /\ more' = more
      /\ page' = page /\ rows' = rows /\ awaited' = awaited \ {"count"} /\ more
      /\ total' = Cardinality(Matching)
  BY DEF Count, Query, client
<1>2. Skip' = Skip /\ End' = End /\ Seen' = Seen /\ (Calm' => Calm)
  <2>1. UNCHANGED <<query, disturbed, overtaken>>
    BY DEF Count, Query
  <2> QED
    BY <1>1, <2>1, Zenon DEF Skip, End, Seen, Calm, AllExecutions
<1>3. ASSUME total' <= End, NEW d \in kept PROVE Place(docs, d) < End
  <2>1. d \in MatchingIn(docs) /\ docs \in Collections
    BY DEF KeptInv, Matching, Typed, TypeOK, Collections
  <2>2. Place(docs, d) < Cardinality(MatchingIn(docs))
    BY <2>1, PlaceBelowCount
  <2>3. /\ Place(docs, d) \in Nat /\ Cardinality(MatchingIn(docs)) \in Nat /\ End \in Nat
        /\ total' = Cardinality(MatchingIn(docs))
    BY <1>1, FinitePlaces, Places DEF Matching, Typed, TypeOK
  <2> QED
    BY <1>3, <2>2, <2>3
<1>4. ASSUME Calm'
      PROVE  /\ ~Tied(docs')
             /\ Shows(docs', kept', items', 0, Seen')
             /\ "find" \notin awaited' => Shows(docs', kept', rows', Skip', End')
             /\ total' <= End' => \A d \in kept' : Place(docs', d) < End'
  <2>1. /\ ~Tied(docs) /\ Shows(docs, kept, items, 0, Seen)
        /\ more /\ "find" \notin awaited => Shows(docs, kept, rows, Skip, End)
    BY <1>2, <1>4, WalkNow
  <2>2. "find" \notin awaited' => "find" \notin awaited
    BY <1>1
  <2> QED
    BY <1>1, <1>2, <1>3, <2>1, <2>2, Zenon
<1> QED
  BY <1>1, <1>4, WalkAfter, Zenon

LEMMA WalkReply ==
    ASSUME Typed, KeptInv, WalkInv, Reply
    PROVE  WalkInv'
<1>1. /\ docs' = docs /\ query' = query /\ kept' = kept /\ items' = items \o rows
      /\ more /\ awaited = {} /\ awaited' = Both /\ more' = (page * query.perPage < total)
      /\ page' = IF more' THEN page + 1 ELSE page
  BY DEF Reply, history
<1>2. Calm' => Calm
  <2>1. UNCHANGED <<query, disturbed, overtaken>>
    BY DEF Reply, history
  <2> QED
    BY <2>1, Zenon DEF Calm, AllExecutions
<1>3. Skip \in Nat /\ End \in Nat /\ Skip <= End
  BY Places, Zenon DEF Typed, TypeOK
<1>4. Seen' = End /\ (~more' => End' = End /\ total <= End)
  <2>1. CASE more'
    <3>1. page' - 1 = page
      BY <1>1, <2>1 DEF Typed, TypeOK
    <3> QED
      BY <1>1, <2>1, <3>1, Zenon DEF Seen, Skip, End
  <2>2. CASE ~more'
    <3>1. ~(End < total)
      BY <1>1, <2>2, Zenon DEF End
    <3>2. total \in Int
      BY FS_CardinalityType DEF Typed, TypeOK
    <3>3. total <= End
      BY <1>3, <3>1, <3>2
    <3>4. End' = End
      BY <1>1, <2>2, Zenon DEF End
    <3> QED
      BY <2>2, <3>3, <3>4, Zenon DEF Seen
  <2> QED
    BY <2>1, <2>2
<1>5. ASSUME Calm'
      PROVE  /\ ~Tied(docs')
             /\ Shows(docs', kept', items', 0, Seen')
             /\ ~more' => \A d \in kept' : Place(docs', d) < End'
  <2>1. /\ ~Tied(docs)
        /\ Shows(docs, kept, items, 0, Skip)
        /\ Shows(docs, kept, rows, Skip, End)
        /\ total <= End => NoneBeyond
    BY <1>1, <1>2, <1>5, WalkNow DEF Seen
  <2>2. Shows(docs, kept, items \o rows, 0, End)
    BY <1>3, <2>1, PagesFollow DEF Typed, TypeOK, Collections
  <2> QED
    BY <1>1, <1>4, <2>1, <2>2, Zenon DEF NoneBeyond
<1>6. "find" \in awaited' /\ "count" \in awaited'
  BY <1>1 DEF Both
<1> QED
  BY <1>1, <1>5, <1>6, WalkAfter, Zenon

LEMMA WalkWrite ==
    ASSUME Typed, KeptInv, WalkInv, NEW d \in Docs, NEW doc \in Documents, Puts(d, doc)
    PROVE  WalkInv'
<1>1. /\ UNCHANGED <<query, awaited, rows, total, page, items, more>>
      /\ kept' = kept \cap MatchingIn(docs')
      /\ disturbed => disturbed'
      /\ overtaken => overtaken'
  BY Zenon DEF Puts, Write, answer, client
<1>2. Skip' = Skip /\ End' = End /\ Seen' = Seen
  BY <1>1, Zenon DEF Skip, End, Seen
<1>3. Skip \in Nat /\ End \in Nat /\ Skip <= End /\ End <= End
  <2>1. Skip \in Nat /\ End \in Nat /\ Skip <= End
    BY Places, Zenon DEF Typed, TypeOK
  <2> QED
    BY <2>1
<1>4. Seen \in Nat /\ Seen <= End
  BY <1>3 DEF Seen
<1>5. ASSUME Calm'
      PROVE  /\ ~Tied(docs')
             /\ Shows(docs', kept', items, 0, Seen)
             /\ more /\ "find" \notin awaited => Shows(docs', kept', rows, Skip, End)
             /\ more /\ "count" \notin awaited /\ total <= End =>
                    \A e \in kept' : Place(docs', e) < End
             /\ ~more => \A e \in kept' : Place(docs', e) < End
  <2>1. Calm /\ (~disturbed' \/ (AllExecutions /\ ~overtaken'))
    BY <1>1, <1>5, Zenon DEF Calm, AllExecutions
  <2>2. /\ ~Tied(docs)
        /\ Shows(docs, kept, items, 0, Seen)
        /\ more /\ "find" \notin awaited => Shows(docs, kept, rows, Skip, End)
        /\ more /\ "count" \notin awaited /\ total <= End => NoneBeyond
        /\ ~more => NoneBeyond
    BY <2>1, WalkNow
  <2>3. /\ ~Tied(docs')
        /\ \A e \in Matching :
              Place(docs, e) < End =>
                  /\ e \in MatchingIn(docs')
                  /\ docs'[e].key = docs[e].key
                  /\ Place(docs', e) = Place(docs, e)
    BY <2>1, <2>2, NothingMoves, Zenon
  <2>4. kept \subseteq Matching
    BY DEF KeptInv
  <2>5. Shows(docs', kept', items, 0, Seen)
    BY <1>4, <2>1, <2>2, <2>4, StillShown
  <2>6. ASSUME Shows(docs, kept, rows, Skip, End) PROVE Shows(docs', kept', rows, Skip, End)
    BY <1>3, <2>1, <2>2, <2>4, <2>6, StillShown
  <2>7. ASSUME NoneBeyond, NEW e \in kept' PROVE Place(docs', e) < End
    <3>1. e \in kept /\ e \in Matching
      BY <1>1, <2>4, Zenon
    <3>2. Place(docs, e) < End
      BY <2>7, <3>1, Zenon DEF NoneBeyond
    <3>3. Place(docs', e) = Place(docs, e)
      BY <2>3, <3>1, <3>2, Zenon
    <3> QED
      BY <3>2, <3>3
  <2> QED
    BY <2>2, <2>3, <2>5, <2>6, <2>7, Zenon
<1> QED
  BY <1>1, <1>2, <1>5, WalkAfter, Zenon

LEMMA WalkNext ==
    ASSUME Typed, KeptInv, WalkInv, [Next]_vars
    PROVE  WalkInv'
<1>1. ASSUME NEW d \in Docs,
             CreatePart(d) \/ EditPart(d) \/ InsertExecution(d) \/ MoveExecution(d)
      PROVE  WalkInv'
  BY <1>1, Writers, WalkWrite
<1>2. CASE Tick \/ UNCHANGED vars \/ \E d \in Docs : StartExecution(d)
  <2>1. UNCHANGED <<query, docs, answer, client, history>>
    BY <1>2, Zenon DEF Tick, StartExecution, vars
  <2>2. UNCHANGED <<query, docs, page, awaited, rows, total, items, more, kept,
                    disturbed, overtaken>>
    BY <2>1, Zenon DEF answer, client, history
  <2>3. Skip' = Skip /\ End' = End /\ Seen' = Seen /\ (Calm' => Calm)
    BY <2>2, Zenon DEF Skip, End, Seen, Calm, AllExecutions
  <2> QED
    BY <2>2, <2>3, WalkNow, WalkAfter, Zenon DEF NoneBeyond
<1> QED
  BY <1>1, <1>2, WalkFind, WalkCount, WalkReply, Zenon DEF Next

-----------------------------------------------------------------------------
(* Theorems. *)

\* The inductive invariant of a walk: shapes, what was read since the last write,
\* and that the client has every document in front of its page that was there all
\* the time, in order.
THEOREM InductiveInvariant == Spec => []IInv
<1>1. Init => IInv
  <2> SUFFICES ASSUME Init PROVE IInv
    OBVIOUS
  <2>1. Typed
    BY TypedInit
  <2>2. KeptInv
    BY DEF Init, KeptInv
  <2>3. PageInv
    BY DEF Init, PageInv, Both
  <2>4. Seen = 0
    <3>1. query.perPage \in 1..100
      BY DEF Init, Queries
    <3>2. page - 1 = 0 /\ more
      BY DEF Init
    <3>3. 0 * query.perPage = 0
      BY <3>1
    <3> QED
      BY <3>2, <3>3, Zenon DEF Seen, Skip
  <2>5. Covers(items, 0, Seen)
    <3>1. DOMAIN items = {}
      BY NoRows DEF Init
    <3>2. 0..(0 - 1) = {}
      OBVIOUS
    <3> QED
      BY <2>4, <3>1, <3>2, Zenon DEF Covers
  <2>6. WalkInv
    BY <2>5 DEF Init, WalkInv, Both
  <2> QED
    BY <2>1, <2>2, <2>3, <2>6 DEF IInv, Typed
<1>2. IInv /\ [Next]_vars => IInv'
  BY TypedNext, KeptNext, PageNext, WalkNext DEF IInv, Typed
<1> QED
  BY <1>1, <1>2, PTL DEF Spec

\* Rows, totals and documents keep their shapes, and an answer holds no more rows
\* than were asked for.
THEOREM TypeCorrect == Spec => []TypeOK
<1>1. IInv => TypeOK
  BY DEF IInv
<1> QED
  BY <1>1, InductiveInvariant, PTL

\* Each document covered is listed once.
LEMMA ListedOnce ==
    ASSUME IInv, Calm, ~more, NEW d \in kept
    PROVE  TimesListed(d) = 1
<1>1. /\ Covers(items, 0, Seen) /\ NoneBeyond
  BY DEF IInv, WalkInv
<1>2. d \in Docs
  BY DEF IInv, KeptInv, Matching, MatchingIn
<1>3. Place(docs, d) \in Nat /\ Place(docs, d) < End /\ Seen = End
  BY <1>1, FinitePlaces DEF NoneBeyond, Seen
<1>4. End \in Nat
  BY Places DEF IInv, TypeOK
<1>5. Place(docs, d) \in 0..(End - 1)
  BY <1>3, <1>4
<1>6. PICK i \in DOMAIN items : items[i].id = d
  BY <1>1, <1>3, <1>5, Zenon DEF Covers
<1>7. DOMAIN items \subseteq Nat
  BY DEF IInv, TypeOK
<1>8. ASSUME NEW j \in DOMAIN items, items[j].id = d PROVE j = i
  <2>1. items[i].key = docs[d].key /\ items[j].key = docs[d].key
    BY <1>1, <1>6, <1>8 DEF Covers
  <2>2. docs[d].key \in Nat
    BY <1>2, KeysAreNumbers DEF IInv, TypeOK, Collections
  <2>3. \A a, b \in DOMAIN items : a < b => items[a].key < items[b].key
    BY <1>1 DEF Covers
  <2>4. ~(i < j) /\ ~(j < i)
    BY <2>1, <2>2, <2>3
  <2> QED
    BY <1>7, <2>4
<1>9. {j \in DOMAIN items : items[j].id = d} = {i}
  BY <1>6, <1>8
<1> QED
  BY <1>9, FS_Singleton DEF TimesListed

LEMMA CoveredIsAscending ==
    ASSUME IInv, Calm
    PROVE  Ascending
  BY DEF IInv, WalkInv, Covers, Ascending

\* A walk to the end, over a collection of any size and with pages of any size, has
\* each document that was there all the time once and in order, whatever was
\* written behind the page being read, before, between or after its two queries.
THEOREM WalksAreComplete == Spec => []WalkListsEach
<1>1. IInv => WalkListsEach
  BY ListedOnce, CoveredIsAscending DEF WalkListsEach, Calm
<1> QED
  BY <1>1, InductiveInvariant, PTL

\* A walk over all executions has each that was there at its start once and in
\* order, whatever the handlers write meanwhile, as long as insertions keep the
\* order of their creation times.
THEOREM QueueWalksAreExact == Spec => []QueueWalkIsExact
<1>1. IInv => QueueWalkIsExact
  <2> SUFFICES ASSUME IInv, ~more, AllExecutions, ~overtaken
               PROVE  Ascending /\ \A d \in initial : TimesListed(d) = 1
    BY DEF QueueWalkIsExact, AllExecutions
  <2>1. Calm /\ kept = initial
    BY DEF Calm, IInv, KeptInv
  <2> QED
    BY <2>1, ListedOnce, CoveredIsAscending
<1> QED
  BY <1>1, InductiveInvariant, PTL

\* The rows and the total of an answer agree, in whichever order its two queries
\* ran, if no write came between them.
THEOREM AnswersAgree == Spec => []PageFitsTotal
<1>1. IInv => PageFitsTotal
  <2> SUFFICES ASSUME IInv, more, awaited = {}, steady
               PROVE  Len(rows) = Min({query.perPage, Max({0, total - (page - 1) * query.perPage})})
    BY DEF PageFitsTotal
  <2>1. Len(rows) = RowsOf(total)
    BY DEF IInv, PageInv
  <2> QED
    BY <2>1, Zenon DEF RowsOf, Limit, Skip
<1> QED
  BY <1>1, InductiveInvariant, PTL
================================================================================
