-------------------------------- MODULE Listing --------------------------------
(***************************************************************************)
(* GET /parts and GET /executions: a client that asks for page after page  *)
(* while documents are created, edited, moved on and deleted.              *)
(* A page is two queries that nothing ties together, the rows and their    *)
(* total, over a sort key that need not be unique.  One query is taken to  *)
(* see one state of its collection (external: MongoDB).                    *)
(***************************************************************************)
EXTENDS Integers, Sequences, FiniteSets, SequencesExt, FiniteSetsExt

CONSTANTS
    Docs,       \* ids of parts, or of executions
    MaxKey,     \* names and times are 1..MaxKey, in the order they sort in
    Searched,   \* the names that the search pattern matches
    PageSizes,  \* what clients ask for, out of the 1..100 that validation lets through
    MaxChanges  \* writes to the collection during a walk

ASSUME ListingType ==
    /\ MaxKey \in Nat /\ Searched \subseteq 1..MaxKey
    /\ PageSizes \subseteq 1..100
    /\ MaxChanges \in Nat

\* A collection is finite.
ASSUME DocsFinite == IsFiniteSet(Docs)

VARIABLES
    query,      \* what the client lists, the same on every page
    docs,       \* the collection: an id's sort key (name, createdAt) and state
    born,       \* born[d]: the createdAt of an execution not inserted yet, or 0
    clock,
    page,       \* the page the client has asked for
    awaited,    \* which queries of this page have not returned
    rows,       \* what its find returned
    total,      \* what its count returned
    items,      \* what the client has read
    more,       \* whether it goes on
    \* History, read by properties only:
    changes,
    steady,     \* no write between the two queries of this page
    kept,       \* the documents that matched all the time
    initial,    \* those that matched at the start
    disturbed,  \* a document left or entered the pages asked for, or keys were equal
    overtaken   \* an execution inserted after one with as late a createdAt

answer  == <<awaited, rows, total>>
client  == <<page, items, more>>
history == <<steady, kept, initial, disturbed, overtaken>>
vars    == <<query, docs, born, clock, answer, client, changes, history>>

Statuses == {"QUEUED", "IN_REPAIR", "COMPLETED"}  \* two of the five others as one
Absent   == [key |-> 0, state |-> "absent"]
Both     == {"find", "count"}
Row      == [id: Docs, key: 1..MaxKey]

Queries == [of: {"parts"}, perPage: PageSizes, search: BOOLEAN]
      \cup [of: {"executions"}, perPage: PageSizes, status: Statuses \cup {"any"}]

States == IF query.of = "parts" THEN {"live", "deleted"} ELSE Statuses

-----------------------------------------------------------------------------
(* The two queries. *)

\* The filter of list, in either repository.
Matches(d) ==
    IF query.of = "parts"
    THEN d.state = "live" /\ (query.search => d.key \in Searched)
    ELSE d.state # "absent" /\ query.status \in {"any", d.state}

MatchingIn(c) == {d \in Docs : Matches(c[d])}
Matching      == MatchingIn(docs)

\* Plausible slip: the latest first.
InOrder_Latest(d, e) == docs[d].key >= docs[e].key

\* sort({ name: 1 }), sort({ createdAt: 1 }).
InOrder(d, e) == docs[d].key <= docs[e].key

\* Every result the sort may have: documents of one key come in any order.
Sorted == {s \in SetToSeqs(Matching) : IsSorted(s, InOrder)}

\* Plausible slip: pages counted from 0.
Skip_FromZero == page * query.perPage

Skip == (page - 1) * query.perPage

\* Plausible slip: one row more, to see whether there is another page.
Limit_OneMore == query.perPage + 1

Limit == query.perPage

\* How many rows that leaves of n.
RowsOf(n) == Min({Limit, Max({0, n - Skip})})

\* .skip(..).limit(..), and toEntity of each row.
Page(s) ==
    [i \in 1..RowsOf(Len(s)) |->
        [id |-> s[Skip + i], key |-> docs[s[Skip + i]].key]]

Query == docs' = docs /\ UNCHANGED <<query, born, clock, client, changes, kept, initial,
                                     disturbed, overtaken>>

Find ==
    /\ more /\ "find" \in awaited
    /\ awaited' = awaited \ {"find"}
    /\ \E s \in Sorted : rows' = Page(s)
    /\ steady' = (awaited = Both \/ steady)
    /\ UNCHANGED total /\ Query

\* Plausible slip: the whole collection is counted.
Count_All ==
    /\ more /\ "count" \in awaited
    /\ awaited' = awaited \ {"count"}
    /\ total' = Cardinality({d \in Docs : docs[d] # Absent})
    /\ steady' = (awaited = Both \/ steady)
    /\ UNCHANGED rows /\ Query

Count ==
    /\ more /\ "count" \in awaited
    /\ awaited' = awaited \ {"count"}
    /\ total' = Cardinality(Matching)
    /\ steady' = (awaited = Both \/ steady)
    /\ UNCHANGED rows /\ Query

\* Promise.all has both: the client reads the answer, and asks for the next page
\* while the total says that there is one.
Reply ==
    /\ more /\ awaited = {}
    /\ items' = items \o rows
    /\ more' = (page * query.perPage < total)
    /\ page' = IF more' THEN page + 1 ELSE page
    /\ awaited' = Both /\ rows' = <<>> /\ total' = 0
    /\ UNCHANGED <<query, docs, born, clock, changes, history>>

-----------------------------------------------------------------------------
(* What others do to the collection meanwhile. *)

Before(c, d) == {e \in MatchingIn(c) : c[e].key < c[d].key}

\* How many documents stand in front of d.
Place(c, d) == Cardinality(Before(c, d))

\* The places up to the end of the page the client has asked for.
End == page * query.perPage

\* d stands on a page the client has asked for.
OnPage(c, d) == d \in MatchingIn(c) /\ Place(c, d) < End

InFront(c, d) == OnPage(c, d) /\ \E e \in MatchingIn(c) : c[e].key > c[d].key

Tied(c) == \E d, e \in MatchingIn(c) : d # e /\ c[d].key = c[e].key

Write(d, doc) ==
    /\ more /\ changes < MaxChanges
    /\ doc # docs[d]
    /\ docs' = [docs EXCEPT ![d] = doc]
    /\ changes' = changes + 1
    /\ steady' = FALSE
    /\ kept' = kept \cap MatchingIn(docs')
    /\ disturbed' = (disturbed \/ OnPage(docs, d) \/ InFront(docs', d) \/ Tied(docs'))
    /\ UNCHANGED <<query, answer, client, initial>>

CreatePart(d) ==
    /\ query.of = "parts" /\ docs[d] = Absent
    /\ \E k \in 1..MaxKey : Write(d, [key |-> k, state |-> "live"])
    /\ UNCHANGED <<born, clock, overtaken>>

\* A part is renamed, deleted, or put back by a writer that had read it earlier.
EditPart(d) ==
    /\ query.of = "parts" /\ docs[d] # Absent
    /\ \E k \in 1..MaxKey, s \in States : Write(d, [key |-> k, state |-> s])
    /\ UNCHANGED <<born, clock, overtaken>>

\* Execution.start takes the time, and create inserts the document later.
StartExecution(d) ==
    /\ query.of = "executions" /\ docs[d] = Absent /\ born[d] = 0
    /\ more
    /\ born' = [born EXCEPT ![d] = clock]
    /\ UNCHANGED <<query, docs, clock, answer, client, changes, history>>

InsertExecution(d) ==
    /\ born[d] # 0 /\ docs[d] = Absent
    /\ Write(d, [key |-> born[d], state |-> "QUEUED"])
    /\ overtaken' = (overtaken \/ \E e \in Docs : docs[e].key >= born[d])
    /\ UNCHANGED <<born, clock>>

\* A status call.  createdAt is written back as it was read.
MoveExecution(d) ==
    /\ query.of = "executions" /\ docs[d] # Absent
    /\ \E s \in States \ {"QUEUED"} : Write(d, [docs[d] EXCEPT !.state = s])
    /\ UNCHANGED <<born, clock, overtaken>>

Tick ==
    /\ query.of = "executions" /\ more
    /\ clock < MaxKey
    /\ clock' = clock + 1
    /\ UNCHANGED <<query, docs, born, answer, client, changes, history>>

-----------------------------------------------------------------------------
\* The client asks for the first page of any collection; validation has let the
\* page number and the page size through.
Init ==
    /\ query \in Queries
    /\ clock \in 1..MaxKey
    /\ docs \in [Docs -> {Absent} \cup [key: 1..clock, state: States]]
    /\ ~Tied(docs)
    /\ born = [d \in Docs |-> 0]
    /\ awaited = Both /\ rows = <<>> /\ total = 0
    /\ page = 1 /\ items = <<>> /\ more = TRUE
    /\ changes = 0 /\ steady = TRUE
    /\ kept = Matching /\ initial = Matching
    /\ disturbed = FALSE /\ overtaken = FALSE

Next ==
    \/ Find \/ Count \/ Reply
    \/ \E d \in Docs : CreatePart(d) \/ EditPart(d) \/ StartExecution(d)
                       \/ InsertExecution(d) \/ MoveExecution(d)
    \/ Tick

Spec == Init /\ [][Next]_vars

-----------------------------------------------------------------------------
(* Properties. *)

TypeOK ==
    /\ query \in Queries
    /\ docs \in [Docs -> {Absent} \cup [key: 1..MaxKey, state: States]]
    /\ born \in [Docs -> 0..MaxKey] /\ clock \in 1..MaxKey
    /\ page \in Nat \ {0}
    /\ awaited \subseteq Both
    /\ rows \in Seq(Row) /\ Len(rows) <= query.perPage
    /\ total \in 0..Cardinality(Docs)
    /\ items \in Seq(Row)
    /\ more \in BOOLEAN

TimesListed(d) == Cardinality({i \in DOMAIN items : items[i].id = d})

Ascending == \A i, j \in DOMAIN items : i < j => items[i].key < items[j].key

\* A walk to the end has each document that was there all the time once, and in
\* order, whatever else changed behind the page being read, in either query of it.
WalkListsEach ==
    (~more /\ ~disturbed) => Ascending /\ \A d \in kept : TimesListed(d) = 1

\* The queue of executions without a status filter only grows at its end: nothing
\* any handler does repeats or hides an execution that was there when the walk
\* began, as long as insertions keep the order of their creation times.
QueueWalkIsExact ==
    (~more /\ query.of = "executions" /\ query.status = "any" /\ ~overtaken) =>
        Ascending /\ \A d \in initial : TimesListed(d) = 1

\* The two halves of an answer agree, however they were ordered, if no write came
\* between them.
PageFitsTotal ==
    (more /\ awaited = {} /\ steady) =>
        Len(rows) = Min({query.perPage, Max({0, total - (page - 1) * query.perPage})})

-----------------------------------------------------------------------------
(* The inductive invariant.  As long as nothing happened behind the page     *)
(* being read, a document keeps its place.                                   *)

AllExecutions == query.of = "executions" /\ query.status = "any"

\* A condition under which no document in front of the end of the page moves.
Calm == ~disturbed \/ (AllExecutions /\ ~overtaken)

\* s shows documents as they are, at places from..to-1 and in order, and leaves out
\* none that was there all the time.
Covers(s, from, to) ==
    /\ \A i \in DOMAIN s : \E d \in Matching :
          s[i].id = d /\ s[i].key = docs[d].key /\ Place(docs, d) \in from..(to - 1)
    /\ \A i, j \in DOMAIN s : i < j => s[i].key < s[j].key
    /\ \A d \in kept :
          Place(docs, d) \in from..(to - 1) => \E i \in DOMAIN s : s[i].id = d

\* The places the client has been through.
Seen == IF more THEN Skip ELSE End

\* None of the documents that were there all the time is on a later page.
NoneBeyond == \A d \in kept : Place(docs, d) < End

WalkInv ==
    Calm =>
        /\ ~Tied(docs)
        /\ Covers(items, 0, Seen)
        /\ more /\ "find" \notin awaited => Covers(rows, Skip, End)
        /\ more /\ "count" \notin awaited /\ total <= End => NoneBeyond
        /\ ~more => NoneBeyond

\* What was read since the last write is what is there now.
PageInv ==
    steady =>
        /\ "find" \notin awaited => Len(rows) = RowsOf(Cardinality(Matching))
        /\ "count" \notin awaited => total = Cardinality(Matching)

KeptInv ==
    /\ kept \subseteq Matching
    /\ AllExecutions => kept = initial

OnlyExecutionsStart == query.of = "parts" => \A d \in Docs : born[d] = 0

IInv == TypeOK /\ OnlyExecutionsStart /\ KeptInv /\ PageInv /\ WalkInv
=============================================================================
