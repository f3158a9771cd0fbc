----------------------------- MODULE TaskQueries -----------------------------
(***************************************************************************)
(* What one reader gets to see of a table that other requests change       *)
(* meanwhile: a list read page by page, a semantic search, suggestions for *)
(* one task.  Readers change nothing, so one stands for all.               *)
(*                                                                         *)
(* A row is a task; in the lists that are newest first (of projects, of    *)
(* users) it stands for one of theirs.  Rows are numbered in the order of  *)
(* their commits.  created_at is set when the object is made, long before  *)
(* that, so a row may turn up anywhere in a list; and it is no key: rows   *)
(* made at one instant (and, in the lists of tasks, of one priority) share *)
(* a place, and each SELECT puts such rows in an order of its own.         *)
(***************************************************************************)
EXTENDS Integers, FiniteSets, SequencesExt

CONSTANTS MaxRows,   \* bound: rows there will ever be
          MaxEdits,  \* bound: changes of existing rows
          Text,      \* title and description
          Item,      \* subtask titles a language model may propose
          Blank,     \* an entry without text
          Answers,   \* what the model may answer: entries, or None for no list
          Distance,  \* between a text's vector and a query's
          Instant,   \* what created_at may be
          Births,    \* rows as creations store them
          Queries,   \* what the reader may ask
          None

Id == 1..MaxRows

Priority == {"critical", "high", "medium", "low"}

\* embedded: the text the stored vector was made of.
Row == [priority: Priority, created: Instant, text: Text,
        embedded: Text \cup {None}]

\* What the endpoints let through: a page of tasks has at least one row; the
\* limit of the other lists may be any number.
Query == [kind: {"tasks"}, filter: Priority \cup {None}, limit: Nat \ {0}]
    \cup [kind: {"newest"}, filter: Priority \cup {None}, limit: Int]
    \cup [kind: {"search"}, text: Text, limit: Nat \ {0}]
    \cup [kind: {"suggest"}, id: Id]

ASSUME QueriesAssumption ==
  /\ MaxRows \in Nat /\ MaxEdits \in Nat /\ Instant \subseteq Nat
  /\ Distance \in [Text \X Text -> Nat]
  /\ None \notin Text \cup Item \cup Row \cup Query
  /\ Blank \notin Item
  /\ Answers \subseteq Seq(Item \cup {Blank}) \cup {None}
  /\ Births \subseteq {row \in Row : row.embedded \in {row.text, None}}
  /\ Queries \subseteq Query

VARIABLES rows,   \* the committed rows
          edits,  \* how many changes there have been
          phase,  \* how far the reader is
          query,  \* what it asks
          shown,  \* what it has been shown: rows, or suggestions
          first,  \* history: rows that matched when it read its first page
          since   \* history: what happened to the table since then

vars == <<rows, edits, phase, query, shown, first, since>>
table == <<rows, edits>>
history == <<first, since>>

\* refused: 422; missing: 404; error: 500.
EndPhase == {"done", "refused", "missing", "error"}

Stored == {i \in Id : rows[i] # None}

\* ORDER BY priority compares text.
Alphabetical == <<"critical", "high", "low", "medium">>
Place(p) == CHOOSE i \in 1..4 : Alphabetical[i] = p

\* ORDER BY priority, created_at DESC for tasks, created_at DESC otherwise:
\* there is no third key, so two rows may each not be before the other.
Before(i, j) ==
  LET p == Place(rows[i].priority)
      q == Place(rows[j].priority)
  IN IF query.kind = "tasks"
     THEN p < q \/ (p = q /\ rows[i].created > rows[j].created)
     ELSE rows[i].created > rows[j].created

SameKeys(i, j) == ~Before(i, j) /\ ~Before(j, i)

\* The WHERE clause, with its optional filter.
Matches(i) == query.filter \in {None, rows[i].priority}

Found == {i \in Stored : Matches(i)}

\* The orders in which a SELECT may return some rows.
Sorted(S) ==
  {s \in Bijection(1..Cardinality(S), S) :
     \A m, n \in DOMAIN s : m < n => ~Before(s[n], s[m])}

Listings == Sorted(Found)

\* Faulty variants: the first row of each page is skipped; a page is cut out
\* before the filter is applied.
PagesFromNext(from) ==
  {SubSeq(s, from + 2, Min({from + query.limit + 1, Len(s)})) : s \in Listings}

PagesThenFilter(from) ==
  {SelectSeq(SubSeq(s, from + 1, Min({from + query.limit, Len(s)})), Matches) :
     s \in Sorted(Stored)}

\* OFFSET and LIMIT.  Every page is cut out of a listing of its own.
Pages(from) ==
  {SubSeq(s, from + 1, Min({from + query.limit, Len(s)})) : s \in Listings}

Embedded == {i \in Stored : rows[i].embedded # None}

\* Cosine distance of the stored vector.
Far(i) == Distance[rows[i].embedded, query.text]

\* ORDER BY distance; ties fall as they like.
NearestFirst(s) ==
  /\ \A i, j \in DOMAIN s : i < j => Far(s[i]) <= Far(s[j])
  /\ \A i \in DOMAIN s, u \in Embedded \ Range(s) : Far(s[i]) <= Far(u)

\* The elements of a finite set in a total order: the n-th has n - 1 before it.
InOrder(S, order) ==
  [n \in 1..Cardinality(S) |->
     CHOOSE x \in S : Cardinality({y \in S : <<y, x>> \in order}) = n - 1]

\* The entries of an answer at some positions, in their order.
EntriesAt(answer, positions) ==
  LET at == InOrder(positions, {pair \in positions \X positions : pair[1] < pair[2]})
  IN [n \in DOMAIN at |-> answer[at[n]]]

NotBlank(answer) == {n \in DOMAIN answer : answer[n] # Blank}

\* Faulty variant: whatever the model says, blanks apart.
AllItems(answer) ==
  IF answer = None THEN <<>> ELSE EntriesAt(answer, NotBlank(answer))

\* The first three entries, blank ones dropped; nothing if there is no list.
Sanitized(answer) ==
  IF answer = None THEN <<>> ELSE EntriesAt(answer, NotBlank(answer) \cap 1..3)

Init ==
  /\ rows = [i \in Id |-> None]
  /\ edits = 0
  /\ phase = "idle"
  /\ query = None
  /\ shown = <<>>
  /\ first = {}
  /\ since = "nothing"

\* create_task commits, with the embedding if there is one.
Create(i) ==
  /\ rows[i] = None
  /\ \A j \in 1..(i - 1) : rows[j] # None
  /\ \E row \in Births : rows' = [rows EXCEPT ![i] = row]
  /\ since' = IF since = "nothing" THEN "creations" ELSE since
  /\ UNCHANGED <<edits, phase, query, shown, first>>

\* update_task commits; the embedding stays what it was.
Edit(i) ==
  /\ rows[i] # None
  /\ edits < MaxEdits
  /\ \E t \in Text, p \in Priority :
       rows' = [rows EXCEPT ![i].text = t, ![i].priority = p]
  /\ rows' # rows
  /\ edits' = edits + 1
  /\ since' = "edits"
  /\ UNCHANGED <<phase, query, shown, first>>

\* A question about one task first looks the task up.
Ask ==
  /\ phase = "idle"
  /\ query' \in Queries
  /\ phase' = CASE query'.kind = "search" -> "embedding"
                [] query'.kind = "suggest" /\ query'.id \notin Stored -> "missing"
                [] query'.kind = "suggest" /\ query'.id \in Stored -> "thinking"
                [] OTHER -> "paging"
  /\ UNCHANGED <<table, shown, history>>

\* The client asks for page after page, until one is not full.
ShowPage ==
  \E page \in Pages(Len(shown)) :
    /\ shown' = shown \o page
    /\ phase' = IF Len(page) < query.limit THEN "done" ELSE "between"

ReadPage ==
  /\ phase = "paging"
  /\ query.limit >= 0
  /\ ShowPage
  /\ first' = Found
  /\ since' = "nothing"
  /\ UNCHANGED <<table, query>>

ReadOn ==
  /\ phase = "between"
  /\ ShowPage
  /\ UNCHANGED <<table, query, history>>

\* PostgreSQL refuses a negative LIMIT, and nothing catches that.
LimitRefused ==
  /\ phase = "paging"
  /\ query.limit < 0
  /\ phase' = "error"
  /\ UNCHANGED <<table, query, shown, history>>

\* Ollama gives a vector of the right dimension, another one, or nothing,
\* which is answered with a ValidationError.
EmbedQuery ==
  /\ phase = "embedding"
  /\ phase' \in {"embedded", "misembedded", "refused"}
  /\ UNCHANGED <<table, query, shown, history>>

\* The statement that joins tasks and embeddings.
Search ==
  /\ phase = "embedded"
  /\ \E s \in Injection(1..Min({query.limit, Cardinality(Embedded)}), Embedded) :
       /\ NearestFirst(s)
       /\ shown' = s
  /\ phase' = "done"
  /\ UNCHANGED <<table, query, history>>

\* The column's type refuses a vector of another dimension.
SearchFails ==
  /\ phase = "misembedded"
  /\ phase' = "error"
  /\ UNCHANGED <<table, query, shown, history>>

\* The model answers, or fails: either way the client gets a list.
Suggest ==
  /\ phase = "thinking"
  /\ \E answer \in Answers : shown' = Sanitized(answer)
  /\ phase' = "done"
  /\ UNCHANGED <<table, query, history>>

Next ==
  \/ \E i \in Id : Create(i) \/ Edit(i)
  \/ Ask
  \/ ReadPage \/ ReadOn \/ LimitRefused
  \/ EmbedQuery \/ Search \/ SearchFails
  \/ Suggest

Spec == Init /\ [][Next]_vars
-----------------------------------------------------------------------------
\* Every variable has its type; what is shown are rows there are, or at most
\* three suggestions, none of them blank (ai_service.py:162-167).
TypeOK ==
  /\ rows \in [Id -> Row \cup {None}]
  /\ edits \in 0..MaxEdits
  /\ phase \in {"idle", "paging", "between", "embedding", "embedded",
                "misembedded", "thinking"} \cup EndPhase
  /\ query \in Queries \cup {None}
  /\ shown # <<>> => IF query.kind = "suggest"
                     THEN shown \in BoundedSeq(Item, 3)
                     ELSE Range(shown) \subseteq Stored
  /\ first \subseteq Stored
  /\ since \in {"nothing", "creations", "edits"}

Listed == phase = "done" /\ query.kind \in {"tasks", "newest"}

\* Where the keys of a row allow it to stand in a listing: behind the rows that
\* are before it, among those it shares its keys with.
MayStand(i, n) ==
  /\ Cardinality({j \in Found : Before(j, i)}) < n
  /\ n <= Cardinality({j \in Found : ~Before(i, j)})

\* When nothing was committed between the first page and the last, the pages
\* put together are as long as the list, and each row stands where its keys
\* allow; they are the list itself, each row once, when they are one page or
\* when no two rows share their keys.  They need not be it otherwise: of two
\* rows with equal keys one may end one page and begin the next, and the other
\* never come (task_repository.py:76-82, project_repository.py:135-141).
UndisturbedListIsExact ==
  Listed /\ since = "nothing" =>
    /\ Len(shown) = Cardinality(Found)
    /\ \A n \in DOMAIN shown : shown[n] \in Found /\ MayStand(shown[n], n)
    /\ \/ Len(shown) < query.limit
       \/ \A i, j \in Found : SameKeys(i, j) => i = j
       => shown \in Listings

\* When rows were only created in between, wherever in the list they turned up,
\* a row that matched at the first page is missing only if one with the same
\* keys is shown; rows may come twice, since the pages move under the reader
\* (task_repository.py:79-81).
CreationsHideOnlyTies ==
  Listed /\ since # "edits" =>
    \A i \in first : \E j \in Range(shown) : SameKeys(i, j)

\* task_embedding.py:47: "updated when task title/description changes".
EmbeddingFollowsText ==
  \A i \in Stored : rows[i].embedded \in {None, rows[i].text}
=============================================================================
