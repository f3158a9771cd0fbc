---------------------------- MODULE MCTaskQueries ----------------------------
EXTENDS TaskQueries

CONSTANTS t1, t2, a, b

MCDistance == [p \in {t1, t2} \X {t1, t2} |-> IF p[1] = p[2] THEN 0 ELSE 1]

\* Two priorities whose text does not sort by urgency, two texts, two instants:
\* rows made alike share their keys.  Ollama was absent once.
MCBirths ==
  {[priority |-> "low", created |-> 1, text |-> t1, embedded |-> t1],
   [priority |-> "medium", created |-> 2, text |-> t2, embedded |-> t2],
   [priority |-> "medium", created |-> 1, text |-> t1, embedded |-> None]}

MCQueries == {[kind |-> "tasks", filter |-> None, limit |-> 1],
              [kind |-> "tasks", filter |-> "medium", limit |-> 1],
              [kind |-> "newest", filter |-> None, limit |-> 2],
              [kind |-> "newest", filter |-> None, limit |-> -1],
              [kind |-> "search", text |-> t1, limit |-> 1],
              [kind |-> "search", text |-> t2, limit |-> 2],
              [kind |-> "suggest", id |-> 1]}

MCAnswers == {None, <<>>, <<a, Blank, b, a>>, <<a, b, a, b>>}
=============================================================================
