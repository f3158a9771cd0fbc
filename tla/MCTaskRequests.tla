--------------------------- MODULE MCTaskRequests ---------------------------
EXTENDS TaskRequests

CONSTANTS alice, bob, low, high, t1, t2

MCNormal == [x \in Tag |-> x]

NoTags == [x \in Tag |-> 0]

MCTagLists == {[x \in Tag |-> 1]}

NoPatch == [title |-> None, tags |-> None, priority |-> None, due |-> None]

\* One of each kind of operation, the refused, the failing and the empty
\* included, by the owner; and one by somebody who may or may not be a member.
MCCalls ==
  {<<[kind |-> "transition", arg |-> s], alice>> :
     s \in {"in_progress", "done", "cancelled", "backlog"}}
  \cup {<<[kind |-> "assign", arg |-> u], alice>> : u \in {bob, Ghost}}
  \cup {<<[kind |-> "patch", arg |-> p], alice>> :
          p \in {NoPatch, [NoPatch EXCEPT !.priority = high],
                 [NoPatch EXCEPT !.tags = [x \in Tag |-> 1], !.due = 3]}}
  \cup {<<[kind |-> "unassign", arg |-> None], alice>>,
        <<[kind |-> "patch", arg |-> [NoPatch EXCEPT !.title = t2]], bob>>}

\* A task in the backlog, one in review and a cancelled one, as earlier
\* requests left them.
Fresh == [title |-> t1, tags |-> NoTags, status |-> "backlog", priority |-> low,
          assignee |-> None, due |-> None,
          started |-> None, completed |-> None, updated |-> 0]
InReview == [Fresh EXCEPT !.status = "in_review", !.started = 1, !.updated = 2,
                          !.assignee = alice]
Cancelled == [InReview EXCEPT !.status = "cancelled"]

MCTasks == {Fresh, InReview, Cancelled}

MCTimes == 1..6
=============================================================================
