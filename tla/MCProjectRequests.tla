-------------------------- MODULE MCProjectRequests --------------------------
EXTENDS ProjectRequests

CONSTANTS ann, ben, n1

\* The owner archives, adds and removes the same person, and adds somebody
\* who has no account; somebody else tries to archive.
MCCalls ==
  {<<[kind |-> "transition", arg |-> "archived"], ann>>,
   <<[kind |-> "transition", arg |-> "archived"], ben>>,
   <<[kind |-> "add", arg |-> ben], ann>>,
   <<[kind |-> "remove", arg |-> ben], ann>>,
   <<[kind |-> "add", arg |-> Ghost], ann>>}

MCProjects ==
  {[name |-> n1, status |-> "active", owner |-> ann, members |-> {},
    updated |-> None]}
=============================================================================
