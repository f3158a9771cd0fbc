--------------------------- MODULE MCTaskCreation ---------------------------
EXTENDS TaskCreation

CONSTANTS ann, ben, n1

\* An active project, its owner and one member.
MCProject == [name |-> n1, status |-> "active", owner |-> ann,
              members |-> {ben}, updated |-> None]

\* Good calls of both, one with a dangling link and one with a bad due date.
MCCalls == {[caller |-> ann, links |-> "good", due |-> "fit"],
            [caller |-> ben, links |-> "good", due |-> "fit"],
            [caller |-> ann, links |-> "dangling", due |-> "fit"],
            [caller |-> ann, links |-> "good", due |-> "unfit"]}
=============================================================================
