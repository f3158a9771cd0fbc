-------------------------- MODULE MCProjectCreation --------------------------
EXTENDS ProjectCreation

CONSTANTS n1, n2, odd, s1, e

\* "My App" and "my-app" are one slug; a name of punctuation has an empty one.
MCSlugOf == [n \in {n1, n2, odd} |-> CASE n = odd -> e [] OTHER -> s1]

\* Names that collide, by themselves, with a given slug, or in nothing but
\* punctuation, and a slug that is not sound.
MCCalls == {[name |-> n1, slug |-> None],
            [name |-> odd, slug |-> n2],
            [name |-> odd, slug |-> None],
            [name |-> n1, slug |-> odd]}
=============================================================================
