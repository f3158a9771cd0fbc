--------------------------- MODULE MCUserAccounts ---------------------------
EXTENDS UserAccounts

CONSTANTS e1, e2, u1, u2, f1, f2, w1, w2, long

\* Registrations that collide in one key, in both, with the founder or not at
\* all, one with a long password; the founder changes name, password, both in
\* vain, or nothing; a login with more than the 72 bytes that count.
MCCalls ==
  {[kind |-> "register", email |-> e, username |-> u, word |-> w1] :
     e \in {e2}, u \in {u1, u2}}
  \cup {[kind |-> "register", email |-> e1, username |-> u2, word |-> w1],
        [kind |-> "register", email |-> e2, username |-> u2, word |-> long],
        [kind |-> "profile", id |-> Founder, full |-> f2, word |-> None],
        [kind |-> "profile", id |-> Founder, full |-> None, word |-> w2],
        [kind |-> "profile", id |-> Founder, full |-> None, word |-> None],
        [kind |-> "profile", id |-> Founder, full |-> f2, word |-> long],
        [kind |-> "login", email |-> e1, word |-> long]}

MCFoundersRow == [email |-> e1, username |-> u1, full |-> f1,
                  secret |-> [word |-> w1, by |-> Founder], updated |-> Founder]

MCFirst72 == [w \in {w1, w2, long} |-> IF w = long THEN w1 ELSE w]
=============================================================================
