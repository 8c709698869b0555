------------------------------ MODULE MCMessages -------------------------------
\* Two users, one of them a moderator, and a message of each; the first mentions
\* the other user.
EXTENDS Messages
CONSTANTS u1, u2, m1, m2
MCAuthor == [id \in Ids |-> IF id = m1 THEN u1 ELSE u2]
MCMentions == [id \in Ids |-> IF id = m1 THEN {u2} ELSE {}]
================================================================================
