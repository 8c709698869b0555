--------------------------- MODULE MCDesktopView ---------------------------
\* DesktopView for TLC: conversations and background tasks are interchangeable.
EXTENDS DesktopView, TLC

Symmetry == Permutations(Conversations) \cup Permutations(Tasks)

\* Bound: a timeline of more than one page in an account of one conversation, two changes to
\* messages next to changes of the selection, or one next to two changes of the rows.
Scope ==
    \/ version = 0 /\ Cardinality(joined) = 1 /\ missed = {}
    \/ LogChanges = 2 /\ version = 0 /\ Cardinality(missed) <= 1
    \/ LogChanges <= 1
=============================================================================
