----------------------------- MODULE MCLocalCache ------------------------------
\* A text message, a draft, two tasks, and the switch on and off three times.
EXTENDS LocalCache, TLC
WriterSymmetry == Permutations(Writers)
================================================================================
