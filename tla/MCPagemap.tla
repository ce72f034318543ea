----------------------------- MODULE MCPagemap -----------------------------
EXTENDS Pagemap, TLC

CONSTANTS p1, p2, p3, p4

\* Free pages are interchangeable.
Symmetry == Permutations(Frames)

NoMemfd == << >>
OneMemfd == [i \in {0} |-> p1]
=============================================================================
