-------------------------- MODULE MCJournalStream ---------------------------
(* Two processes append, a thread of the API reads, two pages watch.      *)
EXTENDS JournalStream

CONSTANTS w1, w2, r1, p1, p2

Symmetric ==
    Permutations({w1, w2}) \cup Permutations({p1, p2})
=============================================================================
