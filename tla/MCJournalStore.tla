--------------------------- MODULE MCJournalStore ---------------------------
(* JournalStore for TLC: the processes are model values, no symmetry (JournalSpec *)
(* is checked together with the invariants).                                    *)
EXTENDS JournalStore
=============================================================================
