------------------------------ MODULE MCStorage ------------------------------
(* Small instances of Storage for TLC.                                      *)
EXTENDS Storage, TLC

CONSTANTS s1, s2, p1, p2, q1, q2, q3, f1, f2, t1, t2

MCMark == t1 :> 100 @@ t2 :> 101

\* The linker's files with sections of these sizes in the order of test/script,
\* each beginning gap[k] bytes behind the end of the one before; and some that
\* it does not make: an unknown section, one whose bytes are missing, no text
\* at the beginning.
Names == <<".text", ".rdata", ".data", ".sbss", ".bss">>

Sections(sizes, gap, present) ==
    LET start(k) == FoldSeq(+, 0, SubSeq(sizes, 1, k - 1)) + FoldSeq(+, 0, SubSeq(gap, 1, k)) IN
    [k \in 1..5 |-> [s_name |-> Names[k], s_paddr |-> start(k), s_size |-> sizes[k],
                     s_data |-> present]]

MCCoffFiles ==
    {Sections(<<text, rdata, rwdata, sbss, bss>>, <<0, 0, 0, 0, gap>>, TRUE) :
        text \in {0, 1, 3}, rdata \in {0, 1}, rwdata \in {0, 2}, sbss \in {0, 1}, bss \in {0, 2},
        gap \in {0, 1}}
    \cup {Sections(<<3, 0, 2, 0, 1>>, <<1, 0, 1, 0, 0>>, TRUE),
          Sections(<<3, 0, 2, 0, 1>>, <<0, 0, 0, 0, 0>>, FALSE),
          <<[s_name |-> "other", s_paddr |-> 0, s_size |-> 1, s_data |-> TRUE]>>,
          Reverse(Sections(<<3, 0, 2, 0, 1>>, <<0, 0, 0, 0, 0>>, TRUE))}

PagingSymmetry == Permutations(Spaces) \cup Permutations(Pages)

FileSymmetry == Permutations(Files)
=============================================================================
