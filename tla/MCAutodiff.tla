----------------------------- MODULE MCAutodiff -----------------------------
(* Model-checking instance of AutodiffTape over the test kernel bodies.    *)
EXTENDS AutodiffTests

MCPrograms == TestPrograms \cup HelperPrograms

(* Lanes are interchangeable: each reads its own inputs from the same      *)
(* choices and the trace is shared.                                        *)
MCLaneSymmetry == Permutations(Lanes)

=============================================================================
