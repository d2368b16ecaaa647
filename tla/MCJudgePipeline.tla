--------------------------- MODULE MCJudgePipeline ---------------------------
(* Model values and symmetry for the runs of JudgePipeline. *)
EXTENDS JudgePipeline, TLC

CONSTANTS
    api, n1, n2,        \* one API process, two judge nodes
    s1                  \* a submission

(* The nodes are interchangeable; sound for the safety run, the only one to use it. *)
NodeSymmetry == Permutations({n1, n2})
=============================================================================
