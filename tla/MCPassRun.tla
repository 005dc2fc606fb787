----------------------------- MODULE MCPassRun -----------------------------
(***************************************************************************)
(* Small instances of PassRun for TLC.                                     *)
(***************************************************************************)
EXTENDS PassRun

\* Every graph of NPass passes without parallel edges whose edges go from a
\* pass to an earlier one, as the sequence of AddDependency calls.
SimpleGraphs ==
  LET Pairs == {[pass |-> p, depends |-> d] : p, d \in 1..NPass}
      Back  == {e \in Pairs : e.depends < e.pass}
      before(e, f) == \/ e.pass < f.pass
                      \/ e.pass = f.pass /\ e.depends < f.depends
  IN {SetToSortSeq(E, before) : E \in SUBSET Back}

\* One function-dispatched kind over three functions, one default kind.
MCKinds == {"Default", "Function"}
MCItems == [k \in MCKinds |-> IF k = "Default" THEN 1 ELSE 3]
=============================================================================
