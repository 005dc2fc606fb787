--------------------------- MODULE MCPassManager ---------------------------
(***************************************************************************)
(* A small instance of PassManager for TLC: three passes, registered in    *)
(* any order, dispatched once or over two functions.                       *)
(***************************************************************************)
EXTENDS PassManager

MCKinds == {"Default", "Function"}
MCItems == [k \in MCKinds |-> IF k = "Default" THEN 1 ELSE 2]
=============================================================================
