-------------------------- MODULE DependencyOrder --------------------------
(***************************************************************************)
(* What PassManager::Init() promises, whatever algorithm computes it:      *)
(* once every pass has declared what it depends on, passes are ranked one  *)
(* after the other, none before all the passes it depends on, until either *)
(* all of them have a rank or the pass manager gives up because the        *)
(* declared dependencies are cyclic.                                       *)
(***************************************************************************)
EXTENDS Integers

CONSTANT Pass   \* the registered passes

VARIABLES
  deps,    \* the pairs <<p, d>>: p declared that it depends on d
  rank,    \* the position given to a pass, -1 as long as it has none
  status   \* "declaring", "ranking", "ordered" or "cyclic"

ovars == <<deps, rank, status>>

Unranked == -1
Ranked   == {p \in Pass : rank[p] # Unranked}

Init ==
  /\ deps = {}
  /\ rank = [p \in Pass |-> Unranked]
  /\ status = "declaring"

\* A pass declares a dependency. None can be declared once ranking began.
Declare(p, d) ==
  /\ status = "declaring"
  /\ deps' = deps \union {<<p, d>>}
  /\ UNCHANGED <<rank, status>>

BeginRanking ==
  /\ status = "declaring"
  /\ status' = "ranking"
  /\ UNCHANGED <<deps, rank>>

\* A pass gets a rank above every rank given so far, and only when all the
\* passes it depends on have theirs.
Place(p) ==
  /\ status = "ranking"
  /\ p \notin Ranked
  /\ \A d \in Pass : <<p, d>> \in deps => d \in Ranked
  /\ rank' = [rank EXCEPT ![p] = rank'[p]]
  /\ rank'[p] \in Nat
  /\ \A q \in Ranked : rank[q] < rank'[p]
  /\ UNCHANGED <<deps, status>>

\* The order is complete.
Accept ==
  /\ status = "ranking"
  /\ Ranked = Pass
  /\ status' = "ordered"
  /\ UNCHANGED <<deps, rank>>

\* Each pass without a rank waits for another one that has none.
Reject ==
  /\ status = "ranking"
  /\ Ranked # Pass
  /\ \A p \in Pass \ Ranked : \E d \in Pass \ Ranked : <<p, d>> \in deps
  /\ status' = "cyclic"
  /\ UNCHANGED <<deps, rank>>

Next ==
  \/ \E p, d \in Pass : Declare(p, d)
  \/ BeginRanking
  \/ \E p \in Pass : Place(p)
  \/ Accept
  \/ Reject

Spec == Init /\ [][Next]_ovars
=============================================================================
