------------------------------ MODULE MCIntake ------------------------------
(* Symmetry for the model-checking runs of Document Intake, and the requests *)
(* of the run with two tenants, which is about liveness too and has to do    *)
(* without symmetry.                                                         *)
EXTENDS IntakeLedger, TLC

Symmetry ==
  Permutations(Req) \cup Permutations(Doc) \cup Permutations(Digest) \cup Permutations(Org)

First(S) == CHOOSE x \in S : TRUE

\* Documents are created empty, and before uploads begin.  The rest is no
\* restriction, because two documents, requests or organizations are
\* interchangeable: the first one of each is the first to be used.
FewRequests ==
  /\ \A d \in Doc : pc'[d] # "put"
  /\ (\E d \in Doc : pc'[d] \in {"insertDoc", "insertJob"}) => \A r \in Req : pc'[r] = "new"
  /\ \A S \in {Doc, Req} : (\E i \in S : pc'[i] # "new") => pc'[First(S)] # "new"
  /\ arg'[First(Doc)].org \in {None, First(Org)}

TenantsSpec == Init /\ [][Next /\ FewRequests]_vars /\ Fairness
=============================================================================
