---------------------------- MODULE UploadLedger ----------------------------
(***************************************************************************)
(* What Document Intake promises about an upload, whatever happens inside: *)
(* an upload may first be intended, with a target (organization, document, *)
(* object) that is settled from then on; it is accepted at most once; and  *)
(* in the very step that accepts it one notice about it, carrying the      *)
(* accepted metadata, is issued.  Nothing accepted or issued is ever       *)
(* changed or withdrawn.                                                   *)
(***************************************************************************)
CONSTANTS
  Upload,   \* upload ids
  Notice,   \* notice ids
  Target,   \* where an upload goes
  Measure,  \* what was uploaded: size and checksum
  Nothing   \* no target, no measure, no notice

VARIABLES
  stage,    \* "none", "intended" or "accepted", per upload
  target,   \* per upload
  measure,  \* per upload, once accepted
  notices   \* issued notices, by id

vars == <<stage, target, measure, notices>>

Init ==
  /\ stage = [u \in Upload |-> "none"]
  /\ target = [u \in Upload |-> Nothing]
  /\ measure = [u \in Upload |-> Nothing]
  /\ notices = [i \in Notice |-> Nothing]

Intend(u) ==
  /\ stage[u] = "none"
  /\ stage' = [stage EXCEPT ![u] = "intended"]
  /\ \E t \in Target : target' = [target EXCEPT ![u] = t]
  /\ UNCHANGED <<measure, notices>>

Accept(u) ==
  /\ stage[u] \in {"none", "intended"}
  /\ stage' = [stage EXCEPT ![u] = "accepted"]
  /\ \E t \in IF stage[u] = "none" THEN Target ELSE {target[u]} :
       /\ target' = [target EXCEPT ![u] = t]
       /\ \E m \in Measure, i \in Notice :
            /\ measure' = [measure EXCEPT ![u] = m]
            /\ notices[i] = Nothing
            /\ notices' = [notices EXCEPT ![i] = <<u, t, m>>]

Next == \E u \in Upload : Intend(u) \/ Accept(u)

Spec == Init /\ [][Next]_vars
=============================================================================
