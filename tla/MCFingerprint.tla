--------------------------- MODULE MCFingerprint ---------------------------
(* Three documents: two with the same content, of which the third has a      *)
(* similar and then the same one.                                            *)
EXTENDS Fingerprint, TLC

CONSTANTS d1, d2, d3, e1, e2, e3, x, y

MCDoc == {d1, d2, d3}
MCEvent == {e1, e2, e3}
MCContent == {x, y}
MCSimilar == {{x, y}}
MCDocOf == (e1 :> d1) @@ (e2 :> d2) @@ (e3 :> d3)
MCUploads == (e1 :> <<x>>) @@ (e2 :> <<x>>) @@ (e3 :> <<y, x>>)

Symmetry == Permutations(Worker)
=============================================================================
