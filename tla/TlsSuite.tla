------------------------------ MODULE TlsSuite ------------------------------
(***************************************************************************)
(* What a TLS file transaction promises: the set of managed files changes  *)
(* only by the installation of a whole bundle at once.  suite[f] is the    *)
(* generation of file f that a caller gets after recovery, Missing when    *)
(* there is no such file.                                                  *)
(***************************************************************************)
EXTENDS Naturals

CONSTANTS Files, Bundles, Generations

Missing == 0

VARIABLE suite

Init == suite \in [Files -> Generations \cup {Missing}]

Install(bundle, generation) ==
  suite' = [f \in Files |-> IF f \in bundle THEN generation ELSE suite[f]]

Next == \E bundle \in Bundles, generation \in Generations : Install(bundle, generation)

Spec == Init /\ [][Next]_suite
=============================================================================
