------------------------------ MODULE MCIcons ------------------------------
(* Symmetry for the run of Icons, and an icon with the number of a group.  *)
EXTENDS Icons, TLC

MCSameNumber == Groups \X {CHOOSE i \in Icons : TRUE}

Symmetric == Permutations(Requests) \cup Permutations(Uuids \ Older)
=============================================================================
