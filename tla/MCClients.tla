------------------------------ MODULE MCClients ------------------------------
(* Symmetry for the runs of Clients.                                       *)
EXTENDS Clients, TLC

Symmetry == Permutations(Requests) \cup Permutations(Idents) \cup Permutations(TokenIds)
                \cup Permutations(Users)
=============================================================================
