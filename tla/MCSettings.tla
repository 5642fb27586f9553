----------------------------- MODULE MCSettings -----------------------------
(* Symmetry and inputs for the run of Settings.                            *)
EXTENDS Settings, TLC

Symmetric == Permutations(Requests) \cup Permutations(Groups) \cup Permutations(Names)
                \cup Permutations(Perms) \cup Permutations(Values)

\* All reports of the first channel, with and without a new row of the others.
MCLists ==
    LET first == CHOOSE t \in Channels : TRUE
        new   == [time |-> CHOOSE m \in Times : TRUE, isNotified |-> FALSE]
    IN  {list \in [Channels -> Inactive \cup {None}] :
            \A t \in Channels \ {first} : list[t] \in {None, new}}
=============================================================================
