----------------------------- MODULE IconStore -----------------------------
(***************************************************************************)
(* What the icon handlers promise about the Icon table and the icons of    *)
(* the voice server together, with no requests, transactions or messages:  *)
(* a row is made only for an icon the voice server has had and that has no *)
(* row, and one that is not a month old goes only if its icon has been     *)
(* missing on the voice server since the row was made.                     *)
(***************************************************************************)
CONSTANTS Icons, Uuids, None, Gone

VARIABLES
    store,   \* the icons of the voice server
    table,   \* table[u]: row u, None before and Gone after its life
    had,     \* the icons the voice server has ever had
    missed   \* the rows whose icon was missing during their life

svars == <<store, table, had, missed>>

Entry == [ts : Icons, old : BOOLEAN]

Live     == {u \in Uuids : table[u] \in Entry}
Off      == {u \in Live : table[u].ts \notin store}
Recorded == {table[u].ts : u \in Live}

Init == /\ store \in SUBSET Icons
        /\ table \in [Uuids -> {None, Gone} \cup Entry]
        /\ had = store \cup Recorded
        /\ missed = Off

\* Nobody but people and the bot change the icons of the voice server.
Serve == /\ store' \in SUBSET Icons
         /\ UNCHANGED table

\* The rows in struck go and new ones come, one for each icon in added.
Write(struck, added) ==
    /\ added \subseteq had \ {table[u].ts : u \in Live \ struck}
    /\ \E of \in [added -> {u \in Uuids : table[u] = None}] :
          /\ \A i, j \in added : of[i] = of[j] => i = j
          /\ table' = [u \in Uuids |->
                IF u \in struck THEN Gone
                ELSE IF \E i \in added : of[i] = u
                     THEN [ts |-> CHOOSE i \in added : of[i] = u, old |-> FALSE]
                     ELSE table[u]]
    /\ UNCHANGED store

Strike(u) == u \in Live \cap missed /\ Write({u}, {})
Record    == \E added \in SUBSET Icons : Write({}, added)
Purge     == \E added \in SUBSET Icons : Write({u \in Live : table[u].old}, added)

Next == /\ \/ Serve \/ Record \/ Purge
           \/ \E u \in Uuids : Strike(u)
        /\ had'    = had \cup store'
        /\ missed' = missed \cup Off'

Spec == Init /\ [][Next]_svars
=============================================================================
