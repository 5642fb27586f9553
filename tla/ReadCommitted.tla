--------------------------- MODULE ReadCommitted ---------------------------
(***************************************************************************)
(* One table of PostgreSQL under READ COMMITTED, with the statements that  *)
(* TypeORM makes of delete and save.  A statement sees what was committed  *)
(* when it began and what its own transaction wrote; it waits for a row    *)
(* that another transaction has written, then takes the row as updated, and *)
(* passes over one deleted or inserted anew.  A step that has to wait is   *)
(* not enabled.                                                            *)
(***************************************************************************)
CONSTANTS Requests, Keys, None

VARIABLES
    table,    \* table[k]: the committed row with primary key k, or None
    writer,   \* writer[k]: the transaction with an uncommitted write of k
    draft,    \* draft[k]: what it wrote
    killed,   \* killed[k]: it did not update the row it found but deleted it
    scan,     \* scan[r]: the rows the statement of r began with and may still see
    seen      \* seen[r][k]: the row as save has looked it up

tvars == <<table, writer, draft, killed, scan, seen>>

NoRows == [k \in Keys |-> None]

TableTypeOK(Values) ==
    /\ table  \in [Keys -> {None} \cup Values]
    /\ writer \in [Keys -> {None} \cup Requests]
    /\ draft  \in [Keys -> {None} \cup Values]
    /\ scan   \in [Requests -> SUBSET Keys]
    /\ seen   \in [Requests -> [Keys -> {None} \cup Values]]
    /\ killed \in [Keys -> BOOLEAN]
    /\ \A k \in Keys : writer[k] = None => draft[k] = None /\ ~killed[k]

TableInit == /\ writer = NoRows /\ draft = NoRows
             /\ killed = [k \in Keys |-> FALSE]
             /\ scan = [r \in Requests |-> {}]
             /\ seen = [r \in Requests |-> NoRows]

View(r, k)  == IF writer[k] = r THEN draft[k] ELSE table[k]
Wrote(r)    == {k \in Keys : writer[k] = r}
Open(r, K)  == \A k \in K : writer[k] \in {None, r}

\* A DELETE begins with the rows that satisfy its condition ...
Find(r, K) == /\ scan' = [scan EXCEPT ![r] = K]
              /\ UNCHANGED <<table, writer, draft, killed, seen>>

Write(r, K, new) ==
    /\ Open(r, K)
    /\ writer' = [k \in Keys |-> IF k \in K THEN r ELSE writer[k]]
    /\ draft'  = [k \in Keys |-> IF k \in K THEN new[k] ELSE draft[k]]
    /\ killed' = [k \in Keys |-> killed[k] \/ (k \in K /\ new[k] = None)]
    /\ scan'   = [scan EXCEPT ![r] = {}]
    /\ UNCHANGED <<table, seen>>

\* ... and ends with those of them that are left and still do.
Delete(r, K) == Open(r, scan[r]) /\ Write(r, scan[r] \cap K, NoRows)

\* save looks the entities up by primary key ...
Look(r, K) == /\ seen' = [seen EXCEPT ![r] =
                             [k \in Keys |-> IF k \in K THEN View(r, k) ELSE None]]
              /\ scan' = [scan EXCEPT ![r] = {k \in K : View(r, k) # None}]
              /\ UNCHANGED <<table, writer, draft, killed>>

\* ... inserts those it has not found, and updates those that differ, if the
\* row is still there; one inserted anew since then may be passed over.
Save(r, K, new) ==
    LET added   == {k \in K : seen[r][k] = None}
        updated == {k \in K : seen[r][k] \notin {None, new[k]}}
        there   == {k \in updated : View(r, k) # None}
    IN  /\ Open(r, added \cup updated)
        /\ \A k \in added : View(r, k) = None
        /\ \E passed \in SUBSET (there \ scan[r]) :
              Write(r, added \cup (there \ passed), new)

Over(r, K) == [q \in Requests |-> IF q = r THEN {} ELSE scan[q] \ K]
Blank(r)   == seen' = [seen EXCEPT ![r] = NoRows]

Leave(r) == /\ writer' = [k \in Keys |-> IF writer[k] = r THEN None ELSE writer[k]]
            /\ draft'  = [k \in Keys |-> IF writer[k] = r THEN None ELSE draft[k]]
            /\ killed' = [k \in Keys |-> killed[k] /\ writer[k] # r]
            /\ Blank(r)

Commit(r)   == /\ table' = [k \in Keys |-> View(r, k)]
               /\ scan'  = Over(r, {k \in Wrote(r) : killed[k]})
               /\ Leave(r)
Rollback(r) == /\ scan' = Over(r, {})
               /\ Leave(r)
               /\ UNCHANGED table

\* A statement outside of a transaction, or a cascade of one.
Put(r, K, new) == /\ \A k \in K : writer[k] = None
                  /\ table' = [k \in Keys |-> IF k \in K THEN new[k] ELSE table[k]]
                  /\ scan'  = Over(r, {k \in K : new[k] = None})
                  /\ UNCHANGED <<writer, draft, killed, seen>>
=============================================================================
