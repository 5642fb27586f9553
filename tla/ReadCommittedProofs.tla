------------------------ MODULE ReadCommittedProofs ------------------------
(***************************************************************************)
(* Lemmas about a table under READ COMMITTED, for any number of requests   *)
(* and keys: what each operation of a transaction leaves of the table and  *)
(* of the other transactions.  SettingsProofs instantiates them for each   *)
(* of its tables.                                                          *)
(***************************************************************************)
EXTENDS ReadCommitted, TLAPS

\* A row that a transaction has taken away is known to be deleted, and a statement
\* only remembers rows that its request can see.
Consistent ==
    /\ \A k \in Keys : writer[k] # None /\ draft[k] = None => killed[k]
    /\ \A r \in Requests : \A k \in scan[r] : View(r, k) # None

TableOK(Values) == TableTypeOK(Values) /\ Consistent

\* What a step of request r leaves of the other transactions, if it changes no
\* committed row but those in T.
Apart(r, T) ==
    /\ \A k \in Keys \ T : table'[k] = table[k]
    /\ \A q \in Requests \ {r} :
          /\ seen'[q] = seen[q]
          /\ scan'[q] \subseteq scan[q] /\ scan[q] \ scan'[q] \subseteq T
          /\ \A k \in Keys : /\ writer'[k] = q <=> writer[k] = q
                             /\ writer[k] = q => /\ draft'[k] = draft[k] /\ (killed'[k] <=> killed[k])
                                                /\ k \notin T

\* A statement of another loses only rows that are gone now.
Loses(r) == \A q \in Requests \ {r} : \A k \in scan[q] \ scan'[q] : table'[k] = None

\* No transaction has begun.
LEMMA TableInitOK ==
    ASSUME NEW Values, None \notin Values, table \in [Keys -> {None} \cup Values], TableInit
    PROVE  TableOK(Values)
BY DEF TableOK, TableTypeOK, Consistent, TableInit, NoRows

\* A DELETE begins.
LEMMA FindOK ==
    ASSUME NEW Values, TableOK(Values), NEW r \in Requests, NEW K \in SUBSET Keys,
           \A k \in K : View(r, k) # None, Find(r, K)
    PROVE  TableOK(Values)' /\ Apart(r, {}) /\ table' = table
BY DEF TableOK, TableTypeOK, Consistent, Find, View, Apart

\* save has looked its entities up.
LEMMA LookOK ==
    ASSUME NEW Values, TableOK(Values), NEW r \in Requests, NEW K \in SUBSET Keys, Look(r, K)
    PROVE  TableOK(Values)' /\ Apart(r, {}) /\ table' = table
BY DEF TableOK, TableTypeOK, Consistent, Look, View, Apart

\* A statement ends, having written the rows in K.
LEMMA WriteOK ==
    ASSUME NEW Values, TableOK(Values), None \notin Requests, None \notin Values,
           NEW r \in Requests, NEW K \in SUBSET Keys,
           NEW new, \A k \in K : new[k] \in {None} \cup Values, Write(r, K, new)
    PROVE  TableOK(Values)' /\ Apart(r, {}) /\ table' = table
<1> USE DEF TableOK, Write, Open, View
<1>1. TableTypeOK(Values)' BY DEF TableTypeOK
<1>2. \A k \in Keys : writer'[k] # None /\ draft'[k] = None => killed'[k]
  BY DEF Consistent, TableTypeOK
<1>3. ASSUME NEW q \in Requests, NEW k \in scan'[q] PROVE View(q, k)' # None
  <2>1. q # r /\ k \in scan[q] /\ k \in Keys BY <1>3 DEF TableTypeOK
  <2>2. View(q, k) # None BY <2>1 DEF Consistent
  <2>3. k \in K => writer[k] # q BY <2>1
  <2> QED BY <2>1, <2>2, <2>3
<1>4. Apart(r, {}) BY DEF Apart, TableTypeOK
<1> QED BY <1>1, <1>2, <1>3, <1>4 DEF Consistent

\* A transaction is committed.
LEMMA CommitOK ==
    ASSUME NEW Values, TableOK(Values), None \notin Requests, None \notin Values,
           NEW r \in Requests, Commit(r)
    PROVE  /\ TableOK(Values)' /\ Apart(r, Wrote(r)) /\ Wrote(r)' = {}
           /\ \A k \in Keys : table'[k] = View(r, k)
<1> USE DEF TableOK, Commit, Leave, Blank, Over, Wrote, View
<1>1. TableTypeOK(Values)' BY DEF TableTypeOK, NoRows
<1>2. \A k \in Keys : writer'[k] # None /\ draft'[k] = None => killed'[k]
  BY DEF Consistent, TableTypeOK
<1>3. ASSUME NEW q \in Requests, NEW k \in scan'[q] PROVE View(q, k)' # None
  <2>1. q # r /\ k \in scan[q] /\ k \in Keys /\ ~(writer[k] = r /\ killed[k])
    BY <1>3 DEF TableTypeOK
  <2>2. View(q, k) # None BY <2>1 DEF Consistent
  <2>3. writer[k] = r => draft[k] # None BY <2>1 DEF Consistent
  <2> QED BY <2>1, <2>2, <2>3
<1>4. Apart(r, Wrote(r)) /\ Wrote(r)' = {} BY DEF Apart, TableTypeOK
<1> QED BY <1>1, <1>2, <1>3, <1>4 DEF Consistent

\* A transaction is undone.
LEMMA RollbackOK ==
    ASSUME NEW Values, TableOK(Values), None \notin Requests, NEW r \in Requests, Rollback(r)
    PROVE  TableOK(Values)' /\ Apart(r, {}) /\ Wrote(r)' = {} /\ table' = table
<1> USE DEF TableOK, Rollback, Leave, Blank, Over, Wrote, View
<1>1. TableTypeOK(Values)' BY DEF TableTypeOK, NoRows
<1>2. Consistent' BY DEF Consistent, TableTypeOK
<1>3. Apart(r, {}) /\ Wrote(r)' = {} BY DEF Apart, TableTypeOK
<1> QED BY <1>1, <1>2, <1>3

\* A statement outside of a transaction.
LEMMA PutOK ==
    ASSUME NEW Values, TableOK(Values), None \notin Requests, None \notin Values,
           NEW r \in Requests, NEW K \in SUBSET Keys,
           NEW new, \A k \in K : new[k] \in {None} \cup Values, Put(r, K, new)
    PROVE  /\ TableOK(Values)' /\ Apart(r, K) /\ writer' = writer
           /\ \A k \in K : table'[k] = new[k]
           /\ Loses(r)
<1> USE DEF TableOK, Put, Over, View
<1>1. TableTypeOK(Values)' BY DEF TableTypeOK
<1>2. Consistent' BY DEF Consistent, TableTypeOK
<1>3. Apart(r, K) BY DEF Apart, TableTypeOK
<1>4. Loses(r) BY DEF Loses, TableTypeOK
<1> QED BY <1>1, <1>2, <1>3, <1>4

LEMMA CommitLoses ==
    ASSUME NEW Values, TableOK(Values), NEW r \in Requests, Commit(r),
           \A k \in Keys : writer[k] = r /\ killed[k] => draft[k] = None
    PROVE  Loses(r)
BY DEF TableOK, TableTypeOK, Loses, Commit, Over, Wrote, View

\* What the statements of request r do to its own view of the table.
LEMMA FindEffect ==
    ASSUME NEW Values, TableTypeOK(Values), NEW r \in Requests, NEW K \in SUBSET Keys, Find(r, K)
    PROVE  scan'[r] = K /\ UNCHANGED <<table, writer, draft, killed, seen>>
BY DEF TableTypeOK, Find

LEMMA DeleteEffect ==
    ASSUME NEW r \in Requests, NEW K, Delete(r, K)
    PROVE  /\ \A k \in Keys : IF k \in scan[r] /\ k \in K
                             THEN writer'[k] = r /\ draft'[k] = None
                             ELSE /\ writer'[k] = writer[k] /\ draft'[k] = draft[k]
                                  /\ (killed'[k] <=> killed[k])
           /\ UNCHANGED <<table, seen>>
<1>1. Write(r, scan[r] \cap K, NoRows)
  BY DEF Delete
<1>2. \A k \in Keys : killed'[k] <=> (killed[k] \/ (k \in scan[r] \cap K /\ NoRows[k] = None))
  BY <1>1 DEF Write
<1> QED BY <1>1, <1>2 DEF Write, NoRows

LEMMA SaveEffect ==
    ASSUME NEW r \in Requests, NEW K \in SUBSET Keys, NEW new, \A k \in K : new[k] # None,
           Save(r, K, new)
    PROVE  /\ \A k \in Keys :
                 \/ /\ k \in K /\ seen[r][k] # new[k] /\ writer[k] \in {None, r}
                    /\ writer'[k] = r /\ draft'[k] = new[k]
                    /\ (killed'[k] <=> killed[k]) /\ (View(r, k) = None <=> seen[r][k] = None)
                 \/ /\ writer'[k] = writer[k] /\ draft'[k] = draft[k] /\ (killed'[k] <=> killed[k])
                    /\ \/ k \notin K \/ seen[r][k] = new[k]
                       \/ seen[r][k] # None /\ (View(r, k) = None \/ k \notin scan[r])
           /\ UNCHANGED <<table, seen>>
<1> DEFINE added   == {k \in K : seen[r][k] = None}
           updated == {k \in K : seen[r][k] \notin {None, new[k]}}
           there   == {k \in updated : View(r, k) # None}
<1>1. PICK passed \in SUBSET (there \ scan[r]) : Write(r, added \cup (there \ passed), new)
  BY DEF Save
<1>2. \A k \in added : View(r, k) = None
  BY DEF Save
<1> DEFINE W == added \cup (there \ passed)
<1>3. W \subseteq K
  OBVIOUS
<1>4. \A k \in Keys : IF k \in W THEN /\ writer[k] \in {None, r}
                                     /\ writer'[k] = r /\ draft'[k] = new[k]
                     ELSE writer'[k] = writer[k] /\ draft'[k] = draft[k]
  BY <1>1 DEF Write, Open
<1>5. \A k \in Keys : killed'[k] <=> (killed[k] \/ (k \in W /\ new[k] = None))
  BY <1>1 DEF Write
<1>6. UNCHANGED <<table, seen>>
  BY <1>1 DEF Write
<1>7. \A k \in Keys : killed'[k] <=> killed[k]
  BY <1>3, <1>5
<1>8. ASSUME NEW k \in W
      PROVE  k \in K /\ seen[r][k] # new[k] /\ (View(r, k) = None <=> seen[r][k] = None)
  BY <1>2
<1>9. ASSUME NEW k \in Keys \ W, k \in K, seen[r][k] # new[k]
      PROVE  seen[r][k] # None /\ (View(r, k) = None \/ k \notin scan[r])
  <2>1. k \in updated /\ seen[r][k] # None
    BY <1>9
  <2>2. View(r, k) # None => k \in passed
    BY <1>9, <2>1
  <2> QED BY <2>1, <2>2
<1> HIDE DEF W
<1>10. ASSUME NEW k \in Keys
       PROVE  \/ /\ k \in K /\ seen[r][k] # new[k] /\ writer[k] \in {None, r}
                 /\ writer'[k] = r /\ draft'[k] = new[k]
                 /\ (killed'[k] <=> killed[k]) /\ (View(r, k) = None <=> seen[r][k] = None)
              \/ /\ writer'[k] = writer[k] /\ draft'[k] = draft[k] /\ (killed'[k] <=> killed[k])
                 /\ \/ k \notin K \/ seen[r][k] = new[k]
                    \/ seen[r][k] # None /\ (View(r, k) = None \/ k \notin scan[r])
  <2>1. CASE k \in W
    <3>1. /\ writer[k] \in {None, r} /\ writer'[k] = r /\ draft'[k] = new[k]
          /\ (killed'[k] <=> killed[k])
      BY <1>4, <1>7, <2>1
    <3>2. k \in K /\ seen[r][k] # new[k] /\ (View(r, k) = None <=> seen[r][k] = None)
      BY <1>8, <2>1
    <3> QED BY <3>1, <3>2
  <2>2. CASE k \notin W
    BY <1>4, <1>7, <1>9, <2>2
  <2> QED BY <2>1, <2>2
<1> QED BY <1>6, <1>10
=============================================================================
