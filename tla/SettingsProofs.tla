--------------------------- MODULE SettingsProofs ---------------------------
(***************************************************************************)
(* Proofs about Settings for any number of requests, categories, groups,   *)
(* configurations, zones and crawls.  What an open transaction has written *)
(* refers to a row that is there: the row lock of the reference keeps it.  *)
(***************************************************************************)
EXTENDS Settings, TLAPS

USE CategoriesAssumption, ConfigsAssumption, ConfigAssumption, CrawlsAssumption,
    SettingsAssumption

\* Where a request is, whatever part it belongs to.
HandlersOK == pc = [r \in Requests |-> pc[r]] /\ op = [r \in Requests |-> op[r]]

-----------------------------------------------------------------------------
(* Group categories: the invariant                                         *)

Writing == {"renamed", "deleting", "deleted", "saving", "saved"}

\* What the transaction of r has written, and refers to.
GMemOK(r) ==
    /\ part = "categories" /\ op[r] \in {"updateCategory", "deleteCategory"} => on[r] \in Categories
    /\ named[r] # None =>
          part = "categories" /\ op[r] = "updateCategory" /\ pc[r] \in Writing
    /\ \A g \in Groups : gwriter[g] = r =>
          /\ part = "categories" /\ op[r] = "updateCategory" /\ pc[r] \in Writing
          /\ gdraft[g] # None => gdraft[g] = on[r] /\ (Exists(on[r]) \/ named[r] # None)

GInv == /\ HandlersOK /\ part \in Parts
        /\ cat \in [Categories -> Names \cup {None, Gone}]
        /\ named \in [Requests -> Names \cup {None}]
        /\ on \in [Requests -> Categories \cup {None}] /\ dto \in [Requests -> Body]
        /\ conf \in [Groups -> {None} \cup Categories]
        /\ \A g \in Groups : gwriter[g] \in {None} \cup Requests
        /\ \A r \in Requests : GMemOK(r)
        /\ GroupsKeepCategory

LEMMA GInit == Init => GInv
<1> SUFFICES ASSUME Init PROVE GInv
    OBVIOUS
<1>1. HandlersOK /\ part \in Parts /\ \A r \in Requests : pc[r] = "idle" /\ op[r] = "none"
      BY DEF Init, HandlersInit, HandlersOK
<1>2. /\ named = [r \in Requests |-> None] /\ on = [r \in Requests |-> None]
      /\ gwriter = [g \in Groups |-> None]
      BY DEF Init, CategoriesInit, Table!TableInit, Table!NoRows
<1>3. /\ cat \in [Categories -> Names \cup {None, Gone}] /\ conf \in [Groups -> {None} \cup Categories]
      /\ dto \in [Requests -> Body]
      BY DEF Init, CategoriesInit, NoBody, Body
<1>4. \A r \in Requests : GMemOK(r)
      BY <1>1, <1>2 DEF GMemOK
<1>5. GroupsKeepCategory
      BY DEF Init, CategoriesInit, GroupsKeepCategory
<1> QED BY <1>1, <1>2, <1>3, <1>4, <1>5 DEF GInv

-----------------------------------------------------------------------------
(* Group categories: the steps                                             *)

\* Only what r has in memory changes, and no write of another.
GMoves(r) ==
    /\ pc' = [pc EXCEPT ![r] = pc'[r]] /\ op' = [op EXCEPT ![r] = op'[r]] /\ part' = part
    /\ named' = [named EXCEPT ![r] = named'[r]] /\ named'[r] \in Names \cup {None}
    /\ on' = [on EXCEPT ![r] = on'[r]] /\ on'[r] \in Categories \cup {None}
    /\ \A g \in Groups : /\ gwriter'[g] \in {gwriter[g], None, r}
                         /\ gwriter'[g] # r => gdraft'[g] = gdraft[g] \/ gwriter'[g] = None

\* A category that a row or a draft refers to does not go.
CatStays == /\ cat' \in [Categories -> Names \cup {None, Gone}]
            /\ \A c \in Categories : Exists(c) /\ cat'[c] \notin Names =>
                  /\ \A g \in Groups : conf'[g] # c
                  /\ \A g \in Groups : gwriter[g] # None => gdraft[g] # c

LEMMA GAssemble ==
    ASSUME GInv, NEW r \in Requests, GMoves(r), CatStays, GMemOK(r)',
           conf' \in [Groups -> {None} \cup Categories], dto' \in [Requests -> Body],
           \A g \in Groups : conf'[g] # None => conf'[g] = conf[g] \/ cat'[conf'[g]] \in Names
    PROVE  GInv'
<1>1. HandlersOK' /\ part' \in Parts
      BY DEF GInv, HandlersOK, GMoves
<1>2. named' \in [Requests -> Names \cup {None}] /\ on' \in [Requests -> Categories \cup {None}]
      BY DEF GInv, GMoves
<1>3. \A g \in Groups : gwriter'[g] \in {None} \cup Requests
      BY DEF GInv, GMoves
<1>4. ASSUME NEW q \in Requests, q # r
      PROVE  GMemOK(q)'
  <2>1. /\ pc'[q] = pc[q] /\ op'[q] = op[q] /\ named'[q] = named[q] /\ on'[q] = on[q]
        /\ part' = part
        BY <1>4 DEF GInv, HandlersOK, GMoves
  <2>2. \A g \in Groups : gwriter'[g] = q => gwriter[g] = q /\ gdraft'[g] = gdraft[g]
        BY <1>4 DEF GMoves
  <2>3. GMemOK(q)
        BY DEF GInv
  <2>4. \A g \in Groups : gwriter'[g] = q /\ gdraft'[g] # None =>
            gdraft'[g] = on[q] /\ (cat'[on[q]] \in Names \/ named'[q] # None)
    <3> SUFFICES ASSUME NEW g \in Groups, gwriter'[g] = q, gdraft'[g] # None
                 PROVE  gdraft'[g] = on[q] /\ (cat'[on[q]] \in Names \/ named'[q] # None)
        OBVIOUS
    <3>1. /\ gwriter[g] = q /\ gdraft[g] = on[q] /\ gdraft'[g] = on[q] /\ on[q] \in Categories
          /\ Exists(on[q]) \/ named[q] # None
          BY <2>2, <2>3 DEF GMemOK
    <3>2. Exists(on[q]) => cat'[on[q]] \in Names
          BY <3>1 DEF CatStays
    <3> QED BY <2>1, <3>1, <3>2 DEF Exists
  <2> QED BY <2>1, <2>2, <2>3, <2>4 DEF GMemOK, Exists
<1>5. GroupsKeepCategory'
  <2> SUFFICES ASSUME NEW g \in Groups, conf'[g] # None
               PROVE  cat'[conf'[g]] \in Names
      BY DEF GroupsKeepCategory, Exists
  <2>1. conf'[g] \in Categories
        OBVIOUS
  <2>2. conf'[g] = conf[g] => Exists(conf'[g])
        BY DEF GInv, GroupsKeepCategory
  <2>3. conf'[g] = conf[g] \/ cat'[conf'[g]] \in Names
        OBVIOUS
  <2> QED BY <2>1, <2>2, <2>3 DEF CatStays, Exists
<1> QED BY <1>1, <1>2, <1>3, <1>4, <1>5 DEF GInv, CatStays

\* A step that writes no row of GroupConfig.
LEMMA GQuiet ==
    ASSUME GInv, NEW r \in Requests, UNCHANGED <<part, conf, gwriter, gdraft>>,
           pc' = [pc EXCEPT ![r] = pc'[r]], op' = [op EXCEPT ![r] = op'[r]],
           named' = [named EXCEPT ![r] = named'[r]], named'[r] \in Names \cup {None},
           on' = [on EXCEPT ![r] = on'[r]], on'[r] \in Categories \cup {None},
           CatStays, dto' \in [Requests -> Body], GMemOK(r)'
    PROVE  GInv'
<1>1. GMoves(r)
      BY DEF GMoves
<1> QED BY <1>1, GAssemble DEF GInv

\* Before the transaction of a request begins it has written nothing.
LEMMA GBefore ==
    ASSUME GInv, NEW r \in Requests, pc[r] \notin Writing
    PROVE  named[r] = None /\ \A g \in Groups : gwriter[g] # r
BY DEF GInv, GMemOK

LEMMA CreateStep ==
    ASSUME GInv, UNCHANGED part, NEW r \in Requests, NEW c \in Categories, NEW n \in Names,
           CreateCategory(r, c, n)
    PROVE  GInv'
<1>1. /\ pc[r] = "idle" /\ pc' = [pc EXCEPT ![r] = "done"] /\ op' = [op EXCEPT ![r] = "createCategory"]
      /\ UNCHANGED <<part, conf, gwriter, gdraft, named, on>>
      BY DEF CreateCategory, Begin, config
<1>2. CatStays
      BY DEF CreateCategory, CatStays, GInv, Exists
<1>3. named[r] = None /\ \A g \in Groups : gwriter[g] # r
      BY <1>1, GBefore DEF Writing
<1>4. pc'[r] = "done" /\ op'[r] = "createCategory"
      BY <1>1 DEF GInv, HandlersOK
<1>5. GMemOK(r)'
      BY <1>1, <1>3, <1>4 DEF GMemOK
<1>6. /\ named' = [named EXCEPT ![r] = named'[r]] /\ named'[r] \in Names \cup {None}
      /\ on' = [on EXCEPT ![r] = on'[r]] /\ on'[r] \in Categories \cup {None}
      BY <1>1 DEF GInv
<1>7. dto' \in [Requests -> Body]
      BY DEF CreateCategory, GInv
<1> QED BY <1>1, <1>2, <1>4, <1>5, <1>6, <1>7, GQuiet

LEMMA BeginOnStep ==
    ASSUME GInv, UNCHANGED part, NEW r \in Requests, NEW c \in Categories, NEW method, NEW body \in Body,
           BeginOn(r, method, c, body)
    PROVE  GInv'
<1>1. /\ pc[r] = "idle" /\ pc' = [pc EXCEPT ![r] = "read"] /\ op' = [op EXCEPT ![r] = method]
      /\ UNCHANGED <<part, cat, conf, gwriter, gdraft, named>> /\ on' = [on EXCEPT ![r] = c]
      BY DEF BeginOn, Begin, config
<1>2. CatStays
      BY <1>1 DEF CatStays, GInv, Exists
<1>3. named[r] = None /\ \A g \in Groups : gwriter[g] # r
      BY <1>1, GBefore DEF Writing
<1>4. pc'[r] = "read" /\ op'[r] = method /\ on'[r] = c
      BY <1>1 DEF GInv, HandlersOK
<1>5. GMemOK(r)'
      BY <1>1, <1>3, <1>4 DEF GMemOK
<1>6. named' = [named EXCEPT ![r] = named'[r]] /\ named'[r] \in Names \cup {None}
      BY <1>1 DEF GInv
<1>7. dto' \in [Requests -> Body]
      BY DEF BeginOn, GInv
<1> QED BY <1>1, <1>2, <1>4, <1>5, <1>6, <1>7, GQuiet

LEMMA RenameStep ==
    ASSUME GInv, UNCHANGED part, part = "categories", NEW r \in Requests, Rename(r)
    PROVE  GInv'
<1>1. /\ pc[r] = "read" /\ op[r] = "updateCategory" /\ pc' = [pc EXCEPT ![r] = "renamed"]
      /\ UNCHANGED <<op, part, cat, on, conf, gwriter, gdraft>>
      BY DEF Rename, Goto, config
<1>2. CatStays
      BY <1>1 DEF CatStays, GInv, Exists
<1>3. \A g \in Groups : gwriter[g] # r
      BY <1>1, GBefore DEF Writing
<1>4. pc'[r] = "renamed" /\ op' = [op EXCEPT ![r] = op'[r]] /\ on' = [on EXCEPT ![r] = on'[r]]
      BY <1>1 DEF GInv, HandlersOK
<1>5. /\ named' = [named EXCEPT ![r] = named'[r]] /\ named'[r] \in Names \cup {None}
  <2>1. CASE Renames(r)
    <3>1. dto[r].name # None /\ named' = [named EXCEPT ![r] = dto[r].name]
          BY <2>1 DEF Rename, Renames
    <3>2. dto[r].name \in Names \cup {None}
          BY DEF GInv, Body
    <3> QED BY <3>1, <3>2 DEF GInv
  <2>2. CASE ~Renames(r)
        BY <2>2 DEF Rename, GInv
  <2> QED BY <2>1, <2>2
<1>6. GMemOK(r)'
      BY <1>1, <1>3, <1>4 DEF GMemOK, GInv, Writing
<1>7. dto' \in [Requests -> Body]
      BY DEF Rename, GInv
<1> QED BY <1>1, <1>2, <1>4, <1>5, <1>6, <1>7, GQuiet DEF GInv

\* A step of the transaction that does not end it: it reads, or writes U, and
\* refers to the category only while that is there.
LEMMA GStatementStep ==
    ASSUME GInv, UNCHANGED part, part = "categories", NEW r \in Requests,
           NEW from \in Writing, NEW to \in Writing, Statement(r, from, to),
           conf' = conf,
           \A g \in Groups : /\ gwriter'[g] \in {gwriter[g], r}
                             /\ gwriter'[g] # r => gdraft'[g] = gdraft[g]
                             /\ gwriter'[g] = r =>
                                   \/ gdraft'[g] = None
                                   \/ gwriter[g] = r /\ gdraft'[g] = gdraft[g]
                                   \/ gdraft'[g] = on[r] /\ (Exists(on[r]) \/ named[r] # None)
    PROVE  GInv'
<1>1. /\ pc[r] = from /\ op[r] = "updateCategory" /\ pc' = [pc EXCEPT ![r] = to]
      /\ UNCHANGED <<op, cat, named, on, dto>>
      BY DEF Statement, Goto
<1>2. pc'[r] = to /\ op' = [op EXCEPT ![r] = op'[r]]
      BY <1>1 DEF GInv, HandlersOK
<1>3. CatStays
      BY <1>1 DEF CatStays, GInv, Exists
<1>4. GMoves(r)
      BY <1>1, <1>2 DEF GMoves, GInv
<1>5. GMemOK(r)'
  <2>1. GMemOK(r)
        BY DEF GInv
  <2>2. \A g \in Groups : gwriter'[g] = r /\ gdraft'[g] # None =>
            gdraft'[g] = on[r] /\ (cat[on[r]] \in Names \/ named[r] # None)
        BY <2>1 DEF GMemOK, Exists
  <2> QED BY <1>1, <1>2, <2>1, <2>2 DEF GMemOK, Exists
<1> QED BY <1>1, <1>3, <1>4, <1>5, GAssemble DEF GInv

LEMMA GWrites ==
    ASSUME NEW r \in Requests, NEW K \in SUBSET Groups, NEW new, Table!Write(r, K, new)
    PROVE  /\ conf' = conf
           /\ \A g \in Groups : /\ gwriter'[g] = IF g \in K THEN r ELSE gwriter[g]
                                /\ gdraft'[g] = IF g \in K THEN new[g] ELSE gdraft[g]
BY DEF Table!Write

LEMMA GReadingStep ==
    ASSUME GInv, UNCHANGED part, part = "categories", NEW r \in Requests,
           FindGroups(r) \/ LookGroups(r)
    PROVE  GInv'
<1>1. UNCHANGED <<conf, gwriter, gdraft>>
      BY DEF FindGroups, LookGroups, Table!Find, Table!Look
<1>2. Statement(r, "renamed", "deleting") \/ Statement(r, "deleted", "saving")
      BY DEF FindGroups, LookGroups
<1> QED BY <1>1, <1>2, GStatementStep DEF Writing

LEMMA GDeleteStep ==
    ASSUME GInv, UNCHANGED part, part = "categories", NEW r \in Requests, DeleteGroups(r)
    PROVE  GInv'
<1>1. PICK to \in Writing : Statement(r, "deleting", to)
      BY DEF DeleteGroups, Writing
<1>2. PICK K \in SUBSET Groups : Table!Write(r, K, Table!NoRows)
      BY DEF DeleteGroups, Table!Delete, OnRows
<1>3. \A g \in Groups : Table!NoRows[g] = None
      BY DEF Table!NoRows
<1>4. /\ conf' = conf
      /\ \A g \in Groups : /\ gwriter'[g] = IF g \in K THEN r ELSE gwriter[g]
                           /\ gdraft'[g] = IF g \in K THEN Table!NoRows[g] ELSE gdraft[g]
      BY <1>2, GWrites
<1>5. \A g \in Groups : /\ gwriter'[g] \in {gwriter[g], r}
                        /\ gwriter'[g] # r => gdraft'[g] = gdraft[g]
                        /\ gwriter'[g] = r => \/ gwriter[g] = r /\ gdraft'[g] = gdraft[g]
                                             \/ gdraft'[g] = None
      BY <1>3, <1>4
<1> QED BY <1>1, <1>4, <1>5, GStatementStep DEF Writing

LEMMA GSaveStep ==
    ASSUME GInv, UNCHANGED part, part = "categories", NEW r \in Requests, SaveGroups(r)
    PROVE  GInv'
<1>1. Statement(r, "saving", "saved") /\ (Exists(on[r]) \/ named[r] # None)
      BY DEF SaveGroups
<1>2. dto[r].groups \in SUBSET Groups
      BY DEF GInv, Body
<1>3. PICK K \in SUBSET Groups : Table!Write(r, K, In(on[r]))
      BY <1>2 DEF SaveGroups, Table!Save
<1>4. /\ conf' = conf
      /\ \A g \in Groups : /\ gwriter'[g] = IF g \in K THEN r ELSE gwriter[g]
                           /\ gdraft'[g] = IF g \in K THEN In(on[r])[g] ELSE gdraft[g]
      BY <1>3, GWrites
<1>5. \A g \in Groups : /\ gwriter'[g] \in {gwriter[g], r}
                        /\ gwriter'[g] # r => gdraft'[g] = gdraft[g]
                        /\ gwriter'[g] = r => \/ gwriter[g] = r /\ gdraft'[g] = gdraft[g]
                                             \/ gdraft'[g] = on[r]
      BY <1>4 DEF In
<1> QED BY <1>1, <1>4, <1>5, GStatementStep DEF Writing

LEMMA GCommitStep ==
    ASSUME GInv, UNCHANGED part, part = "categories", NEW r \in Requests, CommitCategory(r)
    PROVE  GInv'
<1>1. /\ pc' = [pc EXCEPT ![r] = "done"] /\ op[r] = "updateCategory"
      /\ UNCHANGED <<op, on, dto>> /\ named' = [named EXCEPT ![r] = None]
      /\ conf' = [g \in Groups |-> IF gwriter[g] = r THEN gdraft[g] ELSE conf[g]]
      /\ cat' = IF named[r] = None THEN cat ELSE [cat EXCEPT ![on[r]] = named[r]]
      BY DEF CommitCategory, Goto, Table!Commit, Table!View
<1>2. \A g \in Groups : /\ gwriter'[g] = IF gwriter[g] = r THEN None ELSE gwriter[g]
                        /\ gdraft'[g] = IF gwriter[g] = r THEN None ELSE gdraft[g]
      BY DEF CommitCategory, Table!Commit, Table!Leave
<1>3. /\ GMemOK(r) /\ on[r] \in Categories
      BY <1>1 DEF GInv, GMemOK
<1>4. /\ cat' \in [Categories -> Names \cup {None, Gone}]
      /\ \A c \in Categories : Exists(c) => cat'[c] \in Names
      /\ named[r] # None => cat'[on[r]] \in Names
      BY <1>1, <1>3 DEF GInv, Exists
<1>5. CatStays
      BY <1>4 DEF CatStays
<1>6. \A g \in Groups : gwriter[g] = r /\ gdraft[g] # None =>
          gdraft[g] = on[r] /\ cat'[on[r]] \in Names
      BY <1>3, <1>4 DEF GMemOK
<1>7. \A g \in Groups : conf'[g] # None => conf'[g] = conf[g] \/ cat'[conf'[g]] \in Names
      BY <1>1, <1>6
<1>8. conf' \in [Groups -> {None} \cup Categories]
      BY <1>1, <1>3, <1>6 DEF GInv
<1>9. pc'[r] = "done" /\ op' = [op EXCEPT ![r] = op'[r]] /\ named'[r] = None
      BY <1>1 DEF GInv, HandlersOK
<1>10. GMoves(r)
      BY <1>1, <1>2, <1>9 DEF GMoves, GInv
<1>11. GMemOK(r)'
      BY <1>1, <1>2, <1>3, <1>9 DEF GMemOK
<1> QED BY <1>1, <1>5, <1>7, <1>8, <1>10, <1>11, GAssemble DEF GInv

LEMMA GFailStep ==
    ASSUME GInv, UNCHANGED part, part = "categories", NEW r \in Requests, FailCategory(r)
    PROVE  GInv'
<1>1. /\ pc' = [pc EXCEPT ![r] = "failed"]
      /\ UNCHANGED <<op, on, dto, cat, conf>> /\ named' = [named EXCEPT ![r] = None]
      BY DEF FailCategory, Goto, Table!Rollback
<1>2. \A g \in Groups : /\ gwriter'[g] = IF gwriter[g] = r THEN None ELSE gwriter[g]
                        /\ gdraft'[g] = IF gwriter[g] = r THEN None ELSE gdraft[g]
      BY DEF FailCategory, Table!Rollback, Table!Leave
<1>3. CatStays
      BY <1>1 DEF CatStays, GInv, Exists
<1>4. pc'[r] = "failed" /\ op' = [op EXCEPT ![r] = op'[r]] /\ named'[r] = None
      BY <1>1 DEF GInv, HandlersOK
<1>5. GMoves(r)
      BY <1>1, <1>2, <1>4 DEF GMoves, GInv
<1>6. GMemOK(r)'
      BY <1>1, <1>2, <1>4 DEF GMemOK, GInv
<1> QED BY <1>1, <1>3, <1>5, <1>6, GAssemble DEF GInv

LEMMA GDropStep ==
    ASSUME GInv, UNCHANGED part, part = "categories", NEW r \in Requests, DropCategory(r)
    PROVE  GInv'
<1>1. /\ pc[r] = "read" /\ op[r] = "deleteCategory" /\ pc' = [pc EXCEPT ![r] = "done"]
      /\ UNCHANGED <<op, named, on, dto, conf, gwriter, gdraft>>
      /\ cat' = [cat EXCEPT ![on[r]] = Gone]
      /\ ~Referred(r, on[r]) /\ \A g \in Groups : conf[g] # on[r]
      BY DEF DropCategory, Goto, config
<1>2. on[r] \in Categories /\ \A g \in Groups : gwriter[g] # r
      BY <1>1 DEF GInv, GMemOK
<1>3. CatStays
  <2>1. \A g \in Groups : gwriter[g] # None => gdraft[g] # on[r]
        BY <1>1, <1>2 DEF Referred
  <2>2. \A c \in Categories : Exists(c) /\ cat'[c] \notin Names => c = on[r]
        BY <1>1 DEF GInv, Exists
  <2>3. cat' \in [Categories -> Names \cup {None, Gone}]
        BY <1>1, <1>2 DEF GInv
  <2> QED BY <1>1, <2>1, <2>2, <2>3 DEF CatStays
<1>4. pc'[r] = "done" /\ op' = [op EXCEPT ![r] = op'[r]]
      BY <1>1 DEF GInv, HandlersOK
<1>5. /\ named' = [named EXCEPT ![r] = named'[r]] /\ named'[r] \in Names \cup {None}
      /\ on' = [on EXCEPT ![r] = on'[r]] /\ on'[r] \in Categories \cup {None}
      BY <1>1 DEF GInv
<1>6. named[r] = None
      BY <1>1, GBefore DEF Writing
<1>7. GMemOK(r)'
      BY <1>1, <1>2, <1>4, <1>6 DEF GMemOK
<1> QED BY <1>1, <1>3, <1>4, <1>5, <1>7, GQuiet DEF GInv

LEMMA CategoryStepKeeps ==
    ASSUME GInv, UNCHANGED part, part = "categories", NEW r \in Requests, CategoryStep(r)
    PROVE  GInv'
<1>1. CASE \E c \in Categories, n \in Names : CreateCategory(r, c, n)
      BY <1>1, CreateStep
<1>2. CASE \E c \in Categories, body \in Body : ReadCategory(r, c, body)
      BY <1>2, BeginOnStep DEF ReadCategory
<1>3. CASE \E c \in Categories : CountGroups(r, c)
  <2>1. NoBody \in Body
        BY DEF NoBody, Body
  <2> QED BY <1>3, <2>1, BeginOnStep DEF CountGroups
<1>4. CASE Rename(r)
      BY <1>4, RenameStep
<1>5. CASE FindGroups(r) \/ LookGroups(r)
      BY <1>5, GReadingStep
<1>6. CASE DeleteGroups(r)
      BY <1>6, GDeleteStep
<1>7. CASE SaveGroups(r)
      BY <1>7, GSaveStep
<1>8. CASE CommitCategory(r)
      BY <1>8, GCommitStep
<1>9. CASE DropCategory(r)
      BY <1>9, GDropStep
<1>10. CASE FailCategory(r)
      BY <1>10, GFailStep
<1> QED BY <1>1, <1>2, <1>3, <1>4, <1>5, <1>6, <1>7, <1>8, <1>9, <1>10 DEF CategoryStep

\* A step of another part moves one request, and begins none on a category.
Moves(r) == pc' = [pc EXCEPT ![r] = pc'[r]] /\ op' = [op EXCEPT ![r] = op'[r]]

LEMMA ConfigMoves ==
    ASSUME HandlersOK, NEW r \in Requests, ConfigStep(r) PROVE Moves(r)
BY DEF HandlersOK, Moves, ConfigStep, BeginConfig, ReadConfig, ReadForPerms, ReadForDelete,
   BeginWith, Begin, InsertConfig, LookConfig, SaveConfig, FindPerms, DeletePerms, LookPerms,
   SavePerms, PermStatement, CommitPerms, DropConfig, FailConfig, Goto

LEMMA CrawlMoves ==
    ASSUME HandlersOK, NEW r \in Requests,
           CrawlStep(r, zones) \/ DeleteZone(r) \/ ReportStep(r)
    PROVE  Moves(r)
BY DEF HandlersOK, Moves, CrawlStep, BeginCrawl, InsertCrawl, DeleteZone, DropZone, Begin, Goto,
   ReportStep, BeginReport, Notify, FindUnlisted, DeleteUnlisted, LookInactive, SaveInactive,
   CommitReport, FailReport, ReportStatement

LEMMA GStep == GInv /\ [Next]_vars => GInv'
<1> SUFFICES ASSUME GInv, [Next]_vars PROVE GInv'
    OBVIOUS
<1>1. CASE UNCHANGED vars
      BY <1>1 DEF vars, hvars, gvars, config, GInv, GMemOK, GroupsKeepCategory, Exists, HandlersOK
<1>2. ASSUME NEW r \in Requests, UNCHANGED <<gvars, part>>, part # "categories", Moves(r)
      PROVE  GInv'
  <2>1. HandlersOK'
        BY <1>2 DEF Moves, HandlersOK, GInv
  <2>2. UNCHANGED <<cat, named, on, dto, conf, gwriter, gdraft>>
        BY <1>2 DEF gvars, config
  <2>3. \A q \in Requests : GMemOK(q)'
        BY <1>2, <2>2 DEF GInv, GMemOK
  <2> QED BY <1>2, <2>1, <2>2, <2>3 DEF GInv, GroupsKeepCategory, Exists
<1>3. CASE Next
  <2>1. PICK r \in Requests :
          /\ UNCHANGED part
          /\ \/ part = "categories" /\ CategoryStep(r)
             \/ part = "zones"      /\ ConfigStep(r) /\ UNCHANGED gvars
             \/ part = "zones"      /\ CrawlStep(r, zones) /\ UNCHANGED gvars
             \/ part = "zones"      /\ DeleteZone(r) /\ UNCHANGED gvars
             \/ part = "reports"    /\ ReportStep(r) /\ UNCHANGED gvars
        BY <1>3 DEF Next
  <2>2. HandlersOK
        BY DEF GInv
  <2> QED BY <1>2, <2>1, <2>2, CategoryStepKeeps, ConfigMoves, CrawlMoves
<1> QED BY <1>1, <1>3

\* deleteCategory: no group is left in a category that is gone.
THEOREM GroupsAlwaysKeepCategory == Spec => []GroupsKeepCategory
<1>1. GInv => GroupsKeepCategory
      BY DEF GInv
<1> QED BY <1>1, GInit, GStep, PTL DEF Spec

-----------------------------------------------------------------------------
(* Zones, configurations and crawls: the invariant                         *)

PermWriting == {"deleting", "deleted", "saving", "saved"}

\* What request r remembers can be saved, and what its transaction has written
\* refers to a configuration that is there.
KMemOK(r) ==
    /\ part = "zones" /\ op[r] = "createConfig" /\ pc[r] = "read" => kmem[r] \in Config
    /\ part = "zones" /\ op[r] = "updateConfig" /\ pc[r] \in {"read", "saving"} =>
          kmem[r] \in Config /\ kon[r] \in Configs
    /\ part = "zones" /\ op[r] \in {"setConfigPermissions", "deleteConfig"} => kon[r] \in Configs
    /\ \A x \in Keys : pwriter[x] = r =>
          /\ part = "zones" /\ op[r] = "setConfigPermissions" /\ pc[r] \in PermWriting
          /\ pdraft[x] # None => ch[x[1]] \in Config

CMemOK(r) == op[r] = "storeCrawl" =>
    /\ part = "zones" /\ cdto[r] \in SUBSET Zones
    /\ pc[r] = "done" =>
          cid[r] \in CrawlIds /\ crawl[cid[r]] # None /\ crawl[cid[r]] = cdto[r] \cap zones

KInv == /\ HandlersOK /\ part \in Parts
        /\ zones \in SUBSET Zones
        /\ ch \in [Configs -> Config \cup {None, Gone}]
        /\ kon = [r \in Requests |-> kon[r]] /\ kmem = [r \in Requests |-> kmem[r]]
        /\ cid = [r \in Requests |-> cid[r]] /\ cdto = [r \in Requests |-> cdto[r]]
        /\ crawl \in [CrawlIds -> {None} \cup SUBSET zones]
        /\ \A x \in Keys : pwriter[x] \in {None} \cup Requests
        /\ \A r \in Requests : KMemOK(r) /\ CMemOK(r)
        /\ ConfigsKeepZone

LEMMA KInit == Init => KInv
<1> SUFFICES ASSUME Init PROVE KInv
    OBVIOUS
<1>1. HandlersOK /\ part \in Parts /\ \A r \in Requests : pc[r] = "idle" /\ op[r] = "none"
      BY DEF Init, HandlersInit, HandlersOK
<1>2. /\ zones \in SUBSET Zones /\ \A x \in Keys : pwriter[x] = None
      /\ kon = [r \in Requests |-> None] /\ kmem = [r \in Requests |-> None]
      BY DEF Init, ConfigsInit, PTable!TableInit, PTable!NoRows
<1>3. /\ crawl = [k \in CrawlIds |-> None] /\ cid = [r \in Requests |-> None]
      /\ cdto = [r \in Requests |-> {}]
      BY DEF Init, CrawlsInit
<1>4. ch \in [Configs -> Config \cup {None, Gone}]
      BY DEF Init, ConfigsInit
<1>5. \A r \in Requests : KMemOK(r) /\ CMemOK(r)
      BY <1>1, <1>2 DEF KMemOK, CMemOK
<1>6. ConfigsKeepZone
  <2>1. \A k \in Configs : IsConfig(k) => ch[k].zone \in Zones
        BY DEF IsConfig, Config
  <2> QED BY <2>1 DEF Init, ConfigsInit, ConfigsKeepZone
<1> QED BY <1>1, <1>2, <1>3, <1>4, <1>5, <1>6 DEF KInv

-----------------------------------------------------------------------------
(* Zones, configurations and crawls: the steps                             *)

\* Only what r has in memory changes, and no write of another.
KMoves(r) ==
    /\ Moves(r) /\ part' = part
    /\ kon' = [kon EXCEPT ![r] = kon'[r]] /\ kmem' = [kmem EXCEPT ![r] = kmem'[r]]
    /\ cid' = [cid EXCEPT ![r] = cid'[r]] /\ cdto' = [cdto EXCEPT ![r] = cdto'[r]]
    /\ \A x \in Keys : /\ pwriter'[x] \in {pwriter[x], None, r}
                       /\ pwriter'[x] \notin {None, r} => pdraft'[x] = pdraft[x]

\* A configuration goes only while nobody is writing its permissions.
ConfigsStay ==
    /\ ch' \in [Configs -> Config \cup {None, Gone}]
    /\ \A x \in Keys : ch[x[1]] \in Config /\ pwriter[x] # None => ch'[x[1]] \in Config

\* A crawl loses the zones that go, and one that comes has zones that are there.
CrawlsFollow ==
    /\ zones' \subseteq zones
    /\ DOMAIN crawl' = CrawlIds /\ crawl' = [k \in CrawlIds |-> crawl'[k]]
    /\ \A k \in CrawlIds : IF crawl[k] = None THEN crawl'[k] \in {None} \cup SUBSET zones'
                           ELSE crawl'[k] = crawl[k] \cap zones'

LEMMA KAssemble ==
    ASSUME KInv, NEW r \in Requests, KMoves(r), ConfigsStay, CrawlsFollow,
           KMemOK(r)', CMemOK(r)', ConfigsKeepZone'
    PROVE  KInv'
<1>1. HandlersOK' /\ part' \in Parts /\ zones' \in SUBSET Zones
      BY DEF KInv, HandlersOK, KMoves, Moves, CrawlsFollow
<1>2. /\ kon' = [q \in Requests |-> kon'[q]] /\ kmem' = [q \in Requests |-> kmem'[q]]
      /\ cid' = [q \in Requests |-> cid'[q]] /\ cdto' = [q \in Requests |-> cdto'[q]]
      BY DEF KInv, KMoves
<1>3. crawl' \in [CrawlIds -> {None} \cup SUBSET zones']
  <2>1. \A k \in CrawlIds : crawl'[k] \in {None} \cup SUBSET zones'
        BY DEF CrawlsFollow
  <2> QED BY <2>1 DEF CrawlsFollow
<1>4. \A x \in Keys : pwriter'[x] \in {None} \cup Requests
      BY DEF KInv, KMoves
<1>5. ASSUME NEW q \in Requests, q # r
      PROVE  KMemOK(q)' /\ CMemOK(q)'
  <2>1. /\ pc'[q] = pc[q] /\ op'[q] = op[q] /\ kon'[q] = kon[q] /\ kmem'[q] = kmem[q]
        /\ cid'[q] = cid[q] /\ cdto'[q] = cdto[q] /\ part' = part
        BY <1>5 DEF KInv, HandlersOK, KMoves, Moves
  <2>2. KMemOK(q) /\ CMemOK(q)
        BY DEF KInv
  <2>3. \A x \in Keys : pwriter'[x] = q => pwriter[x] = q /\ pdraft'[x] = pdraft[x]
        BY <1>5 DEF KMoves
  <2>4. \A x \in Keys : pwriter'[x] = q /\ pdraft'[x] # None => ch'[x[1]] \in Config
        BY <2>2, <2>3 DEF KMemOK, ConfigsStay
  <2>5. KMemOK(q)'
        BY <2>1, <2>2, <2>3, <2>4 DEF KMemOK
  <2>6. op[q] = "storeCrawl" /\ pc[q] = "done" =>
            crawl'[cid[q]] # None /\ crawl'[cid[q]] = cdto[q] \cap zones'
    <3> SUFFICES ASSUME op[q] = "storeCrawl", pc[q] = "done"
                 PROVE  crawl'[cid[q]] # None /\ crawl'[cid[q]] = cdto[q] \cap zones'
        OBVIOUS
    <3>1. /\ cid[q] \in CrawlIds /\ crawl[cid[q]] # None /\ crawl[cid[q]] = cdto[q] \cap zones
          /\ cdto[q] \in SUBSET Zones
          BY <2>2 DEF CMemOK
    <3>2. crawl'[cid[q]] = crawl[cid[q]] \cap zones'
          BY <3>1 DEF CrawlsFollow
    <3>3. crawl'[cid[q]] = cdto[q] \cap zones'
          BY <3>1, <3>2 DEF CrawlsFollow
    <3>4. crawl'[cid[q]] \in SUBSET Zones
          BY <3>1, <3>3
    <3> QED BY <3>3, <3>4
  <2>7. CMemOK(q)'
        BY <2>1, <2>2, <2>6 DEF CMemOK
  <2> QED BY <2>5, <2>7
<1> QED BY <1>1, <1>2, <1>3, <1>4, <1>5 DEF KInv, ConfigsStay

\* A step that changes neither zones nor configurations nor crawls.
LEMMA KQuiet ==
    ASSUME KInv, NEW r \in Requests, UNCHANGED <<part, zones, ch, perm, crawl>>, Moves(r),
           kon' = [kon EXCEPT ![r] = kon'[r]], kmem' = [kmem EXCEPT ![r] = kmem'[r]],
           cid' = [cid EXCEPT ![r] = cid'[r]], cdto' = [cdto EXCEPT ![r] = cdto'[r]],
           \A x \in Keys : /\ pwriter'[x] \in {pwriter[x], None, r}
                           /\ pwriter'[x] \notin {None, r} => pdraft'[x] = pdraft[x],
           KMemOK(r)', CMemOK(r)'
    PROVE  KInv'
<1>1. KMoves(r)
      BY DEF KMoves
<1>2. ConfigsStay
      BY DEF KInv, ConfigsStay
<1>3. CrawlsFollow
  <2>1. \A k \in CrawlIds : crawl[k] # None => crawl[k] \in SUBSET zones
        BY DEF KInv
  <2>2. \A k \in CrawlIds : crawl[k] # None => crawl[k] = crawl[k] \cap zones
        BY <2>1
  <2> QED BY <2>2 DEF KInv, CrawlsFollow
<1>4. ConfigsKeepZone'
      BY DEF KInv, ConfigsKeepZone, IsConfig
<1> QED BY <1>1, <1>2, <1>3, <1>4, KAssemble

\* Before it deletes permissions a request has written nothing.
LEMMA KBefore ==
    ASSUME KInv, NEW r \in Requests,
           pc[r] \notin PermWriting \/ op[r] # "setConfigPermissions"
    PROVE  \A x \in Keys : pwriter[x] # r
BY DEF KInv, KMemOK

\* A request begins.
LEMMA KBeginStep ==
    ASSUME KInv, part = "zones", UNCHANGED <<part, cvars>>, NEW r \in Requests,
           NEW method, NEW k, NEW entity, NEW body, BeginWith(r, method, k, entity, body),
           method \in {"createConfig", "updateConfig"} => entity \in Config,
           method \in {"updateConfig", "setConfigPermissions", "deleteConfig"} => k \in Configs,
           method # "storeCrawl"
    PROVE  KInv'
<1>1. /\ pc[r] = "idle" /\ pc' = [pc EXCEPT ![r] = "read"] /\ op' = [op EXCEPT ![r] = method]
      /\ kon' = [kon EXCEPT ![r] = k] /\ kmem' = [kmem EXCEPT ![r] = entity]
      /\ UNCHANGED <<zones, ch, perm, pwriter, pdraft, crawl, cid, cdto>>
      BY DEF BeginWith, Begin, perms, cvars
<1>2. pc'[r] = "read" /\ op'[r] = method /\ kon'[r] = k /\ kmem'[r] = entity
      BY <1>1 DEF KInv, HandlersOK
<1>3. Moves(r)
      BY <1>1, <1>2 DEF Moves
<1>4. \A x \in Keys : pwriter[x] # r
      BY <1>1, KBefore DEF PermWriting
<1>5. KMemOK(r)' /\ CMemOK(r)'
      BY <1>1, <1>2, <1>4 DEF KMemOK, CMemOK
<1>6. /\ kon' = [kon EXCEPT ![r] = kon'[r]] /\ kmem' = [kmem EXCEPT ![r] = kmem'[r]]
      /\ cid' = [cid EXCEPT ![r] = cid'[r]] /\ cdto' = [cdto EXCEPT ![r] = cdto'[r]]
      BY <1>1, <1>2 DEF KInv
<1> QED BY <1>1, <1>3, <1>5, <1>6, KQuiet

LEMMA KBeginsStep ==
    ASSUME KInv, part = "zones", UNCHANGED <<part, cvars>>, NEW r \in Requests,
           \/ \E entity \in Config, list \in List : BeginConfig(r, entity, list)
           \/ \E k \in Configs :
                 \/ \E body \in Patch : ReadConfig(r, k, body)
                 \/ \E list \in List : ReadForPerms(r, k, list)
                 \/ ReadForDelete(r, k)
    PROVE  KInv'
<1>1. ASSUME NEW entity \in Config, NEW list \in List, BeginConfig(r, entity, list)
      PROVE  KInv'
      BY <1>1, KBeginStep DEF BeginConfig
<1>2. ASSUME NEW k \in Configs, NEW body \in Patch, ReadConfig(r, k, body)
      PROVE  KInv'
  <2>1. ch[k] \in Config
        BY <1>2 DEF ReadConfig, IsConfig
  <2>2. \A loaded : Assigned(ch[k], body, loaded) \in Config
        BY <2>1 DEF Assigned, Config, Patch
  <2>3. PICK loaded \in SUBSET Related :
            BeginWith(r, "updateConfig", k, Assigned(ch[k], body, loaded), body)
        BY <1>2 DEF ReadConfig
  <2> QED BY <2>2, <2>3, KBeginStep
<1>3. ASSUME NEW k \in Configs, NEW list \in List, ReadForPerms(r, k, list)
      PROVE  KInv'
      BY <1>3, KBeginStep DEF ReadForPerms
<1>4. ASSUME NEW k \in Configs, ReadForDelete(r, k)
      PROVE  KInv'
      BY <1>4, KBeginStep DEF ReadForDelete
<1> QED BY <1>1, <1>2, <1>3, <1>4

LEMMA LookConfigStep ==
    ASSUME KInv, part = "zones", UNCHANGED <<part, cvars>>, NEW r \in Requests, LookConfig(r)
    PROVE  KInv'
<1>1. /\ pc[r] = "read" /\ op[r] = "updateConfig" /\ pc' = [pc EXCEPT ![r] = "saving"] /\ op' = op
      /\ UNCHANGED <<zones, ch, kon, kmem, perm, pwriter, pdraft, crawl, cid, cdto>>
      BY DEF LookConfig, Goto, perms, cvars
<1>2. pc'[r] = "saving" /\ Moves(r)
      BY <1>1 DEF KInv, HandlersOK, Moves
<1>3. KMemOK(r)' /\ CMemOK(r)'
      BY <1>1, <1>2 DEF KInv, KMemOK, CMemOK
<1>4. /\ kon' = [kon EXCEPT ![r] = kon'[r]] /\ kmem' = [kmem EXCEPT ![r] = kmem'[r]]
      /\ cid' = [cid EXCEPT ![r] = cid'[r]] /\ cdto' = [cdto EXCEPT ![r] = cdto'[r]]
      BY <1>1 DEF KInv
<1> QED BY <1>1, <1>2, <1>3, <1>4, KQuiet

\* setConfigPermissions within its transaction.
LEMMA PermStatementStep ==
    ASSUME KInv, part = "zones", UNCHANGED <<part, cvars>>, NEW r \in Requests,
           NEW from, NEW to \in PermWriting, PermStatement(r, from, to), perm' = perm,
           \A x \in Keys : /\ pwriter'[x] \in {pwriter[x], r}
                           /\ pwriter'[x] # r => pdraft'[x] = pdraft[x]
                           /\ pwriter'[x] = r =>
                                 \/ pdraft'[x] = None
                                 \/ pwriter[x] = r /\ pdraft'[x] = pdraft[x]
                                 \/ ch[x[1]] \in Config
    PROVE  KInv'
<1>1. /\ op[r] = "setConfigPermissions" /\ pc' = [pc EXCEPT ![r] = to] /\ op' = op
      /\ UNCHANGED <<zones, ch, kon, kmem, crawl, cid, cdto>>
      BY DEF PermStatement, Goto, cvars
<1>2. pc'[r] = to /\ Moves(r)
      BY <1>1 DEF KInv, HandlersOK, Moves
<1>3. CMemOK(r)'
      BY <1>1 DEF CMemOK
<1>4. KMemOK(r)'
  <2>1. KMemOK(r)
        BY DEF KInv
  <2>2. \A x \in Keys : pwriter'[x] = r /\ pdraft'[x] # None => ch[x[1]] \in Config
        BY <2>1 DEF KMemOK
  <2> QED BY <1>1, <1>2, <2>1, <2>2 DEF KMemOK
<1>5. /\ kon' = [kon EXCEPT ![r] = kon'[r]] /\ kmem' = [kmem EXCEPT ![r] = kmem'[r]]
      /\ cid' = [cid EXCEPT ![r] = cid'[r]] /\ cdto' = [cdto EXCEPT ![r] = cdto'[r]]
      BY <1>1 DEF KInv
<1> QED BY <1>1, <1>2, <1>3, <1>4, <1>5, KQuiet

LEMMA PWrites ==
    ASSUME NEW r \in Requests, NEW K \in SUBSET Keys, NEW new, PTable!Write(r, K, new)
    PROVE  /\ perm' = perm
           /\ \A x \in Keys : /\ pwriter'[x] = IF x \in K THEN r ELSE pwriter[x]
                              /\ pdraft'[x] = IF x \in K THEN new[x] ELSE pdraft[x]
BY DEF PTable!Write

LEMMA PermsStep ==
    ASSUME KInv, part = "zones", UNCHANGED <<part, cvars>>, NEW r \in Requests,
           FindPerms(r) \/ DeletePerms(r) \/ LookPerms(r) \/ SavePerms(r)
    PROVE  KInv'
<1>1. CASE FindPerms(r) \/ LookPerms(r)
  <2>1. UNCHANGED <<perm, pwriter, pdraft>>
        BY <1>1 DEF FindPerms, LookPerms, PTable!Find, PTable!Look
  <2>2. PermStatement(r, "read", "deleting") \/ PermStatement(r, "deleted", "saving")
        BY <1>1 DEF FindPerms, LookPerms
  <2>3. \A x \in Keys : pwriter'[x] = r => pwriter[x] = r /\ pdraft'[x] = pdraft[x]
        BY <2>1
  <2> QED BY <2>1, <2>2, <2>3, PermStatementStep DEF PermWriting
<1>2. CASE DeletePerms(r)
  <2>1. PICK to \in PermWriting : PermStatement(r, "deleting", to)
        BY <1>2 DEF DeletePerms, PermWriting
  <2>2. op[r] = "setConfigPermissions"
        BY <2>1 DEF PermStatement, Goto
  <2>3. Of(kon[r]) \subseteq Keys
        BY <2>2 DEF KInv, KMemOK, Of, Keys
  <2>4. PICK K \in SUBSET Keys : PTable!Write(r, K, PTable!NoRows)
        BY <1>2, <2>3 DEF DeletePerms, PTable!Delete
  <2>5. \A x \in Keys : PTable!NoRows[x] = None
        BY DEF PTable!NoRows
  <2> QED BY <2>1, <2>4, <2>5, PWrites, PermStatementStep
<1>3. CASE SavePerms(r)
  <2>1. PermStatement(r, "saving", "saved") /\ ch[kon[r]] \in Config
        BY <1>3 DEF SavePerms, IsConfig
  <2>2. op[r] = "setConfigPermissions"
        BY <2>1 DEF PermStatement, Goto
  <2>3. Listed(r) \subseteq Keys /\ \A x \in Listed(r) : x[1] = kon[r]
        BY <2>2 DEF KInv, KMemOK, Listed, Of, Keys
  <2>4. PICK K \in SUBSET Listed(r) : PTable!Write(r, K, Wanted(r))
        BY <1>3 DEF SavePerms, PTable!Save
  <2>5. K \in SUBSET Keys /\ \A x \in K : ch[x[1]] \in Config
        BY <2>1, <2>3
  <2>6. /\ perm' = perm
        /\ \A x \in Keys : /\ pwriter'[x] = IF x \in K THEN r ELSE pwriter[x]
                           /\ pdraft'[x] = IF x \in K THEN Wanted(r)[x] ELSE pdraft[x]
        BY <2>4, <2>5, PWrites
  <2>7. \A x \in Keys : /\ pwriter'[x] \in {pwriter[x], r}
                        /\ pwriter'[x] # r => pdraft'[x] = pdraft[x]
                        /\ pwriter'[x] = r =>
                              \/ pwriter[x] = r /\ pdraft'[x] = pdraft[x]
                              \/ ch[x[1]] \in Config
        BY <2>5, <2>6
  <2> QED BY <2>1, <2>6, <2>7, PermStatementStep DEF PermWriting
<1> QED BY <1>1, <1>2, <1>3

\* A request ends its transaction, and the rows are as it leaves them.
LEMMA KEnds ==
    ASSUME KInv, part = "zones", UNCHANGED <<part, zones, crawl, cid, cdto>>, NEW r \in Requests,
           pc' = [pc EXCEPT ![r] = pc'[r]], pc'[r] \in Ended, op' = op, op[r] # "storeCrawl",
           kon' = [kon EXCEPT ![r] = kon'[r]], kon'[r] \in {kon[r]} \cup Configs,
           kmem' = [kmem EXCEPT ![r] = kmem'[r]],
           \A x \in Keys : /\ pwriter'[x] \in {pwriter[x], None} /\ pwriter'[x] # r
                           /\ pwriter'[x] # None => pdraft'[x] = pdraft[x],
           ConfigsStay, ConfigsKeepZone'
    PROVE  KInv'
<1>0. /\ op' = [op EXCEPT ![r] = op'[r]]
      /\ cid' = [cid EXCEPT ![r] = cid'[r]] /\ cdto' = [cdto EXCEPT ![r] = cdto'[r]]
  <2>1. op = [q \in Requests |-> op[q]] /\ cid = [q \in Requests |-> cid[q]]
        BY DEF KInv, HandlersOK
  <2>2. cdto = [q \in Requests |-> cdto[q]]
        BY DEF KInv
  <2>3. op' = [op EXCEPT ![r] = op'[r]]
        BY <2>1
  <2>4. cid' = [cid EXCEPT ![r] = cid'[r]]
        BY <2>1
  <2>5. cdto' = [cdto EXCEPT ![r] = cdto'[r]]
        BY <2>2
  <2> QED BY <2>3, <2>4, <2>5
<1>1. KMoves(r)
      BY <1>0 DEF KMoves, Moves
<1>2. KMemOK(r)' /\ CMemOK(r)'
      BY DEF KInv, KMemOK, CMemOK, Ended
<1>3. CrawlsFollow
  <2>1. \A k \in CrawlIds : crawl[k] # None => crawl[k] \in SUBSET zones
        BY DEF KInv
  <2>2. \A k \in CrawlIds : crawl[k] # None => crawl[k] = crawl[k] \cap zones
        BY <2>1
  <2> QED BY <2>2 DEF KInv, CrawlsFollow
<1> QED BY <1>1, <1>2, <1>3, KAssemble

LEMMA CommitPermsStep ==
    ASSUME KInv, part = "zones", UNCHANGED <<part, cvars>>, NEW r \in Requests, CommitPerms(r)
    PROVE  KInv'
<1>1. /\ op[r] = "setConfigPermissions" /\ pc' = [pc EXCEPT ![r] = "done"]
      /\ UNCHANGED <<op, zones, ch, kon, kmem, crawl, cid, cdto>>
      BY DEF CommitPerms, Goto, cvars
<1>2. \A x \in Keys : /\ pwriter'[x] = IF pwriter[x] = r THEN None ELSE pwriter[x]
                      /\ pdraft'[x] = IF pwriter[x] = r THEN None ELSE pdraft[x]
                      /\ perm'[x] = IF pwriter[x] = r THEN pdraft[x] ELSE perm[x]
      BY DEF CommitPerms, PTable!Commit, PTable!Leave, PTable!View
<1>3. pc'[r] = "done" /\ pc' = [pc EXCEPT ![r] = pc'[r]]
      BY <1>1 DEF KInv, HandlersOK
<1>4. ConfigsStay
      BY <1>1 DEF KInv, ConfigsStay
<1>5. ConfigsKeepZone'
  <2>1. \A x \in Keys : perm'[x] # None => ch[x[1]] \in Config
        BY <1>2 DEF KInv, KMemOK, ConfigsKeepZone, IsConfig
  <2> QED BY <1>1, <2>1 DEF KInv, ConfigsKeepZone, IsConfig
<1>6. kon' = [kon EXCEPT ![r] = kon'[r]] /\ kmem' = [kmem EXCEPT ![r] = kmem'[r]]
      BY <1>1 DEF KInv
<1>7. \A x \in Keys : /\ pwriter'[x] \in {pwriter[x], None} /\ pwriter'[x] # r
                      /\ pwriter'[x] # None => pdraft'[x] = pdraft[x]
      BY <1>2
<1>8. kon'[r] \in {kon[r]} \cup Configs /\ pc'[r] \in Ended /\ op[r] # "storeCrawl"
      BY <1>1, <1>3 DEF Ended
<1> QED BY <1>1, <1>3, <1>4, <1>5, <1>6, <1>7, <1>8, KEnds

LEMMA FailConfigStep ==
    ASSUME KInv, part = "zones", UNCHANGED <<part, cvars>>, NEW r \in Requests, FailConfig(r)
    PROVE  KInv'
<1>1. /\ op[r] # "storeCrawl" /\ pc' = [pc EXCEPT ![r] = "failed"]
      /\ kmem' = [kmem EXCEPT ![r] = None]
      /\ UNCHANGED <<op, zones, ch, kon, perm, crawl, cid, cdto>>
      BY DEF FailConfig, Goto, cvars, PTable!Rollback
<1>2. \A x \in Keys : /\ pwriter'[x] = IF pwriter[x] = r THEN None ELSE pwriter[x]
                      /\ pdraft'[x] = IF pwriter[x] = r THEN None ELSE pdraft[x]
      BY DEF FailConfig, PTable!Rollback, PTable!Leave
<1>3. pc'[r] = "failed" /\ pc' = [pc EXCEPT ![r] = pc'[r]]
      BY <1>1 DEF KInv, HandlersOK
<1>4. ConfigsStay
      BY <1>1 DEF KInv, ConfigsStay
<1>5. ConfigsKeepZone'
      BY <1>1 DEF KInv, ConfigsKeepZone, IsConfig
<1>6. kon' = [kon EXCEPT ![r] = kon'[r]] /\ kmem' = [kmem EXCEPT ![r] = kmem'[r]]
      BY <1>1 DEF KInv
<1> QED BY <1>1, <1>2, <1>3, <1>4, <1>5, <1>6, KEnds DEF Ended

LEMMA PPuts ==
    ASSUME NEW r \in Requests, NEW K \in SUBSET Keys, NEW new, PTable!Put(r, K, new)
    PROVE  /\ UNCHANGED <<pwriter, pdraft>> /\ \A x \in K : pwriter[x] = None
           /\ \A x \in Keys : perm'[x] = IF x \in K THEN new[x] ELSE perm[x]
BY DEF PTable!Put

LEMMA InsertConfigStep ==
    ASSUME KInv, part = "zones", UNCHANGED <<part, cvars>>, NEW r \in Requests, InsertConfig(r)
    PROVE  KInv'
<1>1. /\ pc[r] = "read" /\ op[r] = "createConfig" /\ pc' = [pc EXCEPT ![r] = "done"]
      /\ kmem' = [kmem EXCEPT ![r] = None] /\ Fits(kmem[r])
      /\ UNCHANGED <<op, zones, crawl, cid, cdto>>
      BY DEF InsertConfig, Goto, cvars
<1>2. PICK k \in Configs : /\ ch[k] = None /\ ch' = [ch EXCEPT ![k] = kmem[r]]
                           /\ kon' = [kon EXCEPT ![r] = k]
                           /\ PTable!Put(r, Of(k), Row(k, kdto[r]))
      BY DEF InsertConfig
<1>3. kmem[r] \in Config
      BY <1>1 DEF KInv, KMemOK
<1>4. Of(k) \in SUBSET Keys /\ \A x \in Keys : x \in Of(k) <=> x[1] = k
      BY DEF Of, Keys
<1>5. /\ UNCHANGED <<pwriter, pdraft>>
      /\ \A x \in Keys : x[1] # k => perm'[x] = perm[x]
      BY <1>2, <1>4 DEF PTable!Put
<1>6. pc'[r] = "done" /\ pc' = [pc EXCEPT ![r] = pc'[r]] /\ kon'[r] = k
      BY <1>1, <1>2 DEF KInv, HandlersOK
<1>7. /\ ch'[k] = kmem[r] /\ \A j \in Configs : j # k => ch'[j] = ch[j]
      /\ ch' \in [Configs -> Config \cup {None, Gone}]
      BY <1>2, <1>3 DEF KInv
<1>8. ConfigsStay
      BY <1>2, <1>3, <1>7 DEF KInv, ConfigsStay, Keys
<1>9. ConfigsKeepZone'
  <2>1. \A x \in Keys : perm'[x] # None => ch'[x[1]] \in Config
        BY <1>3, <1>5, <1>7 DEF KInv, ConfigsKeepZone, IsConfig, Keys
  <2>2. \A j \in Configs : ch'[j] \in Config =>
            ch'[j].zone \in zones /\ \A i \in Configs \ {j} : ch'[i] \in Config => ch'[i].zone # ch'[j].zone
        BY <1>1, <1>7 DEF KInv, ConfigsKeepZone, IsConfig, Fits
  <2> QED BY <1>1, <2>1, <2>2 DEF ConfigsKeepZone, IsConfig
<1>10. kon' = [kon EXCEPT ![r] = kon'[r]] /\ kmem' = [kmem EXCEPT ![r] = kmem'[r]]
       BY <1>1, <1>2 DEF KInv
<1>11. \A x \in Keys : pwriter[x] # r
       BY <1>1, KBefore DEF PermWriting
<1> QED BY <1>1, <1>5, <1>6, <1>8, <1>9, <1>10, <1>11, KEnds DEF Ended

LEMMA SaveConfigStep ==
    ASSUME KInv, part = "zones", UNCHANGED <<part, cvars>>, NEW r \in Requests, SaveConfig(r)
    PROVE  KInv'
<1> DEFINE k == kon[r]
<1>1. /\ pc[r] = "saving" /\ op[r] = "updateConfig" /\ pc' = [pc EXCEPT ![r] = "done"]
      /\ kmem' = [kmem EXCEPT ![r] = None]
      /\ UNCHANGED <<op, zones, kon, perm, pwriter, pdraft, crawl, cid, cdto>>
      BY DEF SaveConfig, Goto, cvars, perms
<1>2. kmem[r] \in Config /\ k \in Configs
      BY <1>1 DEF KInv, KMemOK
<1>3. /\ \A j \in Configs : j # k => ch'[j] = ch[j]
      /\ \/ ch'[k] = ch[k]
         \/ ch'[k] = kmem[r] /\ ch[k] \notin Config /\ Fits(kmem[r])
         \/ ch[k] \in Config /\ ch'[k] \in Config /\ ch'[k].zone = ch[k].zone
      /\ ch' = [j \in Configs |-> ch'[j]]
  <2>1. CASE kbase[r] = None
        BY <1>2, <2>1 DEF SaveConfig, KInv, IsConfig
  <2>2. CASE kbase[r] # None /\ ch[k] \in Config
    <3>1. ch' = [ch EXCEPT ![k] = Merged(ch[k], kbase[r], kmem[r])]
          BY <2>2 DEF SaveConfig, IsConfig
    <3>2. /\ Merged(ch[k], kbase[r], kmem[r]) \in Config
          /\ Merged(ch[k], kbase[r], kmem[r]).zone = ch[k].zone
          BY <1>2, <2>2 DEF Merged, Config
    <3> QED BY <1>2, <2>2, <3>1, <3>2 DEF KInv
  <2>3. CASE kbase[r] # None /\ ch[k] \notin Config
        BY <2>3 DEF SaveConfig, KInv, IsConfig
  <2> QED BY <2>1, <2>2, <2>3
<1> HIDE DEF k
<1>4. \A j \in Configs : ch'[j] \in Config \cup {None, Gone} /\ (ch[j] \in Config => ch'[j] \in Config)
      BY <1>2, <1>3 DEF KInv
<1>5. ConfigsStay
      BY <1>3, <1>4 DEF ConfigsStay, Keys
<1>6. ConfigsKeepZone'
  <2>1. \A x \in Keys : perm'[x] # None => ch'[x[1]] \in Config
        BY <1>1, <1>4 DEF KInv, ConfigsKeepZone, IsConfig, Keys
  <2>2. \A j \in Configs : ch'[j] \in Config =>
            ch'[j].zone \in zones /\ \A i \in Configs \ {j} : ch'[i] \in Config => ch'[i].zone # ch'[j].zone
        BY <1>2, <1>3 DEF KInv, ConfigsKeepZone, IsConfig, Fits
  <2> QED BY <1>1, <2>1, <2>2 DEF ConfigsKeepZone, IsConfig
<1>7. pc'[r] = "done" /\ pc' = [pc EXCEPT ![r] = pc'[r]]
      BY <1>1 DEF KInv, HandlersOK
<1>8. kon' = [kon EXCEPT ![r] = kon'[r]] /\ kmem' = [kmem EXCEPT ![r] = kmem'[r]]
      BY <1>1 DEF KInv
<1>9. \A x \in Keys : pwriter[x] # r
      BY <1>1, KBefore DEF PermWriting
<1> QED BY <1>1, <1>5, <1>6, <1>7, <1>8, <1>9, KEnds DEF Ended

\* A cascade takes the configurations in K and their permissions.
LEMMA Cascades ==
    ASSUME KInv, NEW r \in Requests, NEW K \in SUBSET Configs, Cascade(r, K)
    PROVE  /\ ConfigsStay /\ UNCHANGED <<pwriter, pdraft>>
           /\ \A k \in Configs : IF k \in K THEN ch'[k] = Gone ELSE ch'[k] = ch[k]
           /\ \A x \in Keys : perm'[x] # None => ch'[x[1]] \in Config
<1>1. \A k \in Configs : ch'[k] = IF k \in K THEN Gone ELSE ch[k]
      BY DEF Cascade
<1>2. ch' \in [Configs -> Config \cup {None, Gone}]
      BY DEF Cascade, KInv
<1>3. K \X Perms \in SUBSET Keys /\ \A x \in Keys : (x \in K \X Perms <=> x[1] \in K) /\ x[1] \in Configs
      BY DEF Keys
<1>4. /\ UNCHANGED <<pwriter, pdraft>> /\ \A x \in K \X Perms : pwriter[x] = None
      /\ \A x \in Keys : perm'[x] = IF x \in K \X Perms THEN None ELSE perm[x]
      BY <1>3 DEF Cascade, PTable!Put, PTable!NoRows
<1>5. ConfigsStay
      BY <1>1, <1>2, <1>3, <1>4 DEF ConfigsStay
<1>6. \A x \in Keys : perm'[x] # None => ch'[x[1]] \in Config
      BY <1>1, <1>3, <1>4 DEF KInv, ConfigsKeepZone, IsConfig
<1> QED BY <1>1, <1>4, <1>5, <1>6

LEMMA DropConfigStep ==
    ASSUME KInv, part = "zones", UNCHANGED <<part, cvars>>, NEW r \in Requests, DropConfig(r)
    PROVE  KInv'
<1>1. /\ pc[r] = "read" /\ op[r] = "deleteConfig" /\ pc' = [pc EXCEPT ![r] = "done"]
      /\ UNCHANGED <<op, zones, kon, kmem, crawl, cid, cdto>>
      BY DEF DropConfig, Goto, cvars
<1>2. PICK K \in SUBSET Configs : Cascade(r, K)
      BY DEF DropConfig
<1>3. /\ ConfigsStay /\ UNCHANGED <<pwriter, pdraft>>
      /\ \A k \in Configs : IF k \in K THEN ch'[k] = Gone ELSE ch'[k] = ch[k]
      /\ \A x \in Keys : perm'[x] # None => ch'[x[1]] \in Config
      BY <1>2, Cascades
<1>4. ConfigsKeepZone'
      BY <1>1, <1>3 DEF KInv, ConfigsKeepZone, IsConfig
<1>5. pc'[r] \in Ended /\ pc' = [pc EXCEPT ![r] = pc'[r]] /\ op[r] # "storeCrawl"
      BY <1>1 DEF KInv, HandlersOK, Ended
<1>6. /\ kon' = [kon EXCEPT ![r] = kon'[r]] /\ kmem' = [kmem EXCEPT ![r] = kmem'[r]]
      /\ kon'[r] \in {kon[r]} \cup Configs
      BY <1>1 DEF KInv
<1>7. \A x \in Keys : pwriter[x] # r
      BY <1>1, KBefore DEF PermWriting
<1>8. \A x \in Keys : /\ pwriter'[x] \in {pwriter[x], None} /\ pwriter'[x] # r
                      /\ pwriter'[x] # None => pdraft'[x] = pdraft[x]
      BY <1>3, <1>7
<1> QED BY <1>1, <1>3, <1>4, <1>5, <1>6, <1>8, KEnds

LEMMA DeleteZoneStep ==
    ASSUME KInv, part = "zones", UNCHANGED part, NEW r \in Requests, DeleteZone(r)
    PROVE  KInv'
<1>1. PICK z \in Zones : DropZone(r, z) /\ ForgetZone(z)
      BY DEF DeleteZone
<1>2. /\ pc[r] = "idle" /\ pc' = [pc EXCEPT ![r] = "done"] /\ op' = [op EXCEPT ![r] = "deleteZone"]
      /\ UNCHANGED <<kon, kmem, cid, cdto>> /\ zones' = zones \ {z}
      BY <1>1 DEF DropZone, Begin, ForgetZone
<1>3. PICK K \in SUBSET Configs :
          K = {k \in Configs : IsConfig(k) /\ ch[k].zone = z} /\ Cascade(r, K)
      BY <1>1 DEF DropZone
<1>4. /\ ConfigsStay /\ UNCHANGED <<pwriter, pdraft>>
      /\ \A k \in Configs : IF k \in K THEN ch'[k] = Gone ELSE ch'[k] = ch[k]
      /\ \A x \in Keys : perm'[x] # None => ch'[x[1]] \in Config
      BY <1>3, Cascades
<1>5. ConfigsKeepZone'
      BY <1>2, <1>3, <1>4 DEF KInv, ConfigsKeepZone, IsConfig
<1>6. CrawlsFollow
  <2>1. crawl' = [k \in CrawlIds |-> IF crawl[k] = None THEN None ELSE crawl[k] \ {z}]
        BY <1>1 DEF ForgetZone
  <2>2. \A k \in CrawlIds : crawl[k] # None => crawl[k] \in SUBSET zones
        BY DEF KInv
  <2>3. \A k \in CrawlIds : crawl[k] # None => crawl'[k] = crawl[k] \cap zones'
        BY <1>2, <2>1, <2>2
  <2>4. \A k \in CrawlIds : crawl[k] = None => crawl'[k] = None
        BY <2>1
  <2>5. DOMAIN crawl' = CrawlIds /\ crawl' = [k \in CrawlIds |-> crawl'[k]] /\ zones' \subseteq zones
        BY <1>2, <2>1
  <2> QED BY <2>3, <2>4, <2>5 DEF CrawlsFollow
<1>7. pc'[r] = "done" /\ op'[r] = "deleteZone"
      BY <1>2 DEF KInv, HandlersOK
<1>8. \A x \in Keys : pwriter[x] # r
      BY <1>2, KBefore DEF PermWriting
<1>9. KMoves(r)
  <2>1. kon' = [kon EXCEPT ![r] = kon'[r]] /\ kmem' = [kmem EXCEPT ![r] = kmem'[r]]
        BY <1>2 DEF KInv
  <2>2. cid' = [cid EXCEPT ![r] = cid'[r]] /\ cdto' = [cdto EXCEPT ![r] = cdto'[r]]
        BY <1>2 DEF KInv
  <2> QED BY <1>2, <1>4, <1>7, <2>1, <2>2 DEF KMoves, Moves
<1>10. KMemOK(r)' /\ CMemOK(r)'
       BY <1>4, <1>7, <1>8 DEF KMemOK, CMemOK
<1> QED BY <1>4, <1>5, <1>6, <1>9, <1>10, KAssemble

LEMMA CrawlStepKeeps ==
    ASSUME KInv, part = "zones", UNCHANGED <<part, kvars>>, NEW r \in Requests,
           CrawlStep(r, zones)
    PROVE  KInv'
<1>1. UNCHANGED <<zones, ch, kon, kmem, perm, pwriter, pdraft>>
      BY DEF kvars, perms
<1>2. Moves(r)
      BY CrawlMoves DEF KInv
<1>3. kon' = [kon EXCEPT ![r] = kon'[r]] /\ kmem' = [kmem EXCEPT ![r] = kmem'[r]]
      BY <1>1 DEF KInv
<1>4. ASSUME NEW Z \in SUBSET zones, BeginCrawl(r, Z, zones)
      PROVE  KInv'
  <2>1. /\ pc[r] = "idle" /\ pc' = [pc EXCEPT ![r] = "read"] /\ op' = [op EXCEPT ![r] = "storeCrawl"]
        /\ cdto' = [cdto EXCEPT ![r] = Z] /\ UNCHANGED <<crawl, cid>>
        BY <1>4 DEF BeginCrawl, Begin
  <2>2. pc'[r] = "read" /\ op'[r] = "storeCrawl" /\ cdto'[r] = Z
        BY <2>1 DEF KInv, HandlersOK
  <2>3. \A x \in Keys : pwriter[x] # r
        BY <2>1, KBefore DEF PermWriting
  <2>4. Z \in SUBSET Zones
        BY DEF KInv
  <2>5. KMemOK(r)' /\ CMemOK(r)'
        BY <1>1, <2>2, <2>3, <2>4 DEF KMemOK, CMemOK
  <2>6. cid' = [cid EXCEPT ![r] = cid'[r]] /\ cdto' = [cdto EXCEPT ![r] = cdto'[r]]
        BY <2>1, <2>2 DEF KInv
  <2> QED BY <1>1, <1>2, <1>3, <2>1, <2>5, <2>6, KQuiet
<1>5. CASE FailReport(r)
  <2>1. /\ pc' = [pc EXCEPT ![r] = "failed"] /\ UNCHANGED <<op, crawl, cid, cdto>>
        /\ op[r] \in {"storeCrawl", "setInactiveChannels"}
        BY <1>5 DEF FailReport, Goto
  <2>2. pc'[r] = "failed"
        BY <2>1 DEF KInv, HandlersOK
  <2>3. KMemOK(r)' /\ CMemOK(r)'
        BY <1>1, <2>1, <2>2 DEF KInv, KMemOK, CMemOK
  <2>4. cid' = [cid EXCEPT ![r] = cid'[r]] /\ cdto' = [cdto EXCEPT ![r] = cdto'[r]]
        BY <2>1 DEF KInv
  <2> QED BY <1>1, <1>2, <1>3, <2>1, <2>3, <2>4, KQuiet
<1>6. CASE InsertCrawl(r, zones)
  <2>1. /\ pc[r] = "read" /\ op[r] = "storeCrawl" /\ pc' = [pc EXCEPT ![r] = "done"]
        /\ cdto[r] \subseteq zones /\ UNCHANGED <<op, cdto>>
        BY <1>6 DEF InsertCrawl, Goto
  <2>2. PICK k \in CrawlIds : /\ crawl[k] = None /\ crawl' = [crawl EXCEPT ![k] = cdto[r]]
                              /\ cid' = [cid EXCEPT ![r] = k]
        BY <1>6 DEF InsertCrawl
  <2>3. cdto[r] \in SUBSET Zones /\ cdto[r] # None
        BY <2>1 DEF KInv, CMemOK
  <2>4. pc'[r] = "done" /\ cid'[r] = k /\ op'[r] = "storeCrawl" /\ cdto'[r] = cdto[r] /\ crawl'[k] = cdto[r]
        BY <2>1, <2>2 DEF KInv, HandlersOK
  <2>5. crawl'[k] = cdto[r] \cap zones
        BY <2>1, <2>4
  <2>6. CMemOK(r)'
        BY <1>1, <2>3, <2>4, <2>5 DEF KInv, CMemOK
  <2>7. KMemOK(r)'
    <3>1. \A x \in Keys : pwriter[x] # r
          BY <2>1, KBefore
    <3> QED BY <1>1, <2>4, <3>1 DEF KMemOK
  <2>8. CrawlsFollow
    <3>1. \A j \in CrawlIds : crawl[j] # None => crawl'[j] = crawl[j] /\ crawl[j] \in SUBSET zones
          BY <2>2 DEF KInv
    <3>2. \A j \in CrawlIds : crawl[j] # None => crawl'[j] = crawl[j] \cap zones'
          BY <1>1, <3>1
    <3>3. \A j \in CrawlIds : crawl[j] = None => crawl'[j] \in {None} \cup SUBSET zones'
          BY <1>1, <2>1, <2>2 DEF KInv
    <3>4. DOMAIN crawl' = CrawlIds /\ crawl' = [j \in CrawlIds |-> crawl'[j]]
          BY <2>2 DEF KInv
    <3> QED BY <1>1, <3>2, <3>3, <3>4 DEF CrawlsFollow
  <2>9. cid' = [cid EXCEPT ![r] = cid'[r]] /\ cdto' = [cdto EXCEPT ![r] = cdto'[r]]
        BY <2>1, <2>2, <2>4 DEF KInv
  <2>10. KMoves(r)
         BY <1>1, <1>2, <1>3, <2>9 DEF KMoves
  <2>11. ConfigsStay /\ ConfigsKeepZone'
         BY <1>1 DEF KInv, ConfigsStay, ConfigsKeepZone, IsConfig
  <2> QED BY <2>6, <2>7, <2>8, <2>10, <2>11, KAssemble
<1> QED BY <1>4, <1>5, <1>6 DEF CrawlStep

LEMMA ConfigStepKeeps ==
    ASSUME KInv, part = "zones", UNCHANGED <<part, cvars>>, NEW r \in Requests, ConfigStep(r)
    PROVE  KInv'
<1>1. CASE \/ \E entity \in Config, list \in List : BeginConfig(r, entity, list)
           \/ \E k \in Configs :
                 \/ \E body \in Patch : ReadConfig(r, k, body)
                 \/ \E list \in List : ReadForPerms(r, k, list)
                 \/ ReadForDelete(r, k)
      BY <1>1, KBeginsStep
<1>2. CASE InsertConfig(r)
      BY <1>2, InsertConfigStep
<1>3. CASE LookConfig(r)
      BY <1>3, LookConfigStep
<1>4. CASE SaveConfig(r)
      BY <1>4, SaveConfigStep
<1>5. CASE FindPerms(r) \/ DeletePerms(r) \/ LookPerms(r) \/ SavePerms(r)
      BY <1>5, PermsStep
<1>6. CASE CommitPerms(r)
      BY <1>6, CommitPermsStep
<1>7. CASE DropConfig(r)
      BY <1>7, DropConfigStep
<1>8. CASE FailConfig(r)
      BY <1>8, FailConfigStep
<1> QED BY <1>1, <1>2, <1>3, <1>4, <1>5, <1>6, <1>7, <1>8 DEF ConfigStep

\* The methods of the other parts are none that zones are about.
LEMMA OtherMethods ==
    ASSUME HandlersOK, NEW r \in Requests, CategoryStep(r) \/ ReportStep(r)
    PROVE  Moves(r) /\ (op'[r] = op[r] \/ op'[r] # "storeCrawl")
<1>1. CASE CategoryStep(r)
      BY <1>1 DEF HandlersOK, Moves, CategoryStep, CreateCategory, ReadCategory, CountGroups, BeginOn, Begin,
         Rename, FindGroups, DeleteGroups, LookGroups, SaveGroups, Statement, CommitCategory,
         DropCategory, FailCategory, Goto
<1>2. CASE ReportStep(r)
      BY <1>2 DEF HandlersOK, Moves, ReportStep, BeginReport, Notify, FindUnlisted, DeleteUnlisted,
         LookInactive, SaveInactive, CommitReport, FailReport, ReportStatement, Begin, Goto
<1> QED BY <1>1, <1>2

\* Requests of the other parts change nothing that zones are about.
LEMMA OtherPartKeeps ==
    ASSUME KInv, UNCHANGED <<part, kvars, crawl, cid, cdto>>, part # "zones", NEW r \in Requests,
           CategoryStep(r) \/ ReportStep(r)
    PROVE  KInv'
<1>1. UNCHANGED <<zones, ch, kon, kmem, perm, pwriter, pdraft, part, crawl, cid, cdto>>
      BY DEF kvars, perms
<1>2. Moves(r) /\ (op'[r] = op[r] \/ op'[r] # "storeCrawl")
      BY OtherMethods DEF KInv
<1>3. /\ kon' = [kon EXCEPT ![r] = kon'[r]] /\ kmem' = [kmem EXCEPT ![r] = kmem'[r]]
      /\ cid' = [cid EXCEPT ![r] = cid'[r]] /\ cdto' = [cdto EXCEPT ![r] = cdto'[r]]
      BY <1>1 DEF KInv
<1>4. KMemOK(r)' /\ CMemOK(r)'
      BY <1>1, <1>2 DEF KInv, KMemOK, CMemOK
<1> QED BY <1>1, <1>2, <1>3, <1>4, KQuiet

\* A crawl is changed by no other part.
LEMMA ReportsLeaveCrawls ==
    ASSUME NEW r \in Requests, ReportStep(r) PROVE UNCHANGED <<crawl, cid, cdto>>
BY DEF ReportStep, BeginReport, Notify, FindUnlisted, DeleteUnlisted, LookInactive, SaveInactive,
   CommitReport, FailReport, ReportStatement

LEMMA KStep == KInv /\ [Next]_vars => KInv'
<1> SUFFICES ASSUME KInv, [Next]_vars PROVE KInv'
    OBVIOUS
<1>1. CASE UNCHANGED vars
  <2>1. UNCHANGED <<pc, op, zones, ch, kon, kmem, perm, pwriter, pdraft, part, crawl, cid, cdto>>
        BY <1>1 DEF vars, hvars, kvars, perms, cvars
  <2>2. \A r \in Requests : KMemOK(r)' /\ CMemOK(r)'
        BY <2>1 DEF KInv, KMemOK, CMemOK
  <2> QED BY <2>1, <2>2 DEF KInv, HandlersOK, ConfigsKeepZone, IsConfig
<1>2. CASE Next
  <2>1. PICK r \in Requests :
          /\ UNCHANGED part
          /\ \/ part = "categories" /\ CategoryStep(r) /\ UNCHANGED <<kvars, cvars>>
             \/ part = "zones"      /\ ConfigStep(r) /\ UNCHANGED cvars
             \/ part = "zones"      /\ CrawlStep(r, zones) /\ UNCHANGED kvars
             \/ part = "zones"      /\ DeleteZone(r)
             \/ part = "reports"    /\ ReportStep(r) /\ UNCHANGED kvars
        BY <1>2 DEF Next
  <2>2. CASE part = "categories" /\ CategoryStep(r) /\ UNCHANGED <<kvars, cvars>>
    <3>1. UNCHANGED <<crawl, cid, cdto>>
          BY <2>2 DEF cvars
    <3> QED BY <2>1, <2>2, <3>1, OtherPartKeeps
  <2>3. CASE part = "reports" /\ ReportStep(r) /\ UNCHANGED kvars
        BY <2>1, <2>3, ReportsLeaveCrawls, OtherPartKeeps
  <2> QED BY <2>1, <2>2, <2>3, ConfigStepKeeps, CrawlStepKeeps, DeleteZoneStep
<1> QED BY <1>1, <1>2

\* deleteZone: no configuration, permission or part of a crawl is left of a zone
\* that is gone, and none comes back.
THEOREM ZonesAlwaysLeaveNothing == Spec => []ZonesLeaveNothing
<1>1. KInv => ZonesLeaveNothing
  <2> SUFFICES ASSUME KInv PROVE ConfigsKeepZone /\ CrawlsKeepZones(zones)
      BY DEF ZonesLeaveNothing
  <2>1. \A k \in CrawlIds : crawl[k] = None \/ crawl[k] \subseteq zones
        BY DEF KInv
  <2>2. \A r \in Requests : op[r] = "storeCrawl" /\ pc[r] = "done" =>
            crawl[cid[r]] = cdto[r] \cap zones
        BY DEF KInv, CMemOK
  <2> QED BY <2>1, <2>2 DEF KInv, CrawlsKeepZones
<1> QED BY <1>1, KInit, KStep, PTL DEF Spec
-----------------------------------------------------------------------------
(* Types                                                                   *)

GRows == INSTANCE ReadCommittedProofs WITH
    Keys <- Groups, table <- conf, writer <- gwriter, draft <- gdraft,
    killed <- gkilled, scan <- gscan, seen <- gseen
PRows == INSTANCE ReadCommittedProofs WITH
    table <- perm, writer <- pwriter, draft <- pdraft, killed <- pkilled,
    scan <- pscan, seen <- pseen
IRows == INSTANCE ReadCommittedProofs WITH
    Keys <- Channels, table <- idle, writer <- iwriter, draft <- idraft,
    killed <- ikilled, scan <- iscan, seen <- iseen

\* The operations of the three tables are those the lemmas are about.
LEMMA GSame ==
    /\ \A K : Table!TableTypeOK(K) <=> GRows!TableTypeOK(K)
    /\ Table!TableInit <=> GRows!TableInit
    /\ \A r, K, new : /\ Table!Find(r, K) <=> GRows!Find(r, K)
                      /\ Table!Look(r, K) <=> GRows!Look(r, K)
                      /\ Table!Write(r, K, new) <=> GRows!Write(r, K, new)
                      /\ Table!Put(r, K, new) <=> GRows!Put(r, K, new)
                      /\ Table!Delete(r, K) <=> GRows!Delete(r, K)
                      /\ Table!Save(r, K, new) <=> GRows!Save(r, K, new)
    /\ \A r : /\ Table!Commit(r) <=> GRows!Commit(r)
              /\ Table!Rollback(r) <=> GRows!Rollback(r)
              /\ Table!Wrote(r) = GRows!Wrote(r)
              /\ \A g : Table!View(r, g) = GRows!View(r, g)
BY DEF Table!Delete, GRows!Delete, Table!Save, GRows!Save,
   Table!TableTypeOK, GRows!TableTypeOK, Table!TableInit, GRows!TableInit, Table!Find,
   GRows!Find, Table!Look, GRows!Look, Table!Write, GRows!Write, Table!Put, GRows!Put,
   Table!Commit, GRows!Commit, Table!Rollback, GRows!Rollback, Table!Wrote, GRows!Wrote,
   Table!View, GRows!View, Table!NoRows, GRows!NoRows, Table!Open, GRows!Open, Table!Over,
   GRows!Over, Table!Leave, GRows!Leave, Table!Blank, GRows!Blank

LEMMA PSame ==
    /\ \A K : PTable!TableTypeOK(K) <=> PRows!TableTypeOK(K)
    /\ PTable!TableInit <=> PRows!TableInit
    /\ \A r, K, new : /\ PTable!Find(r, K) <=> PRows!Find(r, K)
                      /\ PTable!Look(r, K) <=> PRows!Look(r, K)
                      /\ PTable!Write(r, K, new) <=> PRows!Write(r, K, new)
                      /\ PTable!Put(r, K, new) <=> PRows!Put(r, K, new)
                      /\ PTable!Delete(r, K) <=> PRows!Delete(r, K)
                      /\ PTable!Save(r, K, new) <=> PRows!Save(r, K, new)
    /\ \A r : /\ PTable!Commit(r) <=> PRows!Commit(r)
              /\ PTable!Rollback(r) <=> PRows!Rollback(r)
              /\ PTable!Wrote(r) = PRows!Wrote(r)
              /\ \A g : PTable!View(r, g) = PRows!View(r, g)
BY DEF PTable!Delete, PRows!Delete, PTable!Save, PRows!Save,
   PTable!TableTypeOK, PRows!TableTypeOK, PTable!TableInit, PRows!TableInit, PTable!Find,
   PRows!Find, PTable!Look, PRows!Look, PTable!Write, PRows!Write, PTable!Put, PRows!Put,
   PTable!Commit, PRows!Commit, PTable!Rollback, PRows!Rollback, PTable!Wrote, PRows!Wrote,
   PTable!View, PRows!View, PTable!NoRows, PRows!NoRows, PTable!Open, PRows!Open, PTable!Over,
   PRows!Over, PTable!Leave, PRows!Leave, PTable!Blank, PRows!Blank

LEMMA ISame ==
    /\ \A K : ITable!TableTypeOK(K) <=> IRows!TableTypeOK(K)
    /\ ITable!TableInit <=> IRows!TableInit
    /\ \A r, K, new : /\ ITable!Find(r, K) <=> IRows!Find(r, K)
                      /\ ITable!Look(r, K) <=> IRows!Look(r, K)
                      /\ ITable!Write(r, K, new) <=> IRows!Write(r, K, new)
                      /\ ITable!Put(r, K, new) <=> IRows!Put(r, K, new)
                      /\ ITable!Delete(r, K) <=> IRows!Delete(r, K)
                      /\ ITable!Save(r, K, new) <=> IRows!Save(r, K, new)
    /\ \A r : /\ ITable!Commit(r) <=> IRows!Commit(r)
              /\ ITable!Rollback(r) <=> IRows!Rollback(r)
              /\ ITable!Wrote(r) = IRows!Wrote(r)
              /\ \A g : ITable!View(r, g) = IRows!View(r, g)
BY DEF ITable!Delete, IRows!Delete, ITable!Save, IRows!Save,
   ITable!TableTypeOK, IRows!TableTypeOK, ITable!TableInit, IRows!TableInit, ITable!Find,
   IRows!Find, ITable!Look, IRows!Look, ITable!Write, IRows!Write, ITable!Put, IRows!Put,
   ITable!Commit, IRows!Commit, ITable!Rollback, IRows!Rollback, ITable!Wrote, IRows!Wrote,
   ITable!View, IRows!View, ITable!NoRows, IRows!NoRows, ITable!Open, IRows!Open, ITable!Over,
   IRows!Over, ITable!Leave, IRows!Leave, ITable!Blank, IRows!Blank

\* The awaits of all the requests, and what a step of request r does to them.
Labels == {"idle", "read", "renamed", "deleting", "deleted", "saving", "saved"} \cup Ended

Advances(r) ==
    /\ Moves(r) /\ pc'[r] \in Labels \ {"idle"}
    /\ \/ /\ pc[r] = "idle"
          /\ before' = [before EXCEPT ![r] = {q \in Requests : pc[q] \in Ended}]
       \/ Active(r) /\ op' = op /\ before' = before

LEMMA CategoryAdvances ==
    ASSUME HandlersOK, NEW r \in Requests, CategoryStep(r) PROVE Advances(r)
BY DEF HandlersOK, Advances, Moves, Labels, Ended, Active, CategoryStep, CreateCategory, ReadCategory,
   CountGroups, BeginOn, Begin, Rename, FindGroups, DeleteGroups, LookGroups, SaveGroups, Statement,
   CommitCategory, DropCategory, FailCategory, Goto

LEMMA ConfigAdvances ==
    ASSUME HandlersOK, NEW r \in Requests, ConfigStep(r) PROVE Advances(r)
BY DEF HandlersOK, Advances, Moves, Labels, Ended, Active, ConfigStep, BeginConfig, ReadConfig,
   ReadForPerms, ReadForDelete, BeginWith, Begin, InsertConfig, LookConfig, SaveConfig, FindPerms,
   DeletePerms, LookPerms, SavePerms, PermStatement, CommitPerms, DropConfig, FailConfig, Goto

LEMMA CrawlAdvances ==
    ASSUME HandlersOK, NEW r \in Requests, CrawlStep(r, zones) \/ DeleteZone(r) \/ ReportStep(r)
    PROVE  Advances(r)
BY DEF HandlersOK, Advances, Moves, Labels, Ended, Active, CrawlStep, BeginCrawl, InsertCrawl,
   DeleteZone, DropZone, Begin, Goto, ReportStep, BeginReport, Notify, FindUnlisted, DeleteUnlisted,
   LookInactive, SaveInactive, CommitReport, FailReport, ReportStatement

\* What was over when a request began stays over.
Past == /\ pc \in [Requests -> Labels]
        /\ before \in [Requests -> SUBSET Requests]
        /\ \A r \in Requests : \A q \in before[r] : pc[q] \in Ended

LEMMA PastStep ==
    ASSUME HandlersOK, Past, NEW r \in Requests, Advances(r)
    PROVE  Past' /\ \A q \in Requests \ {r} : r \notin before[q] /\ before'[q] = before[q]
<1>1. pc' \in [Requests -> Labels] /\ \A q \in Requests \ {r} : pc'[q] = pc[q]
      BY DEF Past, Advances, Moves
<1>2. pc[r] \notin Ended
      BY DEF Advances, Active, Ended
<1>3. CASE before' = [before EXCEPT ![r] = {q \in Requests : pc[q] \in Ended}]
  <2>1. before'[r] = {q \in Requests : pc[q] \in Ended} /\ \A q \in Requests \ {r} : before'[q] = before[q]
        BY <1>3 DEF Past
  <2>2. before' \in [Requests -> SUBSET Requests]
        BY <1>3 DEF Past
  <2>3. \A q \in Requests : r \notin before[q]
        BY <1>2 DEF Past
  <2>4. ASSUME NEW p \in Requests, NEW q \in before'[p] PROVE pc'[q] \in Ended
        BY <1>1, <1>2, <2>1, <2>3 DEF Past
  <2> QED BY <1>1, <2>1, <2>2, <2>3, <2>4 DEF Past
<1>4. CASE before' = before
      BY <1>1, <1>2, <1>4 DEF Past
<1> QED BY <1>3, <1>4 DEF Advances

\* The categories and their groups, and what a step of request r leaves of them.
GOK == CategoriesTypeOK /\ GRows!Consistent

GChange(r) ==
    /\ \A q \in Requests \ {r} : on'[q] = on[q] /\ dto'[q] = dto[q]
    /\ \E T \in SUBSET Groups : /\ GRows!Apart(r, T)
                                /\ glast' = [g \in Groups |-> IF g \in T THEN r ELSE glast[g]]

\* A step that leaves all rows alone.
LEMMA GUntouched ==
    ASSUME GOK, NEW r \in Requests, UNCHANGED config
    PROVE  /\ GRows!TableOK(Categories)' /\ GRows!Apart(r, {})
           /\ glast' = [g \in Groups |-> IF g \in {} THEN r ELSE glast[g]]
           /\ glast' \in [Groups -> Requests \cup {None}]
<1>1. GRows!TableOK(Categories)
      BY GSame DEF GOK, CategoriesTypeOK, GRows!TableOK
<1> QED BY <1>1 DEF config, GRows!TableOK, GRows!TableTypeOK, GRows!Consistent, GRows!Apart, GRows!View, GOK,
           CategoriesTypeOK

\* A step that leaves the rows as one of the operations does.
LEMMA GOperations ==
    ASSUME GInv, GOK, part = "categories", NEW r \in Requests,
           FindGroups(r) \/ DeleteGroups(r) \/ LookGroups(r) \/ SaveGroups(r)
    PROVE  GRows!TableOK(Categories)' /\ GRows!Apart(r, {})
<1>1. GRows!TableOK(Categories)
      BY GSame DEF GOK, CategoriesTypeOK, GRows!TableOK
<1>2. on[r] \in Categories /\ dto[r].groups \in SUBSET Groups
      BY DEF FindGroups, DeleteGroups, LookGroups, SaveGroups, Statement, Goto, GInv, GMemOK, Body
<1>3. CASE FindGroups(r)
  <2>1. GRows!Find(r, OnRows(r)) /\ OnRows(r) \in SUBSET Groups
        BY <1>3, GSame DEF FindGroups, OnRows
  <2>2. \A g \in OnRows(r) : GRows!View(r, g) # None
        BY <1>2, GSame DEF OnRows
  <2> QED BY <1>1, <2>1, <2>2, GRows!FindOK
<1>4. CASE LookGroups(r)
      BY <1>1, <1>2, <1>4, GSame, GRows!LookOK DEF LookGroups
<1>5. CASE DeleteGroups(r)
  <2>1. PICK K \in SUBSET Groups : Table!Write(r, K, Table!NoRows)
        BY <1>5 DEF DeleteGroups, Table!Delete, OnRows
  <2>2. \A g \in K : Table!NoRows[g] \in {None} \cup Categories
        BY DEF Table!NoRows
  <2> QED BY <1>1, <2>1, <2>2, GSame, GRows!WriteOK
<1>6. CASE SaveGroups(r)
  <2>1. PICK K \in SUBSET Groups : Table!Write(r, K, In(on[r]))
        BY <1>2, <1>6 DEF SaveGroups, Table!Save
  <2>2. \A g \in K : In(on[r])[g] \in {None} \cup Categories
        BY <1>2 DEF In
  <2> QED BY <1>1, <2>1, <2>2, GSame, GRows!WriteOK
<1> QED BY <1>3, <1>4, <1>5, <1>6

LEMMA GTyped ==
    ASSUME GInv, GInv', GOK, part = "categories", NEW r \in Requests, CategoryStep(r)
    PROVE  GOK' /\ GChange(r)
<1>1. GRows!TableOK(Categories)
      BY GSame DEF GOK, CategoriesTypeOK, GRows!TableOK
<1>2. \A q \in Requests \ {r} : on'[q] = on[q] /\ dto'[q] = dto[q]
      BY DEF GInv, CategoryStep, CreateCategory, ReadCategory, CountGroups, BeginOn, Rename, FindGroups,
         DeleteGroups, LookGroups, SaveGroups, Statement, CommitCategory, DropCategory, FailCategory
<1>3. ASSUME NEW T \in SUBSET Groups, GRows!TableOK(Categories)', GRows!Apart(r, T),
             glast' = [g \in Groups |-> IF g \in T THEN r ELSE glast[g]]
      PROVE  GOK' /\ GChange(r)
  <2>1. Table!TableTypeOK(Categories)' /\ GRows!Consistent'
        BY <1>3, GSame DEF GRows!TableOK, Table!TableTypeOK, GRows!TableTypeOK
  <2>2. glast' \in [Groups -> Requests \cup {None}]
        BY <1>3 DEF GOK, CategoriesTypeOK
  <2> QED BY <1>2, <1>3, <2>1, <2>2 DEF GOK, GInv, CategoriesTypeOK, GChange
<1>4. CASE \/ \E c \in Categories : \/ \E n \in Names : CreateCategory(r, c, n)
                                    \/ \E body \in Body : ReadCategory(r, c, body)
                                    \/ CountGroups(r, c)
           \/ Rename(r) \/ DropCategory(r)
  <2>1. UNCHANGED config
        BY <1>4 DEF CreateCategory, ReadCategory, CountGroups, BeginOn, Rename, DropCategory
  <2> QED BY <1>3, <2>1, GUntouched
<1>5. CASE FindGroups(r) \/ DeleteGroups(r) \/ LookGroups(r) \/ SaveGroups(r)
  <2>1. glast' = [g \in Groups |-> IF g \in {} THEN r ELSE glast[g]]
        BY <1>5 DEF FindGroups, DeleteGroups, LookGroups, SaveGroups, Statement, GOK, CategoriesTypeOK
  <2> QED BY <1>3, <1>5, <2>1, GOperations
<1>6. CASE CommitCategory(r)
  <2>1. /\ GRows!Commit(r)
        /\ glast' = [g \in Groups |-> IF g \in GRows!Wrote(r) THEN r ELSE glast[g]]
        BY <1>6, GSame DEF CommitCategory
  <2>2. GRows!Wrote(r) \in SUBSET Groups
        BY DEF GRows!Wrote
  <2> QED BY <1>1, <1>3, <2>1, <2>2, GRows!CommitOK
<1>7. CASE FailCategory(r)
  <2>1. GRows!Rollback(r) /\ glast' = [g \in Groups |-> IF g \in {} THEN r ELSE glast[g]]
        BY <1>7, GSame DEF FailCategory, GOK, CategoriesTypeOK
  <2> QED BY <1>1, <1>3, <2>1, GRows!RollbackOK
<1> QED BY <1>4, <1>5, <1>6, <1>7 DEF CategoryStep

\* The configurations and their permissions, what a request has in memory, and
\* what a step of request r leaves of the others.
KLocal(r) ==
    /\ kmem[r] # None =>
          part = "zones" /\ op[r] \in {"createConfig", "updateConfig"} /\ pc[r] \in {"read", "saving"}
    /\ kbase[r] # None => part = "zones" /\ op[r] = "updateConfig" /\ pc[r] = "saving"
    /\ part = "zones" /\ op[r] \in {"createConfig", "setConfigPermissions"} => kdto[r] \in List
    /\ part = "zones" /\ op[r] = "updateConfig" => kdto[r] \in Patch

POK == ConfigsTypeOK /\ PRows!Consistent /\ \A r \in Requests : KLocal(r)

KChange(r) ==
    /\ \A q \in Requests \ {r} : /\ kon'[q] = kon[q] /\ kdto'[q] = kdto[q]
                                 /\ kmem'[q] = kmem[q] /\ kbase'[q] = kbase[q]
    /\ \E T \in SUBSET Keys : /\ PRows!Apart(r, T)
                              /\ plast' = [x \in Keys |-> IF x \in T THEN r ELSE plast[x]]

\* What r has in memory changes, and the rows of permissions in T.
LEMMA PAssemble ==
    ASSUME KInv, KInv', POK, UNCHANGED part, NEW r \in Requests, NEW T \in SUBSET Keys,
           PRows!TableOK(Values)', PRows!Apart(r, T),
           plast' = [x \in Keys |-> IF x \in T THEN r ELSE plast[x]],
           NEW k \in Configs \cup {None}, kon' = [kon EXCEPT ![r] = k],
           NEW entity \in Config \cup {None}, kmem' = [kmem EXCEPT ![r] = entity],
           NEW base \in Config \cup {None}, kbase' = [kbase EXCEPT ![r] = base],
           NEW body \in Patch \cup List \cup {None}, kdto' = [kdto EXCEPT ![r] = body],
           Moves(r), KLocal(r)'
    PROVE  POK' /\ KChange(r)
<1>1. PTable!TableTypeOK(Values)' /\ PRows!Consistent'
      BY PSame DEF PRows!TableOK, PTable!TableTypeOK, PRows!TableTypeOK
<1>2. plast' \in [Keys -> Requests \cup {None}]
      BY DEF POK, ConfigsTypeOK
<1>3. /\ kon' \in [Requests -> Configs \cup {None}] /\ kmem' \in [Requests -> Config \cup {None}]
      /\ kbase' \in [Requests -> Config \cup {None}] /\ kdto' \in [Requests -> Patch \cup List \cup {None}]
      BY DEF POK, ConfigsTypeOK
<1>4. \A q \in Requests \ {r} : /\ kon'[q] = kon[q] /\ kdto'[q] = kdto[q]
                                /\ kmem'[q] = kmem[q] /\ kbase'[q] = kbase[q]
      BY DEF POK, ConfigsTypeOK
<1>5. ASSUME NEW q \in Requests, q # r PROVE KLocal(q)'
  <2>1. pc'[q] = pc[q] /\ op'[q] = op[q]
        BY <1>5 DEF Moves, KInv, HandlersOK
  <2> QED BY <1>4, <1>5, <2>1 DEF POK, KLocal
<1> QED BY <1>1, <1>2, <1>3, <1>4, <1>5 DEF POK, KInv, ConfigsTypeOK, KChange

\* A step that leaves all permissions alone.
LEMMA PUntouched ==
    ASSUME POK, NEW r \in Requests, UNCHANGED perms
    PROVE  /\ PRows!TableOK(Values)' /\ PRows!Apart(r, {})
           /\ plast' = [x \in Keys |-> IF x \in {} THEN r ELSE plast[x]]
<1>1. PRows!TableOK(Values)
      BY PSame DEF POK, ConfigsTypeOK, PRows!TableOK
<1> QED BY <1>1 DEF perms, PRows!TableOK, PRows!TableTypeOK, PRows!Consistent, PRows!Apart, PRows!View,
           POK, ConfigsTypeOK

\* A function that does not change, as one that changes at r to what it was.
LEMMA KSame ==
    ASSUME POK, NEW r \in Requests
    PROVE  /\ kon = [kon EXCEPT ![r] = kon[r]] /\ kon[r] \in Configs \cup {None}
           /\ kmem = [kmem EXCEPT ![r] = kmem[r]] /\ kmem[r] \in Config \cup {None}
           /\ kbase = [kbase EXCEPT ![r] = kbase[r]] /\ kbase[r] \in Config \cup {None}
           /\ kdto = [kdto EXCEPT ![r] = kdto[r]] /\ kdto[r] \in Patch \cup List \cup {None}
           /\ plast = [x \in Keys |-> IF x \in {} THEN r ELSE plast[x]]
BY DEF POK, ConfigsTypeOK

LEMMA PBegins ==
    ASSUME KInv, KInv', POK, part = "zones", UNCHANGED part, NEW r \in Requests, ConfigStep(r),
           \/ \E entity \in Config, list \in List : BeginConfig(r, entity, list)
           \/ \E k \in Configs :
                 \/ \E body \in Patch : ReadConfig(r, k, body)
                 \/ \E list \in List : ReadForPerms(r, k, list)
                 \/ ReadForDelete(r, k)
    PROVE  POK' /\ KChange(r)
<1>1. ASSUME NEW method, NEW k \in Configs \cup {None}, NEW entity \in Config \cup {None},
             NEW body \in Patch \cup List \cup {None}, BeginWith(r, method, k, entity, body),
             \/ method = "createConfig" /\ body \in List
             \/ method = "updateConfig" /\ body \in Patch
             \/ method = "setConfigPermissions" /\ body \in List /\ entity = None
             \/ method = "deleteConfig" /\ entity = None
      PROVE  POK' /\ KChange(r)
  <2>1. /\ pc[r] = "idle" /\ pc' = [pc EXCEPT ![r] = "read"] /\ op' = [op EXCEPT ![r] = method]
        /\ kon' = [kon EXCEPT ![r] = k] /\ kmem' = [kmem EXCEPT ![r] = entity]
        /\ kdto' = [kdto EXCEPT ![r] = body] /\ UNCHANGED <<kbase, perms>>
        BY <1>1 DEF BeginWith, Begin
  <2>2. HandlersOK /\ kmem'[r] = entity /\ kdto'[r] = body
        BY <2>1 DEF KInv, POK, ConfigsTypeOK
  <2>3. pc'[r] = "read" /\ op'[r] = method
        BY <2>1, <2>2 DEF HandlersOK
  <2>4. kbase[r] = None
        BY <2>1 DEF POK, KLocal
  <2>5. KLocal(r)'
        BY <1>1, <2>1, <2>2, <2>3, <2>4 DEF KLocal
  <2>6. Moves(r)
        BY <2>1, <2>3 DEF Moves
  <2> QED BY <2>1, <2>5, <2>6, PUntouched, PAssemble, KSame
<1>2. ASSUME NEW entity \in Config, NEW list \in List, BeginConfig(r, entity, list)
      PROVE  POK' /\ KChange(r)
      BY <1>1, <1>2 DEF BeginConfig
<1>3. ASSUME NEW k \in Configs, NEW body \in Patch, ReadConfig(r, k, body)
      PROVE  POK' /\ KChange(r)
  <2>1. \A loaded : Assigned(ch[k], body, loaded) \in Config
        BY <1>3 DEF ReadConfig, IsConfig, Assigned, Config, Patch
  <2>2. PICK loaded \in SUBSET Related :
            BeginWith(r, "updateConfig", k, Assigned(ch[k], body, loaded), body)
        BY <1>3 DEF ReadConfig
  <2> QED BY <1>1, <2>1, <2>2
<1>4. ASSUME NEW k \in Configs, NEW list \in List, ReadForPerms(r, k, list)
      PROVE  POK' /\ KChange(r)
      BY <1>1, <1>4 DEF ReadForPerms
<1>5. ASSUME NEW k \in Configs, ReadForDelete(r, k)
      PROVE  POK' /\ KChange(r)
      BY <1>1, <1>5 DEF ReadForDelete
<1> QED BY <1>2, <1>3, <1>4, <1>5

LEMMA PSaves ==
    ASSUME KInv, KInv', POK, part = "zones", UNCHANGED part, NEW r \in Requests,
           LookConfig(r) \/ SaveConfig(r)
    PROVE  POK' /\ KChange(r)
<1>0. HandlersOK
      BY DEF KInv
<1>1. /\ op[r] = "updateConfig" /\ UNCHANGED <<op, kon, kdto, perms>>
      BY DEF LookConfig, SaveConfig, Goto
<1>2. CASE LookConfig(r)
  <2>1. PICK base \in Config \cup {None} : kbase' = [kbase EXCEPT ![r] = base]
        BY <1>2 DEF LookConfig, IsConfig
  <2>2. pc[r] = "read" /\ pc' = [pc EXCEPT ![r] = "saving"] /\ kmem' = kmem
        BY <1>2 DEF LookConfig, Goto
  <2>3. pc'[r] = "saving" /\ Moves(r)
        BY <1>0, <1>1, <2>2 DEF Moves, HandlersOK
  <2>4. KLocal(r)'
        BY <1>1, <2>2, <2>3 DEF POK, KLocal
  <2> QED BY <1>1, <2>1, <2>2, <2>3, <2>4, PUntouched, PAssemble, KSame
<1>3. CASE SaveConfig(r)
  <2>1. /\ pc' = [pc EXCEPT ![r] = "done"]
        /\ kmem' = [kmem EXCEPT ![r] = None] /\ kbase' = [kbase EXCEPT ![r] = None]
        BY <1>3 DEF SaveConfig, Goto
  <2>2. pc'[r] = "done" /\ Moves(r)
        BY <1>0, <1>1, <2>1 DEF Moves, HandlersOK
  <2>3. KLocal(r)'
        BY <1>1, <2>1, <2>2 DEF POK, KLocal, ConfigsTypeOK
  <2> QED BY <1>1, <2>1, <2>2, <2>3, PUntouched, PAssemble, KSame
<1> QED BY <1>2, <1>3

\* setConfigPermissions within its transaction.
LEMMA PSets ==
    ASSUME KInv, KInv', POK, part = "zones", UNCHANGED part, NEW r \in Requests,
           FindPerms(r) \/ DeletePerms(r) \/ LookPerms(r) \/ SavePerms(r)
    PROVE  POK' /\ KChange(r)
<1>0. HandlersOK /\ PRows!TableOK(Values)
      BY PSame DEF KInv, POK, ConfigsTypeOK, PRows!TableOK
<1>1. PICK from \in Labels, to \in Labels : PermStatement(r, from, to)
      BY DEF FindPerms, DeletePerms, LookPerms, SavePerms, Labels
<1>2. /\ pc[r] = from /\ op[r] = "setConfigPermissions" /\ pc' = [pc EXCEPT ![r] = to]
      /\ UNCHANGED <<op, kon, kmem, kbase, kdto, plast>>
      BY <1>1 DEF PermStatement, Goto
<1>3. kon[r] \in Configs /\ kdto[r] \in List
      BY <1>2 DEF KInv, KMemOK, POK, KLocal
<1>4. /\ Of(kon[r]) \in SUBSET Keys /\ Listed(r) \in SUBSET Keys
      /\ \A x \in Keys : Wanted(r)[x] \in {None} \cup Values
      BY <1>3 DEF Of, Keys, Listed, Wanted, List
<1>5. PRows!TableOK(Values)' /\ PRows!Apart(r, {})
  <2>1. CASE FindPerms(r)
    <3>1. PICK K \in SUBSET Keys : PRows!Find(r, K) /\ \A x \in K : PRows!View(r, x) # None
          BY <1>4, <2>1, PSame DEF FindPerms
    <3> QED BY <1>0, <3>1, PRows!FindOK
  <2>2. CASE LookPerms(r)
        BY <1>0, <1>4, <2>2, PSame, PRows!LookOK DEF LookPerms
  <2>3. CASE DeletePerms(r)
    <3>1. PICK K \in SUBSET Keys : PTable!Write(r, K, PTable!NoRows)
          BY <1>4, <2>3 DEF DeletePerms, PTable!Delete
    <3>2. \A x \in K : PTable!NoRows[x] \in {None} \cup Values
          BY DEF PTable!NoRows
    <3> QED BY <1>0, <3>1, <3>2, PSame, PRows!WriteOK
  <2>4. CASE SavePerms(r)
    <3>1. PICK K \in SUBSET Keys : PTable!Write(r, K, Wanted(r))
          BY <1>4, <2>4 DEF SavePerms, PTable!Save
    <3> QED BY <1>0, <1>4, <3>1, PSame, PRows!WriteOK
  <2> QED BY <2>1, <2>2, <2>3, <2>4
<1>6. pc'[r] = to /\ Moves(r)
      BY <1>0, <1>2 DEF HandlersOK, Moves
<1>7. KLocal(r)'
      BY <1>2 DEF POK, KLocal
<1> QED BY <1>2, <1>5, <1>6, <1>7, PAssemble, KSame

\* A request ends.
LEMMA PEnds ==
    ASSUME KInv, KInv', POK, part = "zones", UNCHANGED part, NEW r \in Requests,
           CommitPerms(r) \/ FailConfig(r)
    PROVE  POK' /\ KChange(r)
<1>0. HandlersOK /\ PRows!TableOK(Values)
      BY PSame DEF KInv, POK, ConfigsTypeOK, PRows!TableOK
<1>1. CASE CommitPerms(r)
  <2>1. /\ op[r] = "setConfigPermissions" /\ pc' = [pc EXCEPT ![r] = "done"]
        /\ UNCHANGED <<op, kon, kmem, kbase, kdto>>
        BY <1>1 DEF CommitPerms, Goto
  <2>2. /\ PRows!Commit(r) /\ PRows!Wrote(r) \in SUBSET Keys
        /\ plast' = [x \in Keys |-> IF x \in PRows!Wrote(r) THEN r ELSE plast[x]]
        BY <1>1, PSame DEF CommitPerms, Changed, PRows!Wrote
  <2>3. PRows!TableOK(Values)' /\ PRows!Apart(r, PRows!Wrote(r))
        BY <1>0, <2>2, PRows!CommitOK
  <2>4. pc'[r] = "done" /\ Moves(r)
        BY <1>0, <2>1 DEF HandlersOK, Moves
  <2>5. KLocal(r)'
        BY <2>1 DEF POK, KLocal
  <2> QED BY <2>1, <2>2, <2>3, <2>4, <2>5, PAssemble, KSame
<1>2. CASE FailConfig(r)
  <2>1. /\ pc' = [pc EXCEPT ![r] = "failed"] /\ UNCHANGED <<op, kon, kdto, plast>>
        /\ kmem' = [kmem EXCEPT ![r] = None] /\ kbase' = [kbase EXCEPT ![r] = None]
        BY <1>2 DEF FailConfig, Goto
  <2>2. PRows!TableOK(Values)' /\ PRows!Apart(r, {})
        BY <1>0, <1>2, PSame, PRows!RollbackOK DEF FailConfig
  <2>3. pc'[r] = "failed" /\ Moves(r)
        BY <1>0, <2>1 DEF HandlersOK, Moves
  <2>4. KLocal(r)'
        BY <2>1 DEF POK, KLocal, ConfigsTypeOK
  <2> QED BY <2>1, <2>2, <2>3, <2>4, PAssemble, KSame
<1> QED BY <1>1, <1>2

LEMMA PInserts ==
    ASSUME KInv, KInv', POK, part = "zones", UNCHANGED part, NEW r \in Requests, InsertConfig(r)
    PROVE  POK' /\ KChange(r)
<1>0. HandlersOK /\ PRows!TableOK(Values)
      BY PSame DEF KInv, POK, ConfigsTypeOK, PRows!TableOK
<1>1. /\ pc[r] = "read" /\ op[r] = "createConfig" /\ pc' = [pc EXCEPT ![r] = "done"]
      /\ kmem' = [kmem EXCEPT ![r] = None] /\ UNCHANGED <<op, kbase, kdto>>
      BY DEF InsertConfig, Goto
<1>2. PICK k \in Configs : /\ kon' = [kon EXCEPT ![r] = k]
                           /\ PTable!Put(r, Of(k), Row(k, kdto[r])) /\ Changed(r, Of(k))
      BY DEF InsertConfig
<1>3. kdto[r] \in List
      BY <1>1 DEF POK, KLocal
<1>4. Of(k) \in SUBSET Keys /\ \A x \in Of(k) : Row(k, kdto[r])[x] \in {None} \cup Values
      BY <1>3 DEF Of, Keys, Row, List
<1>5. PRows!TableOK(Values)' /\ PRows!Apart(r, Of(k))
      BY <1>0, <1>2, <1>4, PSame, PRows!PutOK
<1>6. pc'[r] = "done" /\ Moves(r)
      BY <1>0, <1>1 DEF HandlersOK, Moves
<1>7. KLocal(r)'
      BY <1>1, <1>6 DEF POK, KLocal, ConfigsTypeOK
<1> QED BY <1>1, <1>2, <1>4, <1>5, <1>6, <1>7, PAssemble, KSame DEF Changed

LEMMA PCascades ==
    ASSUME KInv, KInv', POK, part = "zones", UNCHANGED part, NEW r \in Requests,
           DropConfig(r) \/ \E z \in Zones : DropZone(r, z)
    PROVE  POK' /\ KChange(r)
<1>0. HandlersOK /\ PRows!TableOK(Values)
      BY PSame DEF KInv, POK, ConfigsTypeOK, PRows!TableOK
<1>1. /\ pc[r] \in {"idle", "read"} /\ pc' = [pc EXCEPT ![r] = "done"]
      /\ UNCHANGED <<kon, kmem, kbase, kdto>>
      /\ \/ op' = op /\ op[r] = "deleteConfig"
         \/ pc[r] = "idle" /\ op' = [op EXCEPT ![r] = "deleteZone"]
      BY DEF DropConfig, DropZone, Begin, Goto
<1>2. PICK K \in SUBSET Configs : Cascade(r, K)
      BY DEF DropConfig, DropZone
<1>3. K \X Perms \in SUBSET Keys /\ \A x \in K \X Perms : PTable!NoRows[x] \in {None} \cup Values
      BY DEF Keys, PTable!NoRows
<1>4. PRows!TableOK(Values)' /\ PRows!Apart(r, K \X Perms)
      BY <1>0, <1>2, <1>3, PSame, PRows!PutOK DEF Cascade
<1>5. pc'[r] = "done" /\ Moves(r) /\ op'[r] \in {"deleteConfig", "deleteZone"}
      BY <1>0, <1>1 DEF HandlersOK, Moves
<1>6. kmem[r] = None /\ kbase[r] = None
      BY <1>1 DEF POK, KLocal
<1>7. KLocal(r)'
      BY <1>1, <1>5, <1>6 DEF KLocal
<1> QED BY <1>1, <1>2, <1>3, <1>4, <1>5, <1>7, PAssemble, KSame DEF Cascade, Changed

LEMMA PTyped ==
    ASSUME KInv, KInv', POK, part = "zones", UNCHANGED part, NEW r \in Requests,
           ConfigStep(r) \/ DeleteZone(r)
    PROVE  POK' /\ KChange(r)
<1>1. CASE DeleteZone(r)
      BY <1>1, PCascades DEF DeleteZone
<1>2. CASE ConfigStep(r)
      BY <1>2, PBegins, PSaves, PSets, PEnds, PInserts, PCascades DEF ConfigStep
<1> QED BY <1>1, <1>2

\* A step of the other parts, or one on crawls.
LEMMA PElsewhere ==
    ASSUME KInv, KInv', POK, UNCHANGED <<part, kvars>>, NEW r \in Requests,
           \/ part = "zones" /\ CrawlStep(r, zones)
           \/ part # "zones" /\ (CategoryStep(r) \/ ReportStep(r))
    PROVE  POK' /\ KChange(r)
<1>0. HandlersOK
      BY DEF KInv
<1>1. Moves(r)
      BY <1>0, CrawlMoves, OtherMethods
<1>2. UNCHANGED <<kon, kmem, kbase, kdto, perms>>
      BY DEF kvars
<1>3. KLocal(r)'
  <2>1. CASE part = "zones" /\ CrawlStep(r, zones)
    <3>1. /\ op'[r] \in {"storeCrawl", "setInactiveChannels"}
          /\ pc[r] = "idle" \/ op[r] \in {"storeCrawl", "setInactiveChannels"}
          BY <1>0, <2>1 DEF CrawlStep, BeginCrawl, InsertCrawl, FailReport, Begin, Goto, HandlersOK
    <3> QED BY <1>2, <3>1 DEF POK, KLocal
  <2>2. CASE part # "zones"
        BY <1>2, <2>2 DEF POK, KLocal
  <2> QED BY <2>1, <2>2
<1> QED BY <1>1, <1>2, <1>3, PUntouched, PAssemble, KSame

\* The crawls and the inactive channels, and what a step of request r leaves of them.
ILocal(r) == \A t \in Channels : iwriter[t] = r =>
    part = "reports" /\ op[r] = "setInactiveChannels" /\ pc[r] \in PermWriting

\* A report puts nothing in the place of a row that it has deleted.
IKilled(r) == \A t \in Channels : iwriter[t] = r /\ ikilled[t] =>
    idraft[t] = None /\ t \notin Reported(r)

IOK == CrawlsTypeOK(Zones) /\ IRows!Consistent /\ \A r \in Requests : ILocal(r) /\ IKilled(r)

\* What the histories of a row say of a step of r.
Blames(r) ==
    /\ tlast' \in [Channels -> Requests \cup {None}] /\ flast' \in [Channels -> Requests \cup {None}]
    /\ \A t \in Channels :
          /\ tlast'[t] \in {tlast[t], r} /\ (Time(idle'[t]) # Time(idle[t]) => tlast'[t] = r)
          /\ flast'[t] \in {flast[t], r} /\ (Flag(idle'[t]) # Flag(idle[t]) => flast'[t] = r)

IChange(r) ==
    /\ \A q \in Requests \ {r} : idto'[q] = idto[q]
    /\ \E T \in SUBSET Channels : IRows!Apart(r, T)
    /\ IRows!Loses(r) /\ Blames(r)

LEMMA IAssemble ==
    ASSUME KInv, KInv', IOK, UNCHANGED part, NEW r \in Requests, NEW T \in SUBSET Channels,
           IRows!TableOK(Inactive)', IRows!Apart(r, T), IRows!Loses(r), Blames(r),
           cid' \in [Requests -> CrawlIds \cup {None}], cdto' \in [Requests -> SUBSET Zones],
           NEW list \in [Channels -> Inactive \cup {None}], idto' = [idto EXCEPT ![r] = list],
           Moves(r), ILocal(r)', IKilled(r)'
    PROVE  IOK' /\ IChange(r)
<1>1. ITable!TableTypeOK(Inactive)' /\ IRows!Consistent'
      BY ISame DEF IRows!TableOK, ITable!TableTypeOK, IRows!TableTypeOK
<1>2. /\ idto' \in [Requests -> [Channels -> Inactive \cup {None}]]
      /\ \A q \in Requests \ {r} : idto'[q] = idto[q]
      BY DEF IOK, CrawlsTypeOK
<1>3. crawl' \in [CrawlIds -> {None} \cup SUBSET Zones]
  <2>1. crawl' \in [CrawlIds -> {None} \cup SUBSET zones'] /\ zones' \in SUBSET Zones
        BY DEF KInv
  <2> QED BY <2>1
<1>4. ASSUME NEW q \in Requests, q # r PROVE ILocal(q)' /\ IKilled(q)'
  <2>1. HandlersOK
        BY DEF KInv
  <2>2. pc'[q] = pc[q] /\ op'[q] = op[q]
        BY <1>4, <2>1 DEF Moves, HandlersOK
  <2>3. \A t \in Channels : iwriter'[t] = q <=> iwriter[t] = q
        BY <1>4 DEF IRows!Apart
  <2>4. \A t \in Channels : iwriter[t] = q => idraft'[t] = idraft[t] /\ (ikilled'[t] <=> ikilled[t])
        BY <1>4 DEF IRows!Apart
  <2>5. ILocal(q)'
        BY <2>2, <2>3 DEF IOK, ILocal
  <2>6. IKilled(q)'
        BY <1>2, <1>4, <2>3, <2>4 DEF IOK, IKilled, Reported
  <2> QED BY <2>5, <2>6
<1> QED BY <1>1, <1>2, <1>3, <1>4 DEF IOK, CrawlsTypeOK, IChange, Blames

\* A step that leaves all rows alone.
LEMMA IUntouched ==
    ASSUME IOK, NEW r \in Requests, UNCHANGED <<idle, iwriter, idraft, ikilled, iscan, iseen, tlast, flast>>
    PROVE  IRows!TableOK(Inactive)' /\ IRows!Apart(r, {}) /\ IRows!Loses(r) /\ Blames(r)
<1>1. IRows!TableOK(Inactive)
      BY ISame DEF IOK, CrawlsTypeOK, IRows!TableOK
<1>2. IRows!TableOK(Inactive)' /\ IRows!Apart(r, {}) /\ IRows!Loses(r)
      BY <1>1 DEF IRows!TableOK, IRows!TableTypeOK, IRows!Consistent, IRows!Apart, IRows!Loses, IRows!View
<1> QED BY <1>2 DEF IOK, CrawlsTypeOK, Blames

LEMMA ISelf ==
    ASSUME IOK, NEW r \in Requests
    PROVE  /\ idto = [idto EXCEPT ![r] = idto[r]] /\ idto[r] \in [Channels -> Inactive \cup {None}]
           /\ cid \in [Requests -> CrawlIds \cup {None}] /\ cdto \in [Requests -> SUBSET Zones]
           /\ UNCHANGED <<idle, tlast, flast>> => Blames(r)
           /\ IRows!TableOK(Inactive)
BY ISame DEF IOK, CrawlsTypeOK, Blames, IRows!TableOK

\* A row that is written is one.
LEMMA UpdatedOK ==
    ASSUME IOK, NEW r \in Requests, NEW t \in Channels
    PROVE  Updated(r, t) \in {None} \cup Inactive
<1>1. /\ iseen[r][t] \in {None} \cup Inactive /\ idto[r][t] \in {None} \cup Inactive
      /\ ITable!View(r, t) \in {None} \cup Inactive
      BY DEF IOK, CrawlsTypeOK, ITable!TableTypeOK, ITable!View
<1>2. CASE None \in {iseen[r][t], ITable!View(r, t), idto[r][t]} \/ idto[r][t] = iseen[r][t]
      BY <1>1, <1>2 DEF Updated
<1>3. CASE ~(None \in {iseen[r][t], ITable!View(r, t), idto[r][t]} \/ idto[r][t] = iseen[r][t])
  <2>1. \A new, base, row \in Inactive :
          [c \in {"time", "isNotified"} |-> IF new[c] = base[c] THEN row[c] ELSE new[c]] \in Inactive
        BY DEF Inactive
  <2> QED BY <1>1, <1>3, <2>1 DEF Updated
<1> QED BY <1>2, <1>3

\* What saving a report does to each channel.
LEMMA SaveEffectI ==
    ASSUME IOK, NEW r \in Requests, SaveInactive(r)
    PROVE  /\ \A t \in Channels :
                 \/ /\ t \in Reported(r) /\ iseen[r][t] # Updated(r, t) /\ iwriter[t] \in {None, r}
                    /\ iwriter'[t] = r /\ idraft'[t] = Updated(r, t) /\ (ikilled'[t] <=> ikilled[t])
                    /\ (IRows!View(r, t) = None <=> iseen[r][t] = None)
                 \/ /\ iwriter'[t] = iwriter[t] /\ idraft'[t] = idraft[t] /\ (ikilled'[t] <=> ikilled[t])
                    /\ \/ t \notin Reported(r) \/ iseen[r][t] = Updated(r, t)
                       \/ iseen[r][t] # None /\ (IRows!View(r, t) = None \/ t \notin iscan[r])
           /\ UNCHANGED <<idle, iseen>>
<1> DEFINE new == [t \in Channels |-> Updated(r, t)]
<1>1. \A t \in Channels : new[t] = Updated(r, t)
      OBVIOUS
<1>2. ITable!Save(r, Reported(r), new)
      BY DEF SaveInactive
<1>3. Reported(r) \in SUBSET Channels
      BY DEF Reported
<1>4. ASSUME NEW t \in Reported(r) PROVE new[t] # None
  <2>1. t \in Channels /\ idto[r][t] \in Inactive
        BY DEF Reported, IOK, CrawlsTypeOK
  <2>2. Updated(r, t) = idto[r][t] \/ Updated(r, t) \in Inactive
    <3>1. Updated(r, t) \in {None} \cup Inactive
          BY <2>1, UpdatedOK
    <3>2. /\ iseen[r][t] \in {None} \cup Inactive
          /\ ITable!View(r, t) \in {None} \cup Inactive
          BY <2>1 DEF IOK, CrawlsTypeOK, ITable!TableTypeOK, ITable!View
    <3>3. \A next, base, row \in Inactive :
            [c \in {"time", "isNotified"} |-> IF next[c] = base[c] THEN row[c] ELSE next[c]] \in Inactive
          BY DEF Inactive
    <3> QED BY <2>1, <3>2, <3>3 DEF Updated
  <2> QED BY <1>1, <2>1, <2>2, InactiveAssumption
<1> HIDE DEF new
<1>5. IRows!Save(r, Reported(r), new)
      BY <1>2, ISame
<1>6. /\ \A t \in Channels :
            \/ /\ t \in Reported(r) /\ iseen[r][t] # new[t] /\ iwriter[t] \in {None, r}
               /\ iwriter'[t] = r /\ idraft'[t] = new[t] /\ (ikilled'[t] <=> ikilled[t])
               /\ (IRows!View(r, t) = None <=> iseen[r][t] = None)
            \/ /\ iwriter'[t] = iwriter[t] /\ idraft'[t] = idraft[t] /\ (ikilled'[t] <=> ikilled[t])
               /\ \/ t \notin Reported(r) \/ iseen[r][t] = new[t]
                  \/ iseen[r][t] # None /\ (IRows!View(r, t) = None \/ t \notin iscan[r])
      /\ UNCHANGED <<idle, iseen>>
      BY <1>3, <1>4, <1>5, IRows!SaveEffect
<1> QED BY <1>1, <1>6

\* setInactiveChannelsInServer within its transaction.
LEMMA IStatements ==
    ASSUME KInv, KInv', IOK, part = "reports", UNCHANGED part, NEW r \in Requests,
           FindUnlisted(r) \/ DeleteUnlisted(r) \/ LookInactive(r) \/ SaveInactive(r)
    PROVE  IOK' /\ IChange(r)
<1>0. HandlersOK /\ IRows!TableOK(Inactive)
      BY ISelf DEF KInv
<1>1. PICK from \in Labels, to \in PermWriting : ReportStatement(r, from, to)
      BY DEF FindUnlisted, DeleteUnlisted, LookInactive, SaveInactive, Labels, PermWriting
<1>2. /\ op[r] = "setInactiveChannels" /\ pc' = [pc EXCEPT ![r] = to]
      /\ UNCHANGED <<op, cid, cdto, idto, tlast, flast>>
      BY <1>1 DEF ReportStatement, Goto, lasts
<1>3. None \notin Inactive
      BY InactiveAssumption
<1>4. /\ IRows!TableOK(Inactive)' /\ IRows!Apart(r, {}) /\ idle' = idle
      /\ IKilled(r)'
  <2>0. IKilled(r) /\ Reported(r)' = Reported(r) /\ IRows!TableTypeOK(Inactive)
        BY <1>0, <1>2 DEF IOK, Reported, IRows!TableOK
  <2>1. CASE FindUnlisted(r)
    <3>1. PICK K \in SUBSET Channels : IRows!Find(r, K) /\ \A t \in K : IRows!View(r, t) # None
          BY <2>1, ISame DEF FindUnlisted
    <3>2. UNCHANGED <<iwriter, idraft, ikilled>>
          BY <3>1 DEF IRows!Find
    <3> QED BY <1>0, <2>0, <3>1, <3>2, IRows!FindOK DEF IKilled
  <2>2. CASE LookInactive(r)
    <3>1. Reported(r) \in SUBSET Channels
          BY DEF Reported
    <3>2. UNCHANGED <<iwriter, idraft, ikilled>>
          BY <2>2 DEF LookInactive, ITable!Look
    <3> QED BY <1>0, <2>0, <2>2, <3>1, <3>2, ISame, IRows!LookOK DEF LookInactive, IKilled
  <2>3. CASE DeleteUnlisted(r)
    <3>1. PICK K \in SUBSET Channels : ITable!Write(r, K, ITable!NoRows)
          BY <2>3 DEF DeleteUnlisted, ITable!Delete
    <3>2. \A t \in K : ITable!NoRows[t] \in {None} \cup Inactive
          BY DEF ITable!NoRows
    <3>3. \A t \in Channels : \/ iwriter'[t] = r /\ idraft'[t] = None /\ t \notin Reported(r)
                              \/ iwriter'[t] = iwriter[t] /\ idraft'[t] = idraft[t] /\ (ikilled'[t] <=> ikilled[t])
      <4>1. IRows!Delete(r, Channels \ Reported(r))
            BY <2>3, ISame DEF DeleteUnlisted
      <4> QED BY <4>1, IRows!DeleteEffect
    <3>4. IKilled(r)'
          BY <2>0, <3>3 DEF IKilled
    <3> QED BY <1>0, <1>3, <3>1, <3>2, <3>4, ISame, IRows!WriteOK
  <2>4. CASE SaveInactive(r)
    <3>1. PICK K \in SUBSET Channels : ITable!Write(r, K, [t \in Channels |-> Updated(r, t)])
          BY <2>4 DEF SaveInactive, ITable!Save, Reported
    <3>2. \A t \in K : [x \in Channels |-> Updated(r, x)][t] \in {None} \cup Inactive
          BY UpdatedOK
    <3>3. \A t \in Channels :
              \/ t \in Reported(r) /\ iwriter[t] \in {None, r} /\ (ikilled'[t] <=> ikilled[t])
              \/ iwriter'[t] = iwriter[t] /\ idraft'[t] = idraft[t] /\ (ikilled'[t] <=> ikilled[t])
          BY <2>4, SaveEffectI
    <3>4. \A t \in Channels : iwriter[t] = None => ~ikilled[t]
          BY <2>0 DEF IRows!TableTypeOK
    <3>5. IKilled(r)'
          BY <2>0, <3>3, <3>4 DEF IKilled
    <3> QED BY <1>0, <1>3, <3>1, <3>2, <3>5, ISame, IRows!WriteOK
  <2> QED BY <2>1, <2>2, <2>3, <2>4
<1>5. pc'[r] = to /\ Moves(r)
      BY <1>0, <1>2 DEF HandlersOK, Moves
<1>6. ILocal(r)'
      BY <1>2, <1>5 DEF ILocal
<1>7. IRows!Loses(r)
      BY <1>4 DEF IRows!Apart, IRows!Loses
<1> QED BY <1>2, <1>4, <1>5, <1>6, <1>7, IAssemble, ISelf

\* A report is stored, or is not.
LEMMA IEnds ==
    ASSUME KInv, KInv', IOK, part \in {"zones", "reports"}, UNCHANGED part, NEW r \in Requests,
           CommitReport(r) \/ FailReport(r)
    PROVE  IOK' /\ IChange(r)
<1>0. HandlersOK /\ IRows!TableOK(Inactive) /\ None \notin Inactive
      BY ISelf, InactiveAssumption DEF KInv
<1>1. CASE CommitReport(r)
  <2>1. /\ pc' = [pc EXCEPT ![r] = "done"] /\ UNCHANGED <<op, cid, cdto, idto>>
        /\ tlast' = [t \in Channels |-> IF Time(idle[t]) # Time(idle'[t]) THEN r ELSE tlast[t]]
        /\ flast' = [t \in Channels |-> IF Flag(idle[t]) # Flag(idle'[t]) THEN r ELSE flast[t]]
        BY <1>1 DEF CommitReport, Goto
  <2>2. IRows!Wrote(r) \in SUBSET Channels
        BY DEF IRows!Wrote
  <2>3. IRows!TableOK(Inactive)' /\ IRows!Apart(r, IRows!Wrote(r)) /\ IRows!Wrote(r)' = {}
        BY <1>0, <1>1, ISame, IRows!CommitOK DEF CommitReport
  <2>4. Moves(r)
        BY <1>0, <2>1 DEF HandlersOK, Moves
  <2>5. ILocal(r)' /\ IKilled(r)'
        BY <2>3 DEF ILocal, IKilled, IRows!Wrote
  <2>6. Blames(r)
        BY <2>1 DEF Blames, IOK, CrawlsTypeOK
  <2>7. IRows!Loses(r)
        BY <1>0, <1>1, ISame, IRows!CommitLoses DEF CommitReport, IOK, IKilled
  <2> QED BY <2>1, <2>2, <2>3, <2>4, <2>5, <2>6, <2>7, IAssemble, ISelf
<1>2. CASE FailReport(r)
  <2>1. pc' = [pc EXCEPT ![r] = "failed"] /\ UNCHANGED <<op, cid, cdto, idto, tlast, flast>>
        BY <1>2 DEF FailReport, Goto, lasts
  <2>2. IRows!TableOK(Inactive)' /\ IRows!Apart(r, {}) /\ idle' = idle /\ IRows!Wrote(r)' = {}
        BY <1>0, <1>2, ISame, IRows!RollbackOK DEF FailReport
  <2>3. Moves(r)
        BY <1>0, <2>1 DEF HandlersOK, Moves
  <2>4. ILocal(r)' /\ IKilled(r)' /\ IRows!Loses(r)
        BY <2>2 DEF ILocal, IKilled, IRows!Wrote, IRows!Apart, IRows!Loses
  <2> QED BY <2>1, <2>2, <2>3, <2>4, IAssemble, ISelf
<1> QED BY <1>1, <1>2

\* A request begins, or is over at once; it has written nothing before.
LEMMA IIdle ==
    ASSUME IOK, HandlersOK, NEW r \in Requests, Moves(r), IRows!Wrote(r)' = IRows!Wrote(r),
           pc[r] = "idle" \/ part # "reports"
    PROVE  part' = part => ILocal(r)' /\ IKilled(r)'
<1>1. \A t \in Channels : iwriter[t] # r
      BY DEF IOK, ILocal, PermWriting
<1> QED BY <1>1 DEF ILocal, IKilled, IRows!Wrote

LEMMA INotifies ==
    ASSUME KInv, KInv', IOK, part = "reports", UNCHANGED part, NEW r \in Requests,
           NEW t \in Channels, NEW b \in BOOLEAN, Notify(r, t, b)
    PROVE  IOK' /\ IChange(r)
<1>0. HandlersOK /\ IRows!TableOK(Inactive) /\ None \notin Inactive
      BY ISelf, InactiveAssumption DEF KInv
<1>1. /\ pc[r] = "idle" /\ UNCHANGED <<cid, cdto>>
      /\ pc' = [pc EXCEPT ![r] = "done"] /\ op' = [op EXCEPT ![r] = "setChannelNotified"]
      BY DEF Notify, Begin
<1>2. Moves(r)
      BY <1>0, <1>1 DEF Moves, HandlersOK
<1>3. CASE idle[t] = None
  <2>1. UNCHANGED <<idle, iwriter, idraft, ikilled, iscan, iseen, idto, tlast, flast>>
        BY <1>3 DEF Notify, reports, itable, lasts
  <2>2. ILocal(r)' /\ IKilled(r)'
        BY <1>0, <1>1, <1>2, <2>1, IIdle DEF IRows!Wrote
  <2> QED BY <1>1, <1>2, <2>1, <2>2, IUntouched, IAssemble, ISelf
<1>4. CASE idle[t] # None
  <2> DEFINE row == [idle[t] EXCEPT !.isNotified = b]
             new == [idle EXCEPT ![t] = row]
             K == {t}
  <2>1. /\ ITable!Put(r, K, new) /\ idto' = [idto EXCEPT ![r][t] = row]
        /\ flast' = [flast EXCEPT ![t] = r] /\ UNCHANGED tlast
        BY <1>4 DEF Notify
  <2>2. idle[t] \in Inactive /\ row \in Inactive /\ row.time = idle[t].time
    <3>1. idle[t] \in Inactive
          BY <1>4 DEF IOK, CrawlsTypeOK, ITable!TableTypeOK
    <3> QED BY <3>1 DEF Inactive
  <2>3. K \in SUBSET Channels /\ new[t] = row
        BY DEF IOK, CrawlsTypeOK, ITable!TableTypeOK
  <2>4. /\ IRows!TableOK(Inactive)' /\ IRows!Apart(r, {t}) /\ iwriter' = iwriter
        /\ idle'[t] = row /\ IRows!Loses(r)
    <3>1. \A k \in K : new[k] \in {None} \cup Inactive
          BY <2>2, <2>3
    <3> HIDE DEF new
    <3>2. IRows!Put(r, K, new)
          BY <2>1, ISame
    <3> HIDE DEF K
    <3>3. /\ IRows!TableOK(Inactive)' /\ IRows!Apart(r, K) /\ iwriter' = iwriter
          /\ \A k \in K : idle'[k] = new[k]
          /\ IRows!Loses(r)
          BY <1>0, <2>3, <3>1, <3>2, IRows!PutOK
    <3> QED BY <2>3, <3>3 DEF K
  <2> HIDE DEF row, new, K
  <2>5. idle'[t] = row /\ \A u \in Channels \ {t} : idle'[u] = idle[u]
    <3>1. idle \in [Channels -> {None} \cup Inactive]
          BY DEF IOK, CrawlsTypeOK, ITable!TableTypeOK
    <3> QED BY <2>4, <3>1 DEF IRows!Apart
  <2>6. [idto[r] EXCEPT ![t] = row] \in [Channels -> Inactive \cup {None}]
        BY <2>2 DEF IOK, CrawlsTypeOK
  <2>7. idto' = [idto EXCEPT ![r] = [idto[r] EXCEPT ![t] = row]]
        BY <2>1
  <2>8. Time(idle'[t]) = Time(idle[t])
    <3>1. row # None
          BY <1>0, <2>2
    <3> QED BY <1>4, <2>2, <2>5, <3>1 DEF Time
  <2>9. Blames(r)
    <3>1. tlast' = tlast /\ flast'[t] = r /\ \A u \in Channels \ {t} : flast'[u] = flast[u]
          BY <2>1 DEF IOK, CrawlsTypeOK
    <3>2. flast' \in [Channels -> Requests \cup {None}]
          BY <2>1 DEF IOK, CrawlsTypeOK
    <3>3. \A u \in Channels : Time(idle'[u]) = Time(idle[u])
          BY <2>5, <2>8
    <3>4. \A u \in Channels \ {t} : Flag(idle'[u]) = Flag(idle[u])
          BY <2>5
    <3>5. tlast \in [Channels -> Requests \cup {None}]
          BY DEF IOK, CrawlsTypeOK
    <3> QED BY <3>1, <3>2, <3>3, <3>4, <3>5 DEF Blames
  <2>10. ILocal(r)' /\ IKilled(r)'
        BY <1>0, <1>1, <1>2, <2>4, IIdle DEF IRows!Wrote
  <2> QED BY <1>1, <1>2, <2>4, <2>6, <2>7, <2>9, <2>10, IAssemble, ISelf
<1> QED BY <1>3, <1>4

LEMMA ITyped ==
    ASSUME KInv, KInv', IOK, part = "reports", UNCHANGED part, NEW r \in Requests, ReportStep(r)
    PROVE  IOK' /\ IChange(r)
<1>1. ASSUME NEW list \in Lists, BeginReport(r, list)
      PROVE  IOK' /\ IChange(r)
  <2>1. /\ pc[r] = "idle" /\ pc' = [pc EXCEPT ![r] = "read"]
        /\ op' = [op EXCEPT ![r] = "setInactiveChannels"] /\ idto' = [idto EXCEPT ![r] = list]
        /\ UNCHANGED <<idle, iwriter, idraft, ikilled, iscan, iseen, tlast, flast, cid, cdto>>
        BY <1>1 DEF BeginReport, Begin, itable, lasts
  <2>2. HandlersOK /\ list \in [Channels -> Inactive \cup {None}]
        BY InactiveAssumption DEF KInv
  <2>3. Moves(r)
        BY <2>1, <2>2 DEF Moves, HandlersOK
  <2>4. ILocal(r)' /\ IKilled(r)'
        BY <2>1, <2>2, <2>3, IIdle DEF IRows!Wrote
  <2> QED BY <2>1, <2>2, <2>3, <2>4, IUntouched, IAssemble, ISelf
<1> QED BY <1>1, INotifies, IStatements, IEnds DEF ReportStep

\* Crawls have no part in the table of inactive channels.
LEMMA IElsewhere ==
    ASSUME KInv, KInv', IOK, UNCHANGED part, NEW r \in Requests,
           \/ part = "zones" /\ (CrawlStep(r, zones) \/ DeleteZone(r))
           \/ UNCHANGED cvars /\ part = "zones" /\ ConfigStep(r)
           \/ UNCHANGED cvars /\ part = "categories" /\ CategoryStep(r)
    PROVE  IOK' /\ IChange(r)
<1>0. HandlersOK /\ part # "reports"
      BY DEF KInv
<1>1. Moves(r)
      BY <1>0, ConfigMoves, CrawlMoves, OtherMethods
<1>2. ASSUME UNCHANGED <<idle, iwriter, idraft, ikilled, iscan, iseen, idto, tlast, flast>>,
             cid' \in [Requests -> CrawlIds \cup {None}], cdto' \in [Requests -> SUBSET Zones]
      PROVE  IOK' /\ IChange(r)
  <2>1. ILocal(r)' /\ IKilled(r)'
        BY <1>0, <1>1, <1>2, IIdle DEF IRows!Wrote
  <2> QED BY <1>1, <1>2, <2>1, IUntouched, IAssemble, ISelf
<1>3. CASE UNCHANGED cvars
      BY <1>2, <1>3, ISelf DEF cvars, reports, itable, lasts
<1>4. CASE DeleteZone(r)
      BY <1>2, <1>4, ISelf DEF DeleteZone, ForgetZone, reports, itable, lasts
<1>5. CASE part = "zones" /\ FailReport(r)
      BY <1>5, IEnds
<1>6. ASSUME NEW Z \in SUBSET zones, BeginCrawl(r, Z, zones)
      PROVE  IOK' /\ IChange(r)
  <2>1. cdto' = [cdto EXCEPT ![r] = Z] /\ UNCHANGED <<cid, reports>>
        BY <1>6 DEF BeginCrawl
  <2>2. Z \in SUBSET Zones
        BY DEF KInv
  <2>3. cdto' \in [Requests -> SUBSET Zones]
        BY <2>1, <2>2 DEF IOK, CrawlsTypeOK
  <2> QED BY <1>2, <2>1, <2>3, ISelf DEF reports, itable, lasts
<1>7. CASE InsertCrawl(r, zones)
  <2>1. UNCHANGED <<cdto, reports>> /\ \E k \in CrawlIds : cid' = [cid EXCEPT ![r] = k]
        BY <1>7 DEF InsertCrawl
  <2>2. cid' \in [Requests -> CrawlIds \cup {None}]
        BY <2>1 DEF IOK, CrawlsTypeOK
  <2> QED BY <1>2, <2>1, <2>2, ISelf DEF reports, itable, lasts
<1> QED BY <1>0, <1>3, <1>4, <1>5, <1>6, <1>7 DEF CrawlStep

-----------------------------------------------------------------------------
\* A request is in a method of the part that the requests are about.
Methods(p) == CASE p = "categories" -> {"none", "createCategory", "updateCategory", "deleteCategory"}
                [] p = "zones"      -> {"none", "createConfig", "updateConfig", "setConfigPermissions",
                                        "deleteConfig", "deleteZone", "storeCrawl"}
                [] p = "reports"    -> {"none", "setInactiveChannels", "setChannelNotified"}
OpsOK == \A r \in Requests : op[r] \in Methods(part)

\* All of it: where the requests are, the three tables, and their invariants.
SInv == GInv /\ KInv /\ Past /\ OpsOK /\ GOK /\ POK /\ IOK

StepOf(r) ==
    /\ UNCHANGED part
    /\ \/ part = "categories" /\ CategoryStep(r) /\ UNCHANGED <<kvars, cvars>>
       \/ part = "zones"      /\ ConfigStep(r) /\ UNCHANGED <<gvars, cvars>>
       \/ part = "zones"      /\ CrawlStep(r, zones) /\ UNCHANGED <<gvars, kvars>>
       \/ part = "zones"      /\ DeleteZone(r) /\ UNCHANGED gvars
       \/ part = "reports"    /\ ReportStep(r) /\ UNCHANGED <<gvars, kvars>>

LEMMA OpsStep ==
    ASSUME HandlersOK, part \in Parts, OpsOK, NEW r \in Requests, StepOf(r), Advances(r)
    PROVE  OpsOK'
<1>1. \A q \in Requests \ {r} : op'[q] = op[q]
      BY DEF Advances, Moves, HandlersOK
<1>2. CASE part = "categories" /\ CategoryStep(r)
  <2>1. op'[r] = op[r] \/ op'[r] \in Methods("categories")
        BY <1>2 DEF Methods, HandlersOK, CategoryStep, CreateCategory, ReadCategory, CountGroups, BeginOn,
           Begin, Rename, FindGroups, DeleteGroups, LookGroups, SaveGroups, Statement, CommitCategory,
           DropCategory, FailCategory, Goto
  <2> QED BY <1>1, <1>2, <2>1 DEF OpsOK, StepOf
<1>3. CASE part = "zones" /\ ConfigStep(r)
  <2>1. op'[r] = op[r] \/ op'[r] \in Methods("zones")
        BY <1>3 DEF Methods, HandlersOK, ConfigStep, BeginConfig, ReadConfig, ReadForPerms, ReadForDelete,
           BeginWith, Begin, InsertConfig, LookConfig, SaveConfig, FindPerms, DeletePerms, LookPerms,
           SavePerms, PermStatement, CommitPerms, DropConfig, FailConfig, Goto
  <2> QED BY <1>1, <1>3, <2>1 DEF OpsOK, StepOf
<1>4. CASE part = "zones" /\ (CrawlStep(r, zones) \/ DeleteZone(r))
  <2>1. op'[r] = op[r] \/ op'[r] \in Methods("zones")
        BY <1>4 DEF Methods, HandlersOK, CrawlStep, BeginCrawl, InsertCrawl, FailReport, DeleteZone, DropZone,
           Begin, Goto
  <2> QED BY <1>1, <1>4, <2>1 DEF OpsOK, StepOf
<1>5. CASE part = "reports" /\ ReportStep(r)
  <2>1. op'[r] = op[r] \/ op'[r] \in Methods("reports")
        BY <1>5 DEF Methods, HandlersOK, ReportStep, BeginReport, Notify, FindUnlisted, DeleteUnlisted,
           LookInactive, SaveInactive, CommitReport, FailReport, ReportStatement, Begin, Goto
  <2> QED BY <1>1, <1>5, <2>1 DEF OpsOK, StepOf
<1> QED BY <1>2, <1>3, <1>4, <1>5 DEF StepOf

LEMMA SInit == Init => SInv
<1> SUFFICES ASSUME Init PROVE SInv
    OBVIOUS
<1>1. HandlersInit /\ ConfigsInit
      BY DEF Init
<1>2. Past
      BY DEF Init, HandlersInit, Past, Labels
<1>6. OpsOK
      BY DEF Init, HandlersInit, OpsOK, Methods, Parts
<1>3. GOK
  <2>1. GInv /\ glast = [g \in Groups |-> None] /\ GRows!TableInit
        BY GInit, GSame DEF Init, CategoriesInit
  <2>2. conf \in [Groups -> {None} \cup Categories]
        BY <2>1 DEF GInv
  <2>3. GRows!TableOK(Categories)
        BY <2>1, <2>2, GRows!TableInitOK
  <2>4. Table!TableTypeOK(Categories) /\ GRows!Consistent
        BY <2>3, GSame DEF GRows!TableOK
  <2> QED BY <2>1, <2>4 DEF GOK, CategoriesTypeOK, GInv
<1>4. POK
  <2>1. PTable!TableInit /\ perm \in [Keys -> {None} \cup Values]
        BY DEF Init, ConfigsInit
  <2>2. PRows!TableOK(Values)
        BY <2>1, PSame, PRows!TableInitOK
  <2>3. PTable!TableTypeOK(Values) /\ PRows!Consistent
        BY <2>2, PSame DEF PRows!TableOK
  <2>4. ConfigsTypeOK
        BY <2>3 DEF Init, ConfigsInit, ConfigsTypeOK
  <2>5. \A r \in Requests : KLocal(r)
    <3>1. kmem = [r \in Requests |-> None] /\ kbase = [r \in Requests |-> None]
          BY <1>1 DEF ConfigsInit
    <3>2. op = [r \in Requests |-> "none"]
          BY <1>1 DEF HandlersInit
    <3>3. \A r \in Requests : kmem[r] = None /\ kbase[r] = None
          BY <3>1
    <3>4. \A r \in Requests : op[r] = "none"
          BY <3>2
    <3> QED BY <3>3, <3>4 DEF KLocal
  <2> QED BY <2>3, <2>4, <2>5 DEF POK
<1>5. IOK
  <2>1. /\ ITable!TableInit /\ ITable!NoRows = [t \in Channels |-> None]
        /\ ITable!NoRows \in [Channels -> Inactive \cup {None}]
        BY DEF Init, CrawlsInit, ITable!NoRows
  <2>2. IRows!TableInit /\ idle \in [Channels -> {None} \cup Inactive]
        BY <2>1, ISame, InactiveAssumption DEF Init, CrawlsInit
  <2>3. IRows!TableOK(Inactive)
        BY <2>2, IRows!TableInitOK, InactiveAssumption
  <2>4. ITable!TableTypeOK(Inactive) /\ IRows!Consistent
        BY <2>3, ISame DEF IRows!TableOK
  <2>5. CrawlsTypeOK(Zones)
        BY <2>1, <2>4 DEF Init, CrawlsInit, CrawlsTypeOK
  <2>6. \A r \in Requests : ILocal(r) /\ IKilled(r)
        BY <2>1 DEF ILocal, IKilled, ITable!TableInit
  <2> QED BY <2>4, <2>5, <2>6 DEF IOK
<1> QED BY <1>2, <1>3, <1>4, <1>5, <1>6, GInit, KInit DEF SInv

\* What a step of request r leaves of all the others.
LEMMA SStepOf ==
    ASSUME SInv, NEW r \in Requests, StepOf(r)
    PROVE  SInv' /\ Advances(r) /\ GChange(r) /\ KChange(r) /\ IChange(r)
<1>0. [Next]_vars /\ HandlersOK
      BY DEF StepOf, Next, SInv, GInv
<1>1. GInv' /\ KInv'
      BY <1>0, GStep, KStep DEF SInv
<1>2. Advances(r)
      BY <1>0, CategoryAdvances, ConfigAdvances, CrawlAdvances DEF StepOf
<1>3. Past' /\ OpsOK'
      BY <1>0, <1>2, PastStep, OpsStep DEF SInv, GInv
<1>4. GOK' /\ GChange(r)
  <2>1. CASE part = "categories" /\ CategoryStep(r)
        BY <1>1, <2>1, GTyped DEF SInv
  <2>2. CASE UNCHANGED gvars
    <3>1. UNCHANGED config /\ UNCHANGED <<on, dto>>
          BY <2>2 DEF gvars
    <3>2. GRows!TableOK(Categories)' /\ GRows!Apart(r, {})
          BY <3>1, GUntouched DEF SInv
    <3>3. /\ glast' = [g \in Groups |-> IF g \in {} THEN r ELSE glast[g]]
          /\ glast' \in [Groups -> Requests \cup {None}]
          BY <3>1, GUntouched DEF SInv
    <3>4. Table!TableTypeOK(Categories)' /\ GRows!Consistent'
          BY <3>2, GSame DEF GRows!TableOK, Table!TableTypeOK, GRows!TableTypeOK
    <3>5. GChange(r)
          BY <3>1, <3>2, <3>3 DEF GChange
    <3> QED BY <1>1, <3>3, <3>4, <3>5 DEF GOK, GInv, CategoriesTypeOK
  <2> QED BY <2>1, <2>2 DEF StepOf
<1>5. POK' /\ KChange(r)
  <2>1. CASE part = "zones" /\ (ConfigStep(r) \/ DeleteZone(r))
        BY <1>1, <2>1, PTyped DEF SInv, StepOf
  <2>2. CASE UNCHANGED kvars /\ \/ part = "zones" /\ CrawlStep(r, zones)
                                \/ part # "zones" /\ (CategoryStep(r) \/ ReportStep(r))
        BY <1>1, <2>2, PElsewhere DEF SInv, StepOf
  <2> QED BY <2>1, <2>2 DEF StepOf
<1>6. IOK' /\ IChange(r)
  <2>1. CASE part = "reports" /\ ReportStep(r)
        BY <1>1, <2>1, ITyped DEF SInv, StepOf
  <2>2. CASE \/ part = "zones" /\ (CrawlStep(r, zones) \/ DeleteZone(r))
             \/ UNCHANGED cvars /\ part = "zones" /\ ConfigStep(r)
             \/ UNCHANGED cvars /\ part = "categories" /\ CategoryStep(r)
        BY <1>1, <2>2, IElsewhere DEF SInv, StepOf
  <2> QED BY <2>1, <2>2 DEF StepOf
<1> QED BY <1>1, <1>2, <1>3, <1>4, <1>5, <1>6 DEF SInv

LEMMA SStutter == SInv /\ UNCHANGED vars => SInv'
<1> SUFFICES ASSUME SInv, UNCHANGED vars PROVE SInv'
    OBVIOUS
<1>1. UNCHANGED <<pc, op, before, part, zones, ch, kon, kmem, kbase, kdto, perms, crawl, cid, cdto, idto>>
      BY DEF vars, hvars, kvars, cvars, reports
<1>2. UNCHANGED <<cat, named, on, dto, config>> /\ UNCHANGED <<itable, lasts>>
      BY DEF vars, gvars, cvars, reports
<1>3. GInv' /\ KInv'
      BY GStep, KStep DEF SInv
<1>4. Past' /\ OpsOK'
      BY <1>1 DEF SInv, Past, OpsOK
<1>5. GOK'
      BY <1>2 DEF SInv, GOK, config, CategoriesTypeOK, Table!TableTypeOK, GRows!Consistent, GRows!View
<1>6. POK'
      BY <1>1 DEF SInv, POK, perms, ConfigsTypeOK, PTable!TableTypeOK, PRows!Consistent, PRows!View, KLocal
<1>7. IOK'
      BY <1>1, <1>2 DEF SInv, IOK, itable, lasts, CrawlsTypeOK, ITable!TableTypeOK, IRows!Consistent,
         IRows!View, ILocal, IKilled, Reported
<1> QED BY <1>3, <1>4, <1>5, <1>6, <1>7 DEF SInv

LEMMA SStep == SInv /\ [Next]_vars => SInv'
<1>1. Next => \E r \in Requests : StepOf(r)
      BY DEF Next, StepOf
<1> QED BY <1>1, SStepOf, SStutter

\* The tables, the transactions and what requests hold are of their types, and a
\* request that has not begun or is over has nothing open and holds nothing.
THEOREM SettingsTypeCorrect == Spec => []SettingsTypeOK
<1>1. SInv => SettingsTypeOK
  <2> SUFFICES ASSUME SInv PROVE SettingsTypeOK
      OBVIOUS
  <2>1. ASSUME NEW r \in Requests, ~Active(r)
        PROVE  /\ named[r] = None /\ kmem[r] = None /\ kbase[r] = None
               /\ Table!Wrote(r) = {} /\ PTable!Wrote(r) = {} /\ ITable!Wrote(r) = {}
    <3>1. pc[r] \in {"idle", "done", "failed"}
          BY <2>1 DEF Active, Ended
    <3>2. named[r] = None /\ \A g \in Groups : gwriter[g] # r
          BY <3>1, GBefore DEF SInv, Writing
    <3>3. \A x \in Keys : pwriter[x] # r
          BY <3>1, KBefore DEF SInv, PermWriting
    <3>4. \A t \in Channels : iwriter[t] # r
          BY <3>1 DEF SInv, IOK, ILocal, PermWriting
    <3>5. kmem[r] = None /\ kbase[r] = None
          BY <3>1 DEF SInv, POK, KLocal
    <3> QED BY <3>2, <3>3, <3>4, <3>5 DEF Table!Wrote, PTable!Wrote, ITable!Wrote
  <2>2. CategoriesTypeOK /\ ConfigsTypeOK /\ CrawlsTypeOK(Zones) /\ part \in Parts
        BY DEF SInv, GOK, POK, IOK, GInv
  <2>3. pc \in [Requests -> {"idle", "read", "renamed", "deleting", "deleted", "saving", "saved"} \cup Ended]
        BY DEF SInv, Past, Labels
  <2> QED BY <2>1, <2>2, <2>3 DEF SettingsTypeOK
<1> QED BY <1>1, SInit, SStep, PTL DEF Spec

-----------------------------------------------------------------------------
(* What a request leaves stands                                            *)

\* A step of another request.
LEMMA Foreign ==
    ASSUME SInv, NEW r \in Requests, NEW q \in Requests \ {r}, StepOf(q)
    PROVE  /\ pc'[r] = pc[r] /\ op'[r] = op[r] /\ before'[r] = before[r] /\ part' = part
           /\ q \notin before[r] \cup {r, None}
           /\ GChange(q) /\ KChange(q) /\ IChange(q)
<1>1. HandlersOK /\ Advances(q) /\ GChange(q) /\ KChange(q) /\ IChange(q)
      BY SStepOf DEF SInv, GInv
<1>2. q \notin before[r] /\ before'[r] = before[r]
      BY <1>1, PastStep DEF SInv
<1> QED BY <1>1, <1>2 DEF Advances, Moves, HandlersOK, StepOf

\* updateCategory, as far as request r has come with group g.
GEmptied(r, g) == IF gwriter[g] = r THEN gdraft[g] = None
                  ELSE conf[g] = on[r] => Stands(r, glast[g])
GStandsAt(r, g) ==
    /\ pc[r] = "renamed" => gwriter[g] # r
    /\ pc[r] = "deleting" =>
          gwriter[g] # r /\ (conf[g] = on[r] => g \in gscan[r] \/ Stands(r, glast[g]))
    /\ pc[r] \in {"deleted", "saving"} => GEmptied(r, g)
    /\ pc[r] = "saving" /\ g \in dto[r].groups /\ gseen[r][g] # None =>
          /\ gwriter[g] # r
          /\ (g \in gscan[r] /\ conf[g] = gseen[r][g]) \/ Stands(r, glast[g])
    /\ pc[r] = "saved" =>
          IF gwriter[g] = r THEN (g \in dto[r].groups) = (gdraft[g] = on[r])
          ELSE (g \in dto[r].groups) # (conf[g] = on[r]) => Stands(r, glast[g])
    /\ pc[r] = "done" =>
          ((g \in dto[r].groups) # (conf[g] = on[r]) => Stands(r, glast[g]))
GStand == \A r \in Requests : part = "categories" /\ op[r] = "updateCategory" =>
              \A g \in Groups : GStandsAt(r, g)

LEMMA GForeign ==
    ASSUME SInv, GStand, NEW r \in Requests, NEW q \in Requests \ {r}, StepOf(q),
           part = "categories", op'[r] = "updateCategory", NEW g \in Groups
    PROVE  GStandsAt(r, g)'
<1>1. /\ pc'[r] = pc[r] /\ op'[r] = op[r] /\ before'[r] = before[r]
      /\ q \notin before[r] \cup {r, None} /\ GChange(q)
      BY Foreign
<1>2. /\ on'[r] = on[r] /\ dto'[r] = dto[r]
      BY <1>1 DEF GChange
<1>3. PICK T \in SUBSET Groups : /\ GRows!Apart(q, T)
                                 /\ glast' = [h \in Groups |-> IF h \in T THEN q ELSE glast[h]]
      BY <1>1 DEF GChange
<1>4. /\ gseen'[r] = gseen[r] /\ (gwriter'[g] = r <=> gwriter[g] = r)
      /\ gwriter[g] = r => gdraft'[g] = gdraft[g] /\ g \notin T
      /\ g \notin T => conf'[g] = conf[g] /\ (g \in gscan[r] => g \in gscan'[r])
      BY <1>3 DEF GRows!Apart
<1>5. /\ Stands(r, glast[g]) \/ g \in T => glast'[g] \notin before'[r] \cup {r, None}
      BY <1>1, <1>3 DEF Stands
<1>6. GStandsAt(r, g)
      BY <1>1 DEF GStand
<1>7. CASE g \in T
      BY <1>1, <1>2, <1>4, <1>5, <1>6, <1>7 DEF GStandsAt, GEmptied, Stands
<1>8. CASE g \notin T
      BY <1>1, <1>2, <1>4, <1>5, <1>6, <1>8 DEF GStandsAt, GEmptied, Stands
<1> QED BY <1>7, <1>8

\* Its own steps, from which the rows stand or were another's before.
LEMMA GFinds ==
    ASSUME SInv, GStand, NEW r \in Requests, FindGroups(r), NEW g \in Groups,
           part = "categories", op[r] = "updateCategory"
    PROVE  GStandsAt(r, g)'
<1>1. /\ pc[r] = "renamed" /\ pc' = [pc EXCEPT ![r] = "deleting"] /\ UNCHANGED <<on, before, glast>>
      BY DEF FindGroups, Statement, Goto
<1>2. pc'[r] = "deleting"
      BY <1>1 DEF SInv, Past
<1>3. GRows!Find(r, OnRows(r)) /\ GRows!TableTypeOK(Categories) /\ OnRows(r) \in SUBSET Groups
      BY GSame DEF FindGroups, SInv, GOK, CategoriesTypeOK, OnRows
<1>4. gscan'[r] = OnRows(r) /\ conf' = conf /\ gwriter' = gwriter
      BY <1>3, GRows!FindEffect
<1>5. gwriter[g] # r
      BY <1>1 DEF GStand, GStandsAt
<1>6. conf[g] = on[r] => g \in OnRows(r)
      BY <1>5 DEF OnRows, Table!View
<1> QED BY <1>1, <1>2, <1>4, <1>5, <1>6 DEF GStandsAt

LEMMA GDeletes ==
    ASSUME SInv, GStand, NEW r \in Requests, DeleteGroups(r), NEW g \in Groups,
           part = "categories", op[r] = "updateCategory"
    PROVE  GStandsAt(r, g)'
<1>1. /\ pc[r] = "deleting" /\ UNCHANGED <<on, dto, before, glast>>
      /\ pc' = [pc EXCEPT ![r] = IF dto[r].groups = {} THEN "saved" ELSE "deleted"]
      BY DEF DeleteGroups, Statement, Goto
<1>2. pc'[r] = IF dto[r].groups = {} THEN "saved" ELSE "deleted"
      BY <1>1 DEF SInv, Past
<1>3. GRows!Delete(r, OnRows(r))
      BY GSame DEF DeleteGroups
<1>4. /\ conf' = conf
      /\ IF g \in gscan[r] /\ g \in OnRows(r) THEN gwriter'[g] = r /\ gdraft'[g] = None
         ELSE gwriter'[g] = gwriter[g] /\ gdraft'[g] = gdraft[g]
      BY <1>3, GRows!DeleteEffect
<1>5. gwriter[g] # r /\ (conf[g] = on[r] => g \in gscan[r] \/ Stands(r, glast[g]))
      BY <1>1 DEF GStand, GStandsAt
<1>6. g \in OnRows(r) <=> conf[g] = on[r]
      BY <1>5 DEF OnRows, Table!View
<1>7. on[r] # None
      BY DEF SInv, GInv, GMemOK
<1>8. IF gwriter'[g] = r THEN gdraft'[g] = None
      ELSE conf'[g] = on[r] => Stands(r, glast[g])
      BY <1>4, <1>5, <1>6
<1> QED BY <1>1, <1>2, <1>7, <1>8 DEF GStandsAt, GEmptied, Stands

LEMMA GLooks ==
    ASSUME SInv, GStand, NEW r \in Requests, LookGroups(r), NEW g \in Groups,
           part = "categories", op[r] = "updateCategory"
    PROVE  GStandsAt(r, g)'
<1>1. /\ pc[r] = "deleted" /\ pc' = [pc EXCEPT ![r] = "saving"] /\ UNCHANGED <<on, dto, before, glast>>
      BY DEF LookGroups, Statement, Goto
<1>2. pc'[r] = "saving"
      BY <1>1 DEF SInv, Past
<1>3. /\ GRows!Look(r, dto[r].groups) /\ GRows!TableTypeOK(Categories)
      /\ dto[r].groups \in SUBSET Groups
      BY GSame DEF LookGroups, SInv, GOK, CategoriesTypeOK, Body
<1>4. /\ UNCHANGED <<conf, gwriter, gdraft>>
      /\ g \in dto[r].groups => /\ gseen'[r][g] = GRows!View(r, g)
                                /\ GRows!View(r, g) # None => g \in gscan'[r]
      BY <1>3 DEF GRows!Look, GRows!TableTypeOK
<1>5. GEmptied(r, g)
      BY <1>1 DEF GStand, GStandsAt
<1>6. CASE gwriter[g] = r
      BY <1>1, <1>2, <1>4, <1>5, <1>6 DEF GStandsAt, GEmptied, Stands, GRows!View
<1>7. CASE gwriter[g] # r
      BY <1>1, <1>2, <1>4, <1>5, <1>7 DEF GStandsAt, GEmptied, Stands, GRows!View
<1> QED BY <1>6, <1>7

LEMMA GSaves ==
    ASSUME SInv, GStand, NEW r \in Requests, SaveGroups(r), NEW g \in Groups,
           part = "categories", op[r] = "updateCategory"
    PROVE  GStandsAt(r, g)'
<1>1. /\ pc[r] = "saving" /\ pc' = [pc EXCEPT ![r] = "saved"] /\ UNCHANGED <<on, dto, before, glast>>
      BY DEF SaveGroups, Statement, Goto
<1>2. pc'[r] = "saved"
      BY <1>1 DEF SInv, Past
<1>3. /\ GRows!Save(r, dto[r].groups, In(on[r]))
      /\ dto[r].groups \in SUBSET Groups /\ on[r] # None
      BY GSame DEF SaveGroups, SInv, GInv, GMemOK, Body
<1>4. \A h \in Groups : In(on[r])[h] = on[r]
      BY DEF In
<1>5. /\ conf' = conf
      /\ \/ g \in dto[r].groups /\ gwriter'[g] = r /\ gdraft'[g] = on[r]
         \/ /\ gwriter'[g] = gwriter[g] /\ gdraft'[g] = gdraft[g]
            /\ \/ g \notin dto[r].groups \/ gseen[r][g] = on[r]
               \/ gseen[r][g] # None /\ (GRows!View(r, g) = None \/ g \notin gscan[r])
  <2> DEFINE K == dto[r].groups
             new == In(on[r])
  <2>1. K \in SUBSET Groups /\ (\A k \in K : new[k] # None) /\ GRows!Save(r, K, new)
        BY <1>3, <1>4
  <2> HIDE DEF K, new
  <2>2. /\ \A k \in Groups :
              \/ /\ k \in K /\ gseen[r][k] # new[k] /\ gwriter[k] \in {None, r}
                 /\ gwriter'[k] = r /\ gdraft'[k] = new[k]
                 /\ (gkilled'[k] <=> gkilled[k])
                 /\ (GRows!View(r, k) = None <=> gseen[r][k] = None)
              \/ /\ gwriter'[k] = gwriter[k] /\ gdraft'[k] = gdraft[k]
                 /\ (gkilled'[k] <=> gkilled[k])
                 /\ \/ k \notin K \/ gseen[r][k] = new[k]
                    \/ gseen[r][k] # None /\ (GRows!View(r, k) = None \/ k \notin gscan[r])
        /\ UNCHANGED <<conf, gseen>>
        BY <2>1, GRows!SaveEffect
  <2>3. K = dto[r].groups /\ new[g] = on[r]
        BY <1>4 DEF K, new
  <2> QED BY <2>2, <2>3
<1>6. /\ GEmptied(r, g)
      /\ g \in dto[r].groups /\ gseen[r][g] # None =>
            /\ gwriter[g] # r
            /\ (g \in gscan[r] /\ conf[g] = gseen[r][g]) \/ Stands(r, glast[g])
      BY <1>1 DEF GStand, GStandsAt
<1>7. CASE g \in dto[r].groups /\ gwriter'[g] = r /\ gdraft'[g] = on[r]
      BY <1>1, <1>2, <1>7 DEF GStandsAt
<1>8. CASE g \notin dto[r].groups /\ gwriter'[g] = gwriter[g] /\ gdraft'[g] = gdraft[g]
      BY <1>1, <1>2, <1>3, <1>5, <1>6, <1>8 DEF GStandsAt, GEmptied, Stands
<1>9. CASE g \in dto[r].groups /\ gwriter'[g] = gwriter[g] /\ gdraft'[g] = gdraft[g] /\ gseen[r][g] # None
      BY <1>1, <1>2, <1>3, <1>5, <1>6, <1>9 DEF GStandsAt, Stands, GRows!View
<1> QED BY <1>3, <1>5, <1>7, <1>8, <1>9

LEMMA GCommits ==
    ASSUME SInv, GStand, NEW r \in Requests, CommitCategory(r), NEW g \in Groups,
           part = "categories", op[r] = "updateCategory"
    PROVE  GStandsAt(r, g)'
<1>1. /\ pc[r] = "saved" /\ pc' = [pc EXCEPT ![r] = "done"] /\ UNCHANGED <<on, dto, before>>
      /\ glast' = [h \in Groups |-> IF gwriter[h] = r THEN r ELSE glast[h]]
      /\ conf' = [h \in Groups |-> IF gwriter[h] = r THEN gdraft[h] ELSE conf[h]]
      BY DEF CommitCategory, Goto, Table!Commit, Table!View, Table!Wrote
<1>2. pc'[r] = "done"
      BY <1>1 DEF SInv, Past
<1>3. IF gwriter[g] = r THEN (g \in dto[r].groups) = (gdraft[g] = on[r])
      ELSE (g \in dto[r].groups) # (conf[g] = on[r]) => Stands(r, glast[g])
      BY <1>1 DEF GStand, GStandsAt
<1>4. CASE gwriter[g] = r
      BY <1>1, <1>2, <1>3, <1>4 DEF GStandsAt
<1>5. CASE gwriter[g] # r
      BY <1>1, <1>2, <1>3, <1>5 DEF GStandsAt, Stands
<1> QED BY <1>4, <1>5

LEMMA GOwn ==
    ASSUME SInv, GStand, part = "categories", NEW r \in Requests, CategoryStep(r),
           op'[r] = "updateCategory", NEW g \in Groups
    PROVE  GStandsAt(r, g)'
<1>0. HandlersOK
      BY DEF SInv, GInv
<1>1. CASE FindGroups(r) \/ DeleteGroups(r) \/ LookGroups(r) \/ SaveGroups(r) \/ CommitCategory(r)
  <2>1. op[r] = "updateCategory"
        BY <1>1 DEF FindGroups, DeleteGroups, LookGroups, SaveGroups, CommitCategory, Statement, Goto
  <2> QED BY <1>1, <2>1, GFinds, GDeletes, GLooks, GSaves, GCommits
<1>2. CASE Rename(r)
  <2>1. pc[r] = "read" /\ pc'[r] = "renamed" /\ gwriter' = gwriter
        BY <1>0, <1>2 DEF Rename, Goto, HandlersOK, config
  <2>2. gwriter[g] # r
        BY <2>1, GBefore DEF SInv, Writing
  <2> QED BY <2>1, <2>2 DEF GStandsAt
<1>3. CASE FailCategory(r)
  <2>1. pc'[r] = "failed"
        BY <1>0, <1>3 DEF FailCategory, Goto, HandlersOK
  <2> QED BY <2>1 DEF GStandsAt
<1>4. ASSUME NEW c \in Categories, NEW body \in Body, ReadCategory(r, c, body)
      PROVE  GStandsAt(r, g)'
  <2>1. pc'[r] = "read"
        BY <1>0, <1>4 DEF ReadCategory, BeginOn, Begin, HandlersOK
  <2> QED BY <2>1 DEF GStandsAt
<1>5. CASE DropCategory(r) \/ \E c \in Categories : CountGroups(r, c) \/ \E n \in Names : CreateCategory(r, c, n)
      BY <1>0, <1>5 DEF DropCategory, CountGroups, CreateCategory, BeginOn, Begin, Goto, HandlersOK
<1> QED BY <1>1, <1>2, <1>3, <1>4, <1>5 DEF CategoryStep

\* updateCategory: once answered well, the category has the groups of the body and
\* no others, but for groups that a request not over when it began has changed.
THEOREM GroupsAlwaysStand == Spec => []GroupsStand
<1>1. Init => GStand
  <2>1. HandlersInit => \A r \in Requests : op[r] # "updateCategory"
        BY DEF HandlersInit
  <2> QED BY <2>1 DEF Init, GStand
<1>2. SInv /\ GStand /\ [Next]_vars => GStand'
  <2> SUFFICES ASSUME SInv, GStand, [Next]_vars PROVE GStand'
      OBVIOUS
  <2>1. CASE UNCHANGED vars
        BY <2>1 DEF vars, hvars, gvars, config, GStand, GStandsAt, GEmptied, Stands
  <2>2. ASSUME NEW q \in Requests, StepOf(q) PROVE GStand'
    <3> SUFFICES ASSUME NEW r \in Requests, part' = "categories", op'[r] = "updateCategory",
                        NEW g \in Groups
                 PROVE  GStandsAt(r, g)'
        BY DEF GStand
    <3>1. part = "categories" /\ CategoryStep(q)
          BY <2>2 DEF StepOf
    <3> QED BY <2>2, <3>1, GForeign, GOwn
  <2> QED BY <2>1, <2>2 DEF Next, StepOf
<1>3. SInv /\ GStand => GroupsStand
  <2> SUFFICES ASSUME SInv, GStand, NEW r \in Requests, op[r] = "updateCategory", pc[r] = "done",
                      NEW g \in Groups, (g \in dto[r].groups) # (conf[g] = on[r])
               PROVE  Stands(r, glast[g])
      BY DEF GroupsStand
  <2>1. part = "categories"
        BY DEF SInv, OpsOK, GInv, Parts, Methods
  <2> QED BY <2>1 DEF GStand, GStandsAt
<1> QED BY <1>1, <1>2, <1>3, SInit, SStep, PTL DEF Spec

\* setConfigPermissions, as far as request r has come with permission x.
PEmptied(r, x) == IF pwriter[x] = r THEN pdraft[x] = None
                  ELSE perm[x] # None => Stands(r, plast[x])
PStandsAt(r, x) ==
    /\ pc[r] = "deleting" =>
          pwriter[x] # r /\ (perm[x] # None => x \in pscan[r] \/ Stands(r, plast[x]))
    /\ pc[r] \in {"deleted", "saving"} => PEmptied(r, x)
    /\ pc[r] = "saving" /\ x \in Listed(r) /\ pseen[r][x] # None =>
          pwriter[x] # r /\ Stands(r, plast[x])
    /\ pc[r] = "saved" =>
          IF pwriter[x] = r THEN pdraft[x] = Wanted(r)[x]
          ELSE perm[x] # Wanted(r)[x] => Stands(r, plast[x])
    /\ pc[r] = "done" => (perm[x] # Wanted(r)[x] => Stands(r, plast[x]))
PStand == \A r \in Requests : part = "zones" /\ op[r] = "setConfigPermissions" =>
              \A x \in Of(kon[r]) : PStandsAt(r, x)

LEMMA PForeign ==
    ASSUME SInv, PStand, NEW r \in Requests, NEW q \in Requests \ {r}, StepOf(q),
           part = "zones", op'[r] = "setConfigPermissions", NEW x \in Of(kon'[r])
    PROVE  PStandsAt(r, x)'
<1>1. /\ pc'[r] = pc[r] /\ op'[r] = op[r] /\ before'[r] = before[r]
      /\ q \notin before[r] \cup {r, None} /\ KChange(q)
      BY Foreign
<1>2. /\ kon'[r] = kon[r] /\ kdto'[r] = kdto[r]
      BY <1>1 DEF KChange
<1>3. x \in Of(kon[r]) /\ x \in Keys
      BY <1>1, <1>2 DEF SInv, KInv, KMemOK, Of, Keys
<1>4. PICK T \in SUBSET Keys : /\ PRows!Apart(q, T)
                               /\ plast' = [y \in Keys |-> IF y \in T THEN q ELSE plast[y]]
      BY <1>1 DEF KChange
<1>5. /\ pseen'[r] = pseen[r] /\ (pwriter'[x] = r <=> pwriter[x] = r)
      /\ pwriter[x] = r => pdraft'[x] = pdraft[x] /\ x \notin T
      /\ x \notin T => perm'[x] = perm[x] /\ (x \in pscan[r] => x \in pscan'[r])
      BY <1>3, <1>4 DEF PRows!Apart
<1>6. Stands(r, plast[x]) \/ x \in T => plast'[x] \notin before'[r] \cup {r, None}
      BY <1>1, <1>3, <1>4 DEF Stands
<1>7. x \notin T => plast'[x] = plast[x]
      BY <1>3, <1>4
<1>8. PStandsAt(r, x)
      BY <1>1, <1>3 DEF PStand
<1>9. Wanted(r)'[x] = Wanted(r)[x] /\ (x \in Listed(r)' <=> x \in Listed(r))
      BY <1>2, <1>3 DEF Wanted, Listed
<1>10. CASE x \in T
      BY <1>1, <1>5, <1>6, <1>8, <1>9, <1>10 DEF PStandsAt, PEmptied, Stands
<1>11. CASE x \notin T
      BY <1>1, <1>5, <1>6, <1>7, <1>8, <1>9, <1>11 DEF PStandsAt, PEmptied, Stands
<1> QED BY <1>10, <1>11

\* What the request reads and writes stays within its configuration.
LEMMA PKeys ==
    ASSUME SInv, part = "zones", NEW r \in Requests, op[r] = "setConfigPermissions", NEW x \in Of(kon[r])
    PROVE  /\ Of(kon[r]) \in SUBSET Keys /\ Listed(r) \in SUBSET Keys /\ x \in Keys
           /\ x \in Listed(r) <=> Wanted(r)[x] # None
           /\ PRows!TableTypeOK(Values)
<1>1. kon[r] \in Configs
      BY DEF SInv, KInv, KMemOK
<1>2. Of(kon[r]) \in SUBSET Keys /\ Listed(r) \in SUBSET Keys /\ x \in Keys
      BY <1>1 DEF Of, Keys, Listed
<1>3. x \in Listed(r) <=> Wanted(r)[x] # None
      BY <1>2 DEF Listed, Wanted
<1> QED BY <1>2, <1>3, PSame DEF SInv, POK, ConfigsTypeOK

\* Its own steps, as updateCategory's.
LEMMA PFinds ==
    ASSUME SInv, PStand, part = "zones", NEW r \in Requests, FindPerms(r), NEW x \in Of(kon[r])
    PROVE  PStandsAt(r, x)'
<1>1. /\ pc[r] = "read" /\ op[r] = "setConfigPermissions" /\ pc' = [pc EXCEPT ![r] = "deleting"]
      BY DEF FindPerms, PermStatement, Goto
<1>2. pc'[r] = "deleting"
      BY <1>1 DEF SInv, Past
<1>3. x \in Keys /\ Of(kon[r]) \in SUBSET Keys /\ PRows!TableTypeOK(Values)
      BY <1>1, PKeys
<1> DEFINE K == {y \in Of(kon[r]) : PTable!View(r, y) # None}
<1>4. pwriter[x] # r
      BY <1>1, <1>3, KBefore DEF SInv, PermWriting
<1>5. perm[x] # None => x \in K
      BY <1>4 DEF PTable!View
<1>6. PRows!Find(r, K) /\ K \in SUBSET Keys
      BY <1>3, PSame DEF FindPerms
<1> HIDE DEF K
<1>7. pscan'[r] = K /\ perm' = perm /\ pwriter' = pwriter
      BY <1>3, <1>6, PRows!FindEffect
<1> QED BY <1>2, <1>4, <1>5, <1>7 DEF PStandsAt

LEMMA PDeletes ==
    ASSUME SInv, PStand, part = "zones", NEW r \in Requests, DeletePerms(r), NEW x \in Of(kon[r])
    PROVE  PStandsAt(r, x)'
<1>1. /\ pc[r] = "deleting" /\ op[r] = "setConfigPermissions" /\ UNCHANGED <<kon, kdto, before, plast>>
      /\ pc' = [pc EXCEPT ![r] = IF Listed(r) = {} THEN "saved" ELSE "deleted"]
      BY DEF DeletePerms, PermStatement, Goto
<1>2. pc'[r] = IF Listed(r) = {} THEN "saved" ELSE "deleted"
      BY <1>1 DEF SInv, Past
<1>3. x \in Keys /\ (x \in Listed(r) <=> Wanted(r)[x] # None)
      BY <1>1, PKeys
<1>4. PRows!Delete(r, Of(kon[r]))
      BY PSame DEF DeletePerms
<1>5. /\ perm' = perm
      /\ IF x \in pscan[r] THEN pwriter'[x] = r /\ pdraft'[x] = None
         ELSE pwriter'[x] = pwriter[x] /\ pdraft'[x] = pdraft[x]
      BY <1>3, <1>4, PRows!DeleteEffect
<1>6. pwriter[x] # r /\ (perm[x] # None => x \in pscan[r] \/ Stands(r, plast[x]))
      BY <1>1 DEF PStand, PStandsAt
<1>7. IF pwriter'[x] = r THEN pdraft'[x] = None ELSE perm'[x] # None => Stands(r, plast[x])
      BY <1>5, <1>6
<1>8. Wanted(r)' = Wanted(r)
      BY <1>1 DEF Wanted
<1> QED BY <1>1, <1>2, <1>3, <1>7, <1>8 DEF PStandsAt, PEmptied, Stands

LEMMA PLooks ==
    ASSUME SInv, PStand, part = "zones", NEW r \in Requests, LookPerms(r), NEW x \in Of(kon[r])
    PROVE  PStandsAt(r, x)'
<1>1. /\ pc[r] = "deleted" /\ op[r] = "setConfigPermissions" /\ UNCHANGED <<kon, kdto, before, plast>>
      /\ pc' = [pc EXCEPT ![r] = "saving"]
      BY DEF LookPerms, PermStatement, Goto
<1>2. pc'[r] = "saving"
      BY <1>1 DEF SInv, Past
<1>3. x \in Keys /\ PRows!Look(r, Listed(r)) /\ PRows!TableTypeOK(Values)
      BY <1>1, PKeys, PSame DEF LookPerms
<1>4. /\ UNCHANGED <<perm, pwriter, pdraft>>
      /\ x \in Listed(r) => pseen'[r][x] = PRows!View(r, x)
      BY <1>3 DEF PRows!Look, PRows!TableTypeOK
<1>5. PEmptied(r, x)
      BY <1>1 DEF PStand, PStandsAt
<1>6. Listed(r)' = Listed(r)
      BY <1>1 DEF Listed
<1> QED BY <1>1, <1>2, <1>4, <1>5, <1>6 DEF PStandsAt, PEmptied, Stands, PRows!View

LEMMA PSavesPerms ==
    ASSUME SInv, PStand, part = "zones", NEW r \in Requests, SavePerms(r), NEW x \in Of(kon[r])
    PROVE  PStandsAt(r, x)'
<1>1. /\ pc[r] = "saving" /\ op[r] = "setConfigPermissions" /\ UNCHANGED <<kon, kdto, before, plast>>
      /\ pc' = [pc EXCEPT ![r] = "saved"]
      BY DEF SavePerms, PermStatement, Goto
<1>2. pc'[r] = "saved"
      BY <1>1 DEF SInv, Past
<1>3. /\ x \in Keys /\ Listed(r) \in SUBSET Keys /\ (x \in Listed(r) <=> Wanted(r)[x] # None)
      /\ PRows!Save(r, Listed(r), Wanted(r))
      BY <1>1, PKeys, PSame DEF SavePerms
<1>4. \A y \in Listed(r) : Wanted(r)[y] # None
      BY <1>3 DEF Listed, Wanted
<1>5. /\ perm' = perm
      /\ \/ pwriter'[x] = r /\ pdraft'[x] = Wanted(r)[x]
         \/ /\ pwriter'[x] = pwriter[x] /\ pdraft'[x] = pdraft[x]
            /\ x \notin Listed(r) \/ pseen[r][x] = Wanted(r)[x] \/ pseen[r][x] # None
      BY <1>3, <1>4, PRows!SaveEffect
<1>6. /\ PEmptied(r, x)
      /\ x \in Listed(r) /\ pseen[r][x] # None => pwriter[x] # r /\ Stands(r, plast[x])
      BY <1>1 DEF PStand, PStandsAt
<1>7. Wanted(r)' = Wanted(r)
      BY <1>1 DEF Wanted
<1>8. CASE pwriter'[x] = r /\ pdraft'[x] = Wanted(r)[x]
      BY <1>2, <1>7, <1>8 DEF PStandsAt
<1>9. CASE pwriter'[x] = pwriter[x] /\ pdraft'[x] = pdraft[x] /\ x \notin Listed(r)
      BY <1>1, <1>2, <1>3, <1>5, <1>6, <1>7, <1>9 DEF PStandsAt, PEmptied, Stands
<1>10. CASE pwriter'[x] = pwriter[x] /\ x \in Listed(r) /\ pseen[r][x] # None
      BY <1>1, <1>2, <1>5, <1>6, <1>7, <1>10 DEF PStandsAt, Stands
<1> QED BY <1>3, <1>5, <1>8, <1>9, <1>10

LEMMA PCommits ==
    ASSUME SInv, PStand, part = "zones", NEW r \in Requests, CommitPerms(r), NEW x \in Of(kon[r])
    PROVE  PStandsAt(r, x)'
<1>1. /\ pc[r] = "saved" /\ op[r] = "setConfigPermissions" /\ UNCHANGED <<kon, kdto, before>>
      /\ pc' = [pc EXCEPT ![r] = "done"]
      /\ plast' = [y \in Keys |-> IF y \in PTable!Wrote(r) THEN r ELSE plast[y]]
      /\ perm' = [y \in Keys |-> PTable!View(r, y)]
      BY DEF CommitPerms, Goto, PTable!Commit, Changed
<1>2. pc'[r] = "done"
      BY <1>1 DEF SInv, Past
<1>3. x \in Keys
      BY <1>1, PKeys
<1>4. IF pwriter[x] = r THEN pdraft[x] = Wanted(r)[x] ELSE perm[x] # Wanted(r)[x] => Stands(r, plast[x])
      BY <1>1 DEF PStand, PStandsAt
<1>5. Wanted(r)' = Wanted(r)
      BY <1>1 DEF Wanted
<1>6. IF pwriter[x] = r THEN perm'[x] = pdraft[x] ELSE perm'[x] = perm[x] /\ plast'[x] = plast[x]
      BY <1>1, <1>3 DEF PTable!View, PTable!Wrote
<1> QED BY <1>1, <1>2, <1>4, <1>5, <1>6 DEF PStandsAt, Stands

LEMMA POwn ==
    ASSUME SInv, PStand, part = "zones", NEW r \in Requests, StepOf(r),
           op'[r] = "setConfigPermissions", NEW x \in Of(kon'[r])
    PROVE  PStandsAt(r, x)'
<1>0. HandlersOK
      BY DEF SInv, GInv
<1>1. CASE FindPerms(r) \/ DeletePerms(r) \/ LookPerms(r) \/ SavePerms(r) \/ CommitPerms(r)
  <2>1. x \in Of(kon[r])
        BY <1>1 DEF FindPerms, DeletePerms, LookPerms, SavePerms, CommitPerms, PermStatement
  <2> QED BY <1>1, <2>1, PFinds, PDeletes, PLooks, PSavesPerms, PCommits
<1>2. ASSUME pc'[r] = "read" \/ pc'[r] = "failed" \/ op'[r] # "setConfigPermissions"
      PROVE  PStandsAt(r, x)'
      BY <1>2 DEF PStandsAt
<1>3. CASE \/ \E entity \in Config, list \in List : BeginConfig(r, entity, list)
           \/ \E k \in Configs, body \in Patch : ReadConfig(r, k, body)
           \/ \E k \in Configs, list \in List : ReadForPerms(r, k, list)
           \/ \E k \in Configs : ReadForDelete(r, k)
  <2>1. pc'[r] = "read"
        BY <1>0, <1>3 DEF HandlersOK, BeginConfig, ReadConfig, ReadForPerms, ReadForDelete, BeginWith, Begin
  <2> QED BY <1>2, <2>1
<1>4. CASE InsertConfig(r) \/ LookConfig(r) \/ SaveConfig(r) \/ DropConfig(r)
  <2>1. op'[r] # "setConfigPermissions"
        BY <1>4 DEF InsertConfig, LookConfig, SaveConfig, DropConfig, Goto
  <2> QED BY <1>2, <2>1
<1>5. CASE FailConfig(r)
  <2>1. pc'[r] = "failed"
        BY <1>0, <1>5 DEF HandlersOK, FailConfig, Goto
  <2> QED BY <1>2, <2>1
<1>6. CASE CrawlStep(r, zones) \/ DeleteZone(r)
  <2>1. op'[r] # "setConfigPermissions"
        BY <1>0, <1>6 DEF HandlersOK, CrawlStep, BeginCrawl, InsertCrawl, FailReport, DeleteZone,
           DropZone, Begin, Goto
  <2> QED BY <1>2, <2>1
<1> QED BY <1>1, <1>3, <1>4, <1>5, <1>6 DEF StepOf, ConfigStep

\* setConfigPermissions: once answered well, the configuration lists what the body
\* listed, but for permissions that a request not over when it began has changed.
THEOREM PermissionsAlwaysStand == Spec => []PermissionsStand
<1>1. Init => PStand
  <2>1. HandlersInit => \A r \in Requests : op[r] # "setConfigPermissions"
        BY DEF HandlersInit
  <2> QED BY <2>1 DEF Init, PStand
<1>2. SInv /\ PStand /\ [Next]_vars => PStand'
  <2> SUFFICES ASSUME SInv, PStand, [Next]_vars PROVE PStand'
      OBVIOUS
  <2>1. CASE UNCHANGED vars
        BY <2>1 DEF vars, hvars, kvars, perms, PStand, PStandsAt, PEmptied, Stands, Listed, Wanted, Of
  <2>2. ASSUME NEW q \in Requests, StepOf(q) PROVE PStand'
    <3> SUFFICES ASSUME NEW r \in Requests, part' = "zones", op'[r] = "setConfigPermissions",
                        NEW x \in Of(kon'[r])
                 PROVE  PStandsAt(r, x)'
        BY DEF PStand, Of
    <3>1. part = "zones"
          BY <2>2 DEF StepOf
    <3> QED BY <2>2, <3>1, PForeign, POwn
  <2> QED BY <2>1, <2>2 DEF Next, StepOf
<1>3. SInv /\ PStand => PermissionsStand
  <2> SUFFICES ASSUME SInv, PStand, NEW r \in Requests, op[r] = "setConfigPermissions", pc[r] = "done",
                      NEW x \in Of(kon[r]), perm[x] # Wanted(r)[x]
               PROVE  Stands(r, plast[x])
      BY DEF PermissionsStand
  <2>1. part = "zones"
        BY DEF SInv, OpsOK, GInv, Parts, Methods
  <2> QED BY <2>1 DEF PStand, PStandsAt
<1> QED BY <1>1, <1>2, <1>3, SInit, SStep, PTL DEF Spec

\* setInactiveChannelsInServer, as far as request r has come with channel t.
TimeStands(r, t) == Stands(r, tlast[t])
FlagStands(r, t) == Stands(r, flast[t])
RowStands(r, t)  == TimeStands(r, t) /\ FlagStands(r, t)

IEmptied(r, t) == IF iwriter[t] = r THEN idraft[t] = None /\ t \notin Reported(r)
                  ELSE t \notin Reported(r) /\ idle[t] # None => RowStands(r, t)
Agrees(r, t, row) == /\ Time(row) # Time(idto[r][t]) => TimeStands(r, t)
                     /\ Flag(row) # Flag(idto[r][t]) => FlagStands(r, t)
IStandsAt(r, t) ==
    /\ pc[r] = "deleting" =>
          /\ iwriter[t] # r
          /\ t \notin Reported(r) /\ idle[t] # None => t \in iscan[r] \/ RowStands(r, t)
    /\ pc[r] \in {"deleted", "saving"} => IEmptied(r, t)
    /\ pc[r] = "saving" /\ t \in Reported(r) /\ iseen[r][t] # None =>
          /\ t \in iscan[r] \/ RowStands(r, t)
          /\ Time(idle[t]) # Time(iseen[r][t]) => TimeStands(r, t)
          /\ Flag(idle[t]) # Flag(iseen[r][t]) => FlagStands(r, t)
    /\ pc[r] = "saved" =>
          IF iwriter[t] = r
          THEN /\ Time(idraft[t]) # Time(idto[r][t]) => Time(idraft[t]) = Time(idle[t])
               /\ Flag(idraft[t]) # Flag(idto[r][t]) => Flag(idraft[t]) = Flag(idle[t])
               /\ Agrees(r, t, idraft[t])
          ELSE Agrees(r, t, idle[t])
    /\ pc[r] = "done" => Agrees(r, t, idle[t])
IStand ==
    \A r \in Requests, t \in Channels :
        /\ part = "reports" /\ op[r] = "setInactiveChannels" => IStandsAt(r, t)
        /\ part = "reports" /\ op[r] = "setChannelNotified" /\ pc[r] = "done" /\ t \in Reported(r) =>
              (Flag(idle[t]) # Flag(idto[r][t]) => FlagStands(r, t))
        /\ pc[r] = "idle" \/ op[r] \notin {"setInactiveChannels", "setChannelNotified"} => t \notin Reported(r)

\* A row has both columns, and no row has neither.
LEMMA HasColumns ==
    \A row \in {None} \cup Inactive :
        (Time(row) = None <=> row = None) /\ (Flag(row) = None <=> row = None)
<1>1. Time(None) = None /\ Flag(None) = None
      BY DEF Time, Flag
<1>2. ASSUME NEW row \in Inactive PROVE Time(row) # None /\ Flag(row) # None
  <2>1. row # None /\ row.time \in Times /\ row.isNotified \in BOOLEAN
        BY InactiveAssumption DEF Inactive
  <2>2. Time(row) = row.time /\ Flag(row) = row.isNotified
        BY <2>1 DEF Time, Flag
  <2>3. Time(row) \in Times /\ Flag(row) \in BOOLEAN
        BY <2>1, <2>2
  <2> QED BY <2>3
<1> QED BY <1>1, <1>2, InactiveAssumption

LEMMA Cells ==
    ASSUME IOK, NEW r \in Requests, NEW t \in Channels
    PROVE  /\ idle[t] \in {None} \cup Inactive /\ idraft[t] \in {None} \cup Inactive
           /\ iseen[r][t] \in {None} \cup Inactive /\ idto[r][t] \in {None} \cup Inactive
           /\ IRows!View(r, t) \in {None} \cup Inactive
           /\ t \in Reported(r) <=> idto[r][t] # None
BY DEF IOK, CrawlsTypeOK, ITable!TableTypeOK, IRows!View, Reported

\* A step of another request: what it changes it is blamed for.
LEMMA IForeign ==
    ASSUME SInv, IStand, NEW r \in Requests, NEW q \in Requests \ {r}, StepOf(q), NEW t \in Channels
    PROVE  /\ pc'[r] = pc[r] /\ op'[r] = op[r] /\ part' = part
           /\ idto'[r] = idto[r] /\ iseen'[r] = iseen[r]
           /\ t \in Reported(r)' <=> t \in Reported(r)
           /\ TimeStands(r, t) \/ Time(idle'[t]) # Time(idle[t]) => TimeStands(r, t)'
           /\ FlagStands(r, t) \/ Flag(idle'[t]) # Flag(idle[t]) => FlagStands(r, t)'
           /\ ~(idle'[t] = None <=> idle[t] = None) => RowStands(r, t)'
           /\ iwriter'[t] = r <=> iwriter[t] = r
           /\ iwriter[t] = r => idraft'[t] = idraft[t] /\ idle'[t] = idle[t]
           /\ t \in iscan[r] => t \in iscan'[r] \/ iwriter[t] = r \/ (idle[t] # None /\ idle'[t] = None)
<1>1. /\ pc'[r] = pc[r] /\ op'[r] = op[r] /\ before'[r] = before[r] /\ part' = part
      /\ q \notin before[r] \cup {r, None} /\ IChange(q)
      BY Foreign
<1>2. idto'[r] = idto[r] /\ IRows!Loses(q) /\ Blames(q) /\ \E T \in SUBSET Channels : IRows!Apart(q, T)
      BY <1>1 DEF IChange
<1>3. PICK T \in SUBSET Channels : IRows!Apart(q, T)
      BY <1>2
<1>4. /\ iseen'[r] = iseen[r] /\ (iwriter'[t] = r <=> iwriter[t] = r)
      /\ iwriter[t] = r => idraft'[t] = idraft[t] /\ t \notin T
      /\ t \notin T => idle'[t] = idle[t]
      BY <1>3 DEF IRows!Apart
<1>5. /\ TimeStands(r, t) \/ Time(idle'[t]) # Time(idle[t]) => TimeStands(r, t)'
      /\ FlagStands(r, t) \/ Flag(idle'[t]) # Flag(idle[t]) => FlagStands(r, t)'
      BY <1>1, <1>2 DEF Blames, TimeStands, FlagStands, Stands
<1>6. ~(idle'[t] = None <=> idle[t] = None) => RowStands(r, t)'
  <2>1. SInv'
        BY SStepOf
  <2>2. idle[t] \in {None} \cup Inactive /\ idle'[t] \in {None} \cup Inactive
    <3>1. IOK /\ IOK'
          BY <2>1 DEF SInv
    <3> QED BY <3>1 DEF IOK, CrawlsTypeOK, ITable!TableTypeOK
  <2>3. ~(idle'[t] = None <=> idle[t] = None) =>
            Time(idle'[t]) # Time(idle[t]) /\ Flag(idle'[t]) # Flag(idle[t])
    <3>1. (Time(idle[t]) = None <=> idle[t] = None) /\ (Flag(idle[t]) = None <=> idle[t] = None)
          BY <2>2, HasColumns
    <3>2. (Time(idle'[t]) = None <=> idle'[t] = None) /\ (Flag(idle'[t]) = None <=> idle'[t] = None)
          BY <2>2, HasColumns
    <3> QED BY <3>1, <3>2
  <2> QED BY <1>5, <2>3 DEF RowStands
<1>7. t \in iscan[r] => t \in iscan'[r] \/ iwriter[t] = r \/ (idle[t] # None /\ idle'[t] = None)
  <2>1. t \in iscan[r] => IRows!View(r, t) # None
        BY DEF SInv, IOK, IRows!Consistent
  <2>2. t \in iscan[r] \ iscan'[r] => idle'[t] = None
        BY <1>2 DEF IRows!Loses
  <2> QED BY <2>1, <2>2 DEF IRows!View
<1>8. t \in Reported(r)' <=> t \in Reported(r)
      BY <1>2 DEF Reported
<1> QED BY <1>1, <1>2, <1>4, <1>5, <1>6, <1>7, <1>8

LEMMA IForeignStands ==
    ASSUME SInv, IStand, part = "reports", NEW r \in Requests, NEW q \in Requests \ {r}, StepOf(q),
           NEW t \in Channels, op[r] = "setInactiveChannels"
    PROVE  IStandsAt(r, t)'
<1>1. IStandsAt(r, t)
      BY DEF IStand
<1>2. /\ pc'[r] = pc[r] /\ idto'[r] = idto[r] /\ iseen'[r] = iseen[r]
      /\ t \in Reported(r)' <=> t \in Reported(r)
      /\ TimeStands(r, t) \/ Time(idle'[t]) # Time(idle[t]) => TimeStands(r, t)'
      /\ FlagStands(r, t) \/ Flag(idle'[t]) # Flag(idle[t]) => FlagStands(r, t)'
      /\ ~(idle'[t] = None <=> idle[t] = None) => RowStands(r, t)'
      /\ iwriter'[t] = r <=> iwriter[t] = r
      /\ iwriter[t] = r => idraft'[t] = idraft[t] /\ idle'[t] = idle[t]
      /\ t \in iscan[r] => t \in iscan'[r] \/ iwriter[t] = r \/ (idle[t] # None /\ idle'[t] = None)
      BY IForeign
<1>3. RowStands(r, t) => RowStands(r, t)'
      BY <1>2 DEF RowStands
<1>4. pc'[r] = "deleting" =>
          /\ iwriter'[t] # r
          /\ t \notin Reported(r)' /\ idle'[t] # None => t \in iscan'[r] \/ RowStands(r, t)'
      BY <1>1, <1>2, <1>3 DEF IStandsAt
<1>5. pc'[r] \in {"deleted", "saving"} => IEmptied(r, t)'
      BY <1>1, <1>2, <1>3 DEF IStandsAt, IEmptied
<1>6. pc'[r] = "saving" /\ t \in Reported(r)' /\ iseen'[r][t] # None =>
          /\ t \in iscan'[r] \/ RowStands(r, t)'
          /\ Time(idle'[t]) # Time(iseen'[r][t]) => TimeStands(r, t)'
          /\ Flag(idle'[t]) # Flag(iseen'[r][t]) => FlagStands(r, t)'
      BY <1>1, <1>2, <1>3 DEF IStandsAt, IEmptied
<1>7. pc'[r] = "saved" =>
          IF iwriter'[t] = r
          THEN /\ Time(idraft'[t]) # Time(idto'[r][t]) => Time(idraft'[t]) = Time(idle'[t])
               /\ Flag(idraft'[t]) # Flag(idto'[r][t]) => Flag(idraft'[t]) = Flag(idle'[t])
               /\ Agrees(r, t, idraft[t])'
          ELSE Agrees(r, t, idle[t])'
      BY <1>1, <1>2 DEF IStandsAt, Agrees
<1>8. pc'[r] = "done" => Agrees(r, t, idle[t])'
      BY <1>1, <1>2 DEF IStandsAt, Agrees
<1> QED BY <1>4, <1>5, <1>6, <1>7, <1>8 DEF IStandsAt

\* What an update makes of the row it has looked up and the one of the report.
LEMMA UpdatedColumns ==
    ASSUME IOK, NEW r \in Requests, NEW t \in Channels, t \in Reported(r)
    PROVE  /\ Updated(r, t) # None
           /\ \/ /\ iseen[r][t] = None \/ IRows!View(r, t) = None \/ iseen[r][t] = idto[r][t]
                 /\ Updated(r, t) = idto[r][t]
              \/ /\ Time(Updated(r, t)) = IF Time(idto[r][t]) = Time(iseen[r][t])
                                          THEN Time(IRows!View(r, t)) ELSE Time(idto[r][t])
                 /\ Flag(Updated(r, t)) = IF Flag(idto[r][t]) = Flag(iseen[r][t])
                                          THEN Flag(IRows!View(r, t)) ELSE Flag(idto[r][t])
<1>1. /\ idto[r][t] \in Inactive /\ iseen[r][t] \in {None} \cup Inactive
      /\ IRows!View(r, t) \in {None} \cup Inactive /\ ITable!View(r, t) = IRows!View(r, t)
      BY Cells, ISame
<1>2. CASE None \in {iseen[r][t], ITable!View(r, t), idto[r][t]} \/ idto[r][t] = iseen[r][t]
      BY <1>1, <1>2, InactiveAssumption DEF Updated
<1>3. CASE ~(None \in {iseen[r][t], ITable!View(r, t), idto[r][t]} \/ idto[r][t] = iseen[r][t])
  <2>1. \A next, base, row \in Inactive :
            LET u == [c \in {"time", "isNotified"} |-> IF next[c] = base[c] THEN row[c] ELSE next[c]]
            IN  /\ u \in Inactive
                /\ u.time = IF next.time = base.time THEN row.time ELSE next.time
                /\ u.isNotified = IF next.isNotified = base.isNotified THEN row.isNotified
                                  ELSE next.isNotified
        BY DEF Inactive
  <2>2. \A row \in Inactive : row # None /\ Time(row) = row.time /\ Flag(row) = row.isNotified
        BY InactiveAssumption DEF Time, Flag
  <2>3. iseen[r][t] \in Inactive /\ IRows!View(r, t) \in Inactive
        BY <1>1, <1>3
  <2> DEFINE u == [c \in {"time", "isNotified"} |->
                      IF idto[r][t][c] = iseen[r][t][c] THEN IRows!View(r, t)[c] ELSE idto[r][t][c]]
  <2>4. Updated(r, t) = u
        BY <1>1, <1>3 DEF Updated
  <2>5. /\ u \in Inactive
        /\ u.time = IF idto[r][t].time = iseen[r][t].time
                    THEN IRows!View(r, t).time ELSE idto[r][t].time
        /\ u.isNotified = IF idto[r][t].isNotified = iseen[r][t].isNotified
                          THEN IRows!View(r, t).isNotified ELSE idto[r][t].isNotified
        BY <1>1, <2>1, <2>3
  <2> HIDE DEF u
  <2> QED BY <1>1, <2>2, <2>3, <2>4, <2>5
<1> QED BY <1>2, <1>3

\* Its own steps, as updateCategory's.
LEMMA IFinds ==
    ASSUME SInv, IStand, part = "reports", NEW r \in Requests, FindUnlisted(r), NEW t \in Channels
    PROVE  IStandsAt(r, t)'
<1>1. /\ pc[r] = "read" /\ pc' = [pc EXCEPT ![r] = "deleting"]
      /\ UNCHANGED <<before, idto, tlast, flast>>
      BY DEF FindUnlisted, ReportStatement, Goto, lasts
<1>2. pc'[r] = "deleting"
      BY <1>1 DEF SInv, Past
<1> DEFINE K == {u \in Channels \ Reported(r) : ITable!View(r, u) # None}
<1>3. iwriter[t] # r
      BY <1>1 DEF SInv, IOK, ILocal, PermWriting
<1>4. t \notin Reported(r) /\ idle[t] # None => t \in K
      BY <1>3 DEF ITable!View
<1>5. IRows!Find(r, K) /\ K \in SUBSET Channels /\ IRows!TableTypeOK(Inactive)
      BY ISame DEF FindUnlisted, SInv, IOK, CrawlsTypeOK
<1> HIDE DEF K
<1>6. iscan'[r] = K /\ idle' = idle /\ iwriter' = iwriter
      BY <1>5, IRows!FindEffect
<1>7. t \in Reported(r)' <=> t \in Reported(r)
      BY <1>1 DEF Reported
<1> QED BY <1>2, <1>3, <1>4, <1>6, <1>7 DEF IStandsAt

LEMMA IDeletes ==
    ASSUME SInv, IStand, part = "reports", NEW r \in Requests, DeleteUnlisted(r), NEW t \in Channels
    PROVE  IStandsAt(r, t)'
<1>1. /\ pc[r] = "deleting" /\ op[r] = "setInactiveChannels" /\ UNCHANGED <<before, idto, tlast, flast>>
      /\ pc' = [pc EXCEPT ![r] = IF Reported(r) = {} THEN "saved" ELSE "deleted"]
      BY DEF DeleteUnlisted, ReportStatement, Goto, lasts
<1>2. pc'[r] = IF Reported(r) = {} THEN "saved" ELSE "deleted"
      BY <1>1 DEF SInv, Past
<1>3. IRows!Delete(r, Channels \ Reported(r))
      BY ISame DEF DeleteUnlisted
<1>4. /\ idle' = idle
      /\ IF t \in iscan[r] /\ t \notin Reported(r) THEN iwriter'[t] = r /\ idraft'[t] = None
         ELSE iwriter'[t] = iwriter[t] /\ idraft'[t] = idraft[t]
      BY <1>3, IRows!DeleteEffect
<1>5. iwriter[t] # r /\ (t \notin Reported(r) /\ idle[t] # None => t \in iscan[r] \/ RowStands(r, t))
      BY <1>1 DEF IStand, IStandsAt
<1>6. /\ t \in Reported(r)' <=> t \in Reported(r)
      /\ RowStands(r, t)' <=> RowStands(r, t)
      /\ TimeStands(r, t)' <=> TimeStands(r, t)
      /\ FlagStands(r, t)' <=> FlagStands(r, t)
      BY <1>1 DEF Reported, RowStands, TimeStands, FlagStands, Stands
<1>7. IEmptied(r, t)'
      BY <1>4, <1>5, <1>6 DEF IEmptied
<1>8. CASE Reported(r) # {}
      BY <1>2, <1>7, <1>8 DEF IStandsAt
<1>9. CASE Reported(r) = {}
  <2>1. t \notin Reported(r) /\ idto'[r][t] = None
        BY <1>1, <1>9 DEF Reported
  <2>2. IF iwriter'[t] = r THEN idraft'[t] = None ELSE idle'[t] # None => RowStands(r, t)'
        BY <1>6, <1>7, <2>1 DEF IEmptied
  <2>3. iwriter'[t] = r => /\ Time(idraft'[t]) = Time(idto'[r][t])
                           /\ Flag(idraft'[t]) = Flag(idto'[r][t])
        BY <2>1, <2>2
  <2>4. iwriter'[t] # r => Agrees(r, t, idle[t])'
        BY <2>1, <2>2 DEF Agrees, RowStands
  <2> QED BY <1>2, <1>9, <2>3, <2>4 DEF IStandsAt, Agrees
<1> QED BY <1>8, <1>9

LEMMA ILooks ==
    ASSUME SInv, IStand, part = "reports", NEW r \in Requests, LookInactive(r), NEW t \in Channels
    PROVE  IStandsAt(r, t)'
<1>1. /\ pc[r] = "deleted" /\ op[r] = "setInactiveChannels" /\ UNCHANGED <<before, idto, tlast, flast>>
      /\ pc' = [pc EXCEPT ![r] = "saving"]
      BY DEF LookInactive, ReportStatement, Goto, lasts
<1>2. pc'[r] = "saving"
      BY <1>1 DEF SInv, Past
<1>3. IRows!Look(r, Reported(r)) /\ IRows!TableTypeOK(Inactive)
      BY ISame DEF LookInactive, SInv, IOK, CrawlsTypeOK
<1>4. /\ UNCHANGED <<idle, iwriter, idraft>>
      /\ t \in Reported(r) => /\ iseen'[r][t] = IRows!View(r, t)
                              /\ IRows!View(r, t) # None => t \in iscan'[r]
      BY <1>3 DEF IRows!Look, IRows!TableTypeOK
<1>5. IEmptied(r, t)
      BY <1>1 DEF IStand, IStandsAt
<1>6. t \in Reported(r) => IRows!View(r, t) = idle[t]
      BY <1>5 DEF IEmptied, IRows!View
<1>7. /\ t \in Reported(r)' <=> t \in Reported(r)
      /\ RowStands(r, t)' <=> RowStands(r, t)
      BY <1>1 DEF Reported, RowStands, TimeStands, FlagStands, Stands
<1>8. IEmptied(r, t)'
      BY <1>4, <1>5, <1>7 DEF IEmptied
<1>9. t \in Reported(r)' /\ iseen'[r][t] # None =>
          /\ t \in iscan'[r]
          /\ Time(idle'[t]) = Time(iseen'[r][t]) /\ Flag(idle'[t]) = Flag(iseen'[r][t])
      BY <1>4, <1>6, <1>7
<1> QED BY <1>2, <1>8, <1>9 DEF IStandsAt

LEMMA ISaves ==
    ASSUME SInv, IStand, part = "reports", NEW r \in Requests, SaveInactive(r), NEW t \in Channels
    PROVE  IStandsAt(r, t)'
<1>1. /\ pc[r] = "saving" /\ op[r] = "setInactiveChannels" /\ UNCHANGED <<before, idto, tlast, flast>>
      /\ pc' = [pc EXCEPT ![r] = "saved"]
      BY DEF SaveInactive, ReportStatement, Goto, lasts
<1>2. pc'[r] = "saved" /\ IOK
      BY <1>1 DEF SInv, Past
<1>3. /\ idle' = idle
      /\ \/ /\ t \in Reported(r) /\ iseen[r][t] # Updated(r, t)
            /\ iwriter'[t] = r /\ idraft'[t] = Updated(r, t)
            /\ IRows!View(r, t) = None <=> iseen[r][t] = None
         \/ /\ iwriter'[t] = iwriter[t] /\ idraft'[t] = idraft[t]
            /\ \/ t \notin Reported(r) \/ iseen[r][t] = Updated(r, t)
               \/ iseen[r][t] # None /\ (IRows!View(r, t) = None \/ t \notin iscan[r])
      BY <1>2, SaveEffectI
<1>4. /\ IEmptied(r, t)
      /\ t \in Reported(r) /\ iseen[r][t] # None =>
            /\ t \in iscan[r] \/ RowStands(r, t)
            /\ Time(idle[t]) # Time(iseen[r][t]) => TimeStands(r, t)
            /\ Flag(idle[t]) # Flag(iseen[r][t]) => FlagStands(r, t)
      BY <1>1 DEF IStand, IStandsAt
<1>5. /\ TimeStands(r, t)' <=> TimeStands(r, t)
      /\ FlagStands(r, t)' <=> FlagStands(r, t)
      BY <1>1 DEF TimeStands, FlagStands, Stands
<1>6. /\ idle[t] \in {None} \cup Inactive /\ iseen[r][t] \in {None} \cup Inactive
      /\ t \in Reported(r) <=> idto[r][t] # None
      BY <1>2, Cells
<1>7. t \in Reported(r) => iwriter[t] # r /\ IRows!View(r, t) = idle[t]
      BY <1>4 DEF IEmptied, IRows!View
<1>8. CASE t \notin Reported(r)
  <2>1. /\ iwriter'[t] = iwriter[t] /\ idraft'[t] = idraft[t] /\ idto'[r][t] = None
        /\ IF iwriter[t] = r THEN idraft[t] = None ELSE idle[t] # None => RowStands(r, t)
        BY <1>1, <1>3, <1>4, <1>6, <1>8 DEF IEmptied
  <2>2. iwriter'[t] # r => Agrees(r, t, idle[t])'
        BY <1>3, <1>5, <2>1 DEF Agrees, RowStands
  <2> QED BY <1>2, <2>1, <2>2 DEF IStandsAt, Agrees
<1>9. CASE t \in Reported(r) /\ iwriter'[t] = r /\ idraft'[t] = Updated(r, t)
  <2>1. iseen[r][t] # Updated(r, t) /\ (idle[t] = None <=> iseen[r][t] = None)
        BY <1>3, <1>7, <1>9
  <2>2. \/ Updated(r, t) = idto[r][t]
        \/ /\ Time(Updated(r, t)) = IF Time(idto[r][t]) = Time(iseen[r][t])
                                    THEN Time(idle[t]) ELSE Time(idto[r][t])
           /\ Flag(Updated(r, t)) = IF Flag(idto[r][t]) = Flag(iseen[r][t])
                                    THEN Flag(idle[t]) ELSE Flag(idto[r][t])
           /\ iseen[r][t] # None
    <3>1. iseen[r][t] = None => Updated(r, t) = idto[r][t]
          BY <1>7, <1>9, <2>1 DEF Updated
    <3> QED BY <1>2, <1>7, <1>9, <3>1, UpdatedColumns
  <2>3. Time(idraft'[t]) # Time(idto'[r][t]) => Time(idraft'[t]) = Time(idle'[t]) /\ TimeStands(r, t)'
        BY <1>1, <1>3, <1>4, <1>5, <1>9, <2>2
  <2>4. Flag(idraft'[t]) # Flag(idto'[r][t]) => Flag(idraft'[t]) = Flag(idle'[t]) /\ FlagStands(r, t)'
        BY <1>1, <1>3, <1>4, <1>5, <1>9, <2>2
  <2> QED BY <1>2, <1>9, <2>3, <2>4 DEF IStandsAt, Agrees
<1>10. CASE t \in Reported(r) /\ iwriter'[t] = iwriter[t]
  <2>1. iwriter'[t] # r
        BY <1>7, <1>10
  <2>2. CASE iseen[r][t] = Updated(r, t)
    <3>1. /\ iseen[r][t] # None
          /\ \/ iseen[r][t] = idto[r][t]
             \/ /\ Time(iseen[r][t]) = IF Time(idto[r][t]) = Time(iseen[r][t])
                                       THEN Time(idle[t]) ELSE Time(idto[r][t])
                /\ Flag(iseen[r][t]) = IF Flag(idto[r][t]) = Flag(iseen[r][t])
                                       THEN Flag(idle[t]) ELSE Flag(idto[r][t])
          BY <1>2, <1>7, <1>10, <2>2, UpdatedColumns
    <3>2. /\ Time(idle[t]) # Time(idto[r][t]) => TimeStands(r, t)
          /\ Flag(idle[t]) # Flag(idto[r][t]) => FlagStands(r, t)
          BY <1>4, <1>10, <3>1
    <3>3. Agrees(r, t, idle[t])'
          BY <1>1, <1>3, <1>5, <3>2 DEF Agrees
    <3> QED BY <1>2, <2>1, <3>3 DEF IStandsAt
  <2>3. CASE iseen[r][t] # None /\ (IRows!View(r, t) = None \/ t \notin iscan[r])
    <3>1. ASSUME idle[t] = None PROVE RowStands(r, t)
      <4>1. Time(idle[t]) # Time(iseen[r][t]) /\ Flag(idle[t]) # Flag(iseen[r][t])
            BY <1>6, <2>3, <3>1, HasColumns
      <4> QED BY <1>4, <1>10, <2>3, <4>1 DEF RowStands
    <3>2. RowStands(r, t)
          BY <1>4, <1>7, <1>10, <2>3, <3>1
    <3>3. Agrees(r, t, idle[t])'
          BY <1>5, <3>2 DEF Agrees, RowStands
    <3> QED BY <1>2, <2>1, <3>3 DEF IStandsAt
  <2> QED BY <1>3, <1>9, <1>10, <2>2, <2>3
<1> QED BY <1>3, <1>8, <1>9, <1>10

LEMMA ICommits ==
    ASSUME SInv, IStand, part = "reports", NEW r \in Requests, CommitReport(r), NEW t \in Channels
    PROVE  IStandsAt(r, t)'
<1>1. /\ pc[r] = "saved" /\ op[r] = "setInactiveChannels" /\ UNCHANGED <<before, idto>>
      /\ pc' = [pc EXCEPT ![r] = "done"]
      /\ idle' = [u \in Channels |-> ITable!View(r, u)]
      /\ tlast' = [u \in Channels |-> IF Time(idle[u]) # Time(idle'[u]) THEN r ELSE tlast[u]]
      /\ flast' = [u \in Channels |-> IF Flag(idle[u]) # Flag(idle'[u]) THEN r ELSE flast[u]]
      BY DEF CommitReport, Goto, ITable!Commit
<1>2. pc'[r] = "done"
      BY <1>1 DEF SInv, Past
<1>3. /\ idle'[t] = IF iwriter[t] = r THEN idraft[t] ELSE idle[t]
      /\ Time(idle'[t]) = Time(idle[t]) => tlast'[t] = tlast[t]
      /\ Flag(idle'[t]) = Flag(idle[t]) => flast'[t] = flast[t]
      BY <1>1 DEF ITable!View
<1>4. IF iwriter[t] = r
      THEN /\ Time(idraft[t]) # Time(idto[r][t]) => Time(idraft[t]) = Time(idle[t])
           /\ Flag(idraft[t]) # Flag(idto[r][t]) => Flag(idraft[t]) = Flag(idle[t])
           /\ Agrees(r, t, idraft[t])
      ELSE Agrees(r, t, idle[t])
      BY <1>1 DEF IStand, IStandsAt
<1>5. Time(idle'[t]) # Time(idto[r][t]) => Time(idle'[t]) = Time(idle[t]) /\ TimeStands(r, t)
      BY <1>3, <1>4 DEF Agrees
<1>6. Flag(idle'[t]) # Flag(idto[r][t]) => Flag(idle'[t]) = Flag(idle[t]) /\ FlagStands(r, t)
      BY <1>3, <1>4 DEF Agrees
<1>7. Agrees(r, t, idle[t])'
      BY <1>1, <1>3, <1>5, <1>6 DEF Agrees, TimeStands, FlagStands, Stands
<1> QED BY <1>2, <1>7 DEF IStandsAt

\* A flag is set on a row that is there, and set on no other.
LEMMA IMarks ==
    ASSUME SInv, IStand, NEW r \in Requests, NEW u \in Channels, NEW b \in BOOLEAN, Notify(r, u, b),
           NEW t \in Channels
    PROVE  /\ op'[r] = "setChannelNotified"
           /\ t \in Reported(r)' => Flag(idle'[t]) = Flag(idto'[r][t])
<1>1. /\ pc[r] = "idle" /\ op' = [op EXCEPT ![r] = "setChannelNotified"] /\ HandlersOK
      BY DEF Notify, Begin, SInv, GInv
<1>2. op'[r] = "setChannelNotified" /\ t \notin Reported(r)
      BY <1>1 DEF HandlersOK, IStand
<1>3. CASE idle[u] = None
      BY <1>2, <1>3 DEF Notify, reports, Reported
<1>4. CASE idle[u] # None
  <2> DEFINE row == [idle[u] EXCEPT !.isNotified = b]
             new == [idle EXCEPT ![u] = row]
  <2>1. ITable!Put(r, {u}, new) /\ idto' = [idto EXCEPT ![r][u] = row]
        BY <1>4 DEF Notify
  <2>2. /\ idle \in [Channels -> {None} \cup Inactive]
        /\ idto \in [Requests -> [Channels -> Inactive \cup {None}]]
        BY DEF SInv, IOK, CrawlsTypeOK, ITable!TableTypeOK
  <2>3. new[u] = row
        BY <2>2
  <2> HIDE DEF row, new
  <2>4. CASE t = u
    <3>1. idle'[u] = row
          BY <2>1, <2>3 DEF ITable!Put
    <3>2. idto'[r][u] = row
          BY <2>1, <2>2
    <3> QED BY <1>2, <2>4, <3>1, <3>2
  <2>5. CASE t # u
    <3>1. idto'[r][t] = idto[r][t]
          BY <2>1, <2>2, <2>5
    <3> QED BY <1>2, <3>1 DEF Reported
  <2> QED BY <1>2, <2>4, <2>5
<1> QED BY <1>3, <1>4

LEMMA IOwn ==
    ASSUME SInv, IStand, part = "reports", NEW r \in Requests, ReportStep(r), NEW t \in Channels
    PROVE  /\ op'[r] = "setInactiveChannels" => IStandsAt(r, t)'
           /\ op'[r] = "setChannelNotified" /\ t \in Reported(r)' => Flag(idle'[t]) = Flag(idto'[r][t])
           /\ op'[r] \in {"setInactiveChannels", "setChannelNotified"}
<1>0. HandlersOK
      BY DEF SInv, GInv
<1>1. CASE FindUnlisted(r) \/ DeleteUnlisted(r) \/ LookInactive(r) \/ SaveInactive(r) \/ CommitReport(r)
  <2>1. op'[r] = "setInactiveChannels"
        BY <1>1 DEF FindUnlisted, DeleteUnlisted, LookInactive, SaveInactive, CommitReport,
           ReportStatement, Goto
  <2> QED BY <1>1, <2>1, IFinds, IDeletes, ILooks, ISaves, ICommits
<1>2. CASE \E u \in Channels, b \in BOOLEAN : Notify(r, u, b)
      BY <1>2, IMarks
<1>3. CASE \E list \in Lists : BeginReport(r, list)
  <2>1. pc'[r] = "read" /\ op'[r] = "setInactiveChannels"
        BY <1>0, <1>3 DEF HandlersOK, BeginReport, Begin
  <2> QED BY <2>1 DEF IStandsAt
<1>4. CASE FailReport(r)
  <2>1. pc'[r] = "failed" /\ op' = op /\ op[r] \in {"storeCrawl", "setInactiveChannels"}
        BY <1>0, <1>4 DEF HandlersOK, FailReport, Goto
  <2>2. op[r] # "storeCrawl"
        BY DEF SInv, OpsOK, Methods
  <2> QED BY <2>1, <2>2 DEF IStandsAt
<1> QED BY <1>1, <1>2, <1>3, <1>4 DEF ReportStep

\* Requests of the other parts report nothing.
LEMMA IOthers ==
    ASSUME SInv, IStand, part # "reports", NEW r \in Requests, StepOf(r), NEW t \in Channels
    PROVE  t \notin Reported(r)'
<1>1. idto' = idto
      BY DEF StepOf, cvars, reports, CrawlStep, BeginCrawl, InsertCrawl, FailReport, DeleteZone, ForgetZone
<1>2. op[r] \notin {"setInactiveChannels", "setChannelNotified"}
      BY DEF SInv, GInv, OpsOK, Parts, Methods
<1> QED BY <1>1, <1>2 DEF IStand, Reported

\* setChannelsForServer, 'Deletes channels not in the list': once a report is answered
\* the table is that report, and a flag stays as it was set, but for channels that a
\* request not over when it began has changed.
THEOREM ReportsAlwaysStand == Spec => []ReportStands
<1>1. Init => IStand
  <2> SUFFICES ASSUME Init, NEW r \in Requests, NEW t \in Channels
               PROVE  op[r] = "none" /\ t \notin Reported(r)
      BY DEF IStand
  <2> QED BY DEF Init, HandlersInit, CrawlsInit, ITable!NoRows, Reported
<1>2. SInv /\ IStand /\ [Next]_vars => IStand'
  <2> SUFFICES ASSUME SInv, IStand, [Next]_vars PROVE IStand'
      OBVIOUS
  <2>1. CASE UNCHANGED vars
        BY <2>1 DEF vars, hvars, cvars, reports, itable, lasts, IStand, IStandsAt, IEmptied, Agrees,
           RowStands, TimeStands, FlagStands, Stands, Reported
  <2>2. ASSUME NEW q \in Requests, StepOf(q) PROVE IStand'
    <3> SUFFICES ASSUME NEW r \in Requests, NEW t \in Channels
                 PROVE  /\ part' = "reports" /\ op'[r] = "setInactiveChannels" => IStandsAt(r, t)'
                        /\ part' = "reports" /\ op'[r] = "setChannelNotified" /\ pc'[r] = "done"
                           /\ t \in Reported(r)' =>
                              (Flag(idle'[t]) # Flag(idto'[r][t]) => FlagStands(r, t)')
                        /\ pc'[r] = "idle" \/ op'[r] \notin {"setInactiveChannels", "setChannelNotified"}
                              => t \notin Reported(r)'
        BY DEF IStand
    <3>1. CASE q # r
      <4>1. /\ pc'[r] = pc[r] /\ op'[r] = op[r] /\ part' = part /\ idto'[r] = idto[r]
            /\ t \in Reported(r)' <=> t \in Reported(r)
            /\ FlagStands(r, t) \/ Flag(idle'[t]) # Flag(idle[t]) => FlagStands(r, t)'
            BY <2>2, <3>1, IForeign
      <4>2. part = "reports" /\ op[r] = "setInactiveChannels" => IStandsAt(r, t)'
            BY <2>2, <3>1, IForeignStands
      <4>3. /\ part = "reports" /\ op[r] = "setChannelNotified" /\ pc[r] = "done" /\ t \in Reported(r) =>
                  (Flag(idle[t]) # Flag(idto[r][t]) => FlagStands(r, t))
            /\ pc[r] = "idle" \/ op[r] \notin {"setInactiveChannels", "setChannelNotified"} =>
                  t \notin Reported(r)
            BY DEF IStand
      <4> QED BY <4>1, <4>2, <4>3
    <3>2. CASE q = r /\ part = "reports"
      <4>1. ReportStep(r) /\ part' = part /\ Advances(r)
            BY <2>2, <3>2, SStepOf DEF StepOf
      <4>2. pc'[r] # "idle"
            BY <4>1 DEF Advances
      <4> QED BY <3>2, <4>1, <4>2, IOwn
    <3>3. CASE q = r /\ part # "reports"
      <4>1. part' = part /\ t \notin Reported(r)'
            BY <2>2, <3>3, IOthers DEF StepOf
      <4> QED BY <3>3, <4>1
    <3> QED BY <3>1, <3>2, <3>3
  <2> QED BY <2>1, <2>2 DEF Next, StepOf
<1>3. SInv /\ IStand => ReportStands
  <2> SUFFICES ASSUME SInv, IStand, NEW r \in Requests, NEW t \in Channels, pc[r] = "done"
               PROVE  /\ op[r] = "setInactiveChannels" /\ Time(idle[t]) # Time(idto[r][t])
                            => Stands(r, tlast[t])
                      /\ op[r] = "setInactiveChannels" \/ t \in Reported(r) =>
                            (Flag(idle[t]) # Flag(idto[r][t]) => Stands(r, flast[t]))
      BY DEF ReportStands
  <2>1. op[r] \in {"setInactiveChannels", "setChannelNotified"} => part = "reports"
        BY DEF SInv, OpsOK, GInv, Parts, Methods
  <2>2. op[r] = "setInactiveChannels" => Agrees(r, t, idle[t])
        BY <2>1 DEF IStand, IStandsAt
  <2>3. t \in Reported(r) /\ op[r] # "setInactiveChannels" =>
            (Flag(idle[t]) # Flag(idto[r][t]) => FlagStands(r, t))
        BY <2>1 DEF IStand
  <2> QED BY <2>2, <2>3 DEF Agrees, TimeStands, FlagStands
<1> QED BY <1>1, <1>2, <1>3, SInit, SStep, PTL DEF Spec

-----------------------------------------------------------------------------
(* updateConfig while no other request is under way                        *)

Alone(r) == \A q \in Requests \ {r} : pc[q] = "idle" \/ q \in before[r]
\* The entity is the row with the body assigned to it.
HoldsBody(row, entity, body) ==
    \E loaded \in SUBSET Related : entity = Assigned(row, body, loaded)
PatchOK == \A r \in Requests :
    op[r] = "updateConfig" /\ pc[r] \in {"read", "saving"} /\ Alone(r) =>
        /\ ch[kon[r]] \in Config /\ HoldsBody(ch[kon[r]], kmem[r], kdto[r])
        /\ pc[r] = "saving" => kbase[r] = ch[kon[r]]

LEMMA PatchStep ==
    ASSUME SInv, PatchOK, NEW q \in Requests, StepOf(q) PROVE PatchOK'
<1>1. HandlersOK /\ Advances(q) /\ OpsOK'
      BY SStepOf DEF SInv, GInv
<1> SUFFICES ASSUME NEW r \in Requests, op'[r] = "updateConfig", pc'[r] \in {"read", "saving"}, Alone(r)'
             PROVE  /\ ch'[kon'[r]] \in Config /\ HoldsBody(ch'[kon'[r]], kmem'[r], kdto'[r])
                    /\ pc'[r] = "saving" => kbase'[r] = ch'[kon'[r]]
    BY DEF PatchOK, HoldsBody, Assigned
<1>2. CASE q # r
  <2>1. q \notin before[r] /\ before'[r] = before[r]
        BY <1>2, Foreign
  <2>2. pc'[q] # "idle"
        BY <1>1 DEF Advances
  <2> QED BY <1>2, <2>1, <2>2 DEF Alone
<1>3. CASE q = r
  <2>1. part = "zones" /\ part' = part
    <3>1. part' \in Parts
          BY SStepOf DEF SInv, GInv
    <3>2. part' = "zones"
          BY <1>1, <3>1 DEF OpsOK, Parts, Methods
    <3> QED BY <3>2 DEF StepOf
  <2>2. kon \in [Requests -> Configs \cup {None}] /\ kmem \in [Requests -> Config \cup {None}]
        BY DEF SInv, POK, ConfigsTypeOK
  <2>3. /\ kbase \in [Requests -> Config \cup {None}]
        /\ kdto \in [Requests -> Patch \cup List \cup {None}]
        BY DEF SInv, POK, ConfigsTypeOK
  <2>4. ASSUME NEW k \in Configs, NEW body \in Patch, ReadConfig(r, k, body)
        PROVE  /\ ch'[kon'[r]] \in Config /\ HoldsBody(ch'[kon'[r]], kmem'[r], kdto'[r])
               /\ pc'[r] # "saving"
    <3>0. PICK loaded \in SUBSET Related :
              BeginWith(r, "updateConfig", k, Assigned(ch[k], body, loaded), body)
          BY <2>4 DEF ReadConfig
    <3>1. /\ pc' = [pc EXCEPT ![r] = "read"] /\ ch' = ch /\ ch[k] \in Config
          /\ kon' = [kon EXCEPT ![r] = k] /\ kdto' = [kdto EXCEPT ![r] = body]
          /\ kmem' = [kmem EXCEPT ![r] = Assigned(ch[k], body, loaded)]
          BY <2>4, <3>0 DEF ReadConfig, BeginWith, Begin, IsConfig
    <3>2. kon'[r] = k /\ kdto'[r] = body /\ kmem'[r] = Assigned(ch[k], body, loaded) /\ pc'[r] = "read"
          BY <1>1, <2>2, <2>3, <3>1 DEF HandlersOK
    <3>3. HoldsBody(ch'[kon'[r]], kmem'[r], kdto'[r])
          BY <3>1, <3>2 DEF HoldsBody
    <3> QED BY <3>1, <3>2, <3>3
  <2>5. CASE LookConfig(r)
    <3>1. /\ pc[r] = "read" /\ op[r] = "updateConfig" /\ UNCHANGED <<ch, kon, kmem, kdto, before>>
          /\ kbase' = [kbase EXCEPT ![r] = IF IsConfig(kon[r]) THEN ch[kon[r]] ELSE None]
          BY <2>5 DEF LookConfig, Goto
    <3>2. Alone(r)
          BY <1>1, <1>3, <3>1 DEF Alone, Advances, Moves, HandlersOK
    <3>3. ch[kon[r]] \in Config /\ HoldsBody(ch[kon[r]], kmem[r], kdto[r])
          BY <3>1, <3>2 DEF PatchOK
    <3> QED BY <2>3, <3>1, <3>3 DEF IsConfig
  <2>6. CASE ~(LookConfig(r) \/ \E k \in Configs, body \in Patch : ReadConfig(r, k, body))
    <3>1. op'[r] # "updateConfig" \/ pc'[r] \notin {"read", "saving"}
      <4>1. CASE ConfigStep(r)
            BY <1>1, <2>6, <4>1 DEF HandlersOK, ConfigStep, BeginConfig, ReadForPerms, ReadForDelete,
               BeginWith, Begin, InsertConfig, SaveConfig, FindPerms, DeletePerms, LookPerms, SavePerms,
               PermStatement, CommitPerms, DropConfig, FailConfig, Goto
      <4>2. CASE CrawlStep(r, zones) \/ DeleteZone(r)
            BY <1>1, <4>2 DEF HandlersOK, CrawlStep, BeginCrawl, InsertCrawl, FailReport, DeleteZone,
               DropZone, Begin, Goto
      <4> QED BY <1>3, <2>1, <4>1, <4>2 DEF StepOf
    <3> QED BY <3>1
  <2> QED BY <2>4, <2>5, <2>6
<1> QED BY <1>2, <1>3

\* What a row becomes where a body is written over it.
Exactly(row, next, body) ==
    /\ next.zone = row.zone
    /\ \A c \in Columns : \/ next.col[c] = body[c]
                          \/ (body[c] = None \/ c \in Related) /\ next.col[c] = row.col[c]

\* Saving an entity over the row that it was read from writes the body.
LEMMA MergesExactly ==
    ASSUME NEW row \in Config, NEW entity, NEW body, HoldsBody(row, entity, body)
    PROVE  Exactly(row, Merged(row, row, entity), body)
<1>1. PICK loaded \in SUBSET Related : entity = Assigned(row, body, loaded)
      BY DEF HoldsBody
<1> DEFINE col == [c \in Columns |-> IF body[c] = None \/ c \in loaded THEN row.col[c] ELSE body[c]]
           new == [c \in Columns |-> IF col[c] = row.col[c] THEN row.col[c] ELSE col[c]]
<1>2. entity = [zone |-> row.zone, col |-> col]
      BY <1>1 DEF Assigned, Config
<1>3. Merged(row, row, entity) = [zone |-> row.zone, col |-> new]
      BY <1>2 DEF Merged, Config
<1>4. ASSUME NEW c \in Columns
      PROVE  new[c] = body[c] \/ ((body[c] = None \/ c \in Related) /\ new[c] = row.col[c])
      OBVIOUS
<1> HIDE DEF new
<1> QED BY <1>3, <1>4 DEF Exactly

\* updateConfig: while no other request is under way, a PATCH that ends well gives
\* each plain column it names the value it names, and no column another, though
\* it saves them all; the key of a relation may keep the value it had.
THEOREM LonePatchesAreExact == Spec => LonePatchIsExact
<1>1. Init => PatchOK
  <2>1. HandlersInit => \A r \in Requests : op[r] = "none"
        BY DEF HandlersInit
  <2> QED BY <2>1 DEF Init, PatchOK
<1>2. SInv /\ PatchOK /\ [Next]_vars => PatchOK'
  <2>1. ASSUME PatchOK, UNCHANGED vars PROVE PatchOK'
    <3>1. UNCHANGED <<pc, op, before, ch, kon, kmem, kbase, kdto>>
          BY <2>1 DEF vars, hvars, kvars
    <3> SUFFICES ASSUME NEW r \in Requests, op'[r] = "updateConfig", pc'[r] \in {"read", "saving"},
                        Alone(r)'
                 PROVE  /\ ch'[kon'[r]] \in Config /\ HoldsBody(ch'[kon'[r]], kmem'[r], kdto'[r])
                        /\ pc'[r] = "saving" => kbase'[r] = ch'[kon'[r]]
        BY DEF PatchOK, HoldsBody, Assigned
    <3>2. /\ ch[kon[r]] \in Config /\ HoldsBody(ch[kon[r]], kmem[r], kdto[r])
          /\ pc[r] = "saving" => kbase[r] = ch[kon[r]]
          BY <2>1, <3>1 DEF PatchOK, Alone
    <3> QED BY <3>1, <3>2
  <2>2. Next => \E q \in Requests : StepOf(q)
        BY DEF Next, StepOf
  <2> QED BY <2>1, <2>2, PatchStep DEF vars
<1> DEFINE Exact == \A r \in Requests :
                        /\ op[r] = "updateConfig" /\ pc[r] = "saving" /\ pc'[r] = "done"
                        /\ \A q \in Requests \ {r} : pc[q] = "idle" \/ q \in before[r]
                        => /\ ch'[kon[r]].zone = ch[kon[r]].zone
                           /\ \A c \in Columns :
                                 \/ ch'[kon[r]].col[c] = kdto[r][c]
                                 \/ /\ kdto[r][c] = None \/ c \in Related
                                    /\ ch'[kon[r]].col[c] = ch[kon[r]].col[c]
<1>3. SInv /\ PatchOK /\ [Next]_vars => [Exact]_kvars
  <2> SUFFICES ASSUME SInv, PatchOK, [Next]_vars, ~UNCHANGED kvars,
                      NEW r \in Requests, op[r] = "updateConfig", pc[r] = "saving", pc'[r] = "done",
                      \A q \in Requests \ {r} : pc[q] = "idle" \/ q \in before[r]
               PROVE  Exactly(ch[kon[r]], ch'[kon[r]], kdto[r])
      BY DEF Exact, Exactly
  <2>1. PICK q \in Requests : StepOf(q)
        BY DEF Next, StepOf, vars
  <2>2. q = r
        BY <2>1, Foreign
  <2>3. SaveConfig(r)
    <3>1. part = "zones"
          BY DEF SInv, GInv, OpsOK, Parts, Methods
    <3>2. CASE ConfigStep(r)
          BY <3>2 DEF SInv, Past, ConfigStep, BeginConfig, ReadConfig, ReadForPerms, ReadForDelete, BeginWith,
             Begin, InsertConfig, LookConfig, FindPerms, DeletePerms, LookPerms, SavePerms,
             PermStatement, CommitPerms, DropConfig, FailConfig, Goto
    <3>3. CASE CrawlStep(r, zones) \/ DeleteZone(r)
          BY <3>3 DEF CrawlStep, BeginCrawl, InsertCrawl, FailReport, DeleteZone, DropZone, Begin, Goto
    <3> QED BY <2>1, <2>2, <3>1, <3>2, <3>3 DEF StepOf
  <2>4. /\ ch[kon[r]] \in Config /\ HoldsBody(ch[kon[r]], kmem[r], kdto[r])
        /\ kbase[r] = ch[kon[r]]
        BY DEF PatchOK, Alone
  <2>5. kon[r] \in Configs /\ ch \in [Configs -> Config \cup {None, Gone}]
    <3>1. part = "zones"
          BY DEF SInv, GInv, OpsOK, Parts, Methods
    <3> QED BY <3>1 DEF SInv, KInv, KMemOK
  <2>6. ch' = [ch EXCEPT ![kon[r]] = Merged(ch[kon[r]], kbase[r], kmem[r])]
        BY <2>3, <2>4 DEF SaveConfig, IsConfig
  <2>7. ch'[kon[r]] = Merged(ch[kon[r]], ch[kon[r]], kmem[r])
        BY <2>4, <2>5, <2>6
  <2>8. Exactly(ch[kon[r]], Merged(ch[kon[r]], ch[kon[r]], kmem[r]), kdto[r])
        BY <2>4, MergesExactly
  <2> QED BY <2>7, <2>8
<1> QED BY <1>1, <1>2, <1>3, SInit, SStep, PTL DEF Spec, LonePatchIsExact

=============================================================================
