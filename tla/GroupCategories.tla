-------------------------- MODULE GroupCategories --------------------------
(***************************************************************************)
(* The group categories of one server.  A row of GroupConfig, whose primary *)
(* key is the group, puts a group into a category.  An update replaces the *)
(* groups of its category inside a transaction: delete all, then save; a   *)
(* deletion counts the groups first and relies on the foreign key then.    *)
(***************************************************************************)
EXTENDS Handlers

CONSTANTS
    Categories,   \* primary keys of GroupCategory
    Groups,       \* groups of the server
    Names         \* names a category may be given

ASSUME CategoriesAssumption ==
    /\ None \notin Categories \cup Names \cup Requests
    /\ Gone \notin Names \cup {None}

VARIABLES
    cat,      \* cat[c]: the name of category c, None before and Gone after its life
    named,    \* named[r]: the name the transaction of r has given its category
    on,       \* on[r]: the category request r works on
    dto,      \* dto[r]: the body of an update, groups as the set it is made to
    conf,     \* conf[g]: categoryId of the row of g in GroupConfig, or None
    gwriter, gdraft, gkilled, gscan, gseen,   \* its transactions, as in ReadCommitted
    glast     \* history: glast[g], the request that last changed that row

config == <<conf, gwriter, gdraft, gkilled, gscan, gseen, glast>>
gvars  == <<cat, named, on, dto, config>>

Table == INSTANCE ReadCommitted WITH
    Keys <- Groups, table <- conf, writer <- gwriter, draft <- gdraft,
    killed <- gkilled, scan <- gscan, seen <- gseen

Body   == [name : Names \cup {None}, groups : SUBSET Groups]
NoBody == [name |-> None, groups |-> {}]

Exists(c) == cat[c] \in Names
In(c)     == [g \in Groups |-> c]

CategoriesTypeOK ==
    /\ cat   \in [Categories -> Names \cup {None, Gone}]
    /\ named \in [Requests -> Names \cup {None}]
    /\ on    \in [Requests -> Categories \cup {None}]
    /\ dto   \in [Requests -> Body]
    /\ glast \in [Groups -> Requests \cup {None}]
    /\ Table!TableTypeOK(Categories)

CategoriesInit ==
    /\ cat \in [Categories -> Names \cup {None}]
    /\ \A c, d \in Categories : Exists(c) /\ cat[c] = cat[d] => c = d
    /\ conf \in [Groups -> {None} \cup {c \in Categories : Exists(c)}]
    /\ named = [r \in Requests |-> None]
    /\ on    = [r \in Requests |-> None]
    /\ dto   = [r \in Requests |-> NoBody]
    /\ glast = [g \in Groups |-> None]
    /\ Table!TableInit

\* The unique key (name, serverId), which waits for a name not yet committed.
NameFree(r, c, n) == /\ \A d \in Categories \ {c} : cat[d] # n
                     /\ \A q \in Requests \ {r} : named[q] # n

\* Row c is locked by a rename, or by rows of GroupConfig that refer to it.
Renamed(r, c)  == \E q \in Requests \ {r} : on[q] = c /\ named[q] # None
Referred(r, c) == \E g \in Groups : gwriter[g] \notin {r, None} /\ gdraft[g] = c

-----------------------------------------------------------------------------
CreateCategory(r, c, n) ==
    /\ Begin(r, "createCategory", "done")
    /\ cat[c] = None /\ NameFree(r, c, n)
    /\ cat' = [cat EXCEPT ![c] = n]
    /\ UNCHANGED <<named, on, dto, config>>

-----------------------------------------------------------------------------
(* updateCategory                                                          *)

BeginOn(r, method, c, body) == /\ Begin(r, method, "read")
                               /\ on'  = [on  EXCEPT ![r] = c]
                               /\ dto' = [dto EXCEPT ![r] = body]
                               /\ UNCHANGED <<cat, named, config>>

\* A body without groups is one with an empty set of them.
ReadCategory(r, c, body) == Exists(c) /\ BeginOn(r, "updateCategory", c, body)

Renames(r) == dto[r].name \notin {None, cat[on[r]]}

\* save(category), which inserts the row again if it is gone.
Rename(r) ==
    /\ Goto(r, "updateCategory", "read", "renamed")
    /\ IF Renames(r)
       THEN /\ NameFree(r, on[r], dto[r].name)
            /\ ~Renamed(r, on[r]) /\ ~Referred(r, on[r])
            /\ named' = [named EXCEPT ![r] = dto[r].name]
       ELSE UNCHANGED named
    /\ UNCHANGED <<cat, on, dto, config>>

Statement(r, from, to) == /\ Goto(r, "updateCategory", from, to)
                          /\ UNCHANGED <<cat, named, on, dto, glast>>

\* Bug: only groups of the body are taken out.
FindListed(r)   == /\ Statement(r, "renamed", "deleting")
                   /\ Table!Find(r, {g \in dto[r].groups : Table!View(r, g) = on[r]})
OnRows(r) == {g \in Groups : Table!View(r, g) = on[r]}

FindGroups(r)   == /\ Statement(r, "renamed", "deleting")
                   /\ Table!Find(r, OnRows(r))
DeleteGroups(r) == /\ Statement(r, "deleting",
                                IF dto[r].groups = {} THEN "saved" ELSE "deleted")
                   /\ Table!Delete(r, OnRows(r))
LookGroups(r)   == /\ Statement(r, "deleted", "saving")
                   /\ Table!Look(r, dto[r].groups)

\* The foreign key to the category, and the row lock that goes with it.
SaveGroups(r)   == /\ Statement(r, "saving", "saved")
                   /\ Exists(on[r]) \/ named[r] # None
                   /\ ~Renamed(r, on[r])
                   /\ Table!Save(r, dto[r].groups, In(on[r]))

CommitCategory(r) ==
    /\ Goto(r, "updateCategory", "saved", "done")
    /\ cat'   = IF named[r] = None THEN cat ELSE [cat EXCEPT ![on[r]] = named[r]]
    /\ named' = [named EXCEPT ![r] = None]
    /\ Table!Commit(r)
    /\ glast' = [g \in Groups |-> IF g \in Table!Wrote(r) THEN r ELSE glast[g]]
    /\ UNCHANGED <<on, dto>>

-----------------------------------------------------------------------------
(* deleteCategory                                                          *)

\* The count of the category's groups must be zero; it may have no row.
CountGroups(r, c) == /\ \A g \in Groups : conf[g] # c
                     /\ BeginOn(r, "deleteCategory", c, NoBody)

\* Bug: the count is relied on, without the foreign key.
DropCounted(r) ==
    /\ Goto(r, "deleteCategory", "read", "done")
    /\ Exists(on[r])
    /\ cat' = [cat EXCEPT ![on[r]] = Gone]
    /\ UNCHANGED <<named, on, dto, config>>

DropCategory(r) ==
    /\ Goto(r, "deleteCategory", "read", "done")
    /\ Exists(on[r])
    /\ ~Renamed(r, on[r]) /\ ~Referred(r, on[r])
    /\ \A g \in Groups : conf[g] # on[r]
    /\ cat' = [cat EXCEPT ![on[r]] = Gone]
    /\ UNCHANGED <<named, on, dto, config>>

-----------------------------------------------------------------------------
\* Bug: the transaction is left open.
FailOpen(r) == /\ Active(r) /\ op[r] \in {"updateCategory", "deleteCategory"}
               /\ Goto(r, op[r], pc[r], "failed")
               /\ UNCHANGED gvars

\* A check, a key, a deadlock or a lost connection: the transaction is undone.
FailCategory(r) == /\ Active(r) /\ op[r] \in {"updateCategory", "deleteCategory"}
                   /\ Goto(r, op[r], pc[r], "failed")
                   /\ named' = [named EXCEPT ![r] = None]
                   /\ Table!Rollback(r)
                   /\ UNCHANGED <<cat, on, dto, glast>>

CategoryStep(r) ==
    \/ \E c \in Categories :
          \/ \E n \in Names : CreateCategory(r, c, n)
          \/ \E body \in Body : ReadCategory(r, c, body)
          \/ CountGroups(r, c)
    \/ Rename(r) \/ FindGroups(r) \/ DeleteGroups(r) \/ LookGroups(r) \/ SaveGroups(r)
    \/ CommitCategory(r) \/ DropCategory(r) \/ FailCategory(r)

-----------------------------------------------------------------------------
(* Properties *)

\* updateCategory: once answered well, the category has the groups of the body
\* and no others; where it has not, a request has changed the group that was
\* not over when the update began.
GroupsStand ==
    \A r \in Requests : op[r] = "updateCategory" /\ pc[r] = "done" =>
        \A g \in Groups :
            (g \in dto[r].groups) # (conf[g] = on[r]) => Stands(r, glast[g])

\* deleteCategory, 'if there are associated categories': no group is left in a
\* category that is gone, though they are counted in another statement.
GroupsKeepCategory ==
    \A g \in Groups : conf[g] # None => Exists(conf[g])
=============================================================================
