---------------------------- MODULE ServerGroups ----------------------------
(***************************************************************************)
(* The server groups of one server: GroupSyncService copies the groups of  *)
(* the voice server into the ServerGroup table.  A sync reads both sides,  *)
(* works out the changes in memory and writes whole entities back, so what *)
(* it writes is as old as what it read.                                    *)
(***************************************************************************)
EXTENDS Naturals

CONSTANTS
    Groups,   \* groups of the voice server; it never uses an id again
    Syncs,    \* calls of syncGroupsByServerId
    None

ASSUME GroupsAssumption == None \notin Groups /\ \A S \in SUBSET Groups : S # None

VARIABLES
    ts,     \* ts[g]: group g on the voice server
    group,  \* group[g]: its row of ServerGroup; "deleted" is deletedAt set
    spc,    \* spc[q]: the await sync q is suspended at, or how it ended
    known,  \* known[q]: the groups it read from the table, None before
    found,  \* found[q]: the groups the bot told it of, None before
    loaded  \* loaded[q]: the entities that updateGroupIcons writes back

gvars == <<ts, group, spc, known, found, loaded>>
memory   == <<known, found, loaded>>

GroupsTypeOK ==
    /\ ts     \in [Groups -> {"unborn", "present", "gone"}]
    /\ group  \in [Groups -> {"none", "active", "deleted"}]
    /\ spc    \in [Syncs -> {"idle", "reading", "persisting", "icons", "saving", "done",
                        "failed"}]
    /\ known  \in [Syncs -> {None} \cup SUBSET Groups]
    /\ found  \in [Syncs -> {None} \cup SUBSET Groups]
    /\ loaded \in [Syncs -> SUBSET Groups]
    /\ \A q \in Syncs : spc[q] = "persisting" => known[q] # None /\ found[q] # None

\* Syncs that are over have left any table that a server can have had.
GroupsInit ==
    /\ ts     \in [Groups -> {"unborn", "present", "gone"}]
    /\ group  \in [Groups -> {"none", "active", "deleted"}]
    /\ \A g \in Groups : /\ ts[g] = "unborn"  => group[g] = "none"
                         /\ ts[g] = "present" => group[g] # "deleted"
    /\ spc    = [q \in Syncs |-> "idle"]
    /\ known  = [q \in Syncs |-> None]
    /\ found  = [q \in Syncs |-> None]
    /\ loaded = [q \in Syncs |-> {}]

Rows    == {g \in Groups : group[g] # "none"}
Active  == {g \in Groups : group[g] = "active"}
Present == {g \in Groups : ts[g] = "present"}

-----------------------------------------------------------------------------
\* The people who administer the voice server.
AddGroup(g) == /\ ts[g] = "unborn"
               /\ ts' = [ts EXCEPT ![g] = "present"]
               /\ UNCHANGED <<group, spc, memory>>

RemoveGroup(g) == /\ ts[g] = "present"
                  /\ ts' = [ts EXCEPT ![g] = "gone"]
                  /\ UNCHANGED <<group, spc, memory>>

-----------------------------------------------------------------------------
(* GroupSyncService.syncGroups                                             *)

Step(q, from, to) == /\ spc[q] = from
                     /\ spc' = [spc EXCEPT ![q] = to]

StartSync(q) == /\ Step(q, "idle", "reading")
                /\ UNCHANGED <<ts, group, memory>>

\* Promise.all: the table, deleted rows included, and the bot, in either order.
ReadTable(q) == /\ spc[q] = "reading" /\ known[q] = None
                /\ known' = [known EXCEPT ![q] = Rows]
                /\ UNCHANGED <<ts, group, spc, found, loaded>>

ReadServer(q) == /\ spc[q] = "reading" /\ found[q] = None
                 /\ found' = [found EXCEPT ![q] = Present]
                 /\ UNCHANGED <<ts, group, spc, known, loaded>>

\* getChangesForSync
ToInsert(q) == found[q] \ known[q]
ToSave(q)   == known[q] \cap found[q]
\* Bug: the filter of toDelete is not negated.
ToDeletePresent(q) == known[q] \cap found[q]
ToDelete(q) == known[q] \ found[q]

HasRead(q) == spc[q] = "reading" /\ known[q] # None /\ found[q] # None

\* persistChanges opens its transaction, whose statements nobody sees before
\* the COMMIT: delete softly, save with deletedAt = null, insert.
OpenPersist(q) == /\ HasRead(q)
                  /\ Step(q, "reading", "persisting")
                  /\ UNCHANGED <<ts, group, memory>>

\* The COMMIT.  The unique key (tsId, serverId) refuses a second row.
Persist(q) ==
    /\ Step(q, "persisting", "icons")
    /\ ToInsert(q) \cap Rows = {}
    /\ group' = [g \in Groups |->
                   CASE g \in ToDelete(q) -> "deleted"
                     [] g \in ToSave(q) \cup ToInsert(q) -> "active"
                     [] OTHER -> group[g]]
    /\ UNCHANGED <<ts, memory>>

\* triggerGroupIconSync is over: updateGroupIcons loads the active groups ...
LoadForIcons(q) == /\ Step(q, "icons", "saving")
                   /\ loaded' = [loaded EXCEPT ![q] = Active]
                   /\ UNCHANGED <<ts, group, known, found>>

\* ... and saves them as they were loaded, deletedAt included.
SaveIcons(q) == /\ Step(q, "saving", "done")
                /\ group' = [g \in Groups |-> IF g \in loaded[q] THEN "active" ELSE group[g]]
                /\ UNCHANGED <<ts, memory>>

\* The bot, the database or the unique key: the transaction is rolled back.
SyncFails(q) == /\ spc[q] \in {"reading", "persisting", "icons", "saving"}
                /\ spc' = [spc EXCEPT ![q] = "failed"]
                /\ UNCHANGED <<ts, group, memory>>

-----------------------------------------------------------------------------
(* Properties *)

\* syncGroups: when the only sync there has been is done, the active rows are
\* the groups the bot had told it of, whatever happened on the server since.
LoneSyncIsExact ==
    \A q \in Syncs :
        spc[q] = "done" /\ (\A p \in Syncs \ {q} : spc[p] = "idle")
            => Active = found[q]

\* getServerGroupsToSave: 'in practice a group will never be restored, since TS3
\* doesnt reuse id's'.
DeletedGroupsStayDeleted ==
    [][\A g \in Groups : group[g] = "deleted" => group'[g] = "deleted"]_gvars
=============================================================================
