---------------------------- MODULE SyncHistory ----------------------------
(***************************************************************************)
(* Zones with history variables, which restrict no step: they let a        *)
(* property say which syncs had overlapped when a group was deleted, and   *)
(* which zones were saved by somebody who may not have known of it.        *)
(***************************************************************************)
EXTENDS Zones

VARIABLES
    earlier,   \* earlier[q]: the syncs that had ended when sync q began
    deleters,  \* deleters[g]: the sync that last deleted g's row, {} if none has
    crossed,   \* requests at work, at some time with the transaction of a sync open
    strayed    \* zones that one of them has saved, or an update has revived

history == <<earlier, deleters, crossed, strayed>>
hvars   == <<zvars, history>>

HInit == /\ Init
         /\ earlier  = [q \in Syncs |-> {}]
         /\ deleters = [g \in Groups |-> {}]
         /\ crossed  = {}
         /\ strayed  = {}

EndedSyncs == {q \in Syncs : spc[q] \in {"done", "failed"}}
Committing == \E q \in Syncs : spc[q] = "persisting"

\* The last step has ended a request that saves zone z.
Saves(r, z) == pc[r] = "saving" /\ pc'[r] = "done" /\ id'[r] = z

HNext ==
    /\ Next
    /\ earlier'  = [q \in Syncs |-> IF spc[q] = "idle" /\ spc'[q] # "idle"
                                    THEN EndedSyncs ELSE earlier[q]]
    /\ deleters' = [g \in Groups |-> IF group[g] # "deleted" /\ group'[g] = "deleted"
                                     THEN {q \in Syncs : spc'[q] # spc[q]} ELSE deleters[g]]
    /\ crossed'  = {r \in Requests : mem'[r] # None /\ (r \in crossed \/ Committing')}
    /\ strayed'  = strayed \cup {z \in ZoneIds : \E r \in Requests :
                                    Saves(r, z) /\ (r \in crossed \/ dto[r].revive)}

HSpec == HInit /\ [][HNext]_hvars

\* Sync q has begun, and another was not over when it began, or began before
\* it was over.
Overlapped(q) == \E p \in Syncs \ {q} :
                     spc[p] # "idle" /\ p \notin earlier[q] /\ q \notin earlier[p]

\* getServerGroupsToSave, 'in practice a group will never be restored': a group
\* comes back only if the very sync that deleted it has overlapped another.
LoneDeletionStands ==
    \A g \in Groups : \A q \in deleters[g] : Overlapped(q) \/ group[g] = "deleted"

\* cascadeGroupsDeletion, 'Cascade soft removed groups to dependent entities': a
\* zone stays active without its group only if it was saved by a request at work
\* while a sync's transaction was open, or by one that asked for it to be active.
DeletedGroupsTakeZones ==
    \A z \in ZoneIds \ strayed :
        zone[z] # None /\ zone[z].group # None /\ group[zone[z].group] = "deleted"
            => zone[z].dead
=============================================================================
