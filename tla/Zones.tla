------------------------------- MODULE Zones -------------------------------
(***************************************************************************)
(* The zones of one server, with the sync of its groups: a zone is bound   *)
(* to a group or, without one, is the default; when a sync deletes a group *)
(* its zones are deleted softly with it.  ZoneService loads an entity,     *)
(* awaits its checks and saves the whole entity back.                      *)
(***************************************************************************)
EXTENDS ServerGroups

CONSTANTS
    Requests,   \* requests that create, update or delete a zone
    ZoneIds,    \* primary keys of Zone, each given to one new row
    Keep        \* groupId is not in the body of an update

ASSUME ZonesAssumption ==
    /\ None \notin ZoneIds
    /\ Keep \notin Groups \cup {None}

VARIABLES
    zone,   \* zone[z]: row z of Zone, None if there is none
    pc,     \* pc[r]: the await request r is suspended at
    op,     \* op[r]: the service method it is in
    id,     \* id[r]: the zone it made or works on
    mem,    \* mem[r]: the entity in its memory, as created or as read
    dto,    \* dto[r]: the body of an update
    doomed  \* doomed[q]: zones that the open transaction of sync q has deleted

requests == <<pc, op, id, mem, dto>>
zvars    == <<gvars, zone, requests, doomed>>

Zone == [group : Groups \cup {None}, dead : BOOLEAN]   \* dead: deletedAt is set
Body == [group : Groups \cup {None, Keep}, revive : BOOLEAN]

NoBody == [group |-> Keep, revive |-> FALSE]

ASSUME ZoneAssumption == \A x \in Zone : x # None

ZonesTypeOK ==
    /\ GroupsTypeOK
    /\ zone \in [ZoneIds -> {None} \cup Zone]
    /\ pc   \in [Requests -> {"idle", "naming", "defaulting", "grouping", "saving",
                              "deleting", "done", "ended"}]
    /\ op   \in [Requests -> {"none", "create", "update", "delete"}]
    /\ id   \in [Requests -> ZoneIds \cup {None}]
    /\ mem  \in [Requests -> {None} \cup Zone]
    /\ dto  \in [Requests -> Body]
    /\ doomed \in [Syncs -> SUBSET ZoneIds]
    /\ \A r \in Requests :
          /\ mem[r] = None <=> pc[r] \in {"idle", "done", "ended"}
          /\ op[r] \in {"update", "delete"} => id[r] # None
          /\ pc[r] = "deleting"   => op[r] = "delete"
          /\ pc[r] = "defaulting" => op[r] = "create"

Init ==
    /\ GroupsInit
    /\ zone = [z \in ZoneIds |-> None]
    /\ pc   = [r \in Requests |-> "idle"]
    /\ op   = [r \in Requests |-> "none"]
    /\ id   = [r \in Requests |-> None]
    /\ mem  = [r \in Requests |-> None]
    /\ dto  = [r \in Requests |-> NoBody]
    /\ doomed = [q \in Syncs |-> {}]

IsDefault(z)      == zone[z] # None /\ zone[z].group = None /\ ~zone[z].dead
DefaultZoneExists == \E z \in ZoneIds : IsDefault(z)

-----------------------------------------------------------------------------
(* The beginning of the three methods, up to their first await that checks *)
(* something.                                                              *)

Begin(r, method, to, z, entity, body) ==
    /\ pc[r] = "idle"
    /\ pc'  = [pc  EXCEPT ![r] = to]
    /\ op'  = [op  EXCEPT ![r] = method]
    /\ id'  = [id  EXCEPT ![r] = z]
    /\ mem' = [mem EXCEPT ![r] = entity]
    /\ dto' = [dto EXCEPT ![r] = body]
    /\ UNCHANGED <<gvars, zone, doomed>>

BeginCreate(r, g) == Begin(r, "create", "naming", None, [group |-> g, dead |-> FALSE], NoBody)

\* getZone reads the rows deleted softly too.
BeginUpdate(r, z, body) == /\ zone[z] # None
                           /\ Begin(r, "update", "naming", z, zone[z], body)

BeginDelete(r, z) == /\ zone[z] # None /\ zone[z].group # None
                     /\ Begin(r, "delete", "deleting", z, zone[z], NoBody)

-----------------------------------------------------------------------------
(* The checks.  Each is an await; the step is its answer and what runs     *)
(* until the next.                                                         *)

Goto(r, from, to) == /\ pc[r] = from
                     /\ pc' = [pc EXCEPT ![r] = to]
                     /\ UNCHANGED <<gvars, zone, op, id, mem, dto, doomed>>

NamedCreate(r) == op[r] = "create" /\ Goto(r, "naming", "defaulting")

\* Bug: only a zone deleted before is kept from being bound.
BindsDead(r) == mem[r].group = None /\ mem[r].dead /\ dto[r].group \in Groups
Binds(r)   == mem[r].group = None /\ dto[r].group \in Groups
Rebinds(r) == mem[r].group # None /\ dto[r].group \in Groups \ {mem[r].group}

NamedUpdate(r) == /\ op[r] = "update"
                  /\ Goto(r, "naming", IF Rebinds(r) THEN "grouping" ELSE "saving")
                  /\ ~Binds(r)

HasDefault(r) == /\ Goto(r, "defaulting", IF mem[r].group = None THEN "saving" ELSE "grouping")
                 /\ mem[r].group # None => DefaultZoneExists

GroupOf(r) == IF op[r] = "create" THEN mem[r].group ELSE dto[r].group

ValidateGroup(r) == /\ pc[r] = "grouping" /\ group[GroupOf(r)] = "active"
                    /\ Goto(r, "grouping", "saving")

-----------------------------------------------------------------------------
(* The write, and the end of the request.                                  *)

\* Bug: the request goes on holding its entity.
FinishStale(r, outcome) == /\ pc'  = [pc  EXCEPT ![r] = outcome]
                           /\ UNCHANGED <<gvars, op, mem, dto, doomed>>
Finish(r, outcome) == /\ pc'  = [pc  EXCEPT ![r] = outcome]
                      /\ mem' = [mem EXCEPT ![r] = None]
                      /\ dto' = [dto EXCEPT ![r] = NoBody]
                      /\ UNCHANGED <<gvars, op, doomed>>

Fresh == {z \in ZoneIds : zone[z] = None /\ \A r \in Requests : id[r] # z}

SaveNew(r) == /\ pc[r] = "saving" /\ op[r] = "create"
              /\ \E z \in Fresh : /\ zone' = [zone EXCEPT ![z] = mem[r]]
                                  /\ id'   = [id EXCEPT ![r] = z]
              /\ Finish(r, "done")

\* What updateZone makes of the entity it read.
Applied(entity, body) ==
    [group |-> IF body.group = Keep THEN entity.group ELSE body.group,
     dead  |-> entity.dead /\ ~body.revive]

\* A row that an open transaction has written is waited for.
Unlocked(z) == \A q \in Syncs : z \notin doomed[q]

\* save writes the whole entity; it inserts it again if the row is gone.
SaveOld(r) == /\ pc[r] = "saving" /\ op[r] = "update" /\ Unlocked(id[r])
              /\ zone' = [zone EXCEPT ![id[r]] = Applied(mem[r], dto[r])]
              /\ Finish(r, "done")
              /\ UNCHANGED id

DeleteRow(r) == /\ pc[r] = "deleting" /\ Unlocked(id[r])
                /\ zone' = [zone EXCEPT ![id[r]] = None]
                /\ Finish(r, "done")
                /\ UNCHANGED id

\* A check or the database refuses, or fails.
Refuse(r) == /\ pc[r] \notin {"idle", "done", "ended"}
             /\ Finish(r, "ended")
             /\ UNCHANGED <<zone, id>>

-----------------------------------------------------------------------------
(* The syncs, whose transaction deletes the zones of the groups it deletes *)

\* Bug: the zones of the groups kept are looked for.
ZonesOfKept(q) == {z \in ZoneIds : zone[z] # None /\ zone[z].group \in ToSave(q)}
ZonesOfDeleted(q) == {z \in ZoneIds : zone[z] # None /\ zone[z].group \in ToDelete(q)}

\* The UPDATE sees the zones that are committed; others may be bound to those
\* groups until the COMMIT.
CascadeGroups(q) == /\ OpenPersist(q)
                    /\ \A z \in ZonesOfDeleted(q) : Unlocked(z)
                    /\ doomed' = [doomed EXCEPT ![q] = ZonesOfDeleted(q)]
                    /\ UNCHANGED <<zone, requests>>

CommitGroups(q) ==
    /\ Persist(q)
    /\ zone' = [z \in ZoneIds |-> IF z \in doomed[q] THEN [zone[z] EXCEPT !.dead = TRUE]
                                                     ELSE zone[z]]
    /\ doomed' = [doomed EXCEPT ![q] = {}]
    /\ UNCHANGED requests

RollBack(q) == /\ SyncFails(q)
               /\ doomed' = [doomed EXCEPT ![q] = {}]
               /\ UNCHANGED <<zone, requests>>

SyncStep == \E q \in Syncs : \/ StartSync(q) \/ ReadTable(q) \/ ReadServer(q)
                             \/ LoadForIcons(q) \/ SaveIcons(q)

ServerStep == \E g \in Groups : AddGroup(g) \/ RemoveGroup(g)

RequestStep ==
    \E r \in Requests :
        \/ \E g \in Groups \cup {None} : BeginCreate(r, g)
        \/ \E z \in ZoneIds, body \in Body : BeginUpdate(r, z, body)
        \/ \E z \in ZoneIds : BeginDelete(r, z)
        \/ NamedCreate(r) \/ NamedUpdate(r) \/ HasDefault(r) \/ ValidateGroup(r)
        \/ SaveNew(r) \/ SaveOld(r) \/ DeleteRow(r) \/ Refuse(r)

Next == \/ (SyncStep \/ ServerStep) /\ UNCHANGED <<zone, requests, doomed>>
        \/ \E q \in Syncs : CascadeGroups(q) \/ CommitGroups(q) \/ RollBack(q)
        \/ RequestStep

Spec == Init /\ [][Next]_zvars

-----------------------------------------------------------------------------
(* Properties *)

\* createZone and deleteZone: a server that has zones has an active default
\* zone, which Crawls and the bot fall back on, whatever requests and syncs
\* overlap.
ZonesHaveDefault == (\E z \in ZoneIds : zone[z] # None) => DefaultZoneExists
=============================================================================
