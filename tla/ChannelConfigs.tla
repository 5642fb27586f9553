--------------------------- MODULE ChannelConfigs ---------------------------
(***************************************************************************)
(* The channel configurations of one server: one per zone, with a list of  *)
(* permissions.  An update saves the whole entity it has read, without its *)
(* permissions; a PUT of permissions replaces them in a transaction; a     *)
(* zone takes its configuration, and that its permissions, with it.        *)
(***************************************************************************)
EXTENDS Handlers

CONSTANTS
    Configs,    \* primary keys of ChannelConfig, each given to one new row
    Zones,      \* zones of the server
    Columns,    \* its columns: codecQuality, allowedSubChannels ...
    Related,    \* those that are keys of a relation: codecId, adminChannelGroupId
    Perms,      \* the server permissions a configuration may list
    Values      \* the values of a column or a permission

ASSUME ConfigsAssumption ==
    /\ None \notin Zones \cup Configs \cup Perms \cup Values \cup Requests
    /\ None # Gone

VARIABLES
    zones,    \* the zones there are
    ch,       \* ch[k]: row k of ChannelConfig, None before and Gone after its life
    kon,      \* kon[r]: the configuration request r works on
    kmem,     \* kmem[r]: the entity in its memory
    kbase,    \* kbase[r]: the row as save has looked it up
    kdto,     \* kdto[r]: the body, the columns or the permissions to set
    perm,     \* perm[k, p]: the value of p in ChannelConfigPermission, or None
    pwriter, pdraft, pkilled, pscan, pseen,   \* its transactions, as in ReadCommitted
    plast     \* history: plast[k, p], the request that last changed that row

perms == <<perm, pwriter, pdraft, pkilled, pscan, pseen, plast>>
kvars == <<zones, ch, kon, kmem, kbase, kdto, perms>>

Keys   == Configs \X Perms
PTable == INSTANCE ReadCommitted WITH
    table <- perm, writer <- pwriter, draft <- pdraft, killed <- pkilled,
    scan <- pscan, seen <- pseen

Config == [zone : Zones, col : [Columns -> Values]]
Patch  == [Columns -> Values \cup {None}]
List   == [Perms -> Values \cup {None}]

ASSUME ConfigAssumption == None \notin Config \cup Patch \cup List /\ Gone \notin Config

IsConfig(k) == ch[k] \in Config
Of(k)       == {k} \X Perms

ConfigsTypeOK ==
    /\ zones \subseteq Zones
    /\ ch    \in [Configs -> Config \cup {None, Gone}]
    /\ kon   \in [Requests -> Configs \cup {None}]
    /\ kmem  \in [Requests -> Config \cup {None}]
    /\ kbase \in [Requests -> Config \cup {None}]
    /\ kdto  \in [Requests -> Patch \cup List \cup {None}]
    /\ plast \in [Keys -> Requests \cup {None}]
    /\ PTable!TableTypeOK(Values)

ConfigsInit ==
    /\ zones = Zones
    /\ ch \in [Configs -> Config \cup {None}]
    /\ \A k, j \in Configs : IsConfig(k) /\ IsConfig(j) /\ k # j => ch[k].zone # ch[j].zone
    /\ perm \in [Keys -> Values \cup {None}]
    /\ \A x \in Keys : ~IsConfig(x[1]) => perm[x] = None
    /\ kon   = [r \in Requests |-> None]
    /\ kmem  = [r \in Requests |-> None]
    /\ kbase = [r \in Requests |-> None]
    /\ kdto  = [r \in Requests |-> None]
    /\ plast = [x \in Keys |-> None]
    /\ PTable!TableInit

\* The unique key (serverId, zoneId) and the foreign key to the zone.
Fits(entity) == /\ entity.zone \in zones
                /\ \A j \in Configs : IsConfig(j) => ch[j].zone # entity.zone

-----------------------------------------------------------------------------
BeginWith(r, method, k, entity, body) ==
    /\ Begin(r, method, "read")
    /\ kon'  = [kon  EXCEPT ![r] = k]
    /\ kmem' = [kmem EXCEPT ![r] = entity]
    /\ kdto' = [kdto EXCEPT ![r] = body]
    /\ UNCHANGED <<zones, ch, kbase, perms>>

Row(k, list) == [x \in Keys |-> IF x[1] = k THEN list[x[2]] ELSE perm[x]]
Changed(r, K) == plast' = [x \in Keys |-> IF x \in K THEN r ELSE plast[x]]

\* createConfig: the codec, the zone and the group are there ...
BeginConfig(r, entity, list) ==
    entity.zone \in zones /\ BeginWith(r, "createConfig", None, entity, list)

\* ... and the configuration is saved with its permissions, in a transaction.
InsertConfig(r) ==
    /\ Goto(r, "createConfig", "read", "done")
    /\ Fits(kmem[r])
    /\ \E k \in Configs :
          /\ ch[k] = None
          /\ ch' = [ch EXCEPT ![k] = kmem[r]]
          /\ kon' = [kon EXCEPT ![r] = k]
          /\ PTable!Put(r, Of(k), Row(k, kdto[r]))
          /\ Changed(r, Of(k))
    /\ kmem' = [kmem EXCEPT ![r] = None]
    /\ UNCHANGED <<zones, kbase, kdto>>

-----------------------------------------------------------------------------
(* updateConfig                                                            *)

\* Object.assign sets the columns of the body, but the entity holds its codec
\* and, where there is one, its admin group as objects: save takes the keys of
\* these columns from a relation that is loaded and ignores the columns.
Assigned(entity, body, loaded) ==
    [entity EXCEPT !.col = [c \in Columns |->
        IF body[c] = None \/ c \in loaded THEN @[c] ELSE body[c]]]

ReadConfig(r, k, body) ==
    /\ IsConfig(k)
    /\ \E loaded \in SUBSET Related :
          BeginWith(r, "updateConfig", k, Assigned(ch[k], body, loaded), body)

\* Bug: a column that is not in the body is set to what it was looked up as.
MergedBack(row, base, entity) ==
    [row EXCEPT !.col = [c \in Columns |->
        IF entity.col[c] = base.col[c] THEN entity.col[c] ELSE @[c]]]

\* save looks the row up ...
LookConfig(r) ==
    /\ Goto(r, "updateConfig", "read", "saving")
    /\ kbase' = [kbase EXCEPT ![r] = IF IsConfig(kon[r]) THEN ch[kon[r]] ELSE None]
    /\ UNCHANGED <<zones, ch, kon, kmem, kdto, perms>>

\* ... inserts it again if it was gone, or writes the columns that differ.
Merged(row, base, entity) ==
    [row EXCEPT !.col = [c \in Columns |->
        IF entity.col[c] = base.col[c] THEN @[c] ELSE entity.col[c]]]

SaveConfig(r) ==
    LET k == kon[r] IN
    /\ Goto(r, "updateConfig", "saving", "done")
    /\ IF kbase[r] = None THEN /\ ~IsConfig(k) /\ Fits(kmem[r])
                               /\ ch' = [ch EXCEPT ![k] = kmem[r]]
       ELSE IF IsConfig(k) THEN ch' = [ch EXCEPT ![k] = Merged(@, kbase[r], kmem[r])]
       ELSE UNCHANGED ch
    /\ kmem'  = [kmem  EXCEPT ![r] = None]
    /\ kbase' = [kbase EXCEPT ![r] = None]
    /\ UNCHANGED <<zones, kon, kdto, perms>>

-----------------------------------------------------------------------------
(* setConfigPermissions                                                    *)

ReadForPerms(r, k, list) ==
    IsConfig(k) /\ BeginWith(r, "setConfigPermissions", k, None, list)

PermStatement(r, from, to) == /\ Goto(r, "setConfigPermissions", from, to)
                              /\ UNCHANGED <<zones, ch, kon, kmem, kbase, kdto, plast>>

Listed(r) == {x \in Of(kon[r]) : kdto[r][x[2]] # None}
Wanted(r) == [x \in Keys |-> kdto[r][x[2]]]

\* Bug: only permissions of the body are taken out.
FindWanted(r)  == /\ PermStatement(r, "read", "deleting")
                  /\ PTable!Find(r, {x \in Listed(r) : PTable!View(r, x) # None})
FindPerms(r)   == /\ PermStatement(r, "read", "deleting")
                  /\ PTable!Find(r, {x \in Of(kon[r]) : PTable!View(r, x) # None})
DeletePerms(r) == /\ PermStatement(r, "deleting", IF Listed(r) = {} THEN "saved" ELSE "deleted")
                  /\ PTable!Delete(r, Of(kon[r]))
LookPerms(r)   == PermStatement(r, "deleted", "saving") /\ PTable!Look(r, Listed(r))

\* The foreign key to the configuration.
SavePerms(r)   == /\ PermStatement(r, "saving", "saved")
                  /\ IsConfig(kon[r])
                  /\ PTable!Save(r, Listed(r), Wanted(r))

CommitPerms(r) == /\ Goto(r, "setConfigPermissions", "saved", "done")
                  /\ PTable!Commit(r)
                  /\ Changed(r, PTable!Wrote(r))
                  /\ UNCHANGED <<zones, ch, kon, kmem, kbase, kdto>>

-----------------------------------------------------------------------------
(* deleteConfig, and ZoneService.deleteZone as far as configurations go    *)

ReadForDelete(r, k) == IsConfig(k) /\ BeginWith(r, "deleteConfig", k, None, None)

\* Bug: the permissions have no ON DELETE CASCADE.
CascadeNot(r, K) ==
    /\ ch' = [k \in Configs |-> IF k \in K THEN Gone ELSE ch[k]]
    /\ UNCHANGED perms

\* ON DELETE CASCADE to the permissions; a transaction that has written some
\* of them is waited for.
Cascade(r, K) ==
    /\ ch' = [k \in Configs |-> IF k \in K THEN Gone ELSE ch[k]]
    /\ PTable!Put(r, K \X Perms, PTable!NoRows)
    /\ Changed(r, K \X Perms)

DropConfig(r) ==
    /\ Goto(r, "deleteConfig", "read", "done")
    /\ Cascade(r, {kon[r]} \cap {k \in Configs : IsConfig(k)})
    /\ UNCHANGED <<zones, kon, kmem, kbase, kdto>>

\* A step of Settings, where crawls lose the zone too.
DropZone(r, z) ==
    /\ Begin(r, "deleteZone", "done")
    /\ z \in zones
    /\ zones' = zones \ {z}
    /\ Cascade(r, {k \in Configs : IsConfig(k) /\ ch[k].zone = z})
    /\ UNCHANGED <<kon, kmem, kbase, kdto>>

-----------------------------------------------------------------------------
\* A check, a key, a deadlock or a lost connection.
FailConfig(r) ==
    /\ Active(r)
    /\ op[r] \in {"createConfig", "updateConfig", "setConfigPermissions", "deleteConfig"}
    /\ Goto(r, op[r], pc[r], "failed")
    /\ kmem'  = [kmem  EXCEPT ![r] = None]
    /\ kbase' = [kbase EXCEPT ![r] = None]
    /\ PTable!Rollback(r)
    /\ UNCHANGED <<zones, ch, kon, kdto, plast>>

ConfigStep(r) ==
    \/ \E entity \in Config, list \in List : BeginConfig(r, entity, list)
    \/ \E k \in Configs :
          \/ \E body \in Patch : ReadConfig(r, k, body)
          \/ \E list \in List : ReadForPerms(r, k, list)
          \/ ReadForDelete(r, k)
    \/ InsertConfig(r) \/ LookConfig(r) \/ SaveConfig(r)
    \/ FindPerms(r) \/ DeletePerms(r) \/ LookPerms(r) \/ SavePerms(r) \/ CommitPerms(r)
    \/ DropConfig(r) \/ FailConfig(r)

-----------------------------------------------------------------------------
(* Properties *)

\* setConfigPermissions: once answered well, the configuration lists what the
\* body listed; where it does not, a request has changed the permission that
\* was not over when this one began.
PermissionsStand ==
    \A r \in Requests : op[r] = "setConfigPermissions" /\ pc[r] = "done" =>
        \A x \in Of(kon[r]) : perm[x] # Wanted(r)[x] => Stands(r, plast[x])

\* createConfig, deleteConfig and cascades: a zone has one configuration at
\* most and outlives it, and no permission outlives its configuration, also
\* where an update puts back a configuration that was deleted meanwhile.
ConfigsKeepZone ==
    /\ \A k \in Configs : IsConfig(k) =>
          ch[k].zone \in zones /\ \A j \in Configs \ {k} : IsConfig(j) => ch[j].zone # ch[k].zone
    /\ \A x \in Keys : perm[x] # None => IsConfig(x[1])

\* updateConfig: while no other request is under way, a PATCH that ends well
\* gives each plain column it names the value it names, and no column another,
\* though it saves them all; the key of a relation may keep the value it had.
LonePatchIsExact ==
    [][\A r \in Requests :
          /\ op[r] = "updateConfig" /\ pc[r] = "saving" /\ pc'[r] = "done"
          /\ \A q \in Requests \ {r} : pc[q] = "idle" \/ q \in before[r]
          => /\ ch'[kon[r]].zone = ch[kon[r]].zone
             /\ \A c \in Columns :
                   \/ ch'[kon[r]].col[c] = kdto[r][c]
                   \/ /\ kdto[r][c] = None \/ c \in Related
                      /\ ch'[kon[r]].col[c] = ch[kon[r]].col[c]]_kvars
=============================================================================
