---------------------------- MODULE ZonesProofs ----------------------------
(***************************************************************************)
(* Proofs about Zones for any number of groups, syncs, requests and zones. *)
(* Why there always is a default zone: the first zone ever saved has no    *)
(* group, and no request can take that away from it (the founder): whoever *)
(* has read it holds an entity without a group, so deleteZone refuses it,  *)
(* an update may not bind it, and a save writes it back as it was.         *)
(***************************************************************************)
EXTENDS SyncHistory, TLAPS

Working(r) == mem[r] # None

\* A request that got where it is because a default zone existed.
Relies(r) == /\ Working(r)
             /\ \/ op[r] # "create"
                \/ mem[r].group # None /\ pc[r] \in {"grouping", "saving"}

\* Nobody who works on zone z can change that it is an active default.
Safe(r, z) == id[r] = z /\ Working(r) =>
                  /\ op[r] = "update"
                  /\ mem[r].group = None /\ ~mem[r].dead
                  /\ pc[r] \in {"grouping", "saving"} => dto[r].group \notin Groups

Founder(z) == IsDefault(z) /\ \A r \in Requests : Safe(r, z)

NeedsFounder == \/ \E z \in ZoneIds : zone[z] # None
                \/ \E r \in Requests : Relies(r)

Founded == NeedsFounder => \E z \in ZoneIds : Founder(z)

CreatesAfresh == \A r \in Requests :
    op[r] = "create" /\ Working(r) => id[r] = None /\ ~mem[r].dead

\* What a transaction holds for deletion are zones with a group.
DoomedAreBound == \A q \in Syncs : \A z \in doomed[q] : zone[z] # None /\ zone[z].group # None

ZInv == ZonesTypeOK /\ CreatesAfresh /\ DoomedAreBound /\ Founded

USE GroupsAssumption, ZonesAssumption, ZoneAssumption

-----------------------------------------------------------------------------
\* The server has no zones and nobody works on one.
LEMMA ZInit == Init => ZInv
BY DEF Init, GroupsInit, NoBody, Body, ZInv, ZonesTypeOK, GroupsTypeOK, CreatesAfresh,
       DoomedAreBound, Founded, NeedsFounder, Relies, Working

\* A step that changes neither zones nor requests, such as one of a sync or of
\* the voice server.
LEMMA GroupsStep == ASSUME ZInv, SyncStep \/ ServerStep, UNCHANGED <<zone, requests, doomed>>
                    PROVE  ZInv'
<1>1. GroupsTypeOK'
  <2>1. CASE SyncStep
    <3>1. PICK q \in Syncs : StartSync(q) \/ ReadTable(q) \/ ReadServer(q)
                               \/ LoadForIcons(q) \/ SaveIcons(q)
          BY <2>1 DEF SyncStep
    <3>2. GroupsTypeOK
          BY DEF ZInv, ZonesTypeOK
    <3> QED BY <3>1, <3>2 DEF GroupsTypeOK, StartSync, ReadTable, ReadServer, LoadForIcons,
                              SaveIcons, Step, memory, Rows, Present, Active
  <2>2. CASE ServerStep
    BY <2>2 DEF ServerStep, ZInv, ZonesTypeOK, GroupsTypeOK, AddGroup, RemoveGroup, memory
  <2> QED BY <2>1, <2>2
<1>2. ZonesTypeOK'
      BY <1>1 DEF ZInv, ZonesTypeOK, requests
<1> QED BY <1>2 DEF ZInv, requests, CreatesAfresh, DoomedAreBound, Founded, NeedsFounder, Founder, Safe, Relies,
                    Working, IsDefault

\* A transaction is opened or rolled back: the zones stay as they are.
LEMMA TransactionStep == ASSUME ZInv, NEW q \in Syncs, CascadeGroups(q) \/ RollBack(q)
                         PROVE  ZInv'
<1>1. GroupsTypeOK'
      BY DEF ZInv, ZonesTypeOK, GroupsTypeOK, CascadeGroups, OpenPersist, HasRead, RollBack,
             SyncFails, Step, memory
<1>2. UNCHANGED <<zone, requests>>
      BY DEF CascadeGroups, RollBack
<1>3. ZonesTypeOK'
      BY <1>1, <1>2 DEF ZInv, ZonesTypeOK, CascadeGroups, ZonesOfDeleted, RollBack, requests
<1>4. DoomedAreBound'
  <2>1. None \notin ToDelete(q) \/ RollBack(q)
        BY DEF ZInv, ZonesTypeOK, GroupsTypeOK, CascadeGroups, OpenPersist, HasRead, ToDelete
  <2> QED BY <1>2, <2>1 DEF ZInv, DoomedAreBound, ZonesTypeOK, CascadeGroups, ZonesOfDeleted, RollBack
<1> QED BY <1>2, <1>3, <1>4 DEF ZInv, requests, CreatesAfresh, Founded, NeedsFounder, Founder, Safe,
                                Relies, Working, IsDefault

\* The commit of a sync spares every zone without a group.
LEMMA CommitStep == ASSUME ZInv, NEW q \in Syncs, CommitGroups(q)
                    PROVE  ZInv'
<1>1. GroupsTypeOK'
  <2>1. group' \in [Groups -> {"none", "active", "deleted"}]
        BY DEF ZInv, ZonesTypeOK, GroupsTypeOK, CommitGroups, Persist
  <2> QED BY <2>1 DEF ZInv, ZonesTypeOK, GroupsTypeOK, CommitGroups, Persist, Step, memory
<1>2. \A z \in ZoneIds :
         \/ zone'[z] = zone[z] /\ z \notin doomed[q]
         \/ zone[z] \in Zone /\ zone'[z] = [zone[z] EXCEPT !.dead = TRUE]
      BY DEF ZInv, ZonesTypeOK, DoomedAreBound, CommitGroups
<1>3. zone' \in [ZoneIds -> {None} \cup Zone]
  <2>1. \A x \in Zone : [x EXCEPT !.dead = TRUE] \in Zone
        BY DEF Zone
  <2> QED BY <1>2, <2>1 DEF ZInv, ZonesTypeOK, CommitGroups
<1>4. ZonesTypeOK'
      BY <1>1, <1>3 DEF ZInv, ZonesTypeOK, CommitGroups, requests
<1>5. \A z \in ZoneIds : /\ zone'[z] # None <=> zone[z] # None
                         /\ zone[z] # None => zone'[z].group = zone[z].group
                         /\ IsDefault(z) => zone'[z] = zone[z]
  <2> SUFFICES ASSUME NEW z \in ZoneIds
               PROVE  /\ zone'[z] # None <=> zone[z] # None
                      /\ zone[z] # None => zone'[z].group = zone[z].group
                      /\ IsDefault(z) => zone'[z] = zone[z]
      OBVIOUS
  <2>1. CASE z \in doomed[q]
    <3>1. zone[z] \in Zone /\ zone[z].group # None
          BY <2>1 DEF ZInv, ZonesTypeOK, DoomedAreBound
    <3>2. zone'[z] \in Zone /\ zone'[z].group = zone[z].group
          BY <2>1, <3>1 DEF CommitGroups, Zone
    <3> QED BY <3>1, <3>2 DEF IsDefault
  <2>2. CASE z \notin doomed[q]
        BY <2>2 DEF CommitGroups
  <2> QED BY <2>1, <2>2
<1>6. DoomedAreBound'
  <2>1. doomed' = [doomed EXCEPT ![q] = {}]
        BY DEF CommitGroups
  <2>2. \A p \in Syncs : doomed'[p] \subseteq doomed[p] /\ doomed[p] \subseteq ZoneIds
        BY <2>1 DEF ZInv, ZonesTypeOK
  <2>3. ASSUME NEW p \in Syncs, NEW z \in doomed'[p]
        PROVE  zone'[z] # None /\ zone'[z].group # None
    <3>1. z \in ZoneIds /\ zone[z] # None /\ zone[z].group # None
          BY <2>2, <2>3 DEF ZInv, DoomedAreBound
    <3> QED BY <3>1, <1>5
  <2> QED BY <2>3 DEF DoomedAreBound
<1>7. UNCHANGED <<pc, op, id, mem, dto>>
      BY DEF CommitGroups, requests
<1>8. NeedsFounder' => NeedsFounder
      BY <1>5, <1>7 DEF NeedsFounder, Relies, Working
<1>9. \A z \in ZoneIds : Founder(z) => Founder(z)'
      BY <1>5, <1>7 DEF Founder, Safe, Working, IsDefault
<1> QED BY <1>4, <1>6, <1>7, <1>8, <1>9 DEF ZInv, CreatesAfresh, Working, Founded

\* A request that begins to work on a zone has read it as it is.
LEMMA BeginStep ==
    ASSUME ZInv, NEW r \in Requests,
           \/ \E g \in Groups \cup {None} : BeginCreate(r, g)
           \/ \E z \in ZoneIds, body \in Body : BeginUpdate(r, z, body)
           \/ \E z \in ZoneIds : BeginDelete(r, z)
    PROVE  ZInv'
<1>1. CASE \E g \in Groups \cup {None} : BeginCreate(r, g)
  <2>1. PICK g \in Groups \cup {None} : BeginCreate(r, g)
        BY <1>1
  <2>2. /\ [group |-> g, dead |-> FALSE] \in Zone
        /\ NoBody \in Body
        BY DEF Zone, NoBody, Body
  <2>3. ZonesTypeOK'
    <3>1. GroupsTypeOK' /\ zone' \in [ZoneIds -> {None} \cup Zone]
          BY <2>1 DEF BeginCreate, Begin, gvars, ZInv, ZonesTypeOK, GroupsTypeOK
    <3>2. mem' \in [Requests -> {None} \cup Zone] /\ dto' \in [Requests -> Body]
          BY <2>1, <2>2 DEF BeginCreate, Begin, ZInv, ZonesTypeOK
    <3>3. mem'[r] # None
          BY <2>1, <2>2 DEF BeginCreate, Begin, ZInv, ZonesTypeOK
    <3> QED BY <2>1, <3>1, <3>2, <3>3 DEF BeginCreate, Begin, ZInv, ZonesTypeOK
  <2>4. CreatesAfresh'
        BY <2>1, <2>2 DEF BeginCreate, Begin, ZInv, ZonesTypeOK, CreatesAfresh, Working
  <2>5. Founded'
        BY <2>1, <2>2 DEF BeginCreate, Begin, ZInv, ZonesTypeOK, Founded, NeedsFounder, Founder,
                          Safe, Relies, Working, IsDefault
  <2>6. DoomedAreBound'
        BY <2>1 DEF BeginCreate, Begin, ZInv, DoomedAreBound
  <2> QED BY <2>3, <2>4, <2>5, <2>6 DEF ZInv
<1>2. CASE \E z \in ZoneIds, body \in Body : BeginUpdate(r, z, body)
  <2>1. PICK z \in ZoneIds, body \in Body : BeginUpdate(r, z, body)
        BY <1>2
  <2>2. ZonesTypeOK'
        BY <2>1 DEF BeginUpdate, Begin, gvars, ZInv, ZonesTypeOK, GroupsTypeOK
  <2>3. CreatesAfresh'
        BY <2>1 DEF BeginUpdate, Begin, ZInv, ZonesTypeOK, CreatesAfresh, Working
  <2>4. PICK f \in ZoneIds : Founder(f)
        BY <2>1 DEF BeginUpdate, ZInv, Founded, NeedsFounder
  <2>5. Founder(f)'
        BY <2>1, <2>4 DEF BeginUpdate, Begin, ZInv, ZonesTypeOK, Founder, Safe, Working, IsDefault
  <2>6. DoomedAreBound'
        BY <2>1 DEF BeginUpdate, Begin, ZInv, DoomedAreBound
  <2> QED BY <2>2, <2>3, <2>5, <2>6 DEF ZInv, Founded
<1>3. CASE \E z \in ZoneIds : BeginDelete(r, z)
  <2>1. PICK z \in ZoneIds : BeginDelete(r, z)
        BY <1>3
  <2>2. ZonesTypeOK'
        BY <2>1 DEF BeginDelete, Begin, gvars, ZInv, ZonesTypeOK, GroupsTypeOK, NoBody, Body
  <2>3. CreatesAfresh'
        BY <2>1 DEF BeginDelete, Begin, ZInv, ZonesTypeOK, CreatesAfresh, Working
  <2>4. PICK f \in ZoneIds : Founder(f)
        BY <2>1 DEF BeginDelete, ZInv, Founded, NeedsFounder
  <2>5. Founder(f)'
        BY <2>1, <2>4 DEF BeginDelete, Begin, ZInv, ZonesTypeOK, Founder, Safe, Working, IsDefault
  <2>6. DoomedAreBound'
        BY <2>1 DEF BeginDelete, Begin, ZInv, DoomedAreBound
  <2> QED BY <2>2, <2>3, <2>5, <2>6 DEF ZInv, Founded
<1> QED BY <1>1, <1>2, <1>3

\* A check changes nothing but where a request is.
LEMMA CheckStep ==
    ASSUME ZInv, NEW r \in Requests,
           NamedCreate(r) \/ NamedUpdate(r) \/ HasDefault(r) \/ ValidateGroup(r)
    PROVE  ZInv'
<1>1. UNCHANGED <<gvars, zone, op, id, mem, dto, doomed>>
      BY DEF NamedCreate, NamedUpdate, HasDefault, ValidateGroup, Goto
<1>2. PICK to \in {"defaulting", "grouping", "saving"} :
          /\ pc[r] \in {"naming", "defaulting", "grouping"}
          /\ pc' = [pc EXCEPT ![r] = to]
      BY DEF NamedCreate, NamedUpdate, HasDefault, ValidateGroup, Goto
<1>3. ZonesTypeOK'
  <2>1. to = "defaulting" => op[r] = "create"
        BY <1>2 DEF NamedCreate, NamedUpdate, HasDefault, ValidateGroup, Goto, ZInv, ZonesTypeOK
  <2>2. mem[r] # None
        BY <1>2 DEF ZInv, ZonesTypeOK
  <2> QED BY <1>1, <1>2, <2>1, <2>2 DEF gvars, ZInv, ZonesTypeOK, GroupsTypeOK
<1>4. CreatesAfresh'
      BY <1>1 DEF ZInv, CreatesAfresh, Working
<1>5. Relies(r)' => NeedsFounder
      BY <1>1 DEF NamedCreate, NamedUpdate, HasDefault, ValidateGroup, Goto, ZInv, ZonesTypeOK,
                  NeedsFounder, Relies, Working, DefaultZoneExists, IsDefault
<1>6. NeedsFounder' => NeedsFounder
      BY <1>1, <1>2, <1>5 DEF ZInv, ZonesTypeOK, NeedsFounder, Relies, Working
<1>7. ASSUME NEW z \in ZoneIds, Founder(z)
      PROVE  Founder(z)'
  <2>1. \A p \in Requests \ {r} : Safe(p, z)'
        BY <1>1, <1>2, <1>7 DEF ZInv, ZonesTypeOK, Founder, Safe, Working
  <2>2. id[r] = z /\ Working(r) => NamedUpdate(r) \/ pc[r] = "grouping"
        BY <1>7 DEF Founder, Safe, NamedCreate, HasDefault, ValidateGroup, Goto, ZInv,
                    ZonesTypeOK, CreatesAfresh, Working
  <2>3. Safe(r, z)'
        BY <1>1, <1>7, <2>2 DEF NamedUpdate, Binds, Founder, Safe, Working
  <2> QED BY <1>1, <1>7, <2>1, <2>3 DEF Founder, IsDefault
<1> QED BY <1>1, <1>3, <1>4, <1>6, <1>7 DEF ZInv, Founded, DoomedAreBound

\* A write by somebody who did not create leaves the founder an active default.
LEMMA WriteStep ==
    ASSUME ZInv, NEW r \in Requests, SaveOld(r) \/ DeleteRow(r) \/ Refuse(r)
    PROVE  ZInv'
<1>1. /\ pc[r] \in {"naming", "defaulting", "grouping", "saving", "deleting"}
      /\ mem[r] \in Zone /\ dto[r] \in Body
      BY DEF SaveOld, DeleteRow, Refuse, ZInv, ZonesTypeOK
<1>2. /\ UNCHANGED <<gvars, op, id, doomed>>
      /\ mem' = [mem EXCEPT ![r] = None]
      /\ dto' = [dto EXCEPT ![r] = NoBody]
      /\ \E o \in {"done", "ended"} : pc' = [pc EXCEPT ![r] = o]
      BY DEF SaveOld, DeleteRow, Refuse, Finish
<1>3. Applied(mem[r], dto[r]) \in Zone
      BY <1>1 DEF Applied, Zone, Body
<1>4. zone' \in [ZoneIds -> {None} \cup Zone]
      BY <1>3 DEF SaveOld, DeleteRow, Refuse, ZInv, ZonesTypeOK
<1>5. ZonesTypeOK'
      BY <1>2, <1>4 DEF gvars, ZInv, ZonesTypeOK, GroupsTypeOK, NoBody, Body
<1>6. CreatesAfresh'
      BY <1>2 DEF ZInv, ZonesTypeOK, CreatesAfresh, Working
<1>7. NeedsFounder' => NeedsFounder
  <2>1. \A p \in Requests : Relies(p)' => Relies(p)
        BY <1>2 DEF ZInv, ZonesTypeOK, Relies, Working
  <2>2. CASE SaveOld(r)
        BY <2>2, <1>1 DEF SaveOld, NeedsFounder, Relies, Working
  <2>3. CASE DeleteRow(r) \/ Refuse(r)
        BY <2>1, <2>3 DEF DeleteRow, Refuse, ZInv, ZonesTypeOK, NeedsFounder
  <2> QED BY <2>2, <2>3
<1>8. ASSUME NEW z \in ZoneIds, Founder(z)
      PROVE  Founder(z)'
  <2>1. Safe(r, z)
        BY <1>8 DEF Founder
  <2>2. IsDefault(z)'
    <3>1. CASE SaveOld(r)
          BY <3>1, <2>1, <1>1, <1>3, <1>8 DEF SaveOld, Safe, Working, Founder, IsDefault, Applied,
             Body, ZInv, ZonesTypeOK
    <3>2. CASE DeleteRow(r)
          BY <3>2, <2>1, <1>1, <1>8 DEF DeleteRow, Safe, Working, Founder, IsDefault, ZInv,
             ZonesTypeOK
    <3>3. CASE Refuse(r)
          BY <3>3, <1>8 DEF Refuse, Founder, IsDefault
    <3> QED BY <3>1, <3>2, <3>3
  <2>3. \A p \in Requests : Safe(p, z)'
        BY <1>2, <1>8 DEF Founder, Safe, Working, ZInv, ZonesTypeOK
  <2> QED BY <2>2, <2>3 DEF Founder
<1>9. DoomedAreBound'
      BY <1>2 DEF ZInv, ZonesTypeOK, DoomedAreBound, SaveOld, DeleteRow, Refuse, Unlocked
<1> QED BY <1>5, <1>6, <1>7, <1>8, <1>9 DEF ZInv, Founded

\* The zone a request saves is a founder, unless the request relies on one.
LEMMA SaveNewStep == ASSUME ZInv, NEW r \in Requests, SaveNew(r)
                     PROVE  ZInv'
<1>1. PICK n \in Fresh : /\ zone' = [zone EXCEPT ![n] = mem[r]]
                         /\ id'   = [id EXCEPT ![r] = n]
      BY DEF SaveNew
<1>2. /\ n \in ZoneIds /\ zone[n] = None
      /\ \A p \in Requests : id[p] # n
      BY DEF Fresh
<1>3. /\ pc[r] = "saving" /\ op[r] = "create" /\ mem[r] \in Zone
      /\ ~mem[r].dead
      BY DEF SaveNew, ZInv, ZonesTypeOK, CreatesAfresh, Working
<1>4. /\ UNCHANGED <<gvars, op, doomed>>
      /\ mem' = [mem EXCEPT ![r] = None]
      /\ dto' = [dto EXCEPT ![r] = NoBody]
      /\ pc'  = [pc EXCEPT ![r] = "done"]
      BY DEF SaveNew, Finish
<1>5. ZonesTypeOK'
      BY <1>1, <1>2, <1>3, <1>4 DEF gvars, ZInv, ZonesTypeOK, GroupsTypeOK, NoBody, Body
<1>6. CreatesAfresh'
      BY <1>1, <1>4 DEF ZInv, ZonesTypeOK, CreatesAfresh, Working
<1>7. \E z \in ZoneIds : Founder(z)'
  <2>1. CASE mem[r].group = None
    <3>1. IsDefault(n)'
          BY <2>1, <1>1, <1>2, <1>3 DEF IsDefault, ZInv, ZonesTypeOK
    <3>2. \A p \in Requests : Safe(p, n)'
          BY <1>1, <1>2, <1>4 DEF Safe, Working, ZInv, ZonesTypeOK
    <3> QED BY <1>2, <3>1, <3>2 DEF Founder
  <2>2. CASE mem[r].group # None
    <3>1. Relies(r)
          BY <2>2, <1>3 DEF Relies, Working
    <3>2. PICK f \in ZoneIds : Founder(f)
          BY <3>1 DEF ZInv, Founded, NeedsFounder
    <3>3. f # n
          BY <3>2, <1>2 DEF Founder, IsDefault
    <3>4. IsDefault(f)'
          BY <3>2, <3>3, <1>1 DEF Founder, IsDefault, ZInv, ZonesTypeOK
    <3>5. \A p \in Requests : Safe(p, f)'
          BY <3>2, <3>3, <1>1, <1>4 DEF Founder, Safe, Working, ZInv, ZonesTypeOK
    <3> QED BY <3>4, <3>5 DEF Founder
  <2> QED BY <2>1, <2>2
<1>8. DoomedAreBound'
      BY <1>1, <1>2, <1>4 DEF ZInv, ZonesTypeOK, DoomedAreBound
<1> QED BY <1>5, <1>6, <1>7, <1>8 DEF ZInv, Founded

-----------------------------------------------------------------------------
\* Every step of the zones and of the syncs keeps the invariant.
LEMMA ZNext == ZInv /\ [Next]_zvars => ZInv'
<1> SUFFICES ASSUME ZInv, [Next]_zvars PROVE ZInv'
    OBVIOUS
<1>1. CASE UNCHANGED zvars
  BY <1>1 DEF zvars, gvars, requests, ZInv, ZonesTypeOK, GroupsTypeOK, CreatesAfresh,
              DoomedAreBound, Founded, NeedsFounder, Founder, Safe, Relies, Working, IsDefault
<1>2. CASE (SyncStep \/ ServerStep) /\ UNCHANGED <<zone, requests, doomed>>
  BY <1>2, GroupsStep
<1>3. CASE \E q \in Syncs : CascadeGroups(q) \/ CommitGroups(q) \/ RollBack(q)
  BY <1>3, TransactionStep, CommitStep
<1>4. CASE RequestStep
  BY <1>4, BeginStep, CheckStep, WriteStep, SaveNewStep DEF RequestStep
<1> QED BY <1>1, <1>2, <1>3, <1>4 DEF Next

\* The founder invariant holds throughout.
THEOREM ZonesInvariance == Spec => []ZInv
BY ZInit, ZNext, PTL DEF Spec

\* Every table, snapshot and suspended request has the shape the module says.
THEOREM ZonesTypeCorrect == Spec => []ZonesTypeOK
<1>1. ZInv => ZonesTypeOK
      BY DEF ZInv
<1> QED BY <1>1, ZonesInvariance, PTL

\* createZone, updateZone and deleteZone: a server that has zones always has an
\* active default zone, however requests and group syncs interleave.
THEOREM DefaultRemains == Spec => []ZonesHaveDefault
<1>1. ZInv => ZonesHaveDefault
      BY DEF ZInv, Founded, NeedsFounder, Founder, ZonesHaveDefault, DefaultZoneExists
<1> QED BY <1>1, ZonesInvariance, PTL

-----------------------------------------------------------------------------
(* A sync that has had the table to itself                                 *)

Alone(q) == \A p \in Syncs \ {q} : spc[p] = "idle"

\* What such a sync knows of the table is true of it.
Exact(q) ==
    /\ spc[q] \in {"idle", "reading", "persisting"} /\ known[q] # None => known[q] = Rows
    /\ spc[q] \in {"icons", "saving", "done"} => Active = found[q]
    /\ spc[q] = "saving" => loaded[q] = Active

LoneInv == \A q \in Syncs : Alone(q) => Exact(q)

\* The steps of a sync keep its own knowledge exact, and no other sync moves.
LEMMA LoneStep ==
    ASSUME GroupsTypeOK, LoneInv,
           \/ SyncStep \/ ServerStep
           \/ \E q \in Syncs : OpenPersist(q) \/ Persist(q) \/ SyncFails(q)
    PROVE  LoneInv'
<1> SUFFICES ASSUME NEW q \in Syncs, Alone(q)'
             PROVE  Exact(q)'
    BY DEF LoneInv
<1>1. CASE ServerStep
  BY <1>1 DEF ServerStep, AddGroup, RemoveGroup, memory, LoneInv, Alone, Exact, Rows, Active
<1>2. CASE ~ServerStep
  <2>1. PICK p \in Syncs : \/ StartSync(p) \/ ReadTable(p) \/ ReadServer(p)
                           \/ OpenPersist(p) \/ Persist(p)
                           \/ LoadForIcons(p) \/ SaveIcons(p) \/ SyncFails(p)
        BY <1>2 DEF SyncStep
  <2>2. spc[p] \notin {"done", "failed"}
        BY <2>1 DEF StartSync, ReadTable, ReadServer, OpenPersist, Persist, HasRead, LoadForIcons, SaveIcons,
                    SyncFails, Step
  <2>3. CASE p = q
    <3>1. Alone(q)
          BY <2>1, <2>3 DEF Alone, StartSync, ReadTable, ReadServer, OpenPersist, Persist, LoadForIcons,
                            SaveIcons, SyncFails, Step, GroupsTypeOK
    <3>2. Exact(q)
          BY <3>1 DEF LoneInv
    <3>3. CASE StartSync(q)
          BY <3>2, <3>3 DEF StartSync, Step, memory, Exact, Rows, Active, GroupsTypeOK
    <3>4. CASE ReadTable(q)
          BY <3>2, <3>4 DEF ReadTable, Exact, Rows, Active, GroupsTypeOK
    <3>5. CASE ReadServer(q)
          BY <3>2, <3>5 DEF ReadServer, Exact, Rows, Active, GroupsTypeOK
    <3>6. CASE Persist(q)
      <4>1. /\ known[q] = Rows
            /\ known[q] \subseteq Groups /\ found[q] \subseteq Groups
            BY <3>2, <3>6 DEF Persist, Step, Exact, GroupsTypeOK
      <4>2. \A g \in Groups : group'[g] = "active" <=> g \in found[q]
            BY <3>6, <4>1 DEF Persist, ToDelete, ToSave, ToInsert, Rows
      <4>3. Active' = found[q]
            BY <4>1, <4>2 DEF Active
      <4> QED BY <3>6, <4>3 DEF Persist, Step, memory, Exact, GroupsTypeOK
    <3>7. CASE LoadForIcons(q)
          BY <3>2, <3>7 DEF LoadForIcons, Step, Exact, Rows, Active, GroupsTypeOK
    <3>8. CASE SaveIcons(q)
      <4>1. \A g \in Groups : group'[g] = "active" <=> group[g] = "active"
            BY <3>2, <3>8 DEF SaveIcons, Step, Exact, Active
      <4> QED BY <3>2, <3>8, <4>1 DEF SaveIcons, Step, memory, Exact, Active, GroupsTypeOK
    <3>9. CASE SyncFails(q)
          BY <3>9 DEF SyncFails, Exact, GroupsTypeOK
    <3>10. CASE OpenPersist(q)
          BY <3>2, <3>10 DEF OpenPersist, HasRead, Step, memory, Exact, Rows, Active, GroupsTypeOK
    <3> QED BY <2>1, <2>3, <3>3, <3>4, <3>5, <3>6, <3>7, <3>8, <3>9, <3>10
  <2>4. CASE p # q
    <3>1. spc'[p] = "idle"
          BY <2>4 DEF Alone
    <3> QED BY <2>1, <2>2, <3>1 DEF StartSync, ReadTable, ReadServer, OpenPersist, Persist, HasRead,
               LoadForIcons, SaveIcons, SyncFails, Step, memory, GroupsTypeOK
  <2> QED BY <2>3, <2>4
<1> QED BY <1>1, <1>2

\* syncGroups: a sync that no other has overlapped leaves as active rows exactly
\* the groups the bot told it of.
THEOREM SyncIsExact == Spec => []LoneSyncIsExact
<1>1. Init => LoneInv
      BY DEF Init, GroupsInit, LoneInv, Exact
<1>2. ZonesTypeOK /\ LoneInv /\ [Next]_zvars => LoneInv'
  <2> SUFFICES ASSUME ZonesTypeOK, LoneInv, [Next]_zvars PROVE LoneInv'
      OBVIOUS
  <2>1. CASE \/ SyncStep \/ ServerStep
             \/ \E q \in Syncs : CascadeGroups(q) \/ CommitGroups(q) \/ RollBack(q)
        BY <2>1, LoneStep DEF ZonesTypeOK, CascadeGroups, CommitGroups, RollBack
  <2>2. CASE UNCHANGED gvars
        BY <2>2 DEF gvars, LoneInv, Alone, Exact, Rows, Active
  <2>3. RequestStep => UNCHANGED gvars
        BY DEF RequestStep, BeginCreate, BeginUpdate, BeginDelete, Begin, NamedCreate, NamedUpdate,
               HasDefault, ValidateGroup, Goto, SaveNew, SaveOld, DeleteRow, Refuse, Finish
  <2> QED BY <2>1, <2>2, <2>3 DEF Next, zvars
<1>3. LoneInv => LoneSyncIsExact
      BY DEF LoneInv, LoneSyncIsExact, Alone, Exact
<1> QED BY <1>1, <1>2, <1>3, ZonesTypeCorrect, PTL DEF Spec

-----------------------------------------------------------------------------
(* When the deletion of a group stands.  Whoever has overlapped nobody has  *)
(* seen the table and the voice server as they are: what it does not find   *)
(* is gone for good, and whoever begins after it will not find it either.   *)

SyncMove(p) == \/ StartSync(p) \/ ReadTable(p) \/ ReadServer(p)
               \/ OpenPersist(p) \/ Persist(p) \/ LoadForIcons(p) \/ SaveIcons(p)
               \/ SyncFails(p)

HistoryTypeOK == /\ earlier  \in [Syncs -> SUBSET Syncs]
                 /\ deleters \in [Groups -> SUBSET Syncs]

\* What a sync has read, it has read of groups that have been there.
Snapshots ==
    \A q \in Syncs :
        /\ earlier[q] \subseteq EndedSyncs \ {q}
        /\ spc[q] = "idle" => known[q] = None /\ found[q] = None
        /\ spc[q] \in {"idle", "reading", "persisting", "icons"} => loaded[q] = {}
        /\ known[q] # None => known[q] \subseteq Rows
        /\ found[q] # None => \A g \in found[q] : ts[g] # "unborn"
        /\ loaded[q] \subseteq Rows

Unborn == \A g \in Groups : ts[g] = "unborn" => group[g] = "none"

\* What a sync that has overlapped nobody does not find is gone, or new.
LoneReads ==
    \A p \in Syncs :
        spc[p] \in {"reading", "persisting"} /\ ~Overlapped(p) /\ found[p] # None =>
            \A g \in Groups \ found[p] : ts[g] = "gone" \/ group[g] = "none"

\* What such a sync has deleted, nobody who is not over will write back.
LoneDeletes ==
    \A g \in Groups : \A d \in deleters[g] :
        /\ spc[d] \notin {"idle", "reading", "persisting"}
        /\ ~Overlapped(d) =>
              /\ group[g] = "deleted" /\ ts[g] = "gone"
              /\ \A q \in Syncs \ earlier[d] :
                    g \notin loaded[q] /\ (found[q] # None => g \notin found[q])

HInv == HistoryTypeOK /\ Snapshots /\ Unborn /\ LoneReads /\ LoneDeletes

LEMMA HistoryInit == HInit => ZInv /\ HInv
<1> SUFFICES ASSUME HInit PROVE ZInv /\ HInv
    OBVIOUS
<1>1. ZInv
      BY ZInit DEF HInit
<1>2. HInv
      BY DEF HInit, Init, GroupsInit, HInv, HistoryTypeOK, Snapshots, Unborn, LoneReads, LoneDeletes
<1> QED BY <1>1, <1>2

\* A step of sync p is no step of another, and ends no overlap.  Of the syncs
\* that have overlapped nobody, only p itself may still be at work.
LEMMA MoveFacts ==
    ASSUME GroupsTypeOK, HInv, NEW p \in Syncs, SyncMove(p), HNext
    PROVE  /\ \A q \in Syncs \ {p} :
                 /\ spc'[q] = spc[q] /\ earlier'[q] = earlier[q]
                 /\ known'[q] = known[q] /\ found'[q] = found[q] /\ loaded'[q] = loaded[q]
           /\ p \notin EndedSyncs /\ spc'[p] # "idle"
           /\ spc[p] # "idle" => earlier'[p] = earlier[p]
           /\ spc[p] = "idle" => earlier'[p] = EndedSyncs
           /\ EndedSyncs \subseteq EndedSyncs'
           /\ \A q \in Syncs : spc[q] # "idle" /\ ~Overlapped(q)' => ~Overlapped(q)
           /\ \A q \in Syncs \ {p} : spc[q] # "idle" /\ ~Overlapped(q)' => q \in EndedSyncs
<1> USE DEF SyncMove, StartSync, ReadTable, ReadServer, OpenPersist, Persist, HasRead, LoadForIcons, SaveIcons,
            SyncFails, Step, memory
<1>1. \A q \in Syncs \ {p} :
         /\ spc'[q] = spc[q]
         /\ known'[q] = known[q] /\ found'[q] = found[q] /\ loaded'[q] = loaded[q]
      BY DEF GroupsTypeOK
<1>2. spc[p] \notin {"done", "failed"} /\ spc'[p] # "idle"
      BY DEF GroupsTypeOK
<1> USE DEF EndedSyncs
<1>3. /\ \A q \in Syncs \ {p} : earlier'[q] = earlier[q]
      /\ spc[p] # "idle" => earlier'[p] = earlier[p]
      /\ spc[p] = "idle" => earlier'[p] = EndedSyncs
      BY <1>1, <1>2 DEF HNext
<1>4. EndedSyncs \subseteq EndedSyncs'
      BY <1>1, <1>2
<1>5. \A q \in Syncs : earlier[q] \subseteq EndedSyncs
      BY DEF HInv, Snapshots
<1>6. ASSUME NEW q \in Syncs, spc[q] # "idle", Overlapped(q)
      PROVE  Overlapped(q)'
  <2>1. PICK s \in Syncs \ {q} : spc[s] # "idle" /\ s \notin earlier[q] /\ q \notin earlier[s]
        BY <1>6 DEF Overlapped
  <2>2. spc'[s] # "idle" /\ earlier'[q] = earlier[q] /\ earlier'[s] = earlier[s]
        BY <2>1, <1>1, <1>2, <1>3, <1>6
  <2> QED BY <2>1, <2>2 DEF Overlapped
<1>7. ASSUME NEW q \in Syncs \ {p}, spc[q] # "idle", ~Overlapped(q)'
      PROVE  q \in EndedSyncs
  <2>1. p \in earlier'[q] \/ q \in earlier'[p]
        BY <1>2, <1>7 DEF Overlapped
  <2>2. p \notin earlier'[q]
        BY <1>2, <1>3, <1>5, <1>7
  <2> QED BY <2>1, <2>2, <1>3, <1>5
<1> QED BY <1>1, <1>2, <1>3, <1>4, <1>6, <1>7

LEMMA SyncKeepsHistory ==
    ASSUME GroupsTypeOK, HInv, NEW p \in Syncs, SyncMove(p), HNext
    PROVE  HInv'
<1>1. /\ \A q \in Syncs \ {p} :
            /\ spc'[q] = spc[q] /\ earlier'[q] = earlier[q]
            /\ known'[q] = known[q] /\ found'[q] = found[q] /\ loaded'[q] = loaded[q]
      /\ p \notin EndedSyncs /\ spc'[p] # "idle"
      /\ spc[p] # "idle" => earlier'[p] = earlier[p]
      /\ spc[p] = "idle" => earlier'[p] = EndedSyncs
      /\ EndedSyncs \subseteq EndedSyncs'
      /\ \A q \in Syncs : spc[q] # "idle" /\ ~Overlapped(q)' => ~Overlapped(q)
      /\ \A q \in Syncs \ {p} : spc[q] # "idle" /\ ~Overlapped(q)' => q \in EndedSyncs
      BY MoveFacts
<1>2. ts' = ts
      BY DEF SyncMove, StartSync, ReadTable, ReadServer, OpenPersist, Persist, LoadForIcons, SaveIcons, SyncFails
<1>3. Rows \subseteq Rows'
      BY DEF SyncMove, StartSync, ReadTable, ReadServer, OpenPersist, Persist, LoadForIcons, SaveIcons, SyncFails,
             Rows, GroupsTypeOK
<1>4. HistoryTypeOK'
      BY DEF HInv, HistoryTypeOK, HNext, EndedSyncs
<1>5. Snapshots'
  <2> SUFFICES ASSUME NEW q \in Syncs
               PROVE  /\ earlier'[q] \subseteq EndedSyncs' \ {q}
                      /\ spc'[q] = "idle" => known'[q] = None /\ found'[q] = None
                      /\ spc'[q] \in {"idle", "reading", "persisting", "icons"} => loaded'[q] = {}
                      /\ known'[q] # None => known'[q] \subseteq Rows'
                      /\ found'[q] # None => \A g \in found'[q] : ts'[g] # "unborn"
                      /\ loaded'[q] \subseteq Rows'
      BY DEF Snapshots
  <2>1. earlier'[q] \subseteq EndedSyncs' \ {q}
        BY <1>1 DEF HInv, Snapshots
  <2>2. CASE q # p
        BY <2>1, <2>2, <1>1, <1>2, <1>3 DEF HInv, Snapshots
  <2>3. CASE q = p
    <3>1. spc'[p] \in {"reading", "persisting", "icons"} => loaded'[p] = {}
          BY DEF HInv, Snapshots, GroupsTypeOK, SyncMove, StartSync, ReadTable, ReadServer, OpenPersist, Persist,
                 HasRead, LoadForIcons, SaveIcons, SyncFails, Step, memory
    <3>2. known'[p] # None => known'[p] \subseteq Rows'
          BY <1>3 DEF HInv, Snapshots, GroupsTypeOK, SyncMove, StartSync, ReadTable, ReadServer, OpenPersist, Persist,
                 HasRead, LoadForIcons, SaveIcons, SyncFails, Step, memory
    <3>3. found'[p] # None => \A g \in found'[p] : ts'[g] # "unborn"
          BY <1>2 DEF HInv, Snapshots, GroupsTypeOK, SyncMove, StartSync, ReadTable, ReadServer, OpenPersist, Persist,
                 LoadForIcons, SaveIcons, SyncFails, memory, Present
    <3>4. loaded'[p] \subseteq Rows'
      <4>1. loaded'[p] = loaded[p] \/ LoadForIcons(p)
            BY DEF SyncMove, StartSync, ReadTable, ReadServer, OpenPersist, Persist, SaveIcons, SyncFails, memory
      <4>2. LoadForIcons(p) => loaded'[p] = Active /\ Active \subseteq Rows
            BY DEF LoadForIcons, Active, Rows, GroupsTypeOK
      <4> QED BY <4>1, <4>2, <1>3 DEF HInv, Snapshots
    <3> QED BY <2>1, <2>3, <3>1, <3>2, <3>3, <3>4, <1>1
  <2> QED BY <2>2, <2>3
<1>6. Unborn'
  <2> SUFFICES ASSUME NEW g \in Groups, ts[g] = "unborn"
               PROVE  group'[g] = "none"
      BY <1>2 DEF Unborn
  <2>1. group[g] = "none" /\ g \notin Rows
        BY DEF HInv, Unborn, Rows
  <2>2. CASE Persist(p)
        BY <2>1, <2>2 DEF HInv, Snapshots, Persist, Step, ToDelete, ToSave, ToInsert, GroupsTypeOK
  <2>3. CASE SaveIcons(p)
        BY <2>1, <2>3 DEF HInv, Snapshots, SaveIcons
  <2>4. CASE UNCHANGED group
        BY <2>1, <2>4
  <2> QED BY <2>2, <2>3, <2>4 DEF SyncMove, StartSync, ReadTable, ReadServer, OpenPersist,
                                   LoadForIcons, SyncFails
<1>7. LoneReads'
  <2> SUFFICES ASSUME NEW q \in Syncs, spc'[q] \in {"reading", "persisting"}, ~Overlapped(q)', found'[q] # None,
                      NEW g \in Groups \ found'[q]
               PROVE  ts[g] = "gone" \/ group'[g] = "none"
      BY <1>2 DEF LoneReads
  <2>1. q = p
        BY <1>1 DEF EndedSyncs
  <2>2. UNCHANGED group /\ (StartSync(p) \/ ReadTable(p) \/ ReadServer(p) \/ OpenPersist(p))
        BY <2>1 DEF SyncMove, StartSync, ReadTable, ReadServer, OpenPersist, Persist, LoadForIcons, SaveIcons,
                    SyncFails, Step, GroupsTypeOK
  <2>3. CASE StartSync(p)
        BY <2>1, <2>3 DEF StartSync, Step, memory, HInv, Snapshots
  <2>4. CASE ReadTable(p) \/ OpenPersist(p)
        BY <2>1, <2>2, <2>4, <1>1 DEF ReadTable, OpenPersist, HasRead, memory, HInv, LoneReads
  <2>5. CASE ReadServer(p)
    <3>1. ts[g] # "present"
          BY <2>1, <2>5 DEF ReadServer, Present, GroupsTypeOK
    <3>2. ts[g] \in {"unborn", "gone"}
          BY <3>1 DEF GroupsTypeOK
    <3> QED BY <2>2, <3>2 DEF HInv, Unborn
  <2> QED BY <2>2, <2>3, <2>4, <2>5
<1>8. LoneDeletes'
  <2> SUFFICES ASSUME NEW g \in Groups, NEW d \in deleters'[g]
               PROVE  /\ spc'[d] \notin {"idle", "reading", "persisting"}
                      /\ ~Overlapped(d)' =>
                            /\ group'[g] = "deleted" /\ ts[g] = "gone"
                            /\ \A q \in Syncs \ earlier'[d] :
                                  g \notin loaded'[q] /\ (found'[q] # None => g \notin found'[q])
      BY <1>2 DEF LoneDeletes
  <2>0. d \in Syncs
        BY <1>4 DEF HistoryTypeOK
  \* p deletes the group.
  <2>1. CASE group[g] # "deleted" /\ group'[g] = "deleted"
    <3>1. d = p
          BY <2>0, <2>1, <1>1 DEF HNext
    <3>2. Persist(p) /\ g \in ToDelete(p)
          BY <2>1 DEF SyncMove, StartSync, ReadTable, ReadServer, OpenPersist, Persist, LoadForIcons, SaveIcons,
                      SyncFails, GroupsTypeOK
    <3>3. /\ spc[p] = "persisting" /\ spc'[p] = "icons"
          /\ found'[p] = found[p] /\ loaded'[p] = loaded[p]
          BY <3>2 DEF Persist, HasRead, Step, memory, GroupsTypeOK
    <3>4. found[p] # None /\ g \notin found[p] /\ group[g] # "none"
          BY <3>2 DEF Persist, Step, ToDelete, HInv, Snapshots, Rows, GroupsTypeOK
    <3>5. SUFFICES ASSUME ~Overlapped(p)'
                   PROVE  /\ ts[g] = "gone"
                          /\ \A q \in Syncs \ earlier'[p] :
                                g \notin loaded'[q] /\ (found'[q] # None => g \notin found'[q])
          BY <2>1, <3>1, <3>3
    <3>6. ts[g] = "gone"
          BY <3>3, <3>4, <3>5, <1>1 DEF HInv, LoneReads
    <3>7. ASSUME NEW q \in Syncs \ earlier'[p]
          PROVE  g \notin loaded'[q] /\ (found'[q] # None => g \notin found'[q])
      <4>1. CASE q = p
            BY <4>1, <3>3, <3>4 DEF HInv, Snapshots
      <4>2. CASE q # p
        <5>1. p \notin earlier'[q]
              BY <4>2, <1>1 DEF HInv, Snapshots
        <5>2. spc'[q] = "idle"
              BY <4>2, <5>1, <3>5, <3>7 DEF Overlapped
        <5> QED BY <4>2, <5>2, <1>1 DEF HInv, Snapshots
      <4> QED BY <4>1, <4>2
    <3> QED BY <3>6, <3>7
  \* The group has been deleted before.
  <2>2. CASE ~(group[g] # "deleted" /\ group'[g] = "deleted")
    <3>1. d \in deleters[g]
          BY <2>2 DEF HNext
    <3>2. spc[d] \notin {"idle", "reading", "persisting"}
          BY <3>1 DEF HInv, LoneDeletes
    <3>3. spc'[d] \notin {"idle", "reading", "persisting"}
          BY <3>2, <2>0, <1>1 DEF SyncMove, StartSync, ReadTable, ReadServer, OpenPersist, Persist, LoadForIcons,
                                  SaveIcons, SyncFails, HasRead, Step, GroupsTypeOK
    <3>4. SUFFICES ASSUME ~Overlapped(d)'
                   PROVE  /\ group'[g] = "deleted" /\ ts[g] = "gone"
                          /\ \A q \in Syncs \ earlier'[d] :
                                g \notin loaded'[q] /\ (found'[q] # None => g \notin found'[q])
          BY <3>3
    <3>5. /\ group[g] = "deleted" /\ ts[g] = "gone"
          /\ \A q \in Syncs \ earlier[d] :
                g \notin loaded[q] /\ (found[q] # None => g \notin found[q])
          BY <2>0, <3>1, <3>2, <3>4, <1>1 DEF HInv, LoneDeletes
    <3>6. earlier'[d] = earlier[d] /\ p \notin earlier[d]
          BY <2>0, <3>2, <1>1 DEF HInv, Snapshots
    <3>7. g \notin loaded[p] /\ (found[p] # None => g \notin found[p])
          BY <3>5, <3>6
    <3>8. group'[g] = "deleted"
          BY <3>5, <3>7 DEF SyncMove, StartSync, ReadTable, ReadServer, OpenPersist, Persist, Step,
                            LoadForIcons, SaveIcons, SyncFails, ToSave, ToInsert, GroupsTypeOK
    <3>9. g \notin loaded'[p] /\ (found'[p] # None => g \notin found'[p])
          BY <3>5, <3>7 DEF SyncMove, StartSync, ReadTable, ReadServer, OpenPersist, Persist, LoadForIcons,
                            SaveIcons, SyncFails, memory, Active, Present, GroupsTypeOK
    <3> QED BY <3>5, <3>6, <3>8, <3>9, <1>1
  <2> QED BY <2>1, <2>2
<1> QED BY <1>4, <1>5, <1>6, <1>7, <1>8 DEF HInv

\* The voice server moves on.
LEMMA ServerKeepsHistory ==
    ASSUME GroupsTypeOK, HInv, ServerStep, HNext PROVE HInv'
<1>1. /\ UNCHANGED <<group, spc, known, found, loaded>>
      /\ ts' \in [Groups -> {"unborn", "present", "gone"}]
      /\ \A g \in Groups : /\ ts[g] = "gone" => ts'[g] = "gone"
                           /\ ts[g] # "unborn" => ts'[g] # "unborn"
      BY DEF ServerStep, AddGroup, RemoveGroup, memory, GroupsTypeOK
<1>2. earlier' = earlier /\ deleters' = deleters
      BY <1>1 DEF HNext, HInv, HistoryTypeOK
<1>3. Snapshots'
      BY <1>1, <1>2 DEF HInv, Snapshots, EndedSyncs, Rows, GroupsTypeOK
<1>4. Unborn'
      BY <1>1 DEF HInv, Unborn
<1>5. LoneReads'
      BY <1>1, <1>2 DEF HInv, LoneReads, Overlapped
<1>6. LoneDeletes'
      BY <1>1, <1>2 DEF HInv, LoneDeletes, Overlapped
<1> QED BY <1>2, <1>3, <1>4, <1>5, <1>6 DEF HInv, HistoryTypeOK

LEMMA HistoryStep == ZInv /\ HInv /\ [HNext]_hvars => ZInv' /\ HInv'
<1> SUFFICES ASSUME ZInv, HInv, [HNext]_hvars PROVE ZInv' /\ HInv'
    OBVIOUS
<1>1. ZInv'
      BY ZNext DEF HNext, hvars, history, zvars
<1>2. GroupsTypeOK
      BY DEF ZInv, ZonesTypeOK
<1>3. CASE UNCHANGED <<gvars, earlier, deleters>>
      BY <1>1, <1>3 DEF gvars, HInv, HistoryTypeOK, Snapshots, Unborn, LoneReads, LoneDeletes,
                        Overlapped, EndedSyncs, Rows
<1>4. CASE HNext /\ UNCHANGED gvars
  <2>1. earlier' = earlier /\ deleters' = deleters
        BY <1>4 DEF HNext, gvars, HInv, HistoryTypeOK
  <2> QED BY <1>3, <1>4, <2>1
<1>5. CASE HNext /\ ~UNCHANGED gvars
  <2>1. ServerStep \/ \E p \in Syncs : SyncMove(p)
    <3>1. RequestStep => UNCHANGED gvars
          BY DEF RequestStep, BeginCreate, BeginUpdate, BeginDelete, Begin, NamedCreate, NamedUpdate,
                 HasDefault, ValidateGroup, Goto, SaveNew, SaveOld, DeleteRow, Refuse, Finish
    <3> QED BY <1>5, <3>1 DEF HNext, Next, SyncStep, CascadeGroups, CommitGroups, RollBack,
                            SyncMove
  <2> QED BY <1>1, <1>2, <1>5, <2>1, ServerKeepsHistory, SyncKeepsHistory
<1> QED BY <1>1, <1>3, <1>4, <1>5 DEF hvars, zvars, history

\* getServerGroupsToSave: a group that a sync has deleted comes back only if that
\* very sync has overlapped another; syncs one after the other never restore one.
THEOREM LoneDeletionsStand == HSpec => []LoneDeletionStands
<1>1. HInv => LoneDeletionStands
      BY DEF HInv, LoneDeletes, LoneDeletionStands
<1> QED BY <1>1, HistoryInit, HistoryStep, PTL DEF HSpec

-----------------------------------------------------------------------------
(* Which active zones may be left without their group.  A request that was  *)
(* never at work with a transaction open has read the zones and groups as   *)
(* the commits before it left them, and no commit has come since.           *)

Crossing == \A r \in Requests : Working(r) /\ Committing => r \in crossed

\* An open transaction holds the zones of its groups, but those saved since.
CascadeHolds ==
    \A q \in Syncs : spc[q] = "persisting" => \A z \in ZoneIds \ strayed :
        zone[z] # None /\ zone[z].group \in ToDelete(q) => zone[z].dead \/ z \in doomed[q]

\* What a request that has crossed no transaction is about to save.
Current(r) ==
    /\ op[r] = "create" /\ pc[r] = "saving" /\ mem[r].group # None => group[mem[r].group] # "deleted"
    /\ op[r] = "update" =>
          /\ mem[r].group # None /\ ~mem[r].dead /\ group[mem[r].group] = "deleted" => id[r] \in strayed
          /\ pc[r] = "saving" /\ dto[r].group \in Groups /\ dto[r].group # mem[r].group
                => group[dto[r].group] # "deleted"

StrayInv == /\ crossed \subseteq Requests /\ strayed \subseteq ZoneIds
            /\ Crossing /\ CascadeHolds /\ DeletedGroupsTakeZones
            /\ \A r \in Requests \ crossed : Working(r) => Current(r)

LEMMA StrayInit == HInit => StrayInv
BY DEF HInit, Init, GroupsInit, StrayInv, Crossing, CascadeHolds, DeletedGroupsTakeZones, Working

\* Who has not crossed a transaction after a step had not before, and none is open.
LEMMA CrossingKept ==
    ASSUME StrayInv, HNext
    PROVE  /\ crossed' \subseteq Requests /\ strayed' \subseteq ZoneIds /\ strayed \subseteq strayed'
           /\ Crossing'
           /\ \A r \in Requests \ crossed' : Working(r)' => r \notin crossed /\ ~Committing'
BY DEF StrayInv, HNext, Crossing, Working

\* The commit of a sync, before which everybody at work had crossed it.
LEMMA CommitKeeps ==
    ASSUME ZInv, StrayInv, HNext, NEW q \in Syncs, CommitGroups(q)
    PROVE  StrayInv'
<1>1. /\ group' = [g \in Groups |-> CASE g \in ToDelete(q) -> "deleted"
                                     [] g \in ToSave(q) \cup ToInsert(q) -> "active"
                                     [] OTHER -> group[g]]
      /\ zone' = [z \in ZoneIds |-> IF z \in doomed[q] THEN [zone[z] EXCEPT !.dead = TRUE]
                                                       ELSE zone[z]]
      /\ spc[q] = "persisting" /\ spc' = [spc EXCEPT ![q] = "icons"]
      /\ doomed' = [doomed EXCEPT ![q] = {}]
      /\ UNCHANGED <<known, found, pc, op, id, mem, dto>>
      BY DEF CommitGroups, Persist, Step, memory, requests
<1>2. Committing
      BY <1>1 DEF Committing
<1>3. \A r \in Requests : Working(r)' => r \in crossed'
      BY <1>1, <1>2 DEF StrayInv, Crossing, Working, HNext
<1>4. \A z \in ZoneIds : zone'[z] # None /\ ~zone'[z].dead => zone'[z] = zone[z] /\ z \notin doomed[q]
  <2> SUFFICES ASSUME NEW z \in ZoneIds, z \in doomed[q]
               PROVE  zone'[z].dead
      BY <1>1
  <2>1. zone[z] \in Zone
        BY DEF ZInv, ZonesTypeOK, DoomedAreBound
  <2> QED BY <1>1, <2>1 DEF Zone
<1>5. CascadeHolds'
  <2> SUFFICES ASSUME NEW p \in Syncs, spc'[p] = "persisting", NEW z \in ZoneIds \ strayed',
                      zone'[z] # None, zone'[z].group \in ToDelete(p)', ~zone'[z].dead
               PROVE  z \in doomed'[p]
      BY DEF CascadeHolds
  <2>1. p # q /\ spc[p] = "persisting" /\ doomed'[p] = doomed[p] /\ ToDelete(p)' = ToDelete(p)
        BY <1>1 DEF ZInv, ZonesTypeOK, GroupsTypeOK, ToDelete
  <2> QED BY <1>4, <2>1, CrossingKept DEF StrayInv, CascadeHolds
<1>6. DeletedGroupsTakeZones'
  <2> SUFFICES ASSUME NEW z \in ZoneIds \ strayed', zone'[z] # None, zone'[z].group # None,
                      group'[zone'[z].group] = "deleted", ~zone'[z].dead
               PROVE  FALSE
      BY DEF DeletedGroupsTakeZones
  <2>1. /\ z \notin strayed /\ zone[z] # None /\ ~zone[z].dead /\ z \notin doomed[q]
        /\ zone[z].group \in Groups /\ group'[zone[z].group] = "deleted"
        BY <1>4, CrossingKept DEF ZInv, ZonesTypeOK, Zone
  <2>2. zone[z].group \notin ToDelete(q)
        BY <1>1, <2>1 DEF StrayInv, CascadeHolds
  <2>3. group[zone[z].group] = "deleted"
        BY <1>1, <2>1, <2>2
  <2> QED BY <2>1, <2>3 DEF ZInv, ZonesTypeOK, Zone, StrayInv, DeletedGroupsTakeZones
<1> QED BY <1>3, <1>5, <1>6, CrossingKept DEF StrayInv

\* The other steps of a sync, and of the voice server: no group is deleted.
LEMMA SyncKeeps ==
    ASSUME ZInv, StrayInv, HNext, UNCHANGED <<zone, requests>>,
           \/ (SyncStep \/ ServerStep) /\ UNCHANGED doomed
           \/ \E q \in Syncs : CascadeGroups(q) \/ RollBack(q)
    PROVE  StrayInv'
<1>1. \A g \in Groups : group'[g] = "deleted" => group[g] = "deleted"
      BY DEF SyncStep, StartSync, ReadTable, ReadServer, LoadForIcons, SaveIcons, ServerStep, AddGroup,
             RemoveGroup, CascadeGroups, OpenPersist, RollBack, SyncFails
<1>2. DeletedGroupsTakeZones'
  <2>1. \A z \in ZoneIds : zone[z] # None /\ zone[z].group # None => zone[z].group \in Groups
        BY DEF ZInv, ZonesTypeOK, Zone
  <2> QED BY <1>1, <2>1, CrossingKept DEF StrayInv, DeletedGroupsTakeZones
<1>3. CascadeHolds'
  <2> SUFFICES ASSUME NEW p \in Syncs, spc'[p] = "persisting", NEW z \in ZoneIds \ strayed',
                      zone'[z] # None, zone'[z].group \in ToDelete(p)'
               PROVE  zone'[z].dead \/ z \in doomed'[p]
      BY DEF CascadeHolds
  <2>1. CASE spc[p] = "persisting"
    <3>1. ToDelete(p)' = ToDelete(p) /\ doomed'[p] = doomed[p]
          BY <2>1 DEF ZInv, ZonesTypeOK, GroupsTypeOK, ToDelete, SyncStep, StartSync, ReadTable, ReadServer,
                      LoadForIcons, SaveIcons, ServerStep, AddGroup, RemoveGroup, CascadeGroups,
                      OpenPersist, HasRead, RollBack, SyncFails, Step, memory
    <3> QED BY <2>1, <3>1, CrossingKept DEF StrayInv, CascadeHolds
  <2>2. CASE spc[p] # "persisting"
    <3>1. CascadeGroups(p)
          BY <2>2 DEF ZInv, ZonesTypeOK, GroupsTypeOK, SyncStep, StartSync, ReadTable, ReadServer,
                      LoadForIcons, SaveIcons, ServerStep, AddGroup, RemoveGroup, CascadeGroups,
                      OpenPersist, RollBack, SyncFails, Step
    <3>2. ToDelete(p)' = ToDelete(p) /\ doomed'[p] = ZonesOfDeleted(p)
          BY <3>1 DEF CascadeGroups, OpenPersist, memory, ToDelete, ZInv, ZonesTypeOK
    <3> QED BY <3>2 DEF ZonesOfDeleted
  <2> QED BY <2>1, <2>2
<1>4. ASSUME NEW r \in Requests \ crossed', Working(r)'
      PROVE  Current(r)'
  <2>1. Current(r) /\ Working(r)
        BY <1>4, CrossingKept DEF StrayInv, Working, requests
  <2>2. mem[r] \in Zone /\ dto[r] \in Body
        BY <2>1 DEF ZInv, ZonesTypeOK, Working
  <2> QED BY <1>1, <2>1, <2>2, CrossingKept DEF Current, requests, Zone
<1> QED BY <1>2, <1>3, <1>4, CrossingKept DEF StrayInv

\* Who writes a zone with a transaction open has crossed it.
LEMMA WriteKeepsCascade ==
    ASSUME ZInv, StrayInv, HNext, NEW r \in Requests, Working(r), UNCHANGED <<gvars, doomed>>,
           NEW z \in ZoneIds, Saves(r, z), \A y \in ZoneIds \ {z} : zone'[y] = zone[y]
    PROVE  CascadeHolds'
<1> SUFFICES ASSUME NEW p \in Syncs, spc'[p] = "persisting", NEW y \in ZoneIds \ strayed',
                    zone'[y] # None, zone'[y].group \in ToDelete(p)'
             PROVE  zone'[y].dead \/ y \in doomed'[p]
    BY DEF CascadeHolds
<1>1. spc[p] = "persisting" /\ ToDelete(p)' = ToDelete(p) /\ doomed' = doomed
      BY DEF gvars, ToDelete
<1>2. r \in crossed
      BY <1>1 DEF StrayInv, Crossing, Committing
<1>3. z \in strayed'
      BY <1>2 DEF HNext
<1> QED BY <1>1, <1>3, CrossingKept DEF StrayInv, CascadeHolds

\* A request begins with what is there, or passes a check.
LEMMA AskKeeps ==
    ASSUME ZInv, StrayInv, HNext, NEW r \in Requests,
           \/ \E g \in Groups \cup {None} : BeginCreate(r, g)
           \/ \E z \in ZoneIds, body \in Body : BeginUpdate(r, z, body)
           \/ \E z \in ZoneIds : BeginDelete(r, z)
           \/ NamedCreate(r) \/ NamedUpdate(r) \/ HasDefault(r) \/ ValidateGroup(r)
    PROVE  StrayInv'
<1>1. /\ UNCHANGED <<gvars, zone, doomed>>
      /\ \A p \in Requests \ {r} :
            /\ pc'[p] = pc[p] /\ op'[p] = op[p] /\ id'[p] = id[p]
            /\ mem'[p] = mem[p] /\ dto'[p] = dto[p]
      BY DEF BeginCreate, BeginUpdate, BeginDelete, Begin, NamedCreate, NamedUpdate, HasDefault,
             ValidateGroup, Goto, ZInv, ZonesTypeOK
<1>2. DeletedGroupsTakeZones' /\ CascadeHolds'
      BY <1>1, CrossingKept DEF StrayInv, DeletedGroupsTakeZones, CascadeHolds, ToDelete, gvars
<1>3. ASSUME NEW p \in Requests \ crossed', Working(p)', p # r
      PROVE  Current(p)'
      BY <1>1, <1>3, CrossingKept DEF StrayInv, Current, Working, gvars
<1>4. ASSUME r \notin crossed', Working(r)'
      PROVE  Current(r)'
  <2>1. CASE \E g \in Groups \cup {None} : BeginCreate(r, g)
        BY <2>1 DEF BeginCreate, Begin, Current, ZInv, ZonesTypeOK
  <2>2. CASE \E z \in ZoneIds : BeginDelete(r, z)
        BY <2>2 DEF BeginDelete, Begin, Current, ZInv, ZonesTypeOK
  <2>3. CASE \E z \in ZoneIds, body \in Body : BeginUpdate(r, z, body)
    <3>1. PICK z \in ZoneIds, body \in Body : BeginUpdate(r, z, body)
          BY <2>3
    <3>2. /\ op'[r] = "update" /\ pc'[r] = "naming" /\ id'[r] = z /\ mem'[r] = zone[z]
          /\ zone[z] # None /\ group' = group
          BY <3>1 DEF BeginUpdate, Begin, ZInv, ZonesTypeOK, gvars
    <3> QED BY <3>2, CrossingKept DEF StrayInv, DeletedGroupsTakeZones, Current
  <2>4. CASE NamedCreate(r) \/ NamedUpdate(r) \/ HasDefault(r) \/ ValidateGroup(r)
    <3>1. /\ Current(r)
          /\ UNCHANGED <<op, id, mem, dto>> /\ group' = group
          /\ mem[r] # None /\ mem[r] \in Zone /\ dto[r] \in Body
          BY <1>4, <2>4, CrossingKept DEF StrayInv, NamedCreate, NamedUpdate, HasDefault, ValidateGroup,
             Goto, gvars, Working, ZInv, ZonesTypeOK
    <3>2. CASE op[r] = "create"
      <4>1. pc'[r] = "saving" => mem[r].group = None \/ group[mem[r].group] = "active"
            BY <2>4, <3>2 DEF NamedCreate, NamedUpdate, HasDefault, ValidateGroup, Goto, GroupOf, ZInv,
               ZonesTypeOK
      <4> QED BY <3>1, <3>2, <4>1 DEF Current
    <3>3. CASE op[r] = "update"
      <4>1. \/ NamedUpdate(r) /\ ~Rebinds(r) /\ ~Binds(r)
            \/ NamedUpdate(r) /\ pc'[r] # "saving"
            \/ group[dto[r].group] = "active"
            BY <2>4, <3>3 DEF NamedCreate, NamedUpdate, HasDefault, ValidateGroup, Goto, GroupOf, ZInv,
               ZonesTypeOK
      <4>2. pc'[r] = "saving" /\ dto[r].group \in Groups /\ dto[r].group # mem[r].group
               => group[dto[r].group] # "deleted"
            BY <4>1 DEF Rebinds, Binds
      <4> QED BY <3>1, <3>3, <4>2, CrossingKept DEF Current
    <3> QED BY <3>1, <3>2, <3>3 DEF Current
  <2> QED BY <2>1, <2>2, <2>3, <2>4
<1> QED BY <1>2, <1>3, <1>4, CrossingKept DEF StrayInv

\* What is saved by a request that has crossed no transaction is not of a group
\* that is deleted, or was read so and has strayed before.
LEMMA SaveKeeps ==
    ASSUME ZInv, StrayInv, HNext, NEW r \in Requests,
           SaveNew(r) \/ SaveOld(r) \/ DeleteRow(r) \/ Refuse(r)
    PROVE  StrayInv'
<1>1. /\ UNCHANGED <<gvars, op, doomed>>
      /\ mem' = [mem EXCEPT ![r] = None]
      /\ \A p \in Requests \ {r} :
            pc'[p] = pc[p] /\ id'[p] = id[p] /\ mem'[p] = mem[p] /\ dto'[p] = dto[p]
      /\ mem[r] \in Zone /\ dto[r] \in Body /\ Working(r)
      BY DEF SaveNew, SaveOld, DeleteRow, Refuse, Finish, ZInv, ZonesTypeOK, Working
<1>2. \A p \in Requests \ crossed' : Working(p)' => Current(p)'
      BY <1>1, CrossingKept DEF StrayInv, Current, Working, gvars, ZInv, ZonesTypeOK
<1>3. CASE SaveNew(r) \/ SaveOld(r)
  <2>1. PICK z \in ZoneIds :
           /\ Saves(r, z)
           /\ \/ SaveNew(r) /\ zone' = [zone EXCEPT ![z] = mem[r]]
              \/ SaveOld(r) /\ z = id[r] /\ zone' = [zone EXCEPT ![z] = Applied(mem[r], dto[r])]
        BY <1>3 DEF SaveNew, SaveOld, Fresh, Finish, Saves, ZInv, ZonesTypeOK
  <2>2. \A y \in ZoneIds \ {z} : zone'[y] = zone[y]
        BY <2>1 DEF ZInv, ZonesTypeOK
  <2>3. CascadeHolds'
        BY <1>1, <2>1, <2>2, WriteKeepsCascade
  <2>4. ASSUME z \notin strayed', zone'[z] # None, zone'[z].group # None,
               group[zone'[z].group] = "deleted", ~zone'[z].dead
        PROVE  FALSE
    <3>1. r \notin crossed /\ ~dto[r].revive /\ z \notin strayed
          BY <2>1, <2>4, CrossingKept DEF HNext
    <3>2. Current(r)
          BY <1>1, <3>1 DEF StrayInv
    <3>3. CASE SaveNew(r) /\ zone' = [zone EXCEPT ![z] = mem[r]]
          BY <3>2, <3>3, <2>4 DEF SaveNew, Current, ZInv, ZonesTypeOK
    <3>4. CASE SaveOld(r) /\ z = id[r] /\ zone' = [zone EXCEPT ![z] = Applied(mem[r], dto[r])]
      <4>1. zone'[z] = Applied(mem[r], dto[r]) /\ pc[r] = "saving" /\ op[r] = "update"
            BY <3>4 DEF SaveOld, ZInv, ZonesTypeOK
      <4>2. ~mem[r].dead
        <5>1. zone'[z].dead = Applied(mem[r], dto[r]).dead
              BY <4>1
        <5>2. Applied(mem[r], dto[r]).dead = (mem[r].dead /\ ~dto[r].revive)
              BY DEF Applied
        <5> QED BY <2>4, <3>1, <5>1, <5>2
      <4>3. CASE dto[r].group \in Groups /\ dto[r].group # mem[r].group
            BY <1>1, <2>4, <3>2, <4>1, <4>3 DEF Applied, Current
      <4>4. CASE ~(dto[r].group \in Groups /\ dto[r].group # mem[r].group)
        <5>1. Applied(mem[r], dto[r]).group \in {None, mem[r].group}
              BY <1>1, <4>4 DEF Applied, Body, Zone
        <5> QED BY <2>4, <3>1, <3>2, <3>4, <4>1, <4>2, <5>1 DEF Current
      <4> QED BY <4>3, <4>4
    <3> QED BY <2>1, <3>3, <3>4
  <2>5. DeletedGroupsTakeZones'
    <3> SUFFICES ASSUME NEW y \in ZoneIds \ strayed', zone'[y] # None, zone'[y].group # None,
                        group'[zone'[y].group] = "deleted", ~zone'[y].dead
                 PROVE  FALSE
        BY DEF DeletedGroupsTakeZones
    <3>1. group' = group
          BY <1>1 DEF gvars
    <3> QED BY <3>1, <2>2, <2>4, CrossingKept DEF StrayInv, DeletedGroupsTakeZones
  <2> QED BY <1>2, <2>3, <2>5, CrossingKept DEF StrayInv
<1>4. CASE DeleteRow(r) \/ Refuse(r)
  <2>1. \A y \in ZoneIds : zone'[y] # None => zone'[y] = zone[y]
        BY <1>4 DEF DeleteRow, Refuse, ZInv, ZonesTypeOK
  <2>2. group' = group /\ known' = known /\ found' = found /\ spc' = spc /\ doomed' = doomed
        BY <1>1 DEF gvars
  <2>3. DeletedGroupsTakeZones' /\ CascadeHolds'
        BY <2>1, <2>2, CrossingKept DEF StrayInv, DeletedGroupsTakeZones, CascadeHolds, ToDelete
  <2> QED BY <1>2, <2>3, CrossingKept DEF StrayInv
<1> QED BY <1>3, <1>4

LEMMA StrayStep == ZInv /\ StrayInv /\ [HNext]_hvars => ZInv' /\ StrayInv'
<1> SUFFICES ASSUME ZInv, StrayInv, [HNext]_hvars PROVE ZInv' /\ StrayInv'
    OBVIOUS
<1>1. ZInv'
      BY ZNext DEF HNext, hvars, history, zvars
<1>2. CASE UNCHANGED hvars
      BY <1>1, <1>2 DEF hvars, zvars, gvars, requests, history, StrayInv, Crossing, Committing, Working,
                  CascadeHolds, ToDelete, DeletedGroupsTakeZones, Current
<1>3. CASE HNext
  <2>1. CASE (SyncStep \/ ServerStep) /\ UNCHANGED <<zone, requests, doomed>>
        BY <1>1, <1>3, <2>1, SyncKeeps
  <2>2. CASE \E q \in Syncs : CascadeGroups(q) \/ RollBack(q)
    <3>1. UNCHANGED <<zone, requests>>
          BY <2>2 DEF CascadeGroups, RollBack
    <3> QED BY <1>1, <1>3, <2>2, <3>1, SyncKeeps
  <2>3. CASE \E q \in Syncs : CommitGroups(q)
        BY <1>1, <1>3, <2>3, CommitKeeps
  <2>4. CASE RequestStep
        BY <1>1, <1>3, <2>4, AskKeeps, SaveKeeps DEF RequestStep
  <2> QED BY <1>3, <2>1, <2>2, <2>3, <2>4 DEF HNext, Next
<1> QED BY <1>1, <1>2, <1>3

\* cascadeGroupsDeletion: a zone stays active without its group only if it was
\* saved by a request at work while a sync's transaction was open, or revived.
THEOREM GroupsTakeZones == HSpec => []DeletedGroupsTakeZones
<1>1. StrayInv => DeletedGroupsTakeZones
      BY DEF StrayInv
<1>2. HInit => ZInv
      BY ZInit DEF HInit
<1> QED BY <1>1, <1>2, StrayInit, StrayStep, PTL DEF HSpec

\* The history restricts no step and is read by none, so what is proved above of
\* Spec holds of HSpec.
LEMMA HistoryRefines == HSpec => Spec
<1>1. [HNext]_hvars => [Next]_zvars
      BY DEF HNext, hvars, history
<1>2. HInit => Init
      BY DEF HInit
<1> QED BY <1>1, <1>2, PTL DEF HSpec, Spec
=============================================================================
