---------------------------- MODULE IconsProofs ----------------------------
(***************************************************************************)
(* Proofs about Icons for any number of requests, icons, rows and groups.  *)
(* A row never changes but to go, and an id is never used again: what a    *)
(* request remembers of a row is true of it or the row is gone, and the    *)
(* histories only grow.  So it is enough to look at the request that takes *)
(* a step.                                                                 *)
(***************************************************************************)
EXTENDS Icons, TLAPS

USE IconsAssumption, IconRowAssumption

-----------------------------------------------------------------------------
(* The invariant *)

\* A row that may still be there, and if so is one of an icon of I.
GoneOr(u, I) == rows[u] = Gone \/ (Here(u) /\ rows[u].ts \in I)

UploadOK(r) == op[r] = "upload" =>
    /\ pc[r] \in {"waiting", "saving"} \cup Ended
    /\ mem[r].ts \in Icons
    /\ msg[r] = "ok" \/ pc[r] = "saving" => mem[r].ts \in had

DeleteOK(r) == op[r] = "delete" =>
    /\ pc[r] \in {"found", "waiting"} \cup Ended
    /\ mem[r].id \in Uuids
    /\ rows[mem[r].id] = Gone \/ (IsRow(mem[r].id) /\ rows[mem[r].id].ts = mem[r].ts)
    /\ pc[r] = "found" => msg[r] = "none"
    /\ pc[r] = "done" => rows[mem[r].id] = Gone
    /\ msg[r] = "ok" /\ Here(mem[r].id) => mem[r].id \in missed

SyncOK(r) ==
    /\ mem[r].found # None => mem[r].found \subseteq had
    /\ \A g \in Groups : mem[r].want[g] \in worn[g] \cup {None}
    /\ mem[r].loaded # None => \A g \in Groups :
          mem[r].loaded[g] # None => GoneOr(mem[r].loaded[g], worn[g])
    /\ mem[r].listed # None => \A x \in mem[r].listed : GoneOr(x.id, {x.ts})

MemOK(r) == /\ pc[r] = "idle" <=> op[r] = "none"
            /\ pc[r] = "idle" => msg[r] = "none"
            /\ pc[r] = "found" => op[r] = "delete"
            /\ UploadOK(r) /\ DeleteOK(r) /\ SyncOK(r)

\* Only a deletion that waits for the bot holds a row, the one it was asked for.
HoldOK == \A u \in Uuids : hold[u] # None =>
             /\ op[hold[u]] = "delete" /\ pc[hold[u]] = "waiting"
             /\ mem[hold[u]].id = u /\ Here(u)

\* The unique key.
OneRow == \A u, v \in Uuids : Here(u) /\ Here(v) /\ u # v => rows[u].ts # rows[v].ts

IInv == /\ IconsTypeOK
        /\ \A r \in Requests : MemOK(r)
        /\ HoldOK /\ OneRow /\ LinksAreOwnIcons
        /\ store \subseteq had

LEMMA IInit == Init => IInv
<1> SUFFICES ASSUME Init PROVE IInv
    OBVIOUS
<1>1. Blank \in Memory
      BY DEF Blank, Memory
<1>2. IconsTypeOK
  <2>1. rows \in [Uuids -> {None, Gone} \cup IconRow] /\ link \in [Groups -> Uuids \cup {None}]
        BY DEF Init
  <2>2. \A u \in Uuids : Here(u) => rows[u].ts \in Icons
        BY DEF Here, IsRow, IconRow
  <2>3. had \subseteq Icons /\ missed \subseteq Uuids
        BY <2>2 DEF Init, Known, Off
  <2>4. worn \in [Groups -> SUBSET Icons]
    <3>1. \A g \in Groups : face[g] \in Icons \cup {None} /\ (link[g] # None => Here(link[g]))
          BY DEF Init
    <3>2. \A g \in Groups : ({face[g]} \cup {rows[u].ts : u \in {link[g]} \ {None}}) \ {None} \subseteq Icons
          BY <2>1, <2>2, <3>1
    <3> QED BY <3>2 DEF Init
  <2> QED BY <1>1, <2>1, <2>3, <2>4 DEF Init, IconsTypeOK
<1>3. \A r \in Requests : MemOK(r)
      BY <1>1 DEF Init, MemOK, UploadOK, DeleteOK, SyncOK, Blank
<1>4. HoldOK /\ OneRow /\ store \subseteq had
      BY DEF Init, HoldOK, OneRow
<1>5. LinksAreOwnIcons
  <2> SUFFICES ASSUME NEW g \in Groups, link[g] # None
               PROVE  Here(link[g]) /\ rows[link[g]].ts \in worn[g]
      BY DEF LinksAreOwnIcons
  <2>1. Here(link[g]) /\ link[g] \in Uuids
        BY DEF Init
  <2>2. rows[link[g]].ts \in Icons
        BY <2>1 DEF Here, IsRow, IconRow
  <2> QED BY <2>1, <2>2 DEF Init
<1> QED BY <1>2, <1>3, <1>4, <1>5 DEF IInv

-----------------------------------------------------------------------------
(* What every step keeps *)

\* Rows come and go, and never change.
RowsMove == \A u \in Uuids : \/ rows'[u] = rows[u]
                             \/ IsRow(u) /\ rows'[u] = Gone
                             \/ rows[u] = None /\ IsRow(u)'

HistoryGrows == /\ had \subseteq had' /\ missed \subseteq missed'
                /\ \A g \in Groups : worn[g] \subseteq worn'[g]

\* What a request remembers that does not move.
LEMMA MemStays ==
    ASSUME IInv, RowsMove, HistoryGrows, NEW r \in Requests,
           pc'[r] = pc[r], op'[r] = op[r], mem'[r] = mem[r], msg'[r] = msg[r]
    PROVE  MemOK(r)'
<1>1. MemOK(r) /\ mem[r] \in Memory
      BY DEF IInv, IconsTypeOK
<1>2. \A u \in Uuids : rows[u] # None => (rows'[u] = rows[u] \/ rows'[u] = Gone)
      BY DEF RowsMove
<1>3. \A u \in Uuids, I \in SUBSET Icons : GoneOr(u, I) => GoneOr(u, I)'
      BY <1>2 DEF GoneOr, Here, IsRow
<1>4. UploadOK(r)'
      BY <1>1 DEF MemOK, UploadOK, HistoryGrows
<1>5. DeleteOK(r)'
      BY <1>1, <1>2 DEF MemOK, DeleteOK, HistoryGrows, Here, IsRow
<1>6. SyncOK(r)'
  <2>1. /\ mem[r].loaded # None => \A g \in Groups : mem[r].loaded[g] \in Uuids \cup {None}
        /\ mem[r].listed # None => \A x \in mem[r].listed : x.id \in Uuids /\ x.ts \in Icons
        BY <1>1 DEF Memory
  <2>2. \A u \in Uuids, g \in Groups : GoneOr(u, worn[g]) => GoneOr(u, worn[g])'
        BY <1>2 DEF GoneOr, Here, IsRow, HistoryGrows
  <2>3. \A u \in Uuids, i \in Icons : GoneOr(u, {i}) => GoneOr(u, {i})'
        BY <1>2 DEF GoneOr, Here, IsRow
  <2> QED BY <1>1, <2>1, <2>2, <2>3 DEF MemOK, SyncOK, HistoryGrows
<1> QED BY <1>1, <1>4, <1>5, <1>6 DEF MemOK

\* Insert makes rows of the icons in added, one for each.
LEMMA Inserted ==
    ASSUME NEW old \in [Uuids -> {None, Gone} \cup IconRow], NEW added \in SUBSET Icons,
           Insert(old, added), \A u \in Uuids : old[u] = None <=> rows[u] = None,
           \A u, v \in Uuids : old[u] \in IconRow /\ old[u].here /\ old[v] \in IconRow /\ old[v].here
                               /\ u # v => old[u].ts # old[v].ts
    PROVE  /\ rows' \in [Uuids -> {None, Gone} \cup IconRow]
           /\ \A u \in Uuids : \/ rows'[u] = old[u]
                               \/ /\ rows[u] = None /\ rows'[u] \in IconRow
                                  /\ rows'[u].here /\ ~rows'[u].old /\ rows'[u].ts \in added
           /\ OneRow'
<1>1. PICK of \in [added -> Unused] :
          /\ \A i, j \in added : of[i] = of[j] => i = j
          /\ rows' = [u \in Uuids |->
                IF \E i \in added : of[i] = u
                THEN [ts |-> CHOOSE i \in added : of[i] = u, here |-> TRUE, old |-> FALSE]
                ELSE old[u]]
      BY DEF Insert
<1>2. ASSUME NEW u \in Uuids, NEW i \in added, of[i] = u
      PROVE  rows'[u] = [ts |-> i, here |-> TRUE, old |-> FALSE] /\ rows[u] = None
  <2>1. (CHOOSE j \in added : of[j] = u) = i
        BY <1>1, <1>2
  <2> QED BY <1>1, <1>2, <2>1 DEF Unused
<1>3. \A i \in added : [ts |-> i, here |-> TRUE, old |-> FALSE] \in IconRow
      BY DEF IconRow
<1>4. \A u \in Uuids : (\A i \in added : of[i] # u) => rows'[u] = old[u]
      BY <1>1
<1>5. \A u \in Uuids : \/ rows'[u] = old[u]
                       \/ /\ rows[u] = None /\ rows'[u] \in IconRow
                          /\ rows'[u].here /\ ~rows'[u].old /\ rows'[u].ts \in added
  <2> SUFFICES ASSUME NEW u \in Uuids, rows'[u] # old[u]
               PROVE  /\ rows[u] = None /\ rows'[u] \in IconRow
                      /\ rows'[u].here /\ ~rows'[u].old /\ rows'[u].ts \in added
      OBVIOUS
  <2>1. PICK i \in added : of[i] = u
        BY <1>4
  <2>2. rows'[u] = [ts |-> i, here |-> TRUE, old |-> FALSE] /\ rows[u] = None
        BY <1>2, <2>1
  <2> QED BY <1>3, <2>2
<1>6. rows' \in [Uuids -> {None, Gone} \cup IconRow]
  <2> DEFINE new(u) == IF \E i \in added : of[i] = u
                      THEN [ts |-> CHOOSE i \in added : of[i] = u, here |-> TRUE, old |-> FALSE]
                      ELSE old[u]
  <2>1. rows' = [u \in Uuids |-> new(u)]
        BY <1>1
  <2> HIDE DEF new
  <2>2. \A u \in Uuids : rows'[u] \in {None, Gone} \cup IconRow
        BY <1>5
  <2> QED BY <2>1, <2>2
<1>7. OneRow'
  <2> SUFFICES ASSUME NEW u \in Uuids, NEW v \in Uuids, Here(u)', Here(v)', u # v
               PROVE  rows'[u].ts # rows'[v].ts
      BY DEF OneRow
  <2>1. \A w \in Uuids : old[w] \in IconRow /\ old[w].here => old[w].ts \notin added
        BY DEF Insert
  <2>2. \A w \in Uuids : Here(w)' => \/ rows'[w] = old[w] /\ rows'[w].ts \notin added
                                    \/ \E i \in added : of[i] = w /\ rows'[w].ts = i
    <3> SUFFICES ASSUME NEW w \in Uuids, Here(w)'
                 PROVE  \/ rows'[w] = old[w] /\ rows'[w].ts \notin added
                        \/ \E i \in added : of[i] = w /\ rows'[w].ts = i
        OBVIOUS
    <3>1. CASE \E i \in added : of[i] = w
      <4>1. PICK i \in added : of[i] = w
            BY <3>1
      <4>2. rows'[w] = [ts |-> i, here |-> TRUE, old |-> FALSE]
            BY <1>2, <4>1
      <4> QED BY <4>1, <4>2
    <3>2. CASE \A i \in added : of[i] # w
          BY <3>2, <2>1, <1>4 DEF Here, IsRow
    <3> QED BY <3>1, <3>2
  <2> QED BY <1>1, <2>2 DEF Here, IsRow
<1> QED BY <1>5, <1>6, <1>7

-----------------------------------------------------------------------------
(* The shape of a step: what request r does, to tables and to itself       *)

Witnessed == /\ had'    = had \cup store'
             /\ missed' = missed \cup Off'
             /\ worn'   = [g \in Groups |-> worn[g] \cup ({face'[g]} \ {None})]

Places == {"idle", "waiting", "saving", "found", "asking", "fetching", "linking"} \cup Ended
Methods == {"none", "upload", "delete", "group", "full"}

TablesTyped == /\ rows \in [Uuids -> {None, Gone} \cup IconRow]
               /\ hold \in [Uuids -> Requests \cup {None}]
               /\ link \in [Groups -> Uuids \cup {None}]

VoiceTyped == store \subseteq Icons /\ face \in [Groups -> Icons \cup {None}]

\* Only the places of r change, and to one of these.
Moves(r) == /\ pc'  = [pc  EXCEPT ![r] = pc'[r]]  /\ pc'[r] \in Places
            /\ op'  = [op  EXCEPT ![r] = op'[r]]  /\ op'[r] \in Methods
            /\ mem' = [mem EXCEPT ![r] = mem'[r]] /\ mem'[r] \in Memory
            /\ msg' = [msg EXCEPT ![r] = msg'[r]] /\ msg'[r] \in {"none", "out", "ok"}

PlacesTyped == /\ pc \in [Requests -> Places] /\ op \in [Requests -> Methods]
               /\ mem \in [Requests -> Memory] /\ msg \in [Requests -> {"none", "out", "ok"}]

Stays(q) == pc'[q] = pc[q] /\ op'[q] = op[q] /\ mem'[q] = mem[q] /\ msg'[q] = msg[q]

LEMMA AssembleAll ==
    ASSUME IInv, Witnessed, PlacesTyped', RowsMove, TablesTyped', VoiceTyped',
           \A q \in Requests : Stays(q) \/ MemOK(q)', HoldOK', OneRow', LinksAreOwnIcons'
    PROVE  IInv'
<1>1. had \subseteq Icons /\ missed \subseteq Uuids /\ worn \in [Groups -> SUBSET Icons]
      BY DEF IInv, IconsTypeOK
<1>2. had' \subseteq Icons /\ store' \subseteq had'
      BY <1>1 DEF Witnessed, VoiceTyped
<1>3. missed' \subseteq Uuids
      BY <1>1 DEF Witnessed, Off
<1>4. worn' \in [Groups -> SUBSET Icons]
      BY <1>1 DEF Witnessed, VoiceTyped
<1>5. HistoryGrows
      BY <1>1 DEF Witnessed, HistoryGrows
<1>6. \A q \in Requests : MemOK(q)'
      BY <1>5, MemStays DEF Stays
<1>7. \A q \in Requests : ~Active(q)' => \A u \in Uuids : hold'[u] # q
      BY DEF HoldOK, Active, Ended
<1>8. IconsTypeOK'
      BY <1>2, <1>3, <1>4, <1>7 DEF IconsTypeOK, TablesTyped, VoiceTyped, PlacesTyped, Places, Methods
<1> QED BY <1>2, <1>6, <1>8 DEF IInv

LEMMA Assemble ==
    ASSUME IInv, Witnessed, NEW r \in Requests, Moves(r), RowsMove,
           TablesTyped', VoiceTyped', MemOK(r)', HoldOK', OneRow', LinksAreOwnIcons'
    PROVE  IInv'
<1>1. PlacesTyped
      BY DEF IInv, IconsTypeOK, PlacesTyped, Places, Methods
<1>2. PlacesTyped'
      BY <1>1 DEF Moves, PlacesTyped
<1>3. \A q \in Requests : Stays(q) \/ MemOK(q)'
      BY <1>1 DEF Moves, PlacesTyped, Stays
<1> QED BY <1>2, <1>3, AssembleAll

\* A step that leaves the tables alone and does not take its place from a
\* request that holds a row.
LEMMA QuietTables ==
    ASSUME IInv, Witnessed, UNCHANGED tables,
           \A q \in Requests : (\E u \in Uuids : hold[u] = q) =>
               pc'[q] = pc[q] /\ op'[q] = op[q] /\ mem'[q] = mem[q]
    PROVE  TablesTyped' /\ RowsMove /\ OneRow' /\ LinksAreOwnIcons' /\ HoldOK'
<1>1. TablesTyped /\ TablesTyped' /\ RowsMove
      BY DEF IInv, IconsTypeOK, TablesTyped, tables, RowsMove
<1>2. OneRow'
      BY DEF IInv, OneRow, tables, Here, IsRow
<1>3. LinksAreOwnIcons'
      BY DEF IInv, IconsTypeOK, LinksAreOwnIcons, tables, Here, IsRow, Witnessed
<1>4. HoldOK'
  <2> SUFFICES ASSUME NEW u \in Uuids, hold[u] # None
               PROVE  /\ op'[hold[u]] = "delete" /\ pc'[hold[u]] = "waiting"
                      /\ mem'[hold[u]].id = u /\ Here(u)'
      BY DEF HoldOK, tables
  <2>1. hold[u] \in Requests
        BY <1>1 DEF TablesTyped
  <2>2. /\ op[hold[u]] = "delete" /\ pc[hold[u]] = "waiting"
        /\ mem[hold[u]].id = u /\ Here(u)
        BY DEF IInv, HoldOK
  <2> QED BY <2>1, <2>2 DEF tables, Here, IsRow
<1> QED BY <1>1, <1>2, <1>3, <1>4

LEMMA QuietStep ==
    ASSUME IInv, Witnessed, NEW r \in Requests, Moves(r), UNCHANGED tables,
           VoiceTyped', MemOK(r)',
           (\E u \in Uuids : hold[u] = r) =>
               pc'[r] = pc[r] /\ op'[r] = op[r] /\ mem'[r] = mem[r]
    PROVE  IInv'
<1>1. \A q \in Requests : (\E u \in Uuids : hold[u] = q) =>
          pc'[q] = pc[q] /\ op'[q] = op[q] /\ mem'[q] = mem[q]
      BY DEF IInv, IconsTypeOK, Moves
<1> QED BY <1>1, QuietTables, Assemble

-----------------------------------------------------------------------------
(* The steps that leave the tables alone                                   *)

LEMMA BlankMemory == /\ Blank \in Memory
                     /\ \A i \in Icons : [Blank EXCEPT !.ts = i] \in Memory
                     /\ \A i \in Icons, u \in Uuids : [Blank EXCEPT !.id = u, !.ts = i] \in Memory
                     /\ \A w \in [Groups -> Icons \cup {None}] : [Blank EXCEPT !.want = w] \in Memory
                     /\ [Blank EXCEPT !.ask = Icons] \in Memory
                     /\ \A m \in Memory : Over(m) \in Memory
BY DEF Blank, Memory, Over

LEMMA OverFields ==
    \A m \in Memory : /\ Over(m).id = m.id /\ Over(m).ts = m.ts /\ Over(m).want = m.want
                      /\ Over(m).found = None /\ Over(m).loaded = None /\ Over(m).listed = None
BY DEF Blank, Memory, Over

\* What the proof of a step starts from.
LEMMA Start ==
    ASSUME IInv, NEW r \in Requests
    PROVE  /\ MemOK(r) /\ VoiceTyped /\ TablesTyped
           /\ pc \in [Requests -> Places] /\ op \in [Requests -> Methods]
           /\ mem \in [Requests -> Memory] /\ msg \in [Requests -> {"none", "out", "ok"}]
           /\ \A u \in Uuids : hold[u] = r => pc[r] = "waiting" /\ op[r] = "delete"
BY DEF IInv, IconsTypeOK, VoiceTyped, TablesTyped, Places, Methods, HoldOK

LEMMA UploadStep ==
    ASSUME IInv, Witnessed, NEW r \in Requests, NEW i \in Icons, Upload(r, i)
    PROVE  IInv'
<1>1. Moves(r)
      BY Start, BlankMemory DEF Upload, Begin, Send, Moves, Places, Methods
<1>2. mem'[r] = [Blank EXCEPT !.ts = i] /\ pc'[r] = "waiting" /\ op'[r] = "upload" /\ msg'[r] = "out"
      BY Start DEF Upload, Begin, Send
<1>3. MemOK(r)'
      BY <1>2 DEF MemOK, UploadOK, DeleteOK, SyncOK, Blank
<1> QED BY <1>1, <1>3, Start, QuietStep DEF Upload, Begin, voice, VoiceTyped

LEMMA FindIconStep ==
    ASSUME IInv, Witnessed, NEW r \in Requests, NEW u \in Uuids, FindIcon(r, u)
    PROVE  IInv'
<1>1. rows[u].ts \in Icons /\ IsRow(u)
      BY DEF FindIcon, IsRow, IconRow
<1>2. Moves(r)
      BY <1>1, Start, BlankMemory DEF FindIcon, Begin, Moves, Places, Methods
<1>3. /\ mem'[r] = [Blank EXCEPT !.id = u, !.ts = rows[u].ts]
      /\ pc'[r] = "found" /\ op'[r] = "delete" /\ msg'[r] = "none"
      BY Start DEF FindIcon, Begin, MemOK
<1>4. mem'[r].id = u /\ mem'[r].ts = rows[u].ts
      BY <1>3 DEF Blank
<1>5. rows' = rows
      BY DEF FindIcon, Begin, tables
<1>6. DeleteOK(r)'
      BY <1>1, <1>3, <1>4, <1>5 DEF DeleteOK, IsRow, Ended
<1>7. MemOK(r)'
      BY <1>3, <1>6 DEF MemOK, UploadOK, SyncOK, Blank
<1> QED BY <1>2, <1>7, Start, QuietStep DEF FindIcon, Begin, voice, VoiceTyped

LEMMA BeginGroupSyncStep ==
    ASSUME IInv, Witnessed, NEW r \in Requests, BeginGroupSync(r)
    PROVE  IInv'
<1>1. Moves(r)
      BY Start, BlankMemory DEF BeginGroupSync, Begin, Moves, Places, Methods, VoiceTyped
<1>2. /\ mem'[r] = [Blank EXCEPT !.want = face]
      /\ pc'[r] = "asking" /\ op'[r] = "group" /\ msg'[r] = msg[r] /\ face' = face
      BY Start DEF BeginGroupSync, Begin, voice
<1>3. \A g \in Groups : face[g] \in worn'[g] \cup {None}
      BY <1>2 DEF Witnessed
<1>4. MemOK(r)'
      BY <1>2, <1>3 DEF MemOK, UploadOK, DeleteOK, SyncOK, Blank
<1> QED BY <1>1, <1>4, Start, QuietStep DEF BeginGroupSync, Begin, voice, VoiceTyped

LEMMA BeginFullSyncStep ==
    ASSUME IInv, Witnessed, NEW r \in Requests, BeginFullSync(r)
    PROVE  IInv'
<1>1. Moves(r)
      BY Start, BlankMemory DEF BeginFullSync, Begin, Moves, Places, Methods
<1>2. /\ mem'[r] = [Blank EXCEPT !.ask = Icons]
      /\ pc'[r] = "fetching" /\ op'[r] = "full" /\ msg'[r] = msg[r]
      BY Start DEF BeginFullSync, Begin
<1>3. MemOK(r)'
      BY <1>2 DEF MemOK, UploadOK, DeleteOK, SyncOK, Blank
<1> QED BY <1>1, <1>3, Start, QuietStep DEF BeginFullSync, Begin, voice, VoiceTyped

LEMMA UploadedStep ==
    ASSUME IInv, Witnessed, NEW r \in Requests, Uploaded(r)
    PROVE  IInv'
<1>1. Moves(r)
      BY Start DEF Uploaded, Goto, Moves, Places, Methods
<1>2. /\ mem'[r] = mem[r] /\ op'[r] = "upload" /\ msg'[r] = "ok" /\ op[r] = "upload"
      /\ pc[r] = "waiting" /\ pc'[r] = "saving" /\ msg[r] = "ok" /\ rows' = rows
      BY Start DEF Uploaded, Goto, tables
<1>3. MemOK(r)'
  <2>1. HistoryGrows
        BY DEF IInv, IconsTypeOK, Witnessed, HistoryGrows
  <2>2. UploadOK(r)'
        BY <1>2, <2>1, Start DEF MemOK, UploadOK, HistoryGrows
  <2>3. SyncOK(r)'
        BY <1>2, <2>1, Start DEF MemOK, SyncOK, HistoryGrows, GoneOr, Here, IsRow
  <2> QED BY <1>2, <2>2, <2>3 DEF MemOK, DeleteOK
<1> QED BY <1>1, <1>2, <1>3, Start, QuietStep DEF Uploaded, Goto, voice, VoiceTyped

\* A sync reads: only its memory and its place change.
Syncing == {"asking", "fetching", "linking"}

LEMMA ReadStep ==
    ASSUME IInv, Witnessed, NEW r \in Requests, NEW m \in Memory,
           UNCHANGED <<tables, voice, op, msg>>,
           pc[r] \in Syncing, pc' = [pc EXCEPT ![r] = pc'[r]], pc'[r] \in Syncing,
           mem' = [mem EXCEPT ![r] = m],
           SyncOK(r)'
    PROVE  IInv'
<1>1. mem'[r] = m /\ op'[r] = op[r] /\ msg'[r] = msg[r] /\ pc'[r] \notin {"idle", "found"}
      BY Start DEF Syncing
<1>2. Moves(r)
      BY <1>1, Start DEF Moves, Syncing, Places
<1>3. op[r] \notin {"none", "upload", "delete"}
      BY Start DEF MemOK, UploadOK, DeleteOK, Syncing, Ended
<1>4. MemOK(r)'
      BY <1>1, <1>3 DEF MemOK, UploadOK, DeleteOK
<1>5. \A u \in Uuids : hold[u] # r
      BY Start DEF Syncing
<1> QED BY <1>2, <1>4, <1>5, Start, QuietStep DEF voice, VoiceTyped

LEMMA MemorySet ==
    ASSUME NEW m \in Memory
    PROVE  /\ \A X \in SUBSET Icons : [m EXCEPT !.ask = X] \in Memory
           /\ \A X \in SUBSET Icons : [m EXCEPT !.known = X] \in Memory
           /\ \A X \in SUBSET Icons : [m EXCEPT !.found = X] \in Memory
           /\ \A l \in [Groups -> Uuids \cup {None}], G \in SUBSET Groups :
                 [m EXCEPT !.loaded = l, !.same = G] \in Memory
           /\ \A L \in SUBSET [id : Uuids, ts : Icons] : [m EXCEPT !.listed = L] \in Memory
           /\ [m EXCEPT !.known = None, !.found = None, !.ask = {}] \in Memory
BY DEF Memory

\* What a sync knows stays true while the tables do not change.
SyncFrame(r, m) ==
    /\ m.found # None => m.found \subseteq had
    /\ m.want = mem[r].want
    /\ m.loaded # None => \A g \in Groups : m.loaded[g] # None => GoneOr(m.loaded[g], worn[g])
    /\ m.listed # None => \A x \in m.listed : GoneOr(x.id, {x.ts})

LEMMA SyncFramed ==
    ASSUME IInv, Witnessed, NEW r \in Requests, NEW m \in Memory,
           UNCHANGED <<tables, voice>>, mem' = [mem EXCEPT ![r] = m], SyncFrame(r, m)
    PROVE  SyncOK(r)'
<1>1. mem'[r] = m /\ rows' = rows
      BY Start DEF tables
<1>2. \A u \in Uuids, I \in SUBSET Icons : GoneOr(u, I)' <=> GoneOr(u, I)
      BY <1>1 DEF GoneOr, Here, IsRow
<1>3. HistoryGrows
      BY DEF IInv, IconsTypeOK, Witnessed, HistoryGrows
<1>4. \A u \in Uuids, g \in Groups : GoneOr(u, worn[g]) => GoneOr(u, worn[g])'
      BY <1>1, <1>3 DEF GoneOr, Here, IsRow, HistoryGrows
<1>5. \A u \in Uuids, i \in Icons : GoneOr(u, {i}) => GoneOr(u, {i})'
      BY <1>1 DEF GoneOr, Here, IsRow
<1>6. m.found # None => m.found \subseteq had'
      BY <1>3 DEF SyncFrame, HistoryGrows
<1>7. \A g \in Groups : m.want[g] \in worn'[g] \cup {None}
      BY <1>3, Start DEF SyncFrame, HistoryGrows, MemOK, SyncOK
<1>8. /\ m.loaded # None => \A g \in Groups : m.loaded[g] \in Uuids \cup {None}
      /\ m.listed # None => \A x \in m.listed : x.id \in Uuids /\ x.ts \in Icons
      BY DEF Memory
<1> QED BY <1>1, <1>4, <1>5, <1>6, <1>7, <1>8 DEF SyncFrame, SyncOK

LEMMA FindMissingStep ==
    ASSUME IInv, Witnessed, NEW r \in Requests, FindMissing(r)
    PROVE  IInv'
<1> DEFINE m == [mem[r] EXCEPT !.ask = Wanted(r) \ Known]
<1>1. Wanted(r) \subseteq Icons /\ mem[r] \in Memory
      BY Start DEF Wanted, Memory
<1>2. m \in Memory
      BY <1>1, MemorySet
<1>3. mem' = [mem EXCEPT ![r] = m]
      BY Start DEF FindMissing
<1>4. SyncFrame(r, m)
      BY <1>1, Start DEF SyncFrame, MemOK, SyncOK, Memory
<1>5. /\ pc[r] \in Syncing /\ pc' = [pc EXCEPT ![r] = pc'[r]] /\ pc'[r] \in Syncing
      /\ UNCHANGED <<tables, voice, op, msg>>
      BY Start DEF FindMissing, Goto, Syncing
<1> HIDE DEF m
<1>6. SyncOK(r)'
      BY <1>2, <1>3, <1>4, <1>5, SyncFramed
<1> QED BY <1>2, <1>3, <1>5, <1>6, ReadStep

LEMMA ReadsStep ==
    ASSUME IInv, Witnessed, NEW r \in Requests, NEW m \in Memory, NEW at \in Syncing,
           Read(r, at), mem' = [mem EXCEPT ![r] = m], SyncFrame(r, m)
    PROVE  IInv'
<1>1. /\ pc[r] \in Syncing /\ pc' = [pc EXCEPT ![r] = pc'[r]] /\ pc'[r] \in Syncing
      /\ UNCHANGED <<tables, voice, op, msg>>
      BY Start DEF Read
<1>2. SyncOK(r)'
      BY <1>1, SyncFramed
<1> QED BY <1>1, <1>2, ReadStep

LEMMA ReadingStep ==
    ASSUME IInv, Witnessed, NEW r \in Requests,
           ReadIcons(r) \/ FetchIcons(r) \/ LoadGroups(r) \/ ListIcons(r)
    PROVE  IInv'
<1>1. mem[r] \in Memory /\ mem \in [Requests -> Memory]
      BY Start
<1>2. \A u \in Uuids : Here(u) => rows[u].ts \in Icons
      BY DEF Here, IsRow, IconRow
<1>3. CASE ReadIcons(r)
  <2> DEFINE m == [mem[r] EXCEPT !.known = Known]
  <2>1. m \in Memory
        BY <1>1, <1>2, MemorySet DEF Known
  <2>2. SyncFrame(r, m)
        BY <1>1, Start DEF SyncFrame, MemOK, SyncOK, Memory
  <2>3. mem' = [mem EXCEPT ![r] = m] /\ Read(r, "fetching")
        BY <1>1, <1>3 DEF ReadIcons
  <2> HIDE DEF m
  <2> QED BY <2>1, <2>2, <2>3, ReadsStep DEF Syncing
<1>4. CASE FetchIcons(r)
  <2> DEFINE m == [mem[r] EXCEPT !.found = mem[r].ask \cap store]
  <2>1. mem[r].ask \cap store \subseteq had /\ mem[r].ask \cap store \in SUBSET Icons
        BY <1>1 DEF IInv, IconsTypeOK
  <2>2. m \in Memory
        BY <1>1, <2>1, MemorySet
  <2>3. SyncFrame(r, m)
        BY <1>1, <2>1, Start DEF SyncFrame, MemOK, SyncOK, Memory
  <2>4. mem' = [mem EXCEPT ![r] = m] /\ Read(r, "fetching")
        BY <1>1, <1>4 DEF FetchIcons
  <2> HIDE DEF m
  <2> QED BY <2>2, <2>3, <2>4, ReadsStep DEF Syncing
<1>5. CASE LoadGroups(r)
  <2> DEFINE m == [mem[r] EXCEPT !.loaded = link, !.same = {g \in Groups : ShowsSameNumber(g)}]
  <2>1. m \in Memory
        BY <1>1, MemorySet, Start DEF TablesTyped
  <2>2. \A g \in Groups : link[g] # None => GoneOr(link[g], worn[g])
        BY DEF IInv, LinksAreOwnIcons, GoneOr
  <2>3. SyncFrame(r, m)
        BY <1>1, <2>2, Start DEF SyncFrame, MemOK, SyncOK, Memory
  <2>4. mem' = [mem EXCEPT ![r] = m] /\ Read(r, "linking")
        BY <1>1, <1>5 DEF LoadGroups
  <2> HIDE DEF m
  <2> QED BY <2>1, <2>3, <2>4, ReadsStep DEF Syncing
<1>6. CASE ListIcons(r)
  <2> DEFINE L == {[id |-> u, ts |-> rows[u].ts] : u \in UNION {RowsOf(i) : i \in Wanted(r)}}
             m == [mem[r] EXCEPT !.listed = L]
  <2>1. \A u \in UNION {RowsOf(i) : i \in Wanted(r)} : u \in Uuids /\ Here(u)
        BY DEF RowsOf
  <2>2. L \in SUBSET [id : Uuids, ts : Icons] /\ \A x \in L : GoneOr(x.id, {x.ts})
        BY <1>2, <2>1 DEF GoneOr
  <2> HIDE DEF L
  <2>3. m \in Memory
        BY <1>1, <2>2, MemorySet
  <2>4. SyncFrame(r, m)
        BY <1>1, <2>2, Start DEF SyncFrame, MemOK, SyncOK, Memory
  <2>5. mem' = [mem EXCEPT ![r] = m] /\ Read(r, "linking")
        BY <1>1, <1>6 DEF ListIcons, L
  <2> HIDE DEF m
  <2> QED BY <2>3, <2>4, <2>5, ReadsStep DEF Syncing
<1> QED BY <1>3, <1>4, <1>5, <1>6

LEMMA OutsideStep ==
    ASSUME IInv, Witnessed, Outside
    PROVE  IInv'
<1>1. VoiceTyped'
      BY DEF IInv, IconsTypeOK, Outside, VoiceTyped
<1>2. PlacesTyped' /\ UNCHANGED tables /\ UNCHANGED <<pc, op, mem, msg>>
      BY DEF IInv, IconsTypeOK, Outside, requests, PlacesTyped, Places, Methods
<1> QED BY <1>1, <1>2, QuietTables, AssembleAll DEF Stays

LEMMA BotStep ==
    ASSUME IInv, Witnessed, NEW r \in Requests,
           BotUploads(r) \/ BotDeletes(r) \/ Lose(r)
    PROVE  IInv'
<1>1. /\ UNCHANGED <<tables, face, pc, op, mem>> /\ msg'[r] \in {"none", "ok"}
      /\ msg' = [msg EXCEPT ![r] = msg'[r]] /\ msg[r] = "out"
      BY Start DEF BotUploads, BotDeletes, Lose, Receive
<1>2. Moves(r)
      BY <1>1, Start DEF Moves
<1>3. mem[r] \in Memory /\ MemOK(r) /\ rows' = rows
      BY <1>1, Start DEF tables
<1>4. VoiceTyped'
  <2>1. op[r] = "upload" => mem[r].ts \in Icons
        BY <1>3 DEF MemOK, UploadOK
  <2> QED BY <1>1, <2>1, Start DEF BotUploads, BotDeletes, Lose, VoiceTyped
<1>5. HistoryGrows
      BY DEF IInv, IconsTypeOK, Witnessed, HistoryGrows
<1>6. UploadOK(r)'
  <2>1. op[r] = "upload" /\ msg'[r] = "ok" => mem[r].ts \in store'
        BY DEF BotUploads, BotDeletes, Lose, Receive, IInv, IconsTypeOK
  <2>2. pc[r] # "saving" \/ mem[r].ts \in had \/ op[r] # "upload"
        BY <1>3 DEF MemOK, UploadOK
  <2> QED BY <1>1, <1>3, <1>5, <2>1, <2>2 DEF MemOK, UploadOK, HistoryGrows, Witnessed
<1>7. DeleteOK(r)'
  <2>1. op[r] = "delete" /\ msg'[r] = "ok" => mem[r].ts \notin store'
        BY DEF BotUploads, BotDeletes, Lose, Receive, IInv, IconsTypeOK
  <2>2. ASSUME op[r] = "delete", msg'[r] = "ok", Here(mem[r].id)'
        PROVE  mem[r].id \in missed'
    <3>1. mem[r].id \in Uuids /\ (rows[mem[r].id] = Gone \/ rows[mem[r].id].ts = mem[r].ts)
          BY <1>3, <2>2 DEF MemOK, DeleteOK
    <3> QED BY <1>1, <1>3, <2>1, <2>2, <3>1 DEF Witnessed, Off, Here, IsRow
  <2> QED BY <1>1, <1>3, <2>2 DEF MemOK, DeleteOK, IsRow
<1>8. SyncOK(r)'
      BY <1>1, <1>3, <1>5 DEF MemOK, SyncOK, HistoryGrows, GoneOr, Here, IsRow
<1>9. MemOK(r)'
      BY <1>1, <1>3, <1>6, <1>7, <1>8 DEF MemOK
<1> QED BY <1>1, <1>2, <1>4, <1>9, QuietStep

-----------------------------------------------------------------------------
(* The steps that write                                                    *)

\* A request ends.
LEMMA FinishStep ==
    ASSUME IInv, Witnessed, RowsMove, NEW r \in Requests, NEW x \in Ended,
           pc[r] # "idle", pc' = [pc EXCEPT ![r] = x],
           mem' = [mem EXCEPT ![r] = Over(mem[r])], UNCHANGED <<op, msg>>,
           op[r] = "delete" /\ x = "done" => rows'[mem[r].id] = Gone
    PROVE  Moves(r) /\ MemOK(r)'
<1>1. Moves(r)
      BY Start, BlankMemory DEF Moves, Places
<1>2. /\ pc'[r] = x /\ op'[r] = op[r] /\ msg'[r] = msg[r] /\ mem'[r] = Over(mem[r])
      /\ MemOK(r) /\ mem[r] \in Memory
      BY Start
<1>3. /\ mem'[r].id = mem[r].id /\ mem'[r].ts = mem[r].ts /\ mem'[r].want = mem[r].want
      /\ mem'[r].found = None /\ mem'[r].loaded = None /\ mem'[r].listed = None
      BY <1>2, OverFields
<1>4. HistoryGrows
      BY DEF IInv, IconsTypeOK, Witnessed, HistoryGrows
<1>5. UploadOK(r)'
      BY <1>2, <1>3, <1>4 DEF MemOK, UploadOK, HistoryGrows, Ended
<1>6. DeleteOK(r)'
  <2>1. \A u \in Uuids : rows[u] # None => (rows'[u] = rows[u] \/ rows'[u] = Gone)
        BY DEF RowsMove
  <2>2. op[r] = "delete" => rows[mem[r].id] # None /\ mem[r].id \in Uuids
        BY <1>2 DEF MemOK, DeleteOK, IsRow
  <2> QED BY <1>2, <1>3, <1>4, <2>1, <2>2 DEF MemOK, DeleteOK, HistoryGrows, Here, IsRow, Ended
<1>7. SyncOK(r)'
      BY <1>2, <1>3, <1>4 DEF MemOK, SyncOK, HistoryGrows
<1> QED BY <1>1, <1>2, <1>5, <1>6, <1>7 DEF MemOK, Ended

\* r holds no row any more, and a row that is held is not touched.
LEMMA HoldStays ==
    ASSUME IInv, NEW r \in Requests, Moves(r),
           \A u \in Uuids : /\ hold'[u] \in {hold[u], None} /\ hold'[u] # r
                            /\ hold'[u] # None => rows'[u] = rows[u]
    PROVE  HoldOK'
<1> SUFFICES ASSUME NEW u \in Uuids, hold'[u] # None
             PROVE  /\ op'[hold'[u]] = "delete" /\ pc'[hold'[u]] = "waiting"
                    /\ mem'[hold'[u]].id = u /\ Here(u)'
    BY DEF HoldOK
<1>1. hold'[u] = hold[u] /\ hold[u] # r /\ hold[u] \in Requests /\ rows'[u] = rows[u]
      BY Start DEF TablesTyped
<1>2. /\ op[hold[u]] = "delete" /\ pc[hold[u]] = "waiting"
      /\ mem[hold[u]].id = u /\ Here(u)
      BY <1>1 DEF IInv, HoldOK
<1>3. /\ op'[hold[u]] = op[hold[u]] /\ pc'[hold[u]] = pc[hold[u]]
      /\ mem'[hold[u]] = mem[hold[u]]
      BY <1>1, Start DEF Moves
<1> QED BY <1>1, <1>2, <1>3 DEF Here, IsRow

\* The groups keep their rows, lose them, or get one of their own icons.
LEMMA LinksStay ==
    ASSUME IInv, Witnessed,
           \A g \in Groups :
              \/ link'[g] = None
              \/ link'[g] = link[g] /\ rows'[link[g]] = rows[link[g]]
              \/ Here(link[g])' /\ rows'[link'[g]].ts \in worn[g]
    PROVE  LinksAreOwnIcons'
<1>1. HistoryGrows
      BY DEF IInv, IconsTypeOK, Witnessed, HistoryGrows
<1> SUFFICES ASSUME NEW g \in Groups, link'[g] # None
             PROVE  Here(link[g])' /\ rows'[link'[g]].ts \in worn'[g]
    BY DEF LinksAreOwnIcons
<1>2. CASE link'[g] = link[g] /\ rows'[link[g]] = rows[link[g]]
  <2>1. Here(link[g]) /\ rows[link[g]].ts \in worn[g]
        BY <1>2 DEF IInv, LinksAreOwnIcons
  <2> QED BY <1>1, <1>2, <2>1 DEF Here, IsRow, HistoryGrows
<1>3. CASE Here(link[g])' /\ rows'[link'[g]].ts \in worn[g]
      BY <1>1, <1>3 DEF HistoryGrows
<1> QED BY <1>2, <1>3

\* Rows go, and then new ones come.
LEMMA InsertStep ==
    ASSUME IInv, NEW old \in [Uuids -> {None, Gone} \cup IconRow], NEW added \in SUBSET Icons,
           Insert(old, added),
           \A u \in Uuids : old[u] = rows[u] \/ (IsRow(u) /\ old[u] = Gone)
    PROVE  /\ rows' \in [Uuids -> {None, Gone} \cup IconRow] /\ OneRow' /\ RowsMove
           /\ \A u \in Uuids : rows[u] # None => rows'[u] = old[u]
<1>1. \A u \in Uuids : old[u] = None <=> rows[u] = None
      BY DEF IsRow
<1>2. \A u \in Uuids : old[u] \in IconRow /\ old[u].here => Here(u) /\ old[u] = rows[u]
      BY DEF Here, IsRow
<1>3. \A u, v \in Uuids : old[u] \in IconRow /\ old[u].here /\ old[v] \in IconRow /\ old[v].here
                          /\ u # v => old[u].ts # old[v].ts
      BY <1>2 DEF IInv, OneRow
<1>4. /\ rows' \in [Uuids -> {None, Gone} \cup IconRow] /\ OneRow'
      /\ \A u \in Uuids : rows'[u] = old[u] \/ (rows[u] = None /\ rows'[u] \in IconRow)
      BY <1>1, <1>3, Inserted
<1> QED BY <1>4 DEF RowsMove, IsRow

LEMMA SaveIconStep ==
    ASSUME IInv, Witnessed, NEW r \in Requests, SaveIcon(r)
    PROVE  IInv'
<1>1. mem[r].ts \in Icons /\ pc[r] = "saving" /\ op[r] = "upload"
      BY Start DEF SaveIcon, MemOK, UploadOK, Finish, Goto
<1>2. /\ rows' \in [Uuids -> {None, Gone} \cup IconRow] /\ OneRow' /\ RowsMove
      /\ \A u \in Uuids : rows[u] # None => rows'[u] = rows[u]
      BY <1>1, Start, InsertStep DEF SaveIcon, TablesTyped
<1>3. Moves(r) /\ MemOK(r)'
      BY <1>1, <1>2, FinishStep DEF SaveIcon, Finish, Goto, Ended
<1>4. HoldOK'
  <2>1. \A u \in Uuids : hold[u] # None => rows[u] # None
        BY DEF IInv, HoldOK, Here, IsRow
  <2> QED BY <1>1, <1>2, <1>3, <2>1, Start, HoldStays DEF SaveIcon
<1>5. LinksAreOwnIcons'
  <2>1. \A g \in Groups : link[g] # None => link[g] \in Uuids /\ rows[link[g]] # None
        BY Start DEF IInv, LinksAreOwnIcons, Here, IsRow, TablesTyped
  <2> QED BY <1>2, <2>1, LinksStay DEF SaveIcon
<1>6. TablesTyped' /\ VoiceTyped'
      BY <1>2, Start DEF TablesTyped, VoiceTyped, SaveIcon, Finish, Goto, voice
<1> QED BY <1>2, <1>3, <1>4, <1>5, <1>6, Assemble

LEMMA InsertMissingStep ==
    ASSUME IInv, Witnessed, NEW r \in Requests, InsertMissing(r)
    PROVE  IInv'
<1> DEFINE m == [mem[r] EXCEPT !.known = None, !.found = None, !.ask = {}]
<1>1. /\ mem[r] \in Memory /\ MemOK(r) /\ m \in Memory /\ mem' = [mem EXCEPT ![r] = m]
      /\ pc[r] = "fetching" /\ op[r] = "group" /\ pc' = [pc EXCEPT ![r] = "linking"]
      /\ UNCHANGED <<op, msg, hold, link, voice>>
      BY Start, MemorySet DEF InsertMissing, Goto
<1>2. mem[r].found \ mem[r].known \in SUBSET Icons
      BY <1>1 DEF InsertMissing, HasFetched, Memory
<1>3. /\ rows' \in [Uuids -> {None, Gone} \cup IconRow] /\ OneRow' /\ RowsMove
      /\ \A u \in Uuids : rows[u] # None => rows'[u] = rows[u]
      BY <1>2, Start, InsertStep DEF InsertMissing, TablesTyped
<1>4. Moves(r)
      BY <1>1, Start DEF Moves, Places
<1>5. MemOK(r)'
  <2>1. HistoryGrows
        BY DEF IInv, IconsTypeOK, Witnessed, HistoryGrows
  <2>3. /\ mem[r].loaded # None => \A g \in Groups : mem[r].loaded[g] \in Uuids \cup {None}
        /\ mem[r].listed # None => \A x \in mem[r].listed : x.id \in Uuids /\ x.ts \in Icons
        BY <1>1 DEF Memory
  <2>4. \A u \in Uuids, g \in Groups : GoneOr(u, worn[g]) => GoneOr(u, worn[g])'
    <3>1. \A u \in Uuids : rows[u] # None => rows'[u] = rows[u]
          BY <1>3
    <3> QED BY <2>1, <3>1 DEF GoneOr, Here, IsRow, HistoryGrows
  <2>5. \A u \in Uuids, i \in Icons : GoneOr(u, {i}) => GoneOr(u, {i})'
    <3>1. \A u \in Uuids : rows[u] # None => rows'[u] = rows[u]
          BY <1>3
    <3> QED BY <3>1 DEF GoneOr, Here, IsRow
  <2>6. /\ mem'[r].want = mem[r].want /\ mem'[r].loaded = mem[r].loaded
        /\ mem'[r].listed = mem[r].listed /\ mem'[r].found = None
        /\ op'[r] = "group" /\ pc'[r] = "linking"
        BY <1>1, Start DEF Memory
  <2>7. SyncOK(r)'
        BY <1>1, <2>1, <2>3, <2>4, <2>5, <2>6 DEF MemOK, SyncOK, HistoryGrows
  <2> QED BY <2>6, <2>7 DEF MemOK, UploadOK, DeleteOK
<1>6. HoldOK'
  <2>1. \A u \in Uuids : hold[u] # None => rows[u] # None
        BY DEF IInv, HoldOK, Here, IsRow
  <2> QED BY <1>1, <1>3, <1>4, <2>1, Start, HoldStays
<1>7. LinksAreOwnIcons'
  <2>1. \A g \in Groups : link[g] # None => link[g] \in Uuids /\ rows[link[g]] # None
        BY Start DEF IInv, LinksAreOwnIcons, Here, IsRow, TablesTyped
  <2> QED BY <1>1, <1>3, <2>1, LinksStay
<1>8. TablesTyped' /\ VoiceTyped'
      BY <1>1, <1>3, Start DEF TablesTyped, VoiceTyped, voice
<1> QED BY <1>3, <1>4, <1>5, <1>6, <1>7, <1>8, Assemble

LEMMA DeleteRowStep ==
    ASSUME IInv, Witnessed, NEW r \in Requests, DeleteRow(r)
    PROVE  IInv'
<1>1. /\ pc[r] = "found" /\ pc' = [pc EXCEPT ![r] = "waiting"] /\ msg' = [msg EXCEPT ![r] = "out"]
      /\ UNCHANGED <<op, mem, rows, link, voice>> /\ MemOK(r) /\ op[r] = "delete"
      BY Start DEF DeleteRow, Goto, Send, MemOK
<1>2. Moves(r)
      BY <1>1, Start DEF Moves, Places
<1>3. /\ pc'[r] = "waiting" /\ msg'[r] = "out" /\ mem'[r] = mem[r] /\ op'[r] = "delete"
      /\ rows' = rows /\ mem[r].id \in Uuids
      BY <1>1, Start DEF MemOK, DeleteOK
<1>4. MemOK(r)'
  <2>1. HistoryGrows
        BY DEF IInv, IconsTypeOK, Witnessed, HistoryGrows
  <2>2. DeleteOK(r)'
        BY <1>1, <1>3 DEF MemOK, DeleteOK, IsRow, Ended
  <2>3. SyncOK(r)'
        BY <1>1, <1>3, <2>1 DEF MemOK, SyncOK, HistoryGrows, GoneOr, Here, IsRow
  <2> QED BY <1>3, <2>2, <2>3 DEF MemOK, UploadOK
<1>5. /\ \A u \in Uuids : hold'[u] # hold[u] => u = mem[r].id /\ Here(u) /\ hold'[u] = r
      /\ hold' \in [Uuids -> Requests \cup {None}]
      BY <1>3, Start DEF DeleteRow, TablesTyped
<1>6. HoldOK'
  <2> SUFFICES ASSUME NEW u \in Uuids, hold'[u] # None
               PROVE  /\ op'[hold'[u]] = "delete" /\ pc'[hold'[u]] = "waiting"
                      /\ mem'[hold'[u]].id = u /\ Here(u)'
      BY DEF HoldOK
  <2>1. CASE hold'[u] # hold[u]
        BY <1>3, <1>5, <2>1 DEF Here, IsRow
  <2>2. CASE hold'[u] = hold[u]
    <3>1. hold[u] \in Requests /\ hold[u] # r
          BY <1>1, <2>2, Start DEF TablesTyped
    <3>2. /\ op[hold[u]] = "delete" /\ pc[hold[u]] = "waiting"
          /\ mem[hold[u]].id = u /\ Here(u)
          BY <2>2 DEF IInv, HoldOK
    <3>3. /\ op'[hold[u]] = op[hold[u]] /\ pc'[hold[u]] = pc[hold[u]]
          /\ mem'[hold[u]] = mem[hold[u]]
          BY <1>2, <3>1, Start DEF Moves
    <3> QED BY <1>3, <2>2, <3>2, <3>3 DEF Here, IsRow
  <2> QED BY <2>1, <2>2
<1>7. OneRow' /\ RowsMove
      BY <1>1 DEF IInv, OneRow, Here, IsRow, RowsMove
<1>8. LinksAreOwnIcons'
      BY <1>1, LinksStay
<1>9. TablesTyped' /\ VoiceTyped'
      BY <1>1, <1>5, Start DEF TablesTyped, VoiceTyped, voice
<1> QED BY <1>2, <1>4, <1>6, <1>7, <1>8, <1>9, Assemble

\* What a transaction that commits has deleted.
LEMMA HeldRow ==
    ASSUME IInv, NEW r \in Requests, NEW u \in Held(r)
    PROVE  u \in Uuids /\ hold[u] = r /\ Here(u) /\ mem[r].id = u /\ op[r] = "delete"
<1>1. u \in Uuids /\ hold[u] = r
      BY DEF Held
<1> QED BY <1>1 DEF IInv, HoldOK

LEMMA CommitStep ==
    ASSUME IInv, Witnessed, NEW r \in Requests, Commit(r)
    PROVE  IInv'
<1> DEFINE x == IF Held(r) = {} THEN "missing" ELSE "done"
<1>1. /\ pc[r] = "waiting" /\ op[r] = "delete" /\ pc' = [pc EXCEPT ![r] = x]
      /\ mem' = [mem EXCEPT ![r] = Over(mem[r])] /\ UNCHANGED <<op, msg, voice>> /\ x \in Ended
      BY DEF Commit, Finish, Goto, Ended
<1>2. \A u \in Uuids : rows'[u] = IF u \in Held(r) THEN Gone ELSE rows[u]
      BY DEF Commit
<1>3. \A u \in Held(r) : IsRow(u) /\ mem[r].id = u /\ u \in Uuids
      BY HeldRow DEF Here
<1>4. RowsMove
      BY <1>2, <1>3 DEF RowsMove
<1>5. x = "done" => rows'[mem[r].id] = Gone
  <2>1. CASE Held(r) = {}
        BY <2>1
  <2>2. CASE Held(r) # {}
    <3>1. PICK u \in Held(r) : TRUE
          BY <2>2
    <3> QED BY <1>2, <1>3, <3>1
  <2> QED BY <2>1, <2>2
<1> HIDE DEF x
<1>6. Moves(r) /\ MemOK(r)'
      BY <1>1, <1>4, <1>5, FinishStep
<1>7. \A u \in Uuids : hold'[u] = IF hold[u] = r THEN None ELSE hold[u]
      BY DEF Commit, Release
<1>8. HoldOK'
  <2>1. \A u \in Uuids : /\ hold'[u] \in {hold[u], None} /\ hold'[u] # r
                         /\ hold'[u] # None => rows'[u] = rows[u]
        BY <1>2, <1>7 DEF Held
  <2> QED BY <1>6, <2>1, HoldStays
<1>9. OneRow'
  <2>1. \A u \in Uuids : Here(u)' => Here(u) /\ rows'[u] = rows[u]
        BY <1>2 DEF Here, IsRow
  <2> QED BY <2>1 DEF IInv, OneRow
<1>10. /\ \A g \in Groups : link'[g] = IF link[g] \in Held(r) THEN None ELSE link[g]
       /\ link' \in [Groups -> Uuids \cup {None}]
       BY Start DEF Commit, Unlink, TablesTyped
<1>11. LinksAreOwnIcons'
  <2>1. \A g \in Groups : link'[g] = None \/ (link'[g] = link[g] /\ rows'[link[g]] = rows[link[g]])
        BY <1>2, <1>10, Start DEF TablesTyped
  <2> QED BY <2>1, LinksStay
<1>12. TablesTyped' /\ VoiceTyped'
  <2>1. /\ rows' = [u \in Uuids |-> IF u \in Held(r) THEN Gone ELSE rows[u]]
        /\ hold' = [u \in Uuids |-> IF hold[u] = r THEN None ELSE hold[u]]
        BY DEF Commit, Release
  <2>2. rows' \in [Uuids -> {None, Gone} \cup IconRow] /\ hold' \in [Uuids -> Requests \cup {None}]
        BY <2>1, Start DEF TablesTyped
  <2> QED BY <1>1, <1>10, <2>2, Start DEF TablesTyped, VoiceTyped, voice
<1> QED BY <1>4, <1>6, <1>8, <1>9, <1>11, <1>12, Assemble

\* What updateGroupIcons gives a group is its row or a row of its icon.
LEMMA LinkedRow ==
    ASSUME IInv, NEW r \in Requests, NEW g \in Groups,
           mem[r].loaded # None, mem[r].listed # None, Linked(r, g) # None
    PROVE  Linked(r, g) \in Uuids /\ GoneOr(Linked(r, g), worn[g])
<1>1. /\ mem[r] \in Memory /\ SyncOK(r)
      BY Start DEF MemOK
<1>2. /\ mem[r].loaded[g] \in Uuids \cup {None}
      /\ \A x \in mem[r].listed : x.id \in Uuids /\ x.ts \in Icons
      BY <1>1 DEF Memory
<1>3. CASE g \in mem[r].same \/ OwnRows(r, g) = {}
      BY <1>1, <1>2, <1>3 DEF Linked, SyncOK
<1>4. CASE ~(g \in mem[r].same \/ OwnRows(r, g) = {})
  <2>1. PICK x \in OwnRows(r, g) : x = CHOOSE y \in OwnRows(r, g) : TRUE
        BY <1>4
  <2>2. mem[r].want[g] # None
        BY <1>4 DEF Linked
  <2>3. Linked(r, g) = x.id
        BY <1>4, <2>1, <2>2 DEF Linked
  <2>4. x \in mem[r].listed /\ x.ts \in worn[g]
        BY <1>1, <2>1, <2>2 DEF SyncOK, OwnRows
  <2>5. GoneOr(x.id, {x.ts}) /\ x.id \in Uuids
        BY <1>1, <1>2, <2>4 DEF SyncOK
  <2> QED BY <2>3, <2>4, <2>5 DEF GoneOr
<1> QED BY <1>3, <1>4

LEMMA SaveLinksStep ==
    ASSUME IInv, Witnessed, NEW r \in Requests, SaveLinks(r)
    PROVE  IInv'
<1>1. /\ pc[r] = "linking" /\ pc' = [pc EXCEPT ![r] = "done"]
      /\ mem' = [mem EXCEPT ![r] = Over(mem[r])] /\ UNCHANGED <<op, msg, rows, hold, voice>>
      /\ mem[r].loaded # None /\ mem[r].listed # None
      BY DEF SaveLinks, Finish, Goto
<1>2. RowsMove
      BY <1>1 DEF RowsMove
<1>3. op[r] # "delete"
      BY <1>1, Start DEF MemOK, DeleteOK, Ended
<1>4. Moves(r) /\ MemOK(r)'
      BY <1>1, <1>2, <1>3, FinishStep DEF Ended
<1>5. \A g \in Groups : Linked(r, g) # None =>
          Linked(r, g) \in Uuids /\ GoneOr(Linked(r, g), worn[g])
      BY <1>1, LinkedRow
<1>6. link' = [g \in Groups |-> Linked(r, g)]
      BY DEF SaveLinks
<1>7. HoldOK'
      BY <1>1, <1>4, Start, HoldStays
<1>8. LinksAreOwnIcons'
  <2>1. ASSUME NEW g \in Groups
        PROVE  \/ link'[g] = None
               \/ link'[g] = link[g] /\ rows'[link[g]] = rows[link[g]]
               \/ Here(link[g])' /\ rows'[link'[g]].ts \in worn[g]
    <3>1. CASE Linked(r, g) = None \/ Linked(r, g) = link[g]
          BY <1>1, <1>6, <3>1
    <3>2. CASE Linked(r, g) \notin {None, link[g]}
      <4>1. IsRow(Linked(r, g))
            BY <3>2 DEF SaveLinks
      <4>2. Here(Linked(r, g)) /\ rows[Linked(r, g)].ts \in worn[g]
            BY <1>5, <3>2, <4>1 DEF GoneOr, IsRow
      <4> QED BY <1>1, <1>6, <4>2 DEF Here, IsRow
    <3> QED BY <3>1, <3>2
  <2> QED BY <2>1, LinksStay
<1>9. OneRow'
      BY <1>1 DEF IInv, OneRow, Here, IsRow
<1>10. TablesTyped' /\ VoiceTyped'
      BY <1>1, <1>5, <1>6, Start DEF TablesTyped, VoiceTyped, voice
<1> QED BY <1>2, <1>4, <1>7, <1>8, <1>9, <1>10, Assemble

LEMMA CleanUpStep ==
    ASSUME IInv, Witnessed, NEW r \in Requests, CleanUp(r)
    PROVE  IInv'
<1> DEFINE kept == [u \in Uuids |-> IF u \in Outdated(r) THEN Gone ELSE rows[u]]
           added == mem[r].found \ mem[r].known
<1>1. /\ pc[r] = "fetching" /\ op[r] = "full" /\ pc' = [pc EXCEPT ![r] = "done"]
      /\ mem' = [mem EXCEPT ![r] = Over(mem[r])] /\ UNCHANGED <<op, msg, hold, voice>>
      /\ Insert(kept, added)
      BY DEF CleanUp, Finish, Goto
<1>2. added \in SUBSET Icons
      BY Start DEF CleanUp, HasFetched, Memory
<1>3. \A u \in Outdated(r) : u \in Uuids /\ IsRow(u) /\ hold[u] = None
      BY DEF Outdated, CleanUp, Free
<1>4. kept \in [Uuids -> {None, Gone} \cup IconRow]
      BY Start DEF TablesTyped
<1>5. \A u \in Uuids : kept[u] = rows[u] \/ (IsRow(u) /\ kept[u] = Gone)
      BY <1>3
<1>6. \A u \in Uuids : u \notin Outdated(r) => kept[u] = rows[u]
      OBVIOUS
<1> HIDE DEF kept, added
<1>7. /\ rows' \in [Uuids -> {None, Gone} \cup IconRow] /\ OneRow' /\ RowsMove
      /\ \A u \in Uuids : rows[u] # None => rows'[u] = kept[u]
      BY <1>1, <1>2, <1>4, <1>5, InsertStep
<1>8. Moves(r) /\ MemOK(r)'
      BY <1>1, <1>7, FinishStep DEF Ended
<1>9. HoldOK'
  <2>1. \A u \in Uuids : hold[u] # None => rows[u] # None
        BY DEF IInv, HoldOK, Here, IsRow
  <2> QED BY <1>1, <1>3, <1>6, <1>7, <1>8, <2>1, Start, HoldStays
<1>10. /\ \A g \in Groups : link'[g] = IF link[g] \in Outdated(r) THEN None ELSE link[g]
       /\ link' \in [Groups -> Uuids \cup {None}]
       BY Start DEF CleanUp, Unlink, TablesTyped
<1>11. LinksAreOwnIcons'
  <2>1. \A g \in Groups : link[g] # None => link[g] \in Uuids /\ rows[link[g]] # None
        BY Start DEF IInv, LinksAreOwnIcons, Here, IsRow, TablesTyped
  <2>2. \A g \in Groups : link'[g] = None \/ (link'[g] = link[g] /\ rows'[link[g]] = rows[link[g]])
        BY <1>6, <1>7, <1>10, <2>1
  <2> QED BY <2>2, LinksStay
<1>12. TablesTyped' /\ VoiceTyped'
       BY <1>1, <1>7, <1>10, Start DEF TablesTyped, VoiceTyped, voice
<1> QED BY <1>7, <1>8, <1>9, <1>11, <1>12, Assemble

LEMMA FailStep ==
    ASSUME IInv, Witnessed, NEW r \in Requests, Fail(r)
    PROVE  IInv'
<1>1. /\ pc[r] # "idle" /\ pc' = [pc EXCEPT ![r] = "failed"]
      /\ mem' = [mem EXCEPT ![r] = Over(mem[r])] /\ UNCHANGED <<op, msg, rows, link, voice>>
      BY DEF Fail, Active, Finish, Goto
<1>2. RowsMove
      BY <1>1 DEF RowsMove
<1>3. Moves(r) /\ MemOK(r)'
      BY <1>1, <1>2, FinishStep DEF Ended
<1>4. hold' = [u \in Uuids |-> IF hold[u] = r THEN None ELSE hold[u]]
      BY DEF Fail, Release
<1>5. HoldOK'
      BY <1>1, <1>3, <1>4, HoldStays
<1>6. OneRow'
      BY <1>1 DEF IInv, OneRow, Here, IsRow
<1>7. LinksAreOwnIcons'
      BY <1>1, LinksStay
<1>8. TablesTyped' /\ VoiceTyped'
      BY <1>1, <1>4, Start DEF TablesTyped, VoiceTyped, voice
<1> QED BY <1>2, <1>3, <1>5, <1>6, <1>7, <1>8, Assemble

-----------------------------------------------------------------------------
(* The theorems                                                            *)

LEMMA IconsStep == IInv /\ [Next]_ivars => IInv'
<1> SUFFICES ASSUME IInv, [Next]_ivars PROVE IInv'
    OBVIOUS
<1>1. CASE UNCHANGED ivars
  <2>1. UNCHANGED <<store, rows, hold, face, link, pc, op, mem, msg, had, missed, worn>>
        BY <1>1 DEF ivars, tables, voice, requests, history
  <2>2. IconsTypeOK'
        BY <2>1 DEF IInv, IconsTypeOK, Active
  <2>3. \A r \in Requests : MemOK(r)'
        BY <2>1 DEF IInv, MemOK, UploadOK, DeleteOK, SyncOK, GoneOr, Here, IsRow
  <2>4. HoldOK' /\ OneRow' /\ LinksAreOwnIcons'
        BY <2>1 DEF IInv, HoldOK, OneRow, LinksAreOwnIcons, Here, IsRow
  <2> QED BY <2>1, <2>2, <2>3, <2>4 DEF IInv
<1>2. CASE Next
  <2>1. Witnessed
        BY <1>2 DEF Next, Witnessed
  <2>2. CASE Outside
        BY <2>1, <2>2, OutsideStep
  <2>3. CASE \E r \in Requests :
                \/ \E i \in Icons : Upload(r, i)
                \/ \E u \in Uuids : FindIcon(r, u)
                \/ BeginGroupSync(r) \/ BeginFullSync(r) \/ Handle(r)
                \/ BotUploads(r) \/ BotDeletes(r) \/ Lose(r)
    <3> PICK r \in Requests :
                \/ \E i \in Icons : Upload(r, i)
                \/ \E u \in Uuids : FindIcon(r, u)
                \/ BeginGroupSync(r) \/ BeginFullSync(r) \/ Handle(r)
                \/ BotUploads(r) \/ BotDeletes(r) \/ Lose(r)
        BY <2>3
    <3>1. CASE \E i \in Icons : Upload(r, i)
          BY <2>1, <3>1, UploadStep
    <3>2. CASE \E u \in Uuids : FindIcon(r, u)
          BY <2>1, <3>2, FindIconStep
    <3>3. CASE BeginGroupSync(r)
          BY <2>1, <3>3, BeginGroupSyncStep
    <3>4. CASE BeginFullSync(r)
          BY <2>1, <3>4, BeginFullSyncStep
    <3>5. CASE BotUploads(r) \/ BotDeletes(r) \/ Lose(r)
          BY <2>1, <3>5, BotStep
    <3>6. CASE Handle(r)
      <4>1. CASE Uploaded(r)
            BY <2>1, <4>1, UploadedStep
      <4>2. CASE SaveIcon(r)
            BY <2>1, <4>2, SaveIconStep
      <4>3. CASE DeleteRow(r)
            BY <2>1, <4>3, DeleteRowStep
      <4>4. CASE Commit(r)
            BY <2>1, <4>4, CommitStep
      <4>5. CASE FindMissing(r)
            BY <2>1, <4>5, FindMissingStep
      <4>6. CASE ReadIcons(r) \/ FetchIcons(r) \/ LoadGroups(r) \/ ListIcons(r)
            BY <2>1, <4>6, ReadingStep
      <4>7. CASE InsertMissing(r)
            BY <2>1, <4>7, InsertMissingStep
      <4>8. CASE SaveLinks(r)
            BY <2>1, <4>8, SaveLinksStep
      <4>9. CASE CleanUp(r)
            BY <2>1, <4>9, CleanUpStep
      <4>10. CASE Fail(r)
            BY <2>1, <4>10, FailStep
      <4> QED BY <3>6, <4>1, <4>2, <4>3, <4>4, <4>5, <4>6, <4>7, <4>8, <4>9, <4>10 DEF Handle
    <3> QED BY <3>1, <3>2, <3>3, <3>4, <3>5, <3>6
  <2> QED BY <1>2, <2>2, <2>3 DEF Next, Step
<1> QED BY <1>1, <1>2

\* What a request remembers of a row is true of it or the row is gone; only a
\* deletion waiting for the bot holds a row; the key of the icons is unique.
THEOREM IconsInvariance == Spec => []IInv
BY IInit, IconsStep, PTL DEF Spec

\* The model's values have their types, and an ended request holds no row.
THEOREM IconsTypeCorrect == Spec => []IconsTypeOK
<1>1. IInv => IconsTypeOK
      BY DEF IInv
<1> QED BY <1>1, IconsInvariance, PTL

\* deleteIcon: a deletion that was answered well has deleted its row.
THEOREM DeletionsAreComplete == Spec => []DeletionIsComplete
<1>1. IInv => DeletionIsComplete
      BY DEF IInv, DeletionIsComplete, MemOK, DeleteOK
<1> QED BY <1>1, IconsInvariance, PTL

\* updateGroupIcons: a group shows only rows of icons it has had.
THEOREM GroupsShowOwnIcons == Spec => []LinksAreOwnIcons
<1>1. IInv => LinksAreOwnIcons
      BY DEF IInv
<1> QED BY <1>1, IconsInvariance, PTL

-----------------------------------------------------------------------------
(* A group sync with no other request                                      *)

Lone(r) == op[r] = "group" /\ \A q \in Requests \ {r} : pc[q] = "idle"

\* What ListIcons reads, and what SaveLinks makes of it.
Current(r) == {[id |-> u, ts |-> rows[u].ts] : u \in UNION {RowsOf(i) : i \in Wanted(r)}}
Shows(r) == \A g \in Groups : \/ ShowsSameNumber(g)
                              \/ IF mem[r].want[g] = None THEN link[g] = None
                                 ELSE \A u \in RowsOf(mem[r].want[g]) : link[g] = u

\* The groups it leaves as they are have a row with their own number.
Same(r) == \A g \in mem[r].same :
    mem[r].loaded[g] # None /\ <<g, rows[mem[r].loaded[g]].ts>> \in SameNumber

LoneAt(r) == /\ pc[r] \in {"asking", "fetching"} => mem[r].listed = None /\ mem[r].loaded = None
             /\ pc[r] = "linking" /\ mem[r].listed # None => mem[r].listed = Current(r)
             /\ pc[r] = "linking" /\ mem[r].loaded # None => Same(r)
             /\ pc[r] = "done" => Shows(r)
LoneOK == \A r \in Requests : Lone(r) => LoneAt(r)

\* A step that moves no request and no row.
LEMMA LoneStays ==
    ASSUME LoneOK, UNCHANGED <<rows, link, pc, op, mem>> PROVE LoneOK'
BY DEF LoneOK, Lone, LoneAt, Current, Same, Shows, ShowsSameNumber, RowsOf, Here, IsRow, Wanted

LEMMA Shown ==
    ASSUME IInv, NEW r \in Requests, LoneAt(r), SaveLinks(r)
    PROVE  Shows(r)'
<1>1. /\ pc[r] = "linking" /\ mem[r].listed # None /\ mem[r].loaded # None /\ rows' = rows
      /\ link' = [g \in Groups |-> Linked(r, g)] /\ mem' = [mem EXCEPT ![r] = Over(mem[r])]
      BY DEF SaveLinks, Finish, Goto
<1>2. mem'[r].want = mem[r].want /\ mem[r] \in Memory
      BY <1>1, Start, OverFields
<1>3. ASSUME NEW g \in Groups \ mem[r].same, mem[r].want[g] # None, NEW u \in RowsOf(mem[r].want[g])
      PROVE  link'[g] = u
  <2>1. mem[r].listed = Current(r)
        BY <1>1 DEF LoneAt
  <2>2. u \in Uuids /\ Here(u) /\ rows[u].ts = mem[r].want[g] /\ mem[r].want[g] \in Wanted(r)
        BY <1>3 DEF RowsOf, Wanted
  <2>3. [id |-> u, ts |-> rows[u].ts] \in OwnRows(r, g)
        BY <1>3, <2>1, <2>2 DEF Current, OwnRows
  <2>4. PICK x \in OwnRows(r, g) : x = CHOOSE y \in OwnRows(r, g) : TRUE
        BY <2>3
  <2>5. PICK v \in UNION {RowsOf(i) : i \in Wanted(r)} : x = [id |-> v, ts |-> rows[v].ts]
        BY <2>1 DEF Current, OwnRows
  <2>6. v \in Uuids /\ Here(v) /\ rows[v].ts = mem[r].want[g]
        BY <2>5 DEF RowsOf, OwnRows
  <2>7. v = u
        BY <2>2, <2>6 DEF IInv, OneRow
  <2>8. Linked(r, g) = x.id
        BY <1>3, <2>3, <2>4 DEF Linked
  <2> QED BY <1>1, <2>5, <2>7, <2>8
<1>4. ASSUME NEW g \in Groups \ mem[r].same, mem[r].want[g] = None PROVE link'[g] = None
      BY <1>1, <1>4 DEF Linked
<1>5. ASSUME NEW g \in Groups, g \in mem[r].same PROVE ShowsSameNumber(g)'
  <2>1. link'[g] = mem[r].loaded[g]
        BY <1>1, <1>5 DEF Linked
  <2> QED BY <1>1, <1>5, <2>1 DEF LoneAt, Same, ShowsSameNumber
<1> QED BY <1>1, <1>2, <1>3, <1>4, <1>5 DEF Shows, RowsOf, Here, IsRow

LEMMA LoneOwn ==
    ASSUME IInv, LoneOK, NEW r \in Requests, Lone(r)', BeginGroupSync(r) \/ Handle(r)
    PROVE  LoneAt(r)'
<1>1. /\ MemOK(r) /\ mem \in [Requests -> Memory] /\ mem[r] \in Memory
      /\ pc \in [Requests -> Places] /\ op \in [Requests -> Methods]
      BY Start
<1>2. CASE BeginGroupSync(r)
  <2>1. pc'[r] = "asking" /\ mem'[r] = [Blank EXCEPT !.want = face]
        BY <1>1, <1>2 DEF BeginGroupSync, Begin
  <2>2. mem'[r].listed = None /\ mem'[r].loaded = None
        BY <2>1 DEF Blank
  <2> QED BY <2>1, <2>2 DEF LoneAt
<1>3. ASSUME Handle(r) PROVE LoneAt(r)
  <2>1. op' = op /\ \A q \in Requests \ {r} : pc'[q] = pc[q]
        BY <1>1, <1>3 DEF Handle, Uploaded, SaveIcon, DeleteRow, Commit, FindMissing, ReadIcons, FetchIcons,
           InsertMissing, LoadGroups, ListIcons, SaveLinks, CleanUp, Fail, Read, Finish, Goto
  <2> QED BY <2>1 DEF LoneOK, Lone
<1>4. op'[r] = "group"
      BY DEF Lone
<1>5. CASE Uploaded(r) \/ SaveIcon(r) \/ DeleteRow(r) \/ Commit(r) \/ CleanUp(r)
  <2>1. op'[r] = op[r]
        BY <1>5 DEF Uploaded, SaveIcon, DeleteRow, Commit, CleanUp, Finish, Goto
  <2>2. op[r] \in {"upload", "delete", "full"}
        BY <1>1, <1>5 DEF Uploaded, SaveIcon, DeleteRow, Commit, CleanUp, Finish, Goto, MemOK
  <2> QED BY <1>4, <2>1, <2>2
<1>6. CASE FindMissing(r)
  <2>1. /\ pc[r] = "asking" /\ pc'[r] \in {"linking", "fetching"}
        /\ mem' = [mem EXCEPT ![r].ask = Wanted(r) \ Known]
        BY <1>1, <1>6 DEF FindMissing, Goto
  <2>2. mem'[r].listed = mem[r].listed /\ mem'[r].loaded = mem[r].loaded
        BY <1>1, <2>1 DEF Memory
  <2>3. mem[r].listed = None /\ mem[r].loaded = None
        BY <1>3, <1>6, <2>1 DEF LoneAt, Handle
  <2> QED BY <2>1, <2>2, <2>3 DEF LoneAt
<1>7. CASE ReadIcons(r) \/ FetchIcons(r)
  <2>1. pc[r] = "fetching" /\ pc' = pc
        BY <1>7 DEF ReadIcons, FetchIcons, Read
  <2>2. mem'[r].listed = mem[r].listed /\ mem'[r].loaded = mem[r].loaded
        BY <1>1, <1>7 DEF ReadIcons, FetchIcons, Memory
  <2>3. mem[r].listed = None /\ mem[r].loaded = None
        BY <1>3, <1>7, <2>1 DEF LoneAt, Handle
  <2> QED BY <2>1, <2>2, <2>3 DEF LoneAt
<1>8. CASE InsertMissing(r)
  <2>1. /\ pc[r] = "fetching" /\ pc'[r] = "linking"
        /\ mem' = [mem EXCEPT ![r].known = None, ![r].found = None, ![r].ask = {}]
        BY <1>1, <1>8 DEF InsertMissing, Goto
  <2>2. mem'[r].listed = mem[r].listed /\ mem'[r].loaded = mem[r].loaded
        BY <1>1, <2>1 DEF Memory
  <2>3. mem[r].listed = None /\ mem[r].loaded = None
        BY <1>3, <1>8, <2>1 DEF LoneAt, Handle
  <2> QED BY <2>1, <2>2, <2>3 DEF LoneAt
<1>9. CASE LoadGroups(r)
  <2>1. pc[r] = "linking" /\ pc' = pc /\ rows' = rows /\ link' = link
        BY <1>9 DEF LoadGroups, Read, tables
  <2>2. /\ mem'[r].listed = mem[r].listed /\ mem'[r].want = mem[r].want
        /\ mem'[r].loaded = link /\ mem'[r].same = {g \in Groups : ShowsSameNumber(g)}
        BY <1>1, <1>9 DEF LoadGroups, Memory
  <2>5. Same(r)'
        BY <2>1, <2>2 DEF Same, ShowsSameNumber
  <2>3. Current(r)' = Current(r)
        BY <2>1, <2>2 DEF Current, RowsOf, Here, IsRow, Wanted
  <2>4. mem[r].listed # None => mem[r].listed = Current(r)
        BY <1>3, <1>9, <2>1 DEF LoneAt, Handle
  <2> QED BY <2>1, <2>2, <2>3, <2>4, <2>5 DEF LoneAt
<1>10. CASE ListIcons(r)
  <2>1. pc[r] = "linking" /\ pc' = pc /\ rows' = rows /\ mem' = [mem EXCEPT ![r].listed = Current(r)]
        BY <1>10 DEF ListIcons, Read, tables, Current
  <2>2. /\ mem'[r].listed = Current(r) /\ mem'[r].want = mem[r].want
        /\ mem'[r].loaded = mem[r].loaded /\ mem'[r].same = mem[r].same
        BY <1>1, <2>1 DEF Memory
  <2>3. Current(r)' = Current(r)
        BY <2>1, <2>2 DEF Current, RowsOf, Here, IsRow, Wanted
  <2>4. mem[r].loaded # None => Same(r)'
        BY <1>3, <1>10, <2>1, <2>2 DEF LoneAt, Handle, Same
  <2> QED BY <2>1, <2>2, <2>3, <2>4 DEF LoneAt
<1>11. CASE SaveLinks(r)
  <2>1. pc'[r] = "done"
        BY <1>1, <1>11 DEF SaveLinks, Finish, Goto
  <2> QED BY <1>3, <1>11, <2>1, Shown DEF LoneAt, Handle
<1>12. CASE Fail(r)
  <2>1. pc'[r] = "failed"
        BY <1>1, <1>12 DEF Fail, Finish, Goto
  <2> QED BY <2>1 DEF LoneAt
<1> QED BY <1>2, <1>5, <1>6, <1>7, <1>8, <1>9, <1>10, <1>11, <1>12 DEF Handle

LEMMA LoneStep == IInv /\ LoneOK /\ [Next]_ivars => LoneOK'
<1> SUFFICES ASSUME IInv, LoneOK, [Next]_ivars PROVE LoneOK'
    OBVIOUS
<1>1. CASE UNCHANGED ivars
      BY <1>1, LoneStays DEF ivars, tables, requests
<1>2. CASE Outside
      BY <1>2, LoneStays DEF Outside, tables, requests
<1>3. ASSUME NEW q \in Requests, BotUploads(q) \/ BotDeletes(q) \/ Lose(q) PROVE LoneOK'
      BY <1>3, LoneStays DEF BotUploads, BotDeletes, Lose, Receive, tables
<1>4. ASSUME NEW q \in Requests,
             \/ \E i \in Icons : Upload(q, i)
             \/ \E u \in Uuids : FindIcon(q, u)
             \/ BeginGroupSync(q) \/ BeginFullSync(q) \/ Handle(q)
      PROVE  LoneOK'
  <2>1. pc \in [Requests -> Places] /\ op \in [Requests -> Methods]
        BY Start
  <2>2. pc'[q] # "idle"
        BY <1>4, <2>1 DEF Upload, FindIcon, BeginGroupSync, BeginFullSync, Begin, Handle, Uploaded, SaveIcon,
           DeleteRow, Commit, FindMissing, ReadIcons, FetchIcons, InsertMissing, LoadGroups, ListIcons,
           SaveLinks, CleanUp, Fail, Read, Finish, Goto
  <2> SUFFICES ASSUME NEW r \in Requests, Lone(r)' PROVE LoneAt(r)'
      BY DEF LoneOK
  <2>3. q = r
        BY <2>2 DEF Lone
  <2>4. ~(BeginFullSync(q) \/ (\E i \in Icons : Upload(q, i)) \/ \E u \in Uuids : FindIcon(q, u))
        BY <2>1, <2>3 DEF BeginFullSync, Upload, FindIcon, Begin, Lone
  <2> QED BY <1>4, <2>3, <2>4, LoneOwn
<1> QED BY <1>1, <1>2, <1>3, <1>4 DEF Next, Step

\* updateGroupIcons: when the only request there has been is a group sync and it is
\* done, every group whose icon has a row shows it, and one without an icon none.
THEOREM LoneSyncsLink == Spec => []LoneSyncLinks
<1>1. Init => LoneOK
      BY DEF Init, LoneOK, Lone
<1>2. IInv /\ LoneOK => LoneSyncLinks
      BY DEF LoneOK, Lone, LoneAt, Shows, LoneSyncLinks
<1> QED BY <1>1, <1>2, IInit, IconsStep, LoneStep, PTL DEF Spec

-----------------------------------------------------------------------------
(* The refinement                                                          *)

Table == [u \in Uuids |->
            IF Here(u) THEN [ts |-> rows[u].ts, old |-> rows[u].old]
            ELSE IF rows[u] = None THEN None ELSE Gone]

LEMMA TableRows ==
    ASSUME TablesTyped
    PROVE  /\ \A u \in Uuids : /\ Table[u] \in Promise!Entry <=> Here(u)
                               /\ Here(u) => Table[u].ts = rows[u].ts /\ Table[u].old = rows[u].old
                               /\ Table[u] = None <=> rows[u] = None
           /\ Promise!Live = {u \in Uuids : Here(u)}
           /\ Promise!Off = Off
           /\ Promise!Recorded = Known
           /\ Table \in [Uuids -> {None, Gone} \cup Promise!Entry]
<1>1. \A u \in Uuids : Here(u) =>
          /\ rows[u].ts \in Icons /\ rows[u].old \in BOOLEAN
          /\ [ts |-> rows[u].ts, old |-> rows[u].old] \in Promise!Entry /\ rows[u] # None
      BY DEF Here, IsRow, IconRow, Promise!Entry
<1>2. None \notin Promise!Entry /\ Gone \notin Promise!Entry
      BY DEF Promise!Entry
<1>3. \A u \in Uuids : /\ Here(u) => Table[u] = [ts |-> rows[u].ts, old |-> rows[u].old]
                       /\ ~Here(u) => Table[u] = IF rows[u] = None THEN None ELSE Gone
      BY DEF Table
<1>4. \A u \in Uuids : /\ Table[u] \in Promise!Entry <=> Here(u)
                       /\ Here(u) => Table[u].ts = rows[u].ts /\ Table[u].old = rows[u].old
                       /\ Table[u] = None <=> rows[u] = None
  <2> SUFFICES ASSUME NEW u \in Uuids
               PROVE  /\ Table[u] \in Promise!Entry <=> Here(u)
                      /\ Here(u) => Table[u].ts = rows[u].ts /\ Table[u].old = rows[u].old
                      /\ Table[u] = None <=> rows[u] = None
      OBVIOUS
  <2>1. CASE Here(u)
    <3>1. Table[u] = [ts |-> rows[u].ts, old |-> rows[u].old] /\ rows[u] # None
          BY <1>1, <1>3, <2>1
    <3>2. Table[u] \in Promise!Entry
          BY <1>1, <2>1, <3>1
    <3>3. Table[u] # None
          BY <1>2, <3>2
    <3>4. Table[u].ts = rows[u].ts /\ Table[u].old = rows[u].old
          BY <3>1
    <3> QED BY <2>1, <3>1, <3>2, <3>3, <3>4
  <2>2. CASE ~Here(u)
    <3>1. Table[u] = IF rows[u] = None THEN None ELSE Gone
          BY <1>3, <2>2
    <3> QED BY <1>2, <2>2, <3>1
  <2> QED BY <2>1, <2>2
<1>5. Promise!Live = {u \in Uuids : Here(u)}
      BY <1>4 DEF Promise!Live, Table
<1>6. Promise!Off = Off
      BY <1>4, <1>5 DEF Promise!Off, Off, Table
<1>7. Promise!Recorded = Known
      BY <1>4, <1>5 DEF Promise!Recorded, Known, Table
<1>8. Table \in [Uuids -> {None, Gone} \cup Promise!Entry]
  <2>1. \A u \in Uuids : Table[u] \in {None, Gone} \cup Promise!Entry
        BY <1>1, <1>3
  <2> HIDE DEF Here
  <2> QED BY <2>1 DEF Table
<1> QED BY <1>4, <1>5, <1>6, <1>7, <1>8

LEMMA SameOff == TablesTyped => Promise!Off = Off
BY TableRows

\* The rows of another server, and those that stay, are as they were.
LEMMA InsertWrites ==
    ASSUME IInv, TablesTyped', NEW out \in SUBSET Uuids, \A u \in out : IsRow(u),
           NEW added \in SUBSET Icons, added \subseteq had,
           Insert([u \in Uuids |-> IF u \in out THEN Gone ELSE rows[u]], added),
           store' = store
    PROVE  Promise!Write({u \in out : Here(u)}, added)
<1> DEFINE old == [u \in Uuids |-> IF u \in out THEN Gone ELSE rows[u]]
<1> DEFINE struck == {u \in out : Here(u)}
<1>1. TablesTyped
      BY DEF IInv, IconsTypeOK, TablesTyped
<1>2. PICK of \in [added -> Unused] :
          /\ \A i, j \in added : of[i] = of[j] => i = j
          /\ rows' = [u \in Uuids |->
                IF \E i \in added : of[i] = u
                THEN [ts |-> CHOOSE i \in added : of[i] = u, here |-> TRUE, old |-> FALSE]
                ELSE old[u]]
      BY DEF Insert
<1>3. \A u \in Uuids \ out : Here(u) => rows[u].ts \notin added
      BY DEF Insert, Here, IsRow
<1>4. added \subseteq had \ {Table[u].ts : u \in Promise!Live \ struck}
      BY <1>1, <1>3, TableRows
<1>5. of \in [added -> {u \in Uuids : Table[u] = None}]
      BY <1>1, <1>2, TableRows DEF Unused
<1>6. \A u \in Uuids : Table'[u] =
          IF u \in struck THEN Gone
          ELSE IF \E i \in added : of[i] = u
               THEN [ts |-> CHOOSE i \in added : of[i] = u, old |-> FALSE]
               ELSE Table[u]
  <2> SUFFICES ASSUME NEW u \in Uuids
               PROVE  Table'[u] = IF u \in struck THEN Gone
                         ELSE IF \E i \in added : of[i] = u
                              THEN [ts |-> CHOOSE i \in added : of[i] = u, old |-> FALSE]
                              ELSE Table[u]
      OBVIOUS
  <2>0. /\ Here(u)' => Table'[u] = [ts |-> rows'[u].ts, old |-> rows'[u].old]
        /\ ~Here(u)' => Table'[u] = IF rows'[u] = None THEN None ELSE Gone
        /\ Here(u) => Table[u] = [ts |-> rows[u].ts, old |-> rows[u].old]
        /\ ~Here(u) => Table[u] = IF rows[u] = None THEN None ELSE Gone
        BY DEF Table
  <2>1. CASE \E i \in added : of[i] = u
    <3> DEFINE i == CHOOSE j \in added : of[j] = u
    <3>1. i \in added /\ of[i] = u
          BY <2>1
    <3>2. rows[u] = None /\ u \notin out
          BY <1>2, <3>1 DEF Unused, IsRow
    <3>3. rows'[u] = [ts |-> i, here |-> TRUE, old |-> FALSE]
          BY <1>2, <2>1
    <3> HIDE DEF i
    <3>4. rows'[u] \in IconRow
          BY <3>1, <3>3 DEF IconRow
    <3>5. Here(u)' /\ Table'[u] = [ts |-> i, old |-> FALSE]
          BY <2>0, <3>3, <3>4 DEF Here, IsRow
    <3> QED BY <2>1, <3>2, <3>5 DEF i
  <2>2. CASE ~\E i \in added : of[i] = u
    <3>1. rows'[u] = IF u \in out THEN Gone ELSE rows[u]
          BY <1>2, <2>2
    <3>2. CASE u \in out
      <4>1. rows'[u] = Gone /\ ~Here(u)' /\ Table'[u] = Gone
            BY <2>0, <3>1, <3>2 DEF Here, IsRow
      <4>2. u \notin struck => Table[u] = Gone
            BY <2>0, <3>2 DEF IsRow
      <4> QED BY <2>2, <4>1, <4>2
    <3>3. CASE u \notin out
      <4>1. rows'[u] = rows[u] /\ (Here(u)' <=> Here(u))
            BY <3>1, <3>3 DEF Here, IsRow
      <4> QED BY <2>0, <2>2, <3>3, <4>1
    <3> QED BY <3>2, <3>3
  <2> QED BY <2>1, <2>2
<1>7. Table' = [u \in Uuids |->
          IF u \in struck THEN Gone
          ELSE IF \E i \in added : of[i] = u
               THEN [ts |-> CHOOSE i \in added : of[i] = u, old |-> FALSE]
               ELSE Table[u]]
  <2> DEFINE t(u) == IF u \in struck THEN Gone
                     ELSE IF \E i \in added : of[i] = u
                          THEN [ts |-> CHOOSE i \in added : of[i] = u, old |-> FALSE]
                          ELSE Table[u]
  <2>1. \A u \in Uuids : Table'[u] = t(u)
        BY <1>6
  <2> HIDE DEF t
  <2>2. Table' = [u \in Uuids |-> Table'[u]]
        BY DEF Table
  <2>3. Table' = [u \in Uuids |-> t(u)]
        BY <2>1, <2>2
  <2> QED BY <2>3 DEF t
<1> HIDE DEF struck
<1>8. Promise!Write(struck, added)
      BY <1>2, <1>4, <1>5, <1>7 DEF Promise!Write, Table
<1> QED BY <1>8 DEF struck

\* A step that changes no row is the voice server's, or nothing.
LEMMA ServeStep ==
    ASSUME IInv, IInv', Witnessed, rows' = rows
    PROVE  Promise!Serve
<1>1. Table' = Table
      BY DEF Table, Here, IsRow
<1>2. store' \in SUBSET Icons
      BY DEF IInv, IconsTypeOK
<1> QED BY <1>1, <1>2 DEF Promise!Serve, Table

LEMMA InsertsAreRecords ==
    ASSUME IInv, TablesTyped', NEW added \in SUBSET Icons, added \subseteq had,
           Insert(rows, added), store' = store
    PROVE  Promise!Record
<1>1. rows = [u \in Uuids |-> IF u \in {} THEN Gone ELSE rows[u]]
      BY DEF IInv, IconsTypeOK
<1>2. Insert([u \in Uuids |-> IF u \in {} THEN Gone ELSE rows[u]], added)
      BY <1>1
<1>3. Promise!Write({u \in {} : Here(u)}, added)
      BY <1>2, InsertWrites
<1>4. {u \in {} : Here(u)} = {}
      OBVIOUS
<1>5. Promise!Write({}, added)
      BY <1>3, <1>4
<1> QED BY <1>5 DEF Promise!Record

LEMMA PromisedStep ==
    ASSUME IInv, IInv', Witnessed, Step
    PROVE  Promise!Serve \/ Promise!Record \/ Promise!Purge \/ \E u \in Uuids : Promise!Strike(u)
<1>1. TablesTyped /\ TablesTyped'
      BY DEF IInv, IconsTypeOK, TablesTyped
<1>2. CASE rows' = rows
      BY <1>2, ServeStep
<1>3. ASSUME NEW r \in Requests, SaveIcon(r)
      PROVE  Promise!Record
  <2>1. mem[r].ts \in Icons /\ mem[r].ts \in had /\ store' = store
        BY <1>3, Start DEF SaveIcon, MemOK, UploadOK, Finish, Goto, voice
  <2>2. Insert(rows, {mem[r].ts}) /\ {mem[r].ts} \in SUBSET Icons /\ {mem[r].ts} \subseteq had
        BY <1>3, <2>1 DEF SaveIcon
  <2> QED BY <1>1, <2>1, <2>2, InsertsAreRecords
<1>4. ASSUME NEW r \in Requests, HasFetched(r)
      PROVE  mem[r].found \ mem[r].known \in SUBSET Icons /\ mem[r].found \ mem[r].known \subseteq had
  <2>1. mem[r].found \subseteq had /\ mem[r] \in Memory
        BY <1>4, Start DEF HasFetched, MemOK, SyncOK
  <2> QED BY <2>1 DEF IInv, IconsTypeOK
<1>5. ASSUME NEW r \in Requests, InsertMissing(r)
      PROVE  Promise!Record
  <2>1. HasFetched(r) /\ Insert(rows, mem[r].found \ mem[r].known) /\ store' = store
        BY <1>5 DEF InsertMissing, Goto, voice
  <2> QED BY <1>1, <1>4, <2>1, InsertsAreRecords
<1>6. ASSUME NEW r \in Requests, CleanUp(r)
      PROVE  Promise!Record \/ Promise!Purge
  <2>1. HasFetched(r) /\ store' = store
        BY <1>6 DEF CleanUp, Finish, Goto, voice
  <2>2. PICK added \in SUBSET Icons : added = mem[r].found \ mem[r].known /\ added \subseteq had
        BY <1>4, <2>1
  <2>3. PICK out \in SUBSET Uuids : out = Outdated(r) /\ \A u \in out : IsRow(u)
    <3>1. Outdated(r) \in SUBSET Uuids /\ \A u \in Outdated(r) : IsRow(u)
          BY DEF Outdated
    <3> QED BY <3>1
  <2>0. Insert([u \in Uuids |-> IF u \in out THEN Gone ELSE rows[u]], added)
        BY <1>6, <2>2, <2>3 DEF CleanUp
  <2>4. Promise!Write({u \in out : Here(u)}, added)
        BY <1>1, <2>0, <2>1, <2>2, <2>3, InsertWrites
  <2>5. CASE Outdated(r) = {}
    <3>1. {u \in out : Here(u)} = {}
          BY <2>3, <2>5
    <3>2. Promise!Write({}, added)
          BY <2>4, <3>1
    <3> QED BY <2>2, <3>2 DEF Promise!Record
  <2>6. CASE Outdated(r) # {}
    <3>1. Outdated(r) = {u \in Uuids : IsRow(u) /\ rows[u].old}
          BY <2>6 DEF Outdated
    <3>2. {u \in out : Here(u)} = {u \in Promise!Live : Table[u].old}
          BY <1>1, <2>3, <3>1, TableRows DEF Here
    <3>3. Promise!Write({u \in Promise!Live : Table[u].old}, added)
          BY <2>4, <3>2
    <3> QED BY <2>2, <3>3 DEF Promise!Purge, Table
  <2> QED BY <2>5, <2>6
<1>7. ASSUME NEW r \in Requests, Commit(r), Held(r) # {}
      PROVE  \E u \in Uuids : Promise!Strike(u)
  <2>1. PICK u \in Held(r) : TRUE
        BY <1>7
  <2>2. u \in Uuids /\ Here(u) /\ mem[r].id = u /\ op[r] = "delete" /\ Held(r) = {u}
        BY <2>1, HeldRow
  <2>3. u \in missed /\ msg[r] = "ok"
        BY <1>7, <2>2, Start DEF Commit, MemOK, DeleteOK
  <2>4. rows' = [v \in Uuids |-> IF v \in {u} THEN Gone ELSE rows[v]] /\ store' = store
        BY <1>7, <2>2 DEF Commit, Finish, Goto, voice
  <2>5. \A v \in Uuids : Table'[v] = IF v \in {u} THEN Gone ELSE Table[v]
    <3> SUFFICES ASSUME NEW v \in Uuids PROVE Table'[v] = IF v \in {u} THEN Gone ELSE Table[v]
        OBVIOUS
    <3>1. rows'[v] = IF v = u THEN Gone ELSE rows[v]
          BY <2>4
    <3>2. CASE v = u
      <4>1. ~Here(u)' /\ rows'[u] # None
            BY <3>1, <3>2 DEF Here, IsRow
      <4> QED BY <3>1, <3>2, <4>1 DEF Table
    <3>3. CASE v # u
          BY <3>1, <3>3 DEF Table, Here, IsRow
    <3> QED BY <3>2, <3>3
  <2>6. Promise!Write({u}, {})
    <3> DEFINE of == [i \in {} |-> u]
               t(v) == IF v \in {u} THEN Gone
                       ELSE IF \E i \in {} : of[i] = v
                            THEN [ts |-> CHOOSE i \in {} : of[i] = v, old |-> FALSE]
                            ELSE Table[v]
    <3>1. of \in [{} -> {v \in Uuids : Table[v] = None}]
          OBVIOUS
    <3>2. \A v \in Uuids : Table'[v] = t(v)
          BY <2>5
    <3> HIDE DEF t
    <3>3. Table' = [v \in Uuids |-> Table'[v]]
          BY DEF Table
    <3>4. Table' = [v \in Uuids |-> t(v)]
          BY <3>2, <3>3
    <3>5. \A i, j \in {} : of[i] = of[j] => i = j
          OBVIOUS
    <3> QED BY <2>4, <3>1, <3>4, <3>5 DEF t, Promise!Write, Table
  <2>7. u \in Promise!Live
        BY <1>1, <2>2, TableRows
  <2> QED BY <2>2, <2>3, <2>6, <2>7 DEF Promise!Strike
<1>8. CASE rows' # rows
  <2>1. ASSUME NEW r \in Requests, Commit(r)
        PROVE  Held(r) # {}
    <3>1. Held(r) = {} => rows' = [u \in Uuids |-> rows[u]]
          BY <2>1 DEF Commit
    <3> QED BY <1>1, <1>8, <3>1 DEF TablesTyped
  <2>2. \E r \in Requests : SaveIcon(r) \/ InsertMissing(r) \/ CleanUp(r) \/ Commit(r)
        BY <1>8 DEF Step, Outside, Handle, Upload, FindIcon, BeginGroupSync, BeginFullSync, Begin,
           Uploaded, DeleteRow, FindMissing, ReadIcons, FetchIcons, LoadGroups, ListIcons,
           SaveLinks, Fail, Read, BotUploads, BotDeletes, Lose, Receive, tables
  <2> QED BY <1>3, <1>5, <1>6, <1>7, <2>1, <2>2
<1> QED BY <1>2, <1>8

\* uploadIcon, deleteIcon and the syncs implement the icon store.
THEOREM IconsImplementTheStore == Spec => ImplementsIconStore
<1>1. Init => Promise!Init
  <2> SUFFICES ASSUME Init PROVE Promise!Init
      OBVIOUS
  <2>1. TablesTyped
        BY IInit DEF IInv, IconsTypeOK, TablesTyped
  <2>2. Table \in [Uuids -> {None, Gone} \cup Promise!Entry]
        BY <2>1, TableRows
  <2>3. had = store \cup Promise!Recorded /\ missed = Promise!Off /\ store \in SUBSET Icons
        BY <2>1, TableRows DEF Init
  <2> QED BY <2>2, <2>3 DEF Promise!Init, Table
<1>2. IInv /\ IInv' /\ [Next]_ivars => [Promise!Next]_(Promise!svars)
  <2> SUFFICES ASSUME IInv, IInv', [Next]_ivars
               PROVE  [Promise!Next]_(Promise!svars)
      OBVIOUS
  <2>1. CASE UNCHANGED ivars
        BY <2>1 DEF ivars, tables, voice, history, Promise!svars, Here, IsRow
  <2>2. CASE Next
    <3>1. Witnessed /\ Step
          BY <2>2 DEF Next, Witnessed
    <3>2. TablesTyped'
          BY DEF IInv, IconsTypeOK, TablesTyped
    <3>3. (Promise!Off = Off)'
          BY <3>2, SameOff, PTL
    <3>4. had' = had \cup store' /\ missed' = missed \cup Promise!Off'
          BY <3>1, <3>3 DEF Witnessed
    <3>5. Promise!Next
          BY <3>1, <3>4, PromisedStep DEF Promise!Next
    <3> QED BY <3>5
  <2> QED BY <2>1, <2>2
<1> QED BY <1>1, <1>2, IconsInvariance, PTL DEF Spec, ImplementsIconStore, Promise!Spec
=============================================================================
