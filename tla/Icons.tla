------------------------------- MODULE Icons -------------------------------
(***************************************************************************)
(* The icons of one server: IconsService keeps a row for an icon of the    *)
(* voice server, and a group sync gives each group the row of its icon.    *)
(* The id of an icon is a hash of its content, so an icon uploaded twice   *)
(* is one icon on the voice server; its rows have ids of their own.  A     *)
(* deletion keeps its transaction open over the call of the bot.           *)
(***************************************************************************)
EXTENDS Naturals

CONSTANTS
    Requests,   \* uploads, deletions, group syncs and full syncs
    Icons,      \* ids the voice server gives to contents
    Uuids,      \* primary keys of Icon, each given to one row
    Older,      \* those of the rows there may have been before
    Groups,     \* server groups
    SameNumber, \* pairs of a group and an icon whose ids are one number
    None,
    Gone        \* the row has been deleted

ASSUME IconsAssumption ==
    /\ None \notin Icons \cup Uuids \cup Requests
    /\ Older \subseteq Uuids
    /\ SameNumber \subseteq Groups \X Icons
    /\ None # Gone

VARIABLES
    store,    \* the icons of the voice server
    rows,     \* rows[u]: row u of Icon, None before and Gone after its life
    hold,     \* hold[u]: the transaction that has deleted u and is not committed
    face,     \* face[g]: the icon of group g on the voice server
    link,     \* link[g]: iconId of its row of ServerGroup
    pc,       \* pc[r]: the await request r is suspended at, or how it ended
    op,       \* op[r]: the service method it is in
    mem,      \* mem[r]: what it has read and was asked for
    msg,      \* msg[r]: its message to the bot, which changes icons
    had,      \* history: the icons the voice server has ever had
    missed,   \* history: rows whose icon was missing during their life
    worn      \* history: worn[g], the icons that group g ever had

tables   == <<rows, hold, link>>
voice    == <<store, face>>
requests == <<pc, op, mem, msg>>
history  == <<had, missed, worn>>
ivars    == <<tables, voice, requests, history>>

IconRow == [ts : Icons, here : BOOLEAN, old : BOOLEAN]   \* here: of this server
Memory  == [ts     : Icons \cup {None},                  \* old: for over a month
            id     : Uuids \cup {None},
            want   : [Groups -> Icons \cup {None}],
            ask    : SUBSET Icons,
            known  : {None} \cup SUBSET Icons,
            found  : {None} \cup SUBSET Icons,
            loaded : {None} \cup [Groups -> Uuids \cup {None}],
            same   : SUBSET Groups,
            listed : {None} \cup SUBSET [id : Uuids, ts : Icons]]

Blank == [ts |-> None, id |-> None, want |-> [g \in Groups |-> None], ask |-> {},
          known |-> None, found |-> None, loaded |-> None, same |-> {}, listed |-> None]

ASSUME IconRowAssumption ==
    {None, Gone} \cap (IconRow \cup [ts : Icons, old : BOOLEAN]) = {}

IsRow(u)  == rows[u] \in IconRow
Here(u)   == IsRow(u) /\ rows[u].here
\* Bug: the icon is looked for on every server.
RowsOfAny(i) == {u \in Uuids : IsRow(u) /\ rows[u].ts = i}
RowsOf(i) == {u \in Uuids : Here(u) /\ rows[u].ts = i}
Known     == {rows[u].ts : u \in {v \in Uuids : Here(v)}}
Unused    == {u \in Uuids : rows[u] = None}
Free(u)   == hold[u] = None
Off       == {u \in Uuids : Here(u) /\ rows[u].ts \notin store}
Ended     == {"done", "missing", "failed"}
Active(r) == pc[r] \notin {"idle"} \cup Ended

IconsTypeOK ==
    /\ store \subseteq Icons
    /\ rows \in [Uuids -> {None, Gone} \cup IconRow]
    /\ hold \in [Uuids -> Requests \cup {None}]
    /\ face \in [Groups -> Icons \cup {None}]
    /\ link \in [Groups -> Uuids \cup {None}]
    /\ pc   \in [Requests -> {"idle", "waiting", "saving", "found", "asking",
                              "fetching", "linking"} \cup Ended]
    /\ op   \in [Requests -> {"none", "upload", "delete", "group", "full"}]
    /\ mem  \in [Requests -> Memory]
    /\ msg  \in [Requests -> {"none", "out", "ok"}]
    /\ had \subseteq Icons
    /\ missed \subseteq Uuids
    /\ worn \in [Groups -> SUBSET Icons]
    /\ \A r \in Requests : ~Active(r) => \A u \in Uuids : hold[u] # r

Init ==
    /\ store \in SUBSET Icons
    /\ rows \in [Uuids -> {None} \cup IconRow]
    /\ \A u \in Uuids \ Older : rows[u] = None
    /\ \A u, v \in Uuids : Here(u) /\ Here(v) /\ u # v => rows[u].ts # rows[v].ts
    /\ hold = [u \in Uuids |-> None]
    /\ face \in [Groups -> Icons \cup {None}]
    /\ link \in [Groups -> {None} \cup {u \in Uuids : Here(u)}]
    /\ pc   = [r \in Requests |-> "idle"]
    /\ op   = [r \in Requests |-> "none"]
    /\ mem  = [r \in Requests |-> Blank]
    /\ msg  = [r \in Requests |-> "none"]
    /\ had  = store \cup Known
    /\ missed = Off
    /\ worn = [g \in Groups |-> ({face[g]} \cup {rows[u].ts : u \in {link[g]} \ {None}}) \ {None}]

-----------------------------------------------------------------------------
(* Steps of a request                                                      *)

Begin(r, method, to, memory) ==
    /\ pc[r] = "idle"
    /\ pc'  = [pc  EXCEPT ![r] = to]
    /\ op'  = [op  EXCEPT ![r] = method]
    /\ mem' = [mem EXCEPT ![r] = memory]
    /\ UNCHANGED <<tables, voice>>

Goto(r, from, to) == /\ pc[r] = from
                     /\ pc' = [pc EXCEPT ![r] = to]
                     /\ UNCHANGED <<op, voice>>

\* What is asked of the bot, and what properties speak of, outlives the request.
Over(m) == [Blank EXCEPT !.id = m.id, !.ts = m.ts, !.want = m.want]

Finish(r, from, outcome) == /\ Goto(r, from, outcome)
                            /\ mem' = [mem EXCEPT ![r] = Over(mem[r])]
                            /\ UNCHANGED msg

Send(r) == msg' = [msg EXCEPT ![r] = "out"]

\* One new row for each icon in added; the unique key refuses a second, and a
\* row deleted but not committed makes the insert wait.
Insert(before, added) ==
    /\ \A u \in Uuids : before[u] \in IconRow /\ before[u].here => before[u].ts \notin added
    /\ \E of \in [added -> Unused] :
          /\ \A i, j \in added : of[i] = of[j] => i = j
          /\ rows' = [u \in Uuids |->
                IF \E i \in added : of[i] = u
                THEN [ts |-> CHOOSE i \in added : of[i] = u, here |-> TRUE, old |-> FALSE]
                ELSE before[u]]

-----------------------------------------------------------------------------
(* uploadIcon: the bot stores the icon, then a transaction the row with    *)
(* its content.                                                            *)

Upload(r, i) == Begin(r, "upload", "waiting", [Blank EXCEPT !.ts = i]) /\ Send(r)

Uploaded(r) == /\ op[r] = "upload" /\ msg[r] = "ok"
               /\ Goto(r, "waiting", "saving")
               /\ UNCHANGED <<tables, mem, msg>>

SaveIcon(r) == /\ op[r] = "upload"
               /\ Insert(rows, {mem[r].ts})
               /\ Finish(r, "saving", "done")
               /\ UNCHANGED <<hold, link>>

-----------------------------------------------------------------------------
(* deleteIcon                                                              *)

\* getIconById finds the row on any server.
FindIcon(r, u) ==
    /\ IsRow(u)
    /\ Begin(r, "delete", "found", [Blank EXCEPT !.id = u, !.ts = rows[u].ts])
    /\ UNCHANGED msg

\* DELETE, which waits for another transaction that has deleted the row, and
\* the call of the bot, also when no row of this server was deleted.
DeleteRow(r) ==
    /\ Goto(r, "found", "waiting") /\ Send(r)
    /\ IF Here(mem[r].id)
       THEN Free(mem[r].id) /\ hold' = [hold EXCEPT ![mem[r].id] = r]
       ELSE UNCHANGED hold
    /\ UNCHANGED <<rows, link, mem>>

Held(r) == {u \in Uuids : hold[u] = r}
\* Bug: the transaction is left open.
ReleaseNone(r) == UNCHANGED hold
Release(r) == hold' = [u \in Uuids |-> IF hold[u] = r THEN None ELSE hold[u]]

\* ON DELETE SET NULL of the groups' iconId.
Unlink(U) == link' = [g \in Groups |-> IF link[g] \in U THEN None ELSE link[g]]

\* Bug: the number of rows deleted is not looked at.
CommitUncounted(r) ==
    /\ op[r] = "delete" /\ msg[r] = "ok"
    /\ Finish(r, "waiting", "done")
    /\ rows' = [u \in Uuids |-> IF u \in Held(r) THEN Gone ELSE rows[u]]
    /\ Unlink(Held(r)) /\ Release(r)

\* Bug: the call of the bot is not awaited.
CommitUnanswered(r) ==
    /\ op[r] = "delete"
    /\ Finish(r, "waiting", IF Held(r) = {} THEN "missing" ELSE "done")
    /\ rows' = [u \in Uuids |-> IF u \in Held(r) THEN Gone ELSE rows[u]]
    /\ Unlink(Held(r)) /\ Release(r)

Commit(r) ==
    /\ op[r] = "delete" /\ msg[r] = "ok"
    /\ Finish(r, "waiting", IF Held(r) = {} THEN "missing" ELSE "done")
    /\ rows' = [u \in Uuids |-> IF u \in Held(r) THEN Gone ELSE rows[u]]
    /\ Unlink(Held(r)) /\ Release(r)

-----------------------------------------------------------------------------
(* The icon half of syncGroups: triggerGroupIconSync, updateGroupIcons     *)

BeginGroupSync(r) == /\ Begin(r, "group", "asking", [Blank EXCEPT !.want = face])
                     /\ UNCHANGED msg

Wanted(r) == {mem[r].want[g] : g \in Groups} \ {None}

FindMissing(r) ==
    /\ Goto(r, "asking", IF Wanted(r) \subseteq Known THEN "linking" ELSE "fetching")
    /\ mem' = [mem EXCEPT ![r].ask = Wanted(r) \ Known]
    /\ UNCHANGED <<tables, msg>>

Read(r, at) == /\ pc[r] = at
               /\ UNCHANGED <<tables, voice, pc, op, msg>>

\* Promise.all of syncNewServerIcons: the table and the bot, in either order.
ReadIcons(r)  == /\ Read(r, "fetching") /\ mem[r].known = None
                 /\ mem' = [mem EXCEPT ![r].known = Known]
FetchIcons(r) == /\ Read(r, "fetching") /\ mem[r].found = None
                 /\ mem' = [mem EXCEPT ![r].found = mem[r].ask \cap store]

HasFetched(r) == mem[r].known # None /\ mem[r].found # None

InsertMissing(r) ==
    /\ op[r] = "group" /\ HasFetched(r)
    /\ Goto(r, "fetching", "linking")
    /\ Insert(rows, mem[r].found \ mem[r].known)
    /\ mem' = [mem EXCEPT ![r].known = None, ![r].found = None, ![r].ask = {}]
    /\ UNCHANGED <<hold, link, msg>>

\* Group g has a row whose icon's id is the id of the group.
ShowsSameNumber(g) == link[g] # None /\ <<g, rows[link[g]].ts>> \in SameNumber

\* Promise.all of updateGroupIcons: the groups with their icon, the rows.
LoadGroups(r) == /\ Read(r, "linking") /\ mem[r].loaded = None
                 /\ mem' = [mem EXCEPT ![r].loaded = link,
                                       ![r].same = {g \in Groups : ShowsSameNumber(g)}]
ListIcons(r)  == /\ Read(r, "linking") /\ mem[r].listed = None
                 /\ mem' = [mem EXCEPT ![r].listed =
                      {[id |-> u, ts |-> rows[u].ts] :
                          u \in UNION {RowsOf(i) : i \in Wanted(r)}}]

OwnRows(r, g) == {x \in mem[r].listed : x.ts = mem[r].want[g]}

\* Bug: a group without an icon keeps the row it had.
LinkedForEver(r, g) ==
    IF g \in mem[r].same \/ OwnRows(r, g) = {} THEN mem[r].loaded[g]
    ELSE (CHOOSE x \in OwnRows(r, g) : TRUE).id

\* What it makes of a group: what it had, no icon, or the row of its icon.  The
\* early return compares the loaded icon's tsId with the tsId of the group.
Linked(r, g) ==
    IF g \in mem[r].same THEN mem[r].loaded[g]
    ELSE IF mem[r].want[g] = None THEN None
    ELSE IF OwnRows(r, g) = {} THEN mem[r].loaded[g]
    ELSE (CHOOSE x \in OwnRows(r, g) : TRUE).id

\* save: the foreign key refuses a row that is gone and waits for one that is
\* being deleted.
SaveLinks(r) ==
    /\ mem[r].loaded # None /\ mem[r].listed # None
    /\ \A g \in Groups : Linked(r, g) \notin {None, link[g]} =>
          IsRow(Linked(r, g)) /\ Free(Linked(r, g))
    /\ \A g \in Groups : Linked(r, g) # link[g] /\ link[g] # None => Free(link[g])
    /\ link' = [g \in Groups |-> Linked(r, g)]
    /\ Finish(r, "linking", "done")
    /\ UNCHANGED <<rows, hold>>

-----------------------------------------------------------------------------
(* syncAllServerIcons                                                      *)

BeginFullSync(r) == /\ Begin(r, "full", "fetching", [Blank EXCEPT !.ask = Icons])
                    /\ UNCHANGED msg

\* If an icon is unused, every row of over a month goes, whatever its server.
Outdated(r) == IF mem[r].known \subseteq mem[r].found THEN {}
               ELSE {u \in Uuids : IsRow(u) /\ rows[u].old}

CleanUp(r) ==
    /\ op[r] = "full" /\ HasFetched(r)
    /\ \A u \in Outdated(r) : Free(u)
    /\ Insert([u \in Uuids |-> IF u \in Outdated(r) THEN Gone ELSE rows[u]],
              mem[r].found \ mem[r].known)
    /\ Unlink(Outdated(r))
    /\ Finish(r, "fetching", "done")
    /\ UNCHANGED hold

-----------------------------------------------------------------------------
\* The bot or the database refuses, or the time-out of the bus gives a call up;
\* the transaction is rolled back and the message stays under way.
Fail(r) == /\ Active(r)
           /\ Finish(r, pc[r], "failed")
           /\ Release(r)
           /\ UNCHANGED <<rows, link>>

-----------------------------------------------------------------------------
(* The bot, which may be late, and the voice server                        *)

Receive(r, i) == /\ msg[r] = "out"
                 /\ msg' = [msg EXCEPT ![r] = i]
                 /\ UNCHANGED <<tables, face, pc, op, mem>>

BotUploads(r) == /\ op[r] = "upload" /\ Receive(r, "ok")
                 /\ store' = store \cup {mem[r].ts}
BotDeletes(r) == /\ op[r] = "delete" /\ Receive(r, "ok")
                 /\ store' = store \ {mem[r].ts}
Lose(r)       == Receive(r, "none") /\ UNCHANGED store

Outside ==
    /\ UNCHANGED <<requests, tables>>
    /\ \/ \E i \in Icons : /\ store' = IF i \in store THEN store \ {i} ELSE store \cup {i}
                           /\ UNCHANGED face
       \/ \E g \in Groups, i \in Icons \cup {None} :
             face' = [face EXCEPT ![g] = i] /\ UNCHANGED store

Handle(r) ==
    \/ Uploaded(r) \/ SaveIcon(r) \/ DeleteRow(r) \/ Commit(r)
    \/ FindMissing(r) \/ ReadIcons(r) \/ FetchIcons(r) \/ InsertMissing(r)
    \/ LoadGroups(r) \/ ListIcons(r) \/ SaveLinks(r) \/ CleanUp(r) \/ Fail(r)

Step ==
    \/ \E r \in Requests :
          \/ \E i \in Icons : Upload(r, i)
          \/ \E u \in Uuids : FindIcon(r, u)
          \/ BeginGroupSync(r) \/ BeginFullSync(r) \/ Handle(r)
          \/ BotUploads(r) \/ BotDeletes(r) \/ Lose(r)
    \/ Outside

Next == /\ Step
        /\ had'    = had \cup store'
        /\ missed' = missed \cup Off'
        /\ worn'   = [g \in Groups |-> worn[g] \cup ({face'[g]} \ {None})]

Spec == Init /\ [][Next]_ivars

-----------------------------------------------------------------------------
(* Properties *)

\* deleteIcon: a deletion that was answered well has deleted the row it was
\* asked to, also when the id was another server's or other deletions ran.
DeletionIsComplete ==
    \A r \in Requests : op[r] = "delete" /\ pc[r] = "done" => rows[mem[r].id] = Gone

\* updateGroupIcons: a group shows only a row of its own server, of an icon that
\* the group has had on the voice server, whatever syncs and deletions overlap.
LinksAreOwnIcons ==
    \A g \in Groups : link[g] # None => Here(link[g]) /\ rows[link[g]].ts \in worn[g]

\* updateGroupIcons, 'Update server groups with the newly synced icons': when the
\* only request there has been is a group sync and it is done, every group whose
\* icon has a row shows it, and one that has no icon shows none.  Excepted is a
\* group left with an icon whose id happens to be its own.
LoneSyncLinks ==
    \A r \in Requests :
        op[r] = "group" /\ pc[r] = "done" /\ (\A q \in Requests \ {r} : pc[q] = "idle")
        => \A g \in Groups :
              \/ ShowsSameNumber(g)
              \/ IF mem[r].want[g] = None THEN link[g] = None
                 ELSE \A u \in RowsOf(mem[r].want[g]) : link[g] = u

-----------------------------------------------------------------------------
\* uploadIcon, deleteIcon and the syncs implement the icon store: rows are made
\* and unmade only after the voice server's icon was, but for the clean-up.
Promise == INSTANCE IconStore WITH
    table <- [u \in Uuids |->
                IF Here(u) THEN [ts |-> rows[u].ts, old |-> rows[u].old]
                ELSE IF rows[u] = None THEN None ELSE Gone]

ImplementsIconStore == Promise!Spec
=============================================================================
