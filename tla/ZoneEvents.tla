----------------------------- MODULE ZoneEvents -----------------------------
(***************************************************************************)
(* The zones of one server as the bot's crawler knows them: their names    *)
(* and minutes of inactivity.  A saved zone raises an event, whose handler *)
(* reads all zones and emits them to the bot.  Groups and deletion dates   *)
(* of zones are in Zones.                                                  *)
(***************************************************************************)
EXTENDS Handlers, Integers

CONSTANTS
    ZoneIds,     \* primary keys of Zone, each given to one new row
    ZoneNames,
    Minutes,     \* minutes of inactivity; 0 where a column is null or a field left out
    Bodies,      \* the bodies of requests
    Rows         \* rows there may be from before

Zone   == [name : ZoneNames, notify : Minutes, delete : Minutes, crawl : BOOLEAN]
AnyOf  == [name : ZoneNames \cup {None}, notify : Minutes, delete : Minutes,
           crawl : {"on", "off", "left out"}]

\* The decorator of a body's minutes, which ignores those left out.
LessThanField(b) == 0 \in {b.notify, b.delete} \/ b.notify < b.delete

\* A creation without crawl skips it; its rows may be among Rows.
ASSUME ZoneEventsAssumption ==
    /\ None \notin ZoneIds \cup ZoneNames \cup Requests
    /\ 0 \in Minutes /\ Minutes \subseteq Nat
    /\ {None, Gone} \cap Zone = {} /\ None # Gone
    /\ Rows \subseteq {x \in Zone : x.crawl => x.notify < x.delete}
    /\ Bodies \subseteq {b \in AnyOf : LessThanField(b)}

VARIABLES
    zone,      \* zone[z]: row z of Zone, None before and Gone after its life
    zid,       \* zid[r]: the zone request r makes or works on
    zmem,      \* zmem[r]: the entity in its memory
    zbase,     \* zbase[r]: the row as save has looked it up
    zdto,      \* zdto[r]: the body
    note,      \* note[r]: how far the handler of the event that r raised has come
    load,      \* load[r]: the zones it has read
    told,      \* what the bot was last told
    ahead,     \* history: ahead[r], the handlers that had read before r but not emitted
    stale,     \* history: a zone has gone since r read, or what is newer was emitted
    missed,    \* history: the same of what the bot was last told
    znamed,    \* history: znamed[z], the request that last changed its name
    zlast,     \* history: zlast[z], the request that last saved it
    loose      \* history: its minutes were saved unchecked, or in an overlap

events == <<note, load, told, ahead, stale, missed>>
zlasts == <<znamed, zlast, loose>>
zvars  == <<zone, zid, zmem, zbase, zdto, events, zlasts>>

IsZone(z) == zone[z] \in Zone

\* getCrawlerConfiguration.
Crawled == {<<z, zone[z]>> : z \in {y \in ZoneIds : IsZone(y) /\ zone[y].crawl}}

Busy == {"raised", "read"}

EventsTypeOK ==
    /\ zone  \in [ZoneIds -> Zone \cup {None, Gone}]
    /\ zid   \in [Requests -> ZoneIds \cup {None}]
    /\ zmem  \in [Requests -> Zone \cup {None}]
    /\ zbase \in [Requests -> Zone \cup {None}]
    /\ zdto  \in [Requests -> Bodies \cup {None}]
    /\ note  \in [Requests -> {"none", "sent", "lost"} \cup Busy]
    /\ load  \in [Requests -> SUBSET (ZoneIds \X Zone)]
    /\ told  \subseteq ZoneIds \X Zone
    /\ ahead \in [Requests -> SUBSET Requests]
    /\ stale \in [Requests -> BOOLEAN]
    /\ missed \in BOOLEAN
    /\ \A h \in {znamed, zlast} : h \in [ZoneIds -> Requests \cup {None}]
    /\ loose \subseteq ZoneIds
    /\ \A r \in Requests : note[r] # "read" => load[r] = {} /\ ahead[r] = {} /\ ~stale[r]

EventsInit ==
    /\ zone \in [ZoneIds -> Rows \cup {None}]
    /\ \A z, y \in ZoneIds : IsZone(z) /\ IsZone(y) /\ z # y => zone[z].name # zone[y].name
    /\ zid    = [r \in Requests |-> None]
    /\ zmem   = [r \in Requests |-> None]
    /\ zbase  = [r \in Requests |-> None]
    /\ zdto   = [r \in Requests |-> None]
    /\ note   = [r \in Requests |-> "none"]
    /\ load   = [r \in Requests |-> {}]
    /\ told   = {}
    /\ ahead  = [r \in Requests |-> {}]
    /\ stale  = [r \in Requests |-> FALSE]
    /\ missed = TRUE
    /\ znamed = [z \in ZoneIds |-> None]
    /\ zlast  = [z \in ZoneIds |-> None]
    /\ loose  = {}

-----------------------------------------------------------------------------
(* createZone                                                              *)

NameUnused(n) == \A z \in ZoneIds : IsZone(z) => zone[z].name # n

BeginOnZone(r, method, to, z, entity, body) ==
    /\ Begin(r, method, to)
    /\ zid'  = [zid  EXCEPT ![r] = z]
    /\ zmem' = [zmem EXCEPT ![r] = entity]
    /\ zdto' = [zdto EXCEPT ![r] = body]
    /\ UNCHANGED <<zone, zbase, events, zlasts>>

\* The name is counted first.  Minutes are required and checked with crawl only.
BeginCreate(r, body) ==
    /\ body.name # None /\ body.crawl # "left out"
    /\ body.crawl = "on" => 0 \notin {body.notify, body.delete}
    /\ NameUnused(body.name)
    /\ BeginOnZone(r, "createZone", "saving", None,
                   [body EXCEPT !.crawl = (@ = "on")], body)

SameName(a, b) == {a, b} \subseteq Zone /\ a.name = b.name

\* Bug: an event is raised only for a zone that is crawled.
SavedQuietly(r, z, row) ==
    /\ zone'   = [zone   EXCEPT ![z] = row]
    /\ znamed' = [znamed EXCEPT ![z] = IF SameName(zone[z], row) THEN @ ELSE r]
    /\ zlast'  = [zlast  EXCEPT ![z] = r]
    /\ note'   = [note   EXCEPT ![r] = IF row \in Zone /\ row.crawl THEN "raised" ELSE @]
    /\ zmem'   = [zmem   EXCEPT ![r] = None]
    /\ zbase'  = [zbase  EXCEPT ![r] = None]
    /\ UNCHANGED <<zdto, load, told, ahead, stale, missed>>

\* zoneUpdated is emitted when save has returned.
Saved(r, z, row) ==
    /\ zone'   = [zone   EXCEPT ![z] = row]
    /\ znamed' = [znamed EXCEPT ![z] = IF SameName(zone[z], row) THEN @ ELSE r]
    /\ zlast'  = [zlast  EXCEPT ![z] = r]
    /\ note'   = [note   EXCEPT ![r] = "raised"]
    /\ zmem'   = [zmem   EXCEPT ![r] = None]
    /\ zbase'  = [zbase  EXCEPT ![r] = None]
    /\ UNCHANGED <<zdto, load, told, ahead, stale, missed>>

SaveNew(r) == /\ Goto(r, "createZone", "saving", "done")
              /\ \E z \in ZoneIds : /\ zone[z] = None
                                    /\ zid' = [zid EXCEPT ![r] = z]
                                    /\ Saved(r, z, zmem[r])
              /\ UNCHANGED loose

-----------------------------------------------------------------------------
(* updateZone                                                              *)

\* Bug: the new notification time is compared off by one.
MinutesNearly(row, body) ==
    \/ body.crawl # "on"
    \/ row.crawl /\ body.notify = 0
    \/ body.notify # 0 /\ body.notify <= row.delete
    \/ body.delete # 0 /\ body.delete > row.notify

\* validateInactiveMinutes, with what line 255 tests twice; null counts as 0.
MinutesAccepted(row, body) ==
    \/ body.crawl # "on"
    \/ row.crawl /\ body.notify = 0
    \/ row.crawl /\ body.notify = row.notify /\ body.delete = row.delete /\ body.delete # 0
    \/ row.crawl /\ 0 \notin {body.notify, body.delete} /\ body.notify <= body.delete
    \/ body.notify # 0 /\ body.notify < row.delete
    \/ body.delete # 0 /\ body.delete > row.notify

Assigned(row, body) ==
    [name   |-> IF body.name = None THEN row.name ELSE body.name,
     notify |-> IF body.notify = 0 THEN row.notify ELSE body.notify,
     delete |-> IF body.delete = 0 THEN row.delete ELSE body.delete,
     crawl  |-> IF body.crawl = "left out" THEN row.crawl ELSE body.crawl = "on"]

ReadZone(r, z, body) == IsZone(z) /\ BeginOnZone(r, "updateZone", "read", z, zone[z], body)

\* validateZoneForUpdate: the name is counted if it is another one.
Validate(r) ==
    /\ Goto(r, "updateZone", "read", "saving")
    /\ zdto[r].name \notin {None, zmem[r].name} => NameUnused(zdto[r].name)
    /\ MinutesAccepted(zmem[r], zdto[r])
    /\ UNCHANGED zvars

\* save looks the row up ...
LookZone(r) == /\ Goto(r, "updateZone", "saving", "looked up")
               /\ zbase' = [zbase EXCEPT ![r] = IF IsZone(zid[r]) THEN zone[zid[r]] ELSE None]
               /\ UNCHANGED <<zone, zid, zmem, zdto, events, zlasts>>

\* ... inserts it again if it was gone, or writes the columns that differ, of
\* no row if it has gone since.
Merged(row, base, entity) ==
    IF base = None THEN entity
    ELSE IF row \notin Zone THEN row
    ELSE [c \in DOMAIN entity |-> IF entity[c] = base[c] THEN row[c] ELSE entity[c]]

\* The bodies whose minutes nothing has compared with those of a crawled zone.
Unchecked(row, body) ==
    /\ row.crawl /\ body.crawl # "off" /\ {body.notify, body.delete} # {0}
    /\ body.crawl = "left out" \/ body.notify = 0

SaveOld(r) ==
    LET z == zid[r] IN
    /\ Goto(r, "updateZone", "looked up", "done")
    /\ zbase[r] = None => ~IsZone(z)
    /\ Saved(r, z, Merged(zone[z], zbase[r], Assigned(zmem[r], zdto[r])))
    /\ loose' = IF Unchecked(zmem[r], zdto[r]) \/ Overlap(zlast[z], r)
                THEN loose \cup {z} ELSE loose
    /\ UNCHANGED zid

-----------------------------------------------------------------------------
(* deleteZone, and the cascade of a group sync, which the bot is not told *)

DropZone(r, z) ==
    /\ Begin(r, "deleteZone", "done")
    /\ IsZone(z)
    /\ zone'   = [zone EXCEPT ![z] = Gone]
    /\ stale'  = [q \in Requests |-> stale[q] \/ (note[q] = "read" /\ zone[z].crawl)]
    /\ missed' = (missed \/ zone[z].crawl)
    /\ UNCHANGED <<zid, zmem, zbase, zdto, note, load, told, ahead, zlasts>>

FailZone(r) == /\ Active(r) /\ op[r] \in {"createZone", "updateZone"}
               /\ Goto(r, op[r], pc[r], "failed")
               /\ zmem'  = [zmem  EXCEPT ![r] = None]
               /\ zbase' = [zbase EXCEPT ![r] = None]
               /\ UNCHANGED <<zone, zid, zdto, events, zlasts>>

-----------------------------------------------------------------------------
(* onZoneUpdated, which nobody awaits                                      *)

Handler(r) == UNCHANGED <<hvars, zone, zid, zmem, zbase, zdto, zlasts>>

ReadZones(r) ==
    /\ note[r] = "raised"
    /\ note'  = [note  EXCEPT ![r] = "read"]
    /\ load'  = [load  EXCEPT ![r] = Crawled]
    /\ ahead' = [ahead EXCEPT ![r] = {q \in Requests : note[q] = "read"}]
    /\ UNCHANGED <<told, stale, missed>>
    /\ Handler(r)

Forget(r) == /\ load'  = [load  EXCEPT ![r] = {}]
             /\ ahead' = [q \in Requests |-> IF q = r THEN {} ELSE ahead[q] \ {r}]

\* emitCrawlConfigUpdatedEvent, or the answer; the bot gets them as they leave.
Emit(r) ==
    /\ note[r] = "read"
    /\ note'   = [note EXCEPT ![r] = "sent"]
    /\ told'   = load[r]
    /\ missed' = stale[r]
    /\ stale'  = [q \in Requests |-> q # r /\ (stale[q] \/ q \in ahead[r])]
    /\ Forget(r)
    /\ Handler(r)

\* The read fails: a rejection that nobody handles.
LoseEvent(r) ==
    /\ note[r] = "raised"
    /\ note'   = [note EXCEPT ![r] = "lost"]
    /\ missed' = TRUE
    /\ stale'  = [q \in Requests |-> note[q] = "read"]
    /\ UNCHANGED <<load, told, ahead>>
    /\ Handler(r)

\* getServerConfig: the bot asks when it starts, and the answer is read alike.
AskConfig(r) ==
    /\ Begin(r, "getServerConfig", "done")
    /\ note' = [note EXCEPT ![r] = "raised"]
    /\ UNCHANGED <<zone, zid, zmem, zbase, zdto, load, told, ahead, stale, missed, zlasts>>

ZoneStep(r) ==
    \/ \E body \in Bodies : \/ BeginCreate(r, body)
                            \/ \E z \in ZoneIds : ReadZone(r, z, body)
    \/ \E z \in ZoneIds : DropZone(r, z)
    \/ SaveNew(r) \/ Validate(r) \/ LookZone(r) \/ SaveOld(r) \/ FailZone(r)
    \/ ReadZones(r) \/ Emit(r) \/ LoseEvent(r)

-----------------------------------------------------------------------------
(* Properties *)

\* onZoneUpdated: unless an event is on its way, the bot's crawler has the zones
\* of the table, save where what it was told last had been overtaken, was lost,
\* or a zone has been deleted since.
ToldIsTable ==
    (\A r \in Requests : note[r] \notin Busy) /\ ~missed => told = Crawled

\* validateInactiveMinutes, 'the new inactive minutes notify are less than the
\* inactive delete': a crawled zone has them in order, unless an update brought
\* minutes without crawl, a deletion time alone, or overlapped another.
MinutesOrdered ==
    \A z \in ZoneIds \ loose : IsZone(z) /\ zone[z].crawl => zone[z].notify < zone[z].delete

\* Part of NamesClashOnlyByRace in BotLink: validateZoneName.
ZoneNamesClashOnlyByRace ==
    \A z, y \in ZoneIds : z # y /\ SameName(zone[z], zone[y]) => Raced(znamed[z]) \/ Raced(znamed[y])
=============================================================================
