------------------------------- MODULE Crawls -------------------------------
(***************************************************************************)
(* What the bot's crawler reports of one server: crawls, which refer to    *)
(* its zones, and the list of inactive channels, which a report replaces   *)
(* inside a transaction: delete what is not listed, then save the list.    *)
(***************************************************************************)
EXTENDS Handlers

CONSTANTS
    CrawlIds,    \* primary keys of Crawl
    Channels,    \* root channels of the voice server
    Times,       \* values of timeInactive
    Lists        \* reports the bot may send, a row or None for each channel

ASSUME CrawlsAssumption ==
    None \notin CrawlIds \cup Channels \cup Times \cup Requests /\ None \notin BOOLEAN

VARIABLES
    crawl,     \* crawl[k]: the zones of crawl k in CrawlZone, None if there is no such crawl
    cid,       \* cid[r]: the crawl request r has stored
    cdto,      \* cdto[r]: its zones
    idle,      \* idle[t]: the row of channel t in InactiveChannel, or None
    iwriter, idraft, ikilled, iscan, iseen,   \* its transactions, as in ReadCommitted
    idto,      \* idto[r]: the channels of a report, or those to be marked
    tlast,     \* history: tlast[t], the request that last changed its time,
    flast      \* history: flast[t], ... its flag, or added or deleted the row

itable  == <<idle, iwriter, idraft, ikilled, iscan, iseen>>
lasts   == <<tlast, flast>>
reports == <<itable, idto, lasts>>
cvars   == <<crawl, cid, cdto, reports>>

ITable == INSTANCE ReadCommitted WITH
    Keys <- Channels, table <- idle, writer <- iwriter, draft <- idraft,
    killed <- ikilled, scan <- iscan, seen <- iseen

Inactive == [time : Times, isNotified : BOOLEAN]

ASSUME InactiveAssumption ==
    None \notin Inactive /\ Lists \subseteq [Channels -> Inactive \cup {None}]

CrawlsTypeOK(Zones) ==
    /\ crawl \in [CrawlIds -> {None} \cup SUBSET Zones]
    /\ cid   \in [Requests -> CrawlIds \cup {None}]
    /\ cdto  \in [Requests -> SUBSET Zones]
    /\ idto  \in [Requests -> [Channels -> Inactive \cup {None}]]
    /\ tlast \in [Channels -> Requests \cup {None}]
    /\ flast \in [Channels -> Requests \cup {None}]
    /\ ITable!TableTypeOK(Inactive)

CrawlsInit ==
    /\ crawl = [k \in CrawlIds |-> None]
    /\ cid   = [r \in Requests |-> None]
    /\ cdto  = [r \in Requests |-> {}]
    /\ idle  \in Lists \cup {ITable!NoRows}
    /\ idto  = [r \in Requests |-> ITable!NoRows]
    /\ tlast = [t \in Channels |-> None]
    /\ flast = [t \in Channels |-> None]
    /\ ITable!TableInit

-----------------------------------------------------------------------------
(* storeCrawl                                                              *)

\* getValidZoneId of every zone: those that are gone do not come back, so what
\* the lookups find one after the other was there at the first.
BeginCrawl(r, Z, here) == /\ Z # {} /\ Z \subseteq here
                          /\ Begin(r, "storeCrawl", "read")
                          /\ cdto' = [cdto EXCEPT ![r] = Z]
                          /\ UNCHANGED <<crawl, cid, reports>>

\* save(crawl) with its zones, in a transaction with their foreign keys.
InsertCrawl(r, here) == /\ Goto(r, "storeCrawl", "read", "done")
                        /\ cdto[r] \subseteq here
                        /\ \E k \in CrawlIds : /\ crawl[k] = None
                                               /\ crawl' = [crawl EXCEPT ![k] = cdto[r]]
                                               /\ cid'   = [cid EXCEPT ![r] = k]
                        /\ UNCHANGED <<cdto, reports>>

\* ON DELETE CASCADE of the zone.
ForgetZone(z) == /\ crawl' = [k \in CrawlIds |-> IF crawl[k] = None THEN None
                                                 ELSE crawl[k] \ {z}]
                 /\ UNCHANGED <<cid, cdto, reports>>

-----------------------------------------------------------------------------
(* setInactiveChannelsInServer                                             *)

Reported(r) == {t \in Channels : idto[r][t] # None}

BeginReport(r, list) == /\ Begin(r, "setInactiveChannels", "read")
                        /\ idto' = [idto EXCEPT ![r] = list]
                        /\ UNCHANGED <<crawl, cid, cdto, itable, lasts>>

ReportStatement(r, from, to) == /\ Goto(r, "setInactiveChannels", from, to)
                                /\ UNCHANGED <<crawl, cid, cdto, idto, lasts>>

\* Bug: a report adds to the list.
FindNone(r) == /\ ReportStatement(r, "read", "deleting")
               /\ ITable!Find(r, {})

FindUnlisted(r) ==
    /\ ReportStatement(r, "read", "deleting")
    /\ ITable!Find(r, {t \in Channels \ Reported(r) : ITable!View(r, t) # None})

DeleteUnlisted(r) ==
    /\ ReportStatement(r, "deleting", IF Reported(r) = {} THEN "saved" ELSE "deleted")
    /\ ITable!Delete(r, Channels \ Reported(r))

LookInactive(r) == ReportStatement(r, "deleted", "saving") /\ ITable!Look(r, Reported(r))

\* An update writes the columns that differ from the row looked up.
Updated(r, t) ==
    LET base == iseen[r][t]
        new  == idto[r][t]
        row  == ITable!View(r, t)
    IN  IF None \in {base, row, new} \/ new = base THEN new
        ELSE [c \in {"time", "isNotified"} |-> IF new[c] = base[c] THEN row[c] ELSE new[c]]

SaveInactive(r) == /\ ReportStatement(r, "saving", "saved")
                   /\ ITable!Save(r, Reported(r), [t \in Channels |-> Updated(r, t)])

Time(row) == IF row = None THEN None ELSE row.time
Flag(row) == IF row = None THEN None ELSE row.isNotified

CommitReport(r) ==
    /\ Goto(r, "setInactiveChannels", "saved", "done")
    /\ ITable!Commit(r)
    /\ tlast' = [t \in Channels |-> IF Time(idle[t]) # Time(idle'[t]) THEN r ELSE tlast[t]]
    /\ flast' = [t \in Channels |-> IF Flag(idle[t]) # Flag(idle'[t]) THEN r ELSE flast[t]]
    /\ UNCHANGED <<crawl, cid, cdto, idto>>

-----------------------------------------------------------------------------
\* setChannelNotified: one UPDATE, of no row if the channel is not inactive.
Notify(r, t, b) ==
    /\ Begin(r, "setChannelNotified", "done")
    /\ IF idle[t] = None
       THEN UNCHANGED reports
       ELSE LET row == [idle[t] EXCEPT !.isNotified = b] IN
            /\ ITable!Put(r, {t}, [idle EXCEPT ![t] = row])
            /\ idto'  = [idto  EXCEPT ![r][t] = row]
            /\ flast' = [flast EXCEPT ![t] = r]
            /\ UNCHANGED tlast
    /\ UNCHANGED <<crawl, cid, cdto>>

\* A check, a key, a deadlock or a lost connection.
FailReport(r) == /\ Active(r) /\ op[r] \in {"storeCrawl", "setInactiveChannels"}
                 /\ Goto(r, op[r], pc[r], "failed")
                 /\ ITable!Rollback(r)
                 /\ UNCHANGED <<crawl, cid, cdto, idto, lasts>>

CrawlStep(r, here) == \/ \E Z \in SUBSET here : BeginCrawl(r, Z, here)
                      \/ InsertCrawl(r, here) \/ FailReport(r)

ReportStep(r) ==
    \/ \E list \in Lists : BeginReport(r, list)
    \/ \E t \in Channels, b \in BOOLEAN : Notify(r, t, b)
    \/ FindUnlisted(r) \/ DeleteUnlisted(r) \/ LookInactive(r) \/ SaveInactive(r)
    \/ CommitReport(r) \/ FailReport(r)

-----------------------------------------------------------------------------
(* Properties *)

\* setChannelsForServer, 'Deletes channels not in the list': once a report is
\* answered the table is that report, and a flag stays as it was set; where
\* not, a request has changed the channel that was not over when this began.
ReportStands ==
    \A r \in Requests, t \in Channels : pc[r] = "done" =>
        /\ op[r] = "setInactiveChannels" /\ Time(idle[t]) # Time(idto[r][t])
              => Stands(r, tlast[t])
        /\ op[r] = "setInactiveChannels" \/ t \in Reported(r) =>
              (Flag(idle[t]) # Flag(idto[r][t]) => Stands(r, flast[t]))

\* Part of ZonesLeaveNothing in Settings: a crawl has the zones it was given,
\* but those deleted since.
CrawlsKeepZones(here) ==
    /\ \A k \in CrawlIds : crawl[k] = None \/ crawl[k] \subseteq here
    /\ \A r \in Requests : op[r] = "storeCrawl" /\ pc[r] = "done" =>
          crawl[cid[r]] = cdto[r] \cap here
=============================================================================
