--------------------------- MODULE ConnectionPool ---------------------------
(***************************************************************************)
(* The database connections deleteChannel needs.  connection.transaction   *)
(* keeps one connection until the bot has answered twice, and inside it    *)
(* getZoneOfChannel reads zones and the zone's config through ordinary     *)
(* repositories, each read on a second connection of the same pool.  The   *)
(* pool hands connections out first come, first served and waits for ever. *)
(***************************************************************************)
EXTENDS Naturals, FiniteSets, Sequences

CONSTANTS
    Deletions,    \* requests that run deleteChannel on a root channel
    Readers,      \* requests that run one repository call
    Connections,  \* the connections of the pool (typeorm.config.ts: the default)
    None

ASSUME PoolAssumption ==
    /\ IsFiniteSet(Deletions) /\ IsFiniteSet(Connections)
    /\ Deletions \cap Readers = {}
    /\ None \notin Connections

VARIABLES
    at,     \* at[p]: the await p is suspended at
    queue,  \* the requests waiting for a connection, in order
    tx,     \* tx[p]: the connection of p's transaction
    stmt    \* stmt[p]: the connection of p's running statement outside of it

pvars == <<at, queue, tx, stmt>>

Procs == Deletions \cup Readers

\* What a request waiting for a connection does once it has one.
Waiting == {"wantRow", "wantTx", "wantZones", "wantConfig"}
Granted == [wantRow   |-> "row",   wantTx     |-> "inTx",
            wantZones |-> "zones", wantConfig |-> "config"]

Stages == {"start", "ended"} \cup Waiting
          \cup {"row", "inTx", "zones", "locating", "config", "deleting", "forgetting",
                "rollback"}

PoolTypeOK ==
    /\ at    \in [Procs -> Stages]
    /\ queue \in Seq(Procs)
    /\ tx    \in [Procs -> Connections \cup {None}]
    /\ stmt  \in [Procs -> Connections \cup {None}]

Init ==
    /\ at    = [p \in Procs |-> "start"]
    /\ queue = <<>>
    /\ tx    = [p \in Procs |-> None]
    /\ stmt  = [p \in Procs |-> None]

Owns(p, k) == tx[p] = k \/ stmt[p] = k
Free(k)    == \A p \in Procs : ~Owns(p, k)

Move(p, from, to) == /\ at[p] \in from
                     /\ at' = [at EXCEPT ![p] = to]

\* A repository or transaction asks the pool for a connection.
Ask(p, from, want) == /\ Move(p, from, want)
                      /\ queue' = Append(queue, p)

\* Bug: the connection goes back but the request does not forget it by name.
ReleaseStmtBadly(p) == stmt' = [stmt EXCEPT ![p] = p]

ReleaseStmt(p) == stmt' = [stmt EXCEPT ![p] = None]
ReleaseTx(p)   == tx' = [tx EXCEPT ![p] = None]

-----------------------------------------------------------------------------
\* The query for the channel row and its owner, or a reader's query.
Start(p) == /\ Ask(p, {"start"}, "wantRow")
            /\ UNCHANGED <<tx, stmt>>

\* The pool serves the first in line.
Grant ==
    /\ queue # <<>>
    /\ LET p == Head(queue) IN
       \E k \in Connections :
          /\ Free(k)
          /\ queue' = Tail(queue)
          /\ at' = [at EXCEPT ![p] = Granted[@]]
          /\ IF at[p] = "wantTx"
             THEN tx' = [tx EXCEPT ![p] = k] /\ UNCHANGED stmt
             ELSE stmt' = [stmt EXCEPT ![p] = k] /\ UNCHANGED tx

\* Bug: the row's query runner is kept while the transaction is opened.
RowFoundKeeping(p) == /\ p \in Deletions
                      /\ Ask(p, {"row"}, "wantTx")
                      /\ UNCHANGED <<tx, stmt>>

\* The row is there: open the transaction.
RowFound(p) == /\ p \in Deletions
               /\ Ask(p, {"row"}, "wantTx")
               /\ ReleaseStmt(p)
               /\ UNCHANGED tx

\* No such row for this user (404), or a reader's call is over.
RowMissing(p) == /\ Move(p, {"row"}, "ended")
                 /\ ReleaseStmt(p)
                 /\ UNCHANGED <<queue, tx>>

\* getZoneOfChannel inside the transaction: getAllZonesByServer ...
ReadZones(p) == /\ Ask(p, {"inTx"}, "wantZones")
                /\ UNCHANGED <<tx, stmt>>

\* ... then the bot is asked, at most for TS_MSG_TIMEOUT ...
AskBot(p) == /\ Move(p, {"zones"}, "locating")
             /\ ReleaseStmt(p)
             /\ UNCHANGED <<queue, tx>>

\* ... and the config of the zone is read.
ReadConfig(p) == /\ Ask(p, {"locating"}, "wantConfig")
                 /\ UNCHANGED <<tx, stmt>>

\* Bug: the lookup is repeated until the channel is found.
AlreadyGoneRetries(p) == /\ Move(p, {"locating"}, "inTx")
                         /\ UNCHANGED <<queue, tx, stmt>>

\* The channel does not exist any more: nothing to delete but the row.
AlreadyGone(p) == /\ Move(p, {"locating"}, "forgetting")
                  /\ UNCHANGED <<queue, tx, stmt>>

SendDelete(p) == /\ Move(p, {"config"}, "deleting")
                 /\ ReleaseStmt(p)
                 /\ UNCHANGED <<queue, tx>>

Deleted(p) == /\ Move(p, {"deleting"}, "forgetting")
              /\ UNCHANGED <<queue, tx, stmt>>

\* Bug: the statement's connection is not given back on an error.
FailLeaking(p) == /\ Move(p, {"zones", "locating", "config", "deleting"}, "rollback")
                  /\ UNCHANGED <<queue, tx, stmt>>

\* A bot call fails or times out, the channel is outside every zone, or the
\* zone has no config.
Fail(p) == /\ Move(p, {"zones", "locating", "config", "deleting"}, "rollback")
           /\ ReleaseStmt(p)
           /\ UNCHANGED <<queue, tx>>

\* manager.delete and COMMIT, or ROLLBACK, both on the transaction's connection.
Finish(p) == /\ Move(p, {"forgetting", "rollback"}, "ended")
             /\ ReleaseTx(p)
             /\ UNCHANGED <<queue, stmt>>

AllEnded == /\ \A p \in Procs : at[p] = "ended"
            /\ UNCHANGED pvars

Step(p) ==
    \/ RowFound(p) \/ RowMissing(p) \/ ReadZones(p) \/ AskBot(p) \/ ReadConfig(p)
    \/ AlreadyGone(p) \/ SendDelete(p) \/ Deleted(p) \/ Fail(p) \/ Finish(p)

Next == \/ \E p \in Procs : Start(p) \/ Step(p)
        \/ Grant
        \/ AllEnded

Spec == Init /\ [][Next]_pvars

\* Statements and bot calls return (the timeout ends the latter) and the pool
\* serves its queue whenever a connection is free.
FairSpec == Spec /\ WF_pvars(Grant) /\ \A p \in Procs : WF_pvars(Step(p))

-----------------------------------------------------------------------------
(* Properties *)

\* No connection leaks: a request that has ended, also by a failure between two
\* reads of its transaction, holds none.
EndedHoldNothing ==
    \A p \in Procs : at[p] = "ended" => tx[p] = None /\ stmt[p] = None

\* There is always a connection that is free, or whose holder is not itself
\* queueing for another one.
PoolNotStuck ==
    \E k \in Connections : Free(k) \/ \E p \in Procs : Owns(p, k) /\ at[p] \notin Waiting

\* Every request that comes in is answered.
EveryCallReturns ==
    \A p \in Procs : at[p] # "start" ~> at[p] = "ended"
=============================================================================
