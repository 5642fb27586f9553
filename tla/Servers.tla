------------------------------ MODULE Servers ------------------------------
(***************************************************************************)
(* The servers of one user and their configurations, as to whether there   *)
(* is one, and whether the bot has lost the connection it describes.       *)
(* A server is inserted first and saved again, with its configuration, in  *)
(* a transaction; an update saves the two entities it has loaded.  Names   *)
(* are counted before they are used, and no key backs the count.           *)
(***************************************************************************)
EXTENDS Handlers

CONSTANTS
    ServerIds,      \* primary keys of Server, each given to one new row
    ServerNames

ASSUME ServersAssumption == None \notin ServerIds \cup ServerNames \cup Requests

VARIABLES
    server,    \* server[s]: row s of Server, or None
    sconf,     \* sconf[s]: hasConnectionError of its row of ServerConfig, or "none"
    sid,       \* sid[r]: the server request r makes or works on
    smem,      \* smem[r]: the name in its memory
    snamed,    \* history: snamed[s], the request that last changed its name
    sback,     \* history: sback[s], the request that last brought it back
    sgone      \* history: sgone[s], the request that last deleted it

slasts == <<snamed, sback, sgone>>
svars  == <<server, sconf, sid, smem, slasts>>

Server == [name : ServerNames, dead : BOOLEAN]   \* dead: deletedAt is set
Flag   == {"working", "error"}

ASSUME ServerAssumption == None \notin Server

ServersTypeOK ==
    /\ server \in [ServerIds -> Server \cup {None}]
    /\ sconf  \in [ServerIds -> Flag \cup {"none"}]
    /\ sid    \in [Requests -> ServerIds \cup {None}]
    /\ smem   \in [Requests -> ServerNames \cup {None}]
    /\ \A h \in {snamed, sback, sgone} : h \in [ServerIds -> Requests \cup {None}]
    /\ \A s \in ServerIds : sconf[s] # "none" => server[s] # None
    /\ \A r \in Requests : pc[r] \in Ended => smem[r] = None

IsServer(s) == server[s] # None /\ ~server[s].dead

ServersInit ==
    /\ server \in [ServerIds -> Server \cup {None}]
    /\ \A s, t \in ServerIds : IsServer(s) /\ IsServer(t) /\ s # t =>
          server[s].name # server[t].name
    /\ sconf  = [s \in ServerIds |-> IF server[s] = None THEN "none" ELSE "working"]
    /\ sid    = [r \in Requests |-> None]
    /\ smem   = [r \in Requests |-> None]
    /\ snamed = [s \in ServerIds |-> None]
    /\ sback  = [s \in ServerIds |-> None]
    /\ sgone  = [s \in ServerIds |-> None]

\* checkServerExistsByUser, which passes over deleted servers.
Unused(n) == \A s \in ServerIds : IsServer(s) => server[s].name # n

-----------------------------------------------------------------------------
(* createServer                                                            *)

BeginServer(r, n) == /\ Begin(r, "createServer", "read")
                     /\ Unused(n)
                     /\ smem' = [smem EXCEPT ![r] = n]
                     /\ UNCHANGED <<server, sconf, sid, slasts>>

InsertServer(r) ==
    /\ Goto(r, "createServer", "read", "inserted")
    /\ \E s \in ServerIds :
          /\ server[s] = None
          /\ server' = [server EXCEPT ![s] = [name |-> smem[r], dead |-> FALSE]]
          /\ sid'    = [sid EXCEPT ![r] = s]
          /\ snamed' = [snamed EXCEPT ![s] = r]
    /\ UNCHANGED <<sconf, smem, sback, sgone>>

-----------------------------------------------------------------------------
\* Bug: the configuration is saved only where there is one.
SaveServerOnly(r) ==
    LET s == sid[r] IN
    /\ server' = [server EXCEPT ![s].dead = FALSE]
    /\ smem'   = [smem   EXCEPT ![r] = None]
    /\ sback'  = [sback  EXCEPT ![s] = IF IsServer(s) THEN @ ELSE r]
    /\ UNCHANGED <<sconf, sid, snamed, sgone>>

\* saveTransactionServerAndConfig.  The row of the server is locked until the
\* commit, so this is one step; the entity was alive when it was loaded.
SaveBoth(r) ==
    LET s    == sid[r]
        name == IF smem[r] = None THEN server[s].name ELSE smem[r]
    IN  /\ server' = [server EXCEPT ![s] = [name |-> name, dead |-> FALSE]]
        /\ sconf'  = [sconf  EXCEPT ![s] = "working"]
        /\ smem'   = [smem   EXCEPT ![r] = None]
        /\ snamed' = [snamed EXCEPT ![s] = IF name = server[s].name /\ IsServer(s) THEN @ ELSE r]
        /\ sback'  = [sback  EXCEPT ![s] = IF IsServer(s) THEN @ ELSE r]
        /\ UNCHANGED <<sid, sgone>>

SaveCreated(r) == Goto(r, "createServer", "inserted", "done") /\ SaveBoth(r)
SaveUpdated(r) == Goto(r, "updateServer", "named", "done") /\ SaveBoth(r)

-----------------------------------------------------------------------------
(* updateServer                                                            *)

\* Bug: deleted servers are loaded too.
LoadDeleted(r, s, n) ==
    /\ sconf[s] # "none"
    /\ Begin(r, "updateServer", IF n \in {None, server[s].name} THEN "named" ELSE "read")
    /\ sid'  = [sid  EXCEPT ![r] = s]
    /\ smem' = [smem EXCEPT ![r] = n]
    /\ UNCHANGED <<server, sconf, slasts>>

\* getServerWithConfigById, which passes over deleted servers; a new name is
\* counted next.  A body without a name leaves the name out of the save.
LoadServer(r, s, n) ==
    /\ IsServer(s) /\ sconf[s] # "none"
    /\ Begin(r, "updateServer", IF n \in {None, server[s].name} THEN "named" ELSE "read")
    /\ sid'  = [sid  EXCEPT ![r] = s]
    /\ smem' = [smem EXCEPT ![r] = n]
    /\ UNCHANGED <<server, sconf, slasts>>

\* Bug: the new name is not counted.
CheckNothing(r) == Goto(r, "updateServer", "read", "named") /\ UNCHANGED svars
CheckName(r) == /\ Goto(r, "updateServer", "read", "named")
                /\ Unused(smem[r])
                /\ UNCHANGED svars

-----------------------------------------------------------------------------
DeleteServer(r, s) == /\ Begin(r, "deleteServer", "done")
                      /\ IsServer(s)
                      /\ server' = [server EXCEPT ![s].dead = TRUE]
                      /\ sgone'  = [sgone EXCEPT ![s] = r]
                      /\ UNCHANGED <<sconf, sid, smem, snamed, sback>>

\* setConnectionErrorFlag: the bot has lost its connection, or the owner clears it.
SetError(r, s, f) == /\ Begin(r, "setConnectionErrorFlag", "done")
                     /\ sconf[s] # "none"
                     /\ sconf' = [sconf EXCEPT ![s] = f]
                     /\ UNCHANGED <<server, sid, smem, slasts>>

\* Bug: the request goes on holding its entity.
FailHolding(r) == /\ Active(r) /\ op[r] \in {"createServer", "updateServer"}
                  /\ Goto(r, op[r], pc[r], "failed")
                  /\ UNCHANGED svars

FailServer(r) == /\ Active(r) /\ op[r] \in {"createServer", "updateServer"}
                 /\ Goto(r, op[r], pc[r], "failed")
                 /\ smem' = [smem EXCEPT ![r] = None]
                 /\ UNCHANGED <<server, sconf, sid, slasts>>

ServerStep(r) ==
    \/ \E n \in ServerNames : BeginServer(r, n)
    \/ InsertServer(r) \/ SaveCreated(r)
    \/ \E s \in ServerIds :
          \/ \E n \in ServerNames \cup {None} : LoadServer(r, s, n)
          \/ DeleteServer(r, s)
          \/ \E f \in Flag : SetError(r, s, f)
    \/ CheckName(r) \/ SaveUpdated(r) \/ FailServer(r)

-----------------------------------------------------------------------------
(* Properties *)

\* createServer: a server without a configuration, which can be neither updated
\* nor loaded by the bot, is one whose creation is under way or has failed.
NoBareServer ==
    \A s \in ServerIds : server[s] # None /\ sconf[s] = "none" =>
        \E r \in Requests : /\ op[r] = "createServer" /\ sid[r] = s
                            /\ pc[r] \in {"inserted", "failed"}

\* deleteServer: a server is brought back only by a request that was under way
\* when it was deleted, never by one that began later.
DeletionStands ==
    \A s \in ServerIds : IsServer(s) /\ sgone[s] # None => Overlap(sback[s], sgone[s])

\* Part of NamesClashOnlyByRace in BotLink: checkServerExistsByUser.
ServerNamesClashOnlyByRace ==
    \A s, t \in ServerIds : s # t /\ IsServer(s) /\ IsServer(t) /\ server[s].name = server[t].name
        => Raced(snamed[s]) \/ Raced(snamed[t])
=============================================================================
