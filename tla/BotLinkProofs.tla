--------------------------- MODULE BotLinkProofs ---------------------------
(***************************************************************************)
(* Proofs about BotLink for any number of requests, servers and zones.     *)
(* First the servers: what a suspended request relies on can only have     *)
(* been spoilt by a request that moved meanwhile, and such a request       *)
(* overlaps it: it was not over when the other began, nor the other when   *)
(* it did.  Then the zones and what the bot is told of them: of the        *)
(* handlers of events, whichever has read last has read what the table     *)
(* holds, or an event is still to be read; if one that has read earlier    *)
(* speaks last, the histories have it.                                     *)
(***************************************************************************)
EXTENDS BotLink, TLAPS

USE ServersAssumption, ServerAssumption

-----------------------------------------------------------------------------
(* Requests *)

Methods == {"none", "createServer", "updateServer", "deleteServer", "setConnectionErrorFlag",
            "createZone", "updateZone", "deleteZone", "getServerConfig"}
Places  == {"idle", "read", "inserted", "named", "saving", "looked up"} \cup Ended

HInv == /\ pc \in [Requests -> Places]
        /\ op \in [Requests -> Methods]
        /\ before \in [Requests -> SUBSET Requests]
        /\ \A r \in Requests : \A q \in before[r] : pc[q] \in Ended
        /\ \A r \in Requests : pc[r] = "idle" <=> op[r] = "none"

\* What a step of request r does to the requests.
Moves(r) ==
    \/ \E m \in Methods \ {"none"}, to \in Places \ {"idle"} : Begin(r, m, to)
    \/ /\ Active(r)
       /\ \E to \in Places \ {"idle"} : pc' = [pc EXCEPT ![r] = to]
       /\ UNCHANGED <<op, before>>

\* The past of a request is over, and that of the one that begins is.
LEMMA MovesKeep == ASSUME HInv, NEW r \in Requests, Moves(r)
                   PROVE  HInv'
<1>1. CASE \E m \in Methods \ {"none"}, to \in Places \ {"idle"} : Begin(r, m, to)
  <2>1. PICK m \in Methods \ {"none"}, to \in Places \ {"idle"} : Begin(r, m, to)
        BY <1>1
  <2> QED BY <2>1 DEF HInv, Begin, Ended, Places
<1>2. CASE Active(r) /\ UNCHANGED <<op, before>>
           /\ \E to \in Places \ {"idle"} : pc' = [pc EXCEPT ![r] = to]
      BY <1>2 DEF HInv, Active, Ended, Places
<1> QED BY <1>1, <1>2 DEF Moves

\* Once two requests have begun, whether they overlap is settled.
LEMMA OverlapStays ==
    ASSUME HInv, NEW r \in Requests, Moves(r),
           NEW p \in Requests, NEW q \in Requests, pc[p] # "idle", pc[q] # "idle"
    PROVE  Overlap(p, q)' <=> Overlap(p, q)
BY DEF HInv, Moves, Begin, Active, Overlap, Ended

\* A request that moves while another is suspended overlaps it.
LEMMA MoverOverlaps ==
    ASSUME HInv, NEW r \in Requests, Moves(r), NEW q \in Requests \ {r}, Active(q)
    PROVE  Overlap(r, q)' /\ Raced(q)'
<1>1. Overlap(r, q)'
      BY DEF HInv, Moves, Begin, Active, Overlap, Ended
<1>2. op'[r] # "none"
      BY DEF HInv, Moves, Begin, Active, Ended
<1> QED BY <1>1, <1>2 DEF Raced

\* A request that has overlapped another has for good.
LEMMA RacedStays ==
    ASSUME HInv, NEW r \in Requests, Moves(r), NEW x, x # None => pc[x] # "idle", Raced(x)
    PROVE  Raced(x)'
<1>1. PICK q \in Requests \ {x} : op[q] # "none" /\ Overlap(q, x)
      BY DEF Raced
<1>2. x \in Requests /\ pc[q] # "idle" /\ pc[x] # "idle"
      BY <1>1 DEF Overlap, HInv
<1>3. Overlap(q, x)'
      BY <1>1, <1>2, OverlapStays
<1>4. op'[q] # "none"
      BY <1>1, <1>2 DEF HInv, Moves, Begin
<1> QED BY <1>1, <1>3, <1>4 DEF Raced

\* Each step of a request on a server is a move.
LEMMA ServerStepMoves == ASSUME HInv, NEW r \in Requests, ServerStep(r)
                         PROVE  Moves(r)
BY DEF ServerStep, BeginServer, InsertServer, SaveCreated, LoadServer, DeleteServer, SetError,
       CheckName, SaveUpdated, FailServer, Begin, Goto, Moves, HInv, Active, Ended, Methods, Places

-----------------------------------------------------------------------------
(* Servers *)

Creating(r) == op[r] = "createServer"
Updating(r) == op[r] = "updateServer"
Working(r)  == Active(r) /\ (Creating(r) \/ Updating(r))

AliveAs(s, n) == IsServer(s) /\ server[s].name = n

Placed(r) ==
    /\ Creating(r) => pc[r] \in {"read", "inserted"} \cup Ended
    /\ Updating(r) => pc[r] \in {"read", "named"} \cup Ended
    /\ pc[r] = "idle" => sid[r] = None
    /\ IF Working(r)
       THEN /\ IF Creating(r) /\ pc[r] = "read" THEN sid[r] = None
                                               ELSE sid[r] # None /\ server[sid[r]] # None
            /\ pc[r] # "named" => smem[r] # None
       ELSE smem[r] = None

\* A server that is dead while a request works on it was deleted in an overlap.
Buried(r) == Working(r) /\ sid[r] # None /\ ~IsServer(sid[r])
                => sgone[sid[r]] \in Requests \ before[r]

\* A request that has counted its name, or keeps the one it has read, makes no
\* clash with it, unless it has overlapped another.
Cleared(r) ==
    Working(r) /\ (Updating(r) => pc[r] = "named") =>
        \/ Raced(r)
        \/ sid[r] # None /\ IsServer(sid[r]) /\ smem[r] \in {None, server[sid[r]].name}
        \/ smem[r] # None /\ \A t \in ServerIds \ {sid[r]} : ~AliveAs(t, smem[r])

\* The requests of the histories have begun, and those that made an end are over.
Recorded(s) ==
    /\ snamed[s] # None => pc[snamed[s]] # "idle"
    /\ sback[s] # None => pc[sback[s]] \in Ended
    /\ sgone[s] # None => pc[sgone[s]] \in Ended /\ server[s] # None

SInv == /\ ServersTypeOK
        /\ \A r \in Requests : Placed(r) /\ Buried(r) /\ Cleared(r)
        /\ \A s \in ServerIds : Recorded(s)
        /\ NoBareServer /\ DeletionStands /\ ServerNamesClashOnlyByRace

\* At first nobody works on a server.
LEMMA SInit == HandlersInit /\ ServersInit => SInv
BY DEF HandlersInit, ServersInit, SInv, ServersTypeOK, Placed, Buried, Cleared, Recorded, Working,
       Creating, Updating, Active, NoBareServer, DeletionStands, ServerNamesClashOnlyByRace, Ended,
       IsServer, Flag

\* What a move of r leaves of the others, and of what is settled.
LEMMA Others ==
    ASSUME HInv, NEW r \in Requests, Moves(r)
    PROVE  /\ \A q \in Requests \ {r} :
                 pc'[q] = pc[q] /\ op'[q] = op[q] /\ before'[q] = before[q]
           /\ \A q \in Requests : pc[q] # "idle" => pc'[q] # "idle" /\ op'[q] = op[q]
           /\ \A q \in Requests : pc[q] \in Ended => q # r /\ pc'[q] \in Ended
           /\ \A q \in Requests : Active(q) => q \notin before'[r]
           /\ pc'[r] # "idle"
           /\ \A x : (x # None => pc[x] # "idle") /\ Raced(x) => Raced(x)'
<1>1. \A x : (x # None => pc[x] # "idle") /\ Raced(x) => Raced(x)'
      BY RacedStays
<1>2. PICK to \in Places \ {"idle"} : pc' = [pc EXCEPT ![r] = to] /\ pc[r] \notin Ended
      BY DEF Moves, Begin, Active, Ended
<1>3. \A q \in Requests \ {r} : op'[q] = op[q] /\ before'[q] = before[q]
      BY DEF HInv, Moves, Begin
<1>4. pc[r] # "idle" => UNCHANGED op
      BY DEF Moves, Begin
<1>5. \A q \in Requests : Active(q) => q \notin before'[r]
      BY DEF HInv, Moves, Begin, Active
<1>6. /\ \A q \in Requests \ {r} : pc'[q] = pc[q]
      /\ \A q \in Requests : pc[q] # "idle" => pc'[q] # "idle"
      /\ \A q \in Requests : pc[q] \in Ended => q # r /\ pc'[q] \in Ended
      /\ pc'[r] # "idle"
      BY <1>2 DEF HInv
<1> QED BY <1>1, <1>3, <1>4, <1>5, <1>6

\* A step of another request that leaves the servers alone.
LEMMA ServersFrame ==
    ASSUME HInv, SInv, NEW r \in Requests, Moves(r), UNCHANGED svars,
           ~Creating(r), ~Updating(r), ~Creating(r)', ~Updating(r)'
    PROVE  SInv'
<1>1. /\ \A q \in Requests \ {r} :
            pc'[q] = pc[q] /\ op'[q] = op[q] /\ before'[q] = before[q]
      /\ pc'[r] # "idle"
      /\ \A q \in Requests : pc[q] \in Ended => q # r /\ pc'[q] \in Ended
      BY Others
<1>2. \A q \in Requests : ~Working(q) \/ ~Working(q)' => smem[q] = None
  <2>1. \A q \in Requests : Working(q)' <=> Working(q)
        BY <1>1 DEF Working, Creating, Updating, Active
  <2> QED BY <2>1 DEF SInv, Placed
<1>3. ServersTypeOK'
      BY <1>2 DEF SInv, ServersTypeOK, svars, slasts, IsServer, Working, Active
<1>4. ASSUME NEW q \in Requests
      PROVE  (Placed(q) /\ Buried(q) /\ Cleared(q))'
  <2>1. CASE q = r
        BY <2>1, <1>1 DEF SInv, svars, Placed, Buried, Cleared, Working
  <2>2. CASE q # r
    <3>1. Raced(q) /\ Working(q) => Raced(q)'
          BY <2>2, RacedStays DEF Working, Active
    <3> QED BY <2>2, <3>1, <1>1 DEF SInv, svars, slasts, Placed, Buried, Cleared, Working, Creating,
               Updating, Active, IsServer, AliveAs
  <2> QED BY <2>1, <2>2
<1>5. \A s \in ServerIds : Recorded(s)'
      BY <1>1, Others DEF SInv, svars, slasts, Recorded, ServersTypeOK
<1>6. NoBareServer'
      BY <1>1 DEF SInv, svars, NoBareServer, Creating
<1>7. DeletionStands'
  <2> SUFFICES ASSUME NEW s \in ServerIds, IsServer(s), sgone[s] # None
               PROVE  Overlap(sback[s], sgone[s])'
      BY DEF DeletionStands, svars, slasts, IsServer
  <2>1. Overlap(sback[s], sgone[s])
        BY DEF SInv, DeletionStands
  <2> QED BY <2>1, OverlapStays DEF SInv, Recorded, ServersTypeOK, svars, slasts, Overlap, Ended
<1>8. ServerNamesClashOnlyByRace'
      BY RacedStays DEF SInv, ServerNamesClashOnlyByRace, svars, slasts, IsServer, Recorded
<1> QED BY <1>3, <1>4, <1>5, <1>6, <1>7, <1>8 DEF SInv
-----------------------------------------------------------------------------
(* The steps of a request on servers                                       *)

\* What r does to a server cannot mislead another request q that works on it:
\* from now on q has overlapped r.
LEMMA Bystanders ==
    ASSUME HInv, SInv, NEW r \in Requests, Moves(r), NEW q \in Requests \ {r},
           sid'[q] = sid[q], smem'[q] = smem[q],
           \A s \in ServerIds : server[s] # None =>
               /\ server'[s] # None
               /\ ~IsServer(s)' => sgone'[s] = r \/ (~IsServer(s) /\ sgone'[s] = sgone[s])
    PROVE  (Placed(q) /\ Buried(q) /\ Cleared(q))'
<1>1. pc'[q] = pc[q] /\ op'[q] = op[q] /\ before'[q] = before[q]
      BY Others
<1>2. Working(q)' <=> Working(q)
      BY <1>1 DEF Working, Creating, Updating, Active
<1>3. Placed(q) /\ Buried(q) /\ sid[q] \in ServerIds \cup {None}
      BY DEF SInv, ServersTypeOK
<1>4. Placed(q)'
      BY <1>1, <1>2, <1>3 DEF Placed, Creating, Updating
<1>5. r \notin before[q]
      BY DEF HInv, Moves, Begin, Active, Ended
<1>6. Buried(q)'
      BY <1>1, <1>2, <1>3, <1>5 DEF Buried, Placed
<1>7. Cleared(q)'
      BY <1>1, <1>2, MoverOverlaps DEF Cleared, Working
<1> QED BY <1>4, <1>6, <1>7

\* The histories name r, or whom they named.
LEMMA StillRecorded ==
    ASSUME HInv, SInv, NEW r \in Requests, Moves(r), NEW s \in ServerIds,
           snamed'[s] \in {snamed[s], r},
           sback'[s] = sback[s] \/ (sback'[s] = r /\ pc'[r] \in Ended),
           sgone'[s] = sgone[s] \/ (sgone'[s] = r /\ pc'[r] \in Ended /\ server[s] # None),
           server[s] # None => server'[s] # None
    PROVE  Recorded(s)'
<1>1. Recorded(s) /\ {snamed[s], sback[s], sgone[s]} \subseteq Requests \cup {None}
      BY DEF SInv, ServersTypeOK
<1> QED BY <1>1, Others DEF Recorded

\* A deletion that stood still stands.
LEMMA StillStands ==
    ASSUME HInv, SInv, NEW r \in Requests, Moves(r), NEW s \in ServerIds,
           IsServer(s), sgone[s] # None, sback'[s] = sback[s], sgone'[s] = sgone[s]
    PROVE  Overlap(sback[s], sgone[s])'
<1>1. Overlap(sback[s], sgone[s]) /\ Recorded(s)
      BY DEF SInv, DeletionStands
<1>2. {sback[s], sgone[s]} \subseteq Requests
      BY <1>1 DEF Overlap
<1>3. pc[sback[s]] # "idle" /\ pc[sgone[s]] # "idle"
      BY <1>1, <1>2 DEF Recorded, Ended
<1> QED BY <1>1, <1>2, <1>3, OverlapStays

\* So does what excused a clash of names.
LEMMA StillExcused ==
    ASSUME HInv, SInv, NEW r \in Requests, Moves(r), NEW s \in ServerIds, NEW t \in ServerIds,
           s # t, IsServer(s), IsServer(t), server[s].name = server[t].name,
           snamed'[s] = snamed[s], snamed'[t] = snamed[t]
    PROVE  (Raced(snamed[s]) \/ Raced(snamed[t]))'
<1>1. Raced(snamed[s]) \/ Raced(snamed[t])
      BY DEF SInv, ServerNamesClashOnlyByRace
<1>2. Recorded(s) /\ Recorded(t)
      BY DEF SInv
<1> QED BY <1>1, <1>2, RacedStays DEF Recorded
\* createServer and updateServer begin: a name counted now clashes with nothing,
\* and neither does the one that the server has.
LEMMA BeginServerStep ==
    ASSUME HInv, SInv, NEW r \in Requests, Moves(r),
           \/ \E n \in ServerNames : BeginServer(r, n)
           \/ \E s \in ServerIds, n \in ServerNames \cup {None} : LoadServer(r, s, n)
    PROVE  SInv'
<1>1. PICK n \in ServerNames \cup {None}, t \in ServerIds \cup {None} :
          /\ smem' = [smem EXCEPT ![r] = n]
          /\ sid' = [sid EXCEPT ![r] = t]
          /\ \/ BeginServer(r, n) /\ t = None /\ n # None
             \/ t # None /\ LoadServer(r, t, n)
  <2>1. CASE \E n \in ServerNames : BeginServer(r, n)
    <3>1. sid[r] = None /\ sid \in [Requests -> ServerIds \cup {None}]
          BY <2>1 DEF BeginServer, Begin, SInv, Placed, ServersTypeOK
    <3>2. sid = [sid EXCEPT ![r] = None]
          BY <3>1
    <3> QED BY <2>1, <3>2 DEF BeginServer
  <2>2. CASE \E s \in ServerIds, n \in ServerNames \cup {None} : LoadServer(r, s, n)
        BY <2>2 DEF LoadServer
  <2> QED BY <2>1, <2>2
<1>2. /\ UNCHANGED <<server, sconf, slasts>>
      /\ pc[r] = "idle" /\ pc'[r] \in {"read", "named"}
      BY <1>1 DEF BeginServer, LoadServer, Begin, HInv
<1>3. ServersTypeOK'
  <2>1. \A q \in Requests : pc'[q] \in Ended => smem'[q] = None
        BY <1>1, <1>2, Others DEF SInv, ServersTypeOK, Ended, HInv, BeginServer, LoadServer, Begin
  <2> QED BY <1>1, <1>2, <2>1 DEF SInv, ServersTypeOK, slasts
<1>4. ASSUME NEW q \in Requests
      PROVE  (Placed(q) /\ Buried(q) /\ Cleared(q))'
  <2>1. CASE q # r
        BY <2>1, <1>1, <1>2, Bystanders DEF slasts, IsServer, SInv, ServersTypeOK
  <2>2. CASE q = r
    <3>1. sid'[r] = t /\ smem'[r] = n
          BY <1>1 DEF SInv, ServersTypeOK
    <3>2. CASE BeginServer(r, n) /\ t = None /\ n # None
      <4>1. op'[r] = "createServer" /\ pc'[r] = "read"
            BY <3>2 DEF BeginServer, Begin, HInv
      <4> QED BY <2>2, <1>2, <3>1, <3>2, <4>1 DEF BeginServer, Placed, Buried, Cleared, Working,
                 Creating, Updating, Active, Ended, AliveAs, Unused, IsServer
    <3>3. CASE t # None /\ LoadServer(r, t, n)
      <4>1. /\ op'[r] = "updateServer" /\ IsServer(t)
            /\ pc'[r] = IF n \in {None, server[t].name} THEN "named" ELSE "read"
            BY <3>3 DEF LoadServer, Begin, HInv
      <4> QED BY <2>2, <1>2, <3>1, <3>3, <4>1 DEF Placed, Buried, Cleared, Working, Creating,
                 Updating, Active, Ended, IsServer
    <3> QED BY <1>1, <3>2, <3>3
  <2> QED BY <2>1, <2>2
<1>5. \A s \in ServerIds : Recorded(s)'
      BY <1>2, StillRecorded DEF slasts
<1>6. NoBareServer'
      BY <1>1, <1>2, Others DEF SInv, ServersTypeOK, NoBareServer
<1>7. DeletionStands'
      BY <1>2, StillStands DEF slasts, DeletionStands, IsServer
<1>8. ServerNamesClashOnlyByRace'
      BY <1>2, StillExcused DEF slasts, ServerNamesClashOnlyByRace, IsServer
<1> QED BY <1>3, <1>4, <1>5, <1>6, <1>7, <1>8 DEF SInv
\* createServer inserts the name it has counted into a new row.
LEMMA InsertServerStep == ASSUME HInv, SInv, NEW r \in Requests, Moves(r), InsertServer(r)
                          PROVE  SInv'
<1>1. PICK n \in ServerIds :
          /\ server[n] = None
          /\ server' = [server EXCEPT ![n] = [name |-> smem[r], dead |-> FALSE]]
          /\ sid'    = [sid EXCEPT ![r] = n]
          /\ snamed' = [snamed EXCEPT ![n] = r]
      BY DEF InsertServer
<1>2. /\ UNCHANGED <<sconf, smem, sback, sgone>>
      /\ pc[r] = "read" /\ op[r] = "createServer"
      /\ pc'[r] = "inserted" /\ op'[r] = "createServer"
      BY DEF InsertServer, Goto, HInv
<1>3. Working(r) /\ Creating(r) /\ Placed(r) /\ Cleared(r) /\ sid[r] = None
      BY <1>2 DEF SInv, Working, Active, Creating, Ended, Placed
<1>4. smem[r] \in ServerNames /\ [name |-> smem[r], dead |-> FALSE] \in Server
      BY <1>2, <1>3 DEF SInv, ServersTypeOK, Placed, Server
<1>5. server'[n] = [name |-> smem[r], dead |-> FALSE] /\ server'[n] # None
      /\ \A s \in ServerIds \ {n} : server'[s] = server[s]
      BY <1>1, <1>4 DEF SInv, ServersTypeOK
<1>6. ServersTypeOK'
  <2>1. \A q \in Requests : pc'[q] \in Ended => smem'[q] = None
        BY <1>2, Others DEF SInv, ServersTypeOK, Ended
  <2>2. server' \in [ServerIds -> Server \cup {None}]
        BY <1>1, <1>4 DEF SInv, ServersTypeOK
  <2>3. \A s \in ServerIds : sconf'[s] # "none" => server'[s] # None
        BY <1>2, <1>5 DEF SInv, ServersTypeOK
  <2> QED BY <1>1, <1>2, <2>1, <2>2, <2>3 DEF SInv, ServersTypeOK
<1>7. ASSUME NEW q \in Requests
      PROVE  (Placed(q) /\ Buried(q) /\ Cleared(q))'
  <2>1. CASE q # r
    <3>1. sid'[q] = sid[q] /\ smem'[q] = smem[q]
          BY <2>1, <1>1, <1>2 DEF SInv, ServersTypeOK
    <3>2. \A s \in ServerIds : server[s] # None =>
             /\ server'[s] # None
             /\ ~IsServer(s)' => ~IsServer(s) /\ sgone'[s] = sgone[s]
          BY <1>1, <1>2, <1>5 DEF IsServer
    <3> QED BY <2>1, <3>1, <3>2, Bystanders
  <2>2. CASE q = r
    <3>1. sid'[r] = n /\ smem'[r] = smem[r]
          BY <1>1, <1>2 DEF SInv, ServersTypeOK
    <3> QED BY <2>2, <1>2, <1>4, <1>5, <3>1 DEF Placed, Buried, Cleared, Working, Creating,
               Updating, Active, Ended, IsServer
  <2> QED BY <2>1, <2>2
<1>8. \A s \in ServerIds : Recorded(s)'
  <2>1. \A s \in ServerIds : snamed'[s] \in {snamed[s], r}
        BY <1>1 DEF SInv, ServersTypeOK
  <2> QED BY <1>2, <1>5, <2>1, StillRecorded
<1>9. NoBareServer'
  <2> SUFFICES ASSUME NEW s \in ServerIds, server'[s] # None, sconf'[s] = "none"
               PROVE  \E q \in Requests : /\ op'[q] = "createServer" /\ sid'[q] = s
                                          /\ pc'[q] \in {"inserted", "failed"}
      BY DEF NoBareServer
  <2>1. CASE s = n
        BY <2>1, <1>1, <1>2 DEF SInv, ServersTypeOK
  <2>2. CASE s # n
    <3>1. PICK q \in Requests : /\ op[q] = "createServer" /\ sid[q] = s
                                /\ pc[q] \in {"inserted", "failed"}
          BY <2>2, <1>2, <1>5 DEF SInv, NoBareServer
    <3> QED BY <3>1, <1>1, <1>2, Others DEF SInv, ServersTypeOK
  <2> QED BY <2>1, <2>2
<1>10. DeletionStands'
  <2> SUFFICES ASSUME NEW s \in ServerIds, IsServer(s)', sgone'[s] # None
               PROVE  Overlap(sback[s], sgone[s])'
      BY DEF DeletionStands
  <2>1. CASE s # n
        BY <2>1, <1>2, <1>5, StillStands DEF IsServer
  <2>2. CASE s = n
        BY <2>2, <1>1, <1>2 DEF SInv, Recorded
  <2> QED BY <2>1, <2>2
<1>11. ServerNamesClashOnlyByRace'
  <2> SUFFICES ASSUME NEW s \in ServerIds, NEW t \in ServerIds, s # t,
                      IsServer(s)', IsServer(t)', server'[s].name = server'[t].name
               PROVE  (Raced(snamed[s]) \/ Raced(snamed[t]))'
      BY DEF ServerNamesClashOnlyByRace
  <2>1. \A x \in ServerIds \ {n} : (IsServer(x)' => IsServer(x)) /\ snamed'[x] = snamed[x]
        BY <1>1, <1>5 DEF IsServer, SInv, ServersTypeOK
  <2>2. CASE n \notin {s, t}
        BY <2>1, <2>2, <1>5, StillExcused
  <2>3. CASE n \in {s, t}
    <3>1. PICK x \in {s, t} \ {n} : AliveAs(x, smem[r])
          BY <2>1, <2>3, <1>5 DEF AliveAs
    <3>2. Raced(r)
          BY <3>1, <1>3 DEF Cleared, Creating, Updating
    <3>3. Raced(r)' /\ snamed'[n] = r
          BY <3>2, <1>1, <1>2, RacedStays DEF SInv, ServersTypeOK
    <3> QED BY <2>3, <3>3
  <2> QED BY <2>2, <2>3
<1> QED BY <1>6, <1>7, <1>8, <1>9, <1>10, <1>11 DEF SInv
\* A step that ends or checks: no row changes, but for one that is deleted or
\* flagged.
LEMMA OtherServerStep ==
    ASSUME HInv, SInv, NEW r \in Requests, Moves(r),
           \/ CheckName(r) \/ FailServer(r)
           \/ \E s \in ServerIds : \/ DeleteServer(r, s)
                                   \/ \E f \in Flag : SetError(r, s, f)
    PROVE  SInv'
<1>1. /\ UNCHANGED <<sid, snamed, sback>>
      /\ smem' = smem \/ (FailServer(r) /\ smem' = [smem EXCEPT ![r] = None])
      BY DEF CheckName, FailServer, DeleteServer, SetError, svars, slasts
<1>2. ASSUME NEW s \in ServerIds
      PROVE  /\ server'[s] \in Server \cup {None}
             /\ server[s] = None <=> server'[s] = None
             /\ server[s] # None => server'[s].name = server[s].name
             /\ IsServer(s)' => IsServer(s)
             /\ \/ (IsServer(s)' <=> IsServer(s)) /\ sgone'[s] = sgone[s]
                \/ ~IsServer(s)' /\ sgone'[s] = r /\ pc'[r] = "done" /\ server[s] # None
  <2>1. CASE CheckName(r) \/ FailServer(r) \/ \E x \in ServerIds, f \in Flag : SetError(r, x, f)
        BY <2>1 DEF CheckName, FailServer, SetError, svars, slasts, IsServer, SInv, ServersTypeOK
  <2>2. CASE \E x \in ServerIds : DeleteServer(r, x)
    <3>1. PICK x \in ServerIds : DeleteServer(r, x)
          BY <2>2
    <3>2. /\ server[x] \in Server /\ ~server[x].dead
          /\ server' = [server EXCEPT ![x].dead = TRUE]
          /\ sgone' = [sgone EXCEPT ![x] = r] /\ pc'[r] = "done"
          BY <3>1 DEF DeleteServer, Begin, IsServer, SInv, ServersTypeOK, HInv
    <3>3. [server[x] EXCEPT !.dead = TRUE] \in Server
          BY <3>2 DEF Server
    <3> QED BY <3>2, <3>3 DEF IsServer, SInv, ServersTypeOK, Server
  <2> QED BY <2>1, <2>2
<1>3. /\ sconf' \in [ServerIds -> Flag \cup {"none"}]
      /\ \A s \in ServerIds : sconf'[s] = "none" <=> sconf[s] = "none"
      BY DEF CheckName, FailServer, DeleteServer, SetError, svars, SInv, ServersTypeOK, Flag
<1>4. ServersTypeOK'
  <2>1. server' \in [ServerIds -> Server \cup {None}]
        BY <1>2 DEF CheckName, FailServer, DeleteServer, SetError, svars, SInv, ServersTypeOK
  <2>2. sgone' \in [ServerIds -> Requests \cup {None}]
        BY DEF CheckName, FailServer, DeleteServer, SetError, svars, slasts, SInv, ServersTypeOK
  <2>3. \A q \in Requests : pc'[q] \in Ended => smem'[q] = None
    <3>1. pc'[r] \in Ended => smem'[r] = None
          BY DEF CheckName, FailServer, DeleteServer, SetError, Begin, Goto, SInv, ServersTypeOK,
                 Placed, Working, Active, HInv, Ended
    <3> QED BY <1>1, <3>1, Others DEF SInv, ServersTypeOK
  <2> QED BY <1>1, <1>2, <1>3, <2>1, <2>2, <2>3 DEF SInv, ServersTypeOK
<1>5. ASSUME NEW q \in Requests
      PROVE  (Placed(q) /\ Buried(q) /\ Cleared(q))'
  <2>1. CASE q # r
    <3>1. sid'[q] = sid[q] /\ smem'[q] = smem[q]
          BY <2>1, <1>1 DEF SInv, ServersTypeOK
    <3> QED BY <2>1, <3>1, <1>2, Bystanders
  <2>2. CASE q = r
    <3>1. CASE CheckName(r)
      <4>1. /\ UNCHANGED <<svars, op, before>> /\ op[r] = "updateServer"
            /\ pc[r] = "read" /\ pc'[r] = "named" /\ Unused(smem[r])
            BY <3>1 DEF CheckName, Goto, HInv
      <4>2. Working(r) /\ Placed(r) /\ Buried(r)
            BY <4>1 DEF SInv, Working, Active, Updating, Ended
      <4>3. smem[r] # None /\ sid[r] # None /\ server[sid[r]] # None
            BY <4>1, <4>2 DEF Placed, Creating
      <4>4. \A t \in ServerIds : ~AliveAs(t, smem[r])
            BY <4>1 DEF AliveAs, Unused
      <4> QED BY <2>2, <4>1, <4>2, <4>3, <4>4 DEF svars, slasts, Placed, Buried, Cleared, Working,
                 Creating, Updating, Active, Ended, IsServer, AliveAs
    <3>2. CASE ~CheckName(r)
      <4>1. /\ pc'[r] \in Ended /\ op'[r] \in Methods
            /\ smem'[r] = None
            BY <3>2 DEF FailServer, DeleteServer, SetError, Begin, Goto, SInv, ServersTypeOK,
                   Placed, Working, Active, HInv, Ended, Methods
      <4> QED BY <2>2, <4>1 DEF Placed, Buried, Cleared, Working, Active, Ended
    <3> QED BY <3>1, <3>2
  <2> QED BY <2>1, <2>2
<1>6. \A s \in ServerIds : Recorded(s)'
      BY <1>1, <1>2, StillRecorded DEF Ended
<1>7. NoBareServer'
  <2> SUFFICES ASSUME NEW s \in ServerIds, server'[s] # None, sconf'[s] = "none"
               PROVE  \E q \in Requests : /\ op'[q] = "createServer" /\ sid'[q] = s
                                          /\ pc'[q] \in {"inserted", "failed"}
      BY DEF NoBareServer
  <2>1. PICK q \in Requests : /\ op[q] = "createServer" /\ sid[q] = s
                              /\ pc[q] \in {"inserted", "failed"}
        BY <1>2, <1>3 DEF SInv, NoBareServer
  <2>2. pc'[q] \in {"inserted", "failed"}
        BY <2>1, Others DEF CheckName, FailServer, DeleteServer, SetError, Begin, Goto, HInv, Ended
  <2> QED BY <1>1, <2>1, <2>2, Others
<1>8. DeletionStands'
  <2> SUFFICES ASSUME NEW s \in ServerIds, IsServer(s)', sgone'[s] # None
               PROVE  Overlap(sback[s], sgone[s])'
      BY DEF DeletionStands
  <2> QED BY <1>1, <1>2, StillStands
<1>9. ServerNamesClashOnlyByRace'
  <2> SUFFICES ASSUME NEW s \in ServerIds, NEW t \in ServerIds, s # t,
                      IsServer(s)', IsServer(t)', server'[s].name = server'[t].name
               PROVE  (Raced(snamed[s]) \/ Raced(snamed[t]))'
      BY DEF ServerNamesClashOnlyByRace
  <2> QED BY <1>1, <1>2, StillExcused DEF IsServer
<1> QED BY <1>4, <1>5, <1>6, <1>7, <1>8, <1>9 DEF SInv
\* The transaction of createServer and updateServer: what it writes may be old,
\* but then the request has overlapped the one that has changed the row since.
LEMMA SaveServerStep ==
    ASSUME HInv, SInv, NEW r \in Requests, Moves(r), SaveCreated(r) \/ SaveUpdated(r)
    PROVE  SInv'
<1> DEFINE s    == sid[r]
           name == IF smem[r] = None THEN server[s].name ELSE smem[r]
<1>1. /\ \/ op[r] = "createServer" /\ pc[r] = "inserted"
         \/ op[r] = "updateServer" /\ pc[r] = "named"
      /\ SaveBoth(r) /\ pc'[r] = "done"
      BY DEF SaveCreated, SaveUpdated, Goto, HInv
<1>2. Working(r) /\ Placed(r) /\ Buried(r) /\ Cleared(r)
      BY <1>1 DEF SInv, Working, Active, Creating, Updating, Ended
<1>3. s \in ServerIds /\ server[s] \in Server
      BY <1>1, <1>2 DEF Placed, Creating, SInv, ServersTypeOK
<1>4. name \in ServerNames /\ [name |-> name, dead |-> FALSE] \in Server
      BY <1>3 DEF SInv, ServersTypeOK, Server
<1>5. /\ server' = [server EXCEPT ![s] = [name |-> name, dead |-> FALSE]]
      /\ sconf'  = [sconf  EXCEPT ![s] = "working"]
      /\ smem'   = [smem   EXCEPT ![r] = None]
      /\ snamed' = [snamed EXCEPT ![s] = IF name = server[s].name /\ IsServer(s) THEN @ ELSE r]
      /\ sback'  = [sback  EXCEPT ![s] = IF IsServer(s) THEN @ ELSE r]
      /\ UNCHANGED <<sid, sgone>>
      BY <1>1 DEF SaveBoth
<1>6. /\ server'[s] = [name |-> name, dead |-> FALSE] /\ server'[s] # None
      /\ \A t \in ServerIds \ {s} : /\ server'[t] = server[t]
                                   /\ snamed'[t] = snamed[t] /\ sback'[t] = sback[t]
      BY <1>3, <1>4, <1>5 DEF SInv, ServersTypeOK
<1>7. ServersTypeOK'
  <2>1. \A q \in Requests : pc'[q] \in Ended => smem'[q] = None
        BY <1>5, Others DEF SInv, ServersTypeOK
  <2>2. server' \in [ServerIds -> Server \cup {None}]
        BY <1>4, <1>5 DEF SInv, ServersTypeOK
  <2>3. \A h \in {snamed', sback', sgone'} : h \in [ServerIds -> Requests \cup {None}]
        BY <1>5 DEF SInv, ServersTypeOK
  <2>4. /\ sconf' \in [ServerIds -> Flag \cup {"none"}]
        /\ \A t \in ServerIds : sconf'[t] # "none" => server'[t] # None
        BY <1>3, <1>5, <1>6 DEF SInv, ServersTypeOK, Flag
  <2>5. sid' \in [Requests -> ServerIds \cup {None}] /\ smem' \in [Requests -> ServerNames \cup {None}]
        BY <1>5 DEF SInv, ServersTypeOK
  <2> QED BY <2>1, <2>2, <2>3, <2>4, <2>5 DEF ServersTypeOK
<1>8. ASSUME NEW q \in Requests
      PROVE  (Placed(q) /\ Buried(q) /\ Cleared(q))'
  <2>1. CASE q # r
    <3>1. sid'[q] = sid[q] /\ smem'[q] = smem[q]
          BY <2>1, <1>5 DEF SInv, ServersTypeOK
    <3>2. \A t \in ServerIds : server[t] # None =>
             /\ server'[t] # None
             /\ ~IsServer(t)' => ~IsServer(t) /\ sgone'[t] = sgone[t]
          BY <1>5, <1>6 DEF IsServer
    <3> QED BY <2>1, <3>1, <3>2, Bystanders
  <2>2. CASE q = r
    <3>1. smem'[r] = None
          BY <1>5 DEF SInv, ServersTypeOK
    <3> QED BY <2>2, <1>1, <3>1 DEF Placed, Buried, Cleared, Working, Active, Ended
  <2> QED BY <2>1, <2>2
<1>9. \A t \in ServerIds : Recorded(t)'
  <2>1. \A t \in ServerIds : /\ snamed'[t] \in {snamed[t], r}
                            /\ sback'[t] \in {sback[t], r}
                            /\ server[t] # None => server'[t] # None
        BY <1>5, <1>6 DEF SInv, ServersTypeOK
  <2> QED BY <1>1, <1>5, <2>1, StillRecorded DEF Ended
<1>10. NoBareServer'
  <2> SUFFICES ASSUME NEW t \in ServerIds, server'[t] # None, sconf'[t] = "none"
               PROVE  \E q \in Requests : /\ op'[q] = "createServer" /\ sid'[q] = t
                                          /\ pc'[q] \in {"inserted", "failed"}
      BY DEF NoBareServer
  <2>1. t # s
        BY <1>3, <1>5 DEF SInv, ServersTypeOK
  <2>2. PICK q \in Requests : /\ op[q] = "createServer" /\ sid[q] = t
                              /\ pc[q] \in {"inserted", "failed"}
        BY <2>1, <1>5, <1>6 DEF SInv, ServersTypeOK, NoBareServer
  <2> QED BY <2>1, <2>2, <1>5, Others
<1>11. DeletionStands'
  <2> SUFFICES ASSUME NEW t \in ServerIds, IsServer(t)', sgone'[t] # None
               PROVE  Overlap(sback[t], sgone[t])'
      BY DEF DeletionStands
  <2>1. CASE IsServer(t)
    <3>1. sback'[t] = sback[t]
          BY <2>1, <1>5, <1>6 DEF SInv, ServersTypeOK
    <3> QED BY <2>1, <3>1, <1>5, StillStands
  <2>2. CASE ~IsServer(t)
    <3>1. t = s
          BY <2>2, <1>6 DEF IsServer
    <3>2. sback'[s] = r /\ sgone'[s] = sgone[s]
          BY <2>2, <3>1, <1>3, <1>5 DEF SInv, ServersTypeOK
    <3>3. sgone[s] \in Requests \ before[r] /\ Recorded(s)
          BY <2>2, <3>1, <1>2, <1>3 DEF Buried, SInv
    <3>4. Overlap(r, sgone[s])
          BY <3>3, <1>2 DEF Overlap, HInv, Working, Active
    <3> QED BY <3>1, <3>2, <3>3, <3>4, <1>2, OverlapStays DEF Recorded, Working, Active, Ended
  <2> QED BY <2>1, <2>2
<1>12. ServerNamesClashOnlyByRace'
  <2> SUFFICES ASSUME NEW x \in ServerIds, NEW y \in ServerIds, x # y,
                      IsServer(x)', IsServer(y)', server'[x].name = server'[y].name
               PROVE  (Raced(snamed[x]) \/ Raced(snamed[y]))'
      BY DEF ServerNamesClashOnlyByRace
  <2>1. CASE snamed'[x] = snamed[x] /\ snamed'[y] = snamed[y]
                /\ AliveAs(x, server'[x].name) /\ AliveAs(y, server'[y].name)
        BY <2>1, StillExcused DEF AliveAs
  <2>2. CASE Raced(r) /\ snamed'[s] = r /\ s \in {x, y}
    <3>1. Raced(r)'
          BY <2>2, <1>2, RacedStays DEF Working, Active
    <3> QED BY <2>2, <3>1
  <2>3. \A t \in ServerIds \ {s} : IsServer(t)' => AliveAs(t, server'[t].name)
        BY <1>6 DEF AliveAs, IsServer
  <2>4. AliveAs(s, name) => snamed'[s] = snamed[s]
        BY <1>3, <1>5 DEF AliveAs, SInv, ServersTypeOK
  <2>5. ~AliveAs(s, name) => snamed'[s] = r
        BY <1>3, <1>5 DEF AliveAs, SInv, ServersTypeOK
  <2>6. CASE s \in {x, y} /\ ~AliveAs(s, name)
    <3>1. PICK t \in {x, y} \ {s} : AliveAs(t, name)
          BY <2>3, <2>6, <1>6
    <3>2. Raced(r)
          BY <3>1, <2>6, <1>1, <1>2 DEF Cleared, Creating, Updating, AliveAs
    <3> QED BY <3>2, <2>2, <2>5, <2>6
  <2>7. CASE s \notin {x, y} \/ AliveAs(s, name)
        BY <2>7, <2>1, <2>3, <2>4, <1>6
  <2> QED BY <2>6, <2>7
<1> QED BY <1>7, <1>8, <1>9, <1>10, <1>11, <1>12 DEF SInv

\* Every step of a request on servers keeps the invariant.
LEMMA ServersStep == ASSUME HInv, SInv, NEW r \in Requests, ServerStep(r)
                     PROVE  SInv'
BY ServerStepMoves, BeginServerStep, InsertServerStep, SaveServerStep, OtherServerStep
   DEF ServerStep

USE ZoneEventsAssumption, HomeAssumption

-----------------------------------------------------------------------------
(* The saved row *)

Tidy(x)     == x.crawl => x.notify < x.delete
Named(z, n) == IsZone(z) /\ zone[z].name = n

LEMMA AssignedZone == ASSUME NEW row \in Zone, NEW body \in Bodies
                      PROVE  Assigned(row, body) \in Zone
BY DEF Assigned, Zone, AnyOf

\* save makes a row of a row, and leaves what is gone.
LEMMA MergedZone ==
    ASSUME NEW entity \in Zone, NEW base \in Zone \cup {None}, NEW row
    PROVE  /\ base = None => Merged(row, base, entity) = entity
           /\ base # None /\ row \notin Zone => Merged(row, base, entity) = row
           /\ base # None /\ row \in Zone =>
                 /\ Merged(row, base, entity) \in Zone
                 /\ Merged(row, base, entity).name \in {row.name, entity.name}
                 /\ entity.name # base.name => Merged(row, base, entity).name = entity.name
                 /\ entity.name = base.name => Merged(row, base, entity).name = row.name
                 /\ row = base => Merged(row, base, entity) = entity
<1>1. CASE base = None \/ row \notin Zone
      BY <1>1 DEF Merged
<1>2. CASE base # None /\ row \in Zone
  <2>1. Merged(row, base, entity) =
            [c \in DOMAIN entity |-> IF entity[c] = base[c] THEN row[c] ELSE entity[c]]
        BY <1>2 DEF Merged
  <2>2. DOMAIN entity = {"name", "notify", "delete", "crawl"}
        BY DEF Zone
  <2>3. Merged(row, base, entity) =
            [name   |-> IF entity.name = base.name THEN row.name ELSE entity.name,
             notify |-> IF entity.notify = base.notify THEN row.notify ELSE entity.notify,
             delete |-> IF entity.delete = base.delete THEN row.delete ELSE entity.delete,
             crawl  |-> IF entity.crawl = base.crawl THEN row.crawl ELSE entity.crawl]
        BY <2>1, <2>2
  <2>4. row = base => Merged(row, base, entity) = entity
        BY <1>2, <2>3 DEF Zone
  <2> QED BY <1>2, <2>3, <2>4 DEF Zone
<1> QED BY <1>1, <1>2

\* Minutes that were accepted for a tidy row, and none of them unchecked, make a
\* tidy row.
LEMMA AcceptedTidy ==
    ASSUME NEW row \in Zone, NEW body \in Bodies, Tidy(row),
           MinutesAccepted(row, body), ~Unchecked(row, body)
    PROVE  Tidy(Assigned(row, body))
BY DEF Tidy, MinutesAccepted, Unchecked, Assigned, Zone, AnyOf, LessThanField
-----------------------------------------------------------------------------
(* Zones *)

Making(r)   == Active(r) /\ op[r] = "createZone"
Changing(r) == Active(r) /\ op[r] = "updateZone"
Saving(r)   == Changing(r) /\ pc[r] # "read"

Shaped(r) ==
    /\ op[r] = "createZone" => pc[r] \in {"saving"} \cup Ended
    /\ op[r] = "updateZone" => pc[r] \in {"read", "saving", "looked up"} \cup Ended
    /\ note[r] # "none" => pc[r] \in Ended
    /\ Making(r) => zmem[r] # None /\ Tidy(zmem[r])
    /\ Changing(r) => /\ zmem[r] # None /\ zdto[r] \in Bodies
                     /\ zid[r] # None /\ zone[zid[r]] # None
    /\ ~Making(r) /\ ~Changing(r) => zmem[r] = None
    /\ ~Changing(r) \/ pc[r] # "looked up" => zbase[r] = None

\* A request that has counted its name, or keeps the one it has read, makes no
\* clash with it, unless it has overlapped another.
NameCleared(r) ==
    /\ Making(r) => Raced(r) \/ \A z \in ZoneIds : ~Named(z, zmem[r].name)
    /\ Changing(r) /\ pc[r] = "read" => Raced(r) \/ Named(zid[r], zmem[r].name)
    /\ Saving(r) =>
          LET n == Assigned(zmem[r], zdto[r]).name IN
          \/ Raced(r)
          \/ /\ Named(zid[r], n)
             /\ pc[r] = "looked up" => zbase[r] # None /\ zbase[r].name = n
          \/ \A z \in ZoneIds \ {zid[r]} : ~Named(z, n)

\* A request whose zone nobody has saved meanwhile knows the row it is about to
\* save, and has accepted the minutes it makes of it.
MinutesCleared(r) ==
    /\ Changing(r) =>
          /\ zid[r] \in loose \/ Tidy(zmem[r])
          /\ \/ Overlap(zlast[zid[r]], r)
             \/ /\ zone[zid[r]] \in {zmem[r], Gone}
                /\ pc[r] = "looked up" =>
                      zbase[r] = zmem[r] \/ (zbase[r] = None /\ zone[zid[r]] = Gone)
    /\ Saving(r) => MinutesAccepted(zmem[r], zdto[r])

\* The requests of the histories have begun, and those that saved are over.
Noted(z) == /\ znamed[z] # None => pc[znamed[z]] # "idle"
            /\ zlast[z] # None => pc[zlast[z]] \in Ended

EInv == /\ EventsTypeOK
        /\ \A r \in Requests : Shaped(r) /\ NameCleared(r) /\ MinutesCleared(r)
        /\ \A z \in ZoneIds : Noted(z)
        /\ ZoneNamesClashOnlyByRace /\ MinutesOrdered

\* At first nobody works on a zone, and the rows are in order.
LEMMA EInit == HandlersInit /\ EventsInit => EInv
<1> SUFFICES ASSUME HandlersInit, EventsInit PROVE EInv
    OBVIOUS
<1>1. EventsTypeOK
  <2>1. zone \in [ZoneIds -> Zone \cup {None, Gone}]
        BY DEF EventsInit
  <2> QED BY <2>1 DEF EventsInit, EventsTypeOK, Busy
<1>2. \A r \in Requests : Shaped(r) /\ NameCleared(r) /\ MinutesCleared(r)
      BY DEF HandlersInit, EventsInit, Shaped, NameCleared, MinutesCleared, Making, Changing, Saving,
             Active
<1>3. \A z \in ZoneIds : Noted(z)
      BY DEF EventsInit, Noted
<1>4. ZoneNamesClashOnlyByRace
      BY DEF EventsInit, ZoneNamesClashOnlyByRace, SameName, IsZone
<1>5. MinutesOrdered
      BY DEF EventsInit, MinutesOrdered, IsZone
<1> QED BY <1>1, <1>2, <1>3, <1>4, <1>5 DEF EInv

\* What r does to a zone cannot mislead another request q that works on it: from
\* now on q has overlapped r.
LEMMA ZoneBystanders ==
    ASSUME HInv, EInv, NEW r \in Requests, Moves(r), NEW q \in Requests \ {r},
           zid'[q] = zid[q], zmem'[q] = zmem[q], zbase'[q] = zbase[q], zdto'[q] = zdto[q],
           note'[q] = note[q], loose \subseteq loose',
           \A z \in ZoneIds : zone[z] # None =>
               /\ zone'[z] # None
               /\ zlast'[z] = r \/ (zlast'[z] = zlast[z] /\ zone'[z] \in {zone[z], Gone})
    PROVE  (Shaped(q) /\ NameCleared(q) /\ MinutesCleared(q))'
<1>1. pc'[q] = pc[q] /\ op'[q] = op[q] /\ before'[q] = before[q]
      BY Others
<1>2. /\ Making(q)' <=> Making(q)
      /\ Changing(q)' <=> Changing(q)
      /\ Saving(q)' <=> Saving(q)
      BY <1>1 DEF Making, Changing, Saving, Active
<1>3. /\ Shaped(q) /\ MinutesCleared(q)
      /\ zid[q] \in ZoneIds \cup {None} /\ zlast \in [ZoneIds -> Requests \cup {None}]
      BY DEF EInv, EventsTypeOK
<1>4. Shaped(q)'
      BY <1>1, <1>2, <1>3 DEF Shaped
<1>5. NameCleared(q)'
      BY <1>2, MoverOverlaps DEF NameCleared, Making, Changing, Saving
<1>6. ASSUME Changing(q)
      PROVE  MinutesCleared(q)'
  <2>1. zid[q] \in ZoneIds /\ zone[zid[q]] # None /\ zmem[q] # None
        BY <1>3, <1>6 DEF Shaped
  <2>2. CASE zlast'[zid[q]] = r
        BY <1>1, <1>2, <1>3, <1>6, <2>2, MoverOverlaps DEF MinutesCleared, Changing
  <2>3. CASE zlast'[zid[q]] = zlast[zid[q]] /\ Overlap(zlast[zid[q]], q)
    <3>1. zlast[zid[q]] \in Requests /\ pc[zlast[zid[q]]] # "idle" /\ pc[q] # "idle"
          BY <1>6, <2>1, <2>3 DEF Overlap, EInv, Noted, Changing, Active, EventsTypeOK, Ended
    <3>2. Overlap(zlast[zid[q]], q)'
          BY <1>3, <2>1, <2>3, <3>1, OverlapStays
    <3> QED BY <1>1, <1>2, <1>3, <1>6, <3>2 DEF MinutesCleared
  <2>4. CASE zone'[zid[q]] \in {zone[zid[q]], Gone} /\ ~Overlap(zlast[zid[q]], q)
        BY <1>1, <1>2, <1>3, <1>6, <2>4 DEF MinutesCleared
  <2> QED BY <2>1, <2>2, <2>3, <2>4
<1>7. ~Changing(q) => MinutesCleared(q)'
      BY <1>2 DEF MinutesCleared, Saving
<1> QED BY <1>4, <1>5, <1>6, <1>7

LEMMA StillNoted ==
    ASSUME HInv, EInv, NEW r \in Requests, Moves(r), NEW z \in ZoneIds,
           znamed'[z] \in {znamed[z], r},
           zlast'[z] = zlast[z] \/ (zlast'[z] = r /\ pc'[r] \in Ended)
    PROVE  Noted(z)'
<1>1. Noted(z) /\ {znamed[z], zlast[z]} \subseteq Requests \cup {None}
      BY DEF EInv, EventsTypeOK
<1> QED BY <1>1, Others DEF Noted

LEMMA ZonesStillExcused ==
    ASSUME HInv, EInv, NEW r \in Requests, Moves(r), NEW z \in ZoneIds, NEW y \in ZoneIds,
           z # y, SameName(zone[z], zone[y]), znamed'[z] = znamed[z], znamed'[y] = znamed[y]
    PROVE  (Raced(znamed[z]) \/ Raced(znamed[y]))'
<1>1. Raced(znamed[z]) \/ Raced(znamed[y])
      BY DEF EInv, ZoneNamesClashOnlyByRace
<1>2. Noted(z) /\ Noted(y)
      BY DEF EInv
<1> QED BY <1>1, <1>2, RacedStays DEF Noted
-----------------------------------------------------------------------------
(* The steps of a request on zones                                         *)

\* Each of them is a move, as are the steps of the bot's own request.
LEMMA ZoneStepMoves ==
    ASSUME HInv, NEW r \in Requests,
           \/ \E body \in Bodies : \/ BeginCreate(r, body)
                                 \/ \E z \in ZoneIds : ReadZone(r, z, body)
           \/ \E z \in ZoneIds : DropZone(r, z)
           \/ SaveNew(r) \/ Validate(r) \/ LookZone(r) \/ SaveOld(r) \/ FailZone(r)
           \/ AskConfig(r)
    PROVE  Moves(r) /\ ~Creating(r) /\ ~Updating(r) /\ ~Creating(r)' /\ ~Updating(r)'
BY DEF BeginCreate, ReadZone, BeginOnZone, DropZone, SaveNew, Validate, LookZone, SaveOld, FailZone,
       AskConfig, Begin, Goto, Moves, HInv, Active, Ended, Methods, Places, Creating, Updating

\* Where no row is written but for one that is deleted, only the request that
\* moves is to be looked at.
LEMMA UnsavedStep ==
    ASSUME HInv, EInv, NEW r \in Requests, Moves(r), EventsTypeOK', UNCHANGED zlasts,
           \A q \in Requests \ {r} : /\ zid'[q] = zid[q] /\ zmem'[q] = zmem[q]
                                     /\ zbase'[q] = zbase[q] /\ zdto'[q] = zdto[q]
                                     /\ note'[q] = note[q],
           \A z \in ZoneIds : zone'[z] = zone[z] \/ (IsZone(z) /\ zone'[z] = Gone),
           (Shaped(r) /\ NameCleared(r) /\ MinutesCleared(r))'
    PROVE  EInv'
<1>1. \A q \in Requests : (Shaped(q) /\ NameCleared(q) /\ MinutesCleared(q))'
  <2> SUFFICES ASSUME NEW q \in Requests \ {r}
               PROVE  (Shaped(q) /\ NameCleared(q) /\ MinutesCleared(q))'
      OBVIOUS
  <2> QED BY ZoneBystanders DEF zlasts
<1>2. \A z \in ZoneIds : Noted(z)'
      BY StillNoted DEF zlasts
<1>3. ZoneNamesClashOnlyByRace'
  <2> SUFFICES ASSUME NEW z \in ZoneIds, NEW y \in ZoneIds, z # y, SameName(zone'[z], zone'[y])
               PROVE  (Raced(znamed[z]) \/ Raced(znamed[y]))'
      BY DEF ZoneNamesClashOnlyByRace
  <2>1. SameName(zone[z], zone[y])
        BY DEF SameName
  <2> QED BY <2>1, ZonesStillExcused DEF zlasts
<1>4. MinutesOrdered'
      BY DEF EInv, MinutesOrdered, IsZone, zlasts
<1> QED BY <1>1, <1>2, <1>3, <1>4 DEF EInv

\* A request that is over holds nothing.
LEMMA OverIsCleared ==
    ASSUME NEW r \in Requests, (pc[r] \in Ended)', (zmem[r] = None)', (zbase[r] = None)'
    PROVE  (Shaped(r) /\ NameCleared(r) /\ MinutesCleared(r))'
BY DEF Shaped, NameCleared, MinutesCleared, Making, Changing, Saving, Active

\* createZone and updateZone begin: the name has been counted, or is the zone's.
LEMMA BeginZoneStep ==
    ASSUME HInv, EInv, NEW r \in Requests, Moves(r), NEW body \in Bodies,
           BeginCreate(r, body) \/ \E z \in ZoneIds : ReadZone(r, z, body)
    PROVE  EInv'
<1>1. PICK z \in ZoneIds \cup {None}, entity \in Zone :
         /\ zid' = [zid EXCEPT ![r] = z] /\ zmem' = [zmem EXCEPT ![r] = entity]
         /\ zdto' = [zdto EXCEPT ![r] = body]
         /\ UNCHANGED <<zone, zbase, events, zlasts>>
         /\ \/ z = None /\ Begin(r, "createZone", "saving") /\ Tidy(entity) /\ NameUnused(entity.name)
            \/ z # None /\ Begin(r, "updateZone", "read") /\ zone[z] = entity
  <2>1. CASE BeginCreate(r, body)
    <3> DEFINE e == [body EXCEPT !.crawl = (@ = "on")]
    <3>1. body \in AnyOf /\ LessThanField(body)
          OBVIOUS
    <3>2. body.crawl = "on" => e.crawl = TRUE
          BY <3>1 DEF AnyOf
    <3>3. body.crawl # "on" => e.crawl = FALSE
          BY <3>1 DEF AnyOf
    <3>4. /\ e.name = body.name /\ e.notify = body.notify /\ e.delete = body.delete
          /\ body.name \in ZoneNames
          BY <2>1, <3>1 DEF BeginCreate, AnyOf
    <3>5. \A c \in BOOLEAN : [body EXCEPT !.crawl = c] \in Zone
          BY <3>1, <3>4 DEF AnyOf, Zone
    <3>6. e \in Zone
          BY <3>5
    <3>7. Tidy(e) /\ NameUnused(e.name)
          BY <2>1, <3>1, <3>2, <3>3, <3>4 DEF BeginCreate, Tidy, LessThanField, AnyOf
    <3>8. BeginOnZone(r, "createZone", "saving", None, e, body)
          BY <2>1 DEF BeginCreate
    <3> QED BY <3>6, <3>7, <3>8 DEF BeginOnZone
  <2>2. CASE \E z \in ZoneIds : ReadZone(r, z, body)
    <3>1. PICK z \in ZoneIds : IsZone(z) /\ BeginOnZone(r, "updateZone", "read", z, zone[z], body)
          BY <2>2 DEF ReadZone
    <3>2. z # None /\ zone[z] \in Zone
          BY <3>1 DEF IsZone
    <3> QED BY <3>1, <3>2 DEF BeginOnZone
  <2> QED BY <2>1, <2>2
<1>2. /\ \/ z = None /\ pc'[r] = "saving" /\ op'[r] = "createZone"
         \/ z # None /\ pc'[r] = "read" /\ op'[r] = "updateZone"
      /\ zid'[r] = z /\ zmem'[r] = entity /\ zdto'[r] = body /\ entity # None
      /\ note'[r] = "none" /\ zbase'[r] = None
  <2>1. pc[r] = "idle" /\ pc \in [Requests -> Places] /\ op \in [Requests -> Methods]
        BY <1>1 DEF Begin, HInv
  <2>2. note[r] = "none" /\ zbase[r] = None
        BY <2>1 DEF EInv, Shaped, Ended
  <2> QED BY <1>1, <2>1, <2>2 DEF Begin, EInv, EventsTypeOK, events
<1>3. EventsTypeOK'
      BY <1>1 DEF EInv, EventsTypeOK, events, zlasts
<1>4. Shaped(r)'
      BY <1>1, <1>2 DEF Shaped, Making, Changing, Active, Ended, events
<1>5. NameCleared(r)'
      BY <1>1, <1>2 DEF NameCleared, Making, Changing, Saving, Active, Ended, Named, IsZone,
                        NameUnused
<1>6. MinutesCleared(r)'
  <2>1. z # None => zlast[z] = zlast'[z] /\ (z \in loose' \/ Tidy(entity))
        BY <1>1 DEF EInv, MinutesOrdered, IsZone, Tidy, zlasts
  <2> QED BY <1>1, <1>2, <2>1 DEF MinutesCleared, Making, Changing, Saving, Active, Ended
<1> QED BY <1>1, <1>3, <1>4, <1>5, <1>6, UnsavedStep DEF events, EInv, EventsTypeOK
\* validateZoneForUpdate and the look-up of save: the row is compared as it is.
LEMMA CheckZoneStep ==
    ASSUME HInv, EInv, NEW r \in Requests, Moves(r), Validate(r) \/ LookZone(r)
    PROVE  EInv'
<1> DEFINE z == zid[r]
           n == Assigned(zmem[r], zdto[r]).name
<1>1. /\ op[r] = "updateZone" /\ UNCHANGED <<zone, zid, zmem, zdto, events, zlasts, op, before>>
      /\ pc[r] \in {"read", "saving"}
      BY DEF Validate, LookZone, Goto, zvars
<1>2. /\ Changing(r) /\ Changing(r)' /\ Saving(r)' /\ ~Making(r)' /\ pc'[r] \in {"saving", "looked up"}
      BY <1>1 DEF Validate, LookZone, Goto, Changing, Saving, Making, Active, Ended, HInv
<1>3. /\ zmem[r] \in Zone /\ zdto[r] \in Bodies /\ z \in ZoneIds /\ zone[z] # None
      /\ Shaped(r) /\ NameCleared(r) /\ MinutesCleared(r)
  <2>1. Shaped(r) /\ NameCleared(r) /\ MinutesCleared(r)
        BY DEF EInv
  <2>2. zmem[r] \in Zone \cup {None} /\ zid[r] \in ZoneIds \cup {None}
        BY DEF EInv, EventsTypeOK
  <2> QED BY <1>2, <2>1, <2>2 DEF Shaped
<1>4. zbase' = [zbase EXCEPT ![r] = IF Validate(r) THEN @ ELSE IF IsZone(z) THEN zone[z] ELSE None]
  <2>1. CASE Validate(r)
        BY <2>1 DEF Validate, zvars, EInv, EventsTypeOK
  <2>2. CASE ~Validate(r)
        BY <2>2 DEF LookZone
  <2> QED BY <2>1, <2>2
<1>5. EventsTypeOK'
  <2>1. zbase' \in [Requests -> Zone \cup {None}]
        BY <1>4 DEF EInv, EventsTypeOK, IsZone
  <2> QED BY <1>1, <2>1 DEF EInv, EventsTypeOK, events, zlasts
<1>6. Raced(r) => Raced(r)'
      BY <1>2, RacedStays DEF Changing, Active
<1>7. Overlap(zlast[z], r) => Overlap(zlast[z], r)'
  <2> SUFFICES ASSUME Overlap(zlast[z], r)
               PROVE  Overlap(zlast[z], r)'
      OBVIOUS
  <2>1. zlast[z] \in Requests /\ pc[zlast[z]] # "idle" /\ pc[r] # "idle"
        BY <1>2, <1>3 DEF Overlap, EInv, Noted, Ended, Changing, Active
  <2> QED BY <1>1, <2>1, OverlapStays DEF zlasts
<1>8. CASE Validate(r)
  <2>1. /\ pc[r] = "read" /\ pc'[r] = "saving" /\ zbase' = zbase /\ zbase[r] = None
        /\ zdto[r].name \notin {None, zmem[r].name} => NameUnused(zdto[r].name)
        /\ MinutesAccepted(zmem[r], zdto[r])
        BY <1>8, <1>3 DEF Validate, Goto, zvars, HInv, Shaped
  <2>2. n = IF zdto[r].name = None THEN zmem[r].name ELSE zdto[r].name
        BY DEF Assigned
  <2>3. Raced(r) \/ Named(z, n) \/ \A y \in ZoneIds : ~Named(y, n)
        BY <1>2, <1>3, <2>1, <2>2 DEF NameCleared, NameUnused, Named, Changing
  <2>4. Shaped(r)'
        BY <1>1, <1>2, <1>3, <2>1 DEF Shaped, events, Ended
  <2>5. NameCleared(r)'
        BY <1>1, <1>2, <1>6, <2>1, <2>3 DEF NameCleared, Named, IsZone
  <2>6. MinutesCleared(r)'
        BY <1>1, <1>2, <1>3, <1>7, <2>1 DEF MinutesCleared, zlasts
  <2> QED BY <1>1, <1>5, <2>1, <2>4, <2>5, <2>6, UnsavedStep DEF events
<1>9. CASE LookZone(r)
  <2>1. /\ pc[r] = "saving" /\ pc'[r] = "looked up"
        /\ zbase' = [zbase EXCEPT ![r] = IF IsZone(z) THEN zone[z] ELSE None]
        BY <1>9 DEF LookZone, Goto, HInv
  <2>2. zbase'[r] = IF IsZone(z) THEN zone[z] ELSE None
        BY <2>1 DEF EInv, EventsTypeOK
  <2>3. Shaped(r)'
        BY <1>1, <1>2, <1>3, <2>1 DEF Shaped, events, Ended
  <2>4. NameCleared(r)'
        BY <1>1, <1>2, <1>3, <1>6, <2>1, <2>2 DEF NameCleared, Named, IsZone, Saving, Making
  <2>5. MinutesCleared(r)'
        BY <1>1, <1>2, <1>3, <1>7, <2>1, <2>2 DEF MinutesCleared, zlasts, IsZone, Saving
  <2>6. \A q \in Requests \ {r} : zbase'[q] = zbase[q]
        BY <2>1 DEF EInv, EventsTypeOK
  <2> QED BY <1>1, <1>5, <2>3, <2>4, <2>5, <2>6, UnsavedStep DEF events
<1> QED BY <1>8, <1>9

\* A request ends, deletes a zone or asks for the configuration.
LEMMA EndZoneStep ==
    ASSUME HInv, EInv, NEW r \in Requests, Moves(r),
           FailZone(r) \/ AskConfig(r) \/ \E z \in ZoneIds : DropZone(r, z)
    PROVE  EInv'
<1>1. /\ UNCHANGED <<zid, zdto, load, told, ahead, zlasts>>
      /\ pc'[r] \in Ended
      /\ note' = note \/ note' = [note EXCEPT ![r] = "raised"]
      BY DEF FailZone, AskConfig, DropZone, Begin, Goto, HInv, Ended, events
<1>2. \A z \in ZoneIds : zone'[z] = zone[z] \/ (IsZone(z) /\ zone'[z] = Gone)
      BY DEF FailZone, AskConfig, DropZone, EInv, EventsTypeOK
<1>3. /\ zmem'[r] = None /\ zbase'[r] = None
      /\ zmem' \in [Requests -> Zone \cup {None}] /\ zbase' \in [Requests -> Zone \cup {None}]
      /\ \A q \in Requests \ {r} : zmem'[q] = zmem[q] /\ zbase'[q] = zbase[q]
  <2>1. CASE FailZone(r)
        BY <2>1 DEF FailZone, EInv, EventsTypeOK
  <2>2. CASE ~FailZone(r)
    <3>1. UNCHANGED <<zmem, zbase>> /\ pc[r] = "idle"
          BY <2>2 DEF AskConfig, DropZone, Begin
    <3> QED BY <3>1 DEF EInv, EventsTypeOK, Shaped, Making, Changing, Active
  <2> QED BY <2>1, <2>2
<1>4. EventsTypeOK'
  <2>1. zone' \in [ZoneIds -> Zone \cup {None, Gone}]
        BY DEF FailZone, AskConfig, DropZone, EInv, EventsTypeOK
  <2>2. /\ stale' \in [Requests -> BOOLEAN] /\ missed' \in BOOLEAN
        /\ \A q \in Requests : note'[q] # "read" => ~stale'[q]
    <3>1. CASE FailZone(r)
          BY <3>1 DEF FailZone, EInv, EventsTypeOK, events
    <3>2. CASE AskConfig(r)
      <4>1. UNCHANGED <<stale, missed>> /\ note[r] # "read"
            BY <3>2 DEF AskConfig, Begin, EInv, EventsTypeOK, Shaped, Ended
      <4> QED BY <1>1, <4>1 DEF EInv, EventsTypeOK
    <3>3. CASE \E z \in ZoneIds : DropZone(r, z)
      <4>1. PICK z \in ZoneIds : DropZone(r, z)
            BY <3>3
      <4>2. zone[z].crawl \in BOOLEAN
            BY <4>1 DEF DropZone, IsZone, Zone
      <4> QED BY <4>1, <4>2 DEF DropZone, EInv, EventsTypeOK
    <3> QED BY <3>1, <3>2, <3>3
  <2>3. /\ note' \in [Requests -> {"none", "sent", "lost"} \cup Busy]
        /\ \A q \in Requests : note'[q] # "read" => load'[q] = {} /\ ahead'[q] = {}
    <3>1. note' # note => note[r] = "none"
          BY DEF FailZone, AskConfig, DropZone, Begin, events, EInv, Shaped, Ended
    <3> QED BY <1>1, <3>1 DEF EInv, EventsTypeOK, Busy
  <2> QED BY <1>1, <1>3, <2>1, <2>2, <2>3 DEF EInv, EventsTypeOK, zlasts
<1>5. (Shaped(r) /\ NameCleared(r) /\ MinutesCleared(r))'
      BY <1>1, <1>3, OverIsCleared
<1>6. \A q \in Requests \ {r} : note'[q] = note[q]
      BY <1>1 DEF EInv, EventsTypeOK
<1> QED BY <1>1, <1>2, <1>3, <1>4, <1>5, <1>6, UnsavedStep
\* save writes a row whose name and minutes have been looked after.
LEMMA SavedStep ==
    ASSUME HInv, EInv, NEW r \in Requests, Moves(r), pc'[r] = "done", Active(r),
           NEW z \in ZoneIds, NEW row \in Zone \cup {Gone}, Saved(r, z, row),
           zid' \in [Requests -> ZoneIds \cup {None}],
           \A q \in Requests \ {r} : zid'[q] = zid[q],
           loose \subseteq loose', loose' \subseteq ZoneIds,
           row \in Zone /\ ~Named(z, row.name)
               => Raced(r) \/ \A y \in ZoneIds \ {z} : ~Named(y, row.name),
           z \in loose' \/ row = Gone \/ Tidy(row)
    PROVE  EInv'
<1>1. /\ zone' = [zone EXCEPT ![z] = row]
      /\ znamed' = [znamed EXCEPT ![z] = IF SameName(zone[z], row) THEN @ ELSE r]
      /\ zlast'  = [zlast  EXCEPT ![z] = r]
      /\ note'   = [note   EXCEPT ![r] = "raised"]
      /\ zmem'   = [zmem   EXCEPT ![r] = None]
      /\ zbase'  = [zbase  EXCEPT ![r] = None]
      /\ UNCHANGED <<zdto, load, told, ahead, stale, missed>>
      BY DEF Saved
<1>2. note[r] = "none" /\ row # None
      BY DEF EInv, Shaped, Active
<1>3. /\ zone'[z] = row /\ zlast'[z] = r
      /\ znamed'[z] = IF SameName(zone[z], row) THEN znamed[z] ELSE r
      /\ \A y \in ZoneIds \ {z} : /\ zone'[y] = zone[y] /\ zlast'[y] = zlast[y]
                                 /\ znamed'[y] = znamed[y]
      BY <1>1 DEF EInv, EventsTypeOK
<1>4. EventsTypeOK'
  <2>1. zone' \in [ZoneIds -> Zone \cup {None, Gone}]
        BY <1>1 DEF EInv, EventsTypeOK
  <2>2. \A h \in {znamed', zlast'} : h \in [ZoneIds -> Requests \cup {None}]
        BY <1>1 DEF EInv, EventsTypeOK
  <2>3. /\ note' \in [Requests -> {"none", "sent", "lost"} \cup Busy]
        /\ \A q \in Requests : note'[q] # "read" => note[q] # "read"
        BY <1>1, <1>2 DEF EInv, EventsTypeOK, Busy
  <2>4. zmem' \in [Requests -> Zone \cup {None}] /\ zbase' \in [Requests -> Zone \cup {None}]
        BY <1>1 DEF EInv, EventsTypeOK
  <2> QED BY <1>1, <2>1, <2>2, <2>3, <2>4 DEF EInv, EventsTypeOK
<1>5. \A q \in Requests : (Shaped(q) /\ NameCleared(q) /\ MinutesCleared(q))'
  <2> SUFFICES ASSUME NEW q \in Requests
               PROVE  (Shaped(q) /\ NameCleared(q) /\ MinutesCleared(q))'
      OBVIOUS
  <2>1. CASE q = r
        BY <2>1, <1>1, OverIsCleared DEF Ended, EInv, EventsTypeOK
  <2>2. CASE q # r
    <3>1. /\ zmem'[q] = zmem[q] /\ zbase'[q] = zbase[q] /\ zdto'[q] = zdto[q]
          /\ note'[q] = note[q]
          BY <2>2, <1>1 DEF EInv, EventsTypeOK
    <3>2. \A y \in ZoneIds : zone[y] # None =>
             /\ zone'[y] # None
             /\ zlast'[y] = r \/ (zlast'[y] = zlast[y] /\ zone'[y] \in {zone[y], Gone})
          BY <1>2, <1>3
    <3> QED BY <2>2, <3>1, <3>2, ZoneBystanders
  <2> QED BY <2>1, <2>2
<1>6. \A y \in ZoneIds : Noted(y)'
  <2>1. \A y \in ZoneIds : znamed'[y] \in {znamed[y], r} /\ zlast'[y] \in {zlast[y], r}
        BY <1>3
  <2> QED BY <2>1, StillNoted DEF Ended
<1>7. ZoneNamesClashOnlyByRace'
  <2> SUFFICES ASSUME NEW x \in ZoneIds, NEW y \in ZoneIds, x # y, SameName(zone'[x], zone'[y])
               PROVE  (Raced(znamed[x]) \/ Raced(znamed[y]))'
      BY DEF ZoneNamesClashOnlyByRace
  <2>1. CASE z \notin {x, y} \/ SameName(zone[z], row)
    <3>1. SameName(zone[x], zone[y]) /\ znamed'[x] = znamed[x] /\ znamed'[y] = znamed[y]
          BY <2>1, <1>3 DEF SameName
    <3> QED BY <3>1, ZonesStillExcused
  <2>2. CASE z \in {x, y} /\ ~SameName(zone[z], row)
    <3>1. row \in Zone /\ ~Named(z, row.name)
          BY <2>2, <1>3 DEF SameName, Named, IsZone
    <3>2. PICK w \in {x, y} \ {z} : Named(w, row.name)
          BY <2>2, <1>3 DEF SameName, Named, IsZone
    <3>3. Raced(r)
          BY <3>1, <3>2
    <3>4. Raced(r)' /\ znamed'[z] = r
          BY <2>2, <3>3, <1>3, RacedStays DEF Active
    <3> QED BY <2>2, <3>4
  <2> QED BY <2>1, <2>2
<1>8. MinutesOrdered'
      BY <1>3 DEF EInv, MinutesOrdered, IsZone, Tidy
<1> QED BY <1>4, <1>5, <1>6, <1>7, <1>8 DEF EInv

\* createZone saves the name it has counted.
LEMMA SaveNewZoneStep == ASSUME HInv, EInv, NEW r \in Requests, Moves(r), SaveNew(r)
                         PROVE  EInv'
<1>1. PICK z \in ZoneIds : /\ zone[z] = None
                           /\ zid' = [zid EXCEPT ![r] = z]
                           /\ Saved(r, z, zmem[r])
      BY DEF SaveNew
<1>2. Making(r) /\ pc'[r] = "done" /\ loose' = loose
      BY DEF SaveNew, Goto, Making, Active, Ended, HInv
<1>3. zmem[r] \in Zone /\ Tidy(zmem[r])
  <2>1. Shaped(r) /\ zmem[r] \in Zone \cup {None}
        BY DEF EInv, EventsTypeOK
  <2> QED BY <1>2, <2>1 DEF Shaped
<1>4. Raced(r) \/ \A y \in ZoneIds : ~Named(y, zmem[r].name)
      BY <1>2 DEF EInv, NameCleared
<1>5. /\ zid' \in [Requests -> ZoneIds \cup {None}] /\ loose \subseteq ZoneIds
      /\ \A q \in Requests \ {r} : zid'[q] = zid[q]
      BY <1>1 DEF EInv, EventsTypeOK
<1> QED BY <1>1, <1>2, <1>3, <1>4, <1>5, SavedStep DEF Making

\* updateZone saves what it makes of the row it has read.
LEMMA SaveOldZoneStep == ASSUME HInv, EInv, NEW r \in Requests, Moves(r), SaveOld(r)
                         PROVE  EInv'
<1> DEFINE z      == zid[r]
           entity == Assigned(zmem[r], zdto[r])
           row    == Merged(zone[z], zbase[r], entity)
<1>1. /\ pc[r] = "looked up" /\ pc'[r] = "done" /\ Saved(r, z, row)
      /\ Active(r) /\ Changing(r) /\ Saving(r) /\ UNCHANGED zid
      /\ zbase[r] = None => ~IsZone(z)
      /\ loose' = IF Unchecked(zmem[r], zdto[r]) \/ Overlap(zlast[z], r)
                  THEN loose \cup {z} ELSE loose
      BY DEF SaveOld, Goto, Changing, Saving, Active, Ended, HInv
<1>2. Shaped(r) /\ NameCleared(r) /\ MinutesCleared(r)
      BY DEF EInv
<1>3. /\ zmem[r] \in Zone /\ zdto[r] \in Bodies /\ z \in ZoneIds
      /\ zone[z] \in Zone \cup {Gone} /\ zbase[r] \in Zone \cup {None}
  <2>1. /\ zmem[r] \in Zone \cup {None} /\ zbase[r] \in Zone \cup {None}
        /\ z \in ZoneIds \cup {None} /\ \A y \in ZoneIds : zone[y] \in Zone \cup {None, Gone}
        BY DEF EInv, EventsTypeOK
  <2> QED BY <1>1, <1>2, <2>1 DEF Shaped
<1>4. entity \in Zone
      BY <1>3, AssignedZone
<1>5. /\ zbase[r] = None => row = entity
      /\ zbase[r] # None /\ zone[z] \notin Zone => row = zone[z]
      /\ zbase[r] # None /\ zone[z] \in Zone =>
            /\ row \in Zone
            /\ row.name \in {zone[z].name, entity.name}
            /\ entity.name # zbase[r].name => row.name = entity.name
            /\ entity.name = zbase[r].name => row.name = zone[z].name
            /\ zone[z] = zbase[r] => row = entity
  <2> HIDE DEF z, entity
  <2> QED BY <1>3, <1>4, MergedZone
<1>6. row \in Zone \cup {Gone}
      BY <1>3, <1>4, <1>5
<1>7. ASSUME row \in Zone, ~Named(z, row.name), ~Raced(r)
      PROVE  \A y \in ZoneIds \ {z} : ~Named(y, row.name)
  <2>1. row.name = entity.name
        BY <1>5, <1>7, <1>3 DEF Named, IsZone
  <2>2. ~Named(z, entity.name)
        BY <2>1, <1>7
  <2> QED BY <2>1, <2>2, <1>1, <1>2, <1>7 DEF NameCleared
<1>8. z \in loose' \/ row = Gone \/ Tidy(row)
  <2> SUFFICES ASSUME ~Unchecked(zmem[r], zdto[r]), ~Overlap(zlast[z], r), z \notin loose, row # Gone
               PROVE  Tidy(row)
      BY <1>1
  <2>1. Tidy(zmem[r]) /\ MinutesAccepted(zmem[r], zdto[r])
        BY <1>1, <1>2 DEF MinutesCleared
  <2>2. /\ zone[z] \in {zmem[r], Gone}
        /\ zbase[r] = zmem[r] \/ (zbase[r] = None /\ zone[z] = Gone)
        BY <1>1, <1>2 DEF MinutesCleared
  <2>3. Gone \notin Zone
        OBVIOUS
  <2>4. row = entity
        BY <2>2, <2>3, <1>3, <1>5
  <2> QED BY <2>1, <2>4, <1>3, AcceptedTidy
<1>9. /\ zid' \in [Requests -> ZoneIds \cup {None}]
      /\ loose \subseteq loose' /\ loose' \subseteq ZoneIds
      BY <1>1, <1>3 DEF EInv, EventsTypeOK
<1> QED BY <1>1, <1>3, <1>6, <1>7, <1>8, <1>9, SavedStep
-----------------------------------------------------------------------------
(* The handlers of the events                                              *)

Reading(q) == note[q] = "read"
Raised     == \E q \in Requests : note[q] = "raised"
Exact(q)   == Reading(q) /\ ~stale[q] /\ load[q] = Crawled

\* Who has read orders the handlers; the last of them, if nothing has gone since
\* and no event is still to be read, has read what the table holds.
TInv ==
    /\ \A q \in Requests : q \notin ahead[q] /\ \A p \in ahead[q] : Reading(p)
    /\ \A q, r \in Requests : q \in ahead[r] => ahead[q] \subseteq ahead[r]
    /\ \A p \in Requests : Reading(p) /\ ~stale[p] =>
          load[p] = Crawled \/ Raised \/ \E q \in Requests : p \in ahead[q] /\ Exact(q)
    /\ ~missed => told = Crawled \/ Raised \/ \E q \in Requests : Exact(q)

LEMMA TInit == HandlersInit /\ EventsInit => TInv
BY DEF EventsInit, TInv, Reading

\* A handler changes neither rows nor requests.
LEMMA HandlerStep ==
    ASSUME HInv, EInv, TInv, NEW r \in Requests, ReadZones(r) \/ Emit(r) \/ LoseEvent(r)
    PROVE  EInv'
<1>1. /\ UNCHANGED <<hvars, zone, zid, zmem, zbase, zdto, zlasts>>
      /\ note[r] \in Busy /\ \E n \in {"read", "sent", "lost"} : note' = [note EXCEPT ![r] = n]
      BY DEF ReadZones, Emit, LoseEvent, Handler, Busy
<1>2. EventsTypeOK'
  <2>1. Crawled \subseteq ZoneIds \X Zone
        BY DEF Crawled, IsZone
  <2>2. note' \in [Requests -> {"none", "sent", "lost"} \cup Busy]
        BY <1>1 DEF EInv, EventsTypeOK, Busy
  <2>3. CASE ReadZones(r)
        BY <2>1, <2>2, <2>3, <1>1 DEF ReadZones, EInv, EventsTypeOK, zlasts
  <2>4. CASE Emit(r)
    <3>1. /\ load' \in [Requests -> SUBSET (ZoneIds \X Zone)]
          /\ ahead' \in [Requests -> SUBSET Requests]
          /\ stale' \in [Requests -> BOOLEAN] /\ missed' \in BOOLEAN
          /\ told' \subseteq ZoneIds \X Zone
      <4>1. \A q \in Requests : (q # r /\ (stale[q] \/ q \in ahead[r])) \in BOOLEAN
            BY ZenonT(20)
      <4>2. stale' \in [Requests -> BOOLEAN]
            BY <2>4, <4>1 DEF Emit
      <4> QED BY <2>4, <4>2 DEF Emit, Forget, EInv, EventsTypeOK
    <3>2. \A q \in Requests : note'[q] # "read" => load'[q] = {} /\ ahead'[q] = {} /\ ~stale'[q]
      <4> SUFFICES ASSUME NEW q \in Requests, note'[q] # "read"
                   PROVE  load'[q] = {} /\ ahead'[q] = {} /\ ~stale'[q]
          OBVIOUS
      <4>1. CASE q = r
            BY <4>1, <2>4 DEF Emit, Forget, EInv, EventsTypeOK
      <4>2. CASE q # r
        <5>1. note[q] # "read" /\ q \notin ahead[r]
              BY <4>2, <1>1 DEF EInv, EventsTypeOK, TInv, Reading
        <5> QED BY <4>2, <5>1, <2>4 DEF Emit, Forget, EInv, EventsTypeOK
      <4> QED BY <4>1, <4>2
    <3> QED BY <1>1, <2>2, <3>1, <3>2 DEF EInv, EventsTypeOK, zlasts
  <2>5. CASE LoseEvent(r)
        BY <2>2, <2>5, <1>1 DEF LoseEvent, EInv, EventsTypeOK, zlasts, Busy
  <2> QED BY <2>3, <2>4, <2>5
<1>3. \A q \in Requests : (Shaped(q) /\ NameCleared(q) /\ MinutesCleared(q))'
  <2>1. \A q \in Requests : note'[q] # "none" => note[q] # "none"
        BY <1>1 DEF EInv, EventsTypeOK, Busy
  <2>2. ASSUME NEW q \in Requests
        PROVE  /\ Making(q)' <=> Making(q)
               /\ Changing(q)' <=> Changing(q)
               /\ Saving(q)' <=> Saving(q)
               /\ Raced(q)' <=> Raced(q)
        BY <1>1 DEF Making, Changing, Saving, Active, Raced, Overlap, hvars
  <2>3. ASSUME NEW q \in Requests
        PROVE  (Shaped(q) /\ NameCleared(q) /\ MinutesCleared(q))'
    <3>1. Shaped(q) /\ NameCleared(q) /\ MinutesCleared(q)
          BY DEF EInv
    <3>2. Shaped(q)'
          BY <1>1, <2>1, <2>2, <3>1 DEF Shaped, hvars
    <3>3. NameCleared(q)'
          BY <1>1, <2>2, <3>1 DEF NameCleared, Named, IsZone, hvars
    <3>4. MinutesCleared(q)'
          BY <1>1, <2>2, <3>1 DEF MinutesCleared, Overlap, hvars, zlasts
    <3> QED BY <3>2, <3>3, <3>4
  <2> QED BY <2>3
<1>4. (\A z \in ZoneIds : Noted(z))' /\ ZoneNamesClashOnlyByRace' /\ MinutesOrdered'
      BY <1>1 DEF EInv, Noted, ZoneNamesClashOnlyByRace, Raced, Overlap, MinutesOrdered, IsZone,
                  hvars, zlasts
<1> QED BY <1>2, <1>3, <1>4 DEF EInv

\* The handler that reads becomes the last, and what it has read is exact; the one
\* that emits makes those stale that had read before it.
LEMMA HandlerTold ==
    ASSUME EInv, TInv, NEW r \in Requests, ReadZones(r) \/ Emit(r) \/ LoseEvent(r)
    PROVE  TInv'
<1>1. UNCHANGED zone
      BY DEF ReadZones, Emit, LoseEvent, Handler
<1>2. Crawled' = Crawled
      BY <1>1 DEF Crawled, IsZone
<1>3. CASE ReadZones(r)
  <2>1. /\ note[r] = "raised" /\ note' = [note EXCEPT ![r] = "read"]
        /\ load' = [load EXCEPT ![r] = Crawled]
        /\ ahead' = [ahead EXCEPT ![r] = {q \in Requests : Reading(q)}]
        /\ UNCHANGED <<told, stale, missed>> /\ ~stale[r]
        BY <1>3 DEF ReadZones, Reading, EInv, EventsTypeOK
  <2>2. Exact(r)'
        BY <1>2, <2>1 DEF Exact, Reading, EInv, EventsTypeOK
  <2>3. /\ \A q \in Requests : Reading(q)' <=> Reading(q) \/ q = r
        /\ ahead'[r] = {q \in Requests : Reading(q)}
        /\ \A q \in Requests \ {r} : ahead'[q] = ahead[q]
        /\ ~Reading(r)
        BY <2>1 DEF Reading, EInv, EventsTypeOK
  <2>4. \A p \in Requests \ {r} : Reading(p)' => p \in ahead'[r]
        BY <2>3
  <2>5. /\ \A q \in Requests : q \notin ahead'[q] /\ \A p \in ahead'[q] : Reading(p)'
        /\ \A q, p \in Requests : q \in ahead'[p] => ahead'[q] \subseteq ahead'[p]
        BY <2>3 DEF TInv, EInv, EventsTypeOK
  <2> QED BY <1>2, <2>2, <2>4, <2>5 DEF TInv, Exact
<1>4. CASE Emit(r)
  <2>1. /\ note[r] = "read" /\ note' = [note EXCEPT ![r] = "sent"]
        /\ told' = load[r] /\ missed' = stale[r]
        /\ stale' = [q \in Requests |-> q # r /\ (stale[q] \/ q \in ahead[r])]
        /\ load' = [load EXCEPT ![r] = {}]
        /\ ahead' = [q \in Requests |-> IF q = r THEN {} ELSE ahead[q] \ {r}]
        BY <1>4 DEF Emit, Forget
  <2>2. /\ Raised' <=> Raised
        /\ \A q \in Requests : Reading(q)' <=> Reading(q) /\ q # r
        BY <2>1 DEF Raised, Reading, EInv, EventsTypeOK
  <2>3. \A q \in Requests \ {r} : Exact(q) /\ q \notin ahead[r] => Exact(q)'
        BY <1>2, <2>1 DEF Exact, Reading, EInv, EventsTypeOK
  <2>4. /\ \A q \in Requests : q \notin ahead'[q] /\ \A p \in ahead'[q] : Reading(p)'
        /\ \A q, p \in Requests : q \in ahead'[p] => ahead'[q] \subseteq ahead'[p]
        BY <2>1, <2>2 DEF TInv, EInv, EventsTypeOK
  <2>5. ASSUME NEW p \in Requests, Reading(p)', ~stale'[p]
        PROVE  load'[p] = Crawled \/ Raised \/ \E q \in Requests : p \in ahead'[q] /\ Exact(q)'
    <3>1. p # r /\ Reading(p) /\ ~stale[p] /\ p \notin ahead[r] /\ load'[p] = load[p]
          BY <2>1, <2>2, <2>5 DEF EInv, EventsTypeOK
    <3>2. ASSUME NEW q \in Requests, p \in ahead[q], Exact(q)
          PROVE  p \in ahead'[q] /\ Exact(q)'
      <4>1. q # r /\ q \notin ahead[r]
            BY <3>1, <3>2 DEF TInv
      <4> QED BY <2>1, <2>3, <3>1, <3>2, <4>1
    <3> QED BY <3>1, <3>2 DEF TInv
  <2>6. ASSUME ~missed'
        PROVE  told' = Crawled \/ Raised \/ \E q \in Requests : Exact(q)'
    <3>1. ~stale[r] /\ Reading(r) /\ told' = load[r]
          BY <2>1, <2>6 DEF Reading
    <3>2. ASSUME NEW q \in Requests, r \in ahead[q], Exact(q)
          PROVE  Exact(q)'
      <4>1. q # r /\ q \notin ahead[r]
            BY <3>2 DEF TInv
      <4> QED BY <2>3, <3>2, <4>1
    <3> QED BY <3>1, <3>2 DEF TInv
  <2> QED BY <1>2, <2>2, <2>4, <2>5, <2>6 DEF TInv
<1>5. CASE LoseEvent(r)
  <2>1. /\ note[r] = "raised" /\ note' = [note EXCEPT ![r] = "lost"]
        /\ missed' = TRUE /\ UNCHANGED <<load, told, ahead>>
        /\ \A q \in Requests : Reading(q) => stale'[q]
        BY <1>5 DEF LoseEvent, Reading
  <2>2. \A q \in Requests : Reading(q)' <=> Reading(q)
        BY <2>1 DEF Reading, EInv, EventsTypeOK
  <2>3. \A q \in Requests : q \notin ahead'[q] /\ \A p \in ahead'[q] : Reading(p)'
        BY <2>1, <2>2 DEF TInv, EInv, EventsTypeOK
  <2>4. \A q, p \in Requests : q \in ahead'[p] => ahead'[q] \subseteq ahead'[p]
        BY <2>1 DEF TInv
  <2> QED BY <2>1, <2>2, <2>3, <2>4 DEF TInv
<1> QED BY <1>3, <1>4, <1>5
\* A request raises an event for what it has saved, a deletion makes stale what
\* had been read, and nothing else changes what the bot is to be told.
LEMMA RequestTold ==
    ASSUME EInv, TInv, NEW r \in Requests,
           \/ UNCHANGED <<zone, events>>
           \/ /\ UNCHANGED <<load, told, ahead, stale, missed>> /\ note[r] = "none"
              /\ note' = [note EXCEPT ![r] = "raised"]
           \/ \E z \in ZoneIds : DropZone(r, z)
    PROVE  TInv'
<1>1. CASE UNCHANGED <<zone, events>>
      BY <1>1 DEF TInv, Exact, Reading, Raised, Crawled, IsZone, events
<1>2. CASE /\ UNCHANGED <<load, told, ahead, stale, missed>> /\ note[r] = "none"
           /\ note' = [note EXCEPT ![r] = "raised"]
  <2>1. Raised' /\ \A q \in Requests : Reading(q)' <=> Reading(q)
        BY <1>2 DEF Raised, Reading, EInv, EventsTypeOK
  <2> QED BY <1>2, <2>1 DEF TInv, EInv, EventsTypeOK
<1>3. CASE \E z \in ZoneIds : DropZone(r, z)
  <2>1. PICK z \in ZoneIds : DropZone(r, z)
        BY <1>3
  <2>2. /\ zone' = [zone EXCEPT ![z] = Gone] /\ IsZone(z) /\ zone[z].crawl \in BOOLEAN
        /\ UNCHANGED <<note, load, told, ahead>>
        BY <2>1 DEF DropZone, IsZone, Zone
  <2>3. CASE zone[z].crawl
    <3>1. missed' /\ \A q \in Requests : Reading(q) => stale'[q]
          BY <2>1, <2>3 DEF DropZone, Reading
    <3> QED BY <2>2, <3>1 DEF TInv, Reading
  <2>4. CASE ~zone[z].crawl
    <3>1. /\ \A q \in Requests : stale'[q] <=> stale[q]
          /\ missed' <=> missed
          BY <2>1, <2>4 DEF DropZone
    <3>2. Crawled' = Crawled
      <4>1. Gone \notin Zone
            OBVIOUS
      <4>2. \A y \in ZoneIds : IsZone(y)' /\ zone'[y].crawl <=> IsZone(y) /\ zone[y].crawl
            BY <2>2, <2>4, <4>1 DEF IsZone, EInv, EventsTypeOK
      <4>3. \A y \in ZoneIds : IsZone(y)' => zone'[y] = zone[y]
            BY <2>2, <4>1 DEF IsZone, EInv, EventsTypeOK
      <4> QED BY <4>2, <4>3 DEF Crawled
    <3> QED BY <2>2, <3>1, <3>2 DEF TInv, Exact, Reading, Raised
  <2> QED BY <2>2, <2>3, <2>4
<1> QED BY <1>1, <1>2, <1>3

-----------------------------------------------------------------------------
(* The whole                                                               *)

BInv == HInv /\ SInv /\ EInv /\ TInv

LEMMA BInit == Init => BInv
<1> SUFFICES ASSUME Init PROVE BInv
    OBVIOUS
<1>1. HInv
      BY DEF Init, HandlersInit, HInv, Methods, Places, Ended
<1> QED BY <1>1, SInit, EInit, TInit DEF Init, BInv

\* A request on zones, or the bot that asks for the configuration.
LEMMA ZoneRequestStep ==
    ASSUME BInv, NEW r \in Requests, UNCHANGED svars,
           \/ \E body \in Bodies : \/ BeginCreate(r, body)
                                 \/ \E z \in ZoneIds : ReadZone(r, z, body)
           \/ \E z \in ZoneIds : DropZone(r, z)
           \/ SaveNew(r) \/ Validate(r) \/ LookZone(r) \/ SaveOld(r) \/ FailZone(r)
           \/ AskConfig(r)
    PROVE  BInv'
<1>1. HInv /\ SInv /\ EInv /\ TInv
      BY DEF BInv
<1>2. Moves(r) /\ ~Creating(r) /\ ~Updating(r) /\ ~Creating(r)' /\ ~Updating(r)'
      BY <1>1, ZoneStepMoves
<1>3. HInv' /\ SInv'
      BY <1>1, <1>2, MovesKeep, ServersFrame
<1>4. EInv'
      BY <1>1, <1>2, BeginZoneStep, CheckZoneStep, EndZoneStep, SaveNewZoneStep, SaveOldZoneStep
<1>5. note[r] = "none"
      BY <1>1, <1>2 DEF EInv, Shaped, Moves, Begin, Active, Ended
<1>6. \/ UNCHANGED <<zone, events>>
      \/ /\ UNCHANGED <<load, told, ahead, stale, missed>>
         /\ note' = [note EXCEPT ![r] = "raised"]
      \/ \E z \in ZoneIds : DropZone(r, z)
      BY DEF BeginCreate, ReadZone, BeginOnZone, SaveNew, Validate, LookZone, SaveOld, Saved,
             FailZone, AskConfig, zvars
<1>7. TInv'
      BY <1>1, <1>5, <1>6, RequestTold
<1> QED BY <1>3, <1>4, <1>7 DEF BInv

\* A request on servers leaves the zones alone.
LEMMA ZonesFrame ==
    ASSUME HInv, EInv, NEW r \in Requests, ServerStep(r), UNCHANGED zvars
    PROVE  EInv'
<1>1. Moves(r)
      BY ServerStepMoves
<1>2. EventsTypeOK'
      BY DEF EInv, EventsTypeOK, zvars, events, zlasts
<1>3. /\ op'[r] \notin {"createZone", "updateZone", "none"} /\ pc[r] \notin Ended
      /\ pc[r] # "idle" => op'[r] = op[r]
      BY DEF ServerStep, BeginServer, InsertServer, SaveCreated, LoadServer, DeleteServer, SetError,
             CheckName, SaveUpdated, FailServer, Begin, Goto, Active, Ended, HInv
<1>4. Shaped(r) /\ ~Making(r) /\ ~Changing(r) /\ ~Making(r)' /\ ~Changing(r)'
      BY <1>3 DEF EInv, Making, Changing, Active, HInv
<1>5. (Shaped(r) /\ NameCleared(r) /\ MinutesCleared(r))'
      BY <1>3, <1>4 DEF Shaped, NameCleared, MinutesCleared, Saving, zvars, events
<1> QED BY <1>1, <1>2, <1>5, UnsavedStep DEF zvars, events, zlasts

LEMMA BNext == BInv /\ [Next]_vars => BInv'
<1> SUFFICES ASSUME BInv, [Next]_vars PROVE BInv'
    OBVIOUS
<1>1. HInv /\ SInv /\ EInv /\ TInv
      BY DEF BInv
<1>2. CASE UNCHANGED vars
  <2>1. HInv'
        BY <1>1, <1>2 DEF vars, hvars, HInv
  <2>2. SInv'
        BY <1>1, <1>2 DEF vars, hvars, svars, slasts, SInv, ServersTypeOK, Placed, Buried, Cleared,
           Recorded, NoBareServer, DeletionStands, ServerNamesClashOnlyByRace, Working, Creating,
           Updating, Active, AliveAs, IsServer, Raced, Overlap
  <2>3. EInv'
    <3>1. EventsTypeOK'
          BY <1>1, <1>2 DEF vars, zvars, events, zlasts, EInv, EventsTypeOK
    <3>2. \A r \in Requests : (Shaped(r) /\ MinutesCleared(r))'
          BY <1>1, <1>2 DEF vars, hvars, zvars, events, zlasts, EInv, Shaped, MinutesCleared,
             Making, Changing, Saving, Active, Overlap
    <3>3. \A r \in Requests : NameCleared(r)'
          BY <1>1, <1>2 DEF vars, hvars, zvars, EInv, NameCleared, Making, Changing, Saving,
             Active, Named, IsZone, Raced, Overlap
    <3>4. (\A z \in ZoneIds : Noted(z))' /\ ZoneNamesClashOnlyByRace' /\ MinutesOrdered'
          BY <1>1, <1>2 DEF vars, hvars, zvars, zlasts, EInv, Noted, ZoneNamesClashOnlyByRace,
             MinutesOrdered, IsZone, Raced, Overlap
    <3> QED BY <3>1, <3>2, <3>3, <3>4 DEF EInv
  <2>4. TInv'
        BY <1>1, <1>2 DEF vars, zvars, events, TInv, Exact, Reading, Raised, Crawled, IsZone
  <2> QED BY <2>1, <2>2, <2>3, <2>4 DEF BInv
<1>3. ASSUME NEW r \in Requests, ServerStep(r), UNCHANGED zvars
      PROVE  BInv'
  <2>1. HInv' /\ SInv' /\ EInv'
        BY <1>1, <1>3, ServerStepMoves, MovesKeep, ServersStep, ZonesFrame
  <2>2. TInv'
        BY <1>1, <1>3, RequestTold DEF zvars
  <2> QED BY <2>1, <2>2 DEF BInv
<1>4. ASSUME NEW r \in Requests, ZoneStep(r), UNCHANGED svars
      PROVE  BInv'
  <2>1. CASE ReadZones(r) \/ Emit(r) \/ LoseEvent(r)
    <3>1. UNCHANGED hvars
          BY <2>1 DEF ReadZones, Emit, LoseEvent, Handler
    <3>2. HInv'
          BY <1>1, <3>1 DEF hvars, HInv
    <3>3. SInv'
          BY <1>1, <1>4, <3>1 DEF hvars, svars, slasts, SInv, ServersTypeOK, Placed, Buried, Cleared,
             Recorded, NoBareServer, DeletionStands, ServerNamesClashOnlyByRace, Working, Creating,
             Updating, Active, AliveAs, IsServer, Raced, Overlap
    <3>4. EInv' /\ TInv'
          BY <1>1, <2>1, HandlerStep, HandlerTold
    <3> QED BY <3>2, <3>3, <3>4 DEF BInv
  <2>2. CASE ~(ReadZones(r) \/ Emit(r) \/ LoseEvent(r))
        BY <1>4, <2>2, ZoneRequestStep DEF ZoneStep
  <2> QED BY <2>1, <2>2
<1>5. ASSUME NEW r \in Requests, GetServerConfig(r)
      PROVE  BInv'
      BY <1>5, ZoneRequestStep DEF GetServerConfig
<1> QED BY <1>2, <1>3, <1>4, <1>5 DEF Next

\* The invariants of requests, servers, zones and handlers hold throughout.
THEOREM BotLinkInvariance == Spec => []BInv
BY BInit, BNext, PTL DEF Spec

\* Every row, entity in memory and event has the shape the modules say.
THEOREM BotLinkTypeCorrect == Spec => []BotLinkTypeOK
<1>1. BInv => BotLinkTypeOK
  <2> SUFFICES ASSUME BInv PROVE BotLinkTypeOK
      OBVIOUS
  <2>1. ServersTypeOK /\ EventsTypeOK /\ pc \in [Requests -> Places]
        BY DEF BInv, HInv, SInv, EInv
  <2>2. \A r \in Requests : pc[r] \in Ended => zmem[r] = None /\ zbase[r] = None
        BY DEF BInv, EInv, Shaped, Making, Changing, Active
  <2> QED BY <2>1, <2>2 DEF BotLinkTypeOK, Places
<1> QED BY <1>1, BotLinkInvariance, PTL

\* createServer: only a creation that is under way or has failed between its two
\* writes leaves a server without a configuration.
THEOREM BareServersAreFailures == Spec => []NoBareServer
<1>1. BInv => NoBareServer
      BY DEF BInv, SInv
<1> QED BY <1>1, BotLinkInvariance, PTL

\* deleteServer: no request that begins after a deletion brings the server back.
THEOREM DeletedStaysDeleted == Spec => []DeletionStands
<1>1. BInv => DeletionStands
      BY DEF BInv, SInv
<1> QED BY <1>1, BotLinkInvariance, PTL

\* checkServerExistsByUser and validateZoneName: counting first is enough as long
\* as requests come one after the other.
THEOREM ClashesAreRaces == Spec => []NamesClashOnlyByRace
<1>1. BInv => NamesClashOnlyByRace
      BY DEF BInv, SInv, EInv, NamesClashOnlyByRace
<1> QED BY <1>1, BotLinkInvariance, PTL

\* validateInactiveMinutes: what it compares keeps the minutes of a crawled zone in
\* order, so a zone out of order is one of those it does not compare.
THEOREM ComparedMinutesAreOrdered == Spec => []MinutesOrdered
<1>1. BInv => MinutesOrdered
      BY DEF BInv, EInv
<1> QED BY <1>1, BotLinkInvariance, PTL

\* onZoneUpdated: events that are neither lost nor overtaken leave the bot's
\* crawler with the zones of the table.
THEOREM EventsConverge == Spec => []ToldIsTable
<1>1. BInv => ToldIsTable
  <2> SUFFICES ASSUME BInv, \A r \in Requests : note[r] \notin Busy, ~missed
               PROVE  told = Crawled
      BY DEF ToldIsTable
  <2>1. ~Raised /\ \A q \in Requests : ~Reading(q)
        BY DEF Raised, Reading, Busy
  <2> QED BY <2>1 DEF BInv, TInv, Exact
<1> QED BY <1>1, BotLinkInvariance, PTL
=============================================================================
