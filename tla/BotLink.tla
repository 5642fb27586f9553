------------------------------ MODULE BotLink ------------------------------
(***************************************************************************)
(* What a bot is told of the server it works for: the servers of a user,   *)
(* and the zones of one of them, which the bot asks for with the           *)
(* configuration and is told of when they change.                          *)
(***************************************************************************)
EXTENDS Servers, ZoneEvents

CONSTANT Home    \* the server whose zones these are

ASSUME HomeAssumption == Home \in ServerIds

vars == <<hvars, svars, zvars>>

BotLinkTypeOK ==
    /\ ServersTypeOK /\ EventsTypeOK
    /\ pc \in [Requests -> {"idle", "read", "inserted", "named", "saving", "looked up"} \cup Ended]
    /\ \A r \in Requests : pc[r] \in Ended => zmem[r] = None /\ zbase[r] = None

\* Either the user has Home alone, or Home has no zones yet.
Init == /\ HandlersInit /\ ServersInit /\ EventsInit
        /\ \/ IsServer(Home) /\ \A s \in ServerIds \ {Home} : server[s] = None
           \/ zone = [z \in ZoneIds |-> None]

\* getServerConfig: the configuration first, also of a deleted server, then the zones.
GetServerConfig(r) == sconf[Home] # "none" /\ AskConfig(r) /\ UNCHANGED svars

Next == \E r \in Requests : \/ ServerStep(r) /\ UNCHANGED zvars
                            \/ ZoneStep(r) /\ UNCHANGED svars
                            \/ GetServerConfig(r)

Spec == Init /\ [][Next]_vars

-----------------------------------------------------------------------------
(* Properties *)

\* checkServerExistsByUser and validateZoneName: two servers of a user, or two
\* zones of a server, share a name only if a request that gave it, or wrote it
\* back, overlapped another; requests one after the other never make a clash.
NamesClashOnlyByRace == ServerNamesClashOnlyByRace /\ ZoneNamesClashOnlyByRace
=============================================================================
