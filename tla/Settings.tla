------------------------------ MODULE Settings ------------------------------
(***************************************************************************)
(* The settings and reports of one server together: group categories,      *)
(* channel configurations and crawls, which the deletion of a zone joins.  *)
(***************************************************************************)
EXTENDS GroupCategories, ChannelConfigs, Crawls

ASSUME SettingsAssumption == \A Z \in SUBSET Zones : Z # None

\* Requests on different parts share no table, so they are taken apart; those
\* on configurations and on crawls share the zones.
Parts == {"categories", "zones", "reports"}

VARIABLE part    \* the part of the settings that the requests are about

vars == <<hvars, gvars, kvars, cvars, part>>

SettingsTypeOK ==
    /\ CategoriesTypeOK /\ ConfigsTypeOK /\ CrawlsTypeOK(Zones)
    /\ part \in Parts
    /\ pc \in [Requests -> {"idle", "read", "renamed", "deleting", "deleted", "saving",
                            "saved"} \cup Ended]
    /\ \A r \in Requests : ~Active(r) =>
          /\ named[r] = None /\ kmem[r] = None /\ kbase[r] = None
          /\ Table!Wrote(r) = {} /\ PTable!Wrote(r) = {} /\ ITable!Wrote(r) = {}

Init == /\ HandlersInit /\ CategoriesInit /\ ConfigsInit /\ CrawlsInit
        /\ part \in Parts
        /\ part # "categories" => cat  = [c \in Categories |-> None]
        /\ part # "zones"      => ch   = [k \in Configs |-> None]
        /\ part # "reports"    => idle = ITable!NoRows

\* deleteZone takes the zone's configuration and its part of crawls with it.
DeleteZone(r) == \E z \in Zones : DropZone(r, z) /\ ForgetZone(z)

Next ==
    \E r \in Requests :
        /\ UNCHANGED part
        /\ \/ part = "categories" /\ CategoryStep(r) /\ UNCHANGED <<kvars, cvars>>
           \/ part = "zones"      /\ ConfigStep(r) /\ UNCHANGED <<gvars, cvars>>
           \/ part = "zones"      /\ CrawlStep(r, zones) /\ UNCHANGED <<gvars, kvars>>
           \/ part = "zones"      /\ DeleteZone(r) /\ UNCHANGED gvars
           \/ part = "reports"    /\ ReportStep(r) /\ UNCHANGED <<gvars, kvars>>

Spec == Init /\ [][Next]_vars

-----------------------------------------------------------------------------
(* Properties *)

\* deleteZone: nothing that refers to a zone is left when it is gone, neither a
\* configuration with its permissions nor a part of a crawl, and no request
\* that had found the zone before puts anything back.
ZonesLeaveNothing == ConfigsKeepZone /\ CrawlsKeepZones(zones)
=============================================================================
