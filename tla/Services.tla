------------------------------ MODULE Services ------------------------------
(* Six parts of the server that share no state: the claims on messages, the    *)
(* event stream, the ideas with their branches, the experiments' records and   *)
(* what is read of them, the agents that come and go, and the notices agents   *)
(* get.  A behaviour is one of one of them, the others standing still, since   *)
(* no order between their steps matters.                                      *)
EXTENDS Claims, Events, Workspaces, Records, Registry, Notices

VARIABLE scene  \* the part that moves

serviceVars == <<claimVars, eventVars, workVars, recordVars, registryVars, noticeVars, scene>>

Scenes == {"claims", "events", "work", "records", "registry", "notices"}

\* Each part keeps the inductive invariant its proofs rest on: a lease that counts is
\* on file, an event that is missed is on its way, an edit that a checkout or a merge
\* may take from a branch is elsewhere, a notice on its way recorded, an agent's process
\* one of its record, a view that is kept as new as its key.
ServicesSound ==
    \/ scene = "claims" /\ ClaimsIInv
    \/ scene = "events" /\ EventsIInv
    \/ scene = "work" /\ WorkIInv
    \/ scene = "records" /\ RecordsIInv
    \/ scene = "registry" /\ RegistryIInv
    \/ scene = "notices" /\ NoticesIInv

ServicesInit ==
    /\ ClaimsInit /\ EventsInit /\ WorkInit /\ RecordsInit /\ RegistryInit /\ NoticesInit
    /\ scene \in Scenes
    /\ scene # "work" => nextIdea = 2  \* the others do not look

ServicesNext ==
    \/ /\ scene = "claims" /\ ClaimsNext
       /\ UNCHANGED <<eventVars, workVars, recordVars, registryVars, noticeVars, scene>>
    \/ /\ scene = "events" /\ EventsNext
       /\ UNCHANGED <<claimVars, workVars, recordVars, registryVars, noticeVars, scene>>
    \/ /\ scene = "work" /\ WorkNext
       /\ UNCHANGED <<claimVars, eventVars, recordVars, registryVars, noticeVars, scene>>
    \/ /\ scene = "records" /\ RecordsNext
       /\ UNCHANGED <<claimVars, eventVars, workVars, registryVars, noticeVars, scene>>
    \/ /\ scene = "registry" /\ RegistryNext
       /\ UNCHANGED <<claimVars, eventVars, workVars, recordVars, noticeVars, scene>>
    \/ /\ scene = "notices" /\ NoticesNext
       /\ UNCHANGED <<claimVars, eventVars, workVars, recordVars, registryVars, scene>>

ServicesSpec == ServicesInit /\ [][ServicesNext]_serviceVars
=============================================================================
