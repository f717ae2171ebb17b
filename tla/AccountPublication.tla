-------------------------- MODULE AccountPublication --------------------------
(***************************************************************************)
(* desktop_conv_publish (commands/cloud_publication.rs) beside the other   *)
(* commands of the account: it publishes a snapshot under the account      *)
(* lifecycle lease, and takes the lease a second time to quarantine one    *)
(* that cannot be prepared.                                                *)
(***************************************************************************)
EXTENDS AccountRuntimes

PublishEnds(u) ==
    /\ pc[u] = "admitted" /\ authority = None /\ Return(u)
    /\ UNCHANGED <<identity, seen, workers, handles, key, own, victims, circuit, boots, sessions>>

\* A snapshot that cannot be prepared is quarantined, under a lease of its
\* own: the owner has been moved out of the first one, which stays.
PublishUnprepared(u) == account = "in" /\ authority = None /\ Ask(u, "admitted", "asking")

Quarantine(u) ==
    /\ pc[u] = "readmitted" /\ authority = None /\ Return(u)
    /\ UNCHANGED <<identity, seen, workers, handles, key, own, victims, circuit, boots, sessions>>

PublishMoves(u) == PublishEnds(u) \/ PublishUnprepared(u) \/ Quarantine(u)

NextWithPublications == Next \/ \E u \in Publications : PublishMoves(u)

PublicationSpec ==
    /\ Init /\ [][NextWithPublications]_vars
    /\ Fairness /\ \A u \in Publications : WF_vars(PublishMoves(u))

\* "Readers block until the durable and live sides of a sign-in/sign-out
\* transaction agree" (runtime_registry.rs), and not for ever: a publication
\* that has called ends.
PublicationsEnd == \A u \in Publications : pc[u] = "waiting" ~> pc[u] = "done"
=============================================================================
