----------------------------- MODULE MCCrewTurn ----------------------------
(***************************************************************************)
(* CrewTurn for TLC: one slot, used again and again, the shipped profiles, *)
(* and a later version of blue's that has lost two of the verbs its script *)
(* needs.                                                                  *)
(***************************************************************************)
EXTENDS CrewTurn, ShippedProfiles

UsBctRevised ==
    [UsBct EXCEPT !.verbs = @ \ {"suppress", "request_support"}]
BlueProfiles == {UsBct, UsBctRevised}

Settings == {"unset", "", "near-peer", "hybrid"}

DoctrineProfile(d) ==
    CASE d = "peer" -> Peer
      [] d = "near-peer" -> NearPeer
      [] d = "hybrid" -> HybridIrregular

\* With a doctrine and the profile the repository ships for its side and doctrine no step of
\* a crew is refused: the roles have the tools, the profile the verbs, and the
\* range red fires at is valid although it reasons with the weapon's upper
\* uncertainty, which is beyond it.
ShippedScriptsRun ==
    \A run \in Run :
        mode[run] = "raised" /\ Script(run) # <<>> =>
            profile[run[2]] \notin {UsBct, Peer, NearPeer, HybridIrregular}

=============================================================================
