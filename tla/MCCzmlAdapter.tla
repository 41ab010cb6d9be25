---------------------------- MODULE MCCzmlAdapter ---------------------------
(***************************************************************************)
(* CzmlAdapter for TLC, with the shipped templates and profiles.           *)
(***************************************************************************)
EXTENDS CzmlAdapter, ShippedProfiles

\* Numbers at, and on both sides of, the limits of templates and profiles.
Ranges == {799, 1000, 4001, 22000, 30001, 50001}

TheCall(verb, mode, args) == [verb |-> verb, mode |-> mode, args |-> args]
MCCall ==
    {TheCall(verb, "-", [range_m |-> range, time_of_flight_s |-> tof]) :
        verb \in Fires, range \in Ranges, tof \in {0, 1, 31, 91}}
    \cup {TheCall("engage", "-", Fire(1000, dispersion, 1)) :
        dispersion \in {4, 8, 30, 300, 301}}
    \cup {TheCall("disable", mode, <<>>) : mode \in {"KINETIC", "EW", "CYBER"}}
    \cup {TheCall("detect", mode, [range_m |-> range]) :
        mode \in Masint \cup {"EO_IR", "RF", "RADAR"}, range \in Ranges}
    \cup {TheCall("classify", "-", [dwell_s |-> dwell]) : dwell \in {1, 5, 900}}
    \cup {TheCall("jam", "-", [power_w |-> power, radius_m |-> radius]) :
        power \in {9, 50, 301, 1501}, radius \in {99, 250, 3001, 8001}}
    \cup {TheCall("relay", mode, [width_m |-> width]) :
        mode \in {"AIRBORNE", "-"}, width \in {49, 2000, 5001}}
    \cup {TheCall("track", "-", <<>>)}

\* Calls that under NearPeer are accepted and rejected.
FewCalls ==
    {TheCall("engage", "-", Fire(1000, 50, 10)),
     TheCall("relay", "AIRBORNE", [width_m |-> 2000])}

AllProfiles == {HybridIrregular, NearPeer, Peer, UsBct}
OneProfile == {NearPeer}
Indices == 0..MaxEvents

\* No translation depends on an earlier event: what an adapter with the officer's
\* own profile makes of an event is asked once, before anything has happened.
NothingYet == log = <<>> /\ loop = "asleep" /\ registered = {}

\* families.py:58-110 derives again, from the payload alone, the family the
\* officer tool decided on: while officer and adapter have the same profile,
\* what is drawn is what the officer's tool had validated.
DrawnAsGated ==
    NothingYet => \A profile \in AllProfiles, call \in MCCall :
        Commits(profile, call) /\ Translate(profile, call) = "accepted" =>
            Handler(call) = ToolFamily(profile, call)

\* base.py:110-124 and translator.py:109-124 ask one validator twice, about
\* parameters they derive differently: with the officer's own profile, the
\* adapter never rejects an event the officer tool had validated.
GatedNeverRejected ==
    NothingYet => \A profile \in AllProfiles, call \in MCCall :
        Commits(profile, call) /\ ToolFamily(profile, call) # "none" =>
            Translate(profile, call) # "rejected"

=============================================================================
