-------------------------- MODULE ShippedProfiles --------------------------
(***************************************************************************)
(* The data the repository ships: the capability_constraints of the CZML   *)
(* templates (czml/templates) and the capability profiles                  *)
(* (kernel/capability-profiles) with their verbs, their parameter ranges,  *)
(* whether they advertise a UAS corridor, and the weapon red fires with.   *)
(***************************************************************************)
EXTENDS Integers

Between(a, b) == [min |-> a, max |-> b]

TemplateRanges ==
    [ew_cone |-> [azimuth_deg |-> Between(0, 359),
                  beamwidth_deg |-> Between(5, 60),
                  effective_range_m |-> Between(1000, 50000)],
     indirect_fire_arc |-> [range_m |-> Between(1000, 30000),
                  dispersion_ellipse_a_m |-> Between(5, 300),
                  dispersion_ellipse_b_m |-> Between(5, 300),
                  time_of_flight_s |-> Between(1, 90)],
     jamming_circle |-> [radius_m |-> Between(100, 8000),
                         power_w |-> Between(10, 1500)],
     keyhole_footprint |-> [polygon_area_m2 |-> Between(100, 200000)],
     masint_cell |-> [polygon_area_m2 |-> Between(1000, 10000000),
                      dwell_s |-> Between(30, 7200)],
     radar_fan |-> [azimuth_deg |-> Between(0, 359),
                    sweep_arc_deg |-> Between(5, 360),
                    range_m |-> Between(500, 80000)],
     uas_corridor |-> [altitude_band_lower_m |-> Between(100, 12000),
                       altitude_band_upper_m |-> Between(100, 12000),
                       width_m |-> Between(50, 5000)]]

Fire(range, dispersion, tof) ==
    [range_m |-> range, time_of_flight_s |-> tof,
     dispersion_ellipse_a_m |-> dispersion,
     dispersion_ellipse_b_m |-> dispersion]
Jamming(radius, power) == [radius_m |-> radius, power_w |-> power]
Radar(sweep, range) == [sweep_arc_deg |-> sweep, range_m |-> range]

Verbs ==
    {"detect", "track", "classify", "lose_track",
     "engage", "suppress", "destroy", "disable",
     "move_to", "follow_route", "halt", "assume_posture",
     "send", "relay", "jam", "report",
     "issue_order", "request_support", "delegate", "escalate"}

\* A weapon whose range is known up to a band of so many percent.
Weapon(range, tof, percent) ==
    [effective_range_m |-> range, time_of_flight_s |-> tof,
     band |-> [kind |-> "band_pct", value |-> percent]]

HybridIrregular ==
    [verbs |-> {"detect", "classify", "lose_track", "engage", "disable",
                "move_to", "halt", "assume_posture", "send", "jam", "report"},
     corridor |-> FALSE,
     weapons |-> [indirect_improvised |-> Weapon(4000, 18, 50)],
     ranges |-> [indirect_fire_arc |->
                    Fire(Between(200, 4000), Between(30, 600), Between(1, 30)),
                 jamming_circle |-> Jamming(Between(100, 3000), Between(5, 300))]]
NearPeer ==
    [verbs |-> Verbs, corridor |-> FALSE,
     weapons |-> [indirect_medium |-> Weapon(22000, 28, 30)],
     ranges |-> [indirect_fire_arc |->
                    Fire(Between(800, 22000), Between(12, 400), Between(1, 60)),
                 radar_fan |-> Radar(Between(10, 360), Between(500, 35000)),
                 jamming_circle |-> Jamming(Between(250, 5000), Between(25, 600))]]
Peer ==
    [verbs |-> Verbs, corridor |-> TRUE,
     weapons |-> [indirect_medium |-> Weapon(30000, 35, 20)],
     ranges |-> [indirect_fire_arc |->
                    Fire(Between(1000, 30000), Between(8, 300), Between(1, 90)),
                 radar_fan |-> Radar(Between(5, 360), Between(500, 60000)),
                 jamming_circle |-> Jamming(Between(200, 8000), Between(50, 1500)),
                 ew_cone |-> [azimuth_deg |-> Between(0, 359),
                              beamwidth_deg |-> Between(5, 60),
                              effective_range_m |-> Between(1000, 50000)],
                 uas_corridor |-> [altitude_band_lower_m |-> Between(100, 6000),
                                   altitude_band_upper_m |-> Between(100, 8000)]]]
UsBct ==
    [verbs |-> Verbs \ {"disable", "jam"}, corridor |-> FALSE,
     ranges |-> [indirect_fire_arc |->
                    Fire(Between(1000, 25000), Between(5, 200), Between(1, 60)),
                 radar_fan |-> Radar(Between(10, 360), Between(500, 50000)),
                 masint_cell |-> [polygon_area_m2 |-> Between(1000, 4000000),
                                  dwell_s |-> Between(30, 3600)],
                 keyhole_footprint |->
                    [polygon_area_m2 |-> Between(100, 100000)]]]

============================================================================
