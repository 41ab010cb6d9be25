--------------------------- MODULE SpatialEffects ---------------------------
(***************************************************************************)
(* One officer verb, three readings of it.  The officer tool               *)
(* (agents/tools) decides which artifact family the call draws, asks the   *)
(* validator (services/czml-validator) whether the profile allows its      *)
(* parameters, and commits an event; the CZML adapter                      *)
(* (services/czml-adapter) later derives family and parameters again, from *)
(* the event's payload alone, and asks the same validator.                 *)
(*                                                                         *)
(* A call is a record: its verb, its mode (the method of disable, the      *)
(* modality of detect, "AIRBORNE" for a relay that says it is), and args,  *)
(* the numbers it names.  Only verbs that can draw are told apart.         *)
(***************************************************************************)
EXTENDS Integers, Functions

CONSTANT TemplateRange   \* family -> parameter -> [min, max]: the templates

Fires == {"engage", "suppress", "destroy"}
Masint == {"ACOUSTIC", "SEISMIC", "MASINT_MULTI"}

FAMILY_EMITTING_VERBS ==
    [ew_cone           |-> {"detect", "jam"},
     uas_corridor      |-> {"relay"},
     radar_fan         |-> {"detect", "track"},
     jamming_circle    |-> {"jam"},
     satellite_swath   |-> {"detect", "track"},
     indirect_fire_arc |-> Fires \cup {"disable"},
     ir_plume          |-> {"destroy", "disable"},
     masint_cell       |-> {"detect", "classify"},
     keyhole_footprint |-> {"classify"}]

-----------------------------------------------------------------------------
(* The validator.                                                          *)

AtLeast(a, b) == IF a >= b THEN a ELSE b
AtMost(a, b) == IF a <= b THEN a ELSE b

\* The range a parameter must be in: the template's, narrowed by the profile's
\* unless the profile is silent on it.
Bounds(profile, family, param) ==
    LET t == TemplateRange[family][param]
    IN  IF param \notin DOMAIN profile.ranges[family] THEN t
        ELSE LET p == profile.ranges[family][param]
             IN  [min |-> AtLeast(t.min, p.min), max |-> AtMost(t.max, p.max)]

Validate(profile, family, params) ==
    /\ family \in DOMAIN TemplateRange \cap DOMAIN FAMILY_EMITTING_VERBS
    /\ FAMILY_EMITTING_VERBS[family] \cap profile.verbs # {}
    /\ family \in DOMAIN profile.ranges
    /\ \A param \in DOMAIN TemplateRange[family] :
          /\ param \in DOMAIN params
          /\ params[param] >= Bounds(profile, family, param).min
          /\ params[param] <= Bounds(profile, family, param).max

-----------------------------------------------------------------------------
(* The officer tools.                                                      *)

DetectFamily(mode) ==
    CASE mode = "RF" -> "ew_cone"
      [] mode = "RADAR" -> "radar_fan"
      [] mode \in Masint -> "masint_cell"
      [] OTHER -> "none"

DisableFamily(mode) ==
    CASE mode = "KINETIC" -> "indirect_fire_arc"
      [] mode = "EW" -> "jamming_circle"
      [] OTHER -> "none"

\* _effect_family_for: "none" when the verb draws nothing.
ToolFamily(profile, call) ==
    CASE call.verb \in Fires -> "indirect_fire_arc"
      [] call.verb = "disable" -> DisableFamily(call.mode)
      [] call.verb = "detect" -> DetectFamily(call.mode)
      [] call.verb = "classify" -> "keyhole_footprint"
      [] call.verb = "jam" -> "jamming_circle"
      [] call.verb = "relay" /\ call.mode = "AIRBORNE" /\ profile.corridor ->
            "uas_corridor"
      [] OTHER -> "none"

\* The numbers that are given, and the defaults of the others.
WithDefaults(given, defaults) ==
    [key \in DOMAIN given \cup DOMAIN defaults |->
        IF key \in DOMAIN given THEN given[key] ELSE defaults[key]]

\* The arguments with the defaults of the verb's args_schema.
Args(call) == WithDefaults(call.args,
     CASE call.verb = "suppress" ->
            [dispersion_ellipse_a_m |-> 80, dispersion_ellipse_b_m |-> 80]
      [] call.verb = "disable" ->
            [range_m |-> 10000, time_of_flight_s |-> 10, radius_m |-> 2000,
             power_w |-> 200, dispersion_ellipse_a_m |-> 50,
             dispersion_ellipse_b_m |-> 50]
      [] call.verb = "jam" -> [radius_m |-> 2000]
      [] call.verb = "relay" ->
            [altitude_band_lower_m |-> 500, altitude_band_upper_m |-> 2000,
             width_m |-> 2000]
      [] OTHER ->
            [dispersion_ellipse_a_m |-> 50, dispersion_ellipse_b_m |-> 50])

\* What classify makes of its dwell.
FootprintArea(dwell_s) == AtMost(50000, AtLeast(500, dwell_s * 100))

\* _build_validator_params.
ToolParams(call) ==
    CASE call.verb = "classify" ->
            [polygon_area_m2 |-> FootprintArea(call.args.dwell_s)]
      [] call.verb = "detect" ->
            CASE call.mode = "RF" ->
                    [azimuth_deg |-> 0, beamwidth_deg |-> 30,
                     effective_range_m |-> call.args.range_m]
              [] call.mode = "RADAR" ->
                    [azimuth_deg |-> 0, sweep_arc_deg |-> 60,
                     range_m |-> call.args.range_m]
              [] OTHER -> [polygon_area_m2 |-> 50000, dwell_s |-> 600]
      [] OTHER -> Args(call)

\* Mutant of Commits: the profile's verbs are checked, its ranges are not.
CommitsUnvalidated(profile, call) == call.verb \in profile.verbs
\* OfficerToolBase._run up to the commit: the capability gate, then, for a verb
\* that draws, the validator.
Commits(profile, call) ==
    /\ call.verb \in profile.verbs
    /\ LET family == ToolFamily(profile, call)
       IN  family # "none" => Validate(profile, family, ToolParams(call))

\* The numbers _build_event_payload hands on.
PayloadKeys(verb) ==
    CASE verb \in Fires -> {"range_m", "time_of_flight_s"}
      [] verb = "detect" -> {"range_m"}
      [] verb = "jam" -> {"radius_m", "power_w"}
      [] verb = "classify" -> {"dwell_s"}
      [] OTHER -> {}

Payload(call) ==
    [key \in PayloadKeys(call.verb) \cap DOMAIN Args(call) |-> Args(call)[key]]

-----------------------------------------------------------------------------
(* The adapter.                                                            *)

\* Mutant of Handler: the ew_cone detector does not look at the modality.
HandlerAnyDetect(call) ==
    CASE call.verb = "jam" -> "jamming_circle"
      [] call.verb \in Fires -> "indirect_fire_arc"
      [] call.verb = "detect" -> "ew_cone"
      [] call.verb = "classify" -> "keyhole_footprint"
      [] OTHER -> "none"

\* find_handler: the first detector that matches.
Handler(call) ==
    CASE call.verb = "jam" -> "jamming_circle"
      [] call.verb = "disable" -> DisableFamily(call.mode)
      [] call.verb \in Fires -> "indirect_fire_arc"
      [] call.verb = "detect" -> DetectFamily(call.mode)
      [] call.verb = "classify" -> "keyhole_footprint"
      [] call.verb = "relay" /\ call.mode = "AIRBORNE" -> "uas_corridor"
      [] OTHER -> "none"

\* What the token builders read as payload["..."]: a KeyError when missing.
Required(family) ==
    CASE family = "jamming_circle" -> {"radius_m", "power_w"}
      [] family \in {"indirect_fire_arc", "radar_fan", "ew_cone"} -> {"range_m"}
      [] OTHER -> {}

\* The token builders: the payload, with their defaults for what it lacks.
Tokens(family, payload) ==
    WithDefaults(
        WithDefaults(payload,
            [azimuth_deg |-> 0, sweep_arc_deg |-> 60, beamwidth_deg |-> 30,
             dispersion_ellipse_a_m |-> 50, dispersion_ellipse_b_m |-> 50,
             time_of_flight_s |-> 0, dwell_s |-> 600, width_m |-> 2000,
             altitude_band_lower_m |-> 500, altitude_band_upper_m |-> 2000,
             polygon_area_m2 |->
                IF family = "masint_cell" THEN 50000 ELSE 25000]),
        IF family = "ew_cone" THEN [effective_range_m |-> payload.range_m]
        ELSE <<>>)

\* validator_param_keys of the family's handler.
ParamKeys(family) ==
    CASE family = "jamming_circle" -> {"radius_m", "power_w"}
      [] family = "indirect_fire_arc" ->
            {"range_m", "time_of_flight_s",
             "dispersion_ellipse_a_m", "dispersion_ellipse_b_m"}
      [] family = "radar_fan" -> {"azimuth_deg", "sweep_arc_deg", "range_m"}
      [] family = "ew_cone" ->
            {"azimuth_deg", "beamwidth_deg", "effective_range_m"}
      [] family = "masint_cell" -> {"polygon_area_m2", "dwell_s"}
      [] family = "keyhole_footprint" -> {"polygon_area_m2"}
      [] family = "uas_corridor" ->
            {"altitude_band_lower_m", "altitude_band_upper_m", "width_m"}

\* translate_event of the event a call committed.
Translate(profile, call) ==
    LET family == Handler(call)
        payload == Payload(call)
        params == Restrict(Tokens(family, payload), ParamKeys(family))
    IN  IF family = "none" THEN "skipped"
        ELSE IF ~(Required(family) \subseteq DOMAIN payload) THEN "raises"
        ELSE IF Validate(profile, family, params) THEN "accepted"
        ELSE "rejected"

=============================================================================
