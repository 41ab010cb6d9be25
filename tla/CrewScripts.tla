----------------------------- MODULE CrewScripts ----------------------------
(***************************************************************************)
(* What the blue and red battalion crews do between two turns              *)
(* (agents/blue, agents/red): the scripts of officer calls, the tools each *)
(* role is bound to, and the range red's company B fires at.               *)
(*                                                                         *)
(* A step is an officer call of SpatialEffects with the role that makes    *)
(* it.  A profile has, besides its verbs and ranges, its weapons.          *)
(***************************************************************************)
EXTENDS SpatialEffects, Sequences

Side == {"blue", "red"}
Doctrine == {"peer", "near-peer", "hybrid"}

\* select_doctrine of what ALMIGHTY_RED_DOCTRINE is set to, if it is: a setting
\* that is no doctrine, the empty one included, raises.
SelectDoctrine(setting) ==
    IF setting = "unset" THEN "peer"
    ELSE IF setting \in Doctrine THEN setting
    ELSE "invalid"

Draws(role, verb, mode, args) ==
    [role |-> role, verb |-> verb, mode |-> mode, args |-> args]
Does(role, verb) == Draws(role, verb, "-", <<>>)

Sensor == {"detect", "track", "classify", "lose_track"}
Mover == {"move_to", "follow_route", "halt", "assume_posture"}
Messages == {"send", "relay", "report"}
Commander == {"issue_order", "request_support", "delegate", "escalate"}

\* build_all_tools: a tool for each verb.
AllTools ==
    Sensor \cup Fires \cup Mover \cup Messages \cup Commander
    \cup {"disable", "jam"}

\* The tools _build_role leaves a role by its ALLOWED_VERBS; s3_informal is
\* hybrid's S3, who is handed a tool of the full set.
RoleVerbs(side, role) ==
    CASE role = "s2" -> Sensor
      [] role = "s3" -> Commander
      [] role = "s3_informal" -> AllTools
      [] role = "s6" ->
            Messages \cup (IF side = "red" THEN {"jam"} ELSE {})
      [] role \in {"co_a", "co_b", "co_c"} ->
            Mover \cup Fires \cup Messages
            \cup (IF side = "red" THEN {"disable"} ELSE {})

\* A step commits when its role has the tool and the tool lets it pass.
Permits(profile, side, step) ==
    /\ step.verb \in RoleVerbs(side, step.role)
    /\ Commits(profile, step)

-----------------------------------------------------------------------------
(* The step at which the LLM decides, and the pair that replaces it.       *)

Decide == Does("s3", "llm_decide")
FallbackPair == <<Does("s3", "issue_order"), Does("s3", "request_support")>>

-----------------------------------------------------------------------------
(* Blue.                                                                   *)

\* S2 looks first, so that the report S3 decides from has something in it.
BlueSensing ==
    <<Draws("s2", "detect", "RADAR", [range_m |-> 12000]),
      Draws("s2", "classify", "-", [dwell_s |-> 15])>>

BlueScript == BlueSensing \o
    <<Decide,
      Does("co_a", "assume_posture"),
      Does("co_a", "send"),
      Does("co_b", "halt"),
      Draws("co_b", "suppress", "-",
            [range_m |-> 8000, time_of_flight_s |-> 18]),
      Does("co_c", "move_to"),
      Does("s6", "send"),
      Does("s6", "report")>>

-----------------------------------------------------------------------------
(* Red.                                                                    *)

IndirectWeapon(doctrine) ==
    IF doctrine = "hybrid" THEN "indirect_improvised" ELSE "indirect_medium"

\* The upper edge of a weapon's uncertainty band: band_pct in percent of the
\* nominal range, band_upper in metres.
UpperWithBand(weapon) ==
    CASE weapon.band.kind = "band_pct" ->
            (weapon.effective_range_m * (100 + weapon.band.value)) \div 100
      [] weapon.band.kind = "band_upper" -> weapon.band.value
      [] weapon.band.kind = "absent" -> weapon.effective_range_m

\* Mutant of ChosenRange: the profile's cap is not applied.
ChosenRangeUncapped(profile, weapon) == UpperWithBand(weapon)
\* resolve_uncertain_value of the weapon's range, capped by the profile.
ChosenRange(profile, weapon) ==
    AtMost(UpperWithBand(weapon), profile.ranges.indirect_fire_arc.range_m.max)

\* _walk_path_safe: the weapon system with that id.
WeaponOf(doctrine, profile) == profile.weapons[IndirectWeapon(doctrine)]

Engage(doctrine, profile) ==
    LET weapon == WeaponOf(doctrine, profile)
    IN  Draws("co_b", "engage", "-",
              [range_m |-> ChosenRange(profile, weapon),
               time_of_flight_s |-> weapon.time_of_flight_s,
               dispersion_ellipse_a_m |-> 80, dispersion_ellipse_b_m |-> 80])

\* A modality that draws nothing, for a profile without sensor ranges.
RedSensing == Draws("s2", "detect", "EO_IR", [range_m |-> 4000])
\* Hybrid has no commander verbs, so its S3 sends a message.
SendShadow == Does("s3_informal", "send")

\* _build_script.
RedScript(doctrine, profile) ==
    <<RedSensing,
      IF doctrine = "hybrid" THEN SendShadow ELSE Decide,
      Does("co_a", "assume_posture"),
      Does("co_a", "send"),
      Does("co_b", "halt"),
      Engage(doctrine, profile),
      Does("co_c", "move_to"),
      Does("s6", "send"),
      Does("s6", "report")>>

=============================================================================
