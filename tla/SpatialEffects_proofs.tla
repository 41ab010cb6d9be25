------------------------ MODULE SpatialEffects_proofs -----------------------
(***************************************************************************)
(* Machine-checked theorems about SpatialEffects, for all calls whatever   *)
(* numbers they name: that the adapter's reading of an event agrees with   *)
(* the officer tool's, and about the profiles for which it does.           *)
(***************************************************************************)
EXTENDS SpatialEffects, ShippedProfiles, TLAPS

\* Every key has the value given for it, or else the default.
LEMMA DefaultsFill ==
    \A given, defaults :
        /\ DOMAIN WithDefaults(given, defaults) = DOMAIN given \cup DOMAIN defaults
        /\ \A key \in DOMAIN given : WithDefaults(given, defaults)[key] = given[key]
        /\ \A key \in DOMAIN defaults : key \notin DOMAIN given =>
              WithDefaults(given, defaults)[key] = defaults[key]
BY DEF WithDefaults

\* A key without a default has the value given for it.
LEMMA GivenStays ==
    ASSUME NEW given, NEW defaults, NEW key, key \notin DOMAIN defaults,
           key \in DOMAIN WithDefaults(given, defaults)
    PROVE  WithDefaults(given, defaults)[key] = given[key]
BY DEF WithDefaults

-----------------------------------------------------------------------------
(* Which family an event draws.                                            *)

\* A profile that does not advertise corridors gives no ranges for them.  An
\* airborne relay of such a profile is committed unvalidated, and only the
\* missing ranges keep the adapter from drawing it.
CorridorsAdvertised(profile) ==
    profile.corridor \/ "uas_corridor" \notin DOMAIN profile.ranges

\* The adapter takes an event for another family than the tool did only if it
\* is an airborne relay of a profile without corridors.
LEMMA HandlersDiffer ==
    ASSUME NEW profile, NEW call, Handler(call) # ToolFamily(profile, call)
    PROVE  /\ Handler(call) = "uas_corridor" /\ ~profile.corridor
           /\ ToolFamily(profile, call) = "none"
BY DEF Handler, ToolFamily, Fires, DisableFamily, DetectFamily, Masint

\* What the adapter draws is what the tool had validated.
THEOREM AcceptedAsGated ==
    ASSUME NEW profile, CorridorsAdvertised(profile), NEW call,
           Translate(profile, call) = "accepted"
    PROVE  Handler(call) = ToolFamily(profile, call)
<1> SUFFICES ASSUME Handler(call) = "uas_corridor", ~profile.corridor PROVE FALSE
  BY HandlersDiffer
<1>1. \E params : Validate(profile, Handler(call), params)
  BY DEF Translate
<1>2. "uas_corridor" \in DOMAIN profile.ranges
  BY <1>1 DEF Validate
<1> QED
  BY <1>2 DEF CorridorsAdvertised

-----------------------------------------------------------------------------
(* What the validator makes of it.                                         *)

\* The numbers the adapter draws with although the tool may have validated
\* others: they are not in the payload.
OwnNumbers ==
    [indirect_fire_arc |-> [dispersion_ellipse_a_m |-> 50,
                            dispersion_ellipse_b_m |-> 50],
     keyhole_footprint |-> [polygon_area_m2 |-> 25000],
     uas_corridor |-> [altitude_band_lower_m |-> 500,
                       altitude_band_upper_m |-> 2000, width_m |-> 2000]]

\* The validator lets this value of the parameter pass.
InBounds(profile, family, param, v) ==
    /\ v >= Bounds(profile, family, param).min
    /\ v <= Bounds(profile, family, param).max

\* A profile allows these numbers, as far as it has ranges for their families.
AllowsOwnNumbers(profile) ==
    \A family \in DOMAIN OwnNumbers \cap DOMAIN profile.ranges :
        \A param \in DOMAIN OwnNumbers[family] :
            InBounds(profile, family, param, OwnNumbers[family][param])

\* The templates ask for the parameters the adapter hands on.
TemplatesAskFor ==
    \A family \in DOMAIN TemplateRange :
        DOMAIN TemplateRange[family] = ParamKeys(family)

\* The tokens with a default, besides the area.
LEMMA PlainTokens ==
    ASSUME NEW family, NEW payload
    PROVE  /\ \A key \in DOMAIN payload : Tokens(family, payload)[key] = payload[key]
           /\ \A key : key \notin DOMAIN payload =>
                 /\ key = "azimuth_deg" => Tokens(family, payload)[key] = 0
                 /\ key = "sweep_arc_deg" => Tokens(family, payload)[key] = 60
                 /\ key = "beamwidth_deg" => Tokens(family, payload)[key] = 30
                 /\ key \in {"dispersion_ellipse_a_m", "dispersion_ellipse_b_m"} =>
                       Tokens(family, payload)[key] = 50
                 /\ key = "dwell_s" => Tokens(family, payload)[key] = 600
                 /\ key \in {"altitude_band_upper_m", "width_m"} =>
                       Tokens(family, payload)[key] = 2000
                 /\ key = "altitude_band_lower_m" => Tokens(family, payload)[key] = 500
                 /\ key = "polygon_area_m2" => Tokens(family, payload)[key] =
                       IF family = "masint_cell" THEN 50000 ELSE 25000
                 /\ key = "effective_range_m" /\ family = "ew_cone" =>
                       Tokens(family, payload)[key] = payload.range_m
BY DEF Tokens, WithDefaults

\* What reaches the payload: the tool's own arguments.
LEMMA PayloadOf ==
    ASSUME NEW call
    PROVE  /\ DOMAIN Payload(call) = PayloadKeys(call.verb) \cap DOMAIN Args(call)
           /\ \A key \in DOMAIN Payload(call) : Payload(call)[key] = Args(call)[key]
BY DEF Payload

\* Each parameter of an event's artifact is the tool's, or the adapter's own.
LEMMA ParamsAgree ==
    ASSUME NEW call, NEW family, family = Handler(call), family # "none",
           Required(family) \subseteq DOMAIN Payload(call),
           ParamKeys(family) \subseteq DOMAIN ToolParams(call),
           NEW param \in ParamKeys(family)
    PROVE  \/ Tokens(family, Payload(call))[param] = ToolParams(call)[param]
           \/ /\ family \in DOMAIN OwnNumbers /\ param \in DOMAIN OwnNumbers[family]
              /\ Tokens(family, Payload(call))[param] = OwnNumbers[family][param]
<1> DEFINE payload == Payload(call)
           token == Tokens(family, payload)[param]
<1>1. DOMAIN payload = PayloadKeys(call.verb) \cap DOMAIN Args(call)
  BY PayloadOf
<1>2. \A key \in DOMAIN payload : payload[key] = Args(call)[key]
  BY PayloadOf
<1>3. CASE call.verb = "jam"
  <2>1. family = "jamming_circle"
    BY <1>3 DEF Handler, Fires
  <2>3. ToolParams(call) = Args(call)
    BY <1>3 DEF ToolParams, Fires
  <2>2. param \in DOMAIN payload
    BY <2>1 DEF ParamKeys, Required
  <2> QED
    BY <1>2, <2>2, <2>3, PlainTokens
<1>4. CASE call.verb \in Fires
  <2>1. family = "indirect_fire_arc" /\ ToolParams(call) = Args(call)
    BY <1>4 DEF Handler, ToolParams, Fires
  <2>2. PayloadKeys(call.verb) = {"range_m", "time_of_flight_s"}
    BY <1>4 DEF PayloadKeys, Fires
  <2>3. CASE param \in {"range_m", "time_of_flight_s"}
    <3>1. param \in DOMAIN payload
      BY <1>1, <2>1, <2>2, <2>3
    <3> QED
      BY <1>2, <2>1, <3>1, PlainTokens
  <2>4. CASE param \in {"dispersion_ellipse_a_m", "dispersion_ellipse_b_m"}
    <3>1. param \notin DOMAIN payload
      BY <1>1, <2>2, <2>4
    <3> QED
      BY <2>1, <2>4, <3>1, PlainTokens DEF OwnNumbers
  <2> QED
    BY <2>1, <2>3, <2>4 DEF ParamKeys
<1>5. CASE call.verb = "detect"
  <2>1. PayloadKeys(call.verb) = {"range_m"}
    BY <1>5 DEF PayloadKeys, Fires
  <2>2. family = DetectFamily(call.mode)
    BY <1>5 DEF Handler, Fires
  <2>3. "range_m" \in DOMAIN payload => payload.range_m = call.args.range_m
    <3> SUFFICES ASSUME "range_m" \in DOMAIN payload
                 PROVE  payload.range_m = call.args.range_m
      OBVIOUS
    <3> DEFINE defaults == [dispersion_ellipse_a_m |-> 50, dispersion_ellipse_b_m |-> 50]
    <3>1. Args(call) = WithDefaults(call.args, defaults)
      BY <1>5 DEF Args
    <3>2. "range_m" \in DOMAIN WithDefaults(call.args, defaults)
      BY <1>1, <3>1
    <3>3. "range_m" \notin DOMAIN defaults
      OBVIOUS
    <3>4. WithDefaults(call.args, defaults)["range_m"] = call.args["range_m"]
      BY <3>2, <3>3, GivenStays
    <3> QED
      BY <1>2, <3>1, <3>4
  <2>4. CASE call.mode = "RF"
    <3>0. family = "ew_cone"
      BY <2>2, <2>4 DEF DetectFamily, Masint
    <3>1. "range_m" \in DOMAIN payload
      BY <3>0 DEF Required
    <3>2. ToolParams(call) = [azimuth_deg |-> 0, beamwidth_deg |-> 30,
                              effective_range_m |-> call.args.range_m]
      BY <1>5, <2>4 DEF ToolParams
    <3>3. param \in {"azimuth_deg", "beamwidth_deg", "effective_range_m"}
          /\ param \notin DOMAIN payload
      BY <1>1, <2>1, <3>0 DEF ParamKeys
    <3> QED
      BY <2>3, <3>0, <3>1, <3>2, <3>3, PlainTokens
  <2>5. CASE call.mode = "RADAR"
    <3>0. family = "radar_fan"
      BY <2>2, <2>5 DEF DetectFamily, Masint
    <3>1. "range_m" \in DOMAIN payload
      BY <3>0 DEF Required
    <3>2. ToolParams(call) = [azimuth_deg |-> 0, sweep_arc_deg |-> 60,
                              range_m |-> call.args.range_m]
      BY <1>5, <2>5 DEF ToolParams
    <3>3. CASE param = "range_m"
      BY <2>3, <3>1, <3>2, <3>3, PlainTokens
    <3>4. CASE param \in {"azimuth_deg", "sweep_arc_deg"}
      <4>1. param \notin DOMAIN payload
        BY <1>1, <2>1, <3>4
      <4> QED
        BY <3>2, <3>4, <4>1, PlainTokens
    <3> QED
      BY <3>0, <3>3, <3>4 DEF ParamKeys
  <2>6. CASE call.mode \notin {"RF", "RADAR"}
    <3>1. family = "masint_cell"
      BY <2>2, <2>6 DEF DetectFamily
    <3>2. ToolParams(call) = [polygon_area_m2 |-> 50000, dwell_s |-> 600]
      BY <1>5, <2>6 DEF ToolParams
    <3>3. param \in {"polygon_area_m2", "dwell_s"} /\ param \notin DOMAIN payload
      BY <1>1, <2>1, <3>1 DEF ParamKeys
    <3> QED
      BY <3>1, <3>2, <3>3, PlainTokens
  <2> QED
    BY <2>4, <2>5, <2>6
<1>6. CASE call.verb = "classify"
  <2>1. family = "keyhole_footprint" /\ PayloadKeys(call.verb) = {"dwell_s"}
    BY <1>6 DEF Handler, PayloadKeys, Fires
  <2>2. param = "polygon_area_m2" /\ param \notin DOMAIN payload
    BY <1>1, <2>1 DEF ParamKeys
  <2> QED
    BY <2>1, <2>2, PlainTokens DEF OwnNumbers
<1>7. CASE call.verb = "relay"
  <2>1. family = "uas_corridor" /\ PayloadKeys(call.verb) = {}
    BY <1>7 DEF Handler, PayloadKeys, Fires
  <2>2. param \in {"altitude_band_lower_m", "altitude_band_upper_m", "width_m"}
        /\ param \notin DOMAIN payload
    BY <1>1, <2>1 DEF ParamKeys
  <2> QED
    BY <2>1, <2>2, PlainTokens DEF OwnNumbers
<1>8. CASE call.verb = "disable"
  <2>1. family \in {"indirect_fire_arc", "jamming_circle"} /\ DOMAIN payload = {}
    BY <1>1, <1>8 DEF Handler, DisableFamily, PayloadKeys, Fires
  <2> QED
    BY <2>1 DEF Required
<1> QED
  BY <1>3, <1>4, <1>5, <1>6, <1>7, <1>8 DEF Handler

\* With templates and a profile that allow the adapter's own numbers, an event
\* that the tool had validated is never rejected by the adapter.
THEOREM GatedIsNotRejected ==
    ASSUME TemplatesAskFor, NEW profile, AllowsOwnNumbers(profile), NEW call,
           Commits(profile, call), ToolFamily(profile, call) # "none"
    PROVE  Translate(profile, call) # "rejected"
<1> DEFINE family == Handler(call)
           params == Restrict(Tokens(family, Payload(call)), ParamKeys(family))
<1>1. family = ToolFamily(profile, call) /\ family # "none"
  BY HandlersDiffer
<1> HIDE DEF family
<1>2. Validate(profile, family, ToolParams(call))
  BY <1>1 DEF Commits
<1>3. /\ family \in DOMAIN TemplateRange /\ family \in DOMAIN profile.ranges
      /\ DOMAIN TemplateRange[family] = ParamKeys(family)
      /\ ParamKeys(family) \subseteq DOMAIN ToolParams(call)
  BY <1>2 DEF Validate, TemplatesAskFor
<1> SUFFICES ASSUME Required(family) \subseteq DOMAIN Payload(call)
             PROVE  Validate(profile, family, params)
  BY DEF Translate, family
<1>4. ASSUME NEW param \in ParamKeys(family)
      PROVE  /\ param \in DOMAIN params
             /\ params[param] >= Bounds(profile, family, param).min
             /\ params[param] <= Bounds(profile, family, param).max
  <2>1. param \in DOMAIN params /\ params[param] = Tokens(family, Payload(call))[param]
    BY DEF Restrict
  <2>2. CASE params[param] = ToolParams(call)[param]
    BY <1>2, <1>3, <2>1, <2>2 DEF Validate
  <2>3. CASE /\ family \in DOMAIN OwnNumbers /\ param \in DOMAIN OwnNumbers[family]
             /\ params[param] = OwnNumbers[family][param]
    BY <1>3, <2>1, <2>3 DEF AllowsOwnNumbers, InBounds
  <2> QED
    BY <1>1, <1>3, <2>1, <2>2, <2>3, ParamsAgree DEF family
<1> QED
  BY <1>2, <1>3, <1>4 DEF Validate

\* What the argument schemas oblige a call to name of what the adapter indexes:
\* the range of a shot or a look, the power of a jammer.
NamesArguments(call) ==
    /\ call.verb \in Fires \cup {"detect"} => "range_m" \in DOMAIN call.args
    /\ call.verb = "jam" => "power_w" \in DOMAIN call.args

\* Of all events, only those of a disable can end the adapter with a KeyError.
THEOREM OnlyDisableRaises ==
    ASSUME NEW profile, NEW call, NamesArguments(call),
           Translate(profile, call) = "raises"
    PROVE  call.verb = "disable"
<1> DEFINE family == Handler(call)
<1> SUFFICES ASSUME call.verb # "disable", family # "none"
             PROVE  Required(family) \subseteq DOMAIN Payload(call)
  BY DEF Translate
<1>1. DOMAIN Payload(call) = PayloadKeys(call.verb) \cap DOMAIN Args(call)
  BY PayloadOf
<1>2. ASSUME NEW defaults, Args(call) = WithDefaults(call.args, defaults)
      PROVE  DOMAIN Args(call) = DOMAIN call.args \cup DOMAIN defaults
  BY <1>2, DefaultsFill
<1>3. CASE call.verb \in Fires \cup {"detect"}
  <2> DEFINE ellipse(n) ==
                [dispersion_ellipse_a_m |-> n, dispersion_ellipse_b_m |-> n]
  <2>1. \E n : Args(call) = WithDefaults(call.args, ellipse(n))
    <3>1. CASE call.verb = "suppress"
      BY <3>1 DEF Args
    <3>2. CASE call.verb # "suppress"
      <4>1. Args(call) = WithDefaults(call.args, ellipse(50))
        BY <1>3, <3>2 DEF Args, Fires
      <4> QED
        BY <4>1
    <3> QED
      BY <3>1, <3>2
  <2>2. DOMAIN call.args \subseteq DOMAIN Args(call)
    BY <1>2, <2>1
  <2>3. Required(family) \subseteq {"range_m"}
    BY <1>3 DEF Handler, DetectFamily, Required, Fires
  <2>4. "range_m" \in PayloadKeys(call.verb)
    BY <1>3 DEF PayloadKeys, Fires
  <2> QED
    BY <1>1, <1>3, <2>2, <2>3, <2>4 DEF NamesArguments
<1>4. CASE call.verb = "jam"
  <2>1. PayloadKeys(call.verb) = {"radius_m", "power_w"} /\ family = "jamming_circle"
    BY <1>4 DEF PayloadKeys, Handler, Fires
  <2>2. Args(call) = WithDefaults(call.args, [radius_m |-> 2000])
    BY <1>4 DEF Args
  <2>3. DOMAIN Args(call) = DOMAIN call.args \cup {"radius_m"}
    BY <1>2, <2>2
  <2> QED
    BY <1>1, <1>4, <2>1, <2>3 DEF NamesArguments, Required
<1>5. CASE call.verb \notin Fires \cup {"detect", "jam"}
  <2>1. family \in {"keyhole_footprint", "uas_corridor"}
    BY <1>5 DEF Handler
  <2> QED
    BY <2>1 DEF Required
<1> QED
  BY <1>3, <1>4, <1>5

\* So an event that the tool had validated is drawn, unless it is a disable's.
THEOREM GatedIsDrawn ==
    ASSUME TemplatesAskFor, NEW profile, AllowsOwnNumbers(profile), NEW call,
           Commits(profile, call), ToolFamily(profile, call) # "none",
           NamesArguments(call), call.verb # "disable"
    PROVE  Translate(profile, call) = "accepted"
<1>1. Translate(profile, call) \notin {"raises", "rejected"}
  BY OnlyDisableRaises, GatedIsNotRejected
<1>2. Handler(call) # "none"
  BY HandlersDiffer
<1> QED
  BY <1>1, <1>2 DEF Translate

-----------------------------------------------------------------------------
(* What the repository ships.                                              *)

ShippedProfile == {HybridIrregular, NearPeer, Peer, UsBct}

\* No shipped profile gives ranges for corridors it does not advertise.
LEMMA ShippedCorridors ==
    \A profile \in ShippedProfile : CorridorsAdvertised(profile)
BY DEF ShippedProfile, HybridIrregular, NearPeer, Peer, UsBct, CorridorsAdvertised

\* The shipped templates ask for what the adapter hands on.
LEMMA ShippedTemplatesAsk ==
    ASSUME TemplateRange = TemplateRanges PROVE TemplatesAskFor
BY DEF TemplatesAskFor, TemplateRanges, ParamKeys

\* The value of the family's parameter is in the range that is given for it.
InRange(ranges, family, param, v) ==
    /\ param \in DOMAIN ranges[family]
    /\ ranges[family][param].min \in Int /\ ranges[family][param].max \in Int
    /\ v \in ranges[family][param].min .. ranges[family][param].max

\* A number in the template's range and, if the profile has one, in its range,
\* is within the bounds.
LEMMA Narrowed ==
    ASSUME NEW profile, NEW family, NEW param, NEW v,
           InRange(TemplateRange, family, param, v),
           param \in DOMAIN profile.ranges[family] =>
              InRange(profile.ranges, family, param, v)
    PROVE  InBounds(profile, family, param, v)
<1> DEFINE t == TemplateRange[family][param]
           p == profile.ranges[family][param]
<1>1. CASE param \notin DOMAIN profile.ranges[family]
  <2>1. Bounds(profile, family, param) = t
    BY <1>1 DEF Bounds
  <2> QED
    BY <2>1 DEF InBounds, InRange
<1>2. CASE param \in DOMAIN profile.ranges[family]
  <2>1. Bounds(profile, family, param) =
           [min |-> AtLeast(t.min, p.min), max |-> AtMost(t.max, p.max)]
    BY <1>2 DEF Bounds
  <2>2. v >= AtLeast(t.min, p.min) /\ v <= AtMost(t.max, p.max)
    BY <1>2 DEF InRange, AtLeast, AtMost
  <2> QED
    BY <2>1, <2>2 DEF InBounds
<1> QED
  BY <1>1, <1>2

\* The shipped profiles allow the numbers the adapter draws with of its own.
LEMMA ShippedOwnNumbers ==
    ASSUME TemplateRange = TemplateRanges
    PROVE  \A profile \in ShippedProfile : AllowsOwnNumbers(profile)
<1>1. ASSUME NEW family \in DOMAIN OwnNumbers \cap DOMAIN HybridIrregular.ranges,
             NEW param \in DOMAIN OwnNumbers[family]
      PROVE  InBounds(HybridIrregular, family, param, OwnNumbers[family][param])
  <2>1. CASE family = "indirect_fire_arc"
    <3>1. InRange(TemplateRange, family, param, OwnNumbers[family][param])
      BY <2>1 DEF OwnNumbers, TemplateRanges, Between, InRange
    <3>2. InRange(HybridIrregular.ranges, family, param, OwnNumbers[family][param])
      BY <2>1 DEF OwnNumbers, HybridIrregular, Fire, Between, InRange
    <3> QED
      BY <3>1, <3>2, Narrowed
  <2> QED
    BY <2>1 DEF OwnNumbers, HybridIrregular
<1>2. ASSUME NEW family \in DOMAIN OwnNumbers \cap DOMAIN NearPeer.ranges,
             NEW param \in DOMAIN OwnNumbers[family]
      PROVE  InBounds(NearPeer, family, param, OwnNumbers[family][param])
  <2>1. CASE family = "indirect_fire_arc"
    <3>1. InRange(TemplateRange, family, param, OwnNumbers[family][param])
      BY <2>1 DEF OwnNumbers, TemplateRanges, Between, InRange
    <3>2. InRange(NearPeer.ranges, family, param, OwnNumbers[family][param])
      BY <2>1 DEF OwnNumbers, NearPeer, Fire, Between, InRange
    <3> QED
      BY <3>1, <3>2, Narrowed
  <2> QED
    BY <2>1 DEF OwnNumbers, NearPeer
<1>3. ASSUME NEW family \in DOMAIN OwnNumbers \cap DOMAIN Peer.ranges,
             NEW param \in DOMAIN OwnNumbers[family]
      PROVE  InBounds(Peer, family, param, OwnNumbers[family][param])
  <2>1. CASE family = "indirect_fire_arc"
    <3>1. InRange(TemplateRange, family, param, OwnNumbers[family][param])
      BY <2>1 DEF OwnNumbers, TemplateRanges, Between, InRange
    <3>2. InRange(Peer.ranges, family, param, OwnNumbers[family][param])
      BY <2>1 DEF OwnNumbers, Peer, Fire, Between, InRange
    <3> QED
      BY <3>1, <3>2, Narrowed
  <2>2. CASE family = "uas_corridor"
    <3>1. CASE param = "width_m"
      <4>1. InRange(TemplateRange, family, param, OwnNumbers[family][param])
        BY <2>2, <3>1 DEF OwnNumbers, TemplateRanges, Between, InRange
      <4>2. param \notin DOMAIN Peer.ranges[family]
        BY <2>2, <3>1 DEF Peer
      <4> QED
        BY <4>1, <4>2, Narrowed
    <3>2. CASE param = "altitude_band_lower_m"
      <4>1. InRange(TemplateRange, family, param, OwnNumbers[family][param])
        BY <2>2, <3>2 DEF OwnNumbers, TemplateRanges, Between, InRange
      <4>2. InRange(Peer.ranges, family, param, OwnNumbers[family][param])
        BY <2>2, <3>2 DEF OwnNumbers, Peer, Between, InRange
      <4> QED
        BY <4>1, <4>2, Narrowed
    <3>3. CASE param = "altitude_band_upper_m"
      <4>1. InRange(TemplateRange, family, param, OwnNumbers[family][param])
        BY <2>2, <3>3 DEF OwnNumbers, TemplateRanges, Between, InRange
      <4>2. InRange(Peer.ranges, family, param, OwnNumbers[family][param])
        BY <2>2, <3>3 DEF OwnNumbers, Peer, Between, InRange
      <4> QED
        BY <4>1, <4>2, Narrowed
    <3> QED
      BY <2>2, <3>1, <3>2, <3>3 DEF OwnNumbers
  <2> QED
    BY <2>1, <2>2 DEF OwnNumbers, Peer
<1>4. ASSUME NEW family \in DOMAIN OwnNumbers \cap DOMAIN UsBct.ranges,
             NEW param \in DOMAIN OwnNumbers[family]
      PROVE  InBounds(UsBct, family, param, OwnNumbers[family][param])
  <2>1. CASE family = "indirect_fire_arc"
    <3>1. InRange(TemplateRange, family, param, OwnNumbers[family][param])
      BY <2>1 DEF OwnNumbers, TemplateRanges, Between, InRange
    <3>2. InRange(UsBct.ranges, family, param, OwnNumbers[family][param])
      BY <2>1 DEF OwnNumbers, UsBct, Fire, Between, InRange
    <3> QED
      BY <3>1, <3>2, Narrowed
  <2>2. CASE family = "keyhole_footprint"
    <3>1. InRange(TemplateRange, family, param, OwnNumbers[family][param])
      BY <2>2 DEF OwnNumbers, TemplateRanges, Between, InRange
    <3>2. InRange(UsBct.ranges, family, param, OwnNumbers[family][param])
      BY <2>2 DEF OwnNumbers, UsBct, Between, InRange
    <3> QED
      BY <3>1, <3>2, Narrowed
  <2> QED
    BY <2>1, <2>2 DEF OwnNumbers, UsBct
<1> QED
  BY <1>1, <1>2, <1>3, <1>4 DEF ShippedProfile, AllowsOwnNumbers

\* Each parameter the shipped templates ask of a family is within the bounds.
LEMMA ValidWithin ==
    ASSUME TemplateRange = TemplateRanges, NEW profile,
           NEW family \in DOMAIN TemplateRanges \cap DOMAIN profile.ranges,
           FAMILY_EMITTING_VERBS[family] \cap profile.verbs # {}, NEW params,
           \A param \in DOMAIN TemplateRanges[family] :
              /\ param \in DOMAIN params
              /\ InBounds(profile, family, param, params[param])
    PROVE  Validate(profile, family, params)
<1>1. DOMAIN TemplateRanges \subseteq DOMAIN FAMILY_EMITTING_VERBS
  BY DEF TemplateRanges, FAMILY_EMITTING_VERBS
<1> QED
  BY <1>1 DEF Validate, InBounds

\* A fire mission within the templates and the profile is valid.
LEMMA FireValid ==
    ASSUME TemplateRange = TemplateRanges, NEW profile,
           "indirect_fire_arc" \in DOMAIN profile.ranges,
           Fires \cap profile.verbs # {}, NEW params,
           \A param \in ParamKeys("indirect_fire_arc") :
              /\ param \in DOMAIN params
              /\ InRange(TemplateRanges, "indirect_fire_arc", param, params[param])
              /\ InRange(profile.ranges, "indirect_fire_arc", param, params[param])
    PROVE  Validate(profile, "indirect_fire_arc", params)
<1> DEFINE arc == "indirect_fire_arc"
<1>1. arc \in DOMAIN TemplateRanges /\ DOMAIN TemplateRanges[arc] = ParamKeys(arc)
  BY DEF TemplateRanges, ParamKeys
<1>2. FAMILY_EMITTING_VERBS[arc] \cap profile.verbs # {}
  BY DEF FAMILY_EMITTING_VERBS
<1>3. ASSUME NEW param \in ParamKeys(arc)
      PROVE  InBounds(profile, arc, param, params[param])
  BY Narrowed
<1> HIDE DEF arc
<1> QED
  BY <1>1, <1>2, <1>3, ValidWithin DEF arc

\* The verbs all shipped profiles have.
LEMMA VerbsOf ==
    \A profile \in ShippedProfile :
        {"detect", "classify", "engage", "assume_posture", "send", "halt",
         "move_to", "report"} \subseteq profile.verbs
BY DEF ShippedProfile, HybridIrregular, NearPeer, Peer, UsBct, Verbs

=============================================================================
