---------------------------- MODULE OfficerVerbs ----------------------------
(***************************************************************************)
(* What an officer tool (agents/tools) asks of a call besides the gate and *)
(* the validator of SpatialEffects: the argument schema of its verb, and   *)
(* the commander's authority.  And what the event it commits tells the     *)
(* white cell: which entity it is aimed at, and with which marks.          *)
(*                                                                         *)
(* A call also has: gives, the kinds of argument it gives ("entity",       *)
(* "coordinate", "polygon", "waypoints", "role", "echelon", "track",       *)
(* "posture", "ends"), target, the entity it is aimed at or NoTarget,      *)
(* delegated, the verbs it hands on, and echelon, whom it turns to.        *)
(***************************************************************************)
EXTENDS SpatialEffects

CONSTANT NoTarget   \* payload.target_entity_id is null or not a key

EchelonRank == [COMPANY |-> 1, BATTALION |-> 2, BRIGADE |-> 3,
                DIVISION |-> 4, WHITE_CELL |-> 5]

ExactlyOne(call, a, b) == (a \in call.gives) # (b \in call.gives)

\* EngageArgs: an entity or a whole coordinate, not both.
EngageArgs(call) == ExactlyOne(call, "entity", "coordinate")
\* SuppressArgs and JamArgs: "polygon" stands for three vertices or more,
\* "line" for fewer; suppress may leave the polygon out, jam may not.
SuppressArgs(call) == "coordinate" \in call.gives /\ "line" \notin call.gives
JamArgs(call) == "polygon" \in call.gives
SendArgs(call) == ExactlyOne(call, "entity", "role")
IssueOrderArgs(call) == ExactlyOne(call, "entity", "echelon")
\* Calls for fires and casualty evacuation must say where.
RequestSupportArgs(call) ==
    call.mode \in {"FIRES", "MEDEVAC"} => "coordinate" \in call.gives
FollowRouteArgs(call) == "waypoints" \in call.gives
MoveToArgs(call) == "coordinate" \in call.gives
\* A track is named by whoever refines or closes it.
ClassifyArgs(call) == "track" \in call.gives
LoseTrackArgs(call) == "track" \in call.gives
AssumePostureArgs(call) == "posture" \in call.gives
\* "ends": the two entities a message is relayed between.
RelayArgs(call) == "ends" \in call.gives
ReportArgs(call) ==
    "echelon" \in call.gives /\ call.echelon \in DOMAIN EchelonRank
\* To whom, and not no verbs.
DelegateArgs(call) == "entity" \in call.gives /\ call.delegated # {}
EscalateArgs(call) ==
    "echelon" \in call.gives /\ call.echelon \in DOMAIN EchelonRank
\* The verbs whose schema requires target_entity_id.
EntityArgs(call) == "entity" \in call.gives

AcceptsArgs(call) ==
    CASE call.verb = "engage" -> EngageArgs(call)
      [] call.verb = "suppress" -> SuppressArgs(call)
      [] call.verb = "jam" -> JamArgs(call)
      [] call.verb = "send" -> SendArgs(call)
      [] call.verb = "issue_order" -> IssueOrderArgs(call)
      [] call.verb = "request_support" -> RequestSupportArgs(call)
      [] call.verb = "follow_route" -> FollowRouteArgs(call)
      [] call.verb = "move_to" -> MoveToArgs(call)
      [] call.verb = "classify" -> ClassifyArgs(call)
      [] call.verb = "lose_track" -> LoseTrackArgs(call)
      [] call.verb = "assume_posture" -> AssumePostureArgs(call)
      [] call.verb = "relay" -> RelayArgs(call)
      [] call.verb = "report" -> ReportArgs(call)
      [] call.verb \in {"detect", "track", "destroy", "disable"} ->
            EntityArgs(call)
      [] call.verb = "delegate" -> DelegateArgs(call)
      [] call.verb = "escalate" -> EscalateArgs(call)
      [] call.verb = "halt" -> TRUE

\* Only verbs of one's own profile can be delegated.
MayDelegate(profile, call) == call.delegated \subseteq profile.verbs

\* A decision is pushed strictly upwards, by a profile with a known echelon.
MayEscalate(profile, call) ==
    /\ "echelon" \in DOMAIN profile
    /\ profile.echelon \in DOMAIN EchelonRank
    /\ EchelonRank[call.echelon] > EchelonRank[profile.echelon]

\* OfficerToolBase._run reaches its commit.
Performs(profile, call) ==
    /\ Commits(profile, call)
    /\ AcceptsArgs(call)
    /\ call.verb = "delegate" => MayDelegate(profile, call)
    /\ call.verb = "escalate" => MayEscalate(profile, call)

-----------------------------------------------------------------------------
\* Mutant of TargetOf: str() of an engagement's missing entity.
TargetOfAsText(call) ==
    IF call.verb = "engage" /\ call.target = NoTarget THEN "None"
    ELSE call.target
\* payload.target_entity_id.
TargetOf(call) ==
    IF call.verb \in {"detect", "track", "engage", "destroy", "disable"}
    THEN call.target
    ELSE NoTarget

\* DestroyTool stamps payload.stake, the others stamp nothing.
Stamps(call) == IF call.verb = "destroy" THEN {"high"} ELSE {}

=============================================================================
