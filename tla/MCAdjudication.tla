--------------------------- MODULE MCAdjudication ---------------------------
(***************************************************************************)
(* Adjudication for TLC: near-peer officers and their calls, among them    *)
(* one that each schema or authority rule refuses.                         *)
(***************************************************************************)
EXTENDS Adjudication, ShippedProfiles, TLC

CONSTANTS e1, e2

Officer == NearPeer @@ [echelon |-> "BATTALION"]
Officers == {Officer}

TheCall(verb, mode, args, gives, target) ==
    [verb |-> verb, mode |-> mode, args |-> args, gives |-> gives,
     target |-> target, delegated |-> {"move_to"}, echelon |-> "BRIGADE"]
Shot == Fire(1000, 50, 10)
Quiet(verb, gives) == TheCall(verb, "-", <<>>, gives, NoTarget)

MCCall ==
    {TheCall("engage", "-", Shot, {"entity"}, e) : e \in Entity}
    \cup {TheCall("destroy", "-", Shot, {"entity"}, e1),
          TheCall("disable", "CYBER", <<>>, {"entity"}, e2),
          TheCall("engage", "-", Shot, {"coordinate"}, NoTarget),
          TheCall("engage", "-", Shot, {"entity", "coordinate"}, e1),
          TheCall("jam", "-", [power_w |-> 50, radius_m |-> 2000], {"line"},
                  NoTarget),
          Quiet("send", {"role"}), Quiet("send", {}),
          Quiet("issue_order", {"entity", "echelon"}),
          TheCall("request_support", "FIRES", <<>>, {}, NoTarget),
          Quiet("follow_route", {}), Quiet("move_to", {}),
          Quiet("classify", {}), Quiet("lose_track", {}), Quiet("report", {}),
          Quiet("assume_posture", {}), Quiet("relay", {}), Quiet("halt", {}),
          Quiet("delegate", {}), Quiet("delegate", {"entity"}),
          [Quiet("delegate", {"entity"}) EXCEPT !.delegated = {"adjudicate"}],
          Quiet("escalate", {}), Quiet("escalate", {"echelon"}),
          [Quiet("escalate", {"echelon"}) EXCEPT !.echelon = "COMPANY"]}

=============================================================================
