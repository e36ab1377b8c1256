-------------------------- MODULE HandoffLifecycle --------------------------
(* The states of a simulated handoff case and the transitions HandoffService *)
(* validates (services/handoff_service.py).                                  *)

Active == { "REQUESTED", "PENDING", "SIMULATED_AGENT_ASSIGNED",
            "SIMULATED_AGENT_CONNECTED" }
Terminal == { "RESOLVED", "FAILED", "CANCELLED" }
HandoffStatus == { "NOT_REQUIRED" } \union Active \union Terminal

ALLOWED_TRANSITIONS ==
  [ s \in HandoffStatus |->
      CASE s = "NOT_REQUIRED" -> { "REQUESTED" }
        [] s = "REQUESTED" -> { "PENDING", "FAILED", "CANCELLED" }
        [] s = "PENDING" -> { "SIMULATED_AGENT_ASSIGNED", "FAILED", "CANCELLED" }
        [] s = "SIMULATED_AGENT_ASSIGNED" ->
             { "SIMULATED_AGENT_CONNECTED", "FAILED", "CANCELLED" }
        [] s = "SIMULATED_AGENT_CONNECTED" -> { "RESOLVED", "FAILED", "CANCELLED" }
        [] OTHER -> {} ]

MayMove(from, to) == to \in ALLOWED_TRANSITIONS[from]
=============================================================================
