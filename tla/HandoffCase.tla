---------------------------- MODULE HandoffCase -----------------------------
(* What one simulated handoff case promises.  It is opened and cancelled     *)
(* under the lock of its row, from a state that allows it.  Any other        *)
(* transition was allowed by the state in which it was validated, and may    *)
(* overwrite what the case has become since: only a case with no validated   *)
(* transition on its way stays closed for good.  OrderDesk implements one of *)
(* these for every row of handoff_cases.                                     *)
EXTENDS HandoffLifecycle

VARIABLES
  status,
  validated    \* transitions validated by units of work that have not ended

CaseInit == status = "NOT_REQUIRED" /\ validated = {}

\* A unit of work validates a transition, or ends without writing it.
Validates ==
  UNCHANGED status /\ \A to \in validated' \ validated : MayMove(status, to)
Writes == status' \in validated /\ validated' \subseteq validated
MovesLocked ==
  /\ status' \in { "REQUESTED", "CANCELLED" } /\ MayMove(status, status')
  /\ UNCHANGED validated

CaseNext == Validates \/ Writes \/ MovesLocked
CaseSpec == CaseInit /\ [][CaseNext]_<< status, validated >>
=============================================================================
