---------------------------- MODULE HandoffLedger ----------------------------
(***************************************************************************)
(* What the handoff queue and the routing of pending actions promise       *)
(* together, without files, processes and crashes: a handoff is filed      *)
(* once, what is decided of it is kept for good (two processes may well    *)
(* decide differently), and the actions never say that one was routed      *)
(* unless a handoff that was filed for it is decided.                      *)
(***************************************************************************)
CONSTANTS Handoff, Errand, NoErrand

VARIABLES
  filed, approved, denied,  \* the handoffs, and those decided in each way
  purpose,                  \* the action each handoff was filed for
  errand                    \* the status of each pending action

vars == <<filed, approved, denied, purpose, errand>>

Init ==
  /\ filed = {} /\ approved = {} /\ denied = {}
  /\ purpose = [h \in Handoff |-> NoErrand]
  /\ errand = [a \in Errand |-> "open"]

File(h, a) ==
  /\ h \notin filed /\ filed' = filed \cup {h}
  /\ purpose' = [purpose EXCEPT ![h] = a]
  /\ UNCHANGED <<approved, denied, errand>>

Decide(h) ==
  /\ h \in filed
  /\ \/ approved' = approved \cup {h} /\ UNCHANGED denied
     \/ denied' = denied \cup {h} /\ UNCHANGED approved
  /\ UNCHANGED <<filed, purpose, errand>>

\* All actions are saved at once; some may fall back to what they were.
Save ==
  /\ errand' \in [Errand -> {"open", "routed", "decided"}]
  /\ \A a \in Errand : errand'[a] = "routed" =>
       \E h \in Handoff : h \in approved \cup denied /\ purpose[h] = a
  /\ UNCHANGED <<filed, approved, denied, purpose>>

Next ==
  \/ \E h \in Handoff : Decide(h) \/ \E a \in Errand \cup {NoErrand} : File(h, a)
  \/ Save

Spec == Init /\ [][Next]_vars
=============================================================================
