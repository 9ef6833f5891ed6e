-------------------------- MODULE RequestLifecycle --------------------------
(***************************************************************************)
(* What the store of external requests promises of every request, without  *)
(* its statuses, its transactions or its callers: the request moves        *)
(* forward a bounded number of times, is closed once, keeps the outcome it *)
(* was closed with, keeps the provider's handle it was given, shares that  *)
(* handle with no other request of the provider.  What is recorded about   *)
(* it stands under keys: to move loses nothing of it, a later record may   *)
(* replace what stands under a key, and no key is ever dropped.            *)
(***************************************************************************)
EXTENDS Integers

CONSTANTS
  Request,    \* request identifiers
  ProviderOf, \* the provider a request is addressed to
  Outcome,    \* the ways a request can be closed
  NoOutcome,  \* not closed yet
  Ref,        \* handles a provider gives to a request
  NoRef,      \* no handle yet
  Last        \* the stage of a closed request

VARIABLES
  stage,    \* 0 before the request exists, Last once it is closed
  outcome,
  handle,
  facts     \* what was recorded about the request, by key

vars == <<stage, outcome, handle, facts>>

Init ==
  /\ stage = [r \in Request |-> 0]
  /\ outcome = [r \in Request |-> NoOutcome]
  /\ handle = [r \in Request |-> NoRef]
  /\ \A r \in Request : DOMAIN facts[r] = {}

\* Of one request more is recorded, or something else under the same keys.
Record(r) ==
  /\ facts' = [facts EXCEPT ![r] = facts'[r]]
  /\ DOMAIN facts[r] \subseteq DOMAIN facts'[r]

\* Nobody else at the provider of r has the handle h.
Unused(r, h) ==
  \A q \in Request \ {r} : ProviderOf[q] = ProviderOf[r] => handle[q] # h

\* The request is opened or moves forward; it may get its handle on the way
\* and gets its outcome exactly when it reaches the last stage.  What was recorded stays.
Advance(r) ==
  /\ stage' # stage
  /\ \E n \in stage[r] + 1 .. Last, o \in Outcome \cup {NoOutcome},
        h \in Ref \cup {NoRef} :
      /\ (n = Last) <=> (o # NoOutcome)
      /\ h # handle[r] => handle[r] = NoRef /\ Unused(r, h)
      /\ stage' = [stage EXCEPT ![r] = n]
      /\ outcome' = [outcome EXCEPT ![r] = o]
      /\ handle' = [handle EXCEPT ![r] = h]
      /\ Record(r)
      /\ \A k \in DOMAIN facts[r] : facts'[r][k] = facts[r][k]

\* Something is recorded about an existing request.
Learn(r) ==
  /\ stage[r] > 0
  /\ Record(r)
  /\ UNCHANGED <<stage, outcome, handle>>

Next == \E r \in Request : Advance(r) \/ Learn(r)

Spec == Init /\ [][Next]_vars
=============================================================================
