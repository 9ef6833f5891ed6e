---------------------------- MODULE PremiumLease ----------------------------
(***************************************************************************)
(* What the lock of the premium models promises to its users, without its  *)
(* file, its models and its clock: it is taken when it is free, when the   *)
(* lease it was taken with has grown stale, or again by its holder; and a  *)
(* holder that gives its lease back frees the lock, unless it was taken    *)
(* over from him.  Only a torn file frees it otherwise.                    *)
(*                                                                         *)
(* PremiumModelLock implements this, and LoopController takes and returns  *)
(* its leases as this allows: what one provides is what the other uses.    *)
(***************************************************************************)
CONSTANTS Holder, NoHolder

VARIABLES
  holder,  \* whom the lock is recorded for
  stale,   \* the record is older than its time to live
  leased,  \* the holders that have not given their lease back
  torn     \* history: the record was lost

vars == <<holder, stale, leased, torn>>

Init == holder = NoHolder /\ stale = FALSE /\ leased = {} /\ torn = FALSE

Take(h) ==
  /\ holder = NoHolder \/ stale \/ holder = h
  /\ holder' = h /\ stale' = FALSE
  /\ leased' = leased \cup {h}
  /\ UNCHANGED torn

GiveBack(h) ==
  /\ h \in leased /\ leased' = leased \ {h}
  /\ IF holder = h THEN holder' = NoHolder /\ stale' = FALSE ELSE UNCHANGED <<holder, stale>>
  /\ UNCHANGED torn

GrowStale == holder # NoHolder /\ ~stale /\ stale' = TRUE /\ UNCHANGED <<holder, leased, torn>>

Tear == holder' = NoHolder /\ stale' = FALSE /\ torn' = TRUE /\ UNCHANGED leased

Next == (\E h \in Holder : Take(h) \/ GiveBack(h)) \/ GrowStale \/ Tear

Spec == Init /\ [][Next]_vars
=============================================================================
