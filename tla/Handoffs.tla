------------------------------ MODULE Handoffs ------------------------------
(***************************************************************************)
(* Handoffs to the external advisor: the files of HandoffQueue in          *)
(*   SourceCode/shared_tools/handoff_queue.py                              *)
(* and the pending actions that are routed to it in                        *)
(*   SourceCode/orchestrator/main.py, send_pending_action_to_codex.        *)
(*                                                                         *)
(* Every orchestrator has its own queue and its own engines over the same  *)
(* files, so that their locks keep nobody else out; a clerk is one such    *)
(* thread or process.  The actions are rows of a file that is loaded and   *)
(* saved as a whole; here they are all there from the beginning.           *)
(***************************************************************************)
EXTENDS Integers, FiniteSets

CONSTANTS
  Clerk,     \* threads and processes with an orchestrator
  Handoff,   \* request ids
  Errand,    \* pending actions: reflections and web requests
  NoErrand,  \* a handoff that the user asked for himself
  MaxSlip    \* bound: crashes

ASSUME HandoffAssumption == NoErrand \notin Errand /\ "none" \notin Handoff /\ MaxSlip \in Nat

VARIABLES
  pendingFile, inboxFile, deniedFile,  \* the handoffs that have such a file
  outboxFile,   \* its outbox file: none, the placeholder, or the advisor's answer
  processed,    \* the handoffs with a processed outbox file
  purpose,      \* the action each handoff was created for
  errand,       \* the status of each pending action in the file
  clerk,        \* what each process is doing
  slips         \* history: crashes so far

handoffVars == <<pendingFile, inboxFile, deniedFile, outboxFile, processed, purpose, errand,
                 clerk, slips>>
fileVars == <<pendingFile, inboxFile, deniedFile, outboxFile, processed, purpose>>

Duty == {"idle", "create", "approve", "inbox", "unlink", "check", "template", "deny", "discard",
         "sync", "resync", "take", "mark", "save"}
ErrandStatus == {"open", "routed", "decided"}
AllOpen == [a \in Errand |-> "open"]
NoDuty == [at |-> "idle", of |-> "none", for |-> NoErrand, rows |-> AllOpen]

HandoffInit ==
  /\ pendingFile = {} /\ inboxFile = {} /\ deniedFile = {}
  /\ outboxFile = [h \in Handoff |-> "none"]
  /\ processed = {}
  /\ purpose = [h \in Handoff |-> NoErrand]
  /\ errand = AllOpen
  /\ clerk = [p \in Clerk |-> NoDuty]
  /\ slips = 0

-----------------------------------------------------------------------------

AtDuty(p, at) == clerk[p].at = at
Turns(p, at) == clerk' = [clerk EXCEPT ![p].at = at]
Takes(p, at, h) == clerk' = [clerk EXCEPT ![p] = [NoDuty EXCEPT !.at = at, !.of = h]]
Of(p) == clerk[p].of
\* A routing goes on to mark its action; any other call ends.
Then(p) == IF clerk[p].for = NoErrand THEN clerk' = [clerk EXCEPT ![p] = NoDuty]
                                      ELSE Turns(p, "mark")

\* A request id that was never used (uuid4).
Fresh(h) == /\ h \notin pendingFile \cup inboxFile \cup deniedFile
            /\ \A p \in Clerk : clerk[p].of # h

\* create_pending for the user.
CreateHandoff(p, h) ==
  /\ AtDuty(p, "idle") /\ Fresh(h)
  /\ pendingFile' = pendingFile \cup {h}
  /\ UNCHANGED <<inboxFile, deniedFile, outboxFile, processed, purpose, errand, clerk, slips>>

\* send_pending_action_to_codex: the action is open, and a handoff is created.
RouteErrand(p, a, h) ==
  /\ AtDuty(p, "idle") /\ errand[a] = "open" /\ Fresh(h)
  /\ clerk' = [clerk EXCEPT ![p] = [NoDuty EXCEPT !.at = "create", !.of = h, !.for = a]]
  /\ UNCHANGED <<fileVars, errand, slips>>

\* Mutant: the action is marked without the approval.
CreateRoutedMarks(p) ==
  /\ AtDuty(p, "create") /\ Turns(p, "mark")
  /\ pendingFile' = pendingFile \cup {Of(p)}
  /\ purpose' = [purpose EXCEPT ![Of(p)] = clerk[p].for]
  /\ UNCHANGED <<inboxFile, deniedFile, outboxFile, processed, errand, slips>>

CreateRouted(p) ==
  /\ AtDuty(p, "create") /\ Turns(p, "approve")
  /\ pendingFile' = pendingFile \cup {Of(p)}
  /\ purpose' = [purpose EXCEPT ![Of(p)] = clerk[p].for]
  /\ UNCHANGED <<inboxFile, deniedFile, outboxFile, processed, errand, slips>>

\* approve or deny reads the pending file; what is not pending is refused.
BeginDecide(p, h) ==
  /\ AtDuty(p, "idle") /\ h \in pendingFile
  /\ Takes(p, "inbox", h) \/ Takes(p, "deny", h)
  /\ UNCHANGED <<fileVars, errand, slips>>

\* approve, of a routing.
ReadPending(p) ==
  /\ AtDuty(p, "approve")
  /\ Turns(p, IF Of(p) \in pendingFile THEN "inbox" ELSE "mark")
  /\ UNCHANGED <<fileVars, errand, slips>>

\* approve: the inbox file is written, and the pending file unlinked if it is there.
WriteInbox(p) ==
  /\ AtDuty(p, "inbox") /\ Turns(p, "unlink")
  /\ inboxFile' = inboxFile \cup {Of(p)}
  /\ UNCHANGED <<pendingFile, deniedFile, outboxFile, processed, purpose, errand, slips>>

UnlinkApproved(p) ==
  /\ AtDuty(p, "unlink") /\ Turns(p, "check")
  /\ pendingFile' = pendingFile \ {Of(p)}
  /\ UNCHANGED <<inboxFile, deniedFile, outboxFile, processed, purpose, errand, slips>>

\* The placeholder is written if there is no outbox file.
CheckOutbox(p) ==
  /\ AtDuty(p, "check")
  /\ IF outboxFile[Of(p)] = "none" THEN Turns(p, "template") ELSE Then(p)
  /\ UNCHANGED <<fileVars, errand, slips>>

WriteTemplate(p) ==
  /\ AtDuty(p, "template") /\ Then(p)
  /\ outboxFile' = [outboxFile EXCEPT ![Of(p)] = "placeholder"]
  /\ UNCHANGED <<pendingFile, inboxFile, deniedFile, processed, purpose, errand, slips>>

\* deny: write, then unlink.
WriteDenied(p) ==
  /\ AtDuty(p, "deny") /\ Turns(p, "discard")
  /\ deniedFile' = deniedFile \cup {Of(p)}
  /\ UNCHANGED <<pendingFile, inboxFile, outboxFile, processed, purpose, errand, slips>>

UnlinkDenied(p) ==
  /\ AtDuty(p, "discard") /\ Then(p)
  /\ pendingFile' = pendingFile \ {Of(p)}
  /\ UNCHANGED <<inboxFile, deniedFile, outboxFile, processed, purpose, errand, slips>>

\* sync_outbox_placeholders, for one inbox file: look for a processed file, then
\* at the placeholder.
BeginSync(p, h) ==
  /\ AtDuty(p, "idle") /\ h \in inboxFile
  /\ \/ h \in processed /\ outboxFile[h] # "none" /\ Takes(p, "resync", h)
     \/ h \notin processed /\ Takes(p, "sync", h)
  /\ UNCHANGED <<fileVars, errand, slips>>

SyncMissing(p) ==
  /\ AtDuty(p, "sync")
  /\ IF outboxFile[Of(p)] = "none" THEN Turns(p, "template") ELSE Then(p)
  /\ UNCHANGED <<fileVars, errand, slips>>

SyncStale(p) ==
  /\ AtDuty(p, "resync") /\ Then(p)
  /\ outboxFile' = [outboxFile EXCEPT ![Of(p)] = "none"]
  /\ UNCHANGED <<pendingFile, inboxFile, deniedFile, processed, purpose, errand, slips>>

\* The advisor replaces the placeholder, once.
AdvisorAnswers(h) ==
  /\ outboxFile[h] = "placeholder" /\ h \notin processed
  /\ outboxFile' = [outboxFile EXCEPT ![h] = "answer"]
  /\ UNCHANGED <<pendingFile, inboxFile, deniedFile, processed, purpose, errand, clerk, slips>>

\* The learning engine ingests a complete answer (Learning) and moves the file.
TakeAnswer(p, h) ==
  /\ AtDuty(p, "idle") /\ outboxFile[h] = "answer" /\ Takes(p, "take", h)
  /\ UNCHANGED <<fileVars, errand, slips>>

MoveAnswer(p) ==
  /\ AtDuty(p, "take") /\ Then(p)
  /\ processed' = IF outboxFile[Of(p)] = "none" THEN processed ELSE processed \cup {Of(p)}
  /\ outboxFile' = [outboxFile EXCEPT ![Of(p)] = "none"]
  /\ UNCHANGED <<pendingFile, inboxFile, deniedFile, purpose, errand, slips>>

\* mark_routed or route_to_external loads the actions; one that is decided, or that is
\* not found since another save left a text that cannot be read, is refused, and its
\* handoff stays.
MarkErrand(p) ==
  /\ AtDuty(p, "mark")
  /\ \/ /\ errand[clerk[p].for] = "open"
        /\ clerk' = [clerk EXCEPT ![p].at = "save", ![p].rows = errand]
     \/ clerk' = [clerk EXCEPT ![p] = NoDuty]
  /\ UNCHANGED <<fileVars, errand, slips>>

\* The user ignores or answers the action.
DecideErrand(p, a) ==
  /\ AtDuty(p, "idle") /\ errand[a] = "open"
  /\ clerk' = [clerk EXCEPT ![p] = [NoDuty EXCEPT !.at = "save", !.for = a, !.rows = errand]]
  /\ UNCHANGED <<fileVars, errand, slips>>

\* All actions are saved as they were loaded, but for this one.
SaveErrand(p) ==
  /\ AtDuty(p, "save")
  /\ errand' = [clerk[p].rows EXCEPT ![clerk[p].for] = IF Of(p) = "none" THEN "decided" ELSE "routed"]
  /\ clerk' = [clerk EXCEPT ![p] = NoDuty]
  /\ UNCHANGED <<fileVars, slips>>

\* A process dies, or a call raises.
CrashClerk(p) ==
  /\ clerk[p] # NoDuty /\ slips < MaxSlip
  /\ slips' = slips + 1
  /\ clerk' = [clerk EXCEPT ![p] = NoDuty]
  /\ UNCHANGED <<fileVars, errand>>

ClerkStep(p) ==
  \/ CreateRouted(p) \/ ReadPending(p) \/ WriteInbox(p) \/ UnlinkApproved(p) \/ CheckOutbox(p) \/ WriteTemplate(p)
  \/ WriteDenied(p) \/ UnlinkDenied(p) \/ SyncMissing(p) \/ SyncStale(p) \/ MoveAnswer(p)
  \/ MarkErrand(p) \/ SaveErrand(p)

HandoffNext ==
  \/ \E p \in Clerk :
       \/ \E h \in Handoff : \/ CreateHandoff(p, h) \/ BeginDecide(p, h) \/ BeginSync(p, h)
                             \/ TakeAnswer(p, h)
                             \/ \E a \in Errand : RouteErrand(p, a, h)
       \/ \E a \in Errand : DecideErrand(p, a)
       \/ ClerkStep(p) \/ CrashClerk(p)
  \/ \E h \in Handoff : AdvisorAnswers(h)

HandoffSpec == HandoffInit /\ [][HandoffNext]_handoffVars

-----------------------------------------------------------------------------

HandoffTypeOK ==
  /\ pendingFile \subseteq Handoff /\ inboxFile \subseteq Handoff /\ deniedFile \subseteq Handoff
  /\ outboxFile \in [Handoff -> {"none", "placeholder", "answer"}]
  /\ processed \subseteq Handoff
  /\ purpose \in [Handoff -> Errand \cup {NoErrand}]
  /\ errand \in [Errand -> ErrandStatus]
  /\ clerk \in [Clerk -> [at : Duty, of : Handoff \cup {"none"}, for : Errand \cup {NoErrand},
                          rows : [Errand -> ErrandStatus]]]
  /\ slips \in 0..MaxSlip

\* A handoff that left the pending directory is recorded as approved or denied,
\* whatever process died half-way: a request is never lost (part of KeepsLedger).
NoHandoffLost ==
  [][\A h \in Handoff : h \in pendingFile /\ h \notin pendingFile'
                          => h \in inboxFile' \cup deniedFile']_handoffVars

\* A pending action that is marked as routed has a handoff that the advisor's inbox
\* or a denial records: an action is not closed by a routing that died (part of
\* KeepsLedger).
RoutedHasHandoff ==
  \A a \in Errand : errand[a] = "routed" =>
    \E h \in Handoff : purpose[h] = a /\ h \in inboxFile \cup deniedFile

\* A handoff is filed as long as any directory but the outbox has it.
Filed == pendingFile \cup inboxFile \cup deniedFile
Ledger == INSTANCE HandoffLedger WITH filed <- Filed, approved <- inboxFile, denied <- deniedFile

\* Calls that approve, deny, route and stop in the middle of it, over files of which
\* every step touches one, keep the ledger: no handoff and no decision is ever lost, and
\* an action is not called routed without them, though saves of the actions overwrite
\* each other and a handoff may be approved and denied at once.
KeepsLedger == Ledger!Spec

=============================================================================
