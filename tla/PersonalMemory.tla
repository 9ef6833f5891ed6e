--------------------------- MODULE PersonalMemory ---------------------------
(***************************************************************************)
(* What is remembered of the user: SourceCode/shared_tools/                *)
(* personal_memory.py and personal_memory_records.py, with the commands of *)
(* SourceCode/orchestrator/main.py.                                        *)
(*                                                                         *)
(* One record for each category, subject and field; the snapshot that      *)
(* load returns is worked out from the records that are not forgotten.  A  *)
(* turn reads the snapshot, fills in what its text and the last messages   *)
(* of the history say, and saves the whole of it as captured in chat: two  *)
(* calls, each under the lock, with other turns and commands between them. *)
(***************************************************************************)
EXTENDS Integers

CONSTANTS
  Field,    \* record keys
  Detail,   \* those of family and pets, where a longer text is preferred
  MaxText,  \* bound: the texts of a field, by their length; 0 is none
  Speaker   \* threads: a turn or a command each

ASSUME MemoryAssumption == Detail \subseteq Field /\ MaxText \in Nat \ {0}

VARIABLES
  record,   \* memory_records.json
  told,     \* the texts in the history of the conversation
  speaker,  \* what each thread is doing
  word,     \* history: the text the user has confirmed, or 0
  dropped   \* history: fields the user has forgotten and not spoken of since

personalVars == <<record, told, speaker, word, dropped>>

FieldText == 0 .. MaxText
RecordStatus == {"none", "forgotten", "captured", "confirmed", "pinned"}
Snapshot == [Field -> FieldText]
Blank == [f \in Field |-> 0]
NoSpeech == [at |-> "idle", data |-> Blank, fields |-> {}]

Active(f) == record[f].status \in {"captured", "confirmed", "pinned"}
Recalled == [f \in Field |-> IF Active(f) THEN record[f].text ELSE 0]

\* Without records, those of the snapshot of an earlier version count as
\* confirmed (ensure_records).
PersonalInit ==
  /\ \E old \in Snapshot :
       /\ record = [f \in Field |-> [status |-> IF old[f] = 0 THEN "none" ELSE "confirmed",
                                     text |-> old[f]]]
       /\ word = old
  /\ told = {}
  /\ speaker = [s \in Speaker |-> NoSpeech]
  /\ dropped = {}

-----------------------------------------------------------------------------

\* capture_from_text takes a text for a field that is blank, and for a detail
\* also a longer one.
Captures(f, text) ==
  \/ Recalled[f] = 0
  \/ f \in Detail /\ text > Recalled[f]

\* A turn: its message, or one of the history, says something of a field.
CaptureText(s, f, text, new) ==
  /\ speaker[s].at = "idle"
  /\ new \/ <<f, text>> \in told
  /\ told' = told \cup {<<f, text>>}
  /\ dropped' = IF new THEN dropped \ {f} ELSE dropped
  /\ speaker' = IF Captures(f, text)
                THEN [speaker EXCEPT ![s] = [at |-> "save", fields |-> {},
                                             data |-> [Recalled EXCEPT ![f] = text]]]
                ELSE speaker
  /\ UNCHANGED <<record, word>>

\* Mutant: another text always takes the place of the old one.
OverridesText(row, text) == row.status \in {"none", "forgotten"} \/ row.text # text

\* _incoming_should_override for a row captured in chat: of the same or another
\* text, it is over a forgotten record only, never over a captured, confirmed or
\* pinned one, whose confidence is too high.
Overrides(row, text) == row.status \in {"none", "forgotten"}

\* save as captured: what the snapshot does not have stays (no category is
\* authoritative), the rest is merged row by row.
SaveCapture(s) ==
  /\ speaker[s].at = "save"
  /\ LET data == speaker[s].data
     IN record' = [f \in Field |->
                     IF data[f] # 0 /\ Overrides(record[f], data[f])
                     THEN [status |-> "captured", text |-> data[f]] ELSE record[f]]
  /\ speaker' = [speaker EXCEPT ![s] = NoSpeech]
  /\ UNCHANGED <<told, word, dropped>>

\* "forget ..." and "pin ...": the records that match and are not forgotten are
\* looked for first.
MatchRecords(s, command, fields) ==
  /\ speaker[s].at = "idle"
  /\ fields # {} /\ \A f \in fields : Active(f)
  /\ speaker' = [speaker EXCEPT ![s] = [at |-> command, data |-> Blank, fields |-> fields]]
  /\ UNCHANGED <<record, told, word, dropped>>

\* update_record_status of one record after the other, whatever it is by then.
MarkRecord(s, f) ==
  LET pinned == speaker[s].at = "pin"
      left == speaker[s].fields \ {f}
  IN /\ speaker[s].at \in {"forget", "pin"}
     /\ f \in speaker[s].fields
     /\ record' = [record EXCEPT ![f].status = IF pinned THEN "pinned" ELSE "forgotten"]
     /\ word' = [word EXCEPT ![f] = IF pinned THEN record[f].text ELSE 0]
     /\ dropped' = IF pinned THEN dropped \ {f} ELSE dropped \cup {f}
     /\ speaker' = [speaker EXCEPT ![s] = IF left = {} THEN NoSpeech
                                          ELSE [@ EXCEPT !.fields = left]]
     /\ UNCHANGED told

PersonalNext ==
  \E s \in Speaker :
       \/ \E f \in Field, text \in FieldText \ {0}, new \in BOOLEAN : CaptureText(s, f, text, new)
       \/ SaveCapture(s)
       \/ \E command \in {"forget", "pin"}, fields \in SUBSET Field :
            MatchRecords(s, command, fields)
       \/ \E f \in Field : MarkRecord(s, f)

PersonalSpec == PersonalInit /\ [][PersonalNext]_personalVars

-----------------------------------------------------------------------------

PersonalTypeOK ==
  /\ record \in [Field -> [status : RecordStatus, text : FieldText]]
  /\ told \subseteq Field \X FieldText
  /\ speaker \in [Speaker -> [at : {"idle", "save", "forget", "pin"}, data : Snapshot,
                              fields : SUBSET Field]]
  /\ word \in Snapshot
  /\ dropped \subseteq Field

\* What the user has confirmed or pinned is what is recalled, until he takes it
\* back: no turn that has read the snapshot before puts its own text, or an
\* older one, over it.
ConfirmedStands == \A f \in Field : word[f] # 0 => Active(f) /\ record[f].text = word[f]

\* What the user has forgotten is not recalled before he speaks of it again.
\* (docs/phase_1_4_acceptance_checklist.md: the user must be able to forget
\* durable memory.)
ForgottenStaysOut == \A f \in dropped : ~Active(f)
=============================================================================
