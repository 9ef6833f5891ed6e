------------------------------- MODULE Synthesis -------------------------------
(***************************************************************************)
(* From the findings of a foraging run to its report: the second half of   *)
(* run_research_pool (SourceCode/agents_research/deep_researcher.py) with  *)
(* synthesizer.py, translation_chain.py, output_contracts.py and           *)
(* genericity_gate.py of the same directory.                               *)
(*                                                                         *)
(* The report is one text that stage after stage rewrites.  Runs of one    *)
(* project (a forage and a watch on "general") write into one directory,   *)
(* under names with the second in which the synthesis began.               *)
(***************************************************************************)
EXTENDS Integers, FiniteSets

CONSTANTS
  Paper,     \* runs that write a report
  Round,      \* synthesis_validation_cycles
  MaxSecond   \* bound: the clock

ASSUME SynthesisAssumption == Round \in Nat \ {0} /\ MaxSecond \in Nat

VARIABLES
  synth,    \* each run: its stage, its text, the name of its files
  shelf,    \* research_summaries/<second>_research_summary.md
  critique, \* the .critique.md beside it
  second    \* the clock

synthVars == <<synth, shelf, critique, second>>

SynthStage == {"start", "draft", "skeptic", "primitives", "translate", "finish", "gate",
               "write", "critique", "completed", "unavailable", "raised"}

\* The sections of a text: those that only its writer gives (Executive Summary, Key
\* Findings, Next Steps) and those of the contract (Insights, Failure Modes,
\* Differentiation).
Section == {"writers", "contracts"}

\* A text: none, cut off, or not; the sections it has; whether the writer put
\* "## Project Implications" nowhere, inside or first; and whether it shows the
\* translation.  Only a text with all sections is looked at for being cut off.
TextIs == {"none", "cut", "whole"}
Implied == {"no", "inside", "first"}
Text == [is : TextIs, has : SUBSET Section, implied : Implied, chained : BOOLEAN]
NoText == [is |-> "none", has |-> {}, implied |-> "no", chained |-> FALSE]
Written == {t \in Text : t.is # "none" /\ ~t.chained /\ (t.is = "cut" => t.has = Section)}

Valid(text) == text.has = Section

NoReport == [by |-> "nobody", text |-> NoText]

SynthInit ==
  /\ synth = [r \in Paper |-> [at |-> "start", text |-> NoText, cycle |-> 0, named |-> 0,
                                before |-> NoText, chain |-> FALSE]]
  /\ shelf = [n \in 0 .. MaxSecond |-> NoReport]
  /\ critique = [n \in 0 .. MaxSecond |-> "nobody"]
  /\ second = 0

-----------------------------------------------------------------------------

SynthAt(r, l) == synth[r].at = l
Reach(r, l, text) == synth' = [synth EXCEPT ![r].at = l, ![r].text = text]

\* The configuration of the lane, the open questions of earlier reports, the
\* conflicts between agents and the confidence are gathered, and the files named.
BeginSynthesis(r) ==
  /\ SynthAt(r, "start")
  /\ synth' = [synth EXCEPT ![r].at = "draft", ![r].named = second]
  /\ UNCHANGED <<shelf, critique, second>>

\* With draft_critique_revise the loop controller (LoopController) writes and
\* criticises the text, finds no model, or raises for want of the premium lock.
DraftByLoop(r) ==
  /\ SynthAt(r, "draft") /\ synth[r].cycle = 0
  /\ \/ \E text \in Written : Reach(r, "primitives", text)
     \/ \E l \in {"unavailable", "raised"} : Reach(r, l, NoText)
  /\ UNCHANGED <<shelf, critique, second>>

\* synthesize: no model answers for five minutes.
NoModel(r) ==
  /\ SynthAt(r, "draft") /\ synth[r].cycle = 0
  /\ Reach(r, "unavailable", NoText)
  /\ UNCHANGED <<shelf, critique, second>>

\* A cycle of synthesize: the call fails, or its text is kept; a whole one is taken.
DraftText(r) ==
  /\ SynthAt(r, "draft") /\ synth[r].cycle < Round
  /\ \/ synth' = [synth EXCEPT ![r].cycle = @ + 1]
     \/ \E text \in Written :
          IF Valid(text) /\ text.is # "cut" THEN Reach(r, "skeptic", text)
          ELSE synth' = [synth EXCEPT ![r].cycle = @ + 1, ![r].text = text]
  /\ UNCHANGED <<shelf, critique, second>>

\* After the cycles a text that was cut off is asked for once more; the last text
\* is taken, with a note when its sections are not all there.
EndDraft(r) ==
  /\ SynthAt(r, "draft") /\ synth[r].cycle = Round
  /\ IF synth[r].text.is = "none" THEN Reach(r, "unavailable", NoText)
     ELSE \E text \in {synth[r].text}
                \cup (IF synth[r].text.is = "cut" THEN {t \in Written : Valid(t)} ELSE {}) :
            Reach(r, "skeptic", text)
  /\ UNCHANGED <<shelf, critique, second>>

\* run_skeptic_pass: the critic's revision or an editor's takes the place of the
\* text, whatever it looks like, or the text stays.
SkepticPass(r) ==
  /\ SynthAt(r, "skeptic")
  /\ \E text \in Written \cup {synth[r].text} : Reach(r, "primitives", text)
  /\ UNCHANGED <<shelf, critique, second>>

\* The domain primitives are extracted and written, or not.
ExtractPrimitives(r) ==
  /\ SynthAt(r, "primitives")
  /\ Reach(r, "translate", synth[r].text)
  /\ UNCHANGED <<shelf, critique, second>>

\* The block of the translation is appended, if the text has no such section.  If
\* the section comes first, the block takes the place of the whole text; if it is
\* inside, the text stays and the block is lost.
WithChain(text) ==
  CASE text.implied = "no"     -> [text EXCEPT !.chained = TRUE]
    [] text.implied = "inside" -> text
    [] text.implied = "first"  -> [is |-> "whole", has |-> {}, implied |-> "first", chained |-> TRUE]

\* run_translation_chain: four roles, one call each or two, and the strength of the
\* recommendations; it is skipped or raises, and the text stays.
Translate(r) ==
  /\ SynthAt(r, "translate")
  /\ \E chain \in BOOLEAN :
       synth' = [synth EXCEPT ![r].at = "finish", ![r].chain = chain,
                              ![r].before = synth[r].text,
                              ![r].text = IF chain THEN WithChain(synth[r].text) ELSE @]
  /\ UNCHANGED <<shelf, critique, second>>

\* Mutant: the contract is enforced on the translated texts only.
FinishTranslated(r) ==
  /\ SynthAt(r, "finish")
  /\ Reach(r, "gate", [synth[r].text EXCEPT !.has = IF synth[r].chain
                                                    THEN @ \cup {"contracts"} ELSE @])
  /\ UNCHANGED <<shelf, critique, second>>

\* enforce_final_summary_contract, and the footer: the sections of the contract that are
\* missing are added; those of the writer are not.
FinishSummary(r) ==
  /\ SynthAt(r, "finish")
  /\ Reach(r, "gate", [synth[r].text EXCEPT !.has = @ \cup {"contracts"}])
  /\ UNCHANGED <<shelf, critique, second>>

\* The artifacts are rendered from the text and scored; those beside the summary
\* may be rewritten by a model; the summary stays.
GateArtifacts(r) ==
  /\ SynthAt(r, "gate")
  /\ Reach(r, "write", synth[r].text)
  /\ UNCHANGED <<shelf, critique, second>>

\* The summary is written under the name of the beginning, whoever else wrote there.
WriteSummaryFile(r) ==
  /\ SynthAt(r, "write")
  /\ shelf' = [shelf EXCEPT ![synth[r].named] = [by |-> r, text |-> synth[r].text]]
  /\ synth' = [synth EXCEPT ![r].at = "critique"]
  /\ UNCHANGED <<critique, second>>

\* So is the critique; then the models are released, and the run has its report.
WriteCritique(r) ==
  /\ SynthAt(r, "critique")
  /\ critique' = [critique EXCEPT ![synth[r].named] = r]
  /\ synth' = [synth EXCEPT ![r].at = "completed"]
  /\ UNCHANGED <<shelf, second>>

NextSecond ==
  /\ second < MaxSecond
  /\ second' = second + 1
  /\ UNCHANGED <<synth, shelf, critique>>

SynthNext ==
  \/ \E r \in Paper :
       \/ BeginSynthesis(r) \/ DraftByLoop(r) \/ NoModel(r) \/ DraftText(r) \/ EndDraft(r)
       \/ SkepticPass(r) \/ ExtractPrimitives(r) \/ Translate(r) \/ FinishSummary(r)
       \/ GateArtifacts(r) \/ WriteSummaryFile(r) \/ WriteCritique(r)
  \/ NextSecond

SynthSpec == SynthInit /\ [][SynthNext]_synthVars

-----------------------------------------------------------------------------

SynthTypeOK ==
  /\ synth \in [Paper -> [at : SynthStage, text : Text, cycle : 0 .. Round,
                           named : 0 .. MaxSecond, before : Text, chain : BOOLEAN]]
  /\ shelf \in [0 .. MaxSecond -> [by : Paper \cup {"nobody"}, text : Text]]
  /\ critique \in [0 .. MaxSecond -> Paper \cup {"nobody"}]
  /\ second \in 0 .. MaxSecond

Alone(r) == \A q \in Paper \ {r} : SynthAt(q, "start") \/ synth[q].named # synth[r].named

\* A run that completed has a report with every section of the contract, with each
\* section of the text that was accepted from its writer and its critics, and with the
\* translation if there was one: no later stage loses what an earlier one gave.  But a
\* text that begins with "## Project Implications" is lost to the translation, and one
\* that has that section inside keeps its own.  The report and the critique under its
\* name are its own, unless another run began in the same second.
ReportHolds ==
  \A r \in Paper :
    SynthAt(r, "completed") /\ Alone(r) =>
      LET report == shelf[synth[r].named]
      IN /\ report.by = r /\ critique[synth[r].named] = r
         /\ "contracts" \in report.text.has
         /\ ~(synth[r].chain /\ synth[r].before.implied = "first")
              => synth[r].before.has \subseteq report.text.has
         /\ synth[r].chain /\ synth[r].before.implied # "inside" => report.text.chained
=============================================================================
