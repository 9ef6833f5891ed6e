---------------------------- MODULE TopicMemory ----------------------------
(***************************************************************************)
(* The topic memory, SourceCode/shared_tools/topic_memory.py: claims that  *)
(* web research finds become facts of a topic, sure ones at once, others   *)
(* when the user says yes to a review.  A topic, the index of topics and   *)
(* the reviews are files of their own, each written whole, and one lock    *)
(* guards a call; the process may stop between two files.  Two claims that *)
(* _token_overlap or the embedding finds alike are one claim here.         *)
(***************************************************************************)
EXTENDS Integers, FiniteSets

CONSTANTS
  Topic,
  Claim,     \* claims that differ
  ReviewId,  \* bound: review ids
  Extractor  \* threads that have done a web research

ASSUME TopicAssumption == Topic # {} /\ Claim # {}

VARIABLES
  fact,      \* topics/<key>.json: the facts
  indexed,   \* topic_index.json: the topics with a canon_count
  review,    \* topic_reviews.json
  saving,    \* what the holder of the lock has still to write
  extractor, \* the claim a thread has merged and not asked about
  lost       \* history: topics whose call a crash has cut short

memoryVars == <<fact, indexed, review, saving, extractor, lost>>

\* Confidences from 0.60 up: below 0.80, a little more, and _CONF_AUTO_CANON.
Confidence == 1 .. 3
Sure == 3

FactRow == [status : {"none", "flagged", "canon", "rejected"}, confidence : 0 .. 3]
ReviewRow == [status : {"none", "pending", "accepted", "rejected"}, topic : Topic, claim : Claim]
Unlocked == [file |-> "none"]

MemoryInit ==
  /\ fact = [g \in Topic |-> [c \in Claim |-> [status |-> "none", confidence |-> 0]]]
  /\ indexed = {}
  /\ review = [r \in ReviewId |-> [status |-> "none", topic |-> CHOOSE g \in Topic : TRUE,
                                   claim |-> CHOOSE c \in Claim : TRUE]]
  /\ saving = Unlocked
  /\ extractor = [t \in Extractor |-> {}]
  /\ lost = {}

\* merge_fact: a fact heard before takes the confidence and may become canon
\* when the new claim is surer than the old one; the verdict of the user is not
\* asked for.
Heard(row, confidence) ==
  IF confidence <= row.confidence THEN row
  ELSE [status |-> IF confidence = Sure THEN "canon"
                   ELSE IF row.status = "none" THEN "flagged" ELSE row.status,
        confidence |-> confidence]

\* Topics with a canon fact: the canon_count that _update_index works out.
Canon(facts) == {g \in Topic : \E c \in Claim : facts[g][c].status = "canon"}

\* extract_and_merge_from_research: the claim is merged, the topic written; what
\* is left is the index, and then a review unless the claim is sure.
MergeFact(t, g, c, confidence) ==
  /\ extractor[t] = {}
  /\ saving = Unlocked
  /\ fact' = [fact EXCEPT ![g][c] = Heard(@, confidence)]
  /\ saving' = IF fact' = fact THEN Unlocked ELSE [file |-> "index", topic |-> g]
  /\ extractor' = [extractor EXCEPT ![t] = IF confidence = Sure THEN {} ELSE {<<g, c>>}]
  /\ UNCHANGED <<indexed, review, lost>>

\* _update_index, the last write of each call that saves a topic.
UpdateIndex ==
  /\ saving.file = "index"
  /\ indexed' = IF saving.topic \in Canon(fact) THEN indexed \cup {saving.topic}
              ELSE indexed \ {saving.topic}
  /\ saving' = Unlocked
  /\ UNCHANGED <<fact, review, extractor, lost>>

\* create_pending_review, under the lock again.
CreateReview(t, r) ==
  /\ saving = Unlocked
  /\ review[r].status = "none"
  /\ \E q \in extractor[t] :
       review' = [review EXCEPT ![r] = [status |-> "pending", topic |-> q[1], claim |-> q[2]]]
  /\ extractor' = [extractor EXCEPT ![t] = {}]
  /\ UNCHANGED <<fact, indexed, saving, lost>>

\* answer_review: the review is written first, whatever its status was.
AnswerReview(r, accepted) ==
  /\ saving = Unlocked
  /\ review[r].status # "none"
  /\ review' = [review EXCEPT ![r].status = IF accepted THEN "accepted" ELSE "rejected"]
  /\ saving' = [file |-> "topic", topic |-> review[r].topic, claim |-> review[r].claim,
                status |-> IF accepted THEN "canon" ELSE "rejected"]
  /\ UNCHANGED <<fact, indexed, extractor, lost>>

\* Mutant: the topic is written without its index entry.
VerdictAlone ==
  /\ saving.file = "topic"
  /\ fact' = [fact EXCEPT ![saving.topic][saving.claim].status = saving.status]
  /\ saving' = Unlocked
  /\ UNCHANGED <<indexed, review, extractor, lost>>

\* ... then the topic with the verdict.
WriteVerdict ==
  /\ saving.file = "topic"
  /\ fact' = [fact EXCEPT ![saving.topic][saving.claim].status = saving.status]
  /\ saving' = [file |-> "index", topic |-> saving.topic]
  /\ UNCHANGED <<indexed, review, extractor, lost>>

\* The process stops and starts again; the files stay as they are.
CrashMemory ==
  /\ lost' = lost \cup (IF saving = Unlocked THEN {} ELSE {saving.topic})
                  \cup {q[1] : q \in UNION {extractor[t] : t \in Extractor}}
  /\ saving' = Unlocked
  /\ extractor' = [t \in Extractor |-> {}]
  /\ UNCHANGED <<fact, indexed, review>>

MemoryNext ==
  \/ \E t \in Extractor :
       \/ \E g \in Topic, c \in Claim, n \in Confidence : MergeFact(t, g, c, n)
       \/ \E r \in ReviewId : CreateReview(t, r)
  \/ \E r \in ReviewId, b \in BOOLEAN : AnswerReview(r, b)
  \/ UpdateIndex \/ WriteVerdict \/ CrashMemory

MemorySpec == MemoryInit /\ [][MemoryNext]_memoryVars

-----------------------------------------------------------------------------

MemoryTypeOK ==
  /\ fact \in [Topic -> [Claim -> FactRow]]
  /\ indexed \subseteq Topic /\ lost \subseteq Topic
  /\ review \in [ReviewId -> ReviewRow]
  /\ saving.file \in {"none", "topic", "index"}
  /\ \A t \in Extractor : Cardinality(extractor[t]) <= 1

\* get_context_for_query skips a topic whose index entry counts no canon facts,
\* and a fact that needs the user's word is only asked for by its review.  Two
\* files have to agree for each: no canon fact is out of the reader's sight and
\* no flagged one out of the user's, whichever threads merge and answer, but for
\* the topic whose files a crash has left apart.
FactsReachReader ==
  saving = Unlocked =>
    \A g \in Topic \ lost :
      /\ g \in indexed <=> g \in Canon(fact)
      /\ \A c \in Claim : fact[g][c].status = "flagged" =>
           \/ \E r \in ReviewId : /\ review[r].status # "none"
                                /\ review[r].topic = g /\ review[r].claim = c
           \/ \E t \in Extractor : <<g, c>> \in extractor[t]
=============================================================================
