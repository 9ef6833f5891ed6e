------------------------------ MODULE Library ------------------------------
(***************************************************************************)
(* The document library: LibraryService of                                 *)
(* SourceCode/shared_tools/library_service.py, and the threads of the      *)
(* orchestrator (SourceCode/orchestrator/main.py) that take in artifacts.  *)
(*                                                                         *)
(* A document is taken in once by its content, and a thread ingests it in  *)
(* stages.  Every orchestrator has a service with a lock of its own, and   *)
(* statements are committed one by one: the lock makes a stage's update    *)
(* one step for the threads of one service, and nothing joins two stages:  *)
(* an error, or the end of the process, which takes its daemon threads     *)
(* with it, stops a thread between any two writes.  (Here a thread may     *)
(* stop alone; those of a process that ends stop one after another.)       *)
(* All documents of this model have the same content.                      *)
(***************************************************************************)
EXTENDS Integers, FiniteSets

CONSTANTS
  Service,   \* services, one of each orchestrator
  Item,      \* item ids
  Ingester,  \* threads, each of which takes in one artifact and ingests it
  Project,   \* projects
  NoItem     \* no item, no project, no service

ASSUME LibraryAssumption == NoItem \notin Item

VARIABLES
  item,      \* rows of library_items
  chunks,    \* library_chunks: the ingest threads whose chunks an item has
  files,     \* content.md and summary.md in the item's directory
  artifacts, \* library__<item>__*.md in the projects
  ingester,  \* the threads
  keeper,    \* the user's update or deletion
  overlap,   \* history: items that two of these worked on at once
  torn       \* items of which a stop or a failed removal left something behind; the
             \* next artifact that is written whole puts that right

libraryVars == <<item, chunks, files, artifacts, ingester, keeper, overlap, torn>>

ItemStatus == {"none", "queued", "extracting", "matching_topic", "chunking", "embedding", "summarizing",
               "ready", "failed", "deleted"}
Kept == {"source", "content", "summary"}
IngestStage == {"idle", "intake", "get", "extract", "markdown", "clear", "embed",
                "summary", "look", "artifact", "ended"}

NoRow(status) == [status |-> status, slug |-> NoItem, by |-> NoItem]
NoIngest == [at |-> "idle", lock |-> NoItem, item |-> NoItem, slug |-> NoItem]
NoKeeper == [at |-> "idle", item |-> NoItem, slug |-> NoItem]

LibraryInit ==
  /\ item = [i \in Item |-> NoRow("none")]
  /\ chunks = [i \in Item |-> {}]
  /\ files = [i \in Item |-> {}]
  /\ artifacts = {}
  /\ ingester = [t \in Ingester |-> NoIngest]
  /\ keeper = NoKeeper
  /\ overlap = {}
  /\ torn = {}

-----------------------------------------------------------------------------

InLibrary(i) == item[i].status \notin {"none", "deleted"}
InStage(t, l) == ingester[t].at = l
IngestTo(t, l) == ingester' = [ingester EXCEPT ![t].at = l]
Leaves(t) == ingester' = [ingester EXCEPT ![t] = [NoIngest EXCEPT !.at = "ended"]]

\* Somebody works on an item; another one begins.
Works(i) == \/ \E t \in Ingester : ingester[t].item = i
            \/ keeper.item = i
Touch(i) == overlap' = IF Works(i) THEN overlap \cup {i} ELSE overlap

\* _set_status: nothing happens when the row is gone.
Mark(i, status) ==
  item' = IF InLibrary(i) THEN [item EXCEPT ![i].status = status] ELSE item

\* ... and the project that the thread has read is written back.
MarkWith(t, status) ==
  LET i == ingester[t].item
  IN  item' = IF InLibrary(i)
              THEN [item EXCEPT ![i].status = status, ![i].slug = ingester[t].slug] ELSE item

\* intake_file of an artifact: under the lock of its service the content is looked
\* up.  A row that is found gets the project; without one an item will be made.
BeginIntake(t, s, g) ==
  /\ InStage(t, "idle")
  /\ \A u \in Ingester : ingester[u].lock # s
  /\ IF \E i \in Item : InLibrary(i)
     THEN \E i \in {j \in Item : InLibrary(j)} :
            /\ item' = [item EXCEPT ![i].slug = g]
            /\ ingester' = [ingester EXCEPT ![t] =
                              [at |-> "get", lock |-> NoItem, item |-> i, slug |-> g]]
            /\ Touch(i)
     ELSE /\ ingester' = [ingester EXCEPT ![t] =
                            [at |-> "intake", lock |-> s, item |-> NoItem, slug |-> g]]
          /\ UNCHANGED <<item, overlap>>
  /\ UNCHANGED <<chunks, files, artifacts, keeper, torn>>

\* The id of a new item is nobody's.
NewId(i) == item[i].status = "none" /\ files[i] = {} /\ ~Works(i)

\* The source is copied, the row is inserted.
EndIntake(t, i) ==
  /\ InStage(t, "intake")
  /\ NewId(i)
  /\ item' = [item EXCEPT ![i] = [status |-> "queued", slug |-> ingester[t].slug,
                                  by |-> ingester[t].lock]]
  /\ files' = [files EXCEPT ![i] = {"source"}]
  /\ ingester' = [ingester EXCEPT ![t].at = "get", ![t].item = i, ![t].lock = NoItem]
  /\ UNCHANGED <<chunks, artifacts, keeper, overlap, torn>>

\* ... or the source is copied at most.
StopIntake(t) ==
  /\ InStage(t, "intake")
  /\ \/ UNCHANGED <<files, torn>>
     \/ \E i \in {j \in Item : NewId(j)} : /\ files' = [files EXCEPT ![i] = {"source"}]
                                           /\ torn' = torn \cup {i}
  /\ Leaves(t)
  /\ UNCHANGED <<item, chunks, artifacts, keeper, overlap>>

\* _ingest_item reads the row, and ends without one or without a source.
GetItem(t) ==
  LET i == ingester[t].item
  IN /\ InStage(t, "get")
     /\ IF InLibrary(i) /\ "source" \in files[i]
        THEN /\ ingester' = [ingester EXCEPT ![t].at = "extract", ![t].slug = item[i].slug]
             /\ Mark(i, "extracting")
        ELSE Leaves(t) /\ Mark(i, "failed")
     /\ UNCHANGED <<chunks, files, artifacts, keeper, overlap, torn>>

\* The text is extracted, unless it is empty; an item without a topic gets the one
\* that matches.
ExtractItem(t) ==
  /\ InStage(t, "extract")
  /\ \/ IngestTo(t, "markdown") /\ (UNCHANGED item \/ Mark(ingester[t].item, "matching_topic"))
     \/ Leaves(t) /\ Mark(ingester[t].item, "failed")
  /\ UNCHANGED <<chunks, files, artifacts, keeper, overlap, torn>>

\* The markdown is written, in a directory that is made anew
\* if need be.
WriteMarkdown(t) ==
  LET i == ingester[t].item
  IN /\ InStage(t, "markdown")
     /\ files' = [files EXCEPT ![i] = @ \cup {"content"}]
     /\ MarkWith(t, "chunking")
     /\ IngestTo(t, "clear")
     /\ UNCHANGED <<chunks, artifacts, keeper, overlap, torn>>

\* Mutant: old chunks are not deleted.
KeepChunks(t) ==
  /\ InStage(t, "clear")
  /\ MarkWith(t, "embedding")
  /\ IngestTo(t, "embed")
  /\ UNCHANGED <<chunks, files, artifacts, keeper, overlap, torn>>

ClearChunks(t) ==
  /\ InStage(t, "clear")
  /\ chunks' = [chunks EXCEPT ![ingester[t].item] = {}]
  /\ MarkWith(t, "embedding")
  /\ IngestTo(t, "embed")
  /\ UNCHANGED <<files, artifacts, keeper, overlap, torn>>

\* The chunks are embedded and inserted; the foreign key refuses them when the row
\* is gone.
InsertChunks(t) ==
  LET i == ingester[t].item
  IN /\ InStage(t, "embed")
     /\ IF InLibrary(i)
        THEN /\ chunks' = [chunks EXCEPT ![i] = @ \cup {t}]
             /\ MarkWith(t, "summarizing")
             /\ IngestTo(t, "summary")
        ELSE Leaves(t) /\ UNCHANGED <<chunks, item>>
     /\ UNCHANGED <<files, artifacts, keeper, overlap, torn>>

\* The summary of the model, or the first chunks, is written; the item is ready.
WriteSummary(t) ==
  LET i == ingester[t].item
  IN /\ InStage(t, "summary")
     /\ files' = [files EXCEPT ![i] = @ \cup {"summary"}]
     /\ MarkWith(t, "ready")
     /\ IngestTo(t, "look")
     /\ UNCHANGED <<chunks, artifacts, keeper, overlap, torn>>

\* The row is read again ...
LookAgain(t) ==
  LET i == ingester[t].item
  IN /\ InStage(t, "look")
     /\ IF InLibrary(i)
        THEN ingester' = [ingester EXCEPT ![t].at = "artifact", ![t].slug = item[i].slug]
        ELSE Leaves(t)
     /\ UNCHANGED <<item, chunks, files, artifacts, keeper, overlap, torn>>

ArtifactsOf(i) == {a \in artifacts : a[1] = i}

\* _remove_project_summary_artifacts: a file that cannot be removed is passed over.
RemoveArtifacts(i, gone) ==
  \E left \in SUBSET gone :
    /\ artifacts' = (artifacts \ gone) \cup left
    /\ torn' = IF left = {} THEN torn ELSE torn \cup {i}

\* _write_project_summary_artifact replaces the artifacts of all projects.
PutArtifact(i, g) ==
  IF "summary" \in files[i]
  THEN \E left \in SUBSET ArtifactsOf(i) :
         /\ artifacts' = (artifacts \ ArtifactsOf(i)) \cup left \cup {<<i, g>>}
         /\ torn' = IF left \subseteq {<<i, g>>} THEN torn \ {i} ELSE torn \cup {i}
  ELSE UNCHANGED <<artifacts, torn>>

WriteArtifact(t) ==
  /\ InStage(t, "artifact")
  /\ PutArtifact(ingester[t].item, ingester[t].slug)
  /\ Leaves(t)
  /\ UNCHANGED <<item, chunks, files, keeper, overlap>>

\* What a stage wrote before it stopped, its last write excepted.
HalfDone(t) ==
  LET i == ingester[t].item
  IN \/ UNCHANGED <<chunks, files, artifacts>>
     \/ /\ InStage(t, "markdown") /\ files' = [files EXCEPT ![i] = @ \cup {"content"}]
        /\ UNCHANGED <<chunks, artifacts>>
     \/ /\ InStage(t, "clear") /\ chunks' = [chunks EXCEPT ![i] = {}]
        /\ UNCHANGED <<files, artifacts>>
     \/ /\ InStage(t, "embed") /\ InLibrary(i) /\ chunks' = [chunks EXCEPT ![i] = @ \cup {t}]
        /\ UNCHANGED <<files, artifacts>>
     \/ /\ InStage(t, "summary") /\ files' = [files EXCEPT ![i] = @ \cup {"summary"}]
        /\ UNCHANGED <<chunks, artifacts>>
     \/ /\ InStage(t, "artifact") /\ \E gone \in SUBSET ArtifactsOf(i) : artifacts' = artifacts \ gone
        /\ UNCHANGED <<chunks, files>>

\* An ingest stops: an exception marks the item, the end of the process (or an
\* exception before the try of _ingest_item) marks nothing.
StopIngest(t) ==
  LET i == ingester[t].item
  IN /\ ~InStage(t, "idle") /\ ~InStage(t, "intake") /\ ~InStage(t, "ended")
     /\ HalfDone(t)
     /\ \/ Mark(i, "failed") /\ UNCHANGED torn
        \/ UNCHANGED item /\ torn' = torn \cup {i}
     /\ Leaves(t)
     /\ UNCHANGED <<keeper, overlap>>

-----------------------------------------------------------------------------

\* update_item: the row gets another project ...
BeginUpdate(i, g) ==
  /\ keeper.at = "idle" /\ InLibrary(i)
  /\ keeper' = [at |-> "update", item |-> i, slug |-> item[i].slug]
  /\ item' = [item EXCEPT ![i].slug = g]
  /\ Touch(i)
  /\ UNCHANGED <<chunks, files, artifacts, ingester, torn>>

\* ... and the artifact moves from the former project, if the item is ready.
EndUpdate ==
  LET i == keeper.item
  IN /\ keeper.at = "update"
     /\ IF item[i].status = "ready" /\ "summary" \in files[i] THEN PutArtifact(i, item[i].slug)
        ELSE RemoveArtifacts(i, artifacts \cap {<<i, keeper.slug>>})
     /\ keeper' = NoKeeper
     /\ UNCHANGED <<item, chunks, files, ingester, overlap>>

\* delete_item: the artifact in the item's project, ...
BeginDelete(i) ==
  /\ keeper.at = "idle" /\ InLibrary(i)
  /\ keeper' = [NoKeeper EXCEPT !.at = "rows", !.item = i]
  /\ RemoveArtifacts(i, artifacts \cap {<<i, item[i].slug>>})
  /\ Touch(i)
  /\ UNCHANGED <<item, chunks, files, ingester>>

\* ... the chunks and the row, ...
DeleteRows ==
  LET i == keeper.item
  IN /\ keeper.at = "rows"
     /\ item' = [item EXCEPT ![i] = NoRow("deleted")]
     /\ chunks' = [chunks EXCEPT ![i] = {}]
     /\ keeper' = [keeper EXCEPT !.at = "tree"]
     /\ UNCHANGED <<files, artifacts, ingester, overlap, torn>>

\* ... and the directory, if it can be removed (of its files some or all may stay).
DeleteTree ==
  LET i == keeper.item
  IN /\ keeper.at = "tree"
     /\ \E left \in SUBSET files[i] :
          /\ files' = [files EXCEPT ![i] = left]
          /\ torn' = IF left = {} THEN torn ELSE torn \cup {i}
     /\ keeper' = NoKeeper
     /\ UNCHANGED <<item, chunks, artifacts, ingester, overlap>>

\* The process of the user's call ends, or its work on the artifacts raises.
StopKeeper ==
  /\ keeper.at # "idle"
  /\ \/ UNCHANGED artifacts
     \/ keeper.at = "update" /\ \E gone \in SUBSET ArtifactsOf(keeper.item) : artifacts' = artifacts \ gone
  /\ torn' = torn \cup {keeper.item}
  /\ keeper' = NoKeeper
  /\ UNCHANGED <<item, chunks, files, ingester, overlap>>

IngestStep(t) ==
  \/ \E i \in Item : EndIntake(t, i)
  \/ GetItem(t) \/ ExtractItem(t) \/ WriteMarkdown(t) \/ ClearChunks(t) \/ InsertChunks(t)
  \/ WriteSummary(t) \/ LookAgain(t) \/ WriteArtifact(t) \/ StopIntake(t) \/ StopIngest(t)

LibraryNext ==
  \/ \E t \in Ingester :
       \/ \E s \in Service, g \in Project : BeginIntake(t, s, g)
       \/ IngestStep(t)
  \/ \E i \in Item : BeginDelete(i) \/ \E g \in Project : BeginUpdate(i, g)
  \/ EndUpdate \/ DeleteRows \/ DeleteTree \/ StopKeeper

LibrarySpec == LibraryInit /\ [][LibraryNext]_libraryVars

-----------------------------------------------------------------------------

LibraryTypeOK ==
  /\ item \in [Item -> [status : ItemStatus, slug : Project \cup {NoItem},
                         by : Service \cup {NoItem}]]
  /\ chunks \in [Item -> SUBSET Ingester]
  /\ files \in [Item -> SUBSET Kept]
  /\ artifacts \subseteq Item \X (Project \cup {NoItem})
  /\ ingester \in [Ingester -> [at : IngestStage, lock : Service \cup {NoItem},
                                item : Item \cup {NoItem}, slug : Project \cup {NoItem}]]
  /\ keeper \in [at : {"idle", "update", "rows", "tree"}, item : Item \cup {NoItem},
                 slug : Project \cup {NoItem}]
  /\ overlap \subseteq Item /\ torn \subseteq Item

\* An item has its text, its summary and the chunks of one ingest.
WholeItem(i) == files[i] = Kept /\ Cardinality(chunks[i]) = 1

\* What the library offers is consistent, though stages are committed one by one and
\* stop between any two writes: unless two ingests, or an ingest and the user, worked
\* on it at once, a ready item is whole, whatever stopped; unless a stop or a failed
\* removal left something behind since, its summary is an artifact of its own project
\* and of no other, and a deleted item keeps no file.  No chunk is ever without its
\* row, and content is stored twice only by two services.
LibraryConsistent ==
  /\ \A i \in Item \ overlap : ~Works(i) =>
       /\ item[i].status = "ready" => WholeItem(i)
       /\ item[i].status = "ready" /\ i \notin torn => ArtifactsOf(i) = {<<i, item[i].slug>>}
       /\ ~InLibrary(i) /\ i \notin torn => files[i] = {}
  /\ \A i \in Item : chunks[i] # {} => InLibrary(i)
  /\ \A i, j \in Item : InLibrary(i) /\ InLibrary(j) /\ i # j => item[i].by # item[j].by
=============================================================================
