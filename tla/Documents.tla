----------------------------- MODULE Documents -----------------------------
(***************************************************************************)
(* The JSON documents of the program:                                      *)
(*   SourceCode/shared_tools/conversation_store.py  (one file per chat)    *)
(*   SourceCode/shared_tools/project_engine.py      (one index file)       *)
(*                                                                         *)
(* Every command builds its own store object, and so its own lock: the     *)
(* lock keeps no other command out.  A change loads the document, writes   *)
(* the new text into the one temporary file of that document and renames   *)
(* it.  A rename gives the temporary inode to the document, with whoever   *)
(* still has it open.  The chats are those of one project.                 *)
(***************************************************************************)
EXTENDS Integers, FiniteSets

CONSTANTS
  Writer,    \* commands that run at the same time
  Chat,      \* conversation ids
  Index,     \* projects.json
  Entry,     \* messages, or rows of the index
  NoDoc,
  MaxChange  \* bound: changes that are begun

ASSUME DocumentAssumption ==
  Index \notin Chat /\ NoDoc \notin Chat \cup {Index} /\ MaxChange \in Nat

VARIABLES
  doc,        \* the documents
  temp,       \* their temporary files
  writer,     \* what each command is doing
  saved,      \* history: the changes whose call has returned
  clash,      \* history: documents that two changes worked on at a time
  changes     \* history: changes begun so far

documentVars == <<doc, temp, writer, saved, clash, changes>>

Document == Chat \cup {Index}
File == [here : BOOLEAN, whole : BOOLEAN, entries : SUBSET Entry]
NoFile == [here |-> FALSE, whole |-> TRUE, entries |-> {}]
Content(es) == [here |-> TRUE, whole |-> TRUE, entries |-> es]
Torn == [here |-> TRUE, whole |-> FALSE, entries |-> {}]

Saving == {"open", "fill", "rename"}
\* Giving the index its first text.
Making == {"make", "start"}
NoWrite == [at |-> "idle", doc |-> NoDoc, new |-> {}, text |-> {}, inode |-> "temp"]

DocumentInit ==
  /\ doc = [d \in Document |-> NoFile]
  /\ temp = [d \in Document |-> NoFile]
  /\ writer = [t \in Writer |-> NoWrite]
  /\ saved = {}
  /\ clash = {}
  /\ changes = 0

-----------------------------------------------------------------------------

\* Commands whose change of d is under way.
Busy(d) == {t \in Writer : writer[t].doc = d}
Begin(t, d, new, text) ==
  /\ changes < MaxChange /\ changes' = changes + 1
  /\ writer' = [writer EXCEPT ![t] = [at |-> "open", doc |-> d, new |-> new, text |-> text,
                                      inode |-> "temp"]]
  /\ clash' = IF Busy(d) = {} THEN clash ELSE clash \cup {d}

\* ProjectEngine: a command that finds no index writes an empty one in its place, ...
MakeIndex(t) ==
  /\ writer[t] = NoWrite /\ ~doc[Index].here
  /\ writer' = [writer EXCEPT ![t] = [NoWrite EXCEPT !.at = "make", !.doc = Index,
                                                    !.inode = "doc"]]
  /\ clash' = IF Busy(Index) = {} THEN clash ELSE clash \cup {Index}
  /\ UNCHANGED <<doc, temp, saved, changes>>

\* ... which cuts off whatever another command has put there since ...
CutIndex(t) ==
  /\ writer[t].at = "make"
  /\ doc' = [doc EXCEPT ![Index] = Torn]
  /\ writer' = [writer EXCEPT ![t].at = "start"]
  /\ UNCHANGED <<temp, saved, clash, changes>>

\* ... until its text is there.
StartIndex(t) ==
  /\ writer[t].at = "start"
  /\ \E f \in {Content({})} \cup (IF Busy(Index) = {t} THEN {} ELSE {Torn}) :
       doc' = IF writer[t].inode = "doc" THEN [doc EXCEPT ![Index] = f] ELSE doc
  /\ writer' = [writer EXCEPT ![t] = NoWrite]
  /\ UNCHANGED <<temp, saved, clash, changes>>

\* An entry is a new message or row (uuid4).
FreshEntry(e) ==
  /\ \A d \in Document : e \notin doc[d].entries /\ <<d, e>> \notin saved
  /\ \A t \in Writer : e \notin writer[t].new

\* The chats a search for the project finds: a file that does not parse is skipped.
Found == {c \in Chat : doc[c].here /\ doc[c].whole}

\* get_or_create_for_project: nothing is found, so a chat with a new id is saved.
\* Another command that creates one too has its own id.
CreateChat(t, c) ==
  /\ writer[t] = NoWrite /\ Found = {} /\ ~doc[c].here /\ Busy(c) = {}
  /\ writer' = [writer EXCEPT ![t] = [NoWrite EXCEPT !.at = "open", !.doc = c]]
  /\ changes < MaxChange /\ changes' = changes + 1
  /\ clash' = IF \E b \in Chat : ~doc[b].here /\ Busy(b) # {} THEN clash \cup Chat ELSE clash
  /\ UNCHANGED <<doc, temp, saved>>

\* add_message on a chat it found; the chat is loaded again.
AddMessage(t, c, e) ==
  /\ writer[t] = NoWrite /\ FreshEntry(e) /\ doc[c].here /\ doc[c].whole
  /\ Begin(t, c, {e}, doc[c].entries \cup {e})
  /\ UNCHANGED <<doc, temp, saved>>

\* create_project: an index that does not parse is taken for an empty one.
AddProject(t, e) ==
  /\ writer[t] = NoWrite /\ FreshEntry(e) /\ doc[Index].here
  /\ Begin(t, Index, {e}, doc[Index].entries \cup {e})
  /\ UNCHANGED <<doc, temp, saved>>

\* update_project, rename, mark_read, update_summary: the entries stay.
Rewrite(t, d) ==
  /\ writer[t] = NoWrite /\ doc[d].here /\ doc[d].whole
  /\ Begin(t, d, {}, doc[d].entries)
  /\ UNCHANGED <<doc, temp, saved>>

\* delete_project, replace_messages: entries go.
Remove(t, d, e) ==
  /\ writer[t] = NoWrite /\ doc[d].whole /\ e \in doc[d].entries
  /\ Begin(t, d, {}, doc[d].entries \ {e})
  /\ saved' = saved \ {<<d, e>>}
  /\ UNCHANGED <<doc, temp>>

\* delete: the chat's file is unlinked under the store's lock.
DeleteChat(t, c) ==
  /\ writer[t] = NoWrite /\ doc[c].here
  /\ doc' = [doc EXCEPT ![c] = NoFile]
  /\ saved' = {s \in saved : s[1] # c}
  /\ clash' = IF Busy(c) = {} THEN clash ELSE clash \cup {c}
  /\ UNCHANGED <<temp, writer, changes>>

\* Mutant: the document itself is opened.
OpenInPlace(t) ==
  /\ writer[t].at = "open"
  /\ doc' = [doc EXCEPT ![writer[t].doc] = Torn]
  /\ writer' = [writer EXCEPT ![t].at = "fill", ![t].inode = "doc"]
  /\ UNCHANGED <<temp, saved, clash, changes>>

\* write_text opens and truncates the temporary file.
OpenTemp(t) ==
  /\ writer[t].at = "open"
  /\ temp' = [temp EXCEPT ![writer[t].doc] = Torn]
  /\ writer' = [writer EXCEPT ![t].at = "fill"]
  /\ UNCHANGED <<doc, saved, clash, changes>>

\* The text goes where the inode is now.  Of two texts written over each other the
\* longer one shows through.
FillTemp(t) ==
  LET d == writer[t].doc
      alone == \A u \in Busy(d) \ {t} : writer[u].at \notin {"fill", "rename"}
  IN  /\ writer[t].at = "fill"
      /\ \E f \in {Content(writer[t].text)} \cup (IF alone THEN {} ELSE {Torn}) :
           /\ temp' = IF writer[t].inode = "temp" THEN [temp EXCEPT ![d] = f] ELSE temp
           /\ doc' = IF writer[t].inode = "doc" THEN [doc EXCEPT ![d] = f] ELSE doc
      /\ writer' = [writer EXCEPT ![t].at = "rename"]
      /\ UNCHANGED <<saved, clash, changes>>

\* Where the inode of a writer of d is after a rename.
Moved(d) == [u \in Writer |->
  IF writer[u].doc = d /\ writer[u].at \in {"fill", "rename", "start"}
  THEN [writer[u] EXCEPT !.inode = IF @ = "temp" THEN "doc" ELSE "gone"] ELSE writer[u]]

\* replace: the call returns, or raises as the temporary file is gone.
Rename(t) ==
  LET d == writer[t].doc
  IN  /\ writer[t].at = "rename"
      /\ IF temp[d].here
         THEN /\ doc' = [doc EXCEPT ![d] = temp[d]]
              /\ temp' = [temp EXCEPT ![d] = NoFile]
              /\ writer' = [Moved(d) EXCEPT ![t] = NoWrite]
              /\ saved' = saved \cup {<<d, e>> : e \in writer[t].new}
         ELSE writer' = [writer EXCEPT ![t] = NoWrite] /\ UNCHANGED <<doc, temp, saved>>
      /\ UNCHANGED <<clash, changes>>

\* The program dies; the temporary files stay.
CrashWriters ==
  /\ \E t \in Writer : writer[t] # NoWrite
  /\ writer' = [t \in Writer |-> NoWrite]
  /\ UNCHANGED <<doc, temp, saved, clash, changes>>

DocumentNext ==
  \/ \E t \in Writer :
       \/ \E c \in Chat : CreateChat(t, c) \/ DeleteChat(t, c)
       \/ \E e \in Entry : \/ AddProject(t, e)
                           \/ \E c \in Chat : AddMessage(t, c, e)
                           \/ \E d \in Document : Remove(t, d, e)
       \/ \E d \in Document : Rewrite(t, d)
       \/ MakeIndex(t) \/ CutIndex(t) \/ StartIndex(t)
       \/ OpenTemp(t) \/ FillTemp(t) \/ Rename(t)
  \/ CrashWriters

DocumentSpec == DocumentInit /\ [][DocumentNext]_documentVars

-----------------------------------------------------------------------------

DocumentTypeOK ==
  /\ doc \in [Document -> File] /\ temp \in [Document -> File]
  /\ writer \in [Writer -> [at : {"idle"} \cup Making \cup Saving, doc : Document \cup {NoDoc},
                            new : SUBSET Entry, text : SUBSET Entry,
                            inode : {"temp", "doc", "gone"}]]
  /\ saved \subseteq Document \X Entry
  /\ clash \subseteq Document
  /\ changes \in 0..MaxChange

\* What a store has accepted is there: unless two changes of one document overlap,
\* the document parses and holds every message or project whose call returned,
\* also when the program dies inside a write (an index cut off before its first text,
\* which nothing was accepted into, is taken for an empty one); and a project has one chat, unless
\* two commands created it together or a write of its chat collided.
KeptUnlessClash ==
  /\ \A d \in Document \ clash :
       /\ doc[d].whole \/ (d = Index /\ \A e \in Entry : <<d, e>> \notin saved)
       /\ \A e \in Entry : <<d, e>> \in saved => e \in doc[d].entries
  /\ \A a, b \in Chat : doc[a].here /\ doc[b].here /\ a # b => Chat \cap clash # {}
=============================================================================
