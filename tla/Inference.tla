----------------------------- MODULE Inference -----------------------------
(***************************************************************************)
(* Which backend answers a model call:                                     *)
(*   SourceCode/shared_tools/inference_router.py                           *)
(*   SourceCode/shared_tools/ollama_client.py, llamacpp_client.py          *)
(*                                                                         *)
(* A model may be mapped to a llama.cpp server; any model can be asked of  *)
(* Ollama.  What a server declares, and that it is left alone after a      *)
(* failure, is shared by the routers of all threads, and each look at it   *)
(* and change of it is a step of its own.  Backends are external: whether  *)
(* they answer, after all attempts at one call, is left open.              *)
(***************************************************************************)
EXTENDS FiniteSets

CONSTANTS
  Asker,     \* threads that call chat or wait_for_available
  Model,
  Server,    \* llama.cpp servers of the configuration
  NoServer

ASSUME InferenceAssumption == Model # {} /\ NoServer \notin Server

VARIABLES
  home,      \* configuration: _model_map
  rescue,    \* configuration: servers with fallback_to_ollama
  shunned,   \* _shared_backoff_until: servers left alone
  declared,  \* _shared_models_cache: what each server declared, {} when expired
  known,     \* servers whose declaration is cached
  asker      \* what each thread is doing

inferenceVars == <<home, rescue, shunned, declared, known, asker>>

Backend == {"llama", "ollama"}
AskStage == {"idle", "route", "discover", "chat", "probe", "tags", "answered", "raised",
             "available", "unavailable"}

\* wants: the candidates; left: those not tried yet; model, via: the present one;
\* refused: history: what this call has asked in vain.
NoAsk == [at |-> "idle", waits |-> FALSE, wants |-> {}, left |-> {},
          model |-> CHOOSE m \in Model : TRUE, via |-> "ollama", refused |-> {}]

InferenceInit ==
  /\ home \in [Model -> Server \cup {NoServer}]
  /\ rescue \in SUBSET Server
  /\ shunned = {} /\ known = {}
  /\ declared = [s \in Server |-> {}]
  /\ asker = [a \in Asker |-> NoAsk]

-----------------------------------------------------------------------------

Asks(a, at) == asker[a].at = at
HomeOf(a) == home[asker[a].model]

\* chat, or wait_for_available: the candidates are the model and its fallbacks.
BeginAsk(a, m, others, waits) ==
  /\ Asks(a, "idle") /\ m \notin others
  /\ asker' = [asker EXCEPT ![a] = [NoAsk EXCEPT !.at = "route", !.waits = waits,
                 !.wants = {m} \cup others, !.left = others, !.model = m]]
  /\ UNCHANGED <<home, rescue, shunned, declared, known>>

\* The thread turns to its model at a backend; a wait only wants to know that the
\* server has it.
TurnToLlama(a) ==
  asker' = [asker EXCEPT ![a].at = IF asker[a].waits THEN "available" ELSE "chat",
                         ![a].via = "llama"]

\* The next candidate, or the end of the list.
NextCandidate(a, row) ==
  \/ /\ row.left = {}
     /\ asker' = [asker EXCEPT ![a] = [row EXCEPT !.at = IF row.waits THEN "tags" ELSE "raised"]]
  \/ \E m \in row.left :
       asker' = [asker EXCEPT ![a] = [row EXCEPT !.at = "route", !.model = m, !.left = @ \ {m}]]

\* No server declares the model: a chat asks Ollama, a wait looks at the next one.
NotDeclared(a) ==
  IF asker[a].waits THEN NextCandidate(a, asker[a])
  ELSE asker' = [asker EXCEPT ![a].at = "chat", ![a].via = "ollama"]

\* _server_declares_model, as far as the shared tables answer.
Route(a) ==
  /\ Asks(a, "route")
  /\ \/ (HomeOf(a) = NoServer \/ HomeOf(a) \in shunned) /\ NotDeclared(a)
     \/ /\ HomeOf(a) \notin shunned \cup {NoServer}
        /\ IF HomeOf(a) \notin known THEN asker' = [asker EXCEPT ![a].at = "discover"]
           ELSE IF asker[a].model \in declared[HomeOf(a)] THEN TurnToLlama(a)
           ELSE NotDeclared(a)
  /\ UNCHANGED <<home, rescue, shunned, declared, known>>

\* list_local_models_strict answers: the declaration is cached, and the server is no
\* longer left alone.  It fails: the server is left alone.
Discover(a) ==
  LET s == HomeOf(a)
  IN  /\ Asks(a, "discover")
      /\ \/ \E models \in SUBSET {m \in Model : home[m] = s} :
              /\ declared' = [declared EXCEPT ![s] = models]
              /\ known' = known \cup {s} /\ shunned' = shunned \ {s}
              /\ IF asker[a].model \in models THEN TurnToLlama(a) ELSE NotDeclared(a)
         \/ shunned' = shunned \cup {s} /\ NotDeclared(a) /\ UNCHANGED <<declared, known>>
      /\ UNCHANGED <<home, rescue>>

Refused(a) == [asker[a] EXCEPT !.refused = @ \cup {<<asker[a].model, asker[a].via>>}]

\* One of the attempts at a backend is answered with a text.
Answers(a) ==
  /\ Asks(a, "chat")
  /\ asker' = [asker EXCEPT ![a].at = "answered"]
  /\ UNCHANGED <<home, rescue, shunned, declared, known>>

\* Mutant: the request that a server refused is not made to Ollama.
LlamaFailsFor(a) ==
  /\ Asks(a, "chat") /\ asker[a].via = "llama"
  /\ shunned' = shunned \cup {HomeOf(a)}
  /\ NextCandidate(a, Refused(a))
  /\ UNCHANGED <<home, rescue, declared, known>>

\* All attempts at a server fail: it is left alone, and Ollama is asked for the
\* same model if the server is configured so.
LlamaFails(a) ==
  /\ Asks(a, "chat") /\ asker[a].via = "llama"
  /\ shunned' = shunned \cup {HomeOf(a)}
  /\ IF HomeOf(a) \in rescue
     THEN asker' = [asker EXCEPT ![a] = [Refused(a) EXCEPT !.via = "ollama"]]
     ELSE NextCandidate(a, Refused(a))
  /\ UNCHANGED <<home, rescue, declared, known>>

\* All attempts at Ollama fail.
OllamaFails(a) ==
  /\ Asks(a, "chat") /\ asker[a].via = "ollama"
  /\ NextCandidate(a, Refused(a))
  /\ UNCHANGED <<home, rescue, shunned, declared, known>>

\* wait_for_available asks Ollama for its models, and begins again until its deadline.
ProbeOllama(a) ==
  /\ Asks(a, "tags")
  /\ \/ asker' = [asker EXCEPT ![a].at = "available"]
     \/ asker' = [asker EXCEPT ![a].at = "unavailable"]
     \/ \E m \in asker[a].wants :
          asker' = [asker EXCEPT ![a].at = "route", ![a].model = m,
                                 ![a].left = asker[a].wants \ {m}]
  /\ UNCHANGED <<home, rescue, shunned, declared, known>>

\* The caller has the text, the exception or the answer of the wait; after a wait it
\* calls chat with the same candidates.
ReturnAsk(a) ==
  /\ asker[a].at \in {"answered", "raised", "available", "unavailable"}
  /\ asker' = [asker EXCEPT ![a] = NoAsk]
  /\ UNCHANGED <<home, rescue, shunned, declared, known>>

\* 180 seconds after a failure, and 300 seconds after a discovery.
ShunEnds(s) ==
  /\ s \in shunned /\ shunned' = shunned \ {s}
  /\ UNCHANGED <<home, rescue, declared, known, asker>>
Forget(s) ==
  /\ s \in known /\ known' = known \ {s} /\ declared' = [declared EXCEPT ![s] = {}]
  /\ UNCHANGED <<home, rescue, shunned, asker>>

InferenceNext ==
  \/ \E a \in Asker :
       \/ \E m \in Model, others \in SUBSET Model, waits \in BOOLEAN :
            BeginAsk(a, m, others, waits)
       \/ Route(a) \/ Discover(a) \/ Answers(a) \/ LlamaFails(a) \/ OllamaFails(a)
       \/ ProbeOllama(a) \/ ReturnAsk(a)
  \/ \E s \in Server : ShunEnds(s) \/ Forget(s)

InferenceSpec == InferenceInit /\ [][InferenceNext]_inferenceVars

-----------------------------------------------------------------------------

InferenceTypeOK ==
  /\ home \in [Model -> Server \cup {NoServer}]
  /\ rescue \subseteq Server /\ shunned \subseteq Server /\ known \subseteq Server
  /\ declared \in [Server -> SUBSET Model]
  /\ asker \in [Asker -> [at : AskStage, waits : BOOLEAN, wants : SUBSET Model,
                          left : SUBSET Model, model : Model, via : Backend,
                          refused : SUBSET (Model \X Backend)]]

\* A chat raises only when nobody would answer it: each candidate was refused by
\* Ollama, or by a server of its own that has no fallback, whatever other threads learn
\* of the servers meanwhile.
RaisesUnanswered ==
  \A a \in Asker : Asks(a, "raised") => \A m \in asker[a].wants :
    \/ <<m, "ollama">> \in asker[a].refused
    \/ <<m, "llama">> \in asker[a].refused /\ home[m] \notin rescue
=============================================================================
