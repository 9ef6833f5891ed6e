------------------------------- MODULE MC_Work -------------------------------
(***************************************************************************)
(* What a turn sets to work: six components that do not touch each other's *)
(* state, of which a behaviour moves one and leaves the others where they  *)
(* begin.                                                                  *)
(***************************************************************************)
EXTENDS TurnPipeline, Foraging, WebResearch, WebFetch, Synthesis, Inference

VARIABLE part  \* the component that moves

workVars ==
  <<part, turnVars, foragingVars, webVars, fetchVars, synthVars, inferenceVars>>

WorkInit ==
  /\ part \in {"turn", "foraging", "web", "fetch", "synthesis", "inference"}
  /\ TurnInit /\ ForagingInit /\ WebInit /\ FetchInit /\ SynthInit /\ InferenceInit
  \* One beginning of a component that does not move is enough.
  /\ part # "inference" => rescue = {} /\ home = [m \in Model |-> NoServer]

WorkNext ==
  /\ UNCHANGED part
  /\ IF part = "turn" THEN TurnNext ELSE UNCHANGED turnVars
  /\ IF part = "foraging" THEN ForagingNext ELSE UNCHANGED foragingVars
  /\ IF part = "web" THEN WebNext ELSE UNCHANGED webVars
  /\ IF part = "fetch" THEN FetchNext ELSE UNCHANGED fetchVars
  /\ IF part = "synthesis" THEN SynthNext ELSE UNCHANGED synthVars
  /\ IF part = "inference" THEN InferenceNext ELSE UNCHANGED inferenceVars

WorkSpec == WorkInit /\ [][WorkNext]_workVars

\* Every component has the types its code gives it.
WorkTypesOK ==
  /\ TurnTypeOK /\ ForagingTypeOK /\ WebTypeOK /\ FetchTypeOK /\ SynthTypeOK
  /\ InferenceTypeOK
=============================================================================
