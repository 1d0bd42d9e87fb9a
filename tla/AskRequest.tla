----------------------------- MODULE AskRequest -----------------------------
(***************************************************************************)
(* POST /ask on the server (apps/api, packages/qa, packages/retrieval):    *)
(* the request span, the check that the experiment exists, then either the *)
(* legacy question answering (search, prompt, generation) or one run of    *)
(* the agent workflow in a thread, and the reply.  Requests interleave at  *)
(* their awaits and between threads; everything between two awaits is one  *)
(* step.  What the agents decide is the business of AgentWorkflow: here a  *)
(* run searches or not and ends or raises.                                 *)
(***************************************************************************)
EXTENDS Spans

CONSTANTS
  Experiments,  \* experiment ids a caller can name
  Known,        \* the experiments that have a row in the database
  Processes     \* the ASK_MODE and providers a process may start with

ASSUME KnownAssumption == Known \subseteq Experiments
ASSUME ProcessesAssumption ==
  Processes \subseteq [mode : {"legacy_rag", "agent_workflow"}, setup : Setups]

VARIABLES
  mode,         \* ASK_MODE of the process
  ask,          \* request -> what was asked, None before
  pc,           \* request -> the await it is at
  local,        \* request -> what its handler and its workflow hold
  lastMetrics,  \* workflow client -> the request its last search was for
  reply         \* request -> the response, None before

requestVars == <<ask, pc, local, lastMetrics, reply>>
serverVars == <<mode, requestVars, spanVars>>

\* A question is named by the request it was first asked with; the page and
\* the request model let no blank one through.
Questions == Requests

Asks == [question : Questions, experiment : Experiments, analysis : BOOLEAN]
Answers == [question : Questions, experiment : Experiments,
            evidence : SUBSET Experiments, metrics : Requests \cup {None}]
\* The experiments of the chunks it found, whether its workflow has searched,
\* and whose retrieval metrics it reports.
Locals == [found : SUBSET Experiments, searched : BOOLEAN,
           metrics : Requests \cup {None}]
NoLocals == [found |-> {}, searched |-> FALSE, metrics |-> None]
Replies == [status : {200, 404, 500, 502}, answer : Answers \cup {None}]
Places == {"unsent", "exists", "search", "generate", "thread", "agents",
           "ending", "respond", "replied"}

ServerTypeOK ==
  /\ SpansTypeOK
  /\ mode \in {"legacy_rag", "agent_workflow"}
  /\ ask \in [Requests -> Asks \cup {None}]
  /\ pc \in [Requests -> Places]
  /\ local \in [Requests -> Locals]
  /\ lastMetrics \in [Requests -> Requests \cup {None}]
  /\ reply \in [Requests -> Replies \cup {None}]

ServerInit ==
  /\ \E p \in Processes : mode = p.mode /\ setup = p.setup
  /\ SpansInit
  /\ ask = [r \in Requests |-> None]
  /\ pc = [r \in Requests |-> "unsent"]
  /\ local = [r \in Requests |-> NoLocals]
  /\ lastMetrics = [r \in Requests |-> None]
  /\ reply = [r \in Requests |-> None]

\* An analysis puts the tracing of a workflow request behind a wrapper that
\* lets no provider's exception through.
Safe(r) == ask[r].analysis /\ mode # "legacy_rag"

\* The workflow service, its retrieval agent and that agent's client are
\* built per request: the client of a request is its own.
ClientCached(r) == 1  \* mutant: the factory is cached like its neighbours

Client(r) == r

\* The span that is active in the thread of the workflow: to_thread runs it
\* in a copy of the request's context.
ThreadParentLost == None  \* mutant: an executor that copies no context

ThreadParent == "ask_request"

Silent == UNCHANGED <<setup, emitted, received>>

\* The spans and the locals of the handler go with it.
Answered(r, status, answer) ==
  /\ reply' = [reply EXCEPT ![r] = [status |-> status, answer |-> answer]]
  /\ pc' = [pc EXCEPT ![r] = "replied"]
  /\ tree' = [tree EXCEPT ![r] = <<>>]
  /\ local' = [local EXCEPT ![r] = NoLocals]

(***************************************************************************)
(* The ways a request ends.                                                *)
(***************************************************************************)
\* One of the five exception classes the handler knows: error and finish on
\* the root span, then the status; a strict provider's exception replaces it.
RaiseKnown(r, t, code) ==
  LET closed == Fail(t, "ask_request")
  IN  \E faults \in SUBSET DOMAIN setup :
        /\ FinishRoot(r, closed, "ask_request", code, Safe(r), faults)
        /\ Answered(r, IF Breaks(closed, "ask_request", TraceHash[r], Safe(r), faults)
                       THEN 500 ELSE code, None)

\* Any other exception leaves the handler: a server error, and the root span
\* is dropped unfinished.
RaiseOther(r) == Answered(r, 500, None) /\ Silent

Move(r, t, place, l) ==
  /\ tree' = [tree EXCEPT ![r] = t]
  /\ pc' = [pc EXCEPT ![r] = place]
  /\ local' = [local EXCEPT ![r] = l]
  /\ UNCHANGED reply

Continue(r, t, place, l) == Move(r, t, place, l) /\ Silent

\* A span is finished; it is handed out now if it has no parent.
CloseSpan(r, t, name) ==
  IF t[name].parent = None
  THEN FinishRoot(r, t, name, 200, Safe(r), {}) ELSE Silent

(***************************************************************************)
(* The steps of a request.                                                 *)
(***************************************************************************)
Receive(r, a) ==
  /\ pc[r] = "unsent"
  /\ ask' = [ask EXCEPT ![r] = a]
  /\ Continue(r, Start(<<>>, "ask_request", None), "exists", local[r])
  /\ UNCHANGED <<mode, lastMetrics>>

LegacySpans(t) ==
  Start(Start(t, "legacy_rag", "ask_request"), "retrieval", "legacy_rag")

CheckExists(r) ==
  /\ pc[r] = "exists"
  /\ \/ /\ ask[r].experiment \notin Known
        /\ RaiseKnown(r, tree[r], 404)
     \/ \* the database cannot be reached
        RaiseOther(r)
     \/ /\ ask[r].experiment \in Known
        /\ IF mode = "legacy_rag"
           THEN Continue(r, LegacySpans(tree[r]), "search", local[r])
           ELSE Continue(r, tree[r], "thread", local[r])
  /\ UNCHANGED <<mode, ask, lastMetrics>>

SearchFails(r) ==
  /\ pc[r] = "search"
  /\ RaiseKnown(r, Fail(Fail(tree[r], "retrieval"), "legacy_rag"), 502)
  /\ UNCHANGED <<mode, ask, lastMetrics>>

SearchFindsNothing(r) ==
  /\ pc[r] = "search"
  /\ Continue(r, Finish(Finish(tree[r], "retrieval"), "legacy_rag"), "respond",
              [local[r] EXCEPT !.metrics = r])
  /\ UNCHANGED <<mode, ask, lastMetrics>>

\* Chunks are found and the prompt is rendered in the same step.  A prompt
\* that cannot be built raises past the handler.
SearchFinds(r) ==
  /\ pc[r] = "search"
  /\ \/ RaiseOther(r)
     \/ Continue(r, Start(Done(Finish(tree[r], "retrieval"), "prompt_rendering",
                              "legacy_rag"), "llm_generation", "legacy_rag"),
                 "generate",
                 [local[r] EXCEPT !.found = {ask[r].experiment}, !.metrics = r])
  /\ UNCHANGED <<mode, ask, lastMetrics>>

Generate(r) ==
  /\ pc[r] = "generate"
  /\ \/ Continue(r, Finish(Finish(tree[r], "llm_generation"), "legacy_rag"),
                 "respond", local[r])
     \/ RaiseKnown(r, Fail(Fail(tree[r], "llm_generation"), "legacy_rag"), 502)
  /\ UNCHANGED <<mode, ask, lastMetrics>>

\* The workflow starts in its thread; an analysis that cannot be normalised
\* is an execution error of a workflow that never ran.
StartThread(r) ==
  /\ pc[r] = "thread"
  /\ \/ Continue(r, Start(tree[r], "workflow", ThreadParent), "agents", local[r])
     \/ ask[r].analysis /\ RaiseKnown(r, tree[r], 502)
  /\ UNCHANGED <<mode, ask, lastMetrics>>

\* The retrieval agent is skipped, or searches; a search that fails is an
\* error in the state of the workflow, which goes on.
RunAgents(r) ==
  /\ pc[r] = "agents"
  /\ LET t == Start(tree[r], "retrieval", "workflow")
     IN  \/ /\ \/ Continue(r, tree[r], "ending", local[r])
              \/ Continue(r, Fail(t, "retrieval"), "ending", local[r])
            /\ UNCHANGED lastMetrics
         \/ \E chunks \in {{}, {ask[r].experiment}} :
              /\ Continue(r, Finish(t, "retrieval"), "ending",
                          [local[r] EXCEPT !.found = chunks, !.searched = TRUE])
              /\ lastMetrics' = [lastMetrics EXCEPT ![Client(r)] = r]
  /\ UNCHANGED <<mode, ask>>

\* The agent reads the metrics of its client after the search has returned;
\* then the graph ends, or raises.
EndWorkflow(r) ==
  /\ pc[r] = "ending"
  /\ LET t == Finish(Done(tree[r], "nodes", "workflow"), "workflow")
         l == [local[r] EXCEPT !.metrics = IF local[r].searched
                                           THEN lastMetrics[Client(r)] ELSE None]
     IN  \/ RaiseKnown(r, Fail(tree[r], "workflow"), 502)
         \/ /\ CloseSpan(r, t, "workflow")
            /\ Move(r, t, "respond", l)
  /\ UNCHANGED <<mode, ask, lastMetrics>>

\* The response is built and the root span finished inside the handler's try:
\* a strict provider turns the answer into a server error.
Respond(r) ==
  /\ pc[r] = "respond"
  /\ LET t == Finish(Done(tree[r], "response_serialization", "ask_request"),
                     "ask_request")
         answer == [question |-> ask[r].question, experiment |-> ask[r].experiment,
                    evidence |-> local[r].found, metrics |-> local[r].metrics]
     IN  \E faults \in SUBSET DOMAIN setup :
           /\ FinishRoot(r, t, "ask_request", 200, Safe(r), faults)
           /\ IF Breaks(t, "ask_request", TraceHash[r], Safe(r), faults)
              THEN Answered(r, 500, None) ELSE Answered(r, 200, answer)
  /\ UNCHANGED <<mode, ask, lastMetrics>>

Serve(r) ==
  \/ CheckExists(r) \/ SearchFails(r) \/ SearchFindsNothing(r)
  \/ SearchFinds(r) \/ Generate(r) \/ StartThread(r) \/ RunAgents(r)
  \/ EndWorkflow(r) \/ Respond(r)
=============================================================================
