---------------------------- MODULE AskWorkspace ----------------------------
(***************************************************************************)
(* The question page of the web application in live mode (apps/web:        *)
(* ask-experiment-workspace.tsx, http-ask-service.ts), composed with the   *)
(* server of AskRequest.  A workspace is mounted for one experiment; a     *)
(* submission starts a call that outlives the workspace, and the server    *)
(* goes on with a request whose call has timed out.  React renders between *)
(* two user events, so one handler with its state updates is one step.     *)
(*                                                                         *)
(* External: TanStack's mutation forgets its call when it is reset or its  *)
(* component unmounts, and then runs none of the call's callbacks.         *)
(***************************************************************************)
EXTENDS AskRequest

CONSTANTS
  DirectAsks,  \* the experiments other clients of the API ask about
  Lists,       \* the experiment lists GET /experiments may answer with
  MaxMounts    \* bound on the workspaces that are mounted

ASSUME RequestsAssumption == Requests \subseteq Nat
ASSUME DirectAsksAssumption == DirectAsks \subseteq Experiments
ASSUME ListsAssumption == Lists \subseteq Seq(Experiments) \ {<<>>}
ASSUME MountsAssumption == MaxMounts \in Nat \ {0}

VARIABLES
  listed,    \* the experiment list of the page
  selected,  \* the experiment that was chosen from it, None before
  view,      \* the mounted workspace
  call,      \* request -> the browser's call, None if it made none
  wire       \* request -> "none", "open" or "settled" for its caller

browserVars == <<listed, selected, view, call, wire>>
vars == <<browserVars, serverVars>>

Problems == {"network", "timeout", "server", "not_found"}
Retriable == {"network", "timeout", "server"}

Active == IF selected # None THEN selected ELSE listed[1]

Listed(list) == {list[i] : i \in DOMAIN list}

Fresh(mount) ==
  [mount |-> mount, submitted |-> None, answer |-> None,
   submitting |-> FALSE, mutation |-> "idle", current |-> None, error |-> None]

Calls == [mount : 1..MaxMounts, question : Questions, experiment : Experiments]
ASSUME AbsenceAssumption ==
  /\ None \notin Problems /\ None \notin Experiments
  /\ None \notin Answers /\ None \notin Calls

TypeOK ==
  /\ ServerTypeOK
  /\ listed \in Lists
  /\ selected \in Experiments \cup {None}
  /\ view \in [mount : 1..MaxMounts, submitted : Questions \cup {None},
               answer : Answers \cup {None}, submitting : BOOLEAN,
               mutation : {"idle", "pending", "success", "error"},
               current : Requests \cup {None}, error : Problems \cup {None}]
  /\ call \in [Requests -> Calls \cup {None}]
  /\ wire \in [Requests -> {"none", "open", "settled"}]

Init ==
  /\ ServerInit
  /\ listed \in Lists
  /\ selected = None
  /\ view = Fresh(1)
  /\ call = [r \in Requests |-> None]
  /\ wire = [r \in Requests |-> "none"]

\* The next request nobody has used.
Unused(r) ==
  /\ call[r] = None /\ pc[r] = "unsent"
  /\ \A s \in Requests : s < r => call[s] # None \/ pc[s] # "unsent"

(***************************************************************************)
(* The reader.  The workspace is keyed by the active experiment: another   *)
(* one mounts a fresh workspace.                                           *)
(***************************************************************************)
RemountUnkeyed ==  \* mutant: the workspace has no key
  /\ view.mount < MaxMounts
  /\ view' = [view EXCEPT !.mount = @ + 1]

Remount == /\ view.mount < MaxMounts
           /\ view' = Fresh(view.mount + 1)

SelectExperiment(e) ==
  /\ e \in Listed(listed)
  /\ selected' = e
  /\ IF e # Active THEN Remount ELSE UNCHANGED view
  /\ UNCHANGED <<listed, call, wire, serverVars>>

\* The list is fetched again, and experiments are never removed.  As long as
\* nothing was chosen, its first entry is the active experiment.
RefetchList(list) ==
  /\ Listed(listed) \subseteq Listed(list)
  /\ listed' = list
  /\ IF selected = None /\ list[1] # listed[1] THEN Remount ELSE UNCHANGED view
  /\ UNCHANGED <<selected, call, wire, serverVars>>

Pending == view.mutation = "pending"

\* mutation.reset()
ResetMutation(v) ==
  [v EXCEPT !.mutation = "idle", !.current = None, !.error = None]

\* An example becomes the draft, and the last problem is forgotten.
PickExample ==
  /\ ~Pending
  /\ view' = ResetMutation(view)
  /\ UNCHANGED <<listed, selected, call, wire, serverVars>>

\* The button is there when there is an answer or an error.
ResetResult ==
  /\ view.answer # None \/ view.mutation = "error"
  /\ view' = ResetMutation([view EXCEPT !.answer = None, !.submitted = None])
  /\ UNCHANGED <<listed, selected, call, wire, serverVars>>

Submit(r, q) ==
  /\ Unused(r)
  /\ ~view.submitting /\ ~Pending
  /\ view' = [view EXCEPT !.submitting = TRUE, !.submitted = q, !.answer = None,
                          !.mutation = "pending", !.current = r, !.error = None]
  /\ call' = [call EXCEPT ![r] = [mount |-> view.mount, question |-> q,
                                  experiment |-> Active]]
  /\ wire' = [wire EXCEPT ![r] = "open"]
  /\ UNCHANGED <<listed, selected, serverVars>>

\* The draft is whatever question the reader has typed or picked.
Ask(r) == Submit(r, r)
Retry(r) == view.error \in Retriable /\ Submit(r, view.submitted)

(***************************************************************************)
(* The network and the client of the service.                              *)
(***************************************************************************)
\* A request arrives, also one whose caller has given up.
Arrive(r) ==
  /\ call[r] # None
  /\ Receive(r, [question |-> call[r].question,
                 experiment |-> call[r].experiment, analysis |-> FALSE])
  /\ UNCHANGED browserVars

\* Another client of the API asks, for a typed analysis.
AskDirectly(r, e) ==
  /\ Unused(r)
  /\ Receive(r, [question |-> r, experiment |-> e, analysis |-> TRUE])
  /\ UNCHANGED browserVars

\* The call ends with an answer or a problem.  Only the workspace that still
\* observes it hears of that.
SettleUnobserved(r, answer, error) ==  \* mutant: the state is set when the call ends
  /\ wire[r] = "open"
  /\ wire' = [wire EXCEPT ![r] = "settled"]
  /\ view' = [view EXCEPT !.mutation = IF error = None THEN "success" ELSE "error",
                          !.error = error,
                          !.answer = IF error = None THEN answer ELSE @,
                          !.submitting = FALSE]
  /\ UNCHANGED <<listed, selected, call, serverVars>>

Settle(r, answer, error) ==
  /\ wire[r] = "open"
  /\ wire' = [wire EXCEPT ![r] = "settled"]
  /\ view' = IF view.mount = call[r].mount /\ view.current = r
             THEN [view EXCEPT !.mutation = IF error = None THEN "success" ELSE "error",
                               !.error = error,
                               !.answer = IF error = None THEN answer ELSE @,
                               !.submitting = FALSE]
             ELSE view
  /\ UNCHANGED <<listed, selected, call, serverVars>>

ErrorOfCode(status) ==  \* mutant: the code of a bad gateway is passed on
  CASE status = 404 -> "not_found" [] status = 500 -> "server"
    [] status = 502 -> "bad_gateway" [] OTHER -> None

ErrorOf(status) ==
  CASE status = 404 -> "not_found" [] status \in {500, 502} -> "server"
    [] OTHER -> None

Deliver(r) == /\ reply[r] # None
              /\ Settle(r, reply[r].answer, ErrorOf(reply[r].status))
NetworkFails(r) == Settle(r, None, "network")
TimeOut(r) == Settle(r, None, "timeout")

Reader == \/ \E e \in Experiments : SelectExperiment(e)
          \/ \E list \in Lists : RefetchList(list)
          \/ PickExample
          \/ ResetResult
          \/ \E r \in Requests : Ask(r) \/ Retry(r)

Server == \E r \in Requests :
            \/ Arrive(r)
            \/ Serve(r) /\ UNCHANGED browserVars
            \/ \E e \in DirectAsks : AskDirectly(r, e)

Network == \E r \in Requests : Deliver(r) \/ NetworkFails(r) \/ TimeOut(r)

Next == Reader \/ Server \/ Network

\* The timer of a call runs in the browser; nothing is assumed of the server,
\* the network or the reader.
Fairness == \A r \in Requests : WF_vars(TimeOut(r))

Spec == Init /\ [][Next]_vars /\ Fairness

(***************************************************************************)
(* The page.                                                               *)
(***************************************************************************)
Shown == CASE Pending -> "loading"
           [] ~Pending /\ view.error # None -> "problem"
           [] ~Pending /\ view.error = None /\ view.answer # None -> "answer"
           [] OTHER -> "empty"

\* An answer on display is the one to the question above it, about the
\* experiment that is selected, with evidence of that experiment only:
\* whatever was asked before, was reset, or still is on its way.
ShownIsAsked ==
  Shown = "answer" => /\ view.answer.question = view.submitted
                      /\ view.answer.experiment = Active
                      /\ view.answer.evidence \subseteq {Active}

\* The page is the reader's view of EvidenceView: late answers, mounts and
\* calls do not show, and what is loading is concluded or left.
Panel ==
  [kind |-> Shown,
   question |-> CASE Shown = "loading" -> view.submitted
                  [] Shown = "answer" -> view.answer.question
                  [] OTHER -> None,
   evidence |-> IF Shown = "answer" THEN view.answer.evidence ELSE {}]

View == INSTANCE EvidenceView WITH context <- Active, panel <- Panel
ImplementsView == View!FairSpec

(***************************************************************************)
(* The server.                                                             *)
(***************************************************************************)
\* The retrieval metrics of an answer are those of its own search, however
\* the threads of two workflows interleave.
MetricsAreOwn ==
  \A r \in Requests :
    reply[r] # None /\ reply[r].answer # None =>
      reply[r].answer.metrics \in {r, None}

Traced(r, trace) ==
  LET strict == \E i \in trace.failed : setup[i].strict
  IN  /\ trace.root = "ask_request" /\ trace.complete
      /\ reply[r] # None =>
           /\ trace.error <=> (trace.code # 200)
           /\ reply[r].status = IF strict /\ ~Safe(r) THEN 500 ELSE trace.code

\* A request has one trace: all its spans hang below the request span, and
\* every one of them was finished before the trace went out.  Tracing changes
\* the reply only when a strict provider failed and no analysis was asked for;
\* any other reply is the one the trace reports.  Only an exception the handler
\* does not know leaves a request without a trace, and then its caller has a
\* server error.
OneTrace ==
  \A r \in Requests :
    /\ Len(emitted[r]) \in 0..1
    /\ IF emitted[r] # <<>> THEN Traced(r, emitted[r][1])
       ELSE reply[r] # None => reply[r].status = 500

\* A failure the handler knows reaches every provider that keeps errors or
\* samples everything, unless that provider failed itself or a strict one
\* before it did.
ErrorsAreKept ==
  \A r \in Requests, i \in DOMAIN setup :
    /\ reply[r] # None /\ emitted[r] # <<>>
    /\ emitted[r][1].code # 200
    /\ setup[i].rate = 100 \/ (setup[i].kind = "langsmith" /\ setup[i].alwaysErrors)
    => \/ <<i, r, 1>> \in received
       \/ \E j \in emitted[r][1].failed : j = i \/ (j < i /\ setup[j].strict)
=============================================================================
