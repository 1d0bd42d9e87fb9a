------------------------- MODULE AskWorkspaceProofs -------------------------
(***************************************************************************)
(* Proofs about the question page and the server behind it, for any number *)
(* of requests, experiments, mounts and providers that may be configured.  *)
(***************************************************************************)
EXTENDS AskWorkspace, TLAPS

(***************************************************************************)
(* The inductive invariant.  The server's part says what the handler of a  *)
(* request holds at each of its awaits; the browser's part says what the   *)
(* mounted workspace has to do with the call it observes.                  *)
(***************************************************************************)
IsTree(t) == DOMAIN t \subseteq SpanNames /\ t \in [DOMAIN t -> SpanRecords]

\* The spans that others are started below.
Parents == {"ask_request", "legacy_rag", "workflow"}

\* A tree of depth three at most, in which the spans in unfinished are open.
Tree(t, unfinished) ==
  /\ IsTree(t)
  /\ unfinished \subseteq DOMAIN t /\ "ask_request" \in unfinished
  /\ t["ask_request"].parent = None /\ t["ask_request"].status = "pending"
  /\ \A n \in DOMAIN t \ {"ask_request"} : t[n].parent \in Parents \cap DOMAIN t
  /\ \A n \in {"legacy_rag", "workflow"} \cap DOMAIN t : t[n].parent = "ask_request"
  /\ \A n \in DOMAIN t : t[n].ended <=> n \notin unfinished

OpenAt(place) ==
  {"ask_request"}
    \cup (CASE place = "search" -> {"legacy_rag", "retrieval"}
            [] place = "generate" -> {"legacy_rag", "llm_generation"}
            [] place \in {"agents", "ending"} -> {"workflow"}
            [] OTHER -> {})

Underway(r) == pc[r] \notin {"unsent", "replied"}

SpansAreKept ==
  /\ tree = [r \in Requests |-> tree[r]] /\ emitted \in [Requests -> Seq(Traces)]
  /\ \A r \in Requests :
       IF Underway(r) THEN Tree(tree[r], OpenAt(pc[r])) ELSE tree[r] = <<>>

\* A request was asked before anything was done about it, and nothing is told
\* of it before it is answered.
InOrder ==
  \A r \in Requests :
    /\ pc[r] # "unsent" => ask[r] \in Asks
    /\ pc[r] # "replied" => reply[r] = None /\ emitted[r] = <<>>
    /\ pc[r] = "replied" => reply[r] \in Replies

\* What a handler and its workflow hold is their own.
LocalsAreOwn ==
  \A r \in Requests :
    /\ \A found \in local[r].found : pc[r] # "unsent" /\ found = ask[r].experiment
    /\ local[r].metrics \in {r, None} /\ lastMetrics[r] \in {r, None}

\* An answer is the one to its question, and a reply without one a failure.
Fits(answer, a, r) ==
  /\ answer.question = a.question /\ answer.experiment = a.experiment
  /\ answer.evidence \subseteq {a.experiment} /\ answer.metrics \in {r, None}

AnswersFit ==
  \A r \in Requests :
    pc[r] = "replied" =>
      IF reply[r].status = 200 THEN reply[r].answer \in Answers /\ Fits(reply[r].answer, ask[r], r)
      ELSE reply[r].answer = None

ServerInv ==
  SpansAreKept /\ InOrder /\ LocalsAreOwn /\ AnswersFit /\ OneTrace /\ ErrorsAreKept

\* What arrives is what the page has asked.
CallsAreAsked ==
  \A r \in Requests :
    call[r] # None /\ pc[r] # "unsent" =>
      ask[r].question = call[r].question /\ ask[r].experiment = call[r].experiment

\* The call the workspace observes is its own, about what it shows.
CallIsObserved ==
  view.current # None =>
    /\ call[view.current] # None
    /\ call[view.current].mount = view.mount
    /\ call[view.current].question = view.submitted
    /\ call[view.current].experiment = Active
    /\ wire[view.current] = "open" => Pending

\* An answer, a problem and a call on its way exclude each other.
PageIsCoherent ==
  /\ Pending => view.answer = None /\ view.error = None /\ view.submitted \in Questions
  /\ view.error # None => view.answer = None /\ view.submitted \in Questions
  /\ view.mutation = "error" => view.submitted \in Questions
  /\ view.answer # None => /\ view.answer.question = view.submitted
                           /\ view.answer.experiment = Active
                           /\ view.answer.evidence \subseteq {Active}

BrowserInv == CallsAreAsked /\ CallIsObserved /\ PageIsCoherent

IInv == TypeOK /\ ServerInv /\ BrowserInv

-----------------------------------------------------------------------------
(* Spans. *)

LEMMA Parentless == None \notin Parents /\ Parents \subseteq SpanNames
  BY NoneAssumption DEF Parents, SpanNames

LEMMA StartTree ==
  ASSUME NEW t, NEW unfinished, Tree(t, unfinished),
         NEW name \in SpanNames \ {"ask_request"}, NEW parent \in Parents \cap DOMAIN t,
         name \in {"legacy_rag", "workflow"} => parent = "ask_request"
  PROVE  Tree(Start(t, name, parent), unfinished \cup {name})
<1> DEFINE s == Start(t, name, parent)
           new == [parent |-> parent, status |-> "pending", ended |-> FALSE]
<1>1. DOMAIN s = DOMAIN t \cup {name}
  BY DEF Start
<1>2. s[name] = new /\ \A n \in DOMAIN t \ {name} : s[n] = t[n]
  BY DEF Start
<1>3. new \in SpanRecords /\ new.parent = parent /\ new.ended = FALSE
  BY Parentless DEF SpanRecords, Statuses
<1>4. IsTree(s)
  BY <1>1, <1>2, <1>3 DEF Tree, IsTree, Start
<1> HIDE DEF s, new
<1> QED BY <1>1, <1>2, <1>3, <1>4 DEF Tree, s, Parents

LEMMA FinishIs ==
  ASSUME NEW t, IsTree(t), NEW name \in DOMAIN t
  PROVE  /\ IsTree(Finish(t, name)) /\ DOMAIN Finish(t, name) = DOMAIN t
         /\ \A n \in DOMAIN t \ {name} : Finish(t, name)[n] = t[n]
         /\ Finish(t, name)[name].parent = t[name].parent
         /\ Finish(t, name)[name].ended = TRUE
         /\ Finish(t, name)[name].status
              = IF t[name].status = "pending" THEN "completed" ELSE t[name].status
  BY DEF Finish, IsTree, SpanRecords, Statuses

LEMMA RecordErrorIs ==
  ASSUME NEW t, IsTree(t), NEW name \in DOMAIN t
  PROVE  /\ IsTree(RecordError(t, name)) /\ DOMAIN RecordError(t, name) = DOMAIN t
         /\ \A n \in DOMAIN t \ {name} : RecordError(t, name)[n] = t[n]
         /\ RecordError(t, name)[name].parent = t[name].parent
         /\ RecordError(t, name)[name].ended = t[name].ended
         /\ RecordError(t, name)[name].status = "error"
  BY DEF RecordError, IsTree, SpanRecords, Statuses

LEMMA FinishTree ==
  ASSUME NEW t, NEW unfinished, Tree(t, unfinished),
         NEW name \in DOMAIN t \ {"ask_request"}
  PROVE  Tree(Finish(t, name), unfinished \ {name})
<1> DEFINE s == Finish(t, name)
<1>1. IsTree(t)
  BY DEF Tree
<1>2. /\ IsTree(s) /\ DOMAIN s = DOMAIN t
      /\ \A n \in DOMAIN t \ {name} : s[n] = t[n]
      /\ s[name].parent = t[name].parent /\ s[name].ended = TRUE
  BY <1>1, FinishIs
<1> HIDE DEF s
<1>3. \A n \in DOMAIN t : s[n].parent = t[n].parent
  BY <1>2
<1>4. Tree(s, unfinished \ {name})
  BY <1>2, <1>3 DEF Tree
<1> QED BY <1>4 DEF s

LEMMA FailTree ==
  ASSUME NEW t, NEW unfinished, Tree(t, unfinished),
         NEW name \in DOMAIN t \ {"ask_request"}
  PROVE  Tree(Fail(t, name), unfinished \ {name})
<1>1. IsTree(t)
  BY DEF Tree
<1> DEFINE s == RecordError(t, name)
<1>2. /\ IsTree(s) /\ DOMAIN s = DOMAIN t
      /\ \A n \in DOMAIN t \ {name} : s[n] = t[n]
      /\ s[name].parent = t[name].parent /\ s[name].ended = t[name].ended
  BY <1>1, RecordErrorIs
<1> HIDE DEF s
<1>3. \A n \in DOMAIN t : s[n].parent = t[n].parent /\ s[n].ended = t[n].ended
  BY <1>2
<1>4. Tree(s, unfinished)
  BY <1>2, <1>3 DEF Tree
<1>5. Tree(Finish(s, name), unfinished \ {name})
  BY <1>2, <1>4, FinishTree
<1> QED BY <1>5 DEF Fail, s

LEMMA DoneTree ==
  ASSUME NEW t, NEW unfinished, Tree(t, unfinished),
         NEW name \in SpanNames \ Parents, NEW parent \in Parents \cap DOMAIN t,
         name \notin unfinished
  PROVE  Tree(Done(t, name, parent), unfinished)
<1>1. Tree(Start(t, name, parent), unfinished \cup {name})
  BY StartTree DEF Parents
<1>2. name \in DOMAIN Start(t, name, parent) \ {"ask_request"}
  BY DEF Start, Parents
<1>3. Tree(Finish(Start(t, name, parent), name), (unfinished \cup {name}) \ {name})
  BY <1>1, <1>2, FinishTree
<1>4. (unfinished \cup {name}) \ {name} = unfinished
  OBVIOUS
<1> QED BY <1>3, <1>4 DEF Done

\* A root whose spans below it were finished takes all of them with it.
LEMMA WholeTree ==
  ASSUME NEW t, IsTree(t), "ask_request" \in DOMAIN t,
         \A n \in DOMAIN t \ {"ask_request"} : t[n].parent \in Parents \cap DOMAIN t,
         \A n \in {"legacy_rag", "workflow"} \cap DOMAIN t : t[n].parent = "ask_request"
  PROVE  Below(t, "ask_request") = t
<1>1. \A m \in DOMAIN t : \/ m = "ask_request" \/ t[m].parent = "ask_request"
                          \/ /\ t[m].parent \in DOMAIN t
                             /\ t[t[m].parent].parent = "ask_request"
  BY DEF Parents
<1>2. {m \in DOMAIN t : \/ m = "ask_request" \/ t[m].parent = "ask_request"
                        \/ /\ t[m].parent \in DOMAIN t
                           /\ t[t[m].parent].parent = "ask_request"} = DOMAIN t
  BY <1>1
<1>3. t = [n \in DOMAIN t |-> t[n]]
  BY DEF IsTree
<1> QED BY <1>2, <1>3 DEF Below

LEMMA FinishedTree ==
  ASSUME NEW t, Tree(t, {"ask_request"})
  PROVE  LET closed == Finish(t, "ask_request")
         IN  /\ Below(closed, "ask_request") = closed
             /\ \A n \in DOMAIN closed : closed[n].ended
             /\ closed["ask_request"].status = "completed"
<1>1. IsTree(t) /\ "ask_request" \in DOMAIN t
  BY DEF Tree
<1>2. LET closed == Finish(t, "ask_request")
      IN  /\ IsTree(closed) /\ DOMAIN closed = DOMAIN t
          /\ closed["ask_request"].status = "completed" /\ closed["ask_request"].ended
          /\ \A n \in DOMAIN t \ {"ask_request"} : closed[n] = t[n]
  BY <1>1, FinishIs DEF Tree
<1> DEFINE closed == Finish(t, "ask_request")
<1> HIDE DEF closed
<1>3. \A n \in DOMAIN closed : closed[n].ended
  BY <1>2 DEF Tree, closed
<1>4. Below(closed, "ask_request") = closed
  BY <1>1, <1>2, WholeTree DEF Tree, closed, Parents
<1> QED BY <1>2, <1>3, <1>4 DEF closed

LEMMA FailedTree ==
  ASSUME NEW t, Tree(t, {"ask_request"})
  PROVE  LET closed == Fail(t, "ask_request")
         IN  /\ Below(closed, "ask_request") = closed
             /\ \A n \in DOMAIN closed : closed[n].ended
             /\ closed["ask_request"].status = "error"
<1> DEFINE marked == RecordError(t, "ask_request")
           closed == Finish(marked, "ask_request")
<1>1. IsTree(t) /\ "ask_request" \in DOMAIN t
  BY DEF Tree
<1>2. /\ IsTree(marked) /\ DOMAIN marked = DOMAIN t
      /\ marked["ask_request"].status = "error"
      /\ \A n \in DOMAIN t \ {"ask_request"} : marked[n] = t[n]
  BY <1>1, RecordErrorIs
<1> HIDE DEF marked
<1>3. /\ IsTree(closed) /\ DOMAIN closed = DOMAIN t
      /\ closed["ask_request"].status = "error" /\ closed["ask_request"].ended
      /\ \A n \in DOMAIN t \ {"ask_request"} : closed[n] = t[n]
  <2>1. IsTree(marked) /\ "ask_request" \in DOMAIN marked
    BY <1>1, <1>2
  <2>2. IsTree(closed) /\ DOMAIN closed = DOMAIN marked
    BY <2>1, FinishIs
  <2>3. closed["ask_request"].ended /\ closed["ask_request"].status = "error"
    BY <1>2, <2>1, FinishIs
  <2>4. \A n \in DOMAIN marked \ {"ask_request"} : closed[n] = marked[n]
    BY <2>1, FinishIs
  <2> HIDE DEF closed
  <2> QED BY <1>2, <2>2, <2>3, <2>4
<1> HIDE DEF closed
<1>4. \A n \in DOMAIN closed : closed[n].ended
  BY <1>3 DEF Tree
<1>5. Below(closed, "ask_request") = closed
  BY <1>1, <1>3, WholeTree DEF Tree, Parents
<1> QED BY <1>3, <1>4, <1>5 DEF closed, marked, Fail

-----------------------------------------------------------------------------
(* Roots that are handed out. *)

LEMMA SetupIs ==
  ASSUME setup \in Setups
  PROVE  /\ setup \in Seq(Providers) /\ DOMAIN setup \subseteq 1..2
         /\ \A i \in DOMAIN setup : setup[i] \in Providers
         /\ \A i \in DOMAIN setup : setup[i].kind # "langsmith" => setup[i].rate \in {0, 100}
<1>1. setup \in Seq(Providers) /\ Len(setup) \in 0..2
  BY SetupsAssumption DEF SetupsAssumption0
<1>2. DOMAIN setup = 1..Len(setup)
  BY <1>1
<1> QED BY <1>1, <1>2, SetupsAssumption DEF SetupsAssumption0

\* What FinishRoot does with a whole tree, its spans finished, when nothing
\* was handed out of the request before.
Trace(t, code, faults) ==
  [root |-> "ask_request", code |-> code, error |-> t["ask_request"].status = "error",
   complete |-> TRUE, failed |-> faults]

LEMMA RootFinished ==
  ASSUME SpansTypeOK, emitted \in [Requests -> Seq(Traces)],
         NEW r \in Requests, emitted[r] = <<>>,
         NEW t, Below(t, "ask_request") = t, \A n \in DOMAIN t : t[n].ended,
         NEW code \in Nat, NEW safe, NEW faults \in SUBSET DOMAIN setup,
         FinishRoot(r, t, "ask_request", code, safe, faults)
  PROVE  /\ setup' = setup
         /\ Trace(t, code, faults) \in Traces
         /\ emitted' = [emitted EXCEPT ![r] = <<Trace(t, code, faults)>>]
         /\ received \subseteq received'
         /\ received' \subseteq (DOMAIN setup) \X Requests \X (Nat \ {0})
         /\ \A i \in faults : Exports(setup[i], t, "ask_request", TraceHash[r])
         /\ \A i \in Reached(t, "ask_request", TraceHash[r], safe, faults) \ faults :
              Exports(setup[i], t, "ask_request", TraceHash[r]) => <<i, r, 1>> \in received'
<1> DEFINE trying == {i \in Reached(t, "ask_request", TraceHash[r], safe, faults) :
                        Exports(setup[i], t, "ask_request", TraceHash[r])}
           new == {<<i, r, 1>> : i \in trying \ faults}
           trace == [root |-> "ask_request", code |-> code,
                     error |-> t["ask_request"].status = "error",
                     complete |-> Below(t, "ask_request") = t /\ \A n \in DOMAIN t : t[n].ended,
                     failed |-> faults]
<1>1. Len(emitted[r]) + 1 = 1
  BY DEF SpansTypeOK
<1>2. /\ faults \subseteq trying /\ setup' = setup
      /\ emitted' = [emitted EXCEPT ![r] = Append(@, trace)]
      /\ received' = received \cup new
  BY <1>1 DEF FinishRoot
<1>3. trying \subseteq DOMAIN setup
  BY DEF Reached
<1>4. (Below(t, "ask_request") = t /\ \A n \in DOMAIN t : t[n].ended) = TRUE
  OBVIOUS
<1>5. trace = Trace(t, code, faults)
  BY <1>4 DEF Trace
<1>6. Trace(t, code, faults) \in Traces
  <2>1. DOMAIN setup \subseteq 1..2
    BY SetupIs DEF SpansTypeOK
  <2>2. (t["ask_request"].status = "error") \in BOOLEAN
    OBVIOUS
  <2> QED BY <2>1, <2>2 DEF Traces, Trace, SpanNames
<1>7. emitted' = [emitted EXCEPT ![r] = <<Trace(t, code, faults)>>]
  <2> HIDE DEF trace
  <2>1. Append(<<>>, trace) = <<trace>>
    OBVIOUS
  <2> QED BY <1>2, <1>5, <2>1
<1>8. new \subseteq (DOMAIN setup) \X Requests \X (Nat \ {0})
  BY <1>3
<1>9. received' \subseteq (DOMAIN setup) \X Requests \X (Nat \ {0})
  BY <1>2, <1>8 DEF SpansTypeOK
<1>10. \A i \in faults : Exports(setup[i], t, "ask_request", TraceHash[r])
  BY <1>2
<1>11. \A i \in Reached(t, "ask_request", TraceHash[r], safe, faults) \ faults :
         Exports(setup[i], t, "ask_request", TraceHash[r]) => <<i, r, 1>> \in received'
  BY <1>2
<1> QED BY <1>2, <1>6, <1>7, <1>9, <1>10, <1>11

\* A reply breaks exactly when a strict provider failed on its trace.
LEMMA BreaksIs ==
  ASSUME NEW t, NEW hash, NEW safe, NEW faults \in SUBSET DOMAIN setup,
         \A i \in faults : Exports(setup[i], t, "ask_request", hash)
  PROVE  Breaks(t, "ask_request", hash, safe, faults)
           <=> ~safe /\ \E i \in faults : setup[i].strict
  BY DEF Breaks, Raises

\* An error reaches every provider that keeps errors or samples everything,
\* unless a strict one before it failed.
KeepsErrors(p) == p.rate = 100 \/ (p.kind = "langsmith" /\ p.alwaysErrors)

Barred(i, faults) == \E j \in faults : j < i /\ setup[j].strict

LEMMA ErrorReaches ==
  ASSUME setup \in Setups,
         NEW t, t["ask_request"].status = "error",
         NEW r \in Requests, NEW faults \in SUBSET DOMAIN setup,
         NEW i \in DOMAIN setup, KeepsErrors(setup[i])
  PROVE  /\ Exports(setup[i], t, "ask_request", TraceHash[r])
         /\ \/ i \in Reached(t, "ask_request", TraceHash[r], Safe(r), faults)
            \/ Barred(i, faults)
<1>1. DOMAIN setup \subseteq 1..2 /\ DOMAIN setup = 1..Len(setup)
  BY SetupIs
<1>2. setup[i].kind # "langsmith" => setup[i].rate = 100
  BY DEF KeepsErrors
<1>3. ShouldEmit(setup[i], t, "ask_request", TraceHash[r])
  BY DEF ShouldEmit, Sampled, KeepsErrors
<1>4. Exports(setup[i], t, "ask_request", TraceHash[r])
  BY <1>2, <1>3 DEF Exports
<1>5. Admitted(t, "ask_request", TraceHash[r], Safe(r))
  <2>1. Len(setup) = 1 => i = 1
    BY <1>1
  <2> QED BY <2>1, <1>3 DEF Admitted
<1>6. CASE \A j \in 1..(i - 1) : ~Raises(j, t, "ask_request", TraceHash[r], faults)
  BY <1>4, <1>5, <1>6 DEF Reached
<1>7. CASE \E j \in 1..(i - 1) : Raises(j, t, "ask_request", TraceHash[r], faults)
  BY <1>1, <1>4, <1>7 DEF Raises, Barred
<1> QED BY <1>6, <1>7

-----------------------------------------------------------------------------
(* A step of the server moves its request to the next await, drops it, or  *)
(* answers it with a trace.                                                *)

LEMMA StatusNumbers == {200, 404, 500, 502} \subseteq Nat
  OBVIOUS

LEMMA MoveKeeps ==
  ASSUME ServerTypeOK, ServerInv,
         NEW r \in Requests, pc[r] # "replied",
         NEW place \in Places \ {"unsent", "replied"},
         NEW t, Tree(t, OpenAt(place)),
         NEW l \in Locals, l.metrics \in {r, None},
         Continue(r, t, place, l), mode' = mode,
         ask' \in [Requests -> Asks \cup {None}], ask'[r] \in Asks,
         \A s \in Requests \ {r} : ask'[s] = ask[s],
         \A found \in l.found : found = ask'[r].experiment,
         lastMetrics' \in [Requests -> Requests \cup {None}],
         \A s \in Requests : lastMetrics'[s] \in {s, None}
  PROVE  ServerTypeOK' /\ ServerInv'
<1>1. /\ tree' = [tree EXCEPT ![r] = t] /\ pc' = [pc EXCEPT ![r] = place]
      /\ local' = [local EXCEPT ![r] = l]
      /\ UNCHANGED <<setup, emitted, received, reply>>
  BY DEF Continue, Move, Silent
<1>2. /\ tree = [s \in Requests |-> tree[s]] /\ emitted \in [Requests -> Seq(Traces)]
      /\ pc \in [Requests -> Places] /\ local \in [Requests -> Locals]
      /\ reply \in [Requests -> Replies \cup {None}]
  BY DEF ServerTypeOK, ServerInv, SpansAreKept
<1>3. /\ tree'[r] = t /\ pc'[r] = place /\ local'[r] = l
      /\ \A s \in Requests \ {r} : tree'[s] = tree[s] /\ pc'[s] = pc[s] /\ local'[s] = local[s]
      /\ DOMAIN tree' = Requests
  BY <1>1, <1>2
<1>4. \A s \in Requests : pc'[s] = "replied" => s # r
  BY <1>3
<1>5. SpansAreKept'
  <2>1. tree' = [s \in Requests |-> tree'[s]]
    BY <1>1, <1>2
  <2>2. IF Underway(r)' THEN Tree(tree'[r], OpenAt(pc'[r])) ELSE tree'[r] = <<>>
    BY <1>3 DEF Underway
  <2>3. ASSUME NEW s \in Requests \ {r}
        PROVE  IF Underway(s)' THEN Tree(tree'[s], OpenAt(pc'[s])) ELSE tree'[s] = <<>>
    BY <1>3 DEF ServerInv, SpansAreKept, Underway
  <2>4. emitted' \in [Requests -> Seq(Traces)]
    BY <1>1, <1>2
  <2> QED BY <2>1, <2>2, <2>3, <2>4 DEF SpansAreKept
<1>6. ServerTypeOK'
  <2>1. SpansTypeOK'
    <3>1. ASSUME NEW s \in Requests
          PROVE  /\ DOMAIN tree'[s] \subseteq SpanNames
                 /\ \A n \in DOMAIN tree'[s] : tree'[s][n] \in SpanRecords
                 /\ emitted'[s] \in Seq(Traces)
      BY <1>1, <1>3 DEF Tree, IsTree, ServerTypeOK, SpansTypeOK
    <3> QED BY <3>1, <1>1 DEF ServerTypeOK, SpansTypeOK
  <2> QED BY <2>1, <1>1 DEF ServerTypeOK
<1>7. InOrder'
  BY <1>1, <1>3 DEF ServerInv, InOrder
<1>8. LocalsAreOwn'
  BY <1>3 DEF ServerInv, LocalsAreOwn
<1>9. AnswersFit'
  BY <1>1, <1>3 DEF ServerInv, AnswersFit, Fits
<1>10. OneTrace'
  <2>1. ASSUME NEW s \in Requests \ {r}
        PROVE  Safe(s)' = Safe(s)
    BY DEF Safe
  <2>2. emitted[r] = <<>> /\ reply[r] = None
    BY DEF ServerInv, InOrder
  <2> QED BY <1>1, <2>1, <2>2 DEF ServerInv, OneTrace, Traced
<1>11. ErrorsAreKept'
  BY <1>1 DEF ServerInv, ErrorsAreKept
<1> QED BY <1>5, <1>6, <1>7, <1>8, <1>9, <1>10, <1>11 DEF ServerInv

LEMMA NothingHeld == NoLocals \in Locals /\ NoLocals.found = {} /\ NoLocals.metrics = None
  BY DEF NoLocals, Locals

\* The replied request: what its handler held is gone.
LEMMA AnsweredIs ==
  ASSUME ServerTypeOK, ServerInv,
         NEW r \in Requests, Underway(r),
         NEW status \in {200, 404, 500, 502}, NEW answer \in Answers \cup {None},
         Answered(r, status, answer), UNCHANGED <<mode, ask, lastMetrics>>,
         setup' = setup, received \subseteq received',
         received' \subseteq (DOMAIN setup) \X Requests \X (Nat \ {0}),
         emitted' \in [Requests -> Seq(Traces)],
         \A s \in Requests \ {r} : emitted'[s] = emitted[s],
         status = 200 => answer \in Answers /\ Fits(answer, ask[r], r),
         status # 200 => answer = None
  PROVE  /\ ServerTypeOK' /\ SpansAreKept' /\ InOrder' /\ LocalsAreOwn' /\ AnswersFit'
         /\ reply'[r] = [status |-> status, answer |-> answer]
         /\ \A s \in Requests \ {r} : reply'[s] = reply[s]
<1> DEFINE told == [status |-> status, answer |-> answer]
<1>1. /\ reply' = [reply EXCEPT ![r] = told] /\ pc' = [pc EXCEPT ![r] = "replied"]
      /\ tree' = [tree EXCEPT ![r] = <<>>] /\ local' = [local EXCEPT ![r] = NoLocals]
  BY DEF Answered
<1>2. told \in Replies /\ told.status = status /\ told.answer = answer
  BY DEF Replies
<1> HIDE DEF told
<1>3. /\ tree = [s \in Requests |-> tree[s]]
      /\ pc \in [Requests -> Places] /\ local \in [Requests -> Locals]
      /\ reply \in [Requests -> Replies \cup {None}]
  BY DEF ServerTypeOK, ServerInv, SpansAreKept
<1>4. /\ tree'[r] = <<>> /\ pc'[r] = "replied" /\ local'[r] = NoLocals /\ reply'[r] = told
      /\ \A s \in Requests \ {r} : /\ tree'[s] = tree[s] /\ pc'[s] = pc[s]
                                   /\ local'[s] = local[s] /\ reply'[s] = reply[s]
  BY <1>1, <1>3
<1>5. SpansAreKept'
  <2>1. tree' = [s \in Requests |-> tree'[s]]
    <3> DEFINE none == <<>>
    <3> HIDE DEF none
    <3>1. tree' = [tree EXCEPT ![r] = none]
      BY <1>1 DEF none
    <3> QED BY <3>1, <1>3
  <2>2. Underway(r)' = FALSE /\ tree'[r] = <<>>
    BY <1>4 DEF Underway
  <2>3. ASSUME NEW s \in Requests \ {r}
        PROVE  IF Underway(s)' THEN Tree(tree'[s], OpenAt(pc'[s])) ELSE tree'[s] = <<>>
    <3>1. tree'[s] = tree[s] /\ pc'[s] = pc[s]
      BY <1>4
    <3>2. IF Underway(s) THEN Tree(tree[s], OpenAt(pc[s])) ELSE tree[s] = <<>>
      BY DEF ServerInv, SpansAreKept
    <3> QED BY <3>1, <3>2 DEF Underway
  <2> QED BY <2>1, <2>2, <2>3 DEF SpansAreKept
<1>6. ServerTypeOK'
  <2>1. SpansTypeOK'
    <3>1. ASSUME NEW s \in Requests
          PROVE  /\ DOMAIN tree'[s] \subseteq SpanNames
                 /\ \A n \in DOMAIN tree'[s] : tree'[s][n] \in SpanRecords
                 /\ emitted'[s] \in Seq(Traces)
      <4>1. DOMAIN <<>> = {}
        OBVIOUS
      <4>2. emitted'[s] \in Seq(Traces)
        OBVIOUS
      <4>3. CASE s = r
        BY <4>1, <4>2, <4>3, <1>4
      <4>4. CASE s # r
        <5>1. tree'[s] = tree[s]
          BY <4>4, <1>4
        <5>2. /\ DOMAIN tree[s] \subseteq SpanNames
              /\ \A n \in DOMAIN tree[s] : tree[s][n] \in SpanRecords
          BY DEF ServerTypeOK, SpansTypeOK
        <5> QED BY <4>2, <5>1, <5>2
      <4> QED BY <4>3, <4>4
    <3> QED BY <3>1 DEF ServerTypeOK, SpansTypeOK
  <2>2. /\ pc' \in [Requests -> Places] /\ local' \in [Requests -> Locals]
        /\ reply' \in [Requests -> Replies \cup {None}]
    BY <1>1, <1>2, <1>3, NothingHeld DEF Places
  <2> QED BY <2>1, <2>2 DEF ServerTypeOK
<1>7. InOrder'
  BY <1>2, <1>4 DEF ServerInv, InOrder, Underway
<1>8. LocalsAreOwn'
  <2>1. ASSUME NEW s \in Requests \ {r}
        PROVE  /\ \A found \in local'[s].found : pc'[s] # "unsent" /\ found = ask'[s].experiment
               /\ local'[s].metrics \in {s, None} /\ lastMetrics'[s] \in {s, None}
    <3>1. /\ local'[s] = local[s] /\ pc'[s] = pc[s] /\ ask'[s] = ask[s]
          /\ lastMetrics'[s] = lastMetrics[s]
      BY <1>4
    <3>2. /\ \A found \in local[s].found : pc[s] # "unsent" /\ found = ask[s].experiment
          /\ local[s].metrics \in {s, None} /\ lastMetrics[s] \in {s, None}
      BY DEF ServerInv, LocalsAreOwn
    <3> QED BY <3>1, <3>2
  <2>2. /\ \A found \in local'[r].found : pc'[r] # "unsent" /\ found = ask'[r].experiment
        /\ local'[r].metrics \in {r, None} /\ lastMetrics'[r] \in {r, None}
    BY <1>4, NothingHeld DEF ServerInv, LocalsAreOwn
  <2> QED BY <2>1, <2>2 DEF LocalsAreOwn
<1>9. AnswersFit'
  BY <1>2, <1>4 DEF ServerInv, AnswersFit, Fits
<1> QED BY <1>4, <1>5, <1>6, <1>7, <1>8, <1>9 DEF told

LEMMA DropKeeps ==
  ASSUME ServerTypeOK, ServerInv, NEW r \in Requests, Underway(r),
         RaiseOther(r), UNCHANGED <<mode, ask, lastMetrics>>
  PROVE  ServerTypeOK' /\ ServerInv'
<1>1. Answered(r, 500, None) /\ UNCHANGED <<setup, emitted, received>>
  BY DEF RaiseOther, Silent
<1>2. emitted \in [Requests -> Seq(Traces)]
  BY DEF ServerInv, SpansAreKept
<1>3. received \subseteq (DOMAIN setup) \X Requests \X (Nat \ {0})
  BY DEF ServerTypeOK, SpansTypeOK
<1>4. /\ ServerTypeOK' /\ SpansAreKept' /\ InOrder' /\ LocalsAreOwn' /\ AnswersFit'
      /\ reply'[r] = [status |-> 500, answer |-> None]
      /\ \A s \in Requests \ {r} : reply'[s] = reply[s]
  <2>1. /\ setup' = setup /\ received \subseteq received'
        /\ received' \subseteq (DOMAIN setup) \X Requests \X (Nat \ {0})
        /\ emitted' \in [Requests -> Seq(Traces)]
        /\ \A s \in Requests \ {r} : emitted'[s] = emitted[s]
    BY <1>1, <1>2, <1>3
  <2> DEFINE status == 500
  <2>2. /\ status \in {200, 404, 500, 502} /\ status # 200
        /\ Answered(r, status, None)
    BY <1>1
  <2> HIDE DEF status
  <2>3. /\ ServerTypeOK' /\ SpansAreKept' /\ InOrder' /\ LocalsAreOwn' /\ AnswersFit'
        /\ reply'[r] = [status |-> status, answer |-> None]
        /\ \A s \in Requests \ {r} : reply'[s] = reply[s]
    BY <2>1, <2>2, AnsweredIs
  <2> QED BY <2>3 DEF status
<1>5. emitted[r] = <<>>
  BY DEF ServerInv, InOrder, Underway
<1>6. OneTrace'
  <2>1. ASSUME NEW s \in Requests
        PROVE  Safe(s)' = Safe(s)
    BY DEF Safe
  <2> QED BY <1>1, <1>4, <1>5, <2>1 DEF ServerInv, OneTrace, Traced
<1>7. ErrorsAreKept'
  BY <1>1, <1>4, <1>5 DEF ServerInv, ErrorsAreKept
<1> QED BY <1>4, <1>6, <1>7 DEF ServerInv

\* The status the caller is told, unless a provider's failure breaks the reply.
Told(r, t, code, faults) ==
  IF Breaks(t, "ask_request", TraceHash[r], Safe(r), faults) THEN 500 ELSE code

LEMMA AnswerKeeps ==
  ASSUME ServerTypeOK, ServerInv, NEW r \in Requests, Underway(r),
         NEW t, Below(t, "ask_request") = t, \A n \in DOMAIN t : t[n].ended,
         NEW code \in {200, 404, 502},
         t["ask_request"].status = "error" <=> code # 200,
         NEW faults \in SUBSET DOMAIN setup,
         FinishRoot(r, t, "ask_request", code, Safe(r), faults),
         NEW status, NEW answer \in Answers \cup {None}, Answered(r, status, answer),
         status = Told(r, t, code, faults),
         status = 200 => answer \in Answers /\ Fits(answer, ask[r], r),
         status # 200 => answer = None,
         UNCHANGED <<mode, ask, lastMetrics>>
  PROVE  ServerTypeOK' /\ ServerInv'
<1> DEFINE trace == Trace(t, code, faults)
<1>1. /\ emitted \in [Requests -> Seq(Traces)] /\ emitted[r] = <<>>
      /\ SpansTypeOK /\ setup \in Setups
  BY DEF ServerInv, SpansAreKept, InOrder, Underway, ServerTypeOK, SpansTypeOK
<1>2. /\ setup' = setup /\ trace \in Traces /\ emitted' = [emitted EXCEPT ![r] = <<trace>>]
      /\ received \subseteq received'
      /\ received' \subseteq (DOMAIN setup) \X Requests \X (Nat \ {0})
      /\ \A i \in faults : Exports(setup[i], t, "ask_request", TraceHash[r])
      /\ \A i \in Reached(t, "ask_request", TraceHash[r], Safe(r), faults) \ faults :
           Exports(setup[i], t, "ask_request", TraceHash[r]) => <<i, r, 1>> \in received'
  BY <1>1, RootFinished
<1>3. /\ trace.root = "ask_request" /\ trace.code = code /\ trace.complete /\ trace.failed = faults
      /\ trace.error <=> (code # 200)
  BY DEF Trace
<1> HIDE DEF trace
<1>4. /\ emitted'[r] = <<trace>> /\ \A s \in Requests \ {r} : emitted'[s] = emitted[s]
      /\ emitted' \in [Requests -> Seq(Traces)]
  BY <1>1, <1>2
<1>5. status = IF ~Safe(r) /\ \E i \in faults : setup[i].strict THEN 500 ELSE code
  BY <1>2, BreaksIs DEF Told
<1>6. status \in {200, 404, 500, 502}
  BY DEF Told
<1>7. /\ ServerTypeOK' /\ SpansAreKept' /\ InOrder' /\ LocalsAreOwn' /\ AnswersFit'
      /\ reply'[r] = [status |-> status, answer |-> answer]
      /\ \A s \in Requests \ {r} : reply'[s] = reply[s]
  BY <1>2, <1>4, <1>6, AnsweredIs
<1>8. \A s \in Requests : Safe(s)' = Safe(s)
  BY DEF Safe
<1>9. OneTrace'
  <2>1. Len(emitted'[r]) = 1 /\ emitted'[r][1] = trace /\ emitted'[r] # <<>>
    BY <1>4
  <2>2. Traced(r, trace)'
    BY <1>2, <1>3, <1>5, <1>7, <1>8 DEF Traced
  <2>3. ASSUME NEW s \in Requests \ {r}
        PROVE  /\ Len(emitted'[s]) \in 0..1
               /\ IF emitted'[s] # <<>> THEN Traced(s, emitted[s][1])'
                  ELSE reply'[s] # None => reply'[s].status = 500
    <3>1. /\ Len(emitted[s]) \in 0..1
          /\ IF emitted[s] # <<>> THEN Traced(s, emitted[s][1])
             ELSE reply[s] # None => reply[s].status = 500
      BY DEF ServerInv, OneTrace
    <3>2. emitted'[s] = emitted[s] /\ reply'[s] = reply[s] /\ Safe(s)' = Safe(s) /\ setup' = setup
      BY <1>2, <1>4, <1>7, <1>8
    <3>3. Traced(s, emitted[s][1]) => Traced(s, emitted[s][1])'
      BY <3>2 DEF Traced
    <3> QED BY <3>1, <3>2, <3>3
  <2>4. Len(emitted'[r]) \in 0..1
    BY <2>1
  <2>5. ASSUME NEW s \in Requests
        PROVE  /\ Len(emitted'[s]) \in 0..1
               /\ IF emitted'[s] # <<>> THEN Traced(s, emitted[s][1])'
                  ELSE reply'[s] # None => reply'[s].status = 500
    <3>1. CASE s = r
      BY <2>1, <2>2, <2>4, <3>1
    <3>2. CASE s # r
      BY <2>3, <3>2
    <3> QED BY <3>1, <3>2
  <2> QED BY <2>5 DEF OneTrace
<1>10. ErrorsAreKept'
  <2> SUFFICES ASSUME NEW s \in Requests, NEW i \in DOMAIN setup,
                      reply'[s] # None, emitted'[s] # <<>>, emitted'[s][1].code # 200,
                      KeepsErrors(setup[i])
               PROVE  \/ <<i, s, 1>> \in received'
                      \/ \E j \in emitted'[s][1].failed : j = i \/ (j < i /\ setup[j].strict)
    BY <1>2 DEF ErrorsAreKept, KeepsErrors
  <2>1. CASE s # r
    BY <2>1, <1>2, <1>4, <1>7 DEF ServerInv, ErrorsAreKept, KeepsErrors
  <2>2. CASE s = r
    <3>1. emitted'[r][1] = trace
      BY <1>4
    <3>2. t["ask_request"].status = "error"
      BY <2>2, <3>1, <1>3
    <3>3. /\ Exports(setup[i], t, "ask_request", TraceHash[r])
          /\ \/ i \in Reached(t, "ask_request", TraceHash[r], Safe(r), faults)
             \/ Barred(i, faults)
      <4>1. KeepsErrors(setup[i]) /\ setup \in Setups
        BY <1>1
      <4> QED BY <4>1, <3>2, ErrorReaches
    <3> QED BY <2>2, <3>1, <3>3, <1>2, <1>3 DEF Barred
  <2> QED BY <2>1, <2>2
<1> QED BY <1>7, <1>9, <1>10 DEF ServerInv

-----------------------------------------------------------------------------
(* The steps of a request.                                                 *)

LEMMA OpenSpans ==
  /\ \A place \in {"exists", "thread", "respond"} : OpenAt(place) = {"ask_request"}
  /\ OpenAt("search") = {"ask_request", "legacy_rag", "retrieval"}
  /\ OpenAt("generate") = {"ask_request", "legacy_rag", "llm_generation"}
  /\ \A place \in {"agents", "ending"} : OpenAt(place) = {"ask_request", "workflow"}
  BY DEF OpenAt

LEMMA HandlerHolds ==
  ASSUME ServerTypeOK, ServerInv, NEW r \in Requests, Underway(r)
  PROVE  /\ Tree(tree[r], OpenAt(pc[r])) /\ pc[r] # "replied"
         /\ ask \in [Requests -> Asks \cup {None}] /\ ask[r] \in Asks
         /\ local[r] \in Locals /\ local[r].metrics \in {r, None}
         /\ \A found \in local[r].found : found = ask[r].experiment
         /\ lastMetrics \in [Requests -> Requests \cup {None}]
         /\ \A s \in Requests : lastMetrics[s] \in {s, None}
<1>1. Tree(tree[r], OpenAt(pc[r]))
  BY DEF ServerInv, SpansAreKept
<1>2. ask[r] \in Asks /\ pc[r] # "replied"
  BY DEF ServerInv, InOrder, Underway
<1>3. /\ local[r].metrics \in {r, None}
      /\ \A found \in local[r].found : found = ask[r].experiment
      /\ \A s \in Requests : lastMetrics[s] \in {s, None}
  BY DEF ServerInv, LocalsAreOwn
<1> QED BY <1>1, <1>2, <1>3 DEF ServerTypeOK

LEMMA StepKeeps ==
  ASSUME ServerTypeOK, ServerInv, NEW r \in Requests, Underway(r),
         NEW place \in Places \ {"unsent", "replied"},
         NEW t, Tree(t, OpenAt(place)),
         NEW l \in Locals, l.metrics \in {r, None},
         \A found \in l.found : found = ask[r].experiment,
         Continue(r, t, place, l), UNCHANGED <<mode, ask, lastMetrics>>
  PROVE  ServerTypeOK' /\ ServerInv'
<1>1. /\ mode' = mode /\ pc[r] # "replied"
      /\ ask' \in [Requests -> Asks \cup {None}] /\ ask'[r] \in Asks
      /\ \A s \in Requests \ {r} : ask'[s] = ask[s]
      /\ \A found \in l.found : found = ask'[r].experiment
      /\ lastMetrics' \in [Requests -> Requests \cup {None}]
      /\ \A s \in Requests : lastMetrics'[s] \in {s, None}
  BY HandlerHolds
<1> QED BY <1>1, MoveKeeps

LEMMA RaiseKeeps ==
  ASSUME ServerTypeOK, ServerInv, NEW r \in Requests, Underway(r),
         NEW t, Tree(t, {"ask_request"}), NEW code \in {404, 502},
         RaiseKnown(r, t, code), UNCHANGED <<mode, ask, lastMetrics>>
  PROVE  ServerTypeOK' /\ ServerInv'
<1> DEFINE closed == Fail(t, "ask_request")
<1>1. /\ Below(closed, "ask_request") = closed
      /\ \A n \in DOMAIN closed : closed[n].ended
      /\ closed["ask_request"].status = "error"
  BY FailedTree
<1> HIDE DEF closed
<1>2. PICK faults \in SUBSET DOMAIN setup :
        /\ FinishRoot(r, closed, "ask_request", code, Safe(r), faults)
        /\ Answered(r, IF Breaks(closed, "ask_request", TraceHash[r], Safe(r), faults)
                       THEN 500 ELSE code, None)
  BY DEF RaiseKnown, closed
<1> DEFINE status == Told(r, closed, code, faults)
<1>3. status # 200 /\ Answered(r, status, None)
  BY <1>2 DEF Told
<1>4. status = Told(r, closed, code, faults)
  OBVIOUS
<1> HIDE DEF status
<1>5. closed["ask_request"].status = "error" <=> code # 200
  BY <1>1
<1>6. code \in {200, 404, 502}
  OBVIOUS
<1> QED BY <1>1, <1>2, <1>3, <1>4, <1>5, <1>6, AnswerKeeps

LEMMA RootOpen ==
  ASSUME NEW t, NEW unfinished, Tree(t, unfinished)
  PROVE  "ask_request" \in Parents \cap DOMAIN t
  BY DEF Tree, Parents

LEMMA CheckExistsKeeps ==
  ASSUME ServerTypeOK, ServerInv, NEW r \in Requests, CheckExists(r)
  PROVE  ServerTypeOK' /\ ServerInv'
<1>1. Underway(r) /\ pc[r] = "exists" /\ UNCHANGED <<mode, ask, lastMetrics>>
  BY DEF CheckExists, Underway
<1>2. Tree(tree[r], {"ask_request"})
  BY <1>1, HandlerHolds, OpenSpans
<1>3. CASE RaiseKnown(r, tree[r], 404)
  BY <1>1, <1>2, <1>3, RaiseKeeps
<1>4. CASE RaiseOther(r)
  BY <1>1, <1>4, DropKeeps
<1>5. CASE Continue(r, LegacySpans(tree[r]), "search", local[r])
  <2> DEFINE s == Start(tree[r], "legacy_rag", "ask_request")
             t == LegacySpans(tree[r])
  <2>1. Tree(s, {"ask_request", "legacy_rag"}) /\ "legacy_rag" \in DOMAIN s
    <3>1. "ask_request" \in Parents \cap DOMAIN tree[r] /\ "legacy_rag" \in SpanNames
      BY <1>2, RootOpen DEF SpanNames
    <3>2. Tree(s, {"ask_request"} \cup {"legacy_rag"})
      BY <1>2, <3>1, StartTree
    <3>3. {"ask_request"} \cup {"legacy_rag"} = {"ask_request", "legacy_rag"}
      OBVIOUS
    <3> QED BY <3>2, <3>3 DEF Start
  <2> HIDE DEF s
  <2>2. Tree(Start(s, "retrieval", "legacy_rag"), {"ask_request", "legacy_rag"} \cup {"retrieval"})
    <3>1. "legacy_rag" \in Parents \cap DOMAIN s /\ "retrieval" \in SpanNames
      BY <2>1 DEF SpanNames, Parents
    <3> QED BY <2>1, <3>1, StartTree
  <2>3. Tree(t, OpenAt("search"))
    <3>1. {"ask_request", "legacy_rag"} \cup {"retrieval"} = OpenAt("search")
      BY OpenSpans
    <3> QED BY <2>2, <3>1 DEF LegacySpans, s
  <2> HIDE DEF t
  <2>4. Continue(r, t, "search", local[r]) /\ "search" \in Places \ {"unsent", "replied"}
    BY <1>5 DEF t, Places
  <2> QED BY <1>1, <2>3, <2>4, HandlerHolds, StepKeeps
<1>6. CASE Continue(r, tree[r], "thread", local[r])
  <2>1. Tree(tree[r], OpenAt("thread")) /\ "thread" \in Places \ {"unsent", "replied"}
    BY <1>2, OpenSpans DEF Places
  <2> QED BY <1>1, <1>6, <2>1, HandlerHolds, StepKeeps
<1> QED BY <1>3, <1>4, <1>5, <1>6 DEF CheckExists

\* Two spans, one below the other, that are finished together, well or not.
LEMMA BothFinished ==
  ASSUME NEW t, NEW inner \in DOMAIN t \ {"ask_request"},
         NEW outer \in DOMAIN t \ {"ask_request"},
         Tree(t, {"ask_request", outer, inner})
  PROVE  /\ Tree(Finish(Finish(t, inner), outer), {"ask_request"})
         /\ Tree(Fail(Fail(t, inner), outer), {"ask_request"})
<1>1. /\ Tree(Finish(t, inner), {"ask_request", outer, inner} \ {inner})
      /\ Tree(Fail(t, inner), {"ask_request", outer, inner} \ {inner})
  BY FinishTree, FailTree
<1>2. DOMAIN Finish(t, inner) = DOMAIN t /\ DOMAIN Fail(t, inner) = DOMAIN t
  BY DEF Finish, Fail, RecordError
<1>3. \A u : u = ({"ask_request", outer, inner} \ {inner}) \ {outer} => u = {"ask_request"}
  OBVIOUS
<1> QED BY <1>1, <1>2, <1>3, FinishTree, FailTree

LEMMA SearchKeeps ==
  ASSUME ServerTypeOK, ServerInv, NEW r \in Requests,
         SearchFails(r) \/ SearchFindsNothing(r)
  PROVE  ServerTypeOK' /\ ServerInv'
<1> DEFINE lost == Fail(Fail(tree[r], "retrieval"), "legacy_rag")
           none == Finish(Finish(tree[r], "retrieval"), "legacy_rag")
           l == [local[r] EXCEPT !.metrics = r]
<1>1. Underway(r) /\ pc[r] = "search" /\ UNCHANGED <<mode, ask, lastMetrics>>
  BY DEF SearchFails, SearchFindsNothing, Underway
<1>2. Tree(tree[r], {"ask_request", "legacy_rag", "retrieval"})
  BY <1>1, HandlerHolds, OpenSpans
<1>3. Tree(lost, {"ask_request"}) /\ Tree(none, {"ask_request"})
  <2>1. "retrieval" \in DOMAIN tree[r] \ {"ask_request"}
        /\ "legacy_rag" \in DOMAIN tree[r] \ {"ask_request"}
    BY <1>2 DEF Tree
  <2> QED BY <1>2, <2>1, BothFinished
<1>4. /\ l \in Locals /\ l.metrics \in {r, None}
      /\ \A found \in l.found : found = ask[r].experiment
  BY <1>1, HandlerHolds DEF Locals
<1>5. Tree(none, OpenAt("respond")) /\ "respond" \in Places \ {"unsent", "replied"}
  BY <1>3, OpenSpans DEF Places
<1>6. \/ RaiseKnown(r, lost, 502) \/ Continue(r, none, "respond", l)
  BY DEF SearchFails, SearchFindsNothing
<1> HIDE DEF lost, none, l
<1>7. CASE RaiseKnown(r, lost, 502)
  BY <1>1, <1>3, <1>7, RaiseKeeps
<1>8. CASE Continue(r, none, "respond", l)
  BY <1>1, <1>4, <1>5, <1>8, StepKeeps
<1> QED BY <1>6, <1>7, <1>8

LEMMA SearchFindsKeeps ==
  ASSUME ServerTypeOK, ServerInv, NEW r \in Requests, SearchFinds(r)
  PROVE  ServerTypeOK' /\ ServerInv'
<1> DEFINE t1 == Finish(tree[r], "retrieval")
           t2 == Done(t1, "prompt_rendering", "legacy_rag")
           t3 == Start(t2, "llm_generation", "legacy_rag")
           l == [local[r] EXCEPT !.found = {ask[r].experiment}, !.metrics = r]
           both == {"ask_request", "legacy_rag"}
<1>1. Underway(r) /\ pc[r] = "search" /\ UNCHANGED <<mode, ask, lastMetrics>>
  BY DEF SearchFinds, Underway
<1>2. Tree(tree[r], {"ask_request", "legacy_rag", "retrieval"})
  BY <1>1, HandlerHolds, OpenSpans
<1>3. Tree(t1, both)
  <2>1. "retrieval" \in DOMAIN tree[r] \ {"ask_request"}
    BY <1>2 DEF Tree
  <2>2. {"ask_request", "legacy_rag", "retrieval"} \ {"retrieval"} = both
    OBVIOUS
  <2>3. Tree(t1, {"ask_request", "legacy_rag", "retrieval"} \ {"retrieval"})
    BY <1>2, <2>1, FinishTree
  <2> QED BY <2>2, <2>3
<1> HIDE DEF t1
<1>4. Tree(t2, both)
  <2>1. "legacy_rag" \in Parents \cap DOMAIN t1
    BY <1>3 DEF Tree, Parents
  <2>2. "prompt_rendering" \in SpanNames \ Parents /\ "prompt_rendering" \notin both
    BY DEF SpanNames, Parents
  <2> QED BY <1>3, <2>1, <2>2, DoneTree
<1> HIDE DEF t2
<1>5. Tree(t3, OpenAt("generate"))
  <2>1. "legacy_rag" \in Parents \cap DOMAIN t2 /\ "llm_generation" \in SpanNames
    BY <1>4 DEF Tree, Parents, SpanNames
  <2>2. both \cup {"llm_generation"} = OpenAt("generate")
    BY OpenSpans
  <2>3. Tree(t3, both \cup {"llm_generation"})
    BY <1>4, <2>1, StartTree
  <2> QED BY <2>2, <2>3
<1>6. /\ l \in Locals /\ l.metrics \in {r, None}
      /\ \A found \in l.found : found = ask[r].experiment
  BY <1>1, HandlerHolds DEF Locals, Asks
<1>7. RaiseOther(r) \/ Continue(r, t3, "generate", l)
  BY DEF SearchFinds, t2, t1
<1>8. "generate" \in Places \ {"unsent", "replied"}
  BY DEF Places
<1> HIDE DEF t3, l
<1>9. CASE RaiseOther(r)
  BY <1>1, <1>9, DropKeeps
<1>10. CASE Continue(r, t3, "generate", l)
  BY <1>1, <1>5, <1>6, <1>8, <1>10, StepKeeps
<1> QED BY <1>7, <1>9, <1>10

LEMMA GenerateKeeps ==
  ASSUME ServerTypeOK, ServerInv, NEW r \in Requests, Generate(r)
  PROVE  ServerTypeOK' /\ ServerInv'
<1> DEFINE lost == Fail(Fail(tree[r], "llm_generation"), "legacy_rag")
           done == Finish(Finish(tree[r], "llm_generation"), "legacy_rag")
<1>1. Underway(r) /\ pc[r] = "generate" /\ UNCHANGED <<mode, ask, lastMetrics>>
  BY DEF Generate, Underway
<1>2. Tree(tree[r], {"ask_request", "legacy_rag", "llm_generation"})
  BY <1>1, HandlerHolds, OpenSpans
<1>3. Tree(lost, {"ask_request"}) /\ Tree(done, {"ask_request"})
  <2>1. "llm_generation" \in DOMAIN tree[r] \ {"ask_request"}
        /\ "legacy_rag" \in DOMAIN tree[r] \ {"ask_request"}
    BY <1>2 DEF Tree
  <2> QED BY <1>2, <2>1, BothFinished
<1>4. Tree(done, OpenAt("respond")) /\ "respond" \in Places \ {"unsent", "replied"}
  BY <1>3, OpenSpans DEF Places
<1>5. RaiseKnown(r, lost, 502) \/ Continue(r, done, "respond", local[r])
  BY DEF Generate
<1> HIDE DEF lost, done
<1>6. CASE RaiseKnown(r, lost, 502)
  BY <1>1, <1>3, <1>6, RaiseKeeps
<1>7. CASE Continue(r, done, "respond", local[r])
  BY <1>1, <1>4, <1>7, HandlerHolds, StepKeeps
<1> QED BY <1>5, <1>6, <1>7

LEMMA StartThreadKeeps ==
  ASSUME ServerTypeOK, ServerInv, NEW r \in Requests, StartThread(r)
  PROVE  ServerTypeOK' /\ ServerInv'
<1> DEFINE t == Start(tree[r], "workflow", "ask_request")
<1>1. Underway(r) /\ pc[r] = "thread" /\ UNCHANGED <<mode, ask, lastMetrics>>
  BY DEF StartThread, Underway
<1>2. Tree(tree[r], {"ask_request"})
  BY <1>1, HandlerHolds, OpenSpans
<1>3. Tree(t, OpenAt("agents")) /\ "agents" \in Places \ {"unsent", "replied"}
  <2>1. "ask_request" \in Parents \cap DOMAIN tree[r] /\ "workflow" \in SpanNames
    BY <1>2, RootOpen DEF SpanNames
  <2>2. {"ask_request"} \cup {"workflow"} = OpenAt("agents")
    BY OpenSpans
  <2>3. Tree(t, {"ask_request"} \cup {"workflow"})
    BY <1>2, <2>1, StartTree
  <2> QED BY <2>2, <2>3 DEF Places
<1>4. RaiseKnown(r, tree[r], 502) \/ Continue(r, t, "agents", local[r])
  BY DEF StartThread, ThreadParent
<1> HIDE DEF t
<1>5. CASE RaiseKnown(r, tree[r], 502)
  BY <1>1, <1>2, <1>5, RaiseKeeps
<1>6. CASE Continue(r, t, "agents", local[r])
  BY <1>1, <1>3, <1>6, HandlerHolds, StepKeeps
<1> QED BY <1>4, <1>5, <1>6

LEMMA RunAgentsKeeps ==
  ASSUME ServerTypeOK, ServerInv, NEW r \in Requests, RunAgents(r)
  PROVE  ServerTypeOK' /\ ServerInv'
<1> DEFINE s == Start(tree[r], "retrieval", "workflow")
           open == {"ask_request", "workflow"}
<1>1. Underway(r) /\ pc[r] = "agents" /\ UNCHANGED <<mode, ask>>
  BY DEF RunAgents, Underway
<1>2. Tree(tree[r], open)
  BY <1>1, HandlerHolds, OpenSpans
<1>3. Tree(s, open \cup {"retrieval"})
  <2>1. "workflow" \in Parents \cap DOMAIN tree[r] /\ "retrieval" \in SpanNames
    BY <1>2 DEF Tree, Parents, SpanNames
  <2> QED BY <1>2, <2>1, StartTree
<1> HIDE DEF s
<1>4. Tree(Finish(s, "retrieval"), open) /\ Tree(Fail(s, "retrieval"), open)
  <2>1. "retrieval" \in DOMAIN s \ {"ask_request"}
    BY <1>3 DEF Tree
  <2>2. (open \cup {"retrieval"}) \ {"retrieval"} = open
    OBVIOUS
  <2>3. /\ Tree(Finish(s, "retrieval"), (open \cup {"retrieval"}) \ {"retrieval"})
        /\ Tree(Fail(s, "retrieval"), (open \cup {"retrieval"}) \ {"retrieval"})
    BY <1>3, <2>1, FinishTree, FailTree
  <2> QED BY <2>2, <2>3
<1>5. open = OpenAt("ending") /\ "ending" \in Places \ {"unsent", "replied"}
  BY OpenSpans DEF Places
<1> HIDE DEF open
<1>6. \/ /\ \/ Continue(r, tree[r], "ending", local[r])
            \/ Continue(r, Fail(s, "retrieval"), "ending", local[r])
         /\ UNCHANGED lastMetrics
      \/ \E chunks \in {{}, {ask[r].experiment}} :
           /\ Continue(r, Finish(s, "retrieval"), "ending",
                       [local[r] EXCEPT !.found = chunks, !.searched = TRUE])
           /\ lastMetrics' = [lastMetrics EXCEPT ![r] = r]
  BY DEF RunAgents, s, Client
<1>7. CASE Continue(r, tree[r], "ending", local[r]) /\ UNCHANGED lastMetrics
  <2>1. UNCHANGED <<mode, ask, lastMetrics>>
    BY <1>1, <1>7
  <2> QED BY <1>1, <1>2, <1>5, <1>7, <2>1, HandlerHolds, StepKeeps
<1>8. CASE Continue(r, Fail(s, "retrieval"), "ending", local[r]) /\ UNCHANGED lastMetrics
  <2>1. UNCHANGED <<mode, ask, lastMetrics>>
    BY <1>1, <1>8
  <2> QED BY <1>1, <1>4, <1>5, <1>8, <2>1, HandlerHolds, StepKeeps
<1>9. ASSUME NEW chunks \in {{}, {ask[r].experiment}},
             Continue(r, Finish(s, "retrieval"), "ending",
                      [local[r] EXCEPT !.found = chunks, !.searched = TRUE]),
             lastMetrics' = [lastMetrics EXCEPT ![r] = r]
      PROVE  ServerTypeOK' /\ ServerInv'
  <2> DEFINE l == [local[r] EXCEPT !.found = chunks, !.searched = TRUE]
             t == Finish(s, "retrieval")
  <2>1. /\ l \in Locals /\ l.metrics \in {r, None}
        /\ \A found \in l.found : found = ask[r].experiment
    BY <1>1, HandlerHolds DEF Locals, Asks
  <2>2. /\ ask' \in [Requests -> Asks \cup {None}] /\ ask'[r] \in Asks /\ pc[r] # "replied"
        /\ \A x \in Requests \ {r} : ask'[x] = ask[x]
        /\ mode' = mode /\ ask'[r] = ask[r]
    BY <1>1, HandlerHolds
  <2>3. /\ lastMetrics' \in [Requests -> Requests \cup {None}]
        /\ \A x \in Requests : lastMetrics'[x] \in {x, None}
    BY <1>1, <1>9, HandlerHolds
  <2>4. Tree(t, OpenAt("ending")) /\ Continue(r, t, "ending", l)
    BY <1>4, <1>5, <1>9
  <2> HIDE DEF l, t
  <2>5. \A found \in l.found : found = ask'[r].experiment
    BY <2>1, <2>2
  <2> QED BY <1>5, <2>1, <2>2, <2>3, <2>4, <2>5, MoveKeeps
<1> QED BY <1>6, <1>7, <1>8, <1>9

LEMMA EndWorkflowKeeps ==
  ASSUME ServerTypeOK, ServerInv, NEW r \in Requests, EndWorkflow(r)
  PROVE  ServerTypeOK' /\ ServerInv'
<1> DEFINE open == {"ask_request", "workflow"}
           s == Done(tree[r], "nodes", "workflow")
           t == Finish(s, "workflow")
           lost == Fail(tree[r], "workflow")
           l == [local[r] EXCEPT !.metrics = IF local[r].searched
                                             THEN lastMetrics[r] ELSE None]
<1>1. Underway(r) /\ pc[r] = "ending" /\ UNCHANGED <<mode, ask, lastMetrics>>
  BY DEF EndWorkflow, Underway
<1>2. Tree(tree[r], open)
  BY <1>1, HandlerHolds, OpenSpans
<1>3. Tree(s, open)
  <2>1. "workflow" \in Parents \cap DOMAIN tree[r]
    BY <1>2 DEF Tree, Parents
  <2>2. "nodes" \in SpanNames \ Parents /\ "nodes" \notin open
    BY DEF SpanNames, Parents
  <2> QED BY <1>2, <2>1, <2>2, DoneTree
<1> HIDE DEF s
<1>4. open \ {"workflow"} = {"ask_request"}
  OBVIOUS
<1>5. "workflow" \in DOMAIN s \ {"ask_request"} /\ "workflow" \in DOMAIN tree[r] \ {"ask_request"}
  BY <1>2, <1>3 DEF Tree
<1>6. Tree(t, open \ {"workflow"}) /\ Tree(lost, open \ {"workflow"})
  BY <1>2, <1>3, <1>5, FinishTree, FailTree
<1>7. Tree(t, {"ask_request"}) /\ Tree(lost, {"ask_request"}) /\ Tree(t, OpenAt("respond"))
  BY <1>4, <1>6, OpenSpans
<1>8. t["workflow"].parent # None
  <2>1. "workflow" \in DOMAIN t
    BY <1>5 DEF Finish
  <2>2. t["workflow"].parent = "ask_request"
    BY <1>7, <2>1 DEF Tree
  <2> QED BY <2>2, NoneAssumption DEF SpanNames
<1>9. /\ l \in Locals /\ l.metrics \in {r, None}
      /\ \A found \in l.found : found = ask[r].experiment
  BY <1>1, HandlerHolds DEF Locals
<1>10. \/ RaiseKnown(r, lost, 502)
       \/ CloseSpan(r, t, "workflow") /\ Move(r, t, "respond", l)
  BY DEF EndWorkflow, Client, s
<1> HIDE DEF t, lost, l
<1>11. CASE RaiseKnown(r, lost, 502)
  BY <1>1, <1>7, <1>11, RaiseKeeps
<1>12. CASE CloseSpan(r, t, "workflow") /\ Move(r, t, "respond", l)
  <2>1. Continue(r, t, "respond", l)
    BY <1>8, <1>12 DEF Continue, CloseSpan
  <2>2. "respond" \in Places \ {"unsent", "replied"}
    BY DEF Places
  <2> QED BY <1>1, <1>7, <1>9, <2>1, <2>2, StepKeeps
<1> QED BY <1>10, <1>11, <1>12

LEMMA RespondKeeps ==
  ASSUME ServerTypeOK, ServerInv, NEW r \in Requests, Respond(r)
  PROVE  ServerTypeOK' /\ ServerInv'
<1> DEFINE s == Done(tree[r], "response_serialization", "ask_request")
           t == Finish(s, "ask_request")
           answer == [question |-> ask[r].question, experiment |-> ask[r].experiment,
                      evidence |-> local[r].found, metrics |-> local[r].metrics]
<1>1. Underway(r) /\ pc[r] = "respond" /\ UNCHANGED <<mode, ask, lastMetrics>>
  BY DEF Respond, Underway
<1>2. Tree(tree[r], {"ask_request"})
  BY <1>1, HandlerHolds, OpenSpans
<1>3. Tree(s, {"ask_request"})
  <2>1. "ask_request" \in Parents \cap DOMAIN tree[r]
    BY <1>2, RootOpen
  <2>2. /\ "response_serialization" \in SpanNames \ Parents
        /\ "response_serialization" \notin {"ask_request"}
    BY DEF SpanNames, Parents
  <2> QED BY <1>2, <2>1, <2>2, DoneTree
<1> HIDE DEF s
<1>4. /\ Below(t, "ask_request") = t /\ \A n \in DOMAIN t : t[n].ended
      /\ t["ask_request"].status = "completed"
  BY <1>3, FinishedTree
<1>5. answer \in Answers /\ Fits(answer, ask[r], r)
  BY <1>1, HandlerHolds DEF Answers, Asks, Locals, Fits
<1>6. PICK faults \in SUBSET DOMAIN setup :
        /\ FinishRoot(r, t, "ask_request", 200, Safe(r), faults)
        /\ IF Breaks(t, "ask_request", TraceHash[r], Safe(r), faults)
           THEN Answered(r, 500, None) ELSE Answered(r, 200, answer)
  BY DEF Respond, s
<1> HIDE DEF t, answer
<1> DEFINE code == 200
           status == Told(r, t, code, faults)
           told == IF Breaks(t, "ask_request", TraceHash[r], Safe(r), faults)
                   THEN None ELSE answer
<1>7. Answered(r, status, told) /\ told \in Answers \cup {None}
  BY <1>5, <1>6 DEF Told
<1>8. /\ status = 200 => told \in Answers /\ Fits(told, ask[r], r)
      /\ status # 200 => told = None
  BY <1>5 DEF Told
<1>9. /\ code \in {200, 404, 502}
      /\ t["ask_request"].status = "error" <=> code # 200
      /\ FinishRoot(r, t, "ask_request", code, Safe(r), faults)
      /\ status = Told(r, t, code, faults)
  BY <1>4, <1>6
<1> HIDE DEF code, status, told
<1> QED BY <1>1, <1>4, <1>7, <1>8, <1>9, AnswerKeeps

LEMMA ReceiveKeeps ==
  ASSUME ServerTypeOK, ServerInv, NEW r \in Requests, NEW a \in Asks, Receive(r, a)
  PROVE  ServerTypeOK' /\ ServerInv'
<1> DEFINE t == Start(<<>>, "ask_request", None)
<1>1. /\ pc[r] = "unsent" /\ ask' = [ask EXCEPT ![r] = a] /\ mode' = mode
      /\ lastMetrics' = lastMetrics /\ Continue(r, t, "exists", local[r])
  BY DEF Receive
<1>2. Tree(t, OpenAt("exists"))
  <2>1. DOMAIN t = {"ask_request"}
    BY DEF Start
  <2>2. t["ask_request"] = [parent |-> None, status |-> "pending", ended |-> FALSE]
    BY DEF Start
  <2>3. t = [n \in DOMAIN t |-> t[n]] /\ "ask_request" \in SpanNames
    BY DEF Start, SpanNames
  <2> HIDE DEF t
  <2>4. t["ask_request"] \in SpanRecords
    BY <2>2 DEF SpanRecords, Statuses
  <2>5. IsTree(t)
    BY <2>1, <2>3, <2>4 DEF IsTree
  <2>6. Tree(t, {"ask_request"})
    BY <2>1, <2>2, <2>5 DEF Tree
  <2> QED BY <2>6, OpenSpans
<1> HIDE DEF t
<1>3. /\ ask \in [Requests -> Asks \cup {None}] /\ local[r] \in Locals
      /\ lastMetrics \in [Requests -> Requests \cup {None}]
  BY DEF ServerTypeOK
<1>4. /\ \A s \in Requests : lastMetrics[s] \in {s, None}
      /\ local[r].metrics \in {r, None} /\ local[r].found = {}
  BY <1>1 DEF ServerInv, LocalsAreOwn
<1>5. /\ ask' \in [Requests -> Asks \cup {None}] /\ ask'[r] \in Asks
      /\ \A s \in Requests \ {r} : ask'[s] = ask[s]
  BY <1>1, <1>3
<1>6. /\ "exists" \in Places \ {"unsent", "replied"} /\ pc[r] # "replied"
      /\ \A found \in local[r].found : found = ask'[r].experiment
      /\ lastMetrics' \in [Requests -> Requests \cup {None}]
      /\ \A s \in Requests : lastMetrics'[s] \in {s, None}
  BY <1>1, <1>3, <1>4 DEF Places
<1> QED BY <1>1, <1>2, <1>3, <1>4, <1>5, <1>6, MoveKeeps

\* What a request's handler does leaves the invariant of the server alone.
LEMMA ServeKeeps ==
  ASSUME ServerTypeOK, ServerInv, NEW r \in Requests, Serve(r)
  PROVE  ServerTypeOK' /\ ServerInv'
BY CheckExistsKeeps, SearchKeeps, SearchFindsKeeps, GenerateKeeps, StartThreadKeeps,
   RunAgentsKeeps, EndWorkflowKeeps, RespondKeeps DEF Serve

-----------------------------------------------------------------------------
(* The browser.  A reader's step leaves the server alone, and the server's *)
(* steps the workspace.                                                    *)

LEMMA ServerRests ==
  ASSUME ServerTypeOK, ServerInv, UNCHANGED serverVars
  PROVE  ServerTypeOK' /\ ServerInv'
<1> USE DEF serverVars, requestVars, spanVars
<1>1. ServerTypeOK'
  BY DEF ServerTypeOK, SpansTypeOK
<1>2. SpansAreKept' /\ InOrder' /\ LocalsAreOwn'
  BY DEF ServerInv, SpansAreKept, Underway, InOrder, LocalsAreOwn
<1>3. AnswersFit'
  BY DEF ServerInv, AnswersFit, Fits
<1>4. OneTrace'
  BY DEF ServerInv, OneTrace, Traced, Safe
<1>5. ErrorsAreKept'
  BY DEF ServerInv, ErrorsAreKept
<1> QED BY <1>1, <1>2, <1>3, <1>4, <1>5 DEF ServerInv

\* The types of the browser's variables.
BrowserTypeOK ==
  /\ listed \in Lists
  /\ selected \in Experiments \cup {None}
  /\ view \in [mount : 1..MaxMounts, submitted : Questions \cup {None},
               answer : Answers \cup {None}, submitting : BOOLEAN,
               mutation : {"idle", "pending", "success", "error"},
               current : Requests \cup {None}, error : Problems \cup {None}]
  /\ call \in [Requests -> Calls \cup {None}]
  /\ wire \in [Requests -> {"none", "open", "settled"}]

LEMMA Types == TypeOK <=> ServerTypeOK /\ BrowserTypeOK
  BY DEF TypeOK, BrowserTypeOK

LEMMA ActiveIs ==
  ASSUME BrowserTypeOK
  PROVE  Active \in Experiments /\ Listed(listed) \subseteq Experiments
<1>1. listed \in Seq(Experiments) /\ listed # <<>>
  BY ListsAssumption DEF BrowserTypeOK
<1>2. \A i \in DOMAIN listed : listed[i] \in Experiments
  BY <1>1
<1>3. listed[1] \in Experiments
  BY <1>1
<1> QED BY <1>2, <1>3 DEF BrowserTypeOK, Active, Listed

LEMMA FreshIs ==
  ASSUME BrowserTypeOK, Remount
  PROVE  /\ view' = Fresh(view.mount + 1) /\ view.mount + 1 \in 1..MaxMounts
         /\ view'.current = None /\ view'.answer = None /\ view'.error = None
         /\ view'.mutation = "idle" /\ view'.submitted = None
         /\ view' \in [mount : 1..MaxMounts, submitted : Questions \cup {None},
                       answer : Answers \cup {None}, submitting : BOOLEAN,
                       mutation : {"idle", "pending", "success", "error"},
                       current : Requests \cup {None}, error : Problems \cup {None}]
  BY MountsAssumption DEF BrowserTypeOK, Remount, Fresh

\* A fresh workspace has nothing on display and no call.
LEMMA RemountKeeps ==
  ASSUME BrowserTypeOK, BrowserInv, Remount,
         listed' \in Lists, selected' \in Experiments \cup {None},
         UNCHANGED <<call, wire, ask, pc>>
  PROVE  BrowserTypeOK' /\ BrowserInv'
<1>1. BrowserTypeOK'
  BY FreshIs DEF BrowserTypeOK
<1>2. CallsAreAsked'
  BY DEF BrowserInv, CallsAreAsked
<1>3. CallIsObserved' /\ PageIsCoherent'
  BY FreshIs DEF CallIsObserved, PageIsCoherent, Pending
<1> QED BY <1>1, <1>2, <1>3 DEF BrowserInv

LEMMA SelectionKeeps ==
  ASSUME BrowserTypeOK, BrowserInv,
         listed' \in Lists, selected' \in Experiments \cup {None},
         Active' = Active, UNCHANGED <<view, call, wire, ask, pc>>
  PROVE  BrowserTypeOK' /\ BrowserInv'
<1>1. BrowserTypeOK'
  BY DEF BrowserTypeOK
<1>2. CallsAreAsked'
  BY DEF BrowserInv, CallsAreAsked
<1>3. CallIsObserved'
  BY DEF BrowserInv, CallIsObserved, Pending
<1>4. PageIsCoherent'
  BY DEF BrowserInv, PageIsCoherent, Pending
<1> QED BY <1>1, <1>2, <1>3, <1>4 DEF BrowserInv

LEMMA SelectKeeps ==
  ASSUME BrowserTypeOK, BrowserInv, NEW e, SelectExperiment(e)
  PROVE  BrowserTypeOK' /\ BrowserInv'
<1>1. /\ listed' \in Lists /\ selected' \in Experiments \cup {None}
      /\ UNCHANGED <<call, wire, ask, pc>> /\ selected' = e /\ e \in Experiments
  BY ActiveIs DEF SelectExperiment, serverVars, requestVars, BrowserTypeOK
<1>2. CASE e # Active
  BY <1>1, <1>2, RemountKeeps DEF SelectExperiment
<1>3. CASE e = Active
  <2>1. UNCHANGED view /\ listed' = listed
    BY <1>3 DEF SelectExperiment
  <2>2. Active' = Active
    BY <1>1, <1>3, <2>1 DEF Active
  <2> QED BY <1>1, <2>1, <2>2, SelectionKeeps
<1> QED BY <1>2, <1>3

LEMMA RefetchKeeps ==
  ASSUME BrowserTypeOK, BrowserInv, NEW list \in Lists, RefetchList(list)
  PROVE  BrowserTypeOK' /\ BrowserInv'
<1>1. /\ listed' = list /\ selected' = selected /\ listed' \in Lists
      /\ selected' \in Experiments \cup {None} /\ UNCHANGED <<call, wire, ask, pc>>
  BY DEF RefetchList, serverVars, requestVars, BrowserTypeOK
<1>2. CASE selected = None /\ list[1] # listed[1]
  BY <1>1, <1>2, RemountKeeps DEF RefetchList
<1>3. CASE ~(selected = None /\ list[1] # listed[1])
  <2>1. UNCHANGED view /\ Active' = Active
    BY <1>1, <1>3 DEF RefetchList, Active
  <2> QED BY <1>1, <2>1, SelectionKeeps
<1> QED BY <1>2, <1>3

LEMMA ResetKeeps ==
  ASSUME BrowserTypeOK, BrowserInv, PickExample \/ ResetResult
  PROVE  BrowserTypeOK' /\ BrowserInv'
<1>1. /\ UNCHANGED <<listed, selected, call, wire, ask, pc>>
      /\ view' \in {ResetMutation(view),
                    ResetMutation([view EXCEPT !.answer = None, !.submitted = None])}
  BY DEF PickExample, ResetResult, serverVars, requestVars
<1>2. /\ view'.mutation = "idle" /\ view'.current = None /\ view'.error = None
      /\ view'.mount = view.mount /\ view'.submitting = view.submitting
      /\ \/ view'.answer = view.answer /\ view'.submitted = view.submitted
         \/ view'.answer = None /\ view'.submitted = None
  BY <1>1 DEF BrowserTypeOK, ResetMutation
<1>3. BrowserTypeOK'
  BY <1>1 DEF BrowserTypeOK, ResetMutation
<1>4. CallsAreAsked'
  BY <1>1 DEF BrowserInv, CallsAreAsked
<1>5. CallIsObserved'
  BY <1>2 DEF CallIsObserved
<1>6. PageIsCoherent'
  <2>1. Active' = Active
    BY <1>1 DEF Active
  <2> QED BY <1>2, <2>1 DEF BrowserInv, PageIsCoherent, Pending
<1> QED BY <1>3, <1>4, <1>5, <1>6 DEF BrowserInv

LEMMA SubmitKeeps ==
  ASSUME BrowserTypeOK, BrowserInv, NEW r \in Requests, NEW q \in Questions, Submit(r, q)
  PROVE  BrowserTypeOK' /\ BrowserInv'
<1> DEFINE made == [mount |-> view.mount, question |-> q, experiment |-> Active]
<1>1. /\ UNCHANGED <<listed, selected, ask, pc>> /\ pc[r] = "unsent"
      /\ view' = [view EXCEPT !.submitting = TRUE, !.submitted = q, !.answer = None,
                              !.mutation = "pending", !.current = r, !.error = None]
      /\ call' = [call EXCEPT ![r] = made] /\ wire' = [wire EXCEPT ![r] = "open"]
  BY DEF Submit, Unused, serverVars, requestVars
<1>2. /\ made \in Calls /\ made # None
      /\ made.mount = view.mount /\ made.question = q /\ made.experiment = Active
  BY ActiveIs, AbsenceAssumption DEF BrowserTypeOK, Calls
<1> HIDE DEF made
<1>3. /\ view'.mutation = "pending" /\ view'.current = r /\ view'.error = None
      /\ view'.submitted = q /\ view'.answer = None /\ view'.mount = view.mount
  BY <1>1 DEF BrowserTypeOK
<1>4. call'[r] = made /\ \A s \in Requests \ {r} : call'[s] = call[s]
  BY <1>1 DEF BrowserTypeOK
<1>5. Active' = Active
  BY <1>1 DEF Active
<1>6. BrowserTypeOK'
  BY <1>1, <1>2 DEF BrowserTypeOK
<1>7. CallsAreAsked'
  BY <1>1, <1>4 DEF BrowserInv, CallsAreAsked
<1>8. CallIsObserved'
  BY <1>2, <1>3, <1>4, <1>5 DEF CallIsObserved, Pending
<1>9. PageIsCoherent'
  BY <1>3 DEF PageIsCoherent, Pending, Questions
<1> QED BY <1>6, <1>7, <1>8, <1>9 DEF BrowserInv

\* A call that is settled with the answer to it, or with a problem.
LEMMA SettleKeeps ==
  ASSUME BrowserTypeOK, BrowserInv, NEW r \in Requests,
         NEW answer, NEW error \in Problems \cup {None}, Settle(r, answer, error),
         error = None /\ call[r] # None =>
           /\ answer \in Answers
           /\ answer.question = call[r].question /\ answer.experiment = call[r].experiment
           /\ answer.evidence \subseteq {call[r].experiment}
  PROVE  BrowserTypeOK' /\ BrowserInv'
<1>1. /\ UNCHANGED <<listed, selected, call, ask, pc>> /\ wire[r] = "open"
      /\ wire' = [wire EXCEPT ![r] = "settled"]
  BY DEF Settle, serverVars, requestVars
<1>2. /\ wire' \in [Requests -> {"none", "open", "settled"}] /\ wire'[r] = "settled"
      /\ \A s \in Requests \ {r} : wire'[s] = wire[s]
  BY <1>1 DEF BrowserTypeOK
<1>3. Active' = Active /\ CallsAreAsked'
  BY <1>1 DEF Active, BrowserInv, CallsAreAsked
<1>4. CASE view.mount = call[r].mount /\ view.current = r
  <2>1. /\ call[r] # None /\ Pending
        /\ call[r].question = view.submitted /\ call[r].experiment = Active
        /\ view.submitted \in Questions /\ view.answer = None
    BY <1>1, <1>4, NoneAssumption DEF BrowserInv, CallIsObserved, PageIsCoherent
  <2>2. view' = [view EXCEPT !.mutation = IF error = None THEN "success" ELSE "error",
                             !.error = error,
                             !.answer = IF error = None THEN answer ELSE @,
                             !.submitting = FALSE]
    BY <1>4 DEF Settle
  <2>3. /\ view'.mutation \in {"success", "error"} /\ view'.error = error
        /\ error = None => view'.answer = answer
        /\ error # None => view'.answer = None
        /\ view'.submitted = view.submitted /\ view'.mount = view.mount
        /\ view'.current = r
    BY <1>4, <2>1, <2>2 DEF BrowserTypeOK
  <2>4. BrowserTypeOK'
    <3>1. error = None => answer \in Answers
      BY <2>1
    <3>2. view' \in [mount : 1..MaxMounts, submitted : Questions \cup {None},
                    answer : Answers \cup {None}, submitting : BOOLEAN,
                    mutation : {"idle", "pending", "success", "error"},
                    current : Requests \cup {None}, error : Problems \cup {None}]
      BY <2>2, <3>1 DEF BrowserTypeOK
    <3> QED BY <1>1, <1>2, <3>2 DEF BrowserTypeOK
  <2>5. CallIsObserved'
    BY <1>1, <1>2, <1>3, <2>1, <2>3, <1>4 DEF CallIsObserved
  <2>6. PageIsCoherent'
    BY <1>3, <2>1, <2>3 DEF PageIsCoherent, Pending
  <2> QED BY <1>3, <2>4, <2>5, <2>6 DEF BrowserInv
<1>5. CASE ~(view.mount = call[r].mount /\ view.current = r)
  <2>1. view' = view
    BY <1>5 DEF Settle
  <2>2. BrowserTypeOK'
    BY <1>1, <1>2, <2>1 DEF BrowserTypeOK
  <2>3. CallIsObserved'
    <3>1. view.current # None => view.current # r
      BY <1>5 DEF BrowserInv, CallIsObserved
    <3>2. view.current \in Requests \cup {None}
      BY DEF BrowserTypeOK
    <3> QED BY <1>1, <1>2, <1>3, <2>1, <3>1, <3>2 DEF BrowserInv, CallIsObserved, Pending
  <2>4. PageIsCoherent'
    BY <1>3, <2>1 DEF BrowserInv, PageIsCoherent, Pending
  <2> QED BY <1>3, <2>2, <2>3, <2>4 DEF BrowserInv
<1> QED BY <1>4, <1>5

\* What the client of the service makes of a reply.
LEMMA DeliveredIs ==
  ASSUME BrowserInv, ServerInv, NEW r \in Requests, reply[r] # None
  PROVE  /\ ErrorOf(reply[r].status) \in Problems \cup {None}
         /\ ErrorOf(reply[r].status) = None /\ call[r] # None =>
              /\ reply[r].answer \in Answers
              /\ reply[r].answer.question = call[r].question
              /\ reply[r].answer.experiment = call[r].experiment
              /\ reply[r].answer.evidence \subseteq {call[r].experiment}
<1>1. pc[r] = "replied" /\ reply[r] \in Replies
  BY DEF ServerInv, InOrder
<1>2. /\ ErrorOf(reply[r].status) \in Problems \cup {None}
      /\ ErrorOf(reply[r].status) = None => reply[r].status = 200
  BY <1>1, AbsenceAssumption DEF ErrorOf, Problems, Replies
<1>3. reply[r].status = 200 => reply[r].answer \in Answers /\ Fits(reply[r].answer, ask[r], r)
  BY <1>1 DEF ServerInv, AnswersFit
<1>4. call[r] # None => /\ ask[r].question = call[r].question
                        /\ ask[r].experiment = call[r].experiment
  BY <1>1 DEF BrowserInv, CallsAreAsked
<1> QED BY <1>2, <1>3, <1>4 DEF Fits

LEMMA DeliverKeeps ==
  ASSUME BrowserTypeOK, BrowserInv, ServerInv, NEW r \in Requests, Deliver(r)
  PROVE  BrowserTypeOK' /\ BrowserInv'
<1> DEFINE answer == reply[r].answer
           error == ErrorOf(reply[r].status)
<1>1. /\ Settle(r, answer, error) /\ error \in Problems \cup {None}
      /\ error = None /\ call[r] # None =>
           /\ answer \in Answers
           /\ answer.question = call[r].question /\ answer.experiment = call[r].experiment
           /\ answer.evidence \subseteq {call[r].experiment}
  BY DeliveredIs DEF Deliver
<1> HIDE DEF answer, error
<1> QED BY <1>1, SettleKeeps

LEMMA FailureKeeps ==
  ASSUME BrowserTypeOK, BrowserInv, NEW r \in Requests, NetworkFails(r) \/ TimeOut(r)
  PROVE  BrowserTypeOK' /\ BrowserInv'
<1>1. \A error \in {"network", "timeout"} :
        error \in Problems \cup {None} /\ error # None
  BY AbsenceAssumption DEF Problems
<1>2. \E error \in {"network", "timeout"} : Settle(r, None, error)
  BY DEF NetworkFails, TimeOut
<1> QED BY <1>1, <1>2, SettleKeeps

\* A request that is served was received, and stays so.
LEMMA ServeTouches ==
  ASSUME NEW r \in Requests, pc \in [Requests -> Places], Serve(r)
  PROVE  /\ pc[r] # "unsent" /\ ask' = ask
         /\ \A s \in Requests \ {r} : pc'[s] = pc[s]
<1> USE DEF RaiseKnown, RaiseOther, Answered, Continue, Move
<1>1. CASE CheckExists(r)
  BY <1>1 DEF CheckExists
<1>2. CASE SearchFails(r) \/ SearchFindsNothing(r) \/ SearchFinds(r)
  BY <1>2 DEF SearchFails, SearchFindsNothing, SearchFinds
<1>3. CASE Generate(r)
  BY <1>3 DEF Generate
<1>4. CASE StartThread(r)
  BY <1>4 DEF StartThread
<1>5. CASE RunAgents(r)
  BY <1>5 DEF RunAgents
<1>6. CASE EndWorkflow(r)
  BY <1>6 DEF EndWorkflow
<1>7. CASE Respond(r)
  BY <1>7 DEF Respond
<1> QED BY <1>1, <1>2, <1>3, <1>4, <1>5, <1>6, <1>7 DEF Serve

LEMMA PageRests ==
  ASSUME BrowserTypeOK, BrowserInv, UNCHANGED browserVars, CallsAreAsked'
  PROVE  BrowserTypeOK' /\ BrowserInv'
<1> USE DEF browserVars
<1>1. BrowserTypeOK'
  BY DEF BrowserTypeOK
<1>2. CallIsObserved'
  BY DEF BrowserInv, CallIsObserved, Active, Pending
<1>3. PageIsCoherent'
  BY DEF BrowserInv, PageIsCoherent, Active, Pending
<1> QED BY <1>1, <1>2, <1>3 DEF BrowserInv

LEMMA ArrivalKeeps ==
  ASSUME TypeOK, ServerInv, BrowserInv, NEW r \in Requests, NEW a \in Asks,
         Receive(r, a), UNCHANGED browserVars,
         call[r] # None => a.question = call[r].question /\ a.experiment = call[r].experiment
  PROVE  TypeOK' /\ ServerInv' /\ BrowserInv'
<1>1. ServerTypeOK /\ BrowserTypeOK
  BY Types
<1>2. ServerTypeOK' /\ ServerInv'
  BY <1>1, ReceiveKeeps
<1>3. /\ ask' = [ask EXCEPT ![r] = a] /\ pc' = [pc EXCEPT ![r] = "exists"] /\ call' = call
      /\ ask \in [Requests -> Asks \cup {None}] /\ pc \in [Requests -> Places]
  BY <1>1 DEF Receive, Continue, Move, browserVars, ServerTypeOK
<1>4. CallsAreAsked'
  BY <1>3 DEF BrowserInv, CallsAreAsked
<1>5. BrowserTypeOK' /\ BrowserInv'
  BY <1>1, <1>4, PageRests
<1> QED BY <1>2, <1>5 DEF TypeOK, BrowserTypeOK

-----------------------------------------------------------------------------
(* The invariant, and what follows from it.                                *)

LEMMA InitInvariant ==
  ASSUME Init
  PROVE  IInv
<1> USE DEF Init, ServerInit, SpansInit
<1>1. /\ setup \in Setups /\ mode \in {"legacy_rag", "agent_workflow"}
      /\ \A r \in Requests : /\ tree[r] = <<>> /\ emitted[r] = <<>> /\ ask[r] = None
                             /\ pc[r] = "unsent" /\ local[r] = NoLocals
                             /\ lastMetrics[r] = None /\ reply[r] = None
                             /\ call[r] = None /\ wire[r] = "none"
  BY ProcessesAssumption
<1>2. tree = [r \in Requests |-> tree[r]] /\ emitted \in [Requests -> Seq(Traces)]
  OBVIOUS
<1>3. ServerTypeOK
  <2>1. SpansTypeOK
    <3>1. DOMAIN <<>> = {} /\ <<>> \in Seq(Traces)
      OBVIOUS
    <3> QED BY <1>1, <3>1 DEF SpansTypeOK
  <2>2. "unsent" \in Places
    BY DEF Places
  <2> QED BY <1>1, <2>1, <2>2, NothingHeld DEF ServerTypeOK
<1>4. BrowserTypeOK
  BY MountsAssumption DEF BrowserTypeOK, Fresh
<1>5. SpansAreKept
  BY <1>1, <1>2 DEF SpansAreKept, Underway
<1>6. InOrder
  BY <1>1 DEF InOrder
<1>7. LocalsAreOwn
  BY <1>1, NothingHeld DEF LocalsAreOwn
<1>8. AnswersFit
  BY <1>1 DEF AnswersFit
<1>9. OneTrace
  <2>1. Len(<<>>) \in 0..1
    OBVIOUS
  <2> QED BY <1>1, <2>1 DEF OneTrace
<1>10. ErrorsAreKept
  BY <1>1 DEF ErrorsAreKept
<1>11. BrowserInv
  BY <1>1 DEF BrowserInv, CallsAreAsked, CallIsObserved, PageIsCoherent, Pending, Fresh
<1> QED BY <1>3, <1>4, <1>5, <1>6, <1>7, <1>8, <1>9, <1>10, <1>11, Types
        DEF IInv, ServerInv

LEMMA ReaderKeeps ==
  ASSUME IInv, Reader
  PROVE  IInv'
<1>1. ServerTypeOK /\ BrowserTypeOK /\ ServerInv /\ BrowserInv
  BY Types DEF IInv
<1>2. UNCHANGED serverVars
  BY DEF Reader, SelectExperiment, RefetchList, PickExample, ResetResult, Ask, Retry, Submit
<1>3. ServerTypeOK' /\ ServerInv'
  BY <1>1, <1>2, ServerRests
<1>4. BrowserTypeOK' /\ BrowserInv'
  <2>1. ASSUME NEW e \in Experiments, SelectExperiment(e)
        PROVE  BrowserTypeOK' /\ BrowserInv'
    BY <1>1, <2>1, SelectKeeps
  <2>2. ASSUME NEW list \in Lists, RefetchList(list)
        PROVE  BrowserTypeOK' /\ BrowserInv'
    BY <1>1, <2>2, RefetchKeeps
  <2>3. ASSUME PickExample \/ ResetResult
        PROVE  BrowserTypeOK' /\ BrowserInv'
    BY <1>1, <2>3, ResetKeeps
  <2>4. ASSUME NEW r \in Requests, Ask(r) \/ Retry(r)
        PROVE  BrowserTypeOK' /\ BrowserInv'
    <3>1. view.error \in Retriable => view.submitted \in Questions
      BY <1>1, AbsenceAssumption DEF BrowserInv, PageIsCoherent, Retriable, Problems
    <3>2. \E q \in Questions : Submit(r, q)
      BY <2>4, <3>1 DEF Ask, Retry, Questions
    <3> QED BY <1>1, <3>2, SubmitKeeps
  <2> QED BY <2>1, <2>2, <2>3, <2>4 DEF Reader
<1> QED BY <1>3, <1>4 DEF IInv, TypeOK, BrowserTypeOK

LEMMA ServerKeeps ==
  ASSUME IInv, Server
  PROVE  IInv'
<1>1. TypeOK /\ ServerTypeOK /\ BrowserTypeOK /\ ServerInv /\ BrowserInv
  BY Types DEF IInv
<1>2. ASSUME NEW r \in Requests, Arrive(r)
      PROVE  IInv'
  <2> DEFINE a == [question |-> call[r].question,
                   experiment |-> call[r].experiment, analysis |-> FALSE]
  <2>1. call[r] \in Calls
    BY <1>1, <1>2 DEF Arrive, BrowserTypeOK
  <2>2. /\ a \in Asks /\ a.question = call[r].question /\ a.experiment = call[r].experiment
        /\ Receive(r, a) /\ UNCHANGED browserVars
    BY <1>2, <2>1 DEF Arrive, Asks, Calls
  <2> HIDE DEF a
  <2> QED BY <1>1, <2>2, ArrivalKeeps DEF IInv
<1>3. ASSUME NEW r \in Requests, NEW e \in DirectAsks, AskDirectly(r, e)
      PROVE  IInv'
  <2> DEFINE a == [question |-> r, experiment |-> e, analysis |-> TRUE]
  <2>1. /\ a \in Asks /\ call[r] = None /\ Receive(r, a) /\ UNCHANGED browserVars
    BY <1>3, DirectAsksAssumption DEF AskDirectly, Unused, Asks, Questions
  <2> HIDE DEF a
  <2> QED BY <1>1, <2>1, ArrivalKeeps DEF IInv
<1>4. ASSUME NEW r \in Requests, Serve(r), UNCHANGED browserVars
      PROVE  IInv'
  <2>1. ServerTypeOK' /\ ServerInv'
    BY <1>1, <1>4, ServeKeeps
  <2>2. /\ pc[r] # "unsent" /\ ask' = ask /\ call' = call
        /\ \A s \in Requests \ {r} : pc'[s] = pc[s]
    BY <1>1, <1>4, ServeTouches DEF ServerTypeOK, browserVars
  <2>3. CallsAreAsked'
    BY <1>1, <2>2 DEF BrowserInv, CallsAreAsked
  <2>4. BrowserTypeOK' /\ BrowserInv'
    BY <1>1, <1>4, <2>3, PageRests
  <2> QED BY <2>1, <2>4 DEF IInv, TypeOK, BrowserTypeOK
<1> QED BY <1>2, <1>3, <1>4 DEF Server

LEMMA NetworkKeeps ==
  ASSUME IInv, Network
  PROVE  IInv'
<1>1. ServerTypeOK /\ BrowserTypeOK /\ ServerInv /\ BrowserInv
  BY Types DEF IInv
<1>2. UNCHANGED serverVars
  BY DEF Network, Deliver, NetworkFails, TimeOut, Settle
<1>3. ServerTypeOK' /\ ServerInv'
  BY <1>1, <1>2, ServerRests
<1>4. BrowserTypeOK' /\ BrowserInv'
  BY <1>1, DeliverKeeps, FailureKeeps DEF Network
<1> QED BY <1>3, <1>4 DEF IInv, TypeOK, BrowserTypeOK

LEMMA NextKeeps ==
  ASSUME IInv, [Next]_vars
  PROVE  IInv'
<1>1. CASE UNCHANGED vars
  <2>1. UNCHANGED serverVars /\ UNCHANGED browserVars
    BY <1>1 DEF vars
  <2>2. ServerTypeOK /\ BrowserTypeOK /\ ServerInv /\ BrowserInv
    BY Types DEF IInv
  <2>3. ServerTypeOK' /\ ServerInv'
    BY <2>1, <2>2, ServerRests
  <2>4. CallsAreAsked'
    BY <2>1, <2>2 DEF BrowserInv, CallsAreAsked, browserVars, serverVars, requestVars
  <2>5. BrowserTypeOK' /\ BrowserInv'
    BY <2>1, <2>2, <2>4, PageRests
  <2> QED BY <2>3, <2>5 DEF IInv, TypeOK, BrowserTypeOK
<1> QED BY <1>1, ReaderKeeps, ServerKeeps, NetworkKeeps DEF Next

LEMMA Invariant == Spec => []IInv
<1> QED BY InitInvariant, NextKeeps, PTL DEF Spec

\* The types of the page, the calls, the requests and the spans.
THEOREM TypeCorrect == Spec => []TypeOK
BY Invariant, PTL DEF IInv

\* Whatever was asked before, was reset, or still is on its way: an answer on
\* display is the one to the question above it, with evidence of the selected
\* experiment only.
THEOREM ShownIsAskedHolds == Spec => []ShownIsAsked
<1>1. IInv => ShownIsAsked
  BY DEF IInv, BrowserInv, PageIsCoherent, ShownIsAsked, Shown
<1> QED BY <1>1, Invariant, PTL

\* An answer reports the retrieval metrics of its own search, for any number
\* of workflows whose threads interleave.
THEOREM MetricsAreOwnHolds == Spec => []MetricsAreOwn
<1>1. ASSUME IInv PROVE MetricsAreOwn
  <2> SUFFICES ASSUME NEW r \in Requests, reply[r] # None, reply[r].answer # None
               PROVE  reply[r].answer.metrics \in {r, None}
    BY DEF MetricsAreOwn
  <2>1. pc[r] = "replied"
    BY <1>1 DEF IInv, ServerInv, InOrder
  <2>2. Fits(reply[r].answer, ask[r], r)
    BY <1>1, <2>1 DEF IInv, ServerInv, AnswersFit
  <2> QED BY <2>2 DEF Fits
<1> QED BY <1>1, Invariant, PTL

\* A request has one trace, of the request span and with all its spans below
\* it finished, and the reply is the one the trace reports unless a strict
\* provider failed outside the wrapper; without a trace it is a server error.
THEOREM OneTraceHolds == Spec => []OneTrace
BY Invariant, PTL DEF IInv, ServerInv

\* A failure the handler knows reaches every provider that keeps errors or
\* samples everything, unless it or a strict one before it failed.
THEOREM ErrorsAreKeptHolds == Spec => []ErrorsAreKept
BY Invariant, PTL DEF IInv, ServerInv

-----------------------------------------------------------------------------
(* The page is the reader's view.                                          *)

\* What the panel shows, case by case.
PanelCases ==
  /\ Pending => Panel = View!Loading(view.submitted)
  /\ ~Pending /\ view.error # None => Panel = View!Problem
  /\ ~Pending /\ view.error = None /\ view.answer # None =>
       Panel = View!Answer(view.answer.question, view.answer.evidence)
  /\ ~Pending /\ view.error = None /\ view.answer = None => Panel = View!Empty

LEMMA PanelIs == PanelCases /\ PanelCases'
<1>1. PanelCases
  BY DEF PanelCases, Panel, Shown, View!Loading, View!Problem, View!Answer, View!Empty
<1>2. PanelCases'
  BY DEF PanelCases, Panel, Shown, View!Loading, View!Problem, View!Answer, View!Empty
<1> QED BY <1>1, <1>2

\* Whether something is loading shows on the panel.
LEMMA LoadingShows == Panel.kind = "loading" <=> Pending
  BY PanelIs DEF PanelCases, View!Loading, View!Problem, View!Answer, View!Empty

LEMMA ChangeShows ==
  ASSUME BrowserTypeOK, Remount, Active' # Active
  PROVE  View!Change
<1>1. ~Pending' /\ view'.error = None /\ view'.answer = None
  BY FreshIs DEF Pending
<1> QED BY <1>1, PanelIs DEF PanelCases, View!Change, View!Empty

LEMMA PageStutters ==
  ASSUME UNCHANGED view, Active' = Active
  PROVE  UNCHANGED <<Active, Panel>>
  BY DEF Panel, Shown, Pending

LEMMA ReaderShows ==
  ASSUME BrowserTypeOK, BrowserInv, Reader
  PROVE  [View!Next]_<<Active, Panel>>
<1>1. ASSUME NEW e \in Experiments, SelectExperiment(e)
      PROVE  [View!Next]_<<Active, Panel>>
  <2>1. Active' = e
    BY <1>1, AbsenceAssumption DEF SelectExperiment, Active
  <2>2. CASE e # Active
    BY <1>1, <2>1, <2>2, ChangeShows DEF SelectExperiment, View!Next
  <2>3. CASE e = Active
    BY <1>1, <2>1, <2>3, PageStutters DEF SelectExperiment
  <2> QED BY <2>2, <2>3
<1>2. ASSUME NEW list \in Lists, RefetchList(list)
      PROVE  [View!Next]_<<Active, Panel>>
  <2>1. listed' = list /\ selected' = selected
    BY <1>2 DEF RefetchList
  <2>2. CASE selected = None /\ list[1] # listed[1]
    <3>1. Active' # Active
      BY <2>1, <2>2 DEF Active
    <3> QED BY <1>2, <2>2, <3>1, ChangeShows DEF RefetchList, View!Next
  <2>3. CASE ~(selected = None /\ list[1] # listed[1])
    <3>1. Active' = Active
      BY <2>1, <2>3 DEF Active
    <3> QED BY <1>2, <2>3, <3>1, PageStutters DEF RefetchList
  <2> QED BY <2>2, <2>3
<1>3. ASSUME PickExample \/ ResetResult
      PROVE  [View!Next]_<<Active, Panel>>
  <2>1. Active' = Active /\ ~Pending
    BY <1>3 DEF PickExample, ResetResult, Active, Pending, BrowserInv, PageIsCoherent
  <2>2. /\ ~Pending' /\ view'.error = None
        /\ \/ view'.answer = view.answer
           \/ view'.answer = None
    BY <1>3 DEF PickExample, ResetResult, ResetMutation, Pending, BrowserTypeOK
  <2>3. CASE view'.answer = None
    <3>1. Panel' = View!Empty
      BY <2>2, <2>3, PanelIs DEF PanelCases, View!Empty
    <3> QED BY <2>1, <3>1, LoadingShows DEF View!Next, View!Clear
  <2>4. CASE view'.answer = view.answer /\ view.answer # None
    <3>1. view.error = None
      BY <2>4 DEF BrowserInv, PageIsCoherent
    <3>2. Panel' = Panel
      BY <2>1, <2>2, <2>4, <3>1, PanelIs DEF PanelCases, View!Answer
    <3> QED BY <2>1, <3>2
  <2> QED BY <2>2, <2>3, <2>4
<1>4. ASSUME NEW r \in Requests, Ask(r) \/ Retry(r)
      PROVE  [View!Next]_<<Active, Panel>>
  <2>1. view.error \in Retriable => view.submitted \in Questions
    BY AbsenceAssumption DEF BrowserInv, PageIsCoherent, Retriable, Problems
  <2>2. PICK q \in Questions : Submit(r, q)
    BY <1>4, <2>1 DEF Ask, Retry, Questions
  <2>3. /\ ~Pending /\ Pending' /\ view'.submitted = q /\ Active' = Active
    BY <2>2 DEF Submit, Pending, Active, BrowserTypeOK
  <2>4. Panel' = View!Loading(q)
    BY <2>3, PanelIs DEF PanelCases, View!Loading
  <2> QED BY <2>3, <2>4, LoadingShows DEF View!Next, View!Ask
<1> QED BY <1>1, <1>2, <1>3, <1>4 DEF Reader

LEMMA SettleShows ==
  ASSUME BrowserTypeOK, BrowserInv, NEW r \in Requests,
         NEW answer, NEW error \in Problems \cup {None}, Settle(r, answer, error),
         error = None /\ call[r] # None =>
           /\ answer \in Answers
           /\ answer.question = call[r].question /\ answer.experiment = call[r].experiment
           /\ answer.evidence \subseteq {call[r].experiment}
  PROVE  [View!Next]_<<Active, Panel>>
<1>1. Active' = Active /\ wire[r] = "open"
  BY DEF Settle, Active
<1>2. CASE ~(view.mount = call[r].mount /\ view.current = r)
  BY <1>1, <1>2, PageStutters DEF Settle
<1>3. CASE view.mount = call[r].mount /\ view.current = r
  <2>1. /\ call[r] # None /\ Pending
        /\ call[r].question = view.submitted /\ call[r].experiment = Active
    BY <1>1, <1>3, NoneAssumption DEF BrowserInv, CallIsObserved
  <2>2. /\ ~Pending' /\ view'.error = error
        /\ error = None => view'.answer = answer
    BY <1>3 DEF Settle, Pending, BrowserTypeOK
  <2>3. Panel = View!Loading(view.submitted)
    BY <2>1, PanelIs DEF PanelCases
  <2>4. Panel.kind = "loading" /\ Panel.question = view.submitted
    BY <2>3 DEF View!Loading
  <2>5. CASE error # None
    <3>1. Panel' = View!Problem
      BY <2>2, <2>5, PanelIs DEF PanelCases, View!Problem
    <3> QED BY <1>1, <2>4, <3>1 DEF View!Next, View!Conclude
  <2>6. CASE error = None
    <3>1. /\ answer # None /\ answer.question = Panel.question
          /\ answer.evidence \in SUBSET {Active}
      BY <2>1, <2>4, <2>6, AbsenceAssumption
    <3>2. Panel' = View!Answer(Panel.question, answer.evidence)
      BY <2>2, <2>6, <3>1, PanelIs DEF PanelCases, View!Answer
    <3> QED BY <1>1, <2>4, <3>1, <3>2 DEF View!Next, View!Conclude
  <2> QED BY <2>5, <2>6
<1> QED BY <1>2, <1>3

LEMMA NetworkShows ==
  ASSUME BrowserTypeOK, BrowserInv, ServerInv, Network
  PROVE  [View!Next]_<<Active, Panel>>
<1>1. ASSUME NEW r \in Requests, Deliver(r)
      PROVE  [View!Next]_<<Active, Panel>>
  <2> DEFINE answer == reply[r].answer
             error == ErrorOf(reply[r].status)
  <2>1. /\ Settle(r, answer, error) /\ error \in Problems \cup {None}
        /\ error = None /\ call[r] # None =>
             /\ answer \in Answers
             /\ answer.question = call[r].question /\ answer.experiment = call[r].experiment
             /\ answer.evidence \subseteq {call[r].experiment}
    BY <1>1, DeliveredIs DEF Deliver
  <2> HIDE DEF answer, error
  <2> QED BY <2>1, SettleShows
<1>2. ASSUME NEW r \in Requests, NetworkFails(r) \/ TimeOut(r)
      PROVE  [View!Next]_<<Active, Panel>>
  <2>1. \A error \in {"network", "timeout"} :
          error \in Problems \cup {None} /\ error # None
    BY AbsenceAssumption DEF Problems
  <2>2. \E error \in {"network", "timeout"} : Settle(r, None, error)
    BY <1>2 DEF NetworkFails, TimeOut
  <2> QED BY <2>1, <2>2, SettleShows
<1> QED BY <1>1, <1>2 DEF Network

\* Every step of the page, of its calls and of the server is one the reader's
\* view promises, or does not show: the safety part of ImplementsView.
THEOREM Refinement == Spec => View!Spec
<1>1. ASSUME Init PROVE View!Init
  <2>1. BrowserTypeOK /\ view = Fresh(1)
    <3>1. IInv
      BY <1>1, InitInvariant
    <3> QED BY <1>1, <3>1, Types DEF IInv, Init
  <2>2. ~Pending /\ view.error = None /\ view.answer = None
    BY <2>1 DEF Pending, Fresh
  <2> QED BY <2>1, <2>2, ActiveIs, PanelIs DEF PanelCases, View!Init, View!Empty
<1>2. ASSUME IInv, [Next]_vars PROVE [View!Next]_<<Active, Panel>>
  <2>1. BrowserTypeOK /\ BrowserInv /\ ServerInv
    BY <1>2, Types DEF IInv
  <2>2. ASSUME UNCHANGED browserVars PROVE UNCHANGED <<Active, Panel>>
    BY <2>2, PageStutters DEF browserVars, Active
  <2>3. CASE Server
    BY <2>2, <2>3 DEF Server, Arrive, AskDirectly
  <2>4. CASE UNCHANGED vars
    BY <2>2, <2>4 DEF vars
  <2> QED BY <1>2, <2>1, <2>3, <2>4, ReaderShows, NetworkShows DEF Next
<1> QED BY <1>1, <1>2, Invariant, PTL DEF Spec, View!Spec
=============================================================================
