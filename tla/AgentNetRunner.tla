--------------------------- MODULE AgentNetRunner ---------------------------
(***************************************************************************)
(* The host of the agent Net (petrus/agenticus/runtime/agent_net_runner.py,*)
(* AgentNetRunner): the Engine's History is one file, the Thread           *)
(* projection another, the Episode Attachment a third custody.  The host   *)
(* dies between any two steps and is loaded again over what is durable.    *)
(*                                                                         *)
(* The Net itself is petrus/agenticus/program/agent_net.py.  One token     *)
(* moves through model_pending, model_settled, tool_pending, tool_settled  *)
(* and done.  A proposal is the method it asks for; a result is "ok" or    *)
(* the category of its error.  What a model phase leaves behind (output    *)
(* and Continuation references) is its occurrence.                         *)
(*                                                                         *)
(* A pure firing is one step: its begin record alone changes nothing the   *)
(* runner reads, and a reload completes it to the same end.                *)
(***************************************************************************)
EXTENDS Thread

CONSTANTS
    PhaseLimit,   \* LoopState.phase_limit
    ToolLimit,    \* LoopState.tool_limit
    Capabilities, \* LoopState.capabilities
    Answers,      \* what a model phase may return: [stop, batch]
    ToolResults,  \* what Hands may return
    Failing,      \* Activities ("model", "hands") that may raise
    Misfit,       \* whether a model phase may return a settlement of another state
    Settlements,  \* how an attempt to settle the Attachment may end
    Revocable,    \* whether the host may replace the grant
    MaxCrashes,
    MaxSettles    \* attempts to settle the Attachment, after which it is verified

-----------------------------------------------------------------------------
(* The Net *)

\* LoopState, with the batch a ToolWork carries and the stop reason of a
\* ModelSettlement.
LoopState(phase, tools, ref, results) ==
    [phase |-> phase, tools |-> tools, ref |-> ref, results |-> results]

Token(place, state, stop, batch) ==
    [place |-> place, state |-> state, stop |-> stop, batch |-> batch]

initial_marking == Token("model_pending", LoopState(1, 0, 0, <<>>), "none", <<>>)

Terminal(state, code) == Token("done", state, code, <<>>)

\* _ModelActivity.project.
ModelSettled(token, ref, answer) ==
    Token("model_settled", [token.state EXCEPT !.ref = ref], answer.stop, answer.batch)

Proposal(work) == work.batch[Len(work.state.results) + 1]

_allowed(work) == Proposal(work) \in Capabilities /\ work.state.tools < ToolLimit

\* _HandsActivity.project.
ToolSettled(work, result) == [work EXCEPT !.place = "tool_settled", !.stop = result]

NextPhase(state) == Token("model_pending", [state EXCEPT !.phase = @ + 1], "none", <<>>)

_continue(work, state) ==
    IF Len(state.results) < Len(work.batch)
    THEN Token("tool_pending", state, "none", work.batch)
    ELSE IF state.phase >= PhaseLimit THEN Terminal(state, "phase-budget-exhausted") ELSE NextPhase(state)

_classify(token) ==
    LET state == [token.state EXCEPT !.results = <<>>]
        rejected == [state EXCEPT !.results = [i \in DOMAIN token.batch |-> "provider"]]
    IN
    CASE token.stop = "error" -> Terminal(state, "failed")
      [] token.stop = "aborted" -> Terminal(state, "cancelled")
      [] token.batch = <<>> -> Terminal(state, "completed")
      [] token.stop = "length" ->
            IF state.phase >= PhaseLimit THEN Terminal(rejected, "phase-budget-exhausted") ELSE NextPhase(rejected)
      [] state.tools >= ToolLimit -> Terminal(state, "tool-budget-exhausted")
      [] OTHER -> Token("tool_pending", state, "none", token.batch)

_reject_tool(work) ==
    LET answered(category) == [work.state EXCEPT !.results = Append(@, category)] IN
    IF work.state.tools >= ToolLimit
    THEN Terminal(answered("budget"), "tool-budget-exhausted")
    ELSE _continue(work, answered("capability"))

_record(work) ==
    LET state == [work.state EXCEPT !.results = Append(@, work.stop), !.tools = @ + 1] IN
    IF work.stop = "aborted" THEN Terminal(state, "cancelled") ELSE _continue(work, state)

\* The transition the token enables that runs at the writer.
PureStep(token) ==
    CASE token.place = "model_settled" -> _classify(token)
      [] token.place = "tool_settled" -> _record(token)
      [] token.place = "tool_pending" -> _reject_tool(token)

\* The Activity the token enables, or "none".
EnabledActivity(token) ==
    CASE token.place = "model_pending" -> "model"
      [] token.place = "tool_pending" /\ _allowed(token) -> "hands"
      [] OTHER -> "none"

-----------------------------------------------------------------------------
(* Its host *)

VARIABLES
    history,      \* the Activity facts of the Engine's History
    net,          \* the marking: the one token
    flight,       \* the Activity occurrence in flight
    projection,   \* the durable AgentNetThreadProjection, or None
    attachment,   \* [custody, grant] of the Episode Attachment
    runner,       \* the host process: where it is, and why it is there
    arrived,      \* InlineDispatch._completed
    crossings,    \* [occurrences -> times their Activity was executed]
    crashes, settles

durable == <<history, net, flight, projection, attachment>>
vars == <<durable, runner, arrived, crossings, crashes, settles>>

MaxOccurrences == PhaseLimit + ToolLimit

NoFlight == [occ |-> 0, activity |-> "none", frozen |-> "no", answer |-> <<>>]
Down == [at |-> "down", via |-> "none", fresh |-> TRUE]

program == CHOOSE p \in Programs : TRUE

Init ==
    /\ history = <<>> /\ net = initial_marking /\ flight = NoFlight
    /\ projection = None
    /\ attachment = [custody |-> "open", grant |-> TRUE]
    /\ runner = Down /\ arrived = <<>>
    /\ crossings = [o \in 1 .. MaxOccurrences |-> 0]
    /\ crashes = 0 /\ settles = 0

At(pc) == runner.at = pc
Goto(pc) == runner' = [runner EXCEPT !.at = pc]

\* The call ends with an exception: advance leaves the runner as it is, create
\* and load return none.
Raise == runner' = IF runner.via = "open" THEN Down ELSE [runner EXCEPT !.at = "idle"]

Settled(p) == p.terminal # None \/ p.halt # None
CurrentGrant == attachment.grant /\ attachment.custody = "open"

Turn == "turn"

-----------------------------------------------------------------------------
(* create, load, _open                                                     *)

create ==
    /\ At("down") /\ projection = None /\ history = <<>> /\ CurrentGrant
    /\ LET started == StartEpisode(NewThread(None), "episode", program, EpisodeBudget(1, PhaseLimit)) IN
       projection' = [thread |-> ReplaceActive(started, StartTurn(LastEpisode(started), Turn)),
                      appends |-> <<>>, hands |-> <<>>, terminal |-> None, halt |-> None]
    /\ runner' = [at |-> "project", via |-> "open", fresh |-> TRUE]
    /\ UNCHANGED <<history, net, flight, attachment, arrived, crossings, crashes, settles>>

\* Only the coordinates of the Attachment are compared; a grant is not required yet.
load ==
    /\ At("down") /\ projection # None
    /\ runner' = [at |-> "project", via |-> "open", fresh |-> TRUE]
    /\ UNCHANGED <<durable, arrived, crossings, crashes, settles>>

-----------------------------------------------------------------------------
(* advance: the Engine's part                                              *)

\* A settled runner or a grant that is not current is refused before anything.
advance ==
    /\ At("idle") /\ ~Settled(projection) /\ CurrentGrant
    /\ runner' = [runner EXCEPT !.via = "advance", !.at = IF runner.fresh THEN "reconcile" ELSE "choose"]
    /\ UNCHANGED <<durable, arrived, crossings, crashes, settles>>

\* InlineDispatch.dispatch: the Activity runs to its end, or raises.
Outcomes(activity) ==
    IF activity = "model"
    THEN {[ok |-> TRUE, answer |-> a] : a \in Answers \cup (IF Misfit THEN {[stop |-> "misfit", batch |-> <<>>]} ELSE {})}
         \cup {[ok |-> FALSE, answer |-> [stop |-> "raised", batch |-> <<>>]] : f \in Failing \cap {"model"}}
    ELSE {[ok |-> TRUE, answer |-> r] : r \in ToolResults}
         \cup {[ok |-> FALSE, answer |-> "raised"] : f \in Failing \cap {"hands"}}

Execute ==
    /\ At("execute")
    /\ crossings' = [crossings EXCEPT ![flight.occ] = @ + 1]
    /\ \E outcome \in Outcomes(flight.activity) : arrived' = Append(arrived, outcome)
    /\ Goto("project")
    /\ UNCHANGED <<durable, crashes, settles>>

\* _reconcile: an occurrence without a terminal fact is dispatched again, one
\* with a frozen result is projected.
Reconcile ==
    /\ At("reconcile")
    /\ runner' = [runner EXCEPT !.fresh = FALSE,
                  !.at = IF flight.occ = 0 THEN "choose"
                         ELSE IF flight.frozen = "no" THEN "execute" ELSE "complete"]
    /\ UNCHANGED <<durable, arrived, crossings, crashes, settles>>

\* _apply(AcceptResult): the result is frozen, then projected; a failure is
\* frozen, then ends the firing.
AcceptResult ==
    /\ At("choose") /\ arrived # <<>>
    /\ LET outcome == Head(arrived) IN
       /\ history' = Append(history, [kind |-> IF outcome.ok THEN "completed" ELSE "failed",
                                      occ |-> flight.occ, activity |-> flight.activity,
                                      result |-> outcome.answer])
       /\ flight' = [flight EXCEPT !.frozen = IF outcome.ok THEN "result" ELSE "failure", !.answer = outcome.answer]
       /\ Goto("complete")
    /\ arrived' = Tail(arrived)
    /\ UNCHANGED <<net, projection, attachment, crossings, crashes, settles>>

\* Instance.complete and Instance.fail.  A result that does not match its
\* recorded loop state raises and stays in flight; a failure raises RuntimeError,
\* after which advance still projects and settles.
Complete ==
    /\ At("complete")
    /\ \/ /\ flight.frozen = "result" /\ flight.activity = "model" /\ flight.answer.stop = "misfit"
          /\ Raise
          /\ UNCHANGED <<net, flight>>
       \/ /\ flight.frozen = "result" /\ ~(flight.activity = "model" /\ flight.answer.stop = "misfit")
          /\ net' = IF flight.activity = "model" THEN ModelSettled(net, flight.occ, flight.answer)
                                                 ELSE ToolSettled(net, flight.answer)
          /\ flight' = NoFlight
          /\ Goto("project")
       \/ /\ flight.frozen = "failure"
          /\ flight' = NoFlight
          /\ net' = [net EXCEPT !.place = "consumed"]
          /\ runner' = [runner EXCEPT !.at = "project", !.via = "raised"]
    /\ UNCHANGED <<history, projection, attachment, arrived, crossings, crashes, settles>>

\* _apply(BeginCandidate).
Begin ==
    LET o == Len(SelectSeq(history, LAMBDA r : r.kind = "requested")) + 1
        activity == EnabledActivity(net) IN
    /\ At("choose") /\ arrived = <<>> /\ flight.occ = 0 /\ net.place \notin {"done", "consumed"}
    /\ IF activity # "none"
       THEN /\ history' = Append(history, [kind |-> "requested", occ |-> o, activity |-> activity])
            /\ flight' = [NoFlight EXCEPT !.occ = o, !.activity = activity]
            /\ Goto("execute")
            /\ UNCHANGED net
       ELSE /\ net' = PureStep(net)
            /\ Goto("project")
            /\ UNCHANGED <<history, flight>>
    /\ UNCHANGED <<projection, attachment, arrived, crossings, crashes, settles>>

\* Nothing to apply: the advance is over and the drive is not ready.
Stop ==
    /\ At("choose") /\ arrived = <<>> /\ (flight.occ # 0 \/ net.place \in {"done", "consumed"})
    /\ Goto("project")
    /\ UNCHANGED <<durable, arrived, crossings, crashes, settles>>

-----------------------------------------------------------------------------
(* The Thread projection                                                   *)

Completed(activity) == SelectSeq(history, LAMBDA r : r.kind = "completed" /\ r.activity = activity)
Occurrences(records) == [i \in DOMAIN records |-> records[i].occ]
SeqRange(s) == {s[i] : i \in DOMAIN s}

Unprojected ==
    SelectSeq(history, LAMBDA r : r.kind = "completed" /\ r.occ \notin SeqRange(projection.appends \o projection.hands))

\* A mutant: a reload projects what was projected before.
ProjectAgain ==
    /\ At("project") /\ Goto("failure")
    /\ IF runner.via = "open" /\ Completed("hands") # <<>>
       THEN projection' = [projection EXCEPT !.hands = Append(@, Head(Completed("hands")).occ)]
       ELSE UNCHANGED projection
    /\ UNCHANGED <<history, net, flight, attachment, arrived, crossings, crashes, settles>>

\* _project_committed: one save for each completion that is not projected yet.
\* accept_append refuses an append over the Episode's budget.
ProjectCommitted ==
    /\ At("project")
    /\ IF Unprojected = <<>> THEN Goto("failure") /\ UNCHANGED projection
       ELSE LET r == Head(Unprojected) IN
            \/ /\ r.activity = "hands"
               /\ projection' = [projection EXCEPT !.hands = Append(@, r.occ)]
               /\ UNCHANGED runner
            \/ /\ r.activity = "model"
               /\ IF ~Settled(projection) /\ CanAcceptAppend(LastEpisode(projection.thread), Turn)
                  THEN /\ projection' = [projection EXCEPT
                              !.appends = Append(@, r.occ),
                              !.thread = ReplaceActive(@, AcceptAppend(LastEpisode(@)))]
                       /\ UNCHANGED runner
                  ELSE Goto("refused") /\ UNCHANGED projection
    /\ UNCHANGED <<history, net, flight, attachment, arrived, crossings, crashes, settles>>

\* _settle_attachment: a cancellation is refused once admission is closed; what
\* is settled stays; custody that is uncertain is the host's to repair.
SettleAttachment(cancel, then) ==
    \/ attachment.custody = "settled" /\ Goto(then) /\ UNCHANGED <<attachment, settles>>
    \/ attachment.custody = "uncertain" /\ Raise /\ UNCHANGED <<attachment, settles>>
    \/ attachment.custody = "closed" /\ cancel /\ Raise /\ UNCHANGED <<attachment, settles>>
    \/ /\ attachment.custody \in (IF cancel THEN {"open"} ELSE {"open", "closed"})
       /\ \E custody \in (IF settles < MaxSettles THEN Settlements ELSE {"settled"}) :
             /\ attachment' = [attachment EXCEPT !.custody = custody]
             /\ IF custody = "settled" THEN Goto(then) ELSE Raise
       /\ settles' = settles + 1

\* The turn and the Episode end together, in one save; the lifecycle may refuse.
SettleThread(turn, outcome, next, fact, then) ==
    LET asked == IF outcome = "cancelled" THEN RequestCancellation(projection.thread)[1] ELSE projection.thread
        turned == ReplaceActive(asked, SettleTurn(LastEpisode(asked), turn))
    IN  IF CanSettleTurn(LastEpisode(asked), Turn, turn) /\ CanSettleEpisode(turned, outcome, next)
        THEN /\ projection' = [projection EXCEPT !.thread = SettleEpisode(turned, outcome, next),
                                                 ![fact.field] = fact.value]
             /\ Goto(then)
        ELSE Goto("refused") /\ UNCHANGED projection

Failures == SelectSeq(history, LAMBDA r : r.kind = "failed")

\* _settle_recorded_failure: the Attachment first, then the Thread.
SettleRecordedFailure ==
    /\ At("failure")
    /\ IF Settled(projection) \/ Failures = <<>>
       THEN Goto(IF runner.via = "raised" THEN "return" ELSE "terminal") /\ UNCHANGED <<attachment, settles>>
       ELSE SettleAttachment(TRUE, "failure save")
    /\ UNCHANGED <<history, net, flight, projection, arrived, crossings, crashes>>

SaveFailure ==
    /\ At("failure save")
    /\ SettleThread("failed", "failed", None,
          [field |-> "halt", value |-> [code |-> "activity-failed", occ |-> Failures[Len(Failures)].occ]],
          IF runner.via = "raised" THEN "return" ELSE "terminal")
    /\ UNCHANGED <<history, net, flight, attachment, arrived, crossings, crashes, settles>>

TerminalFact == [code |-> net.stop, phases |-> net.state.phase, tools |-> net.state.tools, ref |-> net.state.ref]

\* _settle_terminal, up to the settlement of the Attachment.
SettleTerminal ==
    /\ At("terminal")
    /\ IF net.place # "done" \/ projection.terminal = TerminalFact
       THEN Goto(IF runner.via = "open" THEN "fence" ELSE "return") /\ UNCHANGED <<attachment, settles>>
       ELSE IF \/ projection.terminal # None \/ projection.halt # None \/ projection.appends = <<>>
               \/ projection.appends[Len(projection.appends)] # net.state.ref
       THEN Goto("refused") /\ UNCHANGED <<attachment, settles>>
       ELSE SettleAttachment(net.stop = "cancelled", "terminal save")
    /\ UNCHANGED <<history, net, flight, projection, arrived, crossings, crashes>>

EpisodeOutcome(code) ==
    CASE code \in {"completed", "failed", "cancelled"} -> code
      [] OTHER -> "budget-exhausted"

_continuation == Continuation("agent-net", FALSE, program.produces, program.identity, "available")

SaveTerminal ==
    /\ At("terminal save")
    /\ SettleThread(IF net.stop \in {"failed", "cancelled"} THEN net.stop ELSE "completed",
                    EpisodeOutcome(net.stop), _continuation,
                    [field |-> "terminal", value |-> TerminalFact],
                    IF runner.via = "open" THEN "fence" ELSE "return")
    /\ UNCHANGED <<history, net, flight, attachment, arrived, crossings, crashes, settles>>

\* The Activity in flight that has no completion: its effect is unknown.
Ambiguous == flight.occ # 0 /\ \A i \in DOMAIN history : history[i].kind = "completed" => history[i].occ # flight.occ

\* _fence_reconstructed_activities.
FenceReconstructed ==
    /\ At("fence")
    /\ IF Settled(projection) \/ ~Ambiguous
       THEN Goto("return") /\ UNCHANGED <<attachment, settles>>
       ELSE SettleAttachment(TRUE, "fence save")
    /\ UNCHANGED <<history, net, flight, projection, arrived, crossings, crashes>>

SaveFence ==
    /\ At("fence save")
    /\ SettleThread("indeterminate", "indeterminate", None,
          [field |-> "halt", value |-> [code |-> "indeterminate", occ |-> flight.occ]], "return")
    /\ UNCHANGED <<history, net, flight, attachment, arrived, crossings, crashes, settles>>

\* create and load require a current grant of a run that goes on.
Return ==
    /\ At("return")
    /\ IF runner.via = "open" /\ ~Settled(projection) /\ ~CurrentGrant THEN Raise
       ELSE Goto("idle")
    /\ UNCHANGED <<durable, arrived, crossings, crashes, settles>>

-----------------------------------------------------------------------------
(* The world around the runner                                             *)

Crash ==
    /\ crashes < MaxCrashes /\ ~At("down")
    /\ crashes' = crashes + 1
    /\ runner' = Down /\ arrived' = <<>>
    /\ UNCHANGED <<durable, crossings, settles>>

\* advance was refused or raised; the host drops the runner to load it again.
Drop ==
    /\ At("idle") /\ ~Settled(projection) /\ ~CurrentGrant
    /\ runner' = Down /\ arrived' = <<>>
    /\ UNCHANGED <<durable, crossings, crashes, settles>>

\* The host repairs the Attachment: settle or retry_settlement.
Repair ==
    /\ attachment.custody \in {"closed", "uncertain"}
    /\ attachment' = [attachment EXCEPT !.custody = "settled"]
    /\ UNCHANGED <<history, net, flight, projection, runner, arrived, crossings, crashes, settles>>

\* The host replaces the grant.
Revoke ==
    /\ Revocable /\ attachment.grant
    /\ attachment' = [attachment EXCEPT !.grant = FALSE]
    /\ UNCHANGED <<history, net, flight, projection, runner, arrived, crossings, crashes, settles>>

Step ==
    \/ create \/ load \/ advance
    \/ Execute \/ Reconcile \/ AcceptResult \/ Complete \/ Begin \/ Stop
    \/ ProjectCommitted \/ SettleRecordedFailure \/ SaveFailure \/ SettleTerminal \/ SaveTerminal
    \/ FenceReconstructed \/ SaveFence \/ Return

Next == Step \/ Crash \/ Drop \/ Repair \/ Revoke

Spec == Init /\ [][Next]_vars

\* The host drives its runner, loads it again after a crash or an exception and
\* repairs the Attachment.
FairSpec == Spec /\ WF_vars(Step) /\ WF_vars(Drop) /\ WF_vars(Repair)

-----------------------------------------------------------------------------
(* Properties                                                              *)

\* No Activity is executed twice, wherever the host dies: an occurrence whose
\* effect is unknown is settled as indeterminate before the Engine could send
\* it again.
NoSecondCrossing == \A o \in DOMAIN crossings : crossings[o] <= 1

\* The Thread's cursor is a prefix of what History completed, in its order; only
\* the last completion may be missing.
ProjectionFollowsHistory ==
    projection # None =>
        \A pair \in {<<projection.appends, Occurrences(Completed("model"))>>,
                     <<projection.hands, Occurrences(Completed("hands"))>>} :
            /\ Len(pair[2]) - Len(pair[1]) \in {0, 1}
            /\ pair[1] = SubSeq(pair[2], 1, Len(pair[1]))

\* The lifecycle of the Thread refuses nothing the runner asks of it, and no
\* fact of History contradicts the projection.
LifecycleNeverRefuses == runner.at # "refused"

\* A settled Thread has a verified Attachment behind it and says what History
\* says: its terminal is the done token, its halt an Activity that failed or has
\* no outcome.
SettlementIsTrue ==
    projection # None =>
        /\ ValidThread(projection.thread)
        /\ Settled(projection) <=> LastEpisode(projection.thread).settlement # None
        /\ Settled(projection) => attachment.custody = "settled"
        /\ projection.terminal # None => net.place = "done" /\ projection.terminal = TerminalFact
        /\ projection.halt # None =>
              IF projection.halt.code = "indeterminate" THEN Ambiguous /\ projection.halt.occ = flight.occ
              ELSE \E i \in DOMAIN history : history[i].kind = "failed" /\ history[i].occ = projection.halt.occ

\* The work the model asked for is bounded: phases and crossings of the Hands.
WithinBudget ==
    LET count(activity) ==
            Len(SelectSeq(history, LAMBDA r : r.kind = "requested" /\ r.activity = activity))
    IN  count("model") <= PhaseLimit /\ count("hands") <= ToolLimit

\* A later phase is given one result for each proposal of the phase before.
EveryProposalAnswered ==
    net.place = "model_pending" /\ net.state.phase > 1 =>
        Len(net.state.results) = Len(Completed("model")[net.state.phase - 1].result.batch)

\* What settled stays as it is.
SettledKept == projection # None /\ Settled(projection) => projection' = projection

\* A run that was created and has not settled.
Owed == projection # None /\ ~Settled(projection)
=============================================================================
