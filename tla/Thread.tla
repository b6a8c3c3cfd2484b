---- MODULE Thread ----
\* The immutable lifecycle values of an Agenticus Thread
\* (agenticus/thread/lifecycle.py, continuation.py and program/descriptor.py).
\* A Thread is a lineage of sequential Episodes; an Episode is a bounded list
\* of Turns; a Continuation is the opaque resumable state one Episode hands to
\* the next.  Every transition of the code returns a new value, so each one is
\* here a guard (the LifecycleTransitionErrors it may raise) and a function.
\* What the constructors check of every value they build (and of every value
\* from_data decodes) is ValidEpisode and ValidThread.
EXTENDS Integers, Sequences, FiniteSets, Folds, Functions

CONSTANTS
    None,        \* Python's None
    Programs     \* the AgentProgramDescriptors an Episode may be started with

ContinuationStates == {"available", "in-use", "retired"}

TurnOutcomes == {"completed", "failed", "cancelled", "indeterminate"}

EpisodeOutcomes == TurnOutcomes \cup {"budget-exhausted"}

\* A Continuation revision: `foreign` is TRUE when its thread is another one;
\* <<identity, program>> is its ContinuationDescriptor.
Continuation(id, foreign, identity, program, st) ==
    [id |-> id, foreign |-> foreign, identity |-> identity,
     program |-> program, state |-> st]

Claim(c) == IF c = None THEN None ELSE [c EXCEPT !.state = "in-use"]

Retire(c) == IF c = None THEN None ELSE [c EXCEPT !.state = "retired"]

SameRevision(c, d) == Retire(c) = Retire(d)

\* An AgentProgramDescriptor: whether it accepts a fresh start, the exact
\* <<identity, program>> pairs it resumes, and the Continuation it produces.
ProgramDescriptor(identity, fresh, accepts, produces) ==
    [identity |-> identity, fresh |-> fresh, accepts |-> accepts,
     produces |-> produces]

CompatibleContinuation(program, c) ==
    IF c = None THEN program.fresh
    ELSE <<c.identity, c.program>> \in program.accepts

------------------------------------------------------------------------------
\* Turns and Episodes

EpisodeBudget(turns, appends) == [turns |-> turns, appends |-> appends]

NewTurn(id, ordinal) ==
    [id |-> id, ordinal |-> ordinal, state |-> "running", appends |-> 0,
     outcome |-> None]

TurnAppends(turns) ==
    FoldFunction(LAMBDA t, n : t.appends + n, 0, turns)

ValidTurn(t) ==
    /\ t.appends >= 0
    /\ IF t.state = "running" THEN t.outcome = None
                              ELSE t.outcome \in TurnOutcomes

ActiveTurn(e) ==
    IF e.turns # <<>> /\ e.turns[Len(e.turns)].state = "running"
    THEN e.turns[Len(e.turns)] ELSE None

BudgetExhausted(e) ==
    Len(e.turns) >= e.budget.turns \/ e.appends >= e.budget.appends

ValidResultContinuation(e) ==
    /\ e.settlement = "completed" /\ e.expected # None => e.next # None
    /\ e.next # None =>
          /\ e.expected # None
          /\ e.next.state = "available"
          /\ e.next.identity = e.expected
          /\ e.next.program = e.program

ValidEpisodeState(e) ==
    IF e.state = "settled"
    THEN /\ e.settlement \in EpisodeOutcomes
         /\ ActiveTurn(e) = None
         /\ e.continuation # None => e.continuation.state = "retired"
         /\ ValidResultContinuation(e)
    ELSE /\ e.settlement = None
         /\ e.next = None
         /\ e.continuation # None => e.continuation.state = "in-use"

ValidEpisode(e) ==
    /\ \A c \in {e.continuation, e.next} \ {None} : ~c.foreign
    /\ \A i \in DOMAIN e.turns :
          /\ ValidTurn(e.turns[i])
          /\ e.turns[i].ordinal = i
          /\ i < Len(e.turns) => e.turns[i].state = "settled"
    /\ IsInjective([i \in DOMAIN e.turns |-> e.turns[i].id])
    /\ Len(e.turns) <= e.budget.turns
    /\ TurnAppends(e.turns) = e.appends
    /\ e.appends <= e.budget.appends
    /\ ValidEpisodeState(e)

CanStartTurn(e, id) ==
    /\ e.state = "running"
    /\ ActiveTurn(e) = None
    /\ Len(e.turns) < e.budget.turns
    /\ e.appends < e.budget.appends
    /\ \A i \in DOMAIN e.turns : e.turns[i].id # id

StartTurn(e, id) ==
    [e EXCEPT !.turns = Append(@, NewTurn(id, Len(@) + 1))]

IsActiveTurn(e, id) == ActiveTurn(e) # None /\ ActiveTurn(e).id = id

CanAcceptAppend(e, id) ==
    /\ e.state = "running"
    /\ IsActiveTurn(e, id)
    /\ e.appends < e.budget.appends

AcceptAppend(e) ==
    [e EXCEPT !.turns[Len(e.turns)].appends = @ + 1, !.appends = @ + 1]

CanSettleTurn(e, id, outcome) ==
    /\ IsActiveTurn(e, id)
    /\ ~(e.state = "cancelling" /\ outcome = "completed")

SettleTurn(e, outcome) ==
    [e EXCEPT !.turns[Len(e.turns)].state = "settled",
              !.turns[Len(e.turns)].outcome = outcome]

\* Mutant: completion does not look at the cancellation request.
CanSettleCancelled(e, outcome) ==
    /\ ActiveTurn(e) = None
    /\ outcome = "cancelled" => e.state = "cancelling"
    /\ outcome = "budget-exhausted" => BudgetExhausted(e)

CanSettle(e, outcome) ==
    /\ ActiveTurn(e) = None
    /\ outcome = "completed" => e.state = "running"
    /\ outcome = "cancelled" => e.state = "cancelling"
    /\ outcome = "budget-exhausted" =>
          e.state = "running" /\ BudgetExhausted(e)

Settle(e, outcome, next) ==
    [e EXCEPT !.state = "settled", !.settlement = outcome,
              !.continuation = Retire(@), !.next = next]

------------------------------------------------------------------------------
\* Threads

NewThread(c) == [state |-> "open", episodes |-> <<>>, continuation |-> c]

LastEpisode(th) == th.episodes[Len(th.episodes)]

HasActiveEpisode(th) ==
    th.episodes # <<>> /\ LastEpisode(th).state # "settled"

HasSettledEpisode(th) ==
    th.episodes # <<>> /\ LastEpisode(th).state = "settled"

\* Thread._validated_episodes
ValidEpisodes(th) ==
    /\ \A i \in DOMAIN th.episodes :
          /\ ValidEpisode(th.episodes[i])
          /\ i < Len(th.episodes) =>
                /\ th.episodes[i].state = "settled"
                /\ SameRevision(th.episodes[i].next,
                                th.episodes[i + 1].continuation)
    /\ IsInjective([i \in DOMAIN th.episodes |-> th.episodes[i].id])
    /\ \A i, j \in DOMAIN th.episodes :
          i # j /\ th.episodes[i].next # None /\ th.episodes[j].next # None
          => th.episodes[i].next.id # th.episodes[j].next.id

\* Thread._validate_state
ValidThreadState(th) ==
    IF th.state = "closed"
    THEN /\ ~HasActiveEpisode(th)
         /\ th.continuation # None => th.continuation.state = "retired"
         /\ th.episodes # <<>> =>
               SameRevision(th.continuation, LastEpisode(th).next)
    ELSE IF HasActiveEpisode(th)
    THEN th.continuation = LastEpisode(th).continuation
    ELSE /\ th.continuation # None => th.continuation.state = "available"
         /\ th.episodes # <<>> => th.continuation = LastEpisode(th).next

ValidThread(th) ==
    /\ ValidEpisodes(th)
    /\ th.continuation # None => ~th.continuation.foreign
    /\ ValidThreadState(th)

CanStartEpisode(th, id, program) ==
    /\ th.state = "open"
    /\ ~HasActiveEpisode(th)
    /\ \A i \in DOMAIN th.episodes : th.episodes[i].id # id
    /\ CompatibleContinuation(program, th.continuation)
    /\ th.continuation # None => th.continuation.state = "available"

NewEpisode(id, program, budget, c) ==
    [id |-> id, program |-> program.identity, budget |-> budget,
     expected |-> program.produces, continuation |-> c, state |-> "running",
     turns |-> <<>>, appends |-> 0, settlement |-> None, next |-> None]

StartEpisode(th, id, program, budget) ==
    LET c == Claim(th.continuation) IN
    [th EXCEPT !.episodes = Append(@, NewEpisode(id, program, budget, c)),
               !.continuation = c]

ReplaceActive(th, e) ==
    [th EXCEPT !.episodes[Len(th.episodes)] = e,
               !.continuation = e.continuation]

\* Thread.request_cancellation: <<thread, disposition>>
RequestCancellation(th) ==
    IF HasSettledEpisode(th) THEN <<th, "too-late">>
    ELSE IF LastEpisode(th).state = "cancelling"
    THEN <<th, "already-requested">>
    ELSE <<ReplaceActive(th, [LastEpisode(th) EXCEPT !.state = "cancelling"]),
           "requested">>

KnownContinuationIds(th) ==
    {c.id : c \in UNION {{th.episodes[i].continuation, th.episodes[i].next} :
                         i \in DOMAIN th.episodes} \ {None}}

\* Thread._validate_result_continuation
AcceptsResult(th, outcome, c) ==
    LET e == LastEpisode(th) IN
    IF c = None THEN ~(outcome = "completed" /\ e.expected # None)
    ELSE /\ e.expected # None
         /\ ~c.foreign
         /\ c.state = "available"
         /\ c.identity = e.expected
         /\ c.program = e.program
         /\ c.id \notin KnownContinuationIds(th)

CanSettleEpisode(th, outcome, c) ==
    /\ HasActiveEpisode(th)
    /\ AcceptsResult(th, outcome, c)
    /\ CanSettle(LastEpisode(th), outcome)

SettleEpisode(th, outcome, c) ==
    [th EXCEPT
        !.episodes[Len(th.episodes)] = Settle(LastEpisode(th), outcome, c),
        !.continuation = c]

\* A repeated settle_episode: the settled branch of Episode.settle, which
\* answers DUPLICATE to the exact settlement and refuses any other.
IsDuplicateSettlement(th, outcome, c) ==
    /\ HasSettledEpisode(th)
    /\ LastEpisode(th).settlement = outcome
    /\ LastEpisode(th).next = c

CanClose(th) == th.state = "open" /\ ~HasActiveEpisode(th)

Close(th) == [th EXCEPT !.state = "closed", !.continuation = Retire(@)]
====
