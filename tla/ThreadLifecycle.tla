---- MODULE ThreadLifecycle ----
\* One durable Thread driven by its host: every public transition of
\* agenticus/thread/lifecycle.py, called with every argument, in every order,
\* with settlements and cancellations retried.  A transition whose guards pass
\* but whose result a constructor would refuse is an escape of the lifecycle's
\* own vocabulary; ThreadIsValid says there is none.
EXTENDS Thread

CONSTANTS
    EpisodeIds, TurnIds, ContinuationIds,
    ContinuationTypes,   \* ContinuationDescriptor identities
    Budgets,             \* EpisodeBudgets [turns, appends]
    Imported,            \* the Continuation a Thread is created with, or None
    TurnEndings,         \* the TurnOutcomes and EpisodeOutcomes a host passes
    EpisodeEndings

VARIABLES
    thread,      \* the current Thread value
    answer       \* the last disposition the host was given

vars == <<thread, answer>>

\* The Continuations a host may hand to settle_episode.
Offers ==
    {None} \cup
    {Continuation(id, foreign, identity, p.identity, st) :
        id \in ContinuationIds, foreign \in BOOLEAN,
        identity \in ContinuationTypes, p \in Programs,
        st \in {"available", "retired"}}

Init ==
    /\ thread = NewThread(Imported)
    /\ answer = None

BeginEpisode(id, program, budget) ==
    /\ CanStartEpisode(thread, id, program)
    /\ thread' = StartEpisode(thread, id, program, budget)
    /\ answer' = None

BeginTurn(id) ==
    /\ HasActiveEpisode(thread)
    /\ CanStartTurn(LastEpisode(thread), id)
    /\ thread' = ReplaceActive(thread, StartTurn(LastEpisode(thread), id))
    /\ answer' = None

RecordAppend(id) ==
    /\ HasActiveEpisode(thread)
    /\ CanAcceptAppend(LastEpisode(thread), id)
    /\ thread' = ReplaceActive(thread, AcceptAppend(LastEpisode(thread)))
    /\ answer' = None

EndTurn(id, outcome) ==
    /\ HasActiveEpisode(thread)
    /\ CanSettleTurn(LastEpisode(thread), id, outcome)
    /\ thread' = ReplaceActive(thread, SettleTurn(LastEpisode(thread), outcome))
    /\ answer' = None

\* active_episode raises on a Thread that never started one.
Cancel ==
    /\ thread.episodes # <<>>
    /\ thread' = RequestCancellation(thread)[1]
    /\ answer' = RequestCancellation(thread)[2]

EndEpisode(outcome, c) ==
    /\ CanSettleEpisode(thread, outcome, c)
    /\ thread' = SettleEpisode(thread, outcome, c)
    /\ answer' = "accepted"

RetryEndEpisode(outcome, c) ==
    /\ IsDuplicateSettlement(thread, outcome, c)
    /\ answer' = "duplicate"
    /\ UNCHANGED thread

CloseThread ==
    /\ CanClose(thread)
    /\ thread' = Close(thread)
    /\ answer' = None

Next ==
    \/ \E id \in EpisodeIds, p \in Programs, b \in Budgets :
          BeginEpisode(id, p, b)
    \/ \E id \in TurnIds :
          \/ BeginTurn(id)
          \/ RecordAppend(id)
          \/ \E outcome \in TurnEndings : EndTurn(id, outcome)
    \/ Cancel
    \/ \E outcome \in EpisodeEndings, c \in Offers :
          EndEpisode(outcome, c) \/ RetryEndEpisode(outcome, c)
    \/ CloseThread

Spec == Init /\ [][Next]_vars

------------------------------------------------------------------------------

\* Every value a transition builds passes the checks of its own constructors,
\* so no transition raises a constructor error after its guards passed and
\* Thread.from_data accepts every Thread the host ever saved
\* (Thread.__post_init__, Episode.__post_init__).
ThreadIsValid == ValidThread(thread)

\* A Continuation is never forked: an id is the input of at most one Episode,
\* and no Episode returns the id of its own or an earlier input
\* (Thread._validate_result_continuation, Continuation.claim).
ContinuationUsedOnce ==
    \A i, j \in DOMAIN thread.episodes :
        LET ci == thread.episodes[i].continuation
            cj == thread.episodes[j].continuation
            nj == thread.episodes[j].next
        IN  ci # None =>
               /\ i # j /\ cj # None => ci.id # cj.id
               /\ i <= j /\ nj # None => ci.id # nj.id

\* A Continuation is resumed only by a program that names its exact type and
\* producer, whatever Episode produced it (require_continuation_compatible).
ResumedByItsProgram ==
    \A i \in DOMAIN thread.episodes :
        LET e == thread.episodes[i] IN
        \E p \in Programs :
           /\ p.identity = e.program
           /\ p.produces = e.expected
           /\ IF e.continuation = None THEN p.fresh
              ELSE <<e.continuation.identity, e.continuation.program>>
                   \in p.accepts

\* What is settled stays as it was settled: neither a retry with another
\* outcome, a late cancellation, a new Episode nor close rewrites a settled
\* Episode, a settled Turn keeps its outcome and a closed Thread never moves
\* (Episode.settle, Thread.settle_episode, Thread.close).
SettledKept ==
    /\ \A i \in DOMAIN thread.episodes :
          LET e == thread.episodes[i]
              f == thread'.episodes[i]
          IN  /\ e.state = "settled" => f = e
              /\ \A k \in DOMAIN e.turns :
                    e.turns[k].state = "settled" => f.turns[k] = e.turns[k]
    /\ thread.state = "closed" => thread' = thread

\* Once a cancellation request was answered "requested", the Episode never
\* completes, never settles as budget-exhausted and accepts no further append
\* (Episode.request_cancellation, accept_append, settle).
CancellationKept ==
    \A i \in DOMAIN thread.episodes :
       thread.episodes[i].state = "cancelling" =>
          LET f == thread'.episodes[i] IN
          /\ f.state \in {"cancelling", "settled"}
          /\ f.settlement \notin {"completed", "budget-exhausted"}
          /\ f.appends = thread.episodes[i].appends
          /\ \A k \in DOMAIN f.turns :
                f.turns[k] # thread.episodes[i].turns[k] =>
                   f.turns[k].outcome # "completed"
====
