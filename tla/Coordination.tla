---------------------------- MODULE Coordination ----------------------------
(***************************************************************************)
(* The Coordinator's drive: observe, let the driving policy choose one     *)
(* offered action, apply it.  The Instance is abstracted to what a drive   *)
(* observes of it: which transitions are enabled, which sources are armed, *)
(* whether a maturation is pending and which firings are in flight.  Each  *)
(* applied action may leave any of them, so every net is covered.  A       *)
(* transition has one candidate and one firing in flight at most.          *)
(***************************************************************************)
EXTENDS Integers, Sequences, FiniteSets, SequencesExt

CONSTANTS
    Ring,        \* RoundRobin's transitions, none of them twice
    Priorities,  \* Priority's table: [transitions -> Int], 0 for an unlisted one
    Admitted,    \* transitions that the admission filters let through
    Strategy,    \* "first", "priority" or "roundrobin"
    Order,       \* the transitions with candidates, in enumeration order
    Rank,        \* [transition -> key a ranker gives it]
    Pure,        \* the transitions whose handler runs at the writer
    Takes,       \* [transition -> the <<place, token>> values it consumes]
    Sources,
    Policy,      \* "conservative" or "throughput"
    MaxSensed,   \* bound on the parcels the sensor holds
    Nobody       \* absent action

Transitions == Range(Order)

VARIABLES
    enabled, inFlight, armed, maturing,  \* what is observed of the Instance
    due,         \* the clock has reached the pending maturation
    finished,    \* outcomes the Dispatch will hand over, in arrival order
    arrived,     \* _arrived
    sensed,      \* sources of the parcels the sensor holds
    deliveries,  \* _deliveries
    previous,    \* _previous, with the transition or source it concerned
    cursor,      \* _selection_state
    ledger,      \* fold_history over the durable History
    posture      \* the DriveOutcome last returned, or "poisoned"

observed == <<enabled, inFlight, armed, maturing, due>>
buffers == <<arrived, deliveries>>
vars == <<observed, finished, buffers, sensed, previous, cursor, ledger, posture>>

Init ==
    /\ enabled \in SUBSET Transitions /\ inFlight = {} /\ armed = Sources
    /\ maturing \in BOOLEAN /\ due = FALSE
    /\ finished = <<>> /\ arrived = <<>> /\ sensed = <<>> /\ deliveries = <<>>
    /\ previous = [kind |-> "none", arg |-> Nobody]
    /\ cursor = 0 /\ ledger = 0 /\ posture = "ready"

-----------------------------------------------------------------------------
(* Selection of one enabled binding.  Candidates are a sequence of         *)
(* [transition, rank] records in the kernel's enumeration order, `rank'    *)
(* being the key a configured ranker gives the binding.  The state of a    *)
(* policy is the cursor of the round-robin ring; the others keep none.     *)

Cursors == 0..Len(Ring) - 1

\* The place of a transition in the ring, counted from 0.
IndexInRing(t) == (CHOOSE i \in DOMAIN Ring : Ring[i] = t) - 1

\* The first candidate of the sequence that satisfies P.
FirstWhere(candidates, P(_)) == SelectSeq(candidates, P)[1]

\* Priority.propose: the highest priority, the earliest candidate among equals.
ByPriority(candidates) ==
    FirstWhere(candidates, LAMBDA c : \A i \in DOMAIN candidates :
        Priorities[candidates[i].transition] <= Priorities[c.transition])

\* The first ring member, counting from the cursor, that is offered.
Turn(offered, state) ==
    LET at(offset) == Ring[((state + offset) % Len(Ring)) + 1]
        turn == CHOOSE offset \in Cursors :
                    /\ at(offset) \in offered
                    /\ \A earlier \in 0..offset - 1 : at(earlier) \notin offered
    IN  at(turn)

\* RoundRobin.propose: the transition whose turn it is, and its first binding.
ByTurn(candidates, state) ==
    LET turn == Turn({candidates[i].transition : i \in DOMAIN candidates}, state)
    IN  FirstWhere(candidates, LAMBDA c : c.transition = turn)

\* SelectionPolicy.fold_committed: what a committed begin makes of the state.
FoldCommitted(state, t) == IF Strategy = "roundrobin" THEN (IndexInRing(t) + 1) % Len(Ring) ELSE state

\* A stable sort by rank, as sorted() does.
Ranked(candidates) ==
    LET before(i) == {j \in DOMAIN candidates :
                        \/ candidates[j].rank < candidates[i].rank
                        \/ candidates[j].rank = candidates[i].rank /\ j < i}
    IN  [n \in DOMAIN candidates |->
            candidates[CHOOSE i \in DOMAIN candidates : Cardinality(before(i)) = n - 1]]

\* The next state a proposal carries: the live twin of FoldCommitted.
NextState(state, t) == IF Strategy = "roundrobin" THEN (IndexInRing(t) + 1) % Len(Ring) ELSE state

\* The strategy's choice and the state its commit earns.
Strategize(candidates, state) ==
    LET c == CASE Strategy = "first" -> Head(candidates)
               [] Strategy = "priority" -> ByPriority(candidates)
               [] Strategy = "roundrobin" -> ByTurn(candidates, state)
    IN  [binding |-> c, prior |-> state, next |-> NextState(state, c.transition)]

\* SelectionPipeline.propose: filters, then rankers, then the strategy; empty
\* when everything is filtered out.
Propose(candidates, state) ==
    LET admitted == Ranked(SelectSeq(candidates, LAMBDA c : c.transition \in Admitted))
    IN  IF admitted = <<>> THEN {} ELSE {Strategize(admitted, state)}

-----------------------------------------------------------------------------
(* The world outside the writer. *)

\* What collect() hands over joins what has arrived already.
Drained == arrived \o finished

\* The Dispatch obtains the terminal outcome of a firing; a failure has no
\* projector here, so that accepting it halts the drive.
Finish(t, ok) ==
    /\ t \in inFlight
    /\ \A i \in DOMAIN Drained : Drained[i].arg # t
    /\ finished' = Append(finished, [arg |-> t, ok |-> ok])
    /\ UNCHANGED <<observed, buffers, sensed, previous, cursor, ledger, posture>>

\* A local adapter puts a parcel into process memory.
Sense(s) ==
    /\ Len(sensed) < MaxSensed
    /\ sensed' = Append(sensed, s)
    /\ UNCHANGED <<observed, finished, buffers, previous, cursor, ledger, posture>>

\* The clock reaches the pending maturation.
ReachMaturation ==
    /\ maturing /\ ~due /\ due' = TRUE
    /\ UNCHANGED <<enabled, inFlight, armed, maturing, finished, buffers, sensed, previous, cursor, ledger, posture>>

-----------------------------------------------------------------------------
(* Observe. *)

\* The sensor is consulted when the buffer is empty and a source is armed.
Refilled == IF deliveries = <<>> /\ armed # {} THEN sensed ELSE deliveries

Candidates ==
    LET open == SelectSeq(Order, LAMBDA t : t \in enabled)
    IN  [i \in DOMAIN open |-> [transition |-> open[i], rank |-> Rank[open[i]]]]

Proposals == Propose(Candidates, cursor)

\* A firing in flight whose outcome has not arrived.
Outstanding == \E t \in inFlight : \A i \in DOMAIN Drained : Drained[i].arg # t

\* _observe: the first offer of each kind; the shipped policies look at no
\* other.  Parcels are offered in order and only up to the first whose source
\* is not armed.
Snapshot ==
    LET proposals == Proposals IN
    [AcceptResult   |-> IF Drained = <<>> THEN Nobody ELSE Head(Drained).arg,
     BeginCandidate |-> IF proposals = {} THEN Nobody
                        ELSE (CHOOSE p \in proposals : TRUE).binding.transition,
     AdvanceTime    |-> IF maturing THEN "due" ELSE Nobody,
     AcceptDelivery |-> IF Refilled # <<>> /\ Head(Refilled) \in armed THEN Head(Refilled) ELSE Nobody,
     Wait           |-> IF Outstanding THEN "outstanding" ELSE Nobody,
     Stop           |-> "stop"]

-----------------------------------------------------------------------------
(* Choose. *)

\* The first kind of the list that is offered.
FirstOffered(kinds, snapshot) ==
    LET kind == SelectSeq(kinds, LAMBDA k : snapshot[k] # Nobody)[1]
    IN  [kind |-> kind, arg |-> snapshot[kind]]

\* A delivery interrupts, unless the previous action was one.
Interrupt == IF previous.kind # "AcceptDelivery" THEN <<"AcceptDelivery">> ELSE <<>>

\* Mutant of ChooseConservative: internal work always precedes a delivery.
ChooseInternalFirst(snapshot) ==
    FirstOffered(<<"AcceptResult">>
                   \o (IF snapshot.Wait # Nobody THEN <<"AcceptDelivery", "Wait">>
                       ELSE <<"BeginCandidate", "AdvanceTime", "AcceptDelivery", "Stop">>), snapshot)

\* choose_conservative.
ChooseConservative(snapshot) ==
    FirstOffered(<<"AcceptResult">> \o Interrupt
                   \o (IF snapshot.Wait # Nobody THEN <<"AcceptDelivery", "Wait">>
                       ELSE <<"BeginCandidate", "AdvanceTime", "AcceptDelivery", "Stop">>), snapshot)

\* The candidate takes a value that a firing in flight took.
Collides(t) == \E other \in inFlight : Takes[other] \cap Takes[t] # {}

\* choose_throughput.
ChooseThroughput(snapshot) ==
    FirstOffered(Interrupt
                   \o (IF snapshot.BeginCandidate # Nobody /\ ~Collides(snapshot.BeginCandidate)
                         THEN <<"BeginCandidate">> ELSE <<>>)
                   \o <<"AcceptResult", "AdvanceTime", "AcceptDelivery", "Wait", "Stop">>, snapshot)

Choose(snapshot) == IF Policy = "conservative" THEN ChooseConservative(snapshot) ELSE ChooseThroughput(snapshot)

\* drive: the policy chooses again when the clock shows the chosen maturation
\* is not due.
Choice(snapshot) ==
    LET first == Choose(snapshot)
    IN  IF first.kind = "AdvanceTime" /\ ~due THEN Choose([snapshot EXCEPT !.AdvanceTime = Nobody]) ELSE first

-----------------------------------------------------------------------------
(* Apply. *)

\* What a write may leave of the Instance.
Rewrite ==
    /\ enabled' \in SUBSET (Transitions \ inFlight')
    /\ armed' \in SUBSET Sources
    /\ maturing' \in BOOLEAN
    /\ due' = FALSE

\* The sensor's parcels are taken over when they are consulted.
TakeParcels == sensed' = IF deliveries = <<>> /\ armed # {} THEN <<>> ELSE sensed

\* AcceptResult: freeze and project the outcome.  A terminal failure is
\* recorded and halts the drive, which poisons the Engine.
AcceptResult(t) ==
    /\ inFlight' = inFlight \ {t}
    /\ Rewrite
    /\ arrived' = Tail(Drained) /\ deliveries' = Refilled
    /\ posture' = IF Head(Drained).ok THEN "ready" ELSE "poisoned"
    /\ previous' = IF Head(Drained).ok THEN [kind |-> "AcceptResult", arg |-> t] ELSE previous
    /\ UNCHANGED <<cursor, ledger>>

\* BeginCandidate: a pure firing also completes here.  The proposal's state is
\* installed once the begin is durable.
BeginCandidate(t) ==
    /\ inFlight' = IF t \in Pure THEN inFlight ELSE inFlight \cup {t}
    /\ Rewrite
    /\ arrived' = Drained /\ deliveries' = Refilled
    /\ cursor' = (CHOOSE p \in Proposals : TRUE).next
    /\ ledger' = FoldCommitted(ledger, t)
    /\ posture' = "ready" /\ previous' = [kind |-> "BeginCandidate", arg |-> t]

AdvanceTime ==
    /\ inFlight' = inFlight
    /\ Rewrite
    /\ arrived' = Drained /\ deliveries' = Refilled
    /\ posture' = "ready" /\ previous' = [kind |-> "AdvanceTime", arg |-> Nobody]
    /\ UNCHANGED <<cursor, ledger>>

\* AcceptDelivery: accept and complete the parcel's source occurrence.
AcceptDelivery(s) ==
    /\ inFlight' = inFlight
    /\ Rewrite
    /\ arrived' = Drained /\ deliveries' = Tail(Refilled)
    /\ posture' = "ready" /\ previous' = [kind |-> "AcceptDelivery", arg |-> s]
    /\ UNCHANGED <<cursor, ledger>>

\* Wait and Stop hand control back and apply nothing.
HandBack(kind) ==
    /\ arrived' = Drained /\ deliveries' = Refilled
    /\ posture' = IF kind = "Wait" THEN "waiting" ELSE "stopped"
    /\ UNCHANGED <<observed, previous, cursor, ledger>>

\* Coordinator.drive, called again by its host whatever it returned.
Drive ==
    /\ posture # "poisoned"
    /\ finished' = <<>> /\ TakeParcels
    /\ \E snapshot \in {Snapshot} : \E choice \in {Choice(snapshot)} :
           \/ choice.kind = "AcceptResult" /\ AcceptResult(choice.arg)
           \/ choice.kind = "BeginCandidate" /\ BeginCandidate(choice.arg)
           \/ choice.kind = "AdvanceTime" /\ AdvanceTime
           \/ choice.kind = "AcceptDelivery" /\ AcceptDelivery(choice.arg)
           \/ choice.kind \in {"Wait", "Stop"} /\ HandBack(choice.kind)

\* A poisoned Engine is replaced by a fresh load: buffered parcels and
\* arrivals are gone, the firings in flight are dispatched again and the
\* selection state is folded from History.
Load ==
    /\ posture = "poisoned"
    /\ posture' = "ready" /\ previous' = [kind |-> "none", arg |-> Nobody]
    /\ finished' = <<>> /\ arrived' = <<>> /\ deliveries' = <<>> /\ sensed' = <<>>
    /\ cursor' = ledger
    /\ UNCHANGED <<observed, ledger>>

Next ==
    \/ \E t \in inFlight, ok \in BOOLEAN : Finish(t, ok)
    \/ \E s \in Sources : Sense(s)
    \/ ReachMaturation
    \/ Drive
    \/ Load

Fairness ==
    /\ WF_vars(Drive) /\ WF_vars(Load)
    /\ \A t \in Transitions : WF_vars(\E ok \in BOOLEAN : Finish(t, ok))

Spec == Init /\ [][Next]_vars /\ Fairness

-----------------------------------------------------------------------------
(* What a drive owes. *)

\* The buffers hold each outcome once, for a firing in flight, and the
\* selection state is a cursor of the ring.
TypeOK ==
    /\ enabled \cap inFlight = {} /\ enabled \cup inFlight \subseteq Transitions
    /\ inFlight \cap Pure = {}
    /\ IsInjective([i \in DOMAIN Drained |-> Drained[i].arg])
    /\ \A i \in DOMAIN Drained : Drained[i].arg \in inFlight
    /\ cursor \in Cursors
    /\ deliveries \in Seq(Sources) /\ Len(deliveries) <= MaxSensed

\* The live selection state is what folding the recorded begins rebuilds, so
\* that a reload changes no turn of the rotation.
SelectionIsFolded == posture # "poisoned" => cursor = ledger

\* A drive hands back Stop only when nothing could progress: no outcome
\* arrived or is outstanding, no admitted candidate, no due maturation and no
\* parcel that its source admits.
StopIsQuiet ==
    posture' = "stopped" /\ Drive =>
        /\ Drained = <<>> /\ ~Outstanding /\ Proposals = {} /\ ~(maturing /\ due)
        /\ (deliveries' # <<>> => Head(deliveries') \notin armed)

\* choose_throughput never begins a candidate that takes a value a firing in
\* flight already took.
BegunIsFresh ==
    \A t \in inFlight' \ inFlight :
        \A other \in inFlight : Takes[other] \cap Takes[t] = {}

\* The five below hold again and again.  An outcome that reached the Dispatch
\* is committed, or lost to a reload.
ResultTaken(t) ==
    posture = "poisoned" \/ t \notin inFlight \/ previous = [kind |-> "AcceptResult", arg |-> t]

\* The parcel at the head of the buffer is accepted unless its source stays
\* closed: internal work cannot starve ingress.
IngressServed ==
    \/ posture = "poisoned" \/ deliveries = <<>> \/ Head(deliveries) \notin armed
    \/ previous.kind = "AcceptDelivery"

\* Under choose_conservative, candidates that are admitted while nothing is
\* outstanding are begun: ingress cannot starve internal work.
InternalServed ==
    posture = "poisoned" \/ Proposals = {} \/ inFlight # {} \/ previous.kind = "BeginCandidate"

\* Round-robin rotation reaches every transition that stays enabled while
\* firings are begun.
TurnTaken(t) ==
    \/ t \notin Admitted \cap Range(Ring)
    \/ posture = "poisoned" \/ t \notin enabled
    \/ previous.kind # "BeginCandidate" \/ previous.arg = t

\* Under choose_throughput, an admitted candidate that collides with nothing in
\* flight is begun while outcomes are outstanding.
OverlapServed ==
    \/ posture = "poisoned" \/ Proposals = {} \/ previous.kind = "BeginCandidate"
    \/ \E p \in Proposals : Collides(p.binding.transition)
=============================================================================
