------------------------------ MODULE Petrinet ------------------------------
(***************************************************************************)
(* The stateless Petri-net half of Impetus: which firings a marking        *)
(* enables, what a firing takes and what it deposits.  A place holds a     *)
(* FIFO queue of entries                                                   *)
(*    [token, instant, id, scope]                                          *)
(* the token, the instant it entered, its durable queue identity and the   *)
(* lifecycle generation it belongs to (None outside every scope).          *)
(* Colours and filters only decide which tokens an arc admits, so an arc   *)
(* carries the set of tokens it admits.                                    *)
(***************************************************************************)
EXTENDS Integers, Sequences, SequencesExt

CONSTANTS
    Places,
    Transitions,
    Inputs,     \* [Transitions -> Seq of [place, mode, weight, admits]]
    Outputs,    \* [Transitions -> Seq of [place, admits]]
    Timers,     \* [Transitions -> SUBSET of [kind: "delay" | "until", n: Nat]]
    Guard(_)    \* the conjunction of a binding's declared guards

Modes == {"consume", "read", "inhibit"}

\* What Net refuses at construction: an unknown place, a zero weight, a timed
\* source, a delay with no arc to anchor to.
ASSUME NetAssumption ==
    /\ \A t \in Transitions : \A i \in DOMAIN Inputs[t] :
          LET arc == Inputs[t][i]
          IN  arc.place \in Places /\ arc.mode \in Modes /\ arc.weight \in Nat \ {0}
    /\ \A t \in Transitions : \A i \in DOMAIN Outputs[t] : Outputs[t][i].place \in Places
    /\ \A t \in Transitions : \A timer \in Timers[t] :
          /\ Inputs[t] # <<>> /\ timer.kind \in {"delay", "until"} /\ timer.n \in Nat
          /\ timer.kind = "delay" => \E i \in DOMAIN Inputs[t] : Inputs[t][i].mode # "inhibit"

\* A source has no input arcs and fires only on external delivery.
Sources == {t \in Transitions : Inputs[t] = <<>>}

ArcsOf(t, mode) == SelectSeq(Inputs[t], LAMBDA arc : arc.mode = mode)

-----------------------------------------------------------------------------
(* Enabledness. *)

Admitted(arc, queues) == SelectSeq(queues[arc.place], LAMBDA e : e.token \in arc.admits)

\* An arc that gates its transition out: an inhibitor that finds weight
\* tokens, or a consume or read arc that does not.
Veto(arc, queues) == (arc.mode = "inhibit") <=> Len(Admitted(arc, queues)) >= arc.weight

\* Every combination of weight admitted entries, each in queue order.
Alternatives(arc, queues) ==
    LET admitted == Admitted(arc, queues)
    IN  {SelectSeq(admitted, LAMBDA e : e.id \in ids) :
            ids \in kSubset(arc.weight, {admitted[i].id : i \in DOMAIN admitted})}

\* The cross product of the selecting arcs' alternatives, in input-arc order.
CrossProduct(arcs, queues) ==
    FoldLeft(LAMBDA chosen, arc : {Append(c, a) : c \in chosen, a \in Alternatives(arc, queues)},
             {<<>>}, arcs)

\* The entries an arc selected, as the token values the binding keeps.
Selection(arc, entries) == <<arc.place, [i \in DOMAIN entries |-> entries[i].token]>>

Binding(t, consumed, read) ==
    LET selections(arcs, chosen) == [i \in DOMAIN arcs |-> Selection(arcs[i], chosen[i])]
    IN  [transition |-> t, delivered |-> <<>>,
         consumed |-> selections(ArcsOf(t, "consume"), consumed),
         read |-> selections(ArcsOf(t, "read"), read)]


\* When each timer of t matures for a choice of entries: a delay counts from
\* the youngest selected entry.
Maturations(t, chosen) ==
    LET anchor == Max(UNION {{chosen[i][j].instant : j \in DOMAIN chosen[i]} : i \in DOMAIN chosen})
    IN  {IF timer.kind = "delay" THEN anchor + timer.n ELSE timer.n : timer \in Timers[t]}

\* A choice of entries as a binding, with the instants its timers mature at.
Surveyable(t, consumed, read) ==
    [binding |-> Binding(t, consumed, read), due |-> Maturations(t, consumed \o read)]

\* The bindings of t that its arcs and guards allow.
Survey(t, queues) ==
    IF \E i \in DOMAIN Inputs[t] : Veto(Inputs[t][i], queues) THEN {}
    ELSE {s \in {Surveyable(t, consumed, read) :
                    consumed \in CrossProduct(ArcsOf(t, "consume"), queues),
                    read \in CrossProduct(ArcsOf(t, "read"), queues)} : Guard(s.binding)}

Surveyed(queues) == UNION {Survey(t, queues) : t \in Transitions \ Sources}

\* candidates: the bindings whose timers have all matured.
Candidates(queues, watermark) ==
    {s.binding : s \in {s \in Surveyed(queues) : \A m \in s.due : m <= watermark}}

\* next_maturation: the instants a binding enabled but for its timers waits for.
PendingMaturations(queues, watermark) ==
    {Max(s.due) : s \in {s \in Surveyed(queues) : \E m \in s.due : m > watermark}}

-----------------------------------------------------------------------------
(* Firing. *)

\* Mutant of Selected: an entry may be picked for two requested tokens.
SelectedTwice(queue, tokens) ==
    FoldLeft(LAMBDA picked, token :
                LET equal == SelectSeq(queue, LAMBDA e : e.token = token)
                IN  IF equal = <<>> THEN picked ELSE Append(picked, Head(equal)),
             <<>>, tokens)

\* TokenQueue.selected: the front-most equal entry of each requested token,
\* without those that are absent.
Selected(queue, tokens) ==
    FoldLeft(LAMBDA picked, token :
                LET free == SelectSeq(queue, LAMBDA e : e.token = token /\ ~Contains(picked, e))
                IN  IF free = <<>> THEN picked ELSE Append(picked, Head(free)),
             <<>>, tokens)

Present(queue, tokens) == Len(Selected(queue, tokens)) = Len(tokens)

\* TokenQueue.discard: the queue without the entries of the given identities.
Discard(queue, ids) == SelectSeq(queue, LAMBDA e : e.id \notin ids)

Ids(entries) == {entries[i].id : i \in DOMAIN entries}

\* One consume selection of a begin: what it picks, and the queues it leaves.
Consume(state, selection) ==
    LET place == selection[1]
        picked == Selected(state.queues[place], selection[2])
    IN  [queues |-> [state.queues EXCEPT ![place] = Discard(@, Ids(picked))],
         picked |-> Append(state.picked, picked),
         ok |-> state.ok /\ Present(state.queues[place], selection[2])]

\* One read selection of a begin, judged after every consume.
Peek(state, selection) ==
    LET queue == state.queues[selection[1]]
    IN  [state EXCEPT !.picked = Append(@, Selected(queue, selection[2])),
                      !.ok = @ /\ Present(queue, selection[2])]

\* begin_firing: the entries each selection of the binding picks, consumes
\* before reads; not ok when a token it names is no longer there.
Taken(queues, binding) ==
    FoldLeft(Peek,
             FoldLeft(Consume, [queues |-> queues, picked |-> <<>>, ok |-> TRUE], binding.consumed),
             binding.read)

\* Tokens for one place joined to what is already bound for it, in
\* first-seen order of the places.
Gather(routed, item) ==
    LET at == SelectInSeq(routed, LAMBDA r : r[1] = item[1])
    IN  IF at = 0 THEN Append(routed, item) ELSE [routed EXCEPT ![at][2] = @ \o item[2]]

\* route: every output arc receives every token it admits.
Route(tokens, t) ==
    FoldLeft(LAMBDA routed, arc :
                LET admitted == SelectSeq(tokens, LAMBDA token : token \in arc.admits)
                IN  IF admitted = <<>> THEN routed ELSE Gather(routed, <<arc.place, admitted>>),
             <<>>, Outputs[t])

\* The tokens a binding forwards by default.
Forwarded(binding) ==
    FoldLeft(LAMBDA tokens, selection : tokens \o selection[2], <<>>, binding.consumed)
      \o binding.delivered

\* A token may land where some output arc of t admits it.
Deliverable(t, place, token) ==
    \E i \in DOMAIN Outputs[t] : Outputs[t][i].place = place /\ token \in Outputs[t][i].admits

\* complete_firing: what the projected tokens deposit, per place; a token no
\* output arc admits there is dropped.
Produced(t, projected) ==
    LET filtered(item) == <<item[1], SelectSeq(item[2], LAMBDA token : Deliverable(t, item[1], token))>>
        gathered == FoldLeft(Gather, <<>>, projected)
    IN  SelectSeq([i \in DOMAIN gathered |-> filtered(gathered[i])], LAMBDA item : item[2] # <<>>)

=============================================================================
