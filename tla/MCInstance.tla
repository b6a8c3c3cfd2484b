------------------------------ MODULE MCInstance ------------------------------
(* Small nets on which TLC explores Instance. *)
EXTENDS Instance

CONSTANTS feed, work, sink, inbox, done, red, blue, r1, r2, f1, n1, d1, d2

Colours == {red, blue}
In(place, mode, weight) == [place |-> place, mode |-> mode, weight |-> weight, admits |-> Colours]
To(place) == [place |-> place, admits |-> Colours]
Envelope(tokens, closes, opens) == [tokens |-> tokens, closes |-> closes, opens |-> opens]
Gen(g) == [name |-> n1, generation |-> g]
NoTimers == [x \in Transitions |-> {}]
Nothing == <<>>
NoGuard(binding) == TRUE

\* Scopes: the source feed fills inbox, the activity work turns inbox into done.
ScopeInputs == [x \in Transitions |-> IF x = work THEN <<In(inbox, "consume", 1)>> ELSE <<>>]
ScopeOutputs == [x \in Transitions |-> IF x = work THEN <<To(done)>> ELSE <<To(inbox)>>]
ScopeProject == [x \in {work} |-> [r \in Results |-> Envelope(<<<<done, <<red>>>>>>, <<>>, <<>>)]]
ScopeProjectFailure == [x \in {work} |-> None]
ScopePayloads == {<<red>>}
ScopeTargets == {None, n1, Gen(1), Gen(2)}

\* Registrations: handled sources and an activity whose projections rearm them.
RegInputs == [x \in Transitions |-> IF x = work THEN <<In(inbox, "consume", 1)>> ELSE <<>>]
RegOutputs == [x \in Transitions |-> IF x = work THEN <<To(done)>> ELSE <<To(inbox)>>]
RegHandled ==
    [x \in {feed} |-> {Envelope(<<<<inbox, <<red>>>>>>, <<>>, <<<<feed, "extra">>>>),
                    Envelope(<<<<inbox, <<red>>>>, <<done, <<blue>>>>>>, <<<<feed, "default">>>>, <<<<feed, "default">>>>)}]
RegProject ==
    [x \in {work} |-> [r \in Results |-> IF r = r1 THEN Envelope(<<<<done, <<red>>>>>>, <<>>, <<>>)
                                       ELSE Envelope(<<>>, <<<<feed, "extra">>>>, <<>>)]]
RegProjectFailure == [x \in {work} |-> Envelope(<<>>, <<<<feed, "default">>>>, <<<<feed, "extra">>>>)]

\* Timers: equal tokens of different ages, a read arc and an inhibitor.
TimerInputs ==
    [x \in Transitions |->
        IF x = work THEN <<In(inbox, "consume", 1), In(inbox, "read", 1)>>
        ELSE IF x = sink THEN <<In(done, "consume", 2), In(inbox, "inhibit", 2)>> ELSE <<>>]
TimerOutputs == [x \in Transitions |-> IF x = work THEN <<To(done)>> ELSE IF x = sink THEN <<>> ELSE <<To(inbox)>>]
TimerTimers ==
    [x \in Transitions |->
        IF x = work THEN {[kind |-> "delay", n |-> 2]}
        ELSE IF x = sink THEN {[kind |-> "until", n |-> 3]} ELSE {}]
TimerTargets == {None, Gen(1)}
TimerInitial == <<<<inbox, <<red, red>>>>, <<done, <<red>>>>>>
TimerPayloads == {<<blue>>}
===============================================================================
