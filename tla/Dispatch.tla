------------------------------ MODULE Dispatch ------------------------------
(***************************************************************************)
(* What the Engine may rely on of a durable Dispatch: an occurrence enters *)
(* custody once, under one invocation; the first terminal outcome found    *)
(* for it is kept; a fence, once installed, stays; a session collects the  *)
(* outcomes of what it published or fenced, each once.  The Dispatch       *)
(* and CancellableDispatch protocols name these operations; LocalDispatch  *)
(* is shown to implement this module.                                      *)
(***************************************************************************)
EXTENDS FiniteSets

CONSTANTS Occurrences, Invocations, Outcomes

VARIABLES
    custody,    \* [occurrences published -> their invocation]
    outcomes,   \* [occurrences that are over -> terminal outcome]
    fences,     \* occurrences with a cancellation fence
    published,  \* what the current session published or fenced
    collected   \* what the current session collected

dispatchVars == <<custody, outcomes, fences, published, collected>>

Init ==
    /\ custody = <<>> /\ outcomes = <<>> /\ fences = {}
    /\ published = {} /\ collected = {}

\* Dispatch.dispatch: a second publication of the same invocation is
\* acknowledged, a fenced occurrence is not taken into custody.
Publish(o, inv) ==
    /\ o \in DOMAIN custody => custody[o] = inv
    /\ custody' = IF o \in fences \cup DOMAIN custody THEN custody
                  ELSE [x \in DOMAIN custody \cup {o} |-> IF x = o THEN inv ELSE custody[x]]
    /\ published' = published \cup {o}
    /\ UNCHANGED <<outcomes, fences, collected>>

\* CancellableDispatch.cancel.
Fence(o) ==
    /\ fences' = fences \cup {o}
    /\ published' = published \cup {o}
    /\ UNCHANGED <<custody, outcomes, collected>>

\* Some attempts end, each with the occurrence's terminal outcome.
Report(os) ==
    /\ os # {} /\ os \subseteq DOMAIN custody \ DOMAIN outcomes
    /\ \E found \in [os -> Outcomes] :
          outcomes' = [x \in DOMAIN outcomes \cup os |-> IF x \in os THEN found[x] ELSE outcomes[x]]
    /\ UNCHANGED <<custody, fences, published, collected>>

\* Dispatch.collect.
Collect ==
    /\ collected' = collected \cup (published \cap DOMAIN outcomes)
    /\ UNCHANGED <<custody, outcomes, fences, published>>

\* A new Engine session over the same custody.
NewSession ==
    /\ published' = {} /\ collected' = {}
    /\ UNCHANGED <<custody, outcomes, fences>>

Next ==
    \/ \E o \in Occurrences, inv \in Invocations : Publish(o, inv)
    \/ \E o \in Occurrences : Fence(o)
    \/ \E os \in SUBSET Occurrences : Report(os)
    \/ Collect
    \/ NewSession

Spec == Init /\ [][Next]_dispatchVars
=============================================================================
