---------------------------- MODULE InstanceProofs ----------------------------
(***************************************************************************)
(* What holds of every Instance, whatever its net, handlers and bounds:    *)
(* LifecycleInv, which is inductive, and the action properties that follow *)
(* from it.  Nothing here unfolds the token queues or the History.         *)
(* Then the doors through which a process comes to own an Instance         *)
(* (engine/sqlite.py, engine/postgres.py): one writer at a time.           *)
(***************************************************************************)
EXTENDS Instance, Hosting, TLAPS

-----------------------------------------------------------------------------
(* Finite functions. *)

\* Removing keys.
LEMMA DropFacts ==
    ASSUME NEW f, NEW S
    PROVE  /\ DOMAIN Drop(f, S) = DOMAIN f \ S
           /\ \A x \in DOMAIN f \ S : Drop(f, S)[x] = f[x]
  BY DEF Drop

-----------------------------------------------------------------------------
(* LifecycleInv is inductive: one lemma per way the live state changes. *)

\* Construction leaves nothing in flight.
LEMMA InitLifecycle == Init => LifecycleInv
  BY DEF Init, LifecycleInv, TypeOK

\* What a begin leaves alone.
LEMMA BeginFrame ==
    ASSUME NEW initiation, NEW binding, NEW picked, NEW scope,
           BeginOccurrence(initiation, binding, picked, scope)
    PROVE  UNCHANGED <<cancelled, frozen, terminal, quarantined, active, generations>>
  BY ZenonT(40) DEF BeginOccurrence, scopes

\* A delivery either records a fact beside the live state or begins an occurrence.
LEMMA AcceptDeliveryShape ==
    ASSUME NEW source, NEW tokens, NEW identity, NEW target, NEW at,
           AcceptDelivery(source, tokens, identity, target, at)
    PROVE  \/ UNCHANGED <<minted, firings, scopes>>
           \/ \E initiation, binding, picked, scope : BeginOccurrence(initiation, binding, picked, scope)
  BY DEF AcceptDelivery

\* A begin puts one fresh occurrence in flight.
LEMMA BeginLifecycle ==
    ASSUME LifecycleInv, NEW initiation, NEW binding, NEW picked, NEW scope,
           BeginOccurrence(initiation, binding, picked, scope), DOMAIN accepted' \subseteq Identities
    PROVE  LifecycleInv'
  <1>1. PICK occ : /\ occ.impure <=> binding.transition \in Impure
                   /\ inFlight' = Put(inFlight, nextOccurrence, occ)
                   /\ activities' = IF binding.transition \in Impure THEN Put(activities, nextOccurrence, occ)
                                    ELSE activities
    BY ZenonT(40) DEF BeginOccurrence
  <1>2. /\ nextOccurrence' = nextOccurrence + 1
        /\ UNCHANGED <<cancelled, frozen, terminal, quarantined, active, generations>>
    BY BeginFrame, ZenonT(40) DEF BeginOccurrence
  <1>3. /\ DOMAIN inFlight' = DOMAIN inFlight \cup {nextOccurrence}
        /\ inFlight'[nextOccurrence] = occ
        /\ \A x \in DOMAIN inFlight : x # nextOccurrence => inFlight'[x] = inFlight[x]
    BY <1>1 DEF Put
  <1>4. DOMAIN activities' = IF binding.transition \in Impure THEN DOMAIN activities \cup {nextOccurrence}
                             ELSE DOMAIN activities
    BY <1>1 DEF Put
  <1>5. /\ nextOccurrence \in Nat \ {0}
        /\ nextOccurrence \notin DOMAIN inFlight \cup DOMAIN activities \cup DOMAIN cancelled \cup DOMAIN terminal
    BY DEF LifecycleInv, TypeOK
  <1>6. TypeOK'
    BY <1>2, <1>3, <1>4, <1>5 DEF LifecycleInv, TypeOK
  <1>7. \A o \in DOMAIN inFlight' : inFlight'[o].impure <=> o \in DOMAIN activities'
    BY <1>1, <1>3, <1>4, <1>5 DEF LifecycleInv
  <1> QED
    BY <1>2, <1>3, <1>4, <1>5, <1>6, <1>7 DEF LifecycleInv

\* Ending a generation moves its firings from in flight to cancelled.
LEMMA EndScopeLifecycle ==
    ASSUME LifecycleInv, NEW record, EndScope(record), record.cancelled \subseteq DOMAIN inFlight
    PROVE  /\ DOMAIN inFlight' = DOMAIN inFlight \ record.cancelled
           /\ DOMAIN cancelled' = DOMAIN cancelled \cup record.cancelled
           /\ DOMAIN frozen' \subseteq DOMAIN inFlight'
           /\ \A o \in DOMAIN inFlight' : inFlight'[o] = inFlight[o]
           /\ UNCHANGED <<nextOccurrence, activities, frozen, terminal, quarantined, accepted>>
  <1>1. inFlight' = Drop(inFlight, record.cancelled)
    BY DEF EndScope
  <1>2. DOMAIN inFlight' = DOMAIN inFlight \ record.cancelled
        /\ \A o \in DOMAIN inFlight \ record.cancelled : inFlight'[o] = inFlight[o]
    BY <1>1, DropFacts, ZenonT(40)
  <1> QED
    BY <1>2 DEF EndScope, minted, LifecycleInv, ProjectionsSettled

\* What a close and a reset share: the firings' half of the invariant.
LEMMA ScopeEndLifecycle ==
    ASSUME LifecycleInv, NEW record, EndScope(record), record.cancelled \subseteq DOMAIN inFlight,
           active' \subseteq [name : ScopeNames, generation : Nat \ {0}],
           generations' \in [ScopeNames -> Nat],
           \A s \in active' : s.generation = generations'[s.name]
    PROVE  LifecycleInv'
  <1>1. /\ DOMAIN inFlight' = DOMAIN inFlight \ record.cancelled
        /\ DOMAIN cancelled' = DOMAIN cancelled \cup record.cancelled
        /\ DOMAIN frozen' \subseteq DOMAIN inFlight'
        /\ \A o \in DOMAIN inFlight' : inFlight'[o] = inFlight[o]
        /\ UNCHANGED <<nextOccurrence, activities, frozen, terminal, quarantined, accepted>>
    BY EndScopeLifecycle, ZenonT(40)
  <1>2. TypeOK'
    BY <1>1 DEF LifecycleInv, TypeOK
  <1> QED
    BY <1>1, <1>2 DEF LifecycleInv

\* An ended occurrence leaves the in-flight and frozen indexes; an impure one
\* enters the terminal index.
LEMMA EndLifecycle ==
    ASSUME LifecycleInv, NEW o \in DOMAIN inFlight, NEW outcome,
           inFlight' = Drop(inFlight, {o}), frozen' = Drop(frozen, {o}),
           terminal' = IF inFlight[o].impure THEN Put(terminal, o, outcome) ELSE terminal,
           UNCHANGED <<nextOccurrence, activities, cancelled, quarantined, accepted, active, generations>>
    PROVE  LifecycleInv'
  <1>1. /\ DOMAIN inFlight' = DOMAIN inFlight \ {o}
        /\ \A x \in DOMAIN inFlight \ {o} : inFlight'[x] = inFlight[x]
        /\ DOMAIN frozen' = DOMAIN frozen \ {o}
    BY DropFacts, ZenonT(40)
  <1>2. DOMAIN terminal' = IF inFlight[o].impure THEN DOMAIN terminal \cup {o} ELSE DOMAIN terminal
    BY DEF Put
  <1>3. o \notin DOMAIN cancelled /\ (inFlight[o].impure <=> o \in DOMAIN activities)
    BY DEF LifecycleInv
  <1>4. TypeOK'
    BY <1>1, <1>2, <1>3 DEF LifecycleInv, TypeOK
  <1> QED
    BY <1>1, <1>2, <1>3, <1>4, ZenonT(40) DEF LifecycleInv

\* Freezing an outcome of an activity in flight.
LEMMA FreezeLifecycle ==
    ASSUME LifecycleInv, NEW o \in DOMAIN inFlight \cap DOMAIN activities, NEW outcome,
           frozen' = Put(frozen, o, outcome),
           UNCHANGED <<nextOccurrence, inFlight, activities, cancelled, terminal, quarantined, accepted,
                       active, generations>>
    PROVE  LifecycleInv'
  <1>1. DOMAIN frozen' = DOMAIN frozen \cup {o}
    BY DEF Put
  <1>2. TypeOK'
    BY DEF LifecycleInv, TypeOK
  <1> QED
    BY <1>1, <1>2 DEF LifecycleInv

\* Quarantining an outcome of a cancelled activity.
LEMMA QuarantineLifecycle ==
    ASSUME LifecycleInv, NEW o \in DOMAIN cancelled \cap DOMAIN activities, NEW outcome,
           quarantined' = Put(quarantined, o, outcome),
           UNCHANGED <<nextOccurrence, inFlight, activities, cancelled, terminal, frozen, accepted,
                       active, generations>>
    PROVE  LifecycleInv'
  <1>1. DOMAIN quarantined' = DOMAIN quarantined \cup {o}
    BY DEF Put
  <1>2. TypeOK'
    BY DEF LifecycleInv, TypeOK
  <1> QED
    BY <1>1, <1>2 DEF LifecycleInv

\* Every action preserves LifecycleInv.
LEMMA OpenScopeLifecycle ==
    ASSUME LifecycleInv, NEW name \in ScopeNames, NEW at, OpenScope(name, at)
    PROVE  LifecycleInv'
  <1> DEFINE scope == [name |-> name, generation |-> generations[name] + 1]
  <1>1. /\ active' = active \cup {scope}
        /\ generations' = [generations EXCEPT ![name] = scope.generation]
        /\ \A s \in active : s.name # name
    BY DEF OpenScope, NextGeneration
  <1>2. UNCHANGED <<nextOccurrence, inFlight, activities, cancelled, frozen, terminal, quarantined, accepted>>
    BY DEF OpenScope, minted, firings
  <1>3. generations[name] + 1 \in Nat \ {0} /\ generations \in [ScopeNames -> Nat]
    BY DEF LifecycleInv, TypeOK
  <1>4. TypeOK'
    BY <1>1, <1>2, <1>3 DEF LifecycleInv, TypeOK
  <1>5. \A s \in active' : s.generation = generations'[s.name]
    BY <1>1, <1>3 DEF LifecycleInv, TypeOK
  <1> QED
    BY <1>2, <1>4, <1>5 DEF LifecycleInv

\* Closing a scope keeps the lifecycle invariant.
LEMMA CloseScopeLifecycle ==
    ASSUME LifecycleInv, NEW scope \in active, NEW at, CloseScope(scope, at)
    PROVE  LifecycleInv'
  <1> DEFINE record == [kind |-> "ScopeClosed", scope |-> scope, discarded |-> ScopedIds(queues, scope),
                        cancelled |-> Cancelling(scope), instant |-> Effective(at)]
  <1>1. EndScope(record) /\ active' = active \ {scope} /\ generations' = generations
    BY DEF CloseScope
  <1>2. record.cancelled \subseteq DOMAIN inFlight
    BY DEF Cancelling
  <1>3. /\ active' \subseteq [name : ScopeNames, generation : Nat \ {0}]
        /\ generations' \in [ScopeNames -> Nat]
        /\ \A s \in active' : s.generation = generations'[s.name]
    BY <1>1 DEF LifecycleInv, TypeOK
  <1> HIDE DEF record
  <1> QED
    BY <1>1, <1>2, <1>3, ScopeEndLifecycle

\* Resetting a scope keeps the lifecycle invariant.
LEMMA ResetScopeLifecycle ==
    ASSUME LifecycleInv, NEW scope \in active, NEW at, ResetScope(scope, at)
    PROVE  LifecycleInv'
  <1> DEFINE opened == [scope EXCEPT !.generation = @ + 1]
             record == [kind |-> "ScopeReset", scope |-> scope, opened |-> opened,
                        discarded |-> ScopedIds(queues, scope),
                        cancelled |-> Cancelling(scope), instant |-> Effective(at)]
  <1>1. /\ EndScope(record)
        /\ active' = (active \ {scope}) \cup {opened}
        /\ generations' = [generations EXCEPT ![scope.name] = opened.generation]
    BY DEF ResetScope
  <1>2. record.cancelled \subseteq DOMAIN inFlight
    BY DEF Cancelling
  <1>3. /\ scope \in [name : ScopeNames, generation : Nat \ {0}]
        /\ opened \in [name : ScopeNames, generation : Nat \ {0}]
        /\ opened.name = scope.name
    BY DEF LifecycleInv, TypeOK
  <1>4. \A s \in active \ {scope} : s.name # scope.name
    <2> SUFFICES ASSUME NEW s \in active, s.name = scope.name PROVE s = scope
      OBVIOUS
    <2>1. /\ s \in [name : ScopeNames, generation : Nat \ {0}]
          /\ s.generation = scope.generation
      BY DEF LifecycleInv, TypeOK
    <2> QED
      BY <2>1, <1>3
  <1> HIDE DEF record, opened
  <1>5. /\ active' \subseteq [name : ScopeNames, generation : Nat \ {0}]
        /\ generations' \in [ScopeNames -> Nat]
    BY <1>1, <1>3 DEF LifecycleInv, TypeOK
  <1>6. \A s \in active' : s.generation = generations'[s.name]
    BY <1>1, <1>3, <1>4 DEF LifecycleInv, TypeOK
  <1> QED
    BY <1>1, <1>2, <1>5, <1>6, ScopeEndLifecycle

\* Recording what an Activity reports keeps the lifecycle invariant.
LEMMA RecordActivityLifecycle ==
    ASSUME LifecycleInv, NEW o \in DOMAIN activities, NEW outcome, NEW at, RecordActivity(o, outcome, at)
    PROVE  LifecycleInv'
  <1>1. UNCHANGED <<nextOccurrence, inFlight, activities, cancelled, terminal, accepted, active, generations>>
    BY DEF RecordActivity, minted, scopes
  <1>2. CASE o \in DOMAIN cancelled /\ quarantined' = Put(quarantined, o, outcome) /\ UNCHANGED frozen
    BY <1>1, <1>2, QuarantineLifecycle
  <1>3. CASE Reportable(o) /\ frozen' = Put(frozen, o, outcome) /\ UNCHANGED quarantined
    BY <1>1, <1>3, FreezeLifecycle DEF Reportable
  <1> QED
    BY <1>2, <1>3 DEF RecordActivity

\* Committing an occurrence keeps the lifecycle invariant.
LEMMA CommitLifecycle ==
    ASSUME LifecycleInv, NEW o \in DOMAIN inFlight, NEW first, NEW outcome, NEW envelope, NEW instant,
           Commit(o, first, outcome, envelope, instant)
    PROVE  LifecycleInv'
  <1>1. /\ inFlight' = Drop(inFlight, {o}) /\ frozen' = Drop(frozen, {o})
        /\ terminal' = IF inFlight[o].impure THEN Put(terminal, o, outcome) ELSE terminal
        /\ UNCHANGED <<nextOccurrence, activities, cancelled, quarantined, accepted, active, generations>>
    BY ZenonT(40) DEF Commit, scopes
  <1> QED
    BY <1>1, EndLifecycle

\* Failing an occurrence keeps the lifecycle invariant.
LEMMA FailLifecycle ==
    ASSUME LifecycleInv, NEW o \in DOMAIN inFlight, NEW failure, NEW at, Fail(o, failure, at)
    PROVE  LifecycleInv'
  <1>1. CASE \E first, envelope : Commit(o, first, failure, envelope, Effective(at))
    BY <1>1, CommitLifecycle
  <1>2. CASE /\ inFlight[o].impure
             /\ frozen' = Put(frozen, o, failure)
             /\ UNCHANGED <<minted, inFlight, activities, cancelled, terminal, quarantined, accepted, scopes>>
    <2>1. o \in DOMAIN activities
      BY <1>2 DEF LifecycleInv
    <2> QED
      BY <1>2, <2>1, FreezeLifecycle DEF minted, scopes
  <1>3. CASE /\ inFlight' = Drop(inFlight, {o}) /\ frozen' = Drop(frozen, {o})
             /\ terminal' = IF inFlight[o].impure THEN Put(terminal, o, failure) ELSE terminal
             /\ UNCHANGED <<minted, activities, cancelled, quarantined, accepted, scopes>>
    BY <1>3, EndLifecycle DEF minted, scopes
  <1> QED
    BY <1>1, <1>2, <1>3 DEF Fail

\* Accepting a delivery keeps the lifecycle invariant.
LEMMA AcceptDeliveryLifecycle ==
    ASSUME LifecycleInv, NEW source, NEW tokens, NEW identity \in Identities, NEW target, NEW at,
           AcceptDelivery(source, tokens, identity, target, at)
    PROVE  LifecycleInv'
  <1>1. DOMAIN accepted' \subseteq Identities
    BY DEF AcceptDelivery, Put, LifecycleInv, TypeOK
  <1>2. CASE UNCHANGED <<minted, firings, scopes>>
    BY <1>1, <1>2 DEF minted, firings, scopes, LifecycleInv, TypeOK
  <1>3. CASE \E initiation, binding, picked, scope : BeginOccurrence(initiation, binding, picked, scope)
    BY <1>1, <1>3, BeginLifecycle
  <1> QED
    BY <1>2, <1>3, AcceptDeliveryShape

\* Every step of the Instance keeps the lifecycle invariant.
LEMMA StepLifecycle == LifecycleInv /\ [Next]_vars => LifecycleInv'
  <1> SUFFICES ASSUME LifecycleInv, [Next]_vars PROVE LifecycleInv'
    OBVIOUS
  <1>1. CASE UNCHANGED vars
    BY <1>1 DEF vars, recorded, minted, firings, scopes, LifecycleInv, TypeOK
  <1>2. CASE Next
    <2> PICK at \in Instants : Next!(at)
      BY <1>2 DEF Next
    <2>1. CASE \E name \in ScopeNames : OpenScope(name, at)
      BY <2>1, OpenScopeLifecycle
    <2>2. CASE \E scope \in active : CloseScope(scope, at) \/ ResetScope(scope, at)
      BY <2>2, CloseScopeLifecycle, ResetScopeLifecycle
    <2>3. CASE \E binding : Begin(binding, at)
      <3>1. DOMAIN accepted' \subseteq Identities
        BY <2>3 DEF Begin, LifecycleInv, TypeOK
      <3> QED
        BY <2>3, <3>1, BeginLifecycle DEF Begin
    <2>4. CASE \E o \in DOMAIN activities, outcome \in Results \cup Failures : RecordActivity(o, outcome, at)
      BY <2>4, RecordActivityLifecycle
    <2>5. CASE \E o \in DOMAIN inFlight : Complete(o, at)
      BY <2>5, CommitLifecycle DEF Complete
    <2>6. CASE \E o \in DOMAIN inFlight, failure \in Failures : Fail(o, failure, at)
      BY <2>6, FailLifecycle
    <2>7. CASE \E source \in Sources, tokens \in Payloads, identity \in Identities, target \in Targets :
                  AcceptDelivery(source, tokens, identity, target, at)
      BY <2>7, AcceptDeliveryLifecycle
    <2>8. CASE (\E source \in Sources : Seal(source, at)) \/ Wake(at)
      BY <2>8, ZenonT(40) DEF Seal, Wake, minted, firings, scopes, LifecycleInv, TypeOK
    <2> QED
      BY <2>1, <2>2, <2>3, <2>4, <2>5, <2>6, <2>7, <2>8
  <1> QED
    BY <1>1, <1>2

\* No occurrence of any Instance is ever both working and over, and every
\* scope name has at most one active generation, the last one it opened.
THEOREM LifecycleHolds == Spec => []LifecycleInv
  BY InitLifecycle, StepLifecycle, PTL DEF Spec

-----------------------------------------------------------------------------
(* The first outcome of an activity stands. *)

\* Freezing the outcome of x, which had none.
LEMMA FreezeOutcome ==
    ASSUME LifecycleInv, NEW x \in DOMAIN inFlight \ DOMAIN frozen, NEW v,
           frozen' = Put(frozen, x, v), UNCHANGED <<terminal, quarantined>>,
           NEW o, Outcome(o) # None
    PROVE  Outcome(o)' = Outcome(o)
  <1>1. x # o
    BY DEF Outcome, LifecycleInv
  <1>2. (o \in DOMAIN frozen' <=> o \in DOMAIN frozen) /\ (o \in DOMAIN frozen => frozen'[o] = frozen[o])
    BY <1>1 DEF Put
  <1> QED
    BY <1>2 DEF Outcome

\* Quarantining the outcome of x, which had none.
LEMMA QuarantineOutcome ==
    ASSUME LifecycleInv, NEW x \in DOMAIN cancelled \ DOMAIN quarantined, NEW v,
           quarantined' = Put(quarantined, x, v), UNCHANGED <<frozen, terminal>>,
           NEW o, Outcome(o) # None
    PROVE  Outcome(o)' = Outcome(o)
  <1>1. x # o
    BY DEF Outcome, LifecycleInv
  <1>2. /\ o \in DOMAIN quarantined' <=> o \in DOMAIN quarantined
        /\ o \in DOMAIN quarantined => quarantined'[o] = quarantined[o]
    BY <1>1 DEF Put
  <1> QED
    BY <1>2 DEF Outcome

\* Ending x with the outcome frozen for it, if any.
LEMMA EndOutcome ==
    ASSUME LifecycleInv, NEW x \in DOMAIN inFlight, NEW v,
           x \in DOMAIN frozen => v = frozen[x],
           frozen' = Drop(frozen, {x}),
           terminal' = IF inFlight[x].impure THEN Put(terminal, x, v) ELSE terminal,
           UNCHANGED quarantined,
           NEW o \in DOMAIN activities, Outcome(o) # None
    PROVE  Outcome(o)' = Outcome(o)
  <1>1. CASE o = x
    <2>1. o \in DOMAIN frozen /\ inFlight[x].impure /\ Outcome(o) = v
      BY <1>1 DEF Outcome, LifecycleInv
    <2>2. o \notin DOMAIN frozen' /\ o \in DOMAIN terminal' /\ terminal'[o] = v
      BY <1>1, <2>1 DEF Drop, Put
    <2> QED
      BY <2>1, <2>2 DEF Outcome
  <1>2. CASE o # x
    <2>1. (o \in DOMAIN frozen' <=> o \in DOMAIN frozen) /\ (o \in DOMAIN frozen => frozen'[o] = frozen[o])
      BY <1>2 DEF Drop
    <2>2. /\ o \in DOMAIN terminal' <=> o \in DOMAIN terminal
          /\ o \in DOMAIN terminal => terminal'[o] = terminal[o]
      BY <1>2 DEF Put
    <2> QED
      BY <2>1, <2>2 DEF Outcome
  <1> QED
    BY <1>1, <1>2

\* A commit replaces no recorded outcome.
LEMMA CommitOutcome ==
    ASSUME LifecycleInv, NEW x \in DOMAIN inFlight, NEW first, NEW v, NEW envelope, NEW instant,
           Commit(x, first, v, envelope, instant), x \in DOMAIN frozen => v = frozen[x],
           NEW o \in DOMAIN activities, Outcome(o) # None
    PROVE  Outcome(o)' = Outcome(o)
  <1>1. /\ frozen' = Drop(frozen, {x}) /\ UNCHANGED quarantined
        /\ terminal' = IF inFlight[x].impure THEN Put(terminal, x, v) ELSE terminal
    BY ZenonT(40) DEF Commit
  <1> QED
    BY <1>1, EndOutcome

\* A failure replaces no recorded outcome.
LEMMA FailOutcome ==
    ASSUME LifecycleInv, NEW x \in DOMAIN inFlight, NEW failure, NEW at, Fail(x, failure, at),
           NEW o \in DOMAIN activities, Outcome(o) # None
    PROVE  Outcome(o)' = Outcome(o)
  <1>1. x \in DOMAIN frozen => failure = frozen[x]
    BY ZenonT(40) DEF Fail, MayFail
  <1>2. CASE \E first, envelope : Commit(x, first, failure, envelope, Effective(at))
    BY <1>1, <1>2, CommitOutcome
  <1>3. CASE /\ x \notin DOMAIN frozen /\ frozen' = Put(frozen, x, failure)
             /\ UNCHANGED <<terminal, quarantined>>
    BY <1>3, FreezeOutcome
  <1>4. CASE /\ frozen' = Drop(frozen, {x}) /\ UNCHANGED quarantined
             /\ terminal' = IF inFlight[x].impure THEN Put(terminal, x, failure) ELSE terminal
    BY <1>1, <1>4, EndOutcome
  <1> QED
    BY <1>2, <1>3, <1>4, ZenonT(40) DEF Fail

\* Whatever reports, failures and scope ends follow, the first outcome recorded
\* for an activity is the one every later state holds.
THEOREM OutcomesStand == Spec => [][FirstOutcomeKept]_vars
  <1>1. ASSUME LifecycleInv, [Next]_vars, NEW o \in DOMAIN activities, Outcome(o) # None
        PROVE  Outcome(o)' = Outcome(o)
    <2>1. CASE UNCHANGED <<frozen, terminal, quarantined>>
      BY <1>1, <2>1 DEF Outcome
    <2>2. CASE Next
      <3> PICK at \in Instants : Next!(at)
        BY <1>1, <2>2 DEF Next
      <3>1. CASE \E name \in ScopeNames : OpenScope(name, at)
        BY <1>1, <2>1, <3>1 DEF OpenScope, firings
      <3>5. CASE \E scope \in active : CloseScope(scope, at) \/ ResetScope(scope, at)
        BY <1>1, <2>1, <3>5 DEF CloseScope, ResetScope, EndScope
      <3>6. CASE \E binding : Begin(binding, at)
        BY <1>1, <2>1, <3>6, BeginFrame DEF Begin
      <3>7. CASE \E source \in Sources, tokens \in Payloads, identity \in Identities, target \in Targets :
                    AcceptDelivery(source, tokens, identity, target, at)
        <4>1. \/ UNCHANGED <<minted, firings, scopes>>
              \/ \E initiation, binding, picked, scope : BeginOccurrence(initiation, binding, picked, scope)
          BY <3>7, AcceptDeliveryShape
        <4> QED
          BY <1>1, <2>1, <4>1, BeginFrame DEF firings
      <3>8. CASE (\E source \in Sources : Seal(source, at)) \/ Wake(at)
        BY <1>1, <2>1, <3>8, ZenonT(40) DEF Seal, Wake, firings
      <3>2. CASE \E x \in DOMAIN activities, v \in Results \cup Failures : RecordActivity(x, v, at)
        BY <1>1, <3>2, FreezeOutcome, QuarantineOutcome, ZenonT(40) DEF RecordActivity, Reportable
      <3>3. CASE \E x \in DOMAIN inFlight : Complete(x, at)
        <4> PICK x \in DOMAIN inFlight : \E envelope :
                 Commit(x, <<>>, IF x \in DOMAIN frozen THEN frozen[x] ELSE None, envelope, Effective(at))
          BY <1>1, <3>3, ZenonT(40) DEF Complete
        <4> QED
          BY <1>1, CommitOutcome, ZenonT(40)
      <3>4. CASE \E x \in DOMAIN inFlight, failure \in Failures : Fail(x, failure, at)
        BY <1>1, <3>4, FailOutcome
      <3> QED
        BY <1>1, <3>1, <3>2, <3>3, <3>4, <3>5, <3>6, <3>7, <3>8
    <2> QED
      BY <1>1, <2>1, <2>2 DEF vars, firings
  <1>2. LifecycleInv /\ [Next]_vars => [FirstOutcomeKept]_vars
    BY <1>1 DEF FirstOutcomeKept
  <1> QED
    BY <1>2, LifecycleHolds, PTL DEF Spec

-----------------------------------------------------------------------------
(* Generations are never reused. *)

\* A generation that becomes active is newer than every one its name spent.
THEOREM GenerationsNeverReturn == Spec => [][GenerationsStaySpent]_vars
  <1>1. ASSUME LifecycleInv, [Next]_vars, NEW s \in active' \ active
        PROVE  s.generation > generations[s.name]
    <2>1. Next
      BY <1>1 DEF vars, scopes
    <2> PICK at \in Instants : Next!(at)
      BY <1>1, <2>1 DEF Next
    <2>2. CASE \E name \in ScopeNames : OpenScope(name, at)
      BY <1>1, <2>2 DEF OpenScope, NextGeneration, LifecycleInv, TypeOK
    <2>3. CASE \E scope \in active : CloseScope(scope, at) \/ ResetScope(scope, at)
      <3> PICK scope \in active : s = [scope EXCEPT !.generation = @ + 1]
        BY <1>1, <2>3 DEF CloseScope, ResetScope
      <3>1. /\ scope \in [name : ScopeNames, generation : Nat \ {0}]
            /\ scope.generation = generations[scope.name]
        BY <1>1 DEF LifecycleInv, TypeOK
      <3> QED
        BY <1>1, <3>1
    <2>4. CASE \E binding : Begin(binding, at)
      BY <1>1, <2>4, BeginFrame, ZenonT(40) DEF Begin
    <2>9. CASE \E source \in Sources, tokens \in Payloads, identity \in Identities, target \in Targets :
                  AcceptDelivery(source, tokens, identity, target, at)
      <3>1. \/ UNCHANGED <<minted, firings, scopes>>
            \/ \E initiation, binding, picked, scope : BeginOccurrence(initiation, binding, picked, scope)
        BY <2>9, AcceptDeliveryShape
      <3> QED
        BY <1>1, <3>1, BeginFrame, ZenonT(40) DEF scopes
    <2>5. CASE \E o \in DOMAIN activities, v \in Results \cup Failures : RecordActivity(o, v, at)
      BY <1>1, <2>5, ZenonT(40) DEF RecordActivity, scopes
    <2>6. CASE \E o \in DOMAIN inFlight : Complete(o, at)
      BY <1>1, <2>6, ZenonT(40) DEF Complete, Commit, scopes
    <2>7. CASE \E o \in DOMAIN inFlight, failure \in Failures : Fail(o, failure, at)
      BY <1>1, <2>7, ZenonT(40) DEF Fail, Commit, scopes
    <2>8. CASE (\E source \in Sources : Seal(source, at)) \/ Wake(at)
      BY <1>1, <2>8, ZenonT(40) DEF Seal, Wake, scopes
    <2> QED
      BY <1>1, <2>2, <2>3, <2>4, <2>5, <2>6, <2>7, <2>8, <2>9
  <1>2. LifecycleInv /\ [Next]_vars => [GenerationsStaySpent]_vars
    BY <1>1 DEF GenerationsStaySpent
  <1> QED
    BY <1>2, LifecycleHolds, PTL DEF Spec

-----------------------------------------------------------------------------
(* A delivery identity is answered by one fact for ever. *)

\* A candidate carries no delivered tokens.
LEMMA CandidatesCarryNothing ==
    ASSUME NEW at, NEW binding \in Candidates(queues, at)
    PROVE  binding.delivered = <<>>
  <1>1. PICK t \in Transitions \ Sources : \E x \in Survey(t, queues) : binding = x.binding
    BY DEF Candidates, Surveyed
  <1>2. PICK x \in Survey(t, queues) : binding = x.binding
    BY <1>1
  <1>3. PICK consumed, read : x = Surveyable(t, consumed, read)
    BY <1>2 DEF Survey
  <1>4. x.binding = Binding(t, consumed, read)
    BY <1>3 DEF Surveyable
  <1>5. binding = Binding(t, consumed, read)
    BY <1>2, <1>4
  <1> QED
    BY <1>5 DEF Binding

\* The occurrence a begin puts in flight.
LEMMA BeginNew ==
    ASSUME NEW initiation, NEW binding, NEW picked, NEW scope,
           BeginOccurrence(initiation, binding, picked, scope),
           NEW o \in DOMAIN inFlight' \ DOMAIN inFlight
    PROVE  o = nextOccurrence /\ inFlight'[o].binding = binding
  BY ZenonT(40) DEF BeginOccurrence, Put

\* What a new delivery records: one fact under its identity, naming the
\* occurrence it begins, if it begins one.
LEMMA AcceptDeliveryFacts ==
    ASSUME NEW source, NEW tokens, NEW identity, NEW target, NEW at,
           AcceptDelivery(source, tokens, identity, target, at)
    PROVE  \E fact : /\ identity \notin DOMAIN accepted
                     /\ accepted' = Put(accepted, identity, fact)
                     /\ \/ inFlight' = inFlight
                        \/ /\ fact.occ = nextOccurrence
                           /\ \E binding, picked, scope : BeginOccurrence(fact, binding, picked, scope)
  BY DEF AcceptDelivery, Unseen, firings

\* Redelivery never changes the fact recorded for an identity, and every
\* occurrence a delivery begins is the one its new identity names.
THEOREM DeliveriesAreFinal == Spec => [][DeliveriesKept]_vars
  <1> DEFINE Kept == \A d \in DOMAIN accepted : d \in DOMAIN accepted' /\ accepted'[d] = accepted[d]
             Named == \A o \in DOMAIN inFlight' \ DOMAIN inFlight :
                         inFlight'[o].binding.delivered # <<>> =>
                            \E d \in DOMAIN accepted' \ DOMAIN accepted : accepted'[d].occ = o
  <1>1. ASSUME Next PROVE Kept /\ Named
    <2> PICK at \in Instants : Next!(at)
      BY <1>1 DEF Next
    <2>1. CASE accepted' = accepted /\ DOMAIN inFlight' \subseteq DOMAIN inFlight
      BY <2>1, ZenonT(40)
    <2>2. CASE \E name \in ScopeNames : OpenScope(name, at)
      BY <2>1, <2>2, ZenonT(40) DEF OpenScope, firings
    <2>3. CASE \E scope \in active : CloseScope(scope, at) \/ ResetScope(scope, at)
      <3>1. accepted' = accepted /\ \E S : inFlight' = Drop(inFlight, S)
        BY <2>3 DEF CloseScope, ResetScope, EndScope
      <3>2. DOMAIN inFlight' \subseteq DOMAIN inFlight
        BY <3>1 DEF Drop
      <3> QED
        BY <2>1, <3>1, <3>2, ZenonT(40)
    <2>4. CASE \E binding \in Candidates(queues, Effective(at)) : Begin(binding, at)
      <3> PICK binding \in Candidates(queues, Effective(at)) : Begin(binding, at)
        BY <2>4
      <3>1. Kept
        BY DEF Begin
      <3>2. \A o \in DOMAIN inFlight' \ DOMAIN inFlight : inFlight'[o].binding = binding
        BY BeginNew, ZenonT(40) DEF Begin
      <3> QED
        BY <3>1, <3>2, CandidatesCarryNothing
    <2>5. CASE \E o \in DOMAIN activities, v \in Results \cup Failures : RecordActivity(o, v, at)
      BY <2>1, <2>5, ZenonT(40) DEF RecordActivity
    <2>6. CASE \E o \in DOMAIN inFlight : Complete(o, at)
      <3>1. accepted' = accepted /\ \E S : inFlight' = Drop(inFlight, S)
        BY <2>6, ZenonT(40) DEF Complete, Commit
      <3>2. DOMAIN inFlight' \subseteq DOMAIN inFlight
        BY <3>1 DEF Drop
      <3> QED
        BY <2>1, <3>1, <3>2, ZenonT(40)
    <2>7. CASE \E o \in DOMAIN inFlight, failure \in Failures : Fail(o, failure, at)
      <3>1. accepted' = accepted /\ (inFlight' = inFlight \/ \E S : inFlight' = Drop(inFlight, S))
        BY <2>7, ZenonT(40) DEF Fail, Commit
      <3>2. DOMAIN inFlight' \subseteq DOMAIN inFlight
        BY <3>1, ZenonT(40) DEF Drop
      <3> QED
        BY <2>1, <3>1, <3>2, Zenon
    <2>8. CASE \E source \in Sources, tokens \in Payloads, identity \in Identities, target \in Targets :
                  AcceptDelivery(source, tokens, identity, target, at)
      <3> PICK identity, fact :
                 /\ identity \notin DOMAIN accepted
                 /\ accepted' = Put(accepted, identity, fact)
                 /\ \/ inFlight' = inFlight
                    \/ /\ fact.occ = nextOccurrence
                       /\ \E binding, picked, scope : BeginOccurrence(fact, binding, picked, scope)
        BY <2>8, AcceptDeliveryFacts
      <3>1. /\ DOMAIN accepted' = DOMAIN accepted \cup {identity} /\ accepted'[identity] = fact
            /\ \A d \in DOMAIN accepted : accepted'[d] = accepted[d]
        BY DEF Put
      <3>2. \A o \in DOMAIN inFlight' \ DOMAIN inFlight : fact.occ = o
        BY BeginNew, ZenonT(40)
      <3> QED
        BY <3>1, <3>2, Zenon
    <2>9. CASE (\E source \in Sources : Seal(source, at)) \/ Wake(at)
      BY <2>1, <2>9, ZenonT(40) DEF Seal, Wake, firings
    <2> QED
      BY <2>2, <2>3, <2>4, <2>5, <2>6, <2>7, <2>8, <2>9, ZenonT(40)
  <1>2. [Next]_vars => [DeliveriesKept]_vars
    BY <1>1 DEF DeliveriesKept
  <1> QED
    BY <1>2, PTL DEF Spec

\* The three together: outcomes, deliveries and generations, once recorded,
\* stand.
THEOREM RecordsAlwaysStand == Spec => RecordsStand
  <1>1. [FirstOutcomeKept]_vars /\ [DeliveriesKept]_vars /\ [GenerationsStaySpent]_vars =>
           [FirstOutcomeKept /\ DeliveriesKept /\ GenerationsStaySpent]_vars
    OBVIOUS
  <1> QED
    BY <1>1, OutcomesStand, DeliveriesAreFinal, GenerationsNeverReturn, PTL DEF RecordsStand

-----------------------------------------------------------------------------
(* The doors of a durable Instance.  OneWriter does not survive a step by  *)
(* itself: a second process that is fenced but has not loaded would write  *)
(* behind the first.  What does is that the Engines that may write own the *)
(* lock, one at a time, and that nobody else holds a handle of it.         *)

Owns(p) == phase[p] \in {"fenced", "open"}

FenceInv ==
    /\ phase \in [Processes -> {"none", "fenced", "open", "lost", "inherited"}]
    /\ fd \in [Processes -> Nat]
    /\ opens \in Nat /\ durable \in Nat
    /\ seen \in [Processes -> Nat]
    /\ \A p \in Processes : IF Owns(p) THEN fd[p] = locked /\ locked # NoHandle ELSE fd[p] = NoHandle
    /\ \A p, q \in Processes : Owns(p) /\ Owns(q) => p = q
    /\ OneWriter

\* Closing, poisoning and failing release the fence the process holds, if any.
LEMMA ReleaseKeeps ==
    ASSUME FenceInv, NEW p \in Processes, Release(p), UNCHANGED <<opens, seen, durable>>
    PROVE  FenceInv'
<1>1. CASE Owns(p)
  BY <1>1 DEF NoHandle, FenceInv, Owns, Release, OneWriter, NoStaleWriter, NoOrphanFence
<1>2. CASE ~Owns(p)
  BY <1>2 DEF NoHandle, FenceInv, Owns, Release, OneWriter, NoStaleWriter, NoOrphanFence
<1> QED
  BY <1>1, <1>2

\* At any number of processes, through forks, deaths, poisoned doors and lost
\* sessions, no Engine writes behind another's back and no fence outlives the
\* Engines that may write.
THEOREM OneWriterHolds == HostSpec => []OneWriter
<1>1. HostInit => FenceInv
  BY DEF NoHandle, HostInit, FenceInv, Owns, OneWriter, NoStaleWriter, NoOrphanFence
<1>2. FenceInv /\ [HostNext]_hostVars => FenceInv'
  <2> SUFFICES ASSUME FenceInv, [HostNext]_hostVars
               PROVE  FenceInv'
    OBVIOUS
  <2>1. CASE UNCHANGED hostVars
    BY <2>1 DEF NoHandle, hostVars, FenceInv, Owns, OneWriter, NoStaleWriter, NoOrphanFence
  <2>2. ASSUME NEW p \in Processes, Acquire(p)
        PROVE  FenceInv'
    BY <2>2 DEF NoHandle, Acquire, FenceInv, Owns, OneWriter, NoStaleWriter, NoOrphanFence
  <2>3. ASSUME NEW p \in Processes, Load(p)
        PROVE  FenceInv'
    BY <2>3 DEF NoHandle, Load, FenceInv, Owns, OneWriter, NoStaleWriter, NoOrphanFence
  <2>4. ASSUME NEW p \in Processes, LoadFails(p) \/ Poison(p) \/ Close(p)
        PROVE  FenceInv'
    BY <2>4, ReleaseKeeps DEF LoadFails, Poison, Close
  <2>5. ASSUME NEW p \in Processes, Door(p)
        PROVE  FenceInv'
    BY <2>5 DEF NoHandle, Door, FenceInv, Owns, OneWriter, NoStaleWriter, NoOrphanFence
  <2>6. ASSUME NEW p \in Processes, CloseInherited(p)
        PROVE  FenceInv'
    BY <2>6 DEF NoHandle, CloseInherited, FenceInv, Owns, OneWriter, NoStaleWriter, NoOrphanFence
  <2>7. ASSUME NEW p \in Processes, HostDies(p)
        PROVE  FenceInv'
    BY <2>7 DEF NoHandle, HostDies, FenceInv, Owns, OneWriter, NoStaleWriter, NoOrphanFence
  <2>8. ASSUME NEW p \in Processes, Disconnect(p)
        PROVE  FenceInv'
    BY <2>8 DEF NoHandle, Disconnect, FenceInv, Owns, OneWriter, NoStaleWriter, NoOrphanFence
  <2>9. ASSUME NEW p \in Processes, NEW q \in Processes, Fork(p, q)
        PROVE  FenceInv'
    BY <2>9 DEF NoHandle, Fork, ForkedHandle, AfterFork, FenceInv, Owns, OneWriter, NoStaleWriter, NoOrphanFence
  <2> QED
    BY <2>1, <2>2, <2>3, <2>4, <2>5, <2>6, <2>7, <2>8, <2>9 DEF HostNext
<1>3. FenceInv => OneWriter
  BY DEF NoHandle, FenceInv
<1> QED
  BY <1>1, <1>2, <1>3, PTL DEF HostSpec
==============================================================================
