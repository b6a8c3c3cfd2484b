------------------------- MODULE LocalDispatchProofs -------------------------
(***************************************************************************)
(* Proofs that Local Dispatch keeps custody safe for every set of          *)
(* occurrences, Workers and queues, every policy and every clock bound.    *)
(* CustodyInv is inductive; the invariants and the action properties are   *)
(* consequences of it.                                                     *)
(***************************************************************************)
EXTENDS LocalDispatch, FiniteSetTheorems, TLAPS

\* A row inserted or replaced in a table keeps it a table (dispatch, cancel and
\* the terminal insert).
LEMMA PutTyped ==
    ASSUME NEW f, NEW S, IsTable(f, S), NEW k \in Occurrences, NEW v \in S
    PROVE  IsTable(Put(f, k, v), S)
BY DEF Put, IsTable

\* What Earlier returns, as claim and heartbeat use it.
LEMMA EarlierBound ==
    ASSUME NEW a \in Nat \cup {None}, NEW b \in Nat \cup {None}
    PROVE  /\ Earlier(a, b) \in Nat \cup {None}
           /\ a # None => Earlier(a, b) # None /\ Earlier(a, b) <= a
           /\ b # None => Earlier(a, b) # None /\ Earlier(a, b) <= b
BY DispatchAssumption DEF Earlier

\* Every invocation has a well-formed policy.
LEMMA PolicyFields ==
    ASSUME NEW inv \in Invocations
    PROVE  /\ Policy[inv].attempts \in Nat \ {0} /\ Policy[inv].heartbeat \in Nat \ {0}
           /\ Policy[inv].startToClose \in Nat \cup {None}
           /\ Policy[inv].scheduleToClose \in Nat \cup {None}
           /\ \A n \in 1..Policy[inv].attempts : Policy[inv].delay[n] \in Nat
BY DispatchAssumption DEF IsPolicy

\* The aggregate deadline is an instant or absent.
LEMMA ScheduleDeadlineType ==
    ASSUME NEW t \in TaskType
    PROVE  ScheduleDeadline(t) \in Nat \cup {None}
BY PolicyFields DEF ScheduleDeadline, TaskType

\* The row a claim writes is well formed and leased within its limits.
LEMMA LeasedRow ==
    ASSUME now \in Nat, NEW t \in TaskType, NEW w \in Workers, t.epoch < Policy[t.inv].attempts
    PROVE  /\ Leased(t, w) \in TaskType
           /\ LeaseInv(Leased(t, w))
           /\ Leased(t, w).epoch = t.epoch + 1 /\ Leased(t, w).claimant = w
           /\ Leased(t, w).inv = t.inv /\ Leased(t, w).queue = t.queue
           /\ Leased(t, w).scheduleStart = t.scheduleStart
<1> DEFINE hard == HardLimit(t)
           first == now + Policy[t.inv].heartbeat
           r == Leased(t, w)
<1>1. /\ Policy[t.inv].attempts \in Nat \ {0} /\ Policy[t.inv].heartbeat \in Nat \ {0}
      /\ Policy[t.inv].startToClose \in Nat \cup {None}
  BY PolicyFields DEF TaskType
<1>2. ScheduleDeadline(t) \in Nat \cup {None}
  BY ScheduleDeadlineType
<1>3. /\ hard \in Nat \cup {None}
      /\ ScheduleDeadline(t) # None => hard # None /\ hard <= ScheduleDeadline(t)
      /\ Policy[t.inv].startToClose # None =>
            hard # None /\ hard <= now + Policy[t.inv].startToClose
  <2> DEFINE own == IF Policy[t.inv].startToClose = None THEN None ELSE now + Policy[t.inv].startToClose
  <2>1. own \in Nat \cup {None}
    BY <1>1
  <2>2. hard = Earlier(own, ScheduleDeadline(t))
    BY DEF HardLimit
  <2>3. Policy[t.inv].startToClose # None => own # None /\ own = now + Policy[t.inv].startToClose
    BY <1>1, DispatchAssumption
  <2> HIDE DEF own, hard
  <2> QED BY <2>1, <2>2, <2>3, <1>2, EarlierBound
<1>4. /\ Earlier(first, hard) \in Nat
      /\ hard # None => Earlier(first, hard) <= hard
  <2>1. first \in Nat /\ first # None
    BY <1>1, DispatchAssumption
  <2> HIDE DEF first, hard
  <2>2. first \in Nat \cup {None} /\ hard \in Nat \cup {None}
    BY <1>3, <2>1
  <2>3. /\ Earlier(first, hard) \in Nat \cup {None}
        /\ first # None => Earlier(first, hard) # None
        /\ hard # None => Earlier(first, hard) <= hard
    BY <2>2, EarlierBound, Zenon
  <2> QED BY <2>1, <2>3
<1>5. r = [t EXCEPT !.epoch = t.epoch + 1, !.claimant = w, !.attemptStart = now,
                    !.attemptDeadline = hard, !.deadline = Earlier(first, hard)]
  BY DEF Leased
<1> HIDE DEF hard, first, r
<1>6. /\ r \in TaskType
      /\ r.epoch = t.epoch + 1 /\ r.claimant = w /\ r.inv = t.inv /\ r.queue = t.queue
      /\ r.scheduleStart = t.scheduleStart /\ r.attemptStart = now
      /\ r.attemptDeadline = hard /\ r.deadline = Earlier(first, hard)
  <2>1. t.epoch + 1 \in Nat /\ now \in Deadlines /\ hard \in Deadlines
        /\ Earlier(first, hard) \in Deadlines
    BY <1>3, <1>4 DEF TaskType, Deadlines
  <2>2. \A e \in Nat, s, a, d \in Deadlines :
            r = [t EXCEPT !.epoch = e, !.claimant = w, !.attemptStart = s,
                          !.attemptDeadline = a, !.deadline = d]
            => /\ r \in TaskType
               /\ r.epoch = e /\ r.claimant = w /\ r.inv = t.inv /\ r.queue = t.queue
               /\ r.scheduleStart = t.scheduleStart /\ r.attemptStart = s
               /\ r.attemptDeadline = a /\ r.deadline = d
    <3> TAKE e \in Nat, s, a, d \in Deadlines
    <3> QED BY Zenon DEF TaskType
  <2> QED BY <2>1, <1>5, <2>2, Zenon
<1>7. ScheduleDeadline(r) = ScheduleDeadline(t)
  BY <1>6 DEF ScheduleDeadline
<1>8. LeaseInv(r)
  BY <1>1, <1>3, <1>4, <1>6, <1>7 DEF LeaseInv, TaskType
<1> QED BY <1>6, <1>8 DEF r

\* The row the sweep leaves: only availableAt may differ.
LEMMA SweptRow ==
    ASSUME CustodyInv, NEW queues, NEW o \in DOMAIN tasks
    PROVE  LET r == Swept(queues)[o]
               t == tasks[o]
           IN  /\ r \in TaskType /\ LeaseInv(r)
               /\ r.epoch = t.epoch /\ r.claimant = t.claimant /\ r.inv = t.inv
               /\ r.queue = t.queue /\ r.scheduleStart = t.scheduleStart
<1> DEFINE t == tasks[o]
           r == Swept(queues)[o]
<1>1. t \in TaskType /\ LeaseInv(t)
  BY DEF CustodyInv, TypeOK, IsTable
<1>2. \/ r = t
      \/ /\ t.epoch > 0 /\ t.epoch < Policy[t.inv].attempts
         /\ r = [t EXCEPT !.availableAt = t.deadline + Policy[t.inv].delay[t.epoch]]
  BY DEF Swept
<1> HIDE DEF t, r
<1>3. CASE r = t
  BY <1>1, <1>3 DEF t, r
<1>4. CASE /\ t.epoch > 0 /\ t.epoch < Policy[t.inv].attempts
           /\ r = [t EXCEPT !.availableAt = t.deadline + Policy[t.inv].delay[t.epoch]]
  <2>1. t.deadline + Policy[t.inv].delay[t.epoch] \in Nat
    <3>1. t.epoch \in 1..Policy[t.inv].attempts /\ t.deadline \in Nat /\ t.inv \in Invocations
      BY <1>1, <1>4, PolicyFields DEF LeaseInv, TaskType
    <3> QED BY <3>1, PolicyFields
  <2>2. \A v \in Nat : r = [t EXCEPT !.availableAt = v]
          => /\ r \in TaskType
             /\ r.epoch = t.epoch /\ r.claimant = t.claimant /\ r.inv = t.inv
             /\ r.queue = t.queue /\ r.scheduleStart = t.scheduleStart
             /\ r.deadline = t.deadline /\ r.attemptStart = t.attemptStart
             /\ r.attemptDeadline = t.attemptDeadline
    <3> TAKE v \in Nat
    <3> QED BY <1>1 DEF TaskType
  <2>3. /\ r \in TaskType
        /\ r.epoch = t.epoch /\ r.claimant = t.claimant /\ r.inv = t.inv
        /\ r.queue = t.queue /\ r.scheduleStart = t.scheduleStart
        /\ r.deadline = t.deadline /\ r.attemptStart = t.attemptStart
        /\ r.attemptDeadline = t.attemptDeadline
    BY <1>4, <2>1, <2>2
  <2>4. LeaseInv(r)
    BY <1>1, <2>3 DEF LeaseInv, ScheduleDeadline
  <2> QED BY <2>3, <2>4 DEF t, r
<1> QED BY <1>2, <1>3, <1>4

\* What every transaction but the claim of a row does to the task table.
RowsKept ==
    \A o \in DOMAIN tasks :
        /\ o \in DOMAIN tasks'
        /\ tasks'[o].epoch = tasks[o].epoch /\ tasks'[o].claimant = tasks[o].claimant
        /\ tasks'[o].inv = tasks[o].inv /\ tasks'[o].scheduleStart = tasks[o].scheduleStart

\* What makes a terminal of occurrence o legitimate: it is the last attempt's.
FreshTerminal(o) ==
    /\ o \in DOMAIN tasks'
    /\ terminals'[o].epoch = tasks'[o].epoch /\ terminals'[o].claimant = tasks'[o].claimant
    /\ terminals'[o].outcome.kind = "exhausted" =>
          \/ terminals'[o].epoch = Policy[tasks'[o].inv].attempts
          \/ Passed(ScheduleDeadline(tasks'[o]))

\* Custody survives a step that keeps the rows, hands out no attempt and adds
\* only legitimate terminals.
LEMMA KeptCustody ==
    ASSUME CustodyInv, TypeOK', IsFiniteSet(DOMAIN tasks'), now <= now',
           \A o \in DOMAIN tasks' : LeaseInv(tasks'[o]),
           RowsKept, attempts' = attempts,
           \A o \in DOMAIN terminals' :
              (o \in DOMAIN terminals /\ terminals'[o] = terminals[o]) \/ (now' = now /\ FreshTerminal(o))
    PROVE  CustodyInv'
<1>1. EpochIsAFence'
  BY DEF CustodyInv, EpochIsAFence, RowsKept
<1>2. TerminalIsOfLastAttempt'
  BY DEF CustodyInv, TerminalIsOfLastAttempt, RowsKept, FreshTerminal
<1>3. AttemptBudget'
  <2>1. ASSUME NEW o \in DOMAIN terminals', terminals'[o].outcome.kind = "exhausted"
        PROVE  \/ terminals'[o].epoch = Policy[tasks'[o].inv].attempts
               \/ Passed(ScheduleDeadline(tasks[o]))'
    <3>1. CASE o \in DOMAIN terminals /\ terminals'[o] = terminals[o]
      <4>1. o \in DOMAIN tasks
        BY <3>1 DEF CustodyInv, TerminalIsOfLastAttempt
      <4>2. ScheduleDeadline(tasks'[o]) = ScheduleDeadline(tasks[o])
        BY <4>1 DEF RowsKept, ScheduleDeadline
      <4>3. ScheduleDeadline(tasks[o]) \in Nat \cup {None}
        BY <4>1, ScheduleDeadlineType DEF CustodyInv, TypeOK, IsTable
      <4>4. \/ terminals[o].epoch = Policy[tasks[o].inv].attempts
            \/ Passed(ScheduleDeadline(tasks[o]))
        BY <2>1, <3>1 DEF CustodyInv, AttemptBudget
      <4>5. now \in Nat /\ now' \in Nat
        BY DEF CustodyInv, TypeOK
      <4>6. tasks'[o].inv = tasks[o].inv
        BY <4>1 DEF RowsKept
      <4>7. Passed(ScheduleDeadline(tasks[o])) => Passed(ScheduleDeadline(tasks[o]))'
        BY <4>2, <4>3, <4>5 DEF Passed
      <4> QED BY <3>1, <4>4, <4>6, <4>7
    <3>2. CASE now' = now /\ FreshTerminal(o)
      BY <2>1, <3>2 DEF FreshTerminal, Passed
    <3> QED BY <3>1, <3>2
  <2>2. \A o \in DOMAIN tasks' : tasks'[o].epoch <= Policy[tasks'[o].inv].attempts
    BY DEF LeaseInv
  <2> QED BY <2>1, <2>2 DEF AttemptBudget
<1> QED BY <1>1, <1>2, <1>3 DEF CustodyInv

-----------------------------------------------------------------------------
(* One lemma per operation. *)

\* dispatch keeps the custody invariant.
LEMMA DispatchKeeps ==
    ASSUME CustodyInv, NEW o \in Occurrences, NEW inv \in Invocations, NEW queue \in Queues,
           Dispatch(o, inv, queue)
    PROVE  CustodyInv'
<1>1. /\ now' = now /\ terminals' = terminals /\ cancellations' = cancellations
      /\ attempts' = attempts /\ collected' = collected /\ promised' = promised
      /\ published' = published \cup {o}
  BY DEF Dispatch
<1>2. /\ now \in Nat /\ IsTable(tasks, TaskType) /\ IsFiniteSet(DOMAIN tasks)
      /\ \A x \in DOMAIN tasks : LeaseInv(tasks[x])
  BY DEF CustodyInv, TypeOK
<1>3. /\ IsTable(tasks', TaskType) /\ IsFiniteSet(DOMAIN tasks')
      /\ \A x \in DOMAIN tasks' : LeaseInv(tasks'[x])
      /\ RowsKept
  <2>1. CASE tasks' = tasks
    BY <1>2, <2>1 DEF RowsKept
  <2>2. CASE o \in DOMAIN tasks /\ tasks' = [tasks EXCEPT ![o].queue = queue]
    <3> DEFINE t == tasks[o]
               r == [t EXCEPT !.queue = queue]
    <3>1. t \in TaskType /\ LeaseInv(t)
      BY <1>2, <2>2 DEF IsTable
    <3>2. tasks' = [tasks EXCEPT ![o] = r]
      BY <2>2
    <3> HIDE DEF t
    <3>3. /\ r \in TaskType
          /\ r.epoch = t.epoch /\ r.claimant = t.claimant /\ r.inv = t.inv
          /\ r.scheduleStart = t.scheduleStart
          /\ r.deadline = t.deadline /\ r.attemptStart = t.attemptStart
          /\ r.attemptDeadline = t.attemptDeadline
      BY <3>1 DEF TaskType
    <3> HIDE DEF r
    <3>4. LeaseInv(r)
      BY <3>1, <3>3 DEF LeaseInv, ScheduleDeadline
    <3>5. DOMAIN tasks' = DOMAIN tasks /\ tasks'[o] = r
          /\ \A x \in DOMAIN tasks : x # o => tasks'[x] = tasks[x]
      BY <2>2, <3>2
    <3>6. IsTable(tasks', TaskType)
      BY <1>2, <3>2, <3>3, Zenon DEF IsTable
    <3>7. RowsKept
      BY <3>3, <3>5 DEF RowsKept, t
    <3> QED BY <1>2, <3>4, <3>5, <3>6, <3>7
  <2>3. CASE /\ o \notin DOMAIN tasks
             /\ tasks' = Put(tasks, o,
                   [seq |-> Cardinality(DOMAIN tasks) + 1, queue |-> queue, inv |-> inv,
                    epoch |-> 0, claimant |-> None, deadline |-> None, scheduleStart |-> now,
                    attemptStart |-> None, attemptDeadline |-> None, availableAt |-> now])
    <3> DEFINE r == [seq |-> Cardinality(DOMAIN tasks) + 1, queue |-> queue, inv |-> inv,
                    epoch |-> 0, claimant |-> None, deadline |-> None, scheduleStart |-> now,
                    attemptStart |-> None, attemptDeadline |-> None, availableAt |-> now]
    <3>1. Cardinality(DOMAIN tasks) \in Nat
      BY <1>2, FS_CardinalityType
    <3>2. r \in TaskType
      BY <1>2, <3>1 DEF TaskType, Deadlines
    <3>3. LeaseInv(r)
      BY PolicyFields DEF LeaseInv
    <3>4. tasks' = Put(tasks, o, r)
      BY <2>3
    <3> HIDE DEF r
    <3>5. /\ DOMAIN tasks' = DOMAIN tasks \cup {o} /\ tasks'[o] = r
          /\ \A x \in DOMAIN tasks : tasks'[x] = tasks[x]
      BY <2>3, <3>4 DEF Put
    <3>6. IsTable(tasks', TaskType)
      BY <1>2, <3>2, <3>4, PutTyped
    <3>7. IsFiniteSet(DOMAIN tasks')
      BY <1>2, <3>5, FS_AddElement
    <3>8. RowsKept
      BY <3>5 DEF RowsKept
    <3> QED BY <1>2, <3>3, <3>5, <3>6, <3>7, <3>8
  <2> QED BY <2>1, <2>2, <2>3 DEF Dispatch
<1>4. TypeOK'
  BY <1>1, <1>3 DEF CustodyInv, TypeOK
<1> QED BY <1>1, <1>2, <1>3, <1>4, KeptCustody

\* cancel keeps the custody invariant.
LEMMA CancelKeeps ==
    ASSUME CustodyInv, NEW o \in Occurrences, NEW position \in Positions,
           NEW inv \in Invocations, Cancel(o, position, inv)
    PROVE  CustodyInv'
<1>1. /\ now' = now /\ tasks' = tasks /\ terminals' = terminals
      /\ attempts' = attempts /\ collected' = collected /\ promised' = promised
      /\ published' = published \cup {o}
      /\ cancellations' = Put(cancellations, o, [position |-> position, inv |-> inv])
  BY DEF Cancel
<1>2. IsTable(cancellations', CancellationType)
  BY <1>1, PutTyped, Zenon DEF CustodyInv, TypeOK, CancellationType
<1>3. TypeOK' /\ now <= now'
  BY <1>1, <1>2 DEF CustodyInv, TypeOK
<1>4. RowsKept
  BY <1>1 DEF RowsKept
<1>5. IsFiniteSet(DOMAIN tasks') /\ \A x \in DOMAIN tasks' : LeaseInv(tasks'[x])
  BY <1>1 DEF CustodyInv
<1> QED BY <1>1, <1>3, <1>4, <1>5, KeptCustody

\* Collect, a session restart and the clock write no table.
LEMMA SessionKeeps ==
    ASSUME CustodyInv, Collect \/ EngineRestart \/ Tick \/ UNCHANGED vars
    PROVE  CustodyInv'
<1>1. /\ tasks' = tasks /\ terminals' = terminals /\ attempts' = attempts
      /\ cancellations' = cancellations /\ promised' = promised
  BY DEF Collect, EngineRestart, Tick, vars
<1>2. now' \in Nat /\ now <= now'
  BY DEF CustodyInv, TypeOK, Collect, EngineRestart, Tick, vars
<1>3. published' \subseteq Occurrences /\ collected' \subseteq published'
  BY DEF CustodyInv, TypeOK, Collect, EngineRestart, Tick, vars
<1>4. TypeOK'
  BY <1>1, <1>2, <1>3 DEF CustodyInv, TypeOK
<1>5. RowsKept
  BY <1>1 DEF RowsKept
<1>6. IsFiniteSet(DOMAIN tasks') /\ \A x \in DOMAIN tasks' : LeaseInv(tasks'[x])
  BY <1>1 DEF CustodyInv
<1> QED BY <1>1, <1>2, <1>4, <1>5, <1>6, KeptCustody

\* The terminals the sweep inserts are well formed, keep the recorded ones and
\* each name the last attempt, spent or out of time.
LEMMA SweptTerminal ==
    ASSUME CustodyInv, NEW queues
    PROVE  /\ IsTable(SweptTerminals(queues), TerminalType)
           /\ DOMAIN SweptTerminals(queues) = DOMAIN terminals \cup Exhausted(queues)
           /\ \A o \in DOMAIN terminals : SweptTerminals(queues)[o] = terminals[o]
           /\ \A o \in Exhausted(queues) :
                /\ o \in DOMAIN tasks /\ o \notin DOMAIN terminals
                /\ SweptTerminals(queues)[o].epoch = tasks[o].epoch
                /\ SweptTerminals(queues)[o].claimant = tasks[o].claimant
                /\ \/ tasks[o].epoch = Policy[tasks[o].inv].attempts
                   \/ Passed(ScheduleDeadline(tasks[o]))
<1> DEFINE S == SweptTerminals(queues)
<1>1. DOMAIN S = DOMAIN terminals \cup Exhausted(queues)
  BY DEF SweptTerminals
<1>2. \A o \in DOMAIN terminals : S[o] = terminals[o]
  BY DEF SweptTerminals
<1>3. IsTable(terminals, TerminalType) /\ IsTable(tasks, TaskType)
  BY DEF CustodyInv, TypeOK
<1>4. ASSUME NEW o \in Exhausted(queues)
      PROVE  /\ o \in DOMAIN tasks /\ o \notin DOMAIN terminals
             /\ S[o] \in TerminalType
             /\ S[o].epoch = tasks[o].epoch /\ S[o].claimant = tasks[o].claimant
             /\ \/ tasks[o].epoch = Policy[tasks[o].inv].attempts
                \/ Passed(ScheduleDeadline(tasks[o]))
  <2>1. o \in DOMAIN tasks /\ o \notin DOMAIN terminals
    BY DEF Exhausted, Open
  <2>2. S[o] = [epoch |-> tasks[o].epoch, claimant |-> tasks[o].claimant,
                outcome |-> [kind |-> "exhausted"]]
    BY <2>1 DEF SweptTerminals
  <2>3. tasks[o] \in TaskType /\ LeaseInv(tasks[o])
    BY <1>3, <2>1 DEF CustodyInv, IsTable
  <2>4. S[o] \in TerminalType
    BY <2>2, <2>3 DEF TerminalType, TaskType, Outcomes
  <2>5. \/ tasks[o].epoch >= Policy[tasks[o].inv].attempts
        \/ Passed(ScheduleDeadline(tasks[o]))
    BY DEF Exhausted
  <2>6. tasks[o].epoch >= Policy[tasks[o].inv].attempts
          => tasks[o].epoch = Policy[tasks[o].inv].attempts
    <3>1. tasks[o].epoch \in Nat /\ Policy[tasks[o].inv].attempts \in Nat
      BY <2>3, PolicyFields DEF TaskType
    <3> QED BY <2>3, <3>1 DEF LeaseInv
  <2> QED BY <2>1, <2>2, <2>4, <2>5, <2>6
<1>5. \A o \in DOMAIN S : S[o] \in TerminalType /\ o \in Occurrences
  BY <1>1, <1>2, <1>3, <1>4 DEF IsTable
<1>6. S = [o \in DOMAIN S |-> S[o]]
  BY DEF SweptTerminals
<1>7. IsTable(S, TerminalType)
  <2> HIDE DEF S
  <2> QED BY <1>5, <1>6 DEF IsTable
<1> QED BY <1>1, <1>2, <1>4, <1>7

\* wait, with its sweep and its claim, keeps the custody invariant.
LEMMA WaitKeeps ==
    ASSUME CustodyInv, NEW w \in Workers, Wait(w)
    PROVE  CustodyInv'
<1> DEFINE q == Serves[w]
<1>1. /\ tasks' = Swept(q) /\ terminals' = SweptTerminals(q)
      /\ now' = now /\ cancellations' = cancellations /\ attempts' = attempts
      /\ published' = published /\ collected' = collected /\ promised' = promised
  BY DEF Wait
<1>2. DOMAIN tasks' = DOMAIN tasks /\ tasks' = [o \in DOMAIN tasks |-> tasks'[o]]
  BY <1>1 DEF Swept
<1> HIDE DEF q
<1>3. \A o \in DOMAIN tasks :
         /\ tasks'[o] \in TaskType /\ LeaseInv(tasks'[o])
         /\ tasks'[o].epoch = tasks[o].epoch /\ tasks'[o].claimant = tasks[o].claimant
         /\ tasks'[o].inv = tasks[o].inv /\ tasks'[o].scheduleStart = tasks[o].scheduleStart
  BY <1>1, SweptRow
<1>4. RowsKept /\ \A o \in DOMAIN tasks' : LeaseInv(tasks'[o])
  BY <1>2, <1>3 DEF RowsKept
<1>5. IsTable(tasks', TaskType)
  BY <1>2, <1>3 DEF IsTable, CustodyInv, TypeOK
<1>6. IsTable(terminals', TerminalType)
  BY <1>1, SweptTerminal, Zenon
<1>7. TypeOK' /\ IsFiniteSet(DOMAIN tasks') /\ now <= now'
  BY <1>1, <1>2, <1>5, <1>6 DEF CustodyInv, TypeOK
<1>8. ASSUME NEW o \in DOMAIN terminals'
      PROVE  (o \in DOMAIN terminals /\ terminals'[o] = terminals[o]) \/ (now' = now /\ FreshTerminal(o))
  <2>1. CASE o \in DOMAIN terminals
    BY <1>1, <2>1, SweptTerminal, Zenon
  <2>2. CASE o \in Exhausted(q)
    <3>1. /\ o \in DOMAIN tasks
          /\ terminals'[o].epoch = tasks[o].epoch
          /\ terminals'[o].claimant = tasks[o].claimant
          /\ \/ tasks[o].epoch = Policy[tasks[o].inv].attempts
             \/ Passed(ScheduleDeadline(tasks[o]))
      BY <1>1, <2>2, SweptTerminal, Zenon
    <3>2. ScheduleDeadline(tasks'[o]) = ScheduleDeadline(tasks[o])
      BY <1>3, <3>1 DEF ScheduleDeadline
    <3> QED BY <1>1, <1>2, <1>3, <3>1, <3>2 DEF FreshTerminal
  <2> QED BY <1>1, <2>1, <2>2, SweptTerminal, Zenon
<1> QED BY <1>1, <1>4, <1>7, <1>8, KeptCustody

\* What custody an active attempt has: its row is leased to it.
LEMMA ActiveRow ==
    ASSUME CustodyInv, NEW a \in attempts, Holds(a)
    PROVE  /\ a \in AttemptType /\ a.occ \in DOMAIN tasks /\ a.occ \in Occurrences
           /\ tasks[a.occ] \in TaskType /\ LeaseInv(tasks[a.occ])
           /\ tasks[a.occ].epoch = a.epoch /\ tasks[a.occ].claimant = a.claimant
           /\ tasks[a.occ].inv = a.inv /\ a.epoch \in 1..Policy[a.inv].attempts
<1>1. a \in AttemptType /\ a.occ \in DOMAIN tasks
  BY DEF CustodyInv, TypeOK, Holds
<1>2. tasks[a.occ] \in TaskType /\ LeaseInv(tasks[a.occ])
  BY <1>1 DEF CustodyInv, TypeOK, IsTable
<1>3. /\ tasks[a.occ].epoch = a.epoch /\ tasks[a.occ].claimant = a.claimant
      /\ tasks[a.occ].inv = a.inv
  BY DEF Holds
<1>4. a.epoch \in 1..tasks[a.occ].epoch
  BY DEF CustodyInv, EpochIsAFence
<1>5. a.epoch \in 1..Policy[a.inv].attempts
  <2>1. Policy[a.inv].attempts \in Nat
    BY <1>1, PolicyFields DEF AttemptType
  <2> QED BY <1>1, <1>2, <1>3, <1>4, <2>1 DEF LeaseInv, AttemptType
<1> QED BY <1>1, <1>2, <1>3, <1>5 DEF AttemptType

\* heartbeat keeps the custody invariant.
LEMMA HeartbeatKeeps ==
    ASSUME CustodyInv, NEW a \in attempts, Heartbeat(a)
    PROVE  CustodyInv'
<1> DEFINE o == a.occ
           t == tasks[o]
           d == Earlier(now + Policy[a.inv].heartbeat, t.attemptDeadline)
           r == [t EXCEPT !.deadline = d]
<1>1. /\ now' = now /\ terminals' = terminals /\ cancellations' = cancellations
      /\ attempts' = attempts /\ published' = published /\ collected' = collected
      /\ promised' = promised /\ tasks' = [tasks EXCEPT ![o] = r]
  BY DEF Heartbeat
<1>2. /\ o \in DOMAIN tasks /\ t \in TaskType /\ LeaseInv(t) /\ t.inv = a.inv
      /\ a.inv \in Invocations /\ t.epoch > 0
  BY ActiveRow DEF Heartbeat, Active, AttemptType
<1>3. d \in Nat /\ (t.attemptDeadline # None => d <= t.attemptDeadline)
  <2>1. now + Policy[a.inv].heartbeat \in Nat /\ now + Policy[a.inv].heartbeat # None
    BY <1>2, PolicyFields, DispatchAssumption DEF CustodyInv, TypeOK
  <2>2. t.attemptDeadline \in Nat \cup {None}
    BY <1>2 DEF TaskType, Deadlines
  <2> DEFINE f == now + Policy[a.inv].heartbeat
             l == t.attemptDeadline
  <2>3. f \in Nat /\ f # None /\ l \in Nat \cup {None} /\ d = Earlier(f, l)
    BY <2>1, <2>2
  <2> HIDE DEF f, l, d
  <2>4. f \in Nat \cup {None} /\ l \in Nat \cup {None}
    BY <2>3
  <2>5. /\ Earlier(f, l) \in Nat \cup {None}
        /\ f # None => Earlier(f, l) # None
        /\ l # None => Earlier(f, l) <= l
    BY <2>4, EarlierBound
  <2> QED BY <2>3, <2>5 DEF l
<1> HIDE DEF d, t
<1>4. /\ r \in TaskType
      /\ r.epoch = t.epoch /\ r.claimant = t.claimant /\ r.inv = t.inv
      /\ r.scheduleStart = t.scheduleStart /\ r.deadline = d
      /\ r.attemptStart = t.attemptStart /\ r.attemptDeadline = t.attemptDeadline
  <2>1. d \in Deadlines
    BY <1>3 DEF Deadlines
  <2> QED BY <1>2, <2>1 DEF TaskType
<1> HIDE DEF r, o
<1>5. LeaseInv(r)
  BY <1>2, <1>3, <1>4 DEF LeaseInv, ScheduleDeadline
<1>6. DOMAIN tasks' = DOMAIN tasks /\ tasks'[o] = r
      /\ \A x \in DOMAIN tasks : x # o => tasks'[x] = tasks[x]
  BY <1>1, <1>2
<1>7. IsTable(tasks', TaskType)
  BY <1>1, <1>4, Zenon DEF CustodyInv, TypeOK, IsTable
<1>8. RowsKept
  BY <1>4, <1>6 DEF RowsKept, t
<1>9. TypeOK' /\ IsFiniteSet(DOMAIN tasks') /\ now <= now'
  BY <1>1, <1>6, <1>7 DEF CustodyInv, TypeOK
<1>10. \A x \in DOMAIN tasks' : LeaseInv(tasks'[x])
  BY <1>5, <1>6 DEF CustodyInv
<1> QED BY <1>1, <1>8, <1>9, <1>10, KeptCustody

\* A report inserts the terminal of an attempt that holds custody.
LEMMA ReportKeeps ==
    ASSUME CustodyInv, NEW a \in attempts, Holds(a), a.occ \notin DOMAIN terminals,
           NEW outcome \in Outcomes, outcome.kind # "exhausted", InsertTerminal(a, outcome),
           UNCHANGED <<now, tasks, cancellations, attempts, published, collected, promised>>
    PROVE  CustodyInv'
<1> DEFINE r == [epoch |-> a.epoch, claimant |-> a.claimant, outcome |-> outcome]
<1>1. terminals' = Put(terminals, a.occ, r)
  BY DEF InsertTerminal
<1>2. r \in TerminalType /\ a.occ \in Occurrences /\ a.occ \in DOMAIN tasks
      /\ tasks[a.occ].epoch = a.epoch /\ tasks[a.occ].claimant = a.claimant
  BY ActiveRow DEF TerminalType, AttemptType
<1>3. r.epoch = a.epoch /\ r.claimant = a.claimant /\ r.outcome.kind # "exhausted"
  OBVIOUS
<1> HIDE DEF r
<1>4. IsTable(terminals', TerminalType)
  BY <1>1, <1>2, PutTyped DEF CustodyInv, TypeOK
<1>5. TypeOK' /\ IsFiniteSet(DOMAIN tasks') /\ now <= now'
  BY <1>4 DEF CustodyInv, TypeOK
<1>6. RowsKept /\ \A x \in DOMAIN tasks' : LeaseInv(tasks'[x])
  BY DEF CustodyInv, RowsKept
<1>7. \A x \in DOMAIN terminals' :
         (x \in DOMAIN terminals /\ terminals'[x] = terminals[x]) \/ (now' = now /\ FreshTerminal(x))
  BY <1>1, <1>2, <1>3 DEF Put, FreshTerminal
<1> QED BY <1>5, <1>6, <1>7, KeptCustody

\* complete keeps the custody invariant.
LEMMA CompleteKeeps ==
    ASSUME CustodyInv, NEW a \in attempts, NEW result \in Results, Complete(a, result)
    PROVE  CustodyInv'
<1> DEFINE outcome == [kind |-> "completed", value |-> result]
<1>1. outcome \in Outcomes /\ outcome.kind # "exhausted"
  BY DEF Outcomes
<1>2. Holds(a) /\ a.occ \notin DOMAIN terminals /\ InsertTerminal(a, outcome)
      /\ UNCHANGED <<now, tasks, cancellations, attempts, published, collected, promised>>
  BY DEF Complete, CancelledAttempt, Active
<1> QED BY <1>1, <1>2, ReportKeeps

\* fail, with its retry or its final outcome, keeps the custody invariant.
LEMMA FailKeeps ==
    ASSUME CustodyInv, NEW a \in attempts, NEW failure \in Failures, Fail(a, failure)
    PROVE  CustodyInv'
<1>1. Holds(a) /\ a.occ \notin DOMAIN terminals
      /\ UNCHANGED <<now, cancellations, attempts, published, collected>>
  BY DEF Fail, CancelledAttempt, Active
<1>2. CASE /\ InsertTerminal(a, [kind |-> "failed", failure |-> failure])
           /\ UNCHANGED <<tasks, promised>>
  <2> DEFINE outcome == [kind |-> "failed", failure |-> failure]
  <2>1. outcome \in Outcomes /\ outcome.kind # "exhausted"
    BY DEF Outcomes
  <2> QED BY <1>1, <1>2, <2>1, ReportKeeps
<1>3. CASE /\ Active(a)
           /\ tasks' = [tasks EXCEPT ![a.occ].deadline = now,
                                     ![a.occ].availableAt = RetryAt(a, failure)]
           /\ promised' = [promised EXCEPT ![a.occ] = RetryAt(a, failure)]
           /\ UNCHANGED terminals
  <2> DEFINE o == a.occ
             t == tasks[o]
             v == RetryAt(a, failure)
             r == [t EXCEPT !.deadline = now, !.availableAt = v]
  <2>1. /\ o \in DOMAIN tasks /\ o \in Occurrences /\ t \in TaskType /\ LeaseInv(t)
        /\ t.inv = a.inv /\ a.inv \in Invocations /\ a.epoch \in 1..Policy[a.inv].attempts
        /\ t.epoch > 0 /\ now \in Nat
    BY <1>1, ActiveRow DEF AttemptType, CustodyInv, TypeOK
  <2>2. v \in Nat
    <3>1. Policy[a.inv].delay[a.epoch] \in Nat /\ failure.retryAfter \in Nat
      BY <2>1, PolicyFields, DispatchAssumption DEF FailureType
    <3> QED BY <2>1, <3>1 DEF RetryAt
  <2>3. tasks' = [tasks EXCEPT ![o] = r] /\ promised' = [promised EXCEPT ![o] = v]
    BY <1>3, <2>1, Zenon
  <2>4. now < t.deadline
    BY <1>3, <2>1 DEF Active, LeaseInv
  <2> HIDE DEF v, t
  <2>5. /\ r \in TaskType
        /\ r.epoch = t.epoch /\ r.claimant = t.claimant /\ r.inv = t.inv
        /\ r.scheduleStart = t.scheduleStart /\ r.deadline = now
        /\ r.attemptStart = t.attemptStart /\ r.attemptDeadline = t.attemptDeadline
    <3>1. now \in Deadlines
      BY <2>1 DEF Deadlines
    <3> QED BY <2>1, <2>2, <3>1, Zenon DEF TaskType
  <2> HIDE DEF r, o
  <2>6. LeaseInv(r)
    <3>1. t.deadline \in Nat /\ t.attemptDeadline \in Nat \cup {None}
      BY <2>1 DEF LeaseInv, TaskType, Deadlines
    <3>2. t.attemptDeadline # None => now <= t.attemptDeadline
      BY <2>1, <2>4, <3>1 DEF LeaseInv
    <3>3. ScheduleDeadline(r) = ScheduleDeadline(t)
      BY <2>5 DEF ScheduleDeadline
    <3> QED BY <2>1, <2>5, <3>2, <3>3 DEF LeaseInv
  <2>7. DOMAIN tasks' = DOMAIN tasks /\ tasks'[o] = r
        /\ \A x \in DOMAIN tasks : x # o => tasks'[x] = tasks[x]
    BY <2>1, <2>3
  <2>8. IsTable(tasks', TaskType) /\ promised' \in [Occurrences -> Nat]
    BY <2>1, <2>2, <2>3, <2>5 DEF CustodyInv, TypeOK, IsTable
  <2>9. RowsKept
    BY <2>5, <2>7 DEF RowsKept, t
  <2>10. TypeOK' /\ IsFiniteSet(DOMAIN tasks') /\ now <= now'
    BY <1>1, <1>3, <2>7, <2>8 DEF CustodyInv, TypeOK
  <2>11. \A x \in DOMAIN tasks' : LeaseInv(tasks'[x])
    BY <2>6, <2>7 DEF CustodyInv
  <2> QED BY <1>1, <1>3, <2>9, <2>10, <2>11, KeptCustody
<1> QED BY <1>2, <1>3 DEF Fail

\* A claim that leases row o: the epoch it grants is new, so the attempt it
\* hands out is the only one of that epoch.
LEMMA ClaimKeeps ==
    ASSUME CustodyInv, NEW w \in Workers, Claim(w)
    PROVE  CustodyInv'
<1> DEFINE q == Serves[w]
           swept == Swept(q)
<1>1. CASE Claimable(q) = {}
  <2>1. Wait(w)
    BY <1>1 DEF Claim, Wait
  <2> QED BY <2>1, WaitKeeps
<1>2. ASSUME NEW o \in Claimable(q),
             tasks' = [swept EXCEPT ![o] = Leased(swept[o], w)],
             attempts' = attempts \cup
                {[occ |-> o, epoch |-> Leased(swept[o], w).epoch, claimant |-> w,
                  queue |-> Leased(swept[o], w).queue, inv |-> Leased(swept[o], w).inv]}
      PROVE  CustodyInv'
  <2> DEFINE t == swept[o]
             row == Leased(t, w)
             new == [occ |-> o, epoch |-> row.epoch, claimant |-> w, queue |-> row.queue, inv |-> row.inv]
  <2>1. /\ tasks' = [swept EXCEPT ![o] = row] /\ attempts' = attempts \cup {new}
        /\ terminals' = SweptTerminals(q)
        /\ now' = now /\ cancellations' = cancellations
        /\ published' = published /\ collected' = collected /\ promised' = promised
    BY <1>2 DEF Claim
  <2>2. /\ o \in DOMAIN tasks /\ o \in Occurrences /\ o \notin Exhausted(q)
        /\ o \notin DOMAIN terminals /\ t.epoch < Policy[t.inv].attempts
    BY DEF Claimable, Open, CustodyInv, TypeOK, IsTable
  <2>3. now \in Nat /\ IsTable(tasks, TaskType) /\ IsFiniteSet(DOMAIN tasks)
    BY DEF CustodyInv, TypeOK
  <2>4. DOMAIN swept = DOMAIN tasks
    BY DEF Swept
  <2>5. \A x \in DOMAIN tasks :
           /\ swept[x] \in TaskType /\ LeaseInv(swept[x])
           /\ swept[x].epoch = tasks[x].epoch /\ swept[x].claimant = tasks[x].claimant
           /\ swept[x].inv = tasks[x].inv /\ swept[x].scheduleStart = tasks[x].scheduleStart
    BY SweptRow
  <2>6. swept \in [DOMAIN tasks -> TaskType]
    <3>1. swept = [x \in DOMAIN tasks |-> swept[x]]
      BY DEF Swept
    <3> HIDE DEF swept
    <3> QED BY <2>5, <3>1
  <2> HIDE DEF swept, q
  <2>7. /\ row \in TaskType /\ LeaseInv(row)
        /\ row.epoch = t.epoch + 1 /\ row.claimant = w
        /\ row.inv = t.inv /\ row.queue = t.queue /\ row.scheduleStart = t.scheduleStart
    BY <2>2, <2>3, <2>5, LeasedRow
  <2> HIDE DEF row, t
  <2>8. /\ DOMAIN tasks' = DOMAIN tasks /\ tasks'[o] = row
        /\ \A x \in DOMAIN tasks : x # o => tasks'[x] = swept[x]
    BY <2>1, <2>2, <2>4
  <2>9. IsTable(tasks', TaskType)
    BY <2>1, <2>3, <2>4, <2>6, <2>7, Zenon DEF IsTable
  <2>10. new \in AttemptType /\ new.occ = o /\ new.epoch = t.epoch + 1
    BY <2>2, <2>7 DEF AttemptType, TaskType
  <2> HIDE DEF new
  <2>11. TypeOK'
    <3>1. IsTable(terminals', TerminalType)
      BY <2>1, SweptTerminal, Zenon
    <3> QED BY <2>1, <2>9, <2>10, <3>1 DEF CustodyInv, TypeOK
  <2>12. \A x \in DOMAIN tasks' : LeaseInv(tasks'[x])
    BY <2>5, <2>7, <2>8
  <2>13. /\ tasks[o].epoch \in Nat /\ t.epoch = tasks[o].epoch
    BY <2>2, <2>3, <2>5 DEF t, IsTable, TaskType
  <2>14. EpochIsAFence'
    <3>1. \A a \in attempts : a.occ \in DOMAIN tasks /\ a.epoch \in 1..tasks[a.occ].epoch
      BY DEF CustodyInv, EpochIsAFence
    <3>2. \A x \in DOMAIN tasks : tasks[x].epoch \in Nat /\ tasks'[x].epoch \in Nat
                                /\ tasks[x].epoch <= tasks'[x].epoch
      BY <2>3, <2>5, <2>7, <2>8, <2>13 DEF IsTable, TaskType
    <3>3. \A a \in attempts' : a.occ \in DOMAIN tasks' /\ a.epoch \in 1..tasks'[a.occ].epoch
      <4>1. \A a \in attempts : a.occ \in DOMAIN tasks' /\ a.epoch \in 1..tasks'[a.occ].epoch
        BY <2>8, <3>1, <3>2
      <4>2. new.occ \in DOMAIN tasks' /\ new.epoch \in 1..tasks'[new.occ].epoch
        BY <2>2, <2>7, <2>8, <2>10, <2>13
      <4> QED BY <2>1, <4>1, <4>2
    <3>4. \A a \in attempts : a.occ = o => a.epoch # t.epoch + 1
      BY <2>13, <3>1
    <3>5. \A a, b \in attempts : a.occ = b.occ /\ a.epoch = b.epoch => a = b
      BY DEF CustodyInv, EpochIsAFence
    <3>6. \A a, b \in attempts' : a.occ = b.occ /\ a.epoch = b.epoch => a = b
      BY <2>1, <2>10, <3>4, <3>5
    <3> QED BY <3>3, <3>6 DEF EpochIsAFence
  <2>15. ASSUME NEW x \in DOMAIN terminals'
         PROVE  /\ x \in DOMAIN tasks /\ x # o
                /\ terminals'[x].epoch = tasks[x].epoch /\ terminals'[x].claimant = tasks[x].claimant
                /\ terminals'[x].outcome.kind = "exhausted" =>
                      \/ terminals'[x].epoch = Policy[tasks[x].inv].attempts
                      \/ Passed(ScheduleDeadline(tasks[x]))
    <3>1. CASE x \in DOMAIN terminals
      <4>1. terminals'[x] = terminals[x] /\ x # o
        BY <2>1, <2>2, <3>1, SweptTerminal, Zenon
      <4> QED BY <3>1, <4>1 DEF CustodyInv, TerminalIsOfLastAttempt, AttemptBudget
    <3>2. CASE x \in Exhausted(q)
      BY <2>1, <2>2, <3>2, SweptTerminal, Zenon
    <3> QED BY <2>1, <3>1, <3>2, SweptTerminal, Zenon
  <2>16. TerminalIsOfLastAttempt'
    BY <2>5, <2>8, <2>15 DEF TerminalIsOfLastAttempt
  <2>17. AttemptBudget'
    <3>1. \A x \in DOMAIN tasks' : tasks'[x].epoch <= Policy[tasks'[x].inv].attempts
      BY <2>12 DEF LeaseInv
    <3>2. ASSUME NEW x \in DOMAIN terminals', terminals'[x].outcome.kind = "exhausted"
          PROVE  \/ terminals'[x].epoch = Policy[tasks'[x].inv].attempts
                 \/ Passed(ScheduleDeadline(tasks[x]))'
      <4>1. ScheduleDeadline(tasks'[x]) = ScheduleDeadline(tasks[x]) /\ tasks'[x].inv = tasks[x].inv
        BY <2>5, <2>8, <2>15 DEF ScheduleDeadline
      <4> QED BY <2>1, <2>15, <3>2, <4>1 DEF Passed
    <3> QED BY <3>1, <3>2 DEF AttemptBudget
  <2> QED BY <2>3, <2>8, <2>11, <2>12, <2>14, <2>16, <2>17 DEF CustodyInv
<1> QED BY <1>1, <1>2 DEF Claim

-----------------------------------------------------------------------------
(* The theorems. *)

\* Custody holds in every reachable state: the tables that dispatch, cancel,
\* claim, wait, heartbeat, complete and fail write satisfy CustodyInv.
THEOREM CustodyHolds == Spec => []CustodyInv
<1>1. Init => CustodyInv
  <2> SUFFICES ASSUME Init PROVE CustodyInv
    OBVIOUS
  <2>1. /\ DOMAIN tasks = {} /\ DOMAIN terminals = {} /\ DOMAIN cancellations = {}
        /\ attempts = {}
    BY DEF Init
  <2>2. TypeOK
    BY <2>1 DEF Init, TypeOK, IsTable
  <2>3. IsFiniteSet(DOMAIN tasks)
    BY <2>1, FS_EmptySet
  <2> QED BY <2>1, <2>2, <2>3 DEF CustodyInv, EpochIsAFence, TerminalIsOfLastAttempt, AttemptBudget
<1>2. CustodyInv /\ [Next]_vars => CustodyInv'
  <2> SUFFICES ASSUME CustodyInv, [Next]_vars PROVE CustodyInv'
    OBVIOUS
  <2>1. CASE \E o \in Occurrences, inv \in Invocations, queue \in Queues : Dispatch(o, inv, queue)
    BY <2>1, DispatchKeeps
  <2>2. CASE \E o \in Occurrences, position \in Positions, inv \in Invocations : Cancel(o, position, inv)
    BY <2>2, CancelKeeps
  <2>3. CASE Collect \/ EngineRestart \/ Tick \/ UNCHANGED vars
    BY <2>3, SessionKeeps
  <2>4. CASE \E w \in Workers : Claim(w) \/ Wait(w)
    BY <2>4, ClaimKeeps, WaitKeeps
  <2>5. CASE \E a \in attempts : Heartbeat(a)
    BY <2>5, HeartbeatKeeps
  <2>6. CASE \E a \in attempts, result \in Results : Complete(a, result)
    BY <2>6, CompleteKeeps
  <2>7. CASE \E a \in attempts, failure \in Failures : Fail(a, failure)
    BY <2>7, FailKeeps
  <2> QED BY <2>1, <2>2, <2>3, <2>4, <2>5, <2>6, <2>7 DEF Next
<1> QED BY <1>1, <1>2, PTL DEF Spec

\* No lease outlives the limits of its policy (claim, heartbeat, fail).
THEOREM LeasesWithinLimits == Spec => []LeaseWithinLimits
<1>1. CustodyInv => LeaseWithinLimits
  <2> SUFFICES ASSUME CustodyInv, NEW o \in DOMAIN tasks, tasks[o].epoch > 0
               PROVE  /\ ScheduleDeadline(tasks[o]) # None =>
                            tasks[o].deadline <= ScheduleDeadline(tasks[o])
                      /\ Policy[tasks[o].inv].startToClose # None =>
                            tasks[o].deadline <= tasks[o].attemptStart + Policy[tasks[o].inv].startToClose
    BY DEF LeaseWithinLimits
  <2> DEFINE t == tasks[o]
  <2>1. t \in TaskType /\ LeaseInv(t)
    BY DEF CustodyInv, TypeOK, IsTable
  <2>2. ScheduleDeadline(t) \in Nat \cup {None} /\ Policy[t.inv].startToClose \in Nat \cup {None}
    BY <2>1, ScheduleDeadlineType, PolicyFields DEF TaskType
  <2>3. /\ t.deadline \in Nat /\ t.attemptStart \in Nat
        /\ t.attemptDeadline \in Nat \cup {None}
    BY <2>1 DEF LeaseInv, TaskType, Deadlines
  <2> QED BY <2>1, <2>2, <2>3 DEF LeaseInv
<1> QED BY <1>1, CustodyHolds, PTL

\* A recorded outcome is never replaced: dispatch, claim, wait, complete and
\* fail only ever insert a terminal where there is none.
THEOREM OutcomesAreFinal == Spec => [][TerminalKept]_vars
<1>1. CustodyInv /\ [Next]_vars => TerminalKept
  <2> SUFFICES ASSUME CustodyInv, [Next]_vars, NEW o \in DOMAIN terminals
               PROVE  o \in DOMAIN terminals' /\ terminals'[o] = terminals[o]
    BY DEF TerminalKept
  <2>1. CASE terminals' = terminals
    BY <2>1
  <2>2. CASE \E w \in Workers : Claim(w) \/ Wait(w)
    <3> PICK w \in Workers : Claim(w) \/ Wait(w)
      BY <2>2
    <3>1. terminals' = SweptTerminals(Serves[w])
      BY DEF Claim, Wait
    <3> QED BY <3>1, SweptTerminal, Zenon
  <2>3. CASE \E a \in attempts : \E outcome : a.occ \notin DOMAIN terminals /\ InsertTerminal(a, outcome)
    BY <2>3 DEF InsertTerminal, Put
  <2> QED BY <2>1, <2>2, <2>3, Zenon
          DEF Next, Dispatch, Cancel, Collect, EngineRestart, Heartbeat, Complete, Fail, Tick, vars
<1> QED BY <1>1, CustodyHolds, PTL DEF Spec

\* Once cancel has fenced an occurrence, the fence stands and claim grants it
\* no further attempt.
THEOREM FencesHold == Spec => [][FenceKept]_vars
<1>1. CustodyInv /\ [Next]_vars => FenceKept
  <2> SUFFICES ASSUME CustodyInv, [Next]_vars, NEW o \in DOMAIN cancellations
               PROVE  /\ o \in DOMAIN cancellations' /\ cancellations'[o] = cancellations[o]
                      /\ o \in DOMAIN tasks' => o \in DOMAIN tasks /\ tasks'[o].epoch = tasks[o].epoch
    BY DEF FenceKept
  <2>1. CASE \E p \in Occurrences, inv \in Invocations, queue \in Queues : Dispatch(p, inv, queue)
    <3> PICK p \in Occurrences, inv \in Invocations, queue \in Queues : Dispatch(p, inv, queue)
      BY <2>1
    <3>1. cancellations' = cancellations
      BY DEF Dispatch
    <3>2. CASE p \in DOMAIN tasks /\ tasks' = [tasks EXCEPT ![p].queue = queue]
      <4>1. tasks[p] \in TaskType
        BY <3>2 DEF CustodyInv, TypeOK, IsTable
      <4>2. [tasks[p] EXCEPT !.queue = queue].epoch = tasks[p].epoch
        BY <4>1 DEF TaskType
      <4> QED BY <3>1, <3>2, <4>2
    <3>3. CASE tasks' = tasks
      BY <3>1, <3>3
    <3>4. CASE p # o /\ \E r : tasks' = Put(tasks, p, r)
      BY <3>1, <3>4 DEF Put
    <3> QED BY <3>2, <3>3, <3>4 DEF Dispatch
  <2>2. CASE \E p \in Occurrences, position \in Positions, inv \in Invocations : Cancel(p, position, inv)
    BY <2>2 DEF Cancel, Put
  <2>3. CASE tasks' = tasks /\ cancellations' = cancellations
    BY <2>3
  <2>4. CASE \E w \in Workers : Claim(w) \/ Wait(w)
    <3> PICK w \in Workers : Claim(w) \/ Wait(w)
      BY <2>4
    <3> DEFINE q == Serves[w]
    <3>1. cancellations' = cancellations
      BY DEF Claim, Wait
    <3>2. DOMAIN Swept(q) = DOMAIN tasks
      BY DEF Swept
    <3>3. \A x \in DOMAIN tasks : Swept(q)[x].epoch = tasks[x].epoch
      BY SweptRow
    <3>4. o \notin Claimable(q)
      BY DEF Claimable, Open
    <3>5. \/ tasks' = Swept(q)
          \/ \E x \in Claimable(q) : \E r : tasks' = [Swept(q) EXCEPT ![x] = r]
      BY DEF Claim, Wait
    <3> QED BY <3>1, <3>2, <3>3, <3>4, <3>5
  <2>5. CASE \E a \in attempts : Heartbeat(a)
    <3> PICK a \in attempts : Heartbeat(a)
      BY <2>5
    <3> QED BY DEF Heartbeat, Active, Open
  <2>6. CASE \E a \in attempts, failure \in Failures : Fail(a, failure)
    <3> PICK a \in attempts, failure \in Failures : Fail(a, failure)
      BY <2>6
    <3>1. cancellations' = cancellations
      BY DEF Fail
    <3>2. CASE tasks' = tasks
      BY <3>1, <3>2
    <3>3. CASE Active(a) /\ tasks' = [tasks EXCEPT ![a.occ].deadline = now,
                                        ![a.occ].availableAt = RetryAt(a, failure)]
      <4>1. a.occ # o
        BY <3>3 DEF Active, Open
      <4> QED BY <3>1, <3>3, <4>1
    <3> QED BY <3>2, <3>3 DEF Fail
  <2> QED BY <2>1, <2>2, <2>3, <2>4, <2>5, <2>6, Zenon
          DEF Next, Collect, EngineRestart, Complete, Tick, vars
<1> QED BY <1>1, CustodyHolds, PTL DEF Spec

\* The three together: what the custody database granted and recorded stands.
THEOREM CustodyStandsHolds == Spec => CustodyStands
BY LeasesWithinLimits, OutcomesAreFinal, FencesHold, PTL DEF CustodyStands

-----------------------------------------------------------------------------
(* The refinement.  A Dispatch is Publish, a Cancel is Fence, a Complete, a  *)
(* Fail without a retry and a sweep that exhausts tasks are Report; leases,  *)
(* heartbeats, retries and the clock leave the promised state alone.         *)

\* What every step but the two of the Engine leaves of a task: its invocation.
InvocationsKept ==
    DOMAIN tasks' = DOMAIN tasks /\ \A o \in DOMAIN tasks : tasks'[o].inv = tasks[o].inv

\* Steps that keep the invocations keep the custody the Engine is promised.
LEMMA SameCustody ==
    ASSUME InvocationsKept
    PROVE  [o \in DOMAIN tasks' |-> tasks'[o].inv] = [o \in DOMAIN tasks |-> tasks[o].inv]
BY DEF InvocationsKept

\* Inserting one terminal is the report of one occurrence.
LEMMA InsertReports ==
    ASSUME CustodyInv, InvocationsKept, NEW a \in attempts, Holds(a), a.occ \notin DOMAIN terminals,
           NEW outcome \in Outcomes, InsertTerminal(a, outcome),
           UNCHANGED <<cancellations, published, collected>>
    PROVE  Promise!Next
<1>1. a.occ \in Occurrences /\ a.occ \in DOMAIN tasks
  BY ActiveRow
<1>2. terminals' = Put(terminals, a.occ, [epoch |-> a.epoch, claimant |-> a.claimant, outcome |-> outcome])
  BY DEF InsertTerminal
<1> DEFINE os == {a.occ}
           found == [x \in os |-> outcome]
           old == [o \in DOMAIN terminals |-> terminals[o].outcome]
<1>3. [o \in DOMAIN terminals' |-> terminals'[o].outcome]
        = [x \in DOMAIN old \cup os |-> IF x \in os THEN found[x] ELSE old[x]]
  BY <1>2 DEF Put
<1>4. Promise!Report(os)
  BY <1>1, <1>3, SameCustody, Zenon DEF Promise!Report
<1>5. os \in SUBSET Occurrences
  BY <1>1
<1> QED
  BY <1>4, <1>5 DEF Promise!Next

\* A sweep reports what it exhausts.
LEMMA SweepReports ==
    ASSUME CustodyInv, InvocationsKept, NEW q, terminals' = SweptTerminals(q),
           UNCHANGED <<cancellations, published, collected>>
    PROVE  [Promise!Next]_(Promise!dispatchVars)
<1>1. PICK os \in SUBSET Occurrences : os = Exhausted(q)
  BY Zenon DEF Exhausted, CustodyInv, TypeOK, IsTable
<1> DEFINE old == [o \in DOMAIN terminals |-> terminals[o].outcome]
           found == [x \in os |-> [kind |-> "exhausted"]]
<1>2. os \subseteq DOMAIN tasks \ DOMAIN terminals
  BY <1>1 DEF Exhausted, Open
<1>3. [o \in DOMAIN terminals' |-> terminals'[o].outcome]
        = [x \in DOMAIN old \cup os |-> IF x \in os THEN found[x] ELSE old[x]]
  BY <1>1, <1>2 DEF SweptTerminals
<1>4. CASE os = {}
  <2>1. [o \in DOMAIN terminals' |-> terminals'[o].outcome] = old
    BY <1>3, <1>4
  <2> QED
    BY <2>1, SameCustody DEF Promise!dispatchVars
<1>5. CASE os # {}
  <2>1. found \in [os -> Outcomes]
    BY DEF Outcomes
  <2>2. Promise!Report(os)
    BY <1>2, <1>3, <1>5, <2>1, SameCustody, Zenon DEF Promise!Report
  <2> QED
    BY <2>2 DEF Promise!Next
<1> QED
  BY <1>4, <1>5

\* A claim and a sweep reroute nothing: rows keep their invocation.
LEMMA WorkerKeepsInvocations ==
    ASSUME CustodyInv, NEW w \in Workers, Claim(w) \/ Wait(w)
    PROVE  InvocationsKept
<1> DEFINE swept == Swept(Serves[w])
<1>1. DOMAIN swept = DOMAIN tasks /\ \A o \in DOMAIN tasks : swept[o].inv = tasks[o].inv
  BY SweptRow DEF Swept
<1>2. CASE tasks' = swept
  BY <1>1, <1>2 DEF InvocationsKept
<1>3. ASSUME NEW o \in Claimable(Serves[w]), tasks' = [swept EXCEPT ![o] = Leased(swept[o], w)]
      PROVE  InvocationsKept
  <2>1. o \in DOMAIN tasks /\ swept[o] \in TaskType
    BY SweptRow DEF Claimable
  <2>2. Leased(swept[o], w).inv = swept[o].inv
    BY <2>1 DEF Leased, TaskType
  <2> QED
    BY <1>1, <1>3, <2>1, <2>2 DEF InvocationsKept
<1> QED
  BY <1>2, <1>3 DEF Claim, Wait

\* So do heartbeats and reports.
LEMMA AttemptKeepsInvocations ==
    ASSUME CustodyInv, NEW a \in attempts,
           \/ Heartbeat(a)
           \/ \E result \in Results : Complete(a, result)
           \/ \E failure \in Failures : Fail(a, failure)
    PROVE  InvocationsKept
<1>1. CASE Heartbeat(a)
  BY <1>1 DEF Heartbeat, Active, Holds, InvocationsKept, CustodyInv, TypeOK, IsTable, TaskType
<1>2. CASE \E result \in Results : Complete(a, result)
  BY <1>2 DEF Complete, InvocationsKept
<1>3. ASSUME NEW failure \in Failures, Fail(a, failure)
      PROVE  InvocationsKept
  <2>1. a.occ \in DOMAIN tasks /\ tasks[a.occ] \in TaskType
    BY <1>3, ActiveRow DEF Fail, CancelledAttempt, Active
  <2>2. CASE tasks' = tasks
    BY <2>2 DEF InvocationsKept
  <2>3. CASE tasks' = [tasks EXCEPT ![a.occ].deadline = now, ![a.occ].availableAt = RetryAt(a, failure)]
    BY <2>1, <2>3 DEF InvocationsKept, TaskType
  <2> QED
    BY <1>3, <2>2, <2>3 DEF Fail
<1> QED
  BY <1>1, <1>2, <1>3

\* Every step of the local Dispatch is a step of the promised one, or stutters.
LEMMA StepImplements ==
    ASSUME CustodyInv, FencedAsDispatched, [Next]_vars
    PROVE  [Promise!Next]_(Promise!dispatchVars)
<1> DEFINE custody == [o \in DOMAIN tasks |-> tasks[o].inv]
<1>1. ASSUME NEW o \in Occurrences, NEW inv \in Invocations, NEW queue \in Queues,
             Dispatch(o, inv, queue)
      PROVE  Promise!Next
  <2>1. o \in DOMAIN custody => custody[o] = inv
    BY <1>1 DEF Dispatch, FencedAsDispatched
  <2>2. [x \in DOMAIN tasks' |-> tasks'[x].inv]
          = IF o \in DOMAIN cancellations \cup DOMAIN custody THEN custody
            ELSE [x \in DOMAIN custody \cup {o} |-> IF x = o THEN inv ELSE custody[x]]
    <3>1. CASE o \in DOMAIN cancellations
      <4>1. InvocationsKept
        BY <1>1, <3>1 DEF Dispatch, InvocationsKept
      <4> QED
        BY <3>1, <4>1, SameCustody
    <3>2. CASE o \notin DOMAIN cancellations /\ o \in DOMAIN tasks
      <4>1. InvocationsKept
        BY <1>1, <3>2 DEF Dispatch, InvocationsKept, CustodyInv, TypeOK, IsTable, TaskType
      <4> QED
        BY <3>2, <4>1, SameCustody
    <3>3. CASE o \notin DOMAIN cancellations /\ o \notin DOMAIN tasks
      <4>1. DOMAIN tasks' = DOMAIN tasks \cup {o}
        BY <1>1, <3>3 DEF Dispatch, Put
      <4>2. tasks'[o].inv = inv /\ \A x \in DOMAIN tasks : tasks'[x] = tasks[x]
        BY <1>1, <3>3 DEF Dispatch, Put
      <4> QED
        BY <3>3, <4>1, <4>2
    <3> QED
      BY <3>1, <3>2, <3>3
  <2>3. Promise!Publish(o, inv)
    BY <1>1, <2>1, <2>2, Zenon DEF Promise!Publish, Dispatch
  <2> QED
    BY <2>3 DEF Promise!Next
<1>2. ASSUME NEW o \in Occurrences, NEW position \in Positions, NEW inv \in Invocations,
             Cancel(o, position, inv)
      PROVE  Promise!Next
  <2>1. Promise!Fence(o)
    BY <1>2 DEF Promise!Fence, Cancel, Put
  <2> QED
    BY <2>1 DEF Promise!Next
<1>3. CASE Collect
  <2>1. Promise!Collect
    BY <1>3 DEF Promise!Collect, Collect, CustodyInv, TypeOK
  <2> QED
    BY <2>1 DEF Promise!Next
<1>4. CASE EngineRestart
  <2>1. Promise!NewSession
    BY <1>4 DEF Promise!NewSession, EngineRestart
  <2> QED
    BY <2>1 DEF Promise!Next
<1>5. ASSUME NEW w \in Workers, Wait(w)
      PROVE  [Promise!Next]_(Promise!dispatchVars)
  <2>1. InvocationsKept
    BY <1>5, WorkerKeepsInvocations
  <2> QED
    BY <1>5, <2>1, SweepReports DEF Wait
<1>6. ASSUME NEW w \in Workers, Claim(w)
      PROVE  [Promise!Next]_(Promise!dispatchVars)
  <2>1. InvocationsKept
    BY <1>6, WorkerKeepsInvocations
  <2> QED
    BY <1>6, <2>1, SweepReports DEF Claim
<1>7. ASSUME NEW a \in attempts, Heartbeat(a)
      PROVE  UNCHANGED Promise!dispatchVars
  <2>1. InvocationsKept
    BY <1>7, AttemptKeepsInvocations
  <2> QED
    BY <1>7, <2>1, SameCustody DEF Heartbeat, Promise!dispatchVars
<1>8. ASSUME NEW a \in attempts, NEW result \in Results, Complete(a, result)
      PROVE  Promise!Next
  <2>1. [kind |-> "completed", value |-> result] \in Outcomes
    BY DEF Outcomes
  <2>2. Holds(a) /\ InvocationsKept
    BY <1>8, AttemptKeepsInvocations DEF Complete, CancelledAttempt, Active
  <2> QED
    BY <1>8, <2>1, <2>2, InsertReports DEF Complete
<1>9. ASSUME NEW a \in attempts, NEW failure \in Failures, Fail(a, failure)
      PROVE  [Promise!Next]_(Promise!dispatchVars)
  <2>1. Holds(a) /\ a.occ \notin DOMAIN terminals /\ InvocationsKept
    BY <1>9, AttemptKeepsInvocations DEF Fail, CancelledAttempt, Active
  <2>2. CASE ~CancelledAttempt(a) /\ Retries(a, failure)
    BY <1>9, <2>1, <2>2, SameCustody DEF Fail, Promise!dispatchVars
  <2>3. CASE ~(~CancelledAttempt(a) /\ Retries(a, failure))
    <3>1. [kind |-> "failed", failure |-> failure] \in Outcomes
      BY DEF Outcomes
    <3> QED
      BY <1>9, <2>1, <2>3, <3>1, InsertReports DEF Fail
  <2> QED
    BY <2>2, <2>3
<1>10. CASE Tick \/ UNCHANGED vars
  BY <1>10 DEF Tick, vars, Promise!dispatchVars
<1> QED
  BY <1>1, <1>2, <1>3, <1>4, <1>5, <1>6, <1>7, <1>8, <1>9, <1>10 DEF Next

\* A fence never names another invocation than its task: cancel checks the row
\* it fences and dispatch writes no row under a fence.
THEOREM FencesMatch == Spec => []FencedAsDispatched
<1>1. Init => FencedAsDispatched
  BY DEF Init, FencedAsDispatched
<1>2. CustodyInv /\ FencedAsDispatched /\ [Next]_vars => FencedAsDispatched'
  <2> SUFFICES ASSUME CustodyInv, FencedAsDispatched, [Next]_vars
               PROVE  FencedAsDispatched'
    OBVIOUS
  <2>1. CASE InvocationsKept /\ cancellations' = cancellations
    BY <2>1 DEF InvocationsKept, FencedAsDispatched
  <2>2. ASSUME NEW o \in Occurrences, NEW inv \in Invocations, NEW queue \in Queues,
               Dispatch(o, inv, queue)
        PROVE  FencedAsDispatched'
    <3>1. \A x \in DOMAIN cancellations \cap DOMAIN tasks' :
             x \in DOMAIN tasks /\ tasks'[x].inv = tasks[x].inv
      BY <2>2 DEF Dispatch, Put, CustodyInv, TypeOK, IsTable, TaskType
    <3>2. cancellations' = cancellations
      BY <2>2 DEF Dispatch
    <3> QED
      BY <3>1, <3>2 DEF FencedAsDispatched
  <2>3. ASSUME NEW o \in Occurrences, NEW position \in Positions, NEW inv \in Invocations,
               Cancel(o, position, inv)
        PROVE  FencedAsDispatched'
    BY <2>3 DEF Cancel, Put, FencedAsDispatched
  <2>4. ASSUME NEW w \in Workers, Claim(w) \/ Wait(w)
        PROVE  FencedAsDispatched'
    BY <2>1, <2>4, WorkerKeepsInvocations DEF Claim, Wait
  <2>5. ASSUME NEW a \in attempts,
               \/ Heartbeat(a)
               \/ \E result \in Results : Complete(a, result)
               \/ \E failure \in Failures : Fail(a, failure)
        PROVE  FencedAsDispatched'
    BY <2>1, <2>5, AttemptKeepsInvocations, Zenon DEF Heartbeat, Complete, Fail
  <2>6. CASE Collect \/ EngineRestart \/ Tick \/ UNCHANGED vars
    BY <2>6 DEF Collect, EngineRestart, Tick, vars, FencedAsDispatched
  <2> QED
    BY <2>2, <2>3, <2>4, <2>5, <2>6 DEF Next
<1> QED
  BY <1>1, <1>2, CustodyHolds, PTL DEF Spec

\* The local Dispatch implements the contract the Engine relies on.
THEOREM LocalImplementsDispatch == Spec => ImplementsDispatch
<1>1. Init => Promise!Init
  BY DEF Init, Promise!Init
<1>2. CustodyInv /\ FencedAsDispatched /\ [Next]_vars => [Promise!Next]_(Promise!dispatchVars)
  BY StepImplements
<1> QED
  BY <1>1, <1>2, CustodyHolds, FencesMatch, PTL DEF Spec, ImplementsDispatch, Promise!Spec
=============================================================================
