------------------------------ MODULE Hosting ------------------------------
(***************************************************************************)
(* One canonical writer per Instance: the fences the provider doors hold   *)
(* around an Engine, and the resource fate of the Engine that owns them.   *)
(* SQLite hosts lock a file: the lock belongs to an open file description, *)
(* which a fork shares.  PostgreSQL hosts hold an advisory lock that lives *)
(* and dies with the connection's session.                                 *)
(***************************************************************************)
EXTENDS Integers, FiniteSets

CONSTANTS
    Processes,
    Forks,      \* the host may fork (SQLite); otherwise connections may be lost
    MaxWrites,  \* bound on the writes of one behaviour
    MaxOpens    \* bound on the fences ever opened

VARIABLES
    phase,    \* of each process's Engine: none, fenced, open, lost, inherited
    fd,       \* the lock handle each process holds, or NoHandle
    locked,   \* the handle that holds the lock, or NoHandle
    opens,    \* handles opened so far
    seen,     \* records each Engine has loaded or written
    durable   \* records in the store

\* The handles that are opened are numbered from 1.
NoHandle == 0

hostVars == <<phase, fd, locked, opens, seen, durable>>

HostInit ==
    /\ phase = [p \in Processes |-> "none"]
    /\ fd = [p \in Processes |-> NoHandle]
    /\ locked = NoHandle /\ opens = 0
    /\ seen = [p \in Processes |-> 0]
    /\ durable = 0

\* _WriterFence and PostgresAuthorityFence: a held lock refuses the door.
Acquire(p) ==
    /\ phase[p] = "none" /\ opens < MaxOpens
    /\ locked = NoHandle
    /\ opens' = opens + 1
    /\ fd' = [fd EXCEPT ![p] = opens'] /\ locked' = opens'
    /\ phase' = [phase EXCEPT ![p] = "fenced"]
    /\ UNCHANGED <<seen, durable>>

\* History is loaded under the fence and the Engine takes both over.
Load(p) ==
    /\ phase[p] = "fenced"
    /\ phase' = [phase EXCEPT ![p] = "open"]
    /\ seen' = [seen EXCEPT ![p] = durable]
    /\ UNCHANGED <<fd, locked, opens, durable>>

\* The fence is closed by its owner: unlock, then close the handle.
Release(p) ==
    /\ phase' = [phase EXCEPT ![p] = "none"]
    /\ fd' = [fd EXCEPT ![p] = NoHandle]
    /\ locked' = IF fd[p] = locked THEN NoHandle ELSE locked

\* The construction fails after the fence was taken.
LoadFails(p) ==
    /\ phase[p] = "fenced"
    /\ Release(p)
    /\ UNCHANGED <<opens, seen, durable>>

\* A writing door, committed.
Door(p) ==
    /\ phase[p] = "open" /\ durable < MaxWrites
    /\ durable' = durable + 1
    /\ seen' = [seen EXCEPT ![p] = @ + 1]
    /\ UNCHANGED <<phase, fd, locked, opens>>

\* A writing door that raises rolls back, poisons the Engine and releases its
\* resources; on a lost connection every door does.
Poison(p) ==
    /\ phase[p] \in {"open", "lost"}
    /\ Release(p)
    /\ UNCHANGED <<opens, seen, durable>>

\* Engine.close.
Close(p) ==
    /\ phase[p] = "open"
    /\ Release(p)
    /\ UNCHANGED <<opens, seen, durable>>

\* _after_fork_child: the child drops its duplicate without unlocking.
ForkedHandle(p) == NoHandle

\* Mutant of AfterFork: the child unlocks while it closes its duplicate.
AfterForkUnlocks == locked' = NoHandle

AfterFork == locked' = locked

\* The host forks; the child's inherited Engine refuses every operation but
\* close (ensure compares process ids).
Fork(p, q) ==
    /\ Forks /\ phase[p] = "open" /\ phase[q] = "none" /\ fd[q] = NoHandle
    /\ phase' = [phase EXCEPT ![q] = "inherited"]
    /\ fd' = [fd EXCEPT ![q] = ForkedHandle(p)]
    /\ AfterFork
    /\ UNCHANGED <<opens, seen, durable>>

\* Engine.close in the child finds no descriptor.
CloseInherited(q) ==
    /\ phase[q] = "inherited"
    /\ phase' = [phase EXCEPT ![q] = "none"]
    /\ UNCHANGED <<fd, locked, opens, seen, durable>>

\* The process dies: its handles close, and the last handle frees the lock.
HostDies(p) ==
    /\ phase[p] # "none" \/ fd[p] # NoHandle
    /\ phase' = [phase EXCEPT ![p] = "none"]
    /\ fd' = [fd EXCEPT ![p] = NoHandle]
    /\ locked' = IF fd[p] = locked /\ \A q \in Processes \ {p} : fd[q] # locked THEN NoHandle ELSE locked
    /\ UNCHANGED <<opens, seen, durable>>

\* The server drops the session, and its advisory lock with it.
Disconnect(p) ==
    /\ ~Forks /\ phase[p] = "open"
    /\ phase' = [phase EXCEPT ![p] = "lost"]
    /\ fd' = [fd EXCEPT ![p] = NoHandle]
    /\ locked' = NoHandle
    /\ UNCHANGED <<opens, seen, durable>>

HostNext ==
    \E p \in Processes :
        \/ Acquire(p) \/ Load(p) \/ LoadFails(p) \/ Door(p) \/ Poison(p) \/ Close(p)
        \/ CloseInherited(p) \/ HostDies(p) \/ Disconnect(p)
        \/ \E q \in Processes : Fork(p, q)

HostSpec == HostInit /\ [][HostNext]_hostVars

-----------------------------------------------------------------------------
(* Properties. *)

\* Every live Engine that can write has seen every record: no second writer
\* slipped in behind its load, across closes, deaths, forks and lost sessions.
NoStaleWriter == \A p \in Processes : phase[p] = "open" => seen[p] = durable

\* The fence is free unless some Engine that may write owns it: a child of a
\* host that died never keeps the Instance from being opened again.
NoOrphanFence == locked # NoHandle => \E p \in Processes : phase[p] \in {"fenced", "open"} /\ fd[p] = locked

\* One process at a time owns a durable Instance.
OneWriter == NoStaleWriter /\ NoOrphanFence
=============================================================================
