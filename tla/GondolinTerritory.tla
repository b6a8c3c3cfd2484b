------------------------- MODULE GondolinTerritory -------------------------
(***************************************************************************)
(* The Gondolin microVM provider                                           *)
(* (petrus/motus/_execution/gondolin.py, GondolinEnvironment).             *)
(*                                                                         *)
(* Host processes share a state root.  The directory of one operation id   *)
(* holds a lock file, the registry of its lease and the workspace; create  *)
(* and destroy hold an flock on the lock file, which destroy deletes with  *)
(* the directory, so a waiter may win a lock file that is no longer there. *)
(* Removal of the directory is one step per entry, in any order, and does  *)
(* not stop another process from entering in between.                      *)
(*                                                                         *)
(* A sidecar process per lease owns the VM; it is modelled from the        *)
(* requests the provider sends it.  Hosts may die at every step.           *)
(***************************************************************************)
EXTENDS Integers, FiniteSets

CONSTANTS
    Destroyers,  \* the hosts that call destroy
    Hosts,       \* host threads or processes over one state root
    MaxLeases,   \* sidecars started
    MaxLocks,    \* lock files ever created
    MaxCrashes,  \* hosts that die
    MaxFaults    \* steps that fail by themselves

VARIABLES
    dir,       \* the operation's directory: exists, lock inode, registered lease, workspace
    holder,    \* [lock inodes -> host holding its flock, or "none"]
    locks,     \* lock files created so far
    sidecar,   \* [leases -> state of its process group and VM]
    host,      \* [Hosts -> method in progress]
    granted,   \* leases some create returned
    verified,  \* leases some destroy reported verified
    crashes, faults

vars == <<dir, holder, locks, sidecar, host, granted, verified, crashes, faults>>

Leases == 1 .. MaxLeases
Inodes == 1 .. MaxLocks

NoDir == [exists |-> FALSE, lock |-> 0, registry |-> 0, workspace |-> FALSE]
NoSidecar == [group |-> "none", ready |-> FALSE, active |-> "none", attachment |-> FALSE]
NoHost == [op |-> "none", pc |-> "idle", inode |-> 0, lease |-> 0, todo |-> {}, ok |-> FALSE]

Init ==
    /\ dir = NoDir
    /\ holder = [i \in Inodes |-> "none"]
    /\ locks = 0
    /\ sidecar = [l \in Leases |-> NoSidecar]
    /\ host = [h \in Hosts |-> NoHost]
    /\ granted = {} /\ verified = {}
    /\ crashes = 0 /\ faults = 0

At(h, pc) == host[h].pc = pc
Goto(h, pc) == host' = [host EXCEPT ![h].pc = pc]
Alive(l) == sidecar[l].group = "alive"
Fault == faults < MaxFaults /\ faults' = faults + 1

\* The method of host h ends: its descriptor of the lock file is closed.
Return(h) ==
    /\ host' = [host EXCEPT ![h] = NoHost]
    /\ holder' = [i \in Inodes |-> IF holder[i] = h THEN "none" ELSE holder[i]]

-----------------------------------------------------------------------------
(* _locked                                                                 *)

\* create or destroy is called; destroy by the holder of a lease.
Call(h, op, l) ==
    /\ At(h, "idle")
    /\ op = "destroy" => h \in Destroyers /\ l \in granted
    /\ op = "create" => l = 0
    /\ host' = [host EXCEPT ![h] = [NoHost EXCEPT !.op = op, !.pc = "mkdir", !.lease = l]]
    /\ UNCHANGED <<dir, holder, locks, sidecar, granted, verified, crashes, faults>>

LockMkdir(h) ==
    /\ At(h, "mkdir")
    /\ dir' = [dir EXCEPT !.exists = TRUE]
    /\ Goto(h, "open")
    /\ UNCHANGED <<holder, locks, sidecar, granted, verified, crashes, faults>>

\* The lock file is opened, created if need be; the directory may be gone again.
LockOpen(h) ==
    /\ At(h, "open")
    /\ \/ ~dir.exists /\ Return(h) /\ UNCHANGED <<dir, locks>>
       \/ /\ dir.exists /\ dir.lock # 0
          /\ host' = [host EXCEPT ![h].pc = "flock", ![h].inode = dir.lock]
          /\ UNCHANGED <<dir, locks, holder>>
       \/ /\ dir.exists /\ dir.lock = 0 /\ locks < MaxLocks
          /\ locks' = locks + 1
          /\ dir' = [dir EXCEPT !.lock = locks + 1]
          /\ host' = [host EXCEPT ![h].pc = "flock", ![h].inode = locks + 1]
          /\ UNCHANGED holder
    /\ UNCHANGED <<sidecar, granted, verified, crashes, faults>>

LockFlock(h) ==
    /\ At(h, "flock") /\ holder[host[h].inode] = "none"
    /\ holder' = [holder EXCEPT ![host[h].inode] = h]
    /\ Goto(h, "compare")
    /\ UNCHANGED <<dir, locks, sidecar, granted, verified, crashes, faults>>

\* The locked file must still be the one in the directory; otherwise start over.
LockCompare(h) ==
    /\ At(h, "compare")
    /\ \/ /\ dir.lock = host[h].inode
          /\ Goto(h, "enter")
          /\ UNCHANGED holder
       \/ /\ dir.lock # host[h].inode
          /\ holder' = [holder EXCEPT ![host[h].inode] = "none"]
          /\ host' = [host EXCEPT ![h].pc = "mkdir", ![h].inode = 0]
    /\ UNCHANGED <<dir, locks, sidecar, granted, verified, crashes, faults>>

-----------------------------------------------------------------------------
(* Removal                                                                 *)

\* shutil.rmtree of the directory: what it lists, each entry, then the directory.
Entries == {e \in {"lock", "registry", "workspace"} :
               CASE e = "lock" -> dir.lock # 0
                 [] e = "registry" -> dir.registry # 0
                 [] OTHER -> dir.workspace}

BeginRemoval(h, ok) == host' = [host EXCEPT ![h].pc = "remove", ![h].todo = Entries, ![h].ok = ok]

RemoveEntry(h, e) ==
    /\ At(h, "remove") /\ e \in host[h].todo
    /\ dir' = CASE e = "lock" -> [dir EXCEPT !.lock = 0]
                [] e = "registry" -> [dir EXCEPT !.registry = 0]
                [] OTHER -> [dir EXCEPT !.workspace = FALSE]
    /\ host' = [host EXCEPT ![h].todo = @ \ {e}]
    /\ UNCHANGED <<holder, locks, sidecar, granted, verified, crashes, faults>>

\* rmdir fails when another process has put something there.  ok: the caller is
\* a destroy, which reports success as verified.
RemoveDirectory(h) ==
    /\ At(h, "remove") /\ host[h].todo = {}
    /\ dir' = IF Entries = {} THEN NoDir ELSE dir
    /\ verified' = IF Entries = {} /\ host[h].ok THEN verified \cup {host[h].lease} ELSE verified
    /\ Return(h)
    /\ UNCHANGED <<locks, sidecar, granted, crashes, faults>>

-----------------------------------------------------------------------------
(* create                                                                  *)

\* A registered lease is returned if its sidecar answers; an unregistered
\* workspace is refused; otherwise the workspace is made and the sidecar started.
CreateEnter(h) ==
    LET r == dir.registry IN
    /\ At(h, "enter") /\ host[h].op = "create"
    /\ \/ /\ r # 0
          /\ granted' = IF sidecar[r].ready THEN granted \cup {r} ELSE granted
          /\ Return(h)
          /\ UNCHANGED <<dir, sidecar>>
       \/ /\ r = 0 /\ (dir.workspace \/ ~dir.exists)
          /\ Return(h)
          /\ UNCHANGED <<dir, sidecar, granted>>
       \/ /\ r = 0 /\ dir.exists /\ ~dir.workspace
          /\ \E l \in Leases :
                /\ sidecar[l].group = "none" /\ \A m \in Leases : m < l => sidecar[m].group # "none"
                /\ sidecar' = [sidecar EXCEPT ![l].group = "alive"]
                /\ host' = [host EXCEPT ![h].pc = "register", ![h].lease = l]
          /\ dir' = [dir EXCEPT !.workspace = TRUE]
          /\ UNCHANGED <<holder, granted>>
    /\ UNCHANGED <<locks, verified, crashes, faults>>

\* _cleanup_group: the process group is gone, or its identity is uncertain.
GroupAfterCleanup(l) ==
    {[sidecar EXCEPT ![l] = [NoSidecar EXCEPT !.group = "dead"]]}
    \cup (IF faults < MaxFaults /\ Alive(l) THEN {sidecar} ELSE {})

\* The group is cleaned up and what was made is removed; when the group cannot be
\* shown to be gone, everything stays as it is.
Abandon(h) ==
    LET l == host[h].lease IN
    /\ sidecar' \in GroupAfterCleanup(l)
    /\ IF sidecar'[l].group = "alive"
       THEN Return(h) /\ faults' = faults + 1
       ELSE BeginRemoval(h, FALSE) /\ UNCHANGED <<holder, faults>>

\* The registry is written before the sidecar is waited for.
CreateRegister(h) ==
    /\ At(h, "register")
    /\ \/ /\ dir' = [dir EXCEPT !.registry = host[h].lease]
          /\ Goto(h, "await")
          /\ UNCHANGED <<holder, sidecar, faults>>
       \/ faults < MaxFaults /\ Abandon(h) /\ UNCHANGED dir
    /\ UNCHANGED <<locks, granted, verified, crashes>>

\* _await_start: the handshake answers, or startup fails.
CreateAwait(h) ==
    LET l == host[h].lease IN
    /\ At(h, "await")
    /\ \/ /\ Alive(l)
          /\ sidecar' = [sidecar EXCEPT ![l].ready = TRUE]
          /\ Goto(h, "identify")
          /\ UNCHANGED <<holder, faults>>
       \/ (~Alive(l) \/ faults < MaxFaults) /\ Abandon(h)
    /\ UNCHANGED <<dir, locks, granted, verified, crashes>>

\* The group's identities and the private-file probe are registered, or the
\* territory is rolled back.
CreateIdentify(h) ==
    LET l == host[h].lease IN
    /\ At(h, "identify")
    /\ \/ /\ Alive(l)
          /\ granted' = granted \cup {l}
          /\ Return(h)
          /\ UNCHANGED <<sidecar, faults>>
       \/ (~Alive(l) \/ faults < MaxFaults) /\ Abandon(h) /\ UNCHANGED granted
    /\ UNCHANGED <<dir, locks, verified, crashes>>

-----------------------------------------------------------------------------
(* destroy                                                                 *)

\* Nothing registered: the lock file and the directory are removed if empty.
\* A foreign lease is refused.  The registered one loses its process group first.
DestroyEnter(h) ==
    LET l == host[h].lease IN
    /\ At(h, "enter") /\ host[h].op = "destroy"
    /\ \/ /\ dir.registry = 0
          /\ dir' = [dir EXCEPT !.lock = 0]
          /\ host' = [host EXCEPT ![h].pc = "remove", ![h].ok = TRUE]
          /\ UNCHANGED <<holder, sidecar, faults>>
       \/ /\ dir.registry \notin {0, l}
          /\ Return(h)
          /\ UNCHANGED <<dir, sidecar, faults>>
       \/ /\ dir.registry = l
          /\ sidecar' \in GroupAfterCleanup(l)
          /\ IF sidecar'[l].group = "alive"
             THEN Return(h) /\ faults' = faults + 1
             ELSE BeginRemoval(h, TRUE) /\ UNCHANGED <<holder, faults>>
          /\ UNCHANGED dir
    /\ UNCHANGED <<locks, granted, verified, crashes>>

-----------------------------------------------------------------------------
(* The attached VM.  These methods take no lock: the registry is read and  *)
(* the sidecar decides.                                                    *)

\* _current.
Current(l) == dir.registry = l /\ l \in granted /\ sidecar[l].ready

Attach(l) ==
    /\ Current(l) /\ sidecar[l].active = "none"
    /\ sidecar' = [sidecar EXCEPT ![l].attachment = TRUE]
    /\ UNCHANGED <<dir, holder, locks, host, granted, verified, crashes, faults>>

\* execute: the sidecar refuses a second command.
Execute(h, l) ==
    /\ At(h, "idle") /\ Current(l) /\ sidecar[l].attachment /\ sidecar[l].active = "none"
    /\ sidecar' = [sidecar EXCEPT ![l].active = h]
    /\ host' = [host EXCEPT ![h] = [NoHost EXCEPT !.op = "execute", !.pc = "poll", !.lease = l]]
    /\ UNCHANGED <<dir, holder, locks, granted, verified, crashes, faults>>

\* The response arrives, or the sidecar is gone.
ExecuteEnd(h) ==
    LET l == host[h].lease IN
    /\ At(h, "poll")
    /\ sidecar' = IF sidecar[l].active = h THEN [sidecar EXCEPT ![l].active = "none"] ELSE sidecar
    /\ Return(h)
    /\ UNCHANGED <<dir, locks, granted, verified, crashes, faults>>

\* cancel closes the whole VM of the registered lease.
Cancel(l) ==
    /\ dir.registry = l /\ l \in granted /\ Alive(l)
    /\ sidecar' = [sidecar EXCEPT ![l] = [NoSidecar EXCEPT !.group = "dead"]]
    /\ UNCHANGED <<dir, holder, locks, host, granted, verified, crashes, faults>>

\* A sidecar ends by itself when its time to live is over.
SidecarDies(l) ==
    /\ Alive(l) /\ Fault
    /\ sidecar' = [sidecar EXCEPT ![l] = [NoSidecar EXCEPT !.group = "dead"]]
    /\ UNCHANGED <<dir, holder, locks, host, granted, verified, crashes>>

-----------------------------------------------------------------------------

\* A host dies: its flock goes, everything it made stays.
Crash(h) ==
    /\ crashes < MaxCrashes /\ ~At(h, "idle")
    /\ crashes' = crashes + 1
    /\ Return(h)
    /\ UNCHANGED <<dir, locks, sidecar, granted, verified, faults>>

Next ==
    \/ \E h \in Hosts :
          \/ \E op \in {"create", "destroy"}, l \in {0} \cup Leases : Call(h, op, l)
          \/ LockMkdir(h) \/ LockOpen(h) \/ LockFlock(h) \/ LockCompare(h)
          \/ \E e \in {"lock", "registry", "workspace"} : RemoveEntry(h, e)
          \/ RemoveDirectory(h)
          \/ CreateEnter(h) \/ CreateRegister(h) \/ CreateAwait(h) \/ CreateIdentify(h)
          \/ DestroyEnter(h)
          \/ \E l \in Leases : Execute(h, l)
          \/ ExecuteEnd(h)
          \/ Crash(h)
    \/ \E l \in Leases : Attach(l) \/ Cancel(l) \/ SidecarDies(l)

Spec == Init /\ [][Next]_vars

-----------------------------------------------------------------------------
(* Properties                                                              *)

\* At most one VM of the operation runs, whatever creates and destroys race and
\* wherever a host dies: a VM nobody registered still has its workspace, which
\* create refuses.
OneVM == Cardinality({l \in Leases : Alive(l)}) <= 1

\* A live VM whose lease was granted can be found by its operation id.
GrantedIsFindable == \A l \in granted : Alive(l) => dir.registry = l

\* A verified destroy is of a VM that is gone for good.
VerifiedIsGone == \A l \in verified : ~Alive(l) /\ dir.registry # l

=============================================================================
