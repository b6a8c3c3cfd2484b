--------------------------- MODULE LocalTerritory ---------------------------
(***************************************************************************)
(* The local-process execution territory provider                          *)
(* (petrus/motus/_execution/providers.py, LocalProcessEnvironment) under   *)
(* the contract of petrus/motus/execution.                                 *)
(*                                                                         *)
(* Every method but execute runs whole under the provider's lock and is    *)
(* one action.  execute checks under the lock, asks is_current without it, *)
(* checks again and launches under the lock, collects the process without  *)
(* it, and forgets the process under the lock: the steps of a command.     *)
(*                                                                         *)
(* Lease ids, attachment ids and private file ids are fresh numbers.  What *)
(* the file system may refuse is the constant Faults.                      *)
(***************************************************************************)
EXTENDS Integers, FiniteSets

CONSTANTS
    Commands,        \* threads, each running one execute
    Specs,           \* environment specs the host asks for; "image" is not supported
    MaxLeases, MaxAttachments,
    MaxFiles,        \* private files imported in all
    FilesPerAttachment, \* MAX_PRIVATE_FILES_PER_ATTACHMENT
    Faults           \* subset of {"rmtree", "discard", "unlink", "import", "kill"}

VARIABLES
    lease,       \* lease of the one operation id, 0 for none (_leases)
    spec,        \* its fingerprint (_specs)
    territory,   \* [leases -> "none", "tracked" (_territories, on disk) or "gone"]
    current,     \* [leases -> current attachment, 0 for none] (_attachments)
    attLease,    \* [attachments -> lease it was made for, 0 if not yet made]
    file,        \* [files -> record and what is on disk] (_private_files)
    junk,        \* attachments with an unrecorded leftover of a failed import on disk
    cleaned,     \* attachments of _private_cleaned
    process,     \* [leases -> command registered as active, or "none"] (_processes)
    command,     \* [Commands -> execute in progress]
    verified,    \* leases whose destroy was reported verified
    privateClean \* attachments whose last private cleanup was reported verified

vars == <<lease, spec, territory, current, attLease, file, junk, cleaned, process,
          command, verified, privateClean>>

Leases == 1 .. MaxLeases
Attachments == 1 .. MaxAttachments
Files == 1 .. MaxFiles

NoFile == [att |-> 0, present |-> FALSE, absent |-> FALSE, disk |-> "none"]
NoCommand == [pc |-> "idle", att |-> 0, lease |-> 0, roots |-> {}]

Init ==
    /\ lease = 0 /\ spec = "none"
    /\ territory = [l \in Leases |-> "none"]
    /\ current = [l \in Leases |-> 0]
    /\ attLease = [a \in Attachments |-> 0]
    /\ file = [f \in Files |-> NoFile]
    /\ junk = {} /\ cleaned = {}
    /\ process = [l \in Leases |-> "none"]
    /\ command = [c \in Commands |-> NoCommand]
    /\ verified = {} /\ privateClean = {}

Fresh(S, used(_)) == {n \in S : ~used(n) /\ \A m \in S : m < n => used(m)}

Running(c) == command[c].pc = "running"
Busy(l) == process[l] # "none"

-----------------------------------------------------------------------------
(* Leases                                                                  *)

\* create: lookup first; the same operation with another spec is refused.
Create(s) ==
    /\ s # "image" /\ lease = 0
    /\ \E l \in Fresh(Leases, LAMBDA n : territory[n] # "none") :
          /\ lease' = l /\ spec' = s
          /\ territory' = [territory EXCEPT ![l] = "tracked"]
    /\ UNCHANGED <<current, attLease, file, junk, cleaned, process, command, verified, privateClean>>

\* cancel: SIGTERM to the registered process of the exact lease.
Cancel ==
    /\ lease # 0 /\ Busy(lease) /\ Running(process[lease])
    /\ command' = [command EXCEPT ![process[lease]].pc = "exited"]
    /\ UNCHANGED <<lease, spec, territory, current, attLease, file, junk, cleaned, process,
                   verified, privateClean>>

\* What destroy tells a caller holding lease l, when it is not the current one.
StaleDisposition(l) == IF lease = 0 /\ territory[l] = "gone" THEN "not-created" ELSE "unverified"

\* A mutant: the territory is forgotten without stopping its command.
StoppedByDestroy(l) == {}

\* The commands whose process destroy signals and waits for.
Stopped(l) == IF Busy(l) THEN {process[l]} \cap {c \in Commands : Running(c)} ELSE {}

Destroy(l) ==
    /\ territory[l] # "none"
    /\ \/ /\ l # lease
          /\ verified' = IF StaleDisposition(l) = "unverified" THEN verified ELSE verified \cup {l}
          /\ UNCHANGED <<lease, spec, territory, current, attLease, file, junk, cleaned, process,
                         command, privateClean>>
       \/ /\ l = lease /\ "kill" \in Faults /\ Stopped(l) # {}
          /\ UNCHANGED vars
       \/ /\ l = lease
          /\ command' = [c \in Commands |-> IF c \in Stopped(l) THEN [command[c] EXCEPT !.pc = "exited"]
                                            ELSE command[c]]
          /\ process' = [process EXCEPT ![l] = "none"]
          /\ \/ /\ "rmtree" \in Faults
                /\ \E lost \in SUBSET {f \in Files : file[f].disk = "file"} :
                      file' = [f \in Files |-> IF f \in lost THEN [file[f] EXCEPT !.disk = "gone"] ELSE file[f]]
                /\ UNCHANGED <<lease, spec, territory, current, attLease, junk, cleaned,
                               verified, privateClean>>
             \/ /\ territory' = [territory EXCEPT ![l] = "gone"]
                /\ current' = [current EXCEPT ![l] = 0]
                /\ file' = [f \in Files |-> IF file[f].att # 0 /\ attLease[file[f].att] = l
                                            THEN [NoFile EXCEPT !.att = file[f].att, !.disk = "gone"]
                                            ELSE file[f]]
                /\ junk' = {a \in junk : attLease[a] # l}
                /\ cleaned' = {a \in cleaned : attLease[a] # l}
                /\ lease' = 0 /\ spec' = "none"
                /\ verified' = verified \cup {l}
                /\ UNCHANGED <<attLease, privateClean>>

-----------------------------------------------------------------------------
(* Private files                                                           *)

FilesOf(a) == {f \in Files : file[f].att = a}

\* _private_attachment_locked.
PrivateCurrent(a) == attLease[a] # 0 /\ attLease[a] = lease /\ current[lease] = a /\ ~Busy(lease)

\* _create_private_file_locked fails and leaves something behind.
CreationLeavesJunk == {"import", "discard"} \subseteq Faults

\* _read_private_file_locked finds the recorded, unchanged file.
Readable(f) == file[f].present /\ file[f].disk = "file"

\* import_private_file.  A failed creation discards what it made; when that
\* fails too, something stays on disk that no record names.
ImportPrivateFile(a) ==
    /\ PrivateCurrent(a)
    /\ Cardinality({f \in FilesOf(a) : file[f].present}) < FilesPerAttachment
    /\ \E f \in Fresh(Files, LAMBDA n : file[n].att # 0) :
          \/ /\ file' = [file EXCEPT ![f] = [att |-> a, present |-> TRUE, absent |-> FALSE, disk |-> "file"]]
             /\ cleaned' = cleaned \ {a}
             /\ privateClean' = privateClean \ {a}
             /\ UNCHANGED junk
          \/ /\ CreationLeavesJunk
             /\ junk' = junk \cup {a}
             /\ privateClean' = privateClean \ {a}
             /\ UNCHANGED <<file, cleaned>>
    /\ UNCHANGED <<lease, spec, territory, current, attLease, process, command, verified>>

\* _delete_record_locked: what the record and the disk become.
Deletions(r) ==
    IF ~r.present THEN {r}
    ELSE IF r.disk = "gone" THEN {[r EXCEPT !.present = FALSE, !.absent = FALSE]}
    ELSE {[r EXCEPT !.present = FALSE, !.absent = TRUE, !.disk = "gone"]}
         \cup (IF "unlink" \in Faults THEN {[r EXCEPT !.present = FALSE, !.absent = FALSE, !.disk = "gone"]} ELSE {})
         \cup (IF {"unlink", "discard"} \subseteq Faults THEN {r} ELSE {})

Verified(r) == ~r.present /\ r.absent

DeletePrivateFile(f) ==
    /\ file[f].att # 0 /\ PrivateCurrent(file[f].att)
    /\ \E r \in Deletions(file[f]) : file' = [file EXCEPT ![f] = r]
    /\ UNCHANGED <<lease, spec, territory, current, attLease, junk, cleaned, process, command,
                   verified, privateClean>>

\* _remove_private_parent_locked finds entries once the records g are deleted.
ParentKept(a, g) == a \in junk \/ \E f \in FilesOf(a) : g[f].disk = "file"

\* _cleanup_private_files_locked: deletes every record, then the parent
\* directory; a parent that still has entries is discarded and not verified.
\* ok is what the caller is told.
Cleanup(a, ok) ==
    IF a \in cleaned THEN ok /\ UNCHANGED <<file, junk, cleaned>>
    ELSE \E g \in [FilesOf(a) -> UNION {Deletions(file[f]) : f \in FilesOf(a)}] :
            /\ \A f \in FilesOf(a) : g[f] \in Deletions(file[f])
            /\ LET left == ParentKept(a, g)
                   sound == \A f \in FilesOf(a) : Verified(g[f])
               IN
               /\ ok = (sound /\ ~left)
               /\ \/ /\ left /\ "discard" \in Faults
                     /\ file' = [f \in Files |-> IF f \in FilesOf(a) THEN g[f] ELSE file[f]]
                     /\ UNCHANGED junk
                  \/ /\ file' = [f \in Files |-> IF f \in FilesOf(a) THEN [g[f] EXCEPT !.disk = "gone"] ELSE file[f]]
                     /\ junk' = junk \ {a}
               /\ cleaned' = IF ok THEN cleaned \cup {a} ELSE cleaned

CleanupPrivateFiles(a) ==
    /\ PrivateCurrent(a)
    /\ \E ok \in BOOLEAN :
          /\ Cleanup(a, ok)
          /\ privateClean' = IF ok THEN privateClean \cup {a} ELSE privateClean \ {a}
    /\ UNCHANGED <<lease, spec, territory, current, attLease, process, command, verified>>

-----------------------------------------------------------------------------
(* Attach and execute                                                      *)

\* attach: an idle territory, whose prior attachment's private files must be
\* verifiably gone, gets a fresh workspace.
Attach ==
    LET prior == current[lease] IN
    /\ lease # 0 /\ ~Busy(lease)
    /\ \E a \in Fresh(Attachments, LAMBDA n : attLease[n] # 0), ok \in BOOLEAN :
          /\ IF prior = 0 THEN ok /\ UNCHANGED <<file, junk, cleaned>> ELSE Cleanup(prior, ok)
          /\ privateClean' = IF prior # 0 /\ ok THEN privateClean \cup {prior} ELSE privateClean \ {prior}
          /\ IF ok THEN /\ current' = [current EXCEPT ![lease] = a]
                        /\ attLease' = [attLease EXCEPT ![a] = lease]
                   ELSE UNCHANGED <<current, attLease>>
    /\ UNCHANGED <<lease, spec, territory, process, command, verified>>

\* _validate_execution_locked.
Executable(l) == l # 0 /\ l = lease /\ ~Busy(l)

\* The first check of execute, before the caller's currency is asked.
Execute(c, a, roots) ==
    /\ command[c].pc = "idle" /\ Executable(attLease[a])
    /\ command' = [command EXCEPT ![c] = [pc |-> "checked", att |-> a, lease |-> attLease[a], roots |-> roots]]
    /\ UNCHANGED <<lease, spec, territory, current, attLease, file, junk, cleaned, process,
                   verified, privateClean>>

\* is_current is false, or the second check or a private root is refused, or
\* the process does not start.
Refuse(c) ==
    /\ command[c].pc = "checked"
    /\ command' = [command EXCEPT ![c] = NoCommand]
    /\ UNCHANGED <<lease, spec, territory, current, attLease, file, junk, cleaned, process,
                   verified, privateClean>>

\* _private_bindings_locked.
Bound(k) == k.roots # {} => PrivateCurrent(k.att) /\ \A f \in k.roots : Readable(f)

\* The second check, the private bindings and the launch are one critical section.
Launch(c) ==
    LET k == command[c] IN
    /\ k.pc = "checked" /\ Executable(k.lease)
    /\ Bound(k)
    /\ process' = [process EXCEPT ![k.lease] = c]
    /\ command' = [command EXCEPT ![c].pc = "running"]
    /\ UNCHANGED <<lease, spec, territory, current, attLease, file, junk, cleaned, verified, privateClean>>

\* _collect: the process exits, or is stopped on timeout, supersession or overflow.
Exit(c) ==
    /\ Running(c)
    /\ command' = [command EXCEPT ![c].pc = "exited"]
    /\ UNCHANGED <<lease, spec, territory, current, attLease, file, junk, cleaned, process,
                   verified, privateClean>>

\* The finally of execute forgets whatever process is registered for the lease.
Forget(c) ==
    /\ command[c].pc = "exited"
    /\ process' = [process EXCEPT ![command[c].lease] = "none"]
    /\ command' = [command EXCEPT ![c] = NoCommand]
    /\ UNCHANGED <<lease, spec, territory, current, attLease, file, junk, cleaned, verified, privateClean>>

-----------------------------------------------------------------------------

Next ==
    \/ \E s \in Specs : Create(s)
    \/ Cancel
    \/ \E l \in Leases : Destroy(l)
    \/ \E a \in Attachments : ImportPrivateFile(a) \/ CleanupPrivateFiles(a)
    \/ \E f \in Files : DeletePrivateFile(f)
    \/ Attach
    \/ \E c \in Commands :
          \/ \E a \in Attachments : attLease[a] # 0 /\ \E roots \in {{}, FilesOf(a)} : Execute(c, a, roots)
          \/ Refuse(c) \/ Launch(c) \/ Exit(c) \/ Forget(c)

Spec == Init /\ [][Next]_vars

-----------------------------------------------------------------------------
(* Properties                                                              *)

\* A territory has at most one active command.
OneActiveCommand ==
    \A c, d \in Commands : Running(c) /\ Running(d) /\ command[c].lease = command[d].lease => c = d

\* While a command runs with private roots, their files stay on disk and its
\* attachment stays the current one: no import, delete, cleanup or attach gets
\* in between the launch and the end of the command.
RootsOutliveCommand ==
    \A c \in Commands : Running(c) /\ command[c].roots # {} =>
        /\ current[command[c].lease] = command[c].att
        /\ \A f \in command[c].roots : file[f].present /\ file[f].disk = "file"

\* A verified destroy means that nothing of the territory is left: no lease, no
\* directory, no private file and no command running in it, then and ever after.
VerifiedIsGone ==
    \A l \in verified :
        /\ territory[l] = "gone" /\ lease # l
        /\ \A c \in Commands : ~(Running(c) /\ command[c].lease = l)
        /\ \A f \in Files : file[f].att # 0 /\ attLease[file[f].att] = l => file[f].disk # "file"

\* A verified private cleanup means that no private file of the attachment is
\* left on disk, until one is imported again.
CleanupIsFailClosed ==
    \A a \in privateClean : a \notin junk /\ \A f \in FilesOf(a) : file[f].disk # "file"

=============================================================================
