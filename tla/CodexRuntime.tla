---------------------------- MODULE CodexRuntime ----------------------------
(***************************************************************************)
(* One Codex runtime operation (petrus/agenticus/runtime/codex.py:         *)
(* _CodexOperation, CodexRuntimeAdapter._execute and its helper).          *)
(*                                                                         *)
(* The operation's thread borrows a refreshable credential, carries it     *)
(* and the prior rollout into a territory as private files, runs the       *)
(* client there, collects what it left, cleans the territory and only      *)
(* then claims publication and settles the connection.  Host threads       *)
(* cancel and close at any time; every call may fail, and "lost" calls     *)
(* fail after they took effect.                                            *)
(***************************************************************************)
EXTENDS Integers, FiniteSets

CONSTANT Faults  \* the failures that may happen

VARIABLES
    pc,                                                  \* of the operation's thread
    cancelled, publishing, result, disposition, cleanup, \* the _CodexOperation
    closer,     \* step of close, and what it saw
    files,      \* private files in the territory
    home,       \* the client's home: "untouched", "dirty" or "scrubbed"
    custody,    \* of the connection: "none", "held", "released", "published"
    loc,        \* locals of _execute
    published,  \* what left the operation
    expired     \* the attachment's deadline has passed

op == <<cancelled, publishing, result, disposition, cleanup>>
territory == <<files, home>>
vars == <<pc, op, closer, territory, custody, loc, published, expired>>

Init ==
    /\ pc = "enter"
    /\ cancelled = FALSE /\ publishing = FALSE
    /\ result = "none" /\ disposition = "unverified" /\ cleanup = "none"
    /\ closer = [at |-> "out", saw |-> "none"]
    /\ files = {} /\ home = "untouched" /\ custody = "none"
    /\ loc \in [prior : BOOLEAN, attempted : {FALSE}, materialized : {FALSE}, refs : {{}},
                touched : {FALSE}, scrubbed : {FALSE}, privateClean : {TRUE}, settled : {FALSE},
                connectionClean : {FALSE}, outcome : {"failed"}, candidate : {"none"}]
    /\ published = {} /\ expired = FALSE

May(fault) == fault \in Faults
At(from) == pc = from
Goto(to) == pc' = to
Raise == pc' = "finally-scrub"
Quiet == UNCHANGED <<op, closer, expired>>

\* command_is_current: what a command in the territory is fenced by.
CommandIsCurrent == ~cancelled /\ ~expired

--------------------------------------------------------------------------
(* Into the territory                                                      *)

\* binding._operation holds the attachment open for the whole operation; an
\* attachment that is already settled ends it before anything exists.
Enter ==
    /\ At("enter")
    /\ \/ Goto("begin") /\ UNCHANGED <<result, disposition>>
       \/ /\ May("binding")
          /\ result' = IF cancelled THEN "cancelled" ELSE "failed"
          /\ disposition' = "not-created"
          /\ Goto("exit")
    /\ UNCHANGED <<cancelled, publishing, cleanup, closer, territory, custody, loc, published, expired>>

Begin ==
    /\ At("begin")
    /\ IF CommandIsCurrent
       THEN Goto("materialize") /\ loc' = [loc EXCEPT !.attempted = TRUE]
       ELSE Raise /\ UNCHANGED loc
    /\ Quiet /\ UNCHANGED <<territory, custody, published>>

Materialize ==
    /\ At("materialize")
    /\ \/ May("materialize") /\ Raise /\ UNCHANGED <<custody, loc>>
       \/ /\ custody' = "held"
          /\ loc' = [loc EXCEPT !.materialized = TRUE]
          /\ (~cancelled /\ Goto("activate")) \/ ((cancelled \/ May("mismatch")) /\ Raise)
    /\ Quiet /\ UNCHANGED <<territory, published>>

Activate ==
    /\ At("activate")
    /\ (~cancelled /\ Goto("import-auth")) \/ ((cancelled \/ May("activate")) /\ Raise)
    /\ Quiet /\ UNCHANGED <<territory, custody, loc, published>>

\* transfer.import_private_file: a request to the territory whose answer may
\* be lost.  The operation remembers a file only when the call returned.
Import(file, next) ==
    \/ /\ Goto(next)
       /\ files' = files \cup {file}
       /\ loc' = [loc EXCEPT !.refs = @ \cup {file}, !.privateClean = FALSE]
    \/ May("import") /\ Raise /\ UNCHANGED <<files, loc>>
    \/ May("import-lost") /\ Raise /\ files' = files \cup {file} /\ UNCHANGED loc

ImportAuth ==
    /\ At("import-auth")
    /\ Import("auth", "import-rollout")
    /\ Quiet /\ UNCHANGED <<home, custody, published>>

ImportRollout ==
    /\ At("import-rollout")
    /\ Import("rollout", IF loc.prior THEN "stage" ELSE "exec")
    /\ Quiet /\ UNCHANGED <<home, custody, published>>

\* helper("stage"): the prior rollout is put where the client looks for it.
Stage ==
    /\ At("stage")
    /\ loc' = [loc EXCEPT !.touched = TRUE]
    /\ \/ CommandIsCurrent /\ Goto("exec") /\ home' = "dirty"
       \/ ~CommandIsCurrent /\ Raise /\ UNCHANGED home
       \/ May("stage") /\ Raise /\ home' \in {home, "dirty"}
    /\ Quiet /\ UNCHANGED <<files, custody, published>>

--------------------------------------------------------------------------
(* The client, and what it left                                            *)

\* _parse_jsonl: what an event stream with one thread, one turn and one
\* terminal that agrees with the exit status can say.
Candidates == {"completed", "failed"}

\* codex exec: a candidate, or a run that timed out, was superseded,
\* overflowed, was killed or made no sense.
Exec ==
    /\ At("exec")
    /\ \/ /\ CommandIsCurrent /\ Goto("collect") /\ home' = "dirty"
          /\ \E c \in Candidates : loc' = [loc EXCEPT !.touched = TRUE, !.candidate = c]
       \/ /\ ~CommandIsCurrent \/ May("exec")
          /\ Raise /\ loc' = [loc EXCEPT !.touched = TRUE]
          /\ home' \in {home, "dirty"}
    /\ Quiet /\ UNCHANGED <<files, custody, published>>

\* scrub in the helper: everything but auth.json leaves the client's home.
Scrub == home' = "scrubbed"

\* helper("collect"): the one rollout of the thread, and a scrubbed home.
Collect ==
    /\ At("collect")
    /\ \/ CommandIsCurrent /\ Goto("export") /\ Scrub /\ loc' = [loc EXCEPT !.scrubbed = TRUE]
       \/ ~CommandIsCurrent /\ Raise /\ UNCHANGED <<home, loc>>
       \/ May("collect") /\ Raise /\ home' \in {home, "scrubbed"} /\ UNCHANGED loc
    /\ Quiet /\ UNCHANGED <<files, custody, published>>

\* Both private files are exported and the borrowed home takes the new
\* credential; the last check before anything is stored.
Export ==
    /\ At("export")
    /\ (CommandIsCurrent /\ Goto("store")) \/ ((~CommandIsCurrent \/ May("export")) /\ Raise)
    /\ Quiet /\ UNCHANGED <<territory, custody, loc, published>>

\* The continuation, and the output of a completed turn.
Store ==
    /\ At("store")
    /\ LET turn == IF loc.candidate = "completed" THEN {"turn"} ELSE {}
       IN  \/ Goto("delete") /\ published' = published \cup {"continuation"} \cup turn
           \/ May("store") /\ Raise /\ published' \in {published, published \cup {"continuation"}}
    /\ Quiet /\ UNCHANGED <<territory, custody, loc>>

\* Both files, then the attachment's private space, each verified.
Delete ==
    /\ At("delete")
    /\ \/ Goto("claim") /\ files' = {} /\ loc' = [loc EXCEPT !.privateClean = TRUE]
       \/ May("delete") /\ Raise /\ files' \in SUBSET files /\ UNCHANGED loc
    /\ Quiet /\ UNCHANGED <<home, custody, published>>

--------------------------------------------------------------------------
(* Publication                                                             *)

\* _claim_publication: cancellation and deadline under the one lock.
Claim ==
    /\ At("claim")
    /\ IF cancelled \/ expired
       THEN Raise /\ UNCHANGED publishing
       ELSE Goto("admit") /\ publishing' = TRUE
    /\ UNCHANGED <<cancelled, result, disposition, cleanup, closer, territory, custody, loc, published, expired>>

AdmitResult ==
    /\ At("admit")
    /\ \/ Goto("checkpoint") /\ published' = published \cup {"admitted"}
       \/ May("admit") /\ Raise /\ UNCHANGED published
    /\ Quiet /\ UNCHANGED <<territory, custody, loc>>

\* custody.checkpoint publishes the new credential and ends the lease.
Checkpoint ==
    /\ At("checkpoint")
    /\ \/ /\ Goto("finally-scrub") /\ custody' = "published"
          /\ published' = published \cup {"connection"}
          /\ loc' = [loc EXCEPT !.settled = TRUE, !.connectionClean = TRUE, !.outcome = loc.candidate]
       \/ /\ May("checkpoint") /\ Raise
          /\ \/ UNCHANGED <<custody, loc, published>>
             \/ /\ custody' = "published" /\ published' = published \cup {"connection"}
                /\ loc' \in {loc} \cup {[loc EXCEPT !.settled = TRUE, !.connectionClean = clean] : clean \in BOOLEAN}
    /\ Quiet /\ UNCHANGED territory

--------------------------------------------------------------------------
(* The finally block and _run                                              *)

\* helper("scrub"), not fenced: only a home that was touched and not
\* collected needs it, and only a territory with both files can run it.
FinallyScrub ==
    /\ At("finally-scrub")
    /\ Goto("finally-files")
    /\ IF loc.privateClean \/ loc.scrubbed \/ ~loc.touched \/ loc.refs # {"auth", "rollout"}
       THEN UNCHANGED <<home, loc>>
       ELSE \/ Scrub /\ loc' = [loc EXCEPT !.scrubbed = TRUE]
            \/ May("scrub") /\ UNCHANGED <<home, loc>>
    /\ Quiet /\ UNCHANGED <<files, custody, published>>

FinallyFiles ==
    /\ At("finally-files")
    /\ Goto("release")
    /\ \/ loc.privateClean /\ UNCHANGED <<files, loc>>
       \/ /\ ~loc.privateClean /\ files' = {}
          /\ loc' = [loc EXCEPT !.privateClean = loc.scrubbed \/ ~loc.touched]
       \/ ~loc.privateClean /\ May("cleanup") /\ files' \in SUBSET files /\ UNCHANGED loc
    /\ Quiet /\ UNCHANGED <<home, custody, published>>

Release ==
    /\ At("release")
    /\ Goto("settle")
    /\ \/ (~loc.materialized \/ loc.settled) /\ UNCHANGED <<custody, loc>>
       \/ /\ loc.materialized /\ ~loc.settled
          /\ \/ custody' = (IF custody = "held" THEN "released" ELSE custody) /\ loc' = [loc EXCEPT !.connectionClean = TRUE]
             \/ May("release") /\ custody' \in {custody, "released"} /\ UNCHANGED loc
    /\ Quiet /\ UNCHANGED <<territory, published>>

\* "clean" needs both halves proved; "not-created" that nothing was tried.
Disposition ==
    IF loc.connectionClean /\ loc.privateClean THEN "clean"
    ELSE IF ~loc.attempted THEN "not-created" ELSE "unverified"

Settle ==
    /\ At("settle")
    /\ result' = IF cancelled THEN "cancelled" ELSE loc.outcome
    /\ disposition' = Disposition
    /\ Goto("exit")
    /\ UNCHANGED <<cancelled, publishing, cleanup, closer, territory, custody, loc, published, expired>>

Exit ==
    /\ At("exit")
    /\ Goto("done")
    /\ Quiet /\ UNCHANGED <<territory, custody, loc, published>>

--------------------------------------------------------------------------
(* The host                                                                *)

\* A cancel that only looks at publication.
CancelLate ==
    /\ ~publishing /\ ~cancelled
    /\ cancelled' = TRUE
    /\ UNCHANGED <<pc, publishing, result, disposition, cleanup, closer, territory, custody, loc, published, expired>>

Cancel ==
    /\ result = "none" /\ ~publishing /\ ~cancelled
    /\ cancelled' = TRUE
    /\ UNCHANGED <<pc, publishing, result, disposition, cleanup, closer, territory, custody, loc, published, expired>>

\* close: enter under the lock, join for the grace, store the evidence.
Close ==
    /\ \/ /\ closer.at = "out" /\ (result # "none" \/ cancelled)
          /\ closer' = [closer EXCEPT !.at = "join"]
          /\ UNCHANGED cleanup
       \/ /\ closer.at = "join"
          /\ closer' = [at |-> "store", saw |-> IF pc = "done" THEN disposition ELSE "unverified"]
          /\ UNCHANGED cleanup
       \/ /\ closer.at = "store"
          /\ cleanup' = closer.saw
          /\ closer' = [closer EXCEPT !.at = "returned"]
    /\ UNCHANGED <<pc, cancelled, publishing, result, disposition, territory, custody, loc, published, expired>>

Expire ==
    /\ ~expired
    /\ expired' = TRUE
    /\ UNCHANGED <<pc, op, closer, territory, custody, loc, published>>

Opening == Enter \/ Begin \/ Materialize \/ Activate \/ ImportAuth \/ ImportRollout \/ Stage
Running == Exec \/ Collect \/ Export \/ Store \/ Delete
Publication == Claim \/ AdmitResult \/ Checkpoint
Ending == FinallyScrub \/ FinallyFiles \/ Release \/ Settle \/ Exit

Next == Opening \/ Running \/ Publication \/ Ending \/ Cancel \/ Close \/ Expire

Spec == Init /\ [][Next]_vars

--------------------------------------------------------------------------
(* Properties                                                              *)

\* The operation implements the contract of runtime/operation.py.
Contract == INSTANCE RuntimeOperation WITH settlement <- result, evidence <- cleanup
ImplementsContract == Contract!Spec

\* A cancelled turn is never admitted and never publishes a credential, even
\* though its continuation may already be stored.
CancelledPublishesNothing == cancelled => ~publishing /\ published \cap {"admitted", "connection"} = {}

\* A turn is admitted only out of a territory that holds neither the
\* credential nor the transcript nor anything the client left.
PublishedFromCleanTerritory == publishing => files = {} /\ home # "dirty"

\* A completed turn has everything it refers to, and left nothing behind.
CompletedIsPublished ==
    result = "completed" =>
        published = {"continuation", "turn", "admitted", "connection"} /\ disposition = "clean"

\* "clean" is the truth about the territory and the lease; "not-created"
\* means that nothing was borrowed or imported.
CleanIsTrue ==
    /\ cleanup = "clean" => files = {} /\ home # "dirty" /\ custody \in {"released", "published"}
    /\ cleanup = "not-created" => files = {} /\ home = "untouched" /\ custody = "none"

\* What RuntimeOperation says of cancellation: cleanup that cannot prove
\* absence is not reported as verified.
CancelledCleanIsAbsent == cancelled /\ cleanup = "clean" => files = {}
=============================================================================
