--------------------------- MODULE RuntimeOperation ---------------------------
(***************************************************************************)
(* What agenticus/runtime/operation.py promises of one started runtime     *)
(* operation, whichever provider runs it.  An operation settles at most    *)
(* once, cancellation is requested at most once and only before the        *)
(* settlement, closing is legal only after one of the two, and the cleanup *)
(* evidence, once given, is never replaced.  An operation that has not     *)
(* settled is never reported clean: its evidence is "unverified", or       *)
(* "not-created" when nothing was ever started.                            *)
(*                                                                         *)
(* PiRuntime, ClaudeRuntime, CodexRuntime and AmpRuntime are shown to      *)
(* implement this specification.                                           *)
(***************************************************************************)
VARIABLES settlement, cancelled, evidence

opVars == <<settlement, cancelled, evidence>>

Outcomes == {"completed", "failed", "cancelled"}

Dispositions == {"clean", "not-created", "unverified"}

Init ==
  /\ settlement = "none"
  /\ cancelled = FALSE
  /\ evidence = "none"

Settle ==
  /\ settlement = "none"
  /\ settlement' \in Outcomes
  /\ UNCHANGED <<cancelled, evidence>>

Cancel ==
  /\ settlement = "none"
  /\ ~cancelled
  /\ cancelled' = TRUE
  /\ UNCHANGED <<settlement, evidence>>

Close ==
  /\ evidence = "none"
  /\ settlement # "none" \/ cancelled
  /\ evidence' \in Dispositions \ (IF settlement = "none" THEN {"clean"} ELSE {})
  /\ UNCHANGED <<settlement, cancelled>>

Next == Settle \/ Cancel \/ Close

Spec == Init /\ [][Next]_opVars
=============================================================================
