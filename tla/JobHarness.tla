----------------------------- MODULE JobHarness -----------------------------
(***************************************************************************)
(* run_job: what every operational job runs inside.  A ledger row is       *)
(* opened in a session of its own, the handler runs, its transaction is    *)
(* committed or rolled back, the row is closed and the outcome becomes the *)
(* exit code.  Both ledger writes are best effort.  A job writes through   *)
(* the harness's session or, as the harvests and the publisher do, into    *)
(* files, which no rollback undoes.                                        *)
(***************************************************************************)
EXTENDS Integers

VARIABLE job     \* the run in progress, or NoJob

Outcomes == {"ok", "degraded", "failed"}

Steps == {"idle", "opening", "handling", "ending", "closing", "exited"}

(* What a run has done of its work; "pending" waits in its transaction.    *)
Works == {"nothing", "pending", "landed"}

Rows == {"none", "open"} \cup Outcomes

(* The jobs that run inside it, of those that are followed.                *)
Slugs == {"none", "harvest", "warnings", "registrar", "publish", "load", "seed",
          "probe", "adjudicate"}

NoJob == [step |-> "idle", slug |-> "none", dry |-> FALSE, files |-> FALSE,
          recorded |-> FALSE, row |-> "none", result |-> "failed",
          work |-> "nothing", code |-> 0]

ConfigError == 2

(* Mutant of ExitCode: a run that completed exits 0, whatever it landed. *)
ExitIfRaised(outcome) == IF outcome = "failed" THEN 1 ELSE 0

ExitCode(outcome) ==
    CASE outcome = "ok"       -> 0
      [] outcome = "degraded" -> 4
      [] OTHER                -> 1

(* run_job: the arguments and the DSN are checked before anything is       *)
(* recorded.                                                               *)
BeginRun(slug, files, dry, ledger) ==
    /\ job.step = "idle"
    /\ LET run == [NoJob EXCEPT !.slug = slug, !.files = files, !.dry = dry,
                                !.recorded = ledger]
       IN \/ job' = [run EXCEPT !.step = "opening"]
          \/ job' = [run EXCEPT !.step = "exited", !.code = ConfigError]

(* _open_ledger_row: without a row the run goes on unrecorded.             *)
OpenRow ==
    /\ job.step = "opening"
    /\ \E row \in {"none"} \cup (IF job.recorded THEN {"open"} ELSE {}) :
          job' = [job EXCEPT !.step = "handling", !.row = row]

(* The handler's work, if it did any: in the session, or on disk.          *)
Done(did) == IF ~did THEN "nothing" ELSE IF job.files THEN "landed" ELSE "pending"

HandlerReturns(outcome, did) ==
    /\ job.step = "handling"
    /\ job' = [job EXCEPT !.step = "ending", !.result = outcome, !.work = Done(did)]

(* An exception of the handler, or of the session it never got: what went  *)
(* through the session is rolled back.                                     *)
HandlerRaises(did) ==
    /\ job.step = "handling"
    /\ job' = [job EXCEPT !.step = "closing", !.result = "failed",
                          !.work = IF did /\ job.files THEN "landed" ELSE "nothing"]

(* SystemExit is no Exception: it passes both handlers, and the row stays open. *)
HandlerExits ==
    /\ job.step = "handling"
    /\ job' = [job EXCEPT !.step = "exited", !.code = 1]

Settled(work) == IF job.work = "pending" THEN work ELSE job.work

RollBack ==
    /\ job.step = "ending" /\ (job.dry \/ job.result = "failed")
    /\ job' = [job EXCEPT !.step = "closing", !.work = Settled("nothing")]

CommitWork ==
    /\ job.step = "ending" /\ ~job.dry /\ job.result # "failed"
    /\ job' = [job EXCEPT !.step = "closing", !.work = Settled("landed")]

(* Mutant of CommitFails: the outcome is the handler's all the same. *)
CommitUnchecked ==
    /\ job.step = "ending" /\ ~job.dry /\ job.result # "failed"
    /\ \E work \in {"nothing", "landed"} :
          job' = [job EXCEPT !.step = "closing", !.work = Settled(work)]

(* The commit raises; the server may have committed all the same.          *)
CommitFails ==
    /\ job.step = "ending" /\ ~job.dry /\ job.result # "failed"
    /\ \E work \in {"nothing", "landed"} :
          job' = [job EXCEPT !.step = "closing", !.result = "failed", !.work = Settled(work)]

(* _close_ledger_row, with its one-shot insert when no row was opened; and *)
(* the outcome's exit code.                                                *)
CloseRow ==
    /\ job.step = "closing"
    /\ \E written \in BOOLEAN :
          job' = [job EXCEPT !.step = "exited", !.code = ExitCode(job.result),
                             !.row = IF job.recorded /\ written THEN job.result ELSE @]

Reap == job.step = "exited" /\ job' = NoJob

-----------------------------------------------------------------------------
JobType == job \in [step : Steps, slug : Slugs, dry : BOOLEAN, files : BOOLEAN,
                    recorded : BOOLEAN, row : Rows, result : Outcomes,
                    work : Works, code : {0, 1, ConfigError, 4}]
=============================================================================
