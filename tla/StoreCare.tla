----------------------------- MODULE StoreCare -----------------------------
(***************************************************************************)
(* The raw store with everything that reads it besides the harvests and    *)
(* the staging models: the backups that mirror it and the sweeps that      *)
(* verify it.  All of them interleave over the same objects and manifests. *)
(***************************************************************************)
EXTENDS RawMirror, IntegritySweep

careVars == <<vars, mirrorVars, sweepVars>>

CareInit == Init /\ MirrorInit /\ SweepInit

CareNext ==
    \/ Next /\ UNCHANGED <<mirrorVars, sweepVars>>
    \/ MirrorStep /\ UNCHANGED sweepVars
    \/ SweepStep /\ UNCHANGED mirrorVars

CareSpec == CareInit /\ [][CareNext]_careVars /\ Fairness
=============================================================================
