---------------------------- MODULE MCStoreCare ----------------------------
(***************************************************************************)
(* One source.  Three questions, each explored with the other actors at    *)
(* rest: two overlapping harvests with a rebuild, a clock past the TTL and *)
(* damage; a backup (or two) and a restore while two harvests land; sweeps *)
(* of three objects by the timer and by hand.                              *)
(***************************************************************************)
EXTENDS StoreCare, FiniteSets, TLC

CONSTANTS b1, b2, b3, timer, hand, byTimer, byHand

MCRuns == 1..3
MCBodies == {b1, b2, b3}
MCRank == b1 :> 1 @@ b2 :> 2 @@ b3 :> 3
MCSize == b1 :> 1 @@ b2 :> 2 @@ b3 :> 1
MCScopeOf == timer :> "" @@ hand :> "source"
MCBudget == timer :> 1 @@ hand :> 2

AtRest(r) == pc[r] = "idle"
UnusedBody(b) == object[b] = "absent" /\ \A r \in Runs : fetching[r].body # b
NoSweeps == alarms = {} /\ kills = 0 /\ \A s \in Sweeps : at[s] = "idle"
NoBackups == quiet /\ fetch = "idle" /\ \A n \in Backups : step[n] = "idle" /\ reported[n] = "nothing"

\* Whatever two runs, a rebuild and the clock may do.
Harvests == NoSweeps /\ NoBackups /\ AtRest(3) /\ UnusedBody(b3)
            /\ Cardinality(damaged) <= 1
            /\ Cardinality({p \in Processes : pc[p] = "crashed"}) <= 1

\* Two runs whose fetches succeed.
Landing == /\ clock = 0 /\ AtRest(Rebuilder)
           /\ \A r \in Runs : pc[r] \notin {"closing", "crashed"}
           /\ \A r \in Runs, res \in Resources : buffer[r][res].status # "err"

\* How far a run is.
Stage(r) == CASE pc[r] = "idle" -> 0
              [] pc[r] = "open" -> IF \E res \in Resources : buffer[r][res] # Unrecorded
                                   THEN 4 ELSE 1
              [] pc[r] = "waiting" -> 2
              [] pc[r] = "storing" -> 3
              [] pc[r] = "indexing" -> 5
              [] pc[r] = "merging" -> 6
              [] OTHER -> 7

\* Run i fetches body i.
InTurn == \A r \in Runs, res \in Resources :
             /\ fetching[r].body \in {NoBody, <<b1, b2, b3>>[r]}
             /\ buffer[r][res].body \in {NoBody, <<b1, b2, b3>>[r]}

\* The timer's backup meets two landing runs and a damaged object; the one by
\* hand, a rehearsal or not, overlaps it when nothing else moves, and so does a
\* restore.
Mirrors == /\ Landing /\ NoSweeps /\ AtRest(3) /\ UnusedBody(b3)
           /\ damaged \subseteq {b1}
           /\ Stage(2) > 0 => Stage(1) >= 5
           /\ InTurn
           /\ raised[byTimer] => damaged = {} /\ Stage(2) = 0
           /\ Stage(1) < 5 /\ Stage(1) > 0 => step[byTimer] \notin {"idle", "reporting"}
           /\ ~dry[byTimer]
           /\ dumped[byTimer] = (step[byTimer] # "idle")
           /\ step[byHand] # "idle" \/ fetch # "idle" =>
                 /\ \A r \in {1, 2} : pc[r] = "closed"
                 /\ damaged = {} \/ fetch # "idle"
           /\ fetch # "idle" => step[byHand] = "idle" /\ step[byTimer] \in {"idle", "shipping", "reporting"}
           /\ step[byHand] # "idle" => ~raised[byTimer]

\* Three runs in lockstep, then sweeps.
Sweepings == /\ Landing /\ NoBackups
             /\ \A r \in 1..2 : Stage(r) >= Stage(r + 1) /\ Stage(r) <= Stage(r + 1) + 2
             /\ InTurn
             /\ (\E s \in Sweeps : at[s] # "idle") => pc[3] = "closed"
             /\ kills + Cardinality(damaged) <= 2
             /\ at[hand] # "idle" => kills + Cardinality(damaged) <= 1
             /\ kills > 0 => at[timer] = "idle" \/ at[hand] = "idle"

MCFocus == Harvests \/ Mirrors \/ Sweepings
MCSpec == CareInit /\ [][CareNext /\ MCFocus']_careVars /\ Fairness
=============================================================================
