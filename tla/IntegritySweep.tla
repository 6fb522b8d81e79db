--------------------------- MODULE IntegritySweep ---------------------------
(***************************************************************************)
(* The raw integrity sweep: it re-hashes the objects the manifests name,   *)
(* in key order, a slice of at most a byte budget at a time, and keeps a   *)
(* cursor per scope so that the next run goes on where it stopped.         *)
(*                                                                         *)
(* The timer's sweep and ones by hand share the file of cursors.  Each     *)
(* reads it without the lock when it starts and rewrites its own scope's   *)
(* entry, under the lock, when it ends; the findings are reported after    *)
(* that.  A sweep may be killed between any two steps, and objects may be  *)
(* damaged or stored under it.                                             *)
(***************************************************************************)
EXTENDS RawStore

CONSTANTS
    Sweeps,       \* processes: the timer's, ones by hand
    Timer,        \* the weekly unit's
    Scopes,       \* "" and the --source scopes; each has its own cursor
    ScopeOf,      \* sweep -> its scope
    Budget,       \* sweep -> --byte-budget; 0 is unbounded
    Rank,         \* body -> its place in key order, from 1
    Size,         \* body -> its bytes
    MaxKills,     \* bound: sweeps killed
    Patience      \* timer runs within which damage must be reported

ASSUME KeysAreRanked == Rank \in [Bodies -> Nat \ {0}]
ASSUME KeysAreDistinct == \A b, c \in Bodies : Rank[b] = Rank[c] => b = c
ASSUME SweepsHaveScopes == /\ ScopeOf \in [Sweeps -> Scopes]
                           /\ Timer \in Sweeps /\ Nobody \notin Sweeps
ASSUME BytesAreNat == Budget \in [Sweeps -> Nat] /\ Size \in [Bodies -> Nat]
ASSUME BoundsAreNat == MaxKills \in Nat /\ Patience \in Nat

VARIABLES
    cursors,      \* the state file: scope -> rank of the last key; 0 is none
    sweepLock,    \* holder of its lock
    at,           \* sweep -> where it stands
    after,        \* sweep -> the cursor it loaded
    pending,      \* sweep -> keys its pass has still to visit
    spent,        \* sweep -> bytes verified in this pass
    last,         \* sweep -> rank of the last key it visited
    verified,     \* sweep -> this pass read an object
    exhausted,    \* sweep -> this pass ran out of budget
    found,        \* sweep -> missing and mismatched objects, both passes
    copy,         \* sweep -> the state file as read under the lock
    kills,
    waited,       \* body -> timer runs that ended with it wrong and unreported
    alarms        \* objects some sweep has reported (history variable)

sweepVars == <<cursors, sweepLock, at, after, pending, spent, last, verified,
               exhausted, found, copy, kills, waited, alarms>>
passVars == <<pending, spent, last, verified, exhausted>>

SweepInit ==
    /\ cursors = [c \in Scopes |-> 0]
    /\ sweepLock = Nobody
    /\ at = [s \in Sweeps |-> "idle"]
    /\ after = [s \in Sweeps |-> 0]
    /\ pending = [s \in Sweeps |-> {}]
    /\ spent = [s \in Sweeps |-> 0]
    /\ last = [s \in Sweeps |-> 0]
    /\ verified = [s \in Sweeps |-> FALSE]
    /\ exhausted = [s \in Sweeps |-> FALSE]
    /\ found = [s \in Sweeps |-> {}]
    /\ copy = [s \in Sweeps |-> [c \in Scopes |-> 0]]
    /\ kills = 0
    /\ waited = [b \in Bodies |-> 0]
    /\ alarms = {}

-----------------------------------------------------------------------------
(* verify_store: one pass.                                                  *)

AtStep(s, where) == at' = [at EXCEPT ![s] = where]

\* What the manifests on disk say was stored.
Expected == {manifest[r][res].body : r \in Manifests, res \in Resources} \ {NoBody}

BeginPass(s, cursor) ==
    /\ pending' = [pending EXCEPT ![s] = {b \in Expected : Rank[b] > cursor}]
    /\ spent' = [spent EXCEPT ![s] = 0]
    /\ last' = [last EXCEPT ![s] = 0]
    /\ verified' = [verified EXCEPT ![s] = FALSE]
    /\ exhausted' = [exhausted EXCEPT ![s] = FALSE]

\* An unbounded run has no use for a cursor.
StartSweep(s) ==
    LET cursor == IF Budget[s] = 0 THEN 0 ELSE cursors[ScopeOf[s]]
    IN /\ at[s] = "idle"
       /\ AtStep(s, "verifying")
       /\ after' = [after EXCEPT ![s] = cursor]
       /\ BeginPass(s, cursor)
       /\ UNCHANGED <<vars, cursors, sweepLock, found, copy, kills, waited, alarms>>

Next1(s) == CHOOSE b \in pending[s] : \A c \in pending[s] : Rank[b] <= Rank[c]
OutOfBudget(s) == Budget[s] # 0 /\ spent[s] >= Budget[s]

\* The next key: missing, mismatched or clean. A missing object costs nothing.
VerifyObject(s) ==
    LET b == Next1(s)
    IN /\ at[s] = "verifying"
       /\ pending[s] # {}
       /\ ~OutOfBudget(s)
       /\ pending' = [pending EXCEPT ![s] = @ \ {b}]
       /\ last' = [last EXCEPT ![s] = Rank[b]]
       /\ found' = [found EXCEPT ![s] = IF object[b] = "intact" THEN @ ELSE @ \cup {b}]
       /\ spent' = [spent EXCEPT ![s] = IF object[b] = "absent" THEN @ ELSE @ + Size[b]]
       /\ verified' = [verified EXCEPT ![s] = @ \/ object[b] # "absent"]
       /\ UNCHANGED <<vars, cursors, sweepLock, at, after, exhausted, copy, kills, waited, alarms>>

\* Keys are left and the budget is spent.
ExhaustBudget(s) ==
    /\ at[s] = "verifying"
    /\ pending[s] # {}
    /\ OutOfBudget(s)
    /\ exhausted' = [exhausted EXCEPT ![s] = TRUE]
    /\ pending' = [pending EXCEPT ![s] = {}]
    /\ AtStep(s, "passed")
    /\ UNCHANGED <<vars, cursors, sweepLock, after, spent, last, verified,
                   found, copy, kills, waited, alarms>>

EndPass(s) ==
    /\ at[s] = "verifying"
    /\ pending[s] = {}
    /\ AtStep(s, "passed")
    /\ UNCHANGED <<vars, cursors, sweepLock, after, passVars, found, copy,
                   kills, waited, alarms>>

-----------------------------------------------------------------------------
(* _sweep_job.                                                              *)

\* Mutant: what the tail pass found is replaced by the second pass's findings.
Replaced(s) == [found EXCEPT ![s] = {}]
\* The findings of both passes are merged.
Merged(s) == found

\* The cursor stood at the tail: a second pass, from the first key.
AtTheTail(s) == after[s] # 0 /\ ~verified[s] /\ ~exhausted[s]

Wrap(s) ==
    /\ at[s] = "passed"
    /\ AtTheTail(s)
    /\ AtStep(s, "verifying")
    /\ after' = [after EXCEPT ![s] = 0]
    /\ BeginPass(s, 0)
    /\ found' = Merged(s)
    /\ UNCHANGED <<vars, cursors, sweepLock, copy, kills, waited, alarms>>

\* Mutant: the state file is rewritten without its lock.
Unlocked == TRUE
LockFree == sweepLock = Nobody

\* _store_cursor: the file is read again under the lock...
BeginStore(s) ==
    /\ at[s] = "passed"
    /\ ~AtTheTail(s)
    /\ LockFree
    /\ sweepLock' = s
    /\ copy' = [copy EXCEPT ![s] = cursors]
    /\ AtStep(s, "storing")
    /\ UNCHANGED <<vars, cursors, after, passVars, found, kills, waited, alarms>>

\* A pass that reached the end starts a new cycle.
NextCursor(s) == IF exhausted[s] THEN last[s] ELSE 0

\* ...and replaced, with this scope's cursor in it.
FinishStore(s) ==
    /\ at[s] = "storing"
    /\ cursors' = [copy[s] EXCEPT ![ScopeOf[s]] = NextCursor(s)]
    /\ sweepLock' = Nobody
    /\ AtStep(s, "reporting")
    /\ UNCHANGED <<vars, after, passVars, found, copy, kills, waited, alarms>>

\* --dry-run, by hand, persists no cursor.
SkipStore(s) ==
    /\ s # Timer
    /\ at[s] = "passed"
    /\ ~AtTheTail(s)
    /\ AtStep(s, "reporting")
    /\ UNCHANGED <<vars, cursors, sweepLock, after, passVars, found, copy, kills, waited, alarms>>

Finished(s) ==
    /\ AtStep(s, "idle")
    /\ after' = [after EXCEPT ![s] = 0]
    /\ pending' = [pending EXCEPT ![s] = {}]
    /\ spent' = [spent EXCEPT ![s] = 0]
    /\ last' = [last EXCEPT ![s] = 0]
    /\ verified' = [verified EXCEPT ![s] = FALSE]
    /\ exhausted' = [exhausted EXCEPT ![s] = FALSE]
    /\ found' = [found EXCEPT ![s] = {}]
    /\ copy' = [copy EXCEPT ![s] = [c \in Scopes |-> 0]]

Unheard(heard) == {b \in Expected : object[b] # "intact" /\ b \notin heard}
Count(b) == IF b \notin Unheard(alarms \cup found[Timer]) THEN 0
            ELSE IF waited[b] > Patience THEN waited[b] ELSE waited[b] + 1

\* Anything missing or mismatched fails the run and is named.
Report(s) ==
    /\ at[s] = "reporting"
    /\ alarms' = alarms \cup found[s]
    /\ waited' = IF s = Timer THEN [b \in Bodies |-> Count(b)] ELSE waited
    /\ Finished(s)
    /\ UNCHANGED <<vars, cursors, sweepLock, kills>>

\* Killed: the lock goes with the process. What it found is lost, and after the
\* cursor moved past it, for a cycle: the count starts again.
SweepDies(s) ==
    /\ at[s] # "idle"
    /\ kills < MaxKills
    /\ kills' = kills + 1
    /\ sweepLock' = IF sweepLock = s THEN Nobody ELSE sweepLock
    /\ Finished(s)
    /\ waited' = IF s = Timer THEN [b \in Bodies |-> 0] ELSE waited
    /\ UNCHANGED <<vars, cursors, alarms>>

Sweeping(s) ==
    \/ StartSweep(s) \/ VerifyObject(s) \/ ExhaustBudget(s) \/ EndPass(s)
    \/ Wrap(s) \/ BeginStore(s) \/ FinishStore(s) \/ SkipStore(s) \/ Report(s)

SweepStep == \E s \in Sweeps : Sweeping(s) \/ SweepDies(s)

-----------------------------------------------------------------------------
(* Properties.                                                              *)

\* An object a manifest names and that is missing or damaged is reported before
\* more timer runs have ended, one after the other, than a cycle has slices,
\* whatever the budget, where the cursor stands and what runs by hand do
\* (raw_integrity.py:123).
DamageReported == \A b \in Bodies : waited[b] <= Patience
=============================================================================
