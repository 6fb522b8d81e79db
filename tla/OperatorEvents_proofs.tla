----------------------- MODULE OperatorEvents_proofs -----------------------
(***************************************************************************)
(* Proofs about OperatorEvents, for any keys, facts and number of commands *)
(* under way at once: the archive never runs ahead of the rows, and no row *)
(* is both superseded and retracted.  And of commands that run one at a    *)
(* time, however many: the newest archived body names the row, a retraction*)
(* stands and a link stays.                                                *)
(***************************************************************************)
EXTENDS OperatorEvents, TLAPS

USE CommandsAreNumbered, KeysHaveKinds, NoKeyIsNew, NoRowIsNew, NoBodyIsNew

\* The row of a key exists, and is retracted if the body says so.
Carries(r, body) == r # NoRow /\ (body.retracted => r.retracted)

\* The row as it will stand once c commits.
Outcome(c, k) == IF Locks(c, k) THEN mine[c][k] ELSE row[k]

\* A row is locked by one command at most.
LocksExclusive ==
    \A c, d \in Commands : \A k \in Keys :
        Locks(c, k) /\ Locks(d, k) => c = d

\* A locked row was taken from the committed one: it keeps a retraction.
MineCurrent ==
    \A c \in Commands : \A k \in Keys : 
        (Locks(c, k) /\ row[k] # NoRow /\ row[k].retracted)
           => mine[c][k].retracted

MineConsistent ==
    \A c \in Commands : \A k \in Keys : Locks(c, k) =>
        mine[c][k].superseded = NoKey \/ ~mine[c][k].retracted

\* What a session has seen exists, and a retraction it has seen still stands.
SeenShape(c) ==
    /\ seen[c].prior # NoRow =>
          /\ cmd[c].prior \in Keys
          /\ row[cmd[c].prior] # NoRow
          /\ seen[c].prior.retracted => row[cmd[c].prior].retracted
    /\ pc[c] = "writing" /\ seen[c].key # NoRow => row[cmd[c].key] # NoRow

\* What the steps of each kind of command leave true, label by label.
CommandShape(c) ==
    /\ pc[c] \in {"idle", "loading"} \cup Ended =>
          pending[c] = NothingPending /\ seen[c] = NotSeen
    /\ pc[c] = "loading" => cmd[c].op # "record"
    /\ pc[c] = "checking" =>
          /\ cmd[c].op = "record" \/ seen[c].prior # NoRow
          /\ cmd[c].op # "retract"
    /\ pc[c] = "retracting" =>
          /\ cmd[c].op = "retract"
          /\ seen[c].prior # NoRow
    /\ pc[c] \in {"writing", "stamping"} =>
          /\ cmd[c].op # "retract"
          /\ ~pending[c].body.retracted
    /\ pc[c] = "stamping" => /\ cmd[c].op = "supersede"
                             /\ seen[c].prior # NoRow
                             /\ cmd[c].prior # cmd[c].key
    /\ pc[c] = "writing" => cmd[c].op = "record" \/ seen[c].prior # NoRow
    /\ pc[c] \in {"stamping", "committing"} =>
          Carries(Outcome(c, cmd[c].key), pending[c].body)
    /\ pc[c] \in {"committed", "closing"} =>
          Carries(row[cmd[c].key], pending[c].body)

IInv ==
    /\ TypeOK
    /\ LocksExclusive
    /\ MineCurrent
    /\ MineConsistent
    /\ \A c \in Commands : SeenShape(c) /\ CommandShape(c)
    /\ SupersededOrRetracted
    /\ ArchiveFollowsRows

-----------------------------------------------------------------------------
(* Types.                                                                   *)

LEMMA InitTypes == Init => TypeOK
  <1> SUFFICES ASSUME Init PROVE TypeOK
    OBVIOUS
  <1>1. NotSeen \in [prior : Rows \cup {NoRow}, key : Rows \cup {NoRow}]
    BY DEF NotSeen
  <1> QED
    BY <1>1 DEF Init, TypeOK, Active, Ended, InTransaction

LEMMA AskShape ==
    ASSUME NEW a \in Asks
    PROVE  /\ a # NoCmd
           /\ a.op \in {"record", "supersede", "retract"}
           /\ a.key \in Keys
           /\ a.op # "record" => a.prior \in Keys
           /\ a.op # "retract" => a.fact \in Facts
           /\ a.op = "retract" => a.prior = a.key
  BY DEF Asks, NoCmd

\* A command under way has been asked something.
LEMMA ActiveAsks ==
    ASSUME TypeOK, NEW c \in Commands, Active(c)
    PROVE  cmd[c] \in Asks
  BY DEF TypeOK

\* The type invariant, its two cross-conjuncts apart.
Typed ==
    /\ row \in [Keys -> Rows \cup {NoRow}]
    /\ pc \in [Commands -> InTransaction \cup Ended
                           \cup {"idle", "committed", "closing"}]
    /\ cmd \in [Commands -> Asks \cup {NoCmd}]
    /\ seen \in [Commands -> [prior : Rows \cup {NoRow},
                              key : Rows \cup {NoRow}]]
    /\ mine \in [Commands -> [Keys -> Rows \cup {NoRow}]]
    /\ pending \in [Commands -> {NothingPending} \cup [body : Bodies, at : Nat]]
    /\ clock \in Nat
    /\ latest \in [Keys -> {NeverArchived} \cup [body : Bodies, at : Nat]]
    /\ archived \subseteq [key : Keys, body : Bodies, at : Nat]
    /\ writer \in [Keys -> Commands \cup {NoCommand}]
    /\ overlapped \in BOOLEAN

Cross(c) ==
    /\ cmd[c] # NoCmd <=> Active(c)
    /\ pc[c] \in {"writing", "stamping", "committing", "committed", "closing"}
          => pending[c] # NothingPending

LEMMA TypeParts == TypeOK <=> Typed /\ \A c \in Commands : Cross(c)
  BY DEF TypeOK, Typed, Cross

\* What another command does leaves c's own conjuncts alone.
LEMMA CrossFrame ==
    ASSUME NEW c \in Commands, Cross(c), pc'[c] = pc[c], cmd'[c] = cmd[c],
           pending'[c] = pending[c]
    PROVE  Cross(c)'
  BY DEF Cross, Active

LEMMA TypeStep ==
    ASSUME TypeOK, NEW c \in Commands, SeenShape(c), CommandShape(c), Step(c)
    PROVE  TypeOK'
  <1>0. Typed /\ (\A d \in Commands : Cross(d))
    BY TypeParts
  <1>a. SUFFICES Typed' /\ (\A d \in Commands : Cross(d)')
    BY DEF TypeOK, Typed, Cross
  <1>b. ASSUME pc[c] \notin Ended \cup {"idle"} PROVE cmd[c] \in Asks
    BY <1>0, <1>b DEF Typed, Cross, Active
  <1>1. ASSUME NEW ask \in Asks, Begin(c, ask)
        PROVE  Typed' /\ (\A d \in Commands : Cross(d)')
    BY <1>1, AskShape, <1>0
       DEF Begin, Goto, database, archive, Typed, Cross, Active, Ended, InTransaction
  <1>2. ASSUME Load(c) PROVE Typed' /\ (\A d \in Commands : Cross(d)')
    <2> USE <1>2 DEF Load, Goto, database, archive
    <2>1. cmd[c] \in Asks
      BY <1>b DEF Ended
    <2>2. cmd[c].prior \in Keys
      BY <2>1, AskShape
    <2>3. row[cmd[c].prior] \in Rows
      BY <1>0, <2>2 DEF Typed
    <2>4. seen' \in [Commands -> [prior : Rows \cup {NoRow},
                                  key : Rows \cup {NoRow}]]
      BY <1>0, <2>3 DEF Typed
    <2>5. Typed'
      BY <1>0, <2>4 DEF Typed, InTransaction
    <2>6. Cross(c)'
      BY <1>0 DEF Typed, Cross, Active, Ended
    <2>7. ASSUME NEW d \in Commands, d # c PROVE Cross(d)'
      BY <1>0, <2>7, CrossFrame DEF Typed
    <2> QED
      BY <2>5, <2>6, <2>7
  <1>3. ASSUME Check(c) PROVE Typed' /\ (\A d \in Commands : Cross(d)')
    <2> USE <1>3 DEF Check, Goto, Buffer, database, archive
    <2>1. cmd[c] \in Asks /\ cmd[c].op # "retract"
      BY <1>b DEF Ended, CommandShape
    <2>2. cmd[c].key \in Keys /\ cmd[c].fact \in Facts
      BY <2>1, AskShape
    <2>3. /\ seen[c].prior \in Rows \cup {NoRow}
          /\ row[cmd[c].key] \in Rows \cup {NoRow}
      BY <1>0, <2>2 DEF Typed
    <2>4. seen' \in [Commands -> [prior : Rows \cup {NoRow},
                                  key : Rows \cup {NoRow}]]
      BY <1>0, <2>3 DEF Typed
    <2>5. pending'[c] \in [body : Bodies, at : Nat]
      BY <1>0, <2>2 DEF Typed, Bodies
    <2>6. pending'[c] # NothingPending
      BY <1>0 DEF Typed, NothingPending
    <2>7. Typed'
      BY <1>0, <2>4, <2>5 DEF Typed, InTransaction
    <2>8. Cross(c)'
      BY <1>0, <2>6 DEF Typed, Cross, Active, Ended
    <2>9. ASSUME NEW d \in Commands, d # c PROVE Cross(d)'
      BY <1>0, <2>9, CrossFrame DEF Typed
    <2> QED
      BY <2>7, <2>8, <2>9
  <1>4. ASSUME Insert(c) \/ Update(c) \/ UpdateNothing(c)
        PROVE  Typed' /\ (\A d \in Commands : Cross(d)')
    <2> USE DEF Goto, Write, AfterWrite, database, archive
    <2>1. pc[c] = "writing"
      BY <1>4 DEF Insert, Update, UpdateNothing
    <2>2. cmd[c] \in Asks /\ cmd[c].op # "retract"
      BY <1>b, <2>1 DEF Ended, CommandShape
    <2>3. cmd[c].key \in Keys /\ cmd[c].fact \in Facts
      BY <2>2, AskShape
    <2>4. mine' \in [Commands -> [Keys -> Rows \cup {NoRow}]]
      <3>1. CASE Insert(c)
        <4>1. [fact |-> cmd[c].fact, superseded |-> NoKey,
               retracted |-> FALSE] \in Rows
          BY <2>3 DEF Rows
        <4> QED
          BY <1>0, <2>3, <3>1, <4>1 DEF Insert, Typed
      <3>2. CASE Update(c)
        <4>1. row[cmd[c].key] \in Rows
          BY <1>0, <2>1, <2>3, <3>2 DEF Update, SeenShape, Typed
        <4>2. [row[cmd[c].key] EXCEPT !.fact = cmd[c].fact] \in Rows
          BY <2>3, <4>1 DEF Rows
        <4> QED
          BY <1>0, <2>3, <3>2, <4>2 DEF Update, Typed
      <3>3. CASE UpdateNothing(c)
        BY <1>0, <3>3 DEF UpdateNothing, Typed
      <3> QED
        BY <1>4, <3>1, <3>2, <3>3
    <2>5. /\ pc' = [pc EXCEPT ![c] = AfterWrite(c)]
          /\ UNCHANGED <<row, writer, cmd, seen, pending, clock, latest,
                         archived, overlapped>>
      BY <1>4 DEF Insert, Update, UpdateNothing
    <2>6. Typed'
      BY <1>0, <2>4, <2>5 DEF Typed, InTransaction
    <2>7. Cross(c)'
      BY <1>0, <2>1, <2>5 DEF Typed, Cross, Active, Ended
    <2>8. ASSUME NEW d \in Commands, d # c PROVE Cross(d)'
      BY <1>0, <2>5, <2>8, CrossFrame DEF Typed
    <2> QED
      BY <2>6, <2>7, <2>8
  <1>5. ASSUME Stamp(c) \/ StampRetraction(c)
        PROVE  Typed' /\ (\A d \in Commands : Cross(d)')
    <2> USE DEF Goto, Write, archive
    <2>1. pc[c] \in {"stamping", "retracting"}
      BY <1>5 DEF Stamp, StampRetraction
    <2>2. cmd[c] \in Asks /\ cmd[c].op # "record"
      <3>1. cmd[c] \in Asks
        BY <1>b, <2>1 DEF Ended
      <3>2. cmd[c].op # "record"
        BY <1>5 DEF Stamp, StampRetraction, CommandShape
      <3> QED
        BY <3>1, <3>2
    <2>3. cmd[c].key \in Keys /\ cmd[c].prior \in Keys
      BY <2>2, AskShape
    <2>4. row[cmd[c].prior] \in Rows
      BY <1>0, <2>1, <2>3 DEF SeenShape, CommandShape, Typed
    <2>5. Superseded(c) \in Rows /\ Retracted(c) \in Rows
      BY <2>3, <2>4 DEF Superseded, Retracted, Rows
    <2>6. mine' \in [Commands -> [Keys -> Rows \cup {NoRow}]]
      BY <1>0, <1>5, <2>3, <2>5 DEF Stamp, StampRetraction, Typed
    <2>7. /\ pc' = [pc EXCEPT ![c] = "committing"]
          /\ UNCHANGED <<row, writer, cmd, seen, pending, clock, latest,
                         archived, overlapped>>
      BY <1>5 DEF Stamp, StampRetraction
    <2>8. Typed'
      BY <1>0, <2>6, <2>7 DEF Typed, InTransaction
    <2>9. Cross(c)'
      BY <1>0, <1>5, <2>1, <2>7
         DEF Typed, Cross, Active, Ended, Stamp, StampRetraction
    <2>10. ASSUME NEW d \in Commands, d # c PROVE Cross(d)'
      BY <1>0, <2>7, <2>10, CrossFrame DEF Typed
    <2> QED
      BY <2>8, <2>9, <2>10
  <1>6. ASSUME Retract(c) PROVE Typed' /\ (\A d \in Commands : Cross(d)')
    <2> USE <1>6 DEF Retract, Buffer, database, archive
    <2>1. seen[c].prior \in Rows
      BY <1>0 DEF CommandShape, Typed
    <2>2. pending'[c] \in [body : Bodies, at : Nat]
      BY <1>0, <2>1 DEF Typed, Rows, Bodies
    <2>3. Typed'
      BY <1>0, <2>2 DEF Typed
    <2>4. Cross(c)'
      BY <1>0 DEF Cross, Active
    <2>5. ASSUME NEW d \in Commands, d # c PROVE Cross(d)'
      BY <1>0, <2>5, CrossFrame DEF Typed
    <2> QED
      BY <2>3, <2>4, <2>5
  <1>7. ASSUME Rollback(c) \/ LoseArchive(c)
        PROVE  Typed' /\ (\A d \in Commands : Cross(d)')
    <2>1. /\ mine' \in [Commands -> [Keys -> Rows \cup {NoRow}]]
          /\ \E l \in {"failed", "lost"} : Exit(c, l)
          /\ UNCHANGED <<row, writer, clock, latest, overlapped>>
      BY <1>0, <1>7 DEF Rollback, LoseArchive, Release, Typed, database, archive
    <2>2. archived' \subseteq [key : Keys, body : Bodies, at : Nat]
      <3>1. CASE archived' = archived
        BY <1>0, <3>1 DEF Typed
      <3>2. CASE pc[c] = "closing" /\ Archive(c)
        <4>1. cmd[c] \in Asks
          BY <1>b, <3>2 DEF Ended
        <4>2. cmd[c].key \in Keys
          BY <4>1, AskShape
        <4>3. pending[c] \in [body : Bodies, at : Nat]
          BY <1>0, <3>2 DEF Typed, Cross
        <4> QED
          BY <1>0, <3>2, <4>2, <4>3 DEF Typed, Archive
      <3> QED
        BY <1>7, <3>1, <3>2 DEF Rollback, LoseArchive, archive
    <2>3. NotSeen \in [prior : Rows \cup {NoRow}, key : Rows \cup {NoRow}]
      BY DEF NotSeen
    <2>4. Typed'
      BY <1>0, <2>1, <2>2, <2>3 DEF Typed, Exit, Goto, Ended
    <2>5. Cross(c)'
      BY <1>0, <2>1 DEF Typed, Cross, Exit, Goto, Active, Ended
    <2>6. ASSUME NEW d \in Commands, d # c PROVE Cross(d)'
      BY <1>0, <2>1, <2>6, CrossFrame DEF Typed, Exit, Goto
    <2> QED
      BY <2>4, <2>5, <2>6
  <1>8. ASSUME Commit(c) PROVE Typed' /\ (\A d \in Commands : Cross(d)')
    <2> USE <1>8 DEF Commit, Goto, Release, Locks, archive
    <2>1. cmd[c] \in Asks
      BY <1>b DEF Ended
    <2>2. cmd[c].key \in Keys
      BY <2>1, AskShape
    <2>3. NotSeen \in [prior : Rows \cup {NoRow}, key : Rows \cup {NoRow}]
      BY DEF NotSeen
    <2>4. row' \in [Keys -> Rows \cup {NoRow}]
      BY <1>0 DEF Typed
    <2>5. Typed'
      BY <1>0, <2>2, <2>3, <2>4 DEF Typed
    <2>6. Cross(c)'
      BY <1>0 DEF Typed, Cross, Active, Ended
    <2>7. ASSUME NEW d \in Commands, d # c PROVE Cross(d)'
      BY <1>0, <2>7, CrossFrame DEF Typed
    <2> QED
      BY <2>5, <2>6, <2>7
  <1>9. ASSUME Dedup(c) PROVE Typed' /\ (\A d \in Commands : Cross(d)')
    <2> USE <1>9 DEF Dedup, Exit, Goto, AfterCommit, database, archive
    <2>1. NotSeen \in [prior : Rows \cup {NoRow}, key : Rows \cup {NoRow}]
      BY DEF NotSeen
    <2>2. Typed'
      BY <1>0, <2>1 DEF Typed, Ended
    <2>3. Cross(c)'
      BY <1>0 DEF Typed, Cross, Active, Ended
    <2>4. ASSUME NEW d \in Commands, d # c PROVE Cross(d)'
      BY <1>0, <2>4, CrossFrame DEF Typed
    <2> QED
      BY <2>2, <2>3, <2>4
  <1>10. ASSUME CloseRun(c) PROVE Typed' /\ (\A d \in Commands : Cross(d)')
    <2> USE <1>10 DEF CloseRun, Exit, Goto, Archive, database
    <2>1. cmd[c] \in Asks
      BY <1>b DEF Ended
    <2>2. cmd[c].key \in Keys
      BY <2>1, AskShape
    <2>3. pending[c] \in [body : Bodies, at : Nat]
      BY <1>0 DEF Typed, Cross
    <2>4. NotSeen \in [prior : Rows \cup {NoRow}, key : Rows \cup {NoRow}]
      BY DEF NotSeen
    <2>5. archived' \subseteq [key : Keys, body : Bodies, at : Nat]
      BY <1>0, <2>2, <2>3 DEF Typed
    <2>6. latest' \in [Keys -> {NeverArchived} \cup [body : Bodies, at : Nat]]
      BY <1>0, <2>2, <2>3 DEF Typed
    <2>7. Typed'
      BY <1>0, <2>4, <2>5, <2>6 DEF Typed, Ended
    <2>8. Cross(c)'
      BY <1>0 DEF Typed, Cross, Active, Ended
    <2>9. ASSUME NEW d \in Commands, d # c PROVE Cross(d)'
      BY <1>0, <2>9, CrossFrame DEF Typed
    <2> QED
      BY <2>7, <2>8, <2>9
  <1> QED
    BY <1>1, <1>2, <1>3, <1>4, <1>5, <1>6, <1>7, <1>8, <1>9, <1>10, <1>a DEF Step

-----------------------------------------------------------------------------
(* The invariant.                                                           *)

\* A row stays, and stays retracted.
RowsKept ==
    \A k \in Keys : row[k] # NoRow =>
        /\ row'[k] # NoRow
        /\ row[k].retracted => row'[k].retracted

\* A commit drops no row and no retraction.
LEMMA CommitKeeps ==
    ASSUME TypeOK, MineCurrent, NEW c \in Commands, Step(c)
    PROVE  RowsKept
  <1>1. CASE Commit(c)
    BY <1>1 DEF Commit, RowsKept, MineCurrent, Locks
  <1>2. CASE ~Commit(c)
    <2>1. row' = row
      BY <1>2 DEF Step, Begin, Load, Check, Insert, Update, UpdateNothing,
                  Stamp, Retract, StampRetraction, Rollback, Dedup, CloseRun,
                  LoseArchive, database
    <2> QED
      BY <2>1 DEF RowsKept
  <1> QED
    BY <1>1, <1>2

\* Only c's own variables change in a step of c.
LEMMA OthersFrame ==
    ASSUME TypeOK, NEW c \in Commands, Step(c), NEW d \in Commands, d # c
    PROVE  /\ pc'[d] = pc[d]
           /\ cmd'[d] = cmd[d]
           /\ seen'[d] = seen[d]
           /\ pending'[d] = pending[d]
           /\ mine'[d] = mine[d]
  <1> USE DEF TypeOK, Goto, Exit, Buffer, Write, Release, database
  <1>1. ASSUME NEW ask \in Asks, Begin(c, ask)
        PROVE  /\ pc'[d] = pc[d] /\ cmd'[d] = cmd[d] /\ seen'[d] = seen[d]
               /\ pending'[d] = pending[d] /\ mine'[d] = mine[d]
    BY <1>1 DEF Begin
  <1>2. CASE Load(c) \/ Check(c) \/ Retract(c)
    BY <1>2 DEF Load, Check, Retract
  <1>3. CASE Insert(c) \/ Update(c) \/ UpdateNothing(c)
    BY <1>3 DEF Insert, Update, UpdateNothing
  <1>4. CASE Stamp(c) \/ StampRetraction(c)
    BY <1>4 DEF Stamp, StampRetraction
  <1>5. CASE Rollback(c) \/ Commit(c)
    BY <1>5 DEF Rollback, Commit
  <1>6. CASE Dedup(c) \/ CloseRun(c) \/ LoseArchive(c)
    BY <1>6 DEF Dedup, CloseRun, LoseArchive
  <1> QED
    BY <1>1, <1>2, <1>3, <1>4, <1>5, <1>6 DEF Step

\* A step of another command keeps c's shape.
LEMMA ShapeFrame ==
    ASSUME TypeOK, RowsKept,
           NEW d \in Commands, SeenShape(d), CommandShape(d),
           pc'[d] = pc[d], cmd'[d] = cmd[d], seen'[d] = seen[d],
           pending'[d] = pending[d], mine'[d] = mine[d]
    PROVE  SeenShape(d)' /\ CommandShape(d)'
  <1>1. Active(d) => cmd[d].key \in Keys
    BY ActiveAsks, AskShape
  <1>2. SeenShape(d)'
    BY <1>1 DEF SeenShape, RowsKept, Active, Ended
  <1>3. ASSUME Active(d) PROVE
            Carries(Outcome(d, cmd[d].key), pending[d].body)
              => Carries(Outcome(d, cmd[d].key)', pending[d].body)
    BY <1>1, <1>3 DEF Carries, Outcome, Locks, RowsKept
  <1>4. ASSUME Active(d) PROVE
            Carries(row[cmd[d].key], pending[d].body)
              => Carries(row'[cmd[d].key], pending[d].body)
    BY <1>1, <1>4 DEF Carries, RowsKept
  <1>5. CommandShape(d)'
    BY <1>3, <1>4 DEF CommandShape, Active, Ended, Carries, Outcome, Locks
  <1> QED
    BY <1>2, <1>5

\* c writes one row: it finds the row free, takes it as it stands, keeps its
\* retraction and leaves it consistent.
Writes(c, k, r) ==
    /\ k \in Keys
    /\ r \in Rows
    /\ Free(c, k)
    /\ Write(c, k, r)
    /\ row' = row
    /\ row[k] # NoRow /\ row[k].retracted => r.retracted
    /\ r.superseded = NoKey \/ ~r.retracted

LEMMA StepWrites ==
    ASSUME IInv, NEW c \in Commands, Step(c)
    PROVE  \/ mine' = mine /\ row' = row
           \/ \E k \in Keys, r \in Rows : Writes(c, k, r)
           \/ Rollback(c)
           \/ Commit(c)
  <1> DEFINE k == cmd[c].key  p == cmd[c].prior
  <1>0. /\ SeenShape(c) /\ CommandShape(c)
        /\ Active(c) => /\ cmd[c] \in Asks
                        /\ k \in Keys
                        /\ cmd[c].op # "retract" => cmd[c].fact \in Facts
    BY ActiveAsks, AskShape DEF IInv
  <1>1. CASE Insert(c)
    <2>1. k \in Keys /\ cmd[c].fact \in Facts
      BY <1>0, <1>1 DEF Insert, Active, Ended, CommandShape
    <2> DEFINE r == [fact |-> cmd[c].fact, superseded |-> NoKey,
                     retracted |-> FALSE]
    <2>2. r \in Rows
      BY <2>1 DEF Rows
    <2>3. Writes(c, k, r)
      BY <1>1, <2>1, <2>2 DEF Insert, Writes
    <2> QED
      BY <2>1, <2>2, <2>3
  <1>2. CASE Update(c)
    <2>1. k \in Keys /\ cmd[c].fact \in Facts /\ row[k] # NoRow
      BY <1>0, <1>2 DEF Update, Active, Ended, CommandShape, SeenShape
    <2>2. row[k] \in Rows
      BY <2>1 DEF IInv, TypeOK
    <2> DEFINE r == [row[k] EXCEPT !.fact = cmd[c].fact]
    <2>3. /\ r \in Rows
          /\ r.superseded = row[k].superseded
          /\ r.retracted = row[k].retracted
      BY <2>1, <2>2 DEF Rows
    <2>4. Writes(c, k, r)
      BY <1>2, <2>1, <2>3 DEF Update, Writes, IInv, SupersededOrRetracted
    <2> QED
      BY <2>1, <2>3, <2>4
  <1>3. CASE Stamp(c)
    <2>1. p \in Keys /\ k \in Keys /\ row[p] # NoRow
      BY <1>0, <1>3 DEF Stamp, Active, Ended, CommandShape, SeenShape
    <2>2. row[p] \in Rows
      BY <2>1 DEF IInv, TypeOK
    <2>3. Superseded(c) \in Rows /\ Superseded(c).retracted = row[p].retracted
      BY <2>1, <2>2 DEF Superseded, Rows
    <2>4. Writes(c, p, Superseded(c))
      BY <1>3, <2>1, <2>3 DEF Stamp, Writes, CheckConstraint
    <2> QED
      BY <2>1, <2>3, <2>4
  <1>4. CASE StampRetraction(c)
    <2>1. p \in Keys /\ p = k /\ row[p] # NoRow
      BY <1>0, <1>4, AskShape
         DEF StampRetraction, Active, Ended, CommandShape, SeenShape
    <2>2. row[p] \in Rows
      BY <2>1 DEF IInv, TypeOK
    <2>3. Retracted(c) \in Rows /\ Retracted(c).retracted
      BY <2>2 DEF Retracted, Rows
    <2>4. CASE mine' = mine
      BY <1>4, <2>4 DEF StampRetraction
    <2>5. CASE mine' # mine
      <3>1. Writes(c, k, Retracted(c))
        BY <1>4, <2>1, <2>3, <2>5 DEF StampRetraction, Writes, CheckConstraint
      <3> QED
        BY <2>1, <2>3, <3>1
    <2> QED
      BY <2>4, <2>5
  <1>5. CASE Load(c) \/ Check(c) \/ UpdateNothing(c) \/ Retract(c)
    BY <1>5 DEF Load, Check, UpdateNothing, Retract, database
  <1>6. CASE Dedup(c) \/ CloseRun(c) \/ LoseArchive(c)
    BY <1>6 DEF Dedup, CloseRun, LoseArchive, database
  <1>7. CASE \E ask \in Asks : Begin(c, ask)
    BY <1>7 DEF Begin, database
  <1> QED
    BY <1>1, <1>2, <1>3, <1>4, <1>5, <1>6, <1>7 DEF Step

LEMMA LocksStep ==
    ASSUME IInv, NEW c \in Commands, Step(c)
    PROVE  /\ LocksExclusive' /\ MineCurrent' /\ MineConsistent'
           /\ SupersededOrRetracted'
  <1>0. LocksExclusive /\ MineCurrent /\ MineConsistent /\ SupersededOrRetracted
    BY DEF IInv
  <1>1. mine \in [Commands -> [Keys -> Rows \cup {NoRow}]]
    BY DEF IInv, TypeOK
  <1>2. CASE mine' = mine /\ row' = row
    BY <1>0, <1>2 DEF LocksExclusive, MineCurrent, MineConsistent,
       SupersededOrRetracted, Locks
  <1>3. ASSUME NEW k \in Keys, NEW r \in Rows, Writes(c, k, r)
        PROVE  /\ LocksExclusive' /\ MineCurrent' /\ MineConsistent'
               /\ SupersededOrRetracted'
    <2>1. /\ mine'[c][k] = r
          /\ \A d \in Commands : \A j \in Keys :
                <<d, j>> # <<c, k>> => mine'[d][j] = mine[d][j]
      BY <1>1, <1>3 DEF Writes, Write
    <2>2. LocksExclusive'
      BY <1>0, <1>3, <2>1 DEF LocksExclusive, Locks, Writes, Free
    <2>3. MineCurrent'
      BY <1>0, <1>3, <2>1 DEF MineCurrent, Locks, Writes
    <2>4. MineConsistent'
      BY <1>0, <1>3, <2>1 DEF MineConsistent, Locks, Writes
    <2>5. SupersededOrRetracted'
      BY <1>0, <1>3 DEF SupersededOrRetracted, Writes
    <2> QED
      BY <2>2, <2>3, <2>4, <2>5
  <1>4. ASSUME Rollback(c) \/ Commit(c)
        PROVE  \A d \in Commands : \A j \in Keys :
                  mine'[d][j] = IF d = c THEN NoRow ELSE mine[d][j]
    BY <1>1, <1>4 DEF Rollback, Commit, Release
  <1>5. CASE Rollback(c)
    BY <1>0, <1>4, <1>5 DEF Rollback, LocksExclusive, MineCurrent,
       MineConsistent, SupersededOrRetracted, Locks
  <1>6. CASE Commit(c)
    <2>1. \A j \in Keys : row'[j] = IF Locks(c, j) THEN mine[c][j] ELSE row[j]
      BY <1>6 DEF Commit
    <2>2. \A d \in Commands : \A j \in Keys :
             Locks(d, j)' => d # c /\ Locks(d, j) /\ mine'[d][j] = mine[d][j]
      BY <1>4, <1>6 DEF Locks
    <2>3. LocksExclusive'
      BY <1>0, <2>2 DEF LocksExclusive
    <2>4. MineConsistent'
      BY <1>0, <2>2 DEF MineConsistent
    <2>5. MineCurrent'
      BY <1>0, <2>1, <2>2 DEF LocksExclusive, MineCurrent
    <2>6. SupersededOrRetracted'
      BY <1>0, <2>1 DEF MineConsistent, SupersededOrRetracted
    <2> QED
      BY <2>3, <2>4, <2>5, <2>6
  <1> QED
    BY <1>2, <1>3, <1>5, <1>6, StepWrites

\* Each step of c leaves what its next step relies on.
LEMMA OwnShape ==
    ASSUME IInv, NEW c \in Commands, Step(c)
    PROVE  SeenShape(c)' /\ CommandShape(c)'
  <1> DEFINE k == cmd[c].key  p == cmd[c].prior
  <1>0. /\ TypeOK /\ SeenShape(c) /\ CommandShape(c)
        /\ pc[c] \notin Ended \cup {"idle"} =>
              /\ cmd[c] \in Asks
              /\ k \in Keys
              /\ cmd[c].op \in {"record", "supersede", "retract"}
              /\ cmd[c].op # "record" => p \in Keys
              /\ cmd[c].op = "retract" => p = k
    BY ActiveAsks, AskShape DEF IInv, Active
  <1>1. ASSUME NEW ask \in Asks, Begin(c, ask)
        PROVE  SeenShape(c)' /\ CommandShape(c)'
    <2>1. /\ pc[c] = "idle" /\ UNCHANGED <<row, seen, pending>>
          /\ pc'[c] = IF ask.op = "record" THEN "checking" ELSE "loading"
          /\ cmd'[c] = ask
      BY <1>0, <1>1 DEF Begin, Goto, TypeOK, database
    <2>2. seen[c].prior = NoRow /\ pending[c] = NothingPending /\ seen[c] = NotSeen
      BY <1>0, <2>1 DEF CommandShape, NotSeen
    <2> QED
      BY <2>1, <2>2 DEF SeenShape, CommandShape, Ended
  <1>2. CASE Load(c)
    BY <1>0, <1>2 DEF Load, Goto, TypeOK, SeenShape, CommandShape, Ended, database
  <1>3. CASE Check(c)
    BY <1>0, <1>3 DEF Check, Buffer, Goto, TypeOK, SeenShape, CommandShape,
                      Ended, database
  <1>4. CASE Insert(c) \/ Update(c) \/ UpdateNothing(c)
    <2>1. /\ pc[c] = "writing" /\ row' = row
          /\ UNCHANGED <<cmd, seen, pending>>
          /\ pc' = [pc EXCEPT ![c] = AfterWrite(c)]
      BY <1>4 DEF Insert, Update, UpdateNothing, Goto, database
    <2>2. cmd[c] \in Asks /\ k \in Keys /\ cmd[c].op \in {"record", "supersede"}
      BY <1>0, <2>1 DEF Ended, CommandShape
    <2>3. Outcome(c, k)' # NoRow
      <3>1. CASE Insert(c)
        <4>1. mine'[c][k] = [fact |-> cmd[c].fact, superseded |-> NoKey,
                             retracted |-> FALSE]
          BY <1>0, <2>2, <3>1 DEF Insert, Write, TypeOK
        <4>2. mine'[c][k] \in Rows
          BY <2>2, <4>1, AskShape DEF Rows
        <4> QED
          BY <2>1, <4>2 DEF Outcome, Locks
      <3>2. CASE Update(c)
        <4>1. row[k] \in Rows /\ cmd[c].fact \in Facts
          BY <1>0, <2>1, <2>2, <3>2, AskShape DEF Update, SeenShape, TypeOK
        <4>2. mine'[c][k] = [row[k] EXCEPT !.fact = cmd[c].fact]
          BY <1>0, <2>2, <3>2 DEF Update, Write, TypeOK
        <4>3. mine'[c][k] \in Rows
          BY <4>1, <4>2 DEF Rows
        <4> QED
          BY <2>1, <4>3 DEF Outcome, Locks
      <3>3. CASE UpdateNothing(c)
        BY <1>0, <2>1, <3>3 DEF UpdateNothing, SeenShape, Outcome, Locks, database
      <3> QED
        BY <1>4, <3>1, <3>2, <3>3
    <2>4. SeenShape(c)'
      BY <1>0, <2>1 DEF SeenShape, TypeOK, AfterWrite
    <2>5. CommandShape(c)'
      BY <1>0, <2>1, <2>2, <2>3
         DEF CommandShape, TypeOK, AfterWrite, Carries, Ended, Outcome, Locks
    <2> QED
      BY <2>4, <2>5
  <1>5. CASE Stamp(c)
    <2>1. /\ pc[c] = "stamping" /\ row' = row
          /\ UNCHANGED <<cmd, seen, pending>>
          /\ pc' = [pc EXCEPT ![c] = "committing"]
      BY <1>5 DEF Stamp, Goto
    <2>2. k \in Keys /\ p \in Keys /\ p # k
      BY <1>0, <2>1 DEF Ended, CommandShape
    <2>3. mine'[c][k] = mine[c][k]
      BY <1>0, <1>5, <2>2 DEF Stamp, Write, TypeOK
    <2>4. SeenShape(c)'
      BY <1>0, <2>1 DEF SeenShape, TypeOK
    <2>5. CommandShape(c)'
      BY <1>0, <2>1, <2>3
         DEF CommandShape, TypeOK, Carries, Ended, Outcome, Locks
    <2> QED
      BY <2>4, <2>5
  <1>6. CASE StampRetraction(c)
    <2>1. /\ pc[c] = "retracting" /\ row' = row
          /\ UNCHANGED <<cmd, seen, pending>>
          /\ pc' = [pc EXCEPT ![c] = "committing"]
      BY <1>6 DEF StampRetraction, Goto
    <2>2. k \in Keys /\ p = k /\ row[k] \in Rows
      BY <1>0, <2>1 DEF Ended, CommandShape, SeenShape, TypeOK
    <2>3. Outcome(c, k)' # NoRow /\ Outcome(c, k)'.retracted
      <3>1. CASE seen[c].prior.retracted /\ mine' = mine
        BY <1>0, <2>1, <2>2, <3>1
           DEF CommandShape, SeenShape, IInv, MineCurrent, Outcome, Locks
      <3>2. CASE Write(c, k, Retracted(c))
        <4>1. mine'[c][k] = Retracted(c)
          BY <1>0, <2>2, <3>2 DEF Write, TypeOK
        <4>2. Retracted(c) \in Rows /\ Retracted(c).retracted
          BY <2>2 DEF Retracted, Rows
        <4> QED
          BY <2>1, <4>1, <4>2 DEF Outcome, Locks
      <3> QED
        BY <1>6, <3>1, <3>2 DEF StampRetraction
    <2>4. SeenShape(c)'
      BY <1>0, <2>1 DEF SeenShape, TypeOK
    <2>5. CommandShape(c)'
      BY <1>0, <2>1, <2>3
         DEF CommandShape, TypeOK, Carries, Ended, Outcome, Locks
    <2> QED
      BY <2>4, <2>5
  <1>7. CASE Retract(c)
    BY <1>0, <1>7 DEF Retract, Buffer, TypeOK, SeenShape, CommandShape, Ended,
                      database
  <1>8. CASE Rollback(c) \/ LoseArchive(c)
    BY <1>0, <1>8 DEF Rollback, LoseArchive, Exit, Goto, TypeOK, NotSeen,
                      SeenShape, CommandShape, Ended
  <1>9. CASE Commit(c)
    <2>1. k \in Keys /\ Carries(Outcome(c, k), pending[c].body)
      BY <1>0, <1>9 DEF Commit, Ended, CommandShape
    <2>2. row'[k] = Outcome(c, k)
      BY <1>9, <2>1 DEF Commit, Outcome
    <2> QED
      BY <1>0, <1>9, <2>1, <2>2 DEF Commit, Goto, TypeOK, NotSeen, SeenShape,
                                    CommandShape, Ended, Carries
  <1>10. CASE Dedup(c) \/ CloseRun(c)
    BY <1>0, <1>10 DEF Dedup, CloseRun, AfterCommit, Exit, Goto, TypeOK,
                       NotSeen, SeenShape, CommandShape, Ended, database
  <1> QED
    BY <1>1, <1>2, <1>3, <1>4, <1>5, <1>6, <1>7, <1>8, <1>9, <1>10 DEF Step

\* A body reaches the archive only once its row carries it.
LEMMA ArchiveStep ==
    ASSUME IInv, NEW c \in Commands, Step(c), RowsKept
    PROVE  ArchiveFollowsRows'
  <1>1. archived \subseteq [key : Keys, body : Bodies, at : Nat]
    BY DEF IInv, TypeOK
  <1>2. \A a \in archived : Carries(row'[a.key], a.body)
    BY <1>1 DEF IInv, ArchiveFollowsRows, Carries, RowsKept
  <1>3. CASE archived' = archived
    BY <1>2, <1>3 DEF ArchiveFollowsRows, Carries
  <1>4. CASE pc[c] = "closing" /\ Archive(c) /\ row' = row
    <2>1. Carries(row[cmd[c].key], pending[c].body)
      BY <1>4 DEF IInv, CommandShape
    <2> QED
      BY <1>2, <1>4, <2>1 DEF Archive, ArchiveFollowsRows, Carries
  <1>5. archived' = archived \/ (pc[c] = "closing" /\ Archive(c) /\ row' = row)
    BY DEF Step, Begin, Load, Check, Insert, Update, UpdateNothing, Stamp,
           Retract, StampRetraction, Rollback, Commit, Dedup, CloseRun,
           LoseArchive, database, archive
  <1> QED
    BY <1>3, <1>4, <1>5

LEMMA InitInv == Init => IInv
  <1> SUFFICES ASSUME Init PROVE IInv
    OBVIOUS
  <1>1. TypeOK
    BY InitTypes
  <1> QED
    BY <1>1 DEF Init, IInv, LocksExclusive, MineCurrent, MineConsistent, Locks,
       SeenShape, CommandShape, Ended, SupersededOrRetracted,
       ArchiveFollowsRows, NotSeen

LEMMA InvStep == IInv /\ [Next]_vars => IInv'
  <1> SUFFICES ASSUME IInv, [Next]_vars PROVE IInv'
    OBVIOUS
  <1>1. CASE UNCHANGED vars
    BY <1>1 DEF vars, IInv, TypeOK, Active, LocksExclusive, MineCurrent,
       MineConsistent, Locks, SeenShape, CommandShape, Carries, Outcome,
       SupersededOrRetracted, ArchiveFollowsRows
  <1>2. ASSUME NEW c \in Commands, Step(c) PROVE IInv'
    <2>1. TypeOK /\ MineCurrent /\ SeenShape(c) /\ CommandShape(c)
      BY DEF IInv
    <2>2. TypeOK'
      BY <1>2, <2>1, TypeStep
    <2>3. RowsKept
      BY <1>2, <2>1, CommitKeeps
    <2>4. LocksExclusive' /\ MineCurrent' /\ MineConsistent'
          /\ SupersededOrRetracted'
      BY <1>2, LocksStep
    <2>5. ArchiveFollowsRows'
      BY <1>2, <2>3, ArchiveStep
    <2>6. SeenShape(c)' /\ CommandShape(c)'
      BY <1>2, OwnShape
    <2>7. ASSUME NEW d \in Commands, d # c
          PROVE  SeenShape(d)' /\ CommandShape(d)'
      <3>1. SeenShape(d) /\ CommandShape(d)
        BY DEF IInv
      <3> QED
        BY <1>2, <2>1, <2>3, <2>7, <3>1, OthersFrame, ShapeFrame
    <2> QED
      BY <2>2, <2>4, <2>5, <2>6, <2>7 DEF IInv
  <1> QED
    BY <1>1, <1>2 DEF Next

-----------------------------------------------------------------------------
\* Types, whatever the commands and however they overlap.
THEOREM TypeCorrect == Spec => []TypeOK
  <1>1. IInv => TypeOK
    BY DEF IInv
  <1> QED
    BY <1>1, InitInv, InvStep, PTL DEF Spec

\* No interleaving leaves a row both superseded and retracted: the check
\* constraint is evaluated on the row as locked, not as it was selected.
THEOREM NeverBoth == Spec => []SupersededOrRetracted
  <1>1. IInv => SupersededOrRetracted
    BY DEF IInv
  <1> QED
    BY <1>1, InitInv, InvStep, PTL DEF Spec

\* No interleaving, rollback or kill archives a body without its row, or the
\* retraction of a row that stands: no update loses a retraction.
THEOREM ArchiveNeverAhead == Spec => []ArchiveFollowsRows
  <1>1. IInv => ArchiveFollowsRows
    BY DEF IInv
  <1> QED
    BY <1>1, InitInv, InvStep, PTL DEF Spec

-----------------------------------------------------------------------------
(* Commands that do not overlap.  A command that is alone finds, when it    *)
(* writes, the rows it selected, so what it buffered is what it commits,    *)
(* and no flush of another command can land between its commit and its own. *)

\* The body says what the row says.
Names(body, r) ==
    /\ r # NoRow
    /\ body = [fact |-> r.fact, retracted |-> r.retracted]

\* The first write follows the last check.
LocksLate ==
    \A c \in Commands : \A k \in Keys :
        Locks(c, k) => pc[c] \in {"stamping", "committing"}

\* No body is newer than the clock.
ClockLeads ==
    /\ \A k \in Keys : latest[k].at <= clock
    /\ \A c \in Commands : pending[c].at <= clock

\* The index names archived bodies.
IndexArchived ==
    \A k \in Keys : latest[k] # NeverArchived =>
        [key |-> k, body |-> latest[k].body, at |-> latest[k].at] \in archived

\* A key's last writer has committed, and was asked for that key.
WriterOf(c, k) ==
    /\ pc[c] \in {"committed", "closing", "done", "lost"}
    /\ Active(c) => cmd[c].key = k

WritersCommitted ==
    \A k \in Keys : \A c \in Commands \ {NoCommand} :
        writer[k] = c => WriterOf(c, k)

Alone == \A c, d \in Commands : Active(c) /\ Active(d) => c = d

\* Nothing newer was archived since the command took the time.
Fresh(c) ==
    pending[c] # NothingPending =>
        \A k \in Keys : latest[k].at < pending[c].at

\* What the command selected, and accepted, is what the tables hold.
SeenCurrent(c) ==
    /\ pc[c] \in {"checking", "writing", "stamping"} /\ cmd[c].op = "supersede" =>
          /\ seen[c].prior = row[cmd[c].prior]
          /\ Correctable(row[cmd[c].prior])
    /\ pc[c] = "retracting" => seen[c].prior = row[cmd[c].prior]
    /\ pc[c] = "writing" => /\ seen[c].key = row[cmd[c].key]
                            /\ Recordable(row[cmd[c].key])

\* What is buffered is what will be, or was, committed.
BodyFaithful(c) ==
    /\ pc[c] = "writing" =>
          pending[c].body = [fact |-> cmd[c].fact, retracted |-> FALSE]
    /\ pc[c] = "retracting" /\ pending[c] # NothingPending =>
          pending[c].body = [fact |-> seen[c].prior.fact, retracted |-> TRUE]
    /\ pc[c] \in {"stamping", "committing"} =>
          Names(pending[c].body, Outcome(c, cmd[c].key))
    /\ pc[c] \in {"committed", "closing"} =>
          Names(pending[c].body, row[cmd[c].key])

\* A write keeps the link of a row that has one, and says nothing new of a
\* row other than the event's own.
WritesFit(c) ==
    \A k \in Keys : Locks(c, k) =>
        /\ row[k] # NoRow /\ row[k].superseded # NoKey =>
              mine[c][k].superseded = row[k].superseded
        /\ k # cmd[c].key => /\ row[k] # NoRow
                             /\ mine[c][k].fact = row[k].fact
                             /\ mine[c][k].retracted = row[k].retracted

Undisturbed(c) == Fresh(c) /\ SeenCurrent(c) /\ BodyFaithful(c) /\ WritesFit(c)

Books == LocksLate /\ ClockLeads /\ IndexArchived /\ WritersCommitted

OneAtATime ==
    ~overlapped => Alone /\ \A c \in Commands : Active(c) => Undisturbed(c)

\* How a step moves its command: what it does to the clock, the buffered body
\* and the archive.
LEMMA StepBooks ==
    ASSUME IInv, NEW c \in Commands, Step(c)
    PROVE  /\ archived \subseteq archived'
           /\ \/ pending' = pending /\ clock' = clock
              \/ pending'[c].at = clock + 1 /\ clock' = clock + 1
              \/ pending'[c] = NothingPending /\ clock' = clock
           /\ \/ latest' = latest
              \/ /\ CloseRun(c)
                 /\ latest' = [latest EXCEPT ![cmd[c].key] = pending[c]]
  <1>1. pending \in [Commands -> {NothingPending} \cup [body : Bodies, at : Nat]]
    BY DEF IInv, TypeOK
  <1>2. CASE Check(c) \/ Retract(c)
    BY <1>1, <1>2 DEF Check, Retract, Buffer, archive
  <1>3. CASE Rollback(c) \/ LoseArchive(c)
    BY <1>1, <1>3 DEF Rollback, LoseArchive, Exit, Archive, archive
  <1>4. CASE Dedup(c)
    BY <1>1, <1>4 DEF Dedup, Exit, archive
  <1>5. CASE CloseRun(c)
    BY <1>1, <1>5 DEF CloseRun, Exit, Archive
  <1>6. CASE ~(Check(c) \/ Retract(c) \/ Rollback(c) \/ LoseArchive(c)
               \/ Dedup(c) \/ CloseRun(c))
    BY <1>6 DEF Step, Begin, Load, Insert, Update, UpdateNothing, Stamp,
                StampRetraction, Commit, archive
  <1> QED
    BY <1>2, <1>3, <1>4, <1>5, <1>6

LEMMA ClockStep ==
    ASSUME IInv, ClockLeads, NEW c \in Commands, Step(c)
    PROVE  ClockLeads'
  <1>0. /\ clock \in Nat
        /\ \A k \in Keys : latest[k].at \in Nat
        /\ \A d \in Commands : pending[d].at \in Nat
        /\ latest \in [Keys -> {NeverArchived} \cup [body : Bodies, at : Nat]]
    BY DEF IInv, TypeOK, NeverArchived, NothingPending
  <1>1. clock <= clock'
    BY <1>0, StepBooks
  <1>1a. clock' \in Nat
    BY <1>0, StepBooks
  <1>2. \A k \in Keys : latest'[k] = latest[k] \/ latest'[k] = pending[c]
    BY <1>0, StepBooks
  <1>3. \A k \in Keys : latest'[k].at <= clock'
    BY <1>0, <1>1, <1>1a, <1>2 DEF ClockLeads
  <1>4. pending'[c].at <= clock'
    BY <1>0, <1>1, <1>1a, StepBooks DEF ClockLeads, NothingPending
  <1>5. ASSUME NEW d \in Commands, d # c PROVE pending'[d].at <= clock'
    <2>1. TypeOK
      BY DEF IInv
    <2>2. pending'[d] = pending[d]
      BY <1>5, <2>1, OthersFrame
    <2> QED
      BY <1>0, <1>1, <1>1a, <2>2 DEF ClockLeads
  <1> QED
    BY <1>3, <1>4, <1>5 DEF ClockLeads

LEMMA IndexStep ==
    ASSUME IInv, IndexArchived, NEW c \in Commands, Step(c)
    PROVE  IndexArchived'
  <1>0. latest \in [Keys -> {NeverArchived} \cup [body : Bodies, at : Nat]]
    BY DEF IInv, TypeOK
  <1>1. CASE latest' = latest
    BY <1>1, StepBooks DEF IndexArchived
  <1>2. CASE CloseRun(c) /\ latest' = [latest EXCEPT ![cmd[c].key] = pending[c]]
    <2>1. [key |-> cmd[c].key, body |-> pending[c].body, at |-> pending[c].at]
             \in archived'
      BY <1>2 DEF CloseRun, Archive
    <2>2. ASSUME NEW k \in Keys
          PROVE  \/ latest'[k] = latest[k]
                 \/ k = cmd[c].key /\ latest'[k] = pending[c]
      BY <1>0, <1>2
    <2> QED
      BY <2>1, <2>2, StepBooks DEF IndexArchived
  <1> QED
    BY <1>1, <1>2, StepBooks

\* Nothing is locked while a command still looks around.
LEMMA LocksLateStep ==
    ASSUME IInv, LocksLate, NEW c \in Commands, Step(c)
    PROVE  LocksLate'
  <1>0. /\ TypeOK
        /\ mine \in [Commands -> [Keys -> Rows \cup {NoRow}]]
    BY DEF IInv, TypeOK
  <1>1. ASSUME NEW d \in Commands, NEW k \in Keys, d # c, Locks(d, k)'
        PROVE  pc'[d] \in {"stamping", "committing"}
    <2>1. pc'[d] = pc[d] /\ mine'[d] = mine[d]
      BY <1>0, <1>1, OthersFrame
    <2> QED
      BY <1>1, <2>1 DEF LocksLate, Locks
  <1>2. ASSUME NEW k \in Keys, Locks(c, k)'
        PROVE  pc'[c] \in {"stamping", "committing"}
    <2>1. CASE Insert(c) \/ Update(c) \/ UpdateNothing(c)
      BY <1>0, <2>1 DEF Insert, Update, UpdateNothing, Goto, AfterWrite, TypeOK
    <2>2. CASE Stamp(c) \/ StampRetraction(c)
      BY <1>0, <2>2 DEF Stamp, StampRetraction, Goto, TypeOK
    <2>3. CASE Rollback(c) \/ Commit(c)
      BY <1>0, <1>2, <2>3 DEF Rollback, Commit, Release, Locks
    <2>4. CASE (\E ask \in Asks : Begin(c, ask)) \/ Load(c) \/ Check(c)
      BY <1>2, <2>4 DEF Begin, Load, Check, database, LocksLate, Locks
    <2>5. CASE Retract(c) \/ Dedup(c) \/ CloseRun(c) \/ LoseArchive(c)
      BY <1>2, <2>5 DEF Retract, Dedup, CloseRun, LoseArchive, AfterCommit,
                        database, LocksLate, Locks
    <2> QED
      BY <1>2, <2>1, <2>2, <2>3, <2>4, <2>5 DEF Step
  <1> QED
    BY <1>1, <1>2 DEF LocksLate

LEMMA WritersStep ==
    ASSUME IInv, WritersCommitted, NEW c \in Commands, Step(c)
    PROVE  WritersCommitted'
  <1>0. /\ TypeOK
        /\ pc \in [Commands -> InTransaction \cup Ended
                                \cup {"idle", "committed", "closing"}]
        /\ writer \in [Keys -> Commands \cup {NoCommand}]
    BY DEF IInv, TypeOK
  <1>1. ASSUME NEW k \in Keys, NEW w \in Commands \ {NoCommand}, writer'[k] = w
        PROVE  WriterOf(w, k)'
    <2>1. CASE Commit(c) /\ cmd[c].key = k
      BY <1>0, <1>1, <2>1 DEF Commit, Goto, WriterOf
    <2>2. CASE writer'[k] = writer[k]
      <3>1. WriterOf(w, k)
        BY <1>0, <1>1, <2>2 DEF WritersCommitted
      <3>2. CASE w # c
        <4>1. pc'[w] = pc[w] /\ cmd'[w] = cmd[w]
          BY <1>0, <3>1, <3>2, OthersFrame
        <4> QED
          BY <3>1, <4>1 DEF WriterOf, Active
      <3>3. CASE w = c
        <4>1. Dedup(c) \/ CloseRun(c) \/ LoseArchive(c)
          BY <3>1, <3>3 DEF WriterOf, Step, Begin, Load, Check, Insert, Update,
             UpdateNothing, Stamp, Retract, StampRetraction, Rollback, Commit,
             InTransaction
        <4>2. \/ pc'[c] = "closing" /\ cmd' = cmd /\ pc[c] = "committed"
              \/ pc'[c] \in {"done", "lost"}
          BY <1>0, <4>1 DEF Dedup, CloseRun, LoseArchive, Exit, Goto, AfterCommit
        <4>3. ~Active(c)' \/ (Active(c) /\ cmd'[c] = cmd[c])
          BY <4>2 DEF Active, Ended
        <4> QED
          BY <3>1, <3>3, <4>2, <4>3 DEF WriterOf
      <3> QED
        BY <3>2, <3>3
    <2>3. \/ writer' = writer
          \/ Commit(c)
      BY DEF Step, Begin, Load, Check, Insert, Update,
             UpdateNothing, Stamp, Retract, StampRetraction, Rollback,
             Dedup, CloseRun, LoseArchive, database
    <2>4. CASE Commit(c) /\ cmd[c].key # k
      BY <1>0, <2>2, <2>4 DEF Commit
    <2> QED
      BY <2>1, <2>2, <2>3, <2>4
  <1> QED
    BY <1>1 DEF WritersCommitted

\* Whether commands overlap is decided as they begin.
LEMMA AloneStep ==
    ASSUME IInv, ~overlapped => Alone, NEW c \in Commands, Step(c), ~overlapped'
    PROVE  /\ ~overlapped
           /\ Alone'
           /\ \A d \in Commands : d # c => ~Active(d)'
  <1>0. TypeOK
    BY DEF IInv
  <1>1. /\ ~overlapped
        /\ \A d \in Commands : d # c => ~Active(d)
    <2>1. CASE \E ask \in Asks : Begin(c, ask)
      BY <2>1 DEF Begin
    <2>2. CASE ~(\E ask \in Asks : Begin(c, ask))
      <3>1. overlapped' = overlapped /\ Active(c)
        BY <2>2 DEF Step, Load, Check, Insert, Update, UpdateNothing, Stamp,
           Retract, StampRetraction, Rollback, Commit, Dedup, CloseRun,
           LoseArchive, Active, Ended, InTransaction, AfterCommit
      <3> QED
        BY <3>1 DEF Alone
    <2> QED
      BY <2>1, <2>2
  <1>2. ASSUME NEW d \in Commands, d # c PROVE ~Active(d)'
    <2>1. pc'[d] = pc[d]
      BY <1>0, <1>2, OthersFrame
    <2> QED
      BY <1>1, <1>2, <2>1 DEF Active
  <1> QED
    BY <1>1, <1>2 DEF Alone

\* What the proofs below need of the types.
LEMMA Typing ==
    ASSUME IInv, NEW c \in Commands
    PROVE  /\ TypeOK /\ SeenShape(c) /\ CommandShape(c)
           /\ row \in [Keys -> Rows \cup {NoRow}]
           /\ pc \in [Commands -> InTransaction \cup Ended
                                  \cup {"idle", "committed", "closing"}]
           /\ seen \in [Commands -> [prior : Rows \cup {NoRow},
                                     key : Rows \cup {NoRow}]]
           /\ mine \in [Commands -> [Keys -> Rows \cup {NoRow}]]
           /\ pending \in [Commands -> {NothingPending}
                                       \cup [body : Bodies, at : Nat]]
           /\ latest \in [Keys -> {NeverArchived} \cup [body : Bodies, at : Nat]]
           /\ clock \in Nat
           /\ Active(c) =>
                 /\ cmd[c].op \in {"record", "supersede", "retract"}
                 /\ cmd[c].key \in Keys
                 /\ cmd[c].op = "record" => cmd[c].prior # cmd[c].key
                 /\ cmd[c].op # "record" => cmd[c].prior \in Keys
                 /\ cmd[c].op # "retract" => cmd[c].fact \in Facts
                 /\ cmd[c].op = "retract" => cmd[c].prior = cmd[c].key
  <1>1. /\ TypeOK /\ SeenShape(c) /\ CommandShape(c)
        /\ row \in [Keys -> Rows \cup {NoRow}]
        /\ pc \in [Commands -> InTransaction \cup Ended
                               \cup {"idle", "committed", "closing"}]
        /\ seen \in [Commands -> [prior : Rows \cup {NoRow},
                                  key : Rows \cup {NoRow}]]
        /\ mine \in [Commands -> [Keys -> Rows \cup {NoRow}]]
        /\ pending \in [Commands -> {NothingPending}
                                    \cup [body : Bodies, at : Nat]]
        /\ latest \in [Keys -> {NeverArchived} \cup [body : Bodies, at : Nat]]
        /\ clock \in Nat
    BY DEF IInv, TypeOK
  <1>2. ASSUME Active(c)
        PROVE  cmd[c].op = "record" => cmd[c].prior # cmd[c].key
    <2>1. cmd[c] \in Asks
      BY <1>1, <1>2, ActiveAsks
    <2> QED
      BY <2>1 DEF Asks
  <1> QED
    BY <1>1, <1>2, ActiveAsks, AskShape

LEMMA FreshStep ==
    ASSUME IInv, ClockLeads, NEW c \in Commands, Active(c) => Fresh(c), Step(c)
    PROVE  Fresh(c)'
  <1>0. /\ clock \in Nat
        /\ \A k \in Keys : latest[k].at \in Nat
        /\ ~Active(c) => pending[c] = NothingPending
    BY Typing DEF NeverArchived, CommandShape, Active, Ended
  <1>1. CASE pending'[c].at = clock + 1 /\ latest' = latest
    BY <1>0, <1>1 DEF Fresh, ClockLeads
  <1>2. CASE pending' = pending /\ latest' = latest
    BY <1>0, <1>2 DEF Fresh
  <1>3. CASE pending'[c] = NothingPending
    BY <1>3 DEF Fresh
  <1>4. CloseRun(c) => pending'[c] = NothingPending
    BY Typing DEF CloseRun, Exit
  <1> QED
    BY <1>1, <1>2, <1>3, <1>4, StepBooks

LEMMA SeenCurrentStep ==
    ASSUME IInv, NEW c \in Commands, Active(c) => SeenCurrent(c), Step(c)
    PROVE  SeenCurrent(c)'
  <1> DEFINE k == cmd[c].key  p == cmd[c].prior
  <1>1. ASSUME NEW ask \in Asks, Begin(c, ask) PROVE SeenCurrent(c)'
    <2>1. /\ pc'[c] = IF ask.op = "record" THEN "checking" ELSE "loading"
          /\ cmd'[c] = ask
      BY <1>1, Typing DEF Begin, Goto, TypeOK
    <2> QED
      BY <2>1 DEF SeenCurrent
  <1>2. CASE Load(c)
    <2>1. /\ pc[c] = "loading" /\ row' = row /\ cmd' = cmd
          /\ seen'[c].prior = row[p]
          /\ \/ pc'[c] = "checking" /\ Correctable(row[p])
             \/ pc'[c] = "retracting"
      BY <1>2, Typing DEF Load, Goto, database
    <2> QED
      BY <2>1 DEF SeenCurrent, Correctable
  <1>3. CASE Check(c)
    <2>1. /\ pc[c] = "checking" /\ Active(c) /\ row' = row /\ cmd' = cmd
          /\ pc'[c] = "writing"
          /\ seen'[c].prior = seen[c].prior
          /\ seen'[c].key = IF p = k THEN seen[c].prior ELSE row[k]
          /\ Recordable(seen'[c].key)
      BY <1>3, Typing DEF Check, Goto, database, Active, Ended
    <2>2. cmd[c].op \in {"record", "supersede"}
          /\ (cmd[c].op = "record" => p # k)
      BY <2>1, Typing DEF CommandShape
    <2>3. SeenCurrent(c)
      BY <2>1
    <2>4. seen'[c].key = row[k]
      BY <2>1, <2>2, <2>3 DEF SeenCurrent
    <2> QED
      BY <2>1, <2>2, <2>3, <2>4 DEF SeenCurrent, Recordable, Correctable
  <1>4. CASE Insert(c) \/ Update(c) \/ UpdateNothing(c)
    <2>1. /\ pc[c] = "writing" /\ Active(c) /\ UNCHANGED <<row, cmd, seen>>
          /\ pc'[c] \in {"stamping", "committing"}
      BY <1>4, Typing DEF Insert, Update, UpdateNothing, Goto, AfterWrite,
         database, Active, Ended
    <2> QED
      BY <2>1 DEF SeenCurrent, Correctable
  <1>5. CASE Retract(c)
    <2>1. pc[c] = "retracting" /\ Active(c) /\ UNCHANGED <<row, cmd, seen, pc>>
      BY <1>5 DEF Retract, database, Active, Ended
    <2> QED
      BY <2>1 DEF SeenCurrent
  <1>6. CASE Stamp(c) \/ StampRetraction(c) \/ Commit(c)
    <2>1. pc'[c] \in {"committing", "committed"}
      BY <1>6, Typing DEF Stamp, StampRetraction, Commit, Goto
    <2> QED
      BY <2>1 DEF SeenCurrent
  <1>7. CASE Rollback(c) \/ Dedup(c) \/ CloseRun(c) \/ LoseArchive(c)
    <2>1. pc'[c] \in {"failed", "done", "closing", "lost"}
      BY <1>7, Typing DEF Rollback, Dedup, CloseRun, LoseArchive, Exit, Goto
    <2> QED
      BY <2>1 DEF SeenCurrent
  <1> QED
    BY <1>1, <1>2, <1>3, <1>4, <1>5, <1>6, <1>7 DEF Step

LEMMA WritesFitStep ==
    ASSUME IInv, LocksLate, NEW c \in Commands,
           Active(c) => SeenCurrent(c) /\ WritesFit(c), Step(c)
    PROVE  WritesFit(c)'
  <1> DEFINE k == cmd[c].key  p == cmd[c].prior
  <1>1. CASE Insert(c) \/ Update(c)
    <2>1. /\ pc[c] = "writing" /\ Active(c) /\ row' = row /\ cmd' = cmd
          /\ \A j \in Keys : j # k => ~Locks(c, j)'
      BY <1>1, Typing DEF Insert, Update, Write, Active, Ended, LocksLate, Locks
    <2>2. k \in Keys
      BY <2>1, Typing
    <2>3. CASE Insert(c)
      BY <2>1, <2>2, <2>3 DEF Insert, WritesFit
    <2>4. CASE Update(c)
      <3>1. row[k] \in Rows
        BY <2>1, <2>2, <2>4, Typing DEF Update, SeenShape
      <3>2. mine'[c][k].superseded = row[k].superseded
        BY <2>2, <2>4, <3>1, Typing DEF Update, Write, Rows
      <3> QED
        BY <2>1, <3>2 DEF WritesFit
    <2> QED
      BY <1>1, <2>3, <2>4
  <1>2. CASE Stamp(c)
    <2>1. /\ pc[c] = "stamping" /\ Active(c) /\ row' = row /\ cmd' = cmd
      BY <1>2 DEF Stamp, Active, Ended
    <2>2. /\ p \in Keys /\ p # k
          /\ row[p] \in Rows /\ row[p].superseded = NoKey
      <3>1. cmd[c].op = "supersede" /\ seen[c].prior # NoRow /\ p # k
        BY <2>1, Typing DEF CommandShape
      <3>2. p \in Keys /\ row[p] # NoRow
        BY <3>1, Typing DEF SeenShape
      <3>3. row[p].superseded = NoKey
        BY <2>1, <3>1 DEF SeenCurrent, Correctable
      <3> QED
        BY <3>1, <3>2, <3>3, Typing
    <2>3. /\ mine'[c][p] = Superseded(c)
          /\ \A j \in Keys : j # p => mine'[c][j] = mine[c][j]
      BY <1>2, <2>2, Typing DEF Stamp, Write
    <2>4. /\ Superseded(c).fact = row[p].fact
          /\ Superseded(c).retracted = row[p].retracted
      BY <2>2 DEF Superseded, Rows
    <2>5. row[p] # NoRow
      BY <2>2
    <2>6. ASSUME NEW j \in Keys, Locks(c, j)'
          PROVE  /\ row[j] # NoRow /\ row[j].superseded # NoKey =>
                       mine'[c][j].superseded = row[j].superseded
                 /\ j # k => /\ row[j] # NoRow
                             /\ mine'[c][j].fact = row[j].fact
                             /\ mine'[c][j].retracted = row[j].retracted
      <3>1. CASE j = p
        BY <2>2, <2>3, <2>4, <2>5, <3>1
      <3>2. CASE j # p
        <4>1. Locks(c, j) /\ mine'[c][j] = mine[c][j]
          BY <2>3, <2>6, <3>2 DEF Locks
        <4> QED
          BY <2>1, <4>1 DEF WritesFit
      <3> QED
        BY <3>1, <3>2
    <2> QED
      BY <2>1, <2>6 DEF WritesFit
  <1>3. CASE StampRetraction(c)
    <2>1. /\ pc[c] = "retracting" /\ Active(c) /\ row' = row /\ cmd' = cmd
          /\ \A j \in Keys : ~Locks(c, j)
      BY <1>3 DEF StampRetraction, Active, Ended, LocksLate
    <2>2. k \in Keys /\ p = k /\ row[k] \in Rows
      BY <2>1, Typing DEF CommandShape, SeenShape
    <2>3. CASE mine' = mine
      BY <2>1, <2>3 DEF WritesFit, Locks
    <2>4. CASE Write(c, k, Retracted(c))
      <3>1. /\ mine'[c][k] = Retracted(c)
            /\ \A j \in Keys : j # k => ~Locks(c, j)'
        BY <2>1, <2>2, <2>4, Typing DEF Write, Locks
      <3>2. Retracted(c).superseded = row[k].superseded
        BY <2>2 DEF Retracted, Rows
      <3> QED
        BY <2>1, <3>1, <3>2 DEF WritesFit
    <2> QED
      BY <1>3, <2>3, <2>4 DEF StampRetraction
  <1>4. CASE Rollback(c) \/ Commit(c)
    <2>1. \A j \in Keys : mine'[c][j] = NoRow
      BY <1>4, Typing DEF Rollback, Commit, Release
    <2> QED
      BY <2>1 DEF WritesFit, Locks
  <1>5. CASE (\E ask \in Asks : Begin(c, ask)) \/ Load(c) \/ Check(c)
             \/ UpdateNothing(c) \/ Retract(c)
    <2>1. /\ pc[c] \in {"idle", "loading", "checking", "writing", "retracting"}
          /\ mine' = mine
      BY <1>5 DEF Begin, Load, Check, UpdateNothing, Retract, database
    <2> QED
      BY <2>1 DEF WritesFit, LocksLate, Locks
  <1>6. CASE Dedup(c) \/ CloseRun(c) \/ LoseArchive(c)
    <2>1. pc[c] \in {"committed", "closing"} /\ mine' = mine
      BY <1>6 DEF Dedup, CloseRun, LoseArchive, AfterCommit, database
    <2> QED
      BY <2>1 DEF WritesFit, LocksLate, Locks
  <1> QED
    BY <1>1, <1>2, <1>3, <1>4, <1>5, <1>6 DEF Step

\* A row that is written says what the command buffered.
LEMMA BodyFaithfulStep ==
    ASSUME IInv, LocksLate, NEW c \in Commands,
           Active(c) => SeenCurrent(c) /\ BodyFaithful(c), Step(c)
    PROVE  BodyFaithful(c)'
  <1> DEFINE k == cmd[c].key  p == cmd[c].prior
  <1>1. CASE (\E ask \in Asks : Begin(c, ask)) \/ Load(c)
    <2>1. /\ pc'[c] \in {"loading", "checking", "retracting"}
          /\ pending'[c] = NothingPending
      BY <1>1, Typing DEF Begin, Load, Goto, CommandShape, Ended
    <2> QED
      BY <2>1 DEF BodyFaithful
  <1>2. CASE Check(c)
    <2>1. /\ pc'[c] = "writing" /\ cmd' = cmd
          /\ pending'[c].body = [fact |-> cmd[c].fact, retracted |-> FALSE]
      BY <1>2, Typing DEF Check, Buffer, Goto
    <2> QED
      BY <2>1 DEF BodyFaithful
  <1>3. CASE Insert(c) \/ Update(c) \/ UpdateNothing(c)
    <2>1. /\ pc[c] = "writing" /\ Active(c)
          /\ UNCHANGED <<row, cmd, seen, pending>>
          /\ pc'[c] \in {"stamping", "committing"}
          /\ \A j \in Keys : ~Locks(c, j)
      BY <1>3, Typing DEF Insert, Update, UpdateNothing, Goto, AfterWrite,
         database, Active, Ended, LocksLate
    <2>2. /\ k \in Keys
          /\ cmd[c].op # "retract" => cmd[c].fact \in Facts
          /\ pending[c].body = [fact |-> cmd[c].fact, retracted |-> FALSE]
          /\ seen[c].key = row[k] /\ Recordable(row[k])
      BY <2>1, Typing DEF BodyFaithful, SeenCurrent
    <2>3. cmd[c].fact \in Facts
      BY <2>1, <2>2, Typing DEF CommandShape
    <2>4. Names(pending[c].body, Outcome(c, k)')
      <3>1. CASE Insert(c)
        <4> DEFINE r == [fact |-> cmd[c].fact, superseded |-> NoKey,
                         retracted |-> FALSE]
        <4>1. mine'[c][k] = r
          BY <2>2, <3>1, Typing DEF Insert, Write
        <4>2. r \in Rows /\ r.fact = cmd[c].fact /\ r.retracted = FALSE
          BY <2>3 DEF Rows
        <4>3. Outcome(c, k)' = r
          BY <2>1, <4>1, <4>2 DEF Outcome, Locks
        <4> QED
          BY <2>2, <4>2, <4>3 DEF Names
      <3>2. CASE Update(c)
        <4>1. row[k] \in Rows /\ ~row[k].retracted
          BY <2>2, <3>2, Typing DEF Update, Recordable
        <4> DEFINE r == [row[k] EXCEPT !.fact = cmd[c].fact]
        <4>2. mine'[c][k] = r
          BY <2>2, <3>2, Typing DEF Update, Write
        <4>3. r \in Rows /\ r.fact = cmd[c].fact /\ r.retracted = FALSE
          BY <2>3, <4>1 DEF Rows
        <4> QED
          BY <2>1, <2>2, <4>2, <4>3 DEF Names, Outcome, Locks
      <3>3. CASE UpdateNothing(c)
        <4>1. row[k] # NoRow /\ row[k].fact = cmd[c].fact
          BY <2>2, <3>3 DEF UpdateNothing
        <4>2. row[k].retracted = FALSE
          BY <2>2, <4>1, Typing DEF Recordable, Rows
        <4>3. Outcome(c, k)' = row[k]
          BY <2>1, <2>2, <3>3 DEF UpdateNothing, database, Outcome, Locks
        <4> QED
          BY <2>2, <4>1, <4>2, <4>3 DEF Names
      <3> QED
        BY <1>3, <3>1, <3>2, <3>3
    <2> QED
      BY <2>1, <2>4 DEF BodyFaithful
  <1>4. CASE Stamp(c)
    <2>1. /\ pc[c] = "stamping" /\ Active(c) /\ pc'[c] = "committing"
          /\ UNCHANGED <<row, cmd, pending>>
      BY <1>4, Typing DEF Stamp, Goto, Active, Ended
    <2>2. k \in Keys /\ p # k
      BY <2>1, Typing DEF CommandShape
    <2>3. Outcome(c, k)' = Outcome(c, k)
      BY <1>4, <2>1, <2>2, Typing DEF Stamp, Write, Outcome, Locks
    <2>4. Names(pending[c].body, Outcome(c, k))
      BY <2>1 DEF BodyFaithful
    <2> QED
      BY <2>1, <2>3, <2>4 DEF BodyFaithful
  <1>5. CASE Retract(c)
    <2>1. /\ pc[c] = "retracting" /\ UNCHANGED <<pc, seen>>
          /\ pending'[c].body = [fact |-> seen[c].prior.fact, retracted |-> TRUE]
      BY <1>5, Typing DEF Retract, Buffer
    <2> QED
      BY <2>1 DEF BodyFaithful
  <1>6. CASE StampRetraction(c)
    <2>1. /\ pc[c] = "retracting" /\ Active(c) /\ pc'[c] = "committing"
          /\ UNCHANGED <<row, cmd, pending>>
          /\ pending[c] # NothingPending
          /\ \A j \in Keys : ~Locks(c, j)
      BY <1>6, Typing DEF StampRetraction, Goto, Active, Ended, LocksLate
    <2>2. k \in Keys /\ p = k /\ seen[c].prior = row[k] /\ row[k] # NoRow
      BY <2>1, Typing DEF CommandShape, SeenShape, SeenCurrent
    <2>3. row[k] \in Rows
      BY <2>2, Typing
    <2>4. pending[c].body = [fact |-> row[k].fact, retracted |-> TRUE]
      BY <2>1, <2>2 DEF BodyFaithful
    <2>5. Names(pending[c].body, Outcome(c, k)')
      <3>1. CASE seen[c].prior.retracted /\ mine' = mine
        <4>1. Outcome(c, k)' = row[k] /\ row[k].retracted = TRUE
          BY <2>1, <2>2, <2>3, <3>1 DEF Outcome, Locks, Rows
        <4> QED
          BY <2>2, <2>4, <4>1 DEF Names
      <3>2. CASE Write(c, k, Retracted(c))
        <4>1. mine'[c][k] = Retracted(c)
          BY <2>2, <3>2, Typing DEF Write
        <4>2. /\ Retracted(c) \in Rows
              /\ Retracted(c).fact = row[k].fact
              /\ Retracted(c).retracted = TRUE
          BY <2>2, <2>3 DEF Retracted, Rows
        <4> QED
          BY <2>1, <2>4, <4>1, <4>2 DEF Names, Outcome, Locks
      <3> QED
        BY <1>6, <3>1, <3>2 DEF StampRetraction
    <2> QED
      BY <2>1, <2>5 DEF BodyFaithful
  <1>7. CASE Commit(c)
    <2>1. /\ pc[c] = "committing" /\ Active(c) /\ pc'[c] = "committed"
          /\ UNCHANGED <<cmd, pending>>
      BY <1>7, Typing DEF Commit, Goto, Active, Ended
    <2>2. k \in Keys
      BY <2>1, Typing
    <2>3. row'[k] = Outcome(c, k)
      BY <1>7, <2>2 DEF Commit, Outcome
    <2>4. Names(pending[c].body, Outcome(c, k))
      BY <2>1 DEF BodyFaithful
    <2> QED
      BY <2>1, <2>3, <2>4 DEF BodyFaithful
  <1>8. CASE Dedup(c) /\ pc'[c] = "closing"
    <2>1. /\ pc[c] = "committed" /\ Active(c) /\ row' = row
          /\ UNCHANGED <<cmd, pending>>
      BY <1>8, Typing DEF Dedup, Exit, Goto, AfterCommit, database, Active, Ended
    <2> QED
      BY <1>8, <2>1 DEF BodyFaithful
  <1>9. CASE \/ Dedup(c) /\ pc'[c] # "closing"
             \/ Rollback(c) \/ CloseRun(c) \/ LoseArchive(c)
    <2>1. pc'[c] \in {"done", "failed", "lost"}
      BY <1>9, Typing DEF Dedup, Rollback, CloseRun, LoseArchive, Exit, Goto
    <2> QED
      BY <2>1 DEF BodyFaithful
  <1> QED
    BY <1>1, <1>2, <1>3, <1>4, <1>5, <1>6, <1>7, <1>8, <1>9 DEF Step

LEMMA OneAtATimeStep ==
    ASSUME IInv, Books, OneAtATime, NEW c \in Commands, Step(c)
    PROVE  OneAtATime'
  <1> SUFFICES ASSUME ~overlapped'
               PROVE  Alone' /\ \A d \in Commands : Active(d)' => Undisturbed(d)'
    BY DEF OneAtATime
  <1>1. /\ ~overlapped /\ Alone'
        /\ \A d \in Commands : d # c => ~Active(d)'
    BY AloneStep DEF OneAtATime
  <1>2. Active(c) => Undisturbed(c)
    BY <1>1 DEF OneAtATime
  <1>3. Fresh(c)'
    BY <1>2, FreshStep DEF Undisturbed, Books
  <1>4. SeenCurrent(c)'
    BY <1>2, SeenCurrentStep DEF Undisturbed
  <1>5. WritesFit(c)'
    BY <1>2, WritesFitStep DEF Undisturbed, Books
  <1>6. BodyFaithful(c)'
    BY <1>2, BodyFaithfulStep DEF Undisturbed, Books
  <1>7. Undisturbed(c)'
    BY <1>3, <1>4, <1>5, <1>6 DEF Undisturbed
  <1> QED
    BY <1>1, <1>7

\* The rows a lone command leaves alone, or only links, say what they said.
LEMMA LoneCommit ==
    ASSUME IInv, NEW c \in Commands, Active(c) => WritesFit(c), Step(c)
    PROVE  \A k \in Keys :
              /\ row[k] # NoRow /\ row[k].superseded # NoKey =>
                    row'[k].superseded = row[k].superseded
              /\ ~(Commit(c) /\ k = cmd[c].key) =>
                    /\ row'[k].fact = row[k].fact
                    /\ row'[k].retracted = row[k].retracted
  <1>1. CASE Commit(c)
    <2>1. WritesFit(c)
      BY <1>1 DEF Commit, Active, Ended
    <2> QED
      BY <1>1, <2>1 DEF Commit, WritesFit
  <1>2. CASE ~Commit(c)
    <2>1. row' = row
      BY <1>2 DEF Step, Begin, Load, Check, Insert, Update, UpdateNothing,
                  Stamp, Retract, StampRetraction, Rollback, Dedup, CloseRun,
                  LoseArchive, database
    <2> QED
      BY <2>1
  <1> QED
    BY <1>1, <1>2

\* A lone command's flush names the row it committed.
LEMMA LoneFlush ==
    ASSUME IInv, NEW c \in Commands, Active(c) => Undisturbed(c), CloseRun(c)
    PROVE  /\ Active(c) /\ row' = row
           /\ latest' = [latest EXCEPT ![cmd[c].key] = pending[c]]
           /\ Names(pending[c].body, row[cmd[c].key])
  <1>1. pc[c] = "closing" /\ Active(c) /\ row' = row
    BY DEF CloseRun, Active, Ended, database
  <1>2. cmd[c].key \in Keys /\ pending[c] # NothingPending
    BY <1>1, Typing DEF TypeOK
  <1>3. latest[cmd[c].key].at < pending[c].at
    BY <1>1, <1>2 DEF Undisturbed, Fresh
  <1>4. latest' = [latest EXCEPT ![cmd[c].key] = pending[c]]
    BY <1>3 DEF CloseRun
  <1> QED
    BY <1>1, <1>4 DEF Undisturbed, BodyFaithful

LEMMA NewestStep ==
    ASSUME IInv, Books, OneAtATime, NewestNamesRow, NEW c \in Commands, Step(c)
    PROVE  NewestNamesRow'
  <1>0. \A k \in Keys : writer'[k] \in Commands \cup {NoCommand}
    <2>1. TypeOK'
      BY Typing, TypeStep
    <2> QED
      BY <2>1 DEF TypeOK
  <1> SUFFICES ASSUME ~overlapped',
                      NEW k \in Keys, NEW w \in Commands \ {NoCommand},
                      writer'[k] = w, pc'[w] = "done"
               PROVE  latest'[k].body = [fact |-> row'[k].fact,
                                         retracted |-> row'[k].retracted]
    BY <1>0 DEF NewestNamesRow
  <1>1. /\ ~overlapped
        /\ Active(c) => Undisturbed(c)
    BY AloneStep DEF OneAtATime
  <1>2. CASE CloseRun(c) /\ k = cmd[c].key
    BY <1>1, <1>2, LoneFlush, Typing DEF Names
  <1>3. \/ latest'[k] = latest[k]
        \/ CloseRun(c) /\ k = cmd[c].key
    BY StepBooks, Typing
  <1>4. CASE w # c /\ latest'[k] = latest[k]
    <2>1. pc[w] = "done"
      BY <1>4, Typing, OthersFrame
    <2>2. writer'[k] = writer[k] /\ ~(Commit(c) /\ k = cmd[c].key)
      <3>1. CASE Commit(c)
        <4>1. /\ writer' = [writer EXCEPT ![cmd[c].key] = c]
              /\ writer \in [Keys -> Commands \cup {NoCommand}]
          BY <3>1, Typing DEF Commit, TypeOK
        <4>2. k # cmd[c].key
          BY <1>4, <4>1
        <4> QED
          BY <4>1, <4>2
      <3>2. CASE ~Commit(c)
        BY <3>2 DEF Step, Begin, Load, Check, Insert, Update, UpdateNothing,
           Stamp, Retract, StampRetraction, Rollback, Dedup, CloseRun,
           LoseArchive, database
      <3> QED
        BY <3>1, <3>2
    <2>3. latest[k].body = [fact |-> row[k].fact, retracted |-> row[k].retracted]
      BY <1>1, <2>1, <2>2 DEF NewestNamesRow
    <2>4. row'[k].fact = row[k].fact /\ row'[k].retracted = row[k].retracted
      BY <1>1, <2>2, LoneCommit DEF Undisturbed
    <2> QED
      BY <1>4, <2>3, <2>4
  <1>5. CASE w = c
    <2>1. Dedup(c) \/ CloseRun(c)
      <3>1. CASE (\E ask \in Asks : Begin(c, ask)) \/ Load(c) \/ Check(c)
        BY <1>5, <3>1, Typing DEF Begin, Load, Check, Goto
      <3>2. CASE Insert(c) \/ Update(c) \/ UpdateNothing(c)
        BY <1>5, <3>2, Typing DEF Insert, Update, UpdateNothing, Goto, AfterWrite
      <3>3. CASE Stamp(c) \/ Retract(c) \/ StampRetraction(c) \/ Commit(c)
        BY <1>5, <3>3, Typing DEF Stamp, Retract, StampRetraction, Commit, Goto
      <3>4. CASE Rollback(c) \/ LoseArchive(c)
        BY <1>5, <3>4, Typing DEF Rollback, LoseArchive, Exit, Goto
      <3> QED
        BY <3>1, <3>2, <3>3, <3>4 DEF Step
    <2>2. /\ writer' = writer /\ row' = row
          /\ pc[c] \in {"committed", "closing"} /\ Active(c)
      BY <2>1 DEF Dedup, CloseRun, AfterCommit, database, Active, Ended
    <2>3. cmd[c].key = k
      BY <1>5, <2>2 DEF Books, WritersCommitted, WriterOf
    <2>4. CASE Dedup(c)
      <3>1. pc[c] = "committed" /\ IsNewest(k, pending[c].body) /\ latest' = latest
        BY <1>5, <2>3, <2>4, Typing DEF Dedup, AfterCommit, Goto, archive
      <3>2. Names(pending[c].body, row[k])
        BY <1>1, <2>2, <2>3, <3>1 DEF Undisturbed, BodyFaithful
      <3> QED
        BY <2>2, <3>1, <3>2 DEF IsNewest, Names
    <2> QED
      BY <1>2, <2>1, <2>3, <2>4
  <1> QED
    BY <1>2, <1>3, <1>4, <1>5

\* An index that says retracted is of a row that is: a lone flush then says
\* the same, and moves no link.
LEMMA LoneActions ==
    ASSUME IInv, Books, OneAtATime, NEW c \in Commands, Step(c), ~overlapped',
           NEW k \in Keys
    PROVE  /\ latest[k].body # NoBody /\ latest[k].body.retracted =>
                 latest'[k].body.retracted
           /\ row[k] # NoRow /\ row[k].superseded # NoKey =>
                 row'[k].superseded = row[k].superseded
  <1>1. Active(c) => Undisturbed(c)
    BY AloneStep DEF OneAtATime
  <1>2. \/ latest'[k] = latest[k]
        \/ CloseRun(c) /\ k = cmd[c].key
    BY StepBooks, Typing
  <1>3. ASSUME CloseRun(c), k = cmd[c].key, latest[k].body # NoBody,
               latest[k].body.retracted
        PROVE  latest'[k].body.retracted
    <2>1. [key |-> k, body |-> latest[k].body, at |-> latest[k].at] \in archived
      BY <1>3, Typing DEF Books, IndexArchived, NeverArchived
    <2>2. row[k].retracted
      BY <1>3, <2>1 DEF IInv, ArchiveFollowsRows
    <2>3. latest'[k] = pending[c] /\ Names(pending[c].body, row[k])
      BY <1>1, <1>3, LoneFlush, Typing
    <2> QED
      BY <2>2, <2>3 DEF Names
  <1>4. row[k] # NoRow /\ row[k].superseded # NoKey =>
           row'[k].superseded = row[k].superseded
    BY <1>1, LoneCommit DEF Undisturbed
  <1> QED
    BY <1>2, <1>3, <1>4

AInv == IInv /\ Books /\ OneAtATime /\ NewestNamesRow

LEMMA InitAlone == Init => AInv
  <1> SUFFICES ASSUME Init PROVE AInv
    OBVIOUS
  <1>1. IInv
    BY InitInv
  <1>2. Books
    BY DEF Init, Books, LocksLate, Locks, ClockLeads, NothingPending,
           NeverArchived, IndexArchived, WritersCommitted
  <1>3. OneAtATime /\ NewestNamesRow
    BY DEF Init, OneAtATime, Alone, Active, NewestNamesRow
  <1> QED
    BY <1>1, <1>2, <1>3 DEF AInv

LEMMA AloneInvStep == AInv /\ [Next]_vars => AInv'
  <1> SUFFICES ASSUME AInv, [Next]_vars PROVE AInv'
    OBVIOUS
  <1>1. IInv'
    BY InvStep DEF AInv
  <1>2. CASE UNCHANGED vars
    <2>1. Books'
      BY <1>2 DEF vars, AInv, Books, LocksLate, Locks, ClockLeads,
         IndexArchived, WritersCommitted, WriterOf, Active
    <2>2. OneAtATime'
      <3>1. ASSUME NEW c \in Commands, Undisturbed(c) PROVE Undisturbed(c)'
        <4>1. Fresh(c)' /\ SeenCurrent(c)'
          BY <1>2, <3>1 DEF vars, Undisturbed, Fresh, SeenCurrent, Correctable,
                            Recordable
        <4>2. BodyFaithful(c)'
          BY <1>2, <3>1 DEF vars, Undisturbed, BodyFaithful, Names, Outcome, Locks
        <4>3. WritesFit(c)'
          BY <1>2, <3>1 DEF vars, Undisturbed, WritesFit, Locks
        <4> QED
          BY <4>1, <4>2, <4>3 DEF Undisturbed
      <3> QED
        BY <1>2, <3>1 DEF vars, AInv, OneAtATime, Alone, Active
    <2>3. NewestNamesRow'
      BY <1>2 DEF vars, AInv, NewestNamesRow
    <2> QED
      BY <1>1, <2>1, <2>2, <2>3 DEF AInv
  <1>3. ASSUME NEW c \in Commands, Step(c) PROVE AInv'
    <2>1. IInv /\ Books /\ OneAtATime /\ NewestNamesRow
      BY DEF AInv
    <2>2. Books'
      BY <1>3, <2>1, LocksLateStep, ClockStep, IndexStep, WritersStep DEF Books
    <2>3. OneAtATime' /\ NewestNamesRow'
      BY <1>3, <2>1, OneAtATimeStep, NewestStep
    <2> QED
      BY <1>1, <2>2, <2>3 DEF AInv
  <1> QED
    BY <1>2, <1>3 DEF Next

-----------------------------------------------------------------------------
\* While commands do not overlap, a command whose archive landed leaves its
\* key's newest body naming the row, however many flushes before it were lost:
\* the recovery that raw.py:109 prescribes works.
THEOREM RecoveryWorks == Spec => []NewestNamesRow
  <1>1. AInv => NewestNamesRow
    BY DEF AInv
  <1> QED
    BY <1>1, InitAlone, AloneInvStep, PTL DEF Spec

\* While commands do not overlap, no flush puts a body that stands over the
\* retraction of its event.
THEOREM RetractionStays == Spec => RetractionStands
  <1>1. AInv /\ [Next]_vars =>
           [~overlapped' => \A k \in Keys :
               latest[k].body # NoBody /\ latest[k].body.retracted =>
                   latest'[k].body.retracted]_vars
    <2> SUFFICES ASSUME AInv, NEW c \in Commands, Step(c), ~overlapped',
                        NEW k \in Keys,
                        latest[k].body # NoBody, latest[k].body.retracted
                 PROVE  latest'[k].body.retracted
      BY DEF Next
    <2> QED
      BY LoneActions DEF AInv
  <1> QED
    BY <1>1, InitAlone, AloneInvStep, PTL DEF Spec, RetractionStands

\* While commands do not overlap, the link of a corrected row never moves to
\* another correction, so none is orphaned (store.py:199).
THEOREM LinksStay == Spec => LinksNeverRestamped
  <1>1. AInv /\ [Next]_vars =>
           [~overlapped' => \A k \in Keys :
               row[k] # NoRow /\ row[k].superseded # NoKey =>
                   row'[k].superseded = row[k].superseded]_vars
    <2> SUFFICES ASSUME AInv, NEW c \in Commands, Step(c), ~overlapped',
                        NEW k \in Keys, row[k] # NoRow, row[k].superseded # NoKey
                 PROVE  row'[k].superseded = row[k].superseded
      BY DEF Next
    <2> QED
      BY LoneActions DEF AInv
  <1> QED
    BY <1>1, InitAlone, AloneInvStep, PTL DEF Spec, LinksNeverRestamped

=============================================================================
