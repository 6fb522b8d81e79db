------------------------- MODULE Operations_proofs --------------------------
(***************************************************************************)
(* Proofs about what runs the system, of the migrate unit and of the       *)
(* nightly chain, which MCOperations explores side by side.                *)
(*   - Migrations, for any tables with rows and any number of              *)
(*     transactions: what the chain of revisions does to databases         *)
(*     without rows is computed (RevisionsFit, UpgradesKeepTables). The    *)
(*     lemmas carry it to any other: neither rows nor grants change what   *)
(*     a step does to the catalog or whether the catalog can take it;      *)
(*     rows can only have a step refused, and then the transaction leaves  *)
(*     nothing.                                                            *)
(*   - NightlyChain, for any number of harvests, probes and nights: what   *)
(*     a night nobody was mailed about has done, what a partial build and  *)
(*     a rehearsal never reach, and what the ledger's ok stands for. The   *)
(*     invariant says how far the night is and that, unless a stage was    *)
(*     counted, every stage behind it has done its work on what the one    *)
(*     before it left.                                                     *)
(***************************************************************************)
EXTENDS Migrations, NightlyChain, WellFoundedInduction, TLAPS

-----------------------------------------------------------------------------
(***************************************************************************)
(* The migrations.                                                         *)
(***************************************************************************)

\* A set that holds 0 and every successor of its numbers holds all of them.
LEMMA SetInduction ==
    ASSUME NEW S, 0 \in S, \A n \in Nat : n \in S => n + 1 \in S
    PROVE  Nat \subseteq S
<1> DEFINE Smaller == OpToRel(<, Nat)
<1>1. IsWellFoundedOn(Smaller, Nat)
  BY NatLessThanWellFounded
<1>2. \A m, n \in Nat : <<n, m>> \in Smaller <=> n < m
  BY DEF OpToRel
<1> HIDE DEF Smaller
<1>3. SUFFICES ASSUME NEW Rest \in SUBSET Nat, Rest = Nat \ S, Rest # {} PROVE FALSE
  OBVIOUS
<1>4. PICK m \in Rest : \A n \in Rest : ~(<<n, m>> \in Smaller)
  BY <1>1, <1>3, WFMin
<1>5. m \in Nat /\ m \notin S /\ m # 0
  BY <1>3
<1>6. m - 1 \in Nat /\ m - 1 < m /\ (m - 1) + 1 = m
  BY <1>5
<1>7. m - 1 \in S
  BY <1>2, <1>3, <1>4, <1>5, <1>6
<1> QED BY <1>5, <1>6, <1>7

-----------------------------------------------------------------------------
(* One step.                                                                *)

\* Two databases a reader of the catalog cannot tell apart.
Alike(d, b) == IsDatabase(d) /\ IsDatabase(b) /\ Shape(d) = Shape(b)

LEMMA AlikeParts ==
    ASSUME NEW d, NEW b, Alike(d, b)
    PROVE  /\ d.schemas = b.schemas /\ d.home = b.home /\ d.columns = b.columns
           /\ d.refs = b.refs /\ d.keys = b.keys
BY DEF Alike, Shape

LEMMA AlikeViews ==
    ASSUME NEW d, NEW b, Alike(d, b)
    PROVE  /\ Tables(d) = Tables(b) /\ Keyed(d) = Keyed(b)
           /\ \A s : InSchema(d, s) = InSchema(b, s)
           /\ \A T : Dependants(d, T) = Dependants(b, T)
BY AlikeParts DEF Tables, Keyed, InSchema, Dependants

\* Whether the catalog can take a step is the catalog's affair.
LEMMA MisfitsAlike ==
    ASSUME NEW d, NEW b, Alike(d, b), NEW step
    PROVE  Misfits(d, step) = Misfits(b, step)
<1> DEFINE tables == Tables(d)
           keyed == Keyed(d)
<1>1. /\ tables = Tables(b) /\ keyed = Keyed(b)
      /\ InSchema(d, step.schema) = InSchema(b, step.schema)
      /\ \A T : Dependants(d, T) = Dependants(b, T)
  BY AlikeViews
<1>2. /\ d.schemas = b.schemas /\ d.home = b.home /\ d.columns = b.columns
      /\ d.refs = b.refs /\ d.keys = b.keys
  BY AlikeParts
<1> QED BY <1>1, <1>2 DEF Misfits

\* Dropping tables is the same for both, and takes rows of no other table.
LEMMA WithoutAlike ==
    ASSUME NEW d, NEW b, Alike(d, b), NEW T
    PROVE  /\ Alike(Without(d, T), Without(b, T))
           /\ Without(d, T).error = d.error
           /\ Without(d, T).held = d.held \ T /\ Without(d, T).odd = d.odd \ T
           /\ Tables(Without(d, T)) = Tables(d) \ T
<1>1. IsDatabase(Without(d, T)) /\ IsDatabase(Without(b, T))
  BY DEF Alike, IsDatabase, Without, EmptyDatabase
<1>2. Shape(Without(d, T)) = Shape(Without(b, T))
  BY AlikeParts DEF Alike, IsDatabase, EmptyDatabase, Without, Shape, Tables
<1>3. /\ Without(d, T).error = d.error
      /\ Without(d, T).held = d.held \ T /\ Without(d, T).odd = d.odd \ T
      /\ Tables(Without(d, T)) = Tables(d) \ T
  BY DEF Alike, IsDatabase, EmptyDatabase, Without, Tables
<1> QED BY <1>1, <1>2, <1>3 DEF Alike

\* All but columns, foreign keys and keys is as it was.
Untouched(D, d) ==
  /\ IsDatabase(D) /\ D.schemas = d.schemas /\ D.home = d.home
  /\ D.held = d.held /\ D.odd = d.odd /\ D.error = d.error

LEMMA CatalogAlike ==
    ASSUME NEW d, NEW b, Alike(d, b), NEW D, NEW B, Untouched(D, d), Untouched(B, b),
           D.columns = B.columns, D.refs = B.refs, D.keys = B.keys
    PROVE  /\ Alike(D, B) /\ D.error = d.error /\ D.held = d.held /\ D.odd = d.odd
           /\ Tables(D) = Tables(d)
BY AlikeParts DEF Alike, Untouched, Shape, Tables

\* What a step does to the catalog it does to both; the rows it takes are
\* those of tables it removes, and it adds none.
LEMMA EffectAlike ==
    ASSUME NEW d, NEW b, Alike(d, b), NEW step, ~Misfits(d, step)
    PROVE  /\ Alike(Effect(d, step), Effect(b, step))
           /\ Effect(d, step).error = d.error
           /\ Effect(d, step).held \subseteq d.held /\ Effect(d, step).odd \subseteq d.odd
           /\ d.odd \subseteq d.held => Effect(d, step).odd \subseteq Effect(d, step).held
           /\ d.held \ Effect(d, step).held \subseteq Tables(d) \ Tables(Effect(d, step))
<1>0. /\ d.schemas = b.schemas /\ d.home = b.home /\ d.columns = b.columns
      /\ d.refs = b.refs /\ d.keys = b.keys
  BY AlikeParts
<1>a. /\ d = [part \in DOMAIN EmptyDatabase |-> d[part]]
      /\ b = [part \in DOMAIN EmptyDatabase |-> b[part]]
  BY DEF Alike, IsDatabase
<1>b. DOMAIN EmptyDatabase = {"schemas", "home", "columns", "refs", "keys", "held", "odd",
                              "granted", "usage", "defaults", "error"}
  BY DEF EmptyDatabase
<1>1. CASE step.do = "create schema"
  BY <1>0, <1>1 DEF Effect, Alike, IsDatabase, EmptyDatabase, Shape, Tables
<1>2. CASE step.do = "drop schema"
  <2> DEFINE left(e) == Without(e, InSchema(e, step.schema))
             rest(e) == [left(e) EXCEPT !.schemas = @ \ {step.schema}, !.usage = @ \ {step.schema},
                                        !.defaults = @ \ {step.schema}]
  <2>1. Effect(d, step) = rest(d) /\ Effect(b, step) = rest(b)
    BY <1>2 DEF Effect
  <2>2. /\ Alike(left(d), left(b)) /\ left(d).error = d.error
        /\ left(d).held = d.held \ InSchema(d, step.schema)
        /\ left(d).odd = d.odd \ InSchema(d, step.schema)
        /\ Tables(left(d)) = Tables(d) \ InSchema(d, step.schema)
    BY WithoutAlike, AlikeViews
  <2> HIDE DEF left
  <2>3. left(d).schemas = left(b).schemas /\ left(d).home = left(b).home
        /\ left(d).columns = left(b).columns /\ left(d).refs = left(b).refs
        /\ left(d).keys = left(b).keys
    BY <2>2, AlikeParts
  <2>4. IsDatabase(rest(d)) /\ IsDatabase(rest(b))
    BY <2>2 DEF Alike, IsDatabase, EmptyDatabase
  <2>5. Shape(rest(d)) = Shape(rest(b)) /\ Tables(rest(d)) = Tables(left(d))
    BY <2>2, <2>3 DEF Alike, IsDatabase, EmptyDatabase, Shape, Tables
  <2>6. rest(d).error = d.error /\ rest(d).held = left(d).held /\ rest(d).odd = left(d).odd
    BY <2>2 DEF Alike, IsDatabase, EmptyDatabase
  <2>7. InSchema(d, step.schema) \subseteq Tables(d)
    BY DEF InSchema
  <2> HIDE DEF rest
  <2> QED BY <2>1, <2>2, <2>4, <2>5, <2>6, <2>7 DEF Alike
<1>3. CASE step.do = "set schema"
  <2>1. step.table \in Tables(d)
    BY <1>3 DEF Misfits
  <2> QED BY <1>0, <1>3, <2>1 DEF Effect, Alike, IsDatabase, EmptyDatabase, Shape, Tables
<1>4. CASE step.do = "create"
  <2>1. Effect(d, step) = With(d, step) /\ Effect(b, step) = With(b, step)
    BY <1>4 DEF Effect
  <2>2. Tables(d) = Tables(b)
    BY AlikeViews
  <2>3. /\ IsDatabase(With(d, step)) /\ IsDatabase(With(b, step))
        /\ Shape(With(d, step)) = Shape(With(b, step))
    BY <1>0, <2>2 DEF With, Alike, IsDatabase, EmptyDatabase, Shape
  <2>4. /\ With(d, step).error = d.error /\ With(d, step).held = d.held
        /\ With(d, step).odd = d.odd
    BY DEF With, Alike, IsDatabase, EmptyDatabase
  <2> QED BY <2>1, <2>3, <2>4 DEF Alike
<1>5. CASE step.do = "drop"
  <2>1. Effect(d, step) = Without(d, {step.table}) /\ Effect(b, step) = Without(b, {step.table})
    BY <1>5 DEF Effect
  <2>2. step.table \in Tables(d)
    BY <1>5 DEF Misfits
  <2> QED BY <2>1, <2>2, WithoutAlike
<1>6. CASE step.do \in {"add columns", "require"}
  <2> DEFINE after(columns) == columns \cup step.on
  <2>1. /\ Effect(d, step) = [d EXCEPT !.columns = after(d.columns)]
        /\ Effect(b, step) = [b EXCEPT !.columns = after(b.columns)]
    BY <1>6 DEF Effect
  <2> HIDE DEF after
  <2>2. Untouched(Effect(d, step), d) /\ Untouched(Effect(b, step), b)
    BY <1>a, <1>b, <2>1 DEF Untouched, IsDatabase
  <2>3. /\ Effect(d, step).columns = Effect(b, step).columns
        /\ Effect(d, step).refs = Effect(b, step).refs
        /\ Effect(d, step).keys = Effect(b, step).keys
    BY <1>a, <1>b, <1>0, <2>1
  <2> QED BY <2>2, <2>3, CatalogAlike
<1>7. CASE step.do = "drop columns"
  <2> DEFINE left(set) == set \ step.on
             spared(keys) == {key \in keys : \A c \in key[3] : <<key[1], c>> \notin step.on}
  <2>1. /\ Effect(d, step) = [d EXCEPT !.columns = left(d.columns), !.refs = left(d.refs),
                                       !.keys = spared(d.keys)]
        /\ Effect(b, step) = [b EXCEPT !.columns = left(b.columns), !.refs = left(b.refs),
                                       !.keys = spared(b.keys)]
    BY <1>7 DEF Effect
  <2> HIDE DEF left, spared
  <2>2. Untouched(Effect(d, step), d) /\ Untouched(Effect(b, step), b)
    BY <1>a, <1>b, <2>1 DEF Untouched, IsDatabase
  <2>3. Effect(d, step).columns = left(d.columns) /\ Effect(b, step).columns = left(b.columns)
    BY <1>a, <1>b, <2>1
  <2>4. Effect(d, step).refs = left(d.refs) /\ Effect(b, step).refs = left(b.refs)
    BY <1>a, <1>b, <2>1
  <2>5. Effect(d, step).keys = spared(d.keys) /\ Effect(b, step).keys = spared(b.keys)
    BY <1>a, <1>b, <2>1
  <2>6. /\ Effect(d, step).columns = Effect(b, step).columns
        /\ Effect(d, step).refs = Effect(b, step).refs
        /\ Effect(d, step).keys = Effect(b, step).keys
    BY <1>0, <2>3, <2>4, <2>5
  <2> QED BY <2>2, <2>6, CatalogAlike
<1>8. CASE step.do = "rename"
  <2>1. /\ Effect(d, step) = [d EXCEPT !.columns = Renamed(d.columns, step.on, step.new)]
        /\ Effect(b, step) = [b EXCEPT !.columns = Renamed(b.columns, step.on, step.new)]
    BY <1>8 DEF Effect
  <2>2. Untouched(Effect(d, step), d) /\ Untouched(Effect(b, step), b)
    BY <1>a, <1>b, <2>1 DEF Untouched, IsDatabase
  <2>3. /\ Effect(d, step).columns = Effect(b, step).columns
        /\ Effect(d, step).refs = Effect(b, step).refs
        /\ Effect(d, step).keys = Effect(b, step).keys
    BY <1>a, <1>b, <1>0, <2>1
  <2> QED BY <2>2, <2>3, CatalogAlike
<1>9. CASE step.do = "add refs" \/ step.do = "drop refs"
  <2> DEFINE after(refs) == IF step.do = "add refs" THEN refs \cup step.on ELSE refs \ step.on
  <2>1. /\ Effect(d, step) = [d EXCEPT !.refs = after(d.refs)]
        /\ Effect(b, step) = [b EXCEPT !.refs = after(b.refs)]
    BY <1>9 DEF Effect
  <2> HIDE DEF after
  <2>2. Untouched(Effect(d, step), d) /\ Untouched(Effect(b, step), b)
    BY <1>a, <1>b, <2>1 DEF Untouched, IsDatabase
  <2>3. /\ Effect(d, step).columns = Effect(b, step).columns
        /\ Effect(d, step).refs = Effect(b, step).refs
        /\ Effect(d, step).keys = Effect(b, step).keys
    BY <1>a, <1>b, <1>0, <2>1
  <2> QED BY <2>2, <2>3, CatalogAlike
<1>10. CASE step.do = "add keys" \/ step.do = "drop keys"
  <2> DEFINE added(keys) == keys \cup {<<c[1], c[2], step.columns>> : c \in step.on}
             spared(keys) == {key \in keys : <<key[1], key[2]>> \notin step.on}
             after(keys) == IF step.do = "add keys" THEN added(keys) ELSE spared(keys)
  <2>1. /\ Effect(d, step) = [d EXCEPT !.keys = after(d.keys)]
        /\ Effect(b, step) = [b EXCEPT !.keys = after(b.keys)]
    <3>1. CASE step.do = "add keys"
      BY <3>1 DEF Effect
    <3>2. CASE step.do = "drop keys"
      BY <3>2 DEF Effect
    <3> QED BY <1>10, <3>1, <3>2
  <2> HIDE DEF after
  <2>2. Untouched(Effect(d, step), d) /\ Untouched(Effect(b, step), b)
    BY <1>a, <1>b, <2>1 DEF Untouched, IsDatabase
  <2>3. /\ Effect(d, step).columns = Effect(b, step).columns
        /\ Effect(d, step).refs = Effect(b, step).refs
        /\ Effect(d, step).keys = Effect(b, step).keys
    BY <1>a, <1>b, <1>0, <2>1
  <2> QED BY <2>2, <2>3, CatalogAlike
<1>11. CASE step.do = "rewrite"
  BY <1>0, <1>11 DEF Effect, Alike, IsDatabase, EmptyDatabase, Shape, Tables
<1>12. CASE step.do \notin {"create schema", "drop schema", "set schema", "create", "drop",
                           "add columns", "require", "drop columns", "rename", "add refs",
                           "drop refs", "add keys", "drop keys", "rewrite"}
  BY <1>12 DEF Effect
<1> QED BY <1>1, <1>2, <1>3, <1>4, <1>5, <1>6, <1>7, <1>8, <1>9, <1>10, <1>11, <1>12

\* A database beside the one without rows that took the same steps: alike, or
\* stopped by its rows.
Follows(d, b) == \/ Alike(d, b) /\ d.error = "none"
                 \/ IsDatabase(d) /\ d.error = "rows"

LEMMA BlankStays ==
    ASSUME NEW b, Blank(b), NEW step, Apply(b, step).error = "none"
    PROVE  Blank(Apply(b, step)) /\ ~Misfits(b, step) /\ Apply(b, step) = Effect(b, step)
<1>1. ~Misfits(b, step)
  BY DEF Blank, Apply, IsDatabase, EmptyDatabase
<1>2. ~RowsRefuse(b, step)
  BY DEF Blank, RowsRefuse
<1>3. Apply(b, step) = Effect(b, step)
  BY <1>1, <1>2 DEF Apply, Blank
<1>4. Alike(b, b)
  BY DEF Alike, Blank
<1> QED BY <1>1, <1>3, <1>4, EffectAlike DEF Blank, Alike

\* A step the catalog takes without rows it takes with them, or they refuse it.
LEMMA ApplyFollows ==
    ASSUME NEW d, NEW b, Follows(d, b), Blank(b), NEW step, Apply(b, step).error = "none"
    PROVE  /\ Follows(Apply(d, step), Apply(b, step))
           /\ Apply(d, step).error = "none" =>
                 /\ d.error = "none"
                 /\ d.held \ Apply(d, step).held \subseteq Tables(b) \ Tables(Apply(b, step))
<1>1. Blank(Apply(b, step)) /\ ~Misfits(b, step) /\ Apply(b, step) = Effect(b, step)
  BY BlankStays
<1>2. CASE d.error = "rows"
  BY <1>2 DEF Apply, Follows
<1>3. CASE d.error = "none"
  <2>1. Alike(d, b) /\ ~Misfits(d, step)
    BY <1>1, <1>3, MisfitsAlike DEF Follows
  <2>2. CASE RowsRefuse(d, step)
    <3>1. Apply(d, step) = [d EXCEPT !.error = "rows"]
      BY <1>3, <2>1, <2>2 DEF Apply
    <3> QED BY <2>1, <3>1 DEF Follows, Alike, IsDatabase, EmptyDatabase
  <2>3. CASE ~RowsRefuse(d, step)
    <3>1. Apply(d, step) = Effect(d, step)
      BY <1>3, <2>1, <2>3 DEF Apply
    <3>2. Tables(d) = Tables(b) /\ Tables(Effect(d, step)) = Tables(Effect(b, step))
      BY <2>1, EffectAlike, AlikeViews
    <3> QED BY <1>1, <1>3, <2>1, <3>1, <3>2, EffectAlike DEF Follows
  <2> QED BY <2>2, <2>3
<1> QED BY <1>2, <1>3 DEF Follows

-----------------------------------------------------------------------------
(* The steps of a revision.                                                 *)

Unfolded(g, d, steps, n) ==
    g = [k \in 0..n |-> IF k = 0 THEN d ELSE Apply(g[k - 1], steps[k])]

\* The recursion of Applied has a solution.
LEMMA AppliedExists ==
    ASSUME NEW d, NEW steps, Len(steps) \in Nat
    PROVE  Unfolded(Applied(d, steps), d, steps, Len(steps))
<1> DEFINE Solved == {n \in Nat : \E g : Unfolded(g, d, steps, n)}
<1>1. 0 \in Solved
  <2>1. Unfolded([k \in 0..0 |-> d], d, steps, 0)
    BY DEF Unfolded
  <2> QED BY <2>1
<1>2. ASSUME NEW n \in Nat, n \in Solved PROVE n + 1 \in Solved
  <2>1. PICK g : Unfolded(g, d, steps, n)
    BY <1>2
  <2> DEFINE h == [k \in 0..(n + 1) |-> IF k = n + 1 THEN Apply(g[n], steps[n + 1]) ELSE g[k]]
  <2>2. ASSUME NEW k \in 0..(n + 1)
        PROVE  h[k] = IF k = 0 THEN d ELSE Apply(h[k - 1], steps[k])
    <3>1. CASE k = n + 1
      <4>1. k # 0 /\ k - 1 = n /\ n \in 0..(n + 1) /\ n # n + 1
        BY <3>1
      <4>2. h[n] = g[n] /\ h[k] = Apply(g[n], steps[n + 1])
        BY <3>1, <4>1
      <4> QED BY <3>1, <4>1, <4>2
    <3>2. CASE k # n + 1
      <4>1. k \in 0..n /\ (k # 0 => k - 1 \in 0..(n + 1) /\ k - 1 # n + 1)
        BY <3>2
      <4>2. g[k] = IF k = 0 THEN d ELSE Apply(g[k - 1], steps[k])
        BY <2>1, <4>1 DEF Unfolded
      <4> QED BY <3>2, <4>1, <4>2
    <3> QED BY <3>1, <3>2
  <2>3. Unfolded(h, d, steps, n + 1)
    BY <2>2 DEF Unfolded
  <2> QED BY <2>3
<1> HIDE DEF Solved
<1>3. Nat \subseteq Solved
  BY <1>1, <1>2, SetInduction
<1>4. PICK g : Unfolded(g, d, steps, Len(steps))
  BY <1>3 DEF Solved
<1> DEFINE f == CHOOSE f : f = [n \in 0..Len(steps) |->
                                  IF n = 0 THEN d ELSE Apply(f[n - 1], steps[n])]
<1>5. Applied(d, steps) = f
  BY Zenon DEF Applied
<1>6. f = [n \in 0..Len(steps) |-> IF n = 0 THEN d ELSE Apply(f[n - 1], steps[n])]
  <2>1. g = [n \in 0..Len(steps) |-> IF n = 0 THEN d ELSE Apply(g[n - 1], steps[n])]
    BY <1>4 DEF Unfolded
  <2> QED BY <2>1, Zenon
<1> HIDE DEF f
<1> QED BY <1>5, <1>6 DEF Unfolded

LEMMA AppliedSteps ==
    ASSUME NEW d, NEW steps, Len(steps) \in Nat
    PROVE  /\ Applied(d, steps)[0] = d
           /\ \A n \in 1..Len(steps) :
                Applied(d, steps)[n] = Apply(Applied(d, steps)[n - 1], steps[n])
<1>1. Unfolded(Applied(d, steps), d, steps, Len(steps))
  BY AppliedExists
<1>2. ASSUME NEW n \in 0..Len(steps)
      PROVE  Applied(d, steps)[n] =
               IF n = 0 THEN d ELSE Apply(Applied(d, steps)[n - 1], steps[n])
  BY <1>1 DEF Unfolded
<1> QED BY <1>2

\* What a database without rows goes through, every other one goes through
\* beside it, to the end or until its rows refuse a step.
LEMMA RevisionFollows ==
    ASSUME NEW d, NEW b, Alike(d, b), d.error = "none", Blank(b),
           NEW steps, Len(steps) \in Nat, ApplyAll(b, steps).error = "none"
    PROVE  /\ Follows(ApplyAll(d, steps), ApplyAll(b, steps))
           /\ ApplyAll(d, steps).error = "none" =>
                \A t \in d.held \ ApplyAll(d, steps).held : \E i \in 1..Len(steps) :
                   t \in Tables(Applied(b, steps)[i - 1]) \ Tables(Applied(b, steps)[i])
<1> DEFINE N == Len(steps)
           F == Applied(d, steps)
           B == Applied(b, steps)
           Lost(n) == \A t \in d.held \ F[n].held : \E i \in 1..n :
                        t \in Tables(B[i - 1]) \ Tables(B[i])
           Good == {n \in Nat : n <= N /\ B[n].error = "none" =>
                      /\ Blank(B[n]) /\ Follows(F[n], B[n])
                      /\ F[n].error = "none" => Lost(n)}
<1>1. /\ F[0] = d /\ B[0] = b
      /\ \A n \in 1..N : F[n] = Apply(F[n - 1], steps[n]) /\ B[n] = Apply(B[n - 1], steps[n])
  BY AppliedSteps
<1>2. 0 \in Good
  BY <1>1 DEF Follows
<1>3. ASSUME NEW n \in Nat, n \in Good PROVE n + 1 \in Good
  <2> SUFFICES ASSUME n + 1 <= N, B[n + 1].error = "none"
               PROVE  /\ Blank(B[n + 1]) /\ Follows(F[n + 1], B[n + 1])
                      /\ F[n + 1].error = "none" => Lost(n + 1)
    OBVIOUS
  <2>1. F[n + 1] = Apply(F[n], steps[n + 1]) /\ B[n + 1] = Apply(B[n], steps[n + 1])
    <3>1. n + 1 \in 1..N /\ (n + 1) - 1 = n
      OBVIOUS
    <3> HIDE DEF F, B, N
    <3> QED BY <1>1, <3>1
  <2>6. n <= N
    OBVIOUS
  <2> HIDE DEF F, B, N
  <2>2. B[n].error = "none"
    BY <2>1 DEF Apply
  <2>3. Blank(B[n]) /\ Follows(F[n], B[n]) /\ (F[n].error = "none" => Lost(n))
    BY <1>3, <2>2, <2>6
  <2>4. Blank(B[n + 1]) /\ Follows(F[n + 1], B[n + 1])
    BY <2>1, <2>3, BlankStays, ApplyFollows
  <2>5. ASSUME F[n + 1].error = "none", NEW t \in d.held \ F[n + 1].held
        PROVE  \E i \in 1..(n + 1) : t \in Tables(B[i - 1]) \ Tables(B[i])
    <3>1. /\ F[n].error = "none"
          /\ F[n].held \ F[n + 1].held \subseteq Tables(B[n]) \ Tables(B[n + 1])
      BY <2>1, <2>3, <2>5, ApplyFollows
    <3>2. CASE t \in F[n].held
      <4>1. n + 1 \in 1..(n + 1) /\ (n + 1) - 1 = n
        OBVIOUS
      <4> QED BY <2>5, <3>1, <3>2, <4>1
    <3>3. CASE t \notin F[n].held
      <4>1. PICK i \in 1..n : t \in Tables(B[i - 1]) \ Tables(B[i])
        BY <2>3, <2>5, <3>1, <3>3
      <4> QED BY <4>1
    <3> QED BY <3>2, <3>3
  <2> QED BY <2>4, <2>5
<1>4. Nat \subseteq Good
  <2> HIDE DEF Good
  <2> QED BY <1>2, <1>3, SetInduction
<1>5. ApplyAll(d, steps) = F[N] /\ ApplyAll(b, steps) = B[N]
  BY DEF ApplyAll
<1> QED BY <1>4, <1>5

\* No step of a revision adds a row, or leaves an odd one that is not there.
LEMMA RevisionRows ==
    ASSUME NEW d, IsDatabase(d), d.odd \subseteq d.held, NEW steps, Len(steps) \in Nat
    PROVE  /\ ApplyAll(d, steps).held \subseteq d.held
           /\ ApplyAll(d, steps).odd \subseteq ApplyAll(d, steps).held
<1> DEFINE N == Len(steps)
           F == Applied(d, steps)
           RowsFit(e) == IsDatabase(e) /\ e.held \subseteq d.held /\ e.odd \subseteq e.held
           Good == {n \in Nat : n <= N => RowsFit(F[n])}
<1>1. F[0] = d /\ \A n \in 1..N : F[n] = Apply(F[n - 1], steps[n])
  BY AppliedSteps
<1>2. ASSUME NEW e, RowsFit(e), NEW step PROVE RowsFit(Apply(e, step))
  <2>1. Alike(e, e)
    BY <1>2 DEF Alike
  <2>2. CASE Apply(e, step) = Effect(e, step) /\ ~Misfits(e, step)
    <3>1. /\ IsDatabase(Effect(e, step)) /\ Effect(e, step).held \subseteq e.held
          /\ Effect(e, step).odd \subseteq Effect(e, step).held
      BY <1>2, <2>1, <2>2, EffectAlike DEF Alike
    <3> QED BY <1>2, <2>2, <3>1
  <2>3. CASE Apply(e, step) = e
    BY <1>2, <2>3
  <2>4. CASE \E error : Apply(e, step) = [e EXCEPT !.error = error]
    BY <1>2, <2>4 DEF IsDatabase, EmptyDatabase
  <2> QED BY <2>2, <2>3, <2>4 DEF Apply
<1>3. 0 \in Good
  BY <1>1
<1>4. ASSUME NEW n \in Nat, n \in Good PROVE n + 1 \in Good
  <2> SUFFICES ASSUME n + 1 <= N PROVE RowsFit(F[n + 1])
    OBVIOUS
  <2>1. n + 1 \in 1..N /\ (n + 1) - 1 = n /\ RowsFit(F[n])
    BY <1>4
  <2> HIDE DEF F, N, RowsFit
  <2> QED BY <1>1, <1>2, <2>1
<1>5. Nat \subseteq Good
  <2> HIDE DEF Good
  <2> QED BY <1>3, <1>4, SetInduction
<1> QED BY <1>5 DEF ApplyAll

-----------------------------------------------------------------------------
(* The migrate unit.                                                        *)

\* A revision up from n or back to it, on any database alike to Straight[n + 1].
LEMMA UpgradeFollows ==
    ASSUME NEW n \in 0..Latest, n < Latest, NEW d, Alike(d, Straight[n + 1]), d.error = "none"
    PROVE  LET up == ApplyAll(d, Chain[n + 1].up) IN
           /\ Follows(up, Straight[n + 2])
           /\ up.error = "none" => d.held \cap Attested \subseteq up.held
<1> DEFINE steps == Chain[n + 1].up
           b == Straight[n + 1]
           B == Applied(b, steps)
<1>1. n + 1 \in 1..Latest /\ n + 1 \in 0..Latest /\ (n + 1) + 1 = n + 2
  BY RevisionsFit
<1>2. Blank(b) /\ Len(steps) \in Nat /\ ApplyAll(b, steps) = Straight[n + 2]
  BY <1>1, RevisionsFit
<1>3. ApplyAll(b, steps).error = "none"
  <2>1. Blank(Straight[(n + 1) + 1])
    BY <1>1, RevisionsFit
  <2> QED BY <1>1, <1>2, <2>1 DEF Blank
<1>4. \A i \in 1..Len(steps) : Attested \cap Tables(B[i - 1]) \subseteq Tables(B[i])
  BY <1>1, UpgradesKeepTables
<1>5. Alike(d, b)
  OBVIOUS
<1> HIDE DEF steps, b
<1>6. /\ Follows(ApplyAll(d, steps), ApplyAll(b, steps))
      /\ ApplyAll(d, steps).error = "none" =>
           \A t \in d.held \ ApplyAll(d, steps).held : \E i \in 1..Len(steps) :
              t \in Tables(B[i - 1]) \ Tables(B[i])
  BY <1>2, <1>3, <1>5, RevisionFollows
<1>7. ApplyAll(d, steps).error = "none" => d.held \cap Attested \subseteq ApplyAll(d, steps).held
  <2> HIDE DEF B
  <2> SUFFICES ASSUME ApplyAll(d, steps).error = "none", NEW t \in d.held, t \in Attested,
                      t \notin ApplyAll(d, steps).held
               PROVE  FALSE
    OBVIOUS
  <2>1. PICK i \in 1..Len(steps) : t \in Tables(B[i - 1]) \ Tables(B[i])
    BY <1>6
  <2> QED BY <1>4, <2>1
<1> QED BY <1>2, <1>6, <1>7 DEF steps

LEMMA DowngradeFollows ==
    ASSUME NEW n \in 1..Latest, NEW d, Alike(d, Straight[n + 1]), d.error = "none"
    PROVE  \/ /\ Alike(ApplyAll(d, Chain[n].down), Straight[n])
              /\ ApplyAll(d, Chain[n].down).error = "none"
           \/ /\ IsDatabase(ApplyAll(d, Chain[n].down))
              /\ ApplyAll(d, Chain[n].down).error = "rows"
<1> DEFINE steps == Chain[n].down
           b == Straight[n + 1]
<1>1. /\ Blank(b) /\ Len(steps) \in Nat /\ ApplyAll(b, steps).error = "none"
      /\ Shape(ApplyAll(b, steps)) = Shape(Straight[n])
  BY RevisionsFit
<1>2. IsDatabase(Straight[n])
  <2>1. n - 1 \in 0..Latest /\ (n - 1) + 1 = n
    BY RevisionsFit
  <2> QED BY <2>1, RevisionsFit DEF Blank
<1> HIDE DEF steps, b
<1>3. Follows(ApplyAll(d, steps), ApplyAll(b, steps))
  BY <1>1, RevisionFollows DEF b
<1> QED BY <1>1, <1>2, <1>3 DEF Follows, Alike, steps

\* A transaction: a schema of the chain, unless rows have refused a step; what
\* was attested when it began, if it goes up.
TxFits ==
    tx # NoTx =>
      /\ tx = [way |-> tx.way, at |-> tx.at, db |-> tx.db]
      /\ tx.at \in 0..Latest /\ unit \notin {"granting", "done"}
      /\ Follows(tx.db, Straight[tx.at + 1])
      /\ \/ /\ tx.way = "up" /\ at <= tx.at
            /\ tx.db.error = "none" => db.held \cap Attested \subseteq tx.db.held
         \/ tx.way = "down" /\ tx.at <= at /\ (tx.at = at => tx.db = db)

Served(d) == \A t \in Tables(d) : t \in d.granted /\ d.home[t] \in d.usage

\* The committed database is one of the chain's, whatever its rows and grants.
MigrationInv ==
    /\ at \in 0..Latest /\ Alike(db, Straight[at + 1]) /\ db.error = "none"
    /\ unit = "granting" => at = Latest
    /\ unit = "done" => Served(db)
    /\ TxFits

LEMMA GrantsAlike ==
    ASSUME NEW d, NEW b, Alike(d, b)
    PROVE  /\ Alike(WithGrants(d), b) /\ WithGrants(d).error = d.error
           /\ WithGrants(d).held = d.held
           /\ (\A t \in Tables(b) : b.home[t] \in GrantedSchemas) => Served(WithGrants(d))
<1>0. d.home = b.home /\ Tables(d) = Tables(b)
  BY AlikeParts, AlikeViews
<1>1. IsDatabase(WithGrants(d)) /\ WithGrants(d).error = d.error /\ WithGrants(d).held = d.held
  BY DEF Alike, IsDatabase, EmptyDatabase, WithGrants
<1>2. /\ Shape(WithGrants(d)) = Shape(d)
      /\ WithGrants(d).home = d.home /\ WithGrants(d).usage = d.usage \cup GrantedSchemas
      /\ WithGrants(d).granted = d.granted \cup {t \in Tables(d) : d.home[t] \in GrantedSchemas}
  BY DEF Alike, IsDatabase, EmptyDatabase, WithGrants, Shape
<1>3. Tables(WithGrants(d)) = Tables(d)
  BY <1>2 DEF Tables
<1> QED BY <1>0, <1>1, <1>2, <1>3 DEF Alike, Served

LEMMA MigrationInit == Init => MigrationInv
<1> SUFFICES ASSUME Init PROVE MigrationInv
  OBVIOUS
<1>1. at \in 0..Latest /\ Blank(Straight[at + 1])
  BY RevisionsFit DEF Init
<1>2. Alike(Straight[at + 1], Straight[at + 1]) /\ Straight[at + 1].error = "none"
  BY <1>1 DEF Blank, Alike
<1>3. Alike(db, Straight[at + 1]) /\ db.error = "none"
  BY <1>2, GrantsAlike DEF Init
<1> QED BY <1>1, <1>3 DEF Init, MigrationInv, TxFits

LEMMA MigrationStep == MigrationInv /\ [Next]_vars => MigrationInv'
<1> SUFFICES ASSUME MigrationInv, [Next]_vars PROVE MigrationInv'
  OBVIOUS
<1>0. at \in 0..Latest /\ Latest \in Nat /\ Alike(db, Straight[at + 1]) /\ db.error = "none"
  BY RevisionsFit DEF MigrationInv
<1>1. ASSUME NEW way \in {"up", "down"}, Begin(way), unit' \in {"upgrading", "off"}
      PROVE  MigrationInv'
  <2>1. tx' = [way |-> way, at |-> at, db |-> db] /\ UNCHANGED <<at, db>>
    BY <1>1 DEF Begin
  <2>2. TxFits'
    BY <1>0, <1>1, <2>1 DEF TxFits, Follows
  <2> QED BY <1>0, <1>1, <2>1, <2>2 DEF MigrationInv
<1>2. CASE UpgradeOne
  <2> DEFINE up == ApplyAll(tx.db, Chain[tx.at + 1].up)
  <2>1. /\ tx # NoTx /\ tx.way = "up" /\ tx.at < Latest /\ tx.db.error = "none"
        /\ UNCHANGED <<at, db, unit>>
    BY <1>2 DEF UpgradeOne, NoTx
  <2>2. /\ tx.at \in 0..Latest /\ tx.at + 1 \in 0..Latest /\ Alike(tx.db, Straight[tx.at + 1])
        /\ tx = [way |-> tx.way, at |-> tx.at, db |-> tx.db]
        /\ at <= tx.at /\ db.held \cap Attested \subseteq tx.db.held
        /\ unit \notin {"granting", "done"}
    BY <1>0, <2>1 DEF MigrationInv, TxFits, Follows
  <2>3. /\ Follows(up, Straight[(tx.at + 1) + 1])
        /\ up.error = "none" => tx.db.held \cap Attested \subseteq up.held
    <3>1. (tx.at + 1) + 1 = tx.at + 2
      BY <2>2
    <3> QED BY <2>1, <2>2, <3>1, UpgradeFollows
  <2>4. tx' = [way |-> "up", at |-> tx.at + 1, db |-> up]
    BY <1>2, <2>1, <2>2 DEF UpgradeOne
  <2> HIDE DEF up
  <2>5. TxFits'
    BY <1>0, <2>1, <2>2, <2>3, <2>4 DEF TxFits
  <2> QED BY <1>0, <2>1, <2>2, <2>5 DEF MigrationInv
<1>3. CASE DowngradeOne
  <2> DEFINE down == ApplyAll(tx.db, Chain[tx.at].down)
  <2>1. /\ tx # NoTx /\ tx.way = "down" /\ tx.at > 0 /\ tx.db.error = "none"
        /\ UNCHANGED <<at, db, unit>>
    BY <1>3 DEF DowngradeOne, NoTx
  <2>2. /\ tx.at \in 1..Latest /\ tx.at - 1 \in 0..Latest /\ (tx.at - 1) + 1 = tx.at
        /\ Alike(tx.db, Straight[tx.at + 1]) /\ tx.at <= at
        /\ tx = [way |-> tx.way, at |-> tx.at, db |-> tx.db]
        /\ unit \notin {"granting", "done"}
    BY <1>0, <2>1 DEF MigrationInv, TxFits, Follows
  <2>3. Follows(down, Straight[tx.at])
    BY <2>1, <2>2, DowngradeFollows DEF Follows
  <2>4. tx' = [way |-> "down", at |-> tx.at - 1, db |-> down]
    BY <1>3, <2>1, <2>2 DEF DowngradeOne
  <2> HIDE DEF down
  <2>5. TxFits'
    BY <1>0, <2>1, <2>2, <2>3, <2>4 DEF TxFits
  <2> QED BY <1>0, <2>1, <2>2, <2>5 DEF MigrationInv
<1>4. CASE Commit
  <2>1. /\ tx # NoTx /\ tx.db.error = "none" /\ tx' = NoTx /\ at' = tx.at /\ db' = tx.db
        /\ tx.way = "up" => tx.at = Latest
        /\ unit' = IF tx.way = "up" THEN "granting" ELSE unit
    BY <1>4 DEF Commit
  <2>2. /\ tx.at \in 0..Latest /\ Alike(tx.db, Straight[tx.at + 1])
        /\ unit \notin {"granting", "done"}
    BY <2>1 DEF MigrationInv, TxFits, Follows
  <2> QED BY <2>1, <2>2 DEF MigrationInv, TxFits
<1>5. CASE Abort
  BY <1>0, <1>5 DEF Abort, MigrationInv, TxFits
<1>6. CASE Grant
  <2>1. tx = NoTx /\ at = Latest
    BY <1>6 DEF Grant, MigrationInv, TxFits
  <2>2. Alike(WithGrants(db), Straight[at + 1]) /\ WithGrants(db).error = "none"
        /\ Served(WithGrants(db))
    BY <1>0, <2>1, GrantsAlike, UpgradesKeepTables
  <2> QED BY <1>0, <1>6, <2>1, <2>2 DEF Grant, MigrationInv, TxFits
<1>7. CASE KilledBeforeGrants
  BY <1>0, <1>7 DEF KilledBeforeGrants, MigrationInv, TxFits
<1>8. ASSUME NEW t \in Held, Write(t) PROVE MigrationInv'
  <2>1. PICK odd : db' = [db EXCEPT !.held = @ \cup {t}, !.odd = @ \cup odd]
    BY <1>8 DEF Write
  <2>2. tx = NoTx /\ UNCHANGED <<at, tx, unit>>
    BY <1>8 DEF Write
  <2>3. /\ Alike(db', Straight[at + 1]) /\ db'.error = "none" /\ (Served(db) => Served(db'))
    BY <1>0, <2>1 DEF Alike, IsDatabase, EmptyDatabase, Shape, Served, Tables
  <2> QED BY <1>0, <2>2, <2>3 DEF MigrationInv, TxFits
<1>9. CASE UNCHANGED vars
  BY <1>9 DEF vars, MigrationInv, TxFits
<1>10. CASE BeginUpgrade
  BY <1>1, <1>10 DEF BeginUpgrade
<1>11. CASE BeginDowngrade
  BY <1>1, <1>11 DEF BeginDowngrade
<1> QED BY <1>2, <1>3, <1>4, <1>5, <1>6, <1>7, <1>8, <1>9, <1>10, <1>11 DEF Next

LEMMA MigrationInvHolds == Spec => []MigrationInv
BY MigrationInit, MigrationStep, PTL DEF Spec

\* The rows of the open transaction are rows of tables that are followed.
TxRows == tx # NoTx => tx.db.odd \subseteq tx.db.held /\ tx.db.held \subseteq Held

\* The unit's state is what its definitions say, for any tables with rows.
THEOREM MigrationsTypeCorrect == Spec => []TypeOK
<1>1. Init => TypeOK /\ TxRows
  <2> SUFFICES ASSUME Init PROVE TypeOK /\ TxRows
    OBVIOUS
  <2>1. MigrationInv /\ Blank(Straight[at + 1])
    BY MigrationInit, RevisionsFit DEF Init
  <2>2. db.held = {} /\ db.odd = {}
    BY <2>1 DEF Init, Blank, IsDatabase, EmptyDatabase, WithGrants
  <2> QED BY <2>1, <2>2, MovesAssumption DEF Init, TypeOK, TxRows, MigrationInv
<1>2. MigrationInv /\ TypeOK /\ TxRows /\ [Next]_vars => (TypeOK /\ TxRows)'
  <2> SUFFICES ASSUME MigrationInv, TypeOK, TxRows, [Next]_vars PROVE TypeOK' /\ TxRows'
    OBVIOUS
  <2>0. Latest \in Nat /\ MaxMoves \in Nat /\ IsDatabase(db) /\ MigrationInv'
    BY RevisionsFit, MovesAssumption, MigrationStep DEF MigrationInv, Alike
  <2>1. CASE BeginUpgrade \/ BeginDowngrade
    BY <2>0, <2>1 DEF BeginUpgrade, BeginDowngrade, Begin, TypeOK, TxRows
  <2>2. CASE UpgradeOne
    <3>0. /\ tx # NoTx /\ tx.at \in 0..Latest /\ tx.way = "up" /\ tx.at + 1 \in 0..Latest
          /\ tx = [way |-> tx.way, at |-> tx.at, db |-> tx.db]
          /\ Follows(tx.db, Straight[tx.at + 1])
      BY <2>0, <2>2 DEF UpgradeOne, MigrationInv, TxFits, NoTx
    <3>1. IsDatabase(tx.db) /\ Len(Chain[tx.at + 1].up) \in Nat
      BY <2>0, <2>2, <3>0, RevisionsFit DEF UpgradeOne, Follows, Alike
    <3>2. /\ tx' = [way |-> "up", at |-> tx.at + 1, db |-> ApplyAll(tx.db, Chain[tx.at + 1].up)]
          /\ tx.at + 1 \in 0..Latest /\ UNCHANGED <<at, db, unit, moves>>
      BY <2>2, <3>0 DEF UpgradeOne
    <3> QED BY <3>0, <3>1, <3>2, RevisionRows DEF TypeOK, TxRows
  <2>3. CASE DowngradeOne
    <3>0. /\ tx # NoTx /\ tx.at \in 0..Latest /\ tx.way = "down" /\ tx.at - 1 \in 0..Latest
          /\ tx = [way |-> tx.way, at |-> tx.at, db |-> tx.db]
          /\ Follows(tx.db, Straight[tx.at + 1])
      BY <2>0, <2>3 DEF DowngradeOne, MigrationInv, TxFits, NoTx
    <3>1. IsDatabase(tx.db) /\ Len(Chain[tx.at].down) \in Nat
      BY <2>0, <2>3, <3>0, RevisionsFit DEF DowngradeOne, Follows, Alike
    <3>2. /\ tx' = [way |-> "down", at |-> tx.at - 1, db |-> ApplyAll(tx.db, Chain[tx.at].down)]
          /\ tx.at - 1 \in 0..Latest /\ UNCHANGED <<at, db, unit, moves>>
      BY <2>3, <3>0 DEF DowngradeOne
    <3> QED BY <3>0, <3>1, <3>2, RevisionRows DEF TypeOK, TxRows
  <2>4. CASE Commit
    BY <2>0, <2>4 DEF Commit, TypeOK, TxRows, MigrationInv
  <2>5. CASE Abort \/ KilledBeforeGrants
    BY <2>0, <2>5 DEF Abort, KilledBeforeGrants, TypeOK, TxRows
  <2>6. CASE Grant
    <3>1. /\ WithGrants(db).held = db.held /\ WithGrants(db).odd = db.odd
          /\ WithGrants(db).error = db.error
      BY <2>0 DEF WithGrants, IsDatabase, EmptyDatabase
    <3> QED BY <2>0, <2>6, <3>1 DEF Grant, TypeOK, TxRows
  <2>7. ASSUME NEW t \in Held, Write(t) PROVE TypeOK' /\ TxRows'
    <3>1. PICK odd \in {{}} \cup {{t}} : db' = [db EXCEPT !.held = @ \cup {t}, !.odd = @ \cup odd]
      BY <2>7 DEF Write
    <3>2. /\ db'.held = db.held \cup {t} /\ db'.odd = db.odd \cup odd /\ db'.error = db.error
      BY <2>0, <3>1 DEF IsDatabase, EmptyDatabase
    <3> QED BY <2>7, <3>2 DEF Write, TypeOK, TxRows
  <2>8. CASE UNCHANGED vars
    BY <2>8 DEF vars, TypeOK, TxRows
  <2> QED BY <2>1, <2>2, <2>3, <2>4, <2>5, <2>6, <2>7, <2>8 DEF Next
<1> QED BY <1>1, <1>2, MigrationInvHolds, PTL DEF Spec

\* No revision, up or down, is ever stopped by the schema it meets: whatever
\* rows the tables hold, whoever granted what, however often the unit was
\* killed and wherever an operator took the chain back to.
THEOREM RevisionsAlwaysFit == Spec => []MigrationsFit
<1>1. MigrationInv => MigrationsFit
  BY DEF MigrationInv, MigrationsFit, TxFits, Follows, Standing
<1> QED BY <1>1, MigrationInvHolds, PTL

\* A revision's schema is the same whatever way and with whatever rows it was
\* reached, in the open transaction as in the committed database.
THEOREM SchemaIsOfRevision == Spec => []ChainReversible
<1>1. MigrationInv => ChainReversible
  BY DEF MigrationInv, ChainReversible, TxFits, Follows, Standing, Alike
<1> QED BY <1>1, MigrationInvHolds, PTL

\* An upgrade that commits keeps every attested row, of any tables.
THEOREM AttestedRowsSurvive == Spec => AttestedRowsKept
<1>1. MigrationInv /\ [Next]_vars =>
        [at' >= at => db.held \cap Attested \subseteq db'.held]_<<at, db>>
  <2> SUFFICES ASSUME MigrationInv, Next, at' >= at
               PROVE  db.held \cap Attested \subseteq db'.held
    BY DEF vars
  <2>1. CASE Commit
    <3>1. tx # NoTx /\ tx.db.error = "none" /\ at' = tx.at /\ db' = tx.db
      BY <2>1 DEF Commit
    <3> QED BY <3>1 DEF MigrationInv, TxFits
  <2>2. CASE Grant
    BY <2>2, GrantsAlike DEF Grant, MigrationInv
  <2>3. ASSUME NEW t \in Held, Write(t) PROVE db.held \subseteq db'.held
    BY <2>3 DEF Write, MigrationInv, Alike, IsDatabase, EmptyDatabase
  <2> QED BY <2>1, <2>2, <2>3 DEF Next, BeginUpgrade, BeginDowngrade, Begin, UpgradeOne,
             DowngradeOne, Abort, KilledBeforeGrants
<1> QED BY <1>1, MigrationInvHolds, PTL DEF Spec, AttestedRowsKept

\* When the unit has finished, every table is granted to the application.
THEOREM ApplicationAlwaysServed == Spec => []ApplicationServed
<1>1. MigrationInv => ApplicationServed
  BY DEF MigrationInv, ApplicationServed, Served
<1> QED BY <1>1, MigrationInvHolds, PTL

-----------------------------------------------------------------------------
(***************************************************************************)
(* The nightly chain.                                                      *)
(***************************************************************************)

USE ChainAssumption

AfterBuild == {"warnings", "registrar", "publish", "load", "seed", "probe", "report"}
AfterRegistrar == {"publish", "load", "seed", "probe", "report"}
AfterPublish == {"load", "seed", "probe", "report"}
AfterLoad == {"seed", "probe", "report"}
AfterSeed == {"probe", "report"}
OfTheChain == Jobs \cup {"build", "report"}

\* The job belongs to the stage, and a chain's job is never a dry run.
JobFits ==
    /\ job.step = "idle" => job = NoJob
    /\ job.step # "idle" =>
          \/ /\ stage \in Jobs /\ job.slug = stage /\ ~job.dry
             /\ job.files = (stage \in {"harvest", "publish"})
          \/ /\ stage = "by hand" /\ job.slug \in {"load", "seed", "adjudicate"}
             /\ ~job.files

\* How far its work is, by its step; a file's work waits for no commit.
WorkFits ==
    /\ job.step \in {"idle", "opening", "handling"} =>
          job.work = "nothing" /\ job.result = "failed"
    /\ job.work = "pending" => job.step = "ending" /\ ~job.files
    /\ job.result = "ok" /\ job.step = "ending" => job.work # "nothing" \/ AcceptedOutage
    /\ job.result = "ok" /\ job.step \in {"closing", "exited"} =>
          job.work = "landed" \/ job.dry \/ AcceptedOutage
    /\ job.step = "exited" /\ job.code = 0 => job.result = "ok"
    /\ job.row \in Outcomes => job.step = "exited" /\ job.row = job.result

\* A rehearsal's roots are its own, and it runs no writer and keeps no ledger.
EnvFits ==
    /\ rehearsing => /\ stage \in OfTheChain /\ Rehearsable(env)
                     /\ job.slug \notin Writers /\ ~job.recorded /\ job.row = "none"
    /\ ~rehearsing => env = Production(env.ledger)

\* Work that has landed shows, as long as its job is there.
LandedShows == job.work = "landed" => Written = made

\* What the stages behind this one have done, unless one was counted.
NightSoFar ==
    stage \in OfTheChain /\ ~rehearsing =>
        /\ verdict = "none"
        /\ stage \in AfterBuild => made.build = made.raw
        /\ ~counted =>
              /\ \A h \in (1..Harvests) \ Accepted :
                    (stage = "harvest" => h < turn) => made.raw[h] = night
              /\ stage \in AfterRegistrar => made.registry = made.build
              /\ stage \in AfterPublish => made.catalog = made.build
              /\ stage \in AfterLoad => made.served = made.catalog
              /\ stage \in AfterSeed => made.seeded = night

TurnFits == /\ turn \in Nat \ {0}
            /\ stage = "harvest" => turn <= Harvests

IInv == /\ ChainType /\ TurnFits /\ JobFits /\ WorkFits /\ EnvFits
        /\ LandedShows /\ NightSoFar /\ WholeBuildsOnly /\ QuietMeansFresh

-----------------------------------------------------------------------------
(* What a job writes.                                                      *)

LEMMA PartialIsNone == Partial \notin Wires /\ NoWires \in Wires
<1>1. 1 \in 1..Harvests
  OBVIOUS
<1>2. DOMAIN Partial = {} /\ \A w \in Wires : DOMAIN w = 1..Harvests
  BY DEF Partial, Wires
<1>3. NoWires \in Wires
  BY DEF NoWires, Wires
<1> QED BY <1>1, <1>2, <1>3

\* One field of what production holds changes, and never to a partial build.
LEMMA WrittenFacts ==
  ASSUME ChainType, TurnFits, JobFits, EnvFits, NightSoFar, WholeBuildsOnly,
         job.step # "idle"
  PROVE  /\ Written \in Holdings
         /\ Partial \notin {Written.registry, Written.catalog, Written.served}
         /\ rehearsing => Written = made
         /\ Written.build = made.build
         /\ job.slug # "harvest" => Written.raw = made.raw
         /\ \A h \in 1..Harvests : h # turn => Written.raw[h] = made.raw[h]
         /\ job.slug # "registrar" => Written.registry = made.registry
         /\ job.slug # "publish" => Written.catalog = made.catalog
         /\ job.slug # "load" => Written.served = made.served
         /\ job.slug # "seed" => Written.seeded = made.seeded
<1> USE DEF ChainType
<1>1. made \in Holdings /\ night \in 0..MaxNights
  OBVIOUS
<1>2. job.slug \in Jobs \cup {"adjudicate"}
  BY DEF JobFits, Jobs
<1>3. rehearsing => WritesTo(job.slug) # "production" \/ job.slug \in {"warnings", "probe"}
  <2> SUFFICES ASSUME rehearsing PROVE WritesTo(job.slug) # "production" \/ job.slug \in {"warnings", "probe"}
    OBVIOUS
  <2>1. stage \in OfTheChain /\ Rehearsable(env) /\ job.slug \notin Writers
    BY DEF EnvFits
  <2>2. stage # "by hand"
    BY <2>1 DEF OfTheChain, Jobs
  <2>3. job.slug \in {"harvest", "publish", "warnings", "probe"}
    BY <2>1, <2>2 DEF JobFits, Jobs, Writers
  <2> QED BY <2>1, <2>3 DEF WritesTo, Rehearsable, Roots
<1>4. CASE Written = made
  BY <1>1, <1>4 DEF WholeBuildsOnly, Holdings
<1>5. CASE Written # made
  <2>1. WritesTo(job.slug) = "production" /\ ~rehearsing
    BY <1>3, <1>5 DEF Written
  <2>2. job.slug \in {"harvest", "registrar", "publish", "load", "seed"}
    BY <2>1, <1>2, <1>5 DEF Written, Jobs
  <2>3. job.slug \in {"registrar", "publish"} => made.build \in Wires
    BY <1>1, <2>1 DEF NightSoFar, JobFits, AfterBuild, OfTheChain, Jobs, Holdings
  <2>4. CASE job.slug = "harvest"
    <3>1. Written = [made EXCEPT !.raw[turn] = night]
      BY <2>1, <2>4 DEF Written
    <3>2. turn \in 1..Harvests
      BY <2>4 DEF JobFits, TurnFits
    <3>3. [made.raw EXCEPT ![turn] = night] \in Wires
      BY <1>1, <3>2 DEF Holdings, Wires
    <3>4. \A h \in 1..Harvests : h # turn => [made.raw EXCEPT ![turn] = night][h] = made.raw[h]
      BY <1>1 DEF Holdings, Wires
    <3>5. Written = [made EXCEPT !.raw = [made.raw EXCEPT ![turn] = night]]
      BY <1>1, <3>1 DEF Holdings
    <3> QED BY <1>1, <2>1, <2>4, <3>3, <3>4, <3>5 DEF Holdings, WholeBuildsOnly
  <2>5. CASE job.slug = "registrar"
    <3>1. Written = [made EXCEPT !.registry = made.build]
      BY <2>1, <2>5 DEF Written
    <3> QED BY <1>1, <2>1, <2>3, <2>5, <3>1, PartialIsNone DEF Holdings, WholeBuildsOnly
  <2>6. CASE job.slug = "publish"
    <3>1. Written = [made EXCEPT !.catalog = made.build]
      BY <2>1, <2>6 DEF Written
    <3> QED BY <1>1, <2>1, <2>3, <2>6, <3>1, PartialIsNone DEF Holdings, WholeBuildsOnly
  <2>7. CASE job.slug = "load"
    <3>1. Written = [made EXCEPT !.served = made.catalog]
      BY <2>1, <2>7 DEF Written
    <3> QED BY <1>1, <2>1, <2>7, <3>1 DEF Holdings, WholeBuildsOnly
  <2>8. CASE job.slug = "seed"
    <3>1. Written = [made EXCEPT !.seeded = night]
      BY <2>1, <2>8 DEF Written
    <3> QED BY <1>1, <2>1, <2>8, <3>1 DEF Holdings, WholeBuildsOnly
  <2> QED BY <2>2, <2>4, <2>5, <2>6, <2>7, <2>8
<1> QED BY <1>4, <1>5

-----------------------------------------------------------------------------
(* The steps of a job.                                                     *)

JobMoves == \/ OpenRow \/ Returns \/ \E did \in BOOLEAN : HandlerRaises(did)
            \/ job.slug = "adjudicate" /\ HandlerExits
            \/ RollBack \/ CommitWork \/ CommitFails \/ CloseRow

\* A step keeps the job what it is; its work goes forward and, once landed,
\* stays; an ok is carried by work alone.
LEMMA JobMovesWell ==
  ASSUME JobType, WorkFits, JobMoves, UNCHANGED <<turn>>
  PROVE  /\ JobType' /\ job.step # "idle" /\ job'.step # "idle"
         /\ job'.slug = job.slug /\ job'.dry = job.dry /\ job'.files = job.files
         /\ job'.recorded = job.recorded
         /\ WorkFits'
         /\ job.work = "landed" => job'.work = "landed"
         /\ ~job.recorded /\ job.row = "none" => job'.row = "none"
<1> USE DEF JobType, Steps, Works, Rows, Outcomes, WorkFits, AcceptedOutage, ConfigError
<1>1. CASE OpenRow
  <2>1. PICK row \in {"none"} \cup (IF job.recorded THEN {"open"} ELSE {}) :
           job' = [job EXCEPT !.step = "handling", !.row = row]
    BY <1>1 DEF OpenRow
  <2>2. row \in {"none", "open"} /\ (~job.recorded => row = "none")
    OBVIOUS
  <2>3. job.step = "opening"
    BY <1>1 DEF OpenRow
  <2>4. JobType'
    BY <2>1, <2>2
  <2>5. WorkFits'
    BY <2>1, <2>2, <2>3
  <2> QED BY <2>1, <2>2, <2>3, <2>4, <2>5
<1>2. CASE Returns
  <2>1. PICK outcome \in Outcomes, did \in BOOLEAN :
           /\ outcome = "ok" => did \/ AcceptedOutage
           /\ HandlerReturns(outcome, did)
    BY <1>2 DEF Returns
  <2> QED BY <2>1 DEF HandlerReturns, Done
<1>3. CASE \E did \in BOOLEAN : HandlerRaises(did)
  BY <1>3 DEF HandlerRaises
<1>4. CASE HandlerExits
  <2>1. job.step = "handling" /\ job' = [job EXCEPT !.step = "exited", !.code = 1]
    BY <1>4 DEF HandlerExits
  <2>2. JobType'
    BY <2>1
  <2>3. WorkFits'
    BY <2>1
  <2> QED BY <2>1, <2>2, <2>3
<1>5. CASE RollBack
  BY <1>5 DEF RollBack, Settled
<1>6. CASE CommitWork
  BY <1>6 DEF CommitWork, Settled
<1>7. CASE CommitFails
  BY <1>7 DEF CommitFails, Settled
<1>8. CASE CloseRow
  <2>1. PICK written \in BOOLEAN :
           job' = [job EXCEPT !.step = "exited", !.code = ExitCode(job.result),
                              !.row = IF job.recorded /\ written THEN job.result ELSE @]
    BY <1>8 DEF CloseRow
  <2> DEFINE row == IF job.recorded /\ written THEN job.result ELSE job.row
             code == ExitCode(job.result)
  <2>2. row \in {job.result, job.row} /\ (~job.recorded => row = job.row)
    OBVIOUS
  <2>3. code \in {0, 1, 4} /\ (code = 0 => job.result = "ok")
    BY DEF ExitCode
  <2>4. job' = [job EXCEPT !.step = "exited", !.code = code, !.row = row]
    BY <2>1
  <2> HIDE DEF row, code
  <2>5. job.step = "closing"
    BY <1>8 DEF CloseRow
  <2>6. JobType'
    BY <2>2, <2>3, <2>4
  <2>7. WorkFits'
    BY <2>2, <2>3, <2>4, <2>5
  <2> QED BY <2>2, <2>4, <2>5, <2>6, <2>7
<1> QED BY <1>1, <1>2, <1>3, <1>4, <1>5, <1>6, <1>7, <1>8 DEF JobMoves

\* Writing twice is writing once: the work of a job shows after it has landed.
LEMMA WrittenAgain ==
  ASSUME made \in Holdings, turn \in Nat, made' = Written,
         job'.slug = job.slug, UNCHANGED <<turn, night, env>>
  PROVE  Written' = made'
<1>1. WritesTo(job.slug)' = WritesTo(job.slug)
  BY DEF WritesTo
<1>2. CASE WritesTo(job.slug) # "production"
  BY <1>1, <1>2 DEF Written
<1>3. CASE WritesTo(job.slug) = "production"
  <2>1. CASE job.slug = "harvest"
    <3>1. Written = [made EXCEPT !.raw[turn] = night] /\ Written' = [made' EXCEPT !.raw[turn] = night]
      BY <1>1, <1>3, <2>1 DEF Written
    <3>2. made'.raw = [made.raw EXCEPT ![turn] = night] /\ made.raw \in Wires
      BY <3>1 DEF Holdings
    <3>3. [made'.raw EXCEPT ![turn] = night] = made'.raw
      BY <3>2 DEF Wires
    <3>4. made' = [made EXCEPT !.raw = made'.raw] /\ Written' = [made' EXCEPT !.raw = made'.raw]
      BY <3>1, <3>2, <3>3 DEF Holdings
    <3> QED BY <3>4 DEF Holdings
  <2>2. CASE job.slug = "registrar"
    <3>1. made' = [made EXCEPT !.registry = made.build] /\ Written' = [made' EXCEPT !.registry = made'.build]
      BY <1>1, <1>3, <2>2 DEF Written
    <3> QED BY <3>1 DEF Holdings
  <2>3. CASE job.slug = "publish"
    <3>1. made' = [made EXCEPT !.catalog = made.build] /\ Written' = [made' EXCEPT !.catalog = made'.build]
      BY <1>1, <1>3, <2>3 DEF Written
    <3> QED BY <3>1 DEF Holdings
  <2>4. CASE job.slug = "load"
    <3>1. made' = [made EXCEPT !.served = made.catalog] /\ Written' = [made' EXCEPT !.served = made'.catalog]
      BY <1>1, <1>3, <2>4 DEF Written
    <3> QED BY <3>1 DEF Holdings
  <2>5. CASE job.slug = "seed"
    <3>1. made' = [made EXCEPT !.seeded = night] /\ Written' = [made' EXCEPT !.seeded = night]
      BY <1>1, <1>3, <2>5 DEF Written
    <3> QED BY <3>1 DEF Holdings
  <2>6. CASE job.slug \notin {"harvest", "registrar", "publish", "load", "seed"}
    BY <2>6 DEF Written
  <2> QED BY <2>1, <2>2, <2>3, <2>4, <2>5, <2>6
<1> QED BY <1>2, <1>3

LEMMA JobStepKeeps == IInv /\ JobStep => IInv'
<1> SUFFICES ASSUME IInv, JobStep PROVE IInv'
  OBVIOUS
<1>1. /\ JobMoves /\ Lasting
      /\ UNCHANGED <<night, rehearsals, stage, turn, counted, rehearsing, env, verdict>>
  BY DEF JobStep, JobMoves
<1>2. /\ JobType' /\ job.step # "idle" /\ job'.step # "idle"
      /\ job'.slug = job.slug /\ job'.dry = job.dry /\ job'.files = job.files
      /\ job'.recorded = job.recorded
      /\ WorkFits'
      /\ job.work = "landed" => job'.work = "landed"
      /\ ~job.recorded /\ job.row = "none" => job'.row = "none"
  BY <1>1, JobMovesWell DEF IInv, ChainType
<1>3. /\ Written \in Holdings
      /\ Partial \notin {Written.registry, Written.catalog, Written.served}
      /\ rehearsing => Written = made
      /\ Written.build = made.build
      /\ job.slug # "harvest" => Written.raw = made.raw
      /\ \A h \in 1..Harvests : h # turn => Written.raw[h] = made.raw[h]
      /\ job.slug # "registrar" => Written.registry = made.registry
      /\ job.slug # "publish" => Written.catalog = made.catalog
      /\ job.slug # "load" => Written.served = made.served
      /\ job.slug # "seed" => Written.seeded = made.seeded
  BY <1>2, WrittenFacts DEF IInv
<1>4. made' = made \/ made' = Written
  BY <1>1 DEF Lasting
<1>5. ChainType'
  BY <1>1, <1>2, <1>3, <1>4 DEF IInv, ChainType
<1>6. TurnFits'
  BY <1>1 DEF IInv, TurnFits
<1>7. JobFits'
  BY <1>1, <1>2 DEF IInv, JobFits
<1>8. EnvFits'
  BY <1>1, <1>2 DEF IInv, EnvFits, Rehearsable
<1>9. LandedShows'
  <2>1. CASE Lands
    BY <1>1, <1>2, <2>1, WrittenAgain DEF Lasting, LandedShows, IInv, ChainType, TurnFits
  <2>2. CASE ~Lands
    <3>1. made' = made
      BY <1>1, <2>2 DEF Lasting
    <3>2. Written' = Written
      BY <1>1, <1>2, <3>1 DEF Written, WritesTo
    <3> QED BY <2>2, <3>1, <3>2 DEF LandedShows, IInv, Lands
  <2> QED BY <2>1, <2>2
<1>10. NightSoFar'
  <2> SUFFICES ASSUME stage \in OfTheChain, ~rehearsing PROVE NightSoFar'
    BY <1>1 DEF NightSoFar
  <2>1. stage \in Jobs /\ job.slug = stage
    BY <1>2 DEF IInv, JobFits, OfTheChain, Jobs
  <2>2. stage \in AfterBuild => stage # "harvest"
    BY DEF AfterBuild
  <2>3. /\ stage \in AfterRegistrar => stage \notin {"harvest", "registrar"}
        /\ stage \in AfterPublish => stage \notin {"harvest", "registrar", "publish"}
        /\ stage \in AfterLoad => stage \notin {"harvest", "registrar", "publish", "load"}
        /\ stage \in AfterSeed => stage \notin {"harvest", "registrar", "publish", "load", "seed"}
    BY DEF AfterRegistrar, AfterPublish, AfterLoad, AfterSeed
  <2>4. \A h \in 1..Harvests : (stage = "harvest" => h < turn) => made'.raw[h] = made.raw[h]
    BY <1>3, <1>4, <2>1 DEF IInv, TurnFits
  <2>5. /\ verdict = "none" /\ stage \in AfterBuild => made'.build = made'.raw
    BY <1>3, <1>4, <2>1, <2>2 DEF IInv, NightSoFar
  <2>6. ASSUME ~counted
        PROVE  /\ \A h \in (1..Harvests) \ Accepted :
                     (stage = "harvest" => h < turn) => made'.raw[h] = night
               /\ stage \in AfterRegistrar => made'.registry = made'.build
               /\ stage \in AfterPublish => made'.catalog = made'.build
               /\ stage \in AfterLoad => made'.served = made'.catalog
               /\ stage \in AfterSeed => made'.seeded = night
    BY <1>3, <1>4, <2>1, <2>3, <2>4, <2>6 DEF IInv, NightSoFar
  <2>7. verdict = "none"
    BY DEF IInv, NightSoFar
  <2> QED BY <1>1, <2>5, <2>6, <2>7 DEF NightSoFar
<1>11. WholeBuildsOnly'
  BY <1>3, <1>4 DEF IInv, WholeBuildsOnly
<1>12. QuietMeansFresh'
  <2> SUFFICES ASSUME verdict = "quiet" PROVE QuietMeansFresh'
    BY <1>1 DEF QuietMeansFresh
  <2>1. CASE rehearsing
    BY <1>1, <1>3, <1>4, <2>1 DEF IInv, QuietMeansFresh
  <2>2. CASE ~rehearsing
    <3>1. job.slug \in {"load", "seed", "adjudicate"}
      BY <1>2, <2>2 DEF IInv, NightSoFar, JobFits, OfTheChain
    <3>2. /\ job.slug = "load" => Written = made
          /\ job.slug = "seed" => Written = made
      <4>1. made.served = made.catalog /\ made.seeded = night /\ made \in Holdings
        BY DEF IInv, QuietMeansFresh, ChainType
      <4> QED BY <4>1 DEF Written, Holdings
    <3>3. job.slug = "adjudicate" => Written = made
      BY DEF Written
    <3>4. made' = made
      BY <1>4, <3>1, <3>2, <3>3
    <3> QED BY <1>1, <3>4 DEF IInv, QuietMeansFresh
  <2> QED BY <2>1, <2>2
<1> QED BY <1>2, <1>5, <1>6, <1>7, <1>8, <1>9, <1>10, <1>11, <1>12 DEF IInv

-----------------------------------------------------------------------------
(* The steps of the script.                                                *)

\* Between two jobs there is none.
LEMMA AtRest ==
  ASSUME IInv, stage \in {"idle", "build", "report"}
  PROVE  job = NoJob
BY DEF IInv, JobFits, Jobs

LEMMA Bounds == /\ 1 \in Nat \ {0} /\ 1 <= Harvests /\ 0 \in 0..MaxNights
                /\ \A n \in 0..MaxNights : n < MaxNights => n + 1 \in 0..MaxNights
OBVIOUS

LEMMA NoJobFits == /\ NoJob \in [step : Steps, slug : Slugs, dry : BOOLEAN, files : BOOLEAN,
                                 recorded : BOOLEAN, row : Rows, result : Outcomes,
                                 work : Works, code : {0, 1, ConfigError, 4}]
                   /\ NoJob.step = "idle" /\ NoJob.slug \notin Writers /\ ~NoJob.recorded
                   /\ NoJob.row = "none" /\ NoJob.work = "nothing" /\ NoJob.result = "failed"
BY DEF NoJob, Steps, Slugs, Rows, Outcomes, Works, ConfigError, Writers

\* A step that ends with no job at hand has nothing to show for one.
LEMMA NoJobKeeps ==
  ASSUME job' = NoJob
  PROVE  JobType' /\ JobFits' /\ WorkFits' /\ LandedShows'
<1>1. JobType'
  BY NoJobFits DEF JobType
<1>2. WorkFits'
  BY NoJobFits DEF WorkFits, Outcomes
<1> QED BY <1>1, <1>2, NoJobFits DEF JobFits, LandedShows

LEMMA ProductionIsEnv == \A ledger \in BOOLEAN : Production(ledger) \in Envs
BY DEF Production, Envs, Places

LEMMA InitHolds == ChainInit => IInv
<1> SUFFICES ASSUME ChainInit PROVE IInv
  OBVIOUS
<1>1. JobType /\ JobFits /\ WorkFits /\ LandedShows
  <2>1. JobType
    BY NoJobFits DEF ChainInit, JobType
  <2>2. WorkFits
    BY NoJobFits DEF ChainInit, WorkFits, Outcomes
  <2> QED BY <2>1, <2>2, NoJobFits DEF ChainInit, JobFits, LandedShows
<1>2. made \in Holdings
  BY PartialIsNone DEF ChainInit, Holdings, Builds
<1>3. ChainType
  <2>1. env \in Envs
    BY ProductionIsEnv DEF ChainInit
  <2>2. stage \in Stages
    BY DEF ChainInit, Stages
  <2> QED BY <1>1, <1>2, <2>1, <2>2, Bounds DEF ChainInit, ChainType
<1>4. TurnFits /\ EnvFits /\ NightSoFar /\ QuietMeansFresh
  BY DEF ChainInit, TurnFits, EnvFits, NightSoFar, OfTheChain, Jobs, QuietMeansFresh, Production
<1>5. WholeBuildsOnly
  BY PartialIsNone DEF ChainInit, WholeBuildsOnly
<1> QED BY <1>1, <1>3, <1>4, <1>5 DEF IInv

LEMMA NightBegins == IInv /\ BeginNight => IInv'
<1> SUFFICES ASSUME IInv, BeginNight PROVE IInv'
  OBVIOUS
<1>1. /\ stage = "idle" /\ night < MaxNights /\ night' = night + 1
      /\ stage' = "harvest" /\ turn' = 1 /\ rehearsing' = FALSE /\ verdict' = "none"
      /\ UNCHANGED <<job, rehearsals, made>>
  BY DEF BeginNight
<1>2. PICK ledger \in BOOLEAN : env' = Production(ledger) /\ counted' = ~ledger
  BY DEF BeginNight
<1>3. JobType' /\ JobFits' /\ WorkFits' /\ LandedShows'
  BY <1>1, AtRest, NoJobKeeps
<1>4. ChainType'
  <2>1. env' \in Envs /\ counted' \in BOOLEAN
    BY <1>2, ProductionIsEnv
  <2>2. stage' \in Stages
    BY <1>1 DEF Stages, Jobs
  <2>3. /\ night \in 0..MaxNights /\ rehearsals \in 0..MaxNights /\ made \in Holdings
    BY DEF IInv, ChainType
  <2>4. night' \in 0..MaxNights /\ rehearsals' \in 0..MaxNights
    BY <1>1, <2>3, Bounds
  <2>5. rehearsing' \in BOOLEAN /\ turn' \in Nat /\ made' \in Holdings
    BY <1>1, <2>3
  <2>6. verdict' \in {"none", "quiet", "mailed"}
    BY <1>1
  <2> QED BY <1>3, <2>1, <2>2, <2>4, <2>5, <2>6 DEF ChainType
<1>5. TurnFits' /\ WholeBuildsOnly' /\ QuietMeansFresh'
  BY <1>1 DEF IInv, TurnFits, WholeBuildsOnly, QuietMeansFresh
<1>6. EnvFits'
  BY <1>1, <1>2 DEF EnvFits, Production
<1>7. NightSoFar'
  BY <1>1 DEF NightSoFar, AfterBuild, AfterRegistrar, AfterPublish, AfterLoad, AfterSeed
<1> QED BY <1>3, <1>4, <1>5, <1>6, <1>7 DEF IInv

LEMMA RehearsalBegins == IInv /\ BeginRehearsal => IInv'
<1> SUFFICES ASSUME IInv, BeginRehearsal PROVE IInv'
  OBVIOUS
<1>1. /\ stage = "idle" /\ rehearsals < MaxNights /\ rehearsals' = rehearsals + 1
      /\ stage' = "harvest" /\ turn' = 1 /\ counted' = FALSE /\ rehearsing' = TRUE
      /\ UNCHANGED <<job, night, made, verdict>>
  BY DEF BeginRehearsal
<1>2. env' \in Envs /\ Rehearsable(env')
  BY DEF BeginRehearsal
<1>3. JobType' /\ JobFits' /\ WorkFits' /\ LandedShows' /\ job' = NoJob
  BY <1>1, AtRest, NoJobKeeps
<1>4. ChainType'
  <2>1. stage' \in Stages
    BY <1>1 DEF Stages, Jobs
  <2>2. /\ night \in 0..MaxNights /\ rehearsals \in 0..MaxNights /\ made \in Holdings
        /\ verdict \in {"none", "quiet", "mailed"}
    BY DEF IInv, ChainType
  <2>3. night' \in 0..MaxNights /\ rehearsals' \in 0..MaxNights
    BY <1>1, <2>2, Bounds
  <2>4. rehearsing' \in BOOLEAN /\ counted' \in BOOLEAN /\ turn' \in Nat
    BY <1>1
  <2>5. made' \in Holdings /\ verdict' \in {"none", "quiet", "mailed"}
    BY <1>1, <2>2
  <2> QED BY <1>2, <1>3, <2>1, <2>3, <2>4, <2>5 DEF ChainType
<1>5. TurnFits' /\ WholeBuildsOnly' /\ QuietMeansFresh' /\ NightSoFar'
  BY <1>1 DEF IInv, TurnFits, WholeBuildsOnly, QuietMeansFresh, NightSoFar
<1>6. EnvFits'
  BY <1>1, <1>2, <1>3, NoJobFits DEF EnvFits, OfTheChain, Jobs, Rehearsable
<1> QED BY <1>3, <1>4, <1>5, <1>6 DEF IInv

\* Where the chain goes next.
LEMMA AdvanceFacts ==
  ASSUME TurnFits, Advance, stage \in Jobs \cup {"by hand"}
  PROVE  /\ turn' \in Nat \ {0} /\ TurnFits'
         /\ stage = "by hand" => stage' = "idle"
         /\ stage = "harvest" => \/ stage' = "harvest" /\ turn' = turn + 1
                                 \/ stage' = "build" /\ turn = Harvests
         /\ stage = "probe" => stage' \in {"probe", "report"}
         /\ stage = "warnings" => stage' = "registrar"
         /\ stage = "registrar" => stage' = "publish"
         /\ stage = "publish" => stage' = "load"
         /\ stage = "load" => stage' = "seed"
         /\ stage = "seed" => stage' = "probe"
<1> USE DEF TurnFits
<1>1. CASE stage = "harvest" /\ turn < Harvests
  BY <1>1 DEF Advance
<1>2. CASE stage = "probe" /\ turn < Probes
  BY <1>2 DEF Advance
<1>3. CASE ~(stage = "harvest" /\ turn < Harvests) /\ ~(stage = "probe" /\ turn < Probes)
  <2>1. /\ turn' = 1
        /\ stage' = CASE stage = "harvest" -> "build"
                      [] stage = "probe"   -> "report"
                      [] stage = "by hand" -> "idle"
                      [] OTHER             -> Following[stage]
    BY <1>3 DEF Advance
  <2>2. TurnFits' /\ turn' \in Nat \ {0}
    <3>1. 1 \in Nat \ {0} /\ 1 <= Harvests
      BY Bounds
    <3>2. turn' = 1
      BY <2>1
    <3> QED BY <3>1, <3>2
  <2>3. CASE stage = "harvest"
    <3>1. turn = Harvests
      BY <1>3, <2>3
    <3> QED BY <2>1, <2>2, <2>3, <3>1
  <2>4. CASE stage = "probe"
    BY <2>1, <2>2, <2>4
  <2>5. CASE stage = "by hand"
    BY <2>1, <2>2, <2>5
  <2>6. CASE stage \in {"warnings", "registrar", "publish", "load", "seed"}
    <3>1. stage' = Following[stage]
      BY <2>1, <2>6
    <3>2. /\ Following["warnings"] = "registrar" /\ Following["registrar"] = "publish"
          /\ Following["publish"] = "load" /\ Following["load"] = "seed"
          /\ Following["seed"] = "probe"
      BY DEF Following
    <3>3. /\ stage = "warnings" => stage' = "registrar"
          /\ stage = "registrar" => stage' = "publish"
          /\ stage = "publish" => stage' = "load"
          /\ stage = "load" => stage' = "seed"
          /\ stage = "seed" => stage' = "probe"
      BY <3>1, <3>2
    <3> QED BY <2>2, <2>6, <3>3
  <2> QED BY <2>3, <2>4, <2>5, <2>6 DEF Jobs
<1> QED BY <1>1, <1>2, <1>3

LEMMA SkipKeeps == IInv /\ SkipStage => IInv'
<1> SUFFICES ASSUME IInv, SkipStage PROVE IInv'
  OBVIOUS
<1>1. /\ job = NoJob /\ rehearsing /\ stage \in {"registrar", "load", "seed", "harvest"} /\ Advance
      /\ UNCHANGED <<job, night, rehearsals, counted, rehearsing, env, made, verdict>>
  BY DEF SkipStage, Writers
<1>2. TurnFits' /\ turn' \in Nat /\ stage' \in {"harvest", "build", "publish", "seed", "probe"}
  BY <1>1, AdvanceFacts DEF IInv, Jobs
<1>3. JobType' /\ JobFits' /\ WorkFits' /\ LandedShows'
  BY <1>1, NoJobKeeps
<1>4. ChainType'
  BY <1>1, <1>2, <1>3 DEF IInv, ChainType, Stages, Jobs
<1>5. EnvFits'
  BY <1>1, <1>2 DEF IInv, EnvFits, OfTheChain, Jobs, Rehearsable
<1>6. NightSoFar' /\ WholeBuildsOnly' /\ QuietMeansFresh'
  BY <1>1 DEF IInv, NightSoFar, WholeBuildsOnly, QuietMeansFresh
<1> QED BY <1>2, <1>3, <1>4, <1>5, <1>6 DEF IInv

\* A job that has only begun.
LEMMA BegunFits ==
  ASSUME JobType, NEW slug \in Slugs, NEW files \in BOOLEAN, NEW dry \in BOOLEAN,
         NEW ledger \in BOOLEAN, BeginRun(slug, files, dry, ledger)
  PROVE  /\ job.step = "idle"
         /\ JobType' /\ WorkFits'
         /\ job'.step # "idle" /\ job'.slug = slug /\ job'.files = files /\ job'.dry = dry
         /\ job'.recorded = ledger /\ job'.row = "none" /\ job'.work = "nothing"
<1> DEFINE run == [NoJob EXCEPT !.slug = slug, !.files = files, !.dry = dry, !.recorded = ledger]
<1> DEFINE T == [step : Steps, slug : Slugs, dry : BOOLEAN, files : BOOLEAN,
                 recorded : BOOLEAN, row : Rows, result : Outcomes,
                 work : Works, code : {0, 1, ConfigError, 4}]
<1>1. \/ job' = [run EXCEPT !.step = "opening"]
      \/ job' = [run EXCEPT !.step = "exited", !.code = ConfigError]
  BY DEF BeginRun
<1>2. job' \in T
  <2>1. NoJob \in T
    BY NoJobFits
  <2>2. run \in T
    BY <2>1
  <2> HIDE DEF run
  <2>3. /\ [run EXCEPT !.step = "opening"] \in T
        /\ [run EXCEPT !.step = "exited", !.code = ConfigError] \in T
    BY <2>2 DEF Steps
  <2> QED BY <1>1, <2>3
<1>3. /\ job'.slug = slug /\ job'.files = files /\ job'.dry = dry
      /\ job'.recorded = ledger /\ job'.row = "none" /\ job'.work = "nothing"
      /\ job'.result = "failed"
      /\ \/ job'.step = "opening"
         \/ job'.step = "exited" /\ job'.code = 2
  BY <1>1 DEF NoJob, ConfigError
<1>4. WorkFits'
  BY <1>3 DEF WorkFits, Outcomes
<1> QED BY <1>2, <1>3, <1>4 DEF JobType, BeginRun

LEMMA StartKeeps == IInv /\ StartStage => IInv'
<1> SUFFICES ASSUME IInv, StartStage PROVE IInv'
  OBVIOUS
<1>1. /\ stage \in Jobs /\ ~(rehearsing /\ stage \in Writers)
      /\ BeginRun(stage, stage \in {"harvest", "publish"}, FALSE, env.ledger)
      /\ UNCHANGED <<night, rehearsals, stage, turn, counted, rehearsing, env, made, verdict>>
  BY DEF StartStage
<1> DEFINE filed == stage \in {"harvest", "publish"}
<1>2. stage \in Slugs /\ filed \in BOOLEAN /\ env.ledger \in BOOLEAN
  <2>1. stage \in Slugs
    BY <1>1 DEF Jobs, Slugs
  <2>2. filed \in BOOLEAN
    OBVIOUS
  <2>3. env \in Envs
    BY DEF IInv, ChainType
  <2> QED BY <2>1, <2>2, <2>3 DEF Envs
<1>3. /\ JobType' /\ WorkFits'
      /\ job'.step # "idle" /\ job'.slug = stage /\ job'.files = filed /\ job'.dry = FALSE
      /\ job'.recorded = env.ledger /\ job'.row = "none" /\ job'.work = "nothing"
  <2>1. JobType /\ BeginRun(stage, filed, FALSE, env.ledger)
    BY <1>1 DEF IInv, ChainType
  <2> HIDE DEF filed
  <2> QED BY <1>2, <2>1, BegunFits
<1>4. ChainType'
  BY <1>1, <1>3 DEF IInv, ChainType
<1>5. TurnFits' /\ NightSoFar' /\ WholeBuildsOnly' /\ QuietMeansFresh'
  BY <1>1 DEF IInv, TurnFits, NightSoFar, WholeBuildsOnly, QuietMeansFresh
<1>6. JobFits' /\ LandedShows'
  BY <1>1, <1>3 DEF JobFits, LandedShows
<1>7. EnvFits'
  BY <1>1, <1>3 DEF IInv, EnvFits, Rehearsable
<1> QED BY <1>3, <1>4, <1>5, <1>6, <1>7 DEF IInv

LEMMA HandKeeps == IInv /\ StartByHand => IInv'
<1> SUFFICES ASSUME IInv, StartByHand PROVE IInv'
  OBVIOUS
<1>1. /\ stage = "idle" /\ stage' = "by hand"
      /\ UNCHANGED <<night, rehearsals, turn, counted, rehearsing, env, made, verdict>>
  BY DEF StartByHand
<1>2. PICK slug \in {"load", "seed", "adjudicate"}, dry \in BOOLEAN : BeginRun(slug, FALSE, dry, TRUE)
  BY DEF StartByHand
<1>3. /\ JobType' /\ WorkFits'
      /\ job'.step # "idle" /\ job'.slug = slug /\ job'.files = FALSE
      /\ job'.work = "nothing"
  <2>1. JobType
    BY DEF IInv, ChainType
  <2>2. slug \in Slugs
    BY DEF Slugs
  <2>3. FALSE \in BOOLEAN /\ TRUE \in BOOLEAN
    OBVIOUS
  <2> QED BY <1>2, <2>1, <2>2, <2>3, BegunFits
<1>4. ChainType'
  BY <1>1, <1>3 DEF IInv, ChainType, Stages
<1>5. ~rehearsing
  BY <1>1 DEF IInv, EnvFits, OfTheChain, Jobs
<1>6. TurnFits' /\ NightSoFar' /\ WholeBuildsOnly' /\ QuietMeansFresh'
  BY <1>1 DEF IInv, TurnFits, NightSoFar, OfTheChain, Jobs, WholeBuildsOnly, QuietMeansFresh
<1>7. JobFits' /\ LandedShows'
  BY <1>1, <1>3 DEF JobFits, LandedShows
<1>8. EnvFits'
  BY <1>1, <1>5 DEF IInv, EnvFits
<1> QED BY <1>3, <1>4, <1>6, <1>7, <1>8 DEF IInv

\* What a stage nobody had to count has done: what is behind the next one.
LEMMA StageDone ==
  ASSUME IInv, stage \in Jobs, ~rehearsing, job.step = "exited", job.code = 0
  PROVE  /\ stage = "harvest" /\ turn \notin Accepted => made.raw[turn] = night
         /\ stage = "registrar" => made.registry = made.build
         /\ stage = "publish" => made.catalog = made.build
         /\ stage = "load" => made.served = made.catalog
         /\ stage = "seed" => made.seeded = night
<1>1. job.slug = stage /\ ~job.dry /\ env = Production(env.ledger) /\ made \in Holdings
  BY DEF IInv, JobFits, Jobs, EnvFits, ChainType
<1>2. \A slug \in Jobs : WritesTo(slug) = "production"
  BY <1>1 DEF WritesTo, Production
<1>3. job.work = "landed" \/ AcceptedOutage
  BY <1>1 DEF IInv, WorkFits
<1>4. Written = made \/ AcceptedOutage
  BY <1>3 DEF IInv, LandedShows
<1>5. CASE stage = "harvest" /\ turn \notin Accepted
  <2>1. made = [made EXCEPT !.raw[turn] = night]
    BY <1>1, <1>2, <1>4, <1>5 DEF Written, AcceptedOutage
  <2>2. turn \in 1..Harvests /\ made.raw \in Wires
    BY <1>1, <1>5 DEF IInv, TurnFits, Holdings
  <2>3. made.raw = [made.raw EXCEPT ![turn] = night]
    BY <1>1, <2>1 DEF Holdings
  <2> QED BY <1>5, <2>2, <2>3 DEF Wires
<1>6. CASE stage = "registrar"
  <2>1. made = [made EXCEPT !.registry = made.build]
    BY <1>1, <1>2, <1>4, <1>6 DEF Written, AcceptedOutage
  <2> QED BY <1>1, <1>6, <2>1 DEF Holdings
<1>7. CASE stage = "publish"
  <2>1. made = [made EXCEPT !.catalog = made.build]
    BY <1>1, <1>2, <1>4, <1>7 DEF Written, AcceptedOutage
  <2> QED BY <1>1, <1>7, <2>1 DEF Holdings
<1>8. CASE stage = "load"
  <2>1. made = [made EXCEPT !.served = made.catalog]
    BY <1>1, <1>2, <1>4, <1>8 DEF Written, AcceptedOutage
  <2> QED BY <1>1, <1>8, <2>1 DEF Holdings
<1>9. CASE stage = "seed"
  <2>1. made = [made EXCEPT !.seeded = night]
    BY <1>1, <1>2, <1>4, <1>9 DEF Written, AcceptedOutage
  <2> QED BY <1>1, <1>9, <2>1 DEF Holdings
<1> QED BY <1>5, <1>6, <1>7, <1>8, <1>9

LEMMA EndKeeps == IInv /\ EndStage => IInv'
<1> SUFFICES ASSUME IInv, EndStage PROVE IInv'
  OBVIOUS
<1>1. /\ job.step = "exited" /\ job' = NoJob /\ Advance
      /\ counted' = (counted \/ (job.code # 0 /\ stage # "by hand"))
      /\ UNCHANGED <<night, rehearsals, rehearsing, env, made, verdict>>
  BY DEF EndStage, Reap
<1>2. stage \in Jobs \cup {"by hand"}
  BY <1>1 DEF IInv, JobFits
<1>3. JobType' /\ JobFits' /\ WorkFits' /\ LandedShows'
  BY <1>1, NoJobKeeps
<1>4. /\ turn' \in Nat \ {0} /\ TurnFits'
      /\ stage = "by hand" => stage' = "idle"
      /\ stage = "harvest" => \/ stage' = "harvest" /\ turn' = turn + 1
                              \/ stage' = "build" /\ turn = Harvests
      /\ stage = "probe" => stage' \in {"probe", "report"}
      /\ stage = "warnings" => stage' = "registrar"
      /\ stage = "registrar" => stage' = "publish"
      /\ stage = "publish" => stage' = "load"
      /\ stage = "load" => stage' = "seed"
      /\ stage = "seed" => stage' = "probe"
  BY <1>1, <1>2, AdvanceFacts DEF IInv
<1>5. ChainType'
  <2>1. stage' \in Stages
    BY <1>2, <1>4 DEF Stages, Jobs
  <2>2. counted' \in BOOLEAN
    BY <1>1
  <2>3. turn' \in Nat
    BY <1>4
  <2> QED BY <1>1, <1>3, <2>1, <2>2, <2>3 DEF IInv, ChainType
<1>6. stage \in Jobs => stage' \in OfTheChain
  BY <1>4 DEF OfTheChain, Jobs
<1>7. rehearsing => stage \in Jobs
  BY <1>2 DEF IInv, EnvFits, OfTheChain, Jobs
<1>8. EnvFits'
  BY <1>1, <1>6, <1>7, NoJobFits DEF IInv, EnvFits, Rehearsable
<1>9. NightSoFar'
  <2> SUFFICES ASSUME stage' \in OfTheChain, ~rehearsing PROVE NightSoFar'
    BY <1>1 DEF NightSoFar
  <2>1. stage \in Jobs
    BY <1>2, <1>4 DEF OfTheChain, Jobs
  <2>2. verdict = "none"
    BY <2>1 DEF IInv, NightSoFar, OfTheChain
  <2>3. stage' \in AfterBuild => stage \in AfterBuild
    BY <2>1, <1>4 DEF AfterBuild, Jobs
  <2>4. stage' \in AfterBuild => made.build = made.raw
    BY <2>1, <2>3 DEF IInv, NightSoFar, OfTheChain
  <2>5. ASSUME ~counted'
        PROVE  /\ \A h \in (1..Harvests) \ Accepted :
                     (stage' = "harvest" => h < turn') => made.raw[h] = night
               /\ stage' \in AfterRegistrar => made.registry = made.build
               /\ stage' \in AfterPublish => made.catalog = made.build
               /\ stage' \in AfterLoad => made.served = made.catalog
               /\ stage' \in AfterSeed => made.seeded = night
    <3>1. ~counted /\ job.code = 0
      BY <1>1, <2>1, <2>5 DEF Jobs
    <3>2. /\ stage = "harvest" /\ turn \notin Accepted => made.raw[turn] = night
          /\ stage = "registrar" => made.registry = made.build
          /\ stage = "publish" => made.catalog = made.build
          /\ stage = "load" => made.served = made.catalog
          /\ stage = "seed" => made.seeded = night
      BY <1>1, <2>1, <3>1, StageDone
    <3>3. /\ \A h \in (1..Harvests) \ Accepted :
                (stage = "harvest" => h < turn) => made.raw[h] = night
          /\ stage \in AfterRegistrar => made.registry = made.build
          /\ stage \in AfterPublish => made.catalog = made.build
          /\ stage \in AfterLoad => made.served = made.catalog
          /\ stage \in AfterSeed => made.seeded = night
      BY <2>1, <3>1 DEF IInv, NightSoFar, OfTheChain
    <3>4. /\ stage' \in AfterRegistrar => stage \in AfterRegistrar \cup {"registrar"}
          /\ stage' \in AfterPublish => stage \in AfterPublish \cup {"publish"}
          /\ stage' \in AfterLoad => stage \in AfterLoad \cup {"load"}
          /\ stage' \in AfterSeed => stage \in AfterSeed \cup {"seed"}
      BY <2>1, <1>4 DEF AfterRegistrar, AfterPublish, AfterLoad, AfterSeed, Jobs
    <3>5. ASSUME NEW h \in (1..Harvests) \ Accepted, stage' = "harvest" => h < turn'
          PROVE  made.raw[h] = night
      <4>1. turn \in Nat \ {0} /\ h \in 1..Harvests /\ h \notin Accepted /\ Harvests \in Nat
        BY DEF IInv, TurnFits
      <4>2. CASE stage = "harvest"
        <5>1. h < turn \/ h = turn
          BY <1>4, <3>5, <4>1, <4>2
        <5> QED BY <3>2, <3>3, <4>1, <4>2, <5>1
      <4> QED BY <3>3, <4>2
    <3> QED BY <3>2, <3>3, <3>4, <3>5
  <2> QED BY <1>1, <2>2, <2>4, <2>5 DEF NightSoFar
<1>10. WholeBuildsOnly' /\ QuietMeansFresh'
  BY <1>1 DEF IInv, WholeBuildsOnly, QuietMeansFresh
<1> QED BY <1>3, <1>4, <1>5, <1>8, <1>9, <1>10 DEF IInv

LEMMA BuildKeeps == IInv /\ BuildPasses => IInv'
<1> SUFFICES ASSUME IInv, BuildPasses PROVE IInv'
  OBVIOUS
<1>1. /\ stage = "build" /\ stage' = "warnings"
      /\ made' = IF WritesTo("build") = "production" THEN [made EXCEPT !.build = made.raw] ELSE made
      /\ UNCHANGED <<job, night, rehearsals, turn, counted, rehearsing, env, verdict>>
  BY DEF BuildPasses
<1>2. job = NoJob /\ job' = NoJob
  BY <1>1, AtRest
<1>3. JobType' /\ JobFits' /\ WorkFits' /\ LandedShows'
  BY <1>2, NoJobKeeps
<1>4. made \in Holdings
  BY DEF IInv, ChainType
<1>5. /\ made' \in Holdings /\ made'.raw = made.raw /\ made'.registry = made.registry
      /\ made'.catalog = made.catalog /\ made'.served = made.served /\ made'.seeded = made.seeded
      /\ WritesTo("build") = "production" => made'.build = made.raw
  BY <1>1, <1>4 DEF Holdings, Builds
<1>6. rehearsing => made' = made
  BY <1>1 DEF IInv, EnvFits, Rehearsable, Roots, WritesTo
<1>7. ~rehearsing => WritesTo("build") = "production" /\ verdict = "none"
  BY <1>1 DEF IInv, EnvFits, WritesTo, Production, NightSoFar, OfTheChain
<1>8. ChainType'
  <2>1. stage' \in Stages
    BY <1>1 DEF Stages, Jobs
  <2> QED BY <1>1, <1>3, <1>5, <2>1 DEF IInv, ChainType
<1>9. EnvFits'
  BY <1>1, <1>2 DEF IInv, EnvFits, OfTheChain, Jobs, Rehearsable
<1>10. NightSoFar'
  BY <1>1, <1>5, <1>7 DEF IInv, NightSoFar, OfTheChain, AfterRegistrar, AfterPublish, AfterLoad, AfterSeed
<1>11. TurnFits' /\ WholeBuildsOnly' /\ QuietMeansFresh'
  BY <1>1, <1>5, <1>6, <1>7 DEF IInv, TurnFits, WholeBuildsOnly, QuietMeansFresh
<1> QED BY <1>3, <1>8, <1>9, <1>10, <1>11 DEF IInv

\* However the script ends, with nothing new among what is served.
LEMMA EndingKeeps ==
  ASSUME IInv, NEW mailed \in BOOLEAN, Ended(mailed), job' = NoJob, made' \in Holdings,
         Partial \notin {made'.registry, made'.catalog, made'.served},
         rehearsing => made' = made,
         ~rehearsing /\ ~mailed => stage = "report" /\ ~counted /\ made' = made
  PROVE  IInv'
<1>1. /\ verdict' = IF rehearsing THEN verdict ELSE IF mailed THEN "mailed" ELSE "quiet"
      /\ stage' = "idle" /\ turn' = 1 /\ counted' = FALSE /\ rehearsing' = FALSE
      /\ env' = Production(TRUE)
      /\ UNCHANGED <<night, rehearsals>>
  BY DEF Ended
<1>2. JobType' /\ JobFits' /\ WorkFits' /\ LandedShows'
  BY NoJobKeeps
<1>3. ChainType'
  <2>1. env' \in Envs
    BY <1>1, ProductionIsEnv
  <2>2. stage' \in Stages
    BY <1>1 DEF Stages
  <2>3. verdict' \in {"none", "quiet", "mailed"}
    BY <1>1 DEF IInv, ChainType
  <2>4. night' \in 0..MaxNights /\ rehearsals' \in 0..MaxNights
    BY <1>1 DEF IInv, ChainType
  <2>5. counted' \in BOOLEAN /\ rehearsing' \in BOOLEAN /\ turn' \in Nat
    BY <1>1
  <2> QED BY <1>2, <2>1, <2>2, <2>3, <2>4, <2>5 DEF ChainType
<1>4. TurnFits' /\ NightSoFar'
  BY <1>1 DEF TurnFits, NightSoFar, OfTheChain, Jobs
<1>5. EnvFits'
  BY <1>1 DEF EnvFits, Production
<1>6. WholeBuildsOnly'
  BY DEF WholeBuildsOnly
<1>7. QuietMeansFresh'
  <2> SUFFICES ASSUME verdict' = "quiet" PROVE QuietMeansFresh'
    BY DEF QuietMeansFresh
  <2>1. CASE rehearsing
    BY <1>1, <2>1 DEF IInv, QuietMeansFresh
  <2>2. CASE ~rehearsing
    <3>1. stage = "report" /\ ~counted /\ made' = made
      BY <1>1, <2>2
    <3>2. QuietMeansFresh!2
      BY <2>2, <3>1 DEF IInv, NightSoFar, OfTheChain, AfterBuild, AfterRegistrar, AfterPublish,
                        AfterLoad, AfterSeed
    <3> QED BY <1>1, <3>1, <3>2 DEF QuietMeansFresh
  <2> QED BY <2>1, <2>2
<1> QED BY <1>2, <1>3, <1>4, <1>5, <1>6, <1>7 DEF IInv

\* A build that ends early touches nothing behind it, a rehearsal's nothing.
LEMMA HalfwayFacts ==
  ASSUME IInv, stage = "build"
  PROVE  /\ Halfway \in Holdings
         /\ Partial \notin {Halfway.registry, Halfway.catalog, Halfway.served}
         /\ rehearsing => Halfway = made
<1>1. made \in Holdings /\ Partial \notin {made.registry, made.catalog, made.served}
  BY DEF IInv, ChainType, WholeBuildsOnly
<1>2. rehearsing => WritesTo("build") # "production"
  BY DEF IInv, EnvFits, Rehearsable, Roots, WritesTo
<1>3. Partial \in Builds
  BY DEF Builds
<1>4. CASE WritesTo("build") = "production"
  <2>1. Halfway = [made EXCEPT !.build = Partial]
    BY <1>4 DEF Halfway
  <2> QED BY <1>1, <1>2, <1>3, <1>4, <2>1 DEF Holdings
<1>5. CASE WritesTo("build") # "production"
  BY <1>1, <1>5 DEF Halfway
<1> QED BY <1>4, <1>5

LEMMA MadeIsWhole ==
  ASSUME IInv
  PROVE  made \in Holdings /\ Partial \notin {made.registry, made.catalog, made.served}
BY DEF IInv, ChainType, WholeBuildsOnly

LEMMA BuildFailsKeeps == IInv /\ BuildFails => IInv'
<1> SUFFICES ASSUME IInv, BuildFails PROVE IInv'
  OBVIOUS
<1>1. stage = "build" /\ made' \in {made, Halfway} /\ Ended(TRUE) /\ job' = job
  BY DEF BuildFails
<1>2. job' = NoJob
  BY <1>1, AtRest
<1>3. /\ made' \in Holdings /\ Partial \notin {made'.registry, made'.catalog, made'.served}
      /\ rehearsing => made' = made
  BY <1>1, HalfwayFacts, MadeIsWhole
<1> QED BY <1>1, <1>2, <1>3, EndingKeeps

LEMMA ReportKeeps == IInv /\ Report => IInv'
<1> SUFFICES ASSUME IInv, Report PROVE IInv'
  OBVIOUS
<1>1. stage = "report" /\ Ended(counted) /\ job' = job /\ made' = made
  BY DEF Report
<1>2. job' = NoJob /\ counted \in BOOLEAN
  BY <1>1, AtRest DEF IInv, ChainType
<1>3. made' \in Holdings /\ Partial \notin {made'.registry, made'.catalog, made'.served}
  BY <1>1, MadeIsWhole
<1> QED BY <1>1, <1>2, <1>3, EndingKeeps

LEMMA KillKeeps == IInv /\ Kill => IInv'
<1> SUFFICES ASSUME IInv, Kill PROVE IInv'
  OBVIOUS
<1>1. /\ Ended(TRUE) /\ job' = NoJob
      /\ \/ made' = made
         \/ stage = "build" /\ made' = Halfway
         \/ job.step \in {"handling", "ending"} /\ made' = Written
  BY DEF Kill
<1>2. /\ made' \in Holdings /\ Partial \notin {made'.registry, made'.catalog, made'.served}
      /\ rehearsing => made' = made
  <2>1. CASE made' = made
    BY <2>1, MadeIsWhole
  <2>2. CASE stage = "build" /\ made' = Halfway
    BY <2>2, HalfwayFacts
  <2>3. CASE job.step \in {"handling", "ending"} /\ made' = Written
    <3>1. job.step # "idle"
      BY <2>3
    <3> QED BY <2>3, <3>1, WrittenFacts DEF IInv
  <2> QED BY <1>1, <2>1, <2>2, <2>3
<1> QED BY <1>1, <1>2, EndingKeeps

LEMMA StutterKeeps == IInv /\ UNCHANGED chainVars => IInv'
<1> SUFFICES ASSUME IInv, UNCHANGED chainVars PROVE IInv'
  OBVIOUS
<1>1. UNCHANGED <<job, night, rehearsals, stage, turn, counted, rehearsing, env, made, verdict>>
  BY DEF chainVars
<1>2. ChainType'
  <2>1. JobType' /\ (made \in Holdings)' /\ (env \in Envs)'
    BY <1>1 DEF IInv, ChainType, JobType
  <2> QED BY <1>1, <2>1 DEF IInv, ChainType
<1>3. TurnFits' /\ JobFits'
  BY <1>1 DEF IInv, TurnFits, JobFits
<1>4. WorkFits' /\ EnvFits' /\ WholeBuildsOnly' /\ QuietMeansFresh'
  BY <1>1 DEF IInv, WorkFits, AcceptedOutage, EnvFits, Rehearsable, WholeBuildsOnly, QuietMeansFresh
<1>5. LandedShows' /\ NightSoFar'
  BY <1>1 DEF IInv, LandedShows, Written, WritesTo, NightSoFar
<1> QED BY <1>2, <1>3, <1>4, <1>5 DEF IInv

LEMMA Inductive == ChainSpec => []IInv
<1>1. ASSUME IInv, [ChainNext]_chainVars PROVE IInv'
  BY <1>1, NightBegins, RehearsalBegins, SkipKeeps, StartKeeps, HandKeeps, JobStepKeeps, EndKeeps,
     BuildKeeps, BuildFailsKeeps, ReportKeeps, KillKeeps, StutterKeeps DEF ChainNext
<1> QED BY <1>1, InitHolds, PTL DEF ChainSpec

-----------------------------------------------------------------------------
(* The job, the chain's place in the night and what production holds keep  *)
(* their types.                                                            *)
THEOREM ChainTypeCorrect == ChainSpec => []ChainType
<1>1. IInv => ChainType
  BY DEF IInv
<1> QED BY <1>1, Inductive, PTL

(* A night that exits 0 has served the wires it harvested, all the way to  *)
(* the tables the API reads, whatever failed, was killed or was run by     *)
(* hand before it.                                                         *)
THEOREM QuietNightsAreFresh == ChainSpec => []QuietMeansFresh
<1>1. IInv => QuietMeansFresh
  BY DEF IInv
<1> QED BY <1>1, Inductive, PTL

(* A dbt build that stops halfway, failed or killed, never reaches the     *)
(* registry, the catalog or the served tables.                             *)
THEOREM PartialBuildsContained == ChainSpec => []WholeBuildsOnly
<1>1. IInv => WholeBuildsOnly
  BY DEF IInv
<1> QED BY <1>1, Inductive, PTL

(* The ledger's ok stands for work that landed.                            *)
THEOREM OkRowsLanded == ChainSpec => []OkMeansLanded
<1>1. IInv => OkMeansLanded
  BY DEF IInv, WorkFits, OkMeansLanded, Outcomes
<1> QED BY <1>1, Inductive, PTL

(* No step of a rehearsal changes production or opens a row in its ledger. *)
THEOREM RehearsalsApart == ChainSpec => RehearsalApart
<1>1. ASSUME IInv, IInv', ChainNext, rehearsing, stage # "idle"
      PROVE  made' = made /\ job'.row = "none"
  <2> USE <1>1
  <2>1. stage \in OfTheChain /\ job.row = "none" /\ NoJob.row = "none"
    BY NoJobFits DEF IInv, EnvFits
  <2>2. CASE BeginNight \/ BeginRehearsal \/ StartByHand
    BY <2>2 DEF BeginNight, BeginRehearsal, StartByHand
  <2>3. CASE SkipStage \/ StartStage
    <3>1. made' = made /\ rehearsing'
      BY <2>3 DEF SkipStage, StartStage
    <3> QED BY <3>1 DEF IInv, EnvFits
  <2>4. CASE JobStep
    <3>1. made' \in {made, Written} /\ rehearsing'
      BY <2>4 DEF JobStep, Lasting
    <3>2. job.step # "idle"
      BY <2>4, JobMovesWell DEF JobStep, JobMoves, IInv, ChainType
    <3>3. made' = made
      BY <3>1, <3>2, WrittenFacts DEF IInv
    <3> QED BY <3>1, <3>3 DEF IInv, EnvFits
  <2>5. CASE EndStage
    BY <2>1, <2>5 DEF EndStage, Reap
  <2>6. CASE BuildPasses
    <3>1. WritesTo("build") # "production"
      BY DEF IInv, EnvFits, Rehearsable, Roots, WritesTo
    <3> QED BY <2>1, <2>6, <3>1 DEF BuildPasses
  <2>7. CASE BuildFails
    BY <2>1, <2>7, HalfwayFacts DEF BuildFails
  <2>8. CASE Report
    BY <2>1, <2>8 DEF Report
  <2>9. CASE Kill
    <3>1. /\ job' = NoJob
          /\ \/ made' = made
             \/ stage = "build" /\ made' = Halfway
             \/ job.step \in {"handling", "ending"} /\ made' = Written
      BY <2>9 DEF Kill
    <3>2. job.step \in {"handling", "ending"} => Written = made
      BY WrittenFacts DEF IInv
    <3> QED BY <2>1, <3>1, <3>2, HalfwayFacts
  <2> QED BY <2>2, <2>3, <2>4, <2>5, <2>6, <2>7, <2>8, <2>9 DEF ChainNext
<1>2. IInv /\ IInv' /\ [ChainNext]_chainVars
        => [rehearsing /\ stage # "idle" => made' = made /\ job'.row = "none"]_chainVars
  BY <1>1
<1> QED BY <1>2, Inductive, PTL DEF ChainSpec, RehearsalApart
=============================================================================
