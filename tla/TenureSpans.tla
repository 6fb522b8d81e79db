----------------------------- MODULE TenureSpans -----------------------------
(***************************************************************************)
(* The tenure engine's values: biennium observations, the merged spans     *)
(* built from them, and the rule that rejoins a member's party spans.      *)
(* Everything here is a pure operator; ConformedSpans drives it.           *)
(*                                                                         *)
(* A biennium is its ordinal 0..LastBiennium and lasts Length days; a day  *)
(* is a natural number and Open stands for the missing end of a span that  *)
(* still runs (valid_to None).  Members, districts, positions, parties and *)
(* committees are naturals: their order is the order of their identifiers. *)
(***************************************************************************)
EXTENDS Integers, Sequences, FiniteSets

CONSTANTS
  LastBiennium,   \* the newest biennium an input may name
  Length          \* days in a biennium

ASSUME CalendarAssumption == LastBiennium \in Nat /\ Length \in Nat \ {0, 1}

Biennia == 0..LastBiennium
Days == 0..((LastBiennium + 1) * Length - 1)
Open == (LastBiennium + 1) * Length          \* later than every day
NoDay == -1                                  \* a window that is not there

BienniumOf(d) == d \div Length
FirstDay(b) == b * Length
LastDay(b) == FirstDay(b) + Length - 1
InBiennium(d, b) == FirstDay(b) <= d /\ d <= LastDay(b)

Earlier(x, y) == IF x <= y THEN x ELSE y
Later(x, y) == IF x >= y THEN x ELSE y

House == "chamber-house"
Senate == "chamber-senate"
Committee == "committee"
Party == "party"
Kinds == {House, Senate, Committee, Party}
SingleHolderKinds == {House, Senate}
KindRank == [k \in Kinds |->
              CASE k = House -> 1 [] k = Senate -> 2 [] k = Committee -> 3 [] k = Party -> 4]

Dated == "dated"
Observed == "observed"
Derived == "derived"
OpenEnd == "open"
StartBases == {Dated, Observed, Derived}
BoundaryBases == StartBases \cup {OpenEnd}

Principal == "principal"
Substitute == "substitute"

-----------------------------------------------------------------------------
(* The span and what its constructor refuses.                               *)

\* A tenure built over whole biennia: both edges are the builder's own.
NewSpan(mem, kind, disc, sb, eb, from, to, sbasis, ebasis) ==
  [mem |-> mem, kind |-> kind, disc |-> disc, sb |-> sb, eb |-> eb,
   from |-> from, to |-> to, sbasis |-> sbasis, ebasis |-> ebasis,
   type |-> Principal, swin |-> NoDay, ewin |-> NoDay]

StartWindowFits(s) ==
  s.swin # NoDay => s.sbasis = Dated /\ s.from <= s.swin /\ s.swin <= s.to
EndWindowFits(s) ==
  s.ewin # NoDay => s.ebasis = Dated /\ s.to # Open /\ s.from <= s.ewin /\ s.ewin <= s.to

\* __post_init__: every replace() runs it, and a span it refuses aborts the build.
WellFormed(s) ==
  /\ s.sbasis \in StartBases
  /\ s.ebasis \in BoundaryBases
  /\ s.ebasis = OpenEnd <=> s.to = Open
  /\ s.type \in {Principal, Substitute}
  /\ StartWindowFits(s)
  /\ EndWindowFits(s)

\* The latest the true start and the earliest the true end can be.
ValidFromLatest(s) ==
  IF s.sbasis = Dated THEN IF s.swin # NoDay THEN s.swin ELSE s.from
  ELSE Later(s.from, Earlier(LastDay(s.sb), s.to))
ValidToEarliest(s) ==
  CASE s.to = Open -> Open
    [] s.to # Open /\ s.ebasis = Dated -> IF s.ewin # NoDay THEN s.ewin ELSE s.to
    [] OTHER -> Earlier(s.to, Later(FirstDay(s.eb), s.from))

Key(s) == <<s.mem, s.kind, s.disc, s.sb>>        \* source_id
Seat(s) == <<s.kind, s.disc>>

Span == {s \in [mem : Nat, kind : Kinds, disc : Nat, sb : Int, eb : Int, from : Nat, to : Nat,
                sbasis : StartBases, ebasis : BoundaryBases, type : {Principal, Substitute},
                swin : Int, ewin : Int] :
           WellFormed(s) /\ s.from <= s.to /\ s.from < Open /\ s.to <= Open /\ s.swin < Open}

-----------------------------------------------------------------------------
(* Orders.  Python's sorts are stable, so equal keys keep their positions.  *)

Precedes(a, b) ==
  \E k \in DOMAIN a : a[k] < b[k] /\ \A l \in 1..(k - 1) : a[l] = b[l]

\* The positions P of s by increasing K, ties by position.
Ranked(P, K(_)) ==
  LET Before(i, j) == Precedes(K(i), K(j)) \/ (K(i) = K(j) /\ i < j)
  IN [n \in 1..Cardinality(P) |->
        CHOOSE i \in P : Cardinality({j \in P : Before(j, i)}) = n - 1]

SortBy(s, K(_)) ==
  LET at == Ranked(DOMAIN s, LAMBDA i : K(s[i])) IN [n \in DOMAIN s |-> s[at[n]]]

\* The elements of s at the positions P, in their order.
Selected(s, P) ==
  [n \in 1..Cardinality(P) |-> s[CHOOSE i \in P : Cardinality({j \in P : j < i}) = n - 1]]

KeyOrder(s) == <<s.mem, KindRank[s.kind], s.disc, s.sb>>
SortSpans(spans) == SortBy(spans, KeyOrder)

\* A set of spans with distinct keys, in key order.
InKeyOrder(S) ==
  LET rank(s) == Cardinality({t \in S : Precedes(KeyOrder(t), KeyOrder(s))})
  IN [n \in 1..Cardinality(S) |-> CHOOSE s \in S : rank(s) = n - 1]

-----------------------------------------------------------------------------
(* build_tenure_spans: consecutive biennia of one seat merge into one span. *)

Observation(mem, kind, disc, b, opens) ==
  [mem |-> mem, kind |-> kind, disc |-> disc, b |-> b, opens |-> opens]

\* The biennia that head a run: no neighbour before them, or a return (#517).
Heads(bs, breaks) == {b \in bs : b - 1 \notin bs \/ b \in breaks}
RunEnd(bs, breaks, h) ==
  CHOOSE e \in bs : /\ h <= e /\ h..e \subseteq bs
                    /\ Heads(bs, breaks) \cap (h + 1)..e = {}
                    /\ e + 1 \notin bs \/ e + 1 \in breaks

BuildTenureSpans(obs, current) ==
  LET groups == {<<o.mem, o.kind, o.disc>> : o \in obs}
      of(g) == {o \in obs : <<o.mem, o.kind, o.disc>> = g}
      spansOf(g) ==
        LET bs == {o.b : o \in of(g)}
            breaks == {o.b : o \in {p \in of(g) : p.opens}}
            run(h) == LET e == RunEnd(bs, breaks, h) IN
              NewSpan(g[1], g[2], g[3], h, e, FirstDay(h),
                      IF e = current THEN Open ELSE LastDay(e),
                      Observed, IF e = current THEN OpenEnd ELSE Observed)
        IN {run(h) : h \in Heads(bs, breaks)}
  IN InKeyOrder(UNION {spansOf(g) : g \in groups})

-----------------------------------------------------------------------------
(* merge_party_continuity: one party span across any gap (#289).            *)

\* run widened to cover later: the end is whichever ends last, whole.
Extend(run, later) ==
  IF run.to = Open \/ later.to = Open
  THEN [run EXCEPT !.eb = Later(run.eb, later.eb), !.to = Open, !.ebasis = OpenEnd]
  ELSE LET last == IF Precedes(<<run.to, run.eb>>, <<later.to, later.eb>>) THEN later ELSE run
       IN [run EXCEPT !.eb = last.eb, !.to = last.to, !.ebasis = last.ebasis]

\* One member's party spans, ordered by their dated start, folded into runs.
PartyRuns(spans) ==
  LET ordered == SortBy(spans, LAMBDA s : <<s.from, s.sb>>)
      f[n \in 0..Len(ordered)] ==
        IF n = 0 THEN <<>>
        ELSE LET runs == f[n - 1]
                 s == ordered[n]
             IN IF runs # <<>> /\ runs[Len(runs)].disc = s.disc
                THEN [runs EXCEPT ![Len(runs)] = Extend(@, s)]
                ELSE Append(runs, s)
  IN f[Len(ordered)]

MergePartyContinuity(spans) ==
  LET others == Selected(spans, {i \in DOMAIN spans : spans[i].kind # Party})
      parties(m) == Selected(spans, {i \in DOMAIN spans : spans[i].kind = Party /\ spans[i].mem = m})
      members == {s.mem : s \in {spans[i] : i \in DOMAIN spans}}
      lists == [m \in members |-> PartyRuns(parties(m))]
      order == Ranked(members, LAMBDA m : <<m>>)
      g[n \in 0..Len(order)] == IF n = 0 THEN others ELSE g[n - 1] \o lists[order[n]]
  IN SortSpans(g[Len(order)])
=============================================================================
