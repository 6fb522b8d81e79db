------------------------- MODULE ConformedSpans_proofs -------------------------
(***************************************************************************)
(* The tenure build, for any rows, ballots, events, clauses, calendar,     *)
(* capacity and maps.                                                      *)
(*   - The clip narrows one edge of one chamber seat's tenure at a time:   *)
(*     ClipSpec implements SpanNarrowing.  A clipped edge and the window   *)
(*     of the other edge stay inside the span, which is what keeps its     *)
(*     constructor from refusing it.                                       *)
(*   - The House seats are never guessed: ChainInv says what holds of the  *)
(*     chain once the bienniums from b on have been placed, and a link     *)
(*     keeps it because a seed and an elimination take only positions      *)
(*     nobody has.                                                         *)
(*   - Every span of every stage fits its key: BareSpan is what a builder  *)
(*     and the overlay make, FineSpan what the clauses and the clip leave; *)
(*     BuildInv carries both from the readers' rows to publication.        *)
(*   - An overlap the clip leaves is in its report: a pair it visits is    *)
(*     declined or Cleared, no later narrowing undoes that (PassInv), and  *)
(*     the sort's ties are broken, so every pair of Rivals is visited.     *)
(* A recursive function of the model is a CHOOSE; RecursionExists shows    *)
(* that it has a solution and RunStays follows it.                         *)
(***************************************************************************)
EXTENDS ConformedSpans, FiniteSetTheorems, WellFoundedInduction, TLAPS

LEMMA OpenIsNat == Open \in Nat
BY CalendarAssumption DEF Open

Typed == [mem : Nat, kind : Kinds, disc : Nat, sb : Int, eb : Int, from : Nat, to : Nat,
          sbasis : StartBases, ebasis : BoundaryBases, type : {Principal, Substitute},
          swin : Int, ewin : Int]

LEMMA SpanIsTyped == ASSUME NEW s \in Span PROVE s \in Typed
BY DEF Span, Typed

\* What makes a typed record a span, spelled out.
LEMMA SpanFacts ==
  ASSUME NEW s \in Typed
  PROVE  s \in Span <=>
           /\ s.ebasis = OpenEnd <=> s.to = Open
           /\ s.swin # NoDay => s.sbasis = Dated /\ s.from <= s.swin /\ s.swin <= s.to
           /\ s.ewin # NoDay => /\ s.ebasis = Dated /\ s.to # Open
                                /\ s.from <= s.ewin /\ s.ewin <= s.to
           /\ s.from <= s.to /\ s.from < Open /\ s.to <= Open /\ s.swin < Open
<1>1. s \in Span <=> WellFormed(s) /\ s.from <= s.to /\ s.from < Open /\ s.to <= Open /\ s.swin < Open
  BY DEF Span, Typed
<1>2. s.sbasis \in StartBases /\ s.ebasis \in BoundaryBases /\ s.type \in {Principal, Substitute}
  BY DEF Typed
<1> QED BY <1>1, <1>2 DEF WellFormed, StartWindowFits, EndWindowFits

\* The instance's copies of the edges are this module's.
LEMMA SameEdges ==
  /\ \A s : Narrowing!ValidFromLatest(s) = ValidFromLatest(s)
  /\ \A s : Narrowing!ValidToEarliest(s) = ValidToEarliest(s)
  /\ \A x, y : Narrowing!Later(x, y) = Later(x, y) /\ Narrowing!Earlier(x, y) = Earlier(x, y)
BY DEF Narrowing!ValidFromLatest, ValidFromLatest, Narrowing!ValidToEarliest, ValidToEarliest,
       Narrowing!Dated, Dated, Narrowing!NoDay, NoDay, Narrowing!Open, Open,
       Narrowing!Later, Later, Narrowing!Earlier, Earlier,
       Narrowing!LastDay, LastDay, Narrowing!FirstDay, FirstDay

LEMMA BienniumDays ==
  \A b \in Int : FirstDay(b) \in Int /\ LastDay(b) \in Int
BY CalendarAssumption DEF FirstDay, LastDay

\* An end closed on a boundary inside the tenure narrows it.
LEMMA ClosedAtNarrows ==
  ASSUME NEW s \in Span, NEW b \in Nat,
         s.kind \in SingleHolderKinds, ~Narrowing!EndStatedToTheDay(s),
         s.from < b, b <= s.to, b < Open
  PROVE  ClosedAt(s, b) \in Span /\ Narrowing!Narrowed(s, ClosedAt(s, b))
<1> DEFINE w == Earlier(s.swin, b)
           new == IF s.swin = NoDay \/ w = s.from THEN NoDay ELSE w
<1> USE OpenIsNat
<1>0. s \in Typed
  BY SpanIsTyped
<1>1. /\ s.from \in Nat /\ s.to \in Nat /\ s.swin \in Int /\ s.ewin \in Int
      /\ s.swin # NoDay => s.sbasis = Dated /\ s.from <= s.swin /\ s.swin <= s.to
      /\ s.swin < Open /\ s.to <= Open
  BY <1>0, SpanFacts DEF Typed
<1>2. /\ new \in Int /\ new < Open
      /\ new # NoDay => s.sbasis = Dated /\ s.from <= new /\ new <= b
  BY <1>1 DEF Earlier, NoDay
<1> DEFINE t == [s EXCEPT !.to = b, !.ebasis = Derived, !.ewin = NoDay, !.swin = new]
<1>3. ClosedAt(s, b) = t
  BY DEF ClosedAt
<1> HIDE DEF new, w
<1>4. t \in Typed
  <2>1. Derived \in BoundaryBases /\ NoDay \in Int /\ new \in Int
    BY <1>2 DEF BoundaryBases, StartBases, NoDay
  <2> QED BY <1>0, <2>1 DEF Typed
<1>5. /\ t.to = b /\ t.ebasis = Derived /\ t.ewin = NoDay /\ t.swin = new
      /\ t.from = s.from /\ t.sbasis = s.sbasis
      /\ <<t.mem, t.kind, t.disc, t.sb, t.eb, t.type>> = <<s.mem, s.kind, s.disc, s.sb, s.eb, s.type>>
  BY <1>0 DEF Typed
<1> HIDE DEF t
<1>6. t \in Span
  BY <1>1, <1>2, <1>4, <1>5, SpanFacts DEF Derived, OpenEnd
<1>8. ValidFromLatest(t) = Earlier(ValidFromLatest(s), t.to)
  <2>1. s.sb \in Int /\ t.sb = s.sb /\ LastDay(s.sb) \in Int
    BY <1>0, <1>5, BienniumDays DEF Typed
  <2>2. CASE s.sbasis = Dated
    <3>1. new = IF s.swin = NoDay \/ Earlier(s.swin, b) = s.from THEN NoDay ELSE Earlier(s.swin, b)
      BY DEF new, w
    <3>2. CASE s.swin = NoDay
      <4>1. new = NoDay
        BY <3>1, <3>2
      <4> QED BY <1>1, <1>5, <2>2, <3>2, <4>1 DEF ValidFromLatest, Earlier
    <3>3. CASE s.swin # NoDay
      <4>1. new = NoDay => Earlier(s.swin, b) = s.from
        BY <1>1, <3>1, <3>3 DEF Earlier, NoDay
      <4>2. new # NoDay => new = Earlier(s.swin, b)
        BY <3>1
      <4> QED BY <1>5, <2>2, <3>3, <4>1, <4>2 DEF ValidFromLatest
    <3> QED BY <3>2, <3>3
  <2>3. CASE s.sbasis # Dated
    BY <1>1, <1>5, <2>1, <2>3 DEF ValidFromLatest, Earlier, Later
  <2> QED BY <2>2, <2>3
<1>7. Narrowing!Narrowed(s, t)
  BY <1>5, <1>8, SameEdges DEF Narrowing!Narrowed, Narrowing!EndNarrowed, Narrowing!Derived, Derived,
              Narrowing!SingleHolderKinds, SingleHolderKinds, Narrowing!House, House,
              Narrowing!Senate, Senate
<1> QED BY <1>3, <1>6, <1>7

\* A start opened on a boundary inside the tenure narrows it.
LEMMA OpenedAtNarrows ==
  ASSUME NEW s \in Span, NEW b \in Nat,
         s.kind \in SingleHolderKinds, ~Narrowing!StartStatedToTheDay(s),
         s.from <= b, b < s.to, InBiennium(b, s.sb)
  PROVE  OpenedAt(s, b) \in Span /\ Narrowing!Narrowed(s, OpenedAt(s, b))
<1> DEFINE w == Later(s.ewin, b)
           new == IF s.ewin = NoDay \/ w = s.to THEN NoDay ELSE w
<1> USE OpenIsNat
<1>0. s \in Typed
  BY SpanIsTyped
<1>1. /\ s.from \in Nat /\ s.to \in Nat /\ s.swin \in Int /\ s.ewin \in Int
      /\ s.ewin # NoDay => /\ s.ebasis = Dated /\ s.to # Open
                           /\ s.from <= s.ewin /\ s.ewin <= s.to
      /\ s.to <= Open /\ (s.ebasis = OpenEnd <=> s.to = Open)
  BY <1>0, SpanFacts DEF Typed
<1>2. /\ new \in Int
      /\ new # NoDay => s.ebasis = Dated /\ s.to # Open /\ b <= new /\ new <= s.to
  BY <1>1 DEF Later, NoDay
<1> DEFINE t == [s EXCEPT !.from = b, !.sbasis = Derived, !.swin = NoDay, !.ewin = new]
<1>3. OpenedAt(s, b) = t
  BY DEF OpenedAt
<1> HIDE DEF new, w
<1>4. t \in Typed
  <2>1. Derived \in StartBases /\ NoDay \in Int /\ new \in Int
    BY <1>2 DEF StartBases, NoDay
  <2> QED BY <1>0, <2>1 DEF Typed
<1>5. /\ t.from = b /\ t.sbasis = Derived /\ t.swin = NoDay /\ t.ewin = new
      /\ t.to = s.to /\ t.ebasis = s.ebasis
      /\ <<t.mem, t.kind, t.disc, t.sb, t.eb, t.type>> = <<s.mem, s.kind, s.disc, s.sb, s.eb, s.type>>
  BY <1>0 DEF Typed
<1> HIDE DEF t
<1>6. t \in Span
  BY <1>1, <1>2, <1>4, <1>5, SpanFacts DEF NoDay
<1>8. ValidToEarliest(t) = Later(ValidToEarliest(s), t.from)
  <2>1. s.eb \in Int /\ t.eb = s.eb /\ FirstDay(s.eb) \in Int
    BY <1>0, <1>5, BienniumDays DEF Typed
  <2>2. CASE s.ebasis = Dated /\ s.to # Open
    <3>1. new = IF s.ewin = NoDay \/ Later(s.ewin, b) = s.to THEN NoDay ELSE Later(s.ewin, b)
      BY DEF new, w
    <3>2. CASE s.ewin = NoDay
      <4>1. new = NoDay
        BY <3>1, <3>2
      <4> QED BY <1>1, <1>5, <2>2, <3>2, <4>1 DEF ValidToEarliest, Later
    <3>3. CASE s.ewin # NoDay
      <4>1. new = NoDay => Later(s.ewin, b) = s.to
        BY <1>1, <3>1, <3>3 DEF Later, NoDay
      <4>2. new # NoDay => new = Later(s.ewin, b)
        BY <3>1
      <4> QED BY <1>5, <2>2, <3>3, <4>1, <4>2 DEF ValidToEarliest
    <3> QED BY <3>2, <3>3
  <2>3. CASE s.to = Open
    BY <1>1, <1>5, <2>3 DEF ValidToEarliest, Later
  <2>4. CASE s.ebasis # Dated /\ s.to # Open
    BY <1>1, <1>5, <2>1, <2>4 DEF ValidToEarliest, Earlier, Later
  <2> QED BY <2>2, <2>3, <2>4
<1>7. Narrowing!Narrowed(s, t)
  BY <1>5, <1>8, SameEdges DEF Narrowing!Narrowed, Narrowing!StartNarrowed, Narrowing!Derived, Derived,
              Narrowing!SingleHolderKinds, SingleHolderKinds, Narrowing!House, House,
              Narrowing!Senate, Senate, Narrowing!InBiennium, InBiennium,
              Narrowing!FirstDay, FirstDay, Narrowing!LastDay, LastDay
<1> QED BY <1>3, <1>6, <1>7

-----------------------------------------------------------------------------
(* Every resolution narrows.                                                *)

\* The instance's copies of the calendar say what this module's do.
LEMMA SameCalendar ==
  ASSUME NEW s
  PROVE  /\ Narrowing!StartStatedToTheDay(s) <=> s.sbasis = Dated /\ DayStart(s)
         /\ Narrowing!EndStatedToTheDay(s) <=> s.ebasis = Dated /\ ValidToEarliest(s) = s.to
BY SameEdges DEF Narrowing!StartStatedToTheDay, Narrowing!EndStatedToTheDay, DayStart,
                 Narrowing!Dated, Dated

LEMMA SameSpans == Narrowing!Span = Span
BY DEF Narrowing!Span, Span, Narrowing!Kinds, Kinds, Narrowing!StartBases, StartBases,
       Narrowing!BoundaryBases, BoundaryBases, Narrowing!Principal, Principal,
       Narrowing!Substitute, Substitute, Narrowing!WellFormed, WellFormed,
       Narrowing!StartWindowFits, StartWindowFits, Narrowing!EndWindowFits, EndWindowFits,
       Narrowing!House, House, Narrowing!Senate, Senate, Narrowing!Committee, Committee,
       Narrowing!Party, Party, Narrowing!Dated, Dated, Narrowing!Observed, Observed,
       Narrowing!Derived, Derived, Narrowing!OpenEnd, OpenEnd, Narrowing!NoDay, NoDay,
       Narrowing!Open, Open

\* A narrowing in this module's terms.
StartEdgeNarrowed(s, t) ==
  /\ t.sb = s.sb /\ t.eb = s.eb /\ t.from < t.to
  /\ s.from <= t.from /\ InBiennium(t.from, s.sb) /\ t.sbasis = Derived
  /\ t.to = s.to /\ t.ebasis = s.ebasis
  /\ ValidToEarliest(t) = Later(ValidToEarliest(s), t.from)
EndEdgeNarrowed(s, t) ==
  /\ t.sb = s.sb /\ t.eb = s.eb /\ t.from < t.to
  /\ t.to <= s.to /\ t.ebasis = Derived
  /\ t.from = s.from /\ t.sbasis = s.sbasis
  /\ ValidFromLatest(t) = Earlier(ValidFromLatest(s), t.to)

LEMMA NarrowedEdges ==
  ASSUME NEW s, NEW t, Narrowing!Narrowed(s, t)
  PROVE  StartEdgeNarrowed(s, t) \/ EndEdgeNarrowed(s, t)
BY SameEdges DEF Narrowing!Narrowed, Narrowing!StartNarrowed, Narrowing!EndNarrowed,
     StartEdgeNarrowed, EndEdgeNarrowed, Narrowing!Derived, Derived, Narrowing!InBiennium,
     InBiennium, Narrowing!LastDay, LastDay, Narrowing!FirstDay, FirstDay

\* A stated start lies before the open end, a stated exit too.
LEMMA StatedEdges ==
  ASSUME NEW s \in Span
  PROVE  /\ s.from \in Nat /\ s.to \in Nat /\ s.to <= Open
         /\ StatedStart(s) => ValidFromLatest(s) \in Nat /\ ValidFromLatest(s) < Open
         /\ StatesExit(s) => /\ ValidToEarliest(s) \in Nat /\ ValidToEarliest(s) < Open
                             /\ s.to < Open
         /\ QuantizedExit(s) => s.to < Open /\ ~StatesExit(s)
<1>1. s \in Typed
  BY SpanIsTyped
<1>2. /\ s.from \in Nat /\ s.to \in Nat /\ s.swin \in Int /\ s.ewin \in Int
  BY <1>1 DEF Typed
<1>3. /\ s.ebasis = OpenEnd <=> s.to = Open
      /\ s.swin # NoDay => s.from <= s.swin
      /\ s.ewin # NoDay => s.from <= s.ewin /\ s.ewin <= s.to
      /\ s.from < Open /\ s.to <= Open /\ s.swin < Open
  BY <1>1, SpanFacts
<1>4. StatedStart(s) => ValidFromLatest(s) \in Nat /\ ValidFromLatest(s) < Open
  BY <1>2, <1>3, OpenIsNat DEF StatedStart, ValidFromLatest
<1>5. StatesExit(s) => s.to < Open /\ s.to # Open
  BY <1>2, <1>3, OpenIsNat DEF StatesExit, Dated, OpenEnd
<1>6. StatesExit(s) => ValidToEarliest(s) \in Nat /\ ValidToEarliest(s) < Open
  BY <1>2, <1>3, <1>5, OpenIsNat DEF StatesExit, ValidToEarliest
<1>7. QuantizedExit(s) => s.to < Open /\ ~StatesExit(s)
  BY <1>2, <1>3, OpenIsNat DEF QuantizedExit, StatesExit, Observed, OpenEnd, Dated
<1> QED BY <1>2, <1>3, <1>4, <1>5, <1>6, <1>7

\* A member's move leaves the list alone or narrows one chamber seat.
LEMMA MoveNarrows ==
  ASSUME NEW spans \in Seq(Span), NEW i \in DOMAIN spans, NEW j \in DOMAIN spans,
         spans[i].kind \in SingleHolderKinds, Moves(spans[i], spans[j])
  PROVE  LET t == ClosedAt(spans[i], Earlier(ValidFromLatest(spans[j]), spans[i].to))
         IN t \in Span /\ Narrowing!Narrowed(spans[i], t)
<1> DEFINE old == spans[i]
           new == spans[j]
           b == Earlier(ValidFromLatest(new), old.to)
<1>1. old \in Span /\ new \in Span
  OBVIOUS
<1>2. QuantizedExit(old) /\ StatedStart(new) /\ b > old.from
  BY DEF Moves
<1> HIDE DEF old, new
<1>3. b \in Nat /\ b <= old.to /\ b < Open
  BY <1>1, <1>2, StatedEdges, OpenIsNat DEF Earlier
<1>4. old.from < b
  BY <1>1, <1>2, <1>3, StatedEdges
<1>5. ~Narrowing!EndStatedToTheDay(old)
  BY <1>1, <1>2, StatedEdges, SameCalendar DEF StatesExit
<1>6. old.kind \in SingleHolderKinds
  BY DEF old
<1> HIDE DEF b
<1>7. ClosedAt(old, b) \in Span /\ Narrowing!Narrowed(old, ClosedAt(old, b))
  BY <1>1, <1>3, <1>4, <1>5, <1>6, ClosedAtNarrows
<1> QED BY <1>7 DEF old, new, b

\* The successor of a stated exit.
LEMMA OnExitNarrows ==
  ASSUME NEW pred \in Span, NEW succ \in Span, succ.kind \in SingleHolderKinds,
         StatesExit(pred), ~Narrowing!StartStatedToTheDay(succ),
         "reason" \notin DOMAIN OnExit(pred, succ)
  PROVE  /\ OnExit(pred, succ).side = "succ"
         /\ OnExit(pred, succ).span \in Span
         /\ Narrowing!Narrowed(succ, OnExit(pred, succ).span)
<1> DEFINE b == Later(ValidToEarliest(pred), succ.from)
<1>1. OnExit(pred, succ) = [side |-> "succ", span |-> OpenedAt(succ, b)]
      /\ ~(succ.to # Open /\ b >= succ.to) /\ InBiennium(b, succ.sb)
  BY DEF OnExit
<1>2. b \in Nat /\ succ.from <= b
  BY StatedEdges DEF Later
<1>3. succ.from < Open
  BY SpanIsTyped, SpanFacts
<1>4. b < succ.to
  BY <1>1, <1>2, <1>3, StatedEdges, OpenIsNat DEF Later
<1> HIDE DEF b
<1>5. OpenedAt(succ, b) \in Span /\ Narrowing!Narrowed(succ, OpenedAt(succ, b))
  BY <1>1, <1>2, <1>4, OpenedAtNarrows
<1> QED BY <1>1, <1>5

\* The predecessor of a stated start.
LEMMA OnStartNarrows ==
  ASSUME NEW pred \in Span, NEW succ \in Span, pred.kind \in SingleHolderKinds,
         StatedStart(succ), ~Narrowing!EndStatedToTheDay(pred),
         "reason" \notin DOMAIN OnStart(pred, succ)
  PROVE  /\ OnStart(pred, succ).side = "pred"
         /\ OnStart(pred, succ).span \in Span
         /\ Narrowing!Narrowed(pred, OnStart(pred, succ).span)
<1> DEFINE b == Earlier(ValidFromLatest(succ), pred.to)
<1>1. OnStart(pred, succ) = [side |-> "pred", span |-> ClosedAt(pred, b)] /\ ~(b <= pred.from)
  BY DEF OnStart
<1>2. b \in Nat /\ b <= pred.to /\ b < Open
  BY StatedEdges, OpenIsNat DEF Earlier
<1>3. pred.from < b
  BY <1>1, <1>2, StatedEdges
<1> HIDE DEF b
<1>4. ClosedAt(pred, b) \in Span /\ Narrowing!Narrowed(pred, ClosedAt(pred, b))
  BY <1>2, <1>3, ClosedAtNarrows
<1> QED BY <1>1, <1>4

\* Two principals of a seat: the evidence's other side narrows, or the pair is declined.
LEMMA HandoffNarrows ==
  ASSUME NEW pred \in Span, NEW succ \in Span,
         pred.kind \in SingleHolderKinds, succ.kind \in SingleHolderKinds,
         "reason" \notin DOMAIN Handoff(pred, succ)
  PROVE  LET out == Handoff(pred, succ)
         IN \/ out.side = "succ" /\ out.span \in Span /\ Narrowing!Narrowed(succ, out.span)
            \/ out.side = "pred" /\ out.span \in Span /\ Narrowing!Narrowed(pred, out.span)
<1>1. \A r : "reason" \in DOMAIN [reason |-> r]
  OBVIOUS
<1>2. Evidence(pred, succ) \in {"exit", "start"} /\ ~MultiHolder(pred, succ)
  BY <1>1 DEF Handoff
<1>3. CASE Evidence(pred, succ) = "exit"
  <2>1. Handoff(pred, succ) = OnExit(pred, succ)
    BY <1>2, <1>3 DEF Handoff
  <2>2. StatesExit(pred) /\ ~(StatedStart(succ) /\ DayStart(succ))
    BY <1>3 DEF Evidence, DayInStartWindow, BothDated, NeitherDated
  <2>3. ~Narrowing!StartStatedToTheDay(succ)
    BY <2>2, SameCalendar DEF StatedStart
  <2> QED BY <2>1, <2>2, <2>3, OnExitNarrows
<1>4. CASE Evidence(pred, succ) = "start"
  <2>1. Handoff(pred, succ) = OnStart(pred, succ)
    BY <1>2, <1>4 DEF Handoff
  <2>2. StatedStart(succ) /\ ~(StatesExit(pred) /\ DayEnd(pred))
    BY <1>4 DEF Evidence, DayInEndWindow, BothDated, NeitherDated
  <2>3. ~Narrowing!EndStatedToTheDay(pred)
    BY <2>2, SameCalendar, StatedEdges DEF StatesExit, DayEnd
  <2> QED BY <2>1, <2>2, <2>3, OnStartNarrows
<1> QED BY <1>2, <1>3, <1>4

\* A list of spans with at most one of them narrowed.
OneNarrowed(spans, new) ==
  \/ new = spans
  \/ \E k \in DOMAIN spans : \E t \in Span :
       Narrowing!Narrowed(spans[k], t) /\ new = [spans EXCEPT ![k] = t]

LEMMA ResolveMoveNarrows ==
  ASSUME NEW spans \in Seq(Span), NEW i \in DOMAIN spans, NEW j \in DOMAIN spans,
         spans[i].kind \in SingleHolderKinds
  PROVE  OneNarrowed(spans, ResolveMove(spans, i, j))
<1>1. CASE ~Moves(spans[i], spans[j])
  BY <1>1 DEF ResolveMove, OneNarrowed
<1>2. CASE Moves(spans[i], spans[j])
  <2> DEFINE t == ClosedAt(spans[i], Earlier(ValidFromLatest(spans[j]), spans[i].to))
  <2>1. t \in Span /\ Narrowing!Narrowed(spans[i], t)
    BY <1>2, MoveNarrows
  <2>2. ResolveMove(spans, i, j) = [spans EXCEPT ![i] = t]
    BY <1>2 DEF ResolveMove
  <2> HIDE DEF t
  <2> QED BY <2>1, <2>2 DEF OneNarrowed
<1> QED BY <1>1, <1>2

LEMMA ResolvePairNarrows ==
  ASSUME NEW spans \in Seq(Span), NEW i \in DOMAIN spans, NEW j \in DOMAIN spans,
         spans[i].kind \in SingleHolderKinds, spans[j].kind \in SingleHolderKinds
  PROVE  OneNarrowed(spans, ResolvePair(spans, i, j).spans)
<1> DEFINE p == IF InOrder(spans[i], spans[j]) THEN i ELSE j
           q == IF InOrder(spans[i], spans[j]) THEN j ELSE i
           out == Handoff(spans[p], spans[q])
           k == IF out.side = "succ" THEN q ELSE p
           skip == spans[i].mem = spans[j].mem \/ ~Overlaps(spans[i], spans[j])
<1>1. p \in DOMAIN spans /\ q \in DOMAIN spans
      /\ spans[p].kind \in SingleHolderKinds /\ spans[q].kind \in SingleHolderKinds
  OBVIOUS
<1>2. ResolvePair(spans, i, j).spans =
        IF skip \/ "reason" \in DOMAIN out THEN spans ELSE [spans EXCEPT ![k] = out.span]
  BY DEF ResolvePair
<1> HIDE DEF p, q, skip
<1>3. spans[p] \in Span /\ spans[q] \in Span
  BY <1>1
<1>4. CASE skip \/ "reason" \in DOMAIN out
  BY <1>2, <1>4 DEF OneNarrowed
<1>5. CASE ~(skip \/ "reason" \in DOMAIN out)
  <2>1. \/ out.side = "succ" /\ out.span \in Span /\ Narrowing!Narrowed(spans[q], out.span)
        \/ out.side = "pred" /\ out.span \in Span /\ Narrowing!Narrowed(spans[p], out.span)
    BY <1>1, <1>3, <1>5, HandoffNarrows
  <2> HIDE DEF out
  <2>2. k \in DOMAIN spans /\ out.span \in Span /\ Narrowing!Narrowed(spans[k], out.span)
    BY <1>1, <2>1
  <2> HIDE DEF k
  <2> QED BY <1>2, <1>5, <2>2 DEF OneNarrowed
<1> QED BY <1>4, <1>5

-----------------------------------------------------------------------------
(* The invariant and the refinement.                                        *)

Held(spans, pairs) ==
  \A p \in pairs : \A n \in {p.i, p.j} :
    n \in DOMAIN spans /\ spans[n].kind \in SingleHolderKinds

LEMMA PairsAreOf ==
  ASSUME NEW P, NEW G, NEW K, NEW p \in PairsOf(P, G, K)
  PROVE  p.i \in P /\ p.j \in P
<1> DEFINE at(a) == G[a[1]] \o K[a[1]] \o <<a[1]>> \o K[a[2]] \o <<a[2]>>
           Q == {q \in P \X P : /\ G[q[1]] = G[q[2]]
                                /\ Precedes(K[q[1]] \o <<q[1]>>, K[q[2]] \o <<q[2]>>)}
<1>1. PairsOf(P, G, K) = {[i |-> a[1], j |-> a[2], at |-> at(a)] : a \in Q}
  BY DEF PairsOf
<1>2. Q \subseteq P \X P
  OBVIOUS
<1> HIDE DEF at, Q
<1>3. PICK a \in Q : p = [i |-> a[1], j |-> a[2], at |-> at(a)]
  BY <1>1
<1>4. p.i = a[1] /\ p.j = a[2] /\ a \in P \X P
  BY <1>2, <1>3
<1> QED BY <1>4

\* A pass visits positions of chamber seats only.
LEMMA MovePairsHeld == ASSUME NEW spans PROVE Held(spans, MovePairs(spans))
BY PairsAreOf DEF Held, MovePairs

LEMMA SeatPairsHeld == ASSUME NEW spans PROVE Held(spans, SeatPairs(spans))
BY PairsAreOf DEF Held, SeatPairs

\* Narrowing keeps the list, its positions and what each span is.
LEMMA NarrowingKeeps ==
  ASSUME NEW spans \in Seq(Span), NEW new, OneNarrowed(spans, new),
         NEW pairs, Held(spans, pairs)
  PROVE  new \in Seq(Span) /\ Held(new, pairs)
<1>1. CASE new = spans
  BY <1>1
<1>2. ASSUME NEW k \in DOMAIN spans, NEW t \in Span, Narrowing!Narrowed(spans[k], t),
             new = [spans EXCEPT ![k] = t]
      PROVE  new \in Seq(Span) /\ Held(new, pairs)
  <2>1. new \in Seq(Span) /\ DOMAIN new = DOMAIN spans
    BY <1>2
  <2>2. t.kind = spans[k].kind
    BY <1>2 DEF Narrowing!Narrowed
  <2>3. \A n \in DOMAIN spans : new[n].kind = spans[n].kind
    BY <1>2, <2>2
  <2> QED BY <2>1, <2>3 DEF Held
<1> QED BY <1>1, <1>2 DEF OneNarrowed

\* The step of the clip, seen from the list.
LEMMA ClipStep ==
  ASSUME ClipTypeOK, [ClipNext]_clipVars
  PROVE  ClipTypeOK' /\ OneNarrowed(work, work')
<1> USE DEF ClipTypeOK
<1>0. Held(work, pending)
  BY DEF Held
<1>1. CASE ClipMove
  <2>1. PICK p \in pending : work' = ResolveMove(work, p.i, p.j) /\ pending' = pending \ {p}
    BY <1>1 DEF ClipMove
  <2>2. OneNarrowed(work, work')
    BY <2>1, ResolveMoveNarrows
  <2>3. Held(work, pending')
    BY <1>0, <2>1 DEF Held
  <2> QED BY <2>2, <2>3, NarrowingKeeps DEF Held
<1>2. CASE TurnToSeats
  BY <1>2, SeatPairsHeld DEF TurnToSeats, OneNarrowed, Held
<1>3. CASE ClipPair
  <2>1. PICK p \in pending : work' = ResolvePair(work, p.i, p.j).spans /\ pending' = pending \ {p}
    BY <1>3 DEF ClipPair
  <2>2. OneNarrowed(work, work')
    BY <2>1, ResolvePairNarrows
  <2>3. Held(work, pending')
    BY <1>0, <2>1 DEF Held
  <2> QED BY <2>2, <2>3, NarrowingKeeps DEF Held
<1>4. CASE FinishClip
  BY <1>4 DEF FinishClip, OneNarrowed
<1>5. CASE UNCHANGED clipVars
  BY <1>5 DEF clipVars, OneNarrowed
<1> QED BY <1>1, <1>2, <1>3, <1>4, <1>5 DEF ClipNext

\* Whatever spans, calendar and capacity the clip is given, every list it passes through is
\* one its constructor accepts, and it visits chamber seats only.
THEOREM ClipTypeCorrect == ClipSpec => []ClipTypeOK
<1>1. ClipInit => ClipTypeOK
  BY MovePairsHeld DEF ClipInit, ClipTypeOK, Held
<1>2. ClipTypeOK /\ [ClipNext]_clipVars => ClipTypeOK'
  BY ClipStep
<1> QED BY <1>1, <1>2, PTL DEF ClipSpec

\* The clip implements SpanNarrowing: a step narrows one edge of one chamber tenure, never an
\* edge stated to the day, leaves it some length and keeps who, where, when it was keyed and
\* its place in the list.
THEOREM ClipNarrowsOnly == ClipSpec => NarrowsOnly
<1>1. ClipInit => Narrowing!Init
  BY SameSpans DEF ClipInit, Narrowing!Init
<1>2. ClipTypeOK /\ [ClipNext]_clipVars => [Narrowing!Load \/ Narrowing!Narrow]_work
  <2> SUFFICES ASSUME ClipTypeOK, [ClipNext]_clipVars
               PROVE  work' = work \/ Narrowing!Narrow
    OBVIOUS
  <2>1. CASE work' = work
    BY <2>1
  <2>2. ASSUME NEW k \in DOMAIN work, NEW t \in Span, Narrowing!Narrowed(work[k], t),
               work' = [work EXCEPT ![k] = t]
        PROVE  Narrowing!Narrow
    <3>1. work'[k] = t
      BY <2>2 DEF ClipTypeOK
    <3> QED BY <2>2, <3>1 DEF Narrowing!Narrow
  <2> QED BY <2>1, <2>2, ClipStep DEF OneNarrowed
<1> QED BY <1>1, <1>2, ClipTypeCorrect, PTL DEF ClipSpec, NarrowsOnly, Narrowing!Spec

\* Induction on the naturals, for a set of numbers.
LEMMA SetInduction ==
    ASSUME NEW S, 0 \in S, \A n \in Nat : n \in S => n + 1 \in S
    PROVE  Nat \subseteq S
<1> DEFINE Smaller == OpToRel(<, Nat)
<1>1. IsWellFoundedOn(Smaller, Nat)
  BY NatLessThanWellFounded
<1>2. \A m, n \in Nat : <<n, m>> \in Smaller <=> n < m
  BY DEF OpToRel
<1> HIDE DEF Smaller
<1>3. SUFFICES ASSUME NEW Rest \in SUBSET Nat, Rest = Nat \ S, Rest # {} PROVE FALSE
  OBVIOUS
<1>4. PICK m \in Rest : \A n \in Rest : ~(<<n, m>> \in Smaller)
  BY <1>1, <1>3, WFMin
<1>5. m \in Nat /\ m \notin S /\ m # 0
  BY <1>3
<1>6. m - 1 \in Nat /\ m - 1 < m /\ (m - 1) + 1 = m
  BY <1>5
<1>7. m - 1 \in S
  BY <1>2, <1>3, <1>4, <1>5, <1>6
<1> QED BY <1>5, <1>6, <1>7

\* Every set of numbers with a member has a least one.
LEMMA HasLeast ==
  ASSUME NEW S \in SUBSET Nat, S # {}
  PROVE  \E x \in S : \A y \in S : x <= y
<1> DEFINE Smaller == OpToRel(<, Nat)
<1>1. IsWellFoundedOn(Smaller, Nat)
  BY NatLessThanWellFounded
<1>2. \A m, n \in Nat : <<n, m>> \in Smaller <=> n < m
  BY DEF OpToRel
<1> HIDE DEF Smaller
<1>3. PICK m \in S : \A n \in S : ~(<<n, m>> \in Smaller)
  BY <1>1, WFMin
<1>4. \A n \in S : n \in Nat /\ m \in Nat /\ ~(n < m)
  BY <1>2, <1>3
<1>5. \A n \in S : m <= n
  BY <1>4
<1> QED BY <1>5

\* And a greatest one when it is bounded.
LEMMA HasMost ==
  ASSUME NEW S \in SUBSET Nat, S # {}, NEW B \in Nat, \A x \in S : x <= B
  PROVE  \E x \in S : \A y \in S : y <= x
<1> DEFINE T == {B - x : x \in S}
<1>1. T \in SUBSET Nat /\ T # {}
  <2>1. \A x \in S : B - x \in Nat
    OBVIOUS
  <2> QED BY <2>1
<1>2. \A x \in S : x \in Int
  OBVIOUS
<1>3. \A x \in S : B - x \in T
  OBVIOUS
<1>4. \A t \in T : \E x \in S : t = B - x
  OBVIOUS
<1> HIDE DEF T
<1>5. PICK t \in T : \A u \in T : t <= u
  BY <1>1, HasLeast
<1>6. PICK x \in S : t = B - x
  BY <1>4
<1>7. ASSUME NEW y \in S PROVE y <= x
  BY <1>2, <1>3, <1>5, <1>6
<1> QED BY <1>7

\* A step that stays in V defines a recursive function of V.
Unfolds(f, N, a, G) == f = [n \in 0..N |-> IF n = 0 THEN a ELSE G[<<n, f[n - 1]>>]]

\* A recursion over a step that stays in V has a solution, and it stays in V.
LEMMA RecursionExists ==
  ASSUME NEW V, NEW a \in V, NEW N \in Nat, NEW G \in [(1..N) \X V -> V]
  PROVE  \E f \in [0..N -> V] : Unfolds(f, N, a, G)
<1> DEFINE Solved == {n \in Nat : n <= N => \E f \in [0..n -> V] : Unfolds(f, n, a, G)}
<1>1. 0 \in Solved
  <2> DEFINE f == [n \in 0..0 |-> a]
  <2>1. f \in [0..0 -> V] /\ Unfolds(f, 0, a, G)
    BY DEF Unfolds
  <2> QED BY <2>1
<1>2. ASSUME NEW n \in Nat, n \in Solved PROVE n + 1 \in Solved
  <2> SUFFICES ASSUME n + 1 <= N PROVE \E f \in [0..(n + 1) -> V] : Unfolds(f, n + 1, a, G)
    OBVIOUS
  <2>1. PICK f \in [0..n -> V] : Unfolds(f, n, a, G)
    BY <1>2
  <2>2. G[<<n + 1, f[n]>>] \in V
    <3>1. f[n] \in V /\ n + 1 \in 1..N
      BY <2>1
    <3>2. <<n + 1, f[n]>> \in (1..N) \X V
      BY <3>1
    <3> QED BY <3>2
  <2> DEFINE g == [k \in 0..(n + 1) |-> IF k = n + 1 THEN G[<<n + 1, f[n]>>] ELSE f[k]]
  <2>3. g \in [0..(n + 1) -> V]
    BY <2>2
  <2>4. ASSUME NEW k \in 0..(n + 1)
        PROVE  g[k] = IF k = 0 THEN a ELSE G[<<k, g[k - 1]>>]
    <3>1. CASE k = n + 1
      <4>1. k # 0 /\ k - 1 = n /\ n \in 0..(n + 1) /\ n # n + 1
        BY <3>1
      <4>2. g[n] = f[n] /\ g[k] = G[<<n + 1, f[n]>>]
        BY <3>1, <4>1
      <4> QED BY <3>1, <4>1, <4>2
    <3>2. CASE k # n + 1
      <4>1. k \in 0..n /\ (k # 0 => k - 1 \in 0..(n + 1) /\ k - 1 # n + 1)
        BY <3>2
      <4>2. f[k] = IF k = 0 THEN a ELSE G[<<k, f[k - 1]>>]
        BY <2>1, <4>1 DEF Unfolds
      <4> QED BY <3>2, <4>1, <4>2
    <3> QED BY <3>1, <3>2
  <2>5. Unfolds(g, n + 1, a, G)
    BY <2>4 DEF Unfolds
  <2> QED BY <2>3, <2>5
<1> HIDE DEF Solved
<1>3. Nat \subseteq Solved
  BY <1>1, <1>2, SetInduction
<1> QED BY <1>3 DEF Solved

\* What holds at 0 and is kept by each step holds to the end.
LEMMA RunStays ==
  ASSUME NEW f, NEW N \in Nat, NEW V, f[0] \in V,
         \A n \in 1..N : f[n - 1] \in V => f[n] \in V
  PROVE  \A n \in 0..N : f[n] \in V
<1> DEFINE Holds == {n \in Nat : n <= N => f[n] \in V}
<1>1. 0 \in Holds
  OBVIOUS
<1>2. ASSUME NEW n \in Nat, n \in Holds PROVE n + 1 \in Holds
  <2>1. CASE n + 1 <= N
    <3>1. n + 1 \in 1..N /\ (n + 1) - 1 = n /\ f[n] \in V
      BY <1>2, <2>1
    <3> QED BY <3>1
  <2> QED BY <2>1
<1> HIDE DEF Holds
<1>3. Nat \subseteq Holds
  BY <1>1, <1>2, SetInduction
<1> QED BY <1>3 DEF Holds

-----------------------------------------------------------------------------
(* The calendar.                                                            *)

\* A biennium's days end before the next one's begin.
LEMMA Scaled ==
  ASSUME NEW a \in Int, NEW b \in Int, a < b
  PROVE  a * Length + Length <= b * Length
<1> DEFINE k == b - a - 1
<1>1. k \in Nat /\ b = a + 1 + k
  OBVIOUS
<1>2. Length \in Nat /\ k * Length >= 0
  BY <1>1, CalendarAssumption
<1> HIDE DEF k
<1>3. (a + 1 + k) * Length = a * Length + Length + k * Length
  BY <1>1, <1>2
<1> QED BY <1>1, <1>2, <1>3

\* Bienniums follow one another and cover the days before Open.
LEMMA Calendar ==
  /\ \A b \in Int : /\ FirstDay(b) \in Int /\ LastDay(b) \in Int /\ FirstDay(b) < LastDay(b)
                    /\ b \in Nat => FirstDay(b) \in Nat
  /\ \A a, b \in Int : a < b => LastDay(a) < FirstDay(b)
  /\ \A a, b \in Int : a <= b => LastDay(a) <= LastDay(b)
  /\ \A b \in Biennia : FirstDay(b) \in Nat /\ LastDay(b) \in Nat /\ LastDay(b) < Open
  /\ Open \in Nat /\ Days = 0..(Open - 1)
<1>1. Length \in Nat /\ Length > 1
  BY CalendarAssumption
<1>2. ASSUME NEW b \in Int
      PROVE  FirstDay(b) \in Int /\ LastDay(b) \in Int /\ FirstDay(b) < LastDay(b)
  BY <1>1 DEF FirstDay, LastDay
<1>3. ASSUME NEW b \in Nat PROVE FirstDay(b) \in Nat
  BY <1>1 DEF FirstDay
<1>4. ASSUME NEW a \in Int, NEW b \in Int, a < b PROVE LastDay(a) < FirstDay(b)
  <2>1. a * Length + Length <= b * Length
    BY <1>4, Scaled
  <2> QED BY <1>1, <2>1 DEF LastDay, FirstDay
<1>5. ASSUME NEW a \in Int, NEW b \in Int, a <= b PROVE LastDay(a) <= LastDay(b)
  <2>1. CASE a = b
    BY <2>1, <1>2
  <2>2. CASE a < b
    BY <1>2, <1>4, <2>2
  <2> QED BY <1>5, <2>1, <2>2
<1>6. Open \in Nat /\ Open = FirstDay(LastBiennium + 1) /\ Days = 0..(Open - 1)
  BY <1>1, CalendarAssumption DEF Open, FirstDay, Days
<1>7. ASSUME NEW b \in Biennia
      PROVE  FirstDay(b) \in Nat /\ LastDay(b) \in Nat /\ LastDay(b) < Open
  <2>1. b \in Nat /\ b < LastBiennium + 1 /\ LastBiennium + 1 \in Int
    BY CalendarAssumption DEF Biennia
  <2> QED BY <1>2, <1>3, <1>4, <1>6, <2>1, SMTT(20)
<1> QED BY <1>2, <1>3, <1>4, <1>5, <1>6, <1>7

\* A day lies in the biennium BienniumOf names.
LEMMA DayOf ==
  ASSUME NEW d \in Nat
  PROVE  /\ BienniumOf(d) \in Nat
         /\ FirstDay(BienniumOf(d)) <= d /\ d <= LastDay(BienniumOf(d))
         /\ d < Open => BienniumOf(d) \in Biennia
         /\ \A b \in Int : BienniumOf(d) <= b <=> d <= LastDay(b)
<1> DEFINE q == BienniumOf(d)
<1>1. Length \in Nat /\ Length > 1
  BY CalendarAssumption
<1>2. q \in Nat /\ q * Length <= d /\ d < q * Length + Length
  <2>1. q \in Int /\ d = Length * q + (d % Length) /\ d % Length \in 0..(Length - 1)
    BY <1>1 DEF BienniumOf
  <2>2. Length * q = q * Length
    BY <1>1, <2>1
  <2>3. q >= 0
    BY <1>1 DEF BienniumOf
  <2> HIDE DEF q
  <2> QED BY <1>1, <2>1, <2>2, <2>3
<1> HIDE DEF q
<1>3. FirstDay(q) <= d /\ d <= LastDay(q)
  BY <1>1, <1>2 DEF FirstDay, LastDay
<1>4. ASSUME NEW b \in Int PROVE q <= b <=> d <= LastDay(b)
  <2>1. q <= b => LastDay(q) <= LastDay(b)
    BY <1>2, Calendar
  <2>2. b < q => LastDay(b) < FirstDay(q)
    BY <1>2, Calendar
  <2>3. LastDay(q) \in Int /\ LastDay(b) \in Int /\ FirstDay(q) \in Int
    BY <1>2, Calendar
  <2> QED BY <1>2, <1>3, <2>1, <2>2, <2>3
<1>5. ASSUME d < Open PROVE q \in Biennia
  <2>1. LastBiennium \in Nat /\ Open = LastDay(LastBiennium) + 1
    BY <1>1, CalendarAssumption DEF Open, LastDay, FirstDay
  <2>2. LastDay(LastBiennium) \in Int
    BY <2>1, Calendar
  <2>3. d <= LastDay(LastBiennium)
    BY <1>5, <2>1, <2>2
  <2>4. q <= LastBiennium
    BY <1>4, <2>1, <2>3
  <2> QED BY <1>2, <2>1, <2>4 DEF Biennia
<1> QED BY <1>2, <1>3, <1>4, <1>5 DEF q

-----------------------------------------------------------------------------
(* Ranks.                                                                   *)

\* A strict total order of a set, and what is below one of its members.
Orders(P, R) ==
  /\ \A i \in P : <<i, i>> \notin R
  /\ \A i, j, k \in P : <<i, j>> \in R /\ <<j, k>> \in R => <<i, k>> \in R
  /\ \A i, j \in P : i # j => <<i, j>> \in R \/ <<j, i>> \in R
Below(P, R, i) == {j \in P : <<j, i>> \in R}

\* A strict total order of a finite set has a member of every rank.
LEMMA RanksCover ==
  ASSUME NEW P, IsFiniteSet(P), NEW R, Orders(P, R)
  PROVE  /\ Cardinality(P) \in Nat
         /\ \A n \in 1..Cardinality(P) : \E i \in P : Cardinality(Below(P, R, i)) = n - 1
<1> DEFINE Low(i) == Below(P, R, i)
           N == Cardinality(P)
           rank == [i \in P |-> Cardinality(Low(i)) + 1]
<1>a. /\ \A i \in P : <<i, i>> \notin R
      /\ \A i, j, k \in P : <<i, j>> \in R /\ <<j, k>> \in R => <<i, k>> \in R
      /\ \A i, j \in P : i # j => <<i, j>> \in R \/ <<j, i>> \in R
  BY DEF Orders
<1>1. N \in Nat
  BY FS_CardinalityType
<1>2. ASSUME NEW i \in P
      PROVE  /\ IsFiniteSet(Low(i)) /\ Cardinality(Low(i)) \in Nat
             /\ Cardinality(Low(i)) + 1 <= N
  <2>1. Low(i) \subseteq P \ {i}
    BY <1>a DEF Below
  <2>2. IsFiniteSet(P \ {i}) /\ Cardinality(P \ {i}) = N - 1
    BY FS_RemoveElement
  <2> HIDE DEF Low, N
  <2>3. IsFiniteSet(Low(i)) /\ Cardinality(Low(i)) <= Cardinality(P \ {i})
    BY <2>1, <2>2, FS_Subset
  <2>4. Cardinality(Low(i)) \in Nat
    BY <2>3, FS_CardinalityType
  <2> QED BY <1>1, <2>2, <2>3, <2>4
<1>3. ASSUME NEW i \in P, NEW j \in P, <<i, j>> \in R
      PROVE  Cardinality(Low(i)) < Cardinality(Low(j))
  <2>1. i \notin Low(i) /\ Low(i) \cup {i} \subseteq Low(j)
    BY <1>3, <1>a DEF Below
  <2> HIDE DEF Low, N
  <2>2. Cardinality(Low(i) \cup {i}) = Cardinality(Low(i)) + 1
    BY <1>2, <2>1, FS_AddElement
  <2>3. Cardinality(Low(i) \cup {i}) <= Cardinality(Low(j))
    BY <1>2, <2>1, FS_Subset
  <2>4. Cardinality(Low(i)) \in Nat /\ Cardinality(Low(j)) \in Nat
    BY <1>2
  <2> QED BY <2>2, <2>3, <2>4
<1>4. rank \in Injection(P, 1..N)
  <2> HIDE DEF Low, N
  <2>1. rank \in [P -> 1..N]
    BY <1>1, <1>2
  <2>2. ASSUME NEW i \in P, NEW j \in P, rank[i] = rank[j] PROVE i = j
    <3>1. Cardinality(Low(i)) = Cardinality(Low(j))
      BY <1>2, <2>2
    <3>2. ~(<<i, j>> \in R) /\ ~(<<j, i>> \in R)
      BY <1>2, <1>3, <3>1
    <3> QED BY <1>a, <3>2
  <2> HIDE DEF rank
  <2> QED BY <2>1, <2>2 DEF Injection, IsInjective
<1>5. IsFiniteSet(1..N) /\ Cardinality(1..N) = N
  BY <1>1, FS_Interval
<1>6. rank \in Surjection(P, 1..N)
  <2> HIDE DEF rank
  <2> QED BY <1>4, <1>5, FS_Injection
<1>7. \A n \in 1..N : \E i \in P : rank[i] = n
  <2> HIDE DEF rank
  <2> QED BY <1>6 DEF Surjection
<1>8. ASSUME NEW n \in 1..N PROVE \E i \in P : Cardinality(Low(i)) = n - 1
  <2> HIDE DEF Low, N
  <2>1. PICK i \in P : rank[i] = n
    BY <1>7
  <2>2. Cardinality(Low(i)) + 1 = n
    BY <2>1
  <2> QED BY <1>1, <1>2, <2>2
<1> QED BY <1>1, <1>8

\* The first n numbers.
LEMMA UpTo == ASSUME NEW n \in Nat PROVE IsFiniteSet(1..n) /\ Cardinality(1..n) = n
BY FS_Interval

\* A function on 1..m is a sequence.
LEMMA FunIsSeq ==
  ASSUME NEW S, NEW m \in Nat, NEW f \in [1..m -> S]
  PROVE  f \in Seq(S) /\ Len(f) = m
OBVIOUS

\* Keys of one length are ordered.
LEMMA PrecedesOrder ==
  ASSUME NEW L \in Nat, NEW a \in [1..L -> Int], NEW b \in [1..L -> Int], NEW c \in [1..L -> Int]
  PROVE  /\ ~Precedes(a, a)
         /\ Precedes(a, b) /\ Precedes(b, c) => Precedes(a, c)
         /\ a # b => Precedes(a, b) \/ Precedes(b, a)
<1>1. ~Precedes(a, a)
  BY DEF Precedes
<1>2. ASSUME Precedes(a, b), Precedes(b, c) PROVE Precedes(a, c)
  <2>1. PICK k \in 1..L : a[k] < b[k] /\ \A l \in 1..(k - 1) : a[l] = b[l]
    BY <1>2 DEF Precedes
  <2>2. PICK m \in 1..L : b[m] < c[m] /\ \A l \in 1..(m - 1) : b[l] = c[l]
    BY <1>2 DEF Precedes
  <2>3. CASE k <= m
    <3>1. a[k] < c[k]
      <4>1. CASE k = m
        BY <2>1, <2>2, <4>1
      <4>2. CASE k < m
        <5>1. b[k] = c[k]
          BY <2>2, <4>2
        <5> QED BY <2>1, <5>1
      <4> QED BY <2>3, <4>1, <4>2
    <3>2. \A l \in 1..(k - 1) : a[l] = c[l]
      BY <2>1, <2>2, <2>3
    <3> QED BY <3>1, <3>2 DEF Precedes
  <2>4. CASE m < k
    <3>1. a[m] = b[m]
      BY <2>1, <2>4
    <3>2. a[m] < c[m] /\ \A l \in 1..(m - 1) : a[l] = c[l]
      BY <2>1, <2>2, <2>4, <3>1
    <3> QED BY <3>2 DEF Precedes
  <2> QED BY <2>3, <2>4
<1>3. ASSUME a # b PROVE Precedes(a, b) \/ Precedes(b, a)
  <2> DEFINE D == {k \in 1..L : a[k] # b[k]}
  <2>1. D \in SUBSET Nat /\ D # {}
    <3>1. a = [k \in 1..L |-> a[k]] /\ b = [k \in 1..L |-> b[k]]
      OBVIOUS
    <3>2. ASSUME \A k \in 1..L : a[k] = b[k] PROVE FALSE
      <4>1. [k \in 1..L |-> a[k]] = [k \in 1..L |-> b[k]]
        BY <3>2
      <4> QED BY <1>3, <3>1, <4>1
    <3>3. \E k \in 1..L : a[k] # b[k]
      BY <3>2
    <3>4. PICK k \in 1..L : a[k] # b[k]
      BY <3>3
    <3>5. k \in D /\ 1..L \subseteq Nat
      BY <3>4
    <3> QED BY <3>5
  <2>2. PICK k \in D : \A l \in D : k <= l
    BY <2>1, HasLeast
  <2>4. k \in 1..L /\ a[k] # b[k]
    BY <2>2
  <2>3. ASSUME NEW l \in 1..(k - 1) PROVE a[l] = b[l]
    <3>1. l \in 1..L /\ l \in Nat /\ ~(k <= l)
      BY <2>4
    <3> QED BY <2>2, <3>1
  <2>5. a[k] < b[k] \/ b[k] < a[k]
    BY <2>4
  <2> QED BY <2>3, <2>4, <2>5 DEF Precedes
<1> QED BY <1>1, <1>2, <1>3

\* Ranked, its key a function.
RankedBy(P, key) ==
  [n \in 1..Cardinality(P) |->
     CHOOSE i \in P : Cardinality({j \in P : Precedes(key[j], key[i]) \/ (key[j] = key[i] /\ j < i)})
                        = n - 1]

\* A list of as many distinct members of a finite set as it has lists them all.
LEMMA ListsAll ==
  ASSUME NEW P, IsFiniteSet(P), NEW at \in [1..Cardinality(P) -> P],
         \A m, n \in 1..Cardinality(P) : at[m] = at[n] => m = n
  PROVE  \A i \in P : \E n \in 1..Cardinality(P) : at[n] = i
<1> DEFINE N == Cardinality(P)
<1>1. N \in Nat
  BY FS_CardinalityType
<1> HIDE DEF N
<1>2. IsFiniteSet(1..N) /\ Cardinality(1..N) = N
  BY <1>1, FS_Interval
<1>3. at \in Injection(1..N, P)
  BY DEF Injection, IsInjective, N
<1>4. Cardinality(1..N) = Cardinality(P)
  BY <1>2 DEF N
<1>5. at \in Surjection(1..N, P)
  BY <1>2, <1>3, <1>4, FS_Injection
<1> QED BY <1>5 DEF Surjection, N

\* at lists every position of P once, in the order of the keys.
Ranking(at, P, key) ==
  /\ \A i \in P : \E n \in 1..Cardinality(P) : at[n] = i
  /\ \A m, n \in 1..Cardinality(P) : m < n =>
       at[m] # at[n] /\ ~Precedes(key[at[n]], key[at[m]])

LEMMA RankedByOrder ==
  ASSUME NEW P \in SUBSET Int, IsFiniteSet(P), NEW L \in Nat, NEW key \in [P -> [1..L -> Int]]
  PROVE  /\ Cardinality(P) \in Nat
         /\ RankedBy(P, key) \in Seq(P) /\ Len(RankedBy(P, key)) = Cardinality(P)
         /\ Ranking(RankedBy(P, key), P, key)
<1> DEFINE R == {p \in P \X P : Precedes(key[p[1]], key[p[2]])
                                \/ (key[p[1]] = key[p[2]] /\ p[1] < p[2])}
           low(x) == {j \in P : Precedes(key[j], key[x]) \/ (key[j] = key[x] /\ j < x)}
           N == Cardinality(P)
           at == RankedBy(P, key)
<1>1. \A i, j \in P : <<i, j>> \in R <=> Precedes(key[i], key[j]) \/ (key[i] = key[j] /\ i < j)
  OBVIOUS
<1>2. \A i \in P : key[i] \in [1..L -> Int] /\ i \in Int
  OBVIOUS
<1> HIDE DEF R
<1>3. \A i \in P : <<i, i>> \notin R
  BY <1>1, <1>2, PrecedesOrder
<1>4. ASSUME NEW i \in P, NEW j \in P, NEW k \in P, <<i, j>> \in R, <<j, k>> \in R
      PROVE  <<i, k>> \in R
  <2>1. Precedes(key[i], key[j]) /\ Precedes(key[j], key[k]) => Precedes(key[i], key[k])
    BY <1>2, PrecedesOrder
  <2> QED BY <1>1, <1>2, <1>4, <2>1
<1>5. ASSUME NEW i \in P, NEW j \in P, i # j PROVE <<i, j>> \in R \/ <<j, i>> \in R
  <2>1. key[i] # key[j] => Precedes(key[i], key[j]) \/ Precedes(key[j], key[i])
    BY <1>2, PrecedesOrder
  <2> QED BY <1>1, <1>2, <1>5, <2>1
<1>6. Orders(P, R)
  BY <1>3, <1>4, <1>5 DEF Orders
<1>7. \A i \in P : Below(P, R, i) = low(i)
  BY <1>1 DEF Below
<1>8. /\ N \in Nat
      /\ \A n \in 1..N : \E i \in P : Cardinality(low(i)) = n - 1
  <2>1. /\ Cardinality(P) \in Nat
        /\ \A n \in 1..Cardinality(P) : \E i \in P : Cardinality(Below(P, R, i)) = n - 1
    BY <1>6, RanksCover
  <2> HIDE DEF low
  <2> QED BY <1>7, <2>1
<1>9. ASSUME NEW n \in 1..N PROVE at[n] \in P /\ Cardinality(low(at[n])) = n - 1
  <2>1. at[n] = CHOOSE x \in P : Cardinality(low(x)) = n - 1
    BY Zenon DEF RankedBy
  <2>2. \E x \in P : Cardinality(low(x)) = n - 1
    BY <1>8
  <2> HIDE DEF at, low
  <2> QED BY <2>1, <2>2
<1>a. at = [n \in 1..N |-> at[n]]
  <2> DEFINE body(n) == CHOOSE i \in P :
               Cardinality({j \in P : Precedes(key[j], key[i]) \/ (key[j] = key[i] /\ j < i)}) = n - 1
  <2>1. at = [n \in 1..N |-> body(n)]
    BY Zenon DEF RankedBy
  <2> HIDE DEF body, at, N
  <2> QED BY <2>1
<1> HIDE DEF N, at
<1>b. at \in [1..N -> P]
  BY <1>9, <1>a
<1>10. at \in Seq(P) /\ Len(at) = N
  BY <1>8, <1>b, FunIsSeq
<1>11. ASSUME NEW m \in 1..N, NEW n \in 1..N, m < n
       PROVE  at[m] # at[n] /\ ~Precedes(key[at[n]], key[at[m]])
  <2>1. at[m] \in P /\ at[n] \in P /\ Cardinality(low(at[m])) = m - 1 /\ Cardinality(low(at[n])) = n - 1
    BY <1>9
  <2>2. at[m] # at[n]
    <3>1. at[m] = at[n] => m - 1 = n - 1
      BY <2>1, Zenon
    <3> QED BY <1>8, <1>11, <3>1
  <2>3. ASSUME <<at[n], at[m]>> \in R PROVE FALSE
    <3>1. at[n] \notin low(at[n]) /\ low(at[n]) \cup {at[n]} \subseteq low(at[m])
      <4>1. \A x \in P : x \in low(at[n]) <=> <<x, at[n]>> \in R
        BY <1>1, <2>1
      <4>2. \A x \in P : x \in low(at[m]) <=> <<x, at[m]>> \in R
        BY <1>1, <2>1
      <4>3. low(at[n]) \subseteq P
        OBVIOUS
      <4> HIDE DEF low
      <4>4. \A x \in P : <<x, at[n]>> \in R => <<x, at[m]>> \in R
        BY <1>6, <2>1, <2>3 DEF Orders
      <4> QED BY <1>3, <2>1, <2>3, <4>1, <4>2, <4>3, <4>4
    <3>2. IsFiniteSet(low(at[n])) /\ IsFiniteSet(low(at[m]))
      BY FS_Subset
    <3> HIDE DEF low
    <3>3. Cardinality(low(at[n]) \cup {at[n]}) = Cardinality(low(at[n])) + 1
      BY <3>1, <3>2, FS_AddElement
    <3>4. Cardinality(low(at[n]) \cup {at[n]}) <= Cardinality(low(at[m]))
      BY <3>1, <3>2, FS_Subset
    <3> QED BY <1>8, <1>11, <2>1, <3>3, <3>4
  <2> QED BY <1>1, <2>1, <2>2, <2>3
<1>12. \A i \in P : \E n \in 1..N : at[n] = i
  <2>1. at \in [1..N -> P]
    BY <1>8, <1>10
  <2>2. ASSUME NEW m \in 1..N, NEW n \in 1..N, at[m] = at[n] PROVE m = n
    <3>1. Cardinality(low(at[m])) = m - 1 /\ Cardinality(low(at[n])) = n - 1
      BY <1>9
    <3>2. m - 1 = n - 1
      BY <2>2, <3>1, Zenon
    <3> QED BY <1>8, <3>2
  <2> QED BY <2>1, <2>2, ListsAll DEF N
<1>13. Ranking(at, P, key)
  BY <1>11, <1>12 DEF Ranking, N
<1> QED BY <1>8, <1>10, <1>13, Zenon DEF N, at

\* A sequence in the order of its ranks has its own elements.
LEMMA SortedStays ==
  ASSUME NEW S, NEW s \in Seq(S), NEW L \in Nat, NEW key \in [DOMAIN s -> [1..L -> Int]]
  PROVE  /\ [n \in DOMAIN s |-> s[RankedBy(DOMAIN s, key)[n]]] \in Seq(S)
         /\ Len([n \in DOMAIN s |-> s[RankedBy(DOMAIN s, key)[n]]]) = Len(s)
<1>1. DOMAIN s = 1..Len(s) /\ Len(s) \in Nat
  OBVIOUS
<1>2. IsFiniteSet(DOMAIN s) /\ Cardinality(DOMAIN s) = Len(s) /\ DOMAIN s \in SUBSET Int
  <2>1. IsFiniteSet(1..Len(s)) /\ Cardinality(1..Len(s)) = Len(s)
    BY <1>1, UpTo
  <2>2. IsFiniteSet(DOMAIN s) /\ Cardinality(DOMAIN s) = Len(s)
    BY <1>1, <2>1, Zenon
  <2>3. DOMAIN s \in SUBSET Int
    BY <1>1
  <2> QED BY <2>2, <2>3
<1>3. RankedBy(DOMAIN s, key) \in Seq(DOMAIN s) /\ Len(RankedBy(DOMAIN s, key)) = Len(s)
  BY <1>2, RankedByOrder
<1> DEFINE at == RankedBy(DOMAIN s, key)
<1> HIDE DEF at
<1>4. \A n \in 1..Len(s) : at[n] \in DOMAIN s
  BY <1>3 DEF at
<1> DEFINE t == [n \in 1..Len(s) |-> s[at[n]]]
<1>5. t \in [1..Len(s) -> S]
  BY <1>1, <1>4
<1>6. t = [n \in DOMAIN s |-> s[at[n]]] /\ DOMAIN t = 1..Len(s)
  BY <1>1
<1> HIDE DEF t
<1>7. t \in Seq(S) /\ Len(t) = Len(s)
  BY <1>1, <1>5, FunIsSeq
<1>8. t = [n \in DOMAIN s |-> s[RankedBy(DOMAIN s, key)[n]]]
  BY <1>6 DEF at
<1> QED BY <1>7, <1>8

-----------------------------------------------------------------------------
(* The spans of a build.                                                    *)

\* A span whose edges fit its key, what BoundariesAgree asks; a window is in the biennium
\* of the edge it dates, or before.
FineSpan ==
  {s \in Span : /\ s.from <= LastDay(s.sb)
                /\ s.sbasis = Observed => s.from = FirstDay(s.sb)
                /\ s.ebasis = Observed => s.to = LastDay(s.eb)
                /\ s.swin # NoDay => s.swin <= LastDay(s.sb)
                /\ s.ewin # NoDay => s.to <= LastDay(BienniumOf(s.ewin))}
\* Before the clauses no edge has a window.
BareSpan == {s \in FineSpan : s.swin = NoDay /\ s.ewin = NoDay}

BareFits(s) ==
  /\ s.ebasis = OpenEnd <=> s.to = Open
  /\ s.from <= s.to /\ s.from < Open /\ s.to <= Open
  /\ s.from <= LastDay(s.sb)
  /\ s.sbasis = Observed => s.from = FirstDay(s.sb)
  /\ s.ebasis = Observed => s.to = LastDay(s.eb)
  /\ s.swin = NoDay /\ s.ewin = NoDay

\* BareSpan's membership, spelled out.
LEMMA BareFacts == ASSUME NEW s \in Typed PROVE s \in BareSpan <=> BareFits(s)
<1>1. NoDay < Open
  BY OpenIsNat DEF NoDay
<1>2. s \in BareSpan => BareFits(s)
  BY SpanFacts DEF BareSpan, FineSpan, BareFits
<1>3. BareFits(s) => s \in Span
  BY <1>1, SpanFacts DEF BareFits
<1> QED BY <1>2, <1>3 DEF BareSpan, FineSpan, BareFits

LEMMA BareIsTyped == ASSUME NEW s \in BareSpan PROVE s \in Typed /\ BareFits(s)
<1>1. s \in Span
  BY DEF BareSpan, FineSpan
<1> QED BY <1>1, SpanIsTyped, BareFacts

\* What a span that fits its key satisfies: the body of BoundariesAgree.
LEMMA FineAgrees ==
  ASSUME NEW s \in FineSpan
  PROVE  /\ BienniumOf(s.from) <= s.sb
         /\ s.from <= ValidFromLatest(s) /\ ValidFromLatest(s) <= s.to
         /\ s.from <= ValidToEarliest(s) /\ ValidToEarliest(s) <= s.to
         /\ s.sbasis = Observed => s.from = FirstDay(s.sb)
         /\ s.ebasis = Observed => s.to = LastDay(s.eb)
<1>1. /\ s \in Typed /\ s \in Span /\ s.from <= LastDay(s.sb)
      /\ s.sbasis = Observed => s.from = FirstDay(s.sb)
      /\ s.ebasis = Observed => s.to = LastDay(s.eb)
  BY SpanIsTyped DEF FineSpan
<1>2. /\ s.from \in Nat /\ s.to \in Nat /\ s.sb \in Int /\ s.eb \in Int /\ s.swin \in Int /\ s.ewin \in Int
      /\ s.swin # NoDay => s.sbasis = Dated /\ s.from <= s.swin /\ s.swin <= s.to
      /\ s.ewin # NoDay => s.from <= s.ewin /\ s.ewin <= s.to
      /\ s.from <= s.to
  BY <1>1, SpanFacts DEF Typed
<1>3. BienniumOf(s.from) <= s.sb
  BY <1>1, <1>2, DayOf
<1>4. LastDay(s.sb) \in Int /\ FirstDay(s.eb) \in Int /\ Open \in Nat
  BY <1>2, Calendar
<1>5. s.from <= ValidFromLatest(s) /\ ValidFromLatest(s) <= s.to
  BY <1>2, <1>4 DEF ValidFromLatest, Later, Earlier
<1>6. s.from <= ValidToEarliest(s) /\ ValidToEarliest(s) <= s.to
  <2>1. ValidToEarliest(s) \in {s.to, s.ewin, Earlier(s.to, Later(FirstDay(s.eb), s.from))}
        /\ (ValidToEarliest(s) = s.ewin => s.ewin # NoDay \/ s.ewin = s.to \/ s.ewin = Earlier(s.to, Later(FirstDay(s.eb), s.from)))
    BY DEF ValidToEarliest
  <2>2. Earlier(s.to, Later(FirstDay(s.eb), s.from)) \in s.from..s.to
    BY <1>2, <1>4 DEF Earlier, Later
  <2> QED BY <1>2, <2>1, <2>2
<1> QED BY <1>1, <1>3, <1>5, <1>6

\* The bases and sentinels differ.
LEMMA Bases ==
  /\ Dated # Observed /\ Dated # Derived /\ Dated # OpenEnd /\ Observed # Derived
  /\ Observed # OpenEnd /\ Derived # OpenEnd
  /\ {Dated, Observed, Derived} \subseteq StartBases /\ StartBases \subseteq BoundaryBases
  /\ OpenEnd \in BoundaryBases /\ NoDay \in Int
BY DEF Dated, Observed, Derived, OpenEnd, StartBases, BoundaryBases, NoDay

\* NewSpan makes such a span of edges that fit.
LEMMA NewSpanBare ==
  ASSUME NEW mem \in Nat, NEW kind \in Kinds, NEW disc \in Nat, NEW sb \in Int, NEW eb \in Int,
         NEW from \in Nat, NEW to \in Nat, NEW sbasis \in StartBases, NEW ebasis \in BoundaryBases,
         ebasis = OpenEnd <=> to = Open, from <= to, from < Open, to <= Open, from <= LastDay(sb),
         sbasis = Observed => from = FirstDay(sb), ebasis = Observed => to = LastDay(eb)
  PROVE  NewSpan(mem, kind, disc, sb, eb, from, to, sbasis, ebasis) \in BareSpan
<1> DEFINE s == NewSpan(mem, kind, disc, sb, eb, from, to, sbasis, ebasis)
<1>1. s \in Typed
  BY Bases DEF NewSpan, Typed
<1>2. BareFits(s)
  BY DEF NewSpan, BareFits
<1> QED BY <1>1, <1>2, BareFacts

\* An event's date, and what its basis is not.
LEMMA EventFacts ==
  ASSUME NEW e \in Events
  PROVE  /\ e.mem \in Nat /\ e.date \in Nat /\ e.date < Open
         /\ e.basis \in StartBases /\ e.basis \in BoundaryBases
         /\ e.basis # Observed /\ e.basis # OpenEnd
         /\ BienniumOf(e.date) \in Biennia
         /\ FirstDay(BienniumOf(e.date)) <= e.date /\ e.date <= LastDay(BienniumOf(e.date))
         /\ e.seat[2] \in Nat /\ (e.seat[1] \in Kinds \/ e.seat = NoSeat)
<1>1. /\ e.mem \in Nat /\ e.date \in Days /\ e.basis \in {Dated, Derived}
      /\ e.seat \in (Kinds \X Nat) \cup {NoSeat}
  BY DEF Events
<1>2. Open \in Nat /\ Days = 0..(Open - 1)
  BY Calendar
<1>3. e.date \in Nat /\ e.date < Open
  BY <1>1, <1>2
<1>4. /\ BienniumOf(e.date) \in Biennia
      /\ FirstDay(BienniumOf(e.date)) <= e.date /\ e.date <= LastDay(BienniumOf(e.date))
  BY <1>3, DayOf
<1>5. e.seat[2] \in Nat /\ (e.seat[1] \in Kinds \/ e.seat = NoSeat)
  <2>1. CASE e.seat \in Kinds \X Nat
    <3>1. PICK k \in Kinds, n \in Nat : e.seat = <<k, n>>
      BY <2>1
    <3> QED BY <3>1
  <2>2. CASE e.seat = NoSeat
    <3>1. NoSeat[2] = 0
      BY DEF NoSeat
    <3> QED BY <2>2, <3>1
  <2> QED BY <1>1, <2>1, <2>2
<1>6. /\ e.basis \in StartBases /\ e.basis \in BoundaryBases
      /\ e.basis # Observed /\ e.basis # OpenEnd
  BY <1>1, Bases
<1> QED BY <1>1, <1>3, <1>4, <1>5, <1>6

\* Closing at an event's date (_close_at) keeps the fit.
LEMMA CloseAtBare ==
  ASSUME NEW s \in BareSpan, NEW e \in Events
  PROVE  CloseAt(s, e) \in BareSpan
<1> DEFINE to == Later(e.date, s.from)
           t == [s EXCEPT !.to = to, !.ebasis = e.basis]
<1>1. s \in Typed /\ BareFits(s)
  BY BareIsTyped
<1>2. s.from \in Nat /\ s.to \in Nat
  BY <1>1 DEF Typed
<1>3. to \in Nat /\ s.from <= to /\ to < Open
  BY <1>1, <1>2, EventFacts DEF Later, BareFits
<1>4. CloseAt(s, e) = t
  BY DEF CloseAt
<1> HIDE DEF to
<1>5. t \in Typed
  BY <1>1, <1>3, EventFacts DEF Typed
<1>6. /\ t.to = to /\ t.ebasis = e.basis /\ t.from = s.from /\ t.sb = s.sb /\ t.sbasis = s.sbasis
      /\ t.swin = s.swin /\ t.ewin = s.ewin
  BY <1>1 DEF Typed
<1> HIDE DEF t
<1>7. BareFits(t)
  BY <1>1, <1>3, <1>6, EventFacts, OpenIsNat DEF BareFits
<1> QED BY <1>4, <1>5, <1>7, BareFacts

\* The tail of a split takes the key of the biennium it starts in.
LEMMA SplitTailBare ==
  ASSUME NEW s \in BareSpan, NEW return \in Nat, return <= s.to, return < Open
  PROVE  SplitTail(s, return) \in BareSpan
<1> DEFINE b == BienniumOf(return)
           t == [s EXCEPT !.sb = b, !.from = return, !.sbasis = Derived]
<1>1. s \in Typed /\ BareFits(s)
  BY BareIsTyped
<1>2. b \in Int /\ return <= LastDay(b)
  BY DayOf
<1>3. SplitTail(s, return) = t
  BY DEF SplitTail
<1> HIDE DEF b
<1>4. t \in Typed
  BY <1>1, <1>2, Bases DEF Typed
<1>5. /\ t.to = s.to /\ t.ebasis = s.ebasis /\ t.eb = s.eb /\ t.from = return /\ t.sb = b
      /\ t.sbasis = Derived /\ t.swin = s.swin /\ t.ewin = s.ewin
  BY <1>1 DEF Typed
<1> HIDE DEF t
<1>6. BareFits(t)
  BY <1>1, <1>2, <1>5, Bases DEF BareFits
<1> QED BY <1>3, <1>4, <1>6, BareFacts

\* A seating moves the start to a day no later than the end and the key's biennium.
LEMMA SeatedBare ==
  ASSUME NEW s \in BareSpan, NEW e \in Events, e.date <= s.to, BienniumOf(e.date) <= s.sb
  PROVE  [s EXCEPT !.from = e.date, !.sbasis = e.basis] \in BareSpan
<1> DEFINE t == [s EXCEPT !.from = e.date, !.sbasis = e.basis]
<1>1. s \in Typed /\ BareFits(s)
  BY BareIsTyped
<1>2. /\ e.date \in Nat /\ e.date < Open /\ e.basis \in StartBases /\ e.basis # Observed
      /\ s.sb \in Int
  BY <1>1, EventFacts DEF Typed
<1>3. e.date <= LastDay(s.sb)
  BY <1>2, DayOf
<1>4. t \in Typed
  BY <1>1, <1>2 DEF Typed
<1>5. /\ t.to = s.to /\ t.ebasis = s.ebasis /\ t.eb = s.eb /\ t.from = e.date /\ t.sb = s.sb
      /\ t.sbasis = e.basis /\ t.swin = s.swin /\ t.ewin = s.ewin
  BY <1>1 DEF Typed
<1> HIDE DEF t
<1>6. BareFits(t)
  BY <1>1, <1>2, <1>3, <1>5 DEF BareFits
<1> QED BY <1>4, <1>6, BareFacts DEF t

\* The tenures an event mints fit.
LEMMA SynthesizedBare ==
  ASSUME NEW e \in Events, e.seat[1] \in Kinds, NEW current \in Biennia
  PROVE  /\ SynthesizeClosed(e) \in BareSpan
         /\ InBiennium(e.date, current) => Synthesize(e, current) \in BareSpan
<1> DEFINE b == BienniumOf(e.date)
<1>1. /\ e.mem \in Nat /\ e.date \in Nat /\ e.date < Open /\ e.basis \in StartBases
      /\ e.basis \in BoundaryBases /\ e.basis # Observed /\ e.basis # OpenEnd /\ b \in Biennia
      /\ FirstDay(b) <= e.date /\ e.date <= LastDay(b) /\ e.seat[2] \in Nat
  BY EventFacts
<1> HIDE DEF b
<1>2. FirstDay(b) \in Nat /\ b \in Int /\ FirstDay(b) < Open /\ Open \in Nat
      /\ FirstDay(b) <= LastDay(b)
  <2>1. FirstDay(b) \in Nat /\ LastDay(b) \in Nat /\ LastDay(b) < Open /\ Open \in Nat
    BY <1>1, Calendar
  <2> QED BY <1>1, <2>1 DEF Biennia
<1> DEFINE k == e.seat[1]
           disc == e.seat[2]
           date == e.date
           basis == e.basis
<1>5. k \in Kinds /\ disc \in Nat /\ date \in Nat /\ basis \in BoundaryBases /\ basis \in StartBases
      /\ basis # Observed /\ basis # OpenEnd /\ date < Open /\ FirstDay(b) <= date
      /\ Observed \in StartBases /\ OpenEnd \in BoundaryBases
  BY <1>1, Bases
<1> HIDE DEF k, disc, date, basis
<1>3. NewSpan(e.mem, k, disc, b, b, FirstDay(b), date, Observed, basis) \in BareSpan
  <2>1. basis = OpenEnd <=> date = Open
    BY <1>2, <1>5
  <2>2. date <= Open /\ FirstDay(b) <= LastDay(b)
    BY <1>2, <1>5
  <2> QED BY <1>1, <1>2, <1>5, <2>1, <2>2, NewSpanBare
<1>4. ASSUME InBiennium(e.date, current)
      PROVE  NewSpan(e.mem, k, disc, current, current, date, Open, basis, OpenEnd) \in BareSpan
  <2>1. date <= LastDay(current) /\ current \in Int
    BY <1>4 DEF InBiennium, Biennia, date
  <2>2. date <= Open /\ Open <= Open /\ (OpenEnd = Observed => Open = LastDay(current))
    BY <1>2, <1>5, Bases
  <2> QED BY <1>1, <1>2, <1>5, <2>1, <2>2, NewSpanBare
<1>6. SynthesizeClosed(e) = NewSpan(e.mem, k, disc, b, b, FirstDay(b), date, Observed, basis)
  BY Zenon DEF SynthesizeClosed, b, k, disc, date, basis
<1>7. Synthesize(e, current) = NewSpan(e.mem, k, disc, current, current, date, Open, basis, OpenEnd)
  BY Zenon DEF Synthesize, k, disc, date, basis
<1> QED BY <1>3, <1>4, <1>6, <1>7 DEF date

\* Widening a party run to a later span keeps the fit.
LEMMA ExtendBare ==
  ASSUME NEW run \in BareSpan, NEW later \in BareSpan
  PROVE  Extend(run, later) \in BareSpan
<1>1. run \in Typed /\ BareFits(run) /\ later \in Typed /\ BareFits(later)
  BY BareIsTyped
<1>2. run.to \in Nat /\ later.to \in Nat /\ run.eb \in Int /\ later.eb \in Int /\ run.from \in Nat
  BY <1>1 DEF Typed
<1>3. CASE run.to = Open \/ later.to = Open
  <2> DEFINE eb == Later(run.eb, later.eb)
             t == [run EXCEPT !.eb = eb, !.to = Open, !.ebasis = OpenEnd]
  <2>1. Extend(run, later) = t /\ eb \in Int
    BY <1>2, <1>3 DEF Extend, Later
  <2> HIDE DEF eb
  <2>2. t \in Typed
    BY <1>1, <2>1, Bases, OpenIsNat DEF Typed
  <2>3. /\ t.to = Open /\ t.ebasis = OpenEnd /\ t.from = run.from /\ t.sb = run.sb
        /\ t.sbasis = run.sbasis /\ t.swin = run.swin /\ t.ewin = run.ewin
    BY <1>1 DEF Typed
  <2> HIDE DEF t
  <2>4. BareFits(t)
    BY <1>1, <1>2, <2>3, Bases, OpenIsNat DEF BareFits
  <2> QED BY <2>1, <2>2, <2>4, BareFacts
<1>4. CASE run.to # Open /\ later.to # Open
  <2> DEFINE last == IF Precedes(<<run.to, run.eb>>, <<later.to, later.eb>>) THEN later ELSE run
             t == [run EXCEPT !.eb = last.eb, !.to = last.to, !.ebasis = last.ebasis]
  <2>1. Extend(run, later) = t
    BY <1>4 DEF Extend
  <2>2. last \in Typed /\ BareFits(last) /\ last.to # Open
    BY <1>1, <1>4
  <2>3. run.to <= last.to
    <3>1. ASSUME Precedes(<<run.to, run.eb>>, <<later.to, later.eb>>) PROVE run.to <= later.to
      <4> DEFINE x == <<run.to, run.eb>>
                 y == <<later.to, later.eb>>
      <4>0. DOMAIN x = 1..2 /\ Precedes(x, y)
        BY <3>1
      <4> HIDE DEF x, y
      <4>1. PICK k \in 1..2 : x[k] < y[k] /\ \A l \in 1..(k - 1) : x[l] = y[l]
        BY <4>0 DEF Precedes
      <4> USE DEF x, y
      <4>2. CASE k = 1
        BY <1>2, <4>1, <4>2
      <4>3. CASE k = 2
        <5>1. x[1] = y[1]
          BY <4>1, <4>3
        <5> QED BY <1>2, <5>1
      <4> QED BY <4>2, <4>3
    <3> QED BY <1>2, <3>1
  <2> HIDE DEF last
  <2>4. t \in Typed
    BY <1>1, <2>2 DEF Typed
  <2>5. /\ t.to = last.to /\ t.eb = last.eb /\ t.ebasis = last.ebasis /\ t.from = run.from
        /\ t.sb = run.sb /\ t.sbasis = run.sbasis /\ t.swin = run.swin /\ t.ewin = run.ewin
    BY <1>1 DEF Typed
  <2>6. last.to \in Nat
    BY <2>2 DEF Typed
  <2> HIDE DEF t
  <2>7. BareFits(t)
    BY <1>1, <1>2, <2>2, <2>3, <2>5, <2>6 DEF BareFits
  <2> QED BY <2>1, <2>4, <2>7, BareFacts
<1> QED BY <1>3, <1>4

-----------------------------------------------------------------------------
(* The sorts.                                                               *)

\* The sort key of a span is four numbers.
LEMMA KeyOrderTyped ==
  ASSUME NEW s \in Typed
  PROVE  KeyOrder(s) \in [1..4 -> Int]
<1>1. s.mem \in Int /\ s.kind \in Kinds /\ s.disc \in Int /\ s.sb \in Int
  BY DEF Typed
<1>2. KindRank[s.kind] \in Int
  BY <1>1 DEF KindRank, Kinds
<1> QED BY <1>1, <1>2 DEF KeyOrder

\* The key order is the tenure's key.
LEMMA KeyOrderInjects ==
  ASSUME NEW s \in Typed, NEW t \in Typed, KeyOrder(s) = KeyOrder(t)
  PROVE  s.mem = t.mem /\ s.kind = t.kind /\ s.disc = t.disc /\ s.sb = t.sb
<1>1. s.mem = t.mem /\ KindRank[s.kind] = KindRank[t.kind] /\ s.disc = t.disc /\ s.sb = t.sb
  BY DEF KeyOrder
<1>2. s.kind \in Kinds /\ t.kind \in Kinds
  BY DEF Typed
<1>3. \A j, k \in Kinds : KindRank[j] = KindRank[k] => j = k
  BY DEF KindRank, Kinds, House, Senate, Committee, Party
<1> QED BY <1>1, <1>2, <1>3

\* A finite set of spans with distinct keys, in key order.
LEMMA InKeyOrderStays ==
  ASSUME NEW S \in SUBSET Typed, IsFiniteSet(S),
         \A s, t \in S : KeyOrder(s) = KeyOrder(t) => s = t
  PROVE  InKeyOrder(S) \in Seq(S)
<1> DEFINE R == {p \in S \X S : Precedes(KeyOrder(p[1]), KeyOrder(p[2]))}
           N == Cardinality(S)
           nth(n) == CHOOSE s \in S : Cardinality({t \in S : Precedes(KeyOrder(t), KeyOrder(s))}) = n - 1
<1>1. \A i, j \in S : <<i, j>> \in R <=> Precedes(KeyOrder(i), KeyOrder(j))
  OBVIOUS
<1>2. \A i \in S : KeyOrder(i) \in [1..4 -> Int]
  BY KeyOrderTyped
<1> HIDE DEF R
<1>3. \A i \in S : <<i, i>> \notin R
  BY <1>1, <1>2, PrecedesOrder
<1>4. ASSUME NEW i \in S, NEW j \in S, NEW k \in S, <<i, j>> \in R, <<j, k>> \in R
      PROVE  <<i, k>> \in R
  <2>1. Precedes(KeyOrder(i), KeyOrder(j)) /\ Precedes(KeyOrder(j), KeyOrder(k))
           => Precedes(KeyOrder(i), KeyOrder(k))
    BY <1>2, PrecedesOrder, ZenonT(30)
  <2> QED BY <1>1, <1>4, <2>1
<1>5. ASSUME NEW i \in S, NEW j \in S, i # j PROVE <<i, j>> \in R \/ <<j, i>> \in R
  <2>1. Precedes(KeyOrder(i), KeyOrder(j)) \/ Precedes(KeyOrder(j), KeyOrder(i))
    BY <1>2, <1>5, PrecedesOrder
  <2> QED BY <1>1, <2>1
<1>6. /\ N \in Nat
      /\ \A n \in 1..N : \E i \in S : Cardinality(Below(S, R, i)) = n - 1
  <2>1. Orders(S, R)
    BY <1>3, <1>4, <1>5 DEF Orders
  <2> QED BY <2>1, RanksCover
<1>7. ASSUME NEW n \in 1..N PROVE nth(n) \in S
  <2> DEFINE low(s) == {t \in S : Precedes(KeyOrder(t), KeyOrder(s))}
  <2>1. PICK i \in S : Cardinality(Below(S, R, i)) = n - 1
    BY <1>6
  <2>2. Below(S, R, i) = low(i)
    BY <1>1 DEF Below
  <2>3. \E s \in S : Cardinality(low(s)) = n - 1
    BY <2>1, <2>2
  <2>4. nth(n) = CHOOSE s \in S : Cardinality(low(s)) = n - 1
    OBVIOUS
  <2> HIDE DEF low, nth
  <2> QED BY <2>3, <2>4
<1>8. InKeyOrder(S) = [n \in 1..N |-> nth(n)]
  BY Zenon DEF InKeyOrder
<1> HIDE DEF nth, N
<1>9. [n \in 1..N |-> nth(n)] \in [1..N -> S]
  BY <1>7
<1> QED BY <1>6, <1>8, <1>9, FunIsSeq

\* Sorting spans returns spans of the same set.
LEMMA SortSpansStays ==
  ASSUME NEW S \in SUBSET Typed, NEW s \in Seq(S)
  PROVE  SortSpans(s) \in Seq(S)
<1> DEFINE P == DOMAIN s
           K(i) == KeyOrder(s[i])
           key == [i \in P |-> KeyOrder(s[i])]
<1>1. key \in [P -> [1..4 -> Int]]
  <2>1. ASSUME NEW i \in P PROVE KeyOrder(s[i]) \in [1..4 -> Int]
    <3>1. s[i] \in Typed
      OBVIOUS
    <3> QED BY <3>1, KeyOrderTyped
  <2> QED BY <2>1
<1>2. \A i \in P : key[i] = K(i)
  OBVIOUS
<1> HIDE DEF key, P, K
<1>3. \A i \in P : {j \in P : Precedes(key[j], key[i]) \/ (key[j] = key[i] /\ j < i)}
                   = {j \in P : Precedes(K(j), K(i)) \/ (K(j) = K(i) /\ j < i)}
  BY <1>2
<1> DEFINE byKey(n) == CHOOSE i \in P : Cardinality({j \in P : Precedes(key[j], key[i]) \/ (key[j] = key[i] /\ j < i)}) = n - 1
           byK(n) == CHOOSE i \in P : Cardinality({j \in P : Precedes(K(j), K(i)) \/ (K(j) = K(i) /\ j < i)}) = n - 1
<1>4. \A n : byKey(n) = byK(n)
  BY <1>3, Zenon
<1>5. RankedBy(P, key) = Ranked(P, K)
  <2>1. RankedBy(P, key) = [n \in 1..Cardinality(P) |-> byKey(n)]
    BY Zenon DEF RankedBy
  <2>2. Ranked(P, K) = [n \in 1..Cardinality(P) |-> byK(n)]
    BY Zenon DEF Ranked
  <2> HIDE DEF byKey, byK
  <2> QED BY <1>4, <2>1, <2>2
<1>6. SortSpans(s) = [n \in DOMAIN s |-> s[RankedBy(DOMAIN s, key)[n]]]
  BY <1>5, Zenon DEF SortSpans, SortBy, P, K
<1>7. key \in [DOMAIN s -> [1..4 -> Int]]
  BY <1>1 DEF P
<1>8. [n \in DOMAIN s |-> s[RankedBy(DOMAIN s, key)[n]]] \in Seq(S)
  BY <1>7, SortedStays
<1> QED BY <1>6, <1>8

-----------------------------------------------------------------------------
(* build_tenure_spans.                                                      *)

\* A head's run ends in a biennium no earlier than itself.
LEMMA RunEndFits ==
  ASSUME NEW bs \in SUBSET Biennia, NEW breaks, NEW h \in Heads(bs, breaks)
  PROVE  RunEnd(bs, breaks, h) \in bs /\ h <= RunEnd(bs, breaks, h)
<1> DEFINE H == Heads(bs, breaks)
           C == {e \in bs : h <= e /\ h..e \subseteq bs /\ H \cap (h + 1)..e = {}}
<1>1. h \in bs /\ bs \subseteq Nat /\ \A b \in bs : b <= LastBiennium
  BY CalendarAssumption DEF Heads, Biennia
<1>2. h \in C
  BY <1>1
<1>3. C \in SUBSET Nat /\ \A e \in C : e <= LastBiennium
  BY <1>1
<1>4. PICK e \in C : \A x \in C : x <= e
  <2> HIDE DEF C
  <2> QED BY <1>2, <1>3, CalendarAssumption, HasMost
<1>5. e + 1 \notin bs \/ e + 1 \in breaks
  <2> SUFFICES ASSUME e + 1 \in bs, e + 1 \notin breaks PROVE FALSE
    OBVIOUS
  <2>1. e \in bs /\ e \in Nat /\ h \in Nat /\ h <= e /\ h..e \subseteq bs /\ H \cap (h + 1)..e = {}
    BY <1>1, <1>4
  <2>2. e + 1 \notin H
    BY <2>1 DEF Heads
  <2> HIDE DEF H
  <2>3. h..(e + 1) \subseteq bs /\ H \cap (h + 1)..(e + 1) = {}
    <3>1. ASSUME NEW x \in h..(e + 1) PROVE x \in bs
      <4>1. x = e + 1 \/ x \in h..e
        BY <2>1
      <4> QED BY <2>1, <4>1
    <3>2. ASSUME NEW x \in (h + 1)..(e + 1) PROVE x \notin H
      <4>1. x = e + 1 \/ x \in (h + 1)..e
        BY <2>1
      <4> QED BY <2>1, <2>2, <4>1
    <3> QED BY <3>1, <3>2
  <2>4. e + 1 \in C
    BY <2>1, <2>3
  <2> QED BY <1>4, <2>1, <2>4
<1>6. \E x \in bs : /\ h <= x /\ h..x \subseteq bs
                    /\ Heads(bs, breaks) \cap (h + 1)..x = {}
                    /\ x + 1 \notin bs \/ x + 1 \in breaks
  BY <1>4, <1>5
<1> QED BY <1>6 DEF RunEnd

\* One head's span.
RunOf(obs, current, g, h) ==
  LET own == {o \in obs : <<o.mem, o.kind, o.disc>> = g}
      e == RunEnd({o.b : o \in own}, {o.b : o \in {p \in own : p.opens}}, h)
  IN NewSpan(g[1], g[2], g[3], h, e, FirstDay(h), IF e = current THEN Open ELSE LastDay(e),
             Observed, IF e = current THEN OpenEnd ELSE Observed)
HeadsOf(obs, g) ==
  LET own == {o \in obs : <<o.mem, o.kind, o.disc>> = g}
  IN Heads({o.b : o \in own}, {o.b : o \in {p \in own : p.opens}})
GroupsOf(obs) == {<<o.mem, o.kind, o.disc>> : o \in obs}

\* BuildTenureSpans, with its runs named.
LEMMA BuildIsRuns ==
  ASSUME NEW obs, NEW current
  PROVE  BuildTenureSpans(obs, current)
           = InKeyOrder(UNION {{RunOf(obs, current, g, h) : h \in HeadsOf(obs, g)} : g \in GroupsOf(obs)})
BY Zenon DEF BuildTenureSpans, RunOf, HeadsOf, GroupsOf

\* A run is a bare span keyed by its head.
LEMMA RunFits ==
  ASSUME NEW obs \in SUBSET Observations, NEW current \in Biennia,
         NEW g \in GroupsOf(obs), NEW h \in HeadsOf(obs, g)
  PROVE  /\ RunOf(obs, current, g, h) \in BareSpan
         /\ RunOf(obs, current, g, h).mem = g[1] /\ RunOf(obs, current, g, h).kind = g[2]
         /\ RunOf(obs, current, g, h).disc = g[3] /\ RunOf(obs, current, g, h).sb = h
         /\ \E o \in obs : g = <<o.mem, o.kind, o.disc>> /\ h = o.b
<1> DEFINE own == {o \in obs : <<o.mem, o.kind, o.disc>> = g}
           bs == {o.b : o \in own}
           breaks == {o.b : o \in {p \in own : p.opens}}
           e == RunEnd(bs, breaks, h)
           to == IF e = current THEN Open ELSE LastDay(e)
           ebasis == IF e = current THEN OpenEnd ELSE Observed
<1>1. h \in Heads(bs, breaks)
  BY Zenon DEF HeadsOf
<1>2. bs \in SUBSET Biennia
  BY DEF Observations
<1>3. PICK o \in obs : g = <<o.mem, o.kind, o.disc>> /\ h = o.b
  BY <1>1 DEF Heads
<1>4. g[1] \in Nat /\ g[2] \in Kinds /\ g[3] \in Nat
  BY <1>3 DEF Observations
<1>5. RunOf(obs, current, g, h) = NewSpan(g[1], g[2], g[3], h, e, FirstDay(h), to, Observed, ebasis)
  BY Zenon DEF RunOf
<1> HIDE DEF own, bs, breaks
<1>6. e \in bs /\ h <= e
  BY <1>1, <1>2, RunEndFits
<1>7. h \in bs
  BY <1>1 DEF Heads
<1> HIDE DEF e
<1>8. h \in Biennia /\ e \in Biennia /\ h \in Int /\ e \in Int
  BY <1>2, <1>6, <1>7 DEF Biennia
<1>9. /\ FirstDay(h) \in Nat /\ LastDay(h) \in Nat /\ LastDay(h) < Open /\ FirstDay(h) <= LastDay(h)
      /\ LastDay(e) \in Nat /\ LastDay(e) < Open /\ Open \in Nat /\ LastDay(h) <= LastDay(e)
  BY <1>6, <1>8, Calendar
<1>10. /\ to \in Nat /\ ebasis \in BoundaryBases /\ to <= Open /\ FirstDay(h) <= to
       /\ ebasis = OpenEnd <=> to = Open
       /\ ebasis = Observed => to = LastDay(e)
       /\ Observed \in StartBases
  BY <1>9, Bases
<1>11. FirstDay(h) < Open
  BY <1>9
<1> HIDE DEF to, ebasis
<1>12. NewSpan(g[1], g[2], g[3], h, e, FirstDay(h), to, Observed, ebasis) \in BareSpan
  BY <1>4, <1>8, <1>9, <1>10, <1>11, NewSpanBare
<1> QED BY <1>3, <1>5, <1>12 DEF NewSpan

\* build_tenure_spans makes bare spans of any finite set of observations.
LEMMA BuildStays ==
  ASSUME NEW obs \in SUBSET Observations, IsFiniteSet(obs), NEW current \in Biennia
  PROVE  BuildTenureSpans(obs, current) \in Seq(BareSpan)
<1> DEFINE S == UNION {{RunOf(obs, current, g, h) : h \in HeadsOf(obs, g)} : g \in GroupsOf(obs)}
           f == [o \in obs |-> RunOf(obs, current, <<o.mem, o.kind, o.disc>>, o.b)]
           T == {f[o] : o \in obs}
<1>1. \A s \in S : \E g \in GroupsOf(obs) : \E h \in HeadsOf(obs, g) : s = RunOf(obs, current, g, h)
  OBVIOUS
<1> HIDE DEF S
<1>2. S \subseteq BareSpan
  BY <1>1, RunFits
<1>3. S \subseteq T
  <2>1. ASSUME NEW s \in S PROVE s \in T
    <3>0. PICK g \in GroupsOf(obs) : \E h \in HeadsOf(obs, g) : s = RunOf(obs, current, g, h)
      BY <1>1
    <3>1. PICK h \in HeadsOf(obs, g) : s = RunOf(obs, current, g, h)
      BY <3>0
    <3>2. PICK o \in obs : g = <<o.mem, o.kind, o.disc>> /\ h = o.b
      BY RunFits
    <3>3. s = f[o]
      BY <3>1, <3>2
    <3> QED BY <3>3
  <2> QED BY <2>1
<1>4. IsFiniteSet(S)
  <2>1. f \in Surjection(obs, T)
    BY DEF Surjection
  <2> HIDE DEF f, T
  <2>2. IsFiniteSet(T)
    BY <2>1, FS_Surjection
  <2> QED BY <1>3, <2>2, FS_Subset
<1>5. ASSUME NEW s \in S, NEW t \in S, KeyOrder(s) = KeyOrder(t) PROVE s = t
  <2>7. PICK g \in GroupsOf(obs) : \E h \in HeadsOf(obs, g) : s = RunOf(obs, current, g, h)
    BY <1>1
  <2>1. PICK h \in HeadsOf(obs, g) : s = RunOf(obs, current, g, h)
    BY <2>7
  <2>8. PICK k \in GroupsOf(obs) : \E l \in HeadsOf(obs, k) : t = RunOf(obs, current, k, l)
    BY <1>1
  <2>2. PICK l \in HeadsOf(obs, k) : t = RunOf(obs, current, k, l)
    BY <2>8
  <2>3. s.mem = g[1] /\ s.kind = g[2] /\ s.disc = g[3] /\ s.sb = h
    BY <2>1, RunFits
  <2>4. t.mem = k[1] /\ t.kind = k[2] /\ t.disc = k[3] /\ t.sb = l
    BY <2>2, RunFits
  <2>5. s.mem = t.mem /\ s.kind = t.kind /\ s.disc = t.disc /\ s.sb = t.sb
    BY <1>2, <1>5, BareIsTyped, KeyOrderInjects
  <2>6. g = <<g[1], g[2], g[3]>> /\ k = <<k[1], k[2], k[3]>>
    BY DEF GroupsOf
  <2> QED BY <2>1, <2>2, <2>3, <2>4, <2>5, <2>6
<1>6. S \in SUBSET Typed
  BY <1>2, BareIsTyped
<1>7. InKeyOrder(S) \in Seq(S)
  BY <1>4, <1>5, <1>6, InKeyOrderStays
<1>8. InKeyOrder(S) \in Seq(BareSpan)
  BY <1>2, <1>7
<1> QED BY <1>8, BuildIsRuns DEF S

\* Selecting positions of a list returns elements of the list.
LEMMA SelectedStays ==
  ASSUME NEW S, NEW s \in Seq(S), NEW P \in SUBSET DOMAIN s
  PROVE  Selected(s, P) \in Seq(S)
<1> DEFINE R == {p \in P \X P : p[1] < p[2]}
           N == Cardinality(P)
           nth(n) == CHOOSE i \in P : Cardinality({j \in P : j < i}) = n - 1
<1>1. \A i, j \in P : <<i, j>> \in R <=> i < j
  OBVIOUS
<1>2. P \subseteq Nat /\ IsFiniteSet(P)
  <2>1. DOMAIN s = 1..Len(s) /\ Len(s) \in Nat
    OBVIOUS
  <2>2. IsFiniteSet(1..Len(s))
    BY <2>1, UpTo
  <2>3. IsFiniteSet(DOMAIN s)
    BY <2>1, <2>2, Zenon
  <2> QED BY <2>1, <2>3, FS_Subset
<1> HIDE DEF R
<1>6. /\ N \in Nat
      /\ \A n \in 1..N : \E i \in P : Cardinality(Below(P, R, i)) = n - 1
  <2>1. Orders(P, R)
    BY <1>1, <1>2 DEF Orders
  <2> QED BY <1>2, <2>1, RanksCover
<1>7. ASSUME NEW n \in 1..N PROVE nth(n) \in P
  <2> DEFINE low(s_1) == {t \in P : t < s_1}
  <2>1. PICK i \in P : Cardinality(Below(P, R, i)) = n - 1
    BY <1>6
  <2>2. Below(P, R, i) = low(i)
    BY <1>1 DEF Below
  <2>3. \E i_1 \in P : Cardinality(low(i_1)) = n - 1
    BY <2>1, <2>2
  <2>4. nth(n) = CHOOSE i_1 \in P : Cardinality(low(i_1)) = n - 1
    OBVIOUS
  <2> HIDE DEF low, nth
  <2> QED BY <2>3, <2>4
<1>8. Selected(s, P) = [n \in 1..N |-> s[nth(n)]]
  BY Zenon DEF Selected
<1> HIDE DEF nth, N
<1>9. [n \in 1..N |-> s[nth(n)]] \in [1..N -> S]
  BY <1>7
<1> QED BY <1>6, <1>8, <1>9, FunIsSeq

\* Sorting the events returns events.
LEMMA SortEventsStays ==
  ASSUME NEW s \in Seq(Events)
  PROVE  SortBy(s, EventOrder) \in Seq(Events)
<1> DEFINE P == DOMAIN s
           K(i) == EventOrder(s[i])
           key == [i \in P |-> EventOrder(s[i])]
<1>1. key \in [P -> [1..2 -> Int]]
  <2>1. ASSUME NEW i \in P PROVE EventOrder(s[i]) \in [1..2 -> Int]
    <3>1. s[i] \in Events
      OBVIOUS
    <3>2. s[i].date \in Int
      BY <3>1, EventFacts
    <3> QED BY <3>2 DEF EventOrder
  <2> QED BY <2>1
<1>2. \A i \in P : key[i] = K(i)
  OBVIOUS
<1> HIDE DEF key, P, K
<1>3. \A i \in P : {j \in P : Precedes(key[j], key[i]) \/ (key[j] = key[i] /\ j < i)}
                   = {j \in P : Precedes(K(j), K(i)) \/ (K(j) = K(i) /\ j < i)}
  BY <1>2
<1> DEFINE byKey(n) == CHOOSE i \in P : Cardinality({j \in P : Precedes(key[j], key[i]) \/ (key[j] = key[i] /\ j < i)}) = n - 1
           byK(n) == CHOOSE i \in P : Cardinality({j \in P : Precedes(K(j), K(i)) \/ (K(j) = K(i) /\ j < i)}) = n - 1
<1>4. \A n : byKey(n) = byK(n)
  BY <1>3, Zenon
<1>5. RankedBy(P, key) = Ranked(P, K)
  <2>1. RankedBy(P, key) = [n \in 1..Cardinality(P) |-> byKey(n)]
    BY Zenon DEF RankedBy
  <2>2. Ranked(P, K) = [n \in 1..Cardinality(P) |-> byK(n)]
    BY Zenon DEF Ranked
  <2> HIDE DEF byKey, byK
  <2> QED BY <1>4, <2>1, <2>2
<1>6. SortBy(s, EventOrder) = [n \in DOMAIN s |-> s[RankedBy(DOMAIN s, key)[n]]]
  BY <1>5, Zenon DEF SortBy, P, K
<1>7. key \in [DOMAIN s -> [1..2 -> Int]]
  BY <1>1 DEF P
<1>8. [n \in DOMAIN s |-> s[RankedBy(DOMAIN s, key)[n]]] \in Seq(Events)
  BY <1>7, SortedStays
<1> QED BY <1>6, <1>8

StartOrder(s) == <<s.from, s.sb>>

\* Sorting spans by their start returns spans of the same set.
LEMMA SortStartsStays ==
  ASSUME NEW S \in SUBSET Typed, NEW s \in Seq(S)
  PROVE  SortBy(s, StartOrder) \in Seq(S)
<1> DEFINE P == DOMAIN s
           K(i) == StartOrder(s[i])
           key == [i \in P |-> StartOrder(s[i])]
<1>1. key \in [P -> [1..2 -> Int]]
  <2>1. ASSUME NEW i \in P PROVE StartOrder(s[i]) \in [1..2 -> Int]
    <3>1. s[i] \in Typed
      OBVIOUS
    <3>2. s[i].from \in Int /\ s[i].sb \in Int
      BY <3>1 DEF Typed
    <3> QED BY <3>2 DEF StartOrder
  <2> QED BY <2>1
<1>2. \A i \in P : key[i] = K(i)
  OBVIOUS
<1> HIDE DEF key, P, K
<1>3. \A i \in P : {j \in P : Precedes(key[j], key[i]) \/ (key[j] = key[i] /\ j < i)}
                   = {j \in P : Precedes(K(j), K(i)) \/ (K(j) = K(i) /\ j < i)}
  BY <1>2
<1> DEFINE byKey(n) == CHOOSE i \in P : Cardinality({j \in P : Precedes(key[j], key[i]) \/ (key[j] = key[i] /\ j < i)}) = n - 1
           byK(n) == CHOOSE i \in P : Cardinality({j \in P : Precedes(K(j), K(i)) \/ (K(j) = K(i) /\ j < i)}) = n - 1
<1>4. \A n : byKey(n) = byK(n)
  BY <1>3, Zenon
<1>5. RankedBy(P, key) = Ranked(P, K)
  <2>1. RankedBy(P, key) = [n \in 1..Cardinality(P) |-> byKey(n)]
    BY Zenon DEF RankedBy
  <2>2. Ranked(P, K) = [n \in 1..Cardinality(P) |-> byK(n)]
    BY Zenon DEF Ranked
  <2> HIDE DEF byKey, byK
  <2> QED BY <1>4, <2>1, <2>2
<1>6. SortBy(s, StartOrder) = [n \in DOMAIN s |-> s[RankedBy(DOMAIN s, key)[n]]]
  BY <1>5, Zenon DEF SortBy, P, K
<1>7. key \in [DOMAIN s -> [1..2 -> Int]]
  BY <1>1 DEF P
<1>8. [n \in DOMAIN s |-> s[RankedBy(DOMAIN s, key)[n]]] \in Seq(S)
  BY <1>7, SortedStays
<1> QED BY <1>6, <1>8

\* Numbers in their order.
LEMMA RankedStays ==
  ASSUME NEW P \in SUBSET Int, IsFiniteSet(P)
  PROVE  Ranked(P, LAMBDA i : <<i>>) \in Seq(P)
<1> DEFINE K(i) == <<i>>
           key == [i \in P |-> <<i>>]
<1>1. key \in [P -> [1..1 -> Int]]
  OBVIOUS
<1>2. \A i \in P : key[i] = K(i)
  OBVIOUS
<1> HIDE DEF key, K
<1>3. \A i \in P : {j \in P : Precedes(key[j], key[i]) \/ (key[j] = key[i] /\ j < i)}
                   = {j \in P : Precedes(K(j), K(i)) \/ (K(j) = K(i) /\ j < i)}
  BY <1>2
<1> DEFINE byKey(n) == CHOOSE i \in P : Cardinality({j \in P : Precedes(key[j], key[i]) \/ (key[j] = key[i] /\ j < i)}) = n - 1
           byK(n) == CHOOSE i \in P : Cardinality({j \in P : Precedes(K(j), K(i)) \/ (K(j) = K(i) /\ j < i)}) = n - 1
<1>4. \A n : byKey(n) = byK(n)
  BY <1>3, Zenon
<1>5. RankedBy(P, key) = Ranked(P, K)
  <2>1. RankedBy(P, key) = [n \in 1..Cardinality(P) |-> byKey(n)]
    BY Zenon DEF RankedBy
  <2>2. Ranked(P, K) = [n \in 1..Cardinality(P) |-> byK(n)]
    BY Zenon DEF Ranked
  <2> HIDE DEF byKey, byK
  <2> QED BY <1>4, <2>1, <2>2
<1>6. Ranked(P, K) = Ranked(P, LAMBDA i : <<i>>)
  BY Zenon DEF K
<1>7. RankedBy(P, key) \in Seq(P)
  BY <1>1, RankedByOrder
<1> QED BY <1>5, <1>6, <1>7

-----------------------------------------------------------------------------
(* The overlay.                                                             *)

Keys == Nat \X Kinds \X Nat \X Int
Seatings == UNION {[D -> Nat] : D \in SUBSET Keys}
OverlayStates == [spans : Seq(BareSpan), seated : Seatings, applied : SUBSET Events]

\* The keys a seating dated stay keys with days.
LEMMA RegisterStays ==
  ASSUME NEW seated \in Seatings, NEW s \in BareSpan, NEW d \in Nat
  PROVE  Register(seated, s, d) \in Seatings
<1>1. Key(s) \in Keys
  <2>1. s \in Typed
    BY BareIsTyped
  <2> QED BY <2>1 DEF Typed, Key, Keys
<1>2. PICK D \in SUBSET Keys : seated \in [D -> Nat]
  BY DEF Seatings
<1> DEFINE E == D \cup {Key(s)}
<1>3. E \in SUBSET Keys
  BY <1>1
<1>4. Register(seated, s, d) \in [E -> Nat]
  BY <1>2 DEF Register
<1> HIDE DEF E
<1> QED BY <1>3, <1>4 DEF Seatings

\* A re-entry is one of the spans read, inside the span it ends.
LEMMA ReEntryFits ==
  ASSUME NEW known \in Seq(BareSpan), NEW s, NEW d, ReEntryAfter(known, s, d) # {}
  PROVE  /\ known[First(ReEntryAfter(known, s, d))] \in BareSpan
         /\ known[First(ReEntryAfter(known, s, d))].from <= s.to
<1> DEFINE back == ReEntryAfter(known, s, d)
<1>1. back \in SUBSET Nat /\ back # {} /\ \A i \in back : i \in DOMAIN known /\ known[i].from <= s.to
  BY DEF ReEntryAfter
<1> HIDE DEF back
<1>2. First(back) \in back
  BY <1>1, HasLeast DEF First
<1>3. First(back) \in DOMAIN known /\ known[First(back)].from <= s.to
  BY <1>1, <1>2
<1>4. known[First(back)] \in BareSpan
  BY <1>3
<1> QED BY <1>3, <1>4 DEF back

\* One span's turn in a departure's sweep.
SweepOne(e, context, i, now) ==
  LET s == now.spans[i]
      hit == [now EXCEPT !.applied = @ \cup {e}]
      known == now.spans \o context
      back == ReEntryAfter(known, s, e.date)
      return == known[First(back)].from
  IN CASE s.mem # e.mem \/ ~IsOpenThrough(s, e.date) -> now
       [] s.mem = e.mem /\ IsOpenThrough(s, e.date)
          /\ SeatedAtThisInstant(now.seated, s, e.date) -> hit
       [] OTHER ->
          IF back = {} THEN [hit EXCEPT !.spans[i] = CloseAt(s, e)]
          ELSE IF BienniumOf(return) = s.sb THEN hit
          ELSE [hit EXCEPT !.spans = Append([@ EXCEPT ![i] = CloseAt(s, e)], SplitTail(s, return))]

\* A departure is its sweep, over bare spans.
LEMMA DepartedRuns ==
  ASSUME NEW o \in OverlayStates, NEW e \in Events, NEW context \in Seq(BareSpan)
  PROVE  \E f : /\ f[0] = o /\ ApplyDeparted(o, e, context) = f[Len(o.spans)]
                /\ \A i \in 1..Len(o.spans) : f[i] = SweepOne(e, context, i, f[i - 1])
                /\ \A i \in 0..Len(o.spans) : f[i] \in OverlayStates /\ Len(o.spans) <= Len(f[i].spans)
<1> DEFINE N == Len(o.spans)
           V == {v \in OverlayStates : N <= Len(v.spans)}
           hit(now) == [now EXCEPT !.applied = @ \cup {e}]
           known(now) == now.spans \o context
           back(i, now) == ReEntryAfter(known(now), now.spans[i], e.date)
           return(i, now) == known(now)[First(back(i, now))].from
           step(i, now) ==
             CASE now.spans[i].mem # e.mem \/ ~IsOpenThrough(now.spans[i], e.date) -> now
               [] now.spans[i].mem = e.mem /\ IsOpenThrough(now.spans[i], e.date)
                  /\ SeatedAtThisInstant(now.seated, now.spans[i], e.date) -> hit(now)
               [] OTHER ->
                  IF back(i, now) = {} THEN [hit(now) EXCEPT !.spans[i] = CloseAt(now.spans[i], e)]
                  ELSE IF BienniumOf(return(i, now)) = now.spans[i].sb THEN hit(now)
                  ELSE [hit(now) EXCEPT !.spans = Append([@ EXCEPT ![i] = CloseAt(now.spans[i], e)],
                                                         SplitTail(now.spans[i], return(i, now)))]
           f == CHOOSE f : f = [i \in 0..N |-> IF i = 0 THEN o ELSE step(i, f[i - 1])]
<1>1. o \in V /\ N \in Nat
  BY DEF OverlayStates
<1>2. ASSUME NEW i \in 1..N, NEW now \in V PROVE step(i, now) \in V
  <2> DEFINE s == now.spans[i]
             h == hit(now)
  <2>1. /\ now \in OverlayStates /\ now.spans \in Seq(BareSpan) /\ i \in DOMAIN now.spans
        /\ s \in BareSpan /\ N <= Len(now.spans)
    <3>1. now \in OverlayStates /\ N <= Len(now.spans)
      OBVIOUS
    <3>2. now.spans \in Seq(BareSpan)
      BY <3>1 DEF OverlayStates
    <3> QED BY <1>1, <3>1, <3>2
  <2>2. h \in OverlayStates /\ h.spans = now.spans
    BY <2>1 DEF OverlayStates
  <2>3. CloseAt(s, e) \in BareSpan
    BY <2>1, CloseAtBare
  <2> DEFINE closed == [now.spans EXCEPT ![i] = CloseAt(s, e)]
  <2>4. closed \in Seq(BareSpan) /\ Len(closed) = Len(now.spans)
    BY <2>1, <2>3
  <2> DEFINE V1 == [h EXCEPT !.spans[i] = CloseAt(s, e)]
             V2 == [h EXCEPT !.spans = Append([@ EXCEPT ![i] = CloseAt(s, e)], SplitTail(s, return(i, now)))]
  <2>5. V1 \in V
    <3>1. V1 = [h EXCEPT !.spans = closed]
      BY <2>2
    <3> HIDE DEF closed, V1, h
    <3>2. [h EXCEPT !.spans = closed] \in OverlayStates /\ [h EXCEPT !.spans = closed].spans = closed
      BY <2>2, <2>4 DEF OverlayStates
    <3> QED BY <2>1, <2>4, <3>1, <3>2
  <2>6. ASSUME back(i, now) # {} PROVE V2 \in V
    <3>1. known(now) \in Seq(BareSpan)
      BY <2>1
    <3>2. known(now)[First(back(i, now))] \in BareSpan /\ return(i, now) <= s.to
      BY <2>6, <3>1, ReEntryFits
    <3>3. return(i, now) \in Nat /\ return(i, now) < Open
      BY <3>2, BareIsTyped DEF Typed, BareFits
    <3> DEFINE r == return(i, now)
               tail == SplitTail(s, r)
               out == Append(closed, tail)
    <3> HIDE DEF known, back, return
    <3>4. tail \in BareSpan
      BY <2>1, <3>2, <3>3, SplitTailBare
    <3>6. V2 = [h EXCEPT !.spans = out]
      BY <2>2
    <3>5. out \in Seq(BareSpan) /\ N <= Len(out)
      <4> HIDE DEF closed, tail
      <4> QED BY <1>1, <2>1, <2>4, <3>4
    <3> HIDE DEF out, V2, h
    <3>7. [h EXCEPT !.spans = out] \in OverlayStates /\ [h EXCEPT !.spans = out].spans = out
      BY <2>2, <3>5 DEF OverlayStates
    <3> QED BY <3>5, <3>6, <3>7
  <2>7. h \in V
    BY <2>1, <2>2
  <2>8. step(i, now) \in {now, h, V1} \/ (back(i, now) # {} /\ step(i, now) = V2)
    <3> HIDE DEF back, return, known, IsOpenThrough, SeatedAtThisInstant
    <3> QED BY Zenon
  <2> HIDE DEF step, h, V1, V2, back, V
  <2> QED BY <2>5, <2>6, <2>7, <2>8
<1> DEFINE G == [p \in (1..N) \X V |-> step(p[1], p[2])]
<1>3. \A n \in 1..N : \A v \in V : G[<<n, v>>] = step(n, v)
  <2> HIDE DEF step, V, N
  <2> QED OBVIOUS
<1>4. G \in [(1..N) \X V -> V]
  <2> HIDE DEF step, V, N
  <2> QED BY <1>2
<1>8. ApplyDeparted(o, e, context) = f[N]
  BY Zenon DEF ApplyDeparted
<1>9. V \subseteq OverlayStates
  OBVIOUS
<1> HIDE DEF G, V, step, N, hit
<1>5. PICK g \in [0..N -> V] : Unfolds(g, N, o, G)
  BY <1>1, <1>4, RecursionExists
<1>6. g = [i \in 0..N |-> IF i = 0 THEN o ELSE step(i, g[i - 1])]
  <2>1. ASSUME NEW i \in 0..N
        PROVE  (IF i = 0 THEN o ELSE G[<<i, g[i - 1]>>]) = (IF i = 0 THEN o ELSE step(i, g[i - 1]))
    <3>1. CASE i # 0
      <4>1. i \in 1..N /\ g[i - 1] \in V
        BY <1>1, <3>1
      <4> QED BY <1>3, <4>1
    <3> QED BY <3>1
  <2>2. g = [i \in 0..N |-> IF i = 0 THEN o ELSE G[<<i, g[i - 1]>>]]
    BY <1>5 DEF Unfolds
  <2> QED BY <2>1, <2>2
<1>7. f = [i \in 0..N |-> IF i = 0 THEN o ELSE step(i, f[i - 1])]
  BY <1>6, Zenon
<1> HIDE DEF f
<1>10. f[0] \in V /\ \A i \in 1..N : f[i - 1] \in V => f[i] \in V
  <2>1. f[0] = o
    BY <1>1, <1>7
  <2>2. ASSUME NEW i \in 1..N, f[i - 1] \in V PROVE f[i] \in V
    <3>1. f[i] = step(i, f[i - 1])
      BY <1>1, <1>7
    <3> QED BY <1>2, <2>2, <3>1
  <2> QED BY <1>1, <2>1, <2>2
<1>11. \A n \in 0..N : f[n] \in V
  BY <1>1, <1>10, RunStays
<1>12. \A n \in 0..N : f[n] \in OverlayStates /\ N <= Len(f[n].spans)
  <2>1. \A v \in V : v \in OverlayStates /\ N <= Len(v.spans)
    BY DEF V
  <2> QED BY <1>11, <2>1
<1>13. f[0] = o /\ \A n \in 1..N : f[n] = SweepOne(e, context, n, f[n - 1])
  <2>1. \A n, v : SweepOne(e, context, n, v) = step(n, v)
    BY Zenon DEF SweepOne, step, hit
  <2>2. f[0] = o /\ \A n \in 1..N : f[n] = step(n, f[n - 1])
    BY <1>1, <1>7
  <2> QED BY <2>1, <2>2
<1> QED BY <1>8, <1>12, <1>13 DEF N

\* A departure leaves bare spans.
LEMMA DepartedStays ==
  ASSUME NEW o \in OverlayStates, NEW e \in Events, NEW context \in Seq(BareSpan)
  PROVE  ApplyDeparted(o, e, context) \in OverlayStates
<1>1. Len(o.spans) \in Nat
  BY DEF OverlayStates
<1> QED BY <1>1, DepartedRuns

\* A vacate leaves bare spans.
LEMMA VacatedStays ==
  ASSUME NEW o \in OverlayStates, NEW e \in Events
  PROVE  ApplyVacated(o, e) \in OverlayStates
<1> DEFINE N == Len(o.spans)
           closed == [i \in DOMAIN o.spans |->
                        IF MatchesSeat(o.spans[i], e) THEN CloseAt(o.spans[i], e) ELSE o.spans[i]]
<1>1. o.spans \in Seq(BareSpan) /\ N \in Nat /\ DOMAIN o.spans = 1..N
  BY DEF OverlayStates
<1>2. \A i \in DOMAIN o.spans : o.spans[i] \in BareSpan /\ CloseAt(o.spans[i], e) \in BareSpan
  BY <1>1, CloseAtBare
<1>3. closed \in [1..N -> BareSpan]
  <2> HIDE DEF N
  <2> QED BY <1>1, <1>2
<1>4. ApplyVacated(o, e) = [o EXCEPT !.spans = SubSeq(closed, 1, N)]
  BY DEF ApplyVacated
<1> HIDE DEF closed, N
<1>5. SubSeq(closed, 1, N) \in Seq(BareSpan)
  <2>1. closed \in Seq(BareSpan) /\ Len(closed) = N
    BY <1>1, <1>3, FunIsSeq
  <2> QED BY <1>1, <2>1
<1> QED BY <1>4, <1>5 DEF OverlayStates

\* A target of a seating does not end before it.
LEMMA TargetFits ==
  ASSUME NEW spans \in Seq(BareSpan), NEW e \in Events, NEW i \in SeatingTargets(spans, e)
  PROVE  i \in DOMAIN spans /\ e.date <= spans[i].to
<1>1. i \in DOMAIN spans /\ (MatchesSeat(spans[i], e) \/ OpensAfterSeating(spans[i], e))
  BY DEF SeatingTargets
<1> DEFINE s == spans[i]
<1>2. s \in BareSpan
  BY <1>1
<1> HIDE DEF s
<1>3. s \in Typed /\ BareFits(s) /\ e.date \in Nat /\ BienniumOf(e.date) \in Biennia
      /\ e.date <= LastDay(BienniumOf(e.date))
  BY <1>2, BareIsTyped, EventFacts
<1>4. ASSUME MatchesSeat(s, e) PROVE e.date <= s.to
  BY <1>4 DEF MatchesSeat, Covers
<1>5. ASSUME OpensAfterSeating(s, e) PROVE e.date <= s.to
  <2> DEFINE b == BienniumOf(e.date)
  <2>1. s.from = FirstDay(s.sb) /\ s.sb - 1 = b
    BY <1>5 DEF OpensAfterSeating
  <2>2. s.from <= s.to /\ s.from \in Nat /\ s.to \in Nat /\ s.sb \in Int
    BY <1>3 DEF BareFits, Typed
  <2> HIDE DEF b
  <2>3. b \in Int /\ b < s.sb
    BY <2>1, <2>2
  <2>4. LastDay(b) < FirstDay(s.sb) /\ LastDay(b) \in Int
    BY <2>2, <2>3, Calendar
  <2>5. e.date <= LastDay(b) /\ e.date \in Nat
    BY <1>3 DEF b
  <2>6. e.date <= LastDay(b) /\ LastDay(b) < s.from /\ s.from <= s.to
    BY <2>1, <2>2, <2>4, <2>5
  <2> QED BY <2>2, <2>4, <2>5, <2>6
<1> QED BY <1>1, <1>4, <1>5 DEF s

\* What a seating does to the span it dates, and the state it leaves when it mints one.
DatedBy(s, e) == [s EXCEPT !.from = e.date, !.sbasis = e.basis]

DatedAt(o, e, k) == [o EXCEPT !.seated = Register(@, o.spans[k], e.date), !.spans[k] = DatedBy(o.spans[k], e)]

MintedBy(o, e, current) ==
  [o EXCEPT !.spans = Append(@, Synthesize(e, current)),
            !.seated = Register(@, Synthesize(e, current), e.date)]

Visits == [o : OverlayStates, hit : BOOLEAN]

\* One span's turn in a seating's visit.
VisitOne(targets, e, i, now) ==
  LET s == now.o.spans[i]
  IN IF i \notin targets \/ ~SeatingStartsTenure(s, e.date) THEN now
     ELSE IF Key(s) \in DOMAIN now.o.seated THEN [now EXCEPT !.hit = TRUE]
     ELSE [o |-> DatedAt(now.o, e, i), hit |-> TRUE]

SeatedRun(f, o, e, current) ==
  /\ f[0] = [o |-> o, hit |-> FALSE]
  /\ \A i \in 1..Len(o.spans) : f[i] = VisitOne(SeatingTargets(o.spans, e), e, i, f[i - 1])
  /\ \A i \in 0..Len(o.spans) : f[i] \in Visits
  /\ ApplySeated(o, e, current) =
       IF f[Len(o.spans)].hit \/ ~InBiennium(e.date, current) THEN f[Len(o.spans)].o
       ELSE MintedBy(f[Len(o.spans)].o, e, current)

\* A seating is its visit, and what it mints when the visit hits nothing.
LEMMA SeatedRuns ==
  ASSUME NEW o \in OverlayStates, NEW e \in Events, e.seat[1] \in Kinds, NEW current \in Biennia
  PROVE  \E f : SeatedRun(f, o, e, current)
<1> DEFINE N == Len(o.spans)
           targets == SeatingTargets(o.spans, e)
           V == {v \in Visits : /\ Len(v.o.spans) = N
                                /\ \A i \in 1..N : v.o.spans[i].to = o.spans[i].to}
           a == [o |-> o, hit |-> FALSE]
           step(i, now) ==
             IF i \notin targets \/ ~SeatingStartsTenure(now.o.spans[i], e.date) THEN now
             ELSE IF Key(now.o.spans[i]) \in DOMAIN now.o.seated THEN [now EXCEPT !.hit = TRUE]
             ELSE [o |-> [now.o EXCEPT
                            !.seated = Register(@, now.o.spans[i], e.date),
                            !.spans[i] = [now.o.spans[i] EXCEPT !.from = e.date, !.sbasis = e.basis]],
                   hit |-> TRUE]
           f == CHOOSE f : f = [i \in 0..N |-> IF i = 0 THEN a ELSE step(i, f[i - 1])]
           made == Synthesize(e, current)
<1> USE DEF Visits
<1>1. a \in V /\ N \in Nat /\ o.spans \in Seq(BareSpan)
  BY DEF OverlayStates
<1>2. ASSUME NEW i \in 1..N, NEW now \in V PROVE step(i, now) \in V
  <2> DEFINE w == now.o
             s == w.spans[i]
             t == [s EXCEPT !.from = e.date, !.sbasis = e.basis]
             seated == Register(w.seated, s, e.date)
             spans == [w.spans EXCEPT ![i] = t]
             out == [w EXCEPT !.seated = seated, !.spans = spans]
  <2>1. /\ w \in OverlayStates /\ w.spans \in Seq(BareSpan) /\ w.seated \in Seatings
        /\ Len(w.spans) = N /\ (\A j \in 1..N : w.spans[j].to = o.spans[j].to)
        /\ now.hit \in BOOLEAN /\ now \in Visits
    <3>1. /\ w \in OverlayStates /\ now.hit \in BOOLEAN /\ now \in Visits
          /\ Len(w.spans) = N /\ \A j \in 1..N : w.spans[j].to = o.spans[j].to
      OBVIOUS
    <3> HIDE DEF w
    <3> QED BY <3>1 DEF OverlayStates
  <2>2. s \in BareSpan /\ DOMAIN w.spans = 1..N /\ s \in Typed
    <3>1. DOMAIN w.spans = 1..N
      BY <2>1
    <3>2. s \in BareSpan
      BY <2>1, <3>1
    <3> QED BY <3>1, <3>2, BareIsTyped
  <2> HIDE DEF w
  <2>3. ASSUME i \in targets, SeatingStartsTenure(s, e.date) PROVE [o |-> out, hit |-> TRUE] \in V
    <3>1. e.date <= s.to /\ BienniumOf(e.date) <= s.sb
      <4>1. e.date <= o.spans[i].to
        BY <1>1, <2>3, TargetFits
      <4>2. BienniumOf(e.date) \in Biennia /\ s.sb \in Int
        BY <2>2, EventFacts DEF Typed
      <4> QED BY <2>1, <2>3, <4>1, <4>2 DEF SeatingStartsTenure, Biennia
    <3> HIDE DEF s, N
    <3>2. t \in BareSpan /\ t.to = s.to
      BY <2>2, <3>1, SeatedBare DEF Typed
    <3>3. seated \in Seatings
      BY <2>1, <2>2, RegisterStays, EventFacts
    <3> HIDE DEF t, seated
    <3>4. spans \in Seq(BareSpan) /\ Len(spans) = N /\ \A j \in 1..N : spans[j].to = o.spans[j].to
      <4>1. spans \in Seq(BareSpan) /\ Len(spans) = N
        BY <2>1, <2>2, <3>2
      <4>2. ASSUME NEW j \in 1..N PROVE spans[j].to = w.spans[j].to
        BY <2>1, <2>2, <3>2 DEF s
      <4> QED BY <2>1, <4>1, <4>2
    <3> HIDE DEF spans
    <3>5. out \in OverlayStates /\ out.spans = spans
      BY <2>1, <3>3, <3>4 DEF OverlayStates
    <3> HIDE DEF out
    <3> QED BY <3>4, <3>5
  <2>4. [now EXCEPT !.hit = TRUE] \in V
    <3>1. [now EXCEPT !.hit = TRUE] \in Visits /\ [now EXCEPT !.hit = TRUE].o = w
      BY <2>1 DEF w
    <3> QED BY <2>1, <3>1
  <2>5. \/ step(i, now) \in {now, [now EXCEPT !.hit = TRUE]}
        \/ i \in targets /\ SeatingStartsTenure(s, e.date) /\ step(i, now) = [o |-> out, hit |-> TRUE]
    <3>1. step(i, now) =
             IF i \notin targets \/ ~SeatingStartsTenure(s, e.date) THEN now
             ELSE IF Key(s) \in DOMAIN w.seated THEN [now EXCEPT !.hit = TRUE]
             ELSE [o |-> [w EXCEPT !.seated = Register(@, s, e.date), !.spans[i] = t], hit |-> TRUE]
      BY Zenon DEF w
    <3>2. [w EXCEPT !.seated = Register(@, s, e.date), !.spans[i] = t] = out
      BY <2>1 DEF OverlayStates
    <3> HIDE DEF out, step, t, targets, s
    <3> QED BY <3>1, <3>2
  <2> HIDE DEF step, out, s, targets, V
  <2> QED BY <2>3, <2>4, <2>5
<1>8. ApplySeated(o, e, current) =
        IF f[N].hit \/ ~InBiennium(e.date, current) THEN f[N].o
        ELSE [f[N].o EXCEPT !.spans = Append(@, made), !.seated = Register(@, made, e.date)]
  BY Zenon DEF ApplySeated
<1>9. V \subseteq Visits
  OBVIOUS
<1> DEFINE G == [p \in (1..N) \X V |-> step(p[1], p[2])]
<1> HIDE DEF V, step, N, a, targets
<1>3. \A n \in 1..N : \A v \in V : G[<<n, v>>] = step(n, v)
  OBVIOUS
<1>4. G \in [(1..N) \X V -> V]
  BY <1>2
<1> HIDE DEF G
<1>5. PICK g \in [0..N -> V] : Unfolds(g, N, a, G)
  BY <1>1, <1>4, RecursionExists
<1>6. g = [i \in 0..N |-> IF i = 0 THEN a ELSE step(i, g[i - 1])]
  <2>1. ASSUME NEW i \in 0..N
        PROVE  (IF i = 0 THEN a ELSE G[<<i, g[i - 1]>>]) = (IF i = 0 THEN a ELSE step(i, g[i - 1]))
    <3>1. CASE i # 0
      <4>1. i \in 1..N /\ g[i - 1] \in V
        BY <1>1, <3>1
      <4> QED BY <1>3, <4>1
    <3> QED BY <3>1
  <2>2. g = [i \in 0..N |-> IF i = 0 THEN a ELSE G[<<i, g[i - 1]>>]]
    BY <1>5 DEF Unfolds
  <2> QED BY <2>1, <2>2
<1>7. f = [i \in 0..N |-> IF i = 0 THEN a ELSE step(i, f[i - 1])]
  BY <1>6, Zenon
<1> HIDE DEF f
<1>10. f[0] \in V /\ \A i \in 1..N : f[i - 1] \in V => f[i] \in V
  <2>1. f[0] = a
    BY <1>1, <1>7
  <2>2. ASSUME NEW i \in 1..N, f[i - 1] \in V PROVE f[i] \in V
    <3>1. f[i] = step(i, f[i - 1])
      BY <1>1, <1>7
    <3> QED BY <1>2, <2>2, <3>1
  <2> QED BY <1>1, <2>1, <2>2
<1>11. \A n \in 0..N : f[n] \in V
  BY <1>1, <1>10, RunStays
<1>12. \A n \in 0..N : f[n] \in Visits
  BY <1>9, <1>11
<1>13. f[0] = a /\ \A n \in 1..N : f[n] = VisitOne(targets, e, n, f[n - 1])
  <2>1. \A n, v : VisitOne(targets, e, n, v) = step(n, v)
    BY Zenon DEF VisitOne, DatedAt, DatedBy, step
  <2>2. f[0] = a /\ \A n \in 1..N : f[n] = step(n, f[n - 1])
    BY <1>1, <1>7
  <2> QED BY <2>1, <2>2
<1> HIDE DEF made
<1>14. ApplySeated(o, e, current) =
         IF f[N].hit \/ ~InBiennium(e.date, current) THEN f[N].o ELSE MintedBy(f[N].o, e, current)
  BY <1>8, Zenon DEF MintedBy, made
<1>15. SeatedRun(f, o, e, current)
  BY <1>12, <1>13, <1>14 DEF SeatedRun, N, a, targets
<1> QED BY <1>15

\* A seating leaves bare spans.
LEMMA SeatedStays ==
  ASSUME NEW o \in OverlayStates, NEW e \in Events, e.seat[1] \in Kinds, NEW current \in Biennia
  PROVE  ApplySeated(o, e, current) \in OverlayStates
<1> DEFINE N == Len(o.spans)
           made == Synthesize(e, current)
<1>1. PICK f : SeatedRun(f, o, e, current)
  BY SeatedRuns
<1> DEFINE p == f[N].o
<1>2. /\ p \in OverlayStates
      /\ ApplySeated(o, e, current) =
           IF f[N].hit \/ ~InBiennium(e.date, current) THEN p ELSE MintedBy(p, e, current)
  <2>1. N \in 0..N
    BY DEF OverlayStates
  <2> QED BY <1>1, <2>1 DEF SeatedRun, Visits
<1>3. ASSUME InBiennium(e.date, current) PROVE MintedBy(p, e, current) \in OverlayStates
  <2>1. made \in BareSpan
    BY <1>3, SynthesizedBare
  <2>2. p.spans \in Seq(BareSpan) /\ p.seated \in Seatings
    BY <1>2 DEF OverlayStates
  <2>3. MintedBy(p, e, current) =
          [p EXCEPT !.spans = Append(@, made), !.seated = Register(@, made, e.date)]
    BY DEF MintedBy
  <2> HIDE DEF p, made
  <2>4. Append(p.spans, made) \in Seq(BareSpan) /\ Register(p.seated, made, e.date) \in Seatings
    BY <2>1, <2>2, RegisterStays, EventFacts
  <2> QED BY <1>2, <2>3, <2>4 DEF OverlayStates
<1> HIDE DEF p
<1> QED BY <1>2, <1>3

\* Every event leaves bare spans.
LEMMA EventStays ==
  ASSUME NEW o \in OverlayStates, NEW e \in Events, NEW current \in Biennia,
         NEW owned \in SUBSET Kinds, NEW context \in Seq(BareSpan)
  PROVE  ApplyEvent(o, e, current, owned, context) \in OverlayStates
<1>1. ApplyDeparted(o, e, context) \in OverlayStates /\ ApplyVacated(o, e) \in OverlayStates
  BY DepartedStays, VacatedStays
<1>2. e.seat[1] \in owned => ApplySeated(o, e, current) \in OverlayStates
  BY SeatedStays
<1> QED BY <1>1, <1>2 DEF ApplyEvent

LEMMA BareSubTyped == BareSpan \in SUBSET Typed
BY BareIsTyped

\* Folding one member's party spans keeps what every extension of a span keeps.
LEMMA PartyRunsKeep ==
  ASSUME NEW P \in SUBSET BareSpan, \A s, t \in P : Extend(s, t) \in P, NEW spans \in Seq(P)
  PROVE  PartyRuns(spans) \in Seq(P)
<1> DEFINE ordered == SortBy(spans, StartOrder)
           N == Len(ordered)
           V == Seq(P)
           a == <<>>
           step(n, runs) ==
             IF runs # <<>> /\ runs[Len(runs)].disc = ordered[n].disc
             THEN [runs EXCEPT ![Len(runs)] = Extend(@, ordered[n])]
             ELSE Append(runs, ordered[n])
           f == CHOOSE f : f = [n \in 0..N |-> IF n = 0 THEN a ELSE step(n, f[n - 1])]
<1>1. ordered \in Seq(P) /\ N \in Nat /\ a \in V /\ \A n \in 1..N : ordered[n] \in P
  <2>1. ordered \in Seq(P)
    <3>1. P \in SUBSET Typed
      BY BareSubTyped
    <3> QED BY <3>1, SortStartsStays
  <2> HIDE DEF ordered
  <2> QED BY <2>1
<1>8. PartyRuns(spans) = f[N]
  <2>1. ordered = SortBy(spans, LAMBDA s : <<s.from, s.sb>>)
    BY Zenon DEF SortBy, StartOrder
  <2> HIDE DEF ordered
  <2> QED BY <2>1, ZenonT(30) DEF PartyRuns
<1> HIDE DEF ordered
<1>2. ASSUME NEW n \in 1..N, NEW runs \in V PROVE step(n, runs) \in V
  <2> DEFINE s == ordered[n]
  <2>1. s \in P
    BY <1>1
  <2> HIDE DEF s
  <2>2. CASE runs # <<>> /\ runs[Len(runs)].disc = s.disc
    <3>1. Len(runs) \in DOMAIN runs /\ runs[Len(runs)] \in P
      BY <2>2
    <3>2. Extend(runs[Len(runs)], s) \in P
      BY <2>1, <3>1
    <3> DEFINE x == Extend(runs[Len(runs)], s)
    <3>3. [runs EXCEPT ![Len(runs)] = Extend(@, s)] = [runs EXCEPT ![Len(runs)] = x]
      BY <3>1
    <3>5. x \in P
      BY <3>2
    <3> HIDE DEF x
    <3>4. [runs EXCEPT ![Len(runs)] = x] \in Seq(P)
      BY <3>1, <3>5
    <3> QED BY <2>2, <3>3, <3>4 DEF s
  <2>3. CASE ~(runs # <<>> /\ runs[Len(runs)].disc = s.disc)
    <3>1. Append(runs, s) \in Seq(P)
      BY <2>1
    <3> QED BY <2>3, <3>1 DEF s
  <2> QED BY <2>2, <2>3
<1> DEFINE G == [p \in (1..N) \X V |-> step(p[1], p[2])]
<1> HIDE DEF V, step, N, a
<1>3. \A n \in 1..N : \A v \in V : G[<<n, v>>] = step(n, v)
  OBVIOUS
<1>4. G \in [(1..N) \X V -> V]
  BY <1>2
<1> HIDE DEF G
<1>5. PICK g \in [0..N -> V] : Unfolds(g, N, a, G)
  BY <1>1, <1>4, RecursionExists
<1>6. g = [i \in 0..N |-> IF i = 0 THEN a ELSE step(i, g[i - 1])]
  <2>1. ASSUME NEW i \in 0..N
        PROVE  (IF i = 0 THEN a ELSE G[<<i, g[i - 1]>>]) = (IF i = 0 THEN a ELSE step(i, g[i - 1]))
    <3>1. CASE i # 0
      <4>1. i \in 1..N /\ g[i - 1] \in V
        BY <1>1, <3>1
      <4> QED BY <1>3, <4>1
    <3> QED BY <3>1
  <2>2. g = [i \in 0..N |-> IF i = 0 THEN a ELSE G[<<i, g[i - 1]>>]]
    BY <1>5 DEF Unfolds
  <2> QED BY <2>1, <2>2
<1>7. f = [i \in 0..N |-> IF i = 0 THEN a ELSE step(i, f[i - 1])]
  BY <1>6, Zenon
<1> HIDE DEF f
<1>10. f[0] \in V /\ \A i \in 1..N : f[i - 1] \in V => f[i] \in V
  <2>1. f[0] = a
    BY <1>1, <1>7
  <2>2. ASSUME NEW i \in 1..N, f[i - 1] \in V PROVE f[i] \in V
    <3>1. f[i] = step(i, f[i - 1])
      BY <1>1, <1>7
    <3> QED BY <1>2, <2>2, <3>1
  <2> QED BY <1>1, <2>1, <2>2
<1>11. f[N] \in V
  <2>1. \A n \in 0..N : f[n] \in V
    BY <1>1, <1>10, RunStays
  <2> QED BY <1>1, <2>1
<1> QED BY <1>8, <1>11 DEF V

\* A sort lists what it was given, in the order of its key.
Sorts(t, s, key) == t = [n \in DOMAIN s |-> s[RankedBy(DOMAIN s, key)[n]]]

KeepsOrder(t, s, key) ==
  /\ \A i \in DOMAIN s : \E n \in DOMAIN t : t[n] = s[i]
  /\ \A n \in DOMAIN t : \E i \in DOMAIN s : t[n] = s[i]
  /\ \A m, n \in DOMAIN t : m < n =>
       \E i, j \in DOMAIN s : t[m] = s[i] /\ t[n] = s[j] /\ ~Precedes(key[j], key[i])

\* A sorted sequence has every element of the one it sorts, from distinct positions and in order.
LEMMA SortedOrder ==
  ASSUME NEW S, NEW s \in Seq(S), NEW L \in Nat, NEW key \in [DOMAIN s -> [1..L -> Int]],
         NEW t, Sorts(t, s, key)
  PROVE  t \in Seq(S) /\ KeepsOrder(t, s, key)
<1>1. DOMAIN s = 1..Len(s) /\ Len(s) \in Nat
  OBVIOUS
<1>2. IsFiniteSet(DOMAIN s) /\ Cardinality(DOMAIN s) = Len(s) /\ DOMAIN s \in SUBSET Int
  <2>1. IsFiniteSet(1..Len(s)) /\ Cardinality(1..Len(s)) = Len(s)
    BY <1>1, UpTo
  <2>2. IsFiniteSet(DOMAIN s) /\ Cardinality(DOMAIN s) = Len(s)
    BY <1>1, <2>1, Zenon
  <2>3. DOMAIN s \in SUBSET Int
    BY <1>1
  <2> QED BY <2>2, <2>3
<1> DEFINE at == RankedBy(DOMAIN s, key)
<1>3. at \in Seq(DOMAIN s) /\ Len(at) = Len(s)
  BY <1>2, RankedByOrder
<1>4. /\ \A i \in DOMAIN s : \E n \in 1..Cardinality(DOMAIN s) : at[n] = i
      /\ \A m, n \in 1..Cardinality(DOMAIN s) : m < n =>
           at[m] # at[n] /\ ~Precedes(key[at[n]], key[at[m]])
  <2>1. Ranking(at, DOMAIN s, key)
    BY <1>2, RankedByOrder
  <2> QED BY <2>1 DEF Ranking
<1>5. Len(t) = Len(s) /\ t \in Seq(S)
  BY SortedStays DEF Sorts
<1>6. t = [n \in DOMAIN s |-> s[at[n]]]
  BY Zenon DEF Sorts
<1> HIDE DEF at
<1>7. DOMAIN t = DOMAIN s /\ \A n \in DOMAIN t : t[n] = s[at[n]]
  BY <1>6
<1>8. \A n \in DOMAIN s : at[n] \in DOMAIN s
  BY <1>1, <1>3
<1>9. 1..Cardinality(DOMAIN s) = DOMAIN s
  BY <1>1, <1>2
<1>10. ASSUME NEW i \in DOMAIN s PROVE \E n \in DOMAIN t : t[n] = s[i]
  <2>1. PICK n \in 1..Cardinality(DOMAIN s) : at[n] = i
    BY <1>4
  <2>2. n \in DOMAIN t
    BY <1>7, <1>9
  <2> QED BY <1>7, <2>1, <2>2
<1>11. ASSUME NEW n \in DOMAIN t PROVE \E i \in DOMAIN s : t[n] = s[i]
  BY <1>7, <1>8
<1>12. ASSUME NEW m \in DOMAIN t, NEW n \in DOMAIN t, m < n
       PROVE  \E i, j \in DOMAIN s : t[m] = s[i] /\ t[n] = s[j] /\ ~Precedes(key[j], key[i])
  <2>1. at[m] \in DOMAIN s /\ at[n] \in DOMAIN s /\ t[m] = s[at[m]] /\ t[n] = s[at[n]]
    BY <1>7, <1>8
  <2>2. at[m] # at[n] /\ ~Precedes(key[at[n]], key[at[m]])
    BY <1>4, <1>7, <1>9, <1>12
  <2> QED BY <2>1, <2>2
<1> QED BY <1>5, <1>10, <1>11, <1>12 DEF KeepsOrder

\* Selecting positions of a list keeps exactly the elements at them.
LEMMA SelectedElements ==
  ASSUME NEW S, NEW s \in Seq(S), NEW P \in SUBSET DOMAIN s
  PROVE  Elements(Selected(s, P)) = {s[i] : i \in P}
<1> DEFINE R == {p \in P \X P : p[1] < p[2]}
           N == Cardinality(P)
           low(x) == {j \in P : j < x}
           at == [n \in 1..N |-> CHOOSE i \in P : Cardinality(low(i)) = n - 1]
<1>1. \A i, j \in P : <<i, j>> \in R <=> i < j
  OBVIOUS
<1>2. P \subseteq Nat /\ IsFiniteSet(P)
  <2>1. DOMAIN s = 1..Len(s) /\ Len(s) \in Nat
    OBVIOUS
  <2>2. IsFiniteSet(1..Len(s))
    BY <2>1, UpTo
  <2>3. IsFiniteSet(DOMAIN s)
    BY <2>1, <2>2, Zenon
  <2> QED BY <2>1, <2>3, FS_Subset
<1> HIDE DEF R
<1>3. \A i \in P : Below(P, R, i) = low(i)
  BY <1>1 DEF Below
<1> HIDE DEF low
<1>4. /\ N \in Nat
      /\ \A n \in 1..N : \E i \in P : Cardinality(low(i)) = n - 1
  <2>1. Orders(P, R)
    BY <1>1, <1>2 DEF Orders
  <2>4. /\ Cardinality(P) \in Nat
        /\ \A n \in 1..Cardinality(P) : \E i \in P : Cardinality(Below(P, R, i)) = n - 1
    BY <1>2, <2>1, RanksCover
  <2> QED BY <1>3, <2>4
<1>5. ASSUME NEW n \in 1..N PROVE at[n] \in P /\ Cardinality(low(at[n])) = n - 1
  <2>1. at[n] = CHOOSE i \in P : Cardinality(low(i)) = n - 1
    OBVIOUS
  <2> HIDE DEF at
  <2> QED BY <1>4, <2>1
<1>6. Selected(s, P) = [n \in 1..N |-> s[at[n]]]
  <2>1. Selected(s, P) = [n \in 1..N |-> s[CHOOSE i \in P : Cardinality(low(i)) = n - 1]]
    BY Zenon DEF Selected, low
  <2> QED BY <2>1
<1>7. at = [n \in 1..N |-> at[n]]
  OBVIOUS
<1> HIDE DEF at
<1>8. \A i \in P : \E n \in 1..N : at[n] = i
  <2>1. at \in [1..N -> P]
    BY <1>5, <1>7
  <2>2. ASSUME NEW m \in 1..N, NEW n \in 1..N, at[m] = at[n] PROVE m = n
    <3>1. Cardinality(low(at[m])) = m - 1 /\ Cardinality(low(at[n])) = n - 1
      BY <1>5
    <3>2. m - 1 = n - 1
      BY <2>2, <3>1, Zenon
    <3> QED BY <1>4, <3>2
  <2> QED BY <1>2, <2>1, <2>2, ListsAll DEF N
<1> DEFINE t == [n \in 1..N |-> s[at[n]]]
<1>9. DOMAIN t = 1..N /\ \A n \in 1..N : t[n] = s[at[n]]
  OBVIOUS
<1> HIDE DEF t, N
<1>10. Elements(t) = {s[i] : i \in P}
  <2>1. ASSUME NEW x \in Elements(t) PROVE x \in {s[i] : i \in P}
    <3>1. PICK n \in 1..N : x = t[n]
      BY <1>9 DEF Elements
    <3> QED BY <1>5, <1>9, <3>1
  <2>2. ASSUME NEW i \in P PROVE s[i] \in Elements(t)
    <3>1. PICK n \in 1..N : at[n] = i
      BY <1>8
    <3> QED BY <1>9, <3>1 DEF Elements
  <2> QED BY <2>1, <2>2
<1> QED BY <1>6, <1>10 DEF t

\* Sorting keeps the elements.
LEMMA SortSpansElements ==
  ASSUME NEW s \in Seq(Typed)
  PROVE  Elements(SortSpans(s)) = Elements(s)
<1> DEFINE P == DOMAIN s
           K(i) == KeyOrder(s[i])
           key == [i \in P |-> KeyOrder(s[i])]
<1>1. key \in [P -> [1..4 -> Int]]
  <2>1. ASSUME NEW i \in P PROVE KeyOrder(s[i]) \in [1..4 -> Int]
    <3>1. s[i] \in Typed
      OBVIOUS
    <3> QED BY <3>1, KeyOrderTyped
  <2> QED BY <2>1
<1>2. \A i \in P : key[i] = K(i)
  OBVIOUS
<1> HIDE DEF key, P, K
<1>3. \A i \in P : {j \in P : Precedes(key[j], key[i]) \/ (key[j] = key[i] /\ j < i)}
                   = {j \in P : Precedes(K(j), K(i)) \/ (K(j) = K(i) /\ j < i)}
  BY <1>2
<1> DEFINE byKey(n) == CHOOSE i \in P : Cardinality({j \in P : Precedes(key[j], key[i]) \/ (key[j] = key[i] /\ j < i)}) = n - 1
           byK(n) == CHOOSE i \in P : Cardinality({j \in P : Precedes(K(j), K(i)) \/ (K(j) = K(i) /\ j < i)}) = n - 1
<1>4. \A n : byKey(n) = byK(n)
  BY <1>3, Zenon
<1>5. RankedBy(P, key) = Ranked(P, K)
  <2>1. RankedBy(P, key) = [n \in 1..Cardinality(P) |-> byKey(n)]
    BY Zenon DEF RankedBy
  <2>2. Ranked(P, K) = [n \in 1..Cardinality(P) |-> byK(n)]
    BY Zenon DEF Ranked
  <2> HIDE DEF byKey, byK
  <2> QED BY <1>4, <2>1, <2>2
<1> DEFINE t == SortSpans(s)
<1>6. Sorts(t, s, key)
  BY <1>5, Zenon DEF Sorts, SortSpans, SortBy, P, K
<1>7. key \in [DOMAIN s -> [1..4 -> Int]]
  BY <1>1 DEF P
<1> HIDE DEF t
<1>8. KeepsOrder(t, s, key)
  BY <1>6, <1>7, SortedOrder
<1> QED BY <1>8 DEF Elements, t, KeepsOrder

\* What a merge of party runs leaves: every other span, and party spans of the members.
MergedFrom(merged, spans) ==
  /\ merged \in Seq(BareSpan)
  /\ \A s \in Elements(merged) : s.kind # Party => s \in Elements(spans)
  /\ \A s \in Elements(spans) : s.kind # Party => s \in Elements(merged)
  /\ \A s \in Elements(merged) : \E t \in Elements(spans) : s.mem = t.mem /\ s.kind = t.kind

LEMMA MergeKeeps ==
  ASSUME NEW spans \in Seq(BareSpan)
  PROVE  MergedFrom(MergePartyContinuity(spans), spans)
<1> DEFINE others == Selected(spans, {i \in DOMAIN spans : spans[i].kind # Party})
           parties(m) == Selected(spans, {i \in DOMAIN spans : spans[i].kind = Party /\ spans[i].mem = m})
           members == {s.mem : s \in {spans[i] : i \in DOMAIN spans}}
           lists == [m \in members |-> PartyRuns(parties(m))]
           order == Ranked(members, LAMBDA m : <<m>>)
           N == Len(order)
           Rests == {s \in BareSpan : s.kind = Party /\ \E t \in Elements(spans) : s.mem = t.mem /\ s.kind = t.kind}
           Parts == {s \in Elements(spans) : s.kind # Party}
           Q == Rests \cup Parts
           V == {v \in Seq(Q) : Parts \subseteq Elements(v)}
           a == others
           step(n, v) == v \o lists[order[n]]
           f == CHOOSE f : f = [n \in 0..N |-> IF n = 0 THEN a ELSE step(n, f[n - 1])]
<1>8. MergePartyContinuity(spans) = SortSpans(f[N])
  BY Zenon DEF MergePartyContinuity
<1>9. Elements(others) = Parts /\ others \in Seq(BareSpan)
  <2>1. Elements(others) = {spans[i] : i \in {j \in DOMAIN spans : spans[j].kind # Party}}
    BY SelectedElements
  <2>2. {spans[i] : i \in {j \in DOMAIN spans : spans[j].kind # Party}} = Parts
    BY DEF Elements
  <2>3. others \in Seq(BareSpan)
    BY SelectedStays
  <2> QED BY <2>1, <2>2, <2>3
<1>12. a \in V
  <2> HIDE DEF others, Parts, Rests
  <2>1. \A i \in DOMAIN others : others[i] \in Q
    BY <1>9 DEF Elements
  <2>2. others \in Seq(Q)
    BY <1>9, <2>1
  <2> QED BY <1>9, <2>2
<1>13. members \in SUBSET Int /\ IsFiniteSet(members)
  <2>1. \A i \in DOMAIN spans : spans[i].mem \in Nat
    <3>1. \A i \in DOMAIN spans : spans[i] \in Typed
      BY BareIsTyped
    <3> QED BY <3>1 DEF Typed
  <2>2. DOMAIN spans = 1..Len(spans) /\ Len(spans) \in Nat
    OBVIOUS
  <2>3. IsFiniteSet(1..Len(spans))
    BY <2>2, UpTo
  <2>4. IsFiniteSet(DOMAIN spans)
    BY <2>2, <2>3, Zenon
  <2> DEFINE h == [i \in DOMAIN spans |-> spans[i].mem]
  <2>5. h \in Surjection(DOMAIN spans, members)
    BY DEF Surjection
  <2>6. members \in SUBSET Int
    BY <2>1
  <2> HIDE DEF h, members
  <2>7. IsFiniteSet(members)
    BY <2>4, <2>5, FS_Surjection
  <2> QED BY <2>6, <2>7
<1>14. order \in Seq(members)
  <2> HIDE DEF members
  <2> QED BY <1>13, RankedStays
<1>15. \A m \in members : PartyRuns(parties(m)) \in Seq(Q)
  <2>1. ASSUME NEW m PROVE PartyRuns(parties(m)) \in Seq(Q)
    <3> DEFINE own == {s \in BareSpan : s.kind = Party /\ s.mem = m}
               at == {i \in DOMAIN spans : spans[i].kind = Party /\ spans[i].mem = m}
               mine == parties(m)
    <3>1. mine \in Seq(BareSpan) /\ Elements(mine) = {spans[i] : i \in at}
      <4>1. mine = Selected(spans, at)
        BY DEF mine
      <4> HIDE DEF mine
      <4> QED BY <4>1, SelectedStays, SelectedElements
    <3> HIDE DEF mine
    <3>2. CASE at = {}
      <4>1. mine = <<>>
        <5>1. DOMAIN mine = {}
          BY <3>1, <3>2 DEF Elements
        <5> QED BY <3>1, <5>1
      <4>2. mine \in Seq({})
        BY <4>1
      <4>3. PartyRuns(mine) \in Seq({})
        BY <4>2, PartyRunsKeep
      <4>4. PartyRuns(mine) \in Seq(Q)
        BY <4>3
      <4> QED BY <4>4 DEF mine
    <3>3. CASE at # {}
      <4>1. \A i \in DOMAIN mine : mine[i] \in own
        <5>1. \A i \in DOMAIN mine : mine[i] \in BareSpan
          BY <3>1
        <5>2. \A i \in DOMAIN mine : mine[i] \in Elements(mine)
          BY DEF Elements
        <5>3. \A i \in DOMAIN mine : \E j \in at : mine[i] = spans[j]
          BY <3>1, <5>2
        <5> QED BY <5>1, <5>3
      <4>2. mine \in Seq(own)
        <5> HIDE DEF own, mine
        <5> QED BY <3>1, <4>1
      <4>3. own \in SUBSET BareSpan /\ \A s, t \in own : Extend(s, t) \in own
        <5>1. ASSUME NEW s \in own, NEW t \in own PROVE Extend(s, t) \in own
          <6>1. Extend(s, t) \in BareSpan
            BY ExtendBare
          <6>2. s \in Typed
            BY BareIsTyped
          <6>3. Extend(s, t).kind = s.kind /\ Extend(s, t).mem = s.mem
            BY <6>2 DEF Extend, Typed
          <6> QED BY <6>1, <6>3
        <5> QED BY <5>1
      <4> HIDE DEF mine
      <4>4. PartyRuns(mine) \in Seq(own)
        <5> HIDE DEF own
        <5> QED BY <4>2, <4>3, PartyRunsKeep
      <4>5. own \subseteq Rests
        BY <3>3 DEF Elements
      <4>6. PartyRuns(mine) \in Seq(Q)
        <5> HIDE DEF own, Rests, Parts
        <5> QED BY <4>4, <4>5
      <4> QED BY <4>6 DEF mine
    <3> QED BY <3>2, <3>3
  <2> QED BY <2>1
<1>16. \A m \in members : lists[m] \in Seq(Q)
  <2> HIDE DEF members, parties, Q
  <2> QED BY <1>15
<1> HIDE DEF a, lists, order, members
<1>1. a \in V /\ N \in Nat
  BY <1>12, <1>14
<1>2. ASSUME NEW n \in 1..N, NEW v \in V PROVE step(n, v) \in V
  <2>1. order[n] \in members
    BY <1>14
  <2>2. lists[order[n]] \in Seq(Q)
    BY <1>16, <2>1
  <2> DEFINE w == v \o lists[order[n]]
  <2> HIDE DEF Q, Parts
  <2>3. w \in Seq(Q)
    BY <2>2
  <2>4. \A i \in DOMAIN v : i \in DOMAIN w /\ w[i] = v[i]
    BY <2>2
  <2> HIDE DEF w
  <2>5. Elements(v) \subseteq Elements(w)
    BY <2>4 DEF Elements
  <2>6. w \in V
    BY <2>3, <2>5
  <2> QED BY <2>6 DEF w
<1>17. V = {v \in Seq(Q) : Parts \subseteq Elements(v)}
  OBVIOUS
<1> DEFINE G == [p \in (1..N) \X V |-> step(p[1], p[2])]
<1> HIDE DEF V, step, N
<1>3. \A n \in 1..N : \A v \in V : G[<<n, v>>] = step(n, v)
  OBVIOUS
<1>4. G \in [(1..N) \X V -> V]
  BY <1>2
<1> HIDE DEF G
<1>5. PICK g \in [0..N -> V] : Unfolds(g, N, a, G)
  BY <1>1, <1>4, RecursionExists
<1>6. g = [i \in 0..N |-> IF i = 0 THEN a ELSE step(i, g[i - 1])]
  <2>1. ASSUME NEW i \in 0..N
        PROVE  (IF i = 0 THEN a ELSE G[<<i, g[i - 1]>>]) = (IF i = 0 THEN a ELSE step(i, g[i - 1]))
    <3>1. CASE i # 0
      <4>1. i \in 1..N /\ g[i - 1] \in V
        BY <1>1, <3>1
      <4> QED BY <1>3, <4>1
    <3> QED BY <3>1
  <2>2. g = [i \in 0..N |-> IF i = 0 THEN a ELSE G[<<i, g[i - 1]>>]]
    BY <1>5 DEF Unfolds
  <2> QED BY <2>1, <2>2
<1>7. f = [i \in 0..N |-> IF i = 0 THEN a ELSE step(i, f[i - 1])]
  BY <1>6, Zenon
<1> HIDE DEF f
<1>10. f[0] \in V /\ \A i \in 1..N : f[i - 1] \in V => f[i] \in V
  <2>1. f[0] = a
    BY <1>1, <1>7
  <2>2. ASSUME NEW i \in 1..N, f[i - 1] \in V PROVE f[i] \in V
    <3>1. f[i] = step(i, f[i - 1])
      BY <1>1, <1>7
    <3> QED BY <1>2, <2>2, <3>1
  <2> QED BY <1>1, <2>1, <2>2
<1>11. f[N] \in V
  <2>1. \A n \in 0..N : f[n] \in V
    BY <1>1, <1>10, RunStays
  <2> QED BY <1>1, <2>1
<1> DEFINE done == f[N]
<1> HIDE DEF done
<1>20. done \in Seq(Q) /\ Parts \subseteq Elements(done)
  BY <1>11, <1>17 DEF done
<1>21. Q \subseteq BareSpan
  <2>1. Parts \subseteq BareSpan
    BY DEF Elements
  <2> QED BY <2>1
<1>22. done \in Seq(BareSpan) /\ Elements(done) \subseteq Q
  <2> HIDE DEF Q
  <2> QED BY <1>20, <1>21 DEF Elements
<1>23. SortSpans(done) \in Seq(BareSpan)
  BY <1>22, BareSubTyped, SortSpansStays
<1>24. Elements(SortSpans(done)) = Elements(done)
  <2>1. done \in Seq(Typed)
    BY <1>22, BareSubTyped
  <2> QED BY <2>1, SortSpansElements
<1>25. MergePartyContinuity(spans) = SortSpans(done)
  BY <1>8 DEF done
<1> QED BY <1>20, <1>22, <1>23, <1>24, <1>25 DEF MergedFrom

\* The tenures a mover's vacates mint are whole, of a mover of their biennium, and of keys of
\* their own.
MintedFits(minted, spans, M, owned, movers) ==
  /\ \A i \in DOMAIN minted :
       /\ minted[i].sbasis = Observed /\ minted[i].from = FirstDay(minted[i].sb)
       /\ minted[i].kind \in owned /\ minted[i].mem \in M
       /\ minted[i].sb \in Biennia /\ minted[i].mem \in movers[minted[i].sb]
       /\ \A j \in DOMAIN spans : Key(spans[j]) # Key(minted[i])
  /\ \A i, j \in DOMAIN minted : i # j => Key(minted[i]) # Key(minted[j])

\* A tenure of a key not seen yet may be appended.
LEMMA MintedGrows ==
  ASSUME NEW spans \in Seq(BareSpan), NEW minted \in Seq(BareSpan), NEW M, NEW owned, NEW movers,
         MintedFits(minted, spans, M, owned, movers), NEW made \in BareSpan,
         made.sbasis = Observed, made.from = FirstDay(made.sb), made.kind \in owned, made.mem \in M,
         made.sb \in Biennia, made.mem \in movers[made.sb],
         ~ \E s \in Elements(spans \o minted) : Key(s) = Key(made)
  PROVE  MintedFits(Append(minted, made), spans, M, owned, movers)
<1> DEFINE N == Len(minted)
           longer == Append(minted, made)
<1>1. /\ N \in Nat /\ DOMAIN minted = 1..N /\ DOMAIN longer = 1..(N + 1)
      /\ longer[N + 1] = made /\ \A i \in 1..N : longer[i] = minted[i]
  OBVIOUS
<1>2. /\ \A j \in DOMAIN spans : Key(spans[j]) # Key(made)
      /\ \A i \in 1..N : Key(minted[i]) # Key(made)
  <2> DEFINE K == Len(spans)
             all == spans \o minted
  <2>1. /\ K \in Nat /\ DOMAIN spans = 1..K /\ DOMAIN all = 1..(K + N)
        /\ \A j \in 1..K : all[j] = spans[j]
        /\ \A i \in 1..N : all[K + i] = minted[i]
    BY <1>1
  <2>2. \A j \in DOMAIN all : Key(all[j]) # Key(made)
    BY DEF Elements
  <2> HIDE DEF all, K, N
  <2>3. \A i \in 1..N : K + i \in 1..(K + N)
    BY <1>1, <2>1
  <2>4. \A j \in 1..K : j \in 1..(K + N)
    BY <1>1, <2>1
  <2> QED BY <2>1, <2>2, <2>3, <2>4
<1> HIDE DEF longer, N
<1>3. \A i \in 1..(N + 1) : i \in 1..N \/ i = N + 1
  BY <1>1
<1> QED BY <1>1, <1>2, <1>3 DEF MintedFits, longer

\* What the movers' vacates mint.
LEMMA SynthesizedFits ==
  ASSUME NEW spans \in Seq(BareSpan), NEW events \in Seq(Events), NEW owned \in SUBSET Kinds, NEW movers,
         NEW M, \A i \in DOMAIN events : events[i].mem \in M
  PROVE  /\ SynthesizeMoverTenures(spans, events, owned, movers) \in Seq(BareSpan)
         /\ MintedFits(SynthesizeMoverTenures(spans, events, owned, movers), spans, M, owned, movers)
<1> DEFINE N == Len(events)
           V == {m \in Seq(BareSpan) : MintedFits(m, spans, M, owned, movers)}
           a == <<>>
           step(n, minted) ==
             IF /\ events[n].kind = Vacated /\ events[n].seat[1] \in owned
                /\ events[n].mem \in movers[BienniumOf(events[n].date)]
                /\ ~ \E s \in Elements(spans \o minted) : MatchesSeat(s, events[n])
                /\ ~ \E s \in Elements(spans \o minted) : Key(s) = Key(SynthesizeClosed(events[n]))
             THEN Append(minted, SynthesizeClosed(events[n]))
             ELSE minted
           f == CHOOSE f : f = [n \in 0..N |-> IF n = 0 THEN a ELSE step(n, f[n - 1])]
<1>1. a \in V /\ N \in Nat
  BY DEF MintedFits
<1>2. ASSUME NEW n \in 1..N, NEW minted \in V PROVE step(n, minted) \in V
  <2> DEFINE e == events[n]
             made == SynthesizeClosed(e)
  <2>1. e \in Events /\ e.mem \in M
    OBVIOUS
  <2> HIDE DEF e
  <2>2. ASSUME e.seat[1] \in owned, e.mem \in movers[BienniumOf(e.date)],
               ~ \E s \in Elements(spans \o minted) : Key(s) = Key(made)
        PROVE  Append(minted, made) \in V
    <3>1. 0 \in Biennia
      BY CalendarAssumption DEF Biennia
    <3>2. made \in BareSpan
      BY <2>1, <2>2, <3>1, SynthesizedBare
    <3>3. /\ made.sbasis = Observed /\ made.from = FirstDay(made.sb) /\ made.kind = e.seat[1]
          /\ made.mem = e.mem /\ made.sb = BienniumOf(e.date)
      BY DEF SynthesizeClosed, NewSpan
    <3>4. BienniumOf(e.date) \in Biennia
      BY <2>1, EventFacts
    <3>5. ~ \E s \in Elements(spans \o minted) : Key(s) = Key(made)
      BY <2>2
    <3> HIDE DEF made
    <3>6. MintedFits(Append(minted, made), spans, M, owned, movers)
      BY <2>1, <2>2, <3>2, <3>3, <3>4, <3>5, MintedGrows
    <3> QED BY <3>2, <3>6
  <2>3. \/ step(n, minted) = minted
        \/ /\ e.seat[1] \in owned /\ e.mem \in movers[BienniumOf(e.date)]
           /\ ~ \E s \in Elements(spans \o minted) : Key(s) = Key(made)
           /\ step(n, minted) = Append(minted, made)
    BY Zenon DEF e
  <2> HIDE DEF step, made, V
  <2> QED BY <2>2, <2>3
<1>8. SynthesizeMoverTenures(spans, events, owned, movers) = f[N]
  BY Zenon DEF SynthesizeMoverTenures
<1>17. V = {m \in Seq(BareSpan) : MintedFits(m, spans, M, owned, movers)}
  OBVIOUS
<1> DEFINE G == [p \in (1..N) \X V |-> step(p[1], p[2])]
<1> HIDE DEF V, step, N, a
<1>3. \A n \in 1..N : \A v \in V : G[<<n, v>>] = step(n, v)
  OBVIOUS
<1>4. G \in [(1..N) \X V -> V]
  BY <1>2
<1> HIDE DEF G
<1>5. PICK g \in [0..N -> V] : Unfolds(g, N, a, G)
  BY <1>1, <1>4, RecursionExists
<1>6. g = [i \in 0..N |-> IF i = 0 THEN a ELSE step(i, g[i - 1])]
  <2>1. ASSUME NEW i \in 0..N
        PROVE  (IF i = 0 THEN a ELSE G[<<i, g[i - 1]>>]) = (IF i = 0 THEN a ELSE step(i, g[i - 1]))
    <3>1. CASE i # 0
      <4>1. i \in 1..N /\ g[i - 1] \in V
        BY <1>1, <3>1
      <4> QED BY <1>3, <4>1
    <3> QED BY <3>1
  <2>2. g = [i \in 0..N |-> IF i = 0 THEN a ELSE G[<<i, g[i - 1]>>]]
    BY <1>5 DEF Unfolds
  <2> QED BY <2>1, <2>2
<1>7. f = [i \in 0..N |-> IF i = 0 THEN a ELSE step(i, f[i - 1])]
  BY <1>6, Zenon
<1> HIDE DEF f
<1>10. f[0] \in V /\ \A i \in 1..N : f[i - 1] \in V => f[i] \in V
  <2>1. f[0] = a
    BY <1>1, <1>7
  <2>2. ASSUME NEW i \in 1..N, f[i - 1] \in V PROVE f[i] \in V
    <3>1. f[i] = step(i, f[i - 1])
      BY <1>1, <1>7
    <3> QED BY <1>2, <2>2, <3>1
  <2> QED BY <1>1, <2>1, <2>2
<1>11. f[N] \in V
  <2>1. \A n \in 0..N : f[n] \in V
    BY <1>1, <1>10, RunStays
  <2> QED BY <1>1, <2>1
<1> QED BY <1>8, <1>11, <1>17

\* The movers' minted tenures are bare spans.
LEMMA SynthesizedStay ==
  ASSUME NEW spans \in Seq(BareSpan), NEW events \in Seq(Events), NEW owned \in SUBSET Kinds, NEW movers
  PROVE  SynthesizeMoverTenures(spans, events, owned, movers) \in Seq(BareSpan)
<1> DEFINE M == {events[i].mem : i \in DOMAIN events}
<1>1. \A i \in DOMAIN events : events[i].mem \in M
  OBVIOUS
<1> HIDE DEF M
<1> QED BY <1>1, SynthesizedFits

\* A list of events in the order they are applied.
Ordered(t, s) == t = SortBy(s, EventOrder)

\* The overlay's run over the events in their order.
OverlayRun(f, ordered, spans, events, current, owned, movers, context) ==
  /\ Ordered(ordered, events)
  /\ f[0] = [spans |-> spans \o SynthesizeMoverTenures(spans, ordered, owned, movers),
             seated |-> <<>>, applied |-> {}]
  /\ \A n \in 1..Len(ordered) : f[n] = ApplyEvent(f[n - 1], ordered[n], current, owned, context)
  /\ \A n \in 0..Len(ordered) : f[n] \in OverlayStates
  /\ ApplyOperatorEvents(spans, events, current, owned, movers, context)
       = [spans |-> MergePartyContinuity(f[Len(ordered)].spans), applied |-> f[Len(ordered)].applied]

LEMMA OverlayRuns ==
  ASSUME NEW spans \in Seq(BareSpan), NEW events \in Seq(Events), NEW current \in Biennia,
         NEW owned \in SUBSET Kinds, NEW movers, NEW context \in Seq(BareSpan)
  PROVE  \E f, ordered : OverlayRun(f, ordered, spans, events, current, owned, movers, context)
<1> DEFINE ordered == SortBy(events, EventOrder)
           N == Len(ordered)
           V == OverlayStates
           a == [spans |-> spans \o SynthesizeMoverTenures(spans, ordered, owned, movers),
                 seated |-> <<>>, applied |-> {}]
           step(n, o) == ApplyEvent(o, ordered[n], current, owned, context)
           f == CHOOSE f : f = [n \in 0..N |-> IF n = 0 THEN a ELSE step(n, f[n - 1])]
           done == f[N]
<1>8. ApplyOperatorEvents(spans, events, current, owned, movers, context)
        = [spans |-> MergePartyContinuity(done.spans), applied |-> done.applied]
  BY Zenon DEF ApplyOperatorEvents
<1>12. ordered \in Seq(Events)
  BY SortEventsStays
<1> HIDE DEF ordered
<1>1. a \in V /\ N \in Nat
  <2> DEFINE minted == SynthesizeMoverTenures(spans, ordered, owned, movers)
  <2>1. minted \in Seq(BareSpan)
    BY <1>12, SynthesizedStay
  <2> HIDE DEF minted
  <2>2. spans \o minted \in Seq(BareSpan)
    BY <2>1
  <2>3. <<>> \in Seatings
    <3>1. {} \in SUBSET Keys /\ <<>> \in [{} -> Nat]
      OBVIOUS
    <3> QED BY <3>1 DEF Seatings
  <2>4. a = [spans |-> spans \o minted, seated |-> <<>>, applied |-> {}]
    BY DEF minted
  <2> HIDE DEF a
  <2>5. a \in V
    BY <2>2, <2>3, <2>4 DEF OverlayStates
  <2> QED BY <1>12, <2>5
<1>2. ASSUME NEW n \in 1..N, NEW o \in V PROVE step(n, o) \in V
  <2>1. ordered[n] \in Events
    BY <1>12
  <2> QED BY <2>1, EventStays
<1>17. V = OverlayStates
  OBVIOUS
<1> DEFINE G == [p \in (1..N) \X V |-> step(p[1], p[2])]
<1> HIDE DEF V, step, N, a
<1>3. \A n \in 1..N : \A v \in V : G[<<n, v>>] = step(n, v)
  OBVIOUS
<1>4. G \in [(1..N) \X V -> V]
  BY <1>2
<1> HIDE DEF G
<1>5. PICK g \in [0..N -> V] : Unfolds(g, N, a, G)
  BY <1>1, <1>4, RecursionExists
<1>6. g = [i \in 0..N |-> IF i = 0 THEN a ELSE step(i, g[i - 1])]
  <2>1. ASSUME NEW i \in 0..N
        PROVE  (IF i = 0 THEN a ELSE G[<<i, g[i - 1]>>]) = (IF i = 0 THEN a ELSE step(i, g[i - 1]))
    <3>1. CASE i # 0
      <4>1. i \in 1..N /\ g[i - 1] \in V
        BY <1>1, <3>1
      <4> QED BY <1>3, <4>1
    <3> QED BY <3>1
  <2>2. g = [i \in 0..N |-> IF i = 0 THEN a ELSE G[<<i, g[i - 1]>>]]
    BY <1>5 DEF Unfolds
  <2> QED BY <2>1, <2>2
<1>7. f = [i \in 0..N |-> IF i = 0 THEN a ELSE step(i, f[i - 1])]
  BY <1>6, Zenon
<1> HIDE DEF f
<1>10. f[0] \in V /\ \A i \in 1..N : f[i - 1] \in V => f[i] \in V
  <2>1. f[0] = a
    BY <1>1, <1>7
  <2>2. ASSUME NEW i \in 1..N, f[i - 1] \in V PROVE f[i] \in V
    <3>1. f[i] = step(i, f[i - 1])
      BY <1>1, <1>7
    <3> QED BY <1>2, <2>2, <3>1
  <2> QED BY <1>1, <2>1, <2>2
<1>11. \A n \in 0..N : f[n] \in V
  BY <1>1, <1>10, RunStays
<1>13. f[0] = a
  BY <1>1, <1>7
<1>14. ASSUME NEW n \in 1..N PROVE f[n] = ApplyEvent(f[n - 1], ordered[n], current, owned, context)
  <2>1. f[n] = step(n, f[n - 1])
    BY <1>1, <1>7
  <2> QED BY <2>1 DEF step
<1>15. N = Len(SortBy(events, EventOrder)) /\ ordered = SortBy(events, EventOrder)
  BY DEF N, ordered
<1>16. f[0] = [spans |-> spans \o SynthesizeMoverTenures(spans, ordered, owned, movers),
               seated |-> <<>>, applied |-> {}]
  BY <1>13 DEF a
<1>18. OverlayRun(f, ordered, spans, events, current, owned, movers, context)
  BY <1>8, <1>11, <1>14, <1>15, <1>16, <1>17 DEF OverlayRun, Ordered, N
<1> QED BY <1>18

\* Whatever the events, an overlay leaves spans that fit their keys.
LEMMA OverlayStays ==
  ASSUME NEW spans \in Seq(BareSpan), NEW events \in Seq(Events), NEW current \in Biennia,
         NEW owned \in SUBSET Kinds, NEW movers, NEW context \in Seq(BareSpan)
  PROVE  /\ ApplyOperatorEvents(spans, events, current, owned, movers, context).spans \in Seq(BareSpan)
         /\ ApplyOperatorEvents(spans, events, current, owned, movers, context).applied \subseteq Events
<1>1. PICK f, ordered : OverlayRun(f, ordered, spans, events, current, owned, movers, context)
  BY OverlayRuns
<1> DEFINE done == f[Len(ordered)]
<1>2. ordered \in Seq(Events)
  BY <1>1, SortEventsStays DEF OverlayRun, Ordered
<1>3. done \in OverlayStates
  <2>1. Len(ordered) \in 0..Len(ordered)
    BY <1>2
  <2> QED BY <1>1, <2>1 DEF OverlayRun
<1>4. done.spans \in Seq(BareSpan) /\ done.applied \subseteq Events
  BY <1>3 DEF OverlayStates
<1>5. ApplyOperatorEvents(spans, events, current, owned, movers, context)
        = [spans |-> MergePartyContinuity(done.spans), applied |-> done.applied]
  BY <1>1 DEF OverlayRun
<1> HIDE DEF done
<1>6. MergePartyContinuity(done.spans) \in Seq(BareSpan)
  BY <1>4, MergeKeeps DEF MergedFrom
<1> QED BY <1>4, <1>5, <1>6

(* The seeds of one district.                                               *)

\* The seats member m takes when those of taken are gone.
Takes(m, ld, taken, matched, seeds) ==
  LET own == {s \in seeds : s.mem = m /\ s.ld = ld
                /\ s.pos \notin Claimed(taken \cup SeatedIn(ld, matched))}
  IN {<<s.mem, ld, s.pos>> : s \in own}
Seeding(f, order, N, ld, matched, seeds) ==
  f = [n \in 0..N |->
         IF n = 0 THEN {} ELSE f[n - 1] \cup Takes(order[n], ld, f[n - 1], matched, seeds)]

\* A seat of the district by a seed, on a position no ballot gave, one member to a position.
Seeded(S, ld, matched, seeds) ==
  /\ \A t \in S : \E s \in seeds :
       t = <<s.mem, ld, s.pos>> /\ s.ld = ld /\ s.pos \notin Claimed(SeatedIn(ld, matched))
  /\ \A t, u \in S : t[3] = u[3] => t[1] = u[1]

\* The recursion over a district's members has a solution.
LEMMA SeedingExists ==
  ASSUME NEW order, NEW ld, NEW matched, NEW seeds, NEW N \in Nat
  PROVE  \E f : Seeding(f, order, N, ld, matched, seeds)
<1> DEFINE Solved == {n \in Nat : \E f : Seeding(f, order, n, ld, matched, seeds)}
<1>1. 0 \in Solved
  <2> DEFINE f == [n \in 0..0 |-> {}]
  <2>1. Seeding(f, order, 0, ld, matched, seeds)
    BY DEF Seeding
  <2> QED BY <2>1
<1>2. ASSUME NEW n \in Nat, n \in Solved PROVE n + 1 \in Solved
  <2>1. PICK f : Seeding(f, order, n, ld, matched, seeds)
    BY <1>2
  <2> DEFINE longer == [i \in 0..(n + 1) |-> IF i = n + 1
                          THEN f[n] \cup Takes(order[n + 1], ld, f[n], matched, seeds) ELSE f[i]]
  <2>2. ASSUME NEW i \in 0..(n + 1)
        PROVE  longer[i] = IF i = 0 THEN {}
                 ELSE longer[i - 1] \cup Takes(order[i], ld, longer[i - 1], matched, seeds)
    <3>1. CASE i = n + 1
      BY <3>1
    <3>2. CASE i # n + 1
      <4>1. i \in 0..n /\ (i # 0 => i - 1 \in 0..(n + 1) /\ i - 1 # n + 1)
        BY <3>2
      <4>2. f[i] = IF i = 0 THEN {} ELSE f[i - 1] \cup Takes(order[i], ld, f[i - 1], matched, seeds)
        BY <2>1, <4>1 DEF Seeding
      <4> QED BY <3>2, <4>1, <4>2
    <3> QED BY <3>1, <3>2
  <2>3. Seeding(longer, order, n + 1, ld, matched, seeds)
    BY <2>2 DEF Seeding
  <2> QED BY <2>3
<1> HIDE DEF Solved
<1>3. Nat \subseteq Solved
  BY <1>1, <1>2, SetInduction
<1> QED BY <1>3 DEF Solved

\* One member more keeps a district's positions apart.
LEMMA TakesKeepsApart ==
  ASSUME NEW ld, NEW matched, NEW seeds, NEW m, NEW S, Seeded(S, ld, matched, seeds)
  PROVE  Seeded(S \cup Takes(m, ld, S, matched, seeds), ld, matched, seeds)
<1> DEFINE T == Takes(m, ld, S, matched, seeds)
<1>1. ASSUME NEW t \in T
      PROVE  /\ t[1] = m
             /\ \A u \in S : u[3] # t[3]
             /\ \E s \in seeds : t = <<s.mem, ld, s.pos>> /\ s.ld = ld
                                 /\ s.pos \notin Claimed(SeatedIn(ld, matched))
  <2>1. PICK s \in seeds : /\ t = <<s.mem, ld, s.pos>> /\ s.mem = m /\ s.ld = ld
                           /\ s.pos \notin Claimed(S \cup SeatedIn(ld, matched))
    BY <1>1 DEF Takes
  <2>2. (\A u \in S : u[3] # s.pos) /\ s.pos \notin Claimed(SeatedIn(ld, matched))
    BY <2>1 DEF Claimed
  <2> QED BY <2>1, <2>2
<1> HIDE DEF T
<1>2. \A t, u \in S \cup T : t[3] = u[3] => t[1] = u[1]
  BY <1>1 DEF Seeded
<1>3. \A t \in S \cup T : \E s \in seeds :
        t = <<s.mem, ld, s.pos>> /\ s.ld = ld /\ s.pos \notin Claimed(SeatedIn(ld, matched))
  BY <1>1 DEF Seeded
<1>4. Seeded(S \cup T, ld, matched, seeds)
  BY <1>2, <1>3 DEF Seeded
<1> QED BY <1>4 DEF T

\* The seeds of a district take positions nobody has.
LEMMA SeedDistrictApart ==
  ASSUME NEW ld, NEW unmatched, IsFiniteSet(unmatched), NEW matched, NEW seeds
  PROVE  Seeded(SeedDistrict(ld, unmatched, matched, seeds), ld, matched, seeds)
<1> DEFINE order == Ranked(unmatched, LAMBDA m : <<m>>)
           N == Len(order)
<1>1. N \in Nat
  <2>1. Cardinality(unmatched) \in Nat
    BY FS_CardinalityType
  <2> DEFINE at(n) == CHOOSE i \in unmatched :
               Cardinality({j \in unmatched : Precedes(<<j>>, <<i>>) \/ (<<j>> = <<i>> /\ j < i)}) = n - 1
  <2>2. order = [n \in 1..Cardinality(unmatched) |-> at(n)]
    BY Zenon DEF Ranked
  <2> HIDE DEF order, at
  <2>3. order \in Seq({at(n) : n \in 1..Cardinality(unmatched)})
    BY <2>1, <2>2
  <2>4. Len(order) \in Nat
    BY <2>3
  <2> QED BY <2>4 DEF N
<1> DEFINE f == CHOOSE g : Seeding(g, order, N, ld, matched, seeds)
<1>2. SeedDistrict(ld, unmatched, matched, seeds) = f[N]
  BY Zenon DEF SeedDistrict, Seeding, Takes
<1> HIDE DEF order, N
<1>3. Seeding(f, order, N, ld, matched, seeds)
  BY <1>1, SeedingExists
<1> HIDE DEF f
<1>4. \A n \in 0..N : f[n] = IF n = 0 THEN {}
                        ELSE f[n - 1] \cup Takes(order[n], ld, f[n - 1], matched, seeds)
  BY <1>3 DEF Seeding
<1> DEFINE Fits == {n \in Nat : n <= N => Seeded(f[n], ld, matched, seeds)}
<1>5. 0 \in Fits
  <2>1. 0 \in 0..N
    BY <1>1
  <2>2. f[0] = {}
    BY <1>4, <2>1
  <2> QED BY <2>2 DEF Seeded
<1>6. ASSUME NEW n \in Nat, n \in Fits PROVE n + 1 \in Fits
  <2>1. CASE n + 1 <= N
    <3>1. n + 1 \in 0..N /\ n + 1 # 0 /\ (n + 1) - 1 = n /\ Seeded(f[n], ld, matched, seeds)
      BY <1>1, <1>6, <2>1
    <3>2. f[n + 1] = f[n] \cup Takes(order[n + 1], ld, f[n], matched, seeds)
      BY <1>4, <3>1
    <3> QED BY <3>1, <3>2, TakesKeepsApart
  <2> QED BY <2>1
<1> HIDE DEF Fits
<1>7. Nat \subseteq Fits
  BY <1>5, <1>6, SetInduction
<1> QED BY <1>1, <1>2, <1>7 DEF Fits

-----------------------------------------------------------------------------
(* One biennium's projection.                                               *)

\* A biennium's roster: finitely many rows of numbered districts.
Rows(roster) == IsFiniteSet(roster) /\ \A r \in roster : r.ld \in Nat

\* A position the ballot gives is one of its candidacies'.
LEMMA PositionForIsBallots ==
  ASSUME NEW cands, \A c \in cands : c.pos \in Positions,
         NEW ld, NEW surname, NEW party
  PROVE  PositionFor(cands, ld, surname, party) \in Positions \cup {NoPosition}
<1> DEFINE hits == {c \in cands : c.ld = ld /\ surname \in c.names}
           all == {c.pos : c \in hits}
           own == {c.pos : c \in {x \in hits : x.party = party}}
<1>1. all \subseteq Positions /\ own \subseteq Positions
  OBVIOUS
<1>2. /\ Cardinality(all) = 1 => all # {}
      /\ Cardinality(own) = 1 => own # {}
  <2>1. Cardinality({}) = 0
    BY FS_EmptySet
  <2> HIDE DEF all, own
  <2> QED BY <2>1
<1>3. /\ PositionFor(cands, ld, surname, party) =
           CASE Cardinality(all) = 1 -> CHOOSE p \in all : TRUE
             [] Cardinality(all) > 1 /\ party # 0 /\ Cardinality(own) = 1 -> CHOOSE p \in own : TRUE
             [] OTHER -> NoPosition
  BY DEF PositionFor
<1> HIDE DEF hits, all, own
<1> QED BY <1>1, <1>2, <1>3

\* A matched seat is a row's, at a position of the ballot.
LEMMA MatchedSeatsFit ==
  ASSUME NEW roster, Rows(roster), NEW cands, \A c \in cands : c.pos \in Positions
  PROVE  \A t \in MatchedSeats(roster, cands) :
           \E r \in roster, p \in Positions : t = <<r.mem, r.ld, p>>
<1> SUFFICES ASSUME NEW t \in MatchedSeats(roster, cands)
             PROVE  \E r \in roster, p \in Positions : t = <<r.mem, r.ld, p>>
  OBVIOUS
<1>1. PICK r \in roster : /\ t = <<r.mem, r.ld, PositionFor(cands, r.ld, Surname[r.mem], r.party)>>
                          /\ t[3] # NoPosition
  BY DEF MatchedSeats
<1> DEFINE p == PositionFor(cands, r.ld, Surname[r.mem], r.party)
<1>2. p \in Positions \cup {NoPosition}
  BY PositionForIsBallots
<1> HIDE DEF p
<1>3. t = <<r.mem, r.ld, p>> /\ t[3] # NoPosition
  BY <1>1 DEF p
<1> QED BY <1>2, <1>3

\* The entries of a district are finite in number.
LEMMA EntriesFinite ==
  ASSUME NEW roster, IsFiniteSet(roster), NEW ld, NEW S
  PROVE  IsFiniteSet(Entries(roster, ld) \ S)
<1> DEFINE inLd == {x \in roster : x.ld = ld}
<1>1. IsFiniteSet(inLd)
  BY FS_Subset, inLd \subseteq roster
<1> DEFINE mems == {r.mem : r \in inLd}
<1>2. IsFiniteSet(mems)
  <2> DEFINE f == [r \in inLd |-> r.mem]
  <2>1. f \in Surjection(inLd, mems)
    BY DEF Surjection
  <2> HIDE DEF inLd, mems, f
  <2> QED BY <1>1, <2>1, FS_Surjection
<1>3. Entries(roster, ld) \ S \subseteq mems
  BY DEF Entries
<1> HIDE DEF mems
<1> QED BY <1>2, <1>3, FS_Subset

\* A seed's seat is a seed's, in a district of the roster, on a position no ballot gave,
\* and the seeds of one district take different positions.
SeedsSeat(S, matched, seeds) ==
  /\ \A t \in S : \E s \in seeds : /\ t = <<s.mem, s.ld, s.pos>>
                                   /\ s.pos \notin Claimed(SeatedIn(s.ld, matched))
  /\ \A t, u \in S : t[2] = u[2] /\ t[3] = u[3] => t[1] = u[1]

\* The seeds of every district take positions nobody has.
LEMMA SeededSeatsApart ==
  ASSUME NEW roster, Rows(roster), NEW matched, NEW seeds
  PROVE  /\ SeedsSeat(SeededSeats(roster, matched, seeds), matched, seeds)
         /\ \A t \in SeededSeats(roster, matched, seeds) : t[2] \in Nat
<1> DEFINE of(ld) == SeedDistrict(ld, Entries(roster, ld) \ Members(ld, matched), matched, seeds)
           all == SeededSeats(roster, matched, seeds)
<1>1. all = UNION {of(ld) : ld \in Lds(roster)}
  BY DEF SeededSeats
<1>2. ASSUME NEW ld \in Lds(roster) PROVE Seeded(of(ld), ld, matched, seeds)
  <2>1. IsFiniteSet(Entries(roster, ld) \ Members(ld, matched))
    BY EntriesFinite DEF Rows
  <2> QED BY <2>1, SeedDistrictApart
<1> HIDE DEF of, all
<1>3. \A ld \in Lds(roster) : \A t \in of(ld) :
        /\ t[2] = ld
        /\ \E s \in seeds : /\ t = <<s.mem, s.ld, s.pos>>
                            /\ s.pos \notin Claimed(SeatedIn(s.ld, matched))
  <2> SUFFICES ASSUME NEW ld \in Lds(roster), NEW t \in of(ld)
               PROVE  /\ t[2] = ld
                      /\ \E s \in seeds : /\ t = <<s.mem, s.ld, s.pos>>
                                          /\ s.pos \notin Claimed(SeatedIn(s.ld, matched))
    OBVIOUS
  <2>1. PICK s \in seeds : /\ t = <<s.mem, ld, s.pos>> /\ s.ld = ld
                           /\ s.pos \notin Claimed(SeatedIn(ld, matched))
    BY <1>2 DEF Seeded
  <2> QED BY <2>1
<1>4. \A ld \in Lds(roster) : \A t, u \in of(ld) : t[3] = u[3] => t[1] = u[1]
  BY <1>2 DEF Seeded
<1>5. Lds(roster) \subseteq Nat
  BY DEF Lds, Rows
<1>6. SeedsSeat(all, matched, seeds)
  <2>1. \A t \in all : \E s \in seeds : /\ t = <<s.mem, s.ld, s.pos>>
                                        /\ s.pos \notin Claimed(SeatedIn(s.ld, matched))
    BY <1>1, <1>3
  <2>2. ASSUME NEW t \in all, NEW u \in all, t[2] = u[2], t[3] = u[3] PROVE t[1] = u[1]
    <3>1. PICK ld \in Lds(roster) : t \in of(ld)
      BY <1>1
    <3>2. PICK ldu \in Lds(roster) : u \in of(ldu)
      BY <1>1
    <3>3. ldu = ld
      BY <1>3, <2>2, <3>1, <3>2
    <3> QED BY <1>4, <2>2, <3>1, <3>2, <3>3
  <2> QED BY <2>1, <2>2 DEF SeedsSeat
<1>7. \A t \in all : t[2] \in Nat
  BY <1>1, <1>3, <1>5
<1> QED BY <1>6, <1>7 DEF all

\* Elimination seats one member of a district, on the position nobody has.
LEMMA InferredSeatsApart ==
  ASSUME NEW roster, Rows(roster), NEW resolved
  PROVE  /\ \A t \in InferredSeats(roster, resolved) :
              /\ t[2] \in Nat /\ t[3] \in Positions /\ t = <<t[1], t[2], t[3]>>
              /\ t[3] \notin Claimed(SeatedIn(t[2], resolved))
         /\ \A t, u \in InferredSeats(roster, resolved) : t[2] = u[2] => t[1] = u[1]
<1> DEFINE left(ld) == Entries(roster, ld) \ Members(ld, resolved)
           free(ld) == Positions \ Claimed(SeatedIn(ld, resolved))
           of(ld) == IF Cardinality(Entries(roster, ld)) = 2 /\ Cardinality(left(ld)) = 1
                        /\ Cardinality(free(ld)) = 1
                     THEN {<<m, ld, p>> : m \in left(ld), p \in free(ld)} ELSE {}
           all == InferredSeats(roster, resolved)
<1>1. all = UNION {of(ld) : ld \in Lds(roster)}
  BY DEF InferredSeats
<1>2. \A ld \in Lds(roster) : \A t \in of(ld) :
        /\ Cardinality(left(ld)) = 1
        /\ \E m \in left(ld), p \in free(ld) : t = <<m, ld, p>>
  OBVIOUS
<1>3. ASSUME NEW ld \in Lds(roster), Cardinality(left(ld)) = 1
      PROVE  \A m, n \in left(ld) : m = n
  <2>1. IsFiniteSet(left(ld))
    BY EntriesFinite DEF Rows
  <2> HIDE DEF left
  <2>2. PICK x : left(ld) = {x}
    BY <1>3, <2>1, FS_Singleton
  <2> QED BY <2>2
<1>4. Lds(roster) \subseteq Nat
  BY DEF Lds, Rows
<1>5. \A ld : free(ld) \subseteq Positions /\ free(ld) \cap Claimed(SeatedIn(ld, resolved)) = {}
  OBVIOUS
<1> HIDE DEF of, all, left, free
<1>6. ASSUME NEW t \in all
      PROVE  /\ t[2] \in Nat /\ t[3] \in Positions /\ t = <<t[1], t[2], t[3]>>
             /\ t[3] \notin Claimed(SeatedIn(t[2], resolved))
  <2>1. PICK ld \in Lds(roster) : t \in of(ld)
    BY <1>1
  <2>2. PICK m \in left(ld), p \in free(ld) : t = <<m, ld, p>>
    BY <1>2, <2>1
  <2> QED BY <1>4, <1>5, <2>2
<1>7. ASSUME NEW t \in all, NEW u \in all, t[2] = u[2] PROVE t[1] = u[1]
  <2>1. PICK ld \in Lds(roster) : t \in of(ld)
    BY <1>1
  <2>2. PICK m \in left(ld), p \in free(ld) : t = <<m, ld, p>>
    BY <1>2, <2>1
  <2>3. PICK ldu \in Lds(roster) : u \in of(ldu)
    BY <1>1
  <2>4. PICK n \in left(ldu), q \in free(ldu) : u = <<n, ldu, q>>
    BY <1>2, <2>3
  <2>5. ldu = ld
    BY <1>7, <2>2, <2>4
  <2>6. Cardinality(left(ld)) = 1
    BY <1>2, <2>1
  <2>7. m = n
    BY <1>3, <2>2, <2>4, <2>5, <2>6
  <2> QED BY <2>2, <2>4, <2>7
<1> QED BY <1>6, <1>7 DEF all

\* In one biennium a position names two members only when two ballots do.
Apart(proj) ==
  LET all == proj.matched \cup proj.seeded \cup proj.inferred
  IN /\ \A t \in all : t[2] \in Nat /\ t[3] \in Positions
     /\ \A t, u \in all : t[2] = u[2] /\ t[3] = u[3] /\ t[1] # u[1] =>
          t \in proj.matched /\ u \in proj.matched
BySeeds(proj, seeds) == \A t \in proj.seeded : \E s \in seeds : s.mem = t[1]
SeedsFit(seeds) == \A s \in seeds : s.ld \in Nat /\ s.pos \in Positions

\* A projection names two members for one position only on two ballots.
LEMMA ProjectionApart ==
  ASSUME NEW roster, Rows(roster), NEW cands, \A c \in cands : c.pos \in Positions,
         NEW seeds, SeedsFit(seeds)
  PROVE  LET proj == HouseSeatProjection(roster, MatchedSeats(roster, cands), seeds)
         IN Apart(proj) /\ BySeeds(proj, seeds)
<1> DEFINE matched == MatchedSeats(roster, cands)
           seeded == SeededSeats(roster, matched, seeds)
           inferred == InferredSeats(roster, matched \cup seeded)
           proj == HouseSeatProjection(roster, matched, seeds)
<1>1. proj = [matched |-> matched, seeded |-> seeded, inferred |-> inferred]
  BY DEF HouseSeatProjection
<1>2. \A t \in matched : t[2] \in Nat /\ t[3] \in Positions
  <2> SUFFICES ASSUME NEW t \in matched PROVE t[2] \in Nat /\ t[3] \in Positions
    OBVIOUS
  <2>1. PICK r \in roster, p \in Positions : t = <<r.mem, r.ld, p>>
    BY MatchedSeatsFit
  <2> QED BY <2>1 DEF Rows
<1>3. SeedsSeat(seeded, matched, seeds) /\ \A t \in seeded : t[2] \in Nat
  BY SeededSeatsApart
<1>4. /\ \A t \in inferred :
           /\ t[2] \in Nat /\ t[3] \in Positions
           /\ t[3] \notin Claimed(SeatedIn(t[2], matched \cup seeded))
      /\ \A t, u \in inferred : t[2] = u[2] => t[1] = u[1]
  BY InferredSeatsApart
<1> HIDE DEF matched, seeded, inferred, proj
<1>5. ASSUME NEW t \in seeded
      PROVE  \E s \in seeds : /\ s.mem = t[1] /\ t[2] = s.ld /\ t[3] \in Positions
                             /\ t[3] \notin Claimed(SeatedIn(t[2], matched))
  <2>1. PICK s \in seeds : /\ t = <<s.mem, s.ld, s.pos>>
                           /\ s.pos \notin Claimed(SeatedIn(s.ld, matched))
    BY <1>3 DEF SeedsSeat
  <2>2. t[1] = s.mem /\ t[2] = s.ld /\ t[3] = s.pos /\ s.pos \in Positions
    BY <2>1 DEF SeedsFit
  <2> QED BY <2>1, <2>2
<1>6. ASSUME NEW S, NEW t, NEW u \in S, t[3] \notin Claimed(SeatedIn(t[2], S)), t[2] = u[2]
      PROVE  t[3] # u[3]
  BY <1>6 DEF Claimed, SeatedIn
<1>7. \A t \in matched \cup seeded \cup inferred : t[2] \in Nat /\ t[3] \in Positions
  BY <1>2, <1>3, <1>4, <1>5
<1>8. ASSUME NEW t \in matched \cup seeded \cup inferred,
             NEW u \in matched \cup seeded \cup inferred,
             t[2] = u[2], t[3] = u[3], t[1] # u[1]
      PROVE  t \in matched
  <2>1. CASE t \in seeded
    <3>1. t[3] \notin Claimed(SeatedIn(t[2], matched))
      BY <1>5, <2>1
    <3>2. CASE u \in matched
      BY <1>6, <1>8, <3>1, <3>2
    <3>3. CASE u \in seeded
      BY <1>3, <1>8, <2>1, <3>3 DEF SeedsSeat
    <3>4. CASE u \in inferred
      <4>1. u[3] \notin Claimed(SeatedIn(u[2], matched \cup seeded))
        BY <1>4, <3>4
      <4>2. t \in matched \cup seeded
        BY <2>1
      <4>3. u[3] # t[3]
        BY <1>6, <1>8, <4>1, <4>2
      <4> QED BY <1>8, <4>3
    <3> QED BY <3>2, <3>3, <3>4
  <2>2. CASE t \in inferred
    <3>1. t[3] \notin Claimed(SeatedIn(t[2], matched \cup seeded))
      BY <1>4, <2>2
    <3>2. CASE u \in matched \cup seeded
      BY <1>6, <1>8, <3>1, <3>2
    <3>3. CASE u \in inferred
      BY <1>4, <1>8, <2>2, <3>3
    <3> QED BY <3>2, <3>3
  <2> QED BY <2>1, <2>2
<1>9. Apart(proj)
  <2>0. proj.matched = matched /\ proj.seeded = seeded /\ proj.inferred = inferred
    BY <1>1
  <2>1. \A t, u \in matched \cup seeded \cup inferred :
          t[2] = u[2] /\ t[3] = u[3] /\ t[1] # u[1] => t \in matched /\ u \in matched
    BY <1>8
  <2> QED BY <1>7, <2>0, <2>1 DEF Apart
<1>10. BySeeds(proj, seeds)
  BY <1>1, <1>5 DEF BySeeds
<1> QED BY <1>9, <1>10 DEF proj, matched

-----------------------------------------------------------------------------
(* The chain.                                                               *)

\* What holds of the chain once the bienniums from b on have been placed.
NoGuess(chain) ==
  \A x, y \in chain.obs : x.mem # y.mem /\ x.disc = y.disc /\ x.b = y.b =>
    <<x.mem, x.b>> \in chain.ballot /\ <<y.mem, y.b>> \in chain.ballot
Within(chain) ==
  \A d \in chain.depth : /\ d[3] <= MaxHops
                         /\ d[3] > 0 => (d[2] + 1)..(d[2] + d[3]) \cap EraStarts = {}
SeedOf(s, b) ==
  /\ s.ld \in Nat /\ s.pos \in Positions /\ s.hops \in 1..MaxHops
  /\ b..(b + s.hops - 1) \cap EraStarts = {}
ChainInv(chain, b) ==
  /\ \A o \in chain.obs : o.b \in Int /\ b <= o.b
  /\ NoGuess(chain)
  /\ \A s \in chain.seeds : SeedOf(s, b)
  /\ Within(chain)

\* A district and a position make one discriminator.
LEMMA SeatDiscTells ==
  ASSUME NEW l \in Nat, NEW k \in Nat, NEW p \in Positions, NEW q \in Positions,
         SeatDisc(l, p) = SeatDisc(k, q)
  PROVE  l = k /\ p = q
BY DEF SeatDisc, Positions

\* A link of the chain keeps ChainInv.
LEMMA ChainBackKeeps ==
  ASSUME NEW b \in Int, NEW chain, ChainInv(chain, b + 1), NEW proj,
         Apart(proj), BySeeds(proj, chain.seeds)
  PROVE  ChainInv(ChainBack(chain, b, proj), b)
<1> DEFINE all == proj.matched \cup proj.seeded \cup proj.inferred
           class == Classified(proj, chain.seeds)
           next == ChainBack(chain, b, proj)
           ob(t) == Observation(t[1], House, SeatDisc(t[2], t[3]), b, FALSE)
           new == {ob(t) : t \in all}
<1>1. /\ next.obs = chain.obs \cup new
      /\ next.seeds = IF b \in EraStarts THEN {}
                      ELSE {[s EXCEPT !.hops = @ + 1] : s \in {x \in class : x.hops < MaxHops}}
      /\ next.ballot = chain.ballot \cup {<<t[1], b>> : t \in proj.matched}
      /\ next.depth = chain.depth \cup {<<s.mem, b, s.hops>> : s \in class}
  BY DEF ChainBack, Chained
<1>2. \A t \in all : ob(t).mem = t[1] /\ ob(t).disc = SeatDisc(t[2], t[3]) /\ ob(t).b = b
  BY DEF Observation
<1>3. \A t \in all : t[2] \in Nat /\ t[3] \in Positions
  BY DEF Apart
<1>4. \A t, u \in all : t[2] = u[2] /\ t[3] = u[3] /\ t[1] # u[1] =>
        t \in proj.matched /\ u \in proj.matched
  BY DEF Apart
<1>5. ASSUME NEW s \in class
      PROVE  /\ s = [mem |-> s.mem, ld |-> s.ld, pos |-> s.pos, hops |-> s.hops]
             /\ s.ld \in Nat /\ s.pos \in Positions /\ s.hops \in 0..MaxHops
             /\ s.hops > 0 => (b + 1)..(b + s.hops) \cap EraStarts = {}
  <2>1. CASE s \in {[mem |-> t[1], ld |-> t[2], pos |-> t[3], hops |-> 0] : t \in proj.matched}
    BY <1>3, <2>1, HouseAssumption
  <2>2. CASE s \in {[mem |-> t[1], ld |-> t[2], pos |-> t[3],
                     hops |-> (CHOOSE x \in chain.seeds : x.mem = t[1]).hops] : t \in proj.seeded}
    <3>1. PICK t \in proj.seeded : s = [mem |-> t[1], ld |-> t[2], pos |-> t[3],
                     hops |-> (CHOOSE x \in chain.seeds : x.mem = t[1]).hops]
      BY <2>2
    <3> DEFINE seed == CHOOSE x \in chain.seeds : x.mem = t[1]
    <3>2. seed \in chain.seeds
      BY DEF BySeeds
    <3> HIDE DEF seed
    <3>3. SeedOf(seed, b + 1)
      BY <3>2 DEF ChainInv
    <3>4. s = [mem |-> t[1], ld |-> t[2], pos |-> t[3], hops |-> seed.hops]
      BY <3>1 DEF seed
    <3>5. seed.hops \in 1..MaxHops /\ (b + 1)..(b + 1 + seed.hops - 1) \cap EraStarts = {}
      BY <3>3 DEF SeedOf
    <3>6. seed.hops \in Int /\ MaxHops \in Nat
      BY <3>5, HouseAssumption
    <3>7. b + 1 + seed.hops - 1 = b + seed.hops
      BY <3>6
    <3> QED BY <1>3, <3>4, <3>5, <3>6, <3>7
  <2> QED BY <2>1, <2>2 DEF Classified
<1> HIDE DEF class, next, ob, all
<1>6. \A o \in next.obs : o.b \in Int /\ b <= o.b
  BY <1>1, <1>2 DEF ChainInv
<1>7. NoGuess(next)
  <2> SUFFICES ASSUME NEW x \in next.obs, NEW y \in next.obs,
                      x.mem # y.mem, x.disc = y.disc, x.b = y.b
               PROVE  <<x.mem, x.b>> \in next.ballot /\ <<y.mem, y.b>> \in next.ballot
    BY DEF NoGuess
  <2>1. \A o \in chain.obs : o.b # b
    BY DEF ChainInv
  <2>2. \A o \in new : o.b = b
    BY <1>2
  <2>3. CASE x \in chain.obs /\ y \in chain.obs
    BY <1>1, <2>3 DEF ChainInv, NoGuess
  <2>4. CASE x \in new /\ y \in new
    <3>1. PICK t \in all : x = ob(t)
      BY <2>4
    <3>2. PICK u \in all : y = ob(u)
      BY <2>4
    <3>3. t[1] # u[1] /\ SeatDisc(t[2], t[3]) = SeatDisc(u[2], u[3])
      BY <1>2, <3>1, <3>2
    <3>4. t[2] = u[2] /\ t[3] = u[3]
      BY <1>3, <3>3, SeatDiscTells
    <3>5. t \in proj.matched /\ u \in proj.matched
      BY <1>4, <3>3, <3>4
    <3>6. x.mem = t[1] /\ y.mem = u[1] /\ x.b = b /\ y.b = b
      BY <1>2, <3>1, <3>2
    <3> QED BY <1>1, <3>5, <3>6
  <2> QED BY <1>1, <2>1, <2>2, <2>3, <2>4
<1>8. ASSUME NEW s \in next.seeds PROVE SeedOf(s, b)
  <2>1. b \notin EraStarts
    BY <1>1, <1>8
  <2>2. PICK x \in class : x.hops < MaxHops /\ s = [x EXCEPT !.hops = @ + 1]
    BY <1>1, <1>8, <2>1
  <2>3. /\ x = [mem |-> x.mem, ld |-> x.ld, pos |-> x.pos, hops |-> x.hops]
        /\ x.ld \in Nat /\ x.pos \in Positions /\ x.hops \in 0..MaxHops
        /\ x.hops > 0 => (b + 1)..(b + x.hops) \cap EraStarts = {}
    BY <1>5
  <2>4. s.ld = x.ld /\ s.pos = x.pos /\ s.hops = x.hops + 1
    BY <2>2, <2>3
  <2>5. s.hops \in 1..MaxHops /\ b + s.hops - 1 = b + x.hops /\ x.hops \in Nat
    BY <2>2, <2>3, <2>4, HouseAssumption
  <2>6. ASSUME NEW e \in EraStarts PROVE e \notin b..(b + x.hops)
    <3>1. e \in Int /\ e # b
      BY <2>1, <2>6, HouseAssumption DEF Biennia
    <3>2. CASE x.hops = 0
      BY <3>1, <3>2
    <3>3. CASE x.hops > 0
      <4>1. e \notin (b + 1)..(b + x.hops)
        BY <2>3, <2>6, <3>3
      <4> QED BY <2>5, <3>1, <4>1
    <3> QED BY <2>5, <3>2, <3>3
  <2>7. b..(b + s.hops - 1) \cap EraStarts = {}
    BY <2>5, <2>6
  <2> QED BY <2>3, <2>4, <2>5, <2>7 DEF SeedOf
<1>9. Within(next)
  <2> SUFFICES ASSUME NEW d \in next.depth
               PROVE  d[3] <= MaxHops /\ (d[3] > 0 => (d[2] + 1)..(d[2] + d[3]) \cap EraStarts = {})
    BY DEF Within
  <2>1. CASE d \in chain.depth
    BY <2>1 DEF ChainInv, Within
  <2>2. CASE d \in {<<s.mem, b, s.hops>> : s \in class}
    <3>1. PICK s \in class : d = <<s.mem, b, s.hops>>
      BY <2>2
    <3>2. s.hops \in 0..MaxHops /\ (s.hops > 0 => (b + 1)..(b + s.hops) \cap EraStarts = {})
      BY <1>5
    <3>3. d[2] = b /\ d[3] = s.hops
      BY <3>1
    <3> QED BY <3>2, <3>3, HouseAssumption
  <2> QED BY <1>1, <2>1, <2>2
<1>10. \A s \in next.seeds : SeedOf(s, b)
  BY <1>8
<1> QED BY <1>6, <1>7, <1>9, <1>10 DEF ChainInv, next

\* The chain one biennium further back.
Link(chain, b, rosters, cands) ==
  ChainBack(chain, b, HouseSeatProjection(rosters[b], MatchedSeats(rosters[b], cands[b]), chain.seeds))
Chaining(f, n, rosters, cands) ==
  f = [k \in 0..n |->
         IF k = 0 THEN [obs |-> {}, seeds |-> {}, ballot |-> {}, depth |-> {}]
         ELSE Link(f[k - 1], LastBiennium + 1 - k, rosters, cands)]

\* The recursion over the bienniums has a solution.
LEMMA ChainExists ==
  ASSUME NEW rosters, NEW cands, NEW N \in Nat
  PROVE  \E f : Chaining(f, N, rosters, cands)
<1> DEFINE Solved == {n \in Nat : \E f : Chaining(f, n, rosters, cands)}
           start == [obs |-> {}, seeds |-> {}, ballot |-> {}, depth |-> {}]
<1>1. 0 \in Solved
  <2> DEFINE f == [k \in 0..0 |-> start]
  <2>1. Chaining(f, 0, rosters, cands)
    BY DEF Chaining
  <2> QED BY <2>1
<1>2. ASSUME NEW n \in Nat, n \in Solved PROVE n + 1 \in Solved
  <2>1. PICK f : Chaining(f, n, rosters, cands)
    BY <1>2
  <2> DEFINE longer == [k \in 0..(n + 1) |-> IF k = n + 1
                          THEN Link(f[n], LastBiennium + 1 - (n + 1), rosters, cands) ELSE f[k]]
  <2> HIDE DEF start
  <2>2. ASSUME NEW k \in 0..(n + 1)
        PROVE  longer[k] = IF k = 0 THEN start
                           ELSE Link(longer[k - 1], LastBiennium + 1 - k, rosters, cands)
    <3>1. CASE k = n + 1
      BY <3>1
    <3>2. CASE k # n + 1
      <4>1. k \in 0..n /\ (k # 0 => k - 1 \in 0..(n + 1) /\ k - 1 # n + 1)
        BY <3>2
      <4>2. f[k] = IF k = 0 THEN start ELSE Link(f[k - 1], LastBiennium + 1 - k, rosters, cands)
        BY <2>1, <4>1 DEF Chaining, start
      <4> QED BY <3>2, <4>1, <4>2
    <3> QED BY <3>1, <3>2
  <2>3. Chaining(longer, n + 1, rosters, cands)
    BY <2>2 DEF Chaining, start
  <2> QED BY <2>3
<1> HIDE DEF Solved
<1>3. Nat \subseteq Solved
  BY <1>1, <1>2, SetInduction
<1> QED BY <1>3 DEF Solved

\* What one link reads.
Readable(rosters, cands) ==
  \A b \in Biennia : Rows(rosters[b]) /\ \A c \in cands[b] : c.pos \in Positions

\* The whole chain satisfies it.
LEMMA ChainHolds ==
  ASSUME NEW rosters, NEW cands, Readable(rosters, cands)
  PROVE  ChainInv(BackchainHouse(rosters, cands), 0)
<1> DEFINE N == LastBiennium + 1
           f == CHOOSE g : Chaining(g, N, rosters, cands)
<1>1. BackchainHouse(rosters, cands) = f[N]
  BY Zenon DEF BackchainHouse, Chaining, Link
<1>2. N \in Nat
  BY CalendarAssumption
<1>3. Chaining(f, N, rosters, cands)
  <2> HIDE DEF N
  <2> QED BY <1>2, ChainExists
<1> HIDE DEF f
<1>4. \A k \in 0..N : f[k] = IF k = 0 THEN [obs |-> {}, seeds |-> {}, ballot |-> {}, depth |-> {}]
                            ELSE Link(f[k - 1], LastBiennium + 1 - k, rosters, cands)
  BY <1>3 DEF Chaining
<1> DEFINE Holds == {k \in Nat : k <= N => ChainInv(f[k], N - k)}
<1>5. 0 \in Holds
  <2>1. 0 \in 0..N
    BY <1>2
  <2>2. f[0] = [obs |-> {}, seeds |-> {}, ballot |-> {}, depth |-> {}]
    BY <1>4, <2>1
  <2>3. ChainInv(f[0], N - 0)
    BY <2>2 DEF ChainInv, NoGuess, Within
  <2> QED BY <2>3
<1>6. ASSUME NEW k \in Nat, k \in Holds PROVE k + 1 \in Holds
  <2>1. CASE k + 1 <= N
    <3> DEFINE b == LastBiennium + 1 - (k + 1)
               proj == HouseSeatProjection(rosters[b], MatchedSeats(rosters[b], cands[b]), f[k].seeds)
    <3>1. /\ k + 1 \in 0..N /\ k + 1 # 0 /\ (k + 1) - 1 = k
          /\ b \in Biennia /\ b \in Int /\ N - k = b + 1 /\ N - (k + 1) = b
      BY <2>1, CalendarAssumption DEF Biennia
    <3>2. ChainInv(f[k], b + 1)
      <4>1. k <= N
        BY <1>2, <2>1
      <4>2. ChainInv(f[k], N - k)
        BY <1>6, <4>1
      <4> QED BY <3>1, <4>2
    <3>3. f[k + 1] = Link(f[k], b, rosters, cands)
      BY <1>4, <3>1
    <3> HIDE DEF b
    <3>4. f[k + 1] = ChainBack(f[k], b, proj)
      BY <3>3 DEF Link
    <3>5. SeedsFit(f[k].seeds)
      BY <3>2 DEF ChainInv, SeedOf, SeedsFit
    <3>6. Rows(rosters[b]) /\ \A c \in cands[b] : c.pos \in Positions
      BY <3>1 DEF Readable
    <3>7. Apart(proj) /\ BySeeds(proj, f[k].seeds)
      BY <3>5, <3>6, ProjectionApart
    <3> HIDE DEF proj
    <3>8. ChainInv(f[k + 1], b)
      BY <3>1, <3>2, <3>4, <3>7, ChainBackKeeps
    <3>9. ChainInv(f[k + 1], N - (k + 1))
      BY <3>1, <3>8
    <3> QED BY <3>9
  <2> QED BY <2>1
<1> HIDE DEF Holds
<1>7. Nat \subseteq Holds
  BY <1>5, <1>6, SetInduction
<1>8. ChainInv(f[N], N - N)
  BY <1>2, <1>7 DEF Holds
<1>9. N - N = 0
  BY <1>2
<1> QED BY <1>1, <1>8, <1>9

-----------------------------------------------------------------------------
(* What the builders observe.                                               *)

\* The image of a finite set is finite.
LEMMA ImageFinite ==
  ASSUME NEW S, IsFiniteSet(S), NEW f, DOMAIN f = S
  PROVE  IsFiniteSet({f[x] : x \in S})
<1> DEFINE T == {f[x] : x \in S}
           g == [x \in S |-> f[x]]
<1>1. g \in Surjection(S, T)
  BY DEF Surjection
<1> HIDE DEF g, T
<1> QED BY <1>1, FS_Surjection DEF T

LEMMA KindsAre == {House, Senate, Committee, Party} = Kinds
BY DEF Kinds

\* The committee rows' observations.
LEMMA CommitteesObserved ==
  ASSUME NEW rows \in SUBSET CommitteeRows, IsFiniteSet(rows)
  PROVE  /\ CommitteeObservations(rows) \in SUBSET Observations
         /\ IsFiniteSet(CommitteeObservations(rows))
<1> DEFINE f == [r \in rows |-> Observation(r.mem, Committee, r.com, r.b, FALSE)]
<1>1. CommitteeObservations(rows) = {f[r] : r \in rows}
  BY DEF CommitteeObservations
<1>2. \A r \in rows : f[r] \in Observations
  BY KindsAre DEF CommitteeRows, Observations, Observation
<1> HIDE DEF f
<1>3. DOMAIN f = rows
  BY DEF f
<1> QED BY <1>1, <1>2, <1>3, ImageFinite

\* The sponsor rows' observations.
LEMMA SponsorsObserved ==
  ASSUME NEW rows \in SUBSET SponsorRows, IsFiniteSet(rows), NEW exclusions
  PROVE  /\ SponsorObservations(rows, exclusions) \in SUBSET Observations
         /\ IsFiniteSet(SponsorObservations(rows, exclusions))
<1> DEFINE kept == {r \in rows : r.mem \notin exclusions[r.b]}
           partisan == {x \in kept : x.party # 0}
           senators == {x \in kept : x.agency = AgencySenate /\ x.ld # 0}
           f == [r \in partisan |-> Observation(r.mem, Party, r.party, r.b, FALSE)]
           g == [r \in senators |-> Observation(r.mem, Senate, r.ld, r.b, FALSE)]
<1>1. SponsorObservations(rows, exclusions) = {f[r] : r \in partisan} \cup {g[r] : r \in senators}
  BY DEF SponsorObservations
<1>2. \A r \in rows : r.mem \in Nat /\ r.b \in Biennia /\ r.party \in Nat /\ r.ld \in Nat
  BY DEF SponsorRows
<1>3. partisan \subseteq rows /\ senators \subseteq rows
  OBVIOUS
<1> HIDE DEF partisan, senators
<1>4. IsFiniteSet(partisan) /\ IsFiniteSet(senators)
  BY <1>3, FS_Subset
<1>5. \A r \in partisan : f[r] \in Observations
  BY <1>2, <1>3, KindsAre DEF Observations, Observation
<1>6. \A r \in senators : g[r] \in Observations
  BY <1>2, <1>3, KindsAre DEF Observations, Observation
<1>7. DOMAIN f = partisan /\ DOMAIN g = senators
  OBVIOUS
<1> HIDE DEF f, g
<1>8. IsFiniteSet({f[r] : r \in partisan}) /\ IsFiniteSet({g[r] : r \in senators})
  BY <1>4, <1>7, ImageFinite
<1>9. IsFiniteSet({f[r] : r \in partisan} \cup {g[r] : r \in senators})
  BY <1>8, FS_Union
<1> QED BY <1>1, <1>5, <1>6, <1>9

\* The chain names the rosters' members, districts and bienniums only.
Named(chain, M, L) ==
  /\ \A o \in chain.obs : \E m \in M, l \in L, p \in Positions, b \in Biennia :
       o = Observation(m, House, SeatDisc(l, p), b, FALSE)
  /\ \A s \in chain.seeds : s.mem \in M /\ s.ld \in L /\ s.pos \in Positions
ProjectsOnto(proj, M, L) ==
  \A t \in proj.matched \cup proj.seeded \cup proj.inferred :
    t[1] \in M /\ t[2] \in L /\ t[3] \in Positions

\* A projection names only members, districts and positions of its inputs.
LEMMA ProjectionNamed ==
  ASSUME NEW M, NEW L, NEW roster, Rows(roster), \A r \in roster : r.mem \in M /\ r.ld \in L,
         NEW cands, \A c \in cands : c.pos \in Positions,
         NEW seeds, \A s \in seeds : s.mem \in M /\ s.ld \in L /\ s.pos \in Positions
  PROVE  ProjectsOnto(HouseSeatProjection(roster, MatchedSeats(roster, cands), seeds), M, L)
<1> DEFINE matched == MatchedSeats(roster, cands)
           seeded == SeededSeats(roster, matched, seeds)
           inferred == InferredSeats(roster, matched \cup seeded)
           proj == HouseSeatProjection(roster, matched, seeds)
<1>1. proj.matched = matched /\ proj.seeded = seeded /\ proj.inferred = inferred
  BY DEF HouseSeatProjection
<1>2. ASSUME NEW t \in matched PROVE t[1] \in M /\ t[2] \in L /\ t[3] \in Positions
  <2>1. PICK r \in roster, p \in Positions : t = <<r.mem, r.ld, p>>
    BY MatchedSeatsFit
  <2> QED BY <2>1
<1>3. SeedsSeat(seeded, matched, seeds)
  BY SeededSeatsApart
<1> HIDE DEF matched
<1>4. ASSUME NEW t \in seeded PROVE t[1] \in M /\ t[2] \in L /\ t[3] \in Positions
  <2>1. PICK s \in seeds : t = <<s.mem, s.ld, s.pos>>
    BY <1>3 DEF SeedsSeat
  <2> QED BY <2>1
<1> DEFINE resolved == matched \cup seeded
<1>6. inferred = InferredSeats(roster, resolved)
  OBVIOUS
<1> HIDE DEF seeded, resolved, inferred
<1>5. ASSUME NEW t \in inferred PROVE t[1] \in M /\ t[2] \in L /\ t[3] \in Positions
  <2> DEFINE left(ld) == Entries(roster, ld) \ Members(ld, resolved)
             free(ld) == Positions \ Claimed(SeatedIn(ld, resolved))
             of(ld) == IF Cardinality(Entries(roster, ld)) = 2 /\ Cardinality(left(ld)) = 1
                          /\ Cardinality(free(ld)) = 1
                       THEN {<<m, ld, p>> : m \in left(ld), p \in free(ld)} ELSE {}
  <2>4. InferredSeats(roster, resolved) = UNION {of(ld) : ld \in Lds(roster)}
    BY DEF InferredSeats
  <2>5. \A ld : \A u \in of(ld) : \E m \in left(ld), p \in free(ld) : u = <<m, ld, p>>
    OBVIOUS
  <2> HIDE DEF of
  <2>1. PICK ld \in Lds(roster) : t \in of(ld)
    BY <1>6, <2>4
  <2>2. PICK m \in Entries(roster, ld), p \in Positions : t = <<m, ld, p>>
    BY <2>1, <2>5
  <2>3. m \in M /\ ld \in L
    BY <2>2 DEF Entries, Lds
  <2> QED BY <2>2, <2>3
<1> HIDE DEF proj
<1>7. ProjectsOnto(proj, M, L)
  BY <1>1, <1>2, <1>4, <1>5 DEF ProjectsOnto
<1> QED BY <1>7 DEF proj, matched

\* A link of the chain does not add to them.
LEMMA ChainBackNames ==
  ASSUME NEW M, NEW L, NEW b \in Biennia, NEW chain, Named(chain, M, L),
         NEW proj, ProjectsOnto(proj, M, L)
  PROVE  Named(ChainBack(chain, b, proj), M, L)
<1> DEFINE all == proj.matched \cup proj.seeded \cup proj.inferred
           class == Classified(proj, chain.seeds)
           next == ChainBack(chain, b, proj)
<1>1. /\ next.obs = chain.obs \cup {Observation(t[1], House, SeatDisc(t[2], t[3]), b, FALSE) : t \in all}
      /\ next.seeds = IF b \in EraStarts THEN {}
                      ELSE {[s EXCEPT !.hops = @ + 1] : s \in {x \in class : x.hops < MaxHops}}
  BY DEF ChainBack, Chained
<1>2. ASSUME NEW s \in class
      PROVE  /\ s = [mem |-> s.mem, ld |-> s.ld, pos |-> s.pos, hops |-> s.hops]
             /\ s.mem \in M /\ s.ld \in L /\ s.pos \in Positions
  BY DEF Classified, ProjectsOnto
<1> HIDE DEF class, next
<1>3. ASSUME NEW s \in next.seeds PROVE s.mem \in M /\ s.ld \in L /\ s.pos \in Positions
  <2>1. PICK x \in class : s = [x EXCEPT !.hops = @ + 1]
    BY <1>1, <1>3
  <2>2. s.mem = x.mem /\ s.ld = x.ld /\ s.pos = x.pos
    BY <1>2, <2>1
  <2> QED BY <1>2, <2>2
<1>4. ASSUME NEW o \in next.obs
      PROVE  \E m \in M, l \in L, p \in Positions, c \in Biennia :
               o = Observation(m, House, SeatDisc(l, p), c, FALSE)
  <2>1. CASE o \in chain.obs
    BY <2>1 DEF Named
  <2>2. CASE o \notin chain.obs
    <3>1. PICK t \in all : o = Observation(t[1], House, SeatDisc(t[2], t[3]), b, FALSE)
      BY <1>1, <2>2
    <3>2. t[1] \in M /\ t[2] \in L /\ t[3] \in Positions
      BY DEF ProjectsOnto
    <3> QED BY <3>1, <3>2
  <2> QED BY <2>1, <2>2
<1> QED BY <1>3, <1>4 DEF Named, next

\* Nor does the whole chain.
LEMMA ChainNames ==
  ASSUME NEW M, NEW L, NEW rosters, NEW cands, Readable(rosters, cands),
         \A b \in Biennia : \A r \in rosters[b] : r.mem \in M /\ r.ld \in L
  PROVE  Named(BackchainHouse(rosters, cands), M, L)
<1> DEFINE N == LastBiennium + 1
           f == CHOOSE g : Chaining(g, N, rosters, cands)
<1>1. BackchainHouse(rosters, cands) = f[N]
  BY Zenon DEF BackchainHouse, Chaining, Link
<1>2. N \in Nat
  BY CalendarAssumption
<1>3. Chaining(f, N, rosters, cands)
  <2> HIDE DEF N
  <2> QED BY <1>2, ChainExists
<1> HIDE DEF f
<1>4. \A k \in 0..N : f[k] = IF k = 0 THEN [obs |-> {}, seeds |-> {}, ballot |-> {}, depth |-> {}]
                            ELSE Link(f[k - 1], LastBiennium + 1 - k, rosters, cands)
  BY <1>3 DEF Chaining
<1> DEFINE Holds == {k \in Nat : k <= N => Named(f[k], M, L)}
<1>5. 0 \in Holds
  <2>1. 0 \in 0..N
    BY <1>2
  <2>2. f[0] = [obs |-> {}, seeds |-> {}, ballot |-> {}, depth |-> {}]
    BY <1>4, <2>1
  <2>3. Named(f[0], M, L)
    BY <2>2 DEF Named
  <2> QED BY <2>3
<1>6. ASSUME NEW k \in Nat, k \in Holds PROVE k + 1 \in Holds
  <2>1. CASE k + 1 <= N
    <3> DEFINE b == LastBiennium + 1 - (k + 1)
               proj == HouseSeatProjection(rosters[b], MatchedSeats(rosters[b], cands[b]), f[k].seeds)
    <3>1. k + 1 \in 0..N /\ k + 1 # 0 /\ (k + 1) - 1 = k /\ b \in Biennia /\ k <= N
      BY <2>1, CalendarAssumption DEF Biennia
    <3>2. Named(f[k], M, L)
      BY <1>6, <3>1
    <3>3. f[k + 1] = Link(f[k], b, rosters, cands)
      BY <1>4, <3>1
    <3> HIDE DEF b
    <3>4. f[k + 1] = ChainBack(f[k], b, proj)
      BY <3>3 DEF Link
    <3>6. Rows(rosters[b]) /\ \A c \in cands[b] : c.pos \in Positions
      BY <3>1 DEF Readable
    <3>7. ProjectsOnto(proj, M, L)
      <4>1. \A r \in rosters[b] : r.mem \in M /\ r.ld \in L
        BY <3>1
      <4>2. \A s \in f[k].seeds : s.mem \in M /\ s.ld \in L /\ s.pos \in Positions
        BY <3>2 DEF Named
      <4> QED BY <3>6, <4>1, <4>2, ProjectionNamed
    <3> HIDE DEF proj
    <3>8. Named(f[k + 1], M, L)
      BY <3>1, <3>2, <3>4, <3>7, ChainBackNames
    <3> QED BY <3>8
  <2> QED BY <2>1
<1> HIDE DEF Holds
<1>7. Nat \subseteq Holds
  BY <1>5, <1>6, SetInduction
<1> QED BY <1>1, <1>2, <1>7 DEF Holds

\* The chain's observations are the rows', and finite in number.
LEMMA HouseObserved ==
  ASSUME NEW rows \in SUBSET SponsorRows, IsFiniteSet(rows), NEW rosters, NEW cands,
         \A b \in Biennia : rosters[b] \subseteq rows /\ \A c \in cands[b] : c.pos \in Positions
  PROVE  /\ BackchainHouse(rosters, cands).obs \in SUBSET Observations
         /\ IsFiniteSet(BackchainHouse(rosters, cands).obs)
<1> DEFINE fm == [r \in rows |-> r.mem]
           fl == [r \in rows |-> r.ld]
           M == {fm[r] : r \in rows}
           L == {fl[r] : r \in rows}
           obs == BackchainHouse(rosters, cands).obs
<1>1. M \subseteq Nat /\ L \subseteq Nat /\ \A r \in rows : r.mem \in M /\ r.ld \in L /\ r.ld \in Nat
  BY DEF SponsorRows
<1>2. DOMAIN fm = rows /\ DOMAIN fl = rows
  OBVIOUS
<1>3. IsFiniteSet(M) /\ IsFiniteSet(L)
  <2> HIDE DEF fm, fl
  <2> QED BY <1>2, ImageFinite
<1> HIDE DEF M, L
<1>4. Readable(rosters, cands)
  BY <1>1, FS_Subset DEF Readable, Rows
<1>5. Named(BackchainHouse(rosters, cands), M, L)
  BY <1>1, <1>4, ChainNames
<1> HIDE DEF obs
<1>6. \A o \in obs : \E m \in M, l \in L, p \in Positions, b \in Biennia :
        o = Observation(m, House, SeatDisc(l, p), b, FALSE)
  BY <1>5 DEF Named, obs
<1>7. obs \subseteq Observations
  <2>1. ASSUME NEW m \in M, NEW l \in L, NEW p \in Positions, NEW b \in Biennia
        PROVE  Observation(m, House, SeatDisc(l, p), b, FALSE) \in Observations
    <3>1. SeatDisc(l, p) \in Nat /\ m \in Nat
      BY <1>1 DEF SeatDisc, Positions
    <3> QED BY <3>1, KindsAre DEF Observations, Observation
  <2>2. ASSUME NEW o \in obs PROVE o \in Observations
    <3>1. PICK m \in M, l \in L, p \in Positions, b \in Biennia :
            o = Observation(m, House, SeatDisc(l, p), b, FALSE)
      BY <1>6
    <3> QED BY <2>1, <3>1
  <2> QED BY <2>2
<1>8. IsFiniteSet(obs)
  <2> DEFINE Q == M \X L
             R == Positions \X Biennia
             Domain == Q \X R
             f == [q \in Domain |-> Observation(q[1][1], House, SeatDisc(q[1][2], q[2][1]), q[2][2], FALSE)]
             T == {f[q] : q \in Domain}
  <2>1. IsFiniteSet(Positions) /\ IsFiniteSet(Biennia)
    <3>1. Positions = 1..2
      BY DEF Positions
    <3>2. IsFiniteSet(1..2)
      BY UpTo
    <3>3. LastBiennium \in Int
      BY CalendarAssumption
    <3>4. IsFiniteSet(0..LastBiennium)
      BY <3>3, FS_Interval
    <3> QED BY <3>1, <3>2, <3>4, Zenon DEF Biennia
  <2>2. IsFiniteSet(Domain)
    BY <1>3, <2>1, FS_Product
  <2>3. obs \subseteq T
    <3>1. ASSUME NEW o \in obs PROVE o \in T
      <4>1. PICK m \in M, l \in L, p \in Positions, b \in Biennia :
              o = Observation(m, House, SeatDisc(l, p), b, FALSE)
        BY <1>6
      <4> DEFINE q == <<<<m, l>>, <<p, b>>>>
      <4>2. q \in Domain /\ q[1][1] = m /\ q[1][2] = l /\ q[2][1] = p /\ q[2][2] = b
        OBVIOUS
      <4>3. o = f[q]
        BY <4>1, <4>2
      <4> QED BY <4>2, <4>3
    <3> QED BY <3>1
  <2>4. DOMAIN f = Domain
    OBVIOUS
  <2> HIDE DEF f, Domain
  <2>5. IsFiniteSet(T)
    BY <2>2, <2>4, ImageFinite
  <2> QED BY <2>3, <2>5, FS_Subset
<1> QED BY <1>7, <1>8 DEF obs

-----------------------------------------------------------------------------
(* The movers.                                                              *)

\* The least and the most of a set of days are in it.
LEMMA LeastIs ==
  ASSUME NEW S \in SUBSET Nat, S # {}
  PROVE  LeastOf(S) \in S
<1>1. \E x \in S : \A y \in S : x <= y
  BY HasLeast
<1> QED BY <1>1 DEF LeastOf

LEMMA MostIs ==
  ASSUME NEW S \in SUBSET Nat, S # {}, NEW B \in Nat, \A x \in S : x <= B
  PROVE  MostOf(S) \in S
<1>1. \E x \in S : \A y \in S : y <= x
  BY HasMost
<1> QED BY <1>1 DEF MostOf

LEMMA ElementsOf ==
  ASSUME NEW S, NEW s \in Seq(S)
  PROVE  Elements(s) \subseteq S
BY DEF Elements

\* What every move a build dates satisfies, and one move per member and biennium.
MoveFits(m) ==
  /\ m.mem \in Nat /\ m.b \in Biennia /\ m.ld \in Nat /\ m.on \in Nat
  /\ FirstDay(m.b) < m.on /\ BienniumOf(m.on) = m.b /\ m.on < Open /\ m.on <= LastDay(m.b)
  /\ m.ballot \subseteq Nat
MovesFit(moves) ==
  /\ IsFiniteSet(moves)
  /\ \A m \in moves : MoveFits(m)
  /\ \A m, n \in moves : m.mem = n.mem /\ m.b = n.b => m = n

\* A move's date lies inside its biennium, after its first day.
LEMMA MoveDatesFit ==
  ASSUME NEW events \in Seq(Events), NEW m, NEW b \in Biennia, MoveDates(events, m, b) # {}
  PROVE  LET on == LeastOf(MoveDates(events, m, b))
         IN on \in Nat /\ FirstDay(b) < on /\ BienniumOf(on) = b /\ on < Open /\ on <= LastDay(b)
<1> DEFINE S == MoveDates(events, m, b)
<1>1. \A d \in S : \E e \in Elements(events) : d = e.date /\ WithinMove(e, b)
  BY DEF MoveDates
<1>2. \A e \in Elements(events) : e \in Events
  BY ElementsOf
<1> HIDE DEF S
<1>3. ASSUME NEW d \in S
      PROVE  d \in Nat /\ FirstDay(b) < d /\ BienniumOf(d) = b /\ d < Open /\ d <= LastDay(b)
  <2>1. PICK e \in Events : d = e.date /\ WithinMove(e, b)
    BY <1>1, <1>2
  <2> QED BY <2>1, EventFacts DEF WithinMove
<1>4. LeastOf(S) \in S
  BY <1>3, LeastIs DEF S
<1> QED BY <1>3, <1>4 DEF S

\* chamber_moves yields finitely many moves, one per member and biennium.
LEMMA MoversFit ==
  ASSUME NEW rows \in SUBSET SponsorRows, IsFiniteSet(rows), NEW events \in Seq(Events), NEW cands,
         \A b \in Biennia : \A c \in cands[b] : c.pos \in Positions
  PROVE  MovesFit(ChamberMovesOf(rows, events, cands))
<1> DEFINE moves == ChamberMovesOf(rows, events, cands)
           f == [r \in rows |-> r.mem]
           M == {f[r] : r \in rows}
           D == M \X Biennia
           g == [d \in D |-> ChamberMove(rows, events, cands, d[1], d[2])]
<1>1. IsFiniteSet(M)
  <2>1. DOMAIN f = rows
    OBVIOUS
  <2> HIDE DEF f
  <2> QED BY <2>1, ImageFinite
<1>2. IsFiniteSet(Biennia)
  <2>1. LastBiennium \in Int
    BY CalendarAssumption
  <2> QED BY <2>1, FS_Interval DEF Biennia
<1>3. \A m \in moves : \E b \in Biennia : \E k \in HouseMovers(rows, b) :
        m = ChamberMove(rows, events, cands, k, b) /\ MoveDates(events, k, b) # {}
  BY DEF ChamberMovesOf
<1>4. ASSUME NEW b \in Biennia, NEW k \in HouseMovers(rows, b)
      PROVE  k \in M /\ \E r \in RowsOf(rows, b) : r.mem = k /\ r.agency = AgencyHouse
  BY DEF HouseMovers, RowsOf
<1>5. ASSUME NEW b \in Biennia, NEW k \in HouseMovers(rows, b), MoveDates(events, k, b) # {}
      PROVE  LET m == ChamberMove(rows, events, cands, k, b)
             IN MoveFits(m) /\ m.mem = k /\ m.b = b
  <2> DEFINE r == CHOOSE x \in RowsOf(rows, b) : x.mem = k /\ x.agency = AgencyHouse
             pos == PositionFor(cands[b], r.ld, Surname[k], r.party)
             on == LeastOf(MoveDates(events, k, b))
             ballot == IF pos = NoPosition THEN {} ELSE {SeatDisc(r.ld, pos)}
             m == ChamberMove(rows, events, cands, k, b)
  <2>1. r \in RowsOf(rows, b) /\ r.mem = k
    BY <1>4
  <2> HIDE DEF r
  <2>2. r.ld \in Nat /\ k \in Nat
    BY <2>1 DEF SponsorRows, RowsOf
  <2>3. pos \in Positions \cup {NoPosition}
    BY PositionForIsBallots
  <2>4. m.mem = k /\ m.b = b /\ m.on = on /\ m.ld = r.ld /\ m.ballot = ballot
    BY DEF ChamberMove, r
  <2> HIDE DEF pos, on, m
  <2>5. ballot \subseteq Nat
    BY <2>2, <2>3 DEF Positions, SeatDisc
  <2> HIDE DEF ballot
  <2>6. on \in Nat /\ FirstDay(b) < on /\ BienniumOf(on) = b /\ on < Open /\ on <= LastDay(b)
    BY <1>5, MoveDatesFit DEF on
  <2>7. MoveFits(m)
    BY <2>2, <2>4, <2>5, <2>6 DEF MoveFits
  <2> QED BY <2>4, <2>7 DEF m
<1> HIDE DEF moves
<1>6. \A m \in moves : MoveFits(m)
  BY <1>3, <1>5
<1>7. \A m, n \in moves : m.mem = n.mem /\ m.b = n.b => m = n
  <2>1. ASSUME NEW m \in moves PROVE m = ChamberMove(rows, events, cands, m.mem, m.b)
    BY <1>3, <1>5
  <2> QED BY <2>1
<1>8. IsFiniteSet(moves)
  <2>1. ASSUME NEW m \in moves PROVE m \in {g[d] : d \in D}
    <3>3a. PICK b \in Biennia : \E k \in HouseMovers(rows, b) : m = ChamberMove(rows, events, cands, k, b)
      BY <1>3
    <3>1. PICK k \in HouseMovers(rows, b) : m = ChamberMove(rows, events, cands, k, b)
      BY <3>3a
    <3>2. k \in M
      BY <1>4
    <3>3. <<k, b>> \in D /\ g[<<k, b>>] = m
      BY <3>1, <3>2
    <3> QED BY <3>3
  <2>2. DOMAIN g = D
    OBVIOUS
  <2>3. IsFiniteSet(D)
    BY <1>1, <1>2, FS_Product
  <2> HIDE DEF g, D
  <2>4. IsFiniteSet({g[d] : d \in D})
    BY <2>2, <2>3, ImageFinite
  <2> QED BY <2>1, <2>4, FS_Subset
<1> QED BY <1>6, <1>7, <1>8 DEF MovesFit, moves

Carriages ==
  [obs : {o \in SUBSET Observations : IsFiniteSet(o)}, implied : Seq(Events)]

\* A mover's House end is a day.
LEMMA HouseEndFits ==
  ASSUME NEW move, MoveFits(move), NEW seat, NEW events \in Seq(Events)
  PROVE  HouseEnd(move, seat, events) \in Days
<1> DEFINE S == {move.on} \cup {e.date : e \in {x \in Elements(events) :
                   /\ x.kind = Seated /\ x.seat = <<House, seat>> /\ x.mem # move.mem
                   /\ FirstDay(move.b) < x.date /\ x.date < move.on}}
<1>1. \A e \in Elements(events) : e.date \in Nat /\ e.date < Open
  BY ElementsOf, EventFacts
<1>2. \A d \in S : d \in Nat /\ d < Open
  BY <1>1 DEF MoveFits
<1>3. HouseEnd(move, seat, events) = LeastOf(S)
  BY DEF HouseEnd
<1>4. S # {}
  OBVIOUS
<1> HIDE DEF S
<1>5. LeastOf(S) \in S
  BY <1>2, <1>4, LeastIs
<1>6. Days = 0..(Open - 1) /\ Open \in Nat
  BY Calendar
<1> QED BY <1>2, <1>3, <1>5, <1>6

\* The seats a successor's seatings name are numbers.
LEMMA SuccessorsAreSeats ==
  ASSUME NEW move, MoveFits(move), NEW obs, NEW events \in Seq(Events)
  PROVE  SuccessorSeats(move, obs, events) \subseteq Nat
<1> DEFINE ldSeats == {SeatDisc(move.ld, p) : p \in Positions}
           seatings == {e \in Elements(events) :
                          /\ e.kind = Seated /\ e.seat[1] = House /\ e.seat[2] \in ldSeats
                          /\ e.mem # move.mem /\ WithinMove(e, move.b)}
<1>1. ldSeats \subseteq Nat
  BY DEF MoveFits, SeatDisc, Positions
<1>2. SuccessorSeats(move, obs, events) \subseteq ldSeats
  <2>1. {e.seat[2] : e \in seatings} \subseteq ldSeats
    OBVIOUS
  <2>2. SuccessorSeats(move, obs, events) \subseteq ldSeats \cup {e.seat[2] : e \in seatings}
    BY Zenon DEF SuccessorSeats
  <2> QED BY <2>1, <2>2
<1> QED BY <1>1, <1>2

\* One carried move leaves observations and events.
LEMMA CarryMoveStays ==
  ASSUME NEW carried \in Carriages, NEW move, MoveFits(move), NEW obs \in SUBSET Observations,
         NEW events \in Seq(Events)
  PROVE  CarryMove(carried, move, obs, events) \in Carriages
<1> DEFINE explicit == {e.seat[2] : e \in {x \in Elements(events) :
                          IsHouseVacate(x) /\ x.mem = move.mem /\ BienniumOf(x.date) = move.b}}
           successors == IF explicit # {} THEN {} ELSE SuccessorSeats(move, carried.obs, events)
           prior == ContinuedSeat(move, obs)
           seats == CASE move.ballot # {} -> move.ballot
                      [] move.ballot = {} /\ prior # {} -> prior
                      [] move.ballot = {} /\ prior = {} /\ Cardinality(successors) = 1 -> successors
                      [] OTHER -> {}
           seat == CHOOSE x \in seats : TRUE
           kept == seats = {} \/ ~(explicit \subseteq seats)
           seen == Observation(move.mem, House, seat, move.b, FALSE)
           left == SuccessionEvent(move.mem, Vacated, HouseEnd(move, seat, events), <<House, seat>>,
                                   Derived)
           taken == [obs |-> carried.obs \cup {seen},
                     implied |-> IF explicit # {} THEN carried.implied
                                 ELSE Append(carried.implied, left)]
<1>1. CarryMove(carried, move, obs, events) = IF kept THEN carried ELSE taken
  BY Zenon DEF CarryMove
<1>2. seats \subseteq Nat
  <2>1. prior \subseteq Nat
    BY DEF ContinuedSeat, Observations
  <2>2. successors \subseteq Nat
    BY SuccessorsAreSeats
  <2>3. move.ballot \subseteq Nat
    BY DEF MoveFits
  <2> HIDE DEF prior, successors
  <2> QED BY <2>1, <2>2, <2>3
<1> HIDE DEF seats
<1>3. ASSUME ~kept PROVE taken \in Carriages
  <2>1. seat \in Nat
    BY <1>2, <1>3
  <2> HIDE DEF seat
  <2>2. seen \in Observations
    BY <2>1, KindsAre DEF MoveFits, Observations, Observation
  <2>3. left \in Events
    <3>1. HouseEnd(move, seat, events) \in Days
      BY HouseEndFits
    <3>2. <<House, seat>> \in (Kinds \X Nat) \cup {NoSeat}
      BY <2>1, KindsAre
    <3> QED BY <3>1, <3>2 DEF SuccessionEvent, Events, MoveFits
  <2> HIDE DEF seen, left
  <2>4. carried.obs \subseteq Observations /\ IsFiniteSet(carried.obs) /\ carried.implied \in Seq(Events)
    BY DEF Carriages
  <2>5. IsFiniteSet(carried.obs \cup {seen})
    BY <2>4, FS_AddElement
  <2>6. carried.obs \cup {seen} \in {o \in SUBSET Observations : IsFiniteSet(o)}
    BY <2>2, <2>4, <2>5
  <2>7. (IF explicit # {} THEN carried.implied ELSE Append(carried.implied, left)) \in Seq(Events)
    BY <2>3, <2>4
  <2> QED BY <2>6, <2>7 DEF Carriages
<1> HIDE DEF kept, taken
<1> QED BY <1>1, <1>3

\* The moves in the order of their biennium and member.
LEMMA NthMove ==
  ASSUME NEW moves, MovesFit(moves), NEW n \in 1..Cardinality(moves)
  PROVE  (CHOOSE m \in moves :
            Cardinality({x \in moves : Precedes(<<x.b, x.mem>>, <<m.b, m.mem>>)}) = n - 1) \in moves
<1> DEFINE key(m) == <<m.b, m.mem>>
           R == {p \in moves \X moves : Precedes(key(p[1]), key(p[2]))}
<1>1. \A m \in moves : key(m) \in [1..2 -> Int]
  BY DEF MovesFit, MoveFits, Biennia
<1>2. \A m, x \in moves : m # x => key(m) # key(x)
  BY DEF MovesFit
<1>3. \A x, m \in moves : <<x, m>> \in R <=> Precedes(key(x), key(m))
  OBVIOUS
<1> HIDE DEF key, R
<1>4. \A i \in moves : <<i, i>> \notin R
  BY <1>1, <1>3, PrecedesOrder
<1>5. ASSUME NEW i \in moves, NEW j \in moves, NEW k \in moves, <<i, j>> \in R, <<j, k>> \in R
      PROVE  <<i, k>> \in R
  <2>1. Precedes(key(i), key(j)) /\ Precedes(key(j), key(k))
    BY <1>3, <1>5
  <2>2. Precedes(key(i), key(k))
    BY <1>1, <2>1, PrecedesOrder
  <2> QED BY <1>3, <2>2
<1>6. ASSUME NEW i \in moves, NEW j \in moves, i # j PROVE <<i, j>> \in R \/ <<j, i>> \in R
  <2>1. Precedes(key(i), key(j)) \/ Precedes(key(j), key(i))
    BY <1>1, <1>2, <1>6, PrecedesOrder
  <2> QED BY <1>3, <2>1
<1>7. IsFiniteSet(moves)
  BY DEF MovesFit
<1>8. \E m \in moves : Cardinality(Below(moves, R, m)) = n - 1
  <2>1. Orders(moves, R)
    BY <1>4, <1>5, <1>6 DEF Orders
  <2>3. \A k \in 1..Cardinality(moves) :
          \E m \in moves : Cardinality(Below(moves, R, m)) = k - 1
    BY <1>7, <2>1, RanksCover
  <2> QED BY <2>3
<1>9. PICK m \in moves : Cardinality(Below(moves, R, m)) = n - 1
  BY <1>8
<1>10. Below(moves, R, m) = {x \in moves : Precedes(<<x.b, x.mem>>, <<m.b, m.mem>>)}
  BY <1>3 DEF key, Below
<1>11. Cardinality({x \in moves : Precedes(<<x.b, x.mem>>, <<m.b, m.mem>>)}) = n - 1
  BY <1>9, <1>10
<1> QED BY <1>11

\* carry_mover_house_tenures yields observations and events.
LEMMA CarriedStay ==
  ASSUME NEW obs \in SUBSET Observations, IsFiniteSet(obs), NEW moves, MovesFit(moves),
         NEW events \in Seq(Events)
  PROVE  CarryMoverHouseTenures(obs, moves, events) \in Carriages
<1> DEFINE N == Cardinality(moves)
           V == Carriages
           a == [obs |-> obs, implied |-> <<>>]
           nth(n) == CHOOSE m \in moves :
                       Cardinality({x \in moves : Precedes(<<x.b, x.mem>>, <<m.b, m.mem>>)}) = n - 1
           step(n, v) == CarryMove(v, nth(n), obs, events)
           f == CHOOSE f : f = [n \in 0..N |-> IF n = 0 THEN a ELSE step(n, f[n - 1])]
<1>1. a \in V /\ N \in Nat
  <2>1. IsFiniteSet(moves)
    BY DEF MovesFit
  <2>2. N \in Nat
    BY <2>1, FS_CardinalityType
  <2> QED BY <2>2 DEF Carriages
<1>2. ASSUME NEW n \in 1..N, NEW v \in V PROVE step(n, v) \in V
  <2>1. nth(n) \in moves
    BY NthMove
  <2> HIDE DEF nth
  <2>2. MoveFits(nth(n))
    BY <2>1 DEF MovesFit
  <2> QED BY <2>2, CarryMoveStays
<1>8. CarryMoverHouseTenures(obs, moves, events) = f[N]
  BY Zenon DEF CarryMoverHouseTenures
<1> DEFINE G == [p \in (1..N) \X V |-> step(p[1], p[2])]
<1> HIDE DEF V, step, N, a
<1>3. \A n \in 1..N : \A v \in V : G[<<n, v>>] = step(n, v)
  OBVIOUS
<1>4. G \in [(1..N) \X V -> V]
  BY <1>2
<1> HIDE DEF G
<1>5. PICK g \in [0..N -> V] : Unfolds(g, N, a, G)
  BY <1>1, <1>4, RecursionExists
<1>6. g = [i \in 0..N |-> IF i = 0 THEN a ELSE step(i, g[i - 1])]
  <2>1. ASSUME NEW i \in 0..N
        PROVE  (IF i = 0 THEN a ELSE G[<<i, g[i - 1]>>]) = (IF i = 0 THEN a ELSE step(i, g[i - 1]))
    <3>1. CASE i # 0
      <4>1. i \in 1..N /\ g[i - 1] \in V
        BY <1>1, <3>1
      <4> QED BY <1>3, <4>1
    <3> QED BY <3>1
  <2>2. g = [i \in 0..N |-> IF i = 0 THEN a ELSE G[<<i, g[i - 1]>>]]
    BY <1>5 DEF Unfolds
  <2> QED BY <2>1, <2>2
<1>7. f = [i \in 0..N |-> IF i = 0 THEN a ELSE step(i, f[i - 1])]
  BY <1>6, Zenon
<1> HIDE DEF f
<1>10. f[0] \in V /\ \A i \in 1..N : f[i - 1] \in V => f[i] \in V
  <2>1. f[0] = a
    BY <1>1, <1>7
  <2>2. ASSUME NEW i \in 1..N, f[i - 1] \in V PROVE f[i] \in V
    <3>1. f[i] = step(i, f[i - 1])
      BY <1>1, <1>7
    <3> QED BY <1>2, <2>2, <3>1
  <2> QED BY <1>1, <2>1, <2>2
<1>11. f[N] \in V
  <2>1. \A n \in 0..N : f[n] \in V
    BY <1>1, <1>10, RunStays
  <2> QED BY <1>1, <2>1
<1> QED BY <1>8, <1>11 DEF V

\* The day a mover's House seat ended is before Open.
LEMMA HouseEndedFits ==
  ASSUME NEW spans \in Seq(BareSpan), NEW move, MoveFits(move)
  PROVE  HouseEndedOn(spans, move) \in Nat /\ HouseEndedOn(spans, move) < Open
<1> DEFINE ends == {s.to : s \in {x \in Elements(spans) :
                     /\ x.kind = House /\ x.mem = move.mem /\ x.to # Open /\ x.eb = move.b
                     /\ FirstDay(x.eb) < x.to /\ x.to < LastDay(x.eb)}}
<1>1. \A s \in Elements(spans) : s \in BareSpan
  BY ElementsOf
<1>2. \A s \in BareSpan : s.to \in Nat /\ s.to <= Open
  BY BareIsTyped DEF Typed, BareFits
<1>3. Open \in Nat
  BY OpenIsNat
<1>4. \A d \in ends : d \in Nat /\ d <= Open /\ d < Open
  BY <1>1, <1>2, <1>3
<1>5. HouseEndedOn(spans, move) = IF ends = {} THEN move.on ELSE MostOf(ends)
  BY DEF HouseEndedOn
<1> HIDE DEF ends
<1>6. ends # {} => MostOf(ends) \in ends
  BY <1>3, <1>4, MostIs
<1> QED BY <1>4, <1>5, <1>6 DEF MoveFits

\* Dating a mover's committee keeps the fit.
LEMMA DateCommitteeStays ==
  ASSUME NEW s \in BareSpan, NEW move, MoveFits(move), NEW agency, NEW end \in Nat, end < Open
  PROVE  DateCommittee(s, move, agency, end) \in BareSpan
<1>1. s \in Typed /\ BareFits(s)
  BY BareIsTyped
<1>2. s.from \in Nat /\ s.to \in Nat /\ Open \in Nat
  BY <1>1, OpenIsNat DEF Typed
<1>3. ASSUME s.from <= end, end < s.to PROVE [s EXCEPT !.to = end, !.ebasis = Derived] \in BareSpan
  <2> DEFINE t == [s EXCEPT !.to = end, !.ebasis = Derived]
  <2>1. t \in Typed
    BY <1>1, Bases DEF Typed
  <2>2. /\ t.to = end /\ t.ebasis = Derived /\ t.from = s.from /\ t.sb = s.sb
        /\ t.sbasis = s.sbasis /\ t.swin = s.swin /\ t.ewin = s.ewin
    BY <1>1 DEF Typed
  <2> HIDE DEF t
  <2>3. BareFits(t)
    BY <1>1, <1>2, <1>3, <2>2, Bases DEF BareFits
  <2> QED BY <2>1, <2>3, BareFacts DEF t
<1>4. ASSUME s.sb = move.b, move.on <= s.to
      PROVE  [s EXCEPT !.from = move.on, !.sbasis = Derived] \in BareSpan
  <2> DEFINE t == [s EXCEPT !.from = move.on, !.sbasis = Derived]
  <2>0. move.on \in Nat /\ move.on < Open /\ move.on <= LastDay(s.sb)
    BY <1>4 DEF MoveFits
  <2>1. t \in Typed
    BY <1>1, <2>0, Bases DEF Typed
  <2>2. /\ t.to = s.to /\ t.ebasis = s.ebasis /\ t.eb = s.eb /\ t.from = move.on /\ t.sb = s.sb
        /\ t.sbasis = Derived /\ t.swin = s.swin /\ t.ewin = s.ewin
    BY <1>1 DEF Typed
  <2> HIDE DEF t
  <2>3. BareFits(t)
    BY <1>1, <1>2, <1>4, <2>0, <2>2, Bases DEF BareFits
  <2> QED BY <2>1, <2>3, BareFacts DEF t
<1>5. \/ DateCommittee(s, move, agency, end) = s
      \/ /\ s.from <= end /\ end < s.to
         /\ DateCommittee(s, move, agency, end) = [s EXCEPT !.to = end, !.ebasis = Derived]
      \/ /\ s.sb = move.b /\ move.on <= s.to
         /\ DateCommittee(s, move, agency, end) = [s EXCEPT !.from = move.on, !.sbasis = Derived]
  BY DEF DateCommittee
<1> QED BY <1>3, <1>4, <1>5

\* Dating it by every move of its member does too.
LEMMA DatedStays ==
  ASSUME NEW s \in BareSpan, NEW moves, MovesFit(moves), NEW committeeRows,
         NEW houseSpans \in Seq(BareSpan)
  PROVE  DatedByMoves(s, moves, committeeRows, houseSpans) \in BareSpan
<1> DEFINE own == {m \in moves : m.mem = s.mem}
           byMove == [m \in own |-> m.b]
           P == {byMove[m] : m \in own}
           order == Ranked({m.b : m \in own}, LAMBDA b : <<b>>)
           N == Len(order)
           V == BareSpan
           a == s
           nth(n) == CHOOSE m \in own : m.b = order[n]
           step(n, v) ==
             DateCommittee(v, nth(n), CommitteeAgency(committeeRows, nth(n).b, s.disc),
                           HouseEndedOn(houseSpans, nth(n)))
           f == CHOOSE f : f = [n \in 0..N |-> IF n = 0 THEN a ELSE step(n, f[n - 1])]
<1>12. order \in Seq(P)
  <2>1. IsFiniteSet(own)
    BY FS_Subset DEF MovesFit
  <2>2. DOMAIN byMove = own
    OBVIOUS
  <2>3. P = {m.b : m \in own}
    OBVIOUS
  <2>4. P \in SUBSET Int
    BY <2>3 DEF MovesFit, MoveFits, Biennia
  <2> HIDE DEF byMove, own
  <2>5. IsFiniteSet(P)
    BY <2>1, <2>2, ImageFinite
  <2> HIDE DEF P
  <2>6. Ranked(P, LAMBDA b : <<b>>) \in Seq(P)
    BY <2>4, <2>5, RankedStays
  <2> QED BY <2>3, <2>6
<1>13. P = {m.b : m \in own}
  OBVIOUS
<1> HIDE DEF P, order
<1>1. a \in V /\ N \in Nat
  BY <1>12
<1>2. ASSUME NEW n \in 1..N, NEW v \in V PROVE step(n, v) \in V
  <2>1. order[n] \in P
    BY <1>12
  <2>2. nth(n) \in own
    BY <1>13, <2>1
  <2> HIDE DEF nth
  <2>3. MoveFits(nth(n))
    BY <2>2 DEF MovesFit
  <2>4. HouseEndedOn(houseSpans, nth(n)) \in Nat /\ HouseEndedOn(houseSpans, nth(n)) < Open
    BY <2>3, HouseEndedFits
  <2> QED BY <2>3, <2>4, DateCommitteeStays
<1>8. DatedByMoves(s, moves, committeeRows, houseSpans) = f[N]
  BY Zenon DEF DatedByMoves, order
<1> DEFINE G == [p \in (1..N) \X V |-> step(p[1], p[2])]
<1> HIDE DEF V, step, N, a
<1>3. \A n \in 1..N : \A v \in V : G[<<n, v>>] = step(n, v)
  OBVIOUS
<1>4. G \in [(1..N) \X V -> V]
  BY <1>2
<1> HIDE DEF G
<1>5. PICK g \in [0..N -> V] : Unfolds(g, N, a, G)
  BY <1>1, <1>4, RecursionExists
<1>6. g = [i \in 0..N |-> IF i = 0 THEN a ELSE step(i, g[i - 1])]
  <2>1. ASSUME NEW i \in 0..N
        PROVE  (IF i = 0 THEN a ELSE G[<<i, g[i - 1]>>]) = (IF i = 0 THEN a ELSE step(i, g[i - 1]))
    <3>1. CASE i # 0
      <4>1. i \in 1..N /\ g[i - 1] \in V
        BY <1>1, <3>1
      <4> QED BY <1>3, <4>1
    <3> QED BY <3>1
  <2>2. g = [i \in 0..N |-> IF i = 0 THEN a ELSE G[<<i, g[i - 1]>>]]
    BY <1>5 DEF Unfolds
  <2> QED BY <2>1, <2>2
<1>7. f = [i \in 0..N |-> IF i = 0 THEN a ELSE step(i, f[i - 1])]
  BY <1>6, Zenon
<1> HIDE DEF f
<1>10. f[0] \in V /\ \A i \in 1..N : f[i - 1] \in V => f[i] \in V
  <2>1. f[0] = a
    BY <1>1, <1>7
  <2>2. ASSUME NEW i \in 1..N, f[i - 1] \in V PROVE f[i] \in V
    <3>1. f[i] = step(i, f[i - 1])
      BY <1>1, <1>7
    <3> QED BY <1>2, <2>2, <3>1
  <2> QED BY <1>1, <2>1, <2>2
<1>11. f[N] \in V
  <2>1. \A n \in 0..N : f[n] \in V
    BY <1>1, <1>10, RunStays
  <2> QED BY <1>1, <2>1
<1> QED BY <1>8, <1>11 DEF V

\* date_mover_committees returns bare spans.
LEMMA MoverCommitteesStay ==
  ASSUME NEW spans \in Seq(BareSpan), NEW moves, MovesFit(moves), NEW committeeRows,
         NEW houseSpans \in Seq(BareSpan)
  PROVE  DateMoverCommittees(spans, moves, committeeRows, houseSpans) \in Seq(BareSpan)
<1> DEFINE f == DateMoverCommittees(spans, moves, committeeRows, houseSpans)
<1>1. Len(spans) \in Nat /\ DOMAIN spans = 1..Len(spans) /\ \A i \in DOMAIN spans : spans[i] \in BareSpan
  OBVIOUS
<1>2. f = [i \in 1..Len(spans) |-> IF spans[i].kind = Committee
                                   THEN DatedByMoves(spans[i], moves, committeeRows, houseSpans)
                                   ELSE spans[i]]
  BY <1>1 DEF DateMoverCommittees
<1>3. \A i \in 1..Len(spans) : DatedByMoves(spans[i], moves, committeeRows, houseSpans) \in BareSpan
  BY <1>1, DatedStays
<1>4. f \in [1..Len(spans) -> BareSpan]
  BY <1>1, <1>2, <1>3
<1> HIDE DEF f
<1>5. f \in Seq(BareSpan)
  BY <1>1, <1>4, FunIsSeq
<1> QED BY <1>5 DEF f

-----------------------------------------------------------------------------
(* The roster's clauses, the substitutes and the never-seated rows.         *)

Sources == {WSL, Roster}
Families == [Sources -> Seq(FineSpan)]

FineFits(s) ==
  /\ s.ebasis = OpenEnd <=> s.to = Open
  /\ s.swin # NoDay => s.sbasis = Dated /\ s.from <= s.swin /\ s.swin <= s.to
  /\ s.ewin # NoDay => s.ebasis = Dated /\ s.to # Open /\ s.from <= s.ewin /\ s.ewin <= s.to
  /\ s.from <= s.to /\ s.from < Open /\ s.to <= Open /\ s.swin < Open
  /\ s.from <= LastDay(s.sb)
  /\ s.sbasis = Observed => s.from = FirstDay(s.sb)
  /\ s.ebasis = Observed => s.to = LastDay(s.eb)
  /\ s.swin # NoDay => s.swin <= LastDay(s.sb)
  /\ s.ewin # NoDay => s.to <= LastDay(BienniumOf(s.ewin))

\* FineSpan's membership, spelled out.
LEMMA FineFacts == ASSUME NEW s \in Typed PROVE s \in FineSpan <=> FineFits(s)
<1>1. s \in Span => (s \in FineSpan <=> FineFits(s))
  BY SpanFacts DEF FineSpan, FineFits
<1>2. FineFits(s) => s \in Span
  BY SpanFacts DEF FineFits
<1> QED BY <1>1, <1>2 DEF FineSpan

LEMMA FineIsTyped == ASSUME NEW s \in FineSpan PROVE s \in Typed /\ FineFits(s)
<1>1. s \in Span
  BY DEF FineSpan
<1> QED BY <1>1, SpanIsTyped, FineFacts

\* A clause's window is two ordered days of one biennium.
LEMMA WindowFacts ==
  ASSUME NEW w \in Windows
  PROVE  /\ w.first \in Nat /\ w.last \in Nat /\ w.first < Open /\ w.last < Open
         /\ w.first <= w.last /\ w.edge \in {StartEdge, EndEdge}
         /\ BienniumOf(w.first) = BienniumOf(w.last)
<1>1. /\ w.first \in Days /\ w.last \in Days /\ w.first <= w.last /\ w.edge \in {StartEdge, EndEdge}
      /\ BienniumOf(w.first) = BienniumOf(w.last)
  BY DEF Windows
<1>2. Days = 0..(Open - 1) /\ Open \in Nat
  BY Calendar
<1> QED BY <1>1, <1>2

\* A start moved to its window's near edge keeps the fit: the rules hit a span only
\* when the window starts in its key's biennium or the one before.
LEMMA DateStartStays ==
  ASSUME NEW s \in FineSpan, NEW w \in Windows, StartsWith(s, w) \/ StartsAfter(s, w),
         WellFormed(DateStart(s, w))
  PROVE  DateStart(s, w) \in FineSpan
<1> DEFINE last == Earlier(IF w.election THEN LastDay(s.sb) ELSE w.last, s.to)
           win == IF last # w.first THEN last ELSE NoDay
           t == [s EXCEPT !.from = w.first, !.sbasis = Dated, !.swin = win]
<1>1. s \in Typed /\ FineFits(s)
  BY FineIsTyped
<1>2. s.from \in Nat /\ s.to \in Nat /\ s.sb \in Int /\ Open \in Nat
  BY <1>1, OpenIsNat DEF Typed
<1>3. w.first \in Nat /\ w.last \in Nat /\ w.first < Open /\ w.last < Open
  BY WindowFacts
<1>4. DateStart(s, w) = s \/ (w.first <= s.to /\ DateStart(s, w) = t)
  <2>1. DateStart(s, w) = IF \/ s.sbasis # Observed
                             \/ w.election /\ w.first <= s.from
                             \/ w.first > s.to
                          THEN s ELSE t
    BY Zenon DEF DateStart
  <2> HIDE DEF t
  <2> QED BY <1>2, <1>3, <2>1
<1>5. CASE DateStart(s, w) = s
  BY <1>5
<1>6. CASE w.first <= s.to /\ DateStart(s, w) = t
  <2>1. BienniumOf(w.first) \in Biennia /\ BienniumOf(w.first) <= s.sb
    BY <1>2, <1>3, DayOf DEF StartsWith, StartsAfter, Biennia
  <2>2. w.first <= LastDay(s.sb)
    BY <1>2, <1>3, <2>1, DayOf
  <2>3. LastDay(s.sb) \in Int /\ (w.election => LastDay(s.sb) < Open)
    <3>1. LastDay(s.sb) \in Int
      BY <1>2, Calendar
    <3>2. ASSUME w.election PROVE s.sb \in Biennia
      BY <2>1, <3>2 DEF StartsWith, StartsAfter
    <3>3. ASSUME w.election PROVE LastDay(s.sb) < Open
      BY <3>2, <3>3, Calendar
    <3> QED BY <3>1, <3>3
  <2>4. last \in Int /\ last < Open
    BY <1>2, <1>3, <2>3 DEF Earlier
  <2>10. last <= LastDay(s.sb)
    <3>1. w.last <= LastDay(s.sb)
      BY <1>3, <2>1, WindowFacts, DayOf, <1>2
    <3> QED BY <1>2, <1>3, <2>3, <3>1 DEF Earlier
  <2> HIDE DEF last
  <2>5. win \in Int /\ win < Open
    BY <1>2, <2>4, Bases DEF NoDay
  <2>11. win # NoDay => win <= LastDay(s.sb)
    BY <2>10
  <2> HIDE DEF win
  <2>6. t \in Typed
    BY <1>1, <1>3, <2>5, Bases DEF Typed
  <2>7. /\ t.to = s.to /\ t.ebasis = s.ebasis /\ t.eb = s.eb /\ t.from = w.first /\ t.sb = s.sb
        /\ t.sbasis = Dated /\ t.swin = win /\ t.ewin = s.ewin
    BY <1>1 DEF Typed
  <2>8. WellFormed(t)
    BY <1>6
  <2> HIDE DEF t
  <2>9. FineFits(t)
    BY <1>1, <1>2, <1>3, <1>6, <2>2, <2>5, <2>7, <2>8, <2>11, Bases
    DEF FineFits, WellFormed, StartWindowFits, EndWindowFits
  <2> QED BY <1>6, <2>6, <2>9, FineFacts
<1> QED BY <1>4, <1>5, <1>6

\* An end moved to its window's far edge keeps the fit.
LEMMA DateEndStays ==
  ASSUME NEW s \in FineSpan, NEW w \in Windows, EndsWith(s, w), WellFormed(DateEnd(s, w))
  PROVE  DateEnd(s, w) \in FineSpan
<1> DEFINE to == Earlier(w.last, s.to)
           earliest == Later(w.first, s.from)
           win == IF earliest # to THEN earliest ELSE NoDay
           t == [s EXCEPT !.to = to, !.ebasis = Dated, !.ewin = win]
<1>1. s \in Typed /\ FineFits(s)
  BY FineIsTyped
<1>2. s.from \in Nat /\ s.to \in Nat /\ s.sb \in Int /\ Open \in Nat
  BY <1>1, OpenIsNat DEF Typed
<1>3. w.first \in Nat /\ w.last \in Nat /\ w.first < Open /\ w.last < Open
  BY WindowFacts
<1>4. DateEnd(s, w) = s \/ DateEnd(s, w) = t
  BY DEF DateEnd
<1>5. CASE DateEnd(s, w) = s
  BY <1>5
<1>6. CASE DateEnd(s, w) = t
  <2>1. to \in Nat /\ s.from <= to /\ to < Open
    BY <1>1, <1>2, <1>3 DEF EndsWith, Earlier, FineFits
  <2>2. win \in Int
    BY <1>2, <1>3, Bases DEF Later
  <2>3. win # NoDay => to <= LastDay(BienniumOf(win))
    <3>1. earliest \in Nat /\ w.first <= earliest
      BY <1>2, <1>3 DEF Later
    <3>2. w.first <= LastDay(BienniumOf(earliest))
      BY <1>3, <3>1, DayOf, BienniumDays
    <3>3. BienniumOf(w.last) <= BienniumOf(earliest)
      BY <1>3, <3>1, <3>2, DayOf, WindowFacts
    <3>4. w.last <= LastDay(BienniumOf(earliest))
      BY <1>3, <3>1, <3>3, DayOf
    <3>5. BienniumOf(earliest) \in Int /\ LastDay(BienniumOf(earliest)) \in Int
      BY <3>1, DayOf, BienniumDays
    <3>6. to <= LastDay(BienniumOf(earliest))
      BY <1>2, <1>3, <3>4, <3>5 DEF Earlier
    <3> QED BY <3>6
  <2> HIDE DEF to, win
  <2>6. t \in Typed
    BY <1>1, <2>1, <2>2, Bases DEF Typed
  <2>7. /\ t.to = to /\ t.ebasis = Dated /\ t.eb = s.eb /\ t.from = s.from /\ t.sb = s.sb
        /\ t.sbasis = s.sbasis /\ t.swin = s.swin /\ t.ewin = win
    BY <1>1 DEF Typed
  <2>8. WellFormed(t)
    BY <1>6
  <2> HIDE DEF t
  <2>9. FineFits(t)
    BY <1>1, <1>2, <2>1, <2>3, <2>7, <2>8, Bases
    DEF FineFits, WellFormed, StartWindowFits, EndWindowFits
  <2> QED BY <1>6, <2>6, <2>9, FineFacts
<1> QED BY <1>4, <1>5, <1>6

\* What a window hits is a span of some family that its rule names.
LEMMA HitsFit ==
  ASSUME NEW fams \in Families, NEW w \in Windows, NEW h \in Hits(fams, w)
  PROVE  /\ h[1] \in Sources /\ h[2] \in DOMAIN fams[h[1]]
         /\ w.edge = EndEdge => EndsWith(fams[h[1]][h[2]], w)
         /\ w.edge = StartEdge => StartsWith(fams[h[1]][h[2]], w) \/ StartsAfter(fams[h[1]][h[2]], w)
<1> DEFINE of(f) == {<<f, i>> : i \in {j \in DOMAIN fams[f] : OnWindowSeat(fams[f][j], w)}}
           on == UNION {of(f) : f \in DOMAIN fams}
           with == {x \in on : StartsWith(fams[x[1]][x[2]], w)}
           after == {x \in on : StartsAfter(fams[x[1]][x[2]], w)}
           ends == {x \in on : EndsWith(fams[x[1]][x[2]], w)}
<1>1. Hits(fams, w) = CASE w.edge = EndEdge -> ends
                        [] w.edge = StartEdge /\ ~w.beforeTerm /\ with # {} -> with
                        [] OTHER -> after
  BY Zenon DEF Hits
<1>2. \A x \in on : x[1] \in Sources /\ x[2] \in DOMAIN fams[x[1]]
  BY DEF Families
<1>3. /\ ends \subseteq on /\ with \subseteq on /\ after \subseteq on
      /\ \A x \in ends : EndsWith(fams[x[1]][x[2]], w)
      /\ \A x \in with : StartsWith(fams[x[1]][x[2]], w)
      /\ \A x \in after : StartsAfter(fams[x[1]][x[2]], w)
  OBVIOUS
<1>4. w.edge \in {StartEdge, EndEdge} /\ StartEdge # EndEdge
  BY WindowFacts DEF StartEdge, EndEdge
<1> HIDE DEF on, with, after, ends
<1>5. /\ h \in ends \cup with \cup after
      /\ w.edge = EndEdge => h \in ends
      /\ w.edge = StartEdge => h \in with \cup after
  BY <1>1, <1>4
<1> QED BY <1>2, <1>3, <1>5

\* apply_windows keeps the fit, as far as the constructor accepts its spans.
LEMMA WindowStays ==
  ASSUME NEW fams \in Families, NEW w \in Windows,
         \A f \in Sources : \A s \in Elements(ApplyWindow(fams, w)[f]) : WellFormed(s)
  PROVE  ApplyWindow(fams, w) \in Families
<1> DEFINE hits == Hits(fams, w)
           h == CHOOSE x \in hits : TRUE
           dated(s) == IF w.edge = StartEdge THEN DateStart(s, w) ELSE DateEnd(s, w)
           new == [fams EXCEPT ![h[1]][h[2]] = dated(@)]
<1>1. ApplyWindow(fams, w) = IF Cardinality(hits) # 1 THEN fams ELSE new
  BY Zenon DEF ApplyWindow
<1>2. CASE Cardinality(hits) # 1
  BY <1>1, <1>2
<1>3. CASE Cardinality(hits) = 1
  <2>1. hits # {}
    BY <1>3, FS_EmptySet
  <2>2. h \in hits
    BY <2>1
  <2> HIDE DEF h
  <2>3. /\ h[1] \in Sources /\ h[2] \in DOMAIN fams[h[1]]
        /\ w.edge = EndEdge => EndsWith(fams[h[1]][h[2]], w)
        /\ w.edge = StartEdge => StartsWith(fams[h[1]][h[2]], w) \/ StartsAfter(fams[h[1]][h[2]], w)
    BY <2>2, HitsFit
  <2> DEFINE f == h[1]
             i == h[2]
             s == fams[f][i]
             d == dated(s)
  <2>4. f \in Sources /\ i \in DOMAIN fams[f] /\ fams[f] \in Seq(FineSpan) /\ s \in FineSpan
    BY <2>3 DEF Families
  <2>5. new = [fams EXCEPT ![f] = [fams[f] EXCEPT ![i] = d]]
    BY <2>4 DEF Families
  <2> HIDE DEF new, dated
  <2>6. new[f] = [fams[f] EXCEPT ![i] = d]
    BY <2>4, <2>5 DEF Families
  <2>7. WellFormed(d)
    <3>1. d = new[f][i] /\ i \in DOMAIN new[f]
      BY <2>4, <2>6
    <3>2. d \in Elements(new[f])
      BY <3>1 DEF Elements
    <3>3. new = ApplyWindow(fams, w)
      BY <1>1, <1>3
    <3> QED BY <2>4, <3>2, <3>3
  <2>8. d \in FineSpan
    <3>1. w.edge \in {StartEdge, EndEdge} /\ StartEdge # EndEdge
      BY WindowFacts DEF StartEdge, EndEdge
    <3>2. CASE w.edge = StartEdge
      <4>1. d = DateStart(s, w)
        BY <3>2 DEF dated
      <4>2. StartsWith(s, w) \/ StartsAfter(s, w)
        BY <2>3, <3>2
      <4> HIDE DEF s, d
      <4> QED BY <2>4, <2>7, <4>1, <4>2, DateStartStays
    <3>3. CASE w.edge = EndEdge
      <4>1. d = DateEnd(s, w)
        BY <3>1, <3>3 DEF dated
      <4>2. EndsWith(s, w)
        BY <2>3, <3>3
      <4> HIDE DEF s, d
      <4> QED BY <2>4, <2>7, <4>1, <4>2, DateEndStays
    <3> QED BY <3>1, <3>2, <3>3
  <2> HIDE DEF d
  <2>9. [fams[f] EXCEPT ![i] = d] \in Seq(FineSpan)
    BY <2>4, <2>8
  <2>10. new \in Families
    BY <2>4, <2>5, <2>9 DEF Families
  <2> QED BY <1>1, <1>3, <2>10
<1> QED BY <1>2, <1>3

\* Marking a substitute keeps the fit.
LEMMA SubstituteStays ==
  ASSUME NEW s \in FineSpan
  PROVE  [s EXCEPT !.type = Substitute] \in FineSpan
<1> DEFINE t == [s EXCEPT !.type = Substitute]
<1>1. s \in Typed /\ FineFits(s)
  BY FineIsTyped
<1>2. t \in Typed
  BY <1>1 DEF Typed
<1>3. /\ t.to = s.to /\ t.ebasis = s.ebasis /\ t.eb = s.eb /\ t.from = s.from /\ t.sb = s.sb
      /\ t.sbasis = s.sbasis /\ t.swin = s.swin /\ t.ewin = s.ewin
  BY <1>1 DEF Typed
<1> HIDE DEF t
<1>4. FineFits(t)
  BY <1>1, <1>3 DEF FineFits
<1> QED BY <1>2, <1>4, FineFacts DEF t

\* So does marking every substitute.
LEMMA MembershipsStay ==
  ASSUME NEW fams \in Families, NEW substitutes
  PROVE  ApplyMemberships(fams, substitutes) \in Families
<1> DEFINE new == ApplyMemberships(fams, substitutes)
           row(f) == [i \in DOMAIN fams[f] |-> IF SpanIdentity(f, fams[f][i]) \in substitutes
                                               THEN [fams[f][i] EXCEPT !.type = Substitute]
                                               ELSE fams[f][i]]
<1>1. new = [f \in Sources |-> row(f)]
  BY DEF ApplyMemberships, Families
<1>2. ASSUME NEW f \in Sources PROVE row(f) \in Seq(FineSpan)
  <2>1. /\ fams[f] \in Seq(FineSpan) /\ Len(fams[f]) \in Nat /\ DOMAIN fams[f] = 1..Len(fams[f])
        /\ \A i \in DOMAIN fams[f] : fams[f][i] \in FineSpan
    BY DEF Families
  <2>2. \A i \in DOMAIN fams[f] : [fams[f][i] EXCEPT !.type = Substitute] \in FineSpan
    BY <2>1, SubstituteStays
  <2>3. row(f) \in [1..Len(fams[f]) -> FineSpan]
    BY <2>1, <2>2
  <2> HIDE DEF row
  <2> QED BY <2>1, <2>3, FunIsSeq
<1> HIDE DEF row, new
<1>3. new \in Families
  BY <1>1, <1>2 DEF Families
<1> QED BY <1>3 DEF new

\* So does leaving out the never-seated rows.
LEMMA NeverSeatedStay ==
  ASSUME NEW fams \in Families, NEW entries
  PROVE  WithoutNeverSeated(fams, entries) \in Families
<1> DEFINE new == WithoutNeverSeated(fams, entries)
           P(f) == {i \in DOMAIN fams[f] : ~NeverSat(entries, f, fams[f][i])}
<1>1. new = [f \in Sources |-> Selected(fams[f], P(f))]
  BY DEF WithoutNeverSeated, Families
<1>2. ASSUME NEW f \in Sources PROVE Selected(fams[f], P(f)) \in Seq(FineSpan)
  <2>1. fams[f] \in Seq(FineSpan) /\ P(f) \in SUBSET DOMAIN fams[f]
    BY DEF Families
  <2> HIDE DEF P
  <2> QED BY <2>1, SelectedStays
<1> HIDE DEF P, new
<1>3. new \in Families
  BY <1>1, <1>2 DEF Families
<1> QED BY <1>3 DEF new

-----------------------------------------------------------------------------
(* The build.                                                               *)

\* A narrowed edge still fits its key: a start moves inside the key's biennium only.
LEMMA NarrowedIsFine ==
  ASSUME NEW s \in FineSpan, NEW t \in Span, Narrowing!Narrowed(s, t)
  PROVE  t \in FineSpan
<1>1. s \in Typed /\ FineFits(s) /\ t \in Typed
  BY FineIsTyped, SpanIsTyped
<1>2. /\ s.from \in Nat /\ s.to \in Nat /\ s.swin \in Int /\ s.ewin \in Int
      /\ t.from \in Nat /\ t.to \in Nat /\ t.swin \in Int /\ t.ewin \in Int
      /\ s.sb \in Int /\ LastDay(s.sb) \in Int
  BY <1>1, BienniumDays DEF Typed
<1>3. /\ t.ebasis = OpenEnd <=> t.to = Open
      /\ t.swin # NoDay => t.sbasis = Dated
      /\ t.ewin # NoDay => t.ebasis = Dated /\ t.to # Open /\ t.ewin <= t.to
  BY <1>1, SpanFacts
<1>4. CASE StartEdgeNarrowed(s, t)
  <2>1. /\ t.swin = NoDay /\ t.from <= LastDay(t.sb) /\ t.to = s.to /\ t.ebasis = s.ebasis
        /\ t.sb = s.sb /\ t.eb = s.eb /\ t.sbasis = Derived
    BY <1>2, <1>3, <1>4, Bases DEF StartEdgeNarrowed, InBiennium
  <2>2. ASSUME t.ewin # NoDay PROVE t.to <= LastDay(BienniumOf(t.ewin))
    <3>1. /\ ValidToEarliest(t) = t.ewin /\ t.ewin \in Nat
          /\ ValidToEarliest(s) = IF s.ewin # NoDay THEN s.ewin ELSE s.to
      BY <1>1, <1>2, <1>3, <2>1, <2>2, SpanFacts DEF ValidToEarliest
    <3>2. /\ BienniumOf(t.ewin) \in Int /\ LastDay(BienniumOf(t.ewin)) \in Int
          /\ t.ewin <= LastDay(BienniumOf(t.ewin))
      BY <3>1, DayOf, BienniumDays
    <3>3. ValidToEarliest(s) <= t.ewin
      BY <1>2, <1>4, <3>1 DEF StartEdgeNarrowed, Later
    <3>4. CASE s.ewin = NoDay
      BY <1>2, <2>1, <3>1, <3>2, <3>3, <3>4
    <3>5. CASE s.ewin # NoDay
      <4>1. s.ewin \in Nat /\ s.ewin <= t.ewin /\ s.to <= LastDay(BienniumOf(s.ewin))
        BY <1>1, <1>2, <3>1, <3>3, <3>5 DEF FineFits
      <4>2. BienniumOf(s.ewin) \in Int /\ LastDay(BienniumOf(s.ewin)) \in Int
        BY <4>1, DayOf, BienniumDays
      <4>3. BienniumOf(s.ewin) <= BienniumOf(t.ewin)
        BY <1>2, <3>2, <4>1, DayOf
      <4>4. LastDay(BienniumOf(s.ewin)) <= LastDay(BienniumOf(t.ewin))
        BY <3>2, <4>2, <4>3, Calendar
      <4> QED BY <1>2, <2>1, <3>2, <4>1, <4>2, <4>4
    <3> QED BY <3>4, <3>5
  <2> QED BY <1>1, <2>1, <2>2, Bases DEF FineSpan, FineFits
<1>5. CASE EndEdgeNarrowed(s, t)
  <2>1. /\ t.ewin = NoDay /\ t.from = s.from /\ t.sbasis = s.sbasis /\ t.ebasis = Derived
        /\ t.sb = s.sb /\ t.eb = s.eb
    BY <1>3, <1>5, Bases DEF EndEdgeNarrowed
  <2>2. ASSUME t.swin # NoDay PROVE t.swin <= LastDay(t.sb)
    <3>1. /\ ValidFromLatest(t) = t.swin
          /\ ValidFromLatest(s) = IF s.swin # NoDay THEN s.swin ELSE s.from
      BY <1>3, <2>1, <2>2 DEF ValidFromLatest
    <3>2. t.swin <= ValidFromLatest(s)
      BY <1>2, <1>5, <3>1 DEF EndEdgeNarrowed, Earlier
    <3> QED BY <1>1, <1>2, <2>1, <3>1, <3>2 DEF FineFits
  <2> QED BY <1>1, <2>1, <2>2, Bases DEF FineSpan, FineFits
<1> QED BY <1>4, <1>5, NarrowedEdges

\* So does a step of the clip, which keeps the list's length.
LEMMA NarrowingStaysFine ==
  ASSUME NEW spans \in Seq(FineSpan), NEW new, OneNarrowed(spans, new)
  PROVE  new \in Seq(FineSpan) /\ Len(new) = Len(spans)
<1>1. CASE new = spans
  BY <1>1
<1>2. ASSUME NEW k \in DOMAIN spans, NEW t \in Span, Narrowing!Narrowed(spans[k], t),
             new = [spans EXCEPT ![k] = t]
      PROVE  new \in Seq(FineSpan) /\ Len(new) = Len(spans)
  <2>1. t \in FineSpan
    BY <1>2, NarrowedIsFine
  <2> QED BY <1>2, <2>1
<1> QED BY <1>1, <1>2 DEF OneNarrowed

\* The judged input is one the readers could have given.
LEMMA JudgedFits ==
  ASSUME NEW in, InputFits(in)
  PROVE  InputFits(WithoutNonLegislators(WithoutFutureBienniums(in)))
<1> DEFINE early == WithoutFutureBienniums(in)
           out == WithoutNonLegislators(early)
<1>1. /\ DOMAIN early = DOMAIN in
      /\ early.sponsors \subseteq in.sponsors /\ early.committees \subseteq in.committees
      /\ early.current = in.current /\ early.ballots = in.ballots /\ early.events = in.events
      /\ early.joined = in.joined /\ early.minted = in.minted /\ early.windows = in.windows
  BY DEF WithoutFutureBienniums, InputFits, InputFields
<1>2. InputFields \subseteq DOMAIN early
  BY <1>1 DEF InputFits
<1> HIDE DEF early
<1>3. /\ DOMAIN out = DOMAIN early
      /\ out.sponsors = early.sponsors /\ out.committees \subseteq early.committees
      /\ out.current = early.current /\ out.ballots = early.ballots /\ out.events = early.events
      /\ out.joined = early.joined /\ out.minted = early.minted /\ out.windows = early.windows
  BY <1>2 DEF WithoutNonLegislators, InputFields
<1> HIDE DEF out
<1>4. out.sponsors \subseteq in.sponsors /\ out.committees \subseteq in.committees
  BY <1>1, <1>3
<1>5. IsFiniteSet(out.sponsors) /\ IsFiniteSet(out.committees)
  BY <1>4, FS_Subset DEF InputFits
<1>6. InputFits(out)
  BY <1>1, <1>3, <1>4, <1>5 DEF InputFits
<1> QED BY <1>6 DEF out, early

\* What is left after a clause is an input again.
LEMMA NextClauseFits ==
  ASSUME NEW in, InputFits(in), in.windows # <<>>
  PROVE  InputFits([in EXCEPT !.windows = Tail(@)]) /\ Head(in.windows) \in Windows
<1> DEFINE out == [in EXCEPT !.windows = Tail(@)]
<1>1. in.windows \in Seq(Windows)
  BY DEF InputFits
<1>2. Tail(in.windows) \in Seq(Windows) /\ Head(in.windows) \in Windows
  BY <1>1
<1>3. /\ DOMAIN out = DOMAIN in /\ out.windows = Tail(in.windows)
      /\ out.sponsors = in.sponsors /\ out.committees = in.committees
      /\ out.current = in.current /\ out.ballots = in.ballots /\ out.events = in.events
      /\ out.joined = in.joined /\ out.minted = in.minted
  BY DEF InputFits, InputFields
<1> HIDE DEF out
<1>4. InputFits(out)
  BY <1>2, <1>3 DEF InputFits
<1> QED BY <1>2, <1>4 DEF out

\* The overlays' events are the input's.
LEMMA EventsFit ==
  ASSUME InputFits(input)
  PROVE  WSLEvents \in Seq(Events) /\ RosterEvents \in Seq(Events)
<1>1. input.events \in Seq(Events)
  BY DEF InputFits
<1>2. RosterPositions \in SUBSET DOMAIN input.events
  BY DEF RosterPositions
<1> QED BY <1>1, <1>2, SelectedStays DEF WSLEvents, RosterEvents

\* The House rosters are sponsor rows and the positions those of the ballot.
LEMMA BuildReads ==
  ASSUME InputFits(input)
  PROVE  /\ \A b \in Biennia : /\ HouseRosters[b] \subseteq input.sponsors
                               /\ \A c \in Ballots[b] : c.pos \in Positions
         /\ Readable(HouseRosters, Ballots)
<1> SUFFICES ASSUME NEW b \in Biennia
             PROVE  /\ HouseRosters[b] \subseteq input.sponsors
                    /\ \A c \in Ballots[b] : c.pos \in Positions
                    /\ Rows(HouseRosters[b])
  BY DEF Readable
<1>1. HouseRosters[b] \subseteq input.sponsors
  BY DEF HouseRosters, HouseRoster, RowsOf
<1>2. Ballots[b] \subseteq input.ballots
  BY DEF Ballots, MergePositions, TopVoteWinner
<1>3. IsFiniteSet(HouseRosters[b])
  BY <1>1, FS_Subset DEF InputFits
<1>4. \A r \in input.sponsors : r.ld \in Nat
  BY DEF InputFits, SponsorRows
<1> QED BY <1>1, <1>2, <1>3, <1>4 DEF InputFits, Rows

\* The overlay of a builder's observations, in key order.
LEMMA OverlaidStay ==
  ASSUME NEW obs \in SUBSET Observations, IsFiniteSet(obs), NEW current \in Biennia,
         NEW events \in Seq(Events), NEW owned \in SUBSET Kinds, NEW movers,
         NEW context \in Seq(BareSpan)
  PROVE  SortSpans(ApplyOperatorEvents(BuildTenureSpans(obs, current), events, current, owned,
                                       movers, context).spans) \in Seq(BareSpan)
<1>1. BuildTenureSpans(obs, current) \in Seq(BareSpan)
  BY BuildStays
<1> DEFINE out == ApplyOperatorEvents(BuildTenureSpans(obs, current), events, current, owned,
                                      movers, context).spans
<1>2. out \in Seq(BareSpan)
  BY <1>1, OverlayStays
<1> HIDE DEF out
<1>3. SortSpans(out) \in Seq(BareSpan)
  BY <1>2, BareSubTyped, SortSpansStays
<1> QED BY <1>3 DEF out

\* Everything the build has made so far fits: what it read, each builder's spans, the
\* families, and the clip's list, which is as long as the families it was handed.
Built == [committee : Seq(BareSpan), house : Seq(BareSpan), sponsor : Seq(BareSpan)]
BuildFits ==
  /\ InputFits(input)
  /\ built \in Built
  /\ families \in Families
  /\ work \in Seq(FineSpan)
  /\ Held(work, pending)
ClipBegun ==
  /\ axis = "idle" => work = <<>>
  /\ stage \notin {"clip", "published"} => axis = "idle"
  /\ stage = "clip" /\ axis # "idle" => Len(work) = Len(families[WSL]) + Len(families[Roster])
BuildInv == BuildFits /\ ClipBegun

\* Keeping a builder's spans.
LEMMA KeptStays ==
  ASSUME built \in Built, NEW spans \in Seq(BareSpan)
  PROVE  /\ [built EXCEPT !["committee"] = spans] \in Built
         /\ [built EXCEPT !["house"] = spans] \in Built
         /\ [built EXCEPT !["sponsor"] = spans] \in Built
         /\ built.committee \in Seq(BareSpan) /\ built.house \in Seq(BareSpan)
         /\ built.sponsor \in Seq(BareSpan)
<1> DEFINE S == Seq(BareSpan)
<1> HIDE DEF S
<1>1. built \in [committee : S, house : S, sponsor : S] /\ spans \in S
  BY DEF Built, S
<1>2. /\ [built EXCEPT !["committee"] = spans] \in [committee : S, house : S, sponsor : S]
      /\ [built EXCEPT !["house"] = spans] \in [committee : S, house : S, sponsor : S]
      /\ [built EXCEPT !["sponsor"] = spans] \in [committee : S, house : S, sponsor : S]
      /\ built.committee \in S /\ built.house \in S /\ built.sponsor \in S
  BY <1>1
<1> QED BY <1>2 DEF Built, S

\* The committee builder's spans fit.
LEMMA CommitteesFit ==
  ASSUME BuildInv, BuildCommittees
  PROVE  built' \in Built /\ stage' = "house" /\ UNCHANGED <<input, families, clipVars>>
<1> DEFINE obs == CommitteeObservations(input.committees)
           spans == SortSpans(ApplyOperatorEvents(BuildTenureSpans(obs, input.current),
                                WSLEvents, input.current, {Committee}, NoMovers, NoSpans).spans)
<1>1. /\ built' = [built EXCEPT !["committee"] = spans] /\ stage' = "house"
      /\ UNCHANGED <<input, families, clipVars>>
  BY Zenon DEF BuildCommittees, Keep
<1>2. InputFits(input) /\ built \in Built
  BY DEF BuildInv, BuildFits
<1>3. obs \in SUBSET Observations /\ IsFiniteSet(obs)
  BY <1>2, CommitteesObserved DEF InputFits
<1>4. WSLEvents \in Seq(Events) /\ input.current \in Biennia /\ {Committee} \in SUBSET Kinds
      /\ NoSpans \in Seq(BareSpan)
  BY <1>2, EventsFit, KindsAre DEF InputFits, NoSpans
<1> HIDE DEF obs
<1>5. spans \in Seq(BareSpan)
  BY <1>3, <1>4, OverlaidStay
<1> HIDE DEF spans
<1> QED BY <1>1, <1>2, <1>5, KeptStays

\* The House builder's spans fit, the carried seats included.
LEMMA HouseFits ==
  ASSUME BuildInv, BuildHouse
  PROVE  built' \in Built /\ stage' = "movers" /\ UNCHANGED <<input, families, clipVars>>
<1> DEFINE seen == BackchainHouse(HouseRosters, Ballots).obs
           moves == ChamberMovesOf(input.sponsors, WSLEvents, Ballots)
           carried == CarryMoverHouseTenures(seen, moves, WSLEvents)
           spans == SortSpans(ApplyOperatorEvents(BuildTenureSpans(carried.obs, input.current),
                                WSLEvents \o carried.implied, input.current, {House},
                                MoversIn, built.committee).spans)
<1>1. /\ built' = [built EXCEPT !["house"] = spans] /\ stage' = "movers"
      /\ UNCHANGED <<input, families, clipVars>>
  BY Zenon DEF BuildHouse, Keep
<1>2. InputFits(input) /\ built \in Built
  BY DEF BuildInv, BuildFits
<1>3. /\ input.sponsors \in SUBSET SponsorRows /\ IsFiniteSet(input.sponsors)
      /\ input.current \in Biennia
  BY <1>2 DEF InputFits
<1>4. WSLEvents \in Seq(Events) /\ {House} \in SUBSET Kinds /\ built.committee \in Seq(BareSpan)
  <2>1. <<>> \in Seq(BareSpan)
    OBVIOUS
  <2> QED BY <1>2, <2>1, EventsFit, KindsAre, KeptStays
<1>5. /\ \A b \in Biennia : /\ HouseRosters[b] \subseteq input.sponsors
                            /\ \A c \in Ballots[b] : c.pos \in Positions
  BY <1>2, BuildReads
<1>6. seen \in SUBSET Observations /\ IsFiniteSet(seen)
  BY <1>3, <1>5, HouseObserved
<1>7. MovesFit(moves)
  BY <1>3, <1>4, <1>5, MoversFit
<1> HIDE DEF seen, moves
<1>8. carried \in Carriages
  BY <1>4, <1>6, <1>7, CarriedStay
<1> HIDE DEF carried
<1>9. carried.obs \in SUBSET Observations /\ IsFiniteSet(carried.obs) /\ carried.implied \in Seq(Events)
  BY <1>8 DEF Carriages
<1>10. WSLEvents \o carried.implied \in Seq(Events)
  BY <1>4, <1>9
<1>11. spans \in Seq(BareSpan)
  BY <1>3, <1>4, <1>9, <1>10, OverlaidStay
<1> HIDE DEF spans
<1> QED BY <1>1, <1>2, <1>11, KeptStays

\* The committees still fit once the movers' are dated.
LEMMA MoversDated ==
  ASSUME BuildInv, DateCommittees
  PROVE  built' \in Built /\ stage' = "sponsor" /\ UNCHANGED <<input, families, clipVars>>
<1> DEFINE moves == ChamberMovesOf(input.sponsors, WSLEvents, NoMovers)
           spans == DateMoverCommittees(built.committee, moves, input.committees, built.house)
<1>1. /\ built' = [built EXCEPT !["committee"] = spans] /\ stage' = "sponsor"
      /\ UNCHANGED <<input, families, clipVars>>
  BY DEF DateCommittees
<1>2. InputFits(input) /\ built \in Built
  BY DEF BuildInv, BuildFits
<1>3. input.sponsors \in SUBSET SponsorRows /\ IsFiniteSet(input.sponsors)
  BY <1>2 DEF InputFits
<1>4. WSLEvents \in Seq(Events) /\ built.committee \in Seq(BareSpan) /\ built.house \in Seq(BareSpan)
  <2>1. <<>> \in Seq(BareSpan)
    OBVIOUS
  <2> QED BY <1>2, <2>1, EventsFit, KeptStays
<1>5. \A b \in Biennia : \A c \in NoMovers[b] : c.pos \in Positions
  BY DEF NoMovers
<1>6. MovesFit(moves)
  BY <1>3, <1>4, <1>5, MoversFit
<1> HIDE DEF moves
<1>7. spans \in Seq(BareSpan)
  BY <1>4, <1>6, MoverCommitteesStay
<1> HIDE DEF spans
<1> QED BY <1>1, <1>2, <1>7, KeptStays

\* The sponsor builder's spans fit.
LEMMA SponsorsFit ==
  ASSUME BuildInv, BuildSponsors
  PROVE  built' \in Built /\ stage' = "roster" /\ UNCHANGED <<input, families, clipVars>>
<1> DEFINE rows == SponsorObservations(input.sponsors, SponsorExclusions)
           obs == rows \cup input.joined
           spans == SortSpans(ApplyOperatorEvents(BuildTenureSpans(obs, input.current),
                                WSLEvents, input.current, {Party, Senate}, NoMovers,
                                built.committee \o built.house).spans)
<1>1. /\ built' = [built EXCEPT !["sponsor"] = spans] /\ stage' = "roster"
      /\ UNCHANGED <<input, families, clipVars>>
  BY Zenon DEF BuildSponsors, Keep
<1>2. InputFits(input) /\ built \in Built
  BY DEF BuildInv, BuildFits
<1>3. /\ input.sponsors \in SUBSET SponsorRows /\ IsFiniteSet(input.sponsors)
      /\ input.joined \subseteq Observations /\ IsFiniteSet(input.joined)
      /\ input.current \in Biennia
  BY <1>2 DEF InputFits, Listings
<1>4. /\ WSLEvents \in Seq(Events) /\ {Party, Senate} \in SUBSET Kinds
      /\ built.committee \in Seq(BareSpan) /\ built.house \in Seq(BareSpan)
  <2>1. <<>> \in Seq(BareSpan)
    OBVIOUS
  <2> QED BY <1>2, <2>1, EventsFit, KindsAre, KeptStays
<1>5. rows \in SUBSET Observations /\ IsFiniteSet(rows)
  BY <1>3, SponsorsObserved
<1> HIDE DEF rows
<1>6. obs \in SUBSET Observations /\ IsFiniteSet(obs)
  BY <1>3, <1>5, FS_Union
<1> HIDE DEF obs
<1>7. built.committee \o built.house \in Seq(BareSpan)
  BY <1>4
<1>8. spans \in Seq(BareSpan)
  BY <1>3, <1>4, <1>6, <1>7, OverlaidStay
<1> HIDE DEF spans
<1> QED BY <1>1, <1>2, <1>8, KeptStays

\* Both families fit.
LEMMA RosterFits ==
  ASSUME BuildInv, BuildRoster
  PROVE  /\ families' \in Families /\ stage' \in {"refused", "windows"}
         /\ UNCHANGED <<input, built, clipVars>>
<1> DEFINE wsl == SortSpans(built.committee \o built.house \o built.sponsor)
           roster == SortSpans(ApplyOperatorEvents(BuildTenureSpans(input.minted, input.current),
                                 RosterEvents, input.current, {Party, Senate}, NoMovers, wsl).spans)
<1>1. /\ families' = [families EXCEPT ![WSL] = wsl, ![Roster] = roster]
      /\ stage' \in {"refused", "windows"} /\ UNCHANGED <<input, built, clipVars>>
  BY DEF BuildRoster
<1>2. InputFits(input) /\ built \in Built /\ families \in Families
  BY DEF BuildInv, BuildFits
<1>3. /\ input.minted \in SUBSET Observations /\ IsFiniteSet(input.minted)
      /\ input.current \in Biennia
  BY <1>2 DEF InputFits, Listings
<1>4. /\ RosterEvents \in Seq(Events) /\ {Party, Senate} \in SUBSET Kinds
      /\ built.committee \in Seq(BareSpan) /\ built.house \in Seq(BareSpan)
      /\ built.sponsor \in Seq(BareSpan)
  <2>1. <<>> \in Seq(BareSpan)
    OBVIOUS
  <2> QED BY <1>2, <2>1, EventsFit, KindsAre, KeptStays
<1>5. wsl \in Seq(BareSpan)
  <2>1. built.committee \o built.house \o built.sponsor \in Seq(BareSpan)
    BY <1>4
  <2> QED BY <2>1, BareSubTyped, SortSpansStays
<1> HIDE DEF wsl
<1>6. roster \in Seq(BareSpan)
  BY <1>3, <1>4, <1>5, OverlaidStay
<1> HIDE DEF roster
<1>7. wsl \in Seq(FineSpan) /\ roster \in Seq(FineSpan)
  BY <1>5, <1>6 DEF BareSpan
<1>8. families' \in Families
  BY <1>1, <1>2, <1>7 DEF Families, Sources
<1> QED BY <1>1, <1>8

\* A clause that does not abort the build leaves families that fit.
LEMMA EdgeFits ==
  ASSUME BuildInv, DateEdge
  PROVE  /\ families' \in Families /\ InputFits(input') /\ stage = "windows"
         /\ stage' \in {"windows", "aborted"} /\ UNCHANGED <<built, clipVars>>
<1> DEFINE dated == ApplyWindow(families, Head(input.windows))
           fits == \A f \in DOMAIN dated : \A s \in Elements(dated[f]) : WellFormed(s)
<1>1. /\ input.windows # <<>> /\ input' = [input EXCEPT !.windows = Tail(@)]
      /\ IF fits THEN families' = dated /\ stage' = stage
         ELSE UNCHANGED families /\ stage' = "aborted"
      /\ stage = "windows" /\ UNCHANGED <<built, clipVars>>
  BY DEF DateEdge
<1>2. InputFits(input) /\ families \in Families
  BY DEF BuildInv, BuildFits
<1>3. InputFits(input') /\ Head(input.windows) \in Windows
  BY <1>1, <1>2, NextClauseFits
<1>4. ASSUME fits PROVE dated \in Families
  <2>1. DOMAIN dated = Sources
    BY <1>2 DEF ApplyWindow, Families
  <2> HIDE DEF dated
  <2>2. \A f \in Sources : \A s \in Elements(dated[f]) : WellFormed(s)
    BY <1>4, <2>1
  <2> QED BY <1>2, <1>3, <2>2, WindowStays DEF dated
<1> HIDE DEF dated, fits
<1> QED BY <1>1, <1>2, <1>3, <1>4

\* The curated families fit.
LEMMA CurateFits ==
  ASSUME BuildInv, Curate
  PROVE  /\ families' \in Families /\ stage = "windows" /\ UNCHANGED <<input, built, clipVars>>
<1>1. /\ families' = WithoutNeverSeated(ApplyMemberships(families, input.substitutes),
                                        input.neverSeated)
      /\ stage = "windows" /\ UNCHANGED <<input, built, clipVars>>
  BY DEF Curate
<1>2. families \in Families
  BY DEF BuildInv, BuildFits
<1>3. ApplyMemberships(families, input.substitutes) \in Families
  BY <1>2, MembershipsStay
<1>4. families' \in Families
  BY <1>1, <1>3, NeverSeatedStay
<1> QED BY <1>1, <1>4

LEMMA FineIsSpan == Seq(FineSpan) \subseteq Seq(Span)
<1>1. FineSpan \subseteq Span
  BY DEF FineSpan
<1> QED BY <1>1

\* The clip begins on the two families, end to end.
LEMMA BeginFits ==
  ASSUME BuildInv, BeginClip
  PROVE  /\ work = <<>> /\ work' \in Seq(FineSpan) /\ Held(work', pending') /\ axis' # "idle"
         /\ Len(work') = Len(families[WSL]) + Len(families[Roster])
         /\ stage = "clip" /\ UNCHANGED buildVars
<1>1. /\ work' = families[WSL] \o families[Roster] /\ axis' = "members"
      /\ pending' = MovePairs(families[WSL] \o families[Roster])
      /\ axis = "idle" /\ stage = "clip" /\ UNCHANGED buildVars
  BY DEF BeginClip, StartClip
<1>2. families[WSL] \in Seq(FineSpan) /\ families[Roster] \in Seq(FineSpan)
  BY DEF BuildInv, BuildFits, Families, Sources
<1>3. work' \in Seq(FineSpan) /\ Len(work') = Len(families[WSL]) + Len(families[Roster])
  BY <1>1, <1>2
<1>4. Held(work', pending')
  BY <1>1, MovePairsHeld
<1>5. work = <<>>
  BY <1>1 DEF BuildInv, ClipBegun
<1> QED BY <1>1, <1>3, <1>4, <1>5

\* A step of the clip narrows one span of the list at most.
LEMMA ClipFits ==
  ASSUME BuildInv, Clip
  PROVE  /\ OneNarrowed(work, work') /\ work' \in Seq(FineSpan) /\ Held(work', pending')
         /\ Len(work') = Len(work) /\ axis # "idle" /\ axis' # "idle"
         /\ stage = "clip" /\ UNCHANGED buildVars
<1>1. ClipNext /\ stage = "clip" /\ UNCHANGED buildVars
  BY DEF Clip
<1>2. work \in Seq(FineSpan) /\ Held(work, pending)
  BY DEF BuildInv, BuildFits
<1>3. ClipTypeOK
  BY <1>2, FineIsSpan DEF ClipTypeOK, Held
<1>4. OneNarrowed(work, work') /\ ClipTypeOK'
  BY <1>1, <1>3, ClipStep
<1>5. work' \in Seq(FineSpan) /\ Len(work') = Len(work)
  BY <1>2, <1>4, NarrowingStaysFine
<1>6. Held(work', pending')
  BY <1>4 DEF ClipTypeOK, Held
<1>7. axis # "idle" /\ axis' # "idle"
  BY <1>1 DEF ClipNext, ClipMove, TurnToSeats, ClipPair, FinishClip
<1> QED BY <1>1, <1>4, <1>5, <1>6, <1>7

\* Publishing cuts the clip's list where the families met.
LEMMA PublishFits ==
  ASSUME BuildInv, Publish
  PROVE  /\ families' \in Families /\ stage' = "published" /\ UNCHANGED <<input, built, clipVars>>
<1> DEFINE n == Len(families[WSL])
           first == SubSeq(work, 1, n)
           rest == SubSeq(work, n + 1, Len(work))
<1>1. /\ families' = [f \in Sources |-> IF f = WSL THEN first ELSE rest]
      /\ stage' = "published" /\ UNCHANGED <<input, built, clipVars>>
      /\ stage = "clip" /\ axis = "clipped"
  BY DEF Publish, Sources
<1>2. work \in Seq(FineSpan) /\ families[WSL] \in Seq(FineSpan) /\ families[Roster] \in Seq(FineSpan)
  BY DEF BuildInv, BuildFits, Families, Sources
<1>3. Len(work) = n + Len(families[Roster])
  BY <1>1 DEF BuildInv, ClipBegun
<1>4. first \in Seq(FineSpan) /\ rest \in Seq(FineSpan)
  <2>1. n \in Nat /\ Len(families[Roster]) \in Nat
    BY <1>2
  <2> HIDE DEF n
  <2>2. \A i \in 1..n : i \in 1..Len(work)
    BY <1>3, <2>1
  <2>3. \A i \in (n + 1)..Len(work) : i \in 1..Len(work)
    BY <1>3, <2>1
  <2> QED BY <1>2, <1>3, <2>1, <2>2, <2>3
<1> HIDE DEF first, rest
<1>5. families' \in Families
  BY <1>1, <1>4 DEF Families
<1> QED BY <1>1, <1>5

\* The invariant holds at the start.
LEMMA BuildBegins == Init => BuildInv
<1> SUFFICES ASSUME Init PROVE BuildInv
  OBVIOUS
<1>1. InputFits(input)
  BY InputAssumption DEF Init
<1>2. <<>> \in Seq(BareSpan) /\ <<>> \in Seq(FineSpan)
  OBVIOUS
<1>3. built \in Built
  BY <1>2 DEF Init, Built, NoSpans
<1>4. families \in Families
  BY <1>2 DEF Init, Families, Sources, NoSpans
<1>5. work \in Seq(FineSpan) /\ Held(work, pending) /\ work = <<>> /\ axis = "idle"
  BY <1>2 DEF Init, NoSpans, Held
<1> QED BY <1>1, <1>3, <1>4, <1>5 DEF BuildInv, BuildFits, ClipBegun

\* A step of the build keeps the invariant, and the clip's list changes only by narrowing.
LEMMA BuildStep ==
  ASSUME BuildInv, [Next]_vars
  PROVE  /\ BuildInv'
         /\ \/ work' = work
            \/ work = <<>> /\ work' \in Seq(FineSpan)
            \/ OneNarrowed(work, work')
<1> USE DEF BuildInv, BuildFits, ClipBegun
<1>1. CASE JudgeRows
  <2>1. /\ input' = WithoutNonLegislators(WithoutFutureBienniums(input)) /\ stage = "judge"
        /\ stage' \in {"refused", "committee"} /\ UNCHANGED <<built, families, clipVars>>
    BY <1>1 DEF JudgeRows
  <2>2. InputFits(input')
    BY <2>1, JudgedFits
  <2> QED BY <2>1, <2>2 DEF clipVars
<1>2. CASE BuildCommittees
  <2>1. stage = "committee"
    BY <1>2 DEF BuildCommittees
  <2> QED BY <1>2, <2>1, CommitteesFit DEF clipVars
<1>3. CASE RefuseHouse
  BY <1>3 DEF RefuseHouse, clipVars
<1>4. CASE BuildHouse
  <2>1. stage = "house"
    BY <1>4 DEF BuildHouse
  <2> QED BY <1>4, <2>1, HouseFits DEF clipVars
<1>5. CASE DateCommittees
  <2>1. stage = "movers"
    BY <1>5 DEF DateCommittees
  <2> QED BY <1>5, <2>1, MoversDated DEF clipVars
<1>6. CASE BuildSponsors
  <2>1. stage = "sponsor"
    BY <1>6 DEF BuildSponsors
  <2> QED BY <1>6, <2>1, SponsorsFit DEF clipVars
<1>7. CASE BuildRoster
  <2>1. stage = "roster"
    BY <1>7 DEF BuildRoster
  <2> QED BY <1>7, <2>1, RosterFits DEF clipVars
<1>8. CASE DateEdge
  BY <1>8, EdgeFits DEF clipVars
<1>9. CASE Curate
  BY <1>9, CurateFits DEF clipVars
<1>10. CASE BeginClip
  BY <1>10, BeginFits DEF buildVars
<1>11. CASE Clip
  BY <1>11, ClipFits DEF buildVars
<1>12. CASE Publish
  BY <1>12, PublishFits DEF clipVars
<1>13. CASE UNCHANGED vars
  BY <1>13 DEF vars, buildVars, clipVars
<1> QED BY <1>1, <1>2, <1>3, <1>4, <1>5, <1>6, <1>7, <1>8, <1>9, <1>10, <1>11, <1>12, <1>13 DEF Next

\* Whatever rows, ballots, events and clauses the readers give, whatever the calendar, every
\* stage of the build holds lists of spans the constructor accepts, each fitting its key.
THEOREM BuildTypeCorrect == Spec => []BuildInv
<1>1. BuildInv /\ [Next]_vars => BuildInv'
  BY BuildStep
<1> QED BY BuildBegins, <1>1, PTL DEF Spec

\* No tenure of a family, and none under the clip, starts after the biennium its key names,
\* has an interval out of order or an observed edge off its biennium, for any rows, ballots,
\* events, clauses and calendar (dbt/tests/assignments_start_in_key_biennium.sql,
\* assignments_boundary_intervals.sql).
THEOREM TenuresFitTheirKeys == Spec => []BoundariesAgree
<1>1. BuildInv => BoundariesAgree
  <2> SUFFICES ASSUME BuildInv PROVE BoundariesAgree
    OBVIOUS
  <2>1. /\ families[WSL] \in Seq(FineSpan) /\ families[Roster] \in Seq(FineSpan)
        /\ work \in Seq(FineSpan)
    BY DEF BuildInv, BuildFits, Families, Sources
  <2>2. \A s \in AllSpans \cup Elements(work) : s \in FineSpan
    BY <2>1, ElementsOf DEF AllSpans
  <2> QED BY <2>2, FineAgrees DEF BoundariesAgree
<1> QED BY <1>1, BuildTypeCorrect, PTL

\* The build hands the clip one list of spans and from then on only narrows it, a chamber
\* tenure's edge at a time and a start never out of its key's biennium
\* (clip_seat_families, clip_seat_counterparts).
THEOREM BuildNarrowsOnly == Spec => NarrowsOnly
<1>1. Init => Narrowing!Init
  <2>1. Init => work \in Seq(Span)
    BY DEF Init, NoSpans
  <2> QED BY <2>1, SameSpans DEF Narrowing!Init
<1>2. BuildInv /\ [Next]_vars => [Narrowing!Load \/ Narrowing!Narrow]_work
  <2> SUFFICES ASSUME BuildInv, [Next]_vars
               PROVE  work' = work \/ Narrowing!Load \/ Narrowing!Narrow
    OBVIOUS
  <2>1. CASE work' = work
    BY <2>1
  <2>2. CASE work = <<>> /\ work' \in Seq(FineSpan)
    BY <2>2, FineIsSpan, SameSpans DEF Narrowing!Load
  <2>3. ASSUME NEW k \in DOMAIN work, NEW t \in Span, Narrowing!Narrowed(work[k], t),
               work' = [work EXCEPT ![k] = t]
        PROVE  Narrowing!Narrow
    <3>1. work \in Seq(FineSpan)
      BY DEF BuildInv, BuildFits
    <3>2. work'[k] = t
      BY <2>3, <3>1
    <3> QED BY <2>3, <3>2 DEF Narrowing!Narrow
  <2> QED BY <2>1, <2>2, <2>3, BuildStep DEF OneNarrowed
<1> QED BY <1>1, <1>2, BuildTypeCorrect, PTL DEF Spec, NarrowsOnly, Narrowing!Spec

\* Below the ballot nobody guesses: for any rows, any ballots, any maps and any number of
\* hops, one position names two members in a biennium only when two ballots do, no seed
\* travels further than its hops and none crosses a new map (build_house_seat_observations,
\* backchain_house_observations).
THEOREM SeatsAreNotGuessed == Spec => []SeatsNotGuessed
<1>1. InputFits(input) => SeatsNotGuessed
  <2> SUFFICES ASSUME InputFits(input) PROVE SeatsNotGuessed
    OBVIOUS
  <2> DEFINE chain == BackchainHouse(HouseRosters, Ballots)
  <2>1. ChainInv(chain, 0)
    BY BuildReads, ChainHolds
  <2>2. NoGuess(chain) /\ Within(chain)
    BY <2>1 DEF ChainInv
  <2>3. SeatsNotGuessed <=> (stage = "house" => NoGuess(chain) /\ Within(chain))
    BY Zenon DEF SeatsNotGuessed, NoGuess, Within
  <2> QED BY <2>2, <2>3
<1>2. BuildInv => InputFits(input)
  BY DEF BuildInv, BuildFits
<1> QED BY <1>1, <1>2, BuildTypeCorrect, PTL

-----------------------------------------------------------------------------
(* Overlaps are reported.                                                   *)

\* A tenure that may have started no earlier than it ended was certainly held on no day; two
\* are cleared when one is blank or ends no later than the other may have started.
Blank(s) == ValidFromLatest(s) = s.to
Yields(a, b) == a.to <= ValidFromLatest(b)
Cleared(a, b) == Blank(a) \/ Blank(b) \/ Yields(a, b) \/ Yields(b, a)

\* The edges a tenure may have are days.
LEMMA EdgesTyped ==
  ASSUME NEW s \in FineSpan
  PROVE  /\ s \in Typed /\ FineFits(s)
         /\ s.from \in Nat /\ s.to \in Nat /\ s.swin \in Int /\ s.ewin \in Int
         /\ s.sb \in Int /\ s.eb \in Int
         /\ FirstDay(s.sb) \in Int /\ LastDay(s.sb) \in Int /\ FirstDay(s.eb) \in Int
         /\ ValidFromLatest(s) \in Nat /\ s.from <= ValidFromLatest(s) /\ ValidFromLatest(s) <= s.to
         /\ ValidToEarliest(s) \in Nat /\ s.from <= ValidToEarliest(s) /\ ValidToEarliest(s) <= s.to
<1>1. s \in Typed /\ FineFits(s)
  BY FineIsTyped
<1>2. /\ s.from \in Nat /\ s.to \in Nat /\ s.swin \in Int /\ s.ewin \in Int
      /\ s.sb \in Int /\ s.eb \in Int
  BY <1>1 DEF Typed
<1>3. FirstDay(s.sb) \in Int /\ LastDay(s.sb) \in Int /\ FirstDay(s.eb) \in Int
  BY <1>2, BienniumDays
<1>4. /\ s.from <= ValidFromLatest(s) /\ ValidFromLatest(s) <= s.to
      /\ s.from <= ValidToEarliest(s) /\ ValidToEarliest(s) <= s.to
  BY FineAgrees
<1>5. ValidFromLatest(s) \in Int /\ ValidToEarliest(s) \in Int
  BY <1>2, <1>3 DEF ValidFromLatest, ValidToEarliest, Earlier, Later
<1> QED BY <1>1, <1>2, <1>3, <1>4, <1>5

\* Narrowing keeps a tenure blank: a start is stated within its key's biennium.
LEMMA NarrowedStaysBlank ==
  ASSUME NEW s \in FineSpan, NEW t \in FineSpan, Narrowing!Narrowed(s, t), Blank(s)
  PROVE  Blank(t)
<1>1. CASE EndEdgeNarrowed(s, t)
  BY <1>1, EdgesTyped DEF EndEdgeNarrowed, Blank, Earlier
<1>2. CASE StartEdgeNarrowed(s, t)
  <2>1. t.to = s.to /\ t.sb = s.sb /\ t.sbasis # Dated /\ t.from < t.to /\ s.from < s.to
    BY <1>2, Bases, EdgesTyped DEF StartEdgeNarrowed
  <2>2. s.to <= LastDay(s.sb)
    <3>1. CASE s.sbasis = Dated
      <4>1. s.swin # NoDay /\ s.swin = s.to
        BY <2>1, <3>1, EdgesTyped DEF Blank, ValidFromLatest
      <4> QED BY <4>1, EdgesTyped DEF FineFits
    <3>2. CASE s.sbasis # Dated
      BY <2>1, <3>2, EdgesTyped DEF Blank, ValidFromLatest, Later, Earlier
    <3> QED BY <3>1, <3>2
  <2> QED BY <2>1, <2>2, EdgesTyped DEF Blank, ValidFromLatest, Later, Earlier
<1> QED BY <1>1, <1>2, NarrowedEdges

\* Narrowing never lets a tenure start surely earlier, unless it leaves it blank, nor end later.
LEMMA NarrowedYields ==
  ASSUME NEW s \in FineSpan, NEW t \in FineSpan, Narrowing!Narrowed(s, t)
  PROVE  /\ t.to <= s.to
         /\ ValidFromLatest(s) <= ValidFromLatest(t) \/ Blank(t)
<1>1. CASE EndEdgeNarrowed(s, t)
  BY <1>1, EdgesTyped DEF EndEdgeNarrowed, Blank, Earlier
<1>2. CASE StartEdgeNarrowed(s, t)
  <2>1. /\ t.to = s.to /\ t.sb = s.sb /\ t.sbasis # Dated /\ s.from <= t.from /\ t.from < t.to
        /\ t.from <= LastDay(s.sb)
    BY <1>2, Bases DEF StartEdgeNarrowed, InBiennium
  <2>2. ValidFromLatest(t) = Earlier(LastDay(s.sb), s.to)
    BY <2>1, EdgesTyped DEF ValidFromLatest, Later, Earlier
  <2>3. ValidFromLatest(s) <= LastDay(s.sb)
    <3>1. CASE s.sbasis = Dated
      BY <2>1, <3>1, EdgesTyped DEF ValidFromLatest, FineFits
    <3>2. CASE s.sbasis # Dated
      BY <2>1, <3>2, EdgesTyped DEF ValidFromLatest, Later, Earlier, FineFits
    <3> QED BY <3>1, <3>2
  <2> QED BY <2>1, <2>2, <2>3, EdgesTyped DEF Earlier
<1> QED BY <1>1, <1>2, NarrowedEdges

\* So what is cleared stays cleared, whichever of the two narrows.
LEMMA NarrowedStaysCleared ==
  ASSUME NEW s \in FineSpan, NEW t \in FineSpan, Narrowing!Narrowed(s, t),
         NEW x \in FineSpan, Cleared(s, x) \/ Cleared(x, s)
  PROVE  Cleared(t, x) /\ Cleared(x, t)
<1>1. Blank(s) => Blank(t)
  BY NarrowedStaysBlank
<1>2. t.to <= s.to /\ (ValidFromLatest(s) <= ValidFromLatest(t) \/ Blank(t))
  BY NarrowedYields
<1>3. Blank(x) \/ Blank(t) \/ Yields(t, x) \/ Yields(x, t)
  BY <1>1, <1>2, EdgesTyped DEF Cleared, Yields
<1> QED BY <1>3 DEF Cleared

\* Cleared tenures do not certainly overlap.
LEMMA ClearedIsApart ==
  ASSUME NEW a \in FineSpan, NEW b \in FineSpan, Cleared(a, b)
  PROVE  ~CertainlyOverlap(a, b)
BY EdgesTyped DEF Cleared, Blank, Yields, CertainlyOverlap, Later, Earlier

\* Tenures that do not overlap are cleared.
LEMMA DisjointIsCleared ==
  ASSUME NEW a \in FineSpan, NEW b \in FineSpan, ~Overlaps(a, b)
  PROVE  Cleared(a, b)
BY EdgesTyped DEF Overlaps, Cleared, Yields

\* A start opened on the stated exit clears the pair: the exit's window ends with the
\* biennium it is in, and the successor may have started on that biennium's last day.
LEMMA OnExitClears ==
  ASSUME NEW pred \in FineSpan, NEW succ \in FineSpan, succ.kind \in SingleHolderKinds,
         StatesExit(pred), ~Narrowing!StartStatedToTheDay(succ),
         "reason" \notin DOMAIN OnExit(pred, succ)
  PROVE  Cleared(pred, OnExit(pred, succ).span)
<1> DEFINE t == OnExit(pred, succ).span
           b == Later(ValidToEarliest(pred), succ.from)
<1>1. t = OpenedAt(succ, b) /\ InBiennium(b, succ.sb)
  BY DEF OnExit
<1>2. pred \in Span /\ succ \in Span
  BY DEF FineSpan
<1>3. t \in Span /\ Narrowing!Narrowed(succ, t)
  BY <1>2, OnExitNarrows
<1>4. t \in FineSpan
  BY <1>3, NarrowedIsFine
<1>5. t.from = b /\ t.sbasis = Derived /\ t.sb = succ.sb
  BY <1>1, EdgesTyped DEF OpenedAt, Typed
<1>6. t.from < t.to
  BY <1>3, NarrowedEdges DEF StartEdgeNarrowed, EndEdgeNarrowed
<1> HIDE DEF t
<1>7. b \in Nat /\ ValidToEarliest(pred) <= b /\ b <= LastDay(t.sb)
  BY <1>1, <1>5, EdgesTyped DEF Later, InBiennium
<1> HIDE DEF b
<1>8. ValidFromLatest(t) = Earlier(LastDay(t.sb), t.to)
  BY <1>4, <1>5, <1>6, <1>7, EdgesTyped, Bases DEF ValidFromLatest, Later, Earlier
<1>9. CASE pred.ewin = NoDay
  <2>1. ValidToEarliest(pred) = pred.to
    BY <1>9, EdgesTyped DEF ValidToEarliest, StatesExit
  <2>2. pred.to <= ValidFromLatest(t)
    BY <1>4, <1>5, <1>7, <2>1, EdgesTyped
  <2> QED BY <2>2 DEF Cleared, Yields, t
<1>10. CASE pred.ewin # NoDay
  <2>1. /\ ValidToEarliest(pred) = pred.ewin /\ pred.ewin \in Nat
        /\ pred.to <= LastDay(BienniumOf(pred.ewin))
    BY <1>10, EdgesTyped DEF ValidToEarliest, StatesExit, FineFits
  <2>2. BienniumOf(pred.ewin) \in Int /\ LastDay(BienniumOf(pred.ewin)) \in Int
    BY <2>1, DayOf, BienniumDays
  <2>3. BienniumOf(pred.ewin) <= t.sb
    BY <1>4, <1>7, <2>1, DayOf, EdgesTyped
  <2>4. LastDay(BienniumOf(pred.ewin)) <= LastDay(t.sb)
    BY <1>4, <2>2, <2>3, Calendar, EdgesTyped
  <2>5. pred.to <= LastDay(t.sb)
    BY <1>4, <2>1, <2>2, <2>4, EdgesTyped
  <2>6. Blank(t) \/ pred.to <= ValidFromLatest(t)
    BY <1>4, <1>8, <2>5, EdgesTyped DEF Blank, Earlier
  <2> QED BY <2>6 DEF Cleared, Yields, t
<1> QED BY <1>9, <1>10

\* An end closed on the stated start clears the pair.
LEMMA OnStartClears ==
  ASSUME NEW pred \in FineSpan, NEW succ \in FineSpan,
         "reason" \notin DOMAIN OnStart(pred, succ)
  PROVE  Cleared(OnStart(pred, succ).span, succ)
<1> DEFINE t == OnStart(pred, succ).span
           b == Earlier(ValidFromLatest(succ), pred.to)
<1>1. t = ClosedAt(pred, b)
  BY DEF OnStart
<1>2. t.to = b
  BY <1>1, EdgesTyped DEF ClosedAt, Typed
<1>3. b <= ValidFromLatest(succ)
  BY EdgesTyped DEF Earlier
<1> QED BY <1>2, <1>3 DEF Cleared, Yields

\* A handoff that is not declined clears the pair, on the side it moves.
LEMMA HandoffClears ==
  ASSUME NEW pred \in FineSpan, NEW succ \in FineSpan,
         pred.kind \in SingleHolderKinds, succ.kind \in SingleHolderKinds,
         "reason" \notin DOMAIN Handoff(pred, succ)
  PROVE  LET out == Handoff(pred, succ)
         IN IF out.side = "succ" THEN Cleared(pred, out.span) ELSE Cleared(out.span, succ)
<1>0. pred \in Span /\ succ \in Span
  BY DEF FineSpan
<1>1. \A r : "reason" \in DOMAIN [reason |-> r]
  OBVIOUS
<1>2. Evidence(pred, succ) \in {"exit", "start"} /\ ~MultiHolder(pred, succ)
  BY <1>1 DEF Handoff
<1>3. CASE Evidence(pred, succ) = "exit"
  <2>1. Handoff(pred, succ) = OnExit(pred, succ)
    BY <1>2, <1>3 DEF Handoff
  <2>2. StatesExit(pred) /\ ~(StatedStart(succ) /\ DayStart(succ))
    BY <1>3 DEF Evidence, DayInStartWindow, BothDated, NeitherDated
  <2>3. ~Narrowing!StartStatedToTheDay(succ)
    BY <2>2, SameCalendar DEF StatedStart
  <2>4. OnExit(pred, succ).side = "succ"
    BY <1>0, <2>1, <2>2, <2>3, OnExitNarrows
  <2> QED BY <2>1, <2>2, <2>3, <2>4, OnExitClears
<1>4. CASE Evidence(pred, succ) = "start"
  <2>1. Handoff(pred, succ) = OnStart(pred, succ)
    BY <1>2, <1>4 DEF Handoff
  <2>2. OnStart(pred, succ).side = "pred"
    BY <2>1 DEF OnStart
  <2> QED BY <2>1, <2>2, OnStartClears
<1> QED BY <1>2, <1>3, <1>4

\* Two tenures on one seat of different members, neither a substitute: what the pass looks at.
Rivals(spans, i, j) ==
  /\ i \in DOMAIN spans /\ j \in DOMAIN spans
  /\ spans[i].mem # spans[j].mem /\ Seat(spans[i]) = Seat(spans[j])
  /\ spans[i].kind \in SingleHolderKinds
  /\ spans[i].type = Principal /\ spans[j].type = Principal

\* A visited pair is declined, with its positions, or cleared.
LEMMA ResolvePairClears ==
  ASSUME NEW spans \in Seq(FineSpan), NEW i \in DOMAIN spans, NEW j \in DOMAIN spans,
         Rivals(spans, i, j)
  PROVE  \/ \E r \in ResolvePair(spans, i, j).declined : r.pair = {i, j}
         \/ Cleared(ResolvePair(spans, i, j).spans[i], ResolvePair(spans, i, j).spans[j])
<1> DEFINE p == IF InOrder(spans[i], spans[j]) THEN i ELSE j
           q == IF InOrder(spans[i], spans[j]) THEN j ELSE i
           out == Handoff(spans[p], spans[q])
           k == IF out.side = "succ" THEN q ELSE p
           no == [seat |-> Seat(spans[i]), members |-> {spans[i].mem, spans[j].mem},
                  pair |-> {i, j}, reason |-> out.reason]
<1>1. /\ p \in DOMAIN spans /\ q \in DOMAIN spans /\ {p, q} = {i, j}
      /\ spans[p].kind \in SingleHolderKinds /\ spans[q].kind \in SingleHolderKinds
      /\ p # q
  BY DEF Rivals, Seat
<1>2. ResolvePair(spans, i, j) =
        IF spans[i].mem = spans[j].mem \/ ~Overlaps(spans[i], spans[j])
        THEN [spans |-> spans, declined |-> {}]
        ELSE IF "reason" \in DOMAIN out THEN [spans |-> spans, declined |-> {no}]
        ELSE [spans |-> [spans EXCEPT ![k] = out.span], declined |-> {}]
  BY DEF ResolvePair
<1>3. spans[i].mem # spans[j].mem
  BY DEF Rivals
<1>4. spans[i] \in FineSpan /\ spans[j] \in FineSpan
  OBVIOUS
<1>5. no.pair = {i, j}
  OBVIOUS
<1> HIDE DEF no, p, q
<1>6. CASE ~Overlaps(spans[i], spans[j])
  <2>1. ResolvePair(spans, i, j).spans = spans
    BY <1>2, <1>6
  <2>2. Cleared(spans[i], spans[j])
    BY <1>4, <1>6, DisjointIsCleared
  <2> QED BY <2>1, <2>2
<1>7. CASE Overlaps(spans[i], spans[j]) /\ "reason" \in DOMAIN out
  <2>1. ResolvePair(spans, i, j).declined = {no}
    BY <1>2, <1>3, <1>7
  <2> QED BY <2>1, <1>5
<1>8. CASE Overlaps(spans[i], spans[j]) /\ "reason" \notin DOMAIN out
  <2>0. spans[p] \in FineSpan /\ spans[q] \in FineSpan
    BY <1>1
  <2>1. IF out.side = "succ" THEN Cleared(spans[p], out.span) ELSE Cleared(out.span, spans[q])
    BY <1>1, <1>8, <2>0, HandoffClears
  <2> HIDE DEF out
  <2> DEFINE new == [spans EXCEPT ![k] = out.span]
  <2>2. ResolvePair(spans, i, j).spans = new
    BY <1>2, <1>3, <1>8
  <2>3. Cleared(new[p], new[q])
    <3>1. CASE out.side = "succ"
      <4>1. k = q
        BY <3>1
      <4>2. new[p] = spans[p] /\ new[q] = out.span
        BY <1>1, <4>1
      <4> QED BY <2>1, <3>1, <4>2
    <3>2. CASE out.side # "succ"
      <4>1. k = p
        BY <3>2
      <4>2. new[p] = out.span /\ new[q] = spans[q]
        BY <1>1, <4>1
      <4> QED BY <2>1, <3>2, <4>2
    <3> QED BY <3>1, <3>2
  <2> HIDE DEF new
  <2>4. Cleared(new[i], new[j])
    <3>1. (p = i /\ q = j) \/ (p = j /\ q = i)
      BY <1>1
    <3> QED BY <2>3, <3>1 DEF Cleared
  <2> QED BY <2>2, <2>4
<1> QED BY <1>6, <1>7, <1>8

\* A concatenation, element by element.
LEMMA JoinedIs ==
  ASSUME NEW a \in Seq(Int), NEW t \in Seq(Int)
  PROVE  /\ a \o t \in Seq(Int) /\ Len(a \o t) = Len(a) + Len(t)
         /\ \A i \in 1..(Len(a) + Len(t)) : (a \o t)[i] = IF i <= Len(a) THEN a[i] ELSE t[i - Len(a)]
OBVIOUS

\* A sort key of three with a position after it.
Keyed(c, n) == DOMAIN c = 1..4 /\ c[4] = n /\ \A i \in 1..4 : c[i] \in Int

\* A position added to a sort key of three makes such a key.
LEMMA TieBroken ==
  ASSUME NEW a \in Seq(Int), Len(a) = 3, NEW n \in Int
  PROVE  Keyed(a \o <<n>>, n)
<1> DEFINE t == <<n>>
           c == a \o t
<1>1. t \in Seq(Int) /\ Len(t) = 1 /\ t[1] = n
  OBVIOUS
<1> HIDE DEF t
<1>2. c \in Seq(Int) /\ Len(c) = Len(a) + Len(t)
      /\ \A i \in 1..(Len(a) + Len(t)) : c[i] = IF i <= Len(a) THEN a[i] ELSE t[i - Len(a)]
  BY <1>1, JoinedIs
<1> HIDE DEF c
<1>3. c \in Seq(Int) /\ Len(c) = 4 /\ c[4] = t[1]
  BY <1>1, <1>2
<1>4. DOMAIN c = 1..4 /\ \A i \in 1..4 : c[i] \in Int
  <2>1. DOMAIN c = 1..Len(c) /\ \A i \in 1..Len(c) : c[i] \in Int
    BY <1>2
  <2>2. Len(c) = 4
    BY <1>3
  <2> QED BY <2>1, <2>2
<1> QED BY <1>1, <1>3, <1>4 DEF Keyed, c, t

\* Keys of different positions differ, so the order sorts one before the other.
LEMMA TiesBroken ==
  ASSUME NEW a, NEW b, NEW i, NEW j, Keyed(a, i), Keyed(b, j), i # j
  PROVE  Precedes(a, b) \/ Precedes(b, a)
<1>1. /\ DOMAIN a = 1..4 /\ DOMAIN b = 1..4 /\ a[4] # b[4]
      /\ \A k \in 1..4 : a[k] \in Int /\ b[k] \in Int
  BY DEF Keyed
<1>2. ASSUME NEW k \in 1..4, a[k] # b[k], \A l \in 1..(k - 1) : a[l] = b[l]
      PROVE  Precedes(a, b) \/ Precedes(b, a)
  <2>1. a[k] < b[k] \/ b[k] < a[k]
    BY <1>1, <1>2
  <2>2. \A l \in 1..(k - 1) : b[l] = a[l]
    BY <1>2
  <2> QED BY <1>1, <1>2, <2>1, <2>2 DEF Precedes
<1>3. CASE a[1] # b[1]
  <2>1. 1 \in 1..4 /\ 1..(1 - 1) = {}
    OBVIOUS
  <2> QED BY <1>2, <1>3, <2>1
<1>4. CASE a[1] = b[1] /\ a[2] # b[2]
  <2>1. 2 \in 1..4 /\ 1..(2 - 1) = {1}
    OBVIOUS
  <2> QED BY <1>2, <1>4, <2>1
<1>5. CASE a[1] = b[1] /\ a[2] = b[2] /\ a[3] # b[3]
  <2>1. 3 \in 1..4 /\ 1..(3 - 1) = {1, 2}
    OBVIOUS
  <2> QED BY <1>2, <1>5, <2>1
<1>6. CASE a[1] = b[1] /\ a[2] = b[2] /\ a[3] = b[3]
  <2>1. 4 \in 1..4 /\ 1..(4 - 1) = {1, 2, 3}
    OBVIOUS
  <2> QED BY <1>1, <1>2, <1>6, <2>1
<1> QED BY <1>3, <1>4, <1>5, <1>6

\* The pass visits these two.
Paired(pairs, i, j) == \E p \in pairs : {p.i, p.j} = {i, j}

\* Every pair of rivals has a visit: their positions break the ties of the sort.
LEMMA SeatPairsCover ==
  ASSUME NEW spans \in Seq(FineSpan), NEW i, NEW j, Rivals(spans, i, j)
  PROVE  Paired(SeatPairs(spans), i, j)
<1> DEFINE P == {n \in DOMAIN spans : spans[n].kind \in SingleHolderKinds /\ spans[n].type = Principal}
           G == [n \in P |-> <<KindRank[spans[n].kind], spans[n].disc>>]
           K == [n \in P |-> TenureOrder(spans[n]) \o <<spans[n].mem>>]
           key(n) == K[n] \o <<n>>
           at(a) == G[a[1]] \o K[a[1]] \o <<a[1]>> \o K[a[2]] \o <<a[2]>>
           Q == {a \in P \X P : G[a[1]] = G[a[2]] /\ Precedes(K[a[1]] \o <<a[1]>>, K[a[2]] \o <<a[2]>>)}
<1>1. SeatPairs(spans) = {[i |-> a[1], j |-> a[2], at |-> at(a)] : a \in Q}
  BY DEF SeatPairs, PairsOf
<1>2. i \in P /\ j \in P /\ G[i] = G[j] /\ i # j
  BY DEF Rivals, Seat
<1>3. ASSUME NEW n \in P
      PROVE  Keyed(key(n), n)
  <2>1. spans[n] \in FineSpan /\ n \in Int
    OBVIOUS
  <2>2. spans[n].from \in Int /\ spans[n].to \in Int /\ spans[n].mem \in Int
    BY <2>1, EdgesTyped, SMTT(20) DEF Typed
  <2>3. K[n] = <<spans[n].from, spans[n].to>> \o <<spans[n].mem>>
    BY DEF TenureOrder
  <2>4. K[n] \in Seq(Int) /\ Len(K[n]) = 3
    <3>1. <<spans[n].from, spans[n].to>> \in Seq(Int) /\ Len(<<spans[n].from, spans[n].to>>) = 2
      BY <2>2
    <3>2. <<spans[n].mem>> \in Seq(Int) /\ Len(<<spans[n].mem>>) = 1
      BY <2>2
    <3> HIDE DEF K
    <3> QED BY <2>3, <3>1, <3>2
  <2>5. key(n) = K[n] \o <<n>>
    OBVIOUS
  <2> HIDE DEF key, K
  <2> QED BY <2>1, <2>4, <2>5, TieBroken
<1> HIDE DEF key, P, G, K
<1>5. Precedes(key(i), key(j)) \/ Precedes(key(j), key(i))
  BY <1>2, <1>3, TiesBroken
<1>6. ASSUME NEW a \in P, NEW b \in P, G[a] = G[b], Precedes(key(a), key(b))
      PROVE  \E p \in SeatPairs(spans) : p.i = a /\ p.j = b
  <2>1. <<a, b>> \in Q
    BY <1>6 DEF key
  <2> DEFINE r == [i |-> a, j |-> b, at |-> at(<<a, b>>)]
  <2>2. r \in SeatPairs(spans)
    <3> HIDE DEF Q, at
    <3> QED BY <1>1, <2>1
  <2>3. r.i = a /\ r.j = b
    OBVIOUS
  <2> HIDE DEF r
  <2> QED BY <2>2, <2>3
<1>7. CASE Precedes(key(i), key(j))
  <2>1. PICK p \in SeatPairs(spans) : p.i = i /\ p.j = j
    BY <1>2, <1>6, <1>7
  <2> QED BY <2>1 DEF Paired
<1>8. CASE Precedes(key(j), key(i))
  <2>1. PICK p \in SeatPairs(spans) : p.i = j /\ p.j = i
    BY <1>2, <1>6, <1>8
  <2> QED BY <2>1 DEF Paired
<1> QED BY <1>5, <1>7, <1>8

\* In the seats' pass every pair of rivals is still to visit, in the report, or cleared.
Answered(spans, pairs, report, i, j) ==
  \/ Paired(pairs, i, j)
  \/ \E r \in report : r.pair = {i, j}
  \/ Cleared(spans[i], spans[j])
AllAnswered(spans, pairs, report) ==
  \A i, j : Rivals(spans, i, j) => Answered(spans, pairs, report, i, j)
PassInv ==
  /\ axis \in {"seats", "clipped"} => AllAnswered(work, pending, unclipped)
  /\ axis = "clipped" => pending = {}

\* A narrowing leaves the key and the kind alone.
LEMMA NarrowedIsWhose ==
  ASSUME NEW s, NEW t, Narrowing!Narrowed(s, t)
  PROVE  t.mem = s.mem /\ t.kind = s.kind /\ t.disc = s.disc /\ t.type = s.type
BY DEF Narrowing!Narrowed

\* A narrowing makes no rivals and keeps what is cleared.
LEMMA NarrowingKeepsRivals ==
  ASSUME NEW spans \in Seq(FineSpan), NEW new, OneNarrowed(spans, new),
         NEW i, NEW j, Rivals(new, i, j)
  PROVE  Rivals(spans, i, j) /\ (Cleared(spans[i], spans[j]) => Cleared(new[i], new[j]))
<1>1. CASE new = spans
  BY <1>1
<1>2. ASSUME NEW k \in DOMAIN spans, NEW t \in Span, Narrowing!Narrowed(spans[k], t),
             new = [spans EXCEPT ![k] = t]
      PROVE  Rivals(spans, i, j) /\ (Cleared(spans[i], spans[j]) => Cleared(new[i], new[j]))
  <2>1. t.mem = spans[k].mem /\ t.kind = spans[k].kind /\ t.disc = spans[k].disc /\ t.type = spans[k].type
    BY <1>2, NarrowedIsWhose
  <2>2. DOMAIN new = DOMAIN spans /\ new[k] = t /\ \A n \in DOMAIN spans : n # k => new[n] = spans[n]
    BY <1>2
  <2>3. \A n \in DOMAIN spans : /\ new[n].mem = spans[n].mem /\ new[n].kind = spans[n].kind
                                /\ new[n].disc = spans[n].disc /\ new[n].type = spans[n].type
    BY <2>1, <2>2
  <2>4. Rivals(spans, i, j)
    BY <2>2, <2>3 DEF Rivals, Seat
  <2>5. i \in DOMAIN spans /\ j \in DOMAIN spans /\ i # j
    BY <2>4 DEF Rivals
  <2>6. t \in FineSpan /\ \A n \in DOMAIN spans : spans[n] \in FineSpan
    BY <1>2, NarrowedIsFine
  <2>7. ASSUME Cleared(spans[i], spans[j]) PROVE Cleared(new[i], new[j])
    <3>1. CASE k = i
      BY <1>2, <2>2, <2>5, <2>6, <2>7, <3>1, NarrowedStaysCleared
    <3>2. CASE k = j
      BY <1>2, <2>2, <2>5, <2>6, <2>7, <3>2, NarrowedStaysCleared
    <3>3. CASE k # i /\ k # j
      BY <2>2, <2>5, <2>7, <3>3
    <3> QED BY <3>1, <3>2, <3>3
  <2> QED BY <2>4, <2>7
<1> QED BY <1>1, <1>2 DEF OneNarrowed

\* Visiting a pair answers it and leaves the others' answers standing.
LEMMA VisitAnswers ==
  ASSUME NEW spans \in Seq(FineSpan), NEW pairs, NEW report, Held(spans, pairs),
         AllAnswered(spans, pairs, report), NEW p \in pairs
  PROVE  AllAnswered(ResolvePair(spans, p.i, p.j).spans, pairs \ {p},
                     report \cup ResolvePair(spans, p.i, p.j).declined)
<1> DEFINE new == ResolvePair(spans, p.i, p.j).spans
           more == ResolvePair(spans, p.i, p.j).declined
<1> SUFFICES ASSUME NEW i, NEW j, Rivals(new, i, j)
             PROVE  Answered(new, pairs \ {p}, report \cup more, i, j)
  BY DEF AllAnswered
<1>0. /\ p.i \in DOMAIN spans /\ p.j \in DOMAIN spans
      /\ spans[p.i].kind \in SingleHolderKinds /\ spans[p.j].kind \in SingleHolderKinds
  BY DEF Held
<1>1. OneNarrowed(spans, new)
  <2>1. spans \in Seq(Span)
    BY FineIsSpan
  <2> QED BY <1>0, <2>1, ResolvePairNarrows
<1>2. Rivals(spans, i, j) /\ (Cleared(spans[i], spans[j]) => Cleared(new[i], new[j]))
  BY <1>1, NarrowingKeepsRivals
<1>3. Answered(spans, pairs, report, i, j)
  BY <1>2 DEF AllAnswered
<1>4. CASE {p.i, p.j} = {i, j}
  <2>1. (p.i = i /\ p.j = j) \/ (p.i = j /\ p.j = i)
    BY <1>4
  <2>2. Rivals(spans, p.i, p.j)
    BY <1>2, <2>1 DEF Rivals, Seat
  <2>3. (\E r \in more : r.pair = {p.i, p.j}) \/ Cleared(new[p.i], new[p.j])
    BY <1>0, <2>2, ResolvePairClears
  <2> HIDE DEF new, more
  <2>4. (\E r \in more : r.pair = {i, j}) \/ Cleared(new[i], new[j])
    BY <1>4, <2>1, <2>3 DEF Cleared
  <2> QED BY <2>4 DEF Answered
<1>5. CASE {p.i, p.j} # {i, j}
  <2> HIDE DEF new, more
  <2> QED BY <1>2, <1>3, <1>5 DEF Answered, Paired
<1> QED BY <1>4, <1>5

\* The clip's steps keep the pass's invariant.
LEMMA PassStep ==
  ASSUME BuildInv, PassInv, [Next]_vars
  PROVE  PassInv'
<1>1. CASE Clip
  <2>1. work \in Seq(FineSpan) /\ Held(work, pending)
    BY DEF BuildInv, BuildFits
  <2>2. CASE ClipMove
    BY <2>2 DEF ClipMove, PassInv
  <2>3. CASE TurnToSeats
    <3>1. axis' = "seats" /\ pending' = SeatPairs(work) /\ work' = work /\ unclipped' = unclipped
      BY <2>3 DEF TurnToSeats
    <3>2. AllAnswered(work, SeatPairs(work), unclipped)
      <4> SUFFICES ASSUME NEW i, NEW j, Rivals(work, i, j)
                   PROVE  Answered(work, SeatPairs(work), unclipped, i, j)
        BY DEF AllAnswered
      <4>1. Paired(SeatPairs(work), i, j)
        BY <2>1, SeatPairsCover
      <4> QED BY <4>1 DEF Answered
    <3> QED BY <3>1, <3>2 DEF PassInv
  <2>4. CASE ClipPair
    <3>1. PICK p \in pending : /\ work' = ResolvePair(work, p.i, p.j).spans
                               /\ unclipped' = unclipped \cup ResolvePair(work, p.i, p.j).declined
                               /\ pending' = pending \ {p}
      BY <2>4 DEF ClipPair
    <3>2. axis = "seats" /\ axis' = "seats"
      BY <2>4 DEF ClipPair
    <3>3. AllAnswered(work, pending, unclipped)
      BY <3>2 DEF PassInv
    <3>4. AllAnswered(work', pending', unclipped')
      BY <2>1, <3>1, <3>3, VisitAnswers
    <3> QED BY <3>2, <3>4 DEF PassInv
  <2>5. CASE FinishClip
    BY <2>5 DEF FinishClip, PassInv
  <2> QED BY <1>1, <2>2, <2>3, <2>4, <2>5 DEF Clip, ClipNext
<1>2. CASE BeginClip
  BY <1>2 DEF BeginClip, StartClip, PassInv
<1>3. CASE UNCHANGED clipVars
  BY <1>3 DEF clipVars, PassInv
<1> QED BY <1>1, <1>2, <1>3 DEF Next, vars, JudgeRows, BuildCommittees, Keep, RefuseHouse, BuildHouse,
            DateCommittees, BuildSponsors, BuildRoster, DateEdge, Curate, Publish

\* Two principals of one seat who certainly held it at once after the clip are in its report,
\* whatever the rows, events, clauses and capacity: a visited pair is reported or cleared, and
\* no later narrowing brings a cleared pair back together (clip_seat_counterparts).
THEOREM OverlapsAreReported == Spec => []OverlapsReported
<1>1. Init => PassInv
  BY DEF Init, PassInv
<1>2. BuildInv /\ PassInv /\ [Next]_vars => PassInv'
  BY PassStep
<1>3. BuildInv /\ PassInv => OverlapsReported
  <2> SUFFICES ASSUME BuildInv, PassInv, Clipped, NEW i \in DOMAIN work, NEW j \in DOMAIN work,
                      Rivals(work, i, j), CertainlyOverlap(work[i], work[j])
               PROVE  \E r \in unclipped : r.pair = {i, j}
    BY DEF OverlapsReported, Rivals
  <2>1. Answered(work, {}, unclipped, i, j)
    BY DEF Clipped, PassInv, AllAnswered
  <2>2. work[i] \in FineSpan /\ work[j] \in FineSpan
    BY DEF BuildInv, BuildFits
  <2>3. ~Cleared(work[i], work[j])
    BY <2>2, ClearedIsApart
  <2> QED BY <2>1, <2>3 DEF Answered, Paired
<1> QED BY <1>1, <1>2, <1>3, BuildTypeCorrect, PTL DEF Spec
=============================================================================
