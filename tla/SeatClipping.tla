----------------------------- MODULE SeatClipping -----------------------------
(***************************************************************************)
(* Counterpart clipping: where one side of an overlap carries a stated     *)
(* date, the other side's derived edge yields to it.  The members' own     *)
(* moves are resolved first, then each seat's principals, pair by pair in  *)
(* tenure order, every pair reading what the earlier pairs left.           *)
(***************************************************************************)
EXTENDS TenureSpans

CONSTANT Capacity   \* {<<kind, disc, first, last>>}: periods of more than one lawful holder

ASSUME CapacityAssumption == Capacity \subseteq SingleHolderKinds \X Nat \X Days \X (Days \cup {Open})

VARIABLES
  work,        \* the spans of every family, in one list
  unclipped,   \* the overlaps declined, with the reason
  axis,        \* which pass is running
  pending      \* the pairs of positions the pass has still to visit

clipVars == <<work, unclipped, axis, pending>>

BothDated == "both_dated"
NeitherDated == "neither_dated"
PredecessorOutlives == "predecessor_outlives_successor"
StartLeavesBiennium == "start_leaves_biennium"
Degenerate == "degenerate"
MultiHolderPeriod == "multi_holder_period"
Reasons == {BothDated, NeitherDated, PredecessorOutlives, StartLeavesBiennium, Degenerate,
            MultiHolderPeriod}

-----------------------------------------------------------------------------
(* The geometry and the evidence.                                           *)

\* Mutant: a tenure that still runs overlaps nothing.
OverlapsClosed(a, b) ==
  /\ a.to # Open /\ b.to # Open
  /\ a.from <= b.to /\ b.from <= a.to
  /\ a.to # b.from /\ b.to # a.from

\* Two tenures that share a boundary are a handoff, not an overlap.
Overlaps(a, b) ==
  /\ b.to = Open \/ a.from <= b.to
  /\ a.to = Open \/ b.from <= a.to
  /\ a.to # b.from /\ b.to # a.from

StatedStart(s) == s.sbasis = Dated
StatesExit(s) == s.ebasis = Dated
QuantizedExit(s) == s.ebasis = Observed
DayStart(s) == ValidFromLatest(s) = s.from
DayEnd(s) == s.to # Open /\ ValidToEarliest(s) = s.to
TenureOrder(s) == <<s.from, s.to>>

MultiHolder(a, b) ==
  \E p \in Capacity :
    /\ <<p[1], p[2]>> = Seat(a)
    /\ p[3] <= Earlier(a.to, b.to)
    /\ Later(a.from, b.from) <= p[4]

\* An end or a start clipped to a boundary: derived, and the other edge's window clamped.
ClosedAt(s, boundary) ==
  LET w == Earlier(s.swin, boundary)
  IN [s EXCEPT !.to = boundary, !.ebasis = Derived, !.ewin = NoDay,
               !.swin = IF s.swin = NoDay \/ w = s.from THEN NoDay ELSE w]
OpenedAt(s, boundary) ==
  LET w == Later(s.ewin, boundary)
  IN [s EXCEPT !.from = boundary, !.sbasis = Derived, !.swin = NoDay,
               !.ewin = IF s.ewin = NoDay \/ w = s.to THEN NoDay ELSE w]

-----------------------------------------------------------------------------
(* One member's two seats: the move closes the old seat's observed end.     *)

Moves(old, new) ==
  LET boundary == Earlier(ValidFromLatest(new), old.to)
  IN /\ Seat(old) # Seat(new)
     /\ Overlaps(old, new)
     /\ QuantizedExit(old) /\ StatedStart(new)
     /\ boundary > old.from
     /\ old.to <= new.to

ResolveMove(spans, i, j) ==
  IF Moves(spans[i], spans[j])
  THEN [spans EXCEPT ![i] = ClosedAt(@, Earlier(ValidFromLatest(spans[j]), @.to))]
  ELSE spans

-----------------------------------------------------------------------------
(* Two principals of one seat.                                              *)

InOrder(a, b) == ~Precedes(TenureOrder(b), TenureOrder(a))

\* A day inside the other side's window is the more precise of two stated edges.
DayInStartWindow(pred, succ) ==
  DayEnd(pred) /\ ~DayStart(succ) /\ succ.from <= pred.to /\ pred.to <= ValidFromLatest(succ)
DayInEndWindow(pred, succ) ==
  DayStart(succ) /\ ~DayEnd(pred) /\ ValidToEarliest(pred) <= succ.from /\ succ.from <= pred.to

\* Which edge is the evidence: the predecessor's exit, the successor's start, or neither.
Evidence(pred, succ) ==
  CASE StatesExit(pred) /\ StatedStart(succ) ->
         IF DayInStartWindow(pred, succ) THEN "exit"
         ELSE IF DayInEndWindow(pred, succ) THEN "start" ELSE BothDated
    [] StatesExit(pred) /\ ~StatedStart(succ) -> "exit"
    [] ~StatesExit(pred) /\ StatedStart(succ) -> "start"
    [] OTHER -> NeitherDated

\* The successor opens at the stated exit, never earlier than it already does.
OnExit(pred, succ) ==
  LET boundary == Later(ValidToEarliest(pred), succ.from)
  IN IF ~InBiennium(boundary, succ.sb) THEN [reason |-> StartLeavesBiennium]
     ELSE IF succ.to # Open /\ boundary >= succ.to THEN [reason |-> PredecessorOutlives]
     ELSE [side |-> "succ", span |-> OpenedAt(succ, boundary)]

\* Mutant: a start at or before the predecessor's own is not refused.
OnStartUnchecked(pred, succ) ==
  IF pred.to > succ.to THEN [reason |-> PredecessorOutlives]
  ELSE [side |-> "pred", span |-> ClosedAt(pred, Earlier(ValidFromLatest(succ), pred.to))]

\* The predecessor closes at the far edge of the stated start.
OnStart(pred, succ) ==
  LET boundary == Earlier(ValidFromLatest(succ), pred.to)
  IN IF pred.to > succ.to THEN [reason |-> PredecessorOutlives]
     ELSE IF boundary <= pred.from THEN [reason |-> Degenerate]
     ELSE [side |-> "pred", span |-> ClosedAt(pred, boundary)]

Handoff(pred, succ) ==
  LET evidence == Evidence(pred, succ)
  IN CASE MultiHolder(pred, succ) -> [reason |-> MultiHolderPeriod]
       [] ~MultiHolder(pred, succ) /\ evidence = "exit" -> OnExit(pred, succ)
       [] ~MultiHolder(pred, succ) /\ evidence = "start" -> OnStart(pred, succ)
       [] OTHER -> [reason |-> evidence]

\* The pair's outcome: the spans it leaves and the reason it was declined, if it was.
ResolvePair(spans, i, j) ==
  LET a == spans[i]
      b == spans[j]
      p == IF InOrder(a, b) THEN i ELSE j
      q == IF InOrder(a, b) THEN j ELSE i
      out == Handoff(spans[p], spans[q])
  IN IF a.mem = b.mem \/ ~Overlaps(a, b) THEN [spans |-> spans, declined |-> {}]
     ELSE IF "reason" \in DOMAIN out
          THEN [spans |-> spans,
                declined |-> {[seat |-> Seat(a), members |-> {a.mem, b.mem}, pair |-> {i, j},
                               reason |-> out.reason]}]
     ELSE [spans |-> [spans EXCEPT ![IF out.side = "succ" THEN q ELSE p] = out.span],
           declined |-> {}]

-----------------------------------------------------------------------------
(* The visiting order: group by group, and in a group every pair of the     *)
(* sorted positions.  A pair keeps the key it was sorted under when its     *)
(* pass began; a group's spans are no other group's, so none has moved yet. *)

\* G ranks a position's group, K the position within it.
PairsOf(P, G, K) ==
  {[i |-> p[1], j |-> p[2], at |-> G[p[1]] \o K[p[1]] \o <<p[1]>> \o K[p[2]] \o <<p[2]>>] :
     p \in {q \in P \X P : /\ G[q[1]] = G[q[2]]
                           /\ Precedes(K[q[1]] \o <<q[1]>>, K[q[2]] \o <<q[2]>>)}}
IsNext(p, pairs) == \A q \in pairs \ {p} : Precedes(p.at, q.at)

MovePairs(spans) ==
  LET P == {i \in DOMAIN spans : spans[i].kind \in SingleHolderKinds}
  IN PairsOf(P, [i \in P |-> <<spans[i].mem>>],
             [i \in P |-> TenureOrder(spans[i]) \o <<KindRank[spans[i].kind], spans[i].disc>>])

SeatPairs(spans) ==
  LET P == {i \in DOMAIN spans : spans[i].kind \in SingleHolderKinds /\ spans[i].type = Principal}
  IN PairsOf(P, [i \in P |-> <<KindRank[spans[i].kind], spans[i].disc>>],
             [i \in P |-> TenureOrder(spans[i]) \o <<spans[i].mem>>])

-----------------------------------------------------------------------------
(* clip_seat_counterparts, one pair at a time.                              *)

StartClip(spans) ==
  /\ work' = spans
  /\ axis' = "members"
  /\ pending' = MovePairs(spans)
  /\ unclipped' = {}

ClipMove ==
  /\ axis = "members"
  /\ \E p \in pending :
       /\ IsNext(p, pending)
       /\ work' = ResolveMove(work, p.i, p.j)
       /\ pending' = pending \ {p}
  /\ UNCHANGED <<unclipped, axis>>

TurnToSeats ==
  /\ axis = "members" /\ pending = {}
  /\ axis' = "seats"
  /\ pending' = SeatPairs(work)
  /\ UNCHANGED <<work, unclipped>>

ClipPair ==
  /\ axis = "seats"
  /\ \E p \in pending :
       /\ IsNext(p, pending)
       /\ work' = ResolvePair(work, p.i, p.j).spans
       /\ unclipped' = unclipped \cup ResolvePair(work, p.i, p.j).declined
       /\ pending' = pending \ {p}
  /\ UNCHANGED axis

FinishClip ==
  /\ axis = "seats" /\ pending = {}
  /\ axis' = "clipped"
  /\ UNCHANGED <<work, unclipped, pending>>

ClipNext == ClipMove \/ TurnToSeats \/ ClipPair \/ FinishClip

-----------------------------------------------------------------------------
(* The clip over any list of spans the builders could hand it.              *)

ClipInit ==
  /\ work \in Seq(Span)
  /\ axis = "members"
  /\ pending = MovePairs(work)
  /\ unclipped = {}
ClipSpec == ClipInit /\ [][ClipNext]_clipVars

\* Whatever the clip did to an edge, its spans are ones the constructor accepts, windows
\* included; the pairs it has still to visit are chamber seats' positions in the list.
ClipTypeOK ==
  /\ work \in Seq(Span)
  /\ \A p \in pending : \A n \in {p.i, p.j} :
       n \in DOMAIN work /\ work[n].kind \in SingleHolderKinds

\* What the clip promises whoever publishes its list (SpanNarrowing).
Narrowing == INSTANCE SpanNarrowing WITH spans <- work
NarrowsOnly == Narrowing!Spec
=============================================================================
