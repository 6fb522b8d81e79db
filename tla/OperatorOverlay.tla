--------------------------- MODULE OperatorOverlay ---------------------------
(***************************************************************************)
(* The operator's succession events laid over built spans: a departure     *)
(* closes a member's open tenures (or splits one the member re-enters), a  *)
(* vacate closes one seat, a seating dates a tenure's start or mints the   *)
(* tenure the wire has not caught up on.                                   *)
(***************************************************************************)
EXTENDS TenureSpans

CONSTANT Grace      \* DEPARTED_ALREADY_CLOSED_GRACE, in days

ASSUME GraceAssumption == Grace \in Nat

Departed == "departed"
Vacated == "vacated"
Seated == "seated"
NoSeat == <<"", 0>>

SuccessionEvent(mem, kind, date, seat, basis) ==
  [mem |-> mem, kind |-> kind, date |-> date, seat |-> seat, basis |-> basis]

Elements(s) == {s[i] : i \in DOMAIN s}

-----------------------------------------------------------------------------
(* Which members an event keeps in the rosters.                             *)

LatestEventBiennium(events, m) ==
  LET bs == {BienniumOf(e.date) : e \in {x \in Elements(events) : x.mem = m}}
  IN CHOOSE b \in bs : \A c \in bs : c <= b

\* Exempt from the stale exclusion in b: the last event is in b or later (#145).
StaleExempt(events, b) ==
  {m \in {e.mem : e \in Elements(events)} : LatestEventBiennium(events, m) >= b}

-----------------------------------------------------------------------------
(* Which spans an event is about.                                           *)

Covers(s, d) == s.from <= d /\ d <= s.to
OnSeatOf(s, e) == s.mem = e.mem /\ Seat(s) = e.seat
MatchesSeat(s, e) == OnSeatOf(s, e) /\ Covers(s, e.date)
OpensAfterSeating(s, e) ==
  OnSeatOf(s, e) /\ s.from = FirstDay(s.sb) /\ s.sb - 1 = BienniumOf(e.date)
SeatingStartsTenure(s, d) == s.sb >= BienniumOf(d)
IsOpenThrough(s, d) == s.from <= d /\ s.to > d

CloseAt(s, e) == [s EXCEPT !.to = Later(e.date, s.from), !.ebasis = e.basis]

\* The first other seat of the member that starts after d and inside s (#267).
ReEntryAfter(spans, s, d) ==
  {i \in DOMAIN spans :
     /\ spans[i].mem = s.mem /\ Seat(spans[i]) # Seat(s)
     /\ d < spans[i].from /\ spans[i].from <= s.to}
First(P) == CHOOSE i \in P : \A j \in P : i <= j

\* Mutant: the tail keeps the key of the tenure it was split from.
SplitTailSameKey(s, return) == [s EXCEPT !.from = return, !.sbasis = Derived]

SplitTail(s, return) == [s EXCEPT !.sb = BienniumOf(return), !.from = return, !.sbasis = Derived]

-----------------------------------------------------------------------------
(* Minted tenures.                                                          *)

Synthesize(e, current) ==
  NewSpan(e.mem, e.seat[1], e.seat[2], current, current, e.date, Open, e.basis, OpenEnd)
SynthesizeClosed(e) ==
  LET b == BienniumOf(e.date)
  IN NewSpan(e.mem, e.seat[1], e.seat[2], b, b, FirstDay(b), e.date, Observed, e.basis)

\* A mover's vacates mint the House tenures the roster left out, one per key (#145, #461).
SynthesizeMoverTenures(spans, events, owned, movers) ==
  LET f[n \in 0..Len(events)] ==
        IF n = 0 THEN <<>>
        ELSE LET minted == f[n - 1]
                 e == events[n]
                 made == SynthesizeClosed(e)
                 seen == Elements(spans \o minted)
             IN IF /\ e.kind = Vacated /\ e.seat[1] \in owned
                   /\ e.mem \in movers[BienniumOf(e.date)]
                   /\ ~ \E s \in seen : MatchesSeat(s, e)
                   /\ ~ \E s \in seen : Key(s) = Key(made)
                THEN Append(minted, made)
                ELSE minted
  IN f[Len(events)]

-----------------------------------------------------------------------------
(* One event over the overlay's state: the spans, the keys a seating dated  *)
(* with its date, and the departures that acted.                            *)

\* Mutant: a tenure some seating dated is spared whatever the date.
SeatedAtAll(seated, s, d) == Key(s) \in DOMAIN seated

SeatedAtThisInstant(seated, s, d) == Key(s) \in DOMAIN seated /\ seated[Key(s)] = d
Register(seated, s, d) == [k \in DOMAIN seated \cup {Key(s)} |-> IF k = Key(s) THEN d ELSE seated[k]]

\* The sweep visits the spans in order and reads the tails it has appended.
ApplyDeparted(o, e, context) ==
  LET sweep[i \in 0..Len(o.spans)] ==
        IF i = 0 THEN o
        ELSE LET now == sweep[i - 1]
                 s == now.spans[i]
                 hit == [now EXCEPT !.applied = @ \cup {e}]
                 known == now.spans \o context
                 back == ReEntryAfter(known, s, e.date)
                 return == known[First(back)].from
             IN CASE s.mem # e.mem \/ ~IsOpenThrough(s, e.date) -> now
                  [] s.mem = e.mem /\ IsOpenThrough(s, e.date)
                     /\ SeatedAtThisInstant(now.seated, s, e.date) -> hit
                  [] OTHER ->
                     IF back = {} THEN [hit EXCEPT !.spans[i] = CloseAt(s, e)]
                     ELSE IF BienniumOf(return) = s.sb THEN hit
                     ELSE [hit EXCEPT !.spans = Append([@ EXCEPT ![i] = CloseAt(s, e)],
                                                       SplitTail(s, return))]
  IN sweep[Len(o.spans)]

\* (SubSeq makes TLC build the sequence before a later EXCEPT changes it.)
ApplyVacated(o, e) ==
  LET closed == [i \in DOMAIN o.spans |->
                   IF MatchesSeat(o.spans[i], e) THEN CloseAt(o.spans[i], e) ELSE o.spans[i]]
  IN [o EXCEPT !.spans = SubSeq(closed, 1, Len(@))]

\* The span whose window holds the date, else the one opening a biennium later (#282).
SeatingTargets(spans, e) ==
  LET held == {i \in DOMAIN spans : MatchesSeat(spans[i], e)}
  IN IF held # {} THEN held ELSE {i \in DOMAIN spans : OpensAfterSeating(spans[i], e)}

ApplySeated(o, e, current) ==
  LET targets == SeatingTargets(o.spans, e)
      visit[i \in 0..Len(o.spans)] ==
        IF i = 0 THEN [o |-> o, hit |-> FALSE]
        ELSE LET now == visit[i - 1]
                 s == now.o.spans[i]
             IN IF i \notin targets \/ ~SeatingStartsTenure(s, e.date) THEN now
                ELSE IF Key(s) \in DOMAIN now.o.seated THEN [now EXCEPT !.hit = TRUE]
                ELSE [o |-> [now.o EXCEPT
                               !.seated = Register(@, s, e.date),
                               !.spans[i] = [s EXCEPT !.from = e.date, !.sbasis = e.basis]],
                      hit |-> TRUE]
      done == visit[Len(o.spans)]
      made == Synthesize(e, current)
  IN IF done.hit \/ ~InBiennium(e.date, current) THEN done.o
     ELSE [done.o EXCEPT !.spans = Append(@, made), !.seated = Register(@, made, e.date)]

ApplyEvent(o, e, current, owned, context) ==
  CASE e.kind = Departed -> ApplyDeparted(o, e, context)
    [] e.kind = Vacated /\ e.seat[1] \in owned -> ApplyVacated(o, e)
    [] e.kind = Seated /\ e.seat[1] \in owned -> ApplySeated(o, e, current)
    [] OTHER -> o

\* Seat-scoped events first, then departures, each by date (#267).
EventOrder(e) == <<IF e.kind = Departed THEN 1 ELSE 0, e.date>>

ApplyOperatorEvents(spans, events, current, owned, movers, context) ==
  LET ordered == SortBy(events, EventOrder)
      start == [spans |-> spans \o SynthesizeMoverTenures(spans, ordered, owned, movers),
                seated |-> <<>>, applied |-> {}]
      f[n \in 0..Len(ordered)] ==
        IF n = 0 THEN start ELSE ApplyEvent(f[n - 1], ordered[n], current, owned, context)
      done == f[Len(ordered)]
  IN [spans |-> MergePartyContinuity(done.spans), applied |-> done.applied]

-----------------------------------------------------------------------------
(* The departures no overlay of a family applied (#466).                    *)

AlreadyClosed(spans, e) ==
  LET ends == {s.to : s \in {t \in Elements(spans) : t.mem = e.mem}}
  IN /\ ends # {}
     /\ \A d \in ends : d # Open /\ d <= e.date
     /\ \E d \in ends : e.date - d <= Grace

DepartureMisses(events, applied, spans) ==
  LET missed == {e \in Elements(events) : e.kind = Departed /\ e \notin applied}
  IN [alreadyClosed |-> {e \in missed : AlreadyClosed(spans, e)},
      noOpenSpan |-> {e \in missed : ~AlreadyClosed(spans, e)}]
=============================================================================
