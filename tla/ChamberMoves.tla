----------------------------- MODULE ChamberMoves -----------------------------
(***************************************************************************)
(* A member who moves from the House to the Senate inside a biennium: the  *)
(* Senate seating (or an explicit House vacate) dates the end of the House *)
(* seat, which is carried into the biennium after the elimination has run, *)
(* and re-dates the member's committees.                                   *)
(***************************************************************************)
EXTENDS HouseSeats

IsSenateSeating(e) == e.kind = Seated /\ e.seat[1] = Senate
IsHouseVacate(e) == e.kind = Vacated /\ e.seat[1] = House
WithinMove(e, b) == FirstDay(b) < e.date /\ BienniumOf(e.date) = b

LeastOf(S) == CHOOSE x \in S : \A y \in S : x <= y
MostOf(S) == CHOOSE x \in S : \A y \in S : y <= x

\* What dates a move inside its biennium: the Senate seatings, else the House vacates.
MoveDates(events, m, b) ==
  LET within == {x \in Elements(events) : x.mem = m /\ WithinMove(x, b)}
      seated == {e.date : e \in {x \in within : IsSenateSeating(x)}}
  IN IF seated # {} THEN seated ELSE {e.date : e \in {x \in within : IsHouseVacate(x)}}

ChamberMove(rows, events, cands, m, b) ==
  LET r == CHOOSE x \in RowsOf(rows, b) : x.mem = m /\ x.agency = AgencyHouse
      pos == PositionFor(cands[b], r.ld, Surname[m], r.party)
  IN [mem |-> m, b |-> b, on |-> LeastOf(MoveDates(events, m, b)), ld |-> r.ld,
      ballot |-> IF pos = NoPosition THEN {} ELSE {SeatDisc(r.ld, pos)},
      peers |-> {x.mem : x \in {y \in RowsOf(rows, b) :
                   y.agency = AgencyHouse /\ y.ld = r.ld /\ y.mem # m}}]

\* Every mover whose move is dated.
ChamberMovesOf(rows, events, cands) ==
  UNION {{ChamberMove(rows, events, cands, m, b) :
            m \in {x \in HouseMovers(rows, b) : MoveDates(events, x, b) # {}}} : b \in Biennia}

\* The previous biennium's seat, inside one district map and one district.
ContinuedSeat(move, obs) ==
  {o.disc : o \in {x \in obs :
     /\ x.kind = House /\ x.mem = move.mem /\ x.b = move.b - 1
     /\ move.b \notin EraStarts /\ LdOf(x.disc) = move.ld}}

LeftMidBiennium(e, move) == (e.kind = Departed \/ IsHouseVacate(e)) /\ WithinMove(e, move.b)

\* The seats of the mover's district another member was seated in (#492).
SuccessorSeats(move, obs, events) ==
  LET all == Elements(events)
      ldSeats == {SeatDisc(move.ld, p) : p \in Positions}
      seatings == {e \in all : /\ e.kind = Seated /\ e.seat[1] = House /\ e.seat[2] \in ldSeats
                               /\ e.mem # move.mem /\ WithinMove(e, move.b)}
      successors == {e.mem : e \in seatings}
      observed == {o \in obs : o.kind = House /\ o.b = move.b}
      held == {o.disc : o \in {x \in observed : x.mem \notin successors \cup {move.mem}}}
      named == {e.seat[2] : e \in seatings} \ held
      lastFilled == MostOf({e.date : e \in {x \in seatings : x.seat[2] \in named}})
      unseen == move.peers \ (successors \cup {o.mem : o \in observed})
  IN IF named # {} /\ \E e \in all :
          e.mem \in unseen /\ LeftMidBiennium(e, move) /\ e.date <= lastFilled
     THEN ldSeats ELSE named

\* The move, or a successor's earlier seating on the seat.
HouseEnd(move, seat, events) ==
  LeastOf({move.on} \cup {e.date : e \in {x \in Elements(events) :
    /\ x.kind = Seated /\ x.seat = <<House, seat>> /\ x.mem # move.mem
    /\ FirstDay(move.b) < x.date /\ x.date < move.on}})

\* carry_mover_house_tenures, one move: the ballot's seat, else the previous
\* biennium's, else the one a successor names.
CarryMove(carried, move, obs, events) ==
  LET explicit == {e.seat[2] : e \in {x \in Elements(events) :
                     IsHouseVacate(x) /\ x.mem = move.mem /\ BienniumOf(x.date) = move.b}}
      successors == IF explicit # {} THEN {} ELSE SuccessorSeats(move, carried.obs, events)
      prior == ContinuedSeat(move, obs)
      seats == CASE move.ballot # {} -> move.ballot
                 [] move.ballot = {} /\ prior # {} -> prior
                 [] move.ballot = {} /\ prior = {} /\ Cardinality(successors) = 1 -> successors
                 [] OTHER -> {}
      seat == CHOOSE x \in seats : TRUE
  IN IF seats = {} \/ ~(explicit \subseteq seats) THEN carried
     ELSE [obs |-> carried.obs \cup {Observation(move.mem, House, seat, move.b, FALSE)},
           implied |-> IF explicit # {} THEN carried.implied
                       ELSE Append(carried.implied,
                              SuccessionEvent(move.mem, Vacated, HouseEnd(move, seat, events),
                                              <<House, seat>>, Derived))]

CarryMoverHouseTenures(obs, moves, events) ==
  LET before(m) == {x \in moves : Precedes(<<x.b, x.mem>>, <<m.b, m.mem>>)}
      f[n \in 0..Cardinality(moves)] ==
        IF n = 0 THEN [obs |-> obs, implied |-> <<>>]
        ELSE CarryMove(f[n - 1], CHOOSE m \in moves : Cardinality(before(m)) = n - 1, obs, events)
  IN f[Cardinality(moves)]

-----------------------------------------------------------------------------
(* The mover's committees (#490).                                           *)

CommitteeAgency(committeeRows, b, com) ==
  {r.agency : r \in {x \in committeeRows : x.b = b /\ x.com = com}}

\* The member's last House end strictly inside a biennium, else the move.
HouseEndedOn(houseSpans, move) ==
  LET ends == {s.to : s \in {x \in Elements(houseSpans) :
                /\ x.kind = House /\ x.mem = move.mem /\ x.to # Open /\ x.eb = move.b
                /\ FirstDay(x.eb) < x.to /\ x.to < LastDay(x.eb)}}
  IN IF ends = {} THEN move.on ELSE MostOf(ends)

DateCommittee(s, move, agency, end) ==
  CASE AgencyHouse \in agency /\ s.eb = move.b /\ s.from <= end /\ end < s.to ->
         [s EXCEPT !.to = end, !.ebasis = Derived]
    [] AgencySenate \in agency /\ s.sb = move.b /\ s.from = FirstDay(move.b) /\ move.on <= s.to ->
         [s EXCEPT !.from = move.on, !.sbasis = Derived]
    [] OTHER -> s

\* One committee span, dated by each of its member's moves in the order of their biennia.
DatedByMoves(s, moves, committeeRows, houseSpans) ==
  LET own == {m \in moves : m.mem = s.mem}
      order == Ranked({m.b : m \in own}, LAMBDA b : <<b>>)
      f[n \in 0..Len(order)] ==
        IF n = 0 THEN s
        ELSE LET move == CHOOSE m \in own : m.b = order[n]
             IN DateCommittee(f[n - 1], move, CommitteeAgency(committeeRows, move.b, s.disc),
                              HouseEndedOn(houseSpans, move))
  IN f[Len(order)]

DateMoverCommittees(spans, moves, committeeRows, houseSpans) ==
  [i \in DOMAIN spans |-> IF spans[i].kind = Committee
                          THEN DatedByMoves(spans[i], moves, committeeRows, houseSpans)
                          ELSE spans[i]]
=============================================================================
