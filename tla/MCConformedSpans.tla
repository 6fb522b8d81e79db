--------------------------- MODULE MCConformedSpans ---------------------------
(***************************************************************************)
(* Three biennia of four days.  Members 1 and 2 are the archive's, 3 is a  *)
(* roster identity, 4 shares member 1's surname; districts are 1 and 2.    *)
(***************************************************************************)
EXTENDS ConformedSpans

MCSurname == <<1, 2, 3, 1>>

Quiet == [current |-> 2, sponsors |-> {}, committees |-> {}, ballots |-> {}, events |-> <<>>,
          rostered |-> TRUE, joined |-> {}, minted |-> {}, windows |-> <<>>,
          substitutes |-> {}, neverSeated |-> {}]

SponsorRow(m, b, agency, ld) == [mem |-> m, b |-> b, agency |-> agency, ld |-> ld, party |-> 1]
CommitteeRow(m, b, agency) ==
  [mem |-> m, b |-> b, com |-> IF agency = AgencyHouse THEN 1 ELSE 2, agency |-> agency]
Candidacy(b, special, pos, m, party, votes) ==
  [b |-> b, special |-> special, ld |-> 1, pos |-> pos, names |-> {MCSurname[m]},
   party |-> party, votes |-> votes]
\* A departure names no seat.
EventOf(m, k, d, seat) == SuccessionEvent(m, k, d, IF k = Departed THEN NoSeat ELSE seat, Dated)
AnyBallot == {Candidacy(0, FALSE, 1, 2, 2, NoVotes)}

SomeBiennia == SUBSET Biennia \ {{}}
UpTo(n, S) == UNION {[1..k -> S] : k \in 0..n}
Senators(m, bs, ld) == {SponsorRow(m, b, AgencySenate, ld) : b \in bs}
OnCommittee(m, bs) == {CommitteeRow(m, b, AgencySenate) : b \in bs}

\* One senator's history, redistricted or not, under at most two events.
Careers(m) ==
  {[Quiet EXCEPT !.sponsors = Senators(m, bs \ moved, 1) \cup Senators(m, bs \cap moved, 2),
                 !.committees = OnCommittee(m, bs \ none), !.ballots = AnyBallot, !.events = es] :
     none \in {{0}, Biennia}, bs \in SomeBiennia, moved \in {{}, {2}, {1, 2}},
     es \in UpTo(2, {EventOf(m, k, d, <<Senate, 1>>) :
                       k \in {Departed, Vacated, Seated}, d \in {0, 3, 5, 6, 10}})}

\* Two holders of one seat, the second m of the archive or the roster, each under at most one event.
Handoffs(m) ==
  {LET shared == [Quiet EXCEPT !.sponsors = Senators(1, xs, 1), !.ballots = AnyBallot,
                               !.committees = OnCommittee(1, xs), !.events = a \o b]
   IN IF m = 3 THEN [shared EXCEPT !.minted = {Observation(3, Senate, 1, y, FALSE) : y \in ys}]
      ELSE [shared EXCEPT !.sponsors = @ \cup Senators(2, ys, 1),
                          !.committees = @ \cup OnCommittee(2, ys),
                          !.events = [i \in DOMAIN @ |-> IF @[i].mem = 3 THEN [@[i] EXCEPT !.mem = 2] ELSE @[i]]] :
     xs \in SomeBiennia, ys \in SomeBiennia,
     a \in UpTo(1, {EventOf(1, k, d, <<Senate, 1>>) : k \in {Departed, Seated}, d \in {1, 5, 6}}),
     b \in UpTo(1, {EventOf(3, k, d, <<Senate, 1>>) : k \in {Departed, Seated}, d \in {2, 5, 6}})}

\* Three holders of one seat in one biennium, from both families, the second under up to two events.
Threes(ld) ==
  LET At(m, k, d) == EventOf(m, k, d, <<Senate, ld>>)
      one(m) == UpTo(1, {At(m, k, d) : k \in {Departed, Seated}, d \in {5, 6}})
  IN {[Quiet EXCEPT !.sponsors = Senators(1, {1}, ld), !.ballots = AnyBallot,
                    !.committees = OnCommittee(1, {1}),
                    !.minted = {Observation(3, Senate, ld, y, FALSE) : y \in ys}
                               \cup {Observation(4, Senate, ld, z, FALSE) : z \in zs},
                    !.events = a \o b \o c] :
        ys \in {{0, 1}, {1}}, zs \in {{0, 1}, {1}}, a \in one(1), c \in one(4),
        b \in one(3) \cup {<<At(3, Seated, 5), At(3, Departed, 6)>>}}

\* Two holders in district ld, and one of them the edition lists in district 1 as well.
Neighbours(ld) ==
  {[Quiet EXCEPT !.minted = {Observation(m, Senate, ld, x, FALSE) : m \in {3, 4}, x \in xs}
                            \cup {Observation(3, Senate, 1, y, FALSE) : y \in ys},
                 !.events = es] :
     xs \in SomeBiennia, ys \in SUBSET Biennia,
     es \in UpTo(2, {EventOf(3, Seated, 5, <<Senate, ld>>),
                     EventOf(3, Seated, 6, <<Senate, 1>>),
                     EventOf(4, Departed, 2, NoSeat)})}

\* A clause's window: at a biennium's edge, inside it, before the term, or an election.
Clauses(m) ==
  {EdgeWindow(m, 1, edge, w[1], w[2], FALSE, w[3]) :
     edge \in {StartEdge, EndEdge}, w \in {<<0, 1, FALSE>>, <<1, 3, FALSE>>, <<3, 3, TRUE>>, <<4, 6, FALSE>>, <<5, 7, FALSE>>}}
  \cup {EdgeWindow(m, 1, StartEdge, d, d + 1, TRUE, FALSE) : d \in {1, 6}}

TwoClauses(m) == {w \in [1..2 -> Clauses(m)] :
                    /\ w[1].edge = StartEdge /\ w[2].edge = EndEdge
                    /\ w[1].first = w[2].first}

\* Two roster holders of one seat, each row stating at most a start and an end; the second may return.
Editions(opens) ==
  {[Quiet EXCEPT !.minted = {Observation(3, Senate, 1, x, FALSE) : x \in xs}
                            \cup {Observation(4, Senate, 1, y, y = opens) : y \in ys},
                 !.windows = a \o b, !.events = e] :
     xs \in {{0}, {0, 1}}, ys \in {{0, 1}, {1}},
     a \in UpTo(1, Clauses(3)) \cup TwoClauses(3), b \in UpTo(1, Clauses(4)),
     e \in UpTo(1, {EventOf(4, Seated, 5, <<Senate, 1>>), EventOf(4, Departed, 2, NoSeat)})}

\* A substitute beside a principal, and a row that never sat, current or stale.
Curations(d) ==
  {[Quiet EXCEPT !.minted = {Observation(3, Senate, 1, b, FALSE) : b \in {0, 1}}
                            \cup {Observation(4, k, 1, b, FALSE) : k \in {Senate, Party}, b \in bs},
                 !.substitutes = s, !.neverSeated = n,
                 !.events = <<EventOf(3, Departed, d, <<Senate, 1>>)>>] :
     bs \in SomeBiennia,
     s \in {{}, {<<Roster, 3, Senate, 1, 0>>}, {<<Roster, 4, Senate, 1, 1>>}},
     n \in {{}, {[source |-> Roster, mem |-> 4, district |-> 1, party |-> 1, sb |-> 1, eb |-> 1]}}}

\* A member departs one seat of two and is seated on the other, whose row may never have sat.
Unseated ==
  {[Quiet EXCEPT !.minted = {Observation(4, Senate, ld, 1, FALSE) : ld \in {1, 2}}
                            \cup {Observation(4, Party, 1, b, FALSE) : b \in bs},
                 !.neverSeated = n,
                 !.events = <<EventOf(4, Departed, 5, NoSeat), EventOf(4, Seated, 6, <<Senate, 1>>)>>] :
     bs \in {{0, 1}, {1}},
     n \in {{}, {[source |-> Roster, mem |-> 4, district |-> 1, party |-> 1, sb |-> 1, eb |-> 1]}}}

Rows(m, bs, agency) == {SponsorRow(m, b, agency, 1) : b \in bs}
HouseCommittees(m, bs) == {CommitteeRow(m, b, AgencyHouse) : b \in bs}

\* Member 1 moves to the Senate in biennium b and member 4, of the same name, may follow.
Movers(b) ==
  {[Quiet EXCEPT
      !.sponsors = Rows(1, 0..b, AgencyHouse) \cup Rows(1, b..2, AgencySenate)
                   \cup Rows(2, 0..2, AgencyHouse) \cup Rows(4, b..2, AgencyHouse),
      !.committees = {CommitteeRow(1, x, AgencyHouse) : x \in 0..b} \cup OnCommittee(1, b..2)
                     \cup HouseCommittees(2, seen) \cup HouseCommittees(4, seen),
      !.ballots = {Candidacy(x, FALSE, 1, 1, 1, NoVotes) : x \in one}
                  \cup {Candidacy(x, FALSE, 2, 2, 1, NoVotes) : x \in two},
      !.events = <<EventOf(1, Seated, 4 * b + on, <<Senate, 1>>)>> \o es] :
     on \in {0, 2}, seen \in {0..2, {1}}, one \in {{}, {0}, {1, 2}}, two \in {{0}, {1}, {2}},
     es \in UpTo(2, {EventOf(1, Vacated, 4 * b + 1, <<House, SeatDisc(1, 1)>>),
                     EventOf(4, Seated, 4 * b + 1, <<House, SeatDisc(1, 1)>>),
                     EventOf(4, Seated, 4 * b + 3, <<House, SeatDisc(1, 2)>>),
                     EventOf(2, Departed, 4 * b + 2, NoSeat)})}

\* Two representatives, their ballots and a special, an archive with holes, and what a build refuses.
Ballotings(c) ==
  {[Quiet EXCEPT !.current = c, !.rostered = xs # ys, !.sponsors = Rows(1, xs, AgencyHouse) \cup Rows(2, ys, AgencyHouse),
                 !.committees = HouseCommittees(1, xs) \cup HouseCommittees(2, seen) \cup HouseCommittees(4, {1}),
                 !.ballots = bs] :
     seen \in {{}, {1}}, xs \in SomeBiennia, ys \in {{1}, {0, 1}, {1, 2}},
     bs \in SUBSET {Candidacy(2, FALSE, 1, 1, 1, NoVotes), Candidacy(1, FALSE, 2, 2, 1, NoVotes),
                    Candidacy(1, TRUE, 2, 1, 2, 5), Candidacy(1, TRUE, 2, 2, 1, 4),
                    Candidacy(1, FALSE, 1, 2, 2, NoVotes)}}

MCInputs(case) ==
  CASE case = "careers" -> Careers(1)
    [] case = "handoffs" -> Handoffs(2) \cup Handoffs(3)
    [] case = "threes" -> Threes(1)
    [] case = "neighbours" -> Neighbours(2)
    [] case = "editions" -> Editions(1) \cup Editions(9)
    [] case = "curations" -> Curations(2) \cup Curations(5) \cup Unseated
    [] case = "movers" -> Movers(1) \cup Movers(2)
    [] case = "ballotings" -> Ballotings(1) \cup Ballotings(2)

\* A senator of the current biennium leaves the seat and takes it again.
Returns(case) ==
  {[Quiet EXCEPT !.sponsors = Senators(1, bs, 1), !.ballots = AnyBallot,
                 !.events = <<EventOf(1, Vacated, 9, <<Senate, 1>>),
                              EventOf(1, Seated, d, <<Senate, 1>>)>>] :
     bs \in {{2}, {1, 2}}, d \in {9, 10}}

\* District 2's Senate seat lawfully held two in biennium 0.
MCCapacity == {<<Senate, 2, 0, 3>>}
MCArtifacts == {<<1, 2>>}
=============================================================================
