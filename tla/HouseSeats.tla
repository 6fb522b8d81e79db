------------------------------ MODULE HouseSeats ------------------------------
(***************************************************************************)
(* Who sits in which House seat: the sponsor wire says who is a member of  *)
(* a district, the ballot says which of its two positions they ran for,    *)
(* and elimination and the back-chain fill what the ballot cannot name.    *)
(*                                                                         *)
(* A sponsor row is [mem, b, agency, ld, party] (a named person; ld 0 is a *)
(* blank district, party 0 no major party); a committee row is             *)
(* [mem, b, com, agency]; a candidacy is [b, special, ld, pos, names,      *)
(* party, votes], special for the odd November's.  Rows of one biennium    *)
(* are read in member order, at most one per member and agency.            *)
(***************************************************************************)
EXTENDS OperatorOverlay

CONSTANTS
  Surname,       \* member -> the folded surname of their rows
  EraStarts,     \* REDISTRICTING_ERA_START_BIENNIA
  MaxHops,       \* max_backchain_hops
  MinCoverage    \* stale_min_coverage, in percent

ASSUME HouseAssumption == /\ EraStarts \subseteq Biennia /\ MaxHops \in Nat
                          /\ MinCoverage \in 0..100

AgencyHouse == "House"
AgencySenate == "Senate"
Positions == {1, 2}
SeatDisc(ld, pos) == 10 * ld + pos       \* house_span_discriminator
LdOf(disc) == disc \div 10               \* parse_house_span_discriminator
PosOf(disc) == disc % 10
NoPosition == 0
NoVotes == -1

RowsOf(rows, b) == {r \in rows : r.b = b}

-----------------------------------------------------------------------------
(* The hygiene of the sponsor rows (#105).                                  *)

Active(committeeRows, b) == {r.mem : r \in RowsOf(committeeRows, b)}

\* Named members on no committee, unless the committee archive covers too few (#44, #56).
StaleCandidates(rows, committeeRows, b) ==
  LET named == {r.mem : r \in RowsOf(rows, b)}
      covered == named \cap Active(committeeRows, b)
  IN IF Active(committeeRows, b) = {}
        \/ Cardinality(covered) * 100 < MinCoverage * Cardinality(named)
     THEN {} ELSE named \ covered

\* The tail rule: absent now and in every later biennium.
StaleExclusions(rows, committeeRows, b) ==
  {m \in StaleCandidates(rows, committeeRows, b) :
     \A c \in (b + 1)..LastBiennium : m \notin Active(committeeRows, c)}

HouseMovers(rows, b) ==
  {r.mem : r \in {x \in RowsOf(rows, b) :
      /\ x.agency = AgencyHouse /\ x.ld # 0
      /\ \E y \in RowsOf(rows, b) : y.mem = x.mem /\ y.agency = AgencySenate}}

\* The House rows of a biennium less its movers and the excluded, keep exempt from both.
HouseRoster(rows, b, exclude, keep) ==
  {r \in RowsOf(rows, b) :
     /\ r.agency = AgencyHouse /\ r.ld # 0
     /\ r.mem \in keep \/ r.mem \notin HouseMovers(rows, b) \cup exclude}

SponsorObservations(rows, exclusions) ==
  LET kept == {r \in rows : r.mem \notin exclusions[r.b]}
  IN {Observation(r.mem, Party, r.party, r.b, FALSE) : r \in {x \in kept : x.party # 0}}
     \cup {Observation(r.mem, Senate, r.ld, r.b, FALSE) :
             r \in {x \in kept : x.agency = AgencySenate /\ x.ld # 0}}

CommitteeObservations(committeeRows) ==
  {Observation(r.mem, Committee, r.com, r.b, FALSE) : r \in committeeRows}

-----------------------------------------------------------------------------
(* The ballot.                                                              *)

\* The unambiguous winner of a race: alone, or the one top count when all are counted.
TopVoteWinner(race) ==
  {c \in race : \/ race = {c}
                \/ /\ \A x \in race : x.votes # NoVotes
                   /\ \A x \in race \ {c} : x.votes < c.votes}

\* The even November's candidacies and the odd November's winners (#123).
MergePositions(ballots, b) ==
  LET ofB == {c \in ballots : c.b = b}
      special == {c \in ofB : c.special}
  IN (ofB \ special)
     \cup UNION {TopVoteWinner({x \in special : x.ld = c.ld /\ x.pos = c.pos}) : c \in special}

\* One position, or one within the party; never guessed.
PositionFor(cands, ld, surname, party) ==
  LET hits == {c \in cands : c.ld = ld /\ surname \in c.names}
      all == {c.pos : c \in hits}
      own == {c.pos : c \in {x \in hits : x.party = party}}
  IN CASE Cardinality(all) = 1 -> CHOOSE p \in all : TRUE
       [] Cardinality(all) > 1 /\ party # 0 /\ Cardinality(own) = 1 -> CHOOSE p \in own : TRUE
       [] OTHER -> NoPosition

-----------------------------------------------------------------------------
(* One biennium's projection: <<member, ld, position>> by ballot, by seed   *)
(* and by elimination.                                                      *)

SeatedIn(ld, S) == {t \in S : t[2] = ld}
Claimed(S) == {t[3] : t \in S}

\* Mutant: a seed is taken whoever holds its position.
SeedUnclaimed(ld, unmatched, matched, seeds) ==
  {<<s.mem, ld, s.pos>> : s \in {x \in seeds : x.ld = ld /\ x.mem \in unmatched}}

\* Seeds of a district, in row order, each for a position still unclaimed (#118).
SeedDistrict(ld, unmatched, matched, seeds) ==
  LET order == Ranked(unmatched, LAMBDA m : <<m>>)
      f[n \in 0..Len(order)] ==
        IF n = 0 THEN {}
        ELSE LET own == {s \in seeds : s.mem = order[n] /\ s.ld = ld
                           /\ s.pos \notin Claimed(f[n - 1] \cup SeatedIn(ld, matched))}
             IN f[n - 1] \cup {<<s.mem, ld, s.pos>> : s \in own}
  IN f[Len(order)]

Members(ld, S) == {t[1] : t \in SeatedIn(ld, S)}
Entries(roster, ld) == {r.mem : r \in {x \in roster : x.ld = ld}}
Lds(roster) == {r.ld : r \in roster}

MatchedSeats(roster, cands) ==
  {t \in {<<r.mem, r.ld, PositionFor(cands, r.ld, Surname[r.mem], r.party)>> : r \in roster} :
     t[3] # NoPosition}

SeededSeats(roster, matched, seeds) ==
  UNION {SeedDistrict(ld, Entries(roster, ld) \ Members(ld, matched), matched, seeds) :
           ld \in Lds(roster)}

\* One of two entries is resolved: the other has the other position.
InferredSeats(roster, resolved) ==
  UNION {LET left == Entries(roster, ld) \ Members(ld, resolved)
             free == Positions \ Claimed(SeatedIn(ld, resolved))
         IN IF Cardinality(Entries(roster, ld)) = 2 /\ Cardinality(left) = 1 /\ Cardinality(free) = 1
            THEN {<<m, ld, p>> : m \in left, p \in free} ELSE {} : ld \in Lds(roster)}

HouseSeatProjection(roster, matched, seeds) ==
  LET seeded == SeededSeats(roster, matched, seeds)
  IN [matched |-> matched, seeded |-> seeded,
      inferred |-> InferredSeats(roster, matched \cup seeded)]

\* A classified seat, a seed's with the hops it has travelled.
Classified(proj, seeds) ==
  {[mem |-> t[1], ld |-> t[2], pos |-> t[3], hops |-> 0] : t \in proj.matched}
  \cup {[mem |-> t[1], ld |-> t[2], pos |-> t[3],
         hops |-> (CHOOSE s \in seeds : s.mem = t[1]).hops] : t \in proj.seeded}

\* A biennium's projection joins the chain and leaves the seeds of the one before it.
Chained(chain, b, proj, class) ==
  [obs |-> chain.obs \cup {Observation(t[1], House, SeatDisc(t[2], t[3]), b, FALSE) :
             t \in proj.matched \cup proj.seeded \cup proj.inferred},
   seeds |-> IF b \in EraStarts THEN {}
             ELSE {[s EXCEPT !.hops = @ + 1] : s \in {x \in class : x.hops < MaxHops}},
   ballot |-> chain.ballot \cup {<<t[1], b>> : t \in proj.matched},
   depth |-> chain.depth \cup {<<s.mem, b, s.hops>> : s \in class}]

ChainBack(chain, b, proj) == Chained(chain, b, proj, Classified(proj, chain.seeds))

\* Newest to oldest, each biennium seeding the one before it (#118).
BackchainHouse(rosters, cands) ==
  LET step[k \in 0..LastBiennium + 1] ==
        IF k = 0 THEN [obs |-> {}, seeds |-> {}, ballot |-> {}, depth |-> {}]
        ELSE LET b == LastBiennium + 1 - k
             IN ChainBack(step[k - 1], b,
                          HouseSeatProjection(rosters[b], MatchedSeats(rosters[b], cands[b]),
                                              step[k - 1].seeds))
  IN step[LastBiennium + 1]
=============================================================================
