---------------------------- MODULE ConformedSpans ----------------------------
(***************************************************************************)
(* The nightly tenure build: staged rows, ballots and operator events in,  *)
(* two families of spans out, clipped against each other and published.    *)
(* One action per builder, in build_families' order: the committee spans   *)
(* are the House build's context, both are the sponsor build's, and all    *)
(* three are the roster family's; windows, substitutes and never-seated    *)
(* rows follow, then SeatClipping takes the pairs one at a time.           *)
(*                                                                         *)
(* An input is a record [current, sponsors, committees, ballots, events,   *)
(* rostered, joined, minted, windows, substitutes, neverSeated]: joined    *)
(* and minted are the observations the roster resolve bound to a WSL       *)
(* member and the ones it minted, rostered says the roster had rows.       *)
(***************************************************************************)
EXTENDS ChamberMoves, AnnotationWindows, SeatClipping

CONSTANTS
  Cases,       \* names of the cases of inputs
  Inputs(_),   \* case -> the inputs a build may start from
  Artifacts    \* {<<biennium, member>>}: the roster artifact denylist (#144)

ASSUME ArtifactAssumption == Artifacts \subseteq Biennia \X Nat

\* What the readers give a build: finitely many rows, of numbered districts, candidacies
\* for a district's two positions, and events and clauses that name days of the calendar; a
\* clause's window is a month, a year or an election day, so it lies in one biennium.  The
\* edition attests parties and Senate seats, below its floor; an identity it mints is no
\* member the archive names.
InputFields == {"current", "sponsors", "committees", "ballots", "events", "rostered", "joined",
                "minted", "windows", "substitutes", "neverSeated"}
SponsorRows == [mem : Nat, b : Biennia, agency : {AgencyHouse, AgencySenate}, ld : Nat, party : Nat]
CommitteeRows == [mem : Nat, b : Biennia, com : Nat, agency : {AgencyHouse, AgencySenate}]
Observations == [mem : Nat, kind : Kinds, disc : Nat, b : Biennia, opens : BOOLEAN]
Listings(current) == {o \in Observations : o.kind \in {Party, Senate} /\ o.b <= current}
Events == [mem : Nat, kind : {Departed, Vacated, Seated}, date : Days,
           seat : (Kinds \X Nat) \cup {NoSeat}, basis : {Dated, Derived}]
Windows ==
  {w \in [mem : Nat, disc : Nat, edge : {StartEdge, EndEdge}, first : Days, last : Days,
          election : BOOLEAN, beforeTerm : BOOLEAN] :
     w.first <= w.last /\ BienniumOf(w.first) = BienniumOf(w.last)}
InputFits(in) ==
  /\ InputFields \subseteq DOMAIN in
  /\ in.current \in Biennia
  /\ in.sponsors \subseteq SponsorRows /\ IsFiniteSet(in.sponsors)
  /\ in.committees \subseteq CommitteeRows /\ IsFiniteSet(in.committees)
  /\ \A c \in in.ballots : c.pos \in Positions
  /\ in.events \in Seq(Events)
  /\ \A o \in {in.joined, in.minted} : o \subseteq Listings(in.current) /\ IsFiniteSet(o)
  /\ in.windows \in Seq(Windows)
  /\ \A o \in in.minted : \A r \in in.sponsors \cup in.committees \cup in.joined : o.mem # r.mem

ASSUME InputAssumption == \A case \in Cases : \A in \in Inputs(case) : InputFits(in)

WSL == "wa-legislature"
Roster == "roster-pdf"

VARIABLES
  input,       \* the build's inputs
  stage,       \* the builder that runs next, or how the build ended
  built,       \* the WSL builders' spans, by builder
  families,    \* the families, by source
  departures   \* the departures some WSL overlay applied

buildVars == <<input, stage, built, families, departures>>
vars == <<buildVars, clipVars>>

NoSpans == <<>>
NoMovers == [b \in Biennia |-> {}]
Ended == {"published", "refused", "aborted"}

-----------------------------------------------------------------------------
(* What the build reads.                                                    *)

\* No row of a later biennium is an observation yet (#135).
WithoutFutureBienniums(in) ==
  [in EXCEPT !.sponsors = {r \in @ : r.b <= in.current},
             !.committees = {r \in @ : r.b <= in.current}]

\* A committee row counts in a biennium whose sponsor roster names the member, or has no rows (#469).
WithoutNonLegislators(in) ==
  [in EXCEPT !.committees =
     {r \in @ : \/ RowsOf(in.sponsors, r.b) = {}
                \/ \E s \in RowsOf(in.sponsors, r.b) : s.mem = r.mem}]

MintedMembers == {o.mem : o \in input.minted}
\* The roster family's members leave the WSL overlays (#460).
RosterPositions == {i \in DOMAIN input.events : input.events[i].mem \in MintedMembers}
WSLEvents == Selected(input.events, DOMAIN input.events \ RosterPositions)
RosterEvents == Selected(input.events, RosterPositions)

Exclusions(b) == StaleExclusions(input.sponsors, input.committees, b)
MoversIn == [b \in Biennia |-> HouseMovers(input.sponsors, b)]
HouseRosters ==
  [b \in Biennia |-> HouseRoster(input.sponsors, b, Exclusions(b),
                                 StaleExempt(WSLEvents, b) \ MoversIn[b])]
Ballots == [b \in Biennia |-> MergePositions(input.ballots, b)]
SponsorExclusions ==
  [b \in Biennia |-> (Exclusions(b) \ StaleExempt(WSLEvents, b))
                     \cup {m \in {a[2] : a \in Artifacts} : <<b, m>> \in Artifacts}]

-----------------------------------------------------------------------------
(* The builders.                                                            *)

Init ==
  /\ \E case \in Cases : input \in Inputs(case)
  /\ stage = "judge"
  /\ built = [committee |-> NoSpans, house |-> NoSpans, sponsor |-> NoSpans]
  /\ families = [f \in {WSL, Roster} |-> NoSpans]
  /\ departures = {}
  /\ work = NoSpans /\ unclipped = {} /\ axis = "idle" /\ pending = {}

\* without_future_bienniums, without_non_legislator_committee_rows, and the
\* resolve's refusal of an empty roster under a live sponsor corpus.
JudgeRows ==
  /\ stage = "judge"
  /\ input' = WithoutNonLegislators(WithoutFutureBienniums(input))
  /\ stage' = IF input'.sponsors # {} /\ ~input.rostered THEN "refused" ELSE "committee"
  /\ UNCHANGED <<built, families, departures, clipVars>>

\* A builder's overlaid spans: kept under its name, its departures tallied.
Keep(builder, out, next) ==
  /\ built' = [built EXCEPT ![builder] = SortSpans(out.spans)]
  /\ departures' = departures \cup out.applied
  /\ stage' = next
  /\ UNCHANGED <<input, families, clipVars>>

BuildCommittees ==
  /\ stage = "committee"
  /\ Keep("committee",
          ApplyOperatorEvents(BuildTenureSpans(CommitteeObservations(input.committees), input.current),
                              WSLEvents, input.current, {Committee}, NoMovers, NoSpans),
          "house")

\* No ballot under a live sponsor corpus would delete the family: refused.
RefuseHouse ==
  /\ stage = "house" /\ input.sponsors # {} /\ input.ballots = {}
  /\ stage' = "refused"
  /\ UNCHANGED <<input, built, families, departures, clipVars>>

BuildHouse ==
  /\ stage = "house"
  /\ input.sponsors = {} \/ input.ballots # {}
  /\ LET carried == CarryMoverHouseTenures(BackchainHouse(HouseRosters, Ballots).obs,
                                           ChamberMovesOf(input.sponsors, WSLEvents, Ballots),
                                           WSLEvents)
     IN Keep("house",
             ApplyOperatorEvents(BuildTenureSpans(carried.obs, input.current),
                                 WSLEvents \o carried.implied, input.current, {House},
                                 MoversIn, built.committee),
             "movers")

DateCommittees ==
  /\ stage = "movers"
  /\ built' = [built EXCEPT !.committee =
                 DateMoverCommittees(@, ChamberMovesOf(input.sponsors, WSLEvents, NoMovers),
                                     input.committees, built.house)]
  /\ stage' = "sponsor"
  /\ UNCHANGED <<input, families, departures, clipVars>>

BuildSponsors ==
  /\ stage = "sponsor"
  /\ Keep("sponsor",
          ApplyOperatorEvents(
            BuildTenureSpans(SponsorObservations(input.sponsors, SponsorExclusions) \cup input.joined,
                             input.current),
            WSLEvents, input.current, {Party, Senate}, NoMovers, built.committee \o built.house),
          "roster")

\* The roster family, refused when the overlay made a span the edition never listed.
BuildRoster ==
  /\ stage = "roster"
  /\ LET wsl == SortSpans(built.committee \o built.house \o built.sponsor)
         listed == BuildTenureSpans(input.minted, input.current)
         out == ApplyOperatorEvents(listed, RosterEvents, input.current, {Party, Senate},
                                    NoMovers, wsl)
         tenure(s) == <<s.mem, s.kind, s.disc>>
         unattested == {tenure(s) : s \in Elements(out.spans)} \ {tenure(s) : s \in Elements(listed)}
     IN /\ families' = [families EXCEPT ![WSL] = wsl, ![Roster] = SortSpans(out.spans)]
        /\ stage' = IF unattested # {} THEN "refused" ELSE "windows"
  /\ UNCHANGED <<input, built, departures, clipVars>>

\* The next clause's window; a span its constructor refuses ends the build.
DateEdge ==
  /\ stage = "windows" /\ input.windows # <<>>
  /\ LET dated == ApplyWindow(families, Head(input.windows))
     IN IF \A f \in DOMAIN dated : \A s \in Elements(dated[f]) : WellFormed(s)
        THEN families' = dated /\ stage' = stage
        ELSE UNCHANGED families /\ stage' = "aborted"
  /\ input' = [input EXCEPT !.windows = Tail(@)]
  /\ UNCHANGED <<built, departures, clipVars>>

\* The substitutes and the never-seated rows, each refused when an entry has gone stale.
Curate ==
  /\ stage = "windows" /\ input.windows = <<>>
  /\ LET marked == ApplyMemberships(families, input.substitutes)
         seated == WithoutNeverSeated(marked, input.neverSeated)
         stale == UnmatchedMemberships(seated, input.substitutes) # {}
                  \/ StaleNeverSeated(marked, input.neverSeated) # {}
     IN /\ families' = seated
        /\ stage' = IF stale /\ \E f \in DOMAIN seated : seated[f] # <<>> THEN "refused" ELSE "clip"
  /\ UNCHANGED <<input, built, departures, clipVars>>

\* clip_seat_families: one list over both families, so a handoff across them is seen.
BeginClip ==
  /\ stage = "clip" /\ axis = "idle"
  /\ StartClip(families[WSL] \o families[Roster])
  /\ UNCHANGED buildVars

Clip ==
  /\ stage = "clip"
  /\ ClipNext
  /\ UNCHANGED buildVars

Publish ==
  /\ stage = "clip" /\ axis = "clipped"
  /\ families' = LET n == Len(families[WSL]) IN
       [f \in {WSL, Roster} |-> IF f = WSL THEN SubSeq(work, 1, n) ELSE SubSeq(work, n + 1, Len(work))]
  /\ stage' = "published"
  /\ UNCHANGED <<input, built, departures, clipVars>>

Next ==
  \/ JudgeRows \/ BuildCommittees \/ RefuseHouse \/ BuildHouse \/ DateCommittees
  \/ BuildSponsors \/ BuildRoster \/ DateEdge \/ Curate \/ BeginClip \/ Clip \/ Publish

Spec == Init /\ [][Next]_vars /\ WF_vars(Next)

-----------------------------------------------------------------------------
(* Properties.                                                              *)

AllSpans == Elements(families[WSL]) \cup Elements(families[Roster])
Overlaid == stage \in {"windows", "clip", "published"}

\* The sponsor rows' and the roster's tenures as they are listed, before any event or merge.
ListedSpans ==
  Elements(BuildTenureSpans(SponsorObservations(input.sponsors, SponsorExclusions) \cup input.joined,
                            input.current))
  \cup Elements(BuildTenureSpans(input.minted, input.current))
\* What the operator attests of the member's seatings.
SeatingsOf(m) == {x \in Elements(input.events) : x.mem = m /\ x.kind = Seated}
\* The days on which another tenure of the member starts, or was listed or seated to start; a
\* tenure's rest that an earlier departure split off counts its own seat's seatings too.
StartsElsewhere(s) ==
  {t.from : t \in {x \in AllSpans \cup ListedSpans : x.mem = s.mem /\ Seat(x) # Seat(s)}}
  \cup {x.date : x \in {y \in SeatingsOf(s.mem) : y.seat # Seat(s) \/ s.sbasis = Derived}}
\* The operator seated the member on the tenure's seat that day.
SeatedOn(s, d) == \E x \in SeatingsOf(s.mem) : x.seat = Seat(s) /\ x.date = d
\* A clause, and no seating, dates the start before the biennium the tenure's key names: a seating
\* of that day dates an earlier tenure of the seat when the member has one.
BroughtForward(s) ==
  /\ s.from < FirstDay(s.sb)
  /\ SeatedOn(s, s.from) =>
       \E t \in ListedSpans : t.mem = s.mem /\ Seat(t) = Seat(s) /\ t.sb < s.sb

\* A departure holds: no seat or committee of the member runs across its date, unless the member
\* was seated on it that very day, came back in the biennium of the tenure's key (elsewhere, or
\* on its own seat for a rest a departure split off), or a clause and no seating brought the
\* tenure's start forward of a biennium the departure precedes.
DeparturesHold ==
  Overlaid => \A e \in Elements(input.events) : e.kind = Departed =>
    \A s \in AllSpans :
      s.mem = e.mem /\ s.kind # Party /\ s.from <= e.date /\ e.date < s.to =>
        \/ SeatedOn(s, e.date)
        \/ \E d \in StartsElsewhere(s) : e.date < d /\ BienniumOf(d) = s.sb
        \/ e.date < FirstDay(s.sb) /\ BroughtForward(s)

\* A tenure never starts after the biennium its key names, the interval of each boundary is
\* ordered and an observed edge is a biennium's own (dbt/tests/
\* assignments_start_in_key_biennium.sql and assignments_boundary_intervals.sql).
BoundariesAgree ==
  \A s \in AllSpans \cup Elements(work) :
    /\ BienniumOf(s.from) <= s.sb
    /\ s.from <= ValidFromLatest(s) /\ ValidFromLatest(s) <= s.to
    /\ s.from <= ValidToEarliest(s) /\ ValidToEarliest(s) <= s.to
    /\ s.sbasis = Observed => s.from = FirstDay(s.sb)
    /\ s.ebasis = Observed => s.to = LastDay(s.eb)

\* One published tenure per source, member, seat and starting biennium
\* (dbt/tests/assignments_key.sql).
KeysUnique ==
  Overlaid => \A f \in DOMAIN families : \A i, j \in DOMAIN families[f] :
    i # j => Key(families[f][i]) # Key(families[f][j])

Clipped == stage = "clip" /\ axis = "clipped"
CertainlyOverlap(a, b) ==
  Later(ValidFromLatest(a), ValidFromLatest(b)) < Earlier(ValidToEarliest(a), ValidToEarliest(b))

\* Two principals of one seat who certainly held it at once after the clip are in its report.
OverlapsReported ==
  Clipped => \A i, j \in DOMAIN work :
    /\ work[i].mem # work[j].mem /\ Seat(work[i]) = Seat(work[j])
    /\ work[i].kind \in SingleHolderKinds
    /\ work[i].type = Principal /\ work[j].type = Principal
    /\ CertainlyOverlap(work[i], work[j])
    => \E r \in unclipped : r.pair = {i, j}

\* Below the ballot nobody guesses: one House position names two members in a biennium only
\* when two ballots do, no seed travels further than its hops, and none crosses a new map.
SeatsNotGuessed ==
  stage = "house" =>
    LET chain == BackchainHouse(HouseRosters, Ballots)
    IN /\ \A x, y \in chain.obs :
            x.mem # y.mem /\ x.disc = y.disc /\ x.b = y.b =>
              <<x.mem, x.b>> \in chain.ballot /\ <<y.mem, y.b>> \in chain.ballot
       /\ \A d \in chain.depth :
            /\ d[3] <= MaxHops
            /\ d[3] > 0 => (d[2] + 1)..(d[2] + d[3]) \cap EraStarts = {}
=============================================================================
