------------------------- MODULE Departures_proofs --------------------------
(***************************************************************************)
(* An attested departure ends what it must, for any rows, ballots,         *)
(* events, clauses, calendar, capacity and maps (DeparturesStand).         *)
(*   - The overlay applies a member's events in order, the seatings        *)
(*     first: SeatInv holds of its spans until its first departure.        *)
(*   - From there SweptFrom and Heeded hold of the spans and of the        *)
(*     departures applied so far, and OverlayLeaves says of every          *)
(*     departure a span still runs across why it does.                     *)
(*   - BuilderJoins adds a builder's spans to those built before.          *)
(*   - Past the overlays a step only makes spans that follow (Follows)     *)
(*     those it was given, and KeptByFollowers takes the conclusion        *)
(*     through it.                                                         *)
(* DepartInv says so of the spans built, of the families and of the        *)
(* clip's list.                                                            *)
(***************************************************************************)
EXTENDS ConformedSpans_proofs

\* Sorted events are the events, those about a seat before the departures and each by date.
LEMMA SortedEvents ==
  ASSUME NEW s \in Seq(Events), NEW t, Ordered(t, s)
  PROVE  /\ t \in Seq(Events)
         /\ Elements(t) = Elements(s)
         /\ \A m, n \in DOMAIN t : m < n =>
              /\ t[m].kind = Departed => t[n].kind = Departed
              /\ (t[m].kind = Departed <=> t[n].kind = Departed) => t[m].date <= t[n].date
<1> DEFINE P == DOMAIN s
           K(i) == EventOrder(s[i])
           key == [i \in P |-> EventOrder(s[i])]
<1>1. key \in [P -> [1..2 -> Int]]
  <2>1. ASSUME NEW i \in P PROVE EventOrder(s[i]) \in [1..2 -> Int]
    <3>1. s[i] \in Events
      OBVIOUS
    <3>2. s[i].date \in Int
      BY <3>1, EventFacts
    <3> QED BY <3>2 DEF EventOrder
  <2> QED BY <2>1
<1>2. \A i \in P : key[i] = K(i)
  OBVIOUS
<1> HIDE DEF key, P, K
<1>3. \A i \in P : {j \in P : Precedes(key[j], key[i]) \/ (key[j] = key[i] /\ j < i)}
                   = {j \in P : Precedes(K(j), K(i)) \/ (K(j) = K(i) /\ j < i)}
  BY <1>2
<1> DEFINE byKey(n) == CHOOSE i \in P : Cardinality({j \in P : Precedes(key[j], key[i]) \/ (key[j] = key[i] /\ j < i)}) = n - 1
           byK(n) == CHOOSE i \in P : Cardinality({j \in P : Precedes(K(j), K(i)) \/ (K(j) = K(i) /\ j < i)}) = n - 1
<1>4. \A n : byKey(n) = byK(n)
  BY <1>3, Zenon
<1>5. RankedBy(P, key) = Ranked(P, K)
  <2>1. RankedBy(P, key) = [n \in 1..Cardinality(P) |-> byKey(n)]
    BY Zenon DEF RankedBy
  <2>2. Ranked(P, K) = [n \in 1..Cardinality(P) |-> byK(n)]
    BY Zenon DEF Ranked
  <2> HIDE DEF byKey, byK
  <2> QED BY <1>4, <2>1, <2>2
<1>6. Sorts(t, s, key)
  BY <1>5, Zenon DEF Sorts, Ordered, SortBy, P, K
<1>7. key \in [DOMAIN s -> [1..2 -> Int]]
  BY <1>1 DEF P
<1>8. t \in Seq(Events) /\ KeepsOrder(t, s, key)
  BY <1>6, <1>7, SortedOrder
<1>9. ASSUME NEW m \in DOMAIN t, NEW n \in DOMAIN t, m < n
      PROVE  /\ t[m].kind = Departed => t[n].kind = Departed
             /\ (t[m].kind = Departed <=> t[n].kind = Departed) => t[m].date <= t[n].date
  <2>1. PICK i \in DOMAIN s, j \in DOMAIN s : t[m] = s[i] /\ t[n] = s[j] /\ ~Precedes(key[j], key[i])
    BY <1>8, <1>9 DEF KeepsOrder
  <2> DEFINE x == s[i]
             y == s[j]
  <2>2. key[i] = EventOrder(x) /\ key[j] = EventOrder(y)
    BY <1>2 DEF P, K
  <2>3. x.date \in Int /\ y.date \in Int
    <3>1. x \in Events /\ y \in Events
      OBVIOUS
    <3> HIDE DEF x, y
    <3> QED BY <3>1, EventFacts
  <2> HIDE DEF x, y
  <2> DEFINE cx == IF x.kind = Departed THEN 1 ELSE 0
             cy == IF y.kind = Departed THEN 1 ELSE 0
             kx == <<cx, x.date>>
             ky == <<cy, y.date>>
  <2>4. ~Precedes(ky, kx)
    BY <2>1, <2>2 DEF EventOrder
  <2>5. DOMAIN ky = 1..2 /\ ky[1] = cy /\ kx[1] = cx /\ ky[2] = y.date /\ kx[2] = x.date
        /\ cx \in Int /\ cy \in Int
    OBVIOUS
  <2> HIDE DEF kx, ky
  <2>6. ~(ky[1] < kx[1]) /\ ~(ky[2] < kx[2] /\ ky[1] = kx[1])
    <3>1. ASSUME ky[1] < kx[1] PROVE FALSE
      <4>1. 1 \in DOMAIN ky /\ \A l \in 1..(1 - 1) : ky[l] = kx[l]
        BY <2>5
      <4> QED BY <2>4, <3>1, <4>1 DEF Precedes
    <3>2. ASSUME ky[2] < kx[2], ky[1] = kx[1] PROVE FALSE
      <4>1. 2 \in DOMAIN ky /\ \A l \in 1..(2 - 1) : ky[l] = kx[l]
        BY <2>5, <3>2
      <4> QED BY <2>4, <3>2, <4>1 DEF Precedes
    <3> QED BY <3>1, <3>2
  <2>7. ~(cy < cx) /\ ~(y.date < x.date /\ cy = cx)
    BY <2>5, <2>6
  <2>8. t[m] = x /\ t[n] = y
    BY <2>1 DEF x, y
  <2> QED BY <2>3, <2>7, <2>8
<1> QED BY <1>8, <1>9 DEF Elements, KeepsOrder

\* Each span of the set is listed once.
LEMMA InKeyOrderOnce ==
  ASSUME NEW S \in SUBSET Typed, IsFiniteSet(S),
         \A s, t \in S : KeyOrder(s) = KeyOrder(t) => s = t
  PROVE  \A m, n \in DOMAIN InKeyOrder(S) : m # n => InKeyOrder(S)[m] # InKeyOrder(S)[n]
<1> DEFINE R == {p \in S \X S : Precedes(KeyOrder(p[1]), KeyOrder(p[2]))}
           N == Cardinality(S)
           low(s) == {t \in S : Precedes(KeyOrder(t), KeyOrder(s))}
           at == [n \in 1..N |-> CHOOSE s \in S : Cardinality(low(s)) = n - 1]
<1>1. \A i, j \in S : <<i, j>> \in R <=> Precedes(KeyOrder(i), KeyOrder(j))
  OBVIOUS
<1>2. \A i \in S : KeyOrder(i) \in [1..4 -> Int]
  BY KeyOrderTyped
<1> HIDE DEF R
<1>3. \A i \in S : <<i, i>> \notin R
  BY <1>1, <1>2, PrecedesOrder
<1>4. ASSUME NEW i \in S, NEW j \in S, NEW k \in S, <<i, j>> \in R, <<j, k>> \in R
      PROVE  <<i, k>> \in R
  <2>1. Precedes(KeyOrder(i), KeyOrder(j)) /\ Precedes(KeyOrder(j), KeyOrder(k))
           => Precedes(KeyOrder(i), KeyOrder(k))
    BY <1>2, PrecedesOrder
  <2> QED BY <1>1, <1>4, <2>1
<1>5. ASSUME NEW i \in S, NEW j \in S, i # j PROVE <<i, j>> \in R \/ <<j, i>> \in R
  <2>1. Precedes(KeyOrder(i), KeyOrder(j)) \/ Precedes(KeyOrder(j), KeyOrder(i))
    BY <1>2, <1>5, PrecedesOrder
  <2> QED BY <1>1, <2>1
<1>6. \A i \in S : Below(S, R, i) = low(i)
  BY <1>1 DEF Below
<1> HIDE DEF low
<1>7. N \in Nat /\ \A n \in 1..N : \E i \in S : Cardinality(low(i)) = n - 1
  <2>1. Orders(S, R)
    BY <1>3, <1>4, <1>5 DEF Orders
  <2>3. /\ Cardinality(S) \in Nat
        /\ \A n \in 1..Cardinality(S) : \E i \in S : Cardinality(Below(S, R, i)) = n - 1
    BY <2>1, RanksCover
  <2> QED BY <1>6, <2>3
<1>8. ASSUME NEW n \in 1..N PROVE Cardinality(low(at[n])) = n - 1
  <2>1. at[n] = CHOOSE s \in S : Cardinality(low(s)) = n - 1
    OBVIOUS
  <2> HIDE DEF at
  <2> QED BY <1>7, <2>1
<1>9. InKeyOrder(S) = at /\ DOMAIN at = 1..N
  <2>1. InKeyOrder(S) = at
    BY Zenon DEF InKeyOrder, low
  <2> QED BY <2>1
<1> HIDE DEF at, N
<1>10. ASSUME NEW m \in 1..N, NEW n \in 1..N, at[m] = at[n] PROVE m = n
  <2>1. Cardinality(low(at[m])) = m - 1 /\ Cardinality(low(at[n])) = n - 1
    BY <1>8
  <2>2. m - 1 = n - 1
    BY <1>10, <2>1, Zenon
  <2> QED BY <1>7, <2>2
<1> QED BY <1>9, <1>10

\* What a build starts from is observed, starts with its biennium, has an observation of its key
\* and shares the key with no other.
LEMMA ListedFacts ==
  ASSUME NEW obs \in SUBSET Observations, IsFiniteSet(obs), NEW current \in Biennia,
         NEW spans, spans = BuildTenureSpans(obs, current)
  PROVE  /\ spans \in Seq(BareSpan)
         /\ \A i \in DOMAIN spans :
              /\ spans[i].sbasis = Observed /\ spans[i].from = FirstDay(spans[i].sb)
              /\ \E o \in obs : /\ o.mem = spans[i].mem /\ o.kind = spans[i].kind
                                /\ o.disc = spans[i].disc /\ o.b = spans[i].sb
         /\ \A i, j \in DOMAIN spans : i # j => Key(spans[i]) # Key(spans[j])
<1> DEFINE S == UNION {{RunOf(obs, current, g, h) : h \in HeadsOf(obs, g)} : g \in GroupsOf(obs)}
           f == [o \in obs |-> RunOf(obs, current, <<o.mem, o.kind, o.disc>>, o.b)]
           T == {f[o] : o \in obs}
<1>0. spans \in Seq(BareSpan)
  BY BuildStays
<1>1. \A s \in S : \E g \in GroupsOf(obs) : \E h \in HeadsOf(obs, g) : s = RunOf(obs, current, g, h)
  OBVIOUS
<1> HIDE DEF S
<1>2. S \subseteq BareSpan
  BY <1>1, RunFits
<1>3. ASSUME NEW s \in S
      PROVE  \E g \in GroupsOf(obs) : \E h \in HeadsOf(obs, g) :
               /\ s = RunOf(obs, current, g, h)
               /\ s.mem = g[1] /\ s.kind = g[2] /\ s.disc = g[3] /\ s.sb = h
               /\ s.sbasis = Observed /\ s.from = FirstDay(s.sb)
               /\ \E o \in obs : g = <<o.mem, o.kind, o.disc>> /\ h = o.b
  <2>0. PICK g \in GroupsOf(obs) : \E h \in HeadsOf(obs, g) : s = RunOf(obs, current, g, h)
    BY <1>1
  <2>1. PICK h \in HeadsOf(obs, g) : s = RunOf(obs, current, g, h)
    BY <2>0
  <2>2. /\ s.mem = g[1] /\ s.kind = g[2] /\ s.disc = g[3] /\ s.sb = h
        /\ \E o \in obs : g = <<o.mem, o.kind, o.disc>> /\ h = o.b
    BY <2>1, RunFits
  <2>3. s.sbasis = Observed /\ s.from = FirstDay(h)
    <3> DEFINE e == RunEnd({o.b : o \in {x \in obs : <<x.mem, x.kind, x.disc>> = g}},
                           {o.b : o \in {p \in {x \in obs : <<x.mem, x.kind, x.disc>> = g} : p.opens}}, h)
               to == IF e = current THEN Open ELSE LastDay(e)
               ebasis == IF e = current THEN OpenEnd ELSE Observed
    <3>1. s = NewSpan(g[1], g[2], g[3], h, e, FirstDay(h), to, Observed, ebasis)
      BY <2>1, Zenon DEF RunOf
    <3> HIDE DEF e, to, ebasis
    <3> QED BY <3>1 DEF NewSpan
  <2> QED BY <2>1, <2>2, <2>3
<1>4. IsFiniteSet(S)
  <2>1. f \in Surjection(obs, T)
    BY DEF Surjection
  <2>2. S \subseteq T
    <3>1. ASSUME NEW s \in S PROVE s \in T
      <4>1. PICK g \in GroupsOf(obs) : \E h \in HeadsOf(obs, g) :
               /\ s = RunOf(obs, current, g, h)
               /\ \E o \in obs : g = <<o.mem, o.kind, o.disc>> /\ h = o.b
        BY <1>3
      <4>2. PICK o \in obs : s = RunOf(obs, current, <<o.mem, o.kind, o.disc>>, o.b)
        BY <4>1
      <4> QED BY <4>2
    <3> QED BY <3>1
  <2> HIDE DEF f, T
  <2>3. IsFiniteSet(T)
    BY <2>1, FS_Surjection
  <2> QED BY <2>2, <2>3, FS_Subset
<1>5. ASSUME NEW s \in S, NEW t \in S, s.mem = t.mem, s.kind = t.kind, s.disc = t.disc, s.sb = t.sb
      PROVE  s = t
  <2>1. PICK g \in GroupsOf(obs) : \E h \in HeadsOf(obs, g) :
               /\ s = RunOf(obs, current, g, h)
               /\ s.mem = g[1] /\ s.kind = g[2] /\ s.disc = g[3] /\ s.sb = h
    BY <1>3
  <2>2. PICK k \in GroupsOf(obs) : \E l \in HeadsOf(obs, k) :
               /\ t = RunOf(obs, current, k, l)
               /\ t.mem = k[1] /\ t.kind = k[2] /\ t.disc = k[3] /\ t.sb = l
    BY <1>3
  <2>3. g = <<g[1], g[2], g[3]>> /\ k = <<k[1], k[2], k[3]>>
    BY DEF GroupsOf
  <2>4. g = k
    BY <1>5, <2>1, <2>2, <2>3
  <2> QED BY <1>5, <2>1, <2>2, <2>4
<1>6. S \in SUBSET Typed
  BY <1>2, BareIsTyped
<1>7. \A s, t \in S : KeyOrder(s) = KeyOrder(t) => s = t
  BY <1>5, <1>6, KeyOrderInjects
<1>8. spans = InKeyOrder(S)
  BY BuildIsRuns DEF S
<1>9. spans \in Seq(S) /\ \A m, n \in DOMAIN spans : m # n => spans[m] # spans[n]
  BY <1>4, <1>6, <1>7, <1>8, InKeyOrderStays, InKeyOrderOnce
<1>10. ASSUME NEW i \in DOMAIN spans
       PROVE  /\ spans[i].sbasis = Observed /\ spans[i].from = FirstDay(spans[i].sb)
              /\ \E o \in obs : /\ o.mem = spans[i].mem /\ o.kind = spans[i].kind
                                /\ o.disc = spans[i].disc /\ o.b = spans[i].sb
  <2> DEFINE s == spans[i]
  <2>1. s \in S
    BY <1>9
  <2> HIDE DEF s
  <2>2. PICK g \in GroupsOf(obs) : \E h \in HeadsOf(obs, g) :
               /\ s.mem = g[1] /\ s.kind = g[2] /\ s.disc = g[3] /\ s.sb = h
               /\ s.sbasis = Observed /\ s.from = FirstDay(s.sb)
               /\ \E o \in obs : g = <<o.mem, o.kind, o.disc>> /\ h = o.b
    BY <1>3, <2>1
  <2>3. PICK o \in obs : g = <<o.mem, o.kind, o.disc>> /\ s.sb = o.b
    BY <2>2
  <2>4. o.mem = s.mem /\ o.kind = s.kind /\ o.disc = s.disc /\ o.b = s.sb
    BY <2>2, <2>3
  <2> QED BY <2>2, <2>4 DEF s
<1>11. ASSUME NEW i \in DOMAIN spans, NEW j \in DOMAIN spans, Key(spans[i]) = Key(spans[j]) PROVE i = j
  <2>1. spans[i] \in S /\ spans[j] \in S
    BY <1>9
  <2>2. spans[i] = spans[j]
    BY <1>5, <1>11, <2>1 DEF Key
  <2> QED BY <1>9, <2>2
<1> QED BY <1>0, <1>10, <1>11

(***************************************************************************)
(* The overlay's state, before its first departure and after some.         *)
(***************************************************************************)

\* A sitting's first day is a start of its own; a party's or a Senate seat's is a listing's.
Sittings == {House, Committee}
Listeds == {Party, Senate}

\* Of one member and seat.
SameTenure(s, t) == s.mem = t.mem /\ s.kind = t.kind /\ s.disc = t.disc
\* One of the seatings X is of the tenure's seat, on that day.
SeatedThen(X, s, d) == \E x \in X : OnSeatOf(s, x) /\ x.date = d
\* The seatings of E an overlay that owns these kinds applies.
SeatingsIn(E, owned) == {x \in E : x.kind = Seated /\ x.seat[1] \in owned}

\* The start is its biennium's first day, a listed one for a party or a Senate seat, or a seating's day.
StartKnown(s, L, X) ==
  \/ /\ s.from = FirstDay(s.sb)
     /\ s.kind \in Listeds => \E t \in L : SameTenure(s, t) /\ t.from = s.from
  \/ SeatedThen(X, s, s.from)

\* t continues the seat s is of, and starts in the biennium of s's key.
Ahead(s, t) == t.mem = s.mem /\ Seat(t) = Seat(s) /\ s.from <= t.from /\ BienniumOf(t.from) = s.sb
\* A seating of the biennium before an observed Senate tenure's dates an earlier one.
SeatedBefore(s, L, X) ==
  s.sbasis = Observed /\ s.kind = Senate =>
    \A x \in X : OnSeatOf(s, x) /\ BienniumOf(x.date) = s.sb - 1 =>
      \E t \in L : SameTenure(s, t) /\ t.sb < s.sb

\* What the seatings leave of one span: its start is known and within a biennium of its key's, and
\* moves before its key's biennium only by a seating.
SpanSeated(s, seated, L, current, M, owned, X) ==
  /\ s.mem \in M /\ s.kind \in owned
  /\ Key(s) \notin DOMAIN seated => s.from = FirstDay(s.sb)
  /\ StartKnown(s, L, X)
  /\ FirstDay(s.sb - 1) <= s.from
  /\ s.kind \in Listeds => s.sb <= current /\ (s.sb = current \/ \E t \in L : SameTenure(s, t) /\ t.sb = s.sb)
  /\ s.sbasis = Observed /\ Key(s) \in DOMAIN seated => FirstDay(s.sb) <= seated[Key(s)]
  /\ SeatedBefore(s, L, X)

\* Of two spans of a seat the earlier ends before the later starts.
PairSeated(s, t) ==
  /\ Ahead(s, t) => s.to < t.from
  /\ s.sbasis = Observed /\ Key(s) = Key(t) => FirstDay(t.sb) <= t.from

\* The overlay's state before its first departure (ApplyOperatorEvents): seatings come first, in
\* the order of their days, and every day registered is one of them.
SeatInv(o, L, current, M, owned, X) ==
  /\ \A i \in DOMAIN o.spans : SpanSeated(o.spans[i], o.seated, L, current, M, owned, X)
  /\ \A i, j \in DOMAIN o.spans : i # j => PairSeated(o.spans[i], o.spans[j])
  /\ \A k \in DOMAIN o.seated : \E x \in X : x.mem = k[1] /\ x.seat = <<k[2], k[3]>> /\ x.date = o.seated[k]

\* Where a departure's sweep looks for a return: the spans p before the departures, and the context.
Origins(p, context) == Elements(p.spans) \cup Elements(context)
\* The tenure runs across the event's day.
RunsAcross(s, e) == s.mem = e.mem /\ s.from <= e.date /\ e.date < s.to
\* The same tenure, started the same day on the same basis.
SameStart(s, t) == SameTenure(s, t) /\ s.sb = t.sb /\ s.from = t.from /\ s.sbasis = t.sbasis
\* The rest a departure split off where the member came back.
Returned(s, p, context) ==
  /\ s.sbasis = Derived /\ s.sb = BienniumOf(s.from)
  /\ \E u \in Origins(p, context) : u.mem = s.mem /\ u.from = s.from
  /\ \E t \in Elements(p.spans) : t.mem = s.mem /\ t.kind = s.kind
\* Why a span running across a departure is left: a seating of its seat that day or, for a rest, a
\* later one; or a return elsewhere, in its key's biennium.
HeldBy(s, e, U, X) ==
  \/ SeatedThen(X, s, e.date)
  \/ s.sbasis = Derived /\ \E x \in X : OnSeatOf(s, x) /\ e.date < x.date /\ BienniumOf(x.date) = s.sb
  \/ \E u \in U : u.mem = s.mem /\ Seat(u) # Seat(s) /\ e.date < u.from /\ BienniumOf(u.from) = s.sb

\* The state after some departures: each span of p started as it did and ends no later, and the
\* others are rests.
SweptFrom(o, p, context) ==
  /\ o.seated = p.seated
  /\ Len(p.spans) <= Len(o.spans)
  /\ \A i \in DOMAIN p.spans : SameStart(o.spans[i], p.spans[i]) /\ o.spans[i].to <= p.spans[i].to
  /\ \A i \in DOMAIN o.spans : i > Len(p.spans) => Returned(o.spans[i], p, context)
\* Each departure of D ended what it should.
Heeded(o, p, context, D, X) ==
  \A e \in D : \A i \in DOMAIN o.spans :
    RunsAcross(o.spans[i], e) => HeldBy(o.spans[i], e, Origins(p, context), X)

\* What the overlay leaves running across a departure, said of the seatings X and the spans W that
\* mark a start, and no longer of the overlay's state.
Excused(s, e, X, W) ==
  \/ SeatedThen(X, s, e.date)
  \/ \E x \in X : /\ x.mem = s.mem /\ (x.seat # Seat(s) \/ s.sbasis = Derived)
                  /\ e.date < x.date /\ BienniumOf(x.date) = s.sb
  \/ \E t \in W : t.mem = s.mem /\ Seat(t) # Seat(s) /\ e.date < t.from /\ BienniumOf(t.from) = s.sb
\* The sittings of S that start in their key's biennium; a sitting that does not was seated then.
Marks(S) == {t \in S : t.kind \in Sittings /\ BienniumOf(t.from) = t.sb}
Standing(t, X) == t.kind \in Sittings => BienniumOf(t.from) = t.sb \/ SeatedThen(X, t, t.from)

\* Which of a seating's targets it may date, and what it does to the one it dates or mints.
Eligible(spans, e) == {i \in SeatingTargets(spans, e) : SeatingStartsTenure(spans[i], e.date)}

\* The days and the bienniums are ordered alike.
LEMMA Timeline ==
  /\ \A d \in Nat : BienniumOf(d) \in Nat
  /\ \A d \in Nat, b \in Int : BienniumOf(d) <= b <=> d <= LastDay(b)
  /\ \A d \in Nat, b \in Int : b <= BienniumOf(d) <=> FirstDay(b) <= d
  /\ \A a, b \in Int : a <= b <=> FirstDay(a) <= FirstDay(b)
  /\ \A b \in Int : FirstDay(b) \in Int /\ LastDay(b) \in Int /\ FirstDay(b) < LastDay(b)
<1>1. \A b \in Int : FirstDay(b) \in Int /\ LastDay(b) \in Int /\ FirstDay(b) < LastDay(b)
  BY Calendar
<1>2. \A a, b \in Int : a < b => LastDay(a) < FirstDay(b)
  BY Calendar
<1>3. ASSUME NEW d \in Nat, NEW b \in Int
      PROVE  /\ BienniumOf(d) <= b <=> d <= LastDay(b)
             /\ b <= BienniumOf(d) <=> FirstDay(b) <= d
  <2> DEFINE q == BienniumOf(d)
  <2>1. q \in Nat /\ FirstDay(q) <= d /\ d <= LastDay(q) /\ \A c \in Int : q <= c <=> d <= LastDay(c)
    BY DayOf, Zenon
  <2> HIDE DEF q
  <2>2. b <= q => FirstDay(b) <= d
    <3>1. CASE b = q
      BY <2>1, <3>1
    <3>2. CASE b < q
      BY <1>1, <1>2, <2>1, <3>2
    <3> QED BY <2>1, <3>1, <3>2
  <2>3. q < b => d < FirstDay(b)
    BY <1>1, <1>2, <2>1
  <2>4. FirstDay(b) \in Int
    BY <1>1
  <2>5. b <= q <=> FirstDay(b) <= d
    BY <2>1, <2>2, <2>3, <2>4
  <2> QED BY <2>1, <2>5 DEF q
<1>4. \A d \in Nat : BienniumOf(d) \in Nat
  BY DayOf
<1>5. \A a, b \in Int : a < b => FirstDay(a) < FirstDay(b)
  BY <1>1, <1>2
<1>6. ASSUME NEW a \in Int, NEW b \in Int PROVE a <= b <=> FirstDay(a) <= FirstDay(b)
  <2>1. a = b \/ a < b \/ b < a
    OBVIOUS
  <2> QED BY <1>1, <1>5, <2>1
<1> QED BY <1>1, <1>3, <1>4, <1>6

\* One fact of the timeline at a time.
LEMMA StartsAreInts == \A b \in Int : FirstDay(b) \in Int
BY Timeline

LEMMA FromFirstDay ==
  \A d \in Nat, b \in Int : b <= BienniumOf(d) <=> FirstDay(b) <= d
BY Timeline

LEMMA StartsInOrder == \A a, b \in Int : a <= b <=> FirstDay(a) <= FirstDay(b)
BY Timeline

\* A key is its four fields.
LEMMA KeyFields ==
  ASSUME NEW s, NEW t
  PROVE  Key(s) = Key(t) <=> s.mem = t.mem /\ s.kind = t.kind /\ s.disc = t.disc /\ s.sb = t.sb
BY DEF Key

\* A list of bare spans, typed.
LEMMA SpansTyped ==
  ASSUME NEW spans \in Seq(BareSpan), NEW i \in DOMAIN spans
  PROVE  /\ spans[i] \in BareSpan /\ spans[i] \in Typed /\ BareFits(spans[i])
         /\ spans[i].mem \in Nat /\ spans[i].kind \in Kinds /\ spans[i].disc \in Nat
         /\ spans[i].sb \in Int /\ spans[i].from \in Nat /\ spans[i].to \in Nat
<1> DEFINE s == spans[i]
<1>1. s \in BareSpan
  OBVIOUS
<1> HIDE DEF s
<1>2. s \in Typed /\ BareFits(s)
  BY <1>1, BareIsTyped
<1>3. s.mem \in Nat /\ s.kind \in Kinds /\ s.disc \in Nat /\ s.sb \in Int /\ s.from \in Nat /\ s.to \in Nat
  BY <1>2 DEF Typed
<1> QED BY <1>1, <1>2, <1>3 DEF s

\* Two targets that are to be dated share their key.
LEMMA EligibleShareKey ==
  ASSUME NEW spans \in Seq(BareSpan), NEW e \in Events,
         NEW i \in Eligible(spans, e), NEW j \in Eligible(spans, e),
         spans[i].from = FirstDay(spans[i].sb), spans[j].from = FirstDay(spans[j].sb)
  PROVE  Key(spans[i]) = Key(spans[j])
<1> DEFINE b == BienniumOf(e.date)
           s == spans[i]
           t == spans[j]
<1>1. i \in DOMAIN spans /\ j \in DOMAIN spans
  BY TargetFits DEF Eligible
<1>2. b \in Nat /\ e.date \in Nat /\ \A c \in Int : c <= b <=> FirstDay(c) <= e.date
  <2>1. e.date \in Nat
    BY EventFacts
  <2>2. \A d \in Nat : BienniumOf(d) \in Nat /\ \A c \in Int : c <= BienniumOf(d) <=> FirstDay(c) <= d
    BY Timeline
  <2> QED BY <2>1, <2>2, Zenon
<1>3. s.sb \in Int /\ t.sb \in Int /\ s.from \in Nat /\ t.from \in Nat
  BY <1>1, SpansTyped
<1>4. /\ SeatingStartsTenure(s, e.date) /\ SeatingStartsTenure(t, e.date)
      /\ OnSeatOf(s, e) /\ OnSeatOf(t, e)
      /\ \/ MatchesSeat(s, e) /\ MatchesSeat(t, e)
         \/ OpensAfterSeating(s, e) /\ OpensAfterSeating(t, e)
  BY DEF Eligible, SeatingTargets, MatchesSeat, OpensAfterSeating
<1>5. s.from = FirstDay(s.sb) /\ t.from = FirstDay(t.sb)
  OBVIOUS
<1> HIDE DEF b, s, t
<1>6. ASSUME NEW x, x.sb \in Int, x.from = FirstDay(x.sb), MatchesSeat(x, e), SeatingStartsTenure(x, e.date)
      PROVE  x.sb = b
  <2>1. x.sb >= b /\ FirstDay(x.sb) <= e.date
    BY <1>6 DEF SeatingStartsTenure, MatchesSeat, Covers, b
  <2> QED BY <1>2, <1>6, <2>1
<1>7. s.sb = t.sb
  <2>1. CASE MatchesSeat(s, e) /\ MatchesSeat(t, e)
    BY <1>3, <1>4, <1>5, <1>6, <2>1
  <2>2. CASE OpensAfterSeating(s, e) /\ OpensAfterSeating(t, e)
    <3>1. s.sb - 1 = b /\ t.sb - 1 = b
      BY <2>2 DEF OpensAfterSeating, b
    <3> QED BY <1>3, <3>1
  <2> QED BY <1>4, <2>1, <2>2
<1>8. s.mem = t.mem /\ s.kind = t.kind /\ s.disc = t.disc
  BY <1>4 DEF OnSeatOf, Seat
<1> QED BY <1>7, <1>8, KeyFields DEF s, t

\* A seating dates one target at most, and mints a tenure only when nothing is eligible.
LEMMA SeatedEffect ==
  ASSUME NEW o \in OverlayStates, NEW e \in Events, e.seat[1] \in Kinds, NEW current \in Biennia,
         \A i \in DOMAIN o.spans :
           Key(o.spans[i]) \notin DOMAIN o.seated => o.spans[i].from = FirstDay(o.spans[i].sb)
  PROVE  \/ /\ ApplySeated(o, e, current) = o
            /\ \A i \in Eligible(o.spans, e) : Key(o.spans[i]) \in DOMAIN o.seated
         \/ \E k \in Eligible(o.spans, e) :
              /\ Key(o.spans[k]) \notin DOMAIN o.seated
              /\ ApplySeated(o, e, current) = DatedAt(o, e, k)
              /\ \A i \in Eligible(o.spans, e) : Key(o.spans[i]) \in DOMAIN o.seated \cup {Key(o.spans[k])}
         \/ /\ Eligible(o.spans, e) = {} /\ InBiennium(e.date, current)
            /\ ApplySeated(o, e, current) = MintedBy(o, e, current)
<1> DEFINE N == Len(o.spans)
           targets == SeatingTargets(o.spans, e)
           E == Eligible(o.spans, e)
           key(i) == Key(o.spans[i])
           open(i) == key(i) \notin DOMAIN o.seated
<1>1. o.spans \in Seq(BareSpan) /\ N \in Nat /\ DOMAIN o.spans = 1..N
  BY DEF OverlayStates
<1>2. E \subseteq 1..N /\ \A i \in 1..N : i \in E <=> i \in targets /\ SeatingStartsTenure(o.spans[i], e.date)
  BY <1>1, TargetFits DEF Eligible
<1>3. \A i, k \in E : open(i) /\ open(k) => key(i) = key(k)
  BY <1>1, <1>2, EligibleShareKey
<1>13. PICK f : SeatedRun(f, o, e, current)
  BY SeatedRuns
<1>4. /\ f[0] = [o |-> o, hit |-> FALSE]
      /\ \A i \in 1..N : f[i] = VisitOne(targets, e, i, f[i - 1])
      /\ \A i \in 0..N : f[i] \in Visits
      /\ ApplySeated(o, e, current) =
           IF f[N].hit \/ ~InBiennium(e.date, current) THEN f[N].o
           ELSE MintedBy(f[N].o, e, current)
  BY <1>13 DEF SeatedRun
<1> DEFINE Plain(n) == f[n].o = o /\ ~f[n].hit /\ \A i \in E : i > n
           Known(n) == f[n].o = o /\ f[n].hit /\ \A i \in E : i <= n => ~open(i)
           Once(n) == \E k \in E : k <= n /\ open(k) /\ f[n].o = DatedAt(o, e, k) /\ f[n].hit
           T == {n \in Nat : n <= N => Plain(n) \/ Known(n) \/ Once(n)}
<1>5. ASSUME NEW k \in E, open(k)
      PROVE  /\ \A n \in 1..N : n # k => DatedAt(o, e, k).spans[n] = o.spans[n]
             /\ DOMAIN DatedAt(o, e, k).seated = DOMAIN o.seated \cup {key(k)}
  <2>1. DatedAt(o, e, k) = [o EXCEPT !.seated = Register(@, o.spans[k], e.date),
                                     !.spans = [@ EXCEPT ![k] = DatedBy(o.spans[k], e)]]
    BY DEF DatedAt
  <2>2. /\ DatedAt(o, e, k).spans = [o.spans EXCEPT ![k] = DatedBy(o.spans[k], e)]
        /\ DatedAt(o, e, k).seated = Register(o.seated, o.spans[k], e.date)
    BY <2>1 DEF OverlayStates
  <2>3. DOMAIN Register(o.seated, o.spans[k], e.date) = DOMAIN o.seated \cup {key(k)}
    BY DEF Register
  <2> QED BY <1>1, <2>2, <2>3
<1>6. 0 \in T
  <2>1. \A i \in E : i > 0
    BY <1>1, <1>2
  <2>2. Plain(0)
    BY <1>4, <2>1
  <2> QED BY <2>2
<1> HIDE DEF E, targets
<1>7. ASSUME NEW m \in Nat, m \in T PROVE m + 1 \in T
  <2> SUFFICES ASSUME m + 1 <= N PROVE Plain(m + 1) \/ Known(m + 1) \/ Once(m + 1)
    OBVIOUS
  <2> DEFINE n == m + 1
             v == f[m]
             s == v.o.spans[n]
  <2>1. n \in 1..N /\ n - 1 = m /\ m <= N
    BY <1>1
  <2>2. f[n] = VisitOne(targets, e, n, v)
    BY <1>4, <2>1
  <2>3. Plain(m) \/ Known(m) \/ Once(m)
    BY <1>7, <2>1
  <2>4. s = o.spans[n]
    <3>1. CASE Plain(m) \/ Known(m)
      BY <3>1
    <3>2. CASE Once(m)
      <4>1. PICK k \in E : k <= m /\ open(k) /\ v.o = DatedAt(o, e, k) /\ v.hit
        BY <3>2
      <4>2. k # n /\ v.o = DatedAt(o, e, k)
        BY <2>1, <4>1
      <4> QED BY <1>5, <2>1, <4>1, <4>2
    <3> QED BY <2>3, <3>1, <3>2
  <2>5. n \in E <=> n \in targets /\ SeatingStartsTenure(o.spans[n], e.date)
    BY <1>2, <2>1
  <2>6. \A i \in E : i <= n <=> i <= m \/ i = n
    BY <1>1, <1>2, <2>1
  <2>7. CASE n \notin E
    <3>1. f[n] = v
      BY <2>2, <2>4, <2>5, <2>7, Zenon DEF VisitOne
    <3>2. CASE Plain(m)
      <4>1. \A i \in E : i > n
        BY <1>1, <1>2, <2>1, <2>7, <3>2
      <4> QED BY <3>1, <3>2, <4>1
    <3>3. CASE Known(m)
      BY <2>6, <2>7, <3>1, <3>3
    <3>4. CASE Once(m)
      <4>1. PICK k \in E : k <= m /\ open(k) /\ v.o = DatedAt(o, e, k) /\ v.hit
        BY <3>4
      <4>2. k <= n
        BY <2>6, <4>1
      <4> QED BY <3>1, <4>1, <4>2
    <3> QED BY <2>3, <3>2, <3>3, <3>4
  <2>8. ASSUME n \in E
        PROVE  f[n] = IF Key(o.spans[n]) \in DOMAIN v.o.seated THEN [v EXCEPT !.hit = TRUE]
                      ELSE [o |-> DatedAt(v.o, e, n), hit |-> TRUE]
    BY <2>2, <2>4, <2>5, <2>8, Zenon DEF VisitOne
  <2>11. [v EXCEPT !.hit = TRUE].o = v.o /\ [v EXCEPT !.hit = TRUE].hit
    <3>1. v \in [o : OverlayStates, hit : BOOLEAN]
      BY <1>1, <1>4, <2>1 DEF Visits
    <3> HIDE DEF v
    <3> QED BY <3>1
  <2>9. CASE n \in E /\ (Plain(m) \/ Known(m))
    <3>1. v.o = o
      BY <2>9
    <3>2. CASE ~open(n)
      <4>1. f[n].o = o /\ f[n].hit
        BY <2>8, <2>9, <2>11, <3>1, <3>2
      <4>2. \A i \in E : i <= n => ~open(i)
        <5>1. CASE Plain(m)
          <6>1. \A i \in E : i <= n => i = n
            BY <1>1, <1>2, <2>1, <2>6, <5>1
          <6> QED BY <3>2, <6>1
        <5>2. CASE Known(m)
          BY <2>6, <3>2, <5>2
        <5> QED BY <2>9, <5>1, <5>2
      <4>3. Known(n)
        BY <4>1, <4>2
      <4> QED BY <4>3
    <3>3. CASE open(n)
      <4>1. f[n].o = DatedAt(o, e, n) /\ f[n].hit
        BY <2>8, <2>9, <3>1, <3>3
      <4>2. n \in E /\ n <= n
        BY <2>1, <2>9
      <4>3. Once(n)
        <5> HIDE DEF n
        <5> QED BY <3>3, <4>1, <4>2
      <4> QED BY <4>3
    <3> QED BY <3>2, <3>3
  <2>10. CASE n \in E /\ Once(m)
    <3>1. PICK k \in E : k <= m /\ open(k) /\ v.o = DatedAt(o, e, k) /\ v.hit
      BY <2>10
    <3>3. Key(o.spans[n]) \in DOMAIN v.o.seated
      <4>1. open(n) => key(n) = key(k)
        BY <1>3, <2>10, <3>1
      <4> QED BY <1>5, <3>1, <4>1
    <3>4. f[n].o = v.o /\ f[n].hit
      BY <2>8, <2>10, <2>11, <3>3
    <3>5. k <= n
      BY <2>6, <3>1
    <3> QED BY <3>1, <3>4, <3>5
  <2> QED BY <2>3, <2>7, <2>9, <2>10
<1> HIDE DEF T
<1>8. N \in T
  <2>1. Nat \subseteq T
    BY <1>6, <1>7, SetInduction
  <2> QED BY <1>1, <2>1
<1>9. Plain(N) \/ Known(N) \/ Once(N)
  BY <1>1, <1>8 DEF T
<1>10. CASE Plain(N)
  <2>1. E = {}
    BY <1>1, <1>2, <1>10
  <2>2. f[N].o = o /\ ~f[N].hit
    BY <1>10
  <2>3. ApplySeated(o, e, current) = IF ~InBiennium(e.date, current) THEN o ELSE MintedBy(o, e, current)
    BY <1>4, <2>2
  <2> QED BY <2>1, <2>3 DEF E
<1>11. CASE Known(N)
  <2>1. f[N].o = o /\ f[N].hit
    BY <1>11
  <2>2. ApplySeated(o, e, current) = o
    BY <1>4, <2>1
  <2>3. \A i \in E : ~open(i)
    BY <1>1, <1>2, <1>11
  <2> QED BY <2>2, <2>3 DEF E
<1>12. CASE Once(N)
  <2>1. PICK k \in E : open(k) /\ f[N].o = DatedAt(o, e, k) /\ f[N].hit
    BY <1>12
  <2>2. f[N].o = DatedAt(o, e, k) /\ f[N].hit
    BY <2>1
  <2>3. ApplySeated(o, e, current) = DatedAt(o, e, k)
    BY <1>4, <2>2
  <2>4. \A i \in E : key(i) \in DOMAIN o.seated \cup {key(k)}
    BY <1>3, <2>1
  <2> QED BY <2>1, <2>3, <2>4 DEF E
<1> QED BY <1>9, <1>10, <1>11, <1>12

\* A vacate shortens spans and changes nothing else of them.
LEMMA VacatedEffect ==
  ASSUME NEW o \in OverlayStates, NEW e \in Events
  PROVE  /\ ApplyVacated(o, e).seated = o.seated
         /\ DOMAIN ApplyVacated(o, e).spans = DOMAIN o.spans
         /\ \A i \in DOMAIN o.spans : /\ SameStart(ApplyVacated(o, e).spans[i], o.spans[i])
                                      /\ ApplyVacated(o, e).spans[i].to <= o.spans[i].to
<1> DEFINE N == Len(o.spans)
           closed == [i \in DOMAIN o.spans |->
                        IF MatchesSeat(o.spans[i], e) THEN CloseAt(o.spans[i], e) ELSE o.spans[i]]
<1>1. o.spans \in Seq(BareSpan) /\ N \in Nat /\ DOMAIN o.spans = 1..N
  BY DEF OverlayStates
<1>2. \A i \in DOMAIN o.spans : o.spans[i] \in BareSpan /\ CloseAt(o.spans[i], e) \in BareSpan
  BY <1>1, CloseAtBare
<1>3. closed \in [1..N -> BareSpan]
  <2> HIDE DEF N
  <2> QED BY <1>1, <1>2
<1>4. ApplyVacated(o, e) = [o EXCEPT !.spans = SubSeq(closed, 1, N)]
  BY DEF ApplyVacated
<1>5. \A i \in DOMAIN o.spans :
        closed[i] = IF MatchesSeat(o.spans[i], e) THEN CloseAt(o.spans[i], e) ELSE o.spans[i]
  OBVIOUS
<1> HIDE DEF closed, N
<1>6. SubSeq(closed, 1, N) = closed
  <2>1. closed \in Seq(BareSpan) /\ Len(closed) = N
    BY <1>1, <1>3, FunIsSeq
  <2> QED BY <1>1, <2>1
<1>7. ApplyVacated(o, e).spans = closed /\ ApplyVacated(o, e).seated = o.seated
  BY <1>4, <1>6 DEF OverlayStates
<1>8. ASSUME NEW i \in DOMAIN o.spans PROVE SameStart(closed[i], o.spans[i]) /\ closed[i].to <= o.spans[i].to
  <2> DEFINE s == o.spans[i]
  <2>1. s \in Typed /\ BareFits(s) /\ s.to \in Nat /\ s.from \in Nat /\ e.date \in Nat
    BY <1>1, SpansTyped, EventFacts
  <2>2. closed[i] = IF MatchesSeat(s, e) THEN CloseAt(s, e) ELSE s
    BY <1>5
  <2> HIDE DEF s
  <2>3. CASE MatchesSeat(s, e)
    <3>1. s.from <= e.date /\ e.date <= s.to
      BY <2>3 DEF MatchesSeat, Covers
    <3> DEFINE to == Later(e.date, s.from)
    <3>2. to = e.date
      BY <2>1, <3>1 DEF Later
    <3>3. CloseAt(s, e) = [s EXCEPT !.to = to, !.ebasis = e.basis]
      BY DEF CloseAt
    <3> HIDE DEF to
    <3>4. SameStart(CloseAt(s, e), s) /\ CloseAt(s, e).to = to
      BY <2>1, <3>3 DEF Typed, SameStart, SameTenure
    <3> QED BY <2>2, <2>3, <3>1, <3>2, <3>4 DEF s
  <2>4. CASE ~MatchesSeat(s, e)
    BY <2>1, <2>2, <2>4 DEF SameStart, SameTenure, s
  <2> QED BY <2>3, <2>4
<1> QED BY <1>1, <1>3, <1>7, <1>8

(***************************************************************************)
(* A seating keeps SeatInv.                                                *)
(***************************************************************************)

\* What SeatInv says of one span.
LEMMA SeatFacts ==
  ASSUME NEW o \in OverlayStates, NEW L, NEW current, NEW M, NEW owned, NEW X,
         SeatInv(o, L, current, M, owned, X), NEW i \in DOMAIN o.spans
  PROVE  SpanSeated(o.spans[i], o.seated, L, current, M, owned, X)
BY DEF SeatInv

\* Two spans of one key that no seating has dated yet are one.
LEMMA OneOpenPerKey ==
  ASSUME NEW o \in OverlayStates, NEW L, NEW current, NEW M, NEW owned, NEW X,
         SeatInv(o, L, current, M, owned, X),
         NEW i \in DOMAIN o.spans, NEW j \in DOMAIN o.spans,
         Key(o.spans[i]) = Key(o.spans[j]), Key(o.spans[i]) \notin DOMAIN o.seated
  PROVE  i = j
<1> DEFINE s == o.spans[i]
           t == o.spans[j]
<1>1. o.spans \in Seq(BareSpan)
  BY DEF OverlayStates
<1>2. /\ s.sb \in Int /\ s.from \in Nat /\ s.to \in Nat /\ BareFits(s)
      /\ t.sb \in Int /\ t.from \in Nat /\ t.to \in Nat
  BY <1>1, SpansTyped
<1>3. s.from = FirstDay(s.sb) /\ t.from = FirstDay(t.sb)
  BY SeatFacts DEF SpanSeated
<1>4. i # j => PairSeated(s, t)
  BY DEF SeatInv
<1>5. Key(s) = Key(t)
  OBVIOUS
<1> HIDE DEF s, t
<1>6. s.mem = t.mem /\ Seat(s) = Seat(t) /\ s.sb = t.sb
  BY <1>5, KeyFields DEF Seat
<1>7. BienniumOf(t.from) = s.sb /\ s.from <= t.from
  <2>1. t.from = FirstDay(s.sb) /\ s.from = t.from
    BY <1>3, <1>6
  <2>2. BienniumOf(t.from) \in Nat /\ \A b \in Int : b <= BienniumOf(t.from) <=> FirstDay(b) <= t.from
    BY <1>2, Timeline
  <2>3. s.sb <= BienniumOf(t.from)
    BY <1>2, <2>1, <2>2
  <2>4. BienniumOf(t.from) <= s.sb
    <3>1. t.from <= LastDay(s.sb)
      BY <1>2, <2>1, Timeline
    <3> QED BY <1>2, <3>1, Timeline
  <2> QED BY <1>2, <2>1, <2>2, <2>3, <2>4
<1>8. Ahead(s, t)
  BY <1>6, <1>7 DEF Ahead
<1>9. s.from <= s.to /\ s.from = t.from
  BY <1>2, <1>3, <1>6 DEF BareFits
<1> QED BY <1>2, <1>4, <1>8, <1>9 DEF PairSeated

\* A span that holds the day of a seating of its seat is its target.
LEMMA HeldIsTarget ==
  ASSUME NEW spans \in Seq(BareSpan), NEW e, NEW i \in DOMAIN spans, MatchesSeat(spans[i], e)
  PROVE  i \in SeatingTargets(spans, e)
BY DEF SeatingTargets

\* The tenure a seating of the biennium before might date is already dated, is that seating's
\* target and still open, or is not the first the lists have of its seat.
LEMMA EarlierTenure ==
  ASSUME NEW o \in OverlayStates, NEW L, NEW current \in Biennia, NEW M, NEW owned,
         NEW X \in SUBSET Events, SeatInv(o, L, current, M, owned, X),
         NEW e \in Events, \A x \in X : x.date <= e.date,
         NEW i \in DOMAIN o.spans, o.spans[i].sbasis = Observed, o.spans[i].kind = Senate,
         OnSeatOf(o.spans[i], e), BienniumOf(e.date) = o.spans[i].sb - 1
  PROVE  \/ \E t \in L : SameTenure(o.spans[i], t) /\ t.sb < o.spans[i].sb
         \/ i \in Eligible(o.spans, e) /\ Key(o.spans[i]) \notin DOMAIN o.seated
<1> DEFINE s == o.spans[i]
           b == BienniumOf(e.date)
<1>1. o.spans \in Seq(BareSpan)
  BY DEF OverlayStates
<1>2. /\ s.sb \in Int /\ s.from \in Nat /\ s.to \in Nat /\ BareFits(s)
      /\ e.date \in Nat /\ b \in Nat /\ current \in Int
  <2>1. s.sb \in Int /\ s.from \in Nat /\ s.to \in Nat /\ BareFits(s)
    BY <1>1, SpansTyped
  <2>2. e.date \in Nat
    BY EventFacts
  <2>3. b \in Nat
    BY <2>2, Timeline
  <2> QED BY <2>1, <2>2, <2>3 DEF Biennia
<1>3. SpanSeated(s, o.seated, L, current, M, owned, X)
  BY SeatFacts
<1>4. s.sbasis = Observed /\ s.kind = Senate /\ OnSeatOf(s, e) /\ b = s.sb - 1
  OBVIOUS
<1>5. s.from = FirstDay(s.sb) /\ s.sb <= current /\ e.date < FirstDay(s.sb)
  <2>1. s.from = FirstDay(s.sb) /\ s.sb <= current
    BY <1>2, <1>3, <1>4 DEF BareFits, SpanSeated, Listeds
  <2>2. ~(s.sb <= b) /\ FirstDay(s.sb) \in Int
    BY <1>2, <1>4, StartsAreInts
  <2>3. s.sb <= b <=> FirstDay(s.sb) <= e.date
    BY <1>2, FromFirstDay
  <2> QED BY <1>2, <2>1, <2>2, <2>3
<1>6. CASE \E j \in DOMAIN o.spans : MatchesSeat(o.spans[j], e)
  <2>1. PICK j \in DOMAIN o.spans : MatchesSeat(o.spans[j], e)
    BY <1>6
  <2> DEFINE t == o.spans[j]
  <2>2. t.sb \in Int /\ t.from \in Nat /\ t.from <= e.date /\ OnSeatOf(t, e)
    BY <1>1, <2>1, SpansTyped DEF MatchesSeat, Covers
  <2>3. SpanSeated(t, o.seated, L, current, M, owned, X)
    BY SeatFacts
  <2>4. i # j => PairSeated(s, t)
    BY DEF SeatInv
  <2>5. i = j => s = t
    OBVIOUS
  <2> HIDE DEF s, t, b
  <2>6. SameTenure(s, t) /\ t.kind = Senate
    BY <1>4, <2>2 DEF OnSeatOf, Seat, SameTenure
  <2>7. t.sb <= s.sb
    <3>1. FirstDay(t.sb - 1) <= e.date
      <4>1. FirstDay(t.sb - 1) <= t.from /\ FirstDay(t.sb - 1) \in Int
        BY <2>2, <2>3, StartsAreInts DEF SpanSeated
      <4> QED BY <1>2, <2>2, <4>1
    <3>2. t.sb - 1 <= b
      BY <1>2, <2>2, <3>1, FromFirstDay DEF b
    <3> QED BY <1>2, <1>4, <2>2, <3>2
  <2>8. t.sb # s.sb
    <3> SUFFICES ASSUME t.sb = s.sb PROVE FALSE
      OBVIOUS
    <3>1. i # j
      BY <1>2, <1>5, <2>2, <2>5
    <3>2. Key(s) = Key(t)
      BY <2>6, KeyFields DEF SameTenure
    <3>3. FirstDay(t.sb) <= t.from
      BY <1>4, <2>4, <3>1, <3>2 DEF PairSeated
    <3> QED BY <1>2, <1>5, <2>2, <3>3
  <2>9. \E u \in L : SameTenure(t, u) /\ u.sb = t.sb
    BY <1>2, <1>5, <2>2, <2>3, <2>6, <2>7, <2>8 DEF SpanSeated, Listeds
  <2>10. t.sb < s.sb
    BY <1>2, <2>2, <2>7, <2>8
  <2>11. \E u \in L : SameTenure(s, u) /\ u.sb < s.sb
    BY <2>6, <2>9, <2>10 DEF SameTenure
  <2> QED BY <2>11 DEF s
<1>7. CASE ~ \E j \in DOMAIN o.spans : MatchesSeat(o.spans[j], e)
  <2>1. OpensAfterSeating(s, e)
    BY <1>4, <1>5 DEF OpensAfterSeating
  <2>2. i \in SeatingTargets(o.spans, e)
    <3>1. {j \in DOMAIN o.spans : MatchesSeat(o.spans[j], e)} = {}
      BY <1>7
    <3> QED BY <2>1, <3>1 DEF SeatingTargets
  <2>3. SeatingStartsTenure(s, e.date)
    BY <1>2, <1>4 DEF SeatingStartsTenure
  <2>4. i \in Eligible(o.spans, e)
    BY <2>2, <2>3 DEF Eligible
  <2>5. Key(s) \notin DOMAIN o.seated
    <3> SUFFICES ASSUME Key(s) \in DOMAIN o.seated PROVE FALSE
      OBVIOUS
    <3>1. PICK x \in X : x.date = o.seated[Key(s)]
      BY DEF SeatInv
    <3>2. x.date <= e.date /\ x.date \in Nat
      BY EventFacts
    <3>3. FirstDay(s.sb) <= x.date
      BY <1>3, <1>4, <3>1 DEF SpanSeated
    <3>4. FirstDay(s.sb) \in Int
      BY <1>2, Timeline
    <3> HIDE DEF s
    <3> QED BY <1>2, <1>5, <3>2, <3>3, <3>4
  <2> QED BY <2>4, <2>5
<1> QED BY <1>6, <1>7

\* Spans that start as before and end no later stay seated as they were.
LEMMA ShortenedSeat ==
  ASSUME NEW o \in OverlayStates, NEW p \in OverlayStates, NEW L, NEW current, NEW M, NEW owned, NEW X,
         SeatInv(o, L, current, M, owned, X), p.seated = o.seated, DOMAIN p.spans = DOMAIN o.spans,
         \A i \in DOMAIN o.spans : SameStart(p.spans[i], o.spans[i]) /\ p.spans[i].to <= o.spans[i].to
  PROVE  SeatInv(p, L, current, M, owned, X)
<1>1. ASSUME NEW i \in DOMAIN o.spans
      PROVE  SpanSeated(p.spans[i], p.seated, L, current, M, owned, X)
  <2> DEFINE s == o.spans[i]
             t == p.spans[i]
  <2>1. SpanSeated(s, o.seated, L, current, M, owned, X) /\ SameStart(t, s) /\ p.seated = o.seated
    BY SeatFacts
  <2> HIDE DEF s, t
  <2>2. /\ t.mem = s.mem /\ t.kind = s.kind /\ t.disc = s.disc /\ t.sb = s.sb
        /\ t.from = s.from /\ t.sbasis = s.sbasis
    BY <2>1 DEF SameStart, SameTenure
  <2>3. Key(t) = Key(s) /\ \A x : OnSeatOf(t, x) <=> OnSeatOf(s, x)
    BY <2>2, KeyFields DEF OnSeatOf, Seat
  <2>4. \A u : SameTenure(t, u) <=> SameTenure(s, u)
    BY <2>2 DEF SameTenure
  <2>5. StartKnown(t, L, X)
    BY <2>1, <2>2, <2>3, <2>4 DEF StartKnown, SpanSeated, SeatedThen
  <2>6. SeatedBefore(t, L, X)
    BY <2>1, <2>2, <2>3, <2>4 DEF SeatedBefore, SpanSeated
  <2>7. t.kind \in Listeds => t.sb <= current /\ (t.sb = current \/ \E u \in L : SameTenure(t, u) /\ u.sb = t.sb)
    BY <2>1, <2>2, <2>4 DEF SpanSeated
  <2> QED BY <2>1, <2>2, <2>3, <2>5, <2>6, <2>7 DEF SpanSeated, t
<1>2. ASSUME NEW i \in DOMAIN o.spans, NEW j \in DOMAIN o.spans, i # j
      PROVE  PairSeated(p.spans[i], p.spans[j])
  <2> DEFINE s == o.spans[i]
             t == o.spans[j]
             u == p.spans[i]
             v == p.spans[j]
  <2>1. PairSeated(s, t) /\ SameStart(u, s) /\ u.to <= s.to /\ SameStart(v, t)
    BY <1>2 DEF SeatInv
  <2>2. s.to \in Nat /\ u.to \in Nat /\ t.from \in Nat
    BY SpansTyped DEF OverlayStates
  <2> HIDE DEF s, t, u, v
  <2>3. Key(u) = Key(s) /\ Key(v) = Key(t) /\ u.sbasis = s.sbasis /\ v.from = t.from /\ v.sb = t.sb
    BY <2>1, KeyFields DEF SameStart, SameTenure
  <2>4. Ahead(u, v) <=> Ahead(s, t)
    BY <2>1 DEF SameStart, SameTenure, Ahead, Seat
  <2> QED BY <2>1, <2>2, <2>3, <2>4 DEF PairSeated, u, v
<1> QED BY <1>1, <1>2 DEF SeatInv

\* The seatings known grow by one of the latest day.
LEMMA OneMoreSeating ==
  ASSUME NEW s, NEW seated, NEW L, NEW current, NEW M, NEW owned, NEW X, NEW e,
         SpanSeated(s, seated, L, current, M, owned, X),
         s.sbasis = Observed /\ s.kind = Senate /\ OnSeatOf(s, e) /\ BienniumOf(e.date) = s.sb - 1
           => \E t \in L : SameTenure(s, t) /\ t.sb < s.sb
  PROVE  SpanSeated(s, seated, L, current, M, owned, X \cup {e})
<1>1. StartKnown(s, L, X \cup {e})
  BY DEF SpanSeated, StartKnown, SeatedThen
<1>2. SeatedBefore(s, L, X \cup {e})
  BY DEF SpanSeated, SeatedBefore
<1> QED BY <1>1, <1>2 DEF SpanSeated

\* A seating that finds its tenure dated changes nothing.
LEMMA KeptSeat ==
  ASSUME NEW o \in OverlayStates, NEW L, NEW current \in Biennia, NEW M, NEW owned,
         NEW X \in SUBSET Events, SeatInv(o, L, current, M, owned, X),
         NEW e \in Events, \A x \in X : x.date <= e.date,
         \A i \in Eligible(o.spans, e) : Key(o.spans[i]) \in DOMAIN o.seated
  PROVE  SeatInv(o, L, current, M, owned, X \cup {e})
<1>1. ASSUME NEW i \in DOMAIN o.spans
      PROVE  SpanSeated(o.spans[i], o.seated, L, current, M, owned, X \cup {e})
  <2> DEFINE s == o.spans[i]
  <2>1. SpanSeated(s, o.seated, L, current, M, owned, X)
    BY SeatFacts
  <2>2. s.sbasis = Observed /\ s.kind = Senate /\ OnSeatOf(s, e) /\ BienniumOf(e.date) = s.sb - 1
          => \E u \in L : SameTenure(s, u) /\ u.sb < s.sb
    <3> SUFFICES ASSUME s.sbasis = Observed, s.kind = Senate, OnSeatOf(s, e), BienniumOf(e.date) = s.sb - 1
                 PROVE  \E u \in L : SameTenure(s, u) /\ u.sb < s.sb
      OBVIOUS
    <3>1. \/ \E u \in L : SameTenure(s, u) /\ u.sb < s.sb
          \/ i \in Eligible(o.spans, e) /\ Key(s) \notin DOMAIN o.seated
      BY EarlierTenure
    <3> QED BY <3>1
  <2> HIDE DEF s
  <2> QED BY <2>1, <2>2, OneMoreSeating DEF s
<1>2. \A key \in DOMAIN o.seated :
        \E x \in X \cup {e} : x.mem = key[1] /\ x.seat = <<key[2], key[3]>> /\ x.date = o.seated[key]
  BY DEF SeatInv
<1> QED BY <1>1, <1>2 DEF SeatInv

\* A seating that finds no tenure and is of the current biennium mints one.
LEMMA MintedSeat ==
  ASSUME NEW o \in OverlayStates, NEW L, NEW current \in Biennia, NEW M, NEW owned,
         NEW X \in SUBSET Events, SeatInv(o, L, current, M, owned, X),
         NEW e \in Events, \A x \in X : x.date <= e.date, e.mem \in M, e.seat[1] \in owned,
         e.seat \in Kinds \X Nat, Eligible(o.spans, e) = {}, InBiennium(e.date, current)
  PROVE  SeatInv(MintedBy(o, e, current), L, current, M, owned, X \cup {e})
<1> DEFINE N == Len(o.spans)
           t == Synthesize(e, current)
           seated == Register(o.seated, t, e.date)
           p == MintedBy(o, e, current)
<1>1. o.spans \in Seq(BareSpan) /\ N \in Nat /\ DOMAIN o.spans = 1..N
  BY DEF OverlayStates
<1>2. /\ e.date \in Nat /\ current \in Int /\ BienniumOf(e.date) = current /\ e.basis # Observed
      /\ FirstDay(current) <= e.date /\ e.date < Open /\ Open \in Nat
  <2>1. e.date \in Nat /\ e.basis # Observed /\ e.date < Open
    BY EventFacts
  <2>2. FirstDay(current) <= e.date /\ e.date <= LastDay(current) /\ current \in Int
    BY DEF InBiennium, Biennia
  <2>3. BienniumOf(e.date) <= current /\ current <= BienniumOf(e.date) /\ BienniumOf(e.date) \in Nat
    BY <2>1, <2>2, Timeline
  <2>4. BienniumOf(e.date) = current
    BY <2>2, <2>3
  <2>5. Open \in Nat
    BY Calendar
  <2> QED BY <2>1, <2>2, <2>4, <2>5
<1>3. /\ t.mem = e.mem /\ Seat(t) = e.seat /\ t.kind = e.seat[1] /\ t.sb = current
      /\ t.from = e.date /\ t.to = Open /\ t.sbasis = e.basis
  BY DEF Synthesize, NewSpan, Seat
<1>4. p.spans = Append(o.spans, t) /\ p.seated = seated
  <2>1. p = [o EXCEPT !.spans = Append(@, t), !.seated = Register(@, t, e.date)]
    BY DEF MintedBy
  <2> HIDE DEF p, t
  <2> QED BY <2>1 DEF OverlayStates
<1>5. /\ DOMAIN seated = DOMAIN o.seated \cup {Key(t)} /\ seated[Key(t)] = e.date
      /\ \A key \in DOMAIN o.seated : key # Key(t) => seated[key] = o.seated[key]
  BY DEF Register
<1> HIDE DEF t, seated, p
<1>6. /\ p.spans[N + 1] = t /\ DOMAIN p.spans = 1..(N + 1)
      /\ \A i \in 1..N : p.spans[i] = o.spans[i]
  <2> HIDE DEF N
  <2> QED BY <1>1, <1>4 DEF N
<1> HIDE DEF N
<1>7. \A i \in 1..N : MatchesSeat(o.spans[i], e) => ~(o.spans[i].sb >= current)
  BY <1>1, <1>2, HeldIsTarget DEF Eligible, SeatingStartsTenure
<1>8. OnSeatOf(t, e)
  BY <1>3 DEF OnSeatOf
<1>9. SpanSeated(t, seated, L, current, M, owned, X \cup {e})
  <2>1. StartKnown(t, L, X \cup {e})
    BY <1>3, <1>8 DEF StartKnown, SeatedThen
  <2>2. FirstDay(t.sb - 1) <= t.from
    <3>1. /\ FirstDay(current - 1) <= FirstDay(current)
          /\ FirstDay(current - 1) \in Int /\ FirstDay(current) \in Int
      BY <1>2, StartsInOrder, StartsAreInts
    <3> QED BY <1>2, <1>3, <3>1
  <2> QED BY <1>2, <1>3, <1>5, <2>1, <2>2 DEF SpanSeated, SeatedBefore
<1>10. ASSUME NEW i \in 1..N
       PROVE  SpanSeated(o.spans[i], seated, L, current, M, owned, X \cup {e})
  <2> DEFINE s == o.spans[i]
  <2>1. SpanSeated(s, o.seated, L, current, M, owned, X) /\ s.sb \in Int
    BY <1>1, SeatFacts, SpansTyped
  <2> HIDE DEF s
  <2>2. Key(s) = Key(t) => s.sb = current
    BY <1>3, KeyFields
  <2>3. SpanSeated(s, seated, L, current, M, owned, X)
    BY <1>2, <1>5, <2>1, <2>2 DEF SpanSeated
  <2>4. ~(s.kind = Senate /\ BienniumOf(e.date) = s.sb - 1)
    BY <1>2, <2>1 DEF SpanSeated, Listeds
  <2> QED BY <2>3, <2>4, OneMoreSeating DEF s
<1>11. ASSUME NEW j \in 1..N PROVE PairSeated(t, o.spans[j]) /\ PairSeated(o.spans[j], t)
  <2> DEFINE s == o.spans[j]
  <2>1. /\ s.sb \in Int /\ s.from \in Nat /\ s.to \in Nat /\ BareFits(s)
        /\ MatchesSeat(s, e) => ~(s.sb >= current)
        /\ SpanSeated(s, o.seated, L, current, M, owned, X)
    BY <1>1, <1>7, SpansTyped, SeatFacts
  <2> HIDE DEF s
  <2>2. Key(s) = Key(t) => s.sb = current
    BY <1>3, KeyFields
  <2>3. ~Ahead(t, s)
    <3> SUFFICES ASSUME Ahead(t, s) PROVE FALSE
      OBVIOUS
    <3>1. s.mem = e.mem /\ Seat(s) = e.seat /\ e.date <= s.from /\ BienniumOf(s.from) = current
      BY <1>3 DEF Ahead
    <3>2. s.from <= e.date
      <4>1. CASE s.from = FirstDay(s.sb)
        <5>1. s.sb <= current
          BY <2>1, <3>1, <4>1, Timeline
        <5>2. FirstDay(s.sb) <= FirstDay(current) /\ FirstDay(current) \in Int
          BY <1>2, <2>1, <5>1, Timeline
        <5> QED BY <1>2, <2>1, <4>1, <5>2
      <4>2. CASE SeatedThen(X, s, s.from)
        BY <4>2 DEF SeatedThen
      <4> QED BY <2>1, <4>1, <4>2 DEF SpanSeated, StartKnown
    <3>3. MatchesSeat(s, e)
      BY <1>2, <2>1, <3>1, <3>2 DEF MatchesSeat, OnSeatOf, Covers, BareFits
    <3>4. s.sb >= current
      <4>1. s.from <= LastDay(s.sb)
        BY <2>1 DEF BareFits
      <4>2. BienniumOf(s.from) <= s.sb
        BY <2>1, <4>1, Timeline
      <4> QED BY <1>2, <2>1, <3>1, <4>2
    <3> QED BY <2>1, <3>3, <3>4
  <2>4. ASSUME Ahead(s, t) PROVE s.to < t.from
    <3>1. s.from <= e.date /\ s.sb = current /\ OnSeatOf(s, e)
      BY <1>2, <1>3, <2>4 DEF Ahead, OnSeatOf
    <3>2. ~MatchesSeat(s, e)
      BY <1>2, <2>1, <3>1
    <3> QED BY <1>2, <1>3, <2>1, <3>1, <3>2 DEF MatchesSeat, Covers
  <2>5. t.sbasis # Observed /\ FirstDay(t.sb) <= t.from
    BY <1>2, <1>3
  <2> QED BY <2>3, <2>4, <2>5 DEF PairSeated, s
<1>12. ASSUME NEW key \in DOMAIN seated
       PROVE  \E x \in X \cup {e} : x.mem = key[1] /\ x.seat = <<key[2], key[3]>> /\ x.date = seated[key]
  <2>1. CASE key = Key(t)
    <3>1. e.mem = key[1] /\ e.seat = <<key[2], key[3]>> /\ e.date = seated[key]
      BY <1>5, <1>8, <2>1 DEF Key, OnSeatOf, Seat
    <3> QED BY <3>1
  <2>2. CASE key # Key(t)
    <3>1. key \in DOMAIN o.seated /\ seated[key] = o.seated[key]
      BY <1>5, <1>12, <2>2
    <3>2. \E x \in X : x.mem = key[1] /\ x.seat = <<key[2], key[3]>> /\ x.date = o.seated[key]
      BY <3>1 DEF SeatInv
    <3> QED BY <3>1, <3>2
  <2> QED BY <2>1, <2>2
<1>13. ASSUME NEW i \in 1..(N + 1) PROVE SpanSeated(p.spans[i], p.seated, L, current, M, owned, X \cup {e})
  <2>1. i \in 1..N \/ i = N + 1
    BY <1>1
  <2> QED BY <1>4, <1>6, <1>9, <1>10, <2>1
<1>14. ASSUME NEW i \in 1..(N + 1), NEW j \in 1..(N + 1), i # j PROVE PairSeated(p.spans[i], p.spans[j])
  <2>1. i \in 1..N /\ j \in 1..N => PairSeated(o.spans[i], o.spans[j])
    BY <1>1, <1>14 DEF SeatInv
  <2>2. (i \in 1..N \/ i = N + 1) /\ (j \in 1..N \/ j = N + 1)
    BY <1>1
  <2> QED BY <1>6, <1>11, <1>14, <2>1, <2>2
<1> QED BY <1>4, <1>6, <1>12, <1>13, <1>14 DEF SeatInv, p

\* A seating that dates a tenure: its key was not dated yet.
LEMMA DatedSeat ==
  ASSUME NEW o \in OverlayStates, NEW L, NEW current \in Biennia, NEW M, NEW owned,
         NEW X \in SUBSET Events, SeatInv(o, L, current, M, owned, X),
         NEW e \in Events, \A x \in X : x.date <= e.date,
         NEW k \in Eligible(o.spans, e), Key(o.spans[k]) \notin DOMAIN o.seated,
         \A i \in Eligible(o.spans, e) : Key(o.spans[i]) \in DOMAIN o.seated \cup {Key(o.spans[k])}
  PROVE  SeatInv(DatedAt(o, e, k), L, current, M, owned, X \cup {e})
<1> DEFINE r == o.spans[k]
           t == DatedBy(r, e)
           b == BienniumOf(e.date)
           seated == Register(o.seated, r, e.date)
           p == DatedAt(o, e, k)
<1>1. o.spans \in Seq(BareSpan) /\ k \in DOMAIN o.spans
  BY TargetFits DEF OverlayStates, Eligible
<1>2. /\ r.sb \in Int /\ r.from \in Nat /\ r.to \in Nat /\ r \in Typed
      /\ e.date \in Nat /\ b \in Nat /\ e.basis # Observed
  <2>1. e.date \in Nat /\ e.basis # Observed
    BY EventFacts
  <2>2. b \in Nat
    BY <2>1, Timeline
  <2> QED BY <1>1, <2>1, <2>2, SpansTyped
<1>3. SpanSeated(r, o.seated, L, current, M, owned, X)
  BY <1>1, SeatFacts
<1>4. r.from = FirstDay(r.sb) /\ Key(r) \notin DOMAIN o.seated
  BY <1>3 DEF SpanSeated
<1>5. p.spans = [o.spans EXCEPT ![k] = t] /\ p.seated = seated
  <2>1. p = [o EXCEPT !.seated = seated, !.spans = [@ EXCEPT ![k] = t]]
    BY DEF DatedAt
  <2> HIDE DEF p, t, seated
  <2> QED BY <2>1 DEF OverlayStates
<1>6. /\ t.mem = r.mem /\ t.kind = r.kind /\ t.disc = r.disc /\ t.sb = r.sb /\ t.to = r.to
      /\ t.from = e.date /\ t.sbasis = e.basis
  <2> HIDE DEF r
  <2> QED BY <1>2 DEF DatedBy, Typed
<1>7. /\ DOMAIN seated = DOMAIN o.seated \cup {Key(r)} /\ seated[Key(r)] = e.date
      /\ \A key \in DOMAIN o.seated : key # Key(r) => seated[key] = o.seated[key]
  BY DEF Register
<1>8. OnSeatOf(r, e) /\ SeatingStartsTenure(r, e.date) /\ (MatchesSeat(r, e) \/ OpensAfterSeating(r, e))
      /\ (MatchesSeat(r, e) \/ \A i \in DOMAIN o.spans : ~MatchesSeat(o.spans[i], e))
  BY <1>1 DEF Eligible, SeatingTargets, MatchesSeat, OpensAfterSeating
<1>9. /\ p.spans[k] = t /\ DOMAIN p.spans = DOMAIN o.spans
      /\ \A i \in DOMAIN o.spans : i # k => p.spans[i] = o.spans[i]
  <2> HIDE DEF p, t
  <2> QED BY <1>1, <1>5
<1>10. \A i \in DOMAIN o.spans : Key(o.spans[i]) = Key(r) => i = k
  BY <1>1, <1>4, OneOpenPerKey
<1> HIDE DEF r, t, b, seated, p
<1>11. \/ r.sb = b
       \/ r.sb - 1 = b /\ \A i \in DOMAIN o.spans : ~MatchesSeat(o.spans[i], e)
  <2>1. ASSUME MatchesSeat(r, e) PROVE r.sb = b
    <3>1. r.sb >= b /\ FirstDay(r.sb) <= e.date
      BY <1>4, <1>8, <2>1 DEF SeatingStartsTenure, MatchesSeat, Covers, b
    <3>2. r.sb <= b
      BY <1>2, <3>1, Timeline DEF b
    <3> QED BY <1>2, <3>1, <3>2
  <2>2. ASSUME ~MatchesSeat(r, e) PROVE r.sb - 1 = b
    BY <1>8, <2>2 DEF OpensAfterSeating, b
  <2> QED BY <1>8, <2>1, <2>2
<1>12. SpanSeated(t, seated, L, current, M, owned, X \cup {e})
  <2>1. Key(t) = Key(r) /\ OnSeatOf(t, e) /\ \A u : SameTenure(t, u) <=> SameTenure(r, u)
    BY <1>6, <1>8, KeyFields DEF OnSeatOf, Seat, SameTenure
  <2>2. Key(t) \in DOMAIN seated
    BY <1>7, <2>1
  <2>3. StartKnown(t, L, X \cup {e})
    BY <1>6, <2>1 DEF StartKnown, SeatedThen
  <2>4. FirstDay(t.sb - 1) <= t.from
    <3>1. t.sb - 1 \in Int /\ t.sb - 1 <= b
      BY <1>2, <1>6, <1>11
    <3> QED BY <1>2, <1>6, <3>1, Timeline DEF b
  <2>5. t.kind \in Listeds => t.sb <= current /\ (t.sb = current \/ \E u \in L : SameTenure(t, u) /\ u.sb = t.sb)
    BY <1>3, <1>6, <2>1 DEF SpanSeated
  <2>6. t.sbasis # Observed
    BY <1>2, <1>6
  <2> QED BY <1>3, <1>6, <2>2, <2>3, <2>4, <2>5, <2>6 DEF SpanSeated, SeatedBefore
<1>13. ASSUME NEW i \in DOMAIN o.spans, i # k
       PROVE  SpanSeated(o.spans[i], seated, L, current, M, owned, X \cup {e})
  <2> DEFINE s == o.spans[i]
  <2>1. SpanSeated(s, o.seated, L, current, M, owned, X)
    BY SeatFacts
  <2>2. Key(s) # Key(r)
    BY <1>10, <1>13
  <2>3. SpanSeated(s, seated, L, current, M, owned, X)
    BY <1>7, <2>1, <2>2 DEF SpanSeated
  <2>4. s.sbasis = Observed /\ s.kind = Senate /\ OnSeatOf(s, e) /\ BienniumOf(e.date) = s.sb - 1
          => \E u \in L : SameTenure(s, u) /\ u.sb < s.sb
    <3> SUFFICES ASSUME s.sbasis = Observed, s.kind = Senate, OnSeatOf(s, e), BienniumOf(e.date) = s.sb - 1
                 PROVE  \E u \in L : SameTenure(s, u) /\ u.sb < s.sb
      OBVIOUS
    <3>1. \/ \E u \in L : SameTenure(s, u) /\ u.sb < s.sb
          \/ i \in Eligible(o.spans, e) /\ Key(s) \notin DOMAIN o.seated
      BY EarlierTenure
    <3> QED BY <2>2, <3>1 DEF r
  <2> HIDE DEF s
  <2> QED BY <2>3, <2>4, OneMoreSeating DEF s
<1>14. ASSUME NEW j \in DOMAIN o.spans, j # k PROVE PairSeated(t, o.spans[j]) /\ PairSeated(o.spans[j], t)
  <2> DEFINE s == o.spans[j]
  <2>1. PairSeated(r, s) /\ s.sb \in Int /\ s.from \in Nat /\ s.to \in Nat /\ Key(s) # Key(r)
    BY <1>1, <1>10, <1>14, SpansTyped DEF SeatInv, r
  <2>2. ~MatchesSeat(r, e) => ~MatchesSeat(s, e)
    BY <1>8
  <2> HIDE DEF s
  <2>3. Key(t) = Key(r) /\ Seat(t) = Seat(r) /\ OnSeatOf(t, e)
    BY <1>6, <1>8, KeyFields DEF OnSeatOf, Seat
  <2>4. ASSUME Ahead(t, s) PROVE t.to < s.from
    <3>1. BienniumOf(s.from) = r.sb /\ s.mem = r.mem /\ Seat(s) = Seat(r)
      BY <1>6, <2>3, <2>4 DEF Ahead
    <3>2. r.from <= s.from
      BY <1>2, <1>4, <2>1, <3>1, Timeline
    <3>3. Ahead(r, s)
      BY <3>1, <3>2 DEF Ahead
    <3> QED BY <1>6, <2>1, <3>3 DEF PairSeated
  <2>5. ASSUME Ahead(s, t) PROVE s.to < t.from
    <3>1. s.from <= e.date /\ s.sb = b /\ t.mem = s.mem /\ Seat(t) = Seat(s)
      BY <1>6, <2>5 DEF Ahead, b
    <3>2. OnSeatOf(s, e)
      BY <2>3, <3>1 DEF OnSeatOf
    <3>3. CASE r.sb = b
      <4>1. s.mem = r.mem /\ s.kind = r.kind /\ s.disc = r.disc /\ s.sb = r.sb
        BY <1>6, <2>3, <3>1, <3>3 DEF Seat
      <4>2. Key(s) = Key(r)
        BY <4>1, KeyFields
      <4> QED BY <2>1, <4>2
    <3>4. CASE r.sb - 1 = b /\ \A i \in DOMAIN o.spans : ~MatchesSeat(o.spans[i], e)
      <4>1. ~MatchesSeat(s, e)
        BY <3>4 DEF s
      <4>2. s.to < e.date
        BY <1>2, <2>1, <3>1, <3>2, <4>1 DEF MatchesSeat, Covers
      <4> QED BY <1>6, <4>2
    <3> QED BY <1>11, <3>3, <3>4
  <2>6. t.sbasis # Observed /\ Key(s) # Key(t)
    BY <1>2, <1>6, <2>1, <2>3
  <2> QED BY <2>4, <2>5, <2>6 DEF PairSeated, s
<1>15. ASSUME NEW key \in DOMAIN seated
       PROVE  \E x \in X \cup {e} : x.mem = key[1] /\ x.seat = <<key[2], key[3]>> /\ x.date = seated[key]
  <2>1. CASE key = Key(r)
    <3>1. e.mem = key[1] /\ e.seat = <<key[2], key[3]>> /\ e.date = seated[key]
      BY <1>7, <1>8, <2>1 DEF Key, OnSeatOf, Seat
    <3> QED BY <3>1
  <2>2. CASE key # Key(r)
    <3>1. key \in DOMAIN o.seated /\ seated[key] = o.seated[key]
      BY <1>7, <1>15, <2>2
    <3>2. \E x \in X : x.mem = key[1] /\ x.seat = <<key[2], key[3]>> /\ x.date = o.seated[key]
      BY <3>1 DEF SeatInv
    <3> QED BY <3>1, <3>2
  <2> QED BY <2>1, <2>2
<1>16. \A i \in DOMAIN p.spans : SpanSeated(p.spans[i], p.seated, L, current, M, owned, X \cup {e})
  BY <1>5, <1>9, <1>12, <1>13
<1>17. ASSUME NEW i \in DOMAIN p.spans, NEW j \in DOMAIN p.spans, i # j PROVE PairSeated(p.spans[i], p.spans[j])
  <2>1. i # k /\ j # k => PairSeated(o.spans[i], o.spans[j])
    BY <1>9, <1>17 DEF SeatInv
  <2> QED BY <1>9, <1>14, <1>17, <2>1
<1> QED BY <1>5, <1>15, <1>16, <1>17 DEF SeatInv, p

\* A seating keeps what is known of the seats.
LEMMA SeatedSeat ==
  ASSUME NEW o \in OverlayStates, NEW L, NEW current \in Biennia, NEW M, NEW owned,
         NEW X \in SUBSET Events, SeatInv(o, L, current, M, owned, X),
         NEW e \in Events, \A x \in X : x.date <= e.date, e.mem \in M, e.seat[1] \in owned,
         e.seat \in Kinds \X Nat
  PROVE  SeatInv(ApplySeated(o, e, current), L, current, M, owned, X \cup {e})
<1>1. \A i \in DOMAIN o.spans : Key(o.spans[i]) \notin DOMAIN o.seated => o.spans[i].from = FirstDay(o.spans[i].sb)
  BY DEF SeatInv, SpanSeated
<1>2. e.seat[1] \in Kinds
  OBVIOUS
<1>3. \/ /\ ApplySeated(o, e, current) = o
         /\ \A i \in Eligible(o.spans, e) : Key(o.spans[i]) \in DOMAIN o.seated
      \/ \E k \in Eligible(o.spans, e) :
           /\ Key(o.spans[k]) \notin DOMAIN o.seated
           /\ ApplySeated(o, e, current) = DatedAt(o, e, k)
           /\ \A i \in Eligible(o.spans, e) : Key(o.spans[i]) \in DOMAIN o.seated \cup {Key(o.spans[k])}
      \/ /\ Eligible(o.spans, e) = {} /\ InBiennium(e.date, current)
         /\ ApplySeated(o, e, current) = MintedBy(o, e, current)
  BY <1>1, <1>2, SeatedEffect
<1>4. CASE /\ ApplySeated(o, e, current) = o
           /\ \A i \in Eligible(o.spans, e) : Key(o.spans[i]) \in DOMAIN o.seated
  BY <1>4, KeptSeat
<1>5. ASSUME NEW k \in Eligible(o.spans, e), Key(o.spans[k]) \notin DOMAIN o.seated,
             ApplySeated(o, e, current) = DatedAt(o, e, k),
             \A i \in Eligible(o.spans, e) : Key(o.spans[i]) \in DOMAIN o.seated \cup {Key(o.spans[k])}
      PROVE  SeatInv(ApplySeated(o, e, current), L, current, M, owned, X \cup {e})
  BY <1>5, DatedSeat
<1>6. CASE /\ Eligible(o.spans, e) = {} /\ InBiennium(e.date, current)
           /\ ApplySeated(o, e, current) = MintedBy(o, e, current)
  BY <1>6, MintedSeat
<1> QED BY <1>3, <1>4, <1>5, <1>6

\* What an overlay may be given: listed tenures of M's members, none of them of a later
\* biennium, and movers only where no listed kind is owned.
OverlayInput(spans, current, M, owned, movers) ==
  /\ spans \in Seq(BareSpan)
  /\ \A i \in DOMAIN spans :
       /\ spans[i].sbasis = Observed /\ spans[i].from = FirstDay(spans[i].sb)
       /\ spans[i].mem \in M /\ spans[i].kind \in owned
       /\ spans[i].kind \in Listeds => spans[i].sb <= current
  /\ \A i, j \in DOMAIN spans : i # j => Key(spans[i]) # Key(spans[j])
  /\ owned \cap Listeds = {} \/ \A b \in Biennia : movers[b] = {}

\* The overlay starts with nothing seated.
LEMMA SeatsBegin ==
  ASSUME NEW current \in Biennia, NEW M, NEW owned \in SUBSET Kinds, NEW movers, NEW spans,
         OverlayInput(spans, current, M, owned, movers),
         NEW minted \in Seq(BareSpan), MintedFits(minted, spans, M, owned, movers),
         NEW o, o.spans = spans \o minted, o.seated = <<>>
  PROVE  SeatInv(o, Elements(spans), current, M, owned, {})
<1> DEFINE K == Len(spans)
           N == Len(minted)
<1>1. spans \in Seq(BareSpan)
  BY DEF OverlayInput
<1>2. /\ K \in Nat /\ DOMAIN spans = 1..K /\ N \in Nat /\ DOMAIN minted = 1..N
      /\ DOMAIN o.spans = 1..(K + N)
      /\ \A j \in 1..K : o.spans[j] = spans[j]
      /\ \A i \in 1..N : o.spans[K + i] = minted[i]
  BY <1>1
<1>3. o.spans \in Seq(BareSpan)
  BY <1>1
<1> HIDE DEF K, N
<1>4. ASSUME NEW i \in 1..(K + N)
      PROVE  \/ i \in 1..K /\ o.spans[i] = spans[i]
             \/ \E n \in 1..N : i = K + n /\ o.spans[i] = minted[n]
  <2>1. i \in 1..K \/ (i - K \in 1..N /\ i = K + (i - K))
    BY <1>2
  <2> QED BY <1>2, <2>1
<1>5. ASSUME NEW i \in 1..(K + N)
      PROVE  /\ o.spans[i].sbasis = Observed /\ o.spans[i].from = FirstDay(o.spans[i].sb)
             /\ o.spans[i].mem \in M /\ o.spans[i].kind \in owned
             /\ o.spans[i].kind \in Listeds =>
                  o.spans[i].sb <= current /\ \E t \in Elements(spans) : t = o.spans[i]
  <2>1. CASE i \in 1..K /\ o.spans[i] = spans[i]
    BY <1>2, <2>1 DEF OverlayInput, Elements
  <2>2. ASSUME NEW n \in 1..N, o.spans[i] = minted[n]
        PROVE  /\ o.spans[i].sbasis = Observed /\ o.spans[i].from = FirstDay(o.spans[i].sb)
               /\ o.spans[i].mem \in M /\ o.spans[i].kind \in owned
               /\ o.spans[i].kind \notin Listeds
    <3>1. /\ minted[n].sbasis = Observed /\ minted[n].from = FirstDay(minted[n].sb)
          /\ minted[n].kind \in owned /\ minted[n].mem \in M
          /\ minted[n].sb \in Biennia /\ minted[n].mem \in movers[minted[n].sb]
      BY <1>2 DEF MintedFits
    <3>2. owned \cap Listeds = {}
      BY <3>1 DEF OverlayInput
    <3> QED BY <2>2, <3>1, <3>2
  <2> QED BY <1>4, <2>1, <2>2
<1>6. ASSUME NEW i \in 1..(K + N), NEW j \in 1..(K + N), i # j PROVE Key(o.spans[i]) # Key(o.spans[j])
  <2>1. \A m, n \in 1..K : m # n => Key(spans[m]) # Key(spans[n])
    BY <1>2 DEF OverlayInput
  <2>2. /\ \A m, n \in 1..N : m # n => Key(minted[m]) # Key(minted[n])
        /\ \A m \in 1..N, n \in 1..K : Key(spans[n]) # Key(minted[m])
    BY <1>2 DEF MintedFits
  <2> QED BY <1>2, <1>4, <1>6, <2>1, <2>2
<1>7. ASSUME NEW i \in 1..(K + N) PROVE SpanSeated(o.spans[i], o.seated, Elements(spans), current, M, owned, {})
  <2> DEFINE s == o.spans[i]
  <2>1. /\ s.sbasis = Observed /\ s.from = FirstDay(s.sb) /\ s.mem \in M /\ s.kind \in owned
        /\ s.kind \in Listeds => s.sb <= current /\ \E t \in Elements(spans) : t = s
    BY <1>5
  <2>2. s.sb \in Int
    BY <1>2, <1>3, SpansTyped
  <2>3. DOMAIN o.seated = {}
    OBVIOUS
  <2> HIDE DEF s
  <2>4. SameTenure(s, s)
    BY DEF SameTenure
  <2>5. StartKnown(s, Elements(spans), {})
    BY <2>1, <2>4 DEF StartKnown
  <2>6. FirstDay(s.sb - 1) <= s.from
    <3>1. s.sb - 1 \in Int /\ s.sb - 1 <= s.sb
      BY <2>2
    <3>2. FirstDay(s.sb - 1) <= FirstDay(s.sb)
      BY <2>2, <3>1, Timeline
    <3> QED BY <2>1, <3>2
  <2>7. SeatedBefore(s, Elements(spans), {})
    BY DEF SeatedBefore
  <2> QED BY <2>1, <2>3, <2>4, <2>5, <2>6, <2>7 DEF SpanSeated, s
<1>8. ASSUME NEW i \in 1..(K + N), NEW j \in 1..(K + N), i # j PROVE PairSeated(o.spans[i], o.spans[j])
  <2> DEFINE s == o.spans[i]
             t == o.spans[j]
  <2>1. t.from = FirstDay(t.sb) /\ Key(s) # Key(t)
    BY <1>5, <1>6, <1>8
  <2>2. t.sb \in Int /\ t.from \in Nat /\ t.to \in Nat /\ t \in BareSpan /\ s.sb \in Int
    BY <1>2, <1>3, SpansTyped
  <2> HIDE DEF s, t
  <2>3. BienniumOf(t.from) = t.sb
    <3>1. BienniumOf(t.from) \in Nat /\ t.sb <= BienniumOf(t.from)
      <4>1. FirstDay(t.sb) <= t.from
        BY <2>1, <2>2
      <4> QED BY <2>2, <4>1, Timeline
    <3>2. t.from <= LastDay(t.sb)
      BY <2>2, BareIsTyped DEF BareFits
    <3>3. BienniumOf(t.from) <= t.sb
      BY <2>2, <3>2, Timeline
    <3> QED BY <2>2, <3>1, <3>3
  <2>4. ~Ahead(s, t)
    BY <2>1, <2>3, KeyFields DEF Ahead, Seat
  <2>5. FirstDay(t.sb) <= t.from
    BY <2>1, <2>2
  <2> QED BY <2>4, <2>5 DEF PairSeated, s, t
<1>9. DOMAIN o.seated = {}
  OBVIOUS
<1> QED BY <1>2, <1>7, <1>8, <1>9 DEF SeatInv

(***************************************************************************)
(* A departure keeps SweptFrom, and heeds itself.                          *)
(***************************************************************************)

\* u is another seat of the member and starts after d, inside s.
Reenters(u, s, d) == u.mem = s.mem /\ Seat(u) # Seat(s) /\ d < u.from /\ u.from <= s.to

ReturnKnown(spans, context, s, d) ==
  LET back == ReEntryAfter(spans \o context, s, d)
  IN back # {} => \E u \in Elements(spans) \cup Elements(context) :
                    Reenters(u, s, d) /\ (spans \o context)[First(back)] = u

\* The re-entry a sweep reads is one of the spans it knows.
LEMMA ReturnFound ==
  ASSUME NEW spans \in Seq(BareSpan), NEW context \in Seq(BareSpan), NEW s, NEW d
  PROVE  ReturnKnown(spans, context, s, d)
<1> DEFINE known == spans \o context
           back == ReEntryAfter(known, s, d)
           u == known[First(back)]
           K == Len(spans)
           N == Len(context)
<1> SUFFICES ASSUME back # {}
             PROVE  \E v \in Elements(spans) \cup Elements(context) : Reenters(v, s, d) /\ u = v
  BY DEF ReturnKnown
<1>1. /\ K \in Nat /\ N \in Nat /\ DOMAIN known = 1..(K + N) /\ DOMAIN spans = 1..K /\ DOMAIN context = 1..N
      /\ \A j \in 1..K : known[j] = spans[j]
      /\ \A j \in 1..N : known[K + j] = context[j]
  OBVIOUS
<1> HIDE DEF K, N, known
<1>2. back \in SUBSET Nat /\ back # {} /\ \A i \in back : i \in DOMAIN known /\ Reenters(known[i], s, d)
  <2>1. \A i \in back : i \in DOMAIN known /\ Reenters(known[i], s, d)
    BY Zenon DEF ReEntryAfter, Reenters
  <2> HIDE DEF back
  <2> QED BY <1>1, <2>1
<1> HIDE DEF back
<1>3. First(back) \in back
  BY <1>2, HasLeast DEF First
<1>4. First(back) \in 1..(K + N) /\ Reenters(u, s, d)
  BY <1>1, <1>2, <1>3
<1>5. u \in Elements(spans) \cup Elements(context)
  <2>1. CASE First(back) \in 1..K
    BY <1>1, <2>1 DEF Elements
  <2>2. CASE First(back) - K \in 1..N
    <3>1. u = context[First(back) - K]
      <4>1. First(back) = K + (First(back) - K)
        BY <1>1, <1>4
      <4> QED BY <1>1, <2>2, <4>1
    <3> QED BY <1>1, <2>2, <3>1 DEF Elements
  <2> QED BY <1>1, <1>4, <2>1, <2>2
<1> QED BY <1>4, <1>5 DEF back, known

\* What one span's turn in a sweep may do.
LEMMA SweepOneEffect ==
  ASSUME NEW now \in OverlayStates, NEW e \in Events, NEW context \in Seq(BareSpan),
         NEW i \in DOMAIN now.spans, NEW s, s = now.spans[i], NEW v, v = SweepOne(e, context, i, now)
  PROVE  /\ v.seated = now.seated
         /\ \/ v.spans = now.spans /\ (~RunsAcross(s, e) \/ SeatedAtThisInstant(now.seated, s, e.date))
            \/ RunsAcross(s, e) /\ v.spans = [now.spans EXCEPT ![i] = CloseAt(s, e)]
            \/ \E u \in Elements(now.spans) \cup Elements(context) :
                 /\ Reenters(u, s, e.date)
                 /\ \/ v.spans = now.spans /\ BienniumOf(u.from) = s.sb
                    \/ /\ RunsAcross(s, e)
                       /\ v.spans = Append([now.spans EXCEPT ![i] = CloseAt(s, e)], SplitTail(s, u.from))
<1> DEFINE known == now.spans \o context
           back == ReEntryAfter(known, s, e.date)
           return == known[First(back)].from
           h == [now EXCEPT !.applied = @ \cup {e}]
           closed == [now.spans EXCEPT ![i] = CloseAt(s, e)]
           V1 == [h EXCEPT !.spans[i] = CloseAt(s, e)]
           V2 == [h EXCEPT !.spans = Append([@ EXCEPT ![i] = CloseAt(s, e)], SplitTail(s, return))]
<1>1. now.spans \in Seq(BareSpan) /\ h \in OverlayStates /\ h.spans = now.spans /\ h.seated = now.seated
  BY DEF OverlayStates
<1>2. s.from \in Nat /\ s.to \in Nat /\ e.date \in Nat
  BY <1>1, SpansTyped, EventFacts
<1>3. RunsAcross(s, e) <=> s.mem = e.mem /\ IsOpenThrough(s, e.date)
  BY <1>2 DEF RunsAcross, IsOpenThrough
<1>4. v = CASE s.mem # e.mem \/ ~IsOpenThrough(s, e.date) -> now
            [] s.mem = e.mem /\ IsOpenThrough(s, e.date) /\ SeatedAtThisInstant(now.seated, s, e.date) -> h
            [] OTHER -> IF back = {} THEN V1
                        ELSE IF BienniumOf(return) = s.sb THEN h
                        ELSE V2
  BY Zenon DEF SweepOne
<1>5. V1.spans = closed /\ V1.seated = now.seated
  <2>1. V1 = [h EXCEPT !.spans = closed]
    BY <1>1
  <2> HIDE DEF V1, h, closed
  <2> QED BY <1>1, <2>1 DEF OverlayStates
<1>6. V2.spans = Append(closed, SplitTail(s, return)) /\ V2.seated = now.seated
  <2> DEFINE out == Append(closed, SplitTail(s, return))
  <2>1. V2 = [h EXCEPT !.spans = out]
    BY <1>1
  <2> HIDE DEF V2, h, out
  <2>2. V2.spans = out /\ V2.seated = now.seated
    BY <1>1, <2>1 DEF OverlayStates
  <2> QED BY <2>2 DEF out
<1>7. back # {} => \E u \in Elements(now.spans) \cup Elements(context) : Reenters(u, s, e.date) /\ return = u.from
  <2> SUFFICES ASSUME back # {}
               PROVE  \E u \in Elements(now.spans) \cup Elements(context) : Reenters(u, s, e.date) /\ return = u.from
    OBVIOUS
  <2>1. PICK u \in Elements(now.spans) \cup Elements(context) : Reenters(u, s, e.date) /\ known[First(back)] = u
    <3>1. ReturnKnown(now.spans, context, s, e.date)
      BY <1>1, ReturnFound
    <3> QED BY <3>1 DEF ReturnKnown
  <2> QED BY <2>1
<1> HIDE DEF V1, V2, h, back, return, closed
<1>8. \/ v = now /\ ~RunsAcross(s, e)
      \/ v = h /\ SeatedAtThisInstant(now.seated, s, e.date)
      \/ v = V1 /\ RunsAcross(s, e)
      \/ v = h /\ back # {} /\ BienniumOf(return) = s.sb
      \/ v = V2 /\ back # {} /\ RunsAcross(s, e)
  BY <1>3, <1>4
<1>9. CASE v = now /\ ~RunsAcross(s, e)
  BY <1>9
<1>10. CASE v = h /\ SeatedAtThisInstant(now.seated, s, e.date)
  BY <1>1, <1>10
<1>11. CASE v = V1 /\ RunsAcross(s, e)
  BY <1>5, <1>11 DEF closed
<1>12. CASE v = h /\ back # {} /\ BienniumOf(return) = s.sb
  BY <1>1, <1>7, <1>12
<1>13. CASE v = V2 /\ back # {} /\ RunsAcross(s, e)
  <2>1. PICK u \in Elements(now.spans) \cup Elements(context) : Reenters(u, s, e.date) /\ return = u.from
    BY <1>7, <1>13
  <2>2. v.seated = now.seated /\ v.spans = Append(closed, SplitTail(s, u.from))
    BY <1>6, <1>13, <2>1
  <2> QED BY <1>13, <2>1, <2>2 DEF closed
<1> QED BY <1>8, <1>9, <1>10, <1>11, <1>12, <1>13

\* Closing at a departure keeps the start; splitting off makes a rest of the same seat.
LEMMA ClosedStart ==
  ASSUME NEW s \in BareSpan, NEW e \in Events, RunsAcross(s, e)
  PROVE  SameStart(CloseAt(s, e), s) /\ CloseAt(s, e).to = e.date /\ e.date <= s.to
<1>1. s \in Typed /\ s.from \in Nat /\ s.to \in Nat /\ e.date \in Nat
  BY BareIsTyped, EventFacts DEF Typed
<1> DEFINE to == Later(e.date, s.from)
<1>2. to = e.date /\ e.date <= s.to
  BY <1>1 DEF Later, RunsAcross
<1>3. CloseAt(s, e) = [s EXCEPT !.to = to, !.ebasis = e.basis]
  BY DEF CloseAt
<1> HIDE DEF to
<1>4. SameStart(CloseAt(s, e), s) /\ CloseAt(s, e).to = to
  BY <1>1, <1>3 DEF Typed, SameStart, SameTenure
<1> QED BY <1>2, <1>4

LEMMA TailStart ==
  ASSUME NEW s \in BareSpan, NEW d
  PROVE  /\ SplitTail(s, d).mem = s.mem /\ Seat(SplitTail(s, d)) = Seat(s) /\ SplitTail(s, d).kind = s.kind
         /\ SplitTail(s, d).from = d /\ SplitTail(s, d).sb = BienniumOf(d)
         /\ SplitTail(s, d).sbasis = Derived
<1>1. s \in Typed
  BY BareIsTyped
<1> DEFINE b == BienniumOf(d)
<1>2. SplitTail(s, d) = [s EXCEPT !.sb = b, !.from = d, !.sbasis = Derived]
  BY DEF SplitTail
<1> HIDE DEF b
<1>3. /\ SplitTail(s, d).mem = s.mem /\ Seat(SplitTail(s, d)) = Seat(s) /\ SplitTail(s, d).kind = s.kind
      /\ SplitTail(s, d).from = d /\ SplitTail(s, d).sb = b /\ SplitTail(s, d).sbasis = Derived
  BY <1>1, <1>2 DEF Typed, Seat
<1> QED BY <1>3 DEF b

\* What holds a tenure open across a departure reads no more than its start.
LEMMA HeldByStart ==
  ASSUME NEW s, NEW t, SameStart(s, t), NEW e, NEW U, NEW X
  PROVE  HeldBy(s, e, U, X) <=> HeldBy(t, e, U, X)
<1>1. s.mem = t.mem /\ s.kind = t.kind /\ s.disc = t.disc /\ s.sb = t.sb /\ s.sbasis = t.sbasis
  BY DEF SameStart, SameTenure
<1>2. Seat(s) = Seat(t) /\ \A x : OnSeatOf(s, x) <=> OnSeatOf(t, x)
  BY <1>1 DEF Seat, OnSeatOf
<1> QED BY <1>1, <1>2 DEF HeldBy, SeatedThen

LEMMA ReturnedStart ==
  ASSUME NEW s, NEW t, SameStart(s, t), NEW p, NEW context, Returned(t, p, context)
  PROVE  Returned(s, p, context)
BY DEF SameStart, SameTenure, Returned

\* What a sweep starts from: seats as the seatings left them, and a context of other kinds.
SweepInput(p, context, L, current, M, owned, X) ==
  /\ p \in OverlayStates /\ SeatInv(p, L, current, M, owned, X) /\ X \subseteq Events
  /\ context \in Seq(BareSpan)
  /\ \A u \in Elements(context) : u.mem \in M => u.kind \notin owned

\* Every span of a sweep is of an owner and kind it started with.
LEMMA SweptOwner ==
  ASSUME NEW p, NEW context, NEW L, NEW current, NEW M, NEW owned, NEW X,
         SweepInput(p, context, L, current, M, owned, X), NEW now \in OverlayStates,
         SweptFrom(now, p, context), NEW i \in DOMAIN now.spans
  PROVE  /\ now.spans[i].mem \in M /\ now.spans[i].kind \in owned
         /\ \E t \in Elements(p.spans) : t.mem = now.spans[i].mem /\ t.kind = now.spans[i].kind
<1> DEFINE s == now.spans[i]
<1>1. p.spans \in Seq(BareSpan) /\ now.spans \in Seq(BareSpan)
  BY DEF SweepInput, OverlayStates
<1>2. \A j \in DOMAIN p.spans : p.spans[j].mem \in M /\ p.spans[j].kind \in owned
  BY DEF SweepInput, SeatInv, SpanSeated
<1>3. i \in DOMAIN p.spans \/ i > Len(p.spans)
  BY <1>1
<1>4. \E t \in Elements(p.spans) : t.mem = s.mem /\ t.kind = s.kind
  <2>1. CASE i \in DOMAIN p.spans
    <3>1. SameStart(s, p.spans[i])
      BY <2>1 DEF SweptFrom
    <3> QED BY <2>1, <3>1 DEF SameStart, SameTenure, Elements
  <2>2. CASE i > Len(p.spans)
    BY <2>2 DEF SweptFrom, Returned
  <2> QED BY <1>3, <2>1, <2>2
<1>5. s.mem \in M /\ s.kind \in owned
  BY <1>2, <1>4 DEF Elements
<1> QED BY <1>4, <1>5

\* Where a known span starts, one of the origins does; on its seat unless it is a rest.
LEMMA OriginOf ==
  ASSUME NEW p, NEW context, NEW now \in OverlayStates, SweptFrom(now, p, context),
         p \in OverlayStates, NEW u \in Elements(now.spans) \cup Elements(context)
  PROVE  \E w \in Origins(p, context) : w.mem = u.mem /\ w.from = u.from
<1>1. p.spans \in Seq(BareSpan) /\ now.spans \in Seq(BareSpan)
  BY DEF OverlayStates
<1>2. CASE u \in Elements(context)
  BY <1>2 DEF Origins
<1>3. CASE u \in Elements(now.spans)
  <2>1. PICK i \in DOMAIN now.spans : u = now.spans[i]
    BY <1>3 DEF Elements
  <2>2. i \in DOMAIN p.spans \/ i > Len(p.spans)
    BY <1>1
  <2>3. CASE i \in DOMAIN p.spans
    <3>1. SameStart(u, p.spans[i])
      BY <2>1, <2>3 DEF SweptFrom
    <3>2. p.spans[i] \in Origins(p, context)
      BY <2>3 DEF Origins, Elements
    <3> QED BY <3>1, <3>2 DEF SameStart, SameTenure
  <2>4. CASE i > Len(p.spans)
    BY <2>1, <2>4 DEF SweptFrom, Returned
  <2> QED BY <2>2, <2>3, <2>4
<1> QED BY <1>2, <1>3

\* A member who re-enters in the biennium of the tenure's key holds it.
LEMMA ReturnHolds ==
  ASSUME NEW p, NEW context, NEW L, NEW current, NEW M, NEW owned, NEW X,
         SweepInput(p, context, L, current, M, owned, X), NEW now \in OverlayStates,
         SweptFrom(now, p, context), NEW e \in Events, NEW i \in DOMAIN now.spans,
         RunsAcross(now.spans[i], e),
         NEW u \in Elements(now.spans) \cup Elements(context), Reenters(u, now.spans[i], e.date),
         BienniumOf(u.from) = now.spans[i].sb
  PROVE  HeldBy(now.spans[i], e, Origins(p, context), X)
<1> DEFINE s == now.spans[i]
<1>0. p \in OverlayStates /\ p.spans \in Seq(BareSpan) /\ now.spans \in Seq(BareSpan) /\ context \in Seq(BareSpan)
  BY DEF SweepInput, OverlayStates
<1>1. s.from \in Nat /\ s.to \in Nat /\ s.sb \in Int /\ e.date \in Nat
  BY <1>0, SpansTyped, EventFacts
<1>2. s.mem \in M /\ s.kind \in owned
  BY SweptOwner
<1>3. PICK w \in Origins(p, context) : w.mem = u.mem /\ w.from = u.from
  BY <1>0, OriginOf
<1>4. /\ w.mem = s.mem /\ e.date < w.from /\ w.from <= s.to /\ BienniumOf(w.from) = s.sb
      /\ s.from <= e.date
  BY <1>3 DEF Reenters, RunsAcross
<1>5. CASE Seat(w) # Seat(s)
  BY <1>4, <1>5 DEF HeldBy
<1>6. CASE Seat(w) = Seat(s)
  <2>1. w \notin Elements(context)
    BY <1>2, <1>4, <1>6 DEF SweepInput, Seat
  <2>2. PICK j \in DOMAIN p.spans : w = p.spans[j]
    BY <2>1 DEF Origins, Elements
  <2>3. /\ w.sb \in Int /\ w.from \in Nat
        /\ SpanSeated(w, p.seated, L, current, M, owned, X)
    BY <1>0, <2>2, SpansTyped, SeatFacts DEF SweepInput
  <2>4. CASE i \in DOMAIN p.spans
    <3> DEFINE t == p.spans[i]
    <3>1. SameStart(s, t) /\ s.to <= t.to
      BY <2>4 DEF SweptFrom
    <3>2. t.to \in Nat /\ (i # j => PairSeated(t, w))
      BY <1>0, <2>2, <2>4, SpansTyped DEF SweepInput, SeatInv
    <3>3. i = j => t = w
      BY <2>2
    <3> HIDE DEF s, t
    <3>4. t.from = s.from /\ t.mem = s.mem /\ Seat(t) = Seat(s) /\ t.sb = s.sb
      BY <3>1 DEF SameStart, SameTenure, Seat
    <3>5. i # j
      BY <1>1, <1>4, <2>3, <3>3, <3>4
    <3>6. t.from <= w.from
      BY <1>1, <1>4, <2>3, <3>4
    <3>7. Ahead(t, w)
      BY <1>4, <1>6, <3>4, <3>6 DEF Ahead
    <3>8. t.to < w.from
      BY <3>2, <3>5, <3>7 DEF PairSeated
    <3> QED BY <1>1, <1>4, <2>3, <3>1, <3>2, <3>8
  <2>5. CASE i > Len(p.spans)
    <3>1. s.sbasis = Derived /\ s.sb = BienniumOf(s.from)
      BY <2>5 DEF SweptFrom, Returned
    <3> HIDE DEF s
    <3>2. CASE SeatedThen(X, w, w.from)
      <4>1. PICK x \in X : OnSeatOf(w, x) /\ x.date = w.from
        BY <3>2 DEF SeatedThen
      <4>2. OnSeatOf(s, x) /\ e.date < x.date /\ BienniumOf(x.date) = s.sb
        BY <1>4, <1>6, <4>1 DEF OnSeatOf
      <4> QED BY <3>1, <4>2 DEF HeldBy, s
    <3>3. CASE w.from = FirstDay(w.sb)
      <4>1. s.sb <= w.sb /\ w.sb <= s.sb
        <5>1. FirstDay(w.sb) <= w.from
          BY <2>3, <3>3
        <5>2. w.sb <= BienniumOf(w.from)
          BY <2>3, <5>1, Timeline
        <5>3. w.from <= LastDay(w.sb)
          BY <2>3, <3>3, Timeline
        <5>4. BienniumOf(w.from) <= w.sb
          BY <2>3, <5>3, Timeline
        <5> QED BY <1>4, <5>2, <5>4
      <4>2. w.sb = s.sb
        BY <1>1, <2>3, <4>1
      <4>3. FirstDay(s.sb) <= s.from
        <5>1. s.sb <= BienniumOf(s.from)
          BY <1>1, <3>1
        <5> QED BY <1>1, <5>1, Timeline
      <4> QED BY <1>1, <1>4, <2>3, <3>3, <4>2, <4>3
    <3> QED BY <2>3, <3>2, <3>3 DEF SpanSeated, StartKnown
  <2> QED BY <1>0, <2>4, <2>5
<1> QED BY <1>5, <1>6

\* Halfway through the sweep of N spans: the first i heed e too, and the rests split off.
Halfway(now, i, N, e, p, context, D, X) ==
  /\ SweptFrom(now, p, context) /\ Heeded(now, p, context, D, X)
  /\ \A j \in DOMAIN now.spans :
       (j <= i \/ j > N) /\ RunsAcross(now.spans[j], e) => HeldBy(now.spans[j], e, Origins(p, context), X)

\* A span cut short is held by what held it, and runs across no more.
LEMMA ClosedHeeds ==
  ASSUME NEW s \in BareSpan, NEW e \in Events, RunsAcross(s, e)
  PROVE  /\ ~RunsAcross(CloseAt(s, e), e)
         /\ \A x \in Events : RunsAcross(CloseAt(s, e), x) => RunsAcross(s, x)
         /\ \A x, U, X : HeldBy(s, x, U, X) => HeldBy(CloseAt(s, e), x, U, X)
<1> DEFINE t == CloseAt(s, e)
<1>1. SameStart(t, s) /\ t.to = e.date /\ e.date <= s.to
  BY ClosedStart
<1>2. s.from \in Nat /\ s.to \in Nat /\ e.date \in Nat
  BY BareIsTyped, EventFacts DEF Typed
<1>3. \A x \in Events : x.date \in Nat
  BY EventFacts
<1> HIDE DEF t
<1>4. t.from = s.from /\ t.mem = s.mem
  BY <1>1 DEF SameStart, SameTenure
<1>5. ~RunsAcross(t, e)
  BY <1>1, <1>2 DEF RunsAcross
<1>6. \A x \in Events : RunsAcross(t, x) => RunsAcross(s, x)
  BY <1>1, <1>2, <1>3, <1>4 DEF RunsAcross
<1>7. \A x, U, X : HeldBy(s, x, U, X) => HeldBy(t, x, U, X)
  BY <1>1, HeldByStart
<1> QED BY <1>5, <1>6, <1>7 DEF t

\* A turn that leaves the spans alone, when the member is held or runs across nothing.
LEMMA LeftKeeps ==
  ASSUME NEW p, NEW context, NEW now, NEW v, v.spans = now.spans, v.seated = now.seated,
         NEW N \in Nat, NEW i \in 1..N, NEW e, NEW D, NEW X,
         Halfway(now, i - 1, N, e, p, context, D, X), DOMAIN now.spans \subseteq Nat,
         RunsAcross(now.spans[i], e) => HeldBy(now.spans[i], e, Origins(p, context), X)
  PROVE  Halfway(v, i, N, e, p, context, D, X)
<1>1. SweptFrom(v, p, context)
  BY DEF Halfway, SweptFrom
<1>2. Heeded(v, p, context, D, X)
  BY DEF Halfway, Heeded
<1>3. ASSUME NEW j \in DOMAIN now.spans, j <= i \/ j > N, RunsAcross(now.spans[j], e)
      PROVE  HeldBy(now.spans[j], e, Origins(p, context), X)
  <2>1. j <= i - 1 \/ j > N \/ j = i
    BY <1>3
  <2> QED BY <1>3, <2>1 DEF Halfway
<1> QED BY <1>1, <1>2, <1>3 DEF Halfway

\* A turn that closes its span, and may split off a rest behind all the others.
LEMMA CutKeeps ==
  ASSUME NEW p, NEW context, NEW L, NEW current, NEW M, NEW owned, NEW X,
         SweepInput(p, context, L, current, M, owned, X), NEW now \in OverlayStates, NEW e \in Events,
         NEW D \in SUBSET Events, \A x \in D : x.date <= e.date,
         NEW N \in Nat, NEW i \in 1..N, N <= Len(now.spans),
         Halfway(now, i - 1, N, e, p, context, D, X), RunsAcross(now.spans[i], e),
         NEW v \in OverlayStates, v.seated = now.seated, DOMAIN now.spans \subseteq DOMAIN v.spans,
         v.spans[i] = CloseAt(now.spans[i], e),
         \A j \in DOMAIN now.spans : j # i => v.spans[j] = now.spans[j],
         \A j \in DOMAIN v.spans \ DOMAIN now.spans :
           \E u \in Elements(now.spans) \cup Elements(context) :
             Reenters(u, now.spans[i], e.date) /\ v.spans[j] = SplitTail(now.spans[i], u.from)
  PROVE  Halfway(v, i, N, e, p, context, D, X)
<1> DEFINE s == now.spans[i]
           K == Len(now.spans)
           U == Origins(p, context)
<1>1. /\ p \in OverlayStates /\ p.spans \in Seq(BareSpan) /\ now.spans \in Seq(BareSpan)
      /\ v.spans \in Seq(BareSpan) /\ context \in Seq(BareSpan)
  BY DEF SweepInput, OverlayStates
<1>2. /\ K \in Nat /\ DOMAIN now.spans = 1..K /\ DOMAIN v.spans = 1..Len(v.spans) /\ Len(v.spans) \in Nat
      /\ Len(p.spans) \in Nat /\ DOMAIN p.spans = 1..Len(p.spans) /\ i \in DOMAIN now.spans
  BY <1>1
<1>3. SweptFrom(now, p, context) /\ Heeded(now, p, context, D, X) /\ Len(p.spans) <= K
  BY DEF Halfway, SweptFrom
<1>4. s \in BareSpan /\ s.to \in Nat /\ s.from \in Nat /\ e.date \in Nat
  BY <1>1, <1>2, SpansTyped, EventFacts
<1>5. /\ SameStart(CloseAt(s, e), s) /\ CloseAt(s, e).to = e.date /\ e.date <= s.to
      /\ ~RunsAcross(CloseAt(s, e), e)
      /\ \A x \in Events : RunsAcross(CloseAt(s, e), x) => RunsAcross(s, x)
      /\ \A x : HeldBy(s, x, U, X) => HeldBy(CloseAt(s, e), x, U, X)
  BY <1>4, ClosedStart, ClosedHeeds
<1>6. ASSUME NEW j \in DOMAIN v.spans, j \notin DOMAIN now.spans
      PROVE  /\ Returned(v.spans[j], p, context)
             /\ v.spans[j].from > e.date /\ v.spans[j].from \in Nat
  <2>1. PICK u \in Elements(now.spans) \cup Elements(context) :
               Reenters(u, s, e.date) /\ v.spans[j] = SplitTail(s, u.from)
    BY <1>6
  <2>2. PICK w \in U : w.mem = u.mem /\ w.from = u.from
    BY <1>1, <1>3, OriginOf
  <2>3. \E t \in Elements(p.spans) : t.mem = s.mem /\ t.kind = s.kind
    BY <1>2, <1>3, SweptOwner
  <2> DEFINE t == SplitTail(s, u.from)
  <2>4. /\ t.mem = s.mem /\ t.kind = s.kind /\ t.from = u.from /\ t.sb = BienniumOf(u.from)
        /\ t.sbasis = Derived
    BY <1>4, TailStart
  <2>5. v.spans[j].from \in Nat
    BY <1>1, SpansTyped
  <2>6. v.spans[j] = t
    BY <2>1
  <2> HIDE DEF t, s, U
  <2>7. Returned(t, p, context)
    BY <2>1, <2>2, <2>3, <2>4 DEF Returned, Reenters, U
  <2>8. t.from > e.date
    BY <2>1, <2>4, <2>5, <2>6, <1>4 DEF Reenters
  <2> QED BY <2>5, <2>6, <2>7, <2>8
<1> HIDE DEF U
<1>7. SweptFrom(v, p, context)
  <2>1. Len(p.spans) <= Len(v.spans)
    <3>1. K <= Len(v.spans)
      <4>1. K = 0 \/ K \in 1..Len(v.spans)
        BY <1>2
      <4> QED BY <1>2, <4>1
    <3> QED BY <1>2, <1>3, <3>1
  <2>2. ASSUME NEW j \in DOMAIN p.spans
        PROVE  SameStart(v.spans[j], p.spans[j]) /\ v.spans[j].to <= p.spans[j].to
    <3>1. j \in DOMAIN now.spans /\ SameStart(now.spans[j], p.spans[j]) /\ now.spans[j].to <= p.spans[j].to
      BY <1>2, <1>3 DEF SweptFrom
    <3>2. CASE j # i
      BY <3>1, <3>2
    <3>3. CASE j = i
      <4>1. SameStart(CloseAt(s, e), p.spans[j])
        BY <1>5, <3>1, <3>3 DEF SameStart, SameTenure
      <4>2. p.spans[j].to \in Nat
        BY <1>1, SpansTyped
      <4>3. CloseAt(s, e).to <= p.spans[j].to
        <5>1. s.to <= p.spans[j].to
          BY <3>1, <3>3
        <5> QED BY <1>4, <1>5, <4>2, <5>1
      <4> QED BY <3>3, <4>1, <4>3
    <3> QED BY <3>2, <3>3
  <2>3. ASSUME NEW j \in DOMAIN v.spans, j > Len(p.spans) PROVE Returned(v.spans[j], p, context)
    <3>1. CASE j \notin DOMAIN now.spans
      BY <1>6, <3>1
    <3>2. CASE j \in DOMAIN now.spans
      <4>1. Returned(now.spans[j], p, context)
        BY <1>3, <2>3, <3>2 DEF SweptFrom
      <4>2. CASE j # i
        BY <3>2, <4>1, <4>2
      <4>3. CASE j = i
        BY <1>5, <4>1, <4>3, ReturnedStart
      <4> QED BY <4>2, <4>3
    <3> QED BY <3>1, <3>2
  <2>4. v.seated = p.seated
    BY <1>3 DEF SweptFrom
  <2> QED BY <2>1, <2>2, <2>3, <2>4 DEF SweptFrom
<1>8. ASSUME NEW x \in D, NEW j \in DOMAIN v.spans, RunsAcross(v.spans[j], x)
      PROVE  HeldBy(v.spans[j], x, U, X)
  <2>1. CASE j \notin DOMAIN now.spans
    <3>1. x.date <= e.date /\ v.spans[j].from > e.date /\ v.spans[j].from \in Nat /\ x.date \in Nat
      BY <1>6, <2>1, EventFacts
    <3> QED BY <1>4, <1>8, <3>1 DEF RunsAcross
  <2>2. CASE j \in DOMAIN now.spans /\ j # i
    BY <1>3, <1>8, <2>2 DEF Heeded, U
  <2>3. CASE j = i
    <3>1. RunsAcross(s, x)
      BY <1>5, <1>8, <2>3
    <3>2. HeldBy(s, x, U, X)
      BY <1>2, <1>3, <3>1 DEF Heeded, U
    <3> QED BY <1>5, <2>3, <3>2
  <2> QED BY <2>1, <2>2, <2>3
<1>9. ASSUME NEW j \in DOMAIN v.spans, j <= i \/ j > N, RunsAcross(v.spans[j], e)
      PROVE  HeldBy(v.spans[j], e, U, X)
  <2>1. CASE j \notin DOMAIN now.spans
    <3>1. v.spans[j].from > e.date /\ v.spans[j].from \in Nat
      BY <1>6, <2>1
    <3> QED BY <1>4, <1>9, <3>1 DEF RunsAcross
  <2>2. CASE j \in DOMAIN now.spans /\ j # i
    <3>1. j <= i - 1 \/ j > N
      BY <1>2, <1>9, <2>2
    <3> QED BY <1>9, <2>2, <3>1 DEF Halfway, U
  <2>3. CASE j = i
    BY <1>5, <1>9, <2>3
  <2> QED BY <2>1, <2>2, <2>3
<1> QED BY <1>7, <1>8, <1>9 DEF Halfway, Heeded, U

\* One turn of a sweep.
LEMMA SweepOneKeeps ==
  ASSUME NEW p, NEW context, NEW L, NEW current, NEW M, NEW owned, NEW X,
         SweepInput(p, context, L, current, M, owned, X), NEW now \in OverlayStates, NEW e \in Events,
         NEW D \in SUBSET Events, \A x \in D : x.date <= e.date,
         NEW N \in Nat, NEW i \in 1..N, N <= Len(now.spans),
         Halfway(now, i - 1, N, e, p, context, D, X),
         NEW v \in OverlayStates, v = SweepOne(e, context, i, now)
  PROVE  Halfway(v, i, N, e, p, context, D, X)
<1> DEFINE s == now.spans[i]
           K == Len(now.spans)
           closed == [now.spans EXCEPT ![i] = CloseAt(s, e)]
<1>1. now.spans \in Seq(BareSpan) /\ v.spans \in Seq(BareSpan) /\ context \in Seq(BareSpan)
  BY DEF SweepInput, OverlayStates
<1>2. K \in Nat /\ DOMAIN now.spans = 1..K /\ i \in DOMAIN now.spans /\ DOMAIN now.spans \subseteq Nat
  BY <1>1
<1>3. SweptFrom(now, p, context)
  BY DEF Halfway
<1>4. /\ v.seated = now.seated
      /\ \/ v.spans = now.spans /\ (~RunsAcross(s, e) \/ SeatedAtThisInstant(now.seated, s, e.date))
         \/ RunsAcross(s, e) /\ v.spans = closed
         \/ \E u \in Elements(now.spans) \cup Elements(context) :
              /\ Reenters(u, s, e.date)
              /\ \/ v.spans = now.spans /\ BienniumOf(u.from) = s.sb
                 \/ RunsAcross(s, e) /\ v.spans = Append(closed, SplitTail(s, u.from))
  BY <1>1, <1>2, SweepOneEffect, SMTT(30)
<1>5. /\ closed \in Seq(BareSpan) /\ DOMAIN closed = DOMAIN now.spans /\ closed[i] = CloseAt(s, e)
      /\ \A j \in DOMAIN now.spans : j # i => closed[j] = now.spans[j]
  <2>1. CloseAt(s, e) \in BareSpan
    BY <1>1, <1>2, SpansTyped, CloseAtBare
  <2> QED BY <1>1, <1>2, <2>1
<1> HIDE DEF closed
<1>6. CASE v.spans = now.spans /\ ~RunsAcross(s, e)
  BY <1>2, <1>4, <1>6, LeftKeeps
<1>7. CASE v.spans = now.spans /\ SeatedAtThisInstant(now.seated, s, e.date)
  <2>1. Key(s) \in DOMAIN p.seated /\ p.seated[Key(s)] = e.date
    BY <1>3, <1>7 DEF SeatedAtThisInstant, SweptFrom
  <2>2. PICK x \in X : /\ x.mem = Key(s)[1] /\ x.seat = <<Key(s)[2], Key(s)[3]>>
                       /\ x.date = p.seated[Key(s)]
    BY <2>1 DEF SweepInput, SeatInv
  <2>3. OnSeatOf(s, x) /\ x.date = e.date
    BY <2>1, <2>2 DEF Key, OnSeatOf, Seat
  <2>4. HeldBy(s, e, Origins(p, context), X)
    BY <2>3 DEF HeldBy, SeatedThen
  <2> QED BY <1>2, <1>4, <1>7, <2>4, LeftKeeps
<1>8. CASE RunsAcross(s, e) /\ v.spans = closed
  BY <1>2, <1>4, <1>5, <1>8, CutKeeps
<1>9. ASSUME NEW u \in Elements(now.spans) \cup Elements(context), Reenters(u, s, e.date),
             v.spans = now.spans, BienniumOf(u.from) = s.sb
      PROVE  Halfway(v, i, N, e, p, context, D, X)
  <2>1. RunsAcross(s, e) => HeldBy(s, e, Origins(p, context), X)
    BY <1>2, <1>3, <1>9, ReturnHolds
  <2> QED BY <1>2, <1>4, <1>9, <2>1, LeftKeeps
<1>10. ASSUME NEW u \in Elements(now.spans) \cup Elements(context), Reenters(u, s, e.date),
              RunsAcross(s, e), v.spans = Append(closed, SplitTail(s, u.from))
       PROVE  Halfway(v, i, N, e, p, context, D, X)
  <2> DEFINE tail == SplitTail(s, u.from)
  <2>6. tail \in BareSpan
    <3>1. u \in BareSpan
      BY <1>1 DEF Elements
    <3>2. u.from \in Nat /\ u.from < Open
      BY <3>1, BareIsTyped DEF Typed, BareFits
    <3>3. s \in BareSpan /\ u.from <= s.to
      BY <1>1, <1>2, <1>10 DEF Reenters
    <3> QED BY <3>2, <3>3, SplitTailBare
  <2> HIDE DEF tail
  <2>1. v.spans = Append(closed, tail)
    BY <1>10 DEF tail
  <2>2. /\ DOMAIN v.spans = 1..(K + 1) /\ v.spans[K + 1] = tail
        /\ \A j \in 1..K : v.spans[j] = closed[j]
    <3>1. Len(closed) = K
      BY <1>2, <1>5
    <3> HIDE DEF K
    <3> QED BY <1>2, <1>5, <2>1, <2>6, <3>1
  <2>3. DOMAIN now.spans \subseteq DOMAIN v.spans /\ \A j \in DOMAIN v.spans \ DOMAIN now.spans : j = K + 1
    BY <1>2, <2>2
  <2>4. v.spans[i] = CloseAt(s, e) /\ \A j \in DOMAIN now.spans : j # i => v.spans[j] = now.spans[j]
    BY <1>2, <1>5, <2>2
  <2>5. \A j \in DOMAIN v.spans \ DOMAIN now.spans :
          \E w \in Elements(now.spans) \cup Elements(context) :
            Reenters(w, s, e.date) /\ v.spans[j] = SplitTail(s, w.from)
    BY <1>10, <2>2, <2>3 DEF tail
  <2> QED BY <1>4, <1>10, <2>3, <2>4, <2>5, CutKeeps, ZenonT(30)
<1> QED BY <1>4, <1>6, <1>7, <1>8, <1>9, <1>10

\* A departure keeps what the earlier ones took, and takes its own.
LEMMA DepartedKeeps ==
  ASSUME NEW p, NEW context, NEW L, NEW current, NEW M, NEW owned, NEW X,
         SweepInput(p, context, L, current, M, owned, X), NEW o \in OverlayStates, NEW e \in Events,
         NEW D \in SUBSET Events, \A x \in D : x.date <= e.date,
         SweptFrom(o, p, context), Heeded(o, p, context, D, X)
  PROVE  /\ SweptFrom(ApplyDeparted(o, e, context), p, context)
         /\ Heeded(ApplyDeparted(o, e, context), p, context, D \cup {e}, X)
<1> DEFINE N == Len(o.spans)
<1>1. context \in Seq(BareSpan) /\ o.spans \in Seq(BareSpan) /\ N \in Nat /\ DOMAIN o.spans = 1..N
  BY DEF SweepInput, OverlayStates
<1>2. PICK f : /\ f[0] = o /\ ApplyDeparted(o, e, context) = f[N]
               /\ \A i \in 1..N : f[i] = SweepOne(e, context, i, f[i - 1])
               /\ \A i \in 0..N : f[i] \in OverlayStates /\ N <= Len(f[i].spans)
  BY <1>1, DepartedRuns
<1> DEFINE T == {n \in Nat : n <= N => Halfway(f[n], n, N, e, p, context, D, X)}
<1>3. 0 \in T
  <2>1. \A j \in DOMAIN o.spans : ~(j <= 0 \/ j > N)
    BY <1>1
  <2>2. Halfway(o, 0, N, e, p, context, D, X)
    BY <2>1 DEF Halfway
  <2> QED BY <1>2, <2>2
<1> HIDE DEF N
<1>4. ASSUME NEW m \in Nat, m \in T PROVE m + 1 \in T
  <2> SUFFICES ASSUME m + 1 <= N PROVE Halfway(f[m + 1], m + 1, N, e, p, context, D, X)
    OBVIOUS
  <2> DEFINE n == m + 1
  <2>1. n \in 1..N /\ n - 1 = m /\ m \in 0..N /\ n \in 0..N
    BY <1>1
  <2>2. Halfway(f[m], n - 1, N, e, p, context, D, X)
    BY <1>4, <2>1
  <2>3. f[n] = SweepOne(e, context, n, f[m]) /\ f[m] \in OverlayStates /\ N <= Len(f[m].spans)
        /\ f[n] \in OverlayStates
    BY <1>2, <2>1
  <2> HIDE DEF n
  <2>4. Halfway(f[n], n, N, e, p, context, D, X)
    BY <1>1, <2>1, <2>2, <2>3, SweepOneKeeps
  <2> QED BY <2>4 DEF n
<1> HIDE DEF T
<1>5. N \in T
  <2>1. Nat \subseteq T
    BY <1>3, <1>4, SetInduction
  <2> QED BY <1>1, <2>1
<1> DEFINE v == f[N]
<1>6. Halfway(v, N, N, e, p, context, D, X) /\ v \in OverlayStates
  BY <1>1, <1>2, <1>5 DEF T
<1>7. v.spans \in Seq(BareSpan)
  BY <1>6 DEF OverlayStates
<1> HIDE DEF v
<1>8. \A j \in DOMAIN v.spans : j <= N \/ j > N
  BY <1>1, <1>7
<1>9. SweptFrom(v, p, context) /\ Heeded(v, p, context, D \cup {e}, X)
  BY <1>6, <1>8 DEF Halfway, Heeded
<1> QED BY <1>2, <1>9 DEF v

DeparturesIn(S) == {x \in S : x.kind = Departed}

\* An overlay part way: the seatings it read left a state of seats, and the departures swept that.
OverlayKeeps(o, S, context, L, current, M, owned) ==
  \E p : /\ SweepInput(p, context, L, current, M, owned, SeatingsIn(S, owned))
         /\ SweptFrom(o, p, context)
         /\ Heeded(o, p, context, DeparturesIn(S), SeatingsIn(S, owned))
         /\ DeparturesIn(S) = {} => o = p

\* A state sweeps from itself.
LEMMA SweptFromItself ==
  ASSUME NEW o \in OverlayStates, NEW context
  PROVE  SweptFrom(o, o, context)
<1>1. o.spans \in Seq(BareSpan)
  BY DEF OverlayStates
<1>2. \A i \in DOMAIN o.spans : o.spans[i].to \in Nat /\ i <= Len(o.spans)
  BY <1>1, SpansTyped
<1>3. Len(o.spans) <= Len(o.spans)
  BY <1>1
<1> QED BY <1>2, <1>3, <1>1 DEF SweptFrom, SameStart, SameTenure

\* An event keeps what the overlay promises part way.
LEMMA EventKeeps ==
  ASSUME NEW o \in OverlayStates, NEW S \in SUBSET Events, NEW e \in Events, NEW M, e.mem \in M,
         NEW current \in Biennia, NEW owned \in SUBSET Kinds, NEW context \in Seq(BareSpan), NEW L,
         OverlayKeeps(o, S, context, L, current, M, owned),
         \A x \in S : /\ x.kind = Departed => e.kind = Departed
                      /\ (x.kind = Departed <=> e.kind = Departed) => x.date <= e.date,
         NEW after \in OverlayStates, after = ApplyEvent(o, e, current, owned, context)
  PROVE  OverlayKeeps(after, S \cup {e}, context, L, current, M, owned)
<1> DEFINE X == SeatingsIn(S, owned)
           D == DeparturesIn(S)
           Xe == SeatingsIn(S \cup {e}, owned)
           De == DeparturesIn(S \cup {e})
<1>1. PICK p : /\ SweepInput(p, context, L, current, M, owned, X)
               /\ SweptFrom(o, p, context)
               /\ Heeded(o, p, context, D, X)
               /\ D = {} => o = p
  BY DEF OverlayKeeps
<1>2. X \in SUBSET Events /\ D \in SUBSET Events
  BY DEF SeatingsIn, DeparturesIn
<1>3. CASE e.kind = Departed
  <2>1. Xe = X /\ De = D \cup {e}
    BY <1>3 DEF SeatingsIn, DeparturesIn, Departed, Seated
  <2>2. after = ApplyDeparted(o, e, context)
    BY <1>3 DEF ApplyEvent, Departed, Vacated, Seated
  <2>3. \A x \in D : x.date <= e.date
    BY <1>3 DEF DeparturesIn
  <2> HIDE DEF X, D, Xe, De
  <2>4. SweptFrom(after, p, context) /\ Heeded(after, p, context, D \cup {e}, X)
    BY <1>1, <1>2, <2>2, <2>3, DepartedKeeps
  <2>5. De # {}
    BY <2>1
  <2>6. SweepInput(p, context, L, current, M, owned, Xe)
    BY <1>1, <2>1
  <2>7. Heeded(after, p, context, De, Xe)
    BY <2>1, <2>4
  <2> QED BY <2>4, <2>5, <2>6, <2>7 DEF OverlayKeeps, Xe, De
<1>4. CASE e.kind # Departed
  <2>1. D = {} /\ De = {}
    BY <1>4 DEF DeparturesIn
  <2>2. o = p
    BY <1>1, <2>1
  <2>3. SeatInv(o, L, current, M, owned, X)
    BY <1>1, <2>2 DEF SweepInput
  <2>4. SUFFICES SeatInv(after, L, current, M, owned, Xe)
    <3>1. Xe \subseteq Events
      BY DEF SeatingsIn
    <3>2. SweepInput(after, context, L, current, M, owned, Xe)
      BY <1>1, <2>4, <3>1 DEF SweepInput
    <3>3. SweptFrom(after, after, context)
      BY SweptFromItself
    <3>4. Heeded(after, after, context, De, Xe)
      BY <2>1 DEF Heeded
    <3> HIDE DEF Xe, De
    <3> QED BY <2>1, <3>2, <3>3, <3>4 DEF OverlayKeeps, Xe, De
  <2>5. CASE e.kind = Seated /\ e.seat[1] \in owned
    <3>1. Xe = X \cup {e}
      BY <2>5 DEF SeatingsIn
    <3>2. after = ApplySeated(o, e, current)
      BY <2>5 DEF ApplyEvent, Departed, Vacated, Seated
    <3>3. \A x \in X : x.date <= e.date
      BY <1>4 DEF SeatingsIn, Seated, Departed
    <3>4. e.seat \in Kinds \X Nat
      <4>1. e.seat \in (Kinds \X Nat) \cup {NoSeat}
        BY DEF Events
      <4>2. NoSeat[1] = ""
        BY DEF NoSeat
      <4>3. "" \notin Kinds
        BY DEF Kinds, Party, House, Senate, Committee
      <4>4. e.seat # NoSeat
        BY <2>5, <4>2, <4>3
      <4> QED BY <4>1, <4>4
    <3> HIDE DEF X, Xe
    <3>5. SeatInv(ApplySeated(o, e, current), L, current, M, owned, X \cup {e})
      BY <1>2, <2>3, <2>5, <3>3, <3>4, SeatedSeat
    <3> QED BY <3>1, <3>2, <3>5
  <2>6. CASE e.kind = Vacated /\ e.seat[1] \in owned
    <3>1. Xe = X
      BY <2>6 DEF SeatingsIn, Vacated, Seated
    <3>2. after = ApplyVacated(o, e)
      BY <2>6 DEF ApplyEvent, Departed, Vacated, Seated
    <3>3. /\ after.seated = o.seated
          /\ DOMAIN after.spans = DOMAIN o.spans
          /\ \A i \in DOMAIN o.spans : SameStart(after.spans[i], o.spans[i])
                                        /\ after.spans[i].to <= o.spans[i].to
      BY <3>2, VacatedEffect
    <3> HIDE DEF X, Xe
    <3>4. SeatInv(after, L, current, M, owned, X)
      BY <2>3, <3>3, ShortenedSeat
    <3> QED BY <3>1, <3>4
  <2>7. CASE e.kind \notin {Vacated, Seated} \/ e.seat[1] \notin owned
    <3>1. Xe = X
      BY <2>7 DEF SeatingsIn, Vacated, Seated
    <3>2. after = o
      BY <1>4, <2>7 DEF ApplyEvent, Departed, Vacated, Seated
    <3> QED BY <2>3, <3>1, <3>2
  <2> QED BY <2>5, <2>6, <2>7
<1> QED BY <1>3, <1>4

OverlayKept(done, spans, events, current, M, owned, movers, context) ==
  /\ OverlayKeeps(done, Elements(events), context, Elements(spans), current, M, owned)
  /\ ApplyOperatorEvents(spans, events, current, owned, movers, context).spans = MergePartyContinuity(done.spans)

\* Every overlay is its seatings' state, swept by its departures, its party runs merged.
LEMMA OverlaySwept ==
  ASSUME NEW spans, NEW events \in Seq(Events), NEW current \in Biennia, NEW M,
         NEW owned \in SUBSET Kinds, NEW movers, NEW context \in Seq(BareSpan),
         OverlayInput(spans, current, M, owned, movers),
         \A i \in DOMAIN events : events[i].mem \in M,
         \A u \in Elements(context) : u.mem \in M => u.kind \notin owned
  PROVE  \E done \in OverlayStates : OverlayKept(done, spans, events, current, M, owned, movers, context)
<1>1. spans \in Seq(BareSpan)
  BY DEF OverlayInput
<1>2. PICK f, ordered : OverlayRun(f, ordered, spans, events, current, owned, movers, context)
  BY <1>1, OverlayRuns
<1> DEFINE N == Len(ordered)
           seen(n) == {ordered[k] : k \in 1..n}
           L == Elements(spans)
           Good == {n \in Nat : n <= N => OverlayKeeps(f[n], seen(n), context, L, current, M, owned)}
<1>3. Ordered(ordered, events)
  BY <1>2 DEF OverlayRun
<1>4. ordered \in Seq(Events) /\ Elements(ordered) = Elements(events)
  BY <1>3, SortedEvents
<1>5. \A m, n \in DOMAIN ordered : m < n =>
              /\ ordered[m].kind = Departed => ordered[n].kind = Departed
              /\ (ordered[m].kind = Departed <=> ordered[n].kind = Departed)
                   => ordered[m].date <= ordered[n].date
  BY <1>3, SortedEvents
<1>6. \A n \in DOMAIN ordered : ordered[n] \in Events /\ ordered[n].mem \in M
  <2>1. \A x \in Elements(events) : x.mem \in M
    BY DEF Elements
  <2>2. \A n \in DOMAIN ordered : ordered[n] \in Elements(ordered) /\ ordered[n] \in Events
    BY <1>4 DEF Elements
  <2> QED BY <1>4, <2>1, <2>2
<1>7. N \in Nat /\ DOMAIN ordered = 1..N
  BY <1>4
<1>8. 0 \in Good
  <2> DEFINE minted == SynthesizeMoverTenures(spans, ordered, owned, movers)
  <2>1. minted \in Seq(BareSpan) /\ MintedFits(minted, spans, M, owned, movers)
    BY <1>1, <1>4, <1>6, SynthesizedFits
  <2>2. f[0] \in OverlayStates
    BY <1>2, <1>7 DEF OverlayRun
  <2>3. f[0] = [spans |-> spans \o minted, seated |-> <<>>, applied |-> {}]
    BY <1>2 DEF OverlayRun
  <2> HIDE DEF minted
  <2>4. f[0].spans = spans \o minted /\ f[0].seated = <<>>
    BY <2>3
  <2>5. SeatInv(f[0], L, current, M, owned, {})
    BY <2>1, <2>4, SeatsBegin
  <2>6. seen(0) = {} /\ SeatingsIn({}, owned) = {} /\ DeparturesIn({}) = {}
    BY DEF SeatingsIn, DeparturesIn
  <2>7. SweepInput(f[0], context, L, current, M, owned, {})
    BY <2>2, <2>5 DEF SweepInput
  <2>8. SweptFrom(f[0], f[0], context) /\ Heeded(f[0], f[0], context, {}, {})
    BY <2>2, SweptFromItself DEF Heeded
  <2>9. OverlayKeeps(f[0], {}, context, L, current, M, owned)
    BY <2>6, <2>7, <2>8 DEF OverlayKeeps
  <2> QED BY <2>6, <2>9
<1>9. ASSUME NEW n \in Nat, n \in Good PROVE n + 1 \in Good
  <2>1. SUFFICES ASSUME n + 1 <= N
                 PROVE  OverlayKeeps(f[n + 1], seen(n + 1), context, L, current, M, owned)
    OBVIOUS
  <2> DEFINE e == ordered[n + 1]
             S == seen(n)
  <2>2. n + 1 \in 1..N /\ n \in 0..N /\ n + 1 \in 0..N /\ n <= N /\ (n + 1) - 1 = n
    BY <1>7, <2>1, SMTT(20)
  <2>3. OverlayKeeps(f[n], S, context, L, current, M, owned)
    BY <1>9, <2>2
  <2>4. f[n] \in OverlayStates /\ f[n + 1] \in OverlayStates
    BY <1>2, <2>2 DEF OverlayRun
  <2>5. f[n + 1] = ApplyEvent(f[n], e, current, owned, context)
    BY <1>2, <2>2 DEF OverlayRun
  <2>6. e \in Events /\ e.mem \in M
    BY <1>6, <1>7, <2>2
  <2>7. S \in SUBSET Events
    BY <1>6, <1>7, <2>2
  <2>8. \A x \in S : /\ x.kind = Departed => e.kind = Departed
                     /\ (x.kind = Departed <=> e.kind = Departed) => x.date <= e.date
    <3>1. \A k \in 1..n : k \in DOMAIN ordered /\ k < n + 1 /\ n + 1 \in DOMAIN ordered
      BY <1>7, <2>2
    <3> QED BY <1>5, <3>1
  <2>9. seen(n + 1) = S \cup {e}
    <3>1. 1..(n + 1) = (1..n) \cup {n + 1}
      OBVIOUS
    <3> QED BY <3>1
  <2> HIDE DEF e, S, seen, L
  <2>10. OverlayKeeps(f[n + 1], S \cup {e}, context, L, current, M, owned)
    BY <2>3, <2>4, <2>5, <2>6, <2>7, <2>8, EventKeeps
  <2> QED BY <2>9, <2>10
<1>10. Nat \subseteq Good
  <2> HIDE DEF Good
  <2> QED BY <1>8, <1>9, SetInduction
<1>11. OverlayKeeps(f[N], seen(N), context, L, current, M, owned)
  <2> HIDE DEF N, seen, L
  <2>1. N \in Good
    <3> HIDE DEF Good
    <3> QED BY <1>7, <1>10
  <2>2. N <= N
    BY <1>7
  <2> QED BY <2>1, <2>2
<1>12. seen(N) = Elements(events)
  BY <1>4, <1>7 DEF Elements
<1>13. f[N] \in OverlayStates
  BY <1>2, <1>7 DEF OverlayRun
<1>14. ApplyOperatorEvents(spans, events, current, owned, movers, context).spans
         = MergePartyContinuity(f[N].spans)
  BY <1>2 DEF OverlayRun
<1> HIDE DEF seen, N
<1> QED BY <1>11, <1>12, <1>13, <1>14 DEF OverlayKept

(***************************************************************************)
(* What the overlay leaves.                                                *)
(***************************************************************************)

\* Which seatings count for the members and kinds an overlay owns: those it read.
SeatingsRead(X, E, M, owned) ==
  /\ SeatingsIn(E, owned) \subseteq X
  /\ \A x \in X : x.mem \in M /\ x.seat[1] \in owned => x \in SeatingsIn(E, owned)

\* What an overlay reads beside its spans: finished sittings of the members it dates.
ContextStands(C, M, owned, X) ==
  \A u \in C : u.mem \in M => u.kind \in Sittings \ owned /\ Standing(u, X)

\* What an overlay leaves: every departure heeded or excused, every start accounted for.
OverlayHeeds(S, E, X, L, C, M, owned) ==
  \A s \in S :
    /\ s.mem \in M /\ s.kind \in owned
    /\ Standing(s, X) /\ SeatedBefore(s, L, X)
    /\ \A e \in E : e.kind = Departed /\ s.kind # Party /\ RunsAcross(s, e) =>
         Excused(s, e, X, {t \in L : t.kind \in Listeds} \cup Marks(S \cup C))

\* A start a sweep began from is a listed one, a seating's or a mark of the overlay's result.
LEMMA OriginStarts ==
  ASSUME NEW p, NEW context, NEW L, NEW current, NEW M, NEW owned \in SUBSET Kinds, NEW XS, NEW X,
         SweepInput(p, context, L, current, M, owned, XS), XS \subseteq X, X \subseteq Events,
         NEW done \in OverlayStates, SweptFrom(done, p, context), NEW R,
         MergedFrom(R, done.spans), ContextStands(Elements(context), M, owned, X),
         NEW u \in Origins(p, context), u.mem \in M
  PROVE  \/ SeatedThen(X, u, u.from)
         \/ \E t \in {v \in L : v.kind \in Listeds} \cup Marks(Elements(R) \cup Elements(context)) :
              t.mem = u.mem /\ Seat(t) = Seat(u) /\ t.from = u.from
<1>1. p.spans \in Seq(BareSpan) /\ done.spans \in Seq(BareSpan)
  BY DEF SweepInput, OverlayStates
<1>2. CASE u \in Elements(context)
  <2>1. u.kind \in Sittings /\ Standing(u, X)
    BY <1>2 DEF ContextStands
  <2>2. CASE BienniumOf(u.from) = u.sb
    <3>1. u \in Marks(Elements(R) \cup Elements(context))
      BY <1>2, <2>1, <2>2 DEF Marks
    <3> QED BY <3>1
  <2> QED BY <2>1, <2>2 DEF Standing
<1>3. CASE u \in Elements(p.spans)
  <2>1. PICK i \in DOMAIN p.spans : u = p.spans[i]
    BY <1>3 DEF Elements
  <2>2. SeatInv(p, L, current, M, owned, XS)
    BY DEF SweepInput
  <2>3. StartKnown(u, L, XS) /\ u.kind \in owned
    BY <2>1, <2>2 DEF SeatInv, SpanSeated
  <2>4. CASE SeatedThen(XS, u, u.from)
    BY <2>4 DEF SeatedThen
  <2>5. CASE u.kind \in Listeds /\ ~SeatedThen(XS, u, u.from)
    <3>1. PICK t \in L : SameTenure(u, t) /\ t.from = u.from
      BY <2>3, <2>5 DEF StartKnown
    <3> QED BY <2>5, <3>1 DEF SameTenure, Seat
  <2>6. CASE u.from = FirstDay(u.sb) /\ u.kind \in Sittings
    <3> DEFINE v == done.spans[i]
    <3>1. SameStart(v, u) /\ i \in DOMAIN done.spans
      <4>1. SameStart(v, u) /\ Len(p.spans) <= Len(done.spans)
        BY <2>1 DEF SweptFrom
      <4>2. i \in DOMAIN done.spans
        BY <1>1, <4>1
      <4> QED BY <4>1, <4>2
    <3>2. v.sb \in Int
      BY <1>1, <3>1, SpansTyped
    <3>3. v \in Elements(done.spans)
      BY <3>1 DEF Elements
    <3> HIDE DEF v
    <3>4. v.mem = u.mem /\ v.kind = u.kind /\ v.disc = u.disc /\ v.from = u.from /\ v.sb = u.sb
      BY <3>1 DEF SameStart, SameTenure
    <3>5. BienniumOf(v.from) = v.sb
      <4>1. v.from = FirstDay(v.sb) /\ v.from \in Nat
        BY <1>1, <2>1, <2>6, <3>4, SpansTyped
      <4>2. FirstDay(v.sb) < LastDay(v.sb)
        BY <3>2, Timeline
      <4>3. FirstDay(v.sb) \in Int /\ LastDay(v.sb) \in Int
        BY <3>2, Timeline
      <4>4. BienniumOf(v.from) <= v.sb
        BY <3>2, <4>1, <4>2, <4>3, Timeline
      <4>5. v.sb <= BienniumOf(v.from)
        BY <3>2, <4>1, <4>3, Timeline
      <4>6. BienniumOf(v.from) \in Nat
        BY <4>1, Timeline
      <4> QED BY <3>2, <4>4, <4>5, <4>6
    <3>6. v.kind \in Sittings /\ v.kind # Party
      BY <2>6, <3>4 DEF Sittings, House, Committee, Party
    <3>7. v \in Elements(R)
      BY <3>3, <3>6 DEF MergedFrom
    <3>8. v \in Marks(Elements(R) \cup Elements(context))
      BY <3>5, <3>6, <3>7 DEF Marks
    <3> QED BY <3>4, <3>8 DEF Seat
  <2>7. u.kind \in Listeds \/ u.kind \in Sittings
    BY <2>3 DEF Kinds, Listeds, Sittings
  <2> QED BY <2>3, <2>4, <2>5, <2>6, <2>7 DEF StartKnown
<1> QED BY <1>2, <1>3 DEF Origins

\* Where the overlay found the member to have come back, it shows.
LEMMA HeldIsExcused ==
  ASSUME NEW p, NEW context, NEW L, NEW current, NEW M, NEW owned \in SUBSET Kinds, NEW XS, NEW X,
         SweepInput(p, context, L, current, M, owned, XS), XS \subseteq X, X \subseteq Events,
         NEW done \in OverlayStates, SweptFrom(done, p, context), NEW R,
         MergedFrom(R, done.spans), ContextStands(Elements(context), M, owned, X),
         NEW s, s.mem \in M, NEW e, HeldBy(s, e, Origins(p, context), XS)
  PROVE  Excused(s, e, X, {t \in L : t.kind \in Listeds} \cup Marks(Elements(R) \cup Elements(context)))
<1> DEFINE W == {t \in L : t.kind \in Listeds} \cup Marks(Elements(R) \cup Elements(context))
<1>1. CASE SeatedThen(XS, s, e.date)
  BY <1>1 DEF Excused, SeatedThen
<1>2. CASE s.sbasis = Derived /\ \E x \in XS : OnSeatOf(s, x) /\ e.date < x.date /\ BienniumOf(x.date) = s.sb
  BY <1>2 DEF Excused, OnSeatOf
<1>3. CASE \E u \in Origins(p, context) :
             u.mem = s.mem /\ Seat(u) # Seat(s) /\ e.date < u.from /\ BienniumOf(u.from) = s.sb
  <2>1. PICK u \in Origins(p, context) :
             u.mem = s.mem /\ Seat(u) # Seat(s) /\ e.date < u.from /\ BienniumOf(u.from) = s.sb
    BY <1>3
  <2> HIDE DEF W
  <2>2. \/ SeatedThen(X, u, u.from)
        \/ \E t \in W : t.mem = u.mem /\ Seat(t) = Seat(u) /\ t.from = u.from
    BY <2>1, OriginStarts DEF W
  <2>3. CASE SeatedThen(X, u, u.from)
    <3>1. PICK x \in X : OnSeatOf(u, x) /\ x.date = u.from
      BY <2>3 DEF SeatedThen
    <3>2. x.mem = s.mem /\ x.seat # Seat(s) /\ e.date < x.date /\ BienniumOf(x.date) = s.sb
      BY <2>1, <3>1 DEF OnSeatOf
    <3> QED BY <3>2 DEF Excused
  <2>4. CASE \E t \in W : t.mem = u.mem /\ Seat(t) = Seat(u) /\ t.from = u.from
    <3>1. PICK t \in W : t.mem = u.mem /\ Seat(t) = Seat(u) /\ t.from = u.from
      BY <2>4
    <3>2. t.mem = s.mem /\ Seat(t) # Seat(s) /\ e.date < t.from /\ BienniumOf(t.from) = s.sb
      BY <2>1, <3>1
    <3>3. Excused(s, e, X, W)
      BY <3>2 DEF Excused
    <3> QED BY <3>3 DEF W
  <2> QED BY <2>2, <2>3, <2>4
<1> QED BY <1>1, <1>2, <1>3 DEF HeldBy

\* Every start of a sweep stands.
LEMMA SweptStands ==
  ASSUME NEW p, NEW context, NEW L, NEW current, NEW M, NEW owned, NEW XS, NEW X,
         SweepInput(p, context, L, current, M, owned, XS), XS \subseteq X,
         \A x \in X : x.mem \in M /\ x.seat[1] \in owned => x \in XS,
         NEW done \in OverlayStates, SweptFrom(done, p, context), NEW i \in DOMAIN done.spans
  PROVE  Standing(done.spans[i], X) /\ SeatedBefore(done.spans[i], L, X)
<1> DEFINE s == done.spans[i]
<1>1. p.spans \in Seq(BareSpan) /\ done.spans \in Seq(BareSpan)
  BY DEF SweepInput, OverlayStates
<1>2. i \in DOMAIN p.spans \/ i > Len(p.spans)
  BY <1>1
<1>3. s.mem \in M /\ s.kind \in owned
  BY SweptOwner
<1>4. CASE i \in DOMAIN p.spans
  <2> DEFINE t == p.spans[i]
  <2>1. SameStart(s, t)
    BY <1>4 DEF SweptFrom
  <2>2. SeatInv(p, L, current, M, owned, XS)
    BY DEF SweepInput
  <2>3. StartKnown(t, L, XS) /\ SeatedBefore(t, L, XS)
    BY <1>4, <2>2 DEF SeatInv, SpanSeated
  <2>4. t.from \in Nat /\ t.sb \in Int
    BY <1>1, <1>4, SpansTyped
  <2> HIDE DEF s, t
  <2>5. /\ s.mem = t.mem /\ s.kind = t.kind /\ s.disc = t.disc
        /\ s.from = t.from /\ s.sb = t.sb /\ s.sbasis = t.sbasis
    BY <2>1 DEF SameStart, SameTenure
  <2>6. t.from = FirstDay(t.sb) => BienniumOf(t.from) = t.sb
    <3>1. SUFFICES ASSUME t.from = FirstDay(t.sb) PROVE BienniumOf(t.from) = t.sb
      OBVIOUS
    <3>2. FirstDay(t.sb) < LastDay(t.sb) /\ FirstDay(t.sb) \in Int /\ LastDay(t.sb) \in Int
      BY <2>4, Timeline
    <3>3. BienniumOf(t.from) <= t.sb
      BY <2>4, <3>1, <3>2, Timeline
    <3>4. t.sb <= BienniumOf(t.from)
      BY <2>4, <3>1, <3>2, Timeline
    <3>5. BienniumOf(t.from) \in Nat
      BY <2>4, Timeline
    <3> QED BY <2>4, <3>3, <3>4, <3>5
  <2>7. Standing(s, X)
    <3>1. CASE t.from = FirstDay(t.sb)
      BY <2>5, <2>6, <3>1 DEF Standing
    <3>2. CASE SeatedThen(XS, t, t.from)
      <4>1. SeatedThen(X, s, s.from)
        BY <2>5, <3>2 DEF SeatedThen, OnSeatOf, Seat
      <4> QED BY <4>1 DEF Standing
    <3> QED BY <2>3, <3>1, <3>2 DEF StartKnown
  <2>8. SeatedBefore(s, L, X)
    <3>1. SUFFICES ASSUME s.sbasis = Observed, s.kind = Senate, NEW x \in X, OnSeatOf(s, x),
                          BienniumOf(x.date) = s.sb - 1
                   PROVE  \E v \in L : SameTenure(s, v) /\ v.sb < s.sb
      BY DEF SeatedBefore
    <3>2. x.mem \in M /\ x.seat[1] \in owned
      BY <1>3, <3>1 DEF OnSeatOf, Seat, s
    <3>3. x \in XS
      BY <3>2
    <3>4. OnSeatOf(t, x)
      BY <2>5, <3>1 DEF OnSeatOf, Seat
    <3>5. PICK v \in L : SameTenure(t, v) /\ v.sb < t.sb
      BY <2>3, <2>5, <3>1, <3>3, <3>4 DEF SeatedBefore
    <3> QED BY <2>5, <3>5 DEF SameTenure
  <2> QED BY <2>7, <2>8 DEF s
<1>5. CASE i > Len(p.spans)
  <2>1. Returned(s, p, context)
    BY <1>5 DEF SweptFrom
  <2>2. s.sb = BienniumOf(s.from) /\ s.sbasis # Observed
    BY <2>1 DEF Returned, Derived, Observed
  <2> QED BY <2>2 DEF Standing, SeatedBefore
<1> QED BY <1>2, <1>4, <1>5

\* What an overlay leaves, for its members, its kinds and the seatings it read.
LEMMA OverlayLeaves ==
  ASSUME NEW spans, NEW events \in Seq(Events), NEW current \in Biennia, NEW M,
         NEW owned \in SUBSET Kinds, NEW movers, NEW context \in Seq(BareSpan), NEW X \in SUBSET Events,
         OverlayInput(spans, current, M, owned, movers),
         \A i \in DOMAIN events : events[i].mem \in M,
         SeatingsRead(X, Elements(events), M, owned),
         ContextStands(Elements(context), M, owned, X),
         NEW R, R = ApplyOperatorEvents(spans, events, current, owned, movers, context).spans
  PROVE  /\ R \in Seq(BareSpan)
         /\ OverlayHeeds(Elements(R), Elements(events), X, Elements(spans), Elements(context), M, owned)
<1> DEFINE E == Elements(events)
           L == Elements(spans)
           C == Elements(context)
           XS == SeatingsIn(E, owned)
<1>1. \A u \in C : u.mem \in M => u.kind \notin owned
  BY DEF ContextStands
<1>2. PICK done \in OverlayStates : OverlayKept(done, spans, events, current, M, owned, movers, context)
  BY <1>1, OverlaySwept
<1>3. OverlayKeeps(done, E, context, L, current, M, owned) /\ R = MergePartyContinuity(done.spans)
  BY <1>2 DEF OverlayKept
<1>4. done.spans \in Seq(BareSpan)
  BY DEF OverlayStates
<1>5. MergedFrom(R, done.spans)
  BY <1>3, <1>4, MergeKeeps
<1>6. PICK p : /\ SweepInput(p, context, L, current, M, owned, XS)
               /\ SweptFrom(done, p, context)
               /\ Heeded(done, p, context, DeparturesIn(E), XS)
  BY <1>3 DEF OverlayKeeps
<1>7. XS \subseteq X /\ \A x \in X : x.mem \in M /\ x.seat[1] \in owned => x \in XS
  BY DEF SeatingsRead
<1>8. R \in Seq(BareSpan)
  BY <1>5 DEF MergedFrom
<1> HIDE DEF E, L, C, XS
<1>9. ASSUME NEW s \in Elements(R)
      PROVE  /\ s.mem \in M /\ s.kind \in owned
             /\ Standing(s, X) /\ SeatedBefore(s, L, X)
             /\ \A e \in E : e.kind = Departed /\ s.kind # Party /\ RunsAcross(s, e) =>
                  Excused(s, e, X, {t \in L : t.kind \in Listeds} \cup Marks(Elements(R) \cup C))
  <2>1. s.mem \in M /\ s.kind \in owned
    <3>1. PICK t \in Elements(done.spans) : s.mem = t.mem /\ s.kind = t.kind
      BY <1>5 DEF MergedFrom
    <3>2. PICK i \in DOMAIN done.spans : t = done.spans[i]
      BY DEF Elements
    <3> QED BY <1>6, <3>1, <3>2, SweptOwner
  <2>2. CASE s.kind = Party
    BY <2>1, <2>2 DEF Standing, SeatedBefore, Sittings, Party, House, Senate, Committee
  <2>3. CASE s.kind # Party
    <3>1. s \in Elements(done.spans)
      BY <1>5, <2>3 DEF MergedFrom
    <3>2. PICK i \in DOMAIN done.spans : s = done.spans[i]
      BY <3>1 DEF Elements
    <3>3. Standing(s, X) /\ SeatedBefore(s, L, X)
      BY <1>6, <1>7, <3>2, SweptStands
    <3>4. ASSUME NEW e \in E, e.kind = Departed, RunsAcross(s, e)
          PROVE  Excused(s, e, X, {t \in L : t.kind \in Listeds} \cup Marks(Elements(R) \cup C))
      <4>1. HeldBy(s, e, Origins(p, context), XS)
        BY <1>6, <3>2, <3>4 DEF Heeded, DeparturesIn
      <4> QED BY <1>5, <1>6, <1>7, <2>1, <4>1, HeldIsExcused DEF C
    <3> QED BY <2>1, <3>3, <3>4
  <2> QED BY <2>2, <2>3
<1>10. OverlayHeeds(Elements(R), E, X, L, C, M, owned)
  BY <1>9 DEF OverlayHeeds
<1> QED BY <1>8, <1>10 DEF E, L, C

(***************************************************************************)
(* From the overlay to the families: what a span is explained by, and by   *)
(* what the steps past the overlay keep it so.                             *)
(***************************************************************************)

\* A clause, and no seating, dates the start before the key's biennium.
Forward(s, X, L) ==
  /\ s.from < FirstDay(s.sb)
  /\ SeatedThen(X, s, s.from) => \E t \in L : SameTenure(s, t) /\ t.sb < s.sb
\* What a tenure that runs across a departure is explained by, among the spans S.
Explained(s, e, S, X, L) ==
  \/ Excused(s, e, X, L \cup Marks(S))
  \/ e.date < FirstDay(s.sb) /\ Forward(s, X, L)
DeparturesKept(S, E, X, L) ==
  \A s \in S :
    /\ Standing(s, X) /\ SeatedBefore(s, L, X)
    /\ \A e \in E : e.kind = Departed /\ s.kind # Party /\ RunsAcross(s, e) => Explained(s, e, S, X, L)

\* A tenure after a step past the overlay: no longer, its start where it was, later in the key's
\* biennium or, for a listed Senate tenure, a clause's in the biennium before.
Follows(t, s) ==
  /\ t.mem = s.mem /\ t.kind = s.kind /\ t.disc = s.disc /\ t.sb = s.sb /\ t.to <= s.to
  /\ s.sbasis = Derived => t.sbasis = Derived
  /\ t.sbasis = Observed => s.sbasis = Observed
  /\ \/ t.from = s.from
     \/ s.from <= t.from /\ BienniumOf(t.from) = s.sb
     \/ s.sbasis = Observed /\ s.kind = Senate /\ BienniumOf(t.from) = s.sb - 1
Follow(T, S) ==
  /\ \A t \in T : \E s \in S : Follows(t, s)
  /\ \A s \in S : s.kind \in Sittings => \E t \in T : Follows(t, s)

LEMMA FollowsItself == ASSUME NEW s \in FineSpan PROVE Follows(s, s)
<1>1. s \in Typed
  BY FineIsTyped
<1>2. s.to \in Nat
  BY <1>1 DEF Typed
<1> QED BY <1>2 DEF Follows

\* What a span that fits its key has.
LEMMA FineEdges ==
  ASSUME NEW s \in FineSpan
  PROVE  /\ s.from \in Nat /\ s.to \in Nat /\ s.sb \in Int
         /\ s.sbasis = Observed => s.from = FirstDay(s.sb)
<1>1. s \in Typed /\ FineFits(s)
  BY FineIsTyped
<1> QED BY <1>1 DEF Typed, FineFits

\* A mark stays one as its tenure's start moves.
LEMMA MarksFollow ==
  ASSUME NEW S \in SUBSET FineSpan, NEW T \in SUBSET FineSpan, Follow(T, S), NEW m \in Marks(S)
  PROVE  \E t \in Marks(T) : t.mem = m.mem /\ Seat(t) = Seat(m) /\ m.from <= t.from
                             /\ BienniumOf(t.from) = BienniumOf(m.from)
<1>1. m \in S /\ m.kind \in Sittings /\ BienniumOf(m.from) = m.sb
  BY DEF Marks
<1>2. PICK t \in T : Follows(t, m)
  BY <1>1 DEF Follow
<1>3. m.kind # Senate
  BY <1>1 DEF Sittings, House, Committee, Senate
<1>4. t.from = m.from \/ (m.from <= t.from /\ BienniumOf(t.from) = m.sb)
  BY <1>2, <1>3 DEF Follows
<1>5. t.kind = m.kind /\ t.mem = m.mem /\ t.disc = m.disc /\ t.sb = m.sb
  BY <1>2 DEF Follows
<1>6. m.from <= t.from
  BY <1>1, <1>4, FineEdges
<1>7. t \in Marks(T)
  BY <1>1, <1>4, <1>5 DEF Marks
<1> QED BY <1>1, <1>4, <1>5, <1>6, <1>7 DEF Marks, Seat

\* An excuse outlives the step.
LEMMA ExcuseFollows ==
  ASSUME NEW S \in SUBSET FineSpan, NEW T \in SUBSET FineSpan, Follow(T, S), NEW X, NEW L,
         NEW s \in S, NEW t \in T, Follows(t, s), NEW e, e.date \in Nat,
         Excused(s, e, X, L \cup Marks(S))
  PROVE  Excused(t, e, X, L \cup Marks(T))
<1>1. t.mem = s.mem /\ Seat(t) = Seat(s) /\ t.sb = s.sb /\ (s.sbasis = Derived => t.sbasis = Derived)
  BY DEF Follows, Seat
<1>2. CASE SeatedThen(X, s, e.date)
  BY <1>1, <1>2 DEF Excused, SeatedThen, OnSeatOf
<1>3. CASE \E x \in X : /\ x.mem = s.mem /\ (x.seat # Seat(s) \/ s.sbasis = Derived)
                        /\ e.date < x.date /\ BienniumOf(x.date) = s.sb
  <2>1. PICK x \in X : /\ x.mem = s.mem /\ (x.seat # Seat(s) \/ s.sbasis = Derived)
                       /\ e.date < x.date /\ BienniumOf(x.date) = s.sb
    BY <1>3
  <2>2. /\ x.mem = t.mem /\ (x.seat # Seat(t) \/ t.sbasis = Derived)
        /\ e.date < x.date /\ BienniumOf(x.date) = t.sb
    BY <1>1, <2>1
  <2> QED BY <2>2 DEF Excused
<1>4. CASE \E v \in L \cup Marks(S) :
             v.mem = s.mem /\ Seat(v) # Seat(s) /\ e.date < v.from /\ BienniumOf(v.from) = s.sb
  <2>1. PICK v \in L \cup Marks(S) :
             v.mem = s.mem /\ Seat(v) # Seat(s) /\ e.date < v.from /\ BienniumOf(v.from) = s.sb
    BY <1>4
  <2>2. CASE v \in L
    <3>1. v.mem = t.mem /\ Seat(v) # Seat(t) /\ e.date < v.from /\ BienniumOf(v.from) = t.sb
      BY <1>1, <2>1
    <3> QED BY <2>2, <3>1 DEF Excused
  <2>3. CASE v \in Marks(S)
    <3>1. PICK w \in Marks(T) : w.mem = v.mem /\ Seat(w) = Seat(v) /\ v.from <= w.from
                                /\ BienniumOf(w.from) = BienniumOf(v.from)
      BY <2>3, MarksFollow
    <3>2. v.from \in Nat /\ w.from \in Nat
      BY <2>3, <3>1, FineEdges DEF Marks
    <3>3. e.date < w.from
      BY <2>1, <3>1, <3>2
    <3>4. w.mem = t.mem /\ Seat(w) # Seat(t) /\ BienniumOf(w.from) = t.sb
      BY <1>1, <2>1, <3>1
    <3> QED BY <3>3, <3>4 DEF Excused
  <2> QED BY <2>1, <2>2, <2>3
<1> QED BY <1>2, <1>3, <1>4 DEF Excused

\* So does any explanation of a departure.
LEMMA ExplanationFollows ==
  ASSUME NEW S \in SUBSET FineSpan, NEW T \in SUBSET FineSpan, Follow(T, S), NEW X \in SUBSET Events, NEW L,
         NEW E \in SUBSET Events, DeparturesKept(S, E, X, L),
         NEW s \in S, NEW t \in T, Follows(t, s), NEW e \in E, e.kind = Departed, t.kind # Party,
         RunsAcross(t, e)
  PROVE  Explained(t, e, T, X, L)
<1>1. /\ s.from \in Nat /\ s.to \in Nat /\ s.sb \in Int /\ t.from \in Nat /\ t.to \in Nat
      /\ s.sbasis = Observed => s.from = FirstDay(s.sb)
  BY FineEdges
<1>2. e.date \in Nat
  BY EventFacts
<1>3. /\ t.mem = s.mem /\ t.kind = s.kind /\ t.disc = s.disc /\ t.sb = s.sb /\ t.to <= s.to
  BY DEF Follows
<1>4. FirstDay(s.sb) \in Int /\ FirstDay(s.sb - 1) \in Int /\ s.sb - 1 \in Int
  BY <1>1, StartsAreInts
<1>5. t.mem = e.mem /\ t.from <= e.date /\ e.date < t.to
  BY DEF RunsAcross
<1>6. CASE s.from <= e.date
  <2>1. RunsAcross(s, e) /\ s.kind # Party
    BY <1>1, <1>2, <1>3, <1>5, <1>6 DEF RunsAcross
  <2>2. Explained(s, e, S, X, L)
    BY <2>1 DEF DeparturesKept
  <2>3. CASE Excused(s, e, X, L \cup Marks(S))
    BY <1>2, <2>3, ExcuseFollows DEF Explained
  <2>4. CASE e.date < FirstDay(s.sb) /\ Forward(s, X, L)
    <3>1. s.from < FirstDay(s.sb)
      BY <2>4 DEF Forward
    <3>2. s.sbasis # Observed
      BY <1>1, <1>4, <3>1
    <3>3. t.from = s.from \/ BienniumOf(t.from) = s.sb
      BY <3>2 DEF Follows
    <3>4. CASE t.from = s.from
      <4>1. Forward(t, X, L)
        BY <1>3, <2>4, <3>4 DEF Forward, SeatedThen, OnSeatOf, Seat, SameTenure
      <4> QED BY <1>3, <2>4, <4>1 DEF Explained
    <3>5. CASE BienniumOf(t.from) = s.sb
      <4>1. s.sb <= BienniumOf(t.from)
        BY <1>1, <3>5
      <4>2. FirstDay(s.sb) <= t.from
        BY <1>1, <4>1, Timeline
      <4> QED BY <1>1, <1>2, <1>4, <1>5, <2>4, <4>2
    <3> QED BY <3>3, <3>4, <3>5
  <2> QED BY <2>2, <2>3, <2>4 DEF Explained
<1>7. CASE e.date < s.from
  <2>1. t.from < s.from
    BY <1>1, <1>2, <1>5, <1>7
  <2>2. s.sbasis = Observed /\ s.kind = Senate /\ BienniumOf(t.from) = s.sb - 1
    BY <1>1, <2>1 DEF Follows
  <2>3. s.from = FirstDay(s.sb)
    BY <1>1, <2>2
  <2>4. SeatedThen(X, t, t.from) => \E v \in L : SameTenure(t, v) /\ v.sb < t.sb
    <3>1. SUFFICES ASSUME NEW x \in X, OnSeatOf(t, x), x.date = t.from
                   PROVE  \E v \in L : SameTenure(t, v) /\ v.sb < t.sb
      BY DEF SeatedThen
    <3>2. OnSeatOf(s, x) /\ BienniumOf(x.date) = s.sb - 1
      BY <1>3, <2>2, <3>1 DEF OnSeatOf, Seat
    <3>3. SeatedBefore(s, L, X)
      BY DEF DeparturesKept
    <3>4. PICK v \in L : SameTenure(s, v) /\ v.sb < s.sb
      BY <2>2, <3>2, <3>3 DEF SeatedBefore
    <3> QED BY <1>3, <3>4 DEF SameTenure
  <2>5. t.from < FirstDay(t.sb)
    BY <1>3, <2>1, <2>3
  <2> QED BY <1>3, <1>7, <2>3, <2>4, <2>5 DEF Explained, Forward
<1> QED BY <1>1, <1>2, <1>6, <1>7

\* A step past the overlay keeps the departures.
LEMMA KeptByFollowers ==
  ASSUME NEW S \in SUBSET FineSpan, NEW T \in SUBSET FineSpan, Follow(T, S), NEW X \in SUBSET Events, NEW L,
         NEW E \in SUBSET Events, DeparturesKept(S, E, X, L)
  PROVE  DeparturesKept(T, E, X, L)
<1> SUFFICES ASSUME NEW t \in T
             PROVE  /\ Standing(t, X) /\ SeatedBefore(t, L, X)
                    /\ \A e \in E : e.kind = Departed /\ t.kind # Party /\ RunsAcross(t, e)
                         => Explained(t, e, T, X, L)
  BY DEF DeparturesKept
<1>1. PICK s \in S : Follows(t, s)
  BY DEF Follow
<1>2. t.mem = s.mem /\ t.kind = s.kind /\ t.disc = s.disc /\ t.sb = s.sb
  BY <1>1 DEF Follows
<1>3. Standing(s, X) /\ SeatedBefore(s, L, X)
  BY DEF DeparturesKept
<1>4. Standing(t, X)
  <2>1. t.kind \in Sittings => t.kind # Senate
    BY DEF Sittings, House, Committee, Senate
  <2>2. t.kind \in Sittings => t.from = s.from \/ BienniumOf(t.from) = t.sb
    BY <1>1, <1>2, <2>1 DEF Follows
  <2> QED BY <1>2, <1>3, <2>2 DEF Standing, SeatedThen, OnSeatOf, Seat
<1>5. SeatedBefore(t, L, X)
  <2>1. t.sbasis = Observed => s.sbasis = Observed
    BY <1>1 DEF Follows
  <2> QED BY <1>2, <1>3, <2>1 DEF SeatedBefore, OnSeatOf, Seat, SameTenure
<1>6. \A e \in E : e.kind = Departed /\ t.kind # Party /\ RunsAcross(t, e) => Explained(t, e, T, X, L)
  BY <1>1, ExplanationFollows
<1> QED BY <1>4, <1>5, <1>6

\* An overlay's spans join those its context holds.
LEMMA OverlayJoins ==
  ASSUME NEW S, NEW B, NEW C, C \subseteq B, NEW E, NEW E1, NEW X, NEW L, NEW L1, NEW M, NEW owned,
         DeparturesKept(B, E, X, L), OverlayHeeds(S, E1, X, L1, C, M, owned),
         \A t \in L1 : t.kind \in Listeds => t \in L,
         \A e \in E : e.mem \in M => e \in E1
  PROVE  DeparturesKept(S \cup B, E, X, L)
<1>1. Marks(B) \subseteq Marks(S \cup B) /\ Marks(S \cup C) \subseteq Marks(S \cup B)
  BY DEF Marks
<1>2. \A s, e, V, W : V \subseteq W /\ Excused(s, e, X, V) => Excused(s, e, X, W)
  BY DEF Excused
<1>3. ASSUME NEW s \in B
      PROVE  /\ Standing(s, X) /\ SeatedBefore(s, L, X)
             /\ \A e \in E : e.kind = Departed /\ s.kind # Party /\ RunsAcross(s, e)
                  => Explained(s, e, S \cup B, X, L)
  <2>1. L \cup Marks(B) \subseteq L \cup Marks(S \cup B)
    BY <1>1
  <2>2. \A e : Explained(s, e, B, X, L) => Explained(s, e, S \cup B, X, L)
    BY <1>2, <2>1 DEF Explained
  <2> QED BY <2>2 DEF DeparturesKept
<1>4. ASSUME NEW s \in S
      PROVE  /\ Standing(s, X) /\ SeatedBefore(s, L, X)
             /\ \A e \in E : e.kind = Departed /\ s.kind # Party /\ RunsAcross(s, e)
                  => Explained(s, e, S \cup B, X, L)
  <2> DEFINE V == {t \in L1 : t.kind \in Listeds} \cup Marks(S \cup C)
  <2>1. /\ s.mem \in M /\ Standing(s, X) /\ SeatedBefore(s, L1, X)
        /\ \A e \in E1 : e.kind = Departed /\ s.kind # Party /\ RunsAcross(s, e) => Excused(s, e, X, V)
    BY DEF OverlayHeeds
  <2>2. V \subseteq L \cup Marks(S \cup B)
    BY <1>1
  <2> HIDE DEF V
  <2>3. SeatedBefore(s, L, X)
    <3>1. Senate \in Listeds
      BY DEF Listeds
    <3>2. ASSUME s.kind = Senate PROVE \A t \in L1 : SameTenure(s, t) => t \in L
      BY <3>1, <3>2 DEF SameTenure
    <3> QED BY <2>1, <3>2 DEF SeatedBefore
  <2>4. ASSUME NEW e \in E, e.kind = Departed, s.kind # Party, RunsAcross(s, e)
        PROVE  Explained(s, e, S \cup B, X, L)
    <3>1. e \in E1
      BY <2>1, <2>4 DEF RunsAcross
    <3>2. Excused(s, e, X, V)
      BY <2>1, <2>4, <3>1
    <3> QED BY <1>2, <2>2, <3>2 DEF Explained
  <2> QED BY <2>1, <2>3, <2>4
<1> QED BY <1>3, <1>4 DEF DeparturesKept

\* Listed spans are what an overlay expects.
LEMMA ListedEnter ==
  ASSUME NEW obs \in SUBSET Observations, IsFiniteSet(obs), NEW current \in Biennia,
         NEW M, NEW owned \in SUBSET Kinds, NEW movers,
         \A o \in obs : o.mem \in M /\ o.kind \in owned /\ (o.kind \in Listeds => o.b <= current),
         owned \cap Listeds = {} \/ \A b \in Biennia : movers[b] = {}
  PROVE  OverlayInput(BuildTenureSpans(obs, current), current, M, owned, movers)
<1> DEFINE spans == BuildTenureSpans(obs, current)
<1> HIDE DEF spans
<1>1. /\ spans \in Seq(BareSpan)
      /\ \A i \in DOMAIN spans :
           /\ spans[i].sbasis = Observed /\ spans[i].from = FirstDay(spans[i].sb)
           /\ \E o \in obs : /\ o.mem = spans[i].mem /\ o.kind = spans[i].kind
                             /\ o.disc = spans[i].disc /\ o.b = spans[i].sb
      /\ \A i, j \in DOMAIN spans : i # j => Key(spans[i]) # Key(spans[j])
  BY ListedFacts DEF spans
<1>2. ASSUME NEW i \in DOMAIN spans
      PROVE  /\ spans[i].mem \in M /\ spans[i].kind \in owned
             /\ spans[i].kind \in Listeds => spans[i].sb <= current
  <2>1. PICK o \in obs : /\ o.mem = spans[i].mem /\ o.kind = spans[i].kind
                         /\ o.disc = spans[i].disc /\ o.b = spans[i].sb
    BY <1>1
  <2> QED BY <2>1
<1>3. OverlayInput(spans, current, M, owned, movers)
  BY <1>1, <1>2 DEF OverlayInput
<1> QED BY <1>3 DEF spans

\* The elements of two lists end to end.
LEMMA ConcatElements ==
  ASSUME NEW S, NEW s \in Seq(S), NEW t \in Seq(S)
  PROVE  s \o t \in Seq(S) /\ Elements(s \o t) = Elements(s) \cup Elements(t)
<1> DEFINE u == s \o t
<1>1. /\ u \in Seq(S) /\ Len(u) = Len(s) + Len(t)
      /\ \A i \in 1..Len(s) : u[i] = s[i]
      /\ \A i \in 1..Len(t) : u[i + Len(s)] = t[i]
      /\ \A i \in 1..(Len(s) + Len(t)) : i <= Len(s) \/ (i - Len(s) \in 1..Len(t) /\ u[i] = t[i - Len(s)])
      /\ Len(s) \in Nat /\ Len(t) \in Nat
      /\ DOMAIN u = 1..Len(u) /\ DOMAIN s = 1..Len(s) /\ DOMAIN t = 1..Len(t)
  OBVIOUS
<1> HIDE DEF u
<1>2. ASSUME NEW i \in DOMAIN u PROVE u[i] \in Elements(s) \cup Elements(t)
  <2>1. CASE i <= Len(s)
    <3>1. i \in DOMAIN s /\ u[i] = s[i]
      BY <1>1, <2>1
    <3> QED BY <3>1 DEF Elements
  <2>2. CASE ~(i <= Len(s))
    <3>1. i - Len(s) \in DOMAIN t /\ u[i] = t[i - Len(s)]
      BY <1>1, <2>2
    <3> QED BY <3>1 DEF Elements
  <2> QED BY <2>1, <2>2
<1>3. ASSUME NEW i \in DOMAIN s PROVE s[i] \in Elements(u)
  <2>1. i \in DOMAIN u /\ u[i] = s[i]
    BY <1>1
  <2> QED BY <2>1 DEF Elements
<1>4. ASSUME NEW i \in DOMAIN t PROVE t[i] \in Elements(u)
  <2>1. i + Len(s) \in DOMAIN u /\ u[i + Len(s)] = t[i]
    BY <1>1
  <2> QED BY <2>1 DEF Elements
<1>5. Elements(u) \subseteq Elements(s) \cup Elements(t)
  BY <1>2 DEF Elements
<1>6. Elements(s) \subseteq Elements(u)
  <2>1. \A x \in Elements(s) : \E i \in DOMAIN s : x = s[i]
    BY DEF Elements
  <2> QED BY <1>3, <2>1
<1>7. Elements(t) \subseteq Elements(u)
  <2>1. \A x \in Elements(t) : \E i \in DOMAIN t : x = t[i]
    BY DEF Elements
  <2> QED BY <1>4, <2>1
<1>8. u \in Seq(S) /\ Elements(u) = Elements(s) \cup Elements(t)
  BY <1>1, <1>5, <1>6, <1>7
<1> QED BY <1>8 DEF u

\* What a builder needs to keep the departures: observations and events of its members and kinds,
\* sittings of the others as its context, and its listed spans among the listed.
BuilderReady(obs, current, M, owned, movers, evs, context, E, X, L, B) ==
  /\ obs \in SUBSET Observations /\ IsFiniteSet(obs) /\ current \in Biennia
  /\ owned \in SUBSET Kinds
  /\ \A o \in obs : o.mem \in M /\ o.kind \in owned /\ (o.kind \in Listeds => o.b <= current)
  /\ owned \cap Listeds = {} \/ \A b \in Biennia : movers[b] = {}
  /\ evs \in Seq(Events) /\ \A i \in DOMAIN evs : evs[i].mem \in M
  /\ X \in SUBSET Events /\ SeatingsRead(X, Elements(evs), M, owned)
  /\ \A e \in E : e.mem \in M => e \in Elements(evs)
  /\ owned \cap Listeds = {} \/ Elements(BuildTenureSpans(obs, current)) \subseteq L
  /\ DeparturesKept(B, E, X, L)
  /\ context \in Seq(BareSpan) /\ Elements(context) \subseteq B
  /\ \A u \in Elements(context) : u.mem \in M => u.kind \in Sittings \ owned
BuilderKeeps(R, M, owned, E, X, L, B) ==
  /\ R \in Seq(BareSpan)
  /\ \A s \in Elements(R) : s.mem \in M /\ s.kind \in owned
  /\ DeparturesKept(Elements(R) \cup B, E, X, L)

\* A builder's spans join those already built.
LEMMA BuilderJoins ==
  ASSUME NEW obs, NEW current, NEW M, NEW owned, NEW movers, NEW evs, NEW context,
         NEW E, NEW X, NEW L, NEW B,
         BuilderReady(obs, current, M, owned, movers, evs, context, E, X, L, B),
         NEW R,
         R = SortSpans(ApplyOperatorEvents(BuildTenureSpans(obs, current), evs, current, owned,
                                           movers, context).spans)
  PROVE  BuilderKeeps(R, M, owned, E, X, L, B)
<1> USE DEF BuilderReady
<1> DEFINE spans == BuildTenureSpans(obs, current)
           out == ApplyOperatorEvents(spans, evs, current, owned, movers, context).spans
           C == Elements(context)
<1>1. OverlayInput(spans, current, M, owned, movers)
  BY ListedEnter
<1>2. ContextStands(C, M, owned, X)
  <2>1. \A u \in C : Standing(u, X)
    BY DEF DeparturesKept
  <2> QED BY <2>1 DEF ContextStands
<1> HIDE DEF spans
<1>3. out \in Seq(BareSpan) /\ OverlayHeeds(Elements(out), Elements(evs), X, Elements(spans), C, M, owned)
  BY <1>1, <1>2, OverlayLeaves
<1> HIDE DEF out
<1>4. R \in Seq(BareSpan) /\ Elements(R) = Elements(out)
  <2>1. out \in Seq(Typed)
    BY <1>3, BareSubTyped
  <2>2. SortSpans(out) \in Seq(BareSpan) /\ Elements(SortSpans(out)) = Elements(out)
    BY <1>3, <2>1, BareSubTyped, SortSpansStays, SortSpansElements
  <2> QED BY <2>2 DEF out, spans
<1>5. \A s \in Elements(R) : s.mem \in M /\ s.kind \in owned
  BY <1>3, <1>4 DEF OverlayHeeds
<1>6. \A t \in Elements(spans) : t.kind \in Listeds => t \in L
  <2>1. \A t \in Elements(spans) : t.kind \in owned
    BY <1>1 DEF OverlayInput, Elements
  <2> QED BY <2>1 DEF spans
<1> HIDE DEF C
<1>7. C \subseteq B
  BY DEF C
<1>8. DeparturesKept(Elements(out) \cup B, E, X, L)
  BY <1>3, <1>6, <1>7, OverlayJoins
<1> QED BY <1>4, <1>5, <1>8 DEF BuilderKeeps

(***************************************************************************)
(* The builders, one at a time.                                            *)
(***************************************************************************)

\* Carried seats are House seats, of the named members.
CarriesOnly(M) ==
  {c \in Carriages :
     /\ \A o \in c.obs : o.kind = House /\ o.mem \in M
     /\ \A i \in DOMAIN c.implied : c.implied[i].kind = Vacated /\ c.implied[i].mem \in M}

LEMMA CarryMoveNames ==
  ASSUME NEW M, NEW carried \in CarriesOnly(M), NEW move, MoveFits(move), move.mem \in M,
         NEW obs \in SUBSET Observations, NEW events \in Seq(Events)
  PROVE  CarryMove(carried, move, obs, events) \in CarriesOnly(M)
<1> DEFINE explicit == {e.seat[2] : e \in {x \in Elements(events) :
                          IsHouseVacate(x) /\ x.mem = move.mem /\ BienniumOf(x.date) = move.b}}
           successors == IF explicit # {} THEN {} ELSE SuccessorSeats(move, carried.obs, events)
           prior == ContinuedSeat(move, obs)
           seats == CASE move.ballot # {} -> move.ballot
                      [] move.ballot = {} /\ prior # {} -> prior
                      [] move.ballot = {} /\ prior = {} /\ Cardinality(successors) = 1 -> successors
                      [] OTHER -> {}
           seat == CHOOSE x \in seats : TRUE
           kept == seats = {} \/ ~(explicit \subseteq seats)
           seen == Observation(move.mem, House, seat, move.b, FALSE)
           left == SuccessionEvent(move.mem, Vacated, HouseEnd(move, seat, events), <<House, seat>>,
                                   Derived)
           taken == [obs |-> carried.obs \cup {seen},
                     implied |-> IF explicit # {} THEN carried.implied
                                 ELSE Append(carried.implied, left)]
           new == CarryMove(carried, move, obs, events)
<1>1. new = IF kept THEN carried ELSE taken
  BY Zenon DEF CarryMove
<1>2. carried \in Carriages
  BY DEF CarriesOnly
<1>3. new \in Carriages
  BY <1>2, CarryMoveStays
<1>4. /\ seen.kind = House /\ seen.mem = move.mem /\ left.kind = Vacated /\ left.mem = move.mem
      /\ taken.obs = carried.obs \cup {seen}
      /\ taken.implied = carried.implied \/ taken.implied = Append(carried.implied, left)
  BY DEF Observation, SuccessionEvent
<1> HIDE DEF new, kept, taken, seen, left
<1>5. /\ \A o \in carried.obs : o.kind = House /\ o.mem \in M
      /\ \A i \in DOMAIN carried.implied : carried.implied[i].kind = Vacated /\ carried.implied[i].mem \in M
      /\ carried.implied \in Seq(Events)
  BY DEF CarriesOnly, Carriages
<1>6. CASE kept
  BY <1>1, <1>6 DEF new
<1>7. CASE ~kept
  <2>1. new = taken
    BY <1>1, <1>7
  <2>2. \A o \in new.obs : o.kind = House /\ o.mem \in M
    BY <1>4, <1>5, <2>1
  <2>3. ASSUME NEW i \in DOMAIN new.implied
        PROVE  new.implied[i].kind = Vacated /\ new.implied[i].mem \in M
    <3>0. new.implied = taken.implied
      BY <2>1
    <3> HIDE DEF explicit
    <3>1. CASE taken.implied = carried.implied
      BY <1>5, <2>1, <3>1
    <3>2. CASE taken.implied = Append(carried.implied, left)
      <4> DEFINE c == carried.implied
                 d == new.implied
      <4>1. d = Append(c, left) /\ i \in DOMAIN d
        BY <2>3, <3>0, <3>2
      <4>2. c \in Seq(Events) /\ \A j \in DOMAIN c : c[j].kind = Vacated /\ c[j].mem \in M
        BY <1>5
      <4>3. left.kind = Vacated /\ left.mem \in M
        BY <1>4
      <4>5. i \in 1..Len(d) /\ d = Append(c, left)
        BY <4>1, <4>2
      <4> HIDE DEF c, d
      <4>4. d[i].kind = Vacated /\ d[i].mem \in M
        BY <4>1, <4>2, <4>3
      <4> QED BY <4>4 DEF d
    <3> QED BY <1>4, <3>1, <3>2
  <2>4. new \in CarriesOnly(M)
    BY <1>3, <2>2, <2>3 DEF CarriesOnly
  <2> QED BY <2>4 DEF new
<1> QED BY <1>6, <1>7

\* carry_mover_house_tenures yields House seats of the rows' members, and implies no seating.
LEMMA CarriedNames ==
  ASSUME NEW M, NEW obs \in SUBSET Observations, IsFiniteSet(obs),
         \A o \in obs : o.kind = House /\ o.mem \in M,
         NEW moves, MovesFit(moves), \A m \in moves : m.mem \in M,
         NEW events \in Seq(Events)
  PROVE  CarryMoverHouseTenures(obs, moves, events) \in CarriesOnly(M)
<1> DEFINE N == Cardinality(moves)
           V == CarriesOnly(M)
           a == [obs |-> obs, implied |-> <<>>]
           nth(n) == CHOOSE m \in moves :
                       Cardinality({x \in moves : Precedes(<<x.b, x.mem>>, <<m.b, m.mem>>)}) = n - 1
           step(n, v) == CarryMove(v, nth(n), obs, events)
           f == CHOOSE f : f = [n \in 0..N |-> IF n = 0 THEN a ELSE step(n, f[n - 1])]
<1>1. a \in V /\ N \in Nat
  <2>1. IsFiniteSet(moves)
    BY DEF MovesFit
  <2>2. N \in Nat
    BY <2>1, FS_CardinalityType
  <2> QED BY <2>2 DEF Carriages, CarriesOnly
<1>2. ASSUME NEW n \in 1..N, NEW v \in V PROVE step(n, v) \in V
  <2>1. nth(n) \in moves
    BY NthMove
  <2> HIDE DEF nth
  <2>2. MoveFits(nth(n)) /\ nth(n).mem \in M
    BY <2>1 DEF MovesFit
  <2> QED BY <2>2, CarryMoveNames
<1>8. CarryMoverHouseTenures(obs, moves, events) = f[N]
  BY Zenon DEF CarryMoverHouseTenures
<1> DEFINE G == [p \in (1..N) \X V |-> step(p[1], p[2])]
<1> HIDE DEF V, step, N, a
<1>3. \A n \in 1..N : \A v \in V : G[<<n, v>>] = step(n, v)
  OBVIOUS
<1>4. G \in [(1..N) \X V -> V]
  BY <1>2
<1> HIDE DEF G
<1>5. PICK g \in [0..N -> V] : Unfolds(g, N, a, G)
  BY <1>1, <1>4, RecursionExists
<1>6. g = [i \in 0..N |-> IF i = 0 THEN a ELSE step(i, g[i - 1])]
  <2>1. ASSUME NEW i \in 0..N
        PROVE  (IF i = 0 THEN a ELSE G[<<i, g[i - 1]>>]) = (IF i = 0 THEN a ELSE step(i, g[i - 1]))
    <3>1. CASE i # 0
      <4>1. i \in 1..N /\ g[i - 1] \in V
        BY <1>1, <3>1
      <4> QED BY <1>3, <4>1
    <3> QED BY <3>1
  <2>2. g = [i \in 0..N |-> IF i = 0 THEN a ELSE G[<<i, g[i - 1]>>]]
    BY <1>5 DEF Unfolds
  <2> QED BY <2>1, <2>2
<1>7. f = [i \in 0..N |-> IF i = 0 THEN a ELSE step(i, f[i - 1])]
  BY <1>6, Zenon
<1> HIDE DEF f
<1>10. f[0] \in V /\ \A i \in 1..N : f[i - 1] \in V => f[i] \in V
  <2>1. f[0] = a
    BY <1>1, <1>7
  <2>2. ASSUME NEW i \in 1..N, f[i - 1] \in V PROVE f[i] \in V
    <3>1. f[i] = step(i, f[i - 1])
      BY <1>1, <1>7
    <3> QED BY <1>2, <2>2, <3>1
  <2> QED BY <1>1, <2>1, <2>2
<1>11. f[N] \in V
  <2>1. \A n \in 0..N : f[n] \in V
    BY <1>1, <1>10, RunStays
  <2> QED BY <1>1, <2>1
<1> QED BY <1>8, <1>11 DEF V

\* The moves are of the rows' members.
LEMMA MoversNamed ==
  ASSUME NEW rows, NEW events, NEW cands, NEW m \in ChamberMovesOf(rows, events, cands)
  PROVE  \E r \in rows : r.mem = m.mem
<1>1. PICK b \in Biennia : \E k \in HouseMovers(rows, b) : m = ChamberMove(rows, events, cands, k, b)
  BY DEF ChamberMovesOf
<1>2. PICK k \in HouseMovers(rows, b) : m = ChamberMove(rows, events, cands, k, b)
  BY <1>1
<1>3. m.mem = k
  BY <1>2 DEF ChamberMove
<1>4. \E r \in RowsOf(rows, b) : r.mem = k
  BY DEF HouseMovers
<1> QED BY <1>3, <1>4 DEF RowsOf

\* The chain's observations are House seats of the rows' members.
LEMMA ChainObserves ==
  ASSUME NEW rows \in SUBSET SponsorRows, IsFiniteSet(rows), NEW rosters, NEW cands,
         \A b \in Biennia : rosters[b] \subseteq rows /\ \A c \in cands[b] : c.pos \in Positions,
         NEW M, \A r \in rows : r.mem \in M,
         NEW o \in BackchainHouse(rosters, cands).obs
  PROVE  o.kind = House /\ o.mem \in M
<1> DEFINE L == Nat
<1>1. Readable(rosters, cands)
  BY FS_Subset DEF Readable, Rows, SponsorRows
<1>2. \A b \in Biennia : \A r \in rosters[b] : r.mem \in M /\ r.ld \in L
  BY DEF SponsorRows
<1>3. Named(BackchainHouse(rosters, cands), M, L)
  BY <1>1, <1>2, ChainNames
<1>4. PICK m \in M, l \in L, p \in Positions, b \in Biennia : o = Observation(m, House, SeatDisc(l, p), b, FALSE)
  BY <1>3 DEF Named
<1> QED BY <1>4 DEF Observation

-----------------------------------------------------------------------------
\* What the overlays read of the input's events.
Attested(E) == {x \in E : x.kind = Seated}
Reads(evs, E, M) == \A e : e \in Elements(evs) <=> e \in E /\ e.mem \in M

LEMMA WSLReads ==
  ASSUME InputFits(input)
  PROVE  /\ Elements(input.events) \subseteq Events
         /\ Reads(WSLEvents, Elements(input.events), Nat \ MintedMembers)
         /\ Reads(RosterEvents, Elements(input.events), MintedMembers)
<1>1. input.events \in Seq(Events)
  BY DEF InputFits
<1>2. RosterPositions \in SUBSET DOMAIN input.events
  BY DEF RosterPositions
<1>3. \A i \in DOMAIN input.events : input.events[i].mem \in Nat /\ input.events[i] \in Events
  BY <1>1, EventFacts
<1> DEFINE P == DOMAIN input.events \ RosterPositions
<1>4. P \in SUBSET DOMAIN input.events
  OBVIOUS
<1>5. Elements(WSLEvents) = {input.events[i] : i \in P}
  BY <1>1, <1>4, SelectedElements DEF WSLEvents
<1>6. Elements(RosterEvents) = {input.events[i] : i \in RosterPositions}
  BY <1>1, <1>2, SelectedElements DEF RosterEvents
<1>7. Reads(WSLEvents, Elements(input.events), Nat \ MintedMembers)
  BY <1>3, <1>5 DEF Reads, Elements, RosterPositions
<1>8. Reads(RosterEvents, Elements(input.events), MintedMembers)
  BY <1>3, <1>6 DEF Reads, Elements, RosterPositions
<1>9. Elements(input.events) \subseteq Events
  BY <1>3 DEF Elements
<1> QED BY <1>7, <1>8, <1>9

LEMMA ReadsSeatings ==
  ASSUME NEW evs, NEW E, NEW M, Reads(evs, E, M), NEW owned
  PROVE  /\ \A i \in DOMAIN evs : evs[i].mem \in M
         /\ SeatingsRead(Attested(E), Elements(evs), M, owned)
         /\ \A e \in E : e.mem \in M => e \in Elements(evs)
<1>1. \A i \in DOMAIN evs : evs[i] \in Elements(evs)
  BY DEF Elements
<1> QED BY <1>1 DEF Reads, SeatingsRead, Attested, SeatingsIn

\* No row is of a minted member.
LEMMA MintedApart ==
  ASSUME InputFits(input), NEW r \in input.sponsors \cup input.committees \cup input.joined
  PROVE  r.mem \in Nat \ MintedMembers
<1>1. r.mem \in Nat
  BY DEF InputFits, SponsorRows, CommitteeRows, Listings, Observations
<1>2. \A o \in input.minted : o.mem # r.mem
  BY DEF InputFits
<1> QED BY <1>1, <1>2 DEF MintedMembers

\* No departure is forgotten by the builders' spans, by the families or by the clip's list; each
\* builder's spans are of its kind, and of the WSL's members.
BuiltSpans == Elements(built.committee) \cup Elements(built.house) \cup Elements(built.sponsor)
Kept(S) == DeparturesKept(S, Elements(input.events), Attested(Elements(input.events)), ListedSpans)
BuiltInTurn ==
  /\ stage = "judge" => BuiltSpans \cup AllSpans \cup Elements(work) = {}
  /\ stage # "judge" => \A r \in input.sponsors : r.b <= input.current
  /\ stage = "committee" => built.committee = <<>>
  /\ stage \in {"committee", "house"} => built.house = <<>>
  /\ stage \in {"committee", "house", "movers", "sponsor"} => built.sponsor = <<>>
BuiltApart ==
  /\ \A s \in Elements(built.committee) : s.kind = Committee
  /\ \A s \in Elements(built.house) : s.kind = House
  /\ \A s \in BuiltSpans : s.mem \in Nat \ MintedMembers
DepartInv ==
  /\ BuiltInTurn
  /\ BuiltApart
  /\ Kept(BuiltSpans)
  /\ Kept(AllSpans)
  /\ Kept(Elements(work))

LEMMA NoElements == Elements(<<>>) = {}
BY DEF Elements

\* The committee builder's spans.
LEMMA CommitteesKept ==
  ASSUME BuildInv, DepartInv, BuildCommittees
  PROVE  LET spans == built'.committee
         IN /\ built' = [built EXCEPT !["committee"] = spans]
            /\ \A s \in Elements(spans) : s.mem \in Nat \ MintedMembers /\ s.kind = Committee
            /\ Kept(Elements(spans) \cup BuiltSpans)
<1> DEFINE obs == CommitteeObservations(input.committees)
           spans == SortSpans(ApplyOperatorEvents(BuildTenureSpans(obs, input.current),
                                WSLEvents, input.current, {Committee}, NoMovers, NoSpans).spans)
           M == Nat \ MintedMembers
           E == Elements(input.events)
           X == Attested(E)
           owned == {Committee}
<1>1. built' = [built EXCEPT !["committee"] = spans]
  BY Zenon DEF BuildCommittees, Keep
<1>2. InputFits(input) /\ built \in Built
  BY DEF BuildInv, BuildFits
<1>3. obs \in SUBSET Observations /\ IsFiniteSet(obs)
  BY <1>2, CommitteesObserved DEF InputFits
<1>4. WSLEvents \in Seq(Events) /\ input.current \in Biennia /\ owned \in SUBSET Kinds
      /\ NoSpans \in Seq(BareSpan)
  BY <1>2, EventsFit, KindsAre DEF InputFits, NoSpans
<1>5. \A o \in obs : o.mem \in M /\ o.kind \in owned /\ (o.kind \in Listeds => o.b <= input.current)
  <2>1. \A o \in obs : \E r \in input.committees : o.mem = r.mem /\ o.kind = Committee
    BY DEF CommitteeObservations, Observation
  <2>2. Committee \notin Listeds
    BY DEF Committee, Listeds, Party, Senate
  <2> QED BY <1>2, <2>1, <2>2, MintedApart
<1>6. owned \cap Listeds = {}
  BY DEF Committee, Listeds, Party, Senate
<1>7. E \subseteq Events /\ Reads(WSLEvents, E, M)
  BY <1>2, WSLReads
<1>8. X \in SUBSET Events
  BY <1>7 DEF Attested
<1> HIDE DEF E, M
<1>9. /\ \A i \in DOMAIN WSLEvents : WSLEvents[i].mem \in M
      /\ SeatingsRead(X, Elements(WSLEvents), M, owned)
      /\ \A e \in E : e.mem \in M => e \in Elements(WSLEvents)
  BY <1>7, ReadsSeatings
<1> HIDE DEF obs, X
<1>10. DeparturesKept(BuiltSpans, E, X, ListedSpans)
  BY DEF DepartInv, Kept, E, X
<1>11. Elements(NoSpans) = {}
  BY NoElements DEF NoSpans
<1> HIDE DEF spans, owned
<1>12. BuilderReady(obs, input.current, M, owned, NoMovers, WSLEvents, NoSpans, E, X, ListedSpans, BuiltSpans)
  BY <1>3, <1>4, <1>5, <1>6, <1>8, <1>9, <1>10, <1>11 DEF BuilderReady
<1>13. BuilderKeeps(spans, M, owned, E, X, ListedSpans, BuiltSpans)
  BY <1>12, BuilderJoins DEF spans, obs, owned
<1>14. built'.committee = spans
  BY <1>1, <1>2 DEF Built
<1> QED BY <1>1, <1>13, <1>14 DEF BuilderKeeps, Kept, E, X, M, owned

\* The House builder's spans, the carried seats included.
LEMMA HouseKept ==
  ASSUME BuildInv, DepartInv, BuildHouse
  PROVE  LET spans == built'.house
         IN /\ built' = [built EXCEPT !["house"] = spans]
            /\ \A s \in Elements(spans) : s.mem \in Nat \ MintedMembers /\ s.kind = House
            /\ Kept(Elements(spans) \cup BuiltSpans)
<1> DEFINE seen == BackchainHouse(HouseRosters, Ballots).obs
           moves == ChamberMovesOf(input.sponsors, WSLEvents, Ballots)
           carried == CarryMoverHouseTenures(seen, moves, WSLEvents)
           obs == carried.obs
           evs == WSLEvents \o carried.implied
           context == built.committee
           spans == SortSpans(ApplyOperatorEvents(BuildTenureSpans(obs, input.current),
                                evs, input.current, {House}, MoversIn, context).spans)
           M == Nat \ MintedMembers
           E == Elements(input.events)
           X == Attested(E)
           owned == {House}
<1>1. built' = [built EXCEPT !["house"] = spans]
  BY Zenon DEF BuildHouse, Keep
<1>2. InputFits(input) /\ built \in Built
  BY DEF BuildInv, BuildFits
<1>3. /\ input.sponsors \in SUBSET SponsorRows /\ IsFiniteSet(input.sponsors)
      /\ input.current \in Biennia
  BY <1>2 DEF InputFits
<1>4. /\ WSLEvents \in Seq(Events) /\ owned \in SUBSET Kinds /\ context \in Seq(BareSpan)
  <2>1. <<>> \in Seq(BareSpan)
    OBVIOUS
  <2> QED BY <1>2, <2>1, EventsFit, KindsAre, KeptStays
<1>5. \A b \in Biennia : /\ HouseRosters[b] \subseteq input.sponsors
                         /\ \A c \in Ballots[b] : c.pos \in Positions
  BY <1>2, BuildReads
<1>6. seen \in SUBSET Observations /\ IsFiniteSet(seen)
  BY <1>3, <1>5, HouseObserved
<1>7. MovesFit(moves)
  BY <1>3, <1>4, <1>5, MoversFit
<1>8. \A r \in input.sponsors : r.mem \in M
  BY <1>2, MintedApart
<1>9. \A o \in seen : o.kind = House /\ o.mem \in M
  <2> HIDE DEF M
  <2> QED BY <1>3, <1>5, <1>8, ChainObserves
<1>10. \A m \in moves : m.mem \in M
  BY <1>8, MoversNamed
<1> HIDE DEF seen, moves
<1>11. carried \in CarriesOnly(M)
  BY <1>4, <1>6, <1>7, <1>9, <1>10, CarriedNames
<1>12. E \subseteq Events /\ Reads(WSLEvents, E, M)
  BY <1>2, WSLReads
<1> HIDE DEF carried
<1>13. /\ carried.obs \in SUBSET Observations /\ IsFiniteSet(carried.obs) /\ carried.implied \in Seq(Events)
       /\ \A o \in carried.obs : o.kind = House /\ o.mem \in M
       /\ \A i \in DOMAIN carried.implied : carried.implied[i].kind = Vacated /\ carried.implied[i].mem \in M
  BY <1>11 DEF CarriesOnly, Carriages
<1>14. evs \in Seq(Events) /\ Elements(evs) = Elements(WSLEvents) \cup Elements(carried.implied)
  BY <1>4, <1>13, ConcatElements
<1>15. X \in SUBSET Events
  BY <1>12 DEF Attested
<1>16. /\ SeatingsRead(X, Elements(WSLEvents), M, owned)
       /\ \A e \in E : e.mem \in M => e \in Elements(WSLEvents)
       /\ \A e \in Elements(WSLEvents) : e.mem \in M
  <2> HIDE DEF E, M, owned
  <2> QED BY <1>12, ReadsSeatings DEF Reads
<1> HIDE DEF E, X, M, evs
<1>17. \A e \in Elements(carried.implied) : e.kind = Vacated /\ e.mem \in M
  BY <1>13 DEF Elements
<1>18. \A i \in DOMAIN evs : evs[i].mem \in M
  <2>1. \A i \in DOMAIN evs : evs[i] \in Elements(evs)
    BY DEF Elements
  <2> QED BY <1>14, <1>16, <1>17, <2>1
<1>19. SeatingsRead(X, Elements(evs), M, owned)
  <2>1. SeatingsIn(Elements(evs), owned) = SeatingsIn(Elements(WSLEvents), owned)
    BY <1>14, <1>17 DEF SeatingsIn, Vacated, Seated
  <2> QED BY <1>16, <2>1 DEF SeatingsRead
<1>20. \A e \in E : e.mem \in M => e \in Elements(evs)
  BY <1>14, <1>16
<1>21. owned \cap Listeds = {}
  BY DEF House, Listeds, Party, Senate
<1>22. \A o \in obs : o.mem \in M /\ o.kind \in owned /\ (o.kind \in Listeds => o.b <= input.current)
  BY <1>13, <1>21
<1>23. DeparturesKept(BuiltSpans, E, X, ListedSpans)
  BY DEF DepartInv, Kept, E, X
<1>24. Elements(context) \subseteq BuiltSpans
       /\ \A u \in Elements(context) : u.mem \in M => u.kind \in Sittings \ owned
  <2>1. Committee \in Sittings \ owned
    BY DEF Sittings, Committee, House
  <2> QED BY <2>1 DEF DepartInv, BuiltApart, BuiltSpans
<1> HIDE DEF spans, owned, obs, context
<1>25. /\ obs \in SUBSET Observations /\ IsFiniteSet(obs)
  BY <1>13 DEF obs
<1>26. BuilderReady(obs, input.current, M, owned, MoversIn, evs, context, E, X, ListedSpans, BuiltSpans)
  BY <1>3, <1>4, <1>14, <1>15, <1>18, <1>19, <1>20, <1>21, <1>22, <1>23, <1>24, <1>25 DEF BuilderReady
<1>27. BuilderKeeps(spans, M, owned, E, X, ListedSpans, BuiltSpans)
  BY <1>26, BuilderJoins DEF spans, owned
<1>28. built'.house = spans
  BY <1>1, <1>2 DEF Built
<1> QED BY <1>1, <1>27, <1>28 DEF BuilderKeeps, Kept, E, X, M, owned

\* The sponsor builder's spans: its listed ones are among the listed.
LEMMA SponsorsKept ==
  ASSUME BuildInv, DepartInv, BuildSponsors
  PROVE  LET spans == built'.sponsor
         IN /\ built' = [built EXCEPT !["sponsor"] = spans]
            /\ \A s \in Elements(spans) : s.mem \in Nat \ MintedMembers
            /\ Kept(Elements(spans) \cup BuiltSpans)
<1> DEFINE rows == SponsorObservations(input.sponsors, SponsorExclusions)
           obs == rows \cup input.joined
           context == built.committee \o built.house
           spans == SortSpans(ApplyOperatorEvents(BuildTenureSpans(obs, input.current),
                                WSLEvents, input.current, {Party, Senate}, NoMovers, context).spans)
           M == Nat \ MintedMembers
           E == Elements(input.events)
           X == Attested(E)
           owned == {Party, Senate}
<1>1. built' = [built EXCEPT !["sponsor"] = spans] /\ stage = "sponsor"
  BY Zenon DEF BuildSponsors, Keep
<1>2. InputFits(input) /\ built \in Built
  BY DEF BuildInv, BuildFits
<1>3. /\ input.sponsors \in SUBSET SponsorRows /\ IsFiniteSet(input.sponsors)
      /\ input.joined \subseteq Listings(input.current) /\ IsFiniteSet(input.joined)
      /\ input.current \in Biennia
  BY <1>2 DEF InputFits
<1>4. /\ WSLEvents \in Seq(Events) /\ owned \in SUBSET Kinds
      /\ built.committee \in Seq(BareSpan) /\ built.house \in Seq(BareSpan)
  <2>1. <<>> \in Seq(BareSpan)
    OBVIOUS
  <2> QED BY <1>2, <2>1, EventsFit, KindsAre, KeptStays
<1>5. rows \in SUBSET Observations /\ IsFiniteSet(rows)
  BY <1>3, SponsorsObserved
<1>6. \A o \in rows : \E r \in input.sponsors : o.mem = r.mem /\ o.b = r.b /\ o.kind \in owned
  BY DEF SponsorObservations, Observation
<1> HIDE DEF rows
<1>7. obs \in SUBSET Observations /\ IsFiniteSet(obs)
  BY <1>3, <1>5, FS_Union DEF Listings
<1>8. ASSUME NEW o \in obs PROVE o.mem \in M /\ o.kind \in owned /\ o.b <= input.current
  <2>1. CASE o \in rows
    <3>1. PICK r \in input.sponsors : o.mem = r.mem /\ o.b = r.b /\ o.kind \in owned
      BY <1>6, <2>1
    <3>2. r.b <= input.current
      BY <1>1 DEF DepartInv, BuiltInTurn
    <3>3. r.mem \in M
      BY <1>2, MintedApart
    <3> QED BY <3>1, <3>2, <3>3
  <2>2. CASE o \in input.joined
    <3>1. o.kind \in owned /\ o.b <= input.current
      BY <1>3, <2>2 DEF Listings
    <3>2. o.mem \in M
      BY <1>2, <2>2, MintedApart
    <3> QED BY <3>1, <3>2
  <2> QED BY <2>1, <2>2
<1>9. E \subseteq Events /\ Reads(WSLEvents, E, M)
  BY <1>2, WSLReads
<1>10. X \in SUBSET Events
  BY <1>9 DEF Attested
<1> HIDE DEF E, M
<1>11. /\ \A i \in DOMAIN WSLEvents : WSLEvents[i].mem \in M
       /\ SeatingsRead(X, Elements(WSLEvents), M, owned)
       /\ \A e \in E : e.mem \in M => e \in Elements(WSLEvents)
  BY <1>9, ReadsSeatings
<1> HIDE DEF X
<1>12. DeparturesKept(BuiltSpans, E, X, ListedSpans)
  BY DEF DepartInv, Kept, E, X
<1>13. Elements(BuildTenureSpans(obs, input.current)) \subseteq ListedSpans
  BY DEF ListedSpans, rows
<1>14. context \in Seq(BareSpan) /\ Elements(context) = Elements(built.committee) \cup Elements(built.house)
  BY <1>4, ConcatElements
<1>15. Elements(context) \subseteq BuiltSpans
       /\ \A u \in Elements(context) : u.mem \in M => u.kind \in Sittings \ owned
  <2>1. Committee \in Sittings \ owned /\ House \in Sittings \ owned
    BY DEF Sittings, Committee, House, Party, Senate
  <2> QED BY <1>14, <2>1 DEF DepartInv, BuiltApart, BuiltSpans
<1>16. \A b \in Biennia : NoMovers[b] = {}
  BY DEF NoMovers
<1> HIDE DEF obs, spans, owned, context
<1>17. BuilderReady(obs, input.current, M, owned, NoMovers, WSLEvents, context, E, X, ListedSpans, BuiltSpans)
  BY <1>3, <1>4, <1>7, <1>8, <1>10, <1>11, <1>12, <1>13, <1>14, <1>15, <1>16 DEF BuilderReady
<1>18. BuilderKeeps(spans, M, owned, E, X, ListedSpans, BuiltSpans)
  BY <1>17, BuilderJoins DEF spans, owned
<1>19. built'.sponsor = spans
  BY <1>1, <1>2 DEF Built
<1> QED BY <1>1, <1>18, <1>19 DEF BuilderKeeps, Kept, E, X, M

\* The roster family's spans join the WSL's.
LEMMA RosterKept ==
  ASSUME BuildInv, DepartInv, BuildRoster
  PROVE  /\ AllSpans' = Elements(families[Roster])' \cup BuiltSpans
         /\ Kept(Elements(families[Roster])' \cup BuiltSpans)
<1> DEFINE obs == input.minted
           all == built.committee \o built.house \o built.sponsor
           wsl == SortSpans(all)
           spans == SortSpans(ApplyOperatorEvents(BuildTenureSpans(obs, input.current),
                                RosterEvents, input.current, {Party, Senate}, NoMovers, wsl).spans)
           M == MintedMembers
           E == Elements(input.events)
           X == Attested(E)
           owned == {Party, Senate}
<1>1. families' = [families EXCEPT ![WSL] = wsl, ![Roster] = spans]
  BY DEF BuildRoster
<1>2. InputFits(input) /\ built \in Built /\ families \in Families
  BY DEF BuildInv, BuildFits
<1>3. obs \subseteq Listings(input.current) /\ IsFiniteSet(obs) /\ input.current \in Biennia
  BY <1>2 DEF InputFits
<1>4. /\ RosterEvents \in Seq(Events) /\ owned \in SUBSET Kinds
      /\ built.committee \in Seq(BareSpan) /\ built.house \in Seq(BareSpan)
      /\ built.sponsor \in Seq(BareSpan)
  <2>1. <<>> \in Seq(BareSpan)
    OBVIOUS
  <2> QED BY <1>2, <2>1, EventsFit, KindsAre, KeptStays
<1>5. obs \in SUBSET Observations
      /\ \A o \in obs : o.mem \in M /\ o.kind \in owned /\ o.b <= input.current
  BY <1>3 DEF Listings, MintedMembers
<1>6. E \subseteq Events /\ Reads(RosterEvents, E, M)
  BY <1>2, WSLReads
<1>7. X \in SUBSET Events
  BY <1>6 DEF Attested
<1> HIDE DEF E
<1>8. /\ \A i \in DOMAIN RosterEvents : RosterEvents[i].mem \in M
      /\ SeatingsRead(X, Elements(RosterEvents), M, owned)
      /\ \A e \in E : e.mem \in M => e \in Elements(RosterEvents)
  BY <1>6, ReadsSeatings
<1> HIDE DEF X
<1>9. DeparturesKept(BuiltSpans, E, X, ListedSpans)
  BY DEF DepartInv, Kept, E, X
<1>10. Elements(BuildTenureSpans(obs, input.current)) \subseteq ListedSpans
  BY DEF ListedSpans
<1>11. all \in Seq(BareSpan) /\ Elements(all) = BuiltSpans
  <2> DEFINE sittings == built.committee \o built.house
  <2>1. /\ sittings \in Seq(BareSpan)
        /\ Elements(sittings) = Elements(built.committee) \cup Elements(built.house)
    BY <1>4, ConcatElements
  <2> HIDE DEF sittings
  <2>2. /\ sittings \o built.sponsor \in Seq(BareSpan)
        /\ Elements(sittings \o built.sponsor) = Elements(sittings) \cup Elements(built.sponsor)
    BY <1>4, <2>1, ConcatElements
  <2>3. all = sittings \o built.sponsor
    BY DEF sittings
  <2> HIDE DEF all
  <2> QED BY <2>1, <2>2, <2>3 DEF BuiltSpans
<1> HIDE DEF all
<1>12. wsl \in Seq(BareSpan) /\ Elements(wsl) = BuiltSpans
  <2>1. all \in Seq(Typed)
    BY <1>11, BareSubTyped
  <2> QED BY <1>11, <2>1, BareSubTyped, SortSpansStays, SortSpansElements
<1>13. \A u \in Elements(wsl) : u.mem \in M => u.kind \in Sittings \ owned
  BY <1>12 DEF DepartInv, BuiltApart
<1>14. \A b \in Biennia : NoMovers[b] = {}
  BY DEF NoMovers
<1> HIDE DEF obs, spans, owned, wsl, M
<1>15. BuilderReady(obs, input.current, M, owned, NoMovers, RosterEvents, wsl, E, X, ListedSpans, BuiltSpans)
  <2>1. IsFiniteSet(obs) /\ input.current \in Biennia /\ obs \in SUBSET Observations
    BY <1>3, <1>5
  <2> QED BY <1>4, <1>5, <1>7, <1>8, <1>9, <1>10, <1>12, <1>13, <1>14, <2>1 DEF BuilderReady
<1>16. BuilderKeeps(spans, M, owned, E, X, ListedSpans, BuiltSpans)
  BY <1>15, BuilderJoins DEF spans, owned
<1>17. families'[WSL] = wsl /\ families'[Roster] = spans
  BY <1>1, <1>2 DEF Families, Sources, WSL, Roster
<1>18. Kept(Elements(spans) \cup BuiltSpans)
  BY <1>16 DEF BuilderKeeps, Kept, E, X
<1>19. Elements(families[Roster])' = Elements(spans) /\ Elements(families[WSL])' = BuiltSpans
  BY <1>12, <1>17 DEF Elements
<1>20. AllSpans' = Elements(families[WSL])' \cup Elements(families[Roster])'
  BY DEF AllSpans
<1> QED BY <1>18, <1>19, <1>20

(***************************************************************************)
(* The steps past the overlay, each a Follow.                              *)
(***************************************************************************)

\* A committee dated by one of its member's moves follows itself.
LEMMA DateCommitteeFollows ==
  ASSUME NEW s \in BareSpan, s.kind = Committee, NEW move, MoveFits(move), NEW agency,
         NEW end \in Nat, end < Open
  PROVE  Follows(DateCommittee(s, move, agency, end), s)
<1>1. s \in Typed
  BY BareIsTyped
<1>2. s.from \in Nat /\ s.to \in Nat
  BY <1>1 DEF Typed
<1>3. \/ DateCommittee(s, move, agency, end) = s
      \/ /\ s.from <= end /\ end < s.to
         /\ DateCommittee(s, move, agency, end) = [s EXCEPT !.to = end, !.ebasis = Derived]
      \/ /\ s.sb = move.b /\ s.from = FirstDay(move.b)
         /\ DateCommittee(s, move, agency, end) = [s EXCEPT !.from = move.on, !.sbasis = Derived]
  BY DEF DateCommittee
<1>4. Follows(s, s)
  BY FollowsItself DEF BareSpan
<1>5. ASSUME s.from <= end, end < s.to PROVE Follows([s EXCEPT !.to = end, !.ebasis = Derived], s)
  <2> DEFINE t == [s EXCEPT !.to = end, !.ebasis = Derived]
  <2>1. /\ t.mem = s.mem /\ t.kind = s.kind /\ t.disc = s.disc /\ t.sb = s.sb /\ t.to = end
        /\ t.sbasis = s.sbasis /\ t.from = s.from
    BY <1>1 DEF Typed
  <2> HIDE DEF t
  <2>2. Follows(t, s)
    BY <1>2, <1>5, <2>1 DEF Follows
  <2> QED BY <2>2 DEF t
<1>6. ASSUME s.sb = move.b, s.from = FirstDay(move.b)
      PROVE  Follows([s EXCEPT !.from = move.on, !.sbasis = Derived], s)
  <2> DEFINE t == [s EXCEPT !.from = move.on, !.sbasis = Derived]
  <2>1. /\ t.mem = s.mem /\ t.kind = s.kind /\ t.disc = s.disc /\ t.sb = s.sb /\ t.to = s.to
        /\ t.sbasis = Derived /\ t.from = move.on
    BY <1>1 DEF Typed
  <2>2. move.on \in Nat /\ FirstDay(move.b) < move.on /\ BienniumOf(move.on) = move.b
    BY DEF MoveFits
  <2> HIDE DEF t
  <2>3. s.from <= t.from /\ BienniumOf(t.from) = s.sb
    BY <1>2, <1>6, <2>1, <2>2
  <2>4. Follows(t, s)
    BY <1>2, <2>1, <2>3 DEF Follows, Derived, Observed
  <2> QED BY <2>4 DEF t
<1> QED BY <1>3, <1>4, <1>5, <1>6

\* Following a committee's follower follows the committee.
LEMMA CommitteeFollows ==
  ASSUME NEW s \in BareSpan, NEW t \in BareSpan, NEW u \in BareSpan, s.kind = Committee,
         Follows(t, s), Follows(u, t)
  PROVE  Follows(u, s)
<1>1. /\ s.from \in Nat /\ t.from \in Nat /\ u.from \in Nat
      /\ s.to \in Nat /\ t.to \in Nat /\ u.to \in Nat
  BY FineEdges DEF BareSpan
<1>2. s.kind # Senate /\ t.kind # Senate
  BY DEF Follows, Committee, Senate
<1> QED BY <1>1, <1>2 DEF Follows

\* So does dating it by every one of them.
LEMMA DatedFollows ==
  ASSUME NEW s \in BareSpan, s.kind = Committee, NEW moves, MovesFit(moves), NEW committeeRows,
         NEW houseSpans \in Seq(BareSpan)
  PROVE  /\ DatedByMoves(s, moves, committeeRows, houseSpans) \in BareSpan
         /\ Follows(DatedByMoves(s, moves, committeeRows, houseSpans), s)
<1> DEFINE own == {m \in moves : m.mem = s.mem}
           byMove == [m \in own |-> m.b]
           P == {byMove[m] : m \in own}
           order == Ranked({m.b : m \in own}, LAMBDA b : <<b>>)
           N == Len(order)
           V == {t \in BareSpan : Follows(t, s)}
           a == s
           nth(n) == CHOOSE m \in own : m.b = order[n]
           step(n, v) ==
             DateCommittee(v, nth(n), CommitteeAgency(committeeRows, nth(n).b, s.disc),
                           HouseEndedOn(houseSpans, nth(n)))
           f == CHOOSE f : f = [n \in 0..N |-> IF n = 0 THEN a ELSE step(n, f[n - 1])]
<1>12. order \in Seq(P)
  <2>1. IsFiniteSet(own)
    BY FS_Subset DEF MovesFit
  <2>2. DOMAIN byMove = own
    OBVIOUS
  <2>3. P = {m.b : m \in own}
    OBVIOUS
  <2>4. P \in SUBSET Int
    BY <2>3 DEF MovesFit, MoveFits, Biennia
  <2> HIDE DEF byMove, own
  <2>5. IsFiniteSet(P)
    BY <2>1, <2>2, ImageFinite
  <2> HIDE DEF P
  <2>6. Ranked(P, LAMBDA b : <<b>>) \in Seq(P)
    BY <2>4, <2>5, RankedStays
  <2> QED BY <2>3, <2>6
<1>13. P = {m.b : m \in own}
  OBVIOUS
<1> HIDE DEF P, order
<1>1. a \in V /\ N \in Nat
  <2>1. Follows(s, s)
    BY FollowsItself DEF BareSpan
  <2> QED BY <1>12, <2>1
<1>2. ASSUME NEW n \in 1..N, NEW v \in V PROVE step(n, v) \in V
  <2>1. order[n] \in P
    BY <1>12
  <2>2. nth(n) \in own
    BY <1>13, <2>1
  <2> DEFINE x == step(n, v)
  <2> HIDE DEF nth
  <2>3. MoveFits(nth(n))
    BY <2>2 DEF MovesFit
  <2>4. HouseEndedOn(houseSpans, nth(n)) \in Nat /\ HouseEndedOn(houseSpans, nth(n)) < Open
    BY <2>3, HouseEndedFits
  <2>5. v \in BareSpan /\ Follows(v, s) /\ v.kind = Committee
    BY DEF Follows
  <2>6. x \in BareSpan /\ Follows(x, v)
    BY <2>3, <2>4, <2>5, DateCommitteeStays, DateCommitteeFollows
  <2> HIDE DEF x
  <2>7. Follows(x, s)
    BY <2>5, <2>6, CommitteeFollows
  <2>8. x \in V
    BY <2>6, <2>7
  <2> QED BY <2>8 DEF x
<1>8. DatedByMoves(s, moves, committeeRows, houseSpans) = f[N]
  BY Zenon DEF DatedByMoves, order
<1> DEFINE G == [p \in (1..N) \X V |-> step(p[1], p[2])]
<1> HIDE DEF V, step, N, a
<1>3. \A n \in 1..N : \A v \in V : G[<<n, v>>] = step(n, v)
  OBVIOUS
<1>4. G \in [(1..N) \X V -> V]
  BY <1>2
<1> HIDE DEF G
<1>5. PICK g \in [0..N -> V] : Unfolds(g, N, a, G)
  BY <1>1, <1>4, RecursionExists
<1>6. g = [i \in 0..N |-> IF i = 0 THEN a ELSE step(i, g[i - 1])]
  <2>1. ASSUME NEW i \in 0..N
        PROVE  (IF i = 0 THEN a ELSE G[<<i, g[i - 1]>>]) = (IF i = 0 THEN a ELSE step(i, g[i - 1]))
    <3>1. CASE i # 0
      <4>1. i \in 1..N /\ g[i - 1] \in V
        BY <1>1, <3>1
      <4> QED BY <1>3, <4>1
    <3> QED BY <3>1
  <2>2. g = [i \in 0..N |-> IF i = 0 THEN a ELSE G[<<i, g[i - 1]>>]]
    BY <1>5 DEF Unfolds
  <2> QED BY <2>1, <2>2
<1>7. f = [i \in 0..N |-> IF i = 0 THEN a ELSE step(i, f[i - 1])]
  BY <1>6, Zenon
<1> HIDE DEF f
<1>10. f[0] \in V /\ \A i \in 1..N : f[i - 1] \in V => f[i] \in V
  <2>1. f[0] = a
    BY <1>1, <1>7
  <2>2. ASSUME NEW i \in 1..N, f[i - 1] \in V PROVE f[i] \in V
    <3>1. f[i] = step(i, f[i - 1])
      BY <1>1, <1>7
    <3> QED BY <1>2, <2>2, <3>1
  <2> QED BY <1>1, <2>1, <2>2
<1>11. f[N] \in V
  <2>1. \A n \in 0..N : f[n] \in V
    BY <1>1, <1>10, RunStays
  <2> QED BY <1>1, <2>1
<1> QED BY <1>8, <1>11 DEF V

\* Lists of one length that follow each other row by row follow as sets.
LEMMA RowsFollow ==
  ASSUME NEW T, NEW S, DOMAIN T = DOMAIN S, \A i \in DOMAIN S : Follows(T[i], S[i])
  PROVE  Follow(Elements(T), Elements(S))
BY DEF Follow, Elements

\* Two sets' followers follow their union.
LEMMA UnionFollows ==
  ASSUME NEW T1, NEW S1, NEW T2, NEW S2, Follow(T1, S1), Follow(T2, S2)
  PROVE  Follow(T1 \cup T2, S1 \cup S2)
BY DEF Follow

LEMMA FineFollow ==
  ASSUME NEW S \in SUBSET FineSpan
  PROVE  Follow(S, S)
BY FollowsItself DEF Follow

\* The movers' committees follow the committee builder's.
LEMMA MoversKept ==
  ASSUME BuildInv, DepartInv, DateCommittees
  PROVE  LET spans == built'.committee
         IN /\ built' = [built EXCEPT !["committee"] = spans]
            /\ \A s \in Elements(spans) : s.mem \in Nat \ MintedMembers /\ s.kind = Committee
            /\ Kept(Elements(spans) \cup Elements(built.house) \cup Elements(built.sponsor))
<1> DEFINE moves == ChamberMovesOf(input.sponsors, WSLEvents, NoMovers)
           old == built.committee
           others == Elements(built.house) \cup Elements(built.sponsor)
           spans == DateMoverCommittees(old, moves, input.committees, built.house)
           E == Elements(input.events)
           X == Attested(E)
<1>1. built' = [built EXCEPT !["committee"] = spans]
  BY DEF DateCommittees
<1>2. InputFits(input) /\ built \in Built
  BY DEF BuildInv, BuildFits
<1>3. input.sponsors \in SUBSET SponsorRows /\ IsFiniteSet(input.sponsors)
  BY <1>2 DEF InputFits
<1>4. /\ WSLEvents \in Seq(Events) /\ old \in Seq(BareSpan) /\ built.house \in Seq(BareSpan)
      /\ built.sponsor \in Seq(BareSpan)
  <2>1. <<>> \in Seq(BareSpan)
    OBVIOUS
  <2> QED BY <1>2, <2>1, EventsFit, KeptStays
<1>5. \A b \in Biennia : \A c \in NoMovers[b] : c.pos \in Positions
  BY DEF NoMovers
<1>6. MovesFit(moves)
  BY <1>3, <1>4, <1>5, MoversFit
<1> HIDE DEF moves
<1>7. \A i \in DOMAIN old : old[i].kind = Committee /\ old[i].mem \in Nat \ MintedMembers
  BY DEF DepartInv, BuiltApart, BuiltSpans, Elements
<1>8. \A i \in DOMAIN old : old[i] \in BareSpan
  BY <1>4
<1>9. DOMAIN spans = DOMAIN old /\ \A i \in DOMAIN old : spans[i] \in BareSpan /\ Follows(spans[i], old[i])
  <2>1. \A i \in DOMAIN old : spans[i] = DatedByMoves(old[i], moves, input.committees, built.house)
    BY <1>7 DEF DateMoverCommittees
  <2>2. DOMAIN spans = DOMAIN old
    BY DEF DateMoverCommittees
  <2> HIDE DEF spans, old
  <2> QED BY <1>4, <1>6, <1>7, <1>8, <2>1, <2>2, DatedFollows
<1> HIDE DEF spans, old
<1>10. Follow(Elements(spans), Elements(old))
  BY <1>9, RowsFollow
<1>11. /\ Elements(spans) \subseteq FineSpan /\ Elements(old) \subseteq FineSpan
       /\ others \in SUBSET FineSpan
  <2>1. Elements(spans) \subseteq FineSpan /\ Elements(old) \subseteq FineSpan
    BY <1>8, <1>9 DEF Elements, BareSpan
  <2>2. Elements(built.house) \subseteq FineSpan /\ Elements(built.sponsor) \subseteq FineSpan
    BY <1>4, ElementsOf DEF BareSpan
  <2> QED BY <2>1, <2>2
<1> HIDE DEF others
<1>12. Follow(Elements(spans) \cup others, Elements(old) \cup others)
  BY <1>10, <1>11, FineFollow, UnionFollows
<1>13. E \subseteq Events /\ X \subseteq Events
  BY <1>2, WSLReads DEF Attested
<1>14. DeparturesKept(Elements(old) \cup others, E, X, ListedSpans)
  <2>1. BuiltSpans = Elements(old) \cup others
    BY DEF BuiltSpans, others, old
  <2> QED BY <2>1 DEF DepartInv, Kept
<1> HIDE DEF E, X
<1>15. DeparturesKept(Elements(spans) \cup others, E, X, ListedSpans)
  BY <1>11, <1>12, <1>13, <1>14, KeptByFollowers
<1>16. \A s \in Elements(spans) : s.mem \in Nat \ MintedMembers /\ s.kind = Committee
  BY <1>7, <1>9 DEF Elements, Follows
<1>17. built'.committee = spans
  BY <1>1, <1>2 DEF Built
<1>18. Elements(spans) \cup others = Elements(spans) \cup Elements(built.house) \cup Elements(built.sponsor)
  BY DEF others
<1> QED BY <1>1, <1>15, <1>16, <1>17, <1>18 DEF Kept, E, X

\* A window dates the edges of Senate seats only.
LEMMA HitsAreSenate ==
  ASSUME NEW fams \in Families, NEW w \in Windows, NEW h \in Hits(fams, w)
  PROVE  fams[h[1]][h[2]].kind = Senate
<1> DEFINE of(f) == {<<f, i>> : i \in {j \in DOMAIN fams[f] : OnWindowSeat(fams[f][j], w)}}
           on == UNION {of(f) : f \in DOMAIN fams}
           with == {x \in on : StartsWith(fams[x[1]][x[2]], w)}
           after == {x \in on : StartsAfter(fams[x[1]][x[2]], w)}
           ends == {x \in on : EndsWith(fams[x[1]][x[2]], w)}
<1>1. Hits(fams, w) = CASE w.edge = EndEdge -> ends
                        [] w.edge = StartEdge /\ ~w.beforeTerm /\ with # {} -> with
                        [] OTHER -> after
  BY Zenon DEF Hits
<1>2. \A x \in on : fams[x[1]][x[2]].kind = Senate
  BY DEF OnWindowSeat
<1>3. ends \subseteq on /\ with \subseteq on /\ after \subseteq on
  OBVIOUS
<1> HIDE DEF on, with, after, ends
<1> QED BY <1>1, <1>2, <1>3

\* A Senate start moved by a clause is in the key's biennium or the one before.
LEMMA DateStartFollows ==
  ASSUME NEW s \in FineSpan, s.kind = Senate, NEW w \in Windows, StartsWith(s, w) \/ StartsAfter(s, w)
  PROVE  Follows(DateStart(s, w), s)
<1> DEFINE last == Earlier(IF w.election THEN LastDay(s.sb) ELSE w.last, s.to)
           win == IF last # w.first THEN last ELSE NoDay
           t == [s EXCEPT !.from = w.first, !.sbasis = Dated, !.swin = win]
<1>1. s \in Typed /\ FineFits(s)
  BY FineIsTyped
<1>2. s.from \in Nat /\ s.to \in Nat /\ s.sb \in Int
  BY <1>1 DEF Typed
<1>3. w.first \in Nat
  BY WindowFacts
<1>4. DateStart(s, w) = s \/ (s.sbasis = Observed /\ DateStart(s, w) = t)
  <2>1. DateStart(s, w) = IF \/ s.sbasis # Observed
                             \/ w.election /\ w.first <= s.from
                             \/ w.first > s.to
                          THEN s ELSE t
    BY Zenon DEF DateStart
  <2> HIDE DEF t
  <2> QED BY <2>1
<1>5. /\ t.mem = s.mem /\ t.kind = s.kind /\ t.disc = s.disc /\ t.sb = s.sb /\ t.to = s.to
      /\ t.sbasis = Dated /\ t.from = w.first
  BY <1>1 DEF Typed
<1> HIDE DEF t
<1>6. ASSUME s.sbasis = Observed PROVE Follows(t, s)
  <2>1. CASE StartsWith(s, w)
    <3>1. BienniumOf(t.from) = s.sb
      BY <1>5, <2>1 DEF StartsWith
    <3>2. s.from = FirstDay(s.sb)
      BY <1>1, <1>6 DEF FineFits
    <3>3. s.sb <= BienniumOf(t.from)
      BY <1>2, <3>1
    <3>4. s.from <= t.from
      BY <1>2, <1>3, <1>5, <3>2, <3>3, FromFirstDay
    <3> QED BY <1>2, <1>5, <1>6, <3>1, <3>4 DEF Follows, Observed, Dated, Derived
  <2>2. CASE StartsAfter(s, w)
    <3>1. BienniumOf(t.from) = s.sb - 1
      BY <1>5, <2>2 DEF StartsAfter
    <3> QED BY <1>2, <1>5, <1>6, <3>1 DEF Follows, Observed, Dated, Derived
  <2> QED BY <2>1, <2>2
<1>7. Follows(s, s)
  BY FollowsItself
<1> QED BY <1>4, <1>6, <1>7

\* An end moved by a clause is no later.
LEMMA DateEndFollows ==
  ASSUME NEW s \in FineSpan, NEW w \in Windows
  PROVE  Follows(DateEnd(s, w), s)
<1> DEFINE to == Earlier(w.last, s.to)
           earliest == Later(w.first, s.from)
           win == IF earliest # to THEN earliest ELSE NoDay
           t == [s EXCEPT !.to = to, !.ebasis = Dated, !.ewin = win]
<1>1. s \in Typed
  BY FineIsTyped
<1>2. s.from \in Nat /\ s.to \in Nat /\ w.last \in Nat
  BY <1>1, WindowFacts DEF Typed
<1>3. DateEnd(s, w) = s \/ DateEnd(s, w) = t
  BY DEF DateEnd
<1>4. /\ t.mem = s.mem /\ t.kind = s.kind /\ t.disc = s.disc /\ t.sb = s.sb /\ t.to = to
      /\ t.sbasis = s.sbasis /\ t.from = s.from
  BY <1>1 DEF Typed
<1>5. to <= s.to
  BY <1>2 DEF Earlier
<1> HIDE DEF t, to
<1>6. Follows(t, s)
  BY <1>4, <1>5 DEF Follows
<1>7. Follows(s, s)
  BY FollowsItself
<1> QED BY <1>3, <1>6, <1>7

\* Families' spans follow each other as the families' rows do.
SpansOf(fams) == Elements(fams[WSL]) \cup Elements(fams[Roster])
LEMMA FamiliesFollow ==
  ASSUME NEW fams, NEW new, \A f \in Sources : Follow(Elements(new[f]), Elements(fams[f]))
  PROVE  Follow(SpansOf(new), SpansOf(fams))
<1>1. WSL \in Sources /\ Roster \in Sources
  BY DEF Sources
<1> QED BY <1>1, UnionFollows DEF SpansOf

\* A clause's families follow those it dates.
LEMMA WindowFollows ==
  ASSUME NEW fams \in Families, NEW w \in Windows
  PROVE  Follow(SpansOf(ApplyWindow(fams, w)), SpansOf(fams))
<1> DEFINE hits == Hits(fams, w)
           h == CHOOSE x \in hits : TRUE
           dated(s) == IF w.edge = StartEdge THEN DateStart(s, w) ELSE DateEnd(s, w)
           new == [fams EXCEPT ![h[1]][h[2]] = dated(@)]
<1>1. ApplyWindow(fams, w) = IF Cardinality(hits) # 1 THEN fams ELSE new
  BY Zenon DEF ApplyWindow
<1>0. \A g \in Sources : \A i \in DOMAIN fams[g] : fams[g][i] \in FineSpan
  BY DEF Families
<1>2. CASE Cardinality(hits) # 1
  <2>1. \A g \in Sources : Elements(fams[g]) \in SUBSET FineSpan
    BY <1>0 DEF Elements
  <2>2. \A g \in Sources : Follow(Elements(fams[g]), Elements(fams[g]))
    BY <2>1, FineFollow
  <2>3. Follow(SpansOf(fams), SpansOf(fams))
    BY <2>2, FamiliesFollow
  <2> QED BY <1>1, <1>2, <2>3
<1>3. CASE Cardinality(hits) = 1
  <2>1. hits # {}
    BY <1>3, FS_EmptySet
  <2>2. h \in hits
    BY <2>1
  <2> HIDE DEF h
  <2>3. /\ h[1] \in Sources /\ h[2] \in DOMAIN fams[h[1]]
        /\ w.edge = StartEdge => StartsWith(fams[h[1]][h[2]], w) \/ StartsAfter(fams[h[1]][h[2]], w)
        /\ fams[h[1]][h[2]].kind = Senate
    BY <2>2, HitsFit, HitsAreSenate
  <2> DEFINE f == h[1]
             k == h[2]
             s == fams[f][k]
             d == dated(s)
  <2>4. f \in Sources /\ k \in DOMAIN fams[f] /\ s \in FineSpan
    BY <1>0, <2>3
  <2>5. new = [fams EXCEPT ![f] = [fams[f] EXCEPT ![k] = d]]
    BY <2>4 DEF Families
  <2>6. Follows(d, s)
    <3>1. CASE w.edge = StartEdge
      <4>1. d = DateStart(s, w)
        BY <3>1 DEF dated
      <4> HIDE DEF d, dated
      <4> QED BY <2>3, <2>4, <3>1, <4>1, DateStartFollows
    <3>2. CASE w.edge # StartEdge
      <4>1. d = DateEnd(s, w)
        BY <3>2 DEF dated
      <4> HIDE DEF d, dated
      <4> QED BY <2>4, <4>1, DateEndFollows
    <3> QED BY <3>1, <3>2
  <2> HIDE DEF new, dated, d
  <2>7. ASSUME NEW g \in Sources PROVE Follow(Elements(new[g]), Elements(fams[g]))
    <3>1. DOMAIN new[g] = DOMAIN fams[g]
      BY <2>4, <2>5 DEF Families
    <3>2. ASSUME NEW i \in DOMAIN fams[g] PROVE Follows(new[g][i], fams[g][i])
      <4>1. CASE g = f /\ i = k
        <5>1. new[g][i] = d
          BY <2>4, <2>5, <4>1 DEF Families
        <5> QED BY <2>6, <4>1, <5>1
      <4>2. CASE ~(g = f /\ i = k)
        <5>1. new[g][i] = fams[g][i]
          BY <2>4, <2>5, <4>2 DEF Families
        <5> QED BY <1>0, <5>1, FollowsItself
      <4> QED BY <4>1, <4>2
    <3> QED BY <3>1, <3>2, RowsFollow
  <2>8. Follow(SpansOf(new), SpansOf(fams))
    BY <2>7, FamiliesFollow
  <2> QED BY <1>1, <1>3, <2>8
<1> QED BY <1>2, <1>3

\* The marked substitutes follow themselves.
LEMMA MembershipsFollow ==
  ASSUME NEW fams \in Families, NEW substitutes
  PROVE  Follow(SpansOf(ApplyMemberships(fams, substitutes)), SpansOf(fams))
<1> DEFINE new == ApplyMemberships(fams, substitutes)
<1>1. ASSUME NEW f \in Sources PROVE Follow(Elements(new[f]), Elements(fams[f]))
  <2>1. DOMAIN new[f] = DOMAIN fams[f]
    BY DEF ApplyMemberships, Families
  <2>2. ASSUME NEW i \in DOMAIN fams[f] PROVE Follows(new[f][i], fams[f][i])
    <3> DEFINE s == fams[f][i]
               t == [s EXCEPT !.type = Substitute]
    <3>1. new[f][i] = t \/ new[f][i] = s
      BY DEF ApplyMemberships, Families
    <3>2. s \in FineSpan
      BY DEF Families
    <3> HIDE DEF s, new
    <3>3. s \in Typed /\ Follows(s, s)
      BY <3>2, FineIsTyped, FollowsItself
    <3>4. /\ t.mem = s.mem /\ t.kind = s.kind /\ t.disc = s.disc /\ t.sb = s.sb /\ t.to = s.to
          /\ t.sbasis = s.sbasis /\ t.from = s.from
      BY <3>3 DEF Typed
    <3> HIDE DEF t
    <3>5. Follows(t, s)
      BY <3>3, <3>4 DEF Follows
    <3> QED BY <3>1, <3>3, <3>5 DEF s
  <2> HIDE DEF new
  <2> QED BY <2>1, <2>2, RowsFollow
<1> HIDE DEF new
<1>2. Follow(SpansOf(new), SpansOf(fams))
  BY <1>1, FamiliesFollow
<1> QED BY <1>2 DEF new

\* So do the rows left once the never-seated have gone: none of those is a sitting.
LEMMA NeverSeatedFollow ==
  ASSUME NEW fams \in Families, NEW entries
  PROVE  Follow(SpansOf(WithoutNeverSeated(fams, entries)), SpansOf(fams))
<1> DEFINE new == WithoutNeverSeated(fams, entries)
           P(f) == {i \in DOMAIN fams[f] : ~NeverSat(entries, f, fams[f][i])}
<1>1. new = [f \in Sources |-> Selected(fams[f], P(f))]
  BY DEF WithoutNeverSeated, Families
<1>2. ASSUME NEW f \in Sources PROVE Follow(Elements(new[f]), Elements(fams[f]))
  <2>1. fams[f] \in Seq(FineSpan) /\ P(f) \in SUBSET DOMAIN fams[f] /\ new[f] = Selected(fams[f], P(f))
    BY <1>1 DEF Families
  <2>2. Elements(new[f]) = {fams[f][i] : i \in P(f)}
    <3> HIDE DEF P, new
    <3> QED BY <2>1, SelectedElements
  <2>3. \A i \in DOMAIN fams[f] : fams[f][i].kind \in Sittings => i \in P(f)
    BY DEF NeverSat, NeverSeatedKeys, SpanIdentity, Sittings, House, Committee, Senate, Party
  <2>4. \A i \in DOMAIN fams[f] : Follows(fams[f][i], fams[f][i])
    BY <2>1, FollowsItself
  <2>5. \A t \in Elements(new[f]) : \E s \in Elements(fams[f]) : Follows(t, s)
    BY <2>1, <2>2, <2>4 DEF Elements
  <2> HIDE DEF P, new
  <2>6. \A s \in Elements(fams[f]) : s.kind \in Sittings => \E t \in Elements(new[f]) : Follows(t, s)
    <3>1. ASSUME NEW i \in DOMAIN fams[f], fams[f][i].kind \in Sittings
          PROVE  \E t \in Elements(new[f]) : Follows(t, fams[f][i])
      BY <2>2, <2>3, <2>4, <3>1
    <3> QED BY <3>1 DEF Elements
  <2> QED BY <2>5, <2>6 DEF Follow
<1> HIDE DEF new
<1>3. Follow(SpansOf(new), SpansOf(fams))
  BY <1>2, FamiliesFollow
<1> QED BY <1>3 DEF new

\* A narrowed span follows itself.
LEMMA NarrowedFollows ==
  ASSUME NEW s \in FineSpan, NEW t \in FineSpan, Narrowing!Narrowed(s, t)
  PROVE  Follows(t, s)
<1>1. /\ s.from \in Nat /\ s.to \in Nat /\ t.from \in Nat /\ t.to \in Nat /\ s.sb \in Int
  BY FineEdges
<1>2. t.mem = s.mem /\ t.kind = s.kind /\ t.disc = s.disc
  BY DEF Narrowing!Narrowed
<1>3. CASE StartEdgeNarrowed(s, t)
  <2>1. /\ t.sb = s.sb /\ s.from <= t.from /\ t.sbasis = Derived /\ t.to = s.to
        /\ FirstDay(s.sb) <= t.from /\ t.from <= LastDay(s.sb)
    BY <1>3 DEF StartEdgeNarrowed, InBiennium
  <2>2. BienniumOf(t.from) = s.sb
    <3>1. BienniumOf(t.from) <= s.sb
      BY <1>1, <2>1, Timeline
    <3>2. s.sb <= BienniumOf(t.from)
      BY <1>1, <2>1, Timeline
    <3>3. BienniumOf(t.from) \in Nat
      BY <1>1, Timeline
    <3> QED BY <1>1, <3>1, <3>2, <3>3
  <2> QED BY <1>1, <1>2, <2>1, <2>2 DEF Follows, Derived, Observed
<1>4. CASE EndEdgeNarrowed(s, t)
  BY <1>2, <1>4 DEF EndEdgeNarrowed, Follows
<1> QED BY <1>3, <1>4, NarrowedEdges

\* So does every row of a list a step of the clip narrows.
LEMMA ClippedFollow ==
  ASSUME NEW old \in Seq(FineSpan), NEW new, OneNarrowed(old, new)
  PROVE  Follow(Elements(new), Elements(old))
<1>1. new \in Seq(FineSpan) /\ Len(new) = Len(old)
  BY NarrowingStaysFine
<1>2. DOMAIN new = DOMAIN old
  BY <1>1
<1>3. \A i \in DOMAIN old : Follows(old[i], old[i])
  BY FollowsItself
<1>4. CASE new = old
  BY <1>3, <1>4, RowsFollow
<1>5. ASSUME NEW k \in DOMAIN old, NEW t \in Span, Narrowing!Narrowed(old[k], t),
             new = [old EXCEPT ![k] = t]
      PROVE  Follow(Elements(new), Elements(old))
  <2>1. t \in FineSpan /\ old[k] \in FineSpan
    BY <1>5, NarrowedIsFine
  <2>2. Follows(t, old[k])
    BY <1>5, <2>1, NarrowedFollows
  <2>3. \A i \in DOMAIN old : new[i] = IF i = k THEN t ELSE old[i]
    BY <1>5
  <2>4. \A i \in DOMAIN old : Follows(new[i], old[i])
    BY <1>3, <2>2, <2>3
  <2> QED BY <1>2, <2>4, RowsFollow
<1> QED BY <1>4, <1>5 DEF OneNarrowed

\* A list cut in two holds the same spans.
LEMMA CutElements ==
  ASSUME NEW S, NEW s \in Seq(S), NEW n \in Nat, n <= Len(s)
  PROVE  Elements(SubSeq(s, 1, n)) \cup Elements(SubSeq(s, n + 1, Len(s))) = Elements(s)
<1> DEFINE first == SubSeq(s, 1, n)
           rest == SubSeq(s, n + 1, Len(s))
           N == Len(s)
<1>1. N \in Nat /\ DOMAIN s = 1..N
  OBVIOUS
<1>2. DOMAIN first = 1..n /\ \A i \in 1..n : first[i] = s[i]
  OBVIOUS
<1>3. DOMAIN rest = 1..(N - n) /\ \A i \in 1..(N - n) : rest[i] = s[i + n]
  OBVIOUS
<1> HIDE DEF first, rest, N
<1>4. Elements(first) \subseteq Elements(s)
  <2>1. \A i \in 1..n : i \in 1..N
    BY <1>1 DEF N
  <2> QED BY <1>1, <1>2, <2>1 DEF Elements
<1>5. Elements(rest) \subseteq Elements(s)
  <2>1. \A i \in 1..(N - n) : i + n \in 1..N
    BY <1>1 DEF N
  <2> QED BY <1>1, <1>3, <2>1 DEF Elements
<1>6. ASSUME NEW i \in DOMAIN s PROVE s[i] \in Elements(first) \cup Elements(rest)
  <2>1. CASE i <= n
    <3>1. i \in 1..n
      BY <1>1, <2>1
    <3> QED BY <1>2, <3>1 DEF Elements
  <2>2. CASE ~(i <= n)
    <3>1. i - n \in 1..(N - n) /\ (i - n) + n = i
      BY <1>1, <2>2
    <3>2. rest[i - n] = s[i]
      BY <1>3, <3>1
    <3> QED BY <1>3, <3>1, <3>2 DEF Elements
  <2> QED BY <2>1, <2>2
<1>7. Elements(s) \subseteq Elements(first) \cup Elements(rest)
  BY <1>6 DEF Elements
<1>8. Elements(first) \cup Elements(rest) = Elements(s)
  BY <1>4, <1>5, <1>7
<1> QED BY <1>8 DEF first, rest, N

(***************************************************************************)
(* Every action keeps DepartInv.                                           *)
(***************************************************************************)

\* What the departures are judged by.
SameRead ==
  /\ ListedSpans' = ListedSpans /\ MintedMembers' = MintedMembers
  /\ input'.events = input.events /\ input'.sponsors = input.sponsors
  /\ input'.current = input.current

LEMMA ReadAgain ==
  ASSUME \/ UNCHANGED input
         \/ InputFits(input) /\ input' = [input EXCEPT !.windows = Tail(@)]
  PROVE  SameRead
<1>1. /\ input'.sponsors = input.sponsors /\ input'.committees = input.committees
      /\ input'.current = input.current /\ input'.events = input.events
      /\ input'.joined = input.joined /\ input'.minted = input.minted
  BY DEF InputFits, InputFields
<1>2. MintedMembers' = MintedMembers
  BY <1>1 DEF MintedMembers
<1>3. RosterPositions' = RosterPositions
  BY <1>1, <1>2 DEF RosterPositions
<1>4. WSLEvents' = WSLEvents
  BY <1>1, <1>3 DEF WSLEvents
<1>5. SponsorExclusions' = SponsorExclusions
  BY <1>1, <1>4 DEF SponsorExclusions, Exclusions
<1>6. ListedSpans' = ListedSpans
  BY <1>1, <1>5 DEF ListedSpans
<1> QED BY <1>1, <1>2, <1>6 DEF SameRead

LEMMA KeptAgain ==
  ASSUME SameRead, NEW S, NEW T, T = S, Kept(S)
  PROVE  DeparturesKept(T, Elements(input'.events), Attested(Elements(input'.events)), ListedSpans')
BY DEF SameRead, Kept

\* What a step leaves alone keeps its part of the invariant.
LEMMA PartsAgain ==
  ASSUME SameRead, DepartInv
  PROVE  /\ UNCHANGED built => BuiltApart' /\ Kept(BuiltSpans)'
         /\ UNCHANGED families => Kept(AllSpans)'
         /\ UNCHANGED work => Kept(Elements(work))'
<1>1. ASSUME UNCHANGED built PROVE BuiltApart' /\ Kept(BuiltSpans)'
  <2>1. BuiltSpans' = BuiltSpans
    BY <1>1 DEF BuiltSpans
  <2>2. BuiltApart'
    BY <1>1, <2>1 DEF BuiltApart, DepartInv, SameRead
  <2>3. Kept(BuiltSpans)'
    BY <2>1, KeptAgain DEF DepartInv, Kept
  <2> QED BY <2>2, <2>3
<1>2. ASSUME UNCHANGED families PROVE Kept(AllSpans)'
  <2>1. AllSpans' = AllSpans
    BY <1>2 DEF AllSpans
  <2> QED BY <2>1, KeptAgain DEF DepartInv, Kept
<1>3. ASSUME UNCHANGED work PROVE Kept(Elements(work))'
  <2>1. Elements(work)' = Elements(work)
    BY <1>3
  <2> QED BY <2>1, KeptAgain DEF DepartInv, Kept
<1> QED BY <1>1, <1>2, <1>3

LEMMA StillInTurn ==
  ASSUME DepartInv, SameRead, stage # "judge", stage' # "judge"
  PROVE  \A r \in input'.sponsors : r.b <= input'.current
BY DEF DepartInv, BuiltInTurn, SameRead

\* Nothing is lost where nothing is built.
LEMMA NothingLost ==
  ASSUME NEW E, NEW X, NEW L
  PROVE  DeparturesKept({}, E, X, L)
BY DEF DeparturesKept

LEMMA DepartBegins == Init => DepartInv
<1> SUFFICES ASSUME Init PROVE DepartInv
  OBVIOUS
<1>1. /\ stage = "judge" /\ built.committee = <<>> /\ built.house = <<>> /\ built.sponsor = <<>>
      /\ families[WSL] = <<>> /\ families[Roster] = <<>> /\ work = <<>>
  BY DEF Init, NoSpans
<1>2. BuiltSpans = {} /\ AllSpans = {} /\ Elements(work) = {} /\ Elements(built.committee) = {}
      /\ Elements(built.house) = {}
  BY <1>1, NoElements DEF BuiltSpans, AllSpans
<1> QED BY <1>1, <1>2, NothingLost DEF DepartInv, BuiltInTurn, BuiltApart, Kept

LEMMA JudgeKeeps ==
  ASSUME BuildInv, DepartInv, JudgeRows
  PROVE  DepartInv'
<1>1. /\ stage = "judge" /\ input' = WithoutNonLegislators(WithoutFutureBienniums(input))
      /\ stage' \in {"refused", "committee"} /\ UNCHANGED <<built, families, clipVars>>
  BY DEF JudgeRows
<1>2. BuiltSpans = {} /\ AllSpans = {} /\ Elements(work) = {}
  BY <1>1 DEF DepartInv, BuiltInTurn
<1>3. BuiltSpans' = {} /\ AllSpans' = {} /\ Elements(work)' = {}
  BY <1>1, <1>2 DEF BuiltSpans, AllSpans, clipVars
<1>4. Kept(BuiltSpans)' /\ Kept(AllSpans)' /\ Kept(Elements(work))'
  BY <1>3, NothingLost DEF Kept
<1>5. BuiltApart'
  BY <1>3 DEF BuiltApart, BuiltSpans
<1>6. \A r \in input'.sponsors : r.b <= input'.current
  <2> DEFINE early == WithoutFutureBienniums(input)
  <2>1. /\ early.sponsors = {r \in input.sponsors : r.b <= input.current}
        /\ early.current = input.current /\ DOMAIN early = DOMAIN input
    BY DEF BuildInv, BuildFits, InputFits, InputFields, WithoutFutureBienniums
  <2> HIDE DEF early
  <2>2. InputFields \subseteq DOMAIN early
    BY <2>1 DEF BuildInv, BuildFits, InputFits
  <2>3. input'.sponsors = early.sponsors /\ input'.current = early.current
    BY <1>1, <2>2 DEF WithoutNonLegislators, InputFields, early
  <2> QED BY <2>1, <2>3
<1>7. BuiltInTurn'
  <2>1. /\ built \in Built /\ UNCHANGED built
    BY <1>1 DEF BuildInv, BuildFits
  <2>2. built.committee \in Seq(BareSpan) /\ built.house \in Seq(BareSpan) /\ built.sponsor \in Seq(BareSpan)
    <3>1. <<>> \in Seq(BareSpan)
      OBVIOUS
    <3> QED BY <2>1, <3>1, KeptStays
  <2>3. ASSUME NEW s \in Seq(BareSpan), Elements(s) = {} PROVE s = <<>>
    <3>1. Len(s) \in Nat /\ DOMAIN s = 1..Len(s)
      OBVIOUS
    <3>2. CASE Len(s) # 0
      <4>1. 1 \in DOMAIN s
        BY <3>1, <3>2
      <4>2. s[1] \in Elements(s)
        BY <4>1 DEF Elements
      <4> QED BY <2>3, <4>2
    <3> QED BY <3>1, <3>2
  <2>4. built.committee = <<>> /\ built.house = <<>> /\ built.sponsor = <<>>
    BY <1>2, <2>2, <2>3 DEF BuiltSpans
  <2> QED BY <1>1, <1>6, <2>1, <2>4 DEF BuiltInTurn
<1> QED BY <1>4, <1>5, <1>7 DEF DepartInv

LEMMA CommitteesKeep ==
  ASSUME BuildInv, DepartInv, BuildCommittees
  PROVE  DepartInv'
<1> DEFINE spans == built'.committee
           M == Nat \ MintedMembers
<1>1. stage = "committee" /\ stage' = "house" /\ UNCHANGED <<input, families, clipVars>>
  BY CommitteesFit DEF BuildCommittees
<1>2. /\ built' = [built EXCEPT !["committee"] = spans]
      /\ \A s \in Elements(spans) : s.mem \in M /\ s.kind = Committee
      /\ Kept(Elements(spans) \cup BuiltSpans)
  BY CommitteesKept
<1>3. SameRead /\ UNCHANGED <<families, work>>
  BY <1>1, ReadAgain DEF clipVars
<1>4. Kept(AllSpans)' /\ Kept(Elements(work))'
  BY <1>3, PartsAgain
<1>5. built \in Built /\ built.committee = <<>> /\ built.house = <<>> /\ built.sponsor = <<>>
  BY <1>1 DEF BuildInv, BuildFits, DepartInv, BuiltInTurn
<1>6. built'.house = <<>> /\ built'.sponsor = <<>>
  BY <1>2, <1>5 DEF Built
<1>7. BuiltSpans' = Elements(spans) /\ BuiltSpans = {}
  BY <1>5, <1>6, NoElements DEF BuiltSpans
<1> HIDE DEF spans
<1>8. Kept(BuiltSpans)'
  <2>1. Elements(spans) \cup BuiltSpans = Elements(spans)
    BY <1>7
  <2>2. Kept(Elements(spans))
    BY <1>2, <2>1
  <2> QED BY <1>3, <1>7, <2>2, KeptAgain DEF Kept
<1>9. BuiltApart'
  <2>1. Elements(built'.house) = {}
    BY <1>6, NoElements
  <2> QED BY <1>2, <1>3, <1>7, <2>1 DEF BuiltApart, SameRead, spans
<1>10. BuiltInTurn'
  BY <1>1, <1>3, <1>6, StillInTurn DEF BuiltInTurn
<1> QED BY <1>4, <1>8, <1>9, <1>10 DEF DepartInv

LEMMA HouseKeeps ==
  ASSUME BuildInv, DepartInv, BuildHouse
  PROVE  DepartInv'
<1> DEFINE spans == built'.house
           M == Nat \ MintedMembers
<1>1. stage = "house" /\ stage' = "movers" /\ UNCHANGED <<input, families, clipVars>>
  BY HouseFits DEF BuildHouse
<1>2. /\ built' = [built EXCEPT !["house"] = spans]
      /\ \A s \in Elements(spans) : s.mem \in M /\ s.kind = House
      /\ Kept(Elements(spans) \cup BuiltSpans)
  BY HouseKept
<1>3. SameRead /\ UNCHANGED <<families, work>>
  BY <1>1, ReadAgain DEF clipVars
<1>4. Kept(AllSpans)' /\ Kept(Elements(work))'
  BY <1>3, PartsAgain
<1>5. built \in Built /\ built.house = <<>> /\ built.sponsor = <<>>
  BY <1>1 DEF BuildInv, BuildFits, DepartInv, BuiltInTurn
<1>6. built'.committee = built.committee /\ built'.sponsor = <<>>
  BY <1>2, <1>5 DEF Built
<1>7. BuiltSpans' = Elements(spans) \cup BuiltSpans /\ BuiltSpans = Elements(built.committee)
  BY <1>5, <1>6, NoElements DEF BuiltSpans
<1> HIDE DEF spans
<1>8. Kept(BuiltSpans)'
  BY <1>2, <1>3, <1>7, KeptAgain DEF Kept
<1>9. BuiltApart'
  BY <1>2, <1>3, <1>6, <1>7 DEF BuiltApart, DepartInv, SameRead, spans
<1>10. BuiltInTurn'
  BY <1>1, <1>3, <1>6, StillInTurn DEF BuiltInTurn
<1> QED BY <1>4, <1>8, <1>9, <1>10 DEF DepartInv

LEMMA MoversKeep ==
  ASSUME BuildInv, DepartInv, DateCommittees
  PROVE  DepartInv'
<1> DEFINE spans == built'.committee
           M == Nat \ MintedMembers
<1>1. stage = "movers" /\ stage' = "sponsor" /\ UNCHANGED <<input, families, clipVars>>
  BY MoversDated DEF DateCommittees
<1>2. /\ built' = [built EXCEPT !["committee"] = spans]
      /\ \A s \in Elements(spans) : s.mem \in M /\ s.kind = Committee
      /\ Kept(Elements(spans) \cup Elements(built.house) \cup Elements(built.sponsor))
  BY MoversKept
<1>3. SameRead /\ UNCHANGED <<families, work>>
  BY <1>1, ReadAgain DEF clipVars
<1>4. Kept(AllSpans)' /\ Kept(Elements(work))'
  BY <1>3, PartsAgain
<1>5. built \in Built /\ built.sponsor = <<>>
  BY <1>1 DEF BuildInv, BuildFits, DepartInv, BuiltInTurn
<1>6. built'.house = built.house /\ built'.sponsor = built.sponsor
  BY <1>2, <1>5 DEF Built
<1>7. BuiltSpans' = Elements(spans) \cup Elements(built.house) \cup Elements(built.sponsor)
  BY <1>6 DEF BuiltSpans
<1> HIDE DEF spans
<1>8. Kept(BuiltSpans)'
  BY <1>2, <1>3, <1>7, KeptAgain DEF Kept
<1>9. BuiltApart'
  BY <1>2, <1>3, <1>6, <1>7 DEF BuiltApart, BuiltSpans, DepartInv, SameRead, spans
<1>10. BuiltInTurn'
  BY <1>1, <1>3, <1>5, <1>6, StillInTurn DEF BuiltInTurn
<1> QED BY <1>4, <1>8, <1>9, <1>10 DEF DepartInv

LEMMA SponsorsKeep ==
  ASSUME BuildInv, DepartInv, BuildSponsors
  PROVE  DepartInv'
<1> DEFINE spans == built'.sponsor
           M == Nat \ MintedMembers
<1>1. stage = "sponsor" /\ stage' = "roster" /\ UNCHANGED <<input, families, clipVars>>
  BY SponsorsFit DEF BuildSponsors
<1>2. /\ built' = [built EXCEPT !["sponsor"] = spans]
      /\ \A s \in Elements(spans) : s.mem \in M
      /\ Kept(Elements(spans) \cup BuiltSpans)
  BY SponsorsKept
<1>3. SameRead /\ UNCHANGED <<families, work>>
  BY <1>1, ReadAgain DEF clipVars
<1>4. Kept(AllSpans)' /\ Kept(Elements(work))'
  BY <1>3, PartsAgain
<1>5. built \in Built /\ built.sponsor = <<>>
  BY <1>1 DEF BuildInv, BuildFits, DepartInv, BuiltInTurn
<1>6. built'.committee = built.committee /\ built'.house = built.house
  BY <1>2, <1>5 DEF Built
<1>7. BuiltSpans' = Elements(spans) \cup BuiltSpans
  BY <1>5, <1>6, NoElements DEF BuiltSpans
<1> HIDE DEF spans
<1>8. Kept(BuiltSpans)'
  BY <1>2, <1>3, <1>7, KeptAgain DEF Kept
<1>9. BuiltApart'
  BY <1>2, <1>3, <1>6, <1>7 DEF BuiltApart, DepartInv, SameRead, spans
<1>10. BuiltInTurn'
  BY <1>1, <1>3, StillInTurn DEF BuiltInTurn
<1> QED BY <1>4, <1>8, <1>9, <1>10 DEF DepartInv

LEMMA RosterKeeps ==
  ASSUME BuildInv, DepartInv, BuildRoster
  PROVE  DepartInv'
<1> DEFINE all == Elements(families'[Roster]) \cup BuiltSpans
<1>1. stage = "roster" /\ stage' \in {"refused", "windows"} /\ UNCHANGED <<input, built, clipVars>>
  BY RosterFits DEF BuildRoster
<1>2. AllSpans' = all /\ Kept(all)
  BY RosterKept
<1>3. SameRead /\ UNCHANGED <<built, work>>
  BY <1>1, ReadAgain DEF clipVars
<1>4. BuiltApart' /\ Kept(BuiltSpans)' /\ Kept(Elements(work))'
  BY <1>3, PartsAgain
<1> HIDE DEF all
<1>5. Kept(AllSpans)'
  BY <1>2, <1>3, KeptAgain DEF Kept
<1>6. BuiltInTurn'
  BY <1>1, <1>3, StillInTurn DEF BuiltInTurn
<1> QED BY <1>4, <1>5, <1>6 DEF DepartInv

\* Families that follow the earlier ones keep the departures.
LEMMA FollowersKept ==
  ASSUME DepartInv, InputFits(input), SameRead, families \in Families,
         NEW new, new \in Families, Follow(SpansOf(new), SpansOf(families))
  PROVE  DeparturesKept(SpansOf(new), Elements(input'.events), Attested(Elements(input'.events)), ListedSpans')
<1> DEFINE E == Elements(input.events)
           X == Attested(E)
<1>1. E \subseteq Events /\ X \subseteq Events
  BY WSLReads DEF Attested
<1>2. DeparturesKept(SpansOf(families), E, X, ListedSpans)
  BY DEF DepartInv, Kept, AllSpans, SpansOf
<1>3. ASSUME NEW fams \in Families PROVE SpansOf(fams) \in SUBSET FineSpan
  <2>1. fams[WSL] \in Seq(FineSpan) /\ fams[Roster] \in Seq(FineSpan)
    BY DEF Families, Sources
  <2> QED BY <2>1, ElementsOf DEF SpansOf
<1>4. SpansOf(new) \in SUBSET FineSpan /\ SpansOf(families) \in SUBSET FineSpan
  BY <1>3
<1> HIDE DEF E, X
<1>5. DeparturesKept(SpansOf(new), E, X, ListedSpans)
  BY <1>1, <1>2, <1>4, KeptByFollowers
<1> QED BY <1>5 DEF E, X, SameRead

LEMMA EdgeKeeps ==
  ASSUME BuildInv, DepartInv, DateEdge
  PROVE  DepartInv'
<1> DEFINE dated == ApplyWindow(families, Head(input.windows))
           fits == \A f \in DOMAIN dated : \A s \in Elements(dated[f]) : WellFormed(s)
<1>1. /\ input.windows # <<>> /\ input' = [input EXCEPT !.windows = Tail(@)]
      /\ IF fits THEN families' = dated /\ stage' = stage
         ELSE UNCHANGED families /\ stage' = "aborted"
      /\ stage = "windows" /\ UNCHANGED <<built, clipVars>>
  BY DEF DateEdge
<1>2. InputFits(input) /\ families \in Families
  BY DEF BuildInv, BuildFits
<1>3. SameRead /\ UNCHANGED <<built, work>>
  BY <1>1, <1>2, ReadAgain DEF clipVars
<1>4. BuiltApart' /\ Kept(BuiltSpans)' /\ Kept(Elements(work))'
  BY <1>3, PartsAgain
<1>5. Kept(AllSpans)'
  <2>1. CASE fits
    <3>1. families' = dated /\ families' \in Families
      BY <1>1, <2>1, EdgeFits
    <3>2. Head(input.windows) \in Windows
      BY <1>1, <1>2, NextClauseFits
    <3>3. Follow(SpansOf(families'), SpansOf(families))
      BY <1>2, <3>1, <3>2, WindowFollows
    <3> HIDE DEF dated, fits
    <3>4. DeparturesKept(SpansOf(families'), Elements(input'.events),
                         Attested(Elements(input'.events)), ListedSpans')
      BY <1>2, <1>3, <3>1, <3>3, FollowersKept
    <3>5. AllSpans' = SpansOf(families')
      BY DEF AllSpans, SpansOf
    <3> QED BY <3>4, <3>5 DEF Kept
  <2>2. CASE ~fits
    BY <1>1, <1>3, <2>2, PartsAgain
  <2> QED BY <2>1, <2>2
<1>6. BuiltInTurn'
  <2>1. stage' \in {"windows", "aborted"}
    BY <1>1
  <2> QED BY <1>1, <1>3, <2>1, StillInTurn DEF BuiltInTurn
<1> QED BY <1>4, <1>5, <1>6 DEF DepartInv

LEMMA CurateKeeps ==
  ASSUME BuildInv, DepartInv, Curate
  PROVE  DepartInv'
<1> DEFINE marked == ApplyMemberships(families, input.substitutes)
           seated == WithoutNeverSeated(marked, input.neverSeated)
<1>1. /\ families' = seated /\ stage = "windows" /\ stage' \in {"refused", "clip"}
      /\ UNCHANGED <<input, built, clipVars>>
  BY DEF Curate
<1>2. InputFits(input) /\ families \in Families
  BY DEF BuildInv, BuildFits
<1>3. SameRead /\ UNCHANGED <<built, work>>
  BY <1>1, ReadAgain DEF clipVars
<1>4. BuiltApart' /\ Kept(BuiltSpans)' /\ Kept(Elements(work))'
  BY <1>3, PartsAgain
<1>5. Kept(AllSpans)'
  <2>1. marked \in Families /\ Follow(SpansOf(marked), SpansOf(families))
    BY <1>2, MembershipsStay, MembershipsFollow
  <2> HIDE DEF marked
  <2>2. seated \in Families /\ Follow(SpansOf(seated), SpansOf(marked))
    BY <2>1, NeverSeatedStay, NeverSeatedFollow
  <2>3. DeparturesKept(SpansOf(marked), Elements(input.events), Attested(Elements(input.events)), ListedSpans)
    BY <1>2, <1>3, <2>1, FollowersKept DEF SameRead
  <2> HIDE DEF seated
  <2>4. ASSUME NEW fams \in Families PROVE SpansOf(fams) \in SUBSET FineSpan
    <3>1. fams[WSL] \in Seq(FineSpan) /\ fams[Roster] \in Seq(FineSpan)
      BY DEF Families, Sources
    <3> QED BY <3>1, ElementsOf DEF SpansOf
  <2>5. SpansOf(marked) \in SUBSET FineSpan /\ SpansOf(seated) \in SUBSET FineSpan
    BY <2>1, <2>2, <2>4
  <2> DEFINE E == Elements(input.events)
             X == Attested(E)
  <2>6. E \subseteq Events /\ X \subseteq Events
    BY <1>2, WSLReads DEF Attested
  <2> HIDE DEF E
  <2>7. DeparturesKept(SpansOf(marked), E, X, ListedSpans)
    BY <2>3 DEF E
  <2> HIDE DEF X
  <2>8. DeparturesKept(SpansOf(seated), E, X, ListedSpans)
    BY <2>2, <2>5, <2>6, <2>7, KeptByFollowers
  <2>9. Kept(SpansOf(seated))
    BY <2>8 DEF Kept, E, X
  <2>10. AllSpans' = SpansOf(seated)
    BY <1>1 DEF AllSpans, SpansOf
  <2> QED BY <1>3, <2>9, <2>10, KeptAgain DEF Kept
<1>6. BuiltInTurn'
  BY <1>1, <1>3, StillInTurn DEF BuiltInTurn
<1> QED BY <1>4, <1>5, <1>6 DEF DepartInv

LEMMA ClipKeeps ==
  ASSUME BuildInv, DepartInv, BeginClip \/ Clip
  PROVE  DepartInv'
<1> DEFINE E == Elements(input.events)
           X == Attested(E)
<1>1. stage = "clip" /\ UNCHANGED buildVars
  BY DEF BeginClip, Clip
<1>2. SameRead /\ UNCHANGED <<built, families, stage>>
  BY <1>1, ReadAgain DEF buildVars
<1>3. BuiltApart' /\ Kept(BuiltSpans)' /\ Kept(AllSpans)'
  BY <1>2, PartsAgain
<1>4. Kept(Elements(work))'
  <2>1. CASE BeginClip
    <3>1. work' = families[WSL] \o families[Roster]
      BY <2>1 DEF BeginClip, StartClip
    <3>2. families[WSL] \in Seq(FineSpan) /\ families[Roster] \in Seq(FineSpan)
      BY DEF BuildInv, BuildFits, Families, Sources
    <3>3. Elements(work') = AllSpans
      BY <3>1, <3>2, ConcatElements DEF AllSpans
    <3> QED BY <1>2, <3>3, KeptAgain DEF Kept, DepartInv
  <2>2. CASE Clip
    <3>1. OneNarrowed(work, work') /\ work' \in Seq(FineSpan) /\ work \in Seq(FineSpan)
      BY <2>2, ClipFits DEF BuildInv, BuildFits
    <3>2. Follow(Elements(work'), Elements(work))
      BY <3>1, ClippedFollow
    <3>3. Elements(work') \in SUBSET FineSpan /\ Elements(work) \in SUBSET FineSpan
      BY <3>1, ElementsOf
    <3>4. E \subseteq Events /\ X \subseteq Events
      BY WSLReads DEF Attested, BuildInv, BuildFits
    <3>5. DeparturesKept(Elements(work), E, X, ListedSpans)
      BY DEF DepartInv, Kept
    <3> HIDE DEF E, X
    <3>6. DeparturesKept(Elements(work'), E, X, ListedSpans)
      BY <3>2, <3>3, <3>4, <3>5, KeptByFollowers
    <3>7. Kept(Elements(work'))
      BY <3>6 DEF Kept, E, X
    <3> QED BY <1>2, <3>7, KeptAgain DEF Kept
  <2> QED BY <2>1, <2>2
<1>5. BuiltInTurn'
  BY <1>1, <1>2, StillInTurn DEF BuiltInTurn
<1> QED BY <1>3, <1>4, <1>5 DEF DepartInv

LEMMA PublishKeeps ==
  ASSUME BuildInv, DepartInv, Publish
  PROVE  DepartInv'
<1> DEFINE n == Len(families[WSL])
           first == SubSeq(work, 1, n)
           rest == SubSeq(work, n + 1, Len(work))
<1>1. /\ families' = [f \in Sources |-> IF f = WSL THEN first ELSE rest]
      /\ stage' = "published" /\ UNCHANGED <<input, built, clipVars>>
      /\ stage = "clip" /\ axis = "clipped"
  BY DEF Publish, Sources
<1>2. work \in Seq(FineSpan) /\ families[WSL] \in Seq(FineSpan) /\ families[Roster] \in Seq(FineSpan)
  BY DEF BuildInv, BuildFits, Families, Sources
<1>3. Len(work) = n + Len(families[Roster])
  BY <1>1 DEF BuildInv, ClipBegun
<1>4. n \in Nat /\ n <= Len(work)
  <2>1. n \in Nat /\ Len(families[Roster]) \in Nat
    BY <1>2
  <2> HIDE DEF n
  <2> QED BY <1>3, <2>1
<1> HIDE DEF n
<1>5. Elements(first) \cup Elements(rest) = Elements(work)
  BY <1>2, <1>4, CutElements
<1> HIDE DEF first, rest
<1>6. AllSpans' = Elements(work)
  <2>1. families'[WSL] = first /\ families'[Roster] = rest
    BY <1>1 DEF Sources, WSL, Roster
  <2> QED BY <1>5, <2>1 DEF AllSpans
<1>7. SameRead /\ UNCHANGED <<built, work>>
  BY <1>1, ReadAgain DEF clipVars
<1>8. BuiltApart' /\ Kept(BuiltSpans)' /\ Kept(Elements(work))'
  BY <1>7, PartsAgain
<1>9. Kept(AllSpans)'
  BY <1>6, <1>7, KeptAgain DEF Kept, DepartInv
<1>10. BuiltInTurn'
  BY <1>1, <1>7, StillInTurn DEF BuiltInTurn
<1> QED BY <1>8, <1>9, <1>10 DEF DepartInv

\* A step of the build keeps every departure.
LEMMA DepartStep ==
  ASSUME BuildInv, DepartInv, [Next]_vars
  PROVE  DepartInv'
<1>1. CASE RefuseHouse
  <2>1. stage = "house" /\ stage' = "refused" /\ UNCHANGED <<input, built, families, clipVars>>
    BY <1>1 DEF RefuseHouse
  <2>2. SameRead /\ UNCHANGED <<built, families, work>>
    BY <2>1, ReadAgain DEF clipVars
  <2>3. BuiltInTurn'
    BY <2>1, <2>2, StillInTurn DEF BuiltInTurn
  <2> QED BY <2>2, <2>3, PartsAgain DEF DepartInv
<1>2. CASE UNCHANGED vars
  <2>1. UNCHANGED <<input, stage, built, families, work>>
    BY <1>2 DEF vars, buildVars, clipVars
  <2>2. SameRead
    BY <2>1, ReadAgain
  <2>3. BuiltInTurn'
    BY <2>1 DEF BuiltInTurn, DepartInv, BuiltSpans, AllSpans
  <2> QED BY <2>1, <2>2, <2>3, PartsAgain DEF DepartInv
<1> QED BY <1>1, <1>2, JudgeKeeps, CommitteesKeep, HouseKeeps, MoversKeep, SponsorsKeep,
           RosterKeeps, EdgeKeeps, CurateKeeps, ClipKeeps, PublishKeeps DEF Next

\* What the invariant says of the families is the property.
LEMMA KeptDepartures == ASSUME DepartInv PROVE DeparturesHold
<1> DEFINE E == Elements(input.events)
           X == Attested(E)
<1> SUFFICES ASSUME NEW e \in E, e.kind = Departed, NEW s \in AllSpans,
                    s.mem = e.mem, s.kind # Party, s.from <= e.date, e.date < s.to
             PROVE  \/ SeatedOn(s, e.date)
                    \/ \E d \in StartsElsewhere(s) : e.date < d /\ BienniumOf(d) = s.sb
                    \/ e.date < FirstDay(s.sb) /\ BroughtForward(s)
  BY DEF DeparturesHold
<1>1. \A x : x \in X <=> x \in E /\ x.kind = Seated
  BY DEF Attested
<1>2. \A m, x : x \in SeatingsOf(m) <=> x \in X /\ x.mem = m
  BY <1>1 DEF SeatingsOf
<1>3. Explained(s, e, AllSpans, X, ListedSpans)
  BY DEF DepartInv, Kept, DeparturesKept, RunsAcross
<1> HIDE DEF E, X
<1>4. \A d : SeatedThen(X, s, d) <=> SeatedOn(s, d)
  BY <1>2 DEF SeatedThen, SeatedOn, OnSeatOf
<1>5. Marks(AllSpans) \subseteq AllSpans
  BY DEF Marks
<1>6. CASE Excused(s, e, X, ListedSpans \cup Marks(AllSpans))
  <2>1. CASE SeatedThen(X, s, e.date)
    BY <1>4, <2>1
  <2>2. CASE \E x \in X : /\ x.mem = s.mem /\ (x.seat # Seat(s) \/ s.sbasis = Derived)
                          /\ e.date < x.date /\ BienniumOf(x.date) = s.sb
    <3>1. PICK x \in X : /\ x.mem = s.mem /\ (x.seat # Seat(s) \/ s.sbasis = Derived)
                         /\ e.date < x.date /\ BienniumOf(x.date) = s.sb
      BY <2>2
    <3>2. x.date \in StartsElsewhere(s)
      BY <1>2, <3>1 DEF StartsElsewhere
    <3> QED BY <3>1, <3>2
  <2>3. CASE \E t \in ListedSpans \cup Marks(AllSpans) :
               t.mem = s.mem /\ Seat(t) # Seat(s) /\ e.date < t.from /\ BienniumOf(t.from) = s.sb
    <3>1. PICK t \in ListedSpans \cup Marks(AllSpans) :
               t.mem = s.mem /\ Seat(t) # Seat(s) /\ e.date < t.from /\ BienniumOf(t.from) = s.sb
      BY <2>3
    <3>2. t.from \in StartsElsewhere(s)
      BY <1>5, <3>1 DEF StartsElsewhere
    <3> QED BY <3>1, <3>2
  <2> QED BY <1>6, <2>1, <2>2, <2>3 DEF Excused
<1>7. CASE e.date < FirstDay(s.sb) /\ Forward(s, X, ListedSpans)
  <2>1. BroughtForward(s)
    BY <1>4, <1>7 DEF BroughtForward, Forward, SameTenure, Seat
  <2> QED BY <1>7, <2>1
<1> QED BY <1>3, <1>6, <1>7 DEF Explained

\* An attested departure ends what it must, whatever the rows, ballots, events, clauses and
\* calendar: once the overlays have run, no seat or committee of the member runs across it but
\* one he was seated on that day, came back to in its key's biennium, or whose start a clause
\* brought forward (ApplyOperatorEvents, date_mover_committees, apply_windows,
\* clip_seat_families).
THEOREM DeparturesStand == Spec => []DeparturesHold
<1>1. Init => DepartInv
  BY DepartBegins
<1>2. BuildInv /\ DepartInv /\ [Next]_vars => DepartInv'
  BY DepartStep
<1>3. DepartInv => DeparturesHold
  BY KeptDepartures
<1> QED BY <1>1, <1>2, <1>3, BuildTypeCorrect, PTL DEF Spec
=============================================================================
