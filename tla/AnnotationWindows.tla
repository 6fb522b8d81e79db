-------------------------- MODULE AnnotationWindows --------------------------
(***************************************************************************)
(* What happens to the overlaid families before the clip: the roster's     *)
(* month, year and election dates become windows on observed edges, the    *)
(* curated substitutes are marked and the never-seated rows' spans leave.  *)
(***************************************************************************)
EXTENDS TenureSpans

StartEdge == "start"
EndEdge == "end"

\* A clause of a member's roster row, bounding one edge to [first, last].
EdgeWindow(mem, disc, edge, first, last, election, beforeTerm) ==
  [mem |-> mem, disc |-> disc, edge |-> edge, first |-> first, last |-> last,
   election |-> election, beforeTerm |-> beforeTerm]

OnWindowSeat(s, w) == s.mem = w.mem /\ s.kind = Senate /\ s.disc = w.disc
StartsWith(s, w) == s.sb = BienniumOf(w.first)
StartsAfter(s, w) == ~w.election /\ s.sb - 1 = BienniumOf(w.first)
EndsWith(s, w) == s.to # Open /\ s.from <= w.last /\ w.first <= s.to

\* An observed start moves to the window's near edge; any other stands.
DateStart(s, w) ==
  LET last == Earlier(IF w.election THEN LastDay(s.sb) ELSE w.last, s.to)
  IN IF \/ s.sbasis # Observed
        \/ w.election /\ w.first <= s.from
        \/ w.first > s.to
     THEN s
     ELSE [s EXCEPT !.from = w.first, !.sbasis = Dated,
                    !.swin = IF last # w.first THEN last ELSE NoDay]

\* An observed end moves to the window's far edge.
DateEnd(s, w) ==
  LET to == Earlier(w.last, s.to)
      earliest == Later(w.first, s.from)
  IN IF s.ebasis # Observed THEN s
     ELSE [s EXCEPT !.to = to, !.ebasis = Dated,
                    !.ewin = IF earliest # to THEN earliest ELSE NoDay]

\* The spans <<source, position>> of the first rule that hits.
Hits(families, w) ==
  LET on == UNION {{<<f, i>> : i \in {j \in DOMAIN families[f] : OnWindowSeat(families[f][j], w)}} :
                     f \in DOMAIN families}
      with == {h \in on : StartsWith(families[h[1]][h[2]], w)}
      after == {h \in on : StartsAfter(families[h[1]][h[2]], w)}
  IN CASE w.edge = EndEdge -> {h \in on : EndsWith(families[h[1]][h[2]], w)}
       [] w.edge = StartEdge /\ ~w.beforeTerm /\ with # {} -> with
       [] OTHER -> after

\* apply_windows, one window: no hit or more than one leaves everything alone.
ApplyWindow(families, w) ==
  LET hits == Hits(families, w)
      h == CHOOSE x \in hits : TRUE
      dated(s) == IF w.edge = StartEdge THEN DateStart(s, w) ELSE DateEnd(s, w)
  IN IF Cardinality(hits) # 1 THEN families
     ELSE [families EXCEPT ![h[1]][h[2]] = dated(@)]

-----------------------------------------------------------------------------
SpanIdentity(source, s) == <<source, s.mem, s.kind, s.disc, s.sb>>

ApplyMemberships(families, substitutes) ==
  [f \in DOMAIN families |->
     [i \in DOMAIN families[f] |->
        IF SpanIdentity(f, families[f][i]) \in substitutes
        THEN [families[f][i] EXCEPT !.type = Substitute]
        ELSE families[f][i]]]

\* The substitute entries no built span carries: the model refuses to build on them.
UnmatchedMemberships(families, substitutes) ==
  {t \in substitutes :
     ~ \E f \in DOMAIN families : \E i \in DOMAIN families[f] :
         SpanIdentity(f, families[f][i]) = t /\ families[f][i].type = Substitute}

\* An entry names a row's seat and party spans and pins its last biennium.
NeverSeatedKeys(n) ==
  {<<n.source, n.mem, Senate, n.district, n.sb>>, <<n.source, n.mem, Party, n.party, n.sb>>}
NeverSat(entries, source, s) ==
  \E n \in entries : SpanIdentity(source, s) \in NeverSeatedKeys(n) /\ s.eb = n.eb

WithoutNeverSeated(families, entries) ==
  [f \in DOMAIN families |->
     Selected(families[f], {i \in DOMAIN families[f] : ~NeverSat(entries, f, families[f][i])})]

\* The entries that removed fewer spans than they name.
StaleNeverSeated(families, entries) ==
  LET removed == UNION {{SpanIdentity(f, families[f][i]) :
                           i \in {j \in DOMAIN families[f] : NeverSat(entries, f, families[f][j])}} :
                          f \in DOMAIN families}
  IN {n \in entries : ~(NeverSeatedKeys(n) \subseteq removed)}
=============================================================================
