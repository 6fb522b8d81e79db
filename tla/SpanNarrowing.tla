---------------------------- MODULE SpanNarrowing ----------------------------
(***************************************************************************)
(* What counterpart clipping promises: it is handed a list of spans and    *)
(* only ever narrows one edge of one chamber seat at a time, a start never *)
(* out of the biennium its key names.  What is known of the other edge it  *)
(* only clamps to the tenure that is left.                                 *)
(***************************************************************************)
EXTENDS TenureSpans

VARIABLE spans

StartStatedToTheDay(s) == s.sbasis = Dated /\ ValidFromLatest(s) = s.from
EndStatedToTheDay(s) == s.ebasis = Dated /\ ValidToEarliest(s) = s.to

\* The start moved later, or was already there, and is an inference now.
StartNarrowed(s, t) ==
  /\ ~StartStatedToTheDay(s)
  /\ s.from <= t.from /\ InBiennium(t.from, s.sb) /\ t.sbasis = Derived
  /\ t.to = s.to /\ t.ebasis = s.ebasis
  /\ ValidToEarliest(t) = Later(ValidToEarliest(s), t.from)
\* The end moved earlier, or was already there, and is an inference now.
EndNarrowed(s, t) ==
  /\ ~EndStatedToTheDay(s)
  /\ t.to <= s.to /\ t.ebasis = Derived
  /\ t.from = s.from /\ t.sbasis = s.sbasis
  /\ ValidFromLatest(t) = Earlier(ValidFromLatest(s), t.to)

\* The same tenure, of some length, with one edge narrowed.
Narrowed(s, t) ==
  /\ s.kind \in SingleHolderKinds
  /\ <<t.mem, t.kind, t.disc, t.sb, t.eb, t.type>> = <<s.mem, s.kind, s.disc, s.sb, s.eb, s.type>>
  /\ StartNarrowed(s, t) \/ EndNarrowed(s, t)
  /\ t.from < t.to

Init == spans \in Seq(Span)
Load == spans = <<>> /\ spans' \in Seq(Span)
Narrow ==
  \E i \in DOMAIN spans :
    /\ Narrowed(spans[i], spans'[i])
    /\ spans' = [spans EXCEPT ![i] = spans'[i]]
Spec == Init /\ [][Load \/ Narrow]_spans
=============================================================================
