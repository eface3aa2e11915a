------------------------ MODULE CorrespondenceProofs ------------------------
(***************************************************************************)
(* For every platform that may be asked for: nothing unvalidated leaves it, *)
(* the trace, the log and the audit trail of an execution agree with its    *)
(* model calls, and so does the row that is read off them.                  *)
(***************************************************************************)
EXTENDS Correspondence, FiniteSetTheorems, SequenceTheorems, TLAPS

-----------------------------------------------------------------------------
(* The inductive invariant.                                                 *)

Segments == {"plan", "acknowledge", "register", "correction"}
AtWork == {"plan", "select", "generate", "violated", "broken", "reply", "create", "record",
           "merge"}
Places == AtWork \union {"assemble", "refused", "failed", "raised", "trace", "returned",
                         "measured"}
Statuses == {"none", "raised", "rejected", "completed", "failed_clean", "compensated",
             "compensation_failed"}

Content == [shape : Shapes, fences : Nat, stuffed : BOOLEAN]
Named == {"offered", "none", "stray"}
CallMade == [segment : Segments, purpose : {"selection", "generation"}]
Entries == [call : Nat, purpose : {"selection", "generation"}, content : Content \union Named]
Events ==
  [kind : {"proposal", "output_contract"}, step : Segments \union {"plan-selection", "selection"},
   what : Named \union {"violation", "retry", "failed"}]
Spans ==
  [name : {"root", "call", "closing"} \union Segments, call : Nat, entry : Nat,
   parent : {"none", "root"} \union Segments]
Tracers ==
  [enabled : BOOLEAN, cursor : Nat, root : {"none", "open", "ended", "closed"},
   pending : Seq(Spans), posted : Seq(Spans)]

TypesInv ==
  /\ config \in Configs
  /\ pc \in Places /\ segment \in Segments /\ attempt \in {1, 2}
  /\ draft \in Content
  /\ calls \in Seq(CallMade) /\ counted \in Nat
  /\ log \in Seq(Entries)
  /\ trail \in Seq(Events) /\ unaudited \in Nat
  /\ recorded \in BOOLEAN /\ done \subseteq ToSet(Steps)
  /\ status \in Statuses
  /\ tracer \in Tracers

(* Where the execution can be. *)
FlowInv ==
  /\ pc \in {"assemble", "plan"} => segment = "plan" /\ calls = <<>>
  /\ pc \in (AtWork \ {"plan"}) \union {"failed"} => segment # "plan"
  /\ pc \in {"generate", "violated", "broken", "reply"} => segment # "register"
  /\ pc \in {"create", "record"} => segment = "register"
  /\ pc \in {"assemble", "plan", "select", "violated"} => attempt = 1
  /\ pc = "broken" => attempt = 2
  /\ pc \in AtWork \union {"assemble", "failed"} => status = "none"
  /\ status = "completed" => segment = "register" /\ pc \in {"trace", "returned", "measured"}
  /\ pc \notin {"assemble", "refused"} => Assembles(config)

(* What is sent on has been accepted. *)
DraftInv ==
  /\ pc = "reply" \/ segment = "register" \/ (segment = "acknowledge" /\ pc = "merge") =>
       Conforms(draft)
  /\ ~config.measurement => ~draft.stuffed

EffectsInv ==
  /\ "acknowledge" \in done \/ (segment = "acknowledge" /\ pc = "merge") =>
       \E r \in sent : r.segment = "acknowledge"
  /\ "register" \in done \/ pc = "record" \/ (segment = "register" /\ pc = "merge") => erp # {}
  /\ "register" \in done \/ (segment = "register" /\ pc = "merge") => recorded
  /\ "register" \in done => segment = "register" /\ pc \in {"trace", "returned", "measured"}

(* The books agree with the calls. *)
BooksInv ==
  /\ counted = Len(calls)
  /\ IF config.recording
     THEN Len(log) = Len(calls) /\ \A n \in DOMAIN log : log[n].call = n
     ELSE log = <<>>
  /\ tracer.enabled => tracer.cursor = Len(log)

(* What the parser saw. *)
Broken(entries) ==
  {n \in DOMAIN entries :
     entries[n].purpose = "generation" /\ ~Conforms(entries[n].content)}
Strays(entries) == {n \in DOMAIN entries : SelectionViolation(entries[n])}

InHand == IF pc \in {"violated", "broken"} THEN 1 ELSE 0
Retrying == IF attempt = 2 /\ pc \in {"generate", "broken"} THEN 1 ELSE 0

Healthy ==
  status = "completed" \/ (pc \in AtWork \union {"assemble"} /\ segment # "correction")

ChoicesMade ==
  CASE segment = "plan" -> 0
    [] segment = "acknowledge" -> IF pc = "select" THEN 0 ELSE 1
    [] OTHER -> IF pc = "select" THEN 1 ELSE 2

TruthInv ==
  /\ config.recording =>
       Cardinality(Broken(log)) =
         Contract(trail, "violation") + Contract(trail, "failed") + unaudited + InHand
  /\ Contract(trail, "failed") + Retrying <= Contract(trail, "retry")
  /\ Contract(trail, "retry") <= Contract(trail, "violation")
  /\ Healthy =>
       /\ Strays(log) = {}
       /\ unaudited = 0 /\ Contract(trail, "failed") = 0
       /\ Contract(trail, "retry") = Contract(trail, "violation")
       /\ Cardinality(SelectionsIn(trail)) = ChoicesMade
  /\ row # NoRow => pc = "measured"

(* The trace. *)
OnceIn(posted, n, parent) ==
  \E i \in DOMAIN posted :
    /\ posted[i].call = n /\ posted[i].parent = parent
    /\ \A j \in DOMAIN posted : posted[j].call = n => j = i

Rooted(posted) == \E i \in DOMAIN posted : posted[i].name = "root"

ParentsFirst(posted) ==
  \A i \in DOMAIN posted :
    \/ posted[i].parent = "none"
    \/ \E j \in 1..(i - 1) : posted[j].name = posted[i].parent

(* The first calls hang where they belong, *)
Hangs(t, before, made) ==
  /\ \A i \in DOMAIN t.posted : t.posted[i].call <= before
  /\ \A n \in 1..before : OnceIn(t.posted, n, ParentOf(made[n].segment))
  /\ t.root # "none" => Rooted(t.posted)

(* and the others wait, in order; one agent has made them all. *)
WaitsFor(t, before, made, by) ==
  /\ Len(made) = before + Len(t.pending)
  /\ \A i \in 1..Len(t.pending) :
       t.pending[i].call = before + i /\ made[before + i].segment = by

TreeInv ==
  /\ tracer.enabled =>
       /\ \E before \in Nat :
            Hangs(tracer, before, calls) /\ WaitsFor(tracer, before, calls, segment)
       /\ pc \in {"assemble", "plan"} => tracer.root = "none"
       /\ pc \in {"assemble", "plan", "trace", "returned", "measured"} =>
            tracer.pending = <<>> \/ (pc = "trace" /\ segment = "correction")
       /\ tracer.root \in {"ended", "closed"} => pc \in {"returned", "measured"}
  /\ ParentsFirst(tracer.posted)

IInv ==
  /\ TypesInv /\ FlowInv /\ DraftInv /\ EffectsInv /\ BooksInv /\ TruthInv /\ TreeInv
  /\ OnlyValidatedLeaves /\ EntryOfItsCall /\ RowTellsTruth

-----------------------------------------------------------------------------
(* The tracer: what an event adds to the trace, wherever the SDK fails.     *)

(* Requests are sent in order up to the first that fails. *)
Sent(t, u, requests) ==
  \E k \in 0..Len(requests) :
    /\ Len(u.posted) = Len(t.posted) + k
    /\ \A i \in 1..Len(t.posted) : u.posted[i] = t.posted[i]
    /\ \A i \in 1..k : u.posted[Len(t.posted) + i] = requests[i]
    /\ u.enabled => t.enabled /\ k = Len(requests)

LEMMA Joined ==
  ASSUME NEW S, NEW s1 \in Seq(S), NEW s2 \in Seq(S), NEW both, both = s1 \o s2
  PROVE  /\ both \in Seq(S) /\ Len(both) = Len(s1) + Len(s2)
         /\ Len(s1) \in Nat /\ Len(s2) \in Nat
         /\ \A i \in 1..Len(s1) : both[i] = s1[i]
         /\ \A i \in 1..Len(s2) : both[Len(s1) + i] = s2[i]
BY ConcatProperties, LenProperties

LEMMA Single ==
  ASSUME NEW S, NEW x \in S
  PROVE  <<x>> \in Seq(S) /\ Len(<<x>>) = 1 /\ <<x>>[1] = x
OBVIOUS

LEMMA PostingSends ==
  ASSUME NEW t \in Tracers, NEW requests \in Seq(Spans), NEW u \in Posting(t, requests)
  PROVE  /\ u \in Tracers
         /\ u.pending = t.pending /\ u.cursor = t.cursor /\ u.root = t.root
         /\ Sent(t, u, requests)
<1>1. t.posted \in Seq(Spans) /\ Len(requests) \in Nat /\ Len(t.posted) \in Nat
  BY LenProperties DEF Tracers
<1>2. ASSUME NEW k \in 0..Len(requests), NEW some, some = SubSeq(requests, 1, k)
      PROVE  /\ some \in Seq(Spans) /\ Len(some) = k
             /\ \A i \in 1..k : some[i] = requests[i]
  <2>1. \A i \in 1..k : requests[i] \in Spans
    BY <1>1, ElementOfSeq
  <2> QED BY <1>1, <1>2, <2>1, SubSeqProperties
<1>3. ASSUME NEW k \in 0..Len(requests), NEW some, some = SubSeq(requests, 1, k),
             NEW e \in BOOLEAN, e => t.enabled /\ k = Len(requests),
             NEW p, p = t.posted \o some, u = [t EXCEPT !.posted = p, !.enabled = e]
      PROVE  /\ u \in Tracers
             /\ u.pending = t.pending /\ u.cursor = t.cursor /\ u.root = t.root
             /\ Sent(t, u, requests)
  <2>1. /\ some \in Seq(Spans) /\ Len(some) = k
        /\ \A i \in 1..k : some[i] = requests[i]
    BY <1>2, <1>3
  <2>2. /\ p \in Seq(Spans) /\ Len(p) = Len(t.posted) + k
        /\ \A i \in 1..Len(t.posted) : p[i] = t.posted[i]
        /\ \A i \in 1..k : p[Len(t.posted) + i] = some[i]
    BY <1>1, <1>3, <2>1, ConcatProperties
  <2>3. /\ u \in Tracers /\ u.posted = p /\ u.enabled = e
        /\ u.pending = t.pending /\ u.cursor = t.cursor /\ u.root = t.root
    <3> HIDE DEF Spans
    <3> QED BY <1>3, <2>2 DEF Tracers
  <2> QED BY <1>3, <2>1, <2>2, <2>3 DEF Sent
<1>4. CASE u = [t EXCEPT !.posted = @ \o requests]
  <2>1. requests = SubSeq(requests, 1, Len(requests))
    BY SubSeqFull
  <2>2. t.enabled \in BOOLEAN
    BY DEF Tracers
  <2>3. u = [t EXCEPT !.posted = t.posted \o requests, !.enabled = t.enabled]
    <3> DEFINE p == t.posted \o requests
    <3>1. u = [t EXCEPT !.posted = p]
      BY <1>4
    <3> HIDE DEF p, Spans
    <3>2. [t EXCEPT !.posted = p] = [t EXCEPT !.posted = p, !.enabled = t.enabled]
      BY <2>2 DEF Tracers
    <3> QED BY <3>1, <3>2 DEF p
  <2>4. Len(requests) \in 0..Len(requests)
    BY <1>1
  <2> QED BY <1>3, <2>1, <2>2, <2>3, <2>4, Zenon
<1>5. ASSUME NEW k \in 1..Len(requests),
             u = [t EXCEPT !.posted = @ \o SubSeq(requests, 1, k - 1), !.enabled = FALSE]
      PROVE  /\ u \in Tracers
             /\ u.pending = t.pending /\ u.cursor = t.cursor /\ u.root = t.root
             /\ Sent(t, u, requests)
  <2>1. k - 1 \in 0..Len(requests)
    BY <1>1
  <2>2. u = [t EXCEPT !.posted = t.posted \o SubSeq(requests, 1, k - 1), !.enabled = FALSE]
    BY <1>5, Zenon
  <2>3. FALSE \in BOOLEAN
    OBVIOUS
  <2> QED BY <1>3, <2>1, <2>2, <2>3, Zenon
<1> QED BY <1>4, <1>5 DEF Posting

(* Every event sends, in this order: the root if there is none yet, a step  *)
(* (s = 1), the calls that wait, under the given parent, and the patch that *)
(* ends the root (e = 1).                                                   *)
Moved(span, parent) == [span EXCEPT !.parent = parent]

IsNew(t) == IF t.root = "none" THEN 1 ELSE 0

Requested(t, requests, s, waiting, parent, e) ==
  /\ requests \in Seq(Spans)
  /\ Len(requests) = IsNew(t) + s + Len(waiting) + e
  /\ IsNew(t) = 1 => requests[1] = RootSpan
  /\ s = 1 => requests[IsNew(t) + 1] = StepSpan(parent)
  /\ \A i \in 1..Len(waiting) :
       requests[IsNew(t) + s + i] = Moved(waiting[i], parent)
  /\ e = 1 => requests[IsNew(t) + s + Len(waiting) + 1] = Closing

Reported(t, u, s, waiting, parent, e) ==
  \E requests : Requested(t, requests, s, waiting, parent, e) /\ Sent(t, u, requests)

LEMMA SpansTyped ==
  /\ RootSpan \in Spans /\ RootSpan.call = 0 /\ RootSpan.parent = "none" /\ RootSpan.name = "root"
  /\ Closing \in Spans /\ Closing.call = 0 /\ Closing.parent = "root"
  /\ \A step \in Segments :
       /\ StepSpan(step) \in Spans /\ StepSpan(step).call = 0
       /\ StepSpan(step).parent = "root" /\ StepSpan(step).name = step
  /\ \A call, entry \in Nat :
       /\ CallSpan(call, entry) \in Spans
       /\ CallSpan(call, entry).call = call /\ CallSpan(call, entry).entry = entry
       /\ CallSpan(call, entry).parent = "root"
BY DEF RootSpan, Closing, StepSpan, CallSpan, Span, Spans, Segments

LEMMA SpanMoved ==
  ASSUME NEW span \in Spans, NEW parent \in {"none", "root"} \union Segments,
         NEW moved, moved = Moved(span, parent)
  PROVE  /\ moved \in Spans /\ moved.parent = parent
         /\ moved.call = span.call /\ moved.entry = span.entry /\ moved.name = span.name
BY DEF Spans, Moved

LEMMA RootRequested ==
  ASSUME NEW t \in Tracers
  PROVE  /\ RootIfNew(t) \in Seq(Spans) /\ Len(RootIfNew(t)) = IsNew(t)
         /\ IsNew(t) \in {0, 1}
         /\ IsNew(t) = 1 => RootIfNew(t)[1] = RootSpan
         /\ IsNew(t) = 0 => RootIfNew(t) = <<>>
<1>1. RootSpan \in Spans
  BY SpansTyped
<1> HIDE DEF Spans
<1>2. CASE t.root = "none"
  <2>1. RootIfNew(t) = <<RootSpan>> /\ IsNew(t) = 1
    BY <1>2 DEF RootIfNew, IsNew
  <2> QED BY <1>1, <2>1
<1>3. CASE t.root # "none"
  <2>1. RootIfNew(t) = <<>> /\ IsNew(t) = 0
    BY <1>3 DEF RootIfNew, IsNew
  <2> QED BY <2>1, EmptySeq
<1> QED BY <1>2, <1>3

LEMMA OpenedTracer ==
  ASSUME NEW t \in Tracers
  PROVE  /\ Opened(t) \in Tracers
         /\ Opened(t).enabled = t.enabled /\ Opened(t).cursor = t.cursor
         /\ Opened(t).pending = t.pending /\ Opened(t).posted = t.posted
         /\ Opened(t).root = IF t.root = "none" THEN "open" ELSE t.root
BY DEF Opened, Tracers

LEMMA EmptiedTracer ==
  ASSUME NEW t \in Tracers
  PROVE  /\ Emptied(t) \in Tracers /\ Emptied(t).pending = <<>>
         /\ Emptied(t).enabled = t.enabled /\ Emptied(t).cursor = t.cursor
         /\ Emptied(t).root = t.root /\ Emptied(t).posted = t.posted
<1>1. <<>> \in Seq(Spans)
  BY EmptySeq
<1> QED BY <1>1 DEF Emptied, Tracers

LEMMA ClaimedSpans ==
  ASSUME NEW t \in Tracers, NEW parent \in {"none", "root"} \union Segments
  PROVE  /\ Claimed(t, parent) \in Seq(Spans)
         /\ Len(Claimed(t, parent)) = Len(t.pending)
         /\ \A i \in 1..Len(t.pending) :
              Claimed(t, parent)[i] = Moved(t.pending[i], parent)
<1>1. /\ t.pending \in Seq(Spans) /\ DOMAIN t.pending = 1..Len(t.pending) /\ Len(t.pending) \in Nat
      /\ \A i \in 1..Len(t.pending) : t.pending[i] \in Spans
  BY LenProperties, ElementOfSeq DEF Tracers
<1>2. \A i \in 1..Len(t.pending) : Moved(t.pending[i], parent) \in Spans
  BY <1>1, SpanMoved
<1>3. Claimed(t, parent) \in [1..Len(t.pending) -> Spans]
  BY <1>1, <1>2 DEF Claimed, Moved
<1>4. Claimed(t, parent) \in Seq(Spans)
  BY <1>1, <1>3, SeqDef
<1>5. DOMAIN Claimed(t, parent) = 1..Len(Claimed(t, parent)) /\ Len(Claimed(t, parent)) \in Nat
  BY <1>4, LenProperties
<1>6. Len(Claimed(t, parent)) = Len(t.pending)
  BY <1>1, <1>3, <1>5
<1> QED BY <1>1, <1>4, <1>6 DEF Claimed, Moved

(* What a tracer with the same books posts is sent for it. *)
LEMMA SentFor ==
  ASSUME NEW t \in Tracers, NEW v \in Tracers, v.posted = t.posted, v.enabled = t.enabled,
         NEW requests \in Seq(Spans), NEW u \in Posting(v, requests)
  PROVE  /\ u \in Tracers
         /\ u.pending = v.pending /\ u.cursor = v.cursor /\ u.root = v.root
         /\ Sent(t, u, requests)
<1>1. /\ u \in Tracers
      /\ u.pending = v.pending /\ u.cursor = v.cursor /\ u.root = v.root
      /\ Sent(v, u, requests)
  BY PostingSends
<1> QED BY <1>1 DEF Sent

(* step: the root, the step, and what waits under the step. *)
LEMMA StepReported ==
  ASSUME NEW t \in Tracers, t.enabled, NEW step \in Segments, NEW u \in StepDone(t, step)
  PROVE  /\ u \in Tracers /\ u.pending = <<>> /\ u.cursor = t.cursor
         /\ u.root = IF t.root = "none" THEN "open" ELSE t.root
         /\ Reported(t, u, 1, t.pending, step, 0)
<1> DEFINE first == RootIfNew(t) \o <<StepSpan(step)>>
           rest == Claimed(t, step)
           v == Emptied(Opened(t))
<1>1. /\ v \in Tracers /\ v.pending = <<>> /\ v.enabled = t.enabled /\ v.cursor = t.cursor
      /\ v.root = (IF t.root = "none" THEN "open" ELSE t.root) /\ v.posted = t.posted
  BY OpenedTracer, EmptiedTracer, Zenon
<1>2. /\ RootIfNew(t) \in Seq(Spans) /\ Len(RootIfNew(t)) = IsNew(t) /\ IsNew(t) \in {0, 1}
      /\ IsNew(t) = 1 => RootIfNew(t)[1] = RootSpan
  BY RootRequested
<1>3. StepSpan(step) \in Spans
  BY SpansTyped
<1>4. /\ rest \in Seq(Spans) /\ Len(rest) = Len(t.pending) /\ Len(t.pending) \in Nat
      /\ \A i \in 1..Len(t.pending) : rest[i] = Moved(t.pending[i], step)
  BY ClaimedSpans, LenProperties DEF Tracers
<1>5. u \in Posting(v, first \o rest)
  BY DEF StepDone
<1> HIDE DEF v, rest, Spans, StepSpan, RootSpan
<1>6. /\ first \in Seq(Spans) /\ Len(first) = IsNew(t) + 1
      /\ IsNew(t) = 1 => first[1] = RootSpan
      /\ first[IsNew(t) + 1] = StepSpan(step)
  <2>1. <<StepSpan(step)>> \in Seq(Spans) /\ Len(<<StepSpan(step)>>) = 1
        /\ <<StepSpan(step)>>[1] = StepSpan(step)
    BY <1>3
  <2> QED BY <1>2, <2>1, ConcatProperties
<1> HIDE DEF first
<1>7. ASSUME NEW all, all = first \o rest
      PROVE  all \in Seq(Spans) /\ Requested(t, all, 1, t.pending, step, 0)
  <2>1. /\ all \in Seq(Spans) /\ Len(all) = Len(first) + Len(rest)
        /\ \A i \in 1..Len(first) : all[i] = first[i]
        /\ \A i \in 1..Len(rest) : all[Len(first) + i] = rest[i]
    <3>1. first \in Seq(Spans) /\ rest \in Seq(Spans)
      BY <1>4, <1>6
    <3> QED BY <1>7, <3>1, Joined
  <2>2. /\ Len(all) = IsNew(t) + 1 + Len(t.pending)
        /\ \A i \in 1..(IsNew(t) + 1) : all[i] = first[i]
        /\ \A i \in 1..Len(t.pending) : all[IsNew(t) + 1 + i] = rest[i]
    BY <1>2, <1>4, <1>6, <2>1
  <2> QED BY <1>2, <1>4, <1>6, <2>1, <2>2 DEF Requested
<1>8. PICK all : all = first \o rest
  OBVIOUS
<1>9. /\ u \in Tracers
      /\ u.pending = v.pending /\ u.cursor = v.cursor /\ u.root = v.root
      /\ Sent(t, u, all)
  BY <1>1, <1>5, <1>7, <1>8, SentFor
<1> QED BY <1>1, <1>7, <1>8, <1>9 DEF Reported

(* The root if there is none, what waits under the root, the closing patch. *)
LEMMA RootClosed ==
  ASSUME NEW t \in Tracers, NEW root \in {"ended", "closed"},
         NEW u \in Posting([Emptied(t) EXCEPT !.root = root],
                           RootIfNew(t) \o Claimed(t, "root") \o <<Closing>>)
  PROVE  /\ u \in Tracers /\ u.pending = <<>> /\ u.cursor = t.cursor /\ u.root = root
         /\ Reported(t, u, 0, t.pending, "root", 1)
<1> DEFINE first == RootIfNew(t) \o Claimed(t, "root")
           v == [Emptied(t) EXCEPT !.root = root]
<1>1. /\ v \in Tracers /\ v.pending = <<>> /\ v.enabled = t.enabled /\ v.cursor = t.cursor
      /\ v.root = root /\ v.posted = t.posted
  <2>1. /\ Emptied(t) \in Tracers /\ Emptied(t).pending = <<>>
        /\ Emptied(t).enabled = t.enabled /\ Emptied(t).cursor = t.cursor
        /\ Emptied(t).posted = t.posted
    BY EmptiedTracer
  <2> HIDE DEF Emptied
  <2> QED BY <2>1 DEF Tracers
<1>2. /\ RootIfNew(t) \in Seq(Spans) /\ Len(RootIfNew(t)) = IsNew(t) /\ IsNew(t) \in {0, 1}
      /\ IsNew(t) = 1 => RootIfNew(t)[1] = RootSpan
  BY RootRequested
<1>3. Closing \in Spans
  BY SpansTyped
<1>4. /\ Claimed(t, "root") \in Seq(Spans) /\ Len(Claimed(t, "root")) = Len(t.pending)
      /\ Len(t.pending) \in Nat
      /\ \A i \in 1..Len(t.pending) :
           Claimed(t, "root")[i] = Moved(t.pending[i], "root")
  BY ClaimedSpans, LenProperties DEF Tracers
<1>5. u \in Posting(v, first \o <<Closing>>)
  OBVIOUS
<1> HIDE DEF v, Spans, Closing
<1>6. /\ first \in Seq(Spans) /\ Len(first) = IsNew(t) + Len(t.pending)
      /\ IsNew(t) = 1 => first[1] = RootSpan
      /\ \A i \in 1..Len(t.pending) : first[IsNew(t) + i] = Claimed(t, "root")[i]
  BY <1>2, <1>4, ConcatProperties
<1> HIDE DEF first
<1>7. ASSUME NEW last, last = <<Closing>>, NEW all, all = first \o last
      PROVE  all \in Seq(Spans) /\ Requested(t, all, 0, t.pending, "root", 1)
  <2>1. last \in Seq(Spans) /\ Len(last) = 1 /\ last[1] = Closing
    BY <1>3, <1>7, Single
  <2>2. /\ all \in Seq(Spans) /\ Len(all) = Len(first) + Len(last)
        /\ \A i \in 1..Len(first) : all[i] = first[i]
        /\ \A i \in 1..Len(last) : all[Len(first) + i] = last[i]
    BY <1>6, <1>7, <2>1, Joined
  <2>3. /\ Len(all) = IsNew(t) + Len(t.pending) + 1
        /\ \A i \in 1..(IsNew(t) + Len(t.pending)) : all[i] = first[i]
        /\ all[IsNew(t) + Len(t.pending) + 1] = Closing
    BY <1>2, <1>4, <1>6, <2>1, <2>2
  <2>4. ASSUME NEW i \in 1..Len(t.pending)
        PROVE  all[IsNew(t) + 0 + i] = Moved(t.pending[i], "root")
    <3>1. IsNew(t) + 0 + i = IsNew(t) + i /\ IsNew(t) + i \in 1..(IsNew(t) + Len(t.pending))
      BY <1>2, <1>4
    <3> QED BY <1>4, <1>6, <2>3, <3>1
  <2>5. IsNew(t) = 1 => all[1] = RootSpan
    BY <1>4, <1>6, <2>3
  <2>6. all[IsNew(t) + 0 + Len(t.pending) + 1] = Closing
    BY <1>2, <1>4, <2>3
  <2> QED BY <1>2, <1>4, <2>2, <2>3, <2>4, <2>5, <2>6 DEF Requested
<1>8. PICK last, all : last = <<Closing>> /\ all = first \o last
  OBVIOUS
<1>9. /\ u \in Tracers
      /\ u.pending = v.pending /\ u.cursor = v.cursor /\ u.root = v.root
      /\ Sent(t, u, all)
  BY <1>1, <1>5, <1>7, <1>8, SentFor
<1> QED BY <1>1, <1>7, <1>8, <1>9 DEF Reported

(* trace and finalize_execution. *)
LEMMA TraceReported ==
  ASSUME NEW t \in Tracers, t.enabled, NEW u \in Trace(t)
  PROVE  /\ u \in Tracers /\ u.pending = <<>> /\ u.cursor = t.cursor /\ u.root = "ended"
         /\ Reported(t, u, 0, t.pending, "root", 1)
BY RootClosed DEF Trace

LEMMA FinalizeReported ==
  ASSUME NEW t \in Tracers, t.enabled, t.root # "none", NEW u \in Finalize(t)
  PROVE  /\ u \in Tracers /\ u.pending = <<>> /\ u.cursor = t.cursor /\ u.root = "closed"
         /\ Reported(t, u, 0, t.pending, "root", 1)
<1>1. RootIfNew(t) = <<>>
  BY DEF RootIfNew
<1>2. RootIfNew(t) \o Claimed(t, "root") = Claimed(t, "root")
  BY <1>1, ClaimedSpans, ConcatEmptySeq
<1>3. u \in Posting([Emptied(t) EXCEPT !.root = "closed"],
                    RootIfNew(t) \o Claimed(t, "root") \o <<Closing>>)
  BY <1>2 DEF Finalize
<1> QED BY <1>3, RootClosed

OneCall(call, entry) == <<CallSpan(call, entry)>>

(* What a call changes in the books of the tracer. *)
Advanced(t, u, entry) ==
  /\ u.cursor = IF entry = 0 THEN t.cursor ELSE entry
  /\ u.root = IF t.root = "none" THEN "open" ELSE t.root

(* model_call: the choice of the plan goes to the root at once, *)
LEMMA PlanCallReported ==
  ASSUME NEW t \in Tracers, t.enabled, NEW call \in Nat, NEW logged \in Nat,
         NEW u \in ModelCall(t, call, logged, TRUE), NEW entry, entry = NextEntry(t, logged)
  PROVE  /\ entry \in Nat
         /\ u \in Tracers /\ t.pending = u.pending /\ Advanced(t, u, entry)
         /\ Reported(t, u, 0, OneCall(call, entry), "root", 0)
<1> DEFINE v == [Opened(t) EXCEPT !.cursor = IF entry = 0 THEN @ ELSE entry]
           span == CallSpan(call, entry)
<1>1. t.cursor \in Nat /\ entry \in Nat
  BY DEF Tracers, NextEntry
<1>2. /\ v \in Tracers /\ v.pending = t.pending /\ v.enabled = t.enabled /\ v.posted = t.posted
      /\ v.cursor = (IF entry = 0 THEN t.cursor ELSE entry)
      /\ v.root = (IF t.root = "none" THEN "open" ELSE t.root)
  <2>1. /\ Opened(t) \in Tracers
        /\ Opened(t).enabled = t.enabled /\ Opened(t).cursor = t.cursor
        /\ Opened(t).pending = t.pending /\ Opened(t).posted = t.posted
        /\ Opened(t).root = IF t.root = "none" THEN "open" ELSE t.root
    BY OpenedTracer
  <2> QED BY <1>1, <2>1 DEF Tracers
<1>3. /\ RootIfNew(t) \in Seq(Spans) /\ Len(RootIfNew(t)) = IsNew(t) /\ IsNew(t) \in {0, 1}
      /\ IsNew(t) = 1 => RootIfNew(t)[1] = RootSpan
  BY RootRequested
<1>4. span \in Spans /\ Moved(span, "root") = span
  <2>1. span \in Spans /\ span.parent = "root"
    BY <1>1, SpansTyped
  <2> HIDE DEF span
  <2> QED BY <2>1 DEF Moved, Spans
<1>5. u \in Posting(v, RootIfNew(t) \o <<span>>)
  BY DEF ModelCall
<1> HIDE DEF v, span
<1>6. ASSUME NEW last, last = <<span>>, NEW all, all = RootIfNew(t) \o last
      PROVE  all \in Seq(Spans) /\ Requested(t, all, 0, OneCall(call, entry), "root", 0)
  <2>1. last \in Seq(Spans) /\ Len(last) = 1 /\ last[1] = span
    BY <1>4, <1>6, Single
  <2>2. /\ all \in Seq(Spans) /\ Len(all) = Len(RootIfNew(t)) + Len(last)
        /\ \A i \in 1..Len(RootIfNew(t)) : all[i] = RootIfNew(t)[i]
        /\ \A i \in 1..Len(last) : all[Len(RootIfNew(t)) + i] = last[i]
    <3>1. RootIfNew(t) \in Seq(Spans)
      BY <1>3
    <3> QED BY <1>6, <2>1, <3>1, Joined
  <2>3. /\ Len(all) = IsNew(t) + 1
        /\ all[IsNew(t) + 1] = span
        /\ IsNew(t) = 1 => all[1] = RootSpan
    BY <1>3, <2>1, <2>2
  <2>4. Len(OneCall(call, entry)) = 1 /\ OneCall(call, entry)[1] = span
    BY <1>4, Single, Zenon DEF OneCall, span
  <2>5. ASSUME NEW i \in 1..Len(OneCall(call, entry))
        PROVE  all[IsNew(t) + 0 + i] = Moved(OneCall(call, entry)[i], "root")
    <3>1. i = 1 /\ IsNew(t) + 0 + i = IsNew(t) + 1
      BY <1>3, <2>4
    <3>2. OneCall(call, entry)[1] = span
      BY <2>4
    <3> QED BY <1>4, <2>3, <3>1, <3>2
  <2> QED BY <1>3, <2>2, <2>3, <2>5, <2>4 DEF Requested
<1>7. PICK last, all : last = <<span>> /\ all = RootIfNew(t) \o last
  OBVIOUS
<1>8. /\ u \in Tracers
      /\ u.pending = v.pending /\ u.cursor = v.cursor /\ u.root = v.root
      /\ Sent(t, u, all)
  BY <1>2, <1>5, <1>6, <1>7, SentFor
<1>9. Reported(t, u, 0, OneCall(call, entry), "root", 0)
  BY <1>6, <1>7, <1>8 DEF Reported
<1> QED BY <1>1, <1>2, <1>8, <1>9 DEF Advanced

(* and any other call waits. *)
LEMMA CallBuffered ==
  ASSUME NEW t \in Tracers, t.enabled, NEW call \in Nat, NEW logged \in Nat,
         NEW planned \in BOOLEAN, ~planned, NEW u \in ModelCall(t, call, logged, planned),
         NEW entry, entry = NextEntry(t, logged)
  PROVE  /\ entry \in Nat
         /\ u \in Tracers /\ u.pending = Append(t.pending, CallSpan(call, entry))
         /\ u.cursor = IF entry = 0 THEN t.cursor ELSE entry
         /\ u.root = IF t.root = "none" THEN "open" ELSE t.root
         /\ Reported(t, u, 0, <<>>, "root", 0)
<1> DEFINE span == CallSpan(call, entry)
           w == [Opened(t) EXCEPT !.cursor = IF entry = 0 THEN @ ELSE entry]
           v == [w EXCEPT !.pending = Append(@, span)]
<1>1. t.cursor \in Nat /\ entry \in Nat
  BY DEF Tracers, NextEntry
<1>2. span \in Spans
  BY <1>1, SpansTyped
<1>3. /\ w \in Tracers /\ w.pending = t.pending /\ w.enabled = t.enabled /\ w.posted = t.posted
      /\ w.cursor = (IF entry = 0 THEN t.cursor ELSE entry)
      /\ w.root = (IF t.root = "none" THEN "open" ELSE t.root)
  <2>1. /\ Opened(t) \in Tracers
        /\ Opened(t).enabled = t.enabled /\ Opened(t).cursor = t.cursor
        /\ Opened(t).pending = t.pending /\ Opened(t).posted = t.posted
        /\ Opened(t).root = IF t.root = "none" THEN "open" ELSE t.root
    BY OpenedTracer
  <2> QED BY <1>1, <2>1 DEF Tracers
<1>4. u \in Posting(v, RootIfNew(t))
  BY DEF ModelCall
<1> HIDE DEF w, span
<1>5. /\ v \in Tracers /\ v.pending = Append(t.pending, span)
      /\ v.enabled = t.enabled /\ v.posted = t.posted
      /\ v.cursor = w.cursor /\ v.root = w.root
  <2>1. w.pending \in Seq(Spans)
    BY <1>3 DEF Tracers
  <2>2. Append(w.pending, span) \in Seq(Spans)
    BY <1>2, <2>1, AppendProperties
  <2> QED BY <1>3, <2>2 DEF Tracers
<1> HIDE DEF v
<1>6. /\ RootIfNew(t) \in Seq(Spans) /\ Len(RootIfNew(t)) = IsNew(t) /\ IsNew(t) \in {0, 1}
      /\ IsNew(t) = 1 => RootIfNew(t)[1] = RootSpan
  BY RootRequested
<1>7. Requested(t, RootIfNew(t), 0, <<>>, "root", 0)
  BY <1>6 DEF Requested
<1>8. /\ u \in Tracers
      /\ u.pending = v.pending /\ u.cursor = v.cursor /\ u.root = v.root
      /\ Sent(t, u, RootIfNew(t))
  BY <1>4, <1>5, <1>6, SentFor
<1>9. Reported(t, u, 0, <<>>, "root", 0)
  BY <1>7, <1>8 DEF Reported
<1> QED BY <1>1, <1>3, <1>5, <1>8, <1>9 DEF span

-----------------------------------------------------------------------------
(* What a report means for the trace.                                       *)

LEMMA RequestKinds ==
  ASSUME NEW t \in Tracers, NEW requests, NEW s \in {0, 1}, NEW e \in {0, 1},
         NEW waiting \in Seq(Spans), NEW parent,
         Requested(t, requests, s, waiting, parent, e),
         NEW m \in 1..Len(requests)
  PROVE  \/ m = 1 /\ IsNew(t) = 1 /\ requests[m] = RootSpan
         \/ s = 1 /\ m = IsNew(t) + 1 /\ requests[m] = StepSpan(parent)
         \/ \E j \in 1..Len(waiting) :
              m = IsNew(t) + s + j /\ requests[m] = Moved(waiting[j], parent)
         \/ e = 1 /\ requests[m] = Closing
<1>1. PICK a : a = IsNew(t)
  OBVIOUS
<1>2. PICK n : n = Len(waiting)
  OBVIOUS
<1>3. a \in {0, 1} /\ n \in Nat
  BY <1>1, <1>2, LenProperties DEF IsNew
<1>4. /\ Len(requests) = a + s + n + e
      /\ a = 1 => requests[1] = RootSpan
      /\ s = 1 => requests[a + 1] = StepSpan(parent)
      /\ \A j \in 1..n : requests[a + s + j] = Moved(waiting[j], parent)
      /\ e = 1 => requests[a + s + n + 1] = Closing
  BY <1>1, <1>2, Zenon DEF Requested
<1>5. m \in Nat /\ m >= 1 /\ m <= a + s + n + e
  BY <1>3, <1>4
<1>6. CASE m <= a
  <2>1. m = 1 /\ a = 1
    BY <1>3, <1>5, <1>6
  <2> QED BY <1>1, <1>4, <2>1, Zenon
<1>7. CASE m > a /\ m <= a + s
  <2>1. s = 1 /\ m = a + 1
    BY <1>3, <1>5, <1>7
  <2> QED BY <1>1, <1>4, <2>1, Zenon
<1>8. CASE m > a + s /\ m <= a + s + n
  <2>1. PICK j \in 1..n : m = a + s + j
    <3>1. m - (a + s) \in 1..n /\ m = a + s + (m - (a + s))
      BY <1>3, <1>5, <1>8
    <3> QED BY <3>1
  <2> QED BY <1>1, <1>2, <1>4, <2>1, Zenon
<1>9. CASE m > a + s + n
  <2>1. e = 1 /\ m = a + s + n + 1
    BY <1>3, <1>5, <1>9
  <2> QED BY <1>4, <2>1, Zenon
<1> QED BY <1>3, <1>5, <1>6, <1>7, <1>8, <1>9

(* Every span is an earlier one, no model call, or one that waited. *)
LEMMA ReportedSpans ==
  ASSUME NEW t \in Tracers, NEW u \in Tracers, NEW s \in {0, 1}, NEW e \in {0, 1},
         NEW waiting \in Seq(Spans), NEW parent \in {"root"} \union Segments,
         s = 1 => parent \in Segments,
         Reported(t, u, s, waiting, parent, e)
  PROVE  /\ \A i \in DOMAIN t.posted : i \in DOMAIN u.posted /\ u.posted[i] = t.posted[i]
         /\ \A i \in DOMAIN u.posted :
              \/ i \in DOMAIN t.posted /\ u.posted[i] = t.posted[i]
              \/ u.posted[i].call = 0
              \/ \E j \in 1..Len(waiting) :
                   /\ u.posted[i] = Moved(waiting[j], parent)
                   /\ i = Len(t.posted) + IsNew(t) + s + j
<1>1. PICK requests : Requested(t, requests, s, waiting, parent, e) /\ Sent(t, u, requests)
  BY DEF Reported
<1>2. PICK k \in 0..Len(requests) :
        /\ Len(u.posted) = Len(t.posted) + k
        /\ \A i \in 1..Len(t.posted) : u.posted[i] = t.posted[i]
        /\ \A i \in 1..k : u.posted[Len(t.posted) + i] = requests[i]
  BY <1>1, Zenon DEF Sent
<1>3. /\ DOMAIN u.posted = 1..Len(u.posted) /\ DOMAIN t.posted = 1..Len(t.posted)
      /\ Len(t.posted) \in Nat /\ Len(requests) \in Nat
  <2>1. t.posted \in Seq(Spans) /\ u.posted \in Seq(Spans) /\ requests \in Seq(Spans)
    BY <1>1 DEF Tracers, Requested
  <2> QED BY <2>1, LenProperties
<1>4. /\ RootSpan.call = 0 /\ Closing.call = 0
      /\ s = 1 => StepSpan(parent).call = 0
  BY SpansTyped
<1>5. \A i \in DOMAIN t.posted : i \in DOMAIN u.posted /\ u.posted[i] = t.posted[i]
  BY <1>2, <1>3
<1>6. ASSUME NEW i \in DOMAIN u.posted, i \notin DOMAIN t.posted
      PROVE  \/ u.posted[i].call = 0
             \/ \E j \in 1..Len(waiting) :
                  /\ u.posted[i] = Moved(waiting[j], parent)
                  /\ i = Len(t.posted) + IsNew(t) + s + j
  <2>1. PICK m \in 1..k : i = Len(t.posted) + m
    <3>1. i - Len(t.posted) \in 1..k /\ i = Len(t.posted) + (i - Len(t.posted))
      BY <1>2, <1>3, <1>6
    <3> QED BY <3>1
  <2>2. m \in 1..Len(requests)
    BY <1>3
  <2>3. u.posted[i] = requests[m]
    BY <1>2, <2>1
  <2>4. \/ m = 1 /\ IsNew(t) = 1 /\ requests[m] = RootSpan
        \/ s = 1 /\ m = IsNew(t) + 1 /\ requests[m] = StepSpan(parent)
        \/ \E j \in 1..Len(waiting) :
             m = IsNew(t) + s + j /\ requests[m] = Moved(waiting[j], parent)
        \/ e = 1 /\ requests[m] = Closing
    BY <1>1, <2>2, RequestKinds
  <2>5. ASSUME NEW j \in 1..Len(waiting), m = IsNew(t) + s + j
        PROVE  i = Len(t.posted) + IsNew(t) + s + j
    <3>1. IsNew(t) \in Nat /\ j \in Nat /\ s \in Nat
      BY LenProperties DEF IsNew
    <3> QED BY <1>3, <2>1, <2>5, <3>1
  <2> QED BY <1>4, <2>3, <2>4, <2>5, Zenon
<1> QED BY <1>5, <1>6

(* Unless the SDK has failed, all that waited has arrived, and the root.    *)
LEMMA ReportedArrives ==
  ASSUME NEW t \in Tracers, NEW u \in Tracers, NEW s \in {0, 1}, NEW e \in {0, 1},
         NEW waiting \in Seq(Spans), NEW parent \in {"root"} \union Segments,
         Reported(t, u, s, waiting, parent, e), u.enabled
  PROVE  /\ \A j \in 1..Len(waiting) :
              /\ Len(t.posted) + IsNew(t) + s + j \in DOMAIN u.posted
              /\ u.posted[Len(t.posted) + IsNew(t) + s + j] = Moved(waiting[j], parent)
         /\ t.root = "none" => Rooted(u.posted)
<1>1. PICK requests : Requested(t, requests, s, waiting, parent, e) /\ Sent(t, u, requests)
  BY DEF Reported
<1>2. /\ Len(u.posted) = Len(t.posted) + Len(requests)
      /\ \A i \in 1..Len(requests) : u.posted[Len(t.posted) + i] = requests[i]
  BY <1>1, Zenon DEF Sent
<1>3. /\ DOMAIN u.posted = 1..Len(u.posted)
      /\ Len(t.posted) \in Nat /\ Len(requests) \in Nat /\ Len(waiting) \in Nat
  <2>1. t.posted \in Seq(Spans) /\ u.posted \in Seq(Spans) /\ requests \in Seq(Spans)
    BY <1>1 DEF Tracers, Requested
  <2> QED BY <2>1, LenProperties
<1>4. /\ Len(requests) = IsNew(t) + s + Len(waiting) + e
      /\ IsNew(t) = 1 => requests[1] = RootSpan
      /\ \A j \in 1..Len(waiting) : requests[IsNew(t) + s + j] = Moved(waiting[j], parent)
  BY <1>1, Zenon DEF Requested
<1>5. IsNew(t) \in {0, 1} /\ (t.root = "none" => IsNew(t) = 1)
  BY DEF IsNew
<1>6. ASSUME NEW j \in 1..Len(waiting)
      PROVE  /\ Len(t.posted) + IsNew(t) + s + j \in DOMAIN u.posted
             /\ u.posted[Len(t.posted) + IsNew(t) + s + j] = Moved(waiting[j], parent)
  <2>1. IsNew(t) + s + j \in 1..Len(requests)
    BY <1>3, <1>4, <1>5
  <2>2. Len(t.posted) + (IsNew(t) + s + j) = Len(t.posted) + IsNew(t) + s + j
    BY <1>3, <1>5
  <2>3. Len(t.posted) + IsNew(t) + s + j \in DOMAIN u.posted
    BY <1>2, <1>3, <2>1, <2>2
  <2>4. u.posted[Len(t.posted) + (IsNew(t) + s + j)] = Moved(waiting[j], parent)
    BY <1>2, <1>4, <2>1, Zenon
  <2> QED BY <2>2, <2>3, <2>4, Zenon
<1>7. ASSUME t.root = "none" PROVE Rooted(u.posted)
  <2>1. 1 \in 1..Len(requests) /\ requests[1] = RootSpan
    BY <1>3, <1>4, <1>5, <1>7
  <2>2. Len(t.posted) + 1 \in DOMAIN u.posted /\ u.posted[Len(t.posted) + 1] = RootSpan
    BY <1>2, <1>3, <2>1
  <2> QED BY <2>2, SpansTyped, Zenon DEF Rooted
<1> QED BY <1>6, <1>7

(* What was there once is there once, and so is now each call that waited.  *)
HangOnce(t, u, waiting, before, parent) ==
  /\ \A i \in DOMAIN u.posted : u.posted[i].call <= before + Len(waiting)
  /\ \A n \in 1..before : \A q : OnceIn(t.posted, n, q) => OnceIn(u.posted, n, q)
  /\ \A j \in 1..Len(waiting) : OnceIn(u.posted, before + j, parent)

LEMMA ReportedOnce ==
  ASSUME NEW t \in Tracers, NEW u \in Tracers, NEW s \in {0, 1}, NEW e \in {0, 1},
         NEW waiting \in Seq(Spans), NEW parent \in {"root"} \union Segments,
         s = 1 => parent \in Segments,
         Reported(t, u, s, waiting, parent, e), u.enabled,
         NEW before \in Nat,
         \A i \in DOMAIN t.posted : t.posted[i].call <= before,
         \A j \in 1..Len(waiting) : waiting[j].call = before + j
  PROVE  HangOnce(t, u, waiting, before, parent)
<1> DEFINE at(j) == Len(t.posted) + IsNew(t) + s + j
<1>1. /\ Len(waiting) \in Nat /\ Len(t.posted) \in Nat /\ IsNew(t) \in {0, 1}
      /\ \A j \in 1..Len(waiting) : waiting[j] \in Spans
  BY LenProperties, ElementOfSeq DEF IsNew, Tracers
<1>2. \A j \in 1..Len(waiting) :
        /\ Moved(waiting[j], parent).call = before + j
        /\ Moved(waiting[j], parent).parent = parent
  BY <1>1, SpanMoved
<1>3. /\ \A i \in DOMAIN t.posted : i \in DOMAIN u.posted /\ u.posted[i] = t.posted[i]
      /\ \A i \in DOMAIN u.posted :
           \/ i \in DOMAIN t.posted /\ u.posted[i] = t.posted[i]
           \/ u.posted[i].call = 0
           \/ \E j \in 1..Len(waiting) :
                /\ u.posted[i] = Moved(waiting[j], parent)
                /\ i = at(j)
  BY ReportedSpans
<1>4. \A j \in 1..Len(waiting) :
        at(j) \in DOMAIN u.posted /\ u.posted[at(j)] = Moved(waiting[j], parent)
  <2>1. u.enabled /\ Reported(t, u, s, waiting, parent, e)
    OBVIOUS
  <2> QED BY ONLY <2>1, ReportedArrives, t \in Tracers, u \in Tracers, s \in {0, 1},
                  e \in {0, 1}, waiting \in Seq(Spans), parent \in {"root"} \union Segments
<1>5. \A i, j \in 1..Len(waiting) : at(i) = at(j) <=> i = j
  BY <1>1
<1> HIDE DEF at
<1>6. \A i \in DOMAIN u.posted :
        \/ i \in DOMAIN t.posted /\ u.posted[i] = t.posted[i] /\ u.posted[i].call <= before
        \/ u.posted[i].call = 0
        \/ \E j \in 1..Len(waiting) : u.posted[i].call = before + j /\ i = at(j)
  BY <1>2, <1>3, Zenon
<1>7. \A i \in DOMAIN u.posted : u.posted[i].call <= before + Len(waiting)
  <2> SUFFICES ASSUME NEW i \in DOMAIN u.posted
               PROVE  u.posted[i].call <= before + Len(waiting)
    OBVIOUS
  <2>1. u.posted[i].call \in Nat
    <3>1. u.posted \in Seq(Spans)
      BY DEF Tracers
    <3>2. u.posted[i] \in Spans
      BY <3>1, ElementOfSeq, LenProperties
    <3> QED BY <3>2 DEF Spans
  <2> QED BY <1>1, <1>6, <2>1
<1>8. ASSUME NEW n \in 1..before, NEW q, OnceIn(t.posted, n, q)
      PROVE  OnceIn(u.posted, n, q)
  <2>1. PICK i \in DOMAIN t.posted :
          /\ t.posted[i].call = n /\ t.posted[i].parent = q
          /\ \A j \in DOMAIN t.posted : t.posted[j].call = n => j = i
    BY <1>8, Zenon DEF OnceIn
  <2>2. i \in DOMAIN u.posted /\ u.posted[i].call = n /\ u.posted[i].parent = q
    BY <1>3, <2>1
  <2>3. ASSUME NEW j \in DOMAIN u.posted, u.posted[j].call = n PROVE j = i
    <3>1. n # 0 /\ \A m \in 1..Len(waiting) : n # before + m
      BY <1>1
    <3>2. j \in DOMAIN t.posted /\ u.posted[j] = t.posted[j]
      BY <1>6, <2>3, <3>1
    <3> QED BY <2>1, <2>3, <3>2
  <2> QED BY <2>2, <2>3, Zenon DEF OnceIn
<1>9. ASSUME NEW j \in 1..Len(waiting) PROVE OnceIn(u.posted, before + j, parent)
  <2>1. /\ at(j) \in DOMAIN u.posted /\ u.posted[at(j)].call = before + j
        /\ u.posted[at(j)].parent = parent
    BY <1>2, <1>4, Zenon
  <2>2. ASSUME NEW i \in DOMAIN u.posted, u.posted[i].call = before + j PROVE i = at(j)
    <3>1. before + j # 0 /\ ~(before + j <= before)
      BY <1>1
    <3>2. PICK m \in 1..Len(waiting) : u.posted[i].call = before + m /\ i = at(m)
      BY <1>6, <2>2, <3>1
    <3>3. m = j
      BY <1>1, <2>2, <3>2
    <3> QED BY <3>2, <3>3
  <2> QED BY <2>1, <2>2, Zenon DEF OnceIn
<1> QED BY <1>7, <1>8, <1>9, Zenon DEF HangOnce

(* No span arrives before its parent. *)
LEMMA ReportedInOrder ==
  ASSUME NEW t \in Tracers, NEW u \in Tracers, NEW s \in {0, 1}, NEW e \in {0, 1},
         NEW waiting \in Seq(Spans), NEW parent \in {"root"} \union Segments,
         IF s = 1 THEN parent \in Segments ELSE parent = "root",
         Reported(t, u, s, waiting, parent, e),
         ParentsFirst(t.posted), t.root # "none" => Rooted(t.posted)
  PROVE  ParentsFirst(u.posted)
<1>1. PICK requests : Requested(t, requests, s, waiting, parent, e) /\ Sent(t, u, requests)
  BY DEF Reported
<1>2. PICK k \in 0..Len(requests) :
        /\ Len(u.posted) = Len(t.posted) + k
        /\ \A i \in 1..Len(t.posted) : u.posted[i] = t.posted[i]
        /\ \A i \in 1..k : u.posted[Len(t.posted) + i] = requests[i]
  BY <1>1, Zenon DEF Sent
<1>3. /\ DOMAIN u.posted = 1..Len(u.posted) /\ DOMAIN t.posted = 1..Len(t.posted)
      /\ Len(t.posted) \in Nat /\ Len(requests) \in Nat /\ Len(waiting) \in Nat
      /\ IsNew(t) \in {0, 1} /\ (IsNew(t) = 0 => t.root # "none")
      /\ \A j \in 1..Len(waiting) : waiting[j] \in Spans
  <2>1. t.posted \in Seq(Spans) /\ u.posted \in Seq(Spans) /\ requests \in Seq(Spans)
    BY <1>1 DEF Tracers, Requested
  <2> QED BY <2>1, LenProperties, ElementOfSeq DEF IsNew
<1>4. /\ RootSpan.parent = "none" /\ RootSpan.name = "root" /\ Closing.parent = "root"
      /\ s = 1 => StepSpan(parent).parent = "root" /\ StepSpan(parent).name = parent
      /\ \A j \in 1..Len(waiting) : Moved(waiting[j], parent).parent = parent
  <2>1. parent \in {"none", "root"} \union Segments /\ (s = 1 => parent \in Segments)
    OBVIOUS
  <2>2. \A j \in 1..Len(waiting) : Moved(waiting[j], parent).parent = parent
    BY <1>3, <2>1, SpanMoved
  <2> QED BY <2>1, <2>2, SpansTyped, Zenon
<1>5. /\ IsNew(t) = 1 => requests[1] = RootSpan
      /\ s = 1 => requests[IsNew(t) + 1] = StepSpan(parent)
  BY <1>1, Zenon DEF Requested
<1>6. ASSUME NEW i \in DOMAIN u.posted, i \in DOMAIN t.posted
      PROVE  \/ u.posted[i].parent = "none"
             \/ \E j \in 1..(i - 1) : u.posted[j].name = u.posted[i].parent
  <2>1. \A j \in 1..i : u.posted[j] = t.posted[j]
    BY <1>2, <1>3, <1>6
  <2>2. i \in 1..i /\ 1..(i - 1) \subseteq 1..i
    BY <1>3, <1>6
  <2>3. \/ t.posted[i].parent = "none"
        \/ \E j \in 1..(i - 1) : t.posted[j].name = t.posted[i].parent
    BY <1>6, Zenon DEF ParentsFirst
  <2> QED BY <2>1, <2>2, <2>3, Zenon
<1>7. ASSUME NEW i \in DOMAIN u.posted, i \notin DOMAIN t.posted
      PROVE  \/ u.posted[i].parent = "none"
             \/ \E j \in 1..(i - 1) : u.posted[j].name = u.posted[i].parent
  <2>1. PICK m \in 1..k : i = Len(t.posted) + m
    <3>1. i - Len(t.posted) \in 1..k /\ i = Len(t.posted) + (i - Len(t.posted))
      BY <1>2, <1>3, <1>7
    <3> QED BY <3>1
  <2>2. m \in 1..Len(requests) /\ m \in Nat
    BY <1>3
  <2>3. u.posted[i] = requests[m]
    BY <1>2, <2>1
  <2>4. \/ m = 1 /\ IsNew(t) = 1 /\ requests[m] = RootSpan
        \/ s = 1 /\ m = IsNew(t) + 1 /\ requests[m] = StepSpan(parent)
        \/ \E j \in 1..Len(waiting) :
             m = IsNew(t) + s + j /\ requests[m] = Moved(waiting[j], parent)
        \/ e = 1 /\ requests[m] = Closing
    BY <1>1, <2>2, RequestKinds
  \* The root is there, unless it is just this request.
  <2>5. m > IsNew(t) => \E j \in 1..(i - 1) : u.posted[j].name = "root"
    <3>1. CASE IsNew(t) = 0
      <4>1. PICK j \in DOMAIN t.posted : t.posted[j].name = "root"
        BY <1>3, <3>1, Zenon DEF Rooted
      <4>2. j \in 1..(i - 1) /\ u.posted[j] = t.posted[j]
        BY <1>2, <1>3, <2>1, <2>2
      <4> QED BY <4>1, <4>2
    <3>2. CASE IsNew(t) = 1 /\ m > 1
      <4>1. u.posted[Len(t.posted) + 1] = requests[1] /\ requests[1] = RootSpan
        BY <1>2, <1>3, <1>5, <2>1, <2>2, <3>2
      <4>2. Len(t.posted) + 1 \in 1..(i - 1)
        BY <1>3, <2>1, <2>2, <3>2
      <4> QED BY <1>4, <4>1, <4>2
    <3> QED BY <1>3, <3>1, <3>2
  <2>6. CASE m = 1 /\ IsNew(t) = 1 /\ requests[m] = RootSpan
    BY <1>4, <2>3, <2>6
  <2>7. CASE s = 1 /\ m = IsNew(t) + 1 /\ requests[m] = StepSpan(parent)
    <3>1. m > IsNew(t)
      BY <1>3, <2>7
    <3> QED BY <1>4, <2>3, <2>5, <2>7, <3>1
  <2>8. ASSUME NEW j \in 1..Len(waiting), m = IsNew(t) + s + j,
               requests[m] = Moved(waiting[j], parent)
        PROVE  \E l \in 1..(i - 1) : u.posted[l].name = u.posted[i].parent
    <3>1. u.posted[i].parent = parent
      BY <1>4, <2>3, <2>8
    <3>2. m > IsNew(t) /\ (s = 1 => m > IsNew(t) + 1)
      BY <1>3, <2>8
    <3>3. CASE s = 0
      BY <2>5, <3>1, <3>2, <3>3
    <3>4. CASE s = 1
      <4>1. IsNew(t) + 1 \in 1..k /\ Len(t.posted) + (IsNew(t) + 1) \in 1..(i - 1)
        BY <1>3, <2>1, <2>2, <3>2, <3>4
      <4>2. u.posted[Len(t.posted) + (IsNew(t) + 1)] = StepSpan(parent)
        BY <1>2, <1>5, <3>4, <4>1, Zenon
      <4> QED BY <1>4, <3>1, <3>4, <4>1, <4>2, Zenon
    <3> QED BY <3>3, <3>4
  <2>9. CASE e = 1 /\ requests[m] = Closing
    <3>1. m > IsNew(t) \/ u.posted[i] = RootSpan
      <4>1. CASE m <= IsNew(t)
        <5>1. m = 1 /\ IsNew(t) = 1
          BY <1>3, <2>2, <4>1
        <5> QED BY <1>3, <1>5, <2>2, <2>3, <5>1
      <4> QED BY <1>3, <2>2, <4>1
    <3> QED BY <1>4, <2>3, <2>5, <2>9, <3>1
  <2> QED BY <2>4, <2>6, <2>7, <2>8, <2>9, Zenon
<1> QED BY <1>6, <1>7, Zenon DEF ParentsFirst

-----------------------------------------------------------------------------
(* Types.                                                                   *)

LEMMA Platform ==
  ASSUME config \in Configs
  PROVE  /\ config \in Config /\ config.tool.writes
         /\ config.measurement \in BOOLEAN /\ config.recording \in BOOLEAN
         /\ config.tracing \in BOOLEAN
<1>1. config \in Config /\ config.tool.writes
  BY ConfigsAssumption
<1> QED BY <1>1 DEF Config

LEMMA AnswersTyped ==
  ASSUME NEW provider, NEW schema, NEW correction,
         NEW answer \in Answers(provider, schema, correction)
  PROVE  answer \in Content /\ ~answer.stuffed
<1>1. ASSUME NEW shape \in Shapes, NEW c, c = Plain(shape) \/ c = Fenced(Plain(shape))
      PROVE  c \in Content /\ ~c.stuffed
  <2>1. Plain(shape) \in [shape : Shapes, fences : Nat, stuffed : {FALSE}]
    BY DEF Plain
  <2>2. Fenced(Plain(shape)) \in [shape : Shapes, fences : Nat, stuffed : {FALSE}]
    <3>1. PICK p : p = Plain(shape)
      OBVIOUS
    <3>2. p \in [shape : Shapes, fences : Nat, stuffed : {FALSE}]
      BY <2>1, <3>1
    <3>3. Fenced(p) \in [shape : Shapes, fences : Nat, stuffed : {FALSE}]
      <4>1. PICK n : n = p.fences + 1
        OBVIOUS
      <4>2. n \in Nat
        BY <3>2, <4>1
      <4>3. Fenced(p) = [p EXCEPT !.fences = n]
        BY <4>1 DEF Fenced
      <4> QED BY <3>2, <4>2, <4>3
    <3> QED BY <3>1, <3>3
  <2> QED BY <1>1, <2>1, <2>2 DEF Content
<1>2. answer \in Spoken \/ answer = Plain("prose") \/ answer = Plain("valid")
  BY DEF Answers, LocalText
<1>3. "prose" \in Shapes /\ "valid" \in Shapes
  BY DEF Shapes
<1> QED BY <1>1, <1>2, <1>3 DEF Spoken

LEMMA DecoratedTyped ==
  ASSUME NEW c, NEW answer \in Content
  PROVE  /\ Decorated(c, answer) \in Content
         /\ c.flags = {} => Decorated(c, answer) = answer
<1>1. ASSUME NEW layer \in {"fault", "tolerant", "extractor"}, NEW a \in Content
      PROVE  Applied(c, layer, a) \in Content
  <2>1. Fault(a) \in Content
    BY DEF Fault, Fenced, Content
  <2>2. Tolerate(a) \in Content
    BY DEF Tolerate, Content, Shapes
  <2>3. Extract(a) \in Content
    <3>1. a.fences > 0 => a.fences - 1 \in Nat
      BY DEF Content
    <3> QED BY <3>1 DEF Extract, Content
  <2>4. Through(layer, a) \in {Fault(a), Tolerate(a), Extract(a)}
    BY DEF Through
  <2> QED BY <2>1, <2>2, <2>3, <2>4 DEF Applied
<1>2. Decorated(c, answer) \in Content
  BY <1>1 DEF Decorated
<1>3. c.flags = {} => Decorated(c, answer) = answer
  BY DEF Decorated, Applied
<1> QED BY <1>2, <1>3

LEMMA TracerTyped ==
  ASSUME NEW t \in Tracers
  PROVE  /\ \A call, logged \in Nat : \A plan \in BOOLEAN :
              ModelCall(t, call, logged, plan) \subseteq Tracers
         /\ \A step \in Segments : StepDone(t, step) \subseteq Tracers
         /\ Trace(t) \subseteq Tracers
         /\ Finalize(t) \subseteq Tracers
<1>1. ASSUME NEW call \in Nat, NEW logged \in Nat, NEW plan \in BOOLEAN,
             NEW u \in ModelCall(t, call, logged, plan)
      PROVE  u \in Tracers
  <2>1. CASE ~t.enabled
    BY <1>1, <2>1 DEF ModelCall
  <2>2. CASE t.enabled /\ plan
    BY <1>1, <2>2, PlanCallReported
  <2>3. CASE t.enabled /\ ~plan
    BY <1>1, <2>3, CallBuffered
  <2> QED BY <2>1, <2>2, <2>3
<1>2. ASSUME NEW step \in Segments, NEW u \in StepDone(t, step) PROVE u \in Tracers
  BY <1>2, StepReported DEF StepDone
<1>3. ASSUME NEW u \in Trace(t) PROVE u \in Tracers
  BY <1>3, TraceReported DEF Trace
<1>4. ASSUME NEW u \in Finalize(t) PROVE u \in Tracers
  BY <1>4, FinalizeReported DEF Finalize
<1> QED BY <1>1, <1>2, <1>3, <1>4

(* What a call that returns leaves behind. *)
LEMMA CallTyped ==
  ASSUME TypesInv, pc \in AtWork, NEW content, content \in Content \union Named,
         CallReturns(content)
  PROVE  /\ calls' \in Seq(CallMade) /\ log' \in Seq(Entries) /\ counted' \in Nat
         /\ tracer' \in Tracers /\ Len(calls') \in Nat /\ Len(log') \in Nat
         /\ Len(calls') = Len(calls) + 1
         /\ \A n \in 1..Len(calls) : calls'[n] = calls[n]
         /\ calls'[Len(calls) + 1].segment = segment
         /\ IF config.recording
            THEN /\ Len(log') = Len(log) + 1
                 /\ \A n \in 1..Len(log) : log'[n] = log[n]
                 /\ log'[Len(log) + 1] =
                      [call |-> Len(calls'), purpose |-> Purpose, content |-> content]
            ELSE log' = log
<1> DEFINE made == [segment |-> segment, purpose |-> Purpose]
           entry == [call |-> Len(calls'), purpose |-> Purpose, content |-> content]
<1>1. /\ calls \in Seq(CallMade) /\ log \in Seq(Entries) /\ Len(calls) \in Nat
      /\ Len(log) \in Nat /\ counted \in Nat /\ tracer \in Tracers /\ segment \in Segments
  BY LenProperties DEF TypesInv
<1>2. Purpose \in {"selection", "generation"}
  BY DEF Purpose
<1>3. made \in CallMade /\ made.segment = segment
  BY <1>1, <1>2 DEF CallMade
<1>4. calls' = Append(calls, made)
  BY DEF CallReturns
<1> HIDE DEF made
<1>5. /\ calls' \in Seq(CallMade) /\ Len(calls') = Len(calls) + 1
      /\ \A n \in 1..Len(calls) : calls'[n] = calls[n]
      /\ calls'[Len(calls) + 1] = made
  BY <1>1, <1>3, <1>4, AppendProperties
<1>6. entry \in Entries
  BY <1>1, <1>2, <1>5 DEF Entries
<1>7. log' = IF config.recording THEN Append(log, entry) ELSE log
  BY DEF CallReturns, Logged
<1> HIDE DEF entry
<1>8. /\ log' \in Seq(Entries)
      /\ IF config.recording
         THEN /\ Len(log') = Len(log) + 1
              /\ \A n \in 1..Len(log) : log'[n] = log[n]
              /\ log'[Len(log) + 1] = entry
         ELSE log' = log
  BY <1>1, <1>6, <1>7, AppendProperties
<1>9. Len(log') \in Nat /\ Len(calls') \in Nat
  BY <1>5, <1>8, LenProperties
<1>10. (pc = "plan") \in BOOLEAN
  OBVIOUS
<1>11. tracer' \in ModelCall(tracer, Len(calls'), Len(log'), pc = "plan")
  BY DEF CallReturns
<1>12. tracer' \in Tracers
  BY <1>1, <1>9, <1>10, <1>11, TracerTyped, Zenon
<1>13. counted' \in Nat
  BY <1>1 DEF CallReturns
<1> QED BY <1>3, <1>5, <1>8, <1>9, <1>12, <1>13 DEF entry

LEMMA Steps12 == ToSet(Steps) = {"acknowledge", "register"}
<1>1. DOMAIN Steps = {1, 2}
  BY DEF Steps
<1> QED BY <1>1 DEF Steps, ToSet

LEMMA TrailTyped ==
  ASSUME TypesInv
  PROVE  /\ \A e \in Events : Append(trail, e) \in Seq(Events)
         /\ \A e, f \in Events : trail \o <<e, f>> \in Seq(Events)
<1>1. trail \in Seq(Events)
  BY DEF TypesInv
<1>2. \A e \in Events : Append(trail, e) \in Seq(Events)
  BY <1>1, AppendProperties
<1>3. ASSUME NEW e \in Events, NEW f \in Events PROVE trail \o <<e, f>> \in Seq(Events)
  <2>1. PICK pair : pair = <<e, f>>
    OBVIOUS
  <2>2. pair \in Seq(Events)
    BY <2>1
  <2> QED BY <1>1, <2>1, <2>2, ConcatProperties
<1> QED BY <1>2, <1>3

LEMMA EventsTyped ==
  /\ \A chosen \in Named :
       Proposal("plan-selection", chosen) \in Events /\ Proposal("selection", chosen) \in Events
  /\ segment \in Segments =>
       \A action \in {"violation", "retry", "failed"} : ContractEvent(action) \in Events
BY DEF Proposal, ContractEvent, Events

LEMMA PicksNamed == Picks \subseteq Named
BY DEF Picks, Named

LEMMA TypesStart == Init => TypesInv
<1> SUFFICES ASSUME Init PROVE TypesInv
  OBVIOUS
<1>1. draft \in Content
  BY DEF Init, Plain, Content, Shapes
<1>2. tracer \in Tracers
  <2>1. <<>> \in Seq(Spans)
    BY EmptySeq
  <2>2. config.tracing \in BOOLEAN
    BY Platform DEF Init
  <2> QED BY <2>1, <2>2 DEF Init, NewTracer, Tracers
<1>3. <<>> \in Seq(CallMade) /\ <<>> \in Seq(Entries) /\ <<>> \in Seq(Events)
  BY EmptySeq
<1> QED BY <1>1, <1>2, <1>3
     DEF Init, TypesInv, Places, AtWork, Segments, Statuses

LEMMA TypesStep == TypesInv /\ [Next]_vars => TypesInv'
<1> SUFFICES ASSUME TypesInv, [Next]_vars PROVE TypesInv'
  OBVIOUS
<1> USE DEF Places, AtWork, Segments, Statuses
<1>1. CASE Assemble
  BY <1>1 DEF Assemble, TypesInv, books, world
<1>2. CASE CallRaises
  BY <1>2 DEF CallRaises, Raises, Failed, TypesInv, world
<1>3. CASE ChoosePlan
  <2>1. PICK chosen \in Picks :
          /\ CallReturns(chosen)
          /\ \/ /\ trail' = Append(trail, Proposal("plan-selection", chosen))
                /\ \/ /\ chosen = "offered"
                      /\ pc' = "select" /\ segment' = "acknowledge" /\ UNCHANGED status
                   \/ /\ chosen # "offered"
                      /\ pc' = "returned" /\ status' = "rejected" /\ UNCHANGED segment
             \/ pc' = "raised" /\ status' = "raised" /\ UNCHANGED <<trail, segment>>
    BY <1>3 DEF ChoosePlan
  <2>2. chosen \in Named
    BY PicksNamed
  <2>3. calls' \in Seq(CallMade) /\ log' \in Seq(Entries) /\ counted' \in Nat /\ tracer' \in Tracers
    BY <1>3, <2>1, <2>2, CallTyped DEF ChoosePlan
  <2>4. trail' \in Seq(Events)
    BY <2>1, <2>2, TrailTyped, EventsTyped DEF TypesInv
  <2> QED BY <1>3, <2>1, <2>3, <2>4 DEF ChoosePlan, TypesInv, world
<1>4. CASE ChooseCapability
  <2>1. PICK chosen \in Picks :
          /\ CallReturns(chosen)
          /\ \/ /\ trail' = Append(trail, Proposal("selection", chosen))
                /\ \/ /\ chosen = "offered"
                      /\ pc' = IF segment = "register" THEN "create" ELSE "generate"
                   \/ chosen # "offered" /\ pc' = "failed"
             \/ pc' = "failed" /\ UNCHANGED trail
    BY <1>4 DEF ChooseCapability
  <2>2. chosen \in Named
    BY PicksNamed
  <2>3. calls' \in Seq(CallMade) /\ log' \in Seq(Entries) /\ counted' \in Nat /\ tracer' \in Tracers
    BY <1>4, <2>1, <2>2, CallTyped DEF ChooseCapability
  <2>4. trail' \in Seq(Events)
    BY <2>1, <2>2, TrailTyped, EventsTyped DEF TypesInv
  <2> QED BY <1>4, <2>1, <2>3, <2>4 DEF ChooseCapability, TypesInv, world
<1>5. CASE Generate
  <2>1. PICK answer \in Answers(config.provider, SchemaArrives(config),
                                segment = "correction") :
          CallReturns(RecordedAs(config, answer)) /\ draft' = Received(config, answer)
    BY <1>5 DEF Generate
  <2>2. RecordedAs(config, answer) \in Content /\ draft' \in Content
    BY <2>1, AnswersTyped, DecoratedTyped DEF RecordedAs, Received
  <2>3. calls' \in Seq(CallMade) /\ log' \in Seq(Entries) /\ counted' \in Nat /\ tracer' \in Tracers
    BY <1>5, <2>1, <2>2, CallTyped DEF Generate
  <2> QED BY <1>5, <2>2, <2>3 DEF Generate, TypesInv, world
<1>6. CASE Retry
  <2>1. trail' \in Seq(Events)
    BY <1>6, TrailTyped, EventsTyped DEF Retry, TypesInv
  <2> QED BY <1>6, <2>1 DEF Retry, Go, TypesInv, world, books
<1>7. CASE GiveUp
  <2>1. trail' \in Seq(Events)
    BY <1>7, TrailTyped, EventsTyped DEF GiveUp, TypesInv
  <2> QED BY <1>7, <2>1 DEF GiveUp, Go, TypesInv, world, books
<1>8. CASE SendReply
  BY <1>8 DEF SendReply, Go, TypesInv, books
<1>9. CASE CreateRecord
  BY <1>9 DEF CreateRecord, Go, TypesInv, books
<1>10. CASE RecordEffect
  BY <1>10 DEF RecordEffect, Records, Go, TypesInv, books
<1>11. CASE StepCompletes
  <2>1. tracer' \in Tracers
    BY <1>11, TracerTyped DEF StepCompletes, TypesInv
  <2>2. done' \subseteq ToSet(Steps)
    BY <1>11, Steps12 DEF StepCompletes, TypesInv
  <2> QED BY <1>11, <2>1, <2>2 DEF StepCompletes, Go, TypesInv, world
<1>12. CASE StepFails
  <2>1. tracer' \in Tracers
    BY <1>12, TracerTyped DEF StepFails, TypesInv
  <2> QED BY <1>12, <2>1 DEF StepFails, Go, TypesInv, world
<1>13. CASE Compensated
  BY <1>13 DEF Compensated, Go, TypesInv, world, books
<1>14. CASE Return
  <2>1. tracer' \in Tracers
    BY <1>14, TracerTyped DEF Return, TypesInv
  <2> QED BY <1>14, <2>1 DEF Return, Go, TypesInv, world
<1>15. CASE Measure
  <2>1. tracer' \in Tracers
    BY <1>15, TracerTyped DEF Measure, TypesInv
  <2> QED BY <1>15, <2>1 DEF Measure, TypesInv, world
<1>16. CASE Waits
  BY <1>16 DEF Waits, TypesInv, world, books
<1>17. CASE StepRaises
  BY <1>17 DEF StepRaises, Go, TypesInv, world, books
<1>18. CASE UNCHANGED vars
  BY <1>18 DEF vars, TypesInv, world, books
<1> QED
  BY <1>1, <1>2, <1>3, <1>4, <1>5, <1>6, <1>7, <1>8, <1>9, <1>10, <1>11, <1>12, <1>13,
     <1>14, <1>15, <1>16, <1>17, <1>18
  DEF Next, Handle

-----------------------------------------------------------------------------
(* Where the execution can be.                                              *)

LEMMA FlowStart == Init => FlowInv
BY DEF Init, FlowInv, AtWork

LEMMA FlowStep == TypesInv /\ FlowInv /\ [Next]_vars => FlowInv'
<1> SUFFICES ASSUME TypesInv, FlowInv, [Next]_vars PROVE FlowInv'
  OBVIOUS
<1> USE DEF Places, AtWork, Segments, Statuses
<1>1. CASE Assemble
  <2>1. /\ config' = config /\ attempt' = attempt /\ status' = status /\ calls' = calls
        /\ pc = "assemble"
    BY <1>1 DEF Assemble, books
  <2>2. \/ Assembles(config) /\ pc' = "plan" /\ segment' = "plan"
        \/ Assembles(config) /\ pc' = "select" /\ segment' = "acknowledge" /\ attempt = 1
        \/ pc' = "refused" /\ segment' = "plan"
    BY <1>1 DEF Assemble, FlowInv
  <2> QED BY <2>1, <2>2 DEF FlowInv
<1>2. CASE CallRaises
  BY <1>2 DEF CallRaises, Raises, Failed, Calling, TypesInv, FlowInv, world
<1>3. CASE ChoosePlan
  <2>1. /\ config' = config /\ attempt' = attempt /\ pc = "plan" /\ segment = "plan"
        /\ status = "none"
    BY <1>3 DEF ChoosePlan, FlowInv
  <2>2. \/ pc' = "select" /\ segment' = "acknowledge" /\ status' = status /\ attempt = 1
        \/ pc' = "returned" /\ status' = "rejected" /\ segment' = segment
        \/ pc' = "raised" /\ status' = "raised" /\ segment' = segment
    BY <1>3 DEF ChoosePlan, FlowInv
  <2> QED BY <2>1, <2>2 DEF FlowInv
<1>4. CASE ChooseCapability
  BY <1>4 DEF ChooseCapability, CallReturns, TypesInv, FlowInv, world
<1>5. CASE Generate
  BY <1>5 DEF Generate, CallReturns, TypesInv, FlowInv, world
<1>6. CASE Retry
  BY <1>6 DEF Retry, Go, TypesInv, FlowInv, world, books
<1>7. CASE GiveUp
  BY <1>7 DEF GiveUp, Go, TypesInv, FlowInv, world, books
<1>8. CASE SendReply
  BY <1>8 DEF SendReply, Go, TypesInv, FlowInv, books
<1>9. CASE CreateRecord
  BY <1>9 DEF CreateRecord, Go, TypesInv, FlowInv, books
<1>10. CASE RecordEffect
  BY <1>10 DEF RecordEffect, Go, TypesInv, FlowInv, books
<1>11. CASE StepCompletes
  BY <1>11 DEF StepCompletes, Go, TypesInv, FlowInv, world
<1>12. CASE StepFails
  BY <1>12 DEF StepFails, Go, TypesInv, FlowInv, world
<1>13. CASE Compensated
  BY <1>13 DEF Compensated, Go, TypesInv, FlowInv, world, books
<1>14. CASE Return
  BY <1>14 DEF Return, Go, TypesInv, FlowInv, world
<1>15. CASE Measure
  BY <1>15 DEF Measure, TypesInv, FlowInv, world
<1>16. CASE Waits
  BY <1>16 DEF Waits, TypesInv, FlowInv, world, books
<1>17. CASE StepRaises
  BY <1>17 DEF StepRaises, Go, TypesInv, FlowInv, world, books
<1>18. CASE UNCHANGED vars
  BY <1>18 DEF vars, TypesInv, FlowInv, world, books
<1> QED
  BY <1>1, <1>2, <1>3, <1>4, <1>5, <1>6, <1>7, <1>8, <1>9, <1>10, <1>11, <1>12, <1>13,
     <1>14, <1>15, <1>16, <1>17, <1>18
  DEF Next, Handle

-----------------------------------------------------------------------------
(* What is sent on has been accepted, and what handle() counts as completed *)
(* has happened.                                                            *)

LEMMA DraftStart == Init => DraftInv
BY DEF Init, DraftInv, Plain

LEMMA DraftStep == TypesInv /\ FlowInv /\ DraftInv /\ [Next]_vars => DraftInv'
<1> SUFFICES ASSUME TypesInv, FlowInv, DraftInv, [Next]_vars PROVE DraftInv'
  OBVIOUS
<1> USE DEF Places, AtWork, Segments
<1>1. CASE Assemble
  BY <1>1 DEF Assemble, TypesInv, FlowInv, DraftInv, books, world
<1>2. CASE CallRaises
  BY <1>2 DEF CallRaises, Raises, Failed, Calling, TypesInv, FlowInv, DraftInv, world
<1>3. CASE ChoosePlan
  BY <1>3 DEF ChoosePlan, CallReturns, TypesInv, FlowInv, DraftInv, world
<1>4. CASE ChooseCapability
  BY <1>4 DEF ChooseCapability, CallReturns, TypesInv, FlowInv, DraftInv, world
<1>5. CASE Generate
  <2>1. PICK answer \in Answers(config.provider, SchemaArrives(config),
                                segment = "correction") :
          draft' = Received(config, answer)
    BY <1>5 DEF Generate
  <2>2. answer \in Content /\ ~answer.stuffed
    BY AnswersTyped
  <2>3. ~config.measurement => config.flags = {}
    BY <1>5 DEF Generate, FlowInv, Assembles, Refuses
  <2>4. ~config.measurement => ~draft'.stuffed
    BY <2>1, <2>2, <2>3, DecoratedTyped DEF Received
  <2>5. config' = config /\ segment' = segment /\ segment # "register"
    BY <1>5 DEF Generate, FlowInv
  <2>6. pc' = "reply" => Conforms(draft')
    BY <1>5 DEF Generate, Accepts
  <2>7. pc' # "merge"
    BY <1>5 DEF Generate
  <2>8. ~config'.measurement => ~draft'.stuffed
    BY <2>4, <2>5
  <2> QED BY <2>5, <2>6, <2>7, <2>8 DEF DraftInv
<1>6. CASE Retry
  BY <1>6 DEF Retry, Go, TypesInv, FlowInv, DraftInv, world, books
<1>7. CASE GiveUp
  BY <1>7 DEF GiveUp, Go, TypesInv, FlowInv, DraftInv, world, books
<1>8. CASE SendReply
  BY <1>8 DEF SendReply, Go, TypesInv, FlowInv, DraftInv, books
<1>9. CASE CreateRecord
  BY <1>9 DEF CreateRecord, Go, TypesInv, FlowInv, DraftInv, books
<1>10. CASE RecordEffect
  BY <1>10 DEF RecordEffect, Go, TypesInv, FlowInv, DraftInv, books
<1>11. CASE StepCompletes
  BY <1>11 DEF StepCompletes, Go, TypesInv, FlowInv, DraftInv, world
<1>12. CASE StepFails
  BY <1>12 DEF StepFails, Go, TypesInv, FlowInv, DraftInv, world
<1>13. CASE Compensated
  BY <1>13 DEF Compensated, Go, TypesInv, FlowInv, DraftInv, world, books
<1>14. CASE Return
  BY <1>14 DEF Return, Go, TypesInv, FlowInv, DraftInv, world
<1>15. CASE Measure
  BY <1>15 DEF Measure, TypesInv, FlowInv, DraftInv, world
<1>16. CASE Waits
  BY <1>16 DEF Waits, TypesInv, FlowInv, DraftInv, world, books
<1>17. CASE StepRaises
  BY <1>17 DEF StepRaises, Go, TypesInv, FlowInv, DraftInv, world, books
<1>18. CASE UNCHANGED vars
  BY <1>18 DEF vars, TypesInv, FlowInv, DraftInv, world, books
<1> QED
  BY <1>1, <1>2, <1>3, <1>4, <1>5, <1>6, <1>7, <1>8, <1>9, <1>10, <1>11, <1>12, <1>13,
     <1>14, <1>15, <1>16, <1>17, <1>18
  DEF Next, Handle

LEMMA LeavesStart == Init => OnlyValidatedLeaves
BY DEF Init, OnlyValidatedLeaves

LEMMA LeavesStep ==
  TypesInv /\ FlowInv /\ DraftInv /\ OnlyValidatedLeaves /\ [Next]_vars => OnlyValidatedLeaves'
<1> SUFFICES ASSUME TypesInv, FlowInv, DraftInv, OnlyValidatedLeaves, [Next]_vars
             PROVE  OnlyValidatedLeaves'
  OBVIOUS
<1>1. CASE SendReply
  <2>1. config' = config /\ erp' = erp
    BY <1>1 DEF SendReply, Go
  <2>2. Conforms(draft) /\ (~config.measurement => ~draft.stuffed)
    BY <1>1 DEF SendReply, DraftInv
  <2>3. \A r \in sent' : r \in sent \/ r.content = draft
    BY <1>1 DEF SendReply, Deliveries, OnServer, InOutbox
  <2> QED BY <2>1, <2>2, <2>3 DEF OnlyValidatedLeaves
<1>2. CASE CreateRecord
  <2>1. config' = config /\ sent' = sent
    BY <1>2 DEF CreateRecord, Go
  <2>2. Conforms(draft) /\ (~config.measurement => ~draft.stuffed)
    BY <1>2 DEF CreateRecord, DraftInv, FlowInv
  <2>3. \A content \in erp' : content \in erp \/ content = draft
    BY <1>2 DEF CreateRecord
  <2> QED BY <2>1, <2>2, <2>3 DEF OnlyValidatedLeaves
<1>3. CASE config' = config /\ sent' = sent /\ erp' = erp
  BY <1>3 DEF OnlyValidatedLeaves
<1>4. \/ SendReply \/ CreateRecord
      \/ config' = config /\ sent' = sent /\ erp' = erp
  BY DEF Next, Handle, Assemble, CallRaises, Raises, ChoosePlan, ChooseCapability, Generate,
         Retry, GiveUp, RecordEffect, StepCompletes, StepFails, Compensated, Return, Measure,
         Waits, StepRaises, Go, vars, world
<1> QED BY <1>1, <1>2, <1>3, <1>4

LEMMA EffectsStart == Init => EffectsInv
BY DEF Init, EffectsInv

LEMMA EffectsStep == TypesInv /\ FlowInv /\ EffectsInv /\ [Next]_vars => EffectsInv'
<1> SUFFICES ASSUME TypesInv, FlowInv, EffectsInv, [Next]_vars PROVE EffectsInv'
  OBVIOUS
<1> USE DEF Places, AtWork, Segments
<1>1. CASE Assemble
  <2>1. /\ pc = "assemble" /\ pc' \in {"plan", "select", "refused"} /\ done' = done
        /\ sent' = sent /\ erp' = erp /\ recorded' = recorded
    BY <1>1 DEF Assemble, world
  <2> QED BY <2>1 DEF EffectsInv
<1>2. CASE CallRaises
  BY <1>2 DEF CallRaises, Raises, Failed, Calling, TypesInv, FlowInv, EffectsInv, world
<1>3. CASE ChoosePlan
  BY <1>3 DEF ChoosePlan, EffectsInv, world
<1>4. CASE ChooseCapability
  BY <1>4 DEF ChooseCapability, EffectsInv, world
<1>5. CASE Generate
  BY <1>5 DEF Generate, EffectsInv, world
<1>6. CASE Retry
  BY <1>6 DEF Retry, Go, EffectsInv, world
<1>7. CASE GiveUp
  BY <1>7 DEF GiveUp, Go, EffectsInv, world
<1>8. CASE SendReply
  <2>1. /\ pc = "reply" /\ pc' = "merge" /\ segment' = segment /\ segment # "register"
        /\ done' = done /\ erp' = erp /\ recorded' = recorded
    BY <1>8 DEF SendReply, Go, FlowInv
  <2>2. \E r \in sent' : r.segment = segment
    <3>1. OnServer \in sent' \/ InOutbox \in sent'
      BY <1>8 DEF SendReply, Deliveries
    <3>2. OnServer.segment = segment /\ InOutbox.segment = segment
      BY DEF OnServer, InOutbox
    <3> QED BY <3>1, <3>2, Zenon
  <2>3. sent \subseteq sent'
    BY <1>8 DEF SendReply
  <2> QED BY <2>1, <2>2, <2>3 DEF EffectsInv
<1>9. CASE CreateRecord
  <2>1. /\ pc = "create" /\ segment' = segment /\ segment = "register" /\ done' = done
        /\ sent' = sent /\ recorded' = recorded
    BY <1>9 DEF CreateRecord, Go, FlowInv
  <2>2. \/ pc' = "record" /\ erp' = erp \union {draft}
        \/ pc' = "failed"
    BY <1>9 DEF CreateRecord, Go
  <2> QED BY <2>1, <2>2 DEF EffectsInv
<1>10. CASE RecordEffect
  <2>1. /\ pc = "record" /\ pc' = "merge" /\ segment' = segment /\ done' = done
        /\ sent' = sent /\ erp' = erp
    BY <1>10 DEF RecordEffect, Go
  <2>2. config.tool.type = "system_of_record"
    BY <1>10, Platform DEF RecordEffect, FlowInv, TypesInv, Assembles, Registrable
  <2>3. recorded' = TRUE
    BY <1>10, <2>2 DEF RecordEffect, Records
  <2>4. "register" \notin done
    BY <2>1 DEF EffectsInv
  <2>5. segment = "register"
    BY <1>10 DEF RecordEffect, FlowInv
  <2>6. erp # {}
    BY <2>1 DEF EffectsInv
  <2>7. "acknowledge" \in done => \E r \in sent : r.segment = "acknowledge"
    BY DEF EffectsInv
  <2> QED BY <2>1, <2>3, <2>4, <2>5, <2>6, <2>7 DEF EffectsInv
<1>11. CASE StepCompletes
  BY <1>11 DEF StepCompletes, Go, TypesInv, EffectsInv, world
<1>12. CASE StepFails
  BY <1>12 DEF StepFails, Go, EffectsInv, world
<1>13. CASE Compensated
  BY <1>13 DEF Compensated, Go, EffectsInv, world
<1>14. CASE Return
  BY <1>14 DEF Return, Go, EffectsInv, world
<1>15. CASE Measure
  BY <1>15 DEF Measure, EffectsInv, world
<1>16. CASE Waits
  BY <1>16 DEF Waits, EffectsInv, world
<1>17. CASE StepRaises
  BY <1>17 DEF StepRaises, Go, EffectsInv, world
<1>18. CASE UNCHANGED vars
  BY <1>18 DEF vars, EffectsInv, world
<1> QED
  BY <1>1, <1>2, <1>3, <1>4, <1>5, <1>6, <1>7, <1>8, <1>9, <1>10, <1>11, <1>12, <1>13,
     <1>14, <1>15, <1>16, <1>17, <1>18
  DEF Next, Handle

-----------------------------------------------------------------------------
(* The books.                                                               *)

(* A step makes a model call or leaves the books of calls alone. *)
CallMadeStep ==
  /\ pc \in {"plan", "select", "generate"}
  /\ \E content \in Content \union Named : CallReturns(content)

Reporting == StepCompletes \/ StepFails \/ Return \/ Measure

LEMMA StepKinds ==
  ASSUME TypesInv, [Next]_vars
  PROVE  /\ config' = config
         /\ \/ CallMadeStep
            \/ /\ calls' = calls /\ log' = log /\ counted' = counted
               /\ tracer' = tracer \/ Reporting
<1>1. CASE ChoosePlan
  <2>1. \E content \in Picks : CallReturns(content)
    BY <1>1 DEF ChoosePlan
  <2> QED BY <1>1, <2>1, PicksNamed DEF CallMadeStep, ChoosePlan
<1>2. CASE ChooseCapability
  <2>1. \E content \in Picks : CallReturns(content)
    BY <1>2 DEF ChooseCapability
  <2> QED BY <1>2, <2>1, PicksNamed DEF CallMadeStep, ChooseCapability
<1>3. CASE Generate
  <2>1. PICK answer \in Answers(config.provider, SchemaArrives(config),
                                segment = "correction") :
          CallReturns(RecordedAs(config, answer))
    BY <1>3 DEF Generate
  <2>2. RecordedAs(config, answer) \in Content
    BY AnswersTyped, DecoratedTyped DEF RecordedAs
  <2> QED BY <1>3, <2>1, <2>2 DEF CallMadeStep, Generate
<1>4. CASE Reporting
  BY <1>4 DEF Reporting, StepCompletes, StepFails, Return, Measure, Go
<1>5. CASE Assemble \/ CallRaises \/ Retry \/ GiveUp \/ SendReply \/ CreateRecord
           \/ RecordEffect \/ Compensated \/ Waits \/ StepRaises \/ UNCHANGED vars
  BY <1>5 DEF Assemble, CallRaises, Raises, Retry, GiveUp, SendReply, CreateRecord,
              RecordEffect, Compensated, Waits, StepRaises, Go, vars, books
<1> QED BY <1>1, <1>2, <1>3, <1>4, <1>5 DEF Next, Handle, Reporting

(* What a report leaves of the tracer, whether or not it is sent. *)
LEMMA ReportKeeps ==
  ASSUME TypesInv, Reporting
  PROVE  /\ tracer'.cursor = tracer.cursor /\ (tracer'.enabled => tracer.enabled)
         /\ \/ tracer' = tracer
            \/ /\ tracer.enabled /\ tracer'.pending = <<>>
               /\ \E s \in {0, 1}, e \in {0, 1}, parent \in {"root"} \union Segments :
                    /\ IF s = 1 THEN parent \in Segments ELSE parent = "root"
                    /\ Reported(tracer, tracer', s, tracer.pending, parent, e)
<1> DEFINE Kept(u) ==
      /\ u.cursor = tracer.cursor /\ (u.enabled => tracer.enabled)
      /\ \/ u = tracer
         \/ /\ tracer.enabled /\ u.pending = <<>>
            /\ \E s \in {0, 1}, e \in {0, 1}, parent \in {"root"} \union Segments :
                 /\ IF s = 1 THEN parent \in Segments ELSE parent = "root"
                 /\ Reported(tracer, u, s, tracer.pending, parent, e)
<1>1. tracer \in Tracers /\ segment \in Segments
  BY DEF TypesInv
<1>2. Kept(tracer)
  OBVIOUS
<1>3. ASSUME tracer.enabled, NEW u \in StepDone(tracer, segment) PROVE Kept(u)
  BY <1>1, <1>3, StepReported
<1>4. ASSUME tracer.enabled, NEW u \in Trace(tracer) PROVE Kept(u)
  BY <1>1, <1>4, TraceReported
<1>5. ASSUME tracer.enabled, tracer.root # "none", NEW u \in Finalize(tracer) PROVE Kept(u)
  BY <1>1, <1>5, FinalizeReported
<1>6. tracer' \in StepDone(tracer, segment) \/ tracer' \in Trace(tracer)
        \/ tracer' \in Finalize(tracer)
  BY DEF Reporting, StepCompletes, StepFails, Return, Measure
<1>7. \/ tracer' = tracer
      \/ tracer.enabled /\ tracer' \in StepDone(tracer, segment)
      \/ tracer.enabled /\ tracer' \in Trace(tracer)
      \/ tracer.enabled /\ tracer.root # "none" /\ tracer' \in Finalize(tracer)
  BY <1>6 DEF StepDone, Trace, Finalize
<1>8. Kept(tracer')
  <2> HIDE DEF Kept
  <2> QED BY <1>2, <1>3, <1>4, <1>5, <1>7, Zenon
<1> QED BY <1>8

(* A call that returns, as the tracer sees it. *)
LEMMA CallPosted ==
  ASSUME TypesInv, tracer.enabled, Len(calls') \in Nat, Len(log') \in Nat,
         tracer' \in ModelCall(tracer, Len(calls'), Len(log'), pc = "plan"),
         NEW entry, entry = NextEntry(tracer, Len(log'))
  PROVE  /\ entry \in Nat
         /\ tracer' \in Tracers
         /\ tracer'.cursor = IF entry = 0 THEN tracer.cursor ELSE entry
         /\ tracer'.root = IF tracer.root = "none" THEN "open" ELSE tracer.root
         /\ pc = "plan" =>
              /\ tracer'.pending = tracer.pending
              /\ Reported(tracer, tracer', 0, OneCall(Len(calls'), entry), "root", 0)
         /\ pc # "plan" =>
              /\ tracer'.pending = Append(tracer.pending, CallSpan(Len(calls'), entry))
              /\ Reported(tracer, tracer', 0, <<>>, "root", 0)
<1>1. (pc = "plan") \in BOOLEAN
  OBVIOUS
<1>2. \E planned \in BOOLEAN :
        /\ planned <=> pc = "plan"
        /\ tracer' \in ModelCall(tracer, Len(calls'), Len(log'), planned)
  BY <1>1, Zenon
<1>3. PICK planned \in BOOLEAN :
        /\ planned <=> pc = "plan"
        /\ tracer' \in ModelCall(tracer, Len(calls'), Len(log'), planned)
  BY <1>2
<1>4. tracer \in Tracers
  BY DEF TypesInv
<1>5. CASE pc = "plan"
  <2>1. PICK t : t = tracer
    OBVIOUS
  <2>2. PICK u : u = tracer'
    OBVIOUS
  <2>3. PICK call, logged : call = Len(calls') /\ logged = Len(log')
    OBVIOUS
  <2>4. /\ t \in Tracers /\ t.enabled /\ planned = TRUE
        /\ call \in Nat /\ logged \in Nat /\ entry = NextEntry(t, logged)
    BY <1>3, <1>4, <1>5, <2>1, <2>3
  <2>5. u \in ModelCall(t, call, logged, TRUE)
    BY <1>3, <2>1, <2>2, <2>3, <2>4, Zenon
  <2>6. /\ entry \in Nat
        /\ u \in Tracers /\ u.pending = t.pending
        /\ u.cursor = IF entry = 0 THEN t.cursor ELSE entry
        /\ u.root = IF t.root = "none" THEN "open" ELSE t.root
        /\ Reported(t, u, 0, OneCall(call, entry), "root", 0)
    <3>1. PICK waiting : waiting = OneCall(call, entry)
      OBVIOUS
    <3>2. Reported(t, u, 0, waiting, "root", 0)
      BY ONLY <2>4, <2>5, <3>1, PlanCallReported
    <3>3. entry \in Nat /\ u \in Tracers
      BY ONLY <2>4, <2>5, <3>1, PlanCallReported
    <3>4. Advanced(t, u, entry)
      BY ONLY <2>4, <2>5, <3>1, PlanCallReported
    <3>5. t.pending = u.pending
      BY ONLY <2>4, <2>5, <3>1, PlanCallReported
    <3> QED BY <3>1, <3>2, <3>3, <3>4, <3>5 DEF Advanced
  <2> QED BY <1>5, <2>1, <2>2, <2>3, <2>6
<1>6. CASE pc # "plan"
  BY <1>3, <1>4, <1>6, CallBuffered
<1> QED BY <1>5, <1>6

LEMMA BooksStart == Init => BooksInv
BY EmptySeq DEF Init, BooksInv, NewTracer

LEMMA BooksStep ==
  ASSUME TypesInv, BooksInv, [Next]_vars
  PROVE  /\ BooksInv'
         /\ CallMadeStep /\ tracer.enabled =>
              NextEntry(tracer, Len(log')) = IF config.recording THEN Len(calls') ELSE 0
<1>1. config' = config /\ config.recording \in BOOLEAN
  BY StepKinds, Platform DEF TypesInv
<1>2. /\ Len(log) \in Nat /\ Len(calls) \in Nat /\ DOMAIN log = 1..Len(log)
      /\ tracer \in Tracers
  BY LenProperties DEF TypesInv
<1>3. CASE CallMadeStep
  <2>1. PICK content \in Content \union Named : CallReturns(content)
    BY <1>3 DEF CallMadeStep
  <2>2. /\ log' \in Seq(Entries) /\ Len(calls') = Len(calls) + 1
        /\ IF config.recording
           THEN /\ Len(log') = Len(log) + 1
                /\ \A n \in 1..Len(log) : log'[n] = log[n]
                /\ log'[Len(log) + 1] =
                     [call |-> Len(calls'), purpose |-> Purpose, content |-> content]
           ELSE log' = log
    BY <1>3, <2>1, CallTyped DEF CallMadeStep, AtWork
  <2>3. DOMAIN log' = 1..Len(log')
    BY <2>2, LenProperties
  <2>4. counted' = Len(calls')
    BY <2>1, <2>2 DEF CallReturns, BooksInv
  <2>5. IF config.recording
        THEN Len(log') = Len(calls') /\ \A n \in DOMAIN log' : log'[n].call = n
        ELSE log' = <<>>
    <3>1. CASE config.recording
      <4>1. Len(log') = Len(calls')
        BY <1>2, <2>2, <3>1 DEF BooksInv
      <4>2. log'[Len(log) + 1].call = Len(calls')
        BY <2>2, <3>1
      <4>3. \A n \in 1..Len(log) : log'[n].call = n
        BY <1>2, <2>2, <3>1 DEF BooksInv
      <4>4. \A n \in DOMAIN log' : n \in 1..Len(log) \/ n = Len(log) + 1
        BY <1>2, <2>2, <2>3, <3>1
      <4>5. Len(log) + 1 = Len(calls')
        BY <2>2, <3>1, <4>1
      <4> QED BY <3>1, <4>1, <4>2, <4>3, <4>4, <4>5
    <3>2. CASE ~config.recording
      BY <2>2, <3>2 DEF BooksInv
    <3> QED BY <3>1, <3>2
  <2>6. tracer.enabled =>
          NextEntry(tracer, Len(log')) = IF config.recording THEN Len(calls') ELSE 0
    BY <1>1, <1>2, <2>2 DEF BooksInv, NextEntry
  <2>7. tracer' \in ModelCall(tracer, Len(calls'), Len(log'), pc = "plan")
    BY <2>1 DEF CallReturns
  <2>8. Len(calls') \in Nat /\ Len(log') \in Nat
    BY <1>2, <2>2, LenProperties
  <2>9. tracer'.enabled => tracer'.cursor = Len(log')
    <3>1. CASE ~tracer.enabled
      BY <2>7, <3>1 DEF ModelCall
    <3>2. CASE tracer.enabled
      <4>1. tracer'.cursor = IF NextEntry(tracer, Len(log')) = 0 THEN tracer.cursor
                             ELSE NextEntry(tracer, Len(log'))
        BY <2>7, <2>8, <3>2, CallPosted
      <4> QED BY <1>1, <1>2, <2>2, <2>5, <2>6, <2>8, <3>2, <4>1 DEF BooksInv
    <3> QED BY <3>1, <3>2
  <2> QED BY <1>1, <2>4, <2>5, <2>6, <2>9 DEF BooksInv
<1>4. CASE ~CallMadeStep
  <2>1. /\ calls' = calls /\ log' = log /\ counted' = counted
        /\ tracer' = tracer \/ Reporting
    BY <1>4, StepKinds
  <2>2. tracer'.cursor = tracer.cursor /\ (tracer'.enabled => tracer.enabled)
    BY <2>1, ReportKeeps
  <2> QED BY <1>1, <1>4, <2>1, <2>2 DEF BooksInv
<1> QED BY <1>3, <1>4

-----------------------------------------------------------------------------
(* The text of a span is its own call's.                                    *)

Matched(span, entries, recording) ==
  span.call # 0 =>
    IF recording
    THEN span.entry \in DOMAIN entries /\ entries[span.entry].call = span.call
    ELSE span.entry = 0

AllMatched(spans, entries, recording) ==
  \A i \in DOMAIN spans : Matched(spans[i], entries, recording)

LEMMA EntriesByPlace ==
  ASSUME NEW t, NEW entries, NEW recording
  PROVE  (\A span \in ToSet(t.posted) \union ToSet(t.pending) :
            Matched(span, entries, recording))
           <=> /\ AllMatched(t.posted, entries, recording)
               /\ AllMatched(t.pending, entries, recording)
BY Zenon DEF ToSet, AllMatched

(* The log is only added to. *)
LEMMA MatchedStays ==
  ASSUME NEW entries, NEW longer, NEW recording, NEW spans,
         \A n \in DOMAIN entries : n \in DOMAIN longer /\ longer[n] = entries[n],
         AllMatched(spans, entries, recording)
  PROVE  AllMatched(spans, longer, recording)
BY DEF AllMatched, Matched

LEMMA ReportMatched ==
  ASSUME NEW t \in Tracers, NEW u \in Tracers, NEW s \in {0, 1}, NEW e \in {0, 1},
         NEW waiting \in Seq(Spans), NEW parent \in {"root"} \union Segments,
         s = 1 => parent \in Segments,
         Reported(t, u, s, waiting, parent, e),
         NEW entries, NEW recording,
         AllMatched(t.posted, entries, recording), AllMatched(waiting, entries, recording)
  PROVE  AllMatched(u.posted, entries, recording)
<1> SUFFICES ASSUME NEW i \in DOMAIN u.posted
             PROVE  Matched(u.posted[i], entries, recording)
  BY Zenon DEF AllMatched
<1>1. \/ i \in DOMAIN t.posted /\ u.posted[i] = t.posted[i]
      \/ u.posted[i].call = 0
      \/ \E j \in 1..Len(waiting) : u.posted[i] = Moved(waiting[j], parent)
  BY ReportedSpans
<1>2. CASE i \in DOMAIN t.posted /\ u.posted[i] = t.posted[i]
  BY <1>2, Zenon DEF AllMatched
<1>3. CASE u.posted[i].call = 0
  BY <1>3, Zenon DEF Matched
<1>4. ASSUME NEW j \in 1..Len(waiting), u.posted[i] = Moved(waiting[j], parent)
      PROVE  Matched(u.posted[i], entries, recording)
  <2>1. waiting[j] \in Spans /\ j \in DOMAIN waiting
    BY ElementOfSeq, LenProperties
  <2>2. /\ Moved(waiting[j], parent).call = waiting[j].call
        /\ Moved(waiting[j], parent).entry = waiting[j].entry
    BY <2>1, SpanMoved
  <2>3. Matched(waiting[j], entries, recording)
    BY <2>1, Zenon DEF AllMatched
  <2> QED BY <1>4, <2>2, <2>3, Zenon DEF Matched
<1> QED BY <1>1, <1>2, <1>3, <1>4

LEMMA EntriesStart == Init => EntryOfItsCall
<1> SUFFICES ASSUME Init PROVE EntryOfItsCall
  OBVIOUS
<1>1. tracer.posted = <<>> /\ tracer.pending = <<>>
  BY DEF Init, NewTracer
<1>2. ToSet(tracer.posted) = {} /\ ToSet(tracer.pending) = {}
  BY <1>1 DEF ToSet
<1> QED BY <1>2 DEF EntryOfItsCall

LEMMA EntriesStep ==
  ASSUME TypesInv, TypesInv', BooksInv, BooksInv', EntryOfItsCall, [Next]_vars
  PROVE  EntryOfItsCall'
<1>1. config' = config /\ tracer \in Tracers /\ tracer' \in Tracers
  BY StepKinds DEF TypesInv
<1>2. PICK recording : recording = config.recording
  OBVIOUS
<1>3. PICK entries, longer : entries = log /\ longer = log'
  OBVIOUS
<1>4. PICK t, u : t = tracer /\ u = tracer'
  OBVIOUS
<1>5. AllMatched(t.posted, entries, recording) /\ AllMatched(t.pending, entries, recording)
  <2>1. \A span \in ToSet(t.posted) \union ToSet(t.pending) :
          Matched(span, entries, recording)
    BY <1>2, <1>3, <1>4 DEF EntryOfItsCall, Matched
  <2> QED BY <2>1, EntriesByPlace, Zenon
<1>6. t \in Tracers /\ u \in Tracers /\ t.pending \in Seq(Spans) /\ u.pending \in Seq(Spans)
  BY <1>1, <1>4 DEF Tracers
<1>7. AllMatched(u.posted, longer, recording) /\ AllMatched(u.pending, longer, recording)
  <2>1. CASE ~CallMadeStep
    <3>1. longer = entries /\ (u = t \/ Reporting)
      BY <1>3, <1>4, <2>1, StepKinds
    <3>2. CASE u = t
      BY <1>5, <3>1, <3>2
    <3>3. CASE Reporting /\ u # t
      <4>1. /\ u.pending = <<>>
            /\ \E s \in {0, 1}, e \in {0, 1}, parent \in {"root"} \union Segments :
                 /\ IF s = 1 THEN parent \in Segments ELSE parent = "root"
                 /\ Reported(t, u, s, t.pending, parent, e)
        BY <1>4, <3>3, ReportKeeps
      <4>2. AllMatched(u.posted, entries, recording)
        BY <1>5, <1>6, <4>1, ReportMatched
      <4>3. AllMatched(u.pending, entries, recording)
        BY <4>1 DEF AllMatched
      <4> QED BY <3>1, <4>2, <4>3
    <3> QED BY <3>1, <3>2, <3>3
  <2>2. CASE CallMadeStep
    <3>1. PICK content \in Content \union Named : CallReturns(content)
      BY <2>2 DEF CallMadeStep
    <3>2. Len(calls') = Len(calls) + 1 /\ calls \in Seq(CallMade) /\ Len(calls') \in Nat
      BY <2>2, <3>1, CallTyped, LenProperties DEF CallMadeStep, AtWork, TypesInv
    <3>3. \A n \in DOMAIN entries : n \in DOMAIN longer /\ longer[n] = entries[n]
      <4>1. IF config.recording
            THEN /\ Len(log') = Len(log) + 1
                 /\ \A n \in 1..Len(log) : log'[n] = log[n]
            ELSE log' = log
        BY <2>2, <3>1, CallTyped DEF CallMadeStep, AtWork
      <4>2. DOMAIN log = 1..Len(log) /\ DOMAIN log' = 1..Len(log') /\ Len(log) \in Nat
        BY LenProperties DEF TypesInv
      <4>3. \A n \in DOMAIN log : n \in DOMAIN log' /\ log'[n] = log[n]
        <5>1. CASE config.recording
          <6>1. Len(log') = Len(log) + 1 /\ \A n \in 1..Len(log) : log'[n] = log[n]
            BY <4>1, <5>1
          <6> QED BY <4>2, <6>1
        <5>2. CASE ~config.recording
          BY <4>1, <5>2
        <5> QED BY <5>1, <5>2
      <4> QED BY <1>3, <4>3, Zenon
    <3>4. AllMatched(t.posted, longer, recording) /\ AllMatched(t.pending, longer, recording)
      BY <1>5, <3>3, MatchedStays
    <3>5. tracer' \in ModelCall(tracer, Len(calls'), Len(log'), pc = "plan")
      BY <3>1 DEF CallReturns
    <3>6. CASE ~tracer.enabled
      <4>1. u = t
        BY <1>4, <3>5, <3>6 DEF ModelCall
      <4> QED BY <3>4, <4>1
    <3>7. CASE tracer.enabled
      <4>1. PICK call, entry : call = Len(calls') /\ entry = NextEntry(tracer, Len(log'))
        OBVIOUS
      <4>2. entry = IF config.recording THEN call ELSE 0
        BY <2>2, <3>7, <4>1, BooksStep
      <4>3. PICK span : span = CallSpan(call, entry)
        OBVIOUS
      <4>4. Len(log') \in Nat
        BY LenProperties DEF TypesInv
      <4>5. /\ entry \in Nat
            /\ pc = "plan" => u.pending = t.pending
                              /\ Reported(t, u, 0, OneCall(call, entry), "root", 0)
            /\ pc # "plan" => u.pending = Append(t.pending, span)
                              /\ Reported(t, u, 0, <<>>, "root", 0)
        BY <1>4, <3>2, <3>5, <3>7, <4>1, <4>3, <4>4, CallPosted
      <4>6. span \in Spans /\ span.call = call /\ span.entry = entry
        BY <3>2, <4>1, <4>3, <4>5, SpansTyped
      <4>7. Matched(span, longer, recording)
        <5>1. config.recording =>
                Len(longer) = call /\ \A n \in DOMAIN longer : longer[n].call = n
          BY <1>1, <1>3, <4>1 DEF BooksInv
        <5>2. config.recording => call \in DOMAIN longer
          <6>1. DOMAIN log' = 1..Len(log') /\ Len(calls) \in Nat
            BY <3>2, LenProperties DEF TypesInv
          <6> QED BY <1>3, <3>2, <4>1, <5>1, <6>1
        <5> QED BY <1>2, <4>2, <4>6, <5>1, <5>2 DEF Matched
      <4>8. CASE pc = "plan"
        <5>1. /\ OneCall(call, entry) \in Seq(Spans)
              /\ AllMatched(OneCall(call, entry), longer, recording)
          BY <4>3, <4>6, <4>7 DEF OneCall, AllMatched
        <5>2. AllMatched(u.posted, longer, recording)
          BY <1>6, <3>4, <4>5, <4>8, <5>1, ReportMatched
        <5> QED BY <3>4, <4>5, <4>8, <5>2
      <4>9. CASE pc # "plan"
        <5>1. PICK waiting : waiting = <<>>
          OBVIOUS
        <5>2. AllMatched(u.posted, longer, recording)
          <6>1. waiting \in Seq(Spans) /\ AllMatched(waiting, longer, recording)
            BY <5>1, EmptySeq DEF AllMatched
          <6>2. Reported(t, u, 0, waiting, "root", 0)
            BY <4>5, <4>9, <5>1
          <6> QED BY ONLY <1>6, <3>4, <6>1, <6>2, ReportMatched
        <5>3. AllMatched(u.pending, longer, recording)
          <6>1. \A i \in DOMAIN u.pending :
                  (i \in DOMAIN t.pending /\ u.pending[i] = t.pending[i]) \/ u.pending[i] = span
            <7> HIDE DEF Spans
            <7> QED BY <1>6, <4>5, <4>6, <4>9, AppendProperties, LenProperties
          <6> QED BY <3>4, <4>7, <6>1 DEF AllMatched
        <5> QED BY <5>2, <5>3
      <4> QED BY <4>8, <4>9
    <3> QED BY <3>6, <3>7
  <2> QED BY <2>1, <2>2
<1>8. \A span \in ToSet(u.posted) \union ToSet(u.pending) : Matched(span, longer, recording)
  BY <1>7, EntriesByPlace, Zenon
<1> QED BY <1>1, <1>2, <1>3, <1>4, <1>8 DEF EntryOfItsCall, Matched

-----------------------------------------------------------------------------
(* The tree of spans.                                                       *)

LEMMA TreeReported ==
  ASSUME NEW t \in Tracers, NEW u \in Tracers, NEW s \in {0, 1}, NEW e \in {0, 1},
         NEW waiting \in Seq(Spans), NEW parent \in {"root"} \union Segments,
         s = 1 => parent \in Segments,
         Reported(t, u, s, waiting, parent, e), u.enabled,
         NEW before \in Nat, NEW made, Hangs(t, before, made),
         \A j \in 1..Len(waiting) : waiting[j].call = before + j,
         \A j \in 1..Len(waiting) : ParentOf(made[before + j].segment) = parent
  PROVE  Hangs(u, before + Len(waiting), made)
<1>1. /\ \A i \in DOMAIN t.posted : t.posted[i].call <= before
      /\ \A n \in 1..before : OnceIn(t.posted, n, ParentOf(made[n].segment))
      /\ t.root # "none" => Rooted(t.posted)
  BY Zenon DEF Hangs
<1>2. /\ \A i \in DOMAIN u.posted : u.posted[i].call <= before + Len(waiting)
      /\ \A n \in 1..before : \A q :
           OnceIn(t.posted, n, q) => OnceIn(u.posted, n, q)
      /\ \A j \in 1..Len(waiting) : OnceIn(u.posted, before + j, parent)
  <2>1. /\ s \in {0, 1} /\ e \in {0, 1} /\ waiting \in Seq(Spans)
        /\ parent \in {"root"} \union Segments /\ (s = 1 => parent \in Segments)
        /\ Reported(t, u, s, waiting, parent, e) /\ u.enabled /\ before \in Nat
        /\ \A j \in 1..Len(waiting) : waiting[j].call = before + j
    OBVIOUS
  <2>2. HangOnce(t, u, waiting, before, parent)
    BY ONLY <1>1, <2>1, ReportedOnce, t \in Tracers, u \in Tracers
  <2> QED BY <2>2, Zenon DEF HangOnce
<1>3. Rooted(u.posted)
  <2>1. CASE t.root = "none"
    <3>1. u.enabled /\ Reported(t, u, s, waiting, parent, e)
      OBVIOUS
    <3> QED BY ONLY <2>1, <3>1, ReportedArrives, t \in Tracers, u \in Tracers, s \in {0, 1},
                    e \in {0, 1}, waiting \in Seq(Spans), parent \in {"root"} \union Segments
  <2>2. CASE t.root # "none"
    <3>1. \A i \in DOMAIN t.posted : i \in DOMAIN u.posted /\ u.posted[i] = t.posted[i]
      BY ReportedSpans
    <3> QED BY <1>1, <2>2, <3>1, Zenon DEF Rooted
  <2> QED BY <2>1, <2>2
<1>4. ASSUME NEW n \in 1..(before + Len(waiting))
      PROVE  OnceIn(u.posted, n, ParentOf(made[n].segment))
  <2>1. CASE n \in 1..before
    BY <1>1, <1>2, <2>1, Zenon
  <2>2. CASE n \notin 1..before
    <3>1. PICK j \in 1..Len(waiting) : n = before + j
      <4>1. n - before \in 1..Len(waiting) /\ n = before + (n - before)
        BY <2>2, LenProperties
      <4> QED BY <4>1
    <3>2. OnceIn(u.posted, before + j, parent) /\ ParentOf(made[before + j].segment) = parent
      BY <1>2, <3>1, Zenon
    <3> QED BY <3>1, <3>2, Zenon
  <2> QED BY <2>1, <2>2
<1> QED BY <1>2, <1>3, <1>4, Zenon DEF Hangs

LEMMA TreeCalled ==
  ASSUME NEW t \in Tracers, NEW u \in Tracers, NEW waiting \in Seq(Spans),
         Reported(t, u, 0, waiting, "root", 0), u.enabled,
         NEW before \in Nat, NEW made, Hangs(t, before, made),
         \A j \in 1..Len(waiting) : waiting[j].call = before + j,
         \A j \in 1..Len(waiting) : ParentOf(made[before + j].segment) = "root"
  PROVE  Hangs(u, before + Len(waiting), made)
<1>1. PICK s \in {0, 1}, e \in {0, 1}, parent \in {"root"} \union Segments :
        s = 0 /\ e = 0 /\ parent = "root"
  OBVIOUS
<1>2. s = 1 => parent \in Segments
  BY <1>1
<1>3. /\ Reported(t, u, s, waiting, parent, e) /\ u.enabled
      /\ Hangs(t, before, made)
      /\ \A j \in 1..Len(waiting) : waiting[j].call = before + j
      /\ \A j \in 1..Len(waiting) : ParentOf(made[before + j].segment) = parent
  BY <1>1
<1> QED BY ONLY <1>2, <1>3, TreeReported, t \in Tracers, u \in Tracers,
                waiting \in Seq(Spans), before \in Nat, s \in {0, 1}, e \in {0, 1},
                parent \in {"root"} \union Segments

LEMMA HangsStill ==
  ASSUME NEW t, NEW before \in Nat, NEW made, NEW more, Hangs(t, before, made),
         \A n \in 1..before : more[n].segment = made[n].segment
  PROVE  Hangs(t, before, more)
BY Zenon DEF Hangs

LEMMA Parents ==
  /\ ParentOf("acknowledge") = "acknowledge" /\ ParentOf("register") = "register"
  /\ ParentOf("plan") = "root" /\ ParentOf("correction") = "root"
BY Steps12 DEF ParentOf

LEMMA TreeStart == Init => TreeInv
<1> SUFFICES ASSUME Init PROVE TreeInv
  OBVIOUS
<1>1. /\ tracer.posted = <<>> /\ tracer.pending = <<>> /\ tracer.root = "none"
      /\ calls = <<>> /\ pc = "assemble"
  BY DEF Init, NewTracer
<1>2. Hangs(tracer, 0, calls) /\ WaitsFor(tracer, 0, calls, segment)
  BY <1>1 DEF Hangs, WaitsFor
<1> QED BY <1>1, <1>2 DEF TreeInv, ParentsFirst

(* When what waits is claimed, every call that was made hangs in the tree. *)
LEMMA TreeClaimed ==
  ASSUME NEW t \in Tracers, NEW u \in Tracers, NEW s \in {0, 1}, NEW e \in {0, 1},
         NEW parent \in {"root"} \union Segments, s = 1 => parent \in Segments,
         Reported(t, u, s, t.pending, parent, e), u.enabled,
         NEW before \in Nat, NEW made, NEW by,
         Hangs(t, before, made), WaitsFor(t, before, made, by),
         t.pending = <<>> \/ ParentOf(by) = parent
  PROVE  Hangs(u, Len(made), made)
<1>1. PICK waiting : waiting = t.pending
  OBVIOUS
<1>2. waiting \in Seq(Spans)
  BY <1>1 DEF Tracers
<1>3. /\ Len(made) = before + Len(waiting)
      /\ \A j \in 1..Len(waiting) : waiting[j].call = before + j
      /\ \A j \in 1..Len(waiting) : made[before + j].segment = by
  BY <1>1, Zenon DEF WaitsFor
<1>4. \A j \in 1..Len(waiting) : ParentOf(made[before + j].segment) = parent
  <2>1. CASE waiting = <<>>
    BY <2>1
  <2>2. CASE ParentOf(by) = parent
    BY <1>3, <2>2, Zenon
  <2> QED BY <1>1, <2>1, <2>2
<1>5. Hangs(u, before + Len(waiting), made)
  <2>1. /\ s \in {0, 1} /\ e \in {0, 1} /\ parent \in {"root"} \union Segments
        /\ (s = 1 => parent \in Segments)
        /\ Reported(t, u, s, waiting, parent, e) /\ u.enabled /\ before \in Nat
        /\ Hangs(t, before, made)
    BY <1>1
  <2> QED BY ONLY <1>2, <1>3, <1>4, <2>1, TreeReported, t \in Tracers, u \in Tracers
<1> QED BY <1>3, <1>5, Zenon

LEMMA TreeOfReport ==
  ASSUME TypesInv, FlowInv, TreeInv, Reporting, tracer'.enabled
  PROVE  /\ tracer'.pending = <<>> /\ Hangs(tracer', Len(calls), calls)
         /\ tracer'.root \in {"ended", "closed"} => pc' \in {"returned", "measured"}
<1>1. PICK t, u : t = tracer /\ u = tracer'
  OBVIOUS
<1>2. t \in Tracers /\ t.enabled /\ u.enabled /\ segment \in Segments
  BY <1>1, ReportKeeps DEF TypesInv
<1>3. PICK before \in Nat : Hangs(t, before, calls) /\ WaitsFor(t, before, calls, segment)
  BY <1>1, <1>2 DEF TreeInv
<1>4. CASE StepCompletes \/ StepFails
  <2>1. u \in StepDone(t, segment) /\ pc \in {"merge", "failed"} /\ segment # "correction"
    BY <1>1, <1>4 DEF StepCompletes, StepFails
  <2>2. ParentOf(segment) = segment
    BY <1>2, <2>1, Parents DEF FlowInv, Segments, AtWork
  <2>3. /\ u \in Tracers /\ u.pending = <<>>
        /\ u.root = IF t.root = "none" THEN "open" ELSE t.root
        /\ Reported(t, u, 1, t.pending, segment, 0)
    BY <1>2, <2>1, StepReported
  <2>4. Hangs(u, Len(calls), calls)
    BY <1>2, <1>3, <2>2, <2>3, TreeClaimed
  <2>5. t.root \notin {"ended", "closed"}
    BY <1>1, <1>2, <2>1 DEF TreeInv
  <2> QED BY <1>1, <2>3, <2>4, <2>5
<1>5. CASE Return
  <2>1. u \in Trace(t) /\ pc = "trace" /\ pc' = "returned"
    BY <1>1, <1>5 DEF Return, Go
  <2>2. t.pending = <<>> \/ ParentOf(segment) = "root"
    BY <1>1, <1>2, <2>1, Parents DEF TreeInv
  <2>3. u \in Tracers /\ u.pending = <<>> /\ Reported(t, u, 0, t.pending, "root", 1)
    BY <1>2, <2>1, TraceReported
  <2>4. Hangs(u, Len(calls), calls)
    BY <1>2, <1>3, <2>2, <2>3, TreeClaimed
  <2> QED BY <1>1, <2>1, <2>3, <2>4
<1>6. CASE Measure
  <2>1. u \in Finalize(t) /\ pc = "returned" /\ pc' = "measured"
    BY <1>1, <1>6 DEF Measure
  <2>2. t.pending = <<>>
    BY <1>1, <1>2, <2>1 DEF TreeInv
  <2>3. CASE t.root = "none"
    <3>1. u = t
      BY <2>1, <2>3 DEF Finalize
    <3>2. Len(calls) = before
      BY <1>3, <2>2 DEF WaitsFor
    <3> QED BY <1>1, <1>3, <2>1, <2>2, <3>1, <3>2
  <2>4. CASE t.root # "none"
    <3>1. u \in Tracers /\ u.pending = <<>> /\ Reported(t, u, 0, t.pending, "root", 1)
      BY <1>2, <2>1, <2>4, FinalizeReported
    <3>2. Hangs(u, Len(calls), calls)
      BY <1>2, <1>3, <2>2, <3>1, TreeClaimed
    <3> QED BY <1>1, <2>1, <3>1, <3>2
  <2> QED BY <2>3, <2>4
<1> QED BY <1>4, <1>5, <1>6 DEF Reporting

(* A report or a call, or nothing: parents come first. *)
LEMMA OrderStep ==
  ASSUME TypesInv, TypesInv', TreeInv, [Next]_vars
  PROVE  ParentsFirst(tracer'.posted)
<1>1. PICK t, u : t = tracer /\ u = tracer'
  OBVIOUS
<1>2. t \in Tracers /\ u \in Tracers /\ ParentsFirst(t.posted)
  BY <1>1 DEF TypesInv, TreeInv
<1>3. t.enabled => (t.root # "none" => Rooted(t.posted))
  BY <1>1, Zenon DEF TreeInv, Hangs
<1>4. ASSUME NEW s \in {0, 1}, NEW e \in {0, 1}, NEW waiting \in Seq(Spans),
             NEW parent \in {"root"} \union Segments,
             IF s = 1 THEN parent \in Segments ELSE parent = "root",
             Reported(t, u, s, waiting, parent, e), t.enabled
      PROVE  ParentsFirst(u.posted)
  <2>1. t.root # "none" => Rooted(t.posted)
    BY <1>3, <1>4
  <2>2. /\ IF s = 1 THEN parent \in Segments ELSE parent = "root"
        /\ Reported(t, u, s, waiting, parent, e)
    BY <1>4
  <2> QED BY ONLY <1>2, <2>1, <2>2, ReportedInOrder, s \in {0, 1}, e \in {0, 1},
                  waiting \in Seq(Spans), parent \in {"root"} \union Segments
<1>5. CASE u = t
  BY <1>1, <1>2, <1>5
<1>6. CASE Reporting /\ u # t
  <2>1. /\ t.enabled
        /\ \E s \in {0, 1}, e \in {0, 1}, parent \in {"root"} \union Segments :
             /\ IF s = 1 THEN parent \in Segments ELSE parent = "root"
             /\ Reported(t, u, s, t.pending, parent, e)
    BY <1>1, <1>6, ReportKeeps
  <2>2. PICK s \in {0, 1}, e \in {0, 1}, parent \in {"root"} \union Segments :
          /\ IF s = 1 THEN parent \in Segments ELSE parent = "root"
          /\ Reported(t, u, s, t.pending, parent, e)
    BY <2>1
  <2>3. t.pending \in Seq(Spans)
    BY <1>2 DEF Tracers
  <2>4. t.enabled
    BY <2>1
  <2>5. ParentsFirst(u.posted)
    BY ONLY <1>4, <2>2, <2>3, <2>4
  <2> QED BY <1>1, <2>5
<1>7. CASE CallMadeStep /\ t.enabled
  <2>1. PICK content \in Content \union Named : CallReturns(content)
    BY <1>7 DEF CallMadeStep
  <2>2. Len(calls') \in Nat /\ Len(log') \in Nat
    BY LenProperties DEF TypesInv
  <2>3. PICK call, entry : call = Len(calls') /\ entry = NextEntry(tracer, Len(log'))
    OBVIOUS
  <2>4. tracer' \in ModelCall(tracer, Len(calls'), Len(log'), pc = "plan")
    BY <2>1 DEF CallReturns
  <2>5. /\ entry \in Nat
        /\ pc = "plan" => Reported(t, u, 0, OneCall(call, entry), "root", 0)
        /\ pc # "plan" => Reported(t, u, 0, <<>>, "root", 0)
    BY <1>1, <1>7, <2>2, <2>3, <2>4, CallPosted
  <2>6. PICK waiting : waiting = IF pc = "plan" THEN OneCall(call, entry) ELSE <<>>
    OBVIOUS
  <2>7. Reported(t, u, 0, waiting, "root", 0)
    BY <2>5, <2>6
  <2>8. waiting \in Seq(Spans)
    <3>1. PICK span : span = CallSpan(call, entry)
      OBVIOUS
    <3>2. span \in Spans
      BY <2>2, <2>3, <2>5, <3>1, SpansTyped
    <3>3. <<span>> \in Seq(Spans)
      BY <3>2, Single
    <3>4. OneCall(call, entry) = <<span>>
      BY <3>1, Zenon DEF OneCall
    <3> HIDE DEF Spans
    <3> QED BY <2>6, <3>3, <3>4, EmptySeq
  <2>9. 0 \in {0, 1} /\ "root" \in {"root"} \union Segments /\ t.enabled
    BY <1>7
  <2>10. ParentsFirst(u.posted)
    BY ONLY <1>4, <2>7, <2>8, <2>9
  <2> QED BY <1>1, <2>10
<1>8. CASE CallMadeStep /\ ~t.enabled
  <2>1. PICK content \in Content \union Named : CallReturns(content)
    BY <1>8 DEF CallMadeStep
  <2>2. tracer' \in ModelCall(tracer, Len(calls'), Len(log'), pc = "plan")
    BY <2>1 DEF CallReturns
  <2>3. u = t
    BY <1>1, <1>8, <2>2 DEF ModelCall
  <2> QED BY <1>1, <1>2, <2>3
<1> QED BY <1>1, <1>5, <1>6, <1>7, <1>8, StepKinds

(* A call that returns hangs under the root or waits with those before it. *)
LEMMA TreeOfCall ==
  ASSUME TypesInv, TypesInv', FlowInv, TreeInv, CallMadeStep, tracer'.enabled
  PROVE  /\ \E before \in Nat :
              Hangs(tracer', before, calls') /\ WaitsFor(tracer', before, calls', segment)
         /\ tracer'.root \notin {"none", "ended", "closed"}
         /\ pc = "plan" => tracer'.pending = <<>>
<1>1. PICK t, u : t = tracer /\ u = tracer'
  OBVIOUS
<1>2. t \in Tracers /\ u \in Tracers /\ segment \in Segments /\ u.enabled
  BY <1>1 DEF TypesInv
<1>3. PICK content \in Content \union Named : CallReturns(content)
  BY DEF CallMadeStep
<1>4. PICK made, more : made = calls /\ more = calls'
  OBVIOUS
<1>5. /\ Len(more) = Len(made) + 1 /\ Len(made) \in Nat /\ Len(more) \in Nat
      /\ \A n \in 1..Len(made) : more[n] = made[n]
      /\ more[Len(made) + 1].segment = segment
  <2>1. /\ Len(calls') = Len(calls) + 1
        /\ \A n \in 1..Len(calls) : calls'[n] = calls[n]
        /\ calls'[Len(calls) + 1].segment = segment
    BY <1>3, CallTyped DEF CallMadeStep, AtWork
  <2>2. Len(calls) \in Nat
    BY LenProperties DEF TypesInv
  <2> QED BY <1>4, <2>1, <2>2
<1>6. Len(log') \in Nat
  BY LenProperties DEF TypesInv
<1>7. tracer' \in ModelCall(tracer, Len(calls'), Len(log'), pc = "plan")
  BY <1>3 DEF CallReturns
<1>8. t.enabled
  BY <1>1, <1>2, <1>7 DEF ModelCall
<1>9. PICK call, entry : call = Len(calls') /\ entry = NextEntry(tracer, Len(log'))
  OBVIOUS
<1>10. /\ entry \in Nat
       /\ u.root = IF t.root = "none" THEN "open" ELSE t.root
       /\ pc = "plan" => u.pending = t.pending
                         /\ Reported(t, u, 0, OneCall(call, entry), "root", 0)
       /\ pc # "plan" => u.pending = Append(t.pending, CallSpan(call, entry))
                         /\ Reported(t, u, 0, <<>>, "root", 0)
  BY <1>1, <1>4, <1>5, <1>6, <1>7, <1>8, <1>9, CallPosted
<1>11. PICK span : span = CallSpan(call, entry)
  OBVIOUS
<1>12. call = Len(made) + 1 /\ span \in Spans /\ span.call = call
  BY <1>4, <1>5, <1>9, <1>10, <1>11, SpansTyped
<1>13. PICK before \in Nat : Hangs(t, before, made) /\ WaitsFor(t, before, made, segment)
  BY <1>1, <1>4, <1>8 DEF TreeInv
<1>14. /\ Len(made) = before + Len(t.pending) /\ t.pending \in Seq(Spans)
       /\ Len(t.pending) \in Nat
       /\ \A i \in 1..Len(t.pending) :
            t.pending[i].call = before + i /\ made[before + i].segment = segment
  BY <1>2, <1>13, LenProperties DEF WaitsFor, Tracers
<1>15. Hangs(t, before, more)
  <2>1. \A n \in 1..before : more[n].segment = made[n].segment
    BY <1>5, <1>14
  <2> QED BY <1>13, <2>1, HangsStill
<1>16. u.root \notin {"none", "ended", "closed"}
  BY <1>1, <1>2, <1>8, <1>10 DEF TreeInv, CallMadeStep, Tracers
<1>17. CASE pc = "plan"
  <2>1. t.pending = <<>> /\ segment = "plan"
    BY <1>1, <1>8, <1>17 DEF TreeInv, FlowInv
  <2>2. before = Len(made) /\ u.pending = <<>>
    BY <1>10, <1>14, <1>17, <2>1
  <2>3. PICK waiting : waiting = OneCall(call, entry)
    OBVIOUS
  <2>4. waiting \in Seq(Spans) /\ Len(waiting) = 1 /\ waiting[1] = span
    <3>1. waiting = <<span>>
      BY <1>11, <2>3, Zenon DEF OneCall
    <3> QED BY <1>12, <3>1, Single
  <2>5. /\ \A j \in 1..Len(waiting) : waiting[j].call = before + j
        /\ \A j \in 1..Len(waiting) : ParentOf(more[before + j].segment) = "root"
    <3>1. ParentOf(more[before + 1].segment) = "root"
      BY <1>5, <2>1, <2>2, Parents
    <3> QED BY <1>12, <2>2, <2>4, <3>1
  <2>6. Reported(t, u, 0, waiting, "root", 0)
    BY <1>10, <1>17, <2>3
  <2>7. Hangs(u, before + Len(waiting), more)
    BY <1>2, <1>15, <2>4, <2>5, <2>6, TreeCalled
  <2>8. before + Len(waiting) = Len(more) /\ Len(more) \in Nat
    BY <1>5, <2>2, <2>4
  <2>9. Hangs(u, Len(more), more)
    BY <2>7, <2>8, Zenon
  <2>10. WaitsFor(u, Len(more), more, segment)
    BY <1>5, <2>2 DEF WaitsFor
  <2> QED BY <1>1, <1>4, <1>16, <2>2, <2>8, <2>9, <2>10
<1>18. CASE pc # "plan"
  <2>1. PICK waiting : waiting = <<>>
    OBVIOUS
  <2>2. waiting \in Seq(Spans) /\ Len(waiting) = 0
    BY <2>1, EmptySeq
  <2>3. Reported(t, u, 0, waiting, "root", 0)
    BY <1>10, <1>18, <2>1
  <2>4. Hangs(u, before + Len(waiting), more)
    <3>1. /\ \A j \in 1..Len(waiting) : waiting[j].call = before + j
          /\ \A j \in 1..Len(waiting) : ParentOf(more[before + j].segment) = "root"
      BY <2>2
    <3> QED BY <1>2, <1>15, <2>2, <2>3, <3>1, TreeCalled
  <2>5. Hangs(u, before, more)
    <3>1. before + Len(waiting) = before
      BY <2>2
    <3> QED BY <2>4, <3>1, Zenon
  <2>6. u.pending = Append(t.pending, span)
    BY <1>10, <1>11, <1>18
  <2>7. /\ Len(u.pending) = Len(t.pending) + 1
        /\ u.pending[Len(t.pending) + 1] = span
        /\ \A i \in 1..Len(t.pending) : u.pending[i] = t.pending[i]
    <3> HIDE DEF Spans
    <3> QED BY <1>12, <1>14, <2>6, AppendProperties
  <2>8. \A i \in 1..Len(t.pending) :
          u.pending[i].call = before + i /\ more[before + i].segment = segment
    <3> SUFFICES ASSUME NEW i \in 1..Len(t.pending)
                 PROVE  u.pending[i].call = before + i /\ more[before + i].segment = segment
      OBVIOUS
    <3>1. before + i \in 1..Len(made)
      BY <1>14
    <3> QED BY <1>5, <1>14, <2>7, <3>1
  <2>9. span.call = before + (Len(t.pending) + 1)
        /\ more[before + (Len(t.pending) + 1)].segment = segment
    <3>1. before + (Len(t.pending) + 1) = Len(made) + 1
      BY <1>14
    <3> QED BY <1>5, <1>12, <3>1
  <2>10. WaitsFor(u, before, more, segment)
    <3>1. Len(more) = before + Len(u.pending)
      BY <1>5, <1>14, <2>7
    <3>2. \A i \in 1..Len(u.pending) : i \in 1..Len(t.pending) \/ i = Len(t.pending) + 1
      BY <1>14, <2>7
    <3> QED BY <2>7, <2>8, <2>9, <3>1, <3>2 DEF WaitsFor
  <2> QED BY <1>1, <1>4, <1>16, <1>18, <2>5, <2>10
<1> QED BY <1>17, <1>18

LEMMA WaitsForNone ==
  ASSUME NEW t, NEW made, Len(made) \in Nat, t.pending = <<>>
  PROVE  \A by : WaitsFor(t, Len(made), made, by)
BY DEF WaitsFor

LEMMA NoneWaits ==
  ASSUME NEW t, NEW before \in Nat, NEW made, NEW by, t.pending = <<>>,
         WaitsFor(t, before, made, by)
  PROVE  before = Len(made)
BY DEF WaitsFor

LEMMA TreeStep ==
  ASSUME TypesInv, TypesInv', FlowInv, FlowInv', TreeInv, [Next]_vars
  PROVE  TreeInv'
<1> DEFINE Hung == \E before \in Nat :
             Hangs(tracer, before, calls) /\ WaitsFor(tracer, before, calls, segment)
           Waiting == \/ tracer.pending = <<>>
                      \/ pc = "trace" /\ segment = "correction"
<1>1. ParentsFirst(tracer'.posted)
  BY OrderStep
<1>2. Len(calls) \in Nat
  BY LenProperties DEF TypesInv
<1>3. CASE CallMadeStep /\ tracer'.enabled
  <2>1. /\ \E before \in Nat :
             Hangs(tracer', before, calls') /\ WaitsFor(tracer', before, calls', segment)
        /\ tracer'.root \notin {"none", "ended", "closed"}
        /\ pc = "plan" => tracer'.pending = <<>>
    BY <1>3, TreeOfCall
  <2>2. ChoosePlan \/ ChooseCapability \/ Generate
    <3>1. calls' # calls
      <4>1. Len(calls') = Len(calls) + 1
        <5>1. PICK content \in Content \union Named : CallReturns(content)
          BY <1>3 DEF CallMadeStep
        <5> QED BY <1>3, <5>1, CallTyped DEF CallMadeStep, AtWork
      <4> QED BY <1>2, <4>1
    <3> QED BY <3>1 DEF Next, Handle, Assemble, CallRaises, Raises, Retry, GiveUp, SendReply,
                CreateRecord, RecordEffect, StepCompletes, StepFails, Compensated, Return,
                Measure, Waits, StepRaises, Go, vars, books
  <2>3. CASE ChoosePlan
    <3>1. pc = "plan" /\ pc' \in {"select", "returned", "raised"}
      BY <2>3 DEF ChoosePlan
    <3>2. Hung'
      <4>1. PICK before \in Nat :
              Hangs(tracer', before, calls') /\ WaitsFor(tracer', before, calls', segment)
        BY <2>1
      <4>2. PICK u, more : u = tracer' /\ more = calls'
        OBVIOUS
      <4>3. before = Len(more) /\ u.pending = <<>> /\ Hangs(u, before, more)
        BY <2>1, <3>1, <4>1, <4>2, NoneWaits
      <4>4. \A by : WaitsFor(u, before, more, by)
        BY <4>3, WaitsForNone
      <4> QED BY <4>2, <4>3, <4>4
    <3> QED BY <1>1, <2>1, <3>1, <3>2 DEF TreeInv
  <2>4. CASE ChooseCapability \/ Generate
    <3>1. /\ pc' \in {"create", "generate", "failed", "reply", "violated", "broken"}
          /\ segment' = segment
      BY <2>4 DEF ChooseCapability, Generate
    <3>2. Hung'
      BY <2>1, <3>1
    <3> QED BY <1>1, <2>1, <3>1, <3>2 DEF TreeInv
  <2> QED BY <2>2, <2>3, <2>4
<1>4. CASE Reporting /\ tracer'.enabled
  <2>1. /\ tracer'.pending = <<>> /\ Hangs(tracer', Len(calls), calls)
        /\ tracer'.root \in {"ended", "closed"} => pc' \in {"returned", "measured"}
    BY <1>4, TreeOfReport
  <2>2. calls' = calls /\ pc' \notin {"assemble", "plan"}
    BY <1>4 DEF Reporting, StepCompletes, StepFails, Return, Measure, Go
  <2>3. Hung'
    <3>1. PICK u : u = tracer'
      OBVIOUS
    <3>2. \A by : WaitsFor(u, Len(calls), calls, by)
      BY <1>2, <2>1, <3>1, WaitsForNone
    <3> QED BY <1>2, <2>1, <2>2, <3>1, <3>2
  <2> QED BY <1>1, <2>1, <2>2, <2>3 DEF TreeInv
<1>5. CASE calls' = calls /\ tracer' = tracer /\ ~Reporting /\ tracer'.enabled
  <2>1. Hung /\ tracer.enabled
    BY <1>5 DEF TreeInv
  <2>2. CASE Assemble
    <3>1. pc = "assemble" /\ pc' \in {"plan", "select", "refused"}
      BY <2>2 DEF Assemble
    <3>2. tracer.pending = <<>> /\ tracer.root = "none"
      BY <2>1, <3>1 DEF TreeInv
    <3>3. Hung'
      <4>1. PICK before \in Nat :
              Hangs(tracer, before, calls) /\ WaitsFor(tracer, before, calls, segment)
        BY <2>1
      <4>2. before = Len(calls)
        BY <3>2, <4>1, NoneWaits
      <4>3. \A by : WaitsFor(tracer, before, calls, by)
        BY <1>2, <3>2, <4>2, WaitsForNone
      <4> QED BY <1>5, <4>1, <4>3
    <3> QED BY <1>1, <1>5, <3>1, <3>2, <3>3 DEF TreeInv
  <2>3. CASE UNCHANGED <<pc, segment>>
    <3>1. Hung'
      BY <1>5, <2>1, <2>3
    <3> QED BY <1>1, <1>5, <2>1, <2>3, <3>1 DEF TreeInv
  <2>4. CASE /\ segment' = segment /\ pc \notin {"returned", "measured"}
             /\ \/ pc' \in {"raised", "failed", "generate", "merge", "record"}
                \/ pc' = "trace" /\ segment = "correction"
    <3>1. Hung'
      BY <1>5, <2>1, <2>4
    <3>2. tracer.root \notin {"ended", "closed"}
      BY <2>1, <2>4 DEF TreeInv
    <3> QED BY <1>1, <1>5, <2>1, <2>4, <3>1, <3>2 DEF TreeInv
  <2>5. CASE CallRaises \/ Retry \/ GiveUp \/ SendReply \/ CreateRecord \/ RecordEffect
             \/ Compensated \/ StepRaises
    <3>1. CASE CallRaises \/ Compensated
      BY <2>4, <3>1 DEF CallRaises, Raises, Failed, Calling, Compensated, Go
    <3>2. CASE Retry \/ GiveUp \/ SendReply \/ CreateRecord \/ RecordEffect \/ StepRaises
      BY <2>4, <3>2 DEF Retry, GiveUp, SendReply, CreateRecord, RecordEffect, StepRaises, Go
    <3> QED BY <2>5, <3>1, <3>2
  <2>6. CASE Waits \/ UNCHANGED vars
    <3>1. UNCHANGED <<pc, segment>>
      BY <2>6 DEF Waits, vars
    <3> QED BY <2>3, <3>1
  <2>7. ~(ChoosePlan \/ ChooseCapability \/ Generate)
    <3>1. ASSUME CallMadeStep PROVE FALSE
      <4>1. PICK content \in Content \union Named : CallReturns(content)
        BY <3>1 DEF CallMadeStep
      <4>2. Len(calls') = Len(calls) + 1
        BY <3>1, <4>1, CallTyped DEF CallMadeStep, AtWork
      <4> QED BY <1>2, <1>5, <4>2
    <3>2. ASSUME ChoosePlan \/ ChooseCapability \/ Generate PROVE calls' # calls
      <4>1. \E made : calls' = Append(calls, made)
        BY <3>2 DEF ChoosePlan, ChooseCapability, Generate, CallReturns
      <4>2. calls \in Seq(CallMade) /\ calls' \in Seq(CallMade)
        BY DEF TypesInv
      <4>3. PICK made : calls' = Append(calls, made)
        BY <4>1
      <4> QED BY <1>2, <4>2, <4>3
    <3> QED BY <1>5, <3>2
  <2> QED BY <1>5, <2>2, <2>5, <2>6, <2>7 DEF Next, Handle, Reporting
<1>6. CASE ~tracer'.enabled
  BY <1>1, <1>6 DEF TreeInv
<1> QED BY <1>3, <1>4, <1>5, <1>6, StepKinds

LEMMA TracedWhenClosed == TypesInv /\ TreeInv => CallsTraced
<1> SUFFICES ASSUME TypesInv, TreeInv PROVE CallsTraced
  OBVIOUS
<1>1. ASSUME tracer.enabled, tracer.root \in {"ended", "closed"}, NEW n \in DOMAIN calls
      PROVE  /\ Count(tracer.posted, LAMBDA span : span.call = n) = 1
             /\ \E span \in ToSet(tracer.posted) :
                  span.call = n /\ span.parent = ParentOf(calls[n].segment)
  <2>1. tracer.pending = <<>>
    BY <1>1 DEF TreeInv
  <2>2. PICK before \in Nat :
          Hangs(tracer, before, calls) /\ WaitsFor(tracer, before, calls, segment)
    BY <1>1 DEF TreeInv
  <2>3. n \in 1..before
    <3>1. before = Len(calls)
      BY <2>1, <2>2, NoneWaits
    <3> QED BY <3>1, LenProperties DEF TypesInv
  <2>4. OnceIn(tracer.posted, n, ParentOf(calls[n].segment))
    BY <2>2, <2>3, Zenon DEF Hangs
  <2>5. PICK i \in DOMAIN tracer.posted :
          /\ tracer.posted[i].call = n /\ tracer.posted[i].parent = ParentOf(calls[n].segment)
          /\ \A j \in DOMAIN tracer.posted : tracer.posted[j].call = n => j = i
    BY <2>4, Zenon DEF OnceIn
  <2>6. {j \in DOMAIN tracer.posted : tracer.posted[j].call = n} = {i}
    BY <2>5
  <2>7. Count(tracer.posted, LAMBDA span : span.call = n) = 1
    BY <2>6, FS_Singleton DEF Count
  <2>8. tracer.posted[i] \in ToSet(tracer.posted)
    BY <2>5 DEF ToSet
  <2> QED BY <2>5, <2>7, <2>8
<1> QED BY <1>1, Zenon DEF CallsTraced, TreeInv, ParentsFirst

-----------------------------------------------------------------------------
(* The three books that the row is read from.                               *)

LEMMA OneMore ==
  ASSUME NEW n \in Nat, NEW old \in SUBSET (1..n)
  PROVE  /\ IsFiniteSet(old) /\ Cardinality(old) \in Nat
         /\ Cardinality(old \union {n + 1}) = Cardinality(old) + 1
<1>1. IsFiniteSet(1..n)
  BY FS_Interval
<1>2. IsFiniteSet(old)
  BY <1>1, FS_Subset
<1>3. n + 1 \notin old
  OBVIOUS
<1> QED BY <1>2, <1>3, FS_AddElement, FS_CardinalityType

LEMMA PlacesBounded ==
  ASSUME NEW S, NEW seq \in Seq(S), NEW x \in S, NEW longer, longer = Append(seq, x)
  PROVE  /\ Len(seq) \in Nat /\ DOMAIN seq = 1..Len(seq)
         /\ DOMAIN longer = 1..(Len(seq) + 1) /\ longer[Len(seq) + 1] = x
         /\ \A i \in 1..Len(seq) : longer[i] = seq[i]
         /\ longer \in Seq(S)
<1>1. /\ longer \in Seq(S) /\ Len(longer) = Len(seq) + 1
      /\ longer[Len(seq) + 1] = x
      /\ \A i \in 1..Len(seq) : longer[i] = seq[i]
  BY AppendProperties
<1> QED BY <1>1, LenProperties

(* What an event adds to the counts of the trail, *)
Tells(e, action) == e.kind = "output_contract" /\ e.what = action

ContractEvents(events, action) ==
  {i \in DOMAIN events : events[i].kind = "output_contract" /\ events[i].what = action}

LEMMA ContractCounts ==
  ASSUME NEW events, NEW action
  PROVE  Contract(events, action) = Cardinality(ContractEvents(events, action))
BY DEF Contract, Count, ContractEvents

LEMMA ContractNat ==
  ASSUME NEW events \in Seq(Events), NEW action
  PROVE  Contract(events, action) \in Nat
<1>1. ContractEvents(events, action) \in SUBSET (1..Len(events)) /\ Len(events) \in Nat
  BY LenProperties DEF ContractEvents
<1> QED BY <1>1, OneMore, ContractCounts

LEMMA ContractAdded ==
  ASSUME NEW events \in Seq(Events), NEW e \in Events, NEW longer, longer = Append(events, e),
         NEW action
  PROVE  /\ longer \in Seq(Events)
         /\ Tells(e, action) =>
              Contract(longer, action) = Contract(events, action) + 1
         /\ ~Tells(e, action) =>
              Contract(longer, action) = Contract(events, action)
<1>1. /\ Len(events) \in Nat /\ DOMAIN events = 1..Len(events)
      /\ DOMAIN longer = 1..(Len(events) + 1) /\ longer[Len(events) + 1] = e
      /\ \A i \in 1..Len(events) : longer[i] = events[i]
      /\ longer \in Seq(Events)
  BY PlacesBounded
<1>2. PICK old : old = ContractEvents(events, action)
  OBVIOUS
<1>3. old \in SUBSET (1..Len(events))
  BY <1>1, <1>2 DEF ContractEvents, Tells
<1>4. ASSUME Tells(e, action)
      PROVE  Contract(longer, action) = Contract(events, action) + 1
  <2>1. ContractEvents(longer, action) = old \union {Len(events) + 1}
    BY <1>1, <1>2, <1>4 DEF ContractEvents, Tells
  <2> QED BY <1>1, <1>2, <1>3, <2>1, OneMore, ContractCounts
<1>5. ASSUME ~Tells(e, action)
      PROVE  Contract(longer, action) = Contract(events, action)
  <2>1. ContractEvents(longer, action) = old
    BY <1>1, <1>2, <1>5 DEF ContractEvents, Tells
  <2> QED BY <1>2, <2>1, ContractCounts
<1> QED BY <1>1, <1>4, <1>5, Zenon

LEMMA SelectionAdded ==
  ASSUME NEW events \in Seq(Events), NEW e \in Events, NEW longer, longer = Append(events, e)
  PROVE  /\ Cardinality(SelectionsIn(events)) \in Nat
         /\ Cardinality(SelectionsIn(longer)) =
              IF e.kind = "proposal" /\ e.step = "selection"
              THEN Cardinality(SelectionsIn(events)) + 1 ELSE Cardinality(SelectionsIn(events))
<1>1. /\ Len(events) \in Nat /\ DOMAIN events = 1..Len(events)
      /\ DOMAIN longer = 1..(Len(events) + 1) /\ longer[Len(events) + 1] = e
      /\ \A i \in 1..Len(events) : longer[i] = events[i]
  BY PlacesBounded
<1>2. PICK old : old = SelectionsIn(events)
  OBVIOUS
<1>3. old \in SUBSET (1..Len(events))
  BY <1>1, <1>2 DEF SelectionsIn
<1>4. CASE e.kind = "proposal" /\ e.step = "selection"
  <2>1. SelectionsIn(longer) = old \union {Len(events) + 1}
    BY <1>1, <1>2, <1>4 DEF SelectionsIn
  <2> QED BY <1>1, <1>2, <1>3, <1>4, <2>1, OneMore
<1>5. CASE ~(e.kind = "proposal" /\ e.step = "selection")
  <2>1. SelectionsIn(longer) = old
    BY <1>1, <1>2, <1>5 DEF SelectionsIn
  <2> QED BY <1>1, <1>2, <1>3, <1>5, <2>1, OneMore
<1> QED BY <1>4, <1>5

(* and an entry to those of the log. *)
LEMMA BrokenNat ==
  ASSUME NEW entries \in Seq(Entries)
  PROVE  /\ Broken(entries) \in SUBSET (1..Len(entries)) /\ Len(entries) \in Nat
         /\ IsFiniteSet(Broken(entries)) /\ Cardinality(Broken(entries)) \in Nat
<1>1. Broken(entries) \in SUBSET (1..Len(entries)) /\ Len(entries) \in Nat
  BY LenProperties DEF Broken
<1> QED BY <1>1, OneMore

LEMMA EntryAdded ==
  ASSUME NEW entries \in Seq(Entries), NEW entry \in Entries, NEW longer,
         longer = Append(entries, entry)
  PROVE  /\ entry.purpose = "generation" /\ ~Conforms(entry.content) =>
              Cardinality(Broken(longer)) = Cardinality(Broken(entries)) + 1
         /\ entry.purpose = "selection" \/ Conforms(entry.content) =>
              Cardinality(Broken(longer)) = Cardinality(Broken(entries))
         /\ ~SelectionViolation(entry) => Strays(longer) = Strays(entries)
<1>1. /\ Len(entries) \in Nat /\ DOMAIN entries = 1..Len(entries)
      /\ DOMAIN longer = 1..(Len(entries) + 1) /\ longer[Len(entries) + 1] = entry
      /\ \A i \in 1..Len(entries) : longer[i] = entries[i]
  BY PlacesBounded
<1>2. PICK old : old = Broken(entries)
  OBVIOUS
<1>3. old \in SUBSET (1..Len(entries))
  BY <1>1, <1>2 DEF Broken
<1>4. ASSUME entry.purpose = "generation" /\ ~Conforms(entry.content)
      PROVE  Cardinality(Broken(longer)) = Cardinality(Broken(entries)) + 1
  <2>1. Broken(longer) = old \union {Len(entries) + 1}
    BY <1>1, <1>2, <1>4 DEF Broken
  <2> QED BY <1>1, <1>2, <1>3, <2>1, OneMore
<1>5. ASSUME entry.purpose = "selection" \/ Conforms(entry.content)
      PROVE  Cardinality(Broken(longer)) = Cardinality(Broken(entries))
  <2>1. Broken(longer) = old
    BY <1>1, <1>2, <1>5 DEF Broken
  <2> QED BY <1>2, <2>1, Zenon
<1>6. ~SelectionViolation(entry) => Strays(longer) = Strays(entries)
  BY <1>1 DEF Strays
<1> QED BY <1>4, <1>5, <1>6, Zenon

LEMMA CallLogged ==
  ASSUME TypesInv, NEW content \in Content \union Named, CallReturns(content),
         Len(calls') \in Nat
  PROVE  \E entry \in Entries :
           /\ entry.purpose = Purpose /\ entry.content = content
           /\ log' = IF config.recording THEN Append(log, entry) ELSE log
<1> DEFINE entry == [call |-> Len(calls'), purpose |-> Purpose, content |-> content]
<1>1. Purpose \in {"selection", "generation"}
  BY DEF Purpose
<1>2. entry \in Entries /\ entry.purpose = Purpose /\ entry.content = content
  BY <1>1 DEF Entries
<1>3. log' = IF config.recording THEN Append(log, entry) ELSE log
  BY DEF CallReturns, Logged
<1> HIDE DEF entry
<1> QED BY <1>2, <1>3

LEMMA SelectionLogged ==
  ASSUME TypesInv, pc \in {"plan", "select"}, NEW content \in Named, CallReturns(content),
         Len(calls') \in Nat
  PROVE  /\ Cardinality(Broken(log')) = Cardinality(Broken(log))
         /\ content # "stray" => Strays(log') = Strays(log)
<1>1. PICK entry \in Entries :
        /\ entry.purpose = Purpose /\ entry.content = content
        /\ log' = IF config.recording THEN Append(log, entry) ELSE log
  BY CallLogged
<1>2. entry.purpose = "selection"
  BY <1>1 DEF Purpose
<1>3. CASE ~config.recording
  BY <1>1, <1>3
<1>4. CASE config.recording
  <2>1. PICK longer : longer = Append(log, entry)
    OBVIOUS
  <2>2. log' = longer /\ log \in Seq(Entries)
    BY <1>1, <1>4, <2>1 DEF TypesInv
  <2>3. Cardinality(Broken(longer)) = Cardinality(Broken(log))
    BY <1>2, <2>1, <2>2, EntryAdded
  <2>4. content # "stray" => ~SelectionViolation(entry)
    BY <1>1 DEF SelectionViolation
  <2>5. content # "stray" => Strays(longer) = Strays(log)
    BY <2>1, <2>2, <2>4, EntryAdded
  <2> QED BY <2>2, <2>3, <2>5
<1> QED BY <1>3, <1>4

LEMMA GenerationLogged ==
  ASSUME TypesInv, pc = "generate", NEW content \in Content, CallReturns(content),
         Len(calls') \in Nat
  PROVE  /\ config.recording /\ ~Conforms(content) =>
              Cardinality(Broken(log')) = Cardinality(Broken(log)) + 1
         /\ config.recording /\ Conforms(content) =>
              Cardinality(Broken(log')) = Cardinality(Broken(log))
         /\ Strays(log') = Strays(log)
<1>1. PICK entry \in Entries :
        /\ entry.purpose = Purpose /\ entry.content = content
        /\ log' = IF config.recording THEN Append(log, entry) ELSE log
  BY CallLogged
<1>2. entry.purpose = "generation" /\ ~SelectionViolation(entry)
  BY <1>1 DEF Purpose, SelectionViolation
<1>3. CASE ~config.recording
  BY <1>1, <1>3
<1>4. CASE config.recording
  <2>1. PICK longer : longer = Append(log, entry)
    OBVIOUS
  <2>2. log' = longer /\ log \in Seq(Entries)
    BY <1>1, <1>4, <2>1 DEF TypesInv
  <2>3. Strays(longer) = Strays(log)
    BY <1>2, <2>1, <2>2, EntryAdded
  <2>4. ASSUME ~Conforms(content)
        PROVE  Cardinality(Broken(longer)) = Cardinality(Broken(log)) + 1
    <3>1. ~Conforms(entry.content)
      BY <1>1, <2>4, Zenon
    <3> QED BY <1>2, <2>1, <2>2, <3>1, EntryAdded
  <2>5. ASSUME Conforms(content)
        PROVE  Cardinality(Broken(longer)) = Cardinality(Broken(log))
    <3>1. Conforms(entry.content)
      BY <1>1, <2>5, Zenon
    <3> QED BY <2>1, <2>2, <3>1, EntryAdded
  <2> QED BY <2>2, <2>3, <2>4, <2>5, Zenon
<1> QED BY <1>3, <1>4

LEMMA CountsTyped ==
  ASSUME TypesInv
  PROVE  /\ Cardinality(Broken(log)) \in Nat /\ unaudited \in Nat
         /\ \A action : Contract(trail, action) \in Nat
         /\ Cardinality(SelectionsIn(trail)) \in Nat
<1>1. log \in Seq(Entries) /\ trail \in Seq(Events) /\ unaudited \in Nat
  BY DEF TypesInv
<1>2. SelectionsIn(trail) \in SUBSET (1..Len(trail)) /\ Len(trail) \in Nat
  BY <1>1, LenProperties DEF SelectionsIn
<1> QED BY <1>1, <1>2, BrokenNat, ContractNat, OneMore

(* The steps that leave the books alone. *)
LEMMA TruthKept ==
  ASSUME TypesInv, TruthInv, config' = config, log' = log, trail' = trail,
         unaudited' = unaudited, InHand' = InHand, Retrying' = Retrying \/ Retrying' = 0,
         Healthy' => Healthy /\ ChoicesMade' = ChoicesMade,
         row' = NoRow \/ pc' = "measured"
  PROVE  TruthInv'
<1>1. Contract(trail, "failed") + Retrying' <= Contract(trail, "retry")
  <2>1. /\ Contract(trail, "failed") \in Nat /\ Contract(trail, "retry") \in Nat
        /\ Retrying \in Nat
    BY CountsTyped DEF Retrying
  <2> QED BY <2>1 DEF TruthInv
<1> QED BY <1>1 DEF TruthInv

Quiet ==
  \/ Assemble \/ CallRaises \/ SendReply \/ CreateRecord \/ RecordEffect \/ StepRaises
  \/ StepCompletes \/ StepFails \/ Compensated \/ Return \/ Measure \/ Waits \/ UNCHANGED vars

LEMMA QuietStep ==
  ASSUME TypesInv, FlowInv, TruthInv, Quiet
  PROVE  TruthInv'
<1>1. row = NoRow \/ pc = "measured"
  BY DEF TruthInv
<1>2. /\ config' = config /\ log' = log /\ trail' = trail /\ unaudited' = unaudited
      /\ row' = NoRow \/ pc' = "measured"
  <2>1. CASE Assemble \/ CallRaises \/ Waits \/ UNCHANGED vars
    BY <1>1, <2>1 DEF Assemble, CallRaises, Raises, Calling, Waits, vars, books
  <2>2. CASE SendReply \/ CreateRecord \/ RecordEffect \/ StepRaises
    BY <1>1, <2>2 DEF SendReply, CreateRecord, RecordEffect, StepRaises, Go, books
  <2>3. CASE StepCompletes \/ StepFails \/ Compensated \/ Return \/ Measure
    BY <1>1, <2>3 DEF StepCompletes, StepFails, Compensated, Return, Measure, Go, books
  <2> QED BY <2>1, <2>2, <2>3 DEF Quiet
<1>3. Retrying' = Retrying \/ Retrying' = 0
  BY DEF Quiet, Retrying, Assemble, CallRaises, Raises, Failed, SendReply, CreateRecord,
         RecordEffect, StepRaises, StepCompletes, StepFails, Compensated, Return, Measure,
         Waits, vars, Go
<1>4. InHand' = InHand
  BY DEF Quiet, InHand, Assemble, CallRaises, Raises, Calling, Failed, SendReply, CreateRecord,
         RecordEffect, StepRaises, StepCompletes, StepFails, Compensated, Return, Measure,
         Waits, vars, Go
<1>5. Healthy' => Healthy /\ ChoicesMade' = ChoicesMade
  <2>1. CASE Assemble
    BY <2>1 DEF Assemble, Healthy, ChoicesMade, FlowInv, AtWork
  <2>2. CASE CallRaises
    BY <2>2 DEF CallRaises, Raises, Calling, Failed, Healthy, FlowInv, AtWork
  <2>3. CASE SendReply \/ CreateRecord \/ RecordEffect
    BY <2>3 DEF SendReply, CreateRecord, RecordEffect, Go, Healthy, ChoicesMade, FlowInv, AtWork
  <2>4. CASE StepRaises \/ Compensated
    BY <2>4 DEF StepRaises, Compensated, Go, Healthy, FlowInv, AtWork
  <2>5. CASE StepCompletes
    BY <2>5 DEF StepCompletes, Go, Healthy, ChoicesMade, FlowInv, AtWork
  <2>6. CASE StepFails
    BY <2>6 DEF StepFails, Go, Healthy, FlowInv, AtWork
  <2>7. CASE Return \/ Measure
    BY <2>7 DEF Return, Measure, Go, Healthy, ChoicesMade, FlowInv, AtWork
  <2>8. CASE Waits \/ UNCHANGED vars
    BY <2>8 DEF Waits, vars, Healthy, ChoicesMade
  <2> QED BY <2>1, <2>2, <2>3, <2>4, <2>5, <2>6, <2>7, <2>8 DEF Quiet
<1> QED BY <1>2, <1>3, <1>4, <1>5, TruthKept

LEMMA TruthStart == Init => TruthInv
<1> SUFFICES ASSUME Init PROVE TruthInv
  OBVIOUS
<1>1. /\ log = <<>> /\ trail = <<>> /\ unaudited = 0 /\ row = NoRow
      /\ pc = "assemble" /\ segment = "plan"
  BY DEF Init
<1>2. Broken(log) = {} /\ Strays(log) = {} /\ SelectionsIn(trail) = {}
  BY <1>1 DEF Broken, Strays, SelectionsIn
<1>3. \A action : ContractEvents(trail, action) = {}
  BY <1>1 DEF ContractEvents
<1>4. Cardinality({}) = 0
  BY FS_EmptySet
<1>5. \A action : Contract(trail, action) = 0
  BY <1>3, <1>4, ContractCounts
<1>6. InHand = 0 /\ Retrying = 0 /\ ChoicesMade = 0
  BY <1>1 DEF InHand, Retrying, ChoicesMade
<1>7. /\ Contract(trail, "violation") = 0 /\ Contract(trail, "retry") = 0
      /\ Contract(trail, "failed") = 0
  BY <1>5
<1>8. Cardinality(Broken(log)) = 0 /\ Strays(log) = {} /\ Cardinality(SelectionsIn(trail)) = 0
  BY <1>2, <1>4
<1> QED BY <1>1, <1>6, <1>7, <1>8 DEF TruthInv

LEMMA TruthOfChoice ==
  ASSUME TypesInv, TypesInv', FlowInv, TruthInv, ChoosePlan \/ ChooseCapability
  PROVE  TruthInv'
<1>1. PICK chosen \in Named :
        /\ CallReturns(chosen)
        /\ \/ /\ \/ pc = "plan" /\ trail' = Append(trail, Proposal("plan-selection", chosen))
                 \/ pc = "select" /\ trail' = Append(trail, Proposal("selection", chosen))
              /\ \/ /\ chosen = "offered" /\ status' = status
                    /\ IF pc = "plan" THEN pc' = "select" /\ segment' = "acknowledge"
                       ELSE /\ segment' = segment
                            /\ pc' = IF segment = "register" THEN "create" ELSE "generate"
                 \/ pc' \in {"returned", "failed"} /\ status' \in {status, "rejected"}
           \/ /\ pc' \in {"failed", "raised"} /\ status' \in {status, "raised"}
              /\ trail' = trail
  <2>1. CASE ChoosePlan
    BY <2>1, PicksNamed DEF ChoosePlan
  <2>2. CASE ChooseCapability
    BY <2>2, PicksNamed DEF ChooseCapability
  <2> QED BY <2>1, <2>2
<1>2. /\ pc \in {"plan", "select"} /\ config' = config /\ unaudited' = unaudited
      /\ row' = row /\ attempt' = attempt
  BY DEF ChoosePlan, ChooseCapability
<1>3. Len(calls') \in Nat
  BY LenProperties DEF TypesInv
<1>4. /\ Cardinality(Broken(log')) = Cardinality(Broken(log))
      /\ chosen # "stray" => Strays(log') = Strays(log)
  BY <1>1, <1>2, <1>3, SelectionLogged
<1>5. /\ \A action \in {"violation", "retry", "failed"} :
           Contract(trail', action) = Contract(trail, action)
      /\ pc' \in {"select", "create", "generate"} =>
           Cardinality(SelectionsIn(trail')) =
             IF pc = "plan" THEN Cardinality(SelectionsIn(trail))
             ELSE Cardinality(SelectionsIn(trail)) + 1
  <2>1. CASE trail' = trail
    BY <1>1, <2>1
  <2>2. CASE trail' # trail
    <3>1. PICK step \in {"plan-selection", "selection"}, e \in Events :
            /\ e = Proposal(step, chosen) /\ trail' = Append(trail, e)
            /\ step = IF pc = "plan" THEN "plan-selection" ELSE "selection"
      BY <1>1, <2>2, EventsTyped
    <3>2. e.kind = "proposal" /\ e.step = step
      BY <3>1 DEF Proposal
    <3>3. PICK events, longer : events = trail /\ longer = trail'
      OBVIOUS
    <3>4. events \in Seq(Events) /\ longer = Append(events, e)
      BY <3>1, <3>3 DEF TypesInv
    <3>5. ASSUME NEW action PROVE Contract(longer, action) = Contract(events, action)
      <4>1. ~Tells(e, action)
        BY <3>2 DEF Tells
      <4> QED BY <3>4, <4>1, ContractAdded
    <3>6. Cardinality(SelectionsIn(longer)) =
            IF step = "selection" THEN Cardinality(SelectionsIn(events)) + 1
            ELSE Cardinality(SelectionsIn(events))
      BY <3>2, <3>4, SelectionAdded
    <3> QED BY <3>1, <3>3, <3>5, <3>6
  <2> QED BY <2>1, <2>2
<1>6. InHand = 0 /\ InHand' = 0 /\ Retrying' = 0 /\ status = "none" /\ row = NoRow
  BY <1>1, <1>2 DEF InHand, Retrying, FlowInv, AtWork, TruthInv
<1>7. Healthy' => /\ Healthy /\ chosen = "offered" /\ pc' \in {"select", "create", "generate"}
                  /\ ChoicesMade' = IF pc = "plan" THEN ChoicesMade ELSE ChoicesMade + 1
  BY <1>1, <1>2, <1>6 DEF Healthy, ChoicesMade, FlowInv, AtWork, TypesInv, Segments
<1>8. Contract(trail, "failed") <= Contract(trail, "retry")
  <2>1. Contract(trail, "failed") \in Nat /\ Contract(trail, "retry") \in Nat /\ Retrying \in Nat
    BY CountsTyped DEF Retrying
  <2> QED BY <2>1 DEF TruthInv
<1>9. Healthy' => Strays(log') = {} /\ Cardinality(SelectionsIn(trail')) = ChoicesMade'
  BY <1>4, <1>5, <1>7 DEF TruthInv
<1>10. Contract(trail', "failed") + Retrying' <= Contract(trail', "retry")
  BY <1>5, <1>6, <1>8, CountsTyped
<1> QED BY <1>2, <1>4, <1>5, <1>6, <1>7, <1>9, <1>10 DEF TruthInv

LEMMA TruthOfAnswer ==
  ASSUME TypesInv, TypesInv', FlowInv, TruthInv, Generate
  PROVE  TruthInv'
<1>1. PICK answer \in Answers(config.provider, SchemaArrives(config), segment = "correction") :
        /\ CallReturns(RecordedAs(config, answer))
        /\ draft' = Received(config, answer)
  BY DEF Generate
<1>2. PICK content : content = RecordedAs(config, answer)
  OBVIOUS
<1>3. content \in Content /\ CallReturns(content) /\ draft' = content
  BY <1>1, <1>2, AnswersTyped, DecoratedTyped DEF RecordedAs, Received
<1>4. /\ pc = "generate" /\ config' = config /\ trail' = trail /\ unaudited' = unaudited
      /\ row' = row /\ attempt' = attempt /\ segment' = segment /\ status' = status
      /\ attempt \in {1, 2} /\ config.recording \in BOOLEAN
  BY Platform DEF Generate, TypesInv
<1>5. Len(calls') \in Nat
  BY LenProperties DEF TypesInv
<1>6. /\ config.recording /\ ~Conforms(content) =>
           Cardinality(Broken(log')) = Cardinality(Broken(log)) + 1
      /\ config.recording /\ Conforms(content) =>
           Cardinality(Broken(log')) = Cardinality(Broken(log))
      /\ Strays(log') = Strays(log)
  BY <1>3, <1>4, <1>5, GenerationLogged
<1>7. pc' = IF Accepts(draft') THEN "reply" ELSE IF attempt = 1 THEN "violated" ELSE "broken"
  BY DEF Generate
<1>8. /\ Conforms(content) => pc' = "reply"
      /\ ~Conforms(content) => pc' = IF attempt = 1 THEN "violated" ELSE "broken"
  BY <1>3, <1>7 DEF Accepts
<1>9. row = NoRow /\ InHand = 0
  BY <1>4 DEF TruthInv, InHand
<1>10. config.recording => Cardinality(Broken(log')) = Cardinality(Broken(log)) + InHand'
  <2>1. CASE Conforms(content)
    <3>1. InHand' = 0
      BY <1>8, <2>1 DEF InHand
    <3> QED BY <1>6, <2>1, <3>1, CountsTyped
  <2>2. CASE ~Conforms(content)
    <3>1. InHand' = 1
      BY <1>8, <2>2 DEF InHand
    <3> QED BY <1>6, <2>2, <3>1
  <2> QED BY <2>1, <2>2
<1>11. Retrying' = Retrying \/ Retrying' = 0
  <2>1. pc' \in {"reply", "violated", "broken"} /\ (pc' = "broken" => attempt = 2)
    BY <1>4, <1>7
  <2> QED BY <1>4, <2>1 DEF Retrying
<1>12. Contract(trail, "failed") + Retrying' <= Contract(trail, "retry")
  <2>1. /\ Contract(trail, "failed") \in Nat /\ Contract(trail, "retry") \in Nat
        /\ Retrying \in Nat
    BY CountsTyped DEF Retrying
  <2> QED BY <1>11, <2>1 DEF TruthInv
<1>13. Healthy' => Healthy /\ ChoicesMade' = ChoicesMade
  BY <1>4, <1>7 DEF Healthy, ChoicesMade, AtWork, FlowInv
<1>14. config.recording =>
         Cardinality(Broken(log')) =
           Contract(trail, "violation") + Contract(trail, "failed") + unaudited + InHand'
  <2>1. InHand' \in Nat
    BY DEF InHand
  <2>2. Contract(trail, "violation") \in Nat /\ Contract(trail, "failed") \in Nat
        /\ unaudited \in Nat
    BY CountsTyped
  <2>3. config.recording =>
          Cardinality(Broken(log)) =
            Contract(trail, "violation") + Contract(trail, "failed") + unaudited
    BY <1>9, <2>2 DEF TruthInv
  <2> QED BY <1>10, <2>1, <2>2, <2>3
<1> QED BY <1>4, <1>6, <1>9, <1>12, <1>13, <1>14 DEF TruthInv

(* The contract's events, one or two at a time. *)
Adds(events, longer, what) ==
  /\ longer \in Seq(Events)
  /\ Contract(longer, what) = Contract(events, what) + 1
  /\ \A action : action # what => Contract(longer, action) = Contract(events, action)
  /\ Cardinality(SelectionsIn(longer)) = Cardinality(SelectionsIn(events))

LEMMA ContractEventAdded ==
  ASSUME segment \in Segments, NEW events \in Seq(Events), NEW what,
         what \in {"violation", "retry", "failed"},
         NEW longer, longer = Append(events, ContractEvent(what))
  PROVE  Adds(events, longer, what)
<1>1. PICK e \in Events : e = ContractEvent(what)
  BY EventsTyped
<1>2. e.kind = "output_contract" /\ e.what = what
  BY <1>1 DEF ContractEvent
<1>3. longer = Append(events, e)
  BY <1>1
<1>4. ASSUME NEW action, action # what
      PROVE  Contract(longer, action) = Contract(events, action)
  <2>1. ~Tells(e, action)
    BY <1>4, <1>2 DEF Tells
  <2> QED BY ONLY <1>3, <2>1, ContractAdded, events \in Seq(Events), e \in Events
<1>5. Contract(longer, what) = Contract(events, what) + 1
  <2>1. Tells(e, what)
    BY <1>2 DEF Tells
  <2> QED BY ONLY <1>3, <2>1, ContractAdded, events \in Seq(Events), e \in Events
<1>7. longer \in Seq(Events)
  BY ONLY <1>3, ContractAdded, events \in Seq(Events), e \in Events
<1>6. Cardinality(SelectionsIn(longer)) = Cardinality(SelectionsIn(events))
  <2>1. e.kind # "proposal"
    BY <1>2
  <2> QED BY <1>3, <2>1, SelectionAdded
<1> QED BY <1>4, <1>5, <1>6, <1>7 DEF Adds

LEMMA TruthOfRetry ==
  ASSUME TypesInv, FlowInv, TruthInv, Retry
  PROVE  TruthInv'
<1>1. /\ pc = "violated" /\ log' = log /\ config' = config /\ row' = row
      /\ segment' = segment /\ status' = status /\ status = "none" /\ attempt = 1
      /\ segment \in Segments /\ trail \in Seq(Events)
  BY DEF Retry, Go, books, FlowInv, AtWork, TypesInv
<1>2. row = NoRow /\ InHand = 1 /\ Retrying = 0
  BY <1>1 DEF TruthInv, InHand, Retrying
<1>3. PICK b, v, f, r, n : /\ b = Cardinality(Broken(log)) /\ v = Contract(trail, "violation")
                           /\ f = Contract(trail, "failed") /\ r = Contract(trail, "retry")
                           /\ n = Cardinality(SelectionsIn(trail))
  OBVIOUS
<1>4. b \in Nat /\ v \in Nat /\ f \in Nat /\ r \in Nat /\ unaudited \in Nat
  BY <1>3, CountsTyped
<1>5. /\ config.recording => b = v + f + unaudited + 1
      /\ f <= r /\ r <= v
      /\ Healthy => /\ Strays(log) = {} /\ unaudited = 0 /\ f = 0 /\ r = v
                    /\ n = ChoicesMade
  BY <1>2, <1>3, <1>4 DEF TruthInv
<1>6. PICK first : first = Append(trail, ContractEvent("violation"))
  OBVIOUS
<1>7. /\ first \in Seq(Events) /\ Contract(first, "violation") = v + 1
      /\ Contract(first, "failed") = f /\ Contract(first, "retry") = r
      /\ Cardinality(SelectionsIn(first)) = n
  <2>1. Adds(trail, first, "violation")
    BY <1>1, <1>6, ContractEventAdded
  <2> QED BY <1>3, <2>1 DEF Adds
<1>8. CASE /\ trail' = trail \o <<ContractEvent("violation"), ContractEvent("retry")>>
           /\ attempt' = 2 /\ pc' = "generate" /\ unaudited' = unaudited
  <2>1. PICK both : both = Append(first, ContractEvent("retry"))
    OBVIOUS
  <2>2. trail' = both
    <3>1. PICK one, two : one = ContractEvent("violation") /\ two = ContractEvent("retry")
      OBVIOUS
    <3>2. one \in Events /\ two \in Events
      BY <1>1, <3>1, EventsTyped
    <3>3. trail \o <<one, two>> = Append(Append(trail, one), two)
      <4> HIDE DEF Events
      <4> QED BY <1>1, <3>2
    <3> QED BY <1>6, <1>8, <2>1, <3>1, <3>3
  <2>3. /\ Contract(both, "violation") = v + 1 /\ Contract(both, "failed") = f
        /\ Contract(both, "retry") = r + 1 /\ Cardinality(SelectionsIn(both)) = n
    <3>1. Adds(first, both, "retry")
      BY <1>1, <1>7, <2>1, ContractEventAdded
    <3> QED BY <1>7, <3>1 DEF Adds
  <2>4. InHand' = 0 /\ Retrying' = 1
    BY <1>8 DEF InHand, Retrying
  <2>5. Healthy' => Healthy /\ ChoicesMade' = ChoicesMade
    BY <1>1, <1>8 DEF Healthy, ChoicesMade, AtWork, FlowInv
  <2>6. /\ config.recording => b = v + 1 + f + unaudited + 0
        /\ f + 1 <= r + 1 /\ r + 1 <= v + 1
        /\ Healthy' => /\ Strays(log) = {} /\ unaudited = 0 /\ f = 0 /\ r + 1 = v + 1
                       /\ n = ChoicesMade'
    BY <1>4, <1>5, <2>5
  <2> QED BY <1>1, <1>2, <1>3, <1>8, <2>2, <2>3, <2>4, <2>6 DEF TruthInv
<1>9. CASE pc' = "failed" /\ \/ trail' = first /\ unaudited' = unaudited
                             \/ trail' = trail /\ unaudited' = unaudited + 1
  <2>1. InHand' = 0 /\ Retrying' = 0 /\ ~Healthy'
    BY <1>1, <1>9 DEF InHand, Retrying, Healthy, AtWork
  <2>2. CASE trail' = first /\ unaudited' = unaudited
    <3>1. /\ config.recording => b = v + 1 + f + unaudited + 0
          /\ f + 0 <= r /\ r <= v + 1
      BY <1>4, <1>5
    <3> QED BY <1>1, <1>2, <1>3, <1>7, <2>1, <2>2, <3>1 DEF TruthInv
  <2>3. CASE trail' = trail /\ unaudited' = unaudited + 1
    <3>1. /\ config.recording => b = v + f + (unaudited + 1) + 0
          /\ f + 0 <= r /\ r <= v
      BY <1>4, <1>5
    <3> QED BY <1>1, <1>2, <1>3, <2>1, <2>3, <3>1 DEF TruthInv
  <2> QED BY <1>9, <2>2, <2>3
<1> QED BY <1>6, <1>8, <1>9 DEF Retry, Go

LEMMA TruthOfFailure ==
  ASSUME TypesInv, FlowInv, TruthInv, GiveUp
  PROVE  TruthInv'
<1>1. /\ pc = "broken" /\ pc' = "failed" /\ log' = log /\ config' = config /\ row' = row
      /\ status' = status /\ status = "none" /\ attempt = 2
      /\ segment \in Segments /\ trail \in Seq(Events)
  BY DEF GiveUp, Go, books, FlowInv, AtWork, TypesInv
<1>2. /\ row = NoRow /\ InHand = 1 /\ Retrying = 1
      /\ InHand' = 0 /\ Retrying' = 0 /\ ~Healthy'
  BY <1>1 DEF TruthInv, InHand, Retrying, Healthy, AtWork
<1>3. PICK b, v, f, r : /\ b = Cardinality(Broken(log)) /\ v = Contract(trail, "violation")
                        /\ f = Contract(trail, "failed") /\ r = Contract(trail, "retry")
  OBVIOUS
<1>4. b \in Nat /\ v \in Nat /\ f \in Nat /\ r \in Nat /\ unaudited \in Nat
  BY <1>3, CountsTyped
<1>5. /\ config.recording => b = v + f + unaudited + 1
      /\ f + 1 <= r /\ r <= v
  BY <1>2, <1>3, <1>4 DEF TruthInv
<1>6. PICK longer : longer = Append(trail, ContractEvent("failed"))
  OBVIOUS
<1>7. CASE trail' = longer /\ unaudited' = unaudited
  <2>1. /\ Contract(longer, "violation") = v /\ Contract(longer, "failed") = f + 1
        /\ Contract(longer, "retry") = r
    <3>1. Adds(trail, longer, "failed")
      BY <1>1, <1>6, ContractEventAdded
    <3> QED BY <1>3, <3>1 DEF Adds
  <2>2. /\ config.recording => b = v + (f + 1) + unaudited + 0
        /\ (f + 1) + 0 <= r
    BY <1>4, <1>5
  <2> QED BY <1>1, <1>2, <1>3, <1>5, <1>7, <2>1, <2>2 DEF TruthInv
<1>8. CASE trail' = trail /\ unaudited' = unaudited + 1
  <2>1. /\ config.recording => b = v + f + (unaudited + 1) + 0
        /\ f + 0 <= r
    BY <1>4, <1>5
  <2> QED BY <1>1, <1>2, <1>3, <1>5, <1>8, <2>1 DEF TruthInv
<1> QED BY <1>6, <1>7, <1>8 DEF GiveUp

LEMMA TruthStep ==
  ASSUME TypesInv, TypesInv', FlowInv, TruthInv, [Next]_vars
  PROVE  TruthInv'
<1>1. \/ ChoosePlan \/ ChooseCapability \/ Generate \/ Retry \/ GiveUp \/ Quiet
  BY DEF Next, Handle, Quiet
<1> QED BY <1>1, TruthOfChoice, TruthOfAnswer, TruthOfRetry, TruthOfFailure, QuietStep

-----------------------------------------------------------------------------
(* The row.                                                                 *)

Purposes(entries, purpose) == {n \in DOMAIN entries : entries[n].purpose = purpose}
Judged(entries) == {n \in DOMAIN entries : GenerationViolation(entries[n])}

(* The entries are selections and generations, and what the row calls a     *)
(* violation of the contract is one.                                        *)
LEMMA LogDivides ==
  ASSUME NEW entries \in Seq(Entries)
  PROVE  /\ Cardinality(Purposes(entries, "selection"))
              + Cardinality(Purposes(entries, "generation")) = Len(entries)
         /\ Cardinality(Judged(entries)) \in Nat
         /\ Cardinality(Judged(entries)) <= Cardinality(Broken(entries))
<1>1. Len(entries) \in Nat /\ DOMAIN entries = 1..Len(entries)
  BY LenProperties
<1>2. \A n \in DOMAIN entries : entries[n].purpose \in {"selection", "generation"}
  <2>1. \A n \in DOMAIN entries : entries[n] \in Entries
    BY <1>1, ElementOfSeq
  <2> QED BY <2>1 DEF Entries
<1>3. PICK s, g : s = Purposes(entries, "selection") /\ g = Purposes(entries, "generation")
  OBVIOUS
<1>4. s \union g = 1..Len(entries) /\ s \intersect g = {}
  BY <1>1, <1>2, <1>3 DEF Purposes
<1>5. IsFiniteSet(s) /\ IsFiniteSet(g) /\ IsFiniteSet(1..Len(entries))
      /\ Cardinality(1..Len(entries)) = Len(entries)
  <2>1. IsFiniteSet(1..Len(entries)) /\ Cardinality(1..Len(entries)) = Len(entries)
    BY <1>1, FS_Interval
  <2> QED BY <1>4, <2>1, FS_Subset
<1>6. Cardinality(s \union g) = Cardinality(s) + Cardinality(g) - Cardinality(s \intersect g)
  BY <1>5, FS_Union
<1>7. Cardinality(s) \in Nat /\ Cardinality(g) \in Nat /\ Cardinality(s \intersect g) = 0
  BY <1>4, <1>5, FS_CardinalityType, FS_EmptySet
<1>8. Cardinality(s) + Cardinality(g) = Len(entries)
  <2>1. Cardinality(s \union g) = Len(entries)
    BY <1>4, <1>5, Zenon
  <2> QED BY <1>1, <1>6, <1>7, <2>1
<1>9. Judged(entries) \subseteq Broken(entries)
  BY DEF Judged, Broken, GenerationViolation, ParsesAsObject, Conforms
<1>10. IsFiniteSet(Broken(entries))
  BY BrokenNat
<1>11. /\ IsFiniteSet(Judged(entries))
       /\ Cardinality(Judged(entries)) <= Cardinality(Broken(entries))
  BY <1>9, <1>10, FS_Subset
<1>12. Cardinality(Judged(entries)) \in Nat
  BY <1>11, FS_CardinalityType
<1> QED BY <1>3, <1>8, <1>11, <1>12

(* The group of one execution. *)
LEMMA GroupOfOne ==
  ASSUME NEW r
  PROVE  /\ ExitCode(Aggregate(<<r>>)) = 0 <=> r.status = "completed"
         /\ Aggregate(<<r>>).fallback_absorbed =
              IF r.status = "completed" /\ r.generation_violations > 0 THEN 1 ELSE 0
         /\ Aggregate(<<r>>).with_contract_retry = IF r.contract_retries > 0 THEN 1 ELSE 0
<1>1. PICK rows : rows = <<r>>
  OBVIOUS
<1>2. DOMAIN rows = {1} /\ rows[1] = r /\ Len(rows) = 1
  BY <1>1
<1>3. Cardinality({1}) = 1 /\ Cardinality({}) = 0
  BY FS_Singleton, FS_EmptySet
<1>4. PICK c, a, w :
        /\ c = {i \in DOMAIN rows : rows[i].status = "completed"}
        /\ a = {i \in DOMAIN rows :
                  rows[i].status = "completed" /\ rows[i].generation_violations > 0}
        /\ w = {i \in DOMAIN rows : rows[i].contract_retries > 0}
  OBVIOUS
<1>5. /\ c = IF r.status = "completed" THEN {1} ELSE {}
      /\ a = IF r.status = "completed" /\ r.generation_violations > 0 THEN {1} ELSE {}
      /\ w = IF r.contract_retries > 0 THEN {1} ELSE {}
  BY <1>2, <1>4
<1>6. /\ Aggregate(rows).completed = Cardinality(c) /\ Aggregate(rows).n = Len(rows)
      /\ Aggregate(rows).fallback_absorbed = Cardinality(a)
      /\ Aggregate(rows).with_contract_retry = Cardinality(w)
  BY <1>4 DEF Aggregate, Count
<1>7. ExitCode(Aggregate(rows)) = 0 <=> Cardinality(c) = 1
  BY <1>2, <1>6 DEF ExitCode
<1>8. Cardinality(c) = 1 <=> r.status = "completed"
  BY <1>3, <1>5
<1> QED BY <1>1, <1>3, <1>5, <1>6, <1>7, <1>8

LEMMA RowRead ==
  ASSUME TypesInv, FlowInv, BooksInv, TruthInv, config.recording, pc = "returned",
         NEW r, r = Row(log, trail, status, counted, Steps)
  PROVE  Truthful(r, log, unaudited)
<1>1. log \in Seq(Entries) /\ counted = Len(log)
  BY DEF TypesInv, BooksInv
<1>2. PICK b, v, f, t, g : /\ b = Cardinality(Broken(log)) /\ v = Contract(trail, "violation")
                           /\ f = Contract(trail, "failed") /\ t = Contract(trail, "retry")
                           /\ g = Cardinality(Judged(log))
  OBVIOUS
<1>3. /\ b \in Nat /\ v \in Nat /\ f \in Nat /\ t \in Nat /\ unaudited \in Nat
      /\ g \in Nat /\ g <= b
  BY <1>1, <1>2, CountsTyped, LogDivides
<1>4. InHand = 0 /\ Retrying = 0
  BY DEF InHand, Retrying
<1>5. /\ b = v + f + unaudited /\ f <= t /\ t <= v
      /\ status = "completed" =>
           /\ Strays(log) = {} /\ unaudited = 0 /\ f = 0 /\ t = v
           /\ Cardinality(SelectionsIn(trail)) = ChoicesMade
  BY <1>2, <1>3, <1>4 DEF TruthInv, Healthy
<1>6. /\ r.status = status /\ r.calls = counted
      /\ r.selections = Cardinality(Purposes(log, "selection"))
      /\ r.generations = Cardinality(Purposes(log, "generation"))
      /\ r.selection_violations = Cardinality(Strays(log))
      /\ r.generation_violations = g
      /\ r.contract_violations = v /\ r.contract_retries = t /\ r.contract_failures = f
      /\ r.label = Labels(trail, Steps)
  BY <1>2 DEF Row, Count, Purposes, Strays, Judged
<1>7. Count(log, LAMBDA e : e.purpose = "generation" /\ ~Conforms(e.content)) = b
  BY <1>2 DEF Count, Broken
<1>8. r.calls = r.selections + r.generations
  BY <1>1, <1>6, LogDivides
<1>9. ASSUME status = "completed"
      PROVE  /\ r.selection_violations = 0
             /\ [i \in DOMAIN r.label |-> r.label[i].step] = Steps
  <2>1. r.selection_violations = 0
    BY <1>5, <1>6, <1>9, FS_EmptySet
  <2>2. Cardinality(SelectionsIn(trail)) = 2
    BY <1>5, <1>9 DEF ChoicesMade, FlowInv
  <2>3. Len(Steps) = 2 /\ DOMAIN Steps = 1..2 /\ Steps = [i \in 1..2 |-> Steps[i]]
    BY DEF Steps
  <2>4. /\ DOMAIN r.label = 1..2
        /\ \A i \in 1..2 : r.label[i].step = Steps[i]
    BY <1>6, <2>2, <2>3 DEF Labels
  <2> HIDE DEF Steps
  <2>5. [i \in DOMAIN r.label |-> r.label[i].step] = [i \in 1..2 |-> Steps[i]]
    BY <2>4
  <2> QED BY <2>1, <2>3, <2>5
<1>10. ExitCode(Aggregate(<<r>>)) = 0 =>
         /\ r.selection_violations = 0 /\ unaudited = 0
         /\ [i \in DOMAIN r.label |-> r.label[i].step] = Steps
         /\ r.contract_failures = 0
         /\ r.contract_retries = r.contract_violations
  <2>1. ExitCode(Aggregate(<<r>>)) = 0 => status = "completed"
    BY <1>6, GroupOfOne
  <2> QED BY <1>5, <1>6, <1>9, <2>1
<1>11. Aggregate(<<r>>).fallback_absorbed <= Aggregate(<<r>>).with_contract_retry
  <2>1. status = "completed" /\ g > 0 => t > 0
    BY <1>3, <1>5
  <2>2. /\ Aggregate(<<r>>).fallback_absorbed = IF status = "completed" /\ g > 0 THEN 1 ELSE 0
        /\ Aggregate(<<r>>).with_contract_retry = IF t > 0 THEN 1 ELSE 0
    BY <1>6, GroupOfOne
  <2> QED BY <2>1, <2>2
<1>12. /\ b = r.contract_violations + r.contract_failures + unaudited
       /\ r.generation_violations <= b
       /\ r.contract_failures <= r.contract_retries
       /\ r.contract_retries <= r.contract_violations
  BY <1>3, <1>5, <1>6
<1> QED BY <1>7, <1>8, <1>10, <1>11, <1>12 DEF Truthful

LEMMA RowStart == Init => RowTellsTruth
BY DEF Init, RowTellsTruth

LEMMA RowStep ==
  ASSUME TypesInv, FlowInv, BooksInv, TruthInv, RowTellsTruth, [Next]_vars
  PROVE  RowTellsTruth'
<1>1. CASE Measure
  <2>1. PICK r : r = Row(log, trail, status, counted, Steps)
    OBVIOUS
  <2>2. /\ pc = "returned" /\ config.recording /\ row' = r
        /\ log' = log /\ unaudited' = unaudited
    BY <1>1, <2>1 DEF Measure
  <2>3. Truthful(r, log, unaudited)
    BY <2>1, <2>2, RowRead
  <2> QED BY <2>2, <2>3 DEF RowTellsTruth
<1>2. CASE UNCHANGED vars
  BY <1>2 DEF RowTellsTruth, vars, books
<1>3. CASE Next /\ ~Measure
  <2>1. row' = row /\ pc # "measured"
    BY <1>3 DEF Next, Handle, Assemble, CallRaises, Raises, Calling, ChoosePlan,
                ChooseCapability, Generate, Retry, GiveUp, SendReply, CreateRecord,
                RecordEffect, StepCompletes, StepFails, Compensated, Return, Waits,
                StepRaises, Go
  <2>2. row' = NoRow
    BY <2>1 DEF TruthInv
  <2> QED BY <2>2 DEF RowTellsTruth
<1> QED BY <1>1, <1>2, <1>3

-----------------------------------------------------------------------------
(* The theorems.                                                            *)

LEMMA InvStart == Init => IInv
BY TypesStart, FlowStart, DraftStart, LeavesStart, EffectsStart, BooksStart, EntriesStart,
   TreeStart, TruthStart, RowStart DEF IInv

LEMMA InvStep == IInv /\ [Next]_vars => IInv'
<1> SUFFICES ASSUME IInv, [Next]_vars PROVE IInv'
  OBVIOUS
<1>1. /\ TypesInv /\ FlowInv /\ DraftInv /\ EffectsInv /\ BooksInv /\ TruthInv /\ TreeInv
      /\ OnlyValidatedLeaves /\ EntryOfItsCall /\ RowTellsTruth
  BY DEF IInv
<1>2. TypesInv'
  BY <1>1, TypesStep
<1>3. FlowInv'
  BY <1>1, FlowStep
<1>4. DraftInv'
  BY <1>1, DraftStep
<1>5. OnlyValidatedLeaves'
  BY <1>1, LeavesStep
<1>6. EffectsInv'
  BY <1>1, EffectsStep
<1>7. BooksInv'
  BY <1>1, BooksStep
<1>8. EntryOfItsCall'
  BY <1>1, <1>2, <1>7, EntriesStep
<1>9. TreeInv'
  BY <1>1, <1>2, <1>3, TreeStep
<1>10. TruthInv'
  BY <1>1, <1>2, TruthStep
<1>11. RowTellsTruth'
  BY <1>1, RowStep
<1> QED BY <1>2, <1>3, <1>4, <1>5, <1>6, <1>7, <1>8, <1>9, <1>10, <1>11 DEF IInv

(* Whatever platform is asked for and however its provider, its tools and   *)
(* the SDK of the trace fail: the three books agree with the model calls at *)
(* every point of handle().                                                 *)
THEOREM Invariance == Spec => []IInv
<1>1. Init => IInv
  BY InvStart
<1>2. IInv /\ [Next]_vars => IInv'
  BY InvStep
<1> QED BY <1>1, <1>2, PTL DEF Spec

(* No answer that fails the schema reaches a customer or the ERP, and none  *)
(* that a repair made up does outside measurement, whichever of the         *)
(* decorators build_platform has been told to wire in.                      *)
THEOREM ValidatedOnly == Spec => []OnlyValidatedLeaves
<1>1. IInv => OnlyValidatedLeaves
  BY DEF IInv
<1> QED BY <1>1, Invariance, PTL

(* What handle() counts as completed has had its effect, and the effect of  *)
(* the ERP step is on the trail: Registrable at assembly and the runtime's  *)
(* test of the tool's type together leave no way around.                    *)
THEOREM CompletedDone == Spec => []CompletedMeansDone
<1>1. IInv => CompletedMeansDone
  BY DEF IInv, EffectsInv, CompletedMeansDone
<1> QED BY <1>1, Invariance, PTL

(* Matching spans and log entries by position only never gives a span the   *)
(* text of another call.                                                    *)
THEOREM EntryMatched == Spec => []EntryOfItsCall
<1>1. IInv => EntryOfItsCall
  BY DEF IInv
<1> QED BY <1>1, Invariance, PTL

(* A trace closed without a failure of the SDK shows every model call once  *)
(* and where it belongs; no trace shows a span before its parent.           *)
THEOREM Traced == Spec => []CallsTraced
<1>1. IInv => CallsTraced
  BY TracedWhenClosed DEF IInv
<1> QED BY <1>1, Invariance, PTL

(* The row of an execution says what the capability's parser saw.           *)
THEOREM RowTruthful == Spec => []RowTellsTruth
<1>1. IInv => RowTellsTruth
  BY DEF IInv
<1> QED BY <1>1, Invariance, PTL
=============================================================================
