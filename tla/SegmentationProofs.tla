------------------------- MODULE SegmentationProofs --------------------------
(***************************************************************************)
(* Segmentation for every chunk, hop, segment, margin and input length:    *)
(* the files hold the input once and in order, every kept sample comes out *)
(* as in a run over the whole input at once, what is held in memory beside *)
(* the input is bounded by the segment, and the progress a client is shown *)
(* is ahead of the files by one segment and the rounding at most.          *)
(***************************************************************************)
EXTENDS Segmentation, FiniteSetTheorems, TLAPS

(* Sequences of consecutive samples. *)

\* Two spans that meet make one.
LEMMA SpansJoin ==
    ASSUME NEW a \in Int, NEW b \in Int, NEW c \in Int, a <= b, b <= c
    PROVE  Span(a, b) \o Span(b, c) = Span(a, c)
  BY DEF Span

\* A slice of a span is a span.
LEMMA SliceOfSpan ==
    ASSUME NEW a \in Int, NEW b \in Int, a <= b,
           NEW l \in Nat, NEW r \in Nat, l <= r, r <= b - a
    PROVE  SubSeq(Span(a, b), l + 1, r) = Span(a + l, a + r)
  BY DEF Span

(* Numbers. *)

\* v is on the grid of the whole input's chunks.
OnHop(v) == \E q \in Nat : v = q * call.hop

LEMMA HopsAdd ==
    ASSUME NEW h \in Nat, NEW a \in Nat, NEW b \in Nat
    PROVE  a * h + b * h = (a + b) * h
  OBVIOUS

LEMMA HopNext ==
    ASSUME NEW h \in Nat, NEW a \in Int
    PROVE  a * h \in Int /\ (a \in Nat => a * h \in Nat) /\ (a + 1) * h = a * h + h
  OBVIOUS

LEMMA HopsSubtract ==
    ASSUME NEW h \in Nat, NEW a \in Nat, NEW b \in Nat, a * h > b * h
    PROVE  a * h - b * h = (a - b) * h /\ a - b \in Nat
<1>1. a * h - b * h = (a - b) * h
  OBVIOUS
<1>2. CASE a >= b
  BY <1>1, <1>2
<1>3. CASE a < b
  <2>1. (b - a) * h >= 0 /\ (b - a) * h = b * h - a * h
    BY <1>3
  <2> QED
    BY <2>1
<1> QED
  BY <1>2, <1>3

\* Division rounds down.
LEMMA DivFloor ==
    ASSUME NEW a \in Int, NEW h \in Nat, h > 0
    PROVE  a \div h \in Int /\ (a \div h) * h <= a /\ a < (a \div h) * h + h
  OBVIOUS

\* CeilDiv rounds up.
LEMMA CeilBounds ==
    ASSUME NEW a \in Int, NEW h \in Nat, h > 0
    PROVE  CeilDiv(a, h) \in Int /\ a <= CeilDiv(a, h) * h /\ CeilDiv(a, h) * h < a + h
<1>1. a + h - 1 \in Int
  OBVIOUS
<1>2. /\ CeilDiv(a, h) \in Int /\ CeilDiv(a, h) * h <= a + h - 1
      /\ a + h - 1 < CeilDiv(a, h) * h + h
  BY <1>1, DivFloor DEF CeilDiv
<1>3. CeilDiv(a, h) * h \in Int
  BY <1>2
<1> HIDE DEF CeilDiv
<1> QED
  BY <1>2, <1>3

\* Multiples of h that lie less than h apart are in order.
LEMMA HopsOrder ==
    ASSUME NEW a \in Int, NEW b \in Int, NEW h \in Nat, h > 0, a * h < b * h + h
    PROVE  a <= b
<1> SUFFICES ASSUME a >= b + 1 PROVE FALSE
  OBVIOUS
<1>1. (a - b - 1) * h >= 0
  OBVIOUS
<1>2. (a - b - 1) * h = a * h - b * h - h
  OBVIOUS
<1> QED
  BY <1>1, <1>2

\* A multiple is divided without remainder.
LEMMA DivExact ==
    ASSUME NEW q \in Int, NEW h \in Nat, h > 0
    PROVE  (q * h) \div h = q
<1> DEFINE d == (q * h) \div h
<1>1. q * h \in Int
  OBVIOUS
<1>2. d \in Int /\ d * h <= q * h /\ q * h < d * h + h
  BY <1>1, DivFloor
<1> HIDE DEF d
<1>3. q * h < d * h + h /\ d * h < q * h + h
  BY <1>2
<1>4. q <= d /\ d <= q
  BY <1>2, <1>3, HopsOrder
<1> QED
  BY <1>2, <1>4 DEF d

\* Only one t makes t times as many.
LEMMA OnlyOnce ==
    ASSUME NEW t \in Nat, NEW u \in Nat, u > 0, t * u = u
    PROVE  t = 1
<1>1. (t - 1) * u = 0
  OBVIOUS
<1>2. CASE t = 0
  BY <1>2
<1>3. CASE t > 1
  <2>1. (t - 2) * u >= 0 /\ (t - 1) * u = (t - 2) * u + u
    BY <1>3
  <2> QED
    BY <1>1, <2>1
<1> QED
  BY <1>2, <1>3

-----------------------------------------------------------------------------
(* The inductive invariant. *)

CallOK ==
    call \in [hop : Hops, step : Steps, margin : Margins, batch : Batches,
              want : Wants, n : Lengths]

Running == {"segment", "infer", "report"}

\* Positions are whole segments, and segments whole hops.
GridInv ==
    /\ pos \in Nat /\ OnHop(pos)
    /\ phase = "check" => pos = 0
    /\ phase \in Running => Accepted
    /\ phase = "infer" => pos < call.n

PhaseInv ==
    /\ phase \in {"check"} \union Running \union Ended
    /\ phase = "returned" => pos >= call.n

IInv == CallOK /\ PhaseInv /\ GridInv /\ InOrder

LEMMA CallTypes ==
    ASSUME CallOK
    PROVE  /\ call.hop \in Nat /\ call.hop > 0 /\ call.step \in Nat /\ call.step > 0
           /\ call.margin \in Nat /\ call.n \in Nat
<1>1. /\ call.hop \in Hops /\ call.step \in Steps
      /\ call.margin \in Margins /\ call.n \in Lengths
  BY DEF CallOK
<1>2. /\ \A v \in Hops : v \in Nat /\ v > 0
      /\ \A v \in Steps : v \in Nat /\ v > 0
      /\ Margins \subseteq Nat /\ Lengths \subseteq Nat
  BY SizesAssumption
<1> QED
  BY <1>1, <1>2

\* The segment at pos, and what it keeps: pos up to the next segment.
LEMMA InteriorOfSegment ==
    ASSUME CallOK, pos \in Nat, pos < call.n
    PROVE  /\ SegStart \in Nat /\ SegStart <= pos /\ SegEnd \in Nat /\ SegStart <= SegEnd
           /\ Left \in Nat /\ Right \in Nat /\ Left <= Right /\ Right <= SegEnd - SegStart
           /\ SegStart + Left = pos
           /\ SegStart + Right = Lesser(pos + call.step, call.n)
           /\ pos <= Lesser(pos + call.step, call.n)
  BY CallTypes DEF SegStart, SegEnd, Left, Right, Greater, Lesser

-----------------------------------------------------------------------------
(* The handler: how a segment of m samples is padded and cut. *)

LEMMA HopTypes ==
    ASSUME CallOK
    PROVE  /\ Chunk \in Nat /\ call.hop <= Chunk /\ OnHop(Chunk)
           /\ Front \in Nat /\ Front = 2 * (Chunk - call.hop)
           /\ call.batch \in Nat /\ call.batch > 0
<1>1. call.hop \in 1..Chunk /\ Chunk \in Nat /\ Chunk % call.hop = 0
  BY SizesAssumption DEF CallOK
<1>2. Chunk = (Chunk \div call.hop) * call.hop /\ Chunk \div call.hop \in Nat
  BY <1>1
<1>3. call.batch \in Batches /\ \A v \in Batches : v \in Nat /\ v > 0
  BY SizesAssumption DEF CallOK
<1> QED
  BY <1>1, <1>2, <1>3 DEF OnHop, Front, Overlap

\* The chunks cover the padded segment exactly, at least as far behind it as
\* the padding in front reaches.
LEMMA HandlerSizes ==
    ASSUME CallOK, NEW m \in Nat, m > 0
    PROVE  /\ EndPad(m) \in Nat /\ EndPad(m) >= 2 * Front
           /\ Padded(m) = m + 2 * Front + EndPad(m)
           /\ Unfolded(m) \in Nat /\ Unfolded(m) > 0
           /\ (Unfolded(m) - 1) * call.hop + Chunk = Padded(m)
           /\ Unfolded(m) * call.hop = 2 * Front + CeilDiv(m + 2 * Front - Chunk, call.hop) * call.hop
                                         + call.hop
<1> DEFINE h == call.hop
           w == m + 2 * Front - Chunk
           n == CeilDiv(w, h)
<1>1. /\ h \in Nat /\ h > 0 /\ Chunk \in Nat /\ h <= Chunk
      /\ Front \in Nat /\ Front = 2 * (Chunk - h)
  BY CallTypes, HopTypes
<1>2. w \in Int
  BY <1>1
<1>3. n \in Int /\ w <= n * h /\ n * h < w + h
  BY <1>1, <1>2, CeilBounds
<1>4. n * h \in Int
  BY <1>1, <1>3
<1>5. NChunks(m) = n + 1
  BY DEF NChunks
<1> HIDE DEF n
<1>6. EndPad(m) = n * h + Chunk - m
  BY <1>1, <1>3, <1>4, <1>5 DEF EndPad
<1>7. EndPad(m) \in Nat /\ EndPad(m) >= 2 * Front
  BY <1>1, <1>3, <1>4, <1>6
<1>8. Padded(m) = m + 2 * Front + EndPad(m)
  BY DEF Padded
<1>9. PICK k \in Nat : Chunk = k * h
  BY HopTypes DEF OnHop
<1>10. 2 * Front = (4 * k - 4) * h
  BY <1>1, <1>9
<1>11. Padded(m) - Chunk = (4 * k - 4 + n) * h
  <2>1. Padded(m) - Chunk = 2 * Front + n * h
    BY <1>1, <1>3, <1>4, <1>6, <1>8
  <2> QED
    BY <1>1, <1>3, <1>10, <2>1
<1>12. Unfolded(m) = 4 * k - 4 + n + 1
  <2>1. 4 * k - 4 + n \in Int
    BY <1>3
  <2>2. ((4 * k - 4 + n) * h) \div h = 4 * k - 4 + n
    BY <1>1, <2>1, DivExact
  <2> QED
    BY <1>11, <2>2 DEF Unfolded
<1>13. Unfolded(m) * h = 2 * Front + n * h + h
  <2>1. (4 * k - 4 + n + 1) * h = (4 * k - 4) * h + n * h + h
    BY <1>1, <1>3
  <2> QED
    BY <1>10, <1>12, <2>1
<1>14. (Unfolded(m) - 1) * h + Chunk = Padded(m)
  <2>1. Unfolded(m) - 1 = 4 * k - 4 + n
    BY <1>3, <1>12
  <2>2. Padded(m) \in Int /\ (4 * k - 4 + n) * h \in Int
    BY <1>1, <1>3, <1>7, <1>8
  <2> QED
    BY <1>1, <1>11, <2>1, <2>2
<1>15. Unfolded(m) > 0
  <2>1. 0 * h < (4 * k - 4 + n) * h + h
    BY <1>1, <1>3, <1>4, <1>10, <1>12, <1>13
  <2>2. 0 <= 4 * k - 4 + n
    BY <1>1, <1>3, <2>1, HopsOrder
  <2> QED
    BY <1>3, <1>12, <2>2
<1>16. Unfolded(m) \in Nat
  BY <1>3, <1>12, <1>15
<1> QED
  BY <1>7, <1>8, <1>13, <1>14, <1>15, <1>16 DEF n

\* A longer segment has no fewer chunks.
LEMMA UnfoldedGrows ==
    ASSUME CallOK, NEW m \in Nat, m > 0, NEW l \in Nat, m <= l
    PROVE  Unfolded(m) <= Unfolded(l)
<1> DEFINE h == call.hop
           C(v) == CeilDiv(v + 2 * Front - Chunk, h)
<1>1. h \in Nat /\ h > 0 /\ Chunk \in Nat /\ Front \in Nat
  BY CallTypes, HopTypes
<1>2. \A v \in {m, l} : /\ C(v) \in Int /\ v + 2 * Front - Chunk <= C(v) * h
                        /\ C(v) * h < v + 2 * Front - Chunk + h
  <2> TAKE v \in {m, l}
  <2>1. v + 2 * Front - Chunk \in Int
    BY <1>1
  <2> QED
    BY <1>1, <2>1, CeilBounds
<1>3. \A v \in {m, l} : Unfolded(v) \in Nat /\ Unfolded(v) * h = 2 * Front + C(v) * h + h
  BY HandlerSizes
<1> HIDE DEF C
<1>4. Unfolded(m) * h < Unfolded(l) * h + h
  <2>1. C(m) * h \in Int /\ C(l) * h \in Int
    BY <1>1, <1>2
  <2> QED
    BY <1>1, <1>2, <1>3, <2>1
<1> QED
  BY <1>1, <1>3, <1>4, HopsOrder

-----------------------------------------------------------------------------
(* Initially, and in every step. *)

LEMMA InitHolds == Init => IInv
<1> SUFFICES ASSUME Init PROVE IInv
  OBVIOUS
<1>1. CallOK
  BY DEF Init, CallOK
<1>2. OnHop(pos)
  BY <1>1, CallTypes DEF Init, OnHop
<1> QED
  BY <1>1, <1>2 DEF Init, IInv, PhaseInv, GridInv, InOrder, Running, Ended

LEMMA OpenKeeps ==
    ASSUME IInv, Open
    PROVE  IInv'
<1>1. pos = 0 /\ phase = "check" /\ Lesser(pos, call.n) = 0
  BY CallTypes DEF IInv, GridInv, Open, Lesser
<1>2. Span(0, Lesser(pos, call.n)) = <<>>
  BY <1>1 DEF Span
<1>3. InOrder'
  BY <1>1, <1>2 DEF InOrder, Open, Asked, Lesser
<1> QED
  BY <1>1, <1>3 DEF IInv, Open, CallOK, PhaseInv, GridInv, OnHop, Running, Accepted, OnGrid, Asked

\* The interior of the segment joins what is written without gap or overlap.
LEMMA WriteKeeps ==
    ASSUME IInv, Write
    PROVE  IInv'
<1> DEFINE next == Lesser(pos + call.step, call.n)
<1>1. CallOK /\ pos \in Nat /\ pos < call.n /\ Accepted /\ phase = "infer"
  BY DEF IInv, GridInv, Write, Running
<1>2. InOrder'
  <2>1. SUFFICES ASSUME NEW s \in Asked
                 PROVE  written'[s] = Span(0, Lesser(pos + call.step, call.n))
    BY DEF InOrder, Write, Asked
  <2>2. written[s] = Span(0, pos)
    BY <1>1, CallTypes DEF IInv, InOrder, Lesser
  <2>3. SubSeq(Span(SegStart, SegEnd), Left + 1, Right) = Span(pos, next)
    <3>1. /\ SegStart \in Int /\ SegEnd \in Int /\ SegStart <= SegEnd
          /\ Left \in Nat /\ Right \in Nat /\ Left <= Right /\ Right <= SegEnd - SegStart
          /\ SegStart + Left = pos /\ SegStart + Right = next
      BY <1>1, InteriorOfSegment
    <3>2. SubSeq(Span(SegStart, SegEnd), Left + 1, Right) = Span(SegStart + Left, SegStart + Right)
      BY <3>1, SliceOfSpan
    <3> QED
      BY <3>1, <3>2
  <2>4. Span(0, pos) \o Span(pos, next) = Span(0, next)
    <3>1. next \in Int /\ 0 <= pos /\ pos <= next /\ pos \in Int /\ 0 \in Int
      BY <1>1, CallTypes, InteriorOfSegment DEF Lesser
    <3> HIDE DEF next
    <3> QED
      BY <3>1, SpansJoin
  <2>5. written'[s] = written[s] \o SubSeq(Span(SegStart, SegEnd), Left + 1, Right)
    BY DEF Write
  <2> QED
    BY <2>2, <2>3, <2>4, <2>5
<1>3. OnHop(pos)' /\ pos' \in Nat
  <2>1. PICK a \in Nat : pos = a * call.hop
    BY DEF IInv, GridInv, OnHop
  <2>2. PICK b \in Nat : call.step = b * call.hop
    BY <1>1, CallTypes DEF Accepted, OnGrid
  <2>3. pos + call.step = (a + b) * call.hop
    BY <1>1, <2>1, <2>2, CallTypes, HopsAdd
  <2>4. pos' = (a + b) * call'.hop /\ a + b \in Nat /\ pos' \in Nat
    BY <1>1, <2>3, CallTypes DEF Write
  <2> QED
    BY <2>4 DEF OnHop
<1> QED
  BY <1>1, <1>2, <1>3 DEF IInv, Write, CallOK, PhaseInv, GridInv, Running, Accepted, OnGrid, Asked

\* Every other step leaves pos and the files alone.
LEMMA OthersKeep ==
    ASSUME IInv, UNCHANGED <<call, pos, written>>,
           phase' \in Running \union Ended,
           phase' \in Running => phase \in Running,
           phase' = "infer" => pos < call.n,
           phase' = "returned" => pos >= call.n,
           phase' = "rejected" \/ phase \in Running
    PROVE  IInv'
<1>1. phase' # "rejected" =>
         \A s \in Asked : written[s] = Span(0, Lesser(pos, call.n))
  BY DEF IInv, InOrder, Running
<1>2. pos >= call.n => Len(Span(0, Lesser(pos, call.n))) = call.n
  BY CallTypes DEF IInv, GridInv, Lesser, Span
<1>3. InOrder'
  BY <1>1, <1>2 DEF InOrder, Asked, Running, Ended
<1> QED
  BY <1>3 DEF IInv, CallOK, PhaseInv, GridInv, OnHop, Running, Ended, Accepted, OnGrid, Asked

LEMMA NextKeeps == IInv /\ [Next]_vars => IInv'
<1> SUFFICES ASSUME IInv, [Next]_vars PROVE IInv'
  OBVIOUS
<1> USE DEF Running, Ended
<1>1. CASE Reject
  BY <1>1, OthersKeep DEF Reject
<1>2. CASE Open
  BY <1>2, OpenKeeps
<1>3. CASE Segment
  BY <1>3, OthersKeep DEF Segment
<1>4. CASE Infer
  BY <1>4, OthersKeep DEF Infer, IInv, GridInv
<1>5. CASE Cancel
  BY <1>5, OthersKeep DEF Cancel
<1>6. CASE FoldRaises
  BY <1>6, OthersKeep DEF FoldRaises
<1>7. CASE Write
  BY <1>7, WriteKeeps
<1>8. CASE Report
  BY <1>8, OthersKeep DEF Report
<1>9. CASE Return
  BY <1>9, OthersKeep DEF Return
<1>10. CASE UNCHANGED vars
  BY <1>10 DEF vars, IInv, CallOK, PhaseInv, GridInv, OnHop, InOrder, Accepted, OnGrid, Asked
<1> QED
  BY <1>1, <1>2, <1>3, <1>4, <1>5, <1>6, <1>7, <1>8, <1>9, <1>10 DEF Next

\* The positions, phases and files of every reachable state.
THEOREM Invariant == Spec => []IInv
  BY InitHolds, NextKeeps, PTL DEF Spec

-----------------------------------------------------------------------------
(* Results. *)

\* For every preset, segment length, margin and input: separate_file never
\* loses, repeats or reorders a sample at a segment boundary, and a call that
\* returns has written all of the input, for every stem.
THEOREM WrittenInOrder == Spec => []InOrder
<1>1. IInv => InOrder
  BY DEF IInv
<1> QED
  BY Invariant, <1>1, PTL

\* What __post_init__ is for.  The chunks of a segment lie where those of an
\* unsegmented run lie (its first sample is a whole number of hops in), and
\* whatever chunk touches a kept sample holds real audio, or what lies beyond
\* the input's own ends.
FullContext ==
    phase = "infer" =>
        /\ OnHop(SegStart)
        /\ \A x \in pos..(Lesser(pos + call.step, call.n) - 1) :
               /\ SegStart = 0 \/ SegStart <= x - (Chunk - 1)
               /\ SegEnd = call.n \/ x + (Chunk - 1) < SegEnd

\* For every configuration that SeparationConfig accepts, margins give every
\* kept sample its full context on the grid of the whole input.
THEOREM ContextIsFull == Spec => []FullContext
<1>1. ASSUME IInv PROVE FullContext
  <2> SUFFICES ASSUME phase = "infer" PROVE FullContext
    BY DEF FullContext
  <2>1. CallOK /\ pos \in Nat /\ pos < call.n /\ Accepted
    BY <1>1 DEF IInv, GridInv, Running
  <2>2. OnHop(SegStart)
    <3>1. CASE pos <= call.margin
      <4>1. SegStart = 0 * call.hop
        BY <2>1, <3>1, CallTypes DEF SegStart, Greater
      <4> QED
        BY <4>1 DEF OnHop
    <3>2. CASE pos > call.margin
      <4>1. PICK a \in Nat : pos = a * call.hop
        BY <1>1 DEF IInv, GridInv, OnHop
      <4>2. PICK b \in Nat : call.margin = b * call.hop
        BY <2>1, CallTypes DEF Accepted, OnGrid
      <4>3. SegStart = pos - call.margin
        BY <2>1, <3>2, CallTypes DEF SegStart, Greater
      <4>4. SegStart = (a - b) * call.hop /\ a - b \in Nat
        BY <2>1, <3>2, <4>1, <4>2, <4>3, CallTypes, HopsSubtract
      <4> QED
        BY <4>4 DEF OnHop
    <3> QED
      BY <2>1, <3>1, <3>2, CallTypes
  <2>3. ASSUME NEW x \in pos..(Lesser(pos + call.step, call.n) - 1)
        PROVE  /\ SegStart = 0 \/ SegStart <= x - (Chunk - 1)
               /\ SegEnd = call.n \/ x + (Chunk - 1) < SegEnd
    BY <2>1, <2>3, CallTypes, SizesAssumption DEF SegStart, SegEnd, Greater, Lesser, Accepted
  <2> QED
    BY <2>2, <2>3 DEF FullContext
<1> QED
  BY Invariant, <1>1, PTL
-----------------------------------------------------------------------------
(* What the handler has buffered. *)

\* How often stem s is asked for.
Times(s) == Cardinality({k \in DOMAIN call.want : call.want[k] = s})

\* How many chunks of the segment have been through the model.
Seen == Lesser(i * call.batch, Unfolded(SegLen))

\* A stem asked for once has its chunks in order; asked for twice, it has each
\* batch twice.
BufferInv ==
    phase = "infer" =>
        /\ i \in Nat /\ i <= NBatches(SegLen)
        /\ \A s \in Asked :
               /\ outputs[s] \in Seq(Int) /\ Len(outputs[s]) = Times(s) * Seen
               /\ Times(s) = 1 => outputs[s] = Span(0, Seen)

LEMMA TimesType ==
    ASSUME CallOK, NEW s
    PROVE  Times(s) \in Nat
<1>1. call.want \in Seq({call.want[k] : k \in DOMAIN call.want})
  BY WantsAssumption DEF CallOK
<1>2. DOMAIN call.want = 1..Len(call.want) /\ Len(call.want) \in Nat
  BY <1>1
<1>3. IsFiniteSet(1..Len(call.want))
  BY <1>2, FS_Interval
<1>4. IsFiniteSet({k \in DOMAIN call.want : call.want[k] = s})
  BY <1>2, <1>3, FS_Subset
<1> QED
  BY <1>4, FS_CardinalityType DEF Times

\* Every batch has its place, and the last one ends where the chunks do.
LEMMA BatchSizes ==
    ASSUME CallOK, NEW m \in Nat, m > 0
    PROVE  /\ NBatches(m) \in Nat /\ NBatches(m) > 0
           /\ Unfolded(m) <= NBatches(m) * call.batch
           /\ \A b \in Nat : b < NBatches(m) => b * call.batch < Unfolded(m)
<1> DEFINE h == call.batch
<1>1. h \in Nat /\ h > 0 /\ Unfolded(m) \in Nat /\ Unfolded(m) > 0
  BY HopTypes, HandlerSizes
<1>2. /\ NBatches(m) \in Int /\ Unfolded(m) <= NBatches(m) * h
      /\ NBatches(m) * h < Unfolded(m) + h
  <2>1. Unfolded(m) \in Int
    BY <1>1
  <2> HIDE DEF h
  <2>2. /\ CeilDiv(Unfolded(m), h) \in Int /\ Unfolded(m) <= CeilDiv(Unfolded(m), h) * h
        /\ CeilDiv(Unfolded(m), h) * h < Unfolded(m) + h
    BY <1>1, <2>1, CeilBounds
  <2> QED
    BY <2>2 DEF NBatches, h
<1>3. NBatches(m) > 0
  <2> SUFFICES ASSUME NBatches(m) <= 0 PROVE FALSE
    BY <1>2
  <2>1. NBatches(m) * h <= 0
    BY <1>1, <1>2
  <2> QED
    BY <1>1, <1>2, <2>1
<1>4. ASSUME NEW b \in Nat, b < NBatches(m)
      PROVE  b * h < Unfolded(m)
  <2>1. b * h + h <= NBatches(m) * h
    <3>1. (NBatches(m) - b - 1) * h >= 0
      BY <1>1, <1>2, <1>4
    <3>2. (NBatches(m) - b - 1) * h = NBatches(m) * h - b * h - h
      BY <1>1, <1>2
    <3> QED
      BY <1>1, <1>2, <3>1, <3>2
  <2> QED
    BY <1>1, <1>2, <2>1
<1> QED
  BY <1>2, <1>3, <1>4

\* The remainder modulo n runs through 0 .. n - 1, and is the number itself there.
LEMMA RemainderSmall ==
    ASSUME NEW n \in Nat, n > 0
    PROVE  /\ \A m \in Nat : m % n \in 0..(n - 1)
           /\ \A m \in 0..(n - 1) : m % n = m
<1>1. ASSUME NEW m \in Nat
      PROVE  m \div n \in Int /\ m % n \in 0..(n - 1) /\ m = (m \div n) * n + (m % n)
  OBVIOUS
<1>2. ASSUME NEW m \in 0..(n - 1) PROVE m % n = m
  <2> DEFINE d == m \div n
             r == m % n
  <2>1. m \in Nat /\ m < n
    OBVIOUS
  <2>2. d \in Int /\ r \in 0..(n - 1) /\ m = d * n + r
    BY <1>1, <2>1
  <2> HIDE DEF d, r
  <2>3. d * n < 0 * n + n /\ 0 * n < d * n + n
    BY <2>1, <2>2
  <2>4. d <= 0 /\ 0 <= d
    BY <2>2, <2>3, HopsOrder
  <2>5. d = 0 /\ d * n = 0
    BY <2>2, <2>4
  <2>6. r = m
    BY <2>1, <2>2, <2>5
  <2> QED
    BY <2>6 DEF r
<1> QED
  BY <1>1, <1>2

LEMMA Joined ==
    ASSUME NEW p \in Seq(Int), NEW q \in Seq(Int)
    PROVE  p \o q \in Seq(Int) /\ Len(p \o q) = Len(p) + Len(q)
  OBVIOUS

\* One more batch, chunks a to b - 1, appended.
LEMMA BatchAppended ==
    ASSUME CallOK, NEW s, NEW a \in Nat, NEW b \in Nat, a < b,
           outputs[s] \in Seq(Int), Len(outputs[s]) = Times(s) * a,
           Times(s) = 1 => outputs[s] = Span(0, a)
    PROVE  /\ Appended(s, Span(a, b)) \in Seq(Int)
           /\ Len(Appended(s, Span(a, b))) = Times(s) * b
           /\ Times(s) = 1 => Appended(s, Span(a, b)) = Span(0, b)
<1> DEFINE t == Times(s)
           more == [k \in 1..(t * (b - a)) |-> Span(a, b)[((k - 1) % (b - a)) + 1]]
<1>1. t \in Nat /\ t * (b - a) \in Nat
  BY TimesType
<1>2. Len(Span(a, b)) = b - a /\ \A k \in 1..(b - a) : Span(a, b)[k] = a + k - 1
  BY DEF Span
<1>3. Appended(s, Span(a, b)) = outputs[s] \o more
  BY <1>2 DEF Appended, Times
<1>4. \A k \in 1..(t * (b - a)) : ((k - 1) % (b - a)) + 1 \in 1..(b - a)
  <2>1. ASSUME NEW k \in 1..(t * (b - a)) PROVE k - 1 \in Nat
    BY <1>1
  <2>2. b - a \in Nat /\ b - a > 0
    OBVIOUS
  <2>3. ASSUME NEW k \in 1..(t * (b - a)) PROVE (k - 1) % (b - a) \in 0..(b - a - 1)
    BY <2>1, <2>2, RemainderSmall
  <2> QED
    BY <2>2, <2>3
<1>5. more \in Seq(Int) /\ Len(more) = t * (b - a)
  <2> DEFINE n == t * (b - a)
             f(k) == Span(a, b)[((k - 1) % (b - a)) + 1]
  <2>1. \A k \in 1..n : f(k) \in Int
    BY <1>2, <1>4
  <2>2. more = [k \in 1..n |-> f(k)] /\ n \in Nat
    BY <1>1
  <2> HIDE DEF n, f, more
  <2> QED
    BY <2>1, <2>2 DEF n
<1>6. t * a + t * (b - a) = t * b
  BY <1>1
<1>7. ASSUME t = 1 PROVE outputs[s] \o more = Span(0, b)
  <2>1. ASSUME NEW k \in 1..(b - a) PROVE (k - 1) % (b - a) = k - 1
    <3>1. b - a \in Nat /\ b - a > 0 /\ k - 1 \in 0..(b - a - 1)
      OBVIOUS
    <3> QED
      BY <3>1, RemainderSmall
  <2>2. more = Span(a, b)
    BY <1>2, <1>7, <2>1 DEF Span
  <2>3. Span(0, a) \o Span(a, b) = Span(0, b)
    BY SpansJoin
  <2> HIDE DEF more
  <2> QED
    BY <1>7, <2>2, <2>3
<1> HIDE DEF more
<1>8. outputs[s] \o more \in Seq(Int) /\ Len(outputs[s] \o more) = t * a + t * (b - a)
  <2>1. more \in Seq(Int) /\ outputs[s] \in Seq(Int)
    BY <1>5
  <2>2. outputs[s] \o more \in Seq(Int)
    BY <2>1, Joined
  <2>3. Len(outputs[s] \o more) = Len(outputs[s]) + Len(more)
    BY <2>1, Joined
  <2> QED
    BY <1>5, <2>2, <2>3
<1> DEFINE all == outputs[s] \o more
<1>9. /\ Appended(s, Span(a, b)) = all
      /\ all \in Seq(Int) /\ Len(all) = t * b
      /\ t = 1 => all = Span(0, b)
  BY <1>3, <1>6, <1>7, <1>8
<1> HIDE DEF all
<1> QED
  BY <1>9

LEMMA SegmentSize ==
    ASSUME CallOK, pos \in Nat, pos < call.n
    PROVE  SegLen \in Nat /\ SegLen > 0 /\ SegLen <= call.step + 2 * call.margin
  BY CallTypes DEF SegLen, SegStart, SegEnd, Greater, Lesser

LEMMA InSegment ==
    ASSUME IInv, phase = "infer"
    PROVE  /\ CallOK /\ Accepted /\ pos \in Nat /\ pos < call.n
           /\ SegLen \in Nat /\ SegLen > 0 /\ SegLen <= call.step + 2 * call.margin
  BY SegmentSize DEF IInv, GridInv, Running

\* A turn of the handler's loop appends the chunks that come next.
LEMMA InferBuffers ==
    ASSUME IInv, BufferInv, Infer
    PROVE  BufferInv'
<1> DEFINE h == call.batch
           u == Unfolded(SegLen)
           a == i * h
           b == Lesser((i + 1) * h, u)
<1>1. CallOK /\ SegLen \in Nat /\ SegLen > 0 /\ i \in Nat /\ i < NBatches(SegLen)
  BY InSegment DEF Infer, BufferInv
<1>2. /\ h \in Nat /\ h > 0 /\ u \in Nat /\ u > 0 /\ NBatches(SegLen) \in Nat
      /\ a \in Nat /\ (i + 1) * h = a + h /\ a < u
  <2>1. h \in Nat /\ h > 0
    BY <1>1, HopTypes
  <2>2. u \in Nat /\ u > 0
    BY <1>1, HandlerSizes
  <2>3. NBatches(SegLen) \in Nat /\ a < u
    BY <1>1, BatchSizes
  <2>4. a \in Nat /\ (i + 1) * h = a + h
    <3>1. i \in Int /\ i \in Nat /\ h \in Nat
      BY <1>1, <2>1
    <3> QED
      BY <3>1, HopNext, Zenon
  <2> QED
    BY <2>1, <2>2, <2>3, <2>4
<1>3. Seen = a /\ b \in Nat /\ a < b
  BY <1>2 DEF Seen, Lesser
<1>4. UNCHANGED <<SegLen, Unfolded(SegLen), NBatches(SegLen), Asked>> /\ \A s : Times(s)' = Times(s)
  BY DEF Infer, SegLen, SegStart, SegEnd, Unfolded, NBatches, Padded, EndPad, NChunks, Front,
         Overlap, Asked, Times
<1>5. Seen' = b
  BY <1>4 DEF Infer, Seen
<1>6. Batch(SegLen, i) = Span(a, b)
  BY DEF Batch
<1>7. ASSUME NEW s \in Asked
      PROVE  /\ outputs'[s] \in Seq(Int) /\ Len(outputs'[s]) = Times(s) * b
             /\ Times(s) = 1 => outputs'[s] = Span(0, b)
  <2>1. outputs'[s] = Appended(s, Span(a, b))
    BY <1>6 DEF Infer
  <2>2. /\ outputs[s] \in Seq(Int) /\ Len(outputs[s]) = Times(s) * a
        /\ Times(s) = 1 => outputs[s] = Span(0, a)
    BY <1>3 DEF BufferInv, Infer
  <2> HIDE DEF a, b
  <2> QED
    BY <1>1, <1>2, <1>3, <2>1, <2>2, BatchAppended
<1>8. i' \in Nat /\ i' <= NBatches(SegLen)
  BY <1>1, <1>2 DEF Infer
<1> HIDE DEF a, b
<1> QED
  BY <1>4, <1>5, <1>7, <1>8 DEF BufferInv

\* A segment begins with nothing buffered.
LEMMA SegmentBuffers ==
    ASSUME IInv, Segment
    PROVE  BufferInv'
<1>1. CallOK /\ SegLen \in Nat /\ SegLen > 0
  BY SegmentSize DEF IInv, GridInv, Segment
<1>2. Unfolded(SegLen) \in Nat /\ NBatches(SegLen) \in Nat /\ call.batch \in Nat
  BY <1>1, HandlerSizes, BatchSizes, HopTypes
<1>3. UNCHANGED <<call, SegLen, Unfolded(SegLen), NBatches(SegLen), Asked>>
      /\ \A s : Times(s)' = Times(s)
  BY DEF Segment, SegLen, SegStart, SegEnd, Unfolded, NBatches, Padded, EndPad, NChunks, Front,
         Overlap, Asked, Times
<1>4. i' = 0 /\ Seen' = 0
  BY <1>2, <1>3 DEF Segment, Seen, Lesser
<1>5. Span(0, 0) = <<>>
  BY DEF Span
<1>6. ASSUME NEW s \in Asked
      PROVE  /\ outputs'[s] \in Seq(Int) /\ Len(outputs'[s]) = Times(s) * 0
             /\ outputs'[s] = Span(0, 0)
  <2>1. outputs'[s] = <<>> /\ Times(s) * 0 = 0
    BY <1>1, TimesType DEF Segment
  <2> QED
    BY <1>5, <2>1
<1> QED
  BY <1>2, <1>3, <1>4, <1>6 DEF BufferInv

\* At every turn of the handler's loop the chunks seen so far are buffered, in
\* order, once for every time their stem is asked for.
THEOREM Buffered == Spec => []BufferInv
<1>1. Init => BufferInv
  BY DEF Init, BufferInv
<1>2. ASSUME IInv, BufferInv, [Next]_vars PROVE BufferInv'
  <2>1. CASE Segment
    BY <1>2, <2>1, SegmentBuffers
  <2>2. CASE Infer
    BY <1>2, <2>2, InferBuffers
  <2>3. CASE UNCHANGED vars
    <3>1. UNCHANGED <<call, pos, i, outputs, phase>>
      BY <2>3 DEF vars
    <3>2. UNCHANGED <<SegLen, Unfolded(SegLen), NBatches(SegLen), Asked>>
          /\ \A s : Times(s)' = Times(s)
      BY <3>1 DEF SegLen, SegStart, SegEnd, Unfolded, NBatches, Padded, EndPad, NChunks, Front,
                  Overlap, Asked, Times
    <3>3. Seen' = Seen
      BY <3>1, <3>2 DEF Seen
    <3> QED
      BY <1>2, <3>1, <3>2, <3>3 DEF BufferInv
  <2> QED
    BY <1>2, <2>1, <2>2, <2>3
    DEF Next, Reject, Open, Cancel, FoldRaises, Write, Report, Return, BufferInv
<1> QED
  BY <1>1, <1>2, Invariant, PTL DEF Spec

-----------------------------------------------------------------------------
(* Results on memory and on the output. *)

\* Nothing is buffered but in the handler's loop, and for no stem but those asked for.
MemInv ==
    /\ audio \in {0, call.n}
    /\ phase = "infer" => DOMAIN outputs = Asked
    /\ phase # "infer" => \A s \in DOMAIN outputs : outputs[s] = <<>>

\* The decoded input is held whole or not at all, and chunks are buffered in the
\* handler's loop only.
THEOREM Held == Spec => []MemInv
<1>1. Init => MemInv
  BY DEF Init, MemInv
<1>2. ASSUME MemInv, [Next]_vars PROVE MemInv'
  <2> USE <1>2 DEF MemInv
  <2>1. CASE Reject \/ Open \/ Report
    BY <2>1 DEF Reject, Open, Report
  <2>2. CASE Segment \/ Infer
    <3>1. UNCHANGED <<call, audio>> /\ Asked' = Asked /\ phase' = "infer" /\ DOMAIN outputs' = Asked
      BY <2>2 DEF Segment, Infer, Asked
    <3> QED
      BY <3>1
  <2>3. CASE Write
    <3>1. /\ UNCHANGED <<call, audio>> /\ phase' = "report"
          /\ \A s \in DOMAIN outputs' : outputs'[s] = <<>>
      BY <2>3 DEF Write
    <3> QED
      BY <3>1
  <2>4. CASE Cancel \/ FoldRaises \/ Return
    <3>1. audio' = 0 /\ outputs' = <<>> /\ phase' # "infer"
      BY <2>4 DEF Cancel, FoldRaises, Return
    <3>2. \A s \in DOMAIN outputs' : outputs'[s] = <<>>
      BY <3>1
    <3> QED
      BY <3>1, <3>2
  <2>5. CASE UNCHANGED vars
    BY <2>5 DEF vars, Asked
  <2> QED
    BY <2>1, <2>2, <2>3, <2>4, <2>5 DEF Next
<1> QED
  BY <1>1, <1>2, PTL DEF Spec

\* What a segment and its margins make of chunks, however often they are kept.
LEMMA BufferIsBounded ==
    ASSUME IInv, BufferInv, phase = "infer", NEW s \in Asked
    PROVE  Len(outputs[s]) <= Unfolded(call.step + 2 * call.margin) * Times(s)
<1> DEFINE most == Unfolded(call.step + 2 * call.margin)
<1>1. /\ CallOK /\ SegLen \in Nat /\ SegLen > 0 /\ SegLen <= call.step + 2 * call.margin
      /\ call.step + 2 * call.margin \in Nat
  BY InSegment, CallTypes
<1>2. Unfolded(SegLen) <= most /\ Unfolded(SegLen) \in Nat /\ most \in Nat
  BY <1>1, UnfoldedGrows, HandlerSizes
<1>3. Seen \in Nat /\ Seen <= most
  BY <1>1, <1>2, HopTypes DEF Seen, Lesser, BufferInv
<1>4. Len(outputs[s]) = Times(s) * Seen /\ Times(s) \in Nat
  BY <1>1, TimesType DEF BufferInv
<1>5. Times(s) * Seen <= most * Times(s)
  <2> HIDE DEF most
  <2>1. Times(s) * (most - Seen) >= 0
    BY <1>2, <1>3, <1>4
  <2> QED
    BY <1>2, <1>3, <1>4, <2>1
<1> QED
  BY <1>4, <1>5

\* For every input, however long: a call holds the whole of it, and on top of it
\* what is bounded by the segment and its margins.
THEOREM MemoryIsBounded == Spec => []PeakIsInputAndSegment
<1>1. ASSUME IInv, BufferInv, MemInv PROVE PeakIsInputAndSegment
  <2> SUFFICES ASSUME NEW s \in DOMAIN outputs
               PROVE  audio + Chunk * Len(outputs[s])
                        <= call.n + Chunk * (Unfolded(call.step + 2 * call.margin) * Times(s))
    BY DEF PeakIsInputAndSegment, Times
  <2> DEFINE most == Unfolded(call.step + 2 * call.margin) * Times(s)
             len  == Len(outputs[s])
  <2>1. CallOK /\ Chunk \in Nat /\ call.n \in Nat /\ audio \in Nat /\ audio <= call.n
    BY <1>1, CallTypes, HopTypes DEF IInv, MemInv
  <2>2. call.step + 2 * call.margin \in Nat /\ call.step + 2 * call.margin > 0
    BY <2>1, CallTypes
  <2>3. most \in Nat
    BY <2>1, <2>2, HandlerSizes, TimesType
  <2>4. len \in Nat /\ len <= most
    <3>1. CASE phase = "infer"
      BY <1>1, <3>1, BufferIsBounded DEF MemInv, BufferInv
    <3>2. CASE phase # "infer"
      BY <1>1, <2>3, <3>2 DEF MemInv
    <3> QED
      BY <3>1, <3>2
  <2> HIDE DEF most, len
  <2>5. Chunk * (most - len) >= 0 /\ Chunk * (most - len) = Chunk * most - Chunk * len
    BY <2>1, <2>3, <2>4
  <2>6. Chunk * most \in Int /\ Chunk * len \in Int
    BY <2>1, <2>3, <2>4
  <2> QED
    BY <2>1, <2>5, <2>6 DEF most, len
<1> QED
  BY Invariant, Buffered, Held, <1>1, PTL

\* A segment from a to b of an input of n samples, around a kept sample x that
\* has the context FullContext promises.
Around(a, b, n, x) ==
    /\ a \in Nat /\ b \in Nat /\ n \in Nat /\ b <= n
    /\ x \in a..(b - 1)
    /\ a = 0 \/ a <= x - (Chunk - 1)
    /\ b = n \/ x + (Chunk - 1) < b

\* Chunk c of the segment from a covers sample x.
Covers(c, a, x) ==
    c * call.hop <= x - a + Front /\ x - a + Front < c * call.hop + Chunk

\* Every chunk that can cover a kept sample is there.
LEMMA CoveringExists ==
    ASSUME CallOK, NEW a, NEW b, NEW n, NEW x, Around(a, b, n, x), NEW c \in Int, Covers(c, a, x)
    PROVE  c < Unfolded(b - a) /\ (a > 0 => c >= 0)
<1> DEFINE h == call.hop
           m == b - a
           w == CeilDiv(m + 2 * Front - Chunk, h)
<1>1. /\ h \in Nat /\ h > 0 /\ Chunk \in Nat /\ h <= Chunk
      /\ Front \in Nat /\ Front = 2 * (Chunk - h)
  BY CallTypes, HopTypes
<1>2. /\ a \in Nat /\ b \in Nat /\ x \in Int /\ a <= x /\ x < b /\ m \in Nat /\ m > 0
      /\ a = 0 \/ a <= x - (Chunk - 1)
  BY DEF Around
<1>3. /\ c * h \in Int /\ c * h <= x - a + Front /\ x - a + Front < c * h + Chunk
  BY <1>1 DEF Covers
<1>4. c < Unfolded(m)
  <2>1. Unfolded(m) \in Nat /\ Unfolded(m) * h = 2 * Front + w * h + h
    BY <1>2, HandlerSizes
  <2>2. m + 2 * Front - Chunk \in Int
    BY <1>1, <1>2
  <2>3. w \in Int /\ m + 2 * Front - Chunk <= w * h
    BY <1>1, <2>2, CeilBounds
  <2> HIDE DEF w
  <2>4. w * h \in Int
    BY <1>1, <2>3
  <2>5. (c + 1) * h = c * h + h
    BY <1>1, HopNext
  <2>6. (c + 1) * h < Unfolded(m) * h + h
    BY <1>1, <1>2, <1>3, <2>1, <2>3, <2>4, <2>5
  <2>7. c + 1 <= Unfolded(m)
    BY <1>1, <2>1, <2>6, HopsOrder
  <2> QED
    BY <2>1, <2>7
<1>5. ASSUME a > 0 PROVE c >= 0
  <2>1. 0 * h < c * h + h
    <3>1. x - a + Front >= Chunk - 1
      BY <1>1, <1>2, <1>5
    <3>2. c * h >= 0
      BY <1>1, <1>2, <1>3, <3>1
    <3> QED
      BY <1>1, <3>2
  <2> QED
    BY <1>1, <2>1, HopsOrder
<1> QED
  BY <1>4, <1>5

\* The padding of a segment in front is as long as Front, whatever it is made of.
LEMMA PaddingCases ==
    ASSUME CallOK, NEW m \in Nat, m > 0
    PROVE  /\ Padding(m).left \in Nat /\ Padding(m).right \in Nat /\ Padding(m).silence \in Nat
           /\ Padding(m).silence + Padding(m).left = Front
           /\ Padding(m).left \in {m - 1, Front}
           /\ Padding(m).right \in {m - 1, Front + EndPad(m)}
  BY HopTypes, HandlerSizes DEF Padding

\* Within a chunk around x, padding and segment hold what the whole input holds
\* there: real audio, or the same reflection at the same end.
LEMMA SameSample ==
    ASSUME CallOK, NEW a, NEW b, NEW n, NEW x, Around(a, b, n, x),
           NEW y \in Nat, y < Padded(b - a), y + a < Padded(n),
           y + a - Front - x < Chunk, x - (y + a - Front) < Chunk
    PROVE  PaddedSample(a, b, y) = PaddedSample(0, n, y + a)
<1> DEFINE m == b - a
           r == y - Front
<1>1. /\ a \in Nat /\ b \in Nat /\ n \in Nat /\ b <= n /\ x \in Int /\ a <= x /\ x < b
      /\ m \in Nat /\ m > 0 /\ n > 0 /\ Chunk \in Nat /\ Chunk > 0 /\ Front \in Nat /\ r \in Int
      /\ a = 0 \/ a <= x - (Chunk - 1)
      /\ b = n \/ x + (Chunk - 1) < b
  BY CallTypes, HopTypes DEF Around
<1>2. CASE a = 0 /\ b = n
  BY <1>1, <1>2
<1>3. CASE ~(a = 0 /\ b = n)
  <2> DEFINE p == Padding(m)
             P == Padding(n)
  <2>1. /\ p.left \in Nat /\ p.right \in Nat /\ p.silence \in Nat /\ p.silence + p.left = Front
        /\ p.left \in {m - 1, Front} /\ p.right \in {m - 1, Front + EndPad(m)}
    BY <1>1, PaddingCases
  <2>2. /\ P.left \in Nat /\ P.right \in Nat /\ P.silence \in Nat /\ P.silence + P.left = Front
        /\ P.left \in {n - 1, Front} /\ P.right \in {n - 1, Front + EndPad(n)}
    BY <1>1, PaddingCases
  <2> HIDE DEF p, P
  <2>3. y - p.silence - p.left = r /\ (y + a) - P.silence - P.left = r + a
    BY <1>1, <2>1, <2>2
  <2>4. y < m + 2 * Front + EndPad(m) /\ EndPad(m) \in Nat
        /\ y + a < n + 2 * Front + EndPad(n) /\ EndPad(n) \in Nat
    BY <1>1, HandlerSizes
  <2>5. r + a < x + Chunk /\ x - Chunk < r + a
    BY <1>1
  <2>6. - p.left <= r /\ - P.left <= r + a
    BY <1>1, <1>3, <2>1, <2>2, <2>5
  <2>7. r < m + p.right /\ r + a < n + P.right
    BY <1>1, <1>3, <2>1, <2>2, <2>4, <2>5
  <2>8. (r < 0 => a = 0) /\ (r >= m => b = n) /\ (r + a >= n => r >= m)
    BY <1>1, <2>5
  <2>9. PaddedSample(a, b, y) = IF r < 0 THEN a - r ELSE IF r < m THEN a + r
                                ELSE a + 2 * (m - 1) - r
    BY <1>1, <2>1, <2>3, <2>6, <2>7 DEF PaddedSample, p
  <2>10. PaddedSample(0, n, y + a) = IF r + a < 0 THEN 0 - (r + a) ELSE IF r + a < n THEN r + a
                                     ELSE 2 * (n - 1) - (r + a)
    BY <1>1, <2>2, <2>3, <2>6, <2>7 DEF PaddedSample, P
  <2> QED
    BY <1>1, <2>8, <2>9, <2>10
<1> QED
  BY <1>2, <1>3

\* What _fold adds up for sample x of the chunks in order.
LEMMA FoldedSpan ==
    ASSUME NEW a, NEW b, NEW x, NEW u \in Nat
    PROVE  Folded(a, b, Span(0, u), x)
             = {<<(x - a + Front) - c * call.hop, Content(a, b, c)>> :
                   c \in {d \in 0..(u - 1) : Covers(d, a, x)}}
<1> DEFINE E(c) == <<(x - a + Front) - c * call.hop, Content(a, b, c)>>
<1>1. DOMAIN Span(0, u) = 1..u /\ \A k \in 1..u : Span(0, u)[k] = k - 1
  BY DEF Span
<1> DEFINE F(k) == <<(x - a + Front) - (k - 1) * call.hop, Content(a, b, Span(0, u)[k])>>
<1>2. \A k \in 1..u : F(k) = E(k - 1)
  BY <1>1
<1>3. ASSUME NEW v
      PROVE  v \in Folded(a, b, Span(0, u), x)
               <=> \E k \in DOMAIN Span(0, u) : Covers(k - 1, a, x) /\ v = F(k)
  BY DEF Folded, Covers
<1> HIDE DEF E, F
<1>4. ASSUME NEW v \in Folded(a, b, Span(0, u), x)
      PROVE  v \in {E(c) : c \in {d \in 0..(u - 1) : Covers(d, a, x)}}
  <2>1. PICK k \in 1..u : Covers(k - 1, a, x) /\ v = E(k - 1)
    BY <1>1, <1>2, <1>3
  <2>2. k - 1 \in 0..(u - 1)
    OBVIOUS
  <2> QED
    BY <2>1, <2>2
<1>5. ASSUME NEW v \in {E(c) : c \in {d \in 0..(u - 1) : Covers(d, a, x)}}
      PROVE  v \in Folded(a, b, Span(0, u), x)
  <2>1. PICK c \in 0..(u - 1) : Covers(c, a, x) /\ v = E(c)
    BY <1>5
  <2>2. c + 1 \in 1..u /\ (c + 1) - 1 = c
    OBVIOUS
  <2> QED
    BY <1>1, <1>2, <1>3, <2>1, <2>2
<1>6. Folded(a, b, Span(0, u), x) = {E(c) : c \in {d \in 0..(u - 1) : Covers(d, a, x)}}
  BY <1>4, <1>5 DEF Folded
<1> QED
  BY <1>6 DEF E

\* The chunks over a kept sample of a segment are chunks of the whole input,
\* with the same content, at the same place.
LEMMA SameFold ==
    ASSUME CallOK, NEW a, NEW b, NEW n, NEW x, Around(a, b, n, x), OnHop(a)
    PROVE  Folded(a, b, Span(0, Unfolded(b - a)), x) = Folded(0, n, Span(0, Unfolded(n)), x)
<1> DEFINE h == call.hop
           U == Unfolded(b - a)
           W == Unfolded(n)
<1>1. /\ h \in Nat /\ h > 0 /\ Chunk \in Nat /\ Chunk > 0 /\ Front \in Nat
      /\ a \in Nat /\ b \in Nat /\ n \in Nat /\ x \in Int /\ a <= x /\ x < b /\ b <= n
      /\ b - a \in Nat /\ b - a > 0 /\ n > 0
  BY CallTypes, HopTypes DEF Around
<1>2. PICK q \in Nat : a = q * h
  BY DEF OnHop
<1>3. /\ U \in Nat /\ U > 0 /\ W \in Nat /\ W > 0
      /\ (U - 1) * h + Chunk = Padded(b - a) /\ (W - 1) * h + Chunk = Padded(n)
  BY <1>1, HandlerSizes
<1>4. Around(0, n, n, x)
  BY <1>1 DEF Around
<1>5. ASSUME NEW c \in Int
      PROVE  /\ (c + q) * h = c * h + a /\ c * h \in Int
             /\ (x - 0 + Front) - (c + q) * h = (x - a + Front) - c * h
             /\ Covers(c, a, x) <=> Covers(c + q, 0, x)
  <2>1. (c + q) * h = c * h + q * h /\ c * h \in Int
    BY <1>1
  <2>2. (c + q) * h = c * h + a
    BY <1>2, <2>1
  <2> DEFINE v == c * h
             w == (c + q) * h
  <2>3. w = v + a /\ v \in Int
    BY <2>1, <2>2
  <2>4. /\ Covers(c, a, x) <=> v <= x - a + Front /\ x - a + Front < v + Chunk
        /\ Covers(c + q, 0, x) <=> w <= x - 0 + Front /\ x - 0 + Front < w + Chunk
    BY DEF Covers
  <2> HIDE DEF v, w
  <2>5. /\ (x - 0 + Front) - w = (x - a + Front) - v
        /\ Covers(c, a, x) <=> Covers(c + q, 0, x)
    BY <1>1, <2>3, <2>4
  <2> QED
    BY <2>3, <2>5 DEF v, w
<1>6. ASSUME NEW c \in Int, Covers(c, a, x)
      PROVE  /\ c < U /\ c + q < W
             /\ c >= 0 <=> c + q >= 0
  <2>1. c < U /\ (a > 0 => c >= 0)
    BY <1>6, CoveringExists
  <2>2. Covers(c + q, 0, x) /\ c + q \in Int
    BY <1>5, <1>6
  <2>3. c + q < Unfolded(n - 0)
    BY <1>4, <2>2, CoveringExists
  <2>4. c + q < W
    BY <1>1, <2>3
  <2>5. a = 0 => q = 0
    BY <1>1, <1>2
  <2> QED
    BY <1>1, <2>1, <2>4, <2>5
<1>7. ASSUME NEW c \in Nat, c < U, c + q < W, Covers(c, a, x)
      PROVE  Content(a, b, c) = Content(0, n, c + q)
  <2>1. SUFFICES ASSUME NEW o \in 0..(Chunk - 1)
                 PROVE  PaddedSample(a, b, c * h + o) = PaddedSample(0, n, (c + q) * h + o)
    BY DEF Content
  <2> DEFINE y == c * h + o
  <2>2. c * h \in Nat /\ (c + q) * h + o = y + a
    <3>1. c \in Int /\ c * h \in Nat
      BY <1>1, HopNext
    <3>2. (c + q) * h = c * h + a
      BY <3>1, <1>5
    <3> QED
      BY <1>1, <3>1, <3>2
  <2>3. c * h <= (U - 1) * h /\ (c + q) * h <= (W - 1) * h
    <3>1. (U - 1 - c) * h >= 0 /\ (W - 1 - (c + q)) * h >= 0
      BY <1>1, <1>3, <1>7
    <3>2. (U - 1 - c) * h = (U - 1) * h - c * h /\ (W - 1 - (c + q)) * h = (W - 1) * h - (c + q) * h
      BY <1>1, <1>3
    <3>3. (U - 1) * h \in Int /\ (W - 1) * h \in Int /\ c * h \in Int /\ (c + q) * h \in Int
      BY <1>1, <1>3
    <3> QED
      BY <3>1, <3>2, <3>3
  <2>4. /\ (U - 1) * h \in Int /\ (W - 1) * h \in Int /\ (c + q) * h \in Int
    BY <1>1, <1>3
  <2>5. y \in Nat /\ y < Padded(b - a) /\ y + a < Padded(n)
    BY <1>1, <1>3, <2>2, <2>3, <2>4
  <2>6. y + a - Front - x < Chunk /\ x - (y + a - Front) < Chunk
    BY <1>1, <1>7, <2>2 DEF Covers
  <2> HIDE DEF y
  <2>7. PaddedSample(a, b, y) = PaddedSample(0, n, y + a)
    BY <2>5, <2>6, SameSample
  <2> QED
    BY <2>2, <2>7 DEF y
<1> DEFINE Part(c) == <<(x - a + Front) - c * h, Content(a, b, c)>>
           Whole(c) == <<(x - 0 + Front) - c * h, Content(0, n, c)>>
<1>8. Folded(a, b, Span(0, U), x) = {Part(c) : c \in {d \in 0..(U - 1) : Covers(d, a, x)}}
  BY <1>1, <1>3, FoldedSpan
<1>9. Folded(0, n, Span(0, W), x) = {Whole(c) : c \in {d \in 0..(W - 1) : Covers(d, 0, x)}}
  BY <1>1, <1>3, FoldedSpan
<1>10. ASSUME NEW c \in 0..(U - 1), Covers(c, a, x)
       PROVE  c + q \in 0..(W - 1) /\ Covers(c + q, 0, x) /\ Part(c) = Whole(c + q)
  BY <1>1, <1>3, <1>5, <1>6, <1>7, <1>10
<1>11. ASSUME NEW d \in 0..(W - 1), Covers(d, 0, x)
       PROVE  \E c \in 0..(U - 1) : Covers(c, a, x) /\ c + q = d
  <2>1. d - q \in Int /\ (d - q) + q = d
    BY <1>3
  <2>2. Covers(d - q, a, x)
    BY <1>5, <1>11, <2>1
  <2>3. d - q < U /\ d - q >= 0
    BY <1>3, <1>6, <2>1, <2>2
  <2> QED
    BY <1>3, <2>1, <2>2, <2>3
<1>12. {Part(c) : c \in {d \in 0..(U - 1) : Covers(d, a, x)}}
         = {Whole(c) : c \in {d \in 0..(W - 1) : Covers(d, 0, x)}}
  <2> HIDE DEF Part, Whole, U, W
  <2>1. ASSUME NEW v \in {Part(c) : c \in {d \in 0..(U - 1) : Covers(d, a, x)}}
        PROVE  v \in {Whole(c) : c \in {d \in 0..(W - 1) : Covers(d, 0, x)}}
    BY <1>10, <2>1
  <2>2. ASSUME NEW v \in {Whole(c) : c \in {d \in 0..(W - 1) : Covers(d, 0, x)}}
        PROVE  v \in {Part(c) : c \in {d \in 0..(U - 1) : Covers(d, a, x)}}
    <3>1. PICK d \in 0..(W - 1) : Covers(d, 0, x) /\ v = Whole(d)
      BY <2>2
    <3>2. PICK c \in 0..(U - 1) : Covers(c, a, x) /\ c + q = d
      BY <1>11, <3>1
    <3>3. v = Part(c)
      BY <1>10, <3>1, <3>2
    <3> QED
      BY <3>2, <3>3
  <2> QED
    BY <2>1, <2>2
<1> QED
  BY <1>8, <1>9, <1>12

\* For every configuration SeparationConfig accepts: segment size does not change
\* the output.
THEOREM SegmentsAreTransparent == Spec => []Transparent
<1>1. ASSUME IInv, BufferInv, FullContext PROVE Transparent
  <2> SUFFICES ASSUME phase = "infer", i = NBatches(SegLen), Foldable,
                      NEW s \in Asked, NEW x \in (SegStart + Left)..(SegStart + Right - 1)
               PROVE  Folded(SegStart, SegEnd, outputs[s], x)
                        = Folded(0, call.n, Span(0, Unfolded(call.n)), x)
    BY DEF Transparent
  <2>1. CallOK /\ Accepted /\ pos \in Nat /\ pos < call.n /\ SegLen \in Nat /\ SegLen > 0
    BY <1>1, InSegment
  <2>2. Unfolded(SegLen) \in Nat /\ Unfolded(SegLen) > 0
    BY <2>1, HandlerSizes
  <2>3. Seen = Unfolded(SegLen)
    <3>1. Unfolded(SegLen) <= i * call.batch
      BY <2>1, BatchSizes
    <3>2. i * call.batch \in Nat
      <4>1. i \in Int /\ i \in Nat /\ call.batch \in Nat
        BY <2>1, BatchSizes, HopTypes
      <4> QED
        BY <4>1, HopNext, Zenon
    <3> QED
      BY <2>2, <3>1, <3>2 DEF Seen, Lesser
  <2>4. Times(s) = 1
    <3>1. Times(s) * Unfolded(SegLen) = Unfolded(SegLen) /\ Times(s) \in Nat
      BY <1>1, <2>1, <2>3, TimesType DEF BufferInv, Foldable
    <3> QED
      BY <2>2, <3>1, OnlyOnce
  <2>5. outputs[s] = Span(0, Unfolded(SegEnd - SegStart))
    BY <1>1, <2>3, <2>4 DEF BufferInv, SegLen
  <2>6. /\ SegStart \in Nat /\ SegEnd \in Nat /\ SegStart <= pos /\ SegStart <= SegEnd
        /\ SegStart + Left = pos /\ SegStart + Right = Lesser(pos + call.step, call.n)
        /\ Right <= SegEnd - SegStart /\ Right \in Nat
    BY <2>1, InteriorOfSegment
  <2>7. x \in pos..(Lesser(pos + call.step, call.n) - 1) /\ x \in SegStart..(SegEnd - 1)
    BY <2>1, <2>6
  <2>8. SegEnd <= call.n /\ call.n \in Nat
    BY <2>1, CallTypes DEF SegEnd, Lesser
  <2>9. Around(SegStart, SegEnd, call.n, x) /\ OnHop(SegStart)
    BY <1>1, <2>6, <2>7, <2>8 DEF FullContext, Around
  <2> QED
    BY <2>1, <2>5, <2>9, SameFold
<1> QED
  BY Invariant, Buffered, ContextIsFull, <1>1, PTL

-----------------------------------------------------------------------------
(* What has been reported. *)

\* Positions are the segments done, and the last one ends less than a segment
\* behind the input.
CountInv ==
    /\ segIndex \in Nat /\ i \in Nat
    /\ pos < call.n + call.step
    /\ pos = segIndex * call.step
    /\ phase = "check" => segIndex = 0
    /\ phase = "report" => segIndex > 0 /\ call.n > 0

\* Nothing is reported before the first batch; within a segment, the batch last
\* sent; after it, no more than the segments done; and all only at the end.
ReportInv ==
    /\ reported.num \in Nat /\ reported.den \in Nat \ {0} /\ reported.num <= reported.den
    /\ \/ phase = "check"
       \/ phase = "segment" /\ segIndex = 0
       \/ phase = "infer" /\ i = 0 /\ segIndex = 0
       => reported.num = 0
    /\ phase = "infer" /\ i > 0 =>
           /\ reported.den = NSegments * NBatches(SegLen)
           /\ reported.num = segIndex * NBatches(SegLen) + (i - 1)
    /\ phase = "report" => reported.num * NSegments <= segIndex * reported.den
    /\ reported.num = reported.den => pos >= call.n /\ phase \in {"segment", "returned"}

\* The segments, of step samples each, are enough, and no one too many.
LEMMA SegmentCount ==
    ASSUME CallOK
    PROVE  /\ NSegments \in Nat /\ NSegments > 0 /\ call.n <= NSegments * call.step
           /\ \A k \in Nat : k * call.step < call.n => k < NSegments
<1> DEFINE st == call.step
<1>1. st \in Nat /\ st > 0 /\ call.n \in Nat /\ call.n \in Int
  BY CallTypes
<1>2. CeilDiv(call.n, st) \in Int /\ call.n <= CeilDiv(call.n, st) * st
  BY <1>1, CeilBounds
<1>3. NSegments \in Nat /\ NSegments > 0 /\ CeilDiv(call.n, st) <= NSegments
  BY <1>2 DEF NSegments, Greater
<1>4. call.n <= NSegments * st
  <2>1. (NSegments - CeilDiv(call.n, st)) * st >= 0
    BY <1>1, <1>2, <1>3
  <2>2. (NSegments - CeilDiv(call.n, st)) * st = NSegments * st - CeilDiv(call.n, st) * st
    BY <1>1, <1>2, <1>3
  <2>3. NSegments * st \in Int /\ CeilDiv(call.n, st) * st \in Int
    BY <1>1, <1>2, <1>3
  <2> QED
    BY <1>1, <1>2, <2>1, <2>2, <2>3
<1>5. ASSUME NEW k \in Nat, k * st < call.n
      PROVE  k < NSegments
  <2>1. (k + 1) * st = k * st + st /\ k * st \in Int /\ NSegments * st \in Int
    BY <1>1, <1>3
  <2>2. (k + 1) * st < NSegments * st + st
    BY <1>1, <1>4, <1>5, <2>1
  <2>3. k + 1 <= NSegments
    BY <1>1, <1>3, <2>2, HopsOrder
  <2> QED
    BY <1>3, <2>3
<1> QED
  BY <1>3, <1>4, <1>5

\* Batch i of segment k is before the end of segment k.
LEMMA BatchFraction ==
    ASSUME NEW k \in Nat, NEW l \in Nat, NEW nb \in Nat, NEW b \in Nat, k < l, b < nb
    PROVE  /\ k * nb + b \in Nat /\ l * nb \in Nat /\ k * nb + b < l * nb
           /\ (k * nb) * l = k * (l * nb)
           /\ (k * nb + b) * l <= (k + 1) * (l * nb)
<1>1. k * nb \in Nat /\ l * nb \in Nat
  OBVIOUS
<1>2. (l - k - 1) * nb >= 0 /\ (l - k - 1) * nb = l * nb - k * nb - nb
  OBVIOUS
<1>3. (k * nb) * l = k * (l * nb) /\ nb * l = l * nb
  OBVIOUS
<1>4. (nb - b) * l >= 0 /\ (nb - b) * l = nb * l - b * l /\ b * l \in Nat
  OBVIOUS
<1>5. (k * nb + b) * l = (k * nb) * l + b * l /\ (k + 1) * (l * nb) = k * (l * nb) + l * nb
  OBVIOUS
<1>6. (k * nb) * l \in Nat
  BY <1>1
<1>7. (k * nb + b) * l <= (k + 1) * (l * nb)
  BY <1>1, <1>3, <1>4, <1>5, <1>6
<1>8. k * nb + b \in Nat /\ k * nb + b < l * nb
  BY <1>1, <1>2
<1> QED
  BY <1>1, <1>3, <1>7, <1>8

\* A fraction of l segments that is not above k of them is not above their samples.
LEMMA SegmentFraction ==
    ASSUME NEW k \in Nat, NEW l \in Nat, NEW st \in Nat, NEW n \in Nat, n <= l * st,
           NEW num \in Nat, NEW den \in Nat, num * l <= k * den
    PROVE  num * n <= (k * st) * den
<1>1. num * (l * st - n) >= 0 /\ num * (l * st - n) = num * (l * st) - num * n
  OBVIOUS
<1>2. st * (k * den - num * l) >= 0 /\ st * (k * den - num * l) = st * (k * den) - st * (num * l)
  OBVIOUS
<1>3. st * (num * l) = num * (l * st) /\ st * (k * den) = (k * st) * den
  OBVIOUS
<1>4. num * n \in Int /\ num * (l * st) \in Int /\ (k * st) * den \in Int
  OBVIOUS
<1> QED
  BY <1>1, <1>2, <1>3, <1>4

LEMMA CountNext ==
    ASSUME IInv, CountInv, [Next]_vars
    PROVE  CountInv'
<1> DEFINE st == call.step
<1>1. st \in Nat /\ st > 0 /\ call.n \in Nat
  BY CallTypes DEF IInv
<1>2. CASE Write
  <2>1. pos < call.n /\ pos \in Nat
    BY <1>2 DEF IInv, GridInv, Write
  <2>2. (segIndex + 1) * st = segIndex * st + st
    <3>1. segIndex \in Int
      BY DEF CountInv
    <3> QED
      BY <1>1, <3>1, HopNext, Zenon
  <2>3. pos' = segIndex' * call'.step
    BY <1>2, <2>2 DEF Write, CountInv
  <2> QED
    BY <1>1, <1>2, <2>1, <2>3 DEF Write, CountInv
<1>3. CASE Infer
  BY <1>3 DEF Infer, CountInv
<1>4. CASE UNCHANGED vars
  BY <1>4 DEF vars, CountInv
<1> QED
  BY <1>2, <1>3, <1>4
  DEF Next, Reject, Open, Segment, Cancel, FoldRaises, Report, Return, CountInv

LEMMA CountInit == Init => CountInv
<1> SUFFICES ASSUME Init PROVE CountInv
  OBVIOUS
<1>1. CallOK
  BY DEF Init, CallOK
<1>2. 0 * call.step = 0
  BY <1>1, CallTypes
<1> QED
  BY <1>1, <1>2, CallTypes DEF Init, CountInv

\* Where a segment is, whatever it is about to do.
LEMMA Where ==
    ASSUME IInv, CountInv, phase = "infer"
    PROVE  /\ CallOK /\ segIndex \in Nat /\ NSegments \in Nat /\ segIndex < NSegments
           /\ NBatches(SegLen) \in Nat /\ NBatches(SegLen) > 0
<1>1. CallOK /\ pos < call.n /\ SegLen \in Nat /\ SegLen > 0
  BY InSegment
<1>2. NSegments \in Nat /\ \A k \in Nat : k * call.step < call.n => k < NSegments
  BY <1>1, SegmentCount
<1>3. segIndex \in Nat /\ segIndex * call.step < call.n
  BY <1>1 DEF CountInv
<1> QED
  BY <1>1, <1>2, <1>3, BatchSizes

\* The report a batch sends counts the segments done and the batches before it.
LEMMA InferReports ==
    ASSUME IInv, CountInv, Infer
    PROVE  /\ reported'.num = segIndex * NBatches(SegLen) + i
           /\ reported'.den = NSegments * NBatches(SegLen)
           /\ reported'.num \in Nat /\ reported'.den \in Nat /\ reported'.num < reported'.den
           /\ UNCHANGED <<NSegments, NBatches(SegLen)>>
<1> DEFINE nb == NBatches(SegLen)
<1>1. /\ segIndex \in Nat /\ NSegments \in Nat /\ segIndex < NSegments /\ nb \in Nat
      /\ i \in Nat /\ i < nb
  BY Where DEF Infer, CountInv
<1>2. /\ segIndex * nb + i \in Nat /\ NSegments * nb \in Nat
      /\ segIndex * nb + i < NSegments * nb
  BY <1>1, BatchFraction
<1>3. reported' = Fraction(segIndex * nb + i, NSegments * nb)
  BY DEF Infer, OnProgress, Base
<1>4. UNCHANGED <<NSegments, NBatches(SegLen)>>
  BY DEF Infer, NSegments, SegLen, SegStart, SegEnd, Unfolded, NBatches, Padded, EndPad, NChunks,
         Front, Overlap
<1>5. /\ reported'.num = Lesser(segIndex * nb + i, NSegments * nb)
      /\ reported'.den = NSegments * nb
  BY <1>3 DEF Fraction
<1> QED
  BY <1>2, <1>4, <1>5 DEF Lesser

\* What Write leaves to be reported is no less than what has been.
LEMMA WriteReports ==
    ASSUME IInv, BufferInv, CountInv, ReportInv, Write
    PROVE  /\ reported.num * NSegments <= (segIndex + 1) * reported.den
           /\ reported.num # reported.den
<1> DEFINE nb == NBatches(SegLen)
<1>1. /\ segIndex \in Nat /\ NSegments \in Nat /\ segIndex < NSegments
      /\ nb \in Nat /\ nb > 0 /\ i = nb
  BY Where DEF Write
<1>2. reported.den = NSegments * nb /\ reported.num = segIndex * nb + (i - 1)
  BY <1>1 DEF ReportInv, Write
<1>3. i - 1 \in Nat /\ i - 1 < nb
  BY <1>1
<1>4. /\ (segIndex * nb + (i - 1)) * NSegments <= (segIndex + 1) * (NSegments * nb)
      /\ segIndex * nb + (i - 1) < NSegments * nb
      /\ segIndex * nb + (i - 1) \in Nat /\ NSegments * nb \in Nat
  BY <1>1, <1>3, BatchFraction
<1> QED
  BY <1>2, <1>4

LEMMA ReportNext ==
    ASSUME IInv, BufferInv, CountInv, CountInv', ReportInv, [Next]_vars
    PROVE  ReportInv'
<1>1. CASE Infer
  <2>1. i' = i + 1 /\ i \in Nat /\ phase' = "infer" /\ segIndex' = segIndex
    BY <1>1 DEF Infer, CountInv
  <2> QED
    BY <1>1, <2>1, InferReports DEF ReportInv
<1>2. CASE Write
  <2>1. reported.num * NSegments <= (segIndex + 1) * reported.den /\ reported.num # reported.den
    BY <1>2, WriteReports
  <2>2. NSegments' = NSegments
    BY <1>2 DEF Write, NSegments
  <2> QED
    BY <1>2, <2>1, <2>2 DEF Write, ReportInv
<1>3. CASE Report
  <2>1. call.n \in Nat /\ call.n > 0 /\ pos \in Nat /\ segIndex > 0
    BY <1>3, CallTypes DEF IInv, GridInv, CountInv, Report
  <2>2. reported' = Fraction(pos, call.n)
    BY <1>3 DEF Report, OnProgress
  <2>3. reported'.num = Lesser(pos, call.n) /\ reported'.den = call.n
    BY <2>2 DEF Fraction
  <2>4. /\ reported'.num \in Nat /\ reported'.den \in Nat \ {0} /\ reported'.num <= reported'.den
        /\ reported'.num = reported'.den => pos >= call.n
    BY <2>1, <2>3 DEF Lesser
  <2> QED
    BY <1>3, <2>1, <2>4 DEF Report, ReportInv
<1>4. CASE Segment
  <2>1. pos \in Nat /\ call.n \in Nat
    BY CallTypes DEF IInv, GridInv
  <2>2. ~(pos >= call.n)
    BY <1>4, <2>1 DEF Segment
  <2> QED
    BY <1>4, <2>2 DEF Segment, ReportInv
<1>5. CASE UNCHANGED vars
  BY <1>5 DEF vars, ReportInv, NSegments, SegLen, SegStart, SegEnd, Unfolded, NBatches, Padded,
              EndPad, NChunks, Front, Overlap
<1> QED
  BY <1>1, <1>2, <1>3, <1>4, <1>5
  DEF Next, Reject, Open, Cancel, FoldRaises, Return, ReportInv, CountInv

\* The position is always that of a whole number of segments.
THEOREM Counted == Spec => []CountInv
  BY CountInit, CountNext, Invariant, PTL DEF Spec

\* The last report is always that of the batch last sent or the segment last done.
THEOREM Reported == Spec => []ReportInv
<1>1. Init => ReportInv
  BY DEF Init, ReportInv, Fraction, Lesser
<1> QED
  BY <1>1, ReportNext, Invariant, Buffered, Counted, PTL DEF Spec

\* A number of units of 1 / d near a fraction is one of them, and no more than half
\* a unit above it.
LEMMA NearestBounds ==
    ASSUME NEW num \in Nat, NEW den \in Nat, den > 0, num <= den, NEW d \in Nat, d > 0,
           NEW k \in Nearest([num |-> num, den |-> den], d)
    PROVE  k \in 0..d /\ (2 * k - 1) * den <= 2 * (num * d)
<1> DEFINE below == (num * d) \div den
<1>1. num * d \in Int /\ num * d >= 0 /\ num * d <= den * d
  <2>1. (den - num) * d >= 0 /\ (den - num) * d = den * d - num * d
    OBVIOUS
  <2> QED
    BY <2>1
<1>2. below \in Int /\ below * den <= num * d /\ num * d < below * den + den
  BY <1>1, DivFloor
<1>3. k \in {below, below + 1} /\ (2 * k - 1) * den <= 2 * num * d
  BY DEF Nearest
<1> HIDE DEF below
<1>4. k \in Int /\ below >= 0
  <2>1. 0 * den < below * den + den
    BY <1>1, <1>2
  <2> QED
    BY <1>2, <1>3, <2>1, HopsOrder
<1>5. 2 * num * d = 2 * (num * d)
  OBVIOUS
<1>6. k <= d
  <2> SUFFICES ASSUME k >= d + 1 PROVE FALSE
    BY <1>4
  <2>1. (2 * k - 1 - (2 * d + 1)) * den >= 0
    BY <1>4
  <2>2. (2 * k - 1 - (2 * d + 1)) * den = (2 * k - 1) * den - 2 * (den * d) - den
    BY <1>4
  <2> QED
    BY <1>1, <1>3, <1>4, <1>5, <2>1, <2>2
<1> QED
  BY <1>3, <1>4, <1>5, <1>6

\* Half a unit less than what is saved is no more than the part a that the report
\* stood for.
LEMMA RoundedReport ==
    ASSUME NEW num \in Nat, NEW den \in Nat, den > 0, NEW k \in Nat, NEW d \in Nat,
           (2 * k - 1) * den <= 2 * (num * d),
           NEW n \in Nat, NEW a \in Nat, num * n <= a * den
    PROVE  (2 * k - 1) * n <= 2 * (d * a)
<1> DEFINE x == 2 * k - 1
<1>1. x \in Int
  OBVIOUS
<1>2. CASE n = 0
  <2>1. x * n = 0 /\ d * a >= 0
    BY <1>1, <1>2
  <2> QED
    BY <2>1
<1>3. CASE x <= 0
  <2>1. x * n <= 0 /\ d * a >= 0
    BY <1>1, <1>3
  <2> QED
    BY <1>1, <2>1
<1>4. CASE n > 0 /\ x > 0
  <2> HIDE DEF x
  <2>1. (x * den) * n <= (2 * (num * d)) * n
    <3>1. (2 * (num * d) - x * den) * n >= 0
      BY <1>1 DEF x
    <3>2. (2 * (num * d) - x * den) * n = (2 * (num * d)) * n - (x * den) * n
      BY <1>1
    <3> QED
      BY <1>1, <3>1, <3>2
  <2>2. d * (num * n) <= d * (a * den)
    <3>1. d * (a * den - num * n) >= 0
      OBVIOUS
    <3>2. d * (a * den - num * n) = d * (a * den) - d * (num * n)
      OBVIOUS
    <3> QED
      BY <3>1, <3>2
  <2>3. (2 * (num * d)) * n = 2 * (d * (num * n)) /\ (x * den) * n = (x * n) * den
    BY <1>1
  <2>4. 2 * (d * (a * den)) = (2 * (d * a)) * den
    OBVIOUS
  <2>5. (x * n) * den <= (2 * (d * a)) * den
    <3>1. (x * den) * n \in Int /\ d * (num * n) \in Int /\ d * (a * den) \in Int
      BY <1>1
    <3> QED
      BY <1>1, <2>1, <2>2, <2>3, <2>4, <3>1
  <2>6. x * n \in Int /\ 2 * (d * a) \in Int
    BY <1>1
  <2>7. (x * n) * den < (2 * (d * a)) * den + den
    <3>1. (x * n) * den \in Int /\ (2 * (d * a)) * den \in Int
      BY <2>6
    <3> QED
      BY <2>5, <3>1
  <2>8. x * n <= 2 * (d * a)
    BY <2>6, <2>7, HopsOrder
  <2> QED
    BY <2>8 DEF x
<1> QED
  BY <1>1, <1>2, <1>3, <1>4

\* What is saved stands for the segments done and the one in progress at most.
ToldInv ==
    /\ progress \in 0..Digits
    /\ phase = "check" => progress = 0
    /\ (2 * progress - 1) * call.n <= 2 * (Digits * (pos + call.step))

\* A report that stands for no more than what lies before the end of the segment
\* in progress is saved as such, or dropped.
LEMMA SavedReport ==
    ASSUME CallOK, ToldInv, pos \in Nat, NEW num \in Nat, NEW den \in Nat, den > 0, num <= den,
           num * call.n <= (pos + call.step) * den,
           OnProgress([num |-> num, den |-> den])
    PROVE  /\ progress' \in 0..Digits
           /\ (2 * progress' - 1) * call.n <= 2 * (Digits * (pos + call.step))
<1>1. /\ Digits \in Nat /\ Digits > 0 /\ call.n \in Nat
      /\ pos + call.step \in Nat
  BY CallTypes, SizesAssumption
<1>2. CASE UNCHANGED progress
  BY <1>2 DEF ToldInv
<1>3. CASE progress' \in Nearest([num |-> num, den |-> den], Digits)
  <2> DEFINE n == call.n
             a == pos + call.step
             k == progress'
  <2>1. k \in 0..Digits /\ (2 * k - 1) * den <= 2 * (num * Digits)
    BY <1>1, <1>3, NearestBounds
  <2>2. k \in Nat /\ n \in Nat /\ a \in Nat /\ num * n <= a * den
    BY <1>1, <2>1
  <2> HIDE DEF n, a, k
  <2>3. (2 * k - 1) * n <= 2 * (Digits * a)
    BY <1>1, <2>1, <2>2, RoundedReport
  <2> QED
    BY <2>1, <2>3 DEF n, a, k
<1> QED
  BY <1>2, <1>3 DEF OnProgress

LEMMA ToldNext ==
    ASSUME IInv, BufferInv, CountInv, ToldInv, [Next]_vars
    PROVE  ToldInv'
<1>1. /\ CallOK /\ pos \in Nat /\ call.n \in Nat /\ call.step \in Nat /\ call.step > 0
      /\ Digits \in Nat /\ segIndex \in Nat /\ pos = segIndex * call.step
  BY CallTypes, SizesAssumption DEF IInv, GridInv, CountInv
<1>2. CASE Infer
  <2> DEFINE nb == NBatches(SegLen)
             num == segIndex * nb + i
             den == NSegments * nb
  <2>1. /\ segIndex < NSegments /\ NSegments \in Nat /\ nb \in Nat /\ nb > 0
        /\ i \in Nat /\ i < nb /\ call.n <= NSegments * call.step
    BY <1>1, <1>2, Where, SegmentCount DEF Infer, CountInv
  <2>2. /\ num \in Nat /\ den \in Nat /\ num < den
        /\ num * NSegments <= (segIndex + 1) * den
    BY <1>1, <2>1, BatchFraction
  <2>3. den > 0
    BY <2>2
  <2>4. Fraction(num, den) = [num |-> num, den |-> den]
    BY <2>2 DEF Fraction, Lesser
  <2>5. OnProgress([num |-> num, den |-> den])
    BY <1>2, <2>4 DEF Infer, Base
  <2> HIDE DEF num, den
  <2>6. num * call.n <= ((segIndex + 1) * call.step) * den
    BY <1>1, <2>1, <2>2, SegmentFraction
  <2>7. (segIndex + 1) * call.step = pos + call.step
    BY <1>1, HopNext
  <2>8. /\ progress' \in 0..Digits
        /\ (2 * progress' - 1) * call.n <= 2 * (Digits * (pos + call.step))
    BY <1>1, <2>2, <2>3, <2>5, <2>6, <2>7, SavedReport
  <2> QED
    BY <1>2, <2>8 DEF Infer, ToldInv
<1>3. CASE Report
  <2> DEFINE num == Lesser(pos, call.n)
  <2>1. call.n > 0
    BY <1>3 DEF CountInv, Report
  <2>2. num \in Nat /\ num <= call.n /\ num <= pos + call.step
    BY <1>1 DEF Lesser
  <2>3. OnProgress([num |-> num, den |-> call.n])
    BY <1>3 DEF Report, Fraction
  <2> HIDE DEF num
  <2>4. num * call.n <= (pos + call.step) * call.n
    <3>1. (pos + call.step - num) * call.n >= 0
      BY <1>1, <2>2
    <3> QED
      BY <1>1, <2>2, <3>1
  <2>5. /\ progress' \in 0..Digits
        /\ (2 * progress' - 1) * call.n <= 2 * (Digits * (pos + call.step))
    BY <1>1, <2>1, <2>2, <2>3, <2>4, SavedReport
  <2> QED
    BY <1>3, <2>5 DEF Report, ToldInv
<1>4. CASE Write
  <2>1. Digits * (pos + call.step) <= Digits * (pos + call.step + call.step)
    BY <1>1
  <2>2. (2 * progress - 1) * call.n \in Int /\ Digits * (pos + call.step) \in Int
        /\ Digits * (pos + call.step + call.step) \in Int
    BY <1>1 DEF ToldInv
  <2>3. (2 * progress - 1) * call.n <= 2 * (Digits * (pos + call.step + call.step))
    BY <2>1, <2>2 DEF ToldInv
  <2> QED
    BY <1>4, <2>3 DEF Write, ToldInv
<1>5. CASE UNCHANGED vars
  BY <1>5 DEF vars, ToldInv
<1> QED
  BY <1>2, <1>3, <1>4, <1>5
  DEF Next, Reject, Open, Segment, Cancel, FoldRaises, Return, ToldInv

\* What is saved with the job never stands for more than the segment in progress.
THEOREM Told == Spec => []ToldInv
<1>1. Init => ToldInv
  <2> SUFFICES ASSUME Init PROVE ToldInv
    OBVIOUS
  <2>1. CallOK /\ progress = 0 /\ pos = 0
    BY DEF Init, CallOK
  <2>2. call.n \in Nat /\ call.step \in Nat /\ Digits \in Nat /\ Digits * call.step >= 0
    BY <2>1, CallTypes, SizesAssumption
  <2> QED
    BY <2>1, <2>2 DEF ToldInv
<1> QED
  BY <1>1, ToldNext, Invariant, Buffered, Counted, PTL DEF Spec

\* The variables have their types: a position is at most a segment behind the
\* input, a report never above 100 %, and nothing is divided by zero, for every
\* configuration, accepted or not.
THEOREM TypesHold == Spec => []TypeOK
<1>1. ASSUME IInv, CountInv PROVE segIndex \in 0..NSegments
  <2>1. /\ call.step \in Nat /\ call.step > 0 /\ call.n \in Nat
        /\ NSegments \in Nat /\ call.n <= NSegments * call.step
    BY <1>1, CallTypes, SegmentCount DEF IInv
  <2>2. segIndex \in Nat /\ segIndex * call.step < call.n + call.step
    BY <1>1 DEF CountInv
  <2>3. segIndex * call.step \in Int /\ NSegments * call.step \in Int
    BY <2>1, <2>2
  <2>4. segIndex * call.step < NSegments * call.step + call.step
    BY <2>1, <2>2, <2>3
  <2>5. segIndex <= NSegments
    BY <2>1, <2>2, <2>4, HopsOrder
  <2> QED
    BY <2>1, <2>2, <2>5
<1>2. IInv /\ CountInv /\ ReportInv /\ ToldInv /\ MemInv => TypeOK
  BY <1>1 DEF IInv, CallOK, PhaseInv, Running, GridInv, CountInv, ReportInv, ToldInv, MemInv, TypeOK
<1> QED
  BY <1>2, Invariant, Counted, Reported, Told, Held, PTL

\* For every Digits and Percents: what is shown stands for no more than the segments
\* done, the one in progress, and half a unit of each of the two roundings.
THEOREM ProgressIsNotAhead == Spec => []NeverAhead
<1>1. ASSUME IInv, CountInv, ToldInv PROVE NeverAhead
  <2> SUFFICES ASSUME phase \notin {"check", "rejected"}, NEW s \in Asked
               PROVE  LET due == Len(written[s]) + call.step
                      IN  /\ (2 * progress - 1) * call.n <= 2 * Digits * due
                          /\ \A shown \in Nearest([num |-> progress, den |-> Digits], Percents) :
                                 ((2 * shown - 1) * Digits - Percents) * call.n
                                   <= 2 * Percents * Digits * due
    BY DEF NeverAhead
  <2> DEFINE due == Len(written[s]) + call.step
             p   == 2 * progress - 1
  <2>1. /\ pos \in Nat /\ call.n \in Nat /\ call.step \in Nat /\ progress \in 0..Digits
        /\ Digits \in Nat /\ Digits > 0 /\ Percents \in Nat /\ Percents > 0
    BY <1>1, CallTypes, SizesAssumption DEF IInv, GridInv, ToldInv
  <2>2. Len(written[s]) = Lesser(pos, call.n)
    <3>1. written[s] = Span(0, Lesser(pos, call.n)) /\ Lesser(pos, call.n) \in Nat
      BY <1>1, <2>1 DEF IInv, InOrder, Lesser
    <3> QED
      BY <3>1 DEF Span
  <2>3. due \in Nat /\ p \in Int
    BY <2>1, <2>2 DEF Lesser
  <2>4. p * call.n <= 2 * (Digits * due)
    <3>1. CASE pos <= call.n
      BY <1>1, <2>1, <2>2, <3>1 DEF ToldInv, Lesser
    <3>2. CASE pos > call.n
      <4>1. due = call.n + call.step
        BY <2>1, <2>2, <3>2 DEF Lesser
      <4>2. (2 * Digits - p) * call.n >= 0
        BY <2>1
      <4>3. (2 * Digits - p) * call.n = 2 * (Digits * call.n) - p * call.n
        BY <2>1
      <4>4. Digits * (call.n + call.step) = Digits * call.n + Digits * call.step
            /\ Digits * call.step >= 0
        BY <2>1
      <4>5. p * call.n \in Int /\ Digits * call.n \in Int /\ Digits * call.step \in Int
        BY <2>1
      <4> HIDE DEF due, p
      <4> QED
        BY <4>1, <4>2, <4>3, <4>4, <4>5
    <3> QED
      BY <2>1, <3>1, <3>2
  <2> HIDE DEF due, p
  <2>5. ASSUME NEW shown \in Nearest([num |-> progress, den |-> Digits], Percents)
        PROVE  ((2 * shown - 1) * Digits - Percents) * call.n <= 2 * Percents * Digits * due
    <3> DEFINE q == (2 * shown - 1) * Digits - Percents
    <3>1. shown \in 0..Percents /\ (2 * shown - 1) * Digits <= 2 * (progress * Percents)
      BY <2>1, NearestBounds
    <3>2. q \in Int /\ q <= Percents * p
      <4>1. Percents * p = 2 * (progress * Percents) - Percents
        BY <2>1 DEF p
      <4>2. (2 * shown - 1) * Digits \in Int /\ progress * Percents \in Int
        BY <2>1, <3>1
      <4> QED
        BY <2>1, <3>1, <4>1, <4>2
    <3> HIDE DEF q
    <3>3. q * call.n <= Percents * (p * call.n)
      <4>1. (Percents * p - q) * call.n >= 0
        BY <2>1, <2>3, <3>2
      <4>2. (Percents * p - q) * call.n = Percents * (p * call.n) - q * call.n
        BY <2>1, <2>3, <3>2
      <4>3. Percents * (p * call.n) \in Int /\ q * call.n \in Int
        BY <2>1, <2>3, <3>2
      <4> QED
        BY <4>1, <4>2, <4>3
    <3>4. Percents * (p * call.n) <= 2 * Percents * Digits * due
      <4>1. Percents * (2 * (Digits * due) - p * call.n) >= 0
        BY <2>1, <2>3, <2>4
      <4>2. Percents * (2 * (Digits * due) - p * call.n)
              = 2 * Percents * Digits * due - Percents * (p * call.n)
        BY <2>1, <2>3
      <4>3. 2 * Percents * Digits * due \in Int /\ Percents * (p * call.n) \in Int
        BY <2>1, <2>3
      <4> QED
        BY <4>1, <4>2, <4>3
    <3>5. q * call.n \in Int /\ Percents * (p * call.n) \in Int
          /\ 2 * Percents * Digits * due \in Int
      BY <2>1, <2>3, <3>2
    <3>6. q * call.n <= 2 * Percents * Digits * due
      BY <3>3, <3>4, <3>5
    <3> QED
      BY <3>6 DEF q
  <2>6. 2 * Digits * due = 2 * (Digits * due)
    BY <2>1, <2>3
  <2> QED
    BY <2>4, <2>5, <2>6 DEF due, p
<1> QED
  BY <1>1, Invariant, Counted, Told, PTL

\* Progress falls only where a later segment begins, and not below the segments
\* done before it.
THEOREM ProgressFallsOnlyThere == Spec => ProgressFallsOnlyBetweenSegments
<1> DEFINE Falls == reported'.num * reported.den < reported.num * reported'.den
           There == /\ phase = "infer" /\ i = 0 /\ segIndex > 0
                    /\ reported'.num * NSegments >= segIndex * reported'.den
<1>1. ASSUME IInv, BufferInv, CountInv, ReportInv, [Next]_vars
      PROVE  [Falls => There]_vars
  <2> SUFFICES ASSUME Falls PROVE There \/ UNCHANGED vars
    OBVIOUS
  <2>1. /\ reported.num \in Nat /\ reported.den \in Nat /\ reported.den > 0
        /\ reported.num <= reported.den
    BY <1>1 DEF ReportInv
  <2>2. reported' # reported
    BY <2>1
  <2>3. CASE Infer
    <3> DEFINE nb == NBatches(SegLen)
    <3>1. /\ phase = "infer" /\ segIndex \in Nat /\ NSegments \in Nat /\ segIndex < NSegments
          /\ nb \in Nat /\ nb > 0 /\ i \in Nat
      BY <1>1, <2>3, Where DEF Infer, CountInv
    <3>2. /\ reported'.num = segIndex * nb + i /\ reported'.den = NSegments * nb
          /\ reported'.num \in Nat /\ reported'.den \in Nat
      BY <1>1, <2>3, InferReports
    <3>3. CASE i > 0
      <4>1. reported.den = reported'.den /\ reported.num <= reported'.num
        BY <1>1, <3>1, <3>2, <3>3 DEF ReportInv
      <4>2. (reported'.num - reported.num) * reported.den >= 0
        BY <2>1, <3>2, <4>1
      <4> QED
        BY <2>1, <3>2, <4>1, <4>2
    <3>4. CASE i = 0 /\ segIndex = 0
      <4>1. reported.num = 0
        BY <1>1, <3>1, <3>4 DEF ReportInv
      <4> QED
        BY <2>1, <3>2, <4>1
    <3>5. CASE i = 0 /\ segIndex > 0
      <4>1. (segIndex * nb) * NSegments = segIndex * (NSegments * nb)
        BY <3>1, BatchFraction
      <4>2. reported'.num = segIndex * nb
        BY <3>1, <3>2, <3>5
      <4>3. reported'.num * NSegments = segIndex * reported'.den
        BY <3>2, <4>1, <4>2
      <4>4. reported'.num * NSegments \in Int
        BY <3>1, <3>2
      <4> QED
        BY <3>1, <3>5, <4>3, <4>4
    <3> QED
      BY <3>1, <3>3, <3>4, <3>5
  <2>4. CASE Report
    <3>1. /\ CallOK /\ pos \in Nat /\ call.n \in Nat /\ call.n > 0 /\ segIndex \in Nat
          /\ pos = segIndex * call.step /\ call.step \in Nat
          /\ reported.num * NSegments <= segIndex * reported.den
      BY <1>1, <2>4, CallTypes DEF IInv, GridInv, CountInv, ReportInv, Report
    <3>2. reported' = Fraction(pos, call.n)
      BY <2>4 DEF Report, OnProgress
    <3>3. reported'.num = Lesser(pos, call.n) /\ reported'.den = call.n
      BY <3>2 DEF Fraction
    <3>4. NSegments \in Nat /\ call.n <= NSegments * call.step
      BY <3>1, SegmentCount
    <3>5. reported.num * call.n <= pos * reported.den
      BY <2>1, <3>1, <3>4, SegmentFraction
    <3>6. CASE pos <= call.n
      <4>1. reported'.num = pos
        BY <3>3, <3>6 DEF Lesser
      <4> QED
        BY <2>1, <3>1, <3>3, <3>5, <4>1
    <3>7. CASE pos > call.n
      <4>1. reported'.num = call.n
        BY <3>1, <3>3, <3>7 DEF Lesser
      <4>2. (reported.den - reported.num) * call.n >= 0
        BY <2>1, <3>1
      <4> QED
        BY <2>1, <3>1, <3>3, <4>1, <4>2
    <3> QED
      BY <3>1, <3>6, <3>7
  <2> QED
    BY <1>1, <2>2, <2>3, <2>4
    DEF Next, Reject, Open, Segment, Cancel, FoldRaises, Write, Return, vars
<1> QED
  BY <1>1, Invariant, Buffered, Counted, Reported, PTL DEF Spec, ProgressFallsOnlyBetweenSegments
=============================================================================
