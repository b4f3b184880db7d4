---------------------------- MODULE Segmentation -----------------------------
(***************************************************************************)
(* One call of Separator.separate_file: the audio goes through the network *)
(* in overlapping chunks, segment by segment with discarded margins, and   *)
(* the kept interiors go to one file per stem.  Includes the vendored      *)
(* StandardTensorChunkedInferenceHandler, which pads and cuts a segment    *)
(* into chunks, sends them through the model in batches and adds them up,  *)
(* and the rounding a report goes through on its way to a client.          *)
(*                                                                         *)
(* Audio is counted in units the chunk and every hop are multiples of one  *)
(* of; a sample is its position in the input.  What the network makes of a *)
(* chunk is unknown, so it stands for its whole content, and a sample of   *)
(* the output for the set of chunks it is added up from.                   *)
(***************************************************************************)
EXTENDS Integers, Sequences, FiniteSets

CONSTANTS
    Stems,     \* Separator.stems
    Chunk,     \* chunk_size_seconds
    Hops,      \* hop_size_seconds: the values of QUALITY_PRESETS
    Steps,     \* segment_seconds
    Margins,   \* margin_seconds
    Batches,   \* inference_batch_size
    Wants,     \* the stems asked for: non-empty sequences
    Lengths,   \* n_samples
    Digits,    \* a job's progress counts units of 1 / Digits: 10000 of them
    Percents   \* bandit shows units of 1 / Percents: 100 of them

\* separate_file divides by the segment length: 0 would raise there.
ASSUME SizesAssumption ==
    /\ Chunk \in Nat /\ Hops \subseteq 1..Chunk
    /\ \A h \in Hops : Chunk % h = 0
    /\ Steps \subseteq Nat \ {0} /\ Margins \subseteq Nat
    /\ Batches \subseteq Nat \ {0} /\ Lengths \subseteq Nat
    /\ Digits \in Nat \ {0} /\ Percents \in Nat \ {0}

ASSUME WantsAssumption ==
    \A w \in Wants : w \in Seq({w[k] : k \in DOMAIN w}) /\ Len(w) > 0

VARIABLES
    call,      \* the arguments: hop, step, margin, batch, want, n
    phase,     \* what the call does next
    pos,       \* first sample of the segment
    segIndex,  \* number of the segment
    i,         \* number of the batch
    outputs,   \* outputs[s]: the chunks of stem s the model has returned
    written,   \* written[s]: the samples in the file of stem s
    audio,     \* how many decoded samples of the input are in memory
    reported,  \* the last progress report: a fraction [num, den]
    progress   \* the progress saved with the job, in units of 1 / Digits

vars == <<call, phase, pos, segIndex, i, outputs, written, audio, reported, progress>>

Silence == -1   \* a sample of constant padding

Lesser(a, b)  == IF a <= b THEN a ELSE b
Greater(a, b) == IF a >= b THEN a ELSE b

\* math.ceil(a / b)
CeilDiv(a, b) == (a + b - 1) \div b

\* The samples a, a + 1, ..., b - 1.
Span(a, b) == [k \in 1..(b - a) |-> a + k - 1]

Asked == {call.want[k] : k \in DOMAIN call.want}

-----------------------------------------------------------------------------
(* The handler. *)

Overlap == Chunk - call.hop
Front   == 2 * Overlap

\* _get_n_chunks
NChunks(m) == CeilDiv(m + 2 * Front - Chunk, call.hop) + 1

\* _get_end_pad_samples: the padding in front is not taken off, so it comes on top.
EndPad(m) == (NChunks(m) - 1) * call.hop + Chunk - m

\* _get_padded_samples
Padded(m) == m + 2 * Front + EndPad(m)

\* _pad_and_unfold: reflected samples left and right of m samples, then silence
\* up to the padded length.
Padding(m) ==
    IF Front >= m
      THEN [left |-> m - 1, right |-> m - 1, silence |-> Front - (m - 1)]
    ELSE IF Front + EndPad(m) >= m
      THEN [left |-> Front, right |-> m - 1, silence |-> 0]
      ELSE [left |-> Front, right |-> Front + EndPad(m), silence |-> 0]

\* Sample q of the segment from a to b after padding.
PaddedSample(a, b, q) ==
    LET m == b - a
        p == Padding(m)
        r == q - p.silence - p.left
    IN  IF r < - p.left \/ r >= m + p.right THEN Silence
        ELSE IF r < 0 THEN a - r
        ELSE IF r < m THEN a + r
        ELSE a + 2 * (m - 1) - r

\* _unfold
Unfolded(m) == ((Padded(m) - Chunk) \div call.hop) + 1
Content(a, b, c) == [o \in 0..(Chunk - 1) |-> PaddedSample(a, b, c * call.hop + o)]

\* _fold: sample x of the segment from a to b is added up from the chunks laid
\* over it, each at its own offset.
Folded(a, b, chunks, x) ==
    LET p == x - a + Front
    IN  {<<p - (k - 1) * call.hop, Content(a, b, chunks[k])>> :
            k \in {j \in DOMAIN chunks : /\ (j - 1) * call.hop <= p
                                         /\ p < (j - 1) * call.hop + Chunk}}

NBatches(m) == CeilDiv(Unfolded(m), call.batch)

\* unfolded_mixture[:, start:end, :]
Batch(m, b) == Span(b * call.batch, Lesser((b + 1) * call.batch, Unfolded(m)))

\* outputs[stem].append, once for every time the stem is asked for.
Appended(s, batch) ==
    LET times == Cardinality({k \in DOMAIN call.want : call.want[k] = s})
    IN  outputs[s] \o [k \in 1..(times * Len(batch)) |-> batch[((k - 1) % Len(batch)) + 1]]

-----------------------------------------------------------------------------
(* separate_file. *)

SegStart == Greater(0, pos - call.margin)

\* Mutant: every segment reaches to the end of the input.
UnboundedEnd == call.n

SegEnd == Lesser(call.n, pos + call.step + call.margin)

SegLen == SegEnd - SegStart

\* Mutant: a last segment that is not full does not count.
FullSegments == Greater(1, call.n \div call.step)

NSegments == Greater(1, CeilDiv(call.n, call.step))

\* Mutant: the interior includes the margin in front.
LeftAtZero == 0

\* The interior within the segment.
Left  == pos - SegStart
Right == Left + Lesser(call.step, call.n - pos)

\* Mutant: no min.
Unclamped(num, den) == [num |-> num, den |-> den]

\* min(1.0, x)
Fraction(num, den) == [num |-> Lesser(num, den), den |-> den]

\* round(x, digits) and ".0%": a nearest multiple of 1 / d.  Which one of two
\* equally near is a matter of floating point, so it may be either.
Nearest(x, d) ==
    LET below == (x.num * d) \div x.den
    IN  {k \in {below, below + 1} : /\ (2 * k - 1) * x.den <= 2 * x.num * d
                                    /\ 2 * x.num * d <= (2 * k + 1) * x.den}

\* on_progress: a report less than 2 s after the last one is dropped, unless it
\* is the one that says all is done.
OnProgress(x) ==
    /\ reported' = x
    /\ \/ progress' \in Nearest(x, Digits)
       \/ x.num < x.den /\ UNCHANGED progress

Init ==
    /\ call \in [hop : Hops, step : Steps, margin : Margins, batch : Batches,
                 want : Wants, n : Lengths]
    /\ phase = "check"
    /\ pos = 0 /\ segIndex = 0 /\ i = 0
    /\ outputs = <<>> /\ written = <<>> /\ audio = 0
    /\ reported = Fraction(0, 1) /\ progress = 0

\* Mutant: only the margin is checked against the grid.
MarginOnGrid == \E q \in 0..call.margin : call.margin = q * call.hop

\* segment_seconds and margin_seconds are multiples of the hop.
OnGrid == /\ \E q \in 0..call.step : call.step = q * call.hop
          /\ \E q \in 0..call.margin : call.margin = q * call.hop

\* SeparationConfig.__post_init__, and the stems.
Accepted == call.margin >= Chunk /\ OnGrid /\ Asked \subseteq Stems

Reject ==
    /\ phase = "check" /\ ~Accepted
    /\ phase' = "rejected"
    /\ UNCHANGED <<call, pos, segIndex, i, outputs, written, audio, reported, progress>>

\* The whole input is decoded into memory, where it stays until the call ends,
\* and every stem has an empty file.
Open ==
    /\ phase = "check" /\ Accepted
    /\ audio' = call.n
    /\ written' = [s \in Asked |-> <<>>]
    /\ phase' = "segment"
    /\ UNCHANGED <<call, pos, segIndex, i, outputs, reported, progress>>

\* The next segment, padded and unfolded.
Segment ==
    /\ phase = "segment" /\ pos < call.n
    /\ outputs' = [s \in Asked |-> <<>>]
    /\ i' = 0
    /\ phase' = "infer"
    /\ UNCHANGED <<call, pos, segIndex, written, audio, reported, progress>>

\* Mutant: every segment starts over.
FromZero == 0

\* base: the segments done before this one.
Base == segIndex

\* One turn of the handler's loop: on_batch, the model, the chunks it returns.
Infer ==
    /\ phase = "infer" /\ i < NBatches(SegLen)
    /\ OnProgress(Fraction(Base * NBatches(SegLen) + i, NSegments * NBatches(SegLen)))
    /\ outputs' = [s \in Asked |-> Appended(s, Batch(SegLen, i))]
    /\ i' = i + 1
    /\ UNCHANGED <<call, phase, pos, segIndex, written, audio>>

\* progress_cb raises (JobCancelled, or Redis is gone); finally closes the files,
\* and what the call held is freed.
Cancel ==
    /\ \/ phase = "infer" /\ i < NBatches(SegLen)
       \/ phase = "report"
    /\ phase' = "cancelled"
    /\ outputs' = <<>> /\ audio' = 0
    /\ UNCHANGED <<call, pos, segIndex, i, written, reported, progress>>

\* _cat_and_fold: F.fold wants exactly the chunks that were unfolded.
Foldable == \A s \in Asked : Len(outputs[s]) = Unfolded(SegLen)

FoldRaises ==
    /\ phase = "infer" /\ i = NBatches(SegLen) /\ ~Foldable
    /\ phase' = "raised"
    /\ outputs' = <<>> /\ audio' = 0
    /\ UNCHANGED <<call, pos, segIndex, i, written, reported, progress>>

\* The interior of every stem is written, what the handler made of the segment
\* is dropped, and the next segment begins behind it.  A stem asked for twice has
\* failed in _fold.
Write ==
    /\ phase = "infer" /\ i = NBatches(SegLen) /\ Foldable
    /\ written' = [s \in Asked |-> written[s] \o SubSeq(Span(SegStart, SegEnd), Left + 1, Right)]
    /\ pos' = pos + call.step
    /\ segIndex' = segIndex + 1
    /\ outputs' = [s \in Asked |-> <<>>]
    /\ phase' = "report"
    /\ UNCHANGED <<call, i, audio, reported, progress>>

Report ==
    /\ phase = "report"
    /\ OnProgress(Fraction(pos, call.n))
    /\ phase' = "segment"
    /\ UNCHANGED <<call, pos, segIndex, i, outputs, written, audio>>

Return ==
    /\ phase = "segment" /\ pos >= call.n
    /\ phase' = "returned"
    /\ outputs' = <<>> /\ audio' = 0
    /\ UNCHANGED <<call, pos, segIndex, i, written, reported, progress>>

Next == \/ Reject \/ Open \/ Segment \/ Infer \/ Cancel
        \/ FoldRaises \/ Write \/ Report \/ Return

Spec == Init /\ [][Next]_vars

-----------------------------------------------------------------------------
(* Properties. *)

Ended == {"rejected", "cancelled", "raised", "returned"}

\* Types of the variables.  After the last segment pos lies behind the input, by
\* less than one segment.
TypeOK ==
    /\ call \in [hop : Hops, step : Steps, margin : Margins, batch : Batches,
                 want : Wants, n : Lengths]
    /\ phase \in {"check", "segment", "infer", "report"} \union Ended
    /\ pos \in Nat /\ pos < call.n + call.step
    /\ segIndex \in 0..NSegments /\ i \in Nat
    /\ audio \in {0, call.n} /\ progress \in 0..Digits
    /\ reported.num \in Nat /\ reported.den \in Nat \ {0} /\ reported.num <= reported.den

\* separate_file writes every sample of the input once and in order: each file
\* always holds what lies before pos, and all of it when the call returns.
InOrder ==
    phase \notin {"check", "rejected"} =>
        \A s \in Asked :
            /\ written[s] = Span(0, Lesser(pos, call.n))
            /\ phase = "returned" => Len(written[s]) = call.n

\* Segment size must not change the output (test_segmentation_is_transparent):
\* each sample kept is added up from the chunks, each with the content, that a
\* run over the whole input at once would add it up from.
Transparent ==
    phase = "infer" /\ i = NBatches(SegLen) /\ Foldable =>
        \A s \in Asked : \A x \in (SegStart + Left)..(SegStart + Right - 1) :
            Folded(SegStart, SegEnd, outputs[s], x)
              = Folded(0, call.n, Span(0, Unfolded(call.n)), x)

\* Whatever a poll reads or bandit prints, both roundings included, is ahead of
\* what is written of any stem by the segment in progress at most, and by the
\* halves of a unit that rounding adds.  100 % may therefore show early, never a
\* segment early.
NeverAhead ==
    phase \notin {"check", "rejected"} =>
        \A s \in Asked :
            LET due == Len(written[s]) + call.step
            IN  /\ (2 * progress - 1) * call.n <= 2 * Digits * due
                /\ \A shown \in Nearest([num |-> progress, den |-> Digits], Percents) :
                       ((2 * shown - 1) * Digits - Percents) * call.n <= 2 * Percents * Digits * due

\* Each segment counts as one of NSegments until it is done, and then by the
\* samples it had: the progress reported may fall where the next segment begins,
\* nowhere else, and never below what the segments before it count for.
ProgressFallsOnlyBetweenSegments ==
    [][reported'.num * reported.den < reported.num * reported'.den =>
           /\ phase = "infer" /\ i = 0 /\ segIndex > 0
           /\ reported'.num * NSegments >= segIndex * reported'.den]_vars

\* separator.py says peak memory is constant, however long the input is.  It is
\* not: the decoded input is held whole until the call ends.  What comes on top of
\* it is capped: the chunks buffered are those of one segment with its margins.
PeakIsInputAndSegment ==
    \A s \in DOMAIN outputs :
        audio + Chunk * Len(outputs[s])
          <= call.n + Chunk * (Unfolded(call.step + 2 * call.margin)
                                 * Cardinality({k \in DOMAIN call.want : call.want[k] = s}))

\* "Separate input_path, writing one file per stem into output_dir": whatever it
\* accepts and nobody cancels.
AcceptedIsSeparated == phase # "raised"
=============================================================================
