----------------------------- MODULE SampleLog ------------------------------
(***************************************************************************)
(* Stage measurement: the sample log of src/src/measure/log.rs, the choice *)
(* of compatible samples of src/src/measure/select.rs and stats.rs, and    *)
(* the ranking of src/src/graph/mod.rs.                                    *)
(*                                                                         *)
(* Engines on one rsi_root append a line per completed cycle to one file.  *)
(* An append looks for a torn tail, cuts it off and writes its line at the *)
(* end, in one write or in two; nothing locks the file, and a process may  *)
(* be killed between any two steps. The ranking of a cycle is computed     *)
(* from the file as it is read at the start of the cycle.                  *)
(*                                                                         *)
(* The file is a sequence of pieces: a whole line, or the head or the rest *)
(* of a line that was written in two. Only a whole line and a rest end     *)
(* with a newline. A gap is what set_len adds to a file that has become    *)
(* shorter than it was when it was read.                                   *)
(***************************************************************************)
EXTENDS Integers, Sequences, FiniteSets, SequencesExt

CONSTANTS
  Engines,
  Contexts,     \* workload key and execution-profile fingerprint
  Timings,      \* what a cycle's clock may hold: functions from the stages that ran
                \* to [us, failed]
  MinSamples,   \* config.measure_min_samples
  Window,       \* config.measure_window_cycles
  P95Min,       \* config.measure_p95_min_samples
  MaxCycles     \* bound: cycles that are started

VARIABLES
  file,      \* measure/stage-samples.jsonl
  eng,       \* the engines
  cycles,    \* cycle ids handed out
  written,   \* history: the records whose line was finished, in this order
  overlap    \* history: an append that cut a tail or wrote in two parts met another append

sampleVars == <<file, eng, cycles, written, overlap>>

Stages == <<"Observe", "Propose", "BuildJail", "JudgeEvaluation", "SupervisorCanary",
            "CortexCommit">>
Stage == Range(Stages)

\* duration_us is unsigned. A minimum of 0, which the configuration accepts, is left out:
\* the median of no samples is an error there, and every stage is unavailable.
ASSUME SampleAssumption ==
  /\ MinSamples \in Nat \ {0} /\ {Window, P95Min, MaxCycles} \subseteq Nat
  /\ \A t \in Timings : DOMAIN t \subseteq Stage /\ \A s \in DOMAIN t : t[s].us \in Nat

Position(s) == CHOOSE i \in DOMAIN Stages : Stages[i] = s

\* The byte order of the node ids.
ById == <<"BuildJail", "CortexCommit", "JudgeEvaluation", "Observe", "Propose",
          "SupervisorCanary">>
IdOf(s) == CHOOSE i \in DOMAIN ById : ById[i] = s

-----------------------------------------------------------------------------
(* Reading the file. *)

Piece(rec, part) == [rec |-> rec, part |-> part]
Gap == Piece(<<>>, "gap")
Ends(p) == p.part \in {"whole", "rest"}

complete_len(f) == LET ends == {i \in DOMAIN f : Ends(f[i])}
                   IN  IF ends = {} THEN 0 ELSE CHOOSE i \in ends : \A j \in ends : j <= i

Torn(f) == complete_len(f) # Len(f)

StartsLine(f, i) == i = 1 \/ Ends(f[i - 1])

\* The line that ends with piece i parses.
GoodLine(f, i) ==
  IF f[i].part = "whole" THEN StartsLine(f, i)
  ELSE i > 1 /\ f[i - 1] = Piece(f[i].rec, "head") /\ StartsLine(f, i - 1)

\* Strict: one line that does not parse and there are no records at all.
Readable(f) == \A i \in DOMAIN f : Ends(f[i]) => GoodLine(f, i)

\* The records of the lines that end among the first i pieces.
RecordsOf(f) ==
  LET recs[i \in 0..Len(f)] ==
        IF i = 0 THEN <<>>
        ELSE IF Ends(f[i]) THEN Append(recs[i - 1], f[i].rec) ELSE recs[i - 1]
  IN  recs

read_records(f) == RecordsOf(f)[Len(f)]

-----------------------------------------------------------------------------
(* Choosing the samples and ranking the stages. *)

\* filter: what is at the chosen positions, in their order.
Nth(chosen, k) == CHOOSE i \in chosen : Cardinality({j \in chosen : j <= i}) = k
Filter(seq, chosen) == [k \in 1..Cardinality(chosen) |-> seq[Nth(chosen, k)]]

\* filter(|r| seen.insert(cycle_id)): the first record of a cycle.
FirstOfCycle(recs) ==
  Filter(recs, {i \in DOMAIN recs : \A j \in 1..(i - 1) : recs[j].cycle # recs[i].cycle})

\* Fault: the oldest cycles are kept.
InWindow_Oldest(recs) == SubSeq(recs, 1, IF Len(recs) < Window THEN Len(recs) ELSE Window)

InWindow(recs) ==
  LET start == IF Len(recs) > Window THEN Len(recs) - Window ELSE 0   \* saturating_sub
  IN  SubSeq(recs, start + 1, Len(recs))

\* sort_by keeps equal values in their order: the k-th is the one with k up to it.
UpTo(values, i) ==
  {j \in DOMAIN values : values[j] < values[i] \/ (values[j] = values[i] /\ j <= i)}
Sorted(values) ==
  [k \in DOMAIN values |-> values[CHOOSE i \in DOMAIN values : Cardinality(UpTo(values, i)) = k]]

\* index = ceil(p / 100 * n) - 1, clamped to the sorted values.
percentile_nearest_rank(values, p) ==
  LET n == Len(values)
      rank == (p * n + 99) \div 100
  IN  Sorted(values)[IF rank < 1 THEN 1 ELSE IF rank > n THEN n ELSE rank]

Unavailable == [measured |-> FALSE]

Measured(samples) ==
  LET us == [i \in DOMAIN samples |-> samples[i].us]
  IN  [measured |-> TRUE, median |-> percentile_nearest_rank(us, 50),
       p95 |-> IF Len(us) < P95Min THEN <<>> ELSE <<percentile_nearest_rank(us, 95)>>,
       failed |-> Cardinality({i \in DOMAIN samples : samples[i].failed}), n |-> Len(us)]

SamplesOf(window, s) ==
  LET having == Filter(window, {i \in DOMAIN window : s \in DOMAIN window[i].timing})
  IN  [i \in DOMAIN having |-> having[i].timing[s]]

try_measure(recs, cycle, ctx) ==
  LET others == {i \in DOMAIN recs : recs[i].cycle # cycle /\ recs[i].ctx = ctx}
      window == InWindow(FirstOfCycle(Filter(recs, others)))
  IN  [s \in Stage |-> LET samples == SamplesOf(window, s)
                       IN  IF Len(samples) < MinSamples THEN Unavailable ELSE Measured(samples)]

\* An unreadable log makes every stage unavailable.
measure_stages(f, cycle, ctx) ==
  IF Readable(f) THEN try_measure(read_records(f), cycle, ctx) ELSE [s \in Stage |-> Unavailable]

\* Betweenness in the pipeline, which is a path: the pairs that a stage lies between.
\* Normalised by 20.
Centrality(s) == (Position(s) - 1) * (Len(Stages) - Position(s))

\* Fault: a stage without samples counts as measured, with zero latency and no errors.
MeasuredBasis_Zero(m) == \E s \in Stage : m[s].measured

MeasuredBasis(m) == \A s \in Stage : m[s].measured

Median(m, s) == IF m[s].measured THEN m[s].median ELSE 0
Failed(m, s) == IF m[s].measured THEN m[s].failed ELSE 0
Count(m, s) == IF m[s].measured THEN m[s].n ELSE 1

\* 0.4 * centrality + 0.4 * latency ratio (at most 10) + 0.2 * 5 * error rate, times
\* 50 * sum * n to stay in the integers; the average latency is at least 1.
MeasuredScore(m, s) ==
  LET total == FoldFunction(LAMBDA a, b : a + b, 0, [t \in Stage |-> Median(m, t)])
      sum == IF total < Len(Stages) THEN Len(Stages) ELSE total
      ratio == IF 6 * Median(m, s) > 10 * sum THEN 10 * sum ELSE 6 * Median(m, s)
  IN  Centrality(s) * sum * Count(m, s) + 20 * Count(m, s) * ratio + 50 * Failed(m, s) * sum

\* Order: score descending, then node id ascending. Scores are compared exactly; the code
\* rounds them to 1e-9 first, so that scores nearer than that count as equal there.
Above(m, a, b) ==
  LET x == IF MeasuredBasis(m) THEN MeasuredScore(m, a) * Count(m, b) ELSE Centrality(a)
      y == IF MeasuredBasis(m) THEN MeasuredScore(m, b) * Count(m, a) ELSE Centrality(b)
  IN  x > y \/ (x = y /\ IdOf(a) <= IdOf(b))

top_bottleneck(m) == CHOOSE s \in Stage : \A t \in Stage : Above(m, s, t)

-----------------------------------------------------------------------------
(* The engines. *)

NoRecord == <<>>

\* `sound` is history: no appends had overlapped when the log was read. `seen` is the
\* number of finished records then.
Idle == [pc |-> "idle", cycle |-> 0, ctx |-> NoRecord, measured |-> NoRecord, top |-> "none",
         rec |-> NoRecord, keep |-> 0, seen |-> 0, sound |-> FALSE]

SampleInit ==
  /\ file = <<>>
  /\ eng = [e \in Engines |-> Idle]
  /\ cycles = 0
  /\ written = <<>>
  /\ overlap = FALSE

At(e, place) == eng[e].pc = place

\* Between the look at the tail and the end of the write.
Appending(e) == eng[e].pc \in {"truncate", "write", "rest"}
Delicate(e) == eng[e].pc \in {"truncate", "rest"}
Others(e) == Engines \ {e}

\* A cycle starts: the log is read and the stages are ranked.
Observe(e) ==
  /\ At(e, "idle") /\ cycles < MaxCycles
  /\ cycles' = cycles + 1
  /\ \E ctx \in Contexts :
       LET m == measure_stages(file, cycles + 1, ctx)
       IN  eng' = [eng EXCEPT ![e] = [Idle EXCEPT
                     !.pc = "cycle", !.cycle = cycles + 1, !.ctx = ctx, !.measured = m,
                     !.top = top_bottleneck(m), !.seen = Len(written), !.sound = ~overlap]]
  /\ UNCHANGED <<file, written, overlap>>

\* An error makes the cycle a partial one; its samples go to the other file, which the
\* ranking never reads.
CycleErr(e) ==
  /\ At(e, "cycle")
  /\ eng' = [eng EXCEPT ![e] = Idle]
  /\ UNCHANGED <<file, cycles, written, overlap>>

\* The cycle ends without an error. What its clock holds becomes one record: each stage that
\* ran once, with its durations summed and its worst outcome, under the identity and the
\* context the cycle started with.
CycleOk(e) ==
  /\ At(e, "cycle")
  /\ \E t \in Timings :
       eng' = [eng EXCEPT ![e].pc = "open",
                 ![e].rec = [cycle |-> eng[e].cycle, ctx |-> eng[e].ctx, timing |-> t]]
  /\ UNCHANGED <<file, cycles, written, overlap>>

\* Fault: the record is written after the torn tail.
LookAtTail_KeepsTail(e) ==
  /\ At(e, "open")
  /\ eng' = [eng EXCEPT ![e].pc = "write"]
  /\ UNCHANGED <<file, cycles, written, overlap>>

\* drop_torn_tail reads the whole file.
LookAtTail(e) ==
  /\ At(e, "open")
  /\ eng' = [eng EXCEPT ![e].pc = IF Torn(file) THEN "truncate" ELSE "write",
                        ![e].keep = complete_len(file)]
  /\ overlap' = (overlap \/ \E o \in Others(e) : Delicate(o) \/ (Appending(o) /\ Torn(file)))
  /\ UNCHANGED <<file, cycles, written>>

\* set_len, to a length that was right when the file was read.
Truncate(e) ==
  /\ At(e, "truncate")
  /\ file' = IF eng[e].keep <= Len(file) THEN SubSeq(file, 1, eng[e].keep)
             ELSE file \o [i \in 1..(eng[e].keep - Len(file)) |-> Gap]
  /\ eng' = [eng EXCEPT ![e].pc = "write"]
  /\ UNCHANGED <<cycles, written, overlap>>

Finished(e) == [eng EXCEPT ![e] = Idle]

\* The line arrives at the end of the file in one write; the sync may still fail, which is
\* only a warning.
WriteLine(e) ==
  /\ At(e, "write")
  /\ file' = Append(file, Piece(eng[e].rec, "whole"))
  /\ written' = Append(written, eng[e].rec)
  /\ eng' = Finished(e)
  /\ UNCHANGED <<cycles, overlap>>

\* A short write: write_all tries again with the rest.
WriteHead(e) ==
  /\ At(e, "write")
  /\ file' = Append(file, Piece(eng[e].rec, "head"))
  /\ eng' = [eng EXCEPT ![e].pc = "rest"]
  /\ overlap' = (overlap \/ \E o \in Others(e) : Appending(o))
  /\ UNCHANGED <<cycles, written>>

WriteRest(e) ==
  /\ At(e, "rest")
  /\ file' = Append(file, Piece(eng[e].rec, "rest"))
  /\ written' = Append(written, eng[e].rec)
  /\ eng' = Finished(e)
  /\ UNCHANGED <<cycles, overlap>>

\* An error of the append is only a warning, and the process may be killed: both leave the
\* file as it is.
GiveUp(e) ==
  /\ ~At(e, "idle") /\ ~At(e, "cycle")
  /\ eng' = Finished(e)
  /\ UNCHANGED <<file, cycles, written, overlap>>

EngineStep(e) ==
  \/ Observe(e) \/ CycleErr(e) \/ CycleOk(e) \/ LookAtTail(e) \/ Truncate(e)
  \/ WriteLine(e) \/ WriteHead(e) \/ WriteRest(e) \/ GiveUp(e)

SampleNext == \E e \in Engines : EngineStep(e)

SampleSpec == SampleInit /\ [][SampleNext]_sampleVars

-----------------------------------------------------------------------------
(* Properties. *)

\* A record that was written is lost, or the log becomes unreadable, only if an append that
\* cut off a torn tail or wrote its line in two parts overlapped another append: as long
\* as that does not happen, the log reads as exactly the finished records, in order,
\* whatever processes were killed in the middle of a line.
LossNeedsOverlap ==
  ~overlap => Readable(file) /\ read_records(file) = written

\* The reference: the samples of stage s in the last Window completed cycles with the same
\* context, of the records known at the start of the cycle.
Recent(e) ==
  LET same == {i \in 1..eng[e].seen : written[i].ctx = eng[e].ctx}
  IN  {i \in same : Cardinality({j \in same : j > i}) < Window}
Having(e, s) == {i \in Recent(e) : s \in DOMAIN written[i].timing}

\* v is the nearest-rank percentile of the durations: the least value that enough reach.
IsPercentile(e, s, p, v) ==
  LET upto(x) == Cardinality({i \in Having(e, s) : written[i].timing[s].us <= x})
      n == Cardinality(Having(e, s))
  IN  /\ \E i \in Having(e, s) : written[i].timing[s].us = v
      /\ 100 * upto(v) >= p * n
      /\ \A i \in Having(e, s) : written[i].timing[s].us < v =>
           100 * upto(written[i].timing[s].us) < p * n

InCycle(e) == eng[e].pc # "idle" /\ eng[e].sound

\* What a cycle takes as measured is what the finished cycles of the same workload and
\* profile recorded, the last ones only, never its own and never a partial one's, and
\* only where there are enough of them; the median and the p95 are their percentiles.
MeasuredFromHistory ==
  \A e \in Engines : InCycle(e) => \A s \in Stage :
    LET m == eng[e].measured[s]
        n == Cardinality(Having(e, s))
    IN  IF n < MinSamples THEN ~m.measured
        ELSE /\ m.measured /\ m.n = n
             /\ IsPercentile(e, s, 50, m.median)
             /\ m.failed = Cardinality({i \in Having(e, s) : written[i].timing[s].failed})
             /\ IF n < P95Min THEN m.p95 = <<>> ELSE IsPercentile(e, s, 95, m.p95[1])

\* "Missing is never read as zero": while any stage lacks samples, no duration and no
\* failure decides which stage comes first, only the shape of the pipeline.
MissingIsNotZero ==
  \A e \in Engines :
    (InCycle(e) /\ \E s \in Stage : Cardinality(Having(e, s)) < MinSamples) =>
      eng[e].top = "BuildJail"

=============================================================================
