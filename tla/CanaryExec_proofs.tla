------------------------ MODULE CanaryExec_proofs ---------------------------
(***************************************************************************)
(* Proofs about the observation log and about the canary executor on it.   *)
(*                                                                         *)
(* The first part is about the log's own specification, for any client     *)
(* that keeps to its operations, any ids, statuses, bindings and file      *)
(* length; the argument is the inductive invariant LogInv.                 *)
(*                                                                         *)
(* The second part is about the executor, for any workload length, any     *)
(* frames of the worker, any number of strangers, failed writes, kills,    *)
(* power failures and restarts. It touches the log only through the log's  *)
(* own actions, so LogInv holds here as well. ExecInv adds what the        *)
(* writer's memory says about the file and what the executor has behind it *)
(* at each of its places.                                                  *)
(***************************************************************************)
EXTENDS CanaryExec, FiniteSetTheorems, TLAPS


Lines == PlainLines \union SealLines

-----------------------------------------------------------------------------
(* Facts about lines and about appending and truncating. *)

\* The kinds of lines are distinct and an observation line determines its
\* observation: the records of log.rs are tagged by "kind".
LEMMA LineKinds ==
  /\ \A o \in Observations : ObsLine(o) # GarbledLine
  /\ \A o \in Observations : ObsLine(o) # RejectionLine
  /\ \A o \in Observations, b \in Bindings : ObsLine(o) # HeaderLine(b)
  /\ \A o \in Observations : \A ls : ObsLine(o) # SealLine(ls)
  /\ \A o, p \in Observations : ObsLine(o) = ObsLine(p) => o = p
  /\ RejectionLine # GarbledLine
  /\ \A b \in Bindings : HeaderLine(b) # GarbledLine
  /\ \A ls : SealLine(ls) # GarbledLine
  /\ \A ls : IsSeal(SealLine(ls))
  BY DEF ObsLine, GarbledLine, RejectionLine, HeaderLine, SealLine, IsSeal

\* Every line the writer hands to write_synced is a line of the file's type.
LEMMA LineTypes ==
  /\ \A b \in Bindings : HeaderLine(b) \in Lines
  /\ \A o \in Observations : ObsLine(o) \in Lines
  /\ RejectionLine \in Lines
  /\ GarbledLine \in Lines
  /\ \A ls \in Seq(PlainLines) : SealLine(ls) \in Lines
  BY DEF Lines, PlainLines, SealLines, HeaderLine, ObsLine, RejectionLine,
         GarbledLine, SealLine

\* A file without a seal consists of plain lines: what seal() digests.
LEMMA UnsealedIsPlain ==
  ASSUME NEW ls \in Seq(Lines), ~HasSeal(ls)
  PROVE  ls \in Seq(PlainLines)
  <1>1. \A i \in 1..Len(ls) : ls[i] \in PlainLines
    BY DEF HasSeal, IsSeal, Lines, SealLines
  <1> QED BY <1>1

\* Appending a line adds the observation it holds and nothing else.
LEMMA AppendObservations ==
  ASSUME NEW ls \in Seq(Lines), NEW line \in Lines
  PROVE  /\ Append(ls, line) \in Seq(Lines)
         /\ Len(Append(ls, line)) = Len(ls) + 1
         /\ \A n \in 0..Len(ls) :
              ObservationsIn(Append(ls, line), n) = ObservationsIn(ls, n)
         /\ StoredObservations(Append(ls, line))
              = StoredObservations(ls) \union {o \in Observations : line = ObsLine(o)}
         /\ \A i \in 1..Len(ls) : Append(ls, line)[i] = ls[i]
         /\ Append(ls, line)[Len(ls) + 1] = line
  <1>1. /\ Append(ls, line) \in Seq(Lines)
        /\ Len(Append(ls, line)) = Len(ls) + 1
        /\ \A i \in 1..Len(ls) : Append(ls, line)[i] = ls[i]
        /\ Append(ls, line)[Len(ls) + 1] = line
        /\ Len(ls) \in Nat
    OBVIOUS
  <1>2. \A n \in 0..Len(ls) :
          ObservationsIn(Append(ls, line), n) = ObservationsIn(ls, n)
    BY <1>1 DEF ObservationsIn
  <1>3. StoredObservations(Append(ls, line))
          = StoredObservations(ls) \union {o \in Observations : line = ObsLine(o)}
    <2>1. \A i : i \in 1..(Len(ls) + 1) <=> i \in 1..Len(ls) \/ i = Len(ls) + 1
      BY <1>1
    <2> QED BY <1>1, <2>1 DEF StoredObservations, ObservationsIn
  <1> QED BY <1>1, <1>2, <1>3

\* Truncating to k lines keeps what the first n <= k lines hold.
LEMMA PrefixObservations ==
  ASSUME NEW ls \in Seq(Lines), NEW k \in 0..Len(ls)
  PROVE  /\ SubSeq(ls, 1, k) \in Seq(Lines)
         /\ Len(SubSeq(ls, 1, k)) = k
         /\ \A i \in 1..k : SubSeq(ls, 1, k)[i] = ls[i]
         /\ \A n \in 0..k : ObservationsIn(SubSeq(ls, 1, k), n) = ObservationsIn(ls, n)
  <1>1. /\ SubSeq(ls, 1, k) \in Seq(Lines)
        /\ Len(SubSeq(ls, 1, k)) = k
        /\ \A i \in 1..k : SubSeq(ls, 1, k)[i] = ls[i]
    OBVIOUS
  <1>2. \A n \in 0..k : ObservationsIn(SubSeq(ls, 1, k), n) = ObservationsIn(ls, n)
    BY <1>1 DEF ObservationsIn
  <1> QED BY <1>1, <1>2

\* More lines hold no fewer observations.
LEMMA ObservationsGrow ==
  ASSUME NEW ls, NEW m \in Nat, NEW n \in Nat, m <= n
  PROVE  ObservationsIn(ls, m) \subseteq ObservationsIn(ls, n)
  BY DEF ObservationsIn

-----------------------------------------------------------------------------
(* What one step does to the file. *)

\* A step that keeps the durable prefix keeps every durable observation and every
\* durable corrupt line.
LEMMA DurablePrefixKept ==
  ASSUME TypeOK, lines' \in Seq(Lines), synced' \in 0..Len(lines'), synced <= synced',
         \A i \in 1..synced : lines'[i] = lines[i]
  PROVE  /\ DurableObservations \subseteq DurableObservations'
         /\ acked' = acked /\ AckedOrCorrupt => AckedOrCorrupt'
  <1>1. synced \in Nat /\ synced' \in Nat
    BY DEF TypeOK
  <1>2. DurableObservations \subseteq DurableObservations'
    BY <1>1 DEF DurableObservations, ObservationsIn
  <1>3. ASSUME acked' = acked, AckedOrCorrupt
        PROVE  AckedOrCorrupt'
    BY <1>1, <1>2, <1>3 DEF AckedOrCorrupt
  <1> QED BY <1>2, <1>3

\* write_synced, whatever its outcome: lines are only added, at most one, and it
\* is the line written unless torn bytes precede it.
LEMMA WriteEffect ==
  ASSUME TypeOK, NEW line \in Lines, WriteOk(line) \/ WriteErr(line)
  PROVE  /\ lines' \in Seq(Lines) /\ tail' \in BOOLEAN /\ synced' \in 0..Len(lines')
         /\ synced <= synced'
         /\ \A i \in 1..synced : lines'[i] = lines[i]
         /\ StoredObservations(lines) \subseteq StoredObservations(lines')
         /\ StoredObservations(lines')
              \subseteq StoredObservations(lines) \union {o \in Observations : line = ObsLine(o)}
         /\ Corrupt(lines') => Corrupt(lines) \/ tail \/ line = GarbledLine
  <1> DEFINE put == Glued(line)
  <1>1. put \in Lines /\ (put = line \/ (tail /\ put = GarbledLine))
    BY LineTypes DEF Glued
  <1>2. lines \in Seq(Lines) /\ Len(lines) \in Nat /\ synced \in 0..Len(lines)
    BY DEF TypeOK, Lines
  <1>3. {o \in Observations : put = ObsLine(o)} \subseteq {o \in Observations : line = ObsLine(o)}
    BY <1>1, LineKinds
  <1>4. CASE lines' = lines /\ synced' = synced /\ tail' \in BOOLEAN
    BY <1>2, <1>4
  <1>5. CASE lines' = Append(lines, put) /\ tail' = FALSE
             /\ (synced' = synced \/ synced' = Len(lines) + 1)
    <2>1. /\ lines' \in Seq(Lines)
          /\ Len(lines') = Len(lines) + 1
          /\ \A i \in 1..Len(lines) : lines'[i] = lines[i]
          /\ lines'[Len(lines) + 1] = put
          /\ StoredObservations(lines')
               = StoredObservations(lines) \union {o \in Observations : put = ObsLine(o)}
      BY <1>1, <1>2, <1>5, AppendObservations
    <2>2. Corrupt(lines') => Corrupt(lines) \/ put = GarbledLine
      BY <1>2, <2>1 DEF Corrupt
    <2>3. /\ synced' \in 0..Len(lines') /\ synced <= synced'
          /\ \A i \in 1..synced : lines'[i] = lines[i]
      BY <1>2, <1>5, <2>1
    <2>4. /\ StoredObservations(lines) \subseteq StoredObservations(lines')
          /\ StoredObservations(lines')
               \subseteq StoredObservations(lines) \union {o \in Observations : line = ObsLine(o)}
      BY <1>3, <2>1
    <2>5. tail' \in BOOLEAN
      BY <1>5
    <2> HIDE DEF put
    <2> QED BY <1>1, <2>1, <2>2, <2>3, <2>4, <2>5
  <1>6. \/ lines' = lines /\ synced' = synced /\ tail' \in BOOLEAN
        \/ lines' = Append(lines, put) /\ tail' = FALSE
             /\ (synced' = synced \/ synced' = Len(lines) + 1)
    BY DEF WriteOk, WriteErr, TypeOK
  <1> QED BY <1>4, <1>5, <1>6

\* A successful write makes everything in the file durable.
LEMMA WriteOkDurable ==
  ASSUME TypeOK, NEW line \in Lines, WriteOk(line)
  PROVE  /\ synced' = Len(lines')
         /\ lines'[synced'] = Glued(line)
         /\ DurableObservations' = StoredObservations(lines')
  <1>1. lines \in Seq(Lines) /\ Glued(line) \in Lines
    BY LineTypes DEF TypeOK, Lines, Glued
  <1>2. lines' = Append(lines, Glued(line)) /\ synced' = Len(lines) + 1
    BY DEF WriteOk
  <1>3. Len(lines') = Len(lines) + 1 /\ lines'[Len(lines) + 1] = Glued(line)
    BY <1>1, <1>2
  <1> QED BY <1>2, <1>3 DEF DurableObservations, StoredObservations

\* A failed write can leave torn bytes; a complete one leaves none.
LEMMA WriteTail ==
  ASSUME NEW line, WriteOk(line)
  PROVE  tail' = FALSE
  BY DEF WriteOk

-----------------------------------------------------------------------------
(* The inductive invariant. *)

\* The initial state, no file and no writer, satisfies LogInv.
LEMMA LogInvInit == Init => LogInv
  <1> SUFFICES ASSUME Init PROVE LogInv
    OBVIOUS
  <1>1. lines = <<>> /\ synced = 0 /\ ~open /\ acked = {} /\ ~result.sealed
    BY DEF Init, NoResult
  <1>2. TypeOK
    <2>1. lines \in Seq(PlainLines \union SealLines) /\ synced \in 0..Len(lines)
      BY <1>1
    <2>2. result.sealed \in BOOLEAN
      BY DEF Init, NoResult
    <2> QED BY <2>1, <2>2 DEF Init, TypeOK
  <1>3. StoredObservations(lines) = {} /\ ~Corrupt(lines)
    BY <1>1 DEF StoredObservations, ObservationsIn, Corrupt
  <1> QED
    BY <1>1, <1>2, <1>3 DEF Init, LogInv, AbsentIsEmpty, TornBehindWriter,
       CorruptionNeedsIgnoredError, AckedOrCorrupt, SeenCoversFile, OneRecordPerId,
       SealedFile, Store!OnePerId

\* Writing a line that is no observation of a conflicting id keeps the parts of
\* LogInv that speak of the file alone, for an open writer or a new file.
LEMMA WriteKeepsFile ==
  ASSUME LogInv, NEW line \in Lines, line # GarbledLine,
         WriteOk(line) \/ WriteErr(line),
         \/ open /\ exists' = exists
         \/ ~exists /\ exists' = TRUE,
         swallowed' = swallowed \/ swallowed' = TRUE
  PROVE  /\ AbsentIsEmpty'
         /\ CorruptionNeedsIgnoredError'
         /\ acked' = acked => AckedOrCorrupt'
         /\ ~result.sealed
  <1>1. TypeOK /\ AbsentIsEmpty /\ TornBehindWriter /\ CorruptionNeedsIgnoredError
        /\ AckedOrCorrupt /\ SealedFile
    BY DEF LogInv
  <1>2. /\ lines' \in Seq(Lines) /\ synced' \in 0..Len(lines')
        /\ synced <= synced' /\ \A i \in 1..synced : lines'[i] = lines[i]
        /\ Corrupt(lines') => Corrupt(lines) \/ tail \/ line = GarbledLine
    BY <1>1, WriteEffect
  <1>3. CorruptionNeedsIgnoredError'
    BY <1>1, <1>2 DEF CorruptionNeedsIgnoredError, TornBehindWriter, AbsentIsEmpty
  <1>4. acked' = acked => AckedOrCorrupt'
    BY <1>1, <1>2, DurablePrefixKept
  <1>5. ~result.sealed
    BY <1>1 DEF SealedFile
  <1>6. exists'
    BY <1>1 DEF AbsentIsEmpty
  <1> QED BY <1>3, <1>4, <1>5, <1>6 DEF AbsentIsEmpty

\* Every step keeps LogInv.
LEMMA LogInvStep == LogInv /\ [Next]_logVars => LogInv'
  <1> SUFFICES ASSUME LogInv, [Next]_logVars PROVE LogInv'
    OBVIOUS
  <1>0. /\ TypeOK /\ AbsentIsEmpty /\ TornBehindWriter /\ CorruptionNeedsIgnoredError
        /\ AckedOrCorrupt /\ SeenCoversFile /\ OneRecordPerId /\ SealedFile
    BY DEF LogInv
  <1>a. lines \in Seq(Lines) /\ Len(lines) \in Nat /\ synced \in 0..Len(lines)
    BY <1>0 DEF TypeOK, Lines
  <1>1. ASSUME NEW b \in Bindings, CreateOk(b) PROVE LogInv'
    <2>1. HeaderLine(b) \in Lines /\ HeaderLine(b) # GarbledLine
      BY LineTypes, LineKinds
    <2>2. WriteOk(HeaderLine(b)) /\ ~exists /\ ~open /\ exists' = TRUE
      BY <1>1 DEF CreateOk
    <2>3. /\ AbsentIsEmpty' /\ CorruptionNeedsIgnoredError' /\ AckedOrCorrupt'
          /\ ~result.sealed
      BY <1>1, <2>1, <2>2, WriteKeepsFile DEF CreateOk
    <2>4. /\ lines' \in Seq(Lines) /\ tail' = FALSE /\ synced' \in 0..Len(lines')
          /\ StoredObservations(lines')
               \subseteq StoredObservations(lines) \union {o \in Observations : HeaderLine(b) = ObsLine(o)}
      BY <1>0, <2>1, <2>2, WriteEffect, WriteTail
    <2>5. StoredObservations(lines') = {}
      BY <1>0, <1>1, <2>2, <2>4, LineKinds DEF AbsentIsEmpty, StoredObservations, ObservationsIn
    <2>6. TypeOK'
      BY <1>0, <1>1, <2>4 DEF TypeOK, CreateOk, Lines
    <2> QED
      BY <1>1, <2>3, <2>4, <2>5, <2>6
      DEF LogInv, CreateOk, TornBehindWriter, SeenCoversFile, OneRecordPerId, SealedFile,
          Store!OnePerId
  <1>2. ASSUME NEW b \in Bindings, CreateErr(b) PROVE LogInv'
    <2>1. HeaderLine(b) \in Lines /\ HeaderLine(b) # GarbledLine
      BY LineTypes, LineKinds
    <2>2. WriteErr(HeaderLine(b)) /\ ~exists /\ ~open /\ exists' = TRUE /\ WriterGone
      BY <1>2 DEF CreateErr
    <2>3. /\ AbsentIsEmpty' /\ CorruptionNeedsIgnoredError' /\ AckedOrCorrupt'
          /\ ~result.sealed
      BY <1>2, <2>1, <2>2, WriteKeepsFile DEF CreateErr
    <2>4. /\ lines' \in Seq(Lines) /\ tail' \in BOOLEAN /\ synced' \in 0..Len(lines')
          /\ StoredObservations(lines')
               \subseteq StoredObservations(lines) \union {o \in Observations : HeaderLine(b) = ObsLine(o)}
      BY <1>0, <2>1, <2>2, WriteEffect
    <2>5. StoredObservations(lines') = {}
      BY <1>0, <2>2, <2>4, LineKinds DEF AbsentIsEmpty, StoredObservations, ObservationsIn
    <2>6. TypeOK'
      BY <1>0, <1>2, <2>2, <2>4 DEF TypeOK, CreateErr, WriterGone, Lines
    <2> QED
      BY <1>2, <2>2, <2>3, <2>4, <2>5, <2>6
      DEF LogInv, CreateErr, WriterGone, TornBehindWriter, SeenCoversFile, OneRecordPerId,
          SealedFile, Store!OnePerId
  <1>3. ASSUME NEW b \in Bindings, Reopen(b) PROVE LogInv'
    <2>1. /\ exists' = exists /\ lines' = lines /\ acked' = acked /\ swallowed' = swallowed
          /\ result' = result /\ open' = TRUE /\ tail' = FALSE /\ header' = b
          /\ seen' = StoredObservations(lines)
          /\ synced' = (IF tail THEN Len(lines) ELSE synced)
          /\ exists /\ ~HasSeal(lines)
      BY <1>3 DEF Reopen, Reopenable
    <2>2. TypeOK'
      <3>1. StoredObservations(lines) \subseteq Observations
        BY DEF StoredObservations, ObservationsIn
      <3>2. synced' \in 0..Len(lines')
        BY <1>a, <2>1
      <3>3. lines' \in Seq(PlainLines \union SealLines) /\ header' \in Bindings
        BY <1>0, <2>1 DEF TypeOK
      <3> QED BY <1>0, <2>1, <3>1, <3>2, <3>3 DEF TypeOK
    <2>3. AckedOrCorrupt'
      BY <1>0, <1>a, <2>1, DurablePrefixKept
    <2> QED
      BY <1>0, <2>1, <2>2, <2>3
      DEF LogInv, AbsentIsEmpty, TornBehindWriter, CorruptionNeedsIgnoredError,
          SeenCoversFile, OneRecordPerId, SealedFile
  <1>4. ASSUME NEW o \in Observations, AppendOk(o) PROVE LogInv'
    <2>1. ObsLine(o) \in Lines /\ ObsLine(o) # GarbledLine
      BY LineTypes, LineKinds
    <2>2. /\ open /\ o \notin seen /\ ~Refused(o) /\ WriteOk(ObsLine(o))
          /\ exists' = exists /\ open' = open /\ header' = header
          /\ swallowed' = swallowed /\ result' = result
          /\ seen' = seen \union {o} /\ acked' = acked \union {o}
      BY <1>4 DEF AppendOk
    <2>3. AbsentIsEmpty' /\ CorruptionNeedsIgnoredError' /\ ~result.sealed
      BY <2>1, <2>2, WriteKeepsFile
    <2>4. /\ lines' \in Seq(Lines) /\ synced' \in 0..Len(lines') /\ synced <= synced'
          /\ \A i \in 1..synced : lines'[i] = lines[i]
          /\ StoredObservations(lines')
               \subseteq StoredObservations(lines) \union {p \in Observations : ObsLine(o) = ObsLine(p)}
      BY <1>0, <2>1, <2>2, WriteEffect
    <2>5. tail' = FALSE
      BY <2>2, WriteTail
    <2>6. StoredObservations(lines') \subseteq StoredObservations(lines) \union {o}
      BY <2>4, LineKinds
    <2>7. TypeOK'
      BY <1>0, <2>2, <2>4, <2>5 DEF TypeOK, Lines
    <2>8. SeenCoversFile' /\ OneRecordPerId'
      <3>1. StoredObservations(lines) \subseteq seen /\ Store!OnePerId(seen)
        BY <1>0, <2>2 DEF SeenCoversFile
      <3>2. \A p \in seen : p.id = o.id => p = o
        BY <2>2 DEF Refused
      <3>3. Store!OnePerId(seen \union {o})
        BY <3>1, <3>2 DEF Store!OnePerId
      <3> QED BY <2>2, <2>6, <3>1, <3>3 DEF SeenCoversFile, OneRecordPerId, Store!OnePerId
    <2>9. AckedOrCorrupt'
      <3>1. /\ synced' = Len(lines') /\ lines'[synced'] = Glued(ObsLine(o))
            /\ synced' \in Nat /\ synced' > 0
        BY <1>0, <1>a, <2>1, <2>2, <2>4, WriteOkDurable DEF WriteOk
      <3>2. CASE tail
        BY <3>1, <3>2 DEF Glued, AckedOrCorrupt
      <3>3. CASE ~tail
        <4>1. lines'[synced'] = ObsLine(o)
          BY <3>1, <3>3 DEF Glued
        <4>2. o \in DurableObservations'
          BY <3>1, <4>1 DEF DurableObservations, ObservationsIn
        <4>3. DurableObservations \subseteq DurableObservations'
          BY <1>0, <2>4, DurablePrefixKept
        <4>4. CASE acked \subseteq DurableObservations
          BY <2>2, <4>2, <4>3, <4>4 DEF AckedOrCorrupt
        <4>5. CASE \E i \in 1..synced : lines[i] = GarbledLine
          BY <1>a, <2>4, <4>5 DEF AckedOrCorrupt
        <4> QED BY <1>0, <4>4, <4>5 DEF AckedOrCorrupt
      <3> QED BY <3>2, <3>3
    <2> QED
      BY <2>2, <2>3, <2>5, <2>7, <2>8, <2>9 DEF LogInv, TornBehindWriter, SealedFile
  <1>5. ASSUME NEW o \in Observations, AppendErr(o) PROVE LogInv'
    <2>1. ObsLine(o) \in Lines /\ ObsLine(o) # GarbledLine
      BY LineTypes, LineKinds
    <2>2. /\ open /\ o \notin seen /\ ~Refused(o) /\ WriteErr(ObsLine(o)) /\ WriterGone
          /\ exists' = exists /\ acked' = acked /\ swallowed' = swallowed /\ result' = result
      BY <1>5 DEF AppendErr
    <2>3. AbsentIsEmpty' /\ CorruptionNeedsIgnoredError' /\ AckedOrCorrupt' /\ ~result.sealed
      BY <2>1, <2>2, WriteKeepsFile
    <2>4. /\ lines' \in Seq(Lines) /\ synced' \in 0..Len(lines') /\ tail' \in BOOLEAN
          /\ StoredObservations(lines')
               \subseteq StoredObservations(lines) \union {p \in Observations : ObsLine(o) = ObsLine(p)}
      BY <1>0, <2>1, <2>2, WriteEffect
    <2>5. StoredObservations(lines') \subseteq StoredObservations(lines) \union {o}
      BY <2>4, LineKinds
    <2>6. TypeOK'
      BY <1>0, <2>2, <2>4 DEF TypeOK, Lines, WriterGone
    <2>7. OneRecordPerId'
      <3>1. StoredObservations(lines) \subseteq seen /\ Store!OnePerId(seen)
        BY <1>0, <2>2 DEF SeenCoversFile
      <3>2. \A p \in seen : p.id = o.id => p = o
        BY <2>2 DEF Refused
      <3> QED BY <2>5, <3>1, <3>2 DEF OneRecordPerId, Store!OnePerId
    <2> QED
      BY <2>2, <2>3, <2>6, <2>7
      DEF LogInv, WriterGone, TornBehindWriter, SeenCoversFile, SealedFile
  <1>6. ASSUME RejectionOk \/ RejectionErr PROVE LogInv'
    <2>1. RejectionLine \in Lines /\ RejectionLine # GarbledLine
      BY LineTypes, LineKinds
    <2>2. /\ open /\ (WriteOk(RejectionLine) \/ WriteErr(RejectionLine))
          /\ exists' = exists /\ open' = open /\ header' = header /\ seen' = seen
          /\ acked' = acked /\ result' = result
          /\ swallowed' = swallowed \/ swallowed' = TRUE
          /\ WriteOk(RejectionLine) \/ swallowed' = TRUE
      BY <1>6 DEF RejectionOk, RejectionErr
    <2>3. AbsentIsEmpty' /\ CorruptionNeedsIgnoredError' /\ AckedOrCorrupt' /\ ~result.sealed
      BY <2>1, <2>2, WriteKeepsFile
    <2>4. /\ lines' \in Seq(Lines) /\ synced' \in 0..Len(lines') /\ tail' \in BOOLEAN
          /\ StoredObservations(lines')
               \subseteq StoredObservations(lines) \union {p \in Observations : RejectionLine = ObsLine(p)}
      BY <1>0, <2>1, <2>2, WriteEffect
    <2>5. StoredObservations(lines') \subseteq StoredObservations(lines)
      BY <2>4, LineKinds
    <2>6. TypeOK'
      BY <1>0, <2>2, <2>4 DEF TypeOK, Lines
    <2>7. TornBehindWriter'
      BY <2>2, WriteTail DEF TornBehindWriter
    <2>8. SeenCoversFile' /\ OneRecordPerId'
      BY <1>0, <2>2, <2>5 DEF SeenCoversFile, OneRecordPerId, Store!OnePerId
    <2> QED
      BY <2>2, <2>3, <2>6, <2>7, <2>8 DEF LogInv, SealedFile
  <1>7. ASSUME SealOk \/ SealErr PROVE LogInv'
    <2>1. /\ open /\ Sealable /\ WriterGone
          /\ WriteOk(SealLine(lines)) \/ WriteErr(SealLine(lines))
          /\ exists' = exists /\ acked' = acked /\ swallowed' = swallowed
      BY <1>7 DEF SealOk, SealErr
    <2>2. SealLine(lines) \in Lines /\ SealLine(lines) # GarbledLine
      BY <1>a, <2>1, UnsealedIsPlain, LineTypes, LineKinds DEF Sealable
    <2>3. AbsentIsEmpty' /\ CorruptionNeedsIgnoredError' /\ AckedOrCorrupt' /\ ~result.sealed
      BY <2>1, <2>2, WriteKeepsFile
    <2>4. /\ lines' \in Seq(Lines) /\ synced' \in 0..Len(lines') /\ tail' \in BOOLEAN
          /\ StoredObservations(lines) \subseteq StoredObservations(lines')
          /\ StoredObservations(lines')
               \subseteq StoredObservations(lines) \union {p \in Observations : SealLine(lines) = ObsLine(p)}
      BY <1>0, <2>1, <2>2, WriteEffect
    <2>5. StoredObservations(lines') = StoredObservations(lines)
      BY <2>4, LineKinds
    <2>6. OneRecordPerId'
      BY <1>0, <2>5 DEF OneRecordPerId
    <2>7. result'.sealed \in BOOLEAN /\ SealedFile'
      <3>1. CASE result' = result
        BY <1>0, <2>3, <3>1 DEF TypeOK, SealedFile
      <3>2. CASE result' = NoResult
        BY <3>2 DEF NoResult, SealedFile
      <3>3. CASE SealOk /\ result' = SealedResult(lines') /\ verify_bytes(lines', tail')
        <4>1. /\ result'.sealed = TRUE /\ result'.content = lines'
              /\ result'.observations = StoredObservations(lines')
          BY <3>3 DEF SealedResult
        <4>2. WriteOk(SealLine(lines))
          BY <3>3 DEF SealOk
        <4>3. synced' = Len(lines') /\ tail' = FALSE
          BY <1>0, <2>2, <4>2, WriteOkDurable, WriteTail
        <4>4. HasSeal(lines')
          BY <3>3 DEF verify_bytes
        <4>5. exists'
          BY <1>0, <2>1 DEF AbsentIsEmpty
        <4>6. acked \subseteq DurableObservations
          BY <1>0, <1>a, <2>1 DEF AckedOrCorrupt, Sealable, parse_log, Corrupt
        <4>7. DurableObservations \subseteq StoredObservations(lines)
          BY <1>a, ObservationsGrow DEF DurableObservations, StoredObservations
        <4> QED
          BY <2>1, <2>5, <4>1, <4>3, <4>4, <4>5, <4>6, <4>7 DEF SealedFile, WriterGone
      <3> QED BY <1>7, <3>1, <3>2, <3>3 DEF SealOk, SealErr
    <2>8. TypeOK'
      BY <1>0, <2>1, <2>4, <2>7 DEF TypeOK, Lines, WriterGone
    <2> QED
      BY <2>1, <2>3, <2>6, <2>7, <2>8 DEF LogInv, WriterGone, TornBehindWriter, SeenCoversFile
  <1>8. ASSUME WriterGone, UNCHANGED <<exists, lines, tail, synced, acked, swallowed, result>>
        PROVE  LogInv'
    <2>1. TypeOK'
      BY <1>0, <1>8 DEF TypeOK, WriterGone
    <2>2. AckedOrCorrupt'
      BY <1>0, <1>8 DEF AckedOrCorrupt, DurableObservations
    <2> QED
      BY <1>0, <1>8, <2>1, <2>2
      DEF LogInv, WriterGone, AbsentIsEmpty, TornBehindWriter, CorruptionNeedsIgnoredError,
          SeenCoversFile, OneRecordPerId, SealedFile
  <1>9. ASSUME PowerFail PROVE LogInv'
    <2>1. WriterGone /\ acked' = acked /\ swallowed' = swallowed /\ result' = result
      BY <1>9 DEF PowerFail
    <2>2. ASSUME NEW k \in synced..Len(lines),
                 lines' = SubSeq(lines, 1, k), synced' = k, exists' = exists,
                 tail' \in (IF tail \/ k < Len(lines) THEN BOOLEAN ELSE {FALSE})
          PROVE  LogInv'
      <3>1. k \in 0..Len(lines)
        BY <1>a
      <3>2. /\ lines' \in Seq(Lines) /\ Len(lines') = k /\ synced' \in 0..Len(lines')
            /\ \A i \in 1..k : lines'[i] = lines[i]
            /\ StoredObservations(lines') = ObservationsIn(lines, k)
        BY <1>a, <2>2, <3>1, PrefixObservations DEF StoredObservations
      <3>3. StoredObservations(lines') \subseteq StoredObservations(lines)
        BY <1>a, <3>1, <3>2, ObservationsGrow DEF StoredObservations
      <3>4. tail' \in BOOLEAN
        BY <2>2
      <3>5. TypeOK'
        BY <1>0, <2>1, <2>2, <3>2, <3>4 DEF TypeOK, Lines, WriterGone
      <3>6. AckedOrCorrupt'
        BY <1>0, <1>a, <2>1, <2>2, <3>2, DurablePrefixKept
      <3>7. CorruptionNeedsIgnoredError'
        BY <1>0, <1>a, <2>1, <3>1, <3>2 DEF CorruptionNeedsIgnoredError, Corrupt
      <3>8. OneRecordPerId'
        BY <1>0, <3>3 DEF OneRecordPerId, Store!OnePerId
      <3>9. AbsentIsEmpty'
        <4>1. CASE ~exists
          <5>1. lines = <<>> /\ ~tail /\ k = 0
            BY <1>0, <1>a, <3>1, <4>1 DEF AbsentIsEmpty
          <5>2. lines' = <<>> /\ ~tail'
            BY <2>2, <3>2, <5>1
          <5> QED BY <2>1, <5>2 DEF AbsentIsEmpty, WriterGone
        <4>2. CASE exists
          BY <2>2, <4>2 DEF AbsentIsEmpty
        <4> QED BY <4>1, <4>2
      <3>10. SealedFile'
        <4>1. CASE result.sealed
          <5>1. k = Len(lines) /\ ~tail
            BY <1>0, <1>a, <2>2, <4>1 DEF SealedFile
          <5>2. lines' = lines
            BY <1>a, <3>2, <5>1
          <5>3. synced' = synced
            BY <1>0, <2>2, <4>1, <5>1 DEF SealedFile
          <5>4. ~(tail \/ k < Len(lines))
            BY <1>a, <5>1
          <5>5. ~tail'
            BY <2>2, <5>4
          <5> QED BY <1>0, <2>1, <2>2, <4>1, <5>2, <5>3, <5>5 DEF SealedFile, WriterGone
        <4>2. CASE ~result.sealed
          BY <2>1, <4>2 DEF SealedFile
        <4> QED BY <4>1, <4>2
      <3> QED
        BY <2>1, <3>5, <3>6, <3>7, <3>8, <3>9, <3>10
        DEF LogInv, TornBehindWriter, SeenCoversFile, WriterGone
    <2>3. ASSUME synced = 0, exists' = FALSE, lines' = <<>>, tail' = FALSE, synced' = 0
          PROVE  LogInv'
      <3>1. ~result.sealed
        BY <1>0, <1>a, <2>3 DEF SealedFile, HasSeal
      <3>2. StoredObservations(lines') = {} /\ ~Corrupt(lines')
        BY <2>3 DEF StoredObservations, ObservationsIn, Corrupt
      <3>3. TypeOK'
        <4>1. lines' \in Seq(PlainLines \union SealLines) /\ synced' \in 0..Len(lines')
          BY <2>3
        <4> QED BY <1>0, <2>1, <2>3, <4>1 DEF TypeOK, WriterGone
      <3>4. AckedOrCorrupt'
        <4>1. acked = {}
          BY <1>0, <2>3 DEF AckedOrCorrupt, DurableObservations, ObservationsIn
        <4> QED BY <2>1, <4>1 DEF AckedOrCorrupt
      <3> QED
        BY <2>1, <2>3, <3>1, <3>2, <3>3, <3>4
        DEF LogInv, AbsentIsEmpty, TornBehindWriter, CorruptionNeedsIgnoredError,
            SeenCoversFile, OneRecordPerId, SealedFile, WriterGone, Store!OnePerId
    <2> QED BY <1>9, <2>2, <2>3 DEF PowerFail
  <1>10. ASSUME UNCHANGED logVars PROVE LogInv'
    BY <1>0, <1>10
    DEF logVars, LogInv, TypeOK, AbsentIsEmpty, TornBehindWriter, CorruptionNeedsIgnoredError,
        AckedOrCorrupt, DurableObservations, SeenCoversFile, OneRecordPerId, SealedFile
  <1> QED
    BY <1>1, <1>2, <1>3, <1>4, <1>5, <1>6, <1>7, <1>8, <1>9, <1>10
    DEF Next, AppendRefused, SealRefused, Drop

-----------------------------------------------------------------------------
(* The results. *)

\* LogInv holds in every reachable state of the log.
THEOREM LogInvariant == Spec => []LogInv
  BY LogInvInit, LogInvStep, PTL DEF Spec

\* The writer's id map covers the file after every restart and failed write, for every
\* number of ids.
THEOREM WriterKnowsTheFile == Spec => []SeenCoversFile
  <1>1. LogInv => SeenCoversFile
    BY DEF LogInv
  <1> QED BY <1>1, LogInvariant, PTL

\* append_observation's promise, for every number of ids, crashes and restarts.
THEOREM AcknowledgedIsDurable == Spec => []AckedDurable
  <1>1. LogInv => AckedDurable
    BY DEF LogInv, AckedDurable, AckedOrCorrupt, CorruptionNeedsIgnoredError, Corrupt, TypeOK
  <1> QED BY <1>1, LogInvariant, PTL

\* Only an ignored rejection error leads to a line that is no record.
THEOREM CorruptionIsIgnoredError == Spec => []CorruptionNeedsIgnoredError
  <1>1. LogInv => CorruptionNeedsIgnoredError
    BY DEF LogInv
  <1> QED BY <1>1, LogInvariant, PTL

\* The evidence seal() returns is complete.
THEOREM SealedIsComplete == Spec => []SealedHoldsAllAcked
  <1>1. LogInv => SealedHoldsAllAcked
    BY DEF LogInv, SealedHoldsAllAcked, SealedFile
  <1> QED BY <1>1, LogInvariant, PTL

\* With a sealed result the only step that touches the file is a power failure,
\* and everything is already synced.
LEMMA SealedStep ==
  ASSUME LogInv, Next, result.sealed
  PROVE  result' = result /\ lines' = lines /\ ~tail' /\ synced' = synced
  <1>1. /\ exists /\ ~open /\ ~tail /\ synced = Len(lines) /\ HasSeal(lines)
        /\ lines \in Seq(Lines)
    BY DEF LogInv, SealedFile, TypeOK, Lines
  <1>2. PowerFail
    BY <1>1 DEF Next, CreateOk, CreateErr, Reopen, Reopenable, AppendOk, AppendErr,
       AppendRefused, RejectionOk, RejectionErr, SealOk, SealErr, SealRefused, Drop
  <1>3. synced # 0
    BY <1>1 DEF HasSeal
  <1>4. PICK k \in synced..Len(lines) :
          /\ lines' = SubSeq(lines, 1, k) /\ synced' = k
          /\ tail' \in (IF tail \/ k < Len(lines) THEN BOOLEAN ELSE {FALSE})
    BY <1>2, <1>3 DEF PowerFail
  <1>5. k = Len(lines) /\ Len(lines) \in Nat
    BY <1>1
  <1>6. lines' = lines
    BY <1>1, <1>4, <1>5, PrefixObservations
  <1>7. ~(tail \/ k < Len(lines))
    BY <1>1, <1>5
  <1>8. ~tail'
    BY <1>4, <1>7
  <1> QED BY <1>1, <1>2, <1>4, <1>5, <1>6, <1>8 DEF PowerFail

\* A sealed log is final: no crash, restart or reopen changes the file.
THEOREM SealedIsFinal == Spec => SealedContentFinal
  <1>1. LogInv /\ [Next]_logVars
          => [result.sealed => /\ result' = result
                               /\ lines' = result.content
                               /\ ~tail']_logVars
    <2> SUFFICES ASSUME LogInv, Next, result.sealed
                 PROVE  result' = result /\ lines' = result.content /\ ~tail'
      OBVIOUS
    <2>1. lines = result.content
      BY DEF LogInv, SealedFile
    <2> QED BY <2>1, SealedStep
  <1> QED BY <1>1, LogInvariant, PTL DEF Spec, SealedContentFinal

\* Durable observations are never taken back.
LEMMA DurableGrows ==
  ASSUME LogInv, Next
  PROVE  DurableObservations \subseteq DurableObservations'
  <1>0. TypeOK /\ lines \in Seq(Lines) /\ synced \in 0..Len(lines) /\ Len(lines) \in Nat
    BY DEF LogInv, TypeOK, Lines
  <1>1. ASSUME NEW line \in Lines, WriteOk(line) \/ WriteErr(line)
        PROVE  DurableObservations \subseteq DurableObservations'
    BY <1>0, <1>1, WriteEffect, DurablePrefixKept
  <1>2. ASSUME UNCHANGED <<lines, synced>>
        PROVE  DurableObservations \subseteq DurableObservations'
    BY <1>2 DEF DurableObservations
  <1>3. ASSUME NEW b \in Bindings, Reopen(b)
        PROVE  DurableObservations \subseteq DurableObservations'
    BY <1>0, <1>3, DurablePrefixKept DEF Reopen
  <1>4. ASSUME PowerFail
        PROVE  DurableObservations \subseteq DurableObservations'
    <2>1. ASSUME NEW k \in synced..Len(lines), lines' = SubSeq(lines, 1, k), synced' = k
          PROVE  DurableObservations \subseteq DurableObservations'
      <3>1. k \in 0..Len(lines)
        BY <1>0
      <3>2. /\ lines' \in Seq(Lines) /\ synced' \in 0..Len(lines') /\ synced <= synced'
            /\ \A i \in 1..synced : lines'[i] = lines[i]
        BY <1>0, <2>1, <3>1, PrefixObservations
      <3> QED BY <1>0, <3>2, DurablePrefixKept
    <2>2. ASSUME synced = 0
          PROVE  DurableObservations \subseteq DurableObservations'
      BY <2>2 DEF DurableObservations, ObservationsIn
    <2> QED BY <1>4, <2>1, <2>2 DEF PowerFail
  <1>5. ASSUME SealOk \/ SealErr
        PROVE  DurableObservations \subseteq DurableObservations'
    BY <1>0, <1>1, <1>5, UnsealedIsPlain, LineTypes DEF SealOk, SealErr, Sealable
  <1> QED
    BY <1>1, <1>2, <1>3, <1>4, <1>5, LineTypes
    DEF Next, CreateOk, CreateErr, AppendOk, AppendErr, AppendRefused, RejectionOk,
        RejectionErr, SealRefused, Drop

\* The log implements EvidenceStore: every step stores, freezes or stutters.
THEOREM LogImplementsEvidenceStore == Spec => ImplementsEvidenceStore
  <1>1. Init => Store!Init
    BY DEF Init, Store!Init, NoResult, DurableObservations, ObservationsIn
  <1>2. LogInv /\ LogInv' /\ [Next]_logVars => [Store!Next]_(Store!evars)
    <2> SUFFICES ASSUME LogInv, LogInv', Next
                 PROVE  Store!Next \/ UNCHANGED Store!evars
      BY DEF logVars, Store!evars, DurableObservations
    <2>1. CASE result.sealed
      BY <2>1, SealedStep DEF Store!evars, DurableObservations
    <2>2. CASE ~result.sealed
      <3>1. DurableObservations \subseteq DurableObservations'
        BY DurableGrows
      <3>2. DurableObservations' \in SUBSET Observations
        BY DEF DurableObservations, ObservationsIn
      <3>3. Store!OnePerId(DurableObservations')
        <4>1. synced' \in Nat /\ Len(lines') \in Nat /\ synced' <= Len(lines')
          BY DEF LogInv, TypeOK
        <4>2. DurableObservations' \subseteq StoredObservations(lines)'
          BY <4>1 DEF DurableObservations, StoredObservations, ObservationsIn
        <4> QED BY <4>2 DEF LogInv, OneRecordPerId, Store!OnePerId
      <3>4. result'.sealed \in BOOLEAN /\ result.sealed \in BOOLEAN
        BY DEF LogInv, TypeOK
      <3>5. CASE result'.sealed
        BY <2>2, <3>1, <3>2, <3>3, <3>4, <3>5 DEF Store!Next, Store!Freeze
      <3>6. CASE ~result'.sealed
        BY <2>2, <3>1, <3>2, <3>3, <3>4, <3>6 DEF Store!Next, Store!Store
      <3> QED BY <3>5, <3>6
    <2> QED BY <2>1, <2>2
  <1> QED BY <1>1, <1>2, LogInvariant, PTL DEF Spec, ImplementsEvidenceStore, Store!Spec

-----------------------------------------------------------------------------
(* The executor: what its log keeps on top of LogInv.                         *)

\* A writer remembers every acknowledged observation, also of earlier runs, and exactly
\* the stored ones unless a line is garbled.
AckedSeen == open => acked \subseteq seen
SeenIsStored == open /\ ~Corrupt(lines) => seen = StoredObservations(lines)

\* The first requests of the workload, with no failure before the last.
Prefixed(obs) ==
  \E k \in 0..NumRequests :
    /\ {o.id : o \in obs} = 1..k
    /\ \A o \in obs : o.status # Success => o.id = k

Intact(n) == \A i \in 1..n : lines[i] # GarbledLine

\* Every intact beginning of the file holds such a prefix: a power failure may cut the
\* file behind any line that is not synced.
FilePrefixed == \A n \in 0..Len(lines) : Intact(n) => Prefixed(ObservationsIn(lines, n))

-----------------------------------------------------------------------------
(* The places of run(). *)

Asking == {"send", "await", "budget", "record"}
Serving == {"loop", "drain"} \union Asking
Running == {"opened", "readiness", "finish"} \union Serving
Places == {"idle", "sealed", "done"} \union Running

ExecTypes ==
  /\ pc \in Places
  /\ binding \in Bindings
  /\ inbox \in Seq(Frames)
  /\ issued \subseteq Workload
  /\ late \in BOOLEAN /\ revert \in BOOLEAN
  /\ verdict \in Statuses \union {"none"}

\* run() holds a writer from the moment the log is open until it has finished.
WriterHeld == open <=> pc \in Running

\* Nothing is left of an earlier run: no frame, no request, no revert.
CleanStart ==
  /\ pc \notin Serving => inbox = <<>>
  /\ pc \in {"idle", "opened", "readiness", "sealed", "done"} => issued = {} /\ ~revert

\* The loop goes on only while everything observed is a success.
SeenGood ==
  /\ pc \in Asking => ~revert
  /\ pc \in {"readiness"} \union Serving /\ ~revert => \A o \in seen : o.status = Success

\* Of the requests issued in this run only the open one is still to be observed.
OneOpen ==
  /\ pc \in {"loop", "drain"} /\ ~revert => issued \cap Pending = {}
  /\ pc \in Asking => Pending # {} /\ issued \cap Pending = {OpenRequest}

SeenPrefixed == open => Prefixed(seen)

\* A correct result of the open request that is still to be read was sent in time or
\* ahead, or the request has passed its deadline.
FramesInTime ==
  \A i \in DOMAIN inbox :
    IsCorrect(inbox[i]) /\ inbox[i].req \in issued \cap Pending =>
      <<binding, inbox[i].req>> \in Answered \/ late

\* A success that is about to be recorded is that of a correct result, in time or ahead.
VerdictEarned ==
  /\ pc \in {"budget", "record"} => verdict \in Statuses
  /\ pc \in {"budget", "record"} /\ verdict = Success => <<binding, OpenRequest>> \in Answered

\* The decision is taken once, on a sealed log.
DecidedOnSeal ==
  /\ pc \in {"sealed", "done"} => result.sealed
  /\ admitted = "yes" => pc = "done"

ControlInv == ExecTypes /\ WriterHeld /\ CleanStart /\ SeenGood /\ OneOpen
EvidenceInv ==
  /\ AckedSeen /\ SeenIsStored /\ SeenPrefixed /\ FilePrefixed
  /\ FramesInTime /\ VerdictEarned /\ NoFabricatedSuccess
  /\ DecidedOnSeal /\ AdmissionSound

ExecInv == LogInv /\ ControlInv /\ EvidenceInv

-----------------------------------------------------------------------------
(* The file, the writer's memory and the open request. *)

\* A write that succeeds adds one line, a write that fails at most one.
LEMMA WriteShape ==
  ASSUME TypeOK, NEW line \in Lines, WriteOk(line) \/ WriteErr(line)
  PROVE  /\ Glued(line) \in Lines
         /\ \/ lines' = lines /\ WriteErr(line)
            \/ lines' = Append(lines, Glued(line))
  BY LineTypes DEF Glued, WriteOk, WriteErr

\* What is in an intact file after a line was added to it.
LEMMA PutIntact ==
  ASSUME TypeOK, NEW line \in Lines, lines' = Append(lines, Glued(line)), ~Corrupt(lines')
  PROVE  /\ ~Corrupt(lines) /\ Glued(line) = line
         /\ StoredObservations(lines')
              = StoredObservations(lines) \union {o \in Observations : line = ObsLine(o)}
<1>1. lines \in Seq(Lines) /\ Glued(line) \in Lines
  BY LineTypes DEF TypeOK, Lines, Glued
<1>2. /\ lines' \in Seq(Lines) /\ Len(lines') = Len(lines) + 1 /\ Len(lines) \in Nat
      /\ \A j \in 1..Len(lines) : lines'[j] = lines[j]
      /\ lines'[Len(lines) + 1] = Glued(line)
      /\ StoredObservations(lines')
           = StoredObservations(lines) \union {o \in Observations : Glued(line) = ObsLine(o)}
  BY <1>1, AppendObservations
<1>3. ~Corrupt(lines)
  BY <1>1, <1>2 DEF Corrupt
<1>4. Glued(line) # GarbledLine
  BY <1>2 DEF Corrupt
<1>5. Glued(line) = line
  BY <1>4 DEF Glued
<1>6. QED
  BY <1>2, <1>3, <1>5

\* The writer's memory: it starts from the file, and grows with it.
LEMMA WriterMemory ==
  ASSUME LogInv, AckedSeen, SeenIsStored, [Next]_logVars
  PROVE  AckedSeen' /\ SeenIsStored'
<1>1. /\ TypeOK /\ AbsentIsEmpty /\ AckedOrCorrupt
      /\ lines \in Seq(Lines) /\ Len(lines) \in Nat /\ synced \in 0..Len(lines)
  BY DEF LogInv, TypeOK, Lines
<1>2. ASSUME NEW b \in Bindings, CreateOk(b) PROVE AckedSeen' /\ SeenIsStored'
  <2>1. lines = <<>> /\ seen' = {} /\ acked' = acked /\ WriteOk(HeaderLine(b))
    BY <1>1, <1>2 DEF CreateOk, AbsentIsEmpty
  <2>2. synced = 0
    BY <1>1, <2>1
  <2>3. acked = {}
    BY <1>1, <2>2 DEF AckedOrCorrupt, DurableObservations, ObservationsIn
  <2>4. HeaderLine(b) \in Lines
    BY LineTypes
  <2>5. StoredObservations(lines')
          \subseteq StoredObservations(lines) \union {o \in Observations : HeaderLine(b) = ObsLine(o)}
    BY <1>1, <2>1, <2>4, WriteEffect
  <2>6. StoredObservations(lines) = {}
    BY <2>1 DEF StoredObservations, ObservationsIn
  <2>7. StoredObservations(lines') = {}
    BY <2>5, <2>6, LineKinds
  <2>8. QED
    BY <2>1, <2>3, <2>7 DEF AckedSeen, SeenIsStored
<1>3. ASSUME NEW b \in Bindings, Reopen(b) PROVE AckedSeen' /\ SeenIsStored'
  <2>1. /\ lines' = lines /\ acked' = acked /\ seen' = StoredObservations(lines)
        /\ ~Corrupt(lines)
    BY <1>3 DEF Reopen, Reopenable, parse_log
  <2>2. acked \subseteq DurableObservations
    BY <1>1, <2>1 DEF AckedOrCorrupt, Corrupt
  <2>3. DurableObservations \subseteq StoredObservations(lines)
    BY <1>1, ObservationsGrow DEF DurableObservations, StoredObservations
  <2>4. QED
    BY <2>1, <2>2, <2>3 DEF AckedSeen, SeenIsStored
<1>4. ASSUME NEW o \in Observations, AppendOk(o) PROVE AckedSeen' /\ SeenIsStored'
  <2>1. /\ open /\ seen' = seen \union {o} /\ acked' = acked \union {o}
        /\ lines' = Append(lines, Glued(ObsLine(o)))
    BY <1>4 DEF AppendOk, WriteOk
  <2>2. ObsLine(o) \in Lines
    BY LineTypes
  <2>3. ASSUME ~Corrupt(lines')
        PROVE  seen' = StoredObservations(lines')
    <3>1. /\ ~Corrupt(lines)
          /\ StoredObservations(lines')
               = StoredObservations(lines) \union {p \in Observations : ObsLine(o) = ObsLine(p)}
      BY <1>1, <2>1, <2>2, <2>3, PutIntact
    <3>2. {p \in Observations : ObsLine(o) = ObsLine(p)} = {o}
      BY LineKinds
    <3>3. QED
      BY <2>1, <3>1, <3>2 DEF SeenIsStored
  <2>4. QED
    BY <2>1, <2>3 DEF AckedSeen, SeenIsStored
<1>5. ASSUME RejectionOk \/ RejectionErr PROVE AckedSeen' /\ SeenIsStored'
  <2>1. /\ open /\ seen' = seen /\ acked' = acked
        /\ WriteOk(RejectionLine) \/ WriteErr(RejectionLine)
    BY <1>5 DEF RejectionOk, RejectionErr
  <2>2. RejectionLine \in Lines
    BY LineTypes
  <2>3. lines' = lines \/ lines' = Append(lines, Glued(RejectionLine))
    BY <1>1, <2>1, <2>2, WriteShape
  <2>4. ASSUME ~Corrupt(lines'), lines' = Append(lines, Glued(RejectionLine))
        PROVE  ~Corrupt(lines) /\ StoredObservations(lines') = StoredObservations(lines)
    <3>1. {p \in Observations : RejectionLine = ObsLine(p)} = {}
      BY LineKinds
    <3>2. QED
      BY <1>1, <2>2, <2>4, <3>1, PutIntact
  <2>5. QED
    BY <2>1, <2>3, <2>4 DEF AckedSeen, SeenIsStored
<1>6. CASE ~open'
  BY <1>6 DEF AckedSeen, SeenIsStored
<1>7. CASE UNCHANGED logVars
  BY <1>7 DEF logVars, AckedSeen, SeenIsStored
<1>8. QED
  BY <1>2, <1>3, <1>4, <1>5, <1>6, <1>7
  DEF Next, CreateErr, AppendErr, AppendRefused, SealOk, SealErr, SealRefused, Drop, PowerFail,
      WriterGone

\* Writing a line keeps every intact beginning a prefix, if an observation extends it.
LEMMA WritePrefixed ==
  ASSUME TypeOK, FilePrefixed, NEW line \in Lines, WriteOk(line) \/ WriteErr(line),
         \A o \in Observations : line = ObsLine(o) /\ ~Corrupt(lines) =>
           Prefixed(StoredObservations(lines) \union {o})
  PROVE  FilePrefixed'
<1>1. lines \in Seq(Lines) /\ Len(lines) \in Nat
  BY DEF TypeOK, Lines
<1>2. CASE lines' = lines
  BY <1>2 DEF FilePrefixed, Intact, Prefixed
<1>3. CASE lines' = Append(lines, Glued(line))
  <2>1. Glued(line) \in Lines
    BY WriteShape
  <2>2. /\ lines' \in Seq(Lines) /\ Len(lines') = Len(lines) + 1
        /\ \A j \in 1..Len(lines) : lines'[j] = lines[j]
        /\ \A n \in 0..Len(lines) : ObservationsIn(lines', n) = ObservationsIn(lines, n)
    BY <1>1, <1>3, <2>1, AppendObservations
  <2>3. ASSUME NEW n \in 0..Len(lines), \A j \in 1..n : lines'[j] # GarbledLine
        PROVE  Prefixed(ObservationsIn(lines', n))
    <3>1. Intact(n)
      BY <1>1, <2>2, <2>3 DEF Intact
    <3>2. Prefixed(ObservationsIn(lines, n))
      BY <3>1 DEF FilePrefixed
    <3>3. QED
      BY <2>2, <3>2
  <2>4. ASSUME \A j \in 1..Len(lines') : lines'[j] # GarbledLine
        PROVE  Prefixed(StoredObservations(lines'))
    <3>1. ~Corrupt(lines')
      BY <2>2, <2>4 DEF Corrupt
    <3>2. /\ ~Corrupt(lines)
          /\ StoredObservations(lines')
               = StoredObservations(lines) \union {o \in Observations : line = ObsLine(o)}
      BY <1>3, <3>1, PutIntact
    <3>3. CASE \E o \in Observations : line = ObsLine(o)
      <4>1. PICK o \in Observations : line = ObsLine(o)
        BY <3>3
      <4>2. {p \in Observations : line = ObsLine(p)} = {o}
        BY <4>1, LineKinds
      <4>3. QED
        BY <3>2, <4>1, <4>2
    <3>4. CASE ~\E o \in Observations : line = ObsLine(o)
      <4>1. StoredObservations(lines') = ObservationsIn(lines, Len(lines))
        BY <3>2, <3>4 DEF StoredObservations
      <4>2. Intact(Len(lines)) /\ Len(lines) \in 0..Len(lines)
        BY <1>1, <3>2 DEF Intact, Corrupt
      <4>3. QED
        BY <4>1, <4>2 DEF FilePrefixed
    <3>5. QED
      BY <3>3, <3>4
  <2>5. ASSUME NEW n \in 0..Len(lines'), Intact(n)' PROVE Prefixed(ObservationsIn(lines', n))
    <3>1. CASE n \in 0..Len(lines)
      BY <2>3, <2>5, <3>1 DEF Intact
    <3>2. CASE n = Len(lines')
      BY <2>4, <2>5, <3>2 DEF Intact, StoredObservations
    <3>3. QED
      BY <1>1, <2>2, <3>1, <3>2
  <2>6. QED
    BY <2>5 DEF FilePrefixed, Prefixed
<1>4. QED
  BY <1>2, <1>3, WriteShape

\* A power failure leaves a beginning of the file.
LEMMA CutPrefixed ==
  ASSUME TypeOK, FilePrefixed, PowerFail
  PROVE  FilePrefixed' /\ StoredObservations(lines') \subseteq StoredObservations(lines)
<1>1. lines \in Seq(Lines) /\ Len(lines) \in Nat /\ synced \in 0..Len(lines)
  BY DEF TypeOK, Lines
<1>2. PICK k \in 0..Len(lines) : lines' = SubSeq(lines, 1, k)
  <2>1. CASE \E k \in synced..Len(lines) : lines' = SubSeq(lines, 1, k)
    BY <1>1, <2>1
  <2>2. CASE lines' = <<>>
    <3>1. SubSeq(lines, 1, 0) = <<>>
      BY <1>1
    <3>2. QED
      BY <1>1, <2>2, <3>1
  <2>3. QED
    BY <2>1, <2>2 DEF PowerFail
<1>3. /\ lines' \in Seq(Lines) /\ Len(lines') = k
      /\ \A j \in 1..k : lines'[j] = lines[j]
      /\ \A n \in 0..k : ObservationsIn(lines', n) = ObservationsIn(lines, n)
  BY <1>1, <1>2, PrefixObservations
<1>4. ASSUME NEW n \in 0..Len(lines'), Intact(n)' PROVE Prefixed(ObservationsIn(lines', n))
  <2>1. n \in 0..Len(lines) /\ n \in 0..k
    BY <1>1, <1>3
  <2>2. Intact(n)
    BY <1>3, <1>4, <2>1 DEF Intact
  <2>3. QED
    BY <1>3, <2>1, <2>2 DEF FilePrefixed
<1>5. FilePrefixed'
  BY <1>4 DEF FilePrefixed, Prefixed
<1>6. StoredObservations(lines') = ObservationsIn(lines, k)
  BY <1>1, <1>3 DEF StoredObservations
<1>7. QED
  BY <1>1, <1>5, <1>6, ObservationsGrow DEF StoredObservations

\* With a prefix of successes observed, the open request is the next one, and observing it
\* gives a longer prefix, whatever its status.
LEMMA NextObserved ==
  ASSUME Prefixed(seen), seen \subseteq Observations, \A o \in seen : o.status = Success,
         Pending # {}
  PROVE  /\ OpenRequest \in Pending
         /\ \A o \in Observations : o.id = OpenRequest => Prefixed(seen \union {o})
<1>1. NumRequests \in Nat
  BY ExecAssumption
<1>2. PICK k \in 0..NumRequests : {o.id : o \in seen} = 1..k
  BY DEF Prefixed
<1>3. Pending = (k + 1)..NumRequests
  BY <1>1, <1>2 DEF Pending, Workload
<1>4. k + 1 \in Pending /\ \A q \in Pending : k + 1 <= q
  BY <1>1, <1>3
<1>5. OpenRequest \in Pending /\ \A q \in Pending : OpenRequest <= q
  BY <1>4 DEF OpenRequest
<1>6. OpenRequest = k + 1
  BY <1>1, <1>3, <1>4, <1>5
<1>7. ASSUME NEW o \in Observations, o.id = OpenRequest PROVE Prefixed(seen \union {o})
  <2>1. k + 1 \in 0..NumRequests
    BY <1>1, <1>3, <1>4
  <2>2. {p.id : p \in seen \union {o}} = {p.id : p \in seen} \union {o.id}
    OBVIOUS
  <2>3. {p.id : p \in seen \union {o}} = 1..(k + 1)
    BY <1>1, <1>2, <1>6, <1>7, <2>2
  <2>4. \A p \in seen \union {o} : p.status # Success => p.id = k + 1
    BY <1>6, <1>7
  <2>5. QED
    BY <2>1, <2>3, <2>4 DEF Prefixed
<1>8. QED
  BY <1>5, <1>7

-----------------------------------------------------------------------------
(* The steps of an open run other than recording an observation. *)

\* The log as the executor sees it is as before: only rejections may have been added.
LogKept ==
  /\ UNCHANGED <<open, seen, acked, result>>
  /\ StoredObservations(lines') \subseteq StoredObservations(lines)

LEMMA QuietKeepsLog ==
  ASSUME UNCHANGED logVars, FilePrefixed
  PROVE  LogKept /\ FilePrefixed'
  BY DEF logVars, LogKept, FilePrefixed, Intact, Prefixed

LEMMA RejectionKeepsLog ==
  ASSUME TypeOK, FilePrefixed, record_rejection
  PROVE  LogKept /\ FilePrefixed'
<1>1. /\ UNCHANGED <<open, seen, acked, result>>
      /\ WriteOk(RejectionLine) \/ WriteErr(RejectionLine)
  BY DEF record_rejection, RejectionOk, RejectionErr
<1>2. RejectionLine \in Lines /\ \A o \in Observations : RejectionLine # ObsLine(o)
  BY LineTypes, LineKinds
<1>3. FilePrefixed'
  BY <1>1, <1>2, WritePrefixed
<1>4. StoredObservations(lines')
        \subseteq StoredObservations(lines) \union {o \in Observations : RejectionLine = ObsLine(o)}
  BY <1>1, <1>2, WriteEffect
<1>5. QED
  BY <1>1, <1>2, <1>3, <1>4 DEF LogKept

ReceiveStep ==
  ReceiveIgnored \/ ReceiveRejected \/ ReceiveForeign \/ ReceiveInvalid \/ ReceiveAnswer
Steady ==
  \/ Recover \/ SpawnWorker \/ Authenticated \/ HandshakeFailed \/ NotReady
  \/ TakeStrays \/ DrainStray \/ IssueRequest \/ SendRequest
  \/ ReceiveStep \/ AwaitTimeout \/ PeerClosed \/ WithinBudget \/ OverBudget
  \/ StopWorker \/ Admission
  \/ (\E f \in Frames : WorkerSends(f)) \/ WorkerFloods \/ WorkerReads \/ WorkerCloses
  \/ StrayConnects \/ DeadlinePasses
  \/ UNCHANGED vars

LEMMA SteadyLog ==
  ASSUME TypeOK, FilePrefixed, Steady
  PROVE  LogKept /\ FilePrefixed'
<1>1. UNCHANGED logVars \/ record_rejection
  BY DEF Steady, Recover, SpawnWorker, Authenticated, HandshakeFailed, NotReady, TakeStrays,
     DrainStray, IssueRequest, SendRequest, ReceiveStep, ReceiveIgnored, ReceiveRejected,
     ReceiveForeign, ReceiveInvalid, ReceiveAnswer, AwaitTimeout, PeerClosed, WithinBudget,
     OverBudget, StopWorker, Admission, WorkerSends, WorkerFloods, WorkerReads, WorkerCloses, StrayConnects,
     DeadlinePasses, vars
<1>2. QED
  BY <1>1, QuietKeepsLog, RejectionKeepsLog

\* The open request depends only on what the writer has seen.
LEMMA SameOpen ==
  ASSUME seen' = seen
  PROVE  Pending' = Pending /\ OpenRequest' = OpenRequest
  BY DEF Pending, OpenRequest

\* Reading a frame.
LEMMA FrameRead ==
  ASSUME inbox \in Seq(Frames), inbox # <<>>, inbox' = Tail(inbox)
  PROVE  /\ inbox' \in Seq(Frames) /\ Head(inbox) \in Frames
         /\ 1 \in DOMAIN inbox /\ Head(inbox) = inbox[1]
         /\ \A j \in DOMAIN inbox' : \E h \in DOMAIN inbox : inbox'[j] = inbox[h]
<1>1. /\ Tail(inbox) \in Seq(Frames) /\ Head(inbox) \in Frames /\ Head(inbox) = inbox[1]
      /\ Len(inbox) \in Nat /\ Len(inbox) > 0 /\ DOMAIN inbox = 1..Len(inbox)
      /\ Len(Tail(inbox)) = Len(inbox) - 1
  OBVIOUS
<1>2. \A j \in 1..Len(Tail(inbox)) : j + 1 \in DOMAIN inbox /\ Tail(inbox)[j] = inbox[j + 1]
  BY <1>1
<1>3. QED
  BY <1>1, <1>2

LEMMA SteadyControl ==
  ASSUME ControlInv, SeenPrefixed, seen \subseteq Observations, LogKept, Steady
  PROVE  ControlInv'
<1>1. /\ ExecTypes /\ WriterHeld /\ CleanStart /\ SeenGood /\ OneOpen
      /\ seen' = seen /\ open' = open /\ Pending' = Pending /\ OpenRequest' = OpenRequest
  BY SameOpen DEF ControlInv, LogKept
<1> USE DEF Places, Running, Serving, Asking
<1>2. CASE Recover \/ SpawnWorker \/ Authenticated \/ HandshakeFailed \/ NotReady
  <2>1. CASE Recover
    BY <1>1, <2>1 DEF Recover, runVars,
       ControlInv, ExecTypes, WriterHeld, CleanStart, SeenGood, OneOpen
  <2>2. CASE SpawnWorker
    BY <1>1, <2>2 DEF SpawnWorker, runVars,
       ControlInv, ExecTypes, WriterHeld, CleanStart, SeenGood, OneOpen
  <2>3. CASE Authenticated
    BY <1>1, <2>3 DEF Authenticated, runVars,
       ControlInv, ExecTypes, WriterHeld, CleanStart, SeenGood, OneOpen
  <2>4. CASE HandshakeFailed
    BY <1>1, <2>4 DEF HandshakeFailed, runVars,
       ControlInv, ExecTypes, WriterHeld, CleanStart, SeenGood, OneOpen
  <2>5. CASE NotReady
    BY <1>1, <2>5 DEF NotReady, runVars,
       ControlInv, ExecTypes, WriterHeld, CleanStart, SeenGood, OneOpen
  <2>6. QED
    BY <1>2, <2>1, <2>2, <2>3, <2>4, <2>5
<1>3. CASE TakeStrays \/ DrainStray \/ SendRequest
  <2>1. "connection_closed" \in Statuses
    BY ExecAssumption
  <2>2. QED
    BY <1>1, <1>3, <2>1 DEF TakeStrays, DrainStray, SendRequest,
       ControlInv, ExecTypes, WriterHeld, CleanStart, SeenGood, OneOpen
<1>4. CASE IssueRequest
  <2>1. OpenRequest \in Pending
    BY <1>1, <1>4, NextObserved DEF IssueRequest, SeenPrefixed, WriterHeld, SeenGood
  <2>2. OpenRequest \in Workload
    BY <2>1 DEF Pending
  <2>3. QED
    BY <1>1, <1>4, <2>1, <2>2 DEF IssueRequest,
       ControlInv, ExecTypes, WriterHeld, CleanStart, SeenGood, OneOpen
<1>5. CASE ReceiveStep
  <2>1. /\ pc = "await" /\ inbox # <<>> /\ inbox' = Tail(inbox)
        /\ UNCHANGED <<binding, late, revert, issued>>
        /\ pc' \in {"await", "record", "budget"}
    BY <1>5 DEF ReceiveStep, ReceiveIgnored, ReceiveRejected, ReceiveForeign, ReceiveInvalid,
       ReceiveAnswer
  <2>2. inbox' \in Seq(Frames)
    BY <1>1, <2>1, FrameRead DEF ExecTypes
  <2>3. verdict' \in Statuses \union {"none"}
    BY <1>1, <1>5, ExecAssumption DEF ReceiveStep, ReceiveIgnored, ReceiveRejected,
       ReceiveForeign, ReceiveInvalid, ReceiveAnswer, AnswerStatus, ExecTypes
  <2>4. QED
    BY <1>1, <2>1, <2>2, <2>3 DEF
       ControlInv, ExecTypes, WriterHeld, CleanStart, SeenGood, OneOpen
<1>6. CASE AwaitTimeout \/ PeerClosed \/ WithinBudget \/ OverBudget
  <2>1. "connection_closed" \in Statuses /\ "timeout" \in Statuses
    BY ExecAssumption
  <2>2. CASE AwaitTimeout
    BY <1>1, <2>2, <2>1 DEF AwaitTimeout, runVars,
       ControlInv, ExecTypes, WriterHeld, CleanStart, SeenGood, OneOpen
  <2>3. CASE PeerClosed
    BY <1>1, <2>3, <2>1 DEF PeerClosed, runVars,
       ControlInv, ExecTypes, WriterHeld, CleanStart, SeenGood, OneOpen
  <2>4. CASE WithinBudget
    BY <1>1, <2>4, <2>1 DEF WithinBudget, runVars,
       ControlInv, ExecTypes, WriterHeld, CleanStart, SeenGood, OneOpen
  <2>5. CASE OverBudget
    BY <1>1, <2>5, <2>1 DEF OverBudget, runVars,
       ControlInv, ExecTypes, WriterHeld, CleanStart, SeenGood, OneOpen
  <2>6. QED
    BY <1>6, <2>2, <2>3, <2>4, <2>5
<1>7. CASE StopWorker \/ Admission
  <2>1. <<>> \in Seq(Frames)
    OBVIOUS
  <2>2. CASE StopWorker
    BY <1>1, <2>2, <2>1 DEF StopWorker, runVars,
       ControlInv, ExecTypes, WriterHeld, CleanStart, SeenGood, OneOpen
  <2>3. CASE Admission
    BY <1>1, <2>3, <2>1 DEF Admission, runVars,
       ControlInv, ExecTypes, WriterHeld, CleanStart, SeenGood, OneOpen
  <2>4. QED
    BY <1>7, <2>2, <2>3
<1>8. ASSUME NEW f \in Frames, WorkerSends(f) PROVE ControlInv'
  <2>1. inbox' \in Seq(Frames)
    BY <1>1, <1>8 DEF WorkerSends, ExecTypes
  <2>2. QED
    BY <1>1, <1>8, <2>1 DEF WorkerSends, Connected,
       ControlInv, ExecTypes, WriterHeld, CleanStart, SeenGood, OneOpen
<1>9. CASE WorkerFloods
  <2>1. inbox' = <<[type |-> "diagnostic", from |-> "own"]>> /\ inbox' \in Seq(Frames)
    BY <1>9 DEF WorkerFloods, Frames, ReportFrames
  <2>2. QED
    BY <1>1, <1>9, <2>1 DEF WorkerFloods, Connected,
       ControlInv, ExecTypes, WriterHeld, CleanStart, SeenGood, OneOpen
<1>10. CASE WorkerReads \/ WorkerCloses \/ StrayConnects \/ DeadlinePasses
  <2>1. CASE WorkerReads
    BY <1>1, <2>1 DEF WorkerReads, Connected,
       ControlInv, ExecTypes, WriterHeld, CleanStart, SeenGood, OneOpen
  <2>2. CASE WorkerCloses
    BY <1>1, <2>2 DEF WorkerCloses, Connected,
       ControlInv, ExecTypes, WriterHeld, CleanStart, SeenGood, OneOpen
  <2>3. CASE StrayConnects
    BY <1>1, <2>3 DEF StrayConnects, Connected,
       ControlInv, ExecTypes, WriterHeld, CleanStart, SeenGood, OneOpen
  <2>4. CASE DeadlinePasses
    BY <1>1, <2>4 DEF DeadlinePasses, Connected,
       ControlInv, ExecTypes, WriterHeld, CleanStart, SeenGood, OneOpen
  <2>5. QED
    BY <1>10, <2>1, <2>2, <2>3, <2>4
<1>11. CASE UNCHANGED vars
  BY <1>1, <1>11 DEF vars, execVars, runVars,
     ControlInv, ExecTypes, WriterHeld, CleanStart, SeenGood, OneOpen
<1>12. QED
  BY <1>2, <1>3, <1>4, <1>5, <1>6, <1>7, <1>8, <1>9, <1>10, <1>11 DEF Steady

\* Frames that stay in the socket's buffer keep their excuse, as long as no request is
\* issued anew and no deadline is taken back.
LEMMA FramesKept ==
  ASSUME FramesInTime, \A j \in DOMAIN inbox' : \E h \in DOMAIN inbox : inbox'[j] = inbox[h],
         binding' = binding, Answered \subseteq Answered', issued' \subseteq issued,
         Pending' \subseteq Pending,
         \A r \in issued \cap Pending' : late => late'
  PROVE  FramesInTime'
  BY DEF FramesInTime

\* A frame the worker sends: correct and in time, late, or for no issued request.
LEMMA FrameSent ==
  ASSUME ExecTypes, FramesInTime, LogKept, NEW f \in Frames, WorkerSends(f)
  PROVE  FramesInTime' /\ Answered \subseteq Answered'
<1>1. /\ binding' = binding /\ issued' = issued /\ late' = late /\ ahead' = ahead
      /\ inbox' = Append(inbox, f)
      /\ good' = IF IsGood(f) THEN good \union {<<binding, f.req>>} ELSE good
      /\ Pending' = Pending
  BY SameOpen DEF WorkerSends, LogKept
<1>2. inbox \in Seq(Frames) /\ DOMAIN inbox = 1..Len(inbox) /\ Len(inbox) \in Nat
  BY DEF ExecTypes
<1>3. /\ DOMAIN inbox' = 1..(Len(inbox) + 1)
      /\ \A j \in DOMAIN inbox : inbox'[j] = inbox[j]
      /\ inbox'[Len(inbox) + 1] = f
  BY <1>1, <1>2
<1>4. ASSUME IsCorrect(f), f.req \in issued
      PROVE  <<binding, f.req>> \in Answered' \/ late
  BY <1>1, <1>4 DEF IsGood, Answered
<1>5. Answered \subseteq Answered'
  BY <1>1 DEF Answered
<1>6. \A j \in DOMAIN inbox' : j \in DOMAIN inbox \/ inbox'[j] = f
  BY <1>2, <1>3
<1>7. QED
  BY <1>1, <1>3, <1>4, <1>5, <1>6 DEF FramesInTime, IsCorrect

\* A request is issued: a correct result that waits for it already is history from now on.
LEMMA FramesAhead ==
  ASSUME ControlInv, FramesInTime, LogKept, IssueRequest
  PROVE  FramesInTime' /\ Answered \subseteq Answered' /\ binding' = binding
<1>1. /\ inbox' = inbox /\ binding' = binding /\ good' = good
      /\ issued' = issued \union {OpenRequest} /\ issued \cap Pending = {}
      /\ Pending' = Pending
  BY SameOpen DEF IssueRequest, ControlInv, OneOpen, LogKept
<1>2. Answered \subseteq Answered'
  BY <1>1 DEF IssueRequest, Answered
<1>3. ASSUME NEW i \in DOMAIN inbox, IsCorrect(inbox[i]), inbox[i].req = OpenRequest
      PROVE  <<binding, OpenRequest>> \in Answered'
  BY <1>3 DEF IssueRequest, Answered
<1>4. ASSUME NEW i \in DOMAIN inbox', IsCorrect(inbox'[i]), inbox'[i].req \in issued' \cap Pending'
      PROVE  <<binding', inbox'[i].req>> \in Answered'
  <2>1. i \in DOMAIN inbox /\ IsCorrect(inbox[i]) /\ inbox[i].req = OpenRequest
    BY <1>1, <1>4 DEF IsCorrect
  <2>2. QED
    BY <1>1, <1>3, <2>1
<1>5. FramesInTime'
  BY <1>4 DEF FramesInTime, IsCorrect
<1>6. QED
  BY <1>1, <1>2, <1>5

LEMMA SteadyFrames ==
  ASSUME ControlInv, FramesInTime, LogKept, Steady
  PROVE  FramesInTime' /\ Answered \subseteq Answered' /\ binding' = binding
<1>1. /\ inbox \in Seq(Frames) /\ ExecTypes
      /\ Pending' = Pending
  BY SameOpen DEF ControlInv, ExecTypes, LogKept
<1>2. ASSUME NEW f \in Frames, WorkerSends(f)
      PROVE  FramesInTime' /\ Answered \subseteq Answered' /\ binding' = binding
  BY <1>1, <1>2, FrameSent DEF WorkerSends
<1>3. CASE ReceiveStep
  <2>1. /\ inbox # <<>> /\ inbox' = Tail(inbox)
        /\ UNCHANGED <<binding, late, issued, good, ahead>>
    BY <1>3 DEF ReceiveStep, ReceiveIgnored, ReceiveRejected, ReceiveForeign, ReceiveInvalid,
       ReceiveAnswer
  <2>2. \A j \in DOMAIN inbox' : \E h \in DOMAIN inbox : inbox'[j] = inbox[h]
    BY <1>1, <2>1, FrameRead
  <2>3. Answered' = Answered
    BY <2>1 DEF Answered
  <2>4. QED
    BY <1>1, <2>1, <2>2, <2>3, FramesKept
<1>4. CASE IssueRequest
  BY <1>4, FramesAhead
<1>5. CASE DeadlinePasses
  <2>1. inbox' = inbox /\ UNCHANGED <<binding, issued, good, ahead>> /\ late' = TRUE
    BY <1>5 DEF DeadlinePasses
  <2>2. Answered' = Answered
    BY <2>1 DEF Answered
  <2>3. QED
    BY <1>1, <2>1, <2>2, FramesKept
<1>6. CASE StopWorker
  <2>1. inbox' = <<>> /\ UNCHANGED <<binding, good, ahead>>
    BY <1>6 DEF StopWorker
  <2>2. QED
    BY <2>1 DEF FramesInTime, Answered
<1>7. CASE WorkerFloods
  <2>1. /\ inbox' = <<[type |-> "diagnostic", from |-> "own"]>>
        /\ UNCHANGED <<binding, good, ahead>>
    BY <1>7 DEF WorkerFloods
  <2>2. DOMAIN inbox' = {1} /\ inbox'[1].type = "diagnostic"
    BY <2>1
  <2>3. QED
    BY <2>1, <2>2 DEF FramesInTime, Answered, IsCorrect
<1>8. CASE UNCHANGED <<inbox, binding, late, issued, good, ahead>>
  <2>1. Answered' = Answered
    BY <1>8 DEF Answered
  <2>2. QED
    BY <1>1, <1>8, <2>1, FramesKept
<1>9. QED
  BY <1>2, <1>3, <1>4, <1>5, <1>6, <1>7, <1>8
  DEF Steady, Recover, SpawnWorker, Authenticated, HandshakeFailed, NotReady, TakeStrays,
      DrainStray, SendRequest, AwaitTimeout, PeerClosed, WithinBudget, OverBudget, Admission,
      WorkerReads, WorkerCloses, StrayConnects, runVars, vars, execVars

\* An answer counts as a success only if the frame names the open request, is the
\* candidate's own, correct, and its deadline has not passed.
LEMMA AnswerEarned ==
  ASSUME ControlInv, FramesInTime, ReceiveAnswer, AnswerStatus(Head(inbox)) = Success
  PROVE  <<binding, OpenRequest>> \in Answered
<1> DEFINE f == Head(inbox)
<1>1. inbox \in Seq(Frames) /\ inbox # <<>> /\ inbox' = Tail(inbox) /\ pc = "await"
  BY DEF ControlInv, ExecTypes, ReceiveAnswer
<1>2. f \in Frames /\ 1 \in DOMAIN inbox /\ f = inbox[1]
  BY <1>1, FrameRead
<1>3. Classify(f, OpenRequest) = "answer"
  BY DEF ReceiveAnswer
<1>4. f.type \in {"undecodable", "other", "diagnostic", "result"}
  BY <1>2 DEF Frames, AnswerFrames, MislabelledFrames, ReportFrames, PlainFrames
<1>5. f.type = "result" /\ f.req = OpenRequest /\ f.from = "own"
  BY <1>3, <1>4 DEF Classify
<1>6. ~late /\ f.output = "good"
  BY ExecAssumption DEF AnswerStatus
<1>7. OpenRequest \in issued \cap Pending
  BY <1>1 DEF ControlInv, OneOpen, Asking
<1> HIDE DEF f
<1>8. QED
  BY <1>2, <1>5, <1>6, <1>7 DEF FramesInTime, IsCorrect

LEMMA SteadyVerdict ==
  ASSUME ControlInv, FramesInTime, VerdictEarned, LogKept, Steady,
         Answered \subseteq Answered', binding' = binding
  PROVE  VerdictEarned'
<1>1. OpenRequest' = OpenRequest
  BY SameOpen DEF LogKept
<1>2. /\ {"connection_closed", "timeout", "invalid_response", "wrong_result", "success"}
           \subseteq Statuses
      /\ Success = "success"
  BY ExecAssumption
<1>3. CASE ReceiveAnswer
  <2>1. /\ verdict' = AnswerStatus(Head(inbox))
        /\ verdict' = Success => <<binding, OpenRequest>> \in Answered
    BY <1>3, AnswerEarned DEF ReceiveAnswer
  <2>2. verdict' \in Statuses
    BY <1>2, <2>1 DEF AnswerStatus
  <2>3. QED
    BY <1>1, <2>1, <2>2 DEF VerdictEarned
<1>4. CASE SendRequest \/ ReceiveForeign \/ ReceiveInvalid \/ AwaitTimeout \/ PeerClosed
  <2>1. pc' = "await" \/ verdict' \in {"connection_closed", "timeout", "invalid_response"}
    BY <1>4 DEF SendRequest, ReceiveForeign, ReceiveInvalid, AwaitTimeout, PeerClosed
  <2>2. QED
    BY <1>2, <2>1 DEF VerdictEarned
<1>5. CASE WithinBudget
  <2>1. pc = "budget" /\ verdict' = verdict
    BY <1>5 DEF WithinBudget, runVars
  <2>2. pc = "budget" => verdict \in Statuses
    BY DEF VerdictEarned
  <2>3. QED
    BY <1>1, <2>1, <2>2 DEF VerdictEarned
<1>6. CASE pc' = pc /\ verdict' = verdict
  BY <1>1, <1>6 DEF VerdictEarned
<1>7. CASE pc' \notin {"budget", "record"}
  BY <1>7 DEF VerdictEarned
<1>8. QED
  BY <1>3, <1>4, <1>5, <1>6, <1>7
  DEF Steady, Recover, SpawnWorker, Authenticated, HandshakeFailed, NotReady, TakeStrays,
      DrainStray, IssueRequest, ReceiveStep, ReceiveIgnored, ReceiveRejected, OverBudget,
      StopWorker, Admission, WorkerSends, WorkerFloods, WorkerReads, WorkerCloses, StrayConnects,
      DeadlinePasses, runVars, vars, execVars

\* Evidence that is only kept.
LEMMA StoredStayGood ==
  ASSUME NoFabricatedSuccess, StoredObservations(lines') \subseteq StoredObservations(lines),
         Answered \subseteq Answered'
  PROVE  NoFabricatedSuccess'
  BY DEF NoFabricatedSuccess

\* A decision stands: the answers it rests on are history, and nothing is acknowledged
\* after it.
LEMMA GoodAnswersFinite ==
  LET answered == {r \in Workload : <<binding, r>> \in Answered}
  IN  IsFiniteSet(answered) /\ Cardinality(answered) \in Nat
<1> DEFINE answered == {r \in Workload : <<binding, r>> \in Answered}
<1>1. IsFiniteSet(Workload)
  BY ExecAssumption, FS_Interval DEF Workload
<1>2. answered \in SUBSET Workload
  OBVIOUS
<1>3. IsFiniteSet(answered)
  BY <1>1, <1>2, FS_Subset
<1>4. QED
  BY <1>3, FS_CardinalityType

LEMMA DecisionStands ==
  ASSUME AdmissionSound, binding' = binding, acked' = acked, admitted' = admitted,
         Answered \subseteq Answered'
  PROVE  AdmissionSound'
<1> DEFINE answered == {r \in Workload : <<binding, r>> \in Answered}
<1>1. CASE admitted = "yes"
  <2>1. Cardinality(answered) >= Target /\ \A o \in acked : o.status = Success
    BY <1>1 DEF AdmissionSound
  <2>2. answered \subseteq answered'
    OBVIOUS
  <2>3. IsFiniteSet(answered') /\ Cardinality(answered') \in Nat /\ Cardinality(answered) \in Nat
    <3>1. IsFiniteSet(Workload)
      BY ExecAssumption, FS_Interval DEF Workload
    <3>2. answered' \in SUBSET Workload /\ answered \in SUBSET Workload
      BY DEF Workload
    <3>3. IsFiniteSet(answered') /\ IsFiniteSet(answered)
      BY <3>1, <3>2, FS_Subset
    <3>4. QED
      BY <3>3, FS_CardinalityType
  <2> HIDE DEF answered
  <2>4. Cardinality(answered) <= Cardinality(answered')
    BY <2>2, <2>3, FS_Subset
  <2>5. Cardinality(answered') >= Target
    BY <2>1, <2>3, <2>4, ExecAssumption
  <2>6. QED
    BY <2>1, <2>5 DEF AdmissionSound, answered, Workload
<1>2. CASE admitted # "yes"
  BY <1>2 DEF AdmissionSound
<1>3. QED
  BY <1>1, <1>2

\* The decision: a sealed log is complete, has one observation per request, and every
\* success in it was earned.
LEMMA AdmissionStep ==
  ASSUME LogInv, NoFabricatedSuccess, DecidedOnSeal, Admission
  PROVE  AdmissionSound' /\ DecidedOnSeal'
<1>1. /\ pc = "sealed" /\ pc' = "done" /\ UNCHANGED <<binding, acked, result>>
      /\ Answered' = Answered
      /\ admitted' = IF admit_sealed_quota(result.observations) THEN "yes" ELSE "no"
  BY DEF Admission, logVars, Answered
<1>2. result.sealed
  BY <1>1 DEF DecidedOnSeal
<1> DEFINE obs == result.observations
           answered == {r \in Workload : <<binding, r>> \in Answered}
<1>3. /\ obs = StoredObservations(lines) /\ acked \subseteq obs
      /\ \A o, p \in obs : o.id = p.id => o = p
  BY <1>2 DEF LogInv, SealedFile, OneRecordPerId, Store!OnePerId
<1>4. ASSUME admit_sealed_quota(obs)
      PROVE  Cardinality(answered) >= Target /\ \A o \in acked : o.status = Success
  <2>1. /\ \A o \in obs : o.binding = binding /\ o.status = Success /\ o.id \in Workload
        /\ Cardinality(obs) >= Target
    BY <1>4 DEF admit_sealed_quota
  <2>2. \A o \in obs : o.id \in answered
    BY <1>3, <2>1 DEF NoFabricatedSuccess
  <2>3. [o \in obs |-> o.id] \in Injection(obs, answered)
    BY <1>3, <2>2 DEF Injection, IsInjective
  <2>4. IsFiniteSet(answered) /\ Cardinality(answered) \in Nat
    BY GoodAnswersFinite
  <2>5. IsFiniteSet(obs) /\ Cardinality(obs) <= Cardinality(answered)
    BY <2>3, <2>4, FS_Injection
  <2>6. Cardinality(obs) \in Nat
    BY <2>5, FS_CardinalityType
  <2>7. Cardinality(answered) >= Target
    BY <2>1, <2>4, <2>5, <2>6, ExecAssumption
  <2>8. QED
    BY <1>3, <2>1, <2>7
<1>5. AdmissionSound'
  BY <1>1, <1>4 DEF AdmissionSound, Workload
<1>6. QED
  BY <1>1, <1>2, <1>5 DEF DecidedOnSeal

LEMMA SteadyStep ==
  ASSUME ExecInv, Steady
  PROVE  ControlInv' /\ SeenPrefixed' /\ FilePrefixed' /\ FramesInTime' /\ VerdictEarned'
         /\ NoFabricatedSuccess' /\ DecidedOnSeal' /\ AdmissionSound'
<1>1. /\ TypeOK /\ ControlInv /\ SeenPrefixed /\ FilePrefixed /\ FramesInTime /\ VerdictEarned
      /\ NoFabricatedSuccess /\ DecidedOnSeal /\ AdmissionSound /\ seen \subseteq Observations
  BY DEF ExecInv, EvidenceInv, LogInv, TypeOK
<1>2. LogKept /\ FilePrefixed'
  BY <1>1, SteadyLog
<1>3. ControlInv'
  BY <1>1, <1>2, SteadyControl
<1>4. FramesInTime' /\ Answered \subseteq Answered' /\ binding' = binding
  BY <1>1, <1>2, SteadyFrames
<1>5. VerdictEarned'
  BY <1>1, <1>2, <1>4, SteadyVerdict
<1>6. SeenPrefixed'
  BY <1>1, <1>2 DEF LogKept, SeenPrefixed, Prefixed
<1>7. NoFabricatedSuccess'
  BY <1>1, <1>2, <1>4, StoredStayGood DEF LogKept
<1>8. DecidedOnSeal' /\ AdmissionSound'
  <2>1. CASE Admission
    BY <1>1, <2>1, AdmissionStep DEF ExecInv
  <2>2. CASE admitted' = admitted /\ (pc' \in {"sealed", "done"} \/ pc = "done" => pc' = pc)
    <3>1. AdmissionSound'
      BY <1>1, <1>2, <1>4, <2>2, DecisionStands DEF LogKept
    <3>2. DecidedOnSeal'
      BY <1>1, <1>2, <2>2 DEF DecidedOnSeal, LogKept
    <3>3. QED
      BY <3>1, <3>2
  <2>3. QED
    BY <2>1, <2>2
    DEF Steady, Recover, SpawnWorker, Authenticated, HandshakeFailed, NotReady, TakeStrays,
        DrainStray, IssueRequest, SendRequest, ReceiveStep, ReceiveIgnored, ReceiveRejected,
        ReceiveForeign, ReceiveInvalid, ReceiveAnswer, AwaitTimeout, PeerClosed, WithinBudget,
        OverBudget, StopWorker, WorkerSends, Connected, WorkerFloods, WorkerReads, WorkerCloses,
        StrayConnects, DeadlinePasses, vars, execVars
<1>9. QED
  BY <1>2, <1>3, <1>4, <1>5, <1>6, <1>7, <1>8

-----------------------------------------------------------------------------
(* The end of a run, by any path. *)

\* run() has returned or is killed, or did not get to open the log.
Ended ==
  /\ pc' \in {"idle", "sealed", "done"} /\ ~open'
  /\ inbox' = <<>> /\ issued' = {} /\ revert' = FALSE
  /\ late' \in BOOLEAN /\ verdict' \in Statuses \union {"none"}
  /\ binding' \in Bindings

LEMMA EndedControl ==
  ASSUME Ended
  PROVE  ControlInv' /\ FramesInTime' /\ VerdictEarned' /\ SeenPrefixed'
<1>1. <<>> \in Seq(Frames)
  OBVIOUS
<1>2. ControlInv'
  BY <1>1 DEF Ended, ControlInv, ExecTypes, WriterHeld, CleanStart, SeenGood, OneOpen,
     Places, Running, Serving, Asking
<1>3. QED
  BY <1>2 DEF Ended, FramesInTime, VerdictEarned, SeenPrefixed

\* The calls of the log that end a run and write no observation.
LEMMA EndLog ==
  ASSUME LogInv, FilePrefixed,
         \/ Drop \/ PowerFail \/ SealOk \/ SealErr \/ SealRefused
         \/ \E b \in Bindings : CreateErr(b)
  PROVE  /\ FilePrefixed' /\ StoredObservations(lines') \subseteq StoredObservations(lines)
         /\ ~open' /\ acked' = acked
<1>1. TypeOK /\ lines \in Seq(Lines)
  BY DEF LogInv, TypeOK, Lines
<1>2. ~open' /\ acked' = acked
  BY DEF Drop, PowerFail, SealOk, SealErr, SealRefused, CreateErr, WriterGone
<1>3. ASSUME NEW line \in Lines, WriteOk(line) \/ WriteErr(line),
             \A o \in Observations : line # ObsLine(o)
      PROVE  FilePrefixed' /\ StoredObservations(lines') \subseteq StoredObservations(lines)
  <2>1. StoredObservations(lines')
          \subseteq StoredObservations(lines) \union {o \in Observations : line = ObsLine(o)}
    BY <1>1, <1>3, WriteEffect
  <2>2. FilePrefixed'
    BY <1>1, <1>3, WritePrefixed
  <2>3. QED
    BY <1>3, <2>1, <2>2
<1>4. CASE PowerFail
  BY <1>1, <1>2, <1>4, CutPrefixed
<1>5. CASE SealOk \/ SealErr
  <2>1. Sealable /\ (WriteOk(SealLine(lines)) \/ WriteErr(SealLine(lines)))
    BY <1>5 DEF SealOk, SealErr
  <2>2. SealLine(lines) \in Lines /\ \A o \in Observations : SealLine(lines) # ObsLine(o)
    BY <1>1, <2>1, UnsealedIsPlain, LineTypes, LineKinds DEF Sealable
  <2>3. QED
    BY <1>2, <1>3, <2>1, <2>2
<1>6. ASSUME NEW b \in Bindings, CreateErr(b)
      PROVE  FilePrefixed' /\ StoredObservations(lines') \subseteq StoredObservations(lines)
  <2>1. WriteErr(HeaderLine(b))
    BY <1>6 DEF CreateErr
  <2>2. HeaderLine(b) \in Lines /\ \A o \in Observations : HeaderLine(b) # ObsLine(o)
    BY LineTypes, LineKinds
  <2>3. QED
    BY <1>3, <2>1, <2>2
<1>7. CASE Drop \/ SealRefused
  <2>1. lines' = lines
    BY <1>7 DEF Drop, SealRefused
  <2>2. QED
    BY <1>2, <2>1 DEF FilePrefixed, Intact, Prefixed
<1>8. QED
  BY <1>2, <1>4, <1>5, <1>6, <1>7

\* The actions that end a run without an observation, and what follows for the rest.
Ending ==
  \/ SpawnFailed \/ Halt \/ Finish \/ Crash \/ PowerFailIdle
  \/ \E b \in Bindings : StartRun(b) /\ (CreateErr(b) \/ UNCHANGED <<logVars, pc>>)

LEMMA EndingStep ==
  ASSUME ExecInv, Ending
  PROVE  ControlInv' /\ SeenPrefixed' /\ FilePrefixed' /\ FramesInTime' /\ VerdictEarned'
         /\ NoFabricatedSuccess' /\ DecidedOnSeal' /\ AdmissionSound'
<1>1. /\ LogInv /\ ExecTypes /\ WriterHeld /\ CleanStart /\ FilePrefixed /\ NoFabricatedSuccess
      /\ DecidedOnSeal /\ AdmissionSound
  BY DEF ExecInv, ControlInv, EvidenceInv
<1>2. /\ FilePrefixed' /\ StoredObservations(lines') \subseteq StoredObservations(lines)
      /\ acked' = acked /\ ~open'
  <2>1. CASE UNCHANGED <<logVars, pc>> /\ pc = "idle"
    <3>1. ~open
      BY <1>1, <2>1 DEF WriterHeld, Running, Serving, Asking
    <3>2. QED
      BY <1>1, <2>1, <3>1 DEF logVars, FilePrefixed, Intact, Prefixed
  <2>2. QED
    BY <1>1, <2>1, EndLog
    DEF Ending, SpawnFailed, Halt, Finish, Crash, PowerFailIdle, StartRun
<1>3. Answered' = Answered /\ admitted' = admitted
  BY DEF Answered, Ending, SpawnFailed, Halt, Finish, Crash, PowerFailIdle, StartRun
<1>4. Ended
  <2>1. CASE SpawnFailed
    BY <1>1, <1>2, <2>1 DEF SpawnFailed, Ended, ExecTypes, CleanStart, runVars, Serving, Asking
  <2>2. CASE Halt \/ Crash
    BY <1>1, <1>2, <2>2 DEF Halt, Crash, RunGone, Ended, ExecTypes
  <2>3. CASE Finish
    BY <1>1, <1>2, <2>3 DEF Finish, RunGone, Ended, ExecTypes
  <2>4. CASE PowerFailIdle
    BY <1>1, <1>2, <2>4 DEF PowerFailIdle, Ended, ExecTypes, CleanStart, runVars, Serving, Asking
  <2>5. ASSUME NEW b \in Bindings, StartRun(b), CreateErr(b) \/ UNCHANGED <<logVars, pc>>
        PROVE  Ended
    <3>1. pc = "idle" /\ binding' = b /\ UNCHANGED runVars
      BY <2>5 DEF StartRun
    <3>2. pc' = "idle"
      <4>1. CASE CreateErr(b)
        BY <1>2, <3>1, <4>1, <2>5 DEF StartRun, CreateOk, Reopen
      <4>2. CASE UNCHANGED <<logVars, pc>>
        BY <3>1, <4>2
      <4>3. QED
        BY <2>5, <4>1, <4>2
    <3>3. QED
      BY <1>1, <1>2, <3>1, <3>2 DEF Ended, ExecTypes, CleanStart, runVars, Serving, Asking
  <2>6. QED
    BY <2>1, <2>2, <2>3, <2>4, <2>5 DEF Ending
<1>5. ControlInv' /\ FramesInTime' /\ VerdictEarned' /\ SeenPrefixed'
  BY <1>4, EndedControl
<1>6. NoFabricatedSuccess'
  BY <1>1, <1>2, <1>3, StoredStayGood
<1>7. AdmissionSound' /\ DecidedOnSeal'
  <2>1. CASE PowerFailIdle
    <3>1. /\ binding' = binding /\ pc' = pc /\ result' = result
      BY <2>1 DEF PowerFailIdle, PowerFail
    <3>2. QED
      BY <1>1, <1>2, <1>3, <3>1, DecisionStands DEF DecidedOnSeal
  <2>2. CASE pc # "done" /\ pc' # "done" /\ (pc' = "sealed" => result'.sealed)
    BY <1>1, <1>3, <2>2 DEF AdmissionSound, DecidedOnSeal
  <2>3. SpawnFailed \/ Halt \/ Crash => pc # "done" /\ pc' = "idle"
    BY DEF SpawnFailed, Halt, Crash
  <2>4. Finish => pc # "done" /\ pc' # "done" /\ (pc' = "sealed" => result'.sealed)
    BY DEF Finish
  <2>5. ASSUME NEW b \in Bindings, StartRun(b)
        PROVE  pc # "done" /\ pc' \in {"idle", "opened"}
    BY <2>5 DEF StartRun
  <2>6. QED
    BY <2>1, <2>2, <2>3, <2>4, <2>5 DEF Ending
<1>8. QED
  BY <1>2, <1>5, <1>6, <1>7

-----------------------------------------------------------------------------
(* Opening the log, and recording an observation. *)

\* No decision has been taken yet, so none can be wrong.
LEMMA Undecided ==
  ASSUME DecidedOnSeal, pc \notin {"sealed", "done"}, pc' \notin {"sealed", "done"},
         admitted' = admitted
  PROVE  DecidedOnSeal' /\ AdmissionSound'
  BY DEF DecidedOnSeal, AdmissionSound

LEMMA OpenedStep ==
  ASSUME ExecInv, NEW b \in Bindings, StartRun(b), CreateOk(b) \/ Reopen(b)
  PROVE  ControlInv' /\ SeenPrefixed' /\ FilePrefixed' /\ FramesInTime' /\ VerdictEarned'
         /\ NoFabricatedSuccess' /\ DecidedOnSeal' /\ AdmissionSound'
<1>1. /\ LogInv /\ TypeOK /\ lines \in Seq(Lines) /\ Len(lines) \in Nat
      /\ ExecTypes /\ CleanStart /\ FilePrefixed /\ NoFabricatedSuccess /\ DecidedOnSeal
  BY DEF ExecInv, ControlInv, EvidenceInv, LogInv, TypeOK, Lines
<1>2. open'
  BY DEF CreateOk, Reopen
<1>3. /\ pc = "idle" /\ pc' = "opened" /\ binding' = b
      /\ UNCHANGED <<runVars, admitted>> /\ Answered' = Answered
  <2>1. ~CreateErr(b) /\ ~UNCHANGED open
    BY <1>2 DEF CreateErr, WriterGone, CreateOk, Reopen
  <2>2. QED
    BY <2>1 DEF StartRun, logVars, Answered
<1>4. /\ SeenPrefixed' /\ FilePrefixed'
      /\ StoredObservations(lines') \subseteq StoredObservations(lines)
  <2>1. CASE CreateOk(b)
    <3>1. WriteOk(HeaderLine(b)) /\ seen' = {}
      BY <2>1 DEF CreateOk
    <3>2. HeaderLine(b) \in Lines /\ \A o \in Observations : HeaderLine(b) # ObsLine(o)
      BY LineTypes, LineKinds
    <3>3. FilePrefixed'
      BY <1>1, <3>1, <3>2, WritePrefixed
    <3>4. StoredObservations(lines')
            \subseteq StoredObservations(lines) \union {o \in Observations : HeaderLine(b) = ObsLine(o)}
      BY <1>1, <3>1, <3>2, WriteEffect
    <3>5. Prefixed(seen')
      <4>1. 0 \in 0..NumRequests /\ {o.id : o \in {}} = 1..0
        BY ExecAssumption
      <4>2. QED
        BY <3>1, <4>1 DEF Prefixed
    <3>6. QED
      BY <3>2, <3>3, <3>4, <3>5 DEF SeenPrefixed, Prefixed
  <2>2. CASE Reopen(b)
    <3>1. lines' = lines /\ seen' = StoredObservations(lines) /\ ~Corrupt(lines)
      BY <2>2 DEF Reopen, Reopenable, parse_log
    <3>2. Intact(Len(lines)) /\ Len(lines) \in 0..Len(lines)
      BY <1>1, <3>1 DEF Intact, Corrupt
    <3>3. Prefixed(StoredObservations(lines))
      BY <1>1, <3>2 DEF FilePrefixed, StoredObservations
    <3>4. QED
      BY <1>1, <3>1, <3>3 DEF SeenPrefixed, Prefixed, FilePrefixed, Intact
  <2>3. QED
    BY <2>1, <2>2
<1>5. ControlInv'
  BY <1>1, <1>2, <1>3 DEF ControlInv, ExecTypes, WriterHeld, CleanStart, SeenGood, OneOpen,
     runVars, Places, Running, Serving, Asking
<1>6. FramesInTime' /\ VerdictEarned'
  BY <1>1, <1>3 DEF FramesInTime, VerdictEarned, CleanStart, runVars, Serving, Asking
<1>7. NoFabricatedSuccess'
  BY <1>1, <1>3, <1>4, StoredStayGood
<1>8. DecidedOnSeal' /\ AdmissionSound'
  BY <1>1, <1>3, Undecided
<1>9. QED
  BY <1>4, <1>5, <1>6, <1>7, <1>8

\* The write of an observation, whether or not it succeeds: the file's beginnings stay
\* prefixes of the workload, and a success in it is backed by its answer.
LEMMA ObservationWritten ==
  ASSUME ExecInv, pc = "record", Answered' = Answered,
         LET o == Observation(OpenRequest, verdict)
         IN  WriteOk(ObsLine(o)) \/ WriteErr(ObsLine(o))
  PROVE  /\ Observation(OpenRequest, verdict) \in Observations
         /\ OpenRequest \in Pending
         /\ Prefixed(seen \union {Observation(OpenRequest, verdict)})
         /\ FilePrefixed' /\ NoFabricatedSuccess'
<1>1. /\ TypeOK /\ open /\ ExecTypes /\ FilePrefixed /\ NoFabricatedSuccess /\ VerdictEarned
      /\ SeenIsStored /\ seen \subseteq Observations
      /\ Prefixed(seen) /\ Pending # {} /\ \A o \in seen : o.status = Success
  BY DEF ExecInv, ControlInv, EvidenceInv, LogInv, TypeOK, WriterHeld, SeenPrefixed, OneOpen,
     SeenGood, Running, Serving, Asking
<1> DEFINE o == Observation(OpenRequest, verdict)
<1>2. OpenRequest \in Pending
  BY <1>1, NextObserved
<1>3. OpenRequest \in Ids /\ verdict \in Statuses /\ binding \in Bindings
  BY <1>1, <1>2, ExecAssumption DEF Pending, VerdictEarned, ExecTypes
<1>4. /\ o \in Observations /\ o.id = OpenRequest /\ o.status = verdict /\ o.binding = binding
  BY <1>3 DEF Observation, Observations
<1>5. WriteOk(ObsLine(o)) \/ WriteErr(ObsLine(o))
  OBVIOUS
<1> HIDE DEF o
<1>6. Prefixed(seen \union {o})
  BY <1>1, <1>4, NextObserved
<1>7. ObsLine(o) \in Lines /\ \A p \in Observations : ObsLine(o) = ObsLine(p) => p = o
  BY <1>4, LineTypes, LineKinds
<1>8. FilePrefixed'
  <2>1. ASSUME NEW p \in Observations, ObsLine(o) = ObsLine(p), ~Corrupt(lines)
        PROVE  Prefixed(StoredObservations(lines) \union {p})
    <3>1. p = o /\ seen = StoredObservations(lines)
      BY <1>1, <1>7, <2>1 DEF SeenIsStored
    <3>2. QED
      BY <1>6, <3>1
  <2>2. QED
    BY <1>1, <1>5, <1>7, <2>1, WritePrefixed
<1>9. NoFabricatedSuccess'
  <2>1. StoredObservations(lines')
          \subseteq StoredObservations(lines) \union {p \in Observations : ObsLine(o) = ObsLine(p)}
    BY <1>1, <1>5, <1>7, WriteEffect
  <2>2. o.status = Success => <<o.binding, o.id>> \in Answered
    BY <1>1, <1>4 DEF VerdictEarned
  <2>3. \A p \in StoredObservations(lines') : p \in StoredObservations(lines) \/ p = o
    BY <1>7, <2>1
  <2>4. QED
    BY <1>1, <2>2, <2>3 DEF NoFabricatedSuccess
<1>10. QED
  BY <1>2, <1>4, <1>6, <1>8, <1>9 DEF o

LEMMA RecordStep ==
  ASSUME ExecInv, RecordObservation
  PROVE  ControlInv' /\ SeenPrefixed' /\ FilePrefixed' /\ FramesInTime' /\ VerdictEarned'
         /\ NoFabricatedSuccess' /\ DecidedOnSeal' /\ AdmissionSound'
<1> DEFINE o == Observation(OpenRequest, verdict)
<1>1. /\ ControlInv /\ FramesInTime /\ DecidedOnSeal /\ pc = "record" /\ ExecTypes
      /\ ~revert /\ \A p \in seen : p.status = Success
      /\ issued \cap Pending = {OpenRequest} /\ open
  BY DEF ExecInv, ControlInv, EvidenceInv, RecordObservation, SeenGood, OneOpen, Asking, Serving,
     WriterHeld, Running
<1>2. UNCHANGED <<binding, admitted, msgs, runs>> /\ Answered' = Answered
  BY DEF RecordObservation, Answered
<1>3. WriteOk(ObsLine(o)) \/ WriteErr(ObsLine(o))
  BY DEF RecordObservation, AppendOk, AppendErr
<1>4. /\ o \in Observations /\ OpenRequest \in Pending /\ Prefixed(seen \union {o})
      /\ FilePrefixed' /\ NoFabricatedSuccess'
  BY <1>1, <1>2, <1>3, ObservationWritten
<1>5. o.id = OpenRequest /\ o.status = verdict
  BY DEF Observation
<1>6. CASE AppendOk(o) /\ pc' = "loop"
  <2>1. /\ open' = open /\ seen' = seen \union {o}
        /\ revert' = (verdict # Success) /\ verdict' = "none" /\ UNCHANGED <<inbox, late, issued>>
    BY <1>6 DEF RecordObservation, AppendOk
  <2> HIDE DEF o
  <2>2. Pending' = Pending \ {OpenRequest}
    BY <1>5, <2>1 DEF Pending, Workload
  <2>3. SeenPrefixed'
    BY <1>4, <2>1 DEF SeenPrefixed, Prefixed
  <2>4. ExecTypes' /\ WriterHeld' /\ CleanStart'
    BY <1>1, <1>2, <1>6, <2>1 DEF ExecTypes, WriterHeld, CleanStart, Places, Running, Serving,
       Asking, Workload
  <2>5. SeenGood' /\ OneOpen'
    BY <1>1, <1>5, <1>6, <2>1, <2>2 DEF SeenGood, OneOpen, Serving, Asking
  <2>6. \A j \in DOMAIN inbox' : \E h \in DOMAIN inbox : inbox'[j] = inbox[h]
    BY <2>1
  <2>7. FramesInTime'
    BY <1>1, <1>2, <2>1, <2>2, <2>6, FramesKept
  <2>8. VerdictEarned'
    BY <1>6 DEF VerdictEarned
  <2>9. DecidedOnSeal' /\ AdmissionSound'
    BY <1>1, <1>2, <1>6, Undecided
  <2>10. QED
    BY <1>4, <2>3, <2>4, <2>5, <2>7, <2>8, <2>9 DEF ControlInv
<1>7. CASE AppendErr(o) /\ pc' = "idle" /\ RunGone
  <2>1. ~open'
    BY <1>7 DEF AppendErr, WriterGone
  <2>2. Ended
    BY <1>1, <1>2, <1>7, <2>1 DEF Ended, RunGone, ExecTypes
  <2>3. DecidedOnSeal' /\ AdmissionSound'
    BY <1>1, <1>2, <1>7, Undecided
  <2>4. QED
    BY <1>4, <2>2, <2>3, EndedControl
<1>8. QED
  BY <1>6, <1>7 DEF RecordObservation

-----------------------------------------------------------------------------
(* The inductive invariant. *)

LEMMA ExecInvInit == ExecInit => ExecInv
<1> SUFFICES ASSUME ExecInit PROVE ExecInv
  OBVIOUS
<1>1. LogInv
  BY LogInvInit DEF ExecInit
<1>2. /\ pc = "idle" /\ binding \in Bindings /\ inbox = <<>> /\ issued = {} /\ late = FALSE
      /\ revert = FALSE /\ verdict = "none" /\ admitted = "none"
      /\ open = FALSE /\ lines = <<>>
  BY DEF ExecInit, Init
<1>3. <<>> \in Seq(Frames)
  OBVIOUS
<1>4. ControlInv
  BY <1>2, <1>3 DEF ControlInv, ExecTypes, WriterHeld, CleanStart, SeenGood, OneOpen,
     Places, Running, Serving, Asking
<1>5. StoredObservations(lines) = {} /\ FilePrefixed
  <2>1. Len(lines) = 0 /\ \A n \in 0..0 : ObservationsIn(lines, n) = {}
    BY <1>2 DEF ObservationsIn
  <2>2. 0 \in 0..NumRequests /\ {o.id : o \in {}} = 1..0
    BY ExecAssumption
  <2>3. QED
    BY <2>1, <2>2 DEF StoredObservations, FilePrefixed, Prefixed
<1>6. EvidenceInv
  BY <1>2, <1>5 DEF EvidenceInv, AckedSeen, SeenIsStored, SeenPrefixed, FramesInTime,
     VerdictEarned, NoFabricatedSuccess, DecidedOnSeal, AdmissionSound
<1>7. QED
  BY <1>1, <1>4, <1>6 DEF ExecInv

\* Every step of the executor is a step of one of the groups above.
LEMMA StepGroups ==
  ASSUME [ExecNext]_vars
  PROVE  \/ Steady \/ Ending \/ RecordObservation
         \/ \E b \in Bindings : StartRun(b) /\ (CreateOk(b) \/ Reopen(b))
<1>1. ASSUME NEW b \in Bindings, StartRun(b)
      PROVE  CreateOk(b) \/ Reopen(b) \/ CreateErr(b) \/ UNCHANGED <<logVars, pc>>
  BY <1>1 DEF StartRun
<1>2. CASE \E b \in Bindings : StartRun(b)
  BY <1>1, <1>2 DEF Ending
<1>3. CASE Executor \/ Environment \/ Timers
  BY <1>3 DEF Executor, Environment, Timers, Steady, ReceiveStep, Ending
<1>4. CASE Terminated \/ UNCHANGED vars
  BY <1>4 DEF Terminated, Steady
<1>5. QED
  BY <1>2, <1>3, <1>4 DEF ExecNext

\* The executor changes the log only by the log's own operations.
LEMMA ExecLogStep ==
  ASSUME ExecInv, [ExecNext]_vars
  PROVE  [Next]_logVars
<1>1. CASE Steady
  <2>1. UNCHANGED logVars \/ record_rejection
    BY <1>1 DEF Steady, Recover, SpawnWorker, Authenticated, HandshakeFailed, NotReady, TakeStrays,
       DrainStray, IssueRequest, SendRequest, ReceiveStep, ReceiveIgnored, ReceiveRejected,
       ReceiveForeign, ReceiveInvalid, ReceiveAnswer, AwaitTimeout, PeerClosed, WithinBudget,
       OverBudget, StopWorker, Admission, WorkerSends, WorkerFloods, WorkerReads, WorkerCloses, StrayConnects,
       DeadlinePasses, vars
  <2>2. QED
    BY <2>1 DEF record_rejection, Next
<1>2. CASE Ending
  BY <1>2 DEF Ending, SpawnFailed, Halt, Finish, Crash, PowerFailIdle, Next
<1>3. CASE RecordObservation
  <2> DEFINE o == Observation(OpenRequest, verdict)
  <2>1. pc = "record" /\ Answered' = Answered /\ (AppendOk(o) \/ AppendErr(o))
    BY <1>3 DEF RecordObservation, Answered
  <2>2. WriteOk(ObsLine(o)) \/ WriteErr(ObsLine(o))
    BY <2>1 DEF AppendOk, AppendErr
  <2>3. o \in Observations
    BY <2>1, <2>2, ObservationWritten
  <2>4. QED
    BY <2>1, <2>3 DEF Next
<1>4. CASE \E b \in Bindings : StartRun(b) /\ (CreateOk(b) \/ Reopen(b))
  BY <1>4 DEF Next
<1>5. QED
  BY <1>1, <1>2, <1>3, <1>4, StepGroups

LEMMA ExecInvStep == ExecInv /\ [ExecNext]_vars => ExecInv'
<1> SUFFICES ASSUME ExecInv, [ExecNext]_vars PROVE ExecInv'
  OBVIOUS
<1>1. [Next]_logVars
  BY ExecLogStep
<1>2. LogInv'
  BY <1>1, LogInvStep DEF ExecInv
<1>3. AckedSeen' /\ SeenIsStored'
  BY <1>1, WriterMemory DEF ExecInv, EvidenceInv
<1>4. ControlInv' /\ SeenPrefixed' /\ FilePrefixed' /\ FramesInTime' /\ VerdictEarned'
      /\ NoFabricatedSuccess' /\ DecidedOnSeal' /\ AdmissionSound'
  BY StepGroups, SteadyStep, EndingStep, RecordStep, OpenedStep
<1>5. QED
  BY <1>2, <1>3, <1>4 DEF ExecInv, EvidenceInv

-----------------------------------------------------------------------------
(* The theorems. *)

\* The executor's invariant holds whatever the worker sends and whenever the supervisor
\* is killed and started again.
THEOREM ExecInvariant == ExecSpec => []ExecInv
  BY ExecInvInit, ExecInvStep, PTL DEF ExecSpec

\* run() uses the log as its specification allows, so everything proved of the log holds
\* of the log under the executor: what is acknowledged is durable, a seal is final.
THEOREM ExecutorUsesTheLog == ExecSpec => Spec
<1>1. ExecInit => Init
  BY DEF ExecInit
<1>2. ExecInv /\ [ExecNext]_vars => [Next]_logVars
  BY ExecLogStep
<1>3. QED
  BY <1>1, <1>2, ExecInvariant, PTL DEF ExecSpec, Spec

\* "No candidate-controlled statement can independently establish that a canary passed":
\* every stored success is backed by a correct answer of that identity's worker, sent in
\* time for the issued request or already waiting when it was issued.
THEOREM SuccessIsEarned == ExecSpec => []NoFabricatedSuccess
<1>1. ExecInv => NoFabricatedSuccess
  BY DEF ExecInv, EvidenceInv
<1>2. QED
  BY <1>1, ExecInvariant, PTL

\* The restarted executor resumes where the file ends: an intact log holds the first
\* requests of the workload and only the last of them may have failed.
THEOREM LogHoldsPrefix == ExecSpec => []ObservedPrefix
<1>1. ExecInv => ObservedPrefix
  <2> SUFFICES ASSUME ExecInv, ~Corrupt(lines)
               PROVE  Prefixed(StoredObservations(lines))
    BY DEF ObservedPrefix, Prefixed
  <2>1. lines \in Seq(Lines) /\ Len(lines) \in Nat /\ FilePrefixed
    BY DEF ExecInv, EvidenceInv, LogInv, TypeOK, Lines
  <2>2. Intact(Len(lines)) /\ Len(lines) \in 0..Len(lines)
    BY <2>1 DEF Intact, Corrupt
  <2>3. QED
    BY <2>1, <2>2 DEF FilePrefixed, StoredObservations
<1>2. QED
  BY <1>1, ExecInvariant, PTL

\* admit_sealed_quota says yes only to a candidate that answered Target requests correctly
\* and for which no failure was ever acknowledged.
THEOREM AdmissionIsSound == ExecSpec => []AdmissionSound
<1>1. ExecInv => AdmissionSound
  BY DEF ExecInv, EvidenceInv
<1>2. QED
  BY <1>1, ExecInvariant, PTL

\* "Failures stay failures": once a failure is acknowledged, no run issues a request.
THEOREM FailureEndsIssuing == ExecSpec => NoIssueAfterFailure
<1>1. ExecInv /\ [ExecNext]_vars
        => [(\E o \in acked : o.status # Success) => issued' \subseteq issued]_vars
  <2> SUFFICES ASSUME ExecInv, [ExecNext]_vars, \E o \in acked : o.status # Success
               PROVE  issued' \subseteq issued
    OBVIOUS
  <2>1. CASE IssueRequest
    <3>1. pc = "drain" /\ ~revert
      BY <2>1 DEF IssueRequest
    <3>2. open /\ \A o \in seen : o.status = Success
      BY <3>1 DEF ExecInv, ControlInv, WriterHeld, SeenGood, Running, Serving
    <3>3. \A o \in acked : o.status = Success
      BY <3>2 DEF ExecInv, EvidenceInv, AckedSeen
    <3>4. QED
      BY <3>3
  <2>2. CASE issued' = {} \/ issued' = issued
    BY <2>2
  <2>3. CASE Steady
    BY <2>1, <2>2, <2>3
    DEF Steady, Recover, SpawnWorker, Authenticated, HandshakeFailed, NotReady, TakeStrays,
        DrainStray, SendRequest, ReceiveStep, ReceiveIgnored, ReceiveRejected, ReceiveForeign,
        ReceiveInvalid, ReceiveAnswer, AwaitTimeout, PeerClosed, WithinBudget, OverBudget,
        StopWorker, Admission, WorkerSends, WorkerFloods, WorkerReads, WorkerCloses, StrayConnects,
        DeadlinePasses, vars, execVars, runVars
  <2>4. CASE Ending \/ RecordObservation \/ \E b \in Bindings : StartRun(b)
    BY <2>2, <2>4
    DEF Ending, SpawnFailed, Halt, Finish, Crash, PowerFailIdle, StartRun, RecordObservation,
        RunGone, runVars
  <2>5. QED
    BY <2>3, <2>4, StepGroups
<1>2. QED
  BY <1>1, ExecInvariant, PTL DEF ExecSpec, NoIssueAfterFailure

=============================================================================
