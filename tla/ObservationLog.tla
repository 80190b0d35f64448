--------------------------- MODULE ObservationLog ---------------------------
(***************************************************************************)
(* The per-generation observation log of src/src/canary/log.rs, and its    *)
(* one client, the canary executor (src/src/supervisor/canary_exec.rs),    *)
(* reduced to the calls it makes on the log.                               *)
(*                                                                         *)
(* The file is a sequence of complete lines (`lines`, each ended by a      *)
(* newline) and possibly some bytes after the last newline (`tail`).  The  *)
(* first `synced` lines are on stable storage; a power failure may lose    *)
(* the rest.  A write that fails may have written nothing, a part of the   *)
(* line, or the whole line without the sync.                               *)
(***************************************************************************)
EXTENDS Naturals, Sequences

CONSTANTS
  Ids,        \* observation ids: digests of (generation, request, request digest)
  Statuses,   \* the VerifiedStatus values
  Success,    \* VerifiedStatus::VerifiedSuccess
  Bindings,   \* (generation id, workload digest, executable digest) triples
  MaxLines    \* bound: lines the file may hold

ASSUME LogAssumption ==
  /\ Success \in Statuses
  /\ MaxLines \in Nat

VARIABLES
  exists,     \* the file exists
  lines,      \* its complete lines
  tail,       \* bytes follow the last newline
  synced,     \* how many lines are on stable storage
  open,       \* an ObservationLogWriter is open
  header,     \* the writer's header binding
  seen,       \* the writer's id -> digest map, as the set of observations
  acked,      \* history: observations append_observation answered Appended for
  swallowed,  \* history: a failed append_rejection was ignored
  result      \* what seal() returned: the sealed content, or NoResult

logVars == <<exists, lines, tail, synced, open, header, seen, acked, swallowed, result>>

-----------------------------------------------------------------------------
(* Records. A digest is injective on the bytes it covers: an observation's  *)
(* digest is the observation, the seal's log_digest the lines before it.    *)

Observations == [id : Ids, status : Statuses, binding : Bindings]

HeaderLine(b) == [kind |-> "header", binding |-> b]
ObsLine(o) == [kind |-> "observation", obs |-> o]
RejectionLine == [kind |-> "rejection"]
\* Two records run together: bytes that are no canonical record.
GarbledLine == [kind |-> "garbled"]

PlainLines ==
  [kind : {"header"}, binding : Bindings]
    \union [kind : {"observation"}, obs : Observations]
    \union {RejectionLine, GarbledLine}

\* The observations among the first n lines of ls.
ObservationsIn(ls, n) ==
  {o \in Observations : \E i \in 1..n : ls[i] = ObsLine(o)}

StoredObservations(ls) == ObservationsIn(ls, Len(ls))

\* The seal commits the digest of every byte before it. Its two counts are
\* functions of the same bytes, so the digest stands for them.
SealLine(ls) == [kind |-> "seal", digest |-> ls]

IsSeal(line) == line.kind = "seal"
HasHeader(ls) == Len(ls) > 0 /\ ls[1].kind = "header"
HasSeal(ls) == \E i \in DOMAIN ls : IsSeal(ls[i])
Corrupt(ls) == \E i \in DOMAIN ls : ls[i] = GarbledLine

\* check_bindings: the observation carries the header's three bindings.
check_bindings(b, o) == o.binding = b

\* Fault: lines that are no record are skipped instead of failing the parse.
parse_log_SkipsBadLines(ls) ==
  /\ \A i \in DOMAIN ls : (ls[i].kind = "header") <=> (i = 1)
  /\ \A i \in DOMAIN ls : IsSeal(ls[i]) => i = Len(ls)

\* parse_log returns Ok: every complete line is a canonical record, a header
\* stands on line 1 and only there, nothing follows the seal, every observation
\* is bound to the header, and no id is stored with two different records.
\* A partial tail never fails the parse, not even after the seal.
parse_log(ls) ==
  /\ ~Corrupt(ls)
  /\ \A i \in DOMAIN ls : (ls[i].kind = "header") <=> (i = 1)
  /\ \A i \in DOMAIN ls : IsSeal(ls[i]) => i = Len(ls)
  /\ \A o \in StoredObservations(ls) : check_bindings(ls[1].binding, o)
  /\ \A o1, o2 \in StoredObservations(ls) : o1.id = o2.id => o1 = o2

\* SealedObservationLog::verify_bytes.
verify_bytes(ls, t) ==
  /\ parse_log(ls)
  /\ HasSeal(ls)
  /\ ~t
  /\ ls[Len(ls)] = SealLine(SubSeq(ls, 1, Len(ls) - 1))

NoResult == [sealed |-> FALSE]
SealedResult(ls) ==
  [sealed |-> TRUE, observations |-> StoredObservations(ls), content |-> ls]

-----------------------------------------------------------------------------
(* write_synced: write_all, then sync_all. *)

\* What a complete write puts after the bytes already in the file.
Glued(line) == IF tail THEN GarbledLine ELSE line

\* Fault: the line is acknowledged without sync_all.
WriteOk_Unsynced(line) ==
  /\ Len(lines) < MaxLines
  /\ lines' = Append(lines, Glued(line))
  /\ tail' = FALSE
  /\ UNCHANGED synced

\* write_synced returns Ok.
WriteOk(line) ==
  /\ Len(lines) < MaxLines
  /\ lines' = Append(lines, Glued(line))
  /\ tail' = FALSE
  /\ synced' = Len(lines) + 1

\* write_synced returns Err: nothing written, a part of the line written, or the
\* whole line written and not synced.
WriteErr(line) ==
  /\ Len(lines) < MaxLines
  /\ UNCHANGED synced
  /\ \/ UNCHANGED <<lines, tail>>
     \/ /\ tail' = TRUE
        /\ UNCHANGED lines
     \/ /\ lines' = Append(lines, Glued(line))
        /\ tail' = FALSE

\* The writer is gone: consumed, or dropped as an error leaves run().
WriterGone ==
  /\ open' = FALSE
  /\ seen' = {}
  /\ UNCHANGED header

-----------------------------------------------------------------------------
Init ==
  /\ exists = FALSE
  /\ lines = <<>>
  /\ tail = FALSE
  /\ synced = 0
  /\ open = FALSE
  /\ header \in Bindings
  /\ seen = {}
  /\ acked = {}
  /\ swallowed = FALSE
  /\ result = NoResult

\* create: the file did not exist; the header is its first line.
CreateOk(b) ==
  /\ ~open /\ ~exists
  /\ exists' = TRUE
  /\ WriteOk(HeaderLine(b))
  /\ open' = TRUE
  /\ header' = b
  /\ seen' = {}
  /\ UNCHANGED <<acked, swallowed, result>>

\* create made the file, and writing the header failed or was cut short.
CreateErr(b) ==
  /\ ~open /\ ~exists
  /\ exists' = TRUE
  /\ WriteErr(HeaderLine(b))
  /\ WriterGone
  /\ UNCHANGED <<acked, swallowed, result>>

\* Fault: the check for a seal is missing.
Reopenable_EvenSealed(b) ==
  /\ exists
  /\ HasHeader(lines)
  /\ lines[1].binding = b
  /\ parse_log(lines)

\* open_log followed by reopen succeeds for an executor bound to b.
Reopenable(b) ==
  /\ exists
  /\ HasHeader(lines)
  /\ lines[1].binding = b
  /\ parse_log(lines)
  /\ ~HasSeal(lines)

\* Fault: the partial tail is left in place.
Reopen_KeepsTail(b) ==
  /\ ~open
  /\ Reopenable(b)
  /\ open' = TRUE
  /\ header' = b
  /\ seen' = StoredObservations(lines)
  /\ UNCHANGED <<exists, lines, tail, synced, acked, swallowed, result>>

\* Fault: the reopened writer starts with an empty id map.
Reopen_ForgetsIds(b) ==
  /\ ~open
  /\ Reopenable(b)
  /\ open' = TRUE
  /\ header' = b
  /\ seen' = {}
  /\ tail' = FALSE
  /\ synced' = IF tail THEN Len(lines) ELSE synced
  /\ UNCHANGED <<exists, lines, acked, swallowed, result>>

\* reopen drops a partial tail (and then syncs); every stored id is remembered.
Reopen(b) ==
  /\ ~open
  /\ Reopenable(b)
  /\ open' = TRUE
  /\ header' = b
  /\ seen' = StoredObservations(lines)
  /\ tail' = FALSE
  /\ synced' = IF tail THEN Len(lines) ELSE synced
  /\ UNCHANGED <<exists, lines, acked, swallowed, result>>

\* Fault: a known id is not looked up.
Refused_NoConflictCheck(o) == ~check_bindings(header, o)

\* append_observation refuses: other bindings, or another record under a known id.
Refused(o) ==
  \/ ~check_bindings(header, o)
  \/ \E p \in seen : p.id = o.id /\ p # o

AppendRefused(o) ==
  /\ open
  /\ Refused(o)
  /\ WriterGone
  /\ UNCHANGED <<exists, lines, tail, synced, acked, swallowed, result>>

\* append_observation answers Appended. A byte-identical retry is answered
\* Idempotent and changes nothing.
AppendOk(o) ==
  /\ open
  /\ ~Refused(o)
  /\ o \notin seen
  /\ WriteOk(ObsLine(o))
  /\ seen' = seen \union {o}
  /\ acked' = acked \union {o}
  /\ UNCHANGED <<exists, open, header, swallowed, result>>

\* The write failed: run() returns the error and the writer is dropped.
AppendErr(o) ==
  /\ open
  /\ ~Refused(o)
  /\ o \notin seen
  /\ WriteErr(ObsLine(o))
  /\ WriterGone
  /\ UNCHANGED <<exists, acked, swallowed, result>>

RejectionOk ==
  /\ open
  /\ WriteOk(RejectionLine)
  /\ UNCHANGED <<exists, open, header, seen, acked, swallowed, result>>

\* record_rejection ignores the error and the run goes on with the same writer.
RejectionErr ==
  /\ open
  /\ WriteErr(RejectionLine)
  /\ swallowed' = TRUE
  /\ UNCHANGED <<exists, open, header, seen, acked, result>>

\* What seal() checks of the file it re-reads before it writes the seal.
Sealable == parse_log(lines) /\ ~HasSeal(lines) /\ ~tail

SealOk ==
  /\ open
  /\ Sealable
  /\ WriteOk(SealLine(lines))
  /\ result' = IF verify_bytes(lines', tail') THEN SealedResult(lines') ELSE NoResult
  /\ WriterGone
  /\ UNCHANGED <<exists, acked, swallowed>>

SealErr ==
  /\ open
  /\ Sealable
  /\ WriteErr(SealLine(lines))
  /\ WriterGone
  /\ UNCHANGED <<exists, acked, swallowed, result>>

SealRefused ==
  /\ open
  /\ ~Sealable
  /\ WriterGone
  /\ UNCHANGED <<exists, lines, tail, synced, acked, swallowed, result>>

\* The process ends (Halted, an error, a kill): what was written stays written.
Drop ==
  /\ open
  /\ WriterGone
  /\ UNCHANGED <<exists, lines, tail, synced, acked, swallowed, result>>

\* Power failure: any line that was not synced, and any torn tail, may be lost;
\* a lost line may leave a part of itself. A file nothing of which was synced
\* may be gone altogether. ASSUMED of the file system, not done by create: the
\* directory entry of a new file is durable once the file is synced (create
\* syncs the file and never its directory; ext4, xfs and btrfs behave so).
PowerFail ==
  /\ WriterGone
  /\ \/ \E k \in synced..Len(lines) :
          /\ lines' = SubSeq(lines, 1, k)
          /\ synced' = k
          /\ tail' \in (IF tail \/ k < Len(lines) THEN BOOLEAN ELSE {FALSE})
          /\ UNCHANGED exists
     \/ /\ synced = 0
        /\ exists' = FALSE
        /\ lines' = <<>>
        /\ tail' = FALSE
        /\ synced' = 0
  /\ UNCHANGED <<acked, swallowed, result>>

Next ==
  \/ \E b \in Bindings : CreateOk(b) \/ CreateErr(b) \/ Reopen(b)
  \/ \E o \in Observations : AppendOk(o) \/ AppendErr(o) \/ AppendRefused(o)
  \/ RejectionOk \/ RejectionErr
  \/ SealOk \/ SealErr \/ SealRefused
  \/ Drop \/ PowerFail

Spec == Init /\ [][Next]_logVars

-----------------------------------------------------------------------------
(* Properties. *)

SealLines == [kind : {"seal"}, digest : Seq(PlainLines)]

\* Every variable has its type, and no more lines are synced than written.
TypeOK ==
  /\ exists \in BOOLEAN
  /\ lines \in Seq(PlainLines \union SealLines)
  /\ tail \in BOOLEAN
  /\ synced \in 0..Len(lines)
  /\ open \in BOOLEAN
  /\ header \in Bindings
  /\ seen \subseteq Observations
  /\ acked \subseteq Observations
  /\ swallowed \in BOOLEAN
  /\ result.sealed \in BOOLEAN

\* The observations a power failure cannot take back.
DurableObservations == ObservationsIn(lines, synced)

\* "Every append is synced to disk before it is acknowledged" (log.rs): whatever
\* crashes, restarts and failed writes follow, an acknowledged observation is a
\* record on stable storage, as long as no failed rejection write was ignored.
AckedDurable == ~swallowed => acked \subseteq DurableObservations

\* No crash and no error the executor reacts to leaves a line that is not a
\* record: only the rejection write whose error record_rejection ignores does.
CorruptionNeedsIgnoredError == Corrupt(lines) => swallowed

\* Fail closed: a log seal() has returned holds every observation that was ever
\* acknowledged, so an acknowledged failure is always in the evidence, even when
\* acknowledged records were lost in a corrupted line.
SealedHoldsAllAcked == result.sealed => acked \subseteq result.observations

\* After seal() returned, the file stays the sealed content through every crash,
\* restart and reopen attempt.
SealedContentFinal ==
  [][result.sealed => /\ result' = result
                      /\ lines' = result.content
                      /\ ~tail']_logVars

\* The log implements the grow-only evidence store that the seal freezes.
Store == INSTANCE EvidenceStore
           WITH stored <- DurableObservations, frozen <- result.sealed
ImplementsEvidenceStore == Store!Spec

\* "every stored id is remembered so replays are refused" (reopen, log.rs): what
\* the open writer knows covers the whole file, the records of earlier processes
\* included, even those written by an append that failed and was never
\* acknowledged, and no id of it has two records.
SeenCoversFile ==
  open => StoredObservations(lines) \subseteq seen /\ Store!OnePerId(seen)

-----------------------------------------------------------------------------
(* The inductive invariant behind the properties, by parts. *)

\* A file that does not exist holds nothing and has no writer.
AbsentIsEmpty == ~exists => lines = <<>> /\ ~tail /\ ~open

\* A writer meets torn bytes only behind an ignored rejection error: create and
\* reopen both start from a clean end of file.
TornBehindWriter == open /\ tail => swallowed

\* Acknowledged observations are durable, or a durable corrupt line stops the
\* log from ever being parsed, reopened or sealed again.
AckedOrCorrupt ==
  \/ acked \subseteq DurableObservations
  \/ \E i \in 1..synced : lines[i] = GarbledLine

OneRecordPerId == Store!OnePerId(StoredObservations(lines))

\* Once seal() returned, the file is the durable sealed content, with no writer.
SealedFile ==
  result.sealed =>
    /\ exists /\ ~open /\ ~tail
    /\ lines = result.content
    /\ synced = Len(lines)
    /\ HasSeal(lines)
    /\ result.observations = StoredObservations(lines)
    /\ acked \subseteq result.observations

LogInv ==
  /\ TypeOK
  /\ AbsentIsEmpty
  /\ TornBehindWriter
  /\ CorruptionNeedsIgnoredError
  /\ AckedOrCorrupt
  /\ SeenCoversFile
  /\ OneRecordPerId
  /\ SealedFile

=============================================================================
