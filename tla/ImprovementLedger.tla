-------------------------- MODULE ImprovementLedger --------------------------
(***************************************************************************)
(* The hash-chained ledger of src/src/ledger/ (db.rs, record.rs,           *)
(* merkle.rs, blob.rs, schema.rs), shared by several processes: the        *)
(* daemon, the soak runner and the command line each open ledger.db and    *)
(* the blob directory of the same rsi_root.                                *)
(*                                                                         *)
(* Every statement is one SQLite transaction and the mutex around the      *)
(* connection is released between statements, so an append is two steps    *)
(* (read the latest block, insert), a checkpoint is two, an audit is two,  *)
(* and opening a fresh database is two.  WAL with synchronous = NORMAL     *)
(* keeps what a killed process committed; a power failure keeps a prefix   *)
(* of the commits.  Blob files are renamed into place and never synced.    *)
(***************************************************************************)
EXTENDS Naturals, Sequences

CONSTANTS
  Procs,        \* processes with the ledger open
  Blobs,        \* contents of raw metrics
  NoBlob,       \* a block without one
  MaxBlocks,    \* bound: rows of the blocks table
  MaxReads,     \* bound: checkpoints and audits started
  MaxFaults     \* bound: killed processes and power failures

ASSUME LedgerAssumption ==
  /\ NoBlob \notin Blobs
  /\ {MaxBlocks, MaxReads, MaxFaults} \subseteq Nat

VARIABLES
  chain,       \* the blocks table, in commit order
  cps,         \* the checkpoints table
  files,       \* the blob directory: "absent", "ok" or "corrupt"
  op,          \* what each process is doing
  blob,        \* the blob of the block being appended
  last,        \* the latest block as append_block read it
  snap,        \* all blocks as checkpoint or the audit read them
  outcome,     \* the audit each process just did: "ok", or the check that failed
  acked,       \* history: blocks append_block returned Ok for since power was lost
  overtaken,   \* history: a checkpoint was stored since the audit read the blocks
  powerLost,   \* history: the machine lost power
  reads, faults   \* bounds

dbVars == <<chain, cps, files>>
procVars == <<op, blob, last, snap, outcome>>
histVars == <<acked, overtaken, powerLost>>
ledgerVars == <<dbVars, procVars, histVars, reads, faults>>

-----------------------------------------------------------------------------
(* Blocks. A hash is injective on what it covers: it is written as the tuple *)
(* of the hashed fields. Rows are written by LedgerBlock::new only, so the   *)
(* block_hash column is compute_block_hash of the row.                       *)

NoHash == <<>>

compute_block_hash(b) == <<"block", b.seq, b.writer, b.blob, b.prev>>

LedgerBlock(seq, writer, blobHash, prev) ==
  [seq |-> seq, writer |-> writer, blob |-> blobHash, prev |-> prev]

Genesis(p) == LedgerBlock(0, p, NoBlob, NoHash)

Latest == chain[Len(chain)]

\* Fault: a level with an odd number of nodes loses the last one.
NextLevel_DropsOdd(s) == [i \in 1..(Len(s) \div 2) |-> <<s[2*i - 1], s[2*i]>>]

\* One level of the Merkle tree: an odd last node is paired with itself.
NextLevel(s) ==
  [i \in 1..((Len(s) + 1) \div 2) |->
     <<s[2*i - 1], IF 2*i <= Len(s) THEN s[2*i] ELSE s[2*i - 1]>>]

\* The levels are computed until one node is left; a single leaf is its own root.
compute_merkle_root(leaves) ==
  LET level[n \in 0..Len(leaves)] ==
        IF n = 0 THEN leaves
        ELSE IF Len(level[n - 1]) > 1 THEN NextLevel(level[n - 1]) ELSE level[n - 1]
  IN  level[Len(leaves)][1]

LeafHashes(blocks) == [i \in 1..Len(blocks) |-> compute_block_hash(blocks[i])]

-----------------------------------------------------------------------------
LedgerInit ==
  /\ chain = <<>>
  /\ cps = {}
  /\ files = [b \in Blobs |-> "absent"]
  /\ op = [p \in Procs |-> "closed"]
  /\ blob = [p \in Procs |-> NoBlob]
  /\ last = [p \in Procs |-> Genesis(p)]
  /\ snap = [p \in Procs |-> <<>>]
  /\ outcome = [p \in Procs |-> "none"]
  /\ acked = {}
  /\ overtaken = [p \in Procs |-> FALSE]
  /\ powerLost = FALSE
  /\ reads = 0 /\ faults = 0

\* The result of the audit p did last is no longer looked at.
NoOutcome(p) ==
  outcome' = [outcome EXCEPT ![p] = "none"] /\ overtaken' = [overtaken EXCEPT ![p] = FALSE]

Goto(p, from, to) == op[p] = from /\ op' = [op EXCEPT ![p] = to]

\* open: the latest block is looked up; a fresh database still needs its genesis.
Open(p) ==
  /\ Goto(p, "closed", IF chain = <<>> THEN "genesis" ELSE "ready")
  /\ UNCHANGED <<dbVars, blob, last, snap, outcome, histVars, reads, faults>>

\* A row with this sequence number is in the table.
Taken(seq) == \E i \in 1..Len(chain) : chain[i].seq = seq

\* init_genesis: another process may have been first, and then open fails.
InitGenesis(p) ==
  /\ \/ Goto(p, "genesis", "ready") /\ ~Taken(0) /\ chain' = Append(chain, Genesis(p))
     \/ Goto(p, "genesis", "closed") /\ Taken(0) /\ UNCHANGED chain
  /\ UNCHANGED <<cps, files, blob, last, snap, outcome, histVars, reads, faults>>

\* append_evaluation stores the raw metrics first: a file that exists under the
\* digest is taken as it is, whatever it holds. The other appends store none.
PutBlob(p, b) ==
  /\ Goto(p, "ready", "append")
  /\ blob' = [blob EXCEPT ![p] = b]
  /\ files' = IF b \in Blobs /\ files[b] = "absent" THEN [files EXCEPT ![b] = "ok"] ELSE files
  /\ NoOutcome(p)
  /\ UNCHANGED <<chain, cps, last, snap, acked, powerLost, reads, faults>>

\* append_block reads the latest block and releases the lock...
ReadLatest(p) ==
  /\ Goto(p, "append", "insert")
  /\ chain # <<>>
  /\ last' = [last EXCEPT ![p] = Latest]
  /\ UNCHANGED <<dbVars, blob, snap, outcome, histVars, reads, faults>>

NewBlock(p) == LedgerBlock(last[p].seq + 1, p, blob[p], compute_block_hash(last[p]))

\* append_block's locals are gone when it returns.
Forget(p) == blob' = [blob EXCEPT ![p] = NoBlob] /\ last' = [last EXCEPT ![p] = Genesis(p)]

\* Fault: the sequence number is taken at the insert, the previous hash is not.
InsertBlock_FreshSequence(p) ==
  /\ Goto(p, "insert", "ready")
  /\ Len(chain) < MaxBlocks
  /\ chain' = Append(chain, [NewBlock(p) EXCEPT !.seq = Latest.seq + 1])
  /\ acked' = acked \union {NewBlock(p)}
  /\ Forget(p)
  /\ UNCHANGED <<cps, files, snap, outcome, overtaken, powerLost, reads, faults>>

\* Fault: INSERT OR REPLACE, as for checkpoints.
InsertBlock_Replaces(p) ==
  /\ Goto(p, "insert", "ready")
  /\ Len(chain) < MaxBlocks
  /\ chain' = Append(SubSeq(chain, 1, last[p].seq + 1), NewBlock(p))
  /\ acked' = acked \union {NewBlock(p)}
  /\ Forget(p)
  /\ UNCHANGED <<cps, files, snap, outcome, overtaken, powerLost, reads, faults>>

\* ... then inserts the next one. The primary key refuses a number already taken.
InsertBlock(p) ==
  /\ Goto(p, "insert", "ready")
  /\ Len(chain) < MaxBlocks
  /\ ~Taken(last[p].seq + 1)
  /\ chain' = Append(chain, NewBlock(p))
  /\ acked' = acked \union {NewBlock(p)}
  /\ Forget(p)
  /\ UNCHANGED <<cps, files, snap, outcome, overtaken, powerLost, reads, faults>>

\* The number is taken, or the database is busy or full: append_block fails.
InsertFailed(p) ==
  /\ Goto(p, "insert", "ready")
  /\ Forget(p)
  /\ UNCHANGED <<dbVars, snap, outcome, histVars, reads, faults>>

\* checkpoint reads every block...
CheckpointRead(p) ==
  /\ Goto(p, "ready", "checkpoint")
  /\ chain # <<>>
  /\ reads < MaxReads /\ reads' = reads + 1
  /\ snap' = [snap EXCEPT ![p] = chain]
  /\ NoOutcome(p)
  /\ UNCHANGED <<dbVars, blob, last, acked, powerLost, faults>>

MerkleCheckpoint(blocks, signed) ==
  [upto |-> blocks[Len(blocks)].seq, root |-> compute_merkle_root(LeafHashes(blocks)),
   count |-> Len(blocks), signed |-> signed, at |-> Len(chain)]

\* Fault: the count is the table's at the time of the write.
CheckpointStore_FreshCount(p, signed) ==
  /\ Goto(p, "checkpoint", "ready")
  /\ LET cp == [MerkleCheckpoint(snap[p], signed) EXCEPT !.count = Len(chain)]
     IN  cps' = {c \in cps : c.upto # cp.upto} \union {cp}
  /\ snap' = [snap EXCEPT ![p] = <<>>]
  /\ overtaken' = [q \in Procs |-> overtaken[q] \/ op[q] = "audit"]
  /\ UNCHANGED <<chain, files, blob, last, outcome, acked, powerLost, reads, faults>>

\* ... and stores the root over what it read, with or without a signature, in
\* place of an earlier checkpoint for the same sequence number. `at` records the
\* place in the order of commits.
CheckpointStore(p, signed) ==
  /\ Goto(p, "checkpoint", "ready")
  /\ LET cp == MerkleCheckpoint(snap[p], signed)
     IN  cps' = {c \in cps : c.upto # cp.upto} \union {cp}
  /\ snap' = [snap EXCEPT ![p] = <<>>]
  /\ overtaken' = [q \in Procs |-> overtaken[q] \/ op[q] = "audit"]
  /\ UNCHANGED <<chain, files, blob, last, outcome, acked, powerLost, reads, faults>>

\* verify_chain_integrity reads every block...
AuditRead(p) ==
  /\ Goto(p, "ready", "audit")
  /\ chain # <<>>
  /\ reads < MaxReads /\ reads' = reads + 1
  /\ snap' = [snap EXCEPT ![p] = chain]
  /\ NoOutcome(p)
  /\ UNCHANGED <<dbVars, blob, last, acked, powerLost, faults>>

LinksHold(blocks) ==
  /\ blocks[1].seq = 0 /\ blocks[1].prev = NoHash
  /\ \A i \in 2..Len(blocks) :
       blocks[i].seq = i - 1 /\ blocks[i].prev = compute_block_hash(blocks[i - 1])

\* latest_checkpoint: the one with the highest sequence number.
IsLatestCheckpoint(cp) == cp \in cps /\ \A c \in cps : c.upto <= cp.upto

\* The audit's checks of the latest checkpoint, in the code's order.
CheckpointVerdict(blocks, cp, keyGiven) ==
  IF cp.upto > blocks[Len(blocks)].seq THEN "ahead"
  ELSE IF \/ cp.count # cp.upto + 1
          \/ cp.root # compute_merkle_root(LeafHashes(SubSeq(blocks, 1, cp.upto + 1)))
       THEN "root"
  ELSE IF keyGiven /\ ~cp.signed THEN "signature"
  ELSE "ok"

\* ... checks their links, then their blobs, then the latest checkpoint as it is
\* by now.
AuditDecide(p, keyGiven) ==
  /\ Goto(p, "audit", "ready")
  /\ outcome' = [outcome EXCEPT ![p] =
       IF ~LinksHold(snap[p]) THEN "links"
       ELSE IF \E i \in 2..Len(snap[p]) : /\ snap[p][i].blob \in Blobs
                                          /\ files[snap[p][i].blob] # "ok"
            THEN "blob"
       ELSE IF cps = {} THEN "ok"
       ELSE CheckpointVerdict(snap[p], CHOOSE cp \in cps : IsLatestCheckpoint(cp), keyGiven)]
  /\ snap' = [snap EXCEPT ![p] = <<>>]
  /\ UNCHANGED <<dbVars, blob, last, histVars, reads, faults>>

-----------------------------------------------------------------------------
(* Faults. *)

\* A process is killed: what it committed stays.
Kill(p) ==
  /\ op[p] # "closed"
  /\ faults < MaxFaults /\ faults' = faults + 1
  /\ op' = [op EXCEPT ![p] = "closed"]
  /\ snap' = [snap EXCEPT ![p] = <<>>]
  /\ NoOutcome(p)
  /\ Forget(p)
  /\ UNCHANGED <<dbVars, acked, powerLost, reads>>

\* A power failure keeps a prefix of the commits; a blob file may be missing or
\* hold nothing. A checkpoint that was replaced by one of the same blocks, and of the
\* same root, is gone together with the one that replaced it.
PowerFail ==
  /\ faults < MaxFaults /\ faults' = faults + 1
  /\ \E k \in 0..Len(chain) :
       /\ chain' = SubSeq(chain, 1, k)
       /\ \E kept \in SUBSET {c \in cps : c.at = k} :
            cps' = {c \in cps : c.at < k} \union kept
  /\ \E damage \in [Blobs -> {"absent", "corrupt", "ok"}] :
       files' = [b \in Blobs |-> IF files[b] = "ok" THEN damage[b] ELSE files[b]]
  /\ op' = [p \in Procs |-> "closed"]
  /\ snap' = [p \in Procs |-> <<>>]
  /\ blob' = [p \in Procs |-> NoBlob] /\ last' = [p \in Procs |-> Genesis(p)]
  /\ outcome' = [p \in Procs |-> "none"]
  /\ overtaken' = [p \in Procs |-> FALSE]
  /\ acked' = {}
  /\ powerLost' = TRUE
  /\ UNCHANGED reads

LedgerNext ==
  \/ \E p \in Procs :
       \/ Open(p) \/ InitGenesis(p)
       \/ \E b \in Blobs \union {NoBlob} : PutBlob(p, b)
       \/ ReadLatest(p) \/ InsertBlock(p) \/ InsertFailed(p)
       \/ CheckpointRead(p) \/ AuditRead(p)
       \/ \E flag \in BOOLEAN : CheckpointStore(p, flag) \/ AuditDecide(p, flag)
       \/ Kill(p)
  \/ PowerFail

LedgerSpec == LedgerInit /\ [][LedgerNext]_ledgerVars

-----------------------------------------------------------------------------
(* Properties. *)

\* Whatever processes append, race, fail or die, the blocks form one chain:
\* consecutive sequence numbers from one genesis, each block holding the hash of
\* the one before it.
OneChain == chain # <<>> => LinksHold(chain)

\* An append that was answered Ok stays in the ledger, through every race, failed
\* append and killed process, up to a power failure (synchronous = NORMAL).
AckedInLedger == \A b \in acked : \E i \in 1..Len(chain) : chain[i] = b

\* The signature covers the Merkle root alone: the root tells the checkpoint's
\* prefix of the ledger from every other prefix.
RootDeterminesPrefix ==
  \A i, j \in 1..Len(chain) :
    compute_merkle_root(LeafHashes(SubSeq(chain, 1, i)))
      = compute_merkle_root(LeafHashes(SubSeq(chain, 1, j))) => i = j

\* An audit of a ledger written through this interface raises no false alarm about
\* its links or Merkle roots. It fails only for a blob the power failure damaged, a
\* checkpoint without a signature, or one stored while it ran.
AuditAlarmsAreReal ==
  \A p \in Procs :
    \/ outcome[p] \in {"none", "ok", "signature"}
    \/ outcome[p] = "blob" /\ powerLost
    \/ outcome[p] = "ahead" /\ overtaken[p]

\* Blocks are never changed or removed by an operation, a failed append or a killed
\* process: the table only grows, except when a power failure cuts it back.
AppendOnly ==
  [][\/ Len(chain) <= Len(chain') /\ SubSeq(chain', 1, Len(chain)) = chain
     \/ PowerFail]_ledgerVars

-----------------------------------------------------------------------------
(* The inductive invariant behind OneChain and AckedInLedger, by parts. *)

\* The block append_block read is still at its place in the chain, so a free
\* sequence number after it means that nothing was appended since.
LastIsInChain ==
  \A p \in Procs : op[p] = "insert" =>
    \E i \in 1..Len(chain) : chain[i] = last[p]
=============================================================================
