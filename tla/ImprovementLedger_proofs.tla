----------------------- MODULE ImprovementLedger_proofs -----------------------
(***************************************************************************)
(* Proofs about the ledger, for any number of processes, any blobs and any *)
(* bound: whatever they append concurrently, the blocks form one chain,    *)
(* nothing that was acknowledged is lost to a race or a killed process,    *)
(* the table only grows, and an audit that fails has a reason.             *)
(***************************************************************************)
EXTENDS ImprovementLedger, SequenceTheorems, WellFoundedInduction, TLAPS

\* The table is a finite sequence; its rows come from no fixed set, because a
\* block holds the hash of the one before it.
ChainIsSeq == \E S : chain \in Seq(S)

OpsTyped == op \in [Procs -> {"closed", "genesis", "ready", "append", "insert",
                              "checkpoint", "audit"}]

LastTyped == DOMAIN last = Procs

PastOpen == \A p \in Procs : op[p] \notin {"closed", "genesis"} => chain # <<>>

LedgerInv ==
  /\ ChainIsSeq
  /\ OpsTyped
  /\ LastTyped
  /\ PastOpen
  /\ OneChain
  /\ LastIsInChain
  /\ AckedInLedger

\* What the chain looks like after a row is added at its end.
LEMMA ChainAppend ==
  ASSUME ChainIsSeq, NEW b
  PROVE  /\ Len(Append(chain, b)) = Len(chain) + 1
         /\ Len(chain) \in Nat
         /\ \A i \in 1..Len(chain) : Append(chain, b)[i] = chain[i]
         /\ Append(chain, b)[Len(chain) + 1] = b
         /\ Append(chain, b) # <<>>
         /\ \E S : Append(chain, b) \in Seq(S)
         /\ SubSeq(Append(chain, b), 1, Len(chain)) = chain
<1>1. PICK S : chain \in Seq(S)
  BY DEF ChainIsSeq
<1>2. chain \in Seq(S \union {b}) /\ b \in S \union {b}
  BY <1>1
<1>3. Append(chain, b) \in Seq(S \union {b})
  BY <1>2
<1>4. SubSeq(Append(chain, b), 1, Len(chain)) = chain
  BY <1>2, <1>3
<1> QED
  BY <1>2, <1>3, <1>4

\* A chain whose links hold numbers its rows from zero.
LEMMA SequenceIsIndex ==
  ASSUME ChainIsSeq, LinksHold(chain), NEW i \in 1..Len(chain)
  PROVE  chain[i].seq = i - 1
<1>1. Len(chain) \in Nat
  BY DEF ChainIsSeq
<1> QED
  BY <1>1 DEF LinksHold

\* A block appended after the latest row, with the next number and its hash,
\* continues the chain.
LEMMA LinksExtend ==
  ASSUME ChainIsSeq, chain # <<>>, LinksHold(chain), NEW b,
         b.seq = Len(chain), b.prev = compute_block_hash(chain[Len(chain)])
  PROVE  LinksHold(Append(chain, b))
<1>1. Len(chain) \in Nat /\ Len(chain) >= 1
  BY DEF ChainIsSeq
<1>2. Append(chain, b)[1] = chain[1]
  BY <1>1, ChainAppend
<1>3. ASSUME NEW i \in 2..Len(Append(chain, b))
      PROVE  /\ Append(chain, b)[i].seq = i - 1
             /\ Append(chain, b)[i].prev = compute_block_hash(Append(chain, b)[i - 1])
  <2>1. Len(Append(chain, b)) = Len(chain) + 1
    BY ChainAppend
  <2>2. CASE i = Len(chain) + 1
    <3>1. Append(chain, b)[i] = b /\ Append(chain, b)[i - 1] = chain[Len(chain)]
      BY <1>1, <2>2, ChainAppend
    <3> QED
      BY <1>1, <2>2, <3>1
  <2>3. CASE i # Len(chain) + 1
    <3>1. i \in 2..Len(chain) /\ i - 1 \in 1..Len(chain)
      BY <1>1, <1>3, <2>1, <2>3
    <3>2. Append(chain, b)[i] = chain[i] /\ Append(chain, b)[i - 1] = chain[i - 1]
      BY <1>1, <3>1, ChainAppend
    <3> QED
      BY <3>1, <3>2 DEF LinksHold
  <2> QED
    BY <2>2, <2>3
<1> QED
  BY <1>2, <1>3 DEF LinksHold

\* Steps that leave the table, the acknowledgements and the reads of the open
\* appends alone keep the invariant.
LEMMA QuietStep ==
  ASSUME LedgerInv, UNCHANGED <<chain, acked>>, OpsTyped', LastTyped', PastOpen',
         \A p \in Procs : op'[p] = "insert" =>
           \/ op[p] = "insert" /\ last'[p] = last[p]
           \/ chain # <<>> /\ last'[p] = chain[Len(chain)]
  PROVE  LedgerInv'
<1>1. ChainIsSeq' /\ OneChain' /\ AckedInLedger'
  BY DEF LedgerInv, ChainIsSeq, OneChain, AckedInLedger
<1>2. LastIsInChain'
  <2> SUFFICES ASSUME NEW p \in Procs, op'[p] = "insert"
               PROVE  \E i \in 1..Len(chain) : chain[i] = last'[p]
    BY DEF LastIsInChain
  <2>1. CASE op[p] = "insert" /\ last'[p] = last[p]
    BY <2>1 DEF LedgerInv, LastIsInChain
  <2>2. CASE chain # <<>> /\ last'[p] = chain[Len(chain)]
    <3>1. Len(chain) \in 1..Len(chain)
      BY <2>2 DEF LedgerInv, ChainIsSeq
    <3> QED
      BY <2>2, <3>1
  <2> QED
    BY <2>1, <2>2
<1> QED
  BY <1>1, <1>2 DEF LedgerInv

\* InsertBlock extends the chain by the block that follows the row it read.
LEMMA InsertKeepsInv ==
  ASSUME LedgerInv, NEW p \in Procs, InsertBlock(p)
  PROVE  LedgerInv'
<1>1. ChainIsSeq /\ chain # <<>> /\ LinksHold(chain)
  BY DEF LedgerInv, InsertBlock, Goto, PastOpen, OneChain
<1>2. Len(chain) \in Nat
  BY <1>1 DEF ChainIsSeq
<1>3. PICK i \in 1..Len(chain) : chain[i] = last[p]
  BY DEF LedgerInv, LastIsInChain, InsertBlock, Goto
<1>4. last[p].seq = i - 1
  BY <1>1, <1>3, SequenceIsIndex
<1>5. i = Len(chain)
  <2> SUFFICES ASSUME i # Len(chain) PROVE FALSE
    OBVIOUS
  <2>1. i + 1 \in 1..Len(chain)
    BY <1>2, <1>3
  <2>2. chain[i + 1].seq = i
    BY <1>1, <1>2, <2>1, SequenceIsIndex
  <2> QED
    BY <1>3, <1>4, <2>1, <2>2 DEF InsertBlock, Taken
<1>6. NewBlock(p).seq = Len(chain) /\ NewBlock(p).prev = compute_block_hash(chain[Len(chain)])
  BY <1>2, <1>3, <1>4, <1>5 DEF NewBlock, LedgerBlock
<1>7. chain' = Append(chain, NewBlock(p))
  BY DEF InsertBlock
<1>8. ChainIsSeq' /\ OneChain'
  BY <1>1, <1>6, <1>7, ChainAppend, LinksExtend DEF ChainIsSeq, OneChain
<1>9. \A j \in 1..Len(chain) : j \in 1..Len(chain') /\ chain'[j] = chain[j]
  BY <1>1, <1>2, <1>7, ChainAppend
<1>10. AckedInLedger'
  <2>1. Len(chain') \in 1..Len(chain') /\ chain'[Len(chain')] = NewBlock(p)
    BY <1>1, <1>2, <1>7, ChainAppend
  <2>2. acked' = acked \union {NewBlock(p)}
    BY DEF InsertBlock
  <2> QED
    BY <1>9, <2>1, <2>2 DEF LedgerInv, AckedInLedger
<1>11. OpsTyped' /\ LastTyped'
  BY DEF LedgerInv, OpsTyped, LastTyped, InsertBlock, Goto, Forget
<1>12. PastOpen'
  BY <1>1, <1>7, ChainAppend DEF PastOpen
<1>13. LastIsInChain'
  <2> SUFFICES ASSUME NEW q \in Procs, op'[q] = "insert"
               PROVE  \E j \in 1..Len(chain') : chain'[j] = last'[q]
    BY DEF LastIsInChain
  <2>1. q # p /\ op[q] = "insert" /\ last'[q] = last[q]
    BY DEF LedgerInv, OpsTyped, LastTyped, InsertBlock, Goto, Forget
  <2>2. PICK j \in 1..Len(chain) : chain[j] = last[q]
    BY <2>1 DEF LedgerInv, LastIsInChain
  <2> QED
    BY <1>9, <2>1, <2>2
<1> QED
  BY <1>8, <1>10, <1>11, <1>12, <1>13 DEF LedgerInv

\* The process that wins the genesis starts the chain.
LEMMA GenesisKeepsInv ==
  ASSUME LedgerInv, NEW p \in Procs, InitGenesis(p), ~Taken(0)
  PROVE  LedgerInv'
<1>1. Len(chain) \in Nat /\ ChainIsSeq
  BY DEF LedgerInv, ChainIsSeq
<1>2. chain = <<>>
  <2> SUFFICES ASSUME chain # <<>> PROVE FALSE
    OBVIOUS
  <2>1. 1 \in 1..Len(chain)
    BY DEF LedgerInv, ChainIsSeq
  <2>2. chain[1].seq = 0
    BY DEF LedgerInv, OneChain, LinksHold
  <2> QED
    BY <2>1, <2>2 DEF Taken
<1>3. chain' = <<Genesis(p)>> /\ op' = [op EXCEPT ![p] = "ready"] /\ UNCHANGED <<last, acked>>
  BY <1>2 DEF InitGenesis, Goto, histVars
<1>4. ChainIsSeq' /\ chain' # <<>>
  <2>1. <<Genesis(p)>> \in Seq({Genesis(p)}) /\ <<Genesis(p)>> # <<>>
    OBVIOUS
  <2> QED
    BY <1>3, <2>1 DEF ChainIsSeq
<1>5. LinksHold(chain')
  BY <1>3 DEF LinksHold, Genesis, LedgerBlock
<1>6. OpsTyped' /\ LastTyped'
  BY <1>3 DEF LedgerInv, OpsTyped, LastTyped
<1>7. AckedInLedger'
  BY <1>2, <1>3 DEF LedgerInv, AckedInLedger
<1>8. LastIsInChain'
  BY <1>2, <1>3 DEF LedgerInv, LastIsInChain, PastOpen, OpsTyped
<1> QED
  BY <1>4, <1>5, <1>6, <1>7, <1>8 DEF LedgerInv, OneChain, PastOpen

\* A power failure leaves a prefix of a chain, which is a chain.
LEMMA PowerFailKeepsInv ==
  ASSUME LedgerInv, PowerFail
  PROVE  LedgerInv'
<1>1. PICK k \in 0..Len(chain) : chain' = SubSeq(chain, 1, k)
  BY DEF PowerFail
<1>2. PICK S : chain \in Seq(S)
  BY DEF LedgerInv, ChainIsSeq
<1>3. chain' \in Seq(S) /\ Len(chain') = k /\ \A i \in 1..k : chain'[i] = chain[i]
  BY <1>1, <1>2
<1>4. OneChain'
  <2> SUFFICES ASSUME chain' # <<>> PROVE LinksHold(chain')
    BY DEF OneChain
  <2>1. k >= 1 /\ LinksHold(chain) /\ Len(chain) \in Nat
    BY <1>1, <1>2, <1>3 DEF LedgerInv, OneChain
  <2> QED
    BY <1>1, <1>3, <2>1 DEF LinksHold, compute_block_hash
<1>5. op' = [p \in Procs |-> "closed"] /\ acked' = {} /\ last' = [p \in Procs |-> Genesis(p)]
  BY DEF PowerFail
<1>6. OpsTyped' /\ LastTyped' /\ PastOpen' /\ LastIsInChain' /\ AckedInLedger'
  BY <1>5 DEF OpsTyped, LastTyped, PastOpen, LastIsInChain, AckedInLedger
<1> QED
  BY <1>3, <1>4, <1>6 DEF LedgerInv, ChainIsSeq

\* Every step of the ledger preserves the invariant.
LEMMA LedgerInvStep == LedgerInv /\ [LedgerNext]_ledgerVars => LedgerInv'
<1> SUFFICES ASSUME LedgerInv, [LedgerNext]_ledgerVars PROVE LedgerInv'
  OBVIOUS
<1>o. OpsTyped /\ LastTyped /\ PastOpen
  BY DEF LedgerInv
<1>1. ASSUME NEW p \in Procs, Open(p) PROVE LedgerInv'
  BY <1>1, <1>o, QuietStep DEF Open, Goto, OpsTyped, LastTyped, PastOpen, dbVars, histVars
<1>2. ASSUME NEW p \in Procs, InitGenesis(p) PROVE LedgerInv'
  <2>1. CASE ~Taken(0)
    BY <1>2, <2>1, GenesisKeepsInv
  <2>2. CASE Taken(0)
    BY <1>2, <2>2, <1>o, QuietStep DEF InitGenesis, Goto, OpsTyped, LastTyped, PastOpen, histVars
  <2> QED
    BY <2>1, <2>2
<1>3. ASSUME NEW p \in Procs, NEW b, PutBlob(p, b) PROVE LedgerInv'
  BY <1>3, <1>o, QuietStep DEF PutBlob, Goto, OpsTyped, LastTyped, PastOpen
<1>4. ASSUME NEW p \in Procs, ReadLatest(p) PROVE LedgerInv'
  BY <1>4, <1>o, QuietStep DEF ReadLatest, Latest, Goto, OpsTyped, LastTyped, PastOpen,
     dbVars, histVars
<1>5. ASSUME NEW p \in Procs, InsertFailed(p) PROVE LedgerInv'
  BY <1>5, <1>o, QuietStep DEF InsertFailed, Forget, Goto, OpsTyped, LastTyped, PastOpen,
     dbVars, histVars
<1>6. ASSUME NEW p \in Procs, CheckpointRead(p) \/ AuditRead(p) PROVE LedgerInv'
  BY <1>6, <1>o, QuietStep DEF CheckpointRead, AuditRead, Goto, OpsTyped, LastTyped, PastOpen,
     dbVars
<1>7. ASSUME NEW p \in Procs, NEW flag, CheckpointStore(p, flag) PROVE LedgerInv'
  BY <1>7, <1>o, QuietStep DEF CheckpointStore, Goto, OpsTyped, LastTyped, PastOpen
<1>8. ASSUME NEW p \in Procs, NEW flag, AuditDecide(p, flag) PROVE LedgerInv'
  BY <1>8, <1>o, QuietStep DEF AuditDecide, Goto, OpsTyped, LastTyped, PastOpen,
     dbVars, histVars
<1>9. ASSUME NEW p \in Procs, Kill(p) PROVE LedgerInv'
  BY <1>9, <1>o, QuietStep DEF Kill, Forget, OpsTyped, LastTyped, PastOpen, dbVars
<1>10. CASE UNCHANGED ledgerVars
  BY <1>10, <1>o, QuietStep DEF ledgerVars, dbVars, procVars, histVars, OpsTyped, LastTyped,
     PastOpen
<1> QED
  BY <1>1, <1>2, <1>3, <1>4, <1>5, <1>6, <1>7, <1>8, <1>9, <1>10, InsertKeepsInv,
     PowerFailKeepsInv DEF LedgerNext

\* The inductive invariant holds in every reachable state of the ledger.
THEOREM LedgerInvariant == LedgerSpec => []LedgerInv
<1>1. LedgerInit => LedgerInv
  BY DEF LedgerInit, LedgerInv, ChainIsSeq, OpsTyped, LastTyped, PastOpen, OneChain,
         LastIsInChain, AckedInLedger
<1> QED
  BY <1>1, LedgerInvStep, PTL DEF LedgerSpec

\* Concurrent appends leave one hash chain (append_block, insert_block_internal).
THEOREM ConcurrentAppendsChain == LedgerSpec => []OneChain
BY LedgerInvariant, PTL DEF LedgerInv

\* No race and no killed process loses an acknowledged block (append_block).
THEOREM AcknowledgedBlocksStay == LedgerSpec => []AckedInLedger
BY LedgerInvariant, PTL DEF LedgerInv

\* The blocks table only grows (insert_block_internal is its only writer).
THEOREM TableOnlyGrows == LedgerSpec => AppendOnly
<1> DEFINE Grows == Len(chain) <= Len(chain') /\ SubSeq(chain', 1, Len(chain)) = chain
<1>1. LedgerInv /\ [LedgerNext]_ledgerVars => [Grows \/ PowerFail]_ledgerVars
  <2> SUFFICES ASSUME LedgerInv, LedgerNext, ~PowerFail PROVE Grows
    OBVIOUS
  <2>1. PICK S : chain \in Seq(S)
    BY DEF LedgerInv, ChainIsSeq
  <2>2. ASSUME UNCHANGED chain PROVE Grows
    BY <2>1, <2>2
  <2>3. ASSUME NEW b, chain' = Append(chain, b) PROVE Grows
    <3>1. chain \in Seq(S \union {b}) /\ b \in S \union {b}
      BY <2>1
    <3> QED
      BY <2>3, <3>1
  <2>4. PICK p \in Procs :
          \/ Open(p) \/ InitGenesis(p)
          \/ \E b \in Blobs \union {NoBlob} : PutBlob(p, b)
          \/ ReadLatest(p) \/ InsertBlock(p) \/ InsertFailed(p)
          \/ CheckpointRead(p) \/ AuditRead(p)
          \/ \E flag \in BOOLEAN : CheckpointStore(p, flag) \/ AuditDecide(p, flag)
          \/ Kill(p)
    BY DEF LedgerNext
  <2>5. \/ UNCHANGED chain
        \/ chain' = Append(chain, Genesis(p))
        \/ chain' = Append(chain, NewBlock(p))
    BY <2>4 DEF Open, InitGenesis, PutBlob, ReadLatest, InsertBlock, InsertFailed,
       CheckpointRead, AuditRead, CheckpointStore, AuditDecide, Kill, dbVars
  <2> QED
    BY <2>2, <2>3, <2>5
<1> QED
  BY <1>1, LedgerInvariant, PTL DEF LedgerSpec, AppendOnly

-----------------------------------------------------------------------------
(* Audits: the strengthening of AuditAlarmsAreReal, by parts.                 *)

\* What a checkpoint or an audit read is still a prefix of the table: only a power failure
\* takes rows away, and it takes the reader with them.
ReadersPrefix ==
  \A p \in Procs : op[p] \in {"checkpoint", "audit"} =>
    \E n \in 1..Len(chain) : snap[p] = SubSeq(chain, 1, n)

\* A stored checkpoint covers a prefix of the table, which was there when it was stored.
CheckpointsHold ==
  \A c \in cps :
    /\ c.count \in 1..Len(chain) /\ c.upto = c.count - 1
    /\ c.at \in c.count..Len(chain)
    /\ c.root = compute_merkle_root(LeafHashes(SubSeq(chain, 1, c.count)))

\* An audit that was not overtaken has read every block that a checkpoint covers.
NotOvertaken ==
  \A p \in Procs : op[p] = "audit" /\ ~overtaken[p] => \A c \in cps : c.count <= Len(snap[p])

\* Up to a power failure, the blobs of the blocks and of the open appends are in place.
BlobsKept ==
  powerLost \/
    /\ \A b \in Blobs : files[b] \in {"absent", "ok"}
    /\ \A i \in 1..Len(chain) : chain[i].blob \in Blobs => files[chain[i].blob] = "ok"
    /\ \A p \in Procs : op[p] \in {"append", "insert"} /\ blob[p] \in Blobs =>
         files[blob[p]] = "ok"

\* The domains that the updates of one process rely on.
ReadersTyped ==
  /\ DOMAIN snap = Procs /\ DOMAIN blob = Procs /\ DOMAIN files = Blobs
  /\ DOMAIN outcome = Procs /\ overtaken \in [Procs -> BOOLEAN] /\ powerLost \in BOOLEAN

\* What AuditAlarmsAreReal needs to be inductive, on top of LedgerInv.
AuditInv ==
  /\ ReadersTyped /\ ReadersPrefix /\ CheckpointsHold /\ NotOvertaken /\ BlobsKept
  /\ AuditAlarmsAreReal

\* What AuditAlarmsAreReal says of one process.
Real(p) ==
  \/ outcome[p] \in {"none", "ok", "signature"}
  \/ outcome[p] = "blob" /\ powerLost
  \/ outcome[p] = "ahead" /\ overtaken[p]

-----------------------------------------------------------------------------
(* Prefixes.                                                                  *)

\* A prefix of a prefix is a prefix.
LEMMA Prefixes ==
  ASSUME NEW S, NEW s \in Seq(S), NEW n \in 0..Len(s)
  PROVE  /\ SubSeq(s, 1, n) \in Seq(S) /\ Len(SubSeq(s, 1, n)) = n
         /\ \A i \in 1..n : SubSeq(s, 1, n)[i] = s[i]
         /\ \A m \in 1..n : SubSeq(SubSeq(s, 1, n), 1, m) = SubSeq(s, 1, m)
<1>1. /\ SubSeq(s, 1, n) \in Seq(S) /\ Len(SubSeq(s, 1, n)) = n
      /\ \A i \in 1..n : SubSeq(s, 1, n)[i] = s[i]
  OBVIOUS
<1>2. ASSUME NEW m \in 1..n PROVE SubSeq(SubSeq(s, 1, n), 1, m) = SubSeq(s, 1, m)
  <2> DEFINE t == SubSeq(s, 1, n)
  <2>1. m \in 1..Len(s) /\ m \in 1..Len(t) /\ t \in Seq(S)
    BY <1>1
  <2> HIDE DEF t
  <2>2. /\ SubSeq(t, 1, m) \in Seq(S) /\ Len(SubSeq(t, 1, m)) = m
        /\ \A i \in 1..m : SubSeq(t, 1, m)[i] = t[i]
    BY <2>1
  <2>3. /\ SubSeq(s, 1, m) \in Seq(S) /\ Len(SubSeq(s, 1, m)) = m
        /\ \A i \in 1..m : SubSeq(s, 1, m)[i] = s[i]
    BY <2>1
  <2>4. \A i \in 1..m : t[i] = s[i]
    BY <1>1 DEF t
  <2>5. SubSeq(t, 1, m) = SubSeq(s, 1, m)
    BY <2>2, <2>3, <2>4
  <2>6. QED
    BY <2>5 DEF t
<1>3. QED
  BY <1>1, <1>2

\* A new last element leaves the earlier prefixes alone.
LEMMA PrefixOfAppend ==
  ASSUME NEW S, NEW s \in Seq(S), NEW b, NEW n \in 0..Len(s)
  PROVE  SubSeq(Append(s, b), 1, n) = SubSeq(s, 1, n)
<1> DEFINE T == S \cup {b}
           t == Append(s, b)
<1>1. s \in Seq(T) /\ b \in T
  OBVIOUS
<1>2. t \in Seq(T) /\ Len(t) = Len(s) + 1 /\ \A i \in 1..Len(s) : t[i] = s[i]
  BY <1>1
<1> HIDE DEF T, t
<1>3. /\ SubSeq(t, 1, n) \in Seq(T) /\ Len(SubSeq(t, 1, n)) = n
      /\ \A i \in 1..n : SubSeq(t, 1, n)[i] = t[i]
  BY <1>2
<1>4. /\ SubSeq(s, 1, n) \in Seq(T) /\ Len(SubSeq(s, 1, n)) = n
      /\ \A i \in 1..n : SubSeq(s, 1, n)[i] = s[i]
  BY <1>1
<1>5. SubSeq(t, 1, n) = SubSeq(s, 1, n)
  BY <1>2, <1>3, <1>4
<1>6. QED
  BY <1>5 DEF t

-----------------------------------------------------------------------------
(* Steps that leave the table alone. *)

\* A process that reads, or changes its own state only, disturbs no other one.
LEMMA LocalStep ==
  ASSUME LedgerInv, AuditInv, ReadersTyped', UNCHANGED <<chain, cps, files, powerLost>>,
         NEW p \in Procs, Real(p)',
         \A q \in Procs \ {p} : /\ op'[q] = op[q] /\ snap'[q] = snap[q] /\ blob'[q] = blob[q]
                                /\ outcome'[q] = outcome[q] /\ overtaken'[q] = overtaken[q],
         op'[p] \in {"checkpoint", "audit"} => snap'[p] = chain /\ chain # <<>>,
         op'[p] \in {"append", "insert"} => op[p] \in {"append", "insert"} /\ blob'[p] = blob[p]
  PROVE  AuditInv'
<1>1. PICK S : chain \in Seq(S)
  BY DEF LedgerInv, ChainIsSeq
<1>2. Len(chain) \in Nat /\ SubSeq(chain, 1, Len(chain)) = chain
      /\ (chain # <<>> => Len(chain) \in 1..Len(chain))
  BY <1>1
<1>3. ReadersPrefix'
  <2> SUFFICES ASSUME NEW q \in Procs, op'[q] \in {"checkpoint", "audit"}
               PROVE  \E n \in 1..Len(chain) : snap'[q] = SubSeq(chain, 1, n)
    BY DEF ReadersPrefix
  <2>1. CASE q = p
    BY <1>2, <2>1
  <2>2. CASE q # p
    BY <2>2 DEF AuditInv, ReadersPrefix
  <2>3. QED
    BY <2>1, <2>2
<1>4. CheckpointsHold'
  BY DEF AuditInv, CheckpointsHold
<1>5. NotOvertaken'
  <2> SUFFICES ASSUME NEW q \in Procs, op'[q] = "audit", ~overtaken'[q], NEW c \in cps
               PROVE  c.count <= Len(snap'[q])
    BY DEF NotOvertaken
  <2>1. CASE q = p
    BY <1>2, <2>1 DEF AuditInv, CheckpointsHold
  <2>2. CASE q # p
    BY <2>2 DEF AuditInv, NotOvertaken
  <2>3. QED
    BY <2>1, <2>2
<1>6. BlobsKept'
  BY DEF AuditInv, BlobsKept
<1>7. AuditAlarmsAreReal'
  BY DEF AuditInv, AuditAlarmsAreReal, Real
<1>8. QED
  BY <1>3, <1>4, <1>5, <1>6, <1>7 DEF AuditInv

\* The actions of this kind.
LEMMA LocalSteps ==
  ASSUME LedgerInv, AuditInv, NEW p \in Procs,
         \/ Open(p) \/ (InitGenesis(p) /\ UNCHANGED chain) \/ ReadLatest(p) \/ InsertFailed(p)
         \/ CheckpointRead(p) \/ AuditRead(p) \/ Kill(p)
  PROVE  AuditInv'
<1>1. OpsTyped /\ ReadersTyped /\ Real(p)
  BY DEF LedgerInv, AuditInv, AuditAlarmsAreReal, Real
<1>2. CASE Open(p) \/ (InitGenesis(p) /\ UNCHANGED chain)
  <2>1. /\ UNCHANGED <<chain, cps, files, powerLost, snap, blob, outcome, overtaken>>
        /\ op'[p] \in {"genesis", "ready", "closed"} /\ \A q \in Procs \ {p} : op'[q] = op[q]
    BY <1>1, <1>2 DEF Open, InitGenesis, Goto, dbVars, histVars, OpsTyped
  <2>2. QED
    BY <1>1, <2>1, LocalStep DEF ReadersTyped, Real
<1>3. CASE ReadLatest(p)
  <2>1. /\ UNCHANGED <<chain, cps, files, powerLost, snap, blob, outcome, overtaken>>
        /\ op[p] = "append" /\ op'[p] = "insert" /\ \A q \in Procs \ {p} : op'[q] = op[q]
    BY <1>1, <1>3 DEF ReadLatest, Goto, dbVars, histVars, OpsTyped
  <2>2. QED
    BY <1>1, <2>1, LocalStep DEF ReadersTyped, Real
<1>4. CASE InsertFailed(p)
  <2>1. /\ UNCHANGED <<chain, cps, files, powerLost, snap, outcome, overtaken>>
        /\ op'[p] = "ready" /\ blob' = [blob EXCEPT ![p] = NoBlob]
        /\ \A q \in Procs \ {p} : op'[q] = op[q]
    BY <1>1, <1>4 DEF InsertFailed, Goto, Forget, dbVars, histVars, OpsTyped
  <2>2. QED
    BY <1>1, <2>1, LocalStep DEF ReadersTyped, Real
<1>5. CASE CheckpointRead(p) \/ AuditRead(p)
  <2>1. /\ UNCHANGED <<chain, cps, files, powerLost, blob>>
        /\ op'[p] \in {"checkpoint", "audit"} /\ snap' = [snap EXCEPT ![p] = chain]
        /\ chain # <<>>
        /\ outcome' = [outcome EXCEPT ![p] = "none"]
        /\ overtaken' = [overtaken EXCEPT ![p] = FALSE]
        /\ \A q \in Procs \ {p} : op'[q] = op[q]
    BY <1>1, <1>5 DEF CheckpointRead, AuditRead, Goto, NoOutcome, dbVars, OpsTyped
  <2>2. QED
    BY <1>1, <2>1, LocalStep DEF ReadersTyped, Real
<1>6. CASE Kill(p)
  <2>1. /\ UNCHANGED <<chain, cps, files, powerLost>>
        /\ op'[p] = "closed" /\ snap' = [snap EXCEPT ![p] = <<>>]
        /\ blob' = [blob EXCEPT ![p] = NoBlob]
        /\ outcome' = [outcome EXCEPT ![p] = "none"]
        /\ overtaken' = [overtaken EXCEPT ![p] = FALSE]
        /\ \A q \in Procs \ {p} : op'[q] = op[q]
    BY <1>1, <1>6 DEF Kill, Forget, NoOutcome, dbVars, OpsTyped
  <2>2. QED
    BY <1>1, <2>1, LocalStep DEF ReadersTyped, Real
<1>7. QED
  BY <1>2, <1>3, <1>4, <1>5, <1>6

\* PutBlob writes a missing blob and leaves a present one, before the append reads the table.
LEMMA PutBlobStep ==
  ASSUME LedgerInv, AuditInv, NEW p \in Procs, NEW b, PutBlob(p, b)
  PROVE  AuditInv'
<1>1. OpsTyped /\ ReadersTyped
  BY DEF LedgerInv, AuditInv
<1>2. /\ UNCHANGED <<chain, cps, powerLost, snap>>
      /\ op'[p] = "append" /\ blob' = [blob EXCEPT ![p] = b]
      /\ outcome' = [outcome EXCEPT ![p] = "none"]
      /\ overtaken' = [overtaken EXCEPT ![p] = FALSE]
      /\ files' = IF b \in Blobs /\ files[b] = "absent" THEN [files EXCEPT ![b] = "ok"] ELSE files
      /\ \A q \in Procs \ {p} : op'[q] = op[q]
  BY <1>1 DEF PutBlob, Goto, NoOutcome, OpsTyped
<1>3. ReadersTyped'
  BY <1>1, <1>2 DEF ReadersTyped
<1>4. ReadersPrefix' /\ CheckpointsHold' /\ NotOvertaken'
  BY <1>1, <1>2 DEF AuditInv, ReadersPrefix, CheckpointsHold, NotOvertaken, ReadersTyped
<1>5. AuditAlarmsAreReal'
  BY <1>1, <1>2 DEF AuditInv, AuditAlarmsAreReal, ReadersTyped
<1>6. BlobsKept'
  <2> SUFFICES ASSUME ~powerLost PROVE BlobsKept'
    BY <1>2 DEF BlobsKept
  <2>1. /\ \A x \in Blobs : files[x] \in {"absent", "ok"}
        /\ \A i \in 1..Len(chain) : chain[i].blob \in Blobs => files[chain[i].blob] = "ok"
        /\ \A q \in Procs : op[q] \in {"append", "insert"} /\ blob[q] \in Blobs =>
             files[blob[q]] = "ok"
    BY DEF AuditInv, BlobsKept
  <2>2. /\ \A x \in Blobs : files'[x] \in {"absent", "ok"} /\ (files[x] = "ok" => files'[x] = "ok")
        /\ b \in Blobs => files'[b] = "ok"
    BY <1>1, <1>2, <2>1 DEF ReadersTyped
  <2>3. \A q \in Procs : op'[q] \in {"append", "insert"} /\ blob'[q] \in Blobs =>
          files'[blob'[q]] = "ok"
    BY <1>1, <1>2, <2>1, <2>2 DEF ReadersTyped
  <2>4. QED
    BY <1>2, <2>1, <2>2, <2>3 DEF BlobsKept
<1>7. QED
  BY <1>3, <1>4, <1>5, <1>6 DEF AuditInv

-----------------------------------------------------------------------------
(* Steps on the table and the checkpoints. *)

\* A row at the end changes no prefix that was read or covered.
LEMMA RowAdded ==
  ASSUME LedgerInv, AuditInv, NEW p \in Procs, NEW b, chain' = Append(chain, b),
         UNCHANGED <<cps, files, powerLost, snap, outcome, overtaken>>,
         op'[p] = "ready", \A q \in Procs \ {p} : op'[q] = op[q] /\ blob'[q] = blob[q],
         DOMAIN blob' = Procs,
         b.blob \in Blobs => powerLost \/ files[b.blob] = "ok"
  PROVE  AuditInv'
<1>1. PICK S : chain \in Seq(S)
  BY DEF LedgerInv, ChainIsSeq
<1>2. /\ Len(chain) \in Nat /\ Len(chain') = Len(chain) + 1
      /\ \A i \in 1..Len(chain) : chain'[i] = chain[i]
      /\ chain'[Len(chain) + 1] = b
  BY ChainAppend DEF LedgerInv
<1>3. \A n \in 1..Len(chain) : n \in 1..Len(chain') /\ SubSeq(chain', 1, n) = SubSeq(chain, 1, n)
  BY <1>1, <1>2, PrefixOfAppend
<1>4. ReadersTyped'
  BY DEF AuditInv, ReadersTyped
<1>5. ReadersPrefix'
  BY <1>3 DEF AuditInv, ReadersPrefix
<1>6. CheckpointsHold'
  <2> SUFFICES ASSUME NEW c \in cps
               PROVE  /\ c.count \in 1..Len(chain') /\ c.upto = c.count - 1
                      /\ c.at \in c.count..Len(chain')
                      /\ c.root = compute_merkle_root(LeafHashes(SubSeq(chain', 1, c.count)))
    BY DEF CheckpointsHold
  <2>1. /\ c.count \in 1..Len(chain) /\ c.upto = c.count - 1
        /\ c.at \in c.count..Len(chain)
        /\ c.root = compute_merkle_root(LeafHashes(SubSeq(chain, 1, c.count)))
    BY DEF AuditInv, CheckpointsHold
  <2>2. c.root = compute_merkle_root(LeafHashes(SubSeq(chain', 1, c.count)))
    BY <1>3, <2>1
  <2>3. c.count \in 1..Len(chain') /\ c.at \in c.count..Len(chain')
    BY <1>2, <2>1
  <2>4. QED
    BY <2>1, <2>2, <2>3
<1>7. NotOvertaken' /\ AuditAlarmsAreReal'
  BY DEF AuditInv, NotOvertaken, AuditAlarmsAreReal
<1>8. BlobsKept'
  <2>1. \A i \in 1..Len(chain') : i \in 1..Len(chain) \/ i = Len(chain) + 1
    BY <1>2
  <2>2. QED
    BY <1>2, <2>1 DEF AuditInv, BlobsKept
<1>9. QED
  BY <1>4, <1>5, <1>6, <1>7, <1>8 DEF AuditInv

\* The two actions that add a row: the genesis and an append's insert.
LEMMA RowSteps ==
  ASSUME LedgerInv, AuditInv, NEW p \in Procs,
         (InitGenesis(p) /\ ~Taken(0)) \/ InsertBlock(p)
  PROVE  AuditInv'
<1>1. OpsTyped /\ ReadersTyped
  BY DEF LedgerInv, AuditInv
<1>2. CASE InitGenesis(p) /\ ~Taken(0)
  <2>1. /\ chain' = Append(chain, Genesis(p))
        /\ UNCHANGED <<cps, files, powerLost, snap, outcome, overtaken, blob>>
        /\ op'[p] = "ready" /\ \A q \in Procs \ {p} : op'[q] = op[q]
    BY <1>1, <1>2 DEF InitGenesis, Goto, histVars, OpsTyped
  <2>2. Genesis(p).blob \notin Blobs
    BY LedgerAssumption DEF Genesis, LedgerBlock
  <2>3. QED
    BY <1>1, <2>1, <2>2, RowAdded DEF ReadersTyped
<1>3. CASE InsertBlock(p)
  <2>1. /\ chain' = Append(chain, NewBlock(p)) /\ op[p] = "insert"
        /\ UNCHANGED <<cps, files, powerLost, snap, outcome, overtaken>>
        /\ op'[p] = "ready" /\ blob' = [blob EXCEPT ![p] = NoBlob]
        /\ \A q \in Procs \ {p} : op'[q] = op[q]
    BY <1>1, <1>3 DEF InsertBlock, Goto, Forget, OpsTyped
  <2>2. NewBlock(p).blob = blob[p]
    BY DEF NewBlock, LedgerBlock
  <2>3. blob[p] \in Blobs => powerLost \/ files[blob[p]] = "ok"
    BY <2>1 DEF AuditInv, BlobsKept
  <2>4. QED
    BY <1>1, <2>1, <2>2, <2>3, RowAdded DEF ReadersTyped
<1>4. QED
  BY <1>2, <1>3

\* The new checkpoint covers the prefix that was read; the audits under way are overtaken.
LEMMA CheckpointStoreStep ==
  ASSUME LedgerInv, AuditInv, NEW p \in Procs, NEW signed, CheckpointStore(p, signed)
  PROVE  AuditInv'
<1>1. OpsTyped /\ ReadersTyped
  BY DEF LedgerInv, AuditInv
<1> DEFINE cp == MerkleCheckpoint(snap[p], signed)
<1>2. /\ UNCHANGED <<chain, files, blob, outcome, powerLost>>
      /\ op[p] = "checkpoint" /\ op'[p] = "ready" /\ \A q \in Procs \ {p} : op'[q] = op[q]
      /\ cps' \subseteq cps \cup {cp}
      /\ snap' = [snap EXCEPT ![p] = <<>>]
      /\ overtaken' = [q \in Procs |-> overtaken[q] \/ op[q] = "audit"]
  BY <1>1 DEF CheckpointStore, Goto, OpsTyped
<1>3. PICK S : chain \in Seq(S)
  BY DEF LedgerInv, ChainIsSeq
<1>4. PICK n \in 1..Len(chain) : snap[p] = SubSeq(chain, 1, n)
  BY <1>2 DEF AuditInv, ReadersPrefix
<1>5. Len(snap[p]) = n /\ snap[p][n] = chain[n] /\ n \in Nat /\ Len(chain) \in Nat
  BY <1>3, <1>4, Prefixes
<1>6. chain[n].seq = n - 1
  <2>1. chain # <<>> /\ LinksHold(chain)
    BY <1>2 DEF LedgerInv, PastOpen, OneChain
  <2>2. QED
    BY <2>1, SequenceIsIndex DEF LedgerInv
<1>7. /\ cp.count = n /\ cp.upto = n - 1 /\ cp.at = Len(chain)
      /\ cp.root = compute_merkle_root(LeafHashes(SubSeq(chain, 1, n)))
  BY <1>4, <1>5, <1>6 DEF MerkleCheckpoint
<1> HIDE DEF cp
<1>8. CheckpointsHold'
  <2>1. /\ cp.count \in 1..Len(chain) /\ cp.upto = cp.count - 1
        /\ cp.at \in cp.count..Len(chain)
        /\ cp.root = compute_merkle_root(LeafHashes(SubSeq(chain, 1, cp.count)))
    BY <1>5, <1>7
  <2>2. QED
    BY <1>2, <2>1 DEF AuditInv, CheckpointsHold
<1>9. ReadersTyped' /\ ReadersPrefix' /\ BlobsKept'
  BY <1>1, <1>2 DEF AuditInv, ReadersTyped, ReadersPrefix, BlobsKept
<1>10. NotOvertaken'
  BY <1>1, <1>2 DEF NotOvertaken
<1>11. AuditAlarmsAreReal'
  BY <1>1, <1>2 DEF AuditInv, AuditAlarmsAreReal
<1>12. QED
  BY <1>8, <1>9, <1>10, <1>11 DEF AuditInv

\* A power failure takes the readers, and with the rows the checkpoints that cover them.
LEMMA PowerFailStep ==
  ASSUME LedgerInv, AuditInv, PowerFail
  PROVE  AuditInv'
<1>1. PICK k \in 0..Len(chain) :
        /\ chain' = SubSeq(chain, 1, k)
        /\ \E kept \in SUBSET {c \in cps : c.at = k} : cps' = {c \in cps : c.at < k} \union kept
  BY DEF PowerFail
<1>2. PICK S : chain \in Seq(S)
  BY DEF LedgerInv, ChainIsSeq
<1>3. /\ Len(chain') = k /\ k \in Nat
      /\ \A m \in 1..k : SubSeq(chain', 1, m) = SubSeq(chain, 1, m)
  BY <1>1, <1>2, Prefixes
<1>4. /\ op' = [p \in Procs |-> "closed"] /\ snap' = [p \in Procs |-> <<>>]
      /\ blob' = [p \in Procs |-> NoBlob] /\ outcome' = [p \in Procs |-> "none"]
      /\ overtaken' = [p \in Procs |-> FALSE] /\ powerLost' = TRUE
      /\ DOMAIN files' = Blobs
  BY DEF PowerFail
<1>5. CheckpointsHold'
  <2> SUFFICES ASSUME NEW c \in cps'
               PROVE  /\ c.count \in 1..Len(chain') /\ c.upto = c.count - 1
                      /\ c.at \in c.count..Len(chain')
                      /\ c.root = compute_merkle_root(LeafHashes(SubSeq(chain', 1, c.count)))
    BY DEF CheckpointsHold
  <2>1. c \in cps /\ (c.at = k \/ c.at < k)
    BY <1>1
  <2>2. /\ c.count \in 1..Len(chain) /\ c.upto = c.count - 1
        /\ c.at \in c.count..Len(chain)
        /\ c.root = compute_merkle_root(LeafHashes(SubSeq(chain, 1, c.count)))
    BY <2>1 DEF AuditInv, CheckpointsHold
  <2>3. c.count \in 1..k /\ c.at \in c.count..k
    BY <1>2, <1>3, <2>1, <2>2
  <2>4. QED
    BY <1>3, <2>2, <2>3
<1>6. ReadersTyped' /\ ReadersPrefix' /\ NotOvertaken' /\ BlobsKept' /\ AuditAlarmsAreReal'
  BY <1>4 DEF ReadersTyped, ReadersPrefix, NotOvertaken, BlobsKept, AuditAlarmsAreReal
<1>7. QED
  BY <1>5, <1>6 DEF AuditInv

-----------------------------------------------------------------------------
(* The audit. *)

\* The order of the naturals as a relation, for the library's minimum.
Below == {pair \in Nat \X Nat : pair[1] < pair[2]}

\* The naturals have no infinite descent.
LEMMA BelowIsWellFounded == IsWellFoundedOn(Below, Nat)
  BY NatLessThanWellFounded DEF OpToRel, Below

\* Among checkpoints there is a latest one.
LEMMA LatestCheckpointExists ==
  ASSUME LedgerInv, AuditInv, cps # {}
  PROVE  \E cp \in cps : IsLatestCheckpoint(cp)
<1>1. Len(chain) \in Nat
  BY DEF LedgerInv, ChainIsSeq
<1>2. \A c \in cps : c.upto \in Nat /\ c.upto <= Len(chain) /\ Len(chain) - c.upto \in Nat
  BY <1>1 DEF AuditInv, CheckpointsHold
<1> DEFINE T == {Len(chain) - c.upto : c \in cps}
<1>3. T \subseteq Nat /\ T # {} /\ IsWellFoundedOn(Below, Nat)
  BY <1>2, BelowIsWellFounded
<1> HIDE DEF T
<1>4. PICK x \in T : \A y \in T : ~(<<y, x>> \in Below)
  BY <1>3, WFMin
<1>5. PICK cp \in cps : x = Len(chain) - cp.upto
  BY DEF T
<1>6. ASSUME NEW c \in cps PROVE c.upto <= cp.upto
  <2>1. Len(chain) - c.upto \in T
    BY DEF T
  <2>2. ~(Len(chain) - c.upto < x)
    BY <1>3, <1>4, <2>1 DEF Below
  <2>3. QED
    BY <1>1, <1>2, <1>5, <2>2
<1>7. QED
  BY <1>6 DEF IsLatestCheckpoint

\* The audit of a prefix of the table that was written through this interface.
LEMMA VerdictIsReal ==
  ASSUME LedgerInv, AuditInv, NEW p \in Procs, op[p] = "audit", NEW cp, IsLatestCheckpoint(cp),
         NEW keyGiven
  PROVE  \/ CheckpointVerdict(snap[p], cp, keyGiven) \in {"ok", "signature"}
         \/ CheckpointVerdict(snap[p], cp, keyGiven) = "ahead" /\ overtaken[p]
<1>1. PICK S : chain \in Seq(S)
  BY DEF LedgerInv, ChainIsSeq
<1>2. PICK n \in 1..Len(chain) : snap[p] = SubSeq(chain, 1, n)
  BY DEF AuditInv, ReadersPrefix
<1>3. /\ Len(snap[p]) = n /\ snap[p][n] = chain[n] /\ n \in Nat /\ Len(chain) \in Nat
      /\ \A m \in 1..n : SubSeq(snap[p], 1, m) = SubSeq(chain, 1, m)
  BY <1>1, <1>2, Prefixes
<1>4. chain[n].seq = n - 1
  <2>1. chain # <<>> /\ LinksHold(chain)
    BY DEF LedgerInv, PastOpen, OneChain
  <2>2. QED
    BY <2>1, SequenceIsIndex DEF LedgerInv
<1>5. /\ cp \in cps /\ cp.count \in 1..Len(chain) /\ cp.upto = cp.count - 1
      /\ cp.root = compute_merkle_root(LeafHashes(SubSeq(chain, 1, cp.count)))
  BY DEF IsLatestCheckpoint, AuditInv, CheckpointsHold
<1>6. cp.upto > n - 1 => overtaken[p]
  BY <1>3, <1>5 DEF AuditInv, NotOvertaken
<1>7. CASE cp.upto > n - 1
  BY <1>3, <1>4, <1>6, <1>7 DEF CheckpointVerdict
<1>8. CASE ~(cp.upto > n - 1)
  <2>1. cp.upto + 1 = cp.count /\ cp.count \in 1..n
    BY <1>3, <1>5, <1>8
  <2>2. cp.root = compute_merkle_root(LeafHashes(SubSeq(snap[p], 1, cp.upto + 1)))
    BY <1>3, <1>5, <2>1
  <2>3. QED
    BY <1>3, <1>4, <1>8, <2>1, <2>2 DEF CheckpointVerdict
<1>9. QED
  BY <1>7, <1>8

\* The audit's verdict: links, blobs, then the checkpoint that is the latest by now.
LEMMA AuditDecideStep ==
  ASSUME LedgerInv, AuditInv, NEW p \in Procs, NEW keyGiven, AuditDecide(p, keyGiven)
  PROVE  AuditInv'
<1>1. OpsTyped /\ ReadersTyped
  BY DEF LedgerInv, AuditInv
<1> DEFINE latest == CHOOSE cp \in cps : IsLatestCheckpoint(cp)
           bad == \E i \in 2..Len(snap[p]) : /\ snap[p][i].blob \in Blobs
                                             /\ files[snap[p][i].blob] # "ok"
           verdict == IF ~LinksHold(snap[p]) THEN "links" ELSE IF bad THEN "blob"
                      ELSE IF cps = {} THEN "ok" ELSE CheckpointVerdict(snap[p], latest, keyGiven)
<1>2. /\ UNCHANGED <<chain, cps, files, powerLost, blob, overtaken>>
      /\ op[p] = "audit" /\ op'[p] = "ready" /\ \A q \in Procs \ {p} : op'[q] = op[q]
      /\ snap' = [snap EXCEPT ![p] = <<>>]
      /\ outcome' = [outcome EXCEPT ![p] = verdict]
  BY <1>1 DEF AuditDecide, Goto, OpsTyped, dbVars, histVars
<1>3. PICK S : chain \in Seq(S)
  BY DEF LedgerInv, ChainIsSeq
<1>4. PICK n \in 1..Len(chain) : snap[p] = SubSeq(chain, 1, n)
  BY <1>2 DEF AuditInv, ReadersPrefix
<1>5. /\ Len(snap[p]) = n /\ n \in Nat /\ Len(chain) \in Nat
      /\ \A i \in 1..n : snap[p][i] = chain[i]
  BY <1>3, <1>4, Prefixes
<1>6. LinksHold(snap[p])
  <2>1. LinksHold(chain)
    BY <1>2 DEF LedgerInv, PastOpen, OneChain
  <2>2. snap[p][1].seq = 0 /\ snap[p][1].prev = NoHash
    BY <1>5, <2>1 DEF LinksHold
  <2>3. ASSUME NEW i \in 2..Len(snap[p])
        PROVE  snap[p][i].seq = i - 1 /\ snap[p][i].prev = compute_block_hash(snap[p][i - 1])
    <3>1. i \in 2..Len(chain) /\ i \in 1..n /\ i - 1 \in 1..n
      BY <1>5
    <3>2. snap[p][i] = chain[i] /\ snap[p][i - 1] = chain[i - 1]
      BY <1>5, <3>1
    <3>3. QED
      BY <2>1, <3>1, <3>2 DEF LinksHold
  <2>4. QED
    BY <2>2, <2>3 DEF LinksHold
<1>7. bad => powerLost
  BY <1>5 DEF AuditInv, BlobsKept
<1>8. cps # {} => IsLatestCheckpoint(latest)
  BY LatestCheckpointExists
<1> HIDE DEF latest, bad
<1>9. \/ verdict \in {"ok", "signature"}
      \/ verdict = "blob" /\ powerLost
      \/ verdict = "ahead" /\ overtaken[p]
  <2>1. CASE bad
    BY <1>6, <1>7, <2>1
  <2>2. CASE ~bad /\ cps = {}
    BY <1>6, <2>2
  <2>3. CASE ~bad /\ cps # {}
    <3>1. verdict = CheckpointVerdict(snap[p], latest, keyGiven)
      BY <1>6, <2>3
    <3>2. QED
      BY <1>2, <1>8, <2>3, <3>1, VerdictIsReal
  <2>4. QED
    BY <2>1, <2>2, <2>3
<1> HIDE DEF verdict
<1>10. ReadersTyped' /\ Real(p)'
  BY <1>1, <1>2, <1>9 DEF ReadersTyped, Real
<1>11. QED
  BY <1>1, <1>2, <1>10, LocalStep DEF ReadersTyped

\* Every step of the ledger keeps AuditInv.
LEMMA AuditInvStep == LedgerInv /\ AuditInv /\ [LedgerNext]_ledgerVars => AuditInv'
<1> SUFFICES ASSUME LedgerInv, AuditInv, [LedgerNext]_ledgerVars PROVE AuditInv'
  OBVIOUS
<1>1. ASSUME NEW p \in Procs, InitGenesis(p) PROVE AuditInv'
  BY <1>1, LocalSteps, RowSteps DEF InitGenesis
<1>2. CASE UNCHANGED ledgerVars
  BY <1>2 DEF ledgerVars, dbVars, procVars, histVars, AuditInv, ReadersTyped, ReadersPrefix,
    CheckpointsHold, NotOvertaken, BlobsKept, AuditAlarmsAreReal
<1>3. QED
  BY <1>1, <1>2, LocalSteps, PutBlobStep, RowSteps, CheckpointStoreStep, AuditDecideStep,
    PowerFailStep DEF LedgerNext

\* verify_chain_integrity reports no broken link and no wrong Merkle root for a ledger
\* written through this interface, however many processes append, checkpoint, audit and
\* die meanwhile: it fails for a blob only after a power failure, for a checkpoint beyond
\* the table only when one was stored while it ran, or for a missing signature.
THEOREM AuditsAreReal == LedgerSpec => []AuditAlarmsAreReal
<1>1. LedgerInit => AuditInv
  <2> SUFFICES ASSUME LedgerInit PROVE AuditInv
    OBVIOUS
  <2>1. /\ \A p \in Procs : op[p] = "closed" /\ outcome[p] = "none"
        /\ cps = {} /\ 1..Len(chain) = {} /\ \A b \in Blobs : files[b] = "absent"
    BY DEF LedgerInit
  <2>2. ReadersTyped
    BY DEF LedgerInit, ReadersTyped
  <2>3. ReadersPrefix /\ CheckpointsHold /\ NotOvertaken /\ BlobsKept /\ AuditAlarmsAreReal
    BY <2>1 DEF ReadersPrefix, CheckpointsHold, NotOvertaken, BlobsKept, AuditAlarmsAreReal
  <2>4. QED
    BY <2>2, <2>3 DEF AuditInv
<1>2. AuditInv => AuditAlarmsAreReal
  BY DEF AuditInv
<1>3. QED
  BY <1>1, <1>2, AuditInvStep, LedgerInvariant, PTL DEF LedgerSpec

-----------------------------------------------------------------------------
(* Merkle roots. The last node of every level is a pair whose second part is  *)
(* the last node of the level below: a root leads down to its last leaf.      *)

\* Induction over the naturals, for a set.
LEMMA SetInduction ==
  ASSUME NEW S, 0 \in S, \A n \in Nat : n \in S => n + 1 \in S
  PROVE  Nat \subseteq S
<1> DEFINE T == Nat \ S
<1> SUFFICES ASSUME T # {} PROVE FALSE
  OBVIOUS
<1>1. T \subseteq Nat /\ IsWellFoundedOn(Below, Nat)
  BY BelowIsWellFounded
<1> HIDE DEF T
<1>2. PICK x \in T : \A y \in T : ~(<<y, x>> \in Below)
  BY <1>1, WFMin
<1>3. x \in Nat /\ x # 0 /\ x \notin S
  BY DEF T
<1>4. x - 1 \in Nat /\ <<x - 1, x>> \in Below
  BY <1>3 DEF Below
<1>5. x - 1 \in S
  BY <1>2, <1>4 DEF T
<1>6. (x - 1) + 1 \in S /\ (x - 1) + 1 = x
  BY <1>3, <1>4, <1>5
<1>7. QED
  BY <1>3, <1>6

\* What compute_merkle_root's loop makes of a level.
Above(s) == IF Len(s) > 1 THEN NextLevel(s) ELSE s

\* The levels as a function, and the equations that define it.
IsLevels(leaves, lv) ==
  lv = [n \in 0..Len(leaves) |->
          IF n = 0 THEN leaves
          ELSE IF Len(lv[n - 1]) > 1 THEN NextLevel(lv[n - 1]) ELSE lv[n - 1]]

\* The first n levels above the leaves.
LevelsTo(lv, leaves, n) == lv[0] = leaves /\ \A k \in 1..n : lv[k] = Above(lv[k - 1])

\* Levels can be computed as far as one likes.
LEMMA LevelsUpto ==
  ASSUME NEW leaves, NEW n \in Nat
  PROVE  \E lv : LevelsTo(lv, leaves, n)
<1> DEFINE S == {m \in Nat : \E lv : LevelsTo(lv, leaves, m)}
<1>1. 0 \in S
  <2>1. [k \in 0..0 |-> leaves][0] = leaves /\ 1..0 = {}
    OBVIOUS
  <2>2. LevelsTo([k \in 0..0 |-> leaves], leaves, 0)
    BY <2>1 DEF LevelsTo
  <2>3. QED
    BY <2>2
<1>2. ASSUME NEW m \in Nat, m \in S PROVE m + 1 \in S
  <2>1. PICK lv : LevelsTo(lv, leaves, m)
    BY <1>2
  <2> DEFINE nv == [k \in 0..(m + 1) |-> IF k = m + 1 THEN Above(lv[m]) ELSE lv[k]]
  <2>2. nv[m + 1] = Above(lv[m]) /\ \A k \in 0..m : nv[k] = lv[k]
    OBVIOUS
  <2> HIDE DEF nv
  <2>3. nv[0] = leaves
    BY <2>1, <2>2 DEF LevelsTo
  <2>4. ASSUME NEW k \in 1..(m + 1) PROVE nv[k] = Above(nv[k - 1])
    <3>1. CASE k = m + 1
      BY <2>2, <3>1
    <3>2. CASE k # m + 1
      <4>1. k \in 1..m /\ k \in 0..m /\ k - 1 \in 0..m
        BY <3>2
      <4>2. QED
        BY <2>1, <2>2, <4>1 DEF LevelsTo
    <3>3. QED
      BY <3>1, <3>2
  <2>5. LevelsTo(nv, leaves, m + 1)
    BY <2>3, <2>4 DEF LevelsTo
  <2>6. QED
    BY <2>5
<1>3. n \in S
  <2> HIDE DEF S
  <2>1. QED
    BY <1>1, <1>2, SetInduction
<1>4. QED
  BY <1>3

\* The root is the first node of the last level of levels that satisfy the equations.
LEMMA RootOfLevels ==
  ASSUME NEW leaves, Len(leaves) \in Nat
  PROVE  \E lv : /\ LevelsTo(lv, leaves, Len(leaves))
                 /\ compute_merkle_root(leaves) = lv[Len(leaves)][1]
<1>1. PICK f : LevelsTo(f, leaves, Len(leaves))
  BY LevelsUpto
<1> DEFINE g == [k \in 0..Len(leaves) |-> f[k]]
<1>2. IsLevels(leaves, g)
  <2>1. \A k \in 0..Len(leaves) : k # 0 => k \in 1..Len(leaves) /\ k - 1 \in 0..Len(leaves)
    OBVIOUS
  <2>2. \A k \in 0..Len(leaves) :
          g[k] = IF k = 0 THEN leaves ELSE Above(g[k - 1])
    BY <1>1, <2>1 DEF LevelsTo
  <2>3. QED
    BY <2>2, Zenon DEF IsLevels, Above
<1> DEFINE lv == CHOOSE x : IsLevels(leaves, x)
<1>3. IsLevels(leaves, lv)
  BY <1>2
<1>4. compute_merkle_root(leaves) = lv[Len(leaves)][1]
  BY Zenon DEF compute_merkle_root, IsLevels
<1> HIDE DEF lv
<1>5. LevelsTo(lv, leaves, Len(leaves))
  <2>1. 0 \in 0..Len(leaves) /\ \A k \in 1..Len(leaves) : k \in 0..Len(leaves) /\ k # 0
    OBVIOUS
  <2>2. QED
    BY <1>3, <2>1, Zenon DEF IsLevels, Above, LevelsTo
<1>6. QED
  BY <1>4, <1>5

\* A level above more than one node is shorter, and keeps the last node as the second part
\* of its own last one, whether the level below is even or odd.
LEMMA NextLevelLast ==
  ASSUME NEW s, Len(s) \in Nat, Len(s) > 1
  PROVE  /\ Len(NextLevel(s)) \in 1..(Len(s) - 1)
         /\ \E u : NextLevel(s)[Len(NextLevel(s))] = <<u, s[Len(s)]>>
<1> DEFINE k == (Len(s) + 1) \div 2
           t == NextLevel(s)
           T == {t[i] : i \in 1..k}
<1>1. k \in 1..(Len(s) - 1) /\ (2 * k = Len(s) \/ 2 * k - 1 = Len(s))
  OBVIOUS
<1>2. t = [i \in 1..k |-> <<s[2*i - 1], IF 2*i <= Len(s) THEN s[2*i] ELSE s[2*i - 1]>>]
  BY DEF NextLevel
<1> HIDE DEF k, t
<1>3. t \in [1..k -> T] /\ t[k] = <<s[2*k - 1], IF 2*k <= Len(s) THEN s[2*k] ELSE s[2*k - 1]>>
  BY <1>1, <1>2
<1> HIDE DEF T
<1>4. Len(t) = k
  BY <1>1, <1>3
<1>5. t[k] = <<s[2*k - 1], s[Len(s)]>>
  BY <1>1, <1>3
<1>6. QED
  BY <1>1, <1>4, <1>5 DEF t

\* Going up the levels of a non-empty ledger the last node stays or becomes the second part
\* of a pair, and Len(leaves) levels leave one node: the root is a last node.
LEMMA RootIsLastNode ==
  ASSUME NEW leaves, Len(leaves) \in Nat, Len(leaves) > 0
  PROVE  \E a : /\ a[0] = leaves[Len(leaves)]
                /\ \A n \in 1..Len(leaves) : a[n] = a[n - 1] \/ \E u : a[n] = <<u, a[n - 1]>>
                /\ compute_merkle_root(leaves) = a[Len(leaves)]
<1> DEFINE N == Len(leaves)
<1>1. PICK lv : LevelsTo(lv, leaves, N) /\ compute_merkle_root(leaves) = lv[N][1]
  BY RootOfLevels
<1> USE DEF LevelsTo
<1> DEFINE a == [n \in 0..N |-> lv[n][Len(lv[n])]]
           Short(n) == /\ Len(lv[n]) \in Nat /\ Len(lv[n]) > 0
                       /\ Len(lv[n]) = 1 \/ Len(lv[n]) + n <= N
           S == {n \in Nat : n <= N => Short(n)}
<1>2. ASSUME NEW n \in Nat, n + 1 <= N, Short(n)
      PROVE  /\ Short(n + 1)
             /\ \/ lv[n + 1][Len(lv[n + 1])] = lv[n][Len(lv[n])]
                \/ \E u : lv[n + 1][Len(lv[n + 1])] = <<u, lv[n][Len(lv[n])]>>
  <2>1. n + 1 \in 1..N /\ (n + 1) - 1 = n
    BY <1>2
  <2>2. lv[n + 1] = Above(lv[n])
    BY <1>1, <2>1
  <2>3. CASE Len(lv[n]) > 1
    <3>1. lv[n + 1] = NextLevel(lv[n])
      BY <2>2, <2>3 DEF Above
    <3>2. /\ Len(lv[n + 1]) \in 1..(Len(lv[n]) - 1)
          /\ \E u : lv[n + 1][Len(lv[n + 1])] = <<u, lv[n][Len(lv[n])]>>
      BY <1>2, <2>3, <3>1, NextLevelLast
    <3>3. QED
      BY <1>2, <2>3, <3>2
  <2>4. CASE ~(Len(lv[n]) > 1)
    <3>1. lv[n + 1] = lv[n]
      BY <2>2, <2>4, Zenon DEF Above
    <3>2. Len(lv[n]) = 1
      <4>1. \A x \in Nat : x > 0 /\ ~(x > 1) => x = 1
        OBVIOUS
      <4>2. QED
        BY <1>2, <2>4, <4>1, Zenon
    <3>3. QED
      BY <3>1, <3>2
  <2>5. QED
    BY <2>3, <2>4
<1>3. \A n \in 0..N : Short(n)
  <2>1. 0 \in S
    BY <1>1
  <2>2. ASSUME NEW n \in Nat, n \in S PROVE n + 1 \in S
    <3>1. n + 1 <= N => n <= N
      OBVIOUS
    <3> HIDE DEF Short
    <3>2. QED
      BY <1>2, <2>2, <3>1
  <2>3. Nat \subseteq S
    <3> HIDE DEF S
    <3>1. QED
      BY <2>1, <2>2, SetInduction
  <2> HIDE DEF Short
  <2>4. QED
    BY <2>3
<1>4. a[0] = leaves[N]
  BY <1>1
<1>5. ASSUME NEW n \in 1..N PROVE a[n] = a[n - 1] \/ \E u : a[n] = <<u, a[n - 1]>>
  <2> DEFINE m == n - 1
  <2>1. m \in Nat /\ m + 1 = n /\ m + 1 <= N /\ m \in 0..N /\ n \in 0..N
    OBVIOUS
  <2> HIDE DEF m
  <2>2. \/ lv[n][Len(lv[n])] = lv[m][Len(lv[m])]
        \/ \E u : lv[n][Len(lv[n])] = <<u, lv[m][Len(lv[m])]>>
    <3> HIDE DEF Short
    <3>1. Short(m)
      BY <1>3, <2>1
    <3>2. QED
      BY <1>2, <2>1, <3>1
  <2>3. a[n] = lv[n][Len(lv[n])] /\ a[m] = lv[m][Len(lv[m])]
    BY <2>1
  <2>4. QED
    BY <2>2, <2>3 DEF m
<1>6. compute_merkle_root(leaves) = a[N]
  <2>1. N \in 0..N
    OBVIOUS
  <2>2. Short(N)
    BY <1>3, <2>1
  <2>3. Len(lv[N]) = 1
    BY <2>2
  <2>4. QED
    BY <1>1, <2>1, <2>3
<1>7. QED
  BY <1>4, <1>5, <1>6

\* Two such ascents that meet started from the same leaf: a leaf is no pair.
LEMMA SameLastLeaf ==
  ASSUME NEW a, NEW b, NEW i \in Nat, NEW j \in Nat,
         \A u, v : a[0] # <<u, v>> /\ b[0] # <<u, v>>,
         \A n \in 1..i : a[n] = a[n - 1] \/ \E u : a[n] = <<u, a[n - 1]>>,
         \A n \in 1..j : b[n] = b[n - 1] \/ \E u : b[n] = <<u, b[n - 1]>>,
         a[i] = b[j]
  PROVE  a[0] = b[0]
<1> DEFINE Meet(k) == \A n \in 0..i, m \in 0..j : n + m <= k /\ a[n] = b[m] => a[0] = b[0]
           S == {k \in Nat : Meet(k)}
<1>1. 0 \in S
  <2>1. \A n \in 0..i, m \in 0..j : n + m <= 0 => n = 0 /\ m = 0
    OBVIOUS
  <2>2. QED
    BY <2>1
<1>2. ASSUME NEW k \in Nat, Meet(k) PROVE Meet(k + 1)
  <2> SUFFICES ASSUME NEW n \in 0..i, NEW m \in 0..j, n + m <= k + 1, a[n] = b[m]
               PROVE  a[0] = b[0]
    OBVIOUS
  <2>1. /\ n # 0 => n \in 1..i /\ n - 1 \in 0..i /\ (n - 1) + m <= k
        /\ m # 0 => m \in 1..j /\ m - 1 \in 0..j /\ n + (m - 1) <= k
        /\ n # 0 /\ m # 0 => (n - 1) + (m - 1) <= k
    OBVIOUS
  <2>2. CASE n # 0 /\ a[n] = a[n - 1]
    BY <1>2, <2>1, <2>2
  <2>3. CASE m # 0 /\ b[m] = b[m - 1]
    BY <1>2, <2>1, <2>3
  <2>4. CASE n # 0 /\ m # 0 /\ a[n] # a[n - 1] /\ b[m] # b[m - 1]
    <3>1. PICK u, v : <<u, a[n - 1]>> = <<v, b[m - 1]>>
      BY <2>1, <2>4
    <3>2. a[n - 1] = b[m - 1]
      BY <3>1
    <3>3. QED
      BY <1>2, <2>1, <2>4, <3>2
  <2>5. CASE n = 0 /\ m # 0 /\ b[m] # b[m - 1]
    BY <2>1, <2>5
  <2>6. CASE m = 0 /\ n # 0 /\ a[n] # a[n - 1]
    BY <2>1, <2>6
  <2>7. QED
    BY <2>2, <2>3, <2>4, <2>5, <2>6
<1>3. i + j \in S
  <2>1. \A k \in Nat : k \in S => k + 1 \in S
    <3> HIDE DEF Meet
    <3>1. QED
      BY <1>2
  <2> HIDE DEF S
  <2>2. QED
    BY <1>1, <2>1, SetInduction
<1>4. QED
  BY <1>3

\* The Merkle root, which is all that a checkpoint's signature covers, tells a prefix of
\* the ledger from every other prefix, odd levels included.
THEOREM RootsTellPrefixes == LedgerSpec => []RootDeterminesPrefix
<1>1. LedgerInv => RootDeterminesPrefix
  <2> SUFFICES ASSUME LedgerInv, NEW i \in 1..Len(chain), NEW j \in 1..Len(chain),
                      compute_merkle_root(LeafHashes(SubSeq(chain, 1, i)))
                        = compute_merkle_root(LeafHashes(SubSeq(chain, 1, j)))
               PROVE  i = j
    BY DEF RootDeterminesPrefix
  <2>1. PICK S : chain \in Seq(S)
    BY DEF LedgerInv, ChainIsSeq
  <2> DEFINE hashes(n) == LeafHashes(SubSeq(chain, 1, n))
  <2>2. ASSUME NEW n \in 1..Len(chain)
        PROVE  Len(hashes(n)) = n /\ hashes(n)[n] = compute_block_hash(chain[n])
    <3> DEFINE s == SubSeq(chain, 1, n)
               H == {compute_block_hash(s[k]) : k \in 1..n}
    <3>1. Len(s) = n /\ s[n] = chain[n] /\ n \in Nat /\ n \in 1..n
      BY <2>1
    <3> HIDE DEF s
    <3>2. /\ LeafHashes(s) = [k \in 1..n |-> compute_block_hash(s[k])]
          /\ LeafHashes(s) \in [1..n -> H]
      BY <3>1 DEF LeafHashes
    <3> HIDE DEF H
    <3>3. Len(LeafHashes(s)) = n /\ LeafHashes(s)[n] = compute_block_hash(chain[n])
      BY <3>1, <3>2
    <3>4. QED
      BY <3>3 DEF s
  <2> HIDE DEF hashes
  <2>3. i \in Nat /\ i > 0 /\ j \in Nat /\ j > 0
    BY <2>1
  <2>4. PICK a : /\ a[0] = compute_block_hash(chain[i])
                 /\ \A n \in 1..i : a[n] = a[n - 1] \/ \E u : a[n] = <<u, a[n - 1]>>
                 /\ compute_merkle_root(hashes(i)) = a[i]
    BY <2>2, <2>3, RootIsLastNode
  <2>5. PICK b : /\ b[0] = compute_block_hash(chain[j])
                 /\ \A n \in 1..j : b[n] = b[n - 1] \/ \E u : b[n] = <<u, b[n - 1]>>
                 /\ compute_merkle_root(hashes(j)) = b[j]
    BY <2>2, <2>3, RootIsLastNode
  <2>6. \A u, v, x : compute_block_hash(x) # <<u, v>>
    BY DEF compute_block_hash
  <2>7. a[i] = b[j]
    BY <2>4, <2>5 DEF hashes
  <2>8. compute_block_hash(chain[i]) = compute_block_hash(chain[j])
    <3>1. \A u, v : a[0] # <<u, v>> /\ b[0] # <<u, v>>
      BY <2>4, <2>5, <2>6, Zenon
    <3>2. a[0] = b[0]
      BY <2>3, <2>4, <2>5, <2>7, <3>1, SameLastLeaf, Zenon
    <3>3. QED
      BY <2>4, <2>5, <3>2, Zenon
  <2>9. chain[i].seq = chain[j].seq
    BY <2>8 DEF compute_block_hash
  <2>10. chain[i].seq = i - 1 /\ chain[j].seq = j - 1
    <3>1. chain # <<>> /\ LinksHold(chain)
      BY <2>1 DEF LedgerInv, OneChain
    <3>2. QED
      BY <3>1, SequenceIsIndex DEF LedgerInv
  <2>11. i - 1 = j - 1
    BY <2>9, <2>10, Zenon
  <2>12. QED
    BY <2>3, <2>11
<1>2. QED
  BY <1>1, LedgerInvariant, PTL
=============================================================================
