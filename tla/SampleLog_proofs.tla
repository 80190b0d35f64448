-------------------------- MODULE SampleLog_proofs --------------------------
(***************************************************************************)
(* Proofs about the sample log, for any number of engines, cycles, kills   *)
(* and short writes: as long as no append that cuts a tail or writes in    *)
(* two parts meets another one, the log reads as exactly the finished      *)
(* records, and what a cycle takes as measured is what those records say.  *)
(***************************************************************************)
EXTENDS SampleLog, FiniteSetTheorems, SequenceTheorems, WellFoundedInduction, TLAPS

-----------------------------------------------------------------------------
(* Induction over the naturals, for a set. *)

\* The order of the naturals as a relation, for the library's minimum.
Below == {pair \in Nat \X Nat : pair[1] < pair[2]}

\* A set of naturals that is not empty has a least member.
LEMMA LeastExists ==
  ASSUME NEW T, T \subseteq Nat, T # {}
  PROVE  \E x \in T : \A y \in T : x <= y
<1>1. IsWellFoundedOn(Below, Nat)
  BY NatLessThanWellFounded DEF OpToRel, Below
<1>2. PICK x \in T : \A y \in T : ~(<<y, x>> \in Below)
  BY <1>1, WFMin
<1>3. ASSUME NEW y \in T PROVE x <= y
  <2>1. x \in Nat /\ y \in Nat /\ <<y, x>> \notin Below
    BY <1>2
  <2>2. ~(y < x)
    BY <2>1 DEF Below
  <2>3. QED
    BY <2>1, <2>2
<1>4. QED
  BY <1>3

LEMMA SetInduction ==
  ASSUME NEW S, 0 \in S, \A n \in Nat : n \in S => n + 1 \in S
  PROVE  Nat \subseteq S
<1> DEFINE T == Nat \ S
<1> SUFFICES ASSUME T # {} PROVE FALSE
  OBVIOUS
<1>1. PICK x \in T : \A y \in T : x <= y
  BY LeastExists
<1>2. x \in Nat /\ x # 0 /\ x \notin S
  OBVIOUS
<1>3. x - 1 \in S
  BY <1>1, <1>2
<1>4. (x - 1) + 1 \in S /\ (x - 1) + 1 = x
  BY <1>2, <1>3
<1>5. QED
  BY <1>2, <1>4

-----------------------------------------------------------------------------
(* Reading the file. *)

\* complete_len is the length up to the last newline, or zero.
LEMMA CompleteLen ==
  ASSUME NEW S, NEW f \in Seq(S)
  PROVE  /\ complete_len(f) \in 0..Len(f)
         /\ complete_len(f) # 0 => Ends(f[complete_len(f)])
         /\ \A i \in 1..Len(f) : i > complete_len(f) => ~Ends(f[i])
<1> DEFINE ends == {i \in DOMAIN f : Ends(f[i])}
<1>1. DOMAIN f = 1..Len(f) /\ Len(f) \in Nat
  OBVIOUS
<1>2. CASE ends = {}
  BY <1>1, <1>2 DEF complete_len
<1>3. CASE ends # {}
  <2> DEFINE T == {Len(f) - i : i \in ends}
  <2>1. T \subseteq Nat /\ T # {}
    BY <1>1, <1>3
  <2>2. PICK x \in T : \A y \in T : x <= y
    <3> HIDE DEF T
    <3>1. QED
      BY <2>1, LeastExists
  <2>3. PICK m \in ends : x = Len(f) - m
    OBVIOUS
  <2>4. \A j \in ends : j <= m
    <3> SUFFICES ASSUME NEW j \in ends PROVE j <= m
      OBVIOUS
    <3>1. Len(f) - j \in T
      OBVIOUS
    <3>2. Len(f) - m <= Len(f) - j
      BY <2>2, <2>3, <3>1
    <3>3. QED
      BY <1>1, <3>2
  <2>5. complete_len(f) = CHOOSE i \in ends : \A j \in ends : j <= i
    BY <1>3 DEF complete_len
  <2>6. complete_len(f) \in ends /\ \A j \in ends : j <= complete_len(f)
    <3> HIDE DEF ends
    <3>1. QED
      BY <2>4, <2>5
  <2>7. QED
    BY <1>1, <2>6
<1>4. QED
  BY <1>2, <1>3

\* The file is torn unless it is empty or its last piece ends a line.
LEMMA TornTail ==
  ASSUME NEW S, NEW f \in Seq(S)
  PROVE  ~Torn(f) <=> (f = <<>> \/ Ends(f[Len(f)]))
<1>1. /\ complete_len(f) \in 0..Len(f) /\ Len(f) \in Nat
      /\ complete_len(f) # 0 => Ends(f[complete_len(f)])
      /\ \A i \in 1..Len(f) : i > complete_len(f) => ~Ends(f[i])
  BY CompleteLen
<1>2. CASE f = <<>>
  BY <1>1, <1>2 DEF Torn
<1>3. CASE f # <<>>
  <2>1. Len(f) \in 1..Len(f) /\ Len(f) # 0
    BY <1>3
  <2>2. QED
    BY <1>1, <1>3, <2>1 DEF Torn
<1>4. QED
  BY <1>2, <1>3

\* What the definition of RecordsOf describes, for functions on 0..n.
RecordsTo(recs, f, n) ==
  /\ recs[0] = <<>>
  /\ \A i \in 1..n : recs[i] = IF Ends(f[i]) THEN Append(recs[i - 1], f[i].rec)
                              ELSE recs[i - 1]

\* Such functions exist.
LEMMA RecordsUpto ==
  ASSUME NEW f, NEW n \in Nat
  PROVE  \E recs : RecordsTo(recs, f, n)
<1> DEFINE S == {m \in Nat : \E recs : RecordsTo(recs, f, m)}
           Put(r, i) == IF Ends(f[i]) THEN Append(r, f[i].rec) ELSE r
<1>1. 0 \in S
  <2>1. [k \in 0..0 |-> <<>>][0] = <<>> /\ 1..0 = {}
    OBVIOUS
  <2>2. RecordsTo([k \in 0..0 |-> <<>>], f, 0)
    BY <2>1 DEF RecordsTo
  <2>3. QED
    BY <2>2
<1>2. ASSUME NEW m \in Nat, m \in S PROVE m + 1 \in S
  <2>1. PICK recs : RecordsTo(recs, f, m)
    BY <1>2
  <2>2. recs[0] = <<>> /\ \A i \in 1..m : recs[i] = Put(recs[i - 1], i)
    BY <2>1, Zenon DEF RecordsTo
  <2> HIDE DEF Put
  <2> DEFINE next == [k \in 0..(m + 1) |-> IF k = m + 1 THEN Put(recs[m], m + 1) ELSE recs[k]]
  <2>3. next[m + 1] = Put(recs[m], m + 1) /\ \A k \in 0..m : next[k] = recs[k]
    OBVIOUS
  <2> HIDE DEF next
  <2>4. next[0] = <<>>
    BY <2>2, <2>3
  <2>5. ASSUME NEW i \in 1..(m + 1) PROVE next[i] = Put(next[i - 1], i)
    <3>1. CASE i = m + 1
      BY <2>3, <3>1
    <3>2. CASE i # m + 1
      <4>1. i \in 1..m /\ i \in 0..m /\ i - 1 \in 0..m
        BY <3>2
      <4>2. QED
        BY <2>2, <2>3, <4>1
    <3>3. QED
      BY <3>1, <3>2
  <2>6. RecordsTo(next, f, m + 1)
    BY <2>4, <2>5, Zenon DEF RecordsTo, Put
  <2>7. QED
    BY <2>6
<1>3. n \in S
  <2> HIDE DEF S
  <2>1. QED
    BY <1>1, <1>2, SetInduction
<1>4. QED
  BY <1>3

\* So RecordsOf does what its definition says.
LEMMA RecordsSteps ==
  ASSUME NEW f, Len(f) \in Nat
  PROVE  RecordsTo(RecordsOf(f), f, Len(f))
<1> DEFINE Is(recs) ==
      recs = [i \in 0..Len(f) |->
                IF i = 0 THEN <<>>
                ELSE IF Ends(f[i]) THEN Append(recs[i - 1], f[i].rec) ELSE recs[i - 1]]
<1>1. PICK g : RecordsTo(g, f, Len(f))
  BY RecordsUpto
<1> DEFINE h == [i \in 0..Len(f) |-> g[i]]
<1>2. \A i \in 0..Len(f) : i # 0 => i \in 1..Len(f) /\ i - 1 \in 0..Len(f)
  OBVIOUS
<1>3. Is(h)
  <2>1. \A i \in 0..Len(f) :
          h[i] = IF i = 0 THEN <<>>
                 ELSE IF Ends(f[i]) THEN Append(h[i - 1], f[i].rec) ELSE h[i - 1]
    <3> SUFFICES ASSUME NEW i \in 0..Len(f)
                 PROVE  h[i] = IF i = 0 THEN <<>>
                               ELSE IF Ends(f[i]) THEN Append(h[i - 1], f[i].rec) ELSE h[i - 1]
      BY Zenon
    <3>1. CASE i = 0
      BY <1>1, <3>1 DEF RecordsTo
    <3>2. CASE i # 0
      <4>1. h[i] = g[i] /\ h[i - 1] = g[i - 1] /\ i \in 1..Len(f)
        BY <1>2, <3>2
      <4>2. QED
        BY <1>1, <3>2, <4>1, Zenon DEF RecordsTo
    <3>3. QED
      BY <3>1, <3>2
  <2>2. QED
    BY <2>1, Zenon
<1> DEFINE r == CHOOSE x : Is(x)
<1>4. Is(r)
  BY <1>3, Zenon
<1>5. RecordsOf(f) = r
  BY Zenon DEF RecordsOf
<1> HIDE DEF r
<1>6. 0 \in 0..Len(f) /\ \A i \in 1..Len(f) : i \in 0..Len(f) /\ i # 0
  OBVIOUS
<1>7. RecordsTo(r, f, Len(f))
  BY <1>4, <1>6, Zenon DEF RecordsTo
<1>8. QED
  BY <1>5, <1>7

\* Files that begin alike have the same records in what they share.
LEMMA RecordsAgree ==
  ASSUME NEW f, NEW g, Len(f) \in Nat, Len(g) \in Nat, NEW n \in Nat, n <= Len(f), n <= Len(g),
         \A i \in 1..n : f[i] = g[i]
  PROVE  RecordsOf(f)[n] = RecordsOf(g)[n]
<1> DEFINE S == {m \in Nat : m <= n => RecordsOf(f)[m] = RecordsOf(g)[m]}
<1>1. RecordsTo(RecordsOf(f), f, Len(f)) /\ RecordsTo(RecordsOf(g), g, Len(g))
  BY RecordsSteps
<1>2. 0 \in S
  BY <1>1 DEF RecordsTo
<1>3. ASSUME NEW m \in Nat, m \in S PROVE m + 1 \in S
  <2> SUFFICES ASSUME m + 1 <= n PROVE RecordsOf(f)[m + 1] = RecordsOf(g)[m + 1]
    OBVIOUS
  <2>1. m + 1 \in 1..n /\ m + 1 \in 1..Len(f) /\ m + 1 \in 1..Len(g) /\ (m + 1) - 1 = m /\ m <= n
    OBVIOUS
  <2>2. RecordsOf(f)[m] = RecordsOf(g)[m] /\ f[m + 1] = g[m + 1]
    BY <1>3, <2>1
  <2>3. /\ RecordsOf(f)[m + 1] = IF Ends(f[m + 1]) THEN Append(RecordsOf(f)[m], f[m + 1].rec)
                                 ELSE RecordsOf(f)[m]
        /\ RecordsOf(g)[m + 1] = IF Ends(g[m + 1]) THEN Append(RecordsOf(g)[m], g[m + 1].rec)
                                 ELSE RecordsOf(g)[m]
    <3> DEFINE k == m + 1
    <3>1. k \in 1..Len(f) /\ k \in 1..Len(g) /\ k - 1 = m
      BY <2>1
    <3> HIDE DEF k
    <3>2. /\ RecordsOf(f)[k] = IF Ends(f[k]) THEN Append(RecordsOf(f)[k - 1], f[k].rec)
                               ELSE RecordsOf(f)[k - 1]
          /\ RecordsOf(g)[k] = IF Ends(g[k]) THEN Append(RecordsOf(g)[k - 1], g[k].rec)
                               ELSE RecordsOf(g)[k - 1]
      BY <1>1, <3>1, Zenon DEF RecordsTo
    <3>3. QED
      BY <3>1, <3>2, Zenon DEF k
  <2>4. CASE Ends(f[m + 1])
    BY <2>2, <2>3, <2>4
  <2>5. CASE ~Ends(f[m + 1])
    BY <2>2, <2>3, <2>5
  <2>6. QED
    BY <2>4, <2>5
<1>4. n \in S
  <2> HIDE DEF S
  <2>1. QED
    BY <1>2, <1>3, SetInduction
<1>5. QED
  BY <1>4

\* A piece at the end adds its record if it ends a line.
LEMMA RecordsOfAppend ==
  ASSUME NEW S, NEW f \in Seq(S), NEW p
  PROVE  read_records(Append(f, p)) =
           IF Ends(p) THEN Append(read_records(f), p.rec) ELSE read_records(f)
<1> DEFINE g == Append(f, p)
           n == Len(f)
<1>1. f \in Seq(S \cup {p}) /\ p \in S \cup {p}
  OBVIOUS
<1>2. n \in Nat /\ Len(g) = n + 1 /\ g[n + 1] = p /\ \A i \in 1..n : g[i] = f[i]
  BY <1>1
<1> HIDE DEF g, n
<1>3. RecordsOf(f)[n] = RecordsOf(g)[n]
  BY <1>2, RecordsAgree DEF n
<1>4. RecordsTo(RecordsOf(g), g, n + 1)
  BY <1>2, RecordsSteps
<1>5. n + 1 \in 1..(n + 1) /\ (n + 1) - 1 = n
  BY <1>2
<1>6. RecordsOf(g)[n + 1] = IF Ends(g[n + 1]) THEN Append(RecordsOf(g)[n], g[n + 1].rec)
                            ELSE RecordsOf(g)[n]
  BY <1>4, <1>5 DEF RecordsTo
<1>7. read_records(g) = RecordsOf(g)[n + 1] /\ read_records(f) = RecordsOf(f)[n]
  BY <1>2 DEF read_records, n
<1>8. QED
  BY <1>2, <1>3, <1>6, <1>7, Zenon DEF g

\* A tail that ends no line holds no record.
LEMMA RecordsOfCut ==
  ASSUME NEW S, NEW f \in Seq(S), NEW n \in 0..Len(f),
         \A i \in 1..Len(f) : i > n => ~Ends(f[i])
  PROVE  read_records(SubSeq(f, 1, n)) = read_records(f)
<1> DEFINE g == SubSeq(f, 1, n)
           S1 == {m \in Nat : n + m <= Len(f) => RecordsOf(f)[n + m] = RecordsOf(f)[n]}
<1>1. Len(f) \in Nat /\ n \in Nat /\ Len(g) = n /\ \A i \in 1..n : g[i] = f[i]
  OBVIOUS
<1> HIDE DEF g
<1>2. RecordsTo(RecordsOf(f), f, Len(f))
  BY <1>1, RecordsSteps
<1>3. 0 \in S1
  BY <1>1
<1>4. ASSUME NEW m \in Nat, m \in S1 PROVE m + 1 \in S1
  <2> SUFFICES ASSUME n + (m + 1) <= Len(f) PROVE RecordsOf(f)[n + (m + 1)] = RecordsOf(f)[n]
    OBVIOUS
  <2> DEFINE k == n + (m + 1)
  <2>1. k \in 1..Len(f) /\ k - 1 = n + m /\ n + m <= Len(f) /\ k > n
    BY <1>1
  <2> HIDE DEF k
  <2>2. ~Ends(f[k])
    BY <2>1
  <2>3. RecordsOf(f)[k] = RecordsOf(f)[k - 1]
    BY <1>2, <2>1, <2>2 DEF RecordsTo
  <2>4. RecordsOf(f)[n + m] = RecordsOf(f)[n]
    BY <1>4, <2>1
  <2>5. QED
    BY <2>1, <2>3, <2>4 DEF k
<1>5. Len(f) - n \in S1
  <2>1. Len(f) - n \in Nat
    BY <1>1
  <2> HIDE DEF S1
  <2>2. QED
    BY <1>3, <1>4, <2>1, SetInduction
<1>6. RecordsOf(f)[Len(f)] = RecordsOf(f)[n]
  BY <1>1, <1>5
<1>7. RecordsOf(g)[n] = RecordsOf(f)[n]
  BY <1>1, RecordsAgree
<1>8. QED
  BY <1>1, <1>6, <1>7 DEF read_records, g

\* Whether a line parses depends on the pieces up to its end.
LEMMA GoodLineLocal ==
  ASSUME NEW f, NEW g, NEW i \in Nat, i > 0, \A j \in 1..i : f[j] = g[j]
  PROVE  GoodLine(f, i) <=> GoodLine(g, i)
<1>1. f[i] = g[i]
  OBVIOUS
<1>2. i > 1 => i - 1 \in 1..i /\ f[i - 1] = g[i - 1]
  OBVIOUS
<1>3. i > 2 => (i - 1) - 1 \in 1..i /\ f[(i - 1) - 1] = g[(i - 1) - 1]
  OBVIOUS
<1>4. StartsLine(f, i) <=> StartsLine(g, i)
  BY <1>2 DEF StartsLine
<1>5. i > 1 => (StartsLine(f, i - 1) <=> StartsLine(g, i - 1))
  BY <1>3 DEF StartsLine
<1>6. QED
  BY <1>1, <1>2, <1>4, <1>5 DEF GoodLine

LEMMA ReadableAppend ==
  ASSUME NEW S, NEW f \in Seq(S), NEW p, Readable(f),
         Ends(p) => GoodLine(Append(f, p), Len(f) + 1)
  PROVE  Readable(Append(f, p))
<1> DEFINE g == Append(f, p)
           n == Len(f)
<1>1. f \in Seq(S \cup {p}) /\ p \in S \cup {p}
  OBVIOUS
<1>2. /\ n \in Nat /\ g[n + 1] = p /\ \A i \in 1..n : g[i] = f[i]
      /\ DOMAIN g = 1..(n + 1) /\ DOMAIN f = 1..n
  BY <1>1
<1>3. Ends(p) => GoodLine(g, n + 1)
  OBVIOUS
<1> HIDE DEF g, n
<1>4. ASSUME NEW i \in 1..n, Ends(g[i]) PROVE GoodLine(g, i)
  <2>1. i \in Nat /\ i > 0 /\ \A j \in 1..i : f[j] = g[j]
    BY <1>2
  <2>2. GoodLine(f, i)
    BY <1>2, <1>4 DEF Readable
  <2>3. QED
    BY <2>1, <2>2, GoodLineLocal
<1>5. \A i \in 1..(n + 1) : i \in 1..n \/ i = n + 1
  BY <1>2
<1>6. Readable(g)
  BY <1>2, <1>3, <1>4, <1>5 DEF Readable
<1>7. QED
  BY <1>6 DEF g

LEMMA ReadableCut ==
  ASSUME NEW S, NEW f \in Seq(S), NEW n \in 0..Len(f), Readable(f)
  PROVE  Readable(SubSeq(f, 1, n))
<1> DEFINE g == SubSeq(f, 1, n)
<1>1. /\ n \in Nat /\ DOMAIN g = 1..n /\ \A i \in 1..n : g[i] = f[i]
      /\ \A i \in 1..n : i \in DOMAIN f
  OBVIOUS
<1> HIDE DEF g
<1>2. ASSUME NEW i \in 1..n, Ends(g[i]) PROVE GoodLine(g, i)
  <2>1. i \in Nat /\ i > 0 /\ \A j \in 1..i : f[j] = g[j]
    BY <1>1
  <2>2. GoodLine(f, i)
    BY <1>1, <1>2 DEF Readable
  <2>3. QED
    BY <2>1, <2>2, GoodLineLocal
<1>3. Readable(g)
  BY <1>1, <1>2 DEF Readable
<1>4. QED
  BY <1>3 DEF g

-----------------------------------------------------------------------------
(* The strengthening of LossNeedsOverlap, by parts. *)

\* The file holds pieces, and every engine has the fields of an idle one.
LogShape ==
  /\ \E S : file \in Seq(S)
  /\ DOMAIN eng = Engines /\ \A e \in Engines : DOMAIN eng[e] = DOMAIN Idle /\ eng[e].keep \in Nat
  /\ overlap \in BOOLEAN

\* The last piece is the head of this record's line, at the start of a line.
HeadAtEnd(f, rec) == f # <<>> /\ f[Len(f)] = Piece(rec, "head") /\ StartsLine(f, Len(f))

\* What an append relies on is still true of the file: no tail when it writes, the tail it
\* saw when it cuts, its own head when it writes the rest.
StillTrue(w, f) ==
  /\ w.pc = "write" => ~Torn(f)
  /\ w.pc = "truncate" => w.keep = complete_len(f)
  /\ w.pc = "rest" => HeadAtEnd(f, w.rec)

\* An append that cuts or has written a head is alone.
DelicateAlone == \A e \in Engines : Delicate(e) => \A o \in Others(e) : ~Appending(o)

AppendInv ==
  /\ LogShape
  /\ ~overlap => /\ Readable(file) /\ read_records(file) = written
                 /\ DelicateAlone
                 /\ \A e \in Engines : StillTrue(eng[e], file)

\* What a step of one engine has to keep, and what the others contribute by standing still.
LEMMA OwnStep ==
  ASSUME AppendInv, NEW e \in Engines, LogShape',
         \A o \in Others(e) : eng'[o] = eng[o],
         ~overlap' =>
           /\ ~overlap /\ Readable(file') /\ read_records(file') = written'
           /\ StillTrue(eng'[e], file')
           /\ \A o \in Others(e) : Appending(o) => StillTrue(eng[o], file')
           /\ Delicate(e)' => \A o \in Others(e) : ~Appending(o)
           /\ Appending(e)' => \A o \in Others(e) : ~Delicate(o)
  PROVE  AppendInv'
<1> SUFFICES ASSUME ~overlap'
             PROVE  DelicateAlone' /\ \A f \in Engines : StillTrue(eng'[f], file')
  BY DEF AppendInv
<1>1. \A o \in Others(e) : (Appending(o)' <=> Appending(o)) /\ (Delicate(o)' <=> Delicate(o))
  BY DEF Appending, Delicate
<1>2. ASSUME NEW f \in Engines, NEW o \in Others(f), Delicate(f)' PROVE ~Appending(o)'
  <2>1. o \in Engines /\ o # f
    BY DEF Others
  <2>2. CASE f = e
    BY <1>1, <1>2, <2>2
  <2>3. CASE o = e
    <3>1. f \in Others(e)
      BY <2>1, <2>3 DEF Others
    <3>2. QED
      BY <1>1, <1>2, <2>3, <3>1
  <2>4. CASE f # e /\ o # e
    <3>1. f \in Others(e) /\ o \in Others(e)
      BY <2>1, <2>4 DEF Others
    <3>2. QED
      BY <1>1, <1>2, <3>1 DEF AppendInv, DelicateAlone
  <2>5. QED
    BY <2>2, <2>3, <2>4
<1>3. ASSUME NEW f \in Engines PROVE StillTrue(eng'[f], file')
  <2>1. CASE f = e
    BY <2>1
  <2>2. CASE f # e
    <3>1. f \in Others(e) /\ eng'[f] = eng[f]
      BY <2>2 DEF Others
    <3>2. CASE Appending(f)
      BY <3>1, <3>2
    <3>3. CASE ~Appending(f)
      BY <3>1, <3>3 DEF Appending, StillTrue
    <3>4. QED
      BY <3>2, <3>3
  <2>3. QED
    BY <2>1, <2>2
<1>4. QED
  BY <1>2, <1>3, Zenon DEF DelicateAlone

\* Outside an append, an engine leaves the file alone and relies on nothing.
LEMMA QuietSteps ==
  ASSUME AppendInv, NEW e \in Engines, Observe(e) \/ CycleErr(e) \/ CycleOk(e) \/ GiveUp(e)
  PROVE  AppendInv'
<1>1. DOMAIN eng = Engines /\ DOMAIN eng[e] = DOMAIN Idle /\ DOMAIN Idle =
        {"pc", "cycle", "ctx", "measured", "top", "rec", "keep", "seen", "sound"}
  BY DEF AppendInv, LogShape, Idle
<1>2. /\ UNCHANGED <<file, written, overlap>>
      /\ DOMAIN eng' = Engines /\ \A o \in Others(e) : eng'[o] = eng[o]
  BY DEF Observe, CycleErr, CycleOk, GiveUp, Finished, Others, AppendInv, LogShape
<1>3. /\ eng'[e].pc \in {"idle", "cycle", "open"} /\ DOMAIN eng'[e] = DOMAIN Idle
      /\ eng'[e].keep \in Nat
  <2>1. CASE Observe(e)
    <3>1. PICK ctx \in Contexts :
            eng' = [eng EXCEPT ![e] = [Idle EXCEPT
                      !.pc = "cycle", !.cycle = cycles + 1, !.ctx = ctx,
                      !.measured = measure_stages(file, cycles + 1, ctx),
                      !.top = top_bottleneck(measure_stages(file, cycles + 1, ctx)),
                      !.seen = Len(written), !.sound = ~overlap]]
      BY <2>1 DEF Observe
    <3>2. QED
      BY <1>1, <3>1 DEF Idle
  <2>2. CASE CycleErr(e) \/ GiveUp(e)
    BY <1>1, <2>2 DEF CycleErr, GiveUp, Finished, Idle
  <2>3. CASE CycleOk(e)
    BY <1>1, <2>3 DEF CycleOk, AppendInv, LogShape
  <2>4. QED
    BY <2>1, <2>2, <2>3
<1>4. LogShape'
  <2>1. \A f \in Engines : DOMAIN eng'[f] = DOMAIN Idle /\ eng'[f].keep \in Nat
    BY <1>2, <1>3 DEF AppendInv, LogShape, Others
  <2>2. QED
    BY <1>2, <2>1 DEF AppendInv, LogShape
<1>5. ~Appending(e)' /\ ~Delicate(e)' /\ StillTrue(eng'[e], file')
  BY <1>3 DEF Appending, Delicate, StillTrue
<1>6. \A o \in Others(e) : o \in Engines
  BY DEF Others
<1>7. QED
  BY <1>2, <1>4, <1>5, <1>6, OwnStep DEF AppendInv

\* Whoever looks at the tail without an overlap finds it while nobody cuts or has a head
\* in the file, and finds one only while nobody appends.
LEMMA LookAtTailStep ==
  ASSUME AppendInv, NEW e \in Engines, LookAtTail(e)
  PROVE  AppendInv'
<1>1. DOMAIN eng = Engines /\ DOMAIN eng[e] = DOMAIN Idle /\ DOMAIN Idle =
        {"pc", "cycle", "ctx", "measured", "top", "rec", "keep", "seen", "sound"}
  BY DEF AppendInv, LogShape, Idle
<1>2. /\ UNCHANGED <<file, written>>
      /\ DOMAIN eng' = Engines /\ \A o \in Others(e) : eng'[o] = eng[o]
      /\ eng'[e].pc = IF Torn(file) THEN "truncate" ELSE "write"
      /\ eng'[e].keep = complete_len(file) /\ DOMAIN eng'[e] = DOMAIN Idle
      /\ overlap' = (overlap \/ \E o \in Others(e) : Delicate(o) \/ (Appending(o) /\ Torn(file)))
  BY <1>1 DEF LookAtTail, Others
<1>3. LogShape'
  <2>1. complete_len(file) \in Nat
    BY CompleteLen DEF AppendInv, LogShape
  <2>2. \A f \in Engines : DOMAIN eng'[f] = DOMAIN Idle /\ eng'[f].keep \in Nat
    BY <1>2, <2>1 DEF AppendInv, LogShape, Others
  <2>3. QED
    BY <1>2, <2>2 DEF AppendInv, LogShape
<1>4. StillTrue(eng'[e], file') /\ (Delicate(e)' => Torn(file))
  BY <1>2 DEF StillTrue, Delicate
<1>5. \A o \in Others(e) : o \in Engines
  BY DEF Others
<1>6. QED
  BY <1>2, <1>3, <1>4, <1>5, OwnStep DEF AppendInv

\* Steps on the file: what the file becomes, for an append that is alone or meets only
\* others that are about to write whole lines.
LEMMA FileStep ==
  ASSUME AppendInv, NEW e \in Engines, Appending(e),
         DOMAIN eng' = Engines, DOMAIN eng'[e] = DOMAIN Idle, eng'[e].keep \in Nat,
         \A o \in Others(e) : eng'[o] = eng[o],
         \E S : file' \in Seq(S), overlap' \in BOOLEAN,
         ~overlap' =>
           /\ ~overlap /\ Readable(file') /\ read_records(file') = written'
           /\ StillTrue(eng'[e], file')
           /\ (At(e, "write") /\ ~Torn(file')) \/ \A o \in Others(e) : ~Appending(o)
           /\ Delicate(e)' => \A o \in Others(e) : ~Appending(o)
  PROVE  AppendInv'
<1>1. LogShape'
  <2>1. \A f \in Engines : DOMAIN eng'[f] = DOMAIN Idle /\ eng'[f].keep \in Nat
    BY DEF AppendInv, LogShape, Others
  <2>2. QED
    BY <2>1 DEF LogShape
<1>2. ASSUME ~overlap', NEW o \in Others(e)
      PROVE  ~Delicate(o) /\ (Appending(o) => StillTrue(eng[o], file'))
  <2>1. o \in Engines /\ e \in Others(o)
    BY DEF Others
  <2>2. ~Delicate(o)
    BY <1>2, <2>1 DEF AppendInv, DelicateAlone
  <2>3. Appending(o) => eng[o].pc = "write" /\ ~Torn(file')
    BY <1>2, <2>2 DEF Appending, Delicate
  <2>4. QED
    BY <2>2, <2>3 DEF StillTrue
<1>3. QED
  BY <1>1, <1>2, OwnStep

LEMMA TruncateStep ==
  ASSUME AppendInv, NEW e \in Engines, Truncate(e)
  PROVE  AppendInv'
<1>1. DOMAIN eng = Engines /\ DOMAIN eng[e] = DOMAIN Idle /\ DOMAIN Idle =
        {"pc", "cycle", "ctx", "measured", "top", "rec", "keep", "seen", "sound"}
  BY DEF AppendInv, LogShape, Idle
<1>2. /\ UNCHANGED <<written, overlap>> /\ eng[e].pc = "truncate"
      /\ DOMAIN eng' = Engines /\ \A o \in Others(e) : eng'[o] = eng[o]
      /\ eng'[e].pc = "write" /\ DOMAIN eng'[e] = DOMAIN Idle /\ eng'[e].keep = eng[e].keep
  BY <1>1 DEF Truncate, At, Others
<1>3. PICK S : file \in Seq(S)
  BY DEF AppendInv, LogShape
<1>4. eng[e].keep \in Nat /\ Len(file) \in Nat
  BY <1>3 DEF AppendInv, LogShape
<1>5. \E T : file' \in Seq(T)
  <2>1. CASE eng[e].keep <= Len(file)
    <3>1. file' = SubSeq(file, 1, eng[e].keep)
      BY <2>1 DEF Truncate
    <3>2. file' \in Seq(S)
      BY <1>3, <1>4, <2>1, <3>1
    <3>3. QED
      BY <3>2
  <2>2. CASE ~(eng[e].keep <= Len(file))
    <3> DEFINE k == eng[e].keep - Len(file)
               gaps == [i \in 1..k |-> Gap]
    <3>1. file' = file \o gaps /\ k \in Nat
      BY <1>4, <2>2 DEF Truncate
    <3> HIDE DEF k
    <3>2. gaps \in Seq(S \cup {Gap}) /\ file \in Seq(S \cup {Gap})
      BY <1>3, <3>1
    <3> HIDE DEF gaps
    <3>3. file' \in Seq(S \cup {Gap})
      BY <3>1, <3>2
    <3>4. QED
      BY <3>3
  <2>3. QED
    BY <2>1, <2>2
<1>6. ASSUME ~overlap
      PROVE  /\ Readable(file') /\ read_records(file') = written /\ ~Torn(file')
             /\ \A o \in Others(e) : ~Appending(o)
  <2> DEFINE n == complete_len(file)
  <2>1. /\ n \in 0..Len(file)
        /\ n # 0 => Ends(file[n])
        /\ \A i \in 1..Len(file) : i > n => ~Ends(file[i])
    BY <1>3, CompleteLen
  <2>2. eng[e].keep = n
    BY <1>2, <1>6 DEF AppendInv, StillTrue
  <2> HIDE DEF n
  <2>3. file' = SubSeq(file, 1, n)
    BY <1>3, <2>1, <2>2 DEF Truncate
  <2>4. Readable(file') /\ read_records(file') = written
    BY <1>3, <1>6, <2>1, <2>3, ReadableCut, RecordsOfCut DEF AppendInv
  <2>5. ~Torn(file')
    <3>1. file' \in Seq(S) /\ Len(file') = n /\ (n # 0 => file'[n] = file[n])
          /\ (n = 0 => file' = <<>>)
      BY <1>3, <2>1, <2>3
    <3>2. QED
      BY <2>1, <3>1, TornTail
  <2>6. \A o \in Others(e) : ~Appending(o)
    BY <1>2, <1>6 DEF AppendInv, DelicateAlone, Delicate
  <2>7. QED
    BY <2>4, <2>5, <2>6
<1>7. Appending(e) /\ (~overlap => StillTrue(eng'[e], file')) /\ overlap' \in BOOLEAN
  BY <1>2, <1>6 DEF Appending, StillTrue, AppendInv, LogShape
<1>8. QED
  BY <1>1, <1>2, <1>4, <1>5, <1>6, <1>7, FileStep

\* A piece at the end of the file.
LEMMA PieceAdded ==
  ASSUME NEW S, NEW f \in Seq(S), NEW p
  PROVE  /\ \E T : Append(f, p) \in Seq(T)
         /\ Append(f, p) # <<>> /\ Len(Append(f, p)) = Len(f) + 1 /\ Len(f) \in Nat
         /\ Append(f, p)[Len(f) + 1] = p
         /\ \A i \in 1..Len(f) : Append(f, p)[i] = f[i]
         /\ ~Torn(Append(f, p)) <=> Ends(p)
<1> DEFINE T == S \cup {p}
           g == Append(f, p)
<1>1. f \in Seq(T) /\ p \in T
  OBVIOUS
<1>2. /\ g \in Seq(T) /\ g # <<>> /\ Len(g) = Len(f) + 1 /\ Len(f) \in Nat
      /\ g[Len(f) + 1] = p /\ \A i \in 1..Len(f) : g[i] = f[i]
  <2>1. /\ g \in Seq(T) /\ Len(g) = Len(f) + 1 /\ Len(f) \in Nat
        /\ g[Len(f) + 1] = p /\ \A i \in 1..Len(f) : g[i] = f[i]
    BY <1>1
  <2>2. Len(g) # Len(<<>>)
    BY <2>1
  <2>3. QED
    BY <2>1, <2>2
<1> HIDE DEF T, g
<1>3. ~Torn(g) <=> Ends(p)
  BY <1>2, TornTail
<1>4. QED
  BY <1>2, <1>3 DEF g

\* A whole line on a fresh line.
LEMMA WriteLineStep ==
  ASSUME AppendInv, NEW e \in Engines, WriteLine(e)
  PROVE  AppendInv'
<1>1. DOMAIN eng = Engines
  BY DEF AppendInv, LogShape
<1> DEFINE p == Piece(eng[e].rec, "whole")
<1>2. /\ UNCHANGED overlap /\ eng[e].pc = "write" /\ file' = Append(file, p)
      /\ written' = Append(written, eng[e].rec)
      /\ DOMAIN eng' = Engines /\ eng'[e] = Idle /\ \A o \in Others(e) : eng'[o] = eng[o]
  BY <1>1 DEF WriteLine, At, Others, Finished
<1>3. PICK S : file \in Seq(S)
  BY DEF AppendInv, LogShape
<1>4. Ends(p) /\ p.part = "whole" /\ p.rec = eng[e].rec
  BY DEF Ends, Piece
<1> HIDE DEF p
<1>5. ASSUME ~overlap PROVE Readable(file') /\ read_records(file') = written'
  <2>1. ~Torn(file)
    BY <1>2, <1>5 DEF AppendInv, StillTrue
  <2>2. StartsLine(Append(file, p), Len(file) + 1)
    <3>1. file = <<>> \/ Ends(file[Len(file)])
      BY <1>3, <2>1, TornTail
    <3>2. file # <<>> => Len(file) \in 1..Len(file)
      BY <1>3
    <3>3. (Len(file) + 1) - 1 = Len(file)
      BY <1>3
    <3>4. \A i \in 1..Len(file) : Append(file, p)[i] = file[i]
      BY <1>3, PieceAdded
    <3>5. file = <<>> => Len(file) + 1 = 1
      OBVIOUS
    <3>6. QED
      BY <3>1, <3>2, <3>3, <3>4, <3>5 DEF StartsLine
  <2>3. GoodLine(Append(file, p), Len(file) + 1)
    BY <1>3, <1>4, <2>2, PieceAdded DEF GoodLine
  <2>4. Readable(file')
    BY <1>2, <1>3, <1>5, <2>3, ReadableAppend DEF AppendInv
  <2>5. read_records(file') = written'
    BY <1>2, <1>3, <1>4, <1>5, RecordsOfAppend DEF AppendInv
  <2>6. QED
    BY <2>4, <2>5
<1>6. ~Torn(file') /\ \E T : file' \in Seq(T)
  BY <1>2, <1>3, <1>4, PieceAdded
<1>7. ~Delicate(e)' /\ StillTrue(eng'[e], file') /\ eng'[e].keep \in Nat
  BY <1>2 DEF Delicate, StillTrue, Idle
<1>8. Appending(e) /\ At(e, "write") /\ overlap' \in BOOLEAN
  BY <1>2 DEF Appending, At, AppendInv, LogShape
<1>9. QED
  BY <1>2, <1>5, <1>6, <1>7, <1>8, FileStep

\* The head of a line on a fresh line; nobody else is appending, or it is an overlap.
LEMMA WriteHeadStep ==
  ASSUME AppendInv, NEW e \in Engines, WriteHead(e)
  PROVE  AppendInv'
<1>1. DOMAIN eng = Engines /\ DOMAIN eng[e] = DOMAIN Idle /\ DOMAIN Idle =
        {"pc", "cycle", "ctx", "measured", "top", "rec", "keep", "seen", "sound"}
  BY DEF AppendInv, LogShape, Idle
<1> DEFINE p == Piece(eng[e].rec, "head")
<1>2. /\ UNCHANGED written /\ eng[e].pc = "write" /\ file' = Append(file, p)
      /\ DOMAIN eng' = Engines /\ \A o \in Others(e) : eng'[o] = eng[o]
      /\ eng'[e].pc = "rest" /\ eng'[e].rec = eng[e].rec /\ DOMAIN eng'[e] = DOMAIN Idle
      /\ eng'[e].keep = eng[e].keep
      /\ overlap' = (overlap \/ \E o \in Others(e) : Appending(o))
  BY <1>1 DEF WriteHead, At, Others
<1>3. PICK S : file \in Seq(S)
  BY DEF AppendInv, LogShape
<1>4. ~Ends(p)
  BY DEF Ends, Piece
<1> HIDE DEF p
<1>5. ASSUME ~overlap PROVE Readable(file') /\ read_records(file') = written'
  BY <1>2, <1>3, <1>4, <1>5, ReadableAppend, RecordsOfAppend DEF AppendInv
<1>6. ASSUME ~overlap PROVE StillTrue(eng'[e], file')
  <2>1. file = <<>> \/ Ends(file[Len(file)])
    BY <1>2, <1>3, <1>6, TornTail DEF AppendInv, StillTrue
  <2>2. /\ file' # <<>> /\ Len(file') = Len(file) + 1 /\ Len(file) \in Nat
        /\ file'[Len(file) + 1] = p /\ \A i \in 1..Len(file) : file'[i] = file[i]
    BY <1>2, <1>3, PieceAdded
  <2>3. file = <<>> => Len(file) = 0
    OBVIOUS
  <2>4. file # <<>> => Len(file) \in 1..Len(file)
    BY <1>3
  <2>5. StartsLine(file', Len(file) + 1)
    BY <2>1, <2>2, <2>3, <2>4 DEF StartsLine
  <2>6. QED
    BY <1>2, <2>2, <2>5 DEF StillTrue, HeadAtEnd, p
<1>7. \E T : file' \in Seq(T)
  BY <1>2, <1>3, PieceAdded
<1>8. Appending(e) /\ overlap \in BOOLEAN /\ overlap' \in BOOLEAN /\ eng'[e].keep \in Nat
  BY <1>2 DEF Appending, AppendInv, LogShape
<1>9. QED
  BY <1>2, <1>5, <1>6, <1>7, <1>8, FileStep

\* The rest, behind the head that is still the last piece.
LEMMA WriteRestStep ==
  ASSUME AppendInv, NEW e \in Engines, WriteRest(e)
  PROVE  AppendInv'
<1>1. DOMAIN eng = Engines
  BY DEF AppendInv, LogShape
<1> DEFINE p == Piece(eng[e].rec, "rest")
<1>2. /\ UNCHANGED overlap /\ eng[e].pc = "rest" /\ file' = Append(file, p)
      /\ written' = Append(written, eng[e].rec)
      /\ DOMAIN eng' = Engines /\ eng'[e] = Idle /\ \A o \in Others(e) : eng'[o] = eng[o]
  BY <1>1 DEF WriteRest, At, Others, Finished
<1>3. PICK S : file \in Seq(S)
  BY DEF AppendInv, LogShape
<1>4. Ends(p) /\ p.part = "rest" /\ p.rec = eng[e].rec
  BY DEF Ends, Piece
<1> HIDE DEF p
<1>5. ASSUME ~overlap PROVE Readable(file') /\ read_records(file') = written'
  <2>1. HeadAtEnd(file, eng[e].rec)
    BY <1>2, <1>5 DEF AppendInv, StillTrue
  <2> DEFINE n == Len(file)
  <2>2. /\ n \in 1..n /\ n \in Nat /\ file'[n + 1] = p /\ (n + 1) - 1 = n /\ n + 1 > 1
        /\ \A i \in 1..n : file'[i] = file[i]
    BY <1>2, <1>3, <2>1, PieceAdded DEF HeadAtEnd
  <2>3. file'[n] = Piece(eng[e].rec, "head") /\ StartsLine(file', n)
    <3>1. file[n] = Piece(eng[e].rec, "head") /\ StartsLine(file, n)
      BY <2>1 DEF HeadAtEnd
    <3>2. n = 1 \/ n - 1 \in 1..n
      BY <2>2
    <3> HIDE DEF n
    <3>3. QED
      BY <2>2, <3>1, <3>2 DEF StartsLine
  <2>4. GoodLine(file', n + 1)
    <3> HIDE DEF n
    <3>1. QED
      BY <1>4, <2>2, <2>3 DEF GoodLine
  <2>5. Readable(file')
    BY <1>2, <1>3, <1>5, <2>4, ReadableAppend DEF AppendInv
  <2>6. read_records(file') = written'
    BY <1>2, <1>3, <1>4, <1>5, RecordsOfAppend DEF AppendInv
  <2>7. QED
    BY <2>5, <2>6
<1>6. \E T : file' \in Seq(T)
  BY <1>2, <1>3, PieceAdded
<1>7. ~Delicate(e)' /\ StillTrue(eng'[e], file') /\ eng'[e].keep \in Nat
  BY <1>2 DEF Delicate, StillTrue, Idle
<1>8. Appending(e) /\ overlap' \in BOOLEAN
  BY <1>2 DEF Appending, AppendInv, LogShape
<1>9. ~overlap => \A o \in Others(e) : ~Appending(o)
  BY <1>2 DEF AppendInv, DelicateAlone, Delicate
<1>10. QED
  BY <1>2, <1>5, <1>6, <1>7, <1>8, <1>9, FileStep

\* Every step keeps the invariant.
LEMMA AppendInvariant == SampleSpec => []AppendInv
<1>1. SampleInit => AppendInv
  <2> SUFFICES ASSUME SampleInit PROVE AppendInv
    OBVIOUS
  <2>1. file = <<>> /\ written = <<>> /\ overlap = FALSE /\ eng = [e \in Engines |-> Idle]
    BY DEF SampleInit
  <2>2. LogShape
    <3>1. file \in Seq({})
      BY <2>1
    <3>2. QED
      BY <2>1, <3>1 DEF LogShape, Idle
  <2>3. Readable(file) /\ Len(file) = 0
    BY <2>1 DEF Readable
  <2>4. read_records(file) = written
    <3>1. RecordsTo(RecordsOf(file), file, Len(file))
      BY <2>3, RecordsSteps
    <3>2. QED
      BY <2>1, <2>3, <3>1 DEF RecordsTo, read_records
  <2>5. DelicateAlone /\ \A e \in Engines : StillTrue(eng[e], file)
    BY <2>1 DEF DelicateAlone, Delicate, StillTrue, Idle
  <2>6. QED
    BY <2>2, <2>3, <2>4, <2>5 DEF AppendInv
<1>2. AppendInv /\ [SampleNext]_sampleVars => AppendInv'
  <2> SUFFICES ASSUME AppendInv, [SampleNext]_sampleVars PROVE AppendInv'
    OBVIOUS
  <2>1. ASSUME NEW e \in Engines, EngineStep(e) PROVE AppendInv'
    BY <2>1, QuietSteps, LookAtTailStep, TruncateStep, WriteLineStep, WriteHeadStep,
      WriteRestStep DEF EngineStep
  <2>2. CASE UNCHANGED sampleVars
    BY <2>2 DEF sampleVars, AppendInv, LogShape, DelicateAlone, Delicate, Appending
  <2>3. QED
    BY <2>1, <2>2 DEF SampleNext
<1>3. QED
  BY <1>1, <1>2, PTL DEF SampleSpec

\* The sample log loses no finished record and stays readable, through kills in the middle
\* of a line, short writes and errors of any number of engines, as long as no append that
\* cuts a torn tail or writes its line in two parts overlaps another append.
THEOREM OnlyOverlapLoses == SampleSpec => []LossNeedsOverlap
<1>1. AppendInv => LossNeedsOverlap
  BY DEF AppendInv, LossNeedsOverlap
<1>2. QED
  BY <1>1, AppendInvariant, PTL

-----------------------------------------------------------------------------
(* Positions and ranks. *)

\* Sets that grow along I: each holds its own index, and of two one holds the other.
Chain(I, d) ==
  /\ d \in [I -> SUBSET I]
  /\ \A i \in I : i \in d[i]
  /\ \A i, j \in I : i # j => d[i] # d[j] /\ (d[i] \subseteq d[j] \/ d[j] \subseteq d[i])

\* The sizes of the sets number the members of I.
Numbers(I, d) ==
  /\ \A i \in I : Cardinality(d[i]) \in 1..Cardinality(I)
  /\ \A i, j \in I : Cardinality(d[i]) = Cardinality(d[j]) => i = j
  /\ \A k \in 1..Cardinality(I) : \E i \in I : Cardinality(d[i]) = k

\* The sizes of sets that grow along a finite I are 1, 2, ... up to its size.
LEMMA ChainRanks ==
  ASSUME NEW I, IsFiniteSet(I), NEW d, Chain(I, d)
  PROVE  Numbers(I, d)
<1> DEFINE n == Cardinality(I)
           r == [i \in I |-> Cardinality(d[i])]
<1> USE DEF Chain
<1>1. n \in Nat
  BY FS_CardinalityType
<1>2. ASSUME NEW i \in I PROVE IsFiniteSet(d[i]) /\ Cardinality(d[i]) \in 1..n
  <2>1. IsFiniteSet(d[i]) /\ Cardinality(d[i]) <= n
    BY FS_Subset
  <2>2. Cardinality(d[i]) \in Nat /\ Cardinality(d[i]) # 0
    BY <2>1, FS_CardinalityType, FS_EmptySet
  <2>3. QED
    BY <1>1, <2>1, <2>2
<1>3. ASSUME NEW i \in I, NEW j \in I, Cardinality(d[i]) = Cardinality(d[j]) PROVE i = j
  <2>1. d[i] \subseteq d[j] \/ d[j] \subseteq d[i] => d[i] = d[j]
    BY <1>2, <1>3, FS_Subset
  <2>2. QED
    BY <2>1
<1>4. IsFiniteSet(1..n) /\ Cardinality(1..n) = n
  BY <1>1, FS_Interval
<1>5. r \in Injection(I, 1..n)
  BY <1>2, <1>3 DEF Injection, IsInjective
<1>6. r \in Surjection(I, 1..n)
  <2> HIDE DEF r, n
  <2>1. Cardinality(I) = Cardinality(1..n)
    BY <1>4 DEF n
  <2>2. QED
    BY <1>4, <1>5, <2>1, FS_Injection
<1>7. \A k \in 1..n : \E i \in I : Cardinality(d[i]) = k
  BY <1>6 DEF Surjection
<1>8. QED
  BY <1>2, <1>3, <1>7 DEF Numbers

\* The numbers up to n are n.
LEMMA CountUpTo ==
  ASSUME NEW n \in Nat
  PROVE  IsFiniteSet(1..n) /\ Cardinality(1..n) = n
<1>1. 1 \in Int /\ n \in Int
  OBVIOUS
<1>2. IsFiniteSet(1..n) /\ Cardinality(1..n) = IF 1 > n THEN 0 ELSE n - 1 + 1
  BY <1>1, FS_Interval
<1>3. QED
  BY <1>2

\* A part of a finite set is finite and not larger.
LEMMA PartSmaller ==
  ASSUME NEW A, IsFiniteSet(A), NEW B, B \subseteq A
  PROVE  /\ IsFiniteSet(B) /\ Cardinality(B) \in Nat /\ Cardinality(A) \in Nat
         /\ Cardinality(B) <= Cardinality(A)
<1>1. B \in SUBSET A
  OBVIOUS
<1>2. IsFiniteSet(B) /\ Cardinality(B) <= Cardinality(A)
  BY <1>1, FS_Subset
<1>3. QED
  BY <1>2, FS_CardinalityType

\* Nth numbers the chosen positions in their order.
LEMMA NthInOrder ==
  ASSUME NEW I, IsFiniteSet(I), I \subseteq Nat
  PROVE  /\ Cardinality(I) \in Nat
         /\ \A k \in 1..Cardinality(I) : Nth(I, k) \in I
         /\ \A i \in I : \E k \in 1..Cardinality(I) : Nth(I, k) = i
         /\ \A k, l \in 1..Cardinality(I) : k < l => Nth(I, k) < Nth(I, l)
<1> DEFINE d == [i \in I |-> {j \in I : j <= i}]
           n == Cardinality(I)
<1>1. \A i \in I : d[i] = {j \in I : j <= i} /\ i \in Nat
  OBVIOUS
<1>2. d \in [I -> SUBSET I] /\ \A i \in I : i \in d[i]
  OBVIOUS
<1> HIDE DEF d
<1>3. ASSUME NEW i \in I, NEW j \in I, i <= j PROVE d[i] \subseteq d[j]
  <2>1. ASSUME NEW x \in d[i] PROVE x \in d[j]
    <3>1. x \in I /\ x <= i /\ x \in Nat /\ i \in Nat /\ j \in Nat
      BY <1>1, <2>1
    <3>2. QED
      BY <1>1, <1>3, <3>1
  <2>2. QED
    BY <2>1
<1>4. ASSUME NEW i \in I, NEW j \in I, i < j PROVE j \in d[j] /\ j \notin d[i]
  <2>1. i \in Nat /\ j \in Nat /\ ~(j <= i)
    BY <1>1, <1>4
  <2>2. QED
    BY <1>1, <1>2, <2>1
<1>5. ASSUME NEW i \in I, NEW j \in I, i # j
      PROVE  d[i] # d[j] /\ (d[i] \subseteq d[j] \/ d[j] \subseteq d[i])
  <2>1. i \in Nat /\ j \in Nat
    BY <1>1
  <2>2. CASE i < j
    BY <2>1, <2>2, <1>3, <1>4
  <2>3. CASE j < i
    BY <2>1, <2>3, <1>3, <1>4
  <2>4. QED
    BY <1>5, <2>1, <2>2, <2>3
<1>6. /\ \A i \in I : Cardinality(d[i]) \in 1..n
      /\ \A i, j \in I : Cardinality(d[i]) = Cardinality(d[j]) => i = j
      /\ \A k \in 1..n : \E i \in I : Cardinality(d[i]) = k
  <2>1. Chain(I, d)
    BY <1>2, <1>5 DEF Chain
  <2>2. Numbers(I, d)
    BY <2>1, ChainRanks
  <2>3. QED
    BY <2>2 DEF Numbers
<1>7. ASSUME NEW k \in 1..n
      PROVE  Nth(I, k) \in I /\ Cardinality(d[Nth(I, k)]) = k
  <2>1. \E i \in I : Cardinality({j \in I : j <= i}) = k
    BY <1>1, <1>6
  <2>2. Nth(I, k) \in I /\ Cardinality({j \in I : j <= Nth(I, k)}) = k
    BY <2>1 DEF Nth
  <2>3. QED
    BY <1>1, <2>2
<1>8. ASSUME NEW i \in I PROVE \E k \in 1..n : Nth(I, k) = i
  BY <1>6, <1>7
<1>9. n \in Nat
  BY FS_CardinalityType
<1>10. ASSUME NEW k \in 1..n, NEW l \in 1..n, k < l PROVE Nth(I, k) < Nth(I, l)
  <2> DEFINE a == Nth(I, k)
             b == Nth(I, l)
  <2>1. a \in I /\ b \in I /\ Cardinality(d[a]) = k /\ Cardinality(d[b]) = l
    BY <1>7
  <2> HIDE DEF a, b
  <2>2. a \in Nat /\ b \in Nat /\ IsFiniteSet(d[a])
    BY <1>1, <1>2, <2>1, PartSmaller
  <2>3. SUFFICES ASSUME b <= a PROVE FALSE
    BY <2>2 DEF a, b
  <2>4. d[b] \subseteq d[a]
    BY <1>3, <2>1, <2>3
  <2>5. l <= k
    BY <2>1, <2>2, <2>4, PartSmaller
  <2>6. QED
    BY <1>9, <1>10, <2>5
<1>11. QED
  BY <1>7, <1>8, <1>9, <1>10

\* The positions in I at which w holds one of R.
Where(w, I, R) == {i \in I : w[i] \in R}

\* A one-to-one correspondence of A and B.
Pairs(g, A, B) ==
  /\ g \in [A -> B]
  /\ \A x, y \in A : g[x] = g[y] => x = y
  /\ \A b \in B : \E x \in A : g[x] = b

\* It preserves what is counted on the other side.
LEMMA CountAcross ==
  ASSUME NEW A, NEW B, NEW g, NEW P, NEW Q,
         IsFiniteSet(A), Pairs(g, A, B), P \subseteq B, Q = Where(g, A, P)
  PROVE  Cardinality(Q) = Cardinality(P)
<1> USE DEF Pairs, Where
<1> DEFINE h == [x \in Q |-> g[x]]
<1>1. IsFiniteSet(Q)
  BY FS_Subset
<1>2. h \in Bijection(Q, P)
  <2>1. h \in [Q -> P] /\ \A x, y \in Q : h[x] = h[y] => x = y
    OBVIOUS
  <2>2. \A b \in P : \E x \in Q : h[x] = b
    OBVIOUS
  <2>3. QED
    BY <2>1, <2>2 DEF Bijection, Injection, Surjection, IsInjective
<1> HIDE DEF h
<1>3. ExistsBijection(Q, P)
  BY <1>2 DEF ExistsBijection
<1>4. QED
  BY <1>1, <1>3, FS_Bijection

-----------------------------------------------------------------------------
(* Selections. *)

\* q is what w holds at the positions I, in their order, by g.
PicksBy(g, q, w, I) ==
  /\ I \subseteq Nat
  /\ g \in [1..Len(q) -> I]
  /\ \A k \in 1..Len(q) : q[k] = w[g[k]]
  /\ \A k, l \in 1..Len(q) : k < l => g[k] < g[l]
  /\ \A i \in I : \E k \in 1..Len(q) : g[k] = i

Picks(q, w, I) == \E g : PicksBy(g, q, w, I)

\* To filter a selection by what it holds is to select fewer positions.
LEMMA PickFilter ==
  ASSUME NEW S, NEW q \in Seq(S), NEW w, NEW I, Picks(q, w, I), NEW R,
         NEW J, J = Where(q, DOMAIN q, R)
  PROVE  Filter(q, J) \in Seq(S) /\ Picks(Filter(q, J), w, Where(w, I, R))
<1> DEFINE K == Where(w, I, R)
           n == Cardinality(J)
           f == Filter(q, J)
           h == [k \in 1..n |-> Nth(J, k)]
<1> USE DEF Where
<1>1. Len(q) \in Nat /\ DOMAIN q = 1..Len(q) /\ \A k \in 1..Len(q) : q[k] \in S
  OBVIOUS
<1>2. J \subseteq 1..Len(q) /\ J \subseteq Nat
  BY <1>1
<1>3. IsFiniteSet(J)
  BY <1>1, <1>2, CountUpTo, PartSmaller
<1>4. PICK g : PicksBy(g, q, w, I)
  BY DEF Picks
<1>5. \A k \in J : g[k] \in K
  BY <1>1, <1>4 DEF PicksBy
<1>6. ASSUME NEW i \in K PROVE \E k \in J : g[k] = i
  <2>1. PICK k \in 1..Len(q) : g[k] = i
    BY <1>4 DEF PicksBy
  <2>2. q[k] = w[i]
    BY <1>4, <2>1 DEF PicksBy
  <2>3. QED
    BY <1>1, <2>1, <2>2
<1>7. \A k \in J : q[k] = w[g[k]] /\ q[k] \in S
  BY <1>1, <1>2, <1>4 DEF PicksBy
<1>8. \A k, l \in J : k < l => g[k] < g[l]
  BY <1>2, <1>4 DEF PicksBy
<1> HIDE DEF K, Where
<1>9. /\ n \in Nat /\ \A k \in 1..n : h[k] \in J
      /\ \A k \in J : \E l \in 1..n : h[l] = k
      /\ \A k, l \in 1..n : k < l => h[k] < h[l]
  BY <1>2, <1>3, NthInOrder
<1>10. f = [k \in 1..n |-> q[h[k]]]
  BY DEF Filter
<1> HIDE DEF f, h, n
<1>11. f \in Seq(S) /\ Len(f) = n
  <2>1. \A k \in 1..n : q[h[k]] \in S
    BY <1>7, <1>9
  <2>2. f \in [1..n -> S]
    BY <1>10, <2>1
  <2>3. QED
    BY <1>9, <2>2
<1> DEFINE gg == [k \in 1..n |-> g[h[k]]]
<1>12. \A k \in 1..n : gg[k] = g[h[k]] /\ f[k] = q[h[k]]
  BY <1>10
<1>13. gg \in [1..n -> K] /\ K \subseteq Nat
  BY <1>4, <1>5, <1>9 DEF PicksBy, K, Where
<1> HIDE DEF gg
<1>14. \A k \in 1..n : f[k] = w[gg[k]]
  BY <1>7, <1>9, <1>12
<1>15. \A k, l \in 1..n : k < l => gg[k] < gg[l]
  BY <1>8, <1>9, <1>12
<1>16. \A i \in K : \E k \in 1..n : gg[k] = i
  BY <1>6, <1>9, <1>12
<1>17. Picks(f, w, K)
  BY <1>11, <1>13, <1>14, <1>15, <1>16 DEF Picks, PicksBy
<1>18. QED
  BY <1>11, <1>17 DEF f, K

\* A sequence selects all its positions.
LEMMA PickAll ==
  ASSUME NEW S, NEW w \in Seq(S)
  PROVE  Picks(w, w, 1..Len(w))
<1> DEFINE g == [k \in 1..Len(w) |-> k]
<1>1. PicksBy(g, w, w, 1..Len(w))
  BY DEF PicksBy
<1>2. QED
  BY <1>1 DEF Picks

\* A selection pairs its elements with the positions.
LEMMA PickPairs ==
  ASSUME NEW S, NEW q \in Seq(S), NEW w, NEW I, NEW g, PicksBy(g, q, w, I)
  PROVE  Pairs(g, 1..Len(q), I)
<1>1. /\ g \in [1..Len(q) -> I] /\ \A k \in 1..Len(q) : g[k] \in Nat
      /\ \A k, l \in 1..Len(q) : k < l => g[k] < g[l]
      /\ \A i \in I : \E k \in 1..Len(q) : g[k] = i
  BY DEF PicksBy
<1>2. ASSUME NEW k \in 1..Len(q), NEW l \in 1..Len(q), g[k] = g[l], k # l PROVE FALSE
  <2>1. k < l \/ l < k
    BY <1>2
  <2>2. g[k] < g[l] \/ g[l] < g[k]
    BY <1>1, <2>1
  <2>3. QED
    BY <1>1, <1>2, <2>2
<1>3. QED
  BY <1>1, <1>2 DEF Pairs

\* The last Window of a selection are the positions with fewer than Window behind them.
Latest(I) == {i \in I : Cardinality({j \in I : j > i}) < Window}

\* InWindow keeps the last of a selection.
LEMMA PickWindow ==
  ASSUME NEW S, NEW q \in Seq(S), NEW w, NEW I, Picks(q, w, I)
  PROVE  InWindow(q) \in Seq(S) /\ Picks(InWindow(q), w, Latest(I))
<1> DEFINE n == Len(q)
           start == IF n > Window THEN n - Window ELSE 0
           f == SubSeq(q, start + 1, n)
           m == n - start
<1>1. Window \in Nat /\ n \in Nat
  BY SampleAssumption
<1>2. start \in Nat /\ m \in Nat /\ start + m = n /\ \A k \in 1..n : n - k < Window <=> k > start
  BY <1>1
<1>3. InWindow(q) = f
  BY DEF InWindow
<1> HIDE DEF start
<1>4. f \in Seq(S) /\ Len(f) = m /\ \A k \in 1..m : f[k] = q[start + k]
  <2>1. start + 1 \in 1..(n + 1) /\ n \in start..n /\ n - (start + 1) + 1 = m
    BY <1>1, <1>2
  <2>2. f \in Seq(S) /\ Len(f) = m
    <3> DEFINE a == start + 1
    <3>1. a \in Int /\ n \in Int /\ (a <= n => n - a + 1 = m) /\ (~(a <= n) => m = 0)
      <4> HIDE DEF n, m
      <4>1. QED
        BY <1>1, <1>2
    <3>2. \A i \in a..n : q[i] \in S
      <4>1. \A i \in a..n : i \in 1..Len(q)
        BY <1>1, <1>2
      <4>2. QED
        BY <4>1
    <3>3. f = SubSeq(q, a, n)
      OBVIOUS
    <3> HIDE DEF a, f, n, m
    <3>4. f \in Seq(S) /\ Len(f) = IF a <= n THEN n - a + 1 ELSE 0
      BY <3>1, <3>2, <3>3, SubSeqProperties
    <3>5. QED
      BY <3>1, <3>4
  <2>3. ASSUME NEW k \in 1..m PROVE f[k] = q[start + k]
    <3>1. k \in 1..(n - (start + 1) + 1) /\ (start + 1) + k - 1 = start + k
      BY <1>1, <1>2, <2>1
    <3>2. QED
      BY <1>1, <1>2, <2>1, <3>1
  <2>4. QED
    BY <2>2, <2>3
<1> HIDE DEF f, m
<1>5. PICK g : PicksBy(g, q, w, I)
  BY DEF Picks
<1>6. /\ g \in [1..n -> I] /\ \A k \in 1..n : q[k] = w[g[k]] /\ g[k] \in I
      /\ \A k, l \in 1..n : k < l => g[k] < g[l]
      /\ \A i \in I : \E k \in 1..n : g[k] = i
  BY <1>5 DEF PicksBy
<1>7. \A i \in I : i \in Nat
  BY <1>5 DEF PicksBy
<1> HIDE DEF n
<1>8. Pairs(g, 1..n, I)
  BY <1>5, PickPairs DEF n
<1>9. ASSUME NEW k \in 1..n PROVE g[k] \in Latest(I) <=> k > start
  <2> DEFINE later == {j \in I : j > g[k]}
             behind == (k + 1)..n
  <2>1. {x \in 1..n : g[x] \in later} = behind
    <3>1. ASSUME NEW x \in 1..n PROVE g[x] > g[k] <=> x > k
      <4>1. g[x] \in I /\ g[k] \in I
        BY <1>6
      <4>2. g[x] \in Nat /\ g[k] \in Nat
        BY <1>7, <4>1
      <4>3. x \in Nat /\ k \in Nat /\ (x > k \/ x = k \/ k > x)
        BY <1>1
      <4>4. (k < x => g[k] < g[x]) /\ (x < k => g[x] < g[k])
        BY <1>6
      <4>5. QED
        BY <4>2, <4>3, <4>4
    <3>2. QED
      BY <1>1, <1>6, <3>1
  <2>2. IsFiniteSet(1..n) /\ later \subseteq I
    BY <1>1, CountUpTo
  <2> HIDE DEF later
  <2>3. Cardinality(behind) = Cardinality(later)
    <3>1. behind = Where(g, 1..n, later)
      BY <2>1 DEF Where
    <3> HIDE DEF behind
    <3>2. QED
      BY <1>8, <2>2, <3>1, CountAcross
  <2>4. Cardinality((k + 1)..n) = n - k
    <3>1. k + 1 \in Int /\ n \in Int /\ k <= n /\ k \in Int
      BY <1>1
    <3>2. Cardinality((k + 1)..n) = IF k + 1 > n THEN 0 ELSE n - (k + 1) + 1
      BY <3>1, FS_Interval
    <3>3. QED
      BY <3>1, <3>2
  <2>5. QED
    BY <1>2, <1>6, <2>3, <2>4 DEF Latest, later, behind
<1> DEFINE h == [k \in 1..m |-> g[start + k]]
<1>10. \A k \in 1..m : start + k \in 1..n /\ start + k > start /\ h[k] = g[start + k]
  BY <1>2
<1>11. h \in [1..m -> Latest(I)]
  BY <1>9, <1>10
<1> HIDE DEF h
<1>12. \A k \in 1..m : f[k] = w[h[k]]
  BY <1>4, <1>6, <1>10
<1>13. ASSUME NEW k \in 1..m, NEW l \in 1..m, k < l PROVE h[k] < h[l]
  <2>1. start + k < start + l
    BY <1>2, <1>13
  <2>2. QED
    BY <1>6, <1>10, <2>1
<1>14. ASSUME NEW i \in Latest(I) PROVE \E k \in 1..m : h[k] = i
  <2>1. i \in I
    BY DEF Latest
  <2>2. PICK k \in 1..n : g[k] = i
    BY <1>6, <2>1
  <2>3. k > start
    BY <1>9, <2>2
  <2>4. k - start \in 1..m /\ start + (k - start) = k
    BY <1>1, <1>2, <2>3
  <2>5. QED
    BY <1>10, <2>2, <2>4
<1>15. Latest(I) \subseteq Nat
  BY <1>7 DEF Latest
<1>16. Picks(f, w, Latest(I))
  BY <1>4, <1>15, <1>11, <1>12, <1>13, <1>14 DEF Picks, PicksBy
<1>17. QED
  BY <1>3, <1>4, <1>16

\* Records of different cycles are all kept.
LEMMA PickFirst ==
  ASSUME NEW S, NEW q \in Seq(S), NEW w, NEW I, Picks(q, w, I),
         \A i, j \in I : i # j => w[i].cycle # w[j].cycle
  PROVE  FirstOfCycle(q) \in Seq(S) /\ Picks(FirstOfCycle(q), w, I)
<1> DEFINE J == {i \in DOMAIN q : \A j \in 1..(i - 1) : q[j].cycle # q[i].cycle}
           R == {w[i] : i \in I}
<1>1. PICK g : PicksBy(g, q, w, I)
  BY DEF Picks
<1>2. Len(q) \in Nat /\ DOMAIN q = 1..Len(q)
  OBVIOUS
<1>3. \A k \in 1..Len(q) : g[k] \in I /\ q[k] = w[g[k]]
  BY <1>1 DEF PicksBy
<1>4. ASSUME NEW i \in 1..Len(q), NEW j \in 1..(i - 1) PROVE q[j].cycle # q[i].cycle
  <2>1. j \in 1..Len(q) /\ j < i
    BY <1>2
  <2>2. g[j] < g[i] /\ g[j] \in Nat /\ g[i] \in Nat
    BY <1>1, <1>3, <2>1 DEF PicksBy
  <2>3. g[j] # g[i]
    BY <2>2
  <2>4. QED
    BY <1>3, <2>1, <2>3
<1>5. J = Where(q, DOMAIN q, R)
  <2>1. ASSUME NEW k \in DOMAIN q PROVE q[k] \in R
    <3>1. k \in 1..Len(q)
      BY <1>2
    <3>2. g[k] \in I /\ q[k] = w[g[k]]
      BY <1>3, <3>1
    <3>3. QED
      BY <3>2, Zenon
  <2>2. \A k \in DOMAIN q : k \in J
    BY <1>2, <1>4
  <2>3. J \subseteq DOMAIN q
    OBVIOUS
  <2> HIDE DEF R, J
  <2>4. QED
    BY <2>1, <2>2, <2>3 DEF Where
<1>6. Where(w, I, R) = I
  BY DEF Where
<1>7. FirstOfCycle(q) = Filter(q, J)
  BY DEF FirstOfCycle
<1> HIDE DEF R, J
<1>8. Filter(q, J) \in Seq(S) /\ Picks(Filter(q, J), w, Where(w, I, R))
  BY <1>5, PickFilter
<1>9. QED
  BY <1>6, <1>7, <1>8

-----------------------------------------------------------------------------
(* The samples of a stage are those of the reference. *)

\* The reference over the records w, which are the finished ones when the log was read.
SameContext(w, ctx) == {i \in 1..Len(w) : w[i].ctx = ctx}
HavingIn(w, ctx, s) == {i \in Latest(SameContext(w, ctx)) : s \in DOMAIN w[i].timing}

\* No two records are of the same cycle, and none is of this one.
OfOthers(w, cycle) ==
  /\ \A i \in 1..Len(w) : w[i].cycle # cycle
  /\ \A i, j \in 1..Len(w) : i # j => w[i].cycle # w[j].cycle

\* The window of try_measure.
WindowOf(w, cycle, ctx) ==
  InWindow(FirstOfCycle(Filter(w, {i \in DOMAIN w : w[i].cycle # cycle /\ w[i].ctx = ctx})))

\* The window is the last records of the context, among the records of w.
LEMMA WindowSelected ==
  ASSUME NEW S, NEW w \in Seq(S), NEW cycle, NEW ctx, OfOthers(w, cycle)
  PROVE  /\ WindowOf(w, cycle, ctx) \in Seq(S)
         /\ Picks(WindowOf(w, cycle, ctx), w, Latest(SameContext(w, ctx)))
<1> DEFINE J == {i \in DOMAIN w : w[i].cycle # cycle /\ w[i].ctx = ctx}
           R == {r \in S : r.cycle # cycle /\ r.ctx = ctx}
           same == SameContext(w, ctx)
           q == Filter(w, J)
           p == FirstOfCycle(q)
<1>1. DOMAIN w = 1..Len(w) /\ \A i \in 1..Len(w) : w[i] \in S
  OBVIOUS
<1>2. J = Where(w, DOMAIN w, R)
  BY <1>1 DEF Where
<1>3. same = Where(w, 1..Len(w), R)
  BY <1>1 DEF Where, SameContext, OfOthers
<1>4. Picks(w, w, 1..Len(w))
  BY PickAll
<1>5. WindowOf(w, cycle, ctx) = InWindow(p)
  BY DEF WindowOf
<1>6. \A i, j \in same : i # j => w[i].cycle # w[j].cycle
  BY DEF SameContext, OfOthers
<1> HIDE DEF J, R, same
<1>7. q \in Seq(S) /\ Picks(q, w, same)
  BY <1>2, <1>3, <1>4, PickFilter
<1> HIDE DEF q
<1>8. p \in Seq(S) /\ Picks(p, w, same)
  BY <1>6, <1>7, PickFirst
<1> HIDE DEF p
<1>9. InWindow(p) \in Seq(S) /\ Picks(InWindow(p), w, Latest(same))
  BY <1>8, PickWindow
<1>10. QED
  BY <1>5, <1>9 DEF same

\* The samples are paired with the positions of the reference.
LEMMA SamplesSelected ==
  ASSUME NEW S, NEW w \in Seq(S), NEW cycle, NEW ctx, OfOthers(w, cycle), NEW s,
         NEW samples, samples = SamplesOf(WindowOf(w, cycle, ctx), s)
  PROVE  /\ Len(samples) \in Nat /\ DOMAIN samples = 1..Len(samples)
         /\ \E g : /\ Pairs(g, 1..Len(samples), HavingIn(w, ctx, s))
                   /\ \A k \in 1..Len(samples) : samples[k] = w[g[k]].timing[s]
<1> DEFINE win == WindowOf(w, cycle, ctx)
           last == Latest(SameContext(w, ctx))
           J == {i \in DOMAIN win : s \in DOMAIN win[i].timing}
           R == {r \in S : s \in DOMAIN r.timing}
           q == Filter(win, J)
<1>1. win \in Seq(S) /\ Picks(win, w, last)
  BY WindowSelected
<1>2. samples = [i \in DOMAIN q |-> q[i].timing[s]]
  BY DEF SamplesOf
<1> HIDE DEF win
<1>3. J = Where(win, DOMAIN win, R)
  BY <1>1 DEF Where
<1>4. HavingIn(w, ctx, s) = Where(w, last, R)
  <2>1. \A i \in last : w[i] \in S
    BY DEF Latest, SameContext
  <2>2. QED
    BY <2>1 DEF HavingIn, Where
<1> HIDE DEF J, R, last
<1>5. q \in Seq(S) /\ Picks(q, w, HavingIn(w, ctx, s))
  BY <1>1, <1>3, <1>4, PickFilter
<1>6. PICK g : PicksBy(g, q, w, HavingIn(w, ctx, s))
  BY <1>5 DEF Picks
<1> HIDE DEF q
<1>7. Pairs(g, 1..Len(q), HavingIn(w, ctx, s))
  BY <1>5, <1>6, PickPairs
<1>8. DOMAIN q = 1..Len(q) /\ Len(q) \in Nat
  BY <1>5
<1>9. DOMAIN samples = 1..Len(q) /\ \A k \in 1..Len(q) : samples[k] = q[k].timing[s]
  BY <1>2, <1>8
<1>10. Len(samples) = Len(q)
  BY <1>2, <1>8
<1>11. \A k \in 1..Len(q) : samples[k] = w[g[k]].timing[s]
  BY <1>6, <1>9 DEF PicksBy
<1>12. QED
  BY <1>7, <1>8, <1>9, <1>10, <1>11

-----------------------------------------------------------------------------
(* Percentiles. *)

\* v is the nearest-rank percentile of the values: the least one that enough reach.
NearestRank(values, p, v) ==
  LET upto(x) == {j \in DOMAIN values : values[j] <= x}
  IN  /\ \E i \in DOMAIN values : values[i] = v
      /\ 100 * Cardinality(upto(v)) >= p * Len(values)
      /\ \A i \in DOMAIN values : values[i] < v =>
           100 * Cardinality(upto(values[i])) < p * Len(values)

\* The sorted position of rank k holds a value with exactly k values up to it.
LEMMA SortedRank ==
  ASSUME NEW n \in Nat, NEW values \in [1..n -> Nat], NEW k \in 1..n
  PROVE  \E i \in 1..n : Sorted(values)[k] = values[i] /\ Cardinality(UpTo(values, i)) = k
<1> DEFINE d == [i \in 1..n |-> UpTo(values, i)]
<1>1. DOMAIN values = 1..n /\ \A i \in 1..n : values[i] \in Nat
  OBVIOUS
<1>2. \A i, j \in 1..n :
        j \in UpTo(values, i) <=> values[j] < values[i] \/ (values[j] = values[i] /\ j <= i)
  BY <1>1 DEF UpTo
<1>3. \A i \in 1..n : UpTo(values, i) \subseteq 1..n /\ d[i] = UpTo(values, i)
  BY <1>1 DEF UpTo
<1>4. d \in [1..n -> SUBSET (1..n)]
  BY <1>3
<1> HIDE DEF d
<1>5. \A i \in 1..n : i \in d[i]
  BY <1>1, <1>2, <1>3
<1>6. ASSUME NEW i \in 1..n, NEW j \in 1..n, i \in d[j] PROVE d[i] \subseteq d[j]
  <2>1. ASSUME NEW x \in 1..n, x \in UpTo(values, i) PROVE x \in UpTo(values, j)
    <3>1. values[x] < values[i] \/ (values[x] = values[i] /\ x <= i)
      BY <1>2, <2>1
    <3>2. values[i] < values[j] \/ (values[i] = values[j] /\ i <= j)
      BY <1>2, <1>3, <1>6
    <3>3. values[x] < values[j] \/ (values[x] = values[j] /\ x <= j)
      BY <1>1, <3>1, <3>2
    <3>4. QED
      BY <1>2, <3>3
  <2>2. QED
    BY <1>3, <2>1
<1>7. ASSUME NEW i \in 1..n, NEW j \in 1..n, i # j
      PROVE  (i \in d[j] /\ j \notin d[i]) \/ (j \in d[i] /\ i \notin d[j])
  <2>1. i \in Nat /\ j \in Nat /\ values[i] \in Nat /\ values[j] \in Nat
    BY <1>1
  <2>2. i \in d[j] <=> values[i] < values[j] \/ (values[i] = values[j] /\ i <= j)
    BY <1>2, <1>3
  <2>3. j \in d[i] <=> values[j] < values[i] \/ (values[j] = values[i] /\ j <= i)
    BY <1>2, <1>3
  <2>4. QED
    BY <1>7, <2>1, <2>2, <2>3
<1>8. Chain(1..n, d)
  <2>1. ASSUME NEW i \in 1..n, NEW j \in 1..n, i # j
        PROVE  d[i] # d[j] /\ (d[i] \subseteq d[j] \/ d[j] \subseteq d[i])
    BY <1>5, <1>6, <1>7, <2>1
  <2>2. QED
    BY <1>4, <1>5, <2>1 DEF Chain
<1>9. IsFiniteSet(1..n) /\ Cardinality(1..n) = n
  BY CountUpTo
<1>10. Numbers(1..n, d)
  BY <1>8, <1>9, ChainRanks
<1>11. PICK i \in 1..n : Cardinality(d[i]) = k
  BY <1>9, <1>10 DEF Numbers
<1>12. Cardinality(UpTo(values, i)) = k
  BY <1>3, <1>11
<1> DEFINE c == CHOOSE j \in DOMAIN values : Cardinality(UpTo(values, j)) = k
<1>13. c \in 1..n /\ Cardinality(UpTo(values, c)) = k
  BY <1>1, <1>12
<1>14. Sorted(values)[k] = values[c]
  BY <1>1 DEF Sorted
<1>15. QED
  BY <1>13, <1>14

\* The rank is the least one whose share reaches p per cent.
LeastRank(n, p, rank) ==
  /\ rank \in 1..n
  /\ 100 * rank >= p * n
  /\ \A x \in Nat : x < rank => 100 * x < p * n

\* It is what percentile_nearest_rank computes, and its clamp never changes it.
LEMMA RankOf ==
  ASSUME NEW n \in Nat, n > 0, NEW p \in {50, 95}
  PROVE  LeastRank(n, p, (p * n + 99) \div 100)
<1>1. CASE p = 50
  BY <1>1 DEF LeastRank
<1>2. CASE p = 95
  BY <1>2 DEF LeastRank
<1>3. QED
  BY <1>1, <1>2

\* percentile_nearest_rank computes the nearest-rank percentile, for the median and the p95.
LEMMA PercentileIsNearestRank ==
  ASSUME NEW n \in Nat, n > 0, NEW values \in [1..n -> Nat], Len(values) = n, NEW p \in {50, 95}
  PROVE  NearestRank(values, p, percentile_nearest_rank(values, p))
<1> DEFINE rank == (p * n + 99) \div 100
           v == percentile_nearest_rank(values, p)
           upto(x) == {j \in DOMAIN values : values[j] <= x}
<1>1. /\ rank \in 1..n /\ 100 * rank >= p * n
      /\ \A x \in Nat : x < rank => 100 * x < p * n
  <2>1. LeastRank(n, p, rank)
    BY RankOf
  <2> HIDE DEF rank
  <2>2. QED
    BY <2>1 DEF LeastRank
<1>2. v = Sorted(values)[IF rank < 1 THEN 1 ELSE IF rank > n THEN n ELSE rank]
  BY DEF percentile_nearest_rank
<1> HIDE DEF rank, v
<1>3. v = Sorted(values)[rank]
  BY <1>1, <1>2
<1>4. PICK i \in 1..n : v = values[i] /\ Cardinality(UpTo(values, i)) = rank
  BY <1>1, <1>3, SortedRank
<1>5. DOMAIN values = 1..n /\ \A j \in 1..n : values[j] \in Nat
  OBVIOUS
<1>6. IsFiniteSet(1..n)
  BY CountUpTo
<1>7. UpTo(values, i) \subseteq upto(v) /\ upto(v) \subseteq 1..n
  BY <1>4, <1>5 DEF UpTo
<1>8. Cardinality(upto(v)) \in Nat /\ Cardinality(upto(v)) >= rank
  <2> HIDE DEF upto
  <2>1. IsFiniteSet(upto(v)) /\ Cardinality(upto(v)) \in Nat
    BY <1>6, <1>7, PartSmaller
  <2>2. QED
    BY <1>4, <1>7, <2>1, PartSmaller
<1>9. 100 * Cardinality(upto(v)) >= p * n
  <2> DEFINE c == Cardinality(upto(v))
  <2>1. c \in Nat /\ c >= rank
    BY <1>8
  <2> HIDE DEF c
  <2>2. 100 * c >= 100 * rank
    BY <1>1, <2>1
  <2>3. 100 * c >= p * n
    BY <1>1, <2>1, <2>2
  <2>4. QED
    BY <2>3 DEF c
<1>10. ASSUME NEW j \in 1..n, values[j] < v PROVE 100 * Cardinality(upto(values[j])) < p * n
  <2> DEFINE less == UpTo(values, i) \ {i}
             low == upto(values[j])
  <2>1. low \subseteq less
    BY <1>4, <1>5, <1>10 DEF UpTo
  <2>2. UpTo(values, i) \subseteq 1..n /\ i \in UpTo(values, i)
    BY <1>5 DEF UpTo
  <2>3. IsFiniteSet(UpTo(values, i))
    BY <1>6, <2>2, PartSmaller
  <2>4. IsFiniteSet(less) /\ Cardinality(less) = rank - 1
    BY <1>4, <2>2, <2>3, FS_RemoveElement
  <2> HIDE DEF less, low
  <2>5. Cardinality(low) \in Nat /\ Cardinality(low) <= rank - 1
    BY <2>1, <2>4, PartSmaller
  <2>6. Cardinality(low) < rank
    BY <1>1, <2>5
  <2>7. 100 * Cardinality(low) < p * n
    BY <1>1, <2>5, <2>6
  <2>8. QED
    BY <2>7 DEF low
<1>11. QED
  BY <1>4, <1>5, <1>9, <1>10 DEF NearestRank, v

-----------------------------------------------------------------------------
(* What try_measure says of a stage. *)

\* IsPercentile and the stage's part of MeasuredFromHistory, over the records w.
PercentileIn(w, H, s, p, v) ==
  LET upto(x) == Cardinality({i \in H : w[i].timing[s].us <= x})
  IN  /\ \E i \in H : w[i].timing[s].us = v
      /\ 100 * upto(v) >= p * Cardinality(H)
      /\ \A i \in H : w[i].timing[s].us < v =>
           100 * upto(w[i].timing[s].us) < p * Cardinality(H)

StageSound(w, H, s, m) ==
  LET n == Cardinality(H)
  IN  IF n < MinSamples THEN ~m.measured
      ELSE /\ m.measured /\ m.n = n
           /\ PercentileIn(w, H, s, 50, m.median)
           /\ m.failed = Cardinality({i \in H : w[i].timing[s].failed})
           /\ IF n < P95Min THEN m.p95 = <<>> ELSE PercentileIn(w, H, s, 95, m.p95[1])

\* A percentile of values that are paired with positions is the one of the positions.
LEMMA PercentileAcross ==
  ASSUME NEW n \in Nat, NEW values \in [1..n -> Nat], Len(values) = n,
         NEW w, NEW H, NEW s, NEW g, Pairs(g, 1..n, H), Cardinality(H) = n,
         \A k \in 1..n : values[k] = w[g[k]].timing[s].us,
         NEW p \in {50, 95}, NEW v, NearestRank(values, p, v)
  PROVE  PercentileIn(w, H, s, p, v)
<1> DEFINE us(i) == w[i].timing[s].us
           there(x) == {i \in H : us(i) <= x}
           here(x) == {k \in 1..n : values[k] <= x}
<1>1. DOMAIN values = 1..n /\ IsFiniteSet(1..n)
  BY CountUpTo
<1>2. /\ \A k \in 1..n : g[k] \in H /\ values[k] = us(g[k])
      /\ \A i \in H : \E k \in 1..n : g[k] = i
  BY DEF Pairs
<1> HIDE DEF us
<1>3. ASSUME NEW x PROVE Cardinality(here(x)) = Cardinality(there(x))
  <2>1. here(x) = Where(g, 1..n, there(x))
    BY <1>2 DEF Where
  <2>2. there(x) \subseteq H
    OBVIOUS
  <2> HIDE DEF here, there
  <2>3. QED
    BY <1>1, <2>1, <2>2, CountAcross
<1>4. /\ \E k \in 1..n : values[k] = v
      /\ 100 * Cardinality(here(v)) >= p * n
      /\ \A k \in 1..n : values[k] < v => 100 * Cardinality(here(values[k])) < p * n
  BY <1>1 DEF NearestRank
<1> HIDE DEF here, there
<1>5. \E i \in H : us(i) = v
  BY <1>2, <1>4
<1>6. 100 * Cardinality(there(v)) >= p * n
  BY <1>3, <1>4
<1>7. ASSUME NEW i \in H, us(i) < v PROVE 100 * Cardinality(there(us(i))) < p * n
  <2>1. PICK k \in 1..n : g[k] = i
    BY <1>2
  <2>2. values[k] = us(i)
    BY <1>2, <2>1
  <2>3. 100 * Cardinality(here(us(i))) < p * n
    BY <1>4, <1>7, <2>2
  <2>4. QED
    BY <1>3, <2>3
<1>8. QED
  BY <1>5, <1>6, <1>7 DEF PercentileIn, us, there

\* Samples that are paired with the positions of the reference measure it.
LEMMA MeasuredSound ==
  ASSUME NEW samples, Len(samples) \in Nat, DOMAIN samples = 1..Len(samples),
         NEW w, NEW H, NEW s, NEW g, Pairs(g, 1..Len(samples), H),
         \A k \in 1..Len(samples) : samples[k] = w[g[k]].timing[s],
         \A i \in H : w[i].timing[s].us \in Nat
  PROVE  StageSound(w, H, s,
           IF Len(samples) < MinSamples THEN Unavailable ELSE Measured(samples))
<1> DEFINE n == Len(samples)
           us == [i \in DOMAIN samples |-> samples[i].us]
           failed == {i \in H : w[i].timing[s].failed}
<1>1. IsFiniteSet(1..n) /\ Cardinality(1..n) = n
  BY CountUpTo
<1>2. \A k \in 1..n : g[k] \in H
  BY DEF Pairs
<1>3. Cardinality(H) = n
  <2>1. 1..n = Where(g, 1..n, H)
    BY <1>2 DEF Where
  <2>2. Cardinality(1..n) = Cardinality(H)
    BY <1>1, <2>1, CountAcross
  <2>3. QED
    BY <1>1, <2>2
<1>4. CASE n < MinSamples
  BY <1>3, <1>4 DEF StageSound, Unavailable
<1>5. CASE ~(n < MinSamples)
  <2> DEFINE m == Measured(samples)
  <2>1. n > 0
    BY <1>5, SampleAssumption
  <2>2. /\ m.measured /\ m.n = Len(us) /\ m.median = percentile_nearest_rank(us, 50)
        /\ m.failed = Cardinality({i \in DOMAIN samples : samples[i].failed})
        /\ m.p95 = IF Len(us) < P95Min THEN <<>> ELSE <<percentile_nearest_rank(us, 95)>>
    BY DEF Measured
  <2>3. us \in [1..n -> Nat] /\ \A k \in 1..n : us[k] = w[g[k]].timing[s].us
    BY <1>2
  <2>4. Len(us) = n
    BY <2>3
  <2>5. Cardinality({i \in DOMAIN samples : samples[i].failed}) = Cardinality(failed)
    <3> DEFINE those == {i \in DOMAIN samples : samples[i].failed}
    <3>1. those = Where(g, 1..n, failed)
      BY <1>2 DEF Where
    <3>2. failed \subseteq H
      OBVIOUS
    <3> HIDE DEF those, failed, n
    <3>3. Cardinality(those) = Cardinality(failed)
      BY <1>1, <3>1, <3>2, CountAcross DEF n
    <3>4. QED
      BY <3>3 DEF those
  <2> HIDE DEF us, m, failed
  <2>6. \A p \in {50, 95} : PercentileIn(w, H, s, p, percentile_nearest_rank(us, p))
    <3> SUFFICES ASSUME NEW p \in {50, 95}
                 PROVE  PercentileIn(w, H, s, p, percentile_nearest_rank(us, p))
      OBVIOUS
    <3>1. NearestRank(us, p, percentile_nearest_rank(us, p))
      BY <2>1, <2>3, <2>4, PercentileIsNearestRank
    <3>2. QED
      BY <1>3, <2>3, <2>4, <3>1, PercentileAcross
  <2>7. m.p95 # <<>> => m.p95[1] = percentile_nearest_rank(us, 95)
    BY <2>2
  <2>8. n < P95Min <=> m.p95 = <<>>
    BY <2>2, <2>4
  <2>9. StageSound(w, H, s, m)
    BY <1>3, <1>5, <2>2, <2>4, <2>5, <2>6, <2>7, <2>8 DEF StageSound, failed
  <2>10. QED
    BY <1>5, <2>9 DEF m
<1>6. QED
  BY <1>4, <1>5

\* What the log holds.
Record == [cycle : Nat, ctx : Contexts, timing : Timings]

\* What try_measure says of a stage is what the reference says.
LEMMA TryMeasureSound ==
  ASSUME NEW w \in Seq(Record), NEW cycle, NEW ctx, OfOthers(w, cycle), NEW s \in Stage
  PROVE  StageSound(w, HavingIn(w, ctx, s), s, try_measure(w, cycle, ctx)[s])
<1> DEFINE samples == SamplesOf(WindowOf(w, cycle, ctx), s)
           H == HavingIn(w, ctx, s)
<1>1. try_measure(w, cycle, ctx)[s] =
        IF Len(samples) < MinSamples THEN Unavailable ELSE Measured(samples)
  BY DEF try_measure, WindowOf
<1>2. \A i \in H : w[i].timing[s].us \in Nat
  <2> SUFFICES ASSUME NEW i \in H PROVE w[i].timing[s].us \in Nat
    OBVIOUS
  <2>1. i \in 1..Len(w) /\ s \in DOMAIN w[i].timing
    BY DEF HavingIn, Latest, SameContext
  <2>2. w[i].timing \in Timings
    <3>1. w[i] \in Record
      BY <2>1
    <3>2. QED
      BY <3>1 DEF Record
  <2>3. QED
    BY <2>1, <2>2, SampleAssumption
<1> HIDE DEF H
<1>3. /\ Len(samples) \in Nat /\ DOMAIN samples = 1..Len(samples)
      /\ \E g : /\ Pairs(g, 1..Len(samples), H)
                /\ \A k \in 1..Len(samples) : samples[k] = w[g[k]].timing[s]
  <2> HIDE DEF samples
  <2>1. samples = SamplesOf(WindowOf(w, cycle, ctx), s)
    BY DEF samples
  <2>2. QED
    BY <2>1, SamplesSelected DEF H
<1> HIDE DEF samples
<1>4. StageSound(w, H, s, IF Len(samples) < MinSamples THEN Unavailable ELSE Measured(samples))
  BY <1>2, <1>3, MeasuredSound
<1>5. QED
  BY <1>1, <1>4 DEF H

-----------------------------------------------------------------------------
(* The ranking without measurements. *)

\* The order of the stages in the pipeline.
LEMMA Positions ==
  /\ Position("Observe") = 1 /\ Position("Propose") = 2 /\ Position("BuildJail") = 3
  /\ Position("JudgeEvaluation") = 4 /\ Position("SupervisorCanary") = 5
  /\ Position("CortexCommit") = 6
BY DEF Position, Stages

\* The order of the ids of the two stages in the middle.
LEMMA Ids == IdOf("BuildJail") = 1 /\ IdOf("JudgeEvaluation") = 3
BY DEF IdOf, ById

\* As long as a stage is not measured, the inner stage with the first id comes first.
LEMMA TopByShape ==
  ASSUME NEW m, ~MeasuredBasis(m)
  PROVE  top_bottleneck(m) = "BuildJail"
<1>1. Stage = {"Observe", "Propose", "BuildJail", "JudgeEvaluation", "SupervisorCanary",
               "CortexCommit"}
  BY DEF Stage, Stages, Range
<1>2. /\ Centrality("Observe") = 0 /\ Centrality("Propose") = 4 /\ Centrality("BuildJail") = 6
      /\ Centrality("JudgeEvaluation") = 6 /\ Centrality("SupervisorCanary") = 4
      /\ Centrality("CortexCommit") = 0
  BY Positions DEF Centrality, Stages
<1>3. \A a, b : Above(m, a, b) <=>
        Centrality(a) > Centrality(b) \/ (Centrality(a) = Centrality(b) /\ IdOf(a) <= IdOf(b))
  BY DEF Above
<1>4. \A t \in Stage : Above(m, "BuildJail", t)
  BY <1>1, <1>2, <1>3, Ids
<1>5. ASSUME NEW a \in Stage, Above(m, a, "BuildJail") PROVE a = "BuildJail"
  BY <1>1, <1>2, <1>3, <1>5, Ids
<1>6. "BuildJail" \in Stage
  BY <1>1
<1>7. QED
  BY <1>4, <1>5, <1>6, Zenon DEF top_bottleneck

-----------------------------------------------------------------------------
(* The strengthening of MeasuredFromHistory and MissingIsNotZero. *)

\* An engine's cycle is its own: it is in nobody else's record and in no record that was
\* written, and what the engine ranked is what try_measure says of the records that were
\* finished when it started.
InCycleSound(e) ==
  /\ eng[e].cycle \in 1..cycles /\ eng[e].ctx \in Contexts /\ eng[e].seen \in 0..Len(written)
  /\ \A i \in 1..Len(written) : written[i].cycle # eng[e].cycle
  /\ eng[e].pc # "cycle" => eng[e].rec \in Record /\ eng[e].rec.cycle = eng[e].cycle
  /\ eng[e].sound =>
       /\ eng[e].measured =
            try_measure(SubSeq(written, 1, eng[e].seen), eng[e].cycle, eng[e].ctx)
       /\ eng[e].top = top_bottleneck(eng[e].measured)

Active(e) == eng[e].pc # "idle"

CycleInv ==
  /\ cycles \in Nat /\ written \in Seq(Record)
  /\ \A i \in 1..Len(written) : written[i].cycle <= cycles
  /\ \A i, j \in 1..Len(written) : i # j => written[i].cycle # written[j].cycle
  /\ \A e \in Engines : Active(e) => InCycleSound(e)
  /\ \A e, o \in Engines : Active(e) /\ Active(o) /\ e # o => eng[e].cycle # eng[o].cycle

\* Steps of an engine that write no record and start no cycle.
LEMMA SameCycle ==
  ASSUME CycleInv, NEW e \in Engines, UNCHANGED <<cycles, written>>,
         \A o \in Others(e) : eng'[o] = eng[o],
         eng'[e].pc # "idle" =>
           /\ eng[e].pc # "idle"
           /\ eng'[e].cycle = eng[e].cycle /\ eng'[e].ctx = eng[e].ctx
           /\ eng'[e].seen = eng[e].seen /\ eng'[e].sound = eng[e].sound
           /\ eng'[e].measured = eng[e].measured /\ eng'[e].top = eng[e].top
           /\ eng'[e].pc # "cycle" =>
                eng'[e].rec \in Record /\ eng'[e].rec.cycle = eng[e].cycle
  PROVE  CycleInv'
<1>1. ASSUME NEW f \in Engines, Active(f)'
      PROVE  InCycleSound(f)' /\ Active(f) /\ eng'[f].cycle = eng[f].cycle
  <2>1. CASE f = e
    <3>1. Active(f) /\ InCycleSound(f)
      BY <1>1, <2>1 DEF Active, CycleInv
    <3>2. QED
      BY <1>1, <2>1, <3>1 DEF Active, InCycleSound
  <2>2. CASE f # e
    <3>1. f \in Others(e) /\ eng'[f] = eng[f]
      BY <2>2 DEF Others
    <3>2. Active(f) /\ InCycleSound(f)
      BY <1>1, <3>1 DEF Active, CycleInv
    <3>3. QED
      BY <3>1, <3>2 DEF InCycleSound
  <2>3. QED
    BY <2>1, <2>2
<1>2. QED
  BY <1>1 DEF CycleInv

\* A cycle starts with a fresh number and, unless appends have overlapped, from the records
\* that were finished.
LEMMA ObserveCycle ==
  ASSUME AppendInv, CycleInv, NEW e \in Engines, Observe(e)
  PROVE  CycleInv'
<1>1. DOMAIN eng = Engines
  BY DEF AppendInv, LogShape
<1>2. PICK ctx \in Contexts :
        LET m == measure_stages(file, cycles + 1, ctx)
        IN  eng' = [eng EXCEPT ![e] = [Idle EXCEPT
              !.pc = "cycle", !.cycle = cycles + 1, !.ctx = ctx, !.measured = m,
              !.top = top_bottleneck(m), !.seen = Len(written), !.sound = ~overlap]]
  BY DEF Observe
<1> DEFINE m == measure_stages(file, cycles + 1, ctx)
<1>3. /\ eng'[e].pc = "cycle" /\ eng'[e].cycle = cycles + 1 /\ eng'[e].ctx = ctx
      /\ eng'[e].measured = m /\ eng'[e].top = top_bottleneck(m)
      /\ eng'[e].seen = Len(written) /\ eng'[e].sound = ~overlap
      /\ \A o \in Others(e) : eng'[o] = eng[o]
  <2> HIDE DEF m
  <2>1. eng' = [eng EXCEPT ![e] = [Idle EXCEPT
              !.pc = "cycle", !.cycle = cycles + 1, !.ctx = ctx, !.measured = m,
              !.top = top_bottleneck(m), !.seen = Len(written), !.sound = ~overlap]]
    BY <1>2 DEF m
  <2>2. QED
    BY <1>1, <2>1 DEF Idle, Others
<1>4. cycles' = cycles + 1 /\ written' = written
  BY DEF Observe
<1>5. cycles \in Nat /\ written \in Seq(Record) /\ Len(written) \in Nat
  BY DEF CycleInv
<1>6. ~overlap => m = try_measure(SubSeq(written, 1, Len(written)), cycles + 1, ctx)
  <2>1. SubSeq(written, 1, Len(written)) = written
    BY <1>5
  <2>2. ~overlap => Readable(file) /\ read_records(file) = written
    BY DEF AppendInv
  <2>3. QED
    BY <2>1, <2>2 DEF measure_stages
<1> HIDE DEF m
<1>7. \A i \in 1..Len(written) : written[i].cycle \in Nat /\ written[i].cycle <= cycles
  <2>1. \A i \in 1..Len(written) : written[i] \in Record
    BY <1>5
  <2>2. QED
    BY <2>1 DEF CycleInv, Record
<1>8. \A i \in 1..Len(written) : written[i].cycle # cycles + 1 /\ written[i].cycle <= cycles + 1
  BY <1>5, <1>7
<1>9. InCycleSound(e)'
  <2>1. cycles + 1 \in 1..(cycles + 1) /\ Len(written) \in 0..Len(written)
    BY <1>5
  <2>2. eng'[e].sound => eng'[e].measured =
          try_measure(SubSeq(written', 1, eng'[e].seen), eng'[e].cycle, eng'[e].ctx)
    BY <1>3, <1>4, <1>6
  <2>3. QED
    BY <1>3, <1>4, <1>8, <2>1, <2>2 DEF InCycleSound
<1>10. ASSUME NEW f \in Others(e), Active(f)'
       PROVE  InCycleSound(f)' /\ Active(f) /\ eng'[f].cycle # cycles + 1
  <2>1. eng'[f] = eng[f] /\ f \in Engines
    BY <1>3 DEF Others
  <2>2. Active(f) /\ InCycleSound(f)
    BY <1>10, <2>1 DEF Active, CycleInv
  <2>3. eng[f].cycle \in 1..cycles
    BY <2>2 DEF InCycleSound
  <2>4. eng[f].cycle \in 1..(cycles + 1) /\ eng[f].cycle # cycles + 1
    BY <1>5, <2>3
  <2>5. QED
    BY <1>4, <2>1, <2>2, <2>4 DEF InCycleSound
<1>11. \A f \in Engines : f = e \/ f \in Others(e)
  BY DEF Others
<1>12. \A f \in Engines : Active(f)' => InCycleSound(f)'
  BY <1>9, <1>10, <1>11
<1>13. ASSUME NEW f \in Engines, NEW o \in Engines, Active(f)', Active(o)', f # o
       PROVE  eng'[f].cycle # eng'[o].cycle
  <2>1. CASE f = e
    BY <1>3, <1>10, <1>11, <1>13, <2>1
  <2>2. CASE o = e
    BY <1>3, <1>10, <1>11, <1>13, <2>2
  <2>3. CASE f # e /\ o # e
    <3>1. f \in Others(e) /\ o \in Others(e)
      BY <1>11, <2>3
    <3>2. Active(f) /\ Active(o) /\ eng'[f] = eng[f] /\ eng'[o] = eng[o]
      BY <1>3, <1>10, <1>13, <3>1
    <3>3. QED
      BY <1>13, <3>2 DEF CycleInv
  <2>4. QED
    BY <2>1, <2>2, <2>3
<1>14. QED
  BY <1>4, <1>5, <1>8, <1>12, <1>13 DEF CycleInv

\* A record joins the finished ones and its engine is idle again.
LEMMA RecordWritten ==
  ASSUME CycleInv, NEW e \in Engines, Active(e), ~At(e, "cycle"),
         cycles' = cycles, written' = Append(written, eng[e].rec), eng'[e] = Idle,
         \A o \in Others(e) : eng'[o] = eng[o]
  PROVE  CycleInv'
<1> DEFINE r == eng[e].rec
           n == Len(written)
<1>1. cycles \in Nat /\ written \in Seq(Record) /\ n \in Nat
  BY DEF CycleInv
<1>2. InCycleSound(e) /\ r \in Record /\ r.cycle = eng[e].cycle /\ r.cycle \in 1..cycles
  BY DEF CycleInv, InCycleSound, At
<1>3. \A i \in 1..n : written[i].cycle # r.cycle /\ written[i].cycle <= cycles
  BY <1>2 DEF CycleInv, InCycleSound
<1> HIDE DEF r
<1>4. /\ written' \in Seq(Record) /\ Len(written') = n + 1 /\ written'[n + 1] = r
      /\ \A i \in 1..n : written'[i] = written[i]
  BY <1>1, <1>2 DEF r
<1> HIDE DEF n
<1>5. \A i \in 1..(n + 1) : i = n + 1 \/ i \in 1..n
  BY <1>1
<1>6. \A i \in 1..Len(written') : written'[i].cycle <= cycles'
  BY <1>1, <1>2, <1>3, <1>4, <1>5
<1>7. ASSUME NEW i \in 1..Len(written'), NEW j \in 1..Len(written'), i # j
      PROVE  written'[i].cycle # written'[j].cycle
  <2>1. CASE i = n + 1
    BY <1>3, <1>4, <1>5, <1>7, <2>1
  <2>2. CASE j = n + 1
    BY <1>3, <1>4, <1>5, <1>7, <2>2
  <2>3. CASE i # n + 1 /\ j # n + 1
    <3>1. i \in 1..n /\ j \in 1..n
      BY <1>4, <1>5, <2>3
    <3>2. QED
      BY <1>4, <1>7, <3>1 DEF CycleInv, n
  <2>4. QED
    BY <2>1, <2>2, <2>3
<1>8. ASSUME NEW f \in Engines, Active(f)'
      PROVE  f # e /\ eng'[f] = eng[f] /\ Active(f) /\ InCycleSound(f)
  <2>1. f # e
    BY <1>8 DEF Active, Idle
  <2>2. eng'[f] = eng[f]
    BY <2>1 DEF Others
  <2>3. QED
    BY <1>8, <2>1, <2>2 DEF Active, CycleInv
<1>9. ASSUME NEW f \in Engines, Active(f)' PROVE InCycleSound(f)'
  <2>1. eng'[f] = eng[f] /\ InCycleSound(f) /\ eng[f].cycle # eng[e].cycle
    BY <1>8, <1>9 DEF CycleInv
  <2>2. eng[f].seen \in 0..n
    BY <2>1 DEF InCycleSound, n
  <2>3. SubSeq(written', 1, eng[f].seen) = SubSeq(written, 1, eng[f].seen)
    <3> DEFINE k == eng[f].seen
               a == SubSeq(written', 1, k)
               b == SubSeq(written, 1, k)
    <3>1. k \in Nat /\ k <= n
      BY <1>1, <2>2
    <3> HIDE DEF k
    <3>2. /\ a \in Seq(Record) /\ b \in Seq(Record) /\ Len(a) = k /\ Len(b) = k
          /\ \A i \in 1..k : a[i] = written'[i] /\ b[i] = written[i]
      BY <1>1, <1>4, <3>1 DEF n
    <3>3. \A i \in 1..k : written'[i] = written[i]
      BY <1>1, <1>4, <3>1
    <3> HIDE DEF a, b
    <3>4. a = b
      BY <3>2, <3>3, SeqEqual
    <3>5. QED
      BY <3>4 DEF a, b, k
  <2>4. \A i \in 1..Len(written') : written'[i].cycle # eng[f].cycle
    BY <1>2, <1>4, <1>5, <2>1 DEF InCycleSound, n
  <2>5. eng[f].seen \in 0..Len(written')
    BY <1>1, <1>4, <2>2
  <2>6. QED
    BY <2>1, <2>3, <2>4, <2>5 DEF InCycleSound
<1>10. \A f, o \in Engines : Active(f)' /\ Active(o)' /\ f # o => eng'[f].cycle # eng'[o].cycle
  BY <1>8 DEF CycleInv
<1>11. QED
  BY <1>1, <1>4, <1>6, <1>7, <1>9, <1>10 DEF CycleInv

\* Every step keeps CycleInv; a cycle that starts relies on AppendInv.
LEMMA CycleInvariant == SampleSpec => []CycleInv
<1>1. SampleInit => CycleInv
  <2> SUFFICES ASSUME SampleInit PROVE CycleInv
    OBVIOUS
  <2>1. cycles = 0 /\ written = <<>> /\ \A e \in Engines : eng[e].pc = "idle"
    BY DEF SampleInit, Idle
  <2>2. written \in Seq(Record) /\ 1..Len(written) = {}
    BY <2>1
  <2>3. QED
    BY <2>1, <2>2 DEF CycleInv, Active
<1>2. AppendInv /\ CycleInv /\ [SampleNext]_sampleVars => CycleInv'
  <2> SUFFICES ASSUME AppendInv, CycleInv, [SampleNext]_sampleVars PROVE CycleInv'
    OBVIOUS
  <2>1. ASSUME NEW e \in Engines, EngineStep(e) PROVE CycleInv'
    <3>1. DOMAIN eng = Engines /\ DOMAIN eng[e] = DOMAIN Idle /\ DOMAIN Idle =
            {"pc", "cycle", "ctx", "measured", "top", "rec", "keep", "seen", "sound"}
      BY DEF AppendInv, LogShape, Idle
    <3>2. CASE Observe(e)
      BY <3>2, ObserveCycle
    <3>3. CASE CycleErr(e) \/ GiveUp(e)
      <4>1. /\ UNCHANGED <<cycles, written>> /\ eng'[e].pc = "idle"
            /\ \A o \in Others(e) : eng'[o] = eng[o]
        BY <3>1, <3>3 DEF CycleErr, GiveUp, Finished, Others, Idle
      <4>2. QED
        BY <4>1, SameCycle
    <3>4. CASE CycleOk(e)
      <4>1. PICK t \in Timings :
              eng' = [eng EXCEPT ![e].pc = "open",
                        ![e].rec = [cycle |-> eng[e].cycle, ctx |-> eng[e].ctx, timing |-> t]]
        BY <3>4 DEF CycleOk
      <4>2. /\ UNCHANGED <<cycles, written>> /\ eng[e].pc = "cycle"
            /\ \A o \in Others(e) : eng'[o] = eng[o]
            /\ eng'[e].cycle = eng[e].cycle /\ eng'[e].ctx = eng[e].ctx
            /\ eng'[e].seen = eng[e].seen /\ eng'[e].sound = eng[e].sound
            /\ eng'[e].measured = eng[e].measured /\ eng'[e].top = eng[e].top
            /\ eng'[e].rec = [cycle |-> eng[e].cycle, ctx |-> eng[e].ctx, timing |-> t]
        BY <3>1, <3>4, <4>1 DEF CycleOk, Others, At
      <4>3. eng[e].cycle \in Nat /\ eng[e].ctx \in Contexts
        BY <4>2 DEF CycleInv, Active, InCycleSound
      <4>4. eng'[e].rec \in Record /\ eng'[e].rec.cycle = eng[e].cycle
        BY <4>2, <4>3 DEF Record
      <4>5. QED
        BY <4>2, <4>4, SameCycle
    <3>5. CASE LookAtTail(e) \/ Truncate(e) \/ WriteHead(e)
      <4>1. /\ UNCHANGED <<cycles, written>> /\ eng[e].pc \notin {"idle", "cycle"}
            /\ \A o \in Others(e) : eng'[o] = eng[o]
            /\ eng'[e].cycle = eng[e].cycle /\ eng'[e].ctx = eng[e].ctx
            /\ eng'[e].seen = eng[e].seen /\ eng'[e].sound = eng[e].sound
            /\ eng'[e].measured = eng[e].measured /\ eng'[e].top = eng[e].top
            /\ eng'[e].rec = eng[e].rec
        <5>1. CASE LookAtTail(e)
          BY <3>1, <5>1 DEF LookAtTail, Others, At
        <5>2. CASE Truncate(e)
          BY <3>1, <5>2 DEF Truncate, Others, At
        <5>3. CASE WriteHead(e)
          BY <3>1, <5>3 DEF WriteHead, Others, At
        <5>4. QED
          BY <3>5, <5>1, <5>2, <5>3
      <4>2. eng[e].rec \in Record /\ eng[e].rec.cycle = eng[e].cycle
        BY <4>1 DEF CycleInv, Active, InCycleSound
      <4>3. QED
        BY <4>1, <4>2, SameCycle
    <3>6. CASE WriteLine(e) \/ WriteRest(e)
      <4>1. /\ cycles' = cycles /\ written' = Append(written, eng[e].rec) /\ eng'[e] = Idle
            /\ \A o \in Others(e) : eng'[o] = eng[o]
            /\ Active(e) /\ ~At(e, "cycle")
        BY <3>1, <3>6 DEF WriteLine, WriteRest, Finished, Others, At, Active
      <4>2. QED
        BY <4>1, RecordWritten
    <3>7. QED
      BY <2>1, <3>2, <3>3, <3>4, <3>5, <3>6 DEF EngineStep
  <2>2. CASE UNCHANGED sampleVars
    BY <2>2 DEF sampleVars, CycleInv, InCycleSound, Active
  <2>3. QED
    BY <2>1, <2>2 DEF SampleNext
<1>3. QED
  BY <1>1, <1>2, AppendInvariant, PTL DEF SampleSpec

\* The reference of the properties is the reference over the records that were finished
\* when the engine read the log.
LEMMA SeenIsPrefix ==
  ASSUME CycleInv, NEW e \in Engines, InCycle(e), NEW w, w = SubSeq(written, 1, eng[e].seen)
  PROVE  /\ w \in Seq(Record) /\ OfOthers(w, eng[e].cycle)
         /\ \A s : Having(e, s) = HavingIn(w, eng[e].ctx, s)
         /\ \A s, i : i \in Having(e, s) => w[i] = written[i]
<1> DEFINE k == eng[e].seen
<1>1. InCycleSound(e) /\ written \in Seq(Record) /\ k \in 0..Len(written)
  BY DEF CycleInv, InCycle, Active, InCycleSound
<1> HIDE DEF k
<1>2. /\ w \in Seq(Record) /\ Len(w) = k /\ k \in Nat /\ k <= Len(written)
      /\ \A i \in 1..k : w[i] = written[i]
  BY <1>1 DEF k
<1>3. \A i \in 1..k : i \in 1..Len(written)
  BY <1>1, <1>2
<1>4. OfOthers(w, eng[e].cycle)
  BY <1>1, <1>2, <1>3 DEF OfOthers, CycleInv, InCycleSound
<1>5. SameContext(w, eng[e].ctx) = {i \in 1..k : written[i].ctx = eng[e].ctx}
  BY <1>2 DEF SameContext
<1>6. Recent(e) = Latest(SameContext(w, eng[e].ctx)) /\ Recent(e) \subseteq 1..k
  BY <1>5 DEF Recent, Latest, k
<1>7. \A s : Having(e, s) = HavingIn(w, eng[e].ctx, s) /\ Having(e, s) \subseteq 1..k
  BY <1>2, <1>6 DEF Having, HavingIn
<1>8. QED
  BY <1>2, <1>4, <1>7

\* What an engine ranked is what the reference says of each stage.
LEMMA EngineSound ==
  ASSUME CycleInv, NEW e \in Engines, InCycle(e), NEW s \in Stage
  PROVE  StageSound(written, Having(e, s), s, eng[e].measured[s])
<1> DEFINE w == SubSeq(written, 1, eng[e].seen)
           H == Having(e, s)
           m == eng[e].measured[s]
<1>1. /\ w \in Seq(Record) /\ OfOthers(w, eng[e].cycle) /\ H = HavingIn(w, eng[e].ctx, s)
      /\ \A i \in H : w[i] = written[i]
  BY SeenIsPrefix
<1>2. eng[e].measured = try_measure(w, eng[e].cycle, eng[e].ctx)
  BY DEF CycleInv, InCycle, Active, InCycleSound
<1> HIDE DEF w, H
<1>3. StageSound(w, H, s, m)
  BY <1>1, <1>2, TryMeasureSound
<1> HIDE DEF m
<1>4. \A x : {i \in H : w[i].timing[s].us <= x} = {i \in H : written[i].timing[s].us <= x}
  BY <1>1
<1>5. {i \in H : w[i].timing[s].failed} = {i \in H : written[i].timing[s].failed}
  BY <1>1
<1>6. \A p, v : PercentileIn(w, H, s, p, v) <=> PercentileIn(written, H, s, p, v)
  BY <1>1, <1>4 DEF PercentileIn
<1>7. StageSound(written, H, s, m)
  BY <1>3, <1>5, <1>6 DEF StageSound
<1>8. QED
  BY <1>7 DEF H, m

\* What a cycle takes as measured is what the finished cycles of the same workload and
\* profile recorded: the last Window of them and no others, none where there are too few,
\* and the median and the p95 are their nearest-rank percentiles. This holds for every
\* cycle that read the log before any overlap, whatever is appended, cut or killed later.
THEOREM MeasurementsAreHistory == SampleSpec => []MeasuredFromHistory
<1>1. CycleInv => MeasuredFromHistory
  <2> SUFFICES ASSUME CycleInv, NEW e \in Engines, InCycle(e), NEW s \in Stage
               PROVE  LET m == eng[e].measured[s]
                          n == Cardinality(Having(e, s))
                      IN  IF n < MinSamples THEN ~m.measured
                          ELSE /\ m.measured /\ m.n = n
                               /\ IsPercentile(e, s, 50, m.median)
                               /\ m.failed =
                                    Cardinality({i \in Having(e, s) : written[i].timing[s].failed})
                               /\ IF n < P95Min THEN m.p95 = <<>>
                                  ELSE IsPercentile(e, s, 95, m.p95[1])
    BY DEF MeasuredFromHistory
  <2>1. StageSound(written, Having(e, s), s, eng[e].measured[s])
    BY EngineSound
  <2>2. \A p, v : IsPercentile(e, s, p, v) <=> PercentileIn(written, Having(e, s), s, p, v)
    BY DEF IsPercentile, PercentileIn
  <2>3. QED
    BY <2>1, <2>2 DEF StageSound
<1>2. QED
  BY <1>1, CycleInvariant, PTL

\* While a stage lacks samples, neither a duration nor a failure of another stage decides
\* which one comes first: the ranking is the one of the pipeline's shape.
THEOREM MissingNeverRanks == SampleSpec => []MissingIsNotZero
<1>1. CycleInv => MissingIsNotZero
  <2> SUFFICES ASSUME CycleInv, NEW e \in Engines, InCycle(e), NEW s \in Stage,
                      Cardinality(Having(e, s)) < MinSamples
               PROVE  eng[e].top = "BuildJail"
    BY DEF MissingIsNotZero
  <2>1. ~eng[e].measured[s].measured
    BY EngineSound DEF StageSound
  <2>2. ~MeasuredBasis(eng[e].measured)
    BY <2>1 DEF MeasuredBasis
  <2>3. eng[e].top = top_bottleneck(eng[e].measured)
    BY DEF CycleInv, InCycle, Active, InCycleSound
  <2>4. QED
    BY <2>2, <2>3, TopByShape
<1>2. QED
  BY <1>1, CycleInvariant, PTL
=============================================================================
