---------------------------- MODULE Tailer_proofs ----------------------------
(***************************************************************************)
(* The tailers and the loop that ships their records, for any paths, files,*)
(* lines, tears, truncations and lost posts.                               *)
(***************************************************************************)
EXTENDS Tailer, FiniteSetTheorems, SequenceTheorems, NaturalsInduction,
        WellFoundedInduction, TLAPS

-----------------------------------------------------------------------------
(* Sequences of units.                                                     *)
LEMMA NatLeast ==
  ASSUME NEW S, S \subseteq Nat, S # {}
  PROVE  \E m \in S : \A n \in S : m <= n
<1> DEFINE R == OpToRel(<, Nat)
<1>1. IsWellFoundedOn(R, Nat)
  BY NatLessThanWellFounded
<1>2. \A m, n \in Nat : m < n => <<m, n>> \in R
  BY Zenon DEF OpToRel
<1> HIDE DEF R
<1>3. PICK m \in S : \A n \in S : <<n, m>> \notin R
  BY <1>1, WFMin
<1>4. ASSUME NEW n \in S PROVE m <= n
  <2>1. m \in Nat /\ n \in Nat /\ ~(n < m)
    BY <1>2, <1>3
  <2> QED
    BY <2>1
<1> QED
  BY <1>4

LEMMA MinIs ==
  ASSUME NEW S, S \subseteq Nat, S # {}
  PROVE  Min(S) \in S /\ \A n \in S : Min(S) <= n
<1>1. PICK m \in S : \A n \in S : m <= n
  BY NatLeast
<1> QED
  BY <1>1 DEF Min

LEMMA MaxIs ==
  ASSUME NEW S, NEW b \in Nat, S \subseteq 0..b, S # {}
  PROVE  Max(S) \in S /\ \A n \in S : Max(S) >= n
<1> DEFINE T == {b - n : n \in S}
<1>1. T \subseteq Nat /\ T # {}
  <2>1. \A n \in S : b - n \in Nat
    BY SMT
  <2> QED
    BY <2>1
<1>2. PICK m \in T : \A n \in T : m <= n
  BY <1>1, NatLeast
<1>3. PICK x \in S : m = b - x
  OBVIOUS
<1>4. ASSUME NEW n \in S PROVE x >= n
  <2>1. b - n \in T /\ n \in 0..b /\ x \in 0..b
    OBVIOUS
  <2>2. b - x <= b - n
    BY <1>2, <1>3, <2>1
  <2> QED
    BY <2>1, <2>2
<1> QED
  BY <1>3, <1>4 DEF Max

IsRest(u) == u.part = "rest"

LEMMA LineEndFacts ==
  ASSUME NEW us \in Seq(Unit)
  PROVE  /\ LineEnd(us) \in 0..Len(us) /\ Len(us) \in Nat
         /\ LineEnd(us) = 0 => \A i \in 1..Len(us) : ~IsRest(us[i])
         /\ LineEnd(us) # 0 => /\ IsRest(us[LineEnd(us)])
                               /\ \A i \in 1..(LineEnd(us) - 1) : ~IsRest(us[i])
<1> DEFINE I == {i \in 1..Len(us) : us[i].part = "rest"}
<1>1. Len(us) \in Nat /\ I \subseteq Nat
  BY LenProperties
<1>2. LineEnd(us) = IF I # {} THEN Min(I) ELSE 0
  BY DEF LineEnd, SelectInSeq
<1>3. I # {} => Min(I) \in I /\ \A n \in I : Min(I) <= n
  BY <1>1, MinIs
<1>4. CASE I = {}
  BY <1>1, <1>2, <1>4 DEF IsRest
<1>5. CASE I # {}
  <2>1. LineEnd(us) \in I /\ \A n \in I : LineEnd(us) <= n
    BY <1>2, <1>3, <1>5
  <2>2. ASSUME NEW i \in 1..(LineEnd(us) - 1) PROVE ~IsRest(us[i])
    <3>1. i \in 1..Len(us) /\ ~(LineEnd(us) <= i)
      BY <1>1, <2>1
    <3> QED
      BY <2>1, <3>1 DEF IsRest
  <2> QED
    BY <1>1, <2>1, <2>2 DEF IsRest
<1> QED
  BY <1>4, <1>5

LEMMA FirstLineFacts ==
  ASSUME NEW data \in Seq(Unit), NEW raw, raw = FirstLine(data)
  PROVE  /\ raw \in Seq(Unit) /\ Len(raw) <= Len(data) /\ Len(raw) \in Nat /\ Len(data) \in Nat
         /\ \A i \in 1..Len(raw) : raw[i] = data[i]
         /\ LineEnd(data) = 0 => raw = data
         /\ LineEnd(data) # 0 => Len(raw) >= 1 /\ IsRest(raw[Len(raw)])
         /\ \A i \in 1..(Len(raw) - 1) : ~IsRest(raw[i])
<1>1. /\ LineEnd(data) \in 0..Len(data) /\ Len(data) \in Nat
      /\ LineEnd(data) # 0 => IsRest(data[LineEnd(data)])
      /\ LineEnd(data) = 0 => \A i \in 1..Len(data) : ~IsRest(data[i])
      /\ LineEnd(data) # 0 => \A i \in 1..(LineEnd(data) - 1) : ~IsRest(data[i])
  BY LineEndFacts
<1>2. CASE LineEnd(data) = 0
  <2>1. raw = data /\ \A i \in 1..(Len(raw) - 1) : i \in 1..Len(data)
    BY <1>1, <1>2 DEF FirstLine
  <2> QED
    BY <1>1, <1>2, <2>1
<1>3. CASE LineEnd(data) # 0
  <2> PICK n : n = LineEnd(data)
    OBVIOUS
  <2>1. raw = SubSeq(data, 1, n) /\ n \in 1..Len(data)
    BY <1>1, <1>3 DEF FirstLine
  <2>2. \A i \in 1..n : data[i] \in Unit
    BY <1>1, <2>1, ElementOfSeq
  <2>3. raw \in Seq(Unit) /\ Len(raw) = n /\ \A i \in 1..n : raw[i] = data[i]
    <3>1. 1 \in Int /\ n \in Int /\ 1 <= n /\ n - 1 + 1 = n
      BY <2>1
    <3>2. /\ SubSeq(data, 1, n) \in Seq(Unit)
          /\ Len(SubSeq(data, 1, n)) = IF 1 <= n THEN n - 1 + 1 ELSE 0
          /\ \A i \in 1..(n - 1 + 1) : SubSeq(data, 1, n)[i] = data[1 + i - 1]
      BY <2>2, <3>1, SubSeqProperties
    <3> QED
      BY <2>1, <3>1, <3>2
  <2>4. \A i \in 1..(Len(raw) - 1) : ~IsRest(raw[i])
    <3>1. \A i \in 1..(n - 1) : i \in 1..n /\ ~IsRest(data[i])
      BY <1>1, <1>3, <2>1
    <3> QED
      BY <2>3, <3>1
  <2>5. Len(raw) <= Len(data) /\ Len(raw) \in Nat /\ Len(raw) >= 1 /\ IsRest(raw[Len(raw)])
    BY <1>1, <1>3, <2>1, <2>3
  <2> QED
    BY <1>1, <1>3, <2>3, <2>4, <2>5
<1> QED
  BY <1>2, <1>3

(* What is left of data after its first line.                              *)
LEMMA LeftFacts ==
  ASSUME NEW data \in Seq(Unit), NEW n \in 0..Len(data),
         NEW left, left = SubSeq(data, n + 1, Len(data))
  PROVE  /\ left \in Seq(Unit) /\ Len(left) = Len(data) - n
         /\ \A i \in 1..Len(left) : left[i] = data[n + i]
<1>1. Len(data) \in Nat /\ n \in Nat /\ n <= Len(data)
  BY LenProperties
<1>2. \A i \in (n + 1)..Len(data) : data[i] \in Unit
  BY <1>1, ElementOfSeq
<1>3. n + 1 \in Int /\ Len(data) \in Int
  BY <1>1
<1>4. /\ left \in Seq(Unit)
      /\ Len(left) = IF n + 1 <= Len(data) THEN Len(data) - (n + 1) + 1 ELSE 0
      /\ \A i \in 1..(Len(data) - (n + 1) + 1) : left[i] = data[n + 1 + i - 1]
  BY <1>2, <1>3, SubSeqProperties
<1>5. Len(left) = Len(data) - n
  BY <1>1, <1>4
<1> QED
  BY <1>1, <1>4, <1>5

(* What is buffered, followed by the rest of a file.                       *)
Joined(buf, file, pos) == buf \o SubSeq(file, pos + 1, Len(file))

LEMMA JoinedFacts ==
  ASSUME NEW buf \in Seq(Unit), NEW file \in Seq(Unit), NEW pos \in Nat,
         NEW data, data = Joined(buf, file, pos)
  PROVE  /\ data \in Seq(Unit)
         /\ pos <= Len(file) =>
              /\ Len(data) = Len(buf) + Len(file) - pos
              /\ \A i \in 1..Len(data) :
                   data[i] = IF i <= Len(buf) THEN buf[i] ELSE file[pos + (i - Len(buf))]
<1> PICK more : more = SubSeq(file, pos + 1, Len(file))
  OBVIOUS
<1>1. Len(file) \in Nat /\ Len(buf) \in Nat
  BY LenProperties
<1>2. CASE pos <= Len(file)
  <2>1. pos \in 0..Len(file)
    BY <1>1, <1>2
  <2>2. /\ more \in Seq(Unit) /\ Len(more) = Len(file) - pos
        /\ \A i \in 1..Len(more) : more[i] = file[pos + i]
    BY <2>1, LeftFacts
  <2>3. /\ data \in Seq(Unit) /\ Len(data) = Len(buf) + Len(more)
        /\ \A i \in 1..(Len(buf) + Len(more)) :
             data[i] = IF i <= Len(buf) THEN buf[i] ELSE more[i - Len(buf)]
    BY <2>2, ConcatProperties DEF Joined
  <2>4. ASSUME NEW i \in 1..Len(data)
        PROVE  data[i] = IF i <= Len(buf) THEN buf[i] ELSE file[pos + (i - Len(buf))]
    <3>1. i \in 1..(Len(buf) + Len(more)) /\ Len(more) \in Nat /\ i \in Nat
      BY <1>1, <1>2, <2>2, <2>3
    <3>2. ~(i <= Len(buf)) => i - Len(buf) \in 1..Len(more)
      BY <1>1, <3>1
    <3>3. CASE i <= Len(buf)
      BY <2>3, <3>1, <3>3
    <3>4. CASE ~(i <= Len(buf))
      <4> PICK j : j = i - Len(buf)
        OBVIOUS
      <4>1. data[i] = more[j] /\ j \in 1..Len(more)
        BY <2>3, <3>1, <3>2, <3>4
      <4> QED
        BY <2>2, <3>4, <4>1
    <3> QED
      BY <3>3, <3>4
  <2> QED
    BY <1>1, <1>2, <2>2, <2>3, <2>4
<1>3. CASE ~(pos <= Len(file))
  <2>1. more = <<>>
    BY <1>1, <1>3, SubSeqEmpty
  <2> QED
    BY <1>3, <2>1, ConcatEmptySeq DEF Joined
<1> QED
  BY <1>2, <1>3

-----------------------------------------------------------------------------
(* Types.                                                                  *)
Reader ==
  [pc : {"read", "poll"}, ino : Inode, pos : Nat, buf : Seq(Unit), partial : Seq(Unit),
   cur : [ino : Inode, size : Nat]]

LoopFits == loop = "select" => Len(batch) < BatchSize

Types == TypeOK /\ LoopFits

LEMMA ReaderIs ==
  ASSUME Types, NEW p \in Path
  PROVE  /\ IsOpen(p) => tail[p] \in Reader
         /\ ~IsOpen(p) => tail[p] \in {Off, Starting}
         /\ tail[p] \in {Off, Starting} => ~IsOpen(p)
<1>1. tail[p] \in {Off, Starting} \cup Reader
  BY DEF Types, TypeOK, TailerState, Reader
<1>2. Off.pc = "off" /\ Starting.pc = "start"
  BY DEF Off, Starting
<1>3. \A t \in Reader : t.pc \in {"read", "poll"}
  BY DEF Reader
<1> QED
  BY <1>1, <1>2, <1>3 DEF IsOpen

LEMMA ReaderIsTailer == Reader \subseteq TailerState /\ {Off, Starting} \subseteq TailerState
BY DEF Reader, TailerState

(* A tailer that is put in place.                                          *)
LEMMA MoveType ==
  ASSUME Types, NEW p \in Path, NEW t, t \in TailerState, Move(p, t)
  PROVE  /\ tail' \in [Path -> TailerState] /\ tail'[p] = t
         /\ \A q \in Path \ {p} : tail'[q] = tail[q]
BY DEF Types, TypeOK, Move

(* Fields of a reader that are replaced.                                   *)
LEMMA ReaderPolled ==
  ASSUME NEW t \in Reader, NEW st, st \in [ino : Inode, size : Nat],
         NEW u, u = [t EXCEPT !.pc = "read", !.cur = st]
  PROVE  /\ u \in Reader /\ u.ino = t.ino /\ u.pos = t.pos /\ u.buf = t.buf
         /\ u.partial = t.partial /\ u.cur = st
BY DEF Reader

LEMMA ReaderRead ==
  ASSUME NEW t \in Reader, NEW c \in {"read", "poll"}, NEW b \in Seq(Unit), NEW n \in Nat,
         NEW m \in Seq(Unit),
         NEW u, u = [t EXCEPT !.pc = c, !.buf = b, !.pos = n, !.partial = m]
  PROVE  /\ u \in Reader /\ u.ino = t.ino /\ u.pos = n /\ u.buf = b
         /\ u.partial = m /\ u.cur = t.cur
BY DEF Reader

LEMMA NewReaderIs ==
  ASSUME Types, NEW i \in Inode, NEW n \in Nat, NEW u, u = NewReader(i, n)
  PROVE  /\ u \in Reader /\ u.ino = i /\ u.pos = n /\ u.buf = <<>> /\ u.partial = <<>>
         /\ u.cur.ino = i /\ u.cur.size = Len(files[i])
         /\ statInfo(i) \in [ino : Inode, size : Nat]
<1>1. files[i] \in Seq(Unit)
  BY DEF Types, TypeOK
<1>2. Len(files[i]) \in Nat /\ <<>> \in Seq(Unit)
  BY <1>1, LenProperties
<1> QED
  BY <1>2 DEF NewReader, statInfo, Reader

(* What a read works on.  The tailer's first unread unit is at from + 1.   *)
LEMMA DataFacts ==
  ASSUME Types, NEW p \in Path, IsOpen(p), NEW t, t = tail[p],
         NEW data, data = Data(t)
  PROVE  /\ data \in Seq(Unit) /\ Offset(t) \in Nat
         /\ Len(files[t.ino]) \in Nat /\ Len(t.buf) \in Nat /\ t.pos \in Nat
         /\ LineEnd(data) = 0 => ~Buffered(t)
         /\ Buffered(t) => data = t.buf /\ Offset(t) = t.pos
         /\ (~Buffered(t) /\ t.pos <= Len(files[t.ino])) =>
              /\ Offset(t) = Len(files[t.ino])
              /\ Len(data) = Len(t.buf) + Len(files[t.ino]) - t.pos
              /\ \A i \in 1..Len(data) :
                   data[i] = IF i <= Len(t.buf) THEN t.buf[i]
                             ELSE files[t.ino][t.pos + (i - Len(t.buf))]
<1>1. t \in Reader
  BY ReaderIs
<1>2. t.buf \in Seq(Unit) /\ t.pos \in Nat /\ t.ino \in Inode
  BY <1>1 DEF Reader
<1>3. files[t.ino] \in Seq(Unit)
  BY <1>2 DEF Types, TypeOK
<1>4. Len(files[t.ino]) \in Nat /\ Len(t.buf) \in Nat
  BY <1>2, <1>3, LenProperties
<1>5. CASE Buffered(t)
  BY <1>2, <1>4, <1>5 DEF Data, Offset, Buffered
<1>6. CASE ~Buffered(t)
  <2>1. data = t.buf \o SubSeq(files[t.ino], t.pos + 1, Len(files[t.ino]))
    BY <1>6 DEF Data
  <2>2. Offset(t) = IF t.pos > Len(files[t.ino]) THEN t.pos ELSE Len(files[t.ino])
    BY <1>6 DEF Offset
  <2> PICK buf, file, pos : buf = t.buf /\ file = files[t.ino] /\ pos = t.pos
    OBVIOUS
  <2>3. /\ data \in Seq(Unit)
        /\ pos <= Len(file) =>
              /\ Len(data) = Len(buf) + Len(file) - pos
              /\ \A i \in 1..Len(data) :
                   data[i] = IF i <= Len(buf) THEN buf[i] ELSE file[pos + (i - Len(buf))]
    <3>1. /\ buf \in Seq(Unit) /\ file \in Seq(Unit) /\ pos \in Nat
          /\ data = Joined(buf, file, pos)
      BY <1>2, <1>3, <2>1 DEF Joined
    <3>2. data \in Seq(Unit)
      BY ONLY <3>1, JoinedFacts
    <3>3. pos <= Len(file) => Len(data) = Len(buf) + Len(file) - pos
      BY ONLY <3>1, JoinedFacts
    <3>4. pos <= Len(file) =>
            \A i \in 1..Len(data) :
              data[i] = IF i <= Len(buf) THEN buf[i] ELSE file[pos + (i - Len(buf))]
      BY ONLY <3>1, JoinedFacts
    <3> QED
      BY ONLY <3>2, <3>3, <3>4
  <2>4. Offset(t) \in Nat /\ (t.pos <= Len(file) => Offset(t) = Len(file))
    BY <1>2, <1>4, <2>2
  <2> QED
    BY <1>2, <1>4, <1>6, <2>3, <2>4
<1>7. LineEnd(data) = 0 => ~Buffered(t)
  BY <1>5 DEF Data, Buffered
<1> QED
  BY <1>2, <1>4, <1>5, <1>6, <1>7
(* What a turn of the loop does with the line it reads.                    *)
Passes(t, raw, read) ==
  (raw = <<>> \/ ~Parses(raw)) /\ read.tailer.partial = t.partial /\ read.out = <<>>
Builds(t, raw, read) ==
  raw # <<>> /\ Parses(raw) /\ raw[1].tag = "P" /\ read.tailer.partial = t.partial \o raw /\ read.out = <<>>
Emits(p, t, raw, read) ==
  /\ raw # <<>> /\ Parses(raw) /\ read.tailer.partial = <<>>
  /\ read.out = <<[path |-> p, msg |-> t.partial \o raw]>>

LEMMA ReadFacts ==
  ASSUME Types, NEW p \in Path, NEW read \in Reads(p), NEW t, t = tail[p],
         NEW data, data = Data(t), NEW raw, raw = FirstLine(data)
  PROVE  /\ IsOpen(p) /\ t \in Reader
         /\ read.tailer \in Reader
         /\ read.tailer.ino = t.ino /\ read.tailer.cur = t.cur
         /\ read.tailer.pos = Offset(t)
         /\ read.tailer.buf = SubSeq(data, Len(raw) + 1, Len(data))
         /\ Passes(t, raw, read) \/ Builds(t, raw, read) \/ Emits(p, t, raw, read)
<1>1. tail[p].pc = "read" /\ read = AfterRead(p, data, raw)
  BY DEF Reads
<1>2. IsOpen(p) /\ t \in Reader
  BY <1>1, ReaderIs DEF IsOpen
<1> DEFINE again == raw # <<>> /\ Parses(raw) /\ raw[1].tag = "P"
           made == IF raw = <<>> THEN [partial |-> t.partial, out |-> <<>>] ELSE Coalesce(p, raw)
           pc == IF LineEnd(data) = 0 /\ ~again THEN "poll" ELSE "read"
           left == SubSeq(data, Len(raw) + 1, Len(data))
<1>3. /\ read.tailer = [t EXCEPT !.pc = pc, !.buf = left, !.pos = Offset(t), !.partial = made.partial]
      /\ read.out = made.out
  BY <1>1 DEF AfterRead
<1>4. data \in Seq(Unit) /\ Offset(t) \in Nat
  BY <1>2, DataFacts
<1>5. raw \in Seq(Unit) /\ Len(raw) \in 0..Len(data)
  BY <1>4, FirstLineFacts
<1>6. left \in Seq(Unit)
  BY <1>4, <1>5, LeftFacts
<1>7. t.partial \in Seq(Unit)
  BY <1>2 DEF Reader
<1>8. t.partial \o raw \in Seq(Unit) /\ <<>> \in Seq(Unit)
  BY <1>5, <1>7, ConcatProperties
<1>9. \/ (raw = <<>> \/ ~Parses(raw)) /\ made = [partial |-> t.partial, out |-> <<>>]
      \/ /\ raw # <<>> /\ Parses(raw) /\ raw[1].tag = "P"
         /\ made = [partial |-> t.partial \o raw, out |-> <<>>]
      \/ /\ raw # <<>> /\ Parses(raw)
         /\ made = [partial |-> <<>>, out |-> <<[path |-> p, msg |-> t.partial \o raw]>>]
  BY <1>1 DEF Coalesce
<1> HIDE DEF made, left, pc
<1>10. \/ (raw = <<>> \/ ~Parses(raw)) /\ made.partial = t.partial /\ made.out = <<>>
       \/ /\ raw # <<>> /\ Parses(raw) /\ raw[1].tag = "P"
          /\ made.partial = t.partial \o raw /\ made.out = <<>>
       \/ /\ raw # <<>> /\ Parses(raw)
          /\ made.partial = <<>> /\ made.out = <<[path |-> p, msg |-> t.partial \o raw]>>
  <2>1. CASE (raw = <<>> \/ ~Parses(raw)) /\ made = [partial |-> t.partial, out |-> <<>>]
    BY <2>1
  <2>2. CASE /\ raw # <<>> /\ Parses(raw) /\ raw[1].tag = "P"
             /\ made = [partial |-> t.partial \o raw, out |-> <<>>]
    BY <2>2
  <2>3. CASE /\ raw # <<>> /\ Parses(raw)
             /\ made = [partial |-> <<>>, out |-> <<[path |-> p, msg |-> t.partial \o raw]>>]
    BY <2>3
  <2> QED
    BY <1>9, <2>1, <2>2, <2>3
<1>11. made.partial \in Seq(Unit) /\ pc \in {"read", "poll"}
  BY <1>7, <1>8, <1>10 DEF pc
<1> PICK u : u = read.tailer
  OBVIOUS
<1>12. /\ u \in Reader /\ u.ino = t.ino /\ u.pos = Offset(t) /\ u.buf = left
       /\ u.partial = made.partial /\ u.cur = t.cur
  <2> PICK c, m, n : c = pc /\ m = made.partial /\ n = Offset(t)
    OBVIOUS
  <2>1. u = [t EXCEPT !.pc = c, !.buf = left, !.pos = n, !.partial = m]
    BY <1>3
  <2>2. t \in Reader /\ c \in {"read", "poll"} /\ left \in Seq(Unit) /\ n \in Nat /\ m \in Seq(Unit)
    BY <1>2, <1>4, <1>6, <1>11
  <2>3. u \in Reader /\ u.ino = t.ino /\ u.pos = n /\ u.buf = left
        /\ u.partial = m /\ u.cur = t.cur
    BY ONLY <2>1, <2>2 DEF Reader
  <2> QED
    BY <2>3
<1> QED
  BY <1>2, <1>3, <1>10, <1>12 DEF Passes, Builds, Emits, left

(* A record that is emitted.                                               *)
LEMMA RecordFacts ==
  ASSUME NEW p \in Path, NEW m \in Seq(Unit), NEW r, r = [path |-> p, msg |-> m]
  PROVE  r \in Record /\ r.path = p /\ r.msg = m
BY DEF Record

(* What OnRecord makes of the channel.                                     *)
LEMMA SentFacts ==
  ASSUME Types, NEW p \in Path, NEW read \in Reads(p), OnRecord(read.out), NEW t, t = tail[p]
  PROVE  /\ in' \in Seq(Record) /\ Len(in') <= ChanSize
         /\ \/ in' = in
            \/ LET raw == FirstLine(Data(t))
                   r == [path |-> p, msg |-> t.partial \o raw]
               IN /\ in' = in \o <<r>> /\ Len(in) < ChanSize
                  /\ r \in Record /\ r.path = p /\ r.msg = t.partial \o raw
                  /\ Emits(p, t, raw, read)
<1> PICK raw, data : data = Data(t) /\ raw = FirstLine(data)
  OBVIOUS
<1> PICK r : r = [path |-> p, msg |-> t.partial \o raw]
  OBVIOUS
<1>1. /\ IsOpen(p) /\ t \in Reader
      /\ Passes(t, raw, read) \/ Builds(t, raw, read) \/ Emits(p, t, raw, read)
  BY ReadFacts
<1>2. data \in Seq(Unit)
  BY <1>1, DataFacts
<1>3. raw \in Seq(Unit)
  BY <1>2, FirstLineFacts
<1>4. t.partial \o raw \in Seq(Unit)
  <2>1. t.partial \in Seq(Unit)
    BY <1>1 DEF Reader
  <2> QED
    BY <1>3, <2>1, ConcatProperties
<1>5. r \in Record /\ r.path = p /\ r.msg = t.partial \o raw
  BY <1>4, RecordFacts
<1>6. in \in Seq(Record) /\ Len(in) <= ChanSize /\ Len(in) \in Nat /\ ChanSize \in Nat
  BY ShipAssumption, LenProperties DEF Types, TypeOK
<1>7. in' = IF Len(in) < ChanSize THEN in \o read.out ELSE in
  BY DEF OnRecord
<1>8. CASE read.out = <<>>
  BY <1>6, <1>7, <1>8, ConcatEmptySeq
<1>9. CASE Emits(p, t, raw, read) /\ Len(in) < ChanSize
  <2>1. in' = in \o <<r>> /\ <<r>> \in Seq(Record) /\ Len(<<r>>) = 1
    BY <1>5, <1>7, <1>9 DEF Emits
  <2>2. in' \in Seq(Record) /\ Len(in') = Len(in) + 1
    BY <1>6, <2>1, ConcatProperties
  <2>3. Len(in') <= ChanSize
    BY <1>6, <1>9, <2>1, <2>2
  <2> QED
    BY <1>5, <1>9, <2>1, <2>2, <2>3
<1>10. CASE ~(Len(in) < ChanSize)
  BY <1>6, <1>7, <1>10
<1> QED
  BY <1>1, <1>8, <1>9, <1>10 DEF Passes, Builds

LEMMA LinesIn ==
  ASSUME NEW r \in Record
  PROVE  LineNumbers(r) \subseteq 1..MaxLines
<1>1. r.msg \in Seq(Unit)
  BY DEF Record
<1>2. \A i \in DOMAIN r.msg : r.msg[i] \in Unit
  BY <1>1, ElementOfSeq, LenProperties
<1> QED
  BY <1>2 DEF LineNumbers, ToSet, Unit
-----------------------------------------------------------------------------
(* What the node does to a file: units are added at its end, a beginning   *)
(* with a new number, a rest next to its beginning.                        *)
Added(p, old, new) ==
  /\ Len(new) \in Nat /\ Len(old) <= Len(new)
  /\ \A a \in 1..Len(old) : new[a] = old[a]
  /\ \A a \in (Len(old) + 1)..Len(new) :
       \/ /\ a = Len(old) + 1 /\ ~IsRest(new[a]) /\ (a > 1 => IsRest(new[a - 1]))
          /\ new[a].line = lines + 1 /\ lines' = lines + 1 /\ new[a].path = p
       \/ /\ a > 1 /\ IsRest(new[a]) /\ ~IsRest(new[a - 1])
          /\ new[a].line = new[a - 1].line /\ new[a].path = new[a - 1].path
          /\ new[a].tag = new[a - 1].tag

LEMMA AppendedFacts ==
  ASSUME NEW p, NEW old \in Seq(Unit), NEW u \in Unit, NEW new, new = Append(old, u),
         \/ /\ ~IsRest(u) /\ (old # <<>> => IsRest(old[Len(old)]))
            /\ u.line = lines + 1 /\ lines' = lines + 1 /\ u.path = p
         \/ /\ old # <<>> /\ IsRest(u) /\ ~IsRest(old[Len(old)])
            /\ u.line = old[Len(old)].line /\ u.path = old[Len(old)].path /\ u.tag = old[Len(old)].tag
  PROVE  new \in Seq(Unit) /\ Added(p, old, new)
<1>1. /\ new \in Seq(Unit) /\ Len(new) = Len(old) + 1 /\ Len(old) \in Nat
      /\ \A a \in 1..Len(old) : new[a] = old[a]
      /\ new[Len(old) + 1] = u
  BY AppendProperties, LenProperties
<1>2. old # <<>> => Len(old) >= 1
  BY <1>1, EmptySeq
<1>3. ASSUME NEW a \in (Len(old) + 1)..Len(new)
      PROVE  \/ /\ a = Len(old) + 1 /\ ~IsRest(new[a]) /\ (a > 1 => IsRest(new[a - 1]))
                /\ new[a].line = lines + 1 /\ lines' = lines + 1 /\ new[a].path = p
             \/ /\ a > 1 /\ IsRest(new[a]) /\ ~IsRest(new[a - 1])
                /\ new[a].line = new[a - 1].line /\ new[a].path = new[a - 1].path
                /\ new[a].tag = new[a - 1].tag
  <2>1. a = Len(old) + 1 /\ new[a] = u /\ a - 1 = Len(old)
    BY <1>1
  <2>2. old # <<>> => new[a - 1] = old[Len(old)] /\ a > 1
    BY <1>1, <1>2, <2>1
  <2>3. a > 1 => Len(old) # 0
    BY <1>1, <2>1
  <2>4. Len(old) # 0 => old # <<>>
    OBVIOUS
  <2> QED
    BY <2>1, <2>2, <2>3, <2>4
<1> QED
  BY <1>1, <1>3 DEF Added

LEMMA AppendedTwice ==
  ASSUME NEW p, NEW old \in Seq(Unit), NEW u \in Unit, NEW v \in Unit, NEW new, new = old \o <<u, v>>,
         ~IsRest(u), u.line = lines + 1, lines' = lines + 1, IsRest(v), v.line = u.line,
         u.path = p, v.path = p, u.tag = v.tag, old # <<>> => IsRest(old[Len(old)])
  PROVE  new \in Seq(Unit) /\ Added(p, old, new)
<1>1. <<u, v>> \in Seq(Unit) /\ Len(<<u, v>>) = 2 /\ <<u, v>>[1] = u /\ <<u, v>>[2] = v
  OBVIOUS
<1> PICK w : w = <<u, v>>
  OBVIOUS
<1>2. /\ new \in Seq(Unit) /\ Len(new) = Len(old) + Len(w)
      /\ \A a \in 1..(Len(old) + Len(w)) : new[a] = IF a <= Len(old) THEN old[a] ELSE w[a - Len(old)]
  BY <1>1, ConcatProperties
<1>3. Len(old) \in Nat /\ Len(w) = 2 /\ w[1] = u /\ w[2] = v
  BY <1>1, LenProperties
<1>4. \A a \in 1..Len(old) : new[a] = old[a]
  BY <1>2, <1>3
<1>5. new[Len(old) + 1] = u /\ new[Len(old) + 2] = v
  <2>1. ~(Len(old) + 1 <= Len(old)) /\ ~(Len(old) + 2 <= Len(old))
        /\ Len(old) + 1 - Len(old) = 1 /\ Len(old) + 2 - Len(old) = 2
        /\ Len(old) + 1 \in 1..(Len(old) + Len(w)) /\ Len(old) + 2 \in 1..(Len(old) + Len(w))
    BY <1>3
  <2> QED
    BY <1>2, <1>3, <2>1
<1>6. ASSUME NEW a \in (Len(old) + 1)..Len(new)
      PROVE  \/ /\ a = Len(old) + 1 /\ ~IsRest(new[a]) /\ (a > 1 => IsRest(new[a - 1]))
                /\ new[a].line = lines + 1 /\ lines' = lines + 1 /\ new[a].path = p
             \/ /\ a > 1 /\ IsRest(new[a]) /\ ~IsRest(new[a - 1])
                /\ new[a].line = new[a - 1].line /\ new[a].path = new[a - 1].path
                /\ new[a].tag = new[a - 1].tag
  <2>1. a = Len(old) + 1 \/ a = Len(old) + 2
    <3> PICK m : m = Len(old)
      OBVIOUS
    <3>1. m \in Nat /\ a \in (m + 1)..(m + 2)
      BY <1>2, <1>3
    <3>2. a = m + 1 \/ a = m + 2
      BY ONLY <3>1
    <3> QED
      BY <3>2
  <2>2. CASE a = Len(old) + 1
    <3>1. a > 1 => old # <<>> /\ new[a - 1] = old[Len(old)]
      <4>1. Len(old) # 0 => old # <<>>
        OBVIOUS
      <4>2. a > 1 => a - 1 \in 1..Len(old) /\ a - 1 = Len(old) /\ Len(old) # 0
        BY <1>3, <2>2
      <4> QED
        BY <1>3, <1>4, <2>2, <4>1, <4>2
    <3> QED
      BY <1>5, <2>2, <3>1
  <2>3. CASE a = Len(old) + 2
    <3>1. a - 1 = Len(old) + 1 /\ a > 1
      BY <1>3, <2>3
    <3> QED
      BY <1>5, <2>3, <3>1
  <2> QED
    BY <2>1, <2>2, <2>3
<1> QED
  BY <1>2, <1>3, <1>4, <1>6 DEF Added

Writes(p) == Write(p) \/ WriteBeginning(p) \/ WriteRest(p)

LEMMA WriteFacts ==
  ASSUME Types, NEW p \in Path, Writes(p), NEW i, i = dir[p]
  PROVE  /\ i \in Inode
         /\ files' \in [Inode -> Seq(Unit)]
         /\ Added(p, files[i], files'[i]) /\ \A j \in Inode \ {i} : files'[j] = files[j]
         /\ lines' \in 0..MaxLines /\ lines' >= lines
         /\ faults' \in 0..MaxFaults
         /\ UNCHANGED <<dir, tail, stopping, truncated>>
<1>1. /\ i \in Inode /\ i # NoInode /\ files \in [Inode -> Seq(Unit)]
      /\ lines \in 0..MaxLines /\ faults \in 0..MaxFaults /\ MaxLines \in Nat /\ MaxFaults \in Nat
  BY TailerAssumption DEF Types, TypeOK, Writes, Write, WriteBeginning, WriteRest
<1> PICK old : old = files[i]
  OBVIOUS
<1>2. old \in Seq(Unit) /\ Len(old) \in Nat
  BY <1>1, LenProperties
<1>3. \E new : new \in Seq(Unit) /\ Added(p, old, new) /\ files' = [files EXCEPT ![i] = new]
  <2>1. CASE Write(p)
    <3>1. lines' = lines + 1 /\ lines' \in 1..MaxLines
      BY <1>1, <2>1 DEF Write
    <3>2. PICK tag \in {"P", "F"}, s \in Stream :
            files' = [files EXCEPT ![i] = @ \o
              << [path |-> p, line |-> lines', part |-> "head", tag |-> tag, stream |-> s],
                 [path |-> p, line |-> lines', part |-> "rest", tag |-> tag, stream |-> s] >>]
      BY <2>1 DEF Write
    <3> PICK u, v : /\ u = [path |-> p, line |-> lines', part |-> "head", tag |-> tag, stream |-> s]
                    /\ v = [path |-> p, line |-> lines', part |-> "rest", tag |-> tag, stream |-> s]
      OBVIOUS
    <3>3. /\ u \in Unit /\ v \in Unit /\ ~IsRest(u) /\ IsRest(v) /\ u.line = lines' /\ v.line = lines'
          /\ u.path = p /\ v.path = p /\ u.tag = v.tag
      BY <3>1 DEF Unit, IsRest
    <3>6. old # <<>> => IsRest(old[Len(old)])
      BY <2>1 DEF Write, LastIsTorn, Last, IsRest
    <3> PICK new : new = old \o <<u, v>>
      OBVIOUS
    <3>4. new \in Seq(Unit) /\ Added(p, old, new)
      <4>1. /\ old \in Seq(Unit) /\ u \in Unit /\ v \in Unit /\ new = old \o <<u, v>>
            /\ ~IsRest(u) /\ u.line = lines + 1 /\ lines' = lines + 1 /\ IsRest(v) /\ v.line = u.line
            /\ u.path = p /\ v.path = p /\ u.tag = v.tag /\ (old # <<>> => IsRest(old[Len(old)]))
        BY <1>2, <3>1, <3>3, <3>6
      <4> QED
        BY ONLY <4>1, AppendedTwice
    <3>5. files' = [files EXCEPT ![i] = new]
      BY <3>2
    <3> QED
      BY <3>4, <3>5
  <2>2. CASE WriteBeginning(p)
    <3>1. lines' = lines + 1 /\ lines' \in 1..MaxLines
      BY <1>1, <2>2 DEF WriteBeginning
    <3>2. PICK tag \in {"P", "F"}, s \in Stream, part \in {"head", "stub"} :
            files' = [files EXCEPT ![i] =
                        Append(@, [path |-> p, line |-> lines', part |-> part, tag |-> tag, stream |-> s])]
      BY <2>2 DEF WriteBeginning
    <3> PICK u : u = [path |-> p, line |-> lines', part |-> part, tag |-> tag, stream |-> s]
      OBVIOUS
    <3>3. u \in Unit /\ ~IsRest(u) /\ u.line = lines' /\ u.path = p
      BY <3>1 DEF Unit, IsRest
    <3>6. old # <<>> => IsRest(old[Len(old)])
      BY <2>2 DEF WriteBeginning, LastIsTorn, Last, IsRest
    <3> PICK new : new = Append(old, u)
      OBVIOUS
    <3>4. new \in Seq(Unit) /\ Added(p, old, new)
      BY <1>2, <3>1, <3>3, <3>6, AppendedFacts
    <3>5. files' = [files EXCEPT ![i] = new]
      BY <3>2
    <3> QED
      BY <3>4, <3>5
  <2>3. CASE WriteRest(p)
    <3>1. old # <<>> /\ old[Len(old)].part # "rest"
      BY <2>3 DEF WriteRest, LastIsTorn, Last
    <3> PICK l, u : l = old[Len(old)] /\ u = [l EXCEPT !.part = "rest"]
      OBVIOUS
    <3>2. l \in Unit
      <4>1. Len(old) \in 1..Len(old)
        BY <1>2, <3>1, EmptySeq
      <4> QED
        BY <1>2, <4>1, ElementOfSeq
    <3>3. u \in Unit /\ IsRest(u) /\ u.line = l.line /\ u.path = l.path /\ u.tag = l.tag
      BY <3>2 DEF Unit, IsRest
    <3> PICK new : new = Append(old, u)
      OBVIOUS
    <3>4. new \in Seq(Unit) /\ Added(p, old, new)
      BY <1>2, <3>1, <3>3, AppendedFacts DEF IsRest
    <3>5. files' = [files EXCEPT ![i] = new]
      BY <2>3 DEF WriteRest, Last
    <3> QED
      BY <3>4, <3>5
  <2> QED
    BY <2>1, <2>2, <2>3 DEF Writes
<1>4. /\ files' \in [Inode -> Seq(Unit)]
      /\ Added(p, files[i], files'[i]) /\ \A j \in Inode \ {i} : files'[j] = files[j]
  BY <1>1, <1>3
<1>5. lines' \in 0..MaxLines /\ lines' >= lines /\ faults' \in 0..MaxFaults
  BY <1>1 DEF Writes, Write, WriteBeginning, WriteRest, Fault
<1> QED
  BY <1>1, <1>4, <1>5 DEF Writes, Write, WriteBeginning, WriteRest
-----------------------------------------------------------------------------
(* Type correctness.                                                       *)
LEMMA TypesInit == Init_ => Types
<1> SUFFICES ASSUME Init_ PROVE Types
  OBVIOUS
<1>1. /\ <<>> \in Seq(Unit) /\ <<>> \in Seq(Record) /\ Len(<<>>) = 0
      /\ Off \in TailerState
  BY ReaderIsTailer
<1>2. MaxLines \in Nat /\ MaxFaults \in Nat /\ ChanSize \in Nat /\ BatchSize \in Nat \ {0}
  BY ShipAssumption, TailerAssumption
<1>3. /\ dir \in [Path -> Inode \cup {NoInode}] /\ files \in [Inode -> Seq(Unit)]
      /\ tail \in [Path -> TailerState]
  BY <1>1 DEF Init_, Init
<1>4. /\ stopping \in BOOLEAN /\ lines \in 0..MaxLines /\ faults \in 0..MaxFaults
      /\ truncated \subseteq Path
  <2>1. stopping = FALSE /\ lines = 0 /\ faults = 0 /\ truncated = {}
    BY DEF Init_, Init
  <2>2. 0 \in 0..MaxLines /\ 0 \in 0..MaxFaults
    BY <1>2
  <2>3. stopping \in BOOLEAN
    BY <2>1
  <2> QED
    BY <2>1, <2>2, <2>3
<1>5. last \in [Path -> 0..MaxLines]
  BY <1>2 DEF Init_, ShipInit
<1>6. /\ in \in Seq(Record) /\ Len(in) <= ChanSize
      /\ batch \in Seq(Record) /\ Len(batch) <= BatchSize /\ Len(batch) < BatchSize
      /\ loop \in {"select", "post", "final", "done"}
  BY <1>1, <1>2 DEF Init_, ShipInit
<1> QED
  BY <1>3, <1>4, <1>5, <1>6 DEF Types, TypeOK, LoopFits

LEMMA TypesNode ==
  ASSUME Types, NEW p \in Path, Node(p), UNCHANGED shipVars
  PROVE  Types'
<1>1. CASE Writes(p)
  <2>1. /\ files' \in [Inode -> Seq(Unit)] /\ lines' \in 0..MaxLines /\ faults' \in 0..MaxFaults
        /\ UNCHANGED <<dir, tail, stopping, truncated>>
    BY <1>1, WriteFacts
  <2> QED
    BY <2>1 DEF Types, TypeOK, LoopFits, shipVars
<1>2. CASE Create(p)
  <2>1. dir' \in [Path -> Inode \cup {NoInode}]
    BY <1>2 DEF Create, Unused, Types, TypeOK
  <2> QED
    BY <1>2, <2>1 DEF Create, Types, TypeOK, LoopFits, shipVars
<1>3. CASE Unlink(p) \/ Truncate(p)
  <2>1. <<>> \in Seq(Unit) /\ MaxFaults \in Nat
    BY TailerAssumption
  <2>2. dir' \in [Path -> Inode \cup {NoInode}] /\ files' \in [Inode -> Seq(Unit)]
    BY <1>3, <2>1 DEF Unlink, Truncate, Types, TypeOK
  <2>3. faults' \in 0..MaxFaults /\ truncated' \subseteq Path
    BY <1>3, <2>1 DEF Unlink, Truncate, Fault, Types, TypeOK
  <2> QED
    BY <1>3, <2>2, <2>3 DEF Unlink, Truncate, Types, TypeOK, LoopFits, shipVars
<1> QED
  BY <1>1, <1>2, <1>3 DEF Node, Writes

(* The tailer after a step of its own: as it was, closed, or at the start  *)
(* or the end of the file that has its path.                               *)
LEMMA SilentFacts ==
  ASSUME Types, NEW p \in Path, Silent(p) \/ Fails(p), NEW t, t = tail[p], NEW u, u = tail'[p]
  PROVE  /\ tail' \in [Path -> TailerState] /\ \A q \in Path \ {p} : tail'[q] = tail[q]
         /\ \/ u = Off
            \/ /\ dir[p] \in Inode /\ u \in Reader /\ u.ino = dir[p] /\ u.buf = <<>> /\ u.partial = <<>>
               /\ u.cur.ino = u.ino /\ u.cur.size = Len(files[u.ino])
               /\ \/ t = Starting /\ u.pos = Len(files[u.ino])
                  \/ /\ u.pos = 0 /\ IsOpen(p)
                     /\ t.ino # t.cur.ino \/ Len(files[t.ino]) < t.cur.size
            \/ /\ IsOpen(p) /\ u \in Reader /\ u.ino = t.ino /\ u.pos = t.pos /\ u.buf = t.buf
               /\ u.partial = t.partial /\ u.cur.ino = t.ino /\ u.cur.size = Len(files[t.ino])
         /\ UNCHANGED <<dir, files, stopping, lines, truncated>> /\ faults' \in 0..MaxFaults
<1>1. /\ tail \in [Path -> TailerState] /\ dir \in [Path -> Inode \cup {NoInode}]
      /\ files \in [Inode -> Seq(Unit)] /\ faults \in 0..MaxFaults /\ MaxFaults \in Nat
  BY TailerAssumption DEF Types, TypeOK
<1>2. \A i \in Inode : Len(files[i]) \in Nat
  BY <1>1, LenProperties
<1>3. /\ UNCHANGED <<dir, files, stopping, lines, truncated>> /\ faults' \in 0..MaxFaults
  BY <1>1 DEF Silent, OpenAtEnd, Poll, Exit, Fails, ReopenFails, ReadFails, Fault, fileVars
<1>4. ASSUME NEW n \in Nat, dir[p] # NoInode, NEW v, v = NewReader(dir[p], n), Move(p, v)
      PROVE  /\ tail' \in [Path -> TailerState] /\ \A q \in Path \ {p} : tail'[q] = tail[q]
             /\ dir[p] \in Inode /\ u \in Reader /\ u.ino = dir[p] /\ u.buf = <<>> /\ u.partial = <<>>
             /\ u.cur.ino = u.ino /\ u.cur.size = Len(files[u.ino]) /\ u.pos = n
  <2>1. dir[p] \in Inode
    BY <1>1, <1>4
  <2> PICK i : i = dir[p]
    OBVIOUS
  <2> PICK k : k = Len(files[i])
    OBVIOUS
  <2>4. k \in Nat /\ n \in Nat /\ i \in Inode /\ <<>> \in Seq(Unit)
    BY <1>2, <2>1
  <2>5. v = [pc |-> "read", ino |-> i, pos |-> n, buf |-> <<>>, partial |-> <<>>,
             cur |-> [ino |-> i, size |-> k]]
    BY <1>4 DEF NewReader, statInfo
  <2>6. /\ v \in Reader /\ v.ino = i /\ v.buf = <<>> /\ v.partial = <<>>
        /\ v.cur.ino = i /\ v.cur.size = k /\ v.pos = n
    BY ONLY <2>4, <2>5 DEF Reader
  <2>2. /\ v \in Reader /\ v.ino = dir[p] /\ v.buf = <<>> /\ v.partial = <<>>
        /\ v.cur.ino = v.ino /\ v.cur.size = Len(files[v.ino]) /\ v.pos = n
    BY <2>6
  <2>3. v \in TailerState
    BY <2>2, ReaderIsTailer
  <2> QED
    BY <1>4, <2>1, <2>2, <2>3, MoveType
<1>5. ASSUME Move(p, Off)
      PROVE  tail' \in [Path -> TailerState] /\ u = Off /\ \A q \in Path \ {p} : tail'[q] = tail[q]
  BY <1>5, MoveType, ReaderIsTailer
<1>6. ASSUME IsOpen(p), NEW v, v = [t EXCEPT !.pc = "read", !.cur = statInfo(t.ino)], Move(p, v)
      PROVE  /\ tail' \in [Path -> TailerState] /\ \A q \in Path \ {p} : tail'[q] = tail[q]
             /\ u \in Reader /\ u.ino = t.ino /\ u.pos = t.pos /\ u.buf = t.buf
             /\ u.partial = t.partial /\ u.cur.ino = t.ino /\ u.cur.size = Len(files[t.ino])
  <2>1. t \in Reader /\ t.ino \in Inode
    BY <1>6, ReaderIs DEF Reader
  <2> PICK st : st = statInfo(t.ino)
    OBVIOUS
  <2>2. st \in [ino : Inode, size : Nat] /\ st.ino = t.ino /\ st.size = Len(files[t.ino])
    BY <1>2, <2>1 DEF statInfo
  <2>3. /\ v \in Reader /\ v.ino = t.ino /\ v.pos = t.pos /\ v.buf = t.buf
        /\ v.partial = t.partial /\ v.cur = st
    <3>1. v = [t EXCEPT !.pc = "read", !.cur = st]
      BY <1>6
    <3> QED
      BY ONLY <2>1, <2>2, <3>1 DEF Reader
  <2>4. v \in TailerState
    BY <2>3, ReaderIsTailer
  <2> QED
    BY <1>6, <2>2, <2>3, <2>4, MoveType
<1>7. CASE OpenAtEnd(p)
  <2>1. CASE dir[p] = NoInode
    BY <1>3, <1>5, <1>7, <2>1 DEF OpenAtEnd
  <2>2. CASE dir[p] # NoInode
    <3>1. dir[p] \in Inode
      BY <1>1, <2>2
    <3>2. Len(files[dir[p]]) \in Nat /\ Move(p, NewReader(dir[p], Len(files[dir[p]]))) /\ t = Starting
      BY <1>2, <1>7, <2>2, <3>1 DEF OpenAtEnd
    <3> QED
      BY <1>3, <1>4, <2>2, <3>2
  <2> QED
    BY <2>1, <2>2
<1>8. CASE Poll(p)
  <2>1. IsOpen(p)
    BY <1>8 DEF Poll, IsOpen
  <2>2. CASE statInfo(t.ino).ino # t.cur.ino \/ statInfo(t.ino).size < t.cur.size
    <3>1. t.ino # t.cur.ino \/ Len(files[t.ino]) < t.cur.size
      BY <2>2 DEF statInfo
    <3>2. CASE dir[p] = NoInode
      BY <1>3, <1>5, <1>8, <2>2, <3>2 DEF Poll
    <3>3. CASE dir[p] # NoInode
      <4>1. Move(p, NewReader(dir[p], 0)) /\ 0 \in Nat
        BY <1>8, <2>2, <3>3 DEF Poll
      <4> QED
        BY <1>3, <1>4, <2>1, <3>1, <3>3, <4>1
    <3> QED
      BY <3>2, <3>3
  <2>3. CASE ~(statInfo(t.ino).ino # t.cur.ino \/ statInfo(t.ino).size < t.cur.size)
    <3>1. Move(p, [t EXCEPT !.pc = "read", !.cur = statInfo(t.ino)])
      BY <1>8, <2>3 DEF Poll
    <3> QED
      BY <1>3, <1>6, <2>1, <3>1
  <2> QED
    BY <2>2, <2>3
<1>9. CASE Exit(p) \/ ReadFails(p)
  BY <1>3, <1>5, <1>9 DEF Exit, ReadFails
<1>10. CASE ReopenFails(p)
  <2>1. IsOpen(p) /\ Move(p, [t EXCEPT !.pc = "read", !.cur = statInfo(t.ino)])
    BY <1>10 DEF ReopenFails, IsOpen
  <2> QED
    BY <1>3, <1>6, <2>1
<1> QED
  BY <1>7, <1>8, <1>9, <1>10 DEF Silent, Fails

LEMMA TypesTail ==
  ASSUME Types, NEW p \in Path, Silent(p) \/ Fails(p), UNCHANGED shipVars
  PROVE  Types'
<1>1. /\ tail' \in [Path -> TailerState]
      /\ UNCHANGED <<dir, files, stopping, lines, truncated>> /\ faults' \in 0..MaxFaults
  BY SilentFacts
<1> QED
  BY <1>1 DEF Types, TypeOK, LoopFits, shipVars

LEMMA TypesScan ==
  ASSUME Types, scan, UNCHANGED shipVars
  PROVE  Types'
<1>1. tail' \in [Path -> TailerState]
  BY ReaderIsTailer DEF scan, Types, TypeOK
<1> QED
  BY <1>1 DEF scan, Types, TypeOK, LoopFits, shipVars, fileVars

LEMMA TypesRead ==
  ASSUME Types, NEW p \in Path, NEW read \in Reads(p), ReadLine(p, read), OnRecord(read.out)
  PROVE  Types'
<1>1. read.tailer \in TailerState
  BY ReadFacts, ReaderIsTailer
<1>2. tail' \in [Path -> TailerState]
  BY <1>1, MoveType DEF ReadLine
<1>3. in' \in Seq(Record) /\ Len(in') <= ChanSize
  BY SentFacts
<1> QED
  BY <1>2, <1>3 DEF ReadLine, OnRecord, Types, TypeOK, LoopFits, fileVars

(* The lines of a path among records.                                      *)
UnderWay(p, q) == UNION {LineNumbers(q[i]) : i \in {j \in DOMAIN q : q[j].path = p}}

LEMMA TakenFacts ==
  ASSUME Types, NEW p \in Path
  PROVE  Taken(batch)[p] \in 0..MaxLines /\ Taken(batch)[p] \in {last[p]} \cup UnderWay(p, batch)
<1> DEFINE S == {last[p]} \cup UNION {LineNumbers(r) : r \in {r \in ToSet(batch) : r.path = p}}
<1>1. batch \in Seq(Record) /\ last[p] \in 0..MaxLines /\ MaxLines \in Nat
  BY TailerAssumption DEF Types, TypeOK
<1>2. \A i \in DOMAIN batch : batch[i] \in Record
  BY <1>1, ElementOfSeq, LenProperties
<1>3. S = {last[p]} \cup UnderWay(p, batch)
  BY DEF UnderWay, ToSet
<1>4. S \subseteq 0..MaxLines
  <2>1. \A r \in ToSet(batch) : LineNumbers(r) \subseteq 1..MaxLines
    BY <1>2, LinesIn DEF ToSet
  <2> QED
    BY <1>1, <2>1
<1>5. Taken(batch)[p] = Max(S)
  BY DEF Taken
<1> HIDE DEF S
<1>6. S # {}
  BY <1>3
<1>7. Max(S) \in S
  BY <1>1, <1>4, <1>6, MaxIs
<1> QED
  BY <1>3, <1>4, <1>5, <1>7

LEMMA TypesShip ==
  ASSUME Types, Ship
  PROVE  Types'
<1>1. /\ in \in Seq(Record) /\ batch \in Seq(Record) /\ last \in [Path -> 0..MaxLines]
      /\ BatchSize \in Nat \ {0} /\ Len(in) <= ChanSize /\ ChanSize \in Nat
      /\ <<>> \in Seq(Record) /\ Len(<<>>) = 0
  BY ShipAssumption DEF Types, TypeOK
<1>2. UNCHANGED tailerVars
  BY DEF Ship, Receive, FlushTick, Break, Posted, PostBatch, LastFlush
<1>3. CASE Receive
  <2>1. /\ Head(in) \in Record /\ Tail(in) \in Seq(Record) /\ Len(Tail(in)) = Len(in) - 1
        /\ Len(in) \in Nat
    BY <1>1, <1>3, HeadTailProperties, LenProperties DEF Receive
  <2>2. /\ batch' \in Seq(Record) /\ Len(batch') = Len(batch) + 1 /\ Len(batch) \in Nat
    BY <1>1, <1>3, <2>1, AppendProperties, LenProperties DEF Receive
  <2>3. Len(batch') <= BatchSize /\ (loop' = "select" => Len(batch') < BatchSize)
    BY <1>1, <1>3, <2>2 DEF Receive, Types, LoopFits
  <2>4. in' \in Seq(Record) /\ Len(in') <= ChanSize
    BY <1>1, <1>3, <2>1 DEF Receive
  <2>5. loop' \in {"select", "post"} /\ last' = last
    BY <1>3 DEF Receive
  <2> QED
    BY <1>2, <2>2, <2>3, <2>4, <2>5 DEF Types, TypeOK, LoopFits, tailerVars
<1>4. CASE FlushTick \/ Break
  <2>1. loop' \in {"post", "final"} /\ UNCHANGED <<in, batch, last>>
    BY <1>4 DEF FlushTick, Break
  <2> QED
    BY <1>2, <2>1 DEF Types, TypeOK, LoopFits, tailerVars
<1>5. CASE Posted \/ LastFlush
  <2>1. loop' \in {"select", "done"} /\ batch' = <<>> /\ in' = in
    BY <1>5 DEF Posted, PostBatch, LastFlush
  <2>2. last' \in [Path -> 0..MaxLines]
    <3>1. Taken(batch) \in [Path -> 0..MaxLines]
      <4>1. \A p \in Path : Taken(batch)[p] \in 0..MaxLines
        BY TakenFacts
      <4> QED
        BY <4>1 DEF Taken
    <3> QED
      BY <1>1, <1>5, <3>1 DEF Posted, PostBatch, LastFlush
  <2> QED
    BY <1>1, <1>2, <2>1, <2>2 DEF Types, TypeOK, LoopFits, tailerVars
<1> QED
  BY <1>3, <1>4, <1>5 DEF Ship

LEMMA TypesStep == Types /\ [Next]_vars => Types'
<1> SUFFICES ASSUME Types, [Next]_vars PROVE Types'
  OBVIOUS
<1>1. CASE Cancel
  BY <1>1 DEF Cancel, fileVars, shipVars, Types, TypeOK, LoopFits
<1>2. CASE UNCHANGED vars
  BY <1>2 DEF vars, tailerVars, shipVars, Types, TypeOK, LoopFits
<1> QED
  BY <1>1, <1>2, TypesNode, TypesTail, TypesScan, TypesRead, TypesShip DEF Next, Run

LEMMA SpecTypes == Spec => []Types
BY TypesInit, TypesStep, PTL DEF Spec

(* Every variable has its type; the channel and the batch stay within      *)
(* their limits.                                                           *)
THEOREM TailerTypes == Spec => []TypeOK
<1>1. Types => TypeOK
  BY DEF Types
<1> QED
  BY SpecTypes, <1>1, PTL
-----------------------------------------------------------------------------
(* Order.                                                                  *)
LinesOf(us) == {us[i].line : i \in 1..Len(us)}

Newer(S, C) == \A n \in S : \A c \in C : c < n

(* A file holds its lines in the order they were written, a torn one as    *)
(* its beginning and, next to it, its rest.                                *)
FileOrdered(file, n) ==
  \A b \in 1..Len(file) :
    /\ file[b].line <= n
    /\ \A a \in 1..(b - 1) :
         \/ file[a].line < file[b].line
         \/ b = a + 1 /\ file[a].line = file[b].line /\ IsRest(file[b]) /\ ~IsRest(file[a])

(* What follows the first f units is newer than C, but for the rest of a   *)
(* line of which the beginning was read or skipped.                        *)
Ahead(f, file, C) ==
  \A a \in (f + 1)..Len(file) : \A c \in C :
    file[a].line > c \/ (a = f + 1 /\ IsRest(file[a]))

(* What a tailer has buffered is what precedes its offset.                 *)
Place(t) == t.pos - Len(t.buf)
Sound(t, file) ==
  /\ t.pos <= Len(file) /\ t.cur.size <= Len(file) /\ Len(t.buf) <= t.pos
  /\ \A i \in 1..Len(t.buf) : t.buf[i] = file[Place(t) + i]

(* The records of a path, in the order of their lines and newer than l.    *)
InQueue(p, q, l) ==
  \A i \in DOMAIN q : q[i].path = p =>
    /\ Newer(LineNumbers(q[i]), {l})
    /\ \A j \in 1..(i - 1) : q[j].path = p => Newer(LineNumbers(q[i]), LineNumbers(q[j]))

LEMMA UnitLines ==
  ASSUME NEW us \in Seq(Unit)
  PROVE  /\ Len(us) \in Nat /\ LinesOf(us) \subseteq 1..MaxLines
         /\ \A i \in 1..Len(us) : us[i] \in Unit /\ us[i].line \in Nat /\ us[i].line \in LinesOf(us)
<1>1. Len(us) \in Nat /\ \A i \in 1..Len(us) : us[i] \in Unit
  BY LenProperties, ElementOfSeq
<1>2. \A i \in 1..Len(us) : us[i].line \in 1..MaxLines
  BY <1>1 DEF Unit
<1> QED
  BY <1>1, <1>2, TailerAssumption DEF LinesOf

LEMMA LinesOfRecord ==
  ASSUME NEW r \in Record
  PROVE  LineNumbers(r) = LinesOf(r.msg)
<1>1. r.msg \in Seq(Unit)
  BY DEF Record
<1>2. DOMAIN r.msg = 1..Len(r.msg)
  BY <1>1, LenProperties
<1> QED
  BY <1>2 DEF LineNumbers, LinesOf, ToSet

LEMMA LinesJoined ==
  ASSUME NEW us \in Seq(Unit), NEW vs \in Seq(Unit), NEW ws, ws = us \o vs
  PROVE  LinesOf(ws) = LinesOf(us) \cup LinesOf(vs)
<1>1. /\ ws \in Seq(Unit) /\ Len(ws) = Len(us) + Len(vs) /\ Len(us) \in Nat /\ Len(vs) \in Nat
      /\ \A i \in 1..(Len(us) + Len(vs)) : ws[i] = IF i <= Len(us) THEN us[i] ELSE vs[i - Len(us)]
  BY ConcatProperties, LenProperties
<1>2. ASSUME NEW n \in LinesOf(ws) PROVE n \in LinesOf(us) \cup LinesOf(vs)
  <2>1. PICK i \in 1..Len(ws) : n = ws[i].line
    BY <1>2 DEF LinesOf
  <2>2. CASE i <= Len(us)
    BY <1>1, <2>1, <2>2 DEF LinesOf
  <2>3. CASE ~(i <= Len(us))
    <3>1. i - Len(us) \in 1..Len(vs) /\ ws[i] = vs[i - Len(us)]
      BY <1>1, <2>1, <2>3
    <3> QED
      BY <2>1, <3>1 DEF LinesOf
  <2> QED
    BY <2>2, <2>3
<1>3. ASSUME NEW n \in LinesOf(us) PROVE n \in LinesOf(ws)
  <2>1. PICK i \in 1..Len(us) : n = us[i].line
    BY <1>3 DEF LinesOf
  <2>2. i \in 1..Len(ws) /\ ws[i] = us[i]
    BY <1>1, <2>1
  <2> QED
    BY <2>1, <2>2 DEF LinesOf
<1>4. ASSUME NEW n \in LinesOf(vs) PROVE n \in LinesOf(ws)
  <2>1. PICK i \in 1..Len(vs) : n = vs[i].line
    BY <1>4 DEF LinesOf
  <2> PICK j : j = Len(us) + i
    OBVIOUS
  <2>2. j \in 1..Len(ws) /\ ~(j <= Len(us)) /\ j - Len(us) = i
    BY <1>1, <2>1
  <2>3. ws[j] = vs[i]
    BY <1>1, <2>2
  <2> QED
    BY <2>1, <2>2, <2>3 DEF LinesOf
<1> QED
  BY <1>2, <1>3, <1>4

(* A file that grows stays in order, and what is ahead in it newer.        *)
LEMMA AddedOrdered ==
  ASSUME NEW p, NEW old \in Seq(Unit), NEW new \in Seq(Unit), lines \in Nat, lines' \in Nat, lines' >= lines,
         Added(p, old, new), FileOrdered(old, lines)
  PROVE  FileOrdered(new, lines')
<1>1. /\ Len(old) \in Nat /\ Len(new) \in Nat /\ Len(old) <= Len(new)
      /\ \A i \in 1..Len(new) : new[i].line \in Nat
      /\ \A i \in 1..Len(old) : new[i] = old[i]
  BY UnitLines DEF Added
<1> DEFINE Before(a, b) ==
      \/ new[a].line < new[b].line
      \/ b = a + 1 /\ new[a].line = new[b].line /\ IsRest(new[b]) /\ ~IsRest(new[a])
    Fine(b) == new[b].line <= lines' /\ \A a \in 1..(b - 1) : Before(a, b)
<1>2. ASSUME NEW b \in 1..Len(old) PROVE Fine(b)
  <2>1. old[b].line <= lines /\ new[b] = old[b] /\ new[b].line \in Nat
    BY <1>1 DEF FileOrdered
  <2>2. ASSUME NEW a \in 1..(b - 1) PROVE Before(a, b)
    <3>1. a \in 1..Len(old) /\ new[a] = old[a]
      BY <1>1
    <3> QED
      BY <2>1, <3>1 DEF FileOrdered
  <2> QED
    BY <2>1, <2>2
<1>3. ASSUME NEW b \in 1..Len(new), b = Len(old) + 1, new[b].line = lines + 1, lines' = lines + 1
      PROVE  Fine(b)
  <2>1. ASSUME NEW a \in 1..(b - 1) PROVE Before(a, b)
    <3>1. a \in 1..Len(old) /\ new[a] = old[a] /\ new[a].line \in Nat
      BY <1>1, <1>3
    <3>2. old[a].line <= lines
      BY <3>1 DEF FileOrdered
    <3> QED
      BY <1>3, <3>1, <3>2
  <2> QED
    BY <1>3, <2>1
<1>4. ASSUME NEW b \in 2..Len(new), Fine(b - 1), IsRest(new[b]), ~IsRest(new[b - 1]),
             new[b].line = new[b - 1].line
      PROVE  Fine(b)
  <2> PICK c : c = b - 1
    OBVIOUS
  <2>1. c \in 1..Len(new) /\ b = c + 1 /\ Fine(c) /\ ~IsRest(new[c]) /\ new[b].line = new[c].line
    BY <1>1, <1>4
  <2>2. ASSUME NEW a \in 1..(b - 1) PROVE Before(a, b)
    <3>1. a = c \/ a \in 1..(c - 1)
      BY <1>1, <2>1
    <3> QED
      BY <1>4, <2>1, <3>1
  <2> QED
    BY <2>1, <2>2
<1>5. ASSUME NEW b \in 1..Len(new), b > Len(old) PROVE Fine(b)
  <2>1. \/ b = Len(old) + 1 /\ new[b].line = lines + 1 /\ lines' = lines + 1
        \/ b > 1 /\ IsRest(new[b]) /\ ~IsRest(new[b - 1]) /\ new[b].line = new[b - 1].line
    BY <1>1, <1>5 DEF Added
  <2>2. CASE b > 1 /\ IsRest(new[b]) /\ ~IsRest(new[b - 1]) /\ new[b].line = new[b - 1].line
    <3> PICK c : c = b - 1
      OBVIOUS
    <3>1. c \in 1..Len(new) /\ ~IsRest(new[c]) /\ b \in 2..Len(new)
      BY <1>1, <2>2
    <3>2. CASE c <= Len(old)
      <4>1. Fine(c)
        BY <1>1, <1>2, <3>1, <3>2
      <4> HIDE DEF Fine
      <4> QED
        BY <1>4, <2>2, <3>1, <4>1
    <3>3. CASE c > Len(old)
      <4>1. c = Len(old) + 1 /\ new[c].line = lines + 1 /\ lines' = lines + 1
        BY <1>1, <3>1, <3>3 DEF Added
      <4>2. Fine(c)
        BY <1>3, <3>1, <4>1
      <4> HIDE DEF Fine
      <4> QED
        BY <1>4, <2>2, <3>1, <4>2
    <3> QED
      BY <1>1, <3>1, <3>2, <3>3
  <2> QED
    BY <1>3, <2>1, <2>2
<1>6. \A b \in 1..Len(new) : Fine(b)
  BY <1>1, <1>2, <1>5
<1> QED
  BY <1>6 DEF FileOrdered

LEMMA AddedAhead ==
  ASSUME NEW p, NEW old \in Seq(Unit), NEW new \in Seq(Unit), lines \in Nat, Added(p, old, new),
         NEW f \in Nat, f <= Len(old), NEW C, C \subseteq 0..lines, Ahead(f, old, C)
  PROVE  Ahead(f, new, C)
<1>1. /\ Len(old) \in Nat /\ Len(new) \in Nat /\ Len(old) <= Len(new)
      /\ \A i \in 1..Len(new) : new[i].line \in Nat
      /\ \A i \in 1..Len(old) : new[i] = old[i]
  BY UnitLines DEF Added
<1>2. ASSUME NEW a \in (f + 1)..Len(new), NEW c \in C, ~IsRest(new[a])
      PROVE  new[a].line > c
  <2>1. c \in Nat /\ c <= lines
    BY SMT
  <2>2. CASE a <= Len(old)
    BY <1>1, <1>2, <2>2 DEF Ahead
  <2>3. CASE a > Len(old)
    <3>1. new[a].line = lines + 1
      BY <1>1, <1>2, <2>3 DEF Added
    <3> QED
      BY <2>1, <3>1
  <2> QED
    BY <1>1, <2>2, <2>3
<1>3. ASSUME NEW a \in (f + 1)..Len(new), NEW c \in C, IsRest(new[a])
      PROVE  new[a].line > c \/ a = f + 1
  <2>1. CASE a <= Len(old)
    BY <1>1, <1>3, <2>1 DEF Ahead
  <2>2. CASE a > Len(old)
    <3> PICK b : b = a - 1
      OBVIOUS
    <3>1. ~IsRest(new[b]) /\ new[a].line = new[b].line
      BY <1>1, <1>3, <2>2 DEF Added
    <3>2. a = f + 1 \/ b \in (f + 1)..Len(new)
      BY <1>1
    <3> QED
      BY <1>2, <3>1, <3>2
  <2> QED
    BY <1>1, <2>1, <2>2
<1> QED
  BY <1>2, <1>3 DEF Ahead

(* What a read takes from a file.                                          *)
LEMMA AheadMoves ==
  ASSUME NEW file \in Seq(Unit), NEW n \in Nat, FileOrdered(file, n), NEW f \in Nat,
         NEW raw \in Seq(Unit), f + Len(raw) <= Len(file),
         \A i \in 1..Len(raw) : raw[i] = file[f + i],
         NEW C, Ahead(f, file, C), NEW g, g = f + Len(raw)
  PROVE  /\ Ahead(g, file, C)
         /\ raw # <<>> /\ ~IsRest(raw[1]) =>
              /\ Newer(LinesOf(raw), C) /\ LinesOf(raw) \subseteq 0..n
              /\ Ahead(g, file, C \cup LinesOf(raw))
<1>1. /\ Len(raw) \in Nat /\ Len(file) \in Nat /\ g \in Nat
      /\ \A i \in 1..Len(file) : file[i].line \in Nat
  BY UnitLines
<1>2. Ahead(g, file, C)
  <2>1. ASSUME NEW a \in (g + 1)..Len(file), NEW c \in C
        PROVE  file[a].line > c \/ (a = g + 1 /\ IsRest(file[a]))
    <3>1. a \in (f + 1)..Len(file) /\ (a = f + 1 => a = g + 1)
      BY <1>1
    <3> QED
      BY <3>1 DEF Ahead
  <2> QED
    BY <2>1 DEF Ahead
<1>3. ASSUME raw # <<>>, ~IsRest(raw[1])
      PROVE  /\ Newer(LinesOf(raw), C) /\ LinesOf(raw) \subseteq 0..n
             /\ Ahead(g, file, C \cup LinesOf(raw))
  <2>1. Len(raw) >= 1
    BY <1>1, <1>3, EmptySeq
  <2>2. ASSUME NEW m \in LinesOf(raw)
        PROVE  \E b \in (f + 1)..g : file[b].line = m /\ (b = f + 1 => ~IsRest(file[b]))
    <3>1. PICK i \in 1..Len(raw) : m = raw[i].line
      BY DEF LinesOf
    <3> PICK b : b = f + i
      OBVIOUS
    <3>2. b \in (f + 1)..g /\ (b = f + 1 => i = 1) /\ file[b] = raw[i]
      BY <1>1, <3>1
    <3> QED
      BY <1>3, <3>1, <3>2
  <2>3. ASSUME NEW m \in LinesOf(raw) PROVE m \in 0..n /\ \A c \in C : c < m
    <3>1. PICK b \in (f + 1)..g : file[b].line = m /\ (b = f + 1 => ~IsRest(file[b]))
      BY <2>2
    <3>2. b \in (f + 1)..Len(file) /\ b \in 1..Len(file)
      BY <1>1, <3>1
    <3>3. m \in Nat /\ m <= n
      BY <1>1, <3>1, <3>2 DEF FileOrdered
    <3>4. \A c \in C : file[b].line > c
      BY <3>1, <3>2 DEF Ahead
    <3> QED
      BY <3>1, <3>3, <3>4
  <2>4. ASSUME NEW a \in (g + 1)..Len(file), NEW c \in LinesOf(raw)
        PROVE  file[a].line > c \/ (a = g + 1 /\ IsRest(file[a]))
    <3>1. PICK b \in (f + 1)..g : file[b].line = c
      BY <2>2
    <3>2. a \in 1..Len(file) /\ b \in 1..(a - 1) /\ (a = b + 1 => a = g + 1)
          /\ file[a].line \in Nat /\ file[b].line \in Nat
      BY <1>1, <3>1
    <3>3. \/ file[b].line < file[a].line
          \/ a = b + 1 /\ IsRest(file[a])
      BY <3>2 DEF FileOrdered
    <3> QED
      BY <3>1, <3>2, <3>3
  <2> QED
    BY <1>2, <2>3, <2>4 DEF Newer, Ahead
<1> QED
  BY <1>2, <1>3
-----------------------------------------------------------------------------
(* The records on their way.                                               *)
LEMMA QueueGrows ==
  ASSUME NEW p \in Path, NEW q \in Seq(Record), NEW r \in Record, NEW q2, q2 = q \o <<r>>,
         NEW l, InQueue(p, q, l),
         r.path = p => Newer(LineNumbers(r), {l} \cup UnderWay(p, q))
  PROVE  /\ InQueue(p, q2, l)
         /\ UnderWay(p, q2) = UnderWay(p, q) \cup (IF r.path = p THEN LineNumbers(r) ELSE {})
<1>1. /\ q2 = Append(q, r) /\ Len(q) \in Nat /\ DOMAIN q = 1..Len(q) /\ DOMAIN q2 = 1..(Len(q) + 1)
      /\ \A i \in 1..Len(q) : q2[i] = q[i]
      /\ q2[Len(q) + 1] = r
  <2>1. q2 = Append(q, r)
    OBVIOUS
  <2>2. /\ Append(q, r) \in Seq(Record) /\ Len(Append(q, r)) = Len(q) + 1
        /\ \A i \in 1..Len(q) : Append(q, r)[i] = q[i]
        /\ Append(q, r)[Len(q) + 1] = r
    BY AppendProperties
  <2>3. DOMAIN Append(q, r) = 1..Len(Append(q, r))
    BY <2>2, LenProperties
  <2> QED
    BY <2>1, <2>2, <2>3, LenProperties
<1>2. ASSUME NEW i \in DOMAIN q2, q2[i].path = p
      PROVE  /\ Newer(LineNumbers(q2[i]), {l})
             /\ \A j \in 1..(i - 1) : q2[j].path = p => Newer(LineNumbers(q2[i]), LineNumbers(q2[j]))
  <2>1. CASE i \in 1..Len(q)
    <3>1. q2[i] = q[i] /\ i \in DOMAIN q /\ \A j \in 1..(i - 1) : j \in DOMAIN q /\ q2[j] = q[j]
      BY <1>1, <2>1
    <3> QED
      BY <1>2, <3>1 DEF InQueue
  <2>2. CASE i = Len(q) + 1
    <3>1. q2[i] = r /\ \A j \in 1..(i - 1) : j \in DOMAIN q /\ q2[j] = q[j]
      BY <1>1, <2>2
    <3>2. \A j \in DOMAIN q : q[j].path = p => LineNumbers(q[j]) \subseteq UnderWay(p, q)
      BY DEF UnderWay
    <3> QED
      BY <1>2, <3>1, <3>2 DEF Newer
  <2> QED
    BY <1>1, <2>1, <2>2
<1>3. UnderWay(p, q2) = UnderWay(p, q) \cup (IF r.path = p THEN LineNumbers(r) ELSE {})
  <2>1. Len(q) + 1 \in DOMAIN q2 /\ \A i \in DOMAIN q2 : i \in DOMAIN q \/ i = Len(q) + 1
    BY <1>1
  <2>2. \A i \in DOMAIN q : i \in DOMAIN q2 /\ q2[i] = q[i]
    BY <1>1
  <2> PICK k : k = Len(q) + 1
    OBVIOUS
  <2>3. k \in DOMAIN q2 /\ q2[k] = r /\ \A i \in DOMAIN q2 : i \in DOMAIN q \/ i = k
    BY <1>1, <2>1
  <2>4. ASSUME NEW n \in UnderWay(p, q2)
        PROVE  n \in UnderWay(p, q) \/ (r.path = p /\ n \in LineNumbers(r))
    <3>1. PICK i \in DOMAIN q2 : q2[i].path = p /\ n \in LineNumbers(q2[i])
      BY DEF UnderWay
    <3> QED
      BY <2>2, <2>3, <3>1 DEF UnderWay
  <2>5. ASSUME NEW n, n \in UnderWay(p, q) \/ (r.path = p /\ n \in LineNumbers(r))
        PROVE  n \in UnderWay(p, q2)
    <3>1. \E i \in DOMAIN q2 : q2[i].path = p /\ n \in LineNumbers(q2[i])
      BY <2>2, <2>3, <2>5 DEF UnderWay
    <3> QED
      BY <3>1 DEF UnderWay
  <2> QED
    BY <2>4, <2>5
<1> QED
  BY <1>2, <1>3 DEF InQueue

LEMMA QueueMoves ==
  ASSUME NEW p \in Path, NEW b \in Seq(Record), NEW i \in Seq(Record), NEW q, q = b \o i,
         NEW l, NEW l2, l2 \in {l} \cup UnderWay(p, b), InQueue(p, q, l)
  PROVE  InQueue(p, i, l2) /\ UnderWay(p, i) \subseteq UnderWay(p, q) /\ UnderWay(p, b) \subseteq UnderWay(p, q)
<1>1. /\ q \in Seq(Record) /\ Len(q) = Len(b) + Len(i) /\ Len(b) \in Nat /\ Len(i) \in Nat
      /\ \A k \in 1..(Len(b) + Len(i)) : q[k] = IF k <= Len(b) THEN b[k] ELSE i[k - Len(b)]
      /\ DOMAIN b = 1..Len(b) /\ DOMAIN i = 1..Len(i) /\ DOMAIN q = 1..Len(q)
  BY ConcatProperties, LenProperties
<1> DEFINE At(k) == Len(b) + k
<1>2. ASSUME NEW k \in DOMAIN b PROVE k \in DOMAIN q /\ q[k] = b[k]
  BY <1>1
<1>3. ASSUME NEW k \in DOMAIN i PROVE At(k) \in DOMAIN q /\ q[At(k)] = i[k]
  <2>1. At(k) \in 1..(Len(b) + Len(i)) /\ ~(At(k) <= Len(b)) /\ At(k) - Len(b) = k
    BY <1>1
  <2> QED
    BY <1>1, <2>1
<1>4. ASSUME NEW k \in DOMAIN i, NEW j \in DOMAIN b PROVE j \in 1..(At(k) - 1)
  BY <1>1
<1>5. ASSUME NEW k \in DOMAIN i, NEW j \in 1..(k - 1) PROVE At(j) \in 1..(At(k) - 1) /\ j \in DOMAIN i
  BY <1>1
<1> HIDE DEF At
<1>6. ASSUME NEW k \in DOMAIN i, i[k].path = p
      PROVE  /\ Newer(LineNumbers(i[k]), {l2})
             /\ \A j \in 1..(k - 1) : i[j].path = p => Newer(LineNumbers(i[k]), LineNumbers(i[j]))
  <2>1. /\ Newer(LineNumbers(i[k]), {l})
        /\ \A j \in 1..(At(k) - 1) : q[j].path = p => Newer(LineNumbers(i[k]), LineNumbers(q[j]))
    BY <1>3, <1>6 DEF InQueue
  <2>2. ASSUME NEW j \in DOMAIN b, b[j].path = p, l2 \in LineNumbers(b[j])
        PROVE  Newer(LineNumbers(i[k]), {l2})
    <3>1. Newer(LineNumbers(i[k]), LineNumbers(b[j]))
      BY <1>2, <1>4, <2>1, <2>2
    <3> QED
      BY <2>2, <3>1 DEF Newer
  <2>3. Newer(LineNumbers(i[k]), {l2})
    BY <2>1, <2>2 DEF UnderWay
  <2>4. ASSUME NEW j \in 1..(k - 1), i[j].path = p PROVE Newer(LineNumbers(i[k]), LineNumbers(i[j]))
    BY <1>3, <1>5, <2>1, <2>4
  <2> QED
    BY <2>3, <2>4
<1>7. UnderWay(p, b) \subseteq UnderWay(p, q)
  BY <1>2 DEF UnderWay
<1>8. UnderWay(p, i) \subseteq UnderWay(p, q)
  <2>1. ASSUME NEW n \in UnderWay(p, i) PROVE n \in UnderWay(p, q)
    <3>1. PICK k \in DOMAIN i : i[k].path = p /\ n \in LineNumbers(i[k])
      BY DEF UnderWay
    <3>2. At(k) \in DOMAIN q /\ q[At(k)] = i[k]
      BY <1>3
    <3> QED
      BY <3>1, <3>2 DEF UnderWay
  <2> QED
    BY <2>1
<1> QED
  BY <1>6, <1>7, <1>8 DEF InQueue

-----------------------------------------------------------------------------
(* A path whose file was never truncated: nothing is out of order in the   *)
(* channel and the batch, in the builder, or ahead in the open file.       *)
Building(t) == IF t.pc \in {"read", "poll"} THEN LinesOf(t.partial) ELSE {}
Consumed(p, q, l, t) == {l} \cup UnderWay(p, q) \cup Building(t)

InOrder(p, q, l, t, n) ==
  /\ InQueue(p, q, l)
  /\ Newer(Building(t), {l} \cup UnderWay(p, q))
  /\ Consumed(p, q, l, t) \subseteq 0..n

InPlace(C, t, fs) ==
  t.pc \in {"read", "poll"} => Sound(t, fs[t.ino]) /\ Ahead(Place(t), fs[t.ino], C)

PathOrdered(p, q, l, t, fs, n) ==
  InOrder(p, q, l, t, n) /\ InPlace(Consumed(p, q, l, t), t, fs)

(* No two paths share a file, in the directory or open.                    *)
OneOwner ==
  \A p \in Path : \A q \in Path \ {p} :
    /\ dir[p] # NoInode => dir[p] # dir[q]
    /\ IsOpen(p) => dir[q] # tail[p].ino /\ (IsOpen(q) => tail[q].ino # tail[p].ino)

OwnStat == \A p \in Path : IsOpen(p) => tail[p].cur.ino = tail[p].ino

FilesOrdered == \A i \in Inode : FileOrdered(files[i], lines)

PathsOrdered ==
  \A p \in Path \ truncated : PathOrdered(p, batch \o in, last[p], tail[p], files, lines)

OrderInv == Types /\ OneOwner /\ OwnStat /\ FilesOrdered /\ PathsOrdered

(* A reader's place in the file, before and after it reads.                *)
LEMMA ReadPlace ==
  ASSUME Types, NEW p \in Path, NEW read \in Reads(p), NEW t, t = tail[p],
         NEW file, file = files[t.ino], Sound(t, file),
         NEW raw, raw = FirstLine(Data(t)), NEW u, u = read.tailer
  PROVE  /\ file \in Seq(Unit) /\ raw \in Seq(Unit) /\ Place(t) \in Nat
         /\ Sound(u, file) /\ Place(u) = Place(t) + Len(raw)
         /\ Place(t) + Len(raw) <= Len(file)
         /\ \A i \in 1..Len(raw) : raw[i] = file[Place(t) + i]
<1> PICK data : data = Data(t)
  OBVIOUS
<1> PICK f, buf, pos : f = Place(t) /\ buf = t.buf /\ pos = t.pos
  OBVIOUS
<1>1. /\ IsOpen(p) /\ t \in Reader /\ u \in Reader /\ u.cur = t.cur
      /\ u.pos = Offset(t) /\ u.buf = SubSeq(data, Len(raw) + 1, Len(data))
  BY ReadFacts
<1>2. t.ino \in Inode /\ buf \in Seq(Unit) /\ pos \in Nat /\ u.pos \in Nat /\ t.cur.size \in Nat
  BY <1>1 DEF Reader
<1>3. file \in Seq(Unit)
  BY <1>2 DEF Types, TypeOK
<1>4. Len(file) \in Nat /\ Len(buf) \in Nat
  BY <1>2, <1>3, LenProperties
<1>5. /\ f = pos - Len(buf) /\ f \in Nat /\ pos <= Len(file) /\ t.cur.size <= Len(file)
      /\ \A i \in 1..Len(buf) : buf[i] = file[f + i]
  BY <1>2, <1>4 DEF Place, Sound
<1>6. data \in Seq(Unit)
  BY <1>1, DataFacts
<1>7. /\ raw \in Seq(Unit) /\ Len(raw) \in Nat /\ Len(raw) <= Len(data) /\ Len(data) \in Nat
      /\ \A i \in 1..Len(raw) : raw[i] = data[i]
  BY <1>6, FirstLineFacts
<1>8. /\ f + Len(data) = u.pos /\ u.pos <= Len(file)
      /\ \A i \in 1..Len(data) : data[i] = file[f + i]
  <2>1. CASE Buffered(t)
    <3>1. data = buf /\ u.pos = pos
      BY <1>1, <2>1, DataFacts
    <3> QED
      BY <1>2, <1>4, <1>5, <3>1
  <2>2. CASE ~Buffered(t)
    <3>1. /\ u.pos = Len(file) /\ Len(data) = Len(buf) + Len(file) - pos
          /\ \A i \in 1..Len(data) :
               data[i] = IF i <= Len(buf) THEN buf[i] ELSE file[pos + (i - Len(buf))]
      <4>1. t.pos <= Len(files[t.ino])
        BY <1>5
      <4>2. /\ Offset(t) = Len(files[t.ino])
            /\ Len(data) = Len(t.buf) + Len(files[t.ino]) - t.pos
            /\ \A i \in 1..Len(data) :
                 data[i] = IF i <= Len(t.buf) THEN t.buf[i]
                           ELSE files[t.ino][t.pos + (i - Len(t.buf))]
        <5>1. /\ Types /\ p \in Path /\ IsOpen(p) /\ t = tail[p] /\ data = Data(t)
              /\ ~Buffered(t) /\ t.pos <= Len(files[t.ino])
          BY <1>1, <2>2, <4>1
        <5>2. Offset(t) = Len(files[t.ino])
          BY ONLY <5>1, DataFacts
        <5>3. Len(data) = Len(t.buf) + Len(files[t.ino]) - t.pos
          BY ONLY <5>1, DataFacts
        <5>4. \A i \in 1..Len(data) :
                data[i] = IF i <= Len(t.buf) THEN t.buf[i]
                          ELSE files[t.ino][t.pos + (i - Len(t.buf))]
          BY ONLY <5>1, DataFacts
        <5> QED
          BY <5>2, <5>3, <5>4
      <4> QED
        BY <1>1, <4>2
    <3>2. ASSUME NEW i \in 1..Len(data) PROVE data[i] = file[f + i]
      <4>1. CASE i <= Len(buf)
        BY <1>4, <1>5, <3>1, <4>1
      <4>2. CASE ~(i <= Len(buf))
        <5>1. pos + (i - Len(buf)) = f + i
          BY <1>2, <1>4, <1>5
        <5> QED
          BY <3>1, <4>2, <5>1
      <4> QED
        BY <4>1, <4>2
    <3>3. f + Len(data) = u.pos /\ u.pos <= Len(file)
      <4> PICK m, n, d : m = Len(buf) /\ n = Len(file) /\ d = Len(data)
        OBVIOUS
      <4>1. m \in Nat /\ n \in Nat /\ pos \in Nat /\ f = pos - m /\ d = m + n - pos
        BY <1>2, <1>4, <1>5, <3>1
      <4>2. f + d = n
        BY ONLY <4>1
      <4> QED
        BY <1>4, <3>1, <4>2
    <3> QED
      BY <3>2, <3>3
  <2> QED
    BY <2>1, <2>2
<1> PICK k : k = Len(raw)
  OBVIOUS
<1>9. k \in 0..Len(data)
  BY <1>7
<1>10. /\ u.buf \in Seq(Unit) /\ Len(u.buf) = Len(data) - k
       /\ \A i \in 1..Len(u.buf) : u.buf[i] = data[k + i]
  <2> PICK left : left = u.buf
    OBVIOUS
  <2>1. data \in Seq(Unit) /\ k \in 0..Len(data) /\ left = SubSeq(data, k + 1, Len(data))
    BY <1>1, <1>6, <1>9
  <2>2. left \in Seq(Unit) /\ Len(left) = Len(data) - k
    BY ONLY <2>1, LeftFacts
  <2>3. \A i \in 1..Len(left) : left[i] = data[k + i]
    BY ONLY <2>1, LeftFacts
  <2> QED
    BY <2>2, <2>3
<1>11. Place(u) = f + k /\ Len(u.buf) <= u.pos
  <2> PICK left, upos, whole : left = Len(u.buf) /\ upos = u.pos /\ whole = Len(data)
    OBVIOUS
  <2>1. /\ f \in Nat /\ k \in Nat /\ whole \in Nat /\ left = whole - k
        /\ f + whole = upos /\ k <= whole
    BY <1>5, <1>7, <1>8, <1>9, <1>10
  <2>2. upos - left = f + k /\ left <= upos
    BY ONLY <2>1
  <2> QED
    BY <2>2 DEF Place
<1>12. \A i \in 1..Len(u.buf) : u.buf[i] = file[Place(u) + i]
  <2>1. ASSUME NEW i \in 1..Len(u.buf) PROVE u.buf[i] = file[Place(u) + i]
    <3> PICK j : j = k + i
      OBVIOUS
    <3>1. j \in 1..Len(data) /\ f + j = Place(u) + i
      BY <1>5, <1>7, <1>9, <1>10, <1>11
    <3>2. u.buf[i] = data[j] /\ data[j] = file[f + j]
      BY <1>8, <1>10, <3>1
    <3> QED
      BY <3>1, <3>2
  <2> QED
    BY <2>1
<1>13. Sound(u, file)
  BY <1>1, <1>5, <1>8, <1>11, <1>12 DEF Sound
<1>14. f + k <= Len(file) /\ \A i \in 1..k : raw[i] = file[f + i]
  <2>1. f + k <= Len(file)
    BY <1>2, <1>4, <1>5, <1>8, <1>9
  <2>2. ASSUME NEW i \in 1..k PROVE raw[i] = file[f + i]
    <3>1. i \in 1..Len(raw) /\ i \in 1..Len(data)
      BY <1>9
    <3> QED
      BY <1>7, <1>8, <3>1
  <2> QED
    BY <2>1, <2>2
<1> QED
  BY <1>3, <1>5, <1>7, <1>11, <1>13, <1>14

LEMMA AheadFewer ==
  ASSUME NEW f, NEW file, NEW C, NEW D, D \subseteq C, Ahead(f, file, C)
  PROVE  Ahead(f, file, D)
BY DEF Ahead

LEMMA PathChanges ==
  ASSUME NEW p, NEW q, NEW l, NEW t, NEW fs, NEW n \in Nat, PathOrdered(p, q, l, t, fs, n),
         NEW q2, NEW l2, NEW t2, NEW fs2, NEW n2 \in Nat, n <= n2, InQueue(p, q2, l2),
         {l2} \cup UnderWay(p, q2) \subseteq {l} \cup UnderWay(p, q),
         Building(t2) \subseteq Building(t), InPlace(Consumed(p, q, l, t), t2, fs2)
  PROVE  PathOrdered(p, q2, l2, t2, fs2, n2)
<1> PICK C, C2 : C = Consumed(p, q, l, t) /\ C2 = Consumed(p, q2, l2, t2)
  OBVIOUS
<1>1. C2 \subseteq C
  BY DEF Consumed
<1>2. C2 \subseteq 0..n2
  <2>1. C \subseteq 0..n
    BY DEF PathOrdered, InOrder
  <2>2. \A c \in 0..n : c \in 0..n2
    BY SMT
  <2> QED
    BY <1>1, <2>1, <2>2
<1>3. Newer(Building(t2), {l2} \cup UnderWay(p, q2))
  BY DEF PathOrdered, InOrder, Newer
<1>4. InPlace(C2, t2, fs2)
  <2>1. InPlace(C, t2, fs2)
    OBVIOUS
  <2> QED
    BY <1>1, <2>1, AheadFewer DEF InPlace
<1> QED
  BY <1>2, <1>3, <1>4 DEF PathOrdered, InOrder

(* The tailer that reads.                                                  *)
LEMMA ReaderOrdered ==
  ASSUME OrderInv, NEW p \in Path, p \notin truncated,
         NEW read \in Reads(p), OnRecord(read.out)
  PROVE  PathOrdered(p, batch \o in', last[p], read.tailer, files, lines)
<1> PICK t, u, file, raw : /\ t = tail[p] /\ u = read.tailer /\ file = files[t.ino]
                           /\ raw = FirstLine(Data(t))
  OBVIOUS
<1> PICK q, q2, l : q = batch \o in /\ q2 = batch \o in' /\ l = last[p]
  OBVIOUS
<1> PICK f, g, C : f = Place(t) /\ g = f + Len(raw) /\ C = Consumed(p, q, l, t)
  OBVIOUS
<1>1. PathOrdered(p, q, l, t, files, lines)
  BY DEF OrderInv, PathsOrdered
<1>2. /\ IsOpen(p) /\ t \in Reader /\ u \in Reader /\ u.ino = t.ino
      /\ Passes(t, raw, read) \/ Builds(t, raw, read) \/ Emits(p, t, raw, read)
  BY ReadFacts DEF OrderInv
<1>3. t.pc \in {"read", "poll"} /\ u.pc \in {"read", "poll"} /\ t.ino \in Inode /\ t.partial \in Seq(Unit)
  BY <1>2 DEF IsOpen, Reader
<1>4. Sound(t, file) /\ Ahead(f, file, C)
  BY <1>1, <1>3 DEF PathOrdered, InPlace
<1>5. /\ file \in Seq(Unit) /\ raw \in Seq(Unit) /\ f \in Nat
      /\ Sound(u, file) /\ Place(u) = g /\ f + Len(raw) <= Len(file)
      /\ \A i \in 1..Len(raw) : raw[i] = file[f + i]
  <2>1. /\ Types /\ p \in Path /\ read \in Reads(p) /\ t = tail[p] /\ file = files[t.ino]
        /\ Sound(t, file) /\ raw = FirstLine(Data(t)) /\ u = read.tailer
    BY <1>4 DEF OrderInv
  <2>2. file \in Seq(Unit) /\ raw \in Seq(Unit) /\ Place(t) \in Nat
    BY ONLY <2>1, ReadPlace
  <2>3. Sound(u, file) /\ Place(u) = Place(t) + Len(raw)
    BY ONLY <2>1, ReadPlace
  <2>4. Place(t) + Len(raw) <= Len(file)
    BY ONLY <2>1, ReadPlace
  <2>5. \A i \in 1..Len(raw) : raw[i] = file[Place(t) + i]
    BY ONLY <2>1, ReadPlace
  <2> QED
    BY <2>2, <2>3, <2>4, <2>5
<1>6. lines \in Nat /\ FileOrdered(file, lines)
  <2>1. lines \in 0..MaxLines /\ MaxLines \in Nat
    BY TailerAssumption DEF OrderInv, Types, TypeOK
  <2>2. FileOrdered(file, lines)
    BY <1>3 DEF OrderInv, FilesOrdered
  <2> QED
    BY <2>1, <2>2
<1>7. Ahead(g, file, C)
  <2>1. /\ file \in Seq(Unit) /\ lines \in Nat /\ FileOrdered(file, lines) /\ f \in Nat
        /\ raw \in Seq(Unit) /\ f + Len(raw) <= Len(file)
        /\ \A i \in 1..Len(raw) : raw[i] = file[f + i]
        /\ Ahead(f, file, C) /\ g = f + Len(raw)
    BY <1>4, <1>5, <1>6
  <2> QED
    BY ONLY <2>1, AheadMoves
<1>8. ASSUME raw # <<>>, Parses(raw)
      PROVE  /\ Newer(LinesOf(raw), C) /\ LinesOf(raw) \subseteq 0..lines
             /\ Ahead(g, file, C \cup LinesOf(raw))
  <2>1. ~IsRest(raw[1])
    BY <1>8 DEF Parses, IsRest
  <2> QED
    <3>1. /\ file \in Seq(Unit) /\ lines \in Nat /\ FileOrdered(file, lines) /\ f \in Nat
          /\ raw \in Seq(Unit) /\ f + Len(raw) <= Len(file)
          /\ \A i \in 1..Len(raw) : raw[i] = file[f + i]
          /\ Ahead(f, file, C) /\ g = f + Len(raw) /\ raw # <<>> /\ ~IsRest(raw[1])
      BY <1>4, <1>5, <1>6, <1>8, <2>1
    <3> QED
      BY ONLY <3>1, AheadMoves
<1>9. Building(t) = LinesOf(t.partial) /\ Building(u) = LinesOf(u.partial)
  BY <1>3 DEF Building
<1>10. C \subseteq 0..lines /\ InQueue(p, q, l) /\ Newer(Building(t), {l} \cup UnderWay(p, q))
  BY <1>1 DEF PathOrdered, InOrder
<1>11. ASSUME InQueue(p, q2, l), Newer(Building(u), {l} \cup UnderWay(p, q2)),
              NEW D, D \subseteq 0..lines, Consumed(p, q2, l, u) \subseteq D, Ahead(g, file, D)
       PROVE  PathOrdered(p, q2, l, u, files, lines)
  <2>1. Ahead(g, file, Consumed(p, q2, l, u))
    BY <1>11, AheadFewer
  <2>2. Consumed(p, q2, l, u) \subseteq 0..lines
    BY <1>11
  <2> QED
    BY <1>2, <1>5, <1>11, <2>1, <2>2 DEF PathOrdered, InOrder, InPlace
<1>12. CASE Passes(t, raw, read) /\ in' = in
  <2>1. Building(u) = Building(t) /\ q2 = q
    BY <1>9, <1>12 DEF Passes
  <2>2. Consumed(p, q2, l, u) = C
    BY <2>1 DEF Consumed
  <2> QED
    BY <1>7, <1>10, <1>11, <2>1, <2>2
<1>13. CASE Builds(t, raw, read) /\ in' = in
  <2>1. Building(u) = Building(t) \cup LinesOf(raw) /\ q2 = q
    <3>1. u.partial = t.partial \o raw /\ t.partial \in Seq(Unit) /\ raw \in Seq(Unit) /\ q2 = q
      BY <1>3, <1>5, <1>13 DEF Builds
    <3>2. LinesOf(u.partial) = LinesOf(t.partial) \cup LinesOf(raw)
      BY ONLY <3>1, LinesJoined
    <3> QED
      BY <1>9, <3>1, <3>2
  <2>2. Consumed(p, q2, l, u) \subseteq C \cup LinesOf(raw)
    BY <2>1 DEF Consumed
  <2>3. {l} \cup UnderWay(p, q) \subseteq C
    BY DEF Consumed
  <2>4. Newer(LinesOf(raw), C) /\ LinesOf(raw) \subseteq 0..lines /\ Ahead(g, file, C \cup LinesOf(raw))
    BY <1>8, <1>13 DEF Builds
  <2>5. Newer(Building(u), {l} \cup UnderWay(p, q2))
    BY <1>10, <2>1, <2>3, <2>4 DEF Newer
  <2>6. C \cup LinesOf(raw) \subseteq 0..lines
    BY <1>10, <2>4
  <2> QED
    BY <1>10, <1>11, <2>1, <2>2, <2>4, <2>5, <2>6
<1>14. CASE Emits(p, t, raw, read)
  <2>1. u.partial = <<>> /\ Len(<<>>) = 0
    BY <1>14 DEF Emits
  <2>2. Building(u) = {}
    <3>1. LinesOf(<<>>) = {}
      BY <2>1 DEF LinesOf
    <3> QED
      BY <1>9, <2>1, <3>1
  <2>3. Newer(LinesOf(raw), C) /\ LinesOf(raw) \subseteq 0..lines /\ Ahead(g, file, C \cup LinesOf(raw))
    BY <1>8, <1>14 DEF Emits
  <2>4. C \cup LinesOf(raw) \subseteq 0..lines
    BY <1>10, <2>3
  <2>5. Newer(Building(u), {l} \cup UnderWay(p, q2))
    BY <2>2 DEF Newer
  <2>6. CASE in' = in
    <3>1. q2 = q
      BY <2>6
    <3>2. Consumed(p, q2, l, u) \subseteq C
      BY <2>2, <3>1 DEF Consumed
    <3> QED
      BY <1>7, <1>10, <1>11, <2>5, <3>1, <3>2
  <2>7. CASE in' # in
    <3> PICK r : r = [path |-> p, msg |-> t.partial \o raw]
      OBVIOUS
    <3>1. in' = in \o <<r>> /\ r \in Record /\ r.path = p /\ r.msg = t.partial \o raw
      BY <2>7, SentFacts DEF OrderInv
    <3>2. LineNumbers(r) = Building(t) \cup LinesOf(raw)
      <4>1. LineNumbers(r) = LinesOf(r.msg)
        BY <3>1, LinesOfRecord
      <4>2. LinesOf(r.msg) = LinesOf(t.partial) \cup LinesOf(raw)
        <5>1. r.msg = t.partial \o raw /\ t.partial \in Seq(Unit) /\ raw \in Seq(Unit)
          BY <1>3, <1>5, <3>1
        <5> QED
          BY ONLY <5>1, LinesJoined
      <4> QED
        BY <1>9, <4>1, <4>2
    <3>3. in \in Seq(Record) /\ batch \in Seq(Record) /\ <<r>> \in Seq(Record)
      BY <3>1 DEF OrderInv, Types, TypeOK
    <3>4. q \in Seq(Record) /\ q2 = q \o <<r>>
      BY <3>1, <3>3, ConcatProperties, ConcatAssociative
    <3>5. {l} \cup UnderWay(p, q) \subseteq C
      BY DEF Consumed
    <3>6. Newer(LineNumbers(r), {l} \cup UnderWay(p, q))
      BY <1>10, <2>3, <3>2, <3>5 DEF Newer
    <3>7. InQueue(p, q2, l) /\ UnderWay(p, q2) = UnderWay(p, q) \cup LineNumbers(r)
      <4>1. /\ p \in Path /\ q \in Seq(Record) /\ r \in Record /\ q2 = q \o <<r>>
            /\ InQueue(p, q, l) /\ r.path = p /\ Newer(LineNumbers(r), {l} \cup UnderWay(p, q))
        BY <1>10, <3>1, <3>4, <3>6
      <4>2. InQueue(p, q2, l)
        BY ONLY <4>1, QueueGrows
      <4>3. UnderWay(p, q2) = UnderWay(p, q) \cup (IF r.path = p THEN LineNumbers(r) ELSE {})
        BY ONLY <4>1, QueueGrows
      <4> QED
        BY <4>1, <4>2, <4>3
    <3>8. Consumed(p, q2, l, u) \subseteq C \cup LinesOf(raw)
      BY <2>2, <3>2, <3>7 DEF Consumed
    <3> QED
      BY <1>11, <2>3, <2>4, <2>5, <3>7, <3>8
  <2> QED
    BY <2>6, <2>7
<1>15. Emits(p, t, raw, read) \/ in' = in
  BY SentFacts DEF OrderInv
<1> QED
  BY <1>2, <1>12, <1>13, <1>14, <1>15

LEMMA OrderRead ==
  ASSUME OrderInv, NEW p \in Path, NEW read \in Reads(p), ReadLine(p, read), OnRecord(read.out)
  PROVE  OrderInv'
<1> PICK t, u : t = tail[p] /\ u = read.tailer
  OBVIOUS
<1>1. Types'
  BY TypesRead DEF OrderInv
<1>2. IsOpen(p) /\ u \in Reader /\ u.ino = t.ino /\ u.cur = t.cur
  BY ReadFacts DEF OrderInv
<1>3. /\ tail'[p] = u /\ \A a \in Path \ {p} : tail'[a] = tail[a]
      /\ UNCHANGED <<dir, files, lines, truncated, batch, last>>
  <2>1. u \in TailerState
    BY <1>2, ReaderIsTailer
  <2> QED
    BY <2>1, MoveType DEF OrderInv, ReadLine, OnRecord, fileVars
<1>4. \A a \in Path : (IsOpen(a)' <=> IsOpen(a)) /\ (IsOpen(a) => tail'[a].ino = tail[a].ino)
  BY <1>2, <1>3 DEF IsOpen, Reader
<1>5. OneOwner'
  <2>1. OneOwner
    BY DEF OrderInv
  <2> QED
    BY <1>3, <1>4, <2>1 DEF OneOwner
<1>6. OwnStat'
  BY <1>2, <1>3, <1>4 DEF OrderInv, OwnStat
<1>7. FilesOrdered'
  BY <1>3 DEF OrderInv, FilesOrdered
<1>8. ASSUME NEW a \in Path \ truncated
      PROVE  PathOrdered(a, batch \o in', last[a], tail'[a], files, lines)
  <2>1. CASE a = p
    BY <1>3, <2>1, ReaderOrdered
  <2>2. CASE a # p
    <3> PICK q, q2, l : q = batch \o in /\ q2 = batch \o in' /\ l = last[a]
      OBVIOUS
    <3>1. PathOrdered(a, q, l, tail[a], files, lines) /\ tail'[a] = tail[a]
      BY <1>3, <2>2 DEF OrderInv, PathsOrdered
    <3>2. CASE in' = in
      BY <3>1, <3>2
    <3>3. CASE in' # in
      <4> PICK r : r = [path |-> p, msg |-> t.partial \o FirstLine(Data(t))]
        OBVIOUS
      <4>1. in' = in \o <<r>> /\ r \in Record /\ r.path = p
        BY <3>3, SentFacts DEF OrderInv
      <4>2. in \in Seq(Record) /\ batch \in Seq(Record) /\ <<r>> \in Seq(Record)
        BY <4>1 DEF OrderInv, Types, TypeOK
      <4>3. q \in Seq(Record) /\ q2 = q \o <<r>>
        BY <4>1, <4>2, ConcatProperties, ConcatAssociative
      <4>4. InQueue(a, q, l)
        BY <3>1 DEF PathOrdered, InOrder
      <4>5. InQueue(a, q2, l) /\ UnderWay(a, q2) = UnderWay(a, q)
        <5>1. /\ a \in Path /\ q \in Seq(Record) /\ r \in Record /\ q2 = q \o <<r>>
              /\ InQueue(a, q, l) /\ r.path # a
          BY <2>2, <4>1, <4>3, <4>4
        <5>2. InQueue(a, q2, l)
          BY ONLY <5>1, QueueGrows
        <5>3. UnderWay(a, q2) = UnderWay(a, q) \cup (IF r.path = a THEN LineNumbers(r) ELSE {})
          BY ONLY <5>1, QueueGrows
        <5> QED
          BY <5>1, <5>2, <5>3
      <4>6. Consumed(a, q2, l, tail[a]) = Consumed(a, q, l, tail[a])
        BY <4>5 DEF Consumed
      <4> QED
        BY <3>1, <4>5, <4>6 DEF PathOrdered, InOrder
    <3> QED
      BY <3>2, <3>3
  <2> QED
    BY <2>1, <2>2
<1>9. PathsOrdered'
  BY <1>3, <1>8 DEF PathsOrdered
<1> QED
  BY <1>1, <1>5, <1>6, <1>7, <1>9 DEF OrderInv

LEMMA LaterOrdered ==
  ASSUME NEW file \in Seq(Unit), NEW n \in Nat, NEW m \in Nat, n <= m, FileOrdered(file, n)
  PROVE  FileOrdered(file, m)
<1>1. \A i \in 1..Len(file) : file[i].line \in Nat
  BY UnitLines
<1> QED
  BY <1>1 DEF FileOrdered

LEMMA OrderCounts ==
  ASSUME OrderInv
  PROVE  /\ lines \in Nat /\ \A i \in Inode : files[i] \in Seq(Unit) /\ Len(files[i]) \in Nat
         /\ \A p \in Path : dir[p] # NoInode => dir[p] \in Inode
         /\ \A p \in Path : IsOpen(p) => tail[p] \in Reader /\ tail[p].ino \in Inode
<1>1. lines \in Nat /\ files \in [Inode -> Seq(Unit)] /\ dir \in [Path -> Inode \cup {NoInode}]
  BY TailerAssumption DEF OrderInv, Types, TypeOK
<1>2. \A i \in Inode : files[i] \in Seq(Unit) /\ Len(files[i]) \in Nat
  BY <1>1, LenProperties
<1>3. \A p \in Path : IsOpen(p) => tail[p] \in Reader
  BY ReaderIs DEF OrderInv
<1>4. \A t \in Reader : t.ino \in Inode
  BY DEF Reader
<1> QED
  BY <1>1, <1>2, <1>3, <1>4

LEMMA PlaceFacts ==
  ASSUME NEW t \in Reader, NEW file \in Seq(Unit), Sound(t, file)
  PROVE  Place(t) \in Nat /\ Place(t) <= t.pos /\ t.pos <= Len(file) /\ Len(file) \in Nat
<1>1. t.buf \in Seq(Unit) /\ t.pos \in Nat
  BY DEF Reader
<1>2. Len(t.buf) \in Nat /\ Len(file) \in Nat
  BY <1>1, LenProperties
<1> QED
  BY <1>1, <1>2 DEF Place, Sound

LEMMA SoundGrows ==
  ASSUME NEW p, NEW t \in Reader, NEW old \in Seq(Unit), NEW new \in Seq(Unit), Added(p, old, new), Sound(t, old)
  PROVE  Sound(t, new)
<1>1. /\ Len(old) \in Nat /\ Len(new) \in Nat /\ Len(old) <= Len(new)
      /\ \A i \in 1..Len(old) : new[i] = old[i]
  BY LenProperties DEF Added
<1>2. t.pos \in Nat /\ t.buf \in Seq(Unit) /\ t.cur.size \in Nat
  BY DEF Reader
<1>3. Len(t.buf) \in Nat
  BY <1>2, LenProperties
<1>4. /\ t.pos <= Len(old) /\ t.cur.size <= Len(old) /\ Len(t.buf) <= t.pos
      /\ \A i \in 1..Len(t.buf) : t.buf[i] = old[Place(t) + i]
  BY DEF Sound
<1>5. ASSUME NEW i \in 1..Len(t.buf) PROVE t.buf[i] = new[Place(t) + i]
  <2>1. Place(t) + i \in 1..Len(old)
    BY <1>1, <1>2, <1>3, <1>4 DEF Place
  <2> QED
    BY <1>1, <1>4, <2>1
<1> QED
  BY <1>1, <1>2, <1>4, <1>5 DEF Sound

(* A step of the node or of a tailer, for a path it leaves in place.       *)
LEMMA PathStays ==
  ASSUME OrderInv, UNCHANGED <<in, batch, last>>, lines' \in Nat, lines' >= lines,
         NEW p \in Path \ truncated, Building(tail'[p]) \subseteq Building(tail[p]),
         InPlace(Consumed(p, batch \o in, last[p], tail[p]), tail'[p], files')
  PROVE  PathOrdered(p, (batch \o in)', last'[p], tail'[p], files', lines')
<1> PICK q, l, t, fs, n : q = batch \o in /\ l = last[p] /\ t = tail[p] /\ fs = files /\ n = lines
  OBVIOUS
<1> PICK t2, fs2, n2 : t2 = tail'[p] /\ fs2 = files' /\ n2 = lines'
  OBVIOUS
<1>1. PathOrdered(p, q, l, t, fs, n) /\ n \in Nat /\ n2 \in Nat /\ n <= n2
  BY OrderCounts DEF OrderInv, PathsOrdered
<1>2. InQueue(p, q, l)
  BY <1>1 DEF PathOrdered, InOrder
<1>3. Building(t2) \subseteq Building(t) /\ InPlace(Consumed(p, q, l, t), t2, fs2)
  OBVIOUS
<1>4. PathOrdered(p, q, l, t2, fs2, n2)
  BY ONLY <1>1, <1>2, <1>3, PathChanges
<1> QED
  BY <1>4

LEMMA OrderNode ==
  ASSUME OrderInv, NEW p \in Path, Node(p), UNCHANGED shipVars
  PROVE  OrderInv'
<1>1. Types'
  BY TypesNode DEF OrderInv
<1>2. tail' = tail /\ truncated \subseteq truncated' /\ UNCHANGED <<in, batch, last>>
  BY DEF Node, Create, Write, WriteBeginning, WriteRest, Unlink, Truncate, shipVars
<1>3. /\ lines \in Nat /\ \A i \in Inode : files[i] \in Seq(Unit) /\ Len(files[i]) \in Nat
      /\ \A a \in Path : IsOpen(a) => tail[a] \in Reader /\ tail[a].ino \in Inode
  BY OrderCounts
<1>4. OwnStat' /\ \A a \in Path : IsOpen(a)' <=> IsOpen(a)
  BY <1>2 DEF OrderInv, OwnStat, IsOpen
<1>5. OneOwner'
  <2>1. OneOwner
    BY DEF OrderInv
  <2>2. CASE Create(p)
    <3>1. PICK i \in Unused : dir' = [dir EXCEPT ![p] = i]
      BY <2>2 DEF Create
    <3>2. \A a \in Path : dir[a] # i /\ (IsOpen(a) => tail[a].ino # i)
      BY <3>1 DEF Unused
    <3>3. dir \in [Path -> Inode \cup {NoInode}]
      BY DEF OrderInv, Types, TypeOK
    <3>4. dir'[p] = i /\ \A a \in Path \ {p} : dir'[a] = dir[a]
      BY <3>1, <3>3
    <3> QED
      BY <1>2, <1>4, <2>1, <3>2, <3>4 DEF OneOwner
  <2>3. CASE Unlink(p)
    <3>1. dir \in [Path -> Inode \cup {NoInode}] /\ NoInode \notin Inode
      BY TailerAssumption DEF OrderInv, Types, TypeOK
    <3>2. dir'[p] = NoInode /\ \A a \in Path \ {p} : dir'[a] = dir[a]
      BY <2>3, <3>1 DEF Unlink
    <3> QED
      BY <1>2, <1>3, <1>4, <2>1, <3>1, <3>2 DEF OneOwner
  <2>4. CASE Writes(p) \/ Truncate(p)
    <3>1. dir' = dir
      BY <2>4 DEF Writes, Write, WriteBeginning, WriteRest, Truncate
    <3> QED
      BY <1>2, <1>4, <2>1, <3>1 DEF OneOwner
  <2> QED
    BY <2>2, <2>3, <2>4 DEF Node, Writes
<1>6. ASSUME NEW a \in Path \ truncated, NEW t, t = tail[a], NEW C,
             C = Consumed(a, batch \o in, last[a], t), InPlace(C, t, files'),
             lines' \in Nat, lines' >= lines
      PROVE  PathOrdered(a, (batch \o in)', last'[a], tail'[a], files', lines')
  BY <1>2, <1>6, PathStays
<1>7. ASSUME NEW a \in Path \ truncated, NEW t, t = tail[a], NEW C,
             C = Consumed(a, batch \o in, last[a], t)
      PROVE  InPlace(C, t, files) /\ C \subseteq 0..lines
  BY <1>7 DEF OrderInv, PathsOrdered, PathOrdered, InOrder
<1>8. CASE Create(p) \/ Unlink(p)
  <2>1. UNCHANGED <<files, lines, truncated>>
    BY <1>8 DEF Create, Unlink
  <2>2. FilesOrdered'
    BY <2>1 DEF OrderInv, FilesOrdered
  <2>3. PathsOrdered'
    BY <1>3, <1>6, <1>7, <2>1 DEF PathsOrdered
  <2> QED
    BY <1>1, <1>4, <1>5, <2>2, <2>3 DEF OrderInv
<1>9. CASE Truncate(p)
  <2>1. /\ dir[p] \in Inode /\ files' = [files EXCEPT ![dir[p]] = <<>>]
        /\ truncated' = truncated \cup {p} /\ lines' = lines
    BY <1>9, OrderCounts DEF Truncate
  <2> PICK d : d = dir[p]
    OBVIOUS
  <2>2. files'[d] = <<>> /\ Len(<<>>) = 0 /\ \A i \in Inode \ {d} : files'[i] = files[i]
    BY <2>1 DEF OrderInv, Types, TypeOK
  <2>3. FilesOrdered'
    <3>1. FileOrdered(<<>>, lines)
      BY <2>2 DEF FileOrdered
    <3> QED
      BY <2>1, <2>2, <3>1 DEF OrderInv, FilesOrdered
  <2>4. ASSUME NEW a \in Path \ truncated'
        PROVE  PathOrdered(a, (batch \o in)', last'[a], tail'[a], files', lines')
    <3> PICK t, C : t = tail[a] /\ C = Consumed(a, batch \o in, last[a], t)
      OBVIOUS
    <3>1. a \in Path \ truncated /\ a # p
      BY <2>1
    <3>2. InPlace(C, t, files)
      BY <1>7, <3>1
    <3>3. ASSUME t.pc \in {"read", "poll"} PROVE files'[t.ino] = files[t.ino]
      <4>1. IsOpen(a)
        BY <3>3 DEF IsOpen
      <4>2. d # t.ino /\ t.ino \in Inode
        BY <1>3, <3>1, <4>1 DEF OrderInv, OneOwner
      <4> QED
        BY <2>2, <4>2
    <3>4. InPlace(C, t, files')
      BY <3>2, <3>3 DEF InPlace
    <3>5. lines' \in Nat /\ lines' >= lines
      BY <1>3, <2>1
    <3> QED
      BY <1>6, <3>1, <3>4, <3>5
  <2>5. PathsOrdered'
    BY <2>4 DEF PathsOrdered
  <2> QED
    BY <1>1, <1>4, <1>5, <2>3, <2>5 DEF OrderInv
<1>10. CASE Writes(p)
  <2> PICK d : d = dir[p]
    OBVIOUS
  <2>1. /\ d \in Inode /\ files' \in [Inode -> Seq(Unit)]
        /\ Added(p, files[d], files'[d]) /\ \A i \in Inode \ {d} : files'[i] = files[i]
        /\ lines' \in 0..MaxLines /\ lines' >= lines /\ truncated' = truncated
    BY <1>10, WriteFacts DEF OrderInv
  <2>2. lines' \in Nat /\ files'[d] \in Seq(Unit)
    BY <2>1, TailerAssumption
  <2>3. FilesOrdered'
    <3>1. ASSUME NEW i \in Inode PROVE FileOrdered(files'[i], lines')
      <4>1. FileOrdered(files[i], lines) /\ files[i] \in Seq(Unit)
        BY <1>3 DEF OrderInv, FilesOrdered
      <4>2. CASE i = d
        BY <1>3, <2>1, <2>2, <4>1, <4>2, AddedOrdered
      <4>3. CASE i # d
        BY <1>3, <2>1, <2>2, <4>1, <4>3, LaterOrdered
      <4> QED
        BY <4>2, <4>3
    <3> QED
      BY <3>1 DEF FilesOrdered
  <2>4. ASSUME NEW a \in Path \ truncated'
        PROVE  PathOrdered(a, (batch \o in)', last'[a], tail'[a], files', lines')
    <3> PICK t, C : t = tail[a] /\ C = Consumed(a, batch \o in, last[a], t)
      OBVIOUS
    <3>1. InPlace(C, t, files) /\ C \subseteq 0..lines /\ a \in Path \ truncated
      BY <1>7, <2>1
    <3>2. ASSUME t.pc \in {"read", "poll"}
          PROVE  Sound(t, files'[t.ino]) /\ Ahead(Place(t), files'[t.ino], C)
      <4>1. t \in Reader /\ t.ino \in Inode /\ Sound(t, files[t.ino]) /\ Ahead(Place(t), files[t.ino], C)
        BY <1>3, <3>1, <3>2 DEF InPlace, IsOpen
      <4>2. CASE t.ino # d
        BY <2>1, <4>1, <4>2
      <4>3. CASE t.ino = d
        <5> PICK old, new, f : old = files[d] /\ new = files'[d] /\ f = Place(t)
          OBVIOUS
        <5>1. old \in Seq(Unit) /\ new \in Seq(Unit) /\ Added(p, old, new) /\ Sound(t, old) /\ Ahead(f, old, C)
          BY <1>3, <2>1, <2>2, <4>1, <4>3
        <5>2. Sound(t, new)
          BY <4>1, <5>1, SoundGrows
        <5>3. f \in Nat /\ f <= Len(old)
          <6>1. f \in Nat /\ f <= t.pos /\ t.pos <= Len(old) /\ Len(old) \in Nat
            BY <4>1, <5>1, PlaceFacts
          <6>2. t.pos \in Nat
            BY <4>1 DEF Reader
          <6> QED
            BY <6>1, <6>2
        <5>4. lines \in Nat /\ C \subseteq 0..lines
          BY <1>3, <3>1
        <5>5. Ahead(f, new, C)
          BY ONLY <5>1, <5>3, <5>4, AddedAhead
        <5> QED
          BY <4>3, <5>2, <5>5
      <4> QED
        BY <4>2, <4>3
    <3>3. InPlace(C, t, files')
      BY <3>2 DEF InPlace
    <3> QED
      BY <1>6, <2>1, <2>2, <3>1, <3>3
  <2>5. PathsOrdered'
    BY <2>4 DEF PathsOrdered
  <2> QED
    BY <1>1, <1>4, <1>5, <2>3, <2>5 DEF OrderInv
<1> QED
  BY <1>8, <1>9, <1>10 DEF Node, Writes

LEMMA OrderTail ==
  ASSUME OrderInv, NEW p \in Path, Silent(p) \/ Fails(p), UNCHANGED shipVars
  PROVE  OrderInv'
<1> PICK t, u : t = tail[p] /\ u = tail'[p]
  OBVIOUS
<1>1. Types'
  BY TypesTail DEF OrderInv
<1>2. /\ \A a \in Path \ {p} : tail'[a] = tail[a]
      /\ UNCHANGED <<dir, files, lines, truncated, in, batch, last>>
  BY SilentFacts DEF OrderInv, shipVars
<1>3. \/ u = Off
      \/ /\ dir[p] \in Inode /\ u \in Reader /\ u.ino = dir[p] /\ u.buf = <<>> /\ u.partial = <<>>
         /\ u.cur.ino = u.ino /\ u.cur.size = Len(files[u.ino])
         /\ \/ t = Starting /\ u.pos = Len(files[u.ino])
            \/ /\ u.pos = 0 /\ IsOpen(p)
               /\ t.ino # t.cur.ino \/ Len(files[t.ino]) < t.cur.size
      \/ /\ IsOpen(p) /\ u \in Reader /\ u.ino = t.ino /\ u.pos = t.pos /\ u.buf = t.buf
         /\ u.partial = t.partial /\ u.cur.ino = t.ino /\ u.cur.size = Len(files[t.ino])
  BY SilentFacts DEF OrderInv
<1>4. /\ lines \in Nat /\ \A i \in Inode : files[i] \in Seq(Unit) /\ Len(files[i]) \in Nat
      /\ dir[p] \in Inode => dir[p] # NoInode
      /\ IsOpen(p) => t \in Reader /\ t.ino \in Inode
  BY OrderCounts, TailerAssumption
<1>5. Off.pc = "off" /\ (u = Off => ~IsOpen(p)')
  BY DEF Off, IsOpen
<1>6. /\ \A a \in Path \ {p} : IsOpen(a)' <=> IsOpen(a)
      /\ IsOpen(p)' => /\ u.cur.ino = u.ino
                       /\ (dir[p] # NoInode /\ u.ino = dir[p]) \/ (IsOpen(p) /\ u.ino = t.ino)
  BY <1>2, <1>3, <1>4, <1>5 DEF IsOpen
<1>7. OwnStat'
  BY <1>2, <1>6 DEF OrderInv, OwnStat
<1>8. OneOwner'
  <2>1. OneOwner
    BY DEF OrderInv
  <2>2. ASSUME NEW a \in Path, NEW b \in Path \ {a}, IsOpen(a)'
        PROVE  dir[b] # tail'[a].ino /\ (IsOpen(b)' => tail'[b].ino # tail'[a].ino)
    <3>1. CASE a = p
      <4>1. b # p /\ (IsOpen(b)' <=> IsOpen(b)) /\ tail'[b] = tail[b]
        BY <1>2, <1>6, <3>1
      <4> QED
        BY <1>6, <2>1, <2>2, <3>1, <4>1 DEF OneOwner
    <3>2. CASE a # p
      <4>1. IsOpen(a) /\ tail'[a] = tail[a]
        BY <1>2, <1>6, <2>2, <3>2
      <4>2. CASE b # p
        BY <1>2, <1>6, <2>1, <4>1, <4>2 DEF OneOwner
      <4>3. CASE b = p
        BY <1>6, <2>1, <3>2, <4>1, <4>3 DEF OneOwner
      <4> QED
        BY <4>2, <4>3
    <3> QED
      BY <3>1, <3>2
  <2> QED
    BY <1>2, <2>1, <2>2 DEF OneOwner
<1>9. FilesOrdered'
  BY <1>2 DEF OrderInv, FilesOrdered
<1>10. ASSUME NEW a \in Path \ truncated'
       PROVE  PathOrdered(a, (batch \o in)', last'[a], tail'[a], files', lines')
  <2> PICK C : C = Consumed(a, batch \o in, last[a], tail[a])
    OBVIOUS
  <2>1. InPlace(C, tail[a], files) /\ a \in Path \ truncated
    BY <1>2 DEF OrderInv, PathsOrdered, PathOrdered
  <2>2. lines' \in Nat /\ lines' >= lines
    BY <1>2, <1>4
  <2>3. Building(tail'[a]) \subseteq Building(tail[a]) /\ InPlace(C, tail'[a], files')
    <3>1. CASE a # p
      BY <1>2, <2>1, <3>1
    <3>2. CASE a = p /\ u = Off
      BY <1>5, <3>2 DEF Building, InPlace
    <3>3. CASE /\ a = p /\ u \in Reader /\ u.ino \in Inode /\ u.buf = <<>> /\ u.partial = <<>>
               /\ u.cur.size = Len(files[u.ino]) /\ u.pos = Len(files[u.ino])
      <4> PICK file, k : file = files[u.ino] /\ k = Len(file)
        OBVIOUS
      <4>1. k \in Nat /\ Len(<<>>) = 0 /\ u.pos = k /\ u.cur.size = k /\ Len(u.buf) = 0
        BY <1>4, <3>3
      <4>2. Sound(u, file) /\ Place(u) = k
        BY <4>1 DEF Sound, Place
      <4>3. Ahead(k, file, C)
        BY <4>1 DEF Ahead
      <4>4. InPlace(C, u, files)
        BY <4>2, <4>3 DEF InPlace
      <4>5. Building(u) = {}
        BY <3>3, <4>1 DEF Building, LinesOf
      <4> QED
        BY <1>2, <3>3, <4>4, <4>5
    <3>4. CASE a = p /\ IsOpen(p) /\ (t.ino # t.cur.ino \/ Len(files[t.ino]) < t.cur.size)
      <4>1. t.pc \in {"read", "poll"} /\ t.cur.ino = t.ino
        BY <3>4 DEF OrderInv, OwnStat, IsOpen
      <4>2. t.cur.size <= Len(files[t.ino])
        BY <2>1, <3>4, <4>1 DEF InPlace, Sound
      <4>3. t.cur.size \in Nat /\ Len(files[t.ino]) \in Nat
        BY <1>4, <3>4 DEF Reader
      <4> QED
        BY <3>4, <4>1, <4>2, <4>3
    <3>5. CASE /\ a = p /\ IsOpen(p) /\ u \in Reader /\ u.ino = t.ino /\ u.pos = t.pos
               /\ u.buf = t.buf /\ u.partial = t.partial /\ u.cur.size = Len(files[t.ino])
      <4> PICK file : file = files[t.ino]
        OBVIOUS
      <4>1. t.pc \in {"read", "poll"} /\ u.pc \in {"read", "poll"} /\ Len(file) \in Nat
        BY <1>4, <3>5 DEF IsOpen, Reader
      <4>2. Sound(t, file) /\ Ahead(Place(t), file, C)
        BY <2>1, <3>5, <4>1 DEF InPlace
      <4>3. Place(u) = Place(t)
        BY <3>5 DEF Place
      <4>4. Sound(u, file)
        BY <3>5, <4>1, <4>2, <4>3 DEF Sound
      <4>5. InPlace(C, u, files)
        BY <3>5, <4>2, <4>3, <4>4 DEF InPlace
      <4>6. Building(u) = Building(t)
        BY <3>5, <4>1 DEF Building
      <4> QED
        BY <1>2, <3>5, <4>5, <4>6
    <3> QED
      BY <1>3, <3>1, <3>2, <3>3, <3>4, <3>5
  <2> QED
    BY <1>2, <2>1, <2>2, <2>3, PathStays
<1>11. PathsOrdered'
  BY <1>10 DEF PathsOrdered
<1> QED
  BY <1>1, <1>7, <1>8, <1>9, <1>11 DEF OrderInv

LEMMA OrderScan ==
  ASSUME OrderInv, scan, UNCHANGED shipVars
  PROVE  OrderInv'
<1>1. Types'
  BY TypesScan DEF OrderInv
<1>2. UNCHANGED <<dir, files, lines, truncated, in, batch, last>>
  BY DEF scan, fileVars, shipVars
<1>3. \A a \in Path : tail'[a] = tail[a] \/ (tail[a] = Off /\ tail'[a] = Starting)
  BY DEF scan, Found
<1>4. Off.pc = "off" /\ Starting.pc = "start"
  BY DEF Off, Starting
<1>5. \A a \in Path : (IsOpen(a)' <=> IsOpen(a)) /\ (IsOpen(a) => tail'[a] = tail[a])
  BY <1>3, <1>4 DEF IsOpen
<1>6. OneOwner' /\ OwnStat' /\ FilesOrdered'
  BY <1>2, <1>5 DEF OrderInv, OneOwner, OwnStat, FilesOrdered
<1>7. ASSUME NEW a \in Path \ truncated'
      PROVE  PathOrdered(a, (batch \o in)', last'[a], tail'[a], files', lines')
  <2> PICK C : C = Consumed(a, batch \o in, last[a], tail[a])
    OBVIOUS
  <2>1. InPlace(C, tail[a], files) /\ a \in Path \ truncated
    BY <1>2 DEF OrderInv, PathsOrdered, PathOrdered
  <2>2. Building(tail'[a]) \subseteq Building(tail[a]) /\ InPlace(C, tail'[a], files')
    <3>1. CASE tail'[a] = tail[a]
      BY <1>2, <2>1, <3>1
    <3>2. CASE tail'[a] = Starting
      BY <1>4, <3>2 DEF Building, InPlace
    <3> QED
      BY <1>3, <3>1, <3>2
  <2>3. lines' \in Nat /\ lines' >= lines
    BY <1>2, OrderCounts
  <2> QED
    BY <1>2, <2>1, <2>2, <2>3, PathStays
<1>8. PathsOrdered'
  BY <1>7 DEF PathsOrdered
<1> QED
  BY <1>1, <1>6, <1>8 DEF OrderInv

(* The loop takes records from the channel into the batch, or the batch    *)
(* is gone, and the detector has its last line or not.                     *)
LEMMA ShipFacts ==
  ASSUME Types, Ship
  PROVE  \/ batch' \o in' = batch \o in /\ last' = last
         \/ /\ batch' = <<>> /\ in' = in
            /\ \A p \in Path : last'[p] \in {last[p]} \cup UnderWay(p, batch)
<1>1. in \in Seq(Record) /\ batch \in Seq(Record)
  BY DEF Types, TypeOK
<1>2. CASE Receive
  <2>1. in # <<>> /\ in' = Tail(in) /\ batch' = Append(batch, Head(in)) /\ last' = last
    BY <1>2 DEF Receive
  <2> PICK h, r : h = Head(in) /\ r = Tail(in)
    OBVIOUS
  <2>2. h \in Record /\ r \in Seq(Record) /\ in = <<h>> \o r
    BY <1>1, <2>1, HeadTailProperties
  <2>3. <<h>> \in Seq(Record) /\ Append(batch, h) = batch \o <<h>>
    BY <1>1, <2>2
  <2>4. (batch \o <<h>>) \o r = batch \o (<<h>> \o r)
    BY ONLY <1>1, <2>2, <2>3, ConcatAssociative
  <2> QED
    BY <2>1, <2>2, <2>3, <2>4
<1>3. CASE FlushTick \/ Break
  BY <1>3 DEF FlushTick, Break
<1>4. CASE Posted
  <2>1. \A p \in Path : Taken(batch)[p] \in {last[p]} \cup UnderWay(p, batch)
    BY TakenFacts
  <2> QED
    BY <1>4, <2>1 DEF Posted, PostBatch
<1>5. CASE LastFlush
  BY <1>5 DEF LastFlush
<1> QED
  BY <1>2, <1>3, <1>4, <1>5 DEF Ship

LEMMA OrderShip ==
  ASSUME OrderInv, Ship
  PROVE  OrderInv'
<1>1. Types'
  BY TypesShip DEF OrderInv
<1>2. UNCHANGED <<dir, files, tail, lines, truncated>>
  BY DEF Ship, Receive, FlushTick, Break, Posted, PostBatch, LastFlush, tailerVars
<1>3. OneOwner' /\ OwnStat' /\ FilesOrdered'
  BY <1>2 DEF OrderInv, OneOwner, OwnStat, FilesOrdered, IsOpen
<1>4. ASSUME NEW a \in Path \ truncated
      PROVE  PathOrdered(a, batch' \o in', last'[a], tail[a], files, lines)
  <2> PICK q, q2, l, l2, t : /\ q = batch \o in /\ q2 = batch' \o in' /\ l = last[a] /\ l2 = last'[a]
                             /\ t = tail[a]
    OBVIOUS
  <2>1. PathOrdered(a, q, l, t, files, lines)
    BY DEF OrderInv, PathsOrdered
  <2>2. CASE q2 = q /\ l2 = l
    BY <2>1, <2>2
  <2>3. CASE batch' = <<>> /\ in' = in /\ l2 \in {l} \cup UnderWay(a, batch)
    <3> PICK b, i : b = batch /\ i = in
      OBVIOUS
    <3>1. b \in Seq(Record) /\ i \in Seq(Record) /\ q = b \o i /\ InQueue(a, q, l)
          /\ l2 \in {l} \cup UnderWay(a, b) /\ a \in Path
      BY <2>1, <2>3 DEF OrderInv, Types, TypeOK, PathOrdered, InOrder
    <3>2. q2 = i
      BY <2>3, <3>1, ConcatEmptySeq
    <3>3. InQueue(a, i, l2)
      BY ONLY <3>1, QueueMoves
    <3>4. UnderWay(a, i) \subseteq UnderWay(a, q)
      BY ONLY <3>1, QueueMoves
    <3>5. UnderWay(a, b) \subseteq UnderWay(a, q)
      BY ONLY <3>1, QueueMoves
    <3>6. {l2} \cup UnderWay(a, q2) \subseteq {l} \cup UnderWay(a, q)
      BY <3>1, <3>2, <3>4, <3>5
    <3>7. InQueue(a, q2, l2) /\ Building(t) \subseteq Building(t)
      BY <3>2, <3>3
    <3>8. InPlace(Consumed(a, q, l, t), t, files)
      BY <2>1 DEF PathOrdered
    <3>9. lines \in Nat /\ lines <= lines
      BY OrderCounts
    <3> PICK fs, n : fs = files /\ n = lines
      OBVIOUS
    <3>10. /\ PathOrdered(a, q, l, t, fs, n) /\ InPlace(Consumed(a, q, l, t), t, fs)
           /\ n \in Nat /\ n <= n
      BY <2>1, <3>8, <3>9
    <3>11. PathOrdered(a, q2, l2, t, fs, n)
      BY ONLY <3>6, <3>7, <3>10, PathChanges
    <3> QED
      BY <3>11
  <2> QED
    BY <2>2, <2>3, ShipFacts DEF OrderInv
<1>5. PathsOrdered'
  BY <1>2, <1>4 DEF PathsOrdered
<1> QED
  BY <1>1, <1>3, <1>5 DEF OrderInv

LEMMA OrderInit == Init_ => OrderInv
<1> SUFFICES ASSUME Init_ PROVE OrderInv
  OBVIOUS
<1>1. Types
  BY TypesInit
<1>2. /\ dir = [p \in Path |-> NoInode] /\ files = [i \in Inode |-> <<>>]
      /\ tail = [p \in Path |-> Off] /\ lines = 0
      /\ in = <<>> /\ batch = <<>> /\ last = [p \in Path |-> 0]
  BY DEF Init_, Init, ShipInit
<1>3. \A p \in Path : ~IsOpen(p)
  BY <1>2 DEF IsOpen, Off
<1>4. OneOwner /\ OwnStat
  BY <1>2, <1>3 DEF OneOwner, OwnStat
<1>5. Len(<<>>) = 0
  OBVIOUS
<1>6. FilesOrdered
  BY <1>2, <1>5 DEF FilesOrdered, FileOrdered
<1>7. ASSUME NEW p \in Path PROVE PathOrdered(p, <<>>, 0, Off, files, 0)
  <2>1. DOMAIN <<>> = {} /\ Off.pc = "off"
    BY DEF Off
  <2>2. UnderWay(p, <<>>) = {} /\ Building(Off) = {} /\ InQueue(p, <<>>, 0)
    BY <2>1 DEF UnderWay, Building, InQueue
  <2> QED
    BY <2>1, <2>2 DEF PathOrdered, InOrder, InPlace, Consumed, Newer
<1>8. batch \o in = <<>>
  BY <1>2
<1>9. PathsOrdered
  BY <1>2, <1>7, <1>8 DEF PathsOrdered
<1> QED
  BY <1>1, <1>4, <1>6, <1>9 DEF OrderInv

LEMMA OrderStep == OrderInv /\ [Next]_vars => OrderInv'
<1> SUFFICES ASSUME OrderInv, [Next]_vars PROVE OrderInv'
  OBVIOUS
<1>1. CASE Cancel \/ UNCHANGED vars
  <2>1. UNCHANGED <<dir, files, tail, lines, truncated, in, batch, last>>
    BY <1>1 DEF Cancel, fileVars, shipVars, vars, tailerVars
  <2>2. Types'
    BY TypesStep DEF OrderInv
  <2> QED
    BY <2>1, <2>2 DEF OrderInv, OneOwner, OwnStat, FilesOrdered, PathsOrdered, IsOpen
<1> QED
  BY <1>1, OrderNode, OrderTail, OrderScan, OrderRead, OrderShip DEF Next, Run

(* The detector takes the lines of a container in the order they were      *)
(* written and none of them twice, for any tears, renames, deletions and   *)
(* lost posts; only a file that was truncated may be read again.           *)
THEOREM TailerInOrderAtMostOnce == Spec => []InOrderAtMostOnce
<1>1. OrderInv => InOrderAtMostOnce
  <2> SUFFICES ASSUME OrderInv PROVE InOrderAtMostOnce
    OBVIOUS
  <2> PICK q : q = batch \o in
    OBVIOUS
  <2>1. ASSUME NEW i \in DOMAIN q, q[i].path \notin truncated, NEW n \in LineNumbers(q[i])
        PROVE  /\ n > last[q[i].path]
               /\ \A j \in 1..(i - 1) : q[j].path = q[i].path =>
                    \A m \in LineNumbers(q[j]) : m < n
    <3>1. q \in Seq(Record)
      BY ConcatProperties DEF OrderInv, Types, TypeOK
    <3>2. q[i] \in Record
      BY <3>1, LenProperties, ElementOfSeq
    <3> PICK p : p = q[i].path
      OBVIOUS
    <3>3. p \in Path \ truncated
      BY <2>1, <3>2 DEF Record
    <3>4. InQueue(p, q, last[p])
      BY <3>3 DEF OrderInv, PathsOrdered, PathOrdered, InOrder
    <3> QED
      BY <2>1, <3>4 DEF InQueue, Newer
  <2> QED
    BY <2>1 DEF InOrderAtMostOnce
<1>2. Spec => []OrderInv
  BY OrderInit, OrderStep, PTL DEF Spec
<1> QED
  BY <1>1, <1>2, PTL

-----------------------------------------------------------------------------
(* One message.  In a file the rest of a line stands next to its beginning,*)
(* and only the last line may lack it.                                     *)
FileShaped(file) ==
  /\ \A a \in 1..Len(file) : IsRest(file[a]) =>
       /\ a > 1 /\ ~IsRest(file[a - 1])
       /\ file[a].line = file[a - 1].line /\ file[a].tag = file[a - 1].tag
  /\ \A a \in 2..Len(file) : ~IsRest(file[a]) => IsRest(file[a - 1])

OfPath(file, p) == \A a \in 1..Len(file) : file[a].path = p

(* All that p wrote to one file is older than all it wrote to another.     *)
Older(old, new, p) ==
  \A a \in 1..Len(old) : \A b \in 1..Len(new) :
    old[a].path = p /\ new[b].path = p => old[a].line < new[b].line

Stubbed(file, n) == \E b \in 1..Len(file) : file[b].line = n /\ file[b].part = "stub"

From(S, file, p) == \A n \in S : \E b \in 1..Len(file) : file[b].line = n /\ file[b].path = p

(* Of the first k units none ended a message after the first line of S.    *)
NoneEnds(S, file, k) ==
  \A a \in 1..k : file[a].tag = "F" /\ (\E n \in S : n <= file[a].line) => Stubbed(file, file[a].line)

(* None ended a message between the first line of S and its last.          *)
NoneInside(S, file) ==
  \A a \in 1..Len(file) :
    file[a].tag = "F" /\ (\E n \in S : n <= file[a].line) /\ (\E n \in S : file[a].line < n)
      => Stubbed(file, file[a].line)

LEMMA AddedShaped ==
  ASSUME NEW p, NEW old \in Seq(Unit), NEW new \in Seq(Unit), Added(p, old, new), FileShaped(old)
  PROVE  FileShaped(new)
<1>1. /\ Len(old) \in Nat /\ Len(new) \in Nat /\ Len(old) <= Len(new)
      /\ \A i \in 1..Len(old) : new[i] = old[i]
  BY UnitLines DEF Added
<1>2. ASSUME NEW a \in 1..Len(new), IsRest(new[a])
      PROVE  /\ a > 1 /\ ~IsRest(new[a - 1])
             /\ new[a].line = new[a - 1].line /\ new[a].tag = new[a - 1].tag
  <2>1. CASE a <= Len(old)
    <3> PICK b : b = a - 1
      OBVIOUS
    <3>1. /\ a \in 1..Len(old) /\ new[a] = old[a]
      BY <1>1, <2>1
    <3>2. /\ a > 1 /\ ~IsRest(old[b]) /\ old[a].line = old[b].line /\ old[a].tag = old[b].tag
      BY <1>2, <3>1 DEF FileShaped
    <3>3. b \in 1..Len(old)
      BY <1>1, <2>1, <3>2
    <3> QED
      BY <1>1, <3>1, <3>2, <3>3
  <2>2. CASE ~(a <= Len(old))
    <3>1. a \in (Len(old) + 1)..Len(new)
      BY <1>1, <2>2
    <3> QED
      BY <1>2, <3>1 DEF Added
  <2> QED
    BY <2>1, <2>2
<1>3. ASSUME NEW a \in 2..Len(new), ~IsRest(new[a])
      PROVE  IsRest(new[a - 1])
  <2>1. CASE a <= Len(old)
    <3> PICK b : b = a - 1
      OBVIOUS
    <3>1. a \in 2..Len(old) /\ a \in 1..Len(old) /\ b \in 1..Len(old)
      BY <1>1, <2>1
    <3>2. IsRest(old[b])
      BY <1>1, <1>3, <3>1 DEF FileShaped
    <3> QED
      BY <1>1, <3>1, <3>2
  <2>2. CASE ~(a <= Len(old))
    <3>1. a \in (Len(old) + 1)..Len(new) /\ a > 1
      BY <1>1, <2>2
    <3> QED
      BY <1>3, <3>1 DEF Added
  <2> QED
    BY <2>1, <2>2
<1> QED
  BY <1>2, <1>3 DEF FileShaped

(* A unit that is added is of a new line, or repeats one next to it.       *)
LEMMA AddedIs ==
  ASSUME NEW p, NEW old \in Seq(Unit), NEW new \in Seq(Unit), Added(p, old, new),
         NEW a \in 1..Len(new)
  PROVE  \/ a \in 1..Len(old) /\ new[a] = old[a]
         \/ new[a].line = lines + 1 /\ new[a].path = p
         \/ \E b \in 1..Len(old) : /\ new[a].line = old[b].line /\ new[a].path = old[b].path
                                  /\ new[a].tag = old[b].tag
<1>1. /\ Len(old) \in Nat /\ Len(new) \in Nat /\ Len(old) <= Len(new)
      /\ \A i \in 1..Len(old) : new[i] = old[i]
  BY UnitLines DEF Added
<1>2. CASE a <= Len(old)
  BY <1>1, <1>2
<1>3. CASE ~(a <= Len(old))
  <2>1. a \in (Len(old) + 1)..Len(new)
    BY <1>1, <1>3
  <2>2. CASE new[a].line = lines + 1 /\ new[a].path = p
    BY <2>2
  <2>3. CASE /\ a > 1 /\ IsRest(new[a]) /\ ~IsRest(new[a - 1])
             /\ new[a].line = new[a - 1].line /\ new[a].path = new[a - 1].path
             /\ new[a].tag = new[a - 1].tag
    <3> PICK b : b = a - 1
      OBVIOUS
    <3>1. /\ ~IsRest(new[b]) /\ new[a].line = new[b].line /\ new[a].path = new[b].path
          /\ new[a].tag = new[b].tag /\ b \in Int /\ b >= Len(old) /\ b <= Len(new) /\ b >= 1
      BY <1>1, <2>1, <2>3
    <3>2. CASE b = Len(old)
      <4>1. b \in 1..Len(old) /\ new[b] = old[b]
        BY <1>1, <3>1, <3>2
      <4> QED
        BY <3>1, <4>1
    <3>3. CASE b # Len(old)
      <4>1. b \in (Len(old) + 1)..Len(new)
        BY <1>1, <3>1, <3>3
      <4>2. new[b].line = lines + 1 /\ new[b].path = p
        BY <3>1, <4>1 DEF Added
      <4> QED
        BY <3>1, <4>2
    <3> QED
      BY <3>2, <3>3
  <2> QED
    BY <2>1, <2>2, <2>3 DEF Added
<1> QED
  BY <1>2, <1>3

LEMMA AddedKeeps ==
  ASSUME NEW p, NEW old \in Seq(Unit), NEW new \in Seq(Unit), Added(p, old, new)
  PROVE  /\ \A n : Stubbed(old, n) => Stubbed(new, n)
         /\ \A S, r : From(S, old, r) => From(S, new, r)
         /\ OfPath(old, p) => OfPath(new, p)
<1>1. \A i \in 1..Len(old) : i \in 1..Len(new) /\ new[i] = old[i]
  <2>1. Len(old) \in Nat /\ Len(new) \in Nat /\ Len(old) <= Len(new)
    BY UnitLines DEF Added
  <2> QED
    BY <2>1 DEF Added
<1>2. \A n : Stubbed(old, n) => Stubbed(new, n)
  BY <1>1 DEF Stubbed
<1>3. \A S, r : From(S, old, r) => From(S, new, r)
  BY <1>1 DEF From
<1>4. OfPath(old, p) => OfPath(new, p)
  <2>1. ASSUME OfPath(old, p), NEW a \in 1..Len(new) PROVE new[a].path = p
    BY <2>1, AddedIs DEF OfPath
  <2> QED
    BY <2>1 DEF OfPath
<1> QED
  BY <1>2, <1>3, <1>4

LEMMA AddedNoneEnds ==
  ASSUME NEW p, NEW old \in Seq(Unit), NEW new \in Seq(Unit), Added(p, old, new),
         NEW S, NEW k \in Nat, k <= Len(old), NoneEnds(S, old, k)
  PROVE  NoneEnds(S, new, k)
<1>1. \A i \in 1..Len(old) : new[i] = old[i]
  BY DEF Added
<1>2. \A i \in 1..k : i \in 1..Len(old)
  BY UnitLines
<1>3. \A n : Stubbed(old, n) => Stubbed(new, n)
  BY AddedKeeps
<1> QED
  BY <1>1, <1>2, <1>3 DEF NoneEnds

LEMMA AddedNoneInside ==
  ASSUME NEW p, NEW old \in Seq(Unit), NEW new \in Seq(Unit), Added(p, old, new), lines \in Nat,
         NEW S, S \subseteq 0..lines, NoneInside(S, old)
  PROVE  NoneInside(S, new)
<1> SUFFICES ASSUME NEW a \in 1..Len(new), new[a].tag = "F",
                    NEW m \in S, m <= new[a].line, NEW n \in S, new[a].line < n
             PROVE  Stubbed(new, new[a].line)
  BY DEF NoneInside
<1>1. n \in Nat /\ n <= lines
  BY SMT
<1>2. new[a].line # lines + 1
  BY <1>1
<1>3. PICK b \in 1..Len(old) : new[a].line = old[b].line /\ new[a].tag = old[b].tag
  BY <1>2, AddedIs
<1>4. Stubbed(old, old[b].line)
  BY <1>3 DEF NoneInside
<1> QED
  BY <1>3, <1>4, AddedKeeps

LEMMA AddedOlder ==
  ASSUME NEW p, NEW old \in Seq(Unit), NEW new \in Seq(Unit), Added(p, old, new), lines \in Nat,
         NEW other \in Seq(Unit), FileOrdered(other, lines), NEW q, Older(other, old, q)
  PROVE  Older(other, new, q)
<1> SUFFICES ASSUME NEW a \in 1..Len(other), NEW b \in 1..Len(new),
                    other[a].path = q, new[b].path = q
             PROVE  other[a].line < new[b].line
  BY DEF Older
<1>1. other[a].line \in Nat /\ other[a].line <= lines
  BY UnitLines DEF FileOrdered
<1>2. CASE new[b].line = lines + 1
  BY <1>1, <1>2
<1>3. CASE new[b].line # lines + 1
  <2>1. PICK c \in 1..Len(old) : new[b].line = old[c].line /\ new[b].path = old[c].path
    BY <1>3, AddedIs
  <2> QED
    BY <2>1 DEF Older
<1> QED
  BY <1>2, <1>3

LEMMA LineFacts ==
  ASSUME NEW file \in Seq(Unit), FileShaped(file), NEW f \in Nat, NEW raw \in Seq(Unit),
         f + Len(raw) <= Len(file), \A i \in 1..Len(raw) : raw[i] = file[f + i],
         \A i \in 1..(Len(raw) - 1) : ~IsRest(raw[i])
  PROVE  /\ Len(raw) \in 0..2
         /\ Len(raw) = 2 => /\ ~IsRest(raw[1]) /\ IsRest(raw[2])
                            /\ raw[2].line = raw[1].line /\ raw[2].tag = raw[1].tag
<1>1. Len(raw) \in Nat /\ Len(file) \in Nat
  BY LenProperties
<1>2. ASSUME Len(raw) >= 2
      PROVE  /\ ~IsRest(raw[1]) /\ IsRest(raw[2])
             /\ raw[2].line = raw[1].line /\ raw[2].tag = raw[1].tag
  <2> PICK a, b : a = f + 2 /\ b = f + 1
    OBVIOUS
  <2>1. /\ raw[1] = file[b] /\ raw[2] = file[a] /\ a \in 2..Len(file) /\ a \in 1..Len(file) /\ b = a - 1
        /\ ~IsRest(raw[1])
    BY <1>1, <1>2
  <2>2. IsRest(file[a])
    BY <2>1 DEF FileShaped
  <2> QED
    BY <2>1, <2>2 DEF FileShaped
<1>3. ~(Len(raw) >= 3)
  <2> SUFFICES ASSUME Len(raw) >= 3 PROVE FALSE
    OBVIOUS
  <2>1. 2 \in 1..(Len(raw) - 1) /\ Len(raw) >= 2
    BY <1>1
  <2>2. ~IsRest(raw[2])
    BY <2>1
  <2> QED
    BY <1>2, <2>1, <2>2
<1>4. Len(raw) \in 0..2
  <2> PICK k : k = Len(raw)
    OBVIOUS
  <2>1. k \in Nat /\ ~(k >= 3)
    BY <1>1, <1>3
  <2>2. k \in 0..2
    BY ONLY <2>1
  <2> QED
    BY <2>2
<1>5. Len(raw) = 2 => Len(raw) >= 2
  BY <1>1
<1> QED
  BY <1>2, <1>4, <1>5

(* What a line that is read does to the message in the builder S.          *)
LEMMA MessageRead ==
  ASSUME NEW file \in Seq(Unit), FileShaped(file), NEW n \in Nat, FileOrdered(file, n),
         NEW p, OfPath(file, p), NEW f \in Nat, NEW raw \in Seq(Unit),
         f + Len(raw) <= Len(file), \A i \in 1..Len(raw) : raw[i] = file[f + i],
         \A i \in 1..(Len(raw) - 1) : ~IsRest(raw[i]),
         NEW S, S \subseteq 0..n, From(S, file, p), NoneEnds(S, file, f),
         NEW g, g = f + Len(raw), NEW S2, S2 = S \cup LinesOf(raw)
  PROVE  /\ raw = <<>> \/ ~Parses(raw) => NoneEnds(S, file, g)
         /\ raw # <<>> /\ Parses(raw) => From(S2, file, p)
         /\ raw # <<>> /\ Parses(raw) /\ raw[1].tag = "P" => NoneEnds(S2, file, g)
         /\ raw # <<>> /\ Parses(raw) /\ Newer(LinesOf(raw), S) => NoneInside(S2, file)
<1>1. /\ Len(raw) \in Nat /\ Len(file) \in Nat /\ g \in Nat
      /\ \A i \in 1..Len(file) : file[i].line \in Nat
  BY UnitLines
<1>2. /\ Len(raw) \in 0..2
      /\ Len(raw) = 2 => /\ ~IsRest(raw[1]) /\ IsRest(raw[2])
                         /\ raw[2].line = raw[1].line /\ raw[2].tag = raw[1].tag
  BY LineFacts
<1>3. raw # <<>> => Len(raw) >= 1
  BY <1>1, EmptySeq
<1>4. raw = <<>> => Len(raw) = 0
  OBVIOUS
<1> PICK b, L : b = f + 1 /\ L = raw[1].line
  OBVIOUS
<1>5. raw # <<>> => b \in 1..Len(file) /\ raw[1] = file[b] /\ file[b].line = L
  BY <1>1, <1>3
<1>6. raw # <<>> =>
        \A a \in 1..Len(file) : a > f /\ a <= g => file[a].line = L /\ file[a].tag = raw[1].tag
  <2>1. ASSUME raw # <<>>, NEW a \in 1..Len(file), a > f, a <= g
        PROVE  file[a].line = L /\ file[a].tag = raw[1].tag
    <3> PICK i : i = a - f
      OBVIOUS
    <3>1. i \in 1..Len(raw) /\ f + i = a
      BY <1>1, <2>1
    <3>2. raw[i] = file[a]
      BY <3>1
    <3>3. i = 1 \/ (i = 2 /\ Len(raw) = 2)
      BY <1>2, <3>1
    <3> QED
      BY <1>2, <3>2, <3>3
  <2> QED
    BY <2>1
<1>7. CASE raw = <<>> \/ ~Parses(raw)
  <2> SUFFICES ASSUME NEW a \in 1..g, file[a].tag = "F", NEW m \in S, m <= file[a].line
               PROVE  Stubbed(file, file[a].line)
    BY <1>7 DEF NoneEnds
  <2>1. a \in 1..Len(file) /\ a \in Nat
    BY <1>1
  <2>2. CASE a <= f
    <3>1. a \in 1..f
      BY <2>1, <2>2
    <3> QED
      BY <3>1 DEF NoneEnds
  <2>3. CASE ~(a <= f)
    <3>1. raw # <<>> /\ ~Parses(raw) /\ a > f /\ a <= g
      BY <1>1, <1>4, <1>7, <2>1, <2>3
    <3>2. file[a].line = L /\ b \in 1..Len(file) /\ raw[1] = file[b] /\ file[b].line = L
          /\ file[b].tag = "F"
      BY <1>5, <1>6, <2>1, <3>1
    <3>3. raw[1] \in Unit
      BY <1>3, <3>1, ElementOfSeq
    <3>4. CASE IsRest(raw[1])
      <4> PICK c : c = b - 1
        OBVIOUS
      <4>1. b > 1 /\ file[b].line = file[c].line /\ file[b].tag = file[c].tag
        BY <3>2, <3>4 DEF FileShaped
      <4>2. c \in 1..f /\ c = f
        BY <1>1, <4>1
      <4> QED
        BY <3>2, <4>1, <4>2 DEF NoneEnds
    <3>5. CASE ~IsRest(raw[1])
      <4>1. raw[1].part = "stub"
        BY <3>1, <3>3, <3>5 DEF Unit, IsRest, Parses
      <4> QED
        BY <3>2, <4>1 DEF Stubbed
    <3> QED
      BY <3>4, <3>5
  <2> QED
    BY <2>2, <2>3
<1>8. CASE raw # <<>> /\ Parses(raw)
  <2>1. ~IsRest(file[b]) /\ b \in 1..Len(file) /\ file[b].line = L
    BY <1>5, <1>8 DEF Parses, IsRest
  <2>2. LinesOf(raw) = {L}
    <3>1. \A i \in 1..Len(raw) : raw[i].line = L
      <4>1. \A i \in 1..Len(raw) : i = 1 \/ (i = 2 /\ Len(raw) = 2)
        BY <1>2
      <4> QED
        BY <1>2, <4>1
    <3>2. 1 \in 1..Len(raw)
      BY <1>1, <1>3, <1>8
    <3> QED
      BY <3>1, <3>2 DEF LinesOf
  <2>3. From(S2, file, p)
    BY <2>1, <2>2 DEF From, OfPath
  <2>4. ASSUME NEW a \in 1..f PROVE file[a].line < L
    <3>1. a \in 1..(b - 1)
      BY <1>1
    <3> QED
      BY <2>1, <3>1 DEF FileOrdered
  <2>5. ASSUME NEW m \in S PROVE m \in Nat
    BY SMT
  <2>6. ASSUME raw[1].tag = "P" PROVE NoneEnds(S2, file, g)
    <3> SUFFICES ASSUME NEW a \in 1..g, file[a].tag = "F", NEW m \in S2, m <= file[a].line
                 PROVE  Stubbed(file, file[a].line)
      BY DEF NoneEnds
    <3>1. a \in 1..Len(file) /\ a \in Nat
      BY <1>1
    <3>2. a <= f
      <4>1. ~(a > f /\ a <= g)
        BY <1>6, <1>8, <2>6, <3>1
      <4> QED
        BY <1>1, <3>1, <4>1
    <3>3. a \in 1..f /\ file[a].line < L /\ file[a].line \in Nat /\ L \in Nat
      BY <1>1, <2>1, <2>4, <3>1, <3>2
    <3>4. m \in S
      BY <2>2, <3>3
    <3> QED
      BY <3>3, <3>4 DEF NoneEnds
  <2>7. ASSUME Newer(LinesOf(raw), S) PROVE NoneInside(S2, file)
    <3> SUFFICES ASSUME NEW a \in 1..Len(file), file[a].tag = "F",
                        NEW m \in S2, m <= file[a].line, NEW k \in S2, file[a].line < k
                 PROVE  Stubbed(file, file[a].line)
      BY DEF NoneInside
    <3>1. L \in Nat /\ file[a].line \in Nat /\ k \in Nat /\ k <= L
      <4>1. L \in Nat /\ file[a].line \in Nat
        BY <1>1, <2>1
      <4>2. CASE k \in S
        <5>1. k < L /\ k \in Nat
          BY <2>2, <2>5, <2>7, <4>2 DEF Newer
        <5> QED
          BY <4>1, <5>1
      <4>3. CASE k \notin S
        BY <2>2, <4>1, <4>3
      <4> QED
        BY <4>2, <4>3
    <3>2. file[a].line < L
      BY <3>1
    <3>3. a <= f
      <4>1. ~(a = b)
        BY <2>1, <3>1, <3>2
      <4>2. a > b => file[b].line < file[a].line \/ file[b].line = file[a].line
        <5>1. a > b => b \in 1..(a - 1)
          BY <1>1
        <5> QED
          BY <5>1 DEF FileOrdered
      <4>3. ~(a > b)
        BY <2>1, <3>1, <3>2, <4>2
      <4> QED
        BY <1>1, <4>1, <4>3
    <3>4. m \in S
      BY <2>2, <3>1, <3>2
    <3>5. a \in 1..f
      BY <1>1, <3>3
    <3> QED
      BY <3>4, <3>5 DEF NoneEnds
  <2> QED
    BY <1>8, <2>3, <2>6, <2>7
<1> QED
  BY <1>7, <1>8

-----------------------------------------------------------------------------
Shapes == \A i \in Inode : FileShaped(files[i])

(* A file that a path names, or a tailer has open, is of that path alone.  *)
Owners ==
  \A p \in Path : /\ dir[p] # NoInode => OfPath(files[dir[p]], p)
                  /\ IsOpen(p) => OfPath(files[tail[p].ino], p)

(* The files of a path follow each other, that it names now as the last.   *)
Apart ==
  \A p \in Path : \A i \in Inode : \A j \in Inode \ {i} :
    /\ Older(files[i], files[j], p) \/ Older(files[j], files[i], p)
    /\ dir[p] = i => Older(files[j], files[i], p)

Builder(t, fs, p) ==
  t.pc \in {"read", "poll"} =>
    From(Building(t), fs[t.ino], p) /\ NoneEnds(Building(t), fs[t.ino], Place(t))

Builders == \A p \in Path \ truncated : Builder(tail[p], files, p)

Records ==
  \A r \in ToSet(in) \cup ToSet(batch) : r.path \notin truncated =>
    \E i \in Inode : From(LineNumbers(r), files[i], r.path) /\ NoneInside(LineNumbers(r), files[i])

MessageInv == OrderInv /\ Shapes /\ Owners /\ Apart /\ Builders /\ Records

LEMMA RecordWritten ==
  ASSUME OrderInv, NEW r \in ToSet(in) \cup ToSet(batch)
  PROVE  /\ r \in Record
         /\ r.path \notin truncated => LineNumbers(r) \subseteq 0..lines
<1> PICK q, p : q = batch \o in /\ p = r.path
  OBVIOUS
<1>1. /\ in \in Seq(Record) /\ batch \in Seq(Record)
      /\ DOMAIN in = 1..Len(in) /\ DOMAIN batch = 1..Len(batch) /\ Len(in) \in Nat /\ Len(batch) \in Nat
  BY LenProperties DEF OrderInv, Types, TypeOK
<1>2. /\ q \in Seq(Record) /\ Len(q) = Len(batch) + Len(in)
      /\ \A k \in 1..(Len(batch) + Len(in)) : q[k] = IF k <= Len(batch) THEN batch[k] ELSE in[k - Len(batch)]
  BY <1>1, ConcatProperties
<1>3. DOMAIN q = 1..Len(q)
  BY <1>2, LenProperties
<1>4. \E k \in DOMAIN q : q[k] = r
  <2>1. CASE r \in ToSet(batch)
    <3>1. PICK k \in 1..Len(batch) : r = batch[k]
      BY <1>1, <2>1 DEF ToSet
    <3>2. k \in DOMAIN q /\ q[k] = r
      BY <1>1, <1>2, <1>3, <3>1
    <3> QED
      BY <3>2
  <2>2. CASE r \in ToSet(in)
    <3>1. PICK k \in 1..Len(in) : r = in[k]
      BY <1>1, <2>2 DEF ToSet
    <3> PICK m : m = Len(batch) + k
      OBVIOUS
    <3>2. m \in 1..(Len(batch) + Len(in)) /\ ~(m <= Len(batch)) /\ m - Len(batch) = k
      BY <1>1, <3>1
    <3>3. m \in DOMAIN q /\ q[m] = r
      BY <1>2, <1>3, <3>1, <3>2
    <3> QED
      BY <3>3
  <2> QED
    BY <2>1, <2>2
<1>5. r \in Record /\ p \in Path
  <2>1. r \in Record
    BY <1>2, <1>3, <1>4, ElementOfSeq
  <2> QED
    BY <2>1 DEF Record
<1>6. LineNumbers(r) \subseteq UnderWay(p, q)
  BY <1>4 DEF UnderWay
<1>7. ASSUME p \notin truncated PROVE LineNumbers(r) \subseteq 0..lines
  <2>1. Consumed(p, q, last[p], tail[p]) \subseteq 0..lines
    BY <1>5, <1>7 DEF OrderInv, PathsOrdered, PathOrdered, InOrder
  <2> QED
    BY <1>6, <2>1 DEF Consumed
<1> QED
  BY <1>5, <1>7

LEMMA MessageNode ==
  ASSUME MessageInv, NEW p \in Path, Node(p), UNCHANGED shipVars
  PROVE  MessageInv'
<1>1. OrderInv /\ OrderInv'
  BY OrderNode DEF MessageInv
<1>2. tail' = tail /\ truncated \subseteq truncated' /\ UNCHANGED <<in, batch, last>>
  BY DEF Node, Create, Write, WriteBeginning, WriteRest, Unlink, Truncate, shipVars
<1>3. /\ lines \in Nat /\ \A i \in Inode : files[i] \in Seq(Unit) /\ Len(files[i]) \in Nat
      /\ \A a \in Path : dir[a] # NoInode => dir[a] \in Inode
      /\ \A a \in Path : IsOpen(a) => tail[a] \in Reader /\ tail[a].ino \in Inode
  BY <1>1, OrderCounts
<1>4. \A a \in Path : IsOpen(a)' <=> IsOpen(a)
  BY <1>2 DEF IsOpen
<1>5. dir \in [Path -> Inode \cup {NoInode}] /\ NoInode \notin Inode /\ files \in [Inode -> Seq(Unit)]
  BY <1>1, TailerAssumption DEF OrderInv, Types, TypeOK
<1>6. Len(<<>>) = 0
  OBVIOUS
<1>7. CASE Create(p) \/ Unlink(p)
  <2>1. UNCHANGED <<files, lines, truncated>>
    BY <1>7 DEF Create, Unlink
  <2>2. \A a \in Path : dir'[a] = dir[a] \/ dir'[a] = NoInode
                        \/ (dir'[a] \in Inode /\ files[dir'[a]] = <<>>)
    BY <1>5, <1>7 DEF Create, Unlink, Unused
  <2>3. Owners'
    <3>1. \A a \in Path : OfPath(<<>>, a)
      BY <1>6 DEF OfPath
    <3> QED
      BY <1>2, <1>4, <2>1, <2>2, <3>1 DEF MessageInv, Owners
  <2>4. Apart'
    <3>1. \A a \in Path : \A file : Older(file, <<>>, a)
      BY <1>6 DEF Older
    <3>2. ASSUME NEW a \in Path, NEW i \in Inode, NEW j \in Inode \ {i}, dir'[a] = i
          PROVE  Older(files[j], files[i], a)
      <4>1. dir[a] = i \/ files[i] = <<>>
        BY <1>5, <2>2, <3>2
      <4> QED
        BY <3>1, <4>1 DEF MessageInv, Apart
    <3> QED
      BY <2>1, <3>2 DEF MessageInv, Apart
  <2>5. Shapes' /\ Builders' /\ Records'
    BY <1>2, <2>1 DEF MessageInv, Shapes, Builders, Records
  <2> QED
    BY <1>1, <2>3, <2>4, <2>5 DEF MessageInv
<1>8. CASE Truncate(p)
  <2>1. /\ dir[p] # NoInode /\ dir[p] \in Inode /\ files' = [files EXCEPT ![dir[p]] = <<>>]
        /\ truncated' = truncated \cup {p} /\ UNCHANGED <<dir, lines>>
    BY <1>1, <1>8, OrderCounts DEF Truncate
  <2> PICK d : d = dir[p]
    OBVIOUS
  <2>2. files'[d] = <<>> /\ \A i \in Inode \ {d} : files'[i] = files[i]
    BY <1>5, <2>1
  <2>3. Shapes'
    <3>1. FileShaped(<<>>)
      BY <1>6 DEF FileShaped
    <3> QED
      BY <2>2, <3>1 DEF MessageInv, Shapes
  <2>4. Owners'
    <3>1. \A a \in Path : OfPath(<<>>, a)
      BY <1>6 DEF OfPath
    <3> QED
      BY <1>2, <1>3, <1>4, <2>1, <2>2, <3>1 DEF MessageInv, Owners
  <2>5. Apart'
    <3>1. \A a \in Path : \A file : Older(file, <<>>, a) /\ Older(<<>>, file, a)
      BY <1>6 DEF Older
    <3> QED
      BY <2>1, <2>2, <3>1 DEF MessageInv, Apart
  <2>6. Builders'
    <3>1. ASSUME NEW a \in Path \ truncated' PROVE Builder(tail[a], files', a)
      <4> PICK t : t = tail[a]
        OBVIOUS
      <4>1. Builder(t, files, a) /\ a # p
        BY <2>1 DEF MessageInv, Builders
      <4>2. ASSUME t.pc \in {"read", "poll"} PROVE files'[t.ino] = files[t.ino]
        <5>1. IsOpen(a)
          BY <4>2 DEF IsOpen
        <5>2. d # t.ino /\ t.ino \in Inode
          BY <1>1, <1>3, <4>1, <5>1 DEF OrderInv, OneOwner
        <5> QED
          BY <2>2, <5>2
      <4> QED
        BY <4>1, <4>2 DEF Builder
    <3> QED
      BY <1>2, <3>1 DEF Builders
  <2>7. Records'
    <3>1. ASSUME NEW r \in ToSet(in) \cup ToSet(batch), r.path \notin truncated'
          PROVE  \E i \in Inode : From(LineNumbers(r), files'[i], r.path)
                                  /\ NoneInside(LineNumbers(r), files'[i])
      <4> PICK a, S : a = r.path /\ S = LineNumbers(r)
        OBVIOUS
      <4>1. r.path \notin truncated /\ a # p
        BY <2>1, <3>1
      <4>2. PICK i \in Inode : From(S, files[i], a) /\ NoneInside(S, files[i])
        BY <4>1 DEF MessageInv, Records
      <4>3. CASE i # d
        BY <2>2, <4>2, <4>3
      <4>4. CASE i = d
        <5>1. OfPath(files[d], p)
          BY <2>1 DEF MessageInv, Owners
        <5>2. S = {}
          BY <4>1, <4>2, <4>4, <5>1 DEF From, OfPath
        <5>3. From(S, files'[i], a) /\ NoneInside(S, files'[i])
          BY <5>2 DEF From, NoneInside
        <5> QED
          BY <5>3
      <4> QED
        BY <4>3, <4>4
    <3> QED
      BY <1>2, <3>1 DEF Records
  <2> QED
    BY <1>1, <2>3, <2>4, <2>5, <2>6, <2>7 DEF MessageInv
<1>9. CASE Writes(p)
  <2> PICK d : d = dir[p]
    OBVIOUS
  <2>1. /\ d \in Inode /\ d # NoInode /\ files' \in [Inode -> Seq(Unit)]
        /\ Added(p, files[d], files'[d]) /\ \A i \in Inode \ {d} : files'[i] = files[i]
        /\ truncated' = truncated /\ dir' = dir
    BY <1>1, <1>5, <1>9, WriteFacts DEF OrderInv
  <2> PICK old, new : old = files[d] /\ new = files'[d]
    OBVIOUS
  <2>2. old \in Seq(Unit) /\ new \in Seq(Unit) /\ Added(p, old, new)
    BY <1>3, <2>1
  <2>3. /\ \A n : Stubbed(old, n) => Stubbed(new, n)
        /\ \A S, r : From(S, old, r) => From(S, new, r)
    BY <2>2, AddedKeeps
  <2>4. OfPath(new, p)
    <3>1. OfPath(old, p)
      BY <2>1 DEF MessageInv, Owners
    <3> QED
      BY <2>2, <3>1, AddedKeeps
  <2>5. Shapes'
    <3>1. FileShaped(new)
      BY <2>1, <2>2, AddedShaped DEF MessageInv, Shapes
    <3> QED
      BY <2>1, <3>1 DEF MessageInv, Shapes
  <2>6. Owners'
    <3>1. ASSUME NEW a \in Path, dir[a] # NoInode PROVE OfPath(files'[dir[a]], a)
      <4>1. CASE a = p
        BY <2>4, <4>1
      <4>2. CASE a # p
        <5>1. dir[a] # d /\ dir[a] \in Inode
          BY <1>1, <1>3, <3>1, <4>2 DEF OrderInv, OneOwner
        <5> QED
          BY <2>1, <3>1, <5>1 DEF MessageInv, Owners
      <4> QED
        BY <4>1, <4>2
    <3>2. ASSUME NEW a \in Path, IsOpen(a) PROVE OfPath(files'[tail[a].ino], a)
      <4>1. tail[a].ino \in Inode
        BY <1>3, <3>2
      <4>2. CASE tail[a].ino = d
        <5>1. a = p
          BY <1>1, <3>2, <4>2 DEF OrderInv, OneOwner
        <5> QED
          BY <2>4, <4>2, <5>1
      <4>3. CASE tail[a].ino # d
        BY <2>1, <3>2, <4>1, <4>3 DEF MessageInv, Owners
      <4> QED
        BY <4>2, <4>3
    <3> QED
      BY <1>2, <1>4, <2>1, <3>1, <3>2 DEF Owners
  <2>7. Apart'
    <3>1. ASSUME NEW j \in Inode \ {d} PROVE Older(files[j], new, p)
      <4> PICK other : other = files[j]
        OBVIOUS
      <4>1. other \in Seq(Unit) /\ FileOrdered(other, lines) /\ Older(other, old, p)
        BY <1>1, <1>3, <2>1 DEF OrderInv, FilesOrdered, MessageInv, Apart
      <4>2. lines \in Nat
        BY <1>3
      <4>3. Older(other, new, p)
        BY ONLY <2>2, <4>1, <4>2, AddedOlder
      <4> QED
        BY <4>3
    <3>2. ASSUME NEW j \in Inode \ {d}, NEW a \in Path \ {p}
          PROVE  Older(files[j], new, a) /\ Older(new, files[j], a)
      BY <2>4 DEF OfPath, Older
    <3>3. ASSUME NEW a \in Path, NEW i \in Inode, NEW j \in Inode \ {i}
          PROVE  /\ Older(files'[i], files'[j], a) \/ Older(files'[j], files'[i], a)
                 /\ dir[a] = i => Older(files'[j], files'[i], a)
      <4>1. CASE i = d
        BY <2>1, <3>1, <3>2, <4>1
      <4>2. CASE j = d
        <5>1. dir[a] = i => a # p
          BY <4>2
        <5> QED
          BY <2>1, <3>1, <3>2, <4>2, <5>1
      <4>3. CASE i # d /\ j # d
        BY <2>1, <4>3 DEF MessageInv, Apart
      <4> QED
        BY <4>1, <4>2, <4>3
    <3> QED
      BY <2>1, <3>3 DEF Apart
  <2>8. Builders'
    <3>1. ASSUME NEW a \in Path \ truncated PROVE Builder(tail[a], files', a)
      <4> PICK t, S, f : t = tail[a] /\ S = Building(t) /\ f = Place(t)
        OBVIOUS
      <4>1. Builder(t, files, a)
        BY DEF MessageInv, Builders
      <4>2. ASSUME t.pc \in {"read", "poll"}
            PROVE  From(S, files'[t.ino], a) /\ NoneEnds(S, files'[t.ino], f)
        <5>1. /\ t \in Reader /\ t.ino \in Inode /\ From(S, files[t.ino], a) /\ NoneEnds(S, files[t.ino], f)
          BY <1>3, <4>1, <4>2 DEF IsOpen, Builder
        <5>2. CASE t.ino # d
          BY <2>1, <5>1, <5>2
        <5>3. CASE t.ino = d
          <6>1. Sound(t, old)
            BY <1>1, <4>2, <5>3 DEF OrderInv, PathsOrdered, PathOrdered, InPlace
          <6>2. f \in Nat /\ f <= Len(old)
            <7>1. f \in Nat /\ f <= t.pos /\ t.pos <= Len(old) /\ Len(old) \in Nat
              BY <2>2, <5>1, <6>1, PlaceFacts
            <7>2. t.pos \in Nat
              BY <5>1 DEF Reader
            <7> QED
              BY <7>1, <7>2
          <6>3. NoneEnds(S, old, f)
            BY <5>1, <5>3
          <6>4. NoneEnds(S, new, f)
            BY ONLY <2>2, <6>2, <6>3, AddedNoneEnds
          <6> QED
            BY <2>3, <5>1, <5>3, <6>4
        <5> QED
          BY <5>2, <5>3
      <4> QED
        BY <4>2 DEF Builder
    <3> QED
      BY <1>2, <2>1, <3>1 DEF Builders
  <2>9. Records'
    <3>1. ASSUME NEW r \in ToSet(in) \cup ToSet(batch), r.path \notin truncated
          PROVE  \E i \in Inode : From(LineNumbers(r), files'[i], r.path)
                                  /\ NoneInside(LineNumbers(r), files'[i])
      <4> PICK a, S : a = r.path /\ S = LineNumbers(r)
        OBVIOUS
      <4>1. S \subseteq 0..lines
        BY <1>1, <3>1, RecordWritten
      <4>2. PICK i \in Inode : From(S, files[i], a) /\ NoneInside(S, files[i])
        BY <3>1 DEF MessageInv, Records
      <4>3. CASE i # d
        BY <2>1, <4>2, <4>3
      <4>4. CASE i = d
        <5>1. lines \in Nat /\ NoneInside(S, old)
          BY <1>3, <4>2, <4>4
        <5>2. NoneInside(S, new)
          BY ONLY <2>2, <4>1, <5>1, AddedNoneInside
        <5>3. From(S, new, a)
          BY <2>3, <4>2, <4>4
        <5> QED
          BY <4>4, <5>2, <5>3
      <4> QED
        BY <4>3, <4>4
    <3> QED
      BY <1>2, <2>1, <3>1 DEF Records
  <2> QED
    BY <1>1, <2>5, <2>6, <2>7, <2>8, <2>9 DEF MessageInv
<1> QED
  BY <1>7, <1>8, <1>9 DEF Node, Writes

LEMMA MessageTail ==
  ASSUME MessageInv, NEW p \in Path, Silent(p) \/ Fails(p), UNCHANGED shipVars
  PROVE  MessageInv'
<1> PICK t, u : t = tail[p] /\ u = tail'[p]
  OBVIOUS
<1>1. OrderInv /\ OrderInv'
  BY OrderTail DEF MessageInv
<1>2. /\ \A a \in Path \ {p} : tail'[a] = tail[a]
      /\ UNCHANGED <<dir, files, lines, truncated, in, batch, last>>
  BY <1>1, SilentFacts DEF OrderInv, shipVars
<1>3. \/ u = Off
      \/ dir[p] \in Inode /\ u \in Reader /\ u.ino = dir[p] /\ u.buf = <<>> /\ u.partial = <<>>
      \/ /\ IsOpen(p) /\ u \in Reader /\ u.ino = t.ino /\ u.pos = t.pos /\ u.buf = t.buf
         /\ u.partial = t.partial
  BY <1>1, SilentFacts DEF OrderInv
<1>4. Off.pc = "off"
  BY DEF Off
<1>5. Shapes' /\ Apart' /\ Records'
  BY <1>2 DEF MessageInv, Shapes, Apart, Records
<1>6. Owners'
  <2>1. ASSUME IsOpen(p)' PROVE OfPath(files[u.ino], p)
    <3>1. u # Off
      BY <1>4, <2>1 DEF IsOpen
    <3>2. (dir[p] # NoInode /\ u.ino = dir[p]) \/ (IsOpen(p) /\ u.ino = t.ino)
      BY <1>3, <3>1, TailerAssumption
    <3> QED
      BY <3>2 DEF MessageInv, Owners
  <2> QED
    BY <1>2, <2>1 DEF MessageInv, Owners, IsOpen
<1>7. ASSUME NEW a \in Path \ truncated PROVE Builder(tail'[a], files, a)
  <2>1. Builder(tail[a], files, a)
    BY DEF MessageInv, Builders
  <2>2. CASE a # p
    BY <1>2, <2>1, <2>2
  <2>3. CASE a = p /\ u = Off
    BY <1>4, <2>3 DEF Builder
  <2>4. CASE a = p /\ u.partial = <<>>
    <3>1. Len(<<>>) = 0
      OBVIOUS
    <3>2. Building(u) = {}
      BY <2>4, <3>1 DEF Building, LinesOf
    <3> QED
      BY <2>4, <3>2 DEF Builder, From, NoneEnds
  <2>5. CASE /\ a = p /\ IsOpen(p) /\ u \in Reader /\ u.ino = t.ino /\ u.pos = t.pos /\ u.buf = t.buf
             /\ u.partial = t.partial
    <3>1. t.pc \in {"read", "poll"} /\ Place(u) = Place(t)
      BY <2>5 DEF IsOpen, Place
    <3>2. u.pc \in {"read", "poll"}
      BY <2>5 DEF Reader
    <3>3. Building(u) = Building(t)
      BY <2>5, <3>1, <3>2 DEF Building
    <3> QED
      BY <2>1, <2>5, <3>1, <3>3 DEF Builder
  <2> QED
    BY <1>3, <2>2, <2>3, <2>4, <2>5
<1>8. Builders'
  BY <1>2, <1>7 DEF Builders
<1> QED
  BY <1>1, <1>5, <1>6, <1>8 DEF MessageInv

LEMMA MessageScan ==
  ASSUME MessageInv, scan, UNCHANGED shipVars
  PROVE  MessageInv'
<1>1. OrderInv'
  BY OrderScan DEF MessageInv
<1>2. UNCHANGED <<dir, files, lines, truncated, in, batch, last>>
  BY DEF scan, fileVars, shipVars
<1>3. \A a \in Path : tail'[a] = tail[a] \/ (tail[a] = Off /\ tail'[a] = Starting)
  BY DEF scan, Found
<1>4. Off.pc = "off" /\ Starting.pc = "start"
  BY DEF Off, Starting
<1>5. \A a \in Path : (IsOpen(a)' <=> IsOpen(a)) /\ (IsOpen(a) => tail'[a] = tail[a])
  BY <1>3, <1>4 DEF IsOpen
<1>6. Shapes' /\ Apart' /\ Records' /\ Owners'
  BY <1>2, <1>5 DEF MessageInv, Shapes, Apart, Records, Owners
<1>7. ASSUME NEW a \in Path \ truncated PROVE Builder(tail'[a], files, a)
  <2>1. Builder(tail[a], files, a)
    BY DEF MessageInv, Builders
  <2>2. CASE tail'[a] = Starting
    BY <1>4, <2>2 DEF Builder
  <2> QED
    BY <1>3, <2>1, <2>2
<1>8. Builders'
  BY <1>2, <1>7 DEF Builders
<1> QED
  BY <1>1, <1>6, <1>8 DEF MessageInv

LEMMA SentIs ==
  ASSUME NEW q \in Seq(Record), NEW r \in Record, NEW q2, q2 = q \o <<r>>
  PROVE  ToSet(q2) = ToSet(q) \cup {r}
<1>1. /\ q2 = Append(q, r) /\ Len(q) \in Nat /\ DOMAIN q = 1..Len(q)
      /\ Append(q, r) \in Seq(Record) /\ Len(Append(q, r)) = Len(q) + 1
      /\ \A i \in 1..Len(q) : Append(q, r)[i] = q[i]
      /\ Append(q, r)[Len(q) + 1] = r
  BY AppendProperties, LenProperties
<1>2. DOMAIN q2 = 1..(Len(q) + 1)
  BY <1>1, LenProperties
<1>3. \A i \in DOMAIN q2 : q2[i] \in ToSet(q) \cup {r}
  <2>1. \A i \in DOMAIN q2 : i \in DOMAIN q \/ i = Len(q) + 1
    BY <1>1, <1>2
  <2> QED
    BY <1>1, <2>1 DEF ToSet
<1>4. \A i \in DOMAIN q : i \in DOMAIN q2 /\ q2[i] = q[i]
  BY <1>1, <1>2
<1>5. \E i \in DOMAIN q2 : q2[i] = r
  <2>1. Len(q) + 1 \in DOMAIN q2 /\ q2[Len(q) + 1] = r
    BY <1>1, <1>2
  <2> QED
    BY <2>1
<1> QED
  BY <1>3, <1>4, <1>5 DEF ToSet

(* The tailer that reads, and the record it makes.                         *)
LEMMA ReaderMessage ==
  ASSUME MessageInv, NEW p \in Path, p \notin truncated, NEW read \in Reads(p), OnRecord(read.out)
  PROVE  /\ Builder(read.tailer, files, p)
         /\ \A r : in' = in \o <<r>> /\ in' # in =>
              From(LineNumbers(r), files[tail[p].ino], p) /\ NoneInside(LineNumbers(r), files[tail[p].ino])
<1> PICK t, u, file, data, raw : /\ t = tail[p] /\ u = read.tailer /\ file = files[t.ino]
                                 /\ data = Data(t) /\ raw = FirstLine(data)
  OBVIOUS
<1> PICK f, g, S, n : f = Place(t) /\ g = f + Len(raw) /\ S = Building(t) /\ n = lines
  OBVIOUS
<1> PICK S2 : S2 = S \cup LinesOf(raw)
  OBVIOUS
<1>1. OrderInv /\ Types
  BY DEF MessageInv, OrderInv
<1>2. /\ IsOpen(p) /\ t \in Reader /\ u \in Reader /\ u.ino = t.ino
      /\ Passes(t, raw, read) \/ Builds(t, raw, read) \/ Emits(p, t, raw, read)
  BY <1>1, ReadFacts
<1>3. t.pc \in {"read", "poll"} /\ u.pc \in {"read", "poll"} /\ t.ino \in Inode /\ t.partial \in Seq(Unit)
  BY <1>2 DEF IsOpen, Reader
<1>4. PathOrdered(p, batch \o in, last[p], t, files, n)
  BY <1>1 DEF OrderInv, PathsOrdered
<1>5. Sound(t, file) /\ Ahead(f, file, Consumed(p, batch \o in, last[p], t))
  BY <1>3, <1>4 DEF PathOrdered, InPlace
<1>6. /\ file \in Seq(Unit) /\ raw \in Seq(Unit) /\ f \in Nat /\ Place(u) = g /\ f + Len(raw) <= Len(file)
      /\ \A i \in 1..Len(raw) : raw[i] = file[f + i]
  <2>1. /\ Types /\ p \in Path /\ read \in Reads(p) /\ t = tail[p] /\ file = files[t.ino]
        /\ Sound(t, file) /\ raw = FirstLine(Data(t)) /\ u = read.tailer
    BY <1>1, <1>5
  <2>2. file \in Seq(Unit) /\ raw \in Seq(Unit) /\ Place(t) \in Nat
    BY ONLY <2>1, ReadPlace
  <2>3. Place(u) = Place(t) + Len(raw)
    BY ONLY <2>1, ReadPlace
  <2>4. Place(t) + Len(raw) <= Len(file)
    BY ONLY <2>1, ReadPlace
  <2>5. \A i \in 1..Len(raw) : raw[i] = file[Place(t) + i]
    BY ONLY <2>1, ReadPlace
  <2> QED
    BY <2>2, <2>3, <2>4, <2>5
<1>7. \A i \in 1..(Len(raw) - 1) : ~IsRest(raw[i])
  <2>1. data \in Seq(Unit)
    BY <1>1, <1>2, DataFacts
  <2> QED
    BY <2>1, FirstLineFacts
<1>8. /\ FileShaped(file) /\ OfPath(file, p) /\ From(S, file, p) /\ NoneEnds(S, file, f)
  BY <1>2, <1>3 DEF MessageInv, Shapes, Owners, Builders, Builder
<1>9. n \in Nat /\ FileOrdered(file, n) /\ S \subseteq 0..n
  <2>1. n \in Nat
    BY <1>1, OrderCounts
  <2>2. S \subseteq 0..n
    BY <1>4 DEF PathOrdered, InOrder, Consumed
  <2>3. FileOrdered(file, n)
    BY <1>1, <1>3 DEF OrderInv, FilesOrdered
  <2> QED
    BY <2>1, <2>2, <2>3
<1>10. /\ raw = <<>> \/ ~Parses(raw) => NoneEnds(S, file, g)
       /\ raw # <<>> /\ Parses(raw) => From(S2, file, p)
       /\ raw # <<>> /\ Parses(raw) /\ raw[1].tag = "P" => NoneEnds(S2, file, g)
       /\ raw # <<>> /\ Parses(raw) /\ Newer(LinesOf(raw), S) => NoneInside(S2, file)
  <2>1. /\ file \in Seq(Unit) /\ FileShaped(file) /\ n \in Nat /\ FileOrdered(file, n)
        /\ OfPath(file, p) /\ f \in Nat /\ raw \in Seq(Unit) /\ f + Len(raw) <= Len(file)
        /\ \A i \in 1..Len(raw) : raw[i] = file[f + i]
        /\ \A i \in 1..(Len(raw) - 1) : ~IsRest(raw[i])
        /\ S \subseteq 0..n /\ From(S, file, p) /\ NoneEnds(S, file, f)
        /\ g = f + Len(raw) /\ S2 = S \cup LinesOf(raw)
    BY <1>6, <1>7, <1>8, <1>9
  <2>2. raw = <<>> \/ ~Parses(raw) => NoneEnds(S, file, g)
    BY ONLY <2>1, MessageRead
  <2>3. raw # <<>> /\ Parses(raw) => From(S2, file, p)
    BY ONLY <2>1, MessageRead
  <2>4. raw # <<>> /\ Parses(raw) /\ raw[1].tag = "P" => NoneEnds(S2, file, g)
    BY ONLY <2>1, MessageRead
  <2>5. raw # <<>> /\ Parses(raw) /\ Newer(LinesOf(raw), S) => NoneInside(S2, file)
    BY ONLY <2>1, MessageRead
  <2> QED
    BY <2>2, <2>3, <2>4, <2>5
<1>11. S = LinesOf(t.partial) /\ Building(u) = LinesOf(u.partial)
  BY <1>3 DEF Building
<1>12. LinesOf(t.partial \o raw) = S2
  <2>1. t.partial \in Seq(Unit) /\ raw \in Seq(Unit)
    BY <1>3, <1>6
  <2>2. LinesOf(t.partial \o raw) = LinesOf(t.partial) \cup LinesOf(raw)
    BY ONLY <2>1, LinesJoined
  <2> QED
    BY <1>11, <2>2
<1>13. Builder(u, files, p)
  <2>1. CASE Passes(t, raw, read)
    <3>1. Building(u) = S /\ (raw = <<>> \/ ~Parses(raw))
      BY <1>11, <2>1 DEF Passes
    <3> QED
      BY <1>2, <1>6, <1>8, <1>10, <3>1 DEF Builder
  <2>2. CASE Builds(t, raw, read)
    <3>1. Building(u) = S2 /\ raw # <<>> /\ Parses(raw) /\ raw[1].tag = "P"
      BY <1>11, <1>12, <2>2 DEF Builds
    <3> QED
      BY <1>2, <1>6, <1>10, <3>1 DEF Builder
  <2>3. CASE Emits(p, t, raw, read)
    <3>1. u.partial = <<>> /\ Len(<<>>) = 0
      BY <2>3 DEF Emits
    <3>2. LinesOf(<<>>) = {}
      BY <3>1 DEF LinesOf
    <3>3. Building(u) = {}
      BY <1>11, <3>1, <3>2
    <3> QED
      BY <3>3 DEF Builder, From, NoneEnds
  <2> QED
    BY <1>2, <2>1, <2>2, <2>3
<1>14. ASSUME NEW r, in' = in \o <<r>>, in' # in
       PROVE  From(LineNumbers(r), file, p) /\ NoneInside(LineNumbers(r), file)
  <2> PICK r2 : r2 = [path |-> p, msg |-> t.partial \o raw]
    OBVIOUS
  <2>1. /\ in' = in \o <<r2>> /\ r2 \in Record /\ r2.msg = t.partial \o raw
        /\ Emits(p, t, raw, read)
    <3>1. /\ Types /\ p \in Path /\ read \in Reads(p) /\ OnRecord(read.out) /\ t = tail[p]
          /\ in' # in /\ raw = FirstLine(Data(t)) /\ r2 = [path |-> p, msg |-> t.partial \o raw]
      BY <1>1, <1>14
    <3>2. in' = in \o <<r2>>
      BY ONLY <3>1, SentFacts
    <3>3. r2 \in Record
      BY ONLY <3>1, SentFacts
    <3>4. Emits(p, t, raw, read)
      BY ONLY <3>1, SentFacts
    <3>5. r2.msg = t.partial \o raw
      BY ONLY <3>1
    <3> QED
      BY <3>2, <3>3, <3>4, <3>5
  <2>2. r = r2
    <3>1. in \in Seq(Record) /\ Len(in) \in Nat
      BY <1>1, LenProperties DEF Types, TypeOK
    <3>2. in \o <<r>> = Append(in, r) /\ in \o <<r2>> = Append(in, r2)
      BY <3>1
    <3>3. Append(in, r)[Len(in) + 1] = r /\ Append(in, r2)[Len(in) + 1] = r2
      BY <3>1
    <3> QED
      BY <1>14, <2>1, <3>2, <3>3
  <2>3. LineNumbers(r) = S2
    BY <1>12, <2>1, <2>2, LinesOfRecord
  <2>4. raw # <<>> /\ Parses(raw)
    BY <2>1 DEF Emits
  <2>5. Newer(LinesOf(raw), S)
    <3> PICK C : C = Consumed(p, batch \o in, last[p], t)
      OBVIOUS
    <3>1. ~IsRest(raw[1])
      BY <2>4 DEF Parses, IsRest
    <3>2. /\ file \in Seq(Unit) /\ n \in Nat /\ FileOrdered(file, n) /\ f \in Nat
          /\ raw \in Seq(Unit) /\ f + Len(raw) <= Len(file)
          /\ \A i \in 1..Len(raw) : raw[i] = file[f + i]
          /\ Ahead(f, file, C) /\ g = f + Len(raw) /\ raw # <<>> /\ ~IsRest(raw[1])
      BY <1>5, <1>6, <1>9, <2>4, <3>1
    <3>3. Newer(LinesOf(raw), C)
      BY ONLY <3>2, AheadMoves
    <3>4. S \subseteq C
      BY DEF Consumed
    <3> QED
      BY <3>3, <3>4 DEF Newer
  <2> QED
    BY <1>10, <2>3, <2>4, <2>5
<1> QED
  BY <1>13, <1>14

LEMMA MessageReadStep ==
  ASSUME MessageInv, NEW p \in Path, NEW read \in Reads(p), ReadLine(p, read), OnRecord(read.out)
  PROVE  MessageInv'
<1> PICK t, u : t = tail[p] /\ u = read.tailer
  OBVIOUS
<1>1. OrderInv /\ OrderInv' /\ Types
  BY OrderRead DEF MessageInv, OrderInv
<1>2. IsOpen(p) /\ t \in Reader /\ u \in Reader /\ u.ino = t.ino
  BY <1>1, ReadFacts
<1>3. /\ tail'[p] = u /\ \A a \in Path \ {p} : tail'[a] = tail[a]
      /\ UNCHANGED <<dir, files, lines, truncated, batch, last>>
  <2>1. u \in TailerState
    BY <1>2, ReaderIsTailer
  <2> QED
    BY <1>1, <2>1, MoveType DEF ReadLine, OnRecord, fileVars
<1>4. \A a \in Path : (IsOpen(a)' <=> IsOpen(a)) /\ (IsOpen(a) => tail'[a].ino = tail[a].ino)
  BY <1>2, <1>3 DEF IsOpen, Reader
<1>5. Shapes' /\ Apart' /\ Owners'
  BY <1>3, <1>4 DEF MessageInv, Shapes, Apart, Owners
<1>6. Builders'
  <2>1. ASSUME NEW a \in Path \ truncated PROVE Builder(tail'[a], files, a)
    <3>1. CASE a = p
      BY <1>3, <3>1, ReaderMessage
    <3>2. CASE a # p
      BY <1>3, <3>2 DEF MessageInv, Builders
    <3> QED
      BY <3>1, <3>2
  <2> QED
    BY <1>3, <2>1 DEF Builders
<1>7. Records'
  <2>1. CASE in' = in
    BY <1>3, <2>1 DEF MessageInv, Records
  <2>2. CASE in' # in
    <3> PICK r : r = [path |-> p, msg |-> t.partial \o FirstLine(Data(t))]
      OBVIOUS
    <3>1. in' = in \o <<r>> /\ r \in Record /\ r.path = p
      BY <1>1, <2>2, SentFacts
    <3>2. in \in Seq(Record)
      BY <1>1 DEF Types, TypeOK
    <3>3. ToSet(in') = ToSet(in) \cup {r}
      <4> PICK q, q2 : q = in /\ q2 = in'
        OBVIOUS
      <4>1. q \in Seq(Record) /\ r \in Record /\ q2 = q \o <<r>>
        BY <3>1, <3>2
      <4>2. ToSet(q2) = ToSet(q) \cup {r}
        BY ONLY <4>1, SentIs
      <4> QED
        BY <4>2
    <3>4. t.ino \in Inode
      BY <1>2 DEF Reader
    <3>5. p \notin truncated => From(LineNumbers(r), files[t.ino], p) /\ NoneInside(LineNumbers(r), files[t.ino])
      BY <2>2, <3>1, ReaderMessage
    <3> QED
      BY <1>3, <3>1, <3>3, <3>4, <3>5 DEF MessageInv, Records
  <2> QED
    BY <2>1, <2>2
<1> QED
  BY <1>1, <1>5, <1>6, <1>7 DEF MessageInv

LEMMA MessageShip ==
  ASSUME MessageInv, Ship
  PROVE  MessageInv'
<1>1. OrderInv /\ OrderInv' /\ Types
  BY OrderShip DEF MessageInv, OrderInv
<1>2. UNCHANGED <<dir, files, tail, lines, truncated>>
  BY DEF Ship, Receive, FlushTick, Break, Posted, PostBatch, LastFlush, tailerVars
<1>3. ToSet(in') \cup ToSet(batch') \subseteq ToSet(in) \cup ToSet(batch)
  <2>1. in \in Seq(Record) /\ batch \in Seq(Record) /\ DOMAIN in = 1..Len(in) /\ Len(in) \in Nat
    BY <1>1, LenProperties DEF Types, TypeOK
  <2>2. CASE Receive
    <3> PICK h, r : h = Head(in) /\ r = Tail(in)
      OBVIOUS
    <3>1. in # <<>> /\ in' = r /\ batch' = Append(batch, h)
      BY <2>2 DEF Receive
    <3>2. /\ h \in Record /\ r \in Seq(Record) /\ Len(r) = Len(in) - 1
          /\ \A i \in 1..Len(r) : r[i] = in[i + 1]
      BY <2>1, <3>1, HeadTailProperties
    <3>3. DOMAIN r = 1..Len(r)
      BY <3>2, LenProperties
    <3>4. h \in ToSet(in)
      <4>1. h = in[1] /\ 1 \in DOMAIN in
        BY <2>1, <3>1, EmptySeq
      <4> QED
        BY <4>1 DEF ToSet
    <3>5. ToSet(r) \subseteq ToSet(in)
      <4>1. \A i \in DOMAIN r : i + 1 \in DOMAIN in /\ r[i] = in[i + 1]
        BY <2>1, <3>2, <3>3
      <4> QED
        BY <4>1 DEF ToSet
    <3>6. ToSet(Append(batch, h)) = ToSet(batch) \cup {h}
      <4>1. Append(batch, h) = batch \o <<h>>
        BY <2>1, <3>2
      <4> QED
        BY <2>1, <3>2, <4>1, SentIs
    <3> QED
      BY <3>1, <3>4, <3>5, <3>6
  <2>3. CASE FlushTick \/ Break
    BY <2>3 DEF FlushTick, Break
  <2>4. CASE Posted \/ LastFlush
    <3>1. in' = in /\ batch' = <<>> /\ DOMAIN <<>> = {}
      BY <2>4 DEF Posted, PostBatch, LastFlush
    <3> QED
      BY <3>1 DEF ToSet
  <2> QED
    BY <2>2, <2>3, <2>4 DEF Ship
<1>4. Shapes' /\ Apart' /\ Owners' /\ Builders'
  BY <1>2 DEF MessageInv, Shapes, Apart, Owners, Builders, IsOpen
<1>5. Records'
  BY <1>2, <1>3 DEF MessageInv, Records
<1> QED
  BY <1>1, <1>4, <1>5 DEF MessageInv

LEMMA MessageInit == Init_ => MessageInv
<1> SUFFICES ASSUME Init_ PROVE MessageInv
  OBVIOUS
<1>1. OrderInv
  BY OrderInit
<1>2. /\ dir = [p \in Path |-> NoInode] /\ files = [i \in Inode |-> <<>>]
      /\ tail = [p \in Path |-> Off] /\ in = <<>> /\ batch = <<>>
  BY DEF Init_, Init, ShipInit
<1>3. Len(<<>>) = 0 /\ DOMAIN <<>> = {} /\ Off.pc = "off"
  BY DEF Off
<1>4. Shapes
  BY <1>2, <1>3 DEF Shapes, FileShaped
<1>5. Owners
  BY <1>2, <1>3 DEF Owners, IsOpen
<1>6. Apart
  BY <1>2, <1>3, TailerAssumption DEF Apart, Older
<1>7. Builders /\ Records
  BY <1>2, <1>3 DEF Builders, Builder, Records, ToSet
<1> QED
  BY <1>1, <1>4, <1>5, <1>6, <1>7 DEF MessageInv

LEMMA MessageStep == MessageInv /\ [Next]_vars => MessageInv'
<1> SUFFICES ASSUME MessageInv, [Next]_vars PROVE MessageInv'
  OBVIOUS
<1>1. CASE Cancel \/ UNCHANGED vars
  <2>1. UNCHANGED <<dir, files, tail, lines, truncated, in, batch, last>>
    BY <1>1 DEF Cancel, fileVars, shipVars, vars, tailerVars
  <2>2. OrderInv'
    BY OrderStep DEF MessageInv
  <2> QED
    BY <2>1, <2>2 DEF MessageInv, Shapes, Owners, Apart, Builders, Records, IsOpen
<1> QED
  BY <1>1, MessageNode, MessageTail, MessageScan, MessageReadStep, MessageShip DEF Next, Run

(* A line tagged F ends its record: none lies inside one, unless it was    *)
(* torn in its header, for any renames, deletions and lost posts; only a   *)
(* truncated file may join what was never together.                        *)
THEOREM TailerFullEndsRecord == Spec => []FullEndsRecord
<1>1. MessageInv => FullEndsRecord
  <2> SUFFICES ASSUME MessageInv, NEW rec \in ToSet(in \o batch), NEW i \in Inode,
                      NEW u \in ToSet(files[i]), u.path = rec.path, u.tag = "F",
                      rec.path \notin truncated,
                      NEW m \in LineNumbers(rec), m <= u.line,
                      NEW n \in LineNumbers(rec), u.line < n
               PROVE  \E v \in ToSet(files[i]) : v.line = u.line /\ v.part = "stub"
    BY DEF FullEndsRecord
  <2> PICK p, S : p = rec.path /\ S = LineNumbers(rec)
    OBVIOUS
  <2>1. OrderInv /\ Types
    BY DEF MessageInv, OrderInv
  <2>2. rec \in ToSet(in) \cup ToSet(batch)
    <3>1. in \in Seq(Record) /\ batch \in Seq(Record)
      BY <2>1 DEF Types, TypeOK
    <3> PICK q : q = in \o batch
      OBVIOUS
    <3>2. /\ q \in Seq(Record) /\ Len(q) = Len(in) + Len(batch) /\ Len(in) \in Nat /\ Len(batch) \in Nat
          /\ DOMAIN in = 1..Len(in) /\ DOMAIN batch = 1..Len(batch)
          /\ \A k \in 1..(Len(in) + Len(batch)) : q[k] = IF k <= Len(in) THEN in[k] ELSE batch[k - Len(in)]
      BY <3>1, ConcatProperties, LenProperties
    <3>3. DOMAIN q = 1..Len(q)
      BY <3>2, LenProperties
    <3>4. PICK k \in DOMAIN q : rec = q[k]
      BY DEF ToSet
    <3>5. CASE k <= Len(in)
      <4>1. k \in DOMAIN in /\ rec = in[k]
        BY <3>2, <3>3, <3>4, <3>5
      <4> QED
        BY <4>1 DEF ToSet
    <3>6. CASE ~(k <= Len(in))
      <4>1. k - Len(in) \in DOMAIN batch /\ rec = batch[k - Len(in)]
        BY <3>2, <3>3, <3>4, <3>6
      <4> QED
        BY <4>1 DEF ToSet
    <3> QED
      BY <3>5, <3>6
  <2>3. rec \in Record /\ p \in Path /\ S \subseteq 0..lines /\ lines \in Nat
    <3>1. rec \in Record /\ S \subseteq 0..lines
      BY <2>1, <2>2, RecordWritten
    <3> QED
      BY <2>1, <3>1, OrderCounts DEF Record
  <2>4. PICK j \in Inode : From(S, files[j], p) /\ NoneInside(S, files[j])
    BY <2>2 DEF MessageInv, Records
  <2>5. \A k \in Inode : files[k] \in Seq(Unit) /\ DOMAIN files[k] = 1..Len(files[k])
    BY <2>1, OrderCounts, LenProperties
  <2>6. PICK a \in 1..Len(files[i]) : u = files[i][a]
    BY <2>5 DEF ToSet
  <2>7. u.line \in Nat /\ m \in Nat /\ n \in Nat
    <3>1. u.line \in Nat
      BY <2>5, <2>6, UnitLines
    <3>2. m \in 0..lines /\ n \in 0..lines
      BY <2>3
    <3> QED
      BY <2>3, <3>1, <3>2
  <2>8. CASE j = i
    <3>1. Stubbed(files[i], u.line)
      BY <2>4, <2>6, <2>8 DEF NoneInside
    <3> QED
      BY <2>5, <3>1 DEF Stubbed, ToSet
  <2>9. CASE j # i
    <3>1. PICK b \in 1..Len(files[j]) : files[j][b].line = m /\ files[j][b].path = p
      BY <2>4 DEF From
    <3>2. PICK c \in 1..Len(files[j]) : files[j][c].line = n /\ files[j][c].path = p
      BY <2>4 DEF From
    <3>3. Older(files[i], files[j], p) \/ Older(files[j], files[i], p)
      BY <2>3, <2>9 DEF MessageInv, Apart
    <3>4. u.line < m \/ n < u.line
      BY <2>6, <3>1, <3>2, <3>3 DEF Older
    <3> QED
      BY <2>7, <3>4
  <2> QED
    BY <2>8, <2>9
<1>2. Spec => []MessageInv
  BY MessageInit, MessageStep, PTL DEF Spec
<1> QED
  BY <1>1, <1>2, PTL
=============================================================================
