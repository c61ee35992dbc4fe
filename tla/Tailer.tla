------------------------------- MODULE Tailer -------------------------------
(***************************************************************************)
(* pp-tailer: the tailers of FileTailer send records over a bounded        *)
(* channel to one loop, which posts them to the detector in batches.       *)
(***************************************************************************)
EXTENDS FileTailer

CONSTANTS
  ChanSize,  \* capacity of the channel (4096)
  BatchSize  \* records that make a batch full (-batch)

ASSUME ShipAssumption == ChanSize \in Nat \ {0} /\ BatchSize \in Nat \ {0}

VARIABLES
  in,       \* the channel
  batch,    \* the records not yet posted
  loop,     \* "select", "post", "final" (its last flush) or "done"
  last      \* history: path -> the last line the detector has taken of it

shipVars == <<in, batch, loop, last>>
vars == <<tailerVars, shipVars>>

ShipInit == in = <<>> /\ batch = <<>> /\ loop = "select" /\ last = [p \in Path |-> 0]

LineNumbers(rec) == {u.line : u \in ToSet(rec.msg)}

\* OnRecord: what a tailer emits is sent without waiting.  A full channel
\* drops it.
OnRecord(out) ==
  /\ in' = IF Len(in) < ChanSize THEN in \o out ELSE in
  /\ UNCHANGED <<batch, loop, last>>

Cancel == ~stopping /\ stopping' = TRUE /\ UNCHANGED <<fileVars, tail, shipVars>>

\* A case of the select: a record.  A full batch is posted at once.
Receive ==
  /\ loop = "select" /\ in # <<>>
  /\ in' = Tail(in) /\ batch' = Append(batch, Head(in))
  /\ loop' = IF Len(batch') >= BatchSize THEN "post" ELSE "select"
  /\ UNCHANGED <<tailerVars, last>>

\* Mutant: the ticker only flushes full batches.
FlushTickFull ==
  /\ loop = "select" /\ Len(batch) >= BatchSize /\ loop' = "post"
  /\ UNCHANGED <<tailerVars, in, batch, last>>

\* A case of the select: the ticker.
FlushTick ==
  /\ loop = "select" /\ batch # <<>> /\ loop' = "post"
  /\ UNCHANGED <<tailerVars, in, batch, last>>

\* A case of the select: the context is cancelled.
Break ==
  /\ loop = "select" /\ stopping /\ loop' = "final"
  /\ UNCHANGED <<tailerVars, in, batch, last>>

Taken(recs) ==
  [p \in Path |-> Max({last[p]} \cup UNION {LineNumbers(r) : r \in {r \in ToSet(recs) : r.path = p}})]

\* Mutant: a batch that was not acknowledged is kept for the next flush.
PostBatchRetries(next) ==
  /\ \E taken \in BOOLEAN, acknowledged \in BOOLEAN :
       /\ taken \/ ~acknowledged
       /\ last' = IF taken THEN Taken(batch) ELSE last
       /\ batch' = IF acknowledged THEN <<>> ELSE batch
  /\ loop' = next
  /\ UNCHANGED <<tailerVars, in>>

\* postBatch returns.  The detector has taken the lines or it has not, and
\* an error may be reported in either case; doFlush clears the batch.
PostBatch(next) ==
  /\ \E taken \in BOOLEAN : last' = IF taken THEN Taken(batch) ELSE last
  /\ batch' = <<>>
  /\ loop' = next
  /\ UNCHANGED <<tailerVars, in>>

Posted == loop = "post" /\ PostBatch("select")

\* The last doFlush: its request carries the cancelled context and is never
\* sent.  Then the Watcher is waited for, not the tailers.
LastFlush ==
  /\ loop = "final"
  /\ batch' = <<>> /\ loop' = "done"
  /\ UNCHANGED <<tailerVars, in, last>>

Init_ == Init /\ ShipInit

Ship == Receive \/ FlushTick \/ Break \/ Posted \/ LastFlush

Run(p) ==
  \/ Silent(p) /\ UNCHANGED shipVars
  \/ \E read \in Reads(p) : ReadLine(p, read) /\ OnRecord(read.out)

Next ==
  \/ \E p \in Path : Node(p) /\ UNCHANGED shipVars
  \/ scan /\ UNCHANGED shipVars
  \/ \E p \in Path : Run(p) \/ (Fails(p) /\ UNCHANGED shipVars)
  \/ Cancel
  \/ Ship

\* Tickers keep ticking, and a goroutine that can go on does.
Fairness ==
  /\ WF_vars(scan /\ UNCHANGED shipVars)
  /\ \A p \in Path : WF_vars(Run(p))
  /\ WF_vars(Ship)

Spec == Init_ /\ [][Next]_vars /\ Fairness

-----------------------------------------------------------------------------
Record == [path : Path, msg : Seq(Unit)]

\* Types; the channel and the batch stay within their limits.
TypeOK ==
  /\ dir \in [Path -> Inode \cup {NoInode}] /\ files \in [Inode -> Seq(Unit)]
  /\ tail \in [Path -> TailerState]
  /\ stopping \in BOOLEAN /\ lines \in 0..MaxLines /\ faults \in 0..MaxFaults
  /\ truncated \subseteq Path /\ last \in [Path -> 0..MaxLines]
  /\ in \in Seq(Record) /\ Len(in) <= ChanSize
  /\ batch \in Seq(Record) /\ Len(batch) <= BatchSize
  /\ loop \in {"select", "post", "final", "done"}

\* The detector takes the lines of a container in the order they were written
\* and none of them twice, whatever is dropped, torn, renamed or deleted and
\* whatever posts fail: what is under way is in order and new to the detector.
\* Only a file that was truncated may be read again.
InOrderAtMostOnce ==
  LET underWay == batch \o in IN
  \A i \in DOMAIN underWay : underWay[i].path \notin truncated =>
    \A n \in LineNumbers(underWay[i]) :
      /\ n > last[underWay[i].path]
      /\ \A j \in 1..(i-1) : underWay[j].path = underWay[i].path =>
           \A m \in LineNumbers(underWay[j]) : m < n

\* "We coalesce P-tagged lines until the next F": no line that ended a message
\* lies inside a record, unless it was torn in its header and so got lost.  A
\* truncated file may join what was never together.
FullEndsRecord ==
  \A rec \in ToSet(in \o batch), i \in Inode :
    \A u \in {u \in ToSet(files[i]) : u.path = rec.path /\ u.tag = "F" /\ rec.path \notin truncated} :
      (\E n \in LineNumbers(rec) : n <= u.line) /\ (\E n \in LineNumbers(rec) : u.line < n) =>
        \E v \in ToSet(files[i]) : v.line = u.line /\ v.part = "stub"

\* cri.go:10: "We coalesce P-tagged lines until the next F so callers always
\* see one logical message at a time."  A record has the lines of one stream:
\* what a container writes to stdout and to stderr are two messages.
OneMessage ==
  \A rec \in ToSet(in) : \A u, v \in ToSet(rec.msg) : u.stream = v.stream

\* While the process runs, a tailed file is read to its end again and again,
\* however much is written and whatever happens to it.
ReadsOn ==
  \A p \in Path : []<>(\/ stopping \/ dir[p] = NoInode
                       \/ /\ tail[p].pc \in {"read", "poll"} /\ tail[p].buf = <<>>
                          /\ tail[p].pos >= Len(files[tail[p].ino]))

\* What was sent is posted, full batch or not, as long as the loop runs; and
\* a cancelled tailer comes to its end.
Delivers ==
  /\ []<>(loop = "done" \/ (in = <<>> /\ batch = <<>>))
  /\ stopping ~> loop = "done"

\* "handling rotation by polling fstat for inode change": a poll leaves the
\* tailer with the file its path names.
RotationFollowed ==
  [][\A p \in Path : tail[p].pc = "poll" /\ tail'[p].pc = "read" /\ dir[p] # NoInode =>
       tail'[p].ino = dir[p]]_vars
=============================================================================
