----------------------------- MODULE FileTailer -----------------------------
(***************************************************************************)
(* FileTailer.Run and Watcher.scan against the log files of a node.  The   *)
(* container runtime appends lines, whole or in two writes; the files are  *)
(* rotated by renaming them or by truncating them, and deleted.            *)
(*                                                                         *)
(* A file is a sequence of units: the beginning of a line, with its header *)
(* ("head") or cut inside its header ("stub"), and the rest of it with the *)
(* newline ("rest").  Sizes and offsets count units.                       *)
(***************************************************************************)
EXTENDS Integers, Sequences, SequencesExt

CONSTANTS
  Path,      \* the container logs Glob can find, PodPulse's own left out
  Inode,     \* the files there will ever be
  NoInode,
  Stream,    \* stdout and stderr
  MaxLines,  \* bound: lines written
  MaxFaults  \* bound: tears, truncations, renames and deletions

ASSUME TailerAssumption ==
  /\ NoInode \notin Inode
  /\ MaxLines \in Nat /\ MaxFaults \in Nat

VARIABLES
  dir,       \* path -> the inode it names
  files,     \* inode -> units
  tail,      \* path -> the state of its FileTailer
  stopping,  \* the context is cancelled
  lines,     \* the lines written, by number
  faults,    \* faults so far
  truncated  \* history: the paths whose file was truncated

fileVars == <<dir, files, lines, faults, truncated>>
tailerVars == <<dir, files, tail, stopping, lines, faults, truncated>>

Unit == [path : Path, line : 1..MaxLines, part : {"head", "stub", "rest"},
         tag : {"P", "F"}, stream : Stream]

\* Not in Watcher.running, and in it before Run has opened the file.
Off      == [pc |-> "off"]
Starting == [pc |-> "start"]

TailerState ==
  {Off, Starting} \cup
  [pc : {"read", "poll"}, ino : Inode, pos : Nat, buf : Seq(Unit), partial : Seq(Unit),
   cur : [ino : Inode, size : Nat]]

\* Units, cut after the first newline.
LineEnd(us) == SelectInSeq(us, LAMBDA u : u.part = "rest")

\* parseCRI: the header is complete, whatever there is of the message.
Parses(raw) == raw[1].part = "head" \/ (raw[1].part = "stub" /\ Len(raw) > 1)

\* fstat of the open file, not of the path.
statInfo(ino) == [ino |-> ino, size |-> Len(files[ino])]

\* A tailer that has (re)opened a file, at offset pos.
NewReader(ino, pos) ==
  [pc |-> "read", ino |-> ino, pos |-> pos, buf |-> <<>>, partial |-> <<>>, cur |-> statInfo(ino)]

Init ==
  /\ dir = [p \in Path |-> NoInode] /\ files = [i \in Inode |-> <<>>]
  /\ tail = [p \in Path |-> Off]
  /\ stopping = FALSE
  /\ lines = 0 /\ faults = 0 /\ truncated = {}

-----------------------------------------------------------------------------
\* The node.

IsOpen(p) == tail[p].pc \in {"read", "poll"}

\* An inode is free when no path names it and no tailer has it open.
Unused ==
  {i \in Inode : files[i] = <<>> /\ \A p \in Path : dir[p] # i /\ (IsOpen(p) => tail[p].ino # i)}

\* The kubelet creates the log of a container, or a new one after a rename.
Create(p) ==
  /\ dir[p] = NoInode
  /\ \E i \in Unused : dir' = [dir EXCEPT ![p] = i]
  /\ UNCHANGED <<files, tail, stopping, lines, faults, truncated>>

LastIsTorn(i) == files[i] # <<>> /\ Last(files[i]).part # "rest"

\* A line in one write.
Write(p) ==
  /\ dir[p] # NoInode /\ ~LastIsTorn(dir[p])
  /\ lines < MaxLines /\ lines' = lines + 1
  /\ \E tag \in {"P", "F"}, s \in Stream :
       LET u(part) == [path |-> p, line |-> lines', part |-> part, tag |-> tag, stream |-> s] IN
       files' = [files EXCEPT ![dir[p]] = @ \o <<u("head"), u("rest")>>]
  /\ UNCHANGED <<dir, tail, stopping, faults, truncated>>

Fault == faults < MaxFaults /\ faults' = faults + 1

\* A line of which a reader can see the beginning first.
WriteBeginning(p) ==
  /\ Fault
  /\ dir[p] # NoInode /\ ~LastIsTorn(dir[p])
  /\ lines < MaxLines /\ lines' = lines + 1
  /\ \E tag \in {"P", "F"}, s \in Stream, part \in {"head", "stub"} :
       files' = [files EXCEPT ![dir[p]] =
                   Append(@, [path |-> p, line |-> lines', part |-> part, tag |-> tag, stream |-> s])]
  /\ UNCHANGED <<dir, tail, stopping, truncated>>

WriteRest(p) ==
  /\ dir[p] # NoInode /\ LastIsTorn(dir[p])
  /\ files' = [files EXCEPT ![dir[p]] = Append(@, [Last(@) EXCEPT !.part = "rest"])]
  /\ UNCHANGED <<dir, tail, stopping, lines, faults, truncated>>

\* Rotated by rename, or deleted with its pod: the path loses its inode.
Unlink(p) ==
  /\ Fault
  /\ dir[p] # NoInode /\ dir' = [dir EXCEPT ![p] = NoInode]
  /\ UNCHANGED <<files, tail, stopping, lines, truncated>>

Truncate(p) ==
  /\ Fault
  /\ dir[p] # NoInode /\ files[dir[p]] # <<>>
  /\ files' = [files EXCEPT ![dir[p]] = <<>>]
  /\ truncated' = truncated \cup {p}
  /\ UNCHANGED <<dir, tail, stopping, lines>>

Node(p) == Create(p) \/ Write(p) \/ WriteBeginning(p) \/ WriteRest(p) \/ Unlink(p) \/ Truncate(p)

-----------------------------------------------------------------------------
\* Watcher.scan starts a goroutine for every log it does not tail yet.
Found == {p \in Path : dir[p] # NoInode /\ tail[p] = Off}

scan ==
  /\ ~stopping /\ Found # {}
  /\ tail' = [p \in Path |-> IF p \in Found THEN Starting ELSE tail[p]]
  /\ UNCHANGED <<fileVars, stopping>>

Move(p, t) == tail' = [tail EXCEPT ![p] = t]

\* The start of Run: from the end of the file.  Lines written between Open
\* and Seek are skipped like those before it.
OpenAtEnd(p) ==
  /\ tail[p] = Starting
  /\ IF dir[p] = NoInode THEN Move(p, Off)
     ELSE Move(p, NewReader(dir[p], Len(files[dir[p]])))
  /\ UNCHANGED <<fileVars, stopping>>

\* Mutant: what was coalesced stays in the builder.
CoalesceKeeps(p, raw) ==
  LET t == tail[p] IN
  IF ~Parses(raw) THEN [partial |-> t.partial, out |-> <<>>]
  ELSE IF raw[1].tag = "P" THEN [partial |-> t.partial \o raw, out |-> <<>>]
  ELSE [partial |-> t.partial, out |-> <<[path |-> p, msg |-> t.partial \o raw]>>]

\* What Run does with one line: it goes into the builder when it is tagged
\* P, is emitted with what the builder holds when it is tagged F (one builder
\* serves stdout and stderr), and is dropped when it does not parse.
Coalesce(p, raw) ==
  LET t == tail[p] IN
  IF ~Parses(raw) THEN [partial |-> t.partial, out |-> <<>>]
  ELSE IF raw[1].tag = "P" THEN [partial |-> t.partial \o raw, out |-> <<>>]
  ELSE [partial |-> <<>>, out |-> <<[path |-> p, msg |-> t.partial \o raw]>>]

\* What bufio holds, and, unless that has a whole line, the rest of the file.
Buffered(t) == LineEnd(t.buf) # 0
Data(t) == IF Buffered(t) THEN t.buf ELSE t.buf \o SubSeq(files[t.ino], t.pos + 1, Len(files[t.ino]))
Offset(t) == IF Buffered(t) \/ t.pos > Len(files[t.ino]) THEN t.pos ELSE Len(files[t.ino])

FirstLine(data) == IF LineEnd(data) = 0 THEN data ELSE SubSeq(data, 1, LineEnd(data))

\* What one turn of the loop makes of data: the tailer after it, and what it
\* emits.  A line tagged P is followed by another read, at the end or not.
AfterRead(p, data, raw) ==
  LET again == raw # <<>> /\ Parses(raw) /\ raw[1].tag = "P"
      read  == IF raw = <<>> THEN [partial |-> tail[p].partial, out |-> <<>>] ELSE Coalesce(p, raw)
  IN [tailer |-> [tail[p] EXCEPT !.pc = IF LineEnd(data) = 0 /\ ~again THEN "poll" ELSE "read",
                                 !.buf = SubSeq(data, Len(raw) + 1, Len(data)),
                                 !.pos = Offset(tail[p]), !.partial = read.partial],
      out    |-> read.out]

\* ReadString: a buffered line, or else all there is in the file; at its end
\* what is left comes back although it has no newline, and Run then waits.
Reads(p) ==
  IF tail[p].pc = "read" /\ ~stopping
  THEN {AfterRead(p, data, FirstLine(data)) : data \in {Data(tail[p])}}
  ELSE {}

ReadLine(p, read) ==
  /\ read \in Reads(p)
  /\ Move(p, read.tailer)
  /\ UNCHANGED <<fileVars, stopping>>

\* Mutant: a poll that finds nothing new goes on polling.
PollAgain(p) ==
  LET t  == tail[p]
      st == statInfo(t.ino)
  IN
  /\ t.pc = "poll" /\ ~stopping
  /\ IF st.size = t.cur.size THEN UNCHANGED tail
     ELSE IF st.size > t.cur.size THEN Move(p, [t EXCEPT !.pc = "read", !.cur = st])
     ELSE IF dir[p] = NoInode THEN Move(p, Off)
     ELSE Move(p, NewReader(dir[p], 0))
  /\ UNCHANGED <<fileVars, stopping>>

\* The poll at the end of the file.  fstat of the open file finds the same
\* inode as before, so only a smaller size makes Run open the path again.
Poll(p) ==
  LET t       == tail[p]
      st      == statInfo(t.ino)
      rotated == st.ino # t.cur.ino \/ st.size < t.cur.size
  IN
  /\ t.pc = "poll" /\ ~stopping
  /\ IF ~rotated THEN Move(p, [t EXCEPT !.pc = "read", !.cur = st])
     ELSE IF dir[p] = NoInode THEN Move(p, Off)
     ELSE Move(p, NewReader(dir[p], 0))
  /\ UNCHANGED <<fileVars, stopping>>

\* Open fails for another reason than a missing file: Run has noted the new
\* size, and will not see the rotation again.
ReopenFails(p) ==
  LET t == tail[p] IN
  /\ Fault
  /\ t.pc = "poll" /\ ~stopping /\ Len(files[t.ino]) < t.cur.size
  /\ Move(p, [t EXCEPT !.pc = "read", !.cur = statInfo(t.ino)])
  /\ UNCHANGED <<dir, files, stopping, lines, truncated>>

\* A read fails: Run returns, and the next scan starts another at the end.
ReadFails(p) ==
  /\ Fault
  /\ tail[p].pc = "read" /\ ~stopping
  /\ Move(p, Off)
  /\ UNCHANGED <<dir, files, stopping, lines, truncated>>

\* The context is cancelled: every tailer returns and is forgotten.
Exit(p) ==
  /\ stopping /\ IsOpen(p)
  /\ Move(p, Off)
  /\ UNCHANGED <<fileVars, stopping>>

Silent(p) == OpenAtEnd(p) \/ Poll(p) \/ Exit(p)
Fails(p) == ReopenFails(p) \/ ReadFails(p)
=============================================================================
