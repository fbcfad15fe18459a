------------------------------- MODULE TailFile -------------------------------
(***************************************************************************)
(* The collector that follows a log file (agent/collect_file.go), against  *)
(* a writer that appends, truncates, removes and replaces the file.        *)
(*                                                                         *)
(* A piece is what one ReadString returns: a line, or the part of one that *)
(* was there at the end of the file.  Pieces are numbered as they are      *)
(* written, and have the length 1; blank lines are not written.            *)
(***************************************************************************)
EXTENDS Naturals, Sequences, SequencesExt

CONSTANTS
    MaxPieces,      \* bound of the model: pieces written
    MaxFiles,       \* bound of the model: files the path has named
    MaxCuts,        \* bound of the model: truncations
    MaxTailFaults   \* bound of the model: read errors and restarts

ASSUME TailAssumption ==
    /\ MaxPieces \in Nat /\ MaxFiles \in Nat \ {0}
    /\ MaxCuts \in Nat /\ MaxTailFaults \in Nat

NoFile == 0
Files == 1 .. MaxFiles
Pieces == 1 .. MaxPieces

VARIABLES
    path,        \* the file the path names, if any
    newest,      \* the latest file it has named
    content,     \* file -> its pieces, after truncations
    written,     \* pieces written so far
    tail,        \* where tailFile is
    f,           \* the file it has opened last
    offset,      \* of the pieces it has submitted
    reader,      \* pieces read from the file and not returned yet
    sent,        \* pieces submitted to the Forwarder
    cuts, tailFaults,   \* counters that bound the model
    lostPlace,   \* history: since it was opened the file was cut or replaced, or
                 \* the offset was given up
    owed,        \* history: pieces written to the file while it was followed
    late,        \* history: pieces written to it since its end was read
    repeated     \* history: a piece was submitted twice

tailVars == <<path, newest, content, written, tail, f, offset, reader, sent, cuts,
              tailFaults, lostPlace, owed, late, repeated>>
disk == <<path, newest, content, written, cuts>>

Size(file) == Len(content[file])

TailInit ==
    /\ path = 1 /\ newest = 1
    /\ content = [file \in Files |-> <<>>] /\ written = 0
    /\ tail = "closed" /\ f = NoFile /\ offset = 0 /\ reader = <<>>
    /\ sent = {} /\ cuts = 0 /\ tailFaults = 0
    /\ lostPlace = TRUE /\ owed = {} /\ late = {} /\ repeated = FALSE

-----------------------------------------------------------------------------
(* The writer and whoever rotates its log                                  *)

\* Appended where the reader has not been yet, to a file that is followed: open,
\* or about to be opened again at the same place.
WillBeRead(file) ==
    /\ file = f /\ Size(file) >= offset + Len(reader)
    /\ tail # "closed" \/ ~lostPlace

\* To the file of the path, or to the one it named before.
Write(file) ==
    /\ written < MaxPieces /\ written' = written + 1
    /\ content' = [content EXCEPT ![file] = Append(@, written')]
    /\ owed' = IF WillBeRead(file) THEN owed \union {written'} ELSE owed
    /\ late' = IF file = f /\ tail = "checking" THEN late \union {written'} ELSE late
    /\ UNCHANGED <<path, newest, tail, f, offset, reader, sent, cuts, tailFaults,
                   lostPlace, repeated>>

\* What is not in the hands of the reader is gone.
Truncate ==
    /\ path # NoFile /\ cuts < MaxCuts /\ cuts' = cuts + 1
    /\ content' = [content EXCEPT ![path] = <<>>]
    /\ IF path = f
       THEN /\ lostPlace' = TRUE
            /\ owed' = owed \intersect (sent \union Range(reader))
       ELSE UNCHANGED <<lostPlace, owed>>
    /\ UNCHANGED <<path, newest, written, tail, f, offset, reader, sent, tailFaults,
                   late, repeated>>

\* Renamed or removed: who has it open can read on.
MoveAway ==
    /\ path # NoFile /\ path' = NoFile /\ lostPlace' = TRUE
    /\ owed' = IF tail = "closed" THEN owed \intersect sent ELSE owed
    /\ UNCHANGED <<newest, content, written, tail, f, offset, reader, sent, cuts,
                   tailFaults, late, repeated>>

CreateAnew ==
    /\ path = NoFile /\ newest < MaxFiles
    /\ newest' = newest + 1 /\ path' = newest'
    /\ UNCHANGED <<content, written, tail, f, offset, reader, sent, cuts, tailFaults,
                   lostPlace, owed, late, repeated>>

-----------------------------------------------------------------------------
(* tailFile                                                                *)

\* "Start at end on first open".
StartAt(size) == IF offset = 0 \/ offset > size THEN size ELSE offset

Open ==
    /\ tail = "closed" /\ path # NoFile
    /\ tail' = "reading" /\ f' = path
    /\ offset' = StartAt(Size(path)) /\ lostPlace' = FALSE
    /\ UNCHANGED <<disk, reader, sent, tailFaults, owed, late, repeated>>

\* The buffered reader takes some of what is there.
Fill ==
    /\ tail = "reading" /\ reader = <<>>
    /\ \E last \in offset + 1 .. Size(f) : reader' = SubSeq(content[f], offset + 1, last)
    /\ UNCHANGED <<disk, tail, f, offset, sent, tailFaults, lostPlace, owed, late, repeated>>

ReadString ==
    /\ tail = "reading" /\ reader # <<>>
    /\ reader' = Tail(reader) /\ offset' = offset + 1
    /\ sent' = sent \union {Head(reader)}
    /\ repeated' = (repeated \/ Head(reader) \in sent)
    /\ UNCHANGED <<disk, tail, f, tailFaults, lostPlace, owed, late>>

AtEOF ==
    /\ tail = "reading" /\ reader = <<>> /\ Size(f) <= offset
    /\ tail' = "checking" /\ late' = {}
    /\ UNCHANGED <<disk, f, offset, reader, sent, tailFaults, lostPlace, owed, repeated>>

\* Mutant: a file that has not grown counts as truncated.
NotLarger(size) == size <= offset

Truncated(size) == size < offset

\* Detect truncation and rotation, by the size of the file the path names by now.
\* What was written to a file that was replaced after its end was read is not.
Check ==
    /\ tail = "checking"
    /\ IF path # NoFile /\ Truncated(Size(path))
       THEN /\ tail' = "closed" /\ offset' = 0
            /\ owed' = IF lostPlace THEN owed \ late ELSE owed
       ELSE tail' = "reading" /\ UNCHANGED <<offset, owed>>
    /\ UNCHANGED <<disk, f, reader, sent, tailFaults, lostPlace, late, repeated>>

\* Another error: the file is opened again at the same place, if there is one.
ReadError ==
    /\ tail = "reading" /\ reader = <<>>
    /\ tailFaults < MaxTailFaults /\ tailFaults' = tailFaults + 1
    /\ tail' = "closed"
    /\ lostPlace' = (lostPlace \/ offset = 0)
    /\ owed' = IF lostPlace' THEN owed \intersect sent ELSE owed
    /\ UNCHANGED <<disk, f, offset, reader, sent, late, repeated>>

\* main follows no file that is not there when the agent starts.
AgentRestarts ==
    /\ path # NoFile
    /\ tailFaults < MaxTailFaults /\ tailFaults' = tailFaults + 1
    /\ tail' = "closed" /\ offset' = 0 /\ reader' = <<>>
    /\ lostPlace' = TRUE /\ owed' = owed \intersect sent
    /\ UNCHANGED <<disk, f, sent, late, repeated>>

TailNext ==
    \/ \E file \in {path, f} \ {NoFile} : Write(file)
    \/ Truncate \/ MoveAway \/ CreateAnew
    \/ Open \/ Fill \/ ReadString \/ AtEOF \/ Check \/ ReadError
    \/ AgentRestarts

TailSpec == TailInit /\ [][TailNext]_tailVars

-----------------------------------------------------------------------------
TailTypeOK ==
    /\ path \in Files \union {NoFile} /\ newest \in Files
    /\ content \in [Files -> Seq(Pieces)] /\ written \in 0 .. MaxPieces
    /\ tail \in {"closed", "reading", "checking"} /\ f \in Files \union {NoFile}
    /\ offset \in 0 .. MaxPieces /\ reader \in Seq(Pieces)
    /\ sent \subseteq Pieces /\ owed \subseteq Pieces /\ late \subseteq Pieces
    /\ cuts \in 0 .. MaxCuts /\ tailFaults \in 0 .. MaxTailFaults
    /\ lostPlace \in BOOLEAN /\ repeated \in BOOLEAN

\* What the reader is still going to return.
ToCome ==
    Range(reader) \union
    {content[f][k] : k \in offset + Len(reader) + 1 .. IF f = NoFile THEN 0 ELSE Size(f)}

\* What is written to the file that is followed is submitted, once, even if the
\* file is renamed before it has been read or a read fails on the way.  Left out
\* is what a truncation takes away, what is written to the new or the cut file
\* before it is opened again, since tailFile then goes to its end, and what is
\* written to the old file after its end was read.
FollowsTheFile == owed \subseteq sent \union ToCome /\ ~repeated
=============================================================================
