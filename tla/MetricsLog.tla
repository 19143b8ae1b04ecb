----------------------------- MODULE MetricsLog -----------------------------
(***************************************************************************)
(* The metrics file (internal/metrics): every fire appends one entry to    *)
(* <path> without any lock, rotating it to <path>.1 first when it is full, *)
(* while a report reads both files.  Files are inodes: a rename moves an   *)
(* inode between the two names, and a writer keeps the inode it opened.    *)
(***************************************************************************)
EXTENDS Integers, FiniteSets

CONSTANTS
    Writers,     \* fires that record their entry; writer w's entry is w, an inode it creates is w
    FirstFile,   \* the inode at <path> before the first write
    FirstPrev,   \* the inode at <path>.1 before the first write
    OldEntries,  \* the entries in FirstFile
    OlderEntries,\* the entries in FirstPrev
    MaxSize,     \* metrics_max_size in entries; 0 disables rotation
    None         \* no file

Inodes == Writers \union {FirstFile, FirstPrev}
Entries == Writers \union OldEntries \union OlderEntries

ASSUME MetricsAssumption ==
    /\ MaxSize \in Nat
    /\ FirstFile # FirstPrev
    /\ FirstFile \notin Writers /\ FirstPrev \notin Writers
    /\ None \notin Inodes
    /\ OldEntries \intersect OlderEntries = {}
    /\ Writers \intersect (OldEntries \union OlderEntries) = {}

VARIABLES
    cur,       \* inode at <path>, or None
    prev,      \* inode at <path>.1, or None
    content,   \* entries of each inode
    torn,      \* writer whose cut write ends each inode without a newline, or None
    pc,        \* where each writer is
    fd,        \* inode each writer has open
    rpc,       \* where the report is
    rfd,       \* inode the report has open
    seen,      \* entries the report read from its first and from its second file
    before,    \* history: <path>.1 when the writer looked at the size
    moved,     \* history: rotations since the writer opened its file, up to 2
    atStart,   \* history: entries in the two files when the report began
    disturbed, \* history: a rotation happened since the report began
    culprit    \* history: writer of the cut line that each writer's line was glued to, or None

files == <<cur, prev, content, torn>>
report == <<rpc, rfd, seen>>
vars == <<cur, prev, content, torn, pc, fd, rpc, rfd, seen, before, moved, atStart, disturbed, culprit>>

Goto(w, where) == pc' = [pc EXCEPT ![w] = where]
\* In entries; the piece that a cut write left is less than one.
SizeOf(i) == Cardinality(content[i] \union {w \in Writers : culprit[w] # None /\ fd[w] = i})
Stored == UNION {content[i] : i \in {cur, prev} \ {None}}

Init ==
    /\ cur = FirstFile
    /\ prev \in {FirstPrev, None}
    /\ content = [i \in Inodes |-> CASE i = FirstFile -> OldEntries
                                     [] i = FirstPrev -> OlderEntries
                                     [] OTHER -> {}]
    /\ pc = [w \in Writers |-> "stat"]
    /\ fd = [w \in Writers |-> None]
    /\ rpc = <<"open", 1>>
    /\ rfd = None
    /\ seen = <<{}, {}>>
    /\ before = [w \in Writers |-> None]
    /\ moved = [w \in Writers |-> 0]
    /\ atStart = {}
    /\ disturbed = FALSE
    /\ torn = [i \in Inodes |-> None]
    /\ culprit = [w \in Writers |-> None]

-----------------------------------------------------------------------------
\* Definitions named Slip... are deliberate faults for mutation testing: each
\* is the definition that follows it with one plausible mistake.

\* RotateIfNeeded's look at the size.
StatSize(w) ==
    /\ pc[w] = "stat"
    /\ before' = [before EXCEPT ![w] = prev]
    /\ Goto(w, IF MaxSize > 0 /\ cur # None /\ SizeOf(cur) >= MaxSize
               THEN "rename" ELSE "open")
    /\ UNCHANGED <<files, fd, report, moved, atStart, disturbed, culprit>>

\* Slip: the full file is removed instead of renamed.
SlipRotate(w) ==
    /\ pc[w] = "rename"
    /\ Goto(w, "open")
    /\ cur' = None
    /\ moved' = [v \in Writers |-> IF moved[v] < 2 THEN moved[v] + 1 ELSE 2]
    /\ disturbed' = TRUE
    /\ UNCHANGED <<prev, content, torn, fd, report, before, atStart, culprit>>

\* RotateIfNeeded's rename, whatever <path> has become since the look: a file
\* that is gone is no error, and any other failure is only logged.
Rotate(w) ==
    /\ pc[w] = "rename"
    /\ Goto(w, "open")
    /\ \/ /\ cur # None
          /\ cur' = None
          /\ prev' = cur
          /\ moved' = [v \in Writers |-> IF moved[v] < 2 THEN moved[v] + 1 ELSE 2]
          /\ disturbed' = TRUE
       \/ UNCHANGED <<cur, prev, moved, disturbed>>
    /\ UNCHANGED <<content, torn, fd, report, before, atStart, culprit>>

\* OpenFile with O_CREATE and O_APPEND; a failure drops the entry.
Open(w) ==
    /\ pc[w] = "open"
    /\ \/ /\ cur' = IF cur = None THEN w ELSE cur
          /\ fd' = [fd EXCEPT ![w] = cur']
          /\ moved' = [moved EXCEPT ![w] = 0]
          /\ Goto(w, "append")
       \/ Goto(w, "over") /\ UNCHANGED <<cur, fd, moved>>
    /\ UNCHANGED <<prev, content, torn, report, before, atStart, disturbed, culprit>>

\* Slip: the newline of a line that is glued to a cut one is lost.
SlipAppend(w) ==
    LET inode == fd[w] IN
    /\ pc[w] = "append"
    /\ \/ /\ torn[inode] = None
          /\ content' = [content EXCEPT ![inode] = @ \union {w}]
          /\ UNCHANGED <<torn, culprit>>
       \/ /\ torn[inode] # None
          /\ culprit' = [culprit EXCEPT ![w] = torn[inode]]
          /\ UNCHANGED <<content, torn>>
       \/ torn' = [torn EXCEPT ![inode] = w] /\ UNCHANGED <<content, culprit>>
       \/ UNCHANGED <<content, torn, culprit>>
    /\ Goto(w, "over")
    /\ UNCHANGED <<cur, prev, fd, report, before, moved, atStart, disturbed>>

\* One write(2) of the line with its newline to the open inode.  After a line
\* that was cut it is glued to the piece, and the two do not parse; the newline
\* ends the damage.  The write itself may be cut (a full disk), which leaves a
\* piece that does not parse, or fail.
Append(w) ==
    LET inode == fd[w] IN
    /\ pc[w] = "append"
    /\ \/ /\ torn[inode] = None
          /\ content' = [content EXCEPT ![inode] = @ \union {w}]
          /\ UNCHANGED <<torn, culprit>>
       \/ /\ torn[inode] # None
          /\ culprit' = [culprit EXCEPT ![w] = torn[inode]]
          /\ torn' = [torn EXCEPT ![inode] = None]
          /\ UNCHANGED content
       \/ torn' = [torn EXCEPT ![inode] = w] /\ UNCHANGED <<content, culprit>>
       \/ UNCHANGED <<content, torn, culprit>>
    /\ Goto(w, "over")
    /\ UNCHANGED <<cur, prev, fd, report, before, moved, atStart, disturbed>>

\* The fire is killed, or cannot make the directory.
Crash(w) ==
    /\ pc[w] # "over"
    /\ Goto(w, "over")
    /\ UNCHANGED <<files, fd, report, before, moved, atStart, disturbed, culprit>>

-----------------------------------------------------------------------------

\* Slip: the newer file is read first.
SlipReadOrder == <<cur, prev>>

\* readEntries takes <path>.1 first.
ReadOrder == <<prev, cur>>

\* Slip: a missing file ends the report.
SlipAfter(n, found) == IF found THEN <<"read", n>> ELSE <<"over", 2>>

\* Slip: the report looks for one file more than there are.
SlipAfterLast(n, found) == IF found THEN <<"read", n>> ELSE <<"open", n + 1>>

\* A missing file has no entries; the report goes on with the next one.
After(n, found) ==
    IF found THEN <<"read", n>> ELSE IF n = 1 THEN <<"open", 2>> ELSE <<"over", 2>>

\* readEntriesFromFile opens its file, which binds the inode, ...
OpenFile(n) ==
    /\ rpc = <<"open", n>>
    /\ rfd' = ReadOrder[n]
    /\ rpc' = After(n, rfd' # None)
    /\ IF n = 1 THEN atStart' = Stored /\ disturbed' = FALSE
                ELSE UNCHANGED <<atStart, disturbed>>
    /\ UNCHANGED <<files, pc, fd, seen, before, moved, culprit>>

\* ... and reads what the inode holds by then.
ReadFile(n) ==
    /\ rpc = <<"read", n>>
    /\ seen' = [seen EXCEPT ![n] = content[rfd]]
    /\ rpc' = IF n = 1 THEN <<"open", 2>> ELSE <<"over", 2>>
    /\ UNCHANGED <<files, pc, fd, rfd, before, moved, atStart, disturbed, culprit>>

\* A file that cannot be opened or read to its end, or a line longer than the
\* scanner's buffer, ends the report without a result.
FailReport(n) ==
    /\ rpc \in {<<"open", n>>, <<"read", n>>}
    /\ rpc' = <<"failed", n>>
    /\ UNCHANGED <<files, pc, fd, rfd, seen, before, moved, atStart, disturbed, culprit>>

-----------------------------------------------------------------------------

Next ==
    \/ \E n \in 1..2 : OpenFile(n) \/ ReadFile(n) \/ FailReport(n)
    \/ \E w \in Writers : StatSize(w) \/ Rotate(w) \/ Open(w) \/ Append(w) \/ Crash(w)

Spec == Init /\ [][Next]_vars

-----------------------------------------------------------------------------

\* Every variable stays within its type.
TypeOK ==
    /\ {cur, prev} \subseteq Inodes \union {None}
    /\ content \in [Inodes -> SUBSET Entries]
    /\ pc \in [Writers -> {"stat", "rename", "open", "append", "over"}]
    /\ fd \in [Writers -> Inodes \union {None}]
    /\ rpc \in ({"open", "read", "failed"} \X (1..2)) \union {<<"over", 2>>}
    /\ rfd \in Inodes \union {None}
    /\ seen \in [1..2 -> SUBSET Entries]
    /\ before \in [Writers -> Inodes \union {None}]
    /\ moved \in [Writers -> 0..2]
    /\ atStart \subseteq Entries
    /\ disturbed \in BOOLEAN
    /\ torn \in [Inodes -> Writers \union {None}]
    /\ culprit \in [Writers -> Writers \union {None}]

\* However rotations overlap the report, no entry is counted twice: the inode
\* read as <path>.1 is never found at <path> afterwards.
CountsAtMostOnce == seen[1] \intersect seen[2] = {}

\* A report that no rotation overlaps counts every entry that was there when
\* it began.
CompleteUnlessDisturbed ==
    rpc = <<"over", 2>> /\ ~disturbed => atStart \subseteq seen[1] \union seen[2]

\* An entry is written where no report finds it only if two rotations overtook
\* its writer between open and write; after one, the open inode is <path>.1.
LostWriteNeedsTwoRotations ==
    [][\A w \in Writers : Append(w) /\ moved[w] < 2 => fd[w] \in {cur, prev}]_vars

\* A write that was cut costs at most one other entry, in whichever file and
\* however late that is written: the line glued to the piece ends it.
CutWriteCostsOne ==
    \A v, w \in Writers : culprit[v] # None /\ culprit[v] = culprit[w] => v = w

\* Comment on RotateIfNeeded: renaming "avoids a race where concurrent
\* processes could delete each other's rotated file".  The file a rotation
\* replaces is one that was there when its process looked at the size, never
\* one that a peer has rotated meanwhile.
PeersRotatedFileSurvives ==
    [][\A w \in Writers :
          Rotate(w) /\ prev' # prev /\ prev # None => prev = before[w]]_vars

=============================================================================
