----------------------------- MODULE Transcript -----------------------------
(***************************************************************************)
(* The recent-transcript reader of the Claude Code target                  *)
(* (internal/cmd/claude): it takes the user's latest messages and tool     *)
(* calls from the end of a JSONL file that the host goes on writing.  The  *)
(* reader looks at a window at the end of the file and, while it has too   *)
(* few messages, opens the file again with a larger one.  A file is a      *)
(* sequence of cells, so that a window may begin or end within a line.     *)
(***************************************************************************)
EXTENDS Integers, Sequences, SequencesExt

CONSTANTS
    Size,             \* cells of a line of each kind, without the newline
    InitialTail,      \* initialTailBytes, in cells
    GrowthFactor,     \* tailGrowthFactor
    MaxTail,          \* maxTailBytes, in cells
    MaxUserMessages,
    MaxToolCalls,
    Starts,           \* the kinds of the lines in the file before the load
    MaxLines,         \* bound: lines the host adds
    MaxShrinks        \* bound: times the host cuts the file

\* What parseTranscript makes of a line: something the user typed, an
\* assistant's tool call, or nothing (tool results, interrupt markers, harness
\* text, meta and sidechain lines, other types).
Kinds == {"user", "tool", "noise"}
Line == [id : Nat, kind : Kinds]

\* Cell at = 0 of a line is its newline.
Cell == [line : Line, at : Nat]

ASSUME TranscriptAssumption ==
    /\ Size \in [Kinds -> Nat \ {0}]
    /\ InitialTail \in Nat \ {0} /\ MaxTail \in Nat /\ InitialTail <= MaxTail
    /\ GrowthFactor \in Nat /\ GrowthFactor > 1
    /\ MaxUserMessages \in Nat \ {0} /\ MaxToolCalls \in Nat \ {0}
    /\ Starts \subseteq Seq(Kinds)
    /\ MaxLines \in Nat /\ MaxShrinks \in Nat

VARIABLES
    file,     \* the transcript
    added,    \* lines the host has added
    shrinks,  \* times the host has cut the file
    pc,       \* where the load is
    window,   \* bytes to look at, in cells
    size,     \* the file's size when it was last looked at
    found,    \* the messages and tool calls of the last window
    atRead    \* history: the file at the last read, up to the size looked at

host == <<file, added, shrinks>>
vars == <<host, pc, window, size, found, atRead>>

Body(l) == [i \in 1..Size[l.kind] |-> [line |-> l, at |-> i]]
Newline(l) == <<[line |-> l, at |-> 0]>>
IsNewline(c) == c.at = 0

LinesOf(kinds) == [i \in 1..Len(kinds) |-> [id |-> i, kind |-> kinds[i]]]
Written(lines) == FlattenSeq([i \in 1..Len(lines) |-> Body(lines[i]) \o Newline(lines[i])])

Init ==
    /\ \E kinds \in Starts : file = Written(LinesOf(kinds))
    /\ added = 0
    /\ shrinks = 0
    /\ pc = "stat"
    /\ window = InitialTail
    /\ size = 0
    /\ found = [users |-> <<>>, tools |-> <<>>]
    /\ atRead = <<>>

-----------------------------------------------------------------------------
\* The host.  Bound: it is not followed once the load has ended.

Loading == pc \in {"stat", "read"}

\* The last line has no newline yet.
Unfinished == file # <<>> /\ ~IsNewline(Last(file))

\* A new line, of which a reader may see the beginning first.
HostAppends ==
    /\ Loading
    /\ ~Unfinished
    /\ added < MaxLines
    /\ \E kind \in Kinds :
          LET line == [id |-> 100 + added, kind |-> kind] IN
          \/ file' = file \o Body(line) \o Newline(line)
          \/ \E n \in 1..Size[kind] : file' = file \o SubSeq(Body(line), 1, n)
    /\ added' = added + 1
    /\ UNCHANGED <<shrinks, pc, window, size, found, atRead>>

HostFinishesLine ==
    /\ Loading
    /\ Unfinished
    /\ LET line == Last(file).line IN
       file' = file \o SubSeq(Body(line), Last(file).at + 1, Size[line.kind]) \o Newline(line)
    /\ UNCHANGED <<added, shrinks, pc, window, size, found, atRead>>

\* The file is cut back to a line's end, or emptied.
HostShrinks ==
    /\ Loading
    /\ shrinks < MaxShrinks
    /\ \E n \in 0..Len(file) - 1 :
          /\ n > 0 => IsNewline(file[n])
          /\ file' = SubSeq(file, 1, n)
    /\ shrinks' = shrinks + 1
    /\ UNCHANGED <<added, pc, window, size, found, atRead>>

-----------------------------------------------------------------------------
\* Definitions named Slip... are deliberate faults for mutation testing: each
\* is the definition that follows it with one plausible mistake.

\* The cell at e ends a line of data whose body is all there.
EndsLine(data, e) ==
    LET line == data[e].line
        start == e - Size[line.kind] + 1
    IN  /\ data[e].at = Size[line.kind]
        /\ start >= 1
        /\ SubSeq(data, start, e) = Body(line)
        /\ start = 1 \/ IsNewline(data[start - 1])
        /\ e = Len(data) \/ IsNewline(data[e + 1])

\* Slip: the first n are kept instead of the latest.
SlipAppendLatest(values, v, n) == IF Len(values) < n THEN Append(values, v) ELSE values

AppendLatest(values, v, n) == Append(IF Len(values) < n THEN values ELSE Tail(values), v)

\* parseTranscript's loop: what it keeps of a kind after each cell of data.
\* A line counts where it ends, and pieces of lines do not.
LatestUpTo(data, kind, n) ==
    LET latest[e \in 0..Len(data)] ==
          IF e = 0 THEN <<>>
          ELSE IF EndsLine(data, e) /\ data[e].line.kind = kind
               THEN AppendLatest(latest[e - 1], data[e].line, n)
               ELSE latest[e - 1]
    IN  latest

ParseTranscript(data) ==
    [users |-> LatestUpTo(data, "user", MaxUserMessages)[Len(data)],
     tools |-> LatestUpTo(data, "tool", MaxToolCalls)[Len(data)]]

\* Where the window of the last look begins.
Offset == IF size > window THEN size - window ELSE 0

\* Everything up to and including the first newline is dropped unless the
\* window begins with the file.
CutPartialLine(data) ==
    IF Offset = 0 THEN data ELSE SubSeq(data, SelectInSeq(data, IsNewline) + 1, Len(data))

\* Slip: one message is enough.
SlipEnough(result) == result.users # <<>> \/ Offset = 0 \/ window >= MaxTail

\* Slip: nothing stops a window at its maximum.
SlipNoCap(result) == Len(result.users) >= MaxUserMessages \/ Offset = 0

\* loadRecentTranscript returns.
Enough(result) == Len(result.users) >= MaxUserMessages \/ Offset = 0 \/ window >= MaxTail

\* readTail's Open, Stat and Seek; any of them may fail.
StatTail ==
    /\ pc = "stat"
    /\ \/ size' = Len(file) /\ pc' = "read"
       \/ pc' = "failed" /\ UNCHANGED size
    /\ UNCHANGED <<host, window, found, atRead>>

\* Slip: the growing window is not capped.
SlipGrow(w) == w * GrowthFactor

Grow(w) == IF w * GrowthFactor < MaxTail THEN w * GrowthFactor ELSE MaxTail

\* The rest of readTail, parseTranscript, and the loop's condition.  What was
\* added since the look is not read.  A file cut within the window yields what
\* is left of it; one that now ends before the window is an error (io.EOF).
ReadTail ==
    /\ pc = "read"
    /\ LET seen == SubSeq(file, 1, IF size < Len(file) THEN size ELSE Len(file))
           data == SubSeq(seen, Offset + 1, Len(seen))
           result == ParseTranscript(CutPartialLine(data))
       IN  /\ size > Offset => data # <<>>
           /\ found' = result
           /\ atRead' = seen
           /\ IF Enough(result) THEN pc' = "done" /\ UNCHANGED window
                                ELSE pc' = "stat" /\ window' = Grow(window)
    /\ UNCHANGED <<host, size>>

\* A read error, that of a file which ends before the window included: the
\* prompt goes without a transcript.
ReadFails ==
    /\ pc = "read"
    /\ pc' = "failed"
    /\ UNCHANGED <<host, window, size, found, atRead>>

-----------------------------------------------------------------------------

Load == StatTail \/ ReadFails \/ ReadTail

Next == Load \/ HostAppends \/ HostFinishesLine \/ HostShrinks

Spec == Init /\ [][Next]_vars

\* The reader is scheduled; the host may or may not write.
FairSpec == Spec /\ WF_vars(Load)

-----------------------------------------------------------------------------

\* Every variable stays within its type.
TypeOK ==
    /\ file \in Seq(Cell)
    /\ added \in 0..MaxLines
    /\ shrinks \in 0..MaxShrinks
    /\ pc \in {"stat", "read", "done", "failed"}
    /\ window \in 1..MaxTail
    /\ size \in Nat
    /\ found \in [users : Seq(Line), tools : Seq(Line)]
    /\ Len(found.users) <= MaxUserMessages
    /\ Len(found.tools) <= MaxToolCalls
    /\ atRead \in Seq(Cell)

\* The lines of a kind up to each cell of data.
LinesUpTo(data, kind) ==
    LET lines[e \in 0..Len(data)] ==
          IF e = 0 THEN <<>>
          ELSE IF EndsLine(data, e) /\ data[e].line.kind = kind
               THEN Append(lines[e - 1], data[e].line)
               ELSE lines[e - 1]
    IN  lines

\* The lines a reader of the whole file would have found.
Known(kind) == LinesUpTo(atRead, kind)[Len(atRead)]

Latest(lines, n) == SubSeq(lines, IF Len(lines) > n THEN Len(lines) - n + 1 ELSE 1, Len(lines))

\* However the window cuts the first line, and whatever the host adds to the
\* file or cuts from it between the look at its size and the read, the messages
\* and tool calls found are the latest ones there were, in order and without a
\* gap (readTail, parseTranscript).
LatestWithoutGap ==
    pc = "done" =>
        /\ IsSuffix(found.users, Known("user"))
        /\ IsSuffix(found.tools, Known("tool"))

\* The position of a line's first cell when the file was last read.
StartOf(line) == SelectInSeq(atRead, LAMBDA c : c.line = line)

\* A user message that should be among the latest ones is missing only if it
\* starts at or before the beginning of the largest window: no growth of the
\* window stops early (loadRecentTranscript).
MissesOnlyTheFar ==
    pc = "done" =>
        LET wanted == Latest(Known("user"), MaxUserMessages) IN
        \A i \in 1..Len(wanted) - Len(found.users) :
            StartOf(wanted[i]) <= size - MaxTail + 1

\* A look that does not end the load is followed by one at a larger window:
\* no load looks twice at the same, and LoadEnds rests on it
\* (loadRecentTranscript).
WindowGrows == [][pc = "read" /\ pc' = "stat" => window' > window]_vars

\* The load ends, however fast the file grows: the window has a largest size
\* (loadRecentTranscript).
LoadEnds == <>(pc \in {"done", "failed"})

=============================================================================
