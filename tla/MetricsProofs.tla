---------------------------- MODULE MetricsProofs ----------------------------
(***************************************************************************)
(* Proofs about MetricsLog, for any number of writers and any sizes.       *)
(***************************************************************************)
EXTENDS MetricsLog, TLAPS

\* What a step needs besides its type: an inode a writer would create is unused
\* before it creates it, and an entry is stored only by a writer that is over.
FreshInodes ==
    \A w \in Writers : pc[w] \in {"stat", "rename", "open"} =>
        /\ w \notin {cur, prev, rfd}
        /\ \A v \in Writers : fd[v] # w
FreshEntries ==
    \A w \in Writers : (\E i \in Inodes : w \in content[i]) \/ w \in seen[1] \union seen[2]
                       => pc[w] = "over"
OpenFiles ==
    /\ \A w \in Writers : pc[w] = "append" => fd[w] \in Inodes
    /\ rpc[1] = "read" => rfd \in Inodes
Places == ({"open", "read", "failed"} \X (1..2)) \union {<<"over", 2>>}

BaseInv == TypeOK /\ FreshInodes /\ FreshEntries /\ OpenFiles

LEMMA BaseStep == BaseInv /\ [Next]_vars => BaseInv'
<1> SUFFICES ASSUME BaseInv, [Next]_vars PROVE BaseInv'
  OBVIOUS
<1> USE MetricsAssumption
<1> USE DEF BaseInv, TypeOK, FreshInodes, FreshEntries, OpenFiles, Goto, files, report,
            Inodes, Entries
<1>1. ASSUME NEW w \in Writers, StatSize(w) PROVE BaseInv'
  BY <1>1 DEF StatSize
<1>2. ASSUME NEW w \in Writers, Rotate(w) PROVE BaseInv'
  <2>1. moved' \in [Writers -> 0..2]
    BY <1>2 DEF Rotate
  <2>2. /\ {cur', prev'} \subseteq {cur, prev, None}
        /\ pc' = [pc EXCEPT ![w] = "open"] /\ pc[w] = "rename"
        /\ disturbed' \in BOOLEAN
        /\ UNCHANGED <<content, torn, fd, rpc, rfd, seen, before, atStart, culprit>>
    BY <1>2 DEF Rotate
  <2>3. TypeOK'
    BY <2>1, <2>2
  <2>4. FreshInodes' /\ FreshEntries' /\ OpenFiles'
    BY <2>2
  <2> QED
    BY <2>3, <2>4
<1>3. ASSUME NEW w \in Writers, Open(w) PROVE BaseInv'
  BY <1>3 DEF Open
<1>4. ASSUME NEW w \in Writers, Append(w) PROVE BaseInv'
  BY <1>4 DEF Append
<1>5. ASSUME NEW w \in Writers, Crash(w) PROVE BaseInv'
  BY <1>5 DEF Crash
<1>6. ASSUME NEW n \in 1..2, OpenFile(n) PROVE BaseInv'
  <2>1. rfd' \in {prev, cur}
    BY <1>6 DEF OpenFile, ReadOrder
  <2>2. rpc' \in Places /\ (rpc'[1] = "read" => rfd' # None)
    BY <1>6 DEF OpenFile, After, Places
  <2>3. atStart' \subseteq Entries /\ disturbed' \in BOOLEAN
    <3>1. Stored \subseteq Entries
      BY DEF Stored
    <3> QED
      BY <1>6, <3>1 DEF OpenFile
  <2> QED
    BY <1>6, <2>1, <2>2, <2>3 DEF OpenFile, Places
<1>7. ASSUME NEW n \in 1..2, ReadFile(n) PROVE BaseInv'
  BY <1>7 DEF ReadFile
<1>8. ASSUME NEW n \in 1..2, FailReport(n) PROVE BaseInv'
  BY <1>8 DEF FailReport
<1>9. CASE UNCHANGED vars
  BY <1>9 DEF vars
<1> QED
  BY <1>1, <1>2, <1>3, <1>4, <1>5, <1>6, <1>7, <1>8, <1>9 DEF Next

LEMMA BaseCorrect == Spec => []BaseInv
<1>1. Init => BaseInv
  <2> SUFFICES ASSUME Init PROVE BaseInv
    OBVIOUS
  <2>1. \A i \in Inodes : content[i] \in {OldEntries, OlderEntries, {}}
    BY DEF Init
  <2>2. content \in [Inodes -> SUBSET Entries]
    BY <2>1 DEF Init, Entries
  <2>3. FreshInodes /\ FreshEntries /\ OpenFiles
    BY <2>1, MetricsAssumption DEF Init, FreshInodes, FreshEntries, OpenFiles, Inodes
  <2>4. TypeOK
    <3>1. seen \in [1..2 -> SUBSET Entries] /\ rpc \in Places
      BY DEF Init, Places
    <3>2. moved \in [Writers -> 0..2]
      BY DEF Init
    <3> QED
      BY <2>2, <3>1, <3>2 DEF Init, TypeOK, Inodes, Places
  <2> QED
    BY <2>3, <2>4 DEF BaseInv
<1> QED
  BY <1>1, BaseStep, PTL DEF Spec

\* Every variable of MetricsLog keeps its type.
THEOREM MetricsTypeCorrect == Spec => []TypeOK
<1>1. BaseInv => TypeOK
  BY DEF BaseInv
<1> QED
  BY <1>1, BaseCorrect, PTL

-----------------------------------------------------------------------------
\* An inode that was seen at <path>.1 is not at <path> again, and no entry is in
\* two inodes.
Apart == \A i, j \in Inodes : i # j => content[i] \intersect content[j] = {}
NamesDiffer == cur # None => cur # prev
Reading ==
    /\ rpc = <<"open", 1>> => seen[1] = {}
    /\ rpc # <<"over", 2>> => seen[2] = {}
    /\ rpc = <<"read", 1>> => seen[1] = {} /\ rfd # cur
    /\ rpc = <<"open", 2>> /\ rfd = None => seen[1] = {}
    /\ rpc = <<"open", 2>> /\ rfd # None => rfd # cur /\ seen[1] \subseteq content[rfd]
    /\ rpc = <<"read", 2>> => seen[1] \intersect content[rfd] = {}

ReadInv == Apart /\ NamesDiffer /\ Reading /\ CountsAtMostOnce

LEMMA ReadStep == BaseInv /\ ReadInv /\ [Next]_vars => ReadInv'
<1> SUFFICES ASSUME BaseInv, ReadInv, [Next]_vars PROVE ReadInv'
  OBVIOUS
<1> USE MetricsAssumption
<1> USE DEF BaseInv, TypeOK, FreshInodes, FreshEntries, OpenFiles, ReadInv, Apart,
            NamesDiffer, Reading, CountsAtMostOnce, Goto, files, report
<1>1. ASSUME NEW w \in Writers, StatSize(w) PROVE ReadInv'
  BY <1>1 DEF StatSize
<1>2. ASSUME NEW w \in Writers, Rotate(w) PROVE ReadInv'
  <2>1. cur' \in {cur, None} /\ (cur' = cur => prev' = prev)
        /\ UNCHANGED <<content, rpc, rfd, seen>>
    BY <1>2 DEF Rotate
  <2> QED
    BY <2>1
<1>3. ASSUME NEW w \in Writers, Open(w) PROVE ReadInv'
  <2>1. cur' \in {cur, w} /\ w \notin {prev, rfd} /\ UNCHANGED <<prev, content, rpc, rfd, seen>>
    BY <1>3 DEF Open
  <2> QED
    BY <2>1 DEF Inodes
<1>4. ASSUME NEW w \in Writers, Append(w) PROVE ReadInv'
  <2>1. /\ fd[w] \in Inodes /\ UNCHANGED <<cur, prev, rpc, rfd, seen>>
        /\ content' \in {content, [content EXCEPT ![fd[w]] = @ \union {w}]}
    BY <1>4 DEF Append
  <2>2. w \notin seen[1] /\ \A i \in Inodes : w \notin content[i]
    BY <1>4 DEF Append
  <2>3. Apart'
    BY <2>1, <2>2
  <2>4. \A i \in Inodes : content[i] \subseteq content'[i] /\ content'[i] \subseteq content[i] \union {w}
    BY <2>1
  <2>5. Reading'
    BY <2>1, <2>2, <2>4
  <2> QED
    BY <2>1, <2>3, <2>5
<1>5. ASSUME NEW w \in Writers, Crash(w) PROVE ReadInv'
  BY <1>5 DEF Crash
<1>6. ASSUME NEW n \in 1..2, OpenFile(n) PROVE ReadInv'
  <2>1. CASE n = 1
    BY <1>6, <2>1 DEF OpenFile, ReadOrder, After
  <2>2. CASE n = 2
    <3>1. rfd' = cur /\ (rpc' = <<"over", 2>> \/ (rpc' = <<"read", 2>> /\ cur # None))
      BY <1>6, <2>2 DEF OpenFile, ReadOrder, After
    <3>2. cur # None => seen[1] \intersect content[cur] = {}
      BY <1>6, <2>2 DEF OpenFile
    <3> QED
      BY <1>6, <2>2, <3>1, <3>2 DEF OpenFile
  <2> QED
    BY <2>1, <2>2
<1>7. ASSUME NEW n \in 1..2, ReadFile(n) PROVE ReadInv'
  <2>1. CASE n = 1
    BY <1>7, <2>1 DEF ReadFile
  <2>2. CASE n = 2
    BY <1>7, <2>2 DEF ReadFile
  <2> QED
    BY <2>1, <2>2
<1>8. ASSUME NEW n \in 1..2, FailReport(n) PROVE ReadInv'
  BY <1>8 DEF FailReport
<1>9. CASE UNCHANGED vars
  BY <1>9 DEF vars
<1> QED
  BY <1>1, <1>2, <1>3, <1>4, <1>5, <1>6, <1>7, <1>8, <1>9 DEF Next

\* No entry is counted twice, however rotations overlap the report.
THEOREM CountedOnce == Spec => []CountsAtMostOnce
<1>1. Init => ReadInv
  <2> SUFFICES ASSUME Init PROVE ReadInv
    OBVIOUS
  <2>1. Apart
    BY MetricsAssumption DEF Init, Apart
  <2>2. NamesDiffer /\ Reading /\ CountsAtMostOnce
    BY MetricsAssumption DEF Init, NamesDiffer, Reading, CountsAtMostOnce, Inodes
  <2> QED
    BY <2>1, <2>2 DEF ReadInv
<1>2. ReadInv => CountsAtMostOnce
  BY DEF ReadInv
<1> QED
  BY <1>1, <1>2, ReadStep, BaseCorrect, PTL DEF Spec

-----------------------------------------------------------------------------
\* Where an open file is after no rotation, and after one.
FollowsRotation ==
    \A w \in Writers : pc[w] = "append" =>
        /\ moved[w] = 0 => fd[w] = cur
        /\ moved[w] = 1 => fd[w] = prev

LEMMA FollowStep == BaseInv /\ FollowsRotation /\ [Next]_vars => FollowsRotation'
<1> SUFFICES ASSUME BaseInv, FollowsRotation, [Next]_vars PROVE FollowsRotation'
  OBVIOUS
<1> USE MetricsAssumption
<1> USE DEF BaseInv, TypeOK, OpenFiles, FollowsRotation, Goto, files, report, Inodes
<1>1. ASSUME NEW w \in Writers, StatSize(w) PROVE FollowsRotation'
  BY <1>1 DEF StatSize
<1>2. ASSUME NEW w \in Writers, Rotate(w) PROVE FollowsRotation'
  <2>1. CASE UNCHANGED <<cur, prev, moved>>
    BY <1>2, <2>1 DEF Rotate
  <2>2. CASE /\ cur # None /\ cur' = None /\ prev' = cur
             /\ moved' = [v \in Writers |-> IF moved[v] < 2 THEN moved[v] + 1 ELSE 2]
    <3>1. ASSUME NEW v \in Writers, pc'[v] = "append" PROVE /\ moved'[v] # 0
                                                             /\ moved'[v] = 1 => moved[v] = 0
      BY <2>2
    <3>2. \A v \in Writers : pc'[v] = "append" => pc[v] = "append" /\ fd'[v] = fd[v]
      BY <1>2 DEF Rotate
    <3> QED
      BY <2>2, <3>1, <3>2
  <2> QED
    BY <1>2, <2>1, <2>2 DEF Rotate
<1>3. ASSUME NEW w \in Writers, Open(w) PROVE FollowsRotation'
  BY <1>3 DEF Open
<1>4. ASSUME NEW w \in Writers, Append(w) PROVE FollowsRotation'
  BY <1>4 DEF Append
<1>5. ASSUME NEW w \in Writers, Crash(w) PROVE FollowsRotation'
  BY <1>5 DEF Crash
<1>6. ASSUME NEW n \in 1..2, OpenFile(n) PROVE FollowsRotation'
  BY <1>6 DEF OpenFile
<1>7. ASSUME NEW n \in 1..2, ReadFile(n) PROVE FollowsRotation'
  BY <1>7 DEF ReadFile
<1>8. ASSUME NEW n \in 1..2, FailReport(n) PROVE FollowsRotation'
  BY <1>8 DEF FailReport
<1>9. CASE UNCHANGED vars
  BY <1>9 DEF vars
<1> QED
  BY <1>1, <1>2, <1>3, <1>4, <1>5, <1>6, <1>7, <1>8, <1>9 DEF Next

\* An entry lands out of the report's reach only after two rotations.
THEOREM LostWritesNeedTwo == Spec => LostWriteNeedsTwoRotations
<1>1. Init => FollowsRotation
  BY DEF Init, FollowsRotation
<1>2. BaseInv /\ FollowsRotation /\ [Next]_vars =>
         [\A w \in Writers : Append(w) /\ moved[w] < 2 => fd[w] \in {cur, prev}]_vars
  <2> SUFFICES ASSUME BaseInv, FollowsRotation, NEW w \in Writers, Append(w), moved[w] < 2
               PROVE  fd[w] \in {cur, prev}
    OBVIOUS
  <2>1. moved[w] \in {0, 1}
    BY DEF BaseInv, TypeOK
  <2> QED
    BY <2>1 DEF FollowsRotation, Append
<1> QED
  BY <1>1, <1>2, FollowStep, BaseCorrect, PTL DEF Spec, LostWriteNeedsTwoRotations

-----------------------------------------------------------------------------
\* A writer cuts at most one line, in one inode, and what that piece swallows is
\* not there any more to swallow another line.
CutInv ==
    /\ \A i \in Inodes : torn[i] # None =>
          /\ pc[torn[i]] = "over"
          /\ \A w \in Writers : culprit[w] # torn[i]
          /\ \A j \in Inodes : torn[j] = torn[i] => j = i
    /\ \A w \in Writers : culprit[w] # None => pc[culprit[w]] = "over" /\ pc[w] = "over"
    /\ CutWriteCostsOne

LEMMA CutStep == BaseInv /\ CutInv /\ [Next]_vars => CutInv'
<1> SUFFICES ASSUME BaseInv, CutInv, [Next]_vars PROVE CutInv'
  OBVIOUS
<1> USE MetricsAssumption
<1> USE DEF BaseInv, TypeOK, OpenFiles, CutInv, CutWriteCostsOne, Goto, files, report
<1>1. ASSUME NEW w \in Writers, StatSize(w) PROVE CutInv'
  BY <1>1 DEF StatSize
<1>2. ASSUME NEW w \in Writers, Rotate(w) PROVE CutInv'
  BY <1>2 DEF Rotate
<1>3. ASSUME NEW w \in Writers, Open(w) PROVE CutInv'
  BY <1>3 DEF Open
<1>4. ASSUME NEW w \in Writers, Append(w) PROVE CutInv'
  <2>1. /\ fd[w] \in Inodes /\ pc[w] = "append" /\ pc' = [pc EXCEPT ![w] = "over"]
        /\ w # None /\ w \in Inodes
    BY <1>4 DEF Append, Inodes
  <2>2. CASE UNCHANGED <<torn, culprit>>
    BY <2>1, <2>2
  <2>3. CASE /\ torn[fd[w]] # None
             /\ culprit' = [culprit EXCEPT ![w] = torn[fd[w]]]
             /\ torn' = [torn EXCEPT ![fd[w]] = None]
    <3>1. torn[fd[w]] \in Writers
      BY <2>1, <2>3
    <3> QED
      BY <2>1, <2>3, <3>1
  <2>4. CASE torn' = [torn EXCEPT ![fd[w]] = w] /\ UNCHANGED culprit
    BY <2>1, <2>4
  <2> QED
    BY <1>4, <2>2, <2>3, <2>4 DEF Append
<1>5. ASSUME NEW w \in Writers, Crash(w) PROVE CutInv'
  BY <1>5 DEF Crash
<1>6. ASSUME NEW n \in 1..2, OpenFile(n) PROVE CutInv'
  BY <1>6 DEF OpenFile
<1>7. ASSUME NEW n \in 1..2, ReadFile(n) PROVE CutInv'
  BY <1>7 DEF ReadFile
<1>8. ASSUME NEW n \in 1..2, FailReport(n) PROVE CutInv'
  BY <1>8 DEF FailReport
<1>9. CASE UNCHANGED vars
  BY <1>9 DEF vars
<1> QED
  BY <1>1, <1>2, <1>3, <1>4, <1>5, <1>6, <1>7, <1>8, <1>9 DEF Next

\* A cut write swallows at most one other entry.
THEOREM CutCostsOne == Spec => []CutWriteCostsOne
<1>1. Init => CutInv
  BY DEF Init, CutInv, CutWriteCostsOne
<1>2. CutInv => CutWriteCostsOne
  BY DEF CutInv
<1> QED
  BY <1>1, <1>2, CutStep, BaseCorrect, PTL DEF Spec

-----------------------------------------------------------------------------
\* Until the first rotation, a report has seen, or has yet to read, everything
\* that was there when it began.
HeldBy(i) == IF i = None THEN {} ELSE content[i]
CompleteInv ==
    ~disturbed =>
        /\ rpc = <<"read", 1>> =>
              rfd # None /\ rfd = prev /\ atStart \subseteq content[rfd] \union HeldBy(cur)
        /\ rpc = <<"open", 2>> => atStart \subseteq seen[1] \union HeldBy(cur)
        /\ rpc = <<"read", 2>> => rfd # None /\ atStart \subseteq seen[1] \union content[rfd]
        /\ rpc = <<"over", 2>> => atStart \subseteq seen[1] \union seen[2]

LEMMA CompleteStep == BaseInv /\ CompleteInv /\ [Next]_vars => CompleteInv'
<1> SUFFICES ASSUME BaseInv, CompleteInv, [Next]_vars PROVE CompleteInv'
  OBVIOUS
<1> USE MetricsAssumption
<1> USE DEF BaseInv, TypeOK, OpenFiles, FreshInodes, CompleteInv, HeldBy, Goto, files, report
<1>1. ASSUME NEW w \in Writers, StatSize(w) PROVE CompleteInv'
  BY <1>1 DEF StatSize
<1>2. ASSUME NEW w \in Writers, Rotate(w) PROVE CompleteInv'
  BY <1>2 DEF Rotate
<1>3. ASSUME NEW w \in Writers, Open(w) PROVE CompleteInv'
  BY <1>3 DEF Open
<1>4. ASSUME NEW w \in Writers, Append(w) PROVE CompleteInv'
  <2>1. /\ fd[w] \in Inodes
        /\ content' \in {content, [content EXCEPT ![fd[w]] = @ \union {w}]}
        /\ UNCHANGED <<cur, prev, rpc, rfd, seen, atStart, disturbed>>
    BY <1>4 DEF Append
  <2>2. \A i \in Inodes : content[i] \subseteq content'[i]
    BY <2>1
  <2> QED
    BY <2>1, <2>2
<1>5. ASSUME NEW w \in Writers, Crash(w) PROVE CompleteInv'
  BY <1>5 DEF Crash
<1>6. ASSUME NEW n \in 1..2, OpenFile(n) PROVE CompleteInv'
  <2>1. CASE n = 1
    <3>1. Stored = HeldBy(prev) \union HeldBy(cur)
      BY DEF Stored
    <3>2. rfd' = prev /\ atStart' = Stored /\ rpc' \in {<<"read", 1>>, <<"open", 2>>}
          /\ (rpc' = <<"read", 1>> <=> prev # None) /\ UNCHANGED <<cur, prev, content, seen>>
      BY <1>6, <2>1 DEF OpenFile, ReadOrder, After
    <3> QED
      BY <3>1, <3>2
  <2>2. CASE n = 2
    BY <1>6, <2>2 DEF OpenFile, ReadOrder, After
  <2> QED
    BY <2>1, <2>2
<1>7. ASSUME NEW n \in 1..2, ReadFile(n) PROVE CompleteInv'
  <2>1. CASE n = 1
    BY <1>7, <2>1 DEF ReadFile
  <2>2. CASE n = 2
    BY <1>7, <2>2 DEF ReadFile
  <2> QED
    BY <2>1, <2>2
<1>8. ASSUME NEW n \in 1..2, FailReport(n) PROVE CompleteInv'
  BY <1>8 DEF FailReport
<1>9. CASE UNCHANGED vars
  BY <1>9 DEF vars
<1> QED
  BY <1>1, <1>2, <1>3, <1>4, <1>5, <1>6, <1>7, <1>8, <1>9 DEF Next

\* A report that no rotation overlaps counts every entry that was there when it
\* began.
THEOREM CompleteReport == Spec => []CompleteUnlessDisturbed
<1>1. Init => CompleteInv
  BY DEF Init, CompleteInv
<1>2. CompleteInv => CompleteUnlessDisturbed
  BY DEF CompleteInv, CompleteUnlessDisturbed
<1> QED
  BY <1>1, <1>2, CompleteStep, BaseCorrect, PTL DEF Spec

=============================================================================
