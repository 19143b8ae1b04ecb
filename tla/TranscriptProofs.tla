-------------------------- MODULE TranscriptProofs --------------------------
(***************************************************************************)
(* Proofs about Transcript, for lines of any size, any windows and any     *)
(* number of lines written and cuts made during the load.                  *)
(***************************************************************************)
EXTENDS Transcript, SequenceLemmas

\* A line's first cell follows a newline, unless the file begins with it.
Sound(data) == \A i \in 2..Len(data) : data[i].at = 1 => data[i - 1].at = 0

\* What the reader finds about a window's first line rests on this.
FileInv == file \in Seq(Cell) /\ Sound(file)

-----------------------------------------------------------------------------
\* A line in cells.
LEMMA BodyIs ==
    ASSUME NEW l \in Line
    PROVE  /\ Size[l.kind] \in Nat \ {0} /\ Len(Body(l)) = Size[l.kind]
           /\ Body(l) \in Seq(Cell)
           /\ \A i \in 1..Size[l.kind] : Body(l)[i].line = l /\ Body(l)[i].at = i
<1>1. Size[l.kind] \in Nat \ {0}
  BY TranscriptAssumption DEF Line
<1>2. \A i \in 1..Size[l.kind] : [line |-> l, at |-> i] \in Cell
  BY <1>1 DEF Cell
<1> QED
  BY <1>1, <1>2 DEF Body

LEMMA NewlineIs ==
    ASSUME NEW l \in Line
    PROVE  Newline(l) \in Seq(Cell) /\ Len(Newline(l)) = 1 /\ Newline(l)[1].at = 0
  BY DEF Newline, Cell

\* A file whose last line is finished is sound with more cells, if those are:
\* the first of them may begin a line.  One whose last line is not finished is
\* sound with more cells of which none begins a line.
LEMMA SoundConcat ==
    ASSUME NEW s \in Seq(Cell), Sound(s), NEW t \in Seq(Cell), Sound(t),
           \/ s = <<>>
           \/ IsNewline(Last(s))
           \/ t # <<>> => t[1].at # 1
    PROVE  s \o t \in Seq(Cell) /\ Sound(s \o t)
<1>1. /\ s \o t \in Seq(Cell) /\ Len(s \o t) = Len(s) + Len(t)
      /\ \A i \in 1..Len(s) + Len(t) :
            (s \o t)[i] = IF i <= Len(s) THEN s[i] ELSE t[i - Len(s)]
      /\ Len(s) \in Nat /\ Len(t) \in Nat
  BY ConcatProperties
<1>2. ASSUME NEW i \in 2..Len(s \o t), (s \o t)[i].at = 1
      PROVE  (s \o t)[i - 1].at = 0
  <2>1. i \in 1..Len(s) + Len(t) /\ i - 1 \in 1..Len(s) + Len(t)
    BY <1>1
  <2>2. CASE i <= Len(s)
    <3>1. (s \o t)[i] = s[i] /\ (s \o t)[i - 1] = s[i - 1] /\ i \in 2..Len(s)
      BY <1>1, <2>1, <2>2
    <3> QED
      BY <1>2, <3>1 DEF Sound
  <2>3. CASE i = Len(s) + 1
    <3>1. /\ (s \o t)[i] = t[1] /\ (s \o t)[i - 1] = s[Len(s)]
          /\ s # <<>> /\ t # <<>>
      BY <1>1, <2>1, <2>3
    <3> QED
      BY <1>2, <3>1 DEF Last, IsNewline
  <2>4. CASE i > Len(s) + 1
    <3>1. /\ (s \o t)[i] = t[i - Len(s)] /\ (s \o t)[i - 1] = t[i - Len(s) - 1]
          /\ i - Len(s) \in 2..Len(t)
      BY <1>1, <2>1, <2>4
    <3> QED
      BY <1>2, <3>1 DEF Sound
  <2> QED
    BY <1>1, <2>2, <2>3, <2>4
<1> QED
  BY <1>1, <1>2 DEF Sound

\* A part of a sound file is sound.
LEMMA SoundPart ==
    ASSUME NEW s \in Seq(Cell), Sound(s), NEW m \in 1..Len(s) + 1, NEW n \in m - 1..Len(s)
    PROVE  /\ SubSeq(s, m, n) \in Seq(Cell) /\ Sound(SubSeq(s, m, n))
           /\ Len(SubSeq(s, m, n)) = n - m + 1
           /\ \A i \in 1..n - m + 1 : SubSeq(s, m, n)[i] = s[m + i - 1]
<1> DEFINE t == SubSeq(s, m, n)
<1>1. /\ t \in Seq(Cell) /\ Len(t) = n - m + 1
      /\ \A i \in 1..n - m + 1 : t[i] = s[m + i - 1]
  OBVIOUS
<1> HIDE DEF t
<1>2. ASSUME NEW i \in 2..Len(t), t[i].at = 1
      PROVE  t[i - 1].at = 0
  <2>1. i \in 1..n - m + 1 /\ i - 1 \in 1..n - m + 1 /\ m + i - 1 \in 2..Len(s)
    BY <1>1
  <2>2. t[i] = s[m + i - 1] /\ t[i - 1] = s[m + i - 1 - 1]
    BY <1>1, <2>1
  <2> QED
    BY <1>2, <2>1, <2>2 DEF Sound
<1> QED
  BY <1>1, <1>2 DEF Sound, t

\* The beginning of a line is sound, and so is the whole of it.
LEMMA SoundLine ==
    ASSUME NEW l \in Line
    PROVE  /\ Sound(Body(l))
           /\ Body(l) \o Newline(l) \in Seq(Cell) /\ Sound(Body(l) \o Newline(l))
           /\ Last(Body(l) \o Newline(l)).at = 0 /\ Body(l) \o Newline(l) # <<>>
<1>1. Sound(Body(l))
  BY BodyIs DEF Sound
<1>2. Sound(Newline(l)) /\ Newline(l)[1].at # 1
  BY NewlineIs DEF Sound
<1>3. Body(l) \o Newline(l) \in Seq(Cell) /\ Sound(Body(l) \o Newline(l))
  BY <1>1, <1>2, BodyIs, NewlineIs, SoundConcat
<1>4. Last(Body(l) \o Newline(l)).at = 0 /\ Body(l) \o Newline(l) # <<>>
  BY BodyIs, NewlineIs DEF Last
<1> QED
  BY <1>1, <1>3, <1>4

-----------------------------------------------------------------------------
\* The file the load begins with.

Soundly(s) == s \in Seq(Cell) /\ Sound(s) /\ (s = <<>> \/ IsNewline(Last(s)))

LEMMA SoundlyConcat ==
    ASSUME NEW s, Soundly(s), NEW l \in Line
    PROVE  Soundly(s \o (Body(l) \o Newline(l)))
<1> DEFINE t == Body(l) \o Newline(l)
<1>1. t \in Seq(Cell) /\ Sound(t) /\ Last(t).at = 0 /\ t # <<>>
  BY SoundLine
<1> HIDE DEF t
<1>2. s \o t \in Seq(Cell) /\ Sound(s \o t)
  BY <1>1, SoundConcat DEF Soundly
<1>3. /\ Len(s \o t) = Len(s) + Len(t) /\ Len(s) \in Nat /\ Len(t) \in Nat \ {0}
      /\ \A i \in 1..Len(s) + Len(t) :
            (s \o t)[i] = IF i <= Len(s) THEN s[i] ELSE t[i - Len(s)]
  BY <1>1, ConcatProperties DEF Soundly
<1>4. Last(s \o t) = Last(t)
  BY <1>3 DEF Last
<1> QED
  BY <1>1, <1>2, <1>4 DEF Soundly, IsNewline, t

LEMMA WrittenSoundly ==
    ASSUME NEW lines \in Seq(Line)
    PROVE  Soundly(Written(lines))
<1> DEFINE piece(i) == Body(lines[i]) \o Newline(lines[i])
           s(n) == [i \in 1..n |-> piece(i)]
           T == {n \in 0..Len(lines) : s(n) \in Seq(Seq(Cell)) /\ Soundly(FlattenSeq(s(n)))}
<1>1. \A i \in 1..Len(lines) : lines[i] \in Line /\ piece(i) \in Seq(Cell)
  BY SoundLine
<1>2. 0 \in T
  <2>1. s(0) = <<>> /\ 0 \in 0..Len(lines)
    OBVIOUS
  <2> HIDE DEF s
  <2>2. FlattenSeq(s(0)) = <<>>
    BY <2>1 DEF FlattenSeq
  <2>3. Soundly(<<>>) /\ <<>> \in Seq(Seq(Cell))
    BY DEF Soundly, Sound
  <2> QED
    BY <2>1, <2>2, <2>3
<1>3. ASSUME NEW n \in 0..Len(lines) - 1, n \in T
      PROVE  n + 1 \in T
  <2>1. n + 1 \in 1..Len(lines) /\ n + 1 \in 0..Len(lines)
    OBVIOUS
  <2>2. lines[n + 1] \in Line /\ piece(n + 1) \in Seq(Cell)
    BY <1>1, <2>1
  <2> HIDE DEF piece
  <2>3. s(n + 1) = Append(s(n), piece(n + 1))
    OBVIOUS
  <2> HIDE DEF s
  <2>4. s(n) \in Seq(Seq(Cell)) /\ Soundly(FlattenSeq(s(n)))
    BY <1>3
  <2>5. s(n + 1) \in Seq(Seq(Cell))
    <3>1. \A a \in Seq(Seq(Cell)), b \in Seq(Cell) : Append(a, b) \in Seq(Seq(Cell))
      OBVIOUS
    <3> QED
      BY <2>2, <2>3, <2>4, <3>1
  <2>6. FlattenSeq(s(n + 1)) = FlattenSeq(s(n)) \o piece(n + 1)
    <3>1. \A a \in Seq(Seq(Cell)), b \in Seq(Cell) : FlattenSeq(Append(a, b)) = FlattenSeq(a) \o b
      BY FlattenAppend
    <3> QED
      BY <2>2, <2>3, <2>4, <3>1
  <2>7. Soundly(FlattenSeq(s(n)) \o piece(n + 1))
    BY <2>2, <2>4, SoundlyConcat DEF piece
  <2> QED
    BY <2>1, <2>5, <2>6, <2>7
<1> HIDE DEF T
<1>4. \A n \in 0..Len(lines) : n \in T
  BY <1>2, <1>3, InductUpTo
<1>5. Len(lines) \in 0..Len(lines)
  OBVIOUS
<1> QED
  BY <1>4, <1>5 DEF T, Written

-----------------------------------------------------------------------------
\* The host keeps the file sound.

HostVars == <<pc, window, size, found, atRead>>
LEMMA AppendsOutcome ==
    ASSUME FileInv, added \in Nat, HostAppends
    PROVE  FileInv' /\ UNCHANGED HostVars
<1>1. PICK kind \in Kinds :
         LET line == [id |-> 100 + added, kind |-> kind] IN
         \/ file' = file \o Body(line) \o Newline(line)
         \/ \E n \in 1..Size[kind] : file' = file \o SubSeq(Body(line), 1, n)
  BY DEF HostAppends
<1> DEFINE line == [id |-> 100 + added, kind |-> kind]
<1>2. line \in Line /\ line.kind = kind
  BY DEF Line
<1>3. \/ file' = (file \o Body(line)) \o Newline(line)
      \/ \E n \in 1..Size[kind] : file' = file \o SubSeq(Body(line), 1, n)
  BY <1>1
<1> HIDE DEF line
<1>4. file \in Seq(Cell) /\ Sound(file) /\ (file = <<>> \/ IsNewline(Last(file)))
  BY DEF FileInv, HostAppends, Unfinished
<1>5. CASE file' = (file \o Body(line)) \o Newline(line)
  <2>1. Body(line) \in Seq(Cell) /\ Newline(line) \in Seq(Cell)
    BY <1>2, BodyIs, NewlineIs
  <2>2. file' = file \o (Body(line) \o Newline(line))
    BY <1>4, <1>5, <2>1, ConcatAssociative
  <2>3. Soundly(file')
    BY <1>2, <1>4, <2>2, SoundlyConcat DEF Soundly
  <2> QED
    <3>1. file' \in Seq(Cell) /\ Sound(file')
      BY <2>3 DEF Soundly
    <3> QED
      BY <3>1 DEF FileInv, Sound, HostAppends, HostVars
<1>6. ASSUME NEW n \in 1..Size[kind], file' = file \o SubSeq(Body(line), 1, n)
      PROVE  FileInv'
  <2>1. /\ Body(line) \in Seq(Cell) /\ Sound(Body(line))
        /\ Len(Body(line)) = Size[kind] /\ Size[kind] \in Nat
    BY <1>2, BodyIs, SoundLine
  <2>2. 1 \in 1..Len(Body(line)) + 1 /\ n \in 1 - 1..Len(Body(line))
    BY <2>1
  <2>3. SubSeq(Body(line), 1, n) \in Seq(Cell) /\ Sound(SubSeq(Body(line), 1, n))
    BY <2>1, <2>2, SoundPart
  <2>4. file' \in Seq(Cell) /\ Sound(file')
    BY <1>4, <1>6, <2>3, SoundConcat
  <2> QED
    BY <2>4 DEF FileInv, Sound
<1> QED
  BY <1>3, <1>5, <1>6 DEF HostAppends, HostVars

LEMMA FinishesOutcome ==
    ASSUME FileInv, HostFinishesLine
    PROVE  FileInv' /\ UNCHANGED HostVars
<1> DEFINE line == Last(file).line
           at == Last(file).at
           rest == SubSeq(Body(line), at + 1, Size[line.kind])
<1>1. file \in Seq(Cell) /\ Sound(file) /\ file # <<>> /\ at # 0
  BY DEF FileInv, HostFinishesLine, Unfinished, IsNewline
<1>2. Last(file) \in Cell
  BY <1>1 DEF Last
<1>3. line \in Line /\ at \in Nat
  BY <1>2 DEF Cell
<1>4. file' = (file \o rest) \o Newline(line)
  BY DEF HostFinishesLine
<1> HIDE DEF line, at
<1>5. /\ Size[line.kind] \in Nat \ {0} /\ Len(Body(line)) = Size[line.kind]
      /\ Body(line) \in Seq(Cell) /\ Sound(Body(line))
      /\ \A i \in 1..Size[line.kind] : Body(line)[i].at = i
  BY <1>3, BodyIs, SoundLine
<1>6. /\ rest \in Seq(Cell) /\ Sound(rest)
      /\ rest # <<>> => rest[1].at # 1
  <2>1. CASE at >= Size[line.kind]
    <3>1. rest = <<>>
      BY <1>3, <1>5, <2>1
    <3> HIDE DEF rest
    <3> QED
      BY <3>1 DEF Sound
  <2>2. CASE at < Size[line.kind]
    <3>1. at + 1 \in 1..Len(Body(line)) + 1 /\ Size[line.kind] \in at + 1 - 1..Len(Body(line))
      BY <1>1, <1>3, <1>5, <2>2
    <3>2. /\ rest \in Seq(Cell) /\ Sound(rest) /\ Len(rest) = Size[line.kind] - (at + 1) + 1
          /\ \A i \in 1..Size[line.kind] - (at + 1) + 1 : rest[i] = Body(line)[at + 1 + i - 1]
      BY <1>5, <3>1, SoundPart
    <3> HIDE DEF rest
    <3>3. rest[1] = Body(line)[at + 1] /\ at + 1 \in 1..Size[line.kind]
      BY <1>1, <1>3, <1>5, <2>2, <3>2
    <3>4. rest[1].at = at + 1
      BY <1>5, <3>3
    <3> QED
      BY <1>1, <1>3, <3>2, <3>4
  <2> QED
    BY <1>3, <1>5, <2>1, <2>2
<1> HIDE DEF rest
<1>7. file \o rest \in Seq(Cell) /\ Sound(file \o rest)
  BY <1>1, <1>6, SoundConcat
<1>8. Newline(line) \in Seq(Cell) /\ Sound(Newline(line)) /\ Newline(line)[1].at # 1
  BY <1>3, NewlineIs DEF Sound
<1>9. file' \in Seq(Cell) /\ Sound(file')
  BY <1>4, <1>7, <1>8, SoundConcat
<1> QED
  BY <1>9 DEF FileInv, Sound, HostFinishesLine, HostVars

LEMMA ShrinksOutcome ==
    ASSUME FileInv, HostShrinks
    PROVE  FileInv' /\ UNCHANGED HostVars
<1>1. PICK n \in 0..Len(file) - 1 : file' = SubSeq(file, 1, n)
  BY DEF HostShrinks
<1>2. file \in Seq(Cell) /\ Sound(file)
  BY DEF FileInv
<1>3. 1 \in 1..Len(file) + 1 /\ n \in 1 - 1..Len(file)
  BY <1>2
<1>4. SubSeq(file, 1, n) \in Seq(Cell) /\ Sound(SubSeq(file, 1, n))
  BY <1>2, <1>3, SoundPart
<1> QED
  BY <1>1, <1>4 DEF FileInv, Sound, HostShrinks, HostVars

-----------------------------------------------------------------------------
\* The loops over the cells of data, one cell at a time.

Counts(data, kind, e) == EndsLine(data, e) /\ data[e].line.kind = kind

LEMMA LineOf ==
    ASSUME NEW data \in Seq(Cell), NEW e \in 1..Len(data)
    PROVE  data[e] \in Cell /\ data[e].line \in Line /\ data[e].at \in Nat
<1>1. data[e] \in Cell
  OBVIOUS
<1> QED
  BY <1>1 DEF Cell

LEMMA AppendLatestIsLines ==
    ASSUME NEW values \in Seq(Line), NEW l \in Line, NEW n \in Nat \ {0}
    PROVE  /\ AppendLatest(values, l, n) \in Seq(Line)
           /\ Len(values) <= n => Len(AppendLatest(values, l, n)) <= n
<1>1. CASE Len(values) < n
  BY <1>1 DEF AppendLatest
<1>2. CASE ~(Len(values) < n)
  <2>1. values # <<>>
    BY <1>2
  <2>2. Tail(values) \in Seq(Line) /\ Len(Tail(values)) = Len(values) - 1
    BY <2>1
  <2> QED
    BY <1>2, <2>2 DEF AppendLatest
<1> QED
  BY <1>1, <1>2

LEMMA LatestSteps ==
    ASSUME NEW data \in Seq(Cell), NEW kind, NEW n \in Nat \ {0}
    PROVE  LET latest == LatestUpTo(data, kind, n) IN
           /\ latest[0] = <<>>
           /\ \A e \in 1..Len(data) :
                 latest[e] = IF Counts(data, kind, e)
                             THEN AppendLatest(latest[e - 1], data[e].line, n)
                             ELSE latest[e - 1]
           /\ \A e \in 0..Len(data) : latest[e] \in Seq(Line)
<1> DEFINE N == Len(data)
           V == Seq(Line)
           Loop(f) == f = [e \in 0..N |->
                              IF e = 0 THEN <<>>
                              ELSE IF EndsLine(data, e) /\ data[e].line.kind = kind
                                   THEN AppendLatest(f[e - 1], data[e].line, n)
                                   ELSE f[e - 1]]
           step == [e \in 1..N |-> [v \in V |->
                      IF Counts(data, kind, e) THEN AppendLatest(v, data[e].line, n) ELSE v]]
           latest == LatestUpTo(data, kind, n)
<1>1. N \in Nat /\ \A e \in 1..N : data[e].line \in Line
  BY LineOf
<1>2. step \in [1..N -> [V -> V]] /\ <<>> \in V
  BY <1>1, AppendLatestIsLines
<1>3. \A e \in 1..N, v \in V : step[e][v] =
        IF Counts(data, kind, e) THEN AppendLatest(v, data[e].line, n) ELSE v
  OBVIOUS
<1> HIDE DEF step
<1>4. PICK g \in [0..N -> V] : Runs(N, <<>>, step, g)
  <2>1. <<>> \in V /\ N \in Nat /\ step \in [1..N -> [V -> V]]
    BY <1>1, <1>2
  <2> HIDE DEF V, N
  <2> QED
    BY ONLY <2>1, LoopExists
<1>5. \A e \in 1..N : e - 1 \in 0..N
  OBVIOUS
<1>6. Loop(g)
  <2>1. ASSUME NEW e \in 0..N
        PROVE  g[e] = IF e = 0 THEN <<>>
                      ELSE IF EndsLine(data, e) /\ data[e].line.kind = kind
                           THEN AppendLatest(g[e - 1], data[e].line, n)
                           ELSE g[e - 1]
    <3>1. CASE e = 0
      BY <1>4, <3>1 DEF Runs
    <3>2. CASE e # 0
      <4>1. e \in 1..N /\ g[e - 1] \in V
        BY <1>1, <1>5, <3>2
      <4> QED
        BY <1>3, <1>4, <3>2, <4>1 DEF Counts, Runs
    <3> QED
      BY <3>1, <3>2
  <2> QED
    BY <2>1
<1>7. Loop(latest)
  BY <1>6 DEF LatestUpTo
<1> HIDE DEF latest
<1>8. latest[0] = <<>> /\ \A e \in 1..N :
        latest[e] = IF Counts(data, kind, e)
                    THEN AppendLatest(latest[e - 1], data[e].line, n)
                    ELSE latest[e - 1]
  <2> DEFINE h == [e \in 0..N |-> IF e = 0 THEN <<>>
                                  ELSE IF EndsLine(data, e) /\ data[e].line.kind = kind
                                       THEN AppendLatest(latest[e - 1], data[e].line, n)
                                       ELSE latest[e - 1]]
  <2>1. latest = h
    BY <1>7
  <2>2. h[0] = <<>>
    BY <1>1
  <2>3. \A e \in 1..N : h[e] = IF EndsLine(data, e) /\ data[e].line.kind = kind
                                THEN AppendLatest(latest[e - 1], data[e].line, n)
                                ELSE latest[e - 1]
    BY <1>1
  <2> HIDE DEF h
  <2>4. latest[0] = h[0] /\ \A e \in 1..N : latest[e] = h[e]
    BY <2>1
  <2> QED
    BY <2>2, <2>3, <2>4 DEF Counts
<1>9. \A e \in 0..N : latest[e] \in V
  <2>1. latest[0] \in V
    BY <1>2, <1>8
  <2>2. ASSUME NEW e \in 1..N, latest[e - 1] \in V
        PROVE  latest[e] \in V
    <3>1. AppendLatest(latest[e - 1], data[e].line, n) \in V
      BY <1>1, <2>2, AppendLatestIsLines
    <3> QED
      BY <1>8, <2>2, <3>1
  <2> HIDE DEF V
  <2> QED
    BY <1>1, <2>1, <2>2, LoopStays
<1> QED
  BY <1>8, <1>9 DEF latest

LEMMA LinesSteps ==
    ASSUME NEW data \in Seq(Cell), NEW kind
    PROVE  LET lines == LinesUpTo(data, kind) IN
           /\ lines[0] = <<>>
           /\ \A e \in 1..Len(data) :
                 lines[e] = IF Counts(data, kind, e) THEN Append(lines[e - 1], data[e].line)
                                                    ELSE lines[e - 1]
           /\ \A e \in 0..Len(data) : lines[e] \in Seq(Line)
<1> DEFINE N == Len(data)
           V == Seq(Line)
           Loop(f) == f = [e \in 0..N |->
                              IF e = 0 THEN <<>>
                              ELSE IF EndsLine(data, e) /\ data[e].line.kind = kind
                                   THEN Append(f[e - 1], data[e].line)
                                   ELSE f[e - 1]]
           step == [e \in 1..N |-> [v \in V |->
                      IF Counts(data, kind, e) THEN Append(v, data[e].line) ELSE v]]
           lines == LinesUpTo(data, kind)
<1>1. N \in Nat /\ \A e \in 1..N : data[e].line \in Line
  BY LineOf
<1>2. step \in [1..N -> [V -> V]] /\ <<>> \in V
  BY <1>1
<1>3. \A e \in 1..N, v \in V : step[e][v] =
        IF Counts(data, kind, e) THEN Append(v, data[e].line) ELSE v
  OBVIOUS
<1> HIDE DEF step
<1>4. PICK g \in [0..N -> V] : Runs(N, <<>>, step, g)
  <2>1. <<>> \in V /\ N \in Nat /\ step \in [1..N -> [V -> V]]
    BY <1>1, <1>2
  <2> HIDE DEF V, N
  <2> QED
    BY ONLY <2>1, LoopExists
<1>5. \A e \in 1..N : e - 1 \in 0..N
  OBVIOUS
<1>6. Loop(g)
  <2>1. ASSUME NEW e \in 0..N
        PROVE  g[e] = IF e = 0 THEN <<>>
                      ELSE IF EndsLine(data, e) /\ data[e].line.kind = kind
                           THEN Append(g[e - 1], data[e].line)
                           ELSE g[e - 1]
    <3>1. CASE e = 0
      BY <1>4, <3>1 DEF Runs
    <3>2. CASE e # 0
      <4>1. e \in 1..N /\ g[e - 1] \in V
        BY <1>1, <1>5, <3>2
      <4> QED
        BY <1>3, <1>4, <3>2, <4>1 DEF Counts, Runs
    <3> QED
      BY <3>1, <3>2
  <2> QED
    BY <2>1
<1>7. Loop(lines)
  BY <1>6 DEF LinesUpTo
<1> HIDE DEF lines
<1>8. lines[0] = <<>> /\ \A e \in 1..N :
        lines[e] = IF Counts(data, kind, e) THEN Append(lines[e - 1], data[e].line)
                                           ELSE lines[e - 1]
  <2> DEFINE h == [e \in 0..N |-> IF e = 0 THEN <<>>
                                  ELSE IF EndsLine(data, e) /\ data[e].line.kind = kind
                                       THEN Append(lines[e - 1], data[e].line)
                                       ELSE lines[e - 1]]
  <2>1. lines = h
    BY <1>7
  <2>2. h[0] = <<>>
    BY <1>1
  <2>3. \A e \in 1..N : h[e] = IF EndsLine(data, e) /\ data[e].line.kind = kind
                                THEN Append(lines[e - 1], data[e].line)
                                ELSE lines[e - 1]
    BY <1>1
  <2> HIDE DEF h
  <2>4. lines[0] = h[0] /\ \A e \in 1..N : lines[e] = h[e]
    BY <2>1
  <2> QED
    BY <2>2, <2>3, <2>4 DEF Counts
<1>9. \A e \in 0..N : lines[e] \in V
  <2>1. lines[0] \in V
    BY <1>2, <1>8
  <2>2. ASSUME NEW e \in 1..N, lines[e - 1] \in V
        PROVE  lines[e] \in V
    <3>1. Append(lines[e - 1], data[e].line) \in V
      BY <1>1, <2>2
    <3> QED
      BY <1>8, <2>2, <3>1
  <2> HIDE DEF V
  <2> QED
    BY <1>1, <2>1, <2>2, LoopStays
<1> QED
  BY <1>8, <1>9 DEF lines

-----------------------------------------------------------------------------
\* appendLatest over all values keeps the latest.

LEMMA LatestIs ==
    ASSUME NEW s \in Seq(Line), NEW n \in Nat \ {0}
    PROVE  /\ Latest(s, n) \in Seq(Line)
           /\ Len(Latest(s, n)) = IF Len(s) > n THEN n ELSE Len(s)
           /\ \A i \in 1..Len(Latest(s, n)) :
                 Latest(s, n)[i] = s[Len(s) - Len(Latest(s, n)) + i]
<1>1. CASE Len(s) > n
  <2>1. Latest(s, n) = SubSeq(s, Len(s) - n + 1, Len(s))
    BY <1>1 DEF Latest
  <2>2. Len(s) - n + 1 \in 1..Len(s) /\ Len(s) \in Nat
    BY <1>1
  <2>3. /\ SubSeq(s, Len(s) - n + 1, Len(s)) \in Seq(Line)
        /\ Len(SubSeq(s, Len(s) - n + 1, Len(s))) = n
        /\ \A i \in 1..n : SubSeq(s, Len(s) - n + 1, Len(s))[i] = s[Len(s) - n + i]
    BY <2>2
  <2> QED
    BY <1>1, <2>1, <2>3
<1>2. CASE ~(Len(s) > n)
  <2>1. Latest(s, n) = s
    BY <1>2 DEF Latest
  <2> QED
    BY <1>2, <2>1
<1> QED
  BY <1>1, <1>2

LEMMA LatestAppended ==
    ASSUME NEW s \in Seq(Line), NEW l \in Line, NEW n \in Nat \ {0}
    PROVE  AppendLatest(Latest(s, n), l, n) = Latest(Append(s, l), n)
<1> DEFINE t == Latest(s, n)
           a == AppendLatest(t, l, n)
           u == Append(s, l)
           b == Latest(u, n)
           m == Len(s)
<1>1. /\ t \in Seq(Line) /\ Len(t) = IF m > n THEN n ELSE m
      /\ \A i \in 1..Len(t) : t[i] = s[m - Len(t) + i]
      /\ m \in Nat
  BY LatestIs
<1>2. /\ u \in Seq(Line) /\ Len(u) = m + 1
      /\ \A i \in 1..m : u[i] = s[i]
      /\ u[m + 1] = l
  OBVIOUS
<1> HIDE DEF u
<1>3. /\ b \in Seq(Line) /\ Len(b) = IF m + 1 > n THEN n ELSE m + 1
      /\ \A i \in 1..Len(b) : b[i] = u[m + 1 - Len(b) + i]
  BY <1>2, LatestIs
<1> HIDE DEF t, b
<1>4. CASE Len(t) < n
  <2>1. a = Append(t, l) /\ Len(t) = m /\ Len(b) = m + 1
    BY <1>1, <1>3, <1>4 DEF AppendLatest
  <2>2. \A i \in 1..m + 1 : i \in 1..m \/ i = m + 1
    BY <1>1
  <2>3. ASSUME NEW i \in 1..m + 1
        PROVE  a[i] = b[i]
    <3>1. b[i] = u[i]
      <4>1. i \in 1..Len(b) /\ m + 1 - Len(b) + i = i
        BY <1>1, <2>1
      <4> QED
        BY <1>3, <4>1
    <3>2. i \in 1..m => t[i] = s[i] /\ a[i] = t[i] /\ u[i] = s[i]
      BY <1>1, <1>2, <2>1
    <3>3. a[m + 1] = l
      BY <1>1, <2>1
    <3> QED
      BY <1>2, <2>2, <3>1, <3>2, <3>3
  <2>4. a \in Seq(Line) /\ Len(a) = m + 1
    BY <1>1, <2>1
  <2> HIDE DEF a
  <2> QED
    BY <1>3, <2>1, <2>3, <2>4, SeqEqual DEF t, a, b, u
<1>5. CASE ~(Len(t) < n)
  <2>1. /\ a = Append(Tail(t), l) /\ Len(t) = n /\ Len(b) = n /\ m >= n
        /\ n - 1 \in Nat
    BY <1>1, <1>3, <1>5 DEF AppendLatest
  <2>2. t # <<>>
    BY <1>1, <2>1
  <2>3. /\ Tail(t) \in Seq(Line) /\ Len(Tail(t)) = n - 1
        /\ \A i \in 1..n - 1 : Tail(t)[i] = t[i + 1]
    BY <1>1, <2>1, <2>2
  <2>4. /\ a \in Seq(Line) /\ Len(a) = n /\ a[n] = l
        /\ \A i \in 1..n - 1 : a[i] = t[i + 1]
    BY <2>1, <2>3
  <2> HIDE DEF a
  <2>5. ASSUME NEW i \in 1..n
        PROVE  a[i] = b[i]
    <3>1. b[i] = u[m + 1 - n + i]
      BY <1>3, <2>1
    <3>2. CASE i = n
      <4>1. m + 1 - n + i = m + 1
        BY <1>1, <3>2
      <4> QED
        BY <1>2, <2>4, <3>1, <3>2, <4>1
    <3>3. CASE i # n
      <4>1. i \in 1..n - 1 /\ i + 1 \in 1..n /\ m + 1 - n + i \in 1..m
        BY <1>1, <2>1, <3>3
      <4>2. t[i + 1] = s[m - n + (i + 1)] /\ m - n + (i + 1) = m + 1 - n + i
        <5>1. i + 1 \in 1..Len(t) /\ Len(t) = n
          BY <2>1, <4>1
        <5>2. t[i + 1] = s[m - Len(t) + (i + 1)]
          BY <1>1, <5>1
        <5> QED
          BY <1>1, <5>1, <5>2
      <4> QED
        BY <1>2, <2>4, <3>1, <4>1, <4>2
    <3> QED
      BY <3>2, <3>3
  <2> QED
    BY <1>3, <2>1, <2>4, <2>5, SeqEqual DEF t, a, b, u
<1> QED
  BY <1>4, <1>5

\* After each cell, the list that appendLatest keeps by dropping its first
\* element is the latest n of all lines of that kind so far (parseTranscript,
\* appendLatest).
LEMMA LatestOfLines ==
    ASSUME NEW data \in Seq(Cell), NEW kind, NEW n \in Nat \ {0}
    PROVE  \A e \in 0..Len(data) :
              LatestUpTo(data, kind, n)[e] = Latest(LinesUpTo(data, kind)[e], n)
<1> DEFINE N == Len(data)
           latest == LatestUpTo(data, kind, n)
           lines == LinesUpTo(data, kind)
           T == {e \in 0..N : latest[e] = Latest(lines[e], n)}
<1>1. N \in Nat /\ \A e \in 1..N : data[e].line \in Line
  BY LineOf
<1>2. /\ latest[0] = <<>>
      /\ \A e \in 1..N : latest[e] = IF Counts(data, kind, e)
                                      THEN AppendLatest(latest[e - 1], data[e].line, n)
                                      ELSE latest[e - 1]
  BY LatestSteps
<1>3. /\ lines[0] = <<>>
      /\ \A e \in 1..N : lines[e] = IF Counts(data, kind, e)
                                     THEN Append(lines[e - 1], data[e].line)
                                     ELSE lines[e - 1]
  BY LinesSteps
<1>4. \A e \in 0..N : lines[e] \in Seq(Line)
  BY LinesSteps
<1> HIDE DEF latest, lines
<1>5. 0 \in T
  <2>1. Latest(<<>>, n) = <<>>
    BY DEF Latest
  <2> QED
    BY <1>1, <1>2, <1>3, <2>1
<1>6. ASSUME NEW e \in 0..N - 1, e \in T
      PROVE  e + 1 \in T
  <2>1. e + 1 \in 1..N /\ e + 1 - 1 = e /\ e + 1 \in 0..N /\ e \in 0..N
    BY <1>1
  <2>2. latest[e] = Latest(lines[e], n) /\ lines[e] \in Seq(Line) /\ data[e + 1].line \in Line
    BY <1>1, <1>6, <1>4, <2>1
  <2>3. AppendLatest(Latest(lines[e], n), data[e + 1].line, n)
          = Latest(Append(lines[e], data[e + 1].line), n)
    BY <2>2, LatestAppended
  <2>4. CASE Counts(data, kind, e + 1)
    <3>1. latest[e + 1] = AppendLatest(latest[e + 1 - 1], data[e + 1].line, n)
      BY <1>2, <2>1, <2>4
    <3>2. lines[e + 1] = Append(lines[e + 1 - 1], data[e + 1].line)
      <4>1. ASSUME NEW x \in 1..N, Counts(data, kind, x)
            PROVE  lines[x] = Append(lines[x - 1], data[x].line)
        BY <1>3, <4>1
      <4> QED
        BY ONLY <2>1, <2>4, <4>1
    <3>3. latest[e + 1] = Latest(lines[e + 1], n)
      BY <2>1, <2>2, <2>3, <3>1, <3>2
    <3> QED
      BY <2>1, <3>3
  <2>5. CASE ~Counts(data, kind, e + 1)
    <3>1. latest[e + 1] = latest[e] /\ lines[e + 1] = lines[e]
      BY <1>2, <1>3, <2>1, <2>5
    <3> QED
      BY <2>1, <2>2, <3>1
  <2> QED
    BY <2>4, <2>5
<1> HIDE DEF T
<1>7. \A e \in 0..N : e \in T
  BY <1>1, <1>5, <1>6, InductUpTo
<1> QED
  BY <1>7 DEF T, latest, lines

-----------------------------------------------------------------------------
\* Where lines end.

StartAt(data, e) == e - Size[data[e].line.kind] + 1

LEMMA EndsLineIs ==
    ASSUME NEW data \in Seq(Cell), NEW e \in 1..Len(data), EndsLine(data, e)
    PROVE  /\ StartAt(data, e) \in 1..e
           /\ StartAt(data, e) = 1 \/ data[StartAt(data, e) - 1].at = 0
           /\ \A i \in StartAt(data, e)..e :
                 data[i].line = data[e].line /\ data[i].at = i - StartAt(data, e) + 1
<1> DEFINE line == data[e].line
           start == StartAt(data, e)
           k == Size[line.kind]
<1>1. line \in Line /\ e \in Nat
  BY LineOf
<1>2. /\ k \in Nat \ {0} /\ Len(Body(line)) = k
      /\ \A i \in 1..k : Body(line)[i].line = line /\ Body(line)[i].at = i
  BY <1>1, BodyIs
<1>3. start = e - k + 1
  BY DEF StartAt
<1>4. /\ start >= 1 /\ SubSeq(data, start, e) = Body(line)
      /\ start = 1 \/ data[start - 1].at = 0
  BY DEF EndsLine, IsNewline, StartAt
<1> HIDE DEF line, start, k
<1>5. start \in 1..e /\ e \in 1..Len(data)
  BY <1>1, <1>2, <1>3, <1>4
<1>6. \A j \in 1..k : SubSeq(data, start, e)[j] = data[start + j - 1]
  BY <1>1, <1>2, <1>3, <1>5
<1>7. ASSUME NEW i \in start..e
      PROVE  data[i].line = line /\ data[i].at = i - start + 1
  <2>1. i - start + 1 \in 1..k /\ start + (i - start + 1) - 1 = i
    BY <1>2, <1>3, <1>5
  <2>2. data[i] = Body(line)[i - start + 1]
    BY <1>4, <1>6, <2>1
  <2> QED
    BY <1>2, <2>1, <2>2
<1> QED
  BY <1>4, <1>5, <1>7 DEF line, start

\* The other way round.
LEMMA EndsLineIf ==
    ASSUME NEW data \in Seq(Cell), NEW e \in 1..Len(data),
           NEW start \in 1..e, start = StartAt(data, e),
           data[e].at = Size[data[e].line.kind],
           start = 1 \/ data[start - 1].at = 0,
           \A i \in start..e : data[i].line = data[e].line /\ data[i].at = i - start + 1,
           e = Len(data) \/ data[e + 1].at = 0
    PROVE  EndsLine(data, e)
<1> DEFINE line == data[e].line
           k == Size[line.kind]
           part == SubSeq(data, start, e)
<1>1. line \in Line /\ e \in Nat
  BY LineOf
<1>2. /\ k \in Nat \ {0} /\ Len(Body(line)) = k /\ Body(line) \in Seq(Cell)
      /\ \A i \in 1..k : Body(line)[i].line = line /\ Body(line)[i].at = i
  BY <1>1, BodyIs
<1>3. start = e - k + 1
  BY DEF StartAt
<1> HIDE DEF line, k
<1>5. start \in 1..e /\ e \in 1..Len(data) /\ Len(data) \in Nat /\ e - start + 1 = k
  BY <1>1, <1>2, <1>3
<1>6. /\ part \in Seq(Cell) /\ Len(part) = e - start + 1
      /\ \A j \in 1..e - start + 1 : part[j] = data[start + j - 1]
  BY <1>5
<1> HIDE DEF part
<1>7. ASSUME NEW j \in 1..k
      PROVE  part[j] = Body(line)[j]
  <2>1. start + j - 1 \in start..e /\ (start + j - 1) - start + 1 = j
    BY <1>1, <1>2, <1>5
  <2>2. part[j] = data[start + j - 1]
    BY <1>5, <1>6
  <2>3. data[start + j - 1].line = line /\ data[start + j - 1].at = j
    BY <2>1 DEF line
  <2>4. part[j] \in Cell /\ Body(line)[j] \in Cell
    BY <1>2, <1>5, <1>6
  <2>5. /\ part[j] = [line |-> part[j].line, at |-> part[j].at]
        /\ Body(line)[j] = [line |-> Body(line)[j].line, at |-> Body(line)[j].at]
    BY <2>4 DEF Cell
  <2> QED
    BY <1>2, <2>2, <2>3, <2>5
<1>8. part = Body(line)
  BY <1>2, <1>5, <1>6, <1>7, SeqEqual
<1> QED
  BY <1>8 DEF EndsLine, IsNewline, StartAt, line, part

\* d is what is left of data without its first k cells.
Rest(data, k, d) ==
    /\ d \in Seq(Cell) /\ k \in 0..Len(data) /\ Len(d) = Len(data) - k
    /\ \A i \in 1..Len(d) : d[i] = data[k + i]

\* From a newline on, the same lines end.
LEMMA EndsShifted ==
    ASSUME NEW data \in Seq(Cell), NEW k, NEW d, Rest(data, k, d),
           k = 0 \/ data[k].at = 0, NEW e \in 1..Len(d), NEW p, p = k + e
    PROVE  EndsLine(d, e) <=> EndsLine(data, p)
<1> DEFINE n == Size[d[e].line.kind]
<1>1. /\ d \in Seq(Cell) /\ k \in Nat /\ Len(data) \in Nat /\ Len(data) = k + Len(d)
      /\ Len(d) \in Nat /\ e \in Nat /\ p \in Nat /\ p = k + e /\ p \in 1..Len(data)
  BY DEF Rest
<1>2. /\ d[e] = data[p]
      /\ \A i \in 1..Len(d) : d[i] = data[k + i]
  BY DEF Rest
<1>3. n \in Nat \ {0} /\ n = Size[data[p].line.kind]
  BY <1>1, <1>2, LineOf, BodyIs
<1>4. StartAt(d, e) = e - n + 1 /\ StartAt(data, p) = p - n + 1
  BY <1>3 DEF StartAt
<1> HIDE DEF n
<1>0. k \in Nat /\ e \in Nat /\ p = k + e /\ n \in Nat \ {0}
  BY <1>1, <1>3
<1>5. e = Len(d) <=> p = Len(data)
  BY ONLY <1>1
<1>6. e # Len(d) => d[e + 1] = data[p + 1]
  <2>1. SUFFICES ASSUME e # Len(d) PROVE d[e + 1] = data[p + 1]
    OBVIOUS
  <2>2. e + 1 \in 1..Len(d) /\ p + 1 = k + (e + 1)
    BY <1>1, <2>1
  <2> QED
    BY <1>2, <2>2
<1>7. ASSUME EndsLine(d, e)
      PROVE  EndsLine(data, p)
  <2> DEFINE start == StartAt(d, e)
             first == k + start
  <2>1. /\ start \in 1..e /\ (start = 1 \/ d[start - 1].at = 0)
        /\ \A i \in start..e : d[i].line = d[e].line /\ d[i].at = i - start + 1
    BY <1>1, <1>7, EndsLineIs
  <2>2. d[e].at = n /\ (e = Len(d) \/ d[e + 1].at = 0)
    BY <1>7 DEF EndsLine, IsNewline, n
  <2>3. start = e - n + 1
    BY <1>4
  <2> HIDE DEF start
  <2>4. first \in 1..p /\ first = StartAt(data, p)
    <3>1. start \in 1..e
      BY <2>1
    <3> QED
      BY <1>0, <1>4, <2>3, <3>1
  <2>5. first = 1 \/ data[first - 1].at = 0
    <3>1. CASE start = 1
      BY <1>1, <3>1
    <3>2. CASE start # 1
      <4>1. start - 1 \in 1..Len(d) /\ k + (start - 1) = first - 1
        BY <1>1, <2>1, <3>2
      <4>2. d[start - 1] = data[first - 1]
        BY <1>2, <4>1
      <4> QED
        BY <2>1, <3>2, <4>2
    <3> QED
      BY <3>1, <3>2
  <2>6. ASSUME NEW i \in first..p
        PROVE  data[i].line = data[p].line /\ data[i].at = i - first + 1
    <3>1. /\ i - k \in start..e /\ i - k \in 1..Len(d) /\ k + (i - k) = i
          /\ i - k - start + 1 = i - first + 1
      <4>1. /\ start \in Nat /\ start >= 1 /\ i \in Nat /\ i >= first /\ i <= p
            /\ e <= Len(d) /\ Len(d) \in Nat
        BY <1>1, <2>1
      <4>2. i - k >= start /\ i - k <= e /\ k + (i - k) = i
        BY <1>0, <4>1
      <4> QED
        BY <1>0, <4>1, <4>2
    <3>2. d[i - k] = data[i]
      BY <1>2, <3>1
    <3> QED
      BY <1>2, <2>1, <3>1, <3>2
  <2>7. data[p].at = Size[data[p].line.kind]
    BY <1>2, <1>3, <2>2
  <2>8. p = Len(data) \/ data[p + 1].at = 0
    BY <1>5, <1>6, <2>2
  <2> HIDE DEF first
  <2> QED
    BY <1>1, <2>4, <2>5, <2>6, <2>7, <2>8, EndsLineIf
<1>8. ASSUME EndsLine(data, p)
      PROVE  EndsLine(d, e)
  <2> DEFINE start == StartAt(data, p)
             first == start - k
  <2>1. /\ start \in 1..p /\ (start = 1 \/ data[start - 1].at = 0)
        /\ \A i \in start..p : data[i].line = data[p].line /\ data[i].at = i - start + 1
    BY <1>1, <1>8, EndsLineIs
  <2>2. data[p].at = n /\ (p = Len(data) \/ data[p + 1].at = 0)
    BY <1>3, <1>8 DEF EndsLine, IsNewline
  <2>3. start = p - n + 1
    BY <1>4
  <2> HIDE DEF start
  <2>4. start > k
    <3>1. SUFFICES ASSUME start <= k PROVE FALSE
      BY <1>1, <2>1
    <3>2. k \in start..p /\ k # 0
      BY <1>1, <2>1, <3>1
    <3>3. data[k].at = k - start + 1
      BY <2>1, <3>2
    <3> QED
      BY <1>1, <2>1, <3>1, <3>2, <3>3
  <2>5. first \in 1..e /\ first = StartAt(d, e)
    <3>1. start \in 1..p
      BY <2>1
    <3> QED
      BY <1>0, <1>4, <2>3, <2>4, <3>1
  <2>6. first = 1 \/ d[first - 1].at = 0
    <3>1. SUFFICES ASSUME first # 1 PROVE d[first - 1].at = 0
      OBVIOUS
    <3>2. first - 1 \in 1..Len(d) /\ k + (first - 1) = start - 1 /\ start # 1
      BY <1>1, <2>1, <2>5, <3>1
    <3>3. d[first - 1] = data[start - 1]
      BY <1>2, <3>2
    <3> QED
      BY <2>1, <3>2, <3>3
  <2>7. ASSUME NEW i \in first..e
        PROVE  d[i].line = d[e].line /\ d[i].at = i - first + 1
    <3>1. /\ k + i \in start..p /\ i \in 1..Len(d)
          /\ k + i - start + 1 = i - first + 1
      BY <1>1, <2>1, <2>5
    <3> DEFINE j == k + i
    <3>2. d[i] = data[j]
      BY <1>2, <3>1
    <3>3. j \in start..p /\ j - start + 1 = i - first + 1
      <4>1. start \in Nat /\ i \in Nat
        BY <1>1, <2>1, <3>1
      <4> QED
        BY <1>0, <3>1, <4>1
    <3> HIDE DEF j
    <3> QED
      BY <1>2, <2>1, <3>2, <3>3
  <2>8. d[e].at = Size[d[e].line.kind]
    BY <1>2, <2>2 DEF n
  <2>9. e = Len(d) \/ d[e + 1].at = 0
    BY <1>5, <1>6, <2>2
  <2> HIDE DEF first
  <2> QED
    BY <1>1, <2>5, <2>6, <2>7, <2>8, <2>9, EndsLineIf
<1> QED
  BY <1>7, <1>8

\* The lines of the whole are those up to the cell k and those of d.
SameLines(data, k, d, kind) ==
    LinesUpTo(data, kind)[Len(data)] = LinesUpTo(data, kind)[k] \o LinesUpTo(d, kind)[Len(d)]

LEMMA LinesShifted ==
    ASSUME NEW data \in Seq(Cell), NEW k, NEW d, Rest(data, k, d),
           k = 0 \/ data[k].at = 0, NEW kind
    PROVE  SameLines(data, k, d, kind)
<1> DEFINE all == LinesUpTo(data, kind)
           mine == LinesUpTo(d, kind)
           T == {e \in 0..Len(d) : all[k + e] = all[k] \o mine[e]}
<1>1. /\ d \in Seq(Cell) /\ k \in 0..Len(data) /\ Len(data) = k + Len(d)
      /\ Len(d) \in Nat /\ Len(data) \in Nat
  BY DEF Rest
<1>2. \A i \in 1..Len(d) : d[i] = data[k + i]
  BY DEF Rest
<1>3. /\ \A e \in 1..Len(data) :
            all[e] = IF Counts(data, kind, e) THEN Append(all[e - 1], data[e].line)
                                              ELSE all[e - 1]
      /\ \A e \in 0..Len(data) : all[e] \in Seq(Line)
  BY LinesSteps
<1>4. /\ mine[0] = <<>>
      /\ \A e \in 1..Len(d) :
            mine[e] = IF Counts(d, kind, e) THEN Append(mine[e - 1], d[e].line)
                                            ELSE mine[e - 1]
      /\ \A e \in 0..Len(d) : mine[e] \in Seq(Line)
  BY <1>1, LinesSteps
<1> HIDE DEF all, mine
<1>5. 0 \in T
  <2>1. all[k] \in Seq(Line) /\ k + 0 = k /\ 0 \in 0..Len(d)
    BY <1>1, <1>3
  <2>2. all[k] \o mine[0] = all[k]
    BY <1>4, <2>1, ConcatEmptySeq
  <2>3. all[k + 0] = all[k] \o mine[0]
    BY ONLY <2>1, <2>2
  <2> QED
    BY ONLY <2>1, <2>3
<1>6. ASSUME NEW e \in 0..Len(d) - 1, e \in T
      PROVE  e + 1 \in T
  <2> DEFINE x == e + 1
             p == k + (e + 1)
  <2>1. x \in 1..Len(d) /\ x \in 0..Len(d) /\ p \in 1..Len(data) /\ p = k + x
    BY <1>1
  <2>2. x - 1 = e /\ p - 1 = k + e /\ e \in 0..Len(d)
    BY <1>1
  <2> HIDE DEF x, p
  <2>3. /\ all[p - 1] = all[k] \o mine[x - 1]
        /\ all[k] \in Seq(Line) /\ mine[x - 1] \in Seq(Line)
    <3>1. all[k + e] = all[k] \o mine[e]
      BY <1>6
    <3>2. all[k] \in Seq(Line) /\ mine[e] \in Seq(Line)
      BY <1>1, <1>3, <1>4, <2>2
    <3> QED
      BY ONLY <2>2, <3>1, <3>2
  <2>4. d[x] = data[p] /\ d[x].line \in Line
    <3>1. d[x] = data[k + x]
      BY <1>2, <2>1
    <3> QED
      BY <1>1, <2>1, <3>1, LineOf
  <2>5. Counts(d, kind, x) <=> Counts(data, kind, p)
    BY <2>1, <2>4, EndsShifted DEF Counts
  <2>6. all[p] = IF Counts(data, kind, p) THEN Append(all[p - 1], data[p].line)
                                          ELSE all[p - 1]
    BY <1>3, <2>1
  <2>7. mine[x] = IF Counts(d, kind, x) THEN Append(mine[x - 1], d[x].line)
                                        ELSE mine[x - 1]
    BY <1>4, <2>1
  <2>8. Append(all[k] \o mine[x - 1], d[x].line) = all[k] \o Append(mine[x - 1], d[x].line)
    <3> DEFINE a == all[k]
               b == mine[x - 1]
               l == d[x].line
    <3>1. a \in Seq(Line) /\ b \in Seq(Line) /\ l \in Line
      BY <2>3, <2>4
    <3> HIDE DEF a, b, l
    <3>2. Append(a \o b, l) = a \o Append(b, l)
      <4>1. <<l>> \in Seq(Line) /\ a \o b \in Seq(Line)
        BY <3>1, ConcatProperties
      <4>2. Append(a \o b, l) = (a \o b) \o <<l>> /\ Append(b, l) = b \o <<l>>
        BY <3>1, <4>1, AppendIsConcat
      <4> QED
        BY <3>1, <4>1, <4>2, ConcatAssociative
    <3> QED
      BY <3>2 DEF a, b, l
  <2>9. all[p] = all[k] \o mine[x]
    <3>1. CASE Counts(d, kind, x)
      <4>1. all[p] = Append(all[k] \o mine[x - 1], d[x].line)
        BY <2>3, <2>4, <2>5, <2>6, <3>1
      <4>2. mine[x] = Append(mine[x - 1], d[x].line)
        BY <2>7, <3>1
      <4> QED
        BY ONLY <2>8, <4>1, <4>2
    <3>2. CASE ~Counts(d, kind, x)
      <4>1. all[p] = all[k] \o mine[x - 1]
        BY <2>3, <2>5, <2>6, <3>2
      <4>2. mine[x] = mine[x - 1]
        BY <2>7, <3>2
      <4> QED
        BY ONLY <4>1, <4>2
    <3> QED
      BY <3>1, <3>2
  <2>10. all[k + x] = all[k] \o mine[x]
    BY ONLY <2>1, <2>9
  <2>11. x \in T
    BY <2>1, <2>10
  <2> QED
    BY <2>11 DEF x
<1> HIDE DEF T
<1>7. \A e \in 0..Len(d) : e \in T
  BY <1>1, <1>5, <1>6, InductUpTo
<1>8. Len(d) \in T /\ k + Len(d) = Len(data)
  BY <1>1, <1>7
<1> QED
  BY <1>8 DEF T, all, mine, SameLines

\* Every line of the result ends somewhere.
LEMMA LinesOccur ==
    ASSUME NEW data \in Seq(Cell), NEW kind
    PROVE  \A e \in 0..Len(data) : \A j \in 1..Len(LinesUpTo(data, kind)[e]) :
              \E p \in 1..e : EndsLine(data, p) /\ LinesUpTo(data, kind)[e][j] = data[p].line
<1> DEFINE lines == LinesUpTo(data, kind)
           T == {e \in 0..Len(data) : \A j \in 1..Len(lines[e]) :
                    \E p \in 1..e : EndsLine(data, p) /\ lines[e][j] = data[p].line}
<1>1. Len(data) \in Nat /\ \A e \in 1..Len(data) : data[e].line \in Line
  BY LineOf
<1>2. /\ lines[0] = <<>>
      /\ \A e \in 1..Len(data) : Counts(data, kind, e) => lines[e] = Append(lines[e - 1], data[e].line)
      /\ \A e \in 1..Len(data) : ~Counts(data, kind, e) => lines[e] = lines[e - 1]
      /\ \A e \in 0..Len(data) : lines[e] \in Seq(Line)
  BY LinesSteps
<1> HIDE DEF lines
<1>3. 0 \in T
  <2>1. 1..Len(lines[0]) = {} /\ 0 \in 0..Len(data)
    BY <1>1, <1>2
  <2> QED
    BY <2>1
<1>4. ASSUME NEW e \in 0..Len(data) - 1, e \in T
      PROVE  e + 1 \in T
  <2>1. /\ e + 1 \in 1..Len(data) /\ e + 1 - 1 = e /\ e + 1 \in 0..Len(data) /\ e \in 0..Len(data)
        /\ e + 1 \in 1..e + 1 /\ \A p \in 1..e : p \in 1..e + 1
    BY <1>1
  <2>2. /\ lines[e] \in Seq(Line) /\ data[e + 1].line \in Line
        /\ \A j \in 1..Len(lines[e]) :
              \E p \in 1..e : EndsLine(data, p) /\ lines[e][j] = data[p].line
    BY <1>1, <1>2, <1>4, <2>1
  <2>3. ASSUME NEW j \in 1..Len(lines[e + 1])
        PROVE  \E p \in 1..e + 1 : EndsLine(data, p) /\ lines[e + 1][j] = data[p].line
    <3>1. CASE Counts(data, kind, e + 1)
      <4>1. lines[e + 1] = Append(lines[e + 1 - 1], data[e + 1].line)
        BY <1>2, <2>1, <3>1
      <4>2. lines[e + 1] = Append(lines[e], data[e + 1].line)
        BY <2>1, <4>1
      <4>3. CASE j \in 1..Len(lines[e])
        <5>1. lines[e + 1][j] = lines[e][j]
          BY <2>2, <4>2, <4>3
        <5> QED
          BY <2>1, <2>2, <4>3, <5>1
      <4>4. CASE j \notin 1..Len(lines[e])
        <5>1. lines[e + 1][j] = data[e + 1].line
          BY <2>2, <4>2, <4>4
        <5> QED
          BY <2>1, <3>1, <5>1 DEF Counts
      <4> QED
        BY <4>3, <4>4
    <3>2. CASE ~Counts(data, kind, e + 1)
      <4>1. lines[e + 1] = lines[e + 1 - 1]
        BY <1>2, <2>1, <3>2
      <4>2. lines[e + 1] = lines[e]
        BY <2>1, <4>1
      <4> QED
        BY <2>1, <2>2, <4>2
    <3> QED
      BY <3>1, <3>2
  <2> QED
    BY <2>1, <2>3
<1> HIDE DEF T
<1>5. \A e \in 0..Len(data) : e \in T
  BY <1>1, <1>3, <1>4, InductUpTo
<1> QED
  BY <1>5 DEF T, lines

-----------------------------------------------------------------------------
\* What a window shows of a file.

LEMMA FirstNewline ==
    ASSUME NEW data \in Seq(Cell)
    PROVE  /\ SelectInSeq(data, IsNewline) \in 0..Len(data)
           /\ SelectInSeq(data, IsNewline) # 0 =>
                 data[SelectInSeq(data, IsNewline)].at = 0
           /\ \A i \in 1..Len(data) : data[i].at = 0 =>
                 SelectInSeq(data, IsNewline) \in 1..i
<1> DEFINE n == Len(data)
           I == {i \in 1..n : data[i].at = 0}
           first == SelectInSeq(data, IsNewline)
<1>1. n \in Nat
  OBVIOUS
<1>2. first = IF I # {} THEN Min(I) ELSE 0
  BY DEF SelectInSeq, IsNewline
<1>3. I # {} => Min(I) \in I /\ \A i \in I : Min(I) <= i
  BY <1>1, MinPosition
<1>4. first \in 0..n /\ (first # 0 => data[first].at = 0)
  BY <1>1, <1>2, <1>3
<1>5. ASSUME NEW i \in 1..n, data[i].at = 0
      PROVE  first \in 1..i
  <2>1. i \in I
    BY <1>5
  <2>2. first \in I /\ first <= i
    BY <1>2, <1>3, <2>1
  <2> QED
    BY <1>1, <2>2
<1> QED
  BY <1>4, <1>5

\* The first cell of a line.
FirstCell(data, line) == SelectInSeq(data, LAMBDA c : c.line = line)

LEMMA FirstCellIs ==
    ASSUME NEW data \in Seq(Cell), NEW line, NEW p \in 1..Len(data), data[p].line = line
    PROVE  FirstCell(data, line) \in Nat /\ FirstCell(data, line) <= p
<1> DEFINE n == Len(data)
           I == {i \in 1..n : data[i].line = line}
<1>1. n \in Nat
  OBVIOUS
<1>2. FirstCell(data, line) = IF I # {} THEN Min(I) ELSE 0
  BY DEF SelectInSeq, FirstCell
<1>3. p \in I
  OBVIOUS
<1>4. Min(I) \in I /\ Min(I) <= p
  BY <1>1, <1>3, MinPosition
<1> QED
  BY <1>1, <1>2, <1>3, <1>4

\* What a line that ends before any newline after the window's beginning
\* shows: it starts at the window's first cell or before.
LEMMA StartsBefore ==
    ASSUME NEW seen \in Seq(Cell), NEW off \in Nat, NEW p \in 1..Len(seen), EndsLine(seen, p),
           \A i \in off + 1..p - 1 : seen[i].at # 0
    PROVE  StartAt(seen, p) <= off + 1
<1> DEFINE start == StartAt(seen, p)
<1>1. start \in 1..p /\ (start = 1 \/ seen[start - 1].at = 0) /\ p \in Nat
  BY EndsLineIs
<1> HIDE DEF start
<1>2. SUFFICES ASSUME start > off + 1 PROVE FALSE
  BY <1>1 DEF start
<1>3. start - 1 \in off + 1..p - 1 /\ start # 1
  BY <1>1, <1>2
<1> QED
  BY <1>1, <1>3

\* No line ends in cells that begin within one and hold no newline.
LEMMA NoLineWithin ==
    ASSUME NEW d \in Seq(Cell), d # <<>> => d[1].at # 1, \A i \in 1..Len(d) : d[i].at # 0,
           NEW kind
    PROVE  LinesUpTo(d, kind)[Len(d)] = <<>>
<1> DEFINE lines == LinesUpTo(d, kind)[Len(d)]
<1>1. lines \in Seq(Line) /\ Len(d) \in Nat /\ Len(d) \in 0..Len(d)
  BY LinesSteps
<1>2. \A j \in 1..Len(lines) : \E p \in 1..Len(d) : EndsLine(d, p)
  BY <1>1, LinesOccur
<1> HIDE DEF lines
<1>3. SUFFICES ASSUME NEW p \in 1..Len(d), EndsLine(d, p) PROVE FALSE
  <2>1. SUFFICES ASSUME Len(lines) # 0 PROVE FALSE
    BY <1>1 DEF lines
  <2>2. 1 \in 1..Len(lines)
    BY <1>1, <2>1
  <2> QED
    BY <1>2, <1>3, <2>2
<1> DEFINE start == StartAt(d, p)
<1>4. /\ start \in 1..p /\ (start = 1 \/ d[start - 1].at = 0) /\ p \in Nat
      /\ \A i \in start..p : d[i].at = i - start + 1
  BY <1>3, EndsLineIs
<1> HIDE DEF start
<1>5. start = 1
  <2>1. SUFFICES ASSUME start # 1 PROVE FALSE
    OBVIOUS
  <2>2. start - 1 \in 1..Len(d)
    BY <1>1, <1>4, <2>1
  <2> QED
    BY <1>4, <2>1, <2>2
<1>6. d[1].at = 1 /\ d # <<>>
  BY <1>1, <1>4, <1>5
<1> QED
  BY <1>6

\* What the window cuts off is whole lines but for the first, which starts at
\* the window's beginning or before.
Split(seen, off, d, e) ==
    /\ d \in Seq(Cell) /\ e \in 0..Len(seen)
    /\ off = 0 => e = 0
    /\ \A kind \in Kinds : SameLines(seen, e, d, kind)
    /\ \A p \in 1..e : EndsLine(seen, p) => StartAt(seen, p) <= off + 1

\* Where the first newline was dropped, or the window begins after one.
LEMMA SplitAtNewline ==
    ASSUME NEW seen \in Seq(Cell), NEW off \in Nat, NEW k, NEW d, Rest(seen, k, d),
           k = 0 \/ seen[k].at = 0, off = 0 => k = 0, \A i \in off + 1..k - 1 : seen[i].at # 0
    PROVE  Split(seen, off, d, k)
<1>1. d \in Seq(Cell) /\ k \in 0..Len(seen) /\ Len(seen) \in Nat
  BY DEF Rest
<1>2. ASSUME NEW p \in 1..k, EndsLine(seen, p)
      PROVE  StartAt(seen, p) <= off + 1
  <2>1. p \in 1..Len(seen) /\ \A i \in off + 1..p - 1 : i \in off + 1..k - 1
    BY <1>1
  <2> QED
    BY <1>2, <2>1, StartsBefore
<1>3. ASSUME NEW kind \in Kinds
      PROVE  SameLines(seen, k, d, kind)
  BY LinesShifted
<1> QED
  BY <1>1, <1>2, <1>3 DEF Split

\* Where all of the window lies within one line.
LEMMA SplitWithinLine ==
    ASSUME NEW seen \in Seq(Cell), Sound(seen), NEW off \in Nat \ {0}, NEW d, Rest(seen, off, d),
           seen[off].at # 0, \A i \in 1..Len(d) : d[i].at # 0
    PROVE  Split(seen, off, d, Len(seen))
<1>1. /\ d \in Seq(Cell) /\ off \in 0..Len(seen) /\ Len(seen) \in Nat /\ Len(d) \in Nat
      /\ Len(seen) = off + Len(d)
  BY DEF Rest
<1>2. \A i \in 1..Len(d) : d[i] = seen[off + i]
  BY DEF Rest
<1>3. d # <<>> => d[1].at # 1
  <2>1. SUFFICES ASSUME d # <<>> PROVE d[1].at # 1
    OBVIOUS
  <2>2. 1 \in 1..Len(d) /\ off + 1 \in 2..Len(seen) /\ off + 1 - 1 = off
    BY <1>1, <2>1
  <2>3. d[1] = seen[off + 1]
    BY <1>2, <2>2
  <2> QED
    BY <2>2, <2>3 DEF Sound
<1>4. \A i \in off + 1..Len(seen) : seen[i].at # 0
  <2>1. ASSUME NEW i \in off + 1..Len(seen)
        PROVE  seen[i].at # 0
    <3> DEFINE j == i - off
    <3>1. j \in 1..Len(d) /\ off + j = i
      BY <1>1
    <3> HIDE DEF j
    <3>2. d[j] = seen[i]
      BY <1>2, <3>1
    <3> QED
      BY <3>1, <3>2
  <2> QED
    BY <2>1
<1>5. ASSUME NEW p \in 1..Len(seen), EndsLine(seen, p)
      PROVE  StartAt(seen, p) <= off + 1
  <2>1. \A i \in off + 1..p - 1 : i \in off + 1..Len(seen)
    BY <1>1
  <2> QED
    BY <1>4, <1>5, <2>1, StartsBefore
<1>6. ASSUME NEW kind \in Kinds
      PROVE  SameLines(seen, Len(seen), d, kind)
  <2>1. LinesUpTo(d, kind)[Len(d)] = <<>>
    BY <1>1, <1>3, NoLineWithin
  <2>2. LinesUpTo(seen, kind)[Len(seen)] \in Seq(Line)
    <3>1. Len(seen) \in 0..Len(seen)
      BY <1>1
    <3> QED
      BY <3>1, LinesSteps
  <2> QED
    BY <2>1, <2>2, ConcatEmptySeq DEF SameLines
<1>7. Len(seen) \in 0..Len(seen) /\ off # 0
  BY <1>1
<1> QED
  BY <1>1, <1>5, <1>6, <1>7 DEF Split

LEMMA WindowSplits ==
    ASSUME NEW seen \in Seq(Cell), Sound(seen), Offset \in Nat, Offset <= Len(seen)
    PROVE  \E e : Split(seen, Offset, CutPartialLine(SubSeq(seen, Offset + 1, Len(seen))), e)
<1> DEFINE off == Offset
           n == Len(seen)
           data == SubSeq(seen, off + 1, n)
           cut == SelectInSeq(data, IsNewline)
           d == CutPartialLine(data)
<1>1. n \in Nat /\ off + 1 \in 1..n + 1 /\ n \in off + 1 - 1..n
  OBVIOUS
<1>2. /\ data \in Seq(Cell) /\ Len(data) = n - off
      /\ \A i \in 1..n - off : data[i] = seen[off + i]
  <2>1. /\ data \in Seq(Cell) /\ Len(data) = n - (off + 1) + 1
        /\ \A i \in 1..n - (off + 1) + 1 : data[i] = seen[off + 1 + i - 1]
    BY <1>1, SoundPart
  <2> HIDE DEF data
  <2>2. n - (off + 1) + 1 = n - off /\ \A i \in 1..n - off : off + 1 + i - 1 = off + i
    BY <1>1
  <2> QED
    BY <2>1, <2>2
<1>3. d = IF off = 0 THEN data ELSE SubSeq(data, cut + 1, n - off)
  BY <1>2 DEF CutPartialLine
<1> HIDE DEF data, d
<1>4. /\ cut \in 0..n - off
      /\ cut # 0 => data[cut].at = 0
      /\ \A i \in 1..n - off : data[i].at = 0 => cut \in 1..i
  BY <1>2, FirstNewline
<1> HIDE DEF off, cut
<1>5. off \in Nat /\ off <= n
  BY DEF off
<1>6. ASSUME NEW i \in off + 1..n, seen[i].at = 0
      PROVE  cut \in 1..i - off
  <2> DEFINE j == i - off
  <2>1. j \in 1..n - off /\ off + j = i
    BY <1>1, <1>5
  <2> HIDE DEF j
  <2>2. data[j] = seen[i]
    BY <1>2, <2>1
  <2>3. cut \in 1..j
    BY <1>4, <1>6, <2>1, <2>2
  <2> QED
    BY <2>3 DEF j
<1>7. CASE off = 0
  <2>1. d = data
    BY <1>3, <1>7
  <2>2. Rest(seen, 0, d)
    BY <1>1, <1>2, <1>5, <1>7, <2>1 DEF Rest
  <2>3. \A i \in off + 1..0 - 1 : seen[i].at # 0
    BY <1>7
  <2>4. Split(seen, off, d, 0)
    BY <1>5, <2>2, <2>3, SplitAtNewline
  <2> QED
    BY <2>4 DEF off, d, data
<1>8. CASE off # 0 /\ cut # 0
  <2> DEFINE k == off + cut
  <2>1. cut + 1 \in 1..n - off + 1 /\ n - off \in cut + 1 - 1..n - off /\ k \in 0..n /\ cut \in Nat
    BY <1>1, <1>4, <1>5, <1>8
  <2>2. /\ d \in Seq(Cell) /\ Len(d) = n - k
        /\ \A i \in 1..n - k : d[i] = data[cut + i]
    <3>1. d = SubSeq(data, cut + 1, n - off)
      BY <1>3, <1>8
    <3>2. /\ d \in Seq(Cell) /\ Len(d) = n - off - (cut + 1) + 1
          /\ \A i \in 1..n - off - (cut + 1) + 1 : d[i] = data[cut + 1 + i - 1]
      BY <1>2, <2>1, <3>1
    <3>3. n - off - (cut + 1) + 1 = n - k /\ \A i \in 1..n - k : cut + 1 + i - 1 = cut + i
      BY <1>1, <1>5, <2>1
    <3> QED
      BY <3>2, <3>3
  <2>3. ASSUME NEW i \in 1..n - k
        PROVE  d[i] = seen[k + i]
    <3> DEFINE j == cut + i
    <3>1. j \in 1..n - off /\ off + j = k + i
      BY <1>1, <1>5, <2>1
    <3>2. d[i] = data[j]
      BY <2>2
    <3> HIDE DEF j
    <3>3. data[j] = seen[off + j]
      BY <1>2, <3>1
    <3> QED
      BY <3>1, <3>2, <3>3
  <2>4. seen[k].at = 0
    <3>1. cut \in 1..n - off
      BY <1>4, <1>8, <2>1
    <3> QED
      BY <1>2, <1>4, <1>8, <3>1
  <2>5. ASSUME NEW i \in off + 1..k - 1
        PROVE  seen[i].at # 0
    <3>1. SUFFICES ASSUME seen[i].at = 0 PROVE FALSE
      OBVIOUS
    <3>2. i \in off + 1..n
      BY <1>1, <1>5, <2>1
    <3>3. cut \in 1..i - off
      BY <1>6, <3>1, <3>2
    <3> QED
      BY <1>5, <2>1, <3>3
  <2> HIDE DEF k
  <2>6. Rest(seen, k, d)
    BY <2>1, <2>2, <2>3 DEF Rest
  <2>7. Split(seen, off, d, k)
    BY <1>5, <1>8, <2>4, <2>5, <2>6, SplitAtNewline
  <2> QED
    BY <2>7 DEF off, d, data
<1>9. CASE off # 0 /\ cut = 0
  <2>1. d \in Seq(Cell) /\ Len(d) = n - off /\ \A i \in 1..n - off : d[i] = data[i]
    <3>1. d = SubSeq(data, 1, n - off)
      <4>1. d = SubSeq(data, cut + 1, n - off)
        BY ONLY <1>3, <1>9
      <4>2. cut + 1 = 1
        BY ONLY <1>9
      <4> QED
        BY ONLY <4>1, <4>2
    <3> QED
      BY <1>1, <1>2, <1>5, <3>1
  <2>2. Rest(seen, off, d)
    BY <1>1, <1>2, <1>5, <2>1 DEF Rest
  <2>3. ASSUME NEW i \in 1..Len(d)
        PROVE  d[i].at # 0
    BY <1>4, <1>9, <2>1
  <2>4. CASE seen[off].at = 0
    <3>1. \A i \in off + 1..off - 1 : seen[i].at # 0
      BY <1>5
    <3>2. Split(seen, off, d, off)
      BY <1>5, <1>9, <2>2, <2>4, <3>1, SplitAtNewline
    <3> QED
      BY <3>2 DEF off, d, data
  <2>5. CASE seen[off].at # 0
    <3>1. off \in Nat \ {0}
      BY <1>5, <1>9
    <3>2. Split(seen, off, d, n)
      BY <2>2, <2>3, <2>5, <3>1, SplitWithinLine
    <3> QED
      BY <3>2 DEF off, d, data
  <2> QED
    BY <2>4, <2>5
<1> QED
  BY <1>7, <1>8, <1>9

-----------------------------------------------------------------------------
\* The latest of the lines that end a sequence, and those it misses.

MissesOnlyFrom(a, c, t, n) ==
    Len(Latest(c, n)) < n => \A i \in 1..Len(Latest(t, n)) - Len(Latest(c, n)) :
        \E j \in 1..Len(a) : Latest(t, n)[i] = a[j]

LEMMA LatestEnds ==
    ASSUME NEW a \in Seq(Line), NEW c \in Seq(Line), NEW n \in Nat \ {0}, NEW t, t = a \o c
    PROVE  /\ IsSuffix(Latest(c, n), t)
           /\ a = <<>> => t = c
           /\ MissesOnlyFrom(a, c, t, n)
<1> DEFINE f == Latest(c, n)
           w == Latest(t, n)
<1>1. /\ t \in Seq(Line) /\ Len(t) = Len(a) + Len(c) /\ Len(a) \in Nat /\ Len(c) \in Nat
      /\ \A i \in 1..Len(a) + Len(c) : t[i] = IF i <= Len(a) THEN a[i] ELSE c[i - Len(a)]
  BY ConcatProperties
<1>2. /\ f \in Seq(Line) /\ Len(f) \in Nat /\ Len(f) = IF Len(c) > n THEN n ELSE Len(c)
      /\ \A i \in 1..Len(f) : f[i] = c[Len(c) - Len(f) + i]
  BY LatestIs
<1>3. /\ w \in Seq(Line) /\ Len(w) \in Nat /\ Len(w) = IF Len(t) > n THEN n ELSE Len(t)
      /\ \A i \in 1..Len(w) : w[i] = t[Len(t) - Len(w) + i]
  <2>1. t \in Seq(Line)
    BY <1>1
  <2>2. n \in Nat \ {0}
    OBVIOUS
  <2> QED
    BY ONLY <2>1, <2>2, LatestIs
<1> HIDE DEF f, w
<1>4. IsSuffix(f, t)
  <2>1. Len(f) <= Len(t)
    BY <1>1, <1>2
  <2>2. ASSUME NEW i \in 1..Len(f)
        PROVE  f[i] = t[Len(t) - Len(f) + i]
    <3> DEFINE x == Len(t) - Len(f) + i
    <3>1. /\ x \in 1..Len(a) + Len(c) /\ x > Len(a) /\ x - Len(a) = Len(c) - Len(f) + i
      <4>1. /\ Len(t) = Len(a) + Len(c) /\ Len(a) \in Nat /\ Len(c) \in Nat
            /\ Len(f) \in Nat /\ Len(f) <= Len(c)
        BY <1>1, <1>2
      <4> QED
        BY ONLY <4>1, i \in 1..Len(f)
    <3> HIDE DEF x
    <3>2. t[x] = c[x - Len(a)]
      BY <1>1, <3>1
    <3>3. t[x] = f[i]
      BY <1>2, <3>1, <3>2
    <3> QED
      BY <3>3 DEF x
  <2> QED
    BY <1>1, <1>2, <2>1, <2>2, SuffixByIndex
<1>5. a = <<>> => t = c
  BY ConcatEmptySeq
<1>6. ASSUME Len(f) < n, NEW i \in 1..Len(w) - Len(f)
      PROVE  \E j \in 1..Len(a) : w[i] = a[j]
  <2> DEFINE x == Len(t) - Len(w) + i
  <2>1. i \in 1..Len(w) /\ x \in 1..Len(a) /\ x \in 1..Len(a) + Len(c)
    BY <1>1, <1>2, <1>3, <1>6
  <2>2. w[i] = t[x]
    BY <1>3, <2>1
  <2> HIDE DEF x
  <2>3. t[x] = a[x]
    BY <1>1, <2>1
  <2> QED
    BY <2>1, <2>2, <2>3
<1> QED
  BY <1>4, <1>5, <1>6 DEF f, w, MissesOnlyFrom

-----------------------------------------------------------------------------
\* What a read finds.

LEMMA ParseIs ==
    ASSUME NEW d \in Seq(Cell)
    PROVE  /\ ParseTranscript(d) \in [users : Seq(Line), tools : Seq(Line)]
           /\ ParseTranscript(d).users = Latest(LinesUpTo(d, "user")[Len(d)], MaxUserMessages)
           /\ ParseTranscript(d).tools = Latest(LinesUpTo(d, "tool")[Len(d)], MaxToolCalls)
           /\ Len(ParseTranscript(d).users) <= MaxUserMessages
           /\ Len(ParseTranscript(d).tools) <= MaxToolCalls
<1> DEFINE u == LinesUpTo(d, "user")[Len(d)]
           t == LinesUpTo(d, "tool")[Len(d)]
<1>1. Len(d) \in 0..Len(d) /\ MaxUserMessages \in Nat \ {0} /\ MaxToolCalls \in Nat \ {0}
  BY TranscriptAssumption
<1>2. u \in Seq(Line) /\ t \in Seq(Line)
  BY <1>1, LinesSteps
<1>3. /\ LatestUpTo(d, "user", MaxUserMessages)[Len(d)] = Latest(u, MaxUserMessages)
      /\ LatestUpTo(d, "tool", MaxToolCalls)[Len(d)] = Latest(t, MaxToolCalls)
  BY <1>1, LatestOfLines
<1> HIDE DEF u, t
<1>4. /\ Latest(u, MaxUserMessages) \in Seq(Line) /\ Len(Latest(u, MaxUserMessages)) <= MaxUserMessages
      /\ Latest(t, MaxToolCalls) \in Seq(Line) /\ Len(Latest(t, MaxToolCalls)) <= MaxToolCalls
  BY <1>1, <1>2, LatestIs
<1> QED
  BY <1>3, <1>4 DEF ParseTranscript, u, t

\* A result is without a gap in what there was to see.
WithoutGap(seen, result) ==
    /\ IsSuffix(result.users, LinesUpTo(seen, "user")[Len(seen)])
    /\ IsSuffix(result.tools, LinesUpTo(seen, "tool")[Len(seen)])

\* A result misses only lines that start at the cell n or before.
MissesUpTo(seen, result, n) ==
    LET wanted == Latest(LinesUpTo(seen, "user")[Len(seen)], MaxUserMessages) IN
    \A i \in 1..Len(wanted) - Len(result.users) : FirstCell(seen, wanted[i]) <= n

LEMMA SplitWithoutGap ==
    ASSUME NEW seen \in Seq(Cell), NEW off, NEW d, NEW e, Split(seen, off, d, e)
    PROVE  WithoutGap(seen, ParseTranscript(d))
<1>1. /\ d \in Seq(Cell) /\ e \in 0..Len(seen) /\ Len(d) \in 0..Len(d)
      /\ \A kind \in Kinds : SameLines(seen, e, d, kind)
      /\ MaxUserMessages \in Nat \ {0} /\ MaxToolCalls \in Nat \ {0}
  BY TranscriptAssumption DEF Split
<1>2. ASSUME NEW kind \in Kinds, NEW n \in Nat \ {0}
      PROVE  IsSuffix(Latest(LinesUpTo(d, kind)[Len(d)], n), LinesUpTo(seen, kind)[Len(seen)])
  <2> DEFINE a == LinesUpTo(seen, kind)[e]
             c == LinesUpTo(d, kind)[Len(d)]
             t == LinesUpTo(seen, kind)[Len(seen)]
  <2>1. a \in Seq(Line)
    BY <1>1, LinesSteps
  <2>2. c \in Seq(Line)
    BY <1>1, LinesSteps
  <2>3. t = a \o c
    BY <1>1 DEF SameLines
  <2> HIDE DEF a, c, t
  <2>4. IsSuffix(Latest(c, n), t)
    BY <2>1, <2>2, <2>3, LatestEnds
  <2> QED
    BY <2>4 DEF c, t
<1>3. /\ ParseTranscript(d).users = Latest(LinesUpTo(d, "user")[Len(d)], MaxUserMessages)
      /\ ParseTranscript(d).tools = Latest(LinesUpTo(d, "tool")[Len(d)], MaxToolCalls)
  BY <1>1, ParseIs
<1>4. "user" \in Kinds /\ "tool" \in Kinds
  BY DEF Kinds
<1> QED
  BY <1>1, <1>2, <1>3, <1>4 DEF WithoutGap

LEMMA SplitMissesUpTo ==
    ASSUME NEW seen \in Seq(Cell), NEW off \in Nat, NEW d, NEW e, Split(seen, off, d, e),
           NEW n \in Int,
           \/ Len(ParseTranscript(d).users) >= MaxUserMessages
           \/ off = 0
           \/ n = off + 1
    PROVE  MissesUpTo(seen, ParseTranscript(d), n)
<1> DEFINE m == MaxUserMessages
           a == LinesUpTo(seen, "user")[e]
           c == LinesUpTo(d, "user")[Len(d)]
           t == LinesUpTo(seen, "user")[Len(seen)]
           f == Latest(c, m)
           w == Latest(t, m)
<1>1. /\ d \in Seq(Cell) /\ e \in 0..Len(seen) /\ Len(d) \in 0..Len(d)
      /\ Len(seen) \in 0..Len(seen) /\ m \in Nat \ {0}
      /\ off = 0 => e = 0
      /\ \A p \in 1..e : EndsLine(seen, p) => StartAt(seen, p) <= off + 1
  BY TranscriptAssumption DEF Split
<1>2. t = a \o c
  BY DEF Split, SameLines, Kinds
<1>3. a \in Seq(Line) /\ t \in Seq(Line) /\ (e = 0 => a = <<>>)
  BY <1>1, LinesSteps
<1>4. c \in Seq(Line)
  BY <1>1, LinesSteps
<1>5. f = ParseTranscript(d).users
  BY <1>1, ParseIs
<1>6. \A j \in 1..Len(a) : \E p \in 1..e : EndsLine(seen, p) /\ a[j] = seen[p].line
  BY <1>1, LinesOccur
<1> HIDE DEF m, a, c, t
<1>7. /\ a = <<>> => t = c
      /\ Len(f) < m => \A i \in 1..Len(w) - Len(f) : \E j \in 1..Len(a) : w[i] = a[j]
  <2>1. a = <<>> => t = c
    BY <1>1, <1>2, <1>3, <1>4, LatestEnds
  <2>2. MissesOnlyFrom(a, c, t, m)
    BY <1>1, <1>2, <1>3, <1>4, LatestEnds
  <2> QED
    BY <2>1, <2>2 DEF MissesOnlyFrom
<1>8. Len(w) \in Nat /\ Len(w) <= m /\ Len(f) \in Nat
  BY <1>1, <1>3, <1>4, LatestIs
<1> HIDE DEF f, w
<1>9. ASSUME NEW i \in 1..Len(w) - Len(f)
      PROVE  FirstCell(seen, w[i]) <= n
  <2>1. Len(f) < m
    BY <1>1, <1>8
  <2>2. off # 0
    <3>1. SUFFICES ASSUME off = 0 PROVE FALSE
      OBVIOUS
    <3>2. t = c
      BY <1>1, <1>3, <1>7, <3>1
    <3>3. Len(w) = Len(f)
      BY <3>2 DEF f, w
    <3> QED
      BY <1>8, <3>3
  <2>3. n = off + 1
    <3>1. ~(Len(f) >= m)
      BY <1>1, <1>8, <2>1
    <3> QED
      BY <1>5, <2>2, <3>1 DEF m
  <2>4. PICK j \in 1..Len(a) : w[i] = a[j]
    BY <1>7, <2>1
  <2>5. PICK p \in 1..e : EndsLine(seen, p) /\ a[j] = seen[p].line
    BY <1>6
  <2> DEFINE start == StartAt(seen, p)
  <2>6. p \in 1..Len(seen) /\ start <= off + 1
    BY <1>1, <2>5
  <2>7. start \in 1..p /\ seen[start].line = seen[p].line
    <3>1. /\ start \in 1..p
          /\ \A x \in start..p : seen[x].line = seen[p].line
      BY <2>5, <2>6, EndsLineIs
    <3> HIDE DEF start
    <3>2. start \in start..p
      BY <3>1
    <3> QED
      BY <3>1, <3>2
  <2> HIDE DEF start
  <2>8. start \in 1..Len(seen) /\ seen[start].line = w[i]
    BY <1>1, <2>4, <2>5, <2>6, <2>7
  <2>9. FirstCell(seen, w[i]) \in Nat /\ FirstCell(seen, w[i]) <= start
    BY <2>8, FirstCellIs
  <2> QED
    BY <2>3, <2>6, <2>7, <2>9
<1> QED
  BY <1>5, <1>9 DEF MissesUpTo, f, w, t, m

-----------------------------------------------------------------------------
\* The inductive invariant.  That no line begins but after a newline is what
\* makes a window without a newline hold no line at all.

IInv ==
    /\ TypeOK
    /\ Sound(file)
    /\ LatestWithoutGap
    /\ MissesOnlyTheFar

\* The results of the last read need no more than that the load goes on, or
\* that they do not change.
Result == LatestWithoutGap /\ MissesOnlyTheFar

LEMMA ResultUnread ==
    ASSUME pc' # "done"
    PROVE  Result'
  BY DEF Result, LatestWithoutGap, MissesOnlyTheFar

LEMMA InitInv == Init => IInv
<1> SUFFICES ASSUME Init PROVE IInv
  OBVIOUS
<1>1. PICK kinds \in Starts : file = Written(LinesOf(kinds))
  BY DEF Init
<1>2. kinds \in Seq(Kinds)
  BY TranscriptAssumption
<1>3. LinesOf(kinds) \in Seq(Line)
  <2>1. \A i \in 1..Len(kinds) : [id |-> i, kind |-> kinds[i]] \in Line
    BY <1>2 DEF Line
  <2> QED
    BY <1>2, <2>1 DEF LinesOf
<1>4. file \in Seq(Cell) /\ Sound(file)
  BY <1>1, <1>3, WrittenSoundly DEF Soundly
<1>5. TypeOK
  BY <1>4, TranscriptAssumption DEF TypeOK, Init
<1>6. LatestWithoutGap /\ MissesOnlyTheFar
  BY DEF Init, LatestWithoutGap, MissesOnlyTheFar
<1> QED
  BY <1>4, <1>5, <1>6 DEF IInv

LEMMA GrowIs ==
    ASSUME NEW w \in 1..MaxTail
    PROVE  Grow(w) \in 1..MaxTail
<1>1. GrowthFactor \in Nat /\ GrowthFactor > 1 /\ MaxTail \in Nat /\ w \in Nat /\ w >= 1
  BY TranscriptAssumption
<1>2. w * GrowthFactor \in Nat /\ w * GrowthFactor >= 1
  BY <1>1
<1> QED
  BY <1>1, <1>2 DEF Grow

LEMMA HostInv ==
    ASSUME IInv, HostAppends \/ HostFinishesLine \/ HostShrinks
    PROVE  IInv'
<1>1. /\ FileInv /\ added \in 0..MaxLines /\ shrinks \in 0..MaxShrinks
      /\ MaxLines \in Nat /\ MaxShrinks \in Nat
  BY TranscriptAssumption DEF IInv, TypeOK, FileInv
<1>2. FileInv' /\ UNCHANGED HostVars
  BY <1>1, AppendsOutcome, FinishesOutcome, ShrinksOutcome
<1>3. added' \in 0..MaxLines /\ shrinks' \in 0..MaxShrinks
  <2>1. CASE HostAppends
    <3>1. added' = added + 1 /\ added < MaxLines /\ shrinks' = shrinks
      BY <2>1 DEF HostAppends
    <3> QED
      BY <1>1, <3>1
  <2>2. CASE HostFinishesLine
    BY <1>1, <2>2 DEF HostFinishesLine
  <2>3. CASE HostShrinks
    <3>1. shrinks' = shrinks + 1 /\ shrinks < MaxShrinks /\ added' = added
      BY <2>3 DEF HostShrinks
    <3> QED
      BY <1>1, <3>1
  <2> QED
    BY <2>1, <2>2, <2>3
<1>4. TypeOK'
  BY <1>2, <1>3 DEF IInv, TypeOK, FileInv, HostVars
<1>5. pc' # "done"
  BY <1>2 DEF HostAppends, HostFinishesLine, HostShrinks, Loading, HostVars
<1>6. Result'
  BY <1>5, ResultUnread
<1> QED
  BY <1>2, <1>4, <1>6 DEF IInv, FileInv, Result

LEMMA ReadTailInv ==
    ASSUME IInv, ReadTail
    PROVE  IInv'
<1> DEFINE seen == SubSeq(file, 1, IF size < Len(file) THEN size ELSE Len(file))
           data == SubSeq(seen, Offset + 1, Len(seen))
           d == CutPartialLine(data)
           result == ParseTranscript(d)
<1>1. /\ size > Offset => data # <<>>
      /\ found' = result /\ atRead' = seen
      /\ \/ Enough(result) /\ pc' = "done" /\ window' = window
         \/ ~Enough(result) /\ pc' = "stat" /\ window' = Grow(window)
      /\ file' = file /\ added' = added /\ shrinks' = shrinks /\ size' = size
  BY DEF ReadTail, host
<1>2. /\ file \in Seq(Cell) /\ Sound(file) /\ size \in Nat /\ window \in 1..MaxTail
      /\ added \in 0..MaxLines /\ shrinks \in 0..MaxShrinks /\ MaxTail \in Nat
  BY TranscriptAssumption DEF IInv, TypeOK
<1>3. seen \in Seq(Cell) /\ Sound(seen)
  <2> DEFINE n == IF size < Len(file) THEN size ELSE Len(file)
  <2>1. 1 \in 1..Len(file) + 1 /\ n \in 1 - 1..Len(file)
    BY <1>2
  <2> HIDE DEF n
  <2>2. SubSeq(file, 1, n) \in Seq(Cell) /\ Sound(SubSeq(file, 1, n))
    BY <1>2, <2>1, SoundPart
  <2> QED
    BY <2>2 DEF n
<1> HIDE DEF seen
<1>4. Offset \in Nat /\ Offset <= Len(seen)
  <2>1. Offset \in Nat /\ (Offset = 0 \/ size > Offset)
    BY <1>2 DEF Offset
  <2>2. Len(seen) \in Nat /\ (data # <<>> => Offset + 1 <= Len(seen))
    BY <1>3, <2>1
  <2> HIDE DEF data
  <2> QED
    BY <1>1, <2>1, <2>2
<1>5. PICK e : Split(seen, Offset, d, e)
  BY <1>3, <1>4, WindowSplits
<1> HIDE DEF data, d
<1>6. /\ result \in [users : Seq(Line), tools : Seq(Line)]
      /\ Len(result.users) <= MaxUserMessages
      /\ Len(result.tools) <= MaxToolCalls
  <2>1. d \in Seq(Cell)
    BY <1>5 DEF Split
  <2> QED
    BY <2>1, ParseIs
<1>7. WithoutGap(seen, result)
  BY <1>3, <1>5, SplitWithoutGap
<1>8. Enough(result) => MissesUpTo(seen, result, size - MaxTail + 1)
  <2>1. SUFFICES ASSUME Enough(result) PROVE MissesUpTo(seen, result, size - MaxTail + 1)
    OBVIOUS
  <2>2. \/ Len(result.users) >= MaxUserMessages
        \/ Offset = 0
        \/ window >= MaxTail
    BY <2>1 DEF Enough
  <2>3. window >= MaxTail => Offset = 0 \/ size - MaxTail + 1 = Offset + 1
    BY <1>2 DEF Offset
  <2>4. size - MaxTail + 1 \in Int
    BY <1>2
  <2> QED
    BY <1>3, <1>4, <1>5, <2>2, <2>3, <2>4, SplitMissesUpTo
<1> HIDE DEF result
<1>9. TypeOK'
  <2>1. window' \in 1..MaxTail /\ pc' \in {"stat", "read", "done", "failed"}
    BY <1>1, <1>2, GrowIs
  <2> QED
    BY <1>1, <1>2, <1>3, <1>6, <2>1 DEF TypeOK
<1>10. Sound(file)'
  BY <1>1, <1>2 DEF Sound
<1>11. LatestWithoutGap'
  BY <1>1, <1>7 DEF LatestWithoutGap, Known, WithoutGap
<1>12. MissesOnlyTheFar'
  <2>1. SUFFICES ASSUME pc' = "done" PROVE MissesOnlyTheFar'
    BY DEF MissesOnlyTheFar
  <2>2. MissesUpTo(atRead', found', size' - MaxTail + 1)
    BY <1>1, <1>8, <2>1
  <2> QED
    BY <2>2 DEF MissesOnlyTheFar, MissesUpTo, Known, StartOf, FirstCell, SelectInSeq
<1> QED
  BY <1>9, <1>10, <1>11, <1>12 DEF IInv

LEMMA NextInv == IInv /\ [Next]_vars => IInv'
<1> SUFFICES ASSUME IInv, [Next]_vars PROVE IInv'
  OBVIOUS
<1>1. CASE StatTail
  <2>1. file \in Seq(Cell) /\ Len(file) \in Nat
    BY DEF IInv, TypeOK
  <2>2. TypeOK'
    BY <1>1, <2>1 DEF IInv, TypeOK, StatTail, host
  <2>3. Sound(file)'
    BY <1>1 DEF IInv, Sound, StatTail, host
  <2>4. Result'
    BY <1>1, ResultUnread DEF StatTail
  <2> QED
    BY <2>2, <2>3, <2>4 DEF IInv, Result
<1>2. CASE ReadFails
  <2>1. TypeOK' /\ Sound(file)'
    BY <1>2 DEF IInv, TypeOK, Sound, ReadFails, host
  <2>2. Result'
    BY <1>2, ResultUnread DEF ReadFails
  <2> QED
    BY <2>1, <2>2 DEF IInv, Result
<1>3. CASE ReadTail
  BY <1>3, ReadTailInv
<1>4. CASE HostAppends \/ HostFinishesLine \/ HostShrinks
  BY <1>4, HostInv
<1>5. CASE UNCHANGED vars
  BY <1>5 DEF IInv, TypeOK, Sound, LatestWithoutGap, MissesOnlyTheFar, Known, StartOf,
             SelectInSeq, vars, host
<1> QED
  BY <1>1, <1>2, <1>3, <1>4, <1>5 DEF Next, Load

LEMMA InvHolds == Spec => []IInv
<1> QED
  BY InitInv, NextInv, PTL DEF Spec

\* The file is always whole lines' cells, the window stays between one byte
\* and its maximum however often it grows, and no more messages or tool calls
\* are kept than asked for (loadRecentTranscript, appendLatest).
THEOREM TranscriptTypeCorrect == Spec => []TypeOK
<1>1. IInv => TypeOK
  BY DEF IInv
<1> QED
  BY <1>1, InvHolds, PTL

\* Whatever the window cuts and whatever the host writes or cuts during the
\* load, the messages and tool calls found are the latest ones, in order and
\* without a gap (readTail, parseTranscript).
THEOREM FoundWithoutGap == Spec => []LatestWithoutGap
<1>1. IInv => LatestWithoutGap
  BY DEF IInv
<1> QED
  BY <1>1, InvHolds, PTL

\* The window stops growing only when there are enough messages or when it
\* has its largest size or all of the file: what is missing starts at or
\* before the beginning of the largest window (loadRecentTranscript).
THEOREM OnlyTheFarIsMissed == Spec => []MissesOnlyTheFar
<1>1. IInv => MissesOnlyTheFar
  BY DEF IInv
<1> QED
  BY <1>1, InvHolds, PTL

\* A load that goes on after a read does so with a larger window, so that it
\* reads at most once for every size from InitialTail to MaxTail
\* (loadRecentTranscript).
THEOREM LoadAdvances == Spec => WindowGrows
<1>1. IInv /\ [Next]_vars => [pc = "read" /\ pc' = "stat" => window' > window]_vars
  <2> SUFFICES ASSUME IInv, Next, pc = "read", pc' = "stat"
               PROVE  window' > window
    BY DEF vars
  <2>1. window \in 1..MaxTail /\ MaxTail \in Nat /\ GrowthFactor \in Nat /\ GrowthFactor > 1
    BY TranscriptAssumption DEF IInv, TypeOK
  <2>2. ReadTail
    BY DEF Next, Load, StatTail, ReadFails, HostAppends, HostFinishesLine, HostShrinks
  <2>3. window' = Grow(window) /\ ~(window >= MaxTail)
    BY <2>2 DEF ReadTail, Enough
  <2>4. window \in Nat /\ window >= 1 /\ window * GrowthFactor > window
    BY <2>1
  <2> QED
    BY <2>1, <2>3, <2>4 DEF Grow
<1> QED
  BY <1>1, InvHolds, PTL DEF Spec, WindowGrows

=============================================================================
