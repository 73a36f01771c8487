--------------------------- MODULE GatewayProofs ---------------------------
(***************************************************************************)
(* The parts that Gateway puts side by side, for every value of the        *)
(* constants.  Each has an inductive invariant XInv, proved action by      *)
(* action (XInit, XStep) and for the part alone (XSafe).  A behaviour of   *)
(* Gateway is one of each part that moves and stutters (XPart), and so has *)
(* what each of them has.                                                  *)
(***************************************************************************)
EXTENDS Gateway, SequenceTheorems, TLAPS

-----------------------------------------------------------------------------
(***************************************************************************)
(* The recorder keeps its lines in order and loses none in silence, for    *)
(* every size of the buffer and of the file.                               *)
(*                                                                         *)
(* The lines to read later are three stretches of one recording: the       *)
(* backup, the file and the buffer.  A flush, whole or broken off, moves a *)
(* prefix of the buffer to the file (FlushMoves), and such a move keeps    *)
(* the three stretches in order (WrittenOut).                              *)
(***************************************************************************)

\* Predicates on sequences of line numbers.
Increasing(s) == \A i, j \in 1..Len(s) : i < j => s[i] < s[j]
Below(s, t)   == \A i \in 1..Len(s), j \in 1..Len(t) : s[i] < t[j]
UpTo(s, n)    == \A i \in 1..Len(s) : s[i] <= n

\* Three stretches of one recording, with nothing after line n.
Stretches(x, y, z, n) ==
  /\ Increasing(x) /\ Increasing(y) /\ Increasing(z)
  /\ Below(x, y) /\ Below(x, z) /\ Below(y, z)
  /\ UpTo(x, n) /\ UpTo(y, n) /\ UpTo(z, n)

RecorderInv ==
  /\ Recorder!TypeOK
  /\ size <= offered
  /\ Stretches(backup, file, buffer, offered)
  /\ mu # "free" => ~closed
  /\ mu = "reopen" /\ ~failing => buffer = <<>>

-----------------------------------------------------------------------------
\* Two stretches, one below the other, make one.
LEMMA Joined ==
  ASSUME NEW S \in SUBSET Int, NEW s \in Seq(S), NEW t \in Seq(S),
         Increasing(s), Increasing(t), Below(s, t)
  PROVE  Increasing(s \o t)
  <1>1. Len(s) \in Nat /\ Len(t) \in Nat
    OBVIOUS
  <1>2. ASSUME NEW i \in 1..Len(s \o t), NEW j \in 1..Len(s \o t), i < j
        PROVE  (s \o t)[i] < (s \o t)[j]
    <2>1. i \in 1..(Len(s) + Len(t)) /\ j \in 1..(Len(s) + Len(t))
      BY ConcatProperties
    <2>2. CASE i <= Len(s) /\ j <= Len(s)
      <3>1. (s \o t)[i] = s[i] /\ (s \o t)[j] = s[j]
        BY <1>1, <2>1, <2>2, ConcatProperties
      <3> QED
        BY <1>1, <1>2, <2>1, <2>2, <3>1 DEF Increasing
    <2>3. CASE i <= Len(s) /\ j > Len(s)
      <3>1. (s \o t)[i] = s[i] /\ (s \o t)[j] = t[j - Len(s)] /\ j - Len(s) \in 1..Len(t)
        BY <1>1, <2>1, <2>3, ConcatProperties
      <3> QED
        BY <1>1, <2>1, <2>3, <3>1 DEF Below
    <2>4. CASE i > Len(s)
      <3>1. /\ (s \o t)[i] = t[i - Len(s)] /\ (s \o t)[j] = t[j - Len(s)]
            /\ i - Len(s) \in 1..Len(t) /\ j - Len(s) \in 1..Len(t) /\ i - Len(s) < j - Len(s)
        BY <1>1, <1>2, <2>1, <2>4, ConcatProperties
      <3> QED
        BY <3>1 DEF Increasing
    <2> QED
      BY <1>1, <2>1, <2>2, <2>3, <2>4
  <1> QED
    BY <1>2 DEF Increasing

\* What is below, or above, both halves is so of the whole.
LEMMA JoinedBounds ==
  ASSUME NEW S \in SUBSET Int, NEW s \in Seq(S), NEW t \in Seq(S), NEW u \in Seq(S),
         NEW n \in Int
  PROVE  /\ Below(s, u) /\ Below(t, u) => Below(s \o t, u)
         /\ Below(u, s) /\ Below(u, t) => Below(u, s \o t)
         /\ UpTo(s, n) /\ UpTo(t, n) => UpTo(s \o t, n)
  <1>1. Len(s) \in Nat /\ Len(t) \in Nat
    OBVIOUS
  <1>2. \A i \in 1..Len(s \o t) :
           \/ i \in 1..Len(s) /\ (s \o t)[i] = s[i]
           \/ i - Len(s) \in 1..Len(t) /\ (s \o t)[i] = t[i - Len(s)]
    BY <1>1, ConcatProperties
  <1> QED
    BY <1>2 DEF Below, UpTo

\* A cut into two.
LEMMA Cut ==
  ASSUME NEW S \in SUBSET Int, NEW s \in Seq(S), NEW n \in 0..Len(s)
  PROVE  LET front == SubSeq(s, 1, n)
             rest  == SubSeq(s, n + 1, Len(s))
         IN  /\ front \in Seq(S) /\ Len(front) = n /\ \A i \in 1..n : front[i] = s[i]
             /\ rest \in Seq(S) /\ Len(rest) = Len(s) - n
             /\ \A i \in 1..(Len(s) - n) : rest[i] = s[n + i]
             /\ Recorder!ToSet(s) = Recorder!ToSet(front) \cup Recorder!ToSet(rest)
  <1> DEFINE front == SubSeq(s, 1, n)
             rest  == SubSeq(s, n + 1, Len(s))
  <1>1. Len(s) \in Nat /\ n \in Nat /\ n <= Len(s) /\ \A i \in 1..Len(s) : s[i] \in S
    BY ElementOfSeq
  <1>2. front \in Seq(S) /\ Len(front) = n /\ \A i \in 1..n : front[i] = s[i]
    BY <1>1, SubSeqProperties
  <1>3. rest \in Seq(S) /\ Len(rest) = Len(s) - n /\ \A i \in 1..(Len(s) - n) : rest[i] = s[n + i]
    <2>1. \A i \in (n + 1)..Len(s) : s[i] \in S
      BY <1>1
    <2>2. /\ SubSeq(s, n + 1, Len(s)) \in Seq(S)
          /\ Len(SubSeq(s, n + 1, Len(s))) = IF n + 1 <= Len(s) THEN Len(s) - (n + 1) + 1 ELSE 0
          /\ \A i \in 1..(Len(s) - (n + 1) + 1) : SubSeq(s, n + 1, Len(s))[i] = s[n + 1 + i - 1]
      BY <1>1, <2>1, SubSeqProperties
    <2> QED
      BY <1>1, <2>2
  <1>4. DOMAIN s = 1..Len(s) /\ DOMAIN front = 1..n /\ DOMAIN rest = 1..(Len(s) - n)
    BY <1>2, <1>3, LenProperties
  <1> HIDE DEF front, rest
  <1>5. Recorder!ToSet(s) = Recorder!ToSet(front) \cup Recorder!ToSet(rest)
    <2>1. ASSUME NEW i \in 1..Len(s) PROVE s[i] \in Recorder!ToSet(front) \cup Recorder!ToSet(rest)
      <3>1. CASE i <= n
        BY <1>1, <1>2, <1>4, <3>1 DEF Recorder!ToSet
      <3>2. CASE i > n
        <4>1. i - n \in 1..(Len(s) - n) /\ rest[i - n] = s[i]
          BY <1>1, <1>3, <3>2
        <4> QED
          BY <1>4, <4>1 DEF Recorder!ToSet
      <3> QED
        BY <1>1, <3>1, <3>2
    <2>2. \A i \in 1..n : front[i] \in Recorder!ToSet(s)
      BY <1>1, <1>2, <1>4 DEF Recorder!ToSet
    <2>3. \A i \in 1..(Len(s) - n) : rest[i] \in Recorder!ToSet(s)
      BY <1>1, <1>3, <1>4 DEF Recorder!ToSet
    <2> QED
      BY <1>4, <2>1, <2>2, <2>3 DEF Recorder!ToSet
  <1> QED
    BY <1>2, <1>3, <1>5 DEF front, rest

\* Lines that are written out stay where they are in the recording.
LEMMA WrittenOut ==
  ASSUME NEW S \in SUBSET Int, NEW x \in Seq(S), NEW y \in Seq(S), NEW z \in Seq(S), NEW m \in Int,
         NEW n \in 0..Len(z), Stretches(x, y, z, m)
  PROVE  Stretches(x, y \o SubSeq(z, 1, n), SubSeq(z, n + 1, Len(z)), m)
  <1> DEFINE front == SubSeq(z, 1, n)
             rest  == SubSeq(z, n + 1, Len(z))
  <1>1. /\ front \in Seq(S) /\ Len(front) = n /\ \A i \in 1..n : front[i] = z[i]
        /\ rest \in Seq(S) /\ Len(rest) = Len(z) - n
        /\ \A i \in 1..(Len(z) - n) : rest[i] = z[n + i]
    BY Cut
  <1>2. Len(z) \in Nat /\ n \in Nat /\ n <= Len(z)
    OBVIOUS
  <1> HIDE DEF front, rest
  <1>3. /\ \A i \in 1..Len(front) : i \in 1..Len(z) /\ front[i] = z[i]
        /\ \A i \in 1..Len(rest) : n + i \in 1..Len(z) /\ rest[i] = z[n + i]
    BY <1>1, <1>2
  <1>4. Increasing(front) /\ Below(x, front) /\ Below(y, front) /\ UpTo(front, m)
    BY <1>3 DEF Stretches, Increasing, Below, UpTo
  <1>5. Increasing(rest)
    <2>1. ASSUME NEW i \in 1..Len(rest), NEW j \in 1..Len(rest), i < j
          PROVE  rest[i] < rest[j]
      <3>1. n + i \in 1..Len(z) /\ n + j \in 1..Len(z) /\ n + i < n + j
        BY <1>1, <1>2, <1>3, <2>1
      <3>2. z[n + i] < z[n + j]
        BY <3>1 DEF Stretches, Increasing
      <3> QED
        BY <1>3, <3>2
    <2> QED
      BY <2>1 DEF Increasing
  <1>6. Below(x, rest) /\ Below(y, rest) /\ UpTo(rest, m)
    BY <1>3 DEF Stretches, Below, UpTo
  <1>7. Below(front, rest)
    <2>1. ASSUME NEW i \in 1..Len(front), NEW j \in 1..Len(rest)
          PROVE  front[i] < rest[j]
      <3>1. i \in 1..Len(z) /\ n + j \in 1..Len(z) /\ i < n + j
        BY <1>1, <1>2, <1>3
      <3>2. z[i] < z[n + j]
        BY <3>1 DEF Stretches, Increasing
      <3> QED
        BY <1>3, <3>2
    <2> QED
      BY <2>1 DEF Below
  <1>8. Increasing(y \o front)
    BY <1>1, <1>4, Joined DEF Stretches
  <1>9. Below(x, y \o front) /\ Below(y \o front, rest) /\ UpTo(y \o front, m)
    BY <1>1, <1>4, <1>6, <1>7, JoinedBounds DEF Stretches
  <1> QED
    BY <1>5, <1>6, <1>8, <1>9 DEF Stretches, front, rest

\* The next line goes behind all others.
LEMMA Appended ==
  ASSUME NEW S \in SUBSET Int, NEW x \in Seq(S), NEW y \in Seq(S), NEW z \in Seq(S), NEW m \in Int,
         m + 1 \in S, Stretches(x, y, z, m)
  PROVE  Stretches(x, y, Append(z, m + 1), m + 1)
  <1>1. /\ Len(Append(z, m + 1)) = Len(z) + 1 /\ Append(z, m + 1)[Len(z) + 1] = m + 1
        /\ \A i \in 1..Len(z) : Append(z, m + 1)[i] = z[i]
    BY AppendProperties
  <1>2. /\ \A i \in 1..Len(x) : x[i] \in Int
        /\ \A i \in 1..Len(y) : y[i] \in Int
        /\ \A i \in 1..Len(z) : z[i] \in Int
    BY ElementOfSeq
  <1>3. Len(z) \in Nat
    OBVIOUS
  <1> DEFINE w == Append(z, m + 1)
  <1>4. /\ Len(w) = Len(z) + 1 
        /\ \A i \in 1..Len(w) : (i \in 1..Len(z) /\ w[i] = z[i]) \/ (i = Len(z) + 1 /\ w[i] = m + 1)
    BY <1>1, <1>3
  <1> HIDE DEF w
  <1>5. Increasing(w)
    <2>1. ASSUME NEW i \in 1..Len(w), NEW j \in 1..Len(w), i < j
          PROVE  w[i] < w[j]
      <3>1. i \in 1..Len(z) /\ w[i] = z[i] /\ z[i] \in Int /\ z[i] <= m
        BY <1>2, <1>3, <1>4, <2>1 DEF Stretches, UpTo
      <3>2. CASE j \in 1..Len(z) /\ w[j] = z[j]
        BY <2>1, <3>1, <3>2 DEF Stretches, Increasing
      <3>3. CASE w[j] = m + 1
        BY <3>1, <3>3
      <3> QED
        BY <1>4, <3>2, <3>3
    <2> QED
      BY <2>1 DEF Increasing
  <1>6. ASSUME NEW u \in Seq(S), UpTo(u, m), Below(u, z)
        PROVE  Below(u, w) /\ UpTo(u, m + 1)
    <2>1. ASSUME NEW i \in 1..Len(u) PROVE u[i] \in Int /\ u[i] <= m
      BY <1>6, <2>1, ElementOfSeq DEF UpTo
    <2>2. ASSUME NEW i \in 1..Len(u), NEW j \in 1..Len(w) PROVE u[i] < w[j]
      <3>1. CASE j \in 1..Len(z) /\ w[j] = z[j]
        BY <1>6, <3>1 DEF Below
      <3>2. CASE w[j] = m + 1
        BY <2>1, <3>2
      <3> QED
        BY <1>4, <3>1, <3>2
    <2>3. \A i \in 1..Len(u) : u[i] <= m + 1
      BY <2>1
    <2> QED
      BY <2>2, <2>3 DEF Below, UpTo
  <1>7. UpTo(w, m + 1)
    <2>1. ASSUME NEW i \in 1..Len(w) PROVE w[i] <= m + 1
      <3>1. CASE i \in 1..Len(z) /\ w[i] = z[i]
        BY <1>2, <3>1 DEF Stretches, UpTo
      <3>2. CASE w[i] = m + 1
        BY <3>2
      <3> QED
        BY <1>4, <3>1, <3>2
    <2> QED
      BY <2>1 DEF UpTo
  <1> QED
    BY <1>5, <1>6, <1>7 DEF Stretches, w

-----------------------------------------------------------------------------
\* The recorder's lines, by number.
Line == 1..MaxLines

\* The constants of the recorder, as the assumption has them.
LEMMA RecorderConstants ==
  /\ BufLines \in Nat /\ BufLines > 0 /\ FileLines \in Nat /\ FileLines > 0
  /\ MaxLines \in Nat /\ Line \in SUBSET Int
  BY GatewayAssumption DEF GatewayAssumption, Recorder!RecorderAssumption, Line

\* A flush, and a failed one too, moves the first lines of the buffer to the file.
Moves ==
  \E n \in 0..Len(buffer) :
     /\ file' = file \o SubSeq(buffer, 1, n)
     /\ buffer' = SubSeq(buffer, n + 1, Len(buffer))
     /\ written' = written \cup Recorder!ToSet(SubSeq(buffer, 1, n))

\* The cuts of a sequence that take nothing or all of it.
LEMMA EmptyCuts ==
  ASSUME NEW S, NEW s \in Seq(S), NEW t \in Seq(S)
  PROVE  /\ SubSeq(s, 1, 0) = <<>> /\ SubSeq(s, 1, Len(s)) = s
         /\ SubSeq(s, Len(s) + 1, Len(s)) = <<>>
         /\ t \o <<>> = t
         /\ Recorder!ToSet(<<>>) = {}
  <1>1. SubSeq(s, 1, 0) = <<>> /\ SubSeq(s, Len(s) + 1, Len(s)) = <<>>
    BY SubSeqProperties, EmptySeq
  <1>2. SubSeq(s, 1, Len(s)) = s
    BY SubSeqFull
  <1>3. t \o <<>> = t
    BY ConcatEmptySeq
  <1> QED
    BY <1>1, <1>2, <1>3 DEF Recorder!ToSet

\* A flush moves a prefix of the buffer, all of it if it succeeds.
LEMMA FlushMoves ==
  ASSUME RecorderInv, Recorder!FlushOK \/ Recorder!FlushError
  PROVE  /\ Moves
         /\ sticky' \in BOOLEAN
         /\ Recorder!FlushOK => buffer' = <<>>
  <1>1. buffer \in Seq(Line) /\ file \in Seq(Line) /\ Len(buffer) \in Nat /\ sticky \in BOOLEAN
    BY DEF RecorderInv, Recorder!TypeOK, Line
  <1>2. /\ SubSeq(buffer, 1, 0) = <<>> /\ SubSeq(buffer, 1, Len(buffer)) = buffer
        /\ SubSeq(buffer, Len(buffer) + 1, Len(buffer)) = <<>>
        /\ file \o <<>> = file
        /\ Recorder!ToSet(<<>>) = {}
    BY <1>1, EmptyCuts
  <1>3. ASSUME NEW n \in 0..Len(buffer), Recorder!WriteOut(n)
        PROVE  /\ file' = file \o SubSeq(buffer, 1, n)
               /\ written' = written \cup Recorder!ToSet(SubSeq(buffer, 1, n))
    BY <1>2, <1>3 DEF Recorder!WriteOut
  <1>4. CASE Recorder!FlushOK
    <2>1. Len(buffer) \in 0..Len(buffer) /\ Recorder!WriteOut(Len(buffer)) /\ buffer' = <<>>
          /\ sticky' = sticky
      BY <1>1, <1>4 DEF Recorder!FlushOK
    <2> QED
      BY <1>1, <1>2, <1>3, <2>1 DEF Moves
  <1>5. CASE Recorder!FlushError /\ ~Recorder!FlushOK
    <2>1. CASE sticky
      <3>1. file' = file \o SubSeq(buffer, 1, 0)
        BY <1>2, <1>5, <2>1 DEF Recorder!FlushError
      <3>2. buffer' = SubSeq(buffer, 0 + 1, Len(buffer))
        BY <1>2, <1>5, <2>1 DEF Recorder!FlushError
      <3>3. written' = written \cup Recorder!ToSet(SubSeq(buffer, 1, 0))
        BY <1>2, <1>5, <2>1 DEF Recorder!FlushError
      <3>4. 0 \in 0..Len(buffer) /\ sticky' = sticky
        BY <1>1, <1>5, <2>1 DEF Recorder!FlushError
      <3> QED
        BY <1>1, <1>5, <3>1, <3>2, <3>3, <3>4 DEF Moves
    <2>2. CASE ~sticky
      <3>1. PICK n \in 0..(Len(buffer) - 1) :
               Recorder!WriteOut(n) /\ buffer' = SubSeq(buffer, n + 1, Len(buffer))
        BY <1>5, <2>2 DEF Recorder!FlushError
      <3>2. n \in 0..Len(buffer) /\ sticky' = TRUE
        BY <1>1, <1>5, <2>2, <3>1 DEF Recorder!FlushError
      <3> QED
        BY <1>3, <1>5, <3>1, <3>2 DEF Moves
    <2> QED
      BY <2>1, <2>2
  <1> QED
    BY <1>4, <1>5

\* What a flush leaves in order, in type and in all.
LEMMA MovesKeep ==
  ASSUME RecorderInv, Moves, UNCHANGED backup
  PROVE  /\ Stretches(backup', file', buffer', offered)
         /\ ({buffer, file, backup} \subseteq Seq(Line))'
         /\ Len(buffer') <= BufLines
         /\ written' \subseteq 1..offered
         /\ written' \cup Recorder!ToSet(buffer') = written \cup Recorder!ToSet(buffer)
  <1>1. PICK n \in 0..Len(buffer) :
           /\ file' = file \o SubSeq(buffer, 1, n)
           /\ buffer' = SubSeq(buffer, n + 1, Len(buffer))
           /\ written' = written \cup Recorder!ToSet(SubSeq(buffer, 1, n))
    BY DEF Moves
  <1>2. /\ buffer \in Seq(Line) /\ file \in Seq(Line) /\ backup \in Seq(Line)
        /\ Len(buffer) \in Nat /\ Len(buffer) <= BufLines /\ offered \in Int
        /\ written \subseteq 1..offered /\ Stretches(backup, file, buffer, offered)
    BY RecorderConstants DEF RecorderInv, Recorder!TypeOK, Line
  <1> DEFINE front == SubSeq(buffer, 1, n)
             rest  == SubSeq(buffer, n + 1, Len(buffer))
  <1>3. /\ front \in Seq(Line) /\ Len(front) = n /\ \A i \in 1..n : front[i] = buffer[i]
        /\ rest \in Seq(Line) /\ Len(rest) = Len(buffer) - n
        /\ Recorder!ToSet(buffer) = Recorder!ToSet(front) \cup Recorder!ToSet(rest)
    BY <1>2, RecorderConstants, Cut
  <1>4. Stretches(backup, file \o front, rest, offered)
    BY <1>2, RecorderConstants, WrittenOut
  <1>5. file \o front \in Seq(Line)
    BY <1>2, <1>3, ConcatProperties
  <1>6. Recorder!ToSet(front) \subseteq 1..offered
    <2>1. DOMAIN front = 1..n
      BY <1>3, LenProperties
    <2>2. ASSUME NEW i \in 1..n PROVE front[i] \in 1..offered
      <3>1. i \in 1..Len(buffer) /\ front[i] = buffer[i]
        BY <1>2, <1>3
      <3>2. buffer[i] \in Line /\ buffer[i] <= offered
        BY <1>2, <3>1, ElementOfSeq DEF Stretches, UpTo
      <3> QED
        BY <1>2, <3>1, <3>2, RecorderConstants DEF Line
    <2> QED
      BY <2>1, <2>2 DEF Recorder!ToSet
  <1> HIDE DEF front, rest
  <1>7. file' = file \o front /\ buffer' = rest /\ written' = written \cup Recorder!ToSet(front)
    BY <1>1 DEF front, rest
  <1>8. Len(rest) <= BufLines
    BY <1>2, <1>3, RecorderConstants
  <1> QED
    BY <1>2, <1>3, <1>4, <1>5, <1>6, <1>7, <1>8

\* The line that Record puts behind what the buffer held.
LEMMA PutKeeps ==
  ASSUME RecorderInv, offered < MaxLines, offered' = offered + 1, UNCHANGED backup,
         Recorder!Put(offered')
  PROVE  /\ Stretches(backup', file', buffer', offered')
         /\ ({buffer, file, backup} \subseteq Seq(Line))'
         /\ Len(buffer') <= BufLines
         /\ written' \subseteq 1..offered
         /\ written' \cup Recorder!ToSet(buffer')
              = written \cup Recorder!ToSet(buffer) \cup {offered'}
  <1>1. /\ buffer \in Seq(Line) /\ file \in Seq(Line) /\ backup \in Seq(Line)
        /\ Len(buffer) \in Nat /\ Len(buffer) <= BufLines /\ offered \in Nat
        /\ written \subseteq 1..offered /\ Stretches(backup, file, buffer, offered)
        /\ offered + 1 \in Line
    BY RecorderConstants DEF RecorderInv, Recorder!TypeOK, Line
  <1>2. ASSUME NEW z \in Seq(Line)
        PROVE  /\ Append(z, offered + 1) \in Seq(Line)
               /\ Len(Append(z, offered + 1)) = Len(z) + 1
               /\ Recorder!ToSet(Append(z, offered + 1)) = Recorder!ToSet(z) \cup {offered + 1}
    <2>1. /\ Append(z, offered + 1) \in Seq(Line)
          /\ Len(Append(z, offered + 1)) = Len(z) + 1
          /\ Append(z, offered + 1)[Len(z) + 1] = offered + 1
          /\ \A i \in 1..Len(z) : Append(z, offered + 1)[i] = z[i]
      BY <1>1, AppendProperties
    <2>2. DOMAIN z = 1..Len(z) /\ DOMAIN Append(z, offered + 1) = 1..(Len(z) + 1) /\ Len(z) \in Nat
      BY <2>1, LenProperties
    <2> QED
      BY <2>1, <2>2 DEF Recorder!ToSet
  <1>3. CASE Len(buffer) < BufLines
    <2>1. buffer' = Append(buffer, offered + 1) /\ file' = file /\ written' = written
      BY <1>1, <1>3, RecorderConstants DEF Recorder!Put
    <2>2. Stretches(backup, file, Append(buffer, offered + 1), offered + 1)
      BY <1>1, RecorderConstants, Appended
    <2>3. /\ buffer' \in Seq(Line) /\ Len(buffer') = Len(buffer) + 1
          /\ Recorder!ToSet(buffer') = Recorder!ToSet(buffer) \cup {offered + 1}
      BY <1>1, <1>2, <2>1
    <2>4. Len(buffer') <= BufLines
      BY <1>1, <1>3, <2>3, RecorderConstants
    <2> QED
      BY <1>1, <2>1, <2>2, <2>3, <2>4
  <1>4. CASE Len(buffer) = BufLines
    <2>1. Recorder!WriteOut(BufLines) /\ buffer' = <<offered + 1>>
      BY <1>1, <1>4, RecorderConstants DEF Recorder!Put
    <2>2. /\ SubSeq(buffer, 1, Len(buffer)) = buffer
          /\ SubSeq(buffer, Len(buffer) + 1, Len(buffer)) = <<>>
      BY <1>1, EmptyCuts
    <2>3. file' = file \o buffer /\ written' = written \cup Recorder!ToSet(buffer)
      <3>1. SubSeq(buffer, 1, BufLines) = buffer
        BY <1>4, <2>2
      <3>2. BufLines # 0
        BY RecorderConstants
      <3> QED
        BY <2>1, <3>1, <3>2, Zenon DEF Recorder!WriteOut
    <2>4. Stretches(backup, file \o buffer, <<>>, offered)
      <3>1. Len(buffer) \in 0..Len(buffer)
        BY <1>1
      <3>2. Stretches(backup, file \o SubSeq(buffer, 1, Len(buffer)),
                      SubSeq(buffer, Len(buffer) + 1, Len(buffer)), offered)
        BY <1>1, <3>1, RecorderConstants, WrittenOut
      <3> QED
        BY <2>2, <3>2
    <2>5. file \o buffer \in Seq(Line) /\ <<>> \in Seq(Line) /\ Len(<<>>) = 0
      BY <1>1, ConcatProperties, EmptySeq
    <2>6. Stretches(backup, file \o buffer, Append(<<>>, offered + 1), offered + 1)
      <3>1. ASSUME NEW y \in Seq(Line), NEW z \in Seq(Line), Stretches(backup, y, z, offered)
            PROVE  Stretches(backup, y, Append(z, offered + 1), offered + 1)
        BY <1>1, <3>1, RecorderConstants, Appended
      <3> QED
        BY <2>4, <2>5, <3>1, Zenon
    <2>7. Append(<<>>, offered + 1) = <<offered + 1>>
      OBVIOUS
    <2>8. /\ buffer' \in Seq(Line) /\ Len(buffer') = 1
          /\ Recorder!ToSet(buffer') = {offered + 1}
      <3>1. /\ Append(<<>>, offered + 1) \in Seq(Line)
            /\ Len(Append(<<>>, offered + 1)) = Len(<<>>) + 1
            /\ Recorder!ToSet(Append(<<>>, offered + 1)) = Recorder!ToSet(<<>>) \cup {offered + 1}
        BY <1>2, <2>5
      <3>2. Recorder!ToSet(<<>>) = {}
        BY DEF Recorder!ToSet
      <3> QED
        BY <2>1, <2>5, <2>7, <3>1, <3>2
    <2>9. Recorder!ToSet(buffer) \subseteq 1..offered
      <3>1. DOMAIN buffer = 1..Len(buffer)
        BY <1>1, LenProperties
      <3>2. ASSUME NEW i \in 1..Len(buffer) PROVE buffer[i] \in 1..offered
        <4>1. buffer[i] \in Line /\ buffer[i] <= offered
          BY <1>1, ElementOfSeq DEF Stretches, UpTo
        <4> QED
          BY <1>1, <4>1, RecorderConstants DEF Line
      <3> QED
        BY <3>1, <3>2 DEF Recorder!ToSet
    <2>10. 1 <= BufLines
      BY RecorderConstants
    <2>11. written' \subseteq 1..offered
      BY <1>1, <2>3, <2>9
    <2>12. written' \cup Recorder!ToSet(buffer')
             = written \cup Recorder!ToSet(buffer) \cup {offered'}
      BY <2>3, <2>8
    <2> QED
      BY <1>1, <2>1, <2>3, <2>5, <2>6, <2>7, <2>8, <2>10, <2>11, <2>12
  <1> QED
    BY <1>3, <1>4 DEF Recorder!Put

\* An open file that is emptied, and one that takes the name of the backup.
LEMMA ReopenKeeps ==
  ASSUME NEW x \in Seq(Line), NEW y \in Seq(Line), NEW z \in Seq(Line), NEW n,
         Stretches(x, y, z, n)
  PROVE  /\ Stretches(x, <<>>, <<>>, n) /\ Stretches(y, <<>>, <<>>, n)
         /\ Stretches(y, <<>>, z, n)
  BY DEF Stretches, Increasing, Below, UpTo

\* The initial states of the recorder satisfy the invariant.
LEMMA RecorderInit == Recorder!Init => RecorderInv
  <1> SUFFICES ASSUME Recorder!Init PROVE RecorderInv
    OBVIOUS
  <1>1. Stretches(<<>>, <<>>, <<>>, 0)
    BY DEF Stretches, Increasing, Below, UpTo
  <1>2. Recorder!TypeOK
    <2>1. {buffer, backup, file} \subseteq Seq(1..MaxLines) /\ Len(buffer) <= BufLines
      BY RecorderConstants, EmptySeq DEF Recorder!Init
    <2>2. {sticky, open, failing, closed, exists, full, lastWord} \subseteq BOOLEAN
      BY DEF Recorder!Init
    <2> QED
      BY <2>1, <2>2, RecorderConstants DEF Recorder!Init, Recorder!TypeOK
  <1> QED
    BY <1>1, <1>2 DEF Recorder!Init, RecorderInv

\* What a flush step under Record's lock, or the ticker's, leaves of the invariant.
LEMMA FlushStep ==
  ASSUME RecorderInv, Recorder!FlushOK \/ Recorder!FlushError,
         UNCHANGED <<backup, offered, taken, closed>>
  PROVE  /\ Stretches(backup', file', buffer', offered')
         /\ ({buffer, file, backup} \subseteq Seq(Line))'
         /\ Len(buffer') <= BufLines
         /\ sticky' \in BOOLEAN
         /\ (taken \cup written \subseteq 1..offered)'
         /\ Recorder!FlushOK => buffer' = <<>>
         /\ ~closed => Recorder!Lost' = Recorder!Lost
  <1>1. Moves /\ sticky' \in BOOLEAN /\ (Recorder!FlushOK => buffer' = <<>>)
    BY FlushMoves
  <1>2. /\ Stretches(backup', file', buffer', offered')
        /\ ({buffer, file, backup} \subseteq Seq(Line))'
        /\ Len(buffer') <= BufLines
        /\ written' \subseteq 1..offered
        /\ written' \cup Recorder!ToSet(buffer') = written \cup Recorder!ToSet(buffer)
    BY <1>1, MovesKeep
  <1>3. taken \subseteq 1..offered
    BY DEF RecorderInv, Recorder!TypeOK
  <1>4. ~closed => Recorder!Lost' = Recorder!Lost
    BY <1>2 DEF Recorder!Lost
  <1> QED
    BY <1>1, <1>2, <1>3, <1>4

\* One more call of Record changes nothing about the lines there are.
LEMMA Later ==
  ASSUME NEW x \in Seq(Line), NEW y \in Seq(Line), NEW z \in Seq(Line), NEW n \in Int,
         Stretches(x, y, z, n)
  PROVE  Stretches(x, y, z, n + 1)
  <1>1. ASSUME NEW u \in Seq(Line), UpTo(u, n) PROVE UpTo(u, n + 1)
    <2>1. ASSUME NEW i \in 1..Len(u) PROVE u[i] <= n + 1
      <3>1. u[i] \in Int /\ u[i] <= n
        BY <1>1, <2>1, ElementOfSeq, RecorderConstants DEF UpTo
      <3> QED
        BY <3>1
    <2> QED
      BY <2>1 DEF UpTo
  <1> QED
    BY <1>1 DEF Stretches

\* A step keeps the invariant, and loses a line only with a word about it.
LEMMA RecorderStep ==
  ASSUME RecorderInv, [Recorder!Next]_(Recorder!vars)
  PROVE  /\ RecorderInv'
         /\ Recorder!Lost' # Recorder!Lost => failing \/ lastWord'
  <1>1. /\ mu \in {"free", "rotate", "reopen"}
        /\ {buffer, file, backup} \subseteq Seq(Line) /\ Len(buffer) <= BufLines
        /\ sticky \in BOOLEAN /\ open \in BOOLEAN /\ failing \in BOOLEAN /\ closed \in BOOLEAN
        /\ exists \in BOOLEAN /\ full \in BOOLEAN /\ lastWord \in BOOLEAN
        /\ size \in 0..MaxLines /\ offered \in 0..MaxLines /\ size <= offered
        /\ taken \cup written \subseteq 1..offered
        /\ Stretches(backup, file, buffer, offered)
        /\ mu # "free" => ~closed
        /\ mu = "reopen" /\ ~failing => buffer = <<>>
    BY DEF RecorderInv, Recorder!TypeOK, Line
  <1>2. ASSUME /\ Stretches(backup', file', buffer', offered')
               /\ ({buffer, file, backup} \subseteq Seq(Line))'
               /\ Len(buffer') <= BufLines
               /\ mu' \in {"free", "rotate", "reopen"}
               /\ sticky' \in BOOLEAN /\ open' \in BOOLEAN /\ failing' \in BOOLEAN
               /\ closed' \in BOOLEAN
               /\ exists' \in BOOLEAN /\ full' \in BOOLEAN /\ lastWord' \in BOOLEAN
               /\ size' \in 0..MaxLines /\ offered' \in 0..MaxLines /\ size' <= offered'
               /\ (taken \cup written \subseteq 1..offered)'
               /\ mu' # "free" => ~closed'
               /\ mu' = "reopen" /\ ~failing' => buffer' = <<>>
        PROVE  RecorderInv'
    <2>1. Recorder!TypeOK'
      BY <1>2 DEF Recorder!TypeOK, Line
    <2> QED
      BY <1>2, <2>1 DEF RecorderInv
  <1>3. CASE Recorder!DiskChanges
    <2>1. RecorderInv'
      BY <1>1, <1>2, <1>3 DEF Recorder!DiskChanges, Recorder!recorder, Recorder!history
    <2> QED
      BY <1>3, <2>1 DEF Recorder!DiskChanges, Recorder!recorder, Recorder!history, Recorder!Lost
  <1>4. CASE Recorder!Record
    <2>1. /\ ~closed /\ offered < MaxLines /\ offered' = offered + 1 /\ Recorder!Put(offered')
          /\ taken' = taken \cup {offered'} /\ failing' = FALSE /\ size' = size + 1
          /\ mu' \in {"free", "rotate"}
          /\ UNCHANGED <<sticky, open, closed, exists, backup, full, lastWord>>
      BY <1>4 DEF Recorder!Record, Recorder!note
    <2>2. /\ Stretches(backup', file', buffer', offered')
          /\ ({buffer, file, backup} \subseteq Seq(Line))'
          /\ Len(buffer') <= BufLines
          /\ written' \subseteq 1..offered
          /\ written' \cup Recorder!ToSet(buffer')
               = written \cup Recorder!ToSet(buffer) \cup {offered'}
      BY <2>1, PutKeeps
    <2>3. /\ offered' \in 0..MaxLines /\ size' \in 0..MaxLines /\ size' <= offered'
          /\ offered' \notin taken
          /\ (taken \cup written \subseteq 1..offered)'
      <3>1. /\ taken \subseteq 1..offered /\ written' \subseteq 1..offered
            /\ taken' = taken \cup {offered + 1} /\ offered' = offered + 1 /\ size' = size + 1
            /\ offered \in 0..MaxLines /\ size \in 0..MaxLines /\ size <= offered
            /\ offered < MaxLines
        BY <1>1, <2>1, <2>2
      <3>2. offered' \in 0..MaxLines /\ size' \in 0..MaxLines /\ size' <= offered'
        BY <3>1, RecorderConstants
      <3>3. /\ 1..offered \subseteq 1..offered'
            /\ offered + 1 \in 1..offered' /\ offered + 1 \notin 1..offered
        BY <3>1
      <3> QED
        BY <3>1, <3>2, <3>3
    <2>4. RecorderInv'
      BY <1>1, <1>2, <2>1, <2>2, <2>3
    <2>5. Recorder!Lost' = Recorder!Lost
      BY <2>1, <2>2, <2>3 DEF Recorder!Lost
    <2> QED
      BY <2>4, <2>5
  <1>5. CASE Recorder!RecordFails
    <2>1. /\ ~closed /\ offered < MaxLines /\ offered' = offered + 1 /\ mu = "free"
          /\ Recorder!FlushError /\ failing' \in BOOLEAN
          /\ UNCHANGED <<mu, open, size, closed, exists, backup, full, taken, lastWord>>
      BY <1>5 DEF Recorder!RecordFails, Recorder!note
    <2>2. Moves /\ sticky' \in BOOLEAN
      BY <2>1, FlushMoves
    <2>3. /\ Stretches(backup', file', buffer', offered)
          /\ ({buffer, file, backup} \subseteq Seq(Line))'
          /\ Len(buffer') <= BufLines
          /\ written' \subseteq 1..offered
          /\ written' \cup Recorder!ToSet(buffer') = written \cup Recorder!ToSet(buffer)
      BY <2>1, <2>2, MovesKeep
    <2>4. Stretches(backup', file', buffer', offered')
      <3>1. /\ backup' \in Seq(Line) /\ file' \in Seq(Line) /\ buffer' \in Seq(Line)
            /\ offered \in Int /\ offered' = offered + 1
        BY <1>1, <2>1, <2>3
      <3> QED
        BY <2>3, <3>1, Later
    <2>5. /\ offered' \in 0..MaxLines /\ size' \in 0..MaxLines /\ size' <= offered'
          /\ (taken \cup written \subseteq 1..offered)'
      <3>1. /\ taken' \subseteq 1..offered /\ written' \subseteq 1..offered
            /\ offered' = offered + 1 /\ size' = size
            /\ offered \in 0..MaxLines /\ size \in 0..MaxLines /\ size <= offered
            /\ offered < MaxLines
        BY <1>1, <2>1, <2>3
      <3>2. offered' \in 0..MaxLines /\ size' \in 0..MaxLines /\ size' <= offered'
        BY <3>1, RecorderConstants
      <3>3. 1..offered \subseteq 1..offered'
        BY <3>1
      <3> QED
        BY <3>1, <3>2, <3>3
    <2>6. RecorderInv'
      BY <1>1, <1>2, <2>1, <2>2, <2>3, <2>4, <2>5
    <2>7. Recorder!Lost' = Recorder!Lost
      BY <2>1, <2>3 DEF Recorder!Lost
    <2> QED
      BY <2>6, <2>7
  <1>6. CASE Recorder!RecordClosed
    <2>1. /\ closed /\ offered < MaxLines /\ offered' = offered + 1
          /\ UNCHANGED <<mu, buffer, sticky, open, size, failing, closed, exists, file, backup,
                         full, taken, written, lastWord>>
      BY <1>6 DEF Recorder!RecordClosed, Recorder!recorder, Recorder!disk, Recorder!history
    <2>2. Stretches(backup, file, buffer, offered')
      BY <1>1, <2>1, Later
    <2>3. /\ offered' \in 0..MaxLines /\ size' \in 0..MaxLines /\ size' <= offered'
          /\ (taken \cup written \subseteq 1..offered)'
      BY <1>1, <2>1, RecorderConstants
    <2>4. RecorderInv'
      BY <1>1, <1>2, <2>1, <2>2, <2>3
    <2> QED
      BY <2>1, <2>4 DEF Recorder!Lost
  <1>7. CASE Recorder!RotateFlush
    <2>1. /\ mu = "rotate" /\ mu' = "reopen"
          /\ Recorder!FlushOK \/ Recorder!FlushError
          /\ failing' \in BOOLEAN /\ (~failing' => Recorder!FlushOK)
          /\ UNCHANGED <<open, size, closed, offered, exists, backup, full, taken, lastWord>>
      BY <1>7 DEF Recorder!RotateFlush, Recorder!note
    <2>2. /\ Stretches(backup', file', buffer', offered')
          /\ ({buffer, file, backup} \subseteq Seq(Line))'
          /\ Len(buffer') <= BufLines
          /\ sticky' \in BOOLEAN
          /\ (taken \cup written \subseteq 1..offered)'
          /\ Recorder!FlushOK => buffer' = <<>>
          /\ ~closed => Recorder!Lost' = Recorder!Lost
      BY <2>1, FlushStep
    <2>3. RecorderInv'
      BY <1>1, <1>2, <2>1, <2>2
    <2> QED
      BY <1>1, <2>1, <2>2, <2>3
  <1>8. CASE Recorder!RotateReopen
    <2>1. /\ mu = "reopen" /\ ~closed /\ mu' = "free" /\ exists' \in BOOLEAN /\ open' \in BOOLEAN
          /\ UNCHANGED <<closed, offered, full, taken, written, lastWord>>
      BY <1>1, <1>8 DEF Recorder!RotateReopen, Recorder!history
    <2>2. PICK renamed, opened \in BOOLEAN :
             /\ backup' = IF renamed THEN file ELSE backup
             /\ IF opened
                THEN /\ file' = <<>>
                     /\ buffer' = <<>>
                     /\ sticky' = FALSE
                     /\ size' = 0
                     /\ failing' = FALSE
                ELSE /\ file' = IF renamed THEN <<>> ELSE file
                     /\ UNCHANGED <<buffer, sticky, size, failing>>
      BY <1>8 DEF Recorder!RotateReopen
    <2>3. /\ Stretches(backup', file', buffer', offered)
          /\ ({buffer, file, backup} \subseteq Seq(Line))' /\ Len(buffer') <= BufLines
      <3>1. /\ buffer \in Seq(Line) /\ file \in Seq(Line) /\ backup \in Seq(Line)
            /\ Len(<<>>) = 0 /\ <<>> \in Seq(Line) /\ 0 <= BufLines
            /\ Stretches(backup, file, buffer, offered) /\ Len(buffer) <= BufLines
        BY <1>1, EmptySeq, RecorderConstants
      <3>2. /\ Stretches(backup, <<>>, <<>>, offered) /\ Stretches(file, <<>>, <<>>, offered)
            /\ Stretches(file, <<>>, buffer, offered)
        BY <3>1, ReopenKeeps
      <3>3. CASE opened
        BY <2>2, <3>1, <3>2, <3>3
      <3>4. CASE ~opened
        BY <2>2, <3>1, <3>2, <3>4
      <3> QED
        BY <3>3, <3>4
    <2>4. /\ sticky' \in BOOLEAN /\ failing' \in BOOLEAN
          /\ size' \in 0..MaxLines /\ size' <= offered
      <3>1. CASE opened
        <4>1. sticky' = FALSE /\ failing' = FALSE /\ size' = 0
          BY <2>2, <3>1
        <4>2. 0 \in 0..MaxLines /\ 0 <= offered
          BY <1>1, RecorderConstants
        <4> QED
          BY <4>1, <4>2
      <3>2. CASE ~opened
        <4>1. sticky' = sticky /\ failing' = failing /\ size' = size
          BY <2>2, <3>2
        <4> QED
          BY <1>1, <4>1
      <3> QED
        BY <3>1, <3>2
    <2>5. RecorderInv'
      BY <1>1, <1>2, <2>1, <2>2, <2>3, <2>4
    <2>6. failing \/ buffer' = buffer
      BY <1>1, <2>1, <2>2
    <2> QED
      BY <2>1, <2>5, <2>6 DEF Recorder!Lost
  <1>9. CASE Recorder!FlushTick
    <2>1. /\ mu = "free" /\ ~closed
          /\ Recorder!FlushOK \/ Recorder!FlushError
          /\ failing' \in BOOLEAN
          /\ UNCHANGED <<mu, open, size, closed, offered, exists, backup, full, taken, lastWord>>
      BY <1>9 DEF Recorder!FlushTick, Recorder!note
    <2>2. /\ Stretches(backup', file', buffer', offered')
          /\ ({buffer, file, backup} \subseteq Seq(Line))'
          /\ Len(buffer') <= BufLines
          /\ sticky' \in BOOLEAN
          /\ (taken \cup written \subseteq 1..offered)'
          /\ ~closed => Recorder!Lost' = Recorder!Lost
      BY <2>1, FlushStep
    <2>3. RecorderInv'
      BY <1>1, <1>2, <2>1, <2>2
    <2> QED
      BY <2>1, <2>2, <2>3
  <1>10. CASE Recorder!Close
    <2>1. /\ mu = "free" /\ ~closed /\ closed' = TRUE /\ open' = FALSE
          /\ Recorder!FlushOK \/ Recorder!FlushError
          /\ lastWord' \in BOOLEAN /\ (~lastWord' => Recorder!FlushOK)
          /\ UNCHANGED <<mu, size, failing, offered, exists, backup, full, taken>>
      BY <1>1, <1>10 DEF Recorder!Close
    <2>2. Moves /\ sticky' \in BOOLEAN /\ (Recorder!FlushOK => buffer' = <<>>)
      BY <2>1, FlushMoves
    <2>3. /\ Stretches(backup', file', buffer', offered')
          /\ ({buffer, file, backup} \subseteq Seq(Line))'
          /\ Len(buffer') <= BufLines
          /\ written' \subseteq 1..offered
          /\ written' \cup Recorder!ToSet(buffer') = written \cup Recorder!ToSet(buffer)
      BY <2>1, <2>2, MovesKeep
    <2>4. RecorderInv'
      BY <1>1, <1>2, <2>1, <2>2, <2>3
    <2>5. ~lastWord' => Recorder!Lost' = Recorder!Lost
      <3>1. Recorder!ToSet(<<>>) = {}
        BY DEF Recorder!ToSet
      <3> QED
        BY <2>1, <2>2, <2>3, <3>1 DEF Recorder!Lost
    <2> QED
      BY <2>4, <2>5
  <1>11. CASE UNCHANGED Recorder!vars
    <2>1. UNCHANGED <<mu, buffer, sticky, open, size, failing, closed, offered, exists, file,
                      backup, full, taken, written, lastWord>>
      BY <1>11 DEF Recorder!vars, Recorder!recorder, Recorder!disk, Recorder!history
    <2>2. RecorderInv'
      BY <1>1, <1>2, <2>1
    <2> QED
      BY <2>1, <2>2 DEF Recorder!Lost
  <1> QED
    BY <1>3, <1>4, <1>5, <1>6, <1>7, <1>8, <1>9, <1>10, <1>11 DEF Recorder!Next

\* What is true of the three stretches is true of them in one.
LEMMA InOrder == RecorderInv => Recorder!LinesInOrder
  <1> SUFFICES ASSUME RecorderInv PROVE Recorder!LinesInOrder
    OBVIOUS
  <1>1. /\ buffer \in Seq(Line) /\ file \in Seq(Line) /\ backup \in Seq(Line)
        /\ Stretches(backup, file, buffer, offered)
    BY DEF RecorderInv, Recorder!TypeOK, Line
  <1>2. Increasing(backup \o file) /\ backup \o file \in Seq(Line)
    BY <1>1, RecorderConstants, Joined, ConcatProperties DEF Stretches
  <1>3. Below(backup \o file, buffer)
    BY <1>1, RecorderConstants, JoinedBounds DEF Stretches
  <1>4. Increasing(backup \o file \o buffer)
    BY <1>1, <1>2, <1>3, RecorderConstants, Joined DEF Stretches
  <1> QED
    BY <1>4 DEF Increasing, Recorder!LinesInOrder

\* The recorder alone.
LEMMA RecorderSafe ==
  Recorder!Spec => []Recorder!TypeOK /\ []Recorder!LinesInOrder /\ Recorder!LossIsReported
  <1>1. RecorderInv => Recorder!TypeOK /\ Recorder!LinesInOrder
    BY InOrder DEF RecorderInv
  <1>2. RecorderInv /\ [Recorder!Next]_(Recorder!vars)
          => [Recorder!Lost' # Recorder!Lost => failing \/ lastWord']_(Recorder!vars)
    BY RecorderStep
  <1>3. RecorderInv /\ [Recorder!Next]_(Recorder!vars) => RecorderInv'
    BY RecorderStep
  <1> QED
    BY RecorderInit, <1>1, <1>2, <1>3, PTL DEF Recorder!Spec, Recorder!LossIsReported

\* What Gateway does is, for the recorder, what it does alone.
LEMMA RecorderPart == Spec => Recorder!Spec
  <1>1. Init => Recorder!Init
    BY DEF Init
  <1>2. [Next]_gatewayVars => [Recorder!Next]_(Recorder!vars)
    BY DEF Next, OfIngest, OfRecorder, OfSupervisor, OfOnboard, OfLid, OfStreaming, gatewayVars,
           recorderVars, Recorder!vars, Recorder!recorder, Recorder!disk, Recorder!history
  <1> QED
    BY <1>1, <1>2, PTL DEF Spec, Recorder!Spec

\* recorder.go: what there is to read later is in the order it was recorded and without
\* a line twice, across rotations, partial writes and files that could not be reopened.
THEOREM LinesInOrderHolds == Spec => []LinesInOrder
  BY RecorderPart, RecorderSafe, PTL DEF LinesInOrder

\* recorder.go: no line that Record took is lost unless the recorder had said that it is
\* failing, or Close says so.
THEOREM LossIsReportedHolds == Spec => LossIsReported
  BY RecorderPart, RecorderSafe, PTL DEF LossIsReported

-----------------------------------------------------------------------------
\* The telemetry consumer. Two goroutines take sockets out of c.sub and close them with
\* the lock released: the invariant names the one holder of each open socket.

\* The goroutine has taken its socket out of reach of Stop, to install or close it.
InHand == loop \in {"dialled", "installed", "reconnecting"}

\* Each socket has one holder at most, and what is held is open.
Holders ==
  /\ sub # None => sub \in 1..dialled /\ closes[sub] = 0
  /\ InHand /\ sock # None => sock \in 1..dialled /\ closes[sock] = 0 /\ sock # sub
  /\ stop = "closing" /\ old # None =>
        /\ old \in 1..dialled /\ closes[old] = 0 /\ old # sub
        /\ InHand => old # sock
  /\ loop \in {"dialled", "recv", "handle"} => sock \in 1..dialled

\* A socket that is not yet dialled has not been closed.
Undialled == \A s \in Ingest!Sockets : s > dialled => closes[s] = 0

\* What the link, the goroutine and Stop know of each other.
Shutdown ==
  /\ connected <=> sub # None
  /\ ctxDone <=> stop # "not_called"
  /\ loop \in {"start", "dial", "dialled", "backoff", "reconnecting"} => sub = None
  /\ loop \in {"installed", "loop", "recv", "handle", "reconnect"} => sub # None \/ ctxDone
  /\ loop = "exited" => ctxDone
  /\ stop \in {"closing", "waiting", "joined", "gave_up"} => sub = None
  /\ stop = "joined" => loop = "exited"

\* The inductive invariant of the consumer.
IngestInv ==
  /\ Ingest!TypeOK
  /\ Holders /\ Undialled /\ Shutdown
  /\ \A s \in Ingest!Sockets : closes[s] \in {0, 1}
  /\ Ingest!NoLeak
  /\ left + writes <= MaxFields

\* The constants of the consumer, as the assumption has them.
LEMMA IngestConstants ==
  /\ MaxSockets \in Nat \ {0} /\ MaxFields \in Nat /\ None \notin 1..MaxSockets
  BY GatewayAssumption DEF GatewayAssumption, Ingest!IngestAssumption

\* The initial states of the consumer satisfy the invariant.
LEMMA IngestInit == Ingest!Init => IngestInv
  <1> SUFFICES ASSUME Ingest!Init PROVE IngestInv
    OBVIOUS
  <1> USE IngestConstants DEF Ingest!Init
  <1>1. Ingest!TypeOK
    <2>1. {ctxDone, started} \subseteq BOOLEAN
      OBVIOUS
    <2>2. closes \in [Ingest!Sockets -> Nat]
      OBVIOUS
    <2>3. fault \in [Ingest!Sockets -> {"none", "pending", "dead"}]
      OBVIOUS
    <2>4. dialled \in 0..MaxSockets /\ left \in 0..MaxFields /\ writes \in 0..MaxFields
      OBVIOUS
    <2> QED
      BY <2>1, <2>2, <2>3, <2>4 DEF Ingest!TypeOK
  <1>2. Holders
    BY DEF Holders, InHand
  <1>3. Undialled
    BY DEF Undialled, Ingest!Sockets
  <1>4. Shutdown
    BY DEF Shutdown
  <1>5. Ingest!NoLeak
    BY DEF Ingest!NoLeak
  <1>6. \A s \in Ingest!Sockets : closes[s] \in {0, 1}
    OBVIOUS
  <1> QED
    BY <1>1, <1>2, <1>3, <1>4, <1>5, <1>6 DEF IngestInv

\* Every action of the consumer keeps the invariant.
LEMMA IngestStep ==
  ASSUME IngestInv, [Ingest!Next]_(Ingest!vars)
  PROVE  IngestInv'
  <1> USE IngestConstants
      DEF IngestInv, Ingest!TypeOK, Holders, Undialled, Shutdown, InHand, Ingest!NoLeak,
          Ingest!Sockets, Ingest!Close, Ingest!stopVars, Ingest!zmqVars, Ingest!goroutine
  <1>1. CASE Ingest!DialFails
    BY <1>1 DEF Ingest!DialFails
  <1>2. CASE Ingest!DialSucceeds
    BY <1>2 DEF Ingest!DialSucceeds
  <1>3. CASE Ingest!SetSocketLate
    BY <1>3 DEF Ingest!SetSocketLate
  <1>4. CASE Ingest!SetSocket
    BY <1>4 DEF Ingest!SetSocket
  <1>5. CASE Ingest!CloseOld
    BY SMTT(20), <1>5 DEF Ingest!CloseOld
  <1>6. CASE Ingest!Backoff
    BY <1>6 DEF Ingest!Backoff
  <1>7. CASE Ingest!TakeSocket
    BY <1>7 DEF Ingest!TakeSocket
  <1>8. CASE Ingest!RecvMessage
    <2> USE <1>8 DEF Ingest!RecvMessage
    <2>1. Ingest!TypeOK'
      <3>1. left' \in 0..MaxFields
        OBVIOUS
      <3> QED BY <3>1
    <2>2. Holders'
      OBVIOUS
    <2>3. Undialled'
      OBVIOUS
    <2>4. Shutdown'
      OBVIOUS
    <2>5. Ingest!NoLeak'
      OBVIOUS
    <2>6. (left + writes)' <= MaxFields
      OBVIOUS
    <2> QED BY <2>1, <2>2, <2>3, <2>4, <2>5, <2>6
  <1>9. CASE Ingest!RecvError
    BY <1>9 DEF Ingest!RecvError
  <1>10. CASE Ingest!WriteField
    BY <1>10 DEF Ingest!WriteField
  <1>11. CASE Ingest!HandleReturns
    BY <1>11 DEF Ingest!HandleReturns
  <1>12. CASE Ingest!Reconnect
    BY <1>12 DEF Ingest!Reconnect
  <1>13. CASE Ingest!CloseFaulted
    BY SMTT(20), <1>13 DEF Ingest!CloseFaulted
  <1>14. CASE Ingest!Cancel
    BY <1>14 DEF Ingest!Cancel
  <1>15. CASE Ingest!StopTakesSocket
    BY <1>15 DEF Ingest!StopTakesSocket
  <1>16. CASE Ingest!StopCloses
    BY <1>16 DEF Ingest!StopCloses
  <1>17. CASE Ingest!StopJoins
    BY <1>17 DEF Ingest!StopJoins
  <1>18. CASE Ingest!StopGivesUp
    BY <1>18 DEF Ingest!StopGivesUp
  <1>19. ASSUME NEW s \in Ingest!Sockets, Ingest!Fault(s) PROVE IngestInv'
    BY <1>19 DEF Ingest!Fault
  <1>20. CASE UNCHANGED Ingest!vars
    BY <1>20 DEF Ingest!vars
  <1> QED
    BY <1>1, <1>2, <1>3, <1>4, <1>5, <1>6, <1>7, <1>8, <1>9, <1>10, <1>11, <1>12, <1>13,
       <1>14, <1>15, <1>16, <1>17, <1>18, <1>19, <1>20
    DEF Ingest!Next, Ingest!LoopStep, Ingest!StopStep

\* What the properties need of the invariant.
LEMMA IngestImplies == IngestInv => Ingest!SocketsAccounted
  BY DEF IngestInv, Ingest!TypeOK, Shutdown, Ingest!SocketsAccounted, Ingest!NoDoubleClose,
         Ingest!ConnectedIsTrue, Ingest!StaysDown

\* An exited goroutine writes nothing.
LEMMA IngestJoined ==
  ASSUME IngestInv, [Ingest!Next]_(Ingest!vars), stop = "joined"
  PROVE  UNCHANGED writes
  BY DEF IngestInv, Shutdown, Ingest!Next, Ingest!LoopStep, Ingest!StopStep, Ingest!vars,
         Ingest!DialFails, Ingest!DialSucceeds, Ingest!SetSocketLate, Ingest!SetSocket,
         Ingest!CloseOld, Ingest!Backoff, Ingest!TakeSocket, Ingest!RecvMessage,
         Ingest!RecvError, Ingest!WriteField, Ingest!HandleReturns, Ingest!Reconnect,
         Ingest!CloseFaulted, Ingest!Cancel, Ingest!StopTakesSocket, Ingest!StopCloses,
         Ingest!StopJoins, Ingest!StopGivesUp, Ingest!Fault

\* The consumer alone: each socket is closed once, and a Stop that joined is the end.
LEMMA IngestSafe ==
  Ingest!Spec => /\ [](Ingest!TypeOK /\ Ingest!SocketsAccounted)
                 /\ Ingest!NoWriteAfterStop
  <1>1. IngestInv => Ingest!TypeOK /\ Ingest!SocketsAccounted
    BY IngestImplies DEF IngestInv
  <1>2. IngestInv /\ [Ingest!Next]_(Ingest!vars) => IngestInv'
    BY IngestStep
  <1>3. IngestInv /\ [Ingest!Next]_(Ingest!vars)
          => [stop = "joined" => UNCHANGED writes]_(Ingest!vars)
    BY IngestJoined
  <1> QED
    BY IngestInit, <1>1, <1>2, <1>3, PTL DEF Ingest!Spec, Ingest!NoWriteAfterStop

\* What Gateway does is, for the consumer, what it does alone.
LEMMA IngestPart == Spec => Ingest!Spec
  <1>1. Init => Ingest!Init
    BY DEF Init
  <1>2. [Next]_gatewayVars => [Ingest!Next]_(Ingest!vars)
    BY DEF Next, OfIngest, OfRecorder, OfSupervisor, OfOnboard, OfLid, OfStreaming, gatewayVars,
           ingestVars, Ingest!vars,
           Ingest!goroutine, Ingest!stopVars, Ingest!zmqVars
  <1> QED
    BY <1>1, <1>2, PTL DEF Spec, Ingest!Spec

-----------------------------------------------------------------------------
\* The supervisor. A child exists exactly while run has one to wait for.

SupervisorInv ==
  /\ Supervisor!TypeOK
  /\ supLoop \in {"run", "stopping"} <=> child # "none"
  /\ pipeOpen <=> supLoop \in {"run", "stopping"}
  /\ pipe # <<>> => pipeOpen
  /\ logged + Len(pipe) <= childWrote

\* The constants of the supervisor, as the assumption has them.
LEMMA SupervisorConstants ==
  /\ {MinBackoff, MaxBackoff, PipeLines} \subseteq Nat \ {0}
  /\ MinBackoff <= MaxBackoff
  /\ LineKinds \subseteq {"short", "long"}
  /\ MaxWritten \in Nat
  BY GatewayAssumption DEF GatewayAssumption, Supervisor!SupervisorAssumption

\* The doubled backoff, cut at its maximum.
LEMMA MinOfTwo ==
  ASSUME NEW a \in Nat, NEW b \in Nat
  PROVE  Supervisor!Min({a, b}) \in {a, b} /\ \A x \in {a, b} : Supervisor!Min({a, b}) <= x
  <1>1. \E x \in {a, b} : \A y \in {a, b} : x <= y
    OBVIOUS
  <1> QED
    BY <1>1 DEF Supervisor!Min

\* The initial states of the supervisor satisfy the invariant.
LEMMA SupervisorInit == Supervisor!Init => SupervisorInv
  <1> SUFFICES ASSUME Supervisor!Init PROVE SupervisorInv
    OBVIOUS
  <1>1. {pipeOpen, killAt} \subseteq BOOLEAN
    BY DEF Supervisor!Init
  <1>2. /\ backoff \in MinBackoff..MaxBackoff
        /\ childWrote \in 0..MaxWritten /\ logged \in 0..childWrote
    BY SupervisorConstants DEF Supervisor!Init
  <1>3. pipe \in Seq(LineKinds) /\ Len(pipe) <= PipeLines /\ logged + Len(pipe) <= childWrote
    BY SupervisorConstants DEF Supervisor!Init
  <1> QED
    BY <1>1, <1>2, <1>3 DEF Supervisor!Init, SupervisorInv, Supervisor!TypeOK

\* Every action of the supervisor keeps the invariant.
LEMMA SupervisorStep ==
  ASSUME SupervisorInv, [Supervisor!Next]_(Supervisor!vars)
  PROVE  SupervisorInv'
  <1> USE SupervisorConstants DEF SupervisorInv, Supervisor!TypeOK
  <1>1. CASE Supervisor!Cancel
    BY <1>1 DEF Supervisor!Cancel
  <1>2. CASE Supervisor!SeesCancel
    BY <1>2 DEF Supervisor!SeesCancel
  <1>3. CASE Supervisor!Begin
    BY <1>3 DEF Supervisor!Begin
  <1>4. CASE Supervisor!StartChild
    <2> USE <1>4 DEF Supervisor!StartChild
    <2>1. pipe = <<>> /\ pipe' = <<>> /\ Len(pipe) = 0
      OBVIOUS
    <2>2. ({pipeOpen, killAt} \subseteq BOOLEAN)'
      OBVIOUS
    <2>3. (pipeOpen <=> supLoop \in {"run", "stopping"})'
      OBVIOUS
    <2> QED
      BY <2>1, <2>2, <2>3
  <1>5. CASE Supervisor!Terminate
    BY <1>5 DEF Supervisor!Terminate
  <1>6. CASE Supervisor!Reaps
    <2> USE <1>6 DEF Supervisor!Reaps
    <2>1. pipe' \in Seq(LineKinds) /\ Len(pipe') = 0 /\ Len(pipe) >= 0
      OBVIOUS
    <2>2. ({pipeOpen, killAt} \subseteq BOOLEAN)'
      OBVIOUS
    <2> QED
      BY <2>1, <2>2
  <1>7. CASE Supervisor!Drained
    BY <1>7 DEF Supervisor!Drained
  <1>8. CASE Supervisor!AfterRun
    BY <1>8 DEF Supervisor!AfterRun, Supervisor!Base
  <1>9. CASE Supervisor!Waited
    <2>1. backoff' \in MinBackoff..MaxBackoff
      BY <1>9, MinOfTwo, 2 * backoff \in Nat DEF Supervisor!Waited
    <2> QED
      BY <1>9, <2>1 DEF Supervisor!Waited
  <1>10. CASE Supervisor!Kill
    BY <1>10 DEF Supervisor!Kill
  <1>11. CASE Supervisor!Forward
    BY <1>11 DEF Supervisor!Forward
  <1>12. CASE Supervisor!StreamEnds
    BY <1>12 DEF Supervisor!StreamEnds
  <1>13. CASE Supervisor!ChildWrites
    BY <1>13 DEF Supervisor!ChildWrites
  <1>14. CASE Supervisor!ChildExits
    BY <1>14 DEF Supervisor!ChildExits
  <1>15. CASE UNCHANGED Supervisor!vars
    BY <1>15 DEF Supervisor!vars
  <1> QED
    BY <1>1, <1>2, <1>3, <1>4, <1>5, <1>6, <1>7, <1>8, <1>9, <1>10, <1>11, <1>12, <1>13,
       <1>14, <1>15 DEF Supervisor!Next

\* No child outlives the supervisor, in whatever order it exits and is cancelled.
LEMMA SupervisorSafe == Supervisor!Spec => [](Supervisor!TypeOK /\ Supervisor!NoOrphan)
  <1>1. SupervisorInv => Supervisor!TypeOK /\ Supervisor!NoOrphan
    BY DEF SupervisorInv, Supervisor!NoOrphan
  <1> QED
    BY SupervisorInit, SupervisorStep, <1>1, PTL DEF Supervisor!Spec

\* What Gateway does is, for the supervisor, what it does alone.
LEMMA SupervisorPart == Spec => Supervisor!Spec
  <1>1. Init => Supervisor!Init
    BY DEF Init
  <1>2. [Next]_gatewayVars => [Supervisor!Next]_(Supervisor!vars)
    BY DEF Next, OfIngest, OfRecorder, OfSupervisor, OfOnboard, OfLid, OfStreaming, gatewayVars,
           supervisorVars, Supervisor!vars
  <1> QED
    BY <1>1, <1>2, PTL DEF Spec, Supervisor!Spec

-----------------------------------------------------------------------------
\* Streaming. The entry of a tag names a pusher of that tag that was not stopped.

StreamingInv ==
  /\ Streaming!TypeOK
  /\ Streaming!OnePusherPerTag
  /\ \A t \in Tags : pushers[t] # 0 => stopped[pushers[t]] = 0 /\ tagOf[pushers[t]] = t
  /\ \A p \in Streaming!Pushers : p > subscribed => stopped[p] = 0

\* The constants of the streaming connection, as the assumption has them.
LEMMA StreamingConstants ==
  /\ Known \subseteq Tags
  /\ Tags # {}
  /\ MaxPusher \in Nat
  BY GatewayAssumption DEF GatewayAssumption, Streaming!StreamingAssumption

\* The initial states of the streaming connection satisfy the invariant.
LEMMA StreamingInit == Streaming!Init => StreamingInv
  <1> SUFFICES ASSUME Streaming!Init PROVE StreamingInv
    OBVIOUS
  <1>1. (CHOOSE t \in Tags : TRUE) \in Tags
    BY StreamingConstants
  <1>2. tagOf \in [Streaming!Pushers -> Tags]
    BY <1>1 DEF Streaming!Init
  <1>3. Streaming!OnePusherPerTag
    BY DEF Streaming!Init, Streaming!OnePusherPerTag
  <1>4. Streaming!TypeOK
    <2>1. /\ handler = "reading" /\ broken \in BOOLEAN
          /\ pushers = [t \in Tags |-> 0] /\ subscribed = 0
          /\ stopped = [p \in Streaming!Pushers |-> 0]
          /\ pusher = [p \in Streaming!Pushers |-> "none"]
      BY DEF Streaming!Init
    <2> QED
      BY <1>2, <2>1, StreamingConstants DEF Streaming!TypeOK
  <1> QED
    BY <1>3, <1>4 DEF Streaming!Init, StreamingInv

\* Every action of the streaming connection keeps the invariant.
LEMMA StreamingStep ==
  ASSUME StreamingInv, [Streaming!Next]_(Streaming!vars)
  PROVE  StreamingInv'
  <1> USE StreamingConstants
      DEF StreamingInv, Streaming!TypeOK, Streaming!OnePusherPerTag, Streaming!Pushers,
          Streaming!Stops, Streaming!subs
  <1>1. CASE Streaming!Break
    BY <1>1 DEF Streaming!Break
  <1>2. ASSUME NEW t \in Tags, Streaming!Subscribe(t) PROVE StreamingInv'
    <2>1. /\ subscribed' = subscribed + 1 /\ subscribed' \in 1..MaxPusher
          /\ pushers' = [pushers EXCEPT ![t] = subscribed']
          /\ tagOf' = [tagOf EXCEPT ![subscribed'] = t]
          /\ stopped' = [p \in Streaming!Pushers |->
                           IF pushers[t] = p THEN stopped[p] + 1 ELSE stopped[p]]
          /\ handler = "reading" /\ UNCHANGED <<handler, broken>>
      BY <1>2 DEF Streaming!Subscribe
    <2>2. stopped' \in [Streaming!Pushers -> 0..1]
      <3> SUFFICES ASSUME NEW p \in Streaming!Pushers PROVE stopped'[p] \in 0..1
        BY <2>1
      <3>1. CASE pushers[t] = p
        <4>1. stopped[p] = 0
          BY <3>1
        <4> QED
          BY <2>1, <3>1, <4>1
      <3>2. CASE pushers[t] # p
        BY <2>1, <3>2
      <3> QED
        BY <3>1, <3>2
    <2>3. pusher' \in [Streaming!Pushers -> {"none", "select", "write", "ended"}]
      BY <1>2, <2>1 DEF Streaming!Subscribe
    <2>4. Streaming!OnePusherPerTag'
      BY <2>1
    <2>5. ASSUME NEW u \in Tags, pushers'[u] # 0
          PROVE  stopped'[pushers'[u]] = 0 /\ tagOf'[pushers'[u]] = u
      <3>1. CASE u = t
        BY <2>1, <3>1
      <3>2. CASE u # t
        <4>1. pushers'[u] = pushers[u] /\ pushers[u] \in 1..subscribed /\ pushers[u] # pushers[t]
          BY <2>1, <2>5, <3>2
        <4> QED
          BY <2>1, <4>1
      <3> QED
        BY <3>1, <3>2
    <2>6. pushers' \in [Tags -> 0..subscribed'] /\ tagOf' \in [Streaming!Pushers -> Tags]
      BY <2>1
    <2> QED
      BY <2>1, <2>2, <2>3, <2>4, <2>5, <2>6
  <1>3. ASSUME NEW ts \in SUBSET Tags, Streaming!Unsubscribe(ts) PROVE StreamingInv'
    <2> USE <1>3 DEF Streaming!Unsubscribe
    <2>1. pushers' \in [Tags -> 0..subscribed]
      OBVIOUS
    <2>2. ASSUME NEW p \in Streaming!Pushers PROVE stopped'[p] \in 0..1
      BY Z3
    <2>3. Streaming!OnePusherPerTag'
      OBVIOUS
    <2>4. ASSUME NEW t \in Tags, pushers'[t] # 0
          PROVE  stopped'[pushers'[t]] = 0 /\ tagOf'[pushers'[t]] = t
      <3>1. t \notin ts /\ pushers'[t] = pushers[t] /\ pushers[t] \in 1..MaxPusher
        BY <2>4
      <3>2. \A u \in ts : pushers[u] # pushers[t]
        BY <3>1
      <3> QED
        BY <3>1, <3>2
    <2>5. stopped' \in [Streaming!Pushers -> 0..1]
      BY <2>2
    <2> QED
      BY <2>1, <2>3, <2>4, <2>5
  <1>4. CASE Streaming!Return
    BY <1>4 DEF Streaming!Return
  <1>5. ASSUME NEW p \in Streaming!Pushers, Streaming!Build(p) PROVE StreamingInv'
    BY <1>5 DEF Streaming!Build
  <1>6. ASSUME NEW p \in Streaming!Pushers, Streaming!SeesStop(p) PROVE StreamingInv'
    BY <1>6 DEF Streaming!SeesStop
  <1>7. ASSUME NEW p \in Streaming!Pushers, Streaming!Write(p) PROVE StreamingInv'
    BY <1>7 DEF Streaming!Write
  <1>8. CASE UNCHANGED Streaming!vars
    BY <1>8 DEF Streaming!vars
  <1> QED
    BY <1>1, <1>2, <1>3, <1>4, <1>5, <1>6, <1>7, <1>8 DEF Streaming!Next

\* Subscriptions that are repeated and overlap leave one pusher per tag.
LEMMA StreamingSafe == Streaming!Spec => [](Streaming!TypeOK /\ Streaming!OnePusherPerTag)
  <1>1. StreamingInv => Streaming!TypeOK /\ Streaming!OnePusherPerTag
    BY DEF StreamingInv
  <1> QED
    BY StreamingInit, StreamingStep, <1>1, PTL DEF Streaming!Spec

\* What Gateway does is, for the streaming connection, what it does alone.
LEMMA StreamingPart == Spec => Streaming!Spec
  <1>1. Init => Streaming!Init
    BY DEF Init
  <1>2. [Next]_gatewayVars => [Streaming!Next]_(Streaming!vars)
    BY DEF Next, OfIngest, OfRecorder, OfSupervisor, OfOnboard, OfLid, OfStreaming, gatewayVars,
           streamingVars, Streaming!vars, Streaming!subs
  <1> QED
    BY <1>1, <1>2, PTL DEF Spec, Streaming!Spec

-----------------------------------------------------------------------------
\* The lids. With prompt reports, what the store has seen is unknown or true.

LidInv ==
  /\ Lid!TypeOK
  /\ Lid!LidsObey
  /\ prompt => reports = <<>> /\ \A l \in Lid!Lids : seen[l] \in {"unknown", lid[l]}
  /\ prompt /\ command # None /\ command.lid = "TrunkRear" => lid["TrunkRear"] # command.want

\* The constants of the lids, as the assumption has them.
LEMMA LidConstants ==
  /\ MaxReports \in Nat
  /\ None \notin Lid!Reasons
  /\ None \notin Lid!Commands /\ None \notin Lid!Refusals /\ None \notin Lid!Actions
  BY GatewayAssumption DEF GatewayAssumption, Lid!LidAssumption

\* The initial states of the lids satisfy the invariant.
LEMMA LidInit == Lid!Init => LidInv
  BY LidConstants
  DEF Lid!Init, LidInv, Lid!TypeOK, Lid!LidsObey, Lid!Lids, Lid!States

\* A lid that changes, or is reported, keeps the types and what the store knows.
LEMMA Moving ==
  ASSUME LidInv, NEW l \in Lid!Lids, NEW s \in Lid!States, Len(reports) < MaxReports,
         Lid!Moves(l, s), UNCHANGED prompt
  PROVE  /\ lid' \in [Lid!Lids -> Lid!States]
         /\ lid'[l] = s /\ \A k \in Lid!Lids \ {l} : lid'[k] = lid[k]
         /\ reports' \in Seq(Lid!Messages) /\ Len(reports') <= MaxReports
         /\ seen' \in [Lid!Lids -> Lid!States \cup {"unknown"}]
         /\ prompt => reports' = <<>> /\ \A k \in Lid!Lids : seen'[k] \in {"unknown", lid'[k]}
  <1> USE LidConstants DEF LidInv, Lid!TypeOK, Lid!Moves
  <1>1. CASE prompt
    BY <1>1
  <1>2. CASE ~prompt
    <2>1. [lid |-> l, is |-> s] \in Lid!Messages
      BY DEF Lid!Messages
    <2>2. reports' = Append(reports, [lid |-> l, is |-> s]) /\ seen' = seen
      BY <1>2
    <2>3. reports' \in Seq(Lid!Messages) /\ Len(reports') <= MaxReports
      BY <2>1, <2>2
    <2>4. lid' = [lid EXCEPT ![l] = s]
      OBVIOUS
    <2> QED
      BY <1>2, <2>1, <2>2, <2>3, <2>4
  <1> QED
    BY <1>1, <1>2

\* Every action of the lids keeps the invariant.
LEMMA LidStep ==
  ASSUME LidInv, [Lid!Next]_(Lid!vars)
  PROVE  LidInv'
  <1> USE LidConstants DEF LidInv, Lid!TypeOK, Lid!LidsObey
  <1>1. ASSUME NEW l \in Lid!Lids, Lid!ByHand(l) PROVE LidInv'
    <2> PICK s \in Lid!States \ {lid[l]} : Lid!Moves(l, s)
      BY <1>1 DEF Lid!ByHand
    <2> QED
      BY <1>1, Moving DEF Lid!ByHand
  <1>2. ASSUME NEW l \in Lid!Lids, Lid!Reports(l) PROVE LidInv'
    <2>1. lid' = lid
      BY <1>2 DEF Lid!Reports, Lid!Moves
    <2> QED
      BY <1>2, <2>1, Moving DEF Lid!Reports
  <1>3. CASE Lid!Ingested
    <2>1. reports # <<>> /\ ~prompt
      BY <1>3 DEF Lid!Ingested
    <2>5. reports \in Seq(Lid!Messages)
      OBVIOUS
    <2>2. /\ Head(reports) \in Lid!Messages
          /\ Tail(reports) \in Seq(Lid!Messages)
          /\ Len(Tail(reports)) <= MaxReports
      BY <2>1, <2>5, HeadTailProperties
    <2>3. Head(reports).lid \in Lid!Lids /\ Head(reports).is \in Lid!States
      BY <2>2 DEF Lid!Messages
    <2> QED
      BY <1>3, <2>1, <2>2, <2>3 DEF Lid!Ingested
  <1>4. ASSUME NEW l \in Lid!Lids, NEW want \in Lid!States, Lid!Handle(l, want)
        PROVE  LidInv'
    <2> DEFINE why == Lid!Refusal(l, want)
    <2>1. /\ command' = IF why # None THEN None ELSE [lid |-> l, want |-> want]
          /\ refused' = IF why = None THEN None
                        ELSE [lid |-> l, want |-> want, why |-> why, was |-> lid[l]]
          /\ UNCHANGED <<prompt, lid, reports, seen, acted>>
      BY <1>4 DEF Lid!Handle
    <2>2. CASE why # None
      <3>1. why \in Lid!Reasons
        BY <2>2 DEF Lid!Refusal, Lid!Reasons
      <3>2. refused' = [lid |-> l, want |-> want, why |-> why, was |-> lid[l]]
        BY <2>1, <2>2
      <3>3. refused' \in Lid!Refusals
        BY <3>1, <3>2 DEF Lid!Refusals
      <3>4. prompt /\ why = "already" => lid[l] = want
        <4>1. why = "already" => seen[l] = want
          BY DEF Lid!Refusal, Lid!Reasons
        <4> QED
          BY <4>1 DEF Lid!States
      <3>5. command' = None /\ refused'.why = why /\ refused'.was = lid[l] /\ refused'.want = want
        BY <2>1, <2>2, <3>2
      <3> HIDE DEF why
      <3> QED
        BY <2>1, <3>3, <3>4, <3>5
    <2>3. CASE why = None
      <3>1. ~(l = "TrunkFront" /\ want = "closed") /\ ~(l = "TrunkRear" /\ seen[l] = "unknown")
            /\ seen[l] # want
        BY <2>3 DEF Lid!Refusal, Lid!Reasons
      <3>2. command' = [lid |-> l, want |-> want] /\ refused' = None
        BY <2>1, <2>3
      <3>3. command' \in [lid : {"TrunkRear"}, want : Lid!States]
                           \cup [lid : {"TrunkFront"}, want : {"open"}]
        BY <3>1, <3>2 DEF Lid!Lids, Lid!States
      <3>4. prompt /\ l = "TrunkRear" => lid[l] # want
        BY <3>1 DEF Lid!States
      <3>5. command'.lid = l /\ command'.want = want
        BY <3>2
      <3> HIDE DEF why
      <3> QED
        BY <2>1, <3>2, <3>3, <3>4, <3>5
    <2> QED
      BY <2>2, <2>3
  <1>5. CASE Lid!Actuate
    <2> DEFINE l == command.lid
               s == IF l = "TrunkRear" /\ lid[l] = "open" THEN "closed" ELSE "open"
    <2>1. command # None /\ l \in Lid!Lids /\ command.want \in Lid!States /\ s \in Lid!States
      BY <1>5 DEF Lid!Actuate, Lid!Lids, Lid!States
    <2>2. /\ Lid!Moves(l, s) /\ Len(reports) < MaxReports /\ command' = None
          /\ acted' = [lid |-> l, want |-> command.want, was |-> lid[l]]
          /\ UNCHANGED <<prompt, refused>>
      BY <1>5 DEF Lid!Actuate
    <2>3. /\ acted' \in Lid!Actions
          /\ acted'.lid = l /\ acted'.want = command.want /\ acted'.was = lid[l]
      BY <2>1, <2>2 DEF Lid!Actions
    <2>4. l = "TrunkFront" => command.want = "open"
      BY <2>1
    <2>5. l # "TrunkFront" => l = "TrunkRear"
      BY <2>1 DEF Lid!Lids
    <2> HIDE DEF l, s
    <2> QED
      BY <2>1, <2>2, <2>3, <2>4, <2>5, Moving DEF l
  <1>6. CASE Lid!Fails
    BY <1>6 DEF Lid!Fails
  <1>7. CASE UNCHANGED Lid!vars
    BY <1>7 DEF Lid!vars
  <1> QED
    BY <1>1, <1>2, <1>3, <1>4, <1>5, <1>6, <1>7 DEF Lid!Next

\* A lid moves as asked and a refusal is true.
LEMMA LidSafe == Lid!Spec => [](Lid!TypeOK /\ Lid!LidsObey)
  <1>1. LidInv => Lid!TypeOK /\ Lid!LidsObey
    BY DEF LidInv
  <1> QED
    BY LidInit, LidStep, <1>1, PTL DEF Lid!Spec

\* What Gateway does is, for the lids, what it does alone.
LEMMA LidPart == Spec => Lid!Spec
  <1>1. Init => Lid!Init
    BY DEF Init
  <1>2. [Next]_gatewayVars => [Lid!Next]_(Lid!vars)
    BY DEF Next, OfIngest, OfRecorder, OfSupervisor, OfOnboard, OfLid, OfStreaming, gatewayVars,
           lidVars, Lid!vars
  <1> QED
    BY <1>1, <1>2, PTL DEF Spec, Lid!Spec

-----------------------------------------------------------------------------
\* The wizard. What state.json says follows what happened on disk and at Tesla.

OnboardInv ==
  /\ Onboard!TypeOK
  /\ Onboard!StepsTrue
  /\ gen # "free" => made > 0
  /\ gen \in {"public", "state"} => private > 0
  /\ gen = "state" => public > 0
  /\ request = "granted" => \E d \in Domains : partner[d] > 0

\* The constants of the wizard, as the assumption has them.
LEMMA OnboardConstants == None \notin Domains /\ MaxKeys \in Nat
  BY GatewayAssumption DEF GatewayAssumption, Onboard!OnboardAssumption

\* The initial states of the wizard satisfy the invariant.
LEMMA OnboardInit == Onboard!Init => OnboardInv
  BY OnboardConstants
  DEF Onboard!Init, OnboardInv, Onboard!TypeOK, Onboard!StepsTrue, Onboard!HasKeysHaveFiles,
      Onboard!DoneWasGranted, Onboard!Progress, Onboard!Fresh

\* Every action of the wizard keeps the invariant.
LEMMA OnboardStep ==
  ASSUME OnboardInv, [Onboard!Next]_(Onboard!vars)
  PROVE  OnboardInv'
  <1> USE OnboardConstants
      DEF OnboardInv, Onboard!TypeOK, Onboard!StepsTrue, Onboard!HasKeysHaveFiles,
          Onboard!DoneWasGranted, Onboard!Progress, Onboard!saveState, Onboard!disk,
          Onboard!tesla, Onboard!register
  <1>1. ASSUME NEW d \in Domains, Onboard!SaveDomain(d) PROVE OnboardInv'
    BY <1>1 DEF Onboard!SaveDomain
  <1>2. ASSUME NEW confirm \in BOOLEAN, Onboard!Generate(confirm) PROVE OnboardInv'
    BY <1>2 DEF Onboard!Generate
  <1>3. CASE Onboard!WritePrivate
    BY <1>3 DEF Onboard!WritePrivate
  <1>4. CASE Onboard!WritePublic
    BY <1>4 DEF Onboard!WritePublic
  <1>5. CASE Onboard!WriteState
    BY <1>5 DEF Onboard!WriteState
  <1>6. CASE Onboard!Register
    BY <1>6 DEF Onboard!Register
  <1>7. CASE Onboard!TeslaAnswers
    BY <1>7 DEF Onboard!TeslaAnswers
  <1>8. CASE Onboard!RecordPartner
    BY <1>8 DEF Onboard!RecordPartner
  <1>9. CASE Onboard!Pair
    <2>1. PICK d \in Domains :
             /\ partner[d] > 0
             /\ trusted' = trusted \cup {partner[d]}
             /\ UNCHANGED <<private, public, saved, st, gen, made, request, domain, partner>>
      BY <1>9 DEF Onboard!Pair
    <2>2. partner[d] \in 1..made
      BY <2>1
    <2> QED
      BY <1>9, <2>1, <2>2 DEF Onboard!Pair
  <1>10. CASE Onboard!Restart
    BY <1>10 DEF Onboard!Restart
  <1>11. CASE UNCHANGED Onboard!vars
    BY <1>11 DEF Onboard!vars
  <1> QED
    BY <1>1, <1>2, <1>3, <1>4, <1>5, <1>6, <1>7, <1>8, <1>9, <1>10, <1>11 DEF Onboard!Next

\* The wizard alone.
LEMMA OnboardSafe ==
  Onboard!Spec => [](Onboard!TypeOK /\ Onboard!StepsTrue)
  <1>1. OnboardInv => Onboard!TypeOK /\ Onboard!StepsTrue
    BY DEF OnboardInv
  <1>2. OnboardInv /\ [Onboard!Next]_(Onboard!vars) => OnboardInv'
    BY OnboardStep
  <1> QED
    BY OnboardInit, <1>1, <1>2, PTL DEF Onboard!Spec

\* What Gateway does is, for the wizard, what it does alone.
LEMMA OnboardPart == Spec => Onboard!Spec
  <1>1. Init => Onboard!Init
    BY DEF Init
  <1>2. [Next]_gatewayVars => [Onboard!Next]_(Onboard!vars)
    BY DEF Next, OfIngest, OfRecorder, OfSupervisor, OfOnboard, OfLid, OfStreaming, gatewayVars,
           onboardVars, Onboard!vars, Onboard!saveState, Onboard!disk, Onboard!tesla,
           Onboard!register
  <1> QED
    BY <1>1, <1>2, PTL DEF Spec, Onboard!Spec

-----------------------------------------------------------------------------
\* The theorems: what the gateway has of its parts.

\* zmq.go: every dialled socket is closed once, none is leaked, connected is true of the
\* link, and nothing brings it up again behind Stop.
THEOREM SocketsAccountedHolds == Spec => []SocketsAccounted
  BY IngestPart, IngestSafe, PTL DEF SocketsAccounted

\* zmq.go: after a Stop that joined the goroutine no field is written to the store.
THEOREM NoWriteAfterStopHolds == Spec => NoWriteAfterStop
  BY IngestPart, IngestSafe, PTL DEF NoWriteAfterStop

\* supervisor.go: the loop does not end before the child it started has.
THEOREM NoOrphanHolds == Spec => []NoOrphan
  BY SupervisorPart, SupervisorSafe, PTL DEF NoOrphan

\* wss/server.go: a pusher that was not stopped is the one of its tag.
THEOREM OnePusherPerTagHolds == Spec => []OnePusherPerTag
  BY StreamingPart, StreamingSafe, PTL DEF OnePusherPerTag

\* relay.go: a lid moves as it was asked to, and a refusal says what is true.
THEOREM LidsObeyHolds == Spec => []LidsObey
  BY LidPart, LidSafe, PTL DEF LidsObey

\* onboard/server.go: a step that the page shows as done has happened.
THEOREM StepsTrueHolds == Spec => []StepsTrue
  BY OnboardPart, OnboardSafe, PTL DEF StepsTrue

\* Every part keeps its types, for channels closed twice and buffers overrun too.
THEOREM TypeOKHolds == Spec => []TypeOK
  <1>1. Init => part \in Parts
    BY DEF Init
  <1>2. part \in Parts /\ [Next]_gatewayVars => (part \in Parts)'
    BY DEF Next, OfIngest, OfRecorder, OfSupervisor, OfOnboard, OfLid, OfStreaming, gatewayVars
  <1>3. Spec => [](part \in Parts)
    BY <1>1, <1>2, PTL DEF Spec
  <1> QED
    BY <1>3, IngestPart, IngestSafe, RecorderPart, RecorderSafe, SupervisorPart, SupervisorSafe,
       OnboardPart, OnboardSafe, LidPart, LidSafe, StreamingPart, StreamingSafe, PTL DEF TypeOK
=============================================================================
