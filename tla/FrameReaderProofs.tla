-------------------------- MODULE FrameReaderProofs --------------------------
(***************************************************************************)
(* Proofs about the receive path of FrameReader: Receive's state always   *)
(* has its type, and with a message transport and frames that fit in two  *)
(* Reads, Receive returns exactly the frames the client wrote, in order.  *)
(*                                                                         *)
(* The bytes in transit are described without recursion: IsWire(w, fs)   *)
(* says that w is the frames fs, each followed by RS, laid end to end,    *)
(* with cut[i] the position of the i-th delimiter.                        *)
(***************************************************************************)
EXTENDS FrameReader, SequenceTheorems, WellFoundedInduction, TLAPS

\* w is the wire form of the frames fs: cut[i] is where fs[i]'s RS lies.
IsWireCut(w, fs, cut) ==
    /\ cut \in [0..Len(fs) -> 0..Len(w)]
    /\ cut[0] = 0 /\ cut[Len(fs)] = Len(w)
    /\ \A i, j \in 0..Len(fs) : i <= j => cut[i] <= cut[j]
    /\ \A i \in 1..Len(fs) :
          /\ cut[i] = cut[i - 1] + Len(fs[i]) + 1
          /\ \A j \in 1..Len(fs[i]) : w[cut[i - 1] + j] = fs[i][j]
          /\ w[cut[i]] = RS

IsWire(w, fs) == \E cut \in [0..Len(fs) -> 0..Len(w)] : IsWireCut(w, fs, cut)

\* The frames the client wrote from position j on.
SentFrom(j) == SubSeq(sent, j, Len(sent))

\* The next frame to return, with its delimiter, once it has been written.
NextFrame == Append(sent[Len(received) + 1], RS)

\* The bytes of NextFrame the first Read of a long frame leaves on the stream.
Rest == SubSeq(NextFrame, ReadSize + 1, Len(NextFrame))

(***************************************************************************)
(* The inductive invariant for FrameIntegrity with aligned reads of       *)
(* frames that fit in two Reads.  Between two calls of Receive nothing is *)
(* buffered and the stream holds the frames not yet returned.  Within a   *)
(* call, either a first Read has filled the read array with the start of  *)
(* the next frame, which is in buf too, and the stream holds the rest of  *)
(* it and then the frames after it; or buf holds the whole next frame and *)
(* the stream the frames after it.                                        *)
(***************************************************************************)
ReceiveInv ==
    /\ Len(received) <= Len(sent)
    /\ received = SubSeq(sent, 1, Len(received))
    /\ \/ /\ buf = <<>> /\ data = <<>>
          /\ IsWire(stream, SentFrom(Len(received) + 1))
       \/ /\ Len(received) < Len(sent)
          /\ ReadSize < Len(NextFrame)
          /\ buf = SubSeq(NextFrame, 1, ReadSize) /\ data = buf
          /\ Len(Rest) <= Len(stream)
          /\ SubSeq(stream, 1, Len(Rest)) = Rest
          /\ IsWire(SubSeq(stream, Len(Rest) + 1, Len(stream)), SentFrom(Len(received) + 2))
       \/ /\ Len(received) < Len(sent)
          /\ buf = NextFrame
          /\ IsWire(stream, SentFrom(Len(received) + 2))

-----------------------------------------------------------------------------
(* FirstRS: the CHOOSE picks the least delimiter position.                *)

\* A non-empty set of positions has a least element (< is well founded).
LEMMA LeastPosition ==
    ASSUME NEW T \in SUBSET Nat, T # {}
    PROVE  \E x \in T : \A y \in T : ~(y < x)
  <1>1. \E x \in T : \A y \in T : ~(<<y, x>> \in OpToRel(<, Nat))
    BY NatLessThanWellFounded, WFMin
  <1>. QED
    BY <1>1 DEF OpToRel

\* FirstRS(b) is 0 when b has no delimiter, else the first one's position.
LEMMA FirstRSFacts ==
    ASSUME NEW S, NEW b \in Seq(S)
    PROVE  /\ FirstRS(b) \in 0..Len(b)
           /\ FirstRS(b) = 0 => \A j \in 1..Len(b) : b[j] # RS
           /\ FirstRS(b) # 0 =>
                 /\ b[FirstRS(b)] = RS
                 /\ \A j \in 1..FirstRS(b) - 1 : b[j] # RS
  <1>1. CASE \E i \in 1..Len(b) : b[i] = RS
    <2> DEFINE T == {i \in 1..Len(b) : b[i] = RS}
    <2>0. T \in SUBSET Nat /\ T # {}
      BY <1>1
    <2>1. \E x \in T : \A y \in T : ~(y < x)
      BY <2>0, LeastPosition
    <2>2. \E i \in 1..Len(b) : b[i] = RS /\ \A j \in 1..i - 1 : b[j] # RS
      BY <2>1
    <2>3. /\ FirstRS(b) \in 1..Len(b)
          /\ b[FirstRS(b)] = RS
          /\ \A j \in 1..FirstRS(b) - 1 : b[j] # RS
      BY <1>1, <2>2, Zenon DEF FirstRS
    <2>. QED
      BY <2>3
  <1>2. CASE ~\E i \in 1..Len(b) : b[i] = RS
    BY <1>2 DEF FirstRS
  <1>. QED
    BY <1>1, <1>2

\* A delimiter with none before it is the one FirstRS finds.
LEMMA FirstRSAt ==
    ASSUME NEW S, NEW b \in Seq(S), NEW k \in 1..Len(b), b[k] = RS,
           \A j \in 1..k - 1 : b[j] # RS
    PROVE  FirstRS(b) = k
  <1>1. FirstRS(b) # 0 /\ FirstRS(b) \in 0..Len(b)
    BY FirstRSFacts DEF FirstRS
  <1>. QED
    BY <1>1, FirstRSFacts

-----------------------------------------------------------------------------
(* The wire form of a sequence of frames.                                 *)

\* No frames, no bytes.
LEMMA WireEmpty == IsWire(<<>>, <<>>)
  <1> DEFINE cut == [i \in 0..0 |-> 0]
  <1>1. IsWireCut(<<>>, <<>>, cut)
    BY DEF IsWireCut
  <1>. QED
    BY <1>1 DEF IsWire, IsWireCut

\* The wire of no frames is empty.
LEMMA WireNil ==
    ASSUME NEW w \in Seq(Nat), IsWire(w, <<>>)
    PROVE  w = <<>>
  BY DEF IsWire, IsWireCut

\* A cut is defined at a frame's position and at the one before it.
LEMMA CutBounds ==
    ASSUME NEW n \in Nat, NEW m \in Nat, NEW cut \in [0..n -> 0..m],
           NEW i \in 1..n
    PROVE  cut[i] \in 0..m /\ cut[i - 1] \in 0..m
  OBVIOUS

\* The bytes of a frame lie strictly before its delimiter.
LEMMA FrameSpan ==
    ASSUME NEW a \in Nat, NEW l \in Nat, NEW m \in Nat, NEW j \in 1..l,
           a + l + 1 <= m
    PROVE  a + j \in 1..m
  OBVIOUS

\* Writing one more frame appends it and its delimiter to the wire.
LEMMA WireAppend ==
    ASSUME NEW w \in Seq(Nat), NEW fs \in Seq(Seq(Nat)), NEW f \in Seq(Nat),
           IsWire(w, fs)
    PROVE  IsWire(w \o Append(f, RS), Append(fs, f))
  <1>1. PICK cut \in [0..Len(fs) -> 0..Len(w)] : IsWireCut(w, fs, cut)
    BY DEF IsWire
  <1> DEFINE n == Len(fs)
             w2 == w \o Append(f, RS)
             fs2 == Append(fs, f)
             cut2 == [i \in 0..n + 1 |-> IF i <= n THEN cut[i] ELSE Len(w2)]
  <1> USE DEF n
  <1>2. w2 \in Seq(Nat) /\ Len(w2) = Len(w) + Len(f) + 1
    BY DEF RS
  <1>2a. \A p \in 1..Len(w) : w2[p] = w[p]
    OBVIOUS
  <1>2b. \A j \in 1..Len(f) : w2[Len(w) + j] = f[j]
    OBVIOUS
  <1>2c. w2[Len(w2)] = RS
    BY <1>2
  <1>3. /\ fs2 \in Seq(Seq(Nat)) /\ Len(fs2) = n + 1
        /\ \A i \in 1..n : fs2[i] = fs[i]
        /\ fs2[n + 1] = f
    OBVIOUS
  <1>4. cut[0] = 0 /\ cut[n] = Len(w)
    BY <1>1 DEF IsWireCut
  <1>4a. \A i, j \in 0..n : i <= j => cut[i] <= cut[j]
    BY <1>1 DEF IsWireCut
  <1>4b. \A i \in 1..n :
              /\ cut[i] = cut[i - 1] + Len(fs[i]) + 1
              /\ \A j \in 1..Len(fs[i]) : w[cut[i - 1] + j] = fs[i][j]
              /\ w[cut[i]] = RS
    BY <1>1 DEF IsWireCut
  <1>5. cut2 \in [0..Len(fs2) -> 0..Len(w2)]
    BY <1>2, <1>3
  <1>6. cut2[0] = 0 /\ cut2[Len(fs2)] = Len(w2)
    BY <1>2, <1>3, <1>4
  <1>7. \A i, j \in 0..Len(fs2) : i <= j => cut2[i] <= cut2[j]
    <2> SUFFICES ASSUME NEW i \in 0..n + 1, NEW j \in 0..n + 1, i <= j
                 PROVE  cut2[i] <= cut2[j]
      BY <1>3
    <2>1. CASE j <= n
      BY <2>1, <1>4a
    <2>2. CASE j = n + 1 /\ i <= n
      <3>1. cut2[i] \in 0..Len(w)
        BY <2>2
      <3>. QED
        BY <2>2, <3>1, <1>2
    <2>3. CASE i = n + 1
      BY <2>3
    <2>. QED
      BY <2>1, <2>2, <2>3
  <1>0. n \in Nat
    OBVIOUS
  <1>8. ASSUME NEW i \in 1..Len(fs2)
        PROVE  /\ cut2[i] = cut2[i - 1] + Len(fs2[i]) + 1
               /\ \A j \in 1..Len(fs2[i]) : w2[cut2[i - 1] + j] = fs2[i][j]
               /\ w2[cut2[i]] = RS
    <2>1. CASE i <= n
      <3>1. cut2[i] = cut[i] /\ cut2[i - 1] = cut[i - 1] /\ fs2[i] = fs[i]
        BY <2>1, <1>3
      <3>0. i \in 1..n /\ i - 1 \in 0..n /\ fs[i] \in Seq(Nat)
        BY <2>1
      <3>a. /\ cut[i] = cut[i - 1] + Len(fs[i]) + 1
            /\ w[cut[i]] = RS
            /\ \A j \in 1..Len(fs[i]) : w[cut[i - 1] + j] = fs[i][j]
        BY <3>0, <1>4b
      <3>b1. cut[i] \in 0..Len(w) /\ cut[i - 1] \in 0..Len(w)
        <4>1. Len(fs) \in Nat /\ Len(w) \in Nat
          OBVIOUS
        <4>. QED
          BY <3>0, <4>1, CutBounds
      <3>b2. Len(fs[i]) \in Nat
        BY <3>0
      <3>b. cut[i] \in 0..Len(w) /\ cut[i - 1] \in 0..Len(w) /\ Len(fs[i]) \in Nat
        BY <3>b1, <3>b2
      <3>2. cut[i] \in 1..Len(w)
        BY <3>a, <3>b
      <3>3. \A j \in 1..Len(fs[i]) : cut[i - 1] + j \in 1..Len(w)
        <4> SUFFICES ASSUME NEW j \in 1..Len(fs[i])
                     PROVE  cut[i - 1] + j \in 1..Len(w)
          OBVIOUS
        <4>2. cut[i] = cut[i - 1] + Len(fs[i]) + 1
          BY <3>a
        <4>3. cut[i] <= Len(w) /\ cut[i - 1] >= 0 /\ Len(w) \in Nat
          BY <3>b
        <4>4. cut[i - 1] \in Nat /\ Len(fs[i]) \in Nat /\ Len(w) \in Nat
          BY <3>b
        <4>5. cut[i - 1] + Len(fs[i]) + 1 <= Len(w)
          BY <4>2, <4>3
        <4>6. j \in 1..Len(fs[i])
          OBVIOUS
        <4>. QED
          BY <4>4, <4>5, <4>6, FrameSpan
      <3>4. w2[cut2[i]] = RS
        BY <3>1, <3>2, <3>a, <1>2a
      <3>5. \A j \in 1..Len(fs2[i]) : w2[cut2[i - 1] + j] = fs2[i][j]
        BY <3>1, <3>3, <3>a, <1>2a
      <3>6. cut2[i] = cut2[i - 1] + Len(fs2[i]) + 1
        BY <3>1, <3>a
      <3>. QED
        BY <3>4, <3>5, <3>6
    <2>2. CASE i = n + 1
      <3>1. cut2[i] = Len(w2)
        BY <2>2, <1>0
      <3>2. cut2[i - 1] = Len(w)
        BY <2>2, <1>0, <1>4
      <3>3. fs2[i] = f
        BY <2>2, <1>3
      <3>4. Len(w) \in Nat /\ Len(f) \in Nat
        OBVIOUS
      <3>5. w2[cut2[i]] = RS
        BY <3>1, <1>2c
      <3>6. cut2[i] = cut2[i - 1] + Len(fs2[i]) + 1
        BY <3>1, <3>2, <3>3, <3>4, <1>2
      <3>7. \A j \in 1..Len(fs2[i]) : w2[cut2[i - 1] + j] = fs2[i][j]
        BY <3>2, <3>3, <1>2b
      <3>. QED
        BY <3>5, <3>6, <3>7
    <2>0. i <= n \/ i = n + 1
      BY <1>0, <1>3
    <2>. QED
      BY <2>0, <2>1, <2>2
  <1>9. IsWireCut(w2, fs2, cut2)
    BY <1>5, <1>6, <1>7, <1>8 DEF IsWireCut
  <1>. QED
    BY <1>5, <1>9 DEF IsWire

\* A frame of a sequence of frames is a sequence.
LEMMA ElemSeq ==
    ASSUME NEW S, NEW fs \in Seq(Seq(S)), NEW i \in 1..Len(fs)
    PROVE  fs[i] \in Seq(S) /\ Len(fs[i]) \in Nat
  OBVIOUS

\* Positions m..l shifted down by m.
LEMMA ShiftRange ==
    ASSUME NEW m \in Nat, NEW l \in Nat, NEW x \in m..l
    PROVE  x - m \in 0..(l - m)
  OBVIOUS

\* The positions of a frame and its delimiter, shifted down by m.
LEMMA CutShift ==
    ASSUME NEW m \in Nat, NEW L \in Nat, NEW a \in m..L, NEW b \in m..L,
           NEW l \in Nat, b = a + l + 1
    PROVE  /\ b - m = (a - m) + l + 1
           /\ b - m \in 1..(L - m)
           /\ \A j \in 1..l : /\ (a - m) + j \in 1..(L - m)
                             /\ m + ((a - m) + j) = a + j
  OBVIOUS

\* What is left of w after its first m bytes.
LEMMA SuffixFacts ==
    ASSUME NEW w \in Seq(Nat), NEW m \in 0..Len(w)
    PROVE  LET s == SubSeq(w, m + 1, Len(w))
           IN  /\ s \in Seq(Nat) /\ Len(s) = Len(w) - m
               /\ \A p \in 1..Len(s) : s[p] = w[m + p]
  <1> DEFINE s == SubSeq(w, m + 1, Len(w))
  <1>1. s \in Seq(Nat)
    BY DEF s
  <1>2. Len(s) = Len(w) - m
    BY DEF s
  <1>3. \A p \in 1..Len(s) : s[p] = w[m + p]
    BY <1>2 DEF s
  <1>. QED
    BY <1>1, <1>2, <1>3

\* The wire of frames starts with the first frame and its delimiter, that
\* delimiter is the first RS of the wire, and what follows it is the wire
\* of the other frames.
LEMMA WireHead ==
    ASSUME NEW w \in Seq(Nat), NEW fs \in Seq(Seq(Nat)), Len(fs) > 0,
           \A j \in 1..Len(fs[1]) : fs[1][j] # RS,
           IsWire(w, fs)
    PROVE  /\ FirstRS(w) = Len(fs[1]) + 1
           /\ FirstRS(w) \in 1..Len(w)
           /\ SubSeq(w, 1, FirstRS(w)) = Append(fs[1], RS)
           /\ IsWire(SubSeq(w, FirstRS(w) + 1, Len(w)), Tail(fs))
  <1>1. PICK cut \in [0..Len(fs) -> 0..Len(w)] : IsWireCut(w, fs, cut)
    BY DEF IsWire
  <1> DEFINE n == Len(fs)
             n1 == Len(fs[1]) + 1
             w2 == SubSeq(w, n1 + 1, Len(w))
             fs2 == Tail(fs)
             cut2 == [i \in 0..n - 1 |-> cut[i + 1] - n1]
  <1> USE DEF n, w2, fs2, cut2
  <1>0a. n \in Nat \ {0} /\ Len(w) \in Nat /\ 1 \in 1..n
    OBVIOUS
  <1>0b. fs[1] \in Seq(Nat) /\ Len(fs[1]) \in Nat
    BY <1>0a, ElemSeq, Zenon
  <1>0. n1 \in Nat /\ n1 - 1 = Len(fs[1]) /\ n1 >= 1
    BY <1>0b DEF n1
  <1>2. cut[0] = 0 /\ cut[n] = Len(w)
    BY <1>1 DEF IsWireCut
  <1>3. \A i, j \in 0..n : i <= j => cut[i] <= cut[j]
    BY <1>1 DEF IsWireCut
  <1>4. \A i \in 1..n :
              /\ cut[i] = cut[i - 1] + Len(fs[i]) + 1
              /\ \A j \in 1..Len(fs[i]) : w[cut[i - 1] + j] = fs[i][j]
              /\ w[cut[i]] = RS
    BY <1>1 DEF IsWireCut
  <1>5. \A i \in 0..n : cut[i] \in 0..Len(w)
    BY <1>1
  <1>6a. /\ cut[1] = cut[1 - 1] + Len(fs[1]) + 1
         /\ \A j \in 1..Len(fs[1]) : w[cut[1 - 1] + j] = fs[1][j]
         /\ w[cut[1]] = RS
    BY <1>0a, <1>4, Zenon
  <1>6b. cut[1 - 1] = 0
    <2>1. 1 - 1 = 0
      OBVIOUS
    <2>. QED
      BY <2>1, <1>2, Zenon
  <1>6. cut[1] = n1 /\ w[n1] = RS /\ \A j \in 1..n1 - 1 : w[j] = fs[1][j]
    <2>1. cut[1] = n1
      BY <1>6a, <1>6b, <1>0b DEF n1
    <2>2. \A j \in 1..Len(fs[1]) : w[0 + j] = fs[1][j]
      BY <1>6a, <1>6b, Zenon
    <2>3. \A j \in 1..n1 - 1 : w[j] = fs[1][j]
      <3> SUFFICES ASSUME NEW j \in 1..Len(fs[1]) PROVE w[j] = fs[1][j]
        BY <1>0, Zenon
      <3>1. 0 + j = j
        BY <1>0b
      <3>. QED
        BY <3>1, <2>2, Zenon
    <2>. QED
      BY <2>1, <2>3, <1>6a, Zenon
  <1>7. n1 \in 1..Len(w)
    <2>1. cut[1] \in 0..Len(w)
      BY <1>0a, <1>5
    <2>. QED
      BY <2>1, <1>0, <1>6
  <1>8. \A j \in 1..n1 - 1 : w[j] # RS
    BY <1>0, <1>6, Zenon
  <1>9. FirstRS(w) = n1
    BY <1>6, <1>7, <1>8, FirstRSAt
  <1>10. SubSeq(w, 1, n1) = Append(fs[1], RS)
    <2>1. SubSeq(w, 1, n1) \in Seq(Nat) /\ Len(SubSeq(w, 1, n1)) = n1
          /\ \A j \in 1..n1 : SubSeq(w, 1, n1)[j] = w[j]
      BY <1>7
    <2>2. Append(fs[1], RS) \in Seq(Nat) /\ Len(Append(fs[1], RS)) = n1
          /\ \A j \in 1..n1 - 1 : Append(fs[1], RS)[j] = fs[1][j]
          /\ Append(fs[1], RS)[n1] = RS
      BY <1>0b, <1>0 DEF RS, n1
    <2>3. \A j \in 1..n1 : SubSeq(w, 1, n1)[j] = Append(fs[1], RS)[j]
      <3> SUFFICES ASSUME NEW j \in 1..n1
                   PROVE  SubSeq(w, 1, n1)[j] = Append(fs[1], RS)[j]
        OBVIOUS
      <3>1. j = n1 \/ j \in 1..n1 - 1
        BY <1>0
      <3>2. CASE j = n1
        <4>1. SubSeq(w, 1, n1)[n1] = RS
          BY <2>1, <1>6, <1>0
        <4>. QED
          BY <3>2, <4>1, <2>2
      <3>3. CASE j \in 1..n1 - 1
        BY <3>3, <2>1, <2>2, <1>6, Zenon
      <3>. QED
        BY <3>1, <3>2, <3>3
    <2>. QED
      BY <2>1, <2>2, <2>3, SeqEqual, Zenon
  <1>11. \A i \in 0..n - 1 : cut[i + 1] \in n1..Len(w)
    <2> SUFFICES ASSUME NEW i \in 0..n - 1 PROVE cut[i + 1] \in n1..Len(w)
      OBVIOUS
    <2>1. 1 \in 0..n /\ i + 1 \in 0..n /\ 1 <= i + 1
      BY <1>0a
    <2>2. cut[1] <= cut[i + 1]
      BY <2>1, <1>3, Zenon
    <2>3. cut[i + 1] \in 0..Len(w) /\ cut[1] \in 0..Len(w)
      BY <2>1, <1>5, Zenon
    <2>. QED
      BY <2>2, <2>3, <1>6
  <1>12. /\ w2 \in Seq(Nat) /\ Len(w2) = Len(w) - n1
         /\ \A p \in 1..Len(w2) : w2[p] = w[n1 + p]
    <2>1. n1 \in 0..Len(w)
      BY <1>7
    <2>. QED
      BY <2>1, SuffixFacts, Zenon
  <1>13. /\ fs2 \in Seq(Seq(Nat)) /\ Len(fs2) = n - 1
         /\ \A i \in 1..n - 1 : fs2[i] = fs[i + 1]
    <2>1. fs # << >>
      BY <1>0a
    <2>. QED
      BY <2>1, HeadTailProperties, Zenon
  <1>14. cut2 \in [0..Len(fs2) -> 0..Len(w2)]
    <2>1. \A i \in 0..n - 1 : cut[i + 1] - n1 \in 0..Len(w2)
      <3> SUFFICES ASSUME NEW i \in 0..n - 1 PROVE cut[i + 1] - n1 \in 0..Len(w2)
        OBVIOUS
      <3>1. cut[i + 1] \in n1..Len(w)
        BY <1>11
      <3>. QED
        BY <3>1, <1>0, <1>0a, <1>12, ShiftRange, Zenon
    <2>. QED
      BY <2>1, <1>13
  <1>15. cut2[0] = 0 /\ cut2[Len(fs2)] = Len(w2)
    <2>1. 0 \in 0..n - 1 /\ n - 1 \in 0..n - 1 /\ 0 + 1 = 1 /\ (n - 1) + 1 = n
      BY <1>0a
    <2>2. cut2[0] = cut[1] - n1
      BY <2>1, Zenon
    <2>3. cut2[n - 1] = cut[n] - n1
      BY <2>1, Zenon
    <2>. QED
      BY <2>2, <2>3, <1>0, <1>0a, <1>2, <1>6, <1>12, <1>13
  <1>16. \A i, j \in 0..Len(fs2) : i <= j => cut2[i] <= cut2[j]
    <2> SUFFICES ASSUME NEW i \in 0..n - 1, NEW j \in 0..n - 1, i <= j
                 PROVE  cut2[i] <= cut2[j]
      BY <1>13
    <2>1. i + 1 \in 0..n /\ j + 1 \in 0..n /\ i + 1 <= j + 1
      BY <1>0a
    <2>2. cut[i + 1] <= cut[j + 1]
      BY <2>1, <1>3, Zenon
    <2>3. cut[i + 1] \in n1..Len(w) /\ cut[j + 1] \in n1..Len(w)
      BY <1>11
    <2>4. cut2[i] = cut[i + 1] - n1 /\ cut2[j] = cut[j + 1] - n1
      OBVIOUS
    <2>. QED
      BY <2>2, <2>3, <2>4, <1>0
  <1>17. ASSUME NEW i \in 1..Len(fs2)
         PROVE  /\ cut2[i] = cut2[i - 1] + Len(fs2[i]) + 1
                /\ \A j \in 1..Len(fs2[i]) : w2[cut2[i - 1] + j] = fs2[i][j]
                /\ w2[cut2[i]] = RS
    <2>0. i \in 1..n - 1
      BY <1>13
    <2>a. /\ i + 1 \in 1..n /\ (i + 1) - 1 = i
          /\ i \in 0..n - 1 /\ i - 1 \in 0..n - 1 /\ (i - 1) + 1 = i
      BY <2>0, <1>0a
    <2>b. fs2[i] = fs[i + 1]
      BY <2>0, <1>13, Zenon
    <2>c. fs[i + 1] \in Seq(Nat) /\ Len(fs[i + 1]) \in Nat
      BY <2>a, ElemSeq, Zenon
    <2>1. /\ cut[i + 1] = cut[(i + 1) - 1] + Len(fs[i + 1]) + 1
          /\ \A j \in 1..Len(fs[i + 1]) : w[cut[(i + 1) - 1] + j] = fs[i + 1][j]
          /\ w[cut[i + 1]] = RS
      BY <2>a, <1>4, Zenon
    <2>2. /\ cut[i + 1] = cut[i] + Len(fs[i + 1]) + 1
          /\ \A j \in 1..Len(fs[i + 1]) : w[cut[i] + j] = fs[i + 1][j]
      BY <2>1, <2>a, Zenon
    <2>3. cut2[i] = cut[i + 1] - n1
      BY <2>a
    <2>4. cut2[i - 1] = cut[i] - n1
      <3>1. cut2[i - 1] = cut[(i - 1) + 1] - n1
        BY <2>a
      <3>. QED
        BY <3>1, <2>a, Zenon
    <2>5. cut[i + 1] \in n1..Len(w) /\ cut[i] \in n1..Len(w)
      <3>1. cut[(i - 1) + 1] \in n1..Len(w)
        BY <2>a, <1>11, Zenon
      <3>. QED
        BY <3>1, <2>a, <1>11, Zenon
    <2>d. Len(fs2[i]) = Len(fs[i + 1])
      BY <2>b, Zenon
    <2> HIDE DEF cut2, fs2, w2
    <2>e. /\ cut[i + 1] - n1 = (cut[i] - n1) + Len(fs[i + 1]) + 1
          /\ cut[i + 1] - n1 \in 1..(Len(w) - n1)
          /\ \A j \in 1..Len(fs[i + 1]) :
                /\ (cut[i] - n1) + j \in 1..(Len(w) - n1)
                /\ n1 + ((cut[i] - n1) + j) = cut[i] + j
      <3> DEFINE A == cut[i]
                 B == cut[i + 1]
                 fl == Len(fs[i + 1])
                 wl == Len(w)
      <3>1. n1 \in Nat /\ wl \in Nat /\ A \in n1..wl /\ B \in n1..wl /\ fl \in Nat
        BY <2>5, <2>c, <1>0, <1>0a
      <3>2. B = A + fl + 1
        BY <2>2
      <3> HIDE DEF A, B, fl, wl, n1
      <3>3. /\ B - n1 = (A - n1) + fl + 1
            /\ B - n1 \in 1..(wl - n1)
            /\ \A j \in 1..fl : /\ (A - n1) + j \in 1..(wl - n1)
                               /\ n1 + ((A - n1) + j) = A + j
        BY <3>1, <3>2, CutShift
      <3>. QED
        BY <3>3 DEF A, B, fl, wl
    <2>6. cut2[i] = cut2[i - 1] + Len(fs2[i]) + 1
      BY <2>e, <2>d, <2>3, <2>4, Zenon
    <2>7. w2[cut2[i]] = RS
      <3>1. cut2[i] \in 1..Len(w2)
        BY <2>e, <2>3, <1>12, Zenon
      <3>2. n1 + cut2[i] = cut[i + 1]
        BY <2>3, <2>5, <1>0, <1>0a
      <3>3. w2[cut2[i]] = w[n1 + cut2[i]]
        BY <3>1, <1>12, Zenon
      <3>. QED
        BY <3>2, <3>3, <2>1, Zenon
    <2>8. ASSUME NEW j \in 1..Len(fs2[i])
          PROVE  w2[cut2[i - 1] + j] = fs2[i][j]
      <3>0. j \in 1..Len(fs[i + 1])
        BY <2>b
      <3>2. cut2[i - 1] + j \in 1..Len(w2) /\ n1 + (cut2[i - 1] + j) = cut[i] + j
        BY <3>0, <2>e, <2>4, <1>12, Zenon
      <3>3. w2[cut2[i - 1] + j] = w[n1 + (cut2[i - 1] + j)]
        BY <3>2, <1>12, Zenon
      <3>4. w[cut[i] + j] = fs[i + 1][j]
        BY <3>0, <2>2, Zenon
      <3>. QED
        BY <3>2, <3>3, <3>4, <2>b, Zenon
    <2>. QED
      BY <2>6, <2>7, <2>8
  <1>18. IsWire(w2, fs2)
    <2>1. IsWireCut(w2, fs2, cut2)
      BY <1>14, <1>15, <1>16, <1>17 DEF IsWireCut
    <2>. QED
      BY <2>1, <1>14 DEF IsWire
  <1>. QED
    BY <1>7, <1>9, <1>10, <1>18, Zenon DEF n1

-----------------------------------------------------------------------------
(* Type correctness.                                                      *)

\* Every frame the client may write is a byte sequence.
LEMMA FrameIsSeq == Frame \subseteq Seq(Byte)
  BY DEF Frame

\* A prefix of s is a sequence over s's elements.
LEMMA PrefixType ==
    ASSUME NEW S, NEW s \in Seq(S), NEW k \in 0..Len(s)
    PROVE  SubSeq(s, 1, k) \in Seq(S) /\ Len(SubSeq(s, 1, k)) = k
  OBVIOUS

\* What follows the first k elements of s is a sequence over them too.
LEMMA SuffixType ==
    ASSUME NEW S, NEW s \in Seq(S), NEW k \in 0..Len(s)
    PROVE  SubSeq(s, k + 1, Len(s)) \in Seq(S)
  OBVIOUS

\* A chunk Connection.Read returns is a prefix of the remaining stream.
LEMMA ChunkIsPrefix ==
    ASSUME NEW S, NEW s \in Seq(S), NEW c \in Chunks(s)
    PROVE  \E k \in 0..Len(s) : c = SubSeq(s, 1, k)
  <1>1. CASE Aligned
    <2>1. c = SubSeq(s, 1, IF ReadSize < FirstRS(s) THEN ReadSize ELSE FirstRS(s))
      BY <1>1 DEF Chunks
    <2>2. FirstRS(s) \in 0..Len(s)
      BY FirstRSFacts
    <2>3. (IF ReadSize < FirstRS(s) THEN ReadSize ELSE FirstRS(s)) \in 0..Len(s)
      BY <2>2, Assumptions
    <2>. QED
      BY <2>1, <2>3
  <1>2. CASE ~Aligned
    <2>1. PICK k \in 1..(IF ReadSize < Len(s) THEN ReadSize ELSE Len(s)) :
                 c = SubSeq(s, 1, k)
      BY <1>2 DEF Chunks
    <2>2. k \in 0..Len(s)
      BY Assumptions
    <2>. QED
      BY <2>1, <2>2
  <1>. QED
    BY <1>1, <1>2

\* A frame ReadMessage reports complete holds no delimiter.
LEMMA CompleteFrame ==
    ASSUME NEW b \in Seq(Byte \cup {RS}), ReadMessage(b).complete
    PROVE  /\ ReadMessage(b).frame \in Seq(Byte)
           /\ ~ReadMessage(b).err
  <1>1. FirstRS(b) # 0
    BY DEF ReadMessage, parseTextMessageFormat
  <1>2. FirstRS(b) \in 1..Len(b) /\ \A j \in 1..FirstRS(b) - 1 : b[j] # RS
    BY <1>1, FirstRSFacts
  <1>3. ReadMessage(b).frame = SubSeq(b, 1, FirstRS(b) - 1)
    BY <1>1 DEF ReadMessage, parseTextMessageFormat
  <1>4. SubSeq(b, 1, FirstRS(b) - 1) \in Seq(Byte)
    BY <1>2
  <1>. QED
    BY <1>3, <1>4 DEF ReadMessage

\* Type correctness of the receive path, for every transport.
THEOREM TypeCorrect == Spec => []TypeOK
  <1>1. Init => TypeOK
    BY Assumptions DEF Init, TypeOK
  <1>2. TypeOK /\ [Next]_vars => TypeOK'
    <2> SUFFICES ASSUME TypeOK, [Next]_vars PROVE TypeOK'
      OBVIOUS
    <2>1. CASE ClientWrite
      <3>1. PICK f \in Frame : sent' = Append(sent, f) /\ stream' = stream \o Append(f, RS)
        BY <2>1 DEF ClientWrite
      <3>2. f \in Seq(Byte)
        BY FrameIsSeq
      <3>3a. sent' \in Seq(Frame)
        BY <3>1 DEF TypeOK
      <3>3b. Len(sent) < NumFrames /\ Len(sent') = Len(sent) + 1
        BY <2>1, <3>1 DEF ClientWrite, TypeOK
      <3>3. sent' \in Seq(Frame) /\ Len(sent') <= NumFrames
        BY <3>3a, <3>3b, Assumptions
      <3>4. stream' \in Seq(Byte \cup {RS})
        BY <3>1, <3>2 DEF TypeOK
      <3>. QED
        BY <2>1, <3>3, <3>4 DEF ClientWrite, TypeOK
    <2>2. CASE ReceiveComplete
      <3>1. buf \in Seq(Byte \cup {RS}) /\ ReadMessage(buf).complete
        BY <2>2 DEF ReceiveComplete, TypeOK
      <3>2. ReadMessage(buf).frame \in Seq(Byte) /\ ~ReadMessage(buf).err
        BY <3>1, CompleteFrame
      <3>3. received' = Append(received, ReadMessage(buf).frame) /\ state' = state
        BY <2>2, <3>2 DEF ReceiveComplete
      <3>. QED
        BY <2>2, <3>2, <3>3 DEF ReceiveComplete, TypeOK
    <2>3. CASE ReceiveMore
      <3>1. PICK c \in Chunks(stream) :
               /\ data' = c
               /\ buf' = data \o c
               /\ stream' = SubSeq(stream, Len(c) + 1, Len(stream))
        BY <2>3 DEF ReceiveMore
      <3>2. PICK k \in 0..Len(stream) : c = SubSeq(stream, 1, k)
        BY ChunkIsPrefix DEF TypeOK
      <3>3. c \in Seq(Byte \cup {RS}) /\ Len(c) = k
        BY <3>2, PrefixType DEF TypeOK
      <3>4. stream' \in Seq(Byte \cup {RS})
        BY <3>1, <3>3, SuffixType DEF TypeOK
      <3>. QED
        BY <2>3, <3>1, <3>3, <3>4 DEF ReceiveMore, TypeOK
    <2>4. CASE ReceiveEOF
      BY <2>4 DEF ReceiveEOF, TypeOK
    <2>5. CASE UNCHANGED vars
      BY <2>5 DEF vars, TypeOK
    <2>. QED
      BY <2>1, <2>2, <2>3, <2>4, <2>5 DEF Next
  <1>. QED
    BY <1>1, <1>2, PTL DEF Spec

-----------------------------------------------------------------------------
(* Suffixes and prefixes of the frames written.                           *)

\* Writing f extends every suffix of the frames written by f.
LEMMA SuffixAppend ==
    ASSUME NEW S, NEW s \in Seq(S), NEW f \in S, NEW j \in 1..Len(s) + 1
    PROVE  SubSeq(Append(s, f), j, Len(Append(s, f))) = Append(SubSeq(s, j, Len(s)), f)
  <1> DEFINE l == SubSeq(Append(s, f), j, Len(Append(s, f)))
             r == Append(SubSeq(s, j, Len(s)), f)
  <1>1. l \in Seq(S) /\ Len(l) = Len(s) - j + 2
    OBVIOUS
  <1>2. r \in Seq(S) /\ Len(r) = Len(s) - j + 2
    OBVIOUS
  <1>3. \A i \in 1..Len(l) : l[i] = r[i]
    OBVIOUS
  <1>. QED
    BY <1>1, <1>2, <1>3, SeqEqual

\* A non-empty suffix starts with its first element and goes on with the
\* next suffix.
LEMMA SuffixHead ==
    ASSUME NEW S, NEW s \in Seq(S), NEW j \in 1..Len(s)
    PROVE  /\ SubSeq(s, j, Len(s)) \in Seq(S)
           /\ Len(SubSeq(s, j, Len(s))) = Len(s) - j + 1
           /\ SubSeq(s, j, Len(s))[1] = s[j]
           /\ Tail(SubSeq(s, j, Len(s))) = SubSeq(s, j + 1, Len(s))
  <1> DEFINE t == SubSeq(s, j, Len(s))
  <1>1a. t \in Seq(S) /\ Len(t) = Len(s) - j + 1 /\ t[1] = s[j]
    BY DEF t
  <1>1c. Len(t) > 0
    BY <1>1a
  <1>1b. t # << >>
    <2>1. Len(<< >>) = 0
      OBVIOUS
    <2>. QED
      BY <1>1c, <2>1
  <1>1. t \in Seq(S) /\ Len(t) = Len(s) - j + 1 /\ t[1] = s[j] /\ t # << >>
    BY <1>1a, <1>1b
  <1>2. Tail(t) \in Seq(S) /\ Len(Tail(t)) = Len(s) - j
        /\ \A i \in 1..Len(s) - j : Tail(t)[i] = s[j + i]
    BY <1>1, HeadTailProperties
  <1>3. SubSeq(s, j + 1, Len(s)) \in Seq(S) /\ Len(SubSeq(s, j + 1, Len(s))) = Len(s) - j
        /\ \A i \in 1..Len(s) - j : SubSeq(s, j + 1, Len(s))[i] = s[j + i]
    OBVIOUS
  <1>4. Tail(t) = SubSeq(s, j + 1, Len(s))
    BY <1>2, <1>3, SeqEqual
  <1>. QED
    BY <1>1, <1>4 DEF t

\* The suffix after the last element is empty.
LEMMA SuffixEnd ==
    ASSUME NEW S, NEW s \in Seq(S)
    PROVE  SubSeq(s, Len(s) + 1, Len(s)) = << >>
  OBVIOUS

\* A prefix grows by the next element.
LEMMA PrefixNext ==
    ASSUME NEW S, NEW s \in Seq(S), NEW k \in 0..Len(s) - 1
    PROVE  Append(SubSeq(s, 1, k), s[k + 1]) = SubSeq(s, 1, k + 1)
  <1>1. Append(SubSeq(s, 1, k), s[k + 1]) \in Seq(S)
        /\ Len(Append(SubSeq(s, 1, k), s[k + 1])) = k + 1
    OBVIOUS
  <1>2. SubSeq(s, 1, k + 1) \in Seq(S) /\ Len(SubSeq(s, 1, k + 1)) = k + 1
    OBVIOUS
  <1>3. \A i \in 1..k + 1 : Append(SubSeq(s, 1, k), s[k + 1])[i] = SubSeq(s, 1, k + 1)[i]
    OBVIOUS
  <1>. QED
    BY <1>1, <1>2, <1>3, SeqEqual

\* Writing more leaves a prefix of what was written unchanged.
LEMMA PrefixAppend ==
    ASSUME NEW S, NEW s \in Seq(S), NEW f \in S, NEW k \in 0..Len(s)
    PROVE  SubSeq(Append(s, f), 1, k) = SubSeq(s, 1, k)
  <1>1. SubSeq(Append(s, f), 1, k) \in Seq(S) /\ Len(SubSeq(Append(s, f), 1, k)) = k
    OBVIOUS
  <1>2. SubSeq(s, 1, k) \in Seq(S) /\ Len(SubSeq(s, 1, k)) = k
    OBVIOUS
  <1>3. \A i \in 1..k : SubSeq(Append(s, f), 1, k)[i] = SubSeq(s, 1, k)[i]
    OBVIOUS
  <1>. QED
    BY <1>1, <1>2, <1>3, SeqEqual

\* A piece of a piece of s is a piece of s.
LEMMA SubSeqSubSeq ==
    ASSUME NEW S, NEW s \in Seq(S), NEW a \in 1..Len(s) + 1, NEW b \in a - 1..Len(s),
           NEW i \in 1..b - a + 2, NEW j \in i - 1..b - a + 1
    PROVE  SubSeq(SubSeq(s, a, b), i, j) = SubSeq(s, a + i - 1, a + j - 1)
  <1> DEFINE t == SubSeq(s, a, b)
             l == SubSeq(t, i, j)
             r == SubSeq(s, a + i - 1, a + j - 1)
  <1>1. t \in Seq(S) /\ Len(t) = b - a + 1
        /\ \A p \in 1..b - a + 1 : t[p] = s[a + p - 1]
    OBVIOUS
  <1>2. l \in Seq(S) /\ Len(l) = j - i + 1
        /\ \A p \in 1..j - i + 1 : l[p] = t[i + p - 1]
    BY <1>1
  <1>3. r \in Seq(S) /\ Len(r) = j - i + 1
        /\ \A p \in 1..j - i + 1 : r[p] = s[a + i - 1 + p - 1]
    OBVIOUS
  <1>4. \A p \in 1..j - i + 1 : l[p] = r[p]
    BY <1>1, <1>2, <1>3
  <1>. QED
    BY <1>2, <1>3, <1>4, SeqEqual

\* Appending t leaves the first m elements of s as they were.
LEMMA ConcatPrefix ==
    ASSUME NEW S, NEW s \in Seq(S), NEW t \in Seq(S), NEW m \in 0..Len(s)
    PROVE  SubSeq(s \o t, 1, m) = SubSeq(s, 1, m)
  <1>1. SubSeq(s \o t, 1, m) \in Seq(S) /\ Len(SubSeq(s \o t, 1, m)) = m
    OBVIOUS
  <1>2. SubSeq(s, 1, m) \in Seq(S) /\ Len(SubSeq(s, 1, m)) = m
    OBVIOUS
  <1>3. \A p \in 1..m : SubSeq(s \o t, 1, m)[p] = SubSeq(s, 1, m)[p]
    OBVIOUS
  <1>. QED
    BY <1>1, <1>2, <1>3, SeqEqual

\* Appending t appends it to what follows the first m elements of s.
LEMMA ConcatSuffix ==
    ASSUME NEW S, NEW s \in Seq(S), NEW t \in Seq(S), NEW m \in 0..Len(s)
    PROVE  SubSeq(s \o t, m + 1, Len(s \o t)) = SubSeq(s, m + 1, Len(s)) \o t
  <1> DEFINE l == SubSeq(s \o t, m + 1, Len(s \o t))
             r == SubSeq(s, m + 1, Len(s)) \o t
  <1>1. Len(s \o t) = Len(s) + Len(t) /\ s \o t \in Seq(S)
    OBVIOUS
  <1>2. l \in Seq(S) /\ Len(l) = Len(s) - m + Len(t)
    BY <1>1
  <1>3. r \in Seq(S) /\ Len(r) = Len(s) - m + Len(t)
    OBVIOUS
  <1>4. \A p \in 1..Len(s) - m : l[p] = s[m + p] /\ r[p] = s[m + p]
    BY <1>1
  <1>5. \A p \in Len(s) - m + 1..Len(s) - m + Len(t) :
           l[p] = t[p - (Len(s) - m)] /\ r[p] = t[p - (Len(s) - m)]
    BY <1>1
  <1>6. \A p \in 1..Len(l) : l[p] = r[p]
    BY <1>2, <1>4, <1>5
  <1>. QED
    BY <1>2, <1>3, <1>6, SeqEqual

-----------------------------------------------------------------------------
(* ReadMessage on what aligned reads put in the buffer.                   *)

\* The frames written are byte sequences without delimiters, and the
\* stream is a sequence of numbers.
LEMMA SentTypes ==
    ASSUME TypeOK
    PROVE  /\ sent \in Seq(Seq(Byte))
           /\ sent \in Seq(Seq(Nat))
           /\ stream \in Seq(Nat)
  <1>1. Seq(Frame) \subseteq Seq(Seq(Byte))
    BY FrameIsSeq, SeqMonotonic
  <1>2a. Byte \subseteq Nat /\ Byte \cup {RS} \subseteq Nat
    BY Assumptions DEF RS
  <1>2. Seq(Byte) \subseteq Seq(Nat) /\ Byte \cup {RS} \subseteq Nat
    BY <1>2a, SeqMonotonic
  <1>3. Seq(Seq(Byte)) \subseteq Seq(Seq(Nat))
    BY <1>2, SeqMonotonic
  <1>4. Seq(Byte \cup {RS}) \subseteq Seq(Nat)
    BY <1>2, SeqMonotonic
  <1>. QED
    BY <1>1, <1>3, <1>4 DEF TypeOK

\* An empty buffer holds no complete frame.
LEMMA EmptyIncomplete == ~ReadMessage(<< >>).complete
  <1>1. FirstRS(<< >>) = 0
    BY DEF FirstRS
  <1>. QED
    BY <1>1 DEF ReadMessage, parseTextMessageFormat

\* A frame followed by its delimiter is read back as that frame.
LEMMA FrameRoundTrip ==
    ASSUME NEW f \in Seq(Byte)
    PROVE  /\ ReadMessage(Append(f, RS)).complete
           /\ ReadMessage(Append(f, RS)).frame = f
  <1> DEFINE b == Append(f, RS)
  <1>0. f \in Seq(Nat) /\ \A j \in 1..Len(f) : f[j] # RS
    <2>1. Byte \subseteq Nat /\ RS \notin Byte
      BY Assumptions
    <2>2. f \in Seq(Nat)
      BY <2>1, SeqMonotonic
    <2>3. \A j \in 1..Len(f) : f[j] \in Byte
      OBVIOUS
    <2>. QED
      BY <2>1, <2>2, <2>3
  <1>1. b \in Seq(Nat) /\ Len(b) = Len(f) + 1 /\ b[Len(f) + 1] = RS
        /\ \A j \in 1..Len(f) : b[j] = f[j]
    BY <1>0 DEF b, RS
  <1>2. \A j \in 1..(Len(f) + 1) - 1 : b[j] # RS
    BY <1>0, <1>1
  <1>3. FirstRS(b) = Len(f) + 1
    <2>1. Len(f) + 1 \in 1..Len(b)
      BY <1>1
    <2>. QED
      BY <1>1, <1>2, <2>1, FirstRSAt
  <1>4. SubSeq(b, 1, Len(f)) = f
    <2>1. SubSeq(b, 1, Len(f)) \in Seq(Nat) /\ Len(SubSeq(b, 1, Len(f))) = Len(f)
          /\ \A j \in 1..Len(f) : SubSeq(b, 1, Len(f))[j] = f[j]
      BY <1>1
    <2>. QED
      BY <2>1, <1>0, SeqEqual
  <1>5. FirstRS(b) # 0 /\ FirstRS(b) - 1 = Len(f)
    BY <1>3, <1>0
  <1>. QED
    BY <1>4, <1>5 DEF ReadMessage, parseTextMessageFormat, b

\* A frame the client may write, and the same frame with its delimiter.
LEMMA DelimitedFrame ==
    ASSUME NEW f \in Frame
    PROVE  /\ f \in Seq(Byte) /\ Len(f) \in 1..MaxFrameLen
           /\ Append(f, RS) \in Seq(Nat)
           /\ Len(Append(f, RS)) = Len(f) + 1
           /\ Append(f, RS)[Len(f) + 1] = RS
           /\ \A j \in 1..Len(f) : Append(f, RS)[j] # RS
  <1>1. PICK n \in 1..MaxFrameLen : f \in [1..n -> Byte]
    BY DEF Frame
  <1>2. f \in Seq(Byte) /\ Len(f) = n
    BY <1>1
  <1>3. Byte \subseteq Nat /\ RS \notin Byte /\ RS \in Nat
    BY Assumptions DEF RS
  <1>4a. Seq(Byte) \subseteq Seq(Nat)
    BY <1>3, SeqMonotonic
  <1>4b. \A j \in 1..Len(f) : f[j] \in Byte
    BY <1>2
  <1>4. f \in Seq(Nat) /\ \A j \in 1..Len(f) : f[j] \in Byte
    BY <1>2, <1>4a, <1>4b
  <1>5. \A j \in 1..Len(f) : Append(f, RS)[j] # RS
    BY <1>3, <1>4
  <1>. QED
    BY <1>2, <1>3, <1>4, <1>5

\* A buffer without a delimiter holds no complete frame.
LEMMA NoDelimiter ==
    ASSUME NEW b \in Seq(Nat), \A j \in 1..Len(b) : b[j] # RS
    PROVE  ~ReadMessage(b).complete
  <1>1. FirstRS(b) = 0
    BY DEF FirstRS
  <1>. QED
    BY <1>1 DEF ReadMessage, parseTextMessageFormat

-----------------------------------------------------------------------------
(* ReceiveInv is inductive when reads keep the client's Writes apart and  *)
(* every frame fits in two Reads.                                         *)

\* Before the first Write nothing is in transit or received.
LEMMA ReceiveInit == Init => ReceiveInv
  <1> SUFFICES ASSUME Init PROVE ReceiveInv
    OBVIOUS
  <1>1. sent = << >> /\ received = << >> /\ stream = << >> /\ buf = << >> /\ data = << >>
    BY DEF Init
  <1>2. SentFrom(Len(received) + 1) = << >> /\ SubSeq(sent, 1, 0) = << >>
    BY <1>1 DEF SentFrom
  <1>. QED
    BY <1>1, <1>2, WireEmpty DEF ReceiveInv

\* A Write appends its frame to the wire of the frames after position j.
LEMMA WireWrite ==
    ASSUME TypeOK, NEW f \in Frame, NEW w \in Seq(Nat),
           NEW j \in 1..Len(sent) + 1, IsWire(w, SubSeq(sent, j, Len(sent)))
    PROVE  IsWire(w \o Append(f, RS), SubSeq(Append(sent, f), j, Len(Append(sent, f))))
  <1>1. sent \in Seq(Seq(Nat)) /\ sent \in Seq(Frame) /\ f \in Seq(Nat)
    <2>1. Seq(Byte) \subseteq Seq(Nat)
      BY Assumptions, SeqMonotonic
    <2>. QED
      BY SentTypes, FrameIsSeq, <2>1 DEF TypeOK
  <1>2. SubSeq(Append(sent, f), j, Len(Append(sent, f))) = Append(SubSeq(sent, j, Len(sent)), f)
    BY <1>1, SuffixAppend
  <1>3. SubSeq(sent, j, Len(sent)) \in Seq(Seq(Nat))
    <2>1. j - 1 \in 0..Len(sent)
      BY <1>1
    <2>. QED
      BY <2>1, <1>1, SuffixType
  <1>. QED
    BY <1>1, <1>2, <1>3, WireAppend

\* A Write appends its frame to what is in transit, whatever phase Receive
\* is in.
LEMMA ClientWriteKeeps ==
    ASSUME TypeOK, ReceiveInv, ClientWrite
    PROVE  ReceiveInv'
  <1> DEFINE k == Len(received)
  <1> USE DEF k
  <1>1. PICK f \in Frame : sent' = Append(sent, f) /\ stream' = stream \o Append(f, RS)
    BY DEF ClientWrite
  <1>2. UNCHANGED <<buf, data, received>>
    BY DEF ClientWrite
  <1>3. /\ sent \in Seq(Seq(Nat)) /\ sent \in Seq(Frame) /\ stream \in Seq(Nat)
        /\ Append(f, RS) \in Seq(Nat)
    BY SentTypes, DelimitedFrame DEF TypeOK
  <1>4. k \in 0..Len(sent) /\ received = SubSeq(sent, 1, k)
    BY DEF ReceiveInv, TypeOK
  <1>5. Len(sent') = Len(sent) + 1 /\ k' = k
    BY <1>1, <1>2, <1>3
  <1>6. received' = SubSeq(sent', 1, k')
    BY <1>1, <1>2, <1>3, <1>4, PrefixAppend
  <1>7a. k < Len(sent) => sent'[k + 1] = sent[k + 1]
    BY <1>1, <1>3, <1>4
  <1>7. k < Len(sent) => NextFrame' = NextFrame /\ Rest' = Rest
    BY <1>2, <1>7a DEF NextFrame, Rest
  <1>7b. k + 1 \in 1..Len(sent) + 1 /\ (k < Len(sent) => k + 2 \in 1..Len(sent) + 1)
    BY <1>4
  <1>8. CASE buf = << >> /\ data = << >> /\ IsWire(stream, SentFrom(k + 1))
    <2>1. IsWire(stream', SentFrom(k + 1)')
      <3>1. IsWire(stream \o Append(f, RS), SubSeq(Append(sent, f), k + 1, Len(Append(sent, f))))
        BY <1>8, <1>7b, <1>3, WireWrite DEF SentFrom
      <3>2. stream' = stream \o Append(f, RS)
            /\ SentFrom(k + 1)' = SubSeq(Append(sent, f), k + 1, Len(Append(sent, f)))
        BY <1>1, <1>2 DEF SentFrom
      <3>. QED
        BY <3>1, <3>2
    <2>. QED
      BY <1>2, <1>5, <1>6, <1>8, <2>1 DEF ReceiveInv
  <1>9. CASE /\ k < Len(sent)
             /\ ReadSize < Len(NextFrame)
             /\ buf = SubSeq(NextFrame, 1, ReadSize) /\ data = buf
             /\ Len(Rest) <= Len(stream)
             /\ SubSeq(stream, 1, Len(Rest)) = Rest
             /\ IsWire(SubSeq(stream, Len(Rest) + 1, Len(stream)), SentFrom(k + 2))
    <2> DEFINE m == Len(Rest)
    <2>1. m \in 0..Len(stream)
      BY <1>9
    <2>2. Len(Rest') <= Len(stream') /\ m = Len(Rest')
      BY <1>1, <1>3, <1>7, <1>9
    <2>3. SubSeq(stream', 1, Len(Rest')) = Rest'
      BY <1>1, <1>3, <1>7, <1>9, <2>1, <2>2, ConcatPrefix
    <2>4. SubSeq(stream', m + 1, Len(stream'))
            = SubSeq(stream, m + 1, Len(stream)) \o Append(f, RS)
      BY <1>1, <1>3, <2>1, ConcatSuffix
    <2>5. SubSeq(stream, m + 1, Len(stream)) \in Seq(Nat)
      BY <1>3, <2>1, SuffixType
    <2>6. IsWire(SubSeq(stream', m + 1, Len(stream')), SentFrom(k + 2)')
      <3>1. IsWire(SubSeq(stream, m + 1, Len(stream)) \o Append(f, RS),
                   SubSeq(Append(sent, f), k + 2, Len(Append(sent, f))))
        BY <1>9, <1>7b, <2>5, WireWrite DEF SentFrom
      <3>2. SubSeq(stream', m + 1, Len(stream'))
              = SubSeq(stream, m + 1, Len(stream)) \o Append(f, RS)
            /\ SentFrom(k + 2)' = SubSeq(Append(sent, f), k + 2, Len(Append(sent, f)))
        BY <1>1, <1>2, <2>4 DEF SentFrom
      <3>. QED
        BY <3>1, <3>2
    <2>7. IsWire(SubSeq(stream', Len(Rest') + 1, Len(stream')), SentFrom(k + 2)')
      BY <2>2, <2>6
    <2>8a. k' < Len(sent')
      BY <1>5, <1>9, <1>4
    <2>8b. NextFrame' = NextFrame /\ buf' = buf /\ data' = data
      BY <1>2, <1>7, <1>9
    <2>8. /\ k' < Len(sent')
          /\ ReadSize < Len(NextFrame')
          /\ buf' = SubSeq(NextFrame', 1, ReadSize) /\ data' = buf'
      BY <1>9, <2>8a, <2>8b
    <2>. QED
      BY <1>5, <1>6, <2>2, <2>3, <2>7, <2>8 DEF ReceiveInv
  <1>10. CASE /\ k < Len(sent)
              /\ buf = NextFrame
              /\ IsWire(stream, SentFrom(k + 2))
    <2>1. IsWire(stream', SentFrom(k + 2)')
      <3>1. IsWire(stream \o Append(f, RS), SubSeq(Append(sent, f), k + 2, Len(Append(sent, f))))
        BY <1>10, <1>7b, <1>3, WireWrite DEF SentFrom
      <3>2. stream' = stream \o Append(f, RS)
            /\ SentFrom(k + 2)' = SubSeq(Append(sent, f), k + 2, Len(Append(sent, f)))
        BY <1>1, <1>2 DEF SentFrom
      <3>. QED
        BY <3>1, <3>2
    <2>. QED
      BY <1>2, <1>5, <1>6, <1>7, <1>10, <2>1 DEF ReceiveInv
  <1>. QED
    BY <1>8, <1>9, <1>10 DEF ReceiveInv

\* A Read leaves sent and received, and so the next frame, as they were.
LEMMA ReadKeeps ==
    ASSUME ReceiveInv, ReceiveMore
    PROVE  /\ Len(received') <= Len(sent')
           /\ received' = SubSeq(sent', 1, Len(received'))
           /\ sent' = sent /\ received' = received
           /\ NextFrame' = NextFrame /\ Rest' = Rest
           /\ SentFrom(Len(received) + 2)' = SentFrom(Len(received) + 2)
  <1>1. sent' = sent /\ received' = received
    BY DEF ReceiveMore
  <1>. QED
    BY <1>1 DEF ReceiveInv, NextFrame, Rest, SentFrom

\* The bounds under which what follows the first L of N bytes is what
\* follows the first L - R bytes of what follows the first R.
LEMMA SecondPieceBounds ==
    ASSUME NEW R \in Nat, NEW L \in Nat, NEW N \in Nat, R < L, L <= N
    PROVE  /\ R + 1 \in 1..N + 1 /\ N \in (R + 1) - 1..N
           /\ L - R + 1 \in 1..N - (R + 1) + 2
           /\ N - R \in (L - R + 1) - 1..N - (R + 1) + 1
           /\ (R + 1) + (L - R + 1) - 1 = L + 1 /\ (R + 1) + (N - R) - 1 = N
  OBVIOUS

\* How the first L bytes of s split after R of them, and where the pieces
\* lie in what follows the first R bytes.
LEMMA Pieces ==
    ASSUME NEW S, NEW s \in Seq(S), NEW R \in Nat, NEW L \in Nat, R < L, L <= Len(s)
    PROVE  /\ SubSeq(SubSeq(s, 1, L), 1, R) = SubSeq(s, 1, R)
           /\ SubSeq(SubSeq(s, 1, L), R + 1, L) = SubSeq(s, R + 1, L)
           /\ SubSeq(SubSeq(s, R + 1, Len(s)), 1, L - R) = SubSeq(s, R + 1, L)
           /\ SubSeq(SubSeq(s, R + 1, Len(s)), L - R + 1, Len(s) - R) = SubSeq(s, L + 1, Len(s))
  <1>1. SubSeq(SubSeq(s, 1, L), 1, R) = SubSeq(s, 1, 1 + R - 1)
    <2>1. 1 \in 1..Len(s) + 1 /\ L \in 1 - 1..Len(s) /\ 1 \in 1..L - 1 + 2
          /\ R \in 1 - 1..L - 1 + 1 /\ 1 + 1 - 1 = 1
      OBVIOUS
    <2>. QED
      BY <2>1, SubSeqSubSeq
  <1>2. SubSeq(SubSeq(s, 1, L), R + 1, L) = SubSeq(s, 1 + (R + 1) - 1, 1 + L - 1)
    <2>1. 1 \in 1..Len(s) + 1 /\ L \in 1 - 1..Len(s) /\ R + 1 \in 1..L - 1 + 2
          /\ L \in (R + 1) - 1..L - 1 + 1
      OBVIOUS
    <2>. QED
      BY <2>1, SubSeqSubSeq
  <1>3. SubSeq(SubSeq(s, R + 1, Len(s)), 1, L - R) = SubSeq(s, (R + 1) + 1 - 1, (R + 1) + (L - R) - 1)
    <2>1. R + 1 \in 1..Len(s) + 1 /\ Len(s) \in (R + 1) - 1..Len(s)
          /\ 1 \in 1..Len(s) - (R + 1) + 2 /\ L - R \in 1 - 1..Len(s) - (R + 1) + 1
      OBVIOUS
    <2>. QED
      BY <2>1, SubSeqSubSeq
  <1>4. SubSeq(SubSeq(s, R + 1, Len(s)), L - R + 1, Len(s) - R) = SubSeq(s, L + 1, Len(s))
    <2>1. /\ R + 1 \in 1..Len(s) + 1 /\ Len(s) \in (R + 1) - 1..Len(s)
          /\ L - R + 1 \in 1..Len(s) - (R + 1) + 2
          /\ Len(s) - R \in (L - R + 1) - 1..Len(s) - (R + 1) + 1
          /\ (R + 1) + (L - R + 1) - 1 = L + 1 /\ (R + 1) + (Len(s) - R) - 1 = Len(s)
      BY SecondPieceBounds
    <2>2. SubSeq(SubSeq(s, R + 1, Len(s)), L - R + 1, Len(s) - R)
            = SubSeq(s, (R + 1) + (L - R + 1) - 1, (R + 1) + (Len(s) - R) - 1)
      BY <2>1, SubSeqSubSeq
    <2>. QED
      BY <2>1, <2>2
  <1>5. 1 + R - 1 = R /\ 1 + (R + 1) - 1 = R + 1 /\ 1 + L - 1 = L
        /\ (R + 1) + 1 - 1 = R + 1 /\ (R + 1) + (L - R) - 1 = L
    OBVIOUS
  <1>. QED
    BY <1>1, <1>2, <1>3, <1>4, <1>5

\* The first Read of a call: Receive's buffer is empty and the aligned Read
\* returns the whole next frame, or its first ReadSize bytes.
LEMMA ReadFirst ==
    ASSUME TypeOK, ReceiveInv, ReceiveMore, Aligned,
           buf = << >>, data = << >>, IsWire(stream, SentFrom(Len(received) + 1))
    PROVE  ReceiveInv'
  <1> DEFINE k == Len(received)
             F == sent[k + 1]
             L == Len(F) + 1
             R == ReadSize
  <1> USE DEF k
  <1>0. /\ Len(received') <= Len(sent')
        /\ received' = SubSeq(sent', 1, Len(received'))
        /\ sent' = sent /\ received' = received
        /\ NextFrame' = NextFrame /\ Rest' = Rest
        /\ SentFrom(k + 2)' = SentFrom(k + 2)
    BY ReadKeeps
  <1>1. sent \in Seq(Seq(Nat)) /\ sent \in Seq(Frame) /\ stream \in Seq(Nat)
    BY SentTypes DEF TypeOK
  <1>2. k \in 0..Len(sent) /\ received = SubSeq(sent, 1, k)
    BY DEF ReceiveInv, TypeOK
  <1>3. k < Len(sent)
    <2>1. stream # << >>
      BY DEF ReceiveMore
    <2>2. SUFFICES ASSUME k = Len(sent) PROVE FALSE
      BY <1>2
    <2>3. SentFrom(k + 1) = << >>
      BY <2>2, <1>1 DEF SentFrom
    <2>. QED
      BY <2>1, <2>3, <1>1, WireNil
  <1>4. /\ SentFrom(k + 1) \in Seq(Seq(Nat))
        /\ Len(SentFrom(k + 1)) > 0
        /\ SentFrom(k + 1)[1] = F
        /\ Tail(SentFrom(k + 1)) = SentFrom(k + 2)
    <2>1. k + 1 \in 1..Len(sent)
      BY <1>2, <1>3
    <2>. QED
      BY <1>1, <2>1, SuffixHead DEF SentFrom
  <1>5. F \in Frame
    BY <1>1, <1>2, <1>3
  <1>6. /\ F \in Seq(Byte) /\ Len(F) \in 1..MaxFrameLen
        /\ \A j \in 1..Len(F) : F[j] # RS
        /\ Len(NextFrame) = L
    <2>1. F \in Seq(Byte) /\ Len(F) \in 1..MaxFrameLen /\ Len(Append(F, RS)) = Len(F) + 1
      BY <1>5, DelimitedFrame
    <2>2. \A j \in 1..Len(F) : F[j] # RS
      <3>1. \A j \in 1..Len(F) : F[j] \in Byte
        BY <2>1
      <3>. QED
        BY <3>1, Assumptions
    <2>. QED
      BY <2>1, <2>2 DEF NextFrame
  <1>7. /\ FirstRS(stream) = L
        /\ L \in 1..Len(stream)
        /\ SubSeq(stream, 1, L) = NextFrame
        /\ IsWire(SubSeq(stream, L + 1, Len(stream)), SentFrom(k + 2))
    <2>1. \A j \in 1..Len(SentFrom(k + 1)[1]) : SentFrom(k + 1)[1][j] # RS
      BY <1>4, <1>6
    <2>2. /\ FirstRS(stream) = Len(SentFrom(k + 1)[1]) + 1
          /\ FirstRS(stream) \in 1..Len(stream)
          /\ SubSeq(stream, 1, FirstRS(stream)) = Append(SentFrom(k + 1)[1], RS)
          /\ IsWire(SubSeq(stream, FirstRS(stream) + 1, Len(stream)), Tail(SentFrom(k + 1)))
      BY <1>1, <1>4, <2>1, WireHead
    <2>. QED
      BY <1>4, <2>2 DEF NextFrame
  <1>8. PICK c \in Chunks(stream) :
           /\ data' = c
           /\ buf' = data \o c
           /\ stream' = SubSeq(stream, Len(c) + 1, Len(stream))
    BY DEF ReceiveMore
  <1>9. c = SubSeq(stream, 1, IF R < L THEN R ELSE L)
    BY <1>7 DEF Chunks
  <1>10. R \in Nat \ {0} /\ L \in Nat
    BY <1>6, Assumptions
  <1>11. c \in Seq(Nat) /\ buf' = c
    <2>1. (IF R < L THEN R ELSE L) \in 0..Len(stream)
      BY <1>7, <1>10
    <2>2. c \in Seq(Nat)
      BY <1>1, <1>9, <2>1
    <2>3. buf' = << >> \o c
      BY <1>8
    <2>. QED
      BY <2>2, <2>3, ConcatEmptySeq
  <1>12. CASE L <= R
    <2>1. c = NextFrame /\ Len(c) = L
      BY <1>6, <1>7, <1>9, <1>10, <1>12
    <2>2. stream' = SubSeq(stream, L + 1, Len(stream))
      BY <1>8, <2>1
    <2>3. k' < Len(sent') /\ buf' = NextFrame'
      BY <1>0, <1>3, <1>11, <2>1
    <2>4. IsWire(stream', SentFrom(k + 2)')
      BY <1>0, <1>7, <2>2
    <2>. QED
      BY <1>0, <2>3, <2>4 DEF ReceiveInv
  <1>13. CASE R < L
    <2> DEFINE N == Len(stream)
    <2>0. /\ SubSeq(SubSeq(stream, 1, L), 1, R) = SubSeq(stream, 1, R)
          /\ SubSeq(SubSeq(stream, 1, L), R + 1, L) = SubSeq(stream, R + 1, L)
          /\ SubSeq(SubSeq(stream, R + 1, N), 1, L - R) = SubSeq(stream, R + 1, L)
          /\ SubSeq(SubSeq(stream, R + 1, N), L - R + 1, N - R) = SubSeq(stream, L + 1, N)
      <3>1. stream \in Seq(Nat) /\ R \in Nat /\ L \in Nat /\ R < L /\ L <= N
        BY <1>1, <1>7, <1>10, <1>13
      <3>. QED
        BY <3>1, Pieces, Zenon
    <2>1. c = SubSeq(stream, 1, R) /\ Len(c) = R
      BY <1>7, <1>9, <1>10, <1>13
    <2>2. SubSeq(NextFrame, 1, R) = SubSeq(stream, 1, R)
      <3>1. SubSeq(SubSeq(stream, 1, L), 1, R) = SubSeq(stream, 1, R)
        BY <2>0
      <3>. QED
        BY <3>1, <1>7
    <2>3. Rest = SubSeq(stream, R + 1, L) /\ Len(Rest) = L - R
      <3>1. SubSeq(SubSeq(stream, 1, L), R + 1, L) = SubSeq(stream, R + 1, L)
        BY <2>0
      <3>2. Rest = SubSeq(SubSeq(stream, 1, L), R + 1, L)
        BY <1>6, <1>7 DEF Rest
      <3>3. Len(SubSeq(stream, R + 1, L)) = L - R
        BY <1>1, <1>7, <1>10, <1>13
      <3>. QED
        BY <3>1, <3>2, <3>3
    <2>4a. stream' = SubSeq(stream, R + 1, N)
      BY <1>8, <2>1
    <2>4b. Len(SubSeq(stream, R + 1, N)) = N - R
      BY <1>1, <1>7, <1>10, <1>13
    <2>4. stream' = SubSeq(stream, R + 1, N) /\ Len(stream') = N - R
      BY <2>4a, <2>4b
    <2>5. SubSeq(stream', 1, L - R) = SubSeq(stream, R + 1, L)
      <3>1. SubSeq(SubSeq(stream, R + 1, N), 1, L - R) = SubSeq(stream, R + 1, L)
        BY <2>0
      <3>. QED
        BY <3>1, <2>4
    <2>6. SubSeq(stream', L - R + 1, Len(stream')) = SubSeq(stream, L + 1, N)
      <3>1. SubSeq(SubSeq(stream, R + 1, N), L - R + 1, N - R) = SubSeq(stream, L + 1, N)
        BY <2>0
      <3>. QED
        BY <3>1, <2>4
    <2>7. /\ k' < Len(sent')
          /\ ReadSize < Len(NextFrame')
          /\ buf' = SubSeq(NextFrame', 1, ReadSize) /\ data' = buf'
      BY <1>0, <1>3, <1>6, <1>8, <1>11, <1>13, <2>1, <2>2
    <2>8. /\ Len(Rest') <= Len(stream')
          /\ SubSeq(stream', 1, Len(Rest')) = Rest'
          /\ IsWire(SubSeq(stream', Len(Rest') + 1, Len(stream')), SentFrom(k + 2)')
      <3>1. Len(Rest') = L - R /\ Rest' = SubSeq(stream, R + 1, L)
        BY <1>0, <2>3
      <3>2. L - R <= Len(stream')
        BY <1>7, <1>10, <2>4
      <3>. QED
        BY <1>0, <1>7, <2>5, <2>6, <3>1, <3>2
    <2>. QED
      BY <1>0, <2>7, <2>8 DEF ReceiveInv
  <1>. QED
    BY <1>10, <1>12, <1>13

\* The second Read of a call: what is left of a frame longer than one Read
\* is at most ReadSize bytes, so the aligned Read returns all of it, and the
\* refill of the first chunk completes the frame in buf.
LEMMA ReadSecond ==
    ASSUME TypeOK, ReceiveInv, ReceiveMore, Aligned, MaxFrameLen < 2 * ReadSize,
           Len(received) < Len(sent),
           ReadSize < Len(NextFrame),
           buf = SubSeq(NextFrame, 1, ReadSize), data = buf,
           Len(Rest) <= Len(stream),
           SubSeq(stream, 1, Len(Rest)) = Rest,
           IsWire(SubSeq(stream, Len(Rest) + 1, Len(stream)), SentFrom(Len(received) + 2))
    PROVE  ReceiveInv'
  <1> DEFINE k == Len(received)
             F == sent[k + 1]
             R == ReadSize
             M == Len(NextFrame)
             m == Len(Rest)
  <1> USE DEF k
  <1>0. /\ Len(received') <= Len(sent')
        /\ received' = SubSeq(sent', 1, Len(received'))
        /\ sent' = sent /\ received' = received
        /\ NextFrame' = NextFrame /\ Rest' = Rest
        /\ SentFrom(k + 2)' = SentFrom(k + 2)
    BY ReadKeeps
  <1>1. sent \in Seq(Frame) /\ stream \in Seq(Nat)
    BY SentTypes DEF TypeOK
  <1>2. k \in 0..Len(sent)
    BY DEF ReceiveInv, TypeOK
  <1>3. F \in Frame
    BY <1>1, <1>2
  <1>4. /\ Len(F) \in 1..MaxFrameLen
        /\ NextFrame \in Seq(Nat) /\ M = Len(F) + 1
        /\ NextFrame[M] = RS
        /\ \A j \in 1..M - 1 : NextFrame[j] # RS
    BY <1>3, DelimitedFrame DEF NextFrame
  <1>5. R \in Nat \ {0} /\ M \in Nat /\ R < M /\ M <= 2 * R
    BY <1>4, Assumptions
  <1>6. /\ Rest \in Seq(Nat) /\ m = M - R /\ m \in 1..R
        /\ \A j \in 1..m : Rest[j] = NextFrame[R + j]
    <2>0. R \in 0..Len(NextFrame)
      BY <1>5
    <2>1. /\ Rest \in Seq(Nat) /\ Len(Rest) = M - R
          /\ \A p \in 1..Len(Rest) : Rest[p] = NextFrame[R + p]
      BY <1>4, <2>0, SuffixFacts DEF Rest
    <2>2. m = M - R /\ m \in 1..R
      BY <2>1, <1>5
    <2>3. \A j \in 1..m : Rest[j] = NextFrame[R + j]
      BY <2>1
    <2>. QED
      BY <2>1, <2>2, <2>3
  <1>7. \A j \in 1..m : stream[j] = Rest[j]
    <2>1. m \in 0..Len(stream)
      BY <1>6
    <2>2. \A j \in 1..m : SubSeq(stream, 1, m)[j] = stream[j]
      BY <1>1, <2>1
    <2>. QED
      BY <2>2
  <1>8. stream[m] = RS /\ \A j \in 1..m - 1 : stream[j] # RS
    <2>1. R + m = M
      BY <1>5, <1>6
    <2>2. \A j \in 1..m - 1 : R + j \in 1..M - 1
      BY <1>5, <1>6
    <2>3. stream[m] = NextFrame[M]
      BY <1>6, <1>7, <2>1
    <2>4. \A j \in 1..m - 1 : stream[j] = NextFrame[R + j]
      <3> SUFFICES ASSUME NEW j \in 1..m - 1 PROVE stream[j] = NextFrame[R + j]
        OBVIOUS
      <3>1. j \in 1..m
        BY <1>6
      <3>. QED
        BY <3>1, <1>6, <1>7
    <2>. QED
      BY <1>4, <2>2, <2>3, <2>4
  <1>9. FirstRS(stream) = m
    BY <1>1, <1>6, <1>8, FirstRSAt
  <1>10. PICK c \in Chunks(stream) :
            /\ data' = c
            /\ buf' = data \o c
            /\ stream' = SubSeq(stream, Len(c) + 1, Len(stream))
    BY DEF ReceiveMore
  <1>11. c = Rest /\ Len(c) = m
    <2>0. c = SubSeq(stream, 1, IF R < FirstRS(stream) THEN R ELSE FirstRS(stream))
      BY DEF Chunks
    <2>a. (IF R < FirstRS(stream) THEN R ELSE FirstRS(stream)) = m
      BY <1>5, <1>6, <1>9
    <2>1. c = SubSeq(stream, 1, m)
      BY <2>0, <2>a
    <2>. QED
      BY <2>1
  <1>12. buf' = NextFrame
    <2>1. 1 \in 1..Len(NextFrame) + 1 /\ R \in 1 - 1..Len(NextFrame)
          /\ Len(NextFrame) \in R..Len(NextFrame)
      BY <1>5
    <2>2. SubSeq(NextFrame, 1, R) \o SubSeq(NextFrame, R + 1, M) = SubSeq(NextFrame, 1, M)
      <3>1. NextFrame \in Seq(Nat)
        BY <1>4
      <3>. QED
        BY <3>1, <2>1, ConcatAdjacentSubSeq, Zenon
    <2>3. SubSeq(NextFrame, 1, M) = NextFrame
      BY <1>4, SubSeqFull
    <2>. QED
      BY <1>10, <1>11, <2>2, <2>3 DEF Rest
  <1>13. stream' = SubSeq(stream, m + 1, Len(stream))
    BY <1>10, <1>11
  <1>14. k' < Len(sent') /\ buf' = NextFrame' /\ IsWire(stream', SentFrom(k + 2)')
    BY <1>0, <1>12, <1>13
  <1>. QED
    BY <1>0, <1>14 DEF ReceiveInv

\* Once buf holds a whole frame ReadMessage reports it complete, so
\* Receive does not read again.
LEMMA NoReadWhole ==
    ASSUME TypeOK, ReceiveMore, Len(received) < Len(sent), buf = NextFrame
    PROVE  FALSE
  <1>1. sent[Len(received) + 1] \in Seq(Byte)
    <2>1. sent \in Seq(Frame) /\ Len(received) + 1 \in 1..Len(sent)
      BY DEF TypeOK
    <2>. QED
      BY <2>1, DelimitedFrame
  <1>2. ReadMessage(buf).complete
    BY <1>1, FrameRoundTrip DEF NextFrame
  <1>. QED
    BY <1>2 DEF ReceiveMore

\* A Read preserves ReceiveInv in each phase.
LEMMA ReceiveMoreKeeps ==
    ASSUME TypeOK, ReceiveInv, ReceiveMore, Aligned, MaxFrameLen < 2 * ReadSize
    PROVE  ReceiveInv'
  BY ReadFirst, ReadSecond, NoReadWhole DEF ReceiveInv

\* Receive returns a frame only once buf holds all of it: the frame is the
\* next one written, and what is in transit is the frames after it.
LEMMA ReceiveCompleteKeeps ==
    ASSUME TypeOK, ReceiveInv, ReceiveComplete
    PROVE  ReceiveInv'
  <1> DEFINE k == Len(received)
             F == sent[k + 1]
  <1> USE DEF k
  <1>1. /\ ReadMessage(buf).complete
        /\ received' = Append(received, ReadMessage(buf).frame)
        /\ buf' = << >> /\ data' = << >>
        /\ sent' = sent /\ stream' = stream
    <2>1. ~ReadMessage(buf).err
      BY DEF ReadMessage
    <2>. QED
      BY <2>1 DEF ReceiveComplete
  <1>2. sent \in Seq(Seq(Nat)) /\ sent \in Seq(Frame)
    BY SentTypes DEF TypeOK
  <1>3. k \in 0..Len(sent) /\ received = SubSeq(sent, 1, k)
    BY DEF ReceiveInv, TypeOK
  <1>4. CASE buf = << >>
    BY <1>1, <1>4, EmptyIncomplete
  <1>5. CASE /\ k < Len(sent)
             /\ ReadSize < Len(NextFrame)
             /\ buf = SubSeq(NextFrame, 1, ReadSize)
    <2>1. /\ NextFrame \in Seq(Nat) /\ Len(NextFrame) = Len(F) + 1
          /\ \A j \in 1..Len(F) : NextFrame[j] # RS
      BY <1>2, <1>3, <1>5, DelimitedFrame DEF NextFrame
    <2>2. ReadSize \in 1..Len(F)
      BY <1>5, <2>1, Assumptions
    <2>3. buf \in Seq(Nat) /\ Len(buf) = ReadSize
          /\ \A j \in 1..ReadSize : buf[j] = NextFrame[j]
      BY <1>5, <2>1, <2>2
    <2>4. \A j \in 1..Len(buf) : buf[j] # RS
      <3> SUFFICES ASSUME NEW j \in 1..Len(buf) PROVE buf[j] # RS
        OBVIOUS
      <3>1. j \in 1..ReadSize /\ j \in 1..Len(F)
        BY <2>2, <2>3
      <3>. QED
        BY <2>1, <2>3, <3>1
    <2>. QED
      BY <1>1, <2>3, <2>4, NoDelimiter
  <1>6. CASE k < Len(sent) /\ buf = NextFrame /\ IsWire(stream, SentFrom(k + 2))
    <2>1. F \in Seq(Byte)
      BY <1>2, <1>3, <1>6, DelimitedFrame
    <2>2. ReadMessage(buf).frame = F
      BY <1>6, <2>1, FrameRoundTrip DEF NextFrame
    <2>3. received' = SubSeq(sent, 1, k + 1)
      BY <1>1, <1>2, <1>3, <1>6, <2>2, PrefixNext
    <2>4. Len(received') = k + 1 /\ Len(received') <= Len(sent')
      BY <1>1, <1>2, <1>3, <1>6, <2>3
    <2>5. received' = SubSeq(sent', 1, Len(received'))
      BY <1>1, <2>3, <2>4
    <2>6. IsWire(stream', SentFrom(Len(received) + 1)')
      BY <1>1, <1>6, <2>4 DEF SentFrom
    <2>. QED
      BY <1>1, <2>4, <2>5, <2>6 DEF ReceiveInv
  <1>. QED
    BY <1>4, <1>5, <1>6 DEF ReceiveInv

\* Every step of the receive path keeps ReceiveInv.
LEMMA ReceiveStep ==
    ASSUME TypeOK, ReceiveInv, [Next]_vars, Aligned, MaxFrameLen < 2 * ReadSize
    PROVE  ReceiveInv'
  <1>1. CASE ClientWrite
    BY <1>1, ClientWriteKeeps
  <1>2. CASE ReceiveComplete
    BY <1>2, ReceiveCompleteKeeps
  <1>3. CASE ReceiveMore
    BY <1>3, ReceiveMoreKeeps
  <1>4. CASE ReceiveEOF
    <2>1. UNCHANGED <<sent, stream, buf, data, received>>
      BY <1>4 DEF ReceiveEOF
    <2>. QED
      BY <2>1 DEF ReceiveInv, NextFrame, Rest, SentFrom
  <1>5. CASE UNCHANGED vars
    <2>1. UNCHANGED <<sent, stream, buf, data, received>>
      BY <1>5 DEF vars
    <2>. QED
      BY <2>1 DEF ReceiveInv, NextFrame, Rest, SentFrom
  <1>. QED
    BY <1>1, <1>2, <1>3, <1>4, <1>5 DEF Next

(***************************************************************************)
(* Chunk-size invariance (FrameIntegrity) for a message transport, on     *)
(* which a Read never returns bytes of two client Writes, and frames that *)
(* fit, with their delimiter, in two Reads of ReadSize bytes: Receive     *)
(* returns exactly the frames written, in order.  The bound is what the   *)
(* refill of data[:n] in Receive needs: when a frame takes two Reads, the *)
(* first chunk is still in data when the second arrives.  A frame that    *)
(* needs three Reads loses its first chunk (run frame_reader_long).       *)
(***************************************************************************)
THEOREM FrameIntegrityKept ==
    ASSUME Aligned, MaxFrameLen < 2 * ReadSize
    PROVE  Spec => []FrameIntegrity
  <1>1. Init => ReceiveInv
    BY ReceiveInit
  <1>2. TypeOK /\ ReceiveInv /\ [Next]_vars => ReceiveInv'
    BY ReceiveStep
  <1>3. ReceiveInv => FrameIntegrity
    BY DEF ReceiveInv, FrameIntegrity
  <1>4. Spec => []TypeOK
    BY TypeCorrect
  <1>. QED
    BY <1>1, <1>2, <1>3, <1>4, PTL DEF Spec

====
