---------------------------- MODULE ParserProofs ----------------------------
(***************************************************************************)
(* Machine-checked proofs about the parsers beside waitPackage, which      *)
(* StreamProofs is about, and the thread that runs them:                   *)
(*                                                                         *)
(* - waitPackage_coin, as CoinStream has it: for every number of samples   *)
(*   in a package, every angle the LiDAR begins at, every damage.  CoinInv *)
(*   says of the Stream of StreamProofs what lies around the first byte of *)
(*   a package, since the parser may begin to read anywhere: with a quiet  *)
(*   package before it that arrived as sent, the first byte is looked for  *)
(*   and found (SearchMeetsFirst), or it is taken along with the package   *)
(*   before it, which is then read as a whole (OverlooksOne).  The angles  *)
(*   are arithmetic: a sample is one unit further than the one before, so  *)
(*   that the angle shown and the number of times past zero tell how far   *)
(*   the LiDAR has turned (AngleOfSample).                                 *)
(*                                                                         *)
(* - StartReply: wait_start_reply, for any bytes on the line, any head and *)
(*   any length of a reply; and the threads that write commands, for any   *)
(*   number of them, any length of a command and any room in the port.     *)
(***************************************************************************)
EXTENDS StreamProofs, StartReply, FiniteSetTheorems

-----------------------------------------------------------------------------
(* waitPackage_coin: the packages and the search for a head.               *)

\* What the LiDAR sends.
CoinKinds == [ring : BOOLEAN, samples : SAMPLE_KINDS, start : 0 .. FULL - 1, stop : 0 .. FULL - 1]

LEMMA CoinSizes ==
    /\ SAMPLES \in Nat /\ SAMPLES >= 3 /\ CoinSize = 12 + 3 * SAMPLES /\ CoinSize \in Nat /\ CoinSize >= 21
    /\ FULL \in Nat /\ FULL >= 1 /\ FULL <= 256 /\ SAMPLES <= FULL /\ NEAR \in Nat /\ 2 * NEAR <= FULL
    /\ SAMPLES <= 255 /\ MAX_COINS \in Nat
  BY CoinAssumption DEF CoinSize, CoinHeaderSize, CoinTail, PackageSampleBytes

\* A byte of a coin package, by its place.
LEMMA CoinByteFacts ==
    ASSUME NEW kind \in CoinKinds
    PROVE  /\ \A k \in 1 .. 4 : CoinByteAt(kind, k) = CoinHead[k]
           /\ CoinHead[1] = 85 /\ CoinHead[2] = 170
           /\ CoinByteAt(kind, 1) = 85 /\ CoinByteAt(kind, 2) = 170 /\ CoinByteAt(kind, 3) = 131
           /\ \A k \in {5, 6, 8, CoinSize - 2, CoinSize - 1, CoinSize} : CoinByteAt(kind, k) = 0
           /\ CoinByteAt(kind, 7) = kind.start /\ CoinByteAt(kind, CoinSize - 3) = kind.stop
           /\ \A k \in 9 .. CoinSize - 4 :
                \E i \in 1 .. SAMPLES : CoinByteAt(kind, k) \in Range(kind.samples[i])
           /\ \A k \in 1 .. CoinSize : CoinByteAt(kind, k) \in ByteValues
  <1> DEFINE n == SAMPLES  z == CoinSize
  <1>1. n \in Nat /\ n >= 3 /\ n <= 255 /\ z = 12 + 3 * n /\ z \in Nat /\ z - 3 > 8
    BY CoinSizes
  <1>2. Len(CoinHead) = 4 /\ CoinHead[1] = 85 /\ CoinHead[2] = 170 /\ CoinHead[3] = 131 /\ CoinHead[4] = n
    BY DEF CoinHead
  <1>3. \A k \in 1 .. 8 : CoinByteAt(kind, k) = <<85, 170, 131, n, 0, 0, kind.start, 0>>[k]
    <2> DEFINE t == <<0, 0, kind.start, 0>>
    <2>0. /\ CoinHead \in Seq(Int) /\ t \in Seq(Int) /\ Len(t) = 4
          /\ t[1] = 0 /\ t[2] = 0 /\ t[3] = kind.start /\ t[4] = 0
      BY <1>1 DEF CoinHead, CoinKinds
    <2> HIDE DEF t, n
    <2> DEFINE u == CoinHead \o t
    <2>1. \A k \in 1 .. 8 : u[k] = IF k <= 4 THEN CoinHead[k] ELSE t[k - 4]
      <3>1. \A k \in 1 .. Len(CoinHead) + Len(t) :
               u[k] = IF k <= Len(CoinHead) THEN CoinHead[k] ELSE t[k - Len(CoinHead)]
        BY <2>0, ConcatProperties
      <3>2. PICK c, d : c = Len(CoinHead) /\ d = Len(t) /\ c = 4 /\ d = 4
        BY <1>2, <2>0
      <3> HIDE DEF u
      <3>3. \A k \in 1 .. c + d : u[k] = IF k <= c THEN CoinHead[k] ELSE t[k - c]
        BY <3>1, <3>2
      <3> QED
        BY <3>2, <3>3
    <2> HIDE DEF u
    <2>4. /\ u[1] = 85 /\ u[2] = 170 /\ u[3] = 131 /\ u[4] = n
          /\ u[5] = 0 /\ u[6] = 0 /\ u[7] = kind.start /\ u[8] = 0
      BY <1>2, <2>0, <2>1
    <2> USE DEF t
    <2> SUFFICES ASSUME NEW k \in 1 .. 8
                 PROVE  CoinByteAt(kind, k) = <<85, 170, 131, n, 0, 0, kind.start, 0>>[k]
      OBVIOUS
    <2>2. k <= CoinHeaderSize /\ ~(k = z - 3) /\ ~(k > z - 3)
      BY <1>1 DEF CoinHeaderSize
    <2>3. CoinByteAt(kind, k) = u[k]
      BY <2>2 DEF CoinByteAt, z, u
    <2>5. \/ k = 1 \/ k = 2 \/ k = 3 \/ k = 4 \/ k = 5 \/ k = 6 \/ k = 7 \/ k = 8
      OBVIOUS
    <2> QED BY <2>3, <2>4, <2>5
  <1>4. CoinByteAt(kind, z - 3) = kind.stop
    BY <1>1 DEF CoinByteAt, CoinHeaderSize
  <1>5. \A k \in {z - 2, z - 1, z} : CoinByteAt(kind, k) = 0
    BY <1>1 DEF CoinByteAt, CoinHeaderSize
  <1>6. ASSUME NEW k \in 9 .. z - 4
        PROVE  /\ \E i \in 1 .. n : CoinByteAt(kind, k) \in Range(kind.samples[i])
               /\ CoinByteAt(kind, k) \in ByteValues
    <2> DEFINE i == ((k - 8 - 1) \div 3) + 1
               j == ((k - 8 - 1) % 3) + 1
    <2>1. i \in 1 .. n /\ j \in 1 .. 3
      BY <1>1
    <2>2. kind.samples \in Seq(Samples) /\ Len(kind.samples) = n
      BY CoinAssumption DEF CoinKinds
    <2>3. kind.samples[i] \in [1 .. 3 -> ByteValues]
      BY <2>1, <2>2 DEF Samples, PackageSampleBytes
    <2>4. CoinByteAt(kind, k) = kind.samples[i][j]
      BY <1>1 DEF CoinByteAt, SampleByte, CoinHeaderSize, PackageSampleBytes
    <2> HIDE DEF i, j
    <2>5. CoinByteAt(kind, k) \in Range(kind.samples[i])
      BY <2>1, <2>3, <2>4 DEF Range
    <2> QED BY <2>1, <2>3, <2>4, <2>5
  <1>7. kind.start \in ByteValues /\ kind.stop \in ByteValues
    BY CoinSizes DEF CoinKinds, ByteValues
  <1> HIDE DEF n, z
  <1>8. /\ CoinByteAt(kind, 1) = 85 /\ CoinByteAt(kind, 2) = 170 /\ CoinByteAt(kind, 3) = 131
        /\ CoinByteAt(kind, 4) = n /\ CoinByteAt(kind, 5) = 0 /\ CoinByteAt(kind, 6) = 0
        /\ CoinByteAt(kind, 7) = kind.start /\ CoinByteAt(kind, 8) = 0
    BY <1>3
  <1>9. \A k \in 1 .. 4 : CoinByteAt(kind, k) = CoinHead[k]
    BY <1>2, <1>8
  <1>10. ASSUME NEW k \in 1 .. z PROVE CoinByteAt(kind, k) \in ByteValues
    <2>1. {85, 170, 131, 0, n} \subseteq ByteValues
      BY <1>1 DEF ByteValues
    <2>2. \/ k \in {1, 2, 3, 4, 5, 6, 7, 8} \/ k \in 9 .. z - 4
          \/ k = z - 3 \/ k \in {z - 2, z - 1, z}
      BY <1>1
    <2> QED BY <1>4, <1>5, <1>6, <1>7, <1>8, <2>1, <2>2
  <1> QED BY <1>2, <1>4, <1>5, <1>6, <1>8, <1>9, <1>10 DEF n, z

\* The bytes of a stream s are what they say they are, where nothing happened
\* to their package, in the order they were sent.
CoinOrigins(s, all, hurt) ==
    /\ \A i \in 1 .. Len(s) :
         /\ s[i].package \in 1 .. Len(all) /\ s[i].place \in 1 .. CoinSize
         /\ s[i].altered => s[i].package \in hurt
         /\ ~s[i].altered => s[i].value = CoinByteAt(all[s[i].package], s[i].place)
    /\ \A i, j \in 1 .. Len(s) : i < j =>
         s[i].package < s[j].package \/ (s[i].package = s[j].package /\ s[i].place < s[j].place)

\* Behind a byte of a package nothing happened to comes the rest of it, before
\* the first byte of a package the one before it, if nothing happened to that,
\* and the last one sent lies at the end.
CoinForward(s, hurt) ==
    \A i \in 1 .. Len(s) : \A k \in Nat :
        s[i].package \notin hurt /\ s[i].place + k <= CoinSize
        => i + k <= Len(s) /\ ComesFrom(s[i + k], s[i].package, s[i].place + k)

CoinBackward(s, hurt) ==
    \A j \in 1 .. Len(s) : \A k \in 1 .. CoinSize :
        s[j].place = 1 /\ s[j].package > 1 /\ s[j].package - 1 \notin hurt /\ k < j
        => ComesFrom(s[j - k], s[j].package - 1, CoinSize + 1 - k)

CoinEnd(s, all, hurt) ==
    \A k \in 1 .. CoinSize :
        Len(all) \notin hurt /\ k <= Len(s) => ComesFrom(s[Len(s) + 1 - k], Len(all), CoinSize + 1 - k)

CoinLies(s, all, hurt) ==
    CoinOrigins(s, all, hurt) /\ CoinForward(s, hurt) /\ CoinBackward(s, hurt) /\ CoinEnd(s, all, hurt)

\* Taking bytes off the front of the stream, whatever else is harmed.
LEMMA CoinDropKeeps ==
    ASSUME NEW s \in Seq(Bytes), NEW t \in Seq(Bytes), NEW all \in Seq(CoinKinds), NEW hurt, NEW more, NEW n,
           CoinLies(s, all, hurt), Dropped(s, t, n), hurt \subseteq more
    PROVE  CoinLies(t, all, more)
  <1> DEFINE L == Len(s)  M == Len(t)
  <1>1. /\ L \in Nat /\ n \in Nat /\ n <= L /\ M = L - n /\ M \in Nat
        /\ \A i \in 1 .. M : t[i] = s[i + n] /\ i + n \in 1 .. L
    <2>1. L \in Nat /\ n \in Nat /\ n <= L /\ M = L - n /\ \A i \in 1 .. L - n : t[i] = s[i + n]
      BY LenProperties DEF Dropped
    <2> HIDE DEF L, M
    <2> QED BY <2>1
  <1>2. CoinOrigins(s, all, hurt) /\ CoinForward(s, hurt) /\ CoinBackward(s, hurt) /\ CoinEnd(s, all, hurt)
    BY DEF CoinLies
  <1>3. CoinOrigins(t, all, more)
    <2> HIDE DEF L, M
    <2>1. ASSUME NEW i \in 1 .. M
          PROVE  /\ t[i].package \in 1 .. Len(all) /\ t[i].place \in 1 .. CoinSize
                 /\ t[i].altered => t[i].package \in more
                 /\ ~t[i].altered => t[i].value = CoinByteAt(all[t[i].package], t[i].place)
      BY <1>1, <1>2 DEF CoinOrigins, L
    <2>2. ASSUME NEW i \in 1 .. M, NEW j \in 1 .. M, i < j
          PROVE  t[i].package < t[j].package \/ (t[i].package = t[j].package /\ t[i].place < t[j].place)
      <3>1. i + n \in 1 .. L /\ j + n \in 1 .. L /\ i + n < j + n
        BY <1>1, <2>2
      <3>2. t[i] = s[i + n] /\ t[j] = s[j + n]
        BY <1>1
      <3> QED BY <1>2, <3>1, <3>2 DEF CoinOrigins, L
    <2> QED BY <2>1, <2>2 DEF CoinOrigins, M
  <1>4. CoinForward(t, more)
    <2> SUFFICES ASSUME NEW i \in 1 .. M, NEW k \in Nat, t[i].package \notin more, t[i].place + k <= CoinSize
                 PROVE  i + k <= M /\ ComesFrom(t[i + k], t[i].package, t[i].place + k)
      BY DEF CoinForward
    <2>1. t[i] = s[i + n] /\ i + n \in 1 .. L
      BY <1>1
    <2>2. i + n + k <= L /\ ComesFrom(s[i + n + k], t[i].package, t[i].place + k)
      BY <1>2, <2>1 DEF CoinForward
    <2> HIDE DEF L, M
    <2>3. i + k \in 1 .. M /\ i + n + k = (i + k) + n
      BY <1>1, <2>2
    <2> QED BY <1>1, <2>2, <2>3
  <1>5. CoinBackward(t, more)
    <2> SUFFICES ASSUME NEW j \in 1 .. M, NEW k \in 1 .. CoinSize, t[j].place = 1, t[j].package > 1,
                        t[j].package - 1 \notin more, k < j
                 PROVE  ComesFrom(t[j - k], t[j].package - 1, CoinSize + 1 - k)
      BY DEF CoinBackward
    <2>1. t[j] = s[j + n] /\ j + n \in 1 .. L /\ k < j + n
      BY <1>1, CoinSizes
    <2>4. PICK p : p = t[j].package - 1
      OBVIOUS
    <2>5. p \notin hurt /\ p = s[j + n].package - 1 /\ s[j + n].place = 1 /\ s[j + n].package > 1
      BY <2>1, <2>4
    <2>6. s[j + n].package - 1 \notin hurt
      BY <2>5
    <2>2. ComesFrom(s[j + n - k], s[j + n].package - 1, CoinSize + 1 - k)
      <3>1. PICK c \in 1 .. Len(s) : c = j + n
        BY <2>1
      <3>2. s[c].place = 1 /\ s[c].package > 1 /\ s[c].package - 1 \notin hurt /\ k < c
        BY <2>1, <2>5, <2>6, <3>1
      <3>3. ComesFrom(s[c - k], s[c].package - 1, CoinSize + 1 - k)
        BY <1>2, <3>2 DEF CoinBackward
      <3> QED BY <1>1, <3>1, <3>3, CoinSizes
    <2>3. j - k \in 1 .. M /\ j + n - k = (j - k) + n
      BY <1>1, CoinSizes
    <2> QED BY <1>1, <2>1, <2>2, <2>3
  <1>6. CoinEnd(t, all, more)
    <2> SUFFICES ASSUME NEW k \in 1 .. CoinSize, Len(all) \notin more, k <= M
                 PROVE  ComesFrom(t[M + 1 - k], Len(all), CoinSize + 1 - k)
      BY DEF CoinEnd
    <2>1. k <= L
      BY <1>1, CoinSizes
    <2>2. ComesFrom(s[L + 1 - k], Len(all), CoinSize + 1 - k)
      BY <1>2, <2>1 DEF CoinEnd
    <2>3. M + 1 - k \in 1 .. M /\ L + 1 - k = (M + 1 - k) + n
      BY <1>1, CoinSizes
    <2> QED BY <1>1, <2>2, <2>3
  <1> QED BY <1>3, <1>4, <1>5, <1>6 DEF CoinLies

\* What the line adds for package p: bytes of it in order, all of them as sent
\* if nothing happened to it.
Block(b, p, kind, hurt) ==
    /\ \A i \in 1 .. Len(b) :
         /\ b[i].package = p /\ b[i].place \in 1 .. CoinSize
         /\ b[i].altered => p \in hurt
         /\ ~b[i].altered => b[i].value = CoinByteAt(kind, b[i].place)
    /\ \A i, j \in 1 .. Len(b) : i < j => b[i].place < b[j].place
    /\ p \notin hurt => Len(b) = CoinSize /\ \A i \in 1 .. CoinSize : b[i].place = i

LEMMA CoinArrivalKeeps ==
    ASSUME NEW s \in Seq(Bytes), NEW b \in Seq(Bytes), NEW all \in Seq(CoinKinds), NEW kind \in CoinKinds,
           NEW hurt, NEW more, hurt \subseteq more, more \subseteq hurt \union {Len(all) + 1},
           hurt \subseteq 1 .. Len(all),
           CoinLies(s, all, hurt), Block(b, Len(all) + 1, kind, more)
    PROVE  CoinLies(s \o b, Append(all, kind), more)
  <1> DEFINE t == s \o b
             new == Append(all, kind)
             L == Len(s)  B == Len(b)  p == Len(all) + 1  z == CoinSize
  <1>1. /\ L \in Nat /\ B \in Nat /\ p \in Nat /\ p >= 1 /\ Len(t) = L + B /\ Len(new) = p
        /\ z \in Nat /\ z >= 21
        /\ \A i \in 1 .. L : t[i] = s[i]
        /\ \A i \in 1 .. B : t[L + i] = b[i]
        /\ \A q \in 1 .. p - 1 : new[q] = all[q]
        /\ new[p] = kind
    <2>1. t \in Seq(Bytes) /\ Len(t) = L + B /\ \A i \in 1 .. L + B : t[i] = IF i <= L THEN s[i] ELSE b[i - L]
      BY ConcatProperties
    <2>2. L \in Nat /\ B \in Nat /\ Len(all) \in Nat
      BY LenProperties
    <2>3. /\ Len(new) = Len(all) + 1 /\ new[Len(all) + 1] = kind
          /\ \A q \in 1 .. Len(all) : new[q] = all[q]
      BY AppendFacts
    <2>4. Len(all) = p - 1 /\ p \in Nat /\ p >= 1
      BY <2>2
    <2>5. \A i \in 1 .. L : t[i] = s[i]
      BY <2>1, <2>2
    <2> HIDE DEF t, L, B
    <2>6. ASSUME NEW i \in 1 .. B PROVE t[L + i] = b[i]
      <3>1. L + i \in 1 .. L + B /\ ~(L + i <= L) /\ (L + i) - L = i
        BY <2>2
      <3> QED BY <2>1, <3>1
    <2> QED BY <2>1, <2>2, <2>3, <2>4, <2>5, <2>6, CoinSizes
  <1>2. CoinOrigins(s, all, hurt) /\ CoinForward(s, hurt) /\ CoinBackward(s, hurt) /\ CoinEnd(s, all, hurt)
    BY DEF CoinLies
  <1>3. \A i \in 1 .. L : s[i].package \in 1 .. p - 1 /\ s[i].place \in 1 .. z
    BY <1>1, <1>2, LenProperties DEF CoinOrigins
  <1>4. /\ \A i \in 1 .. B : b[i].package = p /\ b[i].place \in 1 .. z
        /\ \A i \in 1 .. B : b[i].altered => p \in more
        /\ \A i \in 1 .. B : ~b[i].altered => b[i].value = CoinByteAt(kind, b[i].place)
        /\ \A i, j \in 1 .. B : i < j => b[i].place < b[j].place
        /\ p \notin more => B = z /\ \A i \in 1 .. z : b[i].place = i
    BY DEF Block
  <1>5. p \notin hurt /\ \A q \in 1 .. p - 1 : q \in more <=> q \in hurt
    BY <1>1, LenProperties
  <1>6. ASSUME NEW i \in 1 .. L + B
        PROVE  i \in 1 .. L \/ \E k \in 1 .. B : i = L + k
    <2>1. i \in 1 .. L \/ (i - L \in 1 .. B /\ i = L + (i - L))
      BY <1>1
    <2> QED BY <2>1
  <1>7. \A q \in hurt : q \in more
    OBVIOUS
  <1>8. /\ \A i \in 1 .. L : /\ s[i].altered => s[i].package \in hurt
                             /\ ~s[i].altered => s[i].value = CoinByteAt(all[s[i].package], s[i].place)
        /\ \A i, j \in 1 .. L : i < j =>
             s[i].package < s[j].package \/ (s[i].package = s[j].package /\ s[i].place < s[j].place)
    BY <1>2 DEF CoinOrigins
  <1> HIDE DEF t, new, L, B, p, z
  <1>9. CoinOrigins(t, new, more)
    <2>1. ASSUME NEW i \in 1 .. L + B
          PROVE  /\ t[i].package \in 1 .. p /\ t[i].place \in 1 .. z
                 /\ t[i].altered => t[i].package \in more
                 /\ ~t[i].altered => t[i].value = CoinByteAt(new[t[i].package], t[i].place)
      <3>1. CASE i \in 1 .. L
        <4>1. t[i] = s[i] /\ s[i].package \in 1 .. p - 1 /\ s[i].package \in 1 .. p
              /\ new[s[i].package] = all[s[i].package]
          BY <1>1, <1>3, <3>1
        <4> QED BY <1>3, <1>7, <1>8, <3>1, <4>1
      <3>2. CASE i \notin 1 .. L
        <4>1. PICK k \in 1 .. B : i = L + k
          BY <1>6, <3>2
        <4>2. t[i] = b[k] /\ b[k].package = p /\ p \in 1 .. p
          BY <1>1, <1>4, <4>1
        <4> QED BY <1>1, <1>4, <4>2
      <3> QED BY <3>1, <3>2
    <2>2. ASSUME NEW i \in 1 .. L + B, NEW j \in 1 .. L + B, i < j
          PROVE  t[i].package < t[j].package \/ (t[i].package = t[j].package /\ t[i].place < t[j].place)
      <3>1. CASE j \in 1 .. L
        <4>1. i \in 1 .. L
          BY <1>1, <2>2, <3>1
        <4>2. t[i] = s[i] /\ t[j] = s[j]
          BY <1>1, <3>1, <4>1
        <4> QED BY <1>8, <2>2, <3>1, <4>1, <4>2
      <3>2. CASE j \notin 1 .. L
        <4>1. PICK k \in 1 .. B : j = L + k
          BY <1>6, <3>2
        <4>2. t[j] = b[k] /\ b[k].package = p
          BY <1>1, <1>4, <4>1
        <4>3. CASE i \in 1 .. L
          <5>1. t[i] = s[i] /\ s[i].package \in 1 .. p - 1
            BY <1>1, <1>3, <4>3
          <5> QED BY <1>1, <4>2, <5>1
        <4>4. CASE i \notin 1 .. L
          <5>1. PICK m \in 1 .. B : i = L + m
            BY <1>6, <4>4
          <5>2. m < k
            BY <1>1, <2>2, <4>1, <5>1
          <5> QED BY <1>1, <1>4, <4>2, <5>1, <5>2
        <4> QED BY <4>3, <4>4
      <3> QED BY <3>1, <3>2
    <2> QED BY <1>1, <2>1, <2>2 DEF CoinOrigins, z
  <1>10. CoinForward(t, more)
    <2> SUFFICES ASSUME NEW i \in 1 .. L + B, NEW k \in Nat, t[i].package \notin more, t[i].place + k <= z
                 PROVE  i + k <= L + B /\ ComesFrom(t[i + k], t[i].package, t[i].place + k)
      BY <1>1 DEF CoinForward, z
    <2>1. CASE i \in 1 .. L
      <3>1. t[i] = s[i] /\ s[i].package \notin hurt
        BY <1>1, <1>7, <2>1
      <3>2. i + k <= L /\ ComesFrom(s[i + k], s[i].package, s[i].place + k)
        BY <1>2, <2>1, <3>1 DEF CoinForward, L, z
      <3>3. i + k \in 1 .. L /\ i + k <= L + B
        BY <1>1, <2>1, <3>2
      <3> QED BY <1>1, <3>1, <3>2, <3>3
    <2>2. CASE i \notin 1 .. L
      <3>1. PICK m \in 1 .. B : i = L + m
        BY <1>6, <2>2
      <3>2. t[i] = b[m] /\ b[m].package = p /\ p \notin more
        BY <1>1, <1>4, <3>1
      <3>3. B = z /\ b[m].place = m /\ m + k \in 1 .. B /\ i + k = L + (m + k)
        BY <1>1, <1>4, <3>1, <3>2
      <3>4. t[i + k] = b[m + k] /\ b[m + k].place = m + k /\ b[m + k].package = p
        BY <1>1, <1>4, <3>2, <3>3
      <3>5. i + k <= L + B
        BY <1>1, <3>3
      <3> QED BY <3>2, <3>3, <3>4, <3>5 DEF ComesFrom
    <2> QED BY <2>1, <2>2
  <1>11. CoinBackward(t, more)
    <2> SUFFICES ASSUME NEW j \in 1 .. L + B, NEW k \in 1 .. z, t[j].place = 1, t[j].package > 1,
                        t[j].package - 1 \notin more, k < j
                 PROVE  ComesFrom(t[j - k], t[j].package - 1, z + 1 - k)
      BY <1>1 DEF CoinBackward, z
    <2>1. CASE j \in 1 .. L
      <3>3. PICK q : q = t[j].package - 1
        OBVIOUS
      <3>4. q \notin hurt /\ t[j] = s[j]
        BY <1>1, <1>7, <2>1, <3>3
      <3>1. t[j] = s[j] /\ s[j].package - 1 \notin hurt /\ j - k \in 1 .. L
        BY <1>1, <2>1, <3>3, <3>4
      <3>2. ComesFrom(s[j - k], s[j].package - 1, z + 1 - k)
        BY <1>2, <2>1, <3>1 DEF CoinBackward, L, z
      <3> QED BY <1>1, <3>1, <3>2
    <2>2. CASE j \notin 1 .. L
      <3>1. PICK m \in 1 .. B : j = L + m
        BY <1>6, <2>2
      <3>2. t[j] = b[m] /\ b[m].package = p
        BY <1>1, <1>4, <3>1
      <3>3. m = 1
        <4> SUFFICES ASSUME m > 1 PROVE FALSE
          BY <1>1
        <4>1. 1 \in 1 .. B /\ b[1].place < b[m].place /\ b[1].place >= 1 /\ b[1].place \in Int
          BY <1>1, <1>4
        <4> QED BY <3>2, <4>1
      <3>4. k <= L /\ j - k = L + 1 - k /\ L + 1 - k \in 1 .. L
        BY <1>1, <3>1, <3>3
      <3>5. p - 1 \notin hurt
        BY <1>7, <3>2
      <3>6. ComesFrom(s[L + 1 - k], p - 1, z + 1 - k)
        <4>1. Len(all) = p - 1
          BY LenProperties DEF p
        <4> QED BY <1>2, <3>4, <3>5, <4>1 DEF CoinEnd, L, z
      <3> QED BY <1>1, <3>2, <3>4, <3>6
    <2> QED BY <2>1, <2>2
  <1>12. CoinEnd(t, new, more)
    <2> SUFFICES ASSUME NEW k \in 1 .. z, p \notin more, k <= L + B
                 PROVE  ComesFrom(t[L + B + 1 - k], p, z + 1 - k)
      BY <1>1 DEF CoinEnd, z
    <2>1. B = z /\ B + 1 - k \in 1 .. B /\ L + B + 1 - k = L + (B + 1 - k)
      BY <1>1, <1>4
    <2>2. t[L + B + 1 - k] = b[B + 1 - k]
      BY <1>1, <2>1
    <2>3. b[B + 1 - k].place = z + 1 - k /\ b[B + 1 - k].package = p
      BY <1>4, <2>1
    <2> QED BY <2>2, <2>3 DEF ComesFrom
  <1> QED BY <1>9, <1>10, <1>11, <1>12 DEF CoinLies, t, new

\* The search: in a quiet package only its first byte is that of a head.
QuietKind(kind) == \A i \in DOMAIN kind.samples : CoinHead[1] \notin Range(kind.samples[i])

LEMMA OneHead ==
    ASSUME NEW kind \in CoinKinds, QuietKind(kind), NEW place \in 2 .. CoinSize,
           CoinByteAt(kind, place) = CoinHead[1]
    PROVE  place < CoinSize /\ CoinByteAt(kind, place + 1) # CoinHead[2]
  <1> DEFINE z == CoinSize
  <1>1. z \in Nat /\ z >= 21 /\ CoinHead[1] = 85 /\ CoinHead[2] = 170
    BY CoinSizes, CoinByteFacts
  <1>2. DOMAIN kind.samples = 1 .. SAMPLES
    <2>1. kind.samples \in Seq(Samples) /\ Len(kind.samples) = SAMPLES
      BY CoinAssumption DEF CoinKinds
    <2> QED BY <2>1
  <1>3. place \notin 9 .. z - 4
    BY <1>2, CoinByteFacts DEF QuietKind
  <1>4. place \notin {2, 3, 5, 6, 8, z - 2, z - 1, z}
    BY <1>1, CoinByteFacts
  <1>5. \A k \in {5, 8, z - 2} : CoinByteAt(kind, k) = 0
    BY CoinByteFacts
  <1> HIDE DEF z
  <1>6. place \in {4, 7, z - 3}
    BY <1>1, <1>3, <1>4 DEF z
  <1>7. place + 1 \in {5, 8, z - 2} /\ place < z
    BY <1>1, <1>6
  <1> QED BY <1>1, <1>5, <1>7 DEF z

\* What lies before the first byte of a package.
LEMMA BeforeFirst ==
    ASSUME NEW s \in Seq(Bytes), NEW all \in Seq(CoinKinds), NEW hurt, CoinLies(s, all, hurt),
           NEW j \in 1 .. Len(s), NEW q, ComesFrom(s[j], q, 1), q > 1 => q - 1 \notin hurt,
           NEW i \in 1 .. Len(s), i < j, NEW n \in 1 .. CoinSize, n = CoinSize + 1 - (j - i)
    PROVE  /\ q > 1 /\ q - 1 \in 1 .. Len(all) /\ all[q - 1] \in CoinKinds
           /\ ComesFrom(s[i], q - 1, n)
           /\ s[i].value = CoinByteAt(all[q - 1], n)
  <1>1. j - i \in 1 .. CoinSize /\ j - i < j /\ j - (j - i) = i
    BY CoinSizes, LenProperties
  <1>2. CoinOrigins(s, all, hurt) /\ CoinBackward(s, hurt)
    BY DEF CoinLies
  <1>3. q \in 1 .. Len(all) /\ s[j].package = q /\ s[j].place = 1
    BY <1>2 DEF CoinOrigins, ComesFrom
  <1>4. PICK k \in 1 .. CoinSize : k = j - i /\ k < j /\ j - k = i /\ n = CoinSize + 1 - k
    BY <1>1
  <1>5. s[i].package \in 1 .. Len(all) /\ s[i].place \in 1 .. CoinSize /\ i < j
    BY <1>2 DEF CoinOrigins
  <1>6. s[i].package < s[j].package \/ (s[i].package = s[j].package /\ s[i].place < s[j].place)
    BY <1>2, <1>5 DEF CoinOrigins
  <1>7. q > 1
    BY <1>3, <1>5, <1>6
  <1>8. q - 1 \in 1 .. Len(all)
    BY <1>3, <1>7, LenProperties
  <1>9. all[q - 1] \in CoinKinds
    BY <1>8, ElementOfSeq
  <1>10. ComesFrom(s[j - k], q - 1, CoinSize + 1 - k)
    BY <1>2, <1>3, <1>4, <1>7 DEF CoinBackward
  <1>11. s[i].package = q - 1 /\ s[i].place = n /\ q - 1 \notin hurt
    BY <1>4, <1>7, <1>10 DEF ComesFrom
  <1>12. s[i].value = CoinByteAt(all[s[i].package], s[i].place)
    <2>1. ~s[i].altered
      BY <1>2, <1>11 DEF CoinOrigins
    <2> QED BY <1>2, <2>1 DEF CoinOrigins
  <1> QED BY <1>4, <1>7, <1>8, <1>9, <1>10, <1>11, <1>12

LEMMA SearchMeetsFirst ==
    ASSUME NEW s \in Seq(Bytes), NEW all \in Seq(CoinKinds), NEW hurt, CoinLies(s, all, hurt),
           NEW h \in 1 .. 9, h + 1 <= Len(s), \A k \in 1 .. h : k <= 4 => s[k].value = CoinHead[k],
           NEW q, ComesFrom(s[h + 1], q, 1), q > 1 => q - 1 \notin hurt /\ QuietKind(all[q - 1])
    PROVE  FALSE
  <1> DEFINE z == CoinSize
  <1>1. z \in Nat /\ z >= 21
    BY CoinSizes
  <1>2. PICK j \in 1 .. Len(s) : j = h + 1
    BY <1>1, LenProperties
  <1>3. PICK n \in 2 .. z : n = z + 1 - (j - 1)
    BY <1>1, <1>2
  <1>4. 1 \in 1 .. Len(s) /\ 1 < j /\ n \in 1 .. z /\ ComesFrom(s[j], q, 1)
    BY <1>1, <1>2, LenProperties
  <1>5. all[q - 1] \in CoinKinds /\ s[1].value = CoinByteAt(all[q - 1], n) /\ q > 1
    BY <1>3, <1>4, BeforeFirst
  <1>6. n < z /\ CoinByteAt(all[q - 1], n + 1) # CoinHead[2]
    BY <1>5, OneHead
  <1>7. 2 \in 1 .. Len(s) /\ 2 < j /\ n + 1 \in 1 .. z /\ n + 1 = z + 1 - (j - 2) /\ h >= 2
    BY <1>1, <1>2, <1>3, <1>6, LenProperties
  <1>8. s[2].value = CoinByteAt(all[q - 1], n + 1)
    BY <1>4, <1>7, BeforeFirst
  <1> QED BY <1>6, <1>7, <1>8

\* Bytes taken for a package that hold the first byte of another one are those
\* of the package before it.
LEMMA OverlooksOne ==
    ASSUME NEW s \in Seq(Bytes), NEW all \in Seq(CoinKinds), NEW hurt, CoinLies(s, all, hurt),
           CoinSize + 2 <= Len(s), \A k \in 1 .. 4 : s[k].value = CoinHead[k],
           NEW j \in 11 .. CoinSize + 2,
           NEW q, ComesFrom(s[j], q, 1), q > 1 => q - 1 \notin hurt /\ QuietKind(all[q - 1])
    PROVE  q > 1 /\ ComesFrom(s[1], q - 1, 1)
  <1> DEFINE z == CoinSize
  <1>1. z \in Nat /\ z >= 21 /\ j \in 1 .. Len(s) /\ CoinHead[1] = 85 /\ CoinHead[2] = 170
    BY CoinSizes, LenProperties DEF CoinHead
  <1>2. s[1].value = CoinHead[1] /\ s[2].value = CoinHead[2]
    OBVIOUS
  <1>3. CASE j = z + 2
    <2>1. PICK i \in 1 .. Len(s), n \in 1 .. z : i = 2 /\ n = 1 /\ i < j /\ n = z + 1 - (j - i)
      <3>1. 2 \in 1 .. Len(s) /\ 2 < j /\ 1 \in 1 .. z /\ 1 = z + 1 - (j - 2)
        BY <1>1, <1>3
      <3> QED BY <3>1
    <2>2. i < j /\ n = z + 1 - (j - i)
      BY <2>1
    <2>3. q > 1 => q - 1 \notin hurt
      OBVIOUS
    <2>4. q > 1 /\ all[q - 1] \in CoinKinds
      BY <1>1, <2>2, <2>3, BeforeFirst
    <2>5. s[i].value = CoinByteAt(all[q - 1], n)
      BY <1>1, <2>2, <2>3, BeforeFirst
    <2>6. CoinByteAt(all[q - 1], 1) = 85
      BY <2>4, CoinByteFacts
    <2> QED BY <1>1, <1>2, <2>1, <2>5, <2>6
  <1>4. CASE j <= z + 1
    <2>1. PICK n \in 1 .. z : n = z + 1 - (j - 1)
      BY <1>1, <1>4
    <2>2. 1 \in 1 .. Len(s) /\ 2 \in 1 .. Len(s) /\ 1 < j /\ 2 < j
      BY <1>1
    <2>3. /\ q > 1 /\ all[q - 1] \in CoinKinds /\ ComesFrom(s[1], q - 1, n)
          /\ s[1].value = CoinByteAt(all[q - 1], n)
      BY <1>1, <2>1, <2>2, BeforeFirst
    <2>4. n = 1
      <3> SUFFICES ASSUME n \in 2 .. z PROVE FALSE
        BY <1>1, <2>1
      <3>1. CoinByteAt(all[q - 1], n + 1) # CoinHead[2]
        BY <1>2, <2>3, OneHead
      <3>2. PICK i \in 1 .. Len(s), m \in 1 .. z : i = 2 /\ m = n + 1 /\ i < j /\ m = z + 1 - (j - i)
        <4>1. n + 1 \in 1 .. z /\ n + 1 = z + 1 - (j - 2)
          BY <1>1, <2>1
        <4> QED BY <2>2, <4>1
      <3>3. /\ ComesFrom(s[i], q - 1, m)
            /\ s[i].value = CoinByteAt(all[q - 1], m)
        BY <1>1, <3>2, BeforeFirst
      <3> QED BY <1>2, <3>1, <3>2, <3>3
    <2> QED BY <2>3, <2>4
  <1> QED BY <1>1, <1>3, <1>4

\* A package that begins where the parser looks.
LEMMA WholeCoin ==
    ASSUME NEW s \in Seq(Bytes), NEW all \in Seq(CoinKinds), NEW hurt, CoinLies(s, all, hurt),
           NEW q, q \notin hurt, Len(s) >= 1, ComesFrom(s[1], q, 1)
    PROVE  /\ CoinSize <= Len(s) /\ q \in 1 .. Len(all) /\ all[q] \in CoinKinds
           /\ \A k \in 1 .. CoinSize : /\ ComesFrom(s[k], q, k) /\ ~s[k].altered
                                       /\ s[k].value = CoinByteAt(all[q], k)
  <1>1. CoinOrigins(s, all, hurt) /\ CoinForward(s, hurt) /\ 1 \in 1 .. Len(s) /\ Len(s) \in Nat
    BY LenProperties DEF CoinLies
  <1>2. s[1].package = q /\ s[1].place = 1 /\ q \in 1 .. Len(all)
    BY <1>1 DEF CoinOrigins, ComesFrom
  <1>3. all[q] \in CoinKinds
    BY <1>2, ElementOfSeq
  <1>4. ASSUME NEW k \in 1 .. CoinSize PROVE k \in 1 .. Len(s) /\ ComesFrom(s[k], q, k)
    <2>1. k - 1 \in Nat /\ 1 + (k - 1) = k /\ 1 + (k - 1) <= CoinSize
      BY CoinSizes
    <2>2. 1 + (k - 1) <= Len(s) /\ ComesFrom(s[1 + (k - 1)], q, 1 + (k - 1))
      BY <1>1, <1>2, <2>1 DEF CoinForward
    <2> QED BY <1>1, <2>1, <2>2
  <1>5. CoinSize \in 1 .. CoinSize
    BY CoinSizes
  <1>6. CoinSize <= Len(s)
    BY <1>1, <1>4, <1>5
  <1>7. ASSUME NEW k \in 1 .. CoinSize PROVE ~s[k].altered /\ s[k].value = CoinByteAt(all[q], k)
    <2>1. k \in 1 .. Len(s) /\ s[k].package = q /\ s[k].place = k
      BY <1>4 DEF ComesFrom
    <2> QED BY <1>1, <2>1 DEF CoinOrigins
  <1> QED BY <1>2, <1>3, <1>4, <1>6, <1>7
-----------------------------------------------------------------------------
(* waitPackage_coin: the inductive invariant.                              *)

CoinNodes == [sync : BOOLEAN, point : Points \union {NoPoint}]

\* What every variable is.
CoinTypes ==
    /\ sent \in Seq(CoinKinds)
    /\ line \in Seq(Bytes) /\ globalRecvBuffer \in Seq(Bytes) /\ header \in Seq(Bytes)
    /\ at \in {"judge", "header", "parse", "payload", "node", "collect"}
    /\ package.samples \in Nat /\ package.payload \in Seq(Bytes)
    /\ CheckSumResult \in BOOLEAN /\ package_Sample_Index \in Nat
    /\ local_buf \in Seq(Nodes) /\ nodes \in Seq(CoinNodes) /\ got \in Seq(Points)
    /\ harmed \subseteq 1 .. Len(sent) /\ mishaps \in Nat

\* What only waitPackage and read_forever write.
CoinIdle == local_scan = <<>> /\ scan.nodes = <<>> /\ scan.closedBy = 0 /\ searched = {}

\* Where the parser is, and what it holds then.
Reading == at = "node" \/ package_Sample_Index > 0

CoinControl ==
    /\ globalRecvBuffer # <<>> <=> at = "parse"
    /\ at = "parse" => Len(header) + Len(globalRecvBuffer) <= PackagePaidBytes
    /\ Len(header) <= PackagePaidBytes /\ (Len(header) = PackagePaidBytes <=> at = "payload")
    /\ header # <<>> => at \in {"header", "parse", "payload"}
    /\ \A k \in 1 .. Len(header) : k <= 4 => header[k].value = CoinHead[k]
    /\ at \in {"header", "parse", "payload"} => package_Sample_Index = 0
    /\ Len(package.payload) = PackageSampleBytes * package.samples
    /\ package_Sample_Index = 0 \/ package_Sample_Index < package.samples
    /\ Reading => package.samples = SAMPLES
    /\ Reading \/ nodes # <<>> => sent # <<>>
    /\ CheckSumResult => Reading
    /\ Len(local_buf) <= BATCH /\ (at \notin {"collect", "judge"} => Len(local_buf) < BATCH)
    /\ at = "judge" => local_buf = <<>>
    /\ mishaps <= MAX_MISHAPS

\* The LiDAR turns on, package by package.
FirstTurn(all, p) == all[1].start + SAMPLES * (p - 1)
Angles(all) ==
    \A p \in 1 .. Len(all) : /\ all[p].start = FirstTurn(all, p) % FULL
                             /\ all[p].stop = (all[p].start + SAMPLES - 1) % FULL

\* A package whose check sum fits has been read as a whole.
WholeCoinRead ==
    CheckSumResult =>
        /\ Current \in 1 .. Len(sent) /\ \A i \in 1 .. Len(Stream) : Stream[i].package > Current
        /\ package.start = sent[Current].start /\ package.interval = 1
        /\ \A i \in 1 .. PackageSampleBytes * SAMPLES :
             ComesFrom(package.payload[i], Current, CoinHeaderSize + i)

\* The points reported lie behind the stream and before the next sample.
CoinsBehind ==
    \A i \in 1 .. Len(got) :
        /\ got[i][1] \in 1 .. Len(sent) /\ got[i][2] \in 1 .. SAMPLES
        /\ \A j \in 1 .. Len(Stream) : Stream[j].package > got[i][1]
        /\ CheckSumResult => got[i][1] < Current \/
                             (got[i][1] = Current /\ got[i][2] <= package_Sample_Index)

\* How far the LiDAR has turned when it takes a sample, and how often past
\* zero: what RingStartIsPastZero says of two successive nodes.
TurnOf(start, point) == start + SAMPLES * (point[1] - 1) + point[2] - 1
ZeroOf(start, point) == (TurnOf(start, point) - (IF point[2] = 1 THEN 0 ELSE 1)) \div FULL

RingStartAt(start, one, two) ==
    /\ one.point # NoPoint /\ two.point # NoPoint
    /\ TurnOf(start, two.point) - TurnOf(start, one.point) < NEAR
    => (two.sync <=> ZeroOf(start, one.point) < ZeroOf(start, two.point))

\* The angle kept is that of the last point reported, if the last node is one.
LastNode == nodes[Len(nodes)].point

AngleKept ==
    nodes # <<>> /\ LastNode # NoPoint =>
        /\ got # <<>> /\ got[Len(got)] = LastNode /\ angle_bak \in 0 .. FULL
        /\ ZeroOf(sent[1].start, LastNode) \in Nat
        /\ TurnOf(sent[1].start, LastNode) = FULL * ZeroOf(sent[1].start, LastNode) + angle_bak

\* Of a package that arrived as sent, behind a quiet one that did, the parser
\* has the first byte still before it, or where a header begins; or it reads
\* the package or has reported it; or it does, or did, so with the one before.
CoinDelivered(p) ==
    \/ CheckSumResult /\ Current = p /\ \A i \in 1 .. package_Sample_Index : <<p, i>> \in Range(got)
    \/ Delivered(p)

CoinMet(p) ==
    \E j \in 1 .. Len(Stream) : ComesFrom(Stream[j], p, 1) /\ (j <= Len(header) => j = 1)

Behind(all, hurt, p) == p \notin hurt /\ (p > 1 => p - 1 \notin hurt /\ QuietKind(all[p - 1]))

OneOfTwo ==
    \A p \in 1 .. Len(sent) : Behind(sent, harmed, p) =>
        CoinMet(p) \/ CoinDelivered(p) \/ (p > 1 /\ CoinDelivered(p - 1))

CoinInv ==
    /\ CoinTypes /\ CoinIdle /\ CoinControl /\ Angles(sent) /\ CoinLies(Stream, sent, harmed)
    /\ WholeCoinRead /\ CoinsBehind /\ PointsInOrder /\ AngleKept /\ RingStartIsPastZero /\ OneOfTwo
-----------------------------------------------------------------------------
(* waitPackage_coin: what the steps do to the stream and to the rest.      *)

LEMMA SplitBytes ==
    ASSUME NEW s \in Seq(Bytes), NEW n \in Nat, n <= Len(s)
    PROVE  /\ SubSeq(s, 1, n) \in Seq(Bytes) /\ SubSeq(s, n + 1, Len(s)) \in Seq(Bytes)
           /\ Len(SubSeq(s, 1, n)) = n
           /\ SubSeq(s, 1, n) \o SubSeq(s, n + 1, Len(s)) = s
  <1> DEFINE u == SubSeq(s, 1, n)  v == SubSeq(s, n + 1, Len(s))
  <1>1. /\ u \in Seq(Bytes) /\ Len(u) = n /\ \A i \in 1 .. n : u[i] = s[i]
        /\ v \in Seq(Bytes) /\ Len(v) = Len(s) - n /\ \A i \in 1 .. Len(s) - n : v[i] = s[n + i]
    BY SubSeqFacts
  <1> HIDE DEF u, v
  <1>2. u \o v \in Seq(Bytes) /\ Len(u \o v) = Len(s) /\ Len(s) \in Nat
    <2>1. u \o v \in Seq(Bytes) /\ Len(u \o v) = Len(u) + Len(v) /\ Len(s) \in Nat
      BY <1>1, ConcatProperties, LenProperties
    <2> QED BY <1>1, <2>1
  <1>3. ASSUME NEW i \in 1 .. Len(s) PROVE (u \o v)[i] = s[i]
    <2>1. (u \o v)[i] = IF i <= n THEN u[i] ELSE v[i - n]
      BY <1>1, <1>2, ConcatProperties
    <2>2. CASE i <= n
      BY <1>1, <2>1, <2>2
    <2>3. CASE i > n
      <3>1. PICK k \in 1 .. Len(s) - n : k = i - n /\ n + k = i
        <4>1. i - n \in 1 .. Len(s) - n /\ n + (i - n) = i
          BY <1>2, <2>3
        <4> QED BY <4>1
      <3>2. v[k] = s[n + k]
        BY <1>1
      <3> QED BY <2>1, <2>3, <3>1, <3>2
    <2> QED BY <1>2, <2>2, <2>3
  <1>4. u \o v = s
    BY <1>2, <1>3, SeqEqual
  <1> QED BY <1>1, <1>4 DEF u, v

LEMMA HeadAndTail ==
    ASSUME NEW s \in Seq(Bytes), s # <<>>
    PROVE  /\ Head(s) \in Bytes /\ Tail(s) \in Seq(Bytes) /\ <<Head(s)>> \in Seq(Bytes)
           /\ <<Head(s)>> \o Tail(s) = s /\ Len(s) \in Nat /\ Len(s) > 0 /\ Len(Tail(s)) = Len(s) - 1
           /\ (Len(s) > 1 <=> Tail(s) # <<>>)
  <1>1. Head(s) \in Bytes /\ Tail(s) \in Seq(Bytes) /\ Len(Tail(s)) = Len(s) - 1
    BY HeadTailProperties
  <1>2. Len(s) \in Nat /\ Len(s) # 0
    BY EmptySeq
  <1>3. Tail(s) = SubSeq(s, 1 + 1, Len(s)) /\ SubSeq(s, 1, 1) \o SubSeq(s, 1 + 1, Len(s)) = s
        /\ SubSeq(s, 1, 1) \in Seq(Bytes) /\ Len(SubSeq(s, 1, 1)) = 1
    BY <1>2, SplitBytes, TailIsSubSeq
  <1>4. <<Head(s)>> \in Seq(Bytes)
    BY <1>1
  <1>5. SubSeq(s, 1, 1) = <<Head(s)>>
    <2>1. SubSeq(s, 1, 1)[1] = s[1] /\ Head(s) = s[1]
      BY <1>2, SubSeqFacts
    <2> DEFINE u == SubSeq(s, 1, 1)  v == <<Head(s)>>
    <2>2. Len(v) = 1 /\ v[1] = u[1] /\ Len(u) = 1 /\ u \in Seq(Bytes) /\ v \in Seq(Bytes)
      BY <1>3, <1>4, <2>1
    <2> HIDE DEF u, v
    <2>3. u = v
      BY <2>2, SeqEqual
    <2> QED BY <2>3 DEF u, v
  <1>6. Len(s) > 1 <=> Tail(s) # <<>>
    <2>1. Len(<<>>) = 0 /\ (Tail(s) # <<>> => Len(Tail(s)) # 0)
      BY <1>1, EmptySeq
    <2> QED BY <1>1, <1>2, <2>1
  <1> QED BY <1>1, <1>2, <1>3, <1>4, <1>5, <1>6

LEMMA FrontDropped ==
    ASSUME NEW u \in Seq(Bytes), NEW t \in Seq(Bytes)
    PROVE  Dropped(u \o t, t, Len(u))
  <1>1. /\ Len(u \o t) = Len(u) + Len(t) /\ Len(u) \in Nat /\ Len(t) \in Nat
        /\ \A i \in 1 .. Len(u) + Len(t) : (u \o t)[i] = IF i <= Len(u) THEN u[i] ELSE t[i - Len(u)]
    BY ConcatProperties, LenProperties
  <1> DEFINE s == u \o t  n == Len(u)  m == Len(t)
  <1> HIDE DEF s, n, m
  <1>2. ASSUME NEW i \in 1 .. m PROVE t[i] = s[i + n]
    <2>1. i + n \in 1 .. n + m /\ ~(i + n <= n) /\ (i + n) - n = i
      BY <1>1 DEF n, m
    <2> QED BY <1>1, <2>1 DEF s, n, m
  <1>3. Len(s) = n + m /\ n \in Nat /\ m \in Nat
    BY <1>1 DEF s, n, m
  <1> QED BY <1>2, <1>3 DEF Dropped, s, n, m

LEMMA NothingDropped ==
    ASSUME NEW s \in Seq(Bytes)
    PROVE  Dropped(s, s, 0)
  BY LenProperties DEF Dropped

\* The stream is a sequence of bytes, and with nothing looked at header and line.
LEMMA CoinStreamFacts ==
    ASSUME CoinTypes
    PROVE  /\ Stream \in Seq(Bytes) /\ Len(Stream) \in Nat
           /\ \A i \in 1 .. Len(Stream) : Stream[i] \in Bytes /\ Stream[i].package \in Nat /\ Stream[i].value \in ByteValues
           /\ Len(header) \in Nat /\ Len(header) <= Len(Stream)
           /\ \A i \in 1 .. Len(header) : Stream[i] = header[i]
           /\ globalRecvBuffer = <<>> => Stream = header \o line
           /\ header = <<>> /\ globalRecvBuffer = <<>> => Stream = line
           /\ Stream = header \o (globalRecvBuffer \o line)
  <1> DEFINE h == header  b == globalRecvBuffer  l == line
  <1>1. h \in Seq(Bytes) /\ b \in Seq(Bytes) /\ l \in Seq(Bytes)
    BY DEF CoinTypes
  <1>2. /\ Stream \in Seq(Bytes) /\ Len(Stream) = Len(h) + Len(b) + Len(l)
        /\ Len(h) \in Nat /\ Len(b) \in Nat /\ Len(l) \in Nat
        /\ \A i \in 1 .. Len(Stream) :
             Stream[i] = IF i <= Len(h) THEN h[i]
                         ELSE IF i <= Len(h) + Len(b) THEN b[i - Len(h)] ELSE l[i - Len(h) - Len(b)]
    BY <1>1, StreamPlaces DEF Stream
  <1>3. Stream = h \o (b \o l)
    BY <1>1, ConcatAssociative DEF Stream
  <1>4. b = <<>> => Stream = h \o l
    BY <1>1, ConcatEmptySeq DEF Stream
  <1>5. b = <<>> /\ h = <<>> => Stream = l
    BY <1>1, ConcatEmptySeq DEF Stream
  <1> HIDE DEF h, b, l
  <1>6. \A i \in 1 .. Len(h) : Stream[i] = h[i]
    BY <1>2
  <1>7. Len(h) <= Len(Stream) /\ Len(Stream) \in Nat
    BY <1>2
  <1>8. ASSUME NEW i \in 1 .. Len(Stream)
        PROVE  Stream[i] \in Bytes /\ Stream[i].package \in Nat /\ Stream[i].value \in ByteValues
    <2>1. Stream[i] \in Bytes
      BY <1>2, ElementOfSeq
    <2> QED BY <2>1 DEF Bytes
  <1> QED BY <1>2, <1>3, <1>4, <1>5, <1>6, <1>7, <1>8 DEF h, b, l

\* The bytes of a coin package, as sent.
CoinBytes(kind, p) ==
    [i \in 1 .. CoinSize |-> [value |-> CoinByteAt(kind, i), package |-> p, place |-> i, altered |-> FALSE]]

LEMMA CoinBlock ==
    ASSUME NEW kind \in CoinKinds, NEW p \in Nat, NEW b, NEW hurt,
           \/ b = CoinBytes(kind, p)
           \/ /\ p \in hurt
              /\ \E i \in 1 .. CoinSize :
                   \/ b = RemoveAt(CoinBytes(kind, p), i)
                   \/ \E v \in COIN_NOISE :
                        b = [CoinBytes(kind, p) EXCEPT ![i].value = v, ![i].altered = TRUE]
                   \/ b = SubSeq(CoinBytes(kind, p), 1, i - 1)
    PROVE  b \in Seq(Bytes) /\ Block(b, p, kind, hurt)
  <1> DEFINE a == CoinBytes(kind, p)  z == CoinSize
  <1>1. z \in Nat
    BY CoinSizes
  <1>2. /\ a \in Seq(Bytes) /\ Len(a) = z
        /\ \A i \in 1 .. z : /\ a[i] \in Bytes /\ a[i].package = p /\ a[i].place = i /\ ~a[i].altered
                             /\ a[i].value = CoinByteAt(kind, i)
    <2>1. ASSUME NEW i \in 1 .. z
          PROVE  /\ a[i] \in Bytes /\ a[i].package = p /\ a[i].place = i /\ ~a[i].altered
                 /\ a[i].value = CoinByteAt(kind, i)
      <3>1. a[i] = [value |-> CoinByteAt(kind, i), package |-> p, place |-> i, altered |-> FALSE]
        BY DEF CoinBytes
      <3>2. CoinByteAt(kind, i) \in ByteValues /\ i \in Nat
        BY <1>1, CoinByteFacts
      <3> HIDE DEF a
      <3> QED BY <3>1, <3>2 DEF Bytes
    <2>2. a = [i \in 1 .. z |-> a[i]]
      BY DEF CoinBytes
    <2>3. \A i \in 1 .. z : a[i] \in Bytes
      BY <2>1
    <2> HIDE DEF a, z
    <2>4. a \in [1 .. z -> Bytes]
      BY <2>2, <2>3
    <2>5. a \in Seq(Bytes) /\ Len(a) = z
      BY <1>1, <2>4
    <2> QED BY <2>1, <2>5
  <1>3. b = a \/ p \in hurt
    OBVIOUS
  <1> HIDE DEF a
  <1>4. CASE b = a
    BY <1>1, <1>2, <1>4 DEF Block
  <1>5. CASE b # a
    <2>1. PICK i \in 1 .. z :
                   \/ b = RemoveAt(a, i)
                   \/ \E v \in COIN_NOISE : b = [a EXCEPT ![i].value = v, ![i].altered = TRUE]
                   \/ b = SubSeq(a, 1, i - 1)
      BY <1>5 DEF a
    <2>2. p \in hurt
      BY <1>3, <1>5
    <2> HIDE DEF z
    <2>3. CASE b = RemoveAt(a, i)
      <3> DEFINE u == SubSeq(a, 1, i - 1)  w == SubSeq(a, i + 1, Len(a))
      <3>1. /\ u \in Seq(Bytes) /\ Len(u) = i - 1 /\ \A k \in 1 .. i - 1 : u[k] = a[k]
            /\ w \in Seq(Bytes) /\ Len(w) = z - i /\ \A k \in 1 .. z - i : w[k] = a[i + k]
        <4>1. i - 1 \in Nat /\ i - 1 <= Len(a) /\ i \in Nat /\ i <= Len(a)
          BY <1>1, <1>2
        <4>2. u \in Seq(Bytes) /\ Len(u) = i - 1 /\ \A k \in 1 .. i - 1 : u[k] = a[k]
          BY <1>2, <4>1, SubSeqFacts
        <4>3. /\ w \in Seq(Bytes) /\ Len(w) = Len(a) - i
              /\ \A k \in 1 .. Len(a) - i : w[k] = a[i + k]
          BY <1>2, <4>1, SubSeqFacts
        <4> QED BY <1>2, <4>2, <4>3
      <3>2. b = u \o w
        BY <2>3 DEF RemoveAt
      <3> HIDE DEF u, w
      <3>3. /\ b \in Seq(Bytes) /\ Len(b) = z - 1
            /\ \A k \in 1 .. z - 1 : b[k] = IF k <= i - 1 THEN u[k] ELSE w[k - (i - 1)]
        <4>1. /\ b \in Seq(Bytes) /\ Len(b) = Len(u) + Len(w)
              /\ \A k \in 1 .. Len(u) + Len(w) : b[k] = IF k <= Len(u) THEN u[k] ELSE w[k - Len(u)]
          BY <3>1, <3>2, ConcatProperties
        <4>2. PICK c, d : c = Len(u) /\ d = Len(w) /\ c = i - 1 /\ c + d = z - 1
          BY <1>1, <3>1
        <4>3. /\ Len(b) = c + d
              /\ \A k \in 1 .. c + d : b[k] = IF k <= c THEN u[k] ELSE w[k - c]
          BY <4>1, <4>2
        <4> QED BY <4>1, <4>2, <4>3
      <3>4. ASSUME NEW k \in 1 .. z - 1 PROVE b[k] = a[IF k < i THEN k ELSE k + 1]
        <4>1. CASE k < i
          BY <1>1, <3>1, <3>3, <4>1
        <4>2. CASE ~(k < i)
          <5>1. PICK m \in 1 .. z - i : m = k - (i - 1) /\ i + m = k + 1
            BY <1>1, <4>2
          <5>2. b[k] = w[m]
            BY <1>1, <3>3, <4>2, <5>1
          <5> QED BY <3>1, <4>2, <5>1, <5>2
        <4> QED BY <4>1, <4>2
      <3>5. ASSUME NEW k \in 1 .. z - 1
            PROVE  /\ b[k].package = p /\ b[k].place = (IF k < i THEN k ELSE k + 1) /\ ~b[k].altered
                   /\ b[k].value = CoinByteAt(kind, b[k].place) /\ b[k].place \in 1 .. z
        <4>1. PICK m \in 1 .. z : m = IF k < i THEN k ELSE k + 1
          BY <1>1
        <4> QED BY <1>2, <3>4, <4>1
      <3>6. ASSUME NEW k \in 1 .. z - 1, NEW m \in 1 .. z - 1, k < m PROVE b[k].place < b[m].place
        BY <3>5, <3>6
      <3> QED BY <2>2, <3>3, <3>5, <3>6 DEF Block, z
    <2>4. CASE \E v \in COIN_NOISE : b = [a EXCEPT ![i].value = v, ![i].altered = TRUE]
      <3>1. PICK v \in COIN_NOISE : b = [a EXCEPT ![i].value = v, ![i].altered = TRUE]
        BY <2>4
      <3>2. v \in ByteValues
        BY CoinAssumption
      <3> DEFINE e == [a[i] EXCEPT !.value = v, !.altered = TRUE]
      <3>3. e \in Bytes /\ e.package = p /\ e.place = i /\ e.altered
        BY <1>2, <3>2 DEF Bytes
      <3>4. b = [a EXCEPT ![i] = e]
        BY <3>1
      <3> HIDE DEF e
      <3>5. b \in Seq(Bytes) /\ Len(b) = z /\ \A k \in 1 .. z : b[k] = IF k = i THEN e ELSE a[k]
        BY <1>2, <3>3, <3>4, ExceptSeq
      <3>6. \A k \in 1 .. z : b[k].package = p /\ b[k].place = k
        BY <1>2, <3>3, <3>5
      <3>7. \A k \in 1 .. z : ~b[k].altered => b[k].value = CoinByteAt(kind, b[k].place)
        BY <1>2, <3>3, <3>5
      <3> QED BY <1>1, <2>2, <3>5, <3>6, <3>7 DEF Block, z
    <2>5. CASE b = SubSeq(a, 1, i - 1)
      <3>1. i - 1 \in Nat /\ i - 1 <= Len(a)
        BY <1>1, <1>2
      <3>2. b \in Seq(Bytes) /\ Len(b) = i - 1 /\ \A k \in 1 .. i - 1 : b[k] = a[k]
        BY <1>2, <2>5, <3>1, SubSeqFacts
      <3>3. \A k \in 1 .. i - 1 : k \in 1 .. z
        BY <1>1
      <3> QED BY <1>2, <2>2, <3>2, <3>3 DEF Block, z
    <2> QED BY <2>1, <2>3, <2>4, <2>5
  <1> QED BY <1>4, <1>5
\* Quotient and remainder.
LEMMA Quotients ==
    ASSUME NEW F \in Nat, F >= 1, NEW x \in Nat
    PROVE  x % F \in 0 .. F - 1 /\ x \div F \in Nat /\ x = F * (x \div F) + (x % F)
  OBVIOUS

LEMMA CoinArrivalFacts ==
    ASSUME CoinTypes, mishaps <= MAX_MISHAPS, CoinArrives
    PROVE  /\ \E kind \in CoinKinds, b \in Seq(Bytes) :
                /\ sent' = Append(sent, kind) /\ line' = line \o b
                /\ Block(b, Len(sent) + 1, kind, harmed')
                /\ sent # <<>> => kind.start = (sent[Len(sent)].start + SAMPLES) % FULL
                /\ kind.stop = (kind.start + SAMPLES - 1) % FULL
           /\ harmed \subseteq harmed' /\ harmed' \subseteq harmed \union {Len(sent) + 1}
           /\ mishaps' \in Nat /\ mishaps' <= MAX_MISHAPS
           /\ UNCHANGED <<at, parserVars, local_buf, scanVars, searched, got, coinVars>>
  <1>1. PICK first \in FIRST_ANGLES, samples \in SAMPLE_KINDS :
          LET kind  == [ring |-> FALSE, samples |-> samples, start |-> NextStart(first),
                        stop |-> (NextStart(first) + SAMPLES - 1) % FULL]
              p     == Len(sent) + 1
              bytes == [i \in 1 .. CoinSize |->
                          [value |-> CoinByteAt(kind, i), package |-> p, place |-> i, altered |-> FALSE]]
              harm  == \E i \in 1 .. CoinSize :
                         \/ line' = line \o RemoveAt(bytes, i)
                         \/ \E v \in COIN_NOISE \ {bytes[i].value} :
                              line' = line \o [bytes EXCEPT ![i].value = v, ![i].altered = TRUE]
                         \/ line' = line \o SubSeq(bytes, 1, i - 1)
          IN  /\ sent' = Append(sent, kind)
              /\ \/ line' = line \o bytes /\ UNCHANGED <<harmed, mishaps>>
                 \/ /\ mishaps < MAX_MISHAPS /\ mishaps' = mishaps + 1
                    /\ harm /\ harmed' = harmed \union {p}
              /\ UNCHANGED <<at, parserVars, local_buf, scanVars, searched, got, coinVars>>
    BY DEF CoinArrives
  <1> DEFINE s == NextStart(first)
             t == (s + SAMPLES - 1) % FULL
             kind  == [ring |-> FALSE, samples |-> samples, start |-> s, stop |-> t]
             p     == Len(sent) + 1
             bytes == [i \in 1 .. CoinSize |->
                          [value |-> CoinByteAt(kind, i), package |-> p, place |-> i, altered |-> FALSE]]
             harm  == \E i \in 1 .. CoinSize :
                         \/ line' = line \o RemoveAt(bytes, i)
                         \/ \E v \in COIN_NOISE \ {bytes[i].value} :
                              line' = line \o [bytes EXCEPT ![i].value = v, ![i].altered = TRUE]
                         \/ line' = line \o SubSeq(bytes, 1, i - 1)
  <1>2. /\ sent' = Append(sent, kind)
        /\ \/ line' = line \o bytes /\ UNCHANGED <<harmed, mishaps>>
           \/ /\ mishaps < MAX_MISHAPS /\ mishaps' = mishaps + 1
              /\ harm /\ harmed' = harmed \union {p}
        /\ UNCHANGED <<at, parserVars, local_buf, scanVars, searched, got, coinVars>>
    BY <1>1
  <1>3. sent \in Seq(CoinKinds) /\ Len(sent) \in Nat /\ p \in Nat /\ mishaps \in Nat /\ MAX_MISHAPS \in Nat
        /\ (sent # <<>> => Len(sent) \in 1 .. Len(sent))
    <2>1. sent \in Seq(CoinKinds) /\ mishaps \in Nat
      BY DEF CoinTypes
    <2>2. Len(sent) \in Nat /\ (sent # <<>> => Len(sent) # 0)
      BY <2>1, EmptySeq, LenProperties
    <2> QED BY <2>1, <2>2, StreamAssumption
  <1>4. s \in 0 .. FULL - 1 /\ (sent # <<>> => s = (sent[Len(sent)].start + SAMPLES) % FULL)
    <2>1. CASE sent = <<>>
      BY <2>1, CoinAssumption DEF NextStart
    <2>2. CASE sent # <<>>
      <3>1. s = (sent[Len(sent)].start + SAMPLES) % FULL
        BY <2>2 DEF NextStart, Last
      <3>2. sent[Len(sent)] \in CoinKinds
        BY <1>3, <2>2, ElementOfSeq
      <3>3. sent[Len(sent)].start + SAMPLES \in Nat
        BY <3>2, CoinSizes DEF CoinKinds
      <3> QED BY <3>1, <3>3, CoinSizes, Quotients
    <2> QED BY <2>1, <2>2
  <1>5. t \in 0 .. FULL - 1
    <2>1. s + SAMPLES - 1 \in Nat
      BY <1>4, CoinSizes
    <2> QED BY <2>1, CoinSizes, Quotients
  <1> HIDE DEF s, t
  <1>6. kind \in CoinKinds
    BY <1>4, <1>5 DEF CoinKinds
  <1>7. bytes = CoinBytes(kind, p)
    BY DEF CoinBytes
  <1>8. kind.start = s /\ kind.stop = t
    OBVIOUS
  <1> HIDE DEF kind, bytes
  <1>9. PICK b : line' = line \o b /\ (\/ b = CoinBytes(kind, p)
           \/ /\ p \in harmed'
              /\ \E i \in 1 .. CoinSize :
                   \/ b = RemoveAt(CoinBytes(kind, p), i)
                   \/ \E v \in COIN_NOISE :
                        b = [CoinBytes(kind, p) EXCEPT ![i].value = v, ![i].altered = TRUE]
                   \/ b = SubSeq(CoinBytes(kind, p), 1, i - 1))
    <2>1. CASE line' = line \o bytes
      BY <1>7, <2>1
    <2>2. CASE harm /\ harmed' = harmed \union {p}
      <3>1. p \in harmed'
        BY <2>2
      <3>2. PICK i \in 1 .. CoinSize :
                         \/ line' = line \o RemoveAt(bytes, i)
                         \/ \E v \in COIN_NOISE \ {bytes[i].value} :
                              line' = line \o [bytes EXCEPT ![i].value = v, ![i].altered = TRUE]
                         \/ line' = line \o SubSeq(bytes, 1, i - 1)
        BY <2>2
      <3>3. CASE line' = line \o RemoveAt(bytes, i)
        BY <1>7, <3>1, <3>3
      <3>4. CASE \E v \in COIN_NOISE \ {bytes[i].value} :
                              line' = line \o [bytes EXCEPT ![i].value = v, ![i].altered = TRUE]
        <4>1. PICK v \in COIN_NOISE : line' = line \o [bytes EXCEPT ![i].value = v, ![i].altered = TRUE]
          BY <3>4
        <4>2. PICK b : b = [bytes EXCEPT ![i].value = v, ![i].altered = TRUE]
          OBVIOUS
        <4> QED BY <1>7, <3>1, <4>1, <4>2
      <3>5. CASE line' = line \o SubSeq(bytes, 1, i - 1)
        BY <1>7, <3>1, <3>5
      <3> QED BY <3>2, <3>3, <3>4, <3>5
    <2> QED BY <1>2, <2>1, <2>2
  <1>10. b \in Seq(Bytes) /\ Block(b, p, kind, harmed')
    BY <1>3, <1>6, <1>9, CoinBlock
  <1>11. /\ harmed \subseteq harmed' /\ harmed' \subseteq harmed \union {p}
         /\ mishaps' \in Nat /\ mishaps' <= MAX_MISHAPS
    BY <1>2, <1>3
  <1>12. kind.stop = (kind.start + SAMPLES - 1) % FULL
    BY <1>8 DEF t
  <1>13. sent # <<>> => kind.start = (sent[Len(sent)].start + SAMPLES) % FULL
    BY <1>4, <1>8
  <1> QED BY <1>2, <1>6, <1>9, <1>10, <1>11, <1>12, <1>13
LEMMA Assembled ==
    ASSUME NEW s \in Seq(Bytes), NEW t \in Seq(Bytes), NEW u \in Seq(Bytes)
    PROVE  (s \o t) \o u = s \o (t \o u)
  BY ConcatAssociative

LEMMA CoinReadsHeader ==
    ASSUME CoinTypes, CoinControl, ReadHeader
    PROVE  /\ globalRecvBuffer' \in Seq(Bytes) /\ line' \in Seq(Bytes) /\ header' = header
           /\ globalRecvBuffer' # <<>> /\ Len(header) + Len(globalRecvBuffer') = PackagePaidBytes
           /\ Len(header) < PackagePaidBytes /\ Stream' = Stream
  <1> DEFINE n == PackagePaidBytes - Len(header)
             u == SubSeq(line, 1, n)  v == SubSeq(line, n + 1, Len(line))
  <1>1. header \in Seq(Bytes) /\ line \in Seq(Bytes) /\ globalRecvBuffer = <<>> /\ Len(header) \in Nat
        /\ Len(header) < 10
    <2>1. header \in Seq(Bytes) /\ line \in Seq(Bytes) /\ globalRecvBuffer = <<>>
      BY DEF CoinTypes, CoinControl, ReadHeader
    <2>2. Len(header) \in Nat
      BY <2>1, LenProperties
    <2>3. Len(header) <= 10 /\ Len(header) # 10
      BY DEF CoinControl, ReadHeader, PackagePaidBytes
    <2>4. \A m \in Nat : m <= 10 /\ m # 10 => m < 10
      OBVIOUS
    <2>5. Len(header) < 10
      BY <2>2, <2>3, <2>4
    <2> QED BY <2>1, <2>2, <2>5
  <1>2. n \in Nat /\ n > 0 /\ n <= Len(line) /\ Len(header) + n = 10
    BY <1>1 DEF ReadHeader, PackagePaidBytes
  <1>3. globalRecvBuffer' = u /\ line' = v /\ header' = header
    BY DEF ReadHeader
  <1> HIDE DEF n
  <1>4. u \in Seq(Bytes) /\ v \in Seq(Bytes) /\ Len(u) = n /\ u \o v = line
    BY <1>1, <1>2, SplitBytes
  <1> HIDE DEF u, v
  <1>5. Stream' = header \o (u \o v)
    <2>1. Stream' = (header \o u) \o v
      BY <1>3 DEF Stream
    <2> QED BY <1>1, <1>4, <2>1, Assembled
  <1>6. Stream = header \o line
    BY <1>1, CoinStreamFacts
  <1>7. u # <<>>
    BY <1>2, <1>4, EmptySeq
  <1> QED BY <1>1, <1>2, <1>3, <1>4, <1>5, <1>6, <1>7 DEF PackagePaidBytes

LEMMA CoinParses ==
    ASSUME CoinTypes, CoinControl, ParseCoinHeader
    PROVE  LET h == Len(header)
           IN  /\ h \in Nat /\ h < PackagePaidBytes /\ h + 1 <= Len(Stream)
               /\ header' \in Seq(Bytes) /\ globalRecvBuffer' \in Seq(Bytes)
               /\ Len(globalRecvBuffer') = Len(globalRecvBuffer) - 1 /\ Len(globalRecvBuffer) \in Nat
               /\ at' = IF globalRecvBuffer' # <<>> THEN "parse"
                        ELSE IF Len(header') = PackagePaidBytes THEN "payload" ELSE "header"
               /\ \/ /\ h >= 4 \/ Stream[h + 1].value = CoinHead[h + 1]
                     /\ Len(header') = h + 1 /\ Stream' = Stream
                     /\ \A i \in 1 .. h + 1 : header'[i] = Stream[i]
                  \/ /\ h < 4 /\ Stream[h + 1].value # CoinHead[h + 1]
                     /\ header' = <<>> /\ Dropped(Stream, Stream', h + 1)
  <1> DEFINE h == Len(header)  x == Head(globalRecvBuffer)  r == Tail(globalRecvBuffer)
  <1>1. globalRecvBuffer # <<>> /\ globalRecvBuffer \in Seq(Bytes) /\ header \in Seq(Bytes)
        /\ line \in Seq(Bytes) /\ h \in Nat
    BY LenProperties DEF ParseCoinHeader, CoinControl, CoinTypes
  <1>2. /\ x \in Bytes /\ r \in Seq(Bytes) /\ <<x>> \in Seq(Bytes) /\ <<x>> \o r = globalRecvBuffer
        /\ Len(globalRecvBuffer) \in Nat /\ Len(globalRecvBuffer) > 0
        /\ Len(r) = Len(globalRecvBuffer) - 1 /\ (Len(globalRecvBuffer) > 1 <=> r # <<>>)
    BY <1>1, HeadAndTail
  <1>3. h < 10
    BY <1>1, <1>2 DEF CoinControl, ParseCoinHeader, PackagePaidBytes
  <1>4. globalRecvBuffer' = r /\ header' = CoinHeaderByte(header, x) /\ line' = line
        /\ at' = IF Len(globalRecvBuffer) > 1 THEN "parse"
                 ELSE IF Len(header') = PackagePaidBytes THEN "payload" ELSE "header"
    BY DEF ParseCoinHeader
  <1>5. Len(CoinHead) = 4
    BY DEF CoinHead
  <1>6. IF h >= 4 \/ x.value = CoinHead[h + 1] THEN header' = Append(header, x) ELSE header' = <<>>
    BY <1>4, <1>5 DEF CoinHeaderByte
  <1> HIDE DEF x, r
  <1> DEFINE a == header \o <<x>>  t == r \o line
  <1>7. a \in Seq(Bytes) /\ t \in Seq(Bytes) /\ Append(header, x) = a
    BY <1>1, <1>2, ConcatProperties, AppendIsConcat
  <1>8. Stream = a \o t
    <2>1. globalRecvBuffer \o line = <<x>> \o t
      <3>1. (<<x>> \o r) \o line = <<x>> \o (r \o line)
        BY <1>1, <1>2, Assembled
      <3> QED BY <1>2, <3>1
    <2>2. Stream = header \o (<<x>> \o t)
      BY <2>1, CoinStreamFacts
    <2>3. (header \o <<x>>) \o t = header \o (<<x>> \o t)
      <3> HIDE DEF t
      <3> QED BY <1>1, <1>2, <1>7, Assembled
    <2> QED BY <2>2, <2>3
  <1>9. Len(a) = h + 1 /\ a[h + 1] = x
    BY <1>1, <1>2, <1>7, AppendFacts
  <1> HIDE DEF a, t
  <1>10. h + 1 <= Len(Stream) /\ \A i \in 1 .. h + 1 : Stream[i] = a[i]
    <2>1. /\ Len(a \o t) = Len(a) + Len(t) /\ Len(t) \in Nat
          /\ \A i \in 1 .. Len(a) + Len(t) : (a \o t)[i] = IF i <= Len(a) THEN a[i] ELSE t[i - Len(a)]
      BY <1>7, ConcatProperties, LenProperties
    <2>2. PICK m \in Nat : m = Len(t)
      BY <2>1
    <2>3. /\ Len(Stream) = h + 1 + m
          /\ \A i \in 1 .. h + 1 + m : Stream[i] = IF i <= h + 1 THEN a[i] ELSE t[i - (h + 1)]
      BY <1>8, <1>9, <2>1, <2>2
    <2> QED BY <1>1, <2>2, <2>3
  <1>11. Stream[h + 1] = x
    BY <1>1, <1>9, <1>10
  <1>12. CASE h >= 4 \/ x.value = CoinHead[h + 1]
    <2>1. header' = a /\ header' \in Seq(Bytes)
      BY <1>6, <1>7, <1>12
    <2>2. Stream' = a \o (r \o line)
      <3>1. Stream' = (a \o r) \o line
        BY <1>4, <2>1 DEF Stream
      <3>2. a \in Seq(Bytes) /\ r \in Seq(Bytes) /\ line \in Seq(Bytes)
        BY <1>1, <1>2, <1>7
      <3>3. (a \o r) \o line = a \o (r \o line)
        BY <3>2, Assembled
      <3> QED BY <3>1, <3>3
    <2>3. Stream' = Stream
      BY <1>8, <2>2 DEF t
    <2> QED BY <1>1, <1>2, <1>3, <1>4, <1>9, <1>10, <1>11, <1>12, <2>1, <2>3 DEF PackagePaidBytes
  <1>13. CASE ~(h >= 4 \/ x.value = CoinHead[h + 1])
    <2>1. header' = <<>>
      BY <1>6, <1>13
    <2>2. Stream' = t
      <3>1. <<>> \o r = r
        BY <1>2, ConcatEmptySeq
      <3> QED BY <1>4, <2>1, <3>1 DEF Stream, t
    <2>3. Dropped(Stream, Stream', h + 1)
      BY <1>7, <1>8, <1>9, <2>2, FrontDropped
    <2> QED BY <1>1, <1>2, <1>3, <1>4, <1>10, <1>11, <1>13, <2>1, <2>3, EmptySeq DEF PackagePaidBytes
  <1> QED BY <1>12, <1>13

LEMMA CoinWaitTimesOut ==
    ASSUME CoinTypes, CoinControl, WaitTimesOut
    PROVE  /\ header' = <<>> /\ globalRecvBuffer' = <<>> /\ line' = line
           /\ Dropped(Stream, Stream', Len(header))
           /\ \A i \in 1 .. Len(header) : Stream[i].package \in harmed'
           /\ harmed \subseteq harmed' /\ harmed' \subseteq 1 .. Len(sent) \union PackagesOf(header)
  <1>1. header \in Seq(Bytes) /\ line \in Seq(Bytes) /\ globalRecvBuffer = <<>>
    BY DEF WaitTimesOut, CoinControl, CoinTypes
  <1>2. header' = <<>> /\ globalRecvBuffer' = <<>> /\ line' = line
        /\ harmed' = harmed \union PackagesOf(header) /\ harmed \subseteq 1 .. Len(sent)
    BY <1>1 DEF WaitTimesOut, CoinTypes
  <1>3. Stream = header \o line /\ \A i \in 1 .. Len(header) : Stream[i] = header[i]
    BY <1>1, CoinStreamFacts
  <1>4. Stream' = line
    BY <1>1, <1>2, ConcatEmptySeq DEF Stream
  <1>5. Dropped(Stream, Stream', Len(header))
    BY <1>1, <1>3, <1>4, FrontDropped
  <1>6. \A i \in 1 .. Len(header) : header[i].package \in PackagesOf(header)
    BY <1>1, LenProperties DEF PackagesOf
  <1> QED BY <1>2, <1>3, <1>5, <1>6

LEMMA CoinPayloadRead ==
    ASSUME CoinTypes, CoinControl, ReadCoinPayload
    PROVE  /\ header' = <<>> /\ line' \in Seq(Bytes) /\ globalRecvBuffer = <<>> /\ globalRecvBuffer' = <<>>
           /\ CoinSize + 2 <= Len(Stream) /\ Dropped(Stream, Stream', CoinSize + 2)
           /\ Len(header) = 10
           /\ package'.samples = SAMPLES /\ package'.payload \in Seq(Bytes)
           /\ Len(package'.payload) = PackageSampleBytes * SAMPLES
           /\ \A i \in 1 .. PackageSampleBytes * SAMPLES : package'.payload[i] = Stream[CoinHeaderSize + i]
           /\ package'.start = Stream[7].value
           /\ package'.interval = Interval(Stream[7].value, Stream[CoinSize - 3].value)
           /\ CheckSumResult' \in BOOLEAN
           /\ CheckSumResult' <=> \A i \in 1 .. CoinSize : /\ Stream[i].package = Stream[1].package
                                                           /\ Stream[i].place = i /\ ~Stream[i].altered
  <1> DEFINE n == PackageSampleBytes * SAMPLES + CoinTail
             u == SubSeq(line, 1, n)  v == SubSeq(line, n + 1, Len(line))
             bytes == header \o u
             whole == SubSeq(bytes, 1, CoinSize)
             part == SubSeq(bytes, CoinHeaderSize + 1, CoinSize - CoinTail)
             z == CoinSize
  <1>1. header \in Seq(Bytes) /\ line \in Seq(Bytes) /\ globalRecvBuffer = <<>> /\ Len(header) = 10
    BY DEF ReadCoinPayload, CoinControl, CoinTypes, PackagePaidBytes
  <1>2. n \in Nat /\ n <= Len(line) /\ n = 3 * SAMPLES + 4 /\ z + 2 = 10 + n /\ z \in Nat /\ z >= 21
        /\ SAMPLES \in Nat /\ SAMPLES >= 3 /\ z = 12 + 3 * SAMPLES
    BY CoinSizes DEF ReadCoinPayload, PackageSampleBytes, CoinTail
  <1>3. /\ line' = v /\ header' = <<>> /\ globalRecvBuffer' = globalRecvBuffer
        /\ package' = [ring |-> FALSE, samples |-> SAMPLES, payload |-> part,
                       start |-> bytes[7].value, interval |-> Interval(bytes[7].value, bytes[CoinSize - 3].value)]
        /\ CheckSumResult' = CheckSumFits(whole)
    BY DEF ReadCoinPayload
  <1>4. u \in Seq(Bytes) /\ v \in Seq(Bytes) /\ Len(u) = n /\ u \o v = line
    <2> HIDE DEF n
    <2> QED BY <1>1, <1>2, SplitBytes
  <1> HIDE DEF n, u, v
  <1>5. bytes \in Seq(Bytes) /\ Len(bytes) = z + 2
    <2>1. bytes \in Seq(Bytes) /\ Len(bytes) = Len(header) + Len(u)
      BY <1>1, <1>4, ConcatProperties
    <2> QED BY <1>1, <1>2, <1>4, <2>1
  <1>6. Stream = bytes \o v
    <2>1. Stream = header \o (u \o v)
      BY <1>1, <1>4, CoinStreamFacts
    <2> QED BY <1>1, <1>4, <2>1, Assembled
  <1>7. Stream' = v
    BY <1>1, <1>3, <1>4, ConcatEmptySeq DEF Stream
  <1> HIDE DEF bytes, z
  <1>8. Dropped(Stream, Stream', z + 2)
    BY <1>4, <1>5, <1>6, <1>7, FrontDropped
  <1>9. z + 2 <= Len(Stream) /\ \A i \in 1 .. z + 2 : Stream[i] = bytes[i]
    <2>1. /\ Len(bytes \o v) = Len(bytes) + Len(v) /\ Len(v) \in Nat
          /\ \A i \in 1 .. Len(bytes) + Len(v) :
               (bytes \o v)[i] = IF i <= Len(bytes) THEN bytes[i] ELSE v[i - Len(bytes)]
      BY <1>4, <1>5, ConcatProperties, LenProperties
    <2>2. PICK m \in Nat : m = Len(v)
      BY <2>1
    <2>3. /\ Len(Stream) = z + 2 + m
          /\ \A i \in 1 .. z + 2 + m : Stream[i] = IF i <= z + 2 THEN bytes[i] ELSE v[i - (z + 2)]
      BY <1>5, <1>6, <2>1, <2>2
    <2> QED BY <1>2, <2>2, <2>3
  <1>10. whole \in Seq(Bytes) /\ Len(whole) = z /\ \A i \in 1 .. z : whole[i] = bytes[i]
    <2>1. z <= Len(bytes)
      BY <1>2, <1>5
    <2> QED BY <1>2, <1>5, <2>1, SubSeqFacts DEF z
  <1>11. /\ part \in Seq(Bytes) /\ Len(part) = 3 * SAMPLES
         /\ \A i \in 1 .. 3 * SAMPLES : part[i] = bytes[8 + i]
    <2> DEFINE m == CoinHeaderSize + 1  k == CoinSize - CoinTail
    <2>1. m = 9 /\ k = 8 + 3 * SAMPLES /\ k <= z + 2 /\ k \in Int /\ m <= k
      BY <1>2 DEF CoinHeaderSize, CoinTail, z
    <2> HIDE DEF m, k
    <2>2. \A i \in m .. k : bytes[i] \in Bytes
      <3>1. \A i \in m .. k : i \in 1 .. Len(bytes)
        BY <1>2, <1>5, <2>1
      <3> QED BY <1>5, <3>1, ElementOfSeq
    <2>3. /\ SubSeq(bytes, m, k) \in Seq(Bytes)
          /\ Len(SubSeq(bytes, m, k)) = IF m <= k THEN k - m + 1 ELSE 0
          /\ \A i \in 1 .. k - m + 1 : SubSeq(bytes, m, k)[i] = bytes[m + i - 1]
      BY <2>1, <2>2, SubSeqProperties
    <2>4. k - m + 1 = 3 * SAMPLES
      BY <1>2, <2>1
    <2>5. part = SubSeq(bytes, m, k)
      BY DEF m, k
    <2> HIDE DEF part
    <2>6. ASSUME NEW i \in 1 .. 3 * SAMPLES PROVE part[i] = bytes[8 + i]
      <3>1. i \in 1 .. k - m + 1 /\ m + i - 1 = 8 + i
        BY <1>2, <2>1, <2>4
      <3> QED BY <2>3, <2>5, <3>1
    <2> QED BY <1>2, <2>1, <2>3, <2>4, <2>5, <2>6
  <1> HIDE DEF whole, part
  <1>12. /\ package'.samples = SAMPLES /\ package'.payload = part
         /\ package'.start = bytes[7].value
         /\ package'.interval = Interval(bytes[7].value, bytes[z - 3].value)
    BY <1>3 DEF z
  <1>13. 7 \in 1 .. z + 2 /\ z - 3 \in 1 .. z + 2 /\ \A i \in 1 .. 3 * SAMPLES : 8 + i \in 1 .. z + 2
    BY <1>2
  <1>14. CheckSumFits(whole) \in BOOLEAN
         /\ (CheckSumFits(whole) <=> \A i \in 1 .. z : /\ Stream[i].package = Stream[1].package
                                                      /\ Stream[i].place = i /\ ~Stream[i].altered)
    <2>1. DOMAIN whole = 1 .. z
      BY <1>10, LenProperties
    <2>2. \A i \in 1 .. z : whole[i] = Stream[i]
      <3>1. \A i \in 1 .. z : i \in 1 .. z + 2
        BY <1>2
      <3> QED BY <1>9, <1>10, <3>1
    <2>3. 1 \in 1 .. z
      BY <1>2
    <2> QED BY <2>1, <2>2, <2>3 DEF CheckSumFits
  <1>15. /\ package'.payload \in Seq(Bytes) /\ Len(package'.payload) = 3 * SAMPLES
         /\ \A i \in 1 .. 3 * SAMPLES : package'.payload[i] = Stream[8 + i]
    BY <1>9, <1>11, <1>12, <1>13
  <1>16. package'.start = Stream[7].value /\ package'.interval = Interval(Stream[7].value, Stream[z - 3].value)
    BY <1>9, <1>12, <1>13
  <1>17. line' \in Seq(Bytes) /\ header' = <<>> /\ globalRecvBuffer' = <<>> /\ CheckSumResult' \in BOOLEAN
    BY <1>1, <1>3, <1>4, <1>14
  <1> QED BY <1>1, <1>3, <1>8, <1>9, <1>12, <1>14, <1>15, <1>16, <1>17 DEF z, PackageSampleBytes, CoinHeaderSize
\* Every node is one of the current sample, with the point it comes from.
CoinNode == [sync |-> CoinSync, point |-> CoinPoint]

LEMMA CoinEmits ==
    ASSUME CoinTypes, CoinControl, WholeCoinRead, EmitCoinNode
    PROVE  /\ package_Sample_Index \in 0 .. SAMPLES - 1 /\ CoinNode \in CoinNodes
           /\ nodes' = Append(nodes, CoinNode) /\ angle_bak' = SampleAngle
           /\ \E node \in Nodes : local_buf' = Append(local_buf, node)
           /\ CheckSumResult => /\ CoinPoint = <<Current, package_Sample_Index + 1>>
                                /\ CoinPoint \in Points /\ CoinPoint # NoPoint
                                /\ got' = Append(got, <<Current, package_Sample_Index + 1>>)
           /\ ~CheckSumResult => CoinPoint = NoPoint /\ got' = got
           /\ IF package_Sample_Index + 1 = SAMPLES
                THEN package_Sample_Index' = 0 /\ CheckSumResult' = FALSE
                ELSE package_Sample_Index' = package_Sample_Index + 1 /\ CheckSumResult' = CheckSumResult
           /\ at' = IF CoinSync \/ Len(local_buf) + 1 = BATCH THEN "collect"
                    ELSE IF package_Sample_Index + 1 = SAMPLES THEN "header" ELSE "node"
           /\ UNCHANGED <<sent, line, globalRecvBuffer, header, package, local_scan, scan,
                          harmed, searched, mishaps>>
           /\ Stream' = Stream
  <1> DEFINE psi == package_Sample_Index
  <1>1. at = "node" /\ package.samples = SAMPLES /\ psi \in Nat /\ (psi = 0 \/ psi < SAMPLES)
        /\ SAMPLES \in Nat /\ SAMPLES >= 3 /\ CheckSumResult \in BOOLEAN
    BY CoinSizes DEF EmitCoinNode, CoinControl, CoinTypes, Reading
  <1>2. psi \in 0 .. SAMPLES - 1
    BY <1>1
  <1>3. LastSample <=> psi + 1 = SAMPLES
    BY <1>1 DEF LastSample
  <1>4. CoinSync \in BOOLEAN
    BY DEF CoinSync
  <1>5. CASE CheckSumResult
    <2>1. PICK k \in 1 .. 3 * SAMPLES : k = 3 * psi + 1 /\ k = 1 + 3 * psi
      BY <1>1
    <2>2. ComesFrom(package.payload[k], Current, 8 + k)
      BY <1>5, <2>1 DEF WholeCoinRead, PackageSampleBytes, CoinHeaderSize
    <2>3. (8 + k - 8 - 1) \div 3 + 1 = psi + 1
      BY <1>1, <2>1
    <2>4. CoinPoint = <<Current, psi + 1>>
      <3>1. CoinPoint = <<package.payload[k].package, (package.payload[k].place - 8 - 1) \div 3 + 1>>
        BY <1>5, <2>1 DEF CoinPoint, PackageSampleBytes, CoinHeaderSize
      <3> QED BY <2>2, <2>3, <3>1 DEF ComesFrom
    <2>5. Current \in Nat
      BY <1>5 DEF WholeCoinRead
    <2>6. CoinPoint \in Points /\ CoinPoint # NoPoint
      BY <1>1, <2>4, <2>5 DEF Points, NoPoint
    <2> QED
      BY <1>1, <1>2, <1>3, <1>4, <1>5, <2>4, <2>6
      DEF EmitCoinNode, CoinNode, CoinNodes, Nodes, NoIndex, AfterSample, AngleBefore, Stream,
          lidarVars, scanVars
  <1>6. CASE ~CheckSumResult
    <2>1. CoinPoint = NoPoint
      BY <1>6 DEF CoinPoint
    <2> QED
      BY <1>1, <1>2, <1>3, <1>4, <1>6, <2>1
      DEF EmitCoinNode, CoinNode, CoinNodes, Nodes, NoIndex, AfterSample, AngleBefore, Stream,
          lidarVars, scanVars
  <1> QED BY <1>5, <1>6

\* The steps that only take bytes off the front of the stream.
CoinQuietStep ==
    \/ CoinCollect \/ ParseCoinHeader
    \/ (ReadHeader \/ WaitTimesOut \/ CallTimesOut \/ Listen \/ Flush) /\ UNCHANGED coinVars

LEMMA CoinSteps ==
    ASSUME version = M1CT_Coin_Plus, StreamNext
    PROVE  CoinArrives \/ ReadCoinPayload \/ EmitCoinNode \/ CoinQuietStep
  <1>1. WaitPackageCoin
    BY DEF StreamNext, WaitPackage
  <1> QED BY <1>1 DEF WaitPackageCoin, CoinQuietStep

LEMMA CoinFlushes ==
    ASSUME CoinTypes, CoinControl, Flush
    PROVE  /\ header = <<>> /\ globalRecvBuffer = <<>> /\ header' = <<>> /\ globalRecvBuffer' = <<>>
           /\ line' = <<>> /\ Dropped(Stream, Stream', Len(Stream))
           /\ \A i \in 1 .. Len(Stream) : Stream[i].package \in harmed'
           /\ harmed \subseteq harmed' /\ harmed' \subseteq harmed \union PackagesOf(line) \union {Len(sent)}
           /\ sent # <<>> /\ mishaps' \in Nat /\ mishaps' <= MAX_MISHAPS
  <1>1. line \in Seq(Bytes) /\ header = <<>> /\ globalRecvBuffer = <<>> /\ mishaps \in Nat
        /\ header' = <<>> /\ globalRecvBuffer' = <<>> /\ line' = <<>>
    BY DEF Flush, CoinControl, CoinTypes, parserVars
  <1>2. Stream = line
    BY <1>1, CoinStreamFacts
  <1>3. Stream' = <<>>
    BY <1>1, ConcatEmptySeq DEF Stream
  <1>4. Dropped(Stream, Stream', Len(Stream))
    BY <1>1, <1>2, <1>3, LenProperties, EmptySeq DEF Dropped
  <1>5. \A i \in 1 .. Len(line) : line[i].package \in PackagesOf(line)
    BY <1>1, LenProperties DEF PackagesOf
  <1>6. /\ harmed \subseteq harmed' /\ PackagesOf(line) \subseteq harmed'
        /\ harmed' \subseteq harmed \union PackagesOf(line) \union {Len(sent)}
    BY DEF Flush
  <1>7. sent # <<>> /\ mishaps' = mishaps + 1 /\ mishaps < MAX_MISHAPS /\ MAX_MISHAPS \in Nat
    BY StreamAssumption DEF Flush
  <1> QED BY <1>1, <1>2, <1>4, <1>5, <1>6, <1>7
\* What the quiet steps leave as it is, and what they leave of the stream.
LEMMA CoinQuietFacts ==
    ASSUME CoinTypes, CoinControl, CoinQuietStep
    PROVE  /\ UNCHANGED <<sent, package, CheckSumResult, package_Sample_Index, got, nodes, angle_bak,
                          local_scan, scan, searched>>
           /\ harmed \subseteq harmed'
           /\ \E n \in Nat : Dropped(Stream, Stream', n)
  <1>1. CASE ReadHeader /\ UNCHANGED coinVars
    <2>1. Stream' = Stream /\ Dropped(Stream, Stream, 0)
      BY <1>1, CoinReadsHeader, CoinStreamFacts, NothingDropped
    <2>2. Dropped(Stream, Stream', 0)
      BY <2>1
    <2> QED BY <1>1, <2>2 DEF ReadHeader, coinVars, lidarVars, scanVars, historyVars
  <1>2. CASE ParseCoinHeader
    <2>1. \/ Stream' = Stream /\ Dropped(Stream, Stream, 0)
          \/ Dropped(Stream, Stream', Len(header) + 1)
      BY <1>2, CoinParses, CoinStreamFacts, NothingDropped
    <2>2. Len(header) + 1 \in Nat
      BY CoinStreamFacts
    <2>3. \E n \in Nat : Dropped(Stream, Stream', n)
      <3>1. CASE Stream' = Stream /\ Dropped(Stream, Stream, 0)
        <4>1. Dropped(Stream, Stream', 0)
          BY <3>1
        <4> QED BY <4>1
      <3> QED BY <2>1, <2>2, <3>1
    <2> QED BY <1>2, <2>3 DEF ParseCoinHeader, coinVars, lidarVars, scanVars, historyVars
  <1>3. CASE WaitTimesOut /\ UNCHANGED coinVars
    <2>1. Dropped(Stream, Stream', Len(header)) /\ Len(header) \in Nat /\ harmed \subseteq harmed'
      BY <1>3, CoinWaitTimesOut, CoinStreamFacts
    <2> QED BY <1>3, <2>1 DEF WaitTimesOut, coinVars, lidarVars, scanVars
  <1>4. CASE Flush /\ UNCHANGED coinVars
    <2>1. Dropped(Stream, Stream', Len(Stream)) /\ Len(Stream) \in Nat /\ harmed \subseteq harmed'
      BY <1>4, CoinFlushes, CoinStreamFacts
    <2> QED BY <1>4, <2>1 DEF Flush, coinVars, parserVars, scanVars
  <1>5. CASE CoinCollect \/ ((CallTimesOut \/ Listen) /\ UNCHANGED coinVars)
    <2>1. Stream' = Stream /\ Dropped(Stream, Stream, 0)
      BY <1>5, CoinStreamFacts, NothingDropped DEF CoinCollect, CallTimesOut, Listen, parserVars, Stream
    <2>2. Dropped(Stream, Stream', 0)
      BY <2>1
    <2>3. \E n \in Nat : Dropped(Stream, Stream', n)
      BY <2>2
    <2>4. CASE CoinCollect
      BY <2>3, <2>4 DEF CoinCollect, coinVars, parserVars, lidarVars, scanVars, historyVars
    <2>5. CASE (CallTimesOut \/ Listen) /\ UNCHANGED coinVars
      BY <2>3, <2>5 DEF CallTimesOut, Listen, coinVars, parserVars, lidarVars, scanVars, historyVars
    <2> QED BY <1>5, <2>4, <2>5
  <1> QED BY <1>1, <1>2, <1>3, <1>4, <1>5 DEF CoinQuietStep

LEMMA CoinTypesNext ==
    ASSUME CoinTypes, CoinControl, CoinLies(Stream, sent, harmed), WholeCoinRead,
           version = M1CT_Coin_Plus, StreamNext
    PROVE  CoinTypes'
  <1>0. /\ sent \in Seq(CoinKinds) /\ Len(sent) \in Nat /\ Stream \in Seq(Bytes)
        /\ line \in Seq(Bytes) /\ globalRecvBuffer \in Seq(Bytes) /\ header \in Seq(Bytes)
        /\ at \in {"judge", "header", "parse", "payload", "node", "collect"}
        /\ package.samples \in Nat /\ package.payload \in Seq(Bytes)
        /\ CheckSumResult \in BOOLEAN /\ package_Sample_Index \in Nat
        /\ local_buf \in Seq(Nodes) /\ nodes \in Seq(CoinNodes) /\ got \in Seq(Points)
        /\ harmed \subseteq 1 .. Len(sent) /\ mishaps \in Nat
    BY LenProperties, CoinStreamFacts DEF CoinTypes
  <1>1. CASE CoinArrives
    <2>1. PICK kind \in CoinKinds, b \in Seq(Bytes) : sent' = Append(sent, kind) /\ line' = line \o b
      BY <1>1, CoinArrivalFacts DEF CoinControl
    <2>2. sent' \in Seq(CoinKinds) /\ Len(sent') = Len(sent) + 1
      BY <1>0, <2>1, AppendFacts
    <2>3. line' \in Seq(Bytes)
      BY <1>0, <2>1, ConcatProperties
    <2>4. harmed' \subseteq harmed \union {Len(sent) + 1} /\ mishaps' \in Nat
          /\ UNCHANGED <<at, parserVars, local_buf, scanVars, searched, got, coinVars>>
      BY <1>1, CoinArrivalFacts DEF CoinControl
    <2>5. harmed' \subseteq 1 .. Len(sent')
      <3>1. \A q \in 1 .. Len(sent) : q \in 1 .. Len(sent')
        BY <1>0, <2>2
      <3>2. Len(sent) + 1 \in 1 .. Len(sent')
        BY <1>0, <2>2
      <3> QED BY <1>0, <2>4, <3>1, <3>2
    <2> QED BY <1>0, <2>2, <2>3, <2>4, <2>5 DEF CoinTypes, parserVars, coinVars
  <1>2. CASE ReadCoinPayload
    <2>1. /\ header' = <<>> /\ line' \in Seq(Bytes) /\ globalRecvBuffer' = <<>>
          /\ package'.samples = SAMPLES /\ package'.payload \in Seq(Bytes) /\ CheckSumResult' \in BOOLEAN
          /\ header' \in Seq(Bytes) /\ globalRecvBuffer' \in Seq(Bytes)
      BY <1>2, CoinPayloadRead, EmptySeq
    <2>2. at' = "node" /\ UNCHANGED <<sent, package_Sample_Index, local_buf, nodes, got, harmed, mishaps>>
      BY <1>2 DEF ReadCoinPayload, lidarVars, historyVars, coinVars
    <2> QED BY <1>0, <2>1, <2>2, CoinSizes DEF CoinTypes
  <1>3. CASE EmitCoinNode
    <2>1. PICK node \in Nodes : local_buf' = Append(local_buf, node)
      BY <1>3, CoinEmits
    <2>2. local_buf' \in Seq(Nodes)
      BY <1>0, <2>1, AppendFacts
    <2>3. nodes' \in Seq(CoinNodes)
      <3>1. CoinNode \in CoinNodes /\ nodes' = Append(nodes, CoinNode)
        BY <1>3, CoinEmits
      <3> QED BY <1>0, <3>1, AppendFacts
    <2>4. got' \in Seq(Points)
      <3>1. CASE CheckSumResult
        <4>1. CoinPoint \in Points /\ got' = Append(got, CoinPoint)
          BY <1>3, <3>1, CoinEmits
        <4> QED BY <1>0, <4>1, AppendFacts
      <3>2. CASE ~CheckSumResult
        BY <1>0, <1>3, <3>2, CoinEmits
      <3> QED BY <3>1, <3>2
    <2>5. CheckSumResult' \in BOOLEAN /\ package_Sample_Index' \in Nat
      <3>1. CASE package_Sample_Index + 1 = SAMPLES
        <4>1. package_Sample_Index' = 0 /\ CheckSumResult' = FALSE
          BY <1>3, <3>1, CoinEmits
        <4> QED BY <4>1
      <3>2. CASE package_Sample_Index + 1 # SAMPLES
        <4>1. package_Sample_Index' = package_Sample_Index + 1 /\ CheckSumResult' = CheckSumResult
          BY <1>3, <3>2, CoinEmits
        <4> QED BY <1>0, <4>1
      <3> QED BY <3>1, <3>2
    <2>6. at' \in {"judge", "header", "parse", "payload", "node", "collect"}
      BY <1>3 DEF EmitCoinNode
    <2>7. UNCHANGED <<sent, line, globalRecvBuffer, header, package, harmed, mishaps>>
      BY <1>3, CoinEmits
    <2> QED BY <1>0, <2>2, <2>3, <2>4, <2>5, <2>6, <2>7 DEF CoinTypes
  <1>4. CASE CoinQuietStep
    <2>1. UNCHANGED <<sent, package, CheckSumResult, package_Sample_Index, got, nodes>>
      BY <1>4, CoinQuietFacts
    <2>2. CASE ReadHeader
      <3>1. header' = header /\ globalRecvBuffer' \in Seq(Bytes) /\ line' \in Seq(Bytes)
        BY <2>2, CoinReadsHeader
      <3>2. at' = "parse" /\ UNCHANGED <<local_buf, harmed, mishaps>>
        BY <2>2 DEF ReadHeader, historyVars
      <3> QED BY <1>0, <2>1, <3>1, <3>2 DEF CoinTypes
    <2>3. CASE ParseCoinHeader
      <3>1. header' \in Seq(Bytes) /\ globalRecvBuffer' \in Seq(Bytes)
        BY <2>3, CoinParses
      <3>2. at' \in {"parse", "payload", "header"} /\ UNCHANGED <<line, local_buf, harmed, mishaps>>
        BY <2>3 DEF ParseCoinHeader, historyVars
      <3> QED BY <1>0, <2>1, <3>1, <3>2 DEF CoinTypes
    <2>4. CASE WaitTimesOut
      <3>1. /\ header' = <<>> /\ globalRecvBuffer' = <<>> /\ line' = line
            /\ header' \in Seq(Bytes) /\ globalRecvBuffer' \in Seq(Bytes)
        BY <2>4, CoinWaitTimesOut, EmptySeq
      <3>2. at' = "collect" /\ UNCHANGED <<local_buf, mishaps>> /\ harmed' = harmed \union PackagesOf(header)
        BY <2>4 DEF WaitTimesOut
      <3>3. PackagesOf(header) \subseteq 1 .. Len(sent)
        <4>1. ASSUME NEW i \in DOMAIN header PROVE header[i].package \in 1 .. Len(sent)
          <5>1. i \in 1 .. Len(header) /\ Len(header) \in Nat
            BY <1>0, LenProperties
          <5>2. i \in 1 .. Len(Stream) /\ Stream[i] = header[i]
            BY <5>1, CoinStreamFacts
          <5> QED BY <5>2 DEF CoinLies, CoinOrigins
        <4> QED BY <4>1 DEF PackagesOf
      <3> QED BY <1>0, <2>1, <3>1, <3>2, <3>3 DEF CoinTypes
    <2>5. CASE Flush
      <3>1. /\ header' = <<>> /\ globalRecvBuffer' = <<>> /\ line' = <<>> /\ mishaps' \in Nat
            /\ header' \in Seq(Bytes) /\ globalRecvBuffer' \in Seq(Bytes) /\ line' \in Seq(Bytes)
            /\ harmed' \subseteq harmed \union PackagesOf(line) \union {Len(sent)}
            /\ sent # <<>> /\ header = <<>> /\ globalRecvBuffer = <<>>
        BY <2>5, CoinFlushes, EmptySeq
      <3>2. UNCHANGED <<at, local_buf>>
        BY <2>5 DEF Flush
      <3>3. PackagesOf(line) \subseteq 1 .. Len(sent)
        <4>1. ASSUME NEW i \in DOMAIN line PROVE line[i].package \in 1 .. Len(sent)
          <5>1. Stream = line
            BY <3>1, CoinStreamFacts
          <5>2. i \in 1 .. Len(Stream) /\ Stream[i] = line[i]
            BY <1>0, <5>1, LenProperties
          <5> QED BY <5>2 DEF CoinLies, CoinOrigins
        <4> QED BY <4>1 DEF PackagesOf
      <3>4. Len(sent) \in 1 .. Len(sent)
        BY <1>0, <3>1, EmptySeq
      <3> QED BY <1>0, <2>1, <3>1, <3>2, <3>3, <3>4 DEF CoinTypes
    <2>6. CASE CoinCollect
      <3>1. local_buf' = <<>> /\ local_buf' \in Seq(Nodes) /\ at' = "judge"
            /\ UNCHANGED <<line, globalRecvBuffer, header, harmed, mishaps>>
        BY <2>6, EmptySeq DEF CoinCollect, parserVars, historyVars
      <3> QED BY <1>0, <2>1, <3>1 DEF CoinTypes
    <2>7. CASE CallTimesOut \/ Listen
      <3>1. at' \in {"collect", "header", "node"} /\ UNCHANGED <<local_buf, line, globalRecvBuffer, header, harmed, mishaps>>
        BY <2>7 DEF CallTimesOut, Listen, parserVars, historyVars
      <3> QED BY <1>0, <2>1, <3>1 DEF CoinTypes
    <2> QED BY <1>4, <2>2, <2>3, <2>4, <2>5, <2>6, <2>7 DEF CoinQuietStep
  <1> QED BY <1>1, <1>2, <1>3, <1>4, CoinSteps
LEMMA CoinIdleNext ==
    ASSUME CoinTypes, CoinControl, WholeCoinRead, CoinIdle, version = M1CT_Coin_Plus, StreamNext
    PROVE  CoinIdle'
  <1>1. CASE CoinArrives
    BY <1>1, CoinArrivalFacts DEF CoinControl, CoinIdle, scanVars
  <1>2. CASE ReadCoinPayload
    BY <1>2 DEF ReadCoinPayload, CoinIdle, scanVars, historyVars
  <1>3. CASE EmitCoinNode
    BY <1>3, CoinEmits DEF CoinIdle
  <1>4. CASE CoinQuietStep
    BY <1>4, CoinQuietFacts DEF CoinIdle
  <1> QED BY <1>1, <1>2, <1>3, <1>4, CoinSteps

LEMMA CoinControlNext ==
    ASSUME CoinTypes, CoinTypes', CoinControl, CoinLies(Stream, sent, harmed), WholeCoinRead,
           version = M1CT_Coin_Plus, StreamNext
    PROVE  CoinControl'
  <1>0. /\ Len(<<>>) = 0 /\ BATCH \in Nat /\ BATCH >= 1 /\ MAX_MISHAPS \in Nat
        /\ Len(local_buf) \in Nat /\ Len(header) \in Nat /\ PackagePaidBytes = 10
    BY StreamAssumption, LenProperties DEF CoinTypes, PackagePaidBytes
  <1>1. CASE CoinArrives
    <2>1. PICK kind \in CoinKinds : sent' = Append(sent, kind)
      BY <1>1, CoinArrivalFacts DEF CoinControl
    <2>2. sent' # <<>>
      <3>1. sent \in Seq(CoinKinds)
        BY DEF CoinTypes
      <3> QED BY <2>1, <3>1, AppendFacts
    <2>3. mishaps' <= MAX_MISHAPS
          /\ UNCHANGED <<at, parserVars, local_buf, scanVars, searched, got, coinVars>>
      BY <1>1, CoinArrivalFacts DEF CoinControl
    <2>4. UNCHANGED <<at, globalRecvBuffer, header, package, CheckSumResult, package_Sample_Index, local_buf, nodes>>
      BY <2>3 DEF parserVars, coinVars
    <2> QED BY <2>2, <2>3, <2>4 DEF CoinControl, Reading
  <1>2. CASE ReadCoinPayload
    <2>1. /\ header' = <<>> /\ globalRecvBuffer' = <<>> /\ package'.samples = SAMPLES
          /\ Len(package'.payload) = PackageSampleBytes * SAMPLES
      BY <1>2, CoinPayloadRead
    <2>2. at = "payload" /\ at' = "node"
          /\ UNCHANGED <<sent, package_Sample_Index, local_buf, nodes, mishaps>>
      BY <1>2 DEF ReadCoinPayload, lidarVars, historyVars, coinVars
    <2>3. sent # <<>>
      <3>1. 1 \in 1 .. Len(Stream)
        BY <1>2, CoinPayloadRead, CoinStreamFacts, CoinSizes
      <3>2. Stream[1].package \in 1 .. Len(sent)
        BY <3>1 DEF CoinLies, CoinOrigins
      <3> QED BY <1>0, <3>2
    <2>4. package_Sample_Index = 0 /\ Len(local_buf) <= BATCH /\ Len(local_buf) < BATCH /\ mishaps <= MAX_MISHAPS
      BY <2>2 DEF CoinControl
    <2> QED BY <1>0, <2>1, <2>2, <2>3, <2>4 DEF CoinControl, Reading
  <1>3. CASE EmitCoinNode
    <2>1. /\ at = "node" /\ header = <<>> /\ globalRecvBuffer = <<>> /\ Len(local_buf) < BATCH
          /\ sent # <<>> /\ package.samples = SAMPLES /\ mishaps <= MAX_MISHAPS
          /\ Len(package.payload) = PackageSampleBytes * SAMPLES
      BY <1>3 DEF EmitCoinNode, CoinControl, Reading
    <2>2. Len(local_buf') = Len(local_buf) + 1
      <3>1. PICK node \in Nodes : local_buf' = Append(local_buf, node)
        BY <1>3, CoinEmits
      <3> QED BY <3>1, AppendFacts DEF CoinTypes
    <2>3. UNCHANGED <<sent, globalRecvBuffer, header, package, mishaps>>
      BY <1>3, CoinEmits
    <2>4. /\ at' = IF CoinSync \/ Len(local_buf) + 1 = BATCH THEN "collect"
                   ELSE IF package_Sample_Index + 1 = SAMPLES THEN "header" ELSE "node"
          /\ package_Sample_Index \in 0 .. SAMPLES - 1 /\ SAMPLES \in Nat
      BY <1>3, CoinEmits, CoinSizes
    <2>5. CASE package_Sample_Index + 1 = SAMPLES
      <3>1. package_Sample_Index' = 0 /\ CheckSumResult' = FALSE
        BY <1>3, <2>5, CoinEmits
      <3> QED BY <1>0, <2>1, <2>2, <2>3, <2>4, <2>5, <3>1 DEF CoinControl, Reading
    <2>6. CASE package_Sample_Index + 1 # SAMPLES
      <3>1. package_Sample_Index' = package_Sample_Index + 1
        BY <1>3, <2>6, CoinEmits
      <3>2. package_Sample_Index' > 0 /\ package_Sample_Index' < SAMPLES
        BY <2>4, <2>6, <3>1
      <3>3. at' \in {"collect", "node"}
        BY <2>4, <2>6
      <3> QED BY <1>0, <2>1, <2>2, <2>3, <2>4, <3>2, <3>3 DEF CoinControl, Reading
    <2> QED BY <2>5, <2>6
  <1>4. CASE CoinQuietStep
    <2>1. UNCHANGED <<sent, package, CheckSumResult, package_Sample_Index, nodes>>
      BY <1>4, CoinQuietFacts
    <2>2. CASE ReadHeader
      <3>1. /\ header' = header /\ globalRecvBuffer' # <<>> /\ Len(header) + Len(globalRecvBuffer') = PackagePaidBytes
            /\ Len(header) < PackagePaidBytes
        BY <2>2, CoinReadsHeader
      <3>2. at = "header" /\ at' = "parse" /\ UNCHANGED <<local_buf, mishaps>>
        BY <2>2 DEF ReadHeader, historyVars
      <3> QED BY <1>0, <2>1, <3>1, <3>2 DEF CoinControl, Reading
    <2>3. CASE ParseCoinHeader
      <3> DEFINE h == Len(header)
      <3>1. at = "parse" /\ UNCHANGED <<local_buf, mishaps>>
        BY <2>3 DEF ParseCoinHeader, historyVars
      <3>2. /\ h \in Nat /\ h < 10 /\ Len(globalRecvBuffer') \in Nat /\ Len(globalRecvBuffer) \in Nat
            /\ Len(globalRecvBuffer') = Len(globalRecvBuffer) - 1
            /\ h + Len(globalRecvBuffer) <= 10
            /\ (globalRecvBuffer' # <<>> => Len(globalRecvBuffer') # 0)
        <4>1. h \in Nat /\ h < 10 /\ Len(globalRecvBuffer) \in Nat /\ globalRecvBuffer' \in Seq(Bytes)
              /\ Len(globalRecvBuffer') = Len(globalRecvBuffer) - 1
          BY <1>0, <2>3, CoinParses
        <4>2. Len(globalRecvBuffer') \in Nat /\ (globalRecvBuffer' # <<>> => Len(globalRecvBuffer') # 0)
          BY <4>1, EmptySeq, LenProperties
        <4>3. h + Len(globalRecvBuffer) <= 10
          BY <3>1 DEF CoinControl, PackagePaidBytes
        <4> QED BY <4>1, <4>2, <4>3
      <3>3. Len(header') \in Nat /\ Len(header') <= h + 1
            /\ \A k \in 1 .. Len(header') : k <= 4 => header'[k].value = CoinHead[k]
        <4>1. CASE header' = <<>>
          BY <1>0, <3>2, <4>1
        <4>2. CASE header' # <<>>
          <5>1. /\ h >= 4 \/ Stream[h + 1].value = CoinHead[h + 1]
                /\ Len(header') = h + 1 /\ \A i \in 1 .. h + 1 : header'[i] = Stream[i]
            BY <2>3, <4>2, CoinParses
          <5>2. ASSUME NEW k \in 1 .. h + 1, k <= 4 PROVE header'[k].value = CoinHead[k]
            <6>1. header'[k] = Stream[k]
              BY <5>1
            <6>2. CASE k = h + 1
              BY <3>2, <5>1, <5>2, <6>1, <6>2
            <6>3. CASE k # h + 1
              <7>1. k \in 1 .. h
                BY <3>2, <6>3
              <7> QED BY <5>2, <6>1, <7>1, CoinStreamFacts DEF CoinControl
            <6> QED BY <6>2, <6>3
          <5> QED BY <3>2, <5>1, <5>2
        <4> QED BY <4>1, <4>2
      <3>4. at' = IF globalRecvBuffer' # <<>> THEN "parse"
                  ELSE IF Len(header') = PackagePaidBytes THEN "payload" ELSE "header"
        BY <2>3, CoinParses
      <3>5. package_Sample_Index = 0 /\ Len(local_buf) < BATCH
        BY <3>1 DEF CoinControl
      <3>6. Len(header') + Len(globalRecvBuffer') <= 10 /\ Len(header') <= 10
            /\ (globalRecvBuffer' # <<>> => Len(header') < 10)
        BY <3>2, <3>3
      <3>7. at' \in {"parse", "payload", "header"} /\ (globalRecvBuffer' # <<>> <=> at' = "parse")
            /\ (Len(header') = 10 <=> at' = "payload")
        BY <1>0, <3>3, <3>4, <3>6
      <3> HIDE DEF h
      <3> QED BY <1>0, <2>1, <3>1, <3>3, <3>5, <3>6, <3>7 DEF CoinControl, Reading
    <2>4. CASE WaitTimesOut
      <3>1. header' = <<>> /\ globalRecvBuffer' = <<>>
        BY <2>4, CoinWaitTimesOut
      <3>2. at \in {"header", "payload"} /\ at' = "collect" /\ UNCHANGED <<local_buf, mishaps>>
        BY <2>4 DEF WaitTimesOut
      <3> QED BY <1>0, <2>1, <3>1, <3>2 DEF CoinControl, Reading
    <2>5. CASE Flush
      <3>1. /\ header' = <<>> /\ globalRecvBuffer' = <<>> /\ header = <<>> /\ globalRecvBuffer = <<>>
            /\ mishaps' <= MAX_MISHAPS
        BY <2>5, CoinFlushes
      <3>2. UNCHANGED <<at, local_buf>>
        BY <2>5 DEF Flush
      <3> QED BY <1>0, <2>1, <3>1, <3>2 DEF CoinControl, Reading
    <2>6. CASE CoinCollect
      <3>1. local_buf' = <<>> /\ at = "collect" /\ at' = "judge" /\ UNCHANGED <<globalRecvBuffer, header, mishaps>>
        BY <2>6 DEF CoinCollect, parserVars, historyVars
      <3> QED BY <1>0, <2>1, <3>1 DEF CoinControl, Reading
    <2>7. CASE CallTimesOut
      <3>1. at = "node" /\ at' = "collect" /\ package_Sample_Index > 0
            /\ UNCHANGED <<local_buf, globalRecvBuffer, header, mishaps>>
        BY <2>7 DEF CallTimesOut, parserVars, historyVars
      <3> QED BY <1>0, <2>1, <3>1 DEF CoinControl, Reading
    <2>8. CASE Listen
      <3>1. at = "judge" /\ at' = (IF package_Sample_Index = 0 THEN "header" ELSE "node")
            /\ UNCHANGED <<local_buf, globalRecvBuffer, header, mishaps>>
        BY <2>8 DEF Listen, parserVars, historyVars
      <3>2. package_Sample_Index \in Nat /\ Len(local_buf) = 0
        BY <1>0, <3>1 DEF CoinTypes, CoinControl
      <3> QED BY <1>0, <2>1, <3>1, <3>2 DEF CoinControl, Reading
    <2> QED BY <1>4, <2>2, <2>3, <2>4, <2>5, <2>6, <2>7, <2>8 DEF CoinQuietStep
  <1> QED BY <1>1, <1>2, <1>3, <1>4, CoinSteps
\* What an arrival does.
LEMMA CoinArrivalStream ==
    ASSUME CoinTypes, CoinControl, CoinArrives
    PROVE  \E kind \in CoinKinds, b \in Seq(Bytes) :
             /\ sent' = Append(sent, kind) /\ Stream' = Stream \o b
             /\ Len(sent') = Len(sent) + 1 /\ \A p \in 1 .. Len(sent) : sent'[p] = sent[p]
             /\ sent'[Len(sent) + 1] = kind
             /\ Block(b, Len(sent) + 1, kind, harmed')
             /\ sent # <<>> => kind.start = (sent[Len(sent)].start + SAMPLES) % FULL
             /\ kind.stop = (kind.start + SAMPLES - 1) % FULL
  <1>1. PICK kind \in CoinKinds, b \in Seq(Bytes) :
             /\ sent' = Append(sent, kind) /\ line' = line \o b
             /\ Block(b, Len(sent) + 1, kind, harmed')
             /\ sent # <<>> => kind.start = (sent[Len(sent)].start + SAMPLES) % FULL
             /\ kind.stop = (kind.start + SAMPLES - 1) % FULL
    BY CoinArrivalFacts DEF CoinControl
  <1>2. UNCHANGED <<header, globalRecvBuffer>>
    BY CoinArrivalFacts DEF CoinControl, parserVars
  <1>3. header \in Seq(Bytes) /\ globalRecvBuffer \in Seq(Bytes) /\ line \in Seq(Bytes) /\ sent \in Seq(CoinKinds)
    BY DEF CoinTypes
  <1>4. Stream' = Stream \o b
    <2> DEFINE u == header \o globalRecvBuffer
    <2>1. u \in Seq(Bytes) /\ Stream = u \o line /\ Stream' = u \o (line \o b)
      BY <1>1, <1>2, <1>3, ConcatProperties DEF Stream
    <2> HIDE DEF u
    <2> QED BY <1>3, <2>1, Assembled
  <1>5. /\ Len(sent') = Len(sent) + 1 /\ \A p \in 1 .. Len(sent) : sent'[p] = sent[p]
        /\ sent'[Len(sent) + 1] = kind
    BY <1>1, <1>3, AppendFacts
  <1> QED BY <1>1, <1>4, <1>5

LEMMA CoinLiesNext ==
    ASSUME CoinTypes, CoinTypes', CoinControl, CoinLies(Stream, sent, harmed), WholeCoinRead,
           version = M1CT_Coin_Plus, StreamNext
    PROVE  CoinLies(Stream', sent', harmed')
  <1>0. /\ Stream \in Seq(Bytes) /\ sent \in Seq(CoinKinds) /\ harmed \subseteq 1 .. Len(sent)
    BY CoinStreamFacts DEF CoinTypes
  <1>1. CASE CoinArrives
    <2>1. PICK kind \in CoinKinds, b \in Seq(Bytes) :
             /\ sent' = Append(sent, kind) /\ Stream' = Stream \o b
             /\ Block(b, Len(sent) + 1, kind, harmed')
      BY <1>1, CoinArrivalStream
    <2>2. harmed \subseteq harmed' /\ harmed' \subseteq harmed \union {Len(sent) + 1}
      BY <1>1, CoinArrivalFacts DEF CoinControl
    <2>3. CoinLies(Stream \o b, Append(sent, kind), harmed')
      BY <1>0, <2>1, <2>2, CoinArrivalKeeps
    <2> QED BY <2>1, <2>3
  <1>2. ASSUME sent' = sent, harmed \subseteq harmed', NEW n, Dropped(Stream, Stream', n)
        PROVE  CoinLies(Stream', sent', harmed')
    <2>1. Stream' \in Seq(Bytes)
      <3>1. header' \in Seq(Bytes) /\ globalRecvBuffer' \in Seq(Bytes) /\ line' \in Seq(Bytes)
        BY DEF CoinTypes
      <3> QED BY <3>1, StreamPlaces DEF Stream
    <2>2. PICK t, more : t \in Seq(Bytes) /\ t = Stream' /\ more = harmed'
      BY <2>1
    <2>3. CoinLies(t, sent, more)
      BY <1>0, <1>2, <2>2, CoinDropKeeps
    <2> QED BY <1>2, <2>2, <2>3
  <1>3. CASE ReadCoinPayload
    <2>1. sent' = sent /\ harmed \subseteq harmed' /\ Dropped(Stream, Stream', CoinSize + 2)
      BY <1>3, CoinPayloadRead DEF ReadCoinPayload, lidarVars, historyVars
    <2> QED BY <1>2, <2>1
  <1>4. CASE EmitCoinNode
    <2>1. sent' = sent /\ harmed \subseteq harmed' /\ Stream' = Stream
      BY <1>4, CoinEmits
    <2>2. Dropped(Stream, Stream', 0)
      BY <1>0, <2>1, NothingDropped
    <2> QED BY <1>2, <2>1, <2>2
  <1>5. CASE CoinQuietStep
    <2>1. sent' = sent /\ harmed \subseteq harmed' /\ \E n \in Nat : Dropped(Stream, Stream', n)
      BY <1>5, CoinQuietFacts
    <2> QED BY <1>2, <2>1
  <1> QED BY <1>1, <1>3, <1>4, <1>5, CoinSteps

-----------------------------------------------------------------------------
(* waitPackage_coin: the angles.                                           *)

LEMMA Times ==
    ASSUME NEW F \in Nat, NEW a \in Nat, NEW d \in Nat
    PROVE  F * (a + d) = F * a + F * d /\ F * a \in Nat /\ (d >= 1 => F * d >= F)
  OBVIOUS

LEMMA OneQuotient ==
    ASSUME NEW F \in Nat, F >= 1, NEW x \in Nat, NEW q \in Nat, NEW r \in 0 .. F - 1, x = F * q + r
    PROVE  x % F = r /\ x \div F = q
  <1>1. PICK k \in Nat, m \in 0 .. F - 1 : k = x \div F /\ m = x % F /\ x = F * k + m
    BY Quotients
  <1>2. CASE k > q
    <2>1. PICK d \in Nat : k = q + d /\ d >= 1
      <3>1. k - q \in Nat /\ k = q + (k - q) /\ k - q >= 1
        BY <1>2
      <3> QED BY <3>1
    <2>2. F * k = F * q + F * d /\ F * d >= F /\ F * q \in Nat /\ F * d \in Nat
      BY <2>1, Times
    <2> DEFINE a == F * k  b == F * q  c == F * d
    <2>3. a = b + c /\ c >= F /\ b \in Nat /\ c \in Nat /\ x = a + m /\ x = b + r
      BY <1>1, <2>2
    <2> HIDE DEF a, b, c
    <2> QED BY <2>3
  <1>3. CASE q > k
    <2>1. PICK d \in Nat : q = k + d /\ d >= 1
      <3>1. q - k \in Nat /\ q = k + (q - k) /\ q - k >= 1
        BY <1>3
      <3> QED BY <3>1
    <2>2. F * q = F * k + F * d /\ F * d >= F /\ F * k \in Nat /\ F * d \in Nat
      BY <2>1, Times
    <2> DEFINE a == F * q  b == F * k  c == F * d
    <2>3. a = b + c /\ c >= F /\ b \in Nat /\ c \in Nat /\ x = a + r /\ x = b + m
      BY <1>1, <2>2
    <2> HIDE DEF a, b, c
    <2> QED BY <2>3
  <1>4. CASE q = k
    <2> DEFINE a == F * q
    <2>1. x = a + r /\ x = a + m /\ a \in Nat
      BY <1>1, <1>4, Times
    <2> HIDE DEF a
    <2>2. r = m
      BY <2>1
    <2> QED BY <1>1, <1>4, <2>2
  <1> QED BY <1>2, <1>3, <1>4

LEMMA SumOfRemainders ==
    ASSUME NEW F \in Nat, F >= 1, NEW x \in Nat, NEW y \in Nat
    PROVE  ((x % F) + y) % F = (x + y) % F
  <1>1. PICK k \in Nat, m \in 0 .. F - 1 : k = x \div F /\ m = x % F /\ x = F * k + m
    BY Quotients
  <1>2. PICK w \in Nat : w = m + y
    OBVIOUS
  <1>3. PICK j \in Nat, n \in 0 .. F - 1 : n = (m + y) % F /\ m + y = F * j + n
    <2>1. PICK j \in Nat, n \in 0 .. F - 1 : n = w % F /\ j = w \div F /\ w = F * j + n
      BY Quotients
    <2> QED BY <1>2, <2>1
  <1>4. F * (k + j) = F * k + F * j /\ F * k \in Nat /\ F * j \in Nat
    BY Times
  <1> DEFINE a == F * (k + j)  b == F * k  c == F * j
  <1>5. a = b + c /\ b \in Nat /\ c \in Nat /\ x = b + m /\ m + y = c + n
    BY <1>1, <1>3, <1>4
  <1> HIDE DEF a, b, c
  <1>6. x + y = a + n /\ x + y \in Nat
    BY <1>5
  <1>7. (x + y) % F = n
    <2>1. k + j \in Nat /\ x + y = F * (k + j) + n
      BY <1>6 DEF a
    <2> QED BY <1>6, <2>1, OneQuotient
  <1> QED BY <1>1, <1>3, <1>7

\* A sum below twice the whole turn.
LEMMA OneTurn ==
    ASSUME NEW F \in Nat, F >= 1, NEW x \in Nat, x < 2 * F
    PROVE  x % F = IF x < F THEN x ELSE x - F
  OBVIOUS
LEMMA AnglesGrow ==
    ASSUME NEW all \in Seq(CoinKinds), NEW kind \in CoinKinds, Angles(all),
           all # <<>> => kind.start = (all[Len(all)].start + SAMPLES) % FULL,
           kind.stop = (kind.start + SAMPLES - 1) % FULL
    PROVE  Angles(Append(all, kind))
  <1> DEFINE new == Append(all, kind)  L == Len(all)
  <1>1. L \in Nat /\ Len(new) = L + 1 /\ (\A p \in 1 .. L : new[p] = all[p]) /\ new[L + 1] = kind
    BY AppendFacts
  <1>2. kind.start \in 0 .. FULL - 1 /\ FULL \in Nat /\ FULL >= 1 /\ SAMPLES \in Nat
    BY CoinSizes DEF CoinKinds
  <1> HIDE DEF new, L
  <1>3. ASSUME NEW p \in 1 .. L
        PROVE  new[p].start = FirstTurn(new, p) % FULL /\ new[p].stop = (new[p].start + SAMPLES - 1) % FULL
    <2>1. new[p] = all[p] /\ new[1] = all[1]
      BY <1>1
    <2> QED BY <2>1 DEF Angles, FirstTurn, L
  <1>4. new[L + 1].start = FirstTurn(new, L + 1) % FULL
    <2>1. CASE L = 0
      <3>1. FirstTurn(new, L + 1) = kind.start
        BY <1>1, <1>2, <2>1 DEF FirstTurn
      <3>2. kind.start % FULL = kind.start
        BY <1>2, OneTurn
      <3> QED BY <1>1, <3>1, <3>2
    <2>2. CASE L # 0
      <3>1. 1 \in 1 .. L /\ L \in 1 .. L /\ all # <<>>
        BY <1>1, <2>2, EmptySeq DEF L
      <3>2. PICK x \in Nat : x = FirstTurn(all, L)
        <4>1. all[1] \in CoinKinds
          BY <3>1, ElementOfSeq DEF L
        <4>2. all[1].start \in Nat
          BY <1>2, <4>1 DEF CoinKinds
        <4>3. SAMPLES * (L - 1) \in Nat
          <5>1. PICK m \in Nat : m = L - 1
            BY <1>1, <2>2
          <5>2. SAMPLES * m \in Nat
            BY <1>2
          <5> QED BY <5>1, <5>2
        <4>4. FirstTurn(all, L) \in Nat
          BY <4>2, <4>3 DEF FirstTurn
        <4> QED BY <4>4
      <3>3. kind.start = ((x % FULL) + SAMPLES) % FULL
        BY <3>1, <3>2 DEF Angles, L
      <3>4. kind.start = (x + SAMPLES) % FULL
        BY <1>2, <3>3, SumOfRemainders
      <3>5. FirstTurn(new, L + 1) = x + SAMPLES
        <4>1. new[1] = all[1]
          BY <1>1, <3>1
        <4>2. PICK m \in Nat : m = L - 1
          BY <1>1, <2>2
        <4>3. SAMPLES * (m + 1) = SAMPLES * m + SAMPLES * 1 /\ SAMPLES * m \in Nat /\ SAMPLES * 1 = SAMPLES
          BY <1>2, Times
        <4>4. (L + 1) - 1 = m + 1
          BY <1>1, <4>2
        <4>5. FirstTurn(new, L + 1) = all[1].start + SAMPLES * (m + 1) /\ x = all[1].start + SAMPLES * m
          BY <3>2, <4>1, <4>2, <4>4 DEF FirstTurn
        <4>6. all[1].start \in Nat
          <5>1. all[1] \in CoinKinds
            BY <3>1, ElementOfSeq DEF L
          <5> QED BY <1>2, <5>1 DEF CoinKinds
        <4> QED BY <1>2, <4>3, <4>5, <4>6
      <3> QED BY <1>1, <3>4, <3>5
    <2> QED BY <2>1, <2>2
  <1>5. new[L + 1].stop = (new[L + 1].start + SAMPLES - 1) % FULL
    BY <1>1
  <1>6. \A p \in 1 .. L + 1 : p \in 1 .. L \/ p = L + 1
    BY <1>1
  <1> QED BY <1>1, <1>3, <1>4, <1>5, <1>6 DEF Angles, new

\* The angles of the first and the last sample tell the interval.
LEMMA IntervalIsOne ==
    ASSUME NEW start \in 0 .. FULL - 1
    PROVE  Interval(start, (start + SAMPLES - 1) % FULL) = 1
  <1>1. PICK m \in Nat : m = SAMPLES - 1 /\ m >= 1 /\ m < FULL /\ FULL \in Nat /\ FULL >= 1
    BY CoinSizes
  <1>2. PICK x \in Nat : x = start + SAMPLES - 1 /\ x = start + m /\ x < 2 * FULL
    BY <1>1, CoinSizes
  <1>3. PICK stop : stop = x % FULL /\ stop = IF x < FULL THEN x ELSE x - FULL
    BY <1>1, <1>2, OneTurn
  <1>4. (IF stop < start THEN FULL - start + stop ELSE stop - start) = m
    BY <1>1, <1>2, <1>3
  <1>5. m \div m = 1
    <2>1. 0 \in 0 .. m - 1 /\ m = m * 1 + 0
      BY <1>1
    <2> QED BY <1>1, <2>1, OneQuotient
  <1>6. Interval(start, stop) = 1
    BY <1>1, <1>4, <1>5 DEF Interval
  <1> QED BY <1>2, <1>3, <1>6

\* The angle shown for a sample, and how often the LiDAR has turned past zero.
LEMMA AngleOfSample ==
    ASSUME NEW x \in Nat, NEW k \in 1 .. SAMPLES, NEW angle \in Nat, angle = (x % FULL) + (k - 1),
           NEW turned \in Nat, turned = x + k - 1,
           NEW zero \in Int, zero = (turned - (IF k = 1 THEN 0 ELSE 1)) \div FULL,
           NEW shown \in Int, shown = IF angle > FULL THEN angle - FULL ELSE angle
    PROVE  zero \in Nat /\ shown \in 0 .. FULL /\ turned = FULL * zero + shown
  <1>1. FULL \in Nat /\ FULL >= 1 /\ SAMPLES \in Nat /\ SAMPLES <= FULL
    BY CoinSizes
  <1>2. PICK q \in Nat, r \in 0 .. FULL - 1 : r = x % FULL /\ x = FULL * q + r
    <2>1. x % FULL \in 0 .. FULL - 1 /\ x \div FULL \in Nat /\ x = FULL * (x \div FULL) + (x % FULL)
      BY <1>1, Quotients
    <2> QED BY <2>1
  <1>3. angle = r + (k - 1) /\ k - 1 \in Nat /\ k - 1 < FULL
    BY <1>1, <1>2
  <1>4. FULL * (q + 1) = FULL * q + FULL * 1 /\ FULL * q \in Nat /\ FULL * 1 = FULL
    BY <1>1, Times
  <1> DEFINE b == FULL * q  c == FULL * (q + 1)
  <1>5. x = b + r /\ b \in Nat /\ c = b + FULL
    BY <1>2, <1>4
  <1>6. PICK y \in Nat : y = (x + k - 1) - (IF k = 1 THEN 0 ELSE 1)
    <2>1. CASE k = 1
      BY <2>1
    <2>2. CASE k # 1
      BY <2>2
    <2> QED BY <2>1, <2>2
  <1>7. CASE angle > FULL
    <2>1. PICK s \in 0 .. FULL - 1 : s = angle - 1 - FULL /\ k # 1
      BY <1>1, <1>3, <1>7
    <2> HIDE DEF b, c
    <2>2. y = c + s
      BY <1>1, <1>3, <1>5, <1>6, <2>1
    <2>3. y \div FULL = q + 1
      <3>1. PICK p \in Nat : p = q + 1
        OBVIOUS
      <3>2. y = FULL * p + s
        BY <2>2, <3>1 DEF c
      <3>3. y \div FULL = p
        BY <1>1, <3>2, OneQuotient
      <3> QED BY <3>1, <3>3
    <2>4. zero = q + 1
      BY <1>6, <2>3
    <2>5. turned = c + (angle - FULL) /\ shown = angle - FULL /\ angle - FULL \in 0 .. FULL
      BY <1>1, <1>3, <1>5, <1>7
    <2>6. c = FULL * zero
      BY <2>4 DEF c
    <2> QED BY <2>4, <2>5, <2>6
  <1>8. CASE ~(angle > FULL)
    <2>1. PICK s \in 0 .. FULL - 1 : s = angle - (IF k = 1 THEN 0 ELSE 1)
      BY <1>1, <1>3, <1>8
    <2> HIDE DEF b, c
    <2>2. y = b + s
      BY <1>1, <1>3, <1>5, <1>6, <2>1
    <2>3. y \div FULL = q
      BY <1>1, <2>2, OneQuotient DEF b
    <2>4. zero = q
      BY <1>6, <2>3
    <2>5. turned = b + angle /\ shown = angle /\ angle \in 0 .. FULL
      BY <1>1, <1>3, <1>5, <1>8
    <2> QED BY <1>1, <1>8, <2>4, <2>5 DEF b
  <1> QED BY <1>7, <1>8

\* Of two angles less than NEAR apart, the second is past zero exactly if they look so.
LEMMA PastZero ==
    ASSUME NEW ta \in Nat, NEW tb \in Nat, NEW za \in Nat, NEW zb \in Nat,
           NEW aa \in 0 .. FULL, NEW ab \in 0 .. FULL,
           ta = FULL * za + aa, tb = FULL * zb + ab, ta < tb, tb - ta < NEAR
    PROVE  aa > FULL - NEAR /\ ab < NEAR <=> za < zb
  <1>1. FULL \in Nat /\ FULL >= 1 /\ NEAR \in Nat /\ 2 * NEAR <= FULL
    BY CoinSizes
  <1>2. CASE za = zb
    <2> DEFINE b == FULL * za
    <2>1. b \in Nat /\ ta = b + aa /\ tb = b + ab
      BY <1>1, <1>2
    <2> HIDE DEF b
    <2>2. ~(aa > FULL - NEAR /\ ab < NEAR)
      BY <1>1, <2>1
    <2> QED BY <1>2, <2>2
  <1>3. CASE za < zb
    <2>1. PICK d \in Nat : zb = za + (1 + d)
      <3>1. zb - za - 1 \in Nat /\ zb = za + (1 + (zb - za - 1))
        BY <1>3
      <3> QED BY <3>1
    <2>2. FULL * (za + (1 + d)) = FULL * za + FULL * (1 + d) /\ FULL * za \in Nat /\ FULL * (1 + d) \in Nat
          /\ FULL * (1 + d) = FULL * 1 + FULL * d /\ FULL * 1 = FULL /\ FULL * d \in Nat
          /\ (d >= 1 => FULL * d >= FULL)
      BY <1>1, Times
    <2> DEFINE b == FULL * za  c == FULL * d
    <2>3. b \in Nat /\ c \in Nat /\ (d >= 1 => c >= FULL) /\ ta = b + aa /\ tb = b + (FULL + c) + ab
      BY <2>1, <2>2
    <2> HIDE DEF b, c
    <2>4. c < FULL
      BY <1>1, <2>3
    <2>5. d = 0
      BY <1>1, <2>3, <2>4
    <2>6. c = 0
      BY <1>1, <2>5 DEF c
    <2>7. aa > FULL - NEAR /\ ab < NEAR
      BY <1>1, <2>3, <2>6
    <2> QED BY <1>3, <2>7
  <1>4. CASE zb < za
    <2>1. PICK d \in Nat : za = zb + d /\ d >= 1
      <3>1. za - zb \in Nat /\ za = zb + (za - zb) /\ za - zb >= 1
        BY <1>4
      <3> QED BY <3>1
    <2>2. FULL * (zb + d) = FULL * zb + FULL * d /\ FULL * zb \in Nat /\ FULL * d >= FULL /\ FULL * d \in Nat
      BY <1>1, <2>1, Times
    <2> DEFINE b == FULL * zb  c == FULL * d
    <2>3. b \in Nat /\ c \in Nat /\ c >= FULL /\ ta = b + c + aa /\ tb = b + ab
      BY <2>1, <2>2
    <2> HIDE DEF b, c
    <2>4. FALSE
      BY <1>1, <2>3
    <2> QED BY <2>4
  <1> QED BY <1>2, <1>3, <1>4
-----------------------------------------------------------------------------
(* waitPackage_coin: packages and points.                                  *)

\* A package whose check sum fits was sent, and nothing of it is left.
LEMMA FitsIsWhole ==
    ASSUME CoinTypes, CoinControl, CoinLies(Stream, sent, harmed), Angles(sent), ReadCoinPayload, CheckSumResult'
    PROVE  LET p == Stream[1].package
           IN  /\ p \in 1 .. Len(sent) /\ ComesFrom(Stream[1], p, 1)
               /\ package'.payload[1].package = p
               /\ \A i \in 1 .. Len(Stream') : Stream'[i].package > p
               /\ package'.start = sent[p].start /\ package'.interval = 1
               /\ \A i \in 1 .. PackageSampleBytes * SAMPLES :
                    ComesFrom(package'.payload[i], p, CoinHeaderSize + i)
  <1> DEFINE p == Stream[1].package  z == CoinSize  L == Len(Stream)
  <1>1. /\ z \in Nat /\ z = 12 + 3 * SAMPLES /\ SAMPLES \in Nat /\ SAMPLES >= 3 /\ z >= 21 /\ L \in Nat /\ z + 2 <= L
        /\ Dropped(Stream, Stream', z + 2)
        /\ \A i \in 1 .. 3 * SAMPLES : package'.payload[i] = Stream[8 + i]
        /\ package'.start = Stream[7].value
        /\ package'.interval = Interval(Stream[7].value, Stream[z - 3].value)
        /\ \A i \in 1 .. z : Stream[i].package = p /\ Stream[i].place = i /\ ~Stream[i].altered
    BY CoinSizes, CoinPayloadRead, CoinStreamFacts DEF PackageSampleBytes, CoinHeaderSize
  <1>2. /\ \A i \in 1 .. L :
             /\ Stream[i].package \in 1 .. Len(sent) /\ Stream[i].place \in 1 .. z
             /\ ~Stream[i].altered => Stream[i].value = CoinByteAt(sent[Stream[i].package], Stream[i].place)
        /\ \A i, j \in 1 .. L : i < j =>
             Stream[i].package < Stream[j].package \/
             (Stream[i].package = Stream[j].package /\ Stream[i].place < Stream[j].place)
    BY DEF CoinLies, CoinOrigins
  <1>3. Len(sent) \in Nat /\ sent \in Seq(CoinKinds)
    BY LenProperties DEF CoinTypes
  <1> HIDE DEF p, z, L
  <1>4. p \in 1 .. Len(sent) /\ sent[p] \in CoinKinds
    <2>1. 1 \in 1 .. z /\ 1 \in 1 .. L
      BY <1>1
    <2>2. p \in 1 .. Len(sent)
      BY <1>2, <2>1 DEF p
    <2> QED BY <1>3, <2>2, ElementOfSeq
  <1>5. \A i \in 1 .. z : ComesFrom(Stream[i], p, i) /\ Stream[i].value = CoinByteAt(sent[p], i)
    <2>1. \A i \in 1 .. z : i \in 1 .. L
      BY <1>1
    <2> QED BY <1>1, <1>2, <2>1 DEF ComesFrom
  <1>6. 7 \in 1 .. z /\ z - 3 \in 1 .. z /\ 1 \in 1 .. z /\ \A i \in 1 .. 3 * SAMPLES : 8 + i \in 1 .. z
    BY <1>1
  <1>7. package'.start = sent[p].start
    <2>1. CoinByteAt(sent[p], 7) = sent[p].start
      BY <1>4, CoinByteFacts
    <2> QED BY <1>1, <1>5, <1>6, <2>1
  <1>8. package'.interval = 1
    <2>1. CoinByteAt(sent[p], 7) = sent[p].start /\ CoinByteAt(sent[p], z - 3) = sent[p].stop
      BY <1>4, CoinByteFacts DEF z
    <2>2. package'.interval = Interval(sent[p].start, sent[p].stop)
      BY <1>1, <1>5, <1>6, <2>1
    <2>3. sent[p].start \in 0 .. FULL - 1 /\ sent[p].stop = (sent[p].start + SAMPLES - 1) % FULL
      BY <1>4 DEF Angles, CoinKinds
    <2> QED BY <2>2, <2>3, IntervalIsOne
  <1>9. \A i \in 1 .. 3 * SAMPLES : ComesFrom(package'.payload[i], p, 8 + i)
    BY <1>1, <1>5, <1>6
  <1>10. package'.payload[1].package = p
    <2>1. 1 \in 1 .. 3 * SAMPLES
      BY <1>1
    <2> QED BY <1>9, <2>1 DEF ComesFrom
  <1>11. ASSUME NEW i \in 1 .. Len(Stream') PROVE Stream'[i].package > p
    <2>1. PICK j \in 1 .. L : j = i + (z + 2) /\ Stream'[i] = Stream[j] /\ z < j /\ z \in 1 .. L
      <3>1. Len(Stream') = L - (z + 2) /\ \A k \in 1 .. L - (z + 2) : Stream'[k] = Stream[k + (z + 2)]
        BY <1>1 DEF Dropped, L
      <3>2. i + (z + 2) \in 1 .. L /\ z < i + (z + 2) /\ z \in 1 .. L
        BY <1>1, <3>1
      <3> QED BY <3>1, <3>2
    <2>2. Stream[z].package = p /\ Stream[z].place = z /\ Stream[j].place <= z /\ Stream[j].place \in Int
      BY <1>1, <1>2, <2>1
    <2>3. Stream[z].package < Stream[j].package \/
          (Stream[z].package = Stream[j].package /\ Stream[z].place < Stream[j].place)
      BY <1>2, <2>1
    <2>4. Stream[j].package \in Int /\ p \in Int
      BY <1>2, <1>4
    <2> QED BY <1>1, <2>1, <2>2, <2>3, <2>4
  <1> QED BY <1>4, <1>5, <1>6, <1>7, <1>8, <1>9, <1>10, <1>11 DEF p, PackageSampleBytes, CoinHeaderSize

\* What is in the stream behind a package stays behind it.
LEMMA BehindStays ==
    ASSUME CoinTypes, CoinTypes', CoinControl, CoinLies(Stream, sent, harmed), WholeCoinRead,
           version = M1CT_Coin_Plus, StreamNext, NEW p \in 1 .. Len(sent),
           \A i \in 1 .. Len(Stream) : Stream[i].package > p
    PROVE  \A i \in 1 .. Len(Stream') : Stream'[i].package > p
  <1>1. CASE CoinArrives
    <2>1. PICK kind \in CoinKinds, b \in Seq(Bytes) :
             Stream' = Stream \o b /\ Block(b, Len(sent) + 1, kind, harmed')
      BY <1>1, CoinArrivalStream
    <2>2. Stream \in Seq(Bytes) /\ Len(Stream) \in Nat /\ Len(b) \in Nat /\ Len(sent) \in Nat
      BY CoinStreamFacts, LenProperties DEF CoinTypes
    <2>3. PICK L \in Nat, B \in Nat : L = Len(Stream) /\ B = Len(b)
      BY <2>2
    <2>4. Len(Stream') = L + B /\ \A i \in 1 .. L + B : Stream'[i] = IF i <= L THEN Stream[i] ELSE b[i - L]
      BY <2>1, <2>2, <2>3, ConcatProperties
    <2> SUFFICES ASSUME NEW i \in 1 .. L + B PROVE Stream'[i].package > p
      BY <2>4
    <2>5. CASE i <= L
      BY <2>3, <2>4, <2>5
    <2>6. CASE i > L
      <3>1. PICK k \in 1 .. B : k = i - L
        BY <2>6
      <3>2. Stream'[i] = b[k]
        BY <2>4, <2>6, <3>1
      <3>3. b[k].package = Len(sent) + 1
        BY <2>1, <2>3 DEF Block
      <3> QED BY <2>2, <3>2, <3>3
    <2> QED BY <2>5, <2>6
  <1>2. ASSUME NEW n \in Nat, Dropped(Stream, Stream', n)
        PROVE  \A i \in 1 .. Len(Stream') : Stream'[i].package > p
    <2>1. PICK L \in Nat : L = Len(Stream)
      BY CoinStreamFacts
    <2>2. Len(Stream') = L - n /\ \A k \in 1 .. L - n : Stream'[k] = Stream[k + n]
      BY <1>2, <2>1 DEF Dropped
    <2> SUFFICES ASSUME NEW i \in 1 .. L - n PROVE Stream'[i].package > p
      BY <2>2
    <2>3. i + n \in 1 .. L
      BY <2>1
    <2> QED BY <2>1, <2>2, <2>3
  <1>3. CASE ReadCoinPayload
    <2>1. Dropped(Stream, Stream', CoinSize + 2) /\ CoinSize + 2 \in Nat
      BY <1>3, CoinPayloadRead, CoinSizes
    <2> QED BY <1>2, <2>1
  <1>4. CASE EmitCoinNode
    <2>1. Stream' = Stream
      BY <1>4, CoinEmits
    <2> QED BY <2>1
  <1>5. CASE CoinQuietStep
    BY <1>2, <1>5, CoinQuietFacts
  <1> QED BY <1>1, <1>3, <1>4, <1>5, CoinSteps
LEMMA AnglesNext ==
    ASSUME CoinTypes, CoinControl, WholeCoinRead, Angles(sent), version = M1CT_Coin_Plus, StreamNext
    PROVE  Angles(sent')
  <1>1. CASE CoinArrives
    <2>1. PICK kind \in CoinKinds :
             /\ sent' = Append(sent, kind)
             /\ sent # <<>> => kind.start = (sent[Len(sent)].start + SAMPLES) % FULL
             /\ kind.stop = (kind.start + SAMPLES - 1) % FULL
      BY <1>1, CoinArrivalStream
    <2>2. sent \in Seq(CoinKinds)
      BY DEF CoinTypes
    <2>3. Angles(Append(sent, kind))
      BY <2>1, <2>2, AnglesGrow
    <2> QED BY <2>1, <2>3
  <1>2. CASE ~CoinArrives
    <2>1. sent' = sent
      <3>1. CASE ReadCoinPayload
        BY <3>1 DEF ReadCoinPayload, lidarVars
      <3> QED BY <1>2, <3>1, CoinEmits, CoinQuietFacts, CoinSteps
    <2> QED BY <2>1
  <1> QED BY <1>1, <1>2

\* The packages sent stay as they are.
LEMMA CoinSentStays ==
    ASSUME CoinTypes, CoinControl, WholeCoinRead, version = M1CT_Coin_Plus, StreamNext
    PROVE  /\ Len(sent) \in Nat /\ Len(sent') \in Nat /\ Len(sent) <= Len(sent')
           /\ \A p \in 1 .. Len(sent) : p \in 1 .. Len(sent') /\ sent'[p] = sent[p]
           /\ harmed \subseteq harmed'
  <1>0. Len(sent) \in Nat
    BY LenProperties DEF CoinTypes
  <1>1. CASE CoinArrives
    <2>1. Len(sent') = Len(sent) + 1 /\ \A p \in 1 .. Len(sent) : sent'[p] = sent[p]
      BY <1>1, CoinArrivalStream
    <2>2. harmed \subseteq harmed'
      BY <1>1, CoinArrivalFacts DEF CoinControl
    <2> QED BY <1>0, <2>1, <2>2
  <1>2. CASE ~CoinArrives
    <2>1. sent' = sent /\ harmed \subseteq harmed'
      <3>1. CASE ReadCoinPayload
        BY <3>1 DEF ReadCoinPayload, lidarVars, historyVars
      <3> QED BY <1>2, <3>1, CoinEmits, CoinQuietFacts, CoinSteps
    <2> QED BY <1>0, <2>1
  <1> QED BY <1>1, <1>2

LEMMA WholeCoinReadNext ==
    ASSUME CoinTypes, CoinTypes', CoinControl, CoinLies(Stream, sent, harmed), Angles(sent), WholeCoinRead,
           version = M1CT_Coin_Plus, StreamNext
    PROVE  WholeCoinRead'
  <1>1. CASE ReadCoinPayload
    <2> SUFFICES ASSUME CheckSumResult' PROVE WholeCoinRead'
      BY DEF WholeCoinRead
    <2>1. sent' = sent
      BY <1>1 DEF ReadCoinPayload, lidarVars
    <2>2. PICK p : p = Stream[1].package
      OBVIOUS
    <2>3. /\ p \in 1 .. Len(sent) /\ package'.payload[1].package = p
          /\ \A i \in 1 .. Len(Stream') : Stream'[i].package > p
          /\ package'.start = sent[p].start /\ package'.interval = 1
          /\ \A i \in 1 .. PackageSampleBytes * SAMPLES :
               ComesFrom(package'.payload[i], p, CoinHeaderSize + i)
      BY <1>1, <2>2, FitsIsWhole
    <2>4. Current' = p
      BY <2>3 DEF Current
    <2> HIDE DEF Current
    <2> QED BY <2>1, <2>3, <2>4 DEF WholeCoinRead
  <1>2. CASE ~ReadCoinPayload
    <2> SUFFICES ASSUME CheckSumResult' PROVE WholeCoinRead'
      BY DEF WholeCoinRead
    <2>1. CheckSumResult /\ package' = package
      <3>1. CASE CoinArrives
        BY <3>1, CoinArrivalFacts DEF CoinControl, parserVars
      <3>2. CASE EmitCoinNode
        BY <3>2, CoinEmits
      <3>3. CASE CoinQuietStep
        BY <3>3, CoinQuietFacts
      <3> QED BY <1>2, <3>1, <3>2, <3>3, CoinSteps
    <2>2. PICK p : p = Current
      OBVIOUS
    <2>3. Current' = p
      BY <2>1, <2>2 DEF Current
    <2>4. /\ p \in 1 .. Len(sent) /\ \A i \in 1 .. Len(Stream) : Stream[i].package > p
          /\ package.start = sent[p].start /\ package.interval = 1
          /\ \A i \in 1 .. PackageSampleBytes * SAMPLES :
               ComesFrom(package.payload[i], p, CoinHeaderSize + i)
      BY <2>1, <2>2 DEF WholeCoinRead
    <2>5. \A i \in 1 .. Len(Stream') : Stream'[i].package > p
      BY <2>4, BehindStays
    <2>6. p \in 1 .. Len(sent') /\ sent'[p] = sent[p]
      BY <2>4, CoinSentStays
    <2> QED BY <2>1, <2>3, <2>4, <2>5, <2>6 DEF WholeCoinRead
  <1> QED BY <1>1, <1>2

\* What is reported, step by step.
LEMMA CoinReports ==
    ASSUME CoinTypes, CoinTypes', CoinControl, WholeCoinRead, version = M1CT_Coin_Plus, StreamNext
    PROVE  /\ Len(got) \in Nat
           /\ \/ got' = got
              \/ /\ EmitCoinNode /\ CheckSumResult /\ Len(got') = Len(got) + 1
                 /\ \A i \in 1 .. Len(got) : got'[i] = got[i]
                 /\ got'[Len(got) + 1] = <<Current, package_Sample_Index + 1>>
  <1>0. got \in Seq(Points) /\ Len(got) \in Nat
    BY LenProperties DEF CoinTypes
  <1>1. CASE EmitCoinNode /\ CheckSumResult
    <2>1. PICK e \in Points : e = <<Current, package_Sample_Index + 1>> /\ got' = Append(got, e)
      BY <1>1, CoinEmits
    <2> QED BY <1>0, <1>1, <2>1, AppendFacts
  <1>2. CASE ~(EmitCoinNode /\ CheckSumResult)
    <2>1. got' = got
      <3>1. CASE CoinArrives
        BY <3>1, CoinArrivalFacts DEF CoinControl
      <3>2. CASE ReadCoinPayload
        BY <3>2 DEF ReadCoinPayload, historyVars
      <3>3. CASE EmitCoinNode
        BY <1>2, <3>3, CoinEmits
      <3>4. CASE CoinQuietStep
        BY <3>4, CoinQuietFacts
      <3> QED BY <3>1, <3>2, <3>3, <3>4, CoinSteps
    <2> QED BY <1>0, <2>1
  <1> QED BY <1>1, <1>2

LEMMA CoinsBehindNext ==
    ASSUME CoinTypes, CoinTypes', CoinControl, CoinLies(Stream, sent, harmed), Angles(sent), WholeCoinRead,
           CoinsBehind, version = M1CT_Coin_Plus, StreamNext
    PROVE  CoinsBehind'
  <1>1. ASSUME NEW i \in 1 .. Len(got)
        PROVE  /\ got[i][1] \in 1 .. Len(sent') /\ got[i][2] \in 1 .. SAMPLES
               /\ \A j \in 1 .. Len(Stream') : Stream'[j].package > got[i][1]
               /\ CheckSumResult' => got[i][1] < Current' \/
                                     (got[i][1] = Current' /\ got[i][2] <= package_Sample_Index')
    <2>1. PICK p, k : p = got[i][1] /\ k = got[i][2]
      OBVIOUS
    <2>2. /\ p \in 1 .. Len(sent) /\ k \in 1 .. SAMPLES /\ \A j \in 1 .. Len(Stream) : Stream[j].package > p
          /\ CheckSumResult => p < Current \/ (p = Current /\ k <= package_Sample_Index)
      BY <2>1 DEF CoinsBehind
    <2>3. p \in 1 .. Len(sent') /\ \A j \in 1 .. Len(Stream') : Stream'[j].package > p
      BY <2>2, BehindStays, CoinSentStays
    <2>4. ASSUME CheckSumResult' PROVE p < Current' \/ (p = Current' /\ k <= package_Sample_Index')
      <3>1. CASE ReadCoinPayload
        <4>1. Current' = Stream[1].package
          BY <2>4, <3>1, FitsIsWhole DEF Current
        <4>2. 1 \in 1 .. Len(Stream)
          BY <3>1, CoinPayloadRead, CoinStreamFacts, CoinSizes
        <4>3. Stream[1].package > p /\ Stream[1].package \in Nat /\ p \in Int
          BY <2>2, <4>2, CoinStreamFacts
        <4> QED BY <4>1, <4>3
      <3>2. CASE EmitCoinNode
        <4>5. /\ package' = package /\ package_Sample_Index \in 0 .. SAMPLES - 1
              /\ IF package_Sample_Index + 1 = SAMPLES
                   THEN package_Sample_Index' = 0 /\ CheckSumResult' = FALSE
                   ELSE package_Sample_Index' = package_Sample_Index + 1 /\ CheckSumResult' = CheckSumResult
          BY <3>2, CoinEmits
        <4>6. package_Sample_Index + 1 # SAMPLES
          BY <2>4, <4>5
        <4>1. package' = package /\ CheckSumResult /\ package_Sample_Index' = package_Sample_Index + 1
              /\ package_Sample_Index \in Nat
          <5>1. CheckSumResult' = CheckSumResult /\ package_Sample_Index' = package_Sample_Index + 1
            BY <4>5, <4>6
          <5>2. CheckSumResult
            BY <2>4, <5>1
          <5>3. package_Sample_Index \in Nat
            BY <4>5, CoinSizes
          <5> QED BY <4>5, <5>1, <5>2, <5>3
        <4>2. Current' = Current
          BY <4>1 DEF Current
        <4>3. p < Current \/ (p = Current /\ k <= package_Sample_Index)
          BY <2>2, <4>1
        <4>4. k <= package_Sample_Index => k <= package_Sample_Index'
          BY <2>2, <4>1, CoinSizes
        <4> QED BY <4>2, <4>3, <4>4
      <3>3. CASE CoinArrives
        <4>1. UNCHANGED <<package, CheckSumResult, package_Sample_Index>>
          BY <3>3, CoinArrivalFacts DEF CoinControl, parserVars
        <4> QED BY <2>2, <2>4, <4>1 DEF Current
      <3>4. CASE CoinQuietStep
        <4>1. UNCHANGED <<package, CheckSumResult, package_Sample_Index>>
          BY <3>4, CoinQuietFacts
        <4> QED BY <2>2, <2>4, <4>1 DEF Current
      <3> QED BY <3>1, <3>2, <3>3, <3>4, CoinSteps
    <2> QED BY <2>1, <2>2, <2>3, <2>4
  <1>2. CASE got' = got
    BY <1>1, <1>2 DEF CoinsBehind
  <1>3. CASE got' # got
    <2>1. /\ EmitCoinNode /\ CheckSumResult /\ Len(got') = Len(got) + 1 /\ Len(got) \in Nat
          /\ \A i \in 1 .. Len(got) : got'[i] = got[i]
          /\ got'[Len(got) + 1] = <<Current, package_Sample_Index + 1>>
      BY <1>3, CoinReports
    <2>2. PICK p, k : p = Current /\ k = package_Sample_Index + 1
      OBVIOUS
    <2>3. p \in 1 .. Len(sent) /\ \A j \in 1 .. Len(Stream) : Stream[j].package > p
      BY <2>1, <2>2 DEF WholeCoinRead
    <2>4. sent' = sent /\ Stream' = Stream /\ package' = package /\ package_Sample_Index \in 0 .. SAMPLES - 1
      BY <2>1, CoinEmits
    <2>5. Current' = p
      BY <2>2, <2>4 DEF Current
    <2>6. CheckSumResult' => package_Sample_Index' = k
      BY <2>1, <2>2, CoinEmits
    <2>7. k \in 1 .. SAMPLES
      BY <2>2, <2>4, CoinSizes
    <2>8. PICK L \in Nat : L = Len(got)
      BY <2>1
    <2> SUFFICES ASSUME NEW i \in 1 .. L + 1
                 PROVE  /\ got'[i][1] \in 1 .. Len(sent') /\ got'[i][2] \in 1 .. SAMPLES
                        /\ \A j \in 1 .. Len(Stream') : Stream'[j].package > got'[i][1]
                        /\ CheckSumResult' => got'[i][1] < Current' \/
                                     (got'[i][1] = Current' /\ got'[i][2] <= package_Sample_Index')
      BY <2>1, <2>8 DEF CoinsBehind
    <2>9. CASE i = L + 1
      <3>1. got'[i] = <<p, k>>
        BY <2>1, <2>2, <2>8, <2>9
      <3>2. k <= k
        BY <2>7
      <3> QED BY <2>3, <2>4, <2>5, <2>6, <2>7, <3>1, <3>2
    <2>10. CASE i # L + 1
      <3>1. i \in 1 .. Len(got) /\ got'[i] = got[i]
        BY <2>1, <2>8, <2>10
      <3> QED BY <1>1, <3>1
    <2> QED BY <2>9, <2>10
  <1> QED BY <1>2, <1>3

LEMMA CoinPointsInOrderNext ==
    ASSUME CoinTypes, CoinTypes', CoinControl, WholeCoinRead, CoinsBehind, PointsInOrder,
           version = M1CT_Coin_Plus, StreamNext
    PROVE  PointsInOrder'
  <1>0. got \in Seq(Points) /\ DOMAIN got = 1 .. Len(got) /\ got' \in Seq(Points) /\ DOMAIN got' = 1 .. Len(got')
    BY LenProperties DEF CoinTypes
  <1>1. CASE got' = got
    BY <1>1 DEF PointsInOrder
  <1>2. CASE got' # got
    <2>1. /\ EmitCoinNode /\ CheckSumResult /\ Len(got') = Len(got) + 1 /\ Len(got) \in Nat
          /\ \A i \in 1 .. Len(got) : got'[i] = got[i]
          /\ got'[Len(got) + 1] = <<Current, package_Sample_Index + 1>>
      BY <1>2, CoinReports
    <2>2. PICK p, k : p = Current /\ k = package_Sample_Index + 1
      OBVIOUS
    <2>3. package_Sample_Index \in Nat
      BY DEF CoinTypes
    <2>4. PICK L \in Nat : L = Len(got)
      BY <2>1
    <2> SUFFICES ASSUME NEW i \in 1 .. L + 1, NEW j \in 1 .. L + 1, i < j
                 PROVE  \/ got'[i][1] < got'[j][1]
                        \/ got'[i][1] = got'[j][1] /\ got'[i][2] < got'[j][2]
      BY <1>0, <2>1, <2>4 DEF PointsInOrder
    <2>5. i \in 1 .. L /\ got'[i] = got[i]
      BY <2>1, <2>4
    <2>6. CASE j = L + 1
      <3>1. got'[j] = <<p, k>>
        BY <2>1, <2>2, <2>4, <2>6
      <3>2. /\ got[i][2] \in 1 .. SAMPLES
            /\ got[i][1] < p \/ (got[i][1] = p /\ got[i][2] <= package_Sample_Index)
        BY <2>1, <2>2, <2>4, <2>5 DEF CoinsBehind
      <3>3. got[i][2] <= package_Sample_Index => got[i][2] < k
        BY <2>2, <2>3, <3>2, CoinSizes
      <3> QED BY <2>5, <3>1, <3>2, <3>3
    <2>7. CASE j # L + 1
      <3>1. j \in 1 .. L /\ got'[j] = got[j]
        BY <2>1, <2>4, <2>7
      <3> QED BY <1>0, <2>4, <2>5, <3>1 DEF PointsInOrder
    <2> QED BY <2>6, <2>7
  <1> QED BY <1>1, <1>2

\* RingStartIsPastZero, node by node.
LEMMA RingStartsAre ==
    RingStartIsPastZero <=> \A i \in 1 .. Len(nodes) - 1 : RingStartAt(sent[1].start, nodes[i], nodes[i + 1])
  BY DEF RingStartIsPastZero, RingStartAt, TurnOf, ZeroOf, Turned

\* The angle of a node, and what it leaves of how far the LiDAR has turned.
LEMMA AngleOfPoint ==
    ASSUME CoinTypes, Angles(sent), CheckSumResult, WholeCoinRead,
           package_Sample_Index \in 0 .. SAMPLES - 1,
           NEW point, point = <<Current, package_Sample_Index + 1>>
    PROVE  /\ SampleAngle \in 0 .. FULL /\ ZeroOf(sent[1].start, point) \in Nat
           /\ TurnOf(sent[1].start, point) = FULL * ZeroOf(sent[1].start, point) + SampleAngle
           /\ TurnOf(sent[1].start, point) \in Nat
  <1>1. PICK p, k : p = Current /\ k = package_Sample_Index + 1
    OBVIOUS
  <1>2. p \in 1 .. Len(sent) /\ Len(sent) \in Nat /\ package.start = sent[p].start /\ package.interval = 1
    BY <1>1, LenProperties DEF WholeCoinRead, CoinTypes
  <1>3. k \in 1 .. SAMPLES /\ package_Sample_Index = k - 1
    BY <1>1, CoinSizes
  <1>4. 1 \in 1 .. Len(sent)
    BY <1>2
  <1>5. sent[1].start \in 0 .. FULL - 1
    <2>1. sent[1] \in CoinKinds
      BY <1>4, ElementOfSeq DEF CoinTypes
    <2> QED BY <2>1 DEF CoinKinds
  <1>6. PICK c \in Nat : c = sent[1].start
    BY <1>5, CoinSizes
  <1>7. PICK d \in Nat : d = p - 1
    BY <1>2
  <1>8. PICK x \in Nat : x = c + SAMPLES * d
    <2>1. SAMPLES * d \in Nat
      BY CoinSizes, Times
    <2> QED BY <2>1
  <1>9. sent[p].start = x % FULL
    <2>1. FirstTurn(sent, p) = x
      BY <1>6, <1>7, <1>8 DEF FirstTurn
    <2> QED BY <1>2, <2>1 DEF Angles
  <1>10. PICK angle : angle = package.start + package.interval * package_Sample_Index
    OBVIOUS
  <1>11. angle = (x % FULL) + (k - 1)
    BY <1>2, <1>3, <1>9, <1>10
  <1>12. SampleAngle = IF angle > FULL THEN angle - FULL ELSE angle
    BY <1>10 DEF SampleAngle
  <1>13. point[1] = p /\ point[2] = k
    BY <1>1
  <1>14. TurnOf(sent[1].start, point) = x + k - 1
    BY <1>6, <1>7, <1>8, <1>13 DEF TurnOf
  <1>15. k \in 1 .. SAMPLES /\ x % FULL \in Nat
    BY <1>3, CoinSizes, Quotients
  <1>16. PICK turned \in Nat : turned = x + k - 1
    <2>1. x + k - 1 \in Nat
      BY <1>15, CoinSizes
    <2> QED BY <2>1
  <1>17. PICK zero \in Int : zero = (turned - (IF k = 1 THEN 0 ELSE 1)) \div FULL
    <2>1. turned - (IF k = 1 THEN 0 ELSE 1) \in Nat
      BY <1>15, <1>16, CoinSizes
    <2>2. (turned - (IF k = 1 THEN 0 ELSE 1)) \div FULL \in Nat
      BY <2>1, CoinSizes, Quotients
    <2> QED BY <2>2
  <1>18. ZeroOf(sent[1].start, point) = zero
    BY <1>13, <1>14, <1>16, <1>17 DEF ZeroOf
  <1>19. angle \in Nat
    BY <1>11, <1>15, CoinSizes
  <1>20. PICK shown \in Int : shown = IF angle > FULL THEN angle - FULL ELSE angle
    <2>1. (IF angle > FULL THEN angle - FULL ELSE angle) \in Int
      BY <1>19, CoinSizes
    <2> QED BY <2>1
  <1>21. zero \in Nat /\ shown \in 0 .. FULL /\ turned = FULL * zero + shown
    BY <1>11, <1>15, <1>16, <1>17, <1>19, <1>20, AngleOfSample
  <1> QED BY <1>12, <1>14, <1>16, <1>18, <1>20, <1>21

\* A later point is one the LiDAR has turned further for.
LEMMA TurnGrows ==
    ASSUME NEW start \in Nat, NEW one, NEW two, one[1] \in Nat, two[1] \in Nat, one[1] >= 1,
           one[2] \in 1 .. SAMPLES, two[2] \in 1 .. SAMPLES,
           one[1] < two[1] \/ (one[1] = two[1] /\ one[2] < two[2])
    PROVE  /\ TurnOf(start, one) < TurnOf(start, two)
           /\ TurnOf(start, one) \in Nat
  <1>1. PICK a, b, i, j : a = one[1] - 1 /\ b = two[1] - 1 /\ i = one[2] /\ j = two[2]
    OBVIOUS
  <1>2. a \in Nat /\ b \in Nat /\ i \in 1 .. SAMPLES /\ j \in 1 .. SAMPLES
    BY <1>1
  <1>3. a < b \/ (a = b /\ i < j)
    BY <1>1
  <1>4. TurnOf(start, one) = start + SAMPLES * a + i - 1 /\ TurnOf(start, two) = start + SAMPLES * b + j - 1
    BY <1>1 DEF TurnOf
  <1>5. PICK u, v : u = SAMPLES * a /\ v = SAMPLES * b
    OBVIOUS
  <1>6. u \in Nat /\ v \in Nat
    BY <1>2, <1>5, CoinSizes, Times
  <1>7. CASE a < b
    <2>1. PICK d \in Nat : b = a + d /\ d >= 1
      <3>1. b - a \in Nat /\ b = a + (b - a) /\ b - a >= 1
        BY <1>2, <1>7
      <3> QED BY <3>1
    <2>2. PICK w : w = SAMPLES * d
      OBVIOUS
    <2>3. v = u + w /\ w \in Nat /\ w >= SAMPLES
      BY <1>2, <1>5, <2>1, <2>2, CoinSizes, Times
    <2> QED BY <1>2, <1>4, <1>5, <1>6, <2>3, CoinSizes
  <1>8. CASE a = b /\ i < j
    BY <1>2, <1>4, <1>5, <1>6, <1>8, CoinSizes
  <1> QED BY <1>3, <1>7, <1>8

\* A ring start is recognised by the angles of two points next to each other.
LEMMA RingStartBetween ==
    ASSUME CoinTypes, CoinControl, Angles(sent), WholeCoinRead, CoinsBehind, AngleKept, EmitCoinNode,
           CheckSumResult, nodes # <<>>
    PROVE  RingStartAt(sent[1].start, nodes[Len(nodes)], CoinNode)
  <1> SUFFICES ASSUME LastNode # NoPoint,
                      TurnOf(sent[1].start, CoinPoint) - TurnOf(sent[1].start, LastNode) < NEAR
               PROVE  CoinSync <=> ZeroOf(sent[1].start, LastNode) < ZeroOf(sent[1].start, CoinPoint)
    BY DEF RingStartAt, CoinNode, LastNode
  <1>1. PICK c : c = sent[1].start
    OBVIOUS
  <1>2. package_Sample_Index \in 0 .. SAMPLES - 1 /\ CoinPoint = <<Current, package_Sample_Index + 1>>
    BY CoinEmits
  <1>3. PICK one, two : one = LastNode /\ two = CoinPoint
    OBVIOUS
  <1>4. /\ SampleAngle \in 0 .. FULL /\ ZeroOf(c, two) \in Nat
        /\ TurnOf(c, two) = FULL * ZeroOf(c, two) + SampleAngle /\ TurnOf(c, two) \in Nat
    BY <1>1, <1>2, <1>3, AngleOfPoint
  <1>5. /\ got # <<>> /\ got[Len(got)] = one /\ angle_bak \in 0 .. FULL /\ ZeroOf(c, one) \in Nat
        /\ TurnOf(c, one) = FULL * ZeroOf(c, one) + angle_bak
    BY <1>1, <1>3 DEF AngleKept
  <1>6. Len(got) \in 1 .. Len(got)
    <2>1. got \in Seq(Points) /\ got # <<>>
      BY <1>5 DEF CoinTypes
    <2> QED BY <2>1, LenProperties, EmptySeq
  <1>7. /\ one[1] \in 1 .. Len(sent) /\ one[2] \in 1 .. SAMPLES
        /\ one[1] < Current \/ (one[1] = Current /\ one[2] <= package_Sample_Index)
    BY <1>5, <1>6 DEF CoinsBehind
  <1>8. c \in Nat /\ Current \in 1 .. Len(sent) /\ Len(sent) \in Nat
    <2>1. Current \in 1 .. Len(sent) /\ Len(sent) \in Nat /\ sent \in Seq(CoinKinds)
      BY LenProperties DEF WholeCoinRead, CoinTypes
    <2>2. 1 \in 1 .. Len(sent)
      BY <2>1
    <2>3. sent[1] \in CoinKinds
      BY <2>1, <2>2, ElementOfSeq
    <2> QED BY <1>1, <2>1, <2>3, CoinSizes DEF CoinKinds
  <1>9. TurnOf(c, one) < TurnOf(c, two) /\ TurnOf(c, one) \in Nat
    <2>1. PICK p, k : p = Current /\ k = package_Sample_Index
      OBVIOUS
    <2>2. two[1] = p /\ two[2] = k + 1 /\ k \in 0 .. SAMPLES - 1
      BY <1>2, <1>3, <2>1
    <2>3. /\ one[1] \in Nat /\ two[1] \in Nat /\ one[1] >= 1 /\ one[2] \in 1 .. SAMPLES
          /\ two[2] \in 1 .. SAMPLES
      BY <1>7, <1>8, <2>1, <2>2, CoinSizes
    <2>4. one[1] < two[1] \/ (one[1] = two[1] /\ one[2] < two[2])
      <3>1. one[1] < p \/ (one[1] = p /\ one[2] <= k)
        BY <1>7, <2>1
      <3>2. one[2] <= k => one[2] < k + 1
        BY <2>2, <2>3, CoinSizes
      <3> QED BY <2>2, <3>1, <3>2
    <2> QED BY <1>8, <2>3, <2>4, TurnGrows
  <1>10. PICK za \in Nat, zb \in Nat : za = ZeroOf(c, one) /\ zb = ZeroOf(c, two)
    BY <1>4, <1>5
  <1>11. PICK ta \in Nat, tb \in Nat : ta = TurnOf(c, one) /\ tb = TurnOf(c, two)
    BY <1>4, <1>9
  <1>12. PICK aa \in 0 .. FULL, ab \in 0 .. FULL : aa = angle_bak /\ ab = SampleAngle
    BY <1>4, <1>5
  <1>13. ta = FULL * za + aa /\ tb = FULL * zb + ab /\ ta < tb /\ tb - ta < NEAR
    BY <1>1, <1>3, <1>4, <1>5, <1>9, <1>10, <1>11, <1>12
  <1>14. aa > FULL - NEAR /\ ab < NEAR <=> za < zb
    BY <1>13, PastZero
  <1> QED BY <1>1, <1>3, <1>10, <1>12, <1>14 DEF CoinSync

\* What the nodes are behind a step.
LEMMA CoinNodesGrow ==
    ASSUME CoinTypes, CoinTypes', CoinControl, WholeCoinRead, version = M1CT_Coin_Plus, StreamNext
    PROVE  \/ /\ EmitCoinNode /\ sent' = sent /\ angle_bak' = SampleAngle
              /\ Len(nodes') = Len(nodes) + 1 /\ nodes'[Len(nodes) + 1] = CoinNode
              /\ \A i \in 1 .. Len(nodes) : nodes'[i] = nodes[i]
              /\ nodes' # <<>> /\ LastNode' = CoinPoint
           \/ /\ UNCHANGED <<nodes, got, angle_bak>>
              /\ nodes # <<>> => sent'[1].start = sent[1].start
  <1>1. CASE EmitCoinNode
    <2>1. /\ nodes' = Append(nodes, CoinNode) /\ CoinNode \in CoinNodes /\ sent' = sent
          /\ angle_bak' = SampleAngle
      BY <1>1, CoinEmits
    <2>2. nodes \in Seq(CoinNodes)
      BY DEF CoinTypes
    <2>3. PICK n : n = CoinNode
      OBVIOUS
    <2>4. /\ Len(nodes') = Len(nodes) + 1 /\ nodes'[Len(nodes) + 1] = n /\ Len(nodes) \in Nat
          /\ \A i \in 1 .. Len(nodes) : nodes'[i] = nodes[i]
      BY <2>1, <2>2, <2>3, AppendFacts, LenProperties
    <2>5. nodes' # <<>>
      BY <2>4
    <2>6. LastNode' = n.point /\ n.point = CoinPoint
      BY <2>3, <2>4 DEF LastNode, CoinNode
    <2> QED BY <1>1, <2>1, <2>3, <2>4, <2>5, <2>6
  <1>2. CASE CoinArrives
    <2>1. UNCHANGED <<nodes, got, angle_bak>>
      BY <1>2, CoinArrivalFacts DEF CoinControl, coinVars
    <2>2. nodes # <<>> => 1 \in 1 .. Len(sent)
      <3>1. nodes # <<>> => sent # <<>> /\ sent \in Seq(CoinKinds)
        BY DEF CoinControl, CoinTypes
      <3> QED BY <3>1, LenProperties, EmptySeq
    <2>3. 1 \in 1 .. Len(sent) => sent'[1] = sent[1]
      BY CoinSentStays
    <2> QED BY <2>1, <2>2, <2>3
  <1>3. CASE ReadCoinPayload
    BY <1>3 DEF ReadCoinPayload, lidarVars, historyVars, coinVars
  <1>4. CASE CoinQuietStep
    BY <1>4, CoinQuietFacts
  <1> QED BY <1>1, <1>2, <1>3, <1>4, CoinSteps

LEMMA AngleKeptNext ==
    ASSUME CoinTypes, CoinTypes', CoinControl, Angles(sent), WholeCoinRead, AngleKept,
           version = M1CT_Coin_Plus, StreamNext
    PROVE  AngleKept'
  <1>1. CASE nodes' = nodes /\ got' = got /\ angle_bak' = angle_bak /\
             (nodes # <<>> => sent'[1].start = sent[1].start)
    <2>1. LastNode' = LastNode
      BY <1>1 DEF LastNode
    <2>2. PICK c, d, l : c = sent[1].start /\ d = sent'[1].start /\ l = LastNode
      OBVIOUS
    <2>3. nodes # <<>> => c = d
      BY <1>1, <2>2
    <2>4. nodes # <<>> /\ l # NoPoint =>
            /\ got # <<>> /\ got[Len(got)] = l /\ angle_bak \in 0 .. FULL
            /\ ZeroOf(c, l) \in Nat /\ TurnOf(c, l) = FULL * ZeroOf(c, l) + angle_bak
      BY <2>2 DEF AngleKept
    <2>5. nodes' # <<>> /\ l # NoPoint =>
            /\ got' # <<>> /\ got'[Len(got')] = l /\ angle_bak' \in 0 .. FULL
            /\ ZeroOf(d, l) \in Nat /\ TurnOf(d, l) = FULL * ZeroOf(d, l) + angle_bak'
      BY <1>1, <2>3, <2>4
    <2> QED BY <2>1, <2>2, <2>5 DEF AngleKept
  <1>2. CASE /\ EmitCoinNode /\ sent' = sent /\ angle_bak' = SampleAngle
             /\ nodes' # <<>> /\ LastNode' = CoinPoint
    <2>1. CASE ~CheckSumResult
      <3>1. CoinPoint = NoPoint
        BY <1>2, <2>1, CoinEmits
      <3> QED BY <1>2, <3>1 DEF AngleKept
    <2>2. CASE CheckSumResult
      <3>1. /\ package_Sample_Index \in 0 .. SAMPLES - 1
            /\ CoinPoint = <<Current, package_Sample_Index + 1>>
            /\ CoinPoint \in Points /\ got' = Append(got, CoinPoint)
        BY <1>2, <2>2, CoinEmits
      <3>2. PICK point : point = CoinPoint
        OBVIOUS
      <3>3. got' # <<>> /\ got'[Len(got')] = point
        <4>1. got \in Seq(Points) /\ point \in Points /\ got' = Append(got, point)
          BY <3>1, <3>2 DEF CoinTypes
        <4>2. Len(got') = Len(got) + 1 /\ got'[Len(got) + 1] = point /\ Len(got) \in Nat
          BY <4>1, AppendFacts, LenProperties
        <4> QED BY <4>2
      <3>4. PICK c, a : c = sent[1].start /\ a = SampleAngle
        OBVIOUS
      <3>5. a \in 0 .. FULL /\ ZeroOf(c, point) \in Nat /\ TurnOf(c, point) = FULL * ZeroOf(c, point) + a
        BY <2>2, <3>1, <3>2, <3>4, AngleOfPoint
      <3>6. LastNode' = point /\ angle_bak' = a /\ sent'[1].start = c
        BY <1>2, <3>2, <3>4
      <3> QED BY <3>3, <3>5, <3>6 DEF AngleKept
    <2> QED BY <2>1, <2>2
  <1> QED BY <1>1, <1>2, CoinNodesGrow

LEMMA PastZeroNext ==
    ASSUME CoinTypes, CoinTypes', CoinControl, Angles(sent), WholeCoinRead, CoinsBehind, AngleKept,
           RingStartIsPastZero, version = M1CT_Coin_Plus, StreamNext
    PROVE  RingStartIsPastZero'
  <1>1. \A i \in 1 .. Len(nodes) - 1 : RingStartAt(sent[1].start, nodes[i], nodes[i + 1])
    BY RingStartsAre
  <1>2. \A i \in 1 .. Len(nodes') - 1 : RingStartAt(sent'[1].start, nodes'[i], nodes'[i + 1])
    <2>1. PICK c, d : c = sent[1].start /\ d = sent'[1].start
      OBVIOUS
    <2>2. PICK n \in Nat : n = Len(nodes)
      BY LenProperties DEF CoinTypes
    <2>3. CASE nodes' = nodes /\ (nodes # <<>> => sent'[1].start = sent[1].start)
      <3> SUFFICES ASSUME NEW i \in 1 .. n - 1 PROVE RingStartAt(d, nodes[i], nodes[i + 1])
        BY <2>1, <2>2, <2>3
      <3>1. nodes # <<>>
        BY <2>2
      <3> QED BY <1>1, <2>1, <2>2, <2>3, <3>1
    <2>4. CASE /\ EmitCoinNode /\ sent' = sent
               /\ Len(nodes') = Len(nodes) + 1 /\ nodes'[Len(nodes) + 1] = CoinNode
               /\ \A i \in 1 .. Len(nodes) : nodes'[i] = nodes[i]
      <3>1. PICK m : m = nodes'
        OBVIOUS
      <3>2. Len(m) = n + 1 /\ m[n + 1] = CoinNode /\ \A i \in 1 .. n : m[i] = nodes[i]
        BY <2>2, <2>4, <3>1
      <3> SUFFICES ASSUME NEW i \in 1 .. n PROVE RingStartAt(c, m[i], m[i + 1])
        BY <2>1, <2>2, <2>4, <3>1, <3>2
      <3>3. CASE i # n
        <4>1. i \in 1 .. n - 1 /\ i + 1 \in 1 .. n
          BY <2>2, <3>3
        <4> QED BY <1>1, <2>1, <2>2, <3>2, <4>1
      <3>4. CASE i = n
        <4>1. m[i] = nodes[n] /\ m[i + 1] = CoinNode /\ nodes # <<>>
          BY <2>2, <3>2, <3>4
        <4>2. CASE CheckSumResult
          BY <2>1, <2>2, <2>4, <4>1, <4>2, RingStartBetween
        <4>3. CASE ~CheckSumResult
          <5>1. CoinPoint = NoPoint
            BY <2>4, <4>3, CoinEmits
          <5> QED BY <4>1, <5>1 DEF RingStartAt, CoinNode
        <4> QED BY <4>2, <4>3
      <3> QED BY <3>3, <3>4
    <2> QED BY <2>3, <2>4, CoinNodesGrow
  <1> QED BY <1>2 DEF RingStartIsPastZero, RingStartAt, TurnOf, ZeroOf, Turned

\* A package delivered stays so; of one the parser reads one sample more is.
LEMMA DeliveredStays ==
    ASSUME CoinTypes, CoinTypes', CoinControl, WholeCoinRead, version = M1CT_Coin_Plus, StreamNext,
           NEW p, CoinDelivered(p)
    PROVE  CoinDelivered(p)'
  <1>0. got \in Seq(Points) /\ DOMAIN got = 1 .. Len(got) /\ got' \in Seq(Points) /\ DOMAIN got' = 1 .. Len(got')
    BY LenProperties DEF CoinTypes
  <1>1. Range(got) \subseteq Range(got')
    <2>1. /\ Len(got) \in Nat
          /\ got' = got \/ (Len(got') = Len(got) + 1 /\ \A i \in 1 .. Len(got) : got'[i] = got[i])
      BY CoinReports
    <2>2. CASE got' = got
      BY <2>2
    <2>3. CASE Len(got') = Len(got) + 1 /\ \A i \in 1 .. Len(got) : got'[i] = got[i]
      <3> SUFFICES ASSUME NEW i \in 1 .. Len(got) PROVE got[i] \in Range(got')
        BY <1>0 DEF Range
      <3>1. i \in 1 .. Len(got') /\ got'[i] = got[i]
        BY <2>1, <2>3
      <3> QED BY <1>0, <3>1 DEF Range
    <2> QED BY <2>1, <2>2, <2>3
  <1>2. CASE Delivered(p)
    BY <1>1, <1>2 DEF CoinDelivered, Delivered
  <1>3. CASE CheckSumResult /\ Current = p /\ \A i \in 1 .. package_Sample_Index : <<p, i>> \in Range(got)
    <2>1. CASE UNCHANGED <<package, CheckSumResult, package_Sample_Index>>
      BY <1>1, <1>3, <2>1 DEF CoinDelivered, Current
    <2>2. CASE EmitCoinNode
      <3>1. PICK k : k = package_Sample_Index + 1
        OBVIOUS
      <3>2. /\ package_Sample_Index \in 0 .. SAMPLES - 1 /\ package' = package
            /\ IF k = SAMPLES THEN package_Sample_Index' = 0 /\ CheckSumResult' = FALSE
               ELSE package_Sample_Index' = k /\ CheckSumResult' = CheckSumResult
        BY <2>2, <3>1, CoinEmits
      <3>3. <<p, k>> \in Range(got')
        <4>1. got' = Append(got, <<p, k>>) /\ <<p, k>> \in Points
          BY <1>3, <2>2, <3>1, CoinEmits
        <4>2. got'[Len(got) + 1] = <<p, k>> /\ Len(got') = Len(got) + 1 /\ Len(got) \in Nat
          BY <1>0, <4>1, AppendFacts, LenProperties
        <4>3. Len(got) + 1 \in 1 .. Len(got')
          BY <4>2
        <4> QED BY <1>0, <4>2, <4>3 DEF Range
      <3>4. ASSUME NEW i \in 1 .. k PROVE <<p, i>> \in Range(got')
        <4>1. i = k \/ i \in 1 .. package_Sample_Index
          BY <3>1, <3>2, CoinSizes
        <4> QED BY <1>1, <1>3, <3>3, <4>1
      <3>5. CASE k = SAMPLES
        BY <3>4, <3>5 DEF CoinDelivered, Delivered
      <3>6. CASE k # SAMPLES
        <4>1. package_Sample_Index' = k /\ CheckSumResult' = CheckSumResult /\ package' = package
          BY <3>2, <3>6
        <4>2. Current' = p /\ CheckSumResult'
          BY <1>3, <4>1 DEF Current
        <4> QED BY <3>4, <4>1, <4>2 DEF CoinDelivered
      <3> QED BY <3>5, <3>6
    <2>3. CASE ReadCoinPayload
      <3>1. at = "payload"
        BY <2>3 DEF ReadCoinPayload
      <3>2. package_Sample_Index = 0 /\ Reading
        BY <1>3, <3>1 DEF CoinControl
      <3> QED BY <3>1, <3>2 DEF Reading
    <2>4. CASE CoinArrives
      <3>1. UNCHANGED <<package, CheckSumResult, package_Sample_Index>>
        BY <2>4, CoinArrivalFacts DEF CoinControl, parserVars
      <3> QED BY <2>1, <3>1
    <2>5. CASE CoinQuietStep
      <3>1. UNCHANGED <<package, CheckSumResult, package_Sample_Index>>
        BY <2>5, CoinQuietFacts
      <3> QED BY <2>1, <3>1
    <2> QED BY <2>2, <2>3, <2>4, <2>5, CoinSteps
  <1> QED BY <1>2, <1>3 DEF CoinDelivered

LEMMA MetByShift ==
    ASSUME NEW n, NEW j \in 1 .. Len(Stream), NEW p, ComesFrom(Stream[j], p, 1), Len(Stream) \in Nat,
           Dropped(Stream, Stream', n), j > n, header' = <<>>
    PROVE  CoinMet(p)'
  <1>1. PICK s, t : s = Stream /\ t = Stream'
    OBVIOUS
  <1>2. PICK L \in Nat, M \in Nat : L = Len(s) /\ M = Len(t) /\ n \in Nat /\ M = L - n
    BY <1>1 DEF Dropped
  <1>3. PICK k : k = j - n
    OBVIOUS
  <1>4. k \in 1 .. M /\ k + n = j /\ k \in 1 .. L - n
    BY <1>1, <1>2, <1>3
  <1>5. t[k] = s[k + n]
    BY <1>1, <1>2, <1>4 DEF Dropped
  <1>6. ComesFrom(t[k], p, 1)
    BY <1>1, <1>4, <1>5
  <1>7. ~(k <= Len(header'))
    BY <1>2, <1>4
  <1> QED BY <1>1, <1>2, <1>4, <1>6, <1>7 DEF CoinMet

\* A package that begins where the search begins is read as a whole.
LEMMA ReadsWhole ==
    ASSUME CoinTypes, CoinControl, CoinLies(Stream, sent, harmed), Angles(sent), ReadCoinPayload,
           NEW p, p \notin harmed, ComesFrom(Stream[1], p, 1)
    PROVE  CoinDelivered(p)'
  <1>1. /\ Stream \in Seq(Bytes) /\ Len(Stream) \in Nat /\ CoinSize + 2 <= Len(Stream) /\ sent \in Seq(CoinKinds)
        /\ CheckSumResult' <=> \A i \in 1 .. CoinSize : /\ Stream[i].package = Stream[1].package
                                                        /\ Stream[i].place = i /\ ~Stream[i].altered
    BY CoinStreamFacts, CoinPayloadRead DEF CoinTypes
  <1>2. Len(Stream) >= 1
    BY <1>1, CoinSizes
  <1>3. \A k \in 1 .. CoinSize : ComesFrom(Stream[k], p, k) /\ ~Stream[k].altered
    BY <1>1, <1>2, WholeCoin
  <1>4. CheckSumResult'
    BY <1>1, <1>3 DEF ComesFrom
  <1>5. Current' = p
    BY <1>4, FitsIsWhole DEF Current, ComesFrom
  <1>6. package_Sample_Index' = 0
    BY DEF ReadCoinPayload, CoinControl
  <1>7. \A i \in 1 .. package_Sample_Index' : <<p, i>> \in Range(got')
    BY <1>6
  <1> QED BY <1>4, <1>5, <1>7 DEF CoinDelivered

\* The first byte of a package that lies ahead of the parser, where nothing
\* happened to the package before: the parser does not run over it, but for
\* the package before.
LEMMA MetStays ==
    ASSUME CoinTypes, CoinTypes', CoinControl, CoinLies(Stream, sent, harmed), Angles(sent),
           version = M1CT_Coin_Plus, StreamNext,
           NEW p \in 1 .. Len(sent), p \notin harmed', harmed \subseteq harmed',
           p > 1 => p - 1 \notin harmed /\ QuietKind(sent[p - 1]), CoinMet(p)
    PROVE  CoinMet(p)' \/ CoinDelivered(p)' \/ (p > 1 /\ CoinDelivered(p - 1)')
  <1>0. /\ Stream \in Seq(Bytes) /\ Len(Stream) \in Nat /\ sent \in Seq(CoinKinds) /\ Len(sent) \in Nat
        /\ Len(header) \in Nat /\ Len(header) <= PackagePaidBytes /\ Len(header) <= Len(Stream)
        /\ \A i \in 1 .. Len(header) : Stream[i] = header[i]
        /\ \A i \in 1 .. Len(header) : i <= 4 => Stream[i].value = CoinHead[i]
        /\ p \notin harmed
    BY CoinStreamFacts, LenProperties DEF CoinTypes, CoinControl
  <1>1. PICK j \in 1 .. Len(Stream) : ComesFrom(Stream[j], p, 1) /\ (j <= Len(header) => j = 1)
    BY DEF CoinMet
  <1>2. CASE Stream' = Stream /\ header' = header
    BY <1>1, <1>2 DEF CoinMet
  <1>3. CASE CoinArrives
    <2>1. PICK b \in Seq(Bytes) : Stream' = Stream \o b
      BY <1>3, CoinArrivalStream
    <2>2. header' = header
      BY <1>3, CoinArrivalFacts DEF CoinControl, parserVars
    <2>3. PICK s, t : s = Stream /\ t = Stream'
      OBVIOUS
    <2>4. s \in Seq(Bytes) /\ t = s \o b /\ j \in 1 .. Len(s)
      BY <1>0, <1>1, <2>1, <2>3
    <2>5. Len(t) = Len(s) + Len(b) /\ Len(s) \in Nat /\ Len(b) \in Nat /\ \A i \in 1 .. Len(s) : t[i] = s[i]
      <3>1. Len(t) = Len(s) + Len(b) /\ Len(s) \in Nat /\ Len(b) \in Nat
            /\ \A i \in 1 .. Len(s) + Len(b) : t[i] = IF i <= Len(s) THEN s[i] ELSE b[i - Len(s)]
        BY <2>4, ConcatProperties, LenProperties
      <3> QED BY <3>1
    <2>6. j \in 1 .. Len(t) /\ t[j] = s[j]
      BY <2>4, <2>5
    <2> QED BY <1>1, <2>2, <2>3, <2>6 DEF CoinMet
  <1>4. CASE EmitCoinNode
    BY <1>2, <1>4 DEF EmitCoinNode, Stream
  <1>5. CASE ReadCoinPayload
    <2>1. /\ header' = <<>> /\ CoinSize + 2 <= Len(Stream) /\ Dropped(Stream, Stream', CoinSize + 2)
          /\ Len(header) = 10
      BY <1>5, CoinPayloadRead
    <2>2. j = 1 \/ j \in 11 .. CoinSize + 2 \/ j > CoinSize + 2
      BY <1>1, <2>1, CoinSizes
    <2>3. CASE j = 1
      BY <1>0, <1>1, <1>5, <2>3, ReadsWhole
    <2>4. CASE j \in 11 .. CoinSize + 2
      <3>1. \A k \in 1 .. 4 : Stream[k].value = CoinHead[k]
        BY <1>0, <2>1
      <3>2. p > 1 /\ ComesFrom(Stream[1], p - 1, 1)
        BY <1>0, <1>1, <2>1, <2>4, <3>1, OverlooksOne
      <3>3. PICK q : q = p - 1
        OBVIOUS
      <3>4. q \notin harmed /\ ComesFrom(Stream[1], q, 1)
        BY <3>2, <3>3
      <3>5. CoinDelivered(q)'
        BY <1>5, <3>4, ReadsWhole
      <3> QED BY <3>2, <3>3, <3>5
    <2>5. CASE j > CoinSize + 2
      BY <1>0, <1>1, <2>1, <2>5, MetByShift
    <2> QED BY <2>2, <2>3, <2>4, <2>5
  <1>6. CASE ReadHeader
    BY <1>2, <1>6, CoinReadsHeader
  <1>7. CASE ParseCoinHeader
    <2>1. PICK h \in Nat : h = Len(header) /\ h < PackagePaidBytes /\ h + 1 <= Len(Stream)
      BY <1>7, CoinParses
    <2>2. j = h + 1 => h = 0
      <3> SUFFICES ASSUME j = h + 1, h # 0 PROVE FALSE
        OBVIOUS
      <3>1. h \in 1 .. 9
        <4>1. h < 10
          BY <2>1 DEF PackagePaidBytes
        <4> QED BY <4>1
      <3>2. \A k \in 1 .. h : k <= 4 => Stream[k].value = CoinHead[k]
        BY <1>0, <2>1
      <3>3. ComesFrom(Stream[h + 1], p, 1)
        BY <1>1
      <3> QED BY <1>0, <2>1, <3>1, <3>2, <3>3, SearchMeetsFirst
    <2>3. j <= h => j = 1
      BY <1>1, <2>1
    <2>4. j <= h + 1 => j = 1
      BY <1>0, <1>1, <2>1, <2>2, <2>3
    <2>5. CASE Len(header') = h + 1 /\ Stream' = Stream
      BY <1>1, <2>4, <2>5 DEF CoinMet
    <2>6. CASE /\ h < 4 /\ Stream[h + 1].value # CoinHead[h + 1]
               /\ header' = <<>> /\ Dropped(Stream, Stream', h + 1)
      <3>1. CASE j = 1
        <4>1. ComesFrom(Stream[1], p, 1) /\ Len(Stream) >= 1
          BY <1>1, <2>1, <3>1
        <4>2. sent[p] \in CoinKinds /\ \A k \in 1 .. CoinSize : Stream[k].value = CoinByteAt(sent[p], k)
          BY <1>0, <4>1, WholeCoin
        <4>3. h + 1 \in 1 .. 4 /\ h + 1 \in 1 .. CoinSize
          BY <2>1, <2>6, CoinSizes
        <4>4. CoinByteAt(sent[p], h + 1) = CoinHead[h + 1]
          BY <4>2, <4>3, CoinByteFacts
        <4> QED BY <2>6, <4>2, <4>3, <4>4
      <3>2. CASE j # 1
        <4>1. j > h + 1
          BY <1>1, <2>1, <2>4, <3>2
        <4> QED BY <1>0, <1>1, <2>6, <4>1, MetByShift
      <3> QED BY <3>1, <3>2
    <2>7. \/ Len(header') = h + 1 /\ Stream' = Stream
          \/ /\ h < 4 /\ Stream[h + 1].value # CoinHead[h + 1]
             /\ header' = <<>> /\ Dropped(Stream, Stream', h + 1)
      BY <1>7, <2>1, CoinParses
    <2> QED BY <2>5, <2>6, <2>7
  <1>8. CASE WaitTimesOut
    <2>1. /\ header' = <<>> /\ Dropped(Stream, Stream', Len(header))
          /\ \A i \in 1 .. Len(header) : Stream[i].package \in harmed'
      BY <1>8, CoinWaitTimesOut
    <2>2. Stream[j].package = p
      BY <1>1 DEF ComesFrom
    <2>3. ~(j \in 1 .. Len(header))
      BY <2>1, <2>2
    <2>4. j > Len(header)
      BY <1>0, <1>1, <2>3
    <2> QED BY <1>0, <1>1, <2>1, <2>4, MetByShift
  <1>9. CASE Flush
    BY <1>1, <1>9, CoinFlushes DEF ComesFrom
  <1>10. CASE CoinCollect \/ CallTimesOut \/ Listen
    <2>1. Stream' = Stream /\ header' = header
      BY <1>10 DEF CoinCollect, CallTimesOut, Listen, parserVars, Stream
    <2> QED BY <1>2, <2>1
  <1> QED BY <1>3, <1>4, <1>5, <1>6, <1>7, <1>8, <1>9, <1>10, CoinSteps DEF CoinQuietStep

LEMMA OneOfTwoNext ==
    ASSUME CoinTypes, CoinTypes', CoinControl, CoinLies(Stream, sent, harmed), Angles(sent), WholeCoinRead,
           OneOfTwo, version = M1CT_Coin_Plus, StreamNext
    PROVE  OneOfTwo'
  <1> SUFFICES ASSUME NEW p \in 1 .. Len(sent'), Behind(sent', harmed', p)
               PROVE  CoinMet(p)' \/ CoinDelivered(p)' \/ (p > 1 /\ CoinDelivered(p - 1)')
    BY DEF OneOfTwo
  <1>1. /\ Len(sent) \in Nat /\ Len(sent') \in Nat /\ Len(sent) <= Len(sent')
        /\ \A q \in 1 .. Len(sent) : q \in 1 .. Len(sent') /\ sent'[q] = sent[q]
        /\ harmed \subseteq harmed'
    BY CoinSentStays
  <1>2. CASE p \in 1 .. Len(sent)
    <2>1. p > 1 => p - 1 \in 1 .. Len(sent)
      BY <1>1, <1>2
    <2>2. p > 1 => p - 1 \notin harmed /\ QuietKind(sent[p - 1])
      BY <1>1, <2>1 DEF Behind
    <2>3. p \notin harmed' /\ p \notin harmed
      BY <1>1 DEF Behind
    <2>4. CoinMet(p) \/ CoinDelivered(p) \/ (p > 1 /\ CoinDelivered(p - 1))
      BY <1>2, <2>2, <2>3 DEF OneOfTwo, Behind
    <2>5. CASE CoinMet(p)
      BY <1>1, <1>2, <2>2, <2>3, <2>5, MetStays
    <2>6. CASE CoinDelivered(p)
      BY <2>6, DeliveredStays
    <2>7. CASE p > 1 /\ CoinDelivered(p - 1)
      <3>1. PICK q : q = p - 1
        OBVIOUS
      <3>2. CoinDelivered(q)'
        BY <2>7, <3>1, DeliveredStays
      <3> QED BY <2>7, <3>1, <3>2
    <2> QED BY <2>4, <2>5, <2>6, <2>7
  <1>3. CASE p \notin 1 .. Len(sent)
    <2>1. CoinArrives
      <3>1. sent' # sent
        BY <1>3
      <3> QED BY <3>1, CoinEmits, CoinQuietFacts, CoinSteps DEF ReadCoinPayload, lidarVars
    <2>2. PICK kind \in CoinKinds, b \in Seq(Bytes) :
             /\ Stream' = Stream \o b /\ Len(sent') = Len(sent) + 1
             /\ Block(b, Len(sent) + 1, kind, harmed')
      BY <2>1, CoinArrivalStream
    <2>3. p = Len(sent) + 1
      BY <1>1, <1>3, <2>2
    <2>4. Block(b, p, kind, harmed') /\ p \notin harmed'
      BY <2>2, <2>3 DEF Behind
    <2>5. Len(b) = CoinSize /\ b[1].place = 1 /\ b[1].package = p
      BY <2>4, CoinSizes DEF Block
    <2>6. header' = header
      BY <2>1, CoinArrivalFacts DEF CoinControl, parserVars
    <2>7. PICK s, t : s = Stream /\ t = Stream'
      OBVIOUS
    <2>8. s \in Seq(Bytes) /\ t = s \o b /\ Len(header) \in Nat /\ Len(header) <= Len(s)
      BY <2>2, <2>7, CoinStreamFacts
    <2>9. PICK j : j = Len(s) + 1
      OBVIOUS
    <2>10. j \in 1 .. Len(t) /\ t[j] = b[1] /\ ~(j <= Len(header))
      <3>1. Len(t) = Len(s) + Len(b) /\ Len(s) \in Nat /\ Len(b) \in Nat
            /\ \A i \in 1 .. Len(s) + Len(b) : t[i] = IF i <= Len(s) THEN s[i] ELSE b[i - Len(s)]
        BY <2>8, ConcatProperties, LenProperties
      <3>2. j \in 1 .. Len(s) + Len(b) /\ ~(j <= Len(s)) /\ j - Len(s) = 1
        BY <2>5, <2>9, <3>1, CoinSizes
      <3>3. t[j] = b[1]
        BY <3>1, <3>2
      <3> QED BY <2>8, <2>9, <3>1, <3>2, <3>3
    <2>11. ComesFrom(t[j], p, 1)
      BY <2>5, <2>10 DEF ComesFrom
    <2> QED BY <2>6, <2>7, <2>10, <2>11 DEF CoinMet
  <1> QED BY <1>2, <1>3
-----------------------------------------------------------------------------
(* waitPackage_coin: the theorems.                                         *)

Coin == version = M1CT_Coin_Plus

LEMMA InitCoinInv == StreamInit /\ Coin => CoinInv
  <1> SUFFICES ASSUME StreamInit, Coin PROVE CoinInv
    OBVIOUS
  <1>0. /\ sent = <<>> /\ line = <<>> /\ at = "judge" /\ globalRecvBuffer = <<>> /\ header = <<>>
        /\ package = [ring |-> FALSE, samples |-> 0, payload |-> <<>>]
        /\ CheckSumResult = FALSE /\ package_Sample_Index = 0
        /\ local_buf = <<>> /\ local_scan = <<>>
        /\ scan = [nodes |-> <<>>, start |-> 0, end |-> 0, closedBy |-> 0]
        /\ harmed = {} /\ searched = {} /\ got = <<>> /\ mishaps = 0 /\ nodes = <<>>
    BY DEF StreamInit, Init
  <1>1. Stream = <<>>
    BY <1>0 DEF Stream
  <1>2. \A S : <<>> \in Seq(S) /\ Len(<<>>) = 0 /\ 1 .. Len(<<>>) = {}
    OBVIOUS
  <1>3. CoinTypes
    BY <1>0, <1>2 DEF CoinTypes
  <1>4. CoinIdle
    BY <1>0 DEF CoinIdle
  <1>5. CoinControl
    <2>1. MAX_MISHAPS \in Nat /\ BATCH \in Nat /\ 0 < BATCH
      BY StreamAssumption
    <2>2. ~Reading
      BY <1>0 DEF Reading
    <2> QED BY <1>0, <1>2, <2>1, <2>2 DEF CoinControl, PackagePaidBytes, PackageSampleBytes
  <1>6. Angles(sent)
    BY <1>0, <1>2 DEF Angles
  <1>7. CoinLies(Stream, sent, harmed)
    <2>1. ASSUME NEW k \in 1 .. CoinSize, k <= Len(Stream) PROVE FALSE
      BY <1>1, <2>1, CoinSizes
    <2> QED BY <1>0, <1>1, <1>2, <2>1 DEF CoinLies, CoinOrigins, CoinForward, CoinBackward, CoinEnd
  <1>8. WholeCoinRead /\ AngleKept
    BY <1>0 DEF WholeCoinRead, AngleKept
  <1>9. CoinsBehind /\ PointsInOrder /\ OneOfTwo /\ RingStartIsPastZero
    BY <1>0, <1>2 DEF CoinsBehind, PointsInOrder, OneOfTwo, RingStartIsPastZero
  <1> QED BY <1>3, <1>4, <1>5, <1>6, <1>7, <1>8, <1>9 DEF CoinInv

LEMMA NextCoinInv == CoinInv /\ Coin /\ [StreamNext]_allVars => CoinInv' /\ Coin'
  <1> SUFFICES ASSUME CoinInv, Coin, [StreamNext]_allVars PROVE CoinInv' /\ Coin'
    OBVIOUS
  <1>0. /\ CoinTypes /\ CoinIdle /\ CoinControl /\ Angles(sent) /\ CoinLies(Stream, sent, harmed)
        /\ WholeCoinRead /\ CoinsBehind /\ PointsInOrder /\ AngleKept /\ RingStartIsPastZero /\ OneOfTwo
    BY DEF CoinInv
  <1>1. CASE StreamNext
    <2>1. version = M1CT_Coin_Plus
      BY DEF Coin
    <2>2. Coin'
      <3>1. CASE CoinArrives
        BY <2>1, <3>1 DEF CoinArrives, coinVars, Coin
      <3>2. CASE ReadCoinPayload \/ EmitCoinNode \/ CoinQuietStep
        BY <2>1, <3>2 DEF ReadCoinPayload, EmitCoinNode, CoinQuietStep, CoinCollect, ParseCoinHeader, coinVars, Coin
      <3> QED BY <1>1, <2>1, <3>1, <3>2, CoinSteps
    <2>3. CoinTypes'
      BY <1>0, <1>1, <2>1, CoinTypesNext
    <2>4. CoinIdle'
      BY <1>0, <1>1, <2>1, CoinIdleNext
    <2>5. CoinControl'
      BY <1>0, <1>1, <2>1, <2>3, CoinControlNext
    <2>6. Angles(sent')
      BY <1>0, <1>1, <2>1, AnglesNext
    <2>7. CoinLies(Stream', sent', harmed')
      BY <1>0, <1>1, <2>1, <2>3, CoinLiesNext
    <2>8. WholeCoinRead'
      BY <1>0, <1>1, <2>1, <2>3, WholeCoinReadNext
    <2>9. CoinsBehind'
      BY <1>0, <1>1, <2>1, <2>3, CoinsBehindNext
    <2>10. PointsInOrder'
      BY <1>0, <1>1, <2>1, <2>3, CoinPointsInOrderNext
    <2>11. AngleKept'
      BY <1>0, <1>1, <2>1, <2>3, AngleKeptNext
    <2>12. RingStartIsPastZero'
      BY <1>0, <1>1, <2>1, <2>3, PastZeroNext
    <2>13. OneOfTwo'
      BY <1>0, <1>1, <2>1, <2>3, OneOfTwoNext
    <2> QED BY <2>2, <2>3, <2>4, <2>5, <2>6, <2>7, <2>8, <2>9, <2>10, <2>11, <2>12, <2>13 DEF CoinInv
  <1>2. CASE UNCHANGED allVars
    <2>1. /\ UNCHANGED <<sent, line, at, globalRecvBuffer, header, package, CheckSumResult>>
          /\ UNCHANGED <<package_Sample_Index, local_buf, local_scan, scan, harmed, searched, got, mishaps>>
          /\ UNCHANGED <<version, angle_bak, nodes>>
      BY <1>2 DEF allVars, coinVars, vars, lidarVars, parserVars, scanVars, historyVars
    <2>2. Stream' = Stream
      BY <2>1 DEF Stream
    <2>3. CoinTypes' /\ CoinIdle' /\ Coin'
      BY <1>0, <2>1 DEF CoinTypes, CoinIdle, Coin
    <2>4. CoinControl'
      BY <1>0, <2>1 DEF CoinControl, Reading
    <2>5. Angles(sent') /\ CoinLies(Stream', sent', harmed')
      BY <1>0, <2>1, <2>2
    <2>6. Current' = Current /\ LastNode' = LastNode
      BY <2>1 DEF Current, LastNode
    <2>7. WholeCoinRead' /\ CoinsBehind' /\ PointsInOrder' /\ AngleKept'
      BY <1>0, <2>1, <2>2, <2>6 DEF WholeCoinRead, CoinsBehind, PointsInOrder, AngleKept
    <2>8. RingStartIsPastZero'
      BY <1>0, <2>1 DEF RingStartIsPastZero, Turned
    <2>9. OneOfTwo'
      BY <1>0, <2>1, <2>2, <2>6 DEF OneOfTwo, CoinMet, CoinDelivered, Delivered
    <2> QED BY <2>3, <2>4, <2>5, <2>7, <2>8, <2>9 DEF CoinInv
  <1> QED BY <1>1, <1>2

LEMMA CoinInvHolds == StreamSpec /\ Coin => []CoinInv
  <1>1. StreamInit /\ Coin => CoinInv
    BY InitCoinInv
  <1>2. CoinInv /\ Coin /\ [StreamNext]_allVars => CoinInv' /\ Coin'
    BY NextCoinInv
  <1> QED BY <1>1, <1>2, PTL DEF StreamSpec

LEMMA OthersReadPackages == StreamSpec /\ ~Coin => Spec
  BY OtherVersionsReadPackages DEF Coin

\* For the other versions waitPackage_coin does nothing.
LEMMA OthersHaveNoCoins == StreamSpec /\ ~Coin => [](~Coin /\ nodes = <<>>)
  <1>1. StreamInit => nodes = <<>>
    BY DEF StreamInit
  <1>2. ~Coin /\ nodes = <<>> /\ [StreamNext]_allVars => ~Coin' /\ (nodes = <<>>)'
    <2> SUFFICES ASSUME ~Coin, nodes = <<>>, [StreamNext]_allVars PROVE ~Coin' /\ nodes' = <<>>
      OBVIOUS
    <2>1. CASE StreamNext
      BY <2>1 DEF StreamNext, WaitPackage, WaitPackageCoin, coinVars, Coin
    <2>2. CASE UNCHANGED allVars
      BY <2>2 DEF allVars, coinVars, Coin
    <2> QED BY <2>1, <2>2
  <1> QED BY <1>1, <1>2, PTL DEF StreamSpec

\* Whichever parser waitScanData picks, its variables and read_forever's are
\* what they should be: no header is longer than what is read at once, no batch
\* longer than its buffer, no sample index past the package's samples although
\* the parsers share it, and every point reported was sent.
THEOREM BothParsersTypes == StreamSpec => []TypeOK
  <1>1. CoinInv => TypeOK
    <2> SUFFICES ASSUME CoinInv PROVE TypeOK
      OBVIOUS
    <2>1. CoinTypes /\ CoinIdle /\ CoinControl /\ CoinsBehind
      BY DEF CoinInv
    <2>2. ASSUME NEW i \in DOMAIN got
          PROVE  got[i][1] \in DOMAIN sent /\ got[i][2] \in DOMAIN sent[got[i][1]].samples
      <3>1. i \in 1 .. Len(got) /\ DOMAIN sent = 1 .. Len(sent)
        BY <2>1 DEF CoinTypes
      <3>2. PICK p, k : p = got[i][1] /\ k = got[i][2]
        OBVIOUS
      <3>3. p \in 1 .. Len(sent) /\ k \in 1 .. SAMPLES
        BY <2>1, <3>1, <3>2 DEF CoinsBehind
      <3>4. sent[p] \in CoinKinds
        BY <2>1, <3>3, ElementOfSeq DEF CoinTypes
      <3>5. sent[p].samples \in Seq(Samples) /\ Len(sent[p].samples) = SAMPLES
        BY <3>4, CoinAssumption DEF CoinKinds
      <3>6. DOMAIN sent[p].samples = 1 .. SAMPLES
        BY <3>5
      <3> QED BY <3>1, <3>2, <3>3, <3>6
    <2>3. CheckSumResult => at \notin {"header", "parse", "payload"}
      BY <2>1 DEF CoinControl, CoinTypes, Reading
    <2>4. Len(local_scan) < LOCAL_SCAN
      <3>1. Len(local_scan) = 0
        BY <2>1 DEF CoinIdle
      <3>2. LOCAL_SCAN \in Nat /\ 0 < LOCAL_SCAN
        BY StreamAssumption
      <3> QED BY <3>1, <3>2
    <2>5. at \in {"judge", "header", "parse", "payload", "node", "collect"}
          /\ harmed \union searched \subseteq 1 .. Len(sent)
      BY <2>1 DEF CoinTypes, CoinIdle
    <2> QED BY <2>1, <2>2, <2>3, <2>4, <2>5 DEF TypeOK, CoinControl
  <1> QED BY <1>1, StreamTypes, OthersReadPackages, CoinInvHolds, PTL

\* Whichever parser waitScanData picks, it reports points in the order they were
\* sent and never twice, although waitPackage_coin reads two bytes too many and
\* takes its samples for whatever package the search stumbles upon.
THEOREM BothReportInOrder == StreamSpec => []PointsInOrder
  <1>1. CoinInv => PointsInOrder
    BY DEF CoinInv
  <1> QED BY <1>1, ReportedInOrder, OthersReadPackages, CoinInvHolds, PTL

\* The ring starts of an M1CT_Coin_Plus are where a revolution ends, for every
\* number of samples, every angle the LiDAR begins at and whatever is lost
\* between two nodes less than NEAR apart: comparing the angle of a node with
\* that of the one before (angle_bak) finds zero passed
\* exactly when it is.
THEOREM RingStartsArePastZero == StreamSpec => []RingStartIsPastZero
  <1>1. CoinInv => RingStartIsPastZero
    BY DEF CoinInv
  <1>2. nodes = <<>> => RingStartIsPastZero
    <2> SUFFICES ASSUME nodes = <<>> PROVE RingStartIsPastZero
      OBVIOUS
    <2>1. 1 .. Len(nodes) - 1 = {}
      OBVIOUS
    <2> QED BY <2>1 DEF RingStartIsPastZero
  <1> QED BY <1>1, <1>2, OthersHaveNoCoins, CoinInvHolds, PTL

\* Of two coin packages one behind the other in a stretch that arrived as sent,
\* one is delivered, for every number of samples and whatever the search for a
\* head took for one before: waitPackage_coin may lose every second one to
\* the two bytes it reads too many (PackagePaidBytes, where the struct has 8), but
\* never two in a row.
THEOREM OneOfTwoIsDelivered == StreamSpec => []EverySecondArrives
  <1>1. CoinInv => EverySecondArrives
    <2> SUFFICES ASSUME CoinInv, NEW p \in 1 .. Len(sent) - 2, at = "header",
                        \A q \in (p - 1 .. p + 2) \ {0} : q \notin harmed /\ CoinQuiet(q),
                        1 .. p + 1 \intersect PackagesOf(header \o globalRecvBuffer \o line) = {}
                 PROVE  Delivered(p) \/ Delivered(p + 1)
      BY DEF EverySecondArrives
    <2>1. CoinTypes /\ CoinControl /\ OneOfTwo
      BY DEF CoinInv
    <2>2. Len(sent) \in Nat /\ Stream \in Seq(Bytes)
      BY <2>1, LenProperties, CoinStreamFacts DEF CoinTypes
    <2>3. PICK r \in 1 .. Len(sent) : r = p + 1 /\ r - 1 = p /\ r > 1
      BY <2>2
    <2>4. p \notin harmed /\ r \notin harmed /\ CoinQuiet(p)
      BY <2>2, <2>3
    <2>5. Behind(sent, harmed, r)
      BY <2>3, <2>4 DEF Behind, QuietKind, CoinQuiet
    <2>6. ~CoinMet(r)
      <3> SUFFICES ASSUME NEW j \in 1 .. Len(Stream), ComesFrom(Stream[j], r, 1) PROVE FALSE
        BY DEF CoinMet
      <3>1. j \in DOMAIN Stream
        BY <2>2
      <3>2. r \in PackagesOf(Stream)
        BY <3>1 DEF ComesFrom, PackagesOf
      <3>3. r \in 1 .. p + 1
        BY <2>2, <2>3
      <3> QED BY <3>2, <3>3 DEF Stream
    <2>7. ~CheckSumResult
      BY <2>1 DEF CoinControl, Reading
    <2> QED BY <2>1, <2>3, <2>5, <2>6, <2>7 DEF OneOfTwo, CoinDelivered
  <1>2. ~Coin => EverySecondArrives
    BY DEF Coin, EverySecondArrives
  <1> QED BY <1>1, <1>2, OthersHaveNoCoins, CoinInvHolds, PTL

-----------------------------------------------------------------------------
(* write_data: the threads that send commands.                             *)

WriterStates == [at : {"idle", "first", "write", "again", "done"}, written : 0 .. COMMAND_SIZE]

PortTypes ==
    /\ writer \in [Threads -> WriterStates]
    /\ placed \in Seq(Threads)
    /\ taken \in 0 .. Len(placed) /\ Len(placed) - taken <= OUT_SIZE

\* Before its one ::write a thread has put nothing on the line.
NothingYet ==
    \A t \in Threads : writer[t].at \in {"idle", "first", "write"} =>
        /\ writer[t].written = 0
        /\ \A i \in 1 .. Len(placed) : placed[i] # t

WriteInv == PortTypes /\ NothingYet /\ CommandsNotMixed

LEMMA WriteInit == ReplyInit => WriteInv
  <1> SUFFICES ASSUME ReplyInit PROVE WriteInv
    OBVIOUS
  <1>1. placed = <<>> /\ taken = 0 /\ Len(placed) = 0 /\ placed \in Seq(Threads)
    BY DEF ReplyInit
  <1>2. writer \in [Threads -> WriterStates] /\ \A t \in Threads : writer[t].written = 0
    BY StartReplyAssumption DEF ReplyInit, WriterStates
  <1> QED
    BY <1>1, <1>2, StartReplyAssumption DEF WriteInv, PortTypes, NothingYet, CommandsNotMixed

\* write_data up to and after its ::write only moves the thread on.
LEMMA WriteMoves ==
  ASSUME WriteInv, NEW t \in Threads, CallWrite(t) \/ WriteSelect(t) \/ WriteReturns(t)
  PROVE  WriteInv'
  <1>1. PICK stage \in {"first", "write", "done"} :
          /\ writer' = [writer EXCEPT ![t].at = stage]
          /\ stage # "done" => writer[t].at \in {"idle", "first"}
    BY DEF CallWrite, WriteSelect, WriteReturns, TimeLeft
  <1>2. UNCHANGED <<placed, taken>>
    BY DEF CallWrite, WriteSelect, WriteReturns
  <1>3. writer' \in [Threads -> WriterStates]
    BY <1>1 DEF WriteInv, PortTypes, WriterStates
  <1>4. NothingYet'
    BY <1>1, <1>2 DEF WriteInv, PortTypes, NothingYet, WriterStates
  <1> QED
    BY <1>2, <1>3, <1>4 DEF WriteInv, PortTypes, CommandsNotMixed

\* ::write appends bytes of a thread that had none on the line.
LEMMA WriteAppends ==
  ASSUME WriteInv, NEW t \in Threads, Write(t)
  PROVE  WriteInv'
  <1> DEFINE left == COMMAND_SIZE - writer[t].written
             free == OUT_SIZE - (Len(placed) - taken)
             n == IF left < free THEN left ELSE free
             block == [i \in 1 .. n |-> t]
  <1>1. /\ Len(placed) \in Nat /\ taken \in Nat /\ writer[t].written = 0
        /\ writer[t] \in WriterStates /\ writer[t].at = "write"
    BY DEF WriteInv, PortTypes, NothingYet, Write
  <1>2. n \in 0 .. COMMAND_SIZE /\ n <= free
    BY <1>1, StartReplyAssumption DEF WriteInv, PortTypes
  <1> HIDE DEF n
  <1>3. block \in Seq(Threads) /\ Len(block) = n
    BY <1>2
  <1>4. placed' = placed \o block /\ UNCHANGED taken
    BY DEF Write, n
  <1>5. /\ placed' \in Seq(Threads) /\ Len(placed') = Len(placed) + n
        /\ \A i \in 1 .. Len(placed) + n :
             placed'[i] = IF i <= Len(placed) THEN placed[i] ELSE block[i - Len(placed)]
    BY <1>3, <1>4, ConcatProperties DEF WriteInv, PortTypes
  <1>6. \A i \in 1 .. Len(placed') :
          IF i <= Len(placed) THEN placed'[i] = placed[i] ELSE placed'[i] = t
    BY <1>1, <1>2, <1>5
  <1>7. PICK stage \in {"done", "again"} :
          writer' = [writer EXCEPT ![t] = [at |-> stage, written |-> writer[t].written + n]]
    BY DEF Write, n, WriteInv, PortTypes
  <1>8. writer' \in [Threads -> WriterStates]
    BY <1>1, <1>2, <1>7, StartReplyAssumption DEF WriteInv, PortTypes, WriterStates
  <1>9. PortTypes'
    <2>1. taken \in 0 .. Len(placed) + n
      BY <1>1, <1>2 DEF WriteInv, PortTypes
    <2>2. Len(placed) + n - taken <= OUT_SIZE
      BY <1>1, <1>2, StartReplyAssumption
    <2> QED
      <3>1. taken' = taken /\ Len(placed') = Len(placed) + n /\ placed' \in Seq(Threads)
        BY <1>4, <1>5
      <3>2. taken' \in 0 .. Len(placed')
        BY <2>1, <3>1
      <3>3. Len(placed') - taken' <= OUT_SIZE
        BY <1>1, <1>2, <2>2, <3>1, StartReplyAssumption
      <3> QED
        BY <1>8, <3>1, <3>2, <3>3 DEF PortTypes
  <1>10. NothingYet'
    <2> SUFFICES ASSUME NEW s \in Threads, writer'[s].at \in {"idle", "first", "write"}
                 PROVE  writer'[s].written = 0 /\ \A i \in 1 .. Len(placed') : placed'[i] # s
      BY DEF NothingYet
    <2>1. s # t /\ writer'[s] = writer[s]
      BY <1>7 DEF WriteInv, PortTypes
    <2>2. writer[s].written = 0 /\ \A i \in 1 .. Len(placed) : placed[i] # s
      BY <2>1 DEF WriteInv, NothingYet
    <2>3. \A i \in 1 .. Len(placed') : placed'[i] # s
      <3> SUFFICES ASSUME NEW i \in 1 .. Len(placed') PROVE placed'[i] # s
        OBVIOUS
      <3>1. CASE i <= Len(placed)
        BY <1>1, <1>6, <2>2, <3>1
      <3>2. CASE ~(i <= Len(placed))
        BY <1>6, <2>1, <3>2
      <3> QED
        BY <3>1, <3>2
    <2> QED
      BY <2>1, <2>2, <2>3
  <1>11. CommandsNotMixed'
    <2> SUFFICES ASSUME NEW i \in 1 .. Len(placed'), NEW k \in 1 .. Len(placed'), i < k,
                        placed'[i] = placed'[k], NEW j \in i .. k
                 PROVE  placed'[j] = placed'[i]
      BY DEF CommandsNotMixed
    <2>1. \A m \in 1 .. Len(placed) : placed[m] # t
      BY <1>1 DEF WriteInv, NothingYet
    <2>2. CASE k <= Len(placed)
      <3>1. i \in 1 .. Len(placed) /\ k \in 1 .. Len(placed) /\ j \in 1 .. Len(placed)
        BY <1>1, <2>2
      <3>2. placed[j] = placed[i]
        BY <1>6, <2>2, <3>1 DEF WriteInv, CommandsNotMixed
      <3> QED
        BY <1>6, <3>1, <3>2
    <2>3. CASE k > Len(placed)
      <3>1. placed'[k] = t /\ i > Len(placed)
        BY <1>1, <1>5, <1>6, <2>1, <2>3
      <3> QED
        BY <1>1, <1>2, <1>5, <1>6, <3>1
    <2> QED
      BY <1>1, <1>2, <1>5, <2>2, <2>3
  <1> QED
    BY <1>9, <1>10, <1>11 DEF WriteInv

LEMMA WriteStep == WriteInv /\ [ReplyNext]_replyVars => WriteInv'
  <1> SUFFICES ASSUME WriteInv, [ReplyNext]_replyVars PROVE WriteInv'
    OBVIOUS
  <1>1. CASE \E t \in Threads : CallWrite(t) \/ WriteSelect(t) \/ WriteReturns(t) \/ Write(t)
    BY <1>1, WriteMoves, WriteAppends
  <1>2. CASE LidarTakes
    <2>1. Len(placed) \in Nat
      BY DEF WriteInv, PortTypes
    <2> QED
      BY <1>2, <2>1, StartReplyAssumption
         DEF LidarTakes, WriteInv, PortTypes, NothingYet, CommandsNotMixed
  <1>3. CASE Receive \/ Tick \/ Reader \/ WaitInterrupted \/ UNCHANGED replyVars
    <2>1. UNCHANGED writeVars
      BY <1>3 DEF Receive, Tick, Reader, BeginWait, DataReady, DataShort, ReplyTimesOut, ReadData,
         ParseReply, JudgeReply, WaitInterrupted, Fail, replyVars
    <2> QED
      BY <2>1 DEF writeVars, WriteInv, PortTypes, NothingYet, CommandsNotMixed
  <1> QED
    BY <1>1, <1>2, <1>3 DEF ReplyNext

\* However many threads send commands to the LiDAR at once, and however its
\* port takes them, the bytes of one are not between those of another.
THEOREM CommandSafety == ReplySpec => []CommandsNotMixed
  <1>1. WriteInv => CommandsNotMixed
    BY DEF WriteInv
  <1> QED
    BY <1>1, WriteInit, WriteStep, PTL DEF ReplySpec

-----------------------------------------------------------------------------
(* The reply.                                                              *)

ReplyTypes ==
    /\ rx \in Seq(ReplyBytes) /\ recvBuffer \in Seq(ReplyBytes) /\ read \in Seq(ReplyBytes)
    /\ parser \in [pos : 0 .. REPLY_SIZE, value : ReplyBytes, data : ReplyBytes]
    /\ readerAt \in {"write", "wait", "short", "read", "parse", "done"}

\* The reader asks for what a reply lacks and judges when it has it.
ReplyControl ==
    /\ readerAt = "read" => Len(rx) >= REPLY_SIZE
    /\ readerAt = "parse" => parser.pos + Len(recvBuffer) <= REPLY_SIZE
    /\ readerAt = "write" => parser.pos = 0
    /\ result = "ok" => readerAt = "done" /\ Accepted
    /\ (Waiting \/ readerAt = "done") /\ result # "ok" => ~Accepted

\* The parser stands pos bytes behind what it took for the beginning of a head:
\* all of the head it passed was there,
HeadRead(p, s) ==
    /\ p.pos <= Len(s)
    /\ \A k \in 1 .. Len(HEAD) : k <= p.pos => s[Len(s) - p.pos + k] = HEAD[k]

\* checkvalue is the check of what it passed, if nothing spoilt it before, and
\* checkdata the last byte,
CheckRead(p, s) ==
    /\ Clean(s, Len(s) - p.pos + 1) =>
          p.value = CheckOf(s, Len(s) - p.pos + 1, IF p.pos = REPLY_SIZE THEN p.pos - 1 ELSE p.pos)
    /\ p.pos = REPLY_SIZE => p.data = s[Len(s)]

\* and the first thing like a head is not missed.
HeadKept(p, s) ==
    \A i \in 1 .. Len(s) :
        Clean(s, i) /\ (\A k \in 1 .. Len(HEAD) : i + k - 1 <= Len(s) => s[i + k - 1] = HEAD[k])
        => p.pos = Len(s) - i + 1

ReplyInv ==
    /\ ReplyTypes /\ ReplyControl
    /\ HeadRead(parser, read) /\ CheckRead(parser, read) /\ HeadKept(parser, read)

\* The check byte of no bytes, and of one more.
LEMMA CheckOfNone ==
  ASSUME NEW s, NEW i \in Nat
  PROVE  CheckOf(s, i, 0) = {}
  <1> SUFFICES ASSUME NEW bit \in BITS PROVE Cardinality({j \in i .. (i + 0 - 1) : bit \in s[j]}) % 2 = 0
    BY DEF CheckOf
  <1>1. {j \in i .. (i + 0 - 1) : bit \in s[j]} = {}
    OBVIOUS
  <1>2. Cardinality({}) = 0
    BY FS_EmptySet
  <1>3. Cardinality({j \in i .. (i + 0 - 1) : bit \in s[j]}) = 0
    BY <1>1, <1>2
  <1> QED
    BY <1>3

LEMMA CheckOfSame ==
  ASSUME NEW s, NEW t, NEW i \in Nat, NEW n \in Nat, \A j \in i .. (i + n - 1) : t[j] = s[j]
  PROVE  CheckOf(t, i, n) = CheckOf(s, i, n)
  <1>1. \A bit : {j \in i .. (i + n - 1) : bit \in t[j]} = {j \in i .. (i + n - 1) : bit \in s[j]}
    OBVIOUS
  <1> QED
    BY <1>1 DEF CheckOf

LEMMA CheckOfMore ==
  ASSUME NEW s, NEW i \in Nat, NEW n \in Nat, s[i + n] \in ReplyBytes
  PROVE  CheckOf(s, i, n + 1) = Xor(CheckOf(s, i, n), s[i + n])
  <1> DEFINE old(bit) == {j \in i .. (i + n - 1) : bit \in s[j]}
             new(bit) == {j \in i .. (i + (n + 1) - 1) : bit \in s[j]}
  <1>1. ASSUME NEW bit \in BITS
        PROVE  Cardinality(new(bit)) % 2 = 1 <=> ((Cardinality(old(bit)) % 2 = 1) <=> bit \notin s[i + n])
    <2>1. IsFiniteSet(i .. (i + n - 1))
      BY FS_Interval
    <2>2. IsFiniteSet(old(bit)) /\ i + n \notin old(bit)
      BY <2>1, FS_Subset
    <2>3. Cardinality(old(bit)) \in Nat
      BY <2>2, FS_CardinalityType
    <2>4. CASE bit \in s[i + n]
      <3>1. new(bit) = old(bit) \cup {i + n}
        BY <2>4
      <3>2. Cardinality(new(bit)) = Cardinality(old(bit)) + 1
        BY <2>2, <3>1, FS_AddElement
      <3> HIDE DEF old, new
      <3>3. (Cardinality(old(bit)) + 1) % 2 = 1 <=> ~(Cardinality(old(bit)) % 2 = 1)
        BY <2>3
      <3> QED
        BY <2>4, <3>2, <3>3
    <2>5. CASE bit \notin s[i + n]
      <3>1. new(bit) = old(bit)
        BY <2>5
      <3> QED
        BY <2>5, <3>1
    <2> QED
      BY <2>4, <2>5
  <1>2. CheckOf(s, i, n) = {bit \in BITS : Cardinality(old(bit)) % 2 = 1}
    BY DEF CheckOf
  <1>3. CheckOf(s, i, n + 1) = {bit \in BITS : Cardinality(new(bit)) % 2 = 1}
    BY DEF CheckOf
  <1> HIDE DEF old, new
  <1> QED
    BY <1>1, <1>2, <1>3 DEF Xor, ReplyBytes

\* What ParseByte does with the place: go on, or begin again.
LEMMA ParseByteFacts ==
  ASSUME NEW p \in [pos : 0 .. REPLY_SIZE, value : ReplyBytes, data : ReplyBytes], NEW byte \in ReplyBytes,
         p.pos < REPLY_SIZE
  PROVE  LET q == ParseByte(p, byte)
         IN  /\ q \in [pos : 0 .. REPLY_SIZE, value : ReplyBytes, data : ReplyBytes]
             /\ \/ /\ q.pos = p.pos + 1 /\ (p.pos < Len(HEAD) => byte = HEAD[p.pos + 1])
                   /\ p.pos < REPLY_SIZE - 1 => q.value = Xor(p.value, byte)
                   /\ p.pos = REPLY_SIZE - 1 => q.value = p.value /\ q.data = byte
                \/ /\ q.pos = 0 /\ p.pos < Len(HEAD) /\ byte # HEAD[p.pos + 1]
                   /\ q.value = p.value
  <1> DEFINE R == REPLY_SIZE
             H == Len(HEAD)
             Parsers == [pos : 0 .. R, value : ReplyBytes, data : ReplyBytes]
             checked == [p EXCEPT !.pos = p.pos + 1, !.value = Xor(p.value, byte)]
             last    == [p EXCEPT !.pos = p.pos + 1, !.data = byte]
             again   == [p EXCEPT !.pos = 0]
  <1>1. R \in Nat /\ H \in Nat /\ H >= 1 /\ R > H /\ p.pos \in Nat /\ p.pos < R
    BY StartReplyAssumption, LenProperties, EmptySeq
  <1>2. Xor(p.value, byte) \in ReplyBytes
    BY DEF Xor, ReplyBytes
  <1> HIDE DEF R, H
  <1>3. /\ checked \in Parsers /\ checked.pos = p.pos + 1 /\ checked.value = Xor(p.value, byte)
        /\ last \in Parsers /\ last.pos = p.pos + 1 /\ last.value = p.value /\ last.data = byte
        /\ again \in Parsers /\ again.pos = 0 /\ again.value = p.value
    <2>1. p.pos + 1 \in 0 .. R /\ 0 \in 0 .. R
      BY <1>1
    <2> QED
      BY <1>2, <2>1 DEF R
  <1> HIDE DEF Parsers, checked, last, again
  <1>4. /\ p.pos < H /\ byte = HEAD[p.pos + 1] => ParseByte(p, byte) = checked
        /\ p.pos < H /\ byte # HEAD[p.pos + 1] => ParseByte(p, byte) = again
        /\ ~(p.pos < H) /\ p.pos = R - 1 => ParseByte(p, byte) = last
        /\ ~(p.pos < H) /\ p.pos < R - 1 => ParseByte(p, byte) = checked
    <2>1. p.pos < H /\ byte # HEAD[p.pos + 1] => ParseByte(p, byte) = again
      BY DEF ParseByte, WrongByte, again, H
    <2>2. ~(p.pos < H /\ byte # HEAD[p.pos + 1]) => ParseByte(p, byte) = KeepByte(p, byte)
      BY DEF ParseByte, WrongByte, H
    <2>3. p.pos < R - 1 => KeepByte(p, byte) = checked
      BY DEF KeepByte, checked, R
    <2>4. p.pos = R - 1 => KeepByte(p, byte) = last
      BY <1>1 DEF KeepByte, last, R
    <2>5. p.pos < H => p.pos < R - 1
      BY <1>1
    <2> QED
      BY <2>1, <2>2, <2>3, <2>4, <2>5
  <1>5. p.pos < H => p.pos < R - 1
    BY <1>1
  <1>6. p.pos < H \/ p.pos = R - 1 \/ (~(p.pos < H) /\ p.pos < R - 1)
    BY <1>1
  <1> QED
    BY <1>1, <1>3, <1>4, <1>5, <1>6 DEF Parsers, R, H

LEMMA ReplyByte ==
  ASSUME NEW p \in [pos : 0 .. REPLY_SIZE, value : ReplyBytes, data : ReplyBytes], NEW byte \in ReplyBytes,
         NEW s \in Seq(ReplyBytes), p.pos < REPLY_SIZE, HeadRead(p, s), CheckRead(p, s), HeadKept(p, s),
         NEW q, q = ParseByte(p, byte), NEW t, t = Append(s, byte)
  PROVE  HeadRead(q, t) /\ CheckRead(q, t) /\ HeadKept(q, t)
  <1> DEFINE R == REPLY_SIZE
             H == Len(HEAD)
             L == Len(s)
             m == p.pos
  <1>1. R \in Nat /\ H \in Nat /\ H >= 1 /\ R > H /\ m \in Nat /\ m < R /\ L \in Nat /\ m <= L
    BY StartReplyAssumption, LenProperties, EmptySeq DEF HeadRead
  <1>2. Len(t) = L + 1 /\ t[L + 1] = byte /\ \A j \in 1 .. L : t[j] = s[j]
    BY AppendProperties
  <1>3. \/ /\ q.pos = m + 1 /\ (m < H => byte = HEAD[m + 1])
           /\ m < R - 1 => q.value = Xor(p.value, byte)
           /\ m = R - 1 => q.value = p.value /\ q.data = byte
        \/ /\ q.pos = 0 /\ m < H /\ byte # HEAD[m + 1]
           /\ q.value = p.value
    BY ParseByteFacts
  <1>4. \A k \in 1 .. H : k <= m => s[L - m + k] = HEAD[k]
    BY DEF HeadRead
  <1>5. Clean(s, L - m + 1) => p.value = CheckOf(s, L - m + 1, m)
    BY <1>1 DEF CheckRead
  <1>6. \A i \in 1 .. L : Clean(s, i) /\ (\A k \in 1 .. H : i + k - 1 <= L => s[i + k - 1] = HEAD[k])
            => m = L - i + 1
    BY DEF HeadKept
  <1> HIDE DEF R, H, L, m
  <1>7. ASSUME NEW i \in 1 .. L + 1, Clean(t, i) PROVE Clean(s, i)
    <2> SUFFICES ASSUME NEW j \in 1 .. (i - 1) PROVE s[j] # HEAD[1]
      BY DEF Clean
    <2>1. j \in 1 .. L
      BY <1>1
    <2> QED
      BY <1>2, <1>7, <2>1 DEF Clean
  <1>8. m > 0 => s[L - m + 1] = HEAD[1] /\ L - m + 1 \in 1 .. L
    BY <1>1, <1>4
  <1>9. Len(t) - q.pos + 1 = IF q.pos = 0 THEN L + 2 ELSE L - m + 1
    BY <1>1, <1>2, <1>3
  <1>10. HeadRead(q, t)
    <2> DEFINE N == Len(t)
    <2>4. N = L + 1
      BY <1>2
    <2>5. q.pos <= N
      BY <1>1, <1>3, <2>4
    <2> SUFFICES ASSUME NEW k \in 1 .. H, k <= q.pos
                 PROVE  t[N - q.pos + k] = HEAD[k]
      BY <2>5 DEF HeadRead, H
    <2> HIDE DEF N
    <2>1. q.pos = m + 1 /\ (m < H => byte = HEAD[m + 1])
      BY <1>1, <1>3
    <2>2. CASE k = m + 1
      <3>1. N - q.pos + k = L + 1
        BY <1>1, <2>1, <2>2, <2>4
      <3>2. m < H
        BY <1>1, <2>2
      <3> QED
        BY <1>2, <2>1, <2>2, <3>1, <3>2
    <2>3. CASE k # m + 1
      <3>1. k <= m /\ N - q.pos + k = L - m + k /\ L - m + k \in 1 .. L
        BY <1>1, <2>1, <2>3, <2>4
      <3> QED
        BY <1>2, <1>4, <3>1
    <2> QED
      BY <2>2, <2>3
  <1>11. CheckRead(q, t)
    <2>1. CASE q.pos = 0
      <3>1. Len(t) - q.pos + 1 = L + 2 /\ q.pos # R
        BY <1>1, <1>9, <2>1
      <3>2. ASSUME Clean(t, L + 2)
            PROVE  q.value = CheckOf(t, L + 2, q.pos)
        <4>1. \A j \in 1 .. L + 1 : t[j] # HEAD[1]
          <5> SUFFICES ASSUME NEW j \in 1 .. L + 1 PROVE t[j] # HEAD[1]
            OBVIOUS
          <5>1. \A k \in 1 .. ((L + 2) - 1) : t[k] # HEAD[1]
            BY <3>2 DEF Clean
          <5>2. j \in 1 .. ((L + 2) - 1)
            BY <1>1
          <5> QED
            BY <5>1, <5>2
        <4>2. m = 0
          <5> SUFFICES ASSUME m > 0 PROVE FALSE
            BY <1>1
          <5>1. L - m + 1 \in 1 .. L + 1 /\ t[L - m + 1] = HEAD[1]
            BY <1>1, <1>2, <1>8
          <5> QED
            BY <4>1, <5>1
        <4>3. q.value = p.value
          BY <1>1, <1>3, <2>1
        <4>4. Clean(s, L - m + 1)
          <5>1. PICK i : i = L - m + 1
            OBVIOUS
          <5> SUFFICES ASSUME NEW j \in 1 .. (i - 1) PROVE s[j] # HEAD[1]
            BY <5>1 DEF Clean
          <5>2. j \in 1 .. L /\ j \in 1 .. L + 1
            BY <1>1, <4>2, <5>1
          <5> QED
            BY <1>2, <4>1, <5>2
        <4>5. p.value = CheckOf(s, L - m + 1, 0)
          BY <1>5, <4>2, <4>4
        <4>6. CheckOf(s, L - m + 1, 0) = {} /\ CheckOf(t, L + 2, 0) = {}
          <5>1. L - m + 1 \in Nat /\ L + 2 \in Nat
            BY <1>1
          <5> QED
            BY <5>1, CheckOfNone
        <4> QED
          BY <2>1, <4>3, <4>5, <4>6
      <3> QED
        BY <3>1, <3>2 DEF CheckRead, R
    <2>2. CASE q.pos # 0
      <3> DEFINE i == L - m + 1
      <3>1. /\ q.pos = m + 1
            /\ m < R - 1 => q.value = Xor(p.value, byte)
            /\ m = R - 1 => q.value = p.value /\ q.data = byte
        BY <1>1, <1>3, <2>2
      <3>2. Len(t) - q.pos + 1 = i /\ i \in 1 .. L + 1 /\ i \in Nat
        BY <1>1, <1>9, <2>2
      <3>3. i + m = L + 1 /\ i + m - 1 = L
        BY <1>1
      <3> HIDE DEF i
      <3>4. CheckOf(t, i, m) = CheckOf(s, i, m)
        <4>1. \A j \in i .. (i + m - 1) : t[j] = s[j]
          BY <1>1, <1>2, <3>2, <3>3
        <4>2. m \in Nat /\ i \in Nat
          BY <1>1, <3>2
        <4> QED
          BY <4>1, <4>2, CheckOfSame
      <3>5. Clean(t, i) => p.value = CheckOf(t, i, m)
        BY <1>5, <1>7, <3>2, <3>4 DEF i
      <3>6. CheckOf(t, i, m + 1) = Xor(CheckOf(t, i, m), byte)
        <4>1. t[i + m] = byte
          BY <1>2, <3>3
        <4>2. m \in Nat /\ i \in Nat /\ t[i + m] \in ReplyBytes
          BY <1>1, <3>2, <4>1
        <4>3. CheckOf(t, i, m + 1) = Xor(CheckOf(t, i, m), t[i + m])
          BY <4>2, CheckOfMore
        <4> QED
          BY <4>1, <4>3
      <3>7. CASE m < R - 1
        <4>1. q.pos # R /\ q.value = Xor(p.value, byte)
          BY <1>1, <3>1, <3>7
        <4>2. Clean(t, i) => q.value = CheckOf(t, i, q.pos)
          BY <3>1, <3>5, <3>6, <4>1
        <4> QED
          BY <3>2, <4>1, <4>2 DEF CheckRead, R
      <3>8. CASE m = R - 1
        <4>1. q.pos = R /\ q.value = p.value /\ q.data = byte /\ q.pos - 1 = m
          BY <1>1, <3>1, <3>8
        <4> QED
          BY <1>2, <3>2, <3>5, <4>1 DEF CheckRead, R
      <3> QED
        BY <1>1, <3>7, <3>8
    <2> QED
      BY <2>1, <2>2
  <1>12. HeadKept(q, t)
    <2> DEFINE N == Len(t)
    <2>4. N = L + 1
      BY <1>2
    <2> SUFFICES ASSUME NEW i \in 1 .. N, Clean(t, i),
                        \A k \in 1 .. H : i + k - 1 <= N => t[i + k - 1] = HEAD[k]
                 PROVE  q.pos = N - i + 1
      BY DEF HeadKept, H
    <2> HIDE DEF N
    <2>5. i \in 1 .. L + 1
      BY <2>4
    <2>1. Clean(s, i)
      BY <1>7, <2>5
    <2>2. CASE i = L + 1
      <3>1. byte = HEAD[1]
        <4>1. 1 \in 1 .. H /\ i + 1 - 1 <= N /\ i + 1 - 1 = L + 1
          BY <1>1, <2>2, <2>4
        <4> QED
          BY <1>2, <4>1
      <3>2. m = 0
        <4> SUFFICES ASSUME m > 0 PROVE FALSE
          BY <1>1
        <4>1. L - m + 1 \in 1 .. (i - 1) /\ s[L - m + 1] = HEAD[1]
          BY <1>1, <1>8, <2>2
        <4> QED
          BY <2>1, <4>1 DEF Clean
      <3>3. m + 1 = 1
        BY <3>2
      <3> QED
        BY <1>1, <1>3, <2>2, <2>4, <3>1, <3>2, <3>3
    <2>3. CASE i # L + 1
      <3>1. i \in 1 .. L
        BY <1>1, <2>3, <2>5
      <3>2. ASSUME NEW k \in 1 .. H, i + k - 1 <= L PROVE s[i + k - 1] = HEAD[k]
        <4>1. i + k - 1 \in 1 .. L /\ i + k - 1 <= N
          BY <1>1, <2>4, <3>1, <3>2
        <4> QED
          BY <1>2, <4>1
      <3>3. m = L - i + 1
        BY <1>6, <2>1, <3>1, <3>2
      <3>4. m < H => byte = HEAD[m + 1]
        <4> SUFFICES ASSUME m < H PROVE byte = HEAD[m + 1]
          OBVIOUS
        <4>1. m + 1 \in 1 .. H /\ i + (m + 1) - 1 = L + 1
          BY <1>1, <3>1, <3>3
        <4>2. t[i + (m + 1) - 1] = HEAD[m + 1]
          <5>1. PICK k \in 1 .. H : k = m + 1
            BY <4>1
          <5>2. i + k - 1 <= N
            BY <1>1, <2>4, <4>1, <5>1
          <5>3. t[i + k - 1] = HEAD[k]
            BY <5>2
          <5> QED
            BY <5>1, <5>3
        <4> QED
          BY <1>2, <4>1, <4>2
      <3>5. q.pos = m + 1
        BY <1>3, <3>4
      <3> QED
        BY <1>1, <2>4, <3>1, <3>3, <3>5
    <2> QED
      BY <2>2, <2>3
  <1> QED
    BY <1>10, <1>11, <1>12

LEMMA ReplyInvInit == ReplyInit => ReplyInv
  <1> SUFFICES ASSUME ReplyInit PROVE ReplyInv
    OBVIOUS
  <1>1. /\ rx = <<>> /\ recvBuffer = <<>> /\ read = <<>> /\ readerAt = "write" /\ result = "none"
        /\ parser = [pos |-> 0, value |-> {}, data |-> {}]
    BY DEF ReplyInit
  <1>2. REPLY_SIZE \in Nat /\ REPLY_SIZE > 0
    BY StartReplyAssumption, LenProperties
  <1>3. <<>> \in Seq(ReplyBytes) /\ Len(read) = 0
    BY <1>1, EmptySeq
  <1>4. ReplyTypes
    BY <1>1, <1>2, <1>3 DEF ReplyTypes, ReplyBytes
  <1>5. ReplyControl
    BY <1>1 DEF ReplyControl, Waiting
  <1>6. HeadRead(parser, read)
    BY <1>1, <1>3 DEF HeadRead
  <1>7. CheckRead(parser, read)
    <2>1. parser.pos # REPLY_SIZE /\ parser.value = {} /\ parser.pos = 0
      BY <1>1, <1>2
    <2>2. CheckOf(read, Len(read) - parser.pos + 1, 0) = {}
      BY <1>3, <2>1, CheckOfNone
    <2> QED
      BY <2>1, <2>2 DEF CheckRead
  <1>8. HeadKept(parser, read)
    BY <1>3 DEF HeadKept
  <1> QED
    BY <1>4, <1>5, <1>6, <1>7, <1>8 DEF ReplyInv

LEMMA ReplyStep == ReplyInv /\ [ReplyNext]_replyVars => ReplyInv'
  <1> SUFFICES ASSUME ReplyInv, [ReplyNext]_replyVars PROVE ReplyInv'
    OBVIOUS
  <1>0. REPLY_SIZE \in Nat /\ parser.pos \in 0 .. REPLY_SIZE /\ ReplyTypes /\ ReplyControl
    BY StartReplyAssumption DEF ReplyInv, ReplyTypes
  <1>1. CASE ParseReply
    <2> DEFINE byte == Head(recvBuffer)
    <2>1. /\ readerAt = "parse" /\ recvBuffer # <<>> /\ recvBuffer \in Seq(ReplyBytes)
          /\ parser' = ParseByte(parser, byte) /\ recvBuffer' = Tail(recvBuffer)
          /\ read' = Append(read, byte) /\ UNCHANGED <<rx, result, readerAt>>
      BY <1>0, <1>1 DEF ParseReply, ReplyTypes
    <2>2. /\ byte \in ReplyBytes /\ Tail(recvBuffer) \in Seq(ReplyBytes) /\ Len(recvBuffer) \in Nat
          /\ Len(recvBuffer) >= 1 /\ Len(Tail(recvBuffer)) = Len(recvBuffer) - 1
      BY <2>1, HeadTailProperties, LenProperties, EmptySeq
    <2>3. parser.pos < REPLY_SIZE
      BY <1>0, <2>1, <2>2 DEF ReplyControl
    <2> HIDE DEF byte
    <2>4. /\ parser' \in [pos : 0 .. REPLY_SIZE, value : ReplyBytes, data : ReplyBytes]
          /\ parser'.pos = parser.pos + 1 \/ parser'.pos = 0
      BY <1>0, <2>1, <2>2, <2>3, ParseByteFacts DEF ReplyTypes
    <2>5. HeadRead(parser', read') /\ CheckRead(parser', read') /\ HeadKept(parser', read')
      BY <1>0, <2>1, <2>2, <2>3, ReplyByte DEF ReplyInv, ReplyTypes
    <2>6. ReplyTypes'
      <3>1. read' \in Seq(ReplyBytes)
        BY <1>0, <2>1, <2>2, AppendProperties DEF ReplyTypes
      <3> QED
        BY <1>0, <2>1, <2>2, <2>4, <3>1 DEF ReplyTypes
    <2>7. ReplyControl'
      <3>1. parser'.pos + Len(recvBuffer') <= REPLY_SIZE
        <4>1. parser.pos + Len(recvBuffer) <= REPLY_SIZE
          BY <1>0, <2>1 DEF ReplyControl
        <4> QED
          BY <1>0, <2>1, <2>2, <2>4, <4>1
      <3>2. result # "ok"
        BY <1>0, <2>1 DEF ReplyControl
      <3> QED
        BY <2>1, <3>1, <3>2 DEF ReplyControl, Waiting
    <2> QED
      BY <2>5, <2>6, <2>7 DEF ReplyInv
  <1>2. CASE ~ParseReply
    <2>1. /\ UNCHANGED <<parser, read>>
          /\ \/ UNCHANGED <<rx, recvBuffer, readerAt, result>>
             \/ BeginWait \/ Receive \/ DataReady \/ DataShort \/ ReplyTimesOut \/ WaitInterrupted
             \/ ReadData \/ JudgeReply
      BY <1>2 DEF ReplyNext, replyVars, readVars, writeVars, CallWrite, WriteSelect, WriteReturns, Write, LidarTakes, Receive,
         Tick, Reader, BeginWait, DataReady, DataShort, ReplyTimesOut, ReadData, JudgeReply, WaitInterrupted, Fail
    <2>2. Accepted' = Accepted
      BY <2>1 DEF Accepted
    <2>3. ReplyTypes' /\ ReplyControl'
      <3>1. CASE UNCHANGED <<rx, recvBuffer, readerAt, result>>
        BY <1>0, <2>1, <2>2, <3>1 DEF ReplyTypes, ReplyControl, Waiting
      <3>2. CASE BeginWait
        <4>1. ~Accepted
          <5>1. REPLY_SIZE > 0
            BY StartReplyAssumption, LenProperties
          <5> QED
            BY <1>0, <3>2, <5>1 DEF BeginWait, ReplyControl, Accepted
        <4> QED
          BY <1>0, <2>1, <2>2, <3>2, <4>1 DEF BeginWait, ReplyTypes, ReplyControl, Waiting, readVars
      <3>3. CASE Receive
        <4>1. rx' \in Seq(ReplyBytes)
          BY <1>0, <3>3, StartReplyAssumption, AppendProperties DEF Receive, ReplyTypes
        <4> QED
          BY <1>0, <2>1, <2>2, <3>3, <4>1 DEF Receive, ReplyTypes, ReplyControl, Waiting
      <3>4. CASE DataReady \/ DataShort
        BY <1>0, <2>1, <2>2, <3>4 DEF DataReady, DataShort, ReplyTypes, ReplyControl, Waiting, readVars
      <3>5. CASE ReplyTimesOut \/ WaitInterrupted
        BY <1>0, <2>1, <2>2, <3>5 DEF ReplyTimesOut, WaitInterrupted, Fail, ReplyTypes, ReplyControl, Waiting
      <3>6. CASE ReadData
        <4> DEFINE n == Ask(parser.pos)
        <4>1. n \in Nat /\ n <= REPLY_SIZE /\ n <= Len(rx) /\ Len(rx) \in Nat /\ rx \in Seq(ReplyBytes)
              /\ parser.pos + n = REPLY_SIZE
          BY <1>0, <3>6, LenProperties DEF ReadData, ReplyControl, ReplyTypes, Ask
        <4> HIDE DEF n
        <4>2. recvBuffer' = SubSeq(rx, 1, n) /\ rx' = SubSeq(rx, n + 1, Len(rx)) /\ readerAt' = "parse" /\ result' = result
          BY <3>6 DEF ReadData, n
        <4>3. recvBuffer' \in Seq(ReplyBytes) /\ Len(recvBuffer') = n /\ rx' \in Seq(ReplyBytes)
          <5>1. \A j \in 1 .. Len(rx) : rx[j] \in ReplyBytes
            BY <4>1, ElementOfSeq
          <5>2. SubSeq(rx, 1, n) \in Seq(ReplyBytes) /\ Len(SubSeq(rx, 1, n)) = n
            BY <4>1, <5>1, SubSeqProperties
          <5>3. SubSeq(rx, n + 1, Len(rx)) \in Seq(ReplyBytes)
            BY <4>1, <5>1, SubSeqProperties
          <5> QED
            BY <4>2, <5>2, <5>3
        <4>4. result # "ok"
          BY <1>0, <3>6 DEF ReadData, ReplyControl
        <4> QED
          BY <1>0, <2>1, <2>2, <4>1, <4>2, <4>3, <4>4 DEF ReplyTypes, ReplyControl, Waiting
      <3>7. CASE JudgeReply
        BY <1>0, <2>1, <2>2, <3>7 DEF JudgeReply, ReplyTypes, ReplyControl, Waiting
      <3> QED
        BY <2>1, <3>1, <3>2, <3>3, <3>4, <3>5, <3>6, <3>7
    <2> QED
      BY <2>1, <2>3 DEF ReplyInv
  <1> QED
    BY <1>1, <1>2

\* Whatever bytes the LiDAR sends and however they come in, wait_start_reply
\* returns true only with the line read exactly to the end of a head and the
\* length of a reply.  Of replies nothing like the first byte of a head came
\* before, it accepts undamaged ones only and reads over none; of one behind a
\* stray first byte nothing more is said, and the code may well miss it.
THEOREM AnswerSafety == ReplySpec => []AnswerIsRight
  <1>1. ReplyInv => AnswerIsRight
    <2> SUFFICES ASSUME ReplyInv PROVE TrueMeansReply /\ NoReplyOverlooked
      BY DEF AnswerIsRight
    <2> DEFINE R == REPLY_SIZE
               H == Len(HEAD)
               L == Len(read)
    <2>1. /\ R \in Nat /\ H \in Nat /\ H >= 1 /\ R > H /\ L \in Nat
          /\ parser.pos \in 0 .. R /\ parser.pos <= L
      BY StartReplyAssumption, LenProperties, EmptySeq DEF ReplyInv, ReplyTypes, HeadRead
    <2>2. /\ \A k \in 1 .. H : k <= parser.pos => read[L - parser.pos + k] = HEAD[k]
          /\ parser.pos = R => parser.data = read[L]
          /\ parser.pos = R /\ Clean(read, L - R + 1) => parser.value = CheckOf(read, L - R + 1, R - 1)
      BY DEF ReplyInv, HeadRead, CheckRead
    <2>3. \A i \in 1 .. L :
            Clean(read, i) /\ (\A k \in 1 .. H : i + k - 1 <= L => read[i + k - 1] = HEAD[k])
            => parser.pos = L - i + 1
      BY DEF ReplyInv, HeadKept
    <2>4. ReplyControl
      BY DEF ReplyInv
    <2> HIDE DEF R, H, L
    <2>5. TrueMeansReply
      <3> SUFFICES ASSUME result = "ok"
                   PROVE  LET i == L - R + 1
                          IN  i >= 1 /\ HeadAt(read, i) /\ (Clean(read, i) => IsReply(read, i))
        BY DEF TrueMeansReply, L, R
      <3> DEFINE i == L - R + 1
      <3>1. parser.pos = R /\ parser.value = parser.data
        BY <2>4 DEF ReplyControl, Accepted, R
      <3>2. i >= 1 /\ i + R - 1 = L
        BY <2>1, <3>1
      <3>3. HeadAt(read, i)
        <4> SUFFICES ASSUME NEW k \in 1 .. H PROVE read[i + k - 1] = HEAD[k]
          BY DEF HeadAt, H
        <4>1. k <= parser.pos /\ L - parser.pos + k = i + k - 1
          BY <2>1, <3>1
        <4> QED
          BY <2>2, <4>1
      <3>4. Clean(read, i) => read[i + R - 1] = CheckOf(read, i, R - 1)
        BY <2>2, <3>1, <3>2
      <3> QED
        BY <3>2, <3>3, <3>4 DEF IsReply, R
    <2>6. NoReplyOverlooked
      <3> SUFFICES ASSUME Waiting \/ readerAt = "done", result # "ok",
                          NEW i \in 1 .. L - R + 1, Clean(read, i), HeadAt(read, i),
                          read[i + R - 1] = CheckOf(read, i, R - 1)
                   PROVE  FALSE
        BY DEF NoReplyOverlooked, IsReply, L, R
      <3>1. i \in 1 .. L /\ i <= L - R + 1
        BY <2>1
      <3>2. parser.pos = L - i + 1
        BY <2>3, <3>1 DEF HeadAt, H
      <3>3. parser.pos = R /\ i = L - R + 1 /\ i + R - 1 = L
        BY <2>1, <3>1, <3>2
      <3>4. parser.value = parser.data
        BY <2>2, <3>3
      <3> QED
        BY <2>4, <3>3, <3>4 DEF ReplyControl, Accepted, R
    <2> QED
      BY <2>5, <2>6
  <1> QED
    BY <1>1, ReplyInvInit, ReplyStep, PTL DEF ReplySpec
=============================================================================
