---------------------------- MODULE StreamProofs ----------------------------
(***************************************************************************)
(* Machine-checked proofs about PackageStream: for packages of any kinds,  *)
(* any number of them and any number of mishaps, batches and arrays of any *)
(* size.  They hold of CoinStream too as long as it reads packages of the  *)
(* other versions (OtherVersionsReadPackages); what it does with coin      *)
(* packages is in ParserProofs.                                            *)
(*                                                                         *)
(* The inductive invariant StreamInv speaks of one sequence, Stream: the   *)
(* bytes received and not done with, wherever the reader keeps them.  The  *)
(* reader only ever drops bytes from its front, the line only ever adds to *)
(* its end, so that three facts carry over from step to step: bytes lie in *)
(* the order they were sent, those of a package nothing happened to lie    *)
(* next to each other, and what was reported lies behind them all.  With   *)
(* them a package that begins where the parser looks is read as a whole    *)
(* (Aligned), which is what the properties of points, nodes, scans and     *)
(* stamps come down to.                                                    *)
(***************************************************************************)
EXTENDS CoinStream, SequenceTheorems, TLAPS

Bytes == [value : ByteValues, package : Nat, place : Nat, altered : BOOLEAN]
Points == Nat \X Nat
Nodes == [sync : BOOLEAN, point : Points \union {NoPoint}, index : Nat]

\* What every variable is.
Types ==
    /\ sent \in Seq(KINDS) /\ position \in Nat
    /\ line \in Seq(Bytes) /\ globalRecvBuffer \in Seq(Bytes) /\ header \in Seq(Bytes)
    /\ at \in {"judge", "header", "parse", "payload", "node", "collect"}
    /\ package \in [ring : BOOLEAN, samples : ByteValues, payload : Seq(Bytes)]
    /\ CheckSumResult \in BOOLEAN /\ has_package_error \in BOOLEAN
    /\ package_Sample_Index \in Nat /\ package_index \in Nat
    /\ tim_scan \in [start : Nat, end : Nat]
    /\ local_buf \in Seq(Nodes) /\ local_scan \in Seq(Nodes)
    /\ scan \in [nodes : Seq(Nodes), start : Nat, end : Nat, closedBy : Nat]
    /\ harmed \subseteq Nat /\ searched \subseteq Nat /\ got \in Seq(Points) /\ mishaps \in Nat

\* Where the reader is, and what it holds then.
Control ==
    /\ globalRecvBuffer # <<>> <=> at = "parse"
    /\ at = "parse" => Len(header) + Len(globalRecvBuffer) <= PackagePaidBytes
    /\ Len(header) <= PackagePaidBytes /\ (Len(header) = PackagePaidBytes <=> at = "payload")
    /\ header # <<>> => at \in {"header", "parse", "payload"} /\ header[1].value = PH_LOW
    /\ at \in {"header", "parse", "payload"} => package_Sample_Index = 0
    /\ Len(package.payload) = PackageSampleBytes * package.samples
    /\ package_Sample_Index = 0 \/ package_Sample_Index < package.samples
    /\ CheckSumResult => at = "node" \/ package_Sample_Index > 0
    /\ Len(local_buf) <= BATCH /\ (at \notin {"collect", "judge"} => Len(local_buf) < BATCH)
    /\ at = "judge" => local_buf = <<>>
    /\ Len(local_scan) < LOCAL_SCAN
    /\ mishaps <= MAX_MISHAPS

-----------------------------------------------------------------------------
(* The stream: what was received and is not done with yet.                 *)

Stream == header \o globalRecvBuffer \o line

\* A byte of a package has left the LiDAR: of those in all, up to place q of
\* the last.
HasLeft(p, place, all, q) == p < Len(all) \/ (p = Len(all) /\ place <= q)

ComesFrom(byte, p, place) == byte.package = p /\ byte.place = place

\* The bytes of a stream s are what they say they are, where nothing happened
\* to their package, in the order they were sent.
OriginsIn(s, all, q, hurt) ==
    /\ all = <<>> => q = 0
    /\ all # <<>> => q <= Size(all[Len(all)])
    /\ hurt \subseteq 1 .. Len(all)
    /\ \A i \in 1 .. Len(s) :
         /\ s[i].package \in 1 .. Len(all) /\ s[i].place \in 1 .. Size(all[s[i].package])
         /\ HasLeft(s[i].package, s[i].place, all, q)
         /\ s[i].altered => s[i].package \in hurt
         /\ ~s[i].altered => s[i].value = ByteAt(all[s[i].package], s[i].place)
    /\ \A i, j \in 1 .. Len(s) : i < j => Stamp(s[i]) < Stamp(s[j])

Origins == OriginsIn(Stream, sent, position, harmed) /\ searched \subseteq 1 .. Len(sent)

\* Behind a byte of a package nothing happened to comes the rest of it ...
Forward(s, all, q, hurt) ==
    \A i \in 1 .. Len(s) : \A k \in Nat :
        LET p     == s[i].package
            place == s[i].place + k
        IN  p \notin hurt /\ place <= Size(all[p]) /\ HasLeft(p, place, all, q)
            => i + k <= Len(s) /\ ComesFrom(s[i + k], p, place)

\* ... and behind the last byte of a package the next, if nothing happened to it.
Across(s, all, q, hurt) ==
    \A i \in 1 .. Len(s) :
        LET p == s[i].package
        IN  s[i].place = Size(all[p]) /\ p + 1 \notin hurt /\ HasLeft(p + 1, 1, all, q)
            => i < Len(s) /\ ComesFrom(s[i + 1], p + 1, 1)

\* A byte k before one of package p, place n, where nothing happened to p, nor
\* to the package before it if the byte is of that one.
Before(byte, k, p, n, all, hurt) ==
    /\ p \notin hurt /\ k < n => ComesFrom(byte, p, n - k)
    /\ p \notin hurt /\ p > 1 /\ p - 1 \notin hurt /\ n <= k /\ k < n + Size(all[p - 1])
       => ComesFrom(byte, p - 1, Size(all[p - 1]) - (k - n))

Backward(s, all, hurt) ==
    \A j \in 1 .. Len(s) : \A i \in 1 .. j :
        Before(s[i], j - i, s[j].package, s[j].place, all, hurt)

BackwardFromLidar(s, all, q, hurt) ==
    \A i \in 1 .. Len(s) : Before(s[i], Len(s) - i, Len(all), q, all, hurt)

NoGapsIn(s, all, q, hurt) ==
    /\ Forward(s, all, q, hurt) /\ Across(s, all, q, hurt)
    /\ Backward(s, all, hurt) /\ BackwardFromLidar(s, all, q, hurt)

NoGaps == NoGapsIn(Stream, sent, position, harmed)

-----------------------------------------------------------------------------
(* The packages read.                                                      *)

\* A package whose check sum fits has been read as a whole.
Current == package.payload[1].package

\* Nothing of a package is in the stream or still to come.
Done(p) ==
    /\ p \in 1 .. Len(sent) /\ HasLeft(p, Size(sent[p]), sent, position)
    /\ \A i \in 1 .. Len(Stream) : Stream[i].package > p

WholePackage ==
    CheckSumResult =>
        /\ Done(Current) /\ package.ring = sent[Current].ring
        /\ package.samples = Len(sent[Current].samples)
        /\ \A i \in 1 .. Len(package.payload) :
             ComesFrom(package.payload[i], Current, PackagePaidBytes + i)

\* The points reported lie behind the stream and before the next sample.
PointsBehind ==
    \A i \in 1 .. Len(got) :
        /\ Done(got[i][1])
        /\ got[i][2] \in 1 .. Len(sent[got[i][1]].samples)
        /\ CheckSumResult => got[i][1] < Current \/
                             (got[i][1] = Current /\ got[i][2] <= package_Sample_Index)

\* The last package with a point reported, and with a check sum that fit.
Reported == IF got = <<>> THEN 0 ELSE got[Len(got)][1]
Fitted == IF CheckSumResult THEN Current ELSE Reported

\* Points are reported package by package, each to its end.
LastPoint ==
    /\ CheckSumResult /\ package_Sample_Index > 0
       => got # <<>> /\ got[Len(got)] = <<Current, package_Sample_Index>>
    /\ got # <<>> /\ ~(CheckSumResult /\ package_Sample_Index > 0)
       => got[Len(got)][2] = Len(sent[got[Len(got)][1]].samples)
    /\ CheckSumResult /\ package_Sample_Index = 0
       => Reported < Current /\ (Reported + 1 \notin harmed => Current = Reported + 1)

\* If nothing happened to the package behind the last whose check sum fit, the
\* parser has its first byte in the right place.
Aligned ==
    Fitted + 1 \notin harmed =>
        /\ HasLeft(Fitted + 1, 1, sent, position) => Stream # <<>> /\ ComesFrom(Stream[1], Fitted + 1, 1)
        /\ at = "node" \/ package_Sample_Index > 0 => CheckSumResult

\* The search met the first byte of a package in good order, and so did the one
\* before it arrive: the parser is in its header, or in its samples, or has
\* reported them.
InSearch(p) == Stream # <<>> /\ ComesFrom(Stream[1], p, 1) /\ header # <<>>
InSamples(p) ==
    CheckSumResult /\ Current = p /\ \A i \in 1 .. package_Sample_Index : <<p, i>> \in Range(got)
AllReported(p) == \A i \in 1 .. Len(sent[p].samples) : <<p, i>> \in Range(got)

Searched ==
    \A p \in searched \ harmed :
        (p > 1 => p - 1 \notin harmed /\ Quiet(p - 1)) => InSearch(p) \/ InSamples(p) \/ AllReported(p)

-----------------------------------------------------------------------------
(* The nodes.                                                              *)

\* A ring start has been found and not been collected yet.
Pending == local_buf # <<>> /\ local_buf[Len(local_buf)].sync
PendingRing == local_buf[Len(local_buf)].point[1]

\* What is gathered of the scan under way, and whether it began with a ring start.
Gathered == Stored(local_scan, IF Pending THEN Front(local_buf) ELSE local_buf)
Open == local_scan # <<>> /\ local_scan[1].sync
OpenRing == local_scan[1].point[1]

HasPoint(node) == node.point # NoPoint

\* Ring starts are where they belong.
RingStarts ==
    /\ \A i \in 1 .. Len(local_buf) - 1 : ~local_buf[i].sync
    /\ Pending => /\ at = "collect" /\ ~CheckSumResult /\ package_Sample_Index = 0
                  /\ got # <<>> /\ local_buf[Len(local_buf)].point = got[Len(got)]
                  /\ got[Len(got)][2] = 1 /\ local_buf[Len(local_buf)].index = NoIndex
    /\ Open => HasPoint(local_scan[1]) /\ local_scan[1].point[2] = 1 /\ got # <<>>
               /\ OpenRing <= Reported /\ (Pending => OpenRing < PendingRing)

\* Nodes hold points of packages sent, and so does the first of a scan.
AllSent(seq, all) == \A i \in 1 .. Len(seq) : HasPoint(seq[i]) => seq[i].point[1] \in 1 .. Len(all)

NodesSent ==
    /\ AllSent(local_buf, sent) /\ AllSent(local_scan, sent) /\ AllSent(scan.nodes, sent)
    /\ HasScan => scan.nodes # <<>> /\ HasPoint(scan.nodes[1]) /\ scan.closedBy <= Len(sent)

\* Damage is told by has_package_error until the next ring start.
ToldInOrder(seq) ==
    \A i \in 1 .. Len(seq) : seq[i].index # NoIndex => \A j \in 1 .. i : HasPoint(seq[j])

ErrorTold ==
    /\ (at = "node" \/ package_Sample_Index > 0) /\ ~CheckSumResult => has_package_error
    /\ ~has_package_error /\ ~Pending =>
          /\ \A i \in 1 .. Len(local_scan) : HasPoint(local_scan[i])
          /\ \A i \in 1 .. Len(local_buf) : HasPoint(local_buf[i])
    /\ ToldInOrder(local_scan) /\ ToldInOrder(local_buf) /\ ToldInOrder(scan.nodes)
    /\ \A i \in 1 .. Len(local_buf) : local_buf[i].index # NoIndex =>
          \A j \in 1 .. Len(local_scan) : HasPoint(local_scan[j])

Unharmed(first, last, hurt) == \A p \in first .. last : p \notin hurt

NextPoint(point, all) ==
    IF point[2] < Len(all[point[1]].samples) THEN <<point[1], point[2] + 1>>
                                             ELSE <<point[1] + 1, 1>>

\* What ScanIsOneRevolution says of a scan.
OneRevolution(seq, closedBy, all) ==
    /\ \A p \in seq[1].point[1] + 1 .. closedBy - 1 : ~all[p].ring
    /\ seq[1].point[2] = 1
    /\ \A i \in 2 .. Len(seq) : seq[i].point = NextPoint(seq[i - 1].point, all)
    /\ IF Len(seq) < LOCAL_SCAN - 1
         THEN NextPoint(seq[Len(seq)].point, all) = <<closedBy, 1>>
         ELSE Len(seq) = LOCAL_SCAN - 1 /\ seq[Len(seq)].point[1] < closedBy

\* What is gathered since a ring start is a revolution so far, up to the point
\* end, the last of package last, if nothing happened to the packages of it.
SoFar(seq, ring, last, end, all, hurt) ==
    /\ \A i \in 1 .. Len(seq) : ~HasPoint(seq[i]) => last + 1 \in hurt
    /\ \A i \in 2 .. Len(seq) : HasPoint(seq[i]) /\ HasPoint(seq[i - 1])
          => seq[i].point = NextPoint(seq[i - 1].point, all)
    /\ \A i \in 1 .. Len(seq) : HasPoint(seq[i]) => seq[i].point[1] <= last
    /\ Len(seq) < LOCAL_SCAN - 1 /\ HasPoint(seq[Len(seq)]) => seq[Len(seq)].point = end
    /\ \A p \in ring + 1 .. last : ~all[p].ring

OpenScan ==
    Open /\ ~Pending /\ Unharmed(OpenRing, Reported, harmed) =>
        SoFar(Gathered, OpenRing, Reported, got[Len(got)], sent, harmed)

ClosedScan ==
    /\ Open /\ Pending /\ Unharmed(OpenRing, PendingRing, harmed) =>
          OneRevolution(Gathered, PendingRing, sent)
    /\ HasScan /\ Unharmed(Opened, scan.closedBy, harmed) =>
          OneRevolution(scan.nodes, scan.closedBy, sent)

-----------------------------------------------------------------------------
(* The stamps.                                                             *)

\* The ring start under way, from its CT byte to its being collected, has set
\* a stamp: the end of the scan under way, if there is one.
StampSet(stamp) ==
    /\ tim_scan.start # 0
    /\ Open => tim_scan.start < tim_scan.end /\ tim_scan.end = stamp

RingInHeader == Len(header) >= 3 /\ header[3].value % 2 = 1

Stamps ==
    /\ \A i \in 1 .. Len(Stream) : i > Len(header) => tim_scan.start < Stamp(Stream[i])
    /\ tim_scan.start <= 1000 * Len(sent) + position
    /\ Open => tim_scan.start # 0
    /\ RingInHeader => StampSet(Stamp(header[3]))
    /\ CheckSumResult /\ package.ring => StampSet(1000 * Current + 3)
    /\ Pending => StampSet(1000 * PendingRing + 3)

\* The first stamp ever is that of the first ring start, if nothing happened up
\* to there.
FirstStamp ==
    /\ Open /\ Unharmed(1, OpenRing, harmed) => tim_scan.start = 1000 * OpenRing + 3
    /\ ~Open /\ Pending /\ Unharmed(1, PendingRing, harmed) => tim_scan.start = 1000 * PendingRing + 3
    /\ ~Open /\ CheckSumResult /\ Unharmed(1, Current, harmed) =>
          tim_scan.start = IF package.ring THEN 1000 * Current + 3 ELSE 0
    /\ ~Open /\ ~Pending /\ ~CheckSumResult /\ Unharmed(1, Fitted + 1, harmed) =>
          tim_scan.start = IF RingInHeader THEN Stamp(header[3]) ELSE 0

StreamInv ==
    /\ Types /\ Control /\ Origins /\ NoGaps
    /\ WholePackage /\ PointsBehind /\ PointsInOrder /\ LastPoint /\ Aligned /\ Searched
    /\ RingStarts /\ NodesSent /\ ErrorTold /\ OpenScan /\ ClosedScan
    /\ Stamps /\ FirstStamp /\ ScanTimesFit

-----------------------------------------------------------------------------
(* Facts about packages and sequences.                                     *)

LEMMA ByteValueFacts ==
    /\ \A v \in ByteValues : v \in Nat /\ v <= 255
    /\ \A v \in Nat : v <= 255 => v \in ByteValues
  BY DEF ByteValues

LEMMA KindFacts ==
    ASSUME NEW kind \in KINDS
    PROVE  /\ kind.ring \in BOOLEAN /\ kind.samples \in Seq(Samples)
           /\ Len(kind.samples) \in Nat /\ 1 <= Len(kind.samples) /\ Len(kind.samples) <= 255
           /\ Len(kind.samples) \in ByteValues /\ (kind.ring => Len(kind.samples) = 1)
           /\ Size(kind) = 10 + 3 * Len(kind.samples)
           /\ Size(kind) \in Nat /\ 13 <= Size(kind) /\ Size(kind) <= 775
  <1>1. kind.ring \in BOOLEAN /\ kind.samples \in Seq(Samples) /\ (kind.ring => Len(kind.samples) = 1)
    BY StreamAssumption
  <1>2. Len(kind.samples) \in ByteValues /\ Len(kind.samples) # 0
    BY StreamAssumption
  <1>3. Len(kind.samples) \in Nat /\ 1 <= Len(kind.samples) /\ Len(kind.samples) <= 255
    <2>1. \A v \in ByteValues : v # 0 => v \in Nat /\ 1 <= v /\ v <= 255
      BY ByteValueFacts
    <2> QED BY <1>2, <2>1
  <1>4. Size(kind) = 10 + 3 * Len(kind.samples)
    BY DEF Size, PackagePaidBytes, PackageSampleBytes
  <1>5. Size(kind) \in Nat /\ 13 <= Size(kind) /\ Size(kind) <= 775
    BY <1>3, <1>4
  <1> QED BY <1>1, <1>2, <1>3, <1>4, <1>5

\* A byte of a package, by its place.
LEMMA ByteAtFacts ==
    ASSUME NEW kind \in KINDS
    PROVE  /\ ByteAt(kind, 1) = 170 /\ ByteAt(kind, 2) = 85
           /\ ByteAt(kind, 3) = IF kind.ring THEN 1 ELSE 0
           /\ ByteAt(kind, 4) = Len(kind.samples)
           /\ \A place \in 5 .. 10 : ByteAt(kind, place) \in {0, 1}
           /\ ByteAt(kind, 5) = 1 /\ ByteAt(kind, 7) = 1
           /\ \A place \in 11 .. Size(kind) :
                 \E i \in 1 .. Len(kind.samples) : ByteAt(kind, place) \in Range(kind.samples[i])
           /\ \A place \in 1 .. Size(kind) : ByteAt(kind, place) \in ByteValues
  <1> USE DEF PackagePaidBytes, PackageSampleBytes
  <1> DEFINE c == IF kind.ring THEN 1 ELSE 0
             n == Len(kind.samples)
  <1>a. /\ c \in {0, 1} /\ n \in Nat /\ n >= 1 /\ n \in ByteValues
        /\ kind.samples \in Seq(Samples) /\ Size(kind) = 10 + 3 * n
    BY KindFacts
  <1>1. \A place \in 1 .. 10 : ByteAt(kind, place) = <<170, 85, c, n, 1, 0, 1, 0, 0, 0>>[place]
    BY DEF ByteAt, PH_LOW, PH_HIGH
  <1> HIDE DEF c, n
  <1>2. ASSUME NEW place \in 11 .. Size(kind)
        PROVE  /\ \E i \in 1 .. Len(kind.samples) : ByteAt(kind, place) \in Range(kind.samples[i])
               /\ ByteAt(kind, place) \in ByteValues
    <2> DEFINE k == place - 10 - 1
               i == (k \div 3) + 1
               j == (k % 3) + 1
    <2>1. i \in 1 .. Len(kind.samples) /\ j \in 1 .. 3
      BY <1>a DEF n
    <2>2. kind.samples[i] \in [1 .. 3 -> ByteValues]
      BY <1>a, <2>1 DEF Samples
    <2>3. ByteAt(kind, place) = kind.samples[i][j]
      BY <1>a DEF ByteAt, SampleByte
    <2> HIDE DEF i, j
    <2>4. ByteAt(kind, place) \in Range(kind.samples[i])
      BY <2>1, <2>2, <2>3 DEF Range
    <2> QED BY <2>1, <2>2, <2>3, <2>4
  <1>3. /\ ByteAt(kind, 1) = 170 /\ ByteAt(kind, 2) = 85 /\ ByteAt(kind, 3) = c /\ ByteAt(kind, 4) = n
        /\ ByteAt(kind, 5) = 1 /\ ByteAt(kind, 7) = 1
    BY <1>1
  <1>4. \A place \in 5 .. 10 : ByteAt(kind, place) \in {0, 1}
    BY <1>1
  <1>5. \A place \in 1 .. Size(kind) : ByteAt(kind, place) \in ByteValues
    <2>1. {0, 1, 85, 170} \subseteq ByteValues
      BY ByteValueFacts
    <2>2. \A place \in 1 .. 10 : ByteAt(kind, place) \in ByteValues
      BY <1>a, <1>3, <1>4, <2>1
    <2> QED BY <1>a, <1>2, <2>2
  <1> QED BY <1>2, <1>3, <1>4, <1>5 DEF c, n

\* The stream, place by place.
LEMMA StreamPlaces ==
    ASSUME NEW h \in Seq(Bytes), NEW b \in Seq(Bytes), NEW l \in Seq(Bytes)
    PROVE  LET s == h \o b \o l
           IN  /\ s \in Seq(Bytes) /\ Len(s) = Len(h) + Len(b) + Len(l)
               /\ Len(h) \in Nat /\ Len(b) \in Nat /\ Len(l) \in Nat
               /\ \A i \in 1 .. Len(s) :
                    s[i] = IF i <= Len(h) THEN h[i]
                           ELSE IF i <= Len(h) + Len(b) THEN b[i - Len(h)]
                           ELSE l[i - Len(h) - Len(b)]
  <1>1. h \o b \in Seq(Bytes) /\ Len(h \o b) = Len(h) + Len(b)
    BY ConcatProperties
  <1> QED BY <1>1, ConcatProperties, LenProperties

LEMMA StreamFacts ==
    ASSUME Types
    PROVE  /\ Stream \in Seq(Bytes) /\ Len(Stream) \in Nat
           /\ Len(Stream) = Len(header) + Len(globalRecvBuffer) + Len(line)
           /\ Len(header) \in Nat /\ Len(globalRecvBuffer) \in Nat /\ Len(line) \in Nat
           /\ \A i \in 1 .. Len(Stream) :
                /\ Stream[i] \in Bytes
                /\ Stream[i] = IF i <= Len(header) THEN header[i]
                               ELSE IF i <= Len(header) + Len(globalRecvBuffer)
                                 THEN globalRecvBuffer[i - Len(header)]
                               ELSE line[i - Len(header) - Len(globalRecvBuffer)]
  <1>1. header \in Seq(Bytes) /\ globalRecvBuffer \in Seq(Bytes) /\ line \in Seq(Bytes)
    BY DEF Types
  <1>2. Stream \in Seq(Bytes)
    BY <1>1, StreamPlaces DEF Stream
  <1>3. Len(Stream) \in Nat /\ \A i \in 1 .. Len(Stream) : Stream[i] \in Bytes
    BY <1>2, LenProperties, ElementOfSeq
  <1> HIDE DEF Bytes
  <1> QED BY <1>1, <1>2, <1>3, StreamPlaces DEF Stream

LEMMA StreamFactsNext ==
    ASSUME Types'
    PROVE  /\ Stream' \in Seq(Bytes) /\ Len(Stream') \in Nat
           /\ Len(Stream') = Len(header') + Len(globalRecvBuffer') + Len(line')
           /\ Len(header') \in Nat /\ Len(globalRecvBuffer') \in Nat /\ Len(line') \in Nat
           /\ \A i \in 1 .. Len(Stream') :
                /\ Stream'[i] \in Bytes
                /\ Stream'[i] = IF i <= Len(header') THEN header'[i]
                               ELSE IF i <= Len(header') + Len(globalRecvBuffer')
                                 THEN globalRecvBuffer'[i - Len(header')]
                               ELSE line'[i - Len(header') - Len(globalRecvBuffer')]
  <1>1. header' \in Seq(Bytes) /\ globalRecvBuffer' \in Seq(Bytes) /\ line' \in Seq(Bytes)
    BY DEF Types
  <1>2. Stream' \in Seq(Bytes)
    BY <1>1, StreamPlaces DEF Stream
  <1>3. Len(Stream') \in Nat /\ \A i \in 1 .. Len(Stream') : Stream'[i] \in Bytes
    BY <1>2, LenProperties, ElementOfSeq
  <1> HIDE DEF Bytes
  <1> QED BY <1>1, <1>2, <1>3, StreamPlaces DEF Stream

\* The same, part by part.
LEMMA StreamParts ==
    ASSUME Types
    PROVE  /\ \A i \in 1 .. Len(header) : Stream[i] = header[i]
           /\ \A i \in 1 .. Len(globalRecvBuffer) : Stream[Len(header) + i] = globalRecvBuffer[i]
           /\ \A i \in 1 .. Len(line) :
                Stream[Len(header) + Len(globalRecvBuffer) + i] = line[i]
  <1>1. ASSUME NEW i \in 1 .. Len(header) PROVE Stream[i] = header[i]
    BY StreamFacts
  <1>2. ASSUME NEW i \in 1 .. Len(globalRecvBuffer)
        PROVE  Stream[Len(header) + i] = globalRecvBuffer[i]
    <2> DEFINE j == Len(header) + i
    <2>1. j \in 1 .. Len(Stream) /\ ~(j <= Len(header)) /\ j <= Len(header) + Len(globalRecvBuffer)
          /\ j - Len(header) = i
      BY StreamFacts
    <2> HIDE DEF j
    <2>2. Stream[j] = globalRecvBuffer[j - Len(header)]
      BY <2>1, StreamFacts
    <2> QED BY <2>1, <2>2 DEF j
  <1>3. ASSUME NEW i \in 1 .. Len(line)
        PROVE  Stream[Len(header) + Len(globalRecvBuffer) + i] = line[i]
    <2> DEFINE j == Len(header) + Len(globalRecvBuffer) + i
    <2>1. j \in 1 .. Len(Stream) /\ ~(j <= Len(header)) /\ ~(j <= Len(header) + Len(globalRecvBuffer))
          /\ j - Len(header) - Len(globalRecvBuffer) = i
      BY StreamFacts
    <2> HIDE DEF j
    <2>2. Stream[j] = line[j - Len(header) - Len(globalRecvBuffer)]
      BY <2>1, StreamFacts
    <2> QED BY <2>1, <2>2 DEF j
  <1> QED BY <1>1, <1>2, <1>3

LEMMA StreamPartsNext ==
    ASSUME Types'
    PROVE  /\ \A i \in 1 .. Len(header') : Stream'[i] = header'[i]
           /\ \A i \in 1 .. Len(globalRecvBuffer') : Stream'[Len(header') + i] = globalRecvBuffer'[i]
           /\ \A i \in 1 .. Len(line') :
                Stream'[Len(header') + Len(globalRecvBuffer') + i] = line'[i]
  <1>1. ASSUME NEW i \in 1 .. Len(header') PROVE Stream'[i] = header'[i]
    BY StreamFactsNext
  <1>2. ASSUME NEW i \in 1 .. Len(globalRecvBuffer')
        PROVE  Stream'[Len(header') + i] = globalRecvBuffer'[i]
    <2> DEFINE j == Len(header') + i
    <2>1. j \in 1 .. Len(Stream') /\ ~(j <= Len(header')) /\ j <= Len(header') + Len(globalRecvBuffer')
          /\ j - Len(header') = i
      BY StreamFactsNext
    <2> HIDE DEF j
    <2>2. Stream'[j] = globalRecvBuffer'[j - Len(header')]
      BY <2>1, StreamFactsNext
    <2> QED BY <2>1, <2>2 DEF j
  <1>3. ASSUME NEW i \in 1 .. Len(line')
        PROVE  Stream'[Len(header') + Len(globalRecvBuffer') + i] = line'[i]
    <2> DEFINE j == Len(header') + Len(globalRecvBuffer') + i
    <2>1. j \in 1 .. Len(Stream') /\ ~(j <= Len(header')) /\ ~(j <= Len(header') + Len(globalRecvBuffer'))
          /\ j - Len(header') - Len(globalRecvBuffer') = i
      BY StreamFactsNext
    <2> HIDE DEF j
    <2>2. Stream'[j] = line'[j - Len(header') - Len(globalRecvBuffer')]
      BY <2>1, StreamFactsNext
    <2> QED BY <2>1, <2>2 DEF j
  <1> QED BY <1>1, <1>2, <1>3

\* What a step does to the stream: it takes n bytes off its front, or puts one
\* at its end.
Dropped(s, t, n) ==
    /\ n \in Nat /\ n <= Len(s) /\ Len(t) = Len(s) - n
    /\ \A i \in 1 .. Len(s) - n : t[i] = s[i + n]

Grown(s, t, byte) ==
    /\ Len(t) = Len(s) + 1
    /\ \A i \in 1 .. Len(s) : t[i] = s[i]
    /\ t[Len(s) + 1] = byte

Drops(n) == Dropped(Stream, Stream', n)
Grows(byte) == Grown(Stream, Stream', byte)

LEMMA SubSeqFacts ==
    ASSUME NEW S, NEW s \in Seq(S), NEW n \in Nat, n <= Len(s)
    PROVE  /\ SubSeq(s, 1, n) \in Seq(S) /\ Len(SubSeq(s, 1, n)) = n
           /\ \A i \in 1 .. n : SubSeq(s, 1, n)[i] = s[i]
           /\ SubSeq(s, n + 1, Len(s)) \in Seq(S) /\ Len(SubSeq(s, n + 1, Len(s))) = Len(s) - n
           /\ \A i \in 1 .. Len(s) - n : SubSeq(s, n + 1, Len(s))[i] = s[n + i]
  <1>1. Len(s) \in Nat /\ \A i \in 1 .. Len(s) : s[i] \in S
    BY LenProperties, ElementOfSeq
  <1>2. /\ SubSeq(s, 1, n) \in Seq(S) /\ Len(SubSeq(s, 1, n)) = n
        /\ \A i \in 1 .. n : SubSeq(s, 1, n)[i] = s[i]
    <2>1. \A i \in 1 .. n : s[i] \in S
      BY <1>1
    <2> QED BY <2>1, SubSeqProperties
  <1>3. /\ SubSeq(s, n + 1, Len(s)) \in Seq(S) /\ Len(SubSeq(s, n + 1, Len(s))) = Len(s) - n
        /\ \A i \in 1 .. Len(s) - n : SubSeq(s, n + 1, Len(s))[i] = s[n + i]
    <2>1. \A i \in n + 1 .. Len(s) : s[i] \in S
      BY <1>1
    <2>2. n + 1 \in Int /\ Len(s) \in Int
      BY <1>1
    <2>3. /\ SubSeq(s, n + 1, Len(s)) \in Seq(S)
          /\ Len(SubSeq(s, n + 1, Len(s))) = IF n + 1 <= Len(s) THEN Len(s) - (n + 1) + 1 ELSE 0
          /\ \A i \in 1 .. Len(s) - (n + 1) + 1 : SubSeq(s, n + 1, Len(s))[i] = s[n + 1 + i - 1]
      BY <2>1, <2>2, SubSeqProperties
    <2>4. \A i \in 1 .. Len(s) - n : SubSeq(s, n + 1, Len(s))[i] = s[n + i]
      BY <1>1, <2>3
    <2> QED BY <1>1, <2>3, <2>4
  <1> QED BY <1>2, <1>3

LEMMA AppendFacts ==
    ASSUME NEW S, NEW s \in Seq(S), NEW e \in S
    PROVE  /\ Append(s, e) \in Seq(S) /\ Len(Append(s, e)) = Len(s) + 1 /\ Len(s) \in Nat
           /\ Append(s, e) # <<>>
           /\ \A i \in 1 .. Len(s) : Append(s, e)[i] = s[i]
           /\ Append(s, e)[Len(s) + 1] = e
  BY AppendProperties, LenProperties

-----------------------------------------------------------------------------
(* What the steps of the reader do to the stream.                          *)

LEMMA ReadHeaderDrops ==
    ASSUME Types, Types', Control, ReadHeader
    PROVE  Drops(0)
  <1> DEFINE n == PackagePaidBytes - Len(header)
  <1>1. n \in Nat /\ n <= Len(line) /\ globalRecvBuffer = <<>> /\ Len(globalRecvBuffer) = 0
    BY StreamFacts DEF ReadHeader, Control, PackagePaidBytes
  <1>2. header' = header /\ globalRecvBuffer' = SubSeq(line, 1, n) /\ line' = SubSeq(line, n + 1, Len(line))
    BY DEF ReadHeader
  <1> HIDE DEF n
  <1>3. line \in Seq(Bytes)
    BY DEF Types
  <1>4. /\ Len(globalRecvBuffer') = n /\ \A i \in 1 .. n : globalRecvBuffer'[i] = line[i]
        /\ Len(line') = Len(line) - n /\ \A i \in 1 .. Len(line) - n : line'[i] = line[n + i]
    BY <1>1, <1>2, <1>3, SubSeqFacts
  <1>a. header' = header /\ Len(header') = Len(header)
    BY <1>2
  <1>5. Len(Stream') = Len(Stream)
    BY <1>1, <1>a, <1>4, StreamFacts, StreamFactsNext
  <1>6. ASSUME NEW i \in 1 .. Len(Stream) PROVE Stream'[i] = Stream[i]
    <2>1. CASE i <= Len(header)
      BY <1>a, <1>5, <2>1, StreamFacts, StreamFactsNext
    <2>2. CASE i > Len(header) /\ i <= Len(header) + n
      BY <1>1, <1>a, <1>4, <1>5, <2>2, StreamFacts, StreamFactsNext
    <2>3. CASE i > Len(header) + n
      <3> DEFINE k == i - Len(header) - n
      <3>1. k \in 1 .. Len(line) - n /\ n + k = i - Len(header) /\ i \in 1 .. Len(Stream')
        BY <1>1, <1>5, <2>3, StreamFacts
      <3>2. Stream'[i] = line'[k]
        BY <1>1, <1>a, <1>4, <2>3, <3>1, StreamFactsNext
      <3>3. Stream[i] = line[n + k]
        BY <1>1, <2>3, <3>1, StreamFacts
      <3> QED BY <1>4, <3>1, <3>2, <3>3
    <2> QED BY <1>1, <2>1, <2>2, <2>3, StreamFacts
  <1> QED BY <1>5, <1>6, StreamFacts DEF Drops, Dropped

\* A byte looked at is kept in the header, or is dropped with it.
LEMMA ParseHeaderDrops ==
    ASSUME Types, Types', Control, ParseHeader
    PROVE  /\ Len(globalRecvBuffer) > 0 /\ Len(header) < PackagePaidBytes
           /\ Head(globalRecvBuffer) = Stream[Len(header) + 1]
           /\ Len(header) + 1 <= Len(Stream)
           /\ header' = Append(header, Head(globalRecvBuffer)) => Drops(0)
           /\ header' = <<>> => Drops(Len(header) + 1)
  <1> DEFINE h == Len(header)  b == Len(globalRecvBuffer)  l == Len(line)
  <1>1. globalRecvBuffer # <<>> /\ globalRecvBuffer \in Seq(Bytes) /\ header \in Seq(Bytes)
    BY DEF ParseHeader, Control, Types
  <1>2. /\ h \in Nat /\ b \in Nat /\ l \in Nat /\ b > 0 /\ h < PackagePaidBytes
        /\ Head(globalRecvBuffer) = globalRecvBuffer[1] /\ globalRecvBuffer[1] \in Bytes
    BY <1>1, StreamFacts DEF Control, PackagePaidBytes, ParseHeader
  <1>3. /\ Len(globalRecvBuffer') = b - 1
        /\ \A i \in 1 .. b - 1 : globalRecvBuffer'[i] = globalRecvBuffer[i + 1]
    BY <1>1, HeadTailProperties DEF ParseHeader
  <1>4. line' = line /\ Len(line') = l
    BY DEF ParseHeader
  <1>5. Len(Stream) = h + b + l
    BY StreamFacts
  <1>6. /\ \A i \in 1 .. h : Stream[i] = header[i]
        /\ \A i \in 1 .. b : Stream[h + i] = globalRecvBuffer[i]
        /\ \A i \in 1 .. l : Stream[h + b + i] = line[i]
    BY StreamParts
  <1>7. ASSUME header' = Append(header, Head(globalRecvBuffer)) PROVE Drops(0)
    <2>1. /\ Len(header') = h + 1 /\ header'[h + 1] = globalRecvBuffer[1]
          /\ \A i \in 1 .. h : header'[i] = header[i]
      BY <1>1, <1>2, <1>7, AppendFacts
    <2>2. Len(Stream') = h + b + l
      BY <1>2, <1>3, <1>4, <2>1, StreamFactsNext
    <2>3. /\ \A i \in 1 .. h + 1 : Stream'[i] = header'[i]
          /\ \A i \in 1 .. b - 1 : Stream'[h + 1 + i] = globalRecvBuffer'[i]
          /\ \A i \in 1 .. l : Stream'[h + 1 + (b - 1) + i] = line'[i]
      BY <1>3, <1>4, <2>1, StreamPartsNext
    <2> HIDE DEF h, b, l
    <2>4. ASSUME NEW i \in 1 .. h + b + l PROVE Stream'[i] = Stream[i]
      <3>1. CASE i <= h
        BY <1>2, <1>6, <2>1, <2>3, <3>1
      <3>2. CASE i = h + 1
        BY <1>2, <1>6, <2>1, <2>3, <3>2
      <3>3. CASE i > h + 1 /\ i <= h + b
        <4>1. PICK k \in 1 .. b - 1 : i = h + 1 + k /\ i = h + (k + 1) /\ k + 1 \in 1 .. b
          <5>1. i - h - 1 \in 1 .. b - 1 /\ i = h + 1 + (i - h - 1)
                /\ i = h + ((i - h - 1) + 1) /\ (i - h - 1) + 1 \in 1 .. b
            BY <1>2, <3>3
          <5> QED BY <5>1
        <4> QED BY <1>3, <1>6, <2>3, <4>1
      <3>4. CASE i > h + b
        <4>1. PICK k \in 1 .. l : i = h + 1 + (b - 1) + k /\ i = h + b + k
          <5>1. i - h - b \in 1 .. l /\ i = h + 1 + (b - 1) + (i - h - b) /\ i = h + b + (i - h - b)
            BY <1>2, <3>4
          <5> QED BY <5>1
        <4>2. line'[k] = line[k]
          BY <1>4
        <4>3. Stream'[h + 1 + (b - 1) + k] = line'[k] /\ Stream[h + b + k] = line[k]
          BY <1>6, <2>3
        <4> QED BY <4>1, <4>2, <4>3
      <3> QED BY <1>2, <3>1, <3>2, <3>3, <3>4
    <2> QED BY <1>2, <1>5, <2>2, <2>4 DEF Drops, Dropped
  <1>8. ASSUME header' = <<>> PROVE Drops(h + 1)
    <2>1. Len(header') = 0
      BY <1>8
    <2>2. Len(Stream') = b - 1 + l
      BY <1>2, <1>3, <1>4, <2>1, StreamFactsNext
    <2>3. /\ \A i \in 1 .. b - 1 : Stream'[0 + i] = globalRecvBuffer'[i]
          /\ \A i \in 1 .. l : Stream'[0 + (b - 1) + i] = line'[i]
      BY <1>3, <1>4, <2>1, StreamPartsNext
    <2> HIDE DEF h, b, l
    <2>4. ASSUME NEW i \in 1 .. b - 1 + l PROVE Stream'[i] = Stream[i + (h + 1)]
      <3>1. CASE i < b
        <4>1. i \in 1 .. b - 1 /\ 0 + i = i /\ i + 1 \in 1 .. b /\ h + (i + 1) = i + (h + 1)
          BY <1>2, <3>1
        <4>2. Stream'[0 + i] = globalRecvBuffer'[i] /\ Stream[h + (i + 1)] = globalRecvBuffer[i + 1]
          BY <1>6, <2>3, <4>1
        <4> QED BY <1>3, <4>1, <4>2
      <3>2. CASE i >= b
        <4>1. PICK k \in 1 .. l : i = 0 + (b - 1) + k /\ i + (h + 1) = h + b + k
          <5>1. i - (b - 1) \in 1 .. l /\ i = 0 + (b - 1) + (i - (b - 1))
                /\ i + (h + 1) = h + b + (i - (b - 1))
            BY <1>2, <3>2
          <5> QED BY <5>1
        <4>2. line'[k] = line[k]
          BY <1>4
        <4>3. Stream'[0 + (b - 1) + k] = line'[k] /\ Stream[h + b + k] = line[k]
          BY <1>6, <2>3
        <4> QED BY <4>1, <4>2, <4>3
      <3> QED BY <1>2, <3>1, <3>2
    <2>5. Len(Stream) - (h + 1) = b - 1 + l /\ h + 1 \in Nat /\ h + 1 <= Len(Stream)
      BY <1>2, <1>5
    <2> QED BY <2>2, <2>4, <2>5 DEF Drops, Dropped
  <1>9. Head(globalRecvBuffer) = Stream[h + 1] /\ h + 1 <= Len(Stream)
    BY <1>2, <1>5, <1>6
  <1> QED BY <1>2, <1>7, <1>8, <1>9

LEMMA ReadPayloadDrops ==
    ASSUME Types, Types', Control, ReadPayload
    PROVE  LET n == header[4].value * PackageSampleBytes
           IN  /\ n \in Nat /\ n <= Len(line) /\ Len(header) = 10 /\ Drops(10 + n)
               /\ header[4].value \in Nat /\ 10 + n <= Len(Stream)
               /\ Len(SubSeq(line, 1, n)) = n /\ SubSeq(line, 1, n) \in Seq(Bytes)
               /\ \A i \in 1 .. n : SubSeq(line, 1, n)[i] = Stream[10 + i]
               /\ \A i \in 1 .. 10 : header[i] = Stream[i]
  <1> DEFINE n == header[4].value * PackageSampleBytes
             l == Len(line)
  <1>1. Len(header) = 10 /\ header \in Seq(Bytes) /\ line \in Seq(Bytes)
        /\ globalRecvBuffer = <<>> /\ Len(globalRecvBuffer) = 0 /\ l \in Nat
    BY StreamFacts DEF ReadPayload, Control, Types, PackagePaidBytes
  <1>2. header[4].value \in Nat
    <2>1. 4 \in 1 .. Len(header)
      BY <1>1
    <2>2. header[4] \in Bytes
      BY <1>1, <2>1, ElementOfSeq
    <2> QED BY <2>2, ByteValueFacts DEF Bytes
  <1>3. n \in Nat /\ n <= l
    BY <1>2 DEF ReadPayload, PackageSampleBytes
  <1>4. header' = <<>> /\ Len(header') = 0 /\ Len(globalRecvBuffer') = 0
        /\ line' = SubSeq(line, n + 1, Len(line))
    BY <1>1 DEF ReadPayload
  <1> HIDE DEF n
  <1>5. /\ Len(line') = l - n /\ \A i \in 1 .. l - n : line'[i] = line[n + i]
        /\ Len(SubSeq(line, 1, n)) = n /\ SubSeq(line, 1, n) \in Seq(Bytes)
        /\ \A i \in 1 .. n : SubSeq(line, 1, n)[i] = line[i]
    BY <1>1, <1>3, <1>4, SubSeqFacts
  <1>6. Len(Stream) = 10 + l /\ Len(Stream') = l - n
    BY <1>1, <1>4, <1>5, StreamFacts, StreamFactsNext
  <1>7. /\ \A i \in 1 .. 10 : Stream[i] = header[i]
        /\ \A i \in 1 .. l : Stream[10 + 0 + i] = line[i]
    BY <1>1, StreamParts
  <1>8. \A i \in 1 .. l - n : Stream'[0 + 0 + i] = line'[i]
    BY <1>4, <1>5, StreamPartsNext
  <1>9. /\ \A i \in 1 .. l - n : line'[i] = line[n + i]
        /\ Len(SubSeq(line, 1, n)) = n /\ \A i \in 1 .. n : SubSeq(line, 1, n)[i] = line[i]
    BY <1>5
  <1> HIDE DEF l
  <1>10. Drops(10 + n)
    <2>1. ASSUME NEW i \in 1 .. l - n PROVE Stream'[i] = Stream[i + (10 + n)]
      <3>1. 0 + 0 + i = i /\ n + i \in 1 .. l /\ 10 + 0 + (n + i) = i + (10 + n)
        BY <1>1, <1>3
      <3>2. Stream'[0 + 0 + i] = line'[i] /\ Stream[10 + 0 + (n + i)] = line[n + i]
        BY <1>7, <1>8, <3>1
      <3>3. line'[i] = line[n + i]
        BY <1>9
      <3> QED BY <3>1, <3>2, <3>3
    <2>2. Len(Stream) - (10 + n) = l - n /\ 10 + n \in Nat /\ 10 + n <= Len(Stream)
      BY <1>1, <1>3, <1>6
    <2> QED BY <1>6, <2>1, <2>2 DEF Drops, Dropped
  <1>11. \A i \in 1 .. n : SubSeq(line, 1, n)[i] = Stream[10 + i]
    <2> SUFFICES ASSUME NEW i \in 1 .. n PROVE SubSeq(line, 1, n)[i] = Stream[10 + i]
      OBVIOUS
    <2>1. i \in 1 .. l /\ 10 + 0 + i = 10 + i
      BY <1>1, <1>3
    <2>2. Stream[10 + 0 + i] = line[i]
      BY <1>7, <2>1
    <2> QED BY <1>9, <2>1, <2>2
  <1>12. 10 + n <= Len(Stream)
    BY <1>1, <1>3, <1>6
  <1> QED BY <1>1, <1>2, <1>3, <1>5, <1>7, <1>10, <1>11, <1>12 DEF n, l

LEMMA WaitTimesOutDrops ==
    ASSUME Types, Types', Control, WaitTimesOut
    PROVE  /\ Drops(Len(header)) /\ globalRecvBuffer = <<>>
           /\ \A i \in 1 .. Len(header) : Stream[i] = header[i]
  <1> DEFINE h == Len(header)  l == Len(line)
  <1>1. header' = <<>> /\ Len(header') = 0 /\ line' = line /\ Len(line') = l
    BY DEF WaitTimesOut
  <1>2. globalRecvBuffer = <<>> /\ Len(globalRecvBuffer) = 0 /\ Len(globalRecvBuffer') = 0
    BY DEF WaitTimesOut, Control
  <1>3. h \in Nat /\ l \in Nat /\ Len(Stream) = h + l /\ Len(Stream') = l
    BY <1>1, <1>2, StreamFacts, StreamFactsNext
  <1>4. \A i \in 1 .. l : Stream[h + 0 + i] = line[i]
    BY <1>2, StreamParts
  <1>5. \A i \in 1 .. l : Stream'[0 + 0 + i] = line'[i]
    BY <1>1, <1>2, StreamPartsNext
  <1>6. \A i \in 1 .. h : Stream[i] = header[i]
    BY StreamParts
  <1> HIDE DEF h, l
  <1>7. ASSUME NEW i \in 1 .. l PROVE Stream'[i] = Stream[i + h]
    <2>1. 0 + 0 + i = i /\ h + 0 + i = i + h
      BY <1>3
    <2>2. Stream'[0 + 0 + i] = line'[i] /\ Stream[h + 0 + i] = line[i] /\ line'[i] = line[i]
      BY <1>1, <1>4, <1>5
    <2> QED BY <2>1, <2>2
  <1>8. Len(Stream) - h = l /\ h <= Len(Stream)
    BY <1>3
  <1>9. Drops(h)
    BY <1>3, <1>7, <1>8 DEF Drops, Dropped
  <1> QED BY <1>2, <1>6, <1>9 DEF h

LEMMA StreamKept ==
    ASSUME Types, UNCHANGED <<header, globalRecvBuffer, line>>
    PROVE  Stream' = Stream /\ Drops(0)
  BY StreamFacts DEF Stream, Drops, Dropped

LEMMA ArrivalGrows ==
    ASSUME Types, Types', NEW byte \in Bytes, line' = Append(line, byte),
           UNCHANGED <<header, globalRecvBuffer>>
    PROVE  Grows(byte)
  <1>1. /\ Len(line') = Len(line) + 1 /\ \A i \in 1 .. Len(line) : line'[i] = line[i]
        /\ line'[Len(line) + 1] = byte
    BY AppendFacts DEF Types
  <1> QED BY <1>1, StreamFacts, StreamFactsNext DEF Grows, Grown

-----------------------------------------------------------------------------
(* Types.                                                                  *)

LEMMA FrontFacts ==
    ASSUME NEW S, NEW s \in Seq(S), s # <<>>
    PROVE  /\ Front(s) \in Seq(S) /\ Len(Front(s)) = Len(s) - 1 /\ Len(s) \in Nat /\ Len(s) > 0
           /\ Last(s) = s[Len(s)] /\ Last(s) \in S
           /\ \A i \in 1 .. Len(s) - 1 : Front(s)[i] = s[i]
  <1>1. Len(s) \in Nat /\ Len(s) > 0 /\ Len(s) - 1 \in Nat /\ Len(s) - 1 <= Len(s) /\ Len(s) \in 1 .. Len(s)
    BY EmptySeq, LenProperties
  <1>2. s[Len(s)] \in S
    BY <1>1, ElementOfSeq
  <1>3. /\ SubSeq(s, 1, Len(s) - 1) \in Seq(S) /\ Len(SubSeq(s, 1, Len(s) - 1)) = Len(s) - 1
        /\ \A i \in 1 .. Len(s) - 1 : SubSeq(s, 1, Len(s) - 1)[i] = s[i]
    BY <1>1, SubSeqFacts
  <1> QED BY <1>1, <1>2, <1>3 DEF Front, Last

\* What the array holds of the nodes put into it.
LEMMA StoredFacts ==
    ASSUME NEW s \in Seq(Nodes), NEW t \in Seq(Nodes)
    PROVE  LET all == s \o t
               r   == Stored(s, t)
           IN  /\ r \in Seq(Nodes) /\ Len(r) \in Nat /\ Len(r) < LOCAL_SCAN
               /\ Len(all) = Len(s) + Len(t) /\ Len(s) \in Nat /\ Len(t) \in Nat
               /\ Len(r) = IF Len(all) < LOCAL_SCAN THEN Len(all) ELSE LOCAL_SCAN - 1
               /\ \A i \in 1 .. Len(r) : r[i] = IF i <= Len(s) THEN s[i] ELSE t[i - Len(s)]
  <1> DEFINE all == s \o t
  <1>1. /\ all \in Seq(Nodes) /\ Len(all) = Len(s) + Len(t) /\ Len(s) \in Nat /\ Len(t) \in Nat
        /\ \A i \in 1 .. Len(all) : all[i] = IF i <= Len(s) THEN s[i] ELSE t[i - Len(s)]
    BY ConcatProperties, LenProperties
  <1>2. LOCAL_SCAN \in Nat /\ LOCAL_SCAN > 1
    BY StreamAssumption
  <1>3. CASE Len(all) < LOCAL_SCAN
    BY <1>1, <1>2, <1>3 DEF Stored
  <1>4. CASE ~(Len(all) < LOCAL_SCAN)
    <2> DEFINE n == LOCAL_SCAN - 1
    <2>1. n \in Nat /\ n <= Len(all) /\ n < LOCAL_SCAN /\ Stored(s, t) = SubSeq(all, 1, n)
      BY <1>1, <1>2, <1>4 DEF Stored
    <2> HIDE DEF n, all
    <2>2. /\ SubSeq(all, 1, n) \in Seq(Nodes) /\ Len(SubSeq(all, 1, n)) = n
          /\ \A i \in 1 .. n : SubSeq(all, 1, n)[i] = all[i]
      BY <1>1, <2>1, SubSeqFacts
    <2>3. \A i \in 1 .. n : SubSeq(all, 1, n)[i] = IF i <= Len(s) THEN s[i] ELSE t[i - Len(s)]
      BY <1>1, <2>1, <2>2
    <2> QED BY <1>1, <1>4, <2>1, <2>2, <2>3 DEF n, all
  <1> QED BY <1>3, <1>4

\* The package whose check sum fits, and its current sample.
LEMMA CurrentFacts ==
    ASSUME Types, Control, WholePackage, CheckSumResult
    PROVE  /\ Current \in 1 .. Len(sent) /\ Current \in Nat /\ sent[Current] \in KINDS /\ Done(Current)
           /\ package.ring = sent[Current].ring
           /\ package.samples = Len(sent[Current].samples)
           /\ package.samples \in Nat /\ package.samples >= 1
           /\ package_Sample_Index \in Nat /\ package_Sample_Index < package.samples
           /\ PointAt(package_Sample_Index) = <<Current, package_Sample_Index + 1>>
           /\ package.ring => package.samples = 1 /\ package_Sample_Index = 0
  <1> DEFINE n == package_Sample_Index
  <1>1. /\ Current \in 1 .. Len(sent) /\ Done(Current) /\ package.ring = sent[Current].ring
        /\ package.samples = Len(sent[Current].samples)
        /\ \A i \in 1 .. Len(package.payload) : ComesFrom(package.payload[i], Current, PackagePaidBytes + i)
    BY DEF WholePackage, Done
  <1>2. sent \in Seq(KINDS) /\ n \in Nat
    BY DEF Types
  <1>3. sent[Current] \in KINDS /\ Current \in Nat
    BY <1>1, <1>2, ElementOfSeq, LenProperties
  <1>4. package.samples \in Nat /\ package.samples >= 1 /\ (package.ring => package.samples = 1)
    BY <1>1, <1>3, KindFacts
  <1>5. n < package.samples
    BY <1>2, <1>4 DEF Control
  <1>6. Len(package.payload) = 3 * package.samples
    BY DEF Control, PackageSampleBytes
  <1>7. 3 * n + 1 \in 1 .. Len(package.payload)
    BY <1>2, <1>4, <1>5, <1>6
  <1>8. ComesFrom(package.payload[3 * n + 1], Current, PackagePaidBytes + (3 * n + 1))
    BY <1>1, <1>7
  <1>9. PointAt(n) = <<Current, n + 1>>
    <2> DEFINE place == package.payload[3 * n + 1].place
    <2>1. place = 10 + (3 * n + 1) /\ package.payload[3 * n + 1].package = Current
      BY <1>8 DEF ComesFrom, PackagePaidBytes
    <2> HIDE DEF place
    <2>2. (place - 10 - 1) \div 3 + 1 = n + 1
      BY <1>2, <2>1
    <2> QED BY <2>1, <2>2 DEF PointAt, place, PackagePaidBytes, PackageSampleBytes
  <1>10. package.ring => n = 0
    BY <1>2, <1>4, <1>5
  <1> QED BY <1>1, <1>2, <1>3, <1>4, <1>5, <1>9, <1>10

LEMMA NodeFacts ==
    ASSUME Types, Control, WholePackage
    PROVE  /\ Node \in Nodes
           /\ CheckSumResult => /\ Node.point = <<Current, package_Sample_Index + 1>>
                                /\ HasPoint(Node) /\ Node.sync = package.ring
                                /\ Node.point \in Points
           /\ ~CheckSumResult => ~Node.sync /\ ~HasPoint(Node)
           /\ Node.index # NoIndex => ~package.ring /\ ~has_package_error
  <1>1. package.ring \in BOOLEAN /\ CheckSumResult \in BOOLEAN /\ package_index \in Nat
        /\ has_package_error \in BOOLEAN
    BY DEF Types
  <1>2. CASE CheckSumResult
    <2>1. /\ Current \in Nat /\ package_Sample_Index + 1 \in Nat
          /\ PointAt(package_Sample_Index) = <<Current, package_Sample_Index + 1>>
      BY <1>2, CurrentFacts
    <2>2. Node.point = <<Current, package_Sample_Index + 1>> /\ Node.sync = package.ring
      BY <1>1, <1>2, <2>1 DEF Node
    <2>3. Node.point \in Points /\ Node.point # <<>>
      BY <2>1, <2>2 DEF Points
    <2>4. Node.index \in Nat /\ Node.sync \in BOOLEAN /\ (Node.index # NoIndex => ~package.ring /\ ~has_package_error)
      BY <1>1, <2>2 DEF Node, NoIndex
    <2>5. Node = [sync |-> Node.sync, point |-> Node.point, index |-> Node.index]
      BY DEF Node
    <2> QED BY <1>2, <2>2, <2>3, <2>4, <2>5 DEF Nodes, HasPoint, NoPoint
  <1>3. CASE ~CheckSumResult
    <2>1. Node.point = NoPoint /\ ~Node.sync /\ Node.sync = FALSE
      BY <1>1, <1>3 DEF Node
    <2>2. Node.index \in Nat /\ (Node.index # NoIndex => ~package.ring /\ ~has_package_error)
      BY <1>1 DEF Node, NoIndex
    <2>3. Node = [sync |-> Node.sync, point |-> Node.point, index |-> Node.index]
      BY DEF Node
    <2> QED BY <1>3, <2>1, <2>2, <2>3 DEF Nodes, HasPoint, NoPoint
  <1> QED BY <1>2, <1>3

\* A byte the LiDAR sends.
LEMMA NextByteFacts ==
    ASSUME Types, PackageUnderWay
    PROVE  /\ sent # <<>> /\ Len(sent) \in Nat /\ Len(sent) >= 1 /\ Last(sent) = sent[Len(sent)]
           /\ sent[Len(sent)] \in KINDS
           /\ position + 1 \in 1 .. Size(sent[Len(sent)]) /\ position \in Nat
           /\ ByteAt(sent[Len(sent)], position + 1) \in ByteValues
           /\ NextByte \in Bytes
           /\ NextByte.value = ByteAt(sent[Len(sent)], position + 1)
           /\ ComesFrom(NextByte, Len(sent), position + 1) /\ ~NextByte.altered
           /\ \A v \in ByteValues :
                LET byte == [NextByte EXCEPT !.value = v, !.altered = TRUE]
                IN  /\ byte \in Bytes /\ ComesFrom(byte, Len(sent), position + 1)
                    /\ byte.altered /\ byte.value = v
  <1>1. sent \in Seq(KINDS) /\ position \in Nat /\ sent # <<>> /\ position < Size(Last(sent))
    BY DEF Types, PackageUnderWay
  <1>2. Len(sent) \in Nat /\ Len(sent) >= 1 /\ Last(sent) = sent[Len(sent)] /\ sent[Len(sent)] \in KINDS
    BY <1>1, FrontFacts
  <1>3. Size(sent[Len(sent)]) \in Nat
    BY <1>2, KindFacts
  <1>4. position + 1 \in 1 .. Size(sent[Len(sent)])
    BY <1>1, <1>2, <1>3
  <1>5. ByteAt(sent[Len(sent)], position + 1) \in ByteValues
    BY <1>2, <1>4, ByteAtFacts
  <1> HIDE DEF ByteValues
  <1>6. /\ NextByte \in Bytes /\ ComesFrom(NextByte, Len(sent), position + 1) /\ ~NextByte.altered
        /\ NextByte.value = ByteAt(sent[Len(sent)], position + 1)
    BY <1>1, <1>2, <1>5 DEF NextByte, Bytes, ComesFrom
  <1>7. ASSUME NEW v \in ByteValues
        PROVE  LET byte == [NextByte EXCEPT !.value = v, !.altered = TRUE]
               IN  /\ byte \in Bytes /\ ComesFrom(byte, Len(sent), position + 1)
                   /\ byte.altered /\ byte.value = v
    <2> DEFINE byte == [NextByte EXCEPT !.value = v, !.altered = TRUE]
    <2>1. byte \in Bytes /\ byte.value = v /\ byte.altered /\ byte.package = NextByte.package
          /\ byte.place = NextByte.place
      BY <1>6 DEF Bytes
    <2> HIDE DEF byte
    <2>2. ComesFrom(byte, Len(sent), position + 1)
      BY <1>6, <2>1 DEF ComesFrom
    <2> QED BY <2>1, <2>2 DEF byte
  <1> QED BY <1>1, <1>2, <1>4, <1>5, <1>6, <1>7

\* The byte looked at is kept ...
KeepsByte ==
    LET byte == Head(globalRecvBuffer)
        n    == Len(header)
    IN  /\ header' = Append(header, byte) /\ has_package_error' = has_package_error
        /\ tim_scan' = IF n = 2 THEN RingStamp(tim_scan, byte) ELSE tim_scan
        /\ (n = 0 => byte.value = PH_LOW) /\ (n = 1 => byte.value = PH_HIGH)
        /\ n \in {4, 6} => byte.value % 2 = 1

\* ... or the search for a head starts over behind it.
StartsOver ==
    LET byte == Head(globalRecvBuffer)
        n    == Len(header)
    IN  /\ header' = <<>> /\ tim_scan' = tim_scan
        /\ n \in {0, 1, 4, 6}
        /\ has_package_error' = (has_package_error \/ n \in {4, 6})
        /\ (n = 0 => byte.value # PH_LOW) /\ (n = 1 => byte.value # PH_HIGH)
        /\ n \in {4, 6} => byte.value % 2 # 1

LEMMA ParseHeaderCases ==
    ASSUME Types, Control, ParseHeader
    PROVE  KeepsByte \/ StartsOver
  <1> DEFINE byte  == Head(globalRecvBuffer)
             n     == Len(header)
             start == [header |-> header, error |-> has_package_error, tim |-> tim_scan]
             state == HeaderByte(start, byte)
  <1>1. header' = state.header /\ has_package_error' = state.error /\ tim_scan' = state.tim
    BY DEF ParseHeader
  <1>2. n \in Nat /\ has_package_error \in BOOLEAN
    BY StreamFacts DEF Types
  <1>3. start.header = header /\ start.error = has_package_error /\ start.tim = tim_scan
    OBVIOUS
  <1>4. DOMAIN start = {"header", "error", "tim"}
    OBVIOUS
  <1> DEFINE kept  == [start EXCEPT !.header = Append(@, byte)]
             again == [start EXCEPT !.header = <<>>]
  <1>5. /\ kept.header = Append(header, byte) /\ kept.error = has_package_error /\ kept.tim = tim_scan
        /\ again.header = <<>> /\ again.error = has_package_error /\ again.tim = tim_scan
    OBVIOUS
  <1>6. /\ [kept EXCEPT !.tim = RingStamp(@, byte)].header = Append(header, byte)
        /\ [kept EXCEPT !.tim = RingStamp(@, byte)].error = has_package_error
        /\ [kept EXCEPT !.tim = RingStamp(@, byte)].tim = RingStamp(tim_scan, byte)
        /\ [again EXCEPT !.error = TRUE].header = <<>>
        /\ [again EXCEPT !.error = TRUE].error = TRUE
        /\ [again EXCEPT !.error = TRUE].tim = tim_scan
    OBVIOUS
  <1>7. state = CASE n = 0 -> IF byte.value = PH_LOW THEN kept ELSE again
                  [] n = 1 -> IF byte.value = PH_HIGH THEN kept ELSE again
                  [] n = 2 -> [kept EXCEPT !.tim = RingStamp(@, byte)]
                  [] n \in {4, 6} ->
                       IF byte.value % 2 = 1 THEN kept ELSE [again EXCEPT !.error = TRUE]
                  [] OTHER -> kept
    BY <1>3 DEF HeaderByte
  <1> DEFINE stamped == [kept EXCEPT !.tim = RingStamp(@, byte)]
             failed  == [again EXCEPT !.error = TRUE]
             even    == byte.value % 2 # 1
  <1> HIDE DEF kept, again, stamped, failed, state, start
  <1>8. CASE n \in {0, 1}
    <2>1. CASE state = kept /\ (n = 0 => byte.value = PH_LOW) /\ (n = 1 => byte.value = PH_HIGH)
      <3>1. header' = Append(header, byte) /\ has_package_error' = has_package_error /\ tim_scan' = tim_scan
        BY <1>1, <1>5, <2>1
      <3>2. n # 2 /\ n \notin {4, 6}
        BY <1>8
      <3>3. KeepsByte
        BY <2>1, <3>1, <3>2 DEF KeepsByte
      <3> QED BY <3>3
    <2>2. CASE state = again /\ (n = 0 => byte.value # PH_LOW) /\ (n = 1 => byte.value # PH_HIGH)
      <3>1. has_package_error = (has_package_error \/ n \in {4, 6})
        BY <1>2, <1>8
      <3>2. header' = <<>> /\ has_package_error' = has_package_error /\ tim_scan' = tim_scan
        BY <1>1, <1>5, <2>2
      <3>3. n \in {0, 1, 4, 6} /\ n \notin {4, 6}
        BY <1>8
      <3>4. StartsOver
        BY <2>2, <3>1, <3>2, <3>3 DEF StartsOver
      <3> QED BY <3>4
    <2> QED BY <1>7, <1>8, <2>1, <2>2
  <1>9. CASE n = 2
    <2>1. state = stamped
      BY <1>7, <1>9 DEF stamped
    <2> QED BY <1>1, <1>6, <1>9, <2>1 DEF KeepsByte, stamped
  <1>10. CASE n \in {4, 6}
    <2>1. state = IF even THEN failed ELSE kept
      BY <1>7, <1>10 DEF failed
    <2>2. CASE even
      <3>1. TRUE = (has_package_error \/ n \in {4, 6})
        BY <1>10
      <3>2. header' = <<>> /\ has_package_error' = TRUE /\ tim_scan' = tim_scan
        BY <1>1, <1>6, <2>1, <2>2 DEF failed
      <3>3. n \in {0, 1, 4, 6} /\ n # 0 /\ n # 1
        BY <1>10
      <3>4. StartsOver
        BY <1>10, <2>2, <3>1, <3>2, <3>3 DEF StartsOver
      <3> QED BY <3>4
    <2>3. CASE ~even
      <3>1. header' = Append(header, byte) /\ has_package_error' = has_package_error /\ tim_scan' = tim_scan
        BY <1>1, <1>5, <2>1, <2>3
      <3>2. n # 2 /\ n # 0 /\ n # 1
        BY <1>10
      <3>3. KeepsByte
        BY <2>3, <3>1, <3>2 DEF KeepsByte
      <3> QED BY <3>3
    <2> QED BY <2>2, <2>3
  <1>11. CASE n \notin {0, 1, 2, 4, 6}
    <2>1. state = kept
      BY <1>7, <1>11
    <2> QED BY <1>1, <1>5, <1>11, <2>1 DEF KeepsByte
  <1> QED BY <1>8, <1>9, <1>10, <1>11

LEMMA PackagesOfFacts ==
    ASSUME NEW s \in Seq(Bytes)
    PROVE  /\ PackagesOf(s) \subseteq Nat
           /\ \A i \in 1 .. Len(s) : s[i].package \in PackagesOf(s)
           /\ \A p \in PackagesOf(s) : \E i \in 1 .. Len(s) : p = s[i].package
  <1>1. DOMAIN s = 1 .. Len(s) /\ \A i \in 1 .. Len(s) : s[i] \in Bytes
    BY LenProperties, ElementOfSeq
  <1>2. \A i \in 1 .. Len(s) : s[i].package \in Nat
    BY <1>1 DEF Bytes
  <1> QED BY <1>1, <1>2 DEF PackagesOf

LEMMA AfterSampleFacts ==
    ASSUME Types
    PROVE  /\ AfterSample.index \in Nat /\ AfterSample.fits \in BOOLEAN
           /\ LastSample => AfterSample.index = 0 /\ ~AfterSample.fits
           /\ ~LastSample => /\ AfterSample.index = package_Sample_Index + 1
                             /\ AfterSample.fits = CheckSumResult
  <1>1. package_Sample_Index \in Nat /\ CheckSumResult \in BOOLEAN
    BY DEF Types
  <1>2. CASE LastSample
    BY <1>2 DEF AfterSample
  <1>3. CASE ~LastSample
    BY <1>1, <1>3 DEF AfterSample
  <1> QED BY <1>2, <1>3

\* The byte under way, and what a header of ten bytes says.
LEMMA HeaderFacts ==
    ASSUME Types
    PROVE  /\ \A i \in 1 .. Len(header) : header[i] \in Bytes /\ header[i].value \in Nat
                                          /\ header[i].value \in ByteValues
           /\ globalRecvBuffer # <<>> => Head(globalRecvBuffer) \in Bytes
  <1>1. header \in Seq(Bytes) /\ globalRecvBuffer \in Seq(Bytes)
    BY DEF Types
  <1>2. \A i \in 1 .. Len(header) : header[i] \in Bytes
    BY <1>1, ElementOfSeq
  <1>3. \A byte \in Bytes : byte.value \in Nat /\ byte.value \in ByteValues
    BY ByteValueFacts DEF Bytes
  <1> QED BY <1>1, <1>2, <1>3, HeadTailProperties

LEMMA RingStampFacts ==
    ASSUME Types, NEW byte \in Bytes
    PROVE  /\ RingStamp(tim_scan, byte) \in [start : Nat, end : Nat]
           /\ Stamp(byte) \in Nat /\ Stamp(byte) = 1000 * byte.package + byte.place
           /\ byte.value % 2 = 0 => RingStamp(tim_scan, byte) = tim_scan
           /\ byte.value % 2 = 1 /\ tim_scan.start = 0 =>
                /\ RingStamp(tim_scan, byte).start = Stamp(byte)
                /\ RingStamp(tim_scan, byte).end = tim_scan.end
           /\ byte.value % 2 = 1 /\ tim_scan.start # 0 =>
                /\ RingStamp(tim_scan, byte).start = tim_scan.start
                /\ RingStamp(tim_scan, byte).end = Stamp(byte)
           /\ byte.value % 2 \in {0, 1}
  <1>1. Stamp(byte) \in Nat
    BY DEF Bytes, Stamp
  <1>2. tim_scan \in [start : Nat, end : Nat]
    BY DEF Types
  <1>3. byte.value \in Nat
    BY ByteValueFacts DEF Bytes
  <1>4. byte.value % 2 \in {0, 1}
    BY <1>3
  <1>5. byte.value % 2 = 0 => RingStamp(tim_scan, byte) = tim_scan
    BY DEF RingStamp
  <1>6. byte.value % 2 = 1 /\ tim_scan.start = 0 =>
            RingStamp(tim_scan, byte) = [tim_scan EXCEPT !.start = Stamp(byte)]
    BY DEF RingStamp
  <1>7. byte.value % 2 = 1 /\ tim_scan.start # 0 =>
            RingStamp(tim_scan, byte) = [tim_scan EXCEPT !.end = Stamp(byte)]
    BY DEF RingStamp
  <1>8. /\ [tim_scan EXCEPT !.start = Stamp(byte)] \in [start : Nat, end : Nat]
        /\ [tim_scan EXCEPT !.start = Stamp(byte)].start = Stamp(byte)
        /\ [tim_scan EXCEPT !.start = Stamp(byte)].end = tim_scan.end
        /\ [tim_scan EXCEPT !.end = Stamp(byte)] \in [start : Nat, end : Nat]
        /\ [tim_scan EXCEPT !.end = Stamp(byte)].end = Stamp(byte)
        /\ [tim_scan EXCEPT !.end = Stamp(byte)].start = tim_scan.start
    BY <1>1, <1>2
  <1>9. Stamp(byte) = 1000 * byte.package + byte.place
    BY DEF Stamp
  <1>10. RingStamp(tim_scan, byte) \in [start : Nat, end : Nat]
    BY <1>2, <1>4, <1>5, <1>6, <1>7, <1>8
  <1> QED BY <1>1, <1>4, <1>5, <1>6, <1>7, <1>8, <1>9, <1>10

LEMMA TypesNext ==
    ASSUME Types, Control, WholePackage, RingStarts, Next
    PROVE  Types'
  <1> USE DEF lidarVars, parserVars, scanVars, historyVars
  <1> HIDE DEF Bytes, Points, Nodes
  <1>1. CASE BeginPackage
    <2>1. PICK kind \in KINDS : sent' = Append(sent, kind)
      BY <1>1 DEF BeginPackage
    <2>2. sent' \in Seq(KINDS)
      BY <2>1, AppendFacts DEF Types
    <2> QED BY <1>1, <2>2 DEF BeginPackage, Types
  <1>2. CASE ByteArrives
    <2>1. line' \in Seq(Bytes) /\ position' \in Nat
      <3>1. NextByte \in Bytes /\ line \in Seq(Bytes) /\ position \in Nat
        BY <1>2, NextByteFacts DEF ByteArrives, Types
      <3> QED BY <1>2, <3>1, AppendFacts DEF ByteArrives
    <2> QED BY <1>2, <2>1 DEF ByteArrives, Types
  <1>3. CASE ByteHarmed
    <2>1. position' \in Nat /\ mishaps' \in Nat
      <3>1. position' = position + 1 /\ mishaps' = mishaps + 1
        BY <1>3 DEF ByteHarmed
      <3>2. position \in Nat /\ mishaps \in Nat
        BY DEF Types
      <3> QED BY <3>1, <3>2
    <2>2. line' \in Seq(Bytes)
      <3>1. CASE UNCHANGED line
        BY <3>1 DEF Types
      <3>2. CASE \E v \in NOISE \ {NextByte.value} :
                   line' = Append(line, [NextByte EXCEPT !.value = v, !.altered = TRUE])
        <4>1. PICK v \in NOISE : line' = Append(line, [NextByte EXCEPT !.value = v, !.altered = TRUE])
          BY <3>2
        <4>2. v \in ByteValues
          BY StreamAssumption
        <4>3. [NextByte EXCEPT !.value = v, !.altered = TRUE] \in Bytes
          BY <1>3, <4>2, NextByteFacts DEF ByteHarmed
        <4> QED BY <4>1, <4>3, AppendFacts DEF Types
      <3> QED BY <1>3, <3>1, <3>2 DEF ByteHarmed
    <2>3. harmed' \subseteq Nat
      BY <1>3, NextByteFacts DEF ByteHarmed, Types
    <2> QED BY <1>3, <2>1, <2>2, <2>3 DEF ByteHarmed, Types
  <1>4. CASE ReadHeader
    <2>1. PackagePaidBytes - Len(header) \in Nat /\ line \in Seq(Bytes)
      BY StreamFacts DEF Control, PackagePaidBytes, Types
    <2>2. line' \in Seq(Bytes) /\ globalRecvBuffer' \in Seq(Bytes)
      BY <1>4, <2>1, SubSeqFacts DEF ReadHeader
    <2> QED BY <1>4, <2>2 DEF ReadHeader, Types
  <1>5. CASE ParseHeader
    <2>1. globalRecvBuffer # <<>> /\ globalRecvBuffer \in Seq(Bytes) /\ header \in Seq(Bytes)
      BY <1>5 DEF ParseHeader, Control, Types
    <2>2. Head(globalRecvBuffer) \in Bytes /\ globalRecvBuffer' \in Seq(Bytes)
      BY <1>5, <2>1, HeaderFacts, HeadTailProperties DEF ParseHeader
    <2>3. header' \in Seq(Bytes)
      <3>1. header' = Append(header, Head(globalRecvBuffer)) \/ header' = <<>>
        BY <1>5, ParseHeaderCases DEF KeepsByte, StartsOver
      <3>2. <<>> \in Seq(Bytes)
        BY EmptySeq
      <3>3. Append(header, Head(globalRecvBuffer)) \in Seq(Bytes)
        BY <2>1, <2>2, AppendFacts
      <3> QED BY <3>1, <3>2, <3>3
    <2>4. tim_scan' \in [start : Nat, end : Nat]
      <3>1. tim_scan' = tim_scan \/ tim_scan' = RingStamp(tim_scan, Head(globalRecvBuffer))
        BY <1>5, ParseHeaderCases DEF KeepsByte, StartsOver
      <3> QED BY <2>2, <3>1, RingStampFacts DEF Types
    <2>5. has_package_error' \in BOOLEAN
      <3>1. CASE KeepsByte
        BY <3>1 DEF KeepsByte, Types
      <3>2. CASE StartsOver
        BY <3>2 DEF StartsOver, Types
      <3> QED BY <1>5, <3>1, <3>2, ParseHeaderCases
    <2>6. searched' \subseteq Nat
      <3>1. Head(globalRecvBuffer).package \in Nat
        BY <2>2 DEF Bytes
      <3> QED BY <1>5, <3>1 DEF ParseHeader, Types
    <2>7. at' \in {"judge", "header", "parse", "payload", "node", "collect"}
      BY <1>5 DEF ParseHeader
    <2>8. UNCHANGED <<lidarVars, line, package, CheckSumResult, package_Sample_Index,
                      package_index, local_buf, scanVars, harmed, got, mishaps>>
      BY <1>5 DEF ParseHeader
    <2> QED BY <2>2, <2>3, <2>4, <2>5, <2>6, <2>7, <2>8 DEF Types
  <1>6. CASE ReadPayload
    <2>1. Len(header) = 10
      BY <1>6 DEF ReadPayload, Control, PackagePaidBytes
    <2>2. header[4].value \in Nat /\ header[4].value \in ByteValues
      BY <2>1, HeaderFacts
    <2> DEFINE n == header[4].value * PackageSampleBytes
    <2>3. n \in Nat /\ n <= Len(line) /\ line \in Seq(Bytes)
      <3>1. n <= Len(line)
        BY <1>6 DEF ReadPayload
      <3>2. line \in Seq(Bytes)
        BY DEF Types
      <3> QED BY <2>2, <3>1, <3>2 DEF PackageSampleBytes
    <2>4. SubSeq(line, 1, n) \in Seq(Bytes) /\ SubSeq(line, n + 1, Len(line)) \in Seq(Bytes)
      <3> HIDE DEF n
      <3> QED BY <2>3, SubSeqFacts
    <2>5. line' \in Seq(Bytes)
      BY <1>6, <2>4 DEF ReadPayload
    <2>6. package' \in [ring : BOOLEAN, samples : ByteValues, payload : Seq(Bytes)]
      <3>1. package' = [ring |-> header[3].value % 2 = 1, samples |-> header[4].value,
                        payload |-> SubSeq(line, 1, n)]
        BY <1>6 DEF ReadPayload
      <3> HIDE DEF n
      <3> QED BY <2>2, <2>4, <3>1
    <2>7. CheckSumResult' \in BOOLEAN /\ has_package_error' \in BOOLEAN
      <3>1. CheckSumResult' = CheckSumFits(header \o SubSeq(line, 1, n))
            /\ has_package_error' = (has_package_error \/ ~CheckSumFits(header \o SubSeq(line, 1, n)))
        BY <1>6 DEF ReadPayload
      <3>2. CheckSumFits(header \o SubSeq(line, 1, n)) \in BOOLEAN
        BY DEF CheckSumFits
      <3> QED BY <3>1, <3>2
    <2>8. /\ header' = <<>> /\ at' = "node"
          /\ UNCHANGED <<lidarVars, globalRecvBuffer, package_Sample_Index, package_index,
                         tim_scan, local_buf, scanVars, historyVars>>
      BY <1>6 DEF ReadPayload
    <2>9. header' \in Seq(Bytes)
      BY <2>8, EmptySeq
    <2> QED BY <2>5, <2>6, <2>7, <2>8, <2>9 DEF Types
  <1>7. CASE WaitTimesOut
    <2>1. header' = <<>> /\ header' \in Seq(Bytes)
      BY <1>7, EmptySeq DEF WaitTimesOut
    <2>2. harmed' \subseteq Nat
      BY <1>7, PackagesOfFacts DEF WaitTimesOut, Types
    <2> QED BY <1>7, <2>1, <2>2 DEF WaitTimesOut, Types
  <1>8. CASE EmitNode
    <2>1. local_buf' \in Seq(Nodes)
      BY <1>8, NodeFacts, AppendFacts DEF EmitNode, Types
    <2>2. got' \in Seq(Points)
      <3>1. got \in Seq(Points) /\ (Node.point # NoPoint => Node.point \in Points)
        BY NodeFacts DEF Types, HasPoint
      <3>2. got' = IF Node.point = NoPoint THEN got ELSE Append(got, Node.point)
        BY <1>8 DEF EmitNode
      <3>3. CASE Node.point = NoPoint
        BY <3>1, <3>2, <3>3
      <3>4. CASE Node.point # NoPoint
        BY <3>1, <3>2, <3>4, AppendFacts
      <3> QED BY <3>3, <3>4
    <2>3. package_Sample_Index' \in Nat /\ CheckSumResult' \in BOOLEAN
      BY <1>8, AfterSampleFacts DEF EmitNode
    <2>4. package_index' \in Nat /\ has_package_error' \in BOOLEAN
      BY <1>8 DEF EmitNode, Types
    <2>5. at' \in {"judge", "header", "parse", "payload", "node", "collect"}
      BY <1>8 DEF EmitNode
    <2>6. UNCHANGED <<lidarVars, line, globalRecvBuffer, header, package, tim_scan,
                      scanVars, harmed, searched, mishaps>>
      BY <1>8 DEF EmitNode
    <2> QED BY <2>1, <2>2, <2>3, <2>4, <2>5, <2>6 DEF Types
  <1>9. CASE CallTimesOut
    BY <1>9 DEF CallTimesOut, Types
  <1>10. CASE Collect
    <2>1. local_scan \in Seq(Nodes) /\ local_buf \in Seq(Nodes) /\ <<>> \in Seq(Nodes)
      BY EmptySeq DEF Types
    <2> DEFINE closes == local_buf # <<>> /\ Last(local_buf).sync
               before == IF closes THEN Front(local_buf) ELSE local_buf
               stored == Stored(local_scan, before)
    <2>2. before \in Seq(Nodes)
      BY <2>1, FrontFacts
    <2>3. stored \in Seq(Nodes)
      <3> HIDE DEF before
      <3> QED BY <2>1, <2>2, StoredFacts
    <2>4. local_scan' \in Seq(Nodes)
      <3>1. closes => <<Last(local_buf)>> \in Seq(Nodes)
        <4>1. closes => Last(local_buf) \in Nodes
          BY <2>1, FrontFacts
        <4> QED BY <4>1
      <3>2. local_scan' = IF closes THEN <<Last(local_buf)>> ELSE stored
        BY <1>10 DEF Collect
      <3> HIDE DEF closes, stored
      <3> QED BY <2>3, <3>1, <3>2
    <2>5. closes => Last(local_buf).point[1] \in Nat
      <3> SUFFICES ASSUME closes PROVE Last(local_buf).point[1] \in Nat
        OBVIOUS
      <3>1. Last(local_buf) = local_buf[Len(local_buf)]
        BY <2>1, FrontFacts
      <3>2. got # <<>> /\ Last(local_buf).point = got[Len(got)]
        BY <3>1 DEF RingStarts, Pending
      <3>3. got[Len(got)] \in Points
        BY <3>2, FrontFacts DEF Types
      <3> QED BY <3>2, <3>3 DEF Points
    <2>6. scan' \in [nodes : Seq(Nodes), start : Nat, end : Nat, closedBy : Nat]
      <3>1. scan' = scan \/ (closes /\ scan' = [nodes |-> stored, start |-> tim_scan.start,
                                 end |-> tim_scan.end, closedBy |-> Last(local_buf).point[1]])
        BY <1>10 DEF Collect
      <3>2. tim_scan.start \in Nat /\ tim_scan.end \in Nat
        BY DEF Types
      <3>3. scan \in [nodes : Seq(Nodes), start : Nat, end : Nat, closedBy : Nat]
        BY DEF Types
      <3> HIDE DEF closes, stored
      <3> QED BY <2>3, <2>5, <3>1, <3>2, <3>3
    <2>7. tim_scan' \in [start : Nat, end : Nat]
      <3>1. tim_scan' = tim_scan \/ tim_scan' = [tim_scan EXCEPT !.start = tim_scan.end]
        BY <1>10 DEF Collect
      <3>2. tim_scan \in [start : Nat, end : Nat]
        BY DEF Types
      <3> QED BY <3>1, <3>2
    <2>8. /\ local_buf' = <<>> /\ at' = "judge"
          /\ UNCHANGED <<lidarVars, line, globalRecvBuffer, header, package, CheckSumResult,
                         package_Sample_Index, has_package_error, package_index, historyVars>>
      BY <1>10 DEF Collect
    <2> QED BY <2>1, <2>4, <2>6, <2>7, <2>8 DEF Types
  <1>11. CASE Listen
    BY <1>11 DEF Listen, Types
  <1>12. CASE Flush
    <2>1. position' \in Nat
      <3>1. sent # <<>> /\ sent \in Seq(KINDS) /\ position' = Size(Last(sent))
        BY <1>12 DEF Flush, Types
      <3>2. Last(sent) \in KINDS
        BY <3>1, FrontFacts
      <3> QED BY <3>1, <3>2, KindFacts
    <2>2. line' = <<>> /\ line' \in Seq(Bytes)
      BY <1>12, EmptySeq DEF Flush
    <2>3. harmed' \subseteq Nat
      <3>1. PackagesOf(line) \subseteq Nat /\ harmed \subseteq Nat /\ Len(sent) \in Nat
        BY PackagesOfFacts, LenProperties DEF Types
      <3>2. harmed' = harmed \union PackagesOf(line) \union (IF PackageUnderWay THEN {Len(sent)} ELSE {})
        BY <1>12 DEF Flush
      <3> QED BY <3>1, <3>2
    <2> QED BY <1>12, <2>1, <2>2, <2>3 DEF Flush, Types
  <1> QED BY <1>1, <1>2, <1>3, <1>4, <1>5, <1>6, <1>7, <1>8, <1>9, <1>10, <1>11, <1>12 DEF Next

-----------------------------------------------------------------------------
(* Where the reader is.                                                    *)

LEMMA ControlNext ==
    ASSUME Types, Types', Control, WholePackage, Next
    PROVE  Control'
  <1> USE DEF lidarVars, parserVars, scanVars, historyVars
  <1> HIDE DEF Bytes, Points, Nodes
  <1>0. /\ Len(header) \in Nat /\ Len(globalRecvBuffer) \in Nat /\ Len(line) \in Nat
        /\ Len(local_buf) \in Nat /\ Len(local_scan) \in Nat /\ BATCH \in Nat /\ BATCH > 0
        /\ package_Sample_Index \in Nat /\ package.samples \in Nat /\ mishaps \in Nat /\ MAX_MISHAPS \in Nat
    BY StreamFacts, LenProperties, ByteValueFacts, StreamAssumption DEF Types
  <1>1. CASE BeginPackage \/ ByteArrives
    BY <1>1 DEF BeginPackage, ByteArrives, Control
  <1>2. CASE ByteHarmed
    <2>1. /\ UNCHANGED <<at, parserVars, local_buf, scanVars>> /\ mishaps < MAX_MISHAPS
          /\ mishaps' = mishaps + 1
      BY <1>2 DEF ByteHarmed
    <2> QED BY <1>0, <2>1 DEF Control
  <1>3. CASE ReadHeader
    <2> DEFINE n == PackagePaidBytes - Len(header)
    <2>1. n \in Nat /\ n > 0 /\ n <= Len(line) /\ line \in Seq(Bytes)
      <3>1. at = "header" /\ n <= Len(line)
        BY <1>0, <1>3 DEF ReadHeader, PackagePaidBytes
      <3>2. Len(header) <= PackagePaidBytes /\ Len(header) # PackagePaidBytes
        BY <3>1 DEF Control
      <3>3. line \in Seq(Bytes)
        BY DEF Types
      <3>4. n \in Nat /\ n > 0
        <4> DEFINE h == Len(header)
        <4>1. h \in Nat /\ h <= 10 /\ h # 10
          BY <1>0, <3>2 DEF PackagePaidBytes
        <4> HIDE DEF h
        <4>2. 10 - h \in Nat /\ 10 - h > 0
          BY <4>1
        <4> QED BY <4>2 DEF PackagePaidBytes, h
      <3> QED BY <3>1, <3>3, <3>4
    <2>2. globalRecvBuffer' = SubSeq(line, 1, n)
      BY <1>3 DEF ReadHeader
    <2>3. Len(globalRecvBuffer') = n /\ globalRecvBuffer' # <<>>
      <3> HIDE DEF n
      <3>1. Len(globalRecvBuffer') = n
        BY <2>1, <2>2, SubSeqFacts
      <3>2. Len(<<>>) = 0
        OBVIOUS
      <3> QED BY <2>1, <3>1, <3>2
    <2>4. Len(header) + Len(globalRecvBuffer') = PackagePaidBytes
      BY <1>0, <2>3 DEF PackagePaidBytes
    <2>5. /\ at = "header" /\ at' = "parse"
          /\ UNCHANGED <<header, package, CheckSumResult, package_Sample_Index, local_buf, local_scan, mishaps>>
      BY <1>3 DEF ReadHeader
    <2> QED BY <1>0, <2>3, <2>4, <2>5 DEF Control, PackagePaidBytes
  <1>4. CASE ParseHeader
    <2> DEFINE byte == Head(globalRecvBuffer)
    <2>1. /\ at = "parse" /\ globalRecvBuffer # <<>> /\ package_Sample_Index = 0
          /\ Len(header) + Len(globalRecvBuffer) <= PackagePaidBytes
          /\ globalRecvBuffer \in Seq(Bytes) /\ header \in Seq(Bytes) /\ byte \in Bytes
      BY <1>4, HeaderFacts DEF ParseHeader, Control, Types
    <2>2. Len(globalRecvBuffer') = Len(globalRecvBuffer) - 1
      BY <1>4, <2>1, HeadTailProperties DEF ParseHeader
    <2>3. globalRecvBuffer' # <<>> <=> Len(globalRecvBuffer) > 1
      <3>1. globalRecvBuffer' \in Seq(Bytes)
        BY DEF Types
      <3>2. globalRecvBuffer' = <<>> <=> Len(globalRecvBuffer') = 0
        BY <3>1, EmptySeq
      <3> QED BY <1>0, <2>2, <3>2
    <2>4. /\ at' = IF Len(globalRecvBuffer) > 1 THEN "parse"
                   ELSE IF Len(header') = PackagePaidBytes THEN "payload" ELSE "header"
          /\ UNCHANGED <<package, CheckSumResult, package_Sample_Index, local_buf, local_scan, mishaps>>
      BY <1>4 DEF ParseHeader
    <2>5. CASE KeepsByte
      <3>1. header' = Append(header, byte) /\ (Len(header) = 0 => byte.value = PH_LOW)
        BY <2>5 DEF KeepsByte
      <3>2. /\ Len(header') = Len(header) + 1 /\ header'[Len(header) + 1] = byte
            /\ \A i \in 1 .. Len(header) : header'[i] = header[i]
        BY <2>1, <3>1, AppendFacts
      <3>3. header'[1].value = PH_LOW
        <4>1. CASE Len(header) = 0
          BY <3>1, <3>2, <4>1
        <4>2. CASE Len(header) # 0
          <5>1. header # <<>> /\ 1 \in 1 .. Len(header)
            BY <1>0, <4>2
          <5> QED BY <3>2, <5>1 DEF Control
        <4> QED BY <4>1, <4>2
      <3>4. /\ Len(header') <= PackagePaidBytes /\ Len(header') + Len(globalRecvBuffer') <= PackagePaidBytes
            /\ (Len(header') = PackagePaidBytes <=> at' = "payload")
            /\ at' \in {"header", "parse", "payload"} /\ (globalRecvBuffer' # <<>> <=> at' = "parse")
        BY <1>0, <2>1, <2>2, <2>3, <2>4, <3>2 DEF PackagePaidBytes
      <3> QED BY <1>0, <2>1, <2>4, <3>3, <3>4 DEF Control
    <2>6. CASE StartsOver
      <3>1. header' = <<>> /\ Len(header') = 0
        BY <2>6 DEF StartsOver
      <3>2. /\ Len(header') <= PackagePaidBytes /\ Len(header') + Len(globalRecvBuffer') <= PackagePaidBytes
            /\ (Len(header') = PackagePaidBytes <=> at' = "payload")
            /\ at' \in {"header", "parse", "payload"} /\ (globalRecvBuffer' # <<>> <=> at' = "parse")
        BY <1>0, <2>1, <2>2, <2>3, <2>4, <3>1 DEF PackagePaidBytes
      <3> QED BY <1>0, <2>1, <2>4, <3>1, <3>2 DEF Control
    <2> QED BY <1>4, <2>5, <2>6, ParseHeaderCases
  <1>5. CASE ReadPayload
    <2> DEFINE n == header[4].value * PackageSampleBytes
    <2>1. /\ n \in Nat /\ Len(SubSeq(line, 1, n)) = n /\ header[4].value \in Nat
      BY <1>5, ReadPayloadDrops
    <2>2. package'.payload = SubSeq(line, 1, n) /\ package'.samples = header[4].value
      BY <1>5 DEF ReadPayload
    <2>3. Len(package'.payload) = PackageSampleBytes * package'.samples
      BY <2>1, <2>2 DEF PackageSampleBytes
    <2>4. /\ header' = <<>> /\ at' = "node" /\ at = "payload"
          /\ UNCHANGED <<globalRecvBuffer, package_Sample_Index, local_buf, local_scan, mishaps>>
      BY <1>5 DEF ReadPayload
    <2>5. package_Sample_Index = 0 /\ globalRecvBuffer = <<>> /\ Len(header') = 0
      BY <2>4 DEF Control
    <2> QED BY <1>0, <2>3, <2>4, <2>5 DEF Control, PackagePaidBytes
  <1>6. CASE WaitTimesOut
    <2>1. header' = <<>> /\ Len(header') = 0 /\ at' = "collect" /\ at \in {"header", "payload"}
      BY <1>6 DEF WaitTimesOut
    <2>2. UNCHANGED <<globalRecvBuffer, package, CheckSumResult, package_Sample_Index, local_buf, local_scan, mishaps>>
      BY <1>6 DEF WaitTimesOut
    <2> QED BY <1>0, <2>1, <2>2 DEF Control, PackagePaidBytes
  <1>7. CASE EmitNode
    <2>1. /\ at = "node" /\ local_buf' = Append(local_buf, Node)
          /\ package_Sample_Index' = AfterSample.index /\ CheckSumResult' = AfterSample.fits
          /\ at' = IF Node.sync \/ Len(Append(local_buf, Node)) = BATCH THEN "collect"
                   ELSE IF LastSample THEN "header" ELSE "node"
          /\ UNCHANGED <<globalRecvBuffer, header, package, local_scan, mishaps>>
      BY <1>7 DEF EmitNode
    <2>2. Len(local_buf') = Len(local_buf) + 1
      BY <2>1, NodeFacts, AppendFacts DEF Types
    <2>3. /\ Len(local_buf') <= BATCH /\ (at' \notin {"collect", "judge"} => Len(local_buf') < BATCH)
      BY <1>0, <2>1, <2>2 DEF Control
    <2>4. globalRecvBuffer = <<>> /\ header = <<>> /\ Len(header) = 0
      BY <2>1 DEF Control
    <2>5. /\ at' = "header" => package_Sample_Index' = 0
          /\ package_Sample_Index' = 0 \/ package_Sample_Index' < package.samples
          /\ CheckSumResult' => package_Sample_Index' > 0
      <3>1. CASE LastSample
        BY <2>1, <3>1, AfterSampleFacts
      <3>2. CASE ~LastSample
        <4>1. package_Sample_Index' = package_Sample_Index + 1
          BY <2>1, <3>2, AfterSampleFacts
        <4>2. package_Sample_Index + 1 < package.samples
          BY <1>0, <3>2 DEF LastSample
        <4> QED BY <1>0, <2>1, <3>2, <4>1, <4>2
      <3> QED BY <3>1, <3>2
    <2>6. at' \in {"collect", "header", "node"}
      BY <2>1
    <2> QED BY <1>0, <2>1, <2>3, <2>4, <2>5, <2>6 DEF Control, PackagePaidBytes
  <1>8. CASE CallTimesOut
    BY <1>0, <1>8 DEF CallTimesOut, Control
  <1>9. CASE Collect
    <2> DEFINE closes == local_buf # <<>> /\ Last(local_buf).sync
               before == IF closes THEN Front(local_buf) ELSE local_buf
               stored == Stored(local_scan, before)
    <2>1. local_scan \in Seq(Nodes) /\ local_buf \in Seq(Nodes)
      BY DEF Types
    <2>2. before \in Seq(Nodes)
      BY <2>1, FrontFacts
    <2>3. Len(stored) < LOCAL_SCAN
      <3> HIDE DEF before
      <3> QED BY <2>1, <2>2, StoredFacts
    <2>4. Len(local_scan') < LOCAL_SCAN
      <3>1. local_scan' = IF closes THEN <<Last(local_buf)>> ELSE stored
        BY <1>9 DEF Collect
      <3>2. Len(<<Last(local_buf)>>) = 1 /\ 1 < LOCAL_SCAN
        BY StreamAssumption
      <3> HIDE DEF closes, stored
      <3> QED BY <2>3, <3>1, <3>2
    <2>5. /\ local_buf' = <<>> /\ Len(local_buf') = 0 /\ at = "collect" /\ at' = "judge"
          /\ UNCHANGED <<globalRecvBuffer, header, package, CheckSumResult, package_Sample_Index, mishaps>>
      BY <1>9 DEF Collect
    <2> QED BY <1>0, <2>4, <2>5 DEF Control, PackagePaidBytes
  <1>10. CASE Listen
    <2>1. /\ at = "judge" /\ at' = IF package_Sample_Index = 0 THEN "header" ELSE "node"
          /\ UNCHANGED <<line, parserVars, local_buf, scanVars, mishaps>>
      BY <1>10 DEF Listen
    <2>2. local_buf = <<>> /\ Len(local_buf) = 0 /\ header = <<>> /\ Len(header) = 0
      BY <2>1 DEF Control
    <2> QED BY <1>0, <2>1, <2>2 DEF Control, PackagePaidBytes
  <1>11. CASE Flush
    <2>1. UNCHANGED <<at, parserVars, local_buf, scanVars>> /\ mishaps < MAX_MISHAPS /\ mishaps' = mishaps + 1
      BY <1>11 DEF Flush
    <2> QED BY <1>0, <2>1 DEF Control
  <1> QED BY <1>1, <1>2, <1>3, <1>4, <1>5, <1>6, <1>7, <1>8, <1>9, <1>10, <1>11 DEF Next

-----------------------------------------------------------------------------
(* The stream, step by step.                                               *)

\* The stream of a state in order, without what else the state holds.
InOrder(s, all, q, hurt) ==
    /\ s \in Seq(Bytes) /\ all \in Seq(KINDS) /\ q \in Nat
    /\ OriginsIn(s, all, q, hurt)

LEMMA OriginFacts ==
    ASSUME NEW s, NEW all, NEW q, NEW hurt, InOrder(s, all, q, hurt)
    PROVE  /\ Len(all) \in Nat /\ Len(s) \in Nat
           /\ \A p \in 1 .. Len(all) :
                all[p] \in KINDS /\ Size(all[p]) \in Nat /\ 13 <= Size(all[p]) /\ Size(all[p]) <= 775
           /\ \A i \in 1 .. Len(s) :
                /\ s[i].package \in Nat /\ 1 <= s[i].package /\ s[i].package <= Len(all)
                /\ s[i].package \in 1 .. Len(all)
                /\ s[i].place \in Nat /\ 1 <= s[i].place
                /\ s[i].place <= Size(all[s[i].package]) /\ s[i].place <= 775
                /\ Stamp(s[i]) = 1000 * s[i].package + s[i].place
                /\ s[i].package < Len(all) \/ (s[i].package = Len(all) /\ s[i].place <= q)
           /\ \A i, j \in 1 .. Len(s) : i < j =>
                \/ s[i].package < s[j].package
                \/ s[i].package = s[j].package /\ s[i].place < s[j].place
           /\ all # <<>> => Len(all) \in 1 .. Len(all) /\ Last(all) = all[Len(all)]
           /\ all = <<>> <=> Len(all) = 0
           /\ q \in Nat /\ (all # <<>> => q <= Size(all[Len(all)]))
  <1>1. all \in Seq(KINDS) /\ q \in Nat /\ Len(all) \in Nat /\ Len(s) \in Nat
    BY LenProperties DEF InOrder
  <1>2. ASSUME NEW p \in 1 .. Len(all)
        PROVE  all[p] \in KINDS /\ Size(all[p]) \in Nat /\ 13 <= Size(all[p]) /\ Size(all[p]) <= 775
    <2>1. all[p] \in KINDS
      BY <1>1, ElementOfSeq
    <2> QED BY <2>1, KindFacts
  <1>3. ASSUME NEW i \in 1 .. Len(s)
        PROVE  /\ s[i].package \in Nat /\ 1 <= s[i].package /\ s[i].package <= Len(all)
               /\ s[i].package \in 1 .. Len(all)
               /\ s[i].place \in Nat /\ 1 <= s[i].place
               /\ s[i].place <= Size(all[s[i].package]) /\ s[i].place <= 775
               /\ Stamp(s[i]) = 1000 * s[i].package + s[i].place
               /\ s[i].package < Len(all) \/ (s[i].package = Len(all) /\ s[i].place <= q)
    <2>1. /\ s[i].package \in 1 .. Len(all) /\ s[i].place \in 1 .. Size(all[s[i].package])
          /\ HasLeft(s[i].package, s[i].place, all, q)
      BY DEF InOrder, OriginsIn
    <2> QED BY <1>1, <1>2, <2>1 DEF Stamp, HasLeft
  <1>4. ASSUME NEW i \in 1 .. Len(s), NEW j \in 1 .. Len(s), i < j
        PROVE  \/ s[i].package < s[j].package
               \/ s[i].package = s[j].package /\ s[i].place < s[j].place
    <2> DEFINE p == s[i].package  r == s[j].package  a == s[i].place  b == s[j].place
    <2>1. 1000 * p + a < 1000 * r + b
      BY <1>3, <1>4 DEF InOrder, OriginsIn
    <2>2. p \in Nat /\ r \in Nat /\ a \in Nat /\ b \in Nat /\ a <= 775 /\ b <= 775 /\ 1 <= a /\ 1 <= b
      BY <1>3
    <2> HIDE DEF p, r, a, b
    <2>3. p < r \/ (p = r /\ a < b)
      BY <2>1, <2>2
    <2> QED BY <2>3 DEF p, r, a, b
  <1>5. all # <<>> => Len(all) \in 1 .. Len(all) /\ Last(all) = all[Len(all)]
    <2>1. all # <<>> => Len(all) > 0 /\ Last(all) = all[Len(all)]
      BY <1>1, FrontFacts
    <2> QED BY <1>1, <2>1
  <1>6. all = <<>> <=> Len(all) = 0
    BY <1>1, EmptySeq
  <1>7. all # <<>> => q <= Size(all[Len(all)])
    BY DEF InOrder, OriginsIn
  <1> QED BY <1>1, <1>2, <1>3, <1>4, <1>5, <1>6, <1>7

\* More harm claims less.
LEMMA BeforeWeakens ==
    ASSUME NEW byte, NEW k, NEW p, NEW n, NEW all, NEW hurt, NEW more, hurt \subseteq more,
           Before(byte, k, p, n, all, hurt)
    PROVE  Before(byte, k, p, n, all, more)
  BY DEF Before

\* Dropping bytes off the front of the stream, whatever else is harmed.
LEMMA DropKeeps ==
    ASSUME NEW s, NEW t, NEW all, NEW q, NEW hurt, NEW more, NEW n,
           InOrder(s, all, q, hurt), NoGapsIn(s, all, q, hurt), Dropped(s, t, n),
           hurt \subseteq more, more \subseteq 1 .. Len(all)
    PROVE  OriginsIn(t, all, q, more) /\ NoGapsIn(t, all, q, more)
  <1> DEFINE L == Len(s) - n
  <1>1. /\ n \in Nat /\ n <= Len(s) /\ Len(t) = L /\ L \in Nat /\ Len(s) \in Nat
        /\ Len(s) = L + n
        /\ \A i \in 1 .. L : t[i] = s[i + n] /\ i + n \in 1 .. Len(s)
    <2>1. n \in Nat /\ n <= Len(s) /\ Len(t) = Len(s) - n /\ \A i \in 1 .. Len(s) - n : t[i] = s[i + n]
      BY DEF Dropped
    <2>2. Len(s) \in Nat
      BY OriginFacts
    <2> DEFINE m == Len(s)
    <2>3. m \in Nat /\ n \in Nat /\ n <= m
      BY <2>1, <2>2
    <2> HIDE DEF m
    <2>4. m - n \in Nat /\ m = (m - n) + n /\ \A i \in 1 .. m - n : i + n \in 1 .. m
      BY <2>3
    <2> QED BY <2>1, <2>2, <2>4 DEF m
  <1> HIDE DEF L
  <1>2. \A p : p \notin more => p \notin hurt
    OBVIOUS
  <1>3. OriginsIn(t, all, q, more)
    <2>1. ASSUME NEW i \in 1 .. L
          PROVE  /\ t[i].package \in 1 .. Len(all) /\ t[i].place \in 1 .. Size(all[t[i].package])
                 /\ HasLeft(t[i].package, t[i].place, all, q)
                 /\ t[i].altered => t[i].package \in more
                 /\ ~t[i].altered => t[i].value = ByteAt(all[t[i].package], t[i].place)
      BY <1>1, <1>2 DEF InOrder, OriginsIn
    <2>2. ASSUME NEW i \in 1 .. L, NEW j \in 1 .. L, i < j PROVE Stamp(t[i]) < Stamp(t[j])
      <3>1. i + n < j + n /\ i + n \in 1 .. Len(s) /\ j + n \in 1 .. Len(s)
        BY <1>1, <2>2
      <3>2. Stamp(s[i + n]) < Stamp(s[j + n])
        BY <3>1 DEF InOrder, OriginsIn
      <3> QED BY <1>1, <3>2
    <2>3. (all = <<>> => q = 0) /\ (all # <<>> => q <= Size(all[Len(all)]))
      BY DEF InOrder, OriginsIn
    <2> QED BY <1>1, <2>1, <2>2, <2>3 DEF OriginsIn
  <1>4. Forward(t, all, q, more)
    <2> SUFFICES ASSUME NEW i \in 1 .. L, NEW k \in Nat,
                        t[i].package \notin more, t[i].place + k <= Size(all[t[i].package]),
                        HasLeft(t[i].package, t[i].place + k, all, q)
                 PROVE  i + k <= L /\ ComesFrom(t[i + k], t[i].package, t[i].place + k)
      BY <1>1 DEF Forward
    <2>1. t[i] = s[i + n] /\ i + n \in 1 .. Len(s)
      BY <1>1
    <2>2. (i + n) + k <= Len(s) /\ ComesFrom(s[(i + n) + k], s[i + n].package, s[i + n].place + k)
      BY <1>2, <2>1 DEF NoGapsIn, Forward
    <2>3. i + k \in 1 .. L /\ (i + n) + k = (i + k) + n
      BY <1>1, <2>2
    <2>4. t[i + k] = s[(i + n) + k]
      BY <1>1, <2>3
    <2> QED BY <2>1, <2>2, <2>3, <2>4
  <1>5. Across(t, all, q, more)
    <2> SUFFICES ASSUME NEW i \in 1 .. L, t[i].place = Size(all[t[i].package]),
                        t[i].package + 1 \notin more, HasLeft(t[i].package + 1, 1, all, q)
                 PROVE  i < L /\ ComesFrom(t[i + 1], t[i].package + 1, 1)
      BY <1>1 DEF Across
    <2>1. t[i] = s[i + n] /\ i + n \in 1 .. Len(s)
      BY <1>1
    <2>2. i + n < Len(s) /\ ComesFrom(s[(i + n) + 1], s[i + n].package + 1, 1)
      BY <1>2, <2>1 DEF NoGapsIn, Across
    <2>3. i + 1 \in 1 .. L /\ (i + n) + 1 = (i + 1) + n /\ i < L
      BY <1>1, <2>2
    <2>4. t[i + 1] = s[(i + n) + 1]
      BY <1>1, <2>3
    <2> QED BY <2>1, <2>2, <2>3, <2>4
  <1>6. Backward(t, all, more)
    <2> SUFFICES ASSUME NEW j \in 1 .. L, NEW i \in 1 .. j
                 PROVE  Before(t[i], j - i, t[j].package, t[j].place, all, more)
      BY <1>1 DEF Backward
    <2>1. /\ i \in 1 .. L /\ i + n \in 1 .. j + n /\ j + n \in 1 .. Len(s)
          /\ (j + n) - (i + n) = j - i
      BY <1>1
    <2>2. t[i] = s[i + n] /\ t[j] = s[j + n]
      BY <1>1, <2>1
    <2>3. Before(s[i + n], (j + n) - (i + n), s[j + n].package, s[j + n].place, all, hurt)
      BY <2>1 DEF NoGapsIn, Backward
    <2> QED BY <2>1, <2>2, <2>3, BeforeWeakens
  <1>7. BackwardFromLidar(t, all, q, more)
    <2> SUFFICES ASSUME NEW i \in 1 .. L PROVE Before(t[i], L - i, Len(all), q, all, more)
      BY <1>1 DEF BackwardFromLidar
    <2>1. i + n \in 1 .. Len(s) /\ Len(s) - (i + n) = L - i /\ t[i] = s[i + n]
      BY <1>1
    <2>2. Before(s[i + n], Len(s) - (i + n), Len(all), q, all, hurt)
      BY <2>1 DEF NoGapsIn, BackwardFromLidar
    <2> QED BY <2>1, <2>2, BeforeWeakens
  <1> QED BY <1>3, <1>4, <1>5, <1>6, <1>7 DEF NoGapsIn

\* The next byte of the package under way arrives, or another in its place.
LEMMA ArrivalKeeps ==
    ASSUME NEW s, NEW t, NEW all, NEW q, NEW hurt, NEW more, NEW byte,
           InOrder(s, all, q, hurt), NoGapsIn(s, all, q, hurt), Grown(s, t, byte),
           all # <<>>, q + 1 <= Size(all[Len(all)]),
           ComesFrom(byte, Len(all), q + 1),
           byte.altered => Len(all) \in more,
           ~byte.altered => byte.value = ByteAt(all[Len(all)], q + 1),
           hurt \subseteq more, more \subseteq 1 .. Len(all)
    PROVE  OriginsIn(t, all, q + 1, more) /\ NoGapsIn(t, all, q + 1, more)
  <1> DEFINE L == Len(s)  P == Len(all)
  <1>1. /\ L \in Nat /\ Len(t) = L + 1 /\ t[L + 1] = byte
        /\ \A i \in 1 .. L : t[i] = s[i]
    BY OriginFacts DEF Grown
  <1>2. /\ P \in Nat /\ P >= 1 /\ q \in Nat /\ Size(all[P]) \in Nat
        /\ byte.package = P /\ byte.place = q + 1 /\ P \in 1 .. P
        /\ q + 1 \in 1 .. Size(all[P]) /\ q + 1 <= 775
    BY OriginFacts DEF ComesFrom
  <1>3. \A p : p \notin more => p \notin hurt
    OBVIOUS
  <1>4. /\ \A i \in 1 .. L :
             /\ s[i].package \in Nat /\ 1 <= s[i].package /\ s[i].package <= P /\ s[i].package \in 1 .. P
             /\ s[i].place \in Nat /\ 1 <= s[i].place /\ s[i].place <= Size(all[s[i].package])
             /\ s[i].place <= 775 /\ Stamp(s[i]) = 1000 * s[i].package + s[i].place
             /\ s[i].package < P \/ (s[i].package = P /\ s[i].place <= q)
        /\ \A i, j \in 1 .. L : i < j =>
             \/ s[i].package < s[j].package
             \/ s[i].package = s[j].package /\ s[i].place < s[j].place
    BY OriginFacts
  <1> HIDE DEF L, P
  <1>5. \A p : \A place \in Nat : HasLeft(p, place, all, q) => HasLeft(p, place, all, q + 1)
    BY <1>2 DEF HasLeft
  <1>6. OriginsIn(t, all, q + 1, more)
    <2>1. ASSUME NEW i \in 1 .. L + 1
          PROVE  /\ t[i].package \in 1 .. P /\ t[i].place \in 1 .. Size(all[t[i].package])
                 /\ HasLeft(t[i].package, t[i].place, all, q + 1)
                 /\ t[i].altered => t[i].package \in more
                 /\ ~t[i].altered => t[i].value = ByteAt(all[t[i].package], t[i].place)
      <3>1. CASE i = L + 1
        BY <1>1, <1>2, <3>1 DEF HasLeft, P
      <3>2. CASE i # L + 1
        <4>1. i \in 1 .. L /\ t[i] = s[i]
          BY <1>1, <3>2
        <4>2. s[i].place \in Nat
          BY <1>4, <4>1
        <4> QED BY <1>3, <1>5, <4>1, <4>2 DEF InOrder, OriginsIn, L, P
      <3> QED BY <3>1, <3>2
    <2>2. ASSUME NEW i \in 1 .. L + 1, NEW j \in 1 .. L + 1, i < j PROVE Stamp(t[i]) < Stamp(t[j])
      <3>1. i \in 1 .. L /\ t[i] = s[i]
        BY <1>1, <2>2
      <3>2. CASE j = L + 1
        <4>1. Stamp(t[j]) = 1000 * P + (q + 1)
          BY <1>1, <1>2, <3>2 DEF Stamp
        <4> DEFINE a == s[i].place  r == s[i].package
        <4>2. /\ a \in Nat /\ r \in Nat /\ a <= 775 /\ (r < P \/ (r = P /\ a <= q))
              /\ Stamp(t[i]) = 1000 * r + a
          BY <1>4, <3>1
        <4> HIDE DEF a, r
        <4> QED BY <1>2, <4>1, <4>2
      <3>3. CASE j # L + 1
        <4>1. j \in 1 .. L /\ t[j] = s[j]
          BY <1>1, <3>3
        <4> QED BY <2>2, <3>1, <4>1 DEF InOrder, OriginsIn, L
      <3> QED BY <3>2, <3>3
    <2> QED BY <1>1, <1>2, <2>1, <2>2 DEF OriginsIn, P
  \* A byte of the stream at the place before the one that arrives is the last.
  <1>7. ASSUME NEW i \in 1 .. L,
               \/ s[i].package = P /\ s[i].place = q
               \/ q = 0 /\ s[i].package = P - 1 /\ s[i].place = Size(all[P - 1])
        PROVE  i = L
    <2> SUFFICES ASSUME i # L PROVE FALSE
      OBVIOUS
    <2>1. i < L /\ L \in 1 .. L
      BY <1>1
    <2>2. \/ s[i].package < s[L].package
          \/ s[i].package = s[L].package /\ s[i].place < s[L].place
      BY <1>4, <2>1
    <2>3. /\ s[L].package \in Nat /\ s[L].place \in Nat /\ s[L].place >= 1 /\ s[L].package <= P
          /\ s[L].place <= Size(all[s[L].package])
          /\ s[L].package < P \/ (s[L].package = P /\ s[L].place <= q)
      BY <1>4, <2>1
    <2>4. CASE s[i].package = P /\ s[i].place = q
      BY <1>2, <2>2, <2>3, <2>4
    <2>5. CASE q = 0 /\ s[i].package = P - 1 /\ s[i].place = Size(all[P - 1])
      <3>1. s[L].package # P
        BY <1>2, <2>3, <2>5
      <3>2. s[L].package = P - 1
        BY <1>2, <2>2, <2>3, <2>5, <3>1
      <3>3. s[L].place <= Size(all[P - 1]) /\ s[L].place > s[i].place
        BY <1>2, <2>2, <2>3, <2>5, <3>2
      <3>4. P - 1 \in 1 .. P
        BY <1>2, <1>4, <2>5
      <3>5. Size(all[P - 1]) \in Nat
        BY <3>4, OriginFacts DEF P
      <3> QED BY <2>3, <2>5, <3>3, <3>5
    <2> QED BY <1>7, <2>4, <2>5
  <1>8. Forward(t, all, q + 1, more)
    <2> SUFFICES ASSUME NEW i \in 1 .. L + 1, NEW k \in Nat,
                        t[i].package \notin more, t[i].place + k <= Size(all[t[i].package]),
                        HasLeft(t[i].package, t[i].place + k, all, q + 1)
                 PROVE  i + k <= L + 1 /\ ComesFrom(t[i + k], t[i].package, t[i].place + k)
      BY <1>1 DEF Forward
    <2>1. CASE i = L + 1
      <3>1. k = 0
        BY <1>1, <1>2, <2>1 DEF HasLeft, P
      <3> QED BY <1>1, <1>2, <2>1, <3>1 DEF ComesFrom
    <2>2. CASE i # L + 1
      <3>1. i \in 1 .. L /\ t[i] = s[i]
        BY <1>1, <2>2
      <3>2. CASE HasLeft(s[i].package, s[i].place + k, all, q)
        <4>1. i + k <= L /\ ComesFrom(s[i + k], s[i].package, s[i].place + k)
          BY <1>3, <3>1, <3>2 DEF NoGapsIn, Forward, L
        <4>2. i + k \in 1 .. L
          BY <1>1, <3>1, <4>1
        <4> QED BY <1>1, <3>1, <4>1, <4>2
      <3>3. CASE ~HasLeft(s[i].package, s[i].place + k, all, q)
        <4>1. s[i].package = P /\ s[i].place + k = q + 1
          BY <1>2, <1>4, <3>1, <3>3 DEF HasLeft, P
        <4> DEFINE a == s[i].place
        <4>a. a \in Nat /\ a <= q /\ a + k = q + 1
          BY <1>2, <1>4, <3>1, <4>1
        <4>2. CASE k = 0
          <5> HIDE DEF a
          <5> QED BY <1>2, <4>a, <4>2
        <4>3. CASE k # 0
          <5>1. k - 1 \in Nat /\ s[i].place + (k - 1) = q
            <6> HIDE DEF a
            <6>1. k - 1 \in Nat /\ a + (k - 1) = q
              BY <1>2, <4>a, <4>3
            <6> QED BY <6>1 DEF a
          <5>2. HasLeft(s[i].package, s[i].place + (k - 1), all, q) /\ q <= Size(all[s[i].package])
            BY <1>2, <4>1, <5>1 DEF HasLeft, P
          <5>3. i + (k - 1) <= L /\ ComesFrom(s[i + (k - 1)], P, q)
            BY <1>3, <3>1, <4>1, <5>1, <5>2 DEF NoGapsIn, Forward, L
          <5>4. i + (k - 1) \in 1 .. L
            BY <1>1, <3>1, <5>1, <5>3
          <5>5. i + (k - 1) = L
            BY <1>7, <5>3, <5>4 DEF ComesFrom
          <5>6. i + k = L + 1
            BY <1>1, <3>1, <5>1, <5>5
          <5> QED BY <1>1, <1>2, <3>1, <4>1, <5>6 DEF ComesFrom
        <4> QED BY <4>2, <4>3
      <3> QED BY <3>2, <3>3
    <2> QED BY <2>1, <2>2
  <1>9. Across(t, all, q + 1, more)
    <2> SUFFICES ASSUME NEW i \in 1 .. L + 1, t[i].place = Size(all[t[i].package]),
                        t[i].package + 1 \notin more, HasLeft(t[i].package + 1, 1, all, q + 1)
                 PROVE  i < L + 1 /\ ComesFrom(t[i + 1], t[i].package + 1, 1)
      BY <1>1 DEF Across
    <2>1. i # L + 1
      BY <1>1, <1>2 DEF HasLeft, P
    <2>2. i \in 1 .. L /\ t[i] = s[i]
      BY <1>1, <2>1
    <2>3. CASE HasLeft(s[i].package + 1, 1, all, q)
      <3>1. i < L /\ ComesFrom(s[i + 1], s[i].package + 1, 1)
        BY <1>3, <2>2, <2>3 DEF NoGapsIn, Across, L
      <3>2. i + 1 \in 1 .. L
        BY <1>1, <2>2, <3>1
      <3> QED BY <1>1, <2>2, <3>1, <3>2
    <2>4. CASE ~HasLeft(s[i].package + 1, 1, all, q)
      <3>1. s[i].package = P - 1 /\ q = 0
        <4> DEFINE r == s[i].package
        <4>1. r \in Nat /\ r <= P
          BY <1>4, <2>2
        <4>2. ~(r + 1 < P \/ (r + 1 = P /\ 1 <= q)) /\ (r + 1 < P \/ (r + 1 = P /\ 1 <= q + 1))
          BY <2>2, <2>4 DEF HasLeft, P
        <4> HIDE DEF r
        <4>3. r = P - 1 /\ q = 0
          BY <1>2, <4>1, <4>2
        <4> QED BY <4>3 DEF r
      <3>2. i = L
        BY <1>7, <2>2, <3>1
      <3> QED BY <1>1, <1>2, <2>2, <3>1, <3>2 DEF ComesFrom
    <2> QED BY <2>3, <2>4
  <1>10. ASSUME NEW i \in 1 .. L + 1 PROVE Before(t[i], (L + 1) - i, P, q + 1, all, more)
    <2>1. CASE i = L + 1
      <3>1. (L + 1) - i = 0 /\ t[i] = byte
        BY <1>1, <2>1
      <3> QED BY <1>2, <3>1 DEF Before, ComesFrom
    <2>2. CASE i # L + 1
      <3>1. i \in 1 .. L /\ t[i] = s[i]
        BY <1>1, <2>2
      <3>2. Before(s[i], L - i, P, q, all, more)
        BY <3>1, BeforeWeakens DEF NoGapsIn, BackwardFromLidar, L, P
      <3> DEFINE k == L - i
      <3>3. k \in Nat /\ (L + 1) - i = k + 1
        BY <1>1, <3>1
      <3> HIDE DEF k
      <3>4. /\ (k + 1 < q + 1 => k < q /\ (q + 1) - (k + 1) = q - k)
            /\ (q + 1 <= k + 1 => q <= k /\ (k + 1) - (q + 1) = k - q)
        BY <1>2, <3>3
      <3>5. ASSUME P > 1, k + 1 < q + 1 + Size(all[P - 1]) PROVE k < q + Size(all[P - 1])
        <4>1. P - 1 \in 1 .. P
          BY <1>2, <3>5
        <4>2. Size(all[P - 1]) \in Nat
          BY <4>1, OriginFacts DEF P
        <4> QED BY <1>2, <3>3, <3>5, <4>2
      <3>6. Before(s[i], k + 1, P, q + 1, all, more)
        BY <3>2, <3>4, <3>5 DEF Before, k
      <3> QED BY <3>1, <3>3, <3>6
    <2> QED BY <2>1, <2>2
  <1>11. Backward(t, all, more)
    <2> SUFFICES ASSUME NEW j \in 1 .. L + 1, NEW i \in 1 .. j
                 PROVE  Before(t[i], j - i, t[j].package, t[j].place, all, more)
      BY <1>1 DEF Backward
    <2>1. CASE j = L + 1
      BY <1>1, <1>2, <1>10, <2>1
    <2>2. CASE j # L + 1
      <3>1. j \in 1 .. L /\ i \in 1 .. L /\ t[j] = s[j] /\ t[i] = s[i]
        BY <1>1, <2>2
      <3>2. Before(s[i], j - i, s[j].package, s[j].place, all, hurt)
        BY <3>1 DEF NoGapsIn, Backward, L
      <3> QED BY <3>1, <3>2, BeforeWeakens
    <2> QED BY <2>1, <2>2
  <1>12. BackwardFromLidar(t, all, q + 1, more)
    BY <1>1, <1>10 DEF BackwardFromLidar, P
  <1> QED BY <1>6, <1>8, <1>9, <1>11, <1>12 DEF NoGapsIn

\* The next byte is lost.
LEMMA LossKeeps ==
    ASSUME NEW s, NEW all, NEW q, NEW hurt, NEW more,
           InOrder(s, all, q, hurt), NoGapsIn(s, all, q, hurt),
           all # <<>>, q + 1 <= Size(all[Len(all)]),
           hurt \subseteq more, more \subseteq 1 .. Len(all), Len(all) \in more
    PROVE  OriginsIn(s, all, q + 1, more) /\ NoGapsIn(s, all, q + 1, more)
  <1> DEFINE P == Len(all)
  <1>1. q \in Nat /\ P \in Nat /\ P \in more
    BY OriginFacts
  <1>2. \A p : p \notin more => p \notin hurt /\ p # P
    BY <1>1
  <1>3. ASSUME NEW i \in 1 .. Len(s) PROVE s[i].place \in Nat /\ s[i].package \in Nat /\ s[i].package <= P
    BY OriginFacts
  <1> HIDE DEF P
  <1>4. /\ \A p : \A place \in Nat : HasLeft(p, place, all, q) => HasLeft(p, place, all, q + 1)
        /\ \A p, place : p # P /\ HasLeft(p, place, all, q + 1) => HasLeft(p, place, all, q)
    BY <1>1 DEF HasLeft, P
  <1>5. OriginsIn(s, all, q + 1, more)
    <2>1. ASSUME NEW i \in 1 .. Len(s)
          PROVE  /\ s[i].package \in 1 .. Len(all) /\ s[i].place \in 1 .. Size(all[s[i].package])
                 /\ HasLeft(s[i].package, s[i].place, all, q + 1)
                 /\ s[i].altered => s[i].package \in more
                 /\ ~s[i].altered => s[i].value = ByteAt(all[s[i].package], s[i].place)
      BY <1>2, <1>3, <1>4 DEF InOrder, OriginsIn
    <2>2. \A i, j \in 1 .. Len(s) : i < j => Stamp(s[i]) < Stamp(s[j])
      BY DEF InOrder, OriginsIn
    <2> QED BY <2>1, <2>2 DEF OriginsIn
  <1>6. Forward(s, all, q + 1, more)
    <2> SUFFICES ASSUME NEW i \in 1 .. Len(s), NEW k \in Nat,
                        s[i].package \notin more, s[i].place + k <= Size(all[s[i].package]),
                        HasLeft(s[i].package, s[i].place + k, all, q + 1)
                 PROVE  i + k <= Len(s) /\ ComesFrom(s[i + k], s[i].package, s[i].place + k)
      BY DEF Forward
    <2>1. HasLeft(s[i].package, s[i].place + k, all, q) /\ s[i].package \notin hurt
      BY <1>2, <1>4
    <2> QED BY <2>1 DEF NoGapsIn, Forward
  <1>7. Across(s, all, q + 1, more)
    <2> SUFFICES ASSUME NEW i \in 1 .. Len(s), s[i].place = Size(all[s[i].package]),
                        s[i].package + 1 \notin more, HasLeft(s[i].package + 1, 1, all, q + 1)
                 PROVE  i < Len(s) /\ ComesFrom(s[i + 1], s[i].package + 1, 1)
      BY DEF Across
    <2>1. HasLeft(s[i].package + 1, 1, all, q) /\ s[i].package + 1 \notin hurt
      BY <1>2, <1>4
    <2> QED BY <2>1 DEF NoGapsIn, Across
  <1>8. Backward(s, all, more)
    BY BeforeWeakens DEF NoGapsIn, Backward
  <1>9. BackwardFromLidar(s, all, q + 1, more)
    BY <1>1 DEF BackwardFromLidar, Before, P
  <1> QED BY <1>5, <1>6, <1>7, <1>8, <1>9 DEF NoGapsIn

\* A package is begun behind one that has left as a whole.
LEMMA BeginKeeps ==
    ASSUME NEW s, NEW all, NEW q, NEW hurt, NEW kind \in KINDS,
           InOrder(s, all, q, hurt), NoGapsIn(s, all, q, hurt),
           all # <<>> => q = Size(all[Len(all)])
    PROVE  LET new == Append(all, kind)
           IN  OriginsIn(s, new, 0, hurt) /\ NoGapsIn(s, new, 0, hurt)
  <1> DEFINE P == Len(all)  new == Append(all, kind)
  <1>1. P \in Nat /\ q \in Nat /\ all \in Seq(KINDS)
    BY OriginFacts DEF InOrder
  <1>2. /\ new \in Seq(KINDS) /\ Len(new) = P + 1 /\ new # <<>> /\ new[P + 1] = kind
        /\ \A p \in 1 .. P : new[p] = all[p]
    BY <1>1, AppendFacts
  <1>3. Size(kind) \in Nat /\ 0 <= Size(kind)
    BY KindFacts
  <1>4. ASSUME NEW i \in 1 .. Len(s)
        PROVE  /\ s[i].place \in Nat /\ 1 <= s[i].place /\ s[i].package \in 1 .. P
               /\ s[i].place <= Size(all[s[i].package])
               /\ all # <<>> /\ P \in 1 .. P /\ q = Size(all[P])
    <2>1. s[i].place \in Nat /\ s[i].package \in 1 .. P /\ s[i].place <= Size(all[s[i].package])
          /\ 1 <= s[i].place
      BY OriginFacts
    <2>2. all # <<>>
      BY <1>1, <2>1, OriginFacts
    <2> QED BY <2>1, <2>2, OriginFacts
  <1>a. hurt \subseteq 1 .. P
    BY DEF InOrder, OriginsIn
  <1> HIDE DEF P, new
  <1>5. OriginsIn(s, new, 0, hurt)
    <2>1. ASSUME NEW i \in 1 .. Len(s)
          PROVE  /\ s[i].package \in 1 .. Len(new) /\ s[i].place \in 1 .. Size(new[s[i].package])
                 /\ HasLeft(s[i].package, s[i].place, new, 0)
                 /\ s[i].altered => s[i].package \in hurt
                 /\ ~s[i].altered => s[i].value = ByteAt(new[s[i].package], s[i].place)
      <3>1. s[i].package \in 1 .. P /\ new[s[i].package] = all[s[i].package]
        BY <1>2, <1>4
      <3>2. s[i].package \in 1 .. P + 1 /\ s[i].package < P + 1
        BY <1>1, <3>1
      <3> QED BY <1>2, <3>1, <3>2 DEF InOrder, OriginsIn, HasLeft
    <2>2. \A i, j \in 1 .. Len(s) : i < j => Stamp(s[i]) < Stamp(s[j])
      BY DEF InOrder, OriginsIn
    <2>3. hurt \subseteq 1 .. Len(new)
      BY <1>1, <1>2, <1>a
    <2> QED BY <1>1, <1>2, <1>3, <2>1, <2>2, <2>3 DEF OriginsIn
  <1>6. ASSUME NEW i \in 1 .. Len(s), NEW p, NEW place \in Nat, HasLeft(p, place, new, 0),
               p \in 1 .. P, place <= Size(all[p])
        PROVE  HasLeft(p, place, all, q)
    <2>1. CASE p < P
      BY <2>1 DEF HasLeft, P
    <2>2. CASE ~(p < P)
      <3>1. p = P
        BY <1>1, <1>6, <2>2
      <3> QED BY <1>4, <1>6, <3>1 DEF HasLeft, P
    <2> QED BY <2>1, <2>2
  <1>7. Forward(s, new, 0, hurt)
    <2> SUFFICES ASSUME NEW i \in 1 .. Len(s), NEW k \in Nat,
                        s[i].package \notin hurt, s[i].place + k <= Size(new[s[i].package]),
                        HasLeft(s[i].package, s[i].place + k, new, 0)
                 PROVE  i + k <= Len(s) /\ ComesFrom(s[i + k], s[i].package, s[i].place + k)
      BY DEF Forward
    <2>1. s[i].package \in 1 .. P /\ new[s[i].package] = all[s[i].package] /\ s[i].place + k \in Nat
      BY <1>2, <1>4
    <2>2. HasLeft(s[i].package, s[i].place + k, all, q) /\ s[i].place + k <= Size(all[s[i].package])
      BY <1>6, <2>1
    <2> QED BY <2>2 DEF NoGapsIn, Forward
  <1>8. Across(s, new, 0, hurt)
    <2> SUFFICES ASSUME NEW i \in 1 .. Len(s), s[i].place = Size(new[s[i].package]),
                        s[i].package + 1 \notin hurt, HasLeft(s[i].package + 1, 1, new, 0)
                 PROVE  i < Len(s) /\ ComesFrom(s[i + 1], s[i].package + 1, 1)
      BY DEF Across
    <2>1. s[i].package \in 1 .. P /\ new[s[i].package] = all[s[i].package]
      BY <1>2, <1>4
    <2>2. s[i].package + 1 \in 1 .. P
      <3>1. s[i].package + 1 < P + 1 \/ (s[i].package + 1 = P + 1 /\ 1 <= 0)
        BY <1>2 DEF HasLeft
      <3> QED BY <1>1, <2>1, <3>1
    <2>3. 1 <= Size(all[s[i].package + 1])
      BY <2>2, OriginFacts DEF P
    <2>4. HasLeft(s[i].package + 1, 1, all, q)
      BY <1>6, <2>2, <2>3
    <2> QED BY <2>1, <2>4 DEF NoGapsIn, Across
  <1>9. ASSUME NEW byte, NEW k, NEW p \in 1 .. P, NEW n, Before(byte, k, p, n, all, hurt)
        PROVE  Before(byte, k, p, n, new, hurt)
    <2>1. p > 1 => p - 1 \in 1 .. P
      BY <1>1
    <2>2. p > 1 => new[p - 1] = all[p - 1]
      BY <1>2, <2>1
    <2> QED BY <1>9, <2>2 DEF Before
  <1>10. Backward(s, new, hurt)
    <2> SUFFICES ASSUME NEW j \in 1 .. Len(s), NEW i \in 1 .. j
                 PROVE  Before(s[i], j - i, s[j].package, s[j].place, new, hurt)
      BY DEF Backward
    <2>1. s[j].package \in 1 .. P
      BY <1>4
    <2>2. Before(s[i], j - i, s[j].package, s[j].place, all, hurt)
      BY DEF NoGapsIn, Backward
    <2> QED BY <1>9, <2>1, <2>2
  <1>11. BackwardFromLidar(s, new, 0, hurt)
    <2> SUFFICES ASSUME NEW i \in 1 .. Len(s) PROVE Before(s[i], Len(s) - i, P + 1, 0, new, hurt)
      BY <1>2 DEF BackwardFromLidar
    <2>1. Before(s[i], Len(s) - i, P, q, all, hurt) /\ Len(s) - i \in Nat
      <3>1. Len(s) \in Nat
        BY OriginFacts
      <3> QED BY <3>1 DEF NoGapsIn, BackwardFromLidar, P
    <2> DEFINE k == Len(s) - i
    <2>2. P + 1 - 1 = P /\ P \in 1 .. P /\ q = Size(all[P]) /\ new[P] = all[P] /\ k - 0 = k
      BY <1>1, <1>2, <1>4, <2>1
    <2>3. k \in Nat /\ 0 + Size(new[P]) = Size(all[P])
      <3>1. Size(all[P]) \in Nat
        BY <2>2, OriginFacts DEF P
      <3> QED BY <2>1, <2>2, <3>1
    <2> HIDE DEF k
    <2>4. ASSUME P \notin hurt, k < Size(all[P]) PROVE ComesFrom(s[i], P, Size(all[P]) - k)
      BY <2>1, <2>2, <2>4 DEF Before, k
    <2>5. ~(k < 0)
      BY <2>3
    <2>6. Before(s[i], k, P + 1, 0, new, hurt)
      BY <2>2, <2>3, <2>4, <2>5 DEF Before
    <2> QED BY <2>6 DEF k
  <1> QED BY <1>5, <1>7, <1>8, <1>10, <1>11 DEF NoGapsIn, new

LEMMA InOrderFacts ==
    ASSUME Types, Origins
    PROVE  InOrder(Stream, sent, position, harmed)
  BY StreamFacts DEF Types, Origins, InOrder

\* A byte of the stream comes from a package sent.
LEMMA PackagesSent ==
    ASSUME Types, Origins
    PROVE  /\ PackagesOf(line) \subseteq 1 .. Len(sent)
           /\ PackagesOf(header) \subseteq 1 .. Len(sent)
           /\ globalRecvBuffer # <<>> => Head(globalRecvBuffer).package \in 1 .. Len(sent)
  <1>1. header \in Seq(Bytes) /\ line \in Seq(Bytes) /\ globalRecvBuffer \in Seq(Bytes)
    BY DEF Types
  <1>2. \A i \in 1 .. Len(Stream) : Stream[i].package \in 1 .. Len(sent)
    BY DEF Origins, OriginsIn
  <1>3. ASSUME NEW i \in 1 .. Len(line) PROVE line[i].package \in 1 .. Len(sent)
    <2>1. Len(header) + Len(globalRecvBuffer) + i \in 1 .. Len(Stream)
      BY StreamFacts
    <2>2. Stream[Len(header) + Len(globalRecvBuffer) + i] = line[i]
      BY StreamParts
    <2> QED BY <1>2, <2>1, <2>2
  <1>4. ASSUME NEW i \in 1 .. Len(header) PROVE header[i].package \in 1 .. Len(sent)
    <2>1. i \in 1 .. Len(Stream)
      BY StreamFacts
    <2> QED BY <1>2, <2>1, StreamParts
  <1>5. ASSUME globalRecvBuffer # <<>> PROVE Head(globalRecvBuffer).package \in 1 .. Len(sent)
    <2>1. Len(globalRecvBuffer) \in Nat /\ Len(globalRecvBuffer) > 0 /\ Head(globalRecvBuffer) = globalRecvBuffer[1]
      BY <1>1, <1>5, EmptySeq, LenProperties, HeadTailProperties
    <2>2. Len(header) + 1 \in 1 .. Len(Stream) /\ 1 \in 1 .. Len(globalRecvBuffer)
      BY <2>1, StreamFacts
    <2>3. Stream[Len(header) + 1] = globalRecvBuffer[1]
      BY <2>2, StreamParts
    <2> QED BY <1>2, <2>1, <2>2, <2>3
  <1>6. PackagesOf(line) \subseteq 1 .. Len(sent)
    BY <1>1, <1>3, PackagesOfFacts
  <1>7. PackagesOf(header) \subseteq 1 .. Len(sent)
    BY <1>1, <1>4, PackagesOfFacts
  <1> QED BY <1>5, <1>6, <1>7

\* A step of the reader takes bytes off the stream, or leaves it.
ReaderStep ==
    ReadHeader \/ ParseHeader \/ ReadPayload \/ WaitTimesOut \/ EmitNode \/ CallTimesOut \/ Collect \/ Listen

LEMMA ReaderStepFacts ==
    ASSUME Types, Types', Control, Origins, ReaderStep
    PROVE  /\ \E n \in Nat : Drops(n)
           /\ UNCHANGED <<sent, position>> /\ harmed \subseteq harmed'
           /\ harmed' \subseteq 1 .. Len(sent) /\ searched' \subseteq 1 .. Len(sent)
  <1> USE DEF lidarVars, parserVars, scanVars, historyVars
  <1>0. harmed \subseteq 1 .. Len(sent) /\ searched \subseteq 1 .. Len(sent) /\ 0 \in Nat
    BY DEF Origins, OriginsIn
  <1>1. CASE ReadHeader
    BY <1>0, <1>1, ReadHeaderDrops DEF ReadHeader
  <1>2. CASE ParseHeader
    <2>1. Drops(0) \/ Drops(Len(header) + 1)
      BY <1>2, ParseHeaderDrops, ParseHeaderCases DEF KeepsByte, StartsOver
    <2>2. Len(header) + 1 \in Nat
      BY StreamFacts
    <2>3. Head(globalRecvBuffer).package \in 1 .. Len(sent)
      BY <1>2, PackagesSent DEF ParseHeader, Control
    <2>4. searched' \subseteq 1 .. Len(sent)
      BY <1>0, <1>2, <2>3 DEF ParseHeader
    <2>5. UNCHANGED <<sent, position, harmed>>
      BY <1>2 DEF ParseHeader
    <2>6. \E n \in Nat : Drops(n)
      BY <1>0, <2>1, <2>2
    <2> QED BY <1>0, <2>4, <2>5, <2>6
  <1>3. CASE ReadPayload
    <2> DEFINE n == header[4].value * PackageSampleBytes
    <2>1. n \in Nat /\ Drops(10 + n)
      BY <1>3, ReadPayloadDrops
    <2> HIDE DEF n
    <2>2. 10 + n \in Nat
      BY <2>1
    <2>3. UNCHANGED <<sent, position, harmed, searched>>
      BY <1>3 DEF ReadPayload
    <2> QED BY <1>0, <2>1, <2>2, <2>3
  <1>4. CASE WaitTimesOut
    <2>1. harmed' = harmed \union PackagesOf(header) /\ UNCHANGED <<sent, position, searched>>
      BY <1>4 DEF WaitTimesOut
    <2>2. Drops(Len(header)) /\ Len(header) \in Nat
      BY <1>4, WaitTimesOutDrops, StreamFacts
    <2> QED BY <1>0, <2>1, <2>2, PackagesSent
  <1>5. CASE EmitNode
    BY <1>0, <1>5, StreamKept DEF EmitNode
  <1>6. CASE CallTimesOut
    BY <1>0, <1>6, StreamKept DEF CallTimesOut
  <1>7. CASE Collect
    BY <1>0, <1>7, StreamKept DEF Collect
  <1>8. CASE Listen
    BY <1>0, <1>8, StreamKept DEF Listen
  <1> QED BY <1>1, <1>2, <1>3, <1>4, <1>5, <1>6, <1>7, <1>8 DEF ReaderStep

\* What a byte that is lost, or altered, or arrives, is for the stream.
LEMMA ByteHarmedCases ==
    ASSUME Types, Types', ByteHarmed
    PROVE  \/ Stream' = Stream
           \/ \E byte \in Bytes : /\ Grows(byte) /\ ComesFrom(byte, Len(sent), position + 1)
                                  /\ byte.altered
  <1>0. UNCHANGED <<header, globalRecvBuffer>>
    BY DEF ByteHarmed, parserVars
  <1>1. CASE UNCHANGED line
    BY <1>0, <1>1 DEF Stream
  <1>2. CASE \E v \in NOISE \ {NextByte.value} :
               line' = Append(line, [NextByte EXCEPT !.value = v, !.altered = TRUE])
    <2>1. PICK v \in NOISE : line' = Append(line, [NextByte EXCEPT !.value = v, !.altered = TRUE])
      BY <1>2
    <2>2. v \in ByteValues
      BY StreamAssumption
    <2> DEFINE byte == [NextByte EXCEPT !.value = v, !.altered = TRUE]
    <2>3. byte \in Bytes /\ ComesFrom(byte, Len(sent), position + 1) /\ byte.altered
      BY <2>2, NextByteFacts DEF ByteHarmed
    <2>4. line' = Append(line, byte)
      BY <2>1
    <2> HIDE DEF byte
    <2>5. Grows(byte)
      BY <1>0, <2>3, <2>4, ArrivalGrows
    <2> QED BY <2>3, <2>5
  <1> QED BY <1>1, <1>2 DEF ByteHarmed

LEMMA StreamStays ==
    ASSUME Types, Types', Control, Origins, NoGaps, Next
    PROVE  Origins' /\ NoGaps'
  <1> USE DEF lidarVars, parserVars, scanVars, historyVars
  <1>0. /\ InOrder(Stream, sent, position, harmed) /\ NoGapsIn(Stream, sent, position, harmed)
        /\ harmed \subseteq 1 .. Len(sent) /\ searched \subseteq 1 .. Len(sent)
    BY InOrderFacts DEF NoGaps, Origins, OriginsIn
  <1> DEFINE Fine == OriginsIn(Stream', sent', position', harmed') /\ NoGapsIn(Stream', sent', position', harmed')
                     /\ searched' \subseteq 1 .. Len(sent')
  <1>2. ASSUME BeginPackage PROVE Fine
    <2>1. PICK kind \in KINDS : sent' = Append(sent, kind)
      BY <1>2 DEF BeginPackage
    <2>2. position' = 0 /\ UNCHANGED <<header, globalRecvBuffer, line, harmed, searched>>
      BY <1>2 DEF BeginPackage
    <2>3. Stream' = Stream
      BY <2>2, StreamKept
    <2>4. sent # <<>> => position = Size(sent[Len(sent)])
      <3> SUFFICES ASSUME sent # <<>> PROVE position = Size(sent[Len(sent)])
        OBVIOUS
      <3>1. ~(position < Size(Last(sent)))
        BY <1>2 DEF BeginPackage, PackageUnderWay
      <3>2. /\ Last(sent) = sent[Len(sent)] /\ position \in Nat /\ position <= Size(sent[Len(sent)])
            /\ Size(sent[Len(sent)]) \in Nat
        BY <1>0, OriginFacts
      <3> QED BY <3>1, <3>2
    <2>5. OriginsIn(Stream, Append(sent, kind), 0, harmed) /\ NoGapsIn(Stream, Append(sent, kind), 0, harmed)
      BY <1>0, <2>4, BeginKeeps
    <2>6. searched \subseteq 1 .. Len(Append(sent, kind))
      <3>1. Len(Append(sent, kind)) = Len(sent) + 1 /\ Len(sent) \in Nat
        BY AppendFacts DEF Types
      <3> QED BY <1>0, <3>1
    <2> QED BY <2>1, <2>2, <2>3, <2>5, <2>6
  <1>3. ASSUME ByteArrives PROVE Fine
    <2>1. PackageUnderWay /\ position' = position + 1 /\ line' = Append(line, NextByte)
          /\ UNCHANGED <<sent, header, globalRecvBuffer, harmed, searched>>
      BY <1>3 DEF ByteArrives
    <2>2. /\ NextByte \in Bytes /\ ComesFrom(NextByte, Len(sent), position + 1) /\ ~NextByte.altered
          /\ NextByte.value = ByteAt(sent[Len(sent)], position + 1)
          /\ sent # <<>> /\ position + 1 <= Size(sent[Len(sent)])
      <3>1. position + 1 \in 1 .. Size(sent[Len(sent)]) /\ sent # <<>>
        BY <2>1, NextByteFacts
      <3>2. position + 1 <= Size(sent[Len(sent)])
        BY <3>1
      <3> QED BY <2>1, <3>1, <3>2, NextByteFacts
    <2>3. Grown(Stream, Stream', NextByte)
      BY <2>1, <2>2, ArrivalGrows DEF Grows
    <2>4. OriginsIn(Stream', sent, position + 1, harmed) /\ NoGapsIn(Stream', sent, position + 1, harmed)
      BY <1>0, <2>2, <2>3, ArrivalKeeps
    <2> QED BY <1>0, <2>1, <2>4
  <1>4. ASSUME ByteHarmed PROVE Fine
    <2>1. PackageUnderWay /\ position' = position + 1 /\ harmed' = harmed \union {Len(sent)}
          /\ UNCHANGED <<sent, searched>>
      BY <1>4 DEF ByteHarmed
    <2>2. sent # <<>> /\ position + 1 <= Size(sent[Len(sent)]) /\ Len(sent) \in 1 .. Len(sent)
      <3>1. position + 1 \in 1 .. Size(sent[Len(sent)]) /\ sent # <<>>
        BY <2>1, NextByteFacts
      <3>2. Len(sent) \in 1 .. Len(sent)
        BY <1>0, <3>1, OriginFacts
      <3> QED BY <3>1, <3>2
    <2>3. harmed \subseteq harmed' /\ harmed' \subseteq 1 .. Len(sent) /\ Len(sent) \in harmed'
      BY <1>0, <2>1, <2>2
    <2>4. CASE Stream' = Stream
      BY <1>0, <2>1, <2>2, <2>3, <2>4, LossKeeps
    <2>5. CASE \E byte \in Bytes : /\ Grows(byte) /\ ComesFrom(byte, Len(sent), position + 1)
                                   /\ byte.altered
      <3>1. PICK byte \in Bytes : Grown(Stream, Stream', byte)
                                  /\ ComesFrom(byte, Len(sent), position + 1) /\ byte.altered
        BY <2>5 DEF Grows
      <3>2. OriginsIn(Stream', sent, position + 1, harmed') /\ NoGapsIn(Stream', sent, position + 1, harmed')
        BY <1>0, <2>2, <2>3, <3>1, ArrivalKeeps
      <3> QED BY <1>0, <2>1, <3>2
    <2> QED BY <1>4, <2>4, <2>5, ByteHarmedCases
  <1>5. ASSUME ReaderStep PROVE Fine
    <2>1. PICK n \in Nat : Dropped(Stream, Stream', n)
      BY <1>5, ReaderStepFacts DEF Drops
    <2>2. /\ UNCHANGED <<sent, position>> /\ harmed \subseteq harmed'
          /\ harmed' \subseteq 1 .. Len(sent) /\ searched' \subseteq 1 .. Len(sent)
      BY <1>5, ReaderStepFacts
    <2>3. OriginsIn(Stream', sent, position, harmed') /\ NoGapsIn(Stream', sent, position, harmed')
      BY <1>0, <2>1, <2>2, DropKeeps
    <2> QED BY <2>2, <2>3
  <1>6. ASSUME Flush PROVE Fine
    <2>1. /\ at = "judge" /\ sent # <<>> /\ position' = Size(Last(sent)) /\ line' = <<>>
          /\ UNCHANGED <<sent, header, globalRecvBuffer, searched>>
          /\ harmed' = harmed \union PackagesOf(line) \union (IF PackageUnderWay THEN {Len(sent)} ELSE {})
      BY <1>6 DEF Flush
    <2>2. header = <<>> /\ globalRecvBuffer = <<>>
      BY <2>1 DEF Control
    <2>3. Len(header') = 0 /\ Len(globalRecvBuffer') = 0 /\ Len(line') = 0
      BY <2>1, <2>2
    <2>4. Len(Stream') = 0
      BY <2>3, StreamFactsNext
    <2>5. Len(sent) \in 1 .. Len(sent) /\ Last(sent) = sent[Len(sent)] /\ Size(sent[Len(sent)]) \in Nat
      <3>1. sent # <<>>
        BY <2>1
      <3>2. Len(sent) \in 1 .. Len(sent) /\ Last(sent) = sent[Len(sent)]
        BY <1>0, <3>1, OriginFacts
      <3>3. Size(sent[Len(sent)]) \in Nat
        BY <1>0, <3>2, OriginFacts
      <3> QED BY <3>2, <3>3
    <2>6. harmed' \subseteq 1 .. Len(sent)
      BY <1>0, <2>1, <2>5, PackagesSent
    <2>7. OriginsIn(Stream', sent, position', harmed')
      BY <2>1, <2>4, <2>5, <2>6 DEF OriginsIn
    <2>8. NoGapsIn(Stream', sent, position', harmed')
      BY <2>4 DEF NoGapsIn, Forward, Across, Backward, BackwardFromLidar
    <2> QED BY <1>0, <2>1, <2>7, <2>8
  <1>7. BeginPackage \/ ByteArrives \/ ByteHarmed \/ ReaderStep \/ Flush
    BY DEF Next, ReaderStep
  <1>8. Fine
    BY <1>2, <1>3, <1>4, <1>5, <1>6, <1>7
  <1>9. Origins'
    BY <1>8 DEF Origins
  <1>10. NoGaps'
    BY <1>8 DEF NoGaps
  <1> QED BY <1>9, <1>10

\* What was sent stays sent, what was harmed stays harmed, and a package that is
\* done with stays so.
LEMMA Progress ==
    ASSUME Types, Types', Control, Origins, Next
    PROVE  /\ Len(sent) \in Nat /\ Len(sent') \in Nat /\ Len(sent) <= Len(sent') /\ harmed \subseteq harmed'
           /\ \A p \in 1 .. Len(sent) : sent'[p] = sent[p] /\ p \in 1 .. Len(sent')
           /\ \A p \in Nat : Done(p) => Done(p)' /\ p \in 1 .. Len(sent) /\ sent'[p] = sent[p]
  <1> USE DEF lidarVars, parserVars, scanVars, historyVars
  <1>0. InOrder(Stream, sent, position, harmed)
    BY InOrderFacts
  <1>a. ASSUME NEW p \in Nat, Done(p)
        PROVE  /\ p \in 1 .. Len(sent) /\ HasLeft(p, Size(sent[p]), sent, position)
               /\ \A i \in 1 .. Len(Stream) : Stream[i].package > p
    BY <1>a DEF Done
  <1>1. CASE BeginPackage
    <2>1. PICK kind \in KINDS : sent' = Append(sent, kind)
      BY <1>1 DEF BeginPackage
    <2>2. position' = 0 /\ Stream' = Stream /\ harmed' = harmed
      BY <1>1, StreamKept DEF BeginPackage
    <2>3. /\ Len(sent) \in Nat /\ Len(sent') = Len(sent) + 1
          /\ \A p \in 1 .. Len(sent) : sent'[p] = sent[p]
      BY <2>1, AppendFacts DEF Types
    <2>4. ASSUME NEW p \in Nat, Done(p) PROVE Done(p)'
      <3>1. p \in 1 .. Len(sent') /\ p < Len(sent')
        BY <1>a, <2>3, <2>4
      <3> QED BY <1>a, <2>2, <2>3, <2>4, <3>1 DEF Done, HasLeft
    <2> QED BY <1>a, <2>2, <2>3, <2>4
  <1>2. CASE ByteArrives \/ ByteHarmed
    <2>1. /\ sent' = sent /\ harmed \subseteq harmed' /\ position' = position + 1 /\ PackageUnderWay
      BY <1>2 DEF ByteArrives, ByteHarmed
    <2>2. /\ position + 1 <= Size(sent[Len(sent)]) /\ position \in Nat /\ Size(sent[Len(sent)]) \in Nat
          /\ Len(sent) \in Nat
      <3>1. Len(sent) \in Nat /\ sent[Len(sent)] \in KINDS /\ position + 1 \in 1 .. Size(sent[Len(sent)])
            /\ position \in Nat
        BY <2>1, NextByteFacts
      <3>2. Size(sent[Len(sent)]) \in Nat
        BY <3>1, KindFacts
      <3> QED BY <3>1, <3>2
    <2>3. \/ Stream' = Stream
          \/ \E byte \in Bytes : Grows(byte) /\ byte.package = Len(sent)
      <3>1. CASE ByteArrives
        <4>1. NextByte \in Bytes /\ ComesFrom(NextByte, Len(sent), position + 1)
              /\ line' = Append(line, NextByte) /\ UNCHANGED <<header, globalRecvBuffer>>
          BY <2>1, <3>1, NextByteFacts DEF ByteArrives
        <4>2. Grows(NextByte)
          BY <4>1, ArrivalGrows
        <4> QED BY <4>1, <4>2 DEF ComesFrom
      <3>2. CASE ByteHarmed
        BY <3>2, ByteHarmedCases DEF ComesFrom
      <3> QED BY <1>2, <3>1, <3>2
    <2>4. ASSUME NEW p \in Nat, Done(p) PROVE Done(p)'
      <3>1. p < Len(sent)
        <4>1. CASE p = Len(sent)
          <5>1. Size(sent[Len(sent)]) <= position
            BY <1>a, <2>4, <4>1 DEF HasLeft
          <5> QED BY <2>2, <5>1
        <4> QED BY <1>a, <2>2, <2>4, <4>1
      <3>2. ASSUME NEW i \in 1 .. Len(Stream') PROVE Stream'[i].package > p
        <4>1. CASE Stream' = Stream
          BY <1>a, <2>4, <4>1
        <4>2. CASE \E byte \in Bytes : Grows(byte) /\ byte.package = Len(sent)
          <5>1. PICK byte \in Bytes : Grows(byte) /\ byte.package = Len(sent)
            BY <4>2
          <5>2. CASE i = Len(Stream) + 1
            BY <2>2, <3>1, <5>1, <5>2 DEF Grows, Grown
          <5>3. CASE i # Len(Stream) + 1
            <6>1. i \in 1 .. Len(Stream) /\ Stream'[i] = Stream[i]
              BY <5>1, <5>3, StreamFacts DEF Grows, Grown
            <6> QED BY <1>a, <2>4, <6>1
          <5> QED BY <5>2, <5>3
        <4> QED BY <2>3, <4>1, <4>2
      <3> QED BY <1>a, <2>1, <2>4, <3>1, <3>2 DEF Done, HasLeft
    <2> QED BY <1>a, <2>1, <2>2, <2>4
  <1>3. CASE ReaderStep
    <2>1. PICK n \in Nat : Dropped(Stream, Stream', n)
      BY <1>3, ReaderStepFacts DEF Drops
    <2>2. UNCHANGED <<sent, position>> /\ harmed \subseteq harmed'
      BY <1>3, ReaderStepFacts
    <2>3. ASSUME NEW i \in 1 .. Len(Stream') PROVE \E j \in 1 .. Len(Stream) : Stream'[i] = Stream[j]
      <3>1. i \in 1 .. Len(Stream) - n /\ i + n \in 1 .. Len(Stream) /\ Stream'[i] = Stream[i + n]
        BY <2>1, StreamFacts DEF Dropped
      <3> QED BY <3>1
    <2>4. ASSUME NEW p \in Nat, Done(p) PROVE Done(p)'
      <3>1. \A i \in 1 .. Len(Stream') : Stream'[i].package > p
        BY <1>a, <2>3, <2>4
      <3> QED BY <1>a, <2>2, <2>4, <3>1 DEF Done
    <2>5. Len(sent) \in Nat
      BY <1>0, OriginFacts
    <2> QED BY <1>a, <2>2, <2>4, <2>5
  <1>4. CASE Flush
    <2>1. /\ at = "judge" /\ sent # <<>> /\ position' = Size(Last(sent)) /\ line' = <<>>
          /\ UNCHANGED <<sent, header, globalRecvBuffer>> /\ harmed \subseteq harmed'
      BY <1>4 DEF Flush
    <2>2. header = <<>> /\ globalRecvBuffer = <<>>
      BY <2>1 DEF Control
    <2>3. Len(header') = 0 /\ Len(globalRecvBuffer') = 0 /\ Len(line') = 0
      BY <2>1, <2>2
    <2>4. Len(Stream') = 0
      BY <2>3, StreamFactsNext
    <2>5. /\ Len(sent) \in Nat /\ Last(sent) = sent[Len(sent)] /\ Size(sent[Len(sent)]) \in Nat
          /\ Len(sent) \in 1 .. Len(sent)
      BY <1>0, <2>1, OriginFacts
    <2>6. ASSUME NEW p \in Nat, Done(p) PROVE Done(p)'
      <3>1. HasLeft(p, Size(sent[p]), sent, position')
        <4>1. CASE p < Len(sent)
          BY <4>1 DEF HasLeft
        <4>2. CASE ~(p < Len(sent))
          <5>1. p = Len(sent)
            BY <1>a, <2>5, <2>6, <4>2
          <5> QED BY <2>1, <2>5, <5>1 DEF HasLeft
        <4> QED BY <4>1, <4>2
      <3> QED BY <1>a, <2>1, <2>4, <2>6, <3>1 DEF Done
    <2> QED BY <1>a, <2>1, <2>5, <2>6
  <1>5. BeginPackage \/ ByteArrives \/ ByteHarmed \/ ReaderStep \/ Flush
    BY DEF Next, ReaderStep
  <1> QED BY <1>1, <1>2, <1>3, <1>4, <1>5

-----------------------------------------------------------------------------
(* The packages read.                                                      *)

\* The stream begins with a package nothing happened to: what follows is that
\* package.
LEMMA Alignment ==
    ASSUME NEW s, NEW all, NEW q, NEW hurt, InOrder(s, all, q, hurt), NoGapsIn(s, all, q, hurt),
           NEW p, p \notin hurt, s # <<>>, ComesFrom(s[1], p, 1),
           NEW i \in 1 .. Len(s), i <= Size(all[p])
    PROVE  /\ ComesFrom(s[i], p, i) /\ ~s[i].altered /\ s[i].value = ByteAt(all[p], i)
           /\ p \in 1 .. Len(all)
  <1>1. 1 \in 1 .. Len(s) /\ Len(s) \in Nat /\ s[1].package = p /\ s[1].place = 1
    BY OriginFacts DEF ComesFrom
  <1>2. p \in 1 .. Len(all) /\ p \in Nat
    BY <1>1, OriginFacts
  <1> DEFINE r == s[i].package  n == s[i].place
  <1>3. /\ r \in Nat /\ r \in 1 .. Len(all) /\ n \in Nat /\ 1 <= n /\ n <= Size(all[r])
        /\ HasLeft(r, n, all, q)
    BY OriginFacts DEF InOrder, OriginsIn
  <1>4. p <= r
    <2>1. CASE i = 1
      BY <1>1, <1>2, <2>1
    <2>2. CASE i # 1
      <3>1. 1 < i
        BY <2>2
      <3>2. s[1].package < s[i].package \/ (s[1].package = s[i].package /\ s[1].place < s[i].place)
        BY <1>1, <3>1, OriginFacts
      <3> QED BY <1>1, <1>2, <1>3, <3>2
    <2> QED BY <2>1, <2>2
  <1>5. ComesFrom(s[i], p, i)
    <2>1. CASE r = p
      <3>1. n - 1 \in Nat /\ 1 + (n - 1) = n
        BY <1>3
      <3>2. 1 + (n - 1) <= Len(s) /\ ComesFrom(s[1 + (n - 1)], p, 1 + (n - 1))
        <4>1. /\ s[1].package \notin hurt /\ s[1].place + (n - 1) = n /\ n <= Size(all[s[1].package])
              /\ HasLeft(s[1].package, n, all, q)
          BY <1>1, <1>3, <2>1, <3>1
        <4>2. \A k \in Nat :
                 s[1].place + k <= Size(all[s[1].package]) /\ HasLeft(s[1].package, s[1].place + k, all, q)
                 => 1 + k <= Len(s) /\ ComesFrom(s[1 + k], s[1].package, s[1].place + k)
          BY <1>1, <4>1 DEF NoGapsIn, Forward
        <4> QED BY <1>1, <3>1, <4>1, <4>2
      <3>3. n \in 1 .. Len(s) /\ s[n].package = p /\ s[n].place = n
        BY <1>3, <3>1, <3>2 DEF ComesFrom
      <3>4. n = i
        <4>1. ~(n < i)
          <5>1. n < i => s[n].package < s[i].package \/ (s[n].package = s[i].package /\ s[n].place < s[i].place)
            BY <3>3, OriginFacts
          <5> QED BY <1>2, <1>3, <2>1, <3>3, <5>1
        <4>2. ~(i < n)
          <5>1. i < n => s[i].package < s[n].package \/ (s[i].package = s[n].package /\ s[i].place < s[n].place)
            BY <3>3, OriginFacts
          <5> QED BY <1>2, <1>3, <2>1, <3>3, <5>1
        <4> QED BY <1>1, <1>3, <4>1, <4>2
      <3> QED BY <2>1, <3>4 DEF ComesFrom
    <2>2. CASE r # p
      <3>1. p < r /\ r <= Len(all) /\ Len(all) \in Nat
        BY <1>2, <1>3, <1>4, <2>2, OriginFacts
      <3>2. p < Len(all) /\ i - 1 \in Nat /\ 1 + (i - 1) = i
        BY <1>2, <1>3, <3>1
      <3>3. HasLeft(s[1].package, s[1].place + (i - 1), all, q) /\ s[1].place + (i - 1) = i
        BY <1>1, <3>2 DEF HasLeft
      <3>4. \A k \in Nat :
               s[1].place + k <= Size(all[s[1].package]) /\ HasLeft(s[1].package, s[1].place + k, all, q)
               => 1 + k <= Len(s) /\ ComesFrom(s[1 + k], s[1].package, s[1].place + k)
        BY <1>1 DEF NoGapsIn, Forward
      <3> QED BY <1>1, <3>2, <3>3, <3>4
    <2> QED BY <2>1, <2>2
  <1>6. ~s[i].altered /\ s[i].value = ByteAt(all[p], i)
    BY <1>5 DEF InOrder, OriginsIn, ComesFrom
  <1> QED BY <1>2, <1>5, <1>6

\* The parser keeps the bytes of the header of such a package.
LEMMA AlignedParse ==
    ASSUME Types, Types', Control, Origins, NoGaps, ParseHeader,
           NEW p, p \notin harmed, Stream # <<>>, ComesFrom(Stream[1], p, 1)
    PROVE  /\ KeepsByte /\ ComesFrom(Head(globalRecvBuffer), p, Len(header) + 1)
           /\ Head(globalRecvBuffer).value = ByteAt(sent[p], Len(header) + 1)
           /\ sent[p] \in KINDS
  <1> DEFINE h == Len(header)  byte == Head(globalRecvBuffer)
  <1>1. byte = Stream[h + 1] /\ h < 10 /\ h \in Nat /\ h + 1 <= Len(Stream) /\ Len(Stream) \in Nat
    BY ParseHeaderDrops, StreamFacts DEF PackagePaidBytes
  <1>2. InOrder(Stream, sent, position, harmed) /\ NoGapsIn(Stream, sent, position, harmed)
    BY InOrderFacts DEF NoGaps
  <1>3. 1 \in 1 .. Len(Stream) /\ h + 1 \in 1 .. Len(Stream)
    BY <1>1
  <1>4. p \in 1 .. Len(sent) /\ sent[p] \in KINDS /\ Size(sent[p]) \in Nat /\ 13 <= Size(sent[p])
    <2>1. p \in 1 .. Len(sent)
      BY <1>2, <1>3, OriginFacts DEF ComesFrom
    <2> QED BY <1>2, <2>1, OriginFacts
  <1>5. h + 1 <= Size(sent[p])
    BY <1>1, <1>4
  <1>6. ComesFrom(byte, p, h + 1) /\ byte.value = ByteAt(sent[p], h + 1)
    <2> HIDE DEF h, byte
    <2> QED BY <1>1, <1>2, <1>3, <1>5, Alignment
  <1>7. /\ h = 0 => byte.value = 170
        /\ h = 1 => byte.value = 85
        /\ h \in {4, 6} => byte.value = 1
    <2> HIDE DEF h, byte
    <2>1. /\ ByteAt(sent[p], 1) = 170 /\ ByteAt(sent[p], 2) = 85
          /\ ByteAt(sent[p], 5) = 1 /\ ByteAt(sent[p], 7) = 1
      BY <1>4, ByteAtFacts
    <2>2. (h = 0 => h + 1 = 1) /\ (h = 1 => h + 1 = 2) /\ (h = 4 => h + 1 = 5) /\ (h = 6 => h + 1 = 7)
      OBVIOUS
    <2> QED BY <1>6, <2>1, <2>2
  <1>8. ~StartsOver
    BY <1>7 DEF StartsOver, PH_LOW, PH_HIGH
  <1> QED BY <1>4, <1>6, <1>8, ParseHeaderCases

\* The check sum fits the bytes of one package, as sent ...
LEMMA PayloadFits ==
    ASSUME Types, Types', Control, ReadPayload
    PROVE  LET n == header[4].value * PackageSampleBytes
           IN  CheckSumResult' <=> \A i \in 1 .. 10 + n : /\ Stream[i].package = Stream[1].package
                                                          /\ Stream[i].place = i /\ ~Stream[i].altered
  <1> DEFINE n == header[4].value * PackageSampleBytes
             payload == SubSeq(line, 1, n)
             bytes == header \o payload
  <1>1. /\ n \in Nat /\ Len(header) = 10 /\ Len(payload) = n /\ payload \in Seq(Bytes)
        /\ \A i \in 1 .. n : payload[i] = Stream[10 + i]
        /\ \A i \in 1 .. 10 : header[i] = Stream[i]
    BY ReadPayloadDrops
  <1>2. header \in Seq(Bytes)
    BY DEF Types
  <1>3. CheckSumResult' = CheckSumFits(bytes)
    BY DEF ReadPayload
  <1> HIDE DEF n, payload
  <1>4. /\ bytes \in Seq(Bytes) /\ Len(bytes) = 10 + n
        /\ \A i \in 1 .. 10 + n : bytes[i] = IF i <= 10 THEN header[i] ELSE payload[i - 10]
    <2>1. payload \in Seq(Bytes)
      BY <1>1
    <2>2. /\ bytes \in Seq(Bytes) /\ Len(bytes) = Len(header) + Len(payload)
          /\ \A i \in 1 .. Len(header) + Len(payload) :
               bytes[i] = IF i <= Len(header) THEN header[i] ELSE payload[i - Len(header)]
      BY <1>2, <2>1, ConcatProperties
    <2> HIDE DEF bytes
    <2> QED BY <1>1, <2>2
  <1> HIDE DEF bytes
  <1>5. ASSUME NEW i \in 1 .. 10 + n PROVE bytes[i] = Stream[i]
    <2>1. CASE i <= 10
      <3>1. i \in 1 .. 10
        BY <1>1, <2>1
      <3> QED BY <1>1, <1>4, <2>1, <3>1
    <2>2. CASE ~(i <= 10)
      <3>1. i - 10 \in 1 .. n /\ 10 + (i - 10) = i
        BY <1>1, <2>2
      <3>2. bytes[i] = payload[i - 10]
        BY <1>4, <2>2
      <3>3. payload[i - 10] = Stream[10 + (i - 10)]
        BY <1>1, <3>1
      <3> QED BY <3>1, <3>2, <3>3
    <2> QED BY <2>1, <2>2
  <1>6. DOMAIN bytes = 1 .. 10 + n /\ 1 \in 1 .. 10 + n
    BY <1>1, <1>4, LenProperties
  <1>7. CheckSumFits(bytes) <=> \A i \in 1 .. 10 + n : /\ Stream[i].package = Stream[1].package
                                                       /\ Stream[i].place = i /\ ~Stream[i].altered
    BY <1>5, <1>6 DEF CheckSumFits
  <1> QED BY <1>3, <1>7 DEF n

\* ... and of the whole of it.
LEMMA FitsMeansWhole ==
    ASSUME Types, Types', Control, Origins, ReadPayload, CheckSumResult',
           NEW p, p = Stream[1].package
    PROVE  LET n == header[4].value * PackageSampleBytes
           IN  /\ p \in 1 .. Len(sent) /\ sent[p] \in KINDS /\ Size(sent[p]) = 10 + n /\ 10 + n \in 1 .. Len(Stream)
               /\ ComesFrom(Stream[1], p, 1) /\ ComesFrom(Stream[10 + n], p, Size(sent[p]))
               /\ Current' = p /\ WholePackage'
               /\ \A i \in 1 .. 10 : header[i] = Stream[i] /\ header[i].value = ByteAt(sent[p], i)
  <1> DEFINE n == header[4].value * PackageSampleBytes
  <1>1. /\ n \in Nat /\ 10 + n <= Len(Stream) /\ Drops(10 + n) /\ header[4].value \in Nat
        /\ Len(SubSeq(line, 1, n)) = n
        /\ \A i \in 1 .. n : SubSeq(line, 1, n)[i] = Stream[10 + i]
        /\ \A i \in 1 .. 10 : header[i] = Stream[i]
    BY ReadPayloadDrops
  <1>2. \A i \in 1 .. 10 + n : Stream[i].package = p /\ Stream[i].place = i /\ ~Stream[i].altered
    BY PayloadFits
  <1>n. n = 3 * header[4].value
    BY <1>1 DEF PackageSampleBytes
  <1>3. InOrder(Stream, sent, position, harmed) /\ Len(Stream) \in Nat
    BY InOrderFacts, StreamFacts
  <1>s. /\ UNCHANGED <<sent, position>>
        /\ package' = [ring |-> header[3].value % 2 = 1, samples |-> header[4].value,
                       payload |-> SubSeq(line, 1, n)]
    BY DEF ReadPayload, lidarVars
  <1> HIDE DEF n
  <1>4. 1 \in 1 .. Len(Stream) /\ 10 + n \in 1 .. Len(Stream) /\ 10 + n \in 1 .. 10 + n /\ 1 \in 1 .. 10 + n
    BY <1>1, <1>3
  <1>5. p \in 1 .. Len(sent) /\ p \in Nat /\ sent[p] \in KINDS /\ Size(sent[p]) \in Nat
    BY <1>3, <1>4, OriginFacts
  <1>6. ASSUME NEW i \in 1 .. 10 PROVE header[i] = Stream[i] /\ header[i].value = ByteAt(sent[p], i)
    <2>1. header[i] = Stream[i] /\ i \in 1 .. 10 + n /\ i \in 1 .. Len(Stream)
      BY <1>1, <1>3
    <2>2. Stream[i].package = p /\ Stream[i].place = i /\ ~Stream[i].altered
      BY <1>2, <2>1
    <2>3. ~Stream[i].altered => Stream[i].value = ByteAt(sent[Stream[i].package], Stream[i].place)
      BY <2>1 DEF Origins, OriginsIn
    <2> QED BY <2>1, <2>2, <2>3
  <1>7. header[4].value = Len(sent[p].samples) /\ header[3].value = IF sent[p].ring THEN 1 ELSE 0
    <2>1. header[4].value = ByteAt(sent[p], 4) /\ header[3].value = ByteAt(sent[p], 3)
      BY <1>6
    <2> QED BY <1>5, <2>1, ByteAtFacts
  <1>8. Size(sent[p]) = 10 + n /\ n >= 3
    <2>1. Size(sent[p]) = 10 + 3 * Len(sent[p].samples) /\ Len(sent[p].samples) \in Nat
          /\ 1 <= Len(sent[p].samples)
      BY <1>5, KindFacts
    <2>2. n = 3 * Len(sent[p].samples)
      BY <1>7, <1>n
    <2> QED BY <2>1, <2>2
  <1>9. /\ package'.ring = sent[p].ring /\ package'.samples = Len(sent[p].samples)
        /\ package'.payload = SubSeq(line, 1, n)
    <2>1. sent[p].ring \in BOOLEAN
      BY <1>5, KindFacts
    <2>2. (header[3].value % 2 = 1) = sent[p].ring
      BY <1>7, <2>1
    <2> QED BY <1>7, <1>s, <2>2
  <1>10. ASSUME NEW i \in 1 .. Len(package'.payload)
         PROVE  ComesFrom(package'.payload[i], p, PackagePaidBytes + i)
    <2>1. i \in 1 .. n /\ package'.payload[i] = Stream[10 + i] /\ 10 + i \in 1 .. 10 + n
      BY <1>1, <1>9
    <2> QED BY <1>2, <2>1 DEF ComesFrom, PackagePaidBytes
  <1>11. Current' = p
    <2>1. 1 \in 1 .. Len(package'.payload)
      BY <1>1, <1>8, <1>9
    <2> QED BY <1>10, <2>1 DEF Current, ComesFrom
  <1>12. Done(p)'
    <2>1. HasLeft(p, Size(sent[p]), sent, position)
      BY <1>2, <1>4, <1>8 DEF Origins, OriginsIn
    <2>2. ASSUME NEW i \in 1 .. Len(Stream') PROVE Stream'[i].package > p
      <3>1. i \in 1 .. Len(Stream) - (10 + n) /\ Stream'[i] = Stream[i + (10 + n)]
        BY <1>1 DEF Drops, Dropped
      <3>2. i + (10 + n) \in 1 .. Len(Stream) /\ 10 + n < i + (10 + n)
        BY <1>1, <1>3, <3>1
      <3> DEFINE j == i + (10 + n)
      <3>3. \/ Stream[10 + n].package < Stream[j].package
            \/ Stream[10 + n].package = Stream[j].package /\ Stream[10 + n].place < Stream[j].place
        BY <1>3, <1>4, <3>2, OriginFacts
      <3>4. Stream[j].place <= Size(sent[Stream[j].package]) /\ Stream[j].package \in Nat /\ Stream[j].place \in Nat
        BY <1>3, <3>2, OriginFacts
      <3>5. Stream[10 + n].package = p /\ Stream[10 + n].place = Size(sent[p])
        BY <1>2, <1>4, <1>8
      <3> HIDE DEF j
      <3>6. p < Stream[j].package
        <4>1. Stream[j].package = p => Stream[j].place <= Size(sent[p])
          BY <3>4
        <4> QED BY <1>5, <3>3, <3>4, <3>5, <4>1
      <3> QED BY <1>5, <3>1, <3>4, <3>6 DEF j
    <2> QED BY <1>5, <1>s, <2>1, <2>2 DEF Done
  <1>13. WholePackage'
    BY <1>s, <1>9, <1>10, <1>11, <1>12 DEF WholePackage
  <1>14. ComesFrom(Stream[1], p, 1) /\ ComesFrom(Stream[10 + n], p, Size(sent[p]))
    BY <1>2, <1>4, <1>8 DEF ComesFrom
  <1> QED BY <1>4, <1>5, <1>6, <1>8, <1>11, <1>13, <1>14 DEF n

LEMMA AlignedPayload ==
    ASSUME Types, Types', Control, Origins, NoGaps, ReadPayload,
           NEW p, p \notin harmed, Stream # <<>>, ComesFrom(Stream[1], p, 1)
    PROVE  CheckSumResult'
  <1> DEFINE n == header[4].value * PackageSampleBytes
  <1>1. /\ n \in Nat /\ 10 + n <= Len(Stream) /\ header[4].value \in Nat
        /\ \A i \in 1 .. 10 : header[i] = Stream[i]
    BY ReadPayloadDrops
  <1>2. InOrder(Stream, sent, position, harmed) /\ NoGapsIn(Stream, sent, position, harmed)
        /\ Len(Stream) \in Nat
    BY InOrderFacts, StreamFacts DEF NoGaps
  <1>n. n = 3 * header[4].value
    BY <1>1 DEF PackageSampleBytes
  <1> HIDE DEF n
  <1>3. 1 \in 1 .. Len(Stream) /\ 4 \in 1 .. Len(Stream) /\ \A i \in 1 .. 10 + n : i \in 1 .. Len(Stream)
    BY <1>1, <1>2
  <1>4. p \in 1 .. Len(sent)
    BY <1>2, <1>3, OriginFacts DEF ComesFrom
  <1>5. sent[p] \in KINDS /\ Size(sent[p]) \in Nat /\ 13 <= Size(sent[p])
    BY <1>2, <1>4, OriginFacts
  <1>6. header[4].value = Len(sent[p].samples)
    <2>1. Stream[4].value = ByteAt(sent[p], 4)
      BY <1>2, <1>3, <1>5, Alignment
    <2>2. header[4] = Stream[4]
      BY <1>1
    <2> QED BY <1>5, <2>1, <2>2, ByteAtFacts
  <1>7. Size(sent[p]) = 10 + n
    <2>1. Size(sent[p]) = 10 + 3 * Len(sent[p].samples)
      BY <1>5, KindFacts
    <2> QED BY <1>6, <1>n, <2>1
  <1>8. ASSUME NEW i \in 1 .. 10 + n
        PROVE  Stream[i].package = Stream[1].package /\ Stream[i].place = i /\ ~Stream[i].altered
    <2>1. i \in 1 .. Len(Stream) /\ i <= Size(sent[p])
      BY <1>3, <1>7
    <2>2. ComesFrom(Stream[i], p, i) /\ ~Stream[i].altered
      BY <1>2, <2>1, Alignment
    <2> QED BY <2>2 DEF ComesFrom
  <1> QED BY <1>8, PayloadFits DEF n

\* The steps that neither read a package nor report a node.
LEMMA OtherSteps ==
    ASSUME Next, ~ReadPayload, ~EmitNode
    PROVE  UNCHANGED <<package, CheckSumResult, package_Sample_Index, got, package_index>>
  BY DEF Next, BeginPackage, ByteArrives, ByteHarmed, ReadHeader, ParseHeader, WaitTimesOut,
         CallTimesOut, Collect, Listen, Flush, lidarVars, parserVars, scanVars, historyVars

LEMMA EmitFacts ==
    ASSUME Types, Control, WholePackage, EmitNode
    PROVE  /\ at = "node" /\ got \in Seq(Points)
           /\ UNCHANGED <<sent, position, header, globalRecvBuffer, line, package, harmed, searched, tim_scan>>
           /\ CheckSumResult => got' = Append(got, <<Current, package_Sample_Index + 1>>)
                                /\ <<Current, package_Sample_Index + 1>> \in Points
                                /\ Len(got') = Len(got) + 1 /\ Len(got) \in Nat
                                /\ got'[Len(got) + 1] = <<Current, package_Sample_Index + 1>>
                                /\ \A i \in 1 .. Len(got) : got'[i] = got[i]
           /\ ~CheckSumResult => got' = got /\ ~CheckSumResult'
           /\ CheckSumResult' => CheckSumResult /\ package_Sample_Index' = package_Sample_Index + 1
                                 /\ package_Sample_Index + 1 < package.samples
           /\ CheckSumResult /\ ~CheckSumResult' =>
                 package_Sample_Index + 1 = package.samples /\ package_Sample_Index' = 0
           /\ LastSample => package_Sample_Index' = 0 /\ ~CheckSumResult'
           /\ ~LastSample => package_Sample_Index' = package_Sample_Index + 1 /\ CheckSumResult' = CheckSumResult
           /\ LastSample <=> package_Sample_Index + 1 >= package.samples
  <1>1. /\ at = "node" /\ package_Sample_Index' = AfterSample.index /\ CheckSumResult' = AfterSample.fits
        /\ got' = IF Node.point = NoPoint THEN got ELSE Append(got, Node.point)
        /\ UNCHANGED <<sent, position, header, globalRecvBuffer, line, package, harmed, searched, tim_scan>>
    BY DEF EmitNode, lidarVars
  <1>2. got \in Seq(Points) /\ CheckSumResult \in BOOLEAN /\ package_Sample_Index \in Nat
    BY DEF Types
  <1>n. package.samples \in Nat
    BY ByteValueFacts DEF Types
  <1>3. ~CheckSumResult => got' = got /\ ~CheckSumResult'
    <2>1. ~CheckSumResult => Node.point = NoPoint
      BY NodeFacts DEF HasPoint
    <2> QED BY <1>1, <1>2, <2>1, AfterSampleFacts
  <1>4. CheckSumResult => /\ got' = Append(got, <<Current, package_Sample_Index + 1>>)
                          /\ <<Current, package_Sample_Index + 1>> \in Points
    BY <1>1, NodeFacts DEF HasPoint
  <1>5. CheckSumResult => /\ Len(got') = Len(got) + 1 /\ Len(got) \in Nat
                          /\ got'[Len(got) + 1] = <<Current, package_Sample_Index + 1>>
                          /\ \A i \in 1 .. Len(got) : got'[i] = got[i]
    BY <1>2, <1>4, AppendFacts
  <1>6. LastSample <=> package_Sample_Index + 1 >= package.samples
    BY DEF LastSample
  <1>7. /\ LastSample => package_Sample_Index' = 0 /\ ~CheckSumResult'
        /\ ~LastSample => package_Sample_Index' = package_Sample_Index + 1 /\ CheckSumResult' = CheckSumResult
    BY <1>1, AfterSampleFacts
  <1>8. CheckSumResult' => CheckSumResult /\ package_Sample_Index' = package_Sample_Index + 1
                                 /\ package_Sample_Index + 1 < package.samples
    <2> SUFFICES ASSUME CheckSumResult'
                 PROVE  CheckSumResult /\ package_Sample_Index' = package_Sample_Index + 1
                        /\ package_Sample_Index + 1 < package.samples
      OBVIOUS
    <2>1. ~LastSample
      BY <1>7
    <2>2. package_Sample_Index + 1 < package.samples
      BY <1>2, <1>n, <1>6, <2>1
    <2> QED BY <1>2, <1>7, <2>1, <2>2
  <1>9. CheckSumResult /\ ~CheckSumResult' =>
                 package_Sample_Index + 1 = package.samples /\ package_Sample_Index' = 0
    <2> SUFFICES ASSUME CheckSumResult, ~CheckSumResult'
                 PROVE  package_Sample_Index + 1 = package.samples /\ package_Sample_Index' = 0
      OBVIOUS
    <2>1. LastSample
      BY <1>7
    <2>2. package_Sample_Index < package.samples
      BY CurrentFacts
    <2> QED BY <1>2, <1>n, <1>6, <1>7, <2>1, <2>2
  <1> QED BY <1>1, <1>2, <1>3, <1>4, <1>5, <1>6, <1>7, <1>8, <1>9

LEMMA WholePackageNext ==
    ASSUME Types, Types', Control, Origins, WholePackage, Next
    PROVE  WholePackage'
  <1>1. CASE ReadPayload
    <2>1. CASE CheckSumResult'
      BY <1>1, <2>1, FitsMeansWhole
    <2>2. CASE ~CheckSumResult'
      BY <2>2 DEF WholePackage
    <2> QED BY <2>1, <2>2
  <1>2. CASE ~ReadPayload
    <2> SUFFICES ASSUME CheckSumResult' PROVE WholePackage'
      BY DEF WholePackage
    <2>1. CheckSumResult /\ package' = package
      <3>1. CASE EmitNode
        BY <3>1, EmitFacts
      <3>2. CASE ~EmitNode
        BY <1>2, <3>2, OtherSteps
      <3> QED BY <3>1, <3>2
    <2>2. PICK p \in Nat : p = Current
      BY <2>1, CurrentFacts
    <2>3. Current' = p
      BY <2>1, <2>2 DEF Current
    <2>4. Done(p) /\ package.ring = sent[p].ring /\ package.samples = Len(sent[p].samples)
          /\ \A i \in 1 .. Len(package.payload) : ComesFrom(package.payload[i], p, PackagePaidBytes + i)
      BY <2>1, <2>2 DEF WholePackage
    <2>5. Done(p)' /\ sent'[p] = sent[p]
      BY <2>4, Progress
    <2> QED BY <2>1, <2>3, <2>4, <2>5 DEF WholePackage
  <1> QED BY <1>1, <1>2

LEMMA PointFacts ==
    ASSUME Types, PointsBehind, NEW i \in 1 .. Len(got)
    PROVE  /\ got[i] \in Points /\ got[i][1] \in Nat /\ got[i][2] \in Nat /\ Done(got[i][1])
           /\ got[i][1] \in 1 .. Len(sent) /\ got[i] = <<got[i][1], got[i][2]>>
           /\ got[i][2] \in 1 .. Len(sent[got[i][1]].samples)
  <1>1. got[i] \in Points
    BY ElementOfSeq DEF Types
  <1>2. Done(got[i][1]) /\ got[i][2] \in 1 .. Len(sent[got[i][1]].samples)
    BY DEF PointsBehind
  <1> QED BY <1>1, <1>2 DEF Points, Done

\* Reported points stay behind the stream.
LEMMA PointsStay ==
    ASSUME Types, Types', Control, Origins, PointsBehind, Next,
           NEW i \in 1 .. Len(got), NEW p, p = got[i][1]
    PROVE  /\ p \in Nat /\ Done(p)' /\ sent'[p] = sent[p] /\ p \in 1 .. Len(sent)
           /\ got[i][2] \in Nat /\ got[i][2] \in 1 .. Len(sent[p].samples)
  <1>1. p \in Nat /\ Done(p) /\ got[i][2] \in Nat /\ got[i][2] \in 1 .. Len(sent[p].samples)
    BY PointFacts
  <1> QED BY <1>1, Progress

LEMMA PointsBehindNext ==
    ASSUME Types, Types', Control, Origins, WholePackage, PointsBehind, Next
    PROVE  PointsBehind'
  <1> SUFFICES ASSUME NEW i \in 1 .. Len(got')
               PROVE  /\ \A p : p = got'[i][1] => Done(p)'
                      /\ got'[i][2] \in 1 .. Len(sent'[got'[i][1]].samples)
                      /\ CheckSumResult' => got'[i][1] < Current' \/
                             (got'[i][1] = Current' /\ got'[i][2] <= package_Sample_Index')
    BY DEF PointsBehind
  <1>1. CASE EmitNode /\ CheckSumResult
    <2> DEFINE k == Len(got) + 1
    <2>1. /\ Len(got') = k /\ Len(got) \in Nat /\ got'[k] = <<Current, package_Sample_Index + 1>>
          /\ \A j \in 1 .. Len(got) : got'[j] = got[j]
          /\ package' = package /\ sent' = sent
      BY <1>1, EmitFacts
    <2>2. PICK p \in Nat : p = Current
      BY <1>1, CurrentFacts
    <2>3. Current' = p
      BY <2>1, <2>2 DEF Current
    <2>4. /\ Done(p) /\ package.samples = Len(sent[p].samples) /\ package.samples \in Nat
          /\ package_Sample_Index \in Nat /\ package_Sample_Index < package.samples
      BY <1>1, <2>2, CurrentFacts
    <2>5. Done(p)'
      BY <2>4, Progress
    <2>6. CheckSumResult' => package_Sample_Index' = package_Sample_Index + 1
      BY <1>1, EmitFacts
    <2>7. package_Sample_Index + 1 \in 1 .. Len(sent[p].samples)
      BY <2>4
    <2>8. CASE i = k
      <3>1. got'[i][1] = p /\ got'[i][2] = package_Sample_Index + 1
        BY <2>1, <2>2, <2>8
      <3> QED BY <2>1, <2>3, <2>4, <2>5, <2>6, <2>7, <3>1
    <2>9. CASE i # k
      <3>1. i \in 1 .. Len(got) /\ got'[i] = got[i]
        BY <2>1, <2>9
      <3>2. PICK r \in Nat : r = got[i][1]
        BY <3>1, PointFacts
      <3>3. Done(r)' /\ sent'[r] = sent[r] /\ got[i][2] \in 1 .. Len(sent[r].samples) /\ got[i][2] \in Nat
        BY <3>1, <3>2, PointsStay
      <3>4. r < p \/ (r = p /\ got[i][2] <= package_Sample_Index)
        BY <1>1, <2>2, <3>1, <3>2 DEF PointsBehind
      <3>5. CheckSumResult' => r < p \/ (r = p /\ got[i][2] <= package_Sample_Index')
        BY <2>4, <2>6, <3>3, <3>4
      <3> QED BY <2>3, <3>1, <3>2, <3>3, <3>5
    <2> QED BY <2>8, <2>9
  <1>2. CASE ~(EmitNode /\ CheckSumResult) 
    <2>1. got' = got
      <3>1. CASE EmitNode
        BY <1>2, <3>1, EmitFacts
      <3>2. CASE ReadPayload
        BY <3>2 DEF ReadPayload, historyVars
      <3>3. CASE ~EmitNode /\ ~ReadPayload
        BY <3>3, OtherSteps
      <3> QED BY <3>1, <3>2, <3>3
    <2>2. PICK r \in Nat : r = got[i][1]
      BY <2>1, PointFacts
    <2>3. Done(r)' /\ sent'[r] = sent[r] /\ got[i][2] \in 1 .. Len(sent[r].samples) /\ Done(r)
      BY <2>1, <2>2, PointsStay, PointFacts
    <2>4. CheckSumResult' => r < Current' \/ (r = Current' /\ got[i][2] <= package_Sample_Index')
      <3>1. CASE EmitNode
        BY <1>2, <3>1, EmitFacts
      <3>2. CASE ReadPayload
        <4> SUFFICES ASSUME CheckSumResult' PROVE r < Current'
          OBVIOUS
        <4>1. 10 + header[4].value * PackageSampleBytes \in 1 .. Len(Stream)
          BY <3>2, FitsMeansWhole
        <4>2. 1 \in 1 .. Len(Stream)
          BY <4>1, StreamFacts
        <4>3. PICK p \in Nat : p = Stream[1].package
          BY <4>2, InOrderFacts, OriginFacts
        <4>4. Current' = p
          BY <3>2, <4>3, FitsMeansWhole
        <4>5. Stream[1].package > r
          BY <2>3, <4>2 DEF Done
        <4> QED BY <4>3, <4>4, <4>5
      <3>3. CASE ~EmitNode /\ ~ReadPayload
        <4>1. UNCHANGED <<package, CheckSumResult, package_Sample_Index>>
          BY <3>3, OtherSteps
        <4>2. Current' = Current
          BY <4>1 DEF Current
        <4> QED BY <2>1, <2>2, <4>1, <4>2 DEF PointsBehind
      <3> QED BY <3>1, <3>2, <3>3
    <2> QED BY <2>1, <2>2, <2>3, <2>4
  <1> QED BY <1>1, <1>2

LEMMA PointsInOrderNext ==
    ASSUME Types, Types', Control, Origins, WholePackage, PointsBehind, PointsInOrder, Next
    PROVE  PointsInOrder'
  <1>0. DOMAIN got = 1 .. Len(got) /\ DOMAIN got' = 1 .. Len(got') /\ Len(got) \in Nat
    BY LenProperties DEF Types
  <1>1. CASE EmitNode /\ CheckSumResult
    <2>1. /\ Len(got') = Len(got) + 1 /\ Len(got) \in Nat
          /\ got'[Len(got) + 1] = <<Current, package_Sample_Index + 1>>
          /\ \A i \in 1 .. Len(got) : got'[i] = got[i]
      BY <1>1, EmitFacts
    <2>2. package_Sample_Index \in Nat /\ Current \in Nat
      BY <1>1, CurrentFacts
    <2>3. ASSUME NEW i \in 1 .. Len(got'), NEW j \in 1 .. Len(got'), i < j
          PROVE  got'[i][1] < got'[j][1] \/ (got'[i][1] = got'[j][1] /\ got'[i][2] < got'[j][2])
      <3>1. i \in 1 .. Len(got) /\ got'[i] = got[i]
        BY <2>1, <2>3
      <3>2. CASE j = Len(got) + 1
        <4>1. got[i][1] < Current \/ (got[i][1] = Current /\ got[i][2] <= package_Sample_Index)
          BY <1>1, <3>1 DEF PointsBehind
        <4>2. got[i][1] \in Nat /\ got[i][2] \in Nat
          BY <3>1, PointFacts
        <4>3. got'[j][1] = Current /\ got'[j][2] = package_Sample_Index + 1
          BY <2>1, <3>2
        <4> QED BY <2>2, <3>1, <4>1, <4>2, <4>3
      <3>3. CASE j # Len(got) + 1
        <4>1. j \in 1 .. Len(got) /\ got'[j] = got[j]
          BY <2>1, <3>3
        <4> QED BY <1>0, <2>3, <3>1, <4>1 DEF PointsInOrder
      <3> QED BY <3>2, <3>3
    <2> QED BY <1>0, <2>3 DEF PointsInOrder
  <1>2. CASE ~(EmitNode /\ CheckSumResult)
    <2>1. got' = got
      <3>1. CASE EmitNode
        BY <1>2, <3>1, EmitFacts
      <3>2. CASE ReadPayload
        BY <3>2 DEF ReadPayload, historyVars
      <3>3. CASE ~EmitNode /\ ~ReadPayload
        BY <3>3, OtherSteps
      <3> QED BY <3>1, <3>2, <3>3
    <2> QED BY <2>1 DEF PointsInOrder
  <1> QED BY <1>1, <1>2

-----------------------------------------------------------------------------
(* Package by package.                                                     *)

LEMMA ReportedFacts ==
    ASSUME Types, PointsBehind
    PROVE  /\ Reported \in Nat /\ (got = <<>> => Reported = 0)
           /\ got # <<>> => /\ Len(got) \in 1 .. Len(got) /\ Reported = got[Len(got)][1]
                            /\ Reported \in 1 .. Len(sent) /\ Done(Reported)
           /\ \A i \in 1 .. Len(got) : i \in Nat
  <1>1. got \in Seq(Points)
    BY DEF Types
  <1>2. CASE got = <<>>
    BY <1>2, EmptySeq DEF Reported
  <1>3. CASE got # <<>>
    <2>1. Len(got) \in 1 .. Len(got)
      BY <1>1, <1>3, FrontFacts
    <2>2. Reported = got[Len(got)][1]
      BY <1>3 DEF Reported
    <2>3. Done(got[Len(got)][1]) /\ got[Len(got)][1] \in 1 .. Len(sent) /\ got[Len(got)][1] \in Nat
      BY <2>1, PointFacts
    <2> QED BY <1>3, <2>1, <2>2, <2>3
  <1> QED BY <1>2, <1>3

LEMMA FittedFacts ==
    ASSUME Types, Control, WholePackage, PointsBehind
    PROVE  /\ Fitted \in Nat /\ (Fitted = 0 \/ Done(Fitted))
           /\ CheckSumResult => Fitted = Current
           /\ ~CheckSumResult => Fitted = Reported
           /\ (Fitted > 0 => Fitted \in 1 .. Len(sent))
  <1>1. CASE CheckSumResult
    BY <1>1, CurrentFacts DEF Fitted
  <1>2. CASE ~CheckSumResult
    BY <1>2, ReportedFacts DEF Fitted
  <1> QED BY <1>1, <1>2

\* The first byte in the stream is of a package behind the last that fitted.
LEMMA BehindFitted ==
    ASSUME Types, Control, Origins, WholePackage, PointsBehind, Stream # <<>>
    PROVE  /\ 1 \in 1 .. Len(Stream) /\ Stream[1].package \in Nat /\ Fitted < Stream[1].package
           /\ Stream[1].package <= Len(sent) /\ Len(sent) \in Nat
           /\ HasLeft(Stream[1].package, 1, sent, position)
           /\ HasLeft(Fitted + 1, 1, sent, position)
  <1>1. 1 \in 1 .. Len(Stream)
    BY FrontFacts, StreamFacts
  <1>2. /\ Stream[1].package \in Nat /\ 1 <= Stream[1].package /\ Stream[1].package <= Len(sent)
        /\ Len(sent) \in Nat /\ position \in Nat
        /\ Stream[1].place \in Nat /\ 1 <= Stream[1].place
        /\ Stream[1].package < Len(sent) \/ (Stream[1].package = Len(sent) /\ Stream[1].place <= position)
    BY <1>1, InOrderFacts, OriginFacts
  <1>3. Fitted < Stream[1].package /\ Fitted \in Nat
    <2>1. Fitted \in Nat /\ (Fitted = 0 \/ Done(Fitted))
      BY FittedFacts
    <2>2. Done(Fitted) => Stream[1].package > Fitted
      BY <1>1 DEF Done
    <2> QED BY <1>2, <2>1, <2>2
  <1>4. HasLeft(Stream[1].package, 1, sent, position) /\ HasLeft(Fitted + 1, 1, sent, position)
    BY <1>2, <1>3 DEF HasLeft
  <1> QED BY <1>1, <1>2, <1>3, <1>4

LEMMA ReadPayloadFacts ==
    ASSUME Types, Control, ReadPayload
    PROVE  /\ at = "payload" /\ at' = "node" /\ ~CheckSumResult /\ header' = <<>> /\ header # <<>>
           /\ package_Sample_Index = 0 /\ package_Sample_Index' = 0
           /\ UNCHANGED <<sent, position, harmed, searched, got, tim_scan, local_buf, local_scan, scan, globalRecvBuffer>>
           /\ has_package_error' = (has_package_error \/ ~CheckSumResult')
           /\ globalRecvBuffer = <<>> /\ Len(header) = 10
           /\ package'.ring = (header[3].value % 2 = 1)
  <1>1. /\ at = "payload" /\ at' = "node" /\ header' = <<>>
        /\ UNCHANGED <<sent, position, harmed, searched, got, tim_scan, local_buf, local_scan, scan, globalRecvBuffer>>
        /\ has_package_error' = (has_package_error \/ ~CheckSumResult')
        /\ package_Sample_Index' = package_Sample_Index
        /\ package'.ring = (header[3].value % 2 = 1)
    BY DEF ReadPayload, lidarVars, scanVars, historyVars
  <1>2. package_Sample_Index = 0 /\ globalRecvBuffer = <<>> /\ Len(header) = 10
    BY <1>1 DEF Control, PackagePaidBytes
  <1>3. ~CheckSumResult
    BY <1>1, <1>2 DEF Control
  <1>4. header # <<>>
    <2> SUFFICES ASSUME header = <<>> PROVE FALSE
      OBVIOUS
    <2> QED BY <1>2, EmptySeq
  <1> QED BY <1>1, <1>2, <1>3, <1>4

\* If nothing happened to the package behind the last that fitted, that is the one read.
LEMMA NextPackage ==
    ASSUME Types, Types', Control, Origins, WholePackage, PointsBehind, Aligned,
           ReadPayload, CheckSumResult'
    PROVE  /\ Current' = Stream[1].package /\ Current' \in Nat /\ Reported < Current' /\ Fitted = Reported
           /\ Reported + 1 \notin harmed => Current' = Reported + 1
           /\ Stream # <<>>
  <1>1. Stream # <<>> /\ ~CheckSumResult
    <2>1. 10 + header[4].value * PackageSampleBytes <= Len(Stream) /\ header[4].value * PackageSampleBytes \in Nat
      BY ReadPayloadDrops
    <2> HIDE DEF Stream
    <2>2. Len(Stream) # 0
      BY <2>1, StreamFacts
    <2> QED BY <2>2, EmptySeq, ReadPayloadFacts
  <1>2. Fitted = Reported
    BY <1>1 DEF Fitted
  <1>3. 1 \in 1 .. Len(Stream) /\ Stream[1].package \in Nat /\ Fitted < Stream[1].package
        /\ HasLeft(Fitted + 1, 1, sent, position)
    BY <1>1, BehindFitted
  <1>4. PICK p \in Nat : p = Stream[1].package
    BY <1>3
  <1>5. Current' = p
    BY <1>4, FitsMeansWhole
  <1>6. Fitted + 1 \notin harmed => Stream[1].package = Fitted + 1
    BY <1>3 DEF Aligned, ComesFrom
  <1> QED BY <1>1, <1>2, <1>3, <1>4, <1>5, <1>6

LEMMA LastPointNext ==
    ASSUME Types, Types', Control, Origins, WholePackage, PointsBehind, LastPoint, Aligned, Next
    PROVE  LastPoint'
  <1>0. package_Sample_Index \in Nat
    BY DEF Types
  <1>1. CASE EmitNode /\ CheckSumResult
    <2>1. /\ Len(got') = Len(got) + 1 /\ Len(got) \in Nat
          /\ got'[Len(got) + 1] = <<Current, package_Sample_Index + 1>>
          /\ package' = package /\ sent' = sent
          /\ CheckSumResult' => package_Sample_Index' = package_Sample_Index + 1
          /\ ~CheckSumResult' => package_Sample_Index + 1 = package.samples
      BY <1>1, EmitFacts
    <2>2. got' # <<>>
      BY <2>1, EmptySeq
    <2>3. got'[Len(got')] = <<Current, package_Sample_Index + 1>> /\ Current' = Current
      BY <2>1 DEF Current
    <2>4. package.samples = Len(sent[Current].samples)
      BY <1>1, CurrentFacts
    <2>5. CheckSumResult' => package_Sample_Index' > 0
      BY <1>0, <2>1
    <2>6. CheckSumResult' => got'[Len(got')] = <<Current', package_Sample_Index'>>
      BY <2>1, <2>3
    <2>7. ~CheckSumResult' => got'[Len(got')][2] = Len(sent'[got'[Len(got')][1]].samples)
      BY <2>1, <2>3, <2>4
    <2>8. ~(CheckSumResult' /\ package_Sample_Index' = 0)
      BY <1>0, <2>1
    <2> QED BY <2>2, <2>5, <2>6, <2>7, <2>8 DEF LastPoint
  <1>2. CASE ~(EmitNode /\ CheckSumResult)
    <2>1. got' = got /\ Reported' = Reported
      <3>1. CASE EmitNode
        BY <1>2, <3>1, EmitFacts DEF Reported
      <3>2. CASE ReadPayload
        BY <3>2, ReadPayloadFacts DEF Reported
      <3>3. CASE ~EmitNode /\ ~ReadPayload
        BY <3>3, OtherSteps DEF Reported
      <3> QED BY <3>1, <3>2, <3>3
    <2>2. got # <<>> => /\ got[Len(got)][1] \in Nat
                        /\ sent'[got[Len(got)][1]] = sent[got[Len(got)][1]]
      <3>1. got # <<>> => Len(got) \in 1 .. Len(got)
        BY ReportedFacts
      <3>2. ASSUME got # <<>>, NEW p, p = got[Len(got)][1] PROVE p \in Nat /\ sent'[p] = sent[p]
        BY <3>1, <3>2, PointsStay
      <3> QED BY <3>2
    <2>3. CASE EmitNode
      <3>1. ~CheckSumResult /\ ~CheckSumResult'
        BY <1>2, <2>3, EmitFacts
      <3> QED BY <2>1, <2>2, <3>1 DEF LastPoint
    <2>4. CASE ReadPayload
      <3>1. ~CheckSumResult /\ package_Sample_Index' = 0 /\ harmed' = harmed
        BY <2>4, ReadPayloadFacts
      <3>2. CheckSumResult' => Reported < Current' /\ (Reported + 1 \notin harmed => Current' = Reported + 1)
        BY <2>4, NextPackage
      <3>3. got' # <<>> => got'[Len(got')][2] = Len(sent'[got'[Len(got')][1]].samples)
        BY <2>1, <2>2, <3>1 DEF LastPoint
      <3> QED BY <2>1, <3>1, <3>2, <3>3 DEF LastPoint
    <2>5. CASE ~EmitNode /\ ~ReadPayload
      <3>1. UNCHANGED <<package, CheckSumResult, package_Sample_Index>> /\ harmed \subseteq harmed'
        BY <2>5, OtherSteps, Progress
      <3>2. Current' = Current
        BY <3>1 DEF Current
      <3> QED BY <2>1, <2>2, <3>1, <3>2 DEF LastPoint
    <2> QED BY <2>3, <2>4, <2>5
  <1> QED BY <1>1, <1>2

LEMMA FittedStays ==
    ASSUME Types, Types', Control, WholePackage, Next, ~ReadPayload
    PROVE  Fitted' = Fitted
  <1>1. CASE EmitNode /\ CheckSumResult
    <2>1. /\ Len(got') = Len(got) + 1 /\ Len(got) \in Nat
          /\ got'[Len(got) + 1] = <<Current, package_Sample_Index + 1>>
          /\ package' = package
      BY <1>1, EmitFacts
    <2>2. got' # <<>>
      BY <2>1, EmptySeq
    <2>3. Reported' = Current /\ Current' = Current
      BY <2>1, <2>2 DEF Reported, Current
    <2> QED BY <1>1, <2>3 DEF Fitted
  <1>2. CASE EmitNode /\ ~CheckSumResult
    <2>1. got' = got /\ ~CheckSumResult'
      BY <1>2, EmitFacts
    <2> QED BY <1>2, <2>1 DEF Fitted, Reported
  <1>3. CASE ~EmitNode
    <2>1. UNCHANGED <<package, CheckSumResult, got>>
      BY <1>3, OtherSteps
    <2> QED BY <2>1 DEF Fitted, Reported, Current
  <1> QED BY <1>1, <1>2, <1>3

\* The front of the stream stays, and nothing new has left the LiDAR.
LEMMA FrontStays ==
    ASSUME Types, Control, WholePackage, PointsBehind, Aligned, Drops(0), Fitted' = Fitted,
           UNCHANGED <<sent, position>>, harmed \subseteq harmed', Fitted + 1 \notin harmed',
           HasLeft(Fitted + 1, 1, sent, position)
    PROVE  Stream' # <<>> /\ ComesFrom(Stream'[1], Fitted + 1, 1)
  <1>1. Stream # <<>> /\ ComesFrom(Stream[1], Fitted + 1, 1)
    BY DEF Aligned
  <1>2. Len(Stream) \in Nat /\ Len(Stream) > 0
    BY <1>1, StreamFacts, FrontFacts
  <1>3. Len(Stream') = Len(Stream) /\ \A i \in 1 .. Len(Stream) : Stream'[i] = Stream[i]
    BY <1>2 DEF Drops, Dropped
  <1>4. Stream'[1] = Stream[1] /\ Len(Stream') # 0
    BY <1>2, <1>3
  <1>5. Stream' # <<>>
    BY <1>4, EmptySeq
  <1> QED BY <1>1, <1>4, <1>5

LEMMA AlignedNext ==
    ASSUME Types, Types', Control, Control', Origins, NoGaps, WholePackage, PointsBehind, Aligned, Next
    PROVE  Aligned'
  <1> DEFINE F == Fitted
  <1>0. /\ F \in Nat /\ (F = 0 \/ Done(F)) /\ Len(sent) \in Nat /\ position \in Nat
        /\ package_Sample_Index \in Nat /\ package_Sample_Index' \in Nat
        /\ harmed \subseteq harmed'
    BY FittedFacts, Progress DEF Types
  <1>r. InOrder(Stream, sent, position, harmed) /\ NoGapsIn(Stream, sent, position, harmed)
        /\ Len(Stream) \in Nat
    BY InOrderFacts, StreamFacts DEF NoGaps
  <1>z. sent # <<>> => Len(sent) >= 1 /\ Last(sent) = sent[Len(sent)]
                       /\ Size(Last(sent)) \in Nat /\ 13 <= Size(Last(sent)) /\ position <= Size(Last(sent))
    BY <1>r, OriginFacts
  <1>1. CASE ReadPayload
    <2>1. CASE CheckSumResult'
      <3> DEFINE n == 10 + header[4].value * PackageSampleBytes
      <3>1. PICK p \in Nat : p = Stream[1].package
        BY <1>1, <2>1, NextPackage
      <3>2. /\ n \in 1 .. Len(Stream) /\ Current' = p /\ ComesFrom(Stream[n], p, Size(sent[p]))
            /\ p \in 1 .. Len(sent)
        BY <1>1, <2>1, <3>1, FitsMeansWhole
      <3>3. Drops(n) /\ UNCHANGED <<sent, position, harmed>>
        BY <1>1, ReadPayloadDrops, ReadPayloadFacts
      <3> HIDE DEF n
      <3>4. Fitted' = p
        BY <2>1, <3>2 DEF Fitted
      <3>5. ASSUME p + 1 \notin harmed, HasLeft(p + 1, 1, sent, position)
            PROVE  Stream' # <<>> /\ ComesFrom(Stream'[1], p + 1, 1)
        <4>1. n < Len(Stream) /\ ComesFrom(Stream[n + 1], p + 1, 1)
          BY <1>r, <3>2, <3>5 DEF NoGapsIn, Across, ComesFrom
        <4>2. Len(Stream') # 0 /\ Stream'[1] = Stream[n + 1]
          BY <1>r, <3>2, <3>3, <4>1 DEF Drops, Dropped
        <4>3. Stream' # <<>>
          BY <4>2, EmptySeq
        <4> QED BY <4>1, <4>2, <4>3
      <3> QED BY <2>1, <3>3, <3>4, <3>5 DEF Aligned
    <2>2. CASE ~CheckSumResult'
      <3>1. Fitted' = Fitted /\ harmed' = harmed
        BY <1>1, <2>2, ReadPayloadFacts DEF Fitted, Reported
      <3>2. F + 1 \in harmed
        <4> SUFFICES ASSUME F + 1 \notin harmed PROVE FALSE
          OBVIOUS
        <4>1. Stream # <<>>
          <5>1. 10 + header[4].value * PackageSampleBytes <= Len(Stream)
                /\ header[4].value * PackageSampleBytes \in Nat
            BY <1>1, ReadPayloadDrops
          <5>2. Len(Stream) # 0
            BY <1>r, <5>1
          <5> QED BY <5>2, EmptySeq
        <4>2. ComesFrom(Stream[1], F + 1, 1)
          BY <4>1, BehindFitted DEF Aligned
        <4> QED BY <1>1, <2>2, <4>1, <4>2, AlignedPayload
      <3> QED BY <3>1, <3>2 DEF Aligned
    <2> QED BY <2>1, <2>2
  <1>2. CASE ~ReadPayload
    <2> SUFFICES ASSUME F + 1 \notin harmed'
                 PROVE  /\ HasLeft(F + 1, 1, sent', position') =>
                              Stream' # <<>> /\ ComesFrom(Stream'[1], F + 1, 1)
                        /\ at' = "node" \/ package_Sample_Index' > 0 => CheckSumResult'
      <3>1. Fitted' = F
        BY <1>2, FittedStays
      <3> QED BY <3>1 DEF Aligned
    <2>0. /\ F + 1 \notin harmed
          /\ HasLeft(F + 1, 1, sent, position) => Stream # <<>> /\ ComesFrom(Stream[1], F + 1, 1)
          /\ at = "node" \/ package_Sample_Index > 0 => CheckSumResult
      BY <1>0 DEF Aligned
    <2>f. Fitted' = Fitted
      BY <1>2, FittedStays
    <2>k. Stream # <<>> => 1 \in 1 .. Len(Stream) /\ Len(Stream) > 0
      BY <1>r, StreamFacts, FrontFacts
    <2> HIDE DEF F
    <2>1. ~EmitNode /\ at' # "node" => (at' = "node" \/ package_Sample_Index' > 0 => CheckSumResult')
      BY <1>2, <2>0, OtherSteps
    <2>2. CASE BeginPackage
      <3>1. /\ position' = 0 /\ UNCHANGED <<header, globalRecvBuffer, line, at>>
            /\ ~PackageUnderWay /\ \E kind \in KINDS : sent' = Append(sent, kind)
        BY <2>2 DEF BeginPackage, parserVars
      <3>2. Stream' = Stream /\ Len(sent') = Len(sent) + 1
        BY <3>1 DEF Stream, Types
      <3>3. ASSUME HasLeft(F + 1, 1, sent', position') PROVE HasLeft(F + 1, 1, sent, position)
        <4>1. F + 1 <= Len(sent)
          BY <1>0, <3>1, <3>2, <3>3 DEF HasLeft
        <4>2. sent # <<>>
          BY <1>0, <4>1, EmptySeq
        <4>3. position >= 13
          BY <1>0, <1>z, <3>1, <4>2 DEF PackageUnderWay
        <4> QED BY <1>0, <4>1, <4>3 DEF HasLeft
      <3>4. UNCHANGED <<CheckSumResult, package_Sample_Index, at>>
        BY <2>2 DEF BeginPackage, parserVars
      <3> QED BY <2>0, <3>2, <3>3, <3>4
    <2>3. CASE ByteArrives
      <3>1. PackageUnderWay /\ position' = position + 1 /\ sent' = sent /\ line' = Append(line, NextByte)
            /\ UNCHANGED <<header, globalRecvBuffer, at, CheckSumResult, package_Sample_Index>>
        BY <2>3 DEF ByteArrives, parserVars
      <3>2. Grows(NextByte) /\ ComesFrom(NextByte, Len(sent), position + 1)
        BY <3>1, ArrivalGrows, NextByteFacts
      <3>3. Len(Stream') = Len(Stream) + 1 /\ (\A i \in 1 .. Len(Stream) : Stream'[i] = Stream[i])
            /\ Stream'[Len(Stream) + 1] = NextByte
        BY <3>2 DEF Grows, Grown
      <3>4. Stream' # <<>>
        BY <1>r, <3>3, EmptySeq
      <3>5. CASE HasLeft(F + 1, 1, sent, position)
        <4>1. Stream'[1] = Stream[1]
          BY <2>0, <2>k, <3>3, <3>5
        <4> QED BY <2>0, <3>1, <3>4, <3>5, <4>1
      <3>6. CASE ~HasLeft(F + 1, 1, sent, position)
        <4>1. Stream = <<>>
          BY <3>6, BehindFitted DEF F
        <4>2. Stream'[1] = NextByte
          BY <3>3, <4>1, EmptySeq
        <4>3. HasLeft(F + 1, 1, sent', position') => F + 1 = Len(sent) /\ position = 0
          BY <1>0, <3>1, <3>6 DEF HasLeft
        <4>4. F + 1 = Len(sent) /\ position = 0 => ComesFrom(NextByte, F + 1, 1)
          BY <3>2
        <4> QED BY <2>0, <3>1, <3>4, <4>2, <4>3, <4>4
      <3> QED BY <3>5, <3>6
    <2>4. CASE ByteHarmed
      <3>1. /\ PackageUnderWay /\ position' = position + 1 /\ sent' = sent
            /\ UNCHANGED <<at, CheckSumResult, package_Sample_Index>>
            /\ harmed' = harmed \union {Len(sent)}
        BY <2>4 DEF ByteHarmed, parserVars
      <3>2. HasLeft(F + 1, 1, sent', position') => HasLeft(F + 1, 1, sent, position)
        BY <1>0, <3>1 DEF HasLeft
      <3>3. Stream # <<>> => Stream' # <<>> /\ Stream'[1] = Stream[1]
        <4>1. CASE Stream' = Stream
          BY <4>1
        <4>2. CASE Stream' # Stream
          <5>1. PICK byte \in Bytes : Grows(byte)
            BY <2>4, <4>2, ByteHarmedCases
          <5>2. Len(Stream') = Len(Stream) + 1 /\ (\A i \in 1 .. Len(Stream) : Stream'[i] = Stream[i])
            BY <5>1 DEF Grows, Grown
          <5>3. Stream' # <<>>
            BY <1>r, <5>2, EmptySeq
          <5> QED BY <2>k, <5>2, <5>3
        <4> QED BY <4>1, <4>2
      <3> QED BY <2>0, <3>1, <3>2, <3>3
    <2>5. CASE Flush
      <3>1. /\ at = "judge" /\ sent # <<>> /\ line' = <<>> /\ position' = Size(Last(sent)) /\ sent' = sent
            /\ harmed' = harmed \union PackagesOf(line) \union (IF PackageUnderWay THEN {Len(sent)} ELSE {})
            /\ UNCHANGED <<at, CheckSumResult, package_Sample_Index>>
        BY <2>5 DEF Flush, parserVars
      <3>2. header = <<>> /\ globalRecvBuffer = <<>>
        BY <3>1 DEF Control
      <3>3. ~HasLeft(F + 1, 1, sent', position')
        <4> SUFFICES ASSUME HasLeft(F + 1, 1, sent', position') PROVE FALSE
          OBVIOUS
        <4>1. CASE HasLeft(F + 1, 1, sent, position)
          <5>1. Stream # <<>> /\ ComesFrom(Stream[1], F + 1, 1)
            BY <2>0, <4>1
          <5>2. Stream[1] = line[1] /\ 1 \in 1 .. Len(line)
            BY <2>k, <3>2, <5>1, EmptySeq, StreamFacts
          <5>3. line[1].package \in PackagesOf(line)
            BY <5>2, PackagesOfFacts DEF Types
          <5> QED BY <3>1, <5>1, <5>2, <5>3 DEF ComesFrom
        <4>2. CASE ~HasLeft(F + 1, 1, sent, position)
          <5>1. F + 1 = Len(sent) /\ position = 0
            BY <1>0, <3>1, <4>2 DEF HasLeft
          <5>2. PackageUnderWay
            BY <1>z, <3>1, <5>1 DEF PackageUnderWay
          <5> QED BY <3>1, <5>1, <5>2
        <4> QED BY <4>1, <4>2
      <3> QED BY <2>0, <3>1, <3>3
    <2>6. CASE ParseHeader
      <3>1. UNCHANGED <<sent, position, CheckSumResult, package_Sample_Index>> /\ at' # "node"
        BY <2>6 DEF ParseHeader, lidarVars
      <3>2. ASSUME HasLeft(F + 1, 1, sent, position) PROVE Stream' # <<>> /\ ComesFrom(Stream'[1], F + 1, 1)
        <4>1. KeepsByte
          BY <2>0, <2>6, <3>2, AlignedParse
        <4>2. Drops(0)
          BY <2>6, <4>1, ParseHeaderDrops DEF KeepsByte
        <4> QED BY <1>0, <2>f, <3>1, <3>2, <4>2, FrontStays DEF F
      <3> QED BY <2>0, <3>1, <3>2
    <2>7. CASE WaitTimesOut
      <3>1. /\ harmed' = harmed \union PackagesOf(header) /\ at' = "collect" /\ header' = <<>>
            /\ UNCHANGED <<sent, position, CheckSumResult, package_Sample_Index>>
        BY <2>7 DEF WaitTimesOut, lidarVars
      <3>2. ASSUME HasLeft(F + 1, 1, sent, position) PROVE Stream' # <<>> /\ ComesFrom(Stream'[1], F + 1, 1)
        <4>1. Stream # <<>> /\ ComesFrom(Stream[1], F + 1, 1)
          BY <2>0, <3>2
        <4>2. header = <<>>
          <5> SUFFICES ASSUME header # <<>> PROVE FALSE
            OBVIOUS
          <5>1. 1 \in 1 .. Len(header)
            BY FrontFacts DEF Types
          <5>2. header[1] = Stream[1] /\ header[1].package \in PackagesOf(header)
            BY <5>1, StreamParts, PackagesOfFacts DEF Types
          <5> QED BY <3>1, <4>1, <5>2 DEF ComesFrom
        <4>3. Drops(0)
          BY <2>7, <4>2, EmptySeq, WaitTimesOutDrops
        <4> QED BY <1>0, <2>f, <3>1, <3>2, <4>3, FrontStays DEF F
      <3> QED BY <2>0, <3>1, <3>2
    <2>8. CASE EmitNode
      <3>1. UNCHANGED <<sent, position, header, globalRecvBuffer, line>> /\ at = "node"
        BY <2>8, EmitFacts
      <3>2. Drops(0)
        BY <3>1, StreamKept
      <3>3. CheckSumResult
        BY <2>0, <3>1
      <3>4. at' = "node" \/ package_Sample_Index' > 0 => ~LastSample
        <4>1. LastSample => package_Sample_Index' = 0
          BY <2>8, EmitFacts
        <4>2. at' = "node" => ~LastSample
          BY <2>8 DEF EmitNode
        <4> QED BY <4>1, <4>2
      <3>5. ~LastSample => CheckSumResult'
        BY <2>8, <3>3, EmitFacts
      <3> QED BY <1>0, <2>f, <3>1, <3>2, <3>4, <3>5, FrontStays DEF F
    <2>9. CASE ReadHeader \/ CallTimesOut \/ Collect \/ Listen
      <3>1. UNCHANGED <<sent, position, CheckSumResult, package_Sample_Index>>
        BY <2>9 DEF ReadHeader, CallTimesOut, Collect, Listen, parserVars, lidarVars
      <3>2. Drops(0)
        <4>1. CASE ReadHeader
          BY <4>1, ReadHeaderDrops
        <4>2. CASE ~ReadHeader
          <5>1. UNCHANGED <<header, globalRecvBuffer, line>>
            BY <2>9, <4>2 DEF CallTimesOut, Collect, Listen, parserVars
          <5> QED BY <5>1, StreamKept
        <4> QED BY <4>1, <4>2
      <3>3. at' = "node" => package_Sample_Index > 0
        <4>1. at' = "node" => Listen
          BY <2>9 DEF ReadHeader, CallTimesOut, Collect
        <4>2. Listen /\ at' = "node" => package_Sample_Index # 0
          BY DEF Listen
        <4> QED BY <1>0, <4>1, <4>2
      <3>4. at' = "node" \/ package_Sample_Index' > 0 => CheckSumResult'
        BY <2>0, <3>1, <3>3
      <3> QED BY <1>0, <2>f, <3>1, <3>2, <3>4, FrontStays DEF F
    <2> QED BY <1>2, <2>2, <2>3, <2>4, <2>5, <2>6, <2>7, <2>8, <2>9 DEF Next
  <1> QED BY <1>1, <1>2

-----------------------------------------------------------------------------
(* Ring starts, and damage told of.                                        *)

\* What has been gathered is local_scan and, behind it, local_buf.
LEMMA GatheredFacts ==
    ASSUME Types, Control, RingStarts
    PROVE  /\ Gathered \in Seq(Nodes) /\ Len(Gathered) \in Nat /\ Len(Gathered) < LOCAL_SCAN
           /\ Len(local_scan) \in Nat /\ Len(local_buf) \in Nat /\ Len(local_scan) <= Len(Gathered)
           /\ LET more == IF Pending THEN Len(local_buf) - 1 ELSE Len(local_buf)
              IN  /\ more \in Nat
                  /\ Len(Gathered) = IF Len(local_scan) + more < LOCAL_SCAN
                                       THEN Len(local_scan) + more ELSE LOCAL_SCAN - 1
           /\ \A i \in 1 .. Len(local_scan) : Gathered[i] = local_scan[i]
           /\ \A i \in 1 .. Len(Gathered) : i > Len(local_scan) =>
                 /\ Gathered[i] = local_buf[i - Len(local_scan)]
                 /\ i - Len(local_scan) \in 1 .. Len(local_buf)
                 /\ ~local_buf[i - Len(local_scan)].sync
           /\ Gathered # <<>> /\ Gathered[1].sync <=> Open
           /\ Open => 1 \in 1 .. Len(local_scan) /\ Gathered[1] = local_scan[1]
           /\ LOCAL_SCAN \in Nat /\ LOCAL_SCAN > 1
  <1> DEFINE before == IF Pending THEN Front(local_buf) ELSE local_buf
             more   == IF Pending THEN Len(local_buf) - 1 ELSE Len(local_buf)
  <1>1. local_buf \in Seq(Nodes) /\ local_scan \in Seq(Nodes) /\ LOCAL_SCAN \in Nat /\ LOCAL_SCAN > 1
        /\ Len(local_buf) \in Nat /\ Len(local_scan) \in Nat /\ Len(local_scan) < LOCAL_SCAN
    BY StreamAssumption, LenProperties DEF Types, Control
  <1>2. /\ before \in Seq(Nodes) /\ Len(before) = more /\ more \in Nat
        /\ \A i \in 1 .. more : before[i] = local_buf[i] /\ i \in 1 .. Len(local_buf)
    <2>1. CASE Pending
      <3>1. local_buf # <<>>
        BY <2>1 DEF Pending
      <3>2. /\ Front(local_buf) \in Seq(Nodes) /\ Len(Front(local_buf)) = Len(local_buf) - 1
            /\ Len(local_buf) > 0 /\ \A i \in 1 .. Len(local_buf) - 1 : Front(local_buf)[i] = local_buf[i]
        BY <1>1, <3>1, FrontFacts
      <3> QED BY <1>1, <2>1, <3>2
    <2>2. CASE ~Pending
      BY <1>1, <2>2
    <2> QED BY <2>1, <2>2
  <1>3. Gathered = Stored(local_scan, before)
    BY DEF Gathered
  <1>4. \A i \in 1 .. more : ~local_buf[i].sync
    BY <1>1 DEF RingStarts, Pending
  <1> HIDE DEF before, more
  <1>5. /\ Gathered \in Seq(Nodes) /\ Len(Gathered) \in Nat /\ Len(Gathered) < LOCAL_SCAN
        /\ Len(Gathered) = IF Len(local_scan) + more < LOCAL_SCAN THEN Len(local_scan) + more ELSE LOCAL_SCAN - 1
        /\ \A i \in 1 .. Len(Gathered) :
              Gathered[i] = IF i <= Len(local_scan) THEN local_scan[i] ELSE before[i - Len(local_scan)]
    BY <1>1, <1>2, <1>3, StoredFacts
  <1>6. Len(local_scan) <= Len(Gathered)
    BY <1>1, <1>2, <1>5
  <1>7. \A i \in 1 .. Len(local_scan) : Gathered[i] = local_scan[i]
    BY <1>1, <1>5, <1>6
  <1>8. ASSUME NEW i \in 1 .. Len(Gathered), i > Len(local_scan)
        PROVE  /\ Gathered[i] = local_buf[i - Len(local_scan)]
               /\ i - Len(local_scan) \in 1 .. Len(local_buf)
               /\ ~local_buf[i - Len(local_scan)].sync
    <2>1. i - Len(local_scan) \in 1 .. more
      BY <1>1, <1>2, <1>5, <1>8
    <2>2. Gathered[i] = before[i - Len(local_scan)]
      BY <1>1, <1>5, <1>8
    <2> QED BY <1>2, <1>4, <2>1, <2>2
  <1>9. Open => 1 \in 1 .. Len(local_scan) /\ Gathered[1] = local_scan[1]
    BY <1>1, <1>7, FrontFacts DEF Open
  <1>10. Gathered # <<>> /\ Gathered[1].sync => Open
    <2> SUFFICES ASSUME Gathered # <<>>, Gathered[1].sync PROVE Open
      OBVIOUS
    <2>1. 1 \in 1 .. Len(Gathered)
      BY <1>5, FrontFacts
    <2>2. ~(1 > Len(local_scan))
      BY <1>8, <2>1
    <2>3. Gathered[1] = local_scan[1] /\ Len(local_scan) # 0
      BY <1>1, <1>7, <2>2
    <2>4. local_scan # <<>>
      BY <2>3, EmptySeq
    <2> QED BY <2>3, <2>4 DEF Open
  <1>11. Open => Gathered # <<>> /\ Gathered[1].sync
    <2> SUFFICES ASSUME Open PROVE Gathered # <<>> /\ Gathered[1].sync
      OBVIOUS
    <2>1. Len(Gathered) # 0
      BY <1>1, <1>5, <1>6, <1>9
    <2>2. Gathered # <<>>
      BY <2>1, EmptySeq
    <2> QED BY <1>9, <2>2 DEF Open
  <1> QED BY <1>1, <1>2, <1>5, <1>6, <1>7, <1>8, <1>9, <1>10, <1>11 DEF more

LEMMA CollectFacts ==
    ASSUME Types, Control, RingStarts, Collect
    PROVE  /\ at = "collect" /\ at' = "judge" /\ local_buf' = <<>> /\ ~Pending'
           /\ local_scan' = IF Pending THEN <<local_buf[Len(local_buf)]>> ELSE Gathered
           /\ scan' = IF Pending /\ Open
                        THEN [nodes |-> Gathered, start |-> tim_scan.start, end |-> tim_scan.end,
                              closedBy |-> PendingRing]
                        ELSE scan
           /\ tim_scan' = IF Pending /\ Open THEN [tim_scan EXCEPT !.start = tim_scan.end] ELSE tim_scan
           /\ UNCHANGED <<sent, position, line, globalRecvBuffer, header, package, CheckSumResult,
                          package_Sample_Index, has_package_error, package_index, harmed, searched, got>>
           /\ Pending => Len(local_buf) \in 1 .. Len(local_buf) /\ local_buf[Len(local_buf)] \in Nodes
  <1> DEFINE closes == local_buf # <<>> /\ Last(local_buf).sync
             nodes_ == Stored(local_scan, IF closes THEN Front(local_buf) ELSE local_buf)
             full   == closes /\ nodes_ # <<>> /\ nodes_[1].sync
  <1>1. local_buf # <<>> => /\ Last(local_buf) = local_buf[Len(local_buf)]
                            /\ Len(local_buf) \in 1 .. Len(local_buf) /\ local_buf[Len(local_buf)] \in Nodes
    <2> SUFFICES ASSUME local_buf # <<>>
                 PROVE  /\ Last(local_buf) = local_buf[Len(local_buf)]
                        /\ Len(local_buf) \in 1 .. Len(local_buf) /\ local_buf[Len(local_buf)] \in Nodes
      OBVIOUS
    <2>1. local_buf \in Seq(Nodes)
      BY DEF Types
    <2>2. /\ Last(local_buf) = local_buf[Len(local_buf)] /\ Last(local_buf) \in Nodes
          /\ Len(local_buf) \in Nat /\ Len(local_buf) > 0
      BY <2>1, FrontFacts
    <2> QED BY <2>2
  <1>2. closes = Pending
    BY <1>1 DEF Pending
  <1>3. nodes_ = Gathered
    BY <1>2 DEF Gathered
  <1>4. full = (Pending /\ Open)
    BY <1>2, <1>3, GatheredFacts
  <1>5. /\ at = "collect" /\ at' = "judge" /\ local_buf' = <<>>
        /\ local_scan' = IF closes THEN <<Last(local_buf)>> ELSE nodes_
        /\ scan' = IF full
                     THEN [nodes |-> nodes_, start |-> tim_scan.start, end |-> tim_scan.end,
                           closedBy |-> Last(local_buf).point[1]]
                     ELSE scan
        /\ tim_scan' = IF full THEN [tim_scan EXCEPT !.start = tim_scan.end] ELSE tim_scan
        /\ UNCHANGED <<sent, position, line, globalRecvBuffer, header, package, CheckSumResult,
                       package_Sample_Index, has_package_error, package_index, harmed, searched, got>>
    BY DEF Collect, lidarVars, historyVars
  <1>6. Pending => local_buf # <<>>
    BY DEF Pending
  <1> HIDE DEF closes, nodes_, full
  <1>7. local_scan' = IF Pending THEN <<local_buf[Len(local_buf)]>> ELSE Gathered
    BY <1>1, <1>2, <1>3, <1>5, <1>6
  <1>8. scan' = IF Pending /\ Open
                  THEN [nodes |-> Gathered, start |-> tim_scan.start, end |-> tim_scan.end,
                        closedBy |-> PendingRing]
                  ELSE scan
    BY <1>1, <1>3, <1>4, <1>5, <1>6 DEF PendingRing
  <1>9. ~Pending'
    BY <1>5 DEF Pending
  <1> QED BY <1>1, <1>4, <1>5, <1>6, <1>7, <1>8, <1>9

\* The steps that touch no node.
LEMMA NodesStay ==
    ASSUME Control, RingStarts, Next, ~EmitNode, ~Collect
    PROVE  /\ UNCHANGED <<local_buf, local_scan, scan, got>>
           /\ Pending' = Pending
           /\ Pending => UNCHANGED <<at, CheckSumResult, package_Sample_Index, package, header, tim_scan>>
           /\ Open' = Open
  <1>1. UNCHANGED <<local_buf, local_scan, scan, got>>
    BY DEF Next, BeginPackage, ByteArrives, ByteHarmed, ReadHeader, ParseHeader, WaitTimesOut, ReadPayload,
           CallTimesOut, Listen, Flush, scanVars, historyVars
  <1>2. Pending => BeginPackage \/ ByteArrives \/ ByteHarmed
    BY DEF RingStarts, Next, ReadHeader, ParseHeader, WaitTimesOut, ReadPayload, CallTimesOut, Listen, Flush
  <1>3. BeginPackage \/ ByteArrives \/ ByteHarmed =>
          UNCHANGED <<at, CheckSumResult, package_Sample_Index, package, header, tim_scan>>
    BY DEF BeginPackage, ByteArrives, ByteHarmed, parserVars
  <1> QED BY <1>1, <1>2, <1>3 DEF Pending, Open

LEMMA EmitNodeFacts ==
    ASSUME Types, Control, WholePackage, RingStarts, EmitNode
    PROVE  /\ local_buf' = Append(local_buf, Node) /\ Node \in Nodes
           /\ Len(local_buf) \in Nat /\ Len(local_buf') = Len(local_buf) + 1
           /\ \A i \in 1 .. Len(local_buf) : local_buf'[i] = local_buf[i] /\ ~local_buf[i].sync
           /\ local_buf'[Len(local_buf) + 1] = Node
           /\ ~Pending /\ (Pending' <=> Node.sync)
           /\ Node.sync <=> package.ring /\ CheckSumResult
           /\ Node.sync => /\ at' = "collect" /\ LastSample /\ package_Sample_Index = 0
                           /\ Node.point = <<Current, 1>> /\ Node.index = NoIndex
           /\ has_package_error' = (has_package_error /\ ~Node.sync)
           /\ UNCHANGED <<local_scan, scan>> /\ Open' = Open
           /\ at = "node" /\ (at' = "node" => ~LastSample)
  <1>1. local_buf \in Seq(Nodes) /\ Node \in Nodes /\ CheckSumResult \in BOOLEAN
        /\ package.ring \in BOOLEAN /\ package_Sample_Index \in Nat
    BY NodeFacts DEF Types
  <1>2. /\ local_buf' = Append(local_buf, Node) /\ at = "node"
        /\ has_package_error' = (has_package_error /\ ~ErrorCleared)
        /\ at' = IF Node.sync \/ Len(Append(local_buf, Node)) = BATCH THEN "collect"
                 ELSE IF LastSample THEN "header" ELSE "node"
        /\ UNCHANGED <<local_scan, scan>>
    BY DEF EmitNode, scanVars
  <1>3. /\ Len(local_buf) \in Nat /\ Len(local_buf') = Len(local_buf) + 1
        /\ \A i \in 1 .. Len(local_buf) : local_buf'[i] = local_buf[i]
        /\ local_buf'[Len(local_buf) + 1] = Node /\ local_buf' # <<>>
    BY <1>1, <1>2, AppendFacts
  <1>4. ~Pending
    BY <1>2 DEF RingStarts
  <1>5. ASSUME NEW i \in 1 .. Len(local_buf) PROVE ~local_buf[i].sync
    <2>1. CASE i = Len(local_buf)
      <3>1. local_buf # <<>>
        BY <1>3, <1>5, EmptySeq
      <3> QED BY <1>4, <2>1, <3>1 DEF Pending
    <2>2. CASE i # Len(local_buf)
      <3>1. i \in 1 .. Len(local_buf) - 1
        BY <1>3, <2>2
      <3> QED BY <3>1 DEF RingStarts
    <2> QED BY <2>1, <2>2
  <1>6. Pending' <=> Node.sync
    BY <1>3 DEF Pending
  <1>7. Node.sync <=> package.ring /\ CheckSumResult
    BY <1>1, NodeFacts
  <1>8. Node.sync => at' = "collect"
    BY <1>2
  <1>9. Node.sync => LastSample /\ package_Sample_Index = 0 /\ Node.point = <<Current, 1>> /\ Node.index = NoIndex
    <2> SUFFICES ASSUME Node.sync
                 PROVE  LastSample /\ package_Sample_Index = 0 /\ Node.point = <<Current, 1>>
                        /\ Node.index = NoIndex
      OBVIOUS
    <2>1. CheckSumResult /\ package.ring
      BY <1>7
    <2>2. package.samples = 1 /\ package_Sample_Index = 0
      BY <2>1, CurrentFacts
    <2>3. LastSample
      BY <2>2 DEF LastSample
    <2>4. Node.point = <<Current, package_Sample_Index + 1>> /\ Node.index = NoIndex
      BY <2>1, NodeFacts
    <2> QED BY <2>2, <2>3, <2>4
  <1>10. has_package_error' = (has_package_error /\ ~Node.sync)
    BY <1>2, <1>7 DEF ErrorCleared
  <1>11. Open' = Open
    BY <1>2 DEF Open
  <1>12. at' = "node" => ~LastSample
    BY <1>2
  <1> QED BY <1>1, <1>2, <1>3, <1>4, <1>5, <1>6, <1>7, <1>8, <1>9, <1>10, <1>11, <1>12

LEMMA NodePoint ==
    ASSUME NEW node \in Nodes
    PROVE  /\ node.sync \in BOOLEAN /\ node.index \in Nat
           /\ HasPoint(node) => /\ node.point \in Points
                                /\ node.point[1] \in Nat /\ node.point[2] \in Nat
                                /\ node.point = <<node.point[1], node.point[2]>>
  <1>1. node.sync \in BOOLEAN /\ node.index \in Nat /\ (HasPoint(node) => node.point \in Points)
    BY DEF Nodes, HasPoint
  <1> QED BY <1>1 DEF Points

LEMMA OpenFacts ==
    ASSUME Types, Control, RingStarts, PointsBehind
    PROVE  /\ Open => /\ OpenRing \in Nat /\ local_scan[1] \in Nodes /\ OpenRing <= Reported /\ Reported \in Nat
                      /\ got # <<>> /\ local_scan[1].point = <<OpenRing, 1>> /\ HasPoint(local_scan[1])
           /\ Pending => /\ PendingRing = Reported /\ PendingRing \in Nat
                         /\ local_buf[Len(local_buf)].point = <<PendingRing, 1>>
                         /\ HasPoint(local_buf[Len(local_buf)]) /\ local_buf[Len(local_buf)] \in Nodes
                         /\ Len(local_buf) \in 1 .. Len(local_buf)
  <1>1. ASSUME Open
        PROVE  /\ OpenRing \in Nat /\ local_scan[1] \in Nodes /\ OpenRing <= Reported /\ Reported \in Nat
               /\ got # <<>> /\ local_scan[1].point = <<OpenRing, 1>> /\ HasPoint(local_scan[1])
    <2>1. HasPoint(local_scan[1]) /\ local_scan[1].point[2] = 1 /\ got # <<>> /\ OpenRing <= Reported
      BY <1>1 DEF RingStarts
    <2>2. local_scan[1] \in Nodes
      <3>1. 1 \in 1 .. Len(local_scan)
        BY <1>1, GatheredFacts
      <3>2. local_scan \in Seq(Nodes)
        BY DEF Types
      <3> QED BY <3>1, <3>2, ElementOfSeq
    <2> QED BY <2>1, <2>2, NodePoint, ReportedFacts DEF OpenRing
  <1>2. ASSUME Pending
        PROVE  /\ PendingRing = Reported /\ PendingRing \in Nat
               /\ local_buf[Len(local_buf)].point = <<PendingRing, 1>>
               /\ HasPoint(local_buf[Len(local_buf)]) /\ local_buf[Len(local_buf)] \in Nodes
               /\ Len(local_buf) \in 1 .. Len(local_buf)
    <2>1. got # <<>> /\ local_buf[Len(local_buf)].point = got[Len(got)] /\ got[Len(got)][2] = 1
      BY <1>2 DEF RingStarts
    <2>2. Reported \in Nat /\ Reported = got[Len(got)][1] /\ Len(got) \in 1 .. Len(got)
      BY <2>1, ReportedFacts
    <2>3. got[Len(got)] \in Points /\ got[Len(got)] = <<Reported, 1>>
      BY <2>1, <2>2, PointFacts
    <2>4. PendingRing = Reported
      BY <2>1, <2>2 DEF PendingRing
    <2>5. HasPoint(local_buf[Len(local_buf)])
      BY <2>1, <2>3 DEF HasPoint, NoPoint, Points
    <2>6. Len(local_buf) \in 1 .. Len(local_buf) /\ local_buf[Len(local_buf)] \in Nodes
      <3>1. local_buf # <<>> /\ local_buf \in Seq(Nodes)
        BY <1>2 DEF Pending, Types
      <3>2. Last(local_buf) = local_buf[Len(local_buf)] /\ Last(local_buf) \in Nodes
            /\ Len(local_buf) \in Nat /\ Len(local_buf) > 0
        BY <3>1, FrontFacts
      <3> QED BY <3>2
    <2> QED BY <2>1, <2>2, <2>3, <2>4, <2>5, <2>6
  <1> QED BY <1>1, <1>2

LEMMA RingStartsNext ==
    ASSUME Types, Types', Control, Origins, WholePackage, PointsBehind, RingStarts, Next
    PROVE  RingStarts'
  <1>1. CASE EmitNode
    <2>1. /\ Len(local_buf) \in Nat /\ Len(local_buf') = Len(local_buf) + 1
          /\ \A i \in 1 .. Len(local_buf) : local_buf'[i] = local_buf[i] /\ ~local_buf[i].sync
          /\ local_buf'[Len(local_buf')] = Node /\ (Pending' <=> Node.sync)
          /\ Node.sync <=> package.ring /\ CheckSumResult
          /\ Node.sync => /\ at' = "collect" /\ LastSample /\ package_Sample_Index = 0
                          /\ Node.point = <<Current, 1>> /\ Node.index = NoIndex
          /\ UNCHANGED local_scan /\ Open' = Open
      BY <1>1, EmitNodeFacts
    <2>2. \A i \in 1 .. Len(local_buf') - 1 : ~local_buf'[i].sync
      BY <2>1
    <2>3. CheckSumResult => /\ got'[Len(got')] = <<Current, package_Sample_Index + 1>> /\ got' # <<>>
                            /\ Reported' = Current /\ Current \in Nat
      <3>1. CheckSumResult => /\ Len(got') = Len(got) + 1 /\ Len(got) \in Nat
                              /\ got'[Len(got) + 1] = <<Current, package_Sample_Index + 1>>
        BY <1>1, EmitFacts
      <3>2. CheckSumResult => got' # <<>>
        BY <3>1, EmptySeq
      <3> QED BY <3>1, <3>2, CurrentFacts DEF Reported
    <2>4. ~CheckSumResult => got' = got /\ Reported' = Reported
      BY <1>1, EmitFacts DEF Reported
    <2>5. Node.sync => /\ ~CheckSumResult' /\ package_Sample_Index' = 0
                       /\ got' # <<>> /\ Node.point = got'[Len(got')] /\ got'[Len(got')][2] = 1
      <3> SUFFICES ASSUME Node.sync
                   PROVE  /\ ~CheckSumResult' /\ package_Sample_Index' = 0
                          /\ got' # <<>> /\ Node.point = got'[Len(got')] /\ got'[Len(got')][2] = 1
        OBVIOUS
      <3>1. CheckSumResult /\ LastSample /\ package_Sample_Index = 0 /\ Node.point = <<Current, 1>>
        BY <2>1
      <3>2. ~CheckSumResult' /\ package_Sample_Index' = 0
        BY <1>1, <3>1, EmitFacts
      <3>3. got'[Len(got')] = <<Current, 1>> /\ got' # <<>>
        BY <2>3, <3>1
      <3> QED BY <3>1, <3>2, <3>3
    <2>6. ASSUME Open
          PROVE  /\ HasPoint(local_scan[1]) /\ local_scan[1].point[2] = 1 /\ got' # <<>>
                 /\ OpenRing <= Reported' /\ (Node.sync => OpenRing < Current)
      <3>1. HasPoint(local_scan[1]) /\ local_scan[1].point[2] = 1 /\ got # <<>> /\ OpenRing <= Reported
        BY <2>6 DEF RingStarts
      <3>2. Reported \in Nat /\ Reported = got[Len(got)][1] /\ Len(got) \in 1 .. Len(got)
        BY <3>1, ReportedFacts
      <3>3. OpenRing \in Nat
        BY <2>6, OpenFacts
      <3>4. CheckSumResult => Reported < Current \/ (Reported = Current /\ got[Len(got)][2] <= package_Sample_Index)
        BY <3>2 DEF PointsBehind
      <3>5. got[Len(got)][2] \in 1 .. Len(sent[got[Len(got)][1]].samples)
        BY <3>2, PointFacts
      <3>6. CheckSumResult /\ package_Sample_Index = 0 => Reported < Current
        BY <3>4, <3>5
      <3>7. CheckSumResult => OpenRing <= Current
        BY <2>3, <3>1, <3>2, <3>3, <3>4
      <3>8. Node.sync => OpenRing < Current
        BY <2>1, <2>3, <3>1, <3>2, <3>3, <3>6
      <3>9. OpenRing <= Reported' /\ got' # <<>>
        BY <2>3, <2>4, <3>1, <3>7
      <3> QED BY <3>1, <3>8, <3>9
    <2>7. OpenRing' = OpenRing /\ (Pending' => PendingRing' = Current)
      BY <2>1 DEF OpenRing, PendingRing
    <2> QED BY <2>1, <2>2, <2>5, <2>6, <2>7 DEF RingStarts
  <1>2. CASE Collect
    <2>1. /\ local_buf' = <<>> /\ ~Pending' /\ got' = got
          /\ local_scan' = IF Pending THEN <<local_buf[Len(local_buf)]>> ELSE Gathered
      BY <1>2, CollectFacts
    <2>2. Reported' = Reported
      BY <2>1 DEF Reported
    <2>3. \A i \in 1 .. Len(local_buf') - 1 : ~local_buf'[i].sync
      BY <2>1, EmptySeq
    <2>4. ASSUME Open'
          PROVE  /\ HasPoint(local_scan'[1]) /\ local_scan'[1].point[2] = 1 /\ got # <<>>
                 /\ OpenRing' <= Reported
      <3>1. CASE Pending
        <4>1. local_scan'[1] = local_buf[Len(local_buf)]
          BY <2>1, <3>1
        <4>2. got # <<>> /\ local_buf[Len(local_buf)].point = got[Len(got)] /\ got[Len(got)][2] = 1
          BY <3>1 DEF RingStarts
        <4>3. Reported \in Nat /\ Reported = got[Len(got)][1] /\ Len(got) \in 1 .. Len(got)
          BY <4>2, ReportedFacts
        <4>4. OpenRing' = Reported
          BY <4>1, <4>2, <4>3 DEF OpenRing
        <4>5. HasPoint(local_scan'[1])
          <5>1. got[Len(got)] \in Points
            BY <4>3, PointFacts
          <5> QED BY <4>1, <4>2, <5>1 DEF HasPoint, NoPoint, Points
        <4> QED BY <4>1, <4>2, <4>3, <4>4, <4>5
      <3>2. CASE ~Pending
        <4>1. local_scan' = Gathered
          BY <2>1, <3>2
        <4>2. Open /\ Gathered[1] = local_scan[1]
          BY <2>4, <4>1, GatheredFacts DEF Open
        <4>3. HasPoint(local_scan[1]) /\ local_scan[1].point[2] = 1 /\ got # <<>> /\ OpenRing <= Reported
          BY <4>2 DEF RingStarts
        <4>4. OpenRing' = OpenRing
          BY <4>1, <4>2 DEF OpenRing
        <4> QED BY <4>1, <4>2, <4>3, <4>4
      <3> QED BY <3>1, <3>2
    <2> QED BY <2>1, <2>2, <2>3, <2>4 DEF RingStarts
  <1>3. CASE ~EmitNode /\ ~Collect
    <2>1. /\ UNCHANGED <<local_buf, local_scan, scan, got>> /\ Pending' = Pending /\ Open' = Open
          /\ Pending => UNCHANGED <<at, CheckSumResult, package_Sample_Index>>
      BY <1>3, NodesStay
    <2>2. UNCHANGED <<OpenRing, PendingRing, Reported>>
      BY <2>1 DEF OpenRing, PendingRing, Reported
    <2> QED BY <2>1, <2>2 DEF RingStarts
  <1> QED BY <1>1, <1>2, <1>3

\* The error is only cleared by a node that is a ring start.
LEMMA ErrorStays ==
    ASSUME Types, Control, Next, ~EmitNode
    PROVE  /\ has_package_error => has_package_error'
           /\ (at' = "node" \/ package_Sample_Index' > 0) /\ ~CheckSumResult' =>
                 has_package_error' \/ ((at = "node" \/ package_Sample_Index > 0) /\ ~CheckSumResult)
  <1>0. has_package_error \in BOOLEAN /\ CheckSumResult \in BOOLEAN /\ package_Sample_Index \in Nat
    BY DEF Types
  <1>1. CASE ParseHeader
    <2>1. KeepsByte \/ StartsOver
      BY <1>1, ParseHeaderCases
    <2>2. has_package_error => has_package_error'
      BY <2>1 DEF KeepsByte, StartsOver
    <2>3. at' # "node" /\ UNCHANGED <<package_Sample_Index, CheckSumResult>>
      BY <1>1 DEF ParseHeader
    <2> QED BY <2>2, <2>3
  <1>2. CASE ReadPayload
    BY <1>2, ReadPayloadFacts
  <1>3. CASE ~ParseHeader /\ ~ReadPayload
    <2>1. UNCHANGED <<has_package_error, package_Sample_Index, CheckSumResult>>
      BY <1>3 DEF Next, BeginPackage, ByteArrives, ByteHarmed, ReadHeader, WaitTimesOut,
             CallTimesOut, Collect, Listen, Flush, parserVars
    <2>2. at' = "node" => at = "node" \/ package_Sample_Index # 0
      BY <1>3 DEF Next, BeginPackage, ByteArrives, ByteHarmed, ReadHeader, WaitTimesOut, EmitNode,
             CallTimesOut, Collect, Listen, Flush
    <2> QED BY <1>0, <2>1, <2>2
  <1> QED BY <1>1, <1>2, <1>3

\* A node put behind others, in the array as in the buffer.
LEMMA ToldAppend ==
    ASSUME NEW s \in Seq(Nodes), NEW node \in Nodes, ToldInOrder(s),
           node.index # NoIndex => HasPoint(node) /\ \A j \in 1 .. Len(s) : HasPoint(s[j])
    PROVE  ToldInOrder(Append(s, node))
  <1> DEFINE t == Append(s, node)
  <1>1. Len(t) = Len(s) + 1 /\ Len(s) \in Nat /\ (\A i \in 1 .. Len(s) : t[i] = s[i])
        /\ t[Len(s) + 1] = node
    BY AppendFacts
  <1> HIDE DEF t
  <1>2. ASSUME NEW i \in 1 .. Len(t), t[i].index # NoIndex, NEW j \in 1 .. i PROVE HasPoint(t[j])
    <2>1. CASE i = Len(s) + 1
      <3>1. node.index # NoIndex
        BY <1>1, <1>2, <2>1
      <3>2. CASE j = i
        BY <1>1, <2>1, <3>1, <3>2
      <3>3. CASE j # i
        <4>1. j \in 1 .. Len(s)
          BY <1>1, <2>1, <3>3
        <4> QED BY <1>1, <3>1, <4>1
      <3> QED BY <3>2, <3>3
    <2>2. CASE i # Len(s) + 1
      <3>1. i \in 1 .. Len(s) /\ j \in 1 .. Len(s)
        BY <1>1, <2>2
      <3> QED BY <1>1, <1>2, <3>1 DEF ToldInOrder
    <2> QED BY <2>1, <2>2
  <1> QED BY <1>2 DEF ToldInOrder, t

LEMMA ErrorToldNext ==
    ASSUME Types, Types', Control, Origins, WholePackage, PointsBehind, RingStarts, ErrorTold, Next
    PROVE  ErrorTold'
  <1>0. /\ local_buf \in Seq(Nodes) /\ local_scan \in Seq(Nodes) /\ has_package_error \in BOOLEAN
        /\ CheckSumResult \in BOOLEAN /\ package.ring \in BOOLEAN /\ package_Sample_Index \in Nat
    BY DEF Types
  <1>1. CASE EmitNode
    <2>1. /\ local_buf' = Append(local_buf, Node) /\ Node \in Nodes
          /\ Len(local_buf) \in Nat /\ Len(local_buf') = Len(local_buf) + 1
          /\ \A i \in 1 .. Len(local_buf) : local_buf'[i] = local_buf[i]
          /\ local_buf'[Len(local_buf) + 1] = Node
          /\ ~Pending /\ (Pending' <=> Node.sync)
          /\ Node.sync <=> package.ring /\ CheckSumResult
          /\ has_package_error' = (has_package_error /\ ~Node.sync)
          /\ UNCHANGED <<local_scan, scan>>
          /\ at = "node" /\ (at' = "node" => ~LastSample)
      BY <1>1, EmitNodeFacts
    <2>2. ~CheckSumResult => has_package_error
      BY <2>1 DEF ErrorTold
    <2>3. (at' = "node" \/ package_Sample_Index' > 0) /\ ~CheckSumResult' => has_package_error'
      <3>1. LastSample => package_Sample_Index' = 0
        BY <1>1, EmitFacts
      <3>2. ~LastSample => CheckSumResult' = CheckSumResult
        BY <1>1, EmitFacts
      <3>3. ~CheckSumResult => has_package_error'
        BY <2>1, <2>2
      <3> QED BY <2>1, <3>1, <3>2, <3>3
    <2>4. ~has_package_error => /\ \A i \in 1 .. Len(local_scan) : HasPoint(local_scan[i])
                                /\ \A i \in 1 .. Len(local_buf) : HasPoint(local_buf[i])
                                /\ HasPoint(Node)
      BY <2>1, <2>2, NodeFacts DEF ErrorTold
    <2>5. Node.index # NoIndex => ~has_package_error
      BY NodeFacts
    <2>6. ~has_package_error' /\ ~Pending' =>
            /\ \A i \in 1 .. Len(local_scan') : HasPoint(local_scan'[i])
            /\ \A i \in 1 .. Len(local_buf') : HasPoint(local_buf'[i])
      <3> SUFFICES ASSUME ~has_package_error', ~Pending'
                   PROVE  /\ \A i \in 1 .. Len(local_scan') : HasPoint(local_scan'[i])
                          /\ \A i \in 1 .. Len(local_buf') : HasPoint(local_buf'[i])
        OBVIOUS
      <3>1. ~has_package_error
        BY <2>1
      <3>2. ASSUME NEW i \in 1 .. Len(local_buf') PROVE HasPoint(local_buf'[i])
        <4>1. i \in 1 .. Len(local_buf) \/ i = Len(local_buf) + 1
          BY <2>1
        <4> QED BY <2>1, <2>4, <3>1, <4>1
      <3> QED BY <2>1, <2>4, <3>1, <3>2
    <2>7. ToldInOrder(local_buf')
      <3>1. ToldInOrder(local_buf)
        BY DEF ErrorTold
      <3> QED BY <1>0, <2>1, <2>4, <2>5, <3>1, ToldAppend
    <2>8. \A i \in 1 .. Len(local_buf') : local_buf'[i].index # NoIndex =>
            \A j \in 1 .. Len(local_scan') : HasPoint(local_scan'[j])
      <3> SUFFICES ASSUME NEW i \in 1 .. Len(local_buf'), local_buf'[i].index # NoIndex
                   PROVE  \A j \in 1 .. Len(local_scan) : HasPoint(local_scan[j])
        BY <2>1
      <3>1. CASE i = Len(local_buf) + 1
        BY <2>1, <2>4, <2>5, <3>1
      <3>2. CASE i # Len(local_buf) + 1
        <4>1. i \in 1 .. Len(local_buf) /\ local_buf'[i] = local_buf[i]
          BY <2>1, <3>2
        <4> QED BY <4>1 DEF ErrorTold
      <3> QED BY <3>1, <3>2
    <2>9. ToldInOrder(local_scan') /\ ToldInOrder(scan'.nodes)
      BY <2>1 DEF ErrorTold
    <2> QED BY <2>3, <2>6, <2>7, <2>8, <2>9 DEF ErrorTold
  <1>2. CASE Collect
    <2>1. /\ at' = "judge" /\ local_buf' = <<>> /\ ~Pending'
          /\ local_scan' = IF Pending THEN <<local_buf[Len(local_buf)]>> ELSE Gathered
          /\ scan' = IF Pending /\ Open
                       THEN [nodes |-> Gathered, start |-> tim_scan.start, end |-> tim_scan.end,
                             closedBy |-> PendingRing]
                       ELSE scan
          /\ UNCHANGED <<CheckSumResult, package_Sample_Index, has_package_error>>
      BY <1>2, CollectFacts
    <2>2. (at' = "node" \/ package_Sample_Index' > 0) /\ ~CheckSumResult' => has_package_error'
      BY <2>1 DEF ErrorTold
    <2>3. ASSUME NEW i \in 1 .. Len(Gathered), Gathered[i].index # NoIndex, NEW j \in 1 .. i
          PROVE  HasPoint(Gathered[j])
      <3>1. j \in 1 .. Len(Gathered) /\ Len(local_scan) \in Nat /\ Len(Gathered) \in Nat
        BY <2>3, GatheredFacts
      <3>2. CASE i <= Len(local_scan)
        <4>1. i \in 1 .. Len(local_scan) /\ j \in 1 .. Len(local_scan)
          BY <3>1, <3>2
        <4>2. Gathered[i] = local_scan[i] /\ Gathered[j] = local_scan[j]
          BY <4>1, GatheredFacts
        <4> QED BY <2>3, <4>1, <4>2 DEF ErrorTold, ToldInOrder
      <3>3. CASE i > Len(local_scan)
        <4> DEFINE k == i - Len(local_scan)
        <4>1. k \in 1 .. Len(local_buf) /\ local_buf[k].index # NoIndex
          BY <2>3, <3>3, GatheredFacts
        <4>2. CASE j <= Len(local_scan)
          <5>1. j \in 1 .. Len(local_scan) /\ Gathered[j] = local_scan[j]
            BY <3>1, <4>2, GatheredFacts
          <5> QED BY <4>1, <5>1 DEF ErrorTold
        <4>3. CASE j > Len(local_scan)
          <5>1. Gathered[j] = local_buf[j - Len(local_scan)]
            BY <3>1, <4>3, GatheredFacts
          <5>2. j - Len(local_scan) \in 1 .. k
            BY <3>1, <4>3
          <5> HIDE DEF k
          <5> QED BY <4>1, <5>1, <5>2 DEF ErrorTold, ToldInOrder
        <4> QED BY <3>1, <4>2, <4>3
      <3> QED BY <3>1, <3>2, <3>3
    <2>4. ToldInOrder(Gathered)
      BY <2>3 DEF ToldInOrder
    <2>5. Pending => HasPoint(local_buf[Len(local_buf)])
      BY OpenFacts
    <2>6. ToldInOrder(local_scan')
      <3>1. CASE Pending
        <4>1. Len(local_scan') = 1 /\ local_scan'[1] = local_buf[Len(local_buf)]
          BY <2>1, <3>1
        <4>2. \A i \in 1 .. Len(local_scan') : HasPoint(local_scan'[i])
          BY <2>5, <3>1, <4>1
        <4> QED BY <4>1, <4>2 DEF ToldInOrder
      <3>2. CASE ~Pending
        BY <2>1, <2>4, <3>2
      <3> QED BY <3>1, <3>2
    <2>7. ToldInOrder(scan'.nodes)
      <3>1. scan'.nodes = Gathered \/ scan'.nodes = scan.nodes
        BY <2>1
      <3> QED BY <2>4, <3>1 DEF ErrorTold
    <2>8. ~has_package_error' => \A i \in 1 .. Len(local_scan') : HasPoint(local_scan'[i])
      <3>1. CASE Pending
        <4>1. Len(local_scan') = 1 /\ local_scan'[1] = local_buf[Len(local_buf)]
          BY <2>1, <3>1
        <4> QED BY <2>5, <3>1, <4>1
      <3>2. CASE ~Pending
        <4> SUFFICES ASSUME ~has_package_error, NEW i \in 1 .. Len(Gathered) PROVE HasPoint(Gathered[i])
          BY <2>1, <3>2
        <4>1. /\ \A j \in 1 .. Len(local_scan) : HasPoint(local_scan[j])
              /\ \A j \in 1 .. Len(local_buf) : HasPoint(local_buf[j])
          BY <3>2 DEF ErrorTold
        <4>2. CASE i <= Len(local_scan)
          <5>1. i \in 1 .. Len(local_scan)
            BY <4>2, GatheredFacts
          <5> QED BY <4>1, <5>1, GatheredFacts
        <4>3. CASE i > Len(local_scan)
          BY <4>1, <4>3, GatheredFacts
        <4>4. i \in Nat /\ Len(local_scan) \in Nat
          BY GatheredFacts
        <4> QED BY <4>2, <4>3, <4>4
      <3> QED BY <3>1, <3>2
    <2>9. Len(local_buf') = 0 /\ ToldInOrder(local_buf')
      BY <2>1, EmptySeq DEF ToldInOrder
    <2>10. \A i \in 1 .. Len(local_buf') : FALSE
      BY <2>9
    <2> QED BY <2>2, <2>6, <2>7, <2>8, <2>9, <2>10 DEF ErrorTold
  <1>3. CASE ~EmitNode /\ ~Collect
    <2>1. UNCHANGED <<local_buf, local_scan, scan>> /\ Pending' = Pending
      BY <1>3, NodesStay
    <2>2. /\ has_package_error => has_package_error'
          /\ (at' = "node" \/ package_Sample_Index' > 0) /\ ~CheckSumResult' => has_package_error'
      BY <1>3, ErrorStays DEF ErrorTold
    <2> QED BY <2>1, <2>2 DEF ErrorTold
  <1> QED BY <1>1, <1>2, <1>3

-----------------------------------------------------------------------------
(* The search for a head.                                                  *)

LEMMA GotGrows ==
    ASSUME Types, Types', Control, WholePackage, Next
    PROVE  /\ \A e : e \in Range(got) => e \in Range(got')
           /\ EmitNode /\ CheckSumResult => <<Current, package_Sample_Index + 1>> \in Range(got')
  <1>0. got \in Seq(Points) /\ got' \in Seq(Points)
    BY DEF Types
  <1>1. DOMAIN got = 1 .. Len(got) /\ DOMAIN got' = 1 .. Len(got')
    BY <1>0, LenProperties
  <1>2. CASE EmitNode /\ CheckSumResult
    <2>1. /\ Len(got') = Len(got) + 1 /\ Len(got) \in Nat
          /\ got'[Len(got) + 1] = <<Current, package_Sample_Index + 1>>
          /\ \A i \in 1 .. Len(got) : got'[i] = got[i]
      BY <1>2, EmitFacts
    <2>2. ASSUME NEW e \in Range(got) PROVE e \in Range(got')
      <3>1. PICK i \in 1 .. Len(got) : e = got[i]
        BY <1>1 DEF Range
      <3>2. i \in 1 .. Len(got') /\ got'[i] = e
        BY <2>1, <3>1
      <3> QED BY <1>1, <3>2 DEF Range
    <2>3. Len(got) + 1 \in 1 .. Len(got')
      BY <2>1
    <2>4. got'[Len(got) + 1] \in Range(got')
      BY <1>1, <2>3 DEF Range
    <2> QED BY <2>1, <2>2, <2>4
  <1>3. CASE ~(EmitNode /\ CheckSumResult)
    <2>1. got' = got
      <3>1. CASE EmitNode
        BY <1>3, <3>1, EmitFacts
      <3>2. CASE ReadPayload
        BY <3>2, ReadPayloadFacts
      <3>3. CASE ~EmitNode /\ ~ReadPayload
        BY <3>3, OtherSteps
      <3> QED BY <3>1, <3>2, <3>3
    <2> QED BY <1>3, <2>1
  <1> QED BY <1>2, <1>3

\* A header begun before the first byte of a package began with a byte of the
\* package before it, and not one of its first four.
LEMMA HeadOfQuiet ==
    ASSUME Types, Types', Control, Origins, NoGaps, ParseHeader, NEW p,
           ComesFrom(Head(globalRecvBuffer), p, 1), p \notin harmed,
           p > 1 => p - 1 \notin harmed /\ Quiet(p - 1)
    PROVE  header = <<>>
  <1> DEFINE h == Len(header)
  <1>1. /\ Head(globalRecvBuffer) = Stream[h + 1] /\ h + 1 <= Len(Stream) /\ h \in Nat /\ h <= 9
        /\ Len(Stream) \in Nat
    BY ParseHeaderDrops, StreamFacts DEF PackagePaidBytes
  <1>2. InOrder(Stream, sent, position, harmed) /\ NoGapsIn(Stream, sent, position, harmed)
    BY InOrderFacts DEF NoGaps
  <1>3. h >= 1 => header[1] = Stream[1] /\ header[1].value = 170
    <2> SUFFICES ASSUME h >= 1 PROVE header[1] = Stream[1] /\ header[1].value = 170
      OBVIOUS
    <2>1. 1 \in 1 .. Len(header)
      BY <1>1
    <2>2. header # <<>>
      BY <1>1, EmptySeq
    <2> QED BY <2>1, <2>2, StreamParts DEF Control, PH_LOW
  <1>4. h = 0 => header = <<>>
    BY FrontFacts DEF Types
  <1> HIDE DEF h
  <1>5. SUFFICES ASSUME h >= 1 PROVE FALSE
    BY <1>1, <1>4
  <1>6. 1 \in 1 .. Len(Stream) /\ h + 1 \in 1 .. Len(Stream) /\ 1 < h + 1 /\ 1 \in 1 .. h + 1
        /\ (h + 1) - 1 = h
    BY <1>1, <1>5
  <1>7. Stream[h + 1].package = p /\ Stream[h + 1].place = 1
    BY <1>1 DEF ComesFrom
  <1>8. /\ p \in Nat /\ p <= Len(sent) /\ Len(sent) \in Nat
        /\ Stream[1].package \in Nat /\ 1 <= Stream[1].package
        /\ Stream[1].place \in Nat /\ 1 <= Stream[1].place
        /\ Stream[1].package < p \/ (Stream[1].package = p /\ Stream[1].place < 1)
    <2>1. /\ Stream[1].package \in Nat /\ 1 <= Stream[1].package
          /\ Stream[1].place \in Nat /\ 1 <= Stream[1].place
      BY <1>2, <1>6, OriginFacts
    <2>2. PICK i, j : i = 1 /\ j = h + 1
      OBVIOUS
    <2>3. i \in 1 .. Len(Stream) /\ j \in 1 .. Len(Stream) /\ i < j
      BY <1>6, <2>2
    <2>4. /\ Stream[i].package < Stream[j].package
             \/ (Stream[i].package = Stream[j].package /\ Stream[i].place < Stream[j].place)
          /\ Stream[j].package \in Nat /\ Stream[j].package <= Len(sent) /\ Len(sent) \in Nat
      BY <1>2, <2>3, OriginFacts
    <2> QED BY <1>7, <2>1, <2>2, <2>4
  <1>9. p > 1 /\ p - 1 \in 1 .. Len(sent)
    BY <1>8
  <1>10. /\ sent[p - 1] \in KINDS /\ Size(sent[p - 1]) \in Nat /\ 13 <= Size(sent[p - 1])
    BY <1>2, <1>9, OriginFacts
  <1>11. Before(Stream[1], h, p, 1, sent, harmed)
    BY <1>2, <1>6, <1>7 DEF NoGapsIn, Backward
  <1> DEFINE place == Size(sent[p - 1]) - (h - 1)
  <1>12. ComesFrom(Stream[1], p - 1, place)
    <2>1. h < 1 + Size(sent[p - 1])
      BY <1>1, <1>10
    <2> QED BY <1>5, <1>9, <1>11, <2>1 DEF Before
  <1>13. place \in Nat /\ 5 <= place /\ place <= Size(sent[p - 1])
    BY <1>1, <1>5, <1>10
  <1>14. Stream[1].value = ByteAt(sent[p - 1], place)
    <2>1. Stream[1].package = p - 1 /\ Stream[1].place = place
      BY <1>12 DEF ComesFrom
    <2>2. Stream[1].altered => Stream[1].package \in harmed
      BY <1>2, <1>6 DEF InOrder, OriginsIn
    <2>3. ~Stream[1].altered => Stream[1].value = ByteAt(sent[Stream[1].package], Stream[1].place)
      BY <1>2, <1>6 DEF InOrder, OriginsIn
    <2>4. Stream[1] \in Bytes
      BY <1>6, StreamFacts
    <2> QED BY <1>9, <2>1, <2>2, <2>3, <2>4
  <1>15. ByteAt(sent[p - 1], place) = 170
    BY <1>3, <1>5, <1>14
  <1> HIDE DEF place
  <1>16. CASE place <= 10
    <2>1. place \in 5 .. 10
      BY <1>13, <1>16
    <2>2. ByteAt(sent[p - 1], place) \in {0, 1}
      BY <1>10, <2>1, ByteAtFacts
    <2> QED BY <1>15, <2>2
  <1>17. CASE place > 10
    <2>1. place \in 11 .. Size(sent[p - 1])
      BY <1>10, <1>13, <1>17
    <2>2. PICK i \in 1 .. Len(sent[p - 1].samples) : ByteAt(sent[p - 1], place) \in Range(sent[p - 1].samples[i])
      BY <1>10, <2>1, ByteAtFacts
    <2>3. i \in DOMAIN sent[p - 1].samples
      BY <1>10, KindFacts, LenProperties
    <2> QED BY <1>9, <1>15, <2>2, <2>3 DEF Quiet, PH_LOW
  <1> QED BY <1>13, <1>16, <1>17

LEMMA SearchedNext ==
    ASSUME Types, Types', Control, Control', Origins, Origins', NoGaps, WholePackage, PointsBehind, Searched, Next
    PROVE  Searched'
  <1> SUFFICES ASSUME NEW p, p \in searched', p \notin harmed',
                      p > 1 => p - 1 \notin harmed' /\ Quiet(p - 1)'
               PROVE  InSearch(p)' \/ InSamples(p)' \/ AllReported(p)'
    BY DEF Searched
  <1>0. /\ p \notin harmed /\ p \in 1 .. Len(sent) /\ Len(sent) \in Nat /\ sent'[p] = sent[p]
        /\ p > 1 => p - 1 \notin harmed /\ Quiet(p - 1)
    <2>1. harmed \subseteq harmed' /\ Len(sent) \in Nat
          /\ \A q \in 1 .. Len(sent) : sent'[q] = sent[q]
      BY Progress
    <2>2. p \in 1 .. Len(sent)
      <3>1. CASE ReaderStep
        BY <3>1, ReaderStepFacts
      <3>2. CASE ~ReaderStep
        <4>1. searched' = searched
          BY <3>2 DEF ReaderStep, Next, BeginPackage, ByteArrives, ByteHarmed, Flush, historyVars
        <4> QED BY <4>1 DEF Origins
      <3> QED BY <3>1, <3>2
    <2>3. p > 1 => p - 1 \in 1 .. Len(sent)
      BY <2>1, <2>2
    <2> QED BY <2>1, <2>2, <2>3 DEF Quiet
  <1>r. InOrder(Stream, sent, position, harmed) /\ Len(Stream) \in Nat
    BY InOrderFacts, StreamFacts
  <1>k. ASSUME InSearch(p), header' # <<>>, Drops(0) \/ Stream' = Stream \/ \E byte : Grows(byte)
        PROVE  InSearch(p)'
    <2>1. Stream # <<>> /\ ComesFrom(Stream[1], p, 1)
      BY <1>k DEF InSearch
    <2>2. 1 \in 1 .. Len(Stream)
      BY <2>1, StreamFacts, FrontFacts
    <2>3. Stream'[1] = Stream[1] /\ Len(Stream') # 0
      <3>1. CASE Drops(0)
        BY <1>r, <2>2, <3>1 DEF Drops, Dropped
      <3>2. CASE Stream' = Stream
        BY <1>r, <2>2, <3>2
      <3>3. CASE \E byte : Grows(byte)
        BY <1>r, <2>2, <3>3 DEF Grows, Grown
      <3> QED BY <1>k, <3>1, <3>2, <3>3
    <2>4. Stream' # <<>>
      BY <2>3, EmptySeq
    <2> QED BY <1>k, <2>1, <2>3, <2>4 DEF InSearch
  <1>1. CASE p \notin searched
    <2>1. ParseHeader /\ ComesFrom(Head(globalRecvBuffer), p, 1)
      BY <1>1 DEF Next, BeginPackage, ByteArrives, ByteHarmed, ReadHeader, ParseHeader, WaitTimesOut, ReadPayload,
             EmitNode, CallTimesOut, Collect, Listen, Flush, historyVars, ComesFrom
    <2>2. header = <<>>
      BY <1>0, <2>1, HeadOfQuiet
    <2>3. Head(globalRecvBuffer) = Stream[1] /\ 1 <= Len(Stream)
      BY <2>1, <2>2, EmptySeq, ParseHeaderDrops
    <2>4. Stream # <<>> /\ ComesFrom(Stream[1], p, 1)
      BY <2>1, <2>3, EmptySeq
    <2>5. KeepsByte
      BY <1>0, <2>1, <2>4, AlignedParse
    <2>6. Drops(0) /\ header' # <<>>
      <3>1. Head(globalRecvBuffer) \in Bytes /\ header \in Seq(Bytes)
        BY <2>1, ParseHeaderDrops, StreamFacts, HeaderFacts DEF Types, Control, ParseHeader
      <3>2. Drops(0)
        BY <2>1, <2>5, ParseHeaderDrops DEF KeepsByte
      <3> QED BY <2>5, <3>1, <3>2, AppendFacts DEF KeepsByte
    <2>7. Stream'[1] = Stream[1] /\ Len(Stream') # 0
      BY <1>r, <2>3, <2>6 DEF Drops, Dropped
    <2>8. Stream' # <<>>
      BY <2>7, EmptySeq
    <2> QED BY <2>4, <2>6, <2>7, <2>8 DEF InSearch
  <1>2. CASE p \in searched
    <2>1. InSearch(p) \/ InSamples(p) \/ AllReported(p)
      BY <1>0, <1>2 DEF Searched
    <2>2. CASE InSearch(p)
      <3>1. /\ Stream # <<>> /\ ComesFrom(Stream[1], p, 1) /\ header # <<>>
            /\ at \in {"header", "parse", "payload"}
        BY <2>2 DEF InSearch, Control
      <3>2. CASE BeginPackage \/ ByteArrives \/ ByteHarmed
        <4>1. header' = header
          BY <3>2 DEF BeginPackage, ByteArrives, ByteHarmed, parserVars
        <4>2. Stream' = Stream \/ \E byte : Grows(byte)
          <5>1. CASE BeginPackage
            BY <5>1 DEF BeginPackage, parserVars, Stream
          <5>2. CASE ByteArrives
            <6>1. NextByte \in Bytes /\ line' = Append(line, NextByte) /\ UNCHANGED <<header, globalRecvBuffer>>
              BY <5>2, NextByteFacts DEF ByteArrives, parserVars
            <6> QED BY <6>1, ArrivalGrows
          <5>3. CASE ByteHarmed
            BY <5>3, ByteHarmedCases
          <5> QED BY <3>2, <5>1, <5>2, <5>3
        <4> QED BY <1>k, <2>2, <3>1, <4>1, <4>2
      <3>3. CASE ReadHeader
        BY <1>k, <2>2, <3>1, <3>3, ReadHeaderDrops DEF ReadHeader
      <3>4. CASE ParseHeader
        <4>1. KeepsByte
          BY <1>0, <3>1, <3>4, AlignedParse
        <4>2. Head(globalRecvBuffer) \in Bytes /\ header \in Seq(Bytes)
          BY <3>4, ParseHeaderDrops, HeaderFacts DEF Types, Control, ParseHeader
        <4>3. Drops(0) /\ header' # <<>>
          BY <3>4, <4>1, <4>2, ParseHeaderDrops, AppendFacts DEF KeepsByte
        <4> QED BY <1>k, <2>2, <4>3
      <3>5. CASE ReadPayload
        <4>1. CheckSumResult' /\ package_Sample_Index' = 0
          BY <1>0, <3>1, <3>5, AlignedPayload, ReadPayloadFacts
        <4>2. p = Stream[1].package
          BY <3>1 DEF ComesFrom
        <4>3. Current' = p
          BY <3>5, <4>1, <4>2, FitsMeansWhole
        <4>4. \A i \in 1 .. package_Sample_Index' : FALSE
          BY <4>1
        <4> QED BY <4>1, <4>3, <4>4 DEF InSamples
      <3>6. CASE WaitTimesOut
        <4>1. 1 \in 1 .. Len(header) /\ header \in Seq(Bytes)
          BY <3>1, FrontFacts DEF Types
        <4>2. header[1] = Stream[1] /\ header[1].package \in PackagesOf(header)
          BY <4>1, StreamParts, PackagesOfFacts
        <4> QED BY <3>1, <3>6, <4>2 DEF ComesFrom, WaitTimesOut
      <3> QED BY <3>1, <3>2, <3>3, <3>4, <3>5, <3>6
           DEF Next, EmitNode, CallTimesOut, Collect, Listen, Flush
    <2>3. CASE InSamples(p)
      <3>1. CheckSumResult /\ Current = p /\ \A i \in 1 .. package_Sample_Index : <<p, i>> \in Range(got)
        BY <2>3 DEF InSamples
      <3>2. package_Sample_Index \in Nat /\ package.samples = Len(sent[p].samples)
        BY <3>1, CurrentFacts
      <3>3. CASE EmitNode
        <4>1. <<p, package_Sample_Index + 1>> \in Range(got')
          BY <3>1, <3>3, GotGrows
        <4>2. \A i \in 1 .. package_Sample_Index + 1 : <<p, i>> \in Range(got')
          <5> TAKE i \in 1 .. package_Sample_Index + 1
          <5>1. i \in 1 .. package_Sample_Index \/ i = package_Sample_Index + 1
            BY <3>2
          <5> QED BY <3>1, <4>1, <5>1, GotGrows
        <4>3. /\ CheckSumResult' => package_Sample_Index' = package_Sample_Index + 1
              /\ ~CheckSumResult' => package_Sample_Index + 1 = package.samples
              /\ package' = package
          BY <3>1, <3>3, EmitFacts
        <4>4. CheckSumResult' => InSamples(p)'
          <5>1. Current' = p
            BY <3>1, <4>3 DEF Current
          <5> QED BY <4>2, <4>3, <5>1 DEF InSamples
        <4>5. ~CheckSumResult' => AllReported(p)'
          BY <1>0, <3>2, <4>2, <4>3 DEF AllReported
        <4> QED BY <4>4, <4>5
      <3>4. CASE ReadPayload
        BY <3>1, <3>4, ReadPayloadFacts
      <3>5. CASE ~EmitNode /\ ~ReadPayload
        BY <3>1, <3>5, OtherSteps DEF InSamples, Current
      <3> QED BY <3>3, <3>4, <3>5
    <2>4. CASE AllReported(p)
      BY <1>0, <2>4, GotGrows DEF AllReported
    <2> QED BY <2>1, <2>2, <2>3, <2>4
  <1> QED BY <1>1, <1>2

-----------------------------------------------------------------------------
(* Revolutions.                                                            *)

\* One node more, if there is room for it.
LEMMA StoredMore ==
    ASSUME NEW s \in Seq(Nodes), NEW t \in Seq(Nodes), NEW node \in Nodes, Len(s) < LOCAL_SCAN
    PROVE  LET r == Stored(s, t)
               m == Stored(s, Append(t, node))
           IN  /\ \A i \in 1 .. Len(r) : m[i] = r[i]
               /\ Len(r) < LOCAL_SCAN - 1 => Len(m) = Len(r) + 1 /\ m[Len(r) + 1] = node
               /\ ~(Len(r) < LOCAL_SCAN - 1) => Len(m) = Len(r) /\ Len(r) = LOCAL_SCAN - 1
  <1> DEFINE u == Append(t, node)
             r == Stored(s, t)
             m == Stored(s, u)
  <1>1. u \in Seq(Nodes) /\ Len(u) = Len(t) + 1 /\ Len(t) \in Nat
        /\ (\A i \in 1 .. Len(t) : u[i] = t[i]) /\ u[Len(t) + 1] = node
    BY AppendFacts
  <1>2. LOCAL_SCAN \in Nat /\ LOCAL_SCAN > 1
    BY StreamAssumption
  <1>3. /\ Len(r) \in Nat /\ Len(s) \in Nat
        /\ Len(r) = IF Len(s) + Len(t) < LOCAL_SCAN THEN Len(s) + Len(t) ELSE LOCAL_SCAN - 1
        /\ \A i \in 1 .. Len(r) : r[i] = IF i <= Len(s) THEN s[i] ELSE t[i - Len(s)]
    BY StoredFacts
  <1> HIDE DEF u
  <1>u. u \in Seq(Nodes)
    BY <1>1
  <1>4. /\ Len(m) \in Nat
        /\ Len(m) = IF Len(s) + Len(u) < LOCAL_SCAN THEN Len(s) + Len(u) ELSE LOCAL_SCAN - 1
        /\ \A i \in 1 .. Len(m) : m[i] = IF i <= Len(s) THEN s[i] ELSE u[i - Len(s)]
    BY <1>u, StoredFacts
  <1> HIDE DEF r, m
  <1>5. ASSUME NEW i \in 1 .. Len(r) PROVE m[i] = r[i]
    <2>1. i \in 1 .. Len(m)
      BY <1>1, <1>2, <1>3, <1>4
    <2>2. i > Len(s) => i - Len(s) \in 1 .. Len(t)
      BY <1>1, <1>2, <1>3
    <2> QED BY <1>1, <1>3, <1>4, <2>1, <2>2
  <1>6. Len(r) < LOCAL_SCAN - 1 => Len(m) = Len(r) + 1 /\ m[Len(r) + 1] = node
    <2> SUFFICES ASSUME Len(r) < LOCAL_SCAN - 1 PROVE Len(m) = Len(r) + 1 /\ m[Len(r) + 1] = node
      OBVIOUS
    <2>1. Len(r) = Len(s) + Len(t) /\ Len(m) = Len(r) + 1
      BY <1>1, <1>2, <1>3, <1>4
    <2>2. Len(r) + 1 \in 1 .. Len(m) /\ ~(Len(r) + 1 <= Len(s)) /\ Len(r) + 1 - Len(s) = Len(t) + 1
      BY <1>1, <1>3, <2>1
    <2> QED BY <1>1, <1>4, <2>1, <2>2
  <1>7. ~(Len(r) < LOCAL_SCAN - 1) => Len(m) = Len(r) /\ Len(r) = LOCAL_SCAN - 1
    BY <1>1, <1>2, <1>3, <1>4
  <1> QED BY <1>5, <1>6, <1>7 DEF r, m, u

LEMMA GatheredSent ==
    ASSUME Types, Control, RingStarts, NodesSent
    PROVE  AllSent(Gathered, sent)
  <1>1. ASSUME NEW i \in 1 .. Len(Gathered), HasPoint(Gathered[i])
        PROVE  Gathered[i].point[1] \in 1 .. Len(sent)
    <2>1. i \in Nat /\ Len(local_scan) \in Nat
      BY GatheredFacts
    <2>2. CASE i <= Len(local_scan)
      <3>1. i \in 1 .. Len(local_scan) /\ Gathered[i] = local_scan[i]
        BY <2>1, <2>2, GatheredFacts
      <3> QED BY <1>1, <3>1 DEF NodesSent, AllSent
    <2>3. CASE i > Len(local_scan)
      <3>1. i - Len(local_scan) \in 1 .. Len(local_buf) /\ Gathered[i] = local_buf[i - Len(local_scan)]
        BY <2>3, GatheredFacts
      <3> QED BY <1>1, <3>1 DEF NodesSent, AllSent
    <2> QED BY <2>1, <2>2, <2>3
  <1> QED BY <1>1 DEF AllSent

LEMMA NodesSentNext ==
    ASSUME Types, Types', Control, Origins, WholePackage, PointsBehind, RingStarts, NodesSent, Next
    PROVE  NodesSent'
  <1>0. Len(sent) \in Nat /\ Len(sent') \in Nat /\ Len(sent) <= Len(sent')
    BY Progress
  <1>a. ASSUME NEW seq, AllSent(seq, sent) PROVE AllSent(seq, sent')
    <2>1. \A n \in 1 .. Len(sent) : n \in 1 .. Len(sent')
      BY <1>0
    <2> QED BY <1>a, <2>1 DEF AllSent
  <1>s. scan'.closedBy = scan.closedBy /\ scan'.nodes = scan.nodes =>
           /\ AllSent(scan'.nodes, sent')
           /\ HasScan' => scan'.nodes # <<>> /\ HasPoint(scan'.nodes[1]) /\ scan'.closedBy <= Len(sent')
    <2> SUFFICES ASSUME scan'.closedBy = scan.closedBy, scan'.nodes = scan.nodes
                 PROVE  /\ AllSent(scan'.nodes, sent')
                        /\ HasScan' => scan'.nodes # <<>> /\ HasPoint(scan'.nodes[1]) /\ scan'.closedBy <= Len(sent')
      OBVIOUS
    <2>1. AllSent(scan'.nodes, sent')
      BY <1>a DEF NodesSent
    <2>2. HasScan' => scan'.nodes # <<>> /\ HasPoint(scan'.nodes[1]) /\ scan'.closedBy <= Len(sent)
      BY DEF NodesSent, HasScan
    <2>3. scan'.closedBy \in Nat
      BY DEF Types
    <2> QED BY <1>0, <2>1, <2>2, <2>3
  <1>1. CASE EmitNode
    <2>1. /\ Node \in Nodes /\ Len(local_buf) \in Nat /\ Len(local_buf') = Len(local_buf) + 1
          /\ \A i \in 1 .. Len(local_buf) : local_buf'[i] = local_buf[i]
          /\ local_buf'[Len(local_buf) + 1] = Node /\ UNCHANGED <<local_scan, scan>>
      BY <1>1, EmitNodeFacts
    <2>2. HasPoint(Node) => Node.point[1] \in 1 .. Len(sent)
      <3>1. HasPoint(Node) => CheckSumResult /\ Node.point = <<Current, package_Sample_Index + 1>>
        BY NodeFacts
      <3>2. CheckSumResult => Current \in 1 .. Len(sent)
        BY CurrentFacts
      <3> QED BY <3>1, <3>2
    <2>3. AllSent(local_buf', sent)
      <3> SUFFICES ASSUME NEW i \in 1 .. Len(local_buf'), HasPoint(local_buf'[i])
                   PROVE  local_buf'[i].point[1] \in 1 .. Len(sent)
        BY DEF AllSent
      <3>1. CASE i = Len(local_buf) + 1
        BY <2>1, <2>2, <3>1
      <3>2. CASE i # Len(local_buf) + 1
        <4>1. i \in 1 .. Len(local_buf) /\ local_buf'[i] = local_buf[i]
          BY <2>1, <3>2
        <4> QED BY <4>1 DEF NodesSent, AllSent
      <3> QED BY <3>1, <3>2
    <2>4. AllSent(local_scan', sent)
      BY <2>1 DEF NodesSent
    <2> QED BY <1>a, <1>s, <2>1, <2>3, <2>4 DEF NodesSent
  <1>2. CASE Collect
    <2>1. /\ local_buf' = <<>>
          /\ local_scan' = IF Pending THEN <<local_buf[Len(local_buf)]>> ELSE Gathered
          /\ scan' = IF Pending /\ Open
                       THEN [nodes |-> Gathered, start |-> tim_scan.start, end |-> tim_scan.end,
                             closedBy |-> PendingRing]
                       ELSE scan
      BY <1>2, CollectFacts
    <2>2. AllSent(local_buf', sent)
      <3>1. Len(local_buf') = 0
        BY <2>1, EmptySeq
      <3> QED BY <3>1 DEF AllSent
    <2>3. AllSent(local_scan', sent)
      <3>1. CASE Pending
        <4>1. Len(local_scan') = 1 /\ local_scan'[1] = local_buf[Len(local_buf)]
              /\ Len(local_buf) \in 1 .. Len(local_buf)
          BY <2>1, <3>1, OpenFacts
        <4> QED BY <4>1 DEF NodesSent, AllSent
      <3>2. CASE ~Pending
        BY <2>1, <3>2, GatheredSent
      <3> QED BY <3>1, <3>2
    <2>4. CASE Pending /\ Open
      <3>1. scan'.nodes = Gathered /\ scan'.closedBy = PendingRing
        BY <2>1, <2>4
      <3>2. AllSent(Gathered, sent) /\ Gathered # <<>> /\ Gathered[1] = local_scan[1]
        BY <2>4, GatheredSent, GatheredFacts
      <3>3. HasPoint(local_scan[1]) /\ PendingRing = Reported /\ PendingRing \in Nat
        BY <2>4, OpenFacts
      <3>4. Reported <= Len(sent)
        <4>1. got # <<>>
          BY <2>4, OpenFacts
        <4> QED BY <1>0, <4>1, ReportedFacts
      <3>5. scan'.nodes # <<>> /\ HasPoint(scan'.nodes[1]) /\ scan'.closedBy <= Len(sent')
        BY <1>0, <3>1, <3>2, <3>3, <3>4
      <3>6. AllSent(scan'.nodes, sent')
        BY <1>a, <3>1, <3>2
      <3> QED BY <1>a, <2>2, <2>3, <3>5, <3>6 DEF NodesSent
    <2>5. CASE ~(Pending /\ Open)
      <3>1. scan' = scan
        BY <2>1, <2>5
      <3> QED BY <1>a, <1>s, <2>2, <2>3, <3>1 DEF NodesSent
    <2> QED BY <2>4, <2>5
  <1>3. CASE ~EmitNode /\ ~Collect
    <2>1. UNCHANGED <<local_buf, local_scan, scan>>
      BY <1>3, NodesStay
    <2>2. AllSent(local_buf', sent) /\ AllSent(local_scan', sent)
      BY <2>1 DEF NodesSent
    <2> QED BY <1>a, <1>s, <2>1, <2>2 DEF NodesSent
  <1> QED BY <1>1, <1>2, <1>3

\* What a step does to what is gathered.
GatheredSame == Len(Gathered') = Len(Gathered) /\ \A i \in 1 .. Len(Gathered) : Gathered'[i] = Gathered[i]

LEMMA GatheredNext ==
    ASSUME Types, Types', Control, WholePackage, PointsBehind, RingStarts, Next
    PROVE  /\ EmitNode /\ Node.sync => GatheredSame
           /\ EmitNode /\ ~Node.sync =>
                /\ \A i \in 1 .. Len(Gathered) : Gathered'[i] = Gathered[i]
                /\ Len(Gathered) < LOCAL_SCAN - 1 =>
                     Len(Gathered') = Len(Gathered) + 1 /\ Gathered'[Len(Gathered) + 1] = Node
                /\ ~(Len(Gathered) < LOCAL_SCAN - 1) =>
                     Len(Gathered') = Len(Gathered) /\ Len(Gathered) = LOCAL_SCAN - 1
           /\ Collect /\ Pending => Len(Gathered') = 1 /\ Gathered'[1] = local_buf[Len(local_buf)]
           /\ Collect /\ ~Pending => GatheredSame
           /\ ~EmitNode /\ ~Collect => Gathered' = Gathered
  <1>0. local_buf \in Seq(Nodes) /\ local_scan \in Seq(Nodes) /\ Len(local_scan) < LOCAL_SCAN
        /\ LOCAL_SCAN \in Nat /\ LOCAL_SCAN > 1
    BY StreamAssumption DEF Types, Control
  <1>1. CASE EmitNode
    <2>1. /\ local_buf' = Append(local_buf, Node) /\ Node \in Nodes /\ local_scan' = local_scan
          /\ ~Pending /\ (Pending' <=> Node.sync)
      BY <1>1, EmitNodeFacts
    <2>2. Gathered = Stored(local_scan, local_buf)
      BY <2>1 DEF Gathered
    <2>3. CASE Node.sync
      <3>1. Pending'
        BY <2>1, <2>3
      <3>2. Gathered' = Stored(local_scan, Front(local_buf'))
        BY <2>1, <3>1 DEF Gathered
      <3>3. Front(local_buf') = local_buf
        <4> DEFINE s == Append(local_buf, Node)
        <4>1. s \in Seq(Nodes) /\ Len(s) = Len(local_buf) + 1 /\ s # <<>> /\ Len(local_buf) \in Nat
              /\ \A i \in 1 .. Len(local_buf) : s[i] = local_buf[i]
          BY <1>0, <2>1, AppendFacts
        <4> HIDE DEF s
        <4>2. Front(s) \in Seq(Nodes) /\ Len(Front(s)) = Len(s) - 1
              /\ \A i \in 1 .. Len(s) - 1 : Front(s)[i] = s[i]
          BY <4>1, FrontFacts
        <4>3. Len(Front(s)) = Len(local_buf) /\ \A i \in 1 .. Len(Front(s)) : Front(s)[i] = local_buf[i]
          BY <4>1, <4>2
        <4>4. Front(s) = local_buf
          BY <1>0, <4>2, <4>3, SeqEqual
        <4> QED BY <2>1, <4>4 DEF s
      <3>4. Gathered' = Gathered
        BY <2>2, <3>2, <3>3
      <3> QED BY <1>1, <2>3, <3>4 DEF GatheredSame, Collect, EmitNode
    <2>4. CASE ~Node.sync
      <3>1. Gathered' = Stored(local_scan, Append(local_buf, Node))
        BY <2>1, <2>4 DEF Gathered
      <3>2. /\ \A i \in 1 .. Len(Gathered) : Gathered'[i] = Gathered[i]
            /\ Len(Gathered) < LOCAL_SCAN - 1 =>
                 Len(Gathered') = Len(Gathered) + 1 /\ Gathered'[Len(Gathered) + 1] = Node
            /\ ~(Len(Gathered) < LOCAL_SCAN - 1) =>
                 Len(Gathered') = Len(Gathered) /\ Len(Gathered) = LOCAL_SCAN - 1
        BY <1>0, <2>1, <2>2, <3>1, StoredMore
      <3> QED BY <1>1, <2>4, <3>2 DEF Collect, EmitNode
    <2> QED BY <2>3, <2>4
  <1>2. CASE Collect
    <2>1. local_buf' = <<>> /\ ~Pending'
          /\ local_scan' = IF Pending THEN <<local_buf[Len(local_buf)]>> ELSE Gathered
      BY <1>2, CollectFacts
    <2>2. Gathered' = Stored(local_scan', <<>>)
      BY <2>1 DEF Gathered
    <2>3. local_scan' \in Seq(Nodes) /\ <<>> \in Seq(Nodes) /\ Len(<<>>) = 0
      BY EmptySeq DEF Types
    <2>4. Len(local_scan') \in Nat /\ Len(local_scan') < LOCAL_SCAN
      BY <1>0, <2>1, <2>3, GatheredFacts, LenProperties
    <2>5. Len(Gathered') = Len(local_scan') /\ \A i \in 1 .. Len(local_scan') : Gathered'[i] = local_scan'[i]
      <3>1. ASSUME NEW none \in Seq(Nodes), none = <<>>
            PROVE  /\ Len(Stored(local_scan', none)) = Len(local_scan')
                   /\ \A i \in 1 .. Len(local_scan') : Stored(local_scan', none)[i] = local_scan'[i]
        <4> DEFINE m == Stored(local_scan', none)
        <4>1. /\ Len(m) = IF Len(local_scan') + Len(none) < LOCAL_SCAN
                            THEN Len(local_scan') + Len(none) ELSE LOCAL_SCAN - 1
              /\ \A i \in 1 .. Len(m) :
                   m[i] = IF i <= Len(local_scan') THEN local_scan'[i] ELSE none[i - Len(local_scan')]
          BY <2>3, StoredFacts
        <4>2. Len(none) = 0
          BY <2>3, <3>1
        <4> HIDE DEF m
        <4>3. Len(m) = Len(local_scan')
          BY <2>4, <4>1, <4>2
        <4>4. \A i \in 1 .. Len(local_scan') : m[i] = local_scan'[i]
          BY <2>4, <4>1, <4>3
        <4> QED BY <4>3, <4>4 DEF m
      <3> QED BY <2>2, <2>3, <3>1
    <2>6. Pending => Len(Gathered') = 1 /\ Gathered'[1] = local_buf[Len(local_buf)]
      BY <2>1, <2>5
    <2>7. ~Pending => GatheredSame
      BY <2>1, <2>5 DEF GatheredSame
    <2> QED BY <1>2, <2>6, <2>7 DEF Collect, EmitNode
  <1>3. CASE ~EmitNode /\ ~Collect
    BY <1>3, NodesStay DEF Gathered
  <1> QED BY <1>1, <1>2, <1>3

\* Points of packages sent, in nodes.
NodesOf(seq, all) ==
    /\ \A i \in 1 .. Len(seq) : seq[i] \in Nodes
    /\ AllSent(seq, all) /\ Len(seq) \in Nat /\ Len(seq) >= 1

\* More packages, the same as before.
MoreSent(all, more) == Len(all) \in Nat /\ \A p \in 1 .. Len(all) : more[p] = all[p]

Extends(seq, t, node) ==
    /\ \A i \in 1 .. Len(seq) : t[i] = seq[i]
    /\ Len(seq) < LOCAL_SCAN - 1 => Len(t) = Len(seq) + 1 /\ t[Len(seq) + 1] = node
    /\ ~(Len(seq) < LOCAL_SCAN - 1) => Len(t) = Len(seq) /\ Len(seq) = LOCAL_SCAN - 1

SameNodes(seq, t) == Len(t) = Len(seq) /\ \A i \in 1 .. Len(seq) : t[i] = seq[i]

LEMMA NextPointFacts ==
    ASSUME NEW node \in Nodes, HasPoint(node), NEW all, NEW more, MoreSent(all, more),
           node.point[1] \in 1 .. Len(all)
    PROVE  NextPoint(node.point, more) = NextPoint(node.point, all)
  BY DEF NextPoint, MoreSent

LEMMA NextPointIsPoint ==
    ASSUME NEW point, NEW all, NEW node, node.point = NextPoint(point, all)
    PROVE  HasPoint(node)
  <1>1. NextPoint(point, all) = <<point[1], point[2] + 1>> \/ NextPoint(point, all) = <<point[1] + 1, 1>>
    BY DEF NextPoint
  <1>2. \A a, b : <<a, b>> # <<>>
    OBVIOUS
  <1> QED BY <1>1, <1>2 DEF HasPoint, NoPoint

LEMMA SoFarStays ==
    ASSUME NEW seq, NEW t, NEW all, NEW more, NEW ring \in Nat, NEW last \in Nat, NEW end,
           NEW hurt, NEW harm, NodesOf(seq, all), SameNodes(seq, t), MoreSent(all, more),
           hurt \subseteq harm, last <= Len(all), SoFar(seq, ring, last, end, all, hurt)
    PROVE  SoFar(t, ring, last, end, more, harm)
  <1>0. Len(seq) \in Nat /\ Len(seq) >= 1 /\ Len(t) = Len(seq) /\ Len(seq) \in 1 .. Len(seq)
        /\ \A i \in 1 .. Len(seq) : t[i] = seq[i] /\ seq[i] \in Nodes
    BY DEF NodesOf, SameNodes
  <1>1. \A i \in 1 .. Len(t) : ~HasPoint(t[i]) => last + 1 \in harm
    BY <1>0 DEF SoFar
  <1>2. ASSUME NEW i \in 2 .. Len(t), HasPoint(t[i]), HasPoint(t[i - 1])
        PROVE  t[i].point = NextPoint(t[i - 1].point, more)
    <2>1. i \in 1 .. Len(seq) /\ i - 1 \in 1 .. Len(seq) /\ i \in 2 .. Len(seq)
      BY <1>0
    <2>2. t[i] = seq[i] /\ t[i - 1] = seq[i - 1] /\ seq[i - 1] \in Nodes
      BY <1>0, <2>1
    <2>3. seq[i].point = NextPoint(seq[i - 1].point, all)
      BY <1>2, <2>1, <2>2 DEF SoFar
    <2>4. seq[i - 1].point[1] \in 1 .. Len(all)
      BY <1>2, <2>1, <2>2 DEF NodesOf, AllSent
    <2> QED BY <1>2, <2>2, <2>3, <2>4, NextPointFacts
  <1>3. \A i \in 1 .. Len(t) : HasPoint(t[i]) => t[i].point[1] <= last
    BY <1>0 DEF SoFar
  <1>4. Len(t) < LOCAL_SCAN - 1 /\ HasPoint(t[Len(t)]) => t[Len(t)].point = end
    BY <1>0 DEF SoFar
  <1>5. ASSUME NEW p \in ring + 1 .. last PROVE ~more[p].ring
    <2>1. p \in 1 .. Len(all)
      BY DEF MoreSent
    <2>2. more[p] = all[p]
      BY <2>1 DEF MoreSent
    <2> QED BY <2>2 DEF SoFar
  <1> QED BY <1>1, <1>2, <1>3, <1>4, <1>5 DEF SoFar

LEMMA RevolutionStays ==
    ASSUME NEW seq, NEW t, NEW all, NEW more, NEW closedBy \in Nat,
           NodesOf(seq, all), SameNodes(seq, t), MoreSent(all, more), HasPoint(seq[1]),
           closedBy <= Len(all), OneRevolution(seq, closedBy, all)
    PROVE  OneRevolution(t, closedBy, more)
  <1>0. Len(seq) \in Nat /\ Len(seq) >= 1 /\ Len(t) = Len(seq) /\ Len(seq) \in 1 .. Len(seq) /\ 1 \in 1 .. Len(seq)
        /\ Len(all) \in Nat /\ \A i \in 1 .. Len(seq) : t[i] = seq[i] /\ seq[i] \in Nodes
    BY DEF NodesOf, SameNodes, MoreSent
  <1>1. ASSUME NEW i \in 1 .. Len(seq) PROVE HasPoint(seq[i]) /\ seq[i].point[1] \in 1 .. Len(all)
    <2>1. HasPoint(seq[i])
      <3>1. CASE i = 1
        BY <3>1
      <3>2. CASE i # 1
        <4>1. i \in 2 .. Len(seq)
          BY <1>0, <3>2
        <4>2. seq[i].point = NextPoint(seq[i - 1].point, all)
          BY <4>1 DEF OneRevolution
        <4> QED BY <4>2, NextPointIsPoint
      <3> QED BY <3>1, <3>2
    <2> QED BY <2>1 DEF NodesOf, AllSent
  <1>2. ASSUME NEW i \in 1 .. Len(seq) PROVE NextPoint(seq[i].point, more) = NextPoint(seq[i].point, all)
    BY <1>0, <1>1, NextPointFacts
  <1>3. ASSUME NEW i \in 2 .. Len(t) PROVE t[i].point = NextPoint(t[i - 1].point, more)
    <2>1. i \in 1 .. Len(seq) /\ i - 1 \in 1 .. Len(seq) /\ i \in 2 .. Len(seq)
      BY <1>0
    <2>2. seq[i].point = NextPoint(seq[i - 1].point, all)
      BY <2>1 DEF OneRevolution
    <2> QED BY <1>0, <1>2, <2>1, <2>2
  <1>4. ASSUME NEW p \in t[1].point[1] + 1 .. closedBy - 1 PROVE ~more[p].ring
    <2>1. t[1] = seq[1] /\ seq[1].point[1] \in 1 .. Len(all)
      BY <1>0, <1>1
    <2>2. p \in seq[1].point[1] + 1 .. closedBy - 1 /\ p \in 1 .. Len(all)
      BY <1>0, <2>1
    <2>3. more[p] = all[p]
      BY <2>2 DEF MoreSent
    <2> QED BY <2>2, <2>3 DEF OneRevolution
  <1>5. t[1].point[2] = 1
    BY <1>0 DEF OneRevolution
  <1>6. IF Len(t) < LOCAL_SCAN - 1
          THEN NextPoint(t[Len(t)].point, more) = <<closedBy, 1>>
          ELSE Len(t) = LOCAL_SCAN - 1 /\ t[Len(t)].point[1] < closedBy
    BY <1>0, <1>2 DEF OneRevolution
  <1> QED BY <1>3, <1>4, <1>5, <1>6 DEF OneRevolution

\* The next point, of the same package or of the next, gathered or left out.
LEMMA SoFarPoint ==
    ASSUME NEW seq, NEW t, NEW all, NEW ring \in Nat, NEW last \in Nat, NEW end, NEW hurt,
           NEW node, NEW p \in Nat, NEW k, HasPoint(node), node.point = <<p, k>>,
           NodesOf(seq, all), Extends(seq, t, node), LOCAL_SCAN \in Nat,
           SoFar(seq, ring, last, end, all, hurt),
           NextPoint(end, all) = <<p, k>>, p = last \/ (p = last + 1 /\ p \notin hurt),
           ~all[p].ring
    PROVE  SoFar(t, ring, p, <<p, k>>, all, hurt)
  <1> DEFINE n == Len(seq)
             room == n < LOCAL_SCAN - 1
  <1>0. /\ n \in Nat /\ n >= 1 /\ n \in 1 .. n /\ \A i \in 1 .. n : t[i] = seq[i] /\ seq[i] \in Nodes
        /\ room => Len(t) = n + 1 /\ t[n + 1] = node
        /\ ~room => Len(t) = n /\ n = LOCAL_SCAN - 1
    BY DEF NodesOf, Extends
  <1>a. /\ \A i \in 1 .. n : ~HasPoint(seq[i]) => last + 1 \in hurt
        /\ \A i \in 2 .. n : HasPoint(seq[i]) /\ HasPoint(seq[i - 1])
              => seq[i].point = NextPoint(seq[i - 1].point, all)
        /\ \A i \in 1 .. n : HasPoint(seq[i]) => seq[i].point[1] <= last
        /\ room /\ HasPoint(seq[n]) => seq[n].point = end
        /\ \A q \in ring + 1 .. last : ~all[q].ring
    BY DEF SoFar
  <1>b. \A i \in 1 .. n : HasPoint(seq[i]) => seq[i].point[1] \in Nat
    BY <1>0, NodePoint
  <1> HIDE DEF n
  <1>c. ASSUME NEW i \in 1 .. Len(t)
        PROVE  (i \in 1 .. n /\ t[i] = seq[i]) \/ (room /\ i = n + 1 /\ t[i] = node)
    <2>1. CASE i \in 1 .. n
      BY <1>0, <2>1
    <2>2. CASE i \notin 1 .. n
      <3>1. room /\ i = n + 1
        BY <1>0, <2>2
      <3> QED BY <1>0, <3>1
    <2> QED BY <2>1, <2>2
  <1> HIDE DEF room
  <1>1. \A i \in 1 .. Len(t) : ~HasPoint(t[i]) => p + 1 \in hurt
    BY <1>a, <1>c
  <1>2. ASSUME NEW i \in 2 .. Len(t), HasPoint(t[i]), HasPoint(t[i - 1])
        PROVE  t[i].point = NextPoint(t[i - 1].point, all)
    <2>1. i \in 1 .. Len(t)
      OBVIOUS
    <2>2. CASE i \in 1 .. n
      <3>1. i - 1 \in 1 .. n /\ i \in 2 .. n
        BY <1>0, <2>2
      <3> QED BY <1>0, <1>2, <1>a, <2>2, <3>1
    <2>3. CASE room /\ i = n + 1 /\ t[i] = node
      <3>1. i - 1 = n
        BY <1>0, <2>3
      <3>2. t[i - 1] = seq[n]
        BY <1>0, <3>1
      <3>3. seq[n].point = end
        BY <1>2, <1>a, <2>3, <3>2
      <3> QED BY <2>3, <3>2, <3>3
    <2> QED BY <1>c, <2>1, <2>2, <2>3
  <1>3. ASSUME NEW i \in 1 .. Len(t), HasPoint(t[i]) PROVE t[i].point[1] <= p
    <2>1. CASE i \in 1 .. n /\ t[i] = seq[i]
      <3>1. seq[i].point[1] <= last /\ seq[i].point[1] \in Nat
        BY <1>3, <1>a, <1>b, <2>1
      <3> QED BY <2>1, <3>1
    <2>2. CASE t[i] = node
      <3>1. t[i].point[1] = p
        BY <2>2
      <3> QED BY <3>1
    <2> QED BY <1>c, <2>1, <2>2
  <1>4. Len(t) < LOCAL_SCAN - 1 /\ HasPoint(t[Len(t)]) => t[Len(t)].point = <<p, k>>
    <2>1. CASE room
      BY <1>0, <2>1
    <2>2. CASE ~room
      BY <1>0, <2>2
    <2> QED BY <2>1, <2>2
  <1>5. ASSUME NEW q \in ring + 1 .. p PROVE ~all[q].ring
    <2>1. q \in ring + 1 .. last \/ q = p
      OBVIOUS
    <2> QED BY <1>a, <2>1
  <1> QED BY <1>1, <1>2, <1>3, <1>4, <1>5 DEF SoFar

\* A node without a point, gathered or left out.
LEMMA SoFarNoPoint ==
    ASSUME NEW seq, NEW t, NEW all, NEW ring \in Nat, NEW last \in Nat, NEW end, NEW hurt,
           NEW node, ~HasPoint(node), NodesOf(seq, all), Extends(seq, t, node), LOCAL_SCAN \in Nat,
           SoFar(seq, ring, last, end, all, hurt), last + 1 \in hurt
    PROVE  SoFar(t, ring, last, end, all, hurt)
  <1> DEFINE n == Len(seq)
             room == n < LOCAL_SCAN - 1
  <1>0. /\ n \in Nat /\ n >= 1 /\ n \in 1 .. n /\ \A i \in 1 .. n : t[i] = seq[i] /\ seq[i] \in Nodes
        /\ room => Len(t) = n + 1 /\ t[n + 1] = node
        /\ ~room => Len(t) = n /\ n = LOCAL_SCAN - 1
    BY DEF NodesOf, Extends
  <1>a. /\ \A i \in 2 .. n : HasPoint(seq[i]) /\ HasPoint(seq[i - 1])
              => seq[i].point = NextPoint(seq[i - 1].point, all)
        /\ \A i \in 1 .. n : HasPoint(seq[i]) => seq[i].point[1] <= last
        /\ \A q \in ring + 1 .. last : ~all[q].ring
    BY DEF SoFar
  <1> HIDE DEF n
  <1>c. ASSUME NEW i \in 1 .. Len(t)
        PROVE  (i \in 1 .. n /\ t[i] = seq[i]) \/ (room /\ i = n + 1 /\ t[i] = node)
    <2>1. CASE i \in 1 .. n
      BY <1>0, <2>1
    <2>2. CASE i \notin 1 .. n
      <3>1. room /\ i = n + 1
        BY <1>0, <2>2
      <3> QED BY <1>0, <3>1
    <2> QED BY <2>1, <2>2
  <1>2. ASSUME NEW i \in 2 .. Len(t), HasPoint(t[i]), HasPoint(t[i - 1])
        PROVE  t[i].point = NextPoint(t[i - 1].point, all)
    <2>1. i \in 1 .. Len(t)
      OBVIOUS
    <2>2. i \in 1 .. n
      BY <1>2, <1>c, <2>1
    <2>3. i - 1 \in 1 .. n /\ i \in 2 .. n
      BY <1>0, <2>2
    <2> QED BY <1>0, <1>2, <1>a, <2>2, <2>3
  <1>3. \A i \in 1 .. Len(t) : HasPoint(t[i]) => t[i].point[1] <= last
    BY <1>a, <1>c
  <1>4. Len(t) < LOCAL_SCAN - 1 => ~HasPoint(t[Len(t)])
    BY <1>0
  <1> QED BY <1>2, <1>3, <1>4, <1>a DEF SoFar

\* The ring start behind the last point closes it.
LEMMA SoFarCloses ==
    ASSUME NEW seq, NEW all, NEW ring \in Nat, NEW last \in Nat, NEW end, NEW hurt,
           NodesOf(seq, all), LOCAL_SCAN \in Nat, Len(seq) < LOCAL_SCAN,
           SoFar(seq, ring, last, end, all, hurt), last + 1 \notin hurt,
           end = <<last, Len(all[last].samples)>>, Len(all[last].samples) \in Nat,
           seq[1].point = <<ring, 1>>
    PROVE  OneRevolution(seq, last + 1, all)
  <1>0. Len(seq) \in Nat /\ Len(seq) >= 1 /\ Len(seq) \in 1 .. Len(seq)
        /\ \A i \in 1 .. Len(seq) : HasPoint(seq[i]) /\ seq[i] \in Nodes
    BY DEF NodesOf, SoFar
  <1>1. ASSUME NEW i \in 2 .. Len(seq) PROVE seq[i].point = NextPoint(seq[i - 1].point, all)
    <2>1. i \in 1 .. Len(seq) /\ i - 1 \in 1 .. Len(seq)
      BY <1>0
    <2> QED BY <1>0, <2>1 DEF SoFar
  <1>2. NextPoint(end, all) = <<last + 1, 1>>
    BY DEF NextPoint
  <1>3. Len(seq) < LOCAL_SCAN - 1 => NextPoint(seq[Len(seq)].point, all) = <<last + 1, 1>>
    BY <1>0, <1>2 DEF SoFar
  <1>4. ~(Len(seq) < LOCAL_SCAN - 1) => Len(seq) = LOCAL_SCAN - 1 /\ seq[Len(seq)].point[1] < last + 1
    <2>1. seq[Len(seq)].point[1] <= last /\ seq[Len(seq)].point[1] \in Nat
      BY <1>0, NodePoint DEF SoFar
    <2> QED BY <1>0, <2>1
  <1>5. ASSUME NEW p \in seq[1].point[1] + 1 .. last + 1 - 1 PROVE ~all[p].ring
    <2>1. p \in ring + 1 .. last
      OBVIOUS
    <2> QED BY <2>1 DEF SoFar
  <1>6. seq[1].point[2] = 1
    OBVIOUS
  <1> QED BY <1>1, <1>3, <1>4, <1>5, <1>6 DEF OneRevolution

\* The nodes gathered since a ring start, and what a step that reports none leaves of it.
LEMMA GatheredNodes ==
    ASSUME Types, Control, RingStarts, NodesSent, PointsBehind, Open
    PROVE  /\ NodesOf(Gathered, sent) /\ Gathered[1] = local_scan[1] /\ HasPoint(Gathered[1])
           /\ Gathered[1].point = <<OpenRing, 1>> /\ OpenRing \in Nat
           /\ LOCAL_SCAN \in Nat /\ Len(Gathered) < LOCAL_SCAN
  <1>1. /\ Gathered \in Seq(Nodes) /\ Len(Gathered) \in Nat /\ Len(Gathered) < LOCAL_SCAN /\ LOCAL_SCAN \in Nat
        /\ Gathered # <<>> /\ Gathered[1] = local_scan[1]
    BY GatheredFacts
  <1>2. Len(Gathered) >= 1
    BY <1>1, FrontFacts
  <1>3. \A i \in 1 .. Len(Gathered) : Gathered[i] \in Nodes
    BY <1>1, ElementOfSeq
  <1>4. AllSent(Gathered, sent)
    BY GatheredSent
  <1> QED BY <1>1, <1>2, <1>3, <1>4, OpenFacts DEF NodesOf

LEMMA SentGrows ==
    ASSUME Types, Types', Control, Origins, Next
    PROVE  MoreSent(sent, sent') /\ harmed \subseteq harmed' /\ Len(sent) \in Nat
           /\ \A a, b : Unharmed(a, b, harmed') => Unharmed(a, b, harmed)
  BY Progress DEF MoreSent, Unharmed

\* The points and packages a ring start or another sample is reported behind.
LEMMA ReportFacts ==
    ASSUME Types, Control, WholePackage, PointsBehind, LastPoint, CheckSumResult, got # <<>>,
           NEW ring \in Nat, ring <= Reported, Unharmed(ring, Current, harmed)
    PROVE  /\ Reported \in Nat /\ Current \in Nat /\ Reported <= Len(sent)
           /\ Unharmed(ring, Reported, harmed)
           /\ NextPoint(got[Len(got)], sent) = <<Current, package_Sample_Index + 1>>
           /\ Current = Reported \/ (Current = Reported + 1 /\ Current \notin harmed)
           /\ package_Sample_Index = 0 =>
                /\ Current = Reported + 1 /\ Current \notin harmed
                /\ got[Len(got)] = <<Reported, Len(sent[Reported].samples)>>
                /\ Len(sent[Reported].samples) \in Nat
  <1>1. /\ Reported \in Nat /\ Reported = got[Len(got)][1] /\ Len(got) \in 1 .. Len(got)
        /\ Reported \in 1 .. Len(sent)
    BY ReportedFacts
  <1>2. /\ Current \in Nat /\ Current \in 1 .. Len(sent) /\ package.samples = Len(sent[Current].samples)
        /\ package_Sample_Index \in Nat /\ package_Sample_Index < package.samples /\ package.samples \in Nat
    BY CurrentFacts
  <1>3. got[Len(got)] = <<Reported, got[Len(got)][2]>>
    BY <1>1, PointFacts
  <1>4. CASE package_Sample_Index > 0
    <2>1. got[Len(got)] = <<Current, package_Sample_Index>>
      BY <1>4 DEF LastPoint
    <2>2. Current = Reported
      BY <1>1, <2>1
    <2>3. NextPoint(got[Len(got)], sent) = <<Current, package_Sample_Index + 1>>
      BY <1>2, <2>1 DEF NextPoint
    <2> QED BY <1>1, <1>2, <1>4, <2>2, <2>3
  <1>5. CASE package_Sample_Index = 0
    <2>1. Reported < Current /\ (Reported + 1 \notin harmed => Current = Reported + 1)
      BY <1>5 DEF LastPoint
    <2>2. Reported + 1 \in ring .. Current /\ Current \in ring .. Current
      BY <1>1, <1>2, <2>1
    <2>3. Reported + 1 \notin harmed /\ Current \notin harmed /\ Current = Reported + 1
      BY <2>1, <2>2 DEF Unharmed
    <2>4. Unharmed(ring, Reported, harmed)
      <3>1. \A q \in ring .. Reported : q \in ring .. Current
        BY <1>1, <1>2, <2>1
      <3> QED BY <3>1 DEF Unharmed
    <2>5. got[Len(got)][2] = Len(sent[got[Len(got)][1]].samples)
      BY <1>5 DEF LastPoint
    <2>6. got[Len(got)] = <<Reported, Len(sent[Reported].samples)>>
      BY <1>1, <1>3, <2>5
    <2>7. Len(sent[Reported].samples) \in Nat
      <3>1. sent[Reported] \in KINDS
        BY <1>1, ElementOfSeq DEF Types
      <3> QED BY <3>1, KindFacts
    <2>8. NextPoint(got[Len(got)], sent) = <<Current, package_Sample_Index + 1>>
      BY <1>5, <2>3, <2>6, <2>7 DEF NextPoint
    <2> QED BY <1>1, <1>2, <2>3, <2>4, <2>6, <2>7, <2>8
  <1> QED BY <1>2, <1>4, <1>5

LEMMA OpenScanNext ==
    ASSUME Types, Types', Control, Control', Origins, WholePackage, PointsBehind, LastPoint, Aligned,
           RingStarts, NodesSent, OpenScan, Next
    PROVE  OpenScan'
  <1> SUFFICES ASSUME Open', ~Pending', NEW ring, NEW last, NEW end, NEW t,
                      ring = OpenRing', last = Reported', end = got'[Len(got')], t = Gathered',
                      Unharmed(ring, last, harmed')
               PROVE  SoFar(t, ring, last, end, sent', harmed')
    BY DEF OpenScan
  <1>0. MoreSent(sent, sent') /\ harmed \subseteq harmed' /\ Len(sent) \in Nat
        /\ Unharmed(ring, last, harmed)
    BY SentGrows
  <1>1. CASE Collect /\ Pending
    <2>1. local_scan' = <<local_buf[Len(local_buf)]>> /\ got' = got /\ Len(t) = 1 /\ t[1] = local_buf[Len(local_buf)]
      BY <1>1, CollectFacts, GatheredNext
    <2>2. /\ local_buf[Len(local_buf)].point = <<Reported, 1>> /\ HasPoint(local_buf[Len(local_buf)])
          /\ Reported \in Nat
      BY <1>1, OpenFacts
    <2>3. ring = Reported /\ last = Reported
      BY <2>1, <2>2 DEF OpenRing, Reported
    <2>4. t[1].point = end
      BY <1>1, <2>1 DEF RingStarts
    <2>5. \A i \in 1 .. Len(t) : i = 1
      BY <2>1
    <2>6. \A i \in 2 .. Len(t) : FALSE
      BY <2>1
    <2>7. \A p \in ring + 1 .. last : FALSE
      BY <2>2, <2>3
    <2>8. t[1].point[1] <= last
      BY <2>1, <2>2, <2>3
    <2> QED BY <2>1, <2>2, <2>4, <2>5, <2>6, <2>7, <2>8 DEF SoFar
  <1>2. CASE ~(Collect /\ Pending)
    <2>1. Open /\ ~Pending /\ ring = OpenRing
      <3>1. CASE EmitNode
        BY <3>1, EmitNodeFacts DEF OpenRing
      <3>2. CASE Collect
        <4>1. local_scan' = Gathered /\ ~Pending
          BY <1>2, <3>2, CollectFacts
        <4>2. Open
          BY <4>1, GatheredFacts DEF Open
        <4> QED BY <4>1, <4>2, GatheredFacts DEF OpenRing
      <3>3. CASE ~EmitNode /\ ~Collect
        <4>1. Open' = Open /\ Pending' = Pending /\ local_scan' = local_scan
          BY <3>3, NodesStay
        <4>2. OpenRing' = OpenRing
          BY <4>1 DEF OpenRing
        <4> QED BY <4>1, <4>2
      <3> QED BY <3>1, <3>2, <3>3
    <2>2. /\ NodesOf(Gathered, sent) /\ ring \in Nat /\ got # <<>> /\ ring <= Reported
          /\ LOCAL_SCAN \in Nat /\ Reported \in Nat /\ Reported <= Len(sent)
      <3>1. ring \in Nat /\ got # <<>> /\ ring <= Reported
        BY <2>1, OpenFacts
      <3>2. Reported \in 1 .. Len(sent) /\ Reported \in Nat
        BY <3>1, ReportedFacts
      <3> QED BY <1>0, <2>1, <3>1, <3>2, GatheredNodes
    <2>3. Unharmed(ring, Reported, harmed) => SoFar(Gathered, ring, Reported, got[Len(got)], sent, harmed)
      BY <2>1 DEF OpenScan
    <2>4. CASE EmitNode /\ CheckSumResult
      <3>1. /\ ~Node.sync /\ Node \in Nodes /\ (Node.sync <=> package.ring /\ CheckSumResult)
            /\ UNCHANGED <<sent, harmed>>
        BY <2>4, EmitNodeFacts, EmitFacts
      <3>2. /\ HasPoint(Node) /\ Node.point = <<Current, package_Sample_Index + 1>>
            /\ Current \in Nat /\ package.ring = sent[Current].ring
        BY <2>4, NodeFacts, CurrentFacts
      <3>3. end = <<Current, package_Sample_Index + 1>> /\ last = Current
        <4>1. Len(got') = Len(got) + 1 /\ got'[Len(got) + 1] = <<Current, package_Sample_Index + 1>>
              /\ Len(got) \in Nat
          BY <2>4, EmitFacts
        <4>2. got' # <<>>
          BY <4>1, EmptySeq
        <4> QED BY <4>1, <4>2 DEF Reported
      <3>4. Extends(Gathered, t, Node)
        BY <2>4, <3>1, GatheredNext DEF Extends
      <3>5. /\ Unharmed(ring, Reported, harmed)
            /\ NextPoint(got[Len(got)], sent) = <<Current, package_Sample_Index + 1>>
            /\ Current = Reported \/ (Current = Reported + 1 /\ Current \notin harmed)
        BY <1>0, <2>2, <2>4, <3>3, ReportFacts
      <3>6. SoFar(Gathered, ring, Reported, got[Len(got)], sent, harmed)
        BY <2>3, <3>5
      <3>7. ~sent[Current].ring
        BY <2>4, <3>1, <3>2
      <3>8. SoFar(t, ring, Current, <<Current, package_Sample_Index + 1>>, sent, harmed)
        BY <2>2, <3>2, <3>4, <3>5, <3>6, <3>7, SoFarPoint
      <3> QED BY <3>1, <3>3, <3>8
    <2>5. CASE ~(EmitNode /\ CheckSumResult)
      <3>1. got' = got /\ last = Reported /\ end = got[Len(got)]
        <4>1. got' = got
          <5>1. CASE EmitNode
            BY <2>5, <5>1, EmitFacts
          <5>2. CASE ReadPayload
            BY <5>2, ReadPayloadFacts
          <5>3. CASE ~EmitNode /\ ~ReadPayload
            BY <5>3, OtherSteps
          <5> QED BY <5>1, <5>2, <5>3
        <4> QED BY <4>1 DEF Reported
      <3>2. SoFar(Gathered, ring, last, end, sent, harmed)
        BY <1>0, <2>3, <3>1
      <3>3. CASE EmitNode
        <4>1. ~CheckSumResult /\ at = "node" /\ ~HasPoint(Node) /\ ~Node.sync /\ UNCHANGED <<sent, harmed>>
          BY <2>5, <3>3, NodeFacts, EmitFacts
        <4>2. last + 1 \in harmed
          <5>1. Fitted = Reported
            BY <4>1 DEF Fitted
          <5> QED BY <3>1, <4>1, <5>1 DEF Aligned
        <4>3. Extends(Gathered, t, Node)
          BY <3>3, <4>1, GatheredNext DEF Extends
        <4>4. SoFar(t, ring, last, end, sent, harmed)
          BY <2>2, <3>1, <3>2, <4>1, <4>2, <4>3, SoFarNoPoint
        <4> QED BY <4>1, <4>4
      <3>4. CASE ~EmitNode
        <4>1. SameNodes(Gathered, t)
          BY <1>2, <3>4, GatheredNext DEF SameNodes, GatheredSame
        <4> QED BY <1>0, <2>2, <3>1, <3>2, <4>1, SoFarStays
      <3> QED BY <3>3, <3>4
    <2> QED BY <2>4, <2>5
  <1> QED BY <1>1, <1>2

LEMMA ClosedScanNext ==
    ASSUME Types, Types', Control, Control', Origins, WholePackage, PointsBehind, LastPoint, Aligned,
           RingStarts, NodesSent, OpenScan, ClosedScan, Next
    PROVE  ClosedScan'
  <1>0. MoreSent(sent, sent') /\ harmed \subseteq harmed' /\ Len(sent) \in Nat
        /\ \A a, b : Unharmed(a, b, harmed') => Unharmed(a, b, harmed)
    BY SentGrows
  <1>1. ASSUME Open', Pending', NEW ring, NEW last, NEW t,
               ring = OpenRing', last = PendingRing', t = Gathered', Unharmed(ring, last, harmed')
        PROVE  OneRevolution(t, last, sent')
    <2>1. ~Collect
      BY <1>1, CollectFacts
    <2>2. Open /\ ring = OpenRing
      BY <1>1, <2>1, EmitNodeFacts, NodesStay DEF OpenRing
    <2>3. /\ NodesOf(Gathered, sent) /\ ring \in Nat /\ HasPoint(Gathered[1]) /\ Gathered[1].point = <<ring, 1>>
          /\ LOCAL_SCAN \in Nat /\ Len(Gathered) < LOCAL_SCAN
      BY <2>2, GatheredNodes
    <2>4. CASE EmitNode
      <3>1. /\ Node.sync /\ ~Pending /\ local_buf'[Len(local_buf')] = Node /\ CheckSumResult
            /\ package_Sample_Index = 0 /\ Node.point = <<Current, 1>> /\ sent' = sent
        BY <1>1, <2>4, EmitNodeFacts, EmitFacts
      <3>2. last = Current
        BY <1>1, <3>1 DEF PendingRing
      <3>3. got # <<>> /\ ring <= Reported /\ Unharmed(ring, Current, harmed)
        BY <1>0, <1>1, <2>2, <3>2, OpenFacts
      <3>4. /\ Reported \in Nat /\ Current = Reported + 1 /\ Current \notin harmed
            /\ Unharmed(ring, Reported, harmed)
            /\ got[Len(got)] = <<Reported, Len(sent[Reported].samples)>>
            /\ Len(sent[Reported].samples) \in Nat
        BY <2>3, <3>1, <3>3, ReportFacts
      <3>5. SoFar(Gathered, ring, Reported, got[Len(got)], sent, harmed)
        BY <2>2, <3>1, <3>4 DEF OpenScan
      <3>6. OneRevolution(Gathered, last, sent)
        BY <2>3, <3>2, <3>4, <3>5, SoFarCloses
      <3>7. SameNodes(Gathered, t)
        BY <1>1, <2>4, <3>1, GatheredNext DEF GatheredSame, SameNodes
      <3>8. last \in Nat /\ last <= Len(sent)
        BY <1>0, <3>1, <3>2, CurrentFacts
      <3> QED BY <1>0, <2>3, <3>6, <3>7, <3>8, RevolutionStays
    <2>5. CASE ~EmitNode
      <3>1. Pending /\ last = PendingRing /\ t = Gathered
        BY <1>1, <2>1, <2>5, NodesStay, GatheredNext DEF PendingRing
      <3>2. OneRevolution(Gathered, last, sent)
        BY <1>0, <1>1, <2>2, <3>1 DEF ClosedScan
      <3>3. last \in Nat /\ last <= Len(sent)
        <4>1. last = Reported /\ last \in Nat /\ got # <<>>
          BY <2>2, <3>1, OpenFacts
        <4> QED BY <1>0, <4>1, ReportedFacts
      <3>4. SameNodes(Gathered, t)
        BY <3>1 DEF SameNodes
      <3> QED BY <1>0, <2>3, <3>2, <3>3, <3>4, RevolutionStays
    <2> QED BY <2>4, <2>5
  <1>2. ASSUME HasScan', NEW opened, NEW closed, NEW t,
               opened = Opened', closed = scan'.closedBy, t = scan'.nodes, Unharmed(opened, closed, harmed')
        PROVE  OneRevolution(t, closed, sent')
    <2>1. CASE Collect /\ Pending /\ Open
      <3>1. t = Gathered /\ closed = PendingRing /\ sent' = sent
        BY <1>2, <2>1, CollectFacts
      <3>2. Gathered[1].point = <<OpenRing, 1>>
        BY <2>1, GatheredNodes
      <3>3. opened = OpenRing
        <4>1. opened = t[1].point[1]
          BY <1>2 DEF Opened
        <4> QED BY <3>1, <3>2, <4>1
      <3> QED BY <1>0, <1>2, <2>1, <3>1, <3>3 DEF ClosedScan
    <2>2. CASE ~(Collect /\ Pending /\ Open)
      <3>1. scan' = scan
        <4>1. CASE Collect
          BY <2>2, <4>1, CollectFacts
        <4>2. CASE EmitNode
          BY <4>2, EmitNodeFacts
        <4>3. CASE ~EmitNode /\ ~Collect
          BY <4>3, NodesStay
        <4> QED BY <4>1, <4>2, <4>3
      <3>2. HasScan /\ opened = Opened /\ closed = scan.closedBy /\ t = scan.nodes
        BY <1>2, <3>1 DEF HasScan, Opened
      <3>3. OneRevolution(t, closed, sent)
        BY <1>0, <1>2, <3>2 DEF ClosedScan
      <3>4. t # <<>> /\ HasPoint(t[1]) /\ closed <= Len(sent) /\ AllSent(t, sent)
        BY <3>2 DEF NodesSent
      <3>5. t \in Seq(Nodes) /\ closed \in Nat
        BY <3>2 DEF Types
      <3>6. NodesOf(t, sent)
        <4>1. Len(t) \in Nat /\ Len(t) >= 1
          BY <3>4, <3>5, FrontFacts
        <4>2. \A i \in 1 .. Len(t) : t[i] \in Nodes
          BY <3>5, ElementOfSeq
        <4> QED BY <3>4, <4>1, <4>2 DEF NodesOf
      <3>7. SameNodes(t, t)
        BY DEF SameNodes
      <3> QED BY <1>0, <3>3, <3>4, <3>5, <3>6, <3>7, RevolutionStays
    <2> QED BY <2>1, <2>2
  <1> QED BY <1>1, <1>2 DEF ClosedScan

-----------------------------------------------------------------------------
(* The stamps.                                                             *)

\* What is behind the header is younger than the start, and so is what comes.
LaterIn(s, h, start) == \A i \in 1 .. Len(s) : i > h => start < Stamp(s[i])

LEMMA LaterDrops ==
    ASSUME NEW s, NEW t, NEW h \in Nat, NEW g \in Nat, NEW n, NEW start,
           Len(s) \in Nat, Dropped(s, t, n), h <= g + n, LaterIn(s, h, start)
    PROVE  LaterIn(t, g, start)
  <1> SUFFICES ASSUME NEW i \in 1 .. Len(t), i > g PROVE start < Stamp(t[i])
    BY DEF LaterIn
  <1>1. /\ n \in Nat /\ Len(t) = Len(s) - n /\ t[i] = s[i + n]
    BY DEF Dropped
  <1>2. i + n \in 1 .. Len(s) /\ i + n > h
    BY <1>1
  <1> QED BY <1>1, <1>2 DEF LaterIn

LEMMA LaterGrows ==
    ASSUME NEW s, NEW t, NEW h, NEW start, NEW byte, Len(s) \in Nat,
           Grown(s, t, byte), start < Stamp(byte), LaterIn(s, h, start)
    PROVE  LaterIn(t, h, start)
  <1> SUFFICES ASSUME NEW i \in 1 .. Len(t), i > h PROVE start < Stamp(t[i])
    BY DEF LaterIn
  <1>1. Len(t) = Len(s) + 1 /\ t[Len(s) + 1] = byte /\ \A j \in 1 .. Len(s) : t[j] = s[j]
    BY DEF Grown
  <1>2. CASE i = Len(s) + 1
    BY <1>1, <1>2
  <1>3. CASE i # Len(s) + 1
    <2>1. i \in 1 .. Len(s)
      BY <1>1, <1>3
    <2> QED BY <1>1, <2>1 DEF LaterIn
  <1> QED BY <1>2, <1>3

\* The steps that set no stamp.
LEMMA TimStays ==
    ASSUME Next, ~ParseHeader, ~Collect
    PROVE  tim_scan' = tim_scan
  BY DEF Next, BeginPackage, ByteArrives, ByteHarmed, ReadHeader, ReadPayload, WaitTimesOut, EmitNode,
         CallTimesOut, Listen, Flush, parserVars

\* How much of the stream the reader takes when it sets no stamp.
LEMMA ReaderDrops ==
    ASSUME Types, Types', Control, ReaderStep, ~ParseHeader
    PROVE  \E n \in Nat : Drops(n) /\ Len(header) <= Len(header') + n
  <1>0. Len(header) \in Nat /\ Len(header') \in Nat
    BY StreamFacts, StreamFactsNext
  <1>1. CASE ReadHeader
    BY <1>0, <1>1, ReadHeaderDrops DEF ReadHeader
  <1>2. CASE ReadPayload
    <2>1. /\ Len(header) = 10 /\ Drops(10 + header[4].value * PackageSampleBytes)
          /\ header[4].value * PackageSampleBytes \in Nat
      BY <1>2, ReadPayloadDrops
    <2>2. 10 + header[4].value * PackageSampleBytes \in Nat
          /\ Len(header) <= Len(header') + (10 + header[4].value * PackageSampleBytes)
      BY <1>0, <2>1
    <2> QED BY <2>1, <2>2
  <1>3. CASE WaitTimesOut
    BY <1>0, <1>3, WaitTimesOutDrops
  <1>4. CASE EmitNode \/ CallTimesOut \/ Collect \/ Listen
    <2>1. UNCHANGED <<header, globalRecvBuffer, line>>
      BY <1>4 DEF EmitNode, CallTimesOut, Collect, Listen, parserVars
    <2> QED BY <1>0, <2>1, StreamKept
  <1> QED BY <1>1, <1>2, <1>3, <1>4 DEF ReaderStep

\* A byte looked at and kept.
LEMMA KeptFacts ==
    ASSUME Types, Types', Control, Origins, ParseHeader, KeepsByte
    PROVE  LET byte == Head(globalRecvBuffer)
               h    == Len(header)
           IN  /\ byte \in Bytes /\ byte = Stream[h + 1] /\ h + 1 \in 1 .. Len(Stream) /\ h \in Nat
               /\ Len(header') = h + 1 /\ header'[h + 1] = byte
               /\ \A i \in 1 .. h : header'[i] = header[i]
               /\ Drops(0) /\ Len(Stream') = Len(Stream) /\ \A i \in 1 .. Len(Stream) : Stream'[i] = Stream[i]
               /\ Stamp(byte) \in Nat /\ Stamp(byte) <= 1000 * Len(sent) + position
               /\ Stamp(byte) > 0
  <1> DEFINE byte == Head(globalRecvBuffer)
             h    == Len(header)
  <1>1. /\ byte = Stream[h + 1] /\ h + 1 <= Len(Stream) /\ h \in Nat /\ Len(Stream) \in Nat
        /\ Drops(0)
    BY ParseHeaderDrops, StreamFacts DEF KeepsByte
  <1>2. h + 1 \in 1 .. Len(Stream)
    BY <1>1
  <1>3. byte \in Bytes
    BY <1>1, <1>2, StreamFacts
  <1>4. header' = Append(header, byte) /\ header \in Seq(Bytes)
    BY DEF KeepsByte, Types
  <1>5. Len(header') = h + 1 /\ header'[h + 1] = byte /\ \A i \in 1 .. h : header'[i] = header[i]
    BY <1>3, <1>4, AppendFacts
  <1>6. Len(Stream') = Len(Stream) /\ \A i \in 1 .. Len(Stream) : Stream'[i] = Stream[i]
    BY <1>1 DEF Drops, Dropped
  <1> DEFINE p == Stream[h + 1].package
             n == Stream[h + 1].place
  <1>7. /\ p \in Nat /\ 1 <= p /\ p <= Len(sent) /\ n \in Nat /\ n <= 775
        /\ Stamp(Stream[h + 1]) = 1000 * p + n /\ Len(sent) \in Nat /\ position \in Nat
        /\ p < Len(sent) \/ (p = Len(sent) /\ n <= position)
    BY <1>2, InOrderFacts, OriginFacts
  <1> HIDE DEF p, n
  <1>8. Stamp(Stream[h + 1]) \in Nat /\ Stamp(Stream[h + 1]) <= 1000 * Len(sent) + position
        /\ Stamp(Stream[h + 1]) > 0
    BY <1>7
  <1> QED BY <1>1, <1>2, <1>3, <1>5, <1>6, <1>8

LEMMA LaterNext ==
    ASSUME Types, Types', Control, Origins, WholePackage, PointsBehind, RingStarts, Stamps, Next
    PROVE  /\ LaterIn(Stream', Len(header'), tim_scan'.start)
           /\ tim_scan'.start <= 1000 * Len(sent') + position'
  <1>0. /\ LaterIn(Stream, Len(header), tim_scan.start)
        /\ tim_scan.start <= 1000 * Len(sent) + position
        /\ tim_scan.start \in Nat /\ Len(sent) \in Nat /\ position \in Nat
        /\ Len(Stream) \in Nat /\ Len(header) \in Nat /\ Len(header') \in Nat
    <2>1. Len(Stream) \in Nat /\ Len(header) \in Nat /\ Len(header') \in Nat
      BY StreamFacts, StreamFactsNext
    <2>2. LaterIn(Stream, Len(header), tim_scan.start)
      BY DEF Stamps, LaterIn
    <2>3. tim_scan.start <= 1000 * Len(sent) + position
      BY DEF Stamps
    <2>4. tim_scan.start \in Nat /\ position \in Nat
      BY DEF Types
    <2>5. Len(sent) \in Nat
      BY InOrderFacts, OriginFacts
    <2> QED BY <2>1, <2>2, <2>3, <2>4, <2>5
  <1>1. CASE ParseHeader
    <2>0. UNCHANGED <<sent, position>>
      BY <1>1 DEF ParseHeader, lidarVars
    <2>1. CASE KeepsByte
      <3> DEFINE byte == Head(globalRecvBuffer)
      <3>1. /\ byte \in Bytes /\ byte = Stream[Len(header) + 1] /\ Len(header) + 1 \in 1 .. Len(Stream)
            /\ Len(header') = Len(header) + 1 /\ Drops(0)
            /\ Len(Stream') = Len(Stream) /\ \A i \in 1 .. Len(Stream) : Stream'[i] = Stream[i]
            /\ Stamp(byte) \in Nat /\ Stamp(byte) <= 1000 * Len(sent) + position
        BY <1>1, <2>1, KeptFacts
      <3>2. LaterIn(Stream', Len(header'), tim_scan.start)
        BY <1>0, <3>1, LaterDrops DEF Drops
      <3>3. tim_scan' = IF Len(header) = 2 THEN RingStamp(tim_scan, byte) ELSE tim_scan
        BY <2>1 DEF KeepsByte
      <3> HIDE DEF byte
      <3>4. tim_scan'.start = tim_scan.start \/ tim_scan'.start = Stamp(byte)
        BY <3>1, <3>3, RingStampFacts
      <3>5. LaterIn(Stream', Len(header'), Stamp(byte))
        <4> SUFFICES ASSUME NEW i \in 1 .. Len(Stream'), i > Len(header') PROVE Stamp(byte) < Stamp(Stream'[i])
          BY DEF LaterIn
        <4>1. i \in 1 .. Len(Stream) /\ Len(header) + 1 < i /\ Stream'[i] = Stream[i]
          BY <1>0, <3>1
        <4> QED BY <3>1, <4>1 DEF Origins, OriginsIn
      <3> QED BY <1>0, <2>0, <3>1, <3>2, <3>4, <3>5
    <2>2. CASE StartsOver
      <3>1. header' = <<>> /\ tim_scan' = tim_scan
        BY <2>2 DEF StartsOver
      <3>2. Drops(Len(header) + 1)
        BY <1>1, <3>1, ParseHeaderDrops
      <3>3. Len(header) <= Len(header') + (Len(header) + 1)
        BY <1>0
      <3> QED BY <1>0, <2>0, <3>1, <3>2, <3>3, LaterDrops DEF Drops
    <2> QED BY <1>1, <2>1, <2>2, ParseHeaderCases
  <1>2. CASE Collect
    <2>1. /\ UNCHANGED <<sent, position, header, globalRecvBuffer, line>>
          /\ tim_scan' = IF Pending /\ Open THEN [tim_scan EXCEPT !.start = tim_scan.end] ELSE tim_scan
      BY <1>2, CollectFacts
    <2>2. Stream' = Stream
      BY <2>1, StreamKept
    <2>3. CASE Pending /\ Open
      <3> DEFINE R == PendingRing
      <3>1. /\ R = Reported /\ R \in Nat /\ got # <<>>
        BY <2>3, OpenFacts
      <3>2. R \in 1 .. Len(sent) /\ Done(R)
        BY <3>1, ReportedFacts
      <3>3. tim_scan'.start = 1000 * R + 3
        <4>1. tim_scan.end = 1000 * R + 3
          BY <2>3 DEF Stamps, StampSet
        <4>2. tim_scan'.start = tim_scan.end
          BY <2>1, <2>3 DEF Types
        <4> QED BY <4>1, <4>2
      <3> HIDE DEF R
      <3>4. ASSUME NEW i \in 1 .. Len(Stream) PROVE 1000 * R + 3 < Stamp(Stream[i])
        <4>1. Stream[i].package > R
          BY <3>2 DEF Done
        <4>2. /\ Stream[i].package \in Nat /\ Stream[i].place \in Nat
              /\ Stamp(Stream[i]) = 1000 * Stream[i].package + Stream[i].place
          BY InOrderFacts, OriginFacts
        <4> QED BY <3>1, <4>1, <4>2
      <3>5. 1000 * R + 3 <= 1000 * Len(sent) + position
        <4>1. HasLeft(R, Size(sent[R]), sent, position)
          BY <3>2 DEF Done
        <4>2. Size(sent[R]) \in Nat /\ Size(sent[R]) >= 13
          BY <3>2, InOrderFacts, OriginFacts
        <4> QED BY <1>0, <3>1, <4>1, <4>2 DEF HasLeft
      <3> QED BY <2>1, <2>2, <3>3, <3>4, <3>5 DEF LaterIn
    <2>4. CASE ~(Pending /\ Open)
      BY <1>0, <2>1, <2>2, <2>4
    <2> QED BY <2>3, <2>4
  <1>3. CASE ReaderStep /\ ~ParseHeader /\ ~Collect
    <2>1. PICK n \in Nat : Drops(n) /\ Len(header) <= Len(header') + n
      BY <1>3, ReaderDrops
    <2>2. UNCHANGED <<sent, position, tim_scan>>
      BY <1>3, ReaderStepFacts, TimStays
    <2> QED BY <1>0, <2>1, <2>2, LaterDrops DEF Drops
  <1>4. CASE ~ReaderStep
    <2>1. BeginPackage \/ ByteArrives \/ ByteHarmed \/ Flush
      BY <1>4 DEF Next, ReaderStep
    <2>2. UNCHANGED <<header, globalRecvBuffer, tim_scan>>
      BY <2>1 DEF BeginPackage, ByteArrives, ByteHarmed, Flush, parserVars
    <2>3. sent # <<>> => /\ Len(sent) >= 1 /\ Last(sent) = sent[Len(sent)]
                         /\ Size(sent[Len(sent)]) \in Nat /\ position <= Size(sent[Len(sent)])
                         /\ Size(sent[Len(sent)]) <= 775
      BY InOrderFacts, OriginFacts
    <2>4. CASE BeginPackage
      <3>1. position' = 0 /\ line' = line /\ \E kind \in KINDS : sent' = Append(sent, kind)
        BY <2>4 DEF BeginPackage
      <3>2. Len(sent') = Len(sent) + 1 /\ Stream' = Stream
        BY <2>2, <3>1 DEF Types, Stream
      <3>3. position <= 775
        <4>1. CASE sent = <<>>
          BY <4>1 DEF Origins, OriginsIn
        <4>2. CASE sent # <<>>
          BY <1>0, <2>3, <4>2
        <4> QED BY <4>1, <4>2
      <3>4. tim_scan.start <= 1000 * Len(sent') + position'
        BY <1>0, <3>1, <3>2, <3>3
      <3> QED BY <1>0, <2>2, <3>2, <3>4
    <2>5. CASE ByteArrives
      <3>1. PackageUnderWay /\ position' = position + 1 /\ sent' = sent /\ line' = Append(line, NextByte)
        BY <2>5 DEF ByteArrives
      <3>2. /\ NextByte \in Bytes /\ NextByte.package = Len(sent) /\ NextByte.place = position + 1
        BY <3>1, NextByteFacts DEF ComesFrom
      <3>3. Grows(NextByte)
        BY <2>2, <3>1, <3>2, ArrivalGrows
      <3>4. tim_scan.start < Stamp(NextByte)
        BY <1>0, <3>2 DEF Stamp
      <3>5. LaterIn(Stream', Len(header), tim_scan.start)
        BY <1>0, <3>3, <3>4, LaterGrows DEF Grows
      <3> QED BY <1>0, <2>2, <3>1, <3>5
    <2>6. CASE ByteHarmed
      <3>1. position' = position + 1 /\ sent' = sent
        BY <2>6 DEF ByteHarmed
      <3>2. LaterIn(Stream', Len(header), tim_scan.start)
        <4>1. CASE Stream' = Stream
          BY <1>0, <4>1
        <4>2. CASE Stream' # Stream
          <5>1. PICK byte \in Bytes : Grows(byte) /\ ComesFrom(byte, Len(sent), position + 1)
            BY <2>6, <4>2, ByteHarmedCases
          <5>2. tim_scan.start < Stamp(byte)
            BY <1>0, <5>1 DEF Stamp, ComesFrom
          <5> QED BY <1>0, <5>1, <5>2, LaterGrows DEF Grows
        <4> QED BY <4>1, <4>2
      <3> QED BY <1>0, <2>2, <3>1, <3>2
    <2>7. CASE Flush
      <3>1. /\ at = "judge" /\ sent # <<>> /\ line' = <<>> /\ position' = Size(Last(sent)) /\ sent' = sent
        BY <2>7 DEF Flush
      <3>2. header = <<>> /\ globalRecvBuffer = <<>>
        BY <3>1 DEF Control
      <3>3. Len(Stream') = 0
        BY <2>2, <3>1, <3>2, StreamFactsNext, EmptySeq
      <3>4. \A i \in 1 .. Len(Stream') : FALSE
        BY <3>3
      <3>5. position <= position' /\ position' \in Nat
        BY <2>3, <3>1
      <3>6. tim_scan.start <= 1000 * Len(sent) + position'
        BY <1>0, <3>5
      <3> QED BY <2>2, <3>1, <3>4, <3>6 DEF LaterIn
    <2> QED BY <2>1, <2>4, <2>5, <2>6, <2>7
  <1> QED BY <1>1, <1>2, <1>3, <1>4

\* A ring start from its CT byte on.
LEMMA StampsNext ==
    ASSUME Types, Types', Control, Control', Origins, WholePackage, PointsBehind, Aligned,
           RingStarts, RingStarts', Stamps, Next
    PROVE  Stamps'
  <1>0. tim_scan \in [start : Nat, end : Nat] /\ tim_scan' \in [start : Nat, end : Nat]
        /\ tim_scan.start \in Nat /\ tim_scan.end \in Nat
    BY DEF Types
  <1>1. /\ \A i \in 1 .. Len(Stream') : i > Len(header') => tim_scan'.start < Stamp(Stream'[i])
        /\ tim_scan'.start <= 1000 * Len(sent') + position'
    BY LaterNext DEF LaterIn
  <1> SUFFICES /\ Open' => tim_scan'.start # 0
               /\ \A stamp : RingInHeader' /\ stamp = Stamp(header'[3]) => StampSet(stamp)'
               /\ \A stamp : CheckSumResult' /\ package'.ring /\ stamp = 1000 * Current' + 3 => StampSet(stamp)'
               /\ \A stamp : Pending' /\ stamp = 1000 * PendingRing' + 3 => StampSet(stamp)'
    BY <1>1 DEF Stamps
  <1>s. ASSUME NEW stamp, StampSet(stamp), tim_scan' = tim_scan, Open' = Open PROVE StampSet(stamp)'
    BY <1>s DEF StampSet
  <1>2. CASE ParseHeader
    <2>1. ~EmitNode /\ ~Collect /\ at = "parse" /\ UNCHANGED <<package, CheckSumResult>>
      BY <1>2 DEF ParseHeader, EmitNode, Collect
    <2>2. Open' = Open /\ Pending' = Pending /\ ~Pending /\ ~CheckSumResult
      <3>1. Open' = Open /\ Pending' = Pending
        BY <2>1, NodesStay
      <3>2. ~Pending
        BY <2>1 DEF RingStarts
      <3>3. ~CheckSumResult
        BY <2>1 DEF Control, Types
      <3> QED BY <3>1, <3>2, <3>3
    <2>3. CASE StartsOver
      <3>1. header' = <<>> /\ tim_scan' = tim_scan
        BY <2>3 DEF StartsOver
      <3>2. ~RingInHeader'
        BY <3>1, EmptySeq DEF RingInHeader
      <3> QED BY <2>1, <2>2, <3>1, <3>2 DEF Stamps
    <2>4. CASE KeepsByte
      <3> DEFINE byte == Head(globalRecvBuffer)
                 h    == Len(header)
      <3>1. /\ byte \in Bytes /\ byte = Stream[h + 1] /\ h + 1 \in 1 .. Len(Stream) /\ h \in Nat
            /\ Len(header') = h + 1 /\ header'[h + 1] = byte
            /\ \A i \in 1 .. h : header'[i] = header[i]
            /\ Stamp(byte) \in Nat /\ Stamp(byte) > 0
        BY <1>2, <2>4, KeptFacts
      <3>2. tim_scan' = IF h = 2 THEN RingStamp(tim_scan, byte) ELSE tim_scan
        BY <2>4 DEF KeepsByte
      <3>3. tim_scan.start < Stamp(byte)
        <4>1. h + 1 > Len(header)
          BY <3>1
        <4> QED BY <3>1, <4>1 DEF Stamps
      <3>4. RingInHeader <=> h >= 3 /\ header[3].value % 2 = 1
        BY DEF RingInHeader
      <3>5. RingInHeader' <=> h + 1 >= 3 /\ header'[3].value % 2 = 1
        BY <3>1 DEF RingInHeader
      <3> HIDE DEF byte, h
      <3>6. CASE h = 2 /\ byte.value % 2 = 1
        <4>1. header'[3] = byte
          BY <3>1, <3>6
        <4>2. CASE tim_scan.start = 0
          <5>1. tim_scan'.start = Stamp(byte)
            BY <3>1, <3>2, <3>6, <4>2, RingStampFacts
          <5>2. ~Open
            BY <4>2 DEF Stamps
          <5>3. tim_scan'.start # 0
            BY <3>1, <5>1
          <5> QED BY <2>1, <2>2, <5>2, <5>3 DEF StampSet
        <4>3. CASE tim_scan.start # 0
          <5>1. tim_scan'.start = tim_scan.start /\ tim_scan'.end = Stamp(byte)
            BY <3>1, <3>2, <3>6, <4>3, RingStampFacts
          <5>2. \A stamp : stamp = Stamp(header'[3]) => StampSet(stamp)'
            BY <3>3, <4>1, <4>3, <5>1 DEF StampSet
          <5> QED BY <2>1, <2>2, <4>3, <5>1, <5>2
        <4> QED BY <4>2, <4>3
      <3>7. CASE ~(h = 2 /\ byte.value % 2 = 1)
        <4>1. tim_scan' = tim_scan
          <5>1. byte.value % 2 \in {0, 1}
            BY <3>1, RingStampFacts
          <5> QED BY <3>1, <3>2, <3>7, <5>1, RingStampFacts
        <4>2. RingInHeader' => RingInHeader /\ header'[3] = header[3]
          <5>1. CASE h = 2
            <6>1. header'[3] = byte
              BY <3>1, <5>1
            <6> QED BY <3>5, <3>7, <5>1, <6>1
          <5>2. CASE h # 2
            <6>1. RingInHeader' => h >= 3
              BY <3>1, <3>5, <5>2
            <6>2. h >= 3 => header'[3] = header[3]
              BY <3>1
            <6> QED BY <3>4, <3>5, <6>1, <6>2
          <5> QED BY <5>1, <5>2
        <4>3. RingInHeader => StampSet(Stamp(header[3]))
          BY DEF Stamps
        <4> QED BY <1>s, <2>1, <2>2, <4>1, <4>2, <4>3 DEF Stamps
      <3> QED BY <3>6, <3>7
    <2> QED BY <1>2, <2>3, <2>4, ParseHeaderCases
  <1>3. CASE Collect
    <2>1. /\ at = "collect" /\ ~Pending' /\ UNCHANGED <<header, package, CheckSumResult>>
          /\ tim_scan' = IF Pending /\ Open THEN [tim_scan EXCEPT !.start = tim_scan.end] ELSE tim_scan
          /\ local_scan' = IF Pending THEN <<local_buf[Len(local_buf)]>> ELSE Gathered
      BY <1>3, CollectFacts
    <2>2. header = <<>> /\ ~RingInHeader'
      <3>1. header = <<>>
        BY <2>1 DEF Control
      <3> QED BY <2>1, <3>1, EmptySeq DEF RingInHeader
    <2>3. CASE Pending
      <3>1. ~CheckSumResult'
        BY <2>1, <2>3 DEF RingStarts
      <3>2. StampSet(1000 * PendingRing + 3)
        BY <2>3 DEF Stamps
      <3>3. tim_scan'.start # 0
        <4>1. CASE Open
          <5>1. tim_scan'.start = tim_scan.end
            BY <1>0, <2>1, <2>3, <4>1
          <5>2. tim_scan.start < tim_scan.end
            BY <3>2, <4>1 DEF StampSet
          <5> QED BY <1>0, <5>1, <5>2
        <4>2. CASE ~Open
          BY <2>1, <3>2, <4>2 DEF StampSet
        <4> QED BY <4>1, <4>2
      <3> QED BY <2>1, <2>2, <3>1, <3>3
    <2>4. CASE ~Pending
      <3>1. tim_scan' = tim_scan /\ Current' = Current
        BY <2>1, <2>4 DEF Current
      <3>2. Open' = Open
        <4>1. local_scan' = Gathered
          BY <2>1, <2>4
        <4>2. Open' <=> Gathered # <<>> /\ Gathered[1].sync
          BY <4>1 DEF Open
        <4>3. (Gathered # <<>> /\ Gathered[1].sync) <=> Open
          BY GatheredFacts
        <4>4. Open' <=> Open
          BY <4>2, <4>3
        <4>5. Open \in BOOLEAN /\ Open' \in BOOLEAN
          BY DEF Open, Types, Nodes
        <4> QED BY <4>4, <4>5
      <3>3. CheckSumResult /\ package.ring => StampSet(1000 * Current + 3)
        BY DEF Stamps
      <3>4. Open' => tim_scan'.start # 0
        BY <3>1, <3>2 DEF Stamps
      <3>5. ASSUME NEW stamp, CheckSumResult', package'.ring, stamp = 1000 * Current' + 3
            PROVE  StampSet(stamp)'
        <4>1. StampSet(stamp)
          BY <2>1, <3>1, <3>3, <3>5
        <4> QED BY <1>s, <3>1, <3>2, <4>1
      <3> QED BY <2>1, <2>2, <3>4, <3>5
    <2> QED BY <2>3, <2>4
  <1>4. CASE ReadPayload
    <2>1. /\ ~EmitNode /\ ~Collect /\ header' = <<>> /\ at = "payload" /\ Len(header) = 10
          /\ package'.ring = (header[3].value % 2 = 1)
      BY <1>4, ReadPayloadFacts DEF EmitNode, Collect
    <2>2. Open' = Open /\ Pending' = Pending /\ ~Pending /\ tim_scan' = tim_scan
      <3>1. Open' = Open /\ Pending' = Pending
        BY <2>1, NodesStay
      <3>2. ~Pending
        BY <2>1 DEF RingStarts
      <3>3. tim_scan' = tim_scan
        BY <1>4, ReadPayloadFacts
      <3> QED BY <3>1, <3>2, <3>3
    <2>3. ~RingInHeader'
      BY <2>1, EmptySeq DEF RingInHeader
    <2>4. ASSUME CheckSumResult', package'.ring
          PROVE  StampSet(1000 * Current' + 3)
      <3>1. RingInHeader
        <4>1. header[3].value % 2 = 1
          BY <2>1, <2>4
        <4>2. Len(header) >= 3
          BY <2>1
        <4> QED BY <4>1, <4>2 DEF RingInHeader
      <3>2. StampSet(Stamp(header[3]))
        BY <3>1 DEF Stamps
      <3>3. Stamp(header[3]) = 1000 * Current' + 3
        <4> DEFINE n == header[4].value * PackageSampleBytes
        <4>1. PICK p \in Nat : p = Stream[1].package /\ Current' = p
          BY <1>4, <2>4, NextPackage
        <4>3. n \in Nat /\ header[3] = Stream[3]
          BY <1>4, ReadPayloadDrops
        <4>4. \A i \in 1 .. 10 + n : Stream[i].package = Stream[1].package /\ Stream[i].place = i
          BY <1>4, <2>4, PayloadFits
        <4> HIDE DEF n
        <4>5. 3 \in 1 .. 10 + n
          BY <4>3
        <4> QED BY <4>1, <4>3, <4>4, <4>5 DEF Stamp
      <3> QED BY <3>2, <3>3
    <2> QED BY <1>s, <2>2, <2>3, <2>4 DEF Stamps
  <1>5. CASE EmitNode
    <2>1. /\ ~Pending /\ (Pending' <=> Node.sync) /\ (Node.sync <=> package.ring /\ CheckSumResult)
          /\ Open' = Open /\ local_buf'[Len(local_buf')] = Node /\ at = "node"
      BY <1>5, EmitNodeFacts
    <2>2. /\ UNCHANGED <<header, package, tim_scan>> /\ (CheckSumResult' => CheckSumResult)
      BY <1>5, EmitFacts
    <2>3. Current' = Current /\ RingInHeader' = RingInHeader
      BY <2>2 DEF Current, RingInHeader
    <2>4. Pending' => PendingRing' = Current
      <3>1. Node.sync => Node.point = <<Current, 1>>
        BY <1>5, EmitNodeFacts
      <3>2. PendingRing' = Node.point[1]
        BY <2>1 DEF PendingRing
      <3> QED BY <2>1, <3>1, <3>2
    <2>5. /\ RingInHeader => StampSet(Stamp(header[3]))
          /\ CheckSumResult /\ package.ring => StampSet(1000 * Current + 3)
          /\ Open => tim_scan.start # 0
      BY DEF Stamps
    <2> QED BY <1>s, <2>1, <2>2, <2>3, <2>4, <2>5
  <1>6. CASE ~ParseHeader /\ ~Collect /\ ~ReadPayload /\ ~EmitNode
    <2>1. tim_scan' = tim_scan /\ Open' = Open /\ Pending' = Pending
      BY <1>6, TimStays, NodesStay
    <2>2. UNCHANGED <<package, CheckSumResult>> /\ Current' = Current
      BY <1>6, OtherSteps DEF Current
    <2>3. header' = header \/ header' = <<>>
      BY <1>6 DEF Next, BeginPackage, ByteArrives, ByteHarmed, ReadHeader, WaitTimesOut,
             CallTimesOut, Listen, Flush, parserVars
    <2>4. RingInHeader' => RingInHeader /\ header' = header
      BY <2>3, EmptySeq DEF RingInHeader
    <2>5. PendingRing' = PendingRing
      BY <1>6, NodesStay DEF PendingRing
    <2>6. /\ RingInHeader => StampSet(Stamp(header[3]))
          /\ CheckSumResult /\ package.ring => StampSet(1000 * Current + 3)
          /\ Pending => StampSet(1000 * PendingRing + 3)
          /\ Open => tim_scan.start # 0
      BY DEF Stamps
    <2> QED BY <1>s, <2>1, <2>2, <2>4, <2>5, <2>6
  <1> QED BY <1>2, <1>3, <1>4, <1>5, <1>6

\* The first stamp of all, as long as nothing happens.
LEMMA FirstStampNext ==
    ASSUME Types, Types', Control, Control', Origins, NoGaps, WholePackage, PointsBehind, Aligned, Aligned',
           RingStarts, Stamps, FirstStamp, Next
    PROVE  FirstStamp'
  <1> DEFINE Clean(k) == Unharmed(1, k, harmed)
  <1>0. \A k : Unharmed(1, k, harmed') => Clean(k)
    BY SentGrows
  <1> SUFFICES
        ASSUME NEW k, Unharmed(1, k, harmed'), Clean(k)
        PROVE  /\ Open' /\ k = OpenRing' => tim_scan'.start = 1000 * k + 3
               /\ ~Open' /\ Pending' /\ k = PendingRing' => tim_scan'.start = 1000 * k + 3
               /\ ~Open' /\ CheckSumResult' /\ k = Current' =>
                     tim_scan'.start = IF package'.ring THEN 1000 * k + 3 ELSE 0
               /\ ~Open' /\ ~Pending' /\ ~CheckSumResult' /\ k = Fitted' + 1 =>
                     tim_scan'.start = IF RingInHeader' THEN Stamp(header'[3]) ELSE 0
    BY <1>0 DEF FirstStamp
  <1>1. /\ Open /\ k = OpenRing => tim_scan.start = 1000 * k + 3
        /\ ~Open /\ Pending /\ k = PendingRing => tim_scan.start = 1000 * k + 3
        /\ ~Open /\ CheckSumResult /\ k = Current =>
              tim_scan.start = IF package.ring THEN 1000 * k + 3 ELSE 0
        /\ ~Open /\ ~Pending /\ ~CheckSumResult /\ k = Fitted + 1 =>
              tim_scan.start = IF RingInHeader THEN Stamp(header[3]) ELSE 0
    BY DEF FirstStamp
  <1> HIDE DEF Clean
  <1>2. CASE Collect
    <2>1. /\ at = "collect" /\ ~Pending' /\ UNCHANGED <<header, package, CheckSumResult>>
          /\ tim_scan' = IF Pending /\ Open THEN [tim_scan EXCEPT !.start = tim_scan.end] ELSE tim_scan
          /\ local_scan' = IF Pending THEN <<local_buf[Len(local_buf)]>> ELSE Gathered
      BY <1>2, CollectFacts
    <2>2. CASE Pending
      <3>1. local_scan' = <<local_buf[Len(local_buf)]>>
        BY <2>1, <2>2
      <3>2. local_scan'[1] = local_buf[Len(local_buf)] /\ local_scan' # <<>>
        BY <3>1
      <3>3. Open' /\ OpenRing' = PendingRing
        BY <2>2, <3>2 DEF Open, OpenRing, Pending, PendingRing
      <3>4. CASE Open
        <4>1. tim_scan.end = 1000 * PendingRing + 3
          BY <2>2, <3>4 DEF Stamps, StampSet
        <4>2. tim_scan'.start = tim_scan.end
          BY <2>1, <2>2, <3>4 DEF Types
        <4> QED BY <3>3, <4>1, <4>2
      <3>5. CASE ~Open
        BY <1>1, <2>1, <2>2, <3>3, <3>5
      <3> QED BY <3>4, <3>5
    <2>3. CASE ~Pending
      <3>1. tim_scan' = tim_scan /\ local_scan' = Gathered
        BY <2>1, <2>3
      <3>2. Open' <=> Gathered # <<>> /\ Gathered[1].sync
        BY <3>1 DEF Open
      <3>3. (Gathered # <<>> /\ Gathered[1].sync) <=> Open
        BY GatheredFacts
      <3>4. Open' => Open /\ OpenRing' = OpenRing
        <4>1. Open => Gathered[1] = local_scan[1]
          BY GatheredFacts
        <4> QED BY <3>1, <3>2, <3>3, <4>1 DEF OpenRing
      <3>5. Current' = Current /\ RingInHeader' = RingInHeader
        BY <2>1 DEF Current, RingInHeader
      <3>6. Fitted' = Fitted
        <4>1. ~ReadPayload
          BY <2>1 DEF ReadPayload
        <4> QED BY <4>1, FittedStays
      <3> QED BY <1>1, <2>1, <2>3, <3>1, <3>2, <3>3, <3>4, <3>5, <3>6
    <2> QED BY <2>2, <2>3
  <1>3. CASE EmitNode
    <2>1. /\ ~Pending /\ (Pending' <=> Node.sync) /\ (Node.sync <=> package.ring /\ CheckSumResult)
          /\ Open' = Open /\ local_scan' = local_scan /\ local_buf'[Len(local_buf')] = Node /\ at = "node"
      BY <1>3, EmitNodeFacts
    <2>2. UNCHANGED <<header, package, tim_scan>> /\ (CheckSumResult' => CheckSumResult)
      BY <1>3, EmitFacts
    <2>3. Current' = Current /\ RingInHeader' = RingInHeader /\ OpenRing' = OpenRing
      BY <2>1, <2>2 DEF Current, RingInHeader, OpenRing
    <2>4. Pending' => PendingRing' = Current
      <3>1. Node.sync => Node.point = <<Current, 1>>
        BY <1>3, EmitNodeFacts
      <3>2. PendingRing' = Node.point[1]
        BY <2>1 DEF PendingRing
      <3> QED BY <2>1, <3>1, <3>2
    <2>5. Fitted' = Fitted
      <3>1. ~ReadPayload
        BY <2>1 DEF ReadPayload
      <3> QED BY <3>1, FittedStays
    <2>6. ASSUME ~Open', ~Pending', ~CheckSumResult', k = Fitted' + 1
          PROVE  tim_scan'.start = IF RingInHeader' THEN Stamp(header'[3]) ELSE 0
      <3>1. CASE CheckSumResult
        <4>1. Fitted = Current /\ Fitted \in Nat
          BY <3>1, FittedFacts
        <4>2. Unharmed(1, Current, harmed)
          BY <2>5, <2>6, <4>1 DEF Clean, Unharmed
        <4>3. tim_scan.start = 0
          BY <2>1, <2>6, <3>1, <4>2 DEF FirstStamp
        <4>4. ~RingInHeader
          <5>1. header = <<>>
            BY <2>1 DEF Control
          <5> QED BY <5>1, EmptySeq DEF RingInHeader
        <4> QED BY <2>2, <2>3, <4>3, <4>4
      <3>2. CASE ~CheckSumResult
        BY <1>1, <2>1, <2>2, <2>3, <2>5, <2>6, <3>2
      <3> QED BY <3>1, <3>2
    <2> QED BY <1>1, <2>1, <2>2, <2>3, <2>4, <2>6
  <1>4. CASE ReadPayload
    <2>1. /\ ~EmitNode /\ ~Collect /\ at = "payload" /\ at' = "node" /\ Len(header) = 10 /\ ~CheckSumResult
          /\ package'.ring = (header[3].value % 2 = 1) /\ UNCHANGED <<tim_scan, local_scan, got>>
      BY <1>4, ReadPayloadFacts DEF EmitNode, Collect
    <2>2. Open' = Open /\ Pending' = Pending /\ ~Pending /\ OpenRing' = OpenRing
      <3>1. Open' = Open /\ Pending' = Pending
        BY <2>1, NodesStay
      <3>2. ~Pending
        BY <2>1 DEF RingStarts
      <3> QED BY <2>1, <3>1, <3>2 DEF OpenRing
    <2>3. ASSUME ~Open, CheckSumResult', k = Current'
          PROVE  tim_scan'.start = IF package'.ring THEN 1000 * k + 3 ELSE 0
      <3>1. /\ k = Stream[1].package /\ k \in Nat /\ Reported < k /\ Fitted = Reported
            /\ Reported + 1 \notin harmed => k = Reported + 1
        BY <1>4, <2>3, NextPackage
      <3>2. k = Fitted + 1
        <4>1. Reported \in Nat
          BY ReportedFacts
        <4>2. Reported + 1 \in 1 .. k
          BY <3>1, <4>1
        <4> QED BY <3>1, <4>2 DEF Clean, Unharmed
      <3>3. tim_scan.start = IF RingInHeader THEN Stamp(header[3]) ELSE 0
        BY <1>1, <2>1, <2>2, <2>3, <3>2
      <3>4. RingInHeader <=> header[3].value % 2 = 1
        <4>1. Len(header) >= 3
          BY <2>1
        <4> QED BY <4>1 DEF RingInHeader
      <3>5. Stamp(header[3]) = 1000 * k + 3
        <4> DEFINE n == header[4].value * PackageSampleBytes
        <4>1. n \in Nat /\ header[3] = Stream[3]
          BY <1>4, ReadPayloadDrops
        <4>2. \A i \in 1 .. 10 + n : Stream[i].package = Stream[1].package /\ Stream[i].place = i
          BY <1>4, <2>3, PayloadFits
        <4> HIDE DEF n
        <4>3. 3 \in 1 .. 10 + n
          BY <4>1
        <4> QED BY <3>1, <4>1, <4>2, <4>3 DEF Stamp
      <3>6. package'.ring <=> RingInHeader
        BY <2>1, <3>4
      <3>7. tim_scan'.start = tim_scan.start
        BY <2>1
      <3> QED BY <3>3, <3>5, <3>6, <3>7
    <2>4. ASSUME ~CheckSumResult', k = Fitted' + 1
          PROVE  FALSE
      <3>1. Fitted' \in Nat
        <4>1. Fitted' = Reported
          BY <2>1, <2>4 DEF Fitted, Reported
        <4> QED BY <4>1, ReportedFacts
      <3>2. k \in 1 .. k
        <4>1. PICK f \in Nat : f = Fitted'
          BY <3>1
        <4>2. k = f + 1
          BY <2>4, <4>1
        <4> QED BY <4>2
      <3>3. Fitted' + 1 \notin harmed'
        BY <2>4, <3>2 DEF Unharmed
      <3> QED BY <2>1, <2>4, <3>3 DEF Aligned
    <2> QED BY <1>1, <2>1, <2>2, <2>3, <2>4
  <1>5. CASE ParseHeader
    <2>1. ~EmitNode /\ ~Collect /\ ~ReadPayload /\ at = "parse"
          /\ UNCHANGED <<package, CheckSumResult, local_scan>>
      BY <1>5 DEF ParseHeader, EmitNode, Collect, ReadPayload, scanVars
    <2>2. Open' = Open /\ Pending' = Pending /\ ~Pending /\ ~CheckSumResult /\ OpenRing' = OpenRing
      <3>1. Open' = Open /\ Pending' = Pending
        BY <2>1, NodesStay
      <3>2. ~Pending
        BY <2>1 DEF RingStarts
      <3>3. ~CheckSumResult
        BY <2>1 DEF Control, Types
      <3> QED BY <2>1, <3>1, <3>2, <3>3 DEF OpenRing
    <2>3. Fitted' = Fitted
      BY <2>1, FittedStays
    <2> DEFINE byte == Head(globalRecvBuffer)
               h    == Len(header)
    <2>4. CASE Open
      <3>1. tim_scan.start # 0
        BY <2>4 DEF Stamps
      <3>2. tim_scan'.start = tim_scan.start
        <4>1. CASE KeepsByte
          <5>1. byte \in Bytes
            BY <1>5, <4>1, KeptFacts
          <5>2. tim_scan' = IF h = 2 THEN RingStamp(tim_scan, byte) ELSE tim_scan
            BY <4>1 DEF KeepsByte
          <5> HIDE DEF byte, h
          <5>3. RingStamp(tim_scan, byte).start = tim_scan.start
            BY <3>1, <5>1, RingStampFacts
          <5> QED BY <5>2, <5>3
        <4>2. CASE StartsOver
          BY <4>2 DEF StartsOver
        <4> QED BY <1>5, <4>1, <4>2, ParseHeaderCases
      <3> QED BY <1>1, <2>2, <2>4, <3>2
    <2>5. CASE ~Open
      <3> SUFFICES ASSUME k = Fitted + 1
                   PROVE  tim_scan'.start = IF RingInHeader' THEN Stamp(header'[3]) ELSE 0
        BY <2>1, <2>2, <2>3, <2>5
      <3>1. Fitted + 1 \notin harmed
        <4>1. Fitted \in Nat
          BY FittedFacts
        <4>2. k \in 1 .. k
          BY <4>1
        <4> QED BY <4>2 DEF Clean, Unharmed
      <3>2. Stream # <<>>
        BY <1>5, ParseHeaderDrops, StreamFacts, EmptySeq
      <3>3. ComesFrom(Stream[1], Fitted + 1, 1)
        BY <3>1, <3>2, BehindFitted DEF Aligned
      <3>4. KeepsByte
        BY <1>5, <3>1, <3>2, <3>3, AlignedParse
      <3>5. /\ byte \in Bytes /\ h \in Nat /\ Len(header') = h + 1 /\ header'[h + 1] = byte
            /\ \A i \in 1 .. h : header'[i] = header[i]
        BY <1>5, <3>4, KeptFacts
      <3>6. tim_scan' = IF h = 2 THEN RingStamp(tim_scan, byte) ELSE tim_scan
        BY <3>4 DEF KeepsByte
      <3>7. tim_scan.start = IF RingInHeader THEN Stamp(header[3]) ELSE 0
        BY <1>1, <2>2, <2>5
      <3>8. RingInHeader <=> h >= 3 /\ header[3].value % 2 = 1
        BY DEF RingInHeader
      <3>9. RingInHeader' <=> h + 1 >= 3 /\ header'[3].value % 2 = 1
        BY <3>5 DEF RingInHeader
      <3> HIDE DEF byte, h
      <3>10. CASE h = 2
        <4>1. header'[3] = byte /\ tim_scan.start = 0
          BY <3>5, <3>7, <3>8, <3>10
        <4>2. byte.value % 2 \in {0, 1}
          BY <3>5, RingStampFacts
        <4>3. CASE byte.value % 2 = 1
          <5>1. tim_scan'.start = Stamp(byte)
            BY <3>5, <3>6, <3>10, <4>1, <4>3, RingStampFacts
          <5> QED BY <3>9, <3>10, <4>1, <4>3, <5>1
        <4>4. CASE byte.value % 2 = 0
          <5>1. tim_scan' = tim_scan
            BY <3>5, <3>6, <3>10, <4>4, RingStampFacts
          <5>2. ~RingInHeader'
            BY <3>9, <4>1, <4>4
          <5> QED BY <4>1, <5>1, <5>2
        <4> QED BY <4>2, <4>3, <4>4
      <3>11. CASE h > 2
        <4>1. header'[3] = header[3]
          BY <3>5, <3>11
        <4>2. RingInHeader' <=> RingInHeader
          BY <3>5, <3>8, <3>9, <3>11, <4>1
        <4>3. tim_scan' = tim_scan
          BY <3>6, <3>11
        <4> QED BY <3>7, <4>1, <4>2, <4>3
      <3>12. CASE h < 2
        <4>1. ~RingInHeader' /\ ~RingInHeader
          BY <3>5, <3>8, <3>9, <3>12
        <4>2. tim_scan' = tim_scan
          BY <3>6, <3>12
        <4> QED BY <3>7, <4>1, <4>2
      <3> QED BY <3>5, <3>10, <3>11, <3>12
    <2> QED BY <2>4, <2>5
  <1>6. CASE ~ParseHeader /\ ~Collect /\ ~ReadPayload /\ ~EmitNode
    <2>1. /\ tim_scan' = tim_scan /\ Open' = Open /\ Pending' = Pending
          /\ UNCHANGED <<local_buf, local_scan>> /\ Fitted' = Fitted
      BY <1>6, TimStays, NodesStay, FittedStays
    <2>2. UNCHANGED <<package, CheckSumResult>>
      BY <1>6, OtherSteps
    <2>3. Current' = Current /\ OpenRing' = OpenRing /\ PendingRing' = PendingRing
      BY <2>1, <2>2 DEF Current, OpenRing, PendingRing
    <2>4. ~CheckSumResult /\ k = Fitted + 1 => header' = header \/ (~RingInHeader' /\ ~RingInHeader)
      <3>1. CASE WaitTimesOut
        <4> SUFFICES ASSUME k = Fitted + 1
                     PROVE  ~RingInHeader' /\ ~RingInHeader
          OBVIOUS
        <4>1. header' = <<>> /\ harmed' = harmed \union PackagesOf(header)
          BY <3>1 DEF WaitTimesOut
        <4>2. CASE header = <<>>
          BY <4>1, <4>2, EmptySeq DEF RingInHeader
        <4>3. CASE header # <<>>
          <5>1. Stream # <<>> /\ 1 \in 1 .. Len(header) /\ Stream[1] = header[1]
            BY <4>3, StreamFacts, StreamParts, EmptySeq
          <5>2. Fitted + 1 \notin harmed'
            <6>1. Fitted \in Nat
              BY FittedFacts
            <6>2. k \in 1 .. k
              BY <6>1
            <6> QED BY <6>2 DEF Unharmed
          <5>3. ComesFrom(Stream[1], Fitted + 1, 1)
            BY <4>1, <5>1, <5>2, BehindFitted DEF Aligned
          <5>4. header[1].package \in PackagesOf(header)
            BY <5>1, PackagesOfFacts DEF Types
          <5> QED BY <4>1, <5>1, <5>2, <5>3, <5>4 DEF ComesFrom
        <4> QED BY <4>2, <4>3
      <3>2. CASE ~WaitTimesOut
        <4>1. header' = header
          BY <1>6, <3>2 DEF Next, BeginPackage, ByteArrives, ByteHarmed, ReadHeader,
             CallTimesOut, Listen, Flush, parserVars
        <4> QED BY <4>1
      <3> QED BY <3>1, <3>2
    <2>5. header' = header => RingInHeader' = RingInHeader
      BY DEF RingInHeader
    <2> QED BY <1>1, <2>1, <2>2, <2>3, <2>4, <2>5
  <1> QED BY <1>2, <1>3, <1>4, <1>5, <1>6

\* The scan handed over last.
LEMMA ScanTimesFitNext ==
    ASSUME Types, Types', Control, Origins, WholePackage, PointsBehind, RingStarts,
           Stamps, FirstStamp, ScanTimesFit, Next
    PROVE  ScanTimesFit'
  <1>0. harmed \subseteq harmed'
    BY SentGrows
  <1>1. CASE Collect /\ Pending /\ Open
    <2>1. /\ scan' = [nodes |-> Gathered, start |-> tim_scan.start, end |-> tim_scan.end,
                      closedBy |-> PendingRing]
          /\ harmed' = harmed
      BY <1>1, CollectFacts
    <2>2. tim_scan.start < tim_scan.end /\ tim_scan.end = 1000 * PendingRing + 3
      BY <1>1 DEF Stamps, StampSet
    <2>3. Gathered[1] = local_scan[1] /\ OpenRing \in Nat /\ PendingRing \in Nat /\ OpenRing < PendingRing
      BY <1>1, GatheredFacts, OpenFacts DEF RingStarts
    <2>4. Opened' = OpenRing
      BY <2>1, <2>3 DEF Opened, OpenRing
    <2>5. ASSUME harmed \intersect (1 .. PendingRing) = {}
          PROVE  tim_scan.start = 1000 * OpenRing + 3
      <3> DEFINE last == PendingRing
                 ring == OpenRing
      <3>1. last \in Nat /\ ring \in Nat /\ ring < last /\ harmed \intersect (1 .. last) = {}
        BY <2>3, <2>5
      <3> HIDE DEF last, ring
      <3>2. Unharmed(1, ring, harmed)
        BY <3>1 DEF Unharmed
      <3> QED BY <1>1, <3>2 DEF FirstStamp, ring
    <2> QED BY <2>1, <2>2, <2>4, <2>5 DEF ScanTimesFit
  <1>2. CASE ~(Collect /\ Pending /\ Open)
    <2>1. scan' = scan
      <3>1. CASE Collect
        BY <1>2, <3>1, CollectFacts
      <3>2. CASE EmitNode
        BY <3>2, EmitNodeFacts
      <3> QED BY <3>1, <3>2, NodesStay
    <2>2. Opened' = Opened /\ HasScan' = HasScan
      BY <2>1 DEF Opened, HasScan
    <2> QED BY <1>0, <2>1, <2>2 DEF ScanTimesFit
  <1> QED BY <1>1, <1>2

-----------------------------------------------------------------------------
(* The theorems.                                                           *)

LEMMA InitStreamInv == Init => StreamInv
  <1> SUFFICES ASSUME Init PROVE StreamInv
    OBVIOUS
  <1>0. /\ sent = <<>> /\ position = 0 /\ line = <<>>
        /\ at = "judge" /\ globalRecvBuffer = <<>> /\ header = <<>>
        /\ package = [ring |-> FALSE, samples |-> 0, payload |-> <<>>]
        /\ CheckSumResult = FALSE /\ package_Sample_Index = 0
        /\ has_package_error = FALSE /\ package_index = 0
        /\ tim_scan = [start |-> 0, end |-> 0]
        /\ local_buf = <<>> /\ local_scan = <<>>
        /\ scan = [nodes |-> <<>>, start |-> 0, end |-> 0, closedBy |-> 0]
        /\ harmed = {} /\ searched = {} /\ got = <<>> /\ mishaps = 0
    BY DEF Init
  <1>1. Len(<<>>) = 0
    BY EmptySeq
  <1>2. \A S : <<>> \in Seq(S)
    BY EmptySeq
  <1>3. Types
    <2>1. <<>> \in Seq(Bytes) /\ <<>> \in Seq(KINDS) /\ <<>> \in Seq(Nodes) /\ <<>> \in Seq(Points)
      BY <1>2
    <2>2. 0 \in ByteValues
      BY ByteValueFacts
    <2> HIDE DEF Bytes, Nodes, Points
    <2>3. package \in [ring : BOOLEAN, samples : ByteValues, payload : Seq(Bytes)]
      BY <1>0, <2>1, <2>2
    <2>4. scan \in [nodes : Seq(Nodes), start : Nat, end : Nat, closedBy : Nat]
      BY <1>0, <2>1
    <2>5. tim_scan \in [start : Nat, end : Nat]
      BY <1>0
    <2> QED BY <1>0, <2>1, <2>3, <2>4, <2>5 DEF Types
  <1>4. Control
    BY <1>0, <1>1, StreamAssumption DEF Control, PackagePaidBytes, PackageSampleBytes
  <1>5. Stream = <<>>
    BY <1>0, <1>3, <1>1, StreamFacts, EmptySeq
  <1>6. \A i \in 1 .. Len(Stream) : FALSE
    BY <1>1, <1>5
  <1>7. \A i \in 1 .. Len(got) : FALSE
    BY <1>0, <1>1
  <1>8. Origins
    BY <1>0, <1>6 DEF Origins, OriginsIn
  <1>9. NoGaps
    BY <1>6 DEF NoGaps, NoGapsIn, Forward, Across, Backward, BackwardFromLidar
  <1>10. WholePackage /\ PointsBehind /\ LastPoint
    BY <1>0, <1>7 DEF WholePackage, PointsBehind, LastPoint
  <1>11. PointsInOrder
    BY <1>0, <1>1, <1>7 DEF PointsInOrder
  <1>12. Aligned
    <2>1. Fitted = 0
      BY <1>0 DEF Fitted, Reported
    <2>2. ~HasLeft(1, 1, sent, position)
      BY <1>0, <1>1 DEF HasLeft
    <2> QED BY <1>0, <2>1, <2>2 DEF Aligned
  <1>13. Searched
    BY <1>0 DEF Searched
  <1>14. ~Pending /\ ~Open /\ ~HasScan
    BY <1>0 DEF Pending, Open, HasScan
  <1>15. RingStarts
    BY <1>0, <1>1, <1>14 DEF RingStarts
  <1>16. NodesSent
    BY <1>0, <1>1, <1>14 DEF NodesSent, AllSent
  <1>17. ErrorTold
    BY <1>0, <1>1 DEF ErrorTold, ToldInOrder
  <1>18. OpenScan /\ ClosedScan
    BY <1>14 DEF OpenScan, ClosedScan
  <1>19. ~RingInHeader
    BY <1>0, <1>1 DEF RingInHeader
  <1>20. Stamps
    BY <1>0, <1>1, <1>6, <1>14, <1>19 DEF Stamps
  <1>21. FirstStamp
    BY <1>0, <1>14, <1>19 DEF FirstStamp
  <1>22. ScanTimesFit
    BY <1>14 DEF ScanTimesFit
  <1> QED BY <1>3, <1>4, <1>8, <1>9, <1>10, <1>11, <1>12, <1>13, <1>15, <1>16, <1>17, <1>18,
             <1>20, <1>21, <1>22 DEF StreamInv

LEMMA NextStreamInv == StreamInv /\ [Next]_vars => StreamInv'
  <1> SUFFICES ASSUME StreamInv, [Next]_vars PROVE StreamInv'
    OBVIOUS
  <1>1. CASE UNCHANGED vars
    <2>1. /\ UNCHANGED <<sent, position, line, at, globalRecvBuffer, header, package, CheckSumResult>>
          /\ UNCHANGED <<package_Sample_Index, has_package_error, package_index, tim_scan>>
          /\ UNCHANGED <<local_buf, local_scan, scan, harmed, searched, got, mishaps>>
      BY <1>1 DEF vars, lidarVars, parserVars, scanVars, historyVars
    <2>2. Stream' = Stream
      BY <2>1 DEF Stream
    <2>3. /\ Types' /\ Control' /\ Origins' /\ NoGaps'
      BY <2>1, <2>2 DEF StreamInv, Types, Control, Origins, NoGaps
    <2>4. Current' = Current /\ Reported' = Reported /\ Fitted' = Fitted
      BY <2>1 DEF Current, Reported, Fitted
    <2>5. \A p : Done(p)' <=> Done(p)
      BY <2>1, <2>2 DEF Done
    <2>6. Pending' = Pending /\ PendingRing' = PendingRing /\ Gathered' = Gathered
          /\ Open' = Open /\ OpenRing' = OpenRing /\ RingInHeader' = RingInHeader
          /\ Opened' = Opened /\ HasScan' = HasScan
      BY <2>1 DEF Pending, PendingRing, Gathered, Open, OpenRing, RingInHeader, Opened, HasScan
    <2>7. WholePackage' /\ PointsBehind' /\ PointsInOrder' /\ LastPoint' /\ Aligned' /\ Searched'
      BY <2>1, <2>2, <2>4, <2>5 DEF StreamInv, WholePackage, PointsBehind, PointsInOrder, LastPoint, Aligned,
         Searched, InSearch, InSamples, AllReported, Quiet
    <2>8. RingStarts' /\ NodesSent' /\ ErrorTold' /\ OpenScan' /\ ClosedScan'
      BY <2>1, <2>4, <2>6 DEF StreamInv, RingStarts, NodesSent, ErrorTold, OpenScan, ClosedScan
    <2>9. Stamps' /\ FirstStamp' /\ ScanTimesFit'
      BY <2>1, <2>2, <2>4, <2>6 DEF StreamInv, Stamps, StampSet, FirstStamp, ScanTimesFit
    <2> QED BY <2>3, <2>7, <2>8, <2>9 DEF StreamInv
  <1>2. CASE Next
    <2> USE DEF StreamInv
    <2>1. Types'
      BY <1>2, TypesNext
    <2>2. Control'
      BY <1>2, <2>1, ControlNext
    <2>3. Origins' /\ NoGaps'
      BY <1>2, <2>1, StreamStays
    <2>4. WholePackage'
      BY <1>2, <2>1, WholePackageNext
    <2>5. PointsBehind'
      BY <1>2, <2>1, PointsBehindNext
    <2>6. PointsInOrder'
      BY <1>2, <2>1, PointsInOrderNext
    <2>7. LastPoint'
      BY <1>2, <2>1, LastPointNext
    <2>8. Aligned'
      BY <1>2, <2>1, <2>2, AlignedNext
    <2>9. Searched'
      BY <1>2, <2>1, <2>2, <2>3, SearchedNext
    <2>10. RingStarts'
      BY <1>2, <2>1, RingStartsNext
    <2>11. NodesSent'
      BY <1>2, <2>1, NodesSentNext
    <2>12. ErrorTold'
      BY <1>2, <2>1, ErrorToldNext
    <2>13. OpenScan'
      BY <1>2, <2>1, <2>2, OpenScanNext
    <2>14. ClosedScan'
      BY <1>2, <2>1, <2>2, ClosedScanNext
    <2>15. Stamps'
      BY <1>2, <2>1, <2>2, <2>10, StampsNext
    <2>16. FirstStamp'
      BY <1>2, <2>1, <2>2, <2>8, FirstStampNext
    <2>17. ScanTimesFit'
      BY <1>2, <2>1, ScanTimesFitNext
    <2> QED BY <2>1, <2>2, <2>3, <2>4, <2>5, <2>6, <2>7, <2>8, <2>9, <2>10, <2>11, <2>12, <2>13, <2>14,
               <2>15, <2>16, <2>17
  <1> QED BY <1>1, <1>2

LEMMA StreamInvHolds == Spec => []StreamInv
  <1>1. Init => StreamInv
    BY InitStreamInv
  <1>2. StreamInv /\ [Next]_vars => StreamInv'
    BY NextStreamInv
  <1> QED BY <1>1, <1>2, PTL DEF Spec

\* The parser's and the reader's variables are what they should be, wherever
\* the reader is: no header is longer than the struct, no batch longer than its
\* buffer, no node stored past the end of local_scan, no sample index past the
\* package's number of samples, and every point reported was sent.
THEOREM StreamTypes == Spec => []TypeOK
  <1>1. StreamInv => TypeOK
    <2> SUFFICES ASSUME StreamInv PROVE TypeOK
      OBVIOUS
    <2>1. Types /\ Control /\ Origins /\ PointsBehind
      BY DEF StreamInv
    <2>2. harmed \union searched \subseteq 1 .. Len(sent)
      BY <2>1 DEF Origins, OriginsIn
    <2>3. ASSUME NEW i \in DOMAIN got
          PROVE  got[i][1] \in DOMAIN sent /\ got[i][2] \in DOMAIN sent[got[i][1]].samples
      <3>1. i \in 1 .. Len(got)
        BY <2>1 DEF Types
      <3>2. got[i][1] \in 1 .. Len(sent) /\ got[i][2] \in 1 .. Len(sent[got[i][1]].samples)
        BY <2>1, <3>1, PointFacts
      <3>3. DOMAIN sent = 1 .. Len(sent) /\ sent[got[i][1]] \in KINDS
        <4>1. sent \in Seq(KINDS)
          BY <2>1 DEF Types
        <4> QED BY <3>2, <4>1
      <3>4. DOMAIN sent[got[i][1]].samples = 1 .. Len(sent[got[i][1]].samples)
        BY <3>3, KindFacts
      <3> QED BY <3>2, <3>3, <3>4
    <2>4. CheckSumResult => at \notin {"header", "parse", "payload"}
      BY <2>1 DEF Control, Types
    <2>5. at \in {"judge", "header", "parse", "payload", "node", "collect"}
      BY <2>1 DEF Types
    <2> QED BY <2>1, <2>2, <2>3, <2>4, <2>5 DEF TypeOK, Control
  <1> QED BY <1>1, StreamInvHolds, PTL

\* Points are reported in the order they were sent and never twice, whatever is
\* lost, altered, flushed or late (waitPackage, waitScanData).
THEOREM ReportedInOrder == Spec => []PointsInOrder
  <1>1. StreamInv => PointsInOrder
    BY DEF StreamInv
  <1> QED BY <1>1, StreamInvHolds, PTL

\* A scan that read_forever hands over is one revolution, whole and in order up
\* to what local_scan holds, if nothing of it was harmed on the line: for every
\* size of batch and of local_scan, wherever calls end, and whatever happened
\* before.
THEOREM ScansAreRevolutions == Spec => []ScanIsOneRevolution
  <1>1. StreamInv => ScanIsOneRevolution
    <2> SUFFICES ASSUME StreamInv, HasScan, harmed \intersect (Opened .. scan.closedBy) = {}
                 PROVE  LET seq == scan.nodes
                        IN  /\ \A p \in Opened + 1 .. scan.closedBy - 1 : ~sent[p].ring
                            /\ seq[1].point[2] = 1
                            /\ \A i \in 2 .. Len(seq) : seq[i].point = Successor(seq[i - 1].point)
                            /\ IF Len(seq) < LOCAL_SCAN - 1
                                 THEN Successor(Last(seq).point) = <<scan.closedBy, 1>>
                                 ELSE Len(seq) = LOCAL_SCAN - 1 /\ Last(seq).point[1] < scan.closedBy
      BY DEF ScanIsOneRevolution
    <2>1. Types /\ ClosedScan /\ NodesSent
      BY DEF StreamInv
    <2>2. Unharmed(Opened, scan.closedBy, harmed)
      BY DEF Unharmed
    <2>3. OneRevolution(scan.nodes, scan.closedBy, sent)
      BY <2>1, <2>2 DEF ClosedScan
    <2>4. \A point : Successor(point) = NextPoint(point, sent)
      BY DEF Successor, NextPoint
    <2>5. Last(scan.nodes) = scan.nodes[Len(scan.nodes)]
      BY DEF Last
    <2> QED BY <2>3, <2>4, <2>5 DEF OneRevolution, Opened
  <1> QED BY <1>1, StreamInvHolds, PTL

\* The end stamp of a scan is the ring start that closed it, the start stamp an
\* earlier one, and the one that opened it as long as nothing happened on the
\* line, though both are set by headers whose check sum is not known yet.
THEOREM StampsFitScans == Spec => []ScanTimesFit
  <1>1. StreamInv => ScanTimesFit
    BY DEF StreamInv
  <1> QED BY <1>1, StreamInvHolds, PTL

\* A node with an index is in a scan with no damage before it: has_package_error
\* remembers a wrong check sum until the next ring start.
THEOREM IndexTellsNoDamage == Spec => []IndexMeansNoDamage
  <1>1. StreamInv => IndexMeansNoDamage
    <2> SUFFICES ASSUME StreamInv, NEW seq \in {local_scan, scan.nodes}, NEW i \in DOMAIN seq,
                        seq[i].index # NoIndex, NEW j \in 1 .. i
                 PROVE  seq[j].point # NoPoint
      BY DEF IndexMeansNoDamage
    <2>1. Types /\ ErrorTold
      BY DEF StreamInv
    <2>2. ToldInOrder(seq)
      BY <2>1 DEF ErrorTold
    <2>3. i \in 1 .. Len(seq)
      <3>1. local_scan \in Seq(Nodes) /\ scan.nodes \in Seq(Nodes)
        BY <2>1 DEF Types
      <3> HIDE DEF Nodes
      <3>2. seq \in Seq(Nodes)
        BY <3>1
      <3> QED BY <3>2
    <2> QED BY <2>2, <2>3 DEF ToldInOrder, HasPoint
  <1> QED BY <1>1, StreamInvHolds, PTL

\* The search for a head resynchronises: whatever was lost or altered before, a
\* package that arrived as sent and whose first byte the search meets is
\* delivered whole, if the one before it arrived too and is quiet.
THEOREM SearchResynchronises == Spec => []SearchFindsHead
  <1>1. StreamInv => SearchFindsHead
    <2> SUFFICES ASSUME StreamInv, NEW p \in searched \ harmed,
                        p > 1 => p - 1 \notin harmed /\ Quiet(p - 1), Past(p),
                        NEW i \in DOMAIN sent[p].samples
                 PROVE  <<p, i>> \in Range(got)
      BY DEF SearchFindsHead
    <2>1. Types /\ Origins /\ Searched
      BY DEF StreamInv
    <2>2. InSearch(p) \/ InSamples(p) \/ AllReported(p)
      BY <2>1 DEF Searched
    <2>3. ~InSearch(p)
      <3> SUFFICES ASSUME InSearch(p) PROVE FALSE
        OBVIOUS
      <3>1. Stream # <<>> /\ Stream[1].package = p
        BY DEF InSearch, ComesFrom
      <3>2. Stream \in Seq(Bytes) /\ 1 \in 1 .. Len(Stream)
        BY <2>1, <3>1, StreamFacts, EmptySeq
      <3>3. p \in PackagesOf(Stream)
        BY <3>1, <3>2, PackagesOfFacts
      <3> QED BY <3>3 DEF Past, Stream
    <2>4. ~InSamples(p)
      BY DEF Past, InSamples
    <2>5. i \in 1 .. Len(sent[p].samples)
      <3>1. p \in 1 .. Len(sent)
        BY <2>1 DEF Origins
      <3>2. sent[p] \in KINDS
        BY <2>1, <3>1, InOrderFacts, OriginFacts
      <3> QED BY <3>2, KindFacts
    <2> QED BY <2>2, <2>3, <2>4, <2>5 DEF AllReported
  <1> QED BY <1>1, StreamInvHolds, PTL

\* waitScanData picks the parser by the version: for every version but the
\* M1CT_Coin_Plus it is waitPackage, and what the theorems above say of Spec
\* holds of the two parsers together.
THEOREM OtherVersionsReadPackages == StreamSpec /\ version # M1CT_Coin_Plus => Spec
  <1> DEFINE Other == version # M1CT_Coin_Plus
  <1>1. StreamInit => Init
    BY DEF StreamInit
  <1>2. Other /\ [StreamNext]_allVars => [Next]_vars /\ Other'
    <2> SUFFICES ASSUME Other, [StreamNext]_allVars PROVE [Next]_vars /\ Other'
      OBVIOUS
    <2>1. CASE StreamNext
      BY <2>1 DEF StreamNext, WaitPackage, WaitPackageCoin, coinVars
    <2>2. CASE UNCHANGED allVars
      BY <2>2 DEF allVars, coinVars
    <2> QED BY <2>1, <2>2
  <1> QED BY <1>1, <1>2, PTL DEF StreamSpec, Spec
=============================================================================
