----------------------------- MODULE CoinStream -----------------------------
(***************************************************************************)
(* waitScanData (lidar_data_processing.cpp) with the parser it picks by    *)
(* the configured version: waitPackage, as in PackageStream, or            *)
(* waitPackage_coin for the M1CT_Coin_Plus.  Both parsers share            *)
(* package_Sample_Index and CheckSumResult; what read_forever does with    *)
(* the nodes does not depend on the version and is left to PackageStream.  *)
(* lidar_state_judgment has no case that starts an M1CT_Coin_Plus, so this *)
(* is what the parser does once somebody calls waitScanData for one.       *)
(*                                                                         *)
(* A coin package has a head of four bytes, the angles of its first and    *)
(* its last sample, SAMPLES samples and a check sum, no ring start: a node *)
(* is one if the angle has gone past zero since the node before.  The      *)
(* struct node_package_coin has 8 bytes before the samples and 4 behind    *)
(* them, but the parser reads PackagePaidBytes = 10 before and 4 behind:   *)
(* it takes the first two bytes of the package that follows along.         *)
(***************************************************************************)
EXTENDS PackageStream

CONSTANTS SAMPLES,       \* samples of a coin package: 8
          FIRST_ANGLES,  \* where the LiDAR may point when it begins to send
          SAMPLE_KINDS,  \* what the samples of a package may hold
          COIN_NOISE,    \* values an altered byte of one may take
          FULL,          \* 360 degrees, in units of the model
          NEAR,          \* 10 degrees
          MAX_COINS      \* bound: coin packages the LiDAR sends

ASSUME CoinAssumption ==
    /\ SAMPLES \in 3 .. 255 /\ {NEAR, MAX_COINS} \subseteq Nat /\ FULL \in 1 .. 256
    /\ SAMPLES <= FULL /\ 2 * NEAR <= FULL
    /\ FIRST_ANGLES \subseteq 0 .. FULL - 1 /\ COIN_NOISE \subseteq ByteValues
    /\ \A samples \in SAMPLE_KINDS : samples \in Seq(Samples) /\ Len(samples) = SAMPLES

VARIABLES version,    \* lidar_general_info.version
          angle_bak,  \* angle of the node before
          nodes       \* history: the nodes, [point, sync]

coinVars == <<version, angle_bak, nodes>>
allVars == <<vars, coinVars>>

M1CT_Coin_Plus == "M1CT_Coin_Plus"
CoinHead == <<85, 170, 131, SAMPLES>>
CoinHeaderSize == 8    \* up to data[0] in node_package_coin
CoinTail == 4          \* stopAngle and cs

-----------------------------------------------------------------------------
(* The LiDAR: one sample each unit of angle, so that a package and the gap  *)
(* behind it together are as wide as SAMPLES.                               *)

CoinSize == CoinHeaderSize + PackageSampleBytes * SAMPLES + CoinTail

CoinByteAt(kind, place) ==
    CASE place <= CoinHeaderSize -> (CoinHead \o <<0, 0, kind.start, 0>>)[place]
      [] place = CoinSize - 3 -> kind.stop
      [] place > CoinSize - 3 -> 0
      [] OTHER -> SampleByte(kind.samples, CoinHeaderSize, place)

NextStart(first) == IF sent = <<>> THEN first ELSE (Last(sent).start + SAMPLES) % FULL

\* A package arrives: as sent, with a byte lost or altered, or cut off.
CoinArrives ==
    \E first \in FIRST_ANGLES, samples \in SAMPLE_KINDS :
        LET kind  == [ring |-> FALSE, samples |-> samples, start |-> NextStart(first),
                      stop |-> (NextStart(first) + SAMPLES - 1) % FULL]
            p     == Len(sent) + 1
            bytes == [i \in 1 .. CoinSize |->
                        [value |-> CoinByteAt(kind, i), package |-> p, place |-> i, altered |-> FALSE]]
            harm  == \E i \in 1 .. CoinSize :
                       \/ line' = line \o RemoveAt(bytes, i)
                       \/ \E v \in COIN_NOISE \ {bytes[i].value} :
                            line' = line \o [bytes EXCEPT ![i].value = v, ![i].altered = TRUE]
                       \/ line' = line \o SubSeq(bytes, 1, i - 1)
        IN  /\ p <= MAX_COINS /\ Len(line) < CoinSize
            /\ sent' = Append(sent, kind)
            /\ position' = Size(kind)
            /\ \/ line' = line \o bytes /\ UNCHANGED <<harmed, mishaps>>
               \/ /\ mishaps < MAX_MISHAPS /\ mishaps' = mishaps + 1
                  /\ harm /\ harmed' = harmed \union {p}
            /\ UNCHANGED <<at, parserVars, local_buf, scanVars, searched, got, coinVars>>

-----------------------------------------------------------------------------
(* waitPackage_coin: the header, the rest and one node per call.           *)

\* Mutant: any byte is taken for the first of a head.
CoinHeaderByte_AnyFirst(found, byte) ==
    LET recvPos == Len(found)
    IN  IF recvPos = 0 \/ recvPos >= Len(CoinHead) \/ byte.value = CoinHead[recvPos + 1]
          THEN Append(found, byte) ELSE <<>>

\* One turn of the loop over globalRecvBuffer.
CoinHeaderByte(found, byte) ==
    LET recvPos == Len(found)
    IN  IF recvPos >= Len(CoinHead) \/ byte.value = CoinHead[recvPos + 1]
          THEN Append(found, byte) ELSE <<>>

\* ReadHeader, then this loop over globalRecvBuffer.
ParseCoinHeader ==
    LET found == CoinHeaderByte(header, Head(globalRecvBuffer))
    IN  /\ at = "parse"
        /\ globalRecvBuffer' = Tail(globalRecvBuffer)
        /\ header' = found
        /\ at' = IF Len(globalRecvBuffer) > 1 THEN "parse"
                 ELSE IF Len(found) = PackagePaidBytes THEN "payload" ELSE "header"
        /\ UNCHANGED <<lidarVars, line, package, CheckSumResult, package_Sample_Index,
                       has_package_error, package_index, tim_scan, local_buf,
                       scanVars, historyVars, coinVars>>

\* IntervalSampleAngle, in whole units of angle.
Interval(start, stop) ==
    (IF stop < start THEN FULL - start + stop ELSE stop - start) \div (SAMPLES - 1)

\* The rest of the package.  The check sum lies where the struct has it.
ReadCoinPayload ==
    LET n     == PackageSampleBytes * SAMPLES + CoinTail
        bytes == header \o SubSeq(line, 1, n)
        start == bytes[7].value
        stop  == bytes[CoinSize - 3].value
        fits  == CheckSumFits(SubSeq(bytes, 1, CoinSize))
    IN  /\ at = "payload" /\ Len(line) >= n
        /\ line' = SubSeq(line, n + 1, Len(line))
        /\ package' = [ring |-> FALSE, samples |-> SAMPLES,
                       payload |-> SubSeq(bytes, CoinHeaderSize + 1, CoinSize - CoinTail),
                       start |-> start, interval |-> Interval(start, stop)]
        /\ CheckSumResult' = fits
        /\ has_package_error' = (has_package_error \/ ~fits)
        /\ header' = <<>>
        /\ at' = "node"
        /\ UNCHANGED <<lidarVars, globalRecvBuffer, package_Sample_Index, package_index, tim_scan,
                       local_buf, scanVars, historyVars, coinVars>>

\* The angle of the current sample, 0 in a package whose check sum is wrong.
SampleAngle ==
    LET angle == package.start + package.interval * package_Sample_Index
    IN  IF ~CheckSumResult THEN 0 ELSE IF angle > FULL THEN angle - FULL ELSE angle

\* Mutant: the angle is only remembered within a package.
AngleBefore_InPackage == IF LastSample THEN 0 ELSE SampleAngle

AngleBefore == SampleAngle

CoinPoint ==
    LET first == package.payload[PackageSampleBytes * package_Sample_Index + 1]
    IN  IF CheckSumResult
          THEN <<first.package, (first.place - CoinHeaderSize - 1) \div PackageSampleBytes + 1>>
          ELSE NoPoint

\* A ring start is where the angle has gone past zero, whatever the check sum says.
CoinSync == angle_bak > FULL - NEAR /\ SampleAngle < NEAR

EmitCoinNode ==
    LET node == [sync |-> CoinSync, point |-> CoinPoint, index |-> NoIndex]
        full == Len(local_buf) + 1 = BATCH
    IN  /\ at = "node"
        /\ local_buf' = Append(local_buf, node)
        /\ nodes' = Append(nodes, [sync |-> node.sync, point |-> node.point])
        /\ angle_bak' = AngleBefore
        /\ package_Sample_Index' = AfterSample.index
        /\ CheckSumResult' = AfterSample.fits
        /\ at' = IF CoinSync \/ full THEN "collect" ELSE IF LastSample THEN "header" ELSE "node"
        /\ got' = IF CoinPoint = NoPoint THEN got ELSE Append(got, CoinPoint)
        /\ UNCHANGED <<lidarVars, line, globalRecvBuffer, header, package, has_package_error, package_index,
                       tim_scan, scanVars, harmed, searched, mishaps, version>>

\* waitScanData has returned; read_forever takes the nodes.
CoinCollect ==
    /\ at = "collect"
    /\ local_buf' = <<>>
    /\ at' = "judge"
    /\ UNCHANGED <<lidarVars, line, parserVars, scanVars, historyVars, coinVars>>

-----------------------------------------------------------------------------
StreamInit ==
    /\ Init
    /\ version \in {"other", M1CT_Coin_Plus}
    /\ angle_bak = 0 /\ nodes = <<>>

WaitPackage == version # M1CT_Coin_Plus /\ Next /\ UNCHANGED coinVars

WaitPackageCoin ==
    /\ version = M1CT_Coin_Plus
    /\ \/ CoinArrives \/ ParseCoinHeader \/ ReadCoinPayload \/ EmitCoinNode \/ CoinCollect
       \/ (ReadHeader \/ WaitTimesOut \/ CallTimesOut \/ Listen \/ Flush) /\ UNCHANGED coinVars

StreamNext == WaitPackage \/ WaitPackageCoin

StreamSpec == StreamInit /\ [][StreamNext]_allVars

-----------------------------------------------------------------------------
(* Properties.                                                             *)

\* How far the LiDAR has turned, in all, when it takes a sample.
Turned(point) == sent[1].start + SAMPLES * (point[1] - 1) + point[2] - 1

\* Ring starts are where a revolution ends, as long as what comes in is whole:
\* of two successive nodes less than NEAR apart the second is a ring start
\* exactly if it is the first one past zero, though waitPackage_coin only
\* compares the two angles, keeps the first one across packages, timeouts and
\* calls, and shows a zero that is not a package's first angle as 360.
RingStartIsPastZero ==
    \A i \in 1 .. Len(nodes) - 1 :
        LET a == nodes[i].point
            b == nodes[i + 1].point
            zero(point) == (Turned(point) - (IF point[2] = 1 THEN 0 ELSE 1)) \div FULL
        IN  a # NoPoint /\ b # NoPoint /\ Turned(b) - Turned(a) < NEAR =>
                (nodes[i + 1].sync <=> zero(a) < zero(b))

\* The samples of the package hold nothing like the first byte of a head.
CoinQuiet(p) == \A i \in DOMAIN sent[p].samples : CoinHead[1] \notin Range(sent[p].samples[i])

Delivered(p) == \A i \in 1 .. SAMPLES : <<p, i>> \in Range(got)

\* The parser overlooks a package behind one it delivered, for it has already
\* taken its first two bytes, but then it finds the next: of two packages that
\* arrive as sent, in a stretch that did, at least one is delivered.
EverySecondArrives ==
    version = M1CT_Coin_Plus => \A p \in 1 .. Len(sent) - 2 :
        /\ \A q \in (p - 1 .. p + 2) \ {0} : q \notin harmed /\ CoinQuiet(q)
        /\ 1 .. p + 1 \intersect PackagesOf(header \o globalRecvBuffer \o line) = {} /\ at = "header"
        => Delivered(p) \/ Delivered(p + 1)
=============================================================================
