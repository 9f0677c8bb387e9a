--------------------------- MODULE PackageStream ---------------------------
(***************************************************************************)
(* From bytes to revolutions: waitPackage and waitScanData                 *)
(* (lidar_data_processing.cpp) find the packages in the LiDAR's byte       *)
(* stream and turn their samples into nodes; the loop of read_forever      *)
(* (node_lidar.cpp) gathers the nodes between two ring starts into a scan. *)
(* The line may lose or alter a byte, the LiDAR may fall silent within a   *)
(* package, and the reader may be told to flush the line.                  *)
(*                                                                         *)
(* A byte carries its value and, for the properties only, where it comes   *)
(* from.  Angles, distances and intensities are left out.  Instead of the  *)
(* XOR itself the model has what it is for: it accepts the bytes of one    *)
(* package, all of them and as sent, and nothing else.  That is exact for  *)
(* a single altered byte and an assumption for any other string of bytes.  *)
(***************************************************************************)
EXTENDS Integers, Sequences, FiniteSets, SequencesExt

CONSTANTS KINDS,         \* what a package may be: [ring, samples]
          NOISE,         \* values an altered byte may take
          BATCH,         \* nodes waitScanData returns at most: 128
          LOCAL_SCAN,    \* _countof(local_scan): 1000
          LINE,          \* bound: bytes that wait in the line
          MAX_PACKAGES,  \* bound: packages the LiDAR sends
          MAX_MISHAPS    \* bound: bytes lost or altered, and flushes

PackagePaidBytes == 10
PackageSampleBytes == 3
PH_LOW == 170    \* PH & 0xFF
PH_HIGH == 85    \* PH >> 8
NoIndex == 255

ByteValues == 0 .. 255
Samples == [1 .. PackageSampleBytes -> ByteValues]

\* A package holds at least one sample, a ring start exactly one, and as many
\* as a byte can say.
ASSUME StreamAssumption ==
    /\ \A kind \in KINDS :
         /\ kind.ring \in BOOLEAN
         /\ kind.samples \in Seq(Samples)
         /\ Len(kind.samples) \in ByteValues \ {0}
         /\ kind.ring => Len(kind.samples) = 1
    /\ NOISE \subseteq ByteValues
    /\ BATCH \in Nat \ {0} /\ LOCAL_SCAN \in Nat \ {0, 1}
    /\ {LINE, MAX_PACKAGES, MAX_MISHAPS} \subseteq Nat

VARIABLES
    sent,                  \* kinds of the packages sent, the last one perhaps in part
    position,              \* bytes of the last one that left the LiDAR
    line,                  \* bytes received and not read yet
    at,                    \* what the reader does next
    globalRecvBuffer,      \* bytes of the header just read and not looked at yet
    header,                \* packageBuffer[0 .. recvPos - 1]
    package,               \* the package in scan_packages: [ring, samples, payload]
    CheckSumResult,
    package_Sample_Index,
    has_package_error,
    package_index,
    tim_scan,              \* [start, end]: tim_scan_start, tim_scan_end
    local_buf,             \* nodes of the current call of waitScanData
    local_scan,            \* nodes since the last ring start
    scan,                  \* what was handed over last: [nodes, start, end, closedBy]
    \* History, for the properties.
    harmed,                \* packages with a byte lost, altered, flushed or dropped
    searched,              \* packages whose first byte was read as a header byte
    got,                   \* points reported, in order: <<package, sample>>
    mishaps

lidarVars == <<sent, position>>
parserVars == <<globalRecvBuffer, header, package, CheckSumResult,
                package_Sample_Index, has_package_error, package_index, tim_scan>>
scanVars == <<local_scan, scan>>
historyVars == <<harmed, searched, got, mishaps>>
vars == <<lidarVars, line, at, parserVars, local_buf, scanVars, historyVars>>

-----------------------------------------------------------------------------
(* The LiDAR and the line.                                                 *)

\* The byte of a sample at a place of its package, behind n bytes of header.
SampleByte(samples, n, place) ==
    LET k == place - n - 1
    IN  samples[(k \div PackageSampleBytes) + 1][(k % PackageSampleBytes) + 1]

\* A byte of a package: head, CT, number of samples, first and last angle
\* with their check bits, check sum; then the samples.
ByteAt(kind, place) ==
    IF place <= PackagePaidBytes
      THEN <<PH_LOW, PH_HIGH, IF kind.ring THEN 1 ELSE 0, Len(kind.samples),
             1, 0, 1, 0, 0, 0>>[place]
      ELSE SampleByte(kind.samples, PackagePaidBytes, place)

Size(kind) == PackagePaidBytes + PackageSampleBytes * Len(kind.samples)

\* The next byte of the package under way.
NextByte ==
    [value |-> ByteAt(Last(sent), position + 1), package |-> Len(sent),
     place |-> position + 1, altered |-> FALSE]

PackageUnderWay == sent # <<>> /\ position < Size(Last(sent))

\* The LiDAR begins a package.
BeginPackage ==
    /\ ~PackageUnderWay /\ Len(sent) < MAX_PACKAGES
    /\ \E kind \in KINDS : sent' = Append(sent, kind)
    /\ position' = 0
    /\ UNCHANGED <<line, at, parserVars, local_buf, scanVars, historyVars>>

\* A byte arrives as sent ...
ByteArrives ==
    /\ PackageUnderWay /\ Len(line) < LINE
    /\ position' = position + 1
    /\ line' = Append(line, NextByte)
    /\ UNCHANGED <<sent, at, parserVars, local_buf, scanVars, historyVars>>

\* ... or does not, or is altered.
ByteHarmed ==
    /\ PackageUnderWay /\ Len(line) < LINE /\ mishaps < MAX_MISHAPS
    /\ position' = position + 1
    /\ \/ UNCHANGED line
       \/ \E v \in NOISE \ {NextByte.value} :
            line' = Append(line, [NextByte EXCEPT !.value = v, !.altered = TRUE])
    /\ harmed' = harmed \union {Len(sent)}
    /\ mishaps' = mishaps + 1
    /\ UNCHANGED <<sent, at, parserVars, local_buf, scanVars, searched, got>>

-----------------------------------------------------------------------------
(* waitPackage: the header.                                                *)

PackagesOf(bytes) == {bytes[i].package : i \in DOMAIN bytes}

\* When the byte was read, as getTime() orders it.
Stamp(byte) == 1000 * byte.package + byte.place

\* Mutant: every ring start begins a scan.
RingStamp_StartAlways(tim, byte) ==
    IF byte.value % 2 = 0 THEN tim ELSE [start |-> Stamp(byte), end |-> Stamp(byte)]

\* A ring start's stamp, taken as soon as its CT byte is read.
RingStamp(tim, byte) ==
    IF byte.value % 2 = 0 THEN tim
    ELSE IF tim.start = 0 THEN [tim EXCEPT !.start = Stamp(byte)]
    ELSE [tim EXCEPT !.end = Stamp(byte)]

\* Mutant: any byte is taken for the first of a head.
HeaderByte_AnyFirst(state, byte) ==
    LET recvPos == Len(state.header)
        kept    == [state EXCEPT !.header = Append(@, byte)]
        again   == [state EXCEPT !.header = <<>>]
    IN  CASE recvPos = 1 -> IF byte.value = PH_HIGH THEN kept ELSE again
          [] recvPos = 2 -> [kept EXCEPT !.tim = RingStamp(@, byte)]
          [] recvPos \in {4, 6} ->
               IF byte.value % 2 = 1 THEN kept ELSE [again EXCEPT !.error = TRUE]
          [] OTHER -> kept

\* One turn of the loop over globalRecvBuffer: the byte is kept, or the
\* search starts over behind it.
HeaderByte(state, byte) ==
    LET recvPos == Len(state.header)
        kept    == [state EXCEPT !.header = Append(@, byte)]
        again   == [state EXCEPT !.header = <<>>]
    IN  CASE recvPos = 0 -> IF byte.value = PH_LOW THEN kept ELSE again
          [] recvPos = 1 -> IF byte.value = PH_HIGH THEN kept ELSE again
          [] recvPos = 2 -> [kept EXCEPT !.tim = RingStamp(@, byte)]
          [] recvPos \in {4, 6} ->
               IF byte.value % 2 = 1 THEN kept ELSE [again EXCEPT !.error = TRUE]
          [] OTHER -> kept

\* waitForData returns when as many bytes are there as the header lacks, and
\* exactly these are read.
ReadHeader ==
    LET n == PackagePaidBytes - Len(header)
    IN  /\ at = "header" /\ Len(line) >= n
        /\ globalRecvBuffer' = SubSeq(line, 1, n)
        /\ line' = SubSeq(line, n + 1, Len(line))
        /\ at' = "parse"
        /\ UNCHANGED <<lidarVars, header, package, CheckSumResult, package_Sample_Index,
                       has_package_error, package_index, tim_scan, local_buf,
                       scanVars, historyVars>>

\* The loop over globalRecvBuffer; the next turn, or what comes behind it.
ParseHeader ==
    LET byte  == Head(globalRecvBuffer)
        state == HeaderByte([header |-> header, error |-> has_package_error, tim |-> tim_scan], byte)
    IN  /\ at = "parse"
        /\ globalRecvBuffer' = Tail(globalRecvBuffer)
        /\ header' = state.header
        /\ has_package_error' = state.error
        /\ tim_scan' = state.tim
        /\ at' = IF Len(globalRecvBuffer) > 1 THEN "parse"
                 ELSE IF Len(state.header) = PackagePaidBytes THEN "payload" ELSE "header"
        /\ searched' = IF byte.place = 1 THEN searched \union {byte.package} ELSE searched
        /\ UNCHANGED <<lidarVars, line, package, CheckSumResult, package_Sample_Index,
                       package_index, local_buf, scanVars, harmed, got, mishaps>>

-----------------------------------------------------------------------------
(* waitPackage: the samples and the check sum.                             *)

\* The check sum fits the bytes of one package, as sent.
CheckSumFits(bytes) ==
    \A i \in DOMAIN bytes :
        bytes[i].package = bytes[1].package /\ bytes[i].place = i /\ ~bytes[i].altered

ReadPayload ==
    LET samples == header[4].value
        n       == samples * PackageSampleBytes
        payload == SubSeq(line, 1, n)
        fits    == CheckSumFits(header \o payload)
    IN  /\ at = "payload" /\ Len(line) >= n
        /\ line' = SubSeq(line, n + 1, Len(line))
        /\ package' = [ring |-> header[3].value % 2 = 1, samples |-> samples, payload |-> payload]
        /\ CheckSumResult' = fits
        /\ has_package_error' = (has_package_error \/ ~fits)
        /\ header' = <<>>
        /\ at' = "node"
        /\ UNCHANGED <<lidarVars, globalRecvBuffer, package_Sample_Index, package_index,
                       tim_scan, local_buf, scanVars, historyVars>>

\* Mutant: a call that fails gives back no nodes.
WaitTimesOut_DropsNodes ==
    /\ at \in {"header", "payload"}
    /\ harmed' = harmed \union PackagesOf(header)
    /\ header' = <<>>
    /\ local_buf' = <<>>
    /\ at' = "collect"
    /\ UNCHANGED <<lidarVars, line, globalRecvBuffer, package, CheckSumResult,
                   package_Sample_Index, has_package_error, package_index, tim_scan,
                   scanVars, searched, got, mishaps>>

\* The time of waitForData or of the loop around it runs out, and with it the
\* call: what was read of a header is forgotten, what was not read stays in
\* the line.
WaitTimesOut ==
    /\ at \in {"header", "payload"}
    /\ harmed' = harmed \union PackagesOf(header)
    /\ header' = <<>>
    /\ at' = "collect"
    /\ UNCHANGED <<lidarVars, line, globalRecvBuffer, package, CheckSumResult,
                   package_Sample_Index, has_package_error, package_index, tim_scan,
                   local_buf, scanVars, searched, got, mishaps>>

-----------------------------------------------------------------------------
(* waitPackage: one node per call; waitScanData gathers them.              *)

NoPoint == <<>>

\* Where the sample at package_Sample_Index comes from.
PointAt(index) ==
    LET first == package.payload[PackageSampleBytes * index + 1]
    IN  <<first.package, (first.place - PackagePaidBytes - 1) \div PackageSampleBytes + 1>>

\* The node for the current sample.  Without a check sum that fits it has no
\* distance and is no ring start.
Node ==
    [sync  |-> package.ring /\ CheckSumResult,
     point |-> IF CheckSumResult THEN PointAt(package_Sample_Index) ELSE NoPoint,
     index |-> IF ~package.ring /\ ~has_package_error /\ package_index < 10
                 THEN package_index ELSE NoIndex]

LastSample == package_Sample_Index + 1 >= package.samples

\* Mutant: the sample that fills the batch is not counted.
AfterSample_NotAtFullBatch ==
    IF Len(local_buf) + 1 = BATCH
      THEN [index |-> package_Sample_Index, fits |-> CheckSumResult]
    ELSE IF LastSample THEN [index |-> 0, fits |-> FALSE]
    ELSE [index |-> package_Sample_Index + 1, fits |-> CheckSumResult]

AfterSample ==
    IF LastSample THEN [index |-> 0, fits |-> FALSE]
    ELSE [index |-> package_Sample_Index + 1, fits |-> CheckSumResult]

\* Mutant: a ring start clears the error whether its check sum fits or not.
ErrorCleared_Unchecked == package.ring

ErrorCleared == package.ring /\ CheckSumResult

\* waitScanData returns at a ring start and when its buffer is full.
EmitNode ==
    LET nodes == Append(local_buf, Node)
    IN  /\ at = "node"
        /\ local_buf' = nodes
        /\ package_index' = IF package.ring \/ has_package_error THEN 0
                            ELSE IF package_Sample_Index = 0 THEN package_index + 1
                            ELSE package_index
        /\ has_package_error' = (has_package_error /\ ~ErrorCleared)
        /\ package_Sample_Index' = AfterSample.index
        /\ CheckSumResult' = AfterSample.fits
        /\ at' = IF Node.sync \/ Len(nodes) = BATCH THEN "collect"
                 ELSE IF LastSample THEN "header" ELSE "node"
        /\ got' = IF Node.point = NoPoint THEN got ELSE Append(got, Node.point)
        /\ UNCHANGED <<lidarVars, line, globalRecvBuffer, header, package, tim_scan,
                       scanVars, harmed, searched, mishaps>>

\* The time of waitScanData runs out between two nodes of a package.
CallTimesOut ==
    /\ at = "node" /\ package_Sample_Index > 0 /\ local_buf # <<>>
    /\ at' = "collect"
    /\ UNCHANGED <<lidarVars, line, parserVars, local_buf, scanVars, historyVars>>

-----------------------------------------------------------------------------
(* read_forever.                                                           *)

\* Mutant: the full array is not stepped back.
Stored_NoStepBack(nodes, more) ==
    LET all == nodes \o more
    IN  IF Len(all) <= LOCAL_SCAN THEN all ELSE SubSeq(all, 1, LOCAL_SCAN)

\* local_scan[scan_count++] = node for each; a full array steps back by one,
\* so that its last place is never kept.
Stored(nodes, more) ==
    LET all == nodes \o more
    IN  IF Len(all) < LOCAL_SCAN THEN all ELSE SubSeq(all, 1, LOCAL_SCAN - 1)

\* The nodes go to local_scan whether the call succeeded or not.  A ring
\* start, the last node of its call, closes the scan before it, if that began
\* with one, and opens the next.
Collect ==
    LET closes == local_buf # <<>> /\ Last(local_buf).sync
        before == IF closes THEN Front(local_buf) ELSE local_buf
        nodes  == Stored(local_scan, before)
        full   == closes /\ nodes # <<>> /\ nodes[1].sync
    IN  /\ at = "collect"
        /\ local_scan' = IF closes THEN <<Last(local_buf)>> ELSE nodes
        /\ scan' = IF full
                     THEN [nodes |-> nodes, start |-> tim_scan.start, end |-> tim_scan.end,
                           closedBy |-> Last(local_buf).point[1]]
                     ELSE scan
        /\ tim_scan' = IF full THEN [tim_scan EXCEPT !.start = tim_scan.end] ELSE tim_scan
        /\ local_buf' = <<>>
        /\ at' = "judge"
        /\ UNCHANGED <<lidarVars, line, globalRecvBuffer, header, package, CheckSumResult,
                       package_Sample_Index, has_package_error, package_index, historyVars>>

\* lidar_state_judgment lets the reader go on: waitScanData again.
Listen ==
    /\ at = "judge"
    /\ at' = IF package_Sample_Index = 0 THEN "header" ELSE "node"
    /\ UNCHANGED <<lidarVars, line, parserVars, local_buf, scanVars, historyVars>>

\* The LiDAR was stopped: it gives up the package under way, and flushSerial
\* empties the line.  The parser and local_scan keep what they have.
Flush ==
    /\ at = "judge" /\ mishaps < MAX_MISHAPS
    /\ sent # <<>>
    /\ harmed' = harmed \union PackagesOf(line) \union
          (IF PackageUnderWay THEN {Len(sent)} ELSE {})
    /\ position' = Size(Last(sent))
    /\ line' = <<>>
    /\ mishaps' = mishaps + 1
    /\ UNCHANGED <<sent, at, parserVars, local_buf, scanVars, searched, got>>

-----------------------------------------------------------------------------
Init ==
    /\ sent = <<>> /\ position = 0 /\ line = <<>>
    /\ at = "judge" /\ globalRecvBuffer = <<>> /\ header = <<>>
    /\ package = [ring |-> FALSE, samples |-> 0, payload |-> <<>>]
    /\ CheckSumResult = FALSE /\ package_Sample_Index = 0
    /\ has_package_error = FALSE /\ package_index = 0
    /\ tim_scan = [start |-> 0, end |-> 0]
    /\ local_buf = <<>> /\ local_scan = <<>>
    /\ scan = [nodes |-> <<>>, start |-> 0, end |-> 0, closedBy |-> 0]
    /\ harmed = {} /\ searched = {} /\ got = <<>> /\ mishaps = 0

Next ==
    \/ BeginPackage \/ ByteArrives \/ ByteHarmed
    \/ ReadHeader \/ ParseHeader \/ ReadPayload \/ WaitTimesOut \/ EmitNode
    \/ CallTimesOut \/ Collect \/ Listen \/ Flush

Spec == Init /\ [][Next]_vars

-----------------------------------------------------------------------------
(* Properties.                                                             *)

\* One type invariant for the module.
TypeOK ==
    /\ at \in {"judge", "header", "parse", "payload", "node", "collect"}
    /\ globalRecvBuffer # <<>> <=> at = "parse"
    /\ at = "parse" => Len(header) + Len(globalRecvBuffer) <= PackagePaidBytes
    /\ Len(header) <= PackagePaidBytes /\ (Len(header) = PackagePaidBytes <=> at = "payload")
    /\ Len(local_buf) <= BATCH /\ Len(local_scan) < LOCAL_SCAN
    /\ Len(package.payload) = PackageSampleBytes * package.samples
    /\ package_Sample_Index = 0 \/ package_Sample_Index < package.samples
    /\ CheckSumResult => at \notin {"header", "parse", "payload"}
    /\ harmed \union searched \subseteq 1 .. Len(sent)
    /\ \A i \in DOMAIN got : got[i][1] \in DOMAIN sent /\ got[i][2] \in DOMAIN sent[got[i][1]].samples
    /\ mishaps <= MAX_MISHAPS

\* Points are reported in the order they were sent and never twice, across
\* damage, timeouts within a package, full batches and flushes
\* (package_Sample_Index and CheckSumResult outlive a call of waitPackage).
PointsInOrder ==
    \A i, j \in DOMAIN got : i < j =>
        \/ got[i][1] < got[j][1]
        \/ got[i][1] = got[j][1] /\ got[i][2] < got[j][2]

\* The point behind a point: of the same package, or of the next.
Successor(point) ==
    IF point[2] < Len(sent[point[1]].samples) THEN <<point[1], point[2] + 1>>
                                              ELSE <<point[1] + 1, 1>>

Opened == scan.nodes[1].point[1]
HasScan == scan.closedBy > 0

\* A scan handed over is one revolution, whole and in order, up to what
\* local_scan holds, provided nothing of it was harmed on the line: nothing
\* before it matters, nor how the nodes fell into batches and failed calls.
ScanIsOneRevolution ==
    HasScan /\ harmed \intersect (Opened .. scan.closedBy) = {} =>
        LET nodes == scan.nodes
        IN  /\ \A p \in Opened + 1 .. scan.closedBy - 1 : ~sent[p].ring
            /\ nodes[1].point[2] = 1
            /\ \A i \in 2 .. Len(nodes) : nodes[i].point = Successor(nodes[i - 1].point)
            /\ IF Len(nodes) < LOCAL_SCAN - 1
                 THEN Successor(Last(nodes).point) = <<scan.closedBy, 1>>
                 ELSE Len(nodes) = LOCAL_SCAN - 1 /\ Last(nodes).point[1] < scan.closedBy

\* scan_end_time is the ring start that closed the scan, scan_start_time an
\* earlier one, and the one that opened it when nothing was harmed so far
\* (tim_scan_start and tim_scan_end are set by headers nobody has checked yet).
ScanTimesFit ==
    HasScan =>
        /\ scan.start < scan.end /\ scan.end = 1000 * scan.closedBy + 3
        /\ harmed \intersect (1 .. scan.closedBy) = {} => scan.start = 1000 * Opened + 3

\* A node that tells its package's position in the revolution
\* (debug_info, index) is in a scan without damage before it
\* (has_package_error).
IndexMeansNoDamage ==
    \A nodes \in {local_scan, scan.nodes} : \A i \in DOMAIN nodes :
        nodes[i].index # NoIndex => \A j \in 1 .. i : nodes[j].point # NoPoint

\* No sample of the package looks like the first byte of a head.
Quiet(p) == \A i \in DOMAIN sent[p].samples : PH_LOW \notin Range(sent[p].samples[i])

\* The parser has done with a package.
Past(p) ==
    /\ p < Len(sent) \/ ~PackageUnderWay
    /\ p \notin PackagesOf(header \o globalRecvBuffer \o line) /\ ~CheckSumResult

\* The search for a head resynchronises: whatever was lost or altered before,
\* a package whose first byte it meets is delivered, if this package and the
\* one before it arrived as sent and the latter is quiet.  (A head right
\* behind a byte like its first is overlooked: case 1 of waitPackage does not
\* test again the byte that disappoints it.)
SearchFindsHead ==
    \A p \in searched \ harmed :
        /\ p > 1 => p - 1 \notin harmed /\ Quiet(p - 1)
        /\ Past(p)
        => \A i \in DOMAIN sent[p].samples : <<p, i>> \in Range(got)
=============================================================================
