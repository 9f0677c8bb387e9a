----------------------------- MODULE StartReply -----------------------------
(***************************************************************************)
(* The LiDAR's serial port (serial_port.cpp) where several threads meet:   *)
(* the reader sends the start command and waits for the reply              *)
(* (wait_start_reply, lidar_data_processing.cpp) while the topic's thread  *)
(* or main sends a command of its own.                                     *)
(*                                                                         *)
(* A byte is the set of its bits, so that XOR is the symmetric difference. *)
(* What the LiDAR sends before, instead of and after the reply is          *)
(* arbitrary.                                                              *)
(***************************************************************************)
EXTENDS Integers, Sequences, FiniteSets

CONSTANTS
  BITS,          \* the bits of a byte
  LINE_BYTES,    \* bytes the LiDAR sends: all of them in the code
  HEAD,          \* what a reply begins with: A5 5A 50 07
  REPLY_SIZE,    \* its bytes, with the check byte at the end: 12
  COMMAND_SIZE,  \* bytes of a command: 4
  Others,        \* the threads that send commands besides the reader
  OUT_SIZE,      \* bytes the port takes before the LiDAR has had them
  TIMEOUT,       \* DEFAULT_TIMEOUT, in ticks
  MAX_BYTES      \* model bound: bytes the LiDAR sends

ReplyBytes == SUBSET BITS
Threads == Others \cup {"reader"}

ASSUME StartReplyAssumption ==
  /\ LINE_BYTES \subseteq ReplyBytes
  /\ HEAD \in Seq(ReplyBytes) /\ HEAD # <<>>
  /\ REPLY_SIZE \in Nat /\ REPLY_SIZE > Len(HEAD)
  /\ COMMAND_SIZE \in Nat \ {0} /\ OUT_SIZE \in Nat \ {0}
  /\ TIMEOUT \in Nat /\ MAX_BYTES \in Nat
  /\ "reader" \notin Others

VARIABLES
  rx,         \* bytes received and not read
  recvBuffer, \* bytes read and not looked at
  read,       \* history: bytes looked at, in order
  time,       \* ticks since wait_start_reply was called
  readerAt,   \* what the reader is about
  parser,     \* recvPos, checkvalue, checkdata
  result,     \* what wait_start_reply returned
  writer,     \* write_data of a thread: where it is and bytes_written
  placed,     \* history: whose bytes the port took, in order
  taken       \* how many of them the LiDAR has had

readVars == <<rx, recvBuffer, read, time, parser, result>>
writeVars == <<writer, placed, taken>>
replyVars == <<readVars, readerAt, writeVars>>

Xor(a, b) == (a \ b) \cup (b \ a)

ReplyInit ==
  /\ rx = <<>> /\ recvBuffer = <<>> /\ read = <<>>
  /\ time = 0
  /\ readerAt = "write"
  /\ parser = [pos |-> 0, value |-> {}, data |-> {}]
  /\ result = "none"
  /\ writer = [t \in Threads |-> [at |-> "idle", written |-> 0]]
  /\ placed = <<>> /\ taken = 0

-----------------------------------------------------------------------------
(* write_data. *)

CallWrite(t) ==
  /\ writer[t].at = "idle"
  /\ writer' = [writer EXCEPT ![t].at = "first"]
  /\ UNCHANGED <<readVars, readerAt, placed, taken>>

TimeLeft_Some(t) == TRUE   \* mutant: a write timeout other than 0

\* The timeout is that of a fresh Timeout, 0: only the first iteration runs.
TimeLeft(t) == writer[t].at = "first"

WriteSelect(t) ==
  /\ writer[t].at \in {"first", "again"} /\ TimeLeft(t)
  /\ Len(placed) - taken < OUT_SIZE
  /\ writer' = [writer EXCEPT ![t].at = "write"]
  /\ UNCHANGED <<readVars, readerAt, placed, taken>>

\* The time is over, the port takes nothing, or a signal came.  If more than a
\* millisecond passed before the first select, its timeout has become huge and
\* it waits instead, as the thread may do in any case.
WriteReturns(t) ==
  /\ writer[t].at \in {"first", "again"}
  /\ writer' = [writer EXCEPT ![t].at = "done"]
  /\ UNCHANGED <<readVars, readerAt, placed, taken>>

\* ::write takes what fits, nothing if another thread was faster.
Write(t) ==
  /\ writer[t].at = "write"
  /\ LET left == COMMAND_SIZE - writer[t].written
         free == OUT_SIZE - (Len(placed) - taken)
         n == IF left < free THEN left ELSE free
     IN  /\ placed' = placed \o [i \in 1..n |-> t]
         /\ writer' = [writer EXCEPT
              ![t] = [at |-> IF n = left THEN "done" ELSE "again",
                      written |-> @.written + n]]
  /\ UNCHANGED <<readVars, readerAt, taken>>

LidarTakes ==
  /\ taken < Len(placed)
  /\ taken' = taken + 1
  /\ UNCHANGED <<readVars, readerAt, writer, placed>>

-----------------------------------------------------------------------------
(* wait_start_reply: nobody looks at whether the command went out whole. *)

BeginWait ==
  /\ readerAt = "write" /\ writer["reader"].at = "done"
  /\ readerAt' = "wait"
  /\ UNCHANGED <<readVars, writeVars>>

Waiting == readerAt \in {"wait", "short"}

\* Bytes that came earlier are as if they came now.
Receive ==
  /\ Waiting /\ Len(read) + Len(rx) < MAX_BYTES
  /\ \E b \in LINE_BYTES : rx' = Append(rx, b)
  /\ UNCHANGED <<recvBuffer, read, time, parser, result, readerAt, writeVars>>

Tick ==
  /\ readerAt \notin {"write", "done"} /\ time <= TIMEOUT
  /\ time' = time + 1
  /\ UNCHANGED <<rx, recvBuffer, read, parser, result, readerAt, writeVars>>

\* What is missing of a reply.
Ask(pos) == REPLY_SIZE - pos

\* waitForData: FIONREAD says there is a whole reply's worth ...
DataReady ==
  /\ Waiting /\ Len(rx) >= REPLY_SIZE
  /\ readerAt' = "read"
  /\ UNCHANGED <<readVars, writeVars>>

\* ... or not, and it goes on waiting ...
DataShort ==
  /\ readerAt = "wait" /\ Len(rx) < REPLY_SIZE
  /\ readerAt' = "short"
  /\ UNCHANGED <<readVars, writeVars>>

Fail ==
  /\ readerAt' = "done" /\ result' = "fail"
  /\ UNCHANGED <<rx, recvBuffer, read, time, parser, writeVars>>

\* ... until the time is over, whatever has come since it looked.
ReplyTimesOut == readerAt = "short" /\ time >= TIMEOUT /\ Fail

\* A signal interrupts the select.
WaitInterrupted == readerAt = "short" /\ Fail

WrongByte(p, byte) == p.pos < Len(HEAD) /\ byte # HEAD[p.pos + 1]

\* Behind the last byte nothing but recvPos would change.
KeepByte(p, byte) ==
  IF p.pos < REPLY_SIZE - 1 THEN [p EXCEPT !.pos = @ + 1, !.value = Xor(@, byte)]
  ELSE IF p.pos = REPLY_SIZE - 1 THEN [p EXCEPT !.pos = @ + 1, !.data = byte]
  ELSE [p EXCEPT !.pos = @ + 1]

ParseByte_KeepsPlace(p, byte) ==   \* mutant: a wrong byte of the head is skipped
  IF WrongByte(p, byte) THEN p ELSE KeepByte(p, byte)

\* The byte at recvPos.  A wrong one starts the search again behind it, with
\* checkvalue as it is.
ParseByte(p, byte) ==
  IF WrongByte(p, byte) THEN [p EXCEPT !.pos = 0] ELSE KeepByte(p, byte)

\* read_data: the bytes are there, one read gets them all.
ReadData ==
  /\ readerAt = "read"
  /\ LET n == Ask(parser.pos)
     IN  recvBuffer' = SubSeq(rx, 1, n) /\ rx' = SubSeq(rx, n + 1, Len(rx))
  /\ readerAt' = "parse"
  /\ UNCHANGED <<read, time, parser, result, writeVars>>

\* One turn of the loop over them.
ParseReply ==
  /\ readerAt = "parse" /\ recvBuffer # <<>>
  /\ parser' = ParseByte(parser, Head(recvBuffer))
  /\ recvBuffer' = Tail(recvBuffer)
  /\ read' = Append(read, Head(recvBuffer))
  /\ UNCHANGED <<rx, time, result, readerAt, writeVars>>

\* checkvalue and checkdata agree on a whole reply.
Accepted == parser.value = parser.data /\ parser.pos = REPLY_SIZE

\* The verdict and the loop's condition.
JudgeReply ==
  /\ readerAt = "parse" /\ recvBuffer = <<>>
  /\ result' = IF Accepted THEN "ok" ELSE IF time <= TIMEOUT THEN "none" ELSE "fail"
  /\ readerAt' = IF result' = "none" THEN "wait" ELSE "done"
  /\ UNCHANGED <<rx, recvBuffer, read, time, parser, writeVars>>

-----------------------------------------------------------------------------

Reader ==
  BeginWait \/ DataReady \/ DataShort \/ ReplyTimesOut \/ ReadData \/ ParseReply \/ JudgeReply

ReplyNext ==
  \/ \E t \in Threads : CallWrite(t) \/ WriteSelect(t) \/ WriteReturns(t) \/ Write(t)
  \/ LidarTakes
  \/ Receive
  \/ Tick
  \/ Reader
  \/ WaitInterrupted

ReplySpec == ReplyInit /\ [][ReplyNext]_replyVars

-----------------------------------------------------------------------------
(* Properties. *)

\* A head lies in s from place i on.
HeadAt(s, i) == \A k \in 1..Len(HEAD) : s[i + k - 1] = HEAD[k]

\* The check byte of n bytes of s from place i on: the bits that an odd number
\* of them have.
CheckOf(s, i, n) == {bit \in BITS : Cardinality({j \in i..(i + n - 1) : bit \in s[j]}) % 2 = 1}

\* A reply does, as the LiDAR would send it.
IsReply(s, i) == HeadAt(s, i) /\ s[i + REPLY_SIZE - 1] = CheckOf(s, i, REPLY_SIZE - 1)

\* No byte before place i could have been taken for the beginning of a head.
Clean(s, i) == \A j \in 1..(i - 1) : s[j] # HEAD[1]

\* When wait_start_reply returns true it has read the line exactly to the end
\* of a whole reply, so what waitPackage reads next is the first byte behind
\* it; and unless something like a head came before, that reply is undamaged.
TrueMeansReply ==
  result = "ok" =>
    LET i == Len(read) - REPLY_SIZE + 1
    IN  /\ i >= 1
        /\ HeadAt(read, i)
        /\ Clean(read, i) => IsReply(read, i)

\* As long as it waits on, and when it gives up, it has not read over a reply
\* with nothing like a head before it, however the bytes came in and however
\* they were split into reads.
NoReplyOverlooked ==
  (Waiting \/ readerAt = "done") /\ result # "ok" =>
    \A i \in 1..(Len(read) - REPLY_SIZE + 1) : ~(Clean(read, i) /\ IsReply(read, i))

\* wait_start_reply answers true only at the exact end of a head and the
\* length of a reply, undamaged if no byte before it looked like a head's, and
\* reads over no undamaged reply with no such byte before it.  More does not
\* hold: after a stray first byte of a head the code misses an intact reply.
AnswerIsRight == TrueMeansReply /\ NoReplyOverlooked

\* What the LiDAR gets of one command lies together on the line: no other
\* thread's bytes in between, though the threads share the port without a
\* lock and a write may be cut short.
CommandsNotMixed ==
  \A i, k \in 1..Len(placed) : i < k /\ placed[i] = placed[k] =>
    \A j \in i..k : placed[j] = placed[i]
=============================================================================
