------------------------- MODULE VoltronicDevProofs -------------------------
(***************************************************************************)
(* Theorems about VoltronicDev for every value of its constants: any       *)
(* report size, buffer, timeout, set of options, and any behaviour of the  *)
(* clock, the back end and the device.                                     *)
(***************************************************************************)
EXTENDS VoltronicDev, SequenceTheorems, TLAPS

-----------------------------------------------------------------------------
(* Lemmas about the operators. *)

\* A difference of two readings of the clock is a value of the clock's type.
LEMMA ElapsedType ==
  ASSUME NEW x \in Int, NEW y \in Int
  PROVE  Elapsed(x, y) \in 0 .. ClockMod - 1
  BY TimeAssumption DEF Elapsed

\* GET_REPORT_SIZE of a positive count is positive, and the smaller of two.
LEMMA ReportSizeBounds ==
  ASSUME NEW n \in Nat \ {0}
  PROVE  /\ GetReportSize(n) \in 1 .. n
         /\ GetReportSize(n) <= HidReportSize
         /\ GetReportSize(n) < n => GetReportSize(n) = HidReportSize
  BY ReportSizeAssumption DEF GetReportSize

\* A write takes a whole report or fails.
LEMMA WriteResults == ImplWriteResults = {HidReportSize, -1}
  BY ReportSizeAssumption DEF ImplWriteResults, HidWriteResults, GetReportSize

\* A read into a buffer of n > 0 bytes brings at most n bytes.
LEMMA ReadResults ==
  ASSUME NEW n \in Nat \ {0}, NEW bytes_read \in ImplReadResults(n)
  PROVE  bytes_read \in -1 .. n
  BY ReportSizeBounds, ReportSizeAssumption DEF ImplReadResults

\* What the device has after one more report, if it had a prefix of the
\* request: a longer prefix.
LEMMA PrefixGrows ==
  ASSUME NEW s \in Seq(Nat), s = [i \in 1 .. Len(s) |-> i], NEW n \in Nat,
         NEW t, t = s \o [i \in 1 .. n |-> Len(s) + i]
  PROVE  /\ t \in Seq(Nat)
         /\ Len(t) = Len(s) + n
         /\ t = [i \in 1 .. Len(t) |-> i]
<1> DEFINE r == [i \in 1 .. n |-> Len(s) + i]
<1>1. r \in Seq(Nat) /\ Len(r) = n
  OBVIOUS
<1>2. t \in Seq(Nat) /\ Len(t) = Len(s) + n
  BY <1>1
<1>3. ASSUME NEW i \in 1 .. Len(t) PROVE t[i] = i
  <2>1. CASE i <= Len(s)
    BY <1>1, <1>2, <2>1
  <2>2. CASE i > Len(s)
    BY <1>1, <1>2, <2>2
  <2> QED BY <2>1, <2>2, <1>2
<1>4. t = [i \in 1 .. Len(t) |-> i]
  BY <1>2, <1>3
<1> QED BY <1>2, <1>4

\* A request has at least its terminator.
LEMMA CopyLengthPositive ==
  ASSUME send_length \in Nat
  PROVE  CopyLength \in Nat \ {0} /\ (CopyLength = send_length + 1 \/ CopyLength = send_length + 3)
  BY DEF CopyLength, NonDataSize, EndOfInputSize, CrcSize

-----------------------------------------------------------------------------
(* The inductive invariant: the three loops' control state tied to their   *)
(* buffers.  TypeOK is not inductive alone, size and room are bounded only *)
(* because together they stay the receive buffer; WaitIsBounded needs that *)
(* the loop goes on only with time left; RequestInOrder needs that offset  *)
(* and bytes_left are the split of the request at what was sent.           *)

\* The write loop's pointer and count are the split of the request at the
\* bytes that went out.
WriteInv ==
  /\ sent = [i \in 1 .. Len(sent) |-> i]
  /\ pc = "execute" => Len(sent) = 0 /\ offset = 0
  /\ pc = "write" => /\ offset = Len(sent)
                     /\ bytes_left = CopyLength - offset
                     /\ bytes_left > 0
  /\ pc \in {"written", "read"} \/ result > 0 => Len(sent) = CopyLength

\* The read loop's count and room are the split of the receive buffer, and it
\* waits only while there is time.
ReadInv ==
  /\ pc # "done" => size + room = ReceiveLength /\ result = NotYet
  /\ pc \in {"execute", "write", "written"} => size = 0 /\ elapsed = 0
  /\ pc = "read" => /\ room > 0
                    /\ elapsed < recv_timeout
                    /\ recv_timeout <= timeout

IndInv == TypeOK /\ WriteInv /\ ReadInv

\* The call starts in the invariant.
LEMMA InitInv == Init => IndInv
<1> SUFFICES ASSUME Init PROVE IndInv
  OBVIOUS
<1> USE ArgumentAssumption, TimeAssumption DEF Init
<1>1. TypeOK
  BY DEF TypeOK, NotYet
<1>2. WriteInv
  BY DEF WriteInv, NotYet
<1>3. ReadInv
  BY DEF ReadInv, NotYet
<1> QED BY <1>1, <1>2, <1>3 DEF IndInv

\* The passing of time keeps the clock in its type.
LEMMA WaitType ==
  ASSUME TypeOK, NEW d \in Nat, Wait(d)
  PROVE  now' \in Nat /\ clock' \in 0 .. ClockMod - 1 /\ steps' \in 0 .. MaxClockSteps
<1>1. clock + d * TicksPerMs \in Int
  BY TimeAssumption DEF TypeOK
<1>2. (clock + d * TicksPerMs) % ClockMod \in 0 .. ClockMod - 1
  BY <1>1, TimeAssumption
<1> QED BY <1>2 DEF TypeOK, Wait

\* Every step of the call keeps the invariant.
LEMMA ExecuteInv ==
  ASSUME IndInv, Execute
  PROVE  IndInv'
<1>1. now' \in Nat /\ clock' \in 0 .. ClockMod - 1 /\ steps' \in 0 .. MaxClockSteps
  <2>1. PICK d \in 0 .. MaxDelay : Wait(d)
    BY DEF Execute
  <2> QED BY <2>1, WaitType, TimeAssumption DEF IndInv
<1>2. CopyLength \in Nat \ {0} /\ CopyLength' = CopyLength
  <2>1. send_length \in Nat
    BY ArgumentAssumption DEF IndInv, TypeOK
  <2> QED BY <2>1, CopyLengthPositive DEF Execute, args, CopyLength
<1>3. TypeOK'
  BY <1>1, <1>2 DEF IndInv, TypeOK, Execute, args, read, out
<1>4. WriteInv'
  BY <1>2 DEF IndInv, TypeOK, WriteInv, ReadInv, Execute, args, read, out, NotYet
<1>5. ReadInv'
  BY DEF IndInv, TypeOK, ReadInv, Execute, args, read, out
<1> QED BY <1>3, <1>4, <1>5 DEF IndInv

LEMMA SetClockInv ==
  ASSUME IndInv, SetClock
  PROVE  IndInv'
<1> USE DEF IndInv, SetClock, args, write, read, out
<1>1. TypeOK'
  BY TimeAssumption DEF TypeOK
<1>2. WriteInv'
  BY DEF WriteInv, CopyLength
<1>3. ReadInv'
  BY DEF ReadInv
<1> QED BY <1>1, <1>2, <1>3

\* One more report: what was sent grows by it, and when nothing is left the
\* device has the whole request.
LEMMA WriteReportInv ==
  ASSUME IndInv, WriteReport
  PROVE  IndInv'
<1> USE DEF IndInv
<1>0. PICK write_result \in ImplWriteResults :
        IF write_result < 0
          THEN /\ \E err \in {"OK", "EIO"} : Fail(err)
               /\ UNCHANGED write
          ELSE /\ sent' = sent \o Report
               /\ bytes_left' = bytes_left - write_result
               /\ IF AllWritten(bytes_left')
                    THEN /\ pc' = "written"
                         /\ errno' = "OK"
                         /\ UNCHANGED <<offset, result>>
                    ELSE /\ offset' = offset + write_result
                         /\ IF Elapsed(clock', loop_start) >= timeout
                              THEN Fail("ETIMEDOUT")
                              ELSE pc' = pc /\ errno' = "OK" /\ UNCHANGED result
  BY DEF WriteReport
<1>1. now' \in Nat /\ clock' \in 0 .. ClockMod - 1 /\ steps' \in 0 .. MaxClockSteps
  <2>1. PICK d \in 0 .. MaxDelay : Wait(d)
    BY DEF WriteReport
  <2> QED BY <2>1, WaitType, TimeAssumption
<1>2. /\ pc = "write" /\ result = NotYet
      /\ UNCHANGED <<args, exec_start, loop_start, read, crc, received>>
  BY DEF WriteReport, ReadInv
<1>3. /\ CopyLength \in Nat \ {0}
      /\ CopyLength' = CopyLength
  <2>1. send_length \in Nat
    BY ArgumentAssumption DEF TypeOK
  <2> QED BY <2>1, <1>2, CopyLengthPositive DEF args, CopyLength
<1>4. CASE write_result < 0
  <2>0. UNCHANGED write /\ \E err \in {"OK", "EIO"} : Fail(err)
    BY <1>0, <1>4
  <2>1. PICK err \in {"OK", "EIO"} : Fail(err)
    BY <2>0
  <2>2. TypeOK'
    BY <1>1, <1>2, <2>0, <2>1, ArgumentAssumption
      DEF TypeOK, Fail, args, read, write
  <2>3. WriteInv'
    BY <1>2, <2>0, <2>1 DEF WriteInv, Fail, write
  <2>4. ReadInv'
    BY <2>1 DEF ReadInv, Fail
  <2> QED BY <2>2, <2>3, <2>4
<1>5. CASE write_result >= 0
  <2>1. write_result = HidReportSize
    BY <1>5, WriteResults
  <2>2. /\ bytes_left \in Nat \ {0}
        /\ GetReportSize(bytes_left) \in 1 .. bytes_left
        /\ GetReportSize(bytes_left) <= HidReportSize
        /\ GetReportSize(bytes_left) < bytes_left => GetReportSize(bytes_left) = HidReportSize
    BY <1>2, ReportSizeBounds DEF TypeOK, WriteInv
  <2>3. Report = [i \in 1 .. GetReportSize(bytes_left) |-> Len(sent) + i]
    BY <1>2 DEF Report, WriteInv
  <2>4. /\ sent' = sent \o Report
        /\ bytes_left' = bytes_left - HidReportSize
        /\ bytes_left' \in Int
        /\ bytes_left' <= 0 => /\ pc' = "written" /\ errno' = "OK"
                              /\ UNCHANGED <<offset, result>>
        /\ bytes_left' > 0 => /\ offset' = offset + HidReportSize
                             /\ \/ Fail("ETIMEDOUT")
                                \/ pc' = pc /\ errno' = "OK" /\ UNCHANGED result
    BY <1>0, <1>5, <2>1, <2>2, ReportSizeAssumption, SMTT(40) DEF TypeOK, AllWritten
  <2>5. /\ sent' \in Seq(Nat)
        /\ Len(sent') = Len(sent) + GetReportSize(bytes_left)
        /\ sent' = [i \in 1 .. Len(sent') |-> i]
    <3>1. sent \in Seq(Nat) /\ sent = [i \in 1 .. Len(sent) |-> i]
      BY DEF TypeOK, WriteInv
    <3>2. sent' = sent \o [i \in 1 .. GetReportSize(bytes_left) |-> Len(sent) + i]
      BY <2>3, <2>4
    <3>3. GetReportSize(bytes_left) \in Nat
      BY <2>2
    <3> QED BY <3>1, <3>2, <3>3, PrefixGrows
  <2>6. offset' \in Nat
    BY <2>4, ReportSizeAssumption DEF TypeOK
  <2>7. TypeOK'
    <3>1. /\ pc' \in {"write", "written", "done"}
          /\ result' \in {NotYet, 0}
          /\ errno' \in {"OK", "ETIMEDOUT"}
      BY <1>2, <2>4 DEF Fail
    <3>2. bytes_left' \in Int /\ offset' \in Nat /\ sent' \in Seq(Nat)
      BY <2>4, <2>5, <2>6
    <3> QED BY <1>1, <1>2, <3>1, <3>2, ArgumentAssumption, SMTT(40) DEF TypeOK, args, read
  <2>8. WriteInv'
    <3>1. Len(sent) \in Nat
      BY DEF TypeOK
    <3>2. CASE bytes_left' <= 0
      <4>1. GetReportSize(bytes_left) = bytes_left
        BY <2>2, <2>4, <3>2, ReportSizeAssumption
      <4>2. Len(sent') = CopyLength
        BY <1>2, <1>3, <2>2, <2>5, <3>1, <4>1 DEF WriteInv
      <4> QED BY <1>2, <1>3, <2>4, <2>5, <3>2, <4>2 DEF WriteInv, NotYet
    <3>3. CASE bytes_left' > 0
      <4>1. GetReportSize(bytes_left) = HidReportSize
        BY <2>2, <2>4, <3>3, ReportSizeAssumption
      <4>2. offset' = Len(sent')
        BY <1>2, <2>4, <2>5, <3>1, <3>3, <4>1 DEF WriteInv
      <4>3. bytes_left' = CopyLength' - offset'
        BY <1>2, <1>3, <2>2, <2>4, <3>3, ReportSizeAssumption DEF WriteInv, TypeOK
      <4> QED BY <1>2, <2>4, <2>5, <3>3, <4>2, <4>3 DEF WriteInv, Fail, NotYet
    <3> QED BY <2>4, <3>2, <3>3
  <2>9. ReadInv'
    BY <1>2, <2>4 DEF ReadInv, Fail, read
  <2> QED BY <2>7, <2>8, <2>9
<1>6. write_result \in Int
  BY WriteResults, ReportSizeAssumption
<1> QED BY <1>4, <1>5, <1>6

\* The wait for the reply begins with at least a millisecond left.
LEMMA StartReceiveInv ==
  ASSUME IndInv, StartReceive
  PROVE  IndInv'
<1> USE DEF IndInv
<1> DEFINE spent == Elapsed(clock, exec_start)
<1>1. /\ pc = "written" /\ result = NotYet /\ size = 0 /\ elapsed = 0
      /\ UNCHANGED <<args, exec_start, write, elapsed, size, room, crc, received>>
  BY DEF StartReceive, ReadInv
<1>2. spent \in Nat /\ timeout \in Nat \ {0}
  <2>1. clock \in Int /\ exec_start \in Int
    BY TimeAssumption DEF TypeOK
  <2>2. spent \in 0 .. ClockMod - 1
    BY <2>1, ElapsedType
  <2> QED BY <2>2, ArgumentAssumption, TimeAssumption DEF TypeOK
<1>3. CASE spent >= timeout
  <2>1. Fail("ETIMEDOUT") /\ UNCHANGED <<time, loop_start, recv_timeout>>
    BY <1>3 DEF StartReceive
  <2>2. TypeOK'
    BY <1>1, <2>1, ArgumentAssumption DEF TypeOK, Fail, args, write, time
  <2>3. WriteInv'
    BY <1>1, <2>1 DEF WriteInv, Fail, write
  <2>4. ReadInv'
    BY <2>1 DEF ReadInv, Fail
  <2> QED BY <2>2, <2>3, <2>4
<1>4. CASE spent < timeout
  <2>1. /\ pc' = "read" /\ recv_timeout' = timeout - spent
        /\ loop_start' = clock' /\ UNCHANGED <<result, errno>>
    BY <1>2, <1>4 DEF StartReceive
  <2>2. PICK d \in 0 .. MaxDelay : Wait(d)
    BY <1>2, <1>4 DEF StartReceive
  <2>3. now' \in Nat /\ clock' \in 0 .. ClockMod - 1 /\ steps' \in 0 .. MaxClockSteps
    BY <2>2, WaitType, TimeAssumption
  <2>4. recv_timeout' \in Nat /\ recv_timeout' > 0 /\ recv_timeout' <= timeout
    BY <1>2, <1>4, <2>1
  <2>5. TypeOK'
    BY <1>1, <2>1, <2>3, <2>4 DEF TypeOK, args, write
  <2>6. WriteInv'
    BY <1>1, <2>1 DEF WriteInv, write, CopyLength, args, NotYet
  <2>7. ReadInv'
    <3>1. room' > 0 /\ size' + room' = ReceiveLength
      BY <1>1, ArgumentAssumption DEF ReadInv, TypeOK
    <3> QED BY <1>1, <2>1, <2>4, <3>1 DEF ReadInv, args
  <2> QED BY <2>5, <2>6, <2>7
<1> QED BY <1>2, <1>3, <1>4

\* What a read may return and how long it may take, in every read step.
LEMMA ReadCallBounds ==
  ASSUME IndInv, pc = "read"
  PROVE  /\ room \in Nat \ {0} /\ size + room = ReceiveLength
         /\ result = NotYet
         /\ ReadTimeout \in Nat
         /\ \A bytes_read \in ImplReadResults(room) : bytes_read \in -1 .. room
  BY ReadResults DEF IndInv, TypeOK, ReadInv, ReadTimeout

LEMMA ReadErrorInv ==
  ASSUME IndInv, ReadError
  PROVE  IndInv'
<1> USE DEF IndInv
<1>1. UNCHANGED <<args, exec_start, loop_start, write, read, crc>> /\ received' = 0
  BY DEF ReadError
<1>2. now' \in Nat /\ clock' \in 0 .. ClockMod - 1 /\ steps' \in 0 .. MaxClockSteps
  <2>1. PICK d \in 0 .. ReadTimeout + MaxDelay : Wait(d)
    BY DEF ReadError
  <2>2. d \in Nat
    BY ReadCallBounds, TimeAssumption DEF ReadError
  <2> QED BY <2>1, <2>2, WaitType
<1>3. PICK err \in {"OK", "EIO"} : Fail(err)
  BY DEF ReadError
<1>4. TypeOK'
  BY <1>1, <1>2, <1>3, ArgumentAssumption DEF TypeOK, Fail, args, write, read
<1>5. WriteInv'
  BY <1>1, <1>3 DEF WriteInv, Fail, write
<1>6. ReadInv'
  BY <1>3 DEF ReadInv, Fail
<1> QED BY <1>4, <1>5, <1>6

\* The data of a reply is shorter than the reply.
LEMMA DataSizeBounds ==
  ASSUME NEW length \in Nat \ {0}, NEW match \in BOOLEAN
  PROVE  DataSize(length, match) \in -1 .. length - 1
  BY DEF DataSize, EndOfInputSize, NonDataSize, CrcSize

\* A reply that ended is no longer than the buffer.
LEMMA ReadEndInv ==
  ASSUME IndInv, ReadEnd
  PROVE  IndInv'
<1> USE DEF IndInv
<1>1. /\ pc = "read"
      /\ UNCHANGED <<args, exec_start, loop_start, write, elapsed, recv_timeout>>
  BY DEF ReadEnd
<1>2. now' \in Nat /\ clock' \in 0 .. ClockMod - 1 /\ steps' \in 0 .. MaxClockSteps
  <2>1. PICK d \in 0 .. ReadTimeout + MaxDelay : Wait(d)
    BY DEF ReadEnd
  <2>2. d \in Nat
    BY <1>1, ReadCallBounds, TimeAssumption
  <2> QED BY <2>1, <2>2, WaitType
<1>3. PICK bytes_read \in ImplReadResults(room) \ {-1, 0} :
      \E position \in 1 .. bytes_read, match \in BOOLEAN :
        LET length    == size + position
            data_size == DataSize(length, match)
        IN  /\ size' = length
            /\ room' = room - (position - 1)
            /\ received' = length
            /\ crc' = IF match THEN "match" ELSE "mismatch"
            /\ IF data_size > 0
                 THEN pc' = "done" /\ result' = data_size /\ errno' = "OK"
                 ELSE Fail(IF data_size = 0 THEN "OK" ELSE "EBADMSG")
  BY DEF ReadEnd
<1>4. PICK position \in 1 .. bytes_read, match \in BOOLEAN :
      LET length    == size + position
          data_size == DataSize(length, match)
      IN  /\ size' = length
          /\ room' = room - (position - 1)
          /\ received' = length
          /\ crc' = IF match THEN "match" ELSE "mismatch"
          /\ IF data_size > 0
               THEN pc' = "done" /\ result' = data_size /\ errno' = "OK"
               ELSE Fail(IF data_size = 0 THEN "OK" ELSE "EBADMSG")
  BY <1>3
<1>5. /\ position \in 1 .. room
      /\ size \in Nat /\ room \in Nat \ {0} /\ size + room = ReceiveLength
  BY <1>1, ReadCallBounds DEF TypeOK
<1>6. /\ size' \in 0 .. ReceiveLength /\ room' \in 0 .. ReceiveLength
      /\ received' \in 0 .. ReceiveLength
      /\ crc' \in {"match", "mismatch"}
  BY <1>4, <1>5
<1>7. DataSize(size + position, match) \in -1 .. ReceiveLength
  BY <1>5, DataSizeBounds
<1>8. /\ pc' = "done"
      /\ result' \in 0 .. ReceiveLength
      /\ errno' \in {"OK", "EBADMSG"}
  BY <1>4, <1>7, ArgumentAssumption DEF Fail
<1>9. TypeOK'
  BY <1>1, <1>2, <1>6, <1>8 DEF TypeOK, args, write
<1>10. WriteInv'
  BY <1>1, <1>8 DEF WriteInv, write, CopyLength, args
<1>11. ReadInv'
  BY <1>8 DEF ReadInv
<1> QED BY <1>9, <1>10, <1>11

\* The loop goes on only with time and room left.
LEMMA ReadMoreInv ==
  ASSUME IndInv, ReadMore
  PROVE  IndInv'
<1> USE DEF IndInv
<1>1. /\ pc = "read" /\ result = NotYet
      /\ UNCHANGED <<args, exec_start, loop_start, write, recv_timeout, crc>>
  BY ReadCallBounds DEF ReadMore
<1>2. PICK bytes_read \in ImplReadResults(room) \ {-1} :
        /\ \E d \in (IF bytes_read = 0 THEN ReadTimeout ELSE 0) .. ReadTimeout + MaxDelay :
             Wait(d)
        /\ size' = size + bytes_read
        /\ room' = room - bytes_read
  BY DEF ReadMore
<1>3. PICK d \in (IF bytes_read = 0 THEN ReadTimeout ELSE 0) .. ReadTimeout + MaxDelay : Wait(d)
  BY <1>2
<1>4. now' \in Nat /\ clock' \in 0 .. ClockMod - 1 /\ steps' \in 0 .. MaxClockSteps
  <2>1. d \in Nat
    BY <1>1, ReadCallBounds, TimeAssumption
  <2> QED BY <1>3, <2>1, WaitType
<1>5. /\ size' \in 0 .. ReceiveLength /\ room' \in 0 .. ReceiveLength
      /\ size' + room' = ReceiveLength
  <2>1. size' = size + bytes_read /\ room' = room - bytes_read
    BY <1>2
  <2>2. bytes_read \in 0 .. room /\ room \in Nat /\ size + room = ReceiveLength
    BY <1>1, ReadCallBounds
  <2> QED BY <2>1, <2>2 DEF TypeOK
<1>6. elapsed' \in Nat
  BY <1>4, ElapsedType, TimeAssumption DEF ReadMore, TypeOK
<1>7. /\ received' \in {received, 0}
      /\ \/ Fail("ETIMEDOUT") \/ Fail("ENOBUFS")
         \/ /\ pc' = pc /\ errno' = "OK" /\ UNCHANGED result
            /\ elapsed' < recv_timeout /\ room' > 0
  <2>1. recv_timeout \in Nat /\ room' \in Nat
    BY <1>5 DEF TypeOK
  <2>2. IF elapsed' >= recv_timeout
          THEN Fail("ETIMEDOUT") /\ received' = 0
          ELSE IF NoRoom(room')
                 THEN Fail("ENOBUFS") /\ received' = 0
                 ELSE pc' = pc /\ errno' = "OK" /\ UNCHANGED <<result, received>>
    BY DEF ReadMore
  <2>3. CASE elapsed' >= recv_timeout
    BY <2>2, <2>3
  <2>4. CASE elapsed' < recv_timeout /\ room' <= 0
    BY <1>6, <2>1, <2>2, <2>4 DEF NoRoom
  <2>5. CASE elapsed' < recv_timeout /\ room' > 0
    BY <1>6, <2>1, <2>2, <2>5 DEF NoRoom
  <2> QED BY <1>6, <2>1, <2>3, <2>4, <2>5
<1>8. TypeOK'
  <2>1. /\ pc' \in {"read", "done"} /\ result' \in {NotYet, 0}
        /\ errno' \in {"OK", "ETIMEDOUT", "ENOBUFS"}
    BY <1>1, <1>7 DEF Fail
  <2>2. received' \in {NotYet} \cup 0 .. ReceiveLength
    BY <1>7, ArgumentAssumption DEF TypeOK
  <2>3. UNCHANGED <<timeout, options, send_length, exec_start, loop_start,
                    bytes_left, offset, sent, recv_timeout, crc>>
    BY <1>1 DEF args, write
  <2>4. result' \in {NotYet} \cup 0 .. ReceiveLength
    BY <2>1, ArgumentAssumption
  <2> QED BY <1>4, <1>5, <1>6, <2>1, <2>2, <2>3, <2>4 DEF TypeOK
<1>9. WriteInv'
  BY <1>1, <1>7 DEF WriteInv, Fail, write, CopyLength, args
<1>10. ReadInv'
  BY <1>1, <1>5, <1>7 DEF ReadInv, Fail, args
<1> QED BY <1>8, <1>9, <1>10

\* The invariant is inductive.
LEMMA NextInv == IndInv /\ [Next]_vars => IndInv'
<1> SUFFICES ASSUME IndInv, [Next]_vars PROVE IndInv'
  OBVIOUS
<1>1. CASE Execute
  BY <1>1, ExecuteInv
<1>2. CASE WriteReport
  BY <1>2, WriteReportInv
<1>3. CASE StartReceive
  BY <1>3, StartReceiveInv
<1>4. CASE ReadError
  BY <1>4, ReadErrorInv
<1>5. CASE ReadEnd
  BY <1>5, ReadEndInv
<1>6. CASE ReadMore
  BY <1>6, ReadMoreInv
<1>7. CASE SetClock
  BY <1>7, SetClockInv
<1>8. CASE UNCHANGED vars
  BY <1>8, ZenonT(40) DEF IndInv, TypeOK, WriteInv, ReadInv, vars, time, args, write, read, out, CopyLength
<1> QED BY <1>1, <1>2, <1>3, <1>4, <1>5, <1>6, <1>7, <1>8 DEF Next, Call, Returned

-----------------------------------------------------------------------------
(* Safety. *)

\* The invariant holds in every reachable state.
THEOREM Invariance == Spec => []IndInv
<1>1. Init => IndInv
  BY InitInv
<1>2. IndInv /\ [Next]_vars => IndInv'
  BY NextInv
<1> QED BY <1>1, <1>2, PTL DEF Spec

\* Type correctness of the call: every size stays inside its buffer and every
\* reading of the clock inside the clock's type.
THEOREM TypeCorrect == Spec => []TypeOK
<1>1. IndInv => TypeOK
  BY DEF IndInv
<1> QED BY <1>1, Invariance, PTL

\* voltronic_read_data_loop never waits for ever and never polls: its wait is
\* between 1 ms and the caller's timeout, whatever the clock does.
THEOREM BoundedWait == Spec => []WaitIsBounded
<1>1. IndInv => WaitIsBounded
  BY ArgumentAssumption DEF IndInv, TypeOK, ReadInv, WaitIsBounded, ReadTimeout
<1> QED BY <1>1, Invariance, PTL

\* voltronic_read_data_loop never reads past the buffer and never asks for 0
\* bytes.
THEOREM RoomToRead == Spec => []ReadHasRoom
<1>1. IndInv => ReadHasRoom
  BY DEF IndInv, ReadInv, ReadHasRoom
<1> QED BY <1>1, Invariance, PTL

\* The device gets the request's bytes in order and all of them before the
\* library listens.
THEOREM OrderedRequest == Spec => []RequestInOrder
<1>1. IndInv => RequestInOrder
  BY DEF IndInv, WriteInv, RequestInOrder
<1> QED BY <1>1, Invariance, PTL

-----------------------------------------------------------------------------
(* Refinement: VoltronicDev implements DevCall. *)

\* What the contract sees of a state of the call.
LEMMA MappedState ==
  ASSUME IndInv
  PROVE  /\ pc \in {"execute", "write", "written"} => CallPhase = "sending"
         /\ pc = "read" => CallPhase = "awaiting"
         /\ pc = "done" /\ result > 0 => CallPhase = "answered"
         /\ pc = "done" /\ ~(result > 0) => CallPhase = "failed"
         /\ Owed \in Int
         /\ pc \in {"written", "read"} \/ result > 0 => Owed = 0
         /\ pc = "execute" => Owed = CopyLength
         /\ pc = "write" => Owed = bytes_left /\ bytes_left > 0
<1>1. CopyLength \in Nat \ {0} /\ Len(sent) \in Nat
  BY CopyLengthPositive, ArgumentAssumption DEF IndInv, TypeOK
<1> QED BY <1>1 DEF IndInv, WriteInv, CallPhase, Owed

\* The contract's view depends on these variables only.
LEMMA MappedStutter ==
  ASSUME UNCHANGED <<pc, options, send_length, sent, size, result>>
  PROVE  UNCHANGED Contract!vars
BY DEF Contract!vars, CallPhase, Owed, CopyLength

LEMMA InitMapped == Init => Contract!Init
<1> SUFFICES ASSUME Init PROVE Contract!Init
  OBVIOUS
<1>1. pc = "execute" /\ sent = <<>> /\ size = 0 /\ send_length \in CommandLengths
  BY DEF Init
<1>2. CallPhase = "sending"
  BY <1>1 DEF CallPhase
<1>3. CopyLength = send_length + EndOfInputSize \/ CopyLength = send_length + NonDataSize
  BY DEF CopyLength
<1>4. Owed = CopyLength
  <2>1. Len(sent) = 0
    BY <1>1
  <2> QED BY <1>1, <2>1, CopyLengthPositive, ArgumentAssumption DEF Owed
<1> QED BY <1>1, <1>2, <1>3, <1>4 DEF Contract!Init

\* A report that goes out is the contract's Send, or its Fail when it was the
\* last thing the call did.
LEMMA WriteReportMapped ==
  ASSUME IndInv, IndInv', WriteReport
  PROVE  Contract!Next
<1>1. /\ CallPhase = "sending" /\ Owed = bytes_left /\ bytes_left \in Nat \ {0}
      /\ pc = "write" /\ size' = size /\ size \in 0 .. ReceiveLength
  BY MappedState DEF IndInv, TypeOK, WriteReport, read
<1>2. CopyLength' = CopyLength /\ Len(sent) \in Nat /\ CopyLength \in Nat
  <2>1. send_length \in Nat /\ sent \in Seq(Nat)
    BY ArgumentAssumption DEF IndInv, TypeOK
  <2>2. CopyLength' = CopyLength
    BY DEF WriteReport, args, CopyLength
  <2> QED BY <2>1, <2>2, CopyLengthPositive
<1>3. PICK write_result \in ImplWriteResults :
        IF write_result < 0
          THEN /\ \E err \in {"OK", "EIO"} : Fail(err)
               /\ UNCHANGED write
          ELSE /\ sent' = sent \o Report
               /\ bytes_left' = bytes_left - write_result
               /\ IF AllWritten(bytes_left')
                    THEN /\ pc' = "written"
                         /\ errno' = "OK"
                         /\ UNCHANGED <<offset, result>>
                    ELSE /\ offset' = offset + write_result
                         /\ IF Elapsed(clock', loop_start) >= timeout
                              THEN Fail("ETIMEDOUT")
                              ELSE pc' = pc /\ errno' = "OK" /\ UNCHANGED result
  BY DEF WriteReport
<1>4. CASE write_result < 0
  <2>1. sent' = sent /\ pc' = "done" /\ result' = 0
    BY <1>3, <1>4 DEF Fail, write
  <2>2. CallPhase' = "failed"
    BY <2>1 DEF CallPhase
  <2>3. Owed' = Owed
    BY <1>2, <2>1 DEF Owed
  <2> QED BY <1>1, <2>2, <2>3 DEF Contract!Next, Contract!Fail
<1>5. CASE write_result >= 0
  <2>1. /\ sent' = sent \o Report
        /\ pc' \in {"write", "written"} \/ (pc' = "done" /\ result' = 0)
    <3>1. ~(write_result < 0)
      BY <1>5, WriteResults, ReportSizeAssumption
    <3>2. /\ sent' = sent \o Report
          /\ pc' = "written" \/ pc' = pc \/ Fail("ETIMEDOUT")
      BY <1>3, <3>1
    <3> QED BY <1>1, <3>2 DEF Fail
  <2>2. GetReportSize(bytes_left) \in 1 .. bytes_left
    BY <1>1, ReportSizeBounds
  <2>3. Len(sent') = Len(sent) + GetReportSize(bytes_left)
    <3>1. sent \in Seq(Nat) /\ sent = [i \in 1 .. Len(sent) |-> i] /\ offset = Len(sent)
      BY <1>1 DEF IndInv, TypeOK, WriteInv
    <3>2. sent' = sent \o [i \in 1 .. GetReportSize(bytes_left) |-> Len(sent) + i]
      BY <2>1, <3>1 DEF Report
    <3>3. GetReportSize(bytes_left) \in Nat
      BY <2>2
    <3> QED BY <3>1, <3>2, <3>3, PrefixGrows
  <2>4. Owed' \in 0 .. Owed - 1
    <3>1. Owed' = CopyLength - Len(sent')
      BY <1>2 DEF Owed
    <3>2. Owed = CopyLength - Len(sent)
      BY DEF Owed
    <3> QED BY <1>1, <1>2, <2>2, <2>3, <3>1, <3>2
  <2>5. CASE pc' \in {"write", "written"}
    <3>1. CallPhase' = "sending"
      BY <2>5 DEF CallPhase
    <3>2. Owed > 0
      BY <1>1
    <3> QED BY <1>1, <2>4, <3>1, <3>2 DEF Contract!Next, Contract!Send
  <2>6. CASE pc' = "done" /\ result' = 0
    <3>1. CallPhase' = "failed"
      BY <2>6 DEF CallPhase
    <3>2. Owed' \in 0 .. Owed
      BY <1>1, <2>4
    <3> QED BY <1>1, <3>1, <3>2 DEF Contract!Next, Contract!Fail
  <2> QED BY <2>1, <2>5, <2>6
<1>6. write_result \in Int
  BY WriteResults, ReportSizeAssumption
<1> QED BY <1>4, <1>5, <1>6

\* The wait for the reply begins with nothing owed, or not at all.
LEMMA StartReceiveMapped ==
  ASSUME IndInv, IndInv', StartReceive
  PROVE  Contract!Next
<1>1. /\ CallPhase = "sending" /\ Owed = 0 /\ size' = size /\ size \in 0 .. ReceiveLength
      /\ Owed' = Owed
  BY MappedState DEF IndInv, TypeOK, StartReceive, args, write, Owed, CopyLength
<1>2. CASE pc' = "read"
  <2>1. CallPhase' = "awaiting"
    BY <1>2 DEF CallPhase
  <2> QED BY <1>1, <2>1 DEF Contract!Next, Contract!Listen
<1>3. CASE pc' = "done" /\ result' = 0
  <2>1. CallPhase' = "failed"
    BY <1>3 DEF CallPhase
  <2> QED BY <1>1, <2>1 DEF Contract!Next, Contract!Fail
<1>4. pc' = "read" \/ (pc' = "done" /\ result' = 0)
  BY DEF StartReceive, Fail
<1> QED BY <1>2, <1>3, <1>4

\* A read step takes the contract's reply further, or ends the call.
LEMMA ReadMapped ==
  ASSUME IndInv, IndInv', ReadError \/ ReadEnd \/ ReadMore
  PROVE  [Contract!Next]_(Contract!vars)
<1>1. /\ pc = "read" /\ CallPhase = "awaiting" /\ Owed = 0
      /\ size \in Nat /\ size' \in 0 .. ReceiveLength
      /\ UNCHANGED <<send_length, options, sent>>
  <2>1. pc = "read"
    BY DEF ReadError, ReadEnd, ReadMore
  <2>2. UNCHANGED <<send_length, options, sent>>
    BY DEF ReadError, ReadEnd, ReadMore, args, write
  <2>3. size \in Nat /\ size' \in 0 .. ReceiveLength
    BY ArgumentAssumption DEF IndInv, TypeOK
  <2> QED BY <2>1, <2>2, <2>3, MappedState
<1>2. Owed' = Owed
  BY <1>1 DEF Owed, CopyLength
<1>3. CASE ReadError
  <2>1. size' = size /\ CallPhase' = "failed"
    BY <1>3 DEF ReadError, Fail, read, CallPhase
  <2> QED BY <1>1, <1>2, <2>1 DEF Contract!Next, Contract!Fail
<1>4. CASE ReadEnd
  <2>1. PICK bytes_read \in ImplReadResults(room) \ {-1, 0} :
        \E position \in 1 .. bytes_read : size' = size + position
    BY <1>4 DEF ReadEnd
  <2>2. size' \in size + 1 .. ReceiveLength
    BY <1>1, <2>1, ReadCallBounds
  <2>3. pc' = "done"
    BY <1>4 DEF ReadEnd, Fail
  <2>4. CASE result' > 0
    <3>1. CallPhase' = "answered"
      BY <2>3, <2>4 DEF CallPhase
    <3> QED BY <1>1, <1>2, <2>2, <3>1 DEF Contract!Next, Contract!Answer
  <2>5. CASE ~(result' > 0)
    <3>1. CallPhase' = "failed"
      BY <2>3, <2>5 DEF CallPhase
    <3>2. size' \in size .. ReceiveLength
      BY <1>1, <2>2
    <3> QED BY <1>1, <1>2, <3>1, <3>2 DEF Contract!Next, Contract!Fail
  <2> QED BY <2>4, <2>5
<1>5. CASE ReadMore
  <2>1. PICK bytes_read \in ImplReadResults(room) \ {-1} : size' = size + bytes_read
    BY <1>5 DEF ReadMore
  <2>2. bytes_read \in Nat
    BY <1>1, <2>1, ReadCallBounds
  <2>3. pc' = "read" \/ (pc' = "done" /\ result' = 0)
    BY <1>1, <1>5 DEF ReadMore, Fail
  <2>4. CASE pc' = "done" /\ result' = 0
    <3>1. CallPhase' = "failed"
      BY <2>4 DEF CallPhase
    <3>2. size' \in size .. ReceiveLength
      BY <1>1, <2>1, <2>2
    <3> QED BY <1>1, <1>2, <3>1, <3>2 DEF Contract!Next, Contract!Fail
  <2>5. CASE pc' = "read"
    <3>1. CallPhase' = CallPhase
      BY <1>1, <2>5 DEF CallPhase
    <3>2. CASE bytes_read = 0
      BY <1>1, <1>2, <2>1, <3>1, <3>2 DEF Contract!vars
    <3>3. CASE bytes_read > 0
      <4>1. size' \in size + 1 .. ReceiveLength
        BY <1>1, <2>1, <2>2, <3>3
      <4> QED BY <1>1, <1>2, <3>1, <4>1 DEF Contract!Next, Contract!Receive
    <3> QED BY <2>2, <3>2, <3>3
  <2> QED BY <2>3, <2>4, <2>5
<1> QED BY <1>3, <1>4, <1>5

LEMMA NextMapped ==
  IndInv /\ IndInv' /\ [Next]_vars => [Contract!Next]_(Contract!vars)
<1> SUFFICES ASSUME IndInv, IndInv', [Next]_vars
             PROVE  [Contract!Next]_(Contract!vars)
  OBVIOUS
<1>1. CASE Execute
  <2>1. CallPhase = "sending" /\ CallPhase' = "sending"
    BY <1>1 DEF Execute, CallPhase
  <2>2. Owed' = Owed /\ size' = size
    BY <1>1 DEF Execute, args, read, Owed, CopyLength
  <2> QED BY <2>1, <2>2 DEF Contract!vars
<1>2. CASE WriteReport
  BY <1>2, WriteReportMapped
<1>3. CASE StartReceive
  BY <1>3, StartReceiveMapped
<1>4. CASE ReadError \/ ReadEnd \/ ReadMore
  BY <1>4, ReadMapped
<1>5. CASE SetClock
  BY <1>5, MappedStutter DEF SetClock, args, write, read, out
<1>6. CASE UNCHANGED vars
  BY <1>6, MappedStutter DEF vars, args, write, read, out
<1> QED BY <1>1, <1>2, <1>3, <1>4, <1>5, <1>6 DEF Next, Call, Returned

\* Every behaviour of a call of voltronic_dev_execute is one the contract
\* allows: the whole request before any reply, an answer only when the reply
\* was complete and fits the caller's buffer.
THEOREM Refinement == Spec => ImplementsContract
<1>1. Init => Contract!Init
  BY InitMapped
<1>2. IndInv /\ IndInv' /\ [Next]_vars => [Contract!Next]_(Contract!vars)
  BY NextMapped
<1> QED BY <1>1, <1>2, Invariance, PTL DEF Spec, Contract!Spec, ImplementsContract

-----------------------------------------------------------------------------
(* The deadline: a call gives up in time and not too early, for every       *)
(* timeout, delay, report size and buffer, if its time source counts        *)
(* milliseconds, does not run round during one call and nobody sets it.     *)
(* That is get_millisecond_timestamp on Linux with CLOCK_MONOTONIC, and     *)
(* with gettimeofday while the wall clock is left alone; the run            *)
(* call_deadline shows what becomes of it otherwise.                        *)

\* The time source counts milliseconds and has more values than the longest
\* call has milliseconds.
MillisecondClock ==
  /\ TicksPerMs = 1
  /\ \A t \in Timeouts : t + 2 * MaxDelay < ClockMod

-----------------------------------------------------------------------------
(* Lemmas about time. *)

\* A difference of two readings, reduced once.
LEMMA ModBelow ==
  ASSUME NEW m \in Nat \ {0}, NEW x \in Int, 0 - m <= x, x < 0
  PROVE  x % m = x + m
  OBVIOUS

LEMMA ModInside ==
  ASSUME NEW m \in Nat \ {0}, NEW x \in 0 .. m - 1
  PROVE  x % m = x
  OBVIOUS

\* The difference of two readings, without the modulus.
LEMMA ElapsedCases ==
  ASSUME NEW x \in 0 .. ClockMod - 1, NEW y \in 0 .. ClockMod - 1
  PROVE  Elapsed(x, y) = IF x >= y THEN x - y ELSE x - y + ClockMod
<1>1. CASE x >= y
  BY <1>1, ModInside, TimeAssumption DEF Elapsed
<1>2. CASE x < y
  BY <1>2, ModBelow, TimeAssumption DEF Elapsed
<1> QED BY <1>1, <1>2, TimeAssumption

\* A reading taken s ago is d older after d milliseconds, also when the clock
\* wraps in between.
LEMMA TimePasses ==
  ASSUME MillisecondClock, TypeOK, NEW s \in 0 .. ClockMod - 1,
         NEW d \in Nat, Wait(d), Elapsed(clock, s) + d < ClockMod
  PROVE  Elapsed(clock', s) = Elapsed(clock, s) + d
<1>1. clock \in 0 .. ClockMod - 1 /\ ClockMod \in Nat \ {0}
  BY TimeAssumption DEF TypeOK
<1>2. clock' = (clock + d) % ClockMod
  BY DEF Wait, MillisecondClock
<1>3. Elapsed(clock, s) = IF clock >= s THEN clock - s ELSE clock - s + ClockMod
  BY <1>1, ElapsedCases
<1>4. d < ClockMod
  BY <1>1, <1>3
<1>5. CASE clock + d < ClockMod
  <2>1. clock' = clock + d
    BY <1>1, <1>2, <1>5, ModInside
  <2>2. clock' \in 0 .. ClockMod - 1
    BY <1>1, <1>5, <2>1
  <2>3. Elapsed(clock', s) = IF clock' >= s THEN clock' - s ELSE clock' - s + ClockMod
    BY <2>2, ElapsedCases
  <2> QED BY <1>1, <1>3, <2>1, <2>3
<1>6. CASE clock + d >= ClockMod
  <2>1. clock' = clock + d - ClockMod
    <3>1. clock + d \in Int /\ ClockMod <= clock + d /\ clock + d < 2 * ClockMod
      BY <1>1, <1>4, <1>6
    <3>2. (clock + d) % ClockMod = clock + d - ClockMod
      BY <1>1, <3>1
    <3> QED BY <1>2, <3>2
  <2>2. clock' \in 0 .. ClockMod - 1
    BY <1>1, <1>4, <1>6, <2>1
  <2>3. Elapsed(clock', s) = IF clock' >= s THEN clock' - s ELSE clock' - s + ClockMod
    BY <2>2, ElapsedCases
  <2> QED BY <1>1, <1>3, <1>6, <2>1, <2>3
<1> QED BY <1>1, <1>5, <1>6

\* A reading is no older than itself.
LEMMA NoTimePassed ==
  ASSUME NEW x \in 0 .. ClockMod - 1
  PROVE  Elapsed(x, x) = 0
  BY ElapsedCases, TimeAssumption

-----------------------------------------------------------------------------
(* The invariant: what the code reads off its clock is what has passed.    *)
(* exec_start is the beginning of the call.  loop_start is read up to      *)
(* MaxDelay later than that by the write loop, and up to MaxDelay later    *)
(* than the wait was computed by the read loop: these are the two delays   *)
(* that can be added to the timeout.                                       *)

WriteDeadline ==
  /\ pc \in {"write", "written"} => Elapsed(clock, exec_start) = now
  /\ pc = "write" => /\ Elapsed(clock, loop_start) < timeout
                     /\ now - Elapsed(clock, loop_start) \in 0 .. MaxDelay

ReadDeadline ==
  pc = "read" => /\ elapsed = Elapsed(clock, loop_start)
                 /\ now - elapsed - (timeout - recv_timeout) \in 0 .. MaxDelay

InTime ==
  /\ pc = "execute" => now = 0
  /\ pc # "done" => errno # "ETIMEDOUT"
  /\ WriteDeadline
  /\ ReadDeadline
  /\ now <= timeout + 2 * MaxDelay
  /\ errno = "ETIMEDOUT" => now >= timeout

DeadlineInv == steps = 0 => InTime

LEMMA InitDeadline == Init => DeadlineInv
  BY ArgumentAssumption, TimeAssumption
  DEF Init, DeadlineInv, InTime, WriteDeadline, ReadDeadline

\* The types the steps below calculate with.
LEMMA DeadlineTypes ==
  ASSUME IndInv
  PROVE  /\ now \in Nat /\ steps \in Nat
         /\ clock \in 0 .. ClockMod - 1 /\ ClockMod \in Nat \ {0}
         /\ exec_start \in 0 .. ClockMod - 1 /\ loop_start \in 0 .. ClockMod - 1
         /\ timeout \in Nat \ {0} /\ MaxDelay \in Nat
         /\ recv_timeout \in Nat /\ elapsed \in Nat
  BY ArgumentAssumption, TimeAssumption DEF IndInv, TypeOK

\* The longest call is shorter than one round of the clock.
LEMMA OneRound ==
  ASSUME MillisecondClock, IndInv
  PROVE  timeout + 2 * MaxDelay < ClockMod
  BY DEF MillisecondClock, IndInv, TypeOK

LEMMA ExecuteInTime ==
  ASSUME MillisecondClock, IndInv, IndInv', InTime, Execute
  PROVE  InTime'
<1>1. PICK d \in 0 .. MaxDelay : Wait(d)
  BY DEF Execute
<1>2. /\ pc = "execute" /\ now = 0 /\ errno # "ETIMEDOUT"
      /\ exec_start' = clock /\ loop_start' = clock' /\ pc' = "write"
      /\ timeout' = timeout /\ errno' = errno
  BY DEF Execute, InTime, args, out
<1>3. now' = d /\ d \in Nat /\ d <= MaxDelay
  BY <1>1, <1>2, DeadlineTypes DEF Wait
<1>4. Elapsed(clock', exec_start') = d
  <2>1. Elapsed(clock, clock) = 0
    BY DeadlineTypes, NoTimePassed
  <2>2. 0 + d < ClockMod
    BY <1>3, OneRound, DeadlineTypes
  <2>3. Elapsed(clock', clock) = Elapsed(clock, clock) + d
    BY <1>1, <1>3, <2>1, <2>2, TimePasses, DeadlineTypes DEF IndInv
  <2> QED BY <1>2, <1>3, <2>1, <2>3
<1>5. Elapsed(clock', loop_start') = 0
  <2>1. clock' \in 0 .. ClockMod - 1
    BY DEF IndInv, TypeOK
  <2> QED BY <1>2, <2>1, NoTimePassed
<1> QED BY <1>2, <1>3, <1>4, <1>5, DeadlineTypes DEF InTime, WriteDeadline, ReadDeadline

\* A write that begins in time ends at most MaxDelay late.
LEMMA WriteReportInTime ==
  ASSUME MillisecondClock, IndInv, IndInv', InTime, WriteReport
  PROVE  InTime'
<1>1. PICK d \in 0 .. MaxDelay : Wait(d)
  BY DEF WriteReport
<1>2. /\ pc = "write" /\ errno # "ETIMEDOUT"
      /\ UNCHANGED <<timeout, exec_start, loop_start>>
  BY DEF WriteReport, InTime, args
<1>3. now' = now + d /\ d \in Nat /\ d <= MaxDelay
  BY <1>1, DeadlineTypes DEF Wait
<1>4. /\ Elapsed(clock, exec_start) = now
      /\ Elapsed(clock, loop_start) < timeout
      /\ now - Elapsed(clock, loop_start) \in 0 .. MaxDelay
      /\ Elapsed(clock, loop_start) \in Nat
  BY <1>2, ElapsedType, DeadlineTypes DEF InTime, WriteDeadline
<1>5. now' <= timeout + 2 * MaxDelay
  BY <1>3, <1>4, DeadlineTypes
<1>6. Elapsed(clock', exec_start') = now'
  <2>1. Elapsed(clock, exec_start) + d < ClockMod
    BY <1>3, <1>4, <1>5, OneRound, DeadlineTypes
  <2> QED BY <1>1, <1>2, <1>3, <1>4, <2>1, TimePasses, DeadlineTypes DEF IndInv
<1>7. Elapsed(clock', loop_start') = Elapsed(clock, loop_start) + d
  <2>1. Elapsed(clock, loop_start) + d < ClockMod
    BY <1>3, <1>4, OneRound, DeadlineTypes
  <2> QED BY <1>1, <1>2, <1>3, <2>1, TimePasses, DeadlineTypes DEF IndInv
<1>8. now' - Elapsed(clock', loop_start') \in 0 .. MaxDelay
  BY <1>3, <1>4, <1>7, DeadlineTypes
<1>9. \/ pc' \in {"written", "done"} /\ errno' \in {"OK", "EIO"}
      \/ pc' = "done" /\ errno' = "ETIMEDOUT" /\ Elapsed(clock', loop_start) >= timeout
      \/ pc' = "write" /\ errno' = "OK" /\ ~(Elapsed(clock', loop_start) >= timeout)
  BY <1>2 DEF WriteReport, Fail
<1>10. /\ Elapsed(clock', loop_start) \in Nat
       /\ Elapsed(clock', loop_start) = Elapsed(clock', loop_start')
  BY <1>2, <1>3, <1>4, <1>7
<1> QED BY <1>2, <1>3, <1>5, <1>6, <1>8, <1>9, <1>10, DeadlineTypes
        DEF InTime, WriteDeadline, ReadDeadline

\* The wait for the reply is what is left of the timeout; the loop that
\* measures it may begin MaxDelay later.
LEMMA StartReceiveInTime ==
  ASSUME MillisecondClock, IndInv, IndInv', InTime, StartReceive
  PROVE  InTime'
<1>1. /\ pc = "written" /\ errno # "ETIMEDOUT" /\ elapsed = 0
      /\ Elapsed(clock, exec_start) = now
      /\ timeout' = timeout /\ elapsed' = elapsed
  BY DEF StartReceive, InTime, WriteDeadline, IndInv, ReadInv, args
<1>2. CASE now >= timeout
  <2>1. pc' = "done" /\ errno' = "ETIMEDOUT" /\ now' = now
    BY <1>1, <1>2 DEF StartReceive, Fail, time
  <2> QED BY <1>1, <1>2, <2>1 DEF InTime, WriteDeadline, ReadDeadline
<1>3. CASE ~(now >= timeout)
  <2>1. /\ pc' = "read" /\ recv_timeout' = timeout - now
        /\ loop_start' = clock' /\ errno' = errno
        /\ \E d \in 0 .. MaxDelay : Wait(d)
    BY <1>1, <1>3 DEF StartReceive
  <2>2. PICK d \in 0 .. MaxDelay : Wait(d)
    BY <2>1
  <2>3. now' = now + d
    BY <2>2 DEF Wait
  <2>4. Elapsed(clock', loop_start') = 0
    <3>1. clock' \in 0 .. ClockMod - 1
      BY DEF IndInv, TypeOK
    <3> QED BY <2>1, <3>1, NoTimePassed
  <2> QED BY <1>1, <1>3, <2>1, <2>3, <2>4, DeadlineTypes
          DEF InTime, WriteDeadline, ReadDeadline
<1> QED BY <1>2, <1>3

\* What a read step finds and leaves: it may begin MaxDelay late and end
\* MaxDelay late, and the clock measures it.
LEMMA ReadTakes ==
  ASSUME MillisecondClock, IndInv, InTime, pc = "read",
         NEW d \in Nat, d <= ReadTimeout + MaxDelay, Wait(d)
  PROVE  /\ now' = now + d
         /\ now' <= timeout + 2 * MaxDelay
         /\ Elapsed(clock', loop_start) = elapsed + d
<1>1. /\ elapsed = Elapsed(clock, loop_start)
      /\ now - elapsed - (timeout - recv_timeout) \in 0 .. MaxDelay
      /\ recv_timeout <= timeout /\ elapsed < recv_timeout
  BY DEF InTime, ReadDeadline, IndInv, ReadInv
<1>2. now' = now + d /\ elapsed + d <= recv_timeout + MaxDelay
  BY DeadlineTypes DEF Wait, ReadTimeout
<1>3. now' <= timeout + 2 * MaxDelay
  BY <1>1, <1>2, DeadlineTypes
<1>4. Elapsed(clock, loop_start) + d < ClockMod
  BY <1>1, <1>2, OneRound, DeadlineTypes
<1>5. Elapsed(clock', loop_start) = Elapsed(clock, loop_start) + d
  BY <1>4, TimePasses, DeadlineTypes DEF IndInv
<1> QED BY <1>1, <1>2, <1>3, <1>5

LEMMA ReadErrorInTime ==
  ASSUME MillisecondClock, IndInv, InTime, ReadError
  PROVE  InTime'
<1>1. PICK d \in 0 .. ReadTimeout + MaxDelay : Wait(d)
  BY DEF ReadError
<1>2. pc = "read" /\ timeout' = timeout /\ pc' = "done" /\ errno' \in {"OK", "EIO"}
  BY DEF ReadError, Fail, args
<1>3. d \in Nat /\ d <= ReadTimeout + MaxDelay
  BY <1>1, <1>2, ReadCallBounds, TimeAssumption
<1>4. now' <= timeout + 2 * MaxDelay
  BY <1>1, <1>2, <1>3, ReadTakes
<1> QED BY <1>2, <1>4 DEF InTime, WriteDeadline, ReadDeadline

LEMMA ReadEndInTime ==
  ASSUME MillisecondClock, IndInv, InTime, ReadEnd
  PROVE  InTime'
<1>1. PICK d \in 0 .. ReadTimeout + MaxDelay : Wait(d)
  BY DEF ReadEnd
<1>2. pc = "read" /\ timeout' = timeout /\ pc' = "done" /\ errno' \in {"OK", "EBADMSG"}
  BY DEF ReadEnd, Fail, args
<1>3. d \in Nat /\ d <= ReadTimeout + MaxDelay
  BY <1>1, <1>2, ReadCallBounds, TimeAssumption
<1>4. now' <= timeout + 2 * MaxDelay
  BY <1>1, <1>2, <1>3, ReadTakes
<1> QED BY <1>2, <1>4 DEF InTime, WriteDeadline, ReadDeadline

\* The loop looks at the clock after every read and gives up when the wait is
\* over, not before.
LEMMA ReadMoreInTime ==
  ASSUME MillisecondClock, IndInv, InTime, ReadMore
  PROVE  InTime'
<1>1. /\ pc = "read" /\ UNCHANGED <<timeout, loop_start, recv_timeout>>
      /\ elapsed' = Elapsed(clock', loop_start)
      /\ errno # "ETIMEDOUT"
  BY DEF ReadMore, args, InTime
<1>2. PICK d : d \in Nat /\ d <= ReadTimeout + MaxDelay /\ Wait(d)
  <2>1. ReadTimeout \in Nat /\ MaxDelay \in Nat
    BY <1>1, ReadCallBounds, TimeAssumption
  <2>2. PICK bytes_read \in ImplReadResults(room) \ {-1} :
          \E d \in (IF bytes_read = 0 THEN ReadTimeout ELSE 0) .. ReadTimeout + MaxDelay : Wait(d)
    BY DEF ReadMore
  <2>3. PICK d \in (IF bytes_read = 0 THEN ReadTimeout ELSE 0) .. ReadTimeout + MaxDelay : Wait(d)
    BY <2>2
  <2> QED BY <2>1, <2>3
<1>3. /\ now' = now + d
      /\ now' <= timeout + 2 * MaxDelay
      /\ elapsed' = elapsed + d
  BY <1>1, <1>2, ReadTakes
<1>4. now - elapsed - (timeout - recv_timeout) \in 0 .. MaxDelay
  BY <1>1 DEF InTime, ReadDeadline
<1>5. now' - elapsed' - (timeout - recv_timeout) \in 0 .. MaxDelay
  BY <1>2, <1>3, <1>4, DeadlineTypes
<1>6. \/ pc' = "done" /\ errno' = "ETIMEDOUT" /\ elapsed' >= recv_timeout
      \/ pc' = "done" /\ errno' = "ENOBUFS"
      \/ pc' = "read" /\ errno' = "OK"
  BY <1>1 DEF ReadMore, Fail
<1>7. errno' = "ETIMEDOUT" => now' >= timeout
  BY <1>2, <1>3, <1>5, <1>6, DeadlineTypes
<1> QED BY <1>1, <1>3, <1>5, <1>6, <1>7 DEF InTime, WriteDeadline, ReadDeadline

\* No step of the call sets the clock.
LEMMA CallKeepsSteps ==
  ASSUME Call
  PROVE  steps' = steps
  BY DEF Call, Execute, WriteReport, StartReceive, ReadError, ReadEnd, ReadMore, Wait, time

LEMMA NextDeadline ==
  ASSUME MillisecondClock
  PROVE  IndInv /\ IndInv' /\ DeadlineInv /\ [Next]_vars => DeadlineInv'
<1> SUFFICES ASSUME IndInv, IndInv', DeadlineInv, [Next]_vars, steps' = 0
             PROVE  InTime'
  BY DEF DeadlineInv
<1>1. CASE Call
  <2> InTime
    BY <1>1, CallKeepsSteps DEF DeadlineInv
  <2> QED BY <1>1, ExecuteInTime, WriteReportInTime, StartReceiveInTime,
             ReadErrorInTime, ReadEndInTime, ReadMoreInTime DEF Call
<1>2. CASE SetClock
  BY <1>2, DeadlineTypes DEF SetClock
<1>3. CASE UNCHANGED vars
  BY <1>3 DEF vars, time, args, write, read, out, DeadlineInv, InTime,
              WriteDeadline, ReadDeadline
<1> QED BY <1>1, <1>2, <1>3 DEF Next, Returned

-----------------------------------------------------------------------------
(* The two halves of "Number of milliseconds to wait before giving up"     *)
(* (voltronic_dev.h).                                                      *)

LEMMA DeadlineInvariance ==
  ASSUME MillisecondClock
  PROVE  Spec => []DeadlineInv
<1>1. Init => DeadlineInv
  BY InitDeadline
<1>2. IndInv /\ IndInv' /\ DeadlineInv /\ [Next]_vars => DeadlineInv'
  BY NextDeadline
<1> QED BY <1>1, <1>2, Invariance, PTL DEF Spec

\* voltronic_dev_execute never takes longer than its timeout, one late reading
\* of the clock and one late call of the back end, unless the clock is set.
THEOREM DeadlineIsKept ==
  ASSUME MillisecondClock
  PROVE  Spec => []GivesUpInTime
<1>1. DeadlineInv => GivesUpInTime
  BY DEF DeadlineInv, InTime, GivesUpInTime
<1> QED BY <1>1, DeadlineInvariance, PTL

\* voltronic_dev_execute never reports ETIMEDOUT before the timeout is over,
\* even if the clock wraps during the call, unless the clock is set.
THEOREM TimeoutIsNotEarly ==
  ASSUME MillisecondClock
  PROVE  Spec => []NotTooEarly
<1>1. DeadlineInv => NotTooEarly
  BY DEF DeadlineInv, InTime, NotTooEarly
<1> QED BY <1>1, DeadlineInvariance, PTL
=============================================================================
