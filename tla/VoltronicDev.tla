---------------------------- MODULE VoltronicDev ----------------------------
(***************************************************************************)
(* One call of voltronic_dev_execute (libvoltronic/voltronic_dev.c): send  *)
(* a request to the inverter report by report, then collect the reply      *)
(* until the terminator '\r', the deadline, the end of the buffer or an    *)
(* error of the back end.  The functions voltronic_send_data,              *)
(* voltronic_write_data_loop, voltronic_receive_data and                   *)
(* voltronic_read_data_loop are folded into the control state pc; every    *)
(* step is one call of the USB back end and the code up to the next one.   *)
(*                                                                         *)
(* Real time is the ghost variable now.  The code cannot see it: it reads  *)
(* get_millisecond_timestamp, the variable clock, which counts TicksPerMs  *)
(* ticks per millisecond modulo ClockMod (an unsigned type) and may be set *)
(* by somebody else when it is the wall clock.                             *)
(***************************************************************************)
EXTENDS VoltronicUsb, Sequences

CONSTANTS
  CommandLengths,    \* lengths of the request text handed to the call
  ReceiveLength,     \* receive_buffer_length (RESPONSE_BUF_LENGTH, isv.c)
  Timeouts,          \* values of timeout_milliseconds
  OptionSets,        \* values of options, as sets of flags
  MaxDelay,          \* bound: ms a call of the back end, or the scheduler, adds
  TicksPerMs,        \* ticks of the time source per millisecond, 1 if it counts ms
  ClockMod,          \* number of values of millisecond_timestamp_t
  InitialClocks,     \* bound: values of the time source when the call begins
  ClockSettings,     \* bound: values the wall clock may be set to
  MaxClockSteps      \* bound: how often it is set during the call, 0 if monotonic

NoWriteCrc  == "DISABLE_WRITE_VOLTRONIC_CRC"
NoParseCrc  == "DISABLE_PARSE_VOLTRONIC_CRC"
NoVerifyCrc == "DISABLE_VERIFY_VOLTRONIC_CRC"
OptionFlags == {NoWriteCrc, NoParseCrc, NoVerifyCrc}

ASSUME ArgumentAssumption ==
  /\ CommandLengths \subseteq Nat
  /\ ReceiveLength \in Nat \ {0}
  /\ Timeouts \subseteq Nat \ {0}
  /\ OptionSets \subseteq SUBSET OptionFlags

ASSUME TimeAssumption ==
  /\ MaxDelay \in Nat
  /\ TicksPerMs \in Nat \ {0}
  /\ ClockMod \in Nat \ {0}
  /\ InitialClocks \subseteq 0 .. ClockMod - 1
  /\ ClockSettings \subseteq 0 .. ClockMod - 1
  /\ MaxClockSteps \in Nat

VARIABLES
  pc,            \* "execute", "write", "written", "read" or "done"
  now,           \* ghost: milliseconds since the call began
  clock,         \* what get_millisecond_timestamp returns
  steps,         \* ghost: how often the wall clock was set
  timeout, options, send_length,      \* the arguments
  exec_start,    \* start_time of voltronic_dev_execute
  loop_start,    \* start_time of the write loop, then of the read loop
  elapsed,       \* elapsed of the read loop
  bytes_left,    \* bytes_left of the write loop
  offset,        \* how far the write loop moved its buffer pointer
  sent,          \* ghost: the positions of the request bytes the device got
  recv_timeout,  \* timeout_milliseconds of the read loop
  size,          \* bytes of the reply received so far
  room,          \* buffer_length of the read loop: bytes still free
  crc,           \* "none", or whether the reply's checksum is right
  result,        \* return value of voltronic_dev_execute, NotYet while it runs
  received,      \* *received, NotYet while unset
  errno

NotYet == -1

args  == <<timeout, options, send_length>>
time  == <<now, clock, steps>>
write == <<bytes_left, offset, sent>>
read  == <<elapsed, recv_timeout, size, room>>
out   == <<crc, result, received, errno>>
vars  == <<pc, time, args, exec_start, loop_start, write, read, out>>

CrcSize         == 2                          \* sizeof(voltronic_crc_t)
EndOfInputSize  == 1                          \* END_OF_INPUT_SIZE
NonDataSize     == CrcSize + EndOfInputSize   \* NON_DATA_SIZE

\* Bytes the request takes on the wire: text, checksum unless disabled, '\r'.
CopyLength ==
  send_length + (IF NoWriteCrc \in options THEN EndOfInputSize ELSE NonDataSize)

-----------------------------------------------------------------------------
(* Time. *)

\* Mutant: the difference taken the wrong way round.
ElapsedSwapped(timestamp, start_time) == (start_time - timestamp) % ClockMod

\* timestamp - start_time in the unsigned type of the time source.
Elapsed(timestamp, start_time) == (timestamp - start_time) % ClockMod

\* d milliseconds pass.
Wait(d) ==
  /\ now' = now + d
  /\ clock' = (clock + d * TicksPerMs) % ClockMod
  /\ steps' = steps

\* Somebody sets the wall clock (ntpd, an administrator); gettimeofday follows.
SetClock ==
  /\ pc # "done"
  /\ steps < MaxClockSteps
  /\ steps' = steps + 1
  /\ clock' \in ClockSettings
  /\ UNCHANGED <<pc, now, args, exec_start, loop_start, write, read, out>>

-----------------------------------------------------------------------------
(* The call. *)

Init ==
  /\ pc = "execute" /\ now = 0 /\ steps = 0 /\ clock \in InitialClocks
  /\ timeout \in Timeouts /\ options \in OptionSets /\ send_length \in CommandLengths
  /\ exec_start = 0 /\ loop_start = 0
  /\ bytes_left = 0 /\ offset = 0 /\ sent = <<>>
  /\ elapsed = 0 /\ recv_timeout = 0 /\ size = 0 /\ room = ReceiveLength
  /\ crc = "none" /\ result = NotYet /\ received = NotYet /\ errno = "OK"

\* voltronic_dev_execute returns 0 with errno err.
Fail(err) == pc' = "done" /\ result' = 0 /\ errno' = err

\* voltronic_dev_execute up to the first write: it reads the time source, and
\* voltronic_write_data_loop reads it again after the request was assembled.
Execute ==
  /\ pc = "execute"
  /\ \E d \in 0 .. MaxDelay : Wait(d)
  /\ exec_start' = clock
  /\ loop_start' = clock'
  /\ bytes_left' = CopyLength
  /\ pc' = "write"
  /\ UNCHANGED <<args, offset, sent, read, out>>

\* Mutant: the buffer pointer is not moved on.
ReportUnmoved == [i \in 1 .. GetReportSize(bytes_left) |-> i]

\* The bytes of one report: real data first, padding after the request's end.
Report == [i \in 1 .. GetReportSize(bytes_left) |-> offset + i]

\* Mutant: a last report that is not full is forgotten.
AllWrittenEarly(bytes) == bytes < HidReportSize

\* bytes_left goes below 0 when the last report was padded.
AllWritten(bytes) == bytes <= 0

\* One round of voltronic_write_data_loop.  The write's own timeout is unused
\* by the back end, so the call may take any time.
WriteReport ==
  /\ pc = "write"
  /\ \E d \in 0 .. MaxDelay : Wait(d)
  /\ \E write_result \in ImplWriteResults :
       IF write_result < 0
         THEN /\ \E err \in {"OK", "EIO"} : Fail(err)
              /\ UNCHANGED write
         ELSE /\ sent' = sent \o Report
              /\ bytes_left' = bytes_left - write_result
              /\ IF AllWritten(bytes_left')
                   THEN /\ pc' = "written"
                        /\ errno' = "OK"
                        /\ UNCHANGED <<offset, result>>
                   ELSE /\ offset' = offset + write_result
                        /\ IF Elapsed(clock', loop_start) >= timeout
                             THEN Fail("ETIMEDOUT")
                             ELSE pc' = pc /\ errno' = "OK" /\ UNCHANGED result
  /\ UNCHANGED <<args, exec_start, loop_start, read, crc, received>>

\* Back in voltronic_dev_execute: is there time left to wait for the reply?
\* The read loop reads the time source again, maybe a little later.
StartReceive ==
  /\ pc = "written"
  /\ IF Elapsed(clock, exec_start) >= timeout
       THEN Fail("ETIMEDOUT") /\ UNCHANGED <<time, loop_start, recv_timeout>>
       ELSE /\ pc' = "read"
            /\ recv_timeout' = timeout - Elapsed(clock, exec_start)
            /\ \E d \in 0 .. MaxDelay : Wait(d)
            /\ loop_start' = clock'
            /\ UNCHANGED <<result, errno>>
  /\ UNCHANGED <<args, exec_start, write, elapsed, size, room, crc, received>>

\* Mutants: the wait is not shortened by the time already spent; or it is
\* measured from the start of the call.
ReadTimeoutWhole == recv_timeout
ReadTimeoutOfCall == timeout - Elapsed(clock, exec_start)

\* The timeout argument of the next hid_read_timeout.  An int: 0 would poll,
\* a negative value would block for ever.
ReadTimeout == recv_timeout - elapsed

\* Mutant: a failed read is tried again at once.
ReadErrorRetried ==
  /\ pc = "read"
  /\ errno' \in {"OK", "EIO"}
  /\ UNCHANGED <<pc, time, args, exec_start, loop_start, write, read, crc, result, received>>

\* voltronic_dev_read returns -1: the read loop, and the call, give up.
ReadError ==
  /\ pc = "read"
  /\ -1 \in ImplReadResults(room)
  /\ \E d \in 0 .. ReadTimeout + MaxDelay : Wait(d)
  /\ \E err \in {"OK", "EIO"} : Fail(err)
  /\ received' = 0
  /\ UNCHANGED <<args, exec_start, loop_start, write, read, crc>>

\* What voltronic_receive_data makes of a reply of length bytes, '\r'
\* included: the size of its data, or -1.
DataSize(length, match) ==
  IF NoParseCrc \in options
    THEN length - EndOfInputSize
    ELSE IF length >= NonDataSize /\ (NoVerifyCrc \notin options \/ match)
           THEN length - NonDataSize
           ELSE -1

\* The read brings the terminator: voltronic_read_data_loop returns at once,
\* whatever the time, and voltronic_receive_data parses the reply.  A reply
\* without data is a failure for voltronic_dev_execute (result > 0).
ReadEnd ==
  /\ pc = "read"
  /\ \E d \in 0 .. ReadTimeout + MaxDelay : Wait(d)
  /\ \E bytes_read \in ImplReadResults(room) \ {-1, 0} :
       \E position \in 1 .. bytes_read, match \in BOOLEAN :
         LET length    == size + position
             data_size == DataSize(length, match)
         IN  /\ size' = length
             /\ room' = room - (position - 1)
             /\ received' = length
             /\ crc' = IF match THEN "match" ELSE "mismatch"
             /\ IF data_size > 0
                  THEN pc' = "done" /\ result' = data_size /\ errno' = "OK"
                  ELSE Fail(IF data_size = 0 THEN "OK" ELSE "EBADMSG")
  /\ UNCHANGED <<args, exec_start, loop_start, write, elapsed, recv_timeout>>

\* Mutant: one byte too late.
NoRoomLate(bytes) == bytes < 0

\* buffer_length of the read loop is used up.
NoRoom(bytes) == bytes <= 0

\* The read brings no terminator: some bytes, or none because it timed out.
\* The loop looks at the time first and at the buffer second.
ReadMore ==
  /\ pc = "read"
  /\ \E bytes_read \in ImplReadResults(room) \ {-1} :
       /\ \E d \in (IF bytes_read = 0 THEN ReadTimeout ELSE 0) .. ReadTimeout + MaxDelay :
            Wait(d)
       /\ size' = size + bytes_read
       /\ room' = room - bytes_read
  /\ elapsed' = Elapsed(clock', loop_start)
  /\ IF elapsed' >= recv_timeout
       THEN Fail("ETIMEDOUT") /\ received' = 0
       ELSE IF NoRoom(room')
              THEN Fail("ENOBUFS") /\ received' = 0
              ELSE pc' = pc /\ errno' = "OK" /\ UNCHANGED <<result, received>>
  /\ UNCHANGED <<args, exec_start, loop_start, write, recv_timeout, crc>>

Call == Execute \/ WriteReport \/ StartReceive \/ ReadError \/ ReadEnd \/ ReadMore

\* The call has returned.
Returned == pc = "done" /\ UNCHANGED vars

Next == Call \/ SetClock \/ Returned

\* Every call of the back end returns: reads at their timeout, writes because
\* the USB stack completes or fails them.  Nobody is obliged to set the clock.
Spec == Init /\ [][Next]_vars /\ WF_vars(Call)

-----------------------------------------------------------------------------
(* Properties. *)

\* Every variable keeps its type; sizes stay inside the buffers.
TypeOK ==
  /\ pc \in {"execute", "write", "written", "read", "done"}
  /\ now \in Nat /\ steps \in 0 .. MaxClockSteps
  /\ clock \in 0 .. ClockMod - 1
  /\ timeout \in Timeouts /\ options \in OptionSets /\ send_length \in CommandLengths
  /\ exec_start \in 0 .. ClockMod - 1 /\ loop_start \in 0 .. ClockMod - 1
  /\ bytes_left \in Int /\ offset \in Nat /\ sent \in Seq(Nat)
  /\ elapsed \in Nat /\ recv_timeout \in Nat
  /\ size \in 0 .. ReceiveLength /\ room \in 0 .. ReceiveLength
  /\ crc \in {"none", "match", "mismatch"}
  /\ result \in {NotYet} \cup 0 .. ReceiveLength
  /\ received \in {NotYet} \cup 0 .. ReceiveLength
  /\ errno \in {"OK", "EIO", "ETIMEDOUT", "ENOBUFS", "EBADMSG"}

\* voltronic_write_data_loop and voltronic_dev_execute: the device gets the
\* request's bytes in order, none twice and none left out, and the library
\* listens for a reply, or reports one, only after the last byte went out.
RequestInOrder ==
  /\ sent = [i \in 1 .. Len(sent) |-> i]
  /\ pc \in {"written", "read"} \/ result > 0 => Len(sent) = CopyLength

\* voltronic_read_data_loop: the timeout handed to hid_read_timeout is at
\* least 1 and at most the caller's, whatever the clock does.  It goes through
\* unsigned arithmetic into an int, where a negative value blocks for ever.
WaitIsBounded == pc = "read" => ReadTimeout \in 1 .. timeout

\* voltronic_read_data_loop never asks for 0 bytes (voltronic_dev_read would
\* return 0 at once and the loop would spin) nor for more than the buffer has.
ReadHasRoom == pc = "read" => room > 0 /\ size + room = ReceiveLength

\* voltronic_dev.h: "timeout_milliseconds -> Number of milliseconds to wait
\* before giving up".  One late back-end call and one late reading of the
\* clock are all that can be added to it, if nobody sets the clock.
GivesUpInTime == steps = 0 => now <= timeout + 2 * MaxDelay

\* The other half of the same sentence: ETIMEDOUT is not reported before the
\* time is up, even if the time source wraps around during the call.
NotTooEarly == steps = 0 /\ errno = "ETIMEDOUT" => now >= timeout

\* A call always returns.
Returns == <>(pc = "done")

-----------------------------------------------------------------------------
(* What the documentation says and the code does not do. *)

\* voltronic_dev.h names the flag DISABLE_VERIFY_VOLTRONIC_CRC and README.md
\* exit code 2 for an invalid response: unless disabled, a reply whose
\* checksum is wrong is not accepted (voltronic_receive_data).
BadChecksumIsRejected ==
  NoVerifyCrc \notin options /\ NoParseCrc \notin options /\ result > 0 => crc = "match"

\* voltronic_dev.h: "timeout_milliseconds -> Number of milliseconds to wait
\* before giving up", whoever sets the clock.
GivesUpAlways == now <= timeout + 2 * MaxDelay

-----------------------------------------------------------------------------
(* What the call promises its caller. *)

\* How far the call is, for its caller.
CallPhase ==
  CASE pc \in {"execute", "write", "written"} -> "sending"
    [] pc = "read" -> "awaiting"
    [] pc = "done" -> (IF result > 0 THEN "answered" ELSE "failed")

\* The bytes of the request the device has not got yet.
Owed == CopyLength - Len(sent)

Contract == INSTANCE DevCall WITH
  phase <- CallPhase,
  owed  <- Owed,
  reply <- size,
  RequestLengths <- {n + EndOfInputSize : n \in CommandLengths}
                      \cup {n + NonDataSize : n \in CommandLengths},
  ReplyLimit <- ReceiveLength

\* The call implements the contract DevCall states for it.
ImplementsContract == Contract!Spec
=============================================================================
