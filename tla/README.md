# A formal model of isv

`isv` is a command line program that talks to a Voltronic solar inverter in the
protocol P18 over USB HID. This directory holds TLA+ modules that model it, TLC
configurations that check them, and proofs for TLAPS. All line numbers refer to
the C sources in `src/`.

1. [The system](#1-the-system)
2. [Modules](#2-modules)
3. [Runs](#3-runs)
4. [Where the code and its documents disagree](#4-where-the-code-and-its-documents-disagree)
5. [Remarks](#5-remarks)
6. [Proofs](#6-proofs)
7. [Not modelled](#7-not-modelled)

## 1. The system

| component | files | state it keeps | operations | modelled in |
|---|---|---|---|---|
| request execution | `libvoltronic/voltronic_dev.c` | one call: start times, bytes left, buffer room, result | `voltronic_dev_execute` with its write loop and its read loop | `VoltronicDev`, `DevCall` |
| USB back end | `libvoltronic/voltronic_dev_usb_hidapi.c` | the open device | `voltronic_usb_create`, `voltronic_dev_impl_read/write/close` | `VoltronicUsb`; opening and closing in `Isv`, `IsvSessions` |
| checksum | `libvoltronic/voltronic_crc.c` | none | `calculate_voltronic_crc`, `read_`/`write_voltronic_crc` | `VoltronicCrc`, `VoltronicCrcTable` |
| protocol P18, requests | `p18.c`, `p18.h` | none (static tables) | `p18_build_command`, `p18_append_arguments` | `P18Command`, `P18Text` |
| protocol P18, replies | `p18.c`, `p18.h` | none | `p18_validate_query_response`, `p18_set_result`, list splitting, 20 unpackers | `P18Protocol`, `P18Unpack`, `P18List`, `P18Fields` |
| main program | `isv.c` | action, command, array of arguments, flags, device | option loop in `main`, `query`, `execute_raw`, `exit_with_error` | `Isv` |
| argument checks | `isv.c`, `util.c` | none | dates, times, voltages, currents, identifiers, keywords | `IsvArgs` |
| output | `print.c`, `print.h`, the labels of `p18.c` | the format | a row for every field, as table or JSON | `IsvPrint`, `IsvReply` |
| several invocations | all of these, and the inverter | what is left in the inverter and on its way | invocations one after the other or at once | `IsvSessions` |
| serial back end | `libvoltronic/voltronic_dev_serial_*` | the port | not compiled by the Makefile | - |
| usage, hexdump, logging | `isv.c`, `util.c` | the flag `g_verbose` | text only | - |

**How they interact.** All calls are synchronous and on one thread. `main` reads
the options; each one may write the shared variables `act`, `command_no`,
`pretend` and the array `a[6]`. After the last one it opens the device, and
`query` (or `execute_raw`) builds a request from `a[]` and calls
`voltronic_dev_execute`, which adds the checksum, cuts the request into HID
reports of 8 bytes, writes them, and then reads reports into the caller's
128-byte buffer until it sees `'\r'`. `query` judges the reply by its first five
bytes, unpacks it into the message's struct through the message's callback, and
prints the struct row by row.

**What is hard.** The program has one thread, but four other actors: the
inverter (late, short, long, corrupted or no answers; a report may bring any
number of bytes), the clock (it wraps, it may be the wall clock and be set
during a call), the user, who may combine options in any order, and other
invocations of the same program, which nothing keeps from the same inverter. On
top of these there are partial failures between the reports of one request,
unsigned differences of times and lengths that end up in an `int`, padding that
is counted as data, words that are looked at as `float` or `uint16_t` and sent as
something else, and about 300 hand-written lines that store and print fields.
Nothing is persisted and nothing is retried; what an invocation leaves behind is
in the inverter and in the system's queue of reports.

**What makes the components correct.**

* request execution: the device gets the request's bytes once and in order, the
  library listens only after the last one; no wait is longer than the caller's
  timeout and the whole call keeps it; ETIMEDOUT is not early; no byte leaves
  the buffer; the call returns; what it accepts is a complete, undamaged reply.
* USB back end: a report is full, its padding is not counted twice, reads and
  writes never report more than a report.
* checksum: equal to the polynomial's, free of the reserved bytes, and still able
  to tell a damaged frame.
* requests: a command's declared length is its length; what is sent is what the
  words say.
* replies: a reply is accepted only if it is the answer asked for and is all
  there; every item lands in the field it belongs to, and no copy overruns its
  array.
* main program: the request is built from the arguments of its own command; bad
  input and `--pretend` send nothing; the exit code tells what happened.
* argument checks: what passes them is what the documentation allows, and what it
  allows passes them.
* output: every field is shown once, with the value sent for it, in its unit.
* several invocations: exit code 0 means that one's own request was carried out,
  or at least it is known when it does not.

## 2. Modules

```
VoltronicUsb ── VoltronicDev ── MCVoltronicDev
                  │    │  └──── VoltronicDevProofs
                  │    └ implements ─> DevCall <─ uses ─ Isv ── MCIsv
                  │                      ^               └───── IsvProofs
                  │                      └ implements ─ IsvSessions ── MCIsvSessions
                  │                                        └── IsvSessionsProofs
VoltronicCrc ── VoltronicCrcTable ┬─ MCVoltronicCrc
                                  └─ VoltronicCrcProofs

P18Protocol ┬─ Isv, IsvSessions
            └─ P18Command ── IsvArgs ┬─ MCIsvArgs
               │                     └─ IsvArgsProofs
P18Text ────┬──┘
            └─ P18Unpack ┬─ P18List ┬─ MCP18List
                         │          └─ P18ListProofs
                         └─ P18Fields ── IsvPrint ── IsvReply ┬─ MCIsvReply
                                                              └─ IsvReplyProofs
```

`P18TextProofs` has the lemmas about the operators of `P18Text`; `IsvArgsProofs`,
`P18ListProofs` and `IsvReplyProofs` extend it, and so does `VoltronicCrcProofs`,
for its induction on natural numbers.

### VoltronicUsb
What a call of the back end can return. `GetReportSize` is the macro
`GET_REPORT_SIZE`; `ImplWriteResults` and `ImplReadResults` are the results of
`voltronic_dev_impl_write` and `_read`. hidapi is external: `HidWriteResults`
is the size of a report with its id byte, or -1.

### VoltronicDev
One call of `voltronic_dev_execute`, each step being one call of the back end
and the code up to the next one.

| action | code |
|---|---|
| `Execute` | 304-323: read the clock, assemble the request |
| `WriteReport` | 232-262: one round of the write loop, with its error, end and deadline exits |
| `StartReceive` | 325-341: is there time left; start of the read loop |
| `ReadError` | 172-174: the back end fails |
| `ReadEnd` | 149-160 and 200-229: the terminator arrived; the reply is parsed |
| `ReadMore` | 131-171: bytes without terminator, or none; deadline first, room second |
| `SetClock` | somebody sets the wall clock (401-409 read it) |

`pc` stands for the position in the nested functions. `exec_start`,
`loop_start`, `elapsed`, `bytes_left`, `room`, `recv_timeout`, `size`,
`result`, `received` and `errno` are the code's variables (`room` is the read
loop's `buffer_length`, `size` its running total). `now`, `steps`, `sent` and
`crc` are ghosts: real time, how often the clock was set, which bytes went out,
and whether the reply's checksum is right. A step of the back end takes any time
up to its timeout plus `MaxDelay`.

Left out: the bytes of request and reply (only lengths and the position of
`'\r'` matter), the verbose hexdumps, and the time sources of Windows and
Arduino, which differ from the modelled one only in their modulus.

### DevCall
What the call promises: the whole request before listening, then a reply that
fits the buffer, or a failure at any point. `VoltronicDev` implements it
(`ImplementsContract`), and `Isv` calls it, so that the checks of the program
are about the library that was checked. The calls of `IsvSessions`, counted in
reports, implement it too (`CallsImplementContract`).

### VoltronicCrc, VoltronicCrcTable
`VoltronicCrc` has what is arithmetic on bytes: `Adjusted` is the end of
`calculate_voltronic_crc` that avoids `(`, `\r` and `\n`, `WriteCrc` and
`ReadCrc` are the two helpers, `Frame` is what goes on the wire. `Xor` is the
operator `^`, by the bits of a word (`Bit`, `Word`).
`VoltronicCrcTable` runs the loop a byte a step (`TakeByte`, two look-ups in
`CrcTable`), puts the text into a frame (`Send`) and lets the line change a byte
(`Damage`, external). `Accepted` is what `voltronic_receive_data` would accept if
it compared checksums (section 4, number 2). `OnlyDamageIsRefused` is what such
a receiver could rely on, in two parts, `SentIsAccepted` and `DamageIsRefused`.
The second has exceptions, which are real: a damage that makes a `'\r'` ends the frame early, in
front of what may pass for its checksum, and an adjusted remainder shares its
checksum with another one.

### P18Protocol
The 41 commands, how many elements of `a[]` `p18_append_arguments` reads for
each and how many words `main` takes, and the judgement of replies:
`ValidQueryResponse`, `SetResult`, and `DeclaredLengths`, what `atoi` can make of
the length field of a reply that may end inside it.

### Isv
One invocation. Options are chosen one at a time (`ChooseAction`, `OtherOption`,
`Pretend`, `RawOption`, `QueryOption`, `BadCommandLine`, `EndOfOptions`), then
`Open`, `BeginCall`/`PretendQuery`/`UnexpectedAct`, `CallStep` (a step of
`DevCall`), `CallFailed`, `RawAnswered`, `QueryAnswered`, `QueryRefused` and
`Close`. `a[i]` holds the option that filled the slot, not its text. Whether an
option's arguments are good is nondeterministic here (`QueryOption` or
`BadCommandLine`); `IsvArgs` decides it. With a NULL device (`--pretend` without
an inverter, and `-r`) hidapi is given a null pointer: `pc = "crashed"`.

### IsvSessions
Several invocations on one inverter. Each opens the device (`Open`: there is no
lock), sends its request report by report (`WriteReport`), listens (`Listen`),
reads reports (`ReadReport`), may fail, time out or be ended by a signal at any
point (`GiveUp`), and judges what it has read (`Finish`, with the operators of
`P18Protocol`). The inverter is external: `Understand` looks at the first request
that has an end and carries it out, refuses or ignores it, or cannot read it
because reports of several requests are mixed; `SendReport` gives a report of an
answer to every open handle, as hidraw does. `done`, `mixed`, `unsettled` and
`suspect` are ghosts: whose request was carried out, whose got mixed up, who left
without the answer it had asked for, and who met another's traffic.

### P18Text, P18Command
`P18Text` is what `atoi`, `substr_copy` and `sprintf("%0nd")` do, on text of
digits and commas. `P18Command` is `p18_build_command`: the length of each
command's name, `AppendArguments` for each command, and the declared length. A
word of the command line is a record (`Word`): blanks and a sign (`Lead`), letters,
digits, a separator with more digits, in front of which there may be blanks and a
sign again, and how many other characters follow. These last ones are no part of a
number to any conversion of C (not `e5` or `x1f`); the letters are a keyword, or
`nan` for everything that `strtof` reads as not a number.

### IsvArgs
One option with its words: `TooFewWords`/`GetArgs` (getopt_long takes the first
word whatever it is, `GET_ARGS` the others unless they begin with `-`),
`BadWord`/`Check` (the checks of `main`, one by one in `Checked`, and what it
writes back into `a[]` in `Rewritten`), `ExtraWord`/`Build`. `FloatOf` is the
nearest `float` of a number of tenths; `GetUint` and `ValidTime` take blanks and
signs as `strtoul` and `%hu` do, and `ValidTime` its numbers modulo 2^16. `Misread`
names the accepted words that `SentIsMeant` cannot hold for (section 5). Below the model, `Kinds`, `Allowed` and `Written` say what
`README.md` and the usage text allow.

### P18Unpack, P18List
`P18Unpack` has the twelve messages whose data is a list: for each item of each
message, how its callback stores it (`Conversions`: a number, a flag, text of a
certain length, a time of day), and how many items are expected
(`ExpectedItems`; -1 is any number). `Converted` is what the callback of one item
does. Items are digits: the protocol's lists hold nothing else but a letter or
two, which no property needs. An item shorter than two characters makes the
callbacks of the time buckets read their minutes from behind its end; what they
find is two digits, any number of `StaleMinutes`.

`P18List` is the loop of `p18_parse_list`, a character a step.

| action | code (p18.c) |
|---|---|
| `Collect` | 486-491: a character of an item, dropped if the buffer is full |
| `Deliver` | 493-507: the end of an item, its last character, the check for surplus items, the callback |

`i`, `buf` and `item_index` are the code's variables, `char_index` is the length
of `buf`; `m` and `len` are the message. `first` and `delivered` are ghosts: where
the item begins, and what the callbacks were called with.

### P18Fields, IsvPrint, IsvReply
`P18Fields` names the field each item of a list is stored in, and the columns of
the eight other messages. `IsvPrint` has every row of `print.c`, message by
message: which field, which style (divisor, precision, unit, or the table of
labels), and what a line looks like in each of the four formats, down to the 31
characters a cell has room for. `IsvReply` composes them: `StoreItem`,
`StoreAmps` and `StoreColumn` unpack an accepted reply, `PrintRow` prints it. Its
last part is what `p18.h` says of the fields (`DeclaredUnit`, `Parts`,
`SaysOne`). Titles, padding and separators are left out: a row is named by its
key.

## 3. Runs

| run | properties | instance |
|---|---|---|
| `call` | `TypeOK`, `RequestInOrder`, `WaitIsBounded`, `ReadHasRoom`, `GivesUpInTime`, `NotTooEarly`, `ImplementsContract`, `Returns` | reports of 4 bytes, buffer 10, requests of 1 to 9 bytes, timeouts 1 and 3 ms, delays up to 1 ms, all 8 option sets, a clock that wraps at 8, starts at 0 or 6 and may be set once |
| `call_deadline` | `GivesUpAlways` violated | the same with isv's options |
| `call_checksum` | `BadChecksumIsRejected` violated | isv's options, a clock nobody sets |
| `crc` | `TypeOK`, `RemainderIsPolynomial`, `FrameEndsAtItsEnd`, `OnlyDamageIsRefused` | every text of one or two bytes without `'\r'`; in the frames of one byte, and of two that begin with one of two bytes, every byte of text and checksum changed in 14 ways |
| `isv_invocation` | `TypeOK`, `OwnArguments`, `PretendSendsNothing`, `InputErrorsSendNothing`, `ZeroMeansDone`, `NoCallWithoutDevice`, `Ends` | all 41 commands, three options, replies up to 10 bytes |
| `isv_truncated` | `AcceptedReplyIsComplete` violated | four commands, one of each kind |
| `sessions` | `TypeOK`, `OwnReply`, `ZeroMeansCarriedOut`, `UndisturbedIsUnderstood`, `CallsImplementContract`, `Ends` | three invocations, one with a set command, two at once, two reports for a request and for a reply with data |
| `args` | `TypeOK`, `LengthIsDeclared`, `SentIsMeant`, `OthersAreAccepted` | every command with words at and around each limit, in two neighbouring places (three for a date), one too few and one too many |
| `args_documented` | `DocumentedIsAccepted` violated | the same |
| `list` | `TypeOK`, `ItemsAreSplit`, `AllItemsDelivered`, `FieldsHoldTheirItems` | a buffer of 8 bytes, arrays of 3 numbers; lists with 0, 1, 2 items and two or one too few, all, one too many; items all 1, all 2, of two digits that tell them apart, every other one empty, or 0 to 8 wide; with and without a comma at the end |
| `reply` | `TypeOK`, `ShownAsDeclared`, `AnswersAreGiven`, `NothingIsLost`, `LabelsAreReadable`, `CopiesFit`, `ColumnsKeepTheData` | every message in every format, items that differ from all others and each item alone with 1 to 6, every fault code, data cut off after each character |
| `reply_documented` | `ValuesAreShown` violated | the same |

**What they show.** `call`: whatever the device, the clock and the options do,
the request goes out in order before anything is read, no read is without room or
without limit, and the call ends in time and not early if nobody sets the clock.
`isv_invocation`: no order of options makes a request out of another command's
words, and the exit codes hold. `sessions`: nothing keeps two invocations apart,
and this is what is left of the exit code then: 0 always means that a request *of
the same kind*, asking or setting, was carried out; it means one's own if nobody
shared the device and nobody left it before without an answer. `args`, `list` and
`reply` compare the code with what `README.md`, the usage text and `p18.h` say of
every word and every field; the exceptions are in the properties by name
(`KnownRefusal`, `WrongValues`, `WrongUnits`, `Omitted`) and in sections 4 and 5.

**Why the bounds are enough.** The call's loops depend on comparisons of sizes
only. With reports of 4 and a buffer of 10 a request takes one, two or three
reports, the last one full (4 bytes), nearly empty (9) or nearly full (7), and a
reply can fill the buffer with a last, shorter read. Timeouts of 1 and 3 ms with
delays of 0 or 1 ms let the deadline pass before, between and after every write
and read. `ClockMod = 8` exceeds the longest call (`timeout + 2 * MaxDelay`), as
2^32 ms or 2^64 ms do, and the clock that starts at 6 wraps in every place of
the call. In `Isv`, two options are enough to make one overwrite the other's
slots, three to put something between two queries; a reply of 10 bytes holds the
header, data and trailer of the shortest reply and every truncation of it. In
`IsvSessions`, three invocations are the least with which one may meet what is
left of two others, and two reports the least that can be interleaved. All
remainders the loop of the checksum can have occur after two bytes or nearly so;
a third byte would meet them again. The checks of words are comparisons with
limits, met on both sides; every voltage between the limits of the cut-off is
tried, and numbers come with a blank, a `-`, a `+` or both in front of them, among
them negative amperes and voltages and times that wrap from below. In `P18List` the loop compares a length with the buffer's size and an
index with a count: items one shorter than, as long as and longer than what the
buffer holds, and lists one shorter than, as long as and longer than expected,
meet each comparison on both sides. In `IsvReply` the items' values tell them
apart, so that a row with another's field shows. The theorems of section 6 hold
without any of the bounds.

**Deadlock.** Checked in all runs: what returned, ended or has nothing to do
stutters explicitly.

**Fairness.** `VoltronicDev`: `WF_vars(Call)`; `hid_read_timeout` returns after
its timeout at the latest, because it is always at least 1 and at most the
caller's (`WaitIsBounded`, checked and proved), and `hid_write` is completed or
failed by the USB stack. Nothing is assumed of `SetClock`. `Returns` then rests
on the code: every read either ends the call, uses up buffer, or takes its whole
timeout. `Isv`: `WF_vars(Step)`; the process is scheduled, the command line is
finite, and the library's call returns, which `Returns` shows. `IsvSessions`:
`WF_vars(Run(p))` for each invocation; of the inverter nothing is demanded, it
may never answer, and nobody has to begin. The other modules state safety only.

## 4. Where the code and its documents disagree

Each is shown by a run that must find the violation (`findings` in
`PROJECT.json`):

1. `call_deadline`: with `-std=c99` (Makefile:13) `CLOCK_MONOTONIC` is not
   defined by glibc, so the clock is `gettimeofday`; set back during a call, it
   makes the call wait longer than its timeout.
2. `call_checksum`: the test of `DISABLE_VERIFY_VOLTRONIC_CRC`
   (voltronic_dev.c:207) is inverted; by default checksums are not compared.
3. `isv_truncated`: a reply one byte short, or `^D` alone, is accepted
   (p18.c:450).
4. `args_documented`: the tables of re-discharging voltages are searched with the
   length of another table (isv.c:718), so that the last four of each are
   refused.
5. `args_documented`: 58.4 V, the upper limit, is refused, because it is compared
   as `float` with a `double` (isv.c:681).
6. `reply_documented`: the panel voltage in the general status of a parallel
   machine is stored as `num == 1` (p18.c:1258), as for a flag, so isv shows 0 or
   0.1 V.
7. `reply_documented`: the answers of `settings_values_changed` are swapped
   (print.c:581 against p18.h:282-284).

`args` and `reply` show that nothing else of the kind is there: with these
excepted, every documented word is accepted, and every line shows what was sent.

## 5. Remarks

Seen while modelling, with no document that the code contradicts plainly enough
for a run of its own:

* Time: `mach_absolute_time` is taken for milliseconds on macOS
  (voltronic_dev.c:370), where calls time out early.
* Return values: `voltronic_dev.h` says that `voltronic_dev_execute` returns 1,
  it returns the number of data bytes. A reply that is only a trailer fails with
  errno 0 (voltronic_dev.c:336). `-h` and an empty command line exit with 1, and
  so does a device that cannot be opened (isv.c:842), which README.md:315-316
  would count as a communication failure.
* Options: `--pretend` takes an argument, `-p` does not (isv.c:506, 559). "One
  query at a time" (isv.c:605) looks at the last action only, so that `-r`, `-d`
  or `-h` between two queries defeats it; `OwnArguments` holds all the same.
* Words that pass and are not sent as anything the documents allow, `Misread` in
  `IsvArgs`: a time whose numbers wrap in `%hu` but not in `atoi` (isv.c:805), as
  `65536:00`, sent as 65536, or `-65530:00`, which passes as 6:00 and is sent as
  -65530; amperes below 0, as `" -5"` with a blank, which `get_args` and `strtoul`
  let pass (isv.c:280, 461) and which are sent as `-05`; and `nan` for a voltage,
  which compares with no limit. Other odd words are sent as what they say: `12x`
  as 12 amperes, `" 6:+30"` as 6:30, an empty word for an hour or a parallel id
  as 0.
* Replies: the year of the current time is copied with its 0 into `char s[4]`
  (p18.c:541, against the comment at util.c:64). The length in front of a series
  number (p18.c:603-615) is not compared with the array's, which has room for 31
  and the 0; TLC is given lengths up to 31, and `CopiesFit` and
  `LabelsAreReadable` leave out longer ones by name. Data too short for its columns is continued with what
  the buffer held before (`StaleTexts`), and a time of less than two characters
  likewise (`StaleMinutes`, p18.c:1312); no document says what such a reply means.
* Output: some labels of fault codes are longer than the 31 characters of a cell
  and lose their end or their closing quotation mark (print.c:102). Watts are
  shown as `Wh`; `max_temp` has no unit; `p18.h` gives
  `ac_output_rating_voltage` in "0.1A", which must be a slip of that comment.
  Five fields are stored and never printed (`Omitted` in `IsvReply`).

## 6. Proofs

| theorem | module | statement |
|---|---|---|
| `TypeCorrect` | `VoltronicDevProofs` | `Spec => []TypeOK`: sizes stay inside the buffer |
| `BoundedWait` | | `Spec => []WaitIsBounded` |
| `RoomToRead` | | `Spec => []ReadHasRoom` |
| `OrderedRequest` | | `Spec => []RequestInOrder` |
| `Refinement` | | `Spec => ImplementsContract` |
| `DeadlineIsKept` | | `Spec => []GivesUpInTime`, for a `MillisecondClock` |
| `TimeoutIsNotEarly` | | `Spec => []NotTooEarly`, for a `MillisecondClock` |
| `IsvTypeCorrect` | `IsvProofs` | `Spec => []TypeOK` |
| `ArgumentsAreOwn` | | `Spec => []OwnArguments` |
| `PretendIsSilent` | | `Spec => []PretendSendsNothing` |
| `InputErrorsAreSilent` | | `Spec => []InputErrorsSendNothing` |
| `ZeroIsDone` | | `Spec => []ZeroMeansDone` |
| `CallsHaveDevice` | | `Spec => []NoCallWithoutDevice` |
| `SessionsTypeCorrect` | `IsvSessionsProofs` | `Spec => []TypeOK` |
| `ZeroIsCarriedOut` | | `Spec => []ZeroMeansCarriedOut` |
| `ReplyIsOwn` | | `Spec => []OwnReply` |
| `RequestsAreUnderstood` | | `Spec => []UndisturbedIsUnderstood` |
| `CallsAreContracts` | | `Spec => CallsImplementContract`, for finitely many invocations |
| `CrcTypeCorrect` | `VoltronicCrcProofs` | `Spec => []TypeOK` |
| `CrcIsPolynomial` | | `Spec => []RemainderIsPolynomial` |
| `OneByteTells` | | texts that differ in one byte have different remainders |
| `CrcFrameEnds` | | `Spec => []FrameEndsAtItsEnd` |
| `CrcSentIsAccepted` | | `Spec => []SentIsAccepted` |
| `CrcDamageIsRefused` | | `Spec => []DamageIsRefused` |
| `CrcOnlyDamageIsRefused` | | `Spec => []OnlyDamageIsRefused` |
| `ListTypeCorrect` | `P18ListProofs` | `Spec => []TypeOK`: an item and its 0 fit the buffer, an array takes no more than its size |
| `SplitItems` | | `Spec => []ItemsAreSplit`: the callbacks get the items between the commas |
| `EveryItemIsDelivered` | | `Spec => []AllItemsDelivered` |
| `FieldsAreTheirItems` | | `Spec => []FieldsHoldTheirItems` |
| `ReplyTypeCorrect` | `IsvReplyProofs` | `Spec => []TypeOK` |
| `CopiesHaveRoom` | | `Spec => []CopiesFit` |
| `DataIsKept` | | `Spec => []ColumnsKeepTheData` |
| `NumbersAreShown` | | `Spec => []ShownAsDeclared` |
| `EveryFieldIsPrinted` | | `Spec => []NothingIsLost` |
| `AnswersAreTrue` | | `Spec => []AnswersAreGiven`: a yes is printed if, and only if, the inverter sent it |
| `LabelsAreShown` | | `Spec => []LabelsAreReadable`: a label fits its cell and is quoted if it has a space |
| `ArgsTypeCorrect` | `IsvArgsProofs` | `Spec => []TypeOK` |
| `LengthsAreTrue` | | `Spec => []LengthIsDeclared` |
| `WordsAreMeant` | | `Spec => []SentIsMeant`: what is sent is what the words say, but for those `Misread` |
| `DocumentedIsTaken` | | `Spec => []OthersAreAccepted`: what README.md allows is accepted |

**Assumptions.** Only the named ASSUMEs on the constants: the report size, the
buffer and the timeouts are positive, option sets are sets of the three flags,
clock values are below `ClockMod`; the parser's buffer has room for the 0, the
data of a list are digits and commas, a text has no carriage return and a change
of a byte changes it, and the items and columns of a reply are
digits; requests and replies take at least a report and "nobody" is not an
invocation. `CommandLinesAssumption` says what a word of the command line is in
this model: of any length and with any blanks and sign in front, but digits behind
a separator only, a second sign behind a colon only, at most one decimal, and
numbers below 10^9 where they are read as numbers (a parallel configuration id may
be longer). Above that `atoi` overflows, and what `Width` and `Atoi` stand for
ends. It also says that no word behind those an option takes begins with `-`: that
would be the next option. What stands behind a time without minutes
is two digits (`UnpackAssumption`), as `atoi` reads two characters of text. To the
prover a string is an atom: it does not know how long "Yes" is. `WordsAssumption`
says it of the words that are printed: each is its characters, and none but those
of fault codes has more than 29. No constant is in it, so that TLC settles it when
it evaluates it. Three theorems have one more, as a
hypothesis: the two about the deadline `MillisecondClock`, the time source counts
milliseconds and has more values than the longest call has milliseconds;
`CallsAreContracts` that there are finitely many invocations. Otherwise
invocations, options, reports, commands and lengths are not bounded.

None of the properties is inductive.

**The call.** `IndInv` is a conjunction of

* `TypeOK`;
* `WriteInv`: during the write loop `offset` is the number of bytes sent,
  `offset + bytes_left` is the length of the request and `bytes_left` is
  positive, so that `Report` continues where the last one ended and the padded
  report can only be the last; after it all bytes are out;
* `ReadInv`: in the read loop `size + room` is the buffer's size, `room > 0`,
  and `elapsed < recv_timeout <= timeout`. That is the whole argument for
  `WaitIsBounded`: the loop checks the time before it subtracts, so no
  difference of clock readings, however wrong, reaches `hid_read_timeout`.

One lemma per action shows that it preserves the invariant; `Refinement` shows
that each action is, under the mapping `CallPhase`, `Owed`, `size`, a step of
`DevCall` or a stutter, and uses the invariant where the mapping needs it: a
padded report owes nothing more, a reply fits the buffer.

**The deadline.** The code never sees `now`, only differences of readings modulo
`ClockMod`. `TimePasses` says that such a difference grows by the time that
passed, across a wrap too, while it stays below one round. `DeadlineInv` then ties
the readings to `now` as long as nobody set the clock: `exec_start` is the
beginning of the call; the write loop's `loop_start` is at most `MaxDelay` later;
the read loop's is at most `MaxDelay` later than the moment `recv_timeout` was
computed for. These are the two delays of `GivesUpInTime`, and no third one can
come in, because each loop looks at the clock after every call of the back end.

**One invocation.** `OwnArguments` speaks of the moment the request is built;
`ArgumentsInv` says the same at any time: the slots the current action will read
are from the option that set it. That no command reads more slots than `main`
filled (`EnoughSlots`) compares the two tables of argument counts for all
commands. `ControlInv` and `EndInv` follow device, call and reply through the
program's phases.

**Several invocations.** `ZeroIsCarriedOut` needs little: every acknowledgement
and every reply with data, wherever it is on its way, is for something that was
carried out (`Truthful`). `ReplyIsOwn` and `RequestsAreUnderstood` need to know
where everything of an invocation is. `OwnInv` says that

* reports of a request lie in the inbox in order (`OrderInv`), it is answered
  once, after all of it was sent, and not if it got mixed up (`OnceInv`), and
  behind the last report of an answer there is no other of it (`LastInv`);
* so an invocation that left with its answer has left nothing behind: whatever is
  in the inbox or the outbox belongs to one that is open or unsettled
  (`LeftInv`);
* therefore one that opens the device when nobody else has it and nobody is
  unsettled finds inbox, outbox and queue empty, and until it is suspect only its
  own reports come there (`AloneInv`, `FirstInv`), and what it has read was for
  it (`ReadInv`).

`CallsAreContracts` needs to know that an invocation never gets more reports than
the contract's `ReplyLimit`, and it gets a copy of everybody's. `CountInv` counts
them over all invocations: those on their way and those that arrived are at most
`ReplyReports` for each invocation that is no longer `Pending`, and `Pending` loses
its member when the inverter answers, because `OwnInv` says that the end of a
request comes once.

**The checksum.** `CrcInv` says that the remainder is that of the text and that the
wire holds its frame, with another byte in one place if it was damaged. All else
is about words of 16 bits. A word is known by its bits (`WordHasBits`,
`SameBits`); those of a sum of two parts are those of the parts (`SplitBits`),
which gives shifts, halves of bytes and the table, whose entries are their index
in three places (`TableBits`). So each bit of a look-up is the exclusive or of at most
three others (`TakeNibbleBits`), and everything follows from comparing bits:

* `UpdateDivides`: two look-ups are eight steps of the division, and by induction
  `RemainderDivides`, whatever the length;
* `UpdateTellsByte`, `UpdateTellsRemainder`: a round of the loop can be undone,
  from either side, so that a difference in one byte is never lost
  (`OneByteTells`);
* `AdjustedIs`: the reserved bytes are so small that no increment carries, and
  none becomes another reserved byte, so the two bytes are adjusted by
  themselves;
* `OneByteText`: an increment leaves all but the two lowest bits of a byte alone
  (`SameAdjusted`), and the twelve bits that are left tell the byte of a text of one.

A run sees texts of two bytes; that the exceptions of `DamageIsRefused` are all
there are for longer ones is known from the theorem only.

**The parser.** `TypeOK` and `ItemsAreSplit` with two facts about the middle of an
item: `BufferInv`, no comma lies between `first` and `i`, and the buffer is what
`substr_copy` would leave of that part of the data; and `CountInv`, until there
are too many items each one read is delivered and the current one begins behind
the comma of the last. The lemma `CopyGrows` is the heart of it: a copy of one
more character is the copy, with the character appended if there is room.

`StoreInvariant` adds what becomes of the items. `FieldsHoldTheirItems` names an
item by its number (`ItemText`, by the commas in front of it), the code by its
place in a loop; `PlaceInv` connects them: `item_index` is the number of ends of
items passed, and of commas before the current item. So the item that is
delivered is the one with that number (`TextOfItem`), and the number of calls at
the end is the number of items there are (`AllEnded`).

**Texts.** What `atoi` reads and `sprintf` prints are functions on sequences.
`P18TextProofs` proves of them, for texts of up to nine digits: `PrintedAtoi`, what was
read is printed as it was; `AtoiTwo` and `AtoiPrinted`, the converse for two
digits; `CopyIsPart`, `substr_copy` leaves the part it is asked for; and
`PartsTogether`, adjacent parts make up the text. They go by the least counterexample, as there
is no induction over data (`LeastOf`, `UpTo`).

**The output.** The invariant `IInv` of `IsvReplyProofs` says what the message
holds halfway: the first `taken` fields are what their items are converted to,
the others zero (`ListInv`); an array holds the first items, as many as fit
(`ArrayInv`); a column is a copy from its place in the data or in what the buffer
held before (`ColumnInv`); the lines printed are those of the first rows
(`OutInv`). Then the theorems are about tables. `MessageTables` goes through the
twenty messages: its rows are in a fixed order, no field has two and every field
that is not `Omitted` has one; each row shows its field with the divisor,
precision and unit that `p18.h` declares (`Shows`); no two keys are equal. The
number of an item can be of any size: `NumberIsExact` shows that a division and
a remainder, printed with a point between them, are the quantity. `DataIsKept`
rests on `ColumnsContiguous`, each column begins where the last one ends, and on
`PartsTogether`; for a series number, whose length is itself a column, on
`SeriesTogether`.

For the two theorems about words, `WordsAreStored` says which fields of a list
are text, times, truth values or codes, `RowsSpeak` that each is printed by a row
of a style that can show it, and `FieldWords` what may be stored there.
`AnswersAreTrue` then goes through the questions: the field is 1 exactly if the
item said so, and the wording is a yes exactly if the field is 1. For
`LabelsAreShown`, `RoomForText` says that a cell with room for its text and two
quotation marks shows both; `LabelShown` and `TextShown` that the labels, texts
and times have that room.

**The arguments.** The invariant `IInv` of `IsvArgsProofs` is short: what was sent
comes from words that passed `Checked`, and words that are refused are too few,
too many, or did not pass. The work is in the words. Both ways are proved for
all of them, one lemma for each command or kind of word:

* what passes is sent as it is meant (`YearIsSent` to `DateTimeIsSent`, put
  together in `AllAreSent`): `Fits`, the text is of the protocol and short enough,
  and `Meant`, the value is allowed and the text is the one the documents ask
  for, unless a word is `Misread`. A sign matters to three kinds of words only,
  and each lemma shows why: most checks refuse any (`PlainIs`), a voltage below 0
  is below the limit (`RangeIs`), a rated voltage below 0 is in no list; what is
  left are amperes (`AmpsIs`) and times (`TimeIs`), where those that are not
  `Misread` are not negative either. Among them are the comparisons as `float` (`FloatLimits`: what is between
  the limits as a `float` is between them in tenths), the places of the
  keywords against the codes of `p18.h` (`KeywordPlaces`) and the calendar
  (`DateIs`);
* what the documents ask for passes (`YearPasses` to `TimePasses`, put together in
  `DocumentedPasses`): here `FloatInside` shows that every voltage but 58.4 stays
  inside the limits as a `float`, and `VoltPasses` that the search with the wrong
  length finds all but the last four. With `KnownRefusal` the two findings 4 and 5 are
  the only ones of their kind, for any word.

**Only model-checked.** Liveness (`Returns`, both `Ends`), which is out of the
prover's reach. Every invariant and every action property of the runs that must
pass is also a theorem.

## 7. Not modelled

* The serial back end (`voltronic_dev_serial_*`): not compiled by the Makefile and
  not called.
* Usage text, hexdump, logging: output without state. The titles, padding,
  separators and braces of tables and JSON; `variant.c`, which carries a value from
  a row to its conversion, is part of `Line` in `IsvPrint`.
* `hid_init`, `hid_exit`, hidapi and hidraw: external, modelled by their results
  (`VoltronicUsb`) and by the queue of each handle (`IsvSessions`); so is the
  inverter.
* Characters other than digits in replies (the letters of protocol names and CPU
  versions): no property tells them apart.
* The time sources of Windows and Arduino: they differ from the modelled one in
  their modulus only.
