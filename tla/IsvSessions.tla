---------------------------- MODULE IsvSessions ----------------------------
(***************************************************************************)
(* Several invocations of the program on one inverter, one after the other *)
(* or at once.  Nothing in the code keeps them apart: there is no lock,    *)
(* the device is opened without claiming it, and a reply does not say      *)
(* which command it answers.                                               *)
(*                                                                         *)
(* Each invocation opens the device, sends its request report by report,   *)
(* reads reports until the one with '\r' and judges what it has read; its  *)
(* call of the library is DevCall, counted in reports.  With hidapi-hidraw *)
(* (Makefile) a report written goes straight to the inverter, and every    *)
(* open handle gets its own copy of every report the inverter sends.  The  *)
(* inverter is external: it may obey, refuse, ignore and answer late, and  *)
(* cannot make sense of reports of several requests.  An invocation that   *)
(* finds no device sends nothing and is left out (see Isv).                *)
(***************************************************************************)
EXTENDS P18Protocol, Sequences, SequencesExt, FiniteSets

CONSTANTS
  Nobody,           \* whom an answer to a garbled request is for
  Invocations,      \* bound: the invocations of the program
  SetChoices,       \* which of them may be those with a set command
  MaxOpen,          \* bound: invocations that have the device open at once
  RequestReports,   \* bound: reports a request takes
  ReplyReports      \* bound: reports a reply with data takes

ASSUME SessionsAssumption ==
  /\ Nobody \notin Invocations
  /\ SetChoices \subseteq SUBSET Invocations
  /\ MaxOpen \in Nat \ {0}
  /\ RequestReports \in Nat \ {0}
  /\ ReplyReports \in Nat \ {0}

VARIABLES
  sets,                  \* the invocations with a set command
  handle,                \* of each: "unopened", "open" or "closed"
  phase, owed, reply,    \* of each: its call of voltronic_dev_execute (DevCall)
  queue,                 \* of each: reports that arrived for its handle, unread
  taken,                 \* of each: the reports of its reply that it has read
  code,                  \* of each: exit code
  inbox,                 \* reports the inverter has not looked at
  outbox,                \* reports the inverter has yet to send
  done,                  \* ghost: invocations whose request was carried out
  mixed,                 \* ghost: invocations with a report in a garbled request
  unsettled,             \* ghost: invocations that left without their answer
  suspect                \* ghost: invocations that met another's traffic

calls    == <<phase, owed, reply>>
inverter == <<inbox, outbox, done, mixed>>
ghosts   == <<unsettled, suspect>>
vars     == <<sets, handle, calls, queue, taken, code, inverter, ghosts>>

NotYet == -1

Init ==
  /\ sets \in SetChoices
  /\ handle = [p \in Invocations |-> "unopened"]
  /\ phase = [p \in Invocations |-> "sending"]
  /\ owed = [p \in Invocations |-> RequestReports]
  /\ reply = [p \in Invocations |-> 0]
  /\ queue = [p \in Invocations |-> <<>>] /\ taken = [p \in Invocations |-> <<>>]
  /\ code = [p \in Invocations |-> NotYet]
  /\ inbox = <<>> /\ outbox = <<>> /\ done = {} /\ mixed = {}
  /\ unsettled = {} /\ suspect = {}

-----------------------------------------------------------------------------
(* An invocation. *)

Opened == {p \in Invocations : handle[p] = "open"}

\* voltronic_usb_create: nobody is kept out.
Open(p) ==
  /\ handle[p] = "unopened" /\ Cardinality(Opened) < MaxOpen
  /\ handle' = [handle EXCEPT ![p] = "open"]
  /\ suspect' = suspect \cup (IF Opened # {} THEN Opened \cup {p} ELSE {})
                        \cup (IF unsettled # {} THEN {p} ELSE {})
  /\ UNCHANGED <<sets, calls, queue, taken, code, inverter, unsettled>>

\* Mutants: the first report is taken for sent; and parts are counted from 0.
NextPartOfZero(p) == RequestReports - owed[p]
FirstPartSkipped(p) == IF owed[p] = RequestReports THEN 2 ELSE RequestReports - owed[p] + 1

\* The part of its request an invocation sends next.
NextPart(p) == RequestReports - owed[p] + 1

\* voltronic_write_data_loop.
WriteReport(p) ==
  /\ handle[p] = "open" /\ phase[p] = "sending" /\ owed[p] > 0
  /\ inbox' = Append(inbox, [from |-> p, part |-> NextPart(p)])
  /\ owed' = [owed EXCEPT ![p] = @ - 1]
  /\ UNCHANGED <<sets, handle, phase, reply, queue, taken, code, outbox, done, mixed, ghosts>>

\* Mutant: a last report is forgotten.
AllWrittenEarly(p) == owed[p] <= 1

AllWritten(p) == owed[p] = 0

\* voltronic_dev_execute goes from sending to receiving.
Listen(p) ==
  /\ handle[p] = "open" /\ phase[p] = "sending" /\ AllWritten(p)
  /\ phase' = [phase EXCEPT ![p] = "awaiting"]
  /\ UNCHANGED <<sets, handle, owed, reply, queue, taken, code, inverter, ghosts>>

\* voltronic_read_data_loop takes the next report, whosever request it is about,
\* and ends at the one with '\r'.
ReadReport(p) ==
  /\ handle[p] = "open" /\ phase[p] = "awaiting" /\ queue[p] # <<>>
  /\ queue' = [queue EXCEPT ![p] = Tail(@)]
  /\ taken' = [taken EXCEPT ![p] = Append(@, Head(queue[p]))]
  /\ reply' = [reply EXCEPT ![p] = @ + 1]
  /\ phase' = [phase EXCEPT ![p] = IF Head(queue[p]).last THEN "answered" ELSE @]
  /\ UNCHANGED <<sets, handle, owed, code, inverter, ghosts>>

\* Mutants: the request is sent again at the deadline; or there is no deadline.
GiveUpRetried(p) ==
  /\ handle[p] = "open" /\ phase[p] = "awaiting"
  /\ phase' = [phase EXCEPT ![p] = "sending"]
  /\ owed' = [owed EXCEPT ![p] = RequestReports]
  /\ UNCHANGED <<sets, handle, reply, queue, taken, code, inverter, ghosts>>
GiveUpNever(p) ==
  /\ handle[p] = "open" /\ phase[p] = "sending"
  /\ phase' = [phase EXCEPT ![p] = "failed"]
  /\ UNCHANGED <<sets, handle, owed, reply, queue, taken, code, inverter, ghosts>>

\* A write or a read fails, or the time is up, or a signal, of which none is
\* handled, ends the process.  What was sent stays sent.
GiveUp(p) ==
  /\ handle[p] = "open" /\ phase[p] \in {"sending", "awaiting"}
  /\ phase' = [phase EXCEPT ![p] = "failed"]
  /\ UNCHANGED <<sets, handle, owed, reply, queue, taken, code, inverter, ghosts>>

\* How what p has read begins: a reply whose first report came before p opened
\* the device does not begin with '^'.
Begins(p) == IF taken[p][1].part = 1 THEN taken[p][1].begins ELSE "other"

\* query: is it an answer to the kind of command p has?
Accepts(p) ==
  IF p \in sets
    THEN SetResult(Begins(p), HeaderSize)
    ELSE ValidQueryResponse(Begins(p), 0, HeaderSize)

\* p was answered if the end of the reply it took was an answer to it.
Answered(p) == taken[p] # <<>> /\ Last(taken[p]).to = p /\ Last(taken[p]).last

\* The process ends and with it its handle.
Leave(p, exit_code) ==
  /\ handle' = [handle EXCEPT ![p] = "closed"]
  /\ queue' = [queue EXCEPT ![p] = <<>>]
  /\ code' = [code EXCEPT ![p] = exit_code]
  /\ unsettled' = IF owed[p] = RequestReports \/ Answered(p) THEN unsettled ELSE unsettled \cup {p}
  /\ UNCHANGED <<sets, calls, taken, inverter, suspect>>

\* query judges the reply, or exits because there is none; main closes the device.
Finish(p) ==
  /\ handle[p] = "open" /\ phase[p] \in {"answered", "failed"}
  /\ Leave(p, IF phase[p] = "answered" /\ Accepts(p) THEN 0 ELSE 2)

Run(p) == WriteReport(p) \/ Listen(p) \/ ReadReport(p) \/ GiveUp(p) \/ Finish(p)

-----------------------------------------------------------------------------
(* The inverter. *)

\* Where the first request ends, or what looks like one.
EndsRequest(k) == inbox[k].part = RequestReports
IsFirstEnd(k) == EndsRequest(k) /\ \A j \in 1 .. k - 1 : ~EndsRequest(j)
Whole(reports) ==
  Len(reports) = RequestReports
    /\ \A k \in DOMAIN reports : reports[k] = [from |-> reports[1].from, part |-> k]

\* A reply to p's request in as many reports as it takes.
ReplyTo(p, begins) ==
  LET n == IF begins = "data" THEN ReplyReports ELSE 1
  IN  [k \in 1 .. n |-> [to |-> p, begins |-> begins, part |-> k, last |-> k = n]]

\* The answers to a whole request: it is carried out, or refused, or ignored.
CarryOut(sender) ==
  /\ done' = done \cup {sender}
  /\ outbox' = outbox \o ReplyTo(sender, IF sender \in sets THEN "ack" ELSE "data")
  /\ mixed' = mixed
Refuse(sender) ==
  /\ outbox' \in {outbox, outbox \o ReplyTo(sender, "nack")}
  /\ UNCHANGED <<done, mixed>>

\* What cannot be read is refused or ignored.
Misread(reports) ==
  /\ outbox' \in {outbox, outbox \o ReplyTo(Nobody, "nack")}
  /\ mixed' = mixed \cup {reports[k].from : k \in DOMAIN reports}
  /\ done' = done

\* The first request is complete.
Understand ==
  /\ \E end \in DOMAIN inbox :
       /\ IsFirstEnd(end)
       /\ inbox' = SubSeq(inbox, end + 1, Len(inbox))
       /\ LET request == SubSeq(inbox, 1, end)
          IN  IF Whole(request)
                THEN CarryOut(request[1].from) \/ Refuse(request[1].from)
                ELSE Misread(request)
  /\ UNCHANGED <<sets, handle, calls, queue, taken, code, ghosts>>

\* A report goes to every open handle.
SendReport ==
  /\ outbox # <<>>
  /\ outbox' = Tail(outbox)
  /\ queue' = [p \in Invocations |->
                 IF p \in Opened THEN Append(queue[p], Head(outbox)) ELSE queue[p]]
  /\ UNCHANGED <<sets, handle, calls, taken, code, inbox, done, mixed, ghosts>>

\* The inverter has nothing to do.
Idle == outbox = <<>> /\ (\A k \in DOMAIN inbox : ~EndsRequest(k)) /\ UNCHANGED vars

-----------------------------------------------------------------------------

Next ==
  \/ \E p \in Invocations : Open(p) \/ Run(p)
  \/ Understand \/ SendReport \/ Idle

\* An invocation that runs goes on: writes return, and reads end at the
\* deadline.  Of the inverter nothing is demanded.
Spec == Init /\ [][Next]_vars /\ \A p \in Invocations : WF_vars(Run(p))

-----------------------------------------------------------------------------
(* Properties. *)

\* Every variable keeps its type.
TypeOK ==
  /\ sets \in SetChoices
  /\ handle \in [Invocations -> {"unopened", "open", "closed"}]
  /\ phase \in [Invocations -> {"sending", "awaiting", "answered", "failed"}]
  /\ owed \in [Invocations -> 0 .. RequestReports]
  /\ reply \in [Invocations -> Nat]
  /\ \A p \in Invocations : Len(taken[p]) = reply[p]
  /\ code \in [Invocations -> {NotYet, 0, 2}]
  /\ \A k \in DOMAIN inbox : inbox[k].part \in 1 .. RequestReports
  /\ done \subseteq Invocations /\ mixed \subseteq Invocations
  /\ unsettled \subseteq Invocations /\ suspect \subseteq Invocations

\* query, exit code 0: the reply was the one to the invocation's own request and
\* the inverter did what it says, unless another invocation had the device open
\* at the same time or an earlier one left before its answer came.
OwnReply ==
  \A p \in Invocations : code[p] = 0 /\ p \notin suspect =>
    /\ p \in done
    /\ \A k \in DOMAIN taken[p] : taken[p][k].to = p

\* p18_set_result and p18_validate_query_response: whatever else happened, exit
\* code 0 means that a request of the same kind, asking or setting, was carried
\* out.  The only set command among several invocations was then carried out.
ZeroMeansCarriedOut ==
  \A p \in Invocations : code[p] = 0 => \E q \in done : q \in sets <=> p \in sets

\* voltronic_write_data_loop: the inverter gets a request it cannot read only of
\* invocations that shared the device, or came after one that was interrupted
\* while it sent, or were interrupted themselves.
UndisturbedIsUnderstood ==
  \A p \in mixed : p \in suspect \/ (p \in unsettled /\ owed[p] > 0)

\* Every invocation's call is one of the contract, whatever the others do: this is
\* Call(p)!Spec for every p.
Call(p) == INSTANCE DevCall WITH
  phase <- phase[p], owed <- owed[p], reply <- reply[p],
  RequestLengths <- {RequestReports},
  ReplyLimit <- Cardinality(Invocations) * (ReplyReports + 1)
CallsImplementContract ==
  /\ \A p \in Invocations : Call(p)!Init
  /\ [][\A p \in Invocations : [Call(p)!Next]_(Call(p)!vars)]_calls

\* Every invocation that begins ends, even if the inverter never answers.  (None
\* begins twice.)
Ends == <>[](Opened = {})
=============================================================================
