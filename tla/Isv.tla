-------------------------------- MODULE Isv --------------------------------
(***************************************************************************)
(* One invocation of the program (main, query and execute_raw in isv.c):   *)
(* it reads the command line option by option, opens the inverter, lets    *)
(* libvoltronic execute one request and judges the reply.                  *)
(*                                                                         *)
(* The command line is chosen as it is read: any option may come next.     *)
(* What its arguments are does not matter here, only whether the code      *)
(* accepts them, and whose arguments the array a[] holds when the request  *)
(* is built.  The call of the library is the contract DevCall.             *)
(***************************************************************************)
EXTENDS P18Protocol, Sequences

CONSTANTS
  Commands,          \* the commands that may occur, a subset of AllCommands
  MaxOptions,        \* bound: options on a command line
  Lengths,           \* bound: lengths nnn a reply may declare
  RequestLengths,    \* bound: bytes of a request on the wire
  ReplyLimit         \* RESPONSE_BUF_LENGTH

ASSUME IsvAssumption ==
  /\ Commands \subseteq AllCommands
  /\ MaxOptions \in Nat
  /\ Lengths \subseteq -99 .. 999
  /\ RequestLengths \subseteq Nat \ {0}
  /\ ReplyLimit \in Nat \ {0}

VARIABLES
  pc,          \* "getopt", "open", "dispatch", "call", "close", "exit", "crashed"
  act,         \* ACTION_...
  command_no,
  pretend,
  a,           \* the array a[6]: for each slot the option that filled it, 0 if none
  dev,         \* "unopened", "open", "failed" (NULL) or "closed"
  code,        \* exit code, NotYet while the program runs
  accepted,    \* ghost: the options accepted so far
  owner,       \* ghost: the option, as a position in accepted, that set act
  begins, declared,      \* ghost: the reply as P18Protocol looks at it
  phase, owed, reply     \* the call of voltronic_dev_execute (DevCall)

NotYet == -1
NoCommand == "none"

line == <<act, command_no, pretend, a, accepted, owner>>
call == <<phase, owed, reply>>
answer == <<begins, declared>>
vars == <<pc, line, dev, code, call, answer>>

Slots == 0 .. 5

\* The call of the library.
Lib == INSTANCE DevCall

\* Two bytes of checksum and '\r', which *received counts and the data does not.
NonDataSize == 3

Init ==
  /\ pc = "getopt" /\ act = "HELP" /\ command_no = NoCommand /\ pretend = FALSE
  /\ a = [i \in Slots |-> 0]
  /\ dev = "unopened" /\ code = NotYet
  /\ accepted = <<>> /\ owner = 0
  /\ begins = "other" /\ declared = 0
  /\ phase = "idle" /\ owed = 0 /\ reply = 0

\* exit(c), or exit_with_error(c, ...).
Exit(c) == pc' = "exit" /\ code' = c

-----------------------------------------------------------------------------
(* The command line. *)

\* Mutant: the two words of a time bucket are not split.
SlotsFilledUnsplit(command) == WordsTaken(command)

\* Slots of a[] that are the option's own once main has looked at its
\* arguments: the two words hh:mm of a time bucket are split into four.
SlotsFilled(command) ==
  IF command \in {"SET_AC_CHARGE_TIME_BUCKET", "SET_AC_SUPPLY_LOAD_TIME_BUCKET"}
    THEN 4
    ELSE WordsTaken(command)

\* The next option is opt and main accepts it.
Accept(opt) ==
  /\ pc = "getopt" /\ Len(accepted) < MaxOptions
  /\ accepted' = Append(accepted, opt)
  /\ UNCHANGED <<pc, dev, code, call, answer>>

\* Mutant: counted from one too far.
ThisNext == Len(accepted) + 2

\* Position of the option that Accept accepts.
This == Len(accepted) + 1

\* -h and -d.
ChooseAction(new_act) ==
  /\ Accept(new_act)
  /\ act' = new_act /\ owner' = This
  /\ UNCHANGED <<command_no, pretend, a>>

\* -v, -t and -f change nothing that is looked at here.
OtherOption ==
  /\ Accept("OTHER")
  /\ UNCHANGED <<act, command_no, pretend, a, owner>>

\* -p, and --pretend, which is declared with required_argument: getopt_long
\* takes the next word of the command line for it, whatever that is, and main
\* ignores it.
Pretend ==
  /\ Accept("PRETEND")
  /\ pretend' = TRUE
  /\ UNCHANGED <<act, command_no, a, owner>>

\* -r
RawOption ==
  /\ Accept("EXECUTE")
  /\ a' = [a EXCEPT ![0] = This]
  /\ act' = "EXECUTE" /\ owner' = This
  /\ UNCHANGED <<command_no, pretend>>

\* --get-... and --set-..., with arguments that pass the checks.
QueryOption ==
  \E command \in Commands :
    /\ act # "QUERY"
    /\ Accept(command)
    /\ act' = "QUERY" /\ command_no' = command /\ owner' = This
    /\ a' = [i \in Slots |-> IF i < SlotsFilled(command) THEN This ELSE a[i]]
    /\ UNCHANGED pretend

\* An unknown option, a missing or bad argument, a second query, or a word
\* that belongs to no option: nothing of it is undone, the program exits.
BadCommandLine ==
  /\ pc = "getopt"
  /\ Exit(1)
  /\ UNCHANGED <<line, dev, call, answer>>

\* The command line is read and good; without an action it prints the usage.
EndOfOptions ==
  /\ pc = "getopt"
  /\ IF act = "HELP" THEN Exit(1) ELSE pc' = "open" /\ UNCHANGED code
  /\ UNCHANGED <<line, dev, call, answer>>

-----------------------------------------------------------------------------
(* The device and the request. *)

\* Mutant: a missing device is not noticed.
OpenUnchecked ==
  /\ pc = "open"
  /\ dev' \in {"open", "failed"}
  /\ pc' = "dispatch"
  /\ UNCHANGED <<line, code, call, answer>>

\* voltronic_usb_create returns the device or NULL; --pretend does without.
Open ==
  /\ pc = "open"
  /\ dev' \in {"open", "failed"}
  /\ IF dev' = "failed" /\ ~pretend
       THEN Exit(1)
       ELSE pc' = "dispatch" /\ UNCHANGED code
  /\ UNCHANGED <<line, call, answer>>

\* query with --pretend only says what it would have sent.
PretendQuery ==
  /\ pc = "dispatch" /\ act = "QUERY" /\ pretend
  /\ pc' = "close"
  /\ UNCHANGED <<line, dev, code, call, answer>>

\* Mutant: --pretend does not keep query from calling the library.
BeginCallAlways ==
  /\ pc = "dispatch" /\ act \in {"EXECUTE", "QUERY"} /\ dev = "open"
  /\ pc' = "call"
  /\ phase' = "sending" /\ owed' \in RequestLengths /\ reply' = 0
  /\ UNCHANGED <<line, dev, code, answer>>

\* execute_raw, and query without --pretend, call voltronic_dev_execute.
\* With a NULL device hidapi is called with a NULL pointer.
BeginCall ==
  /\ pc = "dispatch"
  /\ act = "EXECUTE" \/ (act = "QUERY" /\ ~pretend)
  /\ IF dev = "open"
       THEN /\ pc' = "call"
            /\ phase' = "sending" /\ owed' \in RequestLengths /\ reply' = 0
       ELSE pc' = "crashed" /\ UNCHANGED call
  /\ UNCHANGED <<line, dev, code, answer>>

\* ACTION_DUMP is not implemented.
UnexpectedAct ==
  /\ pc = "dispatch" /\ act = "DUMP"
  /\ Exit(1)
  /\ UNCHANGED <<line, dev, call, answer>>

\* A step of the library.
CallStep ==
  /\ pc = "call"
  /\ Lib!Next
  /\ UNCHANGED <<pc, line, dev, code, answer>>

\* Mutants: a failed call is tried again for ever; or it exits with 1.
CallFailedRetried ==
  /\ pc = "call" /\ phase = "failed"
  /\ pc' = "dispatch"
  /\ UNCHANGED <<line, dev, code, call, answer>>

CallFailedOne ==
  /\ pc = "call" /\ phase = "failed"
  /\ Exit(1)
  /\ UNCHANGED <<line, dev, call, answer>>

\* voltronic_dev_execute returns 0.
CallFailed ==
  /\ pc = "call"
  /\ phase = "failed" \/ (phase = "answered" /\ reply <= NonDataSize)
  /\ Exit(2)
  /\ UNCHANGED <<line, dev, call, answer>>

\* execute_raw prints whatever came.
RawAnswered ==
  /\ pc = "call" /\ phase = "answered" /\ reply > NonDataSize
  /\ act = "EXECUTE"
  /\ pc' = "close"
  /\ UNCHANGED <<line, dev, code, call, answer>>

\* query looks at the reply: a set command wants an acknowledgement, any other
\* command a reply with data, which it unpacks and prints.
QueryAnswered ==
  /\ pc = "call" /\ phase = "answered" /\ reply > NonDataSize
  /\ act = "QUERY"
  /\ begins' \in Beginnings
  /\ begins' # "other" => reply - NonDataSize >= 2
  /\ declared' \in DeclaredLengths(reply - NonDataSize, Lengths)
  /\ IF command_no \in SetCommands
       THEN SetResult(begins', reply)
       ELSE ValidQueryResponse(begins', declared', reply)
  /\ pc' = "close"
  /\ UNCHANGED <<line, dev, code, call>>

\* The same reply, not accepted.
QueryRefused ==
  /\ pc = "call" /\ phase = "answered" /\ reply > NonDataSize
  /\ act = "QUERY"
  /\ begins' \in Beginnings
  /\ begins' # "other" => reply - NonDataSize >= 2
  /\ declared' \in DeclaredLengths(reply - NonDataSize, Lengths)
  /\ ~ IF command_no \in SetCommands
         THEN SetResult(begins', reply)
         ELSE ValidQueryResponse(begins', declared', reply)
  /\ Exit(2)
  /\ UNCHANGED <<line, dev, call>>

\* Back in main: the device is closed and the program ends.
Close ==
  /\ pc = "close"
  /\ dev' = IF dev = "open" THEN "closed" ELSE dev
  /\ Exit(0)
  /\ UNCHANGED <<line, call, answer>>

Step ==
  \/ ChooseAction("HELP") \/ ChooseAction("DUMP") \/ OtherOption
  \/ Pretend \/ RawOption \/ QueryOption
  \/ BadCommandLine \/ EndOfOptions
  \/ Open \/ PretendQuery \/ BeginCall \/ UnexpectedAct
  \/ CallStep \/ CallFailed \/ RawAnswered \/ QueryAnswered \/ QueryRefused
  \/ Close

Ended == pc \in {"exit", "crashed"} /\ UNCHANGED vars

Next == Step \/ Ended

\* The program runs; the command line ends and the library's call returns.
Spec == Init /\ [][Next]_vars /\ WF_vars(Step)

-----------------------------------------------------------------------------
(* Properties. *)

\* Every variable keeps its type.
TypeOK ==
  /\ pc \in {"getopt", "open", "dispatch", "call", "close", "exit", "crashed"}
  /\ act \in {"HELP", "DUMP", "EXECUTE", "QUERY"}
  /\ command_no \in Commands \cup {NoCommand}
  /\ pretend \in BOOLEAN
  /\ accepted \in Seq(Commands \cup {"HELP", "DUMP", "EXECUTE", "PRETEND", "OTHER"})
  /\ owner \in 0 .. Len(accepted)
  /\ a \in [Slots -> 0 .. Len(accepted)]
  /\ dev \in {"unopened", "open", "failed", "closed"}
  /\ code \in {NotYet, 0, 1, 2}
  /\ begins \in Beginnings /\ declared \in -99 .. 999
  /\ phase \in {"idle", "sending", "awaiting", "answered", "failed"}
  /\ owed \in Nat /\ reply \in 0 .. ReplyLimit

\* main and p18_append_arguments: the array a[] is shared by all options and
\* never cleared, yet a request is built from the arguments of the command it
\* is for, whatever options came before and after it.
OwnArguments ==
  pc = "dispatch" =>
    /\ act = "QUERY" =>
         /\ accepted[owner] = command_no
         /\ \A i \in Slots : i < ArgumentsRead(command_no) => a[i] = owner
    /\ act = "EXECUTE" => accepted[owner] = "EXECUTE" /\ a[0] = owner

\* README.md, --pretend: "do not actually execute anything on inverter"; -r is
\* the exception it names.
PretendSendsNothing == pretend /\ act = "QUERY" => phase = "idle"

\* README.md, return code 1 "on some input error": the whole command line is
\* checked before anything reaches the inverter.
InputErrorsSendNothing == code = 1 => phase = "idle"

\* README.md, return code 0 "on success": the inverter has the whole request
\* and gave the kind of reply the command asks for, or --pretend was given.
ZeroMeansDone ==
  code = 0 /\ ~(pretend /\ act = "QUERY") =>
    /\ phase = "answered" /\ owed = 0 /\ dev = "closed"
    /\ act = "QUERY" =>
         begins = (IF command_no \in SetCommands THEN "ack" ELSE "data")

\* libvoltronic is never called without a device, but for the combination of
\* --pretend and -r, of which README.md says that it does not work.
NoCallWithoutDevice == pc = "crashed" => pretend /\ act = "EXECUTE"

\* The program always ends.
Ends == <>(pc \in {"exit", "crashed"})

-----------------------------------------------------------------------------
(* What the documentation says and the code does not do. *)

\* README.md, return code 2: "response is invalid".  A reply that is accepted
\* has a header and all the bytes the header says it has.
AcceptedReplyIsComplete ==
  code = 0 /\ begins = "data" =>
    /\ reply - NonDataSize >= HeaderSize
    /\ reply >= HeaderSize + declared
=============================================================================
