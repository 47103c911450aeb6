------------------------------ MODULE IsvProofs ------------------------------
(***************************************************************************)
(* Theorems about Isv for every value of its constants: any set of         *)
(* commands, command lines of any number of options, replies of any length *)
(* and everything the library's call may do.                               *)
(***************************************************************************)
EXTENDS Isv, TLAPS

\* No command is built from more arguments than main has filled in for it:
\* the two tables of argument counts, in main and in p18_append_arguments.
LEMMA EnoughSlots ==
  ASSUME NEW command \in AllCommands
  PROVE  ArgumentsRead(command) \in Nat /\ ArgumentsRead(command) <= SlotsFilled(command)
  BY DEF ArgumentsRead, SlotsFilled, WordsTaken

\* What atoi may read out of three digits.
LEMMA DeclaredLengthsType ==
  ASSUME NEW n \in Int, NEW number \in DeclaredLengths(n, Lengths)
  PROVE  number \in -99 .. 999
  BY IsvAssumption DEF DeclaredLengths

-----------------------------------------------------------------------------
(* The inductive invariant.  None of the safety properties is inductive:    *)
(* they look at the program where it ends, or where it builds the request,  *)
(* and what they say then was decided options or states earlier.            *)

\* Which option the array and the action are from, at any time and not only
\* when the request is built.
ArgumentsInv ==
  /\ act = "QUERY" =>
       /\ owner \in DOMAIN accepted /\ accepted[owner] = command_no /\ command_no \in Commands
       /\ \A i \in Slots : i < ArgumentsRead(command_no) => a[i] = owner
  /\ act = "EXECUTE" =>
       owner \in DOMAIN accepted /\ accepted[owner] = "EXECUTE" /\ a[0] = owner

\* Where the program is, the device and the call.
ControlInv ==
  /\ pc \in {"getopt", "open", "dispatch", "crashed"} => phase = "idle"
  /\ pc \in {"dispatch", "call"} => dev \in {"open", "failed"}
  /\ pc = "call" => dev = "open"
  /\ pc \in {"dispatch", "call", "close"} /\ dev = "failed" => pretend
  /\ phase \in {"awaiting", "answered"} => owed = 0
  /\ pc # "exit" => code = NotYet

\* What a good end looks like before the device is closed.
Answered ==
  /\ phase = "answered" /\ owed = 0
  /\ act = "QUERY" => begins = (IF command_no \in SetCommands THEN "ack" ELSE "data")

EndInv == pc = "close" /\ ~(pretend /\ act = "QUERY") => Answered /\ dev = "open"

IInv ==
  /\ TypeOK /\ ArgumentsInv /\ ControlInv /\ EndInv
  /\ PretendSendsNothing /\ InputErrorsSendNothing /\ ZeroMeansDone /\ NoCallWithoutDevice

USE DEF Exit, NotYet, line, call, answer

LEMMA InitInv == Init => IInv
<1> SUFFICES ASSUME Init PROVE IInv
  OBVIOUS
<1>1. TypeOK
  <2>1. accepted = <<>> /\ accepted \in Seq(Commands \cup {"HELP", "DUMP", "EXECUTE", "PRETEND", "OTHER"})
    BY DEF Init
  <2>2. Len(accepted) = 0 /\ owner \in 0 .. Len(accepted) /\ a \in [Slots -> 0 .. Len(accepted)]
    BY <2>1 DEF Init
  <2>3. reply \in 0 .. ReplyLimit
    BY IsvAssumption DEF Init
  <2>4. pc = "getopt" /\ act = "HELP" /\ dev = "unopened" /\ phase = "idle"
    BY DEF Init
  <2>5. command_no \in Commands \cup {NoCommand} /\ pretend \in BOOLEAN /\ begins \in Beginnings
    BY DEF Init, Beginnings
  <2>6. code = NotYet /\ declared \in -99 .. 999 /\ owed \in Nat
    BY DEF Init
  <2> QED BY <2>1, <2>2, <2>3, <2>4, <2>5, <2>6 DEF TypeOK
<1>2. ArgumentsInv /\ ControlInv /\ EndInv
  BY DEF Init, ArgumentsInv, ControlInv, EndInv
<1>3. PretendSendsNothing /\ InputErrorsSendNothing /\ ZeroMeansDone /\ NoCallWithoutDevice
  BY DEF Init, PretendSendsNothing, InputErrorsSendNothing, ZeroMeansDone, NoCallWithoutDevice
<1> QED BY <1>1, <1>2, <1>3 DEF IInv

-----------------------------------------------------------------------------
(* The types.                                                              *)

Options == Commands \cup {"HELP", "DUMP", "EXECUTE", "PRETEND", "OTHER"}

\* One more option: the numbers of the others stay in range.
LEMMA AcceptType ==
  ASSUME TypeOK, NEW opt \in Options, Accept(opt)
  PROVE  /\ accepted' \in Seq(Options) /\ Len(accepted') = Len(accepted) + 1
         /\ This \in 1 .. Len(accepted') /\ accepted'[This] = opt
         /\ \A i \in DOMAIN accepted : i \in DOMAIN accepted' /\ accepted'[i] = accepted[i]
         /\ owner \in 0 .. Len(accepted')
         /\ a \in [Slots -> 0 .. Len(accepted')]
  BY DEF TypeOK, Accept, This, Options

\* A step of the library keeps the types of the call.
LEMMA CallType ==
  ASSUME TypeOK, Lib!Next
  PROVE  /\ phase' \in {"awaiting", "answered", "failed", "sending"}
         /\ owed' \in Nat /\ reply' \in 0 .. ReplyLimit
  BY IsvAssumption DEF TypeOK, Lib!Next, Lib!Send, Lib!Listen, Lib!Receive, Lib!Answer, Lib!Fail

LEMMA NextType == TypeOK /\ [Next]_vars => TypeOK'
<1> SUFFICES ASSUME TypeOK, [Next]_vars PROVE TypeOK'
  OBVIOUS
<1> USE IsvAssumption
<1>1. CASE ChooseAction("HELP") \/ ChooseAction("DUMP")
  <2> PICK new_act \in {"HELP", "DUMP"} : ChooseAction(new_act)
    BY <1>1
  <2>1. new_act \in Options /\ Accept(new_act)
    BY DEF ChooseAction, Options
  <2> QED BY <2>1, AcceptType DEF ChooseAction, Accept, TypeOK, Options
<1>2. CASE OtherOption
  <2>1. "OTHER" \in Options /\ Accept("OTHER")
    BY <1>2 DEF OtherOption, Options
  <2> QED BY <1>2, <2>1, AcceptType DEF OtherOption, Accept, TypeOK, Options
<1>3. CASE Pretend
  <2>1. "PRETEND" \in Options /\ Accept("PRETEND")
    BY <1>3 DEF Pretend, Options
  <2> QED BY <1>3, <2>1, AcceptType DEF Pretend, Accept, TypeOK, Options
<1>4. CASE RawOption
  <2>1. "EXECUTE" \in Options /\ Accept("EXECUTE")
    BY <1>4 DEF RawOption, Options
  <2> QED BY <1>4, <2>1, AcceptType, SMTT(40) DEF RawOption, Accept, TypeOK, Options, Slots
<1>5. CASE QueryOption
  <2> PICK command \in Commands :
        /\ Accept(command)
        /\ act' = "QUERY" /\ command_no' = command /\ owner' = This
        /\ a' = [i \in Slots |-> IF i < SlotsFilled(command) THEN This ELSE a[i]]
        /\ UNCHANGED pretend
    BY <1>5 DEF QueryOption
  <2>1. command \in Options
    BY DEF Options
  <2> QED BY <2>1, AcceptType DEF Accept, TypeOK, Options
<1>6. CASE BadCommandLine \/ EndOfOptions \/ Open \/ PretendQuery \/ UnexpectedAct
             \/ CallFailed \/ RawAnswered \/ Close
  <2>1. /\ UNCHANGED <<line, call, answer>>
        /\ pc' \in {"exit", "open", "dispatch", "close"} /\ code' \in {code, 0, 1, 2}
        /\ dev' \in {"open", "failed", "closed", dev}
    BY <1>6 DEF BadCommandLine, EndOfOptions, Open, PretendQuery, UnexpectedAct, CallFailed,
      RawAnswered, Close
  <2> QED BY <2>1 DEF TypeOK
<1>7. CASE BeginCall
  <2>1. /\ UNCHANGED <<line, dev, code, answer>> /\ pc' \in {"call", "crashed"}
        /\ phase' \in {phase, "sending"} /\ owed' \in RequestLengths \cup {owed} /\ reply' \in {reply, 0}
    BY <1>7 DEF BeginCall
  <2>2. owed' \in Nat /\ reply' \in 0 .. ReplyLimit
    BY <2>1 DEF TypeOK
  <2> QED BY <2>1, <2>2 DEF TypeOK
<1>8. CASE CallStep
  BY <1>8, CallType DEF CallStep, TypeOK
<1>9. CASE QueryAnswered \/ QueryRefused
  <2>1. /\ UNCHANGED <<line, dev, call>> /\ pc' \in {"close", "exit"} /\ code' \in {code, 2}
        /\ begins' \in Beginnings
    BY <1>9 DEF QueryAnswered, QueryRefused
  <2>2. declared' \in DeclaredLengths(reply - NonDataSize, Lengths) /\ reply - NonDataSize \in Int
    BY <1>9 DEF QueryAnswered, QueryRefused, TypeOK, NonDataSize
  <2>3. declared' \in -99 .. 999
    BY <2>2, DeclaredLengthsType
  <2> QED BY <2>1, <2>3 DEF TypeOK
<1>10. CASE UNCHANGED vars
  BY <1>10 DEF vars, TypeOK
<1> QED BY <1>1, <1>2, <1>3, <1>4, <1>5, <1>6, <1>7, <1>8, <1>9, <1>10
      DEF Next, Step, Ended

-----------------------------------------------------------------------------
(* The other parts of the invariant. *)

LEMMA NextArguments == TypeOK /\ ArgumentsInv /\ [Next]_vars => ArgumentsInv'
<1> SUFFICES ASSUME TypeOK, ArgumentsInv, [Next]_vars PROVE ArgumentsInv'
  OBVIOUS
<1>1. CASE ChooseAction("HELP") \/ ChooseAction("DUMP")
  BY <1>1 DEF ChooseAction, ArgumentsInv
<1>2. CASE OtherOption
  <2>1. "OTHER" \in Options /\ Accept("OTHER")
    BY <1>2 DEF OtherOption, Options
  <2> QED BY <1>2, <2>1, AcceptType DEF OtherOption, ArgumentsInv
<1>3. CASE Pretend
  <2>1. "PRETEND" \in Options /\ Accept("PRETEND")
    BY <1>3 DEF Pretend, Options
  <2> QED BY <1>3, <2>1, AcceptType DEF Pretend, ArgumentsInv
<1>4. CASE RawOption
  <2>1. "EXECUTE" \in Options /\ Accept("EXECUTE")
    BY <1>4 DEF RawOption, Options
  <2>2. This \in DOMAIN accepted' /\ accepted'[This] = "EXECUTE"
    BY <2>1, AcceptType
  <2>3. a'[0] = This
    BY <1>4 DEF RawOption, TypeOK, Slots
  <2> QED BY <1>4, <2>2, <2>3 DEF RawOption, ArgumentsInv
<1>5. CASE QueryOption
  <2> PICK command \in Commands :
        /\ Accept(command)
        /\ act' = "QUERY" /\ command_no' = command /\ owner' = This
        /\ a' = [i \in Slots |-> IF i < SlotsFilled(command) THEN This ELSE a[i]]
    BY <1>5 DEF QueryOption
  <2>1. This \in DOMAIN accepted' /\ accepted'[This] = command
    BY AcceptType DEF Options
  <2>2. command \in AllCommands
    BY IsvAssumption
  <2>3. ASSUME NEW i \in Slots, i < ArgumentsRead(command) PROVE a'[i] = This
    <3>1. SlotsFilled(command) \in Int
      BY DEF SlotsFilled, WordsTaken
    <3> QED BY <2>2, <2>3, <3>1, EnoughSlots DEF Slots
  <2> QED BY <2>1, <2>3 DEF ArgumentsInv
<1>6. CASE UNCHANGED line
  BY <1>6 DEF ArgumentsInv
<1> QED BY <1>1, <1>2, <1>3, <1>4, <1>5, <1>6
      DEF Next, Step, Ended, vars, BadCommandLine, EndOfOptions, Open, PretendQuery, BeginCall,
          UnexpectedAct, CallStep, CallFailed, RawAnswered, QueryAnswered, QueryRefused, Close

\* The phases of the call: nothing is owed once the library listens.
LEMMA CallPhases ==
  ASSUME Lib!Next, phase \in {"awaiting", "answered"} => owed = 0
  PROVE  phase' \in {"awaiting", "answered"} => owed' = 0
  BY DEF Lib!Next, Lib!Send, Lib!Listen, Lib!Receive, Lib!Answer, Lib!Fail

\* What the rest of the invariant says.
Rest ==
  /\ ControlInv /\ EndInv
  /\ PretendSendsNothing /\ InputErrorsSendNothing /\ ZeroMeansDone /\ NoCallWithoutDevice

LEMMA NextRest == TypeOK /\ Rest /\ [Next]_vars => Rest'
<1> SUFFICES ASSUME TypeOK, Rest, [Next]_vars PROVE Rest'
  OBVIOUS
<1> USE DEF Rest, ControlInv, EndInv, PretendSendsNothing, InputErrorsSendNothing,
            ZeroMeansDone, NoCallWithoutDevice
<1>1. CASE pc = "getopt" /\ pc' = "getopt" /\ UNCHANGED <<dev, code, call, answer>>
  BY <1>1
<1>2. CASE BadCommandLine \/ EndOfOptions \/ Open
  BY <1>2 DEF BadCommandLine, EndOfOptions, Open
<1>3. CASE PretendQuery \/ BeginCall \/ UnexpectedAct
  BY <1>3 DEF PretendQuery, BeginCall, UnexpectedAct, TypeOK
<1>4. CASE CallStep
  <2>1. phase' \in {"awaiting", "answered"} => owed' = 0
    BY <1>4, CallPhases DEF CallStep
  <2>2. phase # "idle"
    BY <1>4 DEF CallStep, Lib!Next, Lib!Send, Lib!Listen, Lib!Receive, Lib!Answer, Lib!Fail
  <2> QED BY <1>4, <2>1, <2>2 DEF CallStep
<1>5. CASE CallFailed \/ RawAnswered \/ QueryRefused
  BY <1>5 DEF CallFailed, RawAnswered, QueryRefused, Answered
<1>6. CASE QueryAnswered
  <2>1. begins' = (IF command_no \in SetCommands THEN "ack" ELSE "data")
    BY <1>6 DEF QueryAnswered, SetResult, ValidQueryResponse
  <2> QED BY <1>6, <2>1 DEF QueryAnswered, Answered
<1>7. CASE Close
  BY <1>7 DEF Close, Answered
<1>8. CASE UNCHANGED vars
  BY <1>8 DEF vars, Answered
<1>9. ASSUME NEW opt, Accept(opt)
      PROVE  pc = "getopt" /\ pc' = "getopt" /\ UNCHANGED <<dev, code, call, answer>>
  BY <1>9 DEF Accept
<1> QED BY <1>1, <1>2, <1>3, <1>4, <1>5, <1>6, <1>7, <1>8, <1>9
      DEF Next, Step, Ended, ChooseAction, OtherOption, Pretend, RawOption, QueryOption

LEMMA Invariance == Spec => []IInv
<1>1. IInv /\ [Next]_vars => IInv'
  BY NextType, NextArguments, NextRest DEF IInv, Rest
<1> QED BY InitInv, <1>1, PTL DEF Spec

-----------------------------------------------------------------------------
(* The theorems. *)

\* Every variable keeps its type.
THEOREM IsvTypeCorrect == Spec => []TypeOK
  BY Invariance, PTL DEF IInv

\* A request is built from the words of its own option, however many options
\* stand before and behind it on the command line: a[] is shared and never
\* cleared.
THEOREM ArgumentsAreOwn == Spec => []OwnArguments
<1>1. IInv => OwnArguments
  BY DEF IInv, ArgumentsInv, OwnArguments
<1> QED BY Invariance, <1>1, PTL

\* With --pretend a query or a set command sends nothing.
THEOREM PretendIsSilent == Spec => []PretendSendsNothing
  BY Invariance, PTL DEF IInv

\* Exit code 1 comes only before anything is sent.
THEOREM InputErrorsAreSilent == Spec => []InputErrorsSendNothing
  BY Invariance, PTL DEF IInv

\* Exit code 0 means that the request went out whole and the reply is of the
\* kind the command asks for.
THEOREM ZeroIsDone == Spec => []ZeroMeansDone
  BY Invariance, PTL DEF IInv

\* Without a device the library is called for --pretend with -r only.
THEOREM CallsHaveDevice == Spec => []NoCallWithoutDevice
  BY Invariance, PTL DEF IInv
=============================================================================
