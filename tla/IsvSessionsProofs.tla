-------------------------- MODULE IsvSessionsProofs --------------------------
(***************************************************************************)
(* Theorems about IsvSessions for every value of its constants: any number *)
(* of invocations, at once or one after the other, with any commands, and  *)
(* requests and replies of any length.                                     *)
(***************************************************************************)
EXTENDS IsvSessions, TLAPS, SequenceTheorems, FiniteSetTheorems

USE SessionsAssumption DEF calls, inverter, ghosts

\* The reports of a request, and those of a reply that the inverter may have
\* sent: an acknowledgement or data only for what it has carried out.
Requests == [from : Invocations, part : 1 .. RequestReports]
Replies ==
  {report \in [to : Invocations \cup {Nobody}, begins : Beginnings, part : Nat, last : BOOLEAN] :
     /\ report.begins = "ack" => report.to \in done /\ report.to \in sets
     /\ report.begins = "data" => report.to \in done /\ report.to \notin sets}

(* The inductive invariant: every reply on its way is true, wherever it is, *)
(* and whoever has an answer has read something.                            *)
Truthful ==
  /\ inbox \in Seq(Requests)
  /\ outbox \in Seq(Replies)
  /\ queue \in [Invocations -> Seq(Replies)]
  /\ taken \in [Invocations -> Seq(Replies)]
  /\ \A p \in Invocations : phase[p] = "answered" => taken[p] # <<>>

IInv == TypeOK /\ Truthful /\ ZeroMeansCarriedOut

\* What a sequence of reports of requests holds.
LEMMA RequestParts ==
  ASSUME NEW s \in Seq(Requests)
  PROVE  /\ DOMAIN s = 1 .. Len(s) /\ Len(s) \in Nat
         /\ \A k \in DOMAIN s : s[k].from \in Invocations /\ s[k].part \in 1 .. RequestReports
<1>1. DOMAIN s = 1 .. Len(s) /\ Len(s) \in Nat
  OBVIOUS
<1>2. ASSUME NEW k \in DOMAIN s PROVE s[k] \in Requests
  BY <1>1
<1>3. ASSUME NEW k \in DOMAIN s
      PROVE  s[k].from \in Invocations /\ s[k].part \in 1 .. RequestReports
  BY <1>2 DEF Requests
<1> QED BY <1>1, <1>3

LEMMA InitInv == Init => IInv
<1> SUFFICES ASSUME Init PROVE IInv
  OBVIOUS
<1>1. \A p \in Invocations : taken[p] = <<>> /\ Len(taken[p]) = 0
  BY DEF Init
<1>2. TypeOK
  <2>1. /\ phase \in [Invocations -> {"sending", "awaiting", "answered", "failed"}]
        /\ owed \in [Invocations -> 0 .. RequestReports] /\ reply \in [Invocations -> Nat]
        /\ code \in [Invocations -> {NotYet, 0, 2}]
    BY DEF Init
  <2>2. DOMAIN inbox = {}
    BY DEF Init
  <2> QED BY <1>1, <2>1, <2>2 DEF Init, TypeOK
<1>3. Truthful
  BY DEF Init, Truthful
<1>4. ZeroMeansCarriedOut
  BY DEF Init, ZeroMeansCarriedOut, NotYet
<1> QED BY <1>2, <1>3, <1>4 DEF IInv

-----------------------------------------------------------------------------
(* The steps of an invocation. *)

\* What stays as long as the inverter does nothing.
LEMMA SameReplies ==
  ASSUME done' = done, sets' = sets
  PROVE  Replies' = Replies
  BY DEF Replies

LEMMA OpenInv ==
  ASSUME IInv, NEW p \in Invocations, Open(p)
  PROVE  IInv'
<1>1. Replies' = Replies
  BY SameReplies DEF Open
<1>2. handle' \in [Invocations -> {"unopened", "open", "closed"}]
  BY DEF Open, IInv, TypeOK
<1>3. suspect' \subseteq Invocations
  BY DEF Open, Opened, IInv, TypeOK
<1>4. TypeOK'
  BY <1>2, <1>3 DEF Open, IInv, TypeOK
<1>5. Truthful' /\ ZeroMeansCarriedOut'
  BY <1>1 DEF Open, IInv, Truthful, ZeroMeansCarriedOut, Requests
<1> QED BY <1>4, <1>5 DEF IInv

LEMMA WriteReportInv ==
  ASSUME IInv, NEW p \in Invocations, WriteReport(p)
  PROVE  IInv'
<1>1. Replies' = Replies
  BY SameReplies DEF WriteReport
<1>2. [from |-> p, part |-> NextPart(p)] \in Requests
  BY DEF WriteReport, NextPart, Requests, IInv, TypeOK
<1>3. inbox' \in Seq(Requests)
  BY <1>2, AppendProperties DEF WriteReport, IInv, Truthful
<1>4. owed' \in [Invocations -> 0 .. RequestReports]
  BY DEF WriteReport, IInv, TypeOK
<1>5. \A k \in DOMAIN inbox' : inbox'[k].part \in 1 .. RequestReports
  BY <1>3, RequestParts
<1>6. TypeOK'
  BY <1>4, <1>5 DEF WriteReport, IInv, TypeOK
<1>7. Truthful' /\ ZeroMeansCarriedOut'
  BY <1>1, <1>3 DEF WriteReport, IInv, Truthful, ZeroMeansCarriedOut, Requests
<1> QED BY <1>6, <1>7 DEF IInv

LEMMA ListenInv ==
  ASSUME IInv, NEW p \in Invocations, Listen(p) \/ GiveUp(p)
  PROVE  IInv'
<1>1. Replies' = Replies
  BY SameReplies DEF Listen, GiveUp
<1>2. /\ phase' \in [Invocations -> {"sending", "awaiting", "answered", "failed"}]
      /\ \A q \in Invocations : phase'[q] = "answered" => phase[q] = "answered"
  <2> PICK new \in {"awaiting", "failed"} : phase' = [phase EXCEPT ![p] = new]
    BY DEF Listen, GiveUp
  <2> QED BY DEF IInv, TypeOK
<1>3. UNCHANGED <<sets, handle, owed, reply, queue, taken, code, inverter, ghosts>>
  BY DEF Listen, GiveUp
<1>4. TypeOK'
  BY <1>2, <1>3 DEF IInv, TypeOK
<1>5. Truthful' /\ ZeroMeansCarriedOut'
  BY <1>1, <1>2, <1>3 DEF IInv, Truthful, ZeroMeansCarriedOut, Requests
<1> QED BY <1>4, <1>5 DEF IInv

LEMMA ReadReportInv ==
  ASSUME IInv, NEW p \in Invocations, ReadReport(p)
  PROVE  IInv'
<1>1. Replies' = Replies
  BY SameReplies DEF ReadReport
<1>2. Head(queue[p]) \in Replies /\ Tail(queue[p]) \in Seq(Replies)
  BY HeadTailProperties DEF ReadReport, IInv, Truthful
<1>3. queue' \in [Invocations -> Seq(Replies)]
  BY <1>2 DEF ReadReport, IInv, Truthful
<1>4. /\ Append(taken[p], Head(queue[p])) \in Seq(Replies)
      /\ Len(Append(taken[p], Head(queue[p]))) = Len(taken[p]) + 1
      /\ Append(taken[p], Head(queue[p])) # <<>>
  <2>1. taken[p] \in Seq(Replies)
    BY DEF IInv, Truthful
  <2> QED BY <1>2, <2>1, AppendProperties
<1>5. taken' \in [Invocations -> Seq(Replies)]
  BY <1>4 DEF ReadReport, IInv, Truthful
<1>6. /\ taken'[p] # <<>> /\ Len(taken'[p]) = Len(taken[p]) + 1
      /\ \A q \in Invocations : q # p => taken'[q] = taken[q]
  BY <1>4 DEF ReadReport, IInv, Truthful
<1>7. /\ reply' \in [Invocations -> Nat] /\ reply'[p] = reply[p] + 1
      /\ \A q \in Invocations : q # p => reply'[q] = reply[q]
  BY DEF ReadReport, IInv, TypeOK
<1>8. /\ phase' \in [Invocations -> {"sending", "awaiting", "answered", "failed"}]
      /\ \A q \in Invocations : q # p => phase'[q] = phase[q]
  BY DEF ReadReport, IInv, TypeOK
<1>9. \A q \in Invocations : Len(taken'[q]) = reply'[q]
  BY <1>6, <1>7 DEF IInv, TypeOK
<1>10. TypeOK'
  BY <1>7, <1>8, <1>9 DEF ReadReport, IInv, TypeOK
<1>11. \A q \in Invocations : phase'[q] = "answered" => taken'[q] # <<>>
  BY <1>6, <1>8 DEF IInv, Truthful
<1>12. Truthful'
  BY <1>1, <1>3, <1>5, <1>11 DEF ReadReport, IInv, Truthful, Requests
<1>13. ZeroMeansCarriedOut'
  BY DEF ReadReport, IInv, ZeroMeansCarriedOut
<1> QED BY <1>10, <1>12, <1>13 DEF IInv

\* What p accepts was sent to somebody whose request was carried out, and who
\* has a command of the same kind.
LEMMA AcceptedIsTrue ==
  ASSUME IInv, NEW p \in Invocations, phase[p] = "answered", Accepts(p)
  PROVE  \E q \in done : q \in sets <=> p \in sets
<1>1. taken[p] \in Seq(Replies) /\ taken[p] # <<>>
  BY DEF IInv, Truthful
<1>2. taken[p][1] \in Replies
  BY <1>1
<1>3. Begins(p) = IF p \in sets THEN "ack" ELSE "data"
  BY DEF Accepts, SetResult, ValidQueryResponse
<1>4. taken[p][1].begins = IF p \in sets THEN "ack" ELSE "data"
  BY <1>3 DEF Begins
<1> QED BY <1>2, <1>4 DEF Replies

LEMMA FinishInv ==
  ASSUME IInv, NEW p \in Invocations, Finish(p)
  PROVE  IInv'
<1>1. Replies' = Replies
  BY SameReplies DEF Finish, Leave
<1>2. PICK exit_code \in {0, 2} :
        /\ Leave(p, exit_code)
        /\ exit_code = 0 => phase[p] = "answered" /\ Accepts(p)
  BY DEF Finish
<1>3. /\ code' \in [Invocations -> {NotYet, 0, 2}] /\ code'[p] = exit_code
      /\ \A q \in Invocations : q # p => code'[q] = code[q]
  BY <1>2 DEF Leave, IInv, TypeOK
<1>4. handle' \in [Invocations -> {"unopened", "open", "closed"}] /\ unsettled' \subseteq Invocations
  BY <1>2 DEF Leave, IInv, TypeOK
<1>5. TypeOK'
  BY <1>2, <1>3, <1>4 DEF Leave, IInv, TypeOK
<1>6. <<>> \in Seq(Replies)
  OBVIOUS
<1>7. queue' \in [Invocations -> Seq(Replies)]
  BY <1>2, <1>6 DEF Leave, IInv, Truthful
<1>8. Truthful'
  BY <1>1, <1>2, <1>7 DEF Leave, IInv, Truthful, Requests
<1>9. ZeroMeansCarriedOut'
  <2> SUFFICES ASSUME NEW q \in Invocations, code'[q] = 0
               PROVE  \E r \in done : r \in sets <=> q \in sets
    BY <1>2 DEF ZeroMeansCarriedOut, Leave
  <2>1. CASE q = p
    BY <1>2, <1>3, <2>1, AcceptedIsTrue
  <2>2. CASE q # p
    BY <1>3, <2>2 DEF IInv, ZeroMeansCarriedOut
  <2> QED BY <2>1, <2>2
<1> QED BY <1>5, <1>8, <1>9 DEF IInv

-----------------------------------------------------------------------------
(* The steps of the inverter. *)

LEMMA SendReportInv ==
  ASSUME IInv, SendReport
  PROVE  IInv'
<1>1. Replies' = Replies
  BY SameReplies DEF SendReport
<1>2. Head(outbox) \in Replies /\ outbox' \in Seq(Replies)
  BY HeadTailProperties DEF SendReport, IInv, Truthful
<1>3. \A p \in Invocations : Append(queue[p], Head(outbox)) \in Seq(Replies)
  BY <1>2, AppendProperties DEF IInv, Truthful
<1>4. queue' \in [Invocations -> Seq(Replies)]
  BY <1>3 DEF SendReport, IInv, Truthful
<1>5. TypeOK'
  BY DEF SendReport, IInv, TypeOK
<1>6. Truthful' /\ ZeroMeansCarriedOut'
  BY <1>1, <1>2, <1>4 DEF SendReport, IInv, Truthful, ZeroMeansCarriedOut, Requests
<1> QED BY <1>5, <1>6 DEF IInv

\* A reply to a request that is carried out, or a refusal, is true.
LEMMA ReplyIsTrue ==
  ASSUME NEW to \in Invocations \cup {Nobody}, NEW begins \in {"ack", "nack", "data"},
         begins = "ack" => to \in done' /\ to \in sets',
         begins = "data" => to \in done' /\ to \notin sets'
  PROVE  ReplyTo(to, begins) \in Seq(Replies')
<1> DEFINE n == IF begins = "data" THEN ReplyReports ELSE 1
<1>1. n \in Nat
  OBVIOUS
<1>2. ASSUME NEW k \in 1 .. n
      PROVE  [to |-> to, begins |-> begins, part |-> k, last |-> k = n] \in Replies'
  BY <1>2 DEF Replies, Beginnings
<1>3. ReplyTo(to, begins) \in [1 .. n -> Replies']
  BY <1>2 DEF ReplyTo
<1> QED BY <1>1, <1>3

\* What was true stays true.
LEMMA RepliesGrow ==
  ASSUME done \subseteq done', sets' = sets
  PROVE  /\ Replies \subseteq Replies'
         /\ Seq(Replies) \subseteq Seq(Replies')
<1>1. Replies \subseteq Replies'
  BY DEF Replies
<1> QED BY <1>1

LEMMA UnderstandInv ==
  ASSUME IInv, Understand
  PROVE  IInv'
<1> PICK end \in DOMAIN inbox :
      /\ IsFirstEnd(end)
      /\ inbox' = SubSeq(inbox, end + 1, Len(inbox))
      /\ IF Whole(SubSeq(inbox, 1, end))
           THEN CarryOut(SubSeq(inbox, 1, end)[1].from) \/ Refuse(SubSeq(inbox, 1, end)[1].from)
           ELSE Misread(SubSeq(inbox, 1, end))
  BY DEF Understand
<1> DEFINE request == SubSeq(inbox, 1, end)
<1>1. end \in 1 .. Len(inbox) /\ Len(inbox) \in Nat /\ \A i \in 1 .. Len(inbox) : inbox[i] \in Requests
  BY DEF IInv, Truthful
<1>2. request \in Seq(Requests) /\ Len(request) = end
  BY <1>1, SubSeqProperties
<1>3. inbox' \in Seq(Requests)
  BY <1>1, SubSeqProperties
<1>4. DOMAIN request = 1 .. end /\ \A k \in DOMAIN request : request[k].from \in Invocations
  BY <1>2, RequestParts
<1>5. request[1].from \in Invocations
  <2>1. 1 \in DOMAIN request
    BY <1>1, <1>4
  <2> QED BY <2>1, <1>4
<1>6. /\ UNCHANGED <<sets, handle, calls, queue, taken, code, ghosts>>
      /\ done \subseteq done'
  BY DEF Understand, CarryOut, Refuse, Misread
<1>7. Replies \subseteq Replies' /\ Seq(Replies) \subseteq Seq(Replies')
  BY <1>6, RepliesGrow
<1>8. done' \subseteq Invocations
  BY <1>5, ZenonT(40) DEF CarryOut, Refuse, Misread, IInv, TypeOK
<1>9. mixed' \subseteq Invocations
  <2>1. mixed \subseteq Invocations /\ {request[k].from : k \in DOMAIN request} \subseteq Invocations
    BY <1>4 DEF IInv, TypeOK
  <2>2. mixed' \subseteq mixed \cup {request[k].from : k \in DOMAIN request}
    BY DEF CarryOut, Refuse, Misread
  <2> QED BY <2>1, <2>2
<1>10. outbox' \in Seq(Replies')
  <2>1. outbox \in Seq(Replies')
    BY <1>7 DEF IInv, Truthful
  <2>2. CASE outbox' = outbox
    BY <2>1, <2>2
  <2>3. ASSUME NEW to \in Invocations \cup {Nobody}, outbox' = outbox \o ReplyTo(to, "nack")
        PROVE  outbox' \in Seq(Replies')
    <3>1. ReplyTo(to, "nack") \in Seq(Replies')
      BY ReplyIsTrue
    <3> QED BY <2>1, <2>3, <3>1, ConcatProperties
  <2>4. ASSUME NEW sender \in Invocations, CarryOut(sender)
        PROVE  outbox' \in Seq(Replies')
    <3> DEFINE begins == IF sender \in sets THEN "ack" ELSE "data"
    <3>1. sender \in done' /\ (begins = "ack" <=> sender \in sets')
      BY <2>4, <1>6 DEF CarryOut
    <3>2. ReplyTo(sender, begins) \in Seq(Replies')
      BY <3>1, ReplyIsTrue
    <3> QED BY <2>1, <2>4, <3>2, ConcatProperties DEF CarryOut
  <2> QED BY <1>5, <2>2, <2>3, <2>4 DEF Refuse, Misread
<1>11. \A k \in DOMAIN inbox' : inbox'[k].part \in 1 .. RequestReports
  BY <1>3, RequestParts
<1>12. TypeOK'
  BY <1>6, <1>8, <1>9, <1>11 DEF IInv, TypeOK
<1>13. Truthful'
  <2>1. queue \in [Invocations -> Seq(Replies')] /\ taken \in [Invocations -> Seq(Replies')]
    BY <1>7 DEF IInv, Truthful
  <2>2. Requests' = Requests
    BY DEF Requests
  <2> QED BY <1>3, <1>6, <1>10, <2>1, <2>2 DEF IInv, Truthful
<1>14. ZeroMeansCarriedOut'
  BY <1>6 DEF IInv, ZeroMeansCarriedOut
<1> QED BY <1>12, <1>13, <1>14 DEF IInv

-----------------------------------------------------------------------------
(* The theorems. *)

LEMMA Invariance == Spec => []IInv
<1>1. IInv /\ [Next]_vars => IInv'
  <2> SUFFICES ASSUME IInv, [Next]_vars PROVE IInv'
    OBVIOUS
  <2>1. ASSUME NEW p \in Invocations, Open(p) \/ Run(p) PROVE IInv'
    BY <2>1, OpenInv, WriteReportInv, ListenInv, ReadReportInv, FinishInv DEF Run
  <2>2. CASE Understand \/ SendReport
    BY <2>2, UnderstandInv, SendReportInv
  <2>3. CASE UNCHANGED vars
    BY <2>3 DEF vars, IInv, TypeOK, Truthful, Requests, Replies, ZeroMeansCarriedOut
  <2> QED BY <2>1, <2>2, <2>3 DEF Next, Idle
<1> QED BY InitInv, <1>1, PTL DEF Spec

\* Every variable keeps its type, with any number of invocations.
THEOREM SessionsTypeCorrect == Spec => []TypeOK
  BY Invariance, PTL DEF IInv

\* Whatever the other invocations do, exit code 0 means that a command of the
\* same kind was carried out, asking or setting.
THEOREM ZeroIsCarriedOut == Spec => []ZeroMeansCarriedOut
  BY Invariance, PTL DEF IInv

-----------------------------------------------------------------------------
(* Whose reply an invocation gets, and whose requests get mixed up.  An     *)
(* invocation's reports are followed through the inbox, the outbox and the  *)
(* queues, until nothing of it is left or it counts as unsettled.           *)

\* p has a report in the inbox.
Waiting(p) == \E k \in DOMAIN inbox : inbox[k].from = p

\* An invocation has a report, read or not.
Has(s, report) ==
  \/ \E k \in DOMAIN queue[s] : queue[s][k] = report
  \/ \E k \in DOMAIN taken[s] : taken[s][k] = report

\* Every reply, true or not.
AnyReply == [to : Invocations \cup {Nobody}, begins : Beginnings, part : Nat, last : BOOLEAN]

\* There is a report of a reply to p somewhere; somebody has the last one.
Replied(p) ==
  \/ \E k \in DOMAIN outbox : outbox[k].to = p
  \/ \E s \in Invocations, report \in AnyReply : Has(s, report) /\ report.to = p
RepliedInFull(p) ==
  \E s \in Invocations, report \in AnyReply : Has(s, report) /\ report.to = p /\ report.last

(* The inductive invariant. *)

\* A handle that is not open gets nothing; one that was never open did nothing.
HandleInv ==
  \A p \in Invocations :
    /\ handle[p] # "open" => queue[p] = <<>>
    /\ handle[p] = "unopened" => owed[p] = RequestReports /\ taken[p] = <<>>
    /\ p \in unsettled => handle[p] = "closed"

\* The reports of a request come in order, and only those that were sent.
OrderInv ==
  /\ \A k \in DOMAIN inbox : inbox[k].part <= RequestReports - owed[inbox[k].from]
  /\ \A j, k \in DOMAIN inbox :
       j < k /\ inbox[j].from = inbox[k].from => inbox[j].part < inbox[k].part

\* A request is answered once, after all of it, and not if it got mixed up.
OnceInv ==
  \A p \in Invocations :
    /\ Replied(p) => owed[p] = 0 /\ ~Waiting(p) /\ p \notin mixed
    /\ p \in mixed => /\ owed[p] < RequestReports
                      /\ \A k \in DOMAIN inbox : inbox[k].from = p => inbox[k].part > 1

\* Behind the last report of a reply comes no other of it.
LastInv ==
  \A p \in Invocations :
    /\ RepliedInFull(p) => \A k \in DOMAIN outbox : outbox[k].to # p
    /\ \A j, k \in DOMAIN outbox :
         j < k /\ outbox[j].to = p /\ outbox[k].to = p => ~outbox[j].last

\* What an invocation leaves behind makes it unsettled.
LeftInv ==
  /\ \A k \in DOMAIN inbox : handle[inbox[k].from] = "open" \/ inbox[k].from \in unsettled
  /\ \A p \in mixed : handle[p] = "open" \/ p \in unsettled
  /\ \A k \in DOMAIN outbox :
       IF outbox[k].to = Nobody
         THEN mixed # {}
         ELSE handle[outbox[k].to] = "open" \/ outbox[k].to \in unsettled

\* Who is not suspect has the device, and the inverter, for itself.
AloneInv ==
  \A p \in Invocations : handle[p] = "open" /\ p \notin suspect =>
    /\ Opened = {p}
    /\ \A k \in DOMAIN inbox : inbox[k] = [from |-> p, part |-> k]
    /\ Len(inbox) = RequestReports - owed[p] \/ (inbox = <<>> /\ owed[p] = 0)
    /\ \A k \in DOMAIN outbox : outbox[k].to = p
    /\ \A k \in DOMAIN queue[p] : queue[p][k].to = p

\* What is left of it comes before anything of others.
FirstInv ==
  \A p \in Invocations : p \notin suspect /\ Waiting(p) =>
    /\ RequestReports - owed[p] <= Len(inbox)
    /\ \A k \in 1 .. RequestReports - owed[p] : inbox[k] = [from |-> p, part |-> k]

\* What it has read was for it.
ReadInv ==
  \A p \in Invocations : p \notin suspect =>
    /\ \A k \in DOMAIN taken[p] : taken[p][k].to = p
    /\ code[p] = 0 => p \in done

OwnInv ==
  /\ IInv /\ HandleInv /\ OrderInv /\ OnceInv /\ LastInv /\ LeftInv
  /\ AloneInv /\ FirstInv /\ ReadInv /\ UndisturbedIsUnderstood

-----------------------------------------------------------------------------
(* Sequences, element by element. *)

LEMMA AppendElements ==
  ASSUME NEW S, NEW s \in Seq(S), NEW e \in S
  PROVE  /\ Append(s, e) \in Seq(S) /\ Len(s) \in Nat /\ DOMAIN s = 1 .. Len(s)
         /\ Len(Append(s, e)) = Len(s) + 1 /\ DOMAIN Append(s, e) = 1 .. Len(s) + 1
         /\ \A k \in 1 .. Len(s) : Append(s, e)[k] = s[k]
         /\ Append(s, e)[Len(s) + 1] = e
  OBVIOUS

LEMMA TailElements ==
  ASSUME NEW S, NEW s \in Seq(S), s # <<>>
  PROVE  /\ Len(s) \in Nat /\ Len(s) > 0 /\ DOMAIN s = 1 .. Len(s)
         /\ Head(s) \in S /\ Head(s) = s[1]
         /\ Tail(s) \in Seq(S) /\ DOMAIN Tail(s) = 1 .. Len(s) - 1
         /\ \A k \in 1 .. Len(s) - 1 : Tail(s)[k] = s[k + 1]
<1>1. Tail(s) \in Seq(S) /\ Len(Tail(s)) = Len(s) - 1
  BY HeadTailProperties
<1>2. Tail(s) = SubSeq(s, 2, Len(s))
  BY TailIsSubSeq
<1>3. \A k \in 1 .. Len(s) - 2 + 1 : SubSeq(s, 2, Len(s))[k] = s[2 + k - 1]
  BY SubSeqProperties
<1> QED BY <1>1, <1>2, <1>3

LEMMA RestElements ==
  ASSUME NEW S, NEW s \in Seq(S), NEW n \in 1 .. Len(s)
  PROVE  /\ SubSeq(s, n + 1, Len(s)) \in Seq(S)
         /\ Len(SubSeq(s, n + 1, Len(s))) = Len(s) - n
         /\ DOMAIN SubSeq(s, n + 1, Len(s)) = 1 .. Len(s) - n
         /\ \A k \in 1 .. Len(s) - n : SubSeq(s, n + 1, Len(s))[k] = s[k + n]
<1>1. /\ SubSeq(s, n + 1, Len(s)) \in Seq(S)
      /\ Len(SubSeq(s, n + 1, Len(s))) = IF n + 1 <= Len(s) THEN Len(s) - (n + 1) + 1 ELSE 0
      /\ \A k \in 1 .. Len(s) - (n + 1) + 1 : SubSeq(s, n + 1, Len(s))[k] = s[(n + 1) + k - 1]
  BY SubSeqProperties
<1> QED BY <1>1

LEMMA BeginElements ==
  ASSUME NEW S, NEW s \in Seq(S), NEW n \in 1 .. Len(s)
  PROVE  /\ SubSeq(s, 1, n) \in Seq(S) /\ Len(SubSeq(s, 1, n)) = n
         /\ DOMAIN SubSeq(s, 1, n) = 1 .. n
         /\ \A k \in 1 .. n : SubSeq(s, 1, n)[k] = s[k]
<1>1. /\ SubSeq(s, 1, n) \in Seq(S)
      /\ Len(SubSeq(s, 1, n)) = IF 1 <= n THEN n - 1 + 1 ELSE 0
      /\ \A k \in 1 .. n - 1 + 1 : SubSeq(s, 1, n)[k] = s[1 + k - 1]
  BY SubSeqProperties
<1> QED BY <1>1

LEMMA ConcatElements ==
  ASSUME NEW S, NEW s \in Seq(S), NEW t \in Seq(S)
  PROVE  /\ s \o t \in Seq(S) /\ Len(s) \in Nat /\ Len(t) \in Nat
         /\ DOMAIN s = 1 .. Len(s) /\ DOMAIN t = 1 .. Len(t)
         /\ DOMAIN (s \o t) = 1 .. Len(s) + Len(t)
         /\ \A k \in 1 .. Len(s) : (s \o t)[k] = s[k]
         /\ \A k \in Len(s) + 1 .. Len(s) + Len(t) : (s \o t)[k] = t[k - Len(s)]
<1>1. /\ s \o t \in Seq(S) /\ Len(s \o t) = Len(s) + Len(t)
      /\ \A k \in 1 .. Len(s) + Len(t) :
           (s \o t)[k] = IF k <= Len(s) THEN s[k] ELSE t[k - Len(s)]
  BY ConcatProperties
<1> QED BY <1>1

-----------------------------------------------------------------------------
(* What the types say, at hand for the steps. *)

LEMMA Types ==
  ASSUME IInv
  PROVE  /\ \A k \in DOMAIN inbox : inbox[k].from \in Invocations /\ inbox[k].part \in 1 .. RequestReports
         /\ DOMAIN inbox = 1 .. Len(inbox) /\ Len(inbox) \in Nat
         /\ \A k \in DOMAIN outbox : outbox[k] \in AnyReply
         /\ DOMAIN outbox = 1 .. Len(outbox) /\ Len(outbox) \in Nat
         /\ outbox \in Seq(AnyReply)
         /\ \A p \in Invocations :
              /\ queue[p] \in Seq(AnyReply) /\ taken[p] \in Seq(AnyReply)
              /\ owed[p] \in 0 .. RequestReports
         /\ queue \in [Invocations -> Seq(AnyReply)] /\ taken \in [Invocations -> Seq(AnyReply)]
<1>1. inbox \in Seq(Requests)
  BY DEF IInv, Truthful
<1>2. Replies \subseteq AnyReply
  BY DEF Replies, AnyReply
<1>3. Seq(Replies) \subseteq Seq(AnyReply)
  BY <1>2
<1>4. /\ outbox \in Seq(AnyReply)
      /\ \A p \in Invocations : queue[p] \in Seq(AnyReply) /\ taken[p] \in Seq(AnyReply)
      /\ queue \in [Invocations -> Seq(AnyReply)] /\ taken \in [Invocations -> Seq(AnyReply)]
  BY <1>3 DEF IInv, Truthful
<1>5. /\ \A k \in DOMAIN outbox : outbox[k] \in AnyReply
      /\ DOMAIN outbox = 1 .. Len(outbox) /\ Len(outbox) \in Nat
  BY <1>4
<1>6. \A p \in Invocations : owed[p] \in 0 .. RequestReports
  BY DEF IInv, TypeOK
<1> QED BY <1>1, <1>4, <1>5, <1>6, RequestParts

\* No invocation with a report in the inbox is without a handle.
LEMMA WaitingSent ==
  ASSUME IInv, OrderInv, NEW p \in Invocations, Waiting(p)
  PROVE  owed[p] < RequestReports
<1> PICK k \in DOMAIN inbox : inbox[k].from = p
  BY DEF Waiting
<1>1. inbox[k].part \in 1 .. RequestReports /\ inbox[k].part <= RequestReports - owed[p]
      /\ owed[p] \in 0 .. RequestReports
  BY Types DEF OrderInv
<1> QED BY <1>1

LEMMA OwnInitInv == Init => OwnInv
<1> SUFFICES ASSUME Init PROVE OwnInv
  OBVIOUS
<1>1. /\ inbox = <<>> /\ outbox = <<>> /\ DOMAIN inbox = {} /\ DOMAIN outbox = {} /\ mixed = {}
      /\ unsettled = {}
  BY DEF Init
<1>2. \A p \in Invocations :
        /\ queue[p] = <<>> /\ taken[p] = <<>> /\ handle[p] = "unopened"
        /\ owed[p] = RequestReports /\ code[p] = NotYet
        /\ DOMAIN queue[p] = {} /\ DOMAIN taken[p] = {}
  BY DEF Init
<1>3. \A p \in Invocations : ~Replied(p) /\ ~RepliedInFull(p) /\ ~Waiting(p)
  BY <1>1, <1>2 DEF Replied, RepliedInFull, Has, Waiting
<1>4. HandleInv
  BY <1>1, <1>2 DEF HandleInv
<1>5. OrderInv /\ LeftInv /\ UndisturbedIsUnderstood
  BY <1>1 DEF OrderInv, LeftInv, UndisturbedIsUnderstood
<1>6. OnceInv /\ LastInv
  BY <1>1, <1>3 DEF OnceInv, LastInv
<1>7. AloneInv
  BY <1>2 DEF AloneInv
<1>8. FirstInv
  BY <1>3 DEF FirstInv
<1>9. ReadInv
  BY <1>2 DEF ReadInv, NotYet
<1> QED BY InitInv, <1>4, <1>5, <1>6, <1>7, <1>8, <1>9 DEF OwnInv

-----------------------------------------------------------------------------
(* The steps of an invocation. *)

\* As long as no report moves, nobody gets one.
LEMMA SameHeld ==
  ASSUME queue' = queue, taken' = taken, outbox' = outbox
  PROVE  \A p : (Replied(p)' <=> Replied(p)) /\ (RepliedInFull(p)' <=> RepliedInFull(p))
  BY DEF Replied, RepliedInFull, Has, AnyReply

LEMMA OpenOwn ==
  ASSUME OwnInv, NEW p \in Invocations, Open(p)
  PROVE  OwnInv'
<1> USE DEF OwnInv
<1>1. /\ handle[p] = "unopened" /\ handle'[p] = "open"
      /\ \A q \in Invocations : q # p => handle'[q] = handle[q]
      /\ UNCHANGED <<sets, calls, queue, taken, code, inverter, unsettled>>
  BY DEF Open, IInv, TypeOK
<1>2. /\ suspect \subseteq suspect' /\ Opened \subseteq Opened' /\ Opened' \subseteq Opened \cup {p}
      /\ Opened # {} => Opened \subseteq suspect' /\ p \in suspect'
      /\ unsettled # {} => p \in suspect'
  <2>1. suspect' = suspect \cup (IF Opened # {} THEN Opened \cup {p} ELSE {})
                           \cup (IF unsettled # {} THEN {p} ELSE {})
    BY DEF Open
  <2>2. Opened \subseteq Opened' /\ Opened' \subseteq Opened \cup {p}
    BY <1>1 DEF Opened
  <2> QED BY <2>1, <2>2
<1>3. \A q : (Replied(q)' <=> Replied(q)) /\ (RepliedInFull(q)' <=> RepliedInFull(q))
  BY <1>1, SameHeld
<1>4. HandleInv'
  BY <1>1 DEF HandleInv
<1>5. OrderInv' /\ OnceInv' /\ LastInv'
  BY <1>1, <1>3 DEF OrderInv, OnceInv, LastInv, Waiting
<1>6. LeftInv'
  <2>1. \A q \in Invocations : handle[q] = "open" \/ q \in unsettled =>
          handle'[q] = "open" \/ q \in unsettled'
    BY <1>1
  <2>2. mixed \subseteq Invocations
    BY DEF IInv, TypeOK
  <2>3. \A k \in DOMAIN outbox : outbox[k].to \in Invocations \cup {Nobody}
    BY Types DEF AnyReply
  <2>4. \A k \in DOMAIN inbox : inbox[k].from \in Invocations
    BY Types
  <2> QED BY <1>1, <2>1, <2>2, <2>3, <2>4 DEF LeftInv
<1>7. AloneInv'
  <2> SUFFICES ASSUME NEW q \in Invocations, handle'[q] = "open", q \notin suspect'
               PROVE  /\ Opened' = {q}
                      /\ \A k \in DOMAIN inbox : inbox[k] = [from |-> q, part |-> k]
                      /\ Len(inbox) = RequestReports - owed[q] \/ (inbox = <<>> /\ owed[q] = 0)
                      /\ \A k \in DOMAIN outbox : outbox[k].to = q
                      /\ \A k \in DOMAIN queue[q] : queue[q][k].to = q
    BY <1>1 DEF AloneInv
  <2>1. q = p /\ Opened = {} /\ unsettled = {}
    <3>1. q # p => q \in Opened
      BY <1>1 DEF Opened
    <3> QED BY <1>2, <3>1
  <2>2. Opened' = {q}
    <3>1. p \in Opened'
      BY <1>1 DEF Opened
    <3> QED BY <1>2, <2>1, <3>1
  <2>3. \A r \in Invocations : handle[r] # "open" /\ r \notin unsettled
    BY <2>1 DEF Opened
  <2>4. mixed = {}
    BY <2>3 DEF LeftInv, IInv, TypeOK
  <2>5. DOMAIN inbox = {}
    BY <2>3, Types DEF LeftInv
  <2>6. DOMAIN outbox = {}
    <3> SUFFICES ASSUME NEW k \in DOMAIN outbox PROVE FALSE
      OBVIOUS
    <3>1. outbox[k].to \in Invocations \cup {Nobody}
      BY Types DEF AnyReply
    <3> QED BY <2>3, <2>4, <3>1 DEF LeftInv
  <2>7. queue[p] = <<>> /\ owed[p] = RequestReports
    BY <1>1 DEF HandleInv
  <2>8. Len(inbox) = 0
    BY <2>5, Types
  <2> QED BY <2>1, <2>2, <2>5, <2>6, <2>7, <2>8
<1>8. FirstInv'
  BY <1>1, <1>2 DEF FirstInv, Waiting
<1>9. ReadInv'
  BY <1>1, <1>2 DEF ReadInv
<1>10. UndisturbedIsUnderstood'
  BY <1>1, <1>2 DEF UndisturbedIsUnderstood
<1> QED BY <1>4, <1>5, <1>6, <1>7, <1>8, <1>9, <1>10, OpenInv

LEMMA WriteReportOwn ==
  ASSUME OwnInv, NEW p \in Invocations, WriteReport(p)
  PROVE  OwnInv'
<1> USE DEF OwnInv
<1> DEFINE new == [from |-> p, part |-> NextPart(p)]
<1>1. /\ handle[p] = "open" /\ owed[p] > 0 /\ owed[p] \in 1 .. RequestReports
      /\ owed'[p] = owed[p] - 1 /\ \A q \in Invocations : q # p => owed'[q] = owed[q]
      /\ new.from = p /\ new.part = RequestReports - owed[p] + 1
      /\ new.part = RequestReports - owed'[p]
      /\ UNCHANGED <<sets, handle, phase, reply, queue, taken, code, outbox, done, mixed, ghosts>>
  BY Types DEF WriteReport, NextPart, IInv, TypeOK
<1>2. /\ DOMAIN inbox = 1 .. Len(inbox) /\ Len(inbox) \in Nat
      /\ Len(inbox') = Len(inbox) + 1 /\ DOMAIN inbox' = 1 .. Len(inbox) + 1
      /\ \A k \in 1 .. Len(inbox) : inbox'[k] = inbox[k]
      /\ inbox'[Len(inbox) + 1] = new
  <2>1. inbox \in Seq(Requests) /\ inbox' = Append(inbox, new)
    BY DEF IInv, Truthful, WriteReport
  <2>2. new \in Requests
    BY <1>1 DEF Requests
  <2> QED BY <2>1, <2>2, AppendElements
<1>3. \A k \in 1 .. Len(inbox) :
        inbox[k].from \in Invocations /\ inbox[k].part \in 1 .. RequestReports
  BY Types
<1>4. \A q : (Replied(q)' <=> Replied(q)) /\ (RepliedInFull(q)' <=> RepliedInFull(q))
  BY <1>1, SameHeld
<1>5. \A q \in Invocations : q # p => (Waiting(q)' <=> Waiting(q))
  BY <1>1, <1>2, SMTT(40) DEF Waiting
<1>6. HandleInv'
  BY <1>1 DEF HandleInv
<1>7. OrderInv'
  <2>1. ASSUME NEW k \in DOMAIN inbox'
        PROVE  inbox'[k].part <= RequestReports - owed'[inbox'[k].from]
    <3>1. CASE k = Len(inbox) + 1
      BY <1>1, <1>2, <3>1
    <3>2. CASE k \in 1 .. Len(inbox)
      <4>1. inbox[k].part <= RequestReports - owed[inbox[k].from]
        BY <1>2, <3>2 DEF OrderInv
      <4> QED BY <1>1, <1>2, <1>3, <3>2, <4>1
    <3> QED BY <1>2, <3>1, <3>2
  <2>2. ASSUME NEW j \in DOMAIN inbox', NEW k \in DOMAIN inbox', j < k,
               inbox'[j].from = inbox'[k].from
        PROVE  inbox'[j].part < inbox'[k].part
    <3>1. j \in 1 .. Len(inbox)
      BY <1>2, <2>2
    <3>2. inbox[j].part <= RequestReports - owed[inbox[j].from]
      BY <1>2, <3>1 DEF OrderInv
    <3>3. CASE k = Len(inbox) + 1
      BY <1>1, <1>2, <1>3, <2>2, <3>1, <3>2, <3>3
    <3>4. CASE k \in 1 .. Len(inbox)
      BY <1>2, <2>2, <3>1, <3>4 DEF OrderInv
    <3> QED BY <1>2, <3>3, <3>4
  <2> QED BY <2>1, <2>2 DEF OrderInv
<1>8. ~Replied(p)
  BY <1>1 DEF OnceInv
<1>9. OnceInv'
  <2> SUFFICES ASSUME NEW q \in Invocations
               PROVE  /\ Replied(q)' => owed'[q] = 0 /\ ~Waiting(q)' /\ q \notin mixed'
                      /\ q \in mixed' => /\ owed'[q] < RequestReports
                                         /\ \A k \in DOMAIN inbox' : inbox'[k].from = q => inbox'[k].part > 1
    BY DEF OnceInv
  <2>1. Replied(q)' => owed'[q] = 0 /\ ~Waiting(q)' /\ q \notin mixed'
    BY <1>1, <1>4, <1>5, <1>8 DEF OnceInv
  <2>2. ASSUME q \in mixed'
        PROVE  /\ owed'[q] < RequestReports
               /\ \A k \in DOMAIN inbox' : inbox'[k].from = q => inbox'[k].part > 1
    <3>1. /\ owed[q] < RequestReports /\ owed[q] \in Int
          /\ \A k \in DOMAIN inbox : inbox[k].from = q => inbox[k].part > 1
      BY <1>1, <2>2, Types DEF OnceInv
    <3> QED BY <1>1, <1>2, <3>1, SMTT(40)
  <2> QED BY <2>1, <2>2
<1>10. LastInv'
  BY <1>1, <1>4 DEF LastInv
<1>11. LeftInv'
  <2>1. ASSUME NEW k \in DOMAIN inbox'
        PROVE  handle[inbox'[k].from] = "open" \/ inbox'[k].from \in unsettled
    <3>1. CASE k = Len(inbox) + 1
      BY <1>1, <1>2, <3>1
    <3>2. CASE k \in DOMAIN inbox
      <4>1. inbox'[k] = inbox[k]
        BY <1>2, <3>2
      <4> QED BY <3>2, <4>1 DEF LeftInv
    <3> QED BY <1>2, <3>1, <3>2
  <2>2. /\ \A q \in mixed' : handle'[q] = "open" \/ q \in unsettled'
        /\ \A k \in DOMAIN outbox' :
             IF outbox'[k].to = Nobody
               THEN mixed' # {}
               ELSE handle'[outbox'[k].to] = "open" \/ outbox'[k].to \in unsettled'
    BY <1>1 DEF LeftInv
  <2> QED BY <1>1, <2>1, <2>2 DEF LeftInv
<1>12. ASSUME NEW q \in Invocations, handle[q] = "open", q \notin suspect
       PROVE  /\ q = p
              /\ \A k \in DOMAIN inbox' : inbox'[k] = [from |-> q, part |-> k]
              /\ Len(inbox') = RequestReports - owed'[q]
  <2>1. q = p
    BY <1>1, <1>12 DEF AloneInv, Opened
  <2>2. Len(inbox) = RequestReports - owed[p]
    BY <1>1, <1>12, <2>1 DEF AloneInv
  <2>3. \A k \in DOMAIN inbox : inbox[k] = [from |-> q, part |-> k]
    BY <1>12 DEF AloneInv
  <2> QED BY <1>1, <1>2, <2>1, <2>2, <2>3
<1>13. AloneInv'
  BY <1>1, <1>12 DEF AloneInv, Opened
<1>14. FirstInv'
  <2> SUFFICES ASSUME NEW q \in Invocations, q \notin suspect, Waiting(q)'
               PROVE  /\ RequestReports - owed'[q] <= Len(inbox')
                      /\ \A k \in 1 .. RequestReports - owed'[q] : inbox'[k] = [from |-> q, part |-> k]
    BY <1>1 DEF FirstInv
  <2>1. CASE q = p
    BY <1>1, <1>2, <1>12, <2>1
  <2>2. CASE q # p
    <3>1. /\ RequestReports - owed[q] <= Len(inbox) /\ owed[q] \in Int
          /\ \A k \in 1 .. RequestReports - owed[q] : inbox[k] = [from |-> q, part |-> k]
      BY <1>5, <2>2, Types DEF FirstInv
    <3> QED BY <1>1, <1>2, <2>2, <3>1
  <2> QED BY <2>1, <2>2
<1>15. ReadInv'
  BY <1>1 DEF ReadInv
<1>16. UndisturbedIsUnderstood'
  <2>1. \A q \in mixed : q \in suspect \/ (q \in unsettled /\ owed[q] > 0)
    BY DEF UndisturbedIsUnderstood
  <2>2. p \in mixed => p \in suspect
    BY <1>1, <2>1 DEF HandleInv
  <2> QED BY <1>1, <2>1, <2>2 DEF UndisturbedIsUnderstood, IInv, TypeOK
<1> QED BY <1>6, <1>7, <1>9, <1>10, <1>11, <1>13, <1>14, <1>15, <1>16, WriteReportInv

LEMMA ListenOwn ==
  ASSUME OwnInv, NEW p \in Invocations, Listen(p) \/ GiveUp(p)
  PROVE  OwnInv'
<1> USE DEF OwnInv
<1>1. UNCHANGED <<sets, handle, owed, reply, queue, taken, code, inverter, ghosts>>
  BY DEF Listen, GiveUp
<1>2. \A q : (Replied(q)' <=> Replied(q)) /\ (RepliedInFull(q)' <=> RepliedInFull(q))
  BY <1>1, SameHeld
<1>3. HandleInv' /\ OrderInv'
  BY <1>1 DEF HandleInv, OrderInv
<1>4. OnceInv' /\ LastInv'
  BY <1>1, <1>2 DEF OnceInv, LastInv, Waiting
<1>5. LeftInv'
  BY <1>1 DEF LeftInv
<1>6. AloneInv' /\ FirstInv'
  BY <1>1 DEF AloneInv, FirstInv, Waiting, Opened
<1>7. ReadInv' /\ UndisturbedIsUnderstood'
  BY <1>1 DEF ReadInv, UndisturbedIsUnderstood
<1> QED BY <1>3, <1>4, <1>5, <1>6, <1>7, ListenInv

LEMMA ReadReportOwn ==
  ASSUME OwnInv, NEW p \in Invocations, ReadReport(p)
  PROVE  OwnInv'
<1> USE DEF OwnInv
<1>1. /\ handle[p] = "open"
      /\ UNCHANGED <<sets, handle, owed, code, inverter, ghosts>>
      /\ queue'[p] = Tail(queue[p]) /\ taken'[p] = Append(taken[p], Head(queue[p]))
      /\ \A q \in Invocations : q # p => queue'[q] = queue[q] /\ taken'[q] = taken[q]
  BY Types DEF ReadReport
<1>2. /\ Len(queue[p]) \in Nat /\ DOMAIN queue[p] = 1 .. Len(queue[p]) /\ 1 \in DOMAIN queue[p]
      /\ Head(queue[p]) \in AnyReply /\ Head(queue[p]) = queue[p][1]
      /\ DOMAIN queue'[p] = 1 .. Len(queue[p]) - 1
      /\ \A k \in 1 .. Len(queue[p]) - 1 : queue'[p][k] = queue[p][k + 1]
  <2>1. queue[p] \in Seq(AnyReply) /\ queue[p] # <<>>
    BY Types DEF ReadReport
  <2> QED BY <1>1, <2>1, TailElements
<1>3. /\ DOMAIN taken'[p] = 1 .. Len(taken[p]) + 1 /\ DOMAIN taken[p] = 1 .. Len(taken[p])
      /\ Len(taken[p]) \in Nat
      /\ \A k \in 1 .. Len(taken[p]) : taken'[p][k] = taken[p][k]
      /\ taken'[p][Len(taken[p]) + 1] = queue[p][1]
  <2>1. taken[p] \in Seq(AnyReply)
    BY Types
  <2> QED BY <1>1, <1>2, <2>1, AppendElements
<1>4. ASSUME NEW s \in Invocations, NEW report, Has(s, report)'
      PROVE  Has(s, report)
  <2>1. CASE s # p
    BY <1>1, <1>4, <2>1 DEF Has
  <2>2. CASE s = p
    <3>1. ASSUME NEW k \in DOMAIN queue'[p], queue'[p][k] = report PROVE Has(p, report)
      <4>1. k + 1 \in DOMAIN queue[p] /\ queue[p][k + 1] = report
        BY <1>2, <3>1
      <4> QED BY <4>1 DEF Has
    <3>2. ASSUME NEW k \in DOMAIN taken'[p], taken'[p][k] = report PROVE Has(p, report)
      <4>1. CASE k = Len(taken[p]) + 1
        BY <1>2, <1>3, <3>2, <4>1 DEF Has
      <4>2. CASE k \in DOMAIN taken[p]
        BY <1>3, <3>2, <4>2 DEF Has
      <4> QED BY <1>3, <4>1, <4>2
    <3> QED BY <1>4, <2>2, <3>1, <3>2 DEF Has
  <2> QED BY <2>1, <2>2
<1>5. \A q : (Replied(q)' => Replied(q)) /\ (RepliedInFull(q)' => RepliedInFull(q))
  <2>1. outbox' = outbox /\ AnyReply' = AnyReply
    BY <1>1 DEF AnyReply
  <2> QED BY <1>4, <2>1 DEF Replied, RepliedInFull
<1>6. HandleInv'
  BY <1>1 DEF HandleInv
<1>7. OrderInv' /\ LeftInv'
  BY <1>1 DEF OrderInv, LeftInv
<1>8. OnceInv'
  BY <1>1, <1>5 DEF OnceInv, Waiting
<1>9. LastInv'
  BY <1>1, <1>5 DEF LastInv
<1>10. p \notin suspect => \A k \in DOMAIN queue[p] : queue[p][k].to = p
  BY <1>1 DEF AloneInv
<1>11. AloneInv'
  <2>1. ASSUME NEW q \in Invocations, handle[q] = "open", q \notin suspect
        PROVE  \A k \in DOMAIN queue'[q] : queue'[q][k].to = q
    <3>1. CASE q = p
      <4>1. ASSUME NEW k \in DOMAIN queue'[p] PROVE queue'[p][k].to = p
        <5>1. k + 1 \in DOMAIN queue[p] /\ queue'[p][k] = queue[p][k + 1]
          BY <1>2
        <5> QED BY <1>10, <2>1, <3>1, <5>1
      <4> QED BY <3>1, <4>1
    <3>2. CASE q # p
      BY <1>1, <2>1, <3>2 DEF AloneInv
    <3> QED BY <3>1, <3>2
  <2> QED BY <1>1, <2>1 DEF AloneInv, Opened
<1>12. FirstInv'
  BY <1>1 DEF FirstInv, Waiting
<1>13. ReadInv'
  <2>1. ASSUME NEW q \in Invocations, q \notin suspect
        PROVE  \A k \in DOMAIN taken'[q] : taken'[q][k].to = q
    <3>1. \A k \in DOMAIN taken[q] : taken[q][k].to = q
      BY <2>1 DEF ReadInv
    <3>2. CASE q = p
      <4>1. queue[p][1].to = p
        BY <1>2, <1>10, <2>1, <3>2
      <4>2. ASSUME NEW k \in DOMAIN taken'[p] PROVE taken'[p][k].to = p
        <5>1. k \in DOMAIN taken[p] \/ k = Len(taken[p]) + 1
          BY <1>3
        <5> QED BY <1>3, <3>1, <3>2, <4>1, <5>1
      <4> QED BY <3>2, <4>2
    <3>3. CASE q # p
      BY <1>1, <3>1, <3>3
    <3> QED BY <3>2, <3>3
  <2> QED BY <1>1, <2>1 DEF ReadInv
<1>14. UndisturbedIsUnderstood'
  BY <1>1 DEF UndisturbedIsUnderstood
<1> QED BY <1>6, <1>7, <1>8, <1>9, <1>11, <1>12, <1>13, <1>14, ReadReportInv

LEMMA FinishOwn ==
  ASSUME OwnInv, NEW p \in Invocations, Finish(p)
  PROVE  OwnInv'
<1> USE DEF OwnInv
<1>1. PICK exit_code \in {0, 2} :
        /\ Leave(p, exit_code)
        /\ exit_code = 0 => phase[p] = "answered" /\ Accepts(p)
  BY DEF Finish
<1>2. /\ handle[p] = "open" /\ handle'[p] = "closed"
      /\ \A q \in Invocations : q # p => handle'[q] = handle[q]
      /\ queue'[p] = <<>> /\ \A q \in Invocations : q # p => queue'[q] = queue[q]
      /\ code'[p] = exit_code /\ \A q \in Invocations : q # p => code'[q] = code[q]
      /\ unsettled \subseteq unsettled' /\ unsettled' \subseteq unsettled \cup {p}
      /\ p \in unsettled' \/ owed[p] = RequestReports \/ Answered(p)
      /\ UNCHANGED <<sets, calls, taken, inverter, suspect>>
  BY <1>1, Types DEF Finish, Leave, IInv, TypeOK
<1>3. ASSUME NEW s \in Invocations, NEW report, Has(s, report)'
      PROVE  Has(s, report)
  BY <1>2, <1>3 DEF Has
<1>4. \A q : (Replied(q)' => Replied(q)) /\ (RepliedInFull(q)' => RepliedInFull(q))
  <2>1. outbox' = outbox /\ AnyReply' = AnyReply
    BY <1>2 DEF AnyReply
  <2> QED BY <1>3, <2>1 DEF Replied, RepliedInFull
<1>5. HandleInv'
  BY <1>2 DEF HandleInv
<1>6. OrderInv'
  BY <1>2 DEF OrderInv
<1>7. OnceInv'
  BY <1>2, <1>4 DEF OnceInv, Waiting
<1>8. LastInv'
  BY <1>2, <1>4 DEF LastInv
\* An invocation that leaves behind something of itself is unsettled.
<1>9. Answered(p) => Replied(p) /\ RepliedInFull(p)
  <2> SUFFICES ASSUME Answered(p) PROVE Replied(p) /\ RepliedInFull(p)
    OBVIOUS
  <2>1. taken[p] \in Seq(AnyReply) /\ taken[p] # <<>>
    BY Types DEF Answered
  <2>2. Len(taken[p]) \in DOMAIN taken[p] /\ taken[p][Len(taken[p])] \in AnyReply
    BY <2>1
  <2>3. taken[p][Len(taken[p])].to = p /\ taken[p][Len(taken[p])].last
    BY DEF Answered, Last
  <2> QED BY <2>2, <2>3 DEF Replied, RepliedInFull, Has
<1>10. p \notin unsettled' =>
         ~Waiting(p) /\ p \notin mixed /\ \A k \in DOMAIN outbox : outbox[k].to # p
  <2> SUFFICES ASSUME p \notin unsettled'
               PROVE  ~Waiting(p) /\ p \notin mixed /\ \A k \in DOMAIN outbox : outbox[k].to # p
    OBVIOUS
  <2>1. CASE owed[p] = RequestReports
    <3>1. ~Waiting(p)
      BY <2>1, WaitingSent
    <3>2. p \notin mixed
      BY <2>1 DEF OnceInv
    <3>3. ~Replied(p)
      BY <2>1 DEF OnceInv
    <3> QED BY <3>1, <3>2, <3>3 DEF Replied
  <2>2. CASE Answered(p)
    BY <1>9, <2>2 DEF OnceInv, LastInv
  <2> QED BY <1>2, <2>1, <2>2
<1>11. LeftInv'
  <2>1. ASSUME NEW q \in Invocations, handle[q] = "open" \/ q \in unsettled,
               q = p => p \in unsettled'
        PROVE  handle'[q] = "open" \/ q \in unsettled'
    BY <1>2, <2>1
  <2>2. ASSUME NEW k \in DOMAIN inbox
        PROVE  handle'[inbox[k].from] = "open" \/ inbox[k].from \in unsettled'
    <3>1. inbox[k].from \in Invocations
      BY Types
    <3>2. inbox[k].from = p => p \in unsettled'
      BY <1>10 DEF Waiting
    <3> QED BY <2>1, <3>1, <3>2 DEF LeftInv
  <2>3. ASSUME NEW q \in mixed
        PROVE  handle'[q] = "open" \/ q \in unsettled'
    <3>1. q \in Invocations
      BY DEF IInv, TypeOK
    <3> QED BY <1>10, <2>1, <3>1 DEF LeftInv
  <2>4. ASSUME NEW k \in DOMAIN outbox
        PROVE  IF outbox[k].to = Nobody
                 THEN mixed # {}
                 ELSE handle'[outbox[k].to] = "open" \/ outbox[k].to \in unsettled'
    <3>1. CASE outbox[k].to = Nobody
      BY <3>1 DEF LeftInv
    <3>2. CASE outbox[k].to # Nobody
      <4>1. outbox[k].to \in Invocations
        BY <3>2, Types DEF AnyReply
      <4>2. handle[outbox[k].to] = "open" \/ outbox[k].to \in unsettled
        BY <3>2 DEF LeftInv
      <4> QED BY <1>10, <2>1, <3>2, <4>1, <4>2
    <3> QED BY <3>1, <3>2
  <2> QED BY <1>2, <2>2, <2>3, <2>4 DEF LeftInv
<1>12. AloneInv'
  <2> SUFFICES ASSUME NEW q \in Invocations, handle'[q] = "open", q \notin suspect
               PROVE  FALSE
    BY <1>2 DEF AloneInv
  <2>1. q # p /\ handle[q] = "open"
    BY <1>2
  <2> QED BY <1>2, <2>1 DEF AloneInv, Opened
<1>13. FirstInv'
  BY <1>2 DEF FirstInv, Waiting
<1>14. ReadInv'
  <2>1. ASSUME p \notin suspect, exit_code = 0 PROVE p \in done
    <3>1. taken[p] \in Seq(Replies) /\ taken[p] # <<>>
      BY <1>1, <2>1 DEF IInv, Truthful
    <3>2. 1 \in DOMAIN taken[p] /\ taken[p][1] \in Replies
      BY <3>1
    <3>3. taken[p][1].to = p
      BY <2>1, <3>2 DEF ReadInv
    <3>4. Begins(p) \in {"ack", "data"}
      BY <1>1, <2>1 DEF Accepts, SetResult, ValidQueryResponse
    <3>5. taken[p][1].begins \in {"ack", "data"}
      BY <3>4 DEF Begins
    <3> QED BY <3>2, <3>3, <3>5 DEF Replies
  <2> QED BY <1>2, <2>1 DEF ReadInv
<1>15. UndisturbedIsUnderstood'
  BY <1>2 DEF UndisturbedIsUnderstood
<1> QED BY <1>5, <1>6, <1>7, <1>8, <1>11, <1>12, <1>13, <1>14, <1>15, FinishInv

-----------------------------------------------------------------------------
(* The steps of the inverter. *)

LEMMA SendReportOwn ==
  ASSUME OwnInv, SendReport
  PROVE  OwnInv'
<1> USE DEF OwnInv
<1>1. /\ UNCHANGED <<sets, handle, calls, taken, code, inbox, done, mixed, ghosts>>
      /\ \A q \in Invocations : queue'[q] = IF q \in Opened THEN Append(queue[q], Head(outbox)) ELSE queue[q]
      /\ \A q \in Invocations : q \in Opened <=> handle[q] = "open"
  BY DEF SendReport, Opened
<1>2. /\ Len(outbox) \in Nat /\ DOMAIN outbox = 1 .. Len(outbox) /\ 1 \in DOMAIN outbox
      /\ Head(outbox) \in AnyReply /\ Head(outbox) = outbox[1]
      /\ DOMAIN outbox' = 1 .. Len(outbox) - 1
      /\ \A k \in 1 .. Len(outbox) - 1 : outbox'[k] = outbox[k + 1]
  <2>1. outbox \in Seq(AnyReply) /\ outbox # <<>> /\ outbox' = Tail(outbox)
    BY Types DEF SendReport
  <2> QED BY <2>1, TailElements
<1>3. ASSUME NEW q \in Invocations, NEW k \in DOMAIN queue'[q]
      PROVE  (k \in DOMAIN queue[q] /\ queue'[q][k] = queue[q][k]) \/ (q \in Opened /\ queue'[q][k] = outbox[1])
  <2>1. queue[q] \in Seq(AnyReply)
    BY Types
  <2>2. CASE q \in Opened
    <3>1. queue'[q] = Append(queue[q], Head(outbox))
      BY <1>1, <2>2
    <3>2. /\ Len(queue[q]) \in Nat /\ DOMAIN queue[q] = 1 .. Len(queue[q])
          /\ DOMAIN queue'[q] = 1 .. Len(queue[q]) + 1
          /\ \A i \in 1 .. Len(queue[q]) : queue'[q][i] = queue[q][i]
          /\ queue'[q][Len(queue[q]) + 1] = outbox[1]
      BY <1>2, <2>1, <3>1, AppendElements
    <3> QED BY <2>2, <3>2
  <2>3. CASE q \notin Opened
    BY <1>1, <2>3
  <2> QED BY <2>2, <2>3
<1>4. ASSUME NEW s \in Invocations, NEW report, Has(s, report)'
      PROVE  Has(s, report) \/ report = outbox[1]
  BY <1>1, <1>3, <1>4 DEF Has
<1>5. ASSUME NEW k \in DOMAIN outbox'
      PROVE  k + 1 \in DOMAIN outbox /\ outbox'[k] = outbox[k + 1]
  BY <1>2
<1>6. \A q : Replied(q)' => Replied(q)
  <2>1. AnyReply' = AnyReply
    BY DEF AnyReply
  <2> SUFFICES ASSUME NEW q, Replied(q)' PROVE Replied(q)
    OBVIOUS
  <2>2. CASE \E k \in DOMAIN outbox' : outbox'[k].to = q
    BY <1>5, <2>2 DEF Replied
  <2>3. CASE \E s \in Invocations, report \in AnyReply : Has(s, report)' /\ report.to = q
    BY <1>2, <1>4, <2>3 DEF Replied
  <2> QED BY <2>1, <2>2, <2>3 DEF Replied
<1>7. \A q : RepliedInFull(q)' => RepliedInFull(q) \/ (outbox[1].to = q /\ outbox[1].last)
  <2>1. AnyReply' = AnyReply
    BY DEF AnyReply
  <2> QED BY <1>4, <2>1 DEF RepliedInFull
<1>8. HandleInv'
  BY <1>1 DEF HandleInv
<1>9. OrderInv'
  BY <1>1 DEF OrderInv
<1>10. OnceInv'
  BY <1>1, <1>6 DEF OnceInv, Waiting
<1>11. LastInv'
  <2> SUFFICES ASSUME NEW q \in Invocations
               PROVE  /\ RepliedInFull(q)' => \A k \in DOMAIN outbox' : outbox'[k].to # q
                      /\ \A j, k \in DOMAIN outbox' :
                           j < k /\ outbox'[j].to = q /\ outbox'[k].to = q => ~outbox'[j].last
    BY DEF LastInv
  <2>1. ASSUME RepliedInFull(q)', NEW k \in DOMAIN outbox' PROVE outbox'[k].to # q
    <3>1. CASE RepliedInFull(q)
      BY <1>5, <3>1 DEF LastInv
    <3>2. CASE outbox[1].to = q /\ outbox[1].last
      <4>1. 1 < k + 1 /\ k + 1 \in DOMAIN outbox /\ 1 \in DOMAIN outbox
        BY <1>2, <1>5
      <4> QED BY <1>5, <3>2, <4>1 DEF LastInv
    <3> QED BY <1>7, <2>1, <3>1, <3>2
  <2>2. ASSUME NEW j \in DOMAIN outbox', NEW k \in DOMAIN outbox', j < k,
               outbox'[j].to = q, outbox'[k].to = q
        PROVE  ~outbox'[j].last
    <3>1. j + 1 < k + 1
      BY <1>2, <2>2
    <3> QED BY <1>5, <2>2, <3>1 DEF LastInv
  <2> QED BY <2>1, <2>2
<1>12. LeftInv'
  <2>1. ASSUME NEW k \in DOMAIN outbox'
        PROVE  IF outbox'[k].to = Nobody
                 THEN mixed # {}
                 ELSE handle[outbox'[k].to] = "open" \/ outbox'[k].to \in unsettled
    BY <1>5 DEF LeftInv
  <2> QED BY <1>1, <2>1 DEF LeftInv
<1>13. AloneInv'
  <2> SUFFICES ASSUME NEW q \in Invocations, handle[q] = "open", q \notin suspect
               PROVE  /\ \A k \in DOMAIN outbox' : outbox'[k].to = q
                      /\ \A k \in DOMAIN queue'[q] : queue'[q][k].to = q
    BY <1>1 DEF AloneInv, Opened
  <2>1. \A k \in DOMAIN outbox : outbox[k].to = q
    BY DEF AloneInv
  <2>2. \A k \in DOMAIN queue[q] : queue[q][k].to = q
    BY DEF AloneInv
  <2> QED BY <1>2, <1>3, <1>5, <2>1, <2>2
<1>14. FirstInv'
  BY <1>1 DEF FirstInv, Waiting
<1>15. ReadInv' /\ UndisturbedIsUnderstood'
  BY <1>1 DEF ReadInv, UndisturbedIsUnderstood
<1> QED BY <1>8, <1>9, <1>10, <1>11, <1>12, <1>13, <1>14, <1>15, SendReportInv

\* The request goes up to end; what the inverter says to it is answer, for to.
LEMMA UnderstandOwn ==
  ASSUME OwnInv, Understand
  PROVE  OwnInv'
<1> USE DEF OwnInv
<1>0. PICK end \in DOMAIN inbox :
        /\ IsFirstEnd(end)
        /\ inbox' = SubSeq(inbox, end + 1, Len(inbox))
        /\ IF Whole(SubSeq(inbox, 1, end))
             THEN CarryOut(SubSeq(inbox, 1, end)[1].from) \/ Refuse(SubSeq(inbox, 1, end)[1].from)
             ELSE Misread(SubSeq(inbox, 1, end))
  BY DEF Understand
<1> DEFINE request == SubSeq(inbox, 1, end)
<1>1. UNCHANGED <<sets, handle, calls, queue, taken, code, ghosts>>
  BY DEF Understand
<1>2. /\ DOMAIN inbox = 1 .. Len(inbox) /\ Len(inbox) \in Nat /\ end \in 1 .. Len(inbox)
      /\ \A k \in DOMAIN inbox : inbox[k].from \in Invocations /\ inbox[k].part \in 1 .. RequestReports
  BY Types
<1>3. /\ Len(inbox') = Len(inbox) - end /\ DOMAIN inbox' = 1 .. Len(inbox) - end
      /\ \A k \in 1 .. Len(inbox) - end : inbox'[k] = inbox[k + end]
  <2>1. inbox \in Seq(Requests)
    BY DEF IInv, Truthful
  <2> QED BY <1>0, <1>2, <2>1, RestElements
<1>4. Len(request) = end /\ DOMAIN request = 1 .. end /\ \A k \in 1 .. end : request[k] = inbox[k]
  <2>1. inbox \in Seq(Requests)
    BY DEF IInv, Truthful
  <2> QED BY <1>2, <2>1, BeginElements
<1>5. /\ inbox[end].part = RequestReports
      /\ \A k \in 1 .. end - 1 : inbox[k].part # RequestReports
  BY <1>0 DEF IsFirstEnd, EndsRequest
<1>6. PICK sender \in Invocations :
        /\ sender = inbox[1].from
        /\ 1 \in DOMAIN inbox /\ 1 \in DOMAIN request /\ request[1] = inbox[1]
  <2>1. 1 \in DOMAIN inbox /\ 1 \in DOMAIN request /\ request[1] = inbox[1]
    BY <1>2, <1>4
  <2> QED BY <1>2, <2>1
<1>6a. IF Whole(request) THEN CarryOut(sender) \/ Refuse(sender) ELSE Misread(request)
  BY <1>0, <1>6
<1> HIDE DEF request
<1>7. ASSUME NEW k \in DOMAIN inbox'
      PROVE  k + end \in DOMAIN inbox /\ inbox'[k] = inbox[k + end] /\ k + end > end
  BY <1>2, <1>3
<1>8. \A q : Waiting(q)' => Waiting(q)
  BY <1>7 DEF Waiting
\* A whole request is all its sender has in the inbox.
<1>9. ASSUME Whole(request)
      PROVE  /\ end = RequestReports
             /\ \A k \in 1 .. end : inbox[k] = [from |-> sender, part |-> k]
             /\ owed[sender] = 0 /\ ~Waiting(sender)' /\ sender \notin mixed /\ ~Replied(sender)
  <2>1. end = RequestReports /\ \A k \in 1 .. end : inbox[k] = [from |-> sender, part |-> k]
    BY <1>4, <1>6, <1>9 DEF Whole
  <2>2. inbox[end].from = sender /\ inbox[1].part = 1
    <3>1. 1 \in 1 .. end /\ end \in 1 .. end
      BY <1>2
    <3>2. inbox[1] = [from |-> sender, part |-> 1] /\ inbox[end] = [from |-> sender, part |-> end]
      BY <2>1, <3>1
    <3> QED BY <3>2
  <2>3. RequestReports <= RequestReports - owed[sender] /\ owed[sender] \in 0 .. RequestReports
    BY <1>5, <1>6, <2>2, Types DEF OrderInv
  <2>4. ASSUME NEW k \in DOMAIN inbox', inbox'[k].from = sender PROVE FALSE
    <3>1. inbox[end].part < inbox[k + end].part
      BY <1>7, <2>2, <2>4 DEF OrderInv
    <3>2. inbox[k + end].part \in 1 .. RequestReports
      BY <1>2, <1>7
    <3> QED BY <1>5, <3>1, <3>2
  <2>5. sender \notin mixed
    BY <1>6, <2>2 DEF OnceInv
  <2>6. Waiting(sender)
    BY <1>6 DEF Waiting
  <2>7. owed[sender] = 0
    BY <2>3
  <2>8. ~Waiting(sender)'
    BY <2>4 DEF Waiting
  <2>9. ~Replied(sender)
    BY <1>6, <2>6 DEF OnceInv
  <2> QED BY <2>1, <2>5, <2>7, <2>8, <2>9
\* What the inverter says, if anything.
<1>10. PICK to \in Invocations \cup {Nobody}, begins \in {"ack", "nack", "data"} :
         /\ outbox' \in {outbox, outbox \o ReplyTo(to, begins)}
         /\ to = IF Whole(request) THEN sender ELSE Nobody
         /\ begins = "ack" => to \in done' /\ to \in sets'
         /\ begins = "data" => to \in done' /\ to \notin sets'
  <2>1. CASE Whole(request) /\ CarryOut(sender)
    BY <1>1, <1>6, <2>1 DEF CarryOut
  <2>2. CASE Whole(request) /\ Refuse(sender)
    BY <1>6, <2>2 DEF Refuse
  <2>3. CASE ~Whole(request) /\ Misread(request)
    BY <2>3 DEF Misread
  <2> QED BY <1>6a, <2>1, <2>2, <2>3
<1> DEFINE answer == ReplyTo(to, begins)
<1>11. /\ Len(answer) \in Nat /\ DOMAIN answer = 1 .. Len(answer) /\ answer \in Seq(AnyReply)
       /\ \A k \in DOMAIN answer : answer[k].to = to /\ (answer[k].last <=> k = Len(answer))
  <2> DEFINE n == IF begins = "data" THEN ReplyReports ELSE 1
  <2>1. n \in Nat
    OBVIOUS
  <2>2. answer = [k \in 1 .. n |-> [to |-> to, begins |-> begins, part |-> k, last |-> k = n]]
    BY DEF ReplyTo
  <2>3. DOMAIN answer = 1 .. n /\ Len(answer) = n
    BY <2>1, <2>2
  <2>4. ASSUME NEW k \in 1 .. n
        PROVE  [to |-> to, begins |-> begins, part |-> k, last |-> k = n] \in AnyReply
    BY DEF AnyReply, Beginnings
  <2>5. answer \in Seq(AnyReply)
    BY <2>1, <2>2, <2>4
  <2>6. ASSUME NEW k \in DOMAIN answer
        PROVE  answer[k].to = to /\ (answer[k].last <=> k = Len(answer))
    <3>1. answer[k] = [to |-> to, begins |-> begins, part |-> k, last |-> k = n]
      BY <2>2, <2>3
    <3>2. answer[k].to = to /\ answer[k].last = (k = n)
      BY <3>1
    <3> QED BY <2>3, <3>2
  <2> QED BY <2>1, <2>3, <2>5, <2>6
<1> HIDE DEF answer
<1>12. /\ DOMAIN outbox = 1 .. Len(outbox) /\ Len(outbox) \in Nat /\ outbox \in Seq(AnyReply)
       /\ \A k \in DOMAIN outbox : outbox[k] \in AnyReply
  BY Types
<1>13. ASSUME NEW k \in DOMAIN outbox'
       PROVE  \/ k \in DOMAIN outbox /\ outbox'[k] = outbox[k]
              \/ /\ k \in Len(outbox) + 1 .. Len(outbox) + Len(answer) /\ outbox'[k].to = to
                 /\ outbox'[k].last <=> k = Len(outbox) + Len(answer)
                 /\ DOMAIN outbox' = 1 .. Len(outbox) + Len(answer)
  <2>1. CASE outbox' = outbox
    BY <2>1
  <2>2. CASE outbox' = outbox \o answer
    <3>1. /\ DOMAIN outbox' = 1 .. Len(outbox) + Len(answer)
          /\ \A i \in 1 .. Len(outbox) : outbox'[i] = outbox[i]
          /\ \A i \in Len(outbox) + 1 .. Len(outbox) + Len(answer) : outbox'[i] = answer[i - Len(outbox)]
      BY <1>11, <1>12, <2>2, ConcatElements
    <3>2. CASE k \in 1 .. Len(outbox)
      BY <1>12, <3>1, <3>2
    <3>3. CASE k \in Len(outbox) + 1 .. Len(outbox) + Len(answer)
      <4>1. k - Len(outbox) \in DOMAIN answer /\ outbox'[k] = answer[k - Len(outbox)]
        BY <1>11, <1>12, <3>1, <3>3
      <4>2. Len(answer) \in Nat /\ Len(outbox) \in Nat /\ k \in Int
        BY <1>11, <1>12, <3>3
      <4>3. k - Len(outbox) = Len(answer) <=> k = Len(outbox) + Len(answer)
        BY <4>2
      <4>4. outbox'[k].to = to /\ (outbox'[k].last <=> k - Len(outbox) = Len(answer))
        BY <1>11, <4>1
      <4> QED BY <3>1, <3>3, <4>3, <4>4
    <3>4. k \in 1 .. Len(outbox) \/ k \in Len(outbox) + 1 .. Len(outbox) + Len(answer)
      BY <1>11, <1>12, <3>1
    <3> QED BY <3>2, <3>3, <3>4
  <2> QED BY <1>10, <2>1, <2>2 DEF answer
<1>14. \A s, report : Has(s, report)' <=> Has(s, report)
  BY <1>1 DEF Has
<1>15. \A q : RepliedInFull(q)' <=> RepliedInFull(q)
  <2>1. AnyReply' = AnyReply
    BY DEF AnyReply
  <2> QED BY <1>14, <2>1 DEF RepliedInFull
<1>16. \A q \in Invocations : Replied(q)' => Replied(q) \/ (Whole(request) /\ q = sender)
  <2>1. AnyReply' = AnyReply
    BY DEF AnyReply
  <2> SUFFICES ASSUME NEW q \in Invocations, Replied(q)'
               PROVE  Replied(q) \/ (Whole(request) /\ q = sender)
    OBVIOUS
  <2>2. CASE \E k \in DOMAIN outbox' : outbox'[k].to = q
    BY <1>10, <1>13, <2>2 DEF Replied
  <2>3. CASE \E s \in Invocations, report \in AnyReply : Has(s, report)' /\ report.to = q
    BY <1>14, <2>3 DEF Replied
  <2> QED BY <2>1, <2>2, <2>3 DEF Replied
<1>17. mixed' = IF Whole(request) THEN mixed ELSE mixed \cup {inbox[k].from : k \in 1 .. end}
  <2>1. {request[k].from : k \in DOMAIN request} = {inbox[k].from : k \in 1 .. end}
    BY <1>4
  <2> QED BY <1>6a, <2>1 DEF CarryOut, Refuse, Misread
<1>18. HandleInv'
  BY <1>1 DEF HandleInv
<1>19. OrderInv'
  <2>1. ASSUME NEW k \in DOMAIN inbox'
        PROVE  inbox'[k].part <= RequestReports - owed'[inbox'[k].from]
    BY <1>1, <1>7 DEF OrderInv
  <2>2. ASSUME NEW j \in DOMAIN inbox', NEW k \in DOMAIN inbox', j < k,
               inbox'[j].from = inbox'[k].from
        PROVE  inbox'[j].part < inbox'[k].part
    <3>1. j + end < k + end
      BY <1>2, <1>3, <2>2
    <3> QED BY <1>7, <2>2, <3>1 DEF OrderInv
  <2> QED BY <2>1, <2>2 DEF OrderInv
<1>20. OnceInv'
  <2> SUFFICES ASSUME NEW q \in Invocations
               PROVE  /\ Replied(q)' => owed[q] = 0 /\ ~Waiting(q)' /\ q \notin mixed'
                      /\ q \in mixed' => /\ owed[q] < RequestReports
                                         /\ \A k \in DOMAIN inbox' : inbox'[k].from = q => inbox'[k].part > 1
    BY <1>1 DEF OnceInv
  <2>1. ASSUME Replied(q)' PROVE owed[q] = 0 /\ ~Waiting(q)' /\ q \notin mixed'
    <3>1. CASE Replied(q)
      <4>1. owed[q] = 0 /\ ~Waiting(q) /\ q \notin mixed
        BY <3>1 DEF OnceInv
      <4>2. \A k \in 1 .. end : inbox[k].from # q
        BY <1>2, <4>1 DEF Waiting
      <4> QED BY <1>8, <1>17, <4>1, <4>2
    <3>2. CASE Whole(request) /\ q = sender
      BY <1>9, <1>17, <3>2
    <3> QED BY <1>16, <2>1, <3>1, <3>2
  <2>2. ASSUME q \in mixed'
        PROVE  /\ owed[q] < RequestReports
               /\ \A k \in DOMAIN inbox' : inbox'[k].from = q => inbox'[k].part > 1
    <3>1. CASE q \in mixed
      BY <1>7, <3>1 DEF OnceInv
    <3>2. CASE \E j \in 1 .. end : inbox[j].from = q
      <4> PICK j \in 1 .. end : inbox[j].from = q
        BY <3>2
      <4>1. j \in DOMAIN inbox /\ inbox[j].part \in 1 .. RequestReports
        BY <1>2
      <4>2. owed[q] < RequestReports
        BY <4>1, WaitingSent DEF Waiting
      <4>3. ASSUME NEW k \in DOMAIN inbox', inbox'[k].from = q PROVE inbox'[k].part > 1
        <5>1. j < k + end
          BY <1>2, <1>3
        <5>2. inbox[j].part < inbox[k + end].part /\ inbox[k + end].part \in 1 .. RequestReports
          BY <1>2, <1>7, <4>1, <4>3, <5>1 DEF OrderInv
        <5> QED BY <1>7, <4>1, <5>2
      <4> QED BY <4>2, <4>3
    <3> QED BY <1>17, <2>2, <3>1, <3>2
  <2> QED BY <2>1, <2>2
<1>21. LastInv'
  <2> SUFFICES ASSUME NEW q \in Invocations
               PROVE  /\ RepliedInFull(q)' => \A k \in DOMAIN outbox' : outbox'[k].to # q
                      /\ \A j, k \in DOMAIN outbox' :
                           j < k /\ outbox'[j].to = q /\ outbox'[k].to = q => ~outbox'[j].last
    BY DEF LastInv
  <2>1. q = to => ~Replied(q) /\ ~RepliedInFull(q) /\ \A k \in DOMAIN outbox : outbox[k].to # q
    BY <1>9, <1>10 DEF Replied, RepliedInFull
  <2>2. ASSUME RepliedInFull(q)', NEW k \in DOMAIN outbox' PROVE outbox'[k].to # q
    BY <1>13, <1>15, <2>1, <2>2 DEF LastInv
  <2>3. ASSUME NEW j \in DOMAIN outbox', NEW k \in DOMAIN outbox', j < k,
               outbox'[j].to = q, outbox'[k].to = q
        PROVE  ~outbox'[j].last
    <3>1. CASE q = to
      <4>1. /\ j \in Len(outbox) + 1 .. Len(outbox) + Len(answer)
            /\ k \in Len(outbox) + 1 .. Len(outbox) + Len(answer)
            /\ outbox'[j].last <=> j = Len(outbox) + Len(answer)
        BY <1>13, <2>1, <2>3, <3>1
      <4> QED BY <1>11, <1>12, <2>3, <4>1
    <3>2. CASE q # to
      <4>1. /\ j \in DOMAIN outbox /\ outbox'[j] = outbox[j]
            /\ k \in DOMAIN outbox /\ outbox'[k] = outbox[k]
        BY <1>13, <2>3, <3>2
      <4> QED BY <2>3, <4>1 DEF LastInv
    <3> QED BY <3>1, <3>2
  <2> QED BY <2>2, <2>3
<1>22. LeftInv'
  <2>1. ASSUME NEW k \in DOMAIN inbox
        PROVE  handle[inbox[k].from] = "open" \/ inbox[k].from \in unsettled
    BY DEF LeftInv
  <2>2. ASSUME NEW k \in DOMAIN inbox'
        PROVE  handle[inbox'[k].from] = "open" \/ inbox'[k].from \in unsettled
    BY <1>7, <2>1
  <2>3. ASSUME NEW q \in mixed'
        PROVE  handle[q] = "open" \/ q \in unsettled
    <3>1. CASE q \in mixed
      BY <3>1 DEF LeftInv
    <3>2. CASE \E k \in 1 .. end : inbox[k].from = q
      BY <1>2, <2>1, <3>2
    <3> QED BY <1>17, <3>1, <3>2
  <2>4. ASSUME NEW k \in DOMAIN outbox'
        PROVE  IF outbox'[k].to = Nobody
                 THEN mixed' # {}
                 ELSE handle[outbox'[k].to] = "open" \/ outbox'[k].to \in unsettled
    <3>1. CASE k \in DOMAIN outbox /\ outbox'[k] = outbox[k]
      BY <1>17, <3>1 DEF LeftInv
    <3>2. CASE outbox'[k].to = to /\ Whole(request)
      <4>1. outbox'[k].to = sender /\ sender # Nobody
        BY <1>6, <1>10, <3>2
      <4> QED BY <1>6, <2>1, <4>1
    <3>3. CASE outbox'[k].to = to /\ ~Whole(request)
      <4>1. outbox'[k].to = Nobody
        BY <1>10, <3>3
      <4>2. inbox[1].from \in mixed'
        BY <1>2, <1>17, <3>3
      <4> QED BY <4>1, <4>2
    <3> QED BY <1>13, <3>1, <3>2, <3>3
  <2> QED BY <1>1, <2>2, <2>3, <2>4 DEF LeftInv
\* Who is not suspect and in the inbox is there from its first part on.
<1>23. ASSUME NEW q \in Invocations, q \notin suspect, Waiting(q), owed[q] = 0
       PROVE  Whole(request) /\ q = sender
  <2>1. RequestReports \in DOMAIN inbox /\ \A k \in 1 .. RequestReports : inbox[k] = [from |-> q, part |-> k]
    BY <1>2, <1>23 DEF FirstInv
  <2>0. ASSUME NEW k \in 1 .. RequestReports PROVE inbox[k].from = q /\ inbox[k].part = k
    <3>1. inbox[k] = [from |-> q, part |-> k]
      BY <2>1
    <3> QED BY <3>1
  <2>2. end = RequestReports
    <3>1. ~(end < RequestReports)
      <4> SUFFICES ASSUME end < RequestReports PROVE FALSE
        OBVIOUS
      <4>1. end \in 1 .. RequestReports
        BY <1>2
      <4>2. inbox[end].part = end
        BY <2>0, <4>1
      <4> QED BY <1>5, <4>2
    <3>2. ~(RequestReports < end)
      <4> SUFFICES ASSUME RequestReports < end PROVE FALSE
        OBVIOUS
      <4>1. RequestReports \in 1 .. end - 1 /\ RequestReports \in 1 .. RequestReports
        BY <1>2
      <4>2. inbox[RequestReports].part = RequestReports
        BY <2>0, <4>1
      <4> QED BY <1>5, <4>1, <4>2
    <3> QED BY <1>2, <3>1, <3>2
  <2>3. sender = q
    BY <1>6, <2>0
  <2>4. ASSUME NEW k \in DOMAIN request PROVE request[k] = [from |-> request[1].from, part |-> k]
    BY <1>4, <1>6, <2>1, <2>2, <2>3
  <2> QED BY <1>4, <2>2, <2>3, <2>4 DEF Whole
<1>24. ASSUME NEW q \in Invocations, handle[q] = "open", q \notin suspect
       PROVE  /\ Whole(request) /\ q = sender /\ owed[q] = 0 /\ inbox' = <<>>
  <2>1. /\ \A k \in DOMAIN inbox : inbox[k] = [from |-> q, part |-> k]
        /\ Len(inbox) = RequestReports - owed[q] \/ (inbox = <<>> /\ owed[q] = 0)
    BY <1>24 DEF AloneInv
  <2>2. end = RequestReports
    BY <1>2, <1>5, <2>1
  <2>3. Waiting(q) /\ owed[q] \in 0 .. RequestReports
    BY <1>2, <2>1, Types DEF Waiting
  <2>4. Len(inbox) = RequestReports /\ owed[q] = 0
    BY <1>2, <2>1, <2>2, <2>3
  <2>5. inbox' = <<>>
    <3>1. inbox' \in Seq(Requests) /\ Len(inbox') = 0
      <4>1. inbox \in Seq(Requests)
        BY DEF IInv, Truthful
      <4> QED BY <1>2, <1>3, <2>2, <2>4, <4>1, RestElements
    <3> QED BY <3>1
  <2> QED BY <1>23, <1>24, <2>3, <2>4, <2>5
<1>25. AloneInv'
  <2> SUFFICES ASSUME NEW q \in Invocations, handle[q] = "open", q \notin suspect
               PROVE  /\ Opened' = {q}
                      /\ \A k \in DOMAIN inbox' : inbox'[k] = [from |-> q, part |-> k]
                      /\ Len(inbox') = RequestReports - owed[q] \/ (inbox' = <<>> /\ owed[q] = 0)
                      /\ \A k \in DOMAIN outbox' : outbox'[k].to = q
                      /\ \A k \in DOMAIN queue[q] : queue[q][k].to = q
    BY <1>1 DEF AloneInv
  <2>1. Whole(request) /\ q = sender /\ owed[q] = 0 /\ inbox' = <<>>
    BY <1>24
  <2>2. /\ Opened = {q} /\ \A k \in DOMAIN outbox : outbox[k].to = q
        /\ \A k \in DOMAIN queue[q] : queue[q][k].to = q
    BY DEF AloneInv
  <2>3. Opened' = Opened
    BY <1>1 DEF Opened
  <2>4. \A k \in DOMAIN outbox' : outbox'[k].to = q
    BY <1>10, <1>13, <2>1, <2>2
  <2> QED BY <2>1, <2>2, <2>3, <2>4
<1>26. FirstInv'
  <2> SUFFICES ASSUME NEW q \in Invocations, q \notin suspect, Waiting(q)'
               PROVE  FALSE
    BY <1>1 DEF FirstInv
  <2>1. Waiting(q)
    BY <1>8
  <2>2. CASE owed[q] = 0
    BY <1>9, <1>23, <2>1, <2>2
  <2>3. CASE owed[q] # 0
    <3>1. /\ RequestReports - owed[q] \in 1 .. Len(inbox) /\ owed[q] \in 1 .. RequestReports
          /\ \A k \in 1 .. RequestReports - owed[q] : inbox[k].from = q /\ inbox[k].part = k
      <4>1. owed[q] \in 0 .. RequestReports /\ owed[q] < RequestReports
        BY <2>1, WaitingSent, Types
      <4>2. /\ RequestReports - owed[q] <= Len(inbox)
            /\ \A k \in 1 .. RequestReports - owed[q] : inbox[k] = [from |-> q, part |-> k]
        BY <2>1 DEF FirstInv
      <4>3. ASSUME NEW k \in 1 .. RequestReports - owed[q]
            PROVE  inbox[k].from = q /\ inbox[k].part = k
        <5>1. inbox[k] = [from |-> q, part |-> k]
          BY <4>2
        <5> QED BY <5>1
      <4>4. RequestReports - owed[q] \in 1 .. Len(inbox) /\ owed[q] \in 1 .. RequestReports
        BY <1>2, <2>3, <4>1, <4>2
      <4> QED BY <4>3, <4>4
    <3> DEFINE n == RequestReports - owed[q]
    <3>1a. inbox[n].from = q /\ inbox[n].part = n /\ n \in DOMAIN inbox
      BY <1>2, <3>1
    <3>2. n < end
      <4> SUFFICES ASSUME end <= n PROVE FALSE
        BY <1>2, <3>1
      <4>1. end \in 1 .. n
        BY <1>2, <3>1
      <4>2. inbox[end].part = end
        BY <3>1, <4>1
      <4> QED BY <1>2, <1>5, <3>1, <4>2
    <3> PICK k \in DOMAIN inbox' : inbox'[k].from = q
      BY DEF Waiting
    <3>3. inbox[RequestReports - owed[q]].part < inbox[k + end].part
      <4>1. RequestReports - owed[q] < k + end
        BY <1>2, <1>3, <3>1, <3>2
      <4>2. inbox[k + end].from = q
        BY <1>7
      <4> QED BY <1>7, <3>1a, <4>1, <4>2 DEF OrderInv
    <3>4. inbox[k + end].part <= RequestReports - owed[q] /\ inbox[k + end].part \in Int
      BY <1>2, <1>7 DEF OrderInv
    <3> QED BY <3>1, <3>3, <3>4, <3>1a
  <2> QED BY <2>2, <2>3
<1>27. ReadInv'
  <2>1. done \subseteq done'
    BY <1>6a DEF CarryOut, Refuse, Misread
  <2> QED BY <1>1, <2>1 DEF ReadInv
<1>28. UndisturbedIsUnderstood'
  <2> SUFFICES ASSUME NEW q \in mixed', q \notin suspect
               PROVE  q \in unsettled /\ owed[q] > 0
    BY <1>1 DEF UndisturbedIsUnderstood
  <2>1. CASE q \in mixed
    BY <2>1 DEF UndisturbedIsUnderstood
  <2>2. CASE q \notin mixed
    <3>1. ~Whole(request) /\ q \in Invocations /\ Waiting(q)
      BY <1>2, <1>17, <2>2 DEF Waiting
    <3>2. owed[q] # 0 /\ owed[q] \in 0 .. RequestReports
      BY <1>23, <3>1, Types
    <3>3. handle[q] # "open"
      BY <1>24, <3>1
    <3>4. q \in unsettled
      BY <3>1, <3>3 DEF LeftInv, Waiting
    <3> QED BY <3>2, <3>4
  <2> QED BY <2>1, <2>2
<1> QED BY <1>18, <1>19, <1>20, <1>21, <1>22, <1>25, <1>26, <1>27, <1>28, UnderstandInv

-----------------------------------------------------------------------------
(* The theorems. *)

LEMMA OwnInvariance == Spec => []OwnInv
<1>1. OwnInv /\ [Next]_vars => OwnInv'
  <2> SUFFICES ASSUME OwnInv, [Next]_vars PROVE OwnInv'
    OBVIOUS
  <2>1. ASSUME NEW p \in Invocations, Open(p) \/ Run(p) PROVE OwnInv'
    BY <2>1, OpenOwn, WriteReportOwn, ListenOwn, ReadReportOwn, FinishOwn DEF Run
  <2>2. CASE Understand \/ SendReport
    BY <2>2, UnderstandOwn, SendReportOwn
  <2>3. CASE UNCHANGED vars
    <3>1. UNCHANGED <<sets, handle, calls, queue, taken, code, inverter, ghosts>>
      BY <2>3 DEF vars
    <3>2. IInv'
      BY <3>1 DEF OwnInv, IInv, TypeOK, Truthful, Requests, Replies, ZeroMeansCarriedOut
    <3>3. \A q : (Replied(q)' <=> Replied(q)) /\ (RepliedInFull(q)' <=> RepliedInFull(q))
      BY <3>1, SameHeld
    <3>4. HandleInv' /\ OrderInv' /\ OnceInv' /\ LastInv' /\ LeftInv'
      BY <3>1, <3>3 DEF OwnInv, HandleInv, OrderInv, OnceInv, LastInv, LeftInv, Waiting
    <3>1a. AloneInv' /\ FirstInv' /\ ReadInv' /\ UndisturbedIsUnderstood'
      BY <3>1 DEF OwnInv, AloneInv, FirstInv, ReadInv, UndisturbedIsUnderstood, Waiting, Opened
    <3> QED BY <3>2, <3>4, <3>1a DEF OwnInv
  <2> QED BY <2>1, <2>2, <2>3 DEF Next, Idle
<1> QED BY OwnInitInv, <1>1, PTL DEF Spec

\* Exit code 0 of an invocation that shared the device with nobody, and came
\* after none that left without its answer, means that its own request was
\* carried out and all it read was the reply to it.
THEOREM ReplyIsOwn == Spec => []OwnReply
<1>1. OwnInv => OwnReply
  BY DEF OwnInv, ReadInv, OwnReply
<1> QED BY OwnInvariance, <1>1, PTL

\* The inverter gets no garbled request but of invocations that disturbed each
\* other or were interrupted while they sent.
THEOREM RequestsAreUnderstood == Spec => []UndisturbedIsUnderstood
  BY OwnInvariance, PTL DEF OwnInv

-----------------------------------------------------------------------------
(* Every invocation's call of the library is one of the contract DevCall,   *)
(* whatever the others do.  What has to be shown is that no more reports    *)
(* reach an invocation than the contract has room for: each request is      *)
(* answered once.                                                           *)

\* The invocations whose request the inverter may still have to answer: not all
\* of it was sent, or its end is in the inbox.
Pending ==
  {p \in Invocations :
     owed[p] > 0 \/ \E k \in DOMAIN inbox : inbox[k].from = p /\ EndsRequest(k)}

\* The reports there may be, if each of the others was answered with data.
Answers == ReplyReports * (Cardinality(Invocations) - Cardinality(Pending))

\* What is on its way to p or has arrived is among them.
CountInv ==
  \A p \in Invocations : Len(outbox) + Len(queue[p]) + Len(taken[p]) <= Answers

-----------------------------------------------------------------------------
(* Counting. *)

LEMMA PendingFinite ==
  ASSUME IsFiniteSet(Invocations)
  PROVE  /\ IsFiniteSet(Pending)
         /\ Cardinality(Invocations) \in Nat /\ Cardinality(Pending) \in Nat
         /\ Cardinality(Pending) <= Cardinality(Invocations)
         /\ Answers \in Nat
         /\ Answers <= ReplyReports * Cardinality(Invocations)
<1>1. Pending \in SUBSET Invocations
  BY DEF Pending
<1>2. IsFiniteSet(Pending) /\ Cardinality(Pending) <= Cardinality(Invocations)
  BY <1>1, FS_Subset
<1>3. Cardinality(Invocations) \in Nat /\ Cardinality(Pending) \in Nat
  BY <1>2, FS_CardinalityType
<1> QED BY <1>2, <1>3 DEF Answers

\* Nobody has to be answered again: there may be as many reports as before.
LEMMA AnswersKept ==
  ASSUME IsFiniteSet(Invocations), Pending' \subseteq Pending
  PROVE  Answers \in Nat /\ Answers' \in Nat /\ Answers <= Answers'
<1>1. /\ IsFiniteSet(Pending) /\ Answers \in Nat
      /\ Cardinality(Invocations) \in Nat /\ Cardinality(Pending) \in Nat
      /\ Cardinality(Pending) <= Cardinality(Invocations)
  BY PendingFinite
<1>2. IsFiniteSet(Pending') /\ Cardinality(Pending') <= Cardinality(Pending)
  BY <1>1, FS_Subset
<1>3. Cardinality(Pending') \in Nat
  BY <1>2, FS_CardinalityType
<1> HIDE DEF Pending
<1>4. Answers' = ReplyReports * (Cardinality(Invocations) - Cardinality(Pending'))
  BY DEF Answers
<1> DEFINE before == Cardinality(Invocations) - Cardinality(Pending)
           after  == Cardinality(Invocations) - Cardinality(Pending')
<1>5. before \in Nat /\ after \in Nat /\ before <= after
  BY <1>1, <1>2, <1>3
<1>6. Answers = ReplyReports * before /\ Answers' = ReplyReports * after
  BY <1>4 DEF Answers
<1> HIDE DEF before, after
<1> QED BY <1>5, <1>6

\* Somebody was answered: there may be the reports of one more reply.
LEMMA AnswersGrow ==
  ASSUME IsFiniteSet(Invocations), NEW p \in Pending, Pending' \subseteq Pending \ {p}
  PROVE  Answers \in Nat /\ Answers' \in Nat /\ Answers + ReplyReports <= Answers'
<1>1. /\ IsFiniteSet(Pending) /\ Answers \in Nat
      /\ Cardinality(Invocations) \in Nat /\ Cardinality(Pending) \in Nat
      /\ Cardinality(Pending) <= Cardinality(Invocations)
  BY PendingFinite
<1>2. IsFiniteSet(Pending \ {p}) /\ Cardinality(Pending \ {p}) = Cardinality(Pending) - 1
  BY <1>1, FS_RemoveElement
<1>3. IsFiniteSet(Pending') /\ Cardinality(Pending') <= Cardinality(Pending) - 1
  BY <1>2, FS_Subset
<1>4. Cardinality(Pending') \in Nat
  BY <1>3, FS_CardinalityType
<1> DEFINE before == Cardinality(Invocations) - Cardinality(Pending)
           after  == Cardinality(Invocations) - Cardinality(Pending')
<1>5. before \in Nat /\ after \in Nat /\ before + 1 <= after
  BY <1>1, <1>3, <1>4
<1>6. Answers = ReplyReports * before /\ Answers' = ReplyReports * after
  BY DEF Answers
<1> HIDE DEF before, after
<1>7. ReplyReports * (before + 1) <= ReplyReports * after
  BY <1>5
<1>8. ReplyReports * (before + 1) = ReplyReports * before + ReplyReports
  BY <1>5
<1> QED BY <1>1, <1>5, <1>6, <1>7, <1>8

LEMMA InitCount ==
  ASSUME IsFiniteSet(Invocations), Init
  PROVE  CountInv
<1>1. Pending = Invocations
  BY DEF Init, Pending
<1>2. Cardinality(Invocations) \in Nat
  BY FS_CardinalityType
<1>3. Answers = 0
  BY <1>1, <1>2 DEF Answers
<1> SUFFICES ASSUME NEW p \in Invocations
             PROVE  Len(outbox) + Len(queue[p]) + Len(taken[p]) <= Answers
  BY DEF CountInv
<1>4. Len(outbox) = 0 /\ Len(queue[p]) = 0 /\ Len(taken[p]) = 0
  BY DEF Init
<1> DEFINE out == Len(outbox)  unread == Len(queue[p])  read == Len(taken[p])
<1>5. out = 0 /\ unread = 0 /\ read = 0
  BY <1>4
<1> HIDE DEF out, unread, read
<1>6. out + unread + read <= Answers
  BY <1>3, <1>5
<1> QED BY <1>6 DEF out, unread, read

\* The lengths, as numbers.
LEMMA Lengths ==
  ASSUME IInv
  PROVE  /\ Len(outbox) \in Nat
         /\ \A p \in Invocations : Len(queue[p]) \in Nat /\ Len(taken[p]) \in Nat
<1>1. \A p \in Invocations : queue[p] \in Seq(AnyReply) /\ taken[p] \in Seq(AnyReply)
  BY Types
<1>2. Len(outbox) \in Nat
  BY Types
<1> QED BY <1>1, <1>2

\* A step that brings no report anywhere.
LEMMA QuietCount ==
  ASSUME IsFiniteSet(Invocations), OwnInv, CountInv, OwnInv',
         Pending' \subseteq Pending, outbox' = outbox,
         \A p \in Invocations : Len(queue'[p]) + Len(taken'[p]) <= Len(queue[p]) + Len(taken[p])
  PROVE  CountInv'
<1>1. Answers \in Nat /\ Answers' \in Nat /\ Answers <= Answers'
  BY AnswersKept
<1> SUFFICES ASSUME NEW p \in Invocations
             PROVE  Len(outbox') + Len(queue'[p]) + Len(taken'[p]) <= Answers'
  BY DEF CountInv
<1>2. Len(outbox) + Len(queue[p]) + Len(taken[p]) <= Answers
  BY DEF CountInv
<1>3. /\ Len(outbox) \in Nat /\ Len(queue[p]) \in Nat /\ Len(taken[p]) \in Nat
      /\ Len(queue'[p]) \in Nat /\ Len(taken'[p]) \in Nat
  BY Lengths DEF OwnInv
<1>4. Len(queue'[p]) + Len(taken'[p]) <= Len(queue[p]) + Len(taken[p])
  OBVIOUS
<1> DEFINE out == Len(outbox)    unread == Len(queue[p])    read == Len(taken[p])
           out1 == Len(outbox')  unread1 == Len(queue'[p])  read1 == Len(taken'[p])
<1>5. /\ out + unread + read <= Answers /\ unread1 + read1 <= unread + read /\ out1 = out
      /\ out \in Nat /\ unread \in Nat /\ read \in Nat /\ unread1 \in Nat /\ read1 \in Nat
  BY <1>2, <1>3, <1>4
<1> HIDE DEF out, unread, read, out1, unread1, read1
<1>6. out1 + unread1 + read1 <= Answers'
  BY <1>1, <1>5
<1> QED BY <1>6 DEF out1, unread1, read1

\* An invocation that goes on sending was pending before.
LEMMA WriteReportPending ==
  ASSUME OwnInv, NEW p \in Invocations, WriteReport(p)
  PROVE  Pending' \subseteq Pending
<1>1. /\ owed[p] > 0 /\ \A q \in Invocations : q # p => owed'[q] = owed[q]
      /\ inbox' = Append(inbox, [from |-> p, part |-> NextPart(p)])
  BY DEF WriteReport, OwnInv, IInv, TypeOK
<1>2. inbox \in Seq(Requests) /\ [from |-> p, part |-> NextPart(p)] \in Requests
  BY DEF WriteReport, NextPart, Requests, OwnInv, IInv, TypeOK, Truthful
<1>3. /\ DOMAIN inbox = 1 .. Len(inbox) /\ DOMAIN inbox' = 1 .. Len(inbox) + 1
      /\ \A k \in 1 .. Len(inbox) : inbox'[k] = inbox[k]
      /\ inbox'[Len(inbox) + 1].from = p /\ Len(inbox) \in Nat
  BY <1>1, <1>2, AppendElements
<1> SUFFICES ASSUME NEW q \in Pending', q # p PROVE q \in Pending
  BY <1>1 DEF Pending
<1>4. CASE owed'[q] > 0
  BY <1>1, <1>4 DEF Pending
<1>5. CASE \E k \in DOMAIN inbox' : inbox'[k].from = q /\ inbox'[k].part = RequestReports
  BY <1>3, <1>5 DEF Pending, EndsRequest
<1> QED BY <1>4, <1>5 DEF Pending, EndsRequest

\* A report that is read leaves the queue.
LEMMA RunCount ==
  ASSUME IsFiniteSet(Invocations), OwnInv, OwnInv', CountInv,
         NEW p \in Invocations, Open(p) \/ Run(p)
  PROVE  CountInv'
<1>0. IInv
  BY DEF OwnInv
<1>1. CASE Open(p) \/ Listen(p) \/ GiveUp(p)
  <2>1. UNCHANGED <<owed, inbox, outbox, queue, taken>>
    BY <1>1 DEF Open, Listen, GiveUp
  <2>2. Pending' = Pending
    BY <2>1 DEF Pending, EndsRequest
  <2>3. \A q \in Invocations : Len(queue'[q]) + Len(taken'[q]) <= Len(queue[q]) + Len(taken[q])
    BY <2>1, <1>0, Lengths
  <2> QED BY <2>1, <2>2, <2>3, QuietCount
<1>2. CASE WriteReport(p)
  <2>1. UNCHANGED <<outbox, queue, taken>>
    BY <1>2 DEF WriteReport
  <2>2. \A q \in Invocations : Len(queue'[q]) + Len(taken'[q]) <= Len(queue[q]) + Len(taken[q])
    BY <2>1, <1>0, Lengths
  <2> QED BY <1>2, <2>1, <2>2, WriteReportPending, QuietCount
<1>3. CASE ReadReport(p)
  <2>1. /\ UNCHANGED <<owed, inbox, outbox>> /\ queue[p] # <<>>
        /\ queue' = [queue EXCEPT ![p] = Tail(@)]
        /\ taken' = [taken EXCEPT ![p] = Append(@, Head(queue[p]))]
    BY <1>3 DEF ReadReport
  <2>2. Pending' = Pending
    BY <2>1 DEF Pending, EndsRequest
  <2>3. /\ queue[p] \in Seq(AnyReply) /\ taken[p] \in Seq(AnyReply)
        /\ queue \in [Invocations -> Seq(AnyReply)] /\ taken \in [Invocations -> Seq(AnyReply)]
    BY <1>0, Types
  <2>4. Len(Tail(queue[p])) = Len(queue[p]) - 1 /\ Head(queue[p]) \in AnyReply
    BY <2>1, <2>3, HeadTailProperties
  <2>5. Len(Append(taken[p], Head(queue[p]))) = Len(taken[p]) + 1
    BY <2>3, <2>4, AppendProperties
  <2>6. ASSUME NEW q \in Invocations
        PROVE  Len(queue'[q]) + Len(taken'[q]) <= Len(queue[q]) + Len(taken[q])
    <3>1. CASE q = p
      BY <1>0, <2>1, <2>3, <2>4, <2>5, <3>1, Lengths
    <3>2. CASE q # p
      BY <1>0, <2>1, <2>3, <3>2, Lengths
    <3> QED BY <3>1, <3>2
  <2> QED BY <2>1, <2>2, <2>6, QuietCount
<1>4. CASE Finish(p)
  <2>1. UNCHANGED <<owed, inbox, outbox, taken>> /\ queue' = [queue EXCEPT ![p] = <<>>]
    BY <1>4 DEF Finish, Leave
  <2>2. Pending' = Pending
    BY <2>1 DEF Pending, EndsRequest
  <2>3. queue \in [Invocations -> Seq(AnyReply)]
    BY <1>0, Types
  <2>4. ASSUME NEW q \in Invocations
        PROVE  Len(queue'[q]) + Len(taken'[q]) <= Len(queue[q]) + Len(taken[q])
    <3>1. CASE q = p
      BY <1>0, <2>1, <2>3, <3>1, Lengths
    <3>2. CASE q # p
      BY <1>0, <2>1, <2>3, <3>2, Lengths
    <3> QED BY <3>1, <3>2
  <2> QED BY <2>1, <2>2, <2>4, QuietCount
<1> QED BY <1>1, <1>2, <1>3, <1>4 DEF Run

\* A report leaves the outbox and arrives in every queue once.
LEMMA SendReportCount ==
  ASSUME IsFiniteSet(Invocations), OwnInv, CountInv, SendReport
  PROVE  CountInv'
<1>0. IInv
  BY DEF OwnInv
<1>1. /\ UNCHANGED <<owed, inbox, taken>> /\ outbox # <<>> /\ outbox' = Tail(outbox)
      /\ queue' = [q \in Invocations |->
                     IF q \in Opened THEN Append(queue[q], Head(outbox)) ELSE queue[q]]
  BY DEF SendReport
<1>2. Pending' = Pending
  BY <1>1 DEF Pending, EndsRequest
<1>3. Answers \in Nat /\ Answers' \in Nat /\ Answers <= Answers'
  BY <1>2, AnswersKept
<1>4. outbox \in Seq(AnyReply) /\ \A q \in Invocations : queue[q] \in Seq(AnyReply)
  BY <1>0, Types
<1>5. Len(Tail(outbox)) = Len(outbox) - 1 /\ Head(outbox) \in AnyReply
  BY <1>1, <1>4, HeadTailProperties
<1> SUFFICES ASSUME NEW p \in Invocations
             PROVE  Len(outbox') + Len(queue'[p]) + Len(taken'[p]) <= Answers'
  BY DEF CountInv
<1>6. Len(Append(queue[p], Head(outbox))) = Len(queue[p]) + 1
  BY <1>4, <1>5, AppendProperties
<1>7. /\ Len(queue'[p]) \in {Len(queue[p]), Len(queue[p]) + 1}
      /\ Len(outbox') = Len(outbox) - 1 /\ Len(taken'[p]) = Len(taken[p])
  BY <1>1, <1>5, <1>6
<1>8. Len(outbox) + Len(queue[p]) + Len(taken[p]) <= Answers
  BY DEF CountInv
<1> DEFINE out == Len(outbox)    unread == Len(queue[p])    read == Len(taken[p])
           out1 == Len(outbox')  unread1 == Len(queue'[p])  read1 == Len(taken'[p])
<1>9. /\ out + unread + read <= Answers
      /\ unread1 \in {unread, unread + 1} /\ out1 = out - 1 /\ read1 = read
      /\ out \in Nat /\ unread \in Nat /\ read \in Nat
  BY <1>0, <1>7, <1>8, Lengths
<1> HIDE DEF out, unread, read, out1, unread1, read1
<1>10. out1 + unread1 + read1 <= Answers'
  BY <1>3, <1>9
<1> QED BY <1>10 DEF out1, unread1, read1

\* A reply has at most the reports of one with data.
LEMMA ReplyLength ==
  ASSUME NEW to, NEW begins
  PROVE  Len(ReplyTo(to, begins)) \in Nat /\ Len(ReplyTo(to, begins)) <= ReplyReports
         /\ ReplyTo(to, begins) \in Seq([to : {to}, begins : {begins}, part : Nat, last : BOOLEAN])
<1> DEFINE n == IF begins = "data" THEN ReplyReports ELSE 1
           reports == [to : {to}, begins : {begins}, part : Nat, last : BOOLEAN]
<1>1. n \in Nat /\ n <= ReplyReports
  OBVIOUS
<1>2. ReplyTo(to, begins) \in [1 .. n -> reports]
  BY <1>1 DEF ReplyTo
<1>3. DOMAIN ReplyTo(to, begins) = 1 .. n
  BY DEF ReplyTo
<1> HIDE DEF n, reports
<1>4. ReplyTo(to, begins) \in Seq(reports) /\ Len(ReplyTo(to, begins)) = n
  BY <1>1, <1>2, <1>3
<1> QED BY <1>1, <1>4 DEF reports

\* Whoever sent the end of a request is answered, or not, but not again.
LEMMA UnderstandCount ==
  ASSUME IsFiniteSet(Invocations), OwnInv, OwnInv', CountInv, Understand
  PROVE  CountInv'
<1>0. IInv /\ OrderInv
  BY DEF OwnInv
<1>1. PICK end \in DOMAIN inbox :
        /\ IsFirstEnd(end)
        /\ inbox' = SubSeq(inbox, end + 1, Len(inbox))
        /\ IF Whole(SubSeq(inbox, 1, end))
             THEN CarryOut(SubSeq(inbox, 1, end)[1].from) \/ Refuse(SubSeq(inbox, 1, end)[1].from)
             ELSE Misread(SubSeq(inbox, 1, end))
  BY DEF Understand
<1>2. UNCHANGED <<owed, queue, taken>>
  BY DEF Understand
<1>3. /\ DOMAIN inbox = 1 .. Len(inbox) /\ Len(inbox) \in Nat /\ end \in 1 .. Len(inbox)
      /\ \A k \in DOMAIN inbox : inbox[k].from \in Invocations /\ inbox[k].part \in 1 .. RequestReports
  BY <1>0, Types
<1>4. /\ DOMAIN inbox' = 1 .. Len(inbox) - end
      /\ \A k \in 1 .. Len(inbox) - end : inbox'[k] = inbox[k + end]
  <2>1. inbox \in Seq(Requests)
    BY <1>0 DEF IInv, Truthful
  <2> QED BY <1>1, <1>3, <2>1, RestElements
<1>5. ASSUME NEW k \in DOMAIN inbox'
      PROVE  k + end \in DOMAIN inbox /\ inbox'[k] = inbox[k + end] /\ end < k + end
  BY <1>3, <1>4
<1> DEFINE p == inbox[end].from
<1>6. p \in Invocations /\ inbox[end].part = RequestReports
  BY <1>1, <1>3 DEF IsFirstEnd, EndsRequest
<1>7. p \in Pending
  BY <1>3, <1>6 DEF Pending, EndsRequest
<1>8. owed[p] = 0
  <2>1. RequestReports <= RequestReports - owed[p] /\ owed[p] \in 0 .. RequestReports
    BY <1>0, <1>3, <1>6, Types DEF OrderInv
  <2> QED BY <2>1
<1>9. ASSUME NEW k \in DOMAIN inbox', inbox'[k].from = p PROVE inbox'[k].part # RequestReports
  <2>1. inbox[end].part < inbox[k + end].part
    BY <1>0, <1>3, <1>5, <1>9 DEF OrderInv
  <2>2. inbox[k + end].part \in 1 .. RequestReports
    BY <1>3, <1>5
  <2> QED BY <1>5, <1>6, <2>1, <2>2
<1>10. Pending' \subseteq Pending \ {p}
  <2> HIDE DEF p
  <2>1. p \notin Pending'
    BY <1>2, <1>8, <1>9 DEF Pending, EndsRequest
  <2>2. ASSUME NEW q \in Pending' PROVE q \in Pending
    <3>1. CASE owed[q] > 0
      BY <2>2, <3>1 DEF Pending
    <3>2. CASE \E k \in DOMAIN inbox' : inbox'[k].from = q /\ inbox'[k].part = RequestReports
      BY <1>5, <2>2, <3>2 DEF Pending, EndsRequest
    <3> QED BY <1>2, <2>2, <3>1, <3>2 DEF Pending, EndsRequest
  <2> QED BY <2>1, <2>2
<1> HIDE DEF p
<1>11. Answers \in Nat /\ Answers' \in Nat /\ Answers + ReplyReports <= Answers'
  BY <1>7, <1>10, AnswersGrow
<1>12. PICK to, begins : outbox' \in {outbox, outbox \o ReplyTo(to, begins)}
  BY <1>1 DEF CarryOut, Refuse, Misread
<1>13. Len(outbox') \in Nat /\ Len(outbox') <= Len(outbox) + ReplyReports
  <2> DEFINE answer == ReplyTo(to, begins)
             reports == [to : {to}, begins : {begins}, part : Nat, last : BOOLEAN]
  <2>1. answer \in Seq(reports) /\ Len(answer) \in Nat /\ Len(answer) <= ReplyReports
    BY ReplyLength
  <2>2. outbox \in Seq(AnyReply) /\ Len(outbox) \in Nat
    BY <1>0, Types
  <2> HIDE DEF answer, reports
  <2>3. Len(outbox \o answer) = Len(outbox) + Len(answer)
    <3>1. outbox \in Seq(AnyReply \cup reports) /\ answer \in Seq(AnyReply \cup reports)
      BY <2>1, <2>2
    <3> QED BY <3>1, ConcatProperties
  <2>4. CASE outbox' = outbox
    BY <2>2, <2>4
  <2>5. CASE outbox' = outbox \o answer
    BY <2>1, <2>2, <2>3, <2>5
  <2> QED BY <1>12, <2>4, <2>5 DEF answer
<1> SUFFICES ASSUME NEW q \in Invocations
             PROVE  Len(outbox') + Len(queue'[q]) + Len(taken'[q]) <= Answers'
  BY DEF CountInv
<1>14. Len(outbox) + Len(queue[q]) + Len(taken[q]) <= Answers
  BY DEF CountInv
<1>15. Len(outbox) \in Nat /\ Len(queue[q]) \in Nat /\ Len(taken[q]) \in Nat
  BY <1>0, Lengths
<1> DEFINE out == Len(outbox)    unread == Len(queue[q])    read == Len(taken[q])
           out1 == Len(outbox')  unread1 == Len(queue'[q])  read1 == Len(taken'[q])
<1>16. /\ out + unread + read <= Answers
       /\ unread1 = unread /\ read1 = read /\ out1 \in Nat /\ out1 <= out + ReplyReports
       /\ out \in Nat /\ unread \in Nat /\ read \in Nat
  BY <1>2, <1>13, <1>14, <1>15
<1> HIDE DEF out, unread, read, out1, unread1, read1
<1>17. out1 + unread1 + read1 <= Answers'
  BY <1>11, <1>16
<1> QED BY <1>17 DEF out1, unread1, read1

LEMMA NextCount ==
  ASSUME IsFiniteSet(Invocations)
  PROVE  OwnInv /\ OwnInv' /\ CountInv /\ [Next]_vars => CountInv'
<1> SUFFICES ASSUME OwnInv, OwnInv', CountInv, [Next]_vars PROVE CountInv'
  OBVIOUS
<1>1. ASSUME NEW p \in Invocations, Open(p) \/ Run(p) PROVE CountInv'
  BY <1>1, RunCount
<1>2. CASE SendReport
  BY <1>2, SendReportCount
<1>3. CASE Understand
  BY <1>3, UnderstandCount
<1>4. CASE UNCHANGED vars
  <2>1. UNCHANGED <<owed, inbox, outbox, queue, taken>>
    BY <1>4 DEF vars
  <2> QED BY <2>1 DEF CountInv, Answers, Pending, EndsRequest
<1> QED BY <1>1, <1>2, <1>3, <1>4 DEF Next, Idle

LEMMA CountInvariance ==
  ASSUME IsFiniteSet(Invocations)
  PROVE  Spec => [](OwnInv /\ CountInv)
<1>1. Init => CountInv
  BY InitCount
<1>2. OwnInv /\ OwnInv' /\ CountInv /\ [Next]_vars => CountInv'
  BY NextCount
<1> QED BY OwnInvariance, <1>1, <1>2, PTL DEF Spec

-----------------------------------------------------------------------------
(* The calls, as the contract has them. *)

Limit == Cardinality(Invocations) * (ReplyReports + 1)

\* The contract has room for what an invocation has read and for what waits for it.
LEMMA Room ==
  ASSUME IsFiniteSet(Invocations), OwnInv, CountInv, NEW p \in Invocations
  PROVE  /\ Limit \in Nat /\ reply[p] \in Nat /\ Len(queue[p]) \in Nat
         /\ reply[p] + Len(queue[p]) <= Limit
<1>0. IInv
  BY DEF OwnInv
<1>1. /\ Cardinality(Invocations) \in Nat /\ Answers \in Nat
      /\ Answers <= ReplyReports * Cardinality(Invocations)
  BY PendingFinite
<1> DEFINE n == Cardinality(Invocations)
<1>2. n \in Nat /\ Answers <= ReplyReports * n
  BY <1>1
<1>3. Limit = n * (ReplyReports + 1)
  BY DEF Limit
<1> HIDE DEF n
<1>4. Limit = ReplyReports * n + n
  BY <1>2, <1>3
<1>5. Limit \in Nat /\ Answers <= Limit
  BY <1>1, <1>2, <1>4
<1> DEFINE out == Len(outbox)  unread == Len(queue[p])  read == Len(taken[p])
<1>6. out \in Nat /\ unread \in Nat /\ read \in Nat
  BY <1>0, Lengths
<1>7. out + unread + read <= Answers
  BY DEF CountInv
<1>8. reply[p] = read
  BY <1>0 DEF IInv, TypeOK
<1> HIDE DEF out, unread, read
<1>9. reply[p] \in Nat /\ unread \in Nat /\ reply[p] + unread <= Limit
  BY <1>1, <1>5, <1>6, <1>7, <1>8
<1> QED BY <1>5, <1>9 DEF unread

\* A step leaves the calls of the other invocations alone.
LEMMA OthersKept ==
  ASSUME OwnInv, NEW p \in Invocations, Run(p), NEW q \in Invocations, q # p
  PROVE  UNCHANGED Call(q)!vars
<1>1. /\ phase'[q] = phase[q] /\ owed'[q] = owed[q] /\ reply'[q] = reply[q]
  BY DEF Run, WriteReport, Listen, ReadReport, GiveUp, Finish, Leave, OwnInv, IInv, TypeOK
<1> QED BY <1>1 DEF Call!vars

\* What an invocation does is a step of its call, or none.
LEMMA RunIsCall ==
  ASSUME IsFiniteSet(Invocations), OwnInv, CountInv, NEW p \in Invocations, Run(p)
  PROVE  [Call(p)!Next]_(Call(p)!vars)
<1>1. /\ phase \in [Invocations -> {"sending", "awaiting", "answered", "failed"}]
      /\ owed \in [Invocations -> 0 .. RequestReports] /\ reply \in [Invocations -> Nat]
  BY DEF OwnInv, IInv, TypeOK
<1>2. /\ Limit \in Nat /\ reply[p] \in Nat /\ Len(queue[p]) \in Nat
      /\ reply[p] + Len(queue[p]) <= Limit
  BY Room
<1>3. CASE WriteReport(p)
  <2>1. /\ phase[p] = "sending" /\ owed[p] > 0 /\ owed'[p] = owed[p] - 1
        /\ phase'[p] = phase[p] /\ reply'[p] = reply[p]
    BY <1>1, <1>3 DEF WriteReport
  <2>2. owed'[p] \in 0 .. owed[p] - 1
    BY <1>1, <2>1
  <2> QED BY <2>1, <2>2 DEF Call!Next, Call!Send
<1>4. CASE Listen(p)
  BY <1>1, <1>4 DEF Listen, AllWritten, Call!Next, Call!Listen
<1>5. CASE ReadReport(p)
  <2>1. /\ phase[p] = "awaiting" /\ owed'[p] = owed[p] /\ reply'[p] = reply[p] + 1
        /\ phase'[p] \in {phase[p], "answered"} /\ queue[p] # <<>>
    BY <1>1, <1>5 DEF ReadReport
  <2>2. queue[p] \in Seq(AnyReply)
    BY Types DEF OwnInv
  <2>3. Len(queue[p]) # 0
    BY <2>1, <2>2
  <2> DEFINE unread == Len(queue[p])
  <2>4. unread \in Nat /\ unread # 0 /\ reply[p] + unread <= Limit
    BY <1>2, <2>3
  <2> HIDE DEF unread
  <2>5. reply'[p] \in reply[p] + 1 .. Limit
    BY <1>2, <2>1, <2>4
  <2> QED BY <2>1, <2>5 DEF Limit, Call!Next, Call!Receive, Call!Answer
<1>6. CASE GiveUp(p)
  <2>1. /\ phase[p] \in {"sending", "awaiting"} /\ phase'[p] = "failed"
        /\ owed'[p] = owed[p] /\ reply'[p] = reply[p]
    BY <1>1, <1>6 DEF GiveUp
  <2> DEFINE unread == Len(queue[p])
  <2>2. unread \in Nat /\ reply[p] + unread <= Limit
    BY <1>2
  <2> HIDE DEF unread
  <2>3. reply'[p] \in reply[p] .. Limit
    BY <1>2, <2>1, <2>2
  <2>4. owed'[p] \in 0 .. owed[p]
    BY <1>1, <2>1
  <2> QED BY <2>1, <2>3, <2>4 DEF Limit, Call!Next, Call!Fail
<1>7. CASE Finish(p)
  BY <1>7 DEF Finish, Leave, Call!vars
<1> QED BY <1>3, <1>4, <1>5, <1>6, <1>7 DEF Run

\* Every invocation's call of the library is one of the contract, whatever the
\* other invocations and the inverter do, and however many invocations there are.
THEOREM CallsAreContracts ==
  ASSUME IsFiniteSet(Invocations)
  PROVE  Spec => CallsImplementContract
<1>1. Init => \A p \in Invocations : Call(p)!Init
  BY DEF Init, Call!Init
<1>2. OwnInv /\ CountInv /\ [Next]_vars =>
        [\A p \in Invocations : [Call(p)!Next]_(Call(p)!vars)]_calls
  <2> SUFFICES ASSUME OwnInv, CountInv, [Next]_vars, NEW q \in Invocations
               PROVE  [Call(q)!Next]_(Call(q)!vars)
    OBVIOUS
  <2>1. ASSUME NEW p \in Invocations, Run(p) PROVE [Call(q)!Next]_(Call(q)!vars)
    <3>1. CASE p = q
      BY <2>1, <3>1, RunIsCall
    <3>2. CASE p # q
      BY <2>1, <3>2, OthersKept
    <3> QED BY <3>1, <3>2
  <2>2. CASE UNCHANGED <<phase, owed, reply>>
    BY <2>2 DEF Call!vars
  <2>3. ASSUME NEW p \in Invocations, Open(p) PROVE UNCHANGED <<phase, owed, reply>>
    BY <2>3 DEF Open
  <2>4. Understand \/ SendReport \/ UNCHANGED vars => UNCHANGED <<phase, owed, reply>>
    BY DEF Understand, SendReport, vars
  <2> QED BY <2>1, <2>2, <2>3, <2>4 DEF Next, Idle
<1>3. Spec => [][\A p \in Invocations : [Call(p)!Next]_(Call(p)!vars)]_calls
  BY CountInvariance, <1>2, PTL DEF Spec
<1>4. Spec => \A p \in Invocations : Call(p)!Init
  BY <1>1, PTL DEF Spec
<1> QED BY <1>3, <1>4 DEF CallsImplementContract
=============================================================================
