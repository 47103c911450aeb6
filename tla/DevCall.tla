------------------------------ MODULE DevCall ------------------------------
(***************************************************************************)
(* What a call of voltronic_dev_execute promises its caller, without the   *)
(* reports, buffers, clocks and options of the implementation: it sends    *)
(* the whole request before it listens, it listens until the reply is      *)
(* complete, and it may fail at any point before.  VoltronicDev implements *)
(* this specification and Isv uses it.                                     *)
(***************************************************************************)
EXTENDS Integers

CONSTANTS
  RequestLengths,   \* lengths a request may have on the wire
  ReplyLimit        \* bytes the caller's buffer holds

VARIABLES
  phase,   \* "sending", "awaiting", "answered" or "failed"
  owed,    \* bytes of the request the device has not got yet
  reply    \* bytes of the reply that arrived

vars == <<phase, owed, reply>>

Init == phase = "sending" /\ owed \in RequestLengths /\ reply = 0

\* Some more of the request goes out.
Send ==
  /\ phase = "sending" /\ owed > 0
  /\ owed' \in 0 .. owed - 1
  /\ UNCHANGED <<phase, reply>>

\* The device has the whole request: listen.
Listen ==
  /\ phase = "sending" /\ owed = 0
  /\ phase' = "awaiting"
  /\ UNCHANGED <<owed, reply>>

\* Some of the reply arrives.
Receive ==
  /\ phase = "awaiting"
  /\ reply' \in reply + 1 .. ReplyLimit
  /\ UNCHANGED <<phase, owed>>

\* The rest of the reply arrives; it fits the buffer and is accepted.
Answer ==
  /\ phase = "awaiting"
  /\ phase' = "answered"
  /\ reply' \in reply + 1 .. ReplyLimit
  /\ owed' = owed

\* An error, the deadline, or a reply that is too long or not accepted.  What
\* was sent or received in the failing step is lost.
Fail ==
  /\ phase \in {"sending", "awaiting"}
  /\ phase' = "failed"
  /\ owed' \in 0 .. owed
  /\ reply' \in reply .. ReplyLimit
  /\ phase = "sending" => reply' = reply
  /\ phase = "awaiting" => owed' = owed

Next == Send \/ Listen \/ Receive \/ Answer \/ Fail

Spec == Init /\ [][Next]_vars
=============================================================================
