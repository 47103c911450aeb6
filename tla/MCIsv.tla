------------------------------- MODULE MCIsv -------------------------------
(***************************************************************************)
(* Instances of Isv for TLC.                                               *)
(***************************************************************************)
EXTENDS Isv

\* All commands, to compare the two tables of argument counts.
MCAllCommands == AllCommands

\* A query and a set command without arguments, one with more, and one whose
\* arguments are split.
MCSomeCommands ==
  {"PROTOCOL_ID", "DAY_GENERATED", "SET_DEFAULTS", "SET_AC_CHARGE_TIME_BUCKET"}

\* A reply to PROTOCOL_ID has 10 bytes and declares 5; 3 is a reply without
\* data, -1 one whose declared length wraps nothing, -9 one where it wraps.
MCLengths == {-9, -1, 3, 5}
=============================================================================
