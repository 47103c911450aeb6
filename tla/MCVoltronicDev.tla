--------------------------- MODULE MCVoltronicDev ---------------------------
(***************************************************************************)
(* Instances of VoltronicDev for TLC.  Reports have 4 bytes and the buffer *)
(* 10, so that requests take one to three reports, the last one partly     *)
(* padding, and a reply fills the buffer with a last read of 2 bytes.      *)
(***************************************************************************)
EXTENDS VoltronicDev

\* 0 is the empty command of -r ""; with the trailer the requests have 3, 4
\* and 9 bytes (1, 2 and 7 without checksum).
MCCommandLengths == {0, 1, 6}
MCTimeouts == {1, 3}

\* Every combination of the library's options, and the only one isv uses.
MCAllOptions == SUBSET OptionFlags
MCNoOptions == {{}}

\* A time source that starts at 0, and one that wraps during the call.
MCClocks == {0, ClockMod - 2}

\* A wall clock may be set to any of these, back or ahead.
MCSettings == {0, 3, ClockMod - 1}
=============================================================================
