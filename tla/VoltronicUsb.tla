---------------------------- MODULE VoltronicUsb ----------------------------
(***************************************************************************)
(* The USB back end of libvoltronic (voltronic_dev_usb_hidapi.c) as the    *)
(* rest of the library sees it: bytes travel in HID reports of at most     *)
(* HidReportSize bytes.  hidapi itself and the inverter are not part of    *)
(* the repository; what they can answer is given here by the set of        *)
(* results a call can return.                                              *)
(***************************************************************************)
EXTENDS Integers

CONSTANT HidReportSize          \* HID_REPORT_SIZE, 8 in the code

ASSUME ReportSizeAssumption == HidReportSize \in Nat \ {0}

\* The macro GET_REPORT_SIZE; a negative value (an error) is left as it is.
GetReportSize(val) == IF val > HidReportSize THEN HidReportSize ELSE val

\* hid_write gets a report of HidReportSize data bytes behind one report-id
\* byte and returns the size of that report, or -1.
HidWriteResults == {HidReportSize + 1, -1}

\* voltronic_dev_impl_write pads the data to one report and never reports
\* more than HidReportSize bytes, even when it wrote padding.
ImplWriteResults == {GetReportSize(bytes_written) : bytes_written \in HidWriteResults}

\* Mutant: a whole report is read, however small the buffer.
ImplReadResultsWhole(buffer_size) == {-1} \cup 0 .. HidReportSize

\* voltronic_dev_impl_read reads at most one report into the buffer: 0 bytes
\* when hid_read_timeout ran into its timeout, -1 on an error.
ImplReadResults(buffer_size) == {-1} \cup 0 .. GetReportSize(buffer_size)
=============================================================================
