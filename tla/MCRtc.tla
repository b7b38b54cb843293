------------------------------- MODULE MCRtc --------------------------------
(* Instantiation of Rtc for TLC.                                           *)
EXTENDS Rtc

\* Rates the programs pass to rtc_write: two valid ones and one the
\* range check rejects.
MCWriteArgs == {2, 8, 2048}
=============================================================================
