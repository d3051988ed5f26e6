------------------------------ MODULE MCReport ------------------------------
(***************************************************************************)
(* An instance of Report for TLC.                                          *)
(***************************************************************************)
EXTENDS Report

\* The shortest frame there is, "@04:CMD::CC\n", which is answered with an ERR.
Shortest == {[bytes |-> 12, errors |-> 1]}

\* Long runs: what they leave of the bytes is few requests.
Long == {6000}

ASSUME NothingWrapsCheck == NothingWraps
=============================================================================
