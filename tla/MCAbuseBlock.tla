------------------------------ MODULE MCAbuseBlock ------------------------------
(* The instance of AbuseBlock for TLC. *)
EXTENDS AbuseBlock, TLC

\* States that no further offence makes different in kind are cut off.
Enough == \A c \in Clients : Len(offences[c]) <= 5
================================================================================
