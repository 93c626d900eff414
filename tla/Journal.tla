------------------------------ MODULE Journal ------------------------------
(***************************************************************************)
(* What the event journal of a run promises.  Records come one at a time,  *)
(* each with the next number.  A record whose writer was told is kept for  *)
(* ever at its place; of the records behind it nobody was told, and they   *)
(* may get lost, the last ones first.                                      *)
(*                                                                         *)
(* JournalStore implements this specification under the refinement mapping *)
(* given there (JournalSpec).                                              *)
(***************************************************************************)
EXTENDS Integers, Sequences

VARIABLES log,    \* the records
          acked   \* how many of them were acknowledged

vars == <<log, acked>>

Init == log = <<>> /\ acked = 0

\* A record more, numbered with its place.  Which record it is, log' says.
Write ==
  /\ Len(log') = Len(log) + 1
  /\ SubSeq(log', 1, Len(log)) = log
  /\ log'[Len(log')].seq = Len(log)
  /\ UNCHANGED acked

Acknowledge ==
  /\ acked' = Len(log)
  /\ UNCHANGED log

Forget ==
  /\ \E n \in acked..Len(log) : log' = SubSeq(log, 1, n)
  /\ UNCHANGED acked

Next == Write \/ Acknowledge \/ Forget

Spec == Init /\ [][Next]_vars
=============================================================================
