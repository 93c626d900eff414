------------------------------- MODULE Escrow -------------------------------
(***************************************************************************)
(* What the shared run budget promises to whoever pays for the run.        *)
(*                                                                         *)
(* Every paid request first sets an amount aside.  What is set aside for   *)
(* all requests together never exceeds the cap.  A request is closed at    *)
(* most once, either as never sent (Void) or against a charge (Close); a   *)
(* charge whose receipt is missing stays provisional, and may be amended   *)
(* once by a late receipt (Amend).  Closing and amending can only shrink   *)
(* what is set aside, so nothing is ever charged twice and nothing comes   *)
(* back after it was given up.                                             *)
(*                                                                         *)
(* RunLedger implements this specification under the refinement mapping    *)
(* given there (EscrowSpec).                                               *)
(***************************************************************************)
EXTENDS Integers

CONSTANTS Rid,      \* the reservations a run can make
          Dim,      \* the dimensions of the budget
          Cap       \* the run's total limit, per dimension

VARIABLES phase,    \* phase[r]: free, held, void, provisional, charged
          escrow,   \* escrow[r]: the part of the cap set aside for r
          spent     \* what is set aside for all requests together

vars == <<phase, escrow, spent>>

Amount == [Dim -> Nat]
Zero == [d \in Dim |-> 0]
AtMost(a, b) == \A d \in Dim : a[d] <= b[d]

\* r's share of the cap becomes e.  The actions below say of the new share
\* escrow'[r] which values it may take, not which one it takes.
SetAside(r, e) ==
  /\ escrow' = [escrow EXCEPT ![r] = e]
  /\ spent' = [d \in Dim |-> spent[d] - escrow[r][d] + e[d]]

Init ==
  /\ phase = [r \in Rid |-> "free"]
  /\ escrow = [r \in Rid |-> Zero]
  /\ spent = Zero

\* A request is admitted only if its whole estimate still fits.
Open(r) ==
  /\ phase[r] = "free"
  /\ phase' = [phase EXCEPT ![r] = "held"]
  /\ SetAside(r, escrow'[r])
  /\ escrow'[r] \in Amount
  /\ AtMost(spent', Cap)

\* A request that was never sent gives everything back.
Void(r) ==
  /\ phase[r] = "held"
  /\ phase' = [phase EXCEPT ![r] = "void"]
  /\ SetAside(r, Zero)

\* The request is over.
Close(r) ==
  /\ phase[r] = "held"
  /\ \E p \in {"provisional", "charged"} : phase' = [phase EXCEPT ![r] = p]
  /\ SetAside(r, escrow'[r])
  /\ escrow'[r] \in Amount
  /\ AtMost(escrow'[r], escrow[r])

\* A late receipt replaces a provisional charge.
Amend(r) ==
  /\ phase[r] = "provisional"
  /\ phase' = [phase EXCEPT ![r] = "charged"]
  /\ SetAside(r, escrow'[r])
  /\ escrow'[r] \in Amount
  /\ AtMost(escrow'[r], escrow[r])

Next == \E r \in Rid : Open(r) \/ Void(r) \/ Close(r) \/ Amend(r)

Spec == Init /\ [][Next]_vars
=============================================================================
