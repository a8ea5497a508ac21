--------------------------- MODULE AttendanceLedger ---------------------------
(***************************************************************************)
(* What the check-in path promises, without saying how: every attempt to   *)
(* check in is settled once, for good, and an employee is told of a record *)
(* only after it has been made.  Checkin implements this specification.    *)
(***************************************************************************)
CONSTANT Attempts

VARIABLES
    settled,  \* how each attempt was settled, if it was
    told      \* what the employee was told about it

ledger == <<settled, told>>

Settlements == {"open", "approved", "flagged", "refused"}
Notices     == {"nothing", "recorded", "review", "refused", "unknown"}

LedgerTypeOK ==
    /\ settled \in [Attempts -> Settlements]
    /\ told \in [Attempts -> Notices]

LedgerInit ==
    /\ settled = [a \in Attempts |-> "open"]
    /\ told = [a \in Attempts |-> "nothing"]

\* The attempt gets its record, or will never get one.
Settle(a) ==
    /\ settled[a] = "open"
    /\ \E s \in {"approved", "flagged", "refused"} : settled' = [settled EXCEPT ![a] = s]
    /\ UNCHANGED told

\* The settlements a notice may rest on.  "unknown" commits to nothing.
Grounds(notice) ==
    CASE notice = "recorded" -> {"approved"}
      [] notice = "review"   -> {"flagged"}
      [] notice = "refused"  -> {"refused"}
      [] notice = "unknown"  -> Settlements

\* The employee is told once, and told the truth or nothing definite.
Tell(a) ==
    /\ told[a] = "nothing"
    /\ \E n \in Notices \ {"nothing"} :
          /\ settled[a] \in Grounds(n)
          /\ told' = [told EXCEPT ![a] = n]
    /\ UNCHANGED settled

\* An outage settles any number of open attempts at once, without a record.
Abandon ==
    \E S \in SUBSET {a \in Attempts : settled[a] = "open"} :
        /\ settled' = [a \in Attempts |-> IF a \in S THEN "refused" ELSE settled[a]]
        /\ UNCHANGED told

LedgerNext == Abandon \/ \E a \in Attempts : Settle(a) \/ Tell(a)

Spec == LedgerInit /\ [][LedgerNext]_ledger
=============================================================================
