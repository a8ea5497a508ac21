------------------------------ MODULE MCScreens ------------------------------
(***************************************************************************)
(* Two screens that fill from answers which may come late: the phone of    *)
(* two employees (PhoneHome), one of whom has everything assigned at the   *)
(* start, and the console's attendance table (AttendanceTable).  They      *)
(* share nothing; one of them moves in a behaviour.                        *)
(***************************************************************************)
EXTENDS PhoneHome, AttendanceTable

VARIABLE shown

MCAssignments == {{"office", "fence", "shift"}, {"office", "shift"}}

MCInit ==
    /\ shown \in {"home", "table"}
    /\ HomeInit /\ assigned["u1"] = {"office", "fence", "shift"}
    /\ TableInit
    \* what does not move is as it starts first
    /\ shown = "table" => ~mocked /\ assigned["u2"] = assigned["u1"]
    /\ shown = "home" => LoggedAll = 0

MCNext ==
    \/ shown = "home" /\ HomeNext /\ UNCHANGED <<shown, tableVars>>
    \/ shown = "table" /\ TableNext /\ UNCHANGED <<shown, homeVars>>

MCSpec == MCInit /\ [][MCNext]_<<shown, homeVars, tableVars>>
=============================================================================
