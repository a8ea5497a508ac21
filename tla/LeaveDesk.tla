------------------------------ MODULE LeaveDesk ------------------------------
(***************************************************************************)
(* Leave requests from submission to balance: leaveService.ts of the       *)
(* backend, and the leave queue of the console (leave-queue.tsx), whose    *)
(* rows may be stale and whose buttons stay enabled while a decision is    *)
(* under way.  A decision is three awaited writes - the status, the        *)
(* balance, the notification - so handlers interleave between them and a   *)
(* crash may fall anywhere.                                                *)
(***************************************************************************)
EXTENDS Integers, FiniteSets, Functions

CONSTANTS
    Requests,      \* leave requests: [id, key, days]
    LeaveKeys,     \* the balances, one per employee and leave type
    LeaveConsoles, \* console tabs with a leave queue
    LeaveSlots,    \* handlers of the backend
    MaxDecisions   \* bound on the decisions made

\* days is Math.round((to - from) / a day) + 1, negative when the dates are
\* swapped: the schema does not compare them.
ASSUME RequestsAssumption ==
    /\ \A r \in Requests : r.key \in LeaveKeys /\ r.days \in Int
    /\ IsFiniteSet(Requests) /\ IsFiniteSet(LeaveSlots)
    /\ MaxDecisions \in Nat

Decisions == {"approved", "rejected"}
LeaveStatuses == {"none", "pending"} \cup Decisions
NoLeaveJob == <<>>

VARIABLES
    leaveStatus, \* LeaveRequest.status; "none" before it is submitted
    leaveUsed,   \* LeaveBalance.used
    queueRows,   \* the rows each console has cached
    leaveJobs,   \* what each handler is at: <<request, decision, next write>>
    notices,     \* notifications written: <<request, decision>>
    approvals,   \* ghost: how often each request was set to approved
    uncounted    \* ghost: how often the balance write of an approval was lost

leaveVars == <<leaveStatus, leaveUsed, queueRows, leaveJobs, notices, approvals, uncounted>>

LeaveTypeOK ==
    /\ leaveStatus \in [Requests -> LeaveStatuses]
    /\ leaveUsed \in [LeaveKeys -> Nat]
    /\ queueRows \in [LeaveConsoles -> [Requests -> LeaveStatuses]]
    /\ leaveJobs \in [LeaveSlots ->
                        (Requests \X Decisions \X {"count", "notify"}) \cup {NoLeaveJob}]
    /\ notices \subseteq Requests \X Decisions
    /\ approvals \in [Requests -> Nat]
    /\ uncounted \in [Requests -> Nat]

LeaveInit ==
    /\ leaveStatus = [r \in Requests |-> "none"]
    /\ leaveUsed = [k \in LeaveKeys |-> 0]
    /\ queueRows = [c \in LeaveConsoles |-> [r \in Requests |-> "none"]]
    /\ leaveJobs = [s \in LeaveSlots |-> NoLeaveJob]
    /\ notices = {}
    /\ approvals = [r \in Requests |-> 0]
    /\ uncounted = [r \in Requests |-> 0]

\* createLeaveRequest.
Submit(r) ==
    /\ leaveStatus[r] = "none"
    /\ leaveStatus' = [leaveStatus EXCEPT ![r] = "pending"]
    /\ UNCHANGED <<leaveUsed, queueRows, leaveJobs, notices, approvals, uncounted>>

\* A console fetches its list, at first, on focus, or after a decision.
FetchQueue(c) ==
    /\ queueRows' = [queueRows EXCEPT ![c] = leaveStatus]
    /\ UNCHANGED <<leaveStatus, leaveUsed, leaveJobs, notices, approvals, uncounted>>

\* An administrator decides a row the console shows as pending, and
\* setLeaveStatus writes the status, whatever it was.
DecideLeave(c, s, r, decision) ==
    /\ queueRows[c][r] = "pending"
    /\ leaveJobs[s] = NoLeaveJob
    /\ FoldFunction(+, 0, approvals) < MaxDecisions
    /\ leaveStatus' = [leaveStatus EXCEPT ![r] = decision]
    /\ \/ /\ decision = "approved"
          /\ approvals' = [approvals EXCEPT ![r] = @ + 1]
          /\ leaveJobs' = [leaveJobs EXCEPT ![s] = <<r, decision, "count">>]
       \/ /\ decision = "rejected"
          /\ leaveJobs' = [leaveJobs EXCEPT ![s] = <<r, decision, "notify">>]
          /\ UNCHANGED approvals
    /\ UNCHANGED <<leaveUsed, queueRows, notices, uncounted>>

\* What an approval costs: Math.max(days, 0).
Charge(r) == IF r.days > 0 THEN r.days ELSE 0

\* Mutation: the balance is set to the request's days.
ChargeBySetting(s) ==
    LET r == leaveJobs[s][1]
    IN
    /\ leaveJobs[s] # NoLeaveJob
    /\ leaveJobs[s][3] = "count"
    /\ leaveUsed' = [leaveUsed EXCEPT ![r.key] = Charge(r)]
    /\ leaveJobs' = [leaveJobs EXCEPT ![s][3] = "notify"]
    /\ UNCHANGED <<leaveStatus, queueRows, notices, approvals, uncounted>>

\* The balance is incremented in one upsert; an error ends the handler
\* with the status already written.
CountDays(s) ==
    LET r == leaveJobs[s][1]
    IN
    /\ leaveJobs[s] # NoLeaveJob
    /\ leaveJobs[s][3] = "count"
    /\ \/ /\ leaveUsed' = [leaveUsed EXCEPT ![r.key] = @ + Charge(r)]
          /\ leaveJobs' = [leaveJobs EXCEPT ![s][3] = "notify"]
          /\ UNCHANGED uncounted
       \/ /\ leaveJobs' = [leaveJobs EXCEPT ![s] = NoLeaveJob]
          /\ uncounted' = [uncounted EXCEPT ![r] = @ + 1]
          /\ UNCHANGED leaveUsed
    /\ UNCHANGED <<leaveStatus, queueRows, notices, approvals>>

\* The notification is written and pushed, or silently not.
NotifyEmployee(s) ==
    /\ leaveJobs[s] # NoLeaveJob
    /\ leaveJobs[s][3] = "notify"
    /\ \/ notices' = notices \cup {<<leaveJobs[s][1], leaveJobs[s][2]>>}
       \/ UNCHANGED notices
    /\ leaveJobs' = [leaveJobs EXCEPT ![s] = NoLeaveJob]
    /\ UNCHANGED <<leaveStatus, leaveUsed, queueRows, approvals, uncounted>>

Counting(r) == {s \in LeaveSlots : leaveJobs[s] # NoLeaveJob
                                   /\ leaveJobs[s][1] = r /\ leaveJobs[s][3] = "count"}

\* The backend crashes; what its handlers had still to write is lost.
LeaveCrash ==
    /\ \E s \in LeaveSlots : leaveJobs[s] # NoLeaveJob
    /\ leaveJobs' = [s \in LeaveSlots |-> NoLeaveJob]
    /\ uncounted' = [r \in Requests |-> uncounted[r] + Cardinality(Counting(r))]
    /\ UNCHANGED <<leaveStatus, leaveUsed, queueRows, notices, approvals>>

LeaveNext ==
    \/ \E r \in Requests : Submit(r)
    \/ \E c \in LeaveConsoles : FetchQueue(c)
    \/ \E c \in LeaveConsoles, s \in LeaveSlots, r \in Requests, d \in Decisions :
          DecideLeave(c, s, r, d)
    \/ \E s \in LeaveSlots : CountDays(s) \/ NotifyEmployee(s)
    \/ LeaveCrash

LeaveSpec == LeaveInit /\ [][LeaveNext]_leaveVars

-----------------------------------------------------------------------------
\* A balance is exactly what its approvals cost: every approval is charged
\* once - approving a request twice charges it twice, rejecting it later
\* gives nothing back - except those still being counted and those whose
\* balance write was lost to an error or a crash.
Charged(r) == Charge(r) * (approvals[r] - Cardinality(Counting(r)) - uncounted[r])
ApprovalsCharged ==
    \A k \in LeaveKeys :
        leaveUsed[k] =
            SumFunctionOnSet([r \in Requests |-> Charged(r)], {r \in Requests : r.key = k})
=============================================================================
