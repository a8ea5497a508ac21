----------------------------- MODULE ReviewDesk -----------------------------
(***************************************************************************)
(* The console's two live views of attendance: the review queue of flagged *)
(* check-ins (flagged-queue.tsx), whose decisions are optimistic, and the  *)
(* feed (live-feed-tile.tsx), filled by a fetch and by pushed events       *)
(* (use-socket.ts).  Both are query caches that fetches, events and        *)
(* decisions write concurrently.  Of the query library this uses: a fetch  *)
(* replaces the cache, an invalidation starts one afresh, a cancelled or   *)
(* failed fetch leaves the query invalidated if it was.                    *)
(***************************************************************************)
EXTENDS Integers, Sequences, FiniteSets, SequencesExt

CONSTANTS
    Logs,      \* attendance logs, flagged when they arrive
    FeedLimit, \* entries the feed keeps
    MaxEvents  \* bound on events under way to the console

ASSUME ReviewAssumption ==
    FeedLimit \in Nat \ {0} /\ MaxEvents \in Nat

VARIABLES
    arrived,      \* logs in the database, newest first
    flaggedLogs,  \* those whose status is flagged
    wire,         \* attendance:new events on the way: <<log, still flagged>>
    feedRows,     \* cache of the feed
    feedFetch,    \* the running fetch of the feed: {}, or {its answer}
    queueCards,   \* cache of the review queue
    queueFetch,   \* the running fetch of the queue, likewise
    queueInvalid, \* the queue's cache is marked invalid
    deciding,     \* decisions under way, each with the queue it will restore
    reached,      \* decisions the backend has carried out, still unanswered
    decided,      \* ghost: logs this console decided, and was told so
    failed        \* ghost: logs whose last decision failed, and was told so

feedVars  == <<feedRows, feedFetch>>
queueVars == <<queueCards, queueFetch, queueInvalid>>
reviewVars == <<arrived, flaggedLogs, wire, feedVars, queueVars, deciding, reached, decided,
                failed>>

ReviewTypeOK ==
    /\ arrived \in Seq(Logs) /\ wire \in Seq(Logs \X BOOLEAN) /\ feedRows \in Seq(Logs)
    /\ flaggedLogs \subseteq Logs /\ queueCards \subseteq Logs
    /\ feedFetch \subseteq Seq(Logs) /\ Cardinality(feedFetch) <= 1
    /\ queueFetch \subseteq SUBSET Logs /\ Cardinality(queueFetch) <= 1
    /\ queueInvalid \in BOOLEAN
    /\ \A d \in deciding : d.log \in Logs /\ d.previous \subseteq Logs
    /\ reached \subseteq Logs /\ decided \subseteq Logs /\ failed \subseteq Logs

ReviewInit ==
    /\ arrived = <<>> /\ flaggedLogs = {} /\ wire = <<>>
    /\ feedRows = <<>> /\ feedFetch = {}
    /\ queueCards = {} /\ queueFetch = {} /\ queueInvalid = FALSE
    /\ deciding = {} /\ reached = {} /\ decided = {} /\ failed = {}

Newest(s, n) == SubSeq(s, 1, IF Len(s) < n THEN Len(s) ELSE n)

\* A check-in is flagged and broadcast.
FlaggedArrives(x) ==
    /\ x \notin ToSet(arrived)
    /\ Len(wire) < MaxEvents
    /\ arrived' = <<x>> \o arrived
    /\ flaggedLogs' = flaggedLogs \cup {x}
    /\ wire' = Append(wire, <<x, TRUE>>)
    /\ UNCHANGED <<feedVars, queueVars, deciding, reached, decided, failed>>

\* The connection is down: an event is lost.
EventLost ==
    /\ wire # <<>>
    /\ wire' = Tail(wire)
    /\ UNCHANGED <<arrived, flaggedLogs, feedVars, queueVars, deciding, reached, decided, failed>>

\* Mutation: every event is put on top, even one of a log the feed has.
MergedUnseen(x) == Newest(<<x>> \o feedRows, FeedLimit)

\* A log the feed has is dropped, and keeps its place; a new one goes on top.
Merged(x) == IF x \in ToSet(feedRows) THEN feedRows ELSE Newest(<<x>> \o feedRows, FeedLimit)

\* invalidateQueries: marked invalid, and a fetch started afresh.
InvalidateQueue ==
    /\ queueInvalid' = TRUE
    /\ queueFetch' = {flaggedLogs'}
    /\ UNCHANGED queueCards

\* onAttendance.  A flagged log invalidates the review queue, a reviewed one
\* that is broadcast again does not.
OnAttendance ==
    /\ wire # <<>>
    /\ wire' = Tail(wire)
    /\ feedRows' = Merged(Head(wire)[1])
    /\ UNCHANGED <<arrived, flaggedLogs, feedFetch, deciding, reached, decided, failed>>
    /\ IF Head(wire)[2] THEN InvalidateQueue ELSE UNCHANGED queueVars

\* A mount, a focus or a reconnected network starts a fetch of the feed.
FetchFeed ==
    /\ feedFetch = {}
    /\ feedFetch' = {Newest(arrived, FeedLimit)}
    /\ UNCHANGED <<arrived, flaggedLogs, wire, feedRows, queueVars, deciding, reached, decided,
                   failed>>

FeedAnswer ==
    /\ feedFetch # {}
    /\ feedRows' \in feedFetch \cup {feedRows}
    /\ feedFetch' = {}
    /\ UNCHANGED <<arrived, flaggedLogs, wire, queueVars, deciding, reached, decided, failed>>

\* The same for the queue.
FetchQueueCards ==
    /\ queueFetch = {}
    /\ queueFetch' = {flaggedLogs}
    /\ UNCHANGED <<arrived, flaggedLogs, wire, feedVars, queueCards, queueInvalid, deciding,
                   reached, decided, failed>>

\* The queue's fetch is answered, or fails.
QueueAnswer ==
    /\ queueFetch # {}
    /\ \/ queueCards' \in queueFetch /\ queueInvalid' = FALSE
       \/ UNCHANGED <<queueCards, queueInvalid>>
    /\ queueFetch' = {}
    /\ UNCHANGED <<arrived, flaggedLogs, wire, feedVars, deciding, reached, decided, failed>>

\* onMutate: the running fetch is cancelled, the cache remembered, the card
\* taken off the queue.  Bound: one decision of a log at a time.
DecideCard(x) ==
    /\ x \in queueCards
    /\ \A d \in deciding : d.log # x
    /\ deciding' = deciding \cup {[log |-> x, previous |-> queueCards]}
    /\ queueCards' = queueCards \ {x}
    /\ queueFetch' = {}
    /\ failed' = failed \ {x}
    /\ UNCHANGED <<arrived, flaggedLogs, wire, feedVars, queueInvalid, reached, decided>>

\* The backend reviews the log and broadcasts it again.
BackendReviews(x) ==
    /\ \E d \in deciding : d.log = x
    /\ x \notin reached
    /\ Len(wire) < MaxEvents
    /\ reached' = reached \cup {x}
    /\ flaggedLogs' = flaggedLogs \ {x}
    /\ wire' = Append(wire, <<x, FALSE>>)
    /\ UNCHANGED <<arrived, feedVars, queueVars, deciding, decided, failed>>

\* Mutation: a failed decision is restored but nothing is fetched again.
SettleWithoutRefetch(d) ==
    /\ d \in deciding
    /\ deciding' = deciding \ {d}
    /\ reached' = reached \ {d.log}
    /\ \/ /\ d.log \in reached
          /\ decided' = decided \cup {d.log}
          /\ UNCHANGED <<queueCards, failed>>
       \/ /\ failed' = failed \cup {d.log}
          /\ queueCards' = d.previous
          /\ UNCHANGED decided
    /\ UNCHANGED <<arrived, flaggedLogs, wire, feedVars, queueFetch, queueInvalid>>

\* onSuccess, or onError, which puts the remembered queue back (the answer
\* may be lost after the backend has acted); then onSettled.
Settle(d) ==
    /\ d \in deciding
    /\ deciding' = deciding \ {d}
    /\ reached' = reached \ {d.log}
    /\ \/ /\ d.log \in reached
          /\ decided' = decided \cup {d.log}
          /\ UNCHANGED <<queueCards, failed>>
       \/ /\ failed' = failed \cup {d.log}
          /\ queueCards' = d.previous
          /\ UNCHANGED decided
    /\ queueInvalid' = TRUE
    /\ queueFetch' = {flaggedLogs}
    /\ UNCHANGED <<arrived, flaggedLogs, wire, feedVars>>

ReviewNext ==
    \/ \E x \in Logs : FlaggedArrives(x) \/ DecideCard(x) \/ BackendReviews(x)
    \/ EventLost \/ OnAttendance
    \/ FetchFeed \/ FeedAnswer
    \/ FetchQueueCards \/ QueueAnswer
    \/ \E d \in deciding : Settle(d)

ReviewSpec == ReviewInit /\ [][ReviewNext]_reviewVars

-----------------------------------------------------------------------------
\* The feed shows a log once, however fetches, pushes, and the second
\* broadcast of a reviewed log interleave.
FeedShowsOnce == Len(feedRows) = Cardinality(ToSet(feedRows)) /\ Len(feedRows) <= FeedLimit

\* A log whose review was confirmed is not offered again once the queue is
\* at rest: a restored queue may bring it back, but only until the next
\* fetch that succeeds.
ConfirmedNotOffered ==
    (deciding = {} /\ queueFetch = {} /\ ~queueInvalid) =>
        queueCards \cap decided = {}

\* Feed and queue follow the backend, whatever arrives late, twice or never.
QueuesAgree == FeedShowsOnce /\ ConfirmedNotOffered

\* flagged-queue.tsx: "Put the row back: a failed write must not look like a
\* completed review."  Once nothing is under way, a log whose decision failed
\* is in the queue it was taken from.
FailedIsBack ==
    (deciding = {} /\ queueFetch = {}) => failed \cap flaggedLogs \subseteq queueCards
=============================================================================
