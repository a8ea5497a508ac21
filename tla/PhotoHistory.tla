----------------------------- MODULE PhotoHistory -----------------------------
(***************************************************************************)
(* The image-replay guard of the AI service: check_image_replay            *)
(* (app/security/guards.py) over RecentValues (app/security/stores.py),    *)
(* the last digests of each employee, with a bound on the employees.  The  *)
(* whole of seen_or_add runs under the mutex.                              *)
(***************************************************************************)
EXTENDS Naturals, Sequences, LruDict

CONSTANTS
    Faces,         \* employees: user_ref
    Digests,       \* SHA-256 digests of selfies
    ReplayWindow,  \* settings.image_replay_window
    MaxHistories,  \* max_keys
    MaxUses        \* bound on the photos of an employee, for model checking

ASSUME HistoryAssumption ==
    ReplayWindow \in Nat /\ MaxHistories \in Nat \ {0} /\ MaxUses \in Nat

VARIABLES
    histories,  \* keys of _data, least recently used first
    history,    \* its values
    accepted    \* ghost: digests let through since the history was created

photoVars == <<histories, history, accepted>>

PhotoTypeOK ==
    /\ histories \in Seq(Faces)
    /\ history \in [Faces -> Seq(Digests)]
    /\ accepted \in [Faces -> Seq(Digests)]

PhotoInit ==
    /\ histories = <<>>
    /\ history = [u \in Faces |-> <<>>]
    /\ accepted = [u \in Faces |-> <<>>]

\* Mutation: the history holds one digest too few.
RememberedOneLess(s, d) ==
    LET all == Append(s, d)
    IN  IF Len(all) >= ReplayWindow THEN Tail(all) ELSE all

\* history.append(d) on a deque(maxlen=window).
Remembered(s, d) ==
    LET all == Append(s, d) IN IF Len(all) > ReplayWindow THEN Tail(all) ELSE all

\* seen_or_add; a window of 0 turns the guard off.
SeenOrAdd(u, d) ==
    LET gone    == Evicted(histories, u, MaxHistories)
        Kept(f) == [v \in Faces |-> IF v \in gone THEN <<>> ELSE f[v]]
    IN
    /\ ReplayWindow > 0
    /\ Len(accepted[u]) < MaxUses
    /\ histories' = Used(histories, u, MaxHistories)
    /\ \/ /\ d \in Keys(history[u])
          /\ history' = Kept(history)
          /\ accepted' = Kept(accepted)
       \/ /\ d \notin Keys(history[u])
          /\ history' = [Kept(history) EXCEPT ![u] = Remembered(history[u], d)]
          /\ accepted' = [Kept(accepted) EXCEPT ![u] = Append(@, d)]

PhotoNext == \E u \in Faces, d \in Digests : SeenOrAdd(u, d)

PhotoSpec == PhotoInit /\ [][PhotoNext]_photoVars

-----------------------------------------------------------------------------
\* The saved selfie of the README: the same photo passes again only after
\* ReplayWindow others did, or after the employee's history was evicted.
PhotoServedOnce ==
    \A u \in Faces : \A i, j \in 1..Len(accepted[u]) :
        (i < j /\ j - i <= ReplayWindow) => accepted[u][i] # accepted[u][j]
=============================================================================
