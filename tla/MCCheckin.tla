------------------------------ MODULE MCCheckin ------------------------------
(***************************************************************************)
(* Submissions that fail at each gate in turn, and clean ones that share a *)
(* photo, a request id, both or neither.                                   *)
(***************************************************************************)
EXTENDS Checkin, TLC

CONSTANTS p1, p2, i1

MCPhotos     == {p1, p2}
MCRequestIds == {i1}

Clean(p, i) == [photo |-> p, id |-> i, face |-> "match", lacks |-> {}]

Doubtful == {[Clean(p1, Nil) EXCEPT !.face = f] : f \in {"near", "other"}}

Failing == {[Clean(p1, Nil) EXCEPT !.lacks = {g}] : g \in Gates}

\* The first attempt may fail anywhere; the second is a new try, or repeats the
\* selfie, the request id or both.
MCChoices ==
    << {Clean(p1, i1)} \cup Doubtful \cup Failing,
       {Clean(p1, i1), Clean(p1, Nil), Clean(p2, i1)} >>
=============================================================================
