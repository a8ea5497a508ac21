------------------------------- MODULE LruDict -------------------------------
(***************************************************************************)
(* The bounded OrderedDict idiom shared by the AI service's in-process     *)
(* stores (security/lockout.py, security/stores.py): keys are kept from    *)
(* the least to the most recently used, a use moves its key to the end,    *)
(* and an insertion past the limit drops keys from the front.              *)
(***************************************************************************)
EXTENDS Naturals, Sequences

\* The keys an ordered dictionary holds.
Keys(order) == {order[i] : i \in 1..Len(order)}

\* The dictionary after pop(key, None): the other keys in their old order.
Without(order, key) ==
    IF key \in Keys(order)
    THEN LET i == CHOOSE j \in 1..Len(order) : order[j] = key
         IN  SubSeq(order, 1, i - 1) \o SubSeq(order, i + 1, Len(order))
    ELSE order

\* Insert if absent, then move_to_end(key).
MoveToEnd(order, key) == Append(Without(order, key), key)

\* while len(dict) > limit: popitem(last=False).  An insertion exceeds the
\* limit by at most one key, so the loop body runs at most once.
Trim(order, limit) == IF Len(order) > limit THEN Tail(order) ELSE order

\* One use of `key` in a dictionary bounded by `limit` keys.
Used(order, key, limit) == Trim(MoveToEnd(order, key), limit)

\* The keys that a use of `key` drops.
Evicted(order, key, limit) ==
    IF Len(MoveToEnd(order, key)) > limit THEN {Head(MoveToEnd(order, key))} ELSE {}

\* No key occurs twice.
Distinct(order) == \A i, j \in 1..Len(order) : order[i] = order[j] => i = j
=============================================================================
