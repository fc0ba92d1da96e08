--------------------------- MODULE MembershipCache ---------------------------
(***************************************************************************)
(* The slot of one user in the API's membership cache                       *)
(* (apps/api/app/services/auth_cache.py): the entry, and the fetch that     *)
(* requests share when there is none. For the modules whose requests are    *)
(* authorized by what a slot answers; AuthCache has the clock, the token    *)
(* and the generation, of which a first fetch here keeps whether it is      *)
(* still the one that the fetch began with.                                 *)
(***************************************************************************)
CONSTANT None    \* no entry, nothing read yet

\* Memberships are members of V.
SlotOf(V) == [entry : V \cup {None}, fetch : {"none", "first", "overtaken", "retry"},
              seen : V \cup {None}]

EmptySlot == [entry |-> None, fetch |-> "none", seen |-> None]

Cached(slot) == slot.entry # None

\* cached_memberships on a miss: the fetch in flight, or a new one.
Joined(slot) ==
    IF slot.fetch = "none" THEN [slot EXCEPT !.fetch = "first", !.seen = None] ELSE slot

\* Who joins now shares an answer that may have been read already.
RetryInFlight(slot) == slot.fetch = "retry"

\* The database answers as of some moment of the fetch.
Reading(slot) == slot.fetch # "none" /\ slot.seen = None
Fetched(slot, memberships) == [slot EXCEPT !.seen = memberships]

\* An invalidation of anybody bumps the generation; the fetch goes on.
Overtaken(slot) == IF slot.fetch = "first" THEN [slot EXCEPT !.fetch = "overtaken"] ELSE slot
Expired(slot)     == [slot EXCEPT !.entry = None]
Invalidated(slot) == Overtaken(Expired(slot))

\* _fetch_memberships: what an invalidation has overtaken is fetched once more ...
Outdated(slot)  == slot.fetch = "overtaken" /\ slot.seen # None
Refetched(slot) == [slot EXCEPT !.fetch = "retry", !.seen = None]

\* ... and the second answer is returned uncached, whatever has overtaken it.
Ready(slot)   == slot.fetch \in {"first", "retry"} /\ slot.seen # None
Settled(slot) == [entry |-> IF slot.fetch = "first" THEN slot.seen ELSE slot.entry,
                  fetch |-> "none", seen |-> None]

Abandoned(slot) == [slot EXCEPT !.fetch = "none", !.seen = None]
=============================================================================
