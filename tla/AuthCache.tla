----------------------------- MODULE AuthCache -----------------------------
(***************************************************************************)
(* How a request of the API is authenticated (apps/api/app/auth.py,         *)
(* services/auth_cache.py, services/ttl_cache.py): the token is verified    *)
(* and the user's memberships are looked up, each through a cache whose     *)
(* misses are collapsed onto one fetch. Fetches run on the event loop;      *)
(* routes that change memberships invalidate from other threads.            *)
(*                                                                         *)
(* One token of one user; other users appear through the generation they    *)
(* bump. Requests run on the event loop, so a lookup that misses and joins  *)
(* or starts a fetch is one step. A finished fetch is out of its registry   *)
(* before a request that arrives later can look. The clock runs freely: the *)
(* HTTP client's timeouts are per phase, so a fetch may outlast any TTL.    *)
(***************************************************************************)
EXTENDS Integers, FiniteSets

CONSTANTS
    Request,      \* concurrent requests
    None,         \* no entry, no fetch, not yet
    Ttl,          \* auth_cache_ttl_seconds
    TokenExp,     \* the token's exp
    MaxClock,     \* bound: the clock
    MaxVersion,   \* bound: changes of the memberships
    MaxGeneration \* bound: invalidations, of any user

\* With Ttl = 0 the caches are passed by, and there is nothing to model.
ASSUME TimeAssumption == {TokenExp, MaxClock} \subseteq Nat /\ Ttl \in Nat \ {0}
ASSUME VersionAssumption == {MaxVersion, MaxGeneration} \subseteq Nat

VARIABLES
    now,
    revokedAt,       \* when the session was revoked
    version,         \* the user's memberships, as a counter of their changes
    supersededAt,    \* when each version was replaced
    unannounced,     \* changes whose route has not invalidated yet
    invalidated,     \* history: the last change that was announced
    verifyEntry,     \* the token's entry of _verify_cache
    verifyFlight,    \* _verify_inflight
    memberEntry,     \* the user's entry of _membership_cache
    memberFlight,    \* _membership_inflight
    generation,      \* _membership_generation
    request,
    accepted,        \* history: the token as this step has accepted it
    answer           \* history: the memberships this step has answered with

upstream    == <<revokedAt, version, supersededAt>>
verifyVars  == <<verifyEntry, verifyFlight>>
memberVars  == <<memberEntry, memberFlight, generation>>
routeVars   == <<unannounced, invalidated>>
history     == <<accepted, answer>>
vars == <<now, upstream, routeVars, verifyVars, memberVars, request, history>>

Time       == 0..MaxClock
Version    == 0..MaxVersion
Generation == 0..MaxGeneration
Past       == 0..(MaxClock + Ttl)

VerifyEntry == [expires : Past]
VerifyFetch == [started : Time, seen : {None, "valid", "denied"}]
MemberEntry == [expires : Past, version : Version]
MemberFetch == [started : Time, asked : Time, generation : Generation, retry : BOOLEAN,
                seen : Version \cup {None}]
Waiter      == [pc : {"idle", "token", "verifying", "verified", "looking"}, floor : Version]
\* "asked" is when the fetch that answers was sent, None when a cache answers.
Acceptance  == [at : Time, asked : Time \cup {None}]
Answer      == [at : Time, asked : Time \cup {None}, floor : Version, version : Version,
                retried : BOOLEAN]

ASSUME NoneAssumption ==
    /\ None \notin Nat /\ None \notin {"valid", "denied"}
    /\ None \notin VerifyFetch /\ None \notin MemberFetch

TypeOK ==
    /\ now \in Time
    /\ revokedAt \in Time \cup {None}
    /\ version \in Version
    /\ supersededAt \in [Version -> Time \cup {None}]
    /\ unannounced \in SUBSET Version
    /\ invalidated \in Version
    /\ verifyEntry \in VerifyEntry \cup {None}
    /\ verifyFlight \in VerifyFetch \cup {None}
    /\ memberEntry \in MemberEntry \cup {None}
    /\ memberFlight \in MemberFetch \cup {None}
    /\ generation \in Generation
    /\ request \in [Request -> Waiter]
    /\ accepted \in Acceptance \cup {None}
    /\ answer \in Answer \cup {None}

Idle == [pc |-> "idle", floor |-> 0]

Init ==
    /\ now = 0
    /\ revokedAt = None /\ version = 0 /\ supersededAt = [v \in Version |-> None]
    /\ unannounced = {} /\ invalidated = 0
    /\ verifyEntry = None /\ verifyFlight = None
    /\ memberEntry = None /\ memberFlight = None /\ generation = 0
    /\ request = [r \in Request |-> Idle] /\ accepted = None /\ answer = None

-----------------------------------------------------------------------------
(* Supabase, and the routes that change it.                                 *)

Tick ==
    /\ now < MaxClock
    /\ now' = now + 1
    /\ UNCHANGED <<upstream, routeVars, verifyVars, memberVars, request>>

RevokeSession ==
    /\ revokedAt = None
    /\ revokedAt' = now
    /\ UNCHANGED <<now, version, supersededAt, routeVars, verifyVars, memberVars, request>>

\* By connect or disconnect, which invalidate afterwards, or by an invitation or
\* another replica, which do not.
ChangeMemberships ==
    /\ version < MaxVersion
    /\ version' = version + 1
    /\ supersededAt' = [supersededAt EXCEPT ![version] = now]
    /\ unannounced' \in {unannounced, unannounced \cup {version + 1}}
    /\ UNCHANGED <<now, revokedAt, invalidated, verifyVars, memberVars, request>>

\* invalidate_user, invalidate_all_memberships; the fetches are left alone.
Invalidate(v) ==
    /\ v \in unannounced /\ generation < MaxGeneration
    /\ unannounced' = unannounced \ {v}
    /\ invalidated' = IF v > invalidated THEN v ELSE invalidated
    /\ memberEntry' = None
    /\ generation' = generation + 1
    /\ UNCHANGED <<now, upstream, verifyVars, memberFlight, request>>

\* One generation serves the process: invalidate_user of another user leaves this
\* user's entry, invalidate_all_memberships of another's organization drops it too.
InvalidateOthers ==
    /\ generation < MaxGeneration
    /\ memberEntry' \in {memberEntry, None}
    /\ generation' = generation + 1
    /\ UNCHANGED <<now, upstream, routeVars, verifyVars, memberFlight, request>>

-----------------------------------------------------------------------------
(* The token.                                                               *)

Arrive(r) ==
    /\ request[r].pc = "idle"
    /\ request' = [request EXCEPT ![r] = [pc |-> "token", floor |-> invalidated]]
    /\ UNCHANGED <<now, upstream, routeVars, verifyVars, memberVars>>

Live(entry) == IF entry = None THEN FALSE ELSE now < entry.expires

\* cached_verify: a hit ...
VerifyHit(r) ==
    /\ request[r].pc = "token" /\ Live(verifyEntry)
    /\ request' = [request EXCEPT ![r].pc = "verified"]
    /\ accepted' = [at |-> now, asked |-> None] /\ answer' = None
    /\ UNCHANGED <<now, upstream, routeVars, verifyVars, memberVars>>

\* ... or the fetch in flight, however old, or a new one.
VerifyMiss(r) ==
    /\ request[r].pc = "token" /\ ~Live(verifyEntry)
    /\ request' = [request EXCEPT ![r].pc = "verifying"]
    /\ verifyEntry' = None
    /\ verifyFlight' = IF verifyFlight # None THEN verifyFlight
                       ELSE [started |-> now, seen |-> None]
    /\ UNCHANGED <<now, upstream, routeVars, memberVars>>

\* The auth server answers as of some moment of the fetch.
ReadSession ==
    /\ verifyFlight # None
    /\ verifyFlight.seen = None
    /\ verifyFlight' = [verifyFlight EXCEPT !.seen =
                          IF revokedAt = None /\ now < TokenExp THEN "valid" ELSE "denied"]
    /\ UNCHANGED <<now, upstream, routeVars, verifyEntry, memberVars, request>>

Wake(waiting, next) ==
    request' = [r \in Request |-> IF request[r].pc # waiting THEN request[r]
                                  ELSE IF next = "idle" THEN Idle
                                  ELSE [request[r] EXCEPT !.pc = next]]

Earlier(a, b) == IF a <= b THEN a ELSE b

\* Mutant: the deadline counts from the end of the fetch.
DeadlineFromNow(flight) == Earlier(now + Ttl, TokenExp)

VerifyDeadline(flight) == Earlier(flight.started + Ttl, TokenExp)

Waiting(where) == {r \in Request : request[r].pc = where}

\* _verify_and_store: a success is stored while it is live, and every request
\* that waits for it is accepted, whether it is stored or not.
Verified ==
    /\ verifyFlight # None
    /\ verifyFlight.seen = "valid"
    /\ verifyFlight' = None
    /\ verifyEntry' = IF now < VerifyDeadline(verifyFlight)
                      THEN [expires |-> VerifyDeadline(verifyFlight)] ELSE verifyEntry
    /\ Wake("verifying", "verified")
    /\ accepted' = IF Waiting("verifying") = {} THEN None
                   ELSE [at |-> now, asked |-> verifyFlight.started]
    /\ answer' = None
    /\ UNCHANGED <<now, upstream, routeVars, memberVars>>

\* 401, or 503 at any moment: nothing is stored.
VerifyFails ==
    /\ verifyFlight # None
    /\ verifyFlight.seen \in {None, "denied"}
    /\ verifyFlight' = None
    /\ Wake("verifying", "idle")
    /\ UNCHANGED <<now, upstream, routeVars, verifyEntry, memberVars>>

-----------------------------------------------------------------------------
(* The memberships.                                                         *)

\* cached_memberships: a hit ...
LookUpHit(r) ==
    /\ request[r].pc = "verified" /\ Live(memberEntry)
    /\ request' = [request EXCEPT ![r] = Idle]
    /\ answer' = [at |-> now, asked |-> None, floor |-> request[r].floor,
                  version |-> memberEntry.version, retried |-> FALSE]
    /\ accepted' = None
    /\ UNCHANGED <<now, upstream, routeVars, verifyVars, memberVars>>

\* ... or the fetch in flight, or a new one.
LookUpMiss(r) ==
    /\ request[r].pc = "verified" /\ ~Live(memberEntry)
    /\ request' = [request EXCEPT ![r].pc = "looking"]
    /\ memberEntry' = None
    /\ memberFlight' = IF memberFlight # None THEN memberFlight
                       ELSE [started |-> now, asked |-> now, generation |-> generation,
                             retry |-> FALSE, seen |-> None]
    /\ UNCHANGED <<now, upstream, routeVars, verifyVars, generation>>

ReadMemberships ==
    /\ memberFlight # None
    /\ memberFlight.seen = None
    /\ memberFlight' = [memberFlight EXCEPT !.seen = version]
    /\ UNCHANGED <<now, upstream, routeVars, verifyVars, memberEntry, generation, request>>

\* Every waiter gets the same memberships; one of them is remembered.
AnswerAll ==
    /\ Wake("looking", "idle")
    /\ accepted' = None
    /\ IF Waiting("looking") = {} THEN answer' = None
       ELSE \E r \in Waiting("looking") :
              answer' = [at |-> now, asked |-> memberFlight.asked, floor |-> request[r].floor,
                         version |-> memberFlight.seen, retried |-> memberFlight.retry]

\* Mutant: the lifetime of an entry counts from its publication.
LifetimeFromNow(flight) == now + Ttl

Lifetime(flight) == flight.started + Ttl

Unchallenged == memberFlight.generation = generation

\* Mutant: an invalidated fetch is answered as it is, uncached.
PublishOrAnswer ==
    /\ memberFlight # None
    /\ memberFlight.seen # None /\ ~memberFlight.retry
    /\ memberEntry' = IF Unchallenged /\ now < Lifetime(memberFlight)
                      THEN [expires |-> Lifetime(memberFlight), version |-> memberFlight.seen]
                      ELSE memberEntry
    /\ memberFlight' = None
    /\ AnswerAll
    /\ UNCHANGED <<now, upstream, routeVars, verifyVars, generation>>

\* _fetch_memberships: compare and publish under one lock ...
Publish ==
    /\ memberFlight # None
    /\ memberFlight.seen # None /\ ~memberFlight.retry /\ Unchallenged
    /\ memberEntry' = IF now < Lifetime(memberFlight)
                      THEN [expires |-> Lifetime(memberFlight), version |-> memberFlight.seen]
                      ELSE memberEntry
    /\ memberFlight' = None
    /\ AnswerAll
    /\ UNCHANGED <<now, upstream, routeVars, verifyVars, generation>>

\* ... or, when it was invalidated meanwhile, fetch once more ...
Refetch ==
    /\ memberFlight # None
    /\ memberFlight.seen # None /\ ~memberFlight.retry /\ ~Unchallenged
    /\ memberFlight' = [memberFlight EXCEPT !.retry = TRUE, !.asked = now, !.seen = None]
    /\ UNCHANGED <<now, upstream, routeVars, verifyVars, memberEntry, generation, request>>

\* ... and answer uncached, without looking at the generation again.
AnswerRetried ==
    /\ memberFlight # None
    /\ memberFlight.seen # None /\ memberFlight.retry
    /\ memberFlight' = None
    /\ AnswerAll
    /\ UNCHANGED <<now, upstream, routeVars, verifyVars, memberEntry, generation>>

LookupFails ==
    /\ memberFlight # None
    /\ memberFlight' = None
    /\ Wake("looking", "idle")
    /\ UNCHANGED <<now, upstream, routeVars, verifyVars, memberEntry, generation>>

\* Mutant: the fetch is cancelled with the request that waits for it.
CancelFetch(r) ==
    /\ request[r].pc \in {"verifying", "looking"}
    /\ request' = [request EXCEPT ![r] = Idle]
    /\ verifyFlight' = IF request[r].pc = "verifying" THEN None ELSE verifyFlight
    /\ memberFlight' = IF request[r].pc = "looking" THEN None ELSE memberFlight
    /\ UNCHANGED <<now, upstream, routeVars, verifyEntry, memberEntry, generation>>

\* The client hangs up; the shield keeps the fetch for the others.
Cancel(r) ==
    /\ request[r].pc \in {"verifying", "looking"}
    /\ request' = [request EXCEPT ![r] = Idle]
    /\ UNCHANGED <<now, upstream, routeVars, verifyVars, memberVars>>

-----------------------------------------------------------------------------

Deciding ==
    \/ \E r \in Request : VerifyHit(r) \/ LookUpHit(r)
    \/ Verified
    \/ Publish
    \/ AnswerRetried

Quiet ==
    \/ Tick
    \/ RevokeSession
    \/ ChangeMemberships
    \/ \E v \in Version : Invalidate(v)
    \/ InvalidateOthers
    \/ \E r \in Request : Arrive(r) \/ VerifyMiss(r) \/ LookUpMiss(r) \/ Cancel(r)
    \/ ReadSession
    \/ VerifyFails
    \/ ReadMemberships
    \/ Refetch
    \/ LookupFails

Quietly(step) == step /\ accepted' = None /\ answer' = None

Next == Deciding \/ Quietly(Quiet)

Spec == Init /\ [][Next]_vars

-----------------------------------------------------------------------------
(* Properties.                                                              *)

\* No request is ever parked on a fetch that nobody runs any more: whoever starts,
\* ends, invalidates or hangs up, a waiter still has the fetch that will wake it.
NoStrandedWaiter ==
    \A r \in Request : /\ request[r].pc = "verifying" => verifyFlight # None
                       /\ request[r].pc = "looking" => memberFlight # None

\* "The TTL is also the maximum revocation delay": a token is accepted from the
\* cache for less than a TTL after the session was revoked, and never once it has
\* expired, however slow the fetch that stored it. Who waits for a fetch is
\* accepted later than that only if the fetch was sent while the token was good.
AcceptanceBounded ==
    accepted # None =>
        \/ /\ accepted.at < TokenExp
           /\ revokedAt # None => accepted.at < revokedAt + Ttl
        \/ /\ accepted.asked # None
           /\ accepted.asked < TokenExp
           /\ revokedAt # None => accepted.asked <= revokedAt

\* Cached memberships are used for less than a TTL after they were replaced, by a
\* change that nobody announces included. A fetch that takes longer than a TTL
\* still answers those who wait for it, with what was current when it, or its
\* retry, was sent, and is not cached.
MembershipsBounded ==
    answer # None =>
        LET replaced == supersededAt[answer.version]
        IN  replaced # None => \/ answer.at < replaced + Ttl
                               \/ answer.asked # None /\ answer.asked <= replaced

\* A request that begins after an invalidation sees the change, unless it joins a
\* fetch that is already a retry.
FreshUnlessRetried == answer # None => answer.version >= answer.floor \/ answer.retried

\* docs/security-model.md: "the retried result is returned to that one request
\* ... the next request reads correctly".
NextRequestReadsCorrectly == answer # None => answer.version >= answer.floor
=============================================================================
