-------------------------- MODULE AuthCache_proofs --------------------------
(***************************************************************************)
(* The safety properties of AuthCache for every set of requests, every TTL  *)
(* of a second or more, every token and bound, and fetches of any length:   *)
(* type correctness, the two staleness bounds, and that an invalidation is  *)
(* never undone by a fetch it overtook.                                     *)
(***************************************************************************)
EXTENDS AuthCache, FiniteSetTheorems, TLAPS

(***************************************************************************)
(* The inductive invariant.                                                 *)
(***************************************************************************)

\* Only a change that has happened is announced.
Announced == unannounced \subseteq 1..version

\* Nothing is sent in the future, and a first fetch was sent when it started.
ClockInv ==
    /\ revokedAt # None => revokedAt <= now
    /\ verifyFlight # None => verifyFlight.started <= now
    /\ memberFlight # None => /\ memberFlight.started <= memberFlight.asked
                              /\ memberFlight.asked <= now
                              /\ ~memberFlight.retry => memberFlight.asked = memberFlight.started

\* An entry, or an answer in flight, is of a session that was live when the
\* fetch started.
TokenInv ==
    /\ verifyEntry # None =>
         /\ verifyEntry.expires <= TokenExp
         /\ verifyEntry.expires <= now + Ttl
         /\ revokedAt # None => verifyEntry.expires <= revokedAt + Ttl
    /\ verifyFlight # None => (verifyFlight.seen = "valid" =>
         /\ verifyFlight.started < TokenExp
         /\ revokedAt # None => verifyFlight.started <= revokedAt)

\* What is cached or in flight was current when it was asked for.
MemberInv ==
    /\ \A v \in Version : v >= version => supersededAt[v] = None
    /\ memberEntry # None =>
         /\ memberEntry.expires <= now + Ttl
         /\ supersededAt[memberEntry.version] # None =>
              memberEntry.expires <= supersededAt[memberEntry.version] + Ttl
    /\ memberFlight # None => (memberFlight.seen # None =>
         (supersededAt[memberFlight.seen] # None =>
              memberFlight.asked <= supersededAt[memberFlight.seen]))

\* A fetch that an invalidation overtook never publishes what it read before.
NoStaleEntry == memberEntry # None => memberEntry.version >= invalidated

\* A fetch that no invalidation has overtaken has seen every announced change.
FreshInv ==
    /\ invalidated <= version
    /\ \A r \in Request : request[r].floor <= invalidated
    /\ NoStaleEntry
    /\ memberFlight # None =>
         /\ memberFlight.generation <= generation
         /\ (memberFlight.seen # None /\ memberFlight.generation = generation /\ ~memberFlight.retry)
              => memberFlight.seen >= invalidated

IInv ==
    /\ TypeOK /\ Announced
    /\ NoStrandedWaiter
    /\ ClockInv
    /\ TokenInv /\ AcceptanceBounded
    /\ MemberInv /\ MembershipsBounded
    /\ FreshInv /\ FreshUnlessRetried

(***************************************************************************)
(* The initial states, and every step keeps the types.                      *)
(***************************************************************************)
LEMMA TypeInit == Init => TypeOK
BY TimeAssumption, VersionAssumption, NoneAssumption
   DEF Init, TypeOK, Idle, Waiter, Time, Version, Generation

\* A wake-up changes nothing of a request but where it is.
LEMMA WakeStep ==
  ASSUME TypeOK, NEW waiting, NEW next \in {"idle", "verified"}, Wake(waiting, next)
  PROVE  /\ request' \in [Request -> Waiter]
         /\ \A r \in Request : request'[r] = request[r] \/ request'[r].pc = next
         /\ \A r \in Request : /\ request'[r].pc # "idle" => request'[r].floor = request[r].floor
                               /\ request'[r].pc = waiting => waiting = next
<1> USE VersionAssumption DEF TypeOK, Waiter, Version
<1> Idle \in Waiter
  BY DEF Idle
<1>1. ASSUME NEW r \in Request PROVE [request[r] EXCEPT !.pc = next] \in Waiter
  OBVIOUS
<1> QED
  BY <1>1 DEF Wake, Idle

LEMMA AnswerStep ==
  ASSUME TypeOK, memberFlight # None, memberFlight.seen # None, AnswerAll
  PROVE  /\ request' \in [Request -> Waiter]
         /\ answer' \in Answer \cup {None}
         /\ accepted' = None
<1>1. memberFlight.seen \in Version /\ memberFlight.retry \in BOOLEAN /\ memberFlight.asked \in Time
  BY DEF TypeOK, MemberFetch
<1>2. request' \in [Request -> Waiter]
  BY WakeStep DEF AnswerAll
<1>3. now \in Time /\ \A r \in Request : request[r].floor \in Version
  BY DEF TypeOK, Waiter
<1> QED
  BY <1>1, <1>2, <1>3 DEF AnswerAll, Answer, Waiting

LEMMA AnnouncedStep == TypeOK /\ Announced /\ [Next]_vars => Announced'
<1> SUFFICES ASSUME TypeOK, Announced, [Next]_vars PROVE Announced'
    OBVIOUS
<1>1. version \in Nat
  BY VersionAssumption DEF TypeOK, Version
<1>2. CASE ChangeMemberships
  BY <1>1, <1>2 DEF ChangeMemberships, Announced
<1>3. ASSUME NEW v \in Version, Invalidate(v) PROVE Announced'
  BY <1>3 DEF Invalidate, upstream, Announced
<1>4. ASSUME UNCHANGED <<version, unannounced>> PROVE Announced'
  BY <1>4 DEF Announced
<1>5. ASSUME NEW r \in Request, Arrive(r) \/ VerifyHit(r) \/ VerifyMiss(r) \/ LookUpMiss(r) \/ Cancel(r)
                               \/ LookUpHit(r)
      PROVE  UNCHANGED <<version, unannounced>>
  BY <1>5 DEF Arrive, VerifyHit, VerifyMiss, LookUpMiss, Cancel, LookUpHit, upstream, routeVars
<1>6. CASE \/ Tick \/ RevokeSession \/ InvalidateOthers \/ ReadSession \/ Verified \/ VerifyFails
           \/ ReadMemberships \/ Refetch \/ LookupFails \/ Publish \/ AnswerRetried \/ UNCHANGED vars
  BY <1>4, <1>6 DEF Tick, RevokeSession, InvalidateOthers, ReadSession, Verified, VerifyFails,
                    ReadMemberships, Refetch, LookupFails, Publish, AnswerRetried, upstream, routeVars,
                    vars
<1> QED
  BY <1>2, <1>3, <1>4, <1>5, <1>6 DEF Next, Quietly, Quiet, Deciding

\* Every deadline stays in range, because nothing starts in the future.
LEMMA TypeStep == TypeOK /\ [Next]_vars => TypeOK'
<1> SUFFICES ASSUME TypeOK, [Next]_vars PROVE TypeOK'
    OBVIOUS
<1> USE TimeAssumption, VersionAssumption, NoneAssumption
<1> DEFINE Silent == accepted' = None /\ answer' = None
<1>1. ASSUME Silent, Tick \/ RevokeSession \/ ChangeMemberships PROVE TypeOK'
  <2>1. version \in Nat /\ version \in Version
    BY DEF TypeOK, Version
  <2>2. now' \in Time /\ revokedAt' \in Time \cup {None}
    BY <1>1 DEF Tick, RevokeSession, ChangeMemberships, upstream, TypeOK, Time
  <2>3. version' \in Version /\ unannounced' \in SUBSET Version
    <3>1. CASE ChangeMemberships
      <4>1. version + 1 \in Version
        BY <2>1, <3>1 DEF ChangeMemberships, Version
      <4> QED
        BY <3>1, <4>1 DEF ChangeMemberships, TypeOK
    <3> QED
      BY <1>1, <3>1 DEF Tick, RevokeSession, upstream, routeVars, TypeOK
  <2>4. supersededAt' \in [Version -> Time \cup {None}]
    BY <1>1 DEF Tick, RevokeSession, ChangeMemberships, upstream, TypeOK
  <2> QED
    BY <1>1, <2>2, <2>3, <2>4
       DEF Tick, RevokeSession, ChangeMemberships, upstream, routeVars, verifyVars, memberVars, TypeOK
<1>2. ASSUME Silent, InvalidateOthers \/ \E v \in Version : Invalidate(v) PROVE TypeOK'
  <2>1. generation' \in Generation
    BY <1>2 DEF Invalidate, InvalidateOthers, TypeOK, Generation
  <2> QED
    BY <1>2, <2>1 DEF Invalidate, InvalidateOthers, upstream, routeVars, verifyVars, TypeOK
<1>3. ASSUME Silent, NEW r \in Request, Arrive(r) \/ Cancel(r) PROVE TypeOK'
  <2>1. Idle \in Waiter /\ [pc |-> "token", floor |-> invalidated] \in Waiter
    BY DEF TypeOK, Idle, Waiter, Version
  <2>2. request' \in [Request -> Waiter]
    BY <1>3, <2>1 DEF Arrive, Cancel, TypeOK
  <2> QED
    BY <1>3, <2>2 DEF Arrive, Cancel, upstream, routeVars, verifyVars, memberVars, TypeOK
<1>4. ASSUME NEW r \in Request, VerifyHit(r) \/ (Silent /\ VerifyMiss(r)) PROVE TypeOK'
  <2>1. request' \in [Request -> Waiter]
    BY <1>4 DEF VerifyHit, VerifyMiss, TypeOK, Waiter
  <2>2. verifyEntry' \in VerifyEntry \cup {None} /\ verifyFlight' \in VerifyFetch \cup {None}
    BY <1>4 DEF VerifyHit, VerifyMiss, verifyVars, TypeOK, VerifyFetch
  <2>3. accepted' \in Acceptance \cup {None} /\ answer' = None
    BY <1>4 DEF VerifyHit, TypeOK, Acceptance
  <2> QED
    BY <1>4, <2>1, <2>2, <2>3 DEF VerifyHit, VerifyMiss, upstream, routeVars, memberVars, TypeOK
<1>5. ASSUME Silent, NEW r \in Request, LookUpMiss(r) PROVE TypeOK'
  <2>1. request' \in [Request -> Waiter]
    BY <1>5 DEF LookUpMiss, TypeOK, Waiter
  <2>2. memberEntry' \in MemberEntry \cup {None} /\ memberFlight' \in MemberFetch \cup {None}
    BY <1>5 DEF LookUpMiss, TypeOK, MemberFetch
  <2> QED
    BY <1>5, <2>1, <2>2 DEF LookUpMiss, upstream, routeVars, verifyVars, TypeOK
<1>6. ASSUME NEW r \in Request, LookUpHit(r) PROVE TypeOK'
  <2>1. memberEntry \in MemberEntry
    BY <1>6 DEF LookUpHit, Live, TypeOK
  <2>2. request' \in [Request -> Waiter] /\ answer' \in Answer \cup {None} /\ accepted' = None
    BY <1>6, <2>1 DEF LookUpHit, TypeOK, Idle, Waiter, Answer, MemberEntry, Time, Version
  <2> QED
    BY <1>6, <2>2 DEF LookUpHit, upstream, routeVars, verifyVars, memberVars, TypeOK
<1>7. ASSUME Silent, ReadSession \/ ReadMemberships \/ Refetch PROVE TypeOK'
  <2>1. verifyFlight' \in VerifyFetch \cup {None}
    BY <1>7 DEF ReadSession, ReadMemberships, Refetch, verifyVars, TypeOK, VerifyFetch
  <2>2. memberFlight' \in MemberFetch \cup {None}
    BY <1>7 DEF ReadSession, ReadMemberships, Refetch, memberVars, TypeOK, MemberFetch
  <2> QED
    BY <1>7, <2>1, <2>2 DEF ReadSession, ReadMemberships, Refetch, upstream, routeVars, verifyVars,
                            memberVars, TypeOK
<1>8. CASE Verified
  <2>1. request' \in [Request -> Waiter]
    BY <1>8, WakeStep DEF Verified
  <2>2. verifyFlight \in VerifyFetch
    BY <1>8 DEF Verified, TypeOK
  <2>3. verifyEntry' \in VerifyEntry \cup {None}
    <3>1. VerifyDeadline(verifyFlight) \in Int /\ VerifyDeadline(verifyFlight) <= MaxClock + Ttl
      BY <2>2 DEF VerifyDeadline, Earlier, VerifyFetch, Time
    <3>2. now < VerifyDeadline(verifyFlight) => VerifyDeadline(verifyFlight) \in Past
      BY <3>1 DEF Past, TypeOK, Time
    <3> QED
      BY <1>8, <3>2 DEF Verified, VerifyEntry, TypeOK
  <2>4. accepted' \in Acceptance \cup {None}
    BY <1>8, <2>2 DEF Verified, TypeOK, Acceptance, VerifyFetch
  <2> QED
    BY <1>8, <2>1, <2>3, <2>4 DEF Verified, upstream, routeVars, memberVars, TypeOK
<1>9. CASE Publish \/ AnswerRetried
  <2>1. memberFlight # None /\ memberFlight.seen # None /\ memberFlight \in MemberFetch
    BY <1>9 DEF Publish, AnswerRetried, TypeOK
  <2>2. request' \in [Request -> Waiter] /\ answer' \in Answer \cup {None} /\ accepted' = None
    BY <1>9, <2>1, AnswerStep DEF Publish, AnswerRetried
  <2>3. memberEntry' \in MemberEntry \cup {None}
    BY <1>9, <2>1 DEF Publish, AnswerRetried, Lifetime, TypeOK, MemberEntry, MemberFetch, Past, Time
  <2> QED
    BY <1>9, <2>2, <2>3 DEF Publish, AnswerRetried, upstream, routeVars, verifyVars, TypeOK
<1>10. ASSUME Silent, VerifyFails \/ LookupFails PROVE TypeOK'
  <2>1. request' \in [Request -> Waiter]
    BY <1>10, WakeStep DEF VerifyFails, LookupFails
  <2> QED
    BY <1>10, <2>1 DEF VerifyFails, LookupFails, upstream, routeVars, verifyVars, memberVars, TypeOK
<1>11. CASE UNCHANGED vars
  BY <1>11 DEF vars, upstream, routeVars, verifyVars, memberVars, history, TypeOK
<1> QED
  BY <1>1, <1>2, <1>3, <1>4, <1>5, <1>6, <1>7, <1>8, <1>9, <1>10, <1>11
     DEF Next, Quietly, Quiet, Deciding

(***************************************************************************)
(* Fetches, waiters and the clock.                                          *)
(***************************************************************************)

\* Requests move on as they are, or start and end afresh.
LEMMA RequestStep ==
  ASSUME TypeOK, [Next]_vars, NEW r \in Request
  PROVE  request'[r].floor \in {request[r].floor, 0, invalidated}
<1> USE DEF Idle
<1>1. ASSUME UNCHANGED request PROVE request'[r] = request[r]
  BY <1>1
<1>2. ASSUME NEW waiting, NEW next \in {"idle", "verified"}, Wake(waiting, next)
      PROVE  \/ request'[r] \in {request[r], Idle}
             \/ request'[r] = [request[r] EXCEPT !.pc = next]
  BY <1>2 DEF Wake
<1>3. ASSUME NEW q \in Request, Arrive(q) \/ VerifyHit(q) \/ VerifyMiss(q) \/ LookUpMiss(q) \/ Cancel(q)
                               \/ LookUpHit(q)
      PROVE  request'[r].floor \in {request[r].floor, 0, invalidated}
  <2>1. request \in [Request -> Waiter] /\ request[r] \in Waiter
    BY DEF TypeOK
  <2> QED
    BY <1>3, <2>1 DEF Arrive, VerifyHit, VerifyMiss, LookUpMiss, Cancel, LookUpHit, Waiter
<1>4. CASE Verified \/ VerifyFails \/ LookupFails \/ Publish \/ AnswerRetried
  <2>1. \/ request'[r] \in {request[r], Idle}
        \/ \E next \in {"idle", "verified"} : request'[r] = [request[r] EXCEPT !.pc = next]
    BY <1>2, <1>4 DEF Verified, VerifyFails, LookupFails, Publish, AnswerRetried, AnswerAll
  <2>2. request[r] \in Waiter
    BY DEF TypeOK
  <2> QED
    BY <2>1, <2>2 DEF Waiter
<1>5. CASE \/ Tick \/ RevokeSession \/ ChangeMemberships \/ (\E v \in Version : Invalidate(v))
           \/ InvalidateOthers \/ ReadSession \/ ReadMemberships \/ Refetch \/ UNCHANGED vars
  BY <1>1, <1>5 DEF Tick, RevokeSession, ChangeMemberships, Invalidate, InvalidateOthers, ReadSession,
                    ReadMemberships, Refetch, vars
<1> QED
  BY <1>3, <1>4, <1>5 DEF Next, Quietly, Quiet, Deciding

\* A fetch leaves its registry only in the step that wakes all its waiters.
LEMMA StrandStep == TypeOK /\ NoStrandedWaiter /\ [Next]_vars => NoStrandedWaiter'
<1> SUFFICES ASSUME TypeOK, NoStrandedWaiter, [Next]_vars PROVE NoStrandedWaiter'
    OBVIOUS
<1> USE NoneAssumption
<1>1. CASE UNCHANGED <<request, verifyFlight, memberFlight>>
  BY <1>1 DEF NoStrandedWaiter
<1>2. CASE Tick \/ RevokeSession \/ ChangeMemberships \/ UNCHANGED vars
  BY <1>1, <1>2 DEF Tick, RevokeSession, ChangeMemberships, vars, verifyVars, memberVars
<1>3. CASE InvalidateOthers \/ \E v \in Version : Invalidate(v)
  BY <1>1, <1>3 DEF Invalidate, InvalidateOthers, verifyVars
<1>4. ASSUME NEW r \in Request, Arrive(r) \/ Cancel(r) \/ LookUpHit(r) \/ VerifyHit(r)
      PROVE  NoStrandedWaiter'
  <2>1. request'[r].pc \in {"token", "idle", "verified"} /\ UNCHANGED <<verifyFlight, memberFlight>>
        /\ \A q \in Request \ {r} : request'[q] = request[q]
    BY <1>4 DEF Arrive, Cancel, LookUpHit, VerifyHit, verifyVars, memberVars, Idle, TypeOK, Waiter
  <2> QED
    BY <2>1 DEF NoStrandedWaiter
<1>5. ASSUME NEW r \in Request, VerifyMiss(r) PROVE NoStrandedWaiter'
  <2>1. [started |-> now, seen |-> None] \in VerifyFetch
    BY DEF VerifyFetch, TypeOK
  <2>2. /\ request'[r].pc = "verifying" /\ verifyFlight' # None
        /\ \A q \in Request \ {r} : request'[q] = request[q]
        /\ verifyFlight # None => verifyFlight' = verifyFlight
        /\ memberFlight' = memberFlight
    BY <1>5, <2>1 DEF VerifyMiss, memberVars, TypeOK, Waiter
  <2> QED
    BY <2>2 DEF NoStrandedWaiter
<1>6. ASSUME NEW r \in Request, LookUpMiss(r) PROVE NoStrandedWaiter'
  <2>1. memberFlight' # None
    <3>1. [started |-> now, asked |-> now, generation |-> generation, retry |-> FALSE,
           seen |-> None] \in MemberFetch
      BY DEF MemberFetch, TypeOK
    <3> QED
      BY <1>6, <3>1 DEF LookUpMiss
  <2>2. /\ request'[r].pc = "looking" /\ verifyFlight' = verifyFlight
        /\ \A q \in Request \ {r} : request'[q] = request[q]
    BY <1>6 DEF LookUpMiss, verifyVars, TypeOK, Waiter
  <2> QED
    BY <2>1, <2>2 DEF NoStrandedWaiter
<1>7. CASE ReadSession \/ ReadMemberships \/ Refetch
  <2>1. verifyFlight # None => verifyFlight' # None
    BY <1>7 DEF ReadSession, ReadMemberships, Refetch, verifyVars, TypeOK, VerifyFetch
  <2>2. memberFlight # None => memberFlight' # None
    <3>1. CASE ReadMemberships \/ Refetch
      <4>1. memberFlight' \in MemberFetch
        BY <3>1 DEF ReadMemberships, Refetch, TypeOK, MemberFetch
      <4> QED
        BY <4>1
    <3> QED
      BY <1>7, <3>1 DEF ReadSession, memberVars
  <2> QED
    BY <1>7, <2>1, <2>2 DEF ReadSession, ReadMemberships, Refetch, NoStrandedWaiter
<1>8. CASE Verified \/ VerifyFails
  <2>1. /\ memberFlight' = memberFlight
        /\ \A r \in Request : request'[r].pc # "verifying"
        /\ \A r \in Request : request'[r].pc = "looking" => request[r].pc = "looking"
    BY <1>8, WakeStep DEF Verified, VerifyFails, memberVars
  <2> QED
    BY <2>1 DEF NoStrandedWaiter
<1>9. CASE LookupFails \/ Publish \/ AnswerRetried
  <2>1. /\ verifyFlight' = verifyFlight
        /\ \A r \in Request : request'[r].pc # "looking"
        /\ \A r \in Request : request'[r].pc = "verifying" => request[r].pc = "verifying"
    BY <1>9, WakeStep DEF LookupFails, Publish, AnswerRetried, AnswerAll, verifyVars
  <2> QED
    BY <2>1 DEF NoStrandedWaiter
<1> QED
  BY <1>2, <1>3, <1>4, <1>5, <1>6, <1>7, <1>8, <1>9 DEF Next, Quietly, Quiet, Deciding

LEMMA ClockStep == TypeOK /\ ClockInv /\ [Next]_vars => ClockInv'
<1> SUFFICES ASSUME TypeOK, ClockInv, [Next]_vars PROVE ClockInv'
    OBVIOUS
<1> USE TimeAssumption, NoneAssumption
<1>1. now \in Nat
  BY DEF TypeOK, Time
<1>2. /\ verifyFlight # None => verifyFlight.started \in Nat
      /\ memberFlight # None => memberFlight.started \in Nat /\ memberFlight.asked \in Nat
      /\ revokedAt # None => revokedAt \in Nat
  BY DEF TypeOK, VerifyFetch, MemberFetch, Time
<1>3. CASE UNCHANGED <<now, revokedAt, verifyFlight, memberFlight>>
  BY <1>3 DEF ClockInv
<1>4. CASE Tick
  BY <1>1, <1>2, <1>4 DEF Tick, upstream, verifyVars, memberVars, ClockInv
<1>5. CASE RevokeSession
  BY <1>1, <1>5 DEF RevokeSession, verifyVars, memberVars, ClockInv
<1>6. CASE \/ ChangeMemberships \/ InvalidateOthers \/ (\E v \in Version : Invalidate(v)) \/ UNCHANGED vars
  BY <1>3, <1>6 DEF ChangeMemberships, Invalidate, InvalidateOthers, vars, upstream, verifyVars, memberVars
<1>7. ASSUME NEW r \in Request, Arrive(r) \/ Cancel(r) \/ LookUpHit(r) \/ VerifyHit(r) PROVE ClockInv'
  BY <1>3, <1>7 DEF Arrive, Cancel, LookUpHit, VerifyHit, upstream, verifyVars, memberVars
<1>8. ASSUME NEW r \in Request, VerifyMiss(r) PROVE ClockInv'
  BY <1>1, <1>8 DEF VerifyMiss, upstream, memberVars, ClockInv
<1>9. ASSUME NEW r \in Request, LookUpMiss(r) PROVE ClockInv'
  BY <1>1, <1>9 DEF LookUpMiss, upstream, verifyVars, ClockInv
<1>10. CASE ReadSession
  <2>1. verifyFlight'.started = verifyFlight.started /\ verifyFlight # None
    BY <1>10 DEF ReadSession, TypeOK, VerifyFetch
  <2> QED
    BY <1>10, <2>1 DEF ReadSession, upstream, memberVars, ClockInv
<1>11. CASE ReadMemberships \/ Refetch
  <2>1. /\ memberFlight # None /\ memberFlight \in MemberFetch
        /\ memberFlight'.started = memberFlight.started
        /\ \/ memberFlight'.asked = memberFlight.asked /\ memberFlight'.retry = memberFlight.retry
           \/ memberFlight'.asked = now /\ memberFlight'.retry = TRUE
    BY <1>11 DEF ReadMemberships, Refetch, TypeOK, MemberFetch
  <2>2. UNCHANGED <<now, revokedAt, verifyFlight>>
    BY <1>11 DEF ReadMemberships, Refetch, upstream, verifyVars
  <2> QED
    BY <1>1, <1>2, <2>1, <2>2 DEF ClockInv
<1>12. CASE Verified \/ VerifyFails \/ LookupFails \/ Publish \/ AnswerRetried
  BY <1>12 DEF Verified, VerifyFails, LookupFails, Publish, AnswerRetried, upstream, verifyVars,
               memberVars, ClockInv
<1> QED
  BY <1>4, <1>5, <1>6, <1>7, <1>8, <1>9, <1>10, <1>11, <1>12
     DEF Next, Quietly, Quiet, Deciding

(***************************************************************************)
(* The token.                                                               *)
(***************************************************************************)

\* What a valid answer lets the cache promise.
LEMMA DeadlineBounds ==
  ASSUME NEW flight, flight.started \in Nat
  PROVE  /\ VerifyDeadline(flight) \in Nat
         /\ VerifyDeadline(flight) <= flight.started + Ttl
         /\ VerifyDeadline(flight) <= TokenExp
BY TimeAssumption DEF VerifyDeadline, Earlier

LEMMA TokenStep == TypeOK /\ ClockInv /\ TokenInv /\ [Next]_vars => TokenInv'
<1> SUFFICES ASSUME TypeOK, ClockInv, TokenInv, [Next]_vars PROVE TokenInv'
    OBVIOUS
<1> USE TimeAssumption, NoneAssumption
<1>1. /\ now \in Nat
      /\ revokedAt # None => revokedAt \in Nat
      /\ verifyEntry # None => verifyEntry.expires \in Nat
      /\ verifyFlight # None => verifyFlight.started \in Nat
  BY DEF TypeOK, Time, VerifyEntry, Past, VerifyFetch
<1>2. CASE UNCHANGED <<now, revokedAt, verifyEntry, verifyFlight>>
  BY <1>2 DEF TokenInv
<1>3. CASE ChangeMemberships \/ ReadMemberships \/ Refetch \/ LookupFails \/ Publish \/ AnswerRetried
           \/ UNCHANGED vars
  BY <1>2, <1>3 DEF ChangeMemberships, ReadMemberships, Refetch, LookupFails, Publish, AnswerRetried,
                    vars, upstream, verifyVars
<1>4. CASE InvalidateOthers \/ \E v \in Version : Invalidate(v)
  BY <1>2, <1>4 DEF Invalidate, InvalidateOthers, upstream, verifyVars
<1>5. ASSUME NEW r \in Request, Arrive(r) \/ Cancel(r) \/ LookUpHit(r) \/ LookUpMiss(r) \/ VerifyHit(r)
      PROVE  TokenInv'
  BY <1>2, <1>5 DEF Arrive, Cancel, LookUpHit, LookUpMiss, VerifyHit, upstream, verifyVars
<1>6. CASE Tick
  BY <1>1, <1>6 DEF Tick, upstream, verifyVars, TokenInv
<1>7. CASE RevokeSession
  BY <1>1, <1>7 DEF RevokeSession, verifyVars, TokenInv, ClockInv
<1>8. ASSUME NEW r \in Request, VerifyMiss(r) PROVE TokenInv'
  <2>1. verifyFlight' = verifyFlight \/ verifyFlight'.seen = None
    BY <1>8 DEF VerifyMiss
  <2>2. verifyEntry' = None /\ UNCHANGED <<now, revokedAt>>
    BY <1>8 DEF VerifyMiss, upstream
  <2> QED
    BY <2>1, <2>2 DEF TokenInv
<1>9. CASE ReadSession
  <2>1. verifyFlight # None /\ verifyFlight'.started = verifyFlight.started
        /\ (verifyFlight'.seen = "valid" => revokedAt = None /\ now < TokenExp)
    BY <1>9 DEF ReadSession, TypeOK, VerifyFetch
  <2>2. UNCHANGED <<now, revokedAt, verifyEntry>>
    BY <1>9 DEF ReadSession, upstream
  <2> QED
    BY <1>1, <2>1, <2>2 DEF TokenInv, ClockInv
<1>10. CASE Verified \/ VerifyFails
  <2>1. UNCHANGED <<now, revokedAt>> /\ verifyFlight # None /\ verifyFlight' = None
    BY <1>10 DEF Verified, VerifyFails, upstream
  <2>2. verifyEntry' = verifyEntry
        \/ (verifyFlight.seen = "valid" /\ verifyEntry' = [expires |-> VerifyDeadline(verifyFlight)])
    BY <1>10 DEF Verified, VerifyFails
  <2> QED
    BY <1>1, <2>1, <2>2, DeadlineBounds DEF TokenInv, ClockInv
<1> QED
  BY <1>3, <1>4, <1>5, <1>6, <1>7, <1>8, <1>9, <1>10 DEF Next, Quietly, Quiet, Deciding

\* A request gets past the token by a live entry or by a fetch that saw it valid.
LEMMA AcceptanceStep ==
  TypeOK /\ TokenInv /\ AcceptanceBounded /\ [Next]_vars => AcceptanceBounded'
<1> SUFFICES ASSUME TypeOK, TokenInv, AcceptanceBounded, [Next]_vars, accepted' # None
             PROVE  AcceptanceBounded'
    BY DEF AcceptanceBounded
<1> USE TimeAssumption, NoneAssumption
<1>1. /\ now \in Nat
      /\ revokedAt # None => revokedAt \in Nat
      /\ verifyEntry # None => verifyEntry.expires \in Nat
      /\ verifyFlight # None => verifyFlight.started \in Nat /\ verifyFlight.started \in Time
  BY DEF TypeOK, Time, VerifyEntry, Past, VerifyFetch
<1>2. CASE UNCHANGED vars
  BY <1>2 DEF vars, upstream, history, AcceptanceBounded
<1>3. ASSUME NEW r \in Request, VerifyHit(r) PROVE AcceptanceBounded'
  <2>1. /\ verifyEntry # None /\ now < verifyEntry.expires
        /\ accepted' = [at |-> now, asked |-> None] /\ revokedAt' = revokedAt
    BY <1>3 DEF VerifyHit, Live, upstream
  <2> QED
    BY <1>1, <2>1 DEF TokenInv, AcceptanceBounded
<1>4. CASE Verified
  <2>1. /\ verifyFlight # None /\ verifyFlight.seen = "valid" /\ revokedAt' = revokedAt
        /\ accepted' = [at |-> now, asked |-> verifyFlight.started]
    BY <1>4 DEF Verified, upstream
  <2>2. verifyFlight.started # None
    BY <1>1, <2>1
  <2> QED
    BY <1>1, <2>1, <2>2 DEF TokenInv, AcceptanceBounded
<1> QED
  BY <1>2, <1>3, <1>4 DEF Next, Quietly, Deciding, LookUpHit, Publish, AnswerRetried, AnswerAll

(***************************************************************************)
(* The memberships.                                                         *)
(***************************************************************************)

LEMMA MemberStep == TypeOK /\ ClockInv /\ MemberInv /\ [Next]_vars => MemberInv'
<1> SUFFICES ASSUME TypeOK, ClockInv, MemberInv, [Next]_vars PROVE MemberInv'
    OBVIOUS
<1> USE TimeAssumption, VersionAssumption, NoneAssumption
<1>1. /\ now \in Nat
      /\ \A v \in Version : supersededAt[v] # None => supersededAt[v] \in Nat
      /\ memberEntry # None => memberEntry.expires \in Nat /\ memberEntry.version \in Version
      /\ memberFlight # None => /\ memberFlight.started \in Nat /\ memberFlight.asked \in Nat
                                /\ memberFlight.seen # None => memberFlight.seen \in Version
  BY DEF TypeOK, Time, MemberEntry, Past, MemberFetch
<1>2. CASE UNCHANGED <<now, version, supersededAt, memberEntry, memberFlight>>
  BY <1>2 DEF MemberInv
<1>3. CASE RevokeSession \/ ReadSession \/ Verified \/ VerifyFails \/ UNCHANGED vars
  BY <1>2, <1>3 DEF RevokeSession, ReadSession, Verified, VerifyFails, vars, upstream, memberVars
<1>4. ASSUME NEW r \in Request, Arrive(r) \/ Cancel(r) \/ VerifyHit(r) \/ VerifyMiss(r) \/ LookUpHit(r)
      PROVE  MemberInv'
  BY <1>2, <1>4 DEF Arrive, Cancel, VerifyHit, VerifyMiss, LookUpHit, upstream, memberVars
<1>5. CASE Tick
  BY <1>1, <1>5 DEF Tick, upstream, memberVars, MemberInv
<1>6. CASE ChangeMemberships
  <2>1. /\ version \in Nat /\ version \in Version /\ version' = version + 1
        /\ UNCHANGED <<now, memberEntry, memberFlight>>
    BY <1>6 DEF ChangeMemberships, memberVars, TypeOK, Version
  <2>2. /\ supersededAt'[version] = now
        /\ \A v \in Version \ {version} : supersededAt'[v] = supersededAt[v]
    BY <1>6, <2>1 DEF ChangeMemberships, TypeOK
  <2>3. \A v \in Version : v >= version' => supersededAt'[v] = None
    BY <2>1, <2>2 DEF MemberInv, Version
  <2>4. memberEntry # None => (supersededAt'[memberEntry.version] # None =>
                                 memberEntry.expires <= supersededAt'[memberEntry.version] + Ttl)
    BY <1>1, <2>2 DEF MemberInv
  <2>5. memberFlight # None => (memberFlight.seen # None =>
          (supersededAt'[memberFlight.seen] # None =>
             memberFlight.asked <= supersededAt'[memberFlight.seen]))
    BY <1>1, <2>2 DEF MemberInv, ClockInv
  <2> QED
    BY <2>1, <2>3, <2>4, <2>5 DEF MemberInv
<1>7. CASE InvalidateOthers \/ \E v \in Version : Invalidate(v)
  BY <1>7 DEF Invalidate, InvalidateOthers, upstream, MemberInv
<1>8. ASSUME NEW r \in Request, LookUpMiss(r) PROVE MemberInv'
  <2>1. memberFlight' = memberFlight \/ memberFlight'.seen = None
    BY <1>8 DEF LookUpMiss
  <2> QED
    BY <1>8, <2>1 DEF LookUpMiss, upstream, MemberInv
<1>9. CASE ReadMemberships
  <2>1. memberFlight # None /\ memberFlight'.seen = version
    BY <1>9 DEF ReadMemberships, TypeOK, MemberFetch
  <2>2. version \in Version /\ version >= version
    BY DEF TypeOK, Version
  <2>3. supersededAt[version] = None
    BY <2>2 DEF MemberInv
  <2> QED
    BY <1>9, <2>1, <2>3 DEF ReadMemberships, upstream, MemberInv
<1>10. CASE Refetch
  <2>1. memberFlight'.seen = None
    BY <1>10 DEF Refetch, TypeOK, MemberFetch
  <2> QED
    BY <1>10, <2>1 DEF Refetch, upstream, MemberInv
<1>11. CASE LookupFails \/ AnswerRetried
  BY <1>11 DEF LookupFails, AnswerRetried, upstream, MemberInv
<1>12. CASE Publish
  <2>1. /\ UNCHANGED <<now, version, supersededAt>> /\ memberFlight # None /\ memberFlight.seen # None
        /\ ~memberFlight.retry /\ memberFlight' = None
        /\ \/ memberEntry' = memberEntry
           \/ memberEntry' = [expires |-> memberFlight.started + Ttl, version |-> memberFlight.seen]
    BY <1>12 DEF Publish, upstream, Lifetime
  <2>2. memberFlight.asked = memberFlight.started /\ memberFlight.started <= now
    BY <2>1 DEF ClockInv
  <2> QED
    BY <1>1, <2>1, <2>2 DEF MemberInv
<1> QED
  BY <1>3, <1>4, <1>5, <1>6, <1>7, <1>8, <1>9, <1>10, <1>11, <1>12 DEF Next, Quietly, Quiet, Deciding

\* An answer comes from a live entry or from what a fetch read after it was sent.
LEMMA BoundStep ==
  TypeOK /\ MemberInv /\ MembershipsBounded /\ [Next]_vars => MembershipsBounded'
<1> SUFFICES ASSUME TypeOK, MemberInv, MembershipsBounded, [Next]_vars, answer' # None,
                    supersededAt'[answer'.version] # None
             PROVE  \/ answer'.at < supersededAt'[answer'.version] + Ttl
                    \/ answer'.asked # None /\ answer'.asked <= supersededAt'[answer'.version]
    BY DEF MembershipsBounded
<1> USE TimeAssumption, NoneAssumption
<1>1. /\ now \in Nat
      /\ \A v \in Version : supersededAt[v] # None => supersededAt[v] \in Nat
      /\ memberEntry # None => memberEntry.expires \in Nat /\ memberEntry.version \in Version
      /\ memberFlight # None => /\ memberFlight.asked \in Nat
                                /\ memberFlight.seen # None => memberFlight.seen \in Version
  BY DEF TypeOK, Time, MemberEntry, Past, MemberFetch
<1>2. CASE UNCHANGED vars
  BY <1>2 DEF vars, upstream, history, MembershipsBounded
<1>3. ASSUME NEW r \in Request, LookUpHit(r)
      PROVE  answer'.at < supersededAt'[answer'.version] + Ttl
  <2>1. memberEntry # None /\ now < memberEntry.expires /\ supersededAt' = supersededAt
        /\ answer'.at = now /\ answer'.version = memberEntry.version
    BY <1>3 DEF LookUpHit, Live, upstream
  <2>2. memberEntry.expires <= supersededAt[memberEntry.version] + Ttl
    BY <2>1 DEF MemberInv
  <2> QED
    BY <1>1, <2>1, <2>2
<1>4. CASE Publish \/ AnswerRetried
  <2>1. /\ memberFlight # None /\ memberFlight.seen # None /\ supersededAt' = supersededAt
        /\ answer'.asked = memberFlight.asked /\ answer'.version = memberFlight.seen
    BY <1>4 DEF Publish, AnswerRetried, AnswerAll, upstream
  <2>2. memberFlight.asked <= supersededAt[memberFlight.seen]
    BY <2>1 DEF MemberInv
  <2>3. memberFlight.asked # None
    BY <1>1, <2>1
  <2> QED
    BY <2>1, <2>2, <2>3
<1> QED
  BY <1>2, <1>3, <1>4 DEF Next, Quietly, Deciding, VerifyHit, Verified

(***************************************************************************)
(* Invalidations.                                                           *)
(***************************************************************************)
LEMMA FreshStep == TypeOK /\ Announced /\ FreshInv /\ [Next]_vars => FreshInv'
<1> SUFFICES ASSUME TypeOK, Announced, FreshInv, [Next]_vars PROVE FreshInv'
    OBVIOUS
<1> USE TimeAssumption, VersionAssumption, NoneAssumption
<1>1. /\ version \in Nat /\ invalidated \in Nat /\ generation \in Nat
      /\ \A r \in Request : request[r].floor \in Nat
      /\ memberEntry # None => memberEntry.version \in Nat
      /\ memberFlight # None => /\ memberFlight.generation \in Nat
                                /\ memberFlight.seen # None => memberFlight.seen \in Nat
  BY DEF TypeOK, Version, Generation, Waiter, MemberEntry, MemberFetch
<1> DEFINE Overtaken(flight) ==
             flight # None =>
               /\ flight.generation <= generation'
               /\ (flight.seen # None /\ flight.generation = generation' /\ ~flight.retry)
                    => flight.seen >= invalidated'
<1>2. ASSUME invalidated' >= invalidated PROVE \A r \in Request : request'[r].floor <= invalidated'
  <2>1. invalidated' \in Nat
    BY <1>1 DEF Next, Quietly, Quiet, Deciding, Tick, RevokeSession, ChangeMemberships, Invalidate,
                InvalidateOthers, Arrive, VerifyHit, VerifyMiss, LookUpMiss, Cancel, LookUpHit,
                ReadSession, Verified, VerifyFails, ReadMemberships, Refetch, LookupFails, Publish,
                AnswerRetried, routeVars, vars, Version
  <2> QED
    BY <1>1, <1>2, <2>1, RequestStep DEF FreshInv
<1>3. ASSUME UNCHANGED <<version, invalidated, generation, memberEntry>>,
             Overtaken(memberFlight')
      PROVE  FreshInv'
  BY <1>1, <1>2, <1>3 DEF FreshInv, NoStaleEntry
<1>4. Overtaken(memberFlight) \/ ~UNCHANGED <<invalidated, generation>>
  BY DEF FreshInv
<1>5. CASE Tick \/ RevokeSession \/ ReadSession \/ Verified \/ VerifyFails \/ UNCHANGED vars
  BY <1>3, <1>4, <1>5 DEF Tick, RevokeSession, ReadSession, Verified, VerifyFails, vars, upstream,
                          routeVars, memberVars
<1>6. ASSUME NEW r \in Request, Arrive(r) \/ Cancel(r) \/ VerifyHit(r) \/ VerifyMiss(r) \/ LookUpHit(r)
      PROVE  FreshInv'
  BY <1>3, <1>4, <1>6 DEF Arrive, Cancel, VerifyHit, VerifyMiss, LookUpHit, upstream, routeVars,
                          memberVars
<1>7. CASE ChangeMemberships
  <2>1. /\ version' = version + 1 /\ UNCHANGED <<invalidated, generation, memberEntry, memberFlight>>
    BY <1>7 DEF ChangeMemberships, memberVars
  <2> QED
    BY <1>1, <1>2, <2>1 DEF FreshInv, NoStaleEntry
<1>8. ASSUME NEW v \in Version, Invalidate(v) PROVE FreshInv'
  <2>1. v \in Nat /\ v <= version
    BY <1>8 DEF Invalidate, Version, Announced
  <2>2. /\ generation' = generation + 1 /\ memberEntry' = None
        /\ UNCHANGED <<version, memberFlight>>
        /\ invalidated' \in {v, invalidated} /\ invalidated' >= invalidated
    BY <1>1, <1>8, <2>1 DEF Invalidate, upstream
  <2>3. invalidated' <= version'
    BY <1>1, <2>1, <2>2 DEF FreshInv
  <2>4. Overtaken(memberFlight')
    BY <1>1, <2>2 DEF FreshInv
  <2> QED
    BY <1>2, <2>2, <2>3, <2>4 DEF FreshInv, NoStaleEntry
<1>9. CASE InvalidateOthers
  <2>1. /\ generation' = generation + 1 /\ memberEntry' \in {memberEntry, None}
        /\ UNCHANGED <<version, invalidated, memberFlight>>
    BY <1>9 DEF InvalidateOthers, upstream, routeVars
  <2>2. Overtaken(memberFlight')
    BY <1>1, <2>1 DEF FreshInv
  <2> QED
    BY <1>1, <1>2, <2>1, <2>2 DEF FreshInv, NoStaleEntry
<1>10. ASSUME NEW r \in Request, LookUpMiss(r) PROVE FreshInv'
  <2>1. \/ memberFlight' = memberFlight
        \/ memberFlight'.seen = None /\ memberFlight'.generation = generation
    BY <1>10 DEF LookUpMiss
  <2>2. memberEntry' = None /\ UNCHANGED <<version, invalidated, generation>>
    BY <1>10 DEF LookUpMiss, upstream, routeVars
  <2> QED
    BY <1>1, <1>2, <2>1, <2>2 DEF FreshInv, NoStaleEntry
<1>11. CASE ReadMemberships
  <2>1. memberFlight # None /\ memberFlight'.seen = version
        /\ memberFlight'.generation = memberFlight.generation
    BY <1>11 DEF ReadMemberships, TypeOK, MemberFetch
  <2>2. UNCHANGED <<version, invalidated, generation, memberEntry>>
    BY <1>11 DEF ReadMemberships, upstream, routeVars
  <2> QED
    BY <1>1, <1>3, <2>1, <2>2 DEF FreshInv
<1>12. CASE Refetch
  <2>1. memberFlight # None /\ memberFlight'.seen = None
        /\ memberFlight'.generation = memberFlight.generation
    BY <1>12 DEF Refetch, TypeOK, MemberFetch
  <2>2. UNCHANGED <<version, invalidated, generation, memberEntry>>
    BY <1>12 DEF Refetch, upstream, routeVars
  <2> QED
    BY <1>1, <1>3, <2>1, <2>2 DEF FreshInv
<1>13. CASE LookupFails \/ AnswerRetried
  BY <1>3, <1>13 DEF LookupFails, AnswerRetried, upstream, routeVars
<1>14. CASE Publish
  <2>1. /\ UNCHANGED <<version, invalidated, generation>> /\ memberFlight' = None
        /\ memberFlight # None /\ memberFlight.seen # None /\ ~memberFlight.retry
        /\ memberFlight.generation = generation
        /\ memberEntry' = memberEntry \/ memberEntry'.version = memberFlight.seen
    BY <1>14 DEF Publish, Unchallenged, upstream, routeVars
  <2>2. memberFlight.seen >= invalidated
    BY <2>1 DEF FreshInv
  <2> QED
    BY <1>1, <1>2, <2>1, <2>2 DEF FreshInv, NoStaleEntry
<1> QED
  BY <1>5, <1>6, <1>7, <1>8, <1>9, <1>10, <1>11, <1>12, <1>13, <1>14 DEF Next, Quietly, Quiet, Deciding

\* A first fetch is answered only when no invalidation has overtaken it.
LEMMA FloorStep == TypeOK /\ FreshInv /\ FreshUnlessRetried /\ [Next]_vars => FreshUnlessRetried'
<1> SUFFICES ASSUME TypeOK, FreshInv, FreshUnlessRetried, [Next]_vars, answer' # None
             PROVE  answer'.version >= answer'.floor \/ answer'.retried
    BY DEF FreshUnlessRetried
<1>1. /\ invalidated \in Nat
      /\ \A r \in Request : request[r].floor \in Nat /\ request[r].floor <= invalidated
      /\ memberEntry # None => memberEntry.version \in Nat
      /\ memberFlight # None => (memberFlight.seen # None => memberFlight.seen \in Nat)
  BY VersionAssumption, NoneAssumption DEF TypeOK, Version, Waiter, MemberEntry, MemberFetch, FreshInv
<1>2. CASE UNCHANGED vars
  BY <1>2 DEF vars, history, FreshUnlessRetried
<1>3. ASSUME NEW r \in Request, LookUpHit(r) PROVE answer'.version >= answer'.floor
  <2>1. memberEntry # None /\ answer'.floor = request[r].floor /\ answer'.version = memberEntry.version
    BY <1>3 DEF LookUpHit, Live
  <2> QED
    BY <1>1, <2>1 DEF FreshInv, NoStaleEntry
<1>4. CASE Publish
  <2>1. /\ memberFlight # None /\ memberFlight.seen # None /\ ~memberFlight.retry
        /\ memberFlight.generation = generation
        /\ \E r \in Request : answer'.floor = request[r].floor /\ answer'.version = memberFlight.seen
    BY <1>4 DEF Publish, Unchallenged, AnswerAll, Waiting
  <2>2. memberFlight.seen >= invalidated
    BY <2>1 DEF FreshInv
  <2> QED
    BY <1>1, <2>1, <2>2
<1>5. CASE AnswerRetried
  BY <1>5 DEF AnswerRetried, AnswerAll, Waiting
<1> QED
  BY <1>2, <1>3, <1>4, <1>5 DEF Next, Quietly, Deciding, VerifyHit, Verified

(***************************************************************************)
(* The theorems.                                                            *)
(***************************************************************************)
LEMMA InitInv == Init => IInv
<1> SUFFICES ASSUME Init PROVE IInv
    OBVIOUS
<1> USE TimeAssumption, VersionAssumption, NoneAssumption
<1>1. TypeOK
  BY TypeInit
<1>2. Announced
  BY DEF Init, Announced
<1>3. NoStrandedWaiter /\ ClockInv /\ AcceptanceBounded
  BY DEF Init, Idle, NoStrandedWaiter, ClockInv, AcceptanceBounded
<1>4. TokenInv /\ MemberInv /\ MembershipsBounded
  BY DEF Init, TokenInv, MemberInv, MembershipsBounded
<1>5. FreshInv /\ FreshUnlessRetried
  BY DEF Init, Idle, FreshInv, NoStaleEntry, FreshUnlessRetried
<1> QED
  BY <1>1, <1>2, <1>3, <1>4, <1>5 DEF IInv

\* IInv is inductive.
THEOREM Invariance == Spec => []IInv
<1>1. IInv /\ [Next]_vars => IInv'
  BY AnnouncedStep, TypeStep, StrandStep, ClockStep, TokenStep, AcceptanceStep, MemberStep, BoundStep,
     FreshStep, FloorStep
     DEF IInv
<1> QED
  BY InitInv, <1>1, PTL DEF Spec

\* The state of both caches is well typed: no deadline lies beyond the last moment
\* plus a TTL, and every version in flight has existed.
THEOREM TypeCorrectness == Spec => []TypeOK
<1>1. IInv => TypeOK
  BY DEF IInv
<1> QED
  BY Invariance, <1>1, PTL

\* Nobody waits for a fetch that is gone (auth_cache's registries and shields).
THEOREM NobodyStranded == Spec => []NoStrandedWaiter
<1>1. IInv => NoStrandedWaiter
  BY DEF IInv
<1> QED
  BY Invariance, <1>1, PTL

\* A cached token is accepted for less than a TTL after its session was revoked
\* and never past its exp, whatever the fetches take; who waits for a fetch rests on
\* one sent while the token was good (cached_verify, _verify_and_store).
THEOREM RevocationBounded == Spec => []AcceptanceBounded
<1>1. IInv => AcceptanceBounded
  BY DEF IInv
<1> QED
  BY Invariance, <1>1, PTL

\* Cached memberships are used for less than a TTL after a change, announced or not;
\* a fetch of any length answers with what was current when it was sent
\* (cached_memberships, _fetch_memberships).
THEOREM StalenessBounded == Spec => []MembershipsBounded
<1>1. IInv => MembershipsBounded
  BY DEF IInv
<1> QED
  BY Invariance, <1>1, PTL

\* An invalidation is never undone by a fetch that it overtook, and whoever asks
\* after it sees the change, a retry in flight excepted.
THEOREM InvalidationHolds == Spec => [](NoStaleEntry /\ FreshUnlessRetried)
<1>1. IInv => NoStaleEntry /\ FreshUnlessRetried
  BY DEF IInv, FreshInv
<1> QED
  BY Invariance, <1>1, PTL
=============================================================================
