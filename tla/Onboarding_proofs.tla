------------------------- MODULE Onboarding_proofs -------------------------
(***************************************************************************)
(* The promises of onboarding for every set of people, accounts and request *)
(* threads and every bound: the limiters, the invitations, the resolver,    *)
(* what a connecting user sees, and refinement of AccountClaims.            *)
(***************************************************************************)
EXTENDS Onboarding, TLAPS

(***************************************************************************)
(* The inductive invariant.                                                 *)
(***************************************************************************)

\* Where a request is inside the guard of a limiter.
Guarded == {"validate", "provision", "invalidate", "add", "invite", "confirm", "resend", "leave"}

\* What a request knows at each place of its way.
Knows(q) ==
    /\ q.pc \in {"auth", "authorized"} => q.user \in Person
    /\ q.pc \in Guarded \cup {"limiter", "create"} => q.user \in Person /\ q.kind \in Limited
    /\ q.pc \in Guarded <=> q.limiter # None
    /\ q.kind = "connect" => q.account \in Account
    /\ q.kind = "invite" => q.org \in Org /\ q.email \in Person
    /\ q.pc \in {"validate", "provision", "invalidate"} => q.kind = "connect"
    /\ q.pc \in {"add", "invite", "confirm", "resend"} => q.kind = "invite"
    /\ q.pc \in {"metadata", "secret", "disconnect", "flush", "invalidate"} => q.org \in Org
    /\ q.answer # None => q.pc \in {"leave", "done"}
    /\ q.pc = "resend" => q.attached

RequestInv == \A r \in Request : Knows(request[r])

\* The users in flight are those of the requests inside, one each.
GuardInv ==
    /\ \A r \in Request : request[r].limiter # None =>
          request[r].user \in inFlight[request[r].limiter]
    /\ \A l \in Limiter : \A p \in inFlight[l] :
          \E r \in Request : request[r].limiter = l /\ request[r].user = p
    /\ \A r, s \in Request :
          (request[r].limiter # None /\ request[r].limiter = request[s].limiter
             /\ request[r].user = request[s].user) => r = s

\* A key is kept exactly as long as its connection is active.
ConnectionInv ==
    \A o \in Org :
        /\ connection[o].secret = connection[o].active
        /\ connection[o].active => connection[o].account \in Account /\ o <= orgs

IInv == TypeOK /\ RequestInv /\ GuardInv /\ ConnectionInv

(***************************************************************************)
(* How a step changes the requests.                                         *)
(***************************************************************************)

\* A request moves to a state that knows what it must; the guards see nothing.
LEMMA RequestMoves ==
  ASSUME TypeOK, RequestInv, GuardInv, NEW r \in Request, NEW q \in RequestState, Knows(q),
         request' = [request EXCEPT ![r] = q],
         q.limiter = request[r].limiter, q.limiter # None => q.user = request[r].user,
         UNCHANGED inFlight
  PROVE  request' \in [Request -> RequestState] /\ RequestInv' /\ GuardInv'
<1>1. request' \in [Request -> RequestState]
  BY DEF TypeOK
<1>2. request'[r] = q /\ \A s \in Request \ {r} : request'[s] = request[s]
  BY DEF TypeOK
<1>3. RequestInv'
  BY <1>2 DEF RequestInv, Knows
<1>4. \A s \in Request : /\ request'[s].limiter = request[s].limiter
                         /\ request[s].limiter # None => request'[s].user = request[s].user
  BY <1>2
<1>5. \A l \in Limiter : \A p \in inFlight'[l] :
        \E s \in Request : request'[s].limiter = l /\ request'[s].user = p
  <2> SUFFICES ASSUME NEW l \in Limiter, NEW p \in inFlight[l]
               PROVE  \E s \in Request : request'[s].limiter = l /\ request'[s].user = p
    OBVIOUS
  <2>1. PICK s \in Request : request[s].limiter = l /\ request[s].user = p
    BY DEF GuardInv
  <2>2. l # None
    BY NoneAssumption
  <2> QED
    BY <1>4, <2>1, <2>2
<1>6. GuardInv'
  BY <1>4, <1>5 DEF GuardInv
<1> QED
  BY <1>1, <1>3, <1>6

LEMMA GotoStep ==
  ASSUME TypeOK, RequestInv, GuardInv, NEW r \in Request, NEW pc \in PC, Goto(r, pc),
         Knows([request[r] EXCEPT !.pc = pc]), UNCHANGED inFlight
  PROVE  request' \in [Request -> RequestState] /\ RequestInv' /\ GuardInv'
<1> DEFINE q == [request[r] EXCEPT !.pc = pc]
<1>1. q \in RequestState
  <2>1. request[r] \in RequestState
    BY DEF TypeOK
  <2> QED
    BY <2>1 DEF RequestState
<1>2. q.limiter = request[r].limiter /\ q.user = request[r].user
  BY DEF TypeOK, RequestState
<1>3. request' = [request EXCEPT ![r] = q]
  BY DEF Goto, TypeOK
<1> QED
  BY <1>1, <1>2, <1>3, RequestMoves

\* A request inside a guard has its answer.
LEMMA LeaveStep ==
  ASSUME TypeOK, RequestInv, GuardInv, NEW r \in Request, NEW answer \in Answer, Leave(r, answer),
         request[r].pc \in Guarded, UNCHANGED inFlight
  PROVE  request' \in [Request -> RequestState] /\ RequestInv' /\ GuardInv'
<1> DEFINE q == [request[r] EXCEPT !.pc = "leave", !.answer = answer]
<1>1. q \in RequestState
  <2>1. request[r] \in RequestState /\ "leave" \in PC
    BY DEF TypeOK, PC
  <2> QED
    BY <2>1 DEF RequestState
<1>2. q.limiter = request[r].limiter /\ q.user = request[r].user
  BY DEF TypeOK, RequestState
<1>3. request' = [request EXCEPT ![r] = q]
  BY DEF Leave, TypeOK
<1>4. Knows(q)
  BY DEF RequestInv, Knows, Guarded, TypeOK, RequestState
<1> QED
  BY <1>1, <1>2, <1>3, <1>4, RequestMoves

\* A request outside the guards has its answer.
LEMMA AnsweredStep ==
  ASSUME TypeOK, RequestInv, GuardInv, NEW r \in Request, NEW answer \in Answer,
         Answered(r, answer), request[r].pc \notin Guarded, UNCHANGED inFlight
  PROVE  request' \in [Request -> RequestState] /\ RequestInv' /\ GuardInv'
<1> DEFINE q == [IdleRequest EXCEPT !.pc = "done", !.answer = answer]
<1>1. q \in RequestState
  <2>1. "done" \in PC
    BY DEF PC
  <2> QED
    BY <2>1 DEF RequestState, IdleRequest
<1>2. q.limiter = request[r].limiter /\ q.limiter = None
  BY DEF RequestInv, Knows, IdleRequest
<1>3. request' = [request EXCEPT ![r] = q]
  BY DEF Answered
<1>4. Knows(q)
  BY NoneAssumption DEF Knows, Guarded, IdleRequest, Kind, Limited, Answer
<1> QED
  BY <1>1, <1>2, <1>3, <1>4, RequestMoves

(***************************************************************************)
(* The initial states, and the steps that are not a request's.              *)
(***************************************************************************)
LEMMA InitInv == Init => IInv
<1> SUFFICES ASSUME Init PROVE IInv
    OBVIOUS
<1> USE DEF Init
<1>1. IdleRequest \in RequestState /\ Knows(IdleRequest) /\ IdleRequest.limiter = None
  <2>1. "idle" \in PC
    BY DEF PC
  <2> QED
    BY <2>1, NoneAssumption
       DEF RequestState, IdleRequest, Knows, Guarded, Kind, Limited, Answer
<1>2. TypeOK
  <2>1. EmptySlot \in SlotOf(Memberships)
    BY DEF EmptySlot, SlotOf
  <2> QED
    BY <1>1, <2>1, OnboardingAssumption DEF TypeOK, NoConnection
<1>3. RequestInv /\ GuardInv
  BY <1>1 DEF RequestInv, GuardInv
<1>4. ConnectionInv
  BY DEF ConnectionInv, NoConnection
<1> QED
  BY <1>2, <1>3, <1>4 DEF IInv

\* Whatever happens to a slot, it stays one.
LEMMA SlotTypes ==
  ASSUME NEW V, NEW slot \in SlotOf(V), NEW value \in V
  PROVE  /\ {Expired(slot), Overtaken(slot), Invalidated(slot), Joined(slot), Abandoned(slot)}
               \subseteq SlotOf(V)
         /\ {Fetched(slot, value), Refetched(slot), Settled(slot)} \subseteq SlotOf(V)
<1>1. Expired(slot) \in SlotOf(V) /\ Abandoned(slot) \in SlotOf(V)
  BY DEF SlotOf, Expired, Abandoned
<1>2. \A s \in SlotOf(V) : Overtaken(s) \in SlotOf(V)
  BY DEF SlotOf, Overtaken
<1>3. Joined(slot) \in SlotOf(V)
  BY DEF SlotOf, Joined
<1>4. Fetched(slot, value) \in SlotOf(V) /\ Refetched(slot) \in SlotOf(V)
  BY DEF SlotOf, Fetched, Refetched
<1>5. Settled(slot) \in SlotOf(V)
  BY DEF SlotOf, Settled
<1> QED
  BY <1>1, <1>2, <1>3, <1>4, <1>5 DEF Invalidated

LEMMA MembershipsOfType ==
  ASSUME TypeOK, NEW p \in Person
  PROVE  MembershipsOf(p) \in Memberships
BY DEF TypeOK, MembershipsOf, Memberships

LEMMA PeopleStep ==
  ASSUME IInv,
         \/ \E p \in Person : SignUp(p) \/ ConfirmEmail(p) \/ CacheExpires(p)
         \/ \E o \in Org, p \in Person, role \in Role \cup {None} : ChangeRole(o, p, role)
         \/ OthersInvalidate
         \/ \E p \in Person : FetchMemberships(p)
  PROVE  IInv'
<1>1. UNCHANGED <<request, inFlight, connection, orgs, limiter, calls>>
  BY DEF SignUp, ConfirmEmail, CacheExpires, ChangeRole, OthersInvalidate, FetchMemberships,
         tableVars, limiterVars, boundVars
<1>2. /\ person' \in [Person -> {"none", "unconfirmed", "confirmed"}]
      /\ member' \in [Org -> [Person -> Role \cup {None}]]
      /\ cached' \in [Person -> SlotOf(Memberships)]
      /\ told' \in [Person -> SUBSET Org]
      /\ changes' \in 0 .. MaxChanges
  <2> USE OnboardingAssumption DEF IInv, TypeOK
  <2>1. ASSUME NEW p \in Person, SignUp(p) PROVE <1>2!:
    <3>1. changes' \in 0 .. MaxChanges
      BY <2>1 DEF SignUp
    <3> QED
      BY <2>1, <3>1 DEF SignUp, authVars
  <2>2. ASSUME NEW p \in Person, ConfirmEmail(p) PROVE <1>2!:
    BY <2>2 DEF ConfirmEmail, authVars, boundVars
  <2>3. ASSUME NEW p \in Person, CacheExpires(p) PROVE <1>2!:
    <3>1. Expired(cached[p]) \in SlotOf(Memberships)
      BY MembershipsOfType, SlotTypes
    <3> QED
      BY <2>3, <3>1 DEF CacheExpires, tableVars, boundVars
  <2>4. ASSUME NEW o \in Org, NEW p \in Person, NEW role \in Role \cup {None}, ChangeRole(o, p, role)
        PROVE  <1>2!:
    <3>1. changes' \in 0 .. MaxChanges /\ UNCHANGED <<person, cached>>
      BY <2>4 DEF ChangeRole
    <3>2. member' \in [Org -> [Person -> Role \cup {None}]]
      BY <2>4 DEF ChangeRole
    <3>3. told' \in [Person -> SUBSET Org]
      BY <2>4 DEF ChangeRole
    <3> QED
      BY <3>1, <3>2, <3>3
  <2>5. CASE OthersInvalidate
    <3>1. \A p \in Person : Overtaken(cached[p]) \in SlotOf(Memberships)
      BY MembershipsOfType, SlotTypes
    <3>2. changes' \in 0 .. MaxChanges
      BY <2>5 DEF OthersInvalidate
    <3> QED
      BY <2>5, <3>1, <3>2 DEF OthersInvalidate, tableVars
  <2>6. ASSUME NEW p \in Person, FetchMemberships(p) PROVE <1>2!:
    <3> DEFINE fetched == Fetched(cached[p], MembershipsOf(p))
               refetched == Refetched(cached[p])
    <3>1. fetched \in SlotOf(Memberships) /\ refetched \in SlotOf(Memberships)
      BY MembershipsOfType, SlotTypes
    <3>2. cached' = [cached EXCEPT ![p] = fetched] \/ cached' = [cached EXCEPT ![p] = refetched]
      BY <2>6 DEF FetchMemberships
    <3> HIDE DEF fetched, refetched
    <3> QED
      BY <2>6, <3>1, <3>2 DEF FetchMemberships, tableVars, boundVars
  <2> QED
    BY <2>1, <2>2, <2>3, <2>4, <2>5, <2>6
<1>3. TypeOK'
  BY <1>1, <1>2 DEF IInv, TypeOK
<1> QED
  BY <1>1, <1>3 DEF IInv, RequestInv, GuardInv, ConnectionInv

\* A request begins, outside the guards.
LEMMA BeginStep ==
  ASSUME IInv, NEW r \in Request, NEW q \in RequestState, Knows(q), q.limiter = None,
         request' = [request EXCEPT ![r] = q], request[r].limiter = None,
         cached' \in [Person -> SlotOf(Memberships)], calls' \in 0 .. MaxCalls,
         UNCHANGED <<tableVars, told, limiterVars, changes>>
  PROVE  IInv'
<1>1. request' \in [Request -> RequestState] /\ RequestInv' /\ GuardInv'
  BY RequestMoves DEF IInv, limiterVars
<1> QED
  BY <1>1 DEF IInv, TypeOK, ConnectionInv, tableVars, limiterVars

LEMMA AuthenticateStep ==
  ASSUME IInv, NEW r \in Request, NEW p \in Person, Authenticate(r, p)
  PROVE  IInv'
<1> DEFINE slot == cached[p]
<1>1. request[r].limiter = None
  BY DEF IInv, RequestInv, Knows, Guarded, Authenticate
<1>2. slot \in SlotOf(Memberships) /\ told[p] \subseteq Org
  BY DEF IInv, TypeOK
<1>3. calls' \in 0 .. MaxCalls /\ UNCHANGED <<tableVars, told, limiterVars, changes>>
  BY OnboardingAssumption DEF IInv, TypeOK, Authenticate
<1>4. CASE Cached(slot)
  <2> DEFINE q == [Begun(p, told[p]) EXCEPT !.pc = "authorized", !.context = slot.entry]
  <2>1. slot.entry \in Memberships /\ "authorized" \in PC
    BY <1>2, <1>4 DEF SlotOf, Cached, PC
  <2>2. q \in RequestState /\ q.limiter = None
    BY <1>2, <2>1 DEF RequestState, Begun, IdleRequest
  <2>3. Knows(q)
    BY NoneAssumption DEF Knows, Guarded, Begun, IdleRequest, Kind, Limited, Answer
  <2>4. request' = [request EXCEPT ![r] = q] /\ UNCHANGED cached
    BY <1>4 DEF Authenticate
  <2> HIDE DEF q
  <2>5. cached' \in [Person -> SlotOf(Memberships)]
    BY <2>4 DEF IInv, TypeOK
  <2> QED
    BY <1>1, <1>3, <2>2, <2>3, <2>4, <2>5, BeginStep
<1>5. CASE ~Cached(slot)
  <2> DEFINE due == IF RetryInFlight(slot) THEN {} ELSE told[p]
             q == [Begun(p, due) EXCEPT !.pc = "auth"]
  <2>1. due \subseteq Org /\ "auth" \in PC
    BY <1>2 DEF PC
  <2>2. request' = [request EXCEPT ![r] = q] /\ cached' = [cached EXCEPT ![p] = Joined(slot)]
    BY <1>5 DEF Authenticate
  <2> HIDE DEF due
  <2>3. q \in RequestState /\ q.limiter = None
    BY <2>1 DEF RequestState, Begun, IdleRequest
  <2>4. Knows(q)
    BY NoneAssumption DEF Knows, Guarded, Begun, IdleRequest, Kind, Limited, Answer
  <2> HIDE DEF q
  <2>5. Joined(slot) \in SlotOf(Memberships)
    BY <1>2, MembershipsOfType, SlotTypes DEF IInv
  <2>6. cached' \in [Person -> SlotOf(Memberships)]
    BY <2>2, <2>5 DEF IInv, TypeOK
  <2> QED
    BY <1>1, <1>3, <2>2, <2>3, <2>4, <2>6, BeginStep
<1> QED
  BY <1>4, <1>5

\* Those who wait for a fetch go on together; they are outside the guards.
LEMMA WaitersMove ==
  ASSUME IInv, NEW p \in Person, NEW slot \in SlotOf(Memberships),
         cached' = [cached EXCEPT ![p] = slot],
         DOMAIN request' = Request, request' = [r \in DOMAIN request' |-> request'[r]],
         \A r \in Request : \/ request'[r] = request[r]
                            \/ /\ request[r].pc = "auth" /\ request'[r] \in RequestState
                               /\ Knows(request'[r]) /\ request'[r].limiter = None,
         UNCHANGED <<tableVars, told, limiterVars, boundVars>>
  PROVE  IInv'
<1>1. \A r \in Request : request[r].pc = "auth" => request[r].limiter = None
  BY DEF IInv, RequestInv, Knows, Guarded
<1>2. \A r \in Request : /\ request'[r] \in RequestState /\ Knows(request'[r])
                         /\ request'[r].limiter = request[r].limiter
                         /\ request[r].limiter # None => request'[r] = request[r]
  BY <1>1 DEF IInv, TypeOK, RequestInv
<1>3. request' \in [Request -> RequestState] /\ cached' \in [Person -> SlotOf(Memberships)]
  BY <1>2 DEF IInv, TypeOK
<1>4. TypeOK' /\ ConnectionInv'
  BY <1>3 DEF IInv, TypeOK, ConnectionInv, tableVars, limiterVars, boundVars
<1>5. RequestInv'
  BY <1>2 DEF RequestInv, Knows
<1>6. \A l \in Limiter : \A u \in inFlight'[l] :
        \E r \in Request : request'[r].limiter = l /\ request'[r].user = u
  <2> SUFFICES ASSUME NEW l \in Limiter, NEW u \in inFlight[l]
               PROVE  \E r \in Request : request'[r].limiter = l /\ request'[r].user = u
    BY DEF limiterVars
  <2>1. PICK r \in Request : request[r].limiter = l /\ request[r].user = u
    BY DEF IInv, GuardInv
  <2> QED
    BY <1>2, <2>1, NoneAssumption
<1>7. GuardInv'
  BY <1>2, <1>6 DEF IInv, GuardInv, limiterVars
<1> QED
  BY <1>4, <1>5, <1>7 DEF IInv

LEMMA AuthorizeStep ==
  ASSUME IInv, NEW p \in Person, Authorize(p) \/ FetchFails(p)
  PROVE  IInv'
<1> DEFINE slot == cached[p]
<1>1. slot \in SlotOf(Memberships)
  BY DEF IInv, TypeOK
<1>2. Settled(slot) \in SlotOf(Memberships) /\ Abandoned(slot) \in SlotOf(Memberships)
  BY <1>1, MembershipsOfType, SlotTypes DEF IInv
<1>3. CASE Authorize(p)
  <2>1. slot.seen \in Memberships /\ "authorized" \in PC
    BY <1>1, <1>3 DEF SlotOf, Authorize, Ready, PC
  <2>2. ASSUME NEW q \in RequestState, Knows(q), q.pc = "auth"
        PROVE  /\ [q EXCEPT !.pc = "authorized", !.context = slot.seen] \in RequestState
               /\ Knows([q EXCEPT !.pc = "authorized", !.context = slot.seen])
               /\ [q EXCEPT !.pc = "authorized", !.context = slot.seen].limiter = None
    <3> DEFINE n == [q EXCEPT !.pc = "authorized", !.context = slot.seen]
    <3>1. n \in RequestState
      BY <2>1 DEF RequestState
    <3>2. n.pc = "authorized" /\ n.kind = q.kind /\ n.user = q.user /\ n.org = q.org
          /\ n.account = q.account /\ n.email = q.email /\ n.limiter = q.limiter
          /\ n.attached = q.attached /\ n.answer = q.answer
      BY DEF RequestState
    <3> HIDE DEF n
    <3>3. Knows(n) /\ n.limiter = None
      BY <2>2, <3>2 DEF Knows, Guarded
    <3> QED
      BY <3>1, <3>3 DEF n
  <2>3. request' = [r \in Request |->
          IF Waits(r, p) THEN [request[r] EXCEPT !.pc = "authorized", !.context = slot.seen]
          ELSE request[r]]
    BY <1>3 DEF Authorize
  <2>4. \A r \in Request : \/ request'[r] = request[r]
                           \/ /\ request[r].pc = "auth" /\ request'[r] \in RequestState
                              /\ Knows(request'[r]) /\ request'[r].limiter = None
    BY <2>2, <2>3 DEF IInv, TypeOK, RequestInv, Waits
  <2> QED
    BY <1>2, <1>3, <2>3, <2>4, WaitersMove DEF Authorize
<1>4. CASE FetchFails(p)
  <2> DEFINE failed == [IdleRequest EXCEPT !.pc = "done", !.answer = "unavailable"]
  <2>1. "done" \in PC /\ "unavailable" \in Answer
    BY DEF PC, Answer
  <2>2. failed \in RequestState /\ failed.limiter = None
    BY <2>1 DEF RequestState, IdleRequest
  <2>3. Knows(failed)
    BY NoneAssumption DEF Knows, Guarded, IdleRequest, Kind, Limited
  <2>4. request' = [r \in Request |-> IF Waits(r, p) THEN failed ELSE request[r]]
    BY <1>4 DEF FetchFails
  <2> HIDE DEF failed
  <2>5. \A r \in Request : \/ request'[r] = request[r]
                           \/ /\ request[r].pc = "auth" /\ request'[r] \in RequestState
                              /\ Knows(request'[r]) /\ request'[r].limiter = None
    BY <2>2, <2>3, <2>4 DEF Waits
  <2> QED
    BY <1>2, <1>4, <2>4, <2>5, WaitersMove DEF FetchFails
<1> QED
  BY <1>3, <1>4

(***************************************************************************)
(* The limiters.                                                            *)
(***************************************************************************)
LEMMA LimiterStep ==
  ASSUME IInv, NEW r \in Request, SeeNoLimiter(r) \/ CreateLimiter(r)
  PROVE  IInv'
<1>1. /\ request[r].limiter = None /\ request[r].kind \in Limited
      /\ request[r] \in RequestState
  BY DEF IInv, TypeOK, RequestInv, Knows, Guarded, SeeNoLimiter, CreateLimiter, At
<1>2. PICK pc \in {"create", "limiter"} : Goto(r, pc)
  BY DEF SeeNoLimiter, CreateLimiter
<1>3. Knows([request[r] EXCEPT !.pc = pc])
  BY <1>1, <1>2 DEF IInv, RequestInv, Knows, Guarded, RequestState, SeeNoLimiter, CreateLimiter, At
<1>4. pc \in PC
  BY <1>2 DEF PC
<1>5. UNCHANGED <<inFlight, person, member, connection, orgs, cached, told, calls, changes>>
  BY DEF SeeNoLimiter, CreateLimiter, tableVars, authVars, limiterVars, boundVars
<1>6. request' \in [Request -> RequestState] /\ RequestInv' /\ GuardInv'
  BY <1>2, <1>3, <1>4, <1>5, GotoStep DEF IInv
<1>7. limiter' \in [Limited -> Limiter \cup {None}]
  <2>1. limiter \in [Limited -> Limiter \cup {None}]
    BY DEF IInv, TypeOK
  <2>2. CASE SeeNoLimiter(r)
    BY <2>1, <2>2 DEF SeeNoLimiter, limiterVars
  <2>3. CASE CreateLimiter(r)
    <3>1. <<request[r].kind, r>> \in Limiter
      BY <1>1 DEF Limiter
    <3> QED
      BY <1>1, <2>1, <2>3, <3>1 DEF CreateLimiter
  <2> QED
    BY <2>2, <2>3
<1> QED
  BY <1>5, <1>6, <1>7 DEF IInv, TypeOK, ConnectionInv

\* The limiter admits a user whom it does not count yet.
LEMMA AdmitStep ==
  ASSUME IInv, NEW r \in Request, NEW l \in Limiter, At(r, "limiter"), Admit(r, l),
         request[r].user \notin inFlight[l]
  PROVE  /\ request' \in [Request -> RequestState] /\ RequestInv' /\ GuardInv'
         /\ inFlight' \in [Limiter -> SUBSET Person]
<1> DEFINE u == request[r].user
           q == [request[r] EXCEPT !.limiter = l,
                   !.pc = IF request[r].kind = "connect" THEN "validate" ELSE "add"]
<1>1. request[r] \in RequestState /\ request[r].limiter = None /\ u \in Person
  BY DEF IInv, TypeOK, RequestInv, Knows, Guarded, At
<1>2. request[r].kind \in Limited
  BY DEF IInv, RequestInv, Knows, At
<1>3. q \in RequestState
  <2>1. "validate" \in PC /\ "add" \in PC
    BY DEF PC
  <2>2. ASSUME NEW pc \in PC
        PROVE  [request[r] EXCEPT !.limiter = l, !.pc = pc] \in RequestState
    <3> DEFINE s == request[r]
               admitted == [s EXCEPT !.limiter = l]
    <3>1. s \in RequestState
      BY <1>1
    <3> HIDE DEF s
    <3>2. admitted \in RequestState
      BY <3>1 DEF RequestState
    <3>3. [s EXCEPT !.limiter = l, !.pc = pc] = [admitted EXCEPT !.pc = pc]
      BY <3>1 DEF RequestState
    <3> HIDE DEF admitted
    <3>4. [admitted EXCEPT !.pc = pc] \in RequestState
      BY <3>2 DEF RequestState
    <3> QED
      BY <3>3, <3>4 DEF s
  <2>3. q = [request[r] EXCEPT !.limiter = l,
               !.pc = IF request[r].kind = "connect" THEN "validate" ELSE "add"]
    OBVIOUS
  <2> HIDE DEF q
  <2> QED
    BY <2>1, <2>2, <2>3
<1>4. q.limiter = l /\ l # None /\ q.user = u
  BY <1>1, NoneAssumption DEF RequestState
<1>5. Knows(q)
  BY <1>1, <1>2, <1>4 DEF IInv, RequestInv, Knows, Guarded, RequestState, Limited, At
<1>6. request' = [request EXCEPT ![r] = q]
  BY DEF Admit, IInv, TypeOK
<1>7. request'[r] = q /\ \A s \in Request \ {r} : request'[s] = request[s]
  BY <1>6 DEF IInv, TypeOK
<1>8. inFlight' = [inFlight EXCEPT ![l] = @ \cup {u}]
  BY DEF Admit
<1>9. /\ inFlight' \in [Limiter -> SUBSET Person]
      /\ \A k \in Limiter : inFlight'[k] = IF k = l THEN inFlight[l] \cup {u} ELSE inFlight[k]
  BY <1>1, <1>8 DEF IInv, TypeOK
<1>10. request' \in [Request -> RequestState] /\ RequestInv'
  BY <1>3, <1>5, <1>6, <1>7 DEF IInv, TypeOK, RequestInv, Knows
<1>11. \A s \in Request : request'[s].limiter # None =>
         request'[s].user \in inFlight'[request'[s].limiter]
  <2> SUFFICES ASSUME NEW s \in Request, request'[s].limiter # None
               PROVE  request'[s].user \in inFlight'[request'[s].limiter]
    OBVIOUS
  <2>1. CASE s = r
    BY <2>1, <1>4, <1>7, <1>9
  <2>2. CASE s # r
    <3>1. request[s].limiter \in Limiter
      BY <2>2, <1>7 DEF IInv, TypeOK, RequestState
    <3> QED
      BY <2>2, <3>1, <1>7, <1>9 DEF IInv, GuardInv
  <2> QED
    BY <2>1, <2>2
<1>12. \A k \in Limiter : \A p \in inFlight'[k] :
         \E s \in Request : request'[s].limiter = k /\ request'[s].user = p
  <2> SUFFICES ASSUME NEW k \in Limiter, NEW p \in inFlight'[k]
               PROVE  \E s \in Request : request'[s].limiter = k /\ request'[s].user = p
    OBVIOUS
  <2>1. CASE k = l /\ p = u
    BY <2>1, <1>4, <1>7
  <2>2. CASE ~(k = l /\ p = u)
    <3>1. p \in inFlight[k]
      BY <2>2, <1>9
    <3>2. PICK s \in Request : request[s].limiter = k /\ request[s].user = p
      BY <3>1 DEF IInv, GuardInv
    <3> QED
      BY <3>2, <1>1, <1>7, NoneAssumption
  <2> QED
    BY <2>1, <2>2
<1>13. \A s \in Request \ {r} : ~(request[s].limiter = l /\ request[s].user = u)
  BY <1>4 DEF IInv, GuardInv
<1>14. \A s, t \in Request : (/\ request'[s].limiter # None
                              /\ request'[s].limiter = request'[t].limiter
                              /\ request'[s].user = request'[t].user) => s = t
  <2> SUFFICES ASSUME NEW s \in Request, NEW t \in Request, request'[s].limiter # None,
                      request'[s].limiter = request'[t].limiter,
                      request'[s].user = request'[t].user, s # t
               PROVE  FALSE
    OBVIOUS
  <2>1. CASE s # r /\ t # r
    BY <2>1, <1>7 DEF IInv, GuardInv
  <2>2. CASE s = r
    <3>1. request[t].limiter = l /\ request[t].user = u /\ t \in Request \ {r}
      BY <2>2, <1>4, <1>7
    <3> QED
      BY <3>1, <1>13
  <2>3. CASE t = r
    <3>1. request[s].limiter = l /\ request[s].user = u /\ s \in Request \ {r}
      BY <2>3, <1>4, <1>7
    <3> QED
      BY <3>1, <1>13
  <2> QED
    BY <2>1, <2>2, <2>3
<1> QED
  BY <1>9, <1>10, <1>11, <1>12, <1>14 DEF GuardInv

LEMMA EnterGuardStep ==
  ASSUME IInv, NEW r \in Request, EnterGuard(r)
  PROVE  IInv'
<1> DEFINE l == limiter[request[r].kind]
           u == request[r].user
<1>1. request[r].kind \in Limited /\ request[r].pc \notin Guarded /\ At(r, "limiter")
  BY DEF IInv, RequestInv, Knows, Guarded, EnterGuard, At
<1>2. l \in Limiter
  BY <1>1 DEF IInv, TypeOK, EnterGuard
<1>3. /\ request' \in [Request -> RequestState] /\ RequestInv' /\ GuardInv'
      /\ inFlight' \in [Limiter -> SUBSET Person]
  <2>1. ASSUME NEW answer \in {"busy", "limited"}, Answered(r, answer), UNCHANGED inFlight
        PROVE  <1>3!:
    <3>1. answer \in Answer
      BY <2>1 DEF Answer
    <3> QED
      BY <1>1, <2>1, <3>1, AnsweredStep DEF IInv, TypeOK
  <2>2. ASSUME u \notin inFlight[l], Admit(r, l) PROVE <1>3!:
    BY <1>1, <1>2, <2>2, AdmitStep
  <2> QED
    BY <2>1, <2>2 DEF EnterGuard
<1>4. UNCHANGED <<person, member, connection, orgs, cached, told, limiter, calls, changes>>
  BY DEF EnterGuard, tableVars, authVars, boundVars
<1> QED
  BY <1>3, <1>4 DEF IInv, TypeOK, ConnectionInv

\* Whoever leaves was the only request of its user inside.
LEMMA LeaveGuardStep ==
  ASSUME IInv, NEW r \in Request, LeaveGuard(r)
  PROVE  IInv'
<1> DEFINE l == request[r].limiter
           u == request[r].user
           answer == request[r].answer
           q == [IdleRequest EXCEPT !.pc = "done", !.answer = answer]
<1>1. /\ request[r] \in RequestState /\ l \in Limiter /\ u \in Person
      /\ answer \in Answer \cup {None}
  BY DEF IInv, TypeOK, RequestInv, Knows, Guarded, LeaveGuard, At, RequestState
<1>4. /\ request' = [request EXCEPT ![r] = q]
      /\ inFlight' = [inFlight EXCEPT ![l] = @ \ {u}]
      /\ UNCHANGED <<person, member, connection, orgs, cached, told, limiter, calls, changes>>
  BY DEF LeaveGuard, Answered, tableVars, authVars, boundVars
<1> HIDE DEF answer
<1>2. q \in RequestState /\ q.limiter = None
  <2>1. "done" \in PC
    BY DEF PC
  <2> QED
    BY <1>1, <2>1 DEF IdleRequest, RequestState
<1>3. Knows(q)
  BY <1>1, NoneAssumption DEF IdleRequest, Knows, Guarded, Kind, Limited
<1> HIDE DEF q
<1>5. request'[r] = q /\ \A s \in Request \ {r} : request'[s] = request[s]
  BY <1>4 DEF IInv, TypeOK
<1>6. /\ inFlight' \in [Limiter -> SUBSET Person]
      /\ \A k \in Limiter : inFlight'[k] = IF k = l THEN inFlight[l] \ {u} ELSE inFlight[k]
  BY <1>4 DEF IInv, TypeOK
<1>7. request' \in [Request -> RequestState] /\ RequestInv'
  BY <1>2, <1>3, <1>4, <1>5 DEF IInv, TypeOK, RequestInv, Knows
<1>8. \A s \in Request \ {r} : ~(request[s].limiter = l /\ request[s].user = u)
  BY <1>1, NoneAssumption DEF IInv, GuardInv
<1>9. \A s \in Request : request'[s].limiter # None =>
         request'[s].user \in inFlight'[request'[s].limiter]
  <2> SUFFICES ASSUME NEW s \in Request, request'[s].limiter # None
               PROVE  request'[s].user \in inFlight'[request'[s].limiter]
    OBVIOUS
  <2>1. s # r
    BY <1>2, <1>5
  <2>2. request[s].limiter \in Limiter
    BY <2>1, <1>5 DEF IInv, TypeOK, RequestState
  <2> QED
    BY <2>1, <2>2, <1>5, <1>6, <1>8 DEF IInv, GuardInv
<1>10. \A k \in Limiter : \A p \in inFlight'[k] :
         \E s \in Request : request'[s].limiter = k /\ request'[s].user = p
  <2> SUFFICES ASSUME NEW k \in Limiter, NEW p \in inFlight'[k]
               PROVE  \E s \in Request : request'[s].limiter = k /\ request'[s].user = p
    OBVIOUS
  <2>1. p \in inFlight[k] /\ ~(k = l /\ p = u)
    BY <1>6
  <2>2. PICK s \in Request : request[s].limiter = k /\ request[s].user = p
    BY <2>1 DEF IInv, GuardInv
  <2> QED
    BY <2>1, <2>2, <1>5
<1>11. \A s, t \in Request : (/\ request'[s].limiter # None
                              /\ request'[s].limiter = request'[t].limiter
                              /\ request'[s].user = request'[t].user) => s = t
  BY <1>2, <1>5 DEF IInv, GuardInv
<1> QED
  BY <1>4, <1>6, <1>7, <1>9, <1>10, <1>11 DEF IInv, TypeOK, GuardInv, ConnectionInv

(***************************************************************************)
(* Connecting and disconnecting.                                            *)
(***************************************************************************)

\* The state that a request's step may leave as it is.
LEMMA RequestOnly ==
  ASSUME IInv, request' \in [Request -> RequestState] /\ RequestInv' /\ GuardInv',
         UNCHANGED <<tableVars, authVars, limiterVars, boundVars>>
  PROVE  IInv'
BY DEF IInv, TypeOK, ConnectionInv, tableVars, authVars, limiterVars, boundVars

LEMMA ValidateStep ==
  ASSUME IInv, NEW r \in Request, Validate(r)
  PROVE  IInv'
<1>1. request[r].pc = "validate" /\ request[r].pc \in Guarded /\ UNCHANGED inFlight
  BY DEF Validate, At, Guarded, limiterVars
<1>2. CASE Goto(r, "provision")
  <2>1. Knows([request[r] EXCEPT !.pc = "provision"])
    <3>1. request[r] \in RequestState /\ Knows(request[r])
      BY DEF IInv, TypeOK, RequestInv
    <3> QED
      BY <1>1, <3>1 DEF Knows, Guarded, RequestState
  <2>2. "provision" \in PC
    BY DEF PC
  <2> QED
    BY <1>1, <1>2, <2>1, <2>2, GotoStep, RequestOnly DEF IInv, Validate
<1>3. CASE Leave(r, "invalid")
  BY <1>1, <1>3, LeaveStep, RequestOnly DEF IInv, Validate, Answer
<1> QED
  BY <1>2, <1>3 DEF Validate

\* A created organization is new, and the account becomes its own.
LEMMA CreateOrgStep ==
  ASSUME TypeOK, ConnectionInv, NEW p \in Person, NEW a \in Account, CreateOrg(p, a)
  PROVE  /\ person' \in [Person -> {"none", "unconfirmed", "confirmed"}]
         /\ member' \in [Org -> [Person -> Role \cup {None}]]
         /\ connection' \in [Org -> [account : Account \cup {None}, active : BOOLEAN,
                                     secret : BOOLEAN]]
         /\ orgs' \in 0 .. MaxOrgs /\ orgs' = orgs + 1 /\ orgs' \in Org
         /\ ConnectionInv'
<1>1. orgs' = orgs + 1 /\ orgs' \in Org /\ orgs' \in 0 .. MaxOrgs /\ orgs \in Nat
  BY OnboardingAssumption DEF TypeOK, CreateOrg, Org
<1>2. /\ person' \in [Person -> {"none", "unconfirmed", "confirmed"}]
      /\ member' \in [Org -> [Person -> Role \cup {None}]]
  BY <1>1 DEF TypeOK, CreateOrg, Role
<1>3. connection' = [connection EXCEPT ![orgs'] =
                       [account |-> a, active |-> TRUE, secret |-> TRUE]]
  BY DEF CreateOrg
<1>4. connection' \in [Org -> [account : Account \cup {None}, active : BOOLEAN, secret : BOOLEAN]]
  BY <1>1, <1>3 DEF TypeOK
<1>5. ConnectionInv'
  <2> SUFFICES ASSUME NEW o \in Org
               PROVE  /\ connection'[o].secret = connection'[o].active
                      /\ connection'[o].active => connection'[o].account \in Account /\ o <= orgs'
    BY DEF ConnectionInv
  <2>1. CASE o = orgs'
    BY <1>1, <1>3, <2>1 DEF TypeOK
  <2>2. CASE o # orgs'
    <3>1. connection'[o] = connection[o] /\ o \in Nat
      BY <1>3, <2>2 DEF TypeOK, Org
    <3> QED
      BY <1>1, <3>1 DEF ConnectionInv
  <2> QED
    BY <2>1, <2>2
<1> QED
  BY <1>1, <1>2, <1>4, <1>5

LEMMA ProvisionStep ==
  ASSUME IInv, NEW r \in Request, Provision(r)
  PROVE  IInv'
<1> DEFINE p == request[r].user
           a == request[r].account
<1>1. /\ request[r].pc = "provision" /\ request[r].pc \in Guarded
      /\ request[r].kind = "connect" /\ p \in Person /\ a \in Account
      /\ request[r] \in RequestState
  BY DEF IInv, TypeOK, RequestInv, Knows, Guarded, Provision, At
<1>2. UNCHANGED <<inFlight, cached, told, limiter, calls, changes>>
  BY DEF Provision, authVars, limiterVars, boundVars
<1>3. CASE UNCHANGED tableVars
  <2>1. \/ Leave(r, "conflict") \/ Leave(r, "failed")
        \/ CreateOrg(p, a)
    BY DEF Provision
  <2>2. ~CreateOrg(p, a)
    BY <1>3 DEF CreateOrg, tableVars, IInv, TypeOK
  <2> QED
    BY <1>1, <1>2, <1>3, <2>1, <2>2, LeaveStep, RequestOnly
       DEF IInv, Answer, authVars, limiterVars, boundVars
<1>4. CASE CreateOrg(p, a)
  <2>1. /\ orgs' \in Org
        /\ person' \in [Person -> {"none", "unconfirmed", "confirmed"}]
        /\ member' \in [Org -> [Person -> Role \cup {None}]]
        /\ connection' \in [Org -> [account : Account \cup {None}, active : BOOLEAN,
                                    secret : BOOLEAN]]
        /\ orgs' \in 0 .. MaxOrgs
        /\ ConnectionInv'
    BY <1>1, <1>4, CreateOrgStep DEF IInv
  <2>2. request' \in [Request -> RequestState] /\ RequestInv' /\ GuardInv'
    <3>1. CASE Leave(r, "failed")
      BY <1>1, <1>2, <3>1, LeaveStep DEF IInv, Answer
    <3>2. CASE request' = [request EXCEPT ![r].pc = "invalidate", ![r].org = orgs']
      <4> DEFINE q == [request[r] EXCEPT !.pc = "invalidate", !.org = orgs']
      <4>1. q \in RequestState
        <5>1. "invalidate" \in PC
          BY DEF PC
        <5> QED
          BY <1>1, <2>1, <5>1 DEF RequestState
      <4>2. q.limiter = request[r].limiter /\ q.user = p
        BY <1>1 DEF RequestState
      <4>3. Knows(q)
        BY <1>1, <2>1 DEF IInv, RequestInv, Knows, Guarded, RequestState
      <4>4. request' = [request EXCEPT ![r] = q]
        BY <3>2 DEF IInv, TypeOK
      <4> QED
        BY <1>2, <4>1, <4>2, <4>3, <4>4, RequestMoves DEF IInv
    <3>3. ~UNCHANGED tableVars
      BY <1>4 DEF CreateOrg, tableVars, IInv, TypeOK
    <3> QED
      BY <3>1, <3>2, <3>3 DEF Provision
  <2> QED
    BY <1>2, <2>1, <2>2 DEF IInv, TypeOK
<1> QED
  BY <1>3, <1>4 DEF Provision

LEMMA InvalidateUserStep ==
  ASSUME IInv, NEW r \in Request, InvalidateUser(r)
  PROVE  IInv'
<1> DEFINE u == request[r].user
           o == request[r].org
<1>1. /\ request[r].pc \in Guarded /\ o \in Org /\ u \in Person
      /\ Leave(r, "created") /\ UNCHANGED <<tableVars, limiterVars, boundVars>>
      /\ cached' = [p \in Person |-> IF p = u THEN Invalidated(cached[p]) ELSE Overtaken(cached[p])]
      /\ told' = told \/ told' = [told EXCEPT ![u] = @ \cup {o}]
  BY DEF IInv, RequestInv, Knows, Guarded, InvalidateUser, Tell, At
<1>2. request' \in [Request -> RequestState] /\ RequestInv' /\ GuardInv'
  BY <1>1, LeaveStep DEF IInv, Answer, limiterVars
<1>3. \A p \in Person : /\ Invalidated(cached[p]) \in SlotOf(Memberships)
                        /\ Overtaken(cached[p]) \in SlotOf(Memberships)
  BY MembershipsOfType, SlotTypes DEF IInv, TypeOK
<1>4. cached' \in [Person -> SlotOf(Memberships)]
  BY <1>1, <1>3
<1>5. told' \in [Person -> SUBSET Org]
  BY <1>1 DEF IInv, TypeOK
<1> QED
  BY <1>1, <1>2, <1>4, <1>5 DEF IInv, TypeOK, ConnectionInv, tableVars, limiterVars, boundVars

LEMMA DisconnectOrgStep ==
  ASSUME TypeOK, ConnectionInv, NEW o \in Org, DisconnectOrg(o)
  PROVE  /\ connection' \in [Org -> [account : Account \cup {None}, active : BOOLEAN,
                                     secret : BOOLEAN]]
         /\ connection'[o].active = FALSE /\ connection'[o].secret = FALSE
         /\ \A other \in Org \ {o} : connection'[other] = connection[other]
         /\ ConnectionInv'
<1> DEFINE c == [connection[o] EXCEPT !.active = FALSE, !.secret = FALSE]
<1>1. connection' = [connection EXCEPT ![o] = c]
  BY DEF DisconnectOrg, TypeOK
<1>2. /\ c \in [account : Account \cup {None}, active : BOOLEAN, secret : BOOLEAN]
      /\ c.active = FALSE /\ c.secret = FALSE
  BY DEF TypeOK
<1>3. connection'[o] = c /\ \A other \in Org \ {o} : connection'[other] = connection[other]
  BY <1>1 DEF TypeOK
<1>4. connection' \in [Org -> [account : Account \cup {None}, active : BOOLEAN, secret : BOOLEAN]]
  BY <1>1, <1>2 DEF TypeOK
<1>5. ConnectionInv'
  BY <1>2, <1>3 DEF ConnectionInv, DisconnectOrg
<1> QED
  BY <1>2, <1>3, <1>4, <1>5

LEMMA DisconnectStep ==
  ASSUME IInv, NEW r \in Request, Disconnect(r)
  PROVE  IInv'
<1>1. /\ request[r].pc = "disconnect" /\ request[r].pc \notin Guarded /\ request[r].org \in Org
      /\ UNCHANGED <<authVars, limiterVars, boundVars>>
  BY DEF IInv, RequestInv, Knows, Guarded, Disconnect, At
<1>2. request' \in [Request -> RequestState] /\ RequestInv' /\ GuardInv'
  <2>1. CASE Goto(r, "flush")
    <3>1. Knows([request[r] EXCEPT !.pc = "flush"])
      BY <1>1 DEF IInv, TypeOK, RequestInv, Knows, Guarded, RequestState
    <3>2. "flush" \in PC
      BY DEF PC
    <3> QED
      BY <1>1, <2>1, <3>1, <3>2, GotoStep DEF IInv, limiterVars
  <2>2. CASE Answered(r, "failed")
    BY <1>1, <2>2, AnsweredStep DEF IInv, Answer, limiterVars
  <2> QED
    BY <2>1, <2>2 DEF Disconnect
<1>3. CASE UNCHANGED tableVars
  BY <1>1, <1>2, <1>3, RequestOnly
<1>4. CASE DisconnectOrg(request[r].org)
  <2>1. /\ connection' \in [Org -> [account : Account \cup {None}, active : BOOLEAN,
                                    secret : BOOLEAN]]
        /\ ConnectionInv' /\ UNCHANGED <<person, member, orgs>>
    BY <1>1, <1>4, DisconnectOrgStep DEF IInv, DisconnectOrg
  <2> QED
    BY <1>1, <1>2, <2>1 DEF IInv, TypeOK, authVars, limiterVars, boundVars
<1> QED
  BY <1>3, <1>4 DEF Disconnect

LEMMA FlushMembershipsStep ==
  ASSUME IInv, NEW r \in Request, FlushMemberships(r)
  PROVE  IInv'
<1>1. /\ request[r].pc \notin Guarded /\ Answered(r, "disconnected")
      /\ UNCHANGED <<tableVars, told, limiterVars, boundVars>>
  BY DEF FlushMemberships, At, Guarded
<1>2. request' \in [Request -> RequestState] /\ RequestInv' /\ GuardInv'
  BY <1>1, AnsweredStep DEF IInv, Answer, limiterVars
<1>3. \A p \in Person : Invalidated(cached[p]) \in SlotOf(Memberships)
  BY MembershipsOfType, SlotTypes DEF IInv, TypeOK
<1>4. cached' \in [Person -> SlotOf(Memberships)]
  BY <1>3 DEF FlushMemberships
<1> QED
  BY <1>1, <1>2, <1>4 DEF IInv, TypeOK, ConnectionInv, tableVars, limiterVars, boundVars

(***************************************************************************)
(* Invitations and the resolver.                                            *)
(***************************************************************************)

\* Either call of the function, wherever its answer leads.
LEMMA AddMemberStep ==
  ASSUME IInv, NEW r \in Request, AddMemberFirst(r) \/ AddMemberAgain(r)
  PROVE  IInv'
<1> DEFINE o == request[r].org
           p == request[r].email
           status == AddStatus(request[r].user, o, p)
<1>1. /\ request[r].pc \in Guarded /\ request[r].kind = "invite"
      /\ o \in Org /\ p \in Person /\ request[r].user \in Person
      /\ request[r] \in RequestState
  BY DEF IInv, TypeOK, RequestInv, Knows, Guarded, AddMemberFirst, AddMemberAgain, At
<1>2. UNCHANGED <<person, connection, orgs, authVars, limiterVars, boundVars>>
  BY DEF AddMemberFirst, AddMemberAgain, CallAddMember, AddMember, tableVars
<1>3. member' \in [Org -> [Person -> Role \cup {None}]]
  <2>1. CASE UNCHANGED tableVars
    BY <2>1 DEF IInv, TypeOK, tableVars
  <2>2. CASE AddMember(o, p, status)
    BY <1>1, <2>2 DEF IInv, TypeOK, AddMember, Role
  <2> QED
    BY <2>1, <2>2 DEF AddMemberFirst, AddMemberAgain, CallAddMember
<1>4. status \in {"unauthorized", "invite_needed", "added", "pending_resend", "already_member"}
  BY DEF AddStatus
<1>5. request' \in [Request -> RequestState] /\ RequestInv' /\ GuardInv'
  <2>1. CASE Leave(r, "failed")
    BY <1>1, <1>2, <2>1, LeaveStep DEF IInv, Answer, limiterVars
  <2>2. ASSUME NEW after \in {[pc |-> "leave", answer |-> "forbidden"],
                              [pc |-> "leave", answer |-> "conflict"],
                              [pc |-> "leave", answer |-> "invited"],
                              [pc |-> "leave", answer |-> "failed"],
                              [pc |-> "resend", answer |-> None],
                              [pc |-> "invite", answer |-> None]},
               NEW attached \in BOOLEAN, after.pc = "resend" => attached,
               request' = [request EXCEPT ![r].pc = after.pc, ![r].answer = after.answer,
                                          ![r].attached = attached]
        PROVE  <1>5!:
    <3> DEFINE q == [request[r] EXCEPT !.pc = after.pc, !.answer = after.answer,
                                      !.attached = attached]
    <3>1. /\ after.pc \in PC /\ after.pc \in {"leave", "resend", "invite"}
          /\ after.answer \in Answer \cup {None}
      <4>1. after.pc \in {"leave", "resend", "invite"}
        BY <2>2
      <4>2. after.answer \in {"forbidden", "conflict", "invited", "failed", None}
        BY <2>2
      <4> QED
        BY <4>1, <4>2, NoneAssumption DEF PC, Answer
    <3>2. q \in RequestState
      BY <1>1, <3>1 DEF RequestState
    <3>3. q.limiter = request[r].limiter /\ q.user = request[r].user
      BY <1>1 DEF RequestState
    <3>4. Knows(q)
      BY <1>1, <2>2, <3>1 DEF IInv, RequestInv, Knows, Guarded, RequestState
    <3>5. request' = [request EXCEPT ![r] = q]
      BY <2>2 DEF IInv, TypeOK
    <3> QED
      BY <1>2, <3>2, <3>3, <3>4, <3>5, RequestMoves DEF IInv, limiterVars
  <2>3. CASE /\ AddMember(o, p, status)
             /\ \/ request' = [request EXCEPT ![r].pc = AfterAdd(status).pc,
                                             ![r].answer = AfterAdd(status).answer,
                                             ![r].attached = member'[o][p] # None]
                \/ request' = [request EXCEPT ![r].pc = AfterConfirm(status).pc,
                                             ![r].answer = AfterConfirm(status).answer,
                                             ![r].attached = member'[o][p] # None]
    <3>1. status = "pending_resend" => member'[o][p] # None
      <4>1. status = "pending_resend" => member[o][p] # None
        BY DEF AddStatus
      <4>2. status # "added" => member' = member
        BY <2>3 DEF AddMember
      <4> QED
        BY <4>1, <4>2
    <3>2. AfterAdd(status).pc = "resend" => status = "pending_resend"
      BY <1>4 DEF AfterAdd
    <3>3. AfterConfirm(status).pc # "resend"
      BY DEF AfterConfirm
    <3>4. \A after \in {AfterAdd(status), AfterConfirm(status)} :
             after \in {[pc |-> "leave", answer |-> "forbidden"],
                       [pc |-> "leave", answer |-> "conflict"],
                       [pc |-> "leave", answer |-> "invited"],
                       [pc |-> "leave", answer |-> "failed"],
                       [pc |-> "resend", answer |-> None],
                       [pc |-> "invite", answer |-> None]}
      BY <1>4 DEF AfterAdd, AfterConfirm
    <3>5. PICK after \in {AfterAdd(status), AfterConfirm(status)} :
             request' = [request EXCEPT ![r].pc = after.pc, ![r].answer = after.answer,
                                        ![r].attached = member'[o][p] # None]
      BY <2>3
    <3>6. after.pc = "resend" => member'[o][p] # None
      BY <3>1, <3>2, <3>3, <3>5
    <3> DEFINE attached == member'[o][p] # None
    <3>7. attached \in BOOLEAN /\ (after.pc = "resend" => attached)
      BY <3>6
    <3>8. request' = [request EXCEPT ![r].pc = after.pc, ![r].answer = after.answer,
                                     ![r].attached = attached]
      BY <3>5
    <3> HIDE DEF attached
    <3> QED
      BY <2>2, <3>4, <3>7, <3>8
  <2> QED
    BY <2>1, <2>3 DEF AddMemberFirst, AddMemberAgain, CallAddMember
<1> QED
  BY <1>2, <1>3, <1>5 DEF IInv, TypeOK, ConnectionInv, authVars, limiterVars, boundVars

LEMMA InviteStep ==
  ASSUME IInv, NEW r \in Request, InviteUser(r) \/ ResendInvite(r)
  PROVE  IInv'
<1>1. /\ request[r].pc \in {"invite", "resend"} /\ request[r].pc \in Guarded
      /\ request[r].kind = "invite" /\ request[r].email \in Person
      /\ UNCHANGED <<member, connection, orgs, authVars, limiterVars, boundVars>>
  BY DEF IInv, RequestInv, Knows, Guarded, InviteUser, ResendInvite, At, tableVars
<1>2. person' \in [Person -> {"none", "unconfirmed", "confirmed"}]
  BY <1>1 DEF IInv, TypeOK, InviteUser, ResendInvite, tableVars
<1>3. request' \in [Request -> RequestState] /\ RequestInv' /\ GuardInv'
  <2>1. CASE Goto(r, "confirm")
    <3>1. Knows([request[r] EXCEPT !.pc = "confirm"])
      BY <1>1 DEF IInv, TypeOK, RequestInv, Knows, Guarded, RequestState
    <3>2. "confirm" \in PC
      BY DEF PC
    <3> QED
      BY <1>1, <2>1, <3>1, <3>2, GotoStep DEF IInv, limiterVars
  <2>2. ASSUME NEW answer \in {"invited", "failed"}, Leave(r, answer) PROVE <1>3!:
    <3>1. answer \in Answer
      BY DEF Answer
    <3> QED
      BY <1>1, <2>2, <3>1, LeaveStep DEF IInv, limiterVars
  <2> QED
    BY <2>1, <2>2 DEF InviteUser, ResendInvite
<1> QED
  BY <1>1, <1>2, <1>3 DEF IInv, TypeOK, ConnectionInv, authVars, limiterVars, boundVars

LEMMA ResolveStep ==
  ASSUME IInv, NEW r \in Request, ReadMetadata(r) \/ ReadSecret(r)
  PROVE  IInv'
<1>1. /\ request[r].pc \in {"metadata", "secret"} /\ request[r].pc \notin Guarded
      /\ request[r].org \in Org /\ request[r] \in RequestState
      /\ UNCHANGED <<tableVars, authVars, limiterVars, boundVars>>
  BY DEF IInv, TypeOK, RequestInv, Knows, Guarded, ReadMetadata, ReadSecret, At
<1>2. request' \in [Request -> RequestState] /\ RequestInv' /\ GuardInv'
  <2>1. CASE \E active \in BOOLEAN : request' = [request EXCEPT ![r].pc = "secret", ![r].active = active]
    <3>1. PICK active \in BOOLEAN : request' = [request EXCEPT ![r].pc = "secret", ![r].active = active]
      BY <2>1
    <3> DEFINE q == [request[r] EXCEPT !.pc = "secret", !.active = active]
    <3>2. q \in RequestState
      <4>1. "secret" \in PC
        BY DEF PC
      <4> QED
        BY <1>1, <4>1 DEF RequestState
    <3>3. q.limiter = request[r].limiter /\ q.user = request[r].user
      BY <1>1 DEF RequestState
    <3>4. Knows(q)
      BY <1>1 DEF IInv, RequestInv, Knows, Guarded, RequestState
    <3>5. request' = [request EXCEPT ![r] = q]
      BY <3>1 DEF IInv, TypeOK
    <3> QED
      BY <1>1, <3>2, <3>3, <3>4, <3>5, RequestMoves DEF IInv, limiterVars
  <2>2. ASSUME NEW answer \in {"config", "not configured", "unavailable"}, Answered(r, answer)
        PROVE  <1>2!:
    <3>1. answer \in Answer
      BY DEF Answer
    <3> QED
      BY <1>1, <2>2, <3>1, AnsweredStep DEF IInv, limiterVars
  <2>3. connection[request[r].org].active \in BOOLEAN
    BY <1>1 DEF IInv, TypeOK
  <2> QED
    BY <2>1, <2>2, <2>3 DEF ReadMetadata, ReadSecret
<1> QED
  BY <1>1, <1>2, RequestOnly

\* An authorized request begins, or is refused.
Begins(r) ==
    \/ Forbid(r)
    \/ \E a \in Account : BeginConnect(r, a)
    \/ \E o \in Org, email \in Person : BeginInvite(r, o, email)
    \/ \E o \in Org : BeginDisconnect(r, o) \/ BeginResolve(r, o)

\* It is no longer one that is authorized, and has no answer but the refusal.
LEMMA BegunRequest ==
  ASSUME IInv, NEW r \in Request, Begins(r)
  PROVE  \E q \in RequestState :
           /\ Begin(r, q) /\ Knows(q) /\ q.limiter = None
           /\ q.pc \in {"done", "limiter", "disconnect", "metadata"}
           /\ q.answer \in {None, "forbidden"}
<1> DEFINE u == request[r].user
           Good(q) == /\ q \in RequestState /\ Begin(r, q) /\ Knows(q) /\ q.limiter = None
                      /\ q.pc \in {"done", "limiter", "disconnect", "metadata"}
                      /\ q.answer \in {None, "forbidden"}
<1>1. request[r].pc = "authorized" /\ u \in Person
  BY DEF IInv, RequestInv, Knows, Begins, Forbid, BeginConnect, BeginInvite, BeginDisconnect,
         BeginResolve, Begin
<1>2. /\ {"done", "limiter", "disconnect", "metadata"} \subseteq PC
      /\ {"connect", "invite", "disconnect", "resolve"} \subseteq Kind
      /\ "forbidden" \in Answer
  BY DEF PC, Kind, Limited, Answer
<1>3. CASE Forbid(r)
  <2> DEFINE q == [IdleRequest EXCEPT !.pc = "done", !.answer = "forbidden"]
  <2>1. /\ q \in RequestState /\ q.limiter = None /\ q.pc = "done" /\ q.answer = "forbidden"
    BY <1>2 DEF RequestState, IdleRequest
  <2>2. Knows(q)
    BY NoneAssumption DEF Knows, Guarded, IdleRequest, Kind, Limited
  <2>3. Begin(r, q)
    BY <1>3 DEF Forbid
  <2> QED
    BY <2>1, <2>2, <2>3
<1>4. ASSUME NEW a \in Account, BeginConnect(r, a) PROVE \E q \in RequestState : Good(q)
  <2> DEFINE q == [IdleRequest EXCEPT !.pc = "limiter", !.kind = "connect",
                                      !.user = u, !.account = a]
  <2>1. q \in RequestState /\ q.limiter = None /\ q.pc = "limiter" /\ q.answer = None
    BY <1>1, <1>2 DEF RequestState, IdleRequest
  <2>2. Knows(q)
    BY <1>1, NoneAssumption DEF Knows, Guarded, IdleRequest, Limited, Answer
  <2>3. Begin(r, q)
    BY <1>4 DEF BeginConnect
  <2> QED
    BY <2>1, <2>2, <2>3
<1>5. ASSUME NEW o \in Org, NEW email \in Person, BeginInvite(r, o, email)
      PROVE  \E q \in RequestState : Good(q)
  <2> DEFINE q == [IdleRequest EXCEPT !.pc = "limiter", !.kind = "invite", !.user = u,
                                      !.org = o, !.email = email]
  <2>1. q \in RequestState /\ q.limiter = None /\ q.pc = "limiter" /\ q.answer = None
    BY <1>1, <1>2 DEF RequestState, IdleRequest
  <2>2. Knows(q)
    BY <1>1, NoneAssumption DEF Knows, Guarded, IdleRequest, Limited, Answer
  <2>3. Begin(r, q)
    BY <1>5 DEF BeginInvite
  <2> QED
    BY <2>1, <2>2, <2>3
<1>6. ASSUME NEW o \in Org, BeginDisconnect(r, o) PROVE \E q \in RequestState : Good(q)
  <2> DEFINE q == [IdleRequest EXCEPT !.pc = "disconnect", !.kind = "disconnect",
                                      !.user = u, !.org = o]
  <2>1. q \in RequestState /\ q.limiter = None /\ q.pc = "disconnect" /\ q.answer = None
    BY <1>1, <1>2 DEF RequestState, IdleRequest
  <2>2. Knows(q)
    BY <1>1, NoneAssumption DEF Knows, Guarded, IdleRequest, Limited, Answer
  <2>3. Begin(r, q)
    BY <1>6 DEF BeginDisconnect
  <2> QED
    BY <2>1, <2>2, <2>3
<1>7. ASSUME NEW o \in Org, BeginResolve(r, o) PROVE \E q \in RequestState : Good(q)
  <2> DEFINE q == [IdleRequest EXCEPT !.pc = "metadata", !.kind = "resolve",
                                      !.user = u, !.org = o]
  <2>1. q \in RequestState /\ q.limiter = None /\ q.pc = "metadata" /\ q.answer = None
    BY <1>1, <1>2 DEF RequestState, IdleRequest
  <2>2. Knows(q)
    BY <1>1, NoneAssumption DEF Knows, Guarded, IdleRequest, Limited, Answer
  <2>3. Begin(r, q)
    BY <1>7 DEF BeginResolve
  <2> QED
    BY <2>1, <2>2, <2>3
<1> QED
  BY <1>3, <1>4, <1>5, <1>6, <1>7 DEF Begins

LEMMA BeginsStep ==
  ASSUME IInv, NEW r \in Request, Begins(r)
  PROVE  IInv'
<1>1. PICK q \in RequestState : Begin(r, q) /\ Knows(q) /\ q.limiter = None
  BY BegunRequest
<1>2. /\ request[r].limiter = None /\ request' = [request EXCEPT ![r] = q]
      /\ UNCHANGED <<tableVars, cached, told, limiterVars, calls, changes>>
  BY <1>1 DEF IInv, RequestInv, Knows, Guarded, Begin, authVars, boundVars
<1>3. cached' \in [Person -> SlotOf(Memberships)] /\ calls' \in 0 .. MaxCalls
  BY <1>2 DEF IInv, TypeOK
<1> QED
  BY <1>1, <1>2, <1>3, BeginStep

(***************************************************************************)
(* The invariant is inductive.                                              *)
(***************************************************************************)

\* The steps of the system, by what they change.
PeopleMove ==
    \/ \E p \in Person : SignUp(p) \/ ConfirmEmail(p) \/ CacheExpires(p)
    \/ \E o \in Org, p \in Person, role \in Role \cup {None} : ChangeRole(o, p, role)
    \/ OthersInvalidate
    \/ \E p \in Person : FetchMemberships(p)

WaitersGoOn == \E p \in Person : Authorize(p) \/ FetchFails(p)

LEMMA NextCases ==
  ASSUME [Next]_vars
  PROVE  \/ PeopleMove \/ WaitersGoOn
         \/ \E r \in Request : \/ \E p \in Person : Authenticate(r, p)
                               \/ Begins(r) \/ RequestStep(r)
         \/ UNCHANGED vars
BY DEF Next, PeopleMove, WaitersGoOn, Begins

LEMMA RequestStepInv ==
  ASSUME IInv, NEW r \in Request, RequestStep(r)
  PROVE  IInv'
BY LimiterStep, EnterGuardStep, LeaveGuardStep, ValidateStep, ProvisionStep,
   InvalidateUserStep, DisconnectStep, FlushMembershipsStep, AddMemberStep, InviteStep,
   ResolveStep
   DEF RequestStep

LEMMA StepInv == IInv /\ [Next]_vars => IInv'
<1> SUFFICES ASSUME IInv, [Next]_vars PROVE IInv'
    OBVIOUS
<1>1. CASE UNCHANGED vars
  BY <1>1 DEF vars, tableVars, authVars, limiterVars, boundVars,
       IInv, TypeOK, RequestInv, GuardInv, ConnectionInv
<1>2. CASE PeopleMove
  BY <1>2, PeopleStep DEF PeopleMove
<1>3. CASE WaitersGoOn
  BY <1>3, AuthorizeStep DEF WaitersGoOn
<1> QED
  BY <1>1, <1>2, <1>3, NextCases, AuthenticateStep, BeginsStep, RequestStepInv

LEMMA InvHolds == Spec => []IInv
BY InitInv, StepInv, PTL DEF Spec

\* The people, memberships, connections, caches, limiters and requests of every
\* reachable state are what the model says they are.
THEOREM TypeCorrectness == Spec => []TypeOK
<1>1. IInv => TypeOK
  BY DEF IInv
<1> QED
  BY <1>1, InvHolds, PTL

\* The limiter's guard: a user counts as in flight exactly while one request of
\* that user is inside, whichever way requests end.
THEOREM LimitersTrack == Spec => []LimiterTracksRequests
<1>1. IInv => LimiterTracksRequests
  <2> SUFFICES ASSUME IInv, NEW l \in Limiter, NEW p \in Person
               PROVE  /\ p \in inFlight[l] <=>
                           {r \in Request : request[r].limiter = l /\ request[r].user = p} # {}
                      /\ \A r, s \in {q \in Request : request[q].limiter = l /\ request[q].user = p} :
                           r = s
    BY DEF LimiterTracksRequests
  <2>1. l # None
    BY NoneAssumption
  <2> QED
    BY <2>1 DEF IInv, GuardInv
<1> QED
  BY <1>1, InvHolds, PTL

(***************************************************************************)
(* Which step gives which answer.                                           *)
(***************************************************************************)

\* A step changes the request that takes it and no other.
LEMMA OthersStay ==
  ASSUME IInv, NEW r \in Request, RequestStep(r), NEW s \in Request, s # r
  PROVE  request'[s] = request[s]
<1> USE DEF IInv, TypeOK, Goto, Leave, Answered
<1>1. CASE SeeNoLimiter(r) \/ CreateLimiter(r) \/ EnterGuard(r) \/ LeaveGuard(r)
  BY <1>1 DEF SeeNoLimiter, CreateLimiter, EnterGuard, Admit, LeaveGuard
<1>2. CASE Validate(r) \/ Provision(r) \/ InvalidateUser(r)
  BY <1>2 DEF Validate, Provision, InvalidateUser
<1>3. CASE Disconnect(r) \/ FlushMemberships(r) \/ ReadMetadata(r) \/ ReadSecret(r)
  BY <1>3 DEF Disconnect, FlushMemberships, ReadMetadata, ReadSecret
<1>4. CASE AddMemberFirst(r) \/ AddMemberAgain(r) \/ InviteUser(r) \/ ResendInvite(r)
  BY <1>4 DEF AddMemberFirst, AddMemberAgain, CallAddMember, InviteUser, ResendInvite
<1> QED
  BY <1>1, <1>2, <1>3, <1>4 DEF RequestStep

LEMMA AnswerGiven ==
  ASSUME TypeOK, NEW r \in Request, NEW answer, Answered(r, answer)
  PROVE  request'[r].answer = answer
<1>1. request'[r] = [IdleRequest EXCEPT !.pc = "done", !.answer = answer]
  BY DEF Answered, TypeOK
<1>2. [IdleRequest EXCEPT !.pc = "done", !.answer = answer].answer = answer
  BY DEF IdleRequest
<1> QED
  BY <1>1, <1>2

\* The answers a step may give.
LEMMA StepAnswers ==
  ASSUME IInv, NEW r \in Request, RequestStep(r), request'[r].answer # request[r].answer
  PROVE  /\ request'[r].answer = "config" => ReadSecret(r)
         /\ request'[r].answer = "invited" =>
               AddMemberFirst(r) \/ AddMemberAgain(r) \/ ResendInvite(r)
<1> USE DEF IInv, TypeOK, RequestState
<1>1. CASE SeeNoLimiter(r) \/ CreateLimiter(r)
  BY <1>1 DEF SeeNoLimiter, CreateLimiter, Goto
<1>2. CASE EnterGuard(r)
  <2>1. CASE Answered(r, "busy") \/ Answered(r, "limited")
    <3>1. request'[r].answer \in {"busy", "limited"}
      BY <2>1, AnswerGiven
    <3> QED
      BY <3>1
  <2>2. CASE Admit(r, limiter[request[r].kind])
    BY <2>2 DEF Admit
  <2> QED
    BY <1>2, <2>1, <2>2 DEF EnterGuard
<1>3. CASE LeaveGuard(r)
  <2>1. request'[r].answer = request[r].answer
    BY <1>3, AnswerGiven DEF LeaveGuard
  <2> QED
    BY <2>1
<1>4. CASE Validate(r) \/ Provision(r)
  BY <1>4 DEF Validate, Provision, Goto, Leave
<1>5. CASE InvalidateUser(r)
  BY <1>5 DEF InvalidateUser, Leave
<1>6. CASE Disconnect(r) \/ FlushMemberships(r)
  <2>1. CASE Answered(r, "failed") \/ Answered(r, "disconnected")
    <3>1. request'[r].answer \in {"failed", "disconnected"}
      BY <2>1, AnswerGiven
    <3> QED
      BY <3>1
  <2>2. CASE Goto(r, "flush")
    BY <2>2 DEF Goto
  <2> QED
    BY <1>6, <2>1, <2>2 DEF Disconnect, FlushMemberships
<1>7. CASE AddMemberFirst(r) \/ AddMemberAgain(r)
  <2>1. request'[r].answer # "config"
    <3>1. AddStatus(request[r].user, request[r].org, request[r].email) \in
            {"unauthorized", "invite_needed", "added", "pending_resend", "already_member"}
      BY DEF AddStatus
    <3> DEFINE status == AddStatus(request[r].user, request[r].org, request[r].email)
    <3>2. /\ AfterAdd(status).answer \in {"forbidden", "conflict", "invited", None}
          /\ AfterConfirm(status).answer \in {"invited", "failed"}
      BY <3>1 DEF AfterAdd, AfterConfirm
    <3>3. \/ request'[r].answer = AfterAdd(status).answer
          \/ request'[r].answer = AfterConfirm(status).answer
          \/ request'[r].answer = "failed"
      <4>1. request[r] \in RequestState /\ DOMAIN request = Request
        BY DEF IInv, TypeOK
      <4>2. Leave(r, "failed") => request'[r].answer = "failed"
        BY <4>1 DEF Leave, RequestState
      <4>3. ASSUME NEW after, NEW attached,
                   request' = [request EXCEPT ![r].pc = after.pc, ![r].answer = after.answer,
                                              ![r].attached = attached]
            PROVE  request'[r].answer = after.answer
        BY <4>1, <4>3 DEF RequestState
      <4> HIDE DEF status
      <4> QED
        BY <1>7, <4>2, <4>3 DEF AddMemberFirst, AddMemberAgain, CallAddMember, status
    <3> QED
      BY <3>2, <3>3, NoneAssumption DEF Answer
  <2> QED
    BY <1>7, <2>1
<1>8. CASE InviteUser(r) \/ ResendInvite(r)
  BY <1>8 DEF InviteUser, ResendInvite, Goto, Leave
<1>9. CASE ReadMetadata(r) \/ ReadSecret(r)
  <2>1. CASE ReadMetadata(r)
    <3>1. request'[r].answer \in {request[r].answer, "not configured", "unavailable"}
      <4>1. CASE Answered(r, "not configured") \/ Answered(r, "unavailable")
        BY <4>1, AnswerGiven
      <4>2. CASE request' = [request EXCEPT ![r].pc = "secret",
                               ![r].active = connection[request[r].org].active]
        BY <4>2
      <4> QED
        BY <2>1, <4>1, <4>2 DEF ReadMetadata
    <3> QED
      BY <3>1
  <2>2. CASE ReadSecret(r)
    <3>1. request'[r].answer \in {"config", "not configured", "unavailable"}
      BY <2>2, AnswerGiven DEF ReadSecret
    <3> QED
      BY <2>2, <3>1
  <2> QED
    BY <1>9, <2>1, <2>2
<1> QED
  BY <1>1, <1>2, <1>3, <1>4, <1>5, <1>6, <1>7, <1>8, <1>9 DEF RequestStep

\* The same of any step of the system.
LEMMA Answers ==
  ASSUME IInv, [Next]_vars, NEW s \in Request, request'[s].answer # request[s].answer
  PROVE  /\ request'[s].answer = "config" => ReadSecret(s)
         /\ request'[s].answer = "invited" =>
               AddMemberFirst(s) \/ AddMemberAgain(s) \/ ResendInvite(s)
<1>1. None \notin {"config", "invited"}
  BY NoneAssumption DEF Answer
<1>2. CASE UNCHANGED vars \/ PeopleMove
  BY <1>2 DEF vars, PeopleMove, SignUp, ConfirmEmail, CacheExpires, ChangeRole, OthersInvalidate,
       FetchMemberships
<1>3. CASE WaitersGoOn
  <2>1. ASSUME NEW p \in Person, Authorize(p) PROVE request'[s].answer = request[s].answer
    BY <2>1 DEF Authorize, IInv, TypeOK, RequestState
  <2>2. ASSUME NEW p \in Person, FetchFails(p)
        PROVE  request'[s].answer \in {request[s].answer, "unavailable"}
    BY <2>2 DEF FetchFails, IdleRequest
  <2> QED
    BY <1>3, <2>1, <2>2 DEF WaitersGoOn
<1>4. ASSUME NEW r \in Request, NEW p \in Person, Authenticate(r, p)
      PROVE  request'[s].answer \in {request[s].answer, None}
  <2> DEFINE due   == IF RetryInFlight(cached[p]) THEN {} ELSE told[p]
             known == [Begun(p, told[p]) EXCEPT !.pc = "authorized", !.context = cached[p].entry]
             asks  == [Begun(p, due) EXCEPT !.pc = "auth"]
  <2>1. PICK q : request' = [request EXCEPT ![r] = q] /\ q.answer = None
    <3>1. known.answer = None /\ asks.answer = None
      <4> HIDE DEF due
      <4> QED
        BY DEF Begun, IdleRequest
    <3>2. \/ request' = [request EXCEPT ![r] = known]
          \/ request' = [request EXCEPT ![r] = asks]
      BY <1>4, Zenon DEF Authenticate
    <3> HIDE DEF known, asks
    <3> QED
      BY <3>1, <3>2
  <2> QED
    BY <2>1 DEF IInv, TypeOK
<1>5. ASSUME NEW r \in Request, Begins(r)
      PROVE  request'[s].answer \in {request[s].answer, None, "forbidden"}
  <2>1. PICK q : Begin(r, q) /\ q.answer \in {None, "forbidden"}
    BY <1>5, BegunRequest
  <2> QED
    BY <2>1 DEF Begin, IInv, TypeOK
<1>6. CASE \E r \in Request : RequestStep(r)
  BY <1>6, OthersStay, StepAnswers
<1> QED
  BY <1>1, <1>2, <1>3, <1>4, <1>5, <1>6, NextCases

\* A connection's configuration is answered only while its key is there, hence
\* while it is active, although the resolver saw it active before.
THEOREM ResolutionIsLive == Spec => ResolvedIsLive
<1> DEFINE Live == \A r \in Request :
          request[r].answer # "config" /\ request'[r].answer = "config" =>
              connection[request[r].org].active /\ connection[request[r].org].secret
<1>1. IInv /\ [Next]_vars => Live
  <2> SUFFICES ASSUME IInv, [Next]_vars, NEW r \in Request,
                      request[r].answer # "config", request'[r].answer = "config"
               PROVE  connection[request[r].org].active /\ connection[request[r].org].secret
    OBVIOUS
  <2>1. ReadSecret(r)
    BY Answers
  <2>2. request[r].org \in Org
    BY <2>1 DEF IInv, RequestInv, Knows, ReadSecret, At
  <2>3. connection[request[r].org].secret
    BY <2>1 DEF ReadSecret, Answered, IdleRequest, IInv, TypeOK
  <2> QED
    BY <2>2, <2>3 DEF IInv, ConnectionInv
<1> QED
  BY <1>1, InvHolds, PTL DEF Spec, ResolvedIsLive

(***************************************************************************)
(* What the user of a new organization sees.                                *)
(***************************************************************************)

\* Memberships show these organizations.
Shows(memberships, known) == \A o \in known : memberships[o] # None

\* Users are told of organizations of which they are members.
ToldInv == \A p \in Person : \A o \in told[p] : o <= orgs /\ member[o][p] # None

\* What the next request may be authorized by: the entry, or what the fetch that
\* would store it has read.
SlotShows(slot, known) ==
    /\ slot.entry # None => Shows(slot.entry, known)
    /\ slot.fetch = "first" /\ slot.seen # None => Shows(slot.seen, known)

SlotInv == \A p \in Person : SlotShows(cached[p], told[p])

\* What a retry has read shows what is due from it, because nothing is due to those
\* who joined the retry; and what authorizes a request shows what is due.
ContextShows(q, slot, known) ==
    /\ q.pc = "auth" /\ slot.fetch = "retry" /\ slot.seen # None =>
          Shows(slot.seen, q.due \cap known)
    /\ q.pc = "authorized" => Shows(q.context, q.due \cap known)

Authenticating == {"auth", "authorized"}

AuthInv == \A r \in Request : request[r].pc \in Authenticating =>
              ContextShows(request[r], cached[request[r].user], told[request[r].user])

DueInv == \A r \in Request : request[r].pc \in Authenticating =>
             \A o \in request[r].due : o <= orgs

\* Nobody was told yet of an organization whose answer is being prepared.
NewInv ==
    \A r \in Request : request[r].pc = "invalidate" =>
        /\ request[r].org <= orgs
        /\ \A p \in Person : request[r].org \notin told[p]
        /\ \A s \in Request :
              /\ request[s].pc \in Authenticating => request[r].org \notin request[s].due
              /\ request[s].pc = "invalidate" /\ s # r => request[s].org # request[r].org

VisibleInv == ToldInv /\ SlotInv /\ AuthInv /\ DueInv /\ NewInv

LEMMA VisibleInit == Init => VisibleInv
BY DEF Init, EmptySlot, IdleRequest, VisibleInv, ToldInv, SlotInv, SlotShows, AuthInv, DueInv,
   NewInv, Authenticating

\* A slot that answers less than before.
Weaker(t, s) ==
    /\ t.entry = None \/ t.entry = s.entry
    /\ t.fetch \in {"first", "retry"} /\ t.seen # None => t.fetch = s.fetch /\ t.seen = s.seen

LEMMA SlotWeakens ==
  ASSUME NEW slot \in SlotOf(Memberships)
  PROVE  /\ Weaker(slot, slot) /\ Weaker(Expired(slot), slot) /\ Weaker(Overtaken(slot), slot)
         /\ Weaker(Invalidated(slot), slot) /\ Weaker(Joined(slot), slot)
         /\ Weaker(Refetched(slot), slot) /\ Weaker(Abandoned(slot), slot)
<1>1. Weaker(slot, slot)
  BY DEF Weaker
<1>2. Weaker(Expired(slot), slot) /\ Weaker(Abandoned(slot), slot) /\ Weaker(Refetched(slot), slot)
  BY DEF SlotOf, Weaker, Expired, Abandoned, Refetched
<1>3. Weaker(Overtaken(slot), slot)
  BY DEF SlotOf, Weaker, Overtaken
<1>4. Weaker(Joined(slot), slot)
  BY DEF SlotOf, Weaker, Joined
<1>5. Weaker(Invalidated(slot), slot)
  <2> DEFINE e == Expired(slot)
  <2>1. e.entry = None /\ e.fetch = slot.fetch /\ e.seen = slot.seen /\ e \in SlotOf(Memberships)
    BY DEF SlotOf, Expired
  <2> HIDE DEF e
  <2>2. Weaker(Overtaken(e), slot)
    BY <2>1 DEF SlotOf, Weaker, Overtaken
  <2> QED
    BY <2>2 DEF e, Invalidated
<1> QED
  BY <1>1, <1>2, <1>3, <1>4, <1>5

\* Most steps: the slots answer no more than before, nobody is told of anything new
\* or loses what they were told of, and requests begin or leave their authentication
\* only to do something else.
LEMMA QuietStep ==
  ASSUME IInv, IInv', VisibleInv, orgs <= orgs',
         \A p \in Person : /\ Weaker(cached'[p], cached[p])
                           /\ told'[p] \subseteq told[p]
                           /\ \A o \in told'[p] : member'[o][p] # None,
         \A r \in Request : \/ request'[r] = request[r]
                            \/ request'[r].pc \notin Authenticating \cup {"invalidate"}
  PROVE  VisibleInv'
<1>0. orgs \in Nat /\ orgs' \in Nat /\ \A p \in Person : told[p] \subseteq Nat
  BY OnboardingAssumption DEF IInv, TypeOK, Org
<1>1. ToldInv'
  BY <1>0 DEF VisibleInv, ToldInv
<1>2. SlotInv'
  BY DEF VisibleInv, SlotInv, SlotShows, Shows, Weaker
<1>3. AuthInv'
  <2> SUFFICES ASSUME NEW r \in Request, request'[r].pc \in Authenticating
               PROVE  ContextShows(request'[r], cached'[request'[r].user], told'[request'[r].user])
    BY DEF AuthInv
  <2>1. request'[r] = request[r] /\ request[r].user \in Person
    BY DEF IInv, RequestInv, Knows, Authenticating
  <2>2. ContextShows(request[r], cached[request[r].user], told[request[r].user])
    BY <2>1 DEF VisibleInv, AuthInv
  <2> QED
    BY <2>1, <2>2 DEF ContextShows, Shows, Weaker
<1>4. DueInv'
  <2> SUFFICES ASSUME NEW r \in Request, request'[r].pc \in Authenticating,
                      NEW o \in request'[r].due
               PROVE  o <= orgs'
    BY DEF DueInv
  <2>1. request'[r] = request[r] /\ o \in Nat
    BY DEF IInv, TypeOK, RequestState, Org, Authenticating
  <2> QED
    BY <1>0, <2>1 DEF VisibleInv, DueInv
<1>5. NewInv'
  <2> SUFFICES ASSUME NEW r \in Request, request'[r].pc = "invalidate"
               PROVE  /\ request'[r].org <= orgs'
                      /\ \A p \in Person : request'[r].org \notin told'[p]
                      /\ \A s \in Request :
                           /\ request'[s].pc \in Authenticating =>
                                 request'[r].org \notin request'[s].due
                           /\ request'[s].pc = "invalidate" /\ s # r =>
                                 request'[s].org # request'[r].org
    BY DEF NewInv
  <2>1. request'[r] = request[r] /\ request[r].org \in Nat
    BY DEF IInv, RequestInv, Knows, Org
  <2> QED
    BY <1>0, <2>1 DEF VisibleInv, NewInv
<1> QED
  BY <1>1, <1>2, <1>3, <1>4, <1>5 DEF VisibleInv

LEMMA PeopleQuiet ==
  ASSUME IInv, IInv', VisibleInv,
         \/ \E p \in Person : SignUp(p) \/ ConfirmEmail(p) \/ CacheExpires(p)
         \/ \E o \in Org, p \in Person, role \in Role \cup {None} : ChangeRole(o, p, role)
         \/ OthersInvalidate
  PROVE  VisibleInv'
<1>1. /\ UNCHANGED <<request, orgs>>
      /\ orgs <= orgs'
  BY OnboardingAssumption
     DEF IInv, TypeOK, SignUp, ConfirmEmail, CacheExpires, ChangeRole, OthersInvalidate, tableVars
<1>2. \A p \in Person : Weaker(cached'[p], cached[p])
  <2>1. \A p \in Person : cached'[p] \in {cached[p], Expired(cached[p]), Overtaken(cached[p])}
    BY DEF IInv, TypeOK, SignUp, ConfirmEmail, CacheExpires, ChangeRole, OthersInvalidate, authVars
  <2> QED
    BY <2>1, SlotWeakens DEF IInv, TypeOK
<1>3. \A p \in Person : told'[p] \subseteq told[p] /\ \A o \in told'[p] : member'[o][p] # None
  <2>1. \A p \in Person : \A o \in told[p] : o \in Org /\ member[o][p] # None
    BY DEF VisibleInv, ToldInv, IInv, TypeOK
  <2>2. CASE UNCHANGED <<member, told>>
    BY <2>1, <2>2
  <2>3. ASSUME NEW o \in Org, NEW p \in Person, NEW role \in Role \cup {None}, ChangeRole(o, p, role)
        PROVE  <1>3!:
    <3> DEFINE told_p == IF role = None THEN told[p] \ {o} ELSE told[p]
    <3>4. /\ told' = [told EXCEPT ![p] = told_p]
          /\ member' = [member EXCEPT ![o][p] = role]
      BY <2>3 DEF ChangeRole
    <3>5. /\ told \in [Person -> SUBSET Org]
          /\ member \in [Org -> [Person -> Role \cup {None}]]
      BY DEF IInv, TypeOK
    <3>1. \A q \in Person : told'[q] = IF q = p /\ role = None THEN told[q] \ {o} ELSE told[q]
      <4> HIDE DEF told_p
      <4>1. \A q \in Person : told'[q] = IF q = p THEN told_p ELSE told[q]
        BY <3>4, <3>5
      <4> QED
        BY <4>1 DEF told_p
    <3>2. \A c \in Org, q \in Person : member'[c][q] = IF c = o /\ q = p THEN role ELSE member[c][q]
      BY <3>4, <3>5
    <3> QED
      BY <2>1, <3>1, <3>2
  <2> QED
    BY <2>2, <2>3 DEF SignUp, ConfirmEmail, CacheExpires, OthersInvalidate, tableVars, authVars
<1> QED
  BY <1>1, <1>2, <1>3, QuietStep

\* A fetch reads memberships of now.
LEMMA FetchVisible ==
  ASSUME IInv, IInv', VisibleInv, NEW p \in Person, FetchMemberships(p)
  PROVE  VisibleInv'
<1> DEFINE slot == cached[p]
           fetched == Fetched(slot, MembershipsOf(p))
<1>1. /\ slot \in SlotOf(Memberships) /\ DOMAIN cached = Person
      /\ UNCHANGED <<member, orgs, told, request>>
  BY DEF IInv, TypeOK, FetchMemberships, tableVars
<1>2. \A q \in Person : \A o \in told[q] : o \in Org /\ o <= orgs /\ member[o][q] # None
  BY DEF VisibleInv, ToldInv, IInv, TypeOK
<1>3. CASE Outdated(slot) /\ cached' = [cached EXCEPT ![p] = Refetched(slot)]
  <2>1. \A q \in Person : Weaker(cached'[q], cached[q])
    BY <1>1, <1>3, SlotWeakens DEF IInv, TypeOK
  <2>2. orgs <= orgs'
    BY <1>1, OnboardingAssumption DEF IInv, TypeOK
  <2> QED
    BY <1>1, <1>2, <2>1, <2>2, QuietStep
<1>4. CASE Reading(slot) /\ cached' = [cached EXCEPT ![p] = fetched]
  <2>1. fetched.entry = slot.entry /\ fetched.fetch = slot.fetch /\ fetched.seen = MembershipsOf(p)
    BY <1>1 DEF SlotOf, Fetched
  <2>2. Shows(fetched.seen, told[p])
    BY <1>2, <2>1 DEF Shows, MembershipsOf
  <2> HIDE DEF fetched
  <2>3. \A q \in Person : cached'[q] = IF q = p THEN fetched ELSE cached[q]
    BY <1>1, <1>4
  <2>4. SlotInv'
    BY <1>1, <2>1, <2>2, <2>3 DEF VisibleInv, SlotInv, SlotShows
  <2>5. AuthInv'
    <3> SUFFICES ASSUME NEW r \in Request, request[r].pc \in Authenticating
                 PROVE  ContextShows(request[r], cached'[request[r].user], told[request[r].user])
      BY <1>1 DEF AuthInv
    <3>1. request[r].user \in Person
      BY DEF IInv, RequestInv, Knows, Authenticating
    <3>2. ContextShows(request[r], cached[request[r].user], told[request[r].user])
      BY DEF VisibleInv, AuthInv
    <3>3. CASE request[r].user = p
      BY <2>2, <2>3, <3>1, <3>2, <3>3 DEF ContextShows, Shows
    <3> QED
      BY <2>3, <3>1, <3>2, <3>3
  <2>6. ToldInv' /\ DueInv' /\ NewInv'
    BY <1>1 DEF VisibleInv, ToldInv, DueInv, NewInv
  <2> QED
    BY <2>4, <2>5, <2>6 DEF VisibleInv
<1> QED
  BY <1>3, <1>4 DEF FetchMemberships

\* Those who wait get what the fetch has read.
LEMMA AuthorizeVisible ==
  ASSUME IInv, IInv', VisibleInv, NEW p \in Person, Authorize(p)
  PROVE  VisibleInv'
<1> DEFINE slot == cached[p]
           settled == Settled(slot)
<1>1. /\ slot \in SlotOf(Memberships) /\ DOMAIN cached = Person /\ slot.seen # None
      /\ slot.fetch \in {"first", "retry"}
      /\ UNCHANGED <<member, orgs, told>>
  BY DEF IInv, TypeOK, Authorize, Ready, tableVars
<1>2. /\ settled.entry = IF slot.fetch = "first" THEN slot.seen ELSE slot.entry
      /\ settled.fetch = "none"
  BY DEF Settled
<1> HIDE DEF settled
<1>3. \A q \in Person : cached'[q] = IF q = p THEN settled ELSE cached[q]
  BY <1>1 DEF Authorize, settled
<1>4. \A r \in Request :
        \/ request'[r] = request[r] /\ ~Waits(r, p)
        \/ /\ Waits(r, p) /\ request'[r].pc = "authorized" /\ request'[r].context = slot.seen
           /\ request'[r].due = request[r].due /\ request'[r].user = p
  <2> SUFFICES ASSUME NEW r \in Request
               PROVE  \/ request'[r] = request[r] /\ ~Waits(r, p)
                      \/ /\ Waits(r, p) /\ request'[r].pc = "authorized"
                         /\ request'[r].context = slot.seen
                         /\ request'[r].due = request[r].due /\ request'[r].user = p
    OBVIOUS
  <2>1. request[r] \in RequestState
    BY DEF IInv, TypeOK
  <2>2. request'[r] = IF Waits(r, p)
                        THEN [request[r] EXCEPT !.pc = "authorized", !.context = slot.seen]
                        ELSE request[r]
    BY DEF Authorize
  <2>3. CASE Waits(r, p)
    BY <2>1, <2>2, <2>3 DEF Waits, RequestState
  <2> QED
    BY <2>2, <2>3
<1>5. SlotInv'
  BY <1>1, <1>2, <1>3 DEF VisibleInv, SlotInv, SlotShows
<1>6. AuthInv'
  <2> SUFFICES ASSUME NEW r \in Request, request'[r].pc \in Authenticating
               PROVE  ContextShows(request'[r], cached'[request'[r].user], told[request'[r].user])
    BY <1>1 DEF AuthInv
  <2>1. CASE Waits(r, p)
    <3>1. ContextShows(request[r], slot, told[p]) /\ SlotShows(slot, told[p])
      BY <2>1 DEF Waits, Authenticating, VisibleInv, AuthInv, SlotInv
    <3>2. Shows(slot.seen, request[r].due \cap told[p])
      BY <1>1, <2>1, <3>1 DEF Waits, ContextShows, SlotShows, Shows
    <3> QED
      BY <1>4, <2>1, <3>2 DEF ContextShows
  <2>2. CASE ~Waits(r, p)
    <3>1. request'[r] = request[r] /\ request[r].user \in Person
      BY <1>4, <2>2 DEF IInv, RequestInv, Knows, Authenticating
    <3>2. ContextShows(request[r], cached[request[r].user], told[request[r].user])
      BY <3>1 DEF VisibleInv, AuthInv
    <3> QED
      BY <1>2, <1>3, <3>1, <3>2 DEF ContextShows
  <2> QED
    BY <2>1, <2>2
<1>7. ToldInv'
  BY <1>1 DEF VisibleInv, ToldInv
<1>8. \A r \in Request :
        /\ request'[r].pc \in Authenticating =>
             request[r].pc \in Authenticating /\ request'[r].due = request[r].due
        /\ request'[r].pc = "invalidate" => request'[r] = request[r]
  BY <1>4 DEF Waits, Authenticating
<1>9. DueInv' /\ NewInv'
  BY <1>1, <1>8 DEF VisibleInv, DueInv, NewInv
<1> QED
  BY <1>5, <1>6, <1>7, <1>9 DEF VisibleInv

LEMMA FetchFailsQuiet ==
  ASSUME IInv, IInv', VisibleInv, NEW p \in Person, FetchFails(p)
  PROVE  VisibleInv'
<1>1. UNCHANGED <<member, orgs, told>> /\ orgs <= orgs'
  BY OnboardingAssumption DEF IInv, TypeOK, FetchFails, tableVars
<1>2. \A q \in Person : Weaker(cached'[q], cached[q])
  BY SlotWeakens DEF IInv, TypeOK, FetchFails
<1>3. \A r \in Request : \/ request'[r] = request[r]
                         \/ request'[r].pc \notin Authenticating \cup {"invalidate"}
  BY DEF FetchFails, IdleRequest, Authenticating
<1> QED
  BY <1>1, <1>2, <1>3, QuietStep DEF VisibleInv, ToldInv

\* A request that begins has the entry, or shares a fetch.
LEMMA AuthenticateVisible ==
  ASSUME IInv, IInv', VisibleInv, NEW r \in Request, NEW p \in Person, Authenticate(r, p)
  PROVE  VisibleInv'
<1> DEFINE slot == cached[p]
           joined == IF Cached(slot) THEN slot ELSE Joined(slot)
           q == request'[r]
<1>1. /\ slot \in SlotOf(Memberships) /\ DOMAIN cached = Person /\ DOMAIN request = Request
      /\ UNCHANGED <<member, orgs, told>>
  BY DEF IInv, TypeOK, Authenticate, tableVars
<1>2. \A u \in Person : cached'[u] = IF u = p THEN joined ELSE cached[u]
  BY <1>1 DEF Authenticate
<1>3. Weaker(joined, slot)
  BY <1>1, SlotWeakens
<1>4. /\ q.user = p /\ q.pc \in Authenticating /\ q.due \subseteq told[p]
      /\ q.pc = "authorized" => slot.entry # None /\ q.context = slot.entry
      /\ q.pc = "auth" /\ slot.fetch = "retry" => q.due = {}
      /\ \A s \in Request \ {r} : request'[s] = request[s]
  <2>1. CASE Cached(slot)
    <3>1. request' = [request EXCEPT ![r] = [Begun(p, told[p]) EXCEPT !.pc = "authorized",
                                                                     !.context = slot.entry]]
      BY <2>1 DEF Authenticate
    <3>2. slot.entry # None
      BY <2>1 DEF Cached
    <3> HIDE DEF slot
    <3> QED
      BY <1>1, <3>1, <3>2 DEF Begun, IdleRequest, Authenticating
  <2>2. CASE ~Cached(slot)
    <3> DEFINE due == IF RetryInFlight(slot) THEN {} ELSE told[p]
    <3>1. request' = [request EXCEPT ![r] = [Begun(p, due) EXCEPT !.pc = "auth"]]
      BY <2>2 DEF Authenticate
    <3>2. due \subseteq told[p] /\ (slot.fetch = "retry" => due = {})
      BY DEF RetryInFlight
    <3> HIDE DEF due
    <3> QED
      BY <1>1, <3>1, <3>2 DEF Begun, IdleRequest, Authenticating
  <2> QED
    BY <2>1, <2>2
<1> HIDE DEF joined, q
<1>5. SlotInv'
  BY <1>1, <1>2, <1>3 DEF VisibleInv, SlotInv, SlotShows, Shows, Weaker
<1>6. AuthInv'
  <2> SUFFICES ASSUME NEW s \in Request, request'[s].pc \in Authenticating
               PROVE  ContextShows(request'[s], cached'[request'[s].user], told[request'[s].user])
    BY <1>1 DEF AuthInv
  <2>1. CASE s = r
    <3>1. SlotShows(slot, told[p])
      BY DEF VisibleInv, SlotInv
    <3>2. ContextShows(q, joined, told[p])
      BY <1>3, <1>4, <3>1 DEF ContextShows, SlotShows, Shows, Weaker
    <3> QED
      BY <1>2, <1>4, <2>1, <3>2 DEF q
  <2>2. CASE s # r
    <3>1. request'[s] = request[s] /\ request[s].user \in Person
      BY <1>4, <2>2 DEF IInv, RequestInv, Knows, Authenticating
    <3>2. ContextShows(request[s], cached[request[s].user], told[request[s].user])
      BY <3>1 DEF VisibleInv, AuthInv
    <3> QED
      BY <1>2, <1>3, <3>1, <3>2 DEF ContextShows, Weaker
  <2> QED
    BY <2>1, <2>2
<1>7. ToldInv'
  BY <1>1 DEF VisibleInv, ToldInv
<1>8. DueInv'
  BY <1>1, <1>4 DEF VisibleInv, DueInv, ToldInv, q
<1>9. NewInv'
  <2>1. \A s \in Request : request'[s].pc = "invalidate" => s # r
    BY <1>4 DEF q, Authenticating
  <2> QED
    BY <1>1, <1>4, <2>1 DEF VisibleInv, NewInv, q
<1> QED
  BY <1>5, <1>6, <1>7, <1>8, <1>9 DEF VisibleInv

\* An organization is created before anybody is told of it.
LEMMA ProvisionVisible ==
  ASSUME IInv, IInv', VisibleInv, NEW r \in Request, Provision(r)
  PROVE  VisibleInv'
<1>1. /\ UNCHANGED <<cached, told>> /\ orgs \in Nat
      /\ \A s \in Request \ {r} : request'[s] = request[s]
      /\ request[r].pc = "provision" /\ request[r].user \in Person
  <2>1. UNCHANGED <<cached, told>> /\ request[r].pc = "provision"
    BY DEF Provision, At, authVars
  <2>2. orgs \in Nat
    BY OnboardingAssumption DEF IInv, TypeOK
  <2>3. request[r].user \in Person
    BY <2>1 DEF IInv, RequestInv, Knows, Guarded
  <2> QED
    BY <2>1, <2>2, <2>3, OthersStay DEF RequestStep
<1>2. /\ orgs' \in {orgs, orgs + 1}
      /\ \A o \in Org, p \in Person : member[o][p] # None => member'[o][p] # None
  <2>1. CASE UNCHANGED tableVars
    BY <2>1 DEF tableVars
  <2>2. CASE CreateOrg(request[r].user, request[r].account)
    <3>1. "owner" # None
      BY NoneAssumption DEF Role
    <3> QED
      BY <2>2, <3>1 DEF CreateOrg, IInv, TypeOK
  <2> QED
    BY <2>1, <2>2 DEF Provision
<1>3. \A p \in Person : \A o \in told[p] : o \in Org /\ o \in Nat /\ o <= orgs /\ member'[o][p] # None
  BY <1>2 DEF VisibleInv, ToldInv, IInv, TypeOK, Org
<1>4. \A p \in Person : Weaker(cached'[p], cached[p])
  BY <1>1 DEF Weaker
<1>5. CASE request'[r].pc # "invalidate"
  <2>1. request'[r].pc \notin Authenticating
    BY <1>5 DEF Provision, Leave, IInv, TypeOK, RequestState, Authenticating
  <2> QED
    BY <1>1, <1>2, <1>3, <1>4, <1>5, <2>1, QuietStep
<1>6. CASE request'[r].pc = "invalidate"
  <2>1. orgs' = orgs + 1 /\ request'[r].org = orgs + 1
    BY <1>6 DEF Provision, Leave, CreateOrg, IInv, TypeOK, RequestState
  <2>2. \A s \in Request : request[s].pc \in Authenticating => \A o \in request[s].due : o \in Nat
    BY DEF IInv, TypeOK, RequestState, Org
  <2>3. \A s \in Request : request[s].pc = "invalidate" => request[s].org \in Nat
    BY DEF IInv, RequestInv, Knows, Org
  <2>4. ToldInv'
    BY <1>1, <1>3, <2>1 DEF ToldInv
  <2>5. SlotInv'
    BY <1>1 DEF VisibleInv, SlotInv
  <2>6. AuthInv' /\ DueInv'
    BY <1>1, <1>6, <2>1, <2>2 DEF VisibleInv, AuthInv, DueInv, Authenticating
  <2>7. NewInv'
    <3> SUFFICES ASSUME NEW s \in Request, request'[s].pc = "invalidate"
                 PROVE  /\ request'[s].org <= orgs'
                        /\ \A p \in Person : request'[s].org \notin told[p]
                        /\ \A t \in Request :
                             /\ request'[t].pc \in Authenticating =>
                                   request'[s].org \notin request'[t].due
                             /\ request'[t].pc = "invalidate" /\ t # s =>
                                   request'[t].org # request'[s].org
      BY <1>1 DEF NewInv
    <3>1. \A t \in Request : request'[t].pc \in Authenticating => t # r
      BY <1>6 DEF Authenticating
    <3>2. \A t \in Request \ {r} : request[t].pc = "invalidate" => request[t].org <= orgs
      BY DEF VisibleInv, NewInv
    <3>3. CASE s = r
      BY <1>1, <1>3, <2>1, <2>2, <2>3, <3>1, <3>2, <3>3 DEF VisibleInv, DueInv
    <3>4. CASE s # r
      BY <1>1, <2>1, <2>3, <3>1, <3>2, <3>4 DEF VisibleInv, NewInv
    <3> QED
      BY <3>3, <3>4
  <2> QED
    BY <2>4, <2>5, <2>6, <2>7 DEF VisibleInv
<1> QED
  BY <1>5, <1>6

\* The user's slot forgets before the user is told.
LEMMA InvalidateVisible ==
  ASSUME IInv, IInv', VisibleInv, NEW r \in Request, InvalidateUser(r)
  PROVE  VisibleInv'
<1> DEFINE u == request[r].user
           o == request[r].org
<1>1. /\ request[r].pc = "invalidate" /\ o \in Org /\ u \in Person /\ o <= orgs
      /\ \A p \in Person : o \notin told[p]
      /\ \A s \in Request : /\ request[s].pc \in Authenticating => o \notin request[s].due
                            /\ request[s].pc = "invalidate" /\ s # r => request[s].org # o
  BY DEF IInv, RequestInv, Knows, Guarded, InvalidateUser, At, VisibleInv, NewInv
<1>2. /\ UNCHANGED <<member, orgs>> /\ request'[r].pc = "leave"
      /\ \A s \in Request \ {r} : request'[s] = request[s]
  BY OthersStay DEF RequestStep, InvalidateUser, Leave, tableVars, IInv, TypeOK, RequestState
<1>3. \A p \in Person : cached'[p] = IF p = u THEN Invalidated(cached[p]) ELSE Overtaken(cached[p])
  BY DEF InvalidateUser
<1>4. \A p \in Person : /\ cached[p] \in SlotOf(Memberships) /\ Weaker(cached'[p], cached[p])
  BY <1>3, SlotWeakens DEF IInv, TypeOK
<1>5. cached'[u].entry = None /\ cached'[u].fetch # "first"
  <2> DEFINE e == Expired(cached[u])
  <2>1. e \in SlotOf(Memberships) /\ e.entry = None
    BY <1>1, <1>4 DEF SlotOf, Expired
  <2> HIDE DEF e
  <2>2. Overtaken(e).entry = None /\ Overtaken(e).fetch # "first"
    BY <2>1 DEF SlotOf, Overtaken
  <2> QED
    BY <1>1, <1>3, <2>2 DEF Invalidated, e
<1>6. \A p \in Person : \A c \in told'[p] : c \in told[p] \/ (p = u /\ c = o /\ member[o][u] # None)
  BY <1>1 DEF InvalidateUser, Tell, IInv, TypeOK
<1> HIDE DEF u, o
<1>7. ToldInv'
  BY <1>1, <1>2, <1>6 DEF VisibleInv, ToldInv
<1>8. SlotInv'
  <2> SUFFICES ASSUME NEW p \in Person PROVE SlotShows(cached'[p], told'[p])
    BY DEF SlotInv
  <2>1. CASE p = u
    BY <1>5, <2>1 DEF SlotShows
  <2>2. CASE p # u
    BY <1>4, <1>6, <2>2 DEF VisibleInv, SlotInv, SlotShows, Shows, Weaker
  <2> QED
    BY <2>1, <2>2
<1>9. AuthInv'
  <2> SUFFICES ASSUME NEW s \in Request, request'[s].pc \in Authenticating
               PROVE  ContextShows(request'[s], cached'[request'[s].user], told'[request'[s].user])
    BY DEF AuthInv
  <2>1. request'[s] = request[s] /\ request[s].user \in Person
    BY <1>2 DEF IInv, RequestInv, Knows, Authenticating
  <2>2. ContextShows(request[s], cached[request[s].user], told[request[s].user])
    BY <2>1 DEF VisibleInv, AuthInv
  <2>3. o \notin request[s].due
    BY <1>1, <2>1
  <2>4. request[s].due \cap told'[request[s].user] \subseteq request[s].due \cap told[request[s].user]
    BY <1>6, <2>1, <2>3
  <2>5. Weaker(cached'[request[s].user], cached[request[s].user])
    BY <1>4, <2>1
  <2> QED
    BY <2>1, <2>2, <2>4, <2>5 DEF ContextShows, Shows, Weaker
<1>10. DueInv'
  BY <1>2 DEF VisibleInv, DueInv, Authenticating
<1>11. NewInv'
  BY <1>1, <1>2, <1>6 DEF VisibleInv, NewInv, Authenticating
<1> QED
  BY <1>7, <1>8, <1>9, <1>10, <1>11 DEF VisibleInv

\* The other steps of a request are quiet.
LEMMA RequestQuiet ==
  ASSUME IInv, IInv', VisibleInv, NEW r \in Request, RequestStep(r),
         ~Provision(r), ~InvalidateUser(r)
  PROVE  VisibleInv'
<1>0. orgs <= orgs
  BY OnboardingAssumption DEF IInv, TypeOK
<1>1. UNCHANGED <<orgs, told>> /\ orgs <= orgs'
  BY <1>0
     DEF RequestStep, SeeNoLimiter, CreateLimiter, EnterGuard, LeaveGuard, Validate,
         Disconnect, DisconnectOrg, FlushMemberships, AddMemberFirst, AddMemberAgain, CallAddMember,
         AddMember, InviteUser, ResendInvite, ReadMetadata, ReadSecret, tableVars, authVars
<1>2. \A p \in Person : Weaker(cached'[p], cached[p])
  <2>1. UNCHANGED cached \/ cached' = [p \in Person |-> Invalidated(cached[p])]
    BY DEF RequestStep, SeeNoLimiter, CreateLimiter, EnterGuard, LeaveGuard, Validate,
         Disconnect, FlushMemberships, AddMemberFirst, AddMemberAgain, CallAddMember,
         InviteUser, ResendInvite, ReadMetadata, ReadSecret, authVars
  <2> QED
    BY <2>1, SlotWeakens DEF IInv, TypeOK
<1>3. \A o \in Org, p \in Person : member[o][p] # None => member'[o][p] # None
  <2>1. CASE UNCHANGED member
    BY <2>1
  <2>2. CASE AddMemberFirst(r) \/ AddMemberAgain(r)
    <3>1. \/ UNCHANGED member
          \/ member' = [member EXCEPT ![request[r].org][request[r].email] = "member"]
      BY <2>2 DEF AddMemberFirst, AddMemberAgain, CallAddMember, AddMember, tableVars
    <3>2. "member" # None
      BY NoneAssumption DEF Role
    <3>3. ASSUME NEW c, NEW u, member' = [member EXCEPT ![c][u] = "member"],
                 NEW o \in Org, NEW p \in Person
          PROVE  member'[o][p] \in {member[o][p], "member"}
      BY <3>3 DEF IInv, TypeOK
    <3> QED
      BY <3>1, <3>2, <3>3
  <2> QED
    BY <2>1, <2>2
       DEF RequestStep, SeeNoLimiter, CreateLimiter, EnterGuard, LeaveGuard, Validate,
         Disconnect, DisconnectOrg, FlushMemberships, InviteUser, ResendInvite, ReadMetadata,
         ReadSecret, tableVars
<1>4. request'[r].pc \notin Authenticating \cup {"invalidate"}
  <2> USE DEF Authenticating, IInv, TypeOK
  <2>1. ASSUME NEW answer, Answered(r, answer) PROVE request'[r].pc = "done"
    BY <2>1 DEF Answered, IdleRequest
  <2>2. ASSUME NEW answer, Leave(r, answer) PROVE request'[r].pc = "leave"
    BY <2>2 DEF Leave, RequestState
  <2>3. ASSUME NEW pc, Goto(r, pc) PROVE request'[r].pc = pc
    BY <2>3 DEF Goto, RequestState
  <2>4. CASE SeeNoLimiter(r) \/ CreateLimiter(r) \/ Validate(r) \/ Disconnect(r) \/ InviteUser(r)
             \/ FlushMemberships(r) \/ ResendInvite(r) \/ LeaveGuard(r) \/ ReadSecret(r)
    BY <2>1, <2>2, <2>3, <2>4
       DEF SeeNoLimiter, CreateLimiter, Validate, Disconnect, InviteUser, FlushMemberships,
           ResendInvite, LeaveGuard, ReadSecret
  <2>5. CASE EnterGuard(r)
    <3>1. \A l : Admit(r, l) => request'[r].pc \in {"validate", "add"}
      BY DEF Admit, RequestState
    <3> QED
      BY <2>1, <2>5, <3>1 DEF EnterGuard
  <2>6. CASE ReadMetadata(r)
    <3>1. \A active : request' = [request EXCEPT ![r].pc = "secret", ![r].active = active] =>
                         request'[r].pc = "secret"
      BY DEF RequestState
    <3> QED
      BY <2>1, <2>6, <3>1 DEF ReadMetadata
  <2>7. CASE AddMemberFirst(r) \/ AddMemberAgain(r)
    <3> DEFINE status == AddStatus(request[r].user, request[r].org, request[r].email)
    <3>1. ASSUME NEW after, NEW attached,
                 request' = [request EXCEPT ![r].pc = after.pc, ![r].answer = after.answer,
                                            ![r].attached = attached]
          PROVE  request'[r].pc = after.pc
      BY <3>1 DEF RequestState
    <3>2. status \in {"unauthorized", "invite_needed", "added", "pending_resend", "already_member"}
      BY DEF AddStatus
    <3>3. /\ AfterAdd(status).pc \in {"leave", "resend", "invite"}
          /\ AfterConfirm(status).pc = "leave"
      BY <3>2 DEF AfterAdd, AfterConfirm
    <3>4. \/ request'[r].pc = AfterAdd(status).pc
          \/ request'[r].pc = AfterConfirm(status).pc
          \/ Leave(r, "failed")
      <4> HIDE DEF status
      <4> QED
        BY <2>7, <3>1 DEF AddMemberFirst, AddMemberAgain, CallAddMember, status
    <3> QED
      BY <2>2, <3>3, <3>4
  <2> QED
    BY <2>4, <2>5, <2>6, <2>7 DEF RequestStep
<1>5. \A p \in Person : told'[p] \subseteq told[p] /\ \A o \in told'[p] : member'[o][p] # None
  BY <1>1, <1>3 DEF VisibleInv, ToldInv, IInv, TypeOK
<1> QED
  BY <1>1, <1>2, <1>4, <1>5, OthersStay, QuietStep

LEMMA BeginsQuiet ==
  ASSUME IInv, IInv', VisibleInv, NEW r \in Request, Begins(r)
  PROVE  VisibleInv'
<1>1. PICK q : Begin(r, q) /\ q.pc \in {"done", "limiter", "disconnect", "metadata"}
  BY BegunRequest
<1>2. UNCHANGED <<member, orgs, told, cached>> /\ orgs <= orgs'
  BY <1>1, OnboardingAssumption DEF Begin, tableVars, authVars, IInv, TypeOK
<1>3. \A s \in Request : \/ request'[s] = request[s]
                         \/ request'[s].pc \notin Authenticating \cup {"invalidate"}
  BY <1>1 DEF Begin, IInv, TypeOK, Authenticating
<1>4. \A p \in Person : Weaker(cached'[p], cached[p])
  BY <1>2 DEF Weaker
<1> QED
  BY <1>2, <1>3, <1>4, QuietStep DEF VisibleInv, ToldInv

LEMMA VisibleStep == IInv /\ VisibleInv /\ IInv' /\ [Next]_vars => VisibleInv'
<1> SUFFICES ASSUME IInv, VisibleInv, IInv', [Next]_vars PROVE VisibleInv'
    OBVIOUS
<1>1. CASE UNCHANGED vars
  BY <1>1 DEF vars, tableVars, authVars, VisibleInv, ToldInv, SlotInv, AuthInv, DueInv, NewInv
<1>2. CASE PeopleMove
  BY <1>2, PeopleQuiet, FetchVisible DEF PeopleMove
<1>3. CASE WaitersGoOn
  BY <1>3, AuthorizeVisible, FetchFailsQuiet DEF WaitersGoOn
<1>4. CASE \E r \in Request : (\E p \in Person : Authenticate(r, p)) \/ Begins(r)
  BY <1>4, AuthenticateVisible, BeginsQuiet
<1>5. CASE \E r \in Request : RequestStep(r)
  BY <1>5, ProvisionVisible, InvalidateVisible, RequestQuiet
<1> QED
  BY <1>1, <1>2, <1>3, <1>4, <1>5, NextCases

\* invalidate_user, invalidate_all and the shared fetch: whoever was told of an
\* organization is authorized by memberships that show it, unless the request
\* shares a fetch that was being retried, whatever invalidations, fetches and
\* requests come in between.
THEOREM ConnectionIsVisible == Spec => []ConnectedIsVisible
<1>1. IInv /\ VisibleInv => ConnectedIsVisible
  BY DEF VisibleInv, AuthInv, ContextShows, Shows, Authenticating, ConnectedIsVisible
<1> QED
  BY <1>1, VisibleInit, VisibleStep, InvHolds, PTL DEF Spec

(***************************************************************************)
(* Invitations.                                                             *)
(***************************************************************************)

\* add_org_member_by_email: what its answers say about the membership.
LEMMA AddedOrMember ==
  ASSUME TypeOK, NEW o \in Org, NEW p \in Person, NEW actor,
         AddMember(o, p, AddStatus(actor, o, p)),
         AddStatus(actor, o, p) \in {"added", "already_member", "pending_resend"}
  PROVE  member'[o][p] # None
<1>1. CASE AddStatus(actor, o, p) = "added"
  <2>1. member'[o][p] = "member"
    BY <1>1 DEF AddMember, TypeOK
  <2> QED
    BY <2>1, NoneAssumption DEF Role
<1>2. CASE AddStatus(actor, o, p) # "added"
  <2>1. member' = member
    BY <1>2 DEF AddMember
  <2>2. member[o][p] # None
    BY <1>2 DEF AddStatus
  <2> QED
    BY <2>1, <2>2
<1> QED
  BY <1>1, <1>2

\* An invitation answered with success left its person a member.
LEMMA InvitedAttached ==
  ASSUME IInv, [Next]_vars, NEW r \in Request,
         request[r].answer # "invited", request'[r].answer = "invited"
  PROVE  request'[r].attached
<1> DEFINE o == request[r].org
           p == request[r].email
           status == AddStatus(request[r].user, o, p)
<1>1. CASE ResendInvite(r)
  BY <1>1 DEF ResendInvite, Leave, At, IInv, TypeOK, RequestInv, Knows, RequestState
<1>2. CASE AddMemberFirst(r) \/ AddMemberAgain(r)
  <2>1. o \in Org /\ p \in Person
    BY <1>2 DEF AddMemberFirst, AddMemberAgain, At, IInv, RequestInv, Knows, Guarded
  <2>2. status \in {"unauthorized", "invite_needed", "added", "pending_resend", "already_member"}
    BY DEF AddStatus
  <2>3. ASSUME Leave(r, "failed") PROVE FALSE
    BY <2>3 DEF Leave, IInv, TypeOK, RequestState
  <2>4. AddMember(o, p, status)
    BY <1>2, <2>3 DEF AddMemberFirst, AddMemberAgain, CallAddMember
  <2>5. request'[r].attached = (member'[o][p] # None)
    BY <1>2, <2>3, SMTT(20) DEF AddMemberFirst, AddMemberAgain, CallAddMember, IInv, TypeOK, RequestState
  <2>6. \/ request'[r].answer = AfterAdd(status).answer
        \/ request'[r].answer = AfterConfirm(status).answer
    BY <1>2, <2>3, SMTT(20) DEF AddMemberFirst, AddMemberAgain, CallAddMember, IInv, TypeOK, RequestState
  <2>7. status \in {"added", "already_member", "pending_resend"}
    <3>1. None # "invited"
      BY NoneAssumption DEF Answer
    <3> QED
      BY <2>2, <2>6, <3>1 DEF AfterAdd, AfterConfirm
  <2>8. member'[o][p] # None
    BY <2>1, <2>4, <2>7, AddedOrMember DEF IInv
  <2> QED
    BY <2>5, <2>8
<1> QED
  BY <1>1, <1>2, Answers

\* The steps that make somebody a member of an organization that exists.
LEMMA AttachedByAdmin ==
  ASSUME IInv, [Next]_vars, NEW o \in Org, NEW p \in Person,
         member[o][p] = None, member'[o][p] # None, orgs' = orgs
  PROVE  \E r \in Request : /\ request[r].email = p /\ request[r].org = o
                            /\ member[o][request[r].user] \in Admin
<1> USE DEF IInv, TypeOK
<1>1. CASE UNCHANGED vars
  BY <1>1 DEF vars, tableVars
<1>2. CASE PeopleMove
  <2>1. UNCHANGED member \/ \E c \in Org, q \in Person, role \in Role \cup {None} : ChangeRole(c, q, role)
    BY <1>2, Zenon DEF PeopleMove, SignUp, ConfirmEmail, CacheExpires, OthersInvalidate,
       FetchMemberships, tableVars
  <2>2. ASSUME NEW c \in Org, NEW q \in Person, NEW role \in Role \cup {None}, ChangeRole(c, q, role)
        PROVE  FALSE
    <3>1. member' = [member EXCEPT ![c][q] = role] /\ member[c][q] # None
      BY <2>2 DEF ChangeRole
    <3> QED
      BY <3>1
  <2> QED
    BY <2>1, <2>2
<1>3. CASE WaitersGoOn
  BY <1>3 DEF WaitersGoOn, Authorize, FetchFails, tableVars
<1>4. ASSUME NEW r \in Request, (\E q \in Person : Authenticate(r, q)) \/ Begins(r)
      PROVE  UNCHANGED member
  BY <1>4, BegunRequest DEF Authenticate, Begin, tableVars
<1>5. ASSUME NEW r \in Request, RequestStep(r), ~UNCHANGED member
      PROVE  /\ request[r].email = p /\ request[r].org = o
             /\ member[o][request[r].user] \in Admin
  <2> DEFINE c == request[r].org
             q == request[r].email
             status == AddStatus(request[r].user, c, q)
  <2>1. Provision(r) \/ AddMemberFirst(r) \/ AddMemberAgain(r)
    BY <1>5 DEF RequestStep, SeeNoLimiter, CreateLimiter, EnterGuard, LeaveGuard, Validate,
         InvalidateUser, Disconnect, DisconnectOrg, FlushMemberships, InviteUser, ResendInvite,
         ReadMetadata, ReadSecret, tableVars
  <2>2. ~Provision(r)
    <3>1. Provision(r) /\ ~UNCHANGED tableVars => orgs' = orgs + 1
      BY DEF Provision, CreateOrg
    <3>2. orgs + 1 # orgs
      BY OnboardingAssumption
    <3> QED
      BY <1>5, <3>1, <3>2 DEF tableVars
  <2>3. AddMember(c, q, status) /\ status = "added"
    BY <1>5, <2>1, <2>2 DEF AddMemberFirst, AddMemberAgain, CallAddMember, AddMember, tableVars
  <2>4. member' = [member EXCEPT ![c][q] = "member"]
    BY <2>3 DEF AddMember
  <2>5. c = o /\ q = p
    BY <2>4
  <2>6. member[c][request[r].user] \in Admin
    BY <2>3 DEF AddStatus
  <2> QED
    BY <2>5, <2>6
<1> QED
  BY <1>1, <1>2, <1>3, <1>4, <1>5, NextCases

\* add_org_member_by_email and its caller: success means that the person is a
\* member, and nobody becomes one except for an admin of that moment.
THEOREM InvitationsAreSound == Spec => InvitationsAttach
<1> DEFINE Attach ==
       /\ \A r \in Request :
            request[r].answer # "invited" /\ request'[r].answer = "invited"
                => request'[r].attached
       /\ \A o \in Org, p \in Person :
            (member[o][p] = None /\ member'[o][p] # None /\ orgs' = orgs) =>
                \E r \in Request : /\ request[r].email = p /\ request[r].org = o
                                   /\ member[o][request[r].user] \in Admin
<1>1. IInv /\ [Next]_vars => Attach
  BY InvitedAttached, AttachedByAdmin
<1> QED
  BY <1>1, InvHolds, PTL DEF Spec, InvitationsAttach

(***************************************************************************)
(* Refinement of AccountClaims.                                             *)
(***************************************************************************)

\* The refinement mapping.
Held == [o \in Org |-> IF connection[o].active THEN connection[o].account ELSE None]
Keys == {o \in Org : connection[o].secret}
Used == 1 .. orgs

LEMMA ClaimsInit == Init => Claims!Init
<1> SUFFICES ASSUME Init PROVE Held = [o \in Org |-> None] /\ Keys = {} /\ Used = {}
  BY DEF Claims!Init, Held, Keys, Used
<1> QED
  BY DEF Init, NoConnection, Held, Keys, Used

\* A new organization claims an account that nobody holds.
LEMMA ClaimStep ==
  ASSUME TypeOK, ConnectionInv, NEW p \in Person, NEW a \in Account, ~ActiveAccount(a),
         CreateOrg(p, a)
  PROVE  Claims!Claim(orgs', a) /\ orgs' \in Org
<1> DEFINE o == orgs'
<1>1. o = orgs + 1 /\ o \in Org /\ orgs \in Nat
  BY OnboardingAssumption DEF TypeOK, CreateOrg, Org
<1>2. connection' = [connection EXCEPT ![o] = [account |-> a, active |-> TRUE, secret |-> TRUE]]
  BY DEF CreateOrg
<1>3. o \notin Used
  BY <1>1 DEF Used
<1>4. \A other \in Org : Held[other] # a
  BY NoneAssumption DEF Held, ActiveAccount
<1>5. Held' = [Held EXCEPT ![o] = a]
  BY <1>1, <1>2 DEF Held, TypeOK
<1>6. Keys' = Keys \cup {o}
  BY <1>1, <1>2 DEF Keys, TypeOK
<1>7. Used' = Used \cup {o}
  BY <1>1 DEF Used
<1> QED
  BY <1>1, <1>3, <1>4, <1>5, <1>6, <1>7 DEF Claims!Claim, Held, Keys, Used

\* A disconnect releases the account, or finds it released.
LEMMA ReleaseStep ==
  ASSUME TypeOK, ConnectionInv, NEW o \in Org, DisconnectOrg(o)
  PROVE  Claims!Release(o) \/ UNCHANGED <<Held, Keys, Used>>
<1>1. /\ connection'[o].active = FALSE /\ connection'[o].secret = FALSE
      /\ \A other \in Org \ {o} : connection'[other] = connection[other]
      /\ UNCHANGED Used
  BY DisconnectOrgStep DEF DisconnectOrg, Used
<1>2. Held' = [Held EXCEPT ![o] = None]
  BY <1>1 DEF Held
<1>3. Keys' = Keys \ {o}
  BY <1>1 DEF Keys
<1>4. CASE connection[o].active
  <2>1. Held[o] # None
    BY <1>4, NoneAssumption DEF Held, ConnectionInv
  <2> QED
    BY <1>1, <1>2, <1>3, <2>1 DEF Claims!Release, Held, Keys, Used
<1>5. CASE ~connection[o].active
  <2>1. Held[o] = None
    BY <1>5 DEF Held
  <2>2. Held' = Held
    BY <1>2, <2>1 DEF Held
  <2>3. o \notin Keys
    BY <1>5 DEF Keys, ConnectionInv
  <2> QED
    BY <1>1, <1>3, <2>2, <2>3
<1> QED
  BY <1>4, <1>5

\* What neither connects nor disconnects leaves the accounts alone.
LEMMA Stutter ==
  ASSUME UNCHANGED <<connection, orgs>>
  PROVE  UNCHANGED <<Held, Keys, Used>>
BY DEF Held, Keys, Used

LEMMA ClaimsStep == IInv /\ [Next]_vars => [Claims!Next]_(Claims!vars)
<1> SUFFICES ASSUME IInv, [Next]_vars
             PROVE  \/ \E o \in Org, a \in Account : Claims!Claim(o, a)
                    \/ \E o \in Org : Claims!Release(o)
                    \/ UNCHANGED <<Held, Keys, Used>>
  BY DEF Claims!Next, Claims!vars, Held, Keys, Used
<1>1. CASE UNCHANGED vars
  BY <1>1, Stutter DEF vars, tableVars
<1>2. CASE PeopleMove \/ WaitersGoOn
  <2>1. UNCHANGED <<connection, orgs>>
    BY <1>2 DEF PeopleMove, SignUp, ConfirmEmail, CacheExpires, ChangeRole, OthersInvalidate,
         FetchMemberships, WaitersGoOn, Authorize, FetchFails, tableVars
  <2> QED
    BY <2>1, Stutter
<1>3. ASSUME NEW r \in Request, (\E q \in Person : Authenticate(r, q)) \/ Begins(r)
      PROVE  UNCHANGED <<Held, Keys, Used>>
  <2>1. UNCHANGED <<connection, orgs>>
    BY <1>3, BegunRequest DEF Authenticate, Begin, tableVars
  <2> QED
    BY <2>1, Stutter
<1>4. ASSUME NEW r \in Request, RequestStep(r)
      PROVE  \/ \E o \in Org, a \in Account : Claims!Claim(o, a)
             \/ \E o \in Org : Claims!Release(o)
             \/ UNCHANGED <<Held, Keys, Used>>
  <2>1. CASE Provision(r)
    <3>1. request[r].user \in Person /\ request[r].account \in Account
      BY <2>1 DEF Provision, At, IInv, RequestInv, Knows, Guarded
    <3>2. \/ ~ActiveAccount(request[r].account) /\ CreateOrg(request[r].user, request[r].account)
          \/ UNCHANGED tableVars
      BY <2>1 DEF Provision
    <3>3. CASE ~ActiveAccount(request[r].account) /\ CreateOrg(request[r].user, request[r].account)
      BY <3>1, <3>3, ClaimStep DEF IInv
    <3>4. CASE UNCHANGED tableVars
      BY <3>4, Stutter DEF tableVars
    <3> QED
      BY <3>2, <3>3, <3>4
  <2>2. CASE Disconnect(r)
    <3>1. request[r].org \in Org
      BY <2>2 DEF Disconnect, At, IInv, RequestInv, Knows
    <3>2. DisconnectOrg(request[r].org) \/ UNCHANGED tableVars
      BY <2>2 DEF Disconnect
    <3>3. CASE DisconnectOrg(request[r].org)
      BY <3>1, <3>3, ReleaseStep DEF IInv
    <3>4. CASE UNCHANGED tableVars
      BY <3>4, Stutter DEF tableVars
    <3> QED
      BY <3>2, <3>3, <3>4
  <2>3. CASE ~Provision(r) /\ ~Disconnect(r)
    <3>1. UNCHANGED <<connection, orgs>>
      BY <1>4, <2>3 DEF RequestStep, SeeNoLimiter, CreateLimiter, EnterGuard, LeaveGuard, Validate,
           InvalidateUser, FlushMemberships, AddMemberFirst, AddMemberAgain, CallAddMember,
           AddMember, InviteUser, ResendInvite, ReadMetadata, ReadSecret, tableVars
    <3> QED
      BY <3>1, Stutter
  <2> QED
    BY <2>1, <2>2, <2>3
<1> QED
  BY <1>1, <1>2, <1>3, <1>4, NextCases

\* Onboarding implements AccountClaims: provisioning and disconnecting are its
\* only steps, whatever is retried, refused or answered.
THEOREM Refinement == Spec => ImplementsClaims
BY ClaimsInit, ClaimsStep, InvHolds, PTL DEF Spec, ImplementsClaims, Claims!Spec

\* What AccountClaims's guard keeps true.
HeldOnce == \A o, p \in Org : Held[o] = Held[p] /\ Held[o] # None => o = p

LEMMA HeldOnceStep == HeldOnce /\ [Claims!Next]_(Claims!vars) => HeldOnce'
<1> SUFFICES ASSUME HeldOnce, [Claims!Next]_(Claims!vars) PROVE HeldOnce'
  OBVIOUS
<1>1. ASSUME NEW o \in Org, NEW a \in Account, Claims!Claim(o, a) PROVE HeldOnce'
  <2>1. /\ \A other \in Org : Held[other] # a
        /\ Held' = [Held EXCEPT ![o] = a]
    BY <1>1 DEF Claims!Claim, Held
  <2>2. DOMAIN Held = Org
    BY DEF Held
  <2> QED
    BY <2>1, <2>2 DEF HeldOnce
<1>2. ASSUME NEW o \in Org, Claims!Release(o) PROVE HeldOnce'
  <2>1. Held' = [Held EXCEPT ![o] = None]
    BY <1>2 DEF Claims!Release, Held
  <2>2. DOMAIN Held = Org
    BY DEF Held
  <2> QED
    BY <2>1, <2>2 DEF HeldOnce
<1>3. CASE UNCHANGED Claims!vars
  <2>1. Held' = Held
    BY <1>3 DEF Claims!vars, Held
  <2> QED
    BY <2>1 DEF HeldOnce
<1> QED
  BY <1>1, <1>2, <1>3 DEF Claims!Next

\* The unique index on active accounts, behind every retry, lost answer and
\* reconnect: no two organizations have the same account identifier connected.
THEOREM AccountsAreHeldOnce ==
  Spec => [](\A o, p \in Org : o # p /\ connection[o].active /\ connection[p].active
                                => connection[o].account # connection[p].account)
<1> DEFINE Unshared ==
        \A o, p \in Org : o # p /\ connection[o].active /\ connection[p].active
                          => connection[o].account # connection[p].account
<1>1. Claims!Init => HeldOnce
  BY DEF Claims!Init, HeldOnce, Held
<1>2. IInv /\ HeldOnce => Unshared
  <2> SUFFICES ASSUME IInv, HeldOnce, NEW o \in Org, NEW p \in Org, o # p,
                      connection[o].active, connection[p].active
               PROVE  connection[o].account # connection[p].account
    OBVIOUS
  <2>1. connection[o].account \in Account
    BY DEF IInv, ConnectionInv
  <2>2. Held[o] = connection[o].account /\ Held[p] = connection[p].account
    BY DEF Held
  <2> QED
    BY <2>1, <2>2, NoneAssumption DEF HeldOnce
<1> HIDE DEF Unshared
<1>3. Spec => []Unshared
  BY <1>1, <1>2, HeldOnceStep, InvHolds, Refinement, PTL DEF ImplementsClaims, Claims!Spec
<1> QED
  BY <1>3 DEF Unshared
=============================================================================
