----------------------------- MODULE Onboarding -----------------------------
(***************************************************************************)
(* How organizations, their Snowflake connections and their members come    *)
(* and go: POST /connect, /disconnect and /invitations of the API, each     *)
(* request in a thread of its own; the Postgres functions they call; the    *)
(* limiters in front of them; the cached memberships that decide who is an  *)
(* admin; and the connection resolver, which reads a connection in two      *)
(* requests.                                                                *)
(*                                                                          *)
(* One action per network call; a call may fail before or after it took     *)
(* effect.  A Postgres function is one transaction.  The requests of a user *)
(* share the fetch of the memberships, MembershipCache.  The rolling window *)
(* of a limiter may be full at any time.                                    *)
(*                                                                          *)
(* An Account is an account identifier in upper case, which is what the     *)
(* code compares: an ORG-ACCOUNT name and a locator of one Snowflake        *)
(* account are two of them.                                                 *)
(***************************************************************************)
EXTENDS Naturals, FiniteSets, MembershipCache

CONSTANTS
    Person,       \* people, by email; the API's users and the invited
    Founder,      \* those who have a confirmed account from the start
    Account,      \* identifiers of Snowflake accounts, in upper case
    Request,      \* request threads of the API
    MaxOrgs,      \* bound: organizations ever created
    MaxCalls,     \* bound: requests ever made
    MaxChanges    \* bound: roles changed, sign-ups and invalidations outside the model

\* None is also no role, no account and no limiter.
ASSUME OnboardingAssumption ==
    /\ Founder \subseteq Person
    /\ MaxOrgs \in Nat
    /\ MaxCalls \in Nat /\ MaxChanges \in Nat

Org == 1 .. MaxOrgs
Role == {"owner", "member"}
Admin == {"owner"}              \* an owner or an admin
Limited == {"connect", "invite"}
Limiter == Limited \X Request   \* by the thread that created it

VARIABLES
    person,     \* auth.users: none, unconfirmed or confirmed
    member,     \* organization_memberships: role of a person in an organization
    connection, \* organization_snowflake_connections and the vault
    orgs,       \* organizations created so far
    cached,     \* the slot of each user in the membership cache
    told,       \* organizations that each user has created, by an answer, and not left since
    limiter,    \* the module's limiter of each kind, once created
    inFlight,   \* users inside the guard of a limiter
    request,    \* what each thread is doing
    calls, changes

tableVars   == <<person, member, connection, orgs>>
limiterVars == <<limiter, inFlight>>
boundVars   == <<calls, changes>>
authVars    == <<cached, told>>
vars == <<tableVars, authVars, limiterVars, request, boundVars>>

NoConnection == [account |-> None, active |-> FALSE, secret |-> FALSE]
IdleRequest == [pc |-> "idle", kind |-> None, user |-> None, org |-> None,
                account |-> None, email |-> None, limiter |-> None,
                attached |-> FALSE, active |-> FALSE, answer |-> None,
                context |-> None, due |-> {}]

PC == {"idle", "auth", "authorized", "limiter", "create", "validate", "provision", "invalidate", "add",
       "invite", "confirm", "resend", "disconnect", "flush", "metadata", "secret",
       "leave", "done"}
Memberships == [Org -> Role \cup {None}]
Answer == {"created", "invited", "disconnected", "busy", "limited", "invalid",
           "conflict", "forbidden", "failed", "config", "not configured", "unavailable"}

Kind == Limited \cup {"disconnect", "resolve"}

ASSUME NoneAssumption ==
    /\ None \notin Person /\ None \notin Account /\ None \notin Org /\ None \notin Role
    /\ None \notin Kind /\ None \notin Answer /\ None \notin Limiter
    /\ None \notin Memberships

\* context: the memberships that the request is authorized by; due: what they have to
\* show, the organizations that the user was told of before the request.
RequestState ==
    [pc : PC, kind : Kind \cup {None}, user : Person \cup {None},
     org : Org \cup {None}, account : Account \cup {None}, email : Person \cup {None},
     limiter : Limiter \cup {None}, attached : BOOLEAN, active : BOOLEAN,
     answer : Answer \cup {None}, context : Memberships \cup {None}, due : SUBSET Org]

TypeOK ==
    /\ person \in [Person -> {"none", "unconfirmed", "confirmed"}]
    /\ member \in [Org -> [Person -> Role \cup {None}]]
    /\ connection \in [Org -> [account : Account \cup {None}, active : BOOLEAN,
                               secret : BOOLEAN]]
    /\ orgs \in 0 .. MaxOrgs
    /\ cached \in [Person -> SlotOf(Memberships)]
    /\ told \in [Person -> SUBSET Org]
    /\ limiter \in [Limited -> Limiter \cup {None}]
    /\ inFlight \in [Limiter -> SUBSET Person]
    /\ request \in [Request -> RequestState]
    /\ calls \in 0 .. MaxCalls
    /\ changes \in 0 .. MaxChanges

Init ==
    /\ person = [p \in Person |-> IF p \in Founder THEN "confirmed" ELSE "none"]
    /\ member = [o \in Org |-> [p \in Person |-> None]]
    /\ connection = [o \in Org |-> NoConnection]
    /\ orgs = 0
    /\ cached = [p \in Person |-> EmptySlot]
    /\ told = [p \in Person |-> {}]
    /\ limiter = [k \in Limited |-> None]
    /\ inFlight = [l \in Limiter |-> {}]
    /\ request = [r \in Request |-> IdleRequest]
    /\ calls = 0
    /\ changes = 0

-----------------------------------------------------------------------------
(* People, roles and the membership cache.                                 *)

\* Sign-up and confirmation happen between the browser and GoTrue.
SignUp(p) ==
    /\ person[p] = "none"
    /\ changes < MaxChanges
    /\ changes' = changes + 1
    /\ person' = [person EXCEPT ![p] = "unconfirmed"]
    /\ UNCHANGED <<member, connection, orgs, authVars, limiterVars, request, calls>>

ConfirmEmail(p) ==
    /\ person[p] = "unconfirmed"
    /\ person' = [person EXCEPT ![p] = "confirmed"]
    /\ UNCHANGED <<member, connection, orgs, authVars, limiterVars, request, boundVars>>

\* An admin changes or removes a membership through the row policies.
ChangeRole(o, p, role) ==
    /\ member[o][p] # None
    /\ \E admin \in Person : member[o][admin] \in Admin
    /\ changes < MaxChanges
    /\ changes' = changes + 1
    /\ member' = [member EXCEPT ![o][p] = role]
    /\ told' = [told EXCEPT ![p] = IF role = None THEN @ \ {o} ELSE @]
    /\ UNCHANGED <<person, connection, orgs, cached, limiterVars, request, calls>>

CacheExpires(p) ==
    /\ Cached(cached[p])
    /\ cached' = [cached EXCEPT ![p] = Expired(@)]
    /\ UNCHANGED <<tableVars, told, limiterVars, request, boundVars>>

\* Another organization connects or disconnects: the generation is everybody's.
OthersInvalidate ==
    /\ changes < MaxChanges
    /\ changes' = changes + 1
    /\ cached' = [p \in Person |-> Overtaken(cached[p])]
    /\ UNCHANGED <<tableVars, told, limiterVars, request, calls>>

-----------------------------------------------------------------------------
(* A request begins with the authentication of its user: a hit, or a fetch  *)
(* that it shares. Nothing is due from a fetch that is being retried.       *)

Begun(p, due) == [IdleRequest EXCEPT !.user = p, !.due = due]

Authenticate(r, p) ==
    LET slot == cached[p] IN
    /\ request[r].pc \in {"idle", "done"}
    /\ person[p] = "confirmed"
    /\ calls < MaxCalls
    /\ calls' = calls + 1
    /\ IF Cached(slot)
       THEN /\ request' = [request EXCEPT ![r] =
                  [Begun(p, told[p]) EXCEPT !.pc = "authorized", !.context = slot.entry]]
            /\ UNCHANGED cached
       ELSE /\ request' = [request EXCEPT ![r] =
                  [Begun(p, IF RetryInFlight(slot) THEN {} ELSE told[p]) EXCEPT !.pc = "auth"]]
            /\ cached' = [cached EXCEPT ![p] = Joined(slot)]
    /\ UNCHANGED <<tableVars, told, limiterVars, changes>>

MembershipsOf(p) == [o \in Org |-> member[o][p]]

FetchMemberships(p) ==
    LET slot == cached[p] IN
    /\ \/ Reading(slot) /\ cached' = [cached EXCEPT ![p] = Fetched(slot, MembershipsOf(p))]
       \/ Outdated(slot) /\ cached' = [cached EXCEPT ![p] = Refetched(slot)]
    /\ UNCHANGED <<tableVars, told, limiterVars, request, boundVars>>

Waits(r, p) == request[r].pc = "auth" /\ request[r].user = p

Authorize(p) ==
    LET slot == cached[p] IN
    /\ Ready(slot)
    /\ cached' = [cached EXCEPT ![p] = Settled(slot)]
    /\ request' = [r \in Request |->
          IF Waits(r, p) THEN [request[r] EXCEPT !.pc = "authorized", !.context = slot.seen]
          ELSE request[r]]
    /\ UNCHANGED <<tableVars, told, limiterVars, boundVars>>

FetchFails(p) ==
    /\ cached[p].fetch # "none"
    /\ cached' = [cached EXCEPT ![p] = Abandoned(@)]
    /\ request' = [r \in Request |->
          IF Waits(r, p) THEN [IdleRequest EXCEPT !.pc = "done", !.answer = "unavailable"]
          ELSE request[r]]
    /\ UNCHANGED <<tableVars, told, limiterVars, boundVars>>

Begin(r, begun) ==
    /\ request[r].pc = "authorized"
    /\ request' = [request EXCEPT ![r] = begun]
    /\ UNCHANGED <<tableVars, authVars, limiterVars, boundVars>>

BeginConnect(r, a) ==
    Begin(r, [IdleRequest EXCEPT !.pc = "limiter", !.kind = "connect",
                                 !.user = request[r].user, !.account = a])

\* require_org_admin, require_org_membership: 403.
Forbid(r) ==
    /\ \E o \in Org : request[r].pc = "authorized" /\ request[r].context[o] \notin Admin
    /\ Begin(r, [IdleRequest EXCEPT !.pc = "done", !.answer = "forbidden"])

BeginInvite(r, o, email) ==
    /\ request[r].pc = "authorized" /\ request[r].context[o] \in Admin
    /\ Begin(r, [IdleRequest EXCEPT !.pc = "limiter", !.kind = "invite",
                                    !.user = request[r].user, !.org = o, !.email = email])
BeginDisconnect(r, o) ==
    /\ request[r].pc = "authorized" /\ request[r].context[o] \in Admin
    /\ Begin(r, [IdleRequest EXCEPT !.pc = "disconnect", !.kind = "disconnect",
                                    !.user = request[r].user, !.org = o])

\* Any member's request for a run; the worker looks connections up the same way.
BeginResolve(r, o) ==
    /\ request[r].pc = "authorized" /\ request[r].context[o] # None
    /\ Begin(r, [IdleRequest EXCEPT !.pc = "metadata", !.kind = "resolve",
                                    !.user = request[r].user, !.org = o])

At(r, pc) == request[r].pc = pc
Goto(r, pc) == request' = [request EXCEPT ![r].pc = pc]
\* The request's answer is decided; what is left is to leave the guard.
Leave(r, answer) == request' = [request EXCEPT ![r].pc = "leave", ![r].answer = answer]
Answered(r, answer) ==
    request' = [request EXCEPT ![r] = [IdleRequest EXCEPT !.pc = "done", !.answer = answer]]

-----------------------------------------------------------------------------
(* get_connect_limiter and get_invite_limiter create the limiter lazily and *)
(* without a lock; guard admits or refuses under the lock of the limiter.   *)

SeeNoLimiter(r) ==
    /\ At(r, "limiter")
    /\ limiter[request[r].kind] = None
    /\ Goto(r, "create")
    /\ UNCHANGED <<tableVars, authVars, limiterVars, boundVars>>

CreateLimiter(r) ==
    /\ At(r, "create")
    /\ limiter' = [limiter EXCEPT ![request[r].kind] = <<request[r].kind, r>>]
    /\ Goto(r, "limiter")
    /\ UNCHANGED <<tableVars, authVars, inFlight, boundVars>>

Admit(r, l) ==
    /\ inFlight' = [inFlight EXCEPT ![l] = @ \cup {request[r].user}]
    /\ request' = [request EXCEPT ![r].limiter = l,
                     ![r].pc = IF request[r].kind = "connect" THEN "validate" ELSE "add"]

EnterGuard(r) ==
    LET l == limiter[request[r].kind]
        u == request[r].user
    IN  /\ At(r, "limiter")
        /\ l # None
        /\ \/ u \in inFlight[l] /\ Answered(r, "busy") /\ UNCHANGED inFlight
           \/ u \notin inFlight[l] /\ Answered(r, "limited") /\ UNCHANGED inFlight
           \/ u \notin inFlight[l] /\ Admit(r, l)
        /\ UNCHANGED <<tableVars, authVars, limiter, boundVars>>

\* Mutant: only a request that succeeded leaves the guard.
LeaveGuardOnSuccess(r) ==
    LET l == request[r].limiter IN
    /\ At(r, "leave")
    /\ inFlight' = IF request[r].answer \in {"created", "invited"}
                     THEN [inFlight EXCEPT ![l] = @ \ {request[r].user}] ELSE inFlight
    /\ Answered(r, request[r].answer)
    /\ UNCHANGED <<tableVars, authVars, limiter, boundVars>>

\* The finally clause of guard.
LeaveGuard(r) ==
    LET l == request[r].limiter IN
    /\ At(r, "leave")
    /\ inFlight' = [inFlight EXCEPT ![l] = @ \ {request[r].user}]
    /\ Answered(r, request[r].answer)
    /\ UNCHANGED <<tableVars, authVars, limiter, boundVars>>

-----------------------------------------------------------------------------
(* POST /connect: _validate_and_create.                                    *)

\* validate_account_identifier and validate_snowflake_connection.
Validate(r) ==
    /\ At(r, "validate")
    /\ Goto(r, "provision") \/ Leave(r, "invalid")
    /\ UNCHANGED <<tableVars, authVars, limiterVars, boundVars>>

\* org_active_account_unique, on upper(account): identifiers are compared, so that a
\* second spelling of an account is not held by anyone.
ActiveAccount(a) == \E o \in Org : connection[o].active /\ connection[o].account = a

\* create_org_with_snowflake_connection: organization, owner, connection, key.
CreateOrg(p, a) ==
    LET o == orgs + 1 IN
    /\ orgs < MaxOrgs
    /\ orgs' = o
    /\ member' = [member EXCEPT ![o][p] = "owner"]
    /\ connection' = [connection EXCEPT ![o] = [account |-> a, active |-> TRUE, secret |-> TRUE]]
    /\ UNCHANGED person

\* Mutant: the function does not rely on the unique index.
ProvisionAnyway(r) ==
    /\ At(r, "provision")
    /\ CreateOrg(request[r].user, request[r].account)
    /\ request' = [request EXCEPT ![r].pc = "invalidate", ![r].org = orgs']
    /\ UNCHANGED <<authVars, limiterVars, boundVars>>

\* Created, with or without an answer; refused as a duplicate; or not reached.
Provision(r) ==
    /\ At(r, "provision")
    /\ \/ /\ ~ActiveAccount(request[r].account)
          /\ CreateOrg(request[r].user, request[r].account)
          /\ \/ request' = [request EXCEPT ![r].pc = "invalidate", ![r].org = orgs']
             \/ Leave(r, "failed")
       \/ /\ ActiveAccount(request[r].account)
          /\ Leave(r, "conflict")
          /\ UNCHANGED tableVars
       \/ /\ Leave(r, "failed")
          /\ UNCHANGED tableVars
    /\ UNCHANGED <<authVars, limiterVars, boundVars>>

\* The answer tells the user that the organization exists, a member of it by then.
Tell(r) ==
    LET u == request[r].user
        o == request[r].org
    IN  told' = IF member[o][u] = None THEN told ELSE [told EXCEPT ![u] = @ \cup {o}]

\* Mutant: the cached memberships are left alone.
AnswerWithoutInvalidation(r) ==
    /\ At(r, "invalidate")
    /\ Leave(r, "created")
    /\ Tell(r)
    /\ UNCHANGED <<tableVars, cached, limiterVars, boundVars>>

\* invalidate_user, only after the function succeeded.
InvalidateUser(r) ==
    /\ At(r, "invalidate")
    /\ cached' = [p \in Person |-> IF p = request[r].user THEN Invalidated(cached[p])
                                                          ELSE Overtaken(cached[p])]
    /\ Leave(r, "created")
    /\ Tell(r)
    /\ UNCHANGED <<tableVars, limiterVars, boundVars>>

-----------------------------------------------------------------------------
(* POST /disconnect.                                                       *)

DisconnectOrg(o) ==
    /\ connection' = [connection EXCEPT ![o].active = FALSE, ![o].secret = FALSE]
    /\ UNCHANGED <<person, member, orgs>>

Disconnect(r) ==
    /\ At(r, "disconnect")
    /\ \/ DisconnectOrg(request[r].org) /\ (Goto(r, "flush") \/ Answered(r, "failed"))
       \/ UNCHANGED tableVars /\ Answered(r, "failed")
    /\ UNCHANGED <<authVars, limiterVars, boundVars>>

\* invalidate_all_memberships; the run's row is RunCache's.
FlushMemberships(r) ==
    /\ At(r, "flush")
    /\ cached' = [p \in Person |-> Invalidated(cached[p])]
    /\ Answered(r, "disconnected")
    /\ UNCHANGED <<tableVars, told, limiterVars, boundVars>>

-----------------------------------------------------------------------------
(* POST /invitations: invite_member_to_org.                                *)

\* Mutant: the function trusts the route's check of the admin.
AddStatusUnchecked(actor, o, p) ==
    IF person[p] = "none" THEN "invite_needed"
    ELSE IF member[o][p] = None THEN "added"
    ELSE IF person[p] = "unconfirmed" THEN "pending_resend"
    ELSE "already_member"

\* What add_org_member_by_email answers.
AddStatus(actor, o, p) ==
    IF member[o][actor] \notin Admin THEN "unauthorized"
    ELSE IF person[p] = "none" THEN "invite_needed"
    ELSE IF member[o][p] = None THEN "added"
    ELSE IF person[p] = "unconfirmed" THEN "pending_resend"
    ELSE "already_member"

\* add_org_member_by_email.
AddMember(o, p, status) ==
    /\ member' = IF status = "added" THEN [member EXCEPT ![o][p] = "member"] ELSE member
    /\ UNCHANGED <<person, connection, orgs>>

\* Where the first answer of the function leads.
AfterAdd(status) ==
    CASE status = "unauthorized" -> [pc |-> "leave", answer |-> "forbidden"]
      [] status = "already_member" -> [pc |-> "leave", answer |-> "conflict"]
      [] status = "added" -> [pc |-> "leave", answer |-> "invited"]
      [] status = "pending_resend" -> [pc |-> "resend", answer |-> None]
      [] status = "invite_needed" -> [pc |-> "invite", answer |-> None]

\* ... and the second, after the invitation.
AfterConfirm(status) ==
    [pc |-> "leave",
     answer |-> IF status \in {"added", "already_member", "pending_resend"}
                  THEN "invited" ELSE "failed"]

CallAddMember(r, After(_)) ==
    LET o == request[r].org
        p == request[r].email
        status == AddStatus(request[r].user, o, p)
    IN  /\ \/ /\ AddMember(o, p, status)
              /\ \/ request' = [request EXCEPT ![r].pc = After(status).pc,
                                               ![r].answer = After(status).answer,
                                               ![r].attached = member'[o][p] # None]
                 \/ Leave(r, "failed")
           \/ Leave(r, "failed") /\ UNCHANGED tableVars
        /\ UNCHANGED <<authVars, limiterVars, boundVars>>

AddMemberFirst(r) == At(r, "add") /\ CallAddMember(r, AfterAdd)
AddMemberAgain(r) == At(r, "confirm") /\ CallAddMember(r, AfterConfirm)

\* GoTrue's invite: creates the user, tolerates that it exists, or fails.
InviteUser(r) ==
    LET p == request[r].email IN
    /\ At(r, "invite")
    /\ \/ /\ person' = [person EXCEPT ![p] = IF @ = "none" THEN "unconfirmed" ELSE @]
          /\ Goto(r, "confirm") \/ Leave(r, "failed")
       \/ UNCHANGED person /\ Leave(r, "failed")
    /\ UNCHANGED <<member, connection, orgs, authVars, limiterVars, boundVars>>

ResendInvite(r) ==
    /\ At(r, "resend")
    /\ Leave(r, "invited") \/ Leave(r, "failed")
    /\ UNCHANGED <<tableVars, authVars, limiterVars, boundVars>>

-----------------------------------------------------------------------------
(* The resolver: metadata first, then the secret, for the API and worker.  *)

ReadMetadata(r) ==
    LET c == connection[request[r].org] IN
    /\ At(r, "metadata")
    /\ \/ c.secret /\ request' = [request EXCEPT ![r].pc = "secret", ![r].active = c.active]
       \/ ~c.secret /\ Answered(r, "not configured")   \* no row, or one without secret_id
       \/ Answered(r, "unavailable")
    /\ UNCHANGED <<tableVars, authVars, limiterVars, boundVars>>

\* Mutant: an organization without a secret gets a configuration.
ReadSecretLenient(r) ==
    /\ At(r, "secret")
    /\ \/ Answered(r, IF request[r].active THEN "config" ELSE "not configured")
       \/ Answered(r, "unavailable")
    /\ UNCHANGED <<tableVars, authVars, limiterVars, boundVars>>

ReadSecret(r) ==
    /\ At(r, "secret")
    /\ \/ Answered(r, IF request[r].active /\ connection[request[r].org].secret
                        THEN "config" ELSE "not configured")
       \/ Answered(r, "unavailable")
    /\ UNCHANGED <<tableVars, authVars, limiterVars, boundVars>>

-----------------------------------------------------------------------------
RequestStep(r) ==
    \/ SeeNoLimiter(r) \/ CreateLimiter(r) \/ EnterGuard(r) \/ LeaveGuard(r)
    \/ Validate(r) \/ Provision(r) \/ InvalidateUser(r)
    \/ Disconnect(r) \/ FlushMemberships(r)
    \/ AddMemberFirst(r) \/ AddMemberAgain(r) \/ InviteUser(r) \/ ResendInvite(r)
    \/ ReadMetadata(r) \/ ReadSecret(r)

Next ==
    \/ \E p \in Person : SignUp(p) \/ ConfirmEmail(p) \/ CacheExpires(p)
    \/ \E o \in Org, p \in Person, role \in Role \cup {None} : ChangeRole(o, p, role)
    \/ OthersInvalidate
    \/ \E p \in Person : FetchMemberships(p) \/ Authorize(p) \/ FetchFails(p)
    \/ \E r \in Request : \/ \E p \in Person : Authenticate(r, p)
                          \/ Forbid(r)
                          \/ \E a \in Account : BeginConnect(r, a)
                          \/ \E o \in Org, email \in Person : BeginInvite(r, o, email)
                          \/ \E o \in Org : BeginDisconnect(r, o) \/ BeginResolve(r, o)
                          \/ RequestStep(r)

Spec == Init /\ [][Next]_vars

-----------------------------------------------------------------------------
(* Properties.                                                             *)

\* Whatever happened inside the guard, a limiter counts a user as in flight
\* exactly while one request of that user is inside, and never two: nobody is
\* locked out by an attempt that is over (guard's finally clause).
LimiterTracksRequests ==
    \A l \in Limiter, p \in Person :
        LET inside == {r \in Request : request[r].limiter = l /\ request[r].user = p}
        IN  /\ p \in inFlight[l] <=> inside # {}
            /\ \A r, s \in inside : r = s

\* A request that begins after its user was told that an organization exists is
\* authorized by memberships that show it, whatever entry or fetch from before it
\* shares and until the membership is taken away, unless it shares a fetch that was
\* being retried.
ConnectedIsVisible ==
    \A r \in Request : request[r].pc = "authorized" =>
        \A o \in request[r].due \cap told[request[r].user] : request[r].context[o] # None

\* An invitation that is answered with success has attached its person, and a
\* person is attached only on behalf of somebody who is an admin at that time,
\* whatever memberships the route had cached.
InvitationsAttach ==
    [][/\ \A r \in Request :
            request[r].answer # "invited" /\ request'[r].answer = "invited"
                => request'[r].attached
       /\ \A o \in Org, p \in Person :
            (member[o][p] = None /\ member'[o][p] # None /\ orgs' = orgs) =>
                \E r \in Request : /\ request[r].email = p /\ request[r].org = o
                                   /\ member[o][request[r].user] \in Admin]_vars

\* A configuration is handed out only while the connection is active and its key
\* is in the vault, although the two are read apart and a disconnect may come
\* between them.
ResolvedIsLive ==
    [][\A r \in Request :
          request[r].answer # "config" /\ request'[r].answer = "config" =>
              connection[request[r].org].active /\ connection[request[r].org].secret]_vars

Claims == INSTANCE AccountClaims WITH
    claims <- [o \in Org |-> IF connection[o].active THEN connection[o].account ELSE None],
    keys   <- {o \in Org : connection[o].secret},
    used   <- 1 .. orgs

\* Whatever requests are retried, refused or lose their answers, accounts are
\* claimed and released as AccountClaims says.
ImplementsClaims == Claims!Spec
=============================================================================
