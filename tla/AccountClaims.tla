---------------------------- MODULE AccountClaims ----------------------------
(***************************************************************************)
(* What onboarding promises about Snowflake accounts, without requests,     *)
(* limiters or lost answers: an organization is given one account, once;    *)
(* no two organizations hold the same account at the same time; the private *)
(* key is kept exactly as long as the account is held. An account is the     *)
(* identifier that was submitted, in upper case.                            *)
(***************************************************************************)
CONSTANTS Org, Account, None

VARIABLES
    claims,  \* the account each organization holds
    keys,    \* the organizations whose key is in the vault
    used     \* the organizations that ever held an account

vars == <<claims, keys, used>>

Init ==
    /\ claims = [o \in Org |-> None]
    /\ keys = {}
    /\ used = {}

Claim(o, a) ==
    /\ o \notin used
    /\ \A other \in Org : claims[other] # a
    /\ claims' = [claims EXCEPT ![o] = a]
    /\ keys' = keys \cup {o}
    /\ used' = used \cup {o}

Release(o) ==
    /\ claims[o] # None
    /\ claims' = [claims EXCEPT ![o] = None]
    /\ keys' = keys \ {o}
    /\ UNCHANGED used

Next ==
    \/ \E o \in Org, a \in Account : Claim(o, a)
    \/ \E o \in Org : Release(o)

Spec == Init /\ [][Next]_vars
=============================================================================
