------------------------------- MODULE Grants -------------------------------
(***************************************************************************)
(* What the OAuth flow promises, with no requests in flight, no database    *)
(* and no clock: an approved code is redeemed at most once, for one token,  *)
(* or lapses; a token is good from its redemption until it is retired, and  *)
(* only a good token is accepted.                                           *)
(***************************************************************************)
CONSTANTS
    Code,          \* authorization codes that may be drawn
    Token,         \* access tokens that may be drawn
    Caller,        \* requests in flight
    NoCode,        \* the source of a token not issued
    Nothing        \* the verdict of a request that has none

VARIABLES
    grant,         \* code -> none, pending or spent
    bearer,        \* token -> none, good or retired
    source,        \* token -> the code it was redeemed for
    verdict        \* caller -> how its last presented token was judged

vars == <<grant, bearer, source, verdict>>

Init == /\ grant = [k \in Code |-> "none"]
        /\ bearer = [t \in Token |-> "none"]
        /\ source = [t \in Token |-> NoCode]
        /\ verdict = [c \in Caller |-> Nothing]

\* The owner consents: a code nobody has seen becomes redeemable.
Approve(k) ==
    /\ grant[k] = "none"
    /\ grant' = [grant EXCEPT ![k] = "pending"]
    /\ UNCHANGED <<bearer, source, verdict>>

\* One code, one token.
Redeem(k, t) ==
    /\ grant[k] = "pending"
    /\ bearer[t] = "none"
    /\ grant' = [grant EXCEPT ![k] = "spent"]
    /\ bearer' = [bearer EXCEPT ![t] = "good"]
    /\ source' = [source EXCEPT ![t] = k]
    /\ UNCHANGED verdict

Lapsing(ks) == [k \in Code |-> IF k \in ks /\ grant[k] = "pending" THEN "spent" ELSE grant[k]]

\* Codes lapse: refused, expired, or lost with the process that held them, which also
\* forgets the verdicts it had given.
Lapse(ks) ==
    /\ grant' = Lapsing(ks)
    /\ verdict' \in {verdict, [c \in Caller |-> Nothing]}
    /\ UNCHANGED <<bearer, source>>

\* A request is opened, and has no verdict yet.
Present(c) ==
    /\ verdict' = [verdict EXCEPT ![c] = Nothing]
    /\ UNCHANGED <<grant, bearer, source>>

\* Judging a token retires the tokens and codes that have run out, whosever they are; the
\* token presented is accepted if and only if it is good after that.
Judge(c, t, ks, ts) ==
    /\ verdict[c] = Nothing
    /\ grant' = Lapsing(ks)
    /\ bearer' = [u \in Token |-> IF u \in ts /\ bearer[u] = "good" THEN "retired" ELSE bearer[u]]
    /\ verdict' = [verdict EXCEPT ![c] = [token |-> t, accepted |-> bearer'[t] = "good"]]
    /\ UNCHANGED source

Next == \/ \E k \in Code : Approve(k)
        \/ \E k \in Code, t \in Token : Redeem(k, t)
        \/ \E ks \in SUBSET Code : Lapse(ks)
        \/ \E c \in Caller : Present(c)
        \/ \E c \in Caller, t \in Token, ks \in SUBSET Code, ts \in SUBSET Token :
              Judge(c, t, ks, ts)

Spec == Init /\ [][Next]_vars
=============================================================================
