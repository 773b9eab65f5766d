-------------------------------- MODULE OAuth --------------------------------
(***************************************************************************)
(* The authorization-code flow of oauth.rs over the tables of store.rs, and *)
(* the bearer check of auth.rs that the tokens are for.                     *)
(*                                                                          *)
(* Requests run in parallel. Each statement on the database is atomic (one  *)
(* mutex, one SQLite statement or transaction) and durable; everything else *)
(* a request knows is lost when the process dies. Time is read before the   *)
(* lock is taken, so a request may act on a time already past.              *)
(*                                                                          *)
(* Random ids are drawn fresh. A code verifier is its own hash's preimage:  *)
(* S256 is injective. The static token is not modelled: it is compared and  *)
(* never changes.                                                           *)
(***************************************************************************)
EXTENDS Integers

CONSTANTS
    Client,        \* client ids that may be drawn: bounds the registrations
    Uri,           \* redirect URIs
    Verifier,      \* PKCE code verifiers
    Code,          \* authorization codes that may be drawn
    Token,         \* access tokens that may be drawn
    Caller,        \* requests in flight
    CodeTtl,       \* CODE_TTL, in ticks
    TokenTtl,      \* TOKEN_TTL, in ticks
    MaxTime,       \* bound: the last tick of the clock
    None           \* no row, no value

S256(verifier) == <<"S256", verifier>>

Time == 0 .. MaxTime + TokenTtl + CodeTtl

Pending == [client : Client, uri : Uri, challenge : {S256(v) : v \in Verifier}, expires : Time]

\* What a token was obtained with, and when it stops being good.
Exchange == [code : Code, uri : Uri, verifier : Verifier, expires : Time]

ASSUME OAuthAssumption ==
    /\ {CodeTtl, TokenTtl, MaxTime} \subseteq Nat
    /\ None \notin Code \cup Nat \cup Pending \cup Exchange

VARIABLES
    clients,       \* rows of the clients table: <<client, redirect URI>>
    codes,         \* rows of the codes table, by code
    tokens,        \* rows of the tokens table, by token: when it expires
    now,           \* SystemTime::now(), in whole seconds
    req,           \* caller -> the request it is in
    consent,       \* history: code -> what the owner consented to
    issued         \* history: token -> the exchange it came from

vars == <<clients, codes, tokens, now, req, consent, issued>>

-----------------------------------------------------------------------------
Idle == [pc |-> "idle"]

\* A finished request keeps what its client was told until the next request.
Request ==
    {Idle}
    \cup [pc : {"store_code"}, client : Client, uri : Uri, challenge : {S256(v) : v \in Verifier},
          expires : Time]
    \cup [pc : {"check"}, code : Code, pending : Pending, uri : Uri, verifier : Verifier]
    \cup [pc : {"store_token"}, token : Token, exchange : Exchange]
    \cup [pc : {"guard"}, token : Token, at : Time]
    \cup [pc : {"granted"}, token : Token]
    \cup [pc : {"judged"}, token : Token, at : Time, accepted : BOOLEAN]

Init ==
    /\ clients = {}
    /\ codes = [k \in Code |-> None]
    /\ tokens = [t \in Token |-> None]
    /\ now = 0
    /\ req = [c \in Caller |-> Idle]
    /\ consent = [k \in Code |-> None]
    /\ issued = [t \in Token |-> None]

\* The caller has no request in flight.
Free(c) == req[c].pc \in {"idle", "granted", "judged"}

Becomes(c, r) == req' = [req EXCEPT ![c] = r]

\* Ids nothing has drawn yet.
FreshCode(k) == consent[k] = None
FreshToken(t) ==
    issued[t] = None /\ \A c \in Caller : req[c].pc = "store_token" => req[c].token # t

-----------------------------------------------------------------------------
(***************************************************************************)
(* Registration and consent.                                                *)
(***************************************************************************)
\* register: one transaction, all the URIs of a new client or none.
Register ==
    /\ \E client \in Client, uris \in SUBSET Uri \ {{}} :
          /\ \A uri \in Uri : <<client, uri>> \notin clients
          /\ clients' = clients \cup {<<client, uri>> : uri \in uris}
    /\ UNCHANGED <<codes, tokens, now, req, consent, issued>>

\* A lifetime in milliseconds added to a time in seconds.
ExpiresInMillis == now + 1000 * CodeTtl

\* SystemTime::now() + CODE_TTL
CodeExpires == now + CodeTtl

\* authorize_submit: the client and URI are registered and the consent token is right. The
\* expiry is computed here, and stored in a later step.
Submit(c) ==
    /\ Free(c)
    /\ \E client \in Client, uri \in Uri, v \in Verifier :
          /\ <<client, uri>> \in clients
          /\ Becomes(c, [pc |-> "store_code", client |-> client, uri |-> uri,
                         challenge |-> S256(v), expires |-> CodeExpires])
    /\ UNCHANGED <<clients, codes, tokens, now, consent, issued>>

StoreCode(c) ==
    /\ req[c].pc = "store_code"
    /\ \E k \in Code :
          /\ FreshCode(k)
          /\ LET pending == [client |-> req[c].client, uri |-> req[c].uri,
                             challenge |-> req[c].challenge, expires |-> req[c].expires]
             IN  /\ codes' = [codes EXCEPT ![k] = pending]
                 /\ consent' = [consent EXCEPT ![k] = pending]
    /\ Becomes(c, Idle)
    /\ UNCHANGED <<clients, tokens, now, issued>>

-----------------------------------------------------------------------------
(***************************************************************************)
(* The exchange.                                                            *)
(***************************************************************************)
\* take_code as a plain SELECT: the row is left for the exchange to delete later.
SelectedOnly(k) == codes

\* DELETE ... RETURNING: whoever reads the code also removes it.
CodesWithout(k) == [codes EXCEPT ![k] = None]

TakeCode(c) ==
    /\ Free(c)
    /\ \E k \in Code, uri \in Uri, v \in Verifier :
          /\ codes[k] # None
          /\ codes' = CodesWithout(k)
          /\ Becomes(c, [pc |-> "check", code |-> k, pending |-> codes[k], uri |-> uri,
                         verifier |-> v])
    /\ UNCHANGED <<clients, tokens, now, consent, issued>>

\* The verifier is not compared with the challenge.
MatchesUri(r) == r.pending.uri = r.uri

Matches(r) == r.pending.uri = r.uri /\ r.pending.challenge = S256(r.verifier)

\* The stored expiry has lost its fraction of a second and the clock has not: when the two
\* fall in one second the comparison can go either way.
MayPass(r) == now <= r.pending.expires
MayExpire(r) == r.pending.expires <= now

\* The three checks passed; the token and its expiry are drawn before the insert.
Passes(c) ==
    /\ req[c].pc = "check"
    /\ MayPass(req[c])
    /\ Matches(req[c])
    /\ \E t \in Token :
          /\ FreshToken(t)
          /\ Becomes(c, [pc |-> "store_token", token |-> t,
                         exchange |-> [code |-> req[c].code, uri |-> req[c].uri,
                                       verifier |-> req[c].verifier, expires |-> now + TokenTtl]])
    /\ UNCHANGED <<clients, codes, tokens, now, consent, issued>>

\* A refused exchange does not give the code back.
Fails(c) ==
    /\ req[c].pc = "check"
    /\ MayExpire(req[c]) \/ ~Matches(req[c])
    /\ Becomes(c, Idle)
    /\ UNCHANGED <<clients, codes, tokens, now, consent, issued>>

StoreToken(c) ==
    /\ req[c].pc = "store_token"
    /\ tokens' = [tokens EXCEPT ![req[c].token] = req[c].exchange.expires]
    /\ issued' = [issued EXCEPT ![req[c].token] = req[c].exchange]
    /\ Becomes(c, [pc |-> "granted", token |-> req[c].token])
    /\ UNCHANGED <<clients, codes, now, consent>>

-----------------------------------------------------------------------------
(***************************************************************************)
(* The bearer check.                                                        *)
(***************************************************************************)
\* A client presents a token it was given; token_is_valid reads the clock before the lock.
Guard(c) ==
    /\ Free(c)
    /\ \E t \in Token : /\ issued[t] # None
                        /\ Becomes(c, [pc |-> "guard", token |-> t, at |-> now])
    /\ UNCHANGED <<clients, codes, tokens, now, consent, issued>>

\* The sweep also takes what expires in the next second.
SweptEarly(row, at) == IF row # None /\ row <= at + 1 THEN None ELSE row

\* expires_at <= now: the row goes.
Swept(row, at) == IF row # None /\ row <= at THEN None ELSE row

\* The token is looked up before the sweep.
ValidBefore(t, at) == tokens[t] # None

\* The lookup follows the sweep.
Valid(t, at) == Swept(tokens[t], at) # None

\* token_is_valid under the lock: two sweeps, then the lookup.
Judge(c) ==
    /\ req[c].pc = "guard"
    /\ LET at == req[c].at
       IN  /\ tokens' = [t \in Token |-> Swept(tokens[t], at)]
           /\ codes' = [k \in Code |-> IF codes[k] = None THEN None
                                       ELSE IF Swept(codes[k].expires, at) = None THEN None
                                       ELSE codes[k]]
           /\ Becomes(c, [pc |-> "judged", token |-> req[c].token, at |-> at,
                          accepted |-> Valid(req[c].token, at)])
    /\ UNCHANGED <<clients, now, consent, issued>>

-----------------------------------------------------------------------------
(***************************************************************************)
(* Failures and time.                                                       *)
(***************************************************************************)
\* The database refuses a statement, or the client goes away: the request ends there. The
\* guard answers 401 then, whatever the token, which is no verdict on it (auth.rs:93-99).
Aborts(c) ==
    /\ ~Free(c)
    /\ Becomes(c, Idle)
    /\ UNCHANGED <<clients, codes, tokens, now, consent, issued>>

\* The process dies and is started again over the same file.
Restart ==
    /\ req' = [c \in Caller |-> Idle]
    /\ UNCHANGED <<clients, codes, tokens, now, consent, issued>>

Tick ==
    /\ now < MaxTime
    /\ now' = now + 1
    /\ UNCHANGED <<clients, codes, tokens, req, consent, issued>>

Next ==
    \/ Register \/ Restart \/ Tick
    \/ \E c \in Caller :
          \/ Submit(c) \/ StoreCode(c) \/ TakeCode(c) \/ Passes(c) \/ Fails(c) \/ StoreToken(c)
          \/ Guard(c) \/ Judge(c) \/ Aborts(c)

Spec == Init /\ [][Next]_vars

-----------------------------------------------------------------------------
(***************************************************************************)
(* Properties.                                                              *)
(***************************************************************************)
\* Every table, request and history stays within its type.
TypeOK ==
    /\ clients \subseteq Client \X Uri
    /\ codes \in [Code -> Pending \cup {None}]
    /\ tokens \in [Token -> Time \cup {None}]
    /\ now \in 0 .. MaxTime
    /\ req \in [Caller -> Request]
    /\ consent \in [Code -> Pending \cup {None}]
    /\ issued \in [Token -> Exchange \cup {None}]

\* A code yields at most one token, however many exchanges of it run at once, fail, are cut
\* off by a restart or are retried (store.rs:134-136, oauth.rs:268-333).
OneTokenPerCode ==
    \A t, u \in Token : issued[t] # None /\ issued[u] # None /\ t # u =>
        issued[t].code # issued[u].code

\* Behind every token there is a consent given for the very redirect URI the exchange named,
\* by a client that had registered it, and the verifier of its challenge (oauth.rs:295-311).
TokenNeedsConsent ==
    \A t \in Token : issued[t] # None =>
        LET given == consent[issued[t].code]
        IN  /\ given # None
            /\ <<given.client, issued[t].uri>> \in clients
            /\ given.uri = issued[t].uri
            /\ given.challenge = S256(issued[t].verifier)

\* A token that was handed out is in the table until it expires: no sweep with a stale or a
\* fresh clock, no restart and no other client's request takes it away (store.rs:157-183).
TokenUntilExpiry ==
    \A t \in Token : issued[t] # None /\ now < issued[t].expires =>
        tokens[t] = issued[t].expires

\* A presented token whose row could be looked up is accepted exactly if it had not expired
\* when the clock was read, except that a later reader may have swept it first
\* (store.rs:165-183).
AcceptedIsLive ==
    \A c \in Caller : req[c].pc = "judged" =>
        /\ req[c].accepted => req[c].at < issued[req[c].token].expires
        /\ ~req[c].accepted => issued[req[c].token].expires <= now

-----------------------------------------------------------------------------
(***************************************************************************)
(* Refinement: a code that an exchange has taken and may still redeem is    *)
(* pending in Grants, and a token whose row is gone is retired.             *)
(***************************************************************************)
Redeeming(k) ==
    \E c \in Caller : \/ req[c].pc = "check" /\ req[c].code = k
                      \/ req[c].pc = "store_token" /\ req[c].exchange.code = k

GrantOf(k) == IF consent[k] = None THEN "none"
              ELSE IF codes[k] # None \/ Redeeming(k) THEN "pending"
              ELSE "spent"

BearerOf(t) == IF issued[t] = None THEN "none" ELSE IF tokens[t] # None THEN "good" ELSE "retired"

VerdictOf(c) == IF req[c].pc = "judged"
                THEN [token |-> req[c].token, accepted |-> req[c].accepted]
                ELSE None

Flow == INSTANCE Grants WITH
    NoCode <- None,
    Nothing <- None,
    grant <- [k \in Code |-> GrantOf(k)],
    bearer <- [t \in Token |-> BearerOf(t)],
    source <- [t \in Token |-> IF issued[t] = None THEN None ELSE issued[t].code],
    verdict <- [c \in Caller |-> VerdictOf(c)]

\* The flow keeps the promise of Grants: one redemption per code, by the request that took
\* it, and only a good token is accepted.
ImplementsGrants == Flow!Spec
=============================================================================
