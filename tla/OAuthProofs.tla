----------------------------- MODULE OAuthProofs -----------------------------
(***************************************************************************)
(* Theorems about OAuth, for every set of clients, codes, tokens and        *)
(* requests and every pair of lifetimes.                                    *)
(*                                                                          *)
(* The inductive invariant says what a request in flight may rely on, that  *)
(* a code is in one place at a time (its row, one request, or one token),   *)
(* and that the rows are what the histories say was put there.              *)
(***************************************************************************)
EXTENDS OAuth, TLAPS

\* There is a consent that covers an exchange.
Backed(e) ==
    LET given == consent[e.code]
    IN  /\ given # None
        /\ <<given.client, e.uri>> \in clients
        /\ given.uri = e.uri
        /\ given.challenge = S256(e.verifier)

\* What a request knows from its earlier steps is still so.
Sound(r) ==
    /\ r.pc = "store_code" => <<r.client, r.uri>> \in clients
    /\ r.pc = "check" => consent[r.code] = r.pending
    /\ r.pc = "store_token" => issued[r.token] = None /\ Backed(r.exchange)
    /\ r.pc \in {"guard", "judged"} => issued[r.token] # None /\ r.at <= now

\* The request has taken the code, and may still turn it into a token.
Holds(r, k) ==
    \/ r.pc = "check" /\ r.code = k
    \/ r.pc = "store_token" /\ r.exchange.code = k

CodesAreConsented ==
    \A k \in Code :
        /\ codes[k] # None => codes[k] = consent[k]
        /\ consent[k] # None => <<consent[k].client, consent[k].uri>> \in clients

OneHolder ==
    \A k \in Code, c \in Caller : Holds(req[c], k) =>
        /\ codes[k] = None
        /\ \A d \in Caller : Holds(req[d], k) => d = c

SpentCodes ==
    \A t \in Token : issued[t] # None =>
        /\ codes[issued[t].code] = None
        /\ \A c \in Caller : ~Holds(req[c], issued[t].code)

TokensDrawnOnce ==
    \A c, d \in Caller :
        /\ req[c].pc = "store_token" /\ req[d].pc = "store_token"
        /\ req[c].token = req[d].token
        => c = d

TokensAsIssued ==
    \A t \in Token : tokens[t] # None => issued[t] # None /\ tokens[t] = issued[t].expires

IInv ==
    /\ TypeOK
    /\ \A c \in Caller : Sound(req[c])
    /\ CodesAreConsented
    /\ OneHolder
    /\ SpentCodes
    /\ TokensDrawnOnce
    /\ TokensAsIssued
    /\ OneTokenPerCode
    /\ TokenNeedsConsent
    /\ TokenUntilExpiry
    /\ AcceptedIsLive

-----------------------------------------------------------------------------
(***************************************************************************)
(* Requests are records of several kinds: what a request carries follows    *)
(* from where it stands. Elsewhere the set stays unexpanded.                *)
(***************************************************************************)
LEMMA RequestFields ==
  ASSUME NEW r \in Request
  PROVE  /\ r.pc = "store_code" => /\ r.client \in Client
                                   /\ r.uri \in Uri
                                   /\ r.challenge \in {S256(v) : v \in Verifier}
                                   /\ r.expires \in Time
         /\ r.pc = "check" => /\ r.code \in Code
                              /\ r.pending \in Pending
                              /\ r.uri \in Uri
                              /\ r.verifier \in Verifier
         /\ r.pc = "store_token" => r.token \in Token /\ r.exchange \in Exchange
         /\ r.pc \in {"guard", "judged"} => r.token \in Token /\ r.at \in Time
  BY DEF Request, Idle

LEMMA IdleIsRequest ==
  /\ Idle \in Request
  /\ Idle.pc = "idle"
  BY DEF Request, Idle

LEMMA CodesAreNotNone ==
  /\ \A p \in Pending : p # None
  /\ \A e \in Exchange : e # None
  /\ \A n \in Time : n # None /\ n \in Int
  /\ \A n \in 0 .. MaxTime : n \in Int /\ n + CodeTtl \in Time /\ n + TokenTtl \in Time
                             /\ n \in Time
  <1> USE OAuthAssumption
  <1>1. MaxTime \in Nat /\ CodeTtl \in Nat /\ TokenTtl \in Nat
    OBVIOUS
  <1>2. \A n \in Time : n \in Nat
    BY <1>1 DEF Time
  <1>3. \A n \in 0 .. MaxTime : n \in Int /\ n + CodeTtl \in Time /\ n + TokenTtl \in Time
                                /\ n \in Time
    BY <1>1 DEF Time
  <1> QED
    BY <1>2, <1>3

-----------------------------------------------------------------------------
(***************************************************************************)
(* Most steps of a request change nothing but the request.                  *)
(***************************************************************************)
SameTables ==
    /\ clients' = clients /\ codes' = codes /\ tokens' = tokens
    /\ consent' = consent /\ issued' = issued

LEMMA RequestMoves ==
  ASSUME IInv, NEW c \in Caller, NEW r \in Request, Becomes(c, r), SameTables, now' = now,
         Sound(r), r.pc # "judged",
         \A k : Holds(r, k) => Holds(req[c], k),
         r.pc = "store_token" =>
            \A d \in Caller \ {c} : req[d].pc = "store_token" => req[d].token # r.token
  PROVE  IInv'
  <1>1. TypeOK' /\ req \in [Caller -> Request] /\ req' \in [Caller -> Request]
    BY DEF IInv, TypeOK, SameTables, Becomes
  <1>2. req'[c] = r /\ \A d \in Caller \ {c} : req'[d] = req[d]
    BY <1>1 DEF Becomes
  <1>3. \A d \in Caller : Sound(req'[d])
    BY <1>2 DEF IInv
  <1>4. \A d \in Caller : Sound(req[d])'
    BY <1>3 DEF Sound, Backed, SameTables
  <1>5. CodesAreConsented'
    BY DEF IInv, CodesAreConsented, SameTables
  <1>6. \A d \in Caller : \A k : Holds(req'[d], k) => Holds(req[d], k)
    BY <1>2
  <1>7. OneHolder'
    BY <1>6 DEF IInv, OneHolder, SameTables, Holds
  <1>8. SpentCodes'
    BY <1>6 DEF IInv, SpentCodes, SameTables, Holds
  <1>9. TokensDrawnOnce'
    BY <1>2 DEF IInv, TokensDrawnOnce
  <1>10. TokensAsIssued' /\ OneTokenPerCode' /\ TokenNeedsConsent' /\ TokenUntilExpiry'
    BY DEF IInv, TokensAsIssued, OneTokenPerCode, TokenNeedsConsent, TokenUntilExpiry, SameTables
  <1>11. AcceptedIsLive'
    BY <1>2 DEF IInv, AcceptedIsLive, SameTables
  <1> QED
    BY <1>1, <1>4, <1>5, <1>7, <1>8, <1>9, <1>10, <1>11 DEF IInv

\* A request that ends leaves nothing behind that others could trip over.
LEMMA RequestEnds ==
  ASSUME IInv, NEW c \in Caller, Becomes(c, Idle), SameTables, now' = now
  PROVE  IInv'
  <1>1. Sound(Idle) /\ Idle.pc # "judged" /\ Idle.pc # "store_token" /\ \A k : ~Holds(Idle, k)
    BY IdleIsRequest DEF Sound, Holds
  <1> QED
    BY <1>1, IdleIsRequest, RequestMoves

-----------------------------------------------------------------------------
(***************************************************************************)
(* Steps that change only the request.                                      *)
(***************************************************************************)
LEMMA SubmitStep ==
  ASSUME IInv, NEW c \in Caller, Submit(c)
  PROVE  IInv'
  <1>1. PICK client \in Client, uri \in Uri, v \in Verifier :
           /\ <<client, uri>> \in clients
           /\ Becomes(c, [pc |-> "store_code", client |-> client, uri |-> uri,
                          challenge |-> S256(v), expires |-> CodeExpires])
    BY DEF Submit
  <1> DEFINE r == [pc |-> "store_code", client |-> client, uri |-> uri,
                   challenge |-> S256(v), expires |-> CodeExpires]
  <1>2. CodeExpires \in Time
    BY CodesAreNotNone DEF IInv, TypeOK, CodeExpires
  <1>3. r \in Request
    BY <1>2 DEF Request
  <1>4. Sound(r) /\ r.pc = "store_code" /\ \A k : ~Holds(r, k)
    BY <1>1 DEF Sound, Holds
  <1>5. SameTables /\ now' = now /\ Becomes(c, r)
    BY <1>1 DEF Submit, SameTables
  <1> HIDE DEF r
  <1> QED
    BY <1>3, <1>4, <1>5, RequestMoves

LEMMA PassesStep ==
  ASSUME IInv, NEW c \in Caller, Passes(c)
  PROVE  IInv'
  <1>1. PICK t \in Token :
           /\ FreshToken(t)
           /\ Becomes(c, [pc |-> "store_token", token |-> t,
                          exchange |-> [code |-> req[c].code, uri |-> req[c].uri,
                                        verifier |-> req[c].verifier,
                                        expires |-> now + TokenTtl]])
    BY DEF Passes
  <1> DEFINE e == [code |-> req[c].code, uri |-> req[c].uri,
                   verifier |-> req[c].verifier, expires |-> now + TokenTtl]
             r == [pc |-> "store_token", token |-> t, exchange |-> e]
  <1>2. req[c].pc = "check" /\ req[c].pending.uri = req[c].uri
        /\ req[c].pending.challenge = S256(req[c].verifier)
    BY DEF Passes, Matches
  <1>3. req[c] \in Request /\ Sound(req[c])
    BY DEF IInv, TypeOK
  <1>4. /\ req[c].code \in Code /\ req[c].pending \in Pending /\ req[c].uri \in Uri
        /\ req[c].verifier \in Verifier
        /\ consent[req[c].code] = req[c].pending
    BY <1>2, <1>3, RequestFields DEF Sound
  <1>5. now + TokenTtl \in Time
    BY CodesAreNotNone DEF IInv, TypeOK
  <1>6. e \in Exchange
    BY <1>4, <1>5 DEF Exchange
  <1>7. r \in Request
    BY <1>6 DEF Request
  <1>8. Backed(e)
    BY <1>2, <1>4, CodesAreNotNone DEF Backed, IInv, CodesAreConsented
  <1>9. Sound(r) /\ r.pc = "store_token" /\ r.token = t /\ r.exchange = e
    BY <1>1, <1>8 DEF Sound, FreshToken
  <1>10. \A k : Holds(r, k) => Holds(req[c], k)
    BY <1>2 DEF Holds
  <1>11. \A d \in Caller \ {c} : req[d].pc = "store_token" => req[d].token # r.token
    BY <1>1 DEF FreshToken
  <1>12. SameTables /\ now' = now /\ Becomes(c, r)
    BY <1>1 DEF Passes, SameTables
  <1> HIDE DEF r
  <1> QED
    BY <1>7, <1>9, <1>10, <1>11, <1>12, RequestMoves

LEMMA GuardStep ==
  ASSUME IInv, NEW c \in Caller, Guard(c)
  PROVE  IInv'
  <1>1. PICK t \in Token : issued[t] # None /\ Becomes(c, [pc |-> "guard", token |-> t, at |-> now])
    BY DEF Guard
  <1> DEFINE r == [pc |-> "guard", token |-> t, at |-> now]
  <1>2. r \in Request /\ now <= now
    BY CodesAreNotNone DEF IInv, TypeOK, Request
  <1>3. Sound(r) /\ r.pc = "guard" /\ \A k : ~Holds(r, k)
    BY <1>1, <1>2 DEF Sound, Holds
  <1>4. SameTables /\ now' = now /\ Becomes(c, r)
    BY <1>1 DEF Guard, SameTables
  <1> HIDE DEF r
  <1> QED
    BY <1>2, <1>3, <1>4, RequestMoves

LEMMA EndStep ==
  ASSUME IInv, NEW c \in Caller, Fails(c) \/ Aborts(c)
  PROVE  IInv'
  BY RequestEnds DEF Fails, Aborts, SameTables

-----------------------------------------------------------------------------
(***************************************************************************)
(* Steps that write a table.                                                *)
(***************************************************************************)
\* More registrations only help.
LEMMA RegisterStep ==
  ASSUME IInv, Register
  PROVE  IInv'
  <1>1. PICK client \in Client, uris \in SUBSET Uri \ {{}} :
           clients' = clients \cup {<<client, uri>> : uri \in uris}
    BY DEF Register
  <1>2. clients \subseteq clients' /\ clients' \subseteq Client \X Uri
    BY <1>1 DEF IInv, TypeOK
  <1>3. UNCHANGED <<codes, tokens, now, req, consent, issued>>
    BY DEF Register
  <1>4. TypeOK'
    BY <1>2, <1>3 DEF IInv, TypeOK
  <1>5. \A c \in Caller : Sound(req[c])'
    BY <1>2, <1>3 DEF IInv, Sound, Backed
  <1>6. CodesAreConsented'
    BY <1>2, <1>3 DEF IInv, CodesAreConsented
  <1>7. TokenNeedsConsent'
    BY <1>2, <1>3 DEF IInv, TokenNeedsConsent
  <1>8. OneHolder' /\ SpentCodes' /\ TokensDrawnOnce'
    BY <1>3 DEF IInv, OneHolder, SpentCodes, TokensDrawnOnce, Holds
  <1>9. TokensAsIssued' /\ OneTokenPerCode' /\ TokenUntilExpiry' /\ AcceptedIsLive'
    BY <1>3 DEF IInv, TokensAsIssued, OneTokenPerCode, TokenUntilExpiry, AcceptedIsLive
  <1> QED
    BY <1>4, <1>5, <1>6, <1>7, <1>8, <1>9 DEF IInv

\* The code is fresh: no request and no token can be about it.
LEMMA StoreCodeStep ==
  ASSUME IInv, NEW c \in Caller, StoreCode(c)
  PROVE  IInv'
  <1> DEFINE p == [client |-> req[c].client, uri |-> req[c].uri,
                   challenge |-> req[c].challenge, expires |-> req[c].expires]
  <1>1. PICK k \in Code :
           /\ FreshCode(k)
           /\ codes' = [codes EXCEPT ![k] = p]
           /\ consent' = [consent EXCEPT ![k] = p]
    BY DEF StoreCode
  <1>2. req[c].pc = "store_code" /\ req[c] \in Request /\ Sound(req[c])
    BY DEF StoreCode, IInv, TypeOK
  <1>3. <<req[c].client, req[c].uri>> \in clients
    BY <1>2 DEF Sound
  <1>4. p \in Pending /\ p # None
    BY <1>2, RequestFields, CodesAreNotNone DEF Pending
  <1>5. <<p.client, p.uri>> \in clients
    BY <1>3
  <1> HIDE DEF p
  <1>6. /\ clients' = clients /\ tokens' = tokens /\ now' = now /\ issued' = issued
        /\ req' = [req EXCEPT ![c] = Idle]
    BY DEF StoreCode, Becomes
  <1>7. TypeOK'
    BY <1>1, <1>4, <1>6, IdleIsRequest DEF IInv, TypeOK
  <1>8. /\ req'[c].pc = "idle"
        /\ \A d \in Caller \ {c} : req'[d] = req[d]
    BY <1>6, IdleIsRequest DEF IInv, TypeOK
  <1>9. /\ codes'[k] = p /\ consent'[k] = p
        /\ \A l \in Code \ {k} : codes'[l] = codes[l] /\ consent'[l] = consent[l]
    BY <1>1 DEF IInv, TypeOK
  <1>10. consent[k] = None /\ codes[k] = None
    BY <1>1, CodesAreNotNone DEF FreshCode, IInv, TypeOK, CodesAreConsented
  <1>11. \A d \in Caller : ~Holds(req[d], k)
    <2>1. SUFFICES ASSUME NEW d \in Caller, Holds(req[d], k)
                   PROVE  FALSE
      OBVIOUS
    <2>2. req[d] \in Request /\ Sound(req[d])
      BY DEF IInv, TypeOK
    <2>3. CASE req[d].pc = "check" /\ req[d].code = k
      BY <2>2, <2>3, <1>10, RequestFields, CodesAreNotNone DEF Sound
    <2>4. CASE req[d].pc = "store_token" /\ req[d].exchange.code = k
      BY <2>2, <2>4, <1>10 DEF Sound, Backed
    <2> QED
      BY <2>1, <2>3, <2>4 DEF Holds
  <1>12. \A t \in Token : issued[t] # None => issued[t].code \in Code \ {k}
    BY <1>10 DEF IInv, TypeOK, TokenNeedsConsent, Exchange
  <1>13. \A e \in Exchange : Backed(e) => Backed(e)'
    BY <1>6, <1>9, <1>10 DEF Backed, Exchange
  <1>14. \A d \in Caller : Sound(req[d])'
    <2>1. SUFFICES ASSUME NEW d \in Caller \ {c}
                   PROVE  Sound(req[d])'
      BY <1>8 DEF Sound
    <2>2. req'[d] = req[d] /\ req[d] \in Request /\ Sound(req[d])
      BY <1>8 DEF IInv, TypeOK
    <2>3. CASE req[d].pc = "check"
      <3>1. req[d].code \in Code \ {k}
        BY <2>2, <2>3, <1>11, RequestFields DEF Holds
      <3> QED
        BY <3>1, <2>2, <2>3, <1>9 DEF Sound
    <2>4. CASE req[d].pc = "store_token"
      BY <2>2, <2>4, <1>6, <1>13, RequestFields DEF Sound
    <2>5. CASE req[d].pc \notin {"check", "store_token"}
      BY <2>2, <2>5, <1>6 DEF Sound
    <2> QED
      BY <2>3, <2>4, <2>5
  <1>15. CodesAreConsented'
    BY <1>5, <1>6, <1>9 DEF IInv, CodesAreConsented
  <1>16. \A d \in Caller : \A l : Holds(req'[d], l) => Holds(req[d], l) /\ l # k
    BY <1>8, <1>11 DEF Holds
  <1>17. OneHolder'
    <2>1. SUFFICES ASSUME NEW l \in Code, NEW d \in Caller, Holds(req'[d], l)
                   PROVE  /\ codes'[l] = None
                          /\ \A e \in Caller : Holds(req'[e], l) => e = d
      BY DEF OneHolder, Holds
    <2> QED
      BY <2>1, <1>9, <1>16 DEF IInv, OneHolder
  <1>18. SpentCodes'
    BY <1>6, <1>9, <1>12, <1>16 DEF IInv, SpentCodes, Holds
  <1>19. TokensDrawnOnce'
    BY <1>8 DEF IInv, TokensDrawnOnce
  <1>20. TokensAsIssued' /\ OneTokenPerCode' /\ TokenUntilExpiry'
    BY <1>6 DEF IInv, TokensAsIssued, OneTokenPerCode, TokenUntilExpiry
  <1>21. TokenNeedsConsent'
    BY <1>6, <1>9, <1>12 DEF IInv, TokenNeedsConsent
  <1>22. AcceptedIsLive'
    BY <1>6, <1>8 DEF IInv, AcceptedIsLive
  <1> QED
    BY <1>7, <1>14, <1>15, <1>17, <1>18, <1>19, <1>20, <1>21, <1>22 DEF IInv

\* DELETE ... RETURNING moves the code from its row to the request.
LEMMA TakeCodeStep ==
  ASSUME IInv, NEW c \in Caller, TakeCode(c)
  PROVE  IInv'
  <1>1. PICK k \in Code, uri \in Uri, v \in Verifier :
           /\ codes[k] # None
           /\ codes' = CodesWithout(k)
           /\ Becomes(c, [pc |-> "check", code |-> k, pending |-> codes[k], uri |-> uri,
                          verifier |-> v])
    BY DEF TakeCode
  <1> DEFINE r == [pc |-> "check", code |-> k, pending |-> codes[k], uri |-> uri,
                   verifier |-> v]
  <1>2. codes[k] \in Pending /\ codes[k] = consent[k]
    BY <1>1 DEF IInv, TypeOK, CodesAreConsented
  <1>3. r \in Request
    BY <1>2 DEF Request
  <1>4. r.pc = "check" /\ r.code = k /\ r.pending = consent[k]
    BY <1>2
  <1>5. req' = [req EXCEPT ![c] = r]
    BY <1>1 DEF Becomes
  <1> HIDE DEF r
  <1>6. /\ clients' = clients /\ tokens' = tokens /\ now' = now /\ issued' = issued
        /\ consent' = consent
    BY DEF TakeCode
  <1>7. codes' = [codes EXCEPT ![k] = None]
    BY <1>1 DEF CodesWithout
  <1>8. TypeOK'
    BY <1>3, <1>5, <1>6, <1>7 DEF IInv, TypeOK
  <1>9. req'[c] = r /\ \A d \in Caller \ {c} : req'[d] = req[d]
    BY <1>5 DEF IInv, TypeOK
  <1>10. codes'[k] = None /\ \A l \in Code \ {k} : codes'[l] = codes[l]
    BY <1>7 DEF IInv, TypeOK
  <1>11. \A d \in Caller : ~Holds(req[d], k)
    BY <1>1 DEF IInv, OneHolder
  <1>12. \A l : Holds(r, l) => l = k
    BY <1>4 DEF Holds
  <1>13. \A t \in Token : issued[t] # None => issued[t].code \in Code \ {k}
    BY <1>1 DEF IInv, TypeOK, SpentCodes, Exchange
  <1>14. \A d \in Caller : Sound(req[d])'
    <2>1. Sound(r)
      BY <1>4 DEF Sound
    <2>2. \A d \in Caller : Sound(req'[d])
      BY <1>9, <2>1 DEF IInv
    <2> QED
      BY <1>6, <2>2 DEF Sound, Backed
  <1>15. CodesAreConsented'
    BY <1>6, <1>10 DEF IInv, CodesAreConsented
  <1>16. OneHolder'
    <2>1. SUFFICES ASSUME NEW l \in Code, NEW d \in Caller, Holds(req'[d], l)
                   PROVE  /\ codes'[l] = None
                          /\ \A b \in Caller : Holds(req'[b], l) => b = d
      BY DEF OneHolder, Holds
    <2>2. CASE d = c
      BY <2>1, <2>2, <1>9, <1>10, <1>11, <1>12
    <2>3. CASE d # c
      <3>1. Holds(req[d], l) /\ l # k
        BY <2>1, <2>3, <1>9, <1>11
      <3> QED
        BY <3>1, <1>9, <1>10, <1>12 DEF IInv, OneHolder
    <2> QED
      BY <2>2, <2>3
  <1>17. SpentCodes'
    <2>1. SUFFICES ASSUME NEW t \in Token, issued[t] # None
                   PROVE  /\ codes'[issued[t].code] = None
                          /\ \A d \in Caller : ~Holds(req'[d], issued[t].code)
      BY <1>6 DEF SpentCodes, Holds
    <2> QED
      BY <2>1, <1>9, <1>10, <1>12, <1>13 DEF IInv, SpentCodes
  <1>18. TokensDrawnOnce'
    BY <1>4, <1>9 DEF IInv, TokensDrawnOnce
  <1>19. TokensAsIssued' /\ OneTokenPerCode' /\ TokenUntilExpiry' /\ TokenNeedsConsent'
    BY <1>6 DEF IInv, TokensAsIssued, OneTokenPerCode, TokenUntilExpiry, TokenNeedsConsent
  <1>20. AcceptedIsLive'
    BY <1>4, <1>6, <1>9 DEF IInv, AcceptedIsLive
  <1> QED
    BY <1>8, <1>14, <1>15, <1>16, <1>17, <1>18, <1>19, <1>20 DEF IInv

\* The exchange moves from the request to the token it drew.
LEMMA StoreTokenStep ==
  ASSUME IInv, NEW c \in Caller, StoreToken(c)
  PROVE  IInv'
  <1>1. req[c].pc = "store_token" /\ req[c] \in Request /\ Sound(req[c])
    BY DEF StoreToken, IInv, TypeOK
  <1>2. PICK t \in Token, e \in Exchange : t = req[c].token /\ e = req[c].exchange
    BY <1>1, RequestFields
  <1>3. issued[t] = None /\ Backed(e) /\ Holds(req[c], e.code) /\ e.code \in Code /\ e.expires \in Time
    BY <1>1, <1>2 DEF Sound, Holds, Exchange
  <1> DEFINE r == [pc |-> "granted", token |-> t]
  <1>4. r \in Request /\ r.pc = "granted" /\ \A l : ~Holds(r, l)
    BY DEF Request, Holds
  <1>5. /\ tokens' = [tokens EXCEPT ![t] = e.expires]
        /\ issued' = [issued EXCEPT ![t] = e]
        /\ req' = [req EXCEPT ![c] = r]
        /\ clients' = clients /\ codes' = codes /\ now' = now /\ consent' = consent
    BY <1>2 DEF StoreToken, Becomes
  <1> HIDE DEF r
  <1>6. TypeOK'
    BY <1>3, <1>4, <1>5 DEF IInv, TypeOK
  <1>7. req'[c] = r /\ \A d \in Caller \ {c} : req'[d] = req[d]
    BY <1>5 DEF IInv, TypeOK
  <1>8. /\ tokens'[t] = e.expires /\ issued'[t] = e
        /\ \A u \in Token \ {t} : tokens'[u] = tokens[u] /\ issued'[u] = issued[u]
    BY <1>5 DEF IInv, TypeOK
  <1>9. e # None
    BY CodesAreNotNone
  <1>10. \A u \in Token : issued[u] # None => issued[u].code # e.code
    BY <1>3 DEF IInv, SpentCodes
  <1>11. codes[e.code] = None /\ \A d \in Caller \ {c} : ~Holds(req[d], e.code)
    BY <1>3 DEF IInv, OneHolder
  <1>12. \A d \in Caller : Sound(req[d])'
    <2>1. SUFFICES ASSUME NEW d \in Caller \ {c}
                   PROVE  Sound(req[d])'
      BY <1>4, <1>7 DEF Sound
    <2>2. req'[d] = req[d] /\ Sound(req[d]) /\ req[d] \in Request
      BY <1>7 DEF IInv, TypeOK
    <2>3. CASE req[d].pc = "store_token"
      <3>1. req[d].token \in Token \ {t}
        BY <2>2, <2>3, <1>1, <1>2, RequestFields DEF IInv, TokensDrawnOnce
      <3> QED
        BY <3>1, <2>2, <2>3, <1>5, <1>8 DEF Sound, Backed
    <2>4. CASE req[d].pc \in {"guard", "judged"}
      <3>1. req[d].token \in Token \ {t}
        BY <2>2, <2>4, <1>3, RequestFields DEF Sound
      <3> QED
        BY <3>1, <2>2, <2>4, <1>5, <1>8 DEF Sound
    <2>5. CASE req[d].pc \notin {"store_token", "guard", "judged"}
      BY <2>2, <2>5, <1>5 DEF Sound
    <2> QED
      BY <2>3, <2>4, <2>5
  <1>13. CodesAreConsented'
    BY <1>5 DEF IInv, CodesAreConsented
  <1>14. \A d \in Caller : \A l : Holds(req'[d], l) => d # c /\ Holds(req[d], l)
    BY <1>4, <1>7
  <1>15. OneHolder'
    <2>1. SUFFICES ASSUME NEW l \in Code, NEW d \in Caller, Holds(req'[d], l)
                   PROVE  /\ codes'[l] = None
                          /\ \A f \in Caller : Holds(req'[f], l) => f = d
      BY DEF OneHolder, Holds
    <2> QED
      BY <2>1, <1>5, <1>14 DEF IInv, OneHolder
  <1>16. SpentCodes'
    <2>1. SUFFICES ASSUME NEW u \in Token, issued'[u] # None
                   PROVE  /\ codes[issued'[u].code] = None
                          /\ \A d \in Caller : ~Holds(req'[d], issued'[u].code)
      BY <1>5 DEF SpentCodes, Holds
    <2>2. CASE u = t
      BY <2>2, <1>8, <1>11, <1>14
    <2>3. CASE u # t
      BY <2>1, <2>3, <1>8, <1>14 DEF IInv, SpentCodes
    <2> QED
      BY <2>2, <2>3
  <1>17. TokensDrawnOnce'
    BY <1>4, <1>7 DEF IInv, TokensDrawnOnce
  <1>18. TokensAsIssued'
    BY <1>8, <1>9 DEF IInv, TokensAsIssued
  <1>19. OneTokenPerCode'
    BY <1>8, <1>10 DEF IInv, OneTokenPerCode
  <1>20. TokenNeedsConsent'
    <2>1. SUFFICES ASSUME NEW u \in Token, issued'[u] # None
                   PROVE  /\ consent[issued'[u].code] # None
                          /\ <<consent[issued'[u].code].client, issued'[u].uri>> \in clients
                          /\ consent[issued'[u].code].uri = issued'[u].uri
                          /\ consent[issued'[u].code].challenge = S256(issued'[u].verifier)
      BY <1>5 DEF TokenNeedsConsent
    <2>2. CASE u = t
      BY <2>2, <1>3, <1>8 DEF Backed
    <2>3. CASE u # t
      BY <2>1, <2>3, <1>8 DEF IInv, TokenNeedsConsent
    <2> QED
      BY <2>2, <2>3
  <1>21. TokenUntilExpiry'
    BY <1>5, <1>8 DEF IInv, TokenUntilExpiry
  <1>22. AcceptedIsLive'
    <2>1. SUFFICES ASSUME NEW d \in Caller \ {c}, req[d].pc = "judged"
                   PROVE  /\ req[d].accepted => req[d].at < issued'[req[d].token].expires
                          /\ ~req[d].accepted => issued'[req[d].token].expires <= now
      BY <1>4, <1>5, <1>7 DEF AcceptedIsLive
    <2>2. Sound(req[d]) /\ req[d] \in Request
      BY DEF IInv, TypeOK
    <2>3. req[d].token \in Token \ {t}
      BY <2>1, <2>2, <1>3, RequestFields DEF Sound
    <2> QED
      BY <2>1, <2>3, <1>8 DEF IInv, AcceptedIsLive
  <1> QED
    BY <1>6, <1>12, <1>13, <1>15, <1>16, <1>17, <1>18, <1>19, <1>20, <1>21, <1>22 DEF IInv

\* The sweep takes what ran out by a time that is not in the future.
LEMMA JudgeStep ==
  ASSUME IInv, NEW c \in Caller, Judge(c)
  PROVE  IInv'
  <1>1. req[c].pc = "guard" /\ req[c] \in Request /\ Sound(req[c])
    BY DEF Judge, IInv, TypeOK
  <1>2. PICK t \in Token, at \in Time : t = req[c].token /\ at = req[c].at
    BY <1>1, RequestFields
  <1>3. PICK accepted \in BOOLEAN : accepted = Valid(t, at)
    BY DEF Valid
  <1> DEFINE r == [pc |-> "judged", token |-> t, at |-> at, accepted |-> accepted]
  <1>4. r \in Request /\ r.pc = "judged" /\ r.token = t /\ r.at = at
        /\ r.accepted = accepted /\ \A l : ~Holds(r, l)
    BY DEF Request, Holds
  <1>5. /\ tokens' = [u \in Token |-> Swept(tokens[u], at)]
        /\ codes' = [k \in Code |-> IF codes[k] = None THEN None
                                    ELSE IF Swept(codes[k].expires, at) = None THEN None
                                    ELSE codes[k]]
        /\ req' = [req EXCEPT ![c] = r]
        /\ clients' = clients /\ now' = now /\ consent' = consent /\ issued' = issued
    BY <1>2, <1>3 DEF Judge, Becomes
  <1> HIDE DEF r
  <1>6. issued[t] # None /\ at <= now /\ at \in Int /\ now \in Int
    BY <1>1, <1>2, CodesAreNotNone DEF Sound, IInv, TypeOK
  <1>7. \A u \in Token : tokens'[u] = tokens[u] \/ tokens'[u] = None
    BY <1>5 DEF Swept
  <1>8. \A k \in Code : codes'[k] = codes[k] \/ codes'[k] = None
    BY <1>5
  <1>9. req'[c] = r /\ \A d \in Caller \ {c} : req'[d] = req[d]
    BY <1>5 DEF IInv, TypeOK
  <1>10. TypeOK'
    <2>1. tokens' \in [Token -> Time \cup {None}]
      BY <1>5, <1>7 DEF IInv, TypeOK
    <2>2. codes' \in [Code -> Pending \cup {None}]
      BY <1>5, <1>8 DEF IInv, TypeOK
    <2> QED
      BY <2>1, <2>2, <1>4, <1>5 DEF IInv, TypeOK
  <1>11. \A d \in Caller : Sound(req[d])'
    <2>1. Sound(r)
      BY <1>4, <1>6 DEF Sound
    <2>2. \A d \in Caller : Sound(req'[d])
      BY <2>1, <1>9 DEF IInv
    <2> QED
      BY <2>2, <1>5 DEF Sound, Backed
  <1>12. CodesAreConsented'
    BY <1>5, <1>8 DEF IInv, CodesAreConsented
  <1>13. \A d \in Caller : \A l : Holds(req'[d], l) => Holds(req[d], l)
    BY <1>4, <1>9
  <1>14. OneHolder'
    BY <1>8, <1>13 DEF IInv, OneHolder, Holds
  <1>15. SpentCodes'
    <2>1. \A u \in Token : issued[u] # None => issued[u].code \in Code
      BY DEF IInv, TypeOK, Exchange
    <2> QED
      BY <2>1, <1>5, <1>8, <1>13 DEF IInv, SpentCodes, Holds
  <1>16. TokensDrawnOnce'
    BY <1>4, <1>9 DEF IInv, TokensDrawnOnce
  <1>17. TokensAsIssued'
    BY <1>5, <1>7 DEF IInv, TokensAsIssued
  <1>18. OneTokenPerCode' /\ TokenNeedsConsent'
    BY <1>5 DEF IInv, OneTokenPerCode, TokenNeedsConsent
  <1>19. \A u \in Token : issued[u] # None /\ now < issued[u].expires =>
            tokens[u] = issued[u].expires /\ ~(tokens[u] <= at)
    <2>1. \A u \in Token : issued[u] # None => issued[u].expires \in Int
      BY CodesAreNotNone DEF IInv, TypeOK, Exchange
    <2> QED
      BY <2>1, <1>6 DEF IInv, TokenUntilExpiry
  <1>20. TokenUntilExpiry'
    BY <1>5, <1>19 DEF Swept, TokenUntilExpiry
  <1>21. /\ accepted => at < issued[t].expires
         /\ ~accepted => issued[t].expires <= now
    <2>1. issued[t].expires \in Int
      BY <1>6, CodesAreNotNone DEF IInv, TypeOK, Exchange
    <2>2. CASE accepted
      <3>1. tokens[t] # None /\ ~(tokens[t] <= at)
        BY <2>2, <1>3 DEF Valid, Swept
      <3> QED
        BY <2>2, <3>1, <2>1, <1>6 DEF IInv, TokensAsIssued
    <2>3. CASE ~accepted
      <3>1. tokens[t] = None \/ tokens[t] <= at
        BY <2>3, <1>3 DEF Valid, Swept
      <3>2. CASE now < issued[t].expires
        BY <3>1, <3>2, <2>1, <1>6, <1>19, CodesAreNotNone DEF IInv, TypeOK, Exchange
      <3> QED
        BY <3>2, <2>1, <2>3, <1>6
    <2> QED
      BY <2>2, <2>3
  <1>22. AcceptedIsLive'
    BY <1>4, <1>5, <1>9, <1>21 DEF IInv, AcceptedIsLive
  <1> QED
    BY <1>10, <1>11, <1>12, <1>14, <1>15, <1>16, <1>17, <1>18, <1>20, <1>22 DEF IInv

\* Whatever a request held is lost: the code it had taken can never be redeemed.
LEMMA RestartStep ==
  ASSUME IInv, Restart
  PROVE  IInv'
  <1>1. SameTables /\ now' = now /\ req' = [c \in Caller |-> Idle]
    BY DEF Restart, SameTables
  <1>2. \A c \in Caller : req'[c] = Idle
    BY <1>1
  <1>3. \A c \in Caller : req'[c].pc = "idle" /\ \A k : ~Holds(req'[c], k)
    BY <1>2, IdleIsRequest DEF Holds
  <1>4. TypeOK'
    BY <1>1, IdleIsRequest DEF IInv, TypeOK, SameTables
  <1>5. \A c \in Caller : Sound(req[c])'
    BY <1>3 DEF Sound
  <1>6. CodesAreConsented'
    BY <1>1 DEF IInv, CodesAreConsented, SameTables
  <1>7. OneHolder'
    BY <1>3 DEF OneHolder, Holds
  <1>8. SpentCodes'
    BY <1>1, <1>3 DEF IInv, SpentCodes, SameTables, Holds
  <1>9. TokensDrawnOnce' /\ AcceptedIsLive'
    BY <1>3 DEF TokensDrawnOnce, AcceptedIsLive
  <1>10. TokensAsIssued' /\ OneTokenPerCode' /\ TokenNeedsConsent' /\ TokenUntilExpiry'
    BY <1>1 DEF IInv, TokensAsIssued, OneTokenPerCode, TokenNeedsConsent, TokenUntilExpiry, SameTables
  <1> QED
    BY <1>4, <1>5, <1>6, <1>7, <1>8, <1>9, <1>10 DEF IInv

LEMMA TickStep ==
  ASSUME IInv, Tick
  PROVE  IInv'
  <1>1. SameTables /\ req' = req /\ now' = now + 1 /\ now \in Int /\ now < MaxTime
    BY CodesAreNotNone DEF Tick, SameTables, IInv, TypeOK
  <1>2. TypeOK'
    BY <1>1, OAuthAssumption DEF IInv, TypeOK, SameTables
  <1>3. \A c \in Caller : Sound(req[c])'
    <2>1. SUFFICES ASSUME NEW c \in Caller
                   PROVE  Sound(req[c])'
      OBVIOUS
    <2>2. req[c] \in Request /\ Sound(req[c])
      BY DEF IInv, TypeOK
    <2>3. req[c].pc \in {"guard", "judged"} => req[c].at <= now'
      BY <1>1, <2>2, RequestFields, CodesAreNotNone DEF Sound
    <2> QED
      BY <1>1, <2>2, <2>3 DEF Sound, Backed, SameTables
  <1>4. CodesAreConsented'
    BY <1>1 DEF IInv, CodesAreConsented, SameTables
  <1>5. OneHolder' /\ SpentCodes' /\ TokensDrawnOnce'
    BY <1>1 DEF IInv, OneHolder, SpentCodes, TokensDrawnOnce, Holds, SameTables
  <1>6. TokensAsIssued' /\ OneTokenPerCode' /\ TokenNeedsConsent'
    BY <1>1 DEF IInv, TokensAsIssued, OneTokenPerCode, TokenNeedsConsent, SameTables
  <1>7. \A t \in Token : issued[t] # None => issued[t].expires \in Int
    BY CodesAreNotNone DEF IInv, TypeOK, Exchange
  <1>8. TokenUntilExpiry'
    BY <1>1, <1>7 DEF IInv, TokenUntilExpiry, SameTables
  <1>9. AcceptedIsLive'
    <2>1. \A c \in Caller : req[c].pc = "judged" =>
             issued[req[c].token] # None /\ req[c].token \in Token
      BY RequestFields DEF IInv, TypeOK, Sound
    <2> QED
      BY <1>1, <1>7, <2>1 DEF IInv, AcceptedIsLive, SameTables
  <1> QED
    BY <1>2, <1>3, <1>4, <1>5, <1>6, <1>8, <1>9 DEF IInv

-----------------------------------------------------------------------------
(***************************************************************************)
(* The theorems.                                                            *)
(***************************************************************************)
LEMMA InitInv == Init => IInv
  <1> SUFFICES ASSUME Init PROVE IInv
    OBVIOUS
  <1>1. \A c \in Caller : req[c] = Idle /\ req[c].pc = "idle"
    BY IdleIsRequest DEF Init
  <1>2. TypeOK
    BY OAuthAssumption, IdleIsRequest DEF Init, TypeOK
  <1>3. \A c \in Caller : Sound(req[c]) /\ \A k : ~Holds(req[c], k)
    BY <1>1 DEF Sound, Holds
  <1>4. CodesAreConsented
    BY DEF Init, CodesAreConsented
  <1>5. OneHolder /\ SpentCodes
    BY <1>3 DEF Init, OneHolder, SpentCodes
  <1>6. TokensDrawnOnce /\ AcceptedIsLive
    BY <1>1 DEF TokensDrawnOnce, AcceptedIsLive
  <1>7. TokensAsIssued /\ OneTokenPerCode /\ TokenNeedsConsent /\ TokenUntilExpiry
    BY DEF Init, TokensAsIssued, OneTokenPerCode, TokenNeedsConsent, TokenUntilExpiry
  <1> QED
    BY <1>2, <1>3, <1>4, <1>5, <1>6, <1>7 DEF IInv

LEMMA StutterStep ==
  ASSUME IInv, UNCHANGED vars
  PROVE  IInv'
  <1>1. SameTables /\ req' = req /\ now' = now
    BY DEF vars, SameTables
  <1>2. TypeOK'
    BY <1>1 DEF IInv, TypeOK, SameTables
  <1>3. \A c \in Caller : Sound(req[c])'
    BY <1>1 DEF IInv, Sound, Backed, SameTables
  <1>4. CodesAreConsented' /\ OneHolder' /\ SpentCodes' /\ TokensDrawnOnce'
    BY <1>1 DEF IInv, CodesAreConsented, OneHolder, SpentCodes, TokensDrawnOnce, Holds, SameTables
  <1>5. TokensAsIssued' /\ OneTokenPerCode' /\ TokenNeedsConsent'
    BY <1>1 DEF IInv, TokensAsIssued, OneTokenPerCode, TokenNeedsConsent, SameTables
  <1>6. TokenUntilExpiry' /\ AcceptedIsLive'
    BY <1>1 DEF IInv, TokenUntilExpiry, AcceptedIsLive, SameTables
  <1> QED
    BY <1>2, <1>3, <1>4, <1>5, <1>6 DEF IInv

LEMMA NextInv ==
  ASSUME IInv, [Next]_vars
  PROVE  IInv'
  <1>1. CASE Register BY <1>1, RegisterStep
  <1>2. CASE Restart BY <1>2, RestartStep
  <1>3. CASE Tick BY <1>3, TickStep
  <1>4. ASSUME NEW c \in Caller, Submit(c) PROVE IInv' BY <1>4, SubmitStep
  <1>5. ASSUME NEW c \in Caller, StoreCode(c) PROVE IInv' BY <1>5, StoreCodeStep
  <1>6. ASSUME NEW c \in Caller, TakeCode(c) PROVE IInv' BY <1>6, TakeCodeStep
  <1>7. ASSUME NEW c \in Caller, Passes(c) PROVE IInv' BY <1>7, PassesStep
  <1>8. ASSUME NEW c \in Caller, Fails(c) \/ Aborts(c) PROVE IInv' BY <1>8, EndStep
  <1>9. ASSUME NEW c \in Caller, StoreToken(c) PROVE IInv' BY <1>9, StoreTokenStep
  <1>10. ASSUME NEW c \in Caller, Guard(c) PROVE IInv' BY <1>10, GuardStep
  <1>11. ASSUME NEW c \in Caller, Judge(c) PROVE IInv' BY <1>11, JudgeStep
  <1>12. CASE UNCHANGED vars BY <1>12, StutterStep
  <1> QED
    BY <1>1, <1>2, <1>3, <1>4, <1>5, <1>6, <1>7, <1>8, <1>9, <1>10, <1>11, <1>12 DEF Next

\* The invariant that carries the theorems below, at every step of every behaviour.
THEOREM Invariance == Spec => []IInv
  <1>1. Init => IInv
    BY InitInv
  <1>2. IInv /\ [Next]_vars => IInv'
    BY NextInv
  <1> QED
    BY <1>1, <1>2, PTL DEF Spec

\* Every table, request and history stays within its type.
THEOREM TypeCorrect == Spec => []TypeOK
  <1>1. IInv => TypeOK
    BY DEF IInv
  <1> QED
    BY <1>1, Invariance, PTL

\* However exchanges of one code overlap, fail, are retried or are cut off by a restart, it
\* yields at most one token (store.rs:134-155, oauth.rs:268-333).
THEOREM OneToken == Spec => []OneTokenPerCode
  <1>1. IInv => OneTokenPerCode
    BY DEF IInv
  <1> QED
    BY <1>1, Invariance, PTL

\* Behind every token there is a consent for its redirect URI, by a client registered for it,
\* and the verifier of its challenge (oauth.rs:295-311).
THEOREM ConsentBehindTokens == Spec => []TokenNeedsConsent
  <1>1. IInv => TokenNeedsConsent
    BY DEF IInv
  <1> QED
    BY <1>1, Invariance, PTL

\* A token is in its table until it expires, whoever sweeps with whatever clock reading
\* (store.rs:157-183).
THEOREM TokensLast == Spec => []TokenUntilExpiry
  <1>1. IInv => TokenUntilExpiry
    BY DEF IInv
  <1> QED
    BY <1>1, Invariance, PTL

\* A presented token is accepted only before its expiry, and refused only after it
\* (store.rs:165-183).
THEOREM JudgementsAreRight == Spec => []AcceptedIsLive
  <1>1. IInv => AcceptedIsLive
    BY DEF IInv
  <1> QED
    BY <1>1, Invariance, PTL

-----------------------------------------------------------------------------
(***************************************************************************)
(* Refinement. Every step is a step of Grants, or leaves what Grants sees   *)
(* as it was.                                                               *)
(***************************************************************************)
SourceOf(t) == IF issued[t] = None THEN None ELSE issued[t].code

LEMMA RedeemingHeld ==
  /\ \A k : Redeeming(k) <=> \E c \in Caller : Holds(req[c], k)
  /\ \A k : Redeeming(k)' <=> \E c \in Caller : Holds(req'[c], k)
  BY DEF Redeeming, Holds

\* A request that takes up or gives up no code, and is not judged, opens or goes on unseen.
LEMMA RequestSeen ==
  ASSUME IInv, NEW c \in Caller, NEW r, Becomes(c, r), SameTables, r.pc # "judged",
         \A k : Holds(r, k) <=> Holds(req[c], k)
  PROVE  Flow!Present(c)
  <1>1. req'[c] = r /\ \A d \in Caller \ {c} : req'[d] = req[d]
    BY DEF Becomes, IInv, TypeOK
  <1>2. \A k : Redeeming(k)' <=> Redeeming(k)
    BY <1>1, RedeemingHeld
  <1>3. \A k \in Code : GrantOf(k)' = GrantOf(k)
    BY <1>2 DEF GrantOf, SameTables
  <1>4. \A t \in Token : BearerOf(t)' = BearerOf(t) /\ SourceOf(t)' = SourceOf(t)
    BY DEF BearerOf, SourceOf, SameTables
  <1>5. VerdictOf(c)' = None /\ \A d \in Caller \ {c} : VerdictOf(d)' = VerdictOf(d)
    BY <1>1 DEF VerdictOf
  <1> QED
    BY <1>3, <1>4, <1>5 DEF Flow!Present, SourceOf

LEMMA SubmitSeen ==
  ASSUME IInv, NEW c \in Caller, Submit(c)
  PROVE  Flow!Present(c)
  <1>1. PICK r : /\ Becomes(c, r) /\ r.pc = "store_code"
    BY DEF Submit
  <1>2. \A k : ~Holds(r, k) /\ ~Holds(req[c], k)
    BY <1>1 DEF Holds, Submit, Free
  <1>3. SameTables
    BY DEF Submit, SameTables
  <1> QED
    BY <1>1, <1>2, <1>3, RequestSeen

LEMMA GuardSeen ==
  ASSUME IInv, NEW c \in Caller, Guard(c)
  PROVE  Flow!Present(c)
  <1>1. PICK r : /\ Becomes(c, r) /\ r.pc = "guard"
    BY DEF Guard
  <1>2. \A k : ~Holds(r, k) /\ ~Holds(req[c], k)
    BY <1>1 DEF Holds, Guard, Free
  <1>3. SameTables
    BY DEF Guard, SameTables
  <1> QED
    BY <1>1, <1>2, <1>3, RequestSeen

LEMMA PassesSeen ==
  ASSUME IInv, NEW c \in Caller, Passes(c)
  PROVE  Flow!Present(c)
  <1>1. PICK r : /\ Becomes(c, r) /\ r.pc = "store_token"
                 /\ r.exchange.code = req[c].code
    BY DEF Passes
  <1>2. req[c].pc = "check" /\ SameTables
    BY DEF Passes, SameTables
  <1>3. \A k : Holds(r, k) <=> Holds(req[c], k)
    BY <1>1, <1>2 DEF Holds
  <1> QED
    BY <1>1, <1>2, <1>3, RequestSeen

LEMMA StoreCodeSeen ==
  ASSUME IInv, IInv', NEW c \in Caller, StoreCode(c)
  PROVE  \E k \in Code : Flow!Approve(k)
  <1>1. PICK k \in Code, p \in Pending :
           /\ consent[k] = None
           /\ codes' = [codes EXCEPT ![k] = p]
           /\ consent' = [consent EXCEPT ![k] = p]
    <2>1. req[c].pc = "store_code" /\ req[c] \in Request
      BY DEF StoreCode, IInv, TypeOK
    <2>2. [client |-> req[c].client, uri |-> req[c].uri,
           challenge |-> req[c].challenge, expires |-> req[c].expires] \in Pending
      BY <2>1, RequestFields DEF Pending
    <2> QED
      BY <2>2 DEF StoreCode, FreshCode
  <1>2. /\ codes'[k] = p /\ consent'[k] = p /\ p # None
        /\ \A l \in Code \ {k} : codes'[l] = codes[l] /\ consent'[l] = consent[l]
    BY <1>1, CodesAreNotNone DEF IInv, TypeOK
  <1>3. /\ req'[c] = Idle /\ req[c].pc = "store_code" /\ Idle.pc = "idle"
        /\ \A d \in Caller \ {c} : req'[d] = req[d]
        /\ tokens' = tokens /\ issued' = issued
    BY IdleIsRequest DEF StoreCode, Becomes, IInv, TypeOK
  <1>4. \A l : Redeeming(l)' <=> Redeeming(l)
    BY <1>3, RedeemingHeld DEF Holds
  <1>5. /\ GrantOf(k) = "none" /\ GrantOf(k)' = "pending"
        /\ \A l \in Code \ {k} : GrantOf(l)' = GrantOf(l)
    BY <1>1, <1>2, <1>4 DEF GrantOf
  <1>6. \A t \in Token : BearerOf(t)' = BearerOf(t) /\ SourceOf(t)' = SourceOf(t)
    BY <1>3 DEF BearerOf, SourceOf
  <1>7. \A d \in Caller : VerdictOf(d)' = VerdictOf(d)
    BY <1>3 DEF VerdictOf
  <1>8. Flow!Approve(k)
    BY <1>5, <1>6, <1>7 DEF Flow!Approve, SourceOf
  <1> QED
    BY <1>8

LEMMA TakeCodeSeen ==
  ASSUME IInv, NEW c \in Caller, TakeCode(c)
  PROVE  Flow!Present(c)
  <1>1. PICK k \in Code :
           /\ codes[k] # None
           /\ codes' = [codes EXCEPT ![k] = None]
           /\ \E r : Becomes(c, r) /\ r.pc = "check" /\ r.code = k
    BY DEF TakeCode, CodesWithout
  <1>2. PICK r : Becomes(c, r) /\ r.pc = "check" /\ r.code = k
    BY <1>1
  <1>3. /\ codes'[k] = None /\ \A l \in Code \ {k} : codes'[l] = codes[l]
        /\ req'[c] = r /\ \A d \in Caller \ {c} : req'[d] = req[d]
        /\ tokens' = tokens /\ issued' = issued /\ consent' = consent
    BY <1>1, <1>2 DEF TakeCode, Becomes, IInv, TypeOK
  <1>4. \A l : ~Holds(req[c], l) /\ (Holds(r, l) <=> l = k)
    BY <1>1, <1>2 DEF Holds, TakeCode, Free
  <1>5. \A l : Redeeming(l)' <=> Redeeming(l) \/ l = k
    BY <1>3, <1>4, RedeemingHeld
  <1>6. \A l \in Code : GrantOf(l)' = GrantOf(l)
    BY <1>1, <1>2, <1>3, <1>5 DEF GrantOf
  <1>7. \A t \in Token : BearerOf(t)' = BearerOf(t) /\ SourceOf(t)' = SourceOf(t)
    BY <1>3 DEF BearerOf, SourceOf
  <1>8. VerdictOf(c)' = None /\ \A d \in Caller \ {c} : VerdictOf(d)' = VerdictOf(d)
    BY <1>1, <1>2, <1>3 DEF VerdictOf
  <1> QED
    BY <1>6, <1>7, <1>8 DEF Flow!Present, SourceOf

\* What a request had taken lapses with it.
LEMMA EndSeen ==
  ASSUME IInv, NEW c \in Caller, Fails(c) \/ Aborts(c)
  PROVE  \E ks \in SUBSET Code : Flow!Lapse(ks)
  <1> DEFINE ks == {k \in Code : Holds(req[c], k)}
  <1>1. /\ req'[c] = Idle /\ Idle.pc = "idle" /\ \A d \in Caller \ {c} : req'[d] = req[d]
        /\ req[c].pc # "judged" /\ SameTables
    BY IdleIsRequest DEF Fails, Aborts, Free, Becomes, SameTables, IInv, TypeOK
  <1>2. \A k \in ks : ~Redeeming(k)' /\ Redeeming(k) /\ codes[k] = None
    BY <1>1, RedeemingHeld DEF IInv, OneHolder, Holds
  <1>3. \A k \in Code \ ks : Redeeming(k)' <=> Redeeming(k)
    BY <1>1, RedeemingHeld DEF Holds
  <1>4. \A k \in Code : GrantOf(k)' = IF k \in ks /\ GrantOf(k) = "pending" THEN "spent"
                                      ELSE GrantOf(k)
    BY <1>1, <1>2, <1>3 DEF GrantOf, SameTables
  <1>5. \A t \in Token : BearerOf(t)' = BearerOf(t) /\ SourceOf(t)' = SourceOf(t)
    BY <1>1 DEF BearerOf, SourceOf, SameTables
  <1>6. \A d \in Caller : VerdictOf(d)' = VerdictOf(d)
    BY <1>1 DEF VerdictOf
  <1> HIDE DEF ks
  <1>7. Flow!Lapse(ks)
    BY <1>4, <1>5, <1>6 DEF Flow!Lapse, Flow!Lapsing, SourceOf
  <1> QED
    BY <1>7 DEF ks

LEMMA RestartSeen ==
  ASSUME IInv, Restart
  PROVE  \E ks \in SUBSET Code : Flow!Lapse(ks)
  <1> DEFINE ks == {k \in Code : Redeeming(k)}
  <1>1. SameTables /\ \A c \in Caller : req'[c] = Idle /\ Idle.pc = "idle"
    BY IdleIsRequest DEF Restart, SameTables
  <1>2. \A k : ~Redeeming(k)'
    BY <1>1, RedeemingHeld DEF Holds
  <1>3. \A k \in Code : Redeeming(k) => codes[k] = None
    BY RedeemingHeld DEF IInv, OneHolder
  <1>4. \A k \in Code : GrantOf(k)' = IF k \in ks /\ GrantOf(k) = "pending" THEN "spent"
                                      ELSE GrantOf(k)
    BY <1>1, <1>2, <1>3 DEF GrantOf, SameTables
  <1>5. \A t \in Token : BearerOf(t)' = BearerOf(t) /\ SourceOf(t)' = SourceOf(t)
    BY <1>1 DEF BearerOf, SourceOf, SameTables
  <1>6. \A d \in Caller : VerdictOf(d)' = None
    BY <1>1 DEF VerdictOf
  <1> HIDE DEF ks
  <1>7. Flow!Lapse(ks)
    BY <1>4, <1>5, <1>6 DEF Flow!Lapse, Flow!Lapsing, SourceOf
  <1> QED
    BY <1>7 DEF ks

LEMMA StoreTokenSeen ==
  ASSUME IInv, NEW c \in Caller, StoreToken(c)
  PROVE  \E k \in Code, t \in Token : Flow!Redeem(k, t)
  <1>1. req[c].pc = "store_token" /\ req[c] \in Request /\ Sound(req[c])
    BY DEF StoreToken, IInv, TypeOK
  <1>2. PICK t \in Token, e \in Exchange : t = req[c].token /\ e = req[c].exchange
    BY <1>1, RequestFields
  <1>3. PICK k \in Code : k = e.code
    BY DEF Exchange
  <1>4. issued[t] = None /\ Holds(req[c], k) /\ consent[k] # None /\ e # None
    BY <1>1, <1>2, <1>3, CodesAreNotNone DEF Sound, Backed, Holds
  <1>5. /\ tokens' = [tokens EXCEPT ![t] = e.expires]
        /\ issued' = [issued EXCEPT ![t] = e]
        /\ \E r : Becomes(c, r) /\ r.pc = "granted"
        /\ codes' = codes /\ consent' = consent
    BY <1>2 DEF StoreToken
  <1>6. PICK r : Becomes(c, r) /\ r.pc = "granted"
    BY <1>5
  <1>7. req'[c] = r /\ \A d \in Caller \ {c} : req'[d] = req[d]
    BY <1>6 DEF Becomes, IInv, TypeOK
  <1>8. e.expires \in Time
    BY DEF Exchange
  <1>9. /\ issued'[t] = e /\ tokens'[t] # None
        /\ \A u \in Token \ {t} : tokens'[u] = tokens[u] /\ issued'[u] = issued[u]
    BY <1>5, <1>8, CodesAreNotNone DEF IInv, TypeOK
  <1>10. \A l : Redeeming(l)' <=> \E d \in Caller \ {c} : Holds(req[d], l)
    BY <1>6, <1>7, RedeemingHeld DEF Holds
  <1>11. Redeeming(k) /\ ~Redeeming(k)' /\ codes[k] = None
    BY <1>4, <1>10, RedeemingHeld DEF IInv, OneHolder
  <1>12. \A l \in Code \ {k} : ~Holds(req[c], l)
    BY <1>1, <1>2, <1>3 DEF Holds
  <1>13. \A l \in Code \ {k} : Redeeming(l)' <=> Redeeming(l)
    BY <1>10, <1>12, RedeemingHeld
  <1>14. /\ GrantOf(k) = "pending" /\ GrantOf(k)' = "spent"
         /\ \A l \in Code \ {k} : GrantOf(l)' = GrantOf(l)
    BY <1>4, <1>5, <1>11, <1>13 DEF GrantOf
  <1>15. /\ BearerOf(t) = "none" /\ BearerOf(t)' = "good" /\ SourceOf(t)' = k
         /\ \A u \in Token \ {t} : BearerOf(u)' = BearerOf(u) /\ SourceOf(u)' = SourceOf(u)
    BY <1>3, <1>4, <1>9 DEF BearerOf, SourceOf
  <1>16. \A d \in Caller : VerdictOf(d)' = VerdictOf(d)
    BY <1>1, <1>6, <1>7 DEF VerdictOf
  <1>17. Flow!Redeem(k, t)
    BY <1>14, <1>15, <1>16 DEF Flow!Redeem, SourceOf
  <1> QED
    BY <1>17

\* The codes and tokens the sweep takes lapse and retire; the token presented is accepted if
\* its row is left.
LEMMA JudgeSeen ==
  ASSUME IInv, NEW c \in Caller, Judge(c)
  PROVE  \E t \in Token, ks \in SUBSET Code, ts \in SUBSET Token : Flow!Judge(c, t, ks, ts)
  <1>1. req[c].pc = "guard" /\ req[c] \in Request /\ Sound(req[c])
    BY DEF Judge, IInv, TypeOK
  <1>2. PICK t \in Token, at \in Time : t = req[c].token /\ at = req[c].at
    BY <1>1, RequestFields
  <1>3. PICK r : /\ Becomes(c, r) /\ r.pc = "judged" /\ r.token = t
                 /\ r.accepted = Valid(t, at)
    BY <1>2 DEF Judge
  <1>4. /\ tokens' = [u \in Token |-> Swept(tokens[u], at)]
        /\ codes' = [k \in Code |-> IF codes[k] = None THEN None
                                    ELSE IF Swept(codes[k].expires, at) = None THEN None
                                    ELSE codes[k]]
        /\ consent' = consent /\ issued' = issued
    BY <1>2 DEF Judge
  <1> DEFINE ks == {k \in Code : codes[k] # None /\ codes'[k] = None}
             ts == {u \in Token : tokens[u] # None /\ tokens'[u] = None}
  <1>5. req'[c] = r /\ \A d \in Caller \ {c} : req'[d] = req[d]
    BY <1>3 DEF Becomes, IInv, TypeOK
  <1>6. \A k : Redeeming(k)' <=> Redeeming(k)
    BY <1>1, <1>3, <1>5, RedeemingHeld DEF Holds
  <1>7. \A k \in Code : codes[k] # None => ~Redeeming(k)
    BY RedeemingHeld DEF IInv, OneHolder
  <1>8. \A k \in Code : codes'[k] = codes[k] \/ codes'[k] = None
    BY <1>4
  <1>9. \A k \in Code : codes[k] # None => consent[k] # None
    BY DEF IInv, CodesAreConsented
  <1>10. \A k \in Code : GrantOf(k)' = IF k \in ks /\ GrantOf(k) = "pending" THEN "spent"
                                       ELSE GrantOf(k)
    BY <1>4, <1>6, <1>7, <1>8, <1>9 DEF GrantOf
  <1>11. \A u \in Token : tokens'[u] = tokens[u] \/ tokens'[u] = None
    BY <1>4 DEF Swept
  <1>12. \A u \in Token : tokens[u] # None => issued[u] # None
    BY DEF IInv, TokensAsIssued
  <1>13. \A u \in Token : BearerOf(u)' = IF u \in ts /\ BearerOf(u) = "good" THEN "retired"
                                         ELSE BearerOf(u)
    BY <1>4, <1>11, <1>12 DEF BearerOf
  <1>14. \A u \in Token : SourceOf(u)' = SourceOf(u)
    BY <1>4 DEF SourceOf
  <1>15. issued[t] # None
    BY <1>1, <1>2 DEF Sound
  <1>16. r.accepted = (BearerOf(t)' = "good")
    BY <1>3, <1>4, <1>15 DEF Valid, BearerOf
  <1>17. /\ VerdictOf(c) = None
         /\ VerdictOf(c)' = [token |-> t, accepted |-> BearerOf(t)' = "good"]
         /\ \A d \in Caller \ {c} : VerdictOf(d)' = VerdictOf(d)
    BY <1>1, <1>3, <1>5, <1>16 DEF VerdictOf
  <1> HIDE DEF ks, ts
  <1>18. Flow!Judge(c, t, ks, ts)
    BY <1>10, <1>13, <1>14, <1>17 DEF Flow!Judge, Flow!Lapsing, SourceOf
  <1> QED
    BY <1>18 DEF ks, ts

\* Registering a client, and the passing of time, are not seen at all.
LEMMA UnseenStep ==
  ASSUME IInv, Register \/ Tick \/ UNCHANGED vars
  PROVE  UNCHANGED Flow!vars
  <1>1. codes' = codes /\ tokens' = tokens /\ req' = req /\ consent' = consent /\ issued' = issued
    BY DEF Register, Tick, vars
  <1>2. \A k : Redeeming(k)' <=> Redeeming(k)
    BY <1>1 DEF Redeeming
  <1>3. \A k \in Code : GrantOf(k)' = GrantOf(k)
    BY <1>1, <1>2 DEF GrantOf
  <1>4. \A t \in Token : BearerOf(t)' = BearerOf(t) /\ SourceOf(t)' = SourceOf(t)
    BY <1>1 DEF BearerOf, SourceOf
  <1>5. \A d \in Caller : VerdictOf(d)' = VerdictOf(d)
    BY <1>1 DEF VerdictOf
  <1> QED
    BY <1>3, <1>4, <1>5 DEF Flow!vars, SourceOf

LEMMA NextSeen ==
  ASSUME IInv, IInv', [Next]_vars
  PROVE  [Flow!Next]_Flow!vars
  <1>1. CASE Register \/ Tick \/ UNCHANGED vars BY <1>1, UnseenStep
  <1>2. CASE Restart BY <1>2, RestartSeen DEF Flow!Next
  <1>3. ASSUME NEW c \in Caller, Submit(c) PROVE Flow!Next BY <1>3, SubmitSeen DEF Flow!Next
  <1>4. ASSUME NEW c \in Caller, StoreCode(c) PROVE Flow!Next BY <1>4, StoreCodeSeen DEF Flow!Next
  <1>5. ASSUME NEW c \in Caller, TakeCode(c) PROVE Flow!Next BY <1>5, TakeCodeSeen DEF Flow!Next
  <1>6. ASSUME NEW c \in Caller, Passes(c) PROVE Flow!Next BY <1>6, PassesSeen DEF Flow!Next
  <1>7. ASSUME NEW c \in Caller, Fails(c) \/ Aborts(c) PROVE Flow!Next
    BY <1>7, EndSeen DEF Flow!Next
  <1>8. ASSUME NEW c \in Caller, StoreToken(c) PROVE Flow!Next
    BY <1>8, StoreTokenSeen DEF Flow!Next
  <1>9. ASSUME NEW c \in Caller, Guard(c) PROVE Flow!Next BY <1>9, GuardSeen DEF Flow!Next
  <1>10. ASSUME NEW c \in Caller, Judge(c) PROVE Flow!Next BY <1>10, JudgeSeen DEF Flow!Next
  <1> QED
    BY <1>1, <1>2, <1>3, <1>4, <1>5, <1>6, <1>7, <1>8, <1>9, <1>10 DEF Next

LEMMA InitSeen == Init => Flow!Init
  <1> SUFFICES ASSUME Init PROVE Flow!Init
    OBVIOUS
  <1>1. \A c \in Caller : req[c].pc = "idle"
    BY IdleIsRequest DEF Init
  <1>2. \A k \in Code : GrantOf(k) = "none"
    BY DEF Init, GrantOf
  <1>3. \A t \in Token : BearerOf(t) = "none" /\ SourceOf(t) = None
    BY DEF Init, BearerOf, SourceOf
  <1>4. \A c \in Caller : VerdictOf(c) = None
    BY <1>1 DEF VerdictOf
  <1> QED
    BY <1>2, <1>3, <1>4 DEF Flow!Init, SourceOf

\* The flow, with its requests in flight, its sweeps and its restarts, keeps the promise of
\* Grants: an approved code is redeemed at most once and only a good token is accepted.
THEOREM Refinement == Spec => ImplementsGrants
  <1>1. Init => Flow!Init
    BY InitSeen
  <1>2. IInv /\ IInv' /\ [Next]_vars => [Flow!Next]_Flow!vars
    BY NextSeen
  <1> QED
    BY <1>1, <1>2, Invariance, PTL DEF Spec, ImplementsGrants, Flow!Spec
=============================================================================
