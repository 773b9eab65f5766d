--------------------------- MODULE SessionsProofs ---------------------------
(***************************************************************************)
(* Theorems about Sessions, for every set of sessions and requests, every   *)
(* keep-alive and every retention.                                          *)
(*                                                                          *)
(* The invariant says that a row is what was last touched, that a missing   *)
(* row was deleted, swept in time or never written, that an id being stored *)
(* for the first time is known to nobody, and that a handshake about to be  *)
(* replayed has its row unless the session was deleted in between.          *)
(***************************************************************************)
EXTENDS Sessions, TLAPS

\* A request that stores a handshake has an id nothing else knows.
StoresAreFirst ==
    \A c \in Caller : req[c].pc = "store" =>
        /\ req[c].session \in Session
        /\ last_seen[req[c].session] = None
        /\ touched[req[c].session] = None
        /\ used[req[c].session] = None
        /\ \A d \in Caller : req[d].pc = "store" /\ req[d].session = req[c].session => d = c

\* Every other request names an id its client was given.
RequestsNameKnown ==
    \A c \in Caller : req[c].pc \notin {"idle", "store"} =>
        req[c].session \in Session /\ used[req[c].session] # None

RowsAsTouched ==
    \A s \in Session :
        /\ last_seen[s] # None => last_seen[s] = touched[s]
        /\ s \in deleted => used[s] # None
        /\ last_seen[s] = None /\ touched[s] # None /\ s \notin deleted =>
              touched[s] + Retention <= now

AbsentStaysAbsent ==
    \A c \in Caller : req[c].pc = "not_found" =>
        req[c].session \in deleted \/ last_seen[req[c].session] = None

ReplaysHaveRows ==
    /\ \A c \in Caller : req[c].pc = "restore" =>
          req[c].session \in deleted \/ last_seen[req[c].session] # None
    /\ ~up => \A c \in Caller : req[c].pc = "idle"

Forgotten == \A s \in deleted \ raced : last_seen[s] = None /\ ~Reviving(s)

IInv ==
    /\ TypeOK
    /\ StoresAreFirst
    /\ RequestsNameKnown
    /\ RowsAsTouched
    /\ AbsentStaysAbsent
    /\ ReplaysHaveRows
    /\ Forgotten

-----------------------------------------------------------------------------
Pc == {"idle", "store", "load", "restore", "delete", "served", "not_found"}

LEMMA RequestFields ==
  /\ \A pc \in Pc, s \in Session \cup {None} : [pc |-> pc, session |-> s] \in Request
  /\ \A r \in Request : r.pc \in Pc /\ r.session \in Session \cup {None}
  /\ Idle \in Request /\ Idle.pc = "idle"
  BY DEF Request, Pc, Idle

LEMMA Clock ==
  /\ \A t \in Time : t \in Int /\ t # None
  /\ Retention \in Int /\ Start \in Time /\ MaxTime \in Int
  /\ \A t \in Time : t < MaxTime => t + 1 \in Time
  /\ None \notin Session
  <1>1. Retention \in Nat /\ Start \in Nat /\ MaxTime \in Nat /\ Start <= MaxTime
    BY SessionsAssumption
  <1>2. \A t \in Time : t # None
    BY SessionsAssumption DEF Time
  <1> QED
    BY <1>1, <1>2, SessionsAssumption DEF Time

-----------------------------------------------------------------------------
(***************************************************************************)
(* Requests that leave the table alone.                                     *)
(***************************************************************************)
SameRows ==
    /\ last_seen' = last_seen /\ touched' = touched
    /\ deleted' = deleted /\ raced' = raced

\* Nobody is storing the session for the first time, except perhaps the request itself.
NotStoring(c, s) == \A d \in Caller \ {c} : ~(req[d].pc = "store" /\ req[d].session = s)

LEMMA RequestMoves ==
  ASSUME IInv, NEW c \in Caller, NEW pc \in Pc, NEW s \in Session \cup {None},
         pc # "restore", Becomes(c, pc, s), SameRows, now' = now, up' = up, up,
         resident' \in [Session -> Time \cup {None}],
         \/ used' = used
         \/ s \in Session /\ used' = [used EXCEPT ![s] = now] /\ NotStoring(c, s) /\ pc # "store",
         pc = "store" => /\ s \in Session /\ last_seen[s] = None /\ touched[s] = None
                         /\ used[s] = None /\ NotStoring(c, s),
         pc \notin {"idle", "store"} => s \in Session /\ used'[s] # None,
         pc = "not_found" => last_seen[s] = None
  PROVE  IInv'
  <1> DEFINE r == [pc |-> pc, session |-> s]
  <1>1. r \in Request /\ r.pc = pc /\ r.session = s
    BY RequestFields
  <1>2. req' = [req EXCEPT ![c] = r]
    BY DEF Becomes
  <1> HIDE DEF r
  <1>3. req'[c] = r /\ \A d \in Caller \ {c} : req'[d] = req[d]
    BY <1>2 DEF IInv, TypeOK
  <1>4. used' \in [Session -> Time \cup {None}]
    BY DEF IInv, TypeOK
  <1>5. TypeOK'
    BY <1>1, <1>2, <1>4 DEF IInv, TypeOK, SameRows
  <1>6. \A x \in Session : used[x] # None => used'[x] # None
    BY Clock DEF IInv, TypeOK
  <1>7. \A d \in Caller \ {c} : req[d].pc = "store" => used'[req[d].session] = None
    BY DEF IInv, TypeOK, StoresAreFirst, NotStoring
  <1>8. StoresAreFirst'
    BY <1>1, <1>3, <1>7 DEF IInv, StoresAreFirst, SameRows, NotStoring
  <1>9. RequestsNameKnown'
    BY <1>1, <1>3, <1>6 DEF IInv, RequestsNameKnown
  <1>10. RowsAsTouched'
    BY <1>6 DEF IInv, RowsAsTouched, SameRows
  <1>11. AbsentStaysAbsent'
    BY <1>1, <1>3 DEF IInv, AbsentStaysAbsent, SameRows
  <1>12. ReplaysHaveRows'
    BY <1>1, <1>3 DEF IInv, ReplaysHaveRows, SameRows
  <1>13. Forgotten'
    BY <1>1, <1>3 DEF IInv, Forgotten, Reviving, SameRows
  <1> QED
    BY <1>5, <1>8, <1>9, <1>10, <1>11, <1>12, <1>13 DEF IInv

\* Who names a known session is not in the way of one that is being stored.
LEMMA KnownIsStored ==
  ASSUME IInv, NEW c \in Caller, NEW s \in Session, used[s] # None
  PROVE  NotStoring(c, s)
  BY DEF NotStoring, IInv, StoresAreFirst

\* A request on a known session is served, as soon as its own row work is done.
LEMMA ServedStep ==
  ASSUME IInv, NEW c \in Caller, NEW s \in Session, Serves(c, s), NotStoring(c, s),
         SameRows, now' = now, up' = up, up
  PROVE  IInv'
  <1>1. /\ Becomes(c, "served", s)
        /\ resident' = [resident EXCEPT ![s] = now]
        /\ used' = [used EXCEPT ![s] = now]
    BY DEF Serves
  <1>2. used'[s] # None /\ resident' \in [Session -> Time \cup {None}]
    BY <1>1, Clock DEF IInv, TypeOK
  <1>3. "served" \in Pc
    BY DEF Pc
  <1> QED
    BY <1>1, <1>2, <1>3, RequestMoves

LEMMA IdledStep ==
  ASSUME IInv, NEW c \in Caller, Becomes(c, "idle", None), SameRows, now' = now, up' = up, up,
         resident' = resident, used' = used
  PROVE  IInv'
  <1>1. "idle" \in Pc /\ resident' \in [Session -> Time \cup {None}]
    BY DEF Pc, IInv, TypeOK
  <1> QED
    BY <1>1, RequestMoves

LEMMA QuietSteps ==
  ASSUME IInv, NEW c \in Caller,
         \/ Initialize(c) \/ StoreFails(c) \/ Serve(c) \/ Misses(c)
         \/ NotFound(c) \/ Close(c) \/ Aborts(c)
  PROVE  IInv'
  <1>1. /\ SameRows /\ now' = now /\ up' = up /\ up
    BY DEF Initialize, StoreFails, Serve, Misses, NotFound, Close, Aborts, SameRows, At
  <1>2. CASE Initialize(c)
    <2>1. PICK s \in Session : /\ Fresh(s)
                               /\ Becomes(c, "store", s)
                               /\ resident' = [resident EXCEPT ![s] = now]
      BY <1>2 DEF Initialize
    <2>2. used' = used /\ resident' \in [Session -> Time \cup {None}] /\ "store" \in Pc
      BY <1>2, <2>1 DEF Initialize, IInv, TypeOK, Pc
    <2>3. last_seen[s] = None /\ touched[s] = None /\ used[s] = None /\ NotStoring(c, s)
      BY <2>1 DEF Fresh, NotStoring
    <2> QED
      BY <1>1, <2>1, <2>2, <2>3, RequestMoves
  <1>3. CASE StoreFails(c)
    <2>1. req[c].session \in Session /\ NotStoring(c, req[c].session)
      BY <1>3 DEF StoreFails, At, IInv, StoresAreFirst, NotStoring
    <2>2. CASE Serves(c, req[c].session)
      BY <1>1, <2>1, <2>2, ServedStep
    <2>3. CASE Becomes(c, "idle", None) /\ UNCHANGED <<resident, used>>
      BY <1>1, <2>3, IdledStep
    <2> QED
      BY <1>3, <2>2, <2>3 DEF StoreFails
  <1>4. CASE Serve(c)
    BY <1>1, <1>4, KnownIsStored, ServedStep DEF Serve, Known
  <1>5. CASE Misses(c)
    <2>1. PICK s \in Session : used[s] # None /\ Becomes(c, "load", s)
      BY <1>5 DEF Misses, Known
    <2>2. used' = used /\ resident' \in [Session -> Time \cup {None}] /\ "load" \in Pc
      BY <1>5 DEF Misses, IInv, TypeOK, Pc
    <2> QED
      BY <1>1, <2>1, <2>2, RequestMoves
  <1>6. CASE NotFound(c)
    <2>1. PICK s \in Session : s = req[c].session /\ used[s] # None
      BY <1>6 DEF NotFound, At, IInv, RequestsNameKnown
    <2>2. Becomes(c, "not_found", s) /\ last_seen[s] = None
      BY <1>6, <2>1 DEF NotFound, Loads
    <2>3. used' = used /\ resident' \in [Session -> Time \cup {None}] /\ "not_found" \in Pc
      BY <1>6 DEF NotFound, IInv, TypeOK, Pc
    <2> QED
      BY <1>1, <2>1, <2>2, <2>3, RequestMoves
  <1>7. CASE Close(c)
    <2>1. PICK s \in Session : /\ used[s] # None
                               /\ resident' = [resident EXCEPT ![s] = None]
                               /\ Becomes(c, "delete", s)
      BY <1>7 DEF Close, Known
    <2>2. used' = used /\ resident' \in [Session -> Time \cup {None}] /\ "delete" \in Pc
      BY <1>7, <2>1 DEF Close, IInv, TypeOK, Pc
    <2> QED
      BY <1>1, <2>1, <2>2, RequestMoves
  <1>8. CASE Aborts(c)
    BY <1>1, <1>8, IdledStep DEF Aborts
  <1> QED
    BY <1>2, <1>3, <1>4, <1>5, <1>6, <1>7, <1>8

-----------------------------------------------------------------------------
(***************************************************************************)
(* Steps that write the table.                                              *)
(***************************************************************************)
\* What a request becomes when it stops storing: others are as they were.
LEMMA BecomesKnown ==
  ASSUME IInv, NEW c \in Caller, NEW pc \in Pc \ {"store"}, NEW s \in Session, Becomes(c, pc, s)
  PROVE  /\ req' \in [Caller -> Request]
         /\ req'[c].pc = pc /\ req'[c].session = s
         /\ \A d \in Caller \ {c} : req'[d] = req[d]
  <1> DEFINE r == [pc |-> pc, session |-> s]
  <1>1. r \in Request /\ r.pc = pc /\ r.session = s
    BY RequestFields
  <1>2. req' = [req EXCEPT ![c] = r]
    BY DEF Becomes
  <1> HIDE DEF r
  <1> QED
    BY <1>1, <1>2 DEF IInv, TypeOK

\* The row is written for the first time, and only then does the client get the id.
LEMMA StoreStep ==
  ASSUME IInv, NEW c \in Caller, Store(c)
  PROVE  IInv'
  <1>1. PICK s \in Session : s = req[c].session
    BY DEF Store, At, IInv, StoresAreFirst
  <1>2. /\ last_seen' = [last_seen EXCEPT ![s] = now]
        /\ touched' = [touched EXCEPT ![s] = now]
        /\ used' = [used EXCEPT ![s] = now]
        /\ resident' = [resident EXCEPT ![s] = now]
        /\ Becomes(c, "served", s)
        /\ up /\ up' = up /\ now' = now /\ deleted' = deleted /\ raced' = raced
    BY <1>1 DEF Store, At, Saves, Serves
  <1>3. req[c].pc = "store" /\ used[s] = None
        /\ \A d \in Caller \ {c} : ~(req[d].pc = "store" /\ req[d].session = s)
    BY <1>1 DEF Store, At, IInv, StoresAreFirst
  <1>4. /\ req' \in [Caller -> Request]
        /\ req'[c].pc = "served" /\ req'[c].session = s
        /\ \A d \in Caller \ {c} : req'[d] = req[d]
    BY <1>2, BecomesKnown DEF Pc
  <1>5. now \in Time /\ now # None
    BY Clock DEF IInv, TypeOK
  <1>6. /\ last_seen'[s] = now /\ touched'[s] = now /\ used'[s] = now
        /\ \A x \in Session \ {s} : /\ last_seen'[x] = last_seen[x] /\ touched'[x] = touched[x]
                                    /\ used'[x] = used[x]
    BY <1>2 DEF IInv, TypeOK
  <1>7. TypeOK'
    BY <1>2, <1>4, <1>5 DEF IInv, TypeOK
  <1>8. StoresAreFirst'
    BY <1>3, <1>4, <1>6 DEF IInv, StoresAreFirst
  <1>9. RequestsNameKnown'
    BY <1>4, <1>5, <1>6 DEF IInv, RequestsNameKnown
  <1>10. RowsAsTouched'
    <2>1. s \notin deleted
      BY <1>3 DEF IInv, RowsAsTouched
    <2> QED
      BY <2>1, <1>2, <1>5, <1>6 DEF IInv, RowsAsTouched
  <1>11. AbsentStaysAbsent'
    <2>1. SUFFICES ASSUME NEW d \in Caller \ {c}, req[d].pc = "not_found",
                          req[d].session \notin deleted
                   PROVE  last_seen'[req[d].session] = None
      BY <1>2, <1>4 DEF AbsentStaysAbsent
    <2>2. req[d].session \in Session \ {s}
      BY <2>1, <1>3 DEF IInv, RequestsNameKnown
    <2> QED
      BY <2>1, <2>2, <1>6 DEF IInv, AbsentStaysAbsent
  <1>12. ReplaysHaveRows'
    BY <1>2, <1>4, <1>5, <1>6 DEF IInv, ReplaysHaveRows, RequestsNameKnown
  <1>13. Forgotten'
    <2>1. s \notin deleted
      BY <1>3 DEF IInv, RowsAsTouched
    <2> QED
      BY <2>1, <1>2, <1>4, <1>6 DEF IInv, TypeOK, Forgotten, Reviving
  <1> QED
    BY <1>7, <1>8, <1>9, <1>10, <1>11, <1>12, <1>13 DEF IInv

\* A handshake that is replayed is stored again, or not.
LEMMA RestoreStep ==
  ASSUME IInv, NEW c \in Caller, Restore(c)
  PROVE  IInv'
  <1>1. PICK s \in Session : s = req[c].session /\ used[s] # None
    BY DEF Restore, At, IInv, RequestsNameKnown
  <1>2. /\ Serves(c, s) /\ req[c].pc = "restore"
        /\ up /\ up' = up /\ now' = now /\ deleted' = deleted /\ raced' = raced
        /\ Saves(s) \/ UNCHANGED <<last_seen, touched>>
    BY <1>1 DEF Restore, At
  <1>3. CASE UNCHANGED <<last_seen, touched>>
    <2>1. SameRows /\ NotStoring(c, s)
      BY <1>1, <1>2, <1>3, KnownIsStored DEF SameRows
    <2> QED
      BY <1>2, <2>1, ServedStep
  <1>4. CASE Saves(s)
    <2>1. /\ last_seen' = [last_seen EXCEPT ![s] = now]
          /\ touched' = [touched EXCEPT ![s] = now]
          /\ used' = [used EXCEPT ![s] = now]
          /\ resident' = [resident EXCEPT ![s] = now]
          /\ Becomes(c, "served", s)
      BY <1>2, <1>4 DEF Saves, Serves
    <2>2. /\ req' \in [Caller -> Request]
          /\ req'[c].pc = "served" /\ req'[c].session = s
          /\ \A d \in Caller \ {c} : req'[d] = req[d]
      BY <2>1, BecomesKnown DEF Pc
    <2>3. now \in Time /\ now # None
      BY Clock DEF IInv, TypeOK
    <2>4. /\ last_seen'[s] = now /\ touched'[s] = now /\ used'[s] = now
          /\ \A x \in Session \ {s} : /\ last_seen'[x] = last_seen[x]
                                      /\ touched'[x] = touched[x] /\ used'[x] = used[x]
      BY <2>1 DEF IInv, TypeOK
    <2>5. TypeOK'
      BY <1>2, <2>1, <2>2, <2>3 DEF IInv, TypeOK
    <2>6. \A d \in Caller : req[d].pc = "store" => req[d].session \in Session \ {s}
      BY <1>1 DEF IInv, StoresAreFirst
    <2>7. StoresAreFirst'
      BY <2>2, <2>4, <2>6 DEF IInv, StoresAreFirst
    <2>8. RequestsNameKnown'
      BY <1>1, <2>2, <2>3, <2>4 DEF IInv, RequestsNameKnown
    <2>9. RowsAsTouched'
      BY <1>2, <2>3, <2>4 DEF IInv, RowsAsTouched
    <2>10. s \in deleted \/ last_seen[s] # None
      BY <1>1, <1>2 DEF IInv, ReplaysHaveRows
    <2>11. AbsentStaysAbsent'
      <3>1. SUFFICES ASSUME NEW d \in Caller \ {c}, req[d].pc = "not_found",
                            req[d].session \notin deleted
                     PROVE  last_seen'[req[d].session] = None
        BY <1>2, <2>2 DEF AbsentStaysAbsent
      <3>2. req[d].session \in Session \ {s} /\ last_seen[req[d].session] = None
        BY <2>10, <3>1 DEF IInv, RequestsNameKnown, AbsentStaysAbsent
      <3> QED
        BY <3>2, <2>4
    <2>12. ReplaysHaveRows'
      BY <1>2, <2>2, <2>3, <2>4 DEF IInv, ReplaysHaveRows, RequestsNameKnown
    <2>13. s \notin deleted \ raced
      BY <1>1, <1>2 DEF IInv, Forgotten, Reviving
    <2>14. Forgotten'
      BY <1>2, <2>2, <2>4, <2>13 DEF IInv, TypeOK, Forgotten, Reviving
    <2> QED
      BY <2>5, <2>7, <2>8, <2>9, <2>11, <2>12, <2>14 DEF IInv
  <1> QED
    BY <1>2, <1>3, <1>4

\* A row that is read is touched, and no row comes out of nothing.
LEMMA LoadStep ==
  ASSUME IInv, NEW c \in Caller, Load(c)
  PROVE  IInv'
  <1>1. PICK s \in Session : s = req[c].session /\ used[s] # None
    BY DEF Load, At, IInv, RequestsNameKnown
  <1>2. /\ last_seen[s] # None
        /\ last_seen' = [last_seen EXCEPT ![s] = now]
        /\ touched' = [touched EXCEPT ![s] = now]
        /\ Becomes(c, "restore", s)
        /\ up /\ up' = up /\ now' = now /\ used' = used /\ resident' = resident
        /\ deleted' = deleted /\ raced' = raced
    BY <1>1 DEF Load, At, Loads, Touched
  <1>3. /\ req' \in [Caller -> Request]
        /\ req'[c].pc = "restore" /\ req'[c].session = s
        /\ \A d \in Caller \ {c} : req'[d] = req[d]
    BY <1>2, BecomesKnown DEF Pc
  <1>4. now \in Time /\ now # None
    BY Clock DEF IInv, TypeOK
  <1>5. /\ last_seen'[s] = now /\ touched'[s] = now
        /\ \A x \in Session \ {s} : last_seen'[x] = last_seen[x] /\ touched'[x] = touched[x]
    BY <1>2 DEF IInv, TypeOK
  <1>6. TypeOK'
    BY <1>2, <1>3, <1>4 DEF IInv, TypeOK
  <1>7. \A d \in Caller : req[d].pc = "store" => req[d].session \in Session \ {s}
    BY <1>1 DEF IInv, StoresAreFirst
  <1>8. StoresAreFirst'
    BY <1>2, <1>3, <1>5, <1>7 DEF IInv, StoresAreFirst
  <1>9. RequestsNameKnown'
    BY <1>1, <1>2, <1>3 DEF IInv, RequestsNameKnown
  <1>10. RowsAsTouched'
    BY <1>2, <1>4, <1>5 DEF IInv, RowsAsTouched
  <1>11. AbsentStaysAbsent'
    <2>1. SUFFICES ASSUME NEW d \in Caller \ {c}, req[d].pc = "not_found",
                          req[d].session \notin deleted
                   PROVE  last_seen'[req[d].session] = None
      BY <1>2, <1>3 DEF AbsentStaysAbsent
    <2>2. req[d].session \in Session /\ last_seen[req[d].session] = None
      BY <2>1 DEF IInv, RequestsNameKnown, AbsentStaysAbsent
    <2> QED
      BY <2>2, <1>2, <1>5
  <1>12. ReplaysHaveRows'
    BY <1>2, <1>3, <1>4, <1>5 DEF IInv, ReplaysHaveRows, RequestsNameKnown
  <1>13. Forgotten'
    BY <1>2, <1>3, <1>5 DEF IInv, TypeOK, Forgotten, Reviving
  <1> QED
    BY <1>6, <1>8, <1>9, <1>10, <1>11, <1>12, <1>13 DEF IInv

LEMMA DeleteStep ==
  ASSUME IInv, NEW c \in Caller, Delete(c)
  PROVE  IInv'
  <1>1. PICK s \in Session : s = req[c].session /\ used[s] # None
    BY DEF Delete, At, IInv, RequestsNameKnown
  <1>2. /\ last_seen' = [last_seen EXCEPT ![s] = None]
        /\ deleted' = deleted \cup {s}
        /\ Becomes(c, "served", s)
        /\ raced' = IF Reviving(s) THEN raced \cup {s} ELSE raced \ {s}
        /\ up /\ up' = up /\ now' = now /\ touched' = touched /\ used' = used
        /\ resident' = resident
    BY <1>1 DEF Delete, At
  <1>3. /\ req' \in [Caller -> Request]
        /\ req'[c].pc = "served" /\ req'[c].session = s
        /\ \A d \in Caller \ {c} : req'[d] = req[d]
    BY <1>2, BecomesKnown DEF Pc
  <1>4. \A x \in Session : last_seen'[x] = IF x = s THEN None ELSE last_seen[x]
    BY <1>2 DEF IInv, TypeOK
  <1>5. TypeOK'
    BY <1>2, <1>3 DEF IInv, TypeOK
  <1>6. StoresAreFirst'
    BY <1>2, <1>3, <1>4 DEF IInv, StoresAreFirst
  <1>7. RequestsNameKnown'
    BY <1>1, <1>2, <1>3 DEF IInv, RequestsNameKnown
  <1>8. RowsAsTouched'
    BY <1>1, <1>2, <1>4 DEF IInv, RowsAsTouched
  <1>9. AbsentStaysAbsent'
    <2>1. SUFFICES ASSUME NEW d \in Caller \ {c}, req[d].pc = "not_found",
                          req[d].session \notin deleted
                   PROVE  last_seen'[req[d].session] = None
      BY <1>2, <1>3 DEF AbsentStaysAbsent
    <2>2. req[d].session \in Session /\ last_seen[req[d].session] = None
      BY <2>1 DEF IInv, RequestsNameKnown, AbsentStaysAbsent
    <2> QED
      BY <2>2, <1>4
  <1>10. ReplaysHaveRows'
    BY <1>2, <1>3, <1>4 DEF IInv, ReplaysHaveRows, RequestsNameKnown
  <1>11. \A x \in Session : Reviving(x)' => Reviving(x)
    BY <1>3 DEF Reviving
  <1>12. Forgotten'
    BY <1>2, <1>4, <1>5, <1>11 DEF IInv, TypeOK, Forgotten
  <1> QED
    BY <1>5, <1>6, <1>7, <1>8, <1>9, <1>10, <1>12 DEF IInv

\* The sweep takes only what nobody touched for the retention.
LEMMA RestartStep ==
  ASSUME IInv, Restart
  PROVE  IInv'
  <1>1. /\ up' = TRUE /\ resident' = resident /\ now' = now /\ req' = req /\ touched' = touched
        /\ used' = used /\ deleted' = deleted /\ raced' = raced
        /\ \A c \in Caller : req[c].pc = "idle"
    BY DEF Restart, IInv, ReplaysHaveRows
  <1>2. /\ last_seen' \in [Session -> Time \cup {None}]
        /\ \A s \in Session : \/ last_seen'[s] = last_seen[s]
                              \/ last_seen'[s] = None /\ Overdue(s)
    BY DEF Restart, IInv, TypeOK
  <1>3. \A s \in Session : Overdue(s) => touched[s] + Retention <= now
    <2>1. SUFFICES ASSUME NEW s \in Session, Overdue(s) PROVE touched[s] + Retention <= now
      OBVIOUS
    <2>2. touched[s] \in Time /\ touched[s] <= now - Retention
      BY <2>1 DEF Overdue, IInv, TypeOK, RowsAsTouched
    <2> QED
      BY <2>2, Clock DEF IInv, TypeOK
  <1>4. TypeOK'
    BY <1>1, <1>2 DEF IInv, TypeOK
  <1>5. StoresAreFirst' /\ RequestsNameKnown'
    BY <1>1, <1>2 DEF IInv, StoresAreFirst, RequestsNameKnown
  <1>6. RowsAsTouched'
    BY <1>1, <1>2, <1>3 DEF IInv, RowsAsTouched
  <1>7. AbsentStaysAbsent'
    BY <1>1, <1>2 DEF IInv, AbsentStaysAbsent, RequestsNameKnown
  <1>8. ReplaysHaveRows'
    BY <1>1 DEF ReplaysHaveRows
  <1>9. Forgotten'
    BY <1>1, <1>2 DEF IInv, TypeOK, Forgotten, Reviving
  <1> QED
    BY <1>4, <1>5, <1>6, <1>7, <1>8, <1>9 DEF IInv

-----------------------------------------------------------------------------
(***************************************************************************)
(* Idleness, crashes and time.                                              *)
(***************************************************************************)
LEMMA CrashStep ==
  ASSUME IInv, Crash
  PROVE  IInv'
  <1>1. /\ SameRows /\ now' = now /\ used' = used /\ up' = FALSE
        /\ req' \in [Caller -> Request]
        /\ resident' \in [Session -> Time \cup {None}]
        /\ \A c \in Caller : req'[c].pc = "idle"
    BY RequestFields DEF Crash, SameRows
  <1>2. TypeOK'
    BY <1>1 DEF IInv, TypeOK, SameRows
  <1>3. StoresAreFirst' /\ RequestsNameKnown' /\ AbsentStaysAbsent'
    BY <1>1 DEF StoresAreFirst, RequestsNameKnown, AbsentStaysAbsent
  <1>4. RowsAsTouched'
    BY <1>1 DEF IInv, RowsAsTouched, SameRows
  <1>5. ReplaysHaveRows' /\ Forgotten'
    BY <1>1 DEF IInv, ReplaysHaveRows, Forgotten, Reviving, SameRows
  <1> QED
    BY <1>2, <1>3, <1>4, <1>5 DEF IInv

LEMMA PassiveStep ==
  ASSUME IInv, Tick \/ (\E s \in Session : Evict(s)) \/ UNCHANGED vars
  PROVE  IInv'
  <1>1. SameRows /\ used' = used /\ up' = up /\ req' = req
    BY DEF Tick, Evict, vars, SameRows
  <1>2. resident' \in [Session -> Time \cup {None}]
    BY DEF Tick, Evict, vars, IInv, TypeOK
  <1>3. now' \in Time /\ now <= now'
    BY Clock DEF Tick, Evict, vars, IInv, TypeOK
  <1>4. TypeOK'
    BY <1>1, <1>2, <1>3 DEF IInv, TypeOK, SameRows
  <1>5. StoresAreFirst' /\ RequestsNameKnown' /\ AbsentStaysAbsent'
    BY <1>1 DEF IInv, StoresAreFirst, RequestsNameKnown, AbsentStaysAbsent, SameRows
  <1>6. \A s \in Session : touched[s] # None /\ touched[s] + Retention <= now =>
           touched[s] + Retention <= now'
    BY <1>3, Clock DEF IInv, TypeOK
  <1>7. RowsAsTouched'
    BY <1>1, <1>6 DEF IInv, RowsAsTouched, SameRows
  <1>8. ReplaysHaveRows' /\ Forgotten'
    BY <1>1 DEF IInv, ReplaysHaveRows, Forgotten, Reviving, SameRows
  <1> QED
    BY <1>4, <1>5, <1>7, <1>8 DEF IInv

-----------------------------------------------------------------------------
(***************************************************************************)
(* The theorems.                                                            *)
(***************************************************************************)
LEMMA InitInv == Init => IInv
  <1> SUFFICES ASSUME Init PROVE IInv
    OBVIOUS
  <1>1. \A c \in Caller : req[c].pc = "idle"
    BY RequestFields DEF Init
  <1>2. TypeOK
    BY RequestFields, Clock DEF Init, TypeOK
  <1> QED
    BY <1>1, <1>2 DEF Init, IInv, StoresAreFirst, RequestsNameKnown, RowsAsTouched,
                      AbsentStaysAbsent, ReplaysHaveRows, Forgotten, Reviving

LEMMA NextInv ==
  ASSUME IInv, [Next]_vars
  PROVE  IInv'
  <1>1. CASE Tick \/ (\E s \in Session : Evict(s)) \/ UNCHANGED vars BY <1>1, PassiveStep
  <1>2. CASE Crash BY <1>2, CrashStep
  <1>3. CASE Restart BY <1>3, RestartStep
  <1>4. ASSUME NEW c \in Caller, Store(c) PROVE IInv' BY <1>4, StoreStep
  <1>5. ASSUME NEW c \in Caller, Load(c) PROVE IInv' BY <1>5, LoadStep
  <1>6. ASSUME NEW c \in Caller, Delete(c) PROVE IInv' BY <1>6, DeleteStep
  <1>7. ASSUME NEW c \in Caller, Restore(c) PROVE IInv' BY <1>7, RestoreStep
  <1>8. ASSUME NEW c \in Caller,
               \/ Initialize(c) \/ StoreFails(c) \/ Serve(c) \/ Misses(c)
               \/ NotFound(c) \/ Close(c) \/ Aborts(c)
        PROVE  IInv'
    BY <1>8, QuietSteps
  <1> QED
    BY <1>1, <1>2, <1>3, <1>4, <1>5, <1>6, <1>7, <1>8 DEF Next

\* The invariant that carries the theorems below.
THEOREM Invariance == Spec => []IInv
  <1>1. Init => IInv
    BY InitInv
  <1>2. IInv /\ [Next]_vars => IInv'
    BY NextInv
  <1> QED
    BY <1>1, <1>2, PTL DEF Spec

\* Every table, worker, request and history stays within its type.
THEOREM TypeCorrect == Spec => []TypeOK
  <1>1. IInv => TypeOK
    BY DEF IInv
  <1> QED
    BY <1>1, Invariance, PTL

\* A stored session is answered 404 only if its client deleted it, or nobody opened or
\* revived it for the retention (sessions.rs:3-10, store.rs:201-242).
THEOREM SessionsLast == Spec => []GoneOnlyIfForgotten
  <1>1. IInv => GoneOnlyIfForgotten
    BY DEF IInv, GoneOnlyIfForgotten, Told404, AbsentStaysAbsent, RowsAsTouched
  <1> QED
    BY <1>1, Invariance, PTL

\* The row of a deleted session is not written again, unless by a request that had loaded the
\* handshake before the DELETE and replays it afterwards: loads and replays both write rows,
\* and only the row's absence keeps them from it (store.rs:185-224).
THEOREM DeletedForGood == Spec => DeletedStaysForgotten
  <1>1. IInv /\ IInv' /\ [Next]_vars => [\A s \in deleted \ raced : last_seen'[s] = None]_vars
    <2>1. SUFFICES ASSUME IInv, IInv', [Next]_vars
                   PROVE  \A s \in deleted \ raced : last_seen'[s] = None
      OBVIOUS
    <2>2. deleted \ raced \subseteq deleted' \ raced'
      <3>1. CASE Crash \/ Restart \/ Tick \/ (\E x \in Session : Evict(x)) \/ UNCHANGED vars
        BY <3>1 DEF Crash, Restart, Tick, Evict, vars
      <3>2. ASSUME NEW c \in Caller,
                   \/ Initialize(c) \/ Store(c) \/ StoreFails(c) \/ Serve(c) \/ Misses(c)
                   \/ Load(c) \/ NotFound(c) \/ Restore(c) \/ Close(c) \/ Aborts(c)
            PROVE  deleted' = deleted /\ raced' = raced
        BY <3>2 DEF Initialize, Store, StoreFails, Serve, Misses, Load, NotFound, Restore,
                    Close, Aborts
      <3>3. ASSUME NEW c \in Caller, Delete(c) PROVE deleted \ raced \subseteq deleted' \ raced'
        BY <2>1, <3>3 DEF Delete, IInv, Forgotten
      <3> QED
        BY <2>1, <3>1, <3>2, <3>3 DEF Next
    <2> QED
      BY <2>1, <2>2 DEF IInv, Forgotten
  <1> QED
    BY <1>1, Invariance, PTL DEF Spec, DeletedStaysForgotten
=============================================================================
