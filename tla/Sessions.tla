------------------------------ MODULE Sessions ------------------------------
(***************************************************************************)
(* A session id that outlives the worker behind it: sessions.rs over the    *)
(* sessions table of store.rs, as the transport of the SDK drives it, and   *)
(* the sweep main.rs runs at startup.                                       *)
(*                                                                          *)
(* The transport is not part of the repository. It is modelled from how the *)
(* repository says it behaves: it stores the handshake when a session is    *)
(* opened, loads it when a request names a session that is not in memory,   *)
(* deletes it on DELETE, answers 404 when the store knows nothing, and      *)
(* drops a session that has had no request for the keep-alive time. Reviving *)
(* a session replays its handshake, which is then stored again.             *)
(*                                                                          *)
(* Each statement on the database is atomic and durable. What is in memory  *)
(* is lost when the process dies.                                           *)
(***************************************************************************)
EXTENDS Integers

CONSTANTS
    Session,       \* session ids that may be drawn
    Caller,        \* requests in flight
    KeepAlive,     \* LOCAL_MCP_SESSION_KEEP_ALIVE, in ticks
    Retention,     \* LOCAL_MCP_SESSION_RETENTION, in ticks
    Start,         \* the clock at the first start
    MaxTime,       \* bound: the last tick of the clock
    None           \* no row, no worker, no time

ASSUME SessionsAssumption ==
    /\ {KeepAlive, Retention, Start, MaxTime} \subseteq Nat
    /\ Retention <= Start /\ Start <= MaxTime
    /\ None \notin Session \cup Start .. MaxTime

VARIABLES
    up,            \* whether the process runs
    last_seen,     \* the sessions table: session -> last_seen of its row, or None
    resident,      \* session -> when the worker in memory last had a request, or None
    now,           \* SystemTime::now()
    req,           \* caller -> the request it is in
    touched,       \* history: session -> when it was last opened or revived
    used,          \* history: session -> when its client was last served on it
    deleted,       \* history: the sessions whose DELETE went through
    raced          \* history: those of which, at the last DELETE, a request had loaded the
                   \* handshake that it was still to replay

vars == <<up, last_seen, resident, now, req, touched, used, deleted, raced>>

-----------------------------------------------------------------------------
Time == Start .. MaxTime

\* A finished request keeps what its client was told until the next request.
Request == [pc : {"idle", "store", "load", "restore", "delete", "served", "not_found"},
            session : Session \cup {None}]

Idle == [pc |-> "idle", session |-> None]

Init ==
    /\ up = TRUE
    /\ last_seen = [s \in Session |-> None]
    /\ resident = [s \in Session |-> None]
    /\ now = Start
    /\ req = [c \in Caller |-> Idle]
    /\ touched = [s \in Session |-> None]
    /\ used = [s \in Session |-> None]
    /\ deleted = {}
    /\ raced = {}

Free(c) == req[c].pc \in {"idle", "served", "not_found"}

At(c, pc) == up /\ req[c].pc = pc

Becomes(c, pc, s) == req' = [req EXCEPT ![c] = [pc |-> pc, session |-> s]]

\* Nothing has drawn the id yet.
Fresh(s) ==
    /\ last_seen[s] = None /\ resident[s] = None /\ touched[s] = None /\ used[s] = None
    /\ \A c \in Caller : req[c].session # s

\* The client has the id and may send it.
Known(s) == used[s] # None

\* The client is served on its session, which its worker takes note of.
Serves(c, s) ==
    /\ Becomes(c, "served", s)
    /\ resident' = [resident EXCEPT ![s] = now]
    /\ used' = [used EXCEPT ![s] = now]

-----------------------------------------------------------------------------
(***************************************************************************)
(* The handshake.                                                           *)
(***************************************************************************)
\* A worker for a new session: its handshake is about to be stored.
Initialize(c) ==
    /\ up /\ Free(c)
    /\ \E s \in Session :
          /\ Fresh(s)
          /\ Becomes(c, "store", s)
          /\ resident' = [resident EXCEPT ![s] = now]
    /\ UNCHANGED <<up, last_seen, now, touched, used, deleted, raced>>

\* save_session, which reads the clock with the lock held: INSERT ... ON CONFLICT DO UPDATE
\* leaves one row, whether there was one or not.
Saves(s) ==
    /\ last_seen' = [last_seen EXCEPT ![s] = now]
    /\ touched' = [touched EXCEPT ![s] = now]

\* The handshake is stored; then the client gets the id.
Store(c) ==
    /\ At(c, "store")
    /\ Saves(req[c].session)
    /\ Serves(c, req[c].session)
    /\ UNCHANGED <<up, now, deleted, raced>>

\* The handshake could not be stored. Whether its client hears of it is up to the SDK.
StoreFails(c) ==
    /\ At(c, "store")
    /\ \/ Serves(c, req[c].session)
       \/ Becomes(c, "idle", None) /\ UNCHANGED <<resident, used>>
    /\ UNCHANGED <<up, last_seen, now, touched, deleted, raced>>

-----------------------------------------------------------------------------
(***************************************************************************)
(* A request on a session.                                                  *)
(***************************************************************************)
\* The worker is in memory: the request does not reach the store.
Serve(c) ==
    /\ up /\ Free(c)
    /\ \E s \in Session :
          /\ Known(s) /\ resident[s] # None
          /\ Serves(c, s)
    /\ UNCHANGED <<up, last_seen, now, touched, deleted, raced>>

Misses(c) ==
    /\ up /\ Free(c)
    /\ \E s \in Session :
          /\ Known(s) /\ resident[s] = None
          /\ Becomes(c, "load", s)
    /\ UNCHANGED <<up, last_seen, resident, now, touched, used, deleted, raced>>

\* load_session as a plain SELECT.
ReadOnly(s) == last_seen

\* The row keeps when the session runs out, as the rows of tokens and codes do.
StoresExpiry(s) == [last_seen EXCEPT ![s] = now + Retention]

\* UPDATE ... RETURNING: reading the row also touches it.
Touched(s) == [last_seen EXCEPT ![s] = now]

\* load_session as an upsert, which has a row to return for any id.
LoadsAnyway(s) == TRUE

Loads(s) == last_seen[s] # None

\* load finds the handshake, and the SDK replays it in a later step.
Load(c) ==
    /\ At(c, "load")
    /\ LET s == req[c].session
       IN  /\ Loads(s)
           /\ last_seen' = Touched(s)
           /\ touched' = [touched EXCEPT ![s] = now]
           /\ Becomes(c, "restore", s)
    /\ UNCHANGED <<up, resident, now, used, deleted, raced>>

\* load finds no row: absent rather than an error, and the transport answers 404.
NotFound(c) ==
    /\ At(c, "load")
    /\ ~Loads(req[c].session)
    /\ Becomes(c, "not_found", req[c].session)
    /\ UNCHANGED <<up, last_seen, resident, now, touched, used, deleted, raced>>

\* The worker is built again, and the request served on the id it had. The replayed
\* handshake is a successful one, which the transport stores like the first, or fails to.
Restore(c) ==
    /\ At(c, "restore")
    /\ Serves(c, req[c].session)
    /\ Saves(req[c].session) \/ UNCHANGED <<last_seen, touched>>
    /\ UNCHANGED <<up, now, deleted, raced>>

-----------------------------------------------------------------------------
(***************************************************************************)
(* DELETE, idleness, failures and time.                                     *)
(***************************************************************************)
\* The worker goes first, the row in a later step.
Close(c) ==
    /\ up /\ Free(c)
    /\ \E s \in Session :
          /\ Known(s)
          /\ resident' = [resident EXCEPT ![s] = None]
          /\ Becomes(c, "delete", s)
    /\ UNCHANGED <<up, last_seen, now, touched, used, deleted, raced>>

\* A request is about to replay the handshake of the session.
Reviving(s) == \E c \in Caller : req[c].pc = "restore" /\ req[c].session = s

Delete(c) ==
    /\ At(c, "delete")
    /\ LET s == req[c].session
       IN  /\ last_seen' = [last_seen EXCEPT ![s] = None]
           /\ deleted' = deleted \cup {s}
           /\ raced' = IF Reviving(s) THEN raced \cup {s} ELSE raced \ {s}
           /\ Becomes(c, "served", s)
    /\ UNCHANGED <<up, resident, now, touched, used>>

\* The database refuses a load or a delete, which is an error and not a 404; or the client
\* goes away.
Aborts(c) ==
    /\ up
    /\ req[c].pc \in {"load", "restore", "delete"}
    /\ Becomes(c, "idle", None)
    /\ UNCHANGED <<up, last_seen, resident, now, touched, used, deleted, raced>>

\* No request for the keep-alive time.
Evict(s) ==
    /\ up
    /\ resident[s] # None /\ resident[s] + KeepAlive <= now
    /\ \A c \in Caller : ~(req[c].pc = "store" /\ req[c].session = s)
    /\ resident' = [resident EXCEPT ![s] = None]
    /\ UNCHANGED <<up, last_seen, now, req, touched, used, deleted, raced>>

Crash ==
    /\ up
    /\ up' = FALSE
    /\ resident' = [s \in Session |-> None]
    /\ req' = [c \in Caller |-> Idle]
    /\ UNCHANGED <<last_seen, now, touched, used, deleted, raced>>

\* last_seen <= cutoff.
Overdue(s) == last_seen[s] # None /\ last_seen[s] <= now - Retention

\* main: the sweep, before the listener is bound. A sweep that fails is logged, no more.
Restart ==
    /\ ~up
    /\ up' = TRUE
    /\ last_seen' \in {last_seen,
                       [s \in Session |-> IF Overdue(s) THEN None ELSE last_seen[s]]}
    /\ UNCHANGED <<resident, now, req, touched, used, deleted, raced>>

Tick ==
    /\ now < MaxTime
    /\ now' = now + 1
    /\ UNCHANGED <<up, last_seen, resident, req, touched, used, deleted, raced>>

Next ==
    \/ Crash \/ Restart \/ Tick
    \/ \E s \in Session : Evict(s)
    \/ \E c \in Caller :
          \/ Initialize(c) \/ Store(c) \/ StoreFails(c) \/ Serve(c) \/ Misses(c) \/ Load(c)
          \/ NotFound(c) \/ Restore(c) \/ Close(c) \/ Delete(c) \/ Aborts(c)

Spec == Init /\ [][Next]_vars

-----------------------------------------------------------------------------
(***************************************************************************)
(* Properties.                                                              *)
(***************************************************************************)
\* Every table, worker, request and history stays within its type.
TypeOK ==
    /\ up \in BOOLEAN
    /\ last_seen \in [Session -> Time \cup {None}]
    /\ resident \in [Session -> Time \cup {None}]
    /\ now \in Time
    /\ req \in [Caller -> Request]
    /\ touched \in [Session -> Time \cup {None}]
    /\ used \in [Session -> Time \cup {None}]
    /\ deleted \subseteq Session /\ raced \subseteq Session

Told404(s) == \E c \in Caller : req[c].pc = "not_found" /\ req[c].session = s

\* A client hears 404 on a stored session only if it deleted the session, or nobody had
\* opened or revived it for the whole retention: neither idleness nor a crash, a restart, a
\* failing database or another client's request costs it the session (sessions.rs:3-10,
\* store.rs:201-242).
GoneOnlyIfForgotten ==
    \A s \in Session : Told404(s) /\ touched[s] # None /\ s \notin deleted =>
        touched[s] + Retention <= now

\* A client that sent DELETE and then retries does not bring the session back: nothing that
\* begins after the DELETE, on whichever request, writes its row again, although every load
\* and every revival writes (store.rs:201-224, 319). Only a request that had loaded the
\* handshake before the DELETE and replays it afterwards does.
DeletedStaysForgotten ==
    [][\A s \in deleted \ raced : last_seen'[s] = None]_vars

\* What the configuration says of the retention (config.rs:32-34, README.md:83): a session
\* id stays revivable for that long after it was last used.
RevivableAfterUse ==
    \A s \in Session : Told404(s) /\ touched[s] # None /\ s \notin deleted =>
        used[s] + Retention <= now
=============================================================================
