-------------------------------- MODULE Jobs --------------------------------
(***************************************************************************)
(* The job table of exec_ops.rs, shared by every session, under concurrent  *)
(* execute, start_command, poll_job and stop_job calls.                     *)
(*                                                                          *)
(* A job is three things that live on different schedules: its entry in the *)
(* table (a JobState behind its own locks), the task that waits for the     *)
(* child and records how it ended, and the process group the shell leads.   *)
(* Callers run in parallel threads, so every lock section and every await   *)
(* is a step of its own.                                                    *)
(*                                                                          *)
(* Not here: the output buffer and the pumps (JobOutput.tla).               *)
(***************************************************************************)
EXTENDS Integers

CONSTANTS
    JobId,         \* the ids Uuid::new_v4 may draw: bounds the jobs ever started
    Caller,        \* tool calls in flight at once
    Pid,           \* the process ids the kernel hands out, and hands out again
    Retention,     \* LOCAL_MCP_JOB_RETENTION, in ticks
    Timeout,       \* LOCAL_MCP_COMMAND_TIMEOUT, in ticks
    NoJob,         \* no job: a call that has not got one
    NoPid,         \* no process: an id not drawn yet
    Nothing        \* what a caller with no answer has heard

ASSUME JobsAssumption ==
    /\ Retention \in Nat
    /\ Timeout \in Nat
    /\ NoJob \notin JobId
    /\ NoPid \notin Pid

VARIABLES
    table,         \* the keys of Jobs.inner
    state,         \* job id -> the JobState fields that outlive a call
    waiter,        \* job id -> where the task that owns the child stands
    proc,          \* job id -> its process group, as the kernel sees it
    req,           \* caller -> the tool call it is in
    known          \* history: the ids that answers to clients have carried

vars == <<table, state, waiter, proc, req, known>>

-----------------------------------------------------------------------------
Unfinished == -1   \* finished_at is None

\* "Ended" stands for Exited(_) and Signalled. age is finished_at.elapsed(), which
\* reap only compares with Retention: it stops growing there.
JobState == [status : {"Running", "Ended"}, done : BOOLEAN,
             age : Unfinished .. Retention, pid : Pid \cup {NoPid}]

\* The waiter's await and the three statements after it.
WaiterStep == {"unborn", "wait", "status", "finished_at", "send", "over"}

\* The shell, and whether anything it started in its group is still alive.
Group == [leader : {"unborn", "running", "zombie", "reaped"}, brood : BOOLEAN]

Op == {"execute", "start_command", "poll_job", "stop_job"}

Answer == {"started", "running", "finished", "still running", "gone",
           "stopped", "unsignalled", "already finished", "none"}

Pc == {"idle", "spawn", "insert", "get", "subscribe", "waiting", "drain", "snapshot",
       "check", "signal"}

\* left is what remains of execute's timeout. The answer to a call, and the job it was
\* about, stay with an idle caller until it calls again.
Request == [pc : Pc, op : Op \cup {"none"}, job : JobId \cup {NoJob}, left : 0 .. Timeout,
            answer : Answer]

Answered(j, answer) ==
    [pc |-> "idle", op |-> "none", job |-> j, left |-> 0, answer |-> answer]

Begun(pc, op, j) == [pc |-> pc, op |-> op, job |-> j, left |-> 0, answer |-> "none"]

Idle == Answered(NoJob, "none")

Init ==
    /\ table = {}
    /\ state = [j \in JobId |-> [status |-> "Running", done |-> FALSE,
                                 age |-> Unfinished, pid |-> NoPid]]
    /\ waiter = [j \in JobId |-> "unborn"]
    /\ proc = [j \in JobId |-> [leader |-> "unborn", brood |-> FALSE]]
    /\ req = [c \in Caller |-> Idle]
    /\ known = {}

-----------------------------------------------------------------------------
(***************************************************************************)
(* Helpers.                                                                 *)
(***************************************************************************)
\* Processes of the group, a zombie leader included, keep its id from reuse.
Present(j) == proc[j].leader \in {"running", "zombie"} \/ proc[j].brood

FreePids == {p \in Pid : \A j \in JobId : Present(j) => state[j].pid # p}

\* process_group(0) makes the shell's pid the id of a group of its own.
InGroup(j, pid) == Present(j) /\ state[j].pid = pid

At(c, pc) == req[c].pc = pc

\* A subscribed receiver lives from subscribe to the end of wait.
Receivers(j) == {c \in Caller : req[c].pc \in {"waiting", "drain"} /\ req[c].job = j}

Goto(c, pc) == req' = [req EXCEPT ![c].pc = pc]

Reply(c, answer) ==
    req' = [req EXCEPT ![c] = Answered(req[c].job, answer)]

\* The answers that carry the id: a client can name a job only by one of these.
ReplyWithId(c, answer) == Reply(c, answer) /\ known' = known \cup {req[c].job}

-----------------------------------------------------------------------------
(***************************************************************************)
(* start: reap, spawn, insert.                                              *)
(***************************************************************************)
\* reap judged by the status rather than by how long ago the job finished.
ExpiredOnceEnded == {j \in table : state[j].status = "Ended"}

Expired == {j \in table : state[j].age = Retention}

\* The first statement of start: drop what finished Retention ago.
StartBegin(c) ==
    /\ At(c, "idle")
    /\ \E op \in {"execute", "start_command"} :
          req' = [req EXCEPT ![c] = Begun("spawn", op, NoJob)]
    /\ table' = table \ Expired
    /\ UNCHANGED <<state, waiter, proc, known>>

\* The child exists, and its waiter is running, before the table knows the job.
Spawn(c) ==
    /\ At(c, "spawn")
    /\ \E j \in JobId, p \in FreePids :
          /\ waiter[j] = "unborn"
          /\ state' = [state EXCEPT ![j].pid = p]
          /\ proc' = [proc EXCEPT ![j].leader = "running"]
          /\ waiter' = [waiter EXCEPT ![j] = "wait"]
          /\ req' = [req EXCEPT ![c] = Begun("insert", req[c].op, j)]
    /\ UNCHANGED <<table, known>>

\* sh could not be spawned: the error goes back, nothing was recorded.
SpawnFails(c) ==
    /\ At(c, "spawn")
    /\ req' = [req EXCEPT ![c] = Idle]
    /\ UNCHANGED <<table, state, waiter, proc, known>>

\* start_command answers with the id; execute goes on to wait for the job.
Insert(c) ==
    /\ At(c, "insert")
    /\ table' = table \cup {req[c].job}
    /\ \/ /\ req[c].op = "start_command"
          /\ ReplyWithId(c, "started")
       \/ /\ req[c].op = "execute"
          /\ Goto(c, "get")
          /\ UNCHANGED known
    /\ UNCHANGED <<state, waiter, proc>>

-----------------------------------------------------------------------------
(***************************************************************************)
(* The handle: wait, poll and stop all begin with get, and keep the entry   *)
(* they were given even if the table drops it meanwhile.                    *)
(***************************************************************************)
NamesJob(c) ==
    /\ At(c, "idle")
    /\ \E j \in JobId, op \in {"poll_job", "stop_job"} :
          /\ j \in known
          /\ req' = [req EXCEPT ![c] = Begun("get", op, j)]
    /\ UNCHANGED <<table, state, waiter, proc, known>>

NextAfterGet == [execute |-> "subscribe", poll_job |-> "snapshot", stop_job |-> "check"]

Get(c) ==
    /\ At(c, "get")
    /\ \/ /\ req[c].job \in table
          /\ Goto(c, NextAfterGet[req[c].op])
       \/ /\ req[c].job \notin table
          /\ Reply(c, "gone")
    /\ UNCHANGED <<table, state, waiter, proc, known>>

-----------------------------------------------------------------------------
(***************************************************************************)
(* wait: subscribe, wait for done or the timeout, sleep 20ms, snapshot.     *)
(***************************************************************************)
Subscribe(c) ==
    /\ At(c, "subscribe")
    /\ req' = [req EXCEPT ![c].pc = "waiting", ![c].left = Timeout]
    /\ UNCHANGED <<table, state, waiter, proc, known>>

\* wait_for looks at the current value first, then at every change.
WaitDone(c) ==
    /\ At(c, "waiting")
    /\ state[req[c].job].done
    /\ Goto(c, "drain")
    /\ UNCHANGED <<table, state, waiter, proc, known>>

\* A wait with no deadline.
TimesOutNever(c) == FALSE

\* timeout polls the wait before the clock, but the command may end between the two.
TimesOut(c) == req[c].left = 0

WaitTimeout(c) ==
    /\ At(c, "waiting")
    /\ TimesOut(c)
    /\ ReplyWithId(c, "still running")
    /\ UNCHANGED <<table, state, waiter, proc>>

\* The flag read in place of the status.
ReportedByDone(j) == IF state[j].done THEN "finished" ELSE "running"

\* What a snapshot's status is worded as.
Reported(j) == IF state[j].status = "Running" THEN "running" ELSE "finished"

DrainSnapshot(c) ==
    /\ At(c, "drain")
    /\ Reply(c, Reported(req[c].job))
    /\ UNCHANGED <<table, state, waiter, proc, known>>

\* The client went away: the call is dropped where it awaits, the job goes on.
GiveUp(c) ==
    /\ req[c].pc \in {"waiting", "drain"}
    /\ req' = [req EXCEPT ![c] = Idle]
    /\ UNCHANGED <<table, state, waiter, proc, known>>

-----------------------------------------------------------------------------
(***************************************************************************)
(* poll and stop.                                                           *)
(***************************************************************************)
PollSnapshot(c) ==
    /\ At(c, "snapshot")
    /\ Reply(c, Reported(req[c].job))
    /\ UNCHANGED <<table, state, waiter, proc, known>>

StopCheck(c) ==
    /\ At(c, "check")
    /\ \/ /\ state[req[c].job].status = "Running"
          /\ Goto(c, "signal")
       \/ /\ state[req[c].job].status # "Running"
          /\ Reply(c, "already finished")
    /\ UNCHANGED <<table, state, waiter, proc, known>>

\* kill(pid): the shell dies, what it started does not.
KilledShellOnly(group) ==
    [leader |-> IF group.leader = "running" THEN "zombie" ELSE group.leader,
     brood |-> group.brood]

\* SIGKILL to every process of a group.
Killed(group) ==
    [leader |-> IF group.leader = "running" THEN "zombie" ELSE group.leader,
     brood |-> FALSE]

\* The server's own group instead of the job's: process_group(0) left out.
SignalledEverywhere(pid) == {j \in JobId : Present(j)}

\* Negative pid: the group whose id it is, whichever job's that is by now.
Signalled(pid) == {j \in JobId : InGroup(j, pid)}

StopKill(c) ==
    /\ At(c, "signal")
    /\ LET hit == Signalled(state[req[c].job].pid)
       IN  /\ proc' = [j \in JobId |-> IF j \in hit THEN Killed(proc[j]) ELSE proc[j]]
           /\ Reply(c, IF hit = {} THEN "unsignalled" ELSE "stopped")
    /\ UNCHANGED <<table, state, waiter, known>>

-----------------------------------------------------------------------------
(***************************************************************************)
(* The processes, and time.                                                 *)
(***************************************************************************)
LeaderForks(j) ==
    /\ proc[j].leader = "running"
    /\ proc' = [proc EXCEPT ![j].brood = TRUE]
    /\ UNCHANGED <<table, state, waiter, req, known>>

LeaderExits(j) ==
    /\ proc[j].leader = "running"
    /\ proc' = [proc EXCEPT ![j].leader = "zombie"]
    /\ UNCHANGED <<table, state, waiter, req, known>>

BroodExits(j) ==
    /\ proc[j].brood
    /\ proc' = [proc EXCEPT ![j].brood = FALSE]
    /\ UNCHANGED <<table, state, waiter, req, known>>

\* A countdown that does not stop at zero.
Overrun(left) == left - 1

Sooner(left) == IF left > 0 THEN left - 1 ELSE 0

Older(age) == IF age \in 0 .. Retention - 1 THEN age + 1 ELSE age

Tick ==
    /\ state' = [j \in JobId |-> [state[j] EXCEPT !.age = Older(@)]]
    /\ req' = [c \in Caller |-> [req[c] EXCEPT !.left = Sooner(@)]]
    /\ UNCHANGED <<table, waiter, proc, known>>

-----------------------------------------------------------------------------
(***************************************************************************)
(* The waiter task.                                                         *)
(***************************************************************************)
\* child.wait() collects the zombie; from here the kernel may reuse the pid.
\* done is signalled as soon as wait returns, ahead of the status.
ReapsAndSends(j) ==
    /\ waiter[j] = "wait"
    /\ proc[j].leader = "zombie"
    /\ proc' = [proc EXCEPT ![j].leader = "reaped"]
    /\ waiter' = [waiter EXCEPT ![j] = "status"]
    /\ state' = [state EXCEPT ![j].done = Receivers(j) # {}]
    /\ UNCHANGED <<table, req, known>>

Reaps(j) ==
    /\ waiter[j] = "wait"
    /\ proc[j].leader = "zombie"
    /\ proc' = [proc EXCEPT ![j].leader = "reaped"]
    /\ waiter' = [waiter EXCEPT ![j] = "status"]
    /\ UNCHANGED <<table, state, req, known>>

\* The task returns early, before finished_at and done.
QuitsAfterStatus(j) ==
    /\ waiter[j] = "status"
    /\ state' = [state EXCEPT ![j].status = "Ended"]
    /\ waiter' = [waiter EXCEPT ![j] = "over"]
    /\ UNCHANGED <<table, proc, req, known>>

SetsStatus(j) ==
    /\ waiter[j] = "status"
    /\ state' = [state EXCEPT ![j].status = "Ended"]
    /\ waiter' = [waiter EXCEPT ![j] = "finished_at"]
    /\ UNCHANGED <<table, proc, req, known>>

SetsFinishedAt(j) ==
    /\ waiter[j] = "finished_at"
    /\ state' = [state EXCEPT ![j].age = 0]
    /\ waiter' = [waiter EXCEPT ![j] = "send"]
    /\ UNCHANGED <<table, proc, req, known>>

\* watch::Sender::send stores the value only if some receiver is subscribed.
SendsDone(j) ==
    /\ waiter[j] = "send"
    /\ state' = [state EXCEPT ![j].done = @ \/ Receivers(j) # {}]
    /\ waiter' = [waiter EXCEPT ![j] = "over"]
    /\ UNCHANGED <<table, proc, req, known>>

-----------------------------------------------------------------------------
\* The steps a call takes of itself once it has begun.
CallStep(c) ==
    \/ Spawn(c) \/ SpawnFails(c) \/ Insert(c) \/ Get(c)
    \/ Subscribe(c) \/ WaitDone(c) \/ WaitTimeout(c) \/ DrainSnapshot(c)
    \/ PollSnapshot(c) \/ StopCheck(c) \/ StopKill(c)

WaiterTask(j) == Reaps(j) \/ SetsStatus(j) \/ SetsFinishedAt(j) \/ SendsDone(j)

Processes(j) == LeaderForks(j) \/ LeaderExits(j) \/ BroodExits(j)

Next ==
    \/ \E c \in Caller : StartBegin(c) \/ NamesJob(c) \/ GiveUp(c) \/ CallStep(c)
    \/ \E j \in JobId : WaiterTask(j) \/ Processes(j)
    \/ Tick

\* The runtime polls every ready task, and time passes. Commands need never end.
Fairness ==
    /\ \A c \in Caller : WF_vars(CallStep(c))
    /\ \A j \in JobId : WF_vars(WaiterTask(j))
    /\ WF_vars(Tick)

SafetySpec == Init /\ [][Next]_vars

Spec == SafetySpec /\ Fairness

-----------------------------------------------------------------------------
(***************************************************************************)
(* Properties.                                                              *)
(***************************************************************************)
\* Every variable stays within its type: ids, pids, timers and answers in range.
TypeOK ==
    /\ table \subseteq JobId
    /\ state \in [JobId -> JobState]
    /\ waiter \in [JobId -> WaiterStep]
    /\ proc \in [JobId -> Group]
    /\ req \in [Caller -> Request]
    /\ known \subseteq JobId

\* An id that was handed out resolves until Retention has passed since the job
\* finished: whatever else was started, polled or stopped, reap only drops jobs whose
\* shell is gone and whose time is up (exec_ops.rs:82-94, README LOCAL_MCP_JOB_RETENTION).
KnownIdResolves ==
    \A j \in known \ table :
        proc[j].leader = "reaped" /\ state[j].age = Retention

Dead(j) == proc[j].leader # "running" /\ ~proc[j].brood

\* Once stop_job has said it stopped a job, or that there was nothing to signal, neither
\* the shell nor anything left in its group is alive (exec_ops.rs:121-122, 218-219).
StoppedMeansDead ==
    \A c \in Caller : req[c].answer \in {"stopped", "unsignalled"} => Dead(req[c].job)

\* An execute that saw done snapshots a status already set: it can never answer that
\* the job it waited for is running (the order of exec_ops.rs:158-169 and 186-197).
DoneMeansEnded == \A c \in Caller : At(c, "drain") => state[req[c].job].status = "Ended"

\* A stop that hits a group other than its own job's does so only when the shell was
\* reaped after the status was read as Running: with the shell still there the pid cannot
\* have been reused (exec_ops.rs:207-219).
StraysOnlyAfterReap ==
    [][\A c \in Caller : At(c, "signal") /\ req'[c].pc = "idle" =>
          \A j \in JobId \ {req[c].job} :
              proc'[j] # proc[j] => proc[req[c].job].leader = "reaped"]_vars

\* The comment on JobState.done (exec_ops.rs:35): "Flips to true exactly once, so a
\* waiter that arrives late still sees it."
LateWaiterSeesDone ==
    \A c \in Caller : At(c, "waiting") /\ waiter[req[c].job] = "over" =>
        state[req[c].job].done

\* The tool's description (server.rs:325): "Kill a background job and everything it
\* spawned." After a stop_job call on a job, nothing of its group is left.
StopLeavesNothing ==
    \A c \in Caller : req[c].answer \in {"stopped", "unsignalled", "already finished"} =>
        Dead(req[c].job)

\* An execute that waits is answered, whatever its command does: the timeout covers even
\* the done that was never stored (exec_ops.rs:181-198).
ExecuteAnswers == \A c \in Caller : At(c, "waiting") ~> At(c, "idle")

\* A stopped job settles: its status is set and its retention starts running, so that
\* it can be polled and is one day forgotten (exec_ops.rs:157-170, 219).
StoppedJobSettles ==
    \A c \in Caller, j \in JobId : req[c].answer = "stopped" /\ req[c].job = j ~>
        state[j].status = "Ended" /\ state[j].age # Unfinished

-----------------------------------------------------------------------------
(***************************************************************************)
(* Refinement: the table, the statuses and the inserts still under way are  *)
(* one page of JobLedger per job.                                           *)
(***************************************************************************)
Inserting(j) == \E c \in Caller : At(c, "insert") /\ req[c].job = j

Page(j) ==
    IF j \in table
    THEN IF state[j].status = "Running" THEN "running" ELSE "finished"
    ELSE IF waiter[j] = "unborn" \/ Inserting(j) THEN "unknown" ELSE "forgotten"

Heard(c) ==
    IF req[c].answer = "none" THEN Nothing
    ELSE [job |-> req[c].job, answer |-> req[c].answer]

Ledger == INSTANCE JobLedger WITH ledger <- [j \in JobId |-> Page(j)],
                                  heard <- [c \in Caller |-> Heard(c)]

\* The table keeps the ledger's promise: pages only move forward, a running job is never
\* forgotten, and every answer is one its page allows when it is given.
ImplementsLedger == Ledger!Spec
=============================================================================
