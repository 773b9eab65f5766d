----------------------------- MODULE JobsProofs -----------------------------
(***************************************************************************)
(* Theorems about Jobs, for every set of ids, callers and pids and every    *)
(* retention and timeout.                                                   *)
(*                                                                          *)
(* One inductive invariant carries them all. It says where each piece of a  *)
(* job's state stands relative to the waiter task that writes it, who may   *)
(* hold a job that is still being inserted, and that living process groups  *)
(* have distinct ids.                                                       *)
(***************************************************************************)
EXTENDS Jobs, TLAPS

\* A call past spawn has a job that exists, and the answer it ends with is about one.
Engaged(c) == req[c].pc \notin {"idle", "spawn"} \/ req[c].answer # "none"

CallsHoldJobs ==
    \A c \in Caller :
        /\ Engaged(c) => req[c].job \in JobId /\ waiter[req[c].job] # "unborn"
        /\ req[c].pc = "get" => req[c].op \in {"execute", "poll_job", "stop_job"}
        /\ req[c].pc \in {"spawn", "insert"} => req[c].op \in {"execute", "start_command"}
        /\ req[c].pc # "idle" => req[c].answer = "none"

\* Until the insert, the caller that spawned a job is the only one to hold it.
InsertsArePrivate ==
    \A c \in Caller : req[c].pc = "insert" =>
        /\ req[c].job \notin table
        /\ req[c].job \notin known
        /\ \A d \in Caller \ {c} : Engaged(d) => req[d].job # req[c].job

\* The waiter's position dates everything it writes.
Recorded(j) ==
    /\ waiter[j] = "unborn" <=> proc[j].leader = "unborn"
    /\ waiter[j] \in {"status", "finished_at", "send", "over"} <=> proc[j].leader = "reaped"
    /\ waiter[j] \in {"finished_at", "send", "over"} <=> state[j].status = "Ended"
    /\ waiter[j] \in {"send", "over"} <=> state[j].age # Unfinished
    /\ state[j].done => waiter[j] = "over"

Unborn(j) == waiter[j] = "unborn" => j \notin table /\ j \notin known /\ ~proc[j].brood

\* Out of the table, and not on its way in, means dropped by reap.
Dropped(j) ==
    waiter[j] # "unborn" /\ j \notin table /\ ~Inserting(j) => state[j].age = Retention

PidsAreDistinct ==
    \A j, k \in JobId : Present(j) /\ Present(k) /\ j # k => state[j].pid # state[k].pid

DrainsAreDone == \A c \in Caller : At(c, "drain") => state[req[c].job].done

IInv ==
    /\ TypeOK
    /\ CallsHoldJobs
    /\ InsertsArePrivate
    /\ \A j \in JobId : Recorded(j) /\ Unborn(j) /\ Dropped(j)
    /\ PidsAreDistinct
    /\ DrainsAreDone
    /\ StoppedMeansDead

-----------------------------------------------------------------------------
(***************************************************************************)
(* Requests and job states are records: an update of a field stays within   *)
(* the type. Everywhere else the two sets stay unexpanded.                  *)
(***************************************************************************)
LEMMA AnsweredIsRequest ==
  ASSUME NEW j \in JobId \cup {NoJob}, NEW answer \in Answer
  PROVE  /\ Answered(j, answer) \in Request
         /\ Answered(j, answer).pc = "idle"
         /\ Answered(j, answer).job = j
         /\ Answered(j, answer).answer = answer
  BY JobsAssumption DEF Answered, Request, Pc

LEMMA BegunIsRequest ==
  ASSUME NEW pc \in Pc, NEW op \in Op, NEW j \in JobId \cup {NoJob}
  PROVE  /\ Begun(pc, op, j) \in Request
         /\ Begun(pc, op, j).pc = pc
         /\ Begun(pc, op, j).op = op
         /\ Begun(pc, op, j).job = j
         /\ Begun(pc, op, j).answer = "none"
  BY JobsAssumption DEF Begun, Request, Answer

LEMMA PcUpdate ==
  ASSUME NEW r \in Request, NEW pc \in Pc
  PROVE  /\ [r EXCEPT !.pc = pc] \in Request
         /\ [r EXCEPT !.pc = pc].pc = pc
         /\ [r EXCEPT !.pc = pc].op = r.op
         /\ [r EXCEPT !.pc = pc].job = r.job
         /\ [r EXCEPT !.pc = pc].answer = r.answer
  BY DEF Request

LEMMA LeftUpdate ==
  ASSUME NEW r \in Request, NEW left \in 0 .. Timeout
  PROVE  /\ [r EXCEPT !.left = left] \in Request
         /\ [r EXCEPT !.left = left].pc = r.pc
         /\ [r EXCEPT !.left = left].op = r.op
         /\ [r EXCEPT !.left = left].job = r.job
         /\ [r EXCEPT !.left = left].answer = r.answer
  BY DEF Request

LEMMA RequestFields ==
  ASSUME NEW r \in Request
  PROVE  /\ r.pc \in Pc
         /\ r.op \in Op \cup {"none"}
         /\ r.job \in JobId \cup {NoJob}
         /\ r.left \in 0 .. Timeout
         /\ r.answer \in Answer
  BY DEF Request

-----------------------------------------------------------------------------
(***************************************************************************)
(* Calls. A call that is past its insert holds a job that nobody is         *)
(* inserting; most of its steps change its request alone, and such a step   *)
(* is safe if the new request is about a job it may hold.                   *)
(***************************************************************************)
MayHold(j) == /\ j \in JobId
              /\ waiter[j] # "unborn"
              /\ ~Inserting(j)

SameJobs == table' = table /\ state' = state /\ waiter' = waiter /\ proc' = proc

LEMMA CallHolds ==
  ASSUME IInv, NEW c \in Caller, req[c].pc \notin {"idle", "spawn", "insert"}
  PROVE  MayHold(req[c].job)
<1>1. Engaged(c)
  BY DEF Engaged
<1>2. req[c].job \in JobId /\ waiter[req[c].job] # "unborn"
  BY <1>1 DEF IInv, CallsHoldJobs
<1>3. ASSUME NEW d \in Caller, At(d, "insert") PROVE req[d].job # req[c].job
  BY <1>1, <1>3 DEF IInv, InsertsArePrivate, At
<1> QED BY <1>2, <1>3 DEF MayHold, Inserting

LEMMA KnownHolds ==
  ASSUME IInv, NEW j \in known
  PROVE  MayHold(j)
<1>1. j \in JobId /\ waiter[j] # "unborn"
  BY DEF IInv, TypeOK, Unborn
<1>2. ~Inserting(j)
  BY DEF IInv, InsertsArePrivate, Inserting, At
<1> QED BY <1>1, <1>2 DEF MayHold

(***************************************************************************)
(* Every step but start's keeps the table, moves jobs forward and moves     *)
(* calls to jobs they may hold.                                             *)
(***************************************************************************)
JobMove(j) ==
    /\ state'[j].pid = state[j].pid
    /\ state[j].age = Retention => state'[j].age = Retention
    /\ state[j].done => state'[j].done
    /\ waiter'[j] = "unborn" <=> waiter[j] = "unborn"
    /\ Present(j)' => Present(j)
    /\ Dead(j) => Dead(j)'
    /\ Recorded(j)'

SameCall(c) == /\ req'[c].pc = req[c].pc
               /\ req'[c].op = req[c].op
               /\ req'[c].job = req[c].job
               /\ req'[c].answer = req[c].answer

CallMove(c) ==
    /\ req[c].pc # "insert" /\ req'[c].pc \notin {"spawn", "insert"}
    /\ Engaged(c)' => MayHold(req'[c].job)
    /\ req'[c].pc = "get" => req'[c].op \in {"execute", "poll_job", "stop_job"}
    /\ req'[c].pc # "idle" => req'[c].answer = "none"
    /\ req'[c].pc = "drain" => state'[req'[c].job].done
    /\ req'[c].answer \in {"stopped", "unsignalled"} => Dead(req[c].job)'

LEMMA Moves ==
  ASSUME IInv, TypeOK', table' = table,
         \A j \in JobId : JobMove(j),
         \A c \in Caller : SameCall(c) \/ CallMove(c),
         \A j \in known' : MayHold(j)
  PROVE  IInv'
<1>1. \A c \in Caller : req'[c].pc = "insert" <=> req[c].pc = "insert"
  BY DEF SameCall, CallMove
<1>2. ASSUME NEW c \in Caller, req'[c].pc = "insert" PROVE SameCall(c)
  BY <1>2 DEF CallMove
<1>3. \A j \in JobId : Inserting(j)' <=> Inserting(j)
  BY <1>1, <1>2 DEF Inserting, At, SameCall
<1>4. ASSUME NEW c \in Caller, SameCall(c), Engaged(c)
      PROVE  req[c].job \in JobId /\ waiter[req[c].job] # "unborn"
  BY <1>4 DEF IInv, CallsHoldJobs
<1>5. CallsHoldJobs'
  <2> SUFFICES ASSUME NEW c \in Caller
      PROVE  /\ Engaged(c)' => req'[c].job \in JobId /\ waiter'[req'[c].job] # "unborn"
             /\ req'[c].pc = "get" => req'[c].op \in {"execute", "poll_job", "stop_job"}
             /\ req'[c].pc \in {"spawn", "insert"} => req'[c].op \in {"execute", "start_command"}
             /\ req'[c].pc # "idle" => req'[c].answer = "none"
    BY DEF CallsHoldJobs
  <2>1. CASE SameCall(c)
    BY <1>4, <2>1 DEF IInv, CallsHoldJobs, Engaged, SameCall, JobMove
  <2>2. CASE CallMove(c)
    BY <2>2 DEF CallMove, MayHold, JobMove
  <2> QED BY <2>1, <2>2
<1>6. InsertsArePrivate'
  <2> SUFFICES ASSUME NEW c \in Caller, req'[c].pc = "insert"
               PROVE  /\ req'[c].job \notin table'
                      /\ req'[c].job \notin known'
                      /\ \A d \in Caller \ {c} : Engaged(d)' => req'[d].job # req'[c].job
    BY DEF InsertsArePrivate
  <2>1. SameCall(c) /\ req[c].pc = "insert"
    BY <1>1, <1>2
  <2>2. Inserting(req'[c].job)
    BY <2>1 DEF Inserting, At, SameCall
  <2>3. req'[c].job \notin table /\ req'[c].job \notin known'
    BY <2>1, <2>2 DEF IInv, InsertsArePrivate, SameCall, MayHold
  <2>4. ASSUME NEW d \in Caller \ {c}, Engaged(d)' PROVE req'[d].job # req'[c].job
    <3>1. CASE SameCall(d)
      BY <2>1, <2>4, <3>1 DEF IInv, InsertsArePrivate, SameCall, Engaged
    <3>2. CASE CallMove(d)
      BY <2>2, <2>4, <3>2 DEF CallMove, MayHold
    <3> QED BY <3>1, <3>2
  <2> QED BY <2>3, <2>4
<1>7. ASSUME NEW j \in JobId PROVE (Recorded(j) /\ Unborn(j) /\ Dropped(j))'
  <2>1. Recorded(j)' /\ Dropped(j)'
    BY <1>3 DEF IInv, Dropped, JobMove
  <2>2. Unborn(j)'
    BY DEF IInv, Unborn, JobMove, MayHold, Present, Recorded
  <2> QED BY <2>1, <2>2
<1>8. PidsAreDistinct'
  BY DEF IInv, PidsAreDistinct, JobMove
<1>9. DrainsAreDone'
  <2> SUFFICES ASSUME NEW c \in Caller, req'[c].pc = "drain" PROVE state'[req'[c].job].done
    BY DEF DrainsAreDone, At
  <2>1. CASE SameCall(c)
    <3>1. Engaged(c) /\ state[req[c].job].done
      BY <2>1 DEF IInv, DrainsAreDone, At, SameCall, Engaged
    <3> QED BY <1>4, <2>1, <3>1 DEF SameCall, JobMove
  <2>2. CASE CallMove(c)
    BY <2>2 DEF CallMove
  <2> QED BY <2>1, <2>2
<1>10. StoppedMeansDead'
  <2> SUFFICES ASSUME NEW c \in Caller, req'[c].answer \in {"stopped", "unsignalled"}
               PROVE  Dead(req[c].job)'
    BY DEF StoppedMeansDead, Dead
  <2>1. CASE SameCall(c)
    <3>1. Engaged(c) /\ Dead(req[c].job)
      BY <2>1 DEF IInv, StoppedMeansDead, SameCall, Engaged
    <3> QED BY <1>4, <2>1, <3>1 DEF SameCall, JobMove, Dead
  <2>2. CASE CallMove(c)
    BY <2>2 DEF CallMove
  <2> QED BY <2>1, <2>2
<1> QED BY <1>5, <1>6, <1>7, <1>8, <1>9, <1>10 DEF IInv

\* A step of one call that leaves every job as it was.
LEMMA CallMoves ==
  ASSUME IInv, NEW c \in Caller, NEW r \in Request,
         req' = [req EXCEPT ![c] = r],
         SameJobs,
         req[c].pc # "insert", r.pc \notin {"spawn", "insert"},
         r.pc \notin {"idle", "spawn"} \/ r.answer # "none" => MayHold(r.job),
         r.pc = "get" => r.op \in {"execute", "poll_job", "stop_job"},
         r.pc # "idle" => r.answer = "none",
         r.pc = "drain" => state[r.job].done,
         r.answer \in {"stopped", "unsignalled"} => Dead(r.job),
         known' = known \/ (known' = known \cup {r.job} /\ r.answer # "none")
  PROVE  IInv'
<1>1. req'[c] = r /\ \A d \in Caller \ {c} : SameCall(d)
  BY DEF IInv, TypeOK, SameCall
<1>2. \A j \in known' : MayHold(j)
  BY KnownHolds
<1>3. TypeOK'
  BY <1>2 DEF IInv, TypeOK, SameJobs, MayHold
<1>4. ASSUME NEW j \in JobId PROVE JobMove(j)
  BY DEF IInv, JobMove, SameJobs, Present, Dead, Recorded
<1>5. CallMove(c)
  BY <1>1 DEF CallMove, Engaged, SameJobs, Dead
<1> QED BY <1>1, <1>2, <1>3, <1>4, <1>5, Moves DEF SameJobs

\* The calls' steps that leave the table, the jobs and the processes alone.
QuietStep(c) ==
    \/ SpawnFails(c) \/ NamesJob(c) \/ Get(c) \/ Subscribe(c) \/ WaitDone(c) \/ WaitTimeout(c)
    \/ DrainSnapshot(c) \/ GiveUp(c) \/ PollSnapshot(c) \/ StopCheck(c)

LEMMA QuietSteps ==
  ASSUME IInv, NEW c \in Caller, QuietStep(c)
  PROVE  IInv'
<1> DEFINE held == req[c].job
<1>0. req[c] \in Request
  BY DEF IInv, TypeOK
<1>1. ASSUME req' = [req EXCEPT ![c] = Idle], req[c].pc # "insert",
             SameJobs, known' = known
      PROVE  IInv'
  <2>1. /\ Idle \in Request
        /\ Idle.pc = "idle"
        /\ Idle.answer = "none"
    BY AnsweredIsRequest DEF Idle, Answer
  <2> QED BY <1>1, <2>1, CallMoves
<1>2. ASSUME req[c].pc \notin {"idle", "spawn", "insert"},
             NEW answer \in Answer \ {"stopped", "unsignalled", "none"}, Reply(c, answer),
             SameJobs,
             known' = known \/ known' = known \cup {held}
      PROVE  IInv'
  <2>1. MayHold(held)
    BY <1>2, CallHolds
  <2>2. /\ Answered(held, answer) \in Request
        /\ Answered(held, answer).pc = "idle"
        /\ Answered(held, answer).job = held
        /\ Answered(held, answer).answer = answer
    BY <2>1, AnsweredIsRequest DEF MayHold
  <2> QED BY <1>2, <2>1, <2>2, CallMoves DEF Reply
<1>3. ASSUME req[c].pc \notin {"idle", "spawn", "insert"},
             NEW r \in Request, req' = [req EXCEPT ![c] = r],
             r.pc \notin {"idle", "spawn", "insert", "get"},
             r.job = held, r.answer = req[c].answer,
             r.pc = "drain" => state[held].done,
             SameJobs, known' = known
      PROVE  IInv'
  <2>1. MayHold(held) /\ req[c].answer = "none"
    BY <1>3, CallHolds DEF IInv, CallsHoldJobs
  <2> QED BY <1>3, <2>1, CallMoves
<1>4. ASSUME req[c].pc \notin {"idle", "spawn", "insert"},
             NEW pc \in Pc \ {"idle", "spawn", "insert", "get"}, Goto(c, pc),
             pc = "drain" => state[held].done,
             SameJobs, known' = known
      PROVE  IInv'
  <2> DEFINE moved == [req[c] EXCEPT !.pc = pc]
  <2>1. /\ moved \in Request
        /\ moved.pc = pc
        /\ moved.job = held
        /\ moved.answer = req[c].answer
    BY <1>0, PcUpdate
  <2>2. req' = [req EXCEPT ![c] = moved]
    BY <1>4 DEF Goto
  <2> HIDE DEF moved
  <2> QED BY <1>3, <1>4, <2>1, <2>2
<1>5. CASE SpawnFails(c)
  BY <1>1, <1>5 DEF SpawnFails, At, SameJobs
<1>6. CASE NamesJob(c)
  <2>1. PICK j \in known, op \in {"poll_job", "stop_job"} : req' = [req EXCEPT ![c] = Begun("get", op, j)]
    BY <1>6 DEF NamesJob
  <2>2. MayHold(j)
    BY <2>1, KnownHolds
  <2>3. /\ Begun("get", op, j) \in Request
        /\ Begun("get", op, j).pc = "get"
        /\ Begun("get", op, j).op = op
        /\ Begun("get", op, j).job = j
        /\ Begun("get", op, j).answer = "none"
    BY <2>1, <2>2, BegunIsRequest DEF Op, Pc, MayHold
  <2> QED BY <1>6, <2>1, <2>2, <2>3, CallMoves DEF NamesJob, At, SameJobs
<1>7. CASE Get(c)
  <2>1. CASE held \notin table
    BY <1>2, <1>7, <2>1 DEF Get, At, SameJobs, Answer
  <2>2. CASE held \in table
    <3>1. req[c].op \in {"execute", "poll_job", "stop_job"}
      BY <1>7 DEF IInv, CallsHoldJobs, Get, At, SameJobs
    <3>2. NextAfterGet[req[c].op] \in {"subscribe", "snapshot", "check"}
      BY <3>1 DEF NextAfterGet
    <3> QED BY <1>4, <1>7, <2>2, <3>2 DEF Get, At, Pc, SameJobs
  <2> QED BY <2>1, <2>2
<1>8. CASE Subscribe(c)
  <2> DEFINE moved == [req[c] EXCEPT !.pc = "waiting"]
             timed == [moved EXCEPT !.left = Timeout]
  <2>1. /\ moved \in Request
        /\ moved.pc = "waiting"
        /\ moved.job = held
        /\ moved.answer = req[c].answer
    BY <1>0, PcUpdate DEF Pc
  <2>2. /\ timed \in Request
        /\ timed.pc = "waiting"
        /\ timed.job = held
        /\ timed.answer = req[c].answer
    <3> HIDE DEF moved
    <3> QED BY <2>1, LeftUpdate, JobsAssumption
  <2>3. req' = [req EXCEPT ![c] = timed]
    BY <1>0, <1>8 DEF Subscribe
  <2> HIDE DEF timed
  <2> QED BY <1>3, <1>8, <2>2, <2>3 DEF Subscribe, At, SameJobs
<1>9. CASE WaitDone(c)
  BY <1>4, <1>9 DEF WaitDone, At, Pc, SameJobs
<1>10. CASE WaitTimeout(c)
  BY <1>2, <1>10 DEF WaitTimeout, ReplyWithId, Reply, At, SameJobs, Answer
<1>11. CASE DrainSnapshot(c)
  BY <1>2, <1>11 DEF DrainSnapshot, Reported, At, SameJobs, Answer
<1>12. CASE GiveUp(c)
  BY <1>1, <1>12 DEF GiveUp, SameJobs
<1>13. CASE PollSnapshot(c)
  BY <1>2, <1>13 DEF PollSnapshot, Reported, At, SameJobs, Answer
<1>14. CASE StopCheck(c)
  <2>1. CASE Goto(c, "signal")
    BY <1>4, <1>14, <2>1 DEF StopCheck, At, SameJobs, Pc
  <2>2. CASE Reply(c, "already finished")
    BY <1>2, <1>14, <2>2 DEF StopCheck, At, SameJobs, Answer
  <2> QED BY <1>14, <2>1, <2>2 DEF StopCheck, SameJobs
<1> QED BY <1>5, <1>6, <1>7, <1>8, <1>9, <1>10, <1>11, <1>12, <1>13, <1>14 DEF QuietStep

-----------------------------------------------------------------------------
(***************************************************************************)
(* The waiter task and the processes: one job moves, no call does.          *)
(***************************************************************************)
LEMMA StateUpdate ==
  ASSUME NEW s \in JobState
  PROVE  /\ [s EXCEPT !.status = "Ended"] \in JobState
         /\ [s EXCEPT !.age = 0] \in JobState
         /\ [s EXCEPT !.age = Older(@)] \in JobState
         /\ \A b \in BOOLEAN : [s EXCEPT !.done = b] \in JobState
         /\ \A p \in Pid : [s EXCEPT !.pid = p] \in JobState
  BY JobsAssumption DEF JobState, Unfinished, Older

LEMMA JobMoves ==
  ASSUME IInv, NEW i \in JobId,
         NEW s \in JobState, NEW w \in WaiterStep, NEW g \in Group,
         state' = [state EXCEPT ![i] = s],
         waiter' = [waiter EXCEPT ![i] = w],
         proc' = [proc EXCEPT ![i] = g],
         table' = table, req' = req, known' = known,
         JobMove(i)
  PROVE  IInv'
<1>1. ASSUME NEW j \in JobId \ {i}
      PROVE  state'[j] = state[j] /\ waiter'[j] = waiter[j] /\ proc'[j] = proc[j]
  BY DEF IInv, TypeOK
<1>2. ASSUME NEW j \in JobId PROVE JobMove(j)
  BY <1>1 DEF IInv, JobMove, Present, Dead, Recorded
<1>3. TypeOK'
  BY DEF IInv, TypeOK
<1>4. \A c \in Caller : SameCall(c)
  BY DEF SameCall
<1> QED BY <1>2, <1>3, <1>4, KnownHolds, Moves

\* A step of the processes of job i alone.
LEMMA GroupMoves ==
  ASSUME IInv, NEW i \in JobId, NEW g \in Group,
         proc' = [proc EXCEPT ![i] = g],
         UNCHANGED <<table, state, waiter, req, known>>,
         JobMove(i)
  PROVE  IInv'
<1>1. state[i] \in JobState /\ waiter[i] \in WaiterStep
  BY DEF IInv, TypeOK
<1>2. /\ state' = [state EXCEPT ![i] = state[i]]
      /\ waiter' = [waiter EXCEPT ![i] = waiter[i]]
  BY DEF IInv, TypeOK
<1>3. table' = table /\ req' = req /\ known' = known
  OBVIOUS
<1> QED BY <1>1, <1>2, <1>3, JobMoves

\* A step of the waiter task of job i that leaves the processes alone.
LEMMA RecordMoves ==
  ASSUME IInv, NEW i \in JobId, NEW s \in JobState, NEW w \in WaiterStep,
         state' = [state EXCEPT ![i] = s],
         waiter' = [waiter EXCEPT ![i] = w],
         UNCHANGED <<table, proc, req, known>>,
         JobMove(i)
  PROVE  IInv'
<1>1. proc[i] \in Group /\ proc' = [proc EXCEPT ![i] = proc[i]]
  BY DEF IInv, TypeOK
<1>2. table' = table /\ req' = req /\ known' = known
  OBVIOUS
<1> QED BY <1>1, <1>2, JobMoves

LEMMA JobSteps ==
  ASSUME IInv, NEW i \in JobId, WaiterTask(i) \/ Processes(i)
  PROVE  IInv'
<1>1. /\ state[i] \in JobState
      /\ waiter[i] \in WaiterStep
      /\ proc[i] \in Group
      /\ state = [state EXCEPT ![i] = state[i]]
      /\ waiter = [waiter EXCEPT ![i] = waiter[i]]
      /\ proc = [proc EXCEPT ![i] = proc[i]]
      /\ Recorded(i)
  BY DEF IInv, TypeOK
<1> USE DEF JobMove, Present, Dead, Recorded
<1>2. CASE LeaderForks(i)
  <2> DEFINE g == [proc[i] EXCEPT !.brood = TRUE]
  <2>1. g \in Group /\ proc' = [proc EXCEPT ![i] = g]
    BY <1>1, <1>2 DEF LeaderForks, Group
  <2>2. JobMove(i)
    BY <1>1, <1>2 DEF LeaderForks, Group, IInv, TypeOK
  <2> HIDE DEF g, JobMove
  <2>3. UNCHANGED <<table, state, waiter, req, known>>
    BY <1>2 DEF LeaderForks
  <2> QED BY <2>1, <2>2, <2>3, GroupMoves
<1>3. CASE LeaderExits(i)
  <2> DEFINE g == [proc[i] EXCEPT !.leader = "zombie"]
  <2>1. g \in Group /\ proc' = [proc EXCEPT ![i] = g]
    BY <1>1, <1>3 DEF LeaderExits, Group
  <2>2. JobMove(i)
    BY <1>1, <1>3 DEF LeaderExits, Group, IInv, TypeOK
  <2> HIDE DEF g, JobMove
  <2>3. UNCHANGED <<table, state, waiter, req, known>>
    BY <1>3 DEF LeaderExits
  <2> QED BY <2>1, <2>2, <2>3, GroupMoves
<1>4. CASE BroodExits(i)
  <2> DEFINE g == [proc[i] EXCEPT !.brood = FALSE]
  <2>1. g \in Group /\ proc' = [proc EXCEPT ![i] = g]
    BY <1>1, <1>4 DEF BroodExits, Group
  <2>2. JobMove(i)
    BY <1>1, <1>4 DEF BroodExits, Group, IInv, TypeOK
  <2> HIDE DEF g, JobMove
  <2>3. UNCHANGED <<table, state, waiter, req, known>>
    BY <1>4 DEF BroodExits
  <2> QED BY <2>1, <2>2, <2>3, GroupMoves
<1>5. CASE Reaps(i)
  <2> DEFINE g == [proc[i] EXCEPT !.leader = "reaped"]
  <2>1. g \in Group /\ proc' = [proc EXCEPT ![i] = g]
    BY <1>1, <1>5 DEF Reaps, Group
  <2>2. JobMove(i)
    BY <1>1, <1>5 DEF Reaps, Group, IInv, TypeOK
  <2> HIDE DEF g, JobMove
  <2> QED BY <1>1, <1>5, <2>1, <2>2, JobMoves DEF Reaps, WaiterStep
<1>6. CASE SetsStatus(i)
  <2> DEFINE s == [state[i] EXCEPT !.status = "Ended"]
  <2>1. s \in JobState /\ state' = [state EXCEPT ![i] = s]
    BY <1>1, <1>6, StateUpdate DEF SetsStatus
  <2>2. JobMove(i)
    BY <1>1, <1>6 DEF SetsStatus, JobState, IInv, TypeOK
  <2> HIDE DEF s, JobMove
  <2>3. "finished_at" \in WaiterStep /\ waiter' = [waiter EXCEPT ![i] = "finished_at"]
    BY <1>6 DEF SetsStatus, WaiterStep
  <2>4. UNCHANGED <<table, proc, req, known>>
    BY <1>6 DEF SetsStatus
  <2> QED BY <2>1, <2>2, <2>3, <2>4, RecordMoves
<1>7. CASE SetsFinishedAt(i)
  <2> DEFINE s == [state[i] EXCEPT !.age = 0]
  <2>1. s \in JobState /\ state' = [state EXCEPT ![i] = s]
    BY <1>1, <1>7, StateUpdate DEF SetsFinishedAt
  <2>2. JobMove(i)
    BY <1>1, <1>7, JobsAssumption DEF SetsFinishedAt, JobState, Unfinished, IInv, TypeOK
  <2> HIDE DEF s, JobMove
  <2>3. "send" \in WaiterStep /\ waiter' = [waiter EXCEPT ![i] = "send"]
    BY <1>7 DEF SetsFinishedAt, WaiterStep
  <2>4. UNCHANGED <<table, proc, req, known>>
    BY <1>7 DEF SetsFinishedAt
  <2> QED BY <2>1, <2>2, <2>3, <2>4, RecordMoves
<1>8. CASE SendsDone(i)
  <2> DEFINE b == state[i].done \/ Receivers(i) # {}
             s == [state[i] EXCEPT !.done = b]
  <2>1. s \in JobState /\ state' = [state EXCEPT ![i] = s]
    BY <1>1, <1>8, StateUpdate DEF SendsDone
  <2>2. JobMove(i)
    BY <1>1, <1>8 DEF SendsDone, JobState, IInv, TypeOK
  <2> HIDE DEF b, s, JobMove
  <2>3. "over" \in WaiterStep /\ waiter' = [waiter EXCEPT ![i] = "over"]
    BY <1>8 DEF SendsDone, WaiterStep
  <2>4. UNCHANGED <<table, proc, req, known>>
    BY <1>8 DEF SendsDone
  <2> QED BY <2>1, <2>2, <2>3, <2>4, RecordMoves
<1> HIDE DEF JobMove, Present, Dead, Recorded
<1> QED BY <1>2, <1>3, <1>4, <1>5, <1>6, <1>7, <1>8 DEF WaiterTask, Processes

\* Time: ages stop at Retention, timeouts at zero; everything else stands still.
LEMMA TickStep ==
  ASSUME IInv, Tick
  PROVE  IInv'
<1>1. ASSUME NEW j \in JobId
      PROVE  /\ state'[j] \in JobState
             /\ state'[j].pid = state[j].pid
             /\ state'[j].status = state[j].status
             /\ state'[j].done = state[j].done
             /\ state'[j].age # Unfinished <=> state[j].age # Unfinished
             /\ state[j].age = Retention => state'[j].age = Retention
  <2>1. state[j] \in JobState /\ state'[j] = [state[j] EXCEPT !.age = Older(@)]
    BY DEF IInv, TypeOK, Tick
  <2>2. state[j].age \in Unfinished .. Retention
    BY <2>1 DEF JobState
  <2> QED BY <2>1, <2>2, StateUpdate, JobsAssumption DEF JobState, Older, Unfinished
<1>2. ASSUME NEW j \in JobId PROVE JobMove(j)
  BY <1>1 DEF IInv, JobMove, Present, Dead, Recorded, Tick
<1>3. ASSUME NEW c \in Caller PROVE req'[c] \in Request /\ SameCall(c)
  <2> DEFINE left == Sooner(req[c].left)
  <2>1. req[c] \in Request /\ req'[c] = [req[c] EXCEPT !.left = left]
    BY DEF IInv, TypeOK, Tick
  <2>2. left \in 0 .. Timeout
    BY <2>1, JobsAssumption DEF Request, Sooner
  <2> HIDE DEF left
  <2> QED BY <2>1, <2>2, LeftUpdate DEF SameCall
<1>4. TypeOK'
  <2>1. state' \in [JobId -> JobState]
    BY <1>1 DEF Tick
  <2>2. req' \in [Caller -> Request]
    BY <1>3 DEF Tick
  <2> QED BY <2>1, <2>2 DEF IInv, TypeOK, Tick
<1> QED BY <1>2, <1>3, <1>4, KnownHolds, Moves DEF Tick

-----------------------------------------------------------------------------
(***************************************************************************)
(* The steps that touch several parts at once.                              *)
(***************************************************************************)
\* The job's own group is among those the signal reaches, so the job is dead after.
LEMMA StopKillStep ==
  ASSUME IInv, NEW c \in Caller, StopKill(c)
  PROVE  IInv'
<1> DEFINE held == req[c].job
           hit == Signalled(state[held].pid)
           answer == IF hit = {} THEN "unsignalled" ELSE "stopped"
<1>1. MayHold(held) /\ req[c].pc = "signal"
  BY CallHolds DEF StopKill, At
<1>2. /\ proc' = [j \in JobId |-> IF j \in hit THEN Killed(proc[j]) ELSE proc[j]]
      /\ req' = [req EXCEPT ![c] = Answered(held, answer)]
      /\ table' = table /\ state' = state /\ waiter' = waiter /\ known' = known
  BY DEF StopKill, Reply
<1>3. /\ Answered(held, answer) \in Request
      /\ Answered(held, answer).pc = "idle"
      /\ Answered(held, answer).job = held
      /\ Answered(held, answer).answer = answer
  <2>1. answer \in Answer
    BY DEF Answer
  <2> HIDE DEF answer
  <2> QED BY <1>1, <2>1, AnsweredIsRequest DEF MayHold
<1>4. /\ req'[c].pc = "idle" /\ req'[c].job = held
      /\ \A d \in Caller \ {c} : SameCall(d)
  BY <1>2, <1>3 DEF IInv, TypeOK, SameCall
<1>5. ASSUME NEW j \in JobId
      PROVE  /\ Killed(proc[j]) \in Group
             /\ Killed(proc[j]).leader # "running" /\ ~Killed(proc[j]).brood
             /\ Killed(proc[j]).leader = "unborn" <=> proc[j].leader = "unborn"
             /\ Killed(proc[j]).leader = "reaped" <=> proc[j].leader = "reaped"
             /\ Killed(proc[j]).leader = "zombie" => proc[j].leader \in {"running", "zombie"}
  BY DEF IInv, TypeOK, Group, Killed
<1>6. ASSUME NEW j \in JobId PROVE proc'[j] = Killed(proc[j]) \/ proc'[j] = proc[j]
  BY <1>2
<1>7. ASSUME NEW j \in JobId PROVE JobMove(j)
  BY <1>2, <1>5, <1>6 DEF IInv, JobMove, Present, Dead, Recorded
<1>8. Dead(held)'
  <2>1. proc'[held].leader # "running" /\ ~proc'[held].brood
    <3>1. CASE held \in hit
      BY <1>1, <1>2, <1>5, <3>1 DEF MayHold
    <3>2. CASE held \notin hit
      BY <1>1, <1>2, <3>2 DEF MayHold, Signalled, InGroup, Present, IInv, TypeOK, Group
    <3> QED BY <3>1, <3>2
  <2> QED BY <1>4, <2>1 DEF Dead
<1>9. Dead(req[c].job)'
  BY <1>4, <1>8 DEF Dead
<1>10. CallMove(c)
  <2> HIDE DEF held
  <2> QED BY <1>1, <1>4, <1>9 DEF CallMove, held
<1>11. TypeOK'
  BY <1>2, <1>3, <1>5 DEF IInv, TypeOK
<1> QED BY <1>2, <1>4, <1>7, <1>10, <1>11, KnownHolds, Moves

\* reap: the jobs it drops are those whose age is Retention, which is what Dropped asks.
LEMMA StartBeginStep ==
  ASSUME IInv, NEW c \in Caller, StartBegin(c)
  PROVE  IInv'
<1>1. PICK op \in {"execute", "start_command"} : req' = [req EXCEPT ![c] = Begun("spawn", op, NoJob)]
  BY DEF StartBegin
<1>2. /\ req[c].pc = "idle"
      /\ table' = table \ Expired
      /\ state' = state /\ waiter' = waiter /\ proc' = proc /\ known' = known
  BY DEF StartBegin, At
<1>3. /\ Begun("spawn", op, NoJob) \in Request
      /\ Begun("spawn", op, NoJob).pc = "spawn"
      /\ Begun("spawn", op, NoJob).op = op
      /\ Begun("spawn", op, NoJob).answer = "none"
  BY <1>1, BegunIsRequest DEF Op, Pc
<1>4. /\ req'[c].pc = "spawn" /\ req'[c].answer = "none" /\ req'[c].op = op
      /\ \A d \in Caller \ {c} : req'[d] = req[d]
  BY <1>1, <1>3 DEF IInv, TypeOK
<1>5. TypeOK'
  BY <1>1, <1>2, <1>3 DEF IInv, TypeOK
<1>6. CallsHoldJobs'
  BY <1>2, <1>4 DEF IInv, CallsHoldJobs, Engaged
<1>7. InsertsArePrivate'
  BY <1>2, <1>4 DEF IInv, InsertsArePrivate, Engaged
<1>8. ASSUME NEW j \in JobId PROVE (Recorded(j) /\ Unborn(j) /\ Dropped(j))'
  <2>1. Inserting(j)' <=> Inserting(j)
    BY <1>2, <1>4 DEF Inserting, At
  <2> QED BY <1>2, <2>1 DEF IInv, Recorded, Unborn, Dropped, Expired
<1>9. PidsAreDistinct' /\ DrainsAreDone' /\ StoppedMeansDead'
  BY <1>2, <1>4 DEF IInv, PidsAreDistinct, Present, DrainsAreDone, At, StoppedMeansDead, Dead
<1> QED BY <1>5, <1>6, <1>7, <1>8, <1>9 DEF IInv

\* A fresh id and an unused pid: nobody else can hold the job yet.
LEMMA SpawnStep ==
  ASSUME IInv, NEW c \in Caller, Spawn(c)
  PROVE  IInv'
<1>1. PICK i \in JobId, p \in FreePids :
         /\ waiter[i] = "unborn"
         /\ state' = [state EXCEPT ![i].pid = p]
         /\ proc' = [proc EXCEPT ![i].leader = "running"]
         /\ waiter' = [waiter EXCEPT ![i] = "wait"]
         /\ req' = [req EXCEPT ![c] = Begun("insert", req[c].op, i)]
  BY DEF Spawn
<1>2. req[c].pc = "spawn" /\ table' = table /\ known' = known
  BY DEF Spawn, At
<1>3. req[c].op \in {"execute", "start_command"}
  BY <1>2 DEF IInv, CallsHoldJobs
<1>4. /\ Begun("insert", req[c].op, i) \in Request
      /\ Begun("insert", req[c].op, i).pc = "insert"
      /\ Begun("insert", req[c].op, i).op = req[c].op
      /\ Begun("insert", req[c].op, i).job = i
      /\ Begun("insert", req[c].op, i).answer = "none"
  BY <1>3, BegunIsRequest DEF Op, Pc
<1>5. /\ req'[c].pc = "insert" /\ req'[c].op = req[c].op /\ req'[c].job = i
      /\ req'[c].answer = "none"
      /\ \A d \in Caller \ {c} : req'[d] = req[d]
  BY <1>1, <1>4 DEF IInv, TypeOK
<1>6. /\ waiter'[i] = "wait"
      /\ state'[i].status = state[i].status /\ state'[i].age = state[i].age
      /\ state'[i].done = state[i].done /\ state'[i].pid = p
      /\ proc'[i].leader = "running" /\ proc'[i].brood = proc[i].brood
  BY <1>1 DEF IInv, TypeOK, JobState, Group
<1>7. ASSUME NEW j \in JobId \ {i}
      PROVE  state'[j] = state[j] /\ waiter'[j] = waiter[j] /\ proc'[j] = proc[j]
  BY <1>1 DEF IInv, TypeOK
<1>8. i \notin table /\ i \notin known /\ ~proc[i].brood
  BY <1>1 DEF IInv, Unborn
<1>9. ASSUME NEW d \in Caller, Engaged(d) PROVE req[d].job \in JobId \ {i}
  BY <1>1, <1>9 DEF IInv, CallsHoldJobs
<1>10. TypeOK'
  <2>1. state' \in [JobId -> JobState]
    BY <1>1, StateUpdate DEF IInv, TypeOK, FreePids
  <2>2. [proc[i] EXCEPT !.leader = "running"] \in Group
    BY DEF IInv, TypeOK, Group
  <2> QED BY <1>1, <1>2, <1>4, <2>1, <2>2 DEF IInv, TypeOK, WaiterStep
<1>11. CallsHoldJobs'
  BY <1>3, <1>5, <1>6, <1>7, <1>9 DEF IInv, CallsHoldJobs, Engaged
<1>12. InsertsArePrivate'
  BY <1>2, <1>5, <1>8, <1>9 DEF IInv, InsertsArePrivate, Engaged
<1>13. Inserting(i)' /\ \A j \in JobId \ {i} : Inserting(j)' <=> Inserting(j)
  BY <1>2, <1>5 DEF Inserting, At
<1>14. ASSUME NEW j \in JobId PROVE (Recorded(j) /\ Unborn(j) /\ Dropped(j))'
  <2>1. CASE j = i
    BY <1>1, <1>2, <1>6, <1>13, <2>1 DEF IInv, Recorded, Unborn, Dropped
  <2>2. CASE j # i
    BY <1>2, <1>7, <1>13, <2>2 DEF IInv, Recorded, Unborn, Dropped
  <2> QED BY <2>1, <2>2
<1>15. PidsAreDistinct'
  <2>1. ASSUME NEW j \in JobId \ {i}, Present(j)' PROVE state'[j].pid # p
    BY <1>1, <1>7, <2>1 DEF FreePids, Present
  <2> QED BY <1>6, <1>7, <2>1 DEF IInv, PidsAreDistinct, Present
<1>16. DrainsAreDone'
  BY <1>5, <1>7, <1>9 DEF IInv, DrainsAreDone, At, Engaged
<1>17. StoppedMeansDead'
  BY <1>5, <1>7, <1>9 DEF IInv, StoppedMeansDead, Dead, Engaged
<1> QED BY <1>10, <1>11, <1>12, <1>14, <1>15, <1>16, <1>17 DEF IInv

LEMMA InsertStep ==
  ASSUME IInv, NEW c \in Caller, Insert(c)
  PROVE  IInv'
<1> DEFINE held == req[c].job
<1>1. /\ req[c] \in Request /\ req[c].pc = "insert" /\ req[c].answer = "none"
      /\ held \in JobId /\ waiter[held] # "unborn"
      /\ table' = table \cup {held}
      /\ state' = state /\ waiter' = waiter /\ proc' = proc
  BY DEF Insert, At, IInv, TypeOK, CallsHoldJobs, Engaged
<1>2. PICK r \in Request :
        /\ req' = [req EXCEPT ![c] = r] /\ r.job = held
        /\ \/ r.pc = "idle" /\ r.answer = "started"
           \/ r.pc = "get" /\ r.op = "execute" /\ r.answer = "none"
  <2>1. CASE ReplyWithId(c, "started")
    <3>1. /\ Answered(held, "started") \in Request
          /\ Answered(held, "started").pc = "idle"
          /\ Answered(held, "started").job = held
          /\ Answered(held, "started").answer = "started"
      <4>1. "started" \in Answer
        BY DEF Answer
      <4> HIDE DEF held
      <4> QED BY <1>1, <4>1, AnsweredIsRequest
    <3> QED BY <2>1, <3>1 DEF ReplyWithId, Reply
  <2>2. CASE req[c].op = "execute" /\ Goto(c, "get")
    <3> DEFINE moved == [req[c] EXCEPT !.pc = "get"]
    <3>1. moved \in Request /\ moved.pc = "get" /\ moved.op = "execute"
          /\ moved.job = held /\ moved.answer = "none"
      BY <1>1, <2>2, PcUpdate DEF Pc
    <3>2. req' = [req EXCEPT ![c] = moved]
      BY <2>2 DEF Goto
    <3> QED BY <3>1, <3>2
  <2> QED BY <2>1, <2>2 DEF Insert
<1>3. req'[c] = r /\ \A d \in Caller \ {c} : req'[d] = req[d]
  BY <1>2 DEF IInv, TypeOK
<1>4. known' = known \/ known' = known \cup {held}
  BY DEF Insert, ReplyWithId
<1>5. ASSUME NEW d \in Caller \ {c}, Engaged(d) PROVE req[d].job # held
  BY <1>1, <1>5 DEF IInv, InsertsArePrivate
<1>6. TypeOK'
  BY <1>1, <1>2, <1>4 DEF IInv, TypeOK
<1>7. CallsHoldJobs'
  BY <1>1, <1>2, <1>3 DEF IInv, CallsHoldJobs, Engaged
<1>8. InsertsArePrivate'
  <2> SUFFICES ASSUME NEW d \in Caller, req'[d].pc = "insert"
               PROVE  /\ req'[d].job \notin table'
                      /\ req'[d].job \notin known'
                      /\ \A e \in Caller \ {d} : Engaged(e)' => req'[e].job # req'[d].job
    BY DEF InsertsArePrivate
  <2>1. d # c /\ req'[d] = req[d]
    BY <1>2, <1>3
  <2>2. req[d].job # held
    BY <1>5, <2>1 DEF Engaged
  <2> QED BY <1>1, <1>2, <1>3, <1>4, <2>1, <2>2 DEF IInv, InsertsArePrivate, Engaged
<1>9. ASSUME NEW j \in JobId PROVE (Recorded(j) /\ Unborn(j) /\ Dropped(j))'
  <2>1. j # held => (Inserting(j)' <=> Inserting(j))
    BY <1>2, <1>3 DEF Inserting, At
  <2> QED BY <1>1, <1>4, <2>1 DEF IInv, Recorded, Unborn, Dropped
<1>10. PidsAreDistinct'
  BY <1>1 DEF IInv, PidsAreDistinct, Present
<1>11. DrainsAreDone' /\ StoppedMeansDead'
  BY <1>1, <1>2, <1>3 DEF IInv, DrainsAreDone, At, StoppedMeansDead, Dead
<1> QED BY <1>6, <1>7, <1>8, <1>9, <1>10, <1>11 DEF IInv

-----------------------------------------------------------------------------
(***************************************************************************)
(* The invariant, and what it gives.                                        *)
(***************************************************************************)
LEMMA InitIInv == Init => IInv
<1> SUFFICES ASSUME Init PROVE IInv
  OBVIOUS
<1>1. Idle \in Request /\ Idle.pc = "idle" /\ Idle.answer = "none"
  BY AnsweredIsRequest DEF Idle, Answer
<1>2. TypeOK
  BY <1>1, JobsAssumption DEF Init, TypeOK, JobState, Unfinished, WaiterStep, Group
<1>3. CallsHoldJobs /\ InsertsArePrivate /\ DrainsAreDone /\ StoppedMeansDead
  BY <1>1 DEF Init, CallsHoldJobs, Engaged, InsertsArePrivate, DrainsAreDone, At,
              StoppedMeansDead
<1>4. ASSUME NEW j \in JobId PROVE Recorded(j) /\ Unborn(j) /\ Dropped(j)
  BY DEF Init, Recorded, Unborn, Dropped, Unfinished
<1>5. PidsAreDistinct
  BY DEF Init, PidsAreDistinct, Present
<1> QED BY <1>2, <1>3, <1>4, <1>5 DEF IInv

LEMMA NextIInv == IInv /\ [Next]_vars => IInv'
<1> SUFFICES ASSUME IInv, [Next]_vars PROVE IInv'
  OBVIOUS
<1>1. ASSUME NEW c \in Caller, StartBegin(c) PROVE IInv'
  BY <1>1, StartBeginStep
<1>2. ASSUME NEW c \in Caller, Spawn(c) PROVE IInv'
  BY <1>2, SpawnStep
<1>3. ASSUME NEW c \in Caller, Insert(c) PROVE IInv'
  BY <1>3, InsertStep
<1>4. ASSUME NEW c \in Caller, StopKill(c) PROVE IInv'
  BY <1>4, StopKillStep
<1>5. ASSUME NEW c \in Caller, QuietStep(c) PROVE IInv'
  BY <1>5, QuietSteps
<1>6. ASSUME NEW j \in JobId, WaiterTask(j) \/ Processes(j) PROVE IInv'
  BY <1>6, JobSteps
<1>7. CASE Tick
  BY <1>7, TickStep
<1>8. CASE UNCHANGED vars
  <2>1. \A j \in JobId : JobMove(j)
    BY <1>8 DEF vars, IInv, JobMove, Present, Dead, Recorded
  <2>2. \A c \in Caller : SameCall(c)
    BY <1>8 DEF vars, SameCall
  <2>3. TypeOK' /\ table' = table /\ known' = known
    BY <1>8 DEF vars, IInv, TypeOK
  <2> QED BY <2>1, <2>2, <2>3, KnownHolds, Moves
<1> QED BY <1>1, <1>2, <1>3, <1>4, <1>5, <1>6, <1>7, <1>8 DEF Next, CallStep, QuietStep

THEOREM Invariance == SafetySpec => []IInv
<1>1. Init => IInv
  BY InitIInv
<1>2. IInv /\ [Next]_vars => IInv'
  BY NextIInv
<1> QED BY <1>1, <1>2, PTL DEF SafetySpec

\* Every variable stays within its type, whatever the calls, processes and clock do.
THEOREM TypeCorrect == SafetySpec => []TypeOK
<1>1. IInv => TypeOK
  BY DEF IInv
<1> QED BY <1>1, Invariance, PTL

\* An id an answer carried resolves until Retention has passed since its job finished
\* (exec_ops.rs:82-94).
THEOREM KnownResolves == SafetySpec => []KnownIdResolves
<1>1. IInv => KnownIdResolves
  <2> SUFFICES ASSUME IInv, NEW j \in known \ table
               PROVE  proc[j].leader = "reaped" /\ state[j].age = Retention
    BY DEF KnownIdResolves
  <2>1. MayHold(j)
    BY KnownHolds
  <2>2. state[j].age = Retention
    BY <2>1 DEF IInv, Dropped, MayHold
  <2> QED BY <2>1, <2>2, JobsAssumption DEF IInv, Recorded, MayHold, Unfinished
<1> QED BY <1>1, Invariance, PTL

\* A stop_job that was answered "stopped", or could not signal, leaves no process of its
\* job's group alive, whatever pids were reused meanwhile (exec_ops.rs:205-224).
THEOREM StopKills == SafetySpec => []StoppedMeansDead
<1>1. IInv => StoppedMeansDead
  BY DEF IInv
<1> QED BY <1>1, Invariance, PTL

\* An execute past its wait reads a status that is already set (exec_ops.rs:158-197).
THEOREM DrainSeesEnd == SafetySpec => []DoneMeansEnded
<1>1. IInv => DoneMeansEnded
  <2> SUFFICES ASSUME IInv, NEW c \in Caller, At(c, "drain")
               PROVE  state[req[c].job].status = "Ended"
    BY DEF DoneMeansEnded
  <2>1. MayHold(req[c].job) /\ state[req[c].job].done
    BY CallHolds DEF IInv, DrainsAreDone, At
  <2> QED BY <2>1 DEF IInv, Recorded, MayHold
<1> QED BY <1>1, Invariance, PTL

\* A stop_job reaches another job's group only if its own job's shell had been reaped
\* between the status check and the kill (exec_ops.rs:207-219).
THEOREM StraysAreLate == SafetySpec => StraysOnlyAfterReap
<1> DEFINE Strays == \A c \in Caller : At(c, "signal") /\ req'[c].pc = "idle" =>
                        \A j \in JobId \ {req[c].job} :
                           proc'[j] # proc[j] => proc[req[c].job].leader = "reaped"
<1>1. IInv /\ [Next]_vars => [Strays]_vars
  <2> SUFFICES ASSUME IInv, Next, NEW c \in Caller, At(c, "signal"), req'[c].pc = "idle",
                      NEW j \in JobId \ {req[c].job}, proc'[j] # proc[j]
               PROVE  proc[req[c].job].leader = "reaped"
    OBVIOUS
  <2>1. req[c].pc = "signal" /\ req'[c] # req[c]
    BY DEF At
  <2>2. ASSUME NEW d \in Caller \ {c}, NEW r, req' = [req EXCEPT ![d] = r] PROVE FALSE
    BY <2>1, <2>2 DEF IInv, TypeOK
  <2>3. ASSUME NEW d \in Caller, Spawn(d) PROVE FALSE
    BY <2>1, <2>2, <2>3 DEF Spawn, At
  <2>4. ASSUME NEW d \in Caller \ {c}, StopKill(d) PROVE FALSE
    BY <2>2, <2>4 DEF StopKill, Reply
  <2>5. ASSUME NEW d \in Caller, StartBegin(d) \/ Insert(d) \/ QuietStep(d) PROVE FALSE
    BY <2>5 DEF StartBegin, Insert, QuietStep, SpawnFails, NamesJob, Get, Subscribe, WaitDone,
       WaitTimeout, DrainSnapshot, GiveUp, PollSnapshot, StopCheck
  <2>6. ASSUME NEW i \in JobId, WaiterTask(i) \/ Processes(i) PROVE FALSE
    BY <2>1, <2>6 DEF WaiterTask, Reaps, SetsStatus, SetsFinishedAt, SendsDone,
       Processes, LeaderForks, LeaderExits, BroodExits
  <2>7. ~Tick
    BY DEF Tick
  <2>8. StopKill(c)
    BY <2>3, <2>4, <2>5, <2>6, <2>7 DEF Next, CallStep, QuietStep
  <2>9. InGroup(j, state[req[c].job].pid)
    BY <2>8 DEF StopKill, Signalled
  <2>10. MayHold(req[c].job)
    BY <2>1, CallHolds
  <2>11. ~Present(req[c].job)
    BY <2>9, <2>10 DEF IInv, PidsAreDistinct, InGroup, MayHold
  <2> QED BY <2>10, <2>11 DEF MayHold, Present, IInv, Recorded, TypeOK, Group
<1> QED BY <1>1, Invariance, PTL DEF SafetySpec, StraysOnlyAfterReap

-----------------------------------------------------------------------------
(***************************************************************************)
(* Refinement. A step keeps every page, or turns some forward; and a reply  *)
(* is one the page of its job allows.                                       *)
(***************************************************************************)
Pages == [j \in JobId |-> Page(j)]
Hearing == [c \in Caller |-> Heard(c)]

LEMMA PageStays ==
  ASSUME table' = table, waiter' = waiter, state' = state,
         \A j \in JobId : Inserting(j)' <=> Inserting(j)
  PROVE  Pages' = Pages
<1>1. \A j \in JobId : Page(j)' = Page(j)
  BY DEF Page
<1> QED BY <1>1 DEF Pages

LEMMA Silence ==
  ASSUME Pages' = Pages, \A c \in Caller : req'[c].answer = req[c].answer,
         \A c \in Caller : req[c].answer # "none" => req'[c].job = req[c].job
  PROVE  UNCHANGED Ledger!vars
<1>1. \A c \in Caller : Heard(c)' = Heard(c)
  BY DEF Heard
<1>2. Hearing' = Hearing
  BY <1>1 DEF Hearing
<1> QED BY <1>2 DEF Ledger!vars, Pages, Hearing

\* A call in progress has heard nothing, so that its reply is news.
LEMMA ReplyTells ==
  ASSUME IInv, NEW c \in Caller, req[c].pc \notin {"idle", "spawn", "insert"},
         NEW answer \in Ledger!Answer, Reply(c, answer), Pages' = Pages,
         answer \in Ledger!MayTell(Page(req[c].job))
  PROVE  Ledger!Next
<1> DEFINE held == req[c].job
<1>1. MayHold(held) /\ req[c].answer = "none"
  BY CallHolds DEF IInv, CallsHoldJobs
<1>2. req'[c].answer = answer /\ req'[c].job = held /\ answer # "none"
  BY DEF IInv, TypeOK, Reply, Answered, Ledger!Answer
<1>3. \A d \in Caller \ {c} : req'[d] = req[d]
  BY DEF IInv, TypeOK, Reply
<1>4. Heard(c) = Nothing /\ Heard(c)' = Ledger!Told(held, answer)
  BY <1>1, <1>2 DEF Heard, Ledger!Told
<1>5. \A d \in Caller \ {c} : Heard(d)' = Heard(d)
  BY <1>3 DEF Heard
<1>6. Hearing' = [Hearing EXCEPT ![c] = Ledger!Told(held, answer)]
  BY <1>4, <1>5 DEF Hearing
<1>7. Ledger!Tell(c, held, answer)
  BY <1>1, <1>4, <1>6 DEF Ledger!Tell, Pages, Hearing, MayHold
<1> QED BY <1>1, <1>7 DEF Ledger!Next, MayHold

\* The next call wipes what the caller heard, and may drop finished jobs.
LEMMA NewCall ==
  ASSUME IInv, NEW c \in Caller, req'[c].answer = "none",
         \A d \in Caller \ {c} : req'[d] = req[d],
         NEW gone \in SUBSET JobId,
         \A j \in gone : Page(j) = "finished",
         \A j \in JobId : Page(j)' = IF j \in gone THEN "forgotten" ELSE Page(j)
  PROVE  Ledger!Next
<1>1. Heard(c)' = Nothing /\ \A d \in Caller \ {c} : Heard(d)' = Heard(d)
  BY DEF Heard
<1>2. Hearing' = [Hearing EXCEPT ![c] = Nothing]
  BY <1>1 DEF Hearing
<1>3. Pages' = [j \in JobId |-> IF j \in gone THEN "forgotten" ELSE Pages[j]]
  BY DEF Pages
<1>4. Ledger!Call(c, gone)
  BY <1>2, <1>3 DEF Ledger!Call, Pages, Hearing
<1> QED BY <1>4 DEF Ledger!Next

\* What a job's page is once nobody is inserting it.
LEMMA HeldPage ==
  ASSUME IInv, NEW j \in JobId, MayHold(j)
  PROVE  /\ Page(j) \in {"running", "finished", "forgotten"}
         /\ state[j].status = "Running" => Page(j) = "running"
         /\ state[j].status # "Running" => Page(j) \in {"finished", "forgotten"}
         /\ j \notin table => Page(j) = "forgotten"
<1>1. j \notin table => state[j].age = Retention
  BY DEF IInv, Dropped, MayHold
<1>2. j \notin table => state[j].status = "Ended"
  BY <1>1, JobsAssumption DEF IInv, Recorded, Unfinished
<1> QED BY <1>2 DEF Page, MayHold

LEMMA QuietRefines ==
  ASSUME IInv, NEW c \in Caller, QuietStep(c)
  PROVE  [Ledger!Next]_Ledger!vars
<1> DEFINE held == req[c].job
<1>1. Pages' = Pages
  <2>1. SameJobs /\ req[c].pc # "insert"
    BY DEF SameJobs, QuietStep, SpawnFails, NamesJob, Get, Subscribe, WaitDone, WaitTimeout,
       DrainSnapshot, GiveUp, PollSnapshot, StopCheck, At
  <2>2. \A d \in Caller \ {c} : req'[d] = req[d]
    BY DEF IInv, TypeOK, QuietStep, SpawnFails, NamesJob, Get, Subscribe, WaitDone,
       WaitTimeout, DrainSnapshot, GiveUp, PollSnapshot, StopCheck, Goto, Reply, ReplyWithId
  <2>4. ASSUME NEW pc \in Pc \ {"insert"}, Goto(c, pc) PROVE req'[c].pc # "insert"
    BY <2>4, PcUpdate DEF IInv, TypeOK, Goto
  <2>5. ASSUME NEW answer, Reply(c, answer) PROVE req'[c].pc # "insert"
    BY <2>5 DEF IInv, TypeOK, Reply, Answered
  <2>6. req'[c].pc # "insert"
    <3>1. CASE SpawnFails(c) \/ GiveUp(c)
      BY <3>1 DEF IInv, TypeOK, SpawnFails, GiveUp, Idle, Answered
    <3>2. CASE NamesJob(c)
      BY <3>2 DEF IInv, TypeOK, NamesJob, Begun
    <3>3. CASE Get(c)
      <4>1. NextAfterGet[req[c].op] \in {"subscribe", "snapshot", "check"}
        BY <3>3 DEF IInv, CallsHoldJobs, Get, At, NextAfterGet
      <4> QED BY <2>4, <2>5, <3>3, <4>1 DEF Get, Pc
    <3>4. CASE Subscribe(c)
      BY <3>4 DEF IInv, TypeOK, Request, Subscribe
    <3>5. CASE WaitDone(c) \/ WaitTimeout(c) \/ DrainSnapshot(c) \/ PollSnapshot(c) \/ StopCheck(c)
      BY <2>4, <2>5, <3>5 DEF WaitDone, WaitTimeout, ReplyWithId, DrainSnapshot, PollSnapshot,
         StopCheck, Pc
    <3> QED BY <3>1, <3>2, <3>3, <3>4, <3>5 DEF QuietStep
  <2>7. \A j \in JobId : Inserting(j)' <=> Inserting(j)
    <3>1. \A d \in Caller : \/ req'[d].pc = req[d].pc /\ req'[d].job = req[d].job
                            \/ req[d].pc # "insert" /\ req'[d].pc # "insert"
      BY <2>1, <2>2, <2>6
    <3> QED BY <3>1 DEF Inserting, At
  <2> QED BY <2>1, <2>7, PageStays DEF SameJobs
<1>2. ASSUME req[c].pc # "idle", req'[c].answer = "none",
             \A d \in Caller \ {c} : req'[d] = req[d]
      PROVE  UNCHANGED Ledger!vars
  BY <1>1, <1>2, Silence DEF IInv, CallsHoldJobs
<1>3. CASE NamesJob(c)
  <2>1. PICK j \in known, op \in {"poll_job", "stop_job"} : req' = [req EXCEPT ![c] = Begun("get", op, j)]
    BY <1>3 DEF NamesJob
  <2>2. \A j2 \in JobId : Page(j2)' = IF j2 \in {} THEN "forgotten" ELSE Page(j2)
    BY <1>1 DEF Pages
  <2>3. req'[c].answer = "none" /\ \A d \in Caller \ {c} : req'[d] = req[d]
    BY <2>1 DEF IInv, TypeOK, Begun
  <2>4. Ledger!Next
    <3> DEFINE gone == {}
    <3>1. gone \in SUBSET JobId /\ \A j2 \in gone : Page(j2) = "finished"
      OBVIOUS
    <3>2. \A j2 \in JobId : Page(j2)' = IF j2 \in gone THEN "forgotten" ELSE Page(j2)
      BY <2>2
    <3> HIDE DEF gone
    <3> QED BY <2>3, <3>1, <3>2, NewCall
  <2> QED BY <2>4
<1>4. CASE SpawnFails(c) \/ GiveUp(c)
  BY <1>2, <1>4 DEF SpawnFails, GiveUp, At, Idle, Answered, IInv, TypeOK
<1>5. CASE Subscribe(c) \/ WaitDone(c)
  BY <1>2, <1>5 DEF Subscribe, WaitDone, Goto, At, IInv, TypeOK, CallsHoldJobs, Request
<1>6. ASSUME req[c].pc \notin {"idle", "spawn", "insert"}
      PROVE  held \in JobId /\ MayHold(held)
  BY <1>6, CallHolds DEF MayHold
<1>7. CASE Get(c)
  <2>1. CASE held \in table
    BY <1>2, <1>7, <2>1 DEF Get, Goto, At, IInv, TypeOK, CallsHoldJobs, Request
  <2>2. CASE held \notin table
    <3>1. "gone" \in Ledger!MayTell(Page(held))
      BY <1>6, <1>7, <2>2, HeldPage DEF Get, At, Ledger!MayTell
    <3> QED BY <1>1, <1>7, <2>2, <3>1, ReplyTells DEF Get, At, Ledger!Answer
  <2> QED BY <2>1, <2>2
<1>8. CASE WaitTimeout(c)
  <2>1. "still running" \in Ledger!MayTell(Page(held))
    BY <1>6, <1>8, HeldPage DEF WaitTimeout, At, Ledger!MayTell
  <2> QED BY <1>1, <1>8, <2>1, ReplyTells DEF WaitTimeout, ReplyWithId, At, Ledger!Answer
<1>9. CASE DrainSnapshot(c) \/ PollSnapshot(c)
  <2>1. Reported(held) \in Ledger!MayTell(Page(held))
    BY <1>6, <1>9, HeldPage DEF DrainSnapshot, PollSnapshot, At, Reported, Ledger!MayTell
  <2>2. Reported(held) \in Ledger!Answer
    BY DEF Reported, Ledger!Answer
  <2> QED BY <1>1, <1>9, <2>1, <2>2, ReplyTells DEF DrainSnapshot, PollSnapshot, At
<1>10. CASE StopCheck(c)
  <2>1. CASE Goto(c, "signal")
    BY <1>2, <1>10, <2>1 DEF StopCheck, Goto, At, IInv, TypeOK, CallsHoldJobs, Request
  <2>2. CASE state[held].status # "Running" /\ Reply(c, "already finished")
    <3>1. "already finished" \in Ledger!MayTell(Page(held))
      BY <1>6, <1>10, <2>2, HeldPage DEF StopCheck, At, Ledger!MayTell
    <3> QED BY <1>1, <1>10, <2>2, <3>1, ReplyTells DEF StopCheck, At, Ledger!Answer
  <2> QED BY <1>10, <2>1, <2>2 DEF StopCheck
<1> QED BY <1>3, <1>4, <1>5, <1>7, <1>8, <1>9, <1>10 DEF QuietStep

\* reap drops jobs that are expired, hence finished, and nobody is inserting those.
LEMMA StartBeginRefines ==
  ASSUME IInv, NEW c \in Caller, StartBegin(c)
  PROVE  Ledger!Next
<1>1. /\ req[c].pc = "idle" /\ req'[c].pc = "spawn" /\ req'[c].answer = "none"
      /\ \A d \in Caller \ {c} : req'[d] = req[d]
  BY DEF StartBegin, At, Begun, IInv, TypeOK
<1>2. table' = table \ Expired /\ state' = state /\ waiter' = waiter
  BY DEF StartBegin
<1>3. \A j \in JobId : Inserting(j)' <=> Inserting(j)
  BY <1>1 DEF Inserting, At
<1>4. ASSUME NEW j \in Expired
      PROVE  j \in JobId /\ Page(j) = "finished" /\ waiter[j] # "unborn" /\ ~Inserting(j)
  <2>1. j \in JobId /\ j \in table /\ state[j].age = Retention
    BY DEF Expired, IInv, TypeOK
  <2>2. state[j].status = "Ended" /\ waiter[j] # "unborn"
    BY <2>1, JobsAssumption DEF IInv, Recorded, Unborn, Unfinished
  <2>3. ~Inserting(j)
    BY <2>1 DEF IInv, InsertsArePrivate, Inserting, At
  <2> QED BY <2>1, <2>2, <2>3 DEF Page
<1>5. ASSUME NEW j \in JobId
      PROVE  Page(j)' = IF j \in Expired THEN "forgotten" ELSE Page(j)
  BY <1>2, <1>3, <1>4 DEF Page
<1> QED BY <1>1, <1>4, <1>5, NewCall

LEMMA SpawnRefines ==
  ASSUME IInv, NEW c \in Caller, Spawn(c)
  PROVE  UNCHANGED Ledger!vars
<1>1. PICK i \in JobId, p \in FreePids :
         /\ waiter[i] = "unborn"
         /\ state' = [state EXCEPT ![i].pid = p]
         /\ waiter' = [waiter EXCEPT ![i] = "wait"]
         /\ req' = [req EXCEPT ![c] = Begun("insert", req[c].op, i)]
  BY DEF Spawn
<1>2. /\ req[c].pc = "spawn" /\ req'[c].pc = "insert" /\ req'[c].job = i
      /\ req[c].answer = "none" /\ req'[c].answer = "none"
      /\ \A d \in Caller \ {c} : req'[d] = req[d]
  BY <1>1 DEF Spawn, At, Begun, IInv, TypeOK, CallsHoldJobs
<1>3. i \notin table /\ table' = table
  BY <1>1 DEF IInv, Unborn, Spawn
<1>4. Inserting(i)' /\ \A j \in JobId \ {i} : Inserting(j)' <=> Inserting(j)
  BY <1>2 DEF Inserting, At
<1>5. ASSUME NEW j \in JobId PROVE Page(j)' = Page(j)
  <2>1. CASE j = i
    BY <1>1, <1>3, <1>4, <2>1 DEF Page
  <2>2. CASE j # i
    <3>1. state'[j] = state[j] /\ waiter'[j] = waiter[j]
      BY <1>1, <2>2 DEF IInv, TypeOK
    <3> QED BY <1>3, <1>4, <2>2, <3>1 DEF Page
  <2> QED BY <2>1, <2>2
<1>6. Pages' = Pages
  BY <1>5 DEF Pages
<1> QED BY <1>2, <1>6, Silence

LEMMA InsertRefines ==
  ASSUME IInv, NEW c \in Caller, Insert(c)
  PROVE  Ledger!Next
<1>1. PICK held \in JobId :
      /\ req[c].job = held /\ req[c].pc = "insert" /\ req[c].answer = "none"
      /\ held \notin table /\ table' = table \cup {held}
      /\ state' = state /\ waiter' = waiter
  BY DEF Insert, At, IInv, CallsHoldJobs, InsertsArePrivate, Engaged
<1>2. /\ \A d \in Caller \ {c} : req'[d] = req[d]
      /\ \/ req'[c].pc = "idle" /\ req'[c].answer = "started" /\ req'[c].job = held
         \/ req'[c].pc = "get" /\ req'[c].answer = "none"
  <2>1. CASE ReplyWithId(c, "started")
    BY <1>1, <2>1 DEF ReplyWithId, Reply, Answered, IInv, TypeOK
  <2>2. CASE Goto(c, "get")
    BY <1>1, <2>2 DEF Goto, IInv, TypeOK, Request
  <2> QED BY <2>1, <2>2 DEF Insert
<1>3. \A j \in JobId \ {held} : Inserting(j)' <=> Inserting(j)
  BY <1>1, <1>2 DEF Inserting, At
<1>4. ASSUME NEW j \in JobId \ {held} PROVE Page(j)' = Page(j)
  BY <1>1, <1>3 DEF Page
<1>5. Page(held) = "unknown" /\ Page(held)' \in {"running", "finished"}
  <2>1. Inserting(held)
    BY <1>1 DEF Inserting, At
  <2> QED BY <1>1, <2>1 DEF Page
<1>6. PICK page \in {"running", "finished"} : Pages' = [Pages EXCEPT ![held] = page]
  BY <1>4, <1>5 DEF Pages
<1>7. Heard(c) = Nothing /\ Heard(c)' \in {Nothing, Ledger!Told(held, "started")}
  BY <1>1, <1>2 DEF Heard, Ledger!Told
<1>8. \A d \in Caller \ {c} : Heard(d)' = Heard(d)
  BY <1>2 DEF Heard
<1>9. \/ Hearing' = Hearing
      \/ Hearing' = [Hearing EXCEPT ![c] = Ledger!Told(held, "started")]
  BY <1>7, <1>8 DEF Hearing
<1>10. Ledger!Open(held)
  BY <1>1, <1>5, <1>6, <1>7, <1>9 DEF Ledger!Open, Pages, Hearing
<1> QED BY <1>1, <1>10 DEF Ledger!Next

LEMMA StopKillRefines ==
  ASSUME IInv, NEW c \in Caller, StopKill(c)
  PROVE  Ledger!Next
<1>1. PICK answer \in {"stopped", "unsignalled"} : Reply(c, answer)
  BY DEF StopKill
<1>2. /\ req[c].pc = "signal" /\ req'[c].pc # "insert"
      /\ \A d \in Caller \ {c} : req'[d] = req[d]
  BY <1>1 DEF StopKill, At, Reply, Answered, IInv, TypeOK
<1>3. table' = table /\ state' = state /\ waiter' = waiter
  BY DEF StopKill
<1>4. \A j \in JobId : Inserting(j)' <=> Inserting(j)
  BY <1>2 DEF Inserting, At
<1>5. Pages' = Pages
  BY <1>3, <1>4, PageStays
<1>6. answer \in Ledger!MayTell(Page(req[c].job))
  <2>1. MayHold(req[c].job)
    BY <1>2, CallHolds
  <2> QED BY <2>1, HeldPage DEF MayHold, Ledger!MayTell
<1> QED BY <1>1, <1>2, <1>5, <1>6, ReplyTells DEF Ledger!Answer

\* Only the status moves a page; a job out of the table has its status already.
LEMMA JobRefines ==
  ASSUME IInv, NEW i \in JobId, WaiterTask(i) \/ Processes(i)
  PROVE  [Ledger!Next]_Ledger!vars
<1>1. req' = req /\ table' = table
  BY DEF WaiterTask, Reaps, SetsStatus, SetsFinishedAt, SendsDone,
     Processes, LeaderForks, LeaderExits, BroodExits
<1>2. \A j \in JobId : Inserting(j)' <=> Inserting(j)
  BY <1>1 DEF Inserting, At
<1>3. ASSUME \A j \in JobId : state'[j].status = state[j].status,
             \A j \in JobId : waiter'[j] = "unborn" <=> waiter[j] = "unborn"
      PROVE  UNCHANGED Ledger!vars
  <2>1. \A j \in JobId : Page(j)' = Page(j)
    BY <1>1, <1>2, <1>3 DEF Page
  <2>2. Pages' = Pages
    BY <2>1 DEF Pages
  <2> QED BY <1>1, <2>2, Silence
<1>4. CASE LeaderForks(i) \/ LeaderExits(i) \/ BroodExits(i)
  BY <1>3, <1>4 DEF LeaderForks, LeaderExits, BroodExits
<1>5. CASE Reaps(i)
  BY <1>3, <1>5 DEF Reaps, IInv, TypeOK
<1>6. CASE SetsFinishedAt(i) \/ SendsDone(i)
  BY <1>3, <1>6 DEF SetsFinishedAt, SendsDone, IInv, TypeOK, JobState
<1>7. CASE SetsStatus(i)
  <2>1. /\ state'[i].status = "Ended" /\ state[i].status = "Running"
        /\ waiter[i] # "unborn" /\ waiter'[i] # "unborn" /\ state[i].age = Unfinished
        /\ \A j \in JobId \ {i} : state'[j] = state[j] /\ waiter'[j] = waiter[j]
    BY <1>7 DEF SetsStatus, IInv, TypeOK, JobState, Recorded
  <2>2. \A j \in JobId \ {i} : Page(j)' = Page(j)
    BY <1>1, <1>2, <2>1 DEF Page
  <2>3. CASE i \in table
    <3>1. Page(i) = "running" /\ Page(i)' = "finished"
      BY <1>1, <2>1, <2>3 DEF Page
    <3>2. Pages' = [Pages EXCEPT ![i] = "finished"]
      BY <2>2, <3>1 DEF Pages
    <3>3. Hearing' = Hearing
      BY <1>1 DEF Hearing, Heard
    <3>4. Ledger!Finish(i)
      BY <3>1, <3>2, <3>3 DEF Ledger!Finish, Pages, Hearing
    <3> QED BY <3>4 DEF Ledger!Next
  <2>4. CASE i \notin table
    <3>1. Page(i)' = Page(i)
      BY <1>1, <1>2, <2>1, <2>4 DEF Page
    <3>2. Pages' = Pages
      BY <2>2, <3>1 DEF Pages
    <3> QED BY <1>1, <3>2, Silence
  <2> QED BY <2>3, <2>4
<1> QED BY <1>4, <1>5, <1>6, <1>7 DEF WaiterTask, Processes

LEMMA TickRefines ==
  ASSUME IInv, Tick
  PROVE  UNCHANGED Ledger!vars
<1>1. ASSUME NEW c \in Caller PROVE SameCall(c)
  BY DEF Tick, IInv, TypeOK, Request, SameCall
<1>2. \A j \in JobId : state'[j].status = state[j].status
  BY DEF Tick, IInv, TypeOK, JobState
<1>3. \A j \in JobId : Inserting(j)' <=> Inserting(j)
  BY <1>1 DEF Inserting, At, SameCall
<1>4. \A j \in JobId : Page(j)' = Page(j)
  BY <1>2, <1>3 DEF Page, Tick
<1>5. Pages' = Pages
  BY <1>4 DEF Pages
<1> QED BY <1>1, <1>5, Silence DEF SameCall

\* The job table implements the ledger: pages only move forward, a running job is never
\* forgotten, and each answer is one its job's page allows when it is given.
THEOREM Refinement == SafetySpec => ImplementsLedger
<1>1. Init => Ledger!Init
  <2> SUFFICES ASSUME Init PROVE Ledger!Init
    OBVIOUS
  <2>1. \A j \in JobId : Page(j) = "unknown"
    BY DEF Init, Page
  <2>2. \A c \in Caller : Heard(c) = Nothing
    BY DEF Init, Heard, Idle, Answered
  <2> QED BY <2>1, <2>2 DEF Ledger!Init
<1>2. IInv /\ [Next]_vars => [Ledger!Next]_Ledger!vars
  <2> SUFFICES ASSUME IInv, [Next]_vars PROVE [Ledger!Next]_Ledger!vars
    OBVIOUS
  <2>1. ASSUME NEW c \in Caller, StartBegin(c) PROVE Ledger!Next
    BY <2>1, StartBeginRefines
  <2>2. ASSUME NEW c \in Caller, Spawn(c) PROVE UNCHANGED Ledger!vars
    BY <2>2, SpawnRefines
  <2>3. ASSUME NEW c \in Caller, Insert(c) PROVE Ledger!Next
    BY <2>3, InsertRefines
  <2>4. ASSUME NEW c \in Caller, StopKill(c) PROVE Ledger!Next
    BY <2>4, StopKillRefines
  <2>5. ASSUME NEW c \in Caller, QuietStep(c) PROVE [Ledger!Next]_Ledger!vars
    BY <2>5, QuietRefines
  <2>6. ASSUME NEW j \in JobId, WaiterTask(j) \/ Processes(j)
        PROVE  [Ledger!Next]_Ledger!vars
    BY <2>6, JobRefines
  <2>7. CASE Tick
    BY <2>7, TickRefines
  <2>8. CASE UNCHANGED vars
    <3>1. Pages' = Pages
      <4>1. \A j \in JobId : Page(j)' = Page(j)
        BY <2>8 DEF vars, Page, Inserting, At
      <4> QED BY <4>1 DEF Pages
    <3> QED BY <2>8, <3>1, Silence DEF vars
  <2> QED BY <2>1, <2>2, <2>3, <2>4, <2>5, <2>6, <2>7, <2>8 DEF Next, CallStep, QuietStep
<1> QED BY <1>1, <1>2, Invariance, PTL DEF SafetySpec, ImplementsLedger, Ledger!Spec

=============================================================================
