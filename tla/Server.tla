-------------------------------- MODULE Server --------------------------------
(***************************************************************************)
(* The process as main.rs puts it together: the sessions of Sessions, each  *)
(* with a LocalMcp of its own that the factory builds when the session is   *)
(* opened and again when it is revived, over one job table made at startup. *)
(* What a LocalMcp routes depends on LOCAL_MCP_ALLOW_EXEC, which is read    *)
(* when the process starts and may differ from one start to the next.       *)
(*                                                                          *)
(* A job is no more than its id here: module Jobs has its life. Of the      *)
(* tools, the ones that start a command are told apart; the others touch    *)
(* nothing that is modelled here. A client may call any tool at any time:   *)
(* what it knows of them may be a list that an earlier process answered.    *)
(***************************************************************************)
EXTENDS Sessions

CONSTANTS
    Job,           \* job ids that may be drawn
    JobRetention   \* LOCAL_MCP_JOB_RETENTION, in ticks

EXEC_TOOLS == {"execute", "start_command", "poll_job", "stop_job"}

AllTools == EXEC_TOOLS \cup {"read_file", "write_file", "edit_file", "list_dir", "search"}

\* A table made at startup, and those a factory could make for single sessions.
Maker == {"main"} \cup Session

LocalMcp == [tools : SUBSET AllTools, jobs : Maker]

Life == [stage : {"unborn", "running", "finished", "lost"}, finished_at : Time \cup {None}]

ASSUME ServerAssumption ==
    /\ JobRetention \in Nat
    /\ None \notin LocalMcp

VARIABLES
    allow_exec,    \* Config::allow_exec of this process
    server,        \* session -> the LocalMcp of its worker, or None
    jobs,          \* job tables, by who made them: the ids each holds
    life           \* job -> not drawn, running, finished, lost with its process; and when
                   \* it finished

parts == <<allow_exec, server, jobs, life>>
serverVars == <<vars, parts>>

-----------------------------------------------------------------------------
\* What LOCAL_MCP_ALLOW_EXEC may hold; blank counts as unset.
Setting == {"unset", "blank", "true", "false", "0", "no"}

AllowExec(setting) == setting \notin {"false", "0", "no"}

\* Jobs::new in the factory: every session with a table of its own.
TableOfItsOwn(s) == s

\* jobs.clone(): a handle on the table of the process.
TableFor(s) == "main"

\* LocalMcp::new: the router without the tools that are switched off.
New(s) == [tools |-> IF allow_exec THEN AllTools ELSE AllTools \ EXEC_TOOLS,
           jobs |-> TableFor(s)]

\* The LocalMcp of a session left in place when its worker goes.
KeepsDropped ==
    server' = [s \in Session |->
                  IF resident[s] = None /\ resident'[s] # None THEN New(s) ELSE server[s]]

\* A worker has its LocalMcp from when it is built to when it is dropped.
Workers ==
    server' = [s \in Session |->
                  IF resident'[s] = None THEN None
                  ELSE IF resident[s] = None THEN New(s) ELSE server[s]]

-----------------------------------------------------------------------------
(***************************************************************************)
(* What a session is served.                                                *)
(***************************************************************************)
\* The router built anew for each call, as the macro does when it is not given one.
Rebuilt(mcp) == AllTools

\* tool_handler(router = self.tool_router)
Routed(mcp) == mcp.tools

\* finished_at.elapsed() >= retention
Reaped(j) == life[j].stage = "finished" /\ life[j].finished_at + JobRetention <= now

\* Jobs::reap, which every start begins with.
Kept(mcp) == {j \in jobs[mcp.jobs] : ~Reaped(j)}

\* start_command, and execute on its way: the reap, then the new job.
StartsJob(mcp) ==
    /\ {"start_command", "execute"} \cap Routed(mcp) # {}
    /\ \E j \in Job :
          /\ life[j].stage = "unborn"
          /\ life' = [life EXCEPT ![j].stage = "running"]
          /\ jobs' = [jobs EXCEPT ![mcp.jobs] = Kept(mcp) \cup {j}]
    /\ UNCHANGED allow_exec

\* The command cannot be spawned: the reap has been done all the same.
StartFails(mcp) ==
    /\ {"start_command", "execute"} \cap Routed(mcp) # {}
    /\ jobs' = [jobs EXCEPT ![mcp.jobs] = Kept(mcp)]
    /\ UNCHANGED <<allow_exec, life>>

\* Any other tool, one that is not routed, or the list of those that are.
OtherCall == UNCHANGED <<allow_exec, jobs, life>>

ServesCall(c) ==
    /\ Serve(c) \/ Restore(c)
    /\ Workers
    /\ LET mcp == server'[req'[c].session]
       IN  StartsJob(mcp) \/ StartFails(mcp) \/ OtherCall

\* The steps of a request in which no tool is reached.
Transport(c) ==
    /\ \/ Initialize(c) \/ Store(c) \/ StoreFails(c) \/ Misses(c) \/ Load(c) \/ NotFound(c)
       \/ Close(c) \/ Delete(c) \/ Aborts(c)
    /\ Workers
    /\ UNCHANGED <<allow_exec, jobs, life>>

Drops(s) == Evict(s) /\ Workers /\ UNCHANGED <<allow_exec, jobs, life>>

-----------------------------------------------------------------------------
(***************************************************************************)
(* Jobs, the process and time.                                              *)
(***************************************************************************)
JobEnds(j) ==
    /\ life[j].stage = "running"
    /\ life' = [life EXCEPT ![j] = [stage |-> "finished", finished_at |-> now]]
    /\ UNCHANGED <<vars, allow_exec, server, jobs>>

\* The process takes its table with it, and what it had in memory of its sessions.
ProcessDies ==
    /\ Crash
    /\ Workers
    /\ jobs' = [m \in Maker |-> {}]
    /\ life' = [j \in Job |-> IF life[j].stage = "unborn" THEN life[j]
                             ELSE [stage |-> "lost", finished_at |-> None]]
    /\ UNCHANGED allow_exec

\* main: Config::from_env, the store, the sweep, the table.
ProcessStarts ==
    /\ Restart
    /\ \E setting \in Setting : allow_exec' = AllowExec(setting)
    /\ UNCHANGED <<server, jobs, life>>

Waits == Tick /\ UNCHANGED parts

ServerInit ==
    /\ Init
    /\ \E setting \in Setting : allow_exec = AllowExec(setting)
    /\ server = [s \in Session |-> None]
    /\ jobs = [m \in Maker |-> {}]
    /\ life = [j \in Job |-> [stage |-> "unborn", finished_at |-> None]]

ServerNext ==
    \/ ProcessDies \/ ProcessStarts \/ Waits
    \/ \E s \in Session : Drops(s)
    \/ \E j \in Job : JobEnds(j)
    \/ \E c \in Caller : Transport(c) \/ ServesCall(c)

ServerSpec == ServerInit /\ [][ServerNext]_serverVars

-----------------------------------------------------------------------------
(***************************************************************************)
(* Properties.                                                              *)
(***************************************************************************)
\* The parts keep their types, and exactly the sessions in memory have a LocalMcp.
ServerTypeOK ==
    /\ allow_exec \in BOOLEAN
    /\ server \in [Session -> LocalMcp \cup {None}]
    /\ \A s \in Session : server[s] = None <=> resident[s] = None
    /\ jobs \in [Maker -> SUBSET Job]
    /\ life \in [Job -> Life]

\* A job id answers on every session the process serves, whichever session it was handed out
\* on and whether that one was dropped, revived or deleted since, until the job has been
\* finished for the retention (main.rs:81-87).
JobsOutliveSessions ==
    \A j \in Job, s \in Session :
        /\ life[j].stage \in {"running", "finished"}
        /\ server[s] # None
        /\ j \notin jobs[server[s].jobs]
        => Reaped(j)

\* While the shell is switched off no job starts: not on a session that was opened under a
\* process that had it on and is revived in this one, nor for a client that goes on with that
\* process's list of tools (server.rs:32-35, 337-339, README.md:37).
NoJobWithoutExec ==
    [][\A j \in Job : life[j].stage = "unborn" /\ life'[j].stage # "unborn" => allow_exec]_serverVars
=============================================================================
