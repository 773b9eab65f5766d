----------------------------- MODULE ServerProofs -----------------------------
(***************************************************************************)
(* Theorems about Server, for every set of sessions, requests and jobs and  *)
(* every retention: what holds of the sessions alone holds of the composed  *)
(* server, and what it adds to them is safe.                                *)
(***************************************************************************)
EXTENDS Server, SessionsProofs

\* Every LocalMcp is one the factory of this process would build now.
MadeHere == \A s \in Session : server[s] # None => server[s] = New(s)

NothingResidentWhileDown == up \/ \A s \in Session : resident[s] = None

\* The table of the process holds every job of its life that is not past the retention.
TableIsWhole ==
    \A j \in Job :
        /\ life[j].stage = "running" => j \in jobs["main"]
        /\ life[j].stage = "finished" =>
               /\ life[j].finished_at \in Time
               /\ j \in jobs["main"] \/ Reaped(j)

ServerInv ==
    /\ ServerTypeOK
    /\ MadeHere
    /\ NothingResidentWhileDown
    /\ TableIsWhole

-----------------------------------------------------------------------------
\* The steps of the server, as steps of its sessions.
LEMMA SessionStep ==
  ASSUME [ServerNext]_serverVars
  PROVE  [Next]_vars
  <1>1. CASE UNCHANGED serverVars
    BY <1>1 DEF serverVars
  <1>2. CASE ProcessDies \/ ProcessStarts \/ Waits
    BY <1>2 DEF ProcessDies, ProcessStarts, Waits, Next
  <1>3. ASSUME NEW s \in Session, Drops(s) PROVE [Next]_vars
    BY <1>3 DEF Drops, Next
  <1>4. ASSUME NEW j \in Job, JobEnds(j) PROVE [Next]_vars
    BY <1>4 DEF JobEnds
  <1>5. ASSUME NEW c \in Caller, Transport(c) \/ ServesCall(c) PROVE [Next]_vars
    BY <1>5 DEF Transport, ServesCall, Next
  <1> QED
    BY <1>1, <1>2, <1>3, <1>4, <1>5 DEF ServerNext

\* The composition restricts its sessions and adds nothing to what they do: every behaviour
\* of the server is, for its sessions, one of Sessions (main.rs:76-112).
THEOREM SessionsCompose == ServerSpec => Spec
  <1>1. ServerInit => Init
    BY DEF ServerInit
  <1>2. [ServerNext]_serverVars => [Next]_vars
    BY SessionStep
  <1> QED
    BY <1>1, <1>2, PTL DEF ServerSpec, Spec

\* So the server, too, answers 404 on a stored session only when it was deleted or untouched
\* for the retention (sessions.rs:3-10).
THEOREM ServerSessionsLast == ServerSpec => []GoneOnlyIfForgotten
  BY SessionsCompose, SessionsLast, PTL

LEMMA NewIsLocalMcp ==
  ASSUME NEW s \in Session
  PROVE  /\ New(s) \in LocalMcp
         /\ New(s) # None
         /\ New(s).jobs = "main"
         /\ {"start_command", "execute"} \cap New(s).tools # {} => allow_exec
  <1>1. New(s).tools \in SUBSET AllTools /\ New(s).jobs = "main"
    BY DEF New, TableFor, AllTools
  <1>2. New(s) \in LocalMcp
    BY DEF New, TableFor, AllTools, LocalMcp, Maker
  <1>3. {"start_command", "execute"} \cap New(s).tools # {} => allow_exec
    BY DEF New, AllTools, EXEC_TOOLS
  <1> QED
    BY <1>1, <1>2, <1>3, ServerAssumption

-----------------------------------------------------------------------------
\* Building and dropping workers keeps every LocalMcp one of this process.
LEMMA WorkersStep ==
  ASSUME ServerInv, Workers, allow_exec' = allow_exec
  PROVE  /\ server' \in [Session -> LocalMcp \cup {None}]
         /\ (\A s \in Session : server[s] = None <=> resident[s] = None)'
         /\ MadeHere'
  <1>1. \A s \in Session : New(s)' = New(s)
    BY DEF New, TableFor
  <1>2. ASSUME NEW s \in Session
        PROVE  /\ server'[s] \in LocalMcp \cup {None}
               /\ server'[s] = None <=> resident'[s] = None
               /\ server'[s] # None => server'[s] = New(s)
    <2>1. /\ server[s] \in LocalMcp \cup {None}
          /\ server[s] = None <=> resident[s] = None
          /\ server[s] # None => server[s] = New(s)
      BY DEF ServerInv, ServerTypeOK, MadeHere
    <2>2. server'[s] = IF resident'[s] = None THEN None
                       ELSE IF resident[s] = None THEN New(s) ELSE server[s]
      BY DEF Workers
    <2>3. New(s) \in LocalMcp /\ New(s) # None
      BY NewIsLocalMcp
    <2> QED
      BY <2>1, <2>2, <2>3
  <1>3. server' = [s \in Session |-> server'[s]]
    BY DEF Workers
  <1> QED
    BY <1>1, <1>2, <1>3 DEF MadeHere

\* Whoever is served has a LocalMcp of this process.
LEMMA ServedHere ==
  ASSUME IInv, ServerInv, NEW c \in Caller, Serve(c) \/ Restore(c), Workers,
         allow_exec' = allow_exec
  PROVE  /\ req'[c].session \in Session
         /\ server'[req'[c].session] = New(req'[c].session)
  <1>1. PICK s \in Session : Serves(c, s)
    <2>1. CASE Serve(c)
      BY <2>1 DEF Serve
    <2>2. CASE Restore(c)
      <3>1. req[c].session \in Session
        BY <2>2 DEF Restore, At, IInv, RequestsNameKnown
      <3> QED
        BY <2>2, <3>1 DEF Restore
    <2> QED
      BY <2>1, <2>2
  <1>2. req'[c].session = s /\ resident'[s] = now
    BY <1>1 DEF Serves, Becomes, IInv, TypeOK
  <1>3. now # None
    BY SessionsAssumption DEF IInv, TypeOK, Time
  <1>4. server'[s] # None /\ MadeHere'
    BY <1>2, <1>3, WorkersStep
  <1>5. New(s)' = New(s)
    BY DEF New, TableFor
  <1> QED
    BY <1>2, <1>4, <1>5 DEF MadeHere

\* Time makes no job leave the table's care.
LEMMA TableKept ==
  ASSUME ServerInv, now \in Time, now' \in Time, now <= now', UNCHANGED <<jobs, life>>
  PROVE  TableIsWhole'
  <1>1. SUFFICES ASSUME NEW j \in Job
                 PROVE  /\ life[j].stage = "running" => j \in jobs["main"]
                        /\ life[j].stage = "finished" =>
                               /\ life[j].finished_at \in Time
                               /\ j \in jobs["main"]
                                     \/ life[j].finished_at + JobRetention <= now'
    BY DEF TableIsWhole, Reaped
  <1>2. /\ life[j].stage = "running" => j \in jobs["main"]
        /\ life[j].stage = "finished" =>
               /\ life[j].finished_at \in Time
               /\ j \in jobs["main"] \/ life[j].finished_at + JobRetention <= now
    BY DEF ServerInv, TableIsWhole, Reaped
  <1>3. Time \subseteq Nat /\ JobRetention \in Nat
    BY SessionsAssumption, ServerAssumption DEF Time
  <1>4. ASSUME life[j].finished_at \in Time, life[j].finished_at + JobRetention <= now
        PROVE  life[j].finished_at + JobRetention <= now'
    <2> DEFINE f == life[j].finished_at
    <2>1. f \in Nat /\ now \in Nat /\ now' \in Nat /\ f + JobRetention <= now
      BY <1>3, <1>4
    <2> HIDE DEF f
    <2>2. f + JobRetention <= now'
      BY <1>3, <2>1
    <2> QED
      BY <2>2 DEF f
  <1> QED
    BY <1>2, <1>4

\* A step that leaves configuration and jobs alone.
LEMMA IdleParts ==
  ASSUME IInv, ServerInv, Workers, UNCHANGED <<allow_exec, jobs, life, now>>,
         up' = up, up \/ \A s \in Session : resident'[s] = None
  PROVE  ServerInv'
  <1>1. TableIsWhole'
    BY TableKept, SessionsAssumption DEF IInv, TypeOK, Time
  <1>2. /\ server' \in [Session -> LocalMcp \cup {None}]
        /\ (\A s \in Session : server[s] = None <=> resident[s] = None)'
        /\ MadeHere'
    BY WorkersStep
  <1> QED
    BY <1>1, <1>2 DEF ServerInv, ServerTypeOK, NothingResidentWhileDown

LEMMA TransportStep ==
  ASSUME IInv, ServerInv, NEW c \in Caller, Transport(c)
  PROVE  ServerInv'
  <1>1. up /\ up' = up /\ now' = now
    BY DEF Transport, Initialize, Store, StoreFails, Misses, Load, NotFound, Close, Delete,
           Aborts, At
  <1> QED
    BY <1>1, IdleParts DEF Transport

LEMMA DropsStep ==
  ASSUME IInv, ServerInv, NEW s \in Session, Drops(s)
  PROVE  ServerInv'
  <1>1. up /\ up' = up /\ now' = now
    BY DEF Drops, Evict
  <1> QED
    BY <1>1, IdleParts DEF Drops

\* A job starts on a LocalMcp of this process, so only where the shell is on, and is put in
\* the process's own table.
LEMMA StartStep ==
  ASSUME IInv, ServerInv, NEW s \in Session, StartsJob(New(s)), now' = now
  PROVE  /\ allow_exec
         /\ jobs' \in [Maker -> SUBSET Job]
         /\ life' \in [Job -> Life]
         /\ TableIsWhole'
  <1>1. allow_exec
    BY NewIsLocalMcp DEF StartsJob, Routed
  <1>2. PICK j \in Job :
           /\ life[j].stage = "unborn"
           /\ life' = [life EXCEPT ![j] = [life[j] EXCEPT !.stage = "running"]]
           /\ jobs' = [jobs EXCEPT !["main"] = {i \in jobs["main"] : ~Reaped(i)} \cup {j}]
    BY NewIsLocalMcp DEF StartsJob, Kept
  <1>3. /\ jobs \in [Maker -> SUBSET Job] /\ "main" \in Maker
        /\ life \in [Job -> Life]
    BY DEF ServerInv, ServerTypeOK, Maker
  <1>4. [life[j] EXCEPT !.stage = "running"] \in Life
        /\ [life[j] EXCEPT !.stage = "running"].stage = "running"
    BY <1>3 DEF Life
  <1>5. jobs' \in [Maker -> SUBSET Job] /\ life' \in [Job -> Life]
    BY <1>2, <1>3, <1>4
  <1>6. jobs'["main"] = {i \in jobs["main"] : ~Reaped(i)} \cup {j}
    BY <1>2, <1>3
  <1>7. /\ life'[j].stage = "running"
        /\ \A i \in Job \ {j} : life'[i] = life[i]
    BY <1>2, <1>3, <1>4
  <1>8. ASSUME NEW i \in Job
        PROVE  /\ life'[i].stage = "running" => i \in jobs'["main"]
               /\ life'[i].stage = "finished" =>
                     /\ life'[i].finished_at \in Time
                     /\ i \in jobs'["main"] \/ Reaped(i)'
    <2>1. CASE i = j
      BY <2>1, <1>6, <1>7
    <2>2. CASE i # j
      <3>1. life'[i] = life[i] /\ (Reaped(i)' <=> Reaped(i))
        BY <2>2, <1>7 DEF Reaped
      <3>2. /\ life[i].stage = "running" => i \in jobs["main"] /\ ~Reaped(i)
            /\ life[i].stage = "finished" =>
                  life[i].finished_at \in Time /\ (i \in jobs["main"] \/ Reaped(i))
        BY DEF ServerInv, TableIsWhole, Reaped
      <3> QED
        BY <3>1, <3>2, <1>6
    <2> QED
      BY <2>1, <2>2
  <1>9. TableIsWhole'
    BY <1>8 DEF TableIsWhole
  <1> QED
    BY <1>1, <1>5, <1>9

\* A start that fails has reaped what was past its retention, and nothing else.
LEMMA StartFailsStep ==
  ASSUME IInv, ServerInv, NEW s \in Session, StartFails(New(s)), now' = now
  PROVE  /\ jobs' \in [Maker -> SUBSET Job]
         /\ TableIsWhole'
  <1>1. jobs' = [jobs EXCEPT !["main"] = {i \in jobs["main"] : ~Reaped(i)}] /\ life' = life
    BY NewIsLocalMcp DEF StartFails, Kept
  <1>2. jobs \in [Maker -> SUBSET Job] /\ "main" \in Maker
    BY DEF ServerInv, ServerTypeOK, Maker
  <1>3. /\ jobs' \in [Maker -> SUBSET Job]
        /\ jobs'["main"] = {i \in jobs["main"] : ~Reaped(i)}
    BY <1>1, <1>2
  <1>4. ASSUME NEW i \in Job
        PROVE  /\ life'[i].stage = "running" => i \in jobs'["main"]
               /\ life'[i].stage = "finished" =>
                     /\ life'[i].finished_at \in Time
                     /\ i \in jobs'["main"] \/ Reaped(i)'
    <2>1. life'[i] = life[i] /\ (Reaped(i)' <=> Reaped(i))
      BY <1>1 DEF Reaped
    <2>2. /\ life[i].stage = "running" => i \in jobs["main"] /\ ~Reaped(i)
          /\ life[i].stage = "finished" =>
                life[i].finished_at \in Time /\ (i \in jobs["main"] \/ Reaped(i))
      BY DEF ServerInv, TableIsWhole, Reaped
    <2> QED
      BY <2>1, <2>2, <1>3
  <1>5. TableIsWhole'
    BY <1>4 DEF TableIsWhole
  <1> QED
    BY <1>3, <1>5

LEMMA ServesStep ==
  ASSUME IInv, ServerInv, NEW c \in Caller, ServesCall(c)
  PROVE  /\ ServerInv'
         /\ life' = life \/ allow_exec
  <1>1. up /\ up' = up /\ now' = now
    BY DEF ServesCall, Serve, Restore, At
  <1>2. allow_exec' = allow_exec
    BY DEF ServesCall, StartsJob, StartFails, OtherCall
  <1>3. PICK s \in Session : server'[req'[c].session] = New(s) /\ server'[s] = New(s)
    BY <1>2, ServedHere DEF ServesCall
  <1>4. StartsJob(New(s)) \/ StartFails(New(s)) \/ OtherCall
    BY <1>3 DEF ServesCall
  <1>5. /\ server' \in [Session -> LocalMcp \cup {None}]
        /\ (\A t \in Session : server[t] = None <=> resident[t] = None)'
        /\ MadeHere'
    BY <1>2, WorkersStep DEF ServesCall
  <1>6. now \in Time /\ now' \in Time /\ now <= now'
    BY <1>1, SessionsAssumption DEF IInv, TypeOK, Time
  <1>7. CASE StartsJob(New(s))
    <2>1. /\ allow_exec
          /\ jobs' \in [Maker -> SUBSET Job] /\ life' \in [Job -> Life] /\ TableIsWhole'
      BY <1>1, <1>7, StartStep
    <2> QED
      BY <1>1, <1>2, <1>5, <2>1 DEF ServerInv, ServerTypeOK, NothingResidentWhileDown
  <1>8. CASE OtherCall
    <2>1. UNCHANGED <<jobs, life>>
      BY <1>8 DEF OtherCall
    <2>2. TableIsWhole'
      BY <2>1, <1>6, TableKept
    <2> QED
      BY <1>1, <1>2, <1>5, <2>1, <2>2 DEF ServerInv, ServerTypeOK, NothingResidentWhileDown
  <1>9. CASE StartFails(New(s))
    <2>1. UNCHANGED life
      BY <1>9 DEF StartFails
    <2>2. jobs' \in [Maker -> SUBSET Job] /\ TableIsWhole'
      BY <1>1, <1>9, StartFailsStep
    <2> QED
      BY <1>1, <1>2, <1>5, <2>1, <2>2 DEF ServerInv, ServerTypeOK, NothingResidentWhileDown
  <1> QED
    BY <1>4, <1>7, <1>8, <1>9

LEMMA JobEndsStep ==
  ASSUME IInv, ServerInv, NEW j \in Job, JobEnds(j)
  PROVE  ServerInv'
  <1>1. /\ UNCHANGED vars /\ UNCHANGED <<allow_exec, server, jobs>>
        /\ life[j].stage = "running"
        /\ life' = [life EXCEPT ![j] = [stage |-> "finished", finished_at |-> now]]
    BY DEF JobEnds
  <1>2. now \in Time /\ now' = now
    BY <1>1 DEF IInv, TypeOK, vars
  <1>3. life \in [Job -> Life]
    BY DEF ServerInv, ServerTypeOK
  <1>4. [stage |-> "finished", finished_at |-> now] \in Life
    BY <1>2 DEF Life
  <1>5. life' \in [Job -> Life] /\ life'[j].finished_at = now
        /\ \A i \in Job \ {j} : life'[i] = life[i]
    BY <1>1, <1>3, <1>4
  <1>6. j \in jobs["main"]
    BY <1>1 DEF ServerInv, TableIsWhole
  <1>7. ASSUME NEW i \in Job
        PROVE  /\ life'[i].stage = "running" => i \in jobs["main"]
               /\ life'[i].stage = "finished" =>
                     /\ life'[i].finished_at \in Time
                     /\ i \in jobs["main"] \/ Reaped(i)'
    <2>1. CASE i = j
      BY <2>1, <1>2, <1>5, <1>6, <1>1, <1>3
    <2>2. CASE i # j
      <3>1. life'[i] = life[i] /\ (Reaped(i)' <=> Reaped(i))
        BY <2>2, <1>2, <1>5 DEF Reaped
      <3> QED
        BY <3>1 DEF ServerInv, TableIsWhole
    <2> QED
      BY <2>1, <2>2
  <1>8. TableIsWhole'
    BY <1>1, <1>7 DEF TableIsWhole
  <1>9. \A s \in Session : New(s)' = New(s)
    BY <1>1 DEF New, TableFor
  <1> QED
    BY <1>1, <1>5, <1>8, <1>9
    DEF ServerInv, ServerTypeOK, MadeHere, NothingResidentWhileDown, vars

LEMMA ProcessStep ==
  ASSUME IInv, ServerInv, ProcessDies \/ ProcessStarts \/ Waits
  PROVE  ServerInv'
  <1>1. CASE ProcessDies
    <2>1. /\ up' = FALSE /\ resident' = [s \in Session |-> None]
          /\ jobs' = [m \in Maker |-> {}] /\ UNCHANGED allow_exec
          /\ life' = [j \in Job |-> IF life[j].stage = "unborn" THEN life[j]
                                     ELSE [stage |-> "lost", finished_at |-> None]]
      BY <1>1 DEF ProcessDies, Crash
    <2>2. /\ server' \in [Session -> LocalMcp \cup {None}]
          /\ (\A s \in Session : server[s] = None <=> resident[s] = None)'
          /\ MadeHere'
      BY <1>1, <2>1, WorkersStep DEF ProcessDies
    <2>3. [stage |-> "lost", finished_at |-> None] \in Life
      BY DEF Life
    <2>4. life' \in [Job -> Life]
      BY <2>1, <2>3 DEF ServerInv, ServerTypeOK
    <2>5. \A j \in Job : life'[j].stage \in {"unborn", "lost"}
      BY <2>1
    <2>6. TableIsWhole'
      BY <2>5 DEF TableIsWhole
    <2>7. \A s \in Session : New(s)' = New(s)
      BY <2>1 DEF New, TableFor
    <2> QED
      BY <2>1, <2>2, <2>4, <2>6, <2>7
      DEF ServerInv, ServerTypeOK, NothingResidentWhileDown
  <1>2. CASE ProcessStarts
    <2>1. /\ ~up /\ up' = TRUE /\ UNCHANGED <<resident, now, server, jobs, life>>
          /\ allow_exec' \in BOOLEAN
      BY <1>2 DEF ProcessStarts, Restart, AllowExec
    <2>2. \A s \in Session : server[s] = None
      BY <2>1 DEF ServerInv, ServerTypeOK, NothingResidentWhileDown
    <2>3. TableIsWhole'
      BY <2>1, TableKept, SessionsAssumption DEF IInv, TypeOK, Time
    <2> QED
      BY <2>1, <2>2, <2>3
      DEF ServerInv, ServerTypeOK, MadeHere, NothingResidentWhileDown
  <1>3. CASE Waits
    <2>1. /\ now < MaxTime /\ now' = now + 1 /\ UNCHANGED <<up, resident>>
          /\ UNCHANGED <<allow_exec, server, jobs, life>>
      BY <1>3 DEF Waits, Tick, parts
    <2>2. now \in Time /\ now' \in Time /\ now <= now'
      BY <2>1, SessionsAssumption DEF IInv, TypeOK, Time
    <2>3. TableIsWhole'
      BY <2>1, <2>2, TableKept
    <2>4. \A s \in Session : New(s)' = New(s)
      BY <2>1 DEF New, TableFor
    <2> QED
      BY <2>1, <2>3, <2>4
      DEF ServerInv, ServerTypeOK, MadeHere, NothingResidentWhileDown
  <1> QED
    BY <1>1, <1>2, <1>3

LEMMA ServerInitInv == ServerInit => ServerInv
  <1> SUFFICES ASSUME ServerInit PROVE ServerInv
    OBVIOUS
  <1>1. /\ allow_exec \in BOOLEAN /\ up = TRUE
        /\ server = [s \in Session |-> None] /\ resident = [s \in Session |-> None]
        /\ jobs = [m \in Maker |-> {}]
        /\ life = [j \in Job |-> [stage |-> "unborn", finished_at |-> None]]
    BY DEF ServerInit, Init, AllowExec
  <1>2. [stage |-> "unborn", finished_at |-> None] \in Life
    BY DEF Life
  <1>3. TableIsWhole
    BY <1>1 DEF TableIsWhole
  <1> QED
    BY <1>1, <1>2, <1>3
    DEF ServerInv, ServerTypeOK, MadeHere, NothingResidentWhileDown

\* A job starts only while the shell is on; every step keeps the invariant.
LEMMA ServerNextInv ==
  ASSUME IInv, ServerInv, [ServerNext]_serverVars
  PROVE  /\ ServerInv'
         /\ \A j \in Job : life[j].stage = "unborn" /\ life'[j].stage # "unborn" => allow_exec
  <1>1. CASE UNCHANGED serverVars
    <2>1. /\ UNCHANGED <<up, resident, now>>
          /\ UNCHANGED <<allow_exec, server, jobs, life>>
      BY <1>1 DEF serverVars, vars, parts
    <2>2. (\A s \in Session : New(s)' = New(s)) /\ (\A j \in Job : Reaped(j)' <=> Reaped(j))
      BY <2>1 DEF New, TableFor, Reaped
    <2> QED
      BY <2>1, <2>2
      DEF ServerInv, ServerTypeOK, MadeHere, NothingResidentWhileDown, TableIsWhole
  <1>2. CASE ProcessDies \/ ProcessStarts \/ Waits
    <2>1. \A j \in Job : life[j].stage = "unborn" => life'[j].stage = "unborn"
      BY <1>2 DEF ProcessDies, ProcessStarts, Waits, parts
    <2> QED
      BY <1>2, <2>1, ProcessStep
  <1>3. ASSUME NEW s \in Session, Drops(s)
        PROVE  ServerInv' /\ life' = life
    BY <1>3, DropsStep DEF Drops
  <1>4. ASSUME NEW i \in Job, JobEnds(i)
        PROVE  /\ ServerInv'
               /\ \A j \in Job : life[j].stage = "unborn" => life'[j].stage = "unborn"
    <2>1. \A j \in Job : life[j].stage = "unborn" => life'[j].stage = "unborn"
      <3>1. life \in [Job -> Life]
        BY DEF ServerInv, ServerTypeOK
      <3>2. \A j \in Job \ {i} : life'[j] = life[j]
        BY <1>4, <3>1 DEF JobEnds
      <3> QED
        BY <1>4, <3>2 DEF JobEnds
    <2> QED
      BY <1>4, <2>1, JobEndsStep
  <1>5. ASSUME NEW c \in Caller, Transport(c)
        PROVE  ServerInv' /\ life' = life
    BY <1>5, TransportStep DEF Transport
  <1>6. ASSUME NEW c \in Caller, ServesCall(c)
        PROVE  ServerInv' /\ (life' = life \/ allow_exec)
    BY <1>6, ServesStep
  <1> QED
    BY <1>1, <1>2, <1>3, <1>4, <1>5, <1>6 DEF ServerNext

-----------------------------------------------------------------------------
\* The invariant of the composition, which rests on that of its sessions.
THEOREM ServerInvariance == ServerSpec => []ServerInv
  <1>1. ServerInit => ServerInv
    BY ServerInitInv
  <1>2. IInv /\ ServerInv /\ [ServerNext]_serverVars => ServerInv'
    BY ServerNextInv
  <1>3. ServerSpec => []IInv
    BY SessionsCompose, Invariance, PTL
  <1> QED
    BY <1>1, <1>2, <1>3, PTL DEF ServerSpec

\* The parts keep their types, and exactly the sessions in memory have a LocalMcp.
THEOREM ServerTypeCorrect == ServerSpec => []ServerTypeOK
  <1>1. ServerInv => ServerTypeOK
    BY DEF ServerInv
  <1> QED
    BY <1>1, ServerInvariance, PTL

\* A job id answers on every session of its process until the retention (main.rs:81-87).
THEOREM JobIdsOutliveSessions == ServerSpec => []JobsOutliveSessions
  <1>1. ServerInv => JobsOutliveSessions
    <2>1. SUFFICES ASSUME ServerInv, NEW j \in Job, NEW s \in Session,
                          life[j].stage \in {"running", "finished"}, server[s] # None,
                          j \notin jobs[server[s].jobs]
                   PROVE  Reaped(j)
      BY DEF JobsOutliveSessions
    <2>2. server[s].jobs = "main"
      BY <2>1, NewIsLocalMcp DEF ServerInv, MadeHere
    <2> QED
      BY <2>1, <2>2 DEF ServerInv, TableIsWhole
  <1> QED
    BY <1>1, ServerInvariance, PTL

\* No job starts in a process that has the shell switched off (server.rs:337-339).
THEOREM SwitchedOffStaysOff == ServerSpec => NoJobWithoutExec
  <1> DEFINE OnlyWithExec ==
        \A j \in Job : life[j].stage = "unborn" /\ life'[j].stage # "unborn" => allow_exec
  <1>1. IInv /\ ServerInv /\ [ServerNext]_serverVars => [OnlyWithExec]_serverVars
    BY ServerNextInv
  <1>2. ServerSpec => []IInv
    BY SessionsCompose, Invariance, PTL
  <1>3. ServerSpec => [][OnlyWithExec]_serverVars
    BY <1>1, <1>2, ServerInvariance, PTL DEF ServerSpec
  <1> QED
    BY <1>3 DEF NoJobWithoutExec
=============================================================================
