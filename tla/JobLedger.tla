----------------------------- MODULE JobLedger -----------------------------
(***************************************************************************)
(* What the job tools promise their clients, with no processes, tasks or    *)
(* locks: every job has one page in a ledger that only ever moves forward,  *)
(* and an answer about a job is one its page allows when it is given.       *)
(*                                                                          *)
(*   unknown   -- not in the table yet: nothing is said about it            *)
(*   running   -- in the table, its status not yet set                      *)
(*   finished  -- in the table, its status set                              *)
(*   forgotten -- dropped from the table by reap                            *)
(***************************************************************************)
CONSTANTS
    JobId,         \* the job ids that may be handed out
    Caller,        \* the calls that may be in flight
    Nothing        \* what a caller with no answer has heard

VARIABLES
    ledger,        \* job id -> its page
    heard          \* caller -> the answer to its last call, until it calls again

vars == <<ledger, heard>>

Page == {"unknown", "running", "finished", "forgotten"}

Answer == {"started", "running", "finished", "still running", "gone",
           "stopped", "unsignalled", "already finished"}

Told(j, answer) == [job |-> j, answer |-> answer]

(***************************************************************************)
(* The answers a page allows. "running" is said only while it is true and   *)
(* "gone" only of a forgotten job. execute's "still running", and stop's    *)
(* two outcomes of kill, may be said of a job that has finished since.      *)
(***************************************************************************)
MayTell(page) ==
    LET loose == {"started", "still running", "stopped", "unsignalled"}
    IN  CASE page = "unknown"   -> {}
          [] page = "running"   -> loose \cup {"running"}
          [] page = "finished"  -> loose \cup {"finished", "already finished"}
          [] page = "forgotten" -> loose \cup {"finished", "already finished", "gone"}

Init == /\ ledger = [j \in JobId |-> "unknown"]
        /\ heard = [c \in Caller |-> Nothing]

\* The job enters the table; a command quicker than the insert is already over.
\* Whoever opened it may be told its id at once.
Open(j) ==
    /\ ledger[j] = "unknown"
    /\ \E page \in {"running", "finished"} : ledger' = [ledger EXCEPT ![j] = page]
    /\ \/ UNCHANGED heard
       \/ \E c \in Caller :
             heard[c] = Nothing /\ heard' = [heard EXCEPT ![c] = Told(j, "started")]

Finish(j) ==
    /\ ledger[j] = "running"
    /\ ledger' = [ledger EXCEPT ![j] = "finished"]
    /\ UNCHANGED heard

\* A caller makes its next call. Starting a job first drops any number of finished
\* ones, and never a running one.
Call(c, gone) ==
    /\ \A j \in gone : ledger[j] = "finished"
    /\ ledger' = [j \in JobId |-> IF j \in gone THEN "forgotten" ELSE ledger[j]]
    /\ heard' = [heard EXCEPT ![c] = Nothing]

Tell(c, j, answer) ==
    /\ heard[c] = Nothing
    /\ answer \in MayTell(ledger[j])
    /\ heard' = [heard EXCEPT ![c] = Told(j, answer)]
    /\ UNCHANGED ledger

Next == \/ \E j \in JobId : Open(j) \/ Finish(j)
        \/ \E c \in Caller, gone \in SUBSET JobId : Call(c, gone)
        \/ \E c \in Caller, j \in JobId, answer \in Answer : Tell(c, j, answer)

Spec == Init /\ [][Next]_vars
=============================================================================
