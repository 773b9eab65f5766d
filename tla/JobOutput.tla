------------------------------ MODULE JobOutput ------------------------------
(***************************************************************************)
(* The output of one job: what the command writes goes through two bounded  *)
(* pipes, a pump task per pipe reads it in chunks and appends them, under   *)
(* one lock, to a buffer that stops growing at LOCAL_MCP_MAX_OUTPUT.        *)
(*                                                                          *)
(* The shell and the processes it left in the background both hold the      *)
(* write ends: a pipe ends when the last of them is gone, which may be long *)
(* after the shell's exit was recorded. A client asks for snapshots of the   *)
(* job all the while, one after another.                                    *)
(***************************************************************************)
EXTENDS Integers, SequencesExt

CONSTANTS
    Stream,        \* the pipes: stdout and stderr
    MaxOutput,     \* LOCAL_MCP_MAX_OUTPUT, in units of data
    PipeCap,       \* units the kernel buffers per pipe
    ChunkCap,      \* units one read takes at most: the 8192-byte array
    MaxWritten,    \* bound: units a command writes to one stream
    Continuation,  \* the units that go on with a character of UTF-8
    Trail          \* unit -> how many of those a character that begins with it has

\* A unit is a byte: a stream, and its number in what is written to it.
Unit == Stream \X (1 .. MaxWritten)

ASSUME OutputAssumption ==
    /\ MaxOutput \in Nat
    /\ {PipeCap, ChunkCap, MaxWritten} \subseteq Nat \ {0}
    /\ Continuation \subseteq Unit
    /\ Trail \in [Unit -> 0 .. 3]

VARIABLES
    written,       \* stream -> units written to it so far
    taken,         \* stream -> units the pump has read from it so far
    pump,          \* stream -> its pump task: where it stands, units in its chunk
    output,        \* JobState.output: units <<stream, number>> in the order kept
    leader,        \* the shell: running or over
    brood,         \* whether background processes still hold the pipes
    status,        \* JobState.status
    reading,       \* the snapshot a call is taking: before its first read, or the
                   \* output it has read while the status is still to be read
    answer         \* the last snapshot a call answered with: what of the output is text

vars == <<written, taken, pump, output, leader, brood, status, reading, answer>>

jobVars == <<written, taken, pump, output, leader, brood, status>>
pollVars == <<reading, answer>>

\* A text is its characters, each by the place in the buffer where it begins.
IsText(text) == DOMAIN text \subseteq 1 .. MaxOutput /\ text \in [DOMAIN text -> Seq(Unit)]

NotReading == [begun |-> FALSE, output |-> <<>>]

Pumping == [pc : {"read", "append", "ended"}, chunk : 0 .. ChunkCap]

Init ==
    /\ written = [s \in Stream |-> 0]
    /\ taken = [s \in Stream |-> 0]
    /\ pump = [s \in Stream |-> [pc |-> "read", chunk |-> 0]]
    /\ output = <<>>
    /\ leader = "running"
    /\ brood = FALSE
    /\ status = "Running"
    /\ reading = NotReading
    /\ answer = [output |-> <<>>, status |-> "Running"]

-----------------------------------------------------------------------------
(***************************************************************************)
(* The command.                                                             *)
(***************************************************************************)
InPipe(s) == written[s] - taken[s]

HeldOpen == leader = "running" \/ brood

\* Whoever holds the write end writes; a full pipe blocks the writer.
Write(s) ==
    /\ HeldOpen
    /\ written[s] < MaxWritten
    /\ InPipe(s) < PipeCap
    /\ written' = [written EXCEPT ![s] = @ + 1]
    /\ UNCHANGED <<taken, pump, output, leader, brood, status, pollVars>>

LeaderForks ==
    /\ leader = "running"
    /\ brood' = TRUE
    /\ UNCHANGED <<written, taken, pump, output, leader, status, pollVars>>

LeaderExits ==
    /\ leader = "running"
    /\ leader' = "over"
    /\ UNCHANGED <<written, taken, pump, output, brood, status, pollVars>>

BroodExits ==
    /\ brood
    /\ brood' = FALSE
    /\ UNCHANGED <<written, taken, pump, output, leader, status, pollVars>>

\* The waiter records the shell's end; it does not wait for the pumps.
SetsStatus ==
    /\ leader = "over"
    /\ status = "Running"
    /\ status' = "Ended"
    /\ UNCHANGED <<written, taken, pump, output, leader, brood, pollVars>>

-----------------------------------------------------------------------------
(***************************************************************************)
(* A pump task.                                                             *)
(***************************************************************************)
\* The whole array taken for data, whatever read says it filled.
ReadsBlind(s) ==
    /\ pump[s].pc = "read"
    /\ InPipe(s) > 0
    /\ taken' = [taken EXCEPT ![s] = @ + ChunkCap]
    /\ pump' = [pump EXCEPT ![s] = [pc |-> "append", chunk |-> ChunkCap]]
    /\ UNCHANGED <<written, output, leader, brood, status, pollVars>>

\* reader.read: some of what the pipe holds, at most one chunk.
Read(s) ==
    /\ pump[s].pc = "read"
    /\ \E n \in 1 .. ChunkCap :
          /\ n <= InPipe(s)
          /\ taken' = [taken EXCEPT ![s] = @ + n]
          /\ pump' = [pump EXCEPT ![s] = [pc |-> "append", chunk |-> n]]
    /\ UNCHANGED <<written, output, leader, brood, status, pollVars>>

\* A read of zero bytes taken for a pause rather than for the end.
NeverEnds(s) ==
    /\ pump[s].pc = "read"
    /\ InPipe(s) = 0
    /\ ~HeldOpen
    /\ UNCHANGED vars

\* End of file: nothing left, and nobody who could write more.
Eof(s) ==
    /\ pump[s].pc = "read"
    /\ InPipe(s) = 0
    /\ ~HeldOpen
    /\ pump' = [pump EXCEPT ![s].pc = "ended"]
    /\ UNCHANGED <<written, taken, output, leader, brood, status, pollVars>>

Room == MaxOutput - Len(output)

Chunk(s) == [i \in 1 .. pump[s].chunk |-> <<s, taken[s] - pump[s].chunk + i>>]

\* A chunk that does not fit is skipped, not cut.
FitsWhole(s) == IF pump[s].chunk <= Room THEN Chunk(s) ELSE <<>>

\* A chunk appended without regard to the room left.
KeepsAll(s) == Chunk(s)

Fitting(s) == IF pump[s].chunk < Room THEN pump[s].chunk ELSE Room

\* The end of the chunk, not its beginning, when there is room for a part only.
KeepsTail(s) == SubSeq(Chunk(s), pump[s].chunk - Fitting(s) + 1, pump[s].chunk)

\* chunk[..read.min(room)]
Kept(s) == SubSeq(Chunk(s), 1, Fitting(s))

\* A pump that stops reading once the buffer is full.
BreaksWhenFull(s) == IF Len(output) >= MaxOutput THEN "ended" ELSE "read"

\* A full buffer is no reason to stop: the pump goes on emptying the pipe.
AfterAppend(s) == "read"

\* The locked section: a full buffer drops the chunk, otherwise what fits is kept.
AppendChunk(s) ==
    /\ pump[s].pc = "append"
    /\ \/ /\ Len(output) >= MaxOutput
          /\ UNCHANGED output
       \/ /\ Len(output) < MaxOutput
          /\ output' = output \o Kept(s)
    /\ pump' = [pump EXCEPT ![s] = [pc |-> AfterAppend(s), chunk |-> 0]]
    /\ UNCHANGED <<written, taken, leader, brood, status, pollVars>>

-----------------------------------------------------------------------------
(***************************************************************************)
(* A snapshot, as poll_job and a finished execute answer with: two fields,   *)
(* each read under its own lock, the output before the status.              *)
(*                                                                          *)
(* The output is decoded as it is read. A character may be there in part:   *)
(* its other bytes not written, not read from the pipe, past the ceiling,   *)
(* or behind a chunk of the other stream.                                   *)
(***************************************************************************)
\* U+FFFD: no character of the command's has no bytes.
Replacement == <<>>

\* The bytes from i to j are of one character, or of the beginning of one.
OneCharacter(bytes, i, j) ==
    /\ bytes[i] \notin Continuation
    /\ j <= i + Trail[bytes[i]]
    /\ \A k \in i + 1 .. j : bytes[k] \in Continuation

Begins(bytes) ==
    {j \in DOMAIN bytes : \A i \in 1 .. j - 1 : ~OneCharacter(bytes, i, j)}

IsWhole(bytes, i) ==
    i + Trail[bytes[i]] <= Len(bytes) /\ OneCharacter(bytes, i, i + Trail[bytes[i]])

\* String::from_utf8_lossy: one replacement for what there is of a character in part, and
\* one for each byte that goes on with none. Any first byte takes any that go on.
Lossy(bytes) ==
    [i \in Begins(bytes) |->
        IF IsWhole(bytes, i) THEN SubSeq(bytes, i, i + Trail[bytes[i]]) ELSE Replacement]

\* The buffer taken out of the job rather than copied.
TakesOutput ==
    /\ ~reading.begun
    /\ reading' = [begun |-> TRUE, output |-> Lossy(output)]
    /\ output' = <<>>
    /\ UNCHANGED <<written, taken, pump, leader, brood, status, answer>>

ReadsOutput ==
    /\ ~reading.begun
    /\ reading' = [begun |-> TRUE, output |-> Lossy(output)]
    /\ UNCHANGED <<jobVars, answer>>

ReadsStatus ==
    /\ reading.begun
    /\ answer' = [output |-> reading.output, status |-> status]
    /\ reading' = NotReading
    /\ UNCHANGED jobVars

-----------------------------------------------------------------------------
Command == LeaderForks \/ LeaderExits \/ BroodExits \/ \E s \in Stream : Write(s)

Pump(s) == Read(s) \/ Eof(s) \/ AppendChunk(s)

Snapshot == ReadsOutput \/ ReadsStatus

Next == Command \/ SetsStatus \/ Snapshot \/ \E s \in Stream : Pump(s)

\* The runtime runs every ready task; the command owes nothing.
Spec == Init /\ [][Next]_vars /\ WF_vars(SetsStatus) /\ \A s \in Stream : WF_vars(Pump(s))

-----------------------------------------------------------------------------
(***************************************************************************)
(* Properties.                                                              *)
(***************************************************************************)
\* How many of the first i units kept are of a stream.
Count(s, i) == Cardinality({k \in 1 .. i : output[k][1] = s})

\* Every variable stays within its type; a pump never takes more than the pipe holds.
TypeOK ==
    /\ written \in [Stream -> 0 .. MaxWritten]
    /\ \A s \in Stream : InPipe(s) \in 0 .. PipeCap
    /\ pump \in [Stream -> Pumping]
    /\ output \in Seq(Unit)
    /\ leader \in {"running", "over"} /\ brood \in BOOLEAN
    /\ status \in {"Running", "Ended"}
    /\ DOMAIN reading = {"begun", "output"} /\ DOMAIN answer = {"output", "status"}
    /\ reading.begun \in BOOLEAN /\ IsText(reading.output)
    /\ IsText(answer.output) /\ answer.status \in {"Running", "Ended"}

\* Two pumps share the buffer and each checks the room before it appends: together they
\* never pass the ceiling (exec_ops.rs:63-70, README LOCAL_MCP_MAX_OUTPUT).
BoundedOutput == Len(output) <= MaxOutput

\* What is kept of a stream is its beginning, in order and without a gap: the n-th unit of it
\* in the buffer is the n-th that was written, however the two pumps interleave and wherever
\* the ceiling cuts a chunk (exec_ops.rs:66-70).
PrefixOfEachStream ==
    \A i \in 1 .. Len(output) : output[i][2] = Count(output[i][1], i)

\* Below the ceiling nothing is lost: every unit taken from a pipe is in the buffer or in
\* the chunk about to be appended.
NothingLostBelowCeiling ==
    Len(output) < MaxOutput =>
        \A s \in Stream : Count(s, Len(output)) + pump[s].chunk = taken[s]

\* A text goes on from another: its characters first, then more. Only a replacement at the
\* very end may turn out to be the beginning of a character.
GoesOnFrom(text, more) ==
    /\ DOMAIN text \subseteq DOMAIN more
    /\ \A i \in DOMAIN text, j \in DOMAIN more \ DOMAIN text : i < j
    /\ \A i \in DOMAIN text :
          \/ more[i] = text[i]
          \/ text[i] = Replacement /\ \A j \in DOMAIN text : j <= i

\* A client that asks again never sees less, and nothing it has seen changes but a character
\* cut off at the end of an answer, by a pipe, a chunk or the moment: each answer goes on from
\* the one before. A job once seen ended is not seen running again, although the two fields of
\* an answer are read at different moments while the pumps and the waiter go on
\* (exec_ops.rs:111-119). The output in an answer that says "ended" may still be short.
AnswersGrow ==
    [][ /\ GoesOnFrom(answer.output, answer'.output)
        /\ answer.status = "Ended" => answer'.status = "Ended" ]_vars

\* A command that fills a pipe is not blocked for ever, even when the buffer has been full
\* for long: the pumps keep reading (exec_ops.rs:66-68).
WritersUnblocked == \A s \in Stream : InPipe(s) = PipeCap ~> InPipe(s) < PipeCap

\* Once the shell and everything it left in the background is gone, the pumps end and the
\* buffer holds all that was written, or is full (exec_ops.rs:57-72, 148-153).
OutputCompletes ==
    leader = "over" /\ ~brood ~>
        [](\A s \in Stream :
              /\ pump[s].pc = "ended"
              /\ Len(output) = MaxOutput \/ Count(s, Len(output)) = written[s])
=============================================================================
