----------------------------- MODULE FileTools -----------------------------
(***************************************************************************)
(* write_file and edit_file of fs_ops.rs on one file, called by several     *)
(* clients while commands write to the same file. The tools take no lock.   *)
(*                                                                          *)
(* tokio::fs::write opens the file, which creates or empties it, and then   *)
(* writes the contents at the beginning of what it opened; both run on a    *)
(* thread of the blocking pool, which goes on when the call is dropped.     *)
(* edit_file awaits a read of the whole file first and works on that copy.  *)
(*                                                                          *)
(* A file is a sequence over Byte, or None while there is none. A command   *)
(* is modelled by `> file`; it does not remove or replace the file.         *)
(***************************************************************************)
EXTENDS Integers, Sequences

CONSTANTS
    Call,          \* calls of the two tools; each is made once
    Byte,
    Text,          \* what a file may start as, and a caller or a command write
    None           \* no file, no answer

ASSUME FileToolsAssumption ==
    /\ Text \subseteq Seq(Byte)
    /\ None \notin Seq(Byte)
    /\ None \notin {"write", "edit", "ok", "refused", "failed", "dropped"}

VARIABLES
    file,          \* what is on disk
    call,          \* call -> where it is and what it was answered
    latest,        \* history: the contents the last open file, or command, was for
    mixed,         \* history: whether that open met another call's open file
    past           \* history: call -> what happened to the file around it

vars == <<file, call, latest, mixed, past>>

-----------------------------------------------------------------------------
\* Text. str::matches counts from the left occurrences that do not overlap, so
\* it counts one whenever every occurrence overlaps the first.
At(text, old) ==
    {k \in 1 .. Len(text) - Len(old) + 1 : SubSeq(text, k, k + Len(old) - 1) = old}

\* Only the first occurrence, with no count of the others.
MatchesFirstAt(text, old, k) == k \in At(text, old) /\ \A j \in At(text, old) : k <= j

MatchesOnceAt(text, old, k) ==
    /\ k \in At(text, old)
    /\ \A j \in At(text, old) : k <= j /\ j < k + Len(old)

MatchesOnce(text, old) == \E k \in At(text, old) : MatchesOnceAt(text, old, k)

\* str::replace where there is one match.
Replaced(text, old, new) ==
    LET k == CHOOSE i \in At(text, old) : MatchesOnceAt(text, old, i)
    IN  SubSeq(text, 1, k - 1) \o new \o SubSeq(text, k + Len(old), Len(text))

OpenedAsItIs(contents) == IF contents = None THEN <<>> ELSE contents

OpenedWithoutCreating(contents) == IF contents = None THEN None ELSE <<>>

\* A file once opened for writing, and once text is written at its beginning.
Opened(contents) == <<>>

Overlay(text, contents) == text \o SubSeq(contents, Len(text) + 1, Len(contents))

-----------------------------------------------------------------------------
Pc == {"idle", "parents", "read", "open", "write", "done"}
Answer == {"ok", "refused", "failed", "dropped"}

CallRecord ==
    [pc : Pc, op : {"write", "edit", None}, old : Seq(Byte), new : Seq(Byte),
     target : Seq(Byte), answer : Answer \cup {None}]

PastRecord ==
    [read : Seq(Byte) \cup {None}, before : Seq(Byte) \cup {None},
     stale : BOOLEAN, crossed : BOOLEAN]

Idle == [pc |-> "idle", op |-> None, old |-> <<>>, new |-> <<>>, target |-> <<>>,
         answer |-> None]

Init ==
    /\ file \in Text \cup {None}
    /\ call = [c \in Call |-> Idle]
    /\ latest = file
    /\ mixed = FALSE
    /\ past = [c \in Call |->
                 [read |-> None, before |-> None, stale |-> FALSE, crossed |-> FALSE]]

Answers(c, answer) ==
    call' = [call EXCEPT ![c].pc = "done", ![c].answer = answer]

\* Whether a call other than c has the file open.
OthersOpen(c) == \E d \in Call \ {c} : call[d].pc = "write"

\* The calls but c learn that the file was changed under them.
ChangedUnder(c) ==
    [d \in Call |-> IF d = c THEN past[d] ELSE [past[d] EXCEPT !.stale = TRUE, !.crossed = TRUE]]

-----------------------------------------------------------------------------
(* The two tools. *)

\* write_file: the path is resolved, and the parents are about to be created.
BeginWrite(c) ==
    /\ call[c].pc = "idle"
    /\ \E content \in Text :
          call' = [call EXCEPT ![c] = [Idle EXCEPT !.pc = "parents", !.op = "write",
                                                   !.target = content]]
    /\ UNCHANGED <<file, latest, mixed, past>>

\* edit_file: old_text is not empty, the path is resolved.
BeginEdit(c) ==
    /\ call[c].pc = "idle"
    /\ \E old \in Text \ {<<>>}, new \in Text :
          call' = [call EXCEPT ![c] = [Idle EXCEPT !.pc = "read", !.op = "edit",
                                                   !.old = old, !.new = new]]
    /\ UNCHANGED <<file, latest, mixed, past>>

\* old_text is empty, or the path does not resolve under the root.
RefuseAtOnce(c) ==
    /\ call[c].pc = "idle"
    /\ \E op \in {"write", "edit"} :
          call' = [call EXCEPT ![c] = [Idle EXCEPT !.pc = "done", !.op = op,
                                                   !.answer = "refused"]]
    /\ UNCHANGED <<file, latest, mixed, past>>

CreateParents(c) ==
    /\ call[c].pc = "parents"
    /\ call' = [call EXCEPT ![c].pc = "open"]
    /\ UNCHANGED <<file, latest, mixed, past>>

ParentsFail(c) ==
    /\ call[c].pc = "parents"
    /\ Answers(c, "failed")
    /\ UNCHANGED <<file, latest, mixed, past>>

\* The file is read whole, and held against old_text without an await between.
ReadAndMatch(c) ==
    /\ call[c].pc = "read"
    /\ file # None
    /\ MatchesOnce(file, call[c].old)
    /\ call' = [call EXCEPT ![c].pc = "open",
                            ![c].target = Replaced(file, call[c].old, call[c].new)]
    /\ past' = [past EXCEPT ![c].read = file, ![c].stale = FALSE]
    /\ UNCHANGED <<file, latest, mixed>>

\* No such file, or old_text in it no time or more than once.
RefuseEdit(c) ==
    /\ call[c].pc = "read"
    /\ file # None => ~ MatchesOnce(file, call[c].old)
    /\ Answers(c, "refused")
    /\ UNCHANGED <<file, latest, mixed, past>>

ReadFails(c) ==
    /\ call[c].pc = "read"
    /\ Answers(c, "failed")
    /\ UNCHANGED <<file, latest, mixed, past>>

Open(c) ==
    /\ call[c].pc = "open"
    /\ file' = Opened(file)
    /\ call' = [call EXCEPT ![c].pc = "write"]
    /\ latest' = call[c].target
    /\ mixed' = OthersOpen(c)
    /\ past' = [ChangedUnder(c) EXCEPT ![c].before = file, ![c].crossed = FALSE]

OpenFails(c) ==
    /\ call[c].pc = "open"
    /\ Answers(c, "failed")
    /\ UNCHANGED <<file, latest, mixed, past>>

Write(c) ==
    /\ call[c].pc = "write"
    /\ file' = Overlay(call[c].target, file)
    /\ Answers(c, "ok")
    /\ past' = ChangedUnder(c)
    /\ UNCHANGED <<latest, mixed>>

WriteFailsUnnoticed(c) ==
    /\ call[c].pc = "write"
    /\ \E k \in 0 .. Len(call[c].target) :
          file' = Overlay(SubSeq(call[c].target, 1, k), file)
    /\ Answers(c, "ok")
    /\ past' = ChangedUnder(c)
    /\ UNCHANGED <<latest, mixed>>

\* A full disk, say: a part of the contents is written, and the call fails.
WriteFails(c) ==
    /\ call[c].pc = "write"
    /\ \E k \in 0 .. Len(call[c].target) :
          file' = Overlay(SubSeq(call[c].target, 1, k), file)
    /\ Answers(c, "failed")
    /\ past' = ChangedUnder(c)
    /\ UNCHANGED <<latest, mixed>>

\* The client goes away at an await before anything was given to the pool.
GiveUp(c) ==
    /\ call[c].pc \in {"parents", "read"}
    /\ Answers(c, "dropped")
    /\ UNCHANGED <<file, latest, mixed, past>>

-----------------------------------------------------------------------------
(* Around the tools. *)

\* A command that some client started writes the file.
Command ==
    /\ \E text \in Text : file' = text /\ latest' = text
    /\ mixed' = \E d \in Call : call[d].pc = "write"
    /\ past' = [d \in Call |-> [past[d] EXCEPT !.stale = TRUE, !.crossed = TRUE]]
    /\ UNCHANGED call

\* The process dies, and the calls with it. What is on disk stays.
Restart ==
    /\ \E c \in Call : call[c].pc \notin {"idle", "done"}
    /\ call' = [c \in Call |->
                  IF call[c].pc \in {"idle", "done"} THEN call[c]
                  ELSE [call[c] EXCEPT !.pc = "done", !.answer = "dropped"]]
    /\ UNCHANGED <<file, latest, mixed, past>>

CallStep(c) ==
    \/ BeginWrite(c) \/ BeginEdit(c) \/ RefuseAtOnce(c)
    \/ CreateParents(c) \/ ParentsFail(c)
    \/ ReadAndMatch(c) \/ RefuseEdit(c) \/ ReadFails(c)
    \/ Open(c) \/ OpenFails(c) \/ Write(c) \/ WriteFails(c) \/ GiveUp(c)

Next == (\E c \in Call : CallStep(c)) \/ Command \/ Restart

Spec == Init /\ [][Next]_vars

-----------------------------------------------------------------------------
(* What holds whatever overlaps. *)

\* Every file and call has its type, and a call writes to a file that is there
\* (the open of tokio::fs::write creates it).
TypeOK ==
    /\ file \in Seq(Byte) \cup {None}
    /\ call \in [Call -> CallRecord]
    /\ latest \in Seq(Byte) \cup {None}
    /\ mixed \in BOOLEAN
    /\ past \in [Call -> PastRecord]
    /\ (\E c \in Call : call[c].pc = "write") => file # None

Succeeded(c) == call[c].pc = "done" /\ call[c].answer = "ok"

\* A call that reports success (fs_ops.rs:115, 139) has put its whole contents in
\* the file: only what others wrote since it opened the file may have changed them.
SuccessIsWhole ==
    \A c \in Call : Succeeded(c) /\ ~ past[c].crossed => file = call[c].target

\* What a successful edit_file leaves, until another call or a command writes after its
\* open, is the file it read with the first occurrence of old_text replaced and the rest
\* kept; every other occurrence overlaps that one, for matches that do not are counted and
\* refused (fs_ops.rs:124-139, where server.rs:144 asks for exactly one occurrence). And
\* what it found on disk at the open was what it had read, unless others wrote in between,
\* which is lost.
EditReplacesTheMatch ==
    \A c \in Call : Succeeded(c) /\ call[c].op = "edit" /\ ~ past[c].crossed =>
        LET read == past[c].read
            old == call[c].old
        IN  /\ \E i \in 0 .. Len(read) :
                  LET left  == SubSeq(read, 1, i)
                      right == SubSeq(read, i + Len(old) + 1, Len(read))
                  IN  /\ read = left \o old \o right
                      /\ file = left \o call[c].new \o right
                      /\ \A j \in At(read, old) : i < j /\ j <= i + Len(old)
            /\ ~ past[c].stale => past[c].before = read

\* While no two calls have the file open together and no command writes to a file
\* that is open, what is on disk is the beginning of what was written last,
\* whatever failed or died halfway: never some of the contents before it
\* (tokio::fs::write at fs_ops.rs:112, 136 empties the file before it writes).
NoRemains ==
    ~ mixed /\ file # None =>
        /\ latest # None
        /\ Len(file) <= Len(latest)
        /\ file = SubSeq(latest, 1, Len(file))

-----------------------------------------------------------------------------
(* What the tools' descriptions say. *)

\* write_file replaces the entire contents of the file (server.rs:213): once every
\* call was a successful write_file, the file holds what one call or command wrote.
WritesReplaceEntirely ==
    (\A c \in Call : Succeeded(c) /\ call[c].op = "write") => file \in Text
=============================================================================
