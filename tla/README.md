# local-mcp: specifications, model checking and proofs

TLA+ modules for `local-mcp`, an MCP server that gives a remote client file
tools and a shell inside one directory. Paths such as `exec_ops.rs:123` are
relative to `src/src/`.

## The system

| Part | Code | State it keeps | Operations |
| --- | --- | --- | --- |
| Job table | `exec_ops.rs`, tools of `server.rs:275-335` | id → job; per job: output, status, `done` flag, `finished_at`, pid | `start` (with `reap`), `wait`, `poll`, `stop`; a waiter task and two pump tasks per job |
| Output capture | `exec_ops.rs:57-72, 110-119` | one bounded buffer per job | read, append or drop, end of file; snapshot |
| OAuth flow | `oauth.rs`, `auth.rs`, tables of `store.rs` | clients, codes and tokens in SQLite | register, consent, exchange, bearer check |
| Session persistence | `sessions.rs`, `store.rs:189-242`, `main.rs:68-104` | handshake and `last_seen` per session in SQLite; workers in memory | store, load, delete, sweep at startup |
| Tool router | `server.rs` | per session, the tools its `LocalMcp` routes | build, list, call |
| File tools | `fs_ops.rs` | none of their own: the tree under the root | read, write, edit, list, search |
| Root resolution | `root.rs` | the canonical root | lexical and symlink resolution |
| Configuration | `config.rs` | constants, read at each start | parse and check |
| Assembly | `main.rs` | one job table and one store for every session | wiring, startup sweep, shutdown |

How they interact. Every HTTP request but those of the OAuth flow passes the
bearer check, which reads and sweeps the token table. The SDK (`rmcp`, not part
of the repository) then finds the session of the request in memory or revives it
from the session table, and calls a tool of `LocalMcp`. One `Jobs` table is
shared by all sessions (`main.rs:81-87`), while each session has a `LocalMcp`
of its own, built again when it is revived; calls of several clients meet in the
table, and a job's tasks outlive the call that started it. One `Store`, behind one
mutex, serves the OAuth flow and the sessions.

What is hard. Calls interleave with each other and with the three tasks and the
process group of each job; a call may be dropped at any await; a pid may be
given to another process; a restart keeps the database and loses the rest; time
passes between reading a clock and acting on it; a timeout races the event it
waits for. Every such place is in `PROJECT.json` under `hazards`, at its line,
with the properties that watch it.

## What makes each part correct

* Jobs: an id a client was given resolves until its job's retention is over; a
  job that `stop_job` says it stopped is dead with everything in its group; an
  `execute` that saw the end of its command reports a final status; a kill never
  reaches another job's processes unless its own shell was already reaped; an
  `execute` is always answered; a stopped job settles.
* Output: bounded; the beginning of each stream, without gaps; nothing lost
  below the ceiling; the command is never blocked by a full buffer; complete
  once all writers are gone; a client that asks again sees what it saw go on, but for a
  character that was cut off at the end.
* OAuth: one token per code, whatever overlaps, fails or restarts; none without
  the consent, redirect URI and verifier it belongs to; a token lives exactly
  until it expires.
* Sessions: a client loses its session only by deleting it or by leaving it for
  the retention; a deleted session stays forgotten, but by a request that had already
  loaded it.
* Server: a job id answers on every session until its job's retention is over,
  whatever became of the session it was handed out on; no job starts in a process
  that has the shell switched off.
* Root resolution: what a tool goes on with has no link on the way to it; a path
  means what it means to a shell in the root.
* Reading tools: nothing outside the root is opened, whatever links the tree has; the
  pages of a file make the file; a hit of `search` reads back by the path and number it
  printed; of what can be read nothing is left out unless the answer says so.
* File tools: a call that reports success has put its whole contents in the
  file; an edit replaces a match that no other lies apart from, and keeps the rest of
  what it read; a write cut short leaves the beginning of the new contents and none of
  the old.

## Modules

| Module | Role |
| --- | --- |
| `JobLedger` | abstract: what the job table promises its clients |
| `Jobs` | the job table, its calls, waiter tasks, process groups and pids; implements `JobLedger` |
| `JobsProofs` | theorems about `Jobs` |
| `MCJobs` | `Jobs` with symmetry, for TLC |
| `JobOutput` | the pumps and the buffer of one job |
| `JobOutputProofs` | theorems about `JobOutput` |
| `MCJobOutput` | `JobOutput` with characters of one, two and three bytes, for TLC |
| `Grants` | abstract: what the OAuth flow promises |
| `OAuth` | the flow over the tables of the store; implements `Grants` |
| `OAuthProofs` | theorems about `OAuth` |
| `MCOAuth` | `OAuth` with symmetry, for TLC |
| `Sessions` | persistent sessions, their revival and the startup sweep |
| `SessionsProofs` | theorems about `Sessions` |
| `MCSessions` | `Sessions` with symmetry, for TLC |
| `Server` | composes: `Sessions`, the `LocalMcp` of each, the job table they share, the configuration of each start |
| `ServerProofs` | theorems about `Server`, resting on those about `Sessions` |
| `MCServer` | `Server` with symmetry, for TLC |
| `RootResolve` | paths, trees with links, and what `root.rs` and the kernel make of a path |
| `RootResolveProofs` | lemmas about `RootResolve` for every tree and path, and the inductions they rest on |
| `PathTools` | `Root::resolve` step by step, and `read_file`, `list_dir` and `search` on what it gives |
| `PathToolsProofs` | theorems about `PathTools` |
| `MCPathTools` | `PathTools` over 40 small trees and 15 paths, for TLC |
| `FileTools` | `write_file` and `edit_file` on one file, commands that write it, restarts |
| `FileToolsProofs` | theorems about `FileTools` |
| `MCFileTools` | `FileTools` over four short texts, with symmetry, for TLC |

`Jobs` and `JobOutput` share the command, its background processes and the
status of a job but no variable is written by both, so each abstracts the other:
`Jobs` leaves the buffer out and `JobOutput` the calls. The operators in the
modules that no action uses are deliberate faults: plausible mistakes in the
definition they precede, listed under `mutants` in `PROJECT.json`. Each property
is known to fail when its fault is put in.

### Jobs

A call is a record: the operation, the job it holds, where it stands (`pc`), how
much of its timeout is left, and what it answered. Each `pc` is a place between
two critical sections or awaits of the code:

| Action | Code |
| --- | --- |
| `StartBegin`, `Spawn`, `SpawnFails`, `Insert` | `start`: `reap`; `spawn` and the tasks; insertion under the lock |
| `Get` | `get`: the table lookup of `wait`, `poll` and `stop` |
| `Subscribe`, `WaitDone`, `WaitTimeout`, `DrainSnapshot` | `wait`: subscription, the timed wait, the pause and the snapshot |
| `GiveUp` | the client goes away: the call is dropped at an await, the job stays |
| `PollSnapshot` | `poll` |
| `StopCheck`, `StopKill` | `stop`: status read under its lock; `kill` after the lock is gone |
| `Reaps`, `SetsStatus`, `SetsFinishedAt`, `SendsDone` | the waiter task, a step per write |
| `LeaderForks`, `LeaderExits`, `BroodExits` | the shell and its group, outside the repository |
| `Tick` | timers: ages and remaining timeouts, saturating at the value the code compares them with |

`tokio::time::timeout` looks at the future before it looks at the clock, and the two may
fall together: `WaitTimeout` needs no more than that the time is over, so that a wait may
miss a `done` that comes with it.

`state[j].done` follows the watch channel: a send that finds no receiver fails
and stores nothing. A pid is free again once its zombie is reaped and its group
is empty.

### JobOutput

Data is bytes numbered per stream, so that the buffer's content can be compared with
what was written. `Continuation` and `Trail` say which of them make a character of UTF-8
together, and `Lossy` is `String::from_utf8_lossy`: the text of the buffer, each of its
characters either whole or a replacement, where a chunk, the ceiling or the other stream
has cut one off. `Read` takes what the pipe holds up to a
chunk, `AppendChunk` is the locked section, `Eof` the end of the loop. The write
ends stay open as long as the shell or its background processes live. A
snapshot is two steps, `ReadsOutput` and `ReadsStatus`, each under its own lock;
`answer` keeps the last one a client was given.

### OAuth

A request is in a `pc` between two statements on the database. `Judge` is
`token_is_valid` under the lock, with the clock reading `Guard` made before it.
`Aborts` is a database error or a client that goes away, `Restart` a new process
over the same file. In the bearer check a database error is answered with 401
(`auth.rs:93-99`): no verdict on the token, so `Aborts` makes none, and
`AcceptedIsLive` is about the verdicts. The histories `consent` and `issued` keep what a code was
granted for and what a token was obtained with; no action reads them except to
draw fresh ids.

### Sessions

`Initialize`/`Store`/`StoreFails` are a handshake, `Serve` a request on a session in
memory, `Misses`/`Load`/`NotFound`/`Restore` one that is not, `Close`/`Delete` a
`DELETE`. The order of these calls is the SDK's; it is taken from what the code
and its tests say of it (`sessions.rs:3-10, 59-62`, `store.rs:185-205, 288-289`). `Saves` is
`save_session`, an upsert. A replayed handshake may be stored again or not: the comment at
`store.rs:185-188` has the transport write on every successful handshake, and the code of
the SDK is not here. When it is, a `DELETE` that meets a request between its load and its
replay does not last: the row comes back. `raced` is the history of those. `touched` and
`used` are histories as well: when a session was last opened or revived, and when its
client was last served.

### Server

`Server` extends `Sessions`: each of its actions is a step of the sessions, with
what the server adds, or leaves them alone. `Workers`, a conjunct of every
action that may build or drop a worker, is the factory (`main.rs:106-110`): a
session in memory has a `LocalMcp`, built by `New` (`LocalMcp::new`) when the
session is opened or revived. A served request (`ServesCall`) starts a job, fails to
start one after the reap, or does anything else, listing the tools included. A
`LocalMcp` holds a handle on a job table; all of them hold that of `main`.
`ProcessStarts` reads `LOCAL_MCP_ALLOW_EXEC` anew. Jobs are ids with a date here:
their calls and processes are in `Jobs`. A client's copy of the tool list is not
modelled; a call it makes from an old one is a call like any other.

### RootResolve and PathTools

A place is the sequence of names that leads to it from `/`, a tree a function from
places to files, directories and links. `WalkPart` resolves one part of a path as
the kernel does, `WalkOf` one part after another, and `Follow` a whole path, which is
the reference `Root::resolve` is held against. A tree (`IsTree`) has what is in it in
directories, and `Unreadable` has the places that the server may look up and not read.
The code's own way is in steps: `LooksUp` or `Escapes` is the lexical
normalisation, which reads nothing but the path (`Lexical`); `GoesUp` takes one part of
the walk to the deepest ancestor that exists by `symlink_metadata`, `Canonicalizes` one
of `canonicalize`, and commands change the tree between any two of them. A file is its lines, a character the bytes it
takes, so that the ceiling of `truncate` may fall inside one, and `Trimmed` takes the
blanks off the end of a hit. `Visits` is one place of the directory walk, which leaves out
what is in a directory it cannot read (`Below`) and passes over a file it cannot
(`Printed`); a client that got a full page asks for the next
(`AsksForMore`), and one that got a hit reads it (`ReadsHit`).

### FileTools

The steps of a call are divided where the code awaits and where
`tokio::fs::write` makes two system calls: the open that empties the file and the
write at its start, both on a blocking thread that a dropped call does not stop.
`ReadAndMatch` is the read of `edit_file` with the count and the replacement that
follow it without an await. `Replaced` is `str::replace` for the one match the
count lets through; `MatchesOnce` counts as `str::matches` does: occurrences that
overlap count once, so that `aa` in `baaa` is edited. The histories
`latest`, `mixed` and `past` record what was last begun to be written, whether it
met another open file, what a call read and found at its open, and whether others wrote
since it read or opened.

## Runs

| Run | Instance | Shows |
| --- | --- | --- |
| `jobs` | 2 jobs, 2 calls, 2 pids, retention 2, timeout 1 | safety of the job table and its refinement of `JobLedger` |
| `jobs_live` | 2 jobs, 1 call, 1 pid, retention 1, timeout 2, without symmetry | `execute` is answered; a stopped job settles |
| `late_waiter` | 1 call | **violated**: a waiter that arrives late sees that the job is done |
| `stop_leaves_nothing` | 1 call | **violated**: after `stop_job`, everything the job spawned is dead |
| `output` | 2 streams, ceiling 3, pipe and chunk 2, 4 bytes per stream, a character of 2 in one and of 3 in the other | the output properties, safety and liveness, and what successive snapshots show |
| `oauth` | 2 codes, 2 tokens, 2 requests, 2 URIs, 2 verifiers, lifetimes 1, clock to 2 | the OAuth properties and the refinement of `Grants` |
| `server` | 2 sessions, 2 requests, 2 jobs, keep-alive 1, retention 2, job retention 1, clock 2 to 4 | the session properties, and those of the composition |
| `files` | 2 calls, texts `""`, `a`, `aa`, `baaa` | what a success promises of the file, what a cut write leaves |
| `mixed_writes` | the same | **violated**: `write_file` replaces the entire contents |
| `path_tools` | 40 trees of 6 names, 15 paths, 1 unreadable place, 1 change, offsets 0 and 1, limits none, 0, 1 and 3, ceiling 12 | resolution, what is opened, paging, searching and listing |
| `long_output_is_cut` | the same | **violated**: output above the ceiling is cut to it and answered |
| `revivable_after_use` | 1 session, 1 request, keep-alive 2, retention 3 | **violated**: a session stays revivable for the retention after its last use |

Why these bounds are enough. Two calls and two jobs give every pair of
operations on one job and on two, and with two pids the reuse of a pid by the
other job while a stop still holds it. Retention and timeout are compared with
ages that saturate, so a larger value adds ticks and no new case; retention 2
leaves room between an end and its expiry. A ceiling of 3 against chunks of 2 is
one that cuts a chunk, and the 4 bytes per stream overrun it from either stream
or both; the longer characters are cut by a read, by the ceiling and by the other
stream. Two codes and two tokens are what one-token-per-code needs to fail;
the clock passes both lifetimes, alone and together. In `server` the clock runs
two ticks with a retention of two, so a row can be swept, or revived in time and
kept; two jobs are what a reap needs, which only another start makes, and with a job
retention of one a job can end, be kept and be reaped. `KeepAlive` above the clock's range is the setting `off`.
In `files` each call is made once, and two calls and a command give every overlap
of a read, an open and a write with another; the texts have one match, none,
several apart and several overlapping, and contents longer and shorter than
what they replace. In `path_tools` the links lead to a neighbour of the root, to a
file, to nothing, to themselves and back to the root, from inside and from beside it,
absolute and relative, and the files have no, one or three lines, wide characters and
blanks at either end of a line; what cannot be read is a file, or a directory with a file in
it that can, also behind a link; `MaxWalk` is 12 because a
path of five parts through two links has no more, so that only loops reach it; one
change suffices to take an ancestor away or to turn it into a link at any step of a
resolution. A ceiling of 12 with 2 bytes beside the text of a line falls between
characters and inside them.

`output`, `path_tools` and `long_output_is_cut` turn the deadlock check off: a job
whose command, tasks and background processes are all over has nothing left to do
but be looked at, and a client may be content with its answer.

### Findings

* `late_waiter`: `start` drops the channel's only receiver and the waiter
  ignores the failed send, so a `wait` that subscribes after the command ended
  waits out its timeout, against the comment on `done` (`exec_ops.rs:35`). It is
  answered then (`ExecuteAnswers`), with an id and "still running".
* `stop_leaves_nothing`: `stop` refuses when the shell is over, whatever is left
  in its group, against "everything it spawned" (`server.rs:325`, the README).
* `revivable_after_use`: `last_seen` is not touched while a session is in memory,
  so the retention runs from the last revival and not, as `config.rs:32` and the
  README have it, from the last use.
* `mixed_writes`: two `write_file` calls that overlap leave the longer contents
  behind the shorter, and both succeed, against "replace its entire contents"
  (`server.rs:213`).
* `long_output_is_cut`: `truncate` calls `String::truncate` at the ceiling, which
  panics when the ceiling falls inside a character (`fs_ops.rs:60`): a read, listing
  or search with that much text is not answered, against "Byte ceiling on tool
  output." (`README.md:79`).

### Divergences without a run

Some of what the code does differs from what the repository says of it, and is stated as
it is by a property that holds.

* Edits of overlapping matches (`EditReplacesTheMatch`): `str::matches` counts matches that
  do not overlap, so an edit of `aa` in `baaa` is made, although `aa` occurs twice.
  `server.rs:144` says of `old_text` that it must occur exactly once, `server.rs:225`, the
  comment at `fs_ops.rs:128` and `README.md:29` that an ambiguous edit is refused.
* A limit of 0 (`SearchIsComplete`): `search` counts a hit before it compares, so
  `max_results` 0 prints one, against "Stop after this many matching lines"
  (`server.rs:164`).
* What cannot be read (`SearchIsComplete`, `ListIsComplete`): "(no matches)" and "(empty)"
  also answer for files and directories that are passed over in silence
  (`fs_ops.rs:163, 197, 201-203`), and "(empty)" for a directory whose entries are all
  ignored.
* A link put on a path after `Root::resolve` has checked it (`ReadsStayUnder`): the tool
  that opens the path follows it out of the root, and `Command` in `PathTools` does just
  that. "File tools cannot leave the root" (`README.md:44`, `server.rs:418`) holds of a
  tree that nobody changes meanwhile; only a command can, and commands are not confined.
* A deleted session (`DeletedStaysForgotten`): see `raced` above.
* A tool list kept over a restart with another `LOCAL_MCP_ALLOW_EXEC`: "The list only
  changes when this binary does" (`server.rs:32`) leaves the setting out. Such a list is
  out of date for up to its hour; the tools it still names are not routed
  (`NoJobWithoutExec`).

### Fairness

Safety is checked without fairness. The liveness of `Jobs` assumes weak fairness
of each call's steps, of each waiter task and of the clock: tokio runs every
task that is ready, and none of these steps can be disabled by others for good.
A command is never obliged to end; what follows a SIGKILL is, by the kernel,
which is why a stopped job settles. `JobOutput` assumes weak fairness of the
pumps and of the waiter, and nothing of the command or of the client that asks for
snapshots. `OAuth`, `Sessions`, `Server`, `FileTools` and `PathTools` state no
liveness: each request is a handful of steps that end or fail.

## Proofs

`tlapm` checks every leaf of the eight proof modules. All but `RootResolveProofs`, which is
about operators, have an inductive invariant (`IInv`, or `ServerInv`; `PathToolsProofs` also
`QInv`), checked with TLC on the run's instance before it was proved, a lemma per action or
group of actions, and short theorems that project it.

| Module | Assumes of the constants | Theorems |
| --- | --- | --- |
| `JobsProofs` | retention and timeout are naturals, the sentinels are not members | `TypeCorrect`, `KnownResolves`, `StopKills`, `DrainSeesEnd`, `StraysAreLate`, `Refinement` |
| `JobOutputProofs` | sizes are naturals, pipes and chunks not empty, a character has at most four bytes | `TypeCorrect`, `NeverPastCeiling`, `KeepsBeginnings`, `LosesNothing`, `NeverSeesLess` |
| `OAuthProofs` | lifetimes and the clock's bound are naturals, `None` is no value | `TypeCorrect`, `OneToken`, `ConsentBehindTokens`, `TokensLast`, `JudgementsAreRight`, `Refinement` |
| `SessionsProofs` | the retention has room before the first start, `None` is no value | `TypeCorrect`, `SessionsLast`, `DeletedForGood` |
| `ServerProofs` | those of `SessionsProofs`, the job retention is a natural | `SessionsCompose`, `ServerSessionsLast`, `ServerTypeCorrect`, `JobIdsOutliveSessions`, `SwitchedOffStaysOff` |
| `FileToolsProofs` | texts are sequences of bytes, `None` is no value | `TypeCorrect`, `SuccessWritesAll`, `EditsReplaceTheMatch`, `WritesLeaveNoRemains` |
| `RootResolveProofs` | `.` and `..` are no names, `MaxWalk` is a natural, `None` is no place | `ResolvedIsLinkless`, `ResolvesLikeTheShell`, `ShownReads` |
| `PathToolsProofs` | those, trees are trees (`IsTree`) to begin with, offsets and limits are naturals, `None` is no line, number or answer | `TypeCorrect`, `NothingOutsideIsRead`, `NoLinkIsFollowed`, `PathsMeanWhatTheShellMeans`, `HitsAreReadBack`, `PagesAreFiles`, `SearchCompletes`, `ListingCompletes` |

Why the invariants are needed.

* `Jobs`. `KnownIdResolves` alone is not inductive: a job between `spawn` and
  `insert` is out of the table, so `IInv` says that only the call inserting it
  holds it; a job dropped by `reap` has to be known to be past its retention,
  which needs each field of a job dated by the position of its waiter; and that
  a kill finds its own group rests on living groups having distinct pids.
* `JobOutput`. The bound needs the type of the chunk: that what a pump is about
  to append was taken from its stream and is no longer than the array. That answers
  grow needs the last answer, the snapshot under way and the buffer to come from
  prefixes of one another, and a lemma on `Lossy`: of a longer buffer, it changes nothing
  but a replacement at the end of the text of the shorter.
* `OAuth`. `OneTokenPerCode` needs a code to be in one place at a time: its row,
  one request between `take_code` and `store_token`, or one token.
  `TokenNeedsConsent` needs what a request carries to be still what was
  consented to. `AcceptedIsLive` needs `TokenUntilExpiry` and that no request
  acts on a time from the future.
* `Sessions`. A row is what was last touched; a missing one was deleted, or
  swept when it was due; a 404 stays justified because nothing writes a row that is not
  there except the first store of an id nobody knows, and the replay of a handshake whose
  row went after it was loaded: by a `DELETE`, which `raced` remembers (`Forgotten`), and
  by nothing else, because a sweep comes with a restart, which no request outlives
  (`ReplaysHaveRows`).
* `Server`. `SessionsCompose` (`ServerSpec => Spec`) carries every theorem about
  `Sessions` over. The rest follows from three facts a restart must not break: every
  `LocalMcp` in memory is one this process would build, so none survives a change of
  the setting; nothing is in memory while the process is down; and the one table
  holds every job of its life that is not past the retention.
* `PathTools`. `IInv` says besides the types that what a tool goes on with is a place under
  the root, whatever changes, which has to survive the names appended to it after
  `canonicalize`: they are names because the walk up took them from a normalised path. That
  it still is that place when it is opened, and every other property, is about a tree that
  nobody changes, and so is `QInv`, which has a part for each stretch of a call.
  `Resolving`: the walk up has passed only what is not there, and `canonicalize` is so many steps into the walk of the
  deepest place that is. `Reading`: an answer of `read_file` is a page of the entry at
  its place. `Paging`: the pages so far are lines of one file, one after the other, up to
  the call's offset, although each call resolves the path anew. `Walking`: what a walk has
  printed is, each line once, what belongs to the places it is not still to visit; no
  place it has to visit is below another, so that a step neither loses nor repeats any,
  and the places to visit are those whose directories above them can be read.
  `Finding`: the line that is read back is one of a file, under the path and the number
  it was printed with. `SearchIsComplete` and `ListIsComplete` are parts of `QInv`
  themselves: a call that is answered keeps its answer.
* `FileTools`. What an edit writes is an edit of the file only as long as the copy
  it made is what is on disk, so `Copies` follows the copy from the read over the
  open to the write; an open file nobody else touched is empty, which makes the
  write whole. That the match splits the text in left, match and right, and that all
  others overlap it, is a lemma on sequences (`ReplacedKeepsTheRest`).

The refinement theorems show `SafetySpec => ImplementsLedger` and
`Spec => ImplementsGrants`: each step is a step of the abstract specification or
is not visible in it.

What paths mean, for every tree and every path. `Follow` and `Lexical` are recursive
functions over the parts of a path, so what is proved of them needs induction, which
`RootResolveProofs` gets from the well-founded order of the naturals, in a form that
speaks of sets and not of predicates: a set of walks that has the first one, and with
each the next, has all of them (`Least`, `SetInduction`, `Iteration`, `WalkInvariant`).
From there: a walk ends within `MaxWalk` parts; where it leads is reached by no link
(`FollowIsPlain`); a path without `..` leads where its normalisation does
(`DotsDoNotMatter`), and so does one that needs no link, because there `..` is the
directory a place is in (`LinksDoNotMatter`); normalisation is lost above `/` only where
more `..` than names were read (`LostAboveTheTop`, by counting). `ResolvesTo` says in one
formula what the steps of `Root::resolve` come to, and has at most one solution.

The proof corrected `MeansWhatTheShellMeans`. It did not except an absolute path that
leads back to the root over a link outside it, such as `/o/i/y` where `/o/i` is a link to
the root. The kernel follows it to `/r/y`; the code refuses it, because it holds the path
itself against the root before it follows anything (`root.rs:73-77`). The run had no such
link; it has one now. What `Root::resolve` does there is safe and nothing in the repository
says otherwise, so the property excepts these paths and no finding is made of them.

Only model-checked: the four liveness properties, `ExecuteAnswers`, `StoppedJobSettles`,
`WritersUnblocked` and `OutputCompletes`. Fairness and ENABLED are out of the prover's
reach. Every other property of a passing run is a theorem.

## What is assumed or left out

* Outside the repository, modelled from how it is used: the kernel (a SIGKILL to
  a group ends all of it; a pid is reused when nothing holds it), the watch
  channel, SQLite (a statement or transaction is atomic and durable), the SDK.
* Random ids are fresh, S256 is injective. The wall clock does not go back.
* A process that leaves its group (`setsid`) is out of `stop`'s reach and out of the
  model. `kill_on_drop` at shutdown and poisoned locks are not modelled; a graceful
  shutdown is a process that dies.
* The static token is compared with a constant; a bearer check refused because
  the database failed is `Aborts`.
* A command writes a file in place; one that removes or renames it is not modelled,
  nor is a file that is not UTF-8. A write of the tools is one system call.
* In `PathTools`: what is in a tree at first is in directories and no deeper than
  `MaxWalk`, the number of parts the kernel takes of a path before it gives up; the
  pattern is a set of characters, a walk's order any that goes into a directory before
  it goes on; the text of "(empty)" and "stopped" lines, sizes in listings, what
  is left of the line that `truncate` cuts in the middle, and failures of system calls
  other than a read without permission are left out.

## Not modelled

* The routes, middleware order, host checks and tracing of `main.rs`: wiring of axum
  and the SDK, without state of the program's own.
* `list_tools` and `cache_hints`: the list is the router's, the hint depends on the
  protocol version alone, and the copy is the client's.
* `Config::from_env` beyond `LOCAL_MCP_ALLOW_EXEC`: parses and refusals that happen
  once, before anything runs; the values are the CONSTANTS of the modules.
* Logging, the consent page, the metadata documents and `get_info`: text without
  state. Packaging: no program logic.
* Liveness of `PathTools`: the steps of a resolution end because paths are finite, and
  TLC's evaluation of ENABLED over whole trees is too slow to check it.
* The size of the tables of the store between sweeps: nothing in the code bounds it.

## Plan

What would come next, the most useful first:

1. What `truncate` leaves: that a cut answer is whole lines of the uncut one and
   within the ceiling, by induction over the lines as in `RootResolveProofs`.
2. The safety half of the liveness properties: that each step of a call of `Jobs` and of
   a pump of `JobOutput` comes nearer to the end by a measure, which leaves to TLC only
   that the step is taken.
3. `JobOutput` and the calls of `Jobs` in one module, to bound what the snapshot of
   `execute` may lack after its pause.
