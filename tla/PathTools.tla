------------------------------ MODULE PathTools ------------------------------
(***************************************************************************)
(* Root::resolve of root.rs and the tools of fs_ops.rs that read: read_file, *)
(* list_dir and search, called one after the other by a client that reads a *)
(* file page by page, or reads what a search found. The tools keep no state *)
(* and share none, so one client shows what they do; commands and           *)
(* write_file change the tree between any two system calls.                 *)
(*                                                                          *)
(* A file is its lines, a line its characters, and a character is known by  *)
(* how many bytes it takes. A directory is walked in any order that goes    *)
(* into each before it goes on. The operating system refuses a system call  *)
(* for the shape of the tree, or to read what the server has no permission  *)
(* for; it lets the server look up every name.                              *)
(***************************************************************************)
EXTENDS RootResolve, FiniteSetsExt

CONSTANTS
    Tree,          \* trees there may be at the start
    Change,        \* entries a command may put: records of a place and an entry
    MaxChanges,    \* bound: how many it puts
    Path,          \* paths a client writes
    Offset,        \* offsets, and limits and depths, that it asks for
    Limit,
    Unreadable,    \* places whose file or directory the server may not read
    Width,         \* character -> its bytes in UTF-8
    Blank,         \* characters that trim_end takes off the end of a line
    Matching,      \* the pattern: characters, one of which a matching line has
    Ignored,       \* names that .gitignore and its like tell the walker to leave out
    Overhead,      \* bytes of an output line that are not text: numbers, paths, line ends
    MaxOutput      \* LOCAL_MCP_MAX_OUTPUT

Answered == {"ok", "stopped", "truncated", "panicked", "escape", "cannot_resolve",
             "refused", "past_the_end"}

\* A line a tool prints: under a path, and of a file with its number.
Line == [path : Input, n : Nat, text : Seq(Char)]

OutputLine(path, n, text) == [path |-> path, n |-> n, text |-> text]

ASSUME PathToolsAssumption ==
    /\ \A t \in Tree : IsTree(t)
    /\ Change \subseteq [place : Seq(Name), entry : Entry] /\ Path \subseteq Input
    /\ Width \in [Char -> 1 .. 4]
    /\ {MaxChanges, Overhead, MaxOutput} \subseteq Nat
    /\ Offset \subseteq Nat /\ Limit \subseteq Nat \cup {None}
    /\ Ignored \subseteq Name /\ {Matching, Blank} \subseteq SUBSET Char
    /\ Unreadable \subseteq Seq(Name)
    /\ None \notin Nat \cup Input \cup Line \cup Answered

VARIABLES
    tree,
    call,          \* the client's call, from its arguments to its answer
    changes,       \* how many changes commands have made since the first call began
    pages,         \* history: what read_file has answered page by page
    hit            \* history: what search found that is being read back

vars == <<tree, call, changes, pages, hit>>

-----------------------------------------------------------------------------
Idle == [pc |-> "idle", op |-> None, input |-> None, offset |-> None, limit |-> None,
         place |-> None, trailing |-> <<>>, walk |-> Walk(<<>>), todo |-> {}, out |-> <<>>,
         answer |-> None]

Init ==
    /\ tree \in Tree
    /\ call = Idle
    /\ changes = 0
    /\ pages = <<>>
    /\ hit = None

Answers(answer, out) ==
    call' = [call EXCEPT !.pc = "done", !.answer = answer, !.out = out, !.todo = {}]

Refuses(answer) == Answers(answer, <<>>)

-----------------------------------------------------------------------------
(***************************************************************************)
(* truncate. Every output line ends with a line feed.                       *)
(***************************************************************************)
Widths(out) ==
    FlattenSeq([i \in DOMAIN out |->
        [k \in 1 .. Overhead |-> 1] \o [k \in DOMAIN out[i].text |-> Width[out[i].text[k]]]])

Bytes(out) == FoldLeft(LAMBDA sum, width : sum + width, 0, Widths(out))

\* Where a character ends that starts at or before the ceiling, in bytes.
Boundaries(out) ==
    LET widths == Widths(out)
    IN  {FoldLeft(LAMBDA sum, width : sum + width, 0, SubSeq(widths, 1, k)) :
            k \in 0 .. Len(widths)}

\* The lines that are answered to their end. What is left of a line that the ceiling cuts
\* is answered too, before the notice that the output was cut; it is left out here.
WholeLines(out) ==
    SubSeq(out, 1, Cardinality({k \in DOMAIN out : Bytes(SubSeq(out, 1, k)) <= MaxOutput}))

\* What a tool says is answered as it is while it is within the ceiling. String::truncate
\* panics when the ceiling is inside a character: then there is no answer.
AnswersText(answer, out) ==
    IF Bytes(out) <= MaxOutput THEN Answers(answer, out)
    ELSE IF MaxOutput \in Boundaries(out) THEN Answers("truncated", WholeLines(out))
    ELSE Answers("panicked", <<>>)

-----------------------------------------------------------------------------
(***************************************************************************)
(* Root::resolve. canonicalize looks at one part of the path after another. *)
(***************************************************************************)
Call(op, input, offset, limit) ==
    call' = [Idle EXCEPT !.pc = "lexical", !.op = op, !.input = input, !.offset = offset,
                         !.limit = limit]

Asks ==
    /\ call.pc = "idle"
    /\ \E input \in Path :
          \/ \E offset \in Offset, limit \in Limit : Call("read_file", input, offset, limit)
          \/ \E op \in {"list_dir", "search"}, limit \in Limit \ {None} :
                Call(op, input, None, limit)
    /\ UNCHANGED <<tree, changes, pages, hit>>

\* lexical reads nothing but the path.
Escapes ==
    /\ call.pc = "lexical"
    /\ LET place == Lexical(Joined(call.input)) IN place # None => ~Under(place)
    /\ Refuses("escape")
    /\ UNCHANGED <<tree, changes, pages, hit>>

LooksUp ==
    /\ call.pc = "lexical"
    /\ LET place == Lexical(Joined(call.input))
       IN  /\ place # None /\ Under(place)
           /\ call' = [call EXCEPT !.pc = "ancestor", !.place = place]
    /\ UNCHANGED <<tree, changes, pages, hit>>

GoesUpByExists ==
    /\ call.pc = "ancestor"
    /\ ~Exists(tree, call.place)
    /\ call' = [call EXCEPT !.place = Front(call.place),
                            !.trailing = <<Last(call.place)>> \o call.trailing]
    /\ UNCHANGED <<tree, changes, pages, hit>>

\* Nothing there: one up. At / there always is something.
GoesUp ==
    /\ call.pc = "ancestor"
    /\ ~Lstat(tree, call.place)
    /\ call' = [call EXCEPT !.place = Front(call.place),
                            !.trailing = <<Last(call.place)>> \o call.trailing]
    /\ UNCHANGED <<tree, changes, pages, hit>>

FindsAncestor ==
    /\ call.pc = "ancestor"
    /\ Lstat(tree, call.place)
    /\ call' = [call EXCEPT !.pc = "canonicalize", !.walk = Walk(call.place)]
    /\ UNCHANGED <<tree, changes, pages, hit>>

Canonicalizes ==
    /\ call.pc = "canonicalize" /\ ~call.walk.end
    /\ call' = [call EXCEPT !.walk = WalkPart(tree, call.walk)]
    /\ UNCHANGED <<tree, changes, pages, hit>>

CannotResolve ==
    /\ call.pc = "canonicalize" /\ call.walk.end
    /\ call.walk.at = None
    /\ Refuses("cannot_resolve")
    /\ UNCHANGED <<tree, changes, pages, hit>>

GoesOnAt(place) ==
    call' = [call EXCEPT !.pc = IF call.op = "read_file" THEN "read" ELSE "present",
                         !.place = place]

LeadsOut ==
    /\ call.pc = "canonicalize" /\ call.walk.end
    /\ call.walk.at # None /\ ~Under(call.walk.at)
    /\ Refuses("escape")
    /\ UNCHANGED <<tree, changes, pages, hit>>

\* Only the place before canonicalize is held against the root.
ResolvesUnchecked ==
    /\ call.pc = "canonicalize" /\ call.walk.end
    /\ call.walk.at # None /\ Under(call.place)
    /\ GoesOnAt(call.walk.at \o call.trailing)
    /\ UNCHANGED <<tree, changes, pages, hit>>

\* The names that lead on from the ancestor are appended to where its links led.
Resolves ==
    /\ call.pc = "canonicalize" /\ call.walk.end
    /\ call.walk.at # None /\ Under(call.walk.at)
    /\ GoesOnAt(call.walk.at \o call.trailing)
    /\ UNCHANGED <<tree, changes, pages, hit>>

-----------------------------------------------------------------------------
(***************************************************************************)
(* read_file.                                                               *)
(***************************************************************************)
PageFromOne(lines) ==
    LET first == Min({call.offset, Len(lines)})
        last  == IF call.limit = None THEN Len(lines)
                 ELSE Min({call.offset + call.limit, Len(lines)})
    IN  [i \in 1 .. last - first |->
            OutputLine(Shown(call.place), i, lines[first + i])]

Readable(place) == Follow(tree, place) \notin Unreadable

\* Lines offset + 1 to offset + limit, with their numbers in the file.
Page(lines) ==
    LET first == Min({call.offset, Len(lines)})
        last  == IF call.limit = None THEN Len(lines)
                 ELSE Min({call.offset + call.limit, Len(lines)})
    IN  [i \in 1 .. last - first |->
            OutputLine(Shown(call.place), call.offset + i, lines[first + i])]

Read ==
    /\ call.pc = "read"
    /\ LET entry == FollowedEntry(tree, call.place)
           IsRead == entry.kind = "file" /\ Readable(call.place)
       IN  CASE ~IsRead -> Refuses("refused") /\ UNCHANGED pages
             [] IsRead /\ call.offset >= Len(entry.text) /\ entry.text # <<>> ->
                   Refuses("past_the_end") /\ UNCHANGED pages
             [] OTHER ->
                   /\ AnswersText("ok", Page(entry.text))
                   /\ pages' = pages \o call'.out
    /\ UNCHANGED <<tree, changes, hit>>

-----------------------------------------------------------------------------
(***************************************************************************)
(* list_dir and search.                                                     *)
(***************************************************************************)
\* present: a walk of a place where nothing is would look like an empty one.
Presents ==
    /\ call.pc = "present"
    /\ LET kind == FollowedEntry(tree, call.place).kind
       IN  IF kind = "none" \/ (call.op = "list_dir" /\ kind # "dir") THEN Refuses("refused")
           ELSE call' = [call EXCEPT !.pc = "walk", !.todo = {call.place}]
    /\ UNCHANGED <<tree, changes, pages, hit>>

SeenThrough(place) == FollowedEntry(tree, place)

\* What the walker sees at a place: it follows no link below where it starts.
Seen(place) ==
    IF place = call.place THEN FollowedEntry(tree, place)
    ELSE LET parent == Follow(tree, Front(place))
         IN  IF parent = None THEN Nothing ELSE EntryAt(tree, Append(parent, Last(place)))

Depth(place) == Len(place) - Len(call.place)

BelowOneDeeper(place) ==
    LET at == Follow(tree, place)
        names == {name \in Name \ Ignored : EntryAt(tree, Append(at, name)).kind # "none"}
    IN  IF /\ Seen(place).kind = "dir" /\ Readable(place)
           /\ call.op = "list_dir" => Depth(place) <= call.limit
        THEN {Append(place, name) : name \in names}
        ELSE {}

\* A directory's entries that are not ignored, down to the depth asked for. Of a directory
\* that cannot be read the walker yields an error, which flatten drops.
Below(place) ==
    LET at == Follow(tree, place)
        names == {name \in Name \ Ignored : EntryAt(tree, Append(at, name)).kind # "none"}
    IN  IF /\ Seen(place).kind = "dir" /\ Readable(place)
           /\ call.op = "list_dir" => Depth(place) < call.limit
        THEN {Append(place, name) : name \in names}
        ELSE {}

Matches(line) == \E k \in DOMAIN line : line[k] \in Matching

\* trim_end: the line without the blanks after its last character that is none.
Trimmed(line) ==
    SubSeq(line, 1, Cardinality({k \in DOMAIN line : \E j \in k .. Len(line) :
                                    line[j] \notin Blank}))

\* The matching lines of a text file, trimmed, in their order and numbered from 1.
Hits(path, text) ==
    LET found == {n \in DOMAIN text : Matches(text[n])}
        Place(n) == Cardinality({m \in found : m <= n})
    IN  [i \in 1 .. Cardinality(found) |->
            LET n == CHOOSE m \in found : Place(m) = i
            IN  OutputLine(path, n, Trimmed(text[n]))]

\* What a walk prints of a place it visits: list_dir the path below where it started, and
\* search the hits in a file. It passes over one that cannot be read.
Printed(place) ==
    LET entry == Seen(place)
    IN  IF call.op = "search"
        THEN IF entry.kind = "file" /\ Readable(place)
             THEN Hits(Shown(place), entry.text)
             ELSE <<>>
        ELSE IF place = call.place \/ entry.kind = "none" THEN <<>>
        ELSE <<OutputLine([abs |-> FALSE, parts |-> SubSeq(place, Len(call.place) + 1, Len(place))],
                          0, <<>>)>>

FullAfterOneMore(out, place) ==
    call.op = "search" /\ Printed(place) # <<>> /\ Len(out) > call.limit

\* The hits are counted one by one, and held against the limit after each.
Full(out, place) ==
    call.op = "search" /\ Printed(place) # <<>> /\ Len(out) >= call.limit

\* The walker goes deeper before it goes on.
Visits(place) ==
    /\ call.pc = "walk"
    /\ place \in call.todo
    /\ \A other \in call.todo : Len(other) <= Len(place)
    /\ LET out == call.out \o Printed(place)
       IN  IF Full(out, place)
           THEN AnswersText("stopped", SubSeq(out, 1, Max({call.limit, 1})))
           ELSE call' = [call EXCEPT !.out = out,
                                     !.todo = (call.todo \ {place}) \cup Below(place)]
    /\ UNCHANGED <<tree, changes, pages, hit>>

WalkEnds ==
    /\ call.pc = "walk"
    /\ call.todo = {}
    /\ AnswersText("ok", call.out)
    /\ UNCHANGED <<tree, changes, pages, hit>>

-----------------------------------------------------------------------------
(***************************************************************************)
(* What the client does with an answer, and what others do to the tree.     *)
(***************************************************************************)
\* A full page: the next one.
AsksForMore ==
    /\ call.pc = "done" /\ call.op = "read_file" /\ call.answer = "ok" /\ hit = None
    /\ call.limit # None /\ call.limit > 0 /\ Len(call.out) = call.limit
    /\ Call("read_file", call.input, call.offset + call.limit, call.limit)
    /\ UNCHANGED <<tree, changes, pages, hit>>

\* A match: the line it was found on, by the path and the number search printed.
ReadsHit ==
    /\ call.pc = "done" /\ call.op = "search"
    /\ \E i \in DOMAIN call.out :
          /\ hit' = call.out[i]
          /\ Call("read_file", call.out[i].path, call.out[i].n - 1, 1)
    /\ UNCHANGED <<tree, changes, pages>>

\* An entry is put where a directory holds it; what was below it goes.
Command ==
    /\ call.pc # "idle" /\ changes < MaxChanges
    /\ \E change \in Change :
          /\ EntryAt(tree, Front(change.place)).kind = "dir"
          /\ tree' = [place \in DOMAIN tree |->
                        IF place = change.place THEN change.entry
                        ELSE IF IsPrefix(change.place, place) THEN Nothing
                        ELSE tree[place]]
    /\ changes' = changes + 1
    /\ UNCHANGED <<call, pages, hit>>

Resolution ==
    \/ Escapes \/ LooksUp \/ GoesUp \/ FindsAncestor
    \/ Canonicalizes \/ CannotResolve \/ LeadsOut \/ Resolves

Walks == Presents \/ (\E place \in call.todo : Visits(place)) \/ WalkEnds

Next == Asks \/ Resolution \/ Read \/ Walks \/ AsksForMore \/ ReadsHit \/ Command

Spec == Init /\ [][Next]_vars

-----------------------------------------------------------------------------
(***************************************************************************)
(* Properties.                                                              *)
(***************************************************************************)
Resolved == call.pc \in {"read", "present", "walk"} \/ call.answer \in {"ok", "stopped"}

\* The places a tool opens next: the walker none that is a link.
Opened ==
    CASE call.pc \in {"read", "present"} -> {call.place}
      [] call.pc = "walk" -> {place \in call.todo : Seen(place).kind # "link"}
      [] OTHER -> {}

\* Whether nobody has changed the tree since the client began.
Quiet == changes = 0

\* A call, its answer and the lines it prints keep their types.
TypeOK ==
    /\ call.pc \in {"idle", "lexical", "ancestor", "canonicalize", "read", "present", "walk",
                    "done"}
    /\ call.op \in {None, "read_file", "list_dir", "search"}
    /\ call.answer \in Answered \cup {None}
    /\ tree \in [DOMAIN tree -> Entry]
    /\ call.input \in Input \cup {None}
    /\ {call.offset, call.limit} \subseteq Nat \cup {None}
    /\ call.place \in Seq(Name) \cup {None}
    /\ call.trailing \in Seq(Name)
    /\ call.walk \in WalkRecord
    /\ call.todo \subseteq Seq(Name)
    /\ {call.out, pages} \subseteq Seq(Line)
    /\ hit \in Line \cup {None}
    /\ changes \in 0 .. MaxChanges

\* Whatever links the tree has, and from whichever place a walk starts, each file and each
\* directory a tool opens is one under the root: no link above, on or below the path leads
\* it out, as long as nobody puts one there between the check and the opening
\* (root.rs:81-113, fs_ops.rs:158-163, 196-201).
ReadsStayUnder ==
    Quiet => \A place \in Opened :
                 LET at == Follow(tree, place) IN at # None => Under(at)

\* A resolved path goes through no link: opening it, or creating what is not there yet and
\* the directories before it, touches that place and no other, so that neither a link nor
\* a dangling link leads a tool to where the path does not say (root.rs:84-89).
ResolvedHasNoLink ==
    Resolved /\ Quiet =>
        \A k \in 1 .. Len(call.place) :
            EntryAt(tree, SubSeq(call.place, 1, k)).kind # "link"

WithoutLinks ==
    [place \in DOMAIN tree |-> IF tree[place].kind = "link" THEN Nothing ELSE tree[place]]

ClimbsOverTheTop(parts) ==
    \E k \in DOMAIN parts :
        Cardinality({i \in 1 .. k : parts[i] = ".."})
            > Cardinality({i \in 1 .. k : parts[i] \in Name})

\* A path that names something means to the tools what it means to a shell in the root:
\* they go on with that place when it is under the root and refuse it as an escape when it
\* is not. Where the path has both a link and a .. after it, goes above /, or leads back to
\* the root over a link outside it, the two part ways (root.rs:47-75).
MeansWhatTheShellMeans ==
    LET parts == Joined(call.input)
        there == Follow(tree, parts)
    IN  (call.pc # "idle" /\ Quiet /\ there # None
            /\ (".." \in ToSet(parts) => Follow(WithoutLinks, parts) # None)) =>
           /\ Resolved => call.place = there
           /\ call.answer = "escape" =>
                 \/ ~Under(there) \/ ClimbsOverTheTop(parts)
                 \/ ".." \notin ToSet(parts) /\ ~Under(Lexical(parts))
           /\ call.answer # "cannot_resolve"

\* What search prints can be given to read_file: the path leads to the file and the number,
\* which search counts from 1 and read_file's offset from 0, to the line, which search
\* shows without the blanks at its end (fs_ops.rs:14-21, 85-100, 207-210).
HitsReadBack ==
    call.pc = "done" /\ hit # None /\ call.op = "read_file" /\ Quiet =>
        \/ /\ call.answer = "ok" /\ Len(call.out) = 1
           /\ [call.out[1] EXCEPT !.text = Trimmed(@)] = hit
        \/ call.answer \in {"truncated", "panicked"}

\* The pages of a client that reads a file from its beginning, each from the line after
\* the last one's, are the file, each line once and under its number: whether the last page
\* is short, or full so that the one after it is past the end (fs_ops.rs:83-100).
PagesMakeTheFile ==
    LET text == FollowedEntry(tree, call.place).text
        done == \/ call.answer = "past_the_end" /\ pages # <<>>
                \/ call.answer = "ok" /\ (call.limit = None \/ Len(call.out) < call.limit)
    IN  (call.pc = "done" /\ call.op = "read_file" /\ Quiet /\ hit = None /\ done
            /\ (call.limit # 0) /\ pages # <<>>) =>
           LET first == pages[1].n - 1
           IN  /\ Len(pages) = Len(text) - first
               /\ \A i \in DOMAIN pages : pages[i].n = first + i /\ pages[i].text = text[first + i]

\* The directories from the call's place down to a place can all be read.
Reachable(place) ==
    \A k \in Len(call.place) .. Len(place) - 1 : SubSeq(place, 1, k) \notin Unreadable

\* What a walk from the call's place can find: what neither is ignored nor lies in what is.
Visible(place) ==
    /\ IsStrictPrefix(call.place, place)
    /\ tree[place].kind # "none"
    /\ \A k \in Len(call.place) + 1 .. Len(place) : place[k] \notin Ignored
    /\ Reachable(place)

AllHits ==
    UNION {ToSet(Hits(Shown(place), FollowedEntry(tree, place).text)) :
              place \in {p \in DOMAIN tree :
                            /\ Visible(p) \/ p = call.place
                            /\ EntryAt(tree, p).kind = "file" /\ p \notin Unreadable}}

\* search prints once each matching line of the text files below its path that it can
\* read, through directories that it can, and says when it has left some of those out: when
\* it does not, the lines are all there are, and with a limit above 0 it stops at it, never
\* before. Of what it cannot read it says nothing, so that no match at all may also mean
\* that; and a limit of 0 shows one line (fs_ops.rs:196-223).
SearchIsComplete ==
    (call.pc = "done" /\ call.op = "search" /\ Quiet) =>
        /\ call.answer \in {"ok", "stopped"} =>
              ToSet(call.out) \subseteq AllHits /\ Len(call.out) = Cardinality(ToSet(call.out))
        /\ call.answer = "ok" =>
              ToSet(call.out) = AllHits /\ (call.out = <<>> \/ Len(call.out) < call.limit)
        /\ call.answer = "stopped" /\ call.limit > 0 => Len(call.out) = call.limit

\* list_dir prints once each of the entries down to its depth, links among them as they are,
\* that are not ignored and lie in directories it can read, and nothing else. It does not
\* say what it leaves out: an empty listing is that of a directory with nothing in it, with
\* ignored entries alone, or that cannot be read (fs_ops.rs:149-180).
ListIsComplete ==
    (call.pc = "done" /\ call.op = "list_dir" /\ Quiet /\ call.answer = "ok") =>
        /\ Len(call.out) = Cardinality(ToSet(call.out))
        /\ {call.place \o call.out[i].path.parts : i \in DOMAIN call.out} =
              {p \in DOMAIN tree : Visible(p) /\ Depth(p) <= call.limit}

-----------------------------------------------------------------------------
\* LOCAL_MCP_MAX_OUTPUT is the "Byte ceiling on tool output." (README.md:79): output that is
\* longer is cut to the ceiling and answered.
LongOutputIsCut == call.answer # "panicked"
=============================================================================
