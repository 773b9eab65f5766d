----------------------------- MODULE RootResolve -----------------------------
(***************************************************************************)
(* root.rs: what a path a caller writes means to the server, over a tree of *)
(* files, directories and links. No state: the steps of Root::resolve and   *)
(* the commands that change the tree between them are in PathTools.         *)
(*                                                                          *)
(* A place in the tree is the sequence of the names that lead to it from /. *)
(* A path is a place or the text of one: it may be relative and have . and  *)
(* .. among its parts. A tree is a function from some places to entries;    *)
(* there is nothing at any other place.                                     *)
(***************************************************************************)
EXTENDS Integers, SequencesExt

CONSTANTS
    Name,          \* names of files and directories
    Char,          \* what a line of a file is made of
    Root,          \* the place of the sandbox root, its links resolved by Root::new
    MaxWalk,       \* bound: parts the kernel walks before it calls a chain of links a loop
    None           \* no place

ASSUME RootAssumption ==
    /\ Root \in Seq(Name)
    /\ {".", ".."} \cap Name = {}
    /\ MaxWalk \in Nat
    /\ None \notin Seq(Name)

Part == Name \cup {".", ".."}

Input == [abs : BOOLEAN, parts : Seq(Part)]

Nothing == [kind |-> "none"]
Dir == [kind |-> "dir"]
Binary == [kind |-> "binary"]
File(text) == [kind |-> "file", text |-> text]
Link(abs, parts) == [kind |-> "link", abs |-> abs, parts |-> parts]

Entry ==
    {Nothing, Dir, Binary} \cup [kind : {"file"}, text : Seq(Seq(Char))]
        \cup [kind : {"link"}, abs : BOOLEAN, parts : Seq(Part)]

EntryAt(tree, place) ==
    IF place = <<>> THEN Dir ELSE IF place \in DOMAIN tree THEN tree[place] ELSE Nothing

\* What is there is in a directory, which is in one, up to /, and not too deep to be walked to.
IsTree(tree) ==
    /\ DOMAIN tree \subseteq Seq(Name)
    /\ tree \in [DOMAIN tree -> Entry]
    /\ \A place \in DOMAIN tree : tree[place].kind # "none" =>
          /\ Len(place) <= MaxWalk
          /\ \A k \in 1 .. Len(place) - 1 : EntryAt(tree, SubSeq(place, 1, k)).kind = "dir"

-----------------------------------------------------------------------------
(***************************************************************************)
(* The kernel's reading of a path, part by part.                            *)
(***************************************************************************)
WalkRecord == [end : BOOLEAN, at : Seq(Name) \cup {None}, parts : Seq(Part),
               left : 0 .. MaxWalk]

Walk(parts) == [end |-> parts = <<>>, at |-> <<>>, parts |-> parts, left |-> MaxWalk]

\* A walk takes its next part.
WalkPart(tree, walk) ==
    LET part  == Head(walk.parts)
        next  == Append(walk.at, part)
        entry == EntryAt(tree, next)
        rest  == Tail(walk.parts)
        Goes(at, parts) ==
            [end |-> parts = <<>>, at |-> at, parts |-> parts, left |-> walk.left - 1]
        Fails == [end |-> TRUE, at |-> None, parts |-> <<>>, left |-> 0]
    IN  IF \/ walk.left = 0
           \/ EntryAt(tree, walk.at).kind # "dir"
           \/ part \in Name /\ entry.kind = "none"
        THEN Fails
        ELSE CASE part = "." -> Goes(walk.at, rest)
               [] part = ".." -> Goes(IF walk.at = <<>> THEN <<>> ELSE Front(walk.at), rest)
               [] part \in Name /\ entry.kind = "link" ->
                     Goes(IF entry.abs THEN <<>> ELSE walk.at, entry.parts \o rest)
               [] part \in Name /\ entry.kind # "link" -> Goes(next, rest)

\* The walk of parts from /, by how many parts it has taken.
WalkOf(tree, parts) ==
    LET walk[n \in 0 .. MaxWalk + 1] ==
            IF n = 0 THEN Walk(parts)
            ELSE LET before == walk[n - 1]
                 IN  IF before.end THEN before ELSE WalkPart(tree, before)
    IN  walk

\* The place parts lead to from /, or None where nothing is there, a file is in the way,
\* or the links go round.
Follow(tree, parts) == WalkOf(tree, parts)[MaxWalk + 1].at

FollowedEntry(tree, place) ==
    LET at == Follow(tree, place)
    IN  IF at = None THEN Nothing ELSE EntryAt(tree, at)

\* Path::exists, which a link to nothing does not.
Exists(tree, place) == Follow(tree, place) # None

\* symlink_metadata is ok: a link at the end is not followed.
Lstat(tree, place) ==
    \/ place = <<>>
    \/ LET parent == Follow(tree, Front(place))
       IN  /\ parent # None
           /\ EntryAt(tree, parent).kind = "dir"
           /\ EntryAt(tree, Append(parent, Last(place))).kind # "none"

-----------------------------------------------------------------------------
(***************************************************************************)
(* Root.                                                                    *)
(***************************************************************************)
Under(place) == IsPrefix(Root, place)

\* An absolute input stays what it is.
Joined(input) == IF input.abs THEN input.parts ELSE Root \o input.parts

KeepsParents(place, part) == IF part = "." THEN place ELSE Append(place, part)

PopsNothing(place, part) == IF part \in {".", ".."} THEN place ELSE Append(place, part)

\* Root::lexical on one part: . is dropped, .. takes the last name away, and there is none
\* to take from /.
LexicalPart(place, part) ==
    CASE part = "." -> place
      [] part = ".." -> IF place = <<>> THEN None ELSE Front(place)
      [] OTHER -> Append(place, part)

\* The whole of a path, None where it goes above /.
Lexical(parts) ==
    LET place[n \in 0 .. Len(parts)] ==
            IF n = 0 THEN <<>>
            ELSE LET before == place[n - 1]
                 IN  IF before = None THEN None ELSE LexicalPart(before, parts[n])
    IN  place[Len(parts)]

LastName(place) == [abs |-> FALSE, parts |-> IF place = Root THEN <<".">> ELSE <<Last(place)>>]

\* shown: relative to the root, and . for the root; what is not under it stays absolute.
Shown(place) ==
    IF ~Under(place) THEN [abs |-> TRUE, parts |-> place]
    ELSE [abs |-> FALSE,
          parts |-> IF place = Root THEN <<".">>
                    ELSE SubSeq(place, Len(Root) + 1, Len(place))]
=============================================================================
