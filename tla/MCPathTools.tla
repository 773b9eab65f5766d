---------------------------- MODULE MCPathTools ----------------------------
(* PathTools on a root /r with a neighbour /o, directories one in another, and a place /r/z
   that cannot be read. *)
EXTENDS PathTools, TLC

CONSTANTS a, b, w, s

MCName == {"r", "o", "x", "y", "z", "i"}
MCRoot == <<"r">>

\* a, b and the blank s take a byte, w three.
MCWidth == (a :> 1) @@ (b :> 1) @@ (w :> 3) @@ (s :> 1)

Short == <<<<a>>>>
Long == <<<<a>>, <<b, s>>, <<s, a, s>>>>
Wide == <<<<w>>, <<w, w, a>>>>

\* Links to a neighbour, to a file beside, to nothing, to themselves and back to the root.
AtX == {Nothing, Dir, File(Short), Link(TRUE, <<"o">>), Link(FALSE, <<"x">>),
        Link(FALSE, <<"..", "o", "x">>), Link(FALSE, <<"..", "r", ".">>)}
AtY == {Nothing, File(Long), Link(TRUE, <<"r", "x", "y">>), Binary}
AtXY == {Nothing, File(Wide), Dir}

Grown(x, y, xy) ==
    (<<"r">> :> Dir) @@ (<<"o">> :> Dir) @@ (<<"o", "y">> :> File(Short))
        @@ (<<"o", "i">> :> Link(TRUE, <<"r">>)) @@ (<<"r", "i">> :> File(Short))
        @@ (<<"r", "x">> :> x) @@ (<<"r", "y">> :> y)
        @@ (<<"r", "x", "y">> :> xy)
        @@ (<<"r", "x", "y", "x">> :> IF xy = Dir THEN File(<<>>) ELSE Nothing)

\* What cannot be read is a file, or a directory with a file in it that can.
MCUnreadable == {<<"r", "z">>}

WithUnreadable(tree1, z) ==
    (<<"r", "z">> :> z) @@ (<<"r", "z", "y">> :> IF z = Dir THEN File(Short) ELSE Nothing)
        @@ tree1

MCTree ==
    {Grown(t[1], t[2], t[3]) : t \in {t \in AtX \X AtY \X AtXY : t[1] = Dir \/ t[3] = Nothing}}
    \cup {WithUnreadable(Grown(x, File(Long), Nothing), z) :
            x \in {Nothing, Link(FALSE, <<"z">>)}, z \in {Dir, File(Short)}}

MCChange ==
    {[place |-> <<"r", "x">>, entry |-> e] : e \in {Nothing, Dir, Link(TRUE, <<"o">>)}}

Relative(parts) == [abs |-> FALSE, parts |-> parts]
Absolute(parts) == [abs |-> TRUE, parts |-> parts]

MCPath ==
    {Relative(p) : p \in {<<".">>, <<"x">>, <<"y">>, <<"z">>, <<"x", "y">>, <<"y", "x">>,
                          <<".", "x", ".", "..", "y">>, <<"..">>, <<"..", "o", "y">>,
                          <<"..", "..", "r", "y">>, <<"x", "..", "..", "r">>}}
    \cup {Absolute(p) : p \in {<<"r", "x">>, <<"o", "y">>, <<"o", "..", "r", "y">>,
                               <<"o", "i", "y">>}}
=============================================================================
