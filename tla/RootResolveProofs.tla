--------------------------- MODULE RootResolveProofs ---------------------------
(***************************************************************************)
(* Facts about RootResolve, for every tree and every path: what the         *)
(* kernel's walk over a path and Root::lexical yield, by induction on how   *)
(* many parts they have taken.                                              *)
(***************************************************************************)
EXTENDS RootResolve, SequenceTheorems, FiniteSetTheorems, TLAPS

-----------------------------------------------------------------------------
(* Induction over the naturals, for sets, and functions defined by iteration. *)

LEMMA Least ==
    ASSUME NEW T \in SUBSET Nat, T # {}
    PROVE  \E x \in T : \A y \in T : x <= y
<1> DEFINE R == OpToRel(<, Nat)
<1>1. IsWellFoundedOn(R, Nat)
  BY NatLessThanWellFounded
<1>2. \A y, x \in Nat : y < x => <<y, x>> \in R
  BY DEF OpToRel
<1> HIDE DEF R
<1>3. PICK x \in T : \A y \in T : <<y, x>> \notin R
  BY <1>1, WFMin
<1>4. \A y \in T : ~(y < x) /\ y \in Nat /\ x \in Nat
  BY <1>2, <1>3
<1>5. \A y \in T : x <= y
  BY <1>4
<1> QED BY <1>5

LEMMA SetInduction ==
    ASSUME NEW S, 0 \in S, \A n \in Nat : n \in S => n + 1 \in S
    PROVE  Nat \subseteq S
<1> SUFFICES ASSUME Nat \ S # {} PROVE FALSE
  OBVIOUS
<1>1. PICK x \in Nat \ S : \A y \in Nat \ S : x <= y
  BY Least
<1>2. x # 0 /\ x - 1 \in Nat
  BY <1>1
<1>3. x - 1 \in S
  BY <1>1, <1>2
<1> QED BY <1>1, <1>2, <1>3

LEMMA IntervalInduction ==
    ASSUME NEW N \in Nat, NEW S, 0 \in S, \A n \in 0 .. N - 1 : n \in S => n + 1 \in S
    PROVE  \A n \in 0 .. N : n \in S
<1> DEFINE Good == {n \in Nat : n <= N => n \in S}
<1>1. 0 \in Good
  OBVIOUS
<1>2. \A n \in Nat : n \in Good => n + 1 \in Good
  OBVIOUS
<1>3. Nat \subseteq Good
  <2> HIDE DEF Good
  <2> QED BY <1>1, <1>2, SetInduction
<1> QED BY <1>3

\* f begins with a and goes on by F for N steps.
Iterates(f, S, a, N, F) ==
    f \in [0 .. N -> S] /\ f[0] = a /\ \A n \in 1 .. N : f[n] = F[<<n, f[n - 1]>>]

LEMMA Iteration ==
    ASSUME NEW S, NEW a \in S, NEW N \in Nat, NEW F \in [(1 .. N) \X S -> S]
    PROVE  \E f : Iterates(f, S, a, N, F)
<1> DEFINE Begins(m, f) ==
             f \in [0 .. m -> S] /\ f[0] = a /\ \A n \in 1 .. m : f[n] = F[<<n, f[n - 1]>>]
           Good == {m \in Nat : m <= N => \E f : Begins(m, f)}
<1>1. 0 \in Good
  <2>1. Begins(0, [n \in 0 .. 0 |-> a])
    OBVIOUS
  <2>2. \E f : Begins(0, f)
    <3> HIDE DEF Begins
    <3> QED BY <2>1
  <2> QED BY <2>2
<1>2. ASSUME NEW m \in Nat, m \in Good PROVE m + 1 \in Good
  <2> SUFFICES ASSUME m + 1 <= N PROVE \E f : Begins(m + 1, f)
    BY <1>2
  <2>1. PICK f : Begins(m, f)
    BY <1>2
  <2> DEFINE g == [n \in 0 .. (m + 1) |-> IF n = m + 1 THEN F[<<m + 1, f[m]>>] ELSE f[n]]
  <2>2. F[<<m + 1, f[m]>>] \in S
    <3>1. f[m] \in S /\ m + 1 \in 1 .. N
      BY <2>1
    <3>2. <<m + 1, f[m]>> \in (1 .. N) \X S
      BY <3>1
    <3> QED BY <3>2
  <2>3. g \in [0 .. (m + 1) -> S]
    BY <2>1, <2>2
  <2>4. (\A n \in 0 .. m : g[n] = f[n]) /\ g[m + 1] = F[<<m + 1, f[m]>>]
    OBVIOUS
  <2> HIDE DEF g
  <2>5. \A n \in 1 .. (m + 1) : g[n] = F[<<n, g[n - 1]>>]
    <3>1. \A n \in 1 .. m : g[n] = F[<<n, g[n - 1]>>]
      BY <2>1, <2>4
    <3>2. g[m + 1] = F[<<m + 1, g[(m + 1) - 1]>>]
      BY <2>4
    <3> QED BY <3>1, <3>2
  <2>6. Begins(m + 1, g)
    BY <2>1, <2>3, <2>4, <2>5
  <2> HIDE DEF Begins
  <2> QED BY <2>6
<1>3. Nat \subseteq Good
  <2> HIDE DEF Good
  <2> QED BY <1>1, <1>2, SetInduction
<1>4. \E f : Begins(N, f)
  <2> HIDE DEF Begins
  <2> QED BY <1>3
<1> QED BY <1>4 DEF Iterates

-----------------------------------------------------------------------------
(* Types. *)

\* Entries of a tree of entries are entries, also where it has none.
LEMMA EntryType ==
    ASSUME NEW t, t \in [DOMAIN t -> Entry], NEW place
    PROVE  EntryAt(t, place) \in Entry
<1>1. Dir \in Entry /\ Nothing \in Entry
  BY DEF Entry
<1> QED BY <1>1 DEF EntryAt

\* A walk ends when it has no part to take, and until then it is somewhere.
Underway == {w \in WalkRecord : (w.end <=> w.parts = <<>>) /\ (w.at = None => w.end)}

LEMMA WalkType ==
    ASSUME NEW parts \in Seq(Part)
    PROVE  Walk(parts) \in Underway
<1>1. <<>> \in Seq(Name)
  OBVIOUS
<1>2. <<>> # None
  BY <1>1, RootAssumption
<1>5. MaxWalk \in 0 .. MaxWalk
  BY RootAssumption
<1>3. (parts = <<>>) \in BOOLEAN
  OBVIOUS
<1>4. Walk(parts) \in WalkRecord
  BY <1>1, <1>5, <1>3 DEF Walk, WalkRecord
<1> QED BY <1>2, <1>4 DEF Walk, Underway

\* A part of a path takes a walk to another.
LEMMA WalkPartType ==
    ASSUME NEW t, t \in [DOMAIN t -> Entry],
           NEW walk \in Underway, ~walk.end
    PROVE  WalkPart(t, walk) \in Underway
<1> DEFINE part  == Head(walk.parts)
           next  == Append(walk.at, part)
           entry == EntryAt(t, next)
           rest  == Tail(walk.parts)
<1>1. /\ walk.at \in Seq(Name) /\ walk.left \in 0 .. MaxWalk
      /\ walk.parts \in Seq(Part) /\ walk.parts # <<>>
  BY DEF WalkRecord, Underway
<1>2. part \in Part /\ rest \in Seq(Part)
  BY <1>1
<1>3. part \notin {".", ".."} => next \in Seq(Name)
  BY <1>1, <1>2 DEF Part
<1>4. walk.at # <<>> => Front(walk.at) \in Seq(Name)
  BY <1>1 DEF Front
<1>5. entry \in Entry
  BY EntryType
<1>6. entry.kind = "link" => entry.parts \o rest \in Seq(Part)
  <2> SUFFICES ASSUME entry.kind = "link" PROVE entry.parts \in Seq(Part)
    BY <1>2
  <2> HIDE DEF entry
  <2> QED BY <1>5 DEF Entry, Nothing, Dir, Binary
<1> DEFINE Goes(at, parts) ==
             [end |-> parts = <<>>, at |-> at, parts |-> parts, left |-> walk.left - 1]
           Fails == [end |-> TRUE, at |-> None, parts |-> <<>>, left |-> 0]
           OK(w) == w \in Underway
<1>7. OK(Fails)
  BY RootAssumption DEF WalkRecord, Underway
<1>8. ASSUME NEW at \in Seq(Name), NEW parts \in Seq(Part), walk.left # 0
      PROVE  OK(Goes(at, parts))
  <2>1. walk.left - 1 \in 0 .. MaxWalk
    BY <1>1, <1>8, RootAssumption
  <2>2. at # None
    BY RootAssumption
  <2> QED BY <2>1, <2>2 DEF WalkRecord, Underway
<1>9. <<>> \in Seq(Name)
  OBVIOUS
<1> DEFINE Stuck == \/ walk.left = 0
                    \/ EntryAt(t, walk.at).kind # "dir"
                    \/ part \in Name /\ entry.kind = "none"
<1>10. WalkPart(t, walk) =
         IF Stuck THEN Fails
         ELSE CASE part = "." -> Goes(walk.at, rest)
                [] part = ".." -> Goes(IF walk.at = <<>> THEN <<>> ELSE Front(walk.at), rest)
                [] part \in Name /\ entry.kind = "link" ->
                      Goes(IF entry.abs THEN <<>> ELSE walk.at, entry.parts \o rest)
                [] part \in Name /\ entry.kind # "link" -> Goes(next, rest)
  BY DEF WalkPart
<1>11. ~Stuck => walk.left # 0
  OBVIOUS
<1> HIDE DEF part, next, entry, rest, Goes, Fails, OK, Stuck
<1>12. OK(WalkPart(t, walk))
  <2>1. CASE Stuck
    BY <2>1, <1>7, <1>10
  <2>2. CASE ~Stuck /\ part = "."
    <3>1. WalkPart(t, walk) = Goes(walk.at, rest)
      BY <2>2, <1>10, RootAssumption
    <3> QED BY <3>1, <2>2, <1>1, <1>2, <1>8, <1>11
  <2>3. CASE ~Stuck /\ part = ".."
    <3>1. WalkPart(t, walk) = Goes(IF walk.at = <<>> THEN <<>> ELSE Front(walk.at), rest)
      BY <2>3, <1>10, RootAssumption
    <3>2. (IF walk.at = <<>> THEN <<>> ELSE Front(walk.at)) \in Seq(Name)
      BY <1>4, <1>9
    <3> QED BY <3>1, <3>2, <2>3, <1>2, <1>8, <1>11
  <2>4. CASE ~Stuck /\ part \in Name /\ entry.kind = "link"
    <3>1. WalkPart(t, walk) = Goes(IF entry.abs THEN <<>> ELSE walk.at, entry.parts \o rest)
      BY <2>4, <1>10, RootAssumption
    <3>2. (IF entry.abs THEN <<>> ELSE walk.at) \in Seq(Name)
      BY <1>1, <1>9
    <3> QED BY <3>1, <3>2, <2>4, <1>6, <1>8, <1>11
  <2>5. CASE ~Stuck /\ part \in Name /\ entry.kind # "link"
    <3>1. WalkPart(t, walk) = Goes(next, rest)
      BY <2>5, <1>10, RootAssumption
    <3>2. next \in Seq(Name)
      BY <2>5, <1>1 DEF next
    <3> QED BY <3>1, <3>2, <2>5, <1>2, <1>8, <1>11
  <2> QED BY <2>1, <2>2, <2>3, <2>4, <2>5, <1>2 DEF Part
<1> QED BY <1>12 DEF OK

\* Root::lexical stays among places.
LEMMA LexicalPartType ==
    ASSUME NEW place \in Seq(Name), NEW part \in Part
    PROVE  LexicalPart(place, part) \in Seq(Name) \cup {None}
<1>1. place # <<>> => Front(place) \in Seq(Name)
  BY DEF Front
<1>2. part \notin {".", ".."} => Append(place, part) \in Seq(Name)
  BY DEF Part
<1> QED BY <1>1, <1>2 DEF LexicalPart

\* What a caller writes is joined to the root or absolute.
LEMMA JoinedType ==
    ASSUME NEW input \in Input
    PROVE  Joined(input) \in Seq(Part)
<1>1. input.parts \in Seq(Part)
  BY DEF Input
<1>2. Root \in Seq(Part)
  BY RootAssumption DEF Part
<1> QED BY <1>1, <1>2 DEF Joined

\* What is appended to a place under the root stays under it.
LEMMA UnderExtends ==
    ASSUME NEW place \in Seq(Name), NEW trailing \in Seq(Name), Under(place)
    PROVE  Under(place \o trailing)
<1>1. Len(Root) <= Len(place) /\ SubSeq(Root, 1, Len(Root)) = SubSeq(place, 1, Len(Root))
  BY DEF Under, IsPrefix
<1>2. SubSeq(place \o trailing, 1, Len(Root)) = SubSeq(place, 1, Len(Root))
  BY <1>1, RootAssumption
<1>3. Len(Root) <= Len(place \o trailing)
  BY <1>1, RootAssumption
<1> QED BY <1>1, <1>2, <1>3 DEF Under, IsPrefix

-----------------------------------------------------------------------------
(* The walk of a path, step by step. *)

\* WalkOf is the iteration it is written as.
LEMMA WalkOfSteps ==
    ASSUME NEW t, t \in [DOMAIN t -> Entry], NEW parts \in Seq(Part)
    PROVE  /\ WalkOf(t, parts) \in [0 .. MaxWalk + 1 -> Underway]
           /\ WalkOf(t, parts)[0] = Walk(parts)
           /\ \A n \in 1 .. MaxWalk + 1 :
                 LET before == WalkOf(t, parts)[n - 1]
                 IN  WalkOf(t, parts)[n] = IF before.end THEN before ELSE WalkPart(t, before)
<1> DEFINE N == MaxWalk + 1
           Next(w) == IF w.end THEN w ELSE WalkPart(t, w)
           F == [nw \in (1 .. N) \X Underway |-> Next(nw[2])]
           Def(f) == f = [n \in 0 .. N |->
                            IF n = 0 THEN Walk(parts)
                            ELSE LET before == f[n - 1]
                                 IN  IF before.end THEN before ELSE WalkPart(t, before)]
<1>1. N \in Nat /\ Walk(parts) \in Underway
  BY WalkType, RootAssumption
<1>2. \A w \in Underway : Next(w) \in Underway
  BY WalkPartType
<1>3. F \in [(1 .. N) \X Underway -> Underway]
  BY <1>2
<1> HIDE DEF N
<1> HIDE DEF F
<1>4. PICK f : /\ f \in [0 .. N -> Underway] /\ f[0] = Walk(parts)
               /\ \A n \in 1 .. N : f[n] = F[<<n, f[n - 1]>>]
  <2>1. \E f : Iterates(f, Underway, Walk(parts), N, F)
    BY <1>1, <1>3, Iteration
  <2> QED BY <2>1 DEF Iterates
<1>5. \A n \in 1 .. N : f[n] = Next(f[n - 1])
  <2> SUFFICES ASSUME NEW n \in 1 .. N PROVE F[<<n, f[n - 1]>>] = Next(f[n - 1])
    BY <1>4
  <2>1. f[n - 1] \in Underway
    BY <1>1, <1>4
  <2> HIDE DEF Next
  <2> QED BY <2>1 DEF F
<1>6. Def(f)
  BY <1>1, <1>4, <1>5
<1>7. WalkOf(t, parts) = CHOOSE g : Def(g)
  BY DEF WalkOf, N
<1> HIDE DEF Def
<1>8. Def(WalkOf(t, parts))
  BY <1>6, <1>7
<1>9. \A n \in 0 .. N : WalkOf(t, parts)[n] \in Underway
  <2> DEFINE w == WalkOf(t, parts)
             Good == {n \in 0 .. N : w[n] \in Underway}
  <2>1. 0 \in Good
    BY <1>1, <1>8 DEF Def
  <2>2. ASSUME NEW n \in 0 .. N - 1, n \in Good PROVE n + 1 \in Good
    <3>1. n + 1 \in 0 .. N /\ n + 1 # 0 /\ (n + 1) - 1 = n
      BY <1>1
    <3>2. w[n + 1] = Next(w[n])
      BY <1>8, <3>1 DEF Def
    <3> QED BY <1>2, <2>2, <3>1, <3>2
  <2> HIDE DEF Good
  <2>3. \A n \in 0 .. N : n \in Good
    BY <1>1, <2>1, <2>2, IntervalInduction
  <2> QED BY <2>3 DEF Good
<1>10. /\ WalkOf(t, parts)[0] = Walk(parts)
       /\ \A n \in 1 .. N : WalkOf(t, parts)[n] = Next(WalkOf(t, parts)[n - 1])
  <2> DEFINE w == WalkOf(t, parts)
  <2>1. w[0] = Walk(parts)
    BY <1>1, <1>8 DEF Def
  <2>2. ASSUME NEW n \in 1 .. N PROVE w[n] = Next(w[n - 1])
    <3>1. n \in 0 .. N /\ n # 0
      BY <1>1
    <3> QED BY <1>8, <3>1 DEF Def
  <2> QED BY <2>1, <2>2
<1>11. WalkOf(t, parts) \in [0 .. N -> Underway]
  <2>1. WalkOf(t, parts) = [n \in 0 .. N |-> WalkOf(t, parts)[n]]
    BY <1>8 DEF Def
  <2> QED BY <1>9, <2>1
<1> QED BY <1>10, <1>11 DEF N

\* What one part does to a walk, case by case.
Failed == [end |-> TRUE, at |-> None, parts |-> <<>>, left |-> 0]

Going(at, parts, left) == [end |-> parts = <<>>, at |-> at, parts |-> parts, left |-> left]

LEMMA GoingIs ==
    ASSUME NEW at, NEW parts, NEW left
    PROVE  /\ Going(at, parts, left).at = at /\ Going(at, parts, left).parts = parts
           /\ Going(at, parts, left).left = left
           /\ Going(at, parts, left).end = (parts = <<>>)
BY DEF Going

Stuck(t, w) ==
    \/ w.left = 0
    \/ EntryAt(t, w.at).kind # "dir"
    \/ Head(w.parts) \in Name /\ EntryAt(t, Append(w.at, Head(w.parts))).kind = "none"

LEMMA WalkPartIs ==
    ASSUME NEW t, NEW w
    PROVE  LET part == Head(w.parts)
               entry == EntryAt(t, Append(w.at, part))
               rest == Tail(w.parts)
           IN  /\ Stuck(t, w) => WalkPart(t, w) = Failed
               /\ ~Stuck(t, w) /\ part = "." =>
                     WalkPart(t, w) = Going(w.at, rest, w.left - 1)
               /\ ~Stuck(t, w) /\ part = ".." =>
                     WalkPart(t, w) =
                        Going(IF w.at = <<>> THEN <<>> ELSE Front(w.at), rest, w.left - 1)
               /\ ~Stuck(t, w) /\ part \in Name /\ entry.kind = "link" =>
                     WalkPart(t, w) =
                        Going(IF entry.abs THEN <<>> ELSE w.at, entry.parts \o rest, w.left - 1)
               /\ ~Stuck(t, w) /\ part \in Name /\ entry.kind # "link" =>
                     WalkPart(t, w) = Going(Append(w.at, part), rest, w.left - 1)
<1> DEFINE part  == Head(w.parts)
           next  == Append(w.at, part)
           entry == EntryAt(t, next)
           rest  == Tail(w.parts)
<1>1. {".", ".."} \cap Name = {}
  BY RootAssumption
<1>2. WalkPart(t, w) =
         IF Stuck(t, w) THEN Failed
         ELSE CASE part = "." -> Going(w.at, rest, w.left - 1)
                [] part = ".." ->
                     Going(IF w.at = <<>> THEN <<>> ELSE Front(w.at), rest, w.left - 1)
                [] part \in Name /\ entry.kind = "link" ->
                     Going(IF entry.abs THEN <<>> ELSE w.at, entry.parts \o rest, w.left - 1)
                [] part \in Name /\ entry.kind # "link" -> Going(next, rest, w.left - 1)
  BY DEF WalkPart, Stuck, Failed, Going
<1> HIDE DEF part, next, entry, rest
<1>3. /\ Stuck(t, w) => WalkPart(t, w) = Failed
      /\ ~Stuck(t, w) /\ part = "." => WalkPart(t, w) = Going(w.at, rest, w.left - 1)
      /\ ~Stuck(t, w) /\ part = ".." =>
            WalkPart(t, w) =
               Going(IF w.at = <<>> THEN <<>> ELSE Front(w.at), rest, w.left - 1)
      /\ ~Stuck(t, w) /\ part \in Name /\ entry.kind = "link" =>
            WalkPart(t, w) =
               Going(IF entry.abs THEN <<>> ELSE w.at, entry.parts \o rest, w.left - 1)
      /\ ~Stuck(t, w) /\ part \in Name /\ entry.kind # "link" =>
            WalkPart(t, w) = Going(next, rest, w.left - 1)
  BY <1>1, <1>2
<1> QED BY <1>3 DEF part, next, entry, rest

LEMMA WalkPartShape ==
    ASSUME NEW t, NEW w, Head(w.parts) \in Part
    PROVE  \/ WalkPart(t, w) = Failed
           \/ \E at, parts : WalkPart(t, w) = Going(at, parts, w.left - 1)
<1>1. CASE Stuck(t, w)
  BY <1>1, WalkPartIs
<1>2. CASE ~Stuck(t, w) /\ Head(w.parts) = "."
  BY <1>2, WalkPartIs
<1>3. CASE ~Stuck(t, w) /\ Head(w.parts) = ".."
  BY <1>3, WalkPartIs
<1>4. CASE ~Stuck(t, w) /\ Head(w.parts) \in Name
  BY <1>4, WalkPartIs
<1> QED BY <1>1, <1>2, <1>3, <1>4 DEF Part

\* A walk has taken as many parts as it has left fewer, until it ends.
LEMMA WalkCounts ==
    ASSUME NEW t, t \in [DOMAIN t -> Entry], NEW parts \in Seq(Part)
    PROVE  /\ \A n \in 0 .. MaxWalk + 1 :
                 WalkOf(t, parts)[n].end \/ WalkOf(t, parts)[n].left = MaxWalk - n
           /\ WalkOf(t, parts)[MaxWalk + 1].end
<1> DEFINE w == WalkOf(t, parts)
           Good == {n \in Nat : w[n].end \/ w[n].left = MaxWalk - n}
           N == MaxWalk + 1
<1>1. MaxWalk \in Nat /\ N \in Nat
  BY RootAssumption
<1>2. \A n \in 1 .. N : w[n] = IF w[n - 1].end THEN w[n - 1] ELSE WalkPart(t, w[n - 1])
  BY WalkOfSteps
<1>3. w[0] = Walk(parts) /\ \A n \in 0 .. N : w[n] \in Underway
  BY WalkOfSteps, <1>1
<1> HIDE DEF w
<1>4. 0 \in Good
  BY <1>1, <1>3 DEF Walk
<1>5. ASSUME NEW n \in 0 .. N - 1, n \in Good PROVE n + 1 \in Good
  <2>1. n + 1 \in 1 .. N /\ (n + 1) - 1 = n /\ n \in 0 .. N
    BY <1>1
  <2>2. CASE w[n].end
    BY <1>2, <2>1, <2>2
  <2>3. CASE ~w[n].end
    <3>1. w[n + 1] = WalkPart(t, w[n])
      BY <1>2, <2>1, <2>3
    <3>2. w[n].left = MaxWalk - n /\ w[n].left - 1 = MaxWalk - (n + 1)
      BY <1>1, <1>5, <2>3
    <3>3. Head(w[n].parts) \in Part
      BY <1>3, <2>1, <2>3 DEF Underway, WalkRecord
    <3>4. w[n + 1].end \/ w[n + 1].left = w[n].left - 1
      BY <3>1, <3>3, WalkPartShape DEF Failed, Going
    <3> QED BY <1>1, <3>2, <3>4, <2>1
  <2> QED BY <2>2, <2>3
<1>6. \A n \in 0 .. N : n \in Good
  <2> HIDE DEF Good, N
  <2> QED BY <1>1, <1>4, <1>5, IntervalInduction
<1>7. w[N].end
  <2>1. w[N].left \in 0 .. MaxWalk /\ w[N].left = MaxWalk - N => FALSE
    BY <1>1
  <2> QED BY <1>1, <1>3, <1>6, <2>1 DEF Underway, WalkRecord
<1> QED BY <1>6, <1>7 DEF w

\* Where a walk has ended is where it leads.
LEMMA WalkStays ==
    ASSUME NEW t, t \in [DOMAIN t -> Entry], NEW parts \in Seq(Part),
           NEW n \in 0 .. MaxWalk + 1, WalkOf(t, parts)[n].end
    PROVE  Follow(t, parts) = WalkOf(t, parts)[n].at
<1> DEFINE w == WalkOf(t, parts)
           N == MaxWalk + 1
           Good == {m \in Nat : m >= n => w[m] = w[n]}
<1>1. N \in Nat /\ N = MaxWalk + 1
  BY RootAssumption
<1>2. \A m \in 1 .. N : w[m] = IF w[m - 1].end THEN w[m - 1] ELSE WalkPart(t, w[m - 1])
  BY WalkOfSteps
<1> HIDE DEF w
<1>3. 0 \in Good
  BY <1>1
<1>4. ASSUME NEW m \in 0 .. N - 1, m \in Good PROVE m + 1 \in Good
  <2>1. m + 1 \in 1 .. N /\ (m + 1) - 1 = m
    BY <1>1
  <2>2. CASE m >= n
    BY <1>2, <1>4, <2>1, <2>2 DEF w
  <2>3. CASE m < n
    BY <1>1, <2>1, <2>3
  <2> QED BY <2>2, <2>3, <1>1
<1>5. \A m \in 0 .. N : m \in Good
  <2> HIDE DEF Good, N
  <2> QED BY <1>1, <1>3, <1>4, IntervalInduction
<1>6. w[N] = w[n]
  BY <1>1, <1>5
<1> QED BY <1>6 DEF w, Follow

\* What holds where a walk begins, and after each part if before it, holds where it ends.
LEMMA WalkInvariant ==
    ASSUME NEW t, t \in [DOMAIN t -> Entry], NEW parts \in Seq(Part), NEW S,
           Walk(parts) \in S,
           \A w \in Underway : w \in S /\ ~w.end => WalkPart(t, w) \in S
    PROVE  \E w \in Underway : w \in S /\ w.end /\ w.at = Follow(t, parts)
<1> DEFINE walk == WalkOf(t, parts)
           N == MaxWalk + 1
           Good == {n \in Nat : walk[n] \in S}
<1>1. N \in Nat /\ N = MaxWalk + 1
  BY RootAssumption
<1>2. /\ \A n \in 1 .. N : walk[n] = IF walk[n - 1].end THEN walk[n - 1]
                                     ELSE WalkPart(t, walk[n - 1])
      /\ walk[0] = Walk(parts) /\ \A n \in 0 .. N : walk[n] \in Underway
  BY WalkOfSteps, <1>1
<1>3. walk[N].end /\ walk[N].at = Follow(t, parts)
  BY WalkCounts DEF Follow
<1> HIDE DEF walk
<1>4. 0 \in Good
  BY <1>2
<1>5. ASSUME NEW n \in 0 .. N - 1, n \in Good PROVE n + 1 \in Good
  <2>1. n + 1 \in 1 .. N /\ (n + 1) - 1 = n /\ n \in 0 .. N
    BY <1>1
  <2>2. walk[n + 1] = IF walk[n].end THEN walk[n] ELSE WalkPart(t, walk[n])
    BY <1>2, <2>1
  <2>3. walk[n] \in Underway /\ walk[n] \in S
    BY <1>2, <1>5, <2>1
  <2>4. walk[n + 1] \in S
    BY <2>2, <2>3
  <2> QED BY <2>1, <2>4
<1>6. \A n \in 0 .. N : n \in Good
  <2> HIDE DEF Good, N
  <2> QED BY <1>1, <1>4, <1>5, IntervalInduction
<1>7. walk[N] \in Underway /\ walk[N] \in S
  BY <1>1, <1>2, <1>6
<1> QED BY <1>3, <1>7

-----------------------------------------------------------------------------
(* Places that links have no part in. *)

NoLinks(t, place) ==
    \A k \in 1 .. Len(place) : EntryAt(t, SubSeq(place, 1, k)).kind # "link"

\* A place where something is, reached without a link.
Plain(t, place) ==
    place \in Seq(Name) /\ NoLinks(t, place) /\ EntryAt(t, place).kind # "none"

\* Only what is in a directory is there.
LEMMA InDirectories ==
    ASSUME NEW t, IsTree(t), NEW place, EntryAt(t, place).kind # "none",
           NEW k \in 0 .. Len(place) - 1
    PROVE  EntryAt(t, SubSeq(place, 1, k)).kind = "dir"
<1>1. CASE place = <<>>
  BY <1>1
<1>2. CASE place # <<>>
  <2>1. place \in DOMAIN t /\ t[place].kind # "none"
    BY <1>2 DEF EntryAt, Nothing
  <2>2. CASE k = 0
    <3>1. place \in Seq(Name)
      BY <2>1 DEF IsTree
    <3>2. SubSeq(place, 1, k) = <<>>
      BY <2>2, <3>1
    <3> QED BY <3>2 DEF EntryAt, Dir
  <2>3. CASE k # 0
    <3>1. place \in Seq(Name)
      BY <2>1 DEF IsTree
    <3>2. k \in 1 .. Len(place) - 1
      BY <2>3, <3>1
    <3> QED BY <2>1, <3>2 DEF IsTree
  <2> QED BY <2>2, <2>3
<1> QED BY <1>1, <1>2

\* What is there can be walked to.
LEMMA NotTooDeep ==
    ASSUME NEW t, IsTree(t), NEW place, EntryAt(t, place).kind # "none"
    PROVE  place \in Seq(Name) /\ Len(place) <= MaxWalk
<1>1. CASE place = <<>>
  BY <1>1, RootAssumption
<1>2. CASE place # <<>>
  <2>1. place \in DOMAIN t /\ t[place].kind # "none"
    BY <1>2 DEF EntryAt, Nothing
  <2> QED BY <2>1 DEF IsTree
<1> QED BY <1>1, <1>2

\* The part of a sequence from m to n.
LEMMA SubSeqFacts ==
    ASSUME NEW S, NEW s \in Seq(S), NEW m \in Nat, NEW n \in Nat,
           m >= 1, n <= Len(s)
    PROVE  /\ SubSeq(s, m, n) \in Seq(S)
           /\ Len(SubSeq(s, m, n)) = IF m <= n THEN n - m + 1 ELSE 0
           /\ \A i \in 1 .. n - m + 1 : SubSeq(s, m, n)[i] = s[m + i - 1]
<1>1. Len(s) \in Nat
  BY LenProperties
<1>2. \A i \in m .. n : i \in 1 .. Len(s)
  BY <1>1
<1>3. \A i \in m .. n : s[i] \in S
  BY <1>2, ElementOfSeq
<1>4. m \in Int /\ n \in Int
  OBVIOUS
<1> QED BY <1>3, <1>4, SubSeqProperties

LEMMA FrontFacts ==
    ASSUME NEW S, NEW s \in Seq(S), s # <<>>
    PROVE  /\ Front(s) \in Seq(S) /\ Len(Front(s)) = Len(s) - 1
           /\ Front(s) = SubSeq(s, 1, Len(s) - 1)
           /\ Last(s) \in S /\ Last(s) = s[Len(s)]
           /\ s = Append(Front(s), Last(s))
<1>1. Front(s) = SubSeq(s, 1, Len(s) - 1) /\ Last(s) = s[Len(s)]
  BY DEF Front, Last
<1>2. Len(s) \in Nat /\ Len(s) >= 1
  BY EmptySeq
<1>3. /\ SubSeq(s, 1, Len(s) - 1) \in Seq(S) /\ Len(SubSeq(s, 1, Len(s) - 1)) = Len(s) - 1
      /\ \A i \in 1 .. Len(s) - 1 : SubSeq(s, 1, Len(s) - 1)[i] = s[i]
  <2> DEFINE n == Len(s) - 1
  <2>0. n \in Nat /\ 1 \in Nat /\ n <= Len(s)
    BY <1>2
  <2> HIDE DEF n
  <2>1. /\ 1 <= n => n - 1 + 1 = n
        /\ \A i \in 1 .. n : i \in 1 .. n - 1 + 1 /\ 1 + i - 1 = i
        /\ ~(1 <= n) => n = 0
    BY <2>0
  <2>2. /\ SubSeq(s, 1, n) \in Seq(S)
        /\ Len(SubSeq(s, 1, n)) = IF 1 <= n THEN n - 1 + 1 ELSE 0
        /\ \A i \in 1 .. n - 1 + 1 : SubSeq(s, 1, n)[i] = s[1 + i - 1]
    BY <2>0, SubSeqFacts
  <2>3. /\ SubSeq(s, 1, n) \in Seq(S) /\ Len(SubSeq(s, 1, n)) = n
        /\ \A i \in 1 .. n : SubSeq(s, 1, n)[i] = s[i]
    BY <2>0, <2>1, <2>2
  <2> QED BY <2>3 DEF n
<1>4. s[Len(s)] \in S
  BY <1>2, ElementOfSeq
<1> DEFINE a == Append(SubSeq(s, 1, Len(s) - 1), s[Len(s)])
<1>5. a \in Seq(S) /\ Len(a) = Len(s) /\ \A i \in 1 .. Len(s) : s[i] = a[i]
  BY <1>2, <1>3, <1>4, AppendProperties
<1> HIDE DEF a
<1>6. s = a
  BY <1>5, SeqEqual
<1> QED BY <1>1, <1>3, <1>4, <1>6 DEF a

LEMMA RootIsPlain ==
    ASSUME NEW t
    PROVE  Plain(t, <<>>)
<1>1. <<>> \in Seq(Name) /\ Len(<<>>) = 0
  OBVIOUS
<1>2. EntryAt(t, <<>>).kind = "dir"
  BY DEF EntryAt, Dir
<1> QED BY <1>1, <1>2 DEF Plain, NoLinks

LEMMA PlainFront ==
    ASSUME NEW t, IsTree(t), NEW place, Plain(t, place), place # <<>>
    PROVE  Plain(t, Front(place))
<1>1. place \in Seq(Name) /\ NoLinks(t, place) /\ EntryAt(t, place).kind # "none"
  BY DEF Plain
<1>2. /\ Front(place) \in Seq(Name) /\ Len(Front(place)) = Len(place) - 1
      /\ Front(place) = SubSeq(place, 1, Len(place) - 1)
  BY <1>1, FrontFacts
<1>3. Len(place) \in Nat /\ Len(place) - 1 \in 0 .. Len(place) - 1
  BY <1>1, EmptySeq
<1>4. EntryAt(t, Front(place)).kind = "dir"
  BY <1>1, <1>2, <1>3, InDirectories
<1>5. ASSUME NEW k \in 1 .. Len(Front(place))
      PROVE  SubSeq(Front(place), 1, k) = SubSeq(place, 1, k) /\ k \in 1 .. Len(place)
  BY <1>1, <1>2, <1>3
<1>6. NoLinks(t, Front(place))
  BY <1>1, <1>5 DEF NoLinks
<1> QED BY <1>2, <1>4, <1>6 DEF Plain

LEMMA PlainAppend ==
    ASSUME NEW t, NEW place, place \in Seq(Name), NoLinks(t, place), NEW name \in Name,
           EntryAt(t, Append(place, name)).kind \notin {"none", "link"}
    PROVE  Plain(t, Append(place, name))
<1>1. Append(place, name) \in Seq(Name) /\ Len(Append(place, name)) = Len(place) + 1
  OBVIOUS
<1>2. ASSUME NEW k \in 1 .. Len(place) + 1
      PROVE  EntryAt(t, SubSeq(Append(place, name), 1, k)).kind # "link"
  <2>1. CASE k = Len(place) + 1
    <3>1. SubSeq(Append(place, name), 1, k) = Append(place, name)
      BY <2>1
    <3> QED BY <3>1
  <2>2. CASE k # Len(place) + 1
    <3>1. SubSeq(Append(place, name), 1, k) = SubSeq(place, 1, k) /\ k \in 1 .. Len(place)
      BY <2>2
    <3> QED BY <3>1 DEF NoLinks
  <2> QED BY <2>1, <2>2
<1> QED BY <1>1, <1>2 DEF Plain, NoLinks

\* Where a path leads is reached without a link, and something is there.
LEMMA FollowIsPlain ==
    ASSUME NEW t, IsTree(t), NEW parts \in Seq(Part), Follow(t, parts) # None
    PROVE  Plain(t, Follow(t, parts))
<1> DEFINE S == {w \in Underway : w.at # None => Plain(t, w.at)}
<1>1. t \in [DOMAIN t -> Entry]
  BY DEF IsTree
<1>2. Walk(parts) \in S
  BY WalkType, RootIsPlain DEF Walk
<1>3. ASSUME NEW w \in Underway, w \in S, ~w.end PROVE WalkPart(t, w) \in S
  <2> DEFINE part == Head(w.parts)
             entry == EntryAt(t, Append(w.at, part))
  <2>1. w \in WalkRecord /\ w.at # None /\ w.parts # <<>> /\ Plain(t, w.at)
    BY <1>3 DEF Underway
  <2>2. WalkPart(t, w) \in Underway
    BY <1>1, <1>3, WalkPartType
  <2>3. part \in Part /\ w.at \in Seq(Name)
    BY <2>1 DEF WalkRecord
  <2>4. WalkPart(t, w).at # None => Plain(t, WalkPart(t, w).at)
    <3>1. CASE Stuck(t, w)
      <4>1. WalkPart(t, w) = Failed
        BY <3>1, WalkPartIs
      <4> QED BY <4>1 DEF Failed
    <3>2. CASE ~Stuck(t, w) /\ part = "."
      <4>0. WalkPart(t, w) = Going(w.at,
                                   Tail(w.parts), w.left - 1)
        BY <3>2, WalkPartIs
      <4>1. WalkPart(t, w).at = w.at
        BY <4>0 DEF Going
      <4> QED BY <4>1, <2>1
    <3>3. CASE ~Stuck(t, w) /\ part = ".."
      <4>0. WalkPart(t, w) = Going(IF w.at = <<>> THEN <<>> ELSE Front(w.at),
                                   Tail(w.parts), w.left - 1)
        BY <3>3, WalkPartIs
      <4>1. WalkPart(t, w).at = IF w.at = <<>> THEN <<>> ELSE Front(w.at)
        BY <4>0 DEF Going
      <4> QED BY <4>1, <2>1, PlainFront
    <3>4. CASE ~Stuck(t, w) /\ part \in Name /\ entry.kind = "link"
      <4>0. WalkPart(t, w) = Going(IF entry.abs THEN <<>> ELSE w.at,
                                   entry.parts \o Tail(w.parts), w.left - 1)
        BY <3>4, WalkPartIs
      <4>1. WalkPart(t, w).at = IF entry.abs THEN <<>> ELSE w.at
        BY <4>0 DEF Going
      <4> QED BY <4>1, <2>1, RootIsPlain
    <3>5. CASE ~Stuck(t, w) /\ part \in Name /\ entry.kind # "link"
      <4>0. WalkPart(t, w) = Going(Append(w.at, part),
                                   Tail(w.parts), w.left - 1)
        BY <3>5, WalkPartIs
      <4>1. WalkPart(t, w).at = Append(w.at, part)
        BY <4>0 DEF Going
      <4>2. entry.kind # "none"
        BY <3>5 DEF Stuck
      <4>3. NoLinks(t, w.at)
        BY <2>1 DEF Plain
      <4> QED BY <4>1, <4>2, <4>3, <2>3, <3>5, PlainAppend
    <3> QED BY <2>3, <3>1, <3>2, <3>3, <3>4, <3>5 DEF Part
  <2> QED BY <2>2, <2>4
<1>4. PICK w \in Underway : w \in S /\ w.end /\ w.at = Follow(t, parts)
  <2> HIDE DEF S
  <2> QED BY <1>1, <1>2, <1>3, WalkInvariant
<1> QED BY <1>4

-----------------------------------------------------------------------------
(* The first k elements of a sequence, and those after them. *)

First(s, k) == SubSeq(s, 1, k)

After(s, k) == SubSeq(s, k + 1, Len(s))

LEMMA FirstFacts ==
    ASSUME NEW S, NEW s \in Seq(S), NEW k \in 0 .. Len(s)
    PROVE  /\ First(s, k) \in Seq(S) /\ Len(First(s, k)) = k
           /\ \A i \in 1 .. k : First(s, k)[i] = s[i]
<1>1. Len(s) \in Nat
  BY LenProperties
<1>2. k \in Nat /\ 1 \in Nat /\ k <= Len(s)
  BY <1>1
<1>3. /\ 1 <= k => k - 1 + 1 = k
      /\ \A i \in 1 .. k : i \in 1 .. k - 1 + 1 /\ 1 + i - 1 = i
      /\ ~(1 <= k) => k = 0
  BY <1>2
<1>4. /\ SubSeq(s, 1, k) \in Seq(S)
      /\ Len(SubSeq(s, 1, k)) = IF 1 <= k THEN k - 1 + 1 ELSE 0
      /\ \A i \in 1 .. k - 1 + 1 : SubSeq(s, 1, k)[i] = s[1 + i - 1]
  BY <1>2, SubSeqFacts
<1> QED BY <1>2, <1>3, <1>4 DEF First

LEMMA AfterFacts ==
    ASSUME NEW S, NEW s \in Seq(S), NEW k \in 0 .. Len(s)
    PROVE  /\ After(s, k) \in Seq(S) /\ Len(After(s, k)) = Len(s) - k
           /\ \A i \in 1 .. Len(s) - k : After(s, k)[i] = s[k + i]
<1> DEFINE l == Len(s)
<1>1. l \in Nat
  BY LenProperties
<1>2. k + 1 \in Nat /\ l \in Nat /\ k + 1 >= 1 /\ l <= Len(s)
  BY <1>1
<1>3. /\ SubSeq(s, k + 1, l) \in Seq(S)
      /\ Len(SubSeq(s, k + 1, l)) = IF k + 1 <= l THEN l - (k + 1) + 1 ELSE 0
      /\ \A i \in 1 .. l - (k + 1) + 1 : SubSeq(s, k + 1, l)[i] = s[(k + 1) + i - 1]
  BY <1>2, SubSeqFacts
<1> HIDE DEF l
<1>4. /\ IF k + 1 <= l THEN l - (k + 1) + 1 = l - k ELSE 0 = l - k
      /\ \A i \in 1 .. l - k : i \in 1 .. l - (k + 1) + 1 /\ (k + 1) + i - 1 = k + i
  BY <1>1 DEF l
<1> QED BY <1>3, <1>4 DEF After, l

\* Nothing, all of it, and one more.
LEMMA FirstAfter ==
    ASSUME NEW S, NEW s \in Seq(S), NEW k \in 0 .. Len(s)
    PROVE  /\ First(s, 0) = <<>> /\ After(s, 0) = s
           /\ First(s, Len(s)) = s /\ After(s, Len(s)) = <<>>
           /\ After(s, k) = <<>> <=> k = Len(s)
           /\ s = First(s, k) \o After(s, k)
           /\ k < Len(s) =>
                 /\ s[k + 1] \in S
                 /\ After(s, k) # <<>>
                 /\ Head(After(s, k)) = s[k + 1] /\ Tail(After(s, k)) = After(s, k + 1)
                 /\ First(s, k + 1) = Append(First(s, k), s[k + 1])
<1> DEFINE l == Len(s)
<1>1. l \in Nat
  BY LenProperties
<1>2. First(s, 0) = <<>>
  BY SubSeqEmpty DEF First
<1>3. After(s, 0) = s /\ First(s, l) = s
  BY SubSeqFull DEF First, After
<1>4. After(s, k) = <<>> <=> k = l
  <2>1. After(s, k) \in Seq(S) /\ Len(After(s, k)) = l - k
    BY AfterFacts
  <2>2. After(s, k) = <<>> <=> Len(After(s, k)) = 0
    BY <2>1, EmptySeq
  <2>3. l - k = 0 <=> k = l
    BY <1>1
  <2> QED BY <2>1, <2>2, <2>3
<1>5. After(s, l) = <<>>
  <2>1. l + 1 \in Int /\ l \in Int /\ l < l + 1
    BY <1>1
  <2> QED BY <2>1, SubSeqEmpty DEF After
<1>6. s = First(s, k) \o After(s, k)
  <2> DEFINE c == First(s, k) \o After(s, k)
  <2>1. /\ First(s, k) \in Seq(S) /\ Len(First(s, k)) = k
        /\ \A i \in 1 .. k : First(s, k)[i] = s[i]
    BY FirstFacts
  <2>2. /\ After(s, k) \in Seq(S) /\ Len(After(s, k)) = l - k
        /\ \A i \in 1 .. l - k : After(s, k)[i] = s[k + i]
    BY AfterFacts
  <2>3. /\ c \in Seq(S) /\ Len(c) = k + (l - k)
        /\ \A i \in 1 .. k + (l - k) :
              c[i] = IF i <= k THEN First(s, k)[i] ELSE After(s, k)[i - k]
    BY <2>1, <2>2, ConcatProperties
  <2>4. k + (l - k) = l
    BY <1>1
  <2>5. ASSUME NEW i \in 1 .. l PROVE s[i] = c[i]
    <3> HIDE DEF c, l
    <3>1. CASE i <= k
      <4>1. i \in 1 .. k
        BY <3>1, <1>1
      <4> QED BY <4>1, <3>1, <2>1, <2>3, <2>4
    <3>2. CASE ~(i <= k)
      <4>1. i - k \in 1 .. l - k /\ k + (i - k) = i
        BY <3>2, <1>1 DEF l
      <4> QED BY <4>1, <3>2, <2>2, <2>3, <2>4
    <3> QED BY <3>1, <3>2
  <2> HIDE DEF c
  <2>6. Len(s) = Len(c)
    BY <2>3, <2>4
  <2>7. s = c
    BY <2>3, <2>5, <2>6, SeqEqual
  <2> QED BY <2>7 DEF c
<1>7. ASSUME k < l
      PROVE  /\ s[k + 1] \in S
             /\ After(s, k) # <<>>
             /\ Head(After(s, k)) = s[k + 1] /\ Tail(After(s, k)) = After(s, k + 1)
             /\ First(s, k + 1) = Append(First(s, k), s[k + 1])
  <2>1. k + 1 \in 1 .. l /\ l \in k + 1 .. l
    BY <1>1, <1>7
  <2>2. s[k + 1] \in S
    BY <2>1, ElementOfSeq
  <2>3. Head(After(s, k)) = s[k + 1] /\ Tail(After(s, k)) = After(s, k + 1)
    BY <2>1, HeadTailOfSubSeq DEF After
  <2>4. After(s, k) # <<>>
    BY <1>1, <1>4, <1>7
  <2>5. First(s, k + 1) = Append(First(s, k), s[k + 1])
    <3> DEFINE c == Append(First(s, k), s[k + 1])
    <3>1. /\ First(s, k) \in Seq(S) /\ Len(First(s, k)) = k
          /\ \A i \in 1 .. k : First(s, k)[i] = s[i]
      BY FirstFacts
    <3>2. k + 1 \in 0 .. Len(s)
      BY <1>1, <2>1
    <3>3. /\ First(s, k + 1) \in Seq(S) /\ Len(First(s, k + 1)) = k + 1
          /\ \A i \in 1 .. k + 1 : First(s, k + 1)[i] = s[i]
      BY <3>2, FirstFacts
    <3>4. /\ c \in Seq(S) /\ Len(c) = k + 1
          /\ \A i \in 1 .. k : c[i] = First(s, k)[i]
          /\ c[k + 1] = s[k + 1]
      BY <3>1, <2>2, AppendProperties
    <3>5. ASSUME NEW i \in 1 .. k + 1 PROVE First(s, k + 1)[i] = c[i]
      <4> HIDE DEF c
      <4>1. i \in 1 .. k \/ i = k + 1
        OBVIOUS
      <4> QED BY <4>1, <3>1, <3>3, <3>4
    <3> HIDE DEF c
    <3>6. First(s, k + 1) = c
      BY <3>3, <3>4, <3>5, SeqEqual
    <3> QED BY <3>6 DEF c
  <2> QED BY <2>2, <2>3, <2>4, <2>5
<1> QED BY <1>2, <1>3, <1>4, <1>5, <1>6, <1>7

LEMMA FirstOfFirst ==
    ASSUME NEW S, NEW s \in Seq(S), NEW k \in 0 .. Len(s), NEW j \in 0 .. k
    PROVE  First(First(s, k), j) = First(s, j)
<1>1. Len(s) \in Nat
  BY LenProperties
<1>2. /\ First(s, k) \in Seq(S) /\ Len(First(s, k)) = k
      /\ \A i \in 1 .. k : First(s, k)[i] = s[i]
  BY FirstFacts
<1>3. j \in 0 .. Len(s) /\ j \in 0 .. Len(First(s, k))
  BY <1>1, <1>2
<1>4. /\ First(s, j) \in Seq(S) /\ Len(First(s, j)) = j
      /\ \A i \in 1 .. j : First(s, j)[i] = s[i]
  BY <1>3, FirstFacts
<1>5. /\ First(First(s, k), j) \in Seq(S) /\ Len(First(First(s, k), j)) = j
      /\ \A i \in 1 .. j : First(First(s, k), j)[i] = First(s, k)[i]
  BY <1>2, <1>3, FirstFacts
<1>6. \A i \in 1 .. j : i \in 1 .. k
  OBVIOUS
<1>7. \A i \in 1 .. Len(First(First(s, k), j)) : First(First(s, k), j)[i] = First(s, j)[i]
  BY <1>2, <1>4, <1>5, <1>6
<1> QED BY <1>4, <1>5, <1>7, SeqEqual

-----------------------------------------------------------------------------
(* Paths that are places. *)

\* A place reached without a link is where its path leads, if it leads anywhere.
LEMMA LinklessLeadsThere ==
    ASSUME NEW t, IsTree(t), NEW place \in Seq(Name), NoLinks(t, place)
    PROVE  Follow(t, place) \in {None, place}
<1> DEFINE L == Len(place)
           On(w) == \E k \in 0 .. L : w.at = First(place, k) /\ w.parts = After(place, k)
           S == {w \in Underway : w.at # None => On(w)}
<1>1. t \in [DOMAIN t -> Entry] /\ place \in Seq(Part)
  BY DEF IsTree, Part
<1>2. Walk(place) \in S
  <2>1. L \in Nat /\ 0 \in 0 .. L
    BY LenProperties
  <2>2. First(place, 0) = <<>> /\ After(place, 0) = place
    BY <2>1, FirstAfter
  <2> QED BY <1>1, <2>1, <2>2, WalkType DEF Walk
<1>3. ASSUME NEW w \in Underway, w \in S, ~w.end PROVE WalkPart(t, w) \in S
  <2>1. WalkPart(t, w) \in Underway
    BY <1>1, <1>3, WalkPartType
  <2>2. w.at # None /\ w.parts # <<>>
    BY <1>3 DEF Underway
  <2>3. PICK k \in 0 .. L : w.at = First(place, k) /\ w.parts = After(place, k)
    BY <1>3, <2>2
  <2>4. L \in Nat /\ k < L
    <3>1. After(place, k) = <<>> <=> k = L
      BY FirstAfter
    <3> QED BY <2>2, <2>3, <3>1, LenProperties
  <2>5. /\ place[k + 1] \in Name
        /\ Head(w.parts) = place[k + 1] /\ Tail(w.parts) = After(place, k + 1)
        /\ Append(w.at, place[k + 1]) = First(place, k + 1)
    BY <2>3, <2>4, FirstAfter
  <2>6. EntryAt(t, First(place, k + 1)).kind # "link"
    <3>1. k + 1 \in 1 .. Len(place)
      BY <2>4
    <3> QED BY <3>1 DEF NoLinks, First
  <2>7. CASE Stuck(t, w)
    <3>1. WalkPart(t, w) = Failed
      BY <2>7, WalkPartIs
    <3>2. WalkPart(t, w).at = None
      BY <3>1 DEF Failed
    <3> QED BY <2>1, <3>2
  <2>8. CASE ~Stuck(t, w)
    <3>1. WalkPart(t, w) = Going(Append(w.at, Head(w.parts)), Tail(w.parts), w.left - 1)
      BY <2>5, <2>6, <2>8, WalkPartIs
    <3>2. /\ WalkPart(t, w).at = First(place, k + 1)
          /\ WalkPart(t, w).parts = After(place, k + 1)
      BY <2>5, <3>1 DEF Going
    <3>3. k + 1 \in 0 .. L
      BY <2>4
    <3> QED BY <2>1, <3>2, <3>3
  <2> QED BY <2>7, <2>8
<1>4. PICK w \in Underway : w \in S /\ w.end /\ w.at = Follow(t, place)
  <2> HIDE DEF S
  <2> QED BY <1>1, <1>2, <1>3, WalkInvariant
<1>5. CASE w.at # None
  <2>1. PICK k \in 0 .. L : w.at = First(place, k) /\ w.parts = After(place, k)
    BY <1>4, <1>5
  <2>2. w.parts = <<>>
    BY <1>4 DEF Underway
  <2>3. k = L /\ First(place, L) = place
    BY <2>1, <2>2, FirstAfter
  <2> QED BY <1>4, <2>1, <2>3
<1> QED BY <1>4, <1>5

\* And it leads there if something is there.
LEMMA PlainLeadsThere ==
    ASSUME NEW t, IsTree(t), NEW place, Plain(t, place)
    PROVE  Follow(t, place) = place
<1> DEFINE L == Len(place)
           On(w) == \E k \in 0 .. L : /\ w.at = First(place, k) /\ w.parts = After(place, k)
                                      /\ w.left = MaxWalk - k
           S == {w \in Underway : On(w)}
<1>1. /\ t \in [DOMAIN t -> Entry] /\ place \in Seq(Part)
      /\ place \in Seq(Name) /\ NoLinks(t, place)
      /\ EntryAt(t, place).kind # "none"
  BY DEF IsTree, Part, Plain
<1>2. L \in Nat /\ L <= MaxWalk /\ MaxWalk \in Nat
  BY <1>1, NotTooDeep, RootAssumption, LenProperties
<1>3. Walk(place) \in S
  <2>1. 0 \in 0 .. L /\ MaxWalk = MaxWalk - 0
    BY <1>2
  <2>2. First(place, 0) = <<>> /\ After(place, 0) = place
    BY <1>1, <2>1, FirstAfter
  <2>3. /\ Walk(place).at = First(place, 0) /\ Walk(place).parts = After(place, 0)
        /\ Walk(place).left = MaxWalk - 0
    BY <2>1, <2>2 DEF Walk
  <2> QED BY <1>1, <2>1, <2>3, WalkType
<1>4. ASSUME NEW w \in Underway, w \in S, ~w.end PROVE WalkPart(t, w) \in S
  <2>1. WalkPart(t, w) \in Underway
    BY <1>1, <1>4, WalkPartType
  <2>2. w.at # None /\ w.parts # <<>>
    BY <1>4 DEF Underway
  <2>3. PICK k \in 0 .. L : /\ w.at = First(place, k) /\ w.parts = After(place, k)
                            /\ w.left = MaxWalk - k
    BY <1>4
  <2>4. k < L
    <3>1. After(place, k) = <<>> <=> k = L
      BY <1>1, FirstAfter
    <3> QED BY <1>2, <2>2, <2>3, <3>1
  <2>5. /\ place[k + 1] \in Name
        /\ Head(w.parts) = place[k + 1] /\ Tail(w.parts) = After(place, k + 1)
        /\ Append(w.at, place[k + 1]) = First(place, k + 1)
    BY <1>1, <2>3, <2>4, FirstAfter
  <2>6. EntryAt(t, First(place, k + 1)).kind # "link"
    <3>1. k + 1 \in 1 .. Len(place)
      BY <1>2, <2>4
    <3> QED BY <1>1, <3>1 DEF NoLinks, First
  <2>7. EntryAt(t, First(place, k)).kind = "dir"
    <3>1. k \in 0 .. Len(place) - 1
      BY <1>2, <2>4
    <3> QED BY <1>1, <3>1, InDirectories DEF First
  <2>8. EntryAt(t, First(place, k + 1)).kind # "none"
    <3>1. CASE k + 1 = L
      <4>1. First(place, k + 1) = place
        BY <1>1, <3>1, FirstAfter
      <4> QED BY <1>1, <4>1
    <3>2. CASE k + 1 # L
      <4>1. k + 1 \in 0 .. Len(place) - 1
        BY <1>2, <2>4, <3>2
      <4>2. EntryAt(t, First(place, k + 1)).kind = "dir"
        BY <1>1, <4>1, InDirectories DEF First
      <4> QED BY <4>2
    <3> QED BY <3>1, <3>2
  <2>9. ~Stuck(t, w)
    <3>1. w.left # 0
      BY <1>2, <2>3, <2>4
    <3> QED BY <2>3, <2>5, <2>7, <2>8, <3>1 DEF Stuck
  <2>10. WalkPart(t, w) = Going(Append(w.at, Head(w.parts)), Tail(w.parts), w.left - 1)
    BY <2>5, <2>6, <2>9, WalkPartIs
  <2>11. /\ WalkPart(t, w).at = First(place, k + 1)
         /\ WalkPart(t, w).parts = After(place, k + 1)
         /\ WalkPart(t, w).left = w.left - 1
    BY <2>5, <2>10 DEF Going
  <2>12. k + 1 \in 0 .. L /\ w.left - 1 = MaxWalk - (k + 1)
    BY <1>2, <2>3, <2>4
  <2> QED BY <2>1, <2>11, <2>12
<1>5. PICK w \in Underway : w \in S /\ w.end /\ w.at = Follow(t, place)
  <2> HIDE DEF S
  <2> QED BY <1>1, <1>3, <1>4, WalkInvariant
<1>6. PICK k \in 0 .. L : w.at = First(place, k) /\ w.parts = After(place, k)
  BY <1>5
<1>7. w.parts = <<>>
  BY <1>5 DEF Underway
<1>8. k = L /\ First(place, L) = place
  BY <1>1, <1>6, <1>7, FirstAfter
<1> QED BY <1>5, <1>6, <1>8

\* What is seen at a place reached without a link is what is there.
LEMMA LinklessIsSeen ==
    ASSUME NEW t, IsTree(t), NEW place \in Seq(Name), NoLinks(t, place)
    PROVE  /\ Follow(t, place) = IF EntryAt(t, place).kind # "none" THEN place ELSE None
           /\ FollowedEntry(t, place) = EntryAt(t, place)
<1>1. place # None /\ place \in Seq(Part)
  BY RootAssumption DEF Part
<1>2. CASE EntryAt(t, place).kind # "none"
  <2>1. Follow(t, place) = place
    BY <1>2, PlainLeadsThere DEF Plain
  <2> QED BY <1>1, <1>2, <2>1 DEF FollowedEntry
<1>3. CASE EntryAt(t, place).kind = "none"
  <2>1. Follow(t, place) = None
    <3>1. SUFFICES ASSUME Follow(t, place) # None PROVE FALSE
      OBVIOUS
    <3>2. Follow(t, place) = place
      BY <3>1, LinklessLeadsThere
    <3>3. Plain(t, place)
      BY <1>1, <3>1, <3>2, FollowIsPlain
    <3> QED BY <1>3, <3>3 DEF Plain
  <2>2. EntryAt(t, place) = Nothing
    <3>1. EntryAt(t, place) \in Entry
      BY EntryType DEF IsTree
    <3> HIDE DEF EntryAt
    <3> QED BY <1>3, <3>1 DEF Entry, Nothing, Dir, Binary
  <2> QED BY <1>3, <2>1, <2>2 DEF FollowedEntry
<1> QED BY <1>2, <1>3

-----------------------------------------------------------------------------
(* Two walks that take the same part from the same place. *)

LEMMA HeadTailConcat ==
    ASSUME NEW S, NEW s \in Seq(S), s # <<>>, NEW z \in Seq(S)
    PROVE  /\ s \o z # <<>> /\ Head(s \o z) = Head(s) /\ Tail(s \o z) = Tail(s) \o z
           /\ Tail(s) \in Seq(S) /\ Head(s) \in S
<1>1. Len(s) \in Nat /\ Len(s) >= 1 /\ Len(z) \in Nat
  BY EmptySeq, LenProperties
<1>2. /\ s \o z \in Seq(S) /\ Len(s \o z) = Len(s) + Len(z)
      /\ \A i \in 1 .. Len(s) + Len(z) : (s \o z)[i] = IF i <= Len(s) THEN s[i] ELSE z[i - Len(s)]
  BY ConcatProperties
<1>3. s \o z # <<>>
  BY <1>1, <1>2, EmptySeq
<1>4. /\ Head(s) \in S /\ Tail(s) \in Seq(S) /\ Len(Tail(s)) = Len(s) - 1
      /\ \A i \in 1 .. Len(Tail(s)) : Tail(s)[i] = s[i + 1]
  BY HeadTailProperties
<1>5. /\ Tail(s \o z) \in Seq(S) /\ Len(Tail(s \o z)) = Len(s \o z) - 1
      /\ \A i \in 1 .. Len(Tail(s \o z)) : Tail(s \o z)[i] = (s \o z)[i + 1]
  BY <1>2, <1>3, HeadTailProperties
<1>6. Head(s \o z) = Head(s)
  <2>1. Head(s \o z) = (s \o z)[1] /\ Head(s) = s[1]
    OBVIOUS
  <2> QED BY <1>1, <1>2, <2>1
<1>7. /\ Tail(s) \o z \in Seq(S) /\ Len(Tail(s) \o z) = Len(Tail(s)) + Len(z)
      /\ \A i \in 1 .. Len(Tail(s)) + Len(z) :
            (Tail(s) \o z)[i] = IF i <= Len(Tail(s)) THEN Tail(s)[i] ELSE z[i - Len(Tail(s))]
  BY <1>4, ConcatProperties
<1>8. ASSUME NEW i \in 1 .. Len(Tail(s \o z)) PROVE Tail(s \o z)[i] = (Tail(s) \o z)[i]
  <2>1. /\ i + 1 \in 1 .. Len(s) + Len(z) /\ i \in 1 .. Len(Tail(s)) + Len(z)
        /\ i + 1 - Len(s) = i - Len(Tail(s))
    BY <1>1, <1>2, <1>4, <1>5
  <2>2. Tail(s \o z)[i] = IF i + 1 <= Len(s) THEN s[i + 1] ELSE z[i + 1 - Len(s)]
    BY <1>2, <1>5, <2>1
  <2>3. CASE i + 1 <= Len(s)
    <3>1. i \in 1 .. Len(Tail(s)) /\ i <= Len(Tail(s))
      BY <1>1, <1>4, <2>3
    <3> QED BY <1>4, <1>7, <2>1, <2>2, <2>3, <3>1
  <2>4. CASE ~(i + 1 <= Len(s))
    <3>1. ~(i <= Len(Tail(s)))
      BY <1>1, <1>4, <2>4
    <3> QED BY <1>7, <2>1, <2>2, <2>4, <3>1
  <2> QED BY <2>3, <2>4
<1>9. Tail(s \o z) = Tail(s) \o z
  <2>1. Len(Tail(s \o z)) = Len(Tail(s) \o z)
    BY <1>1, <1>2, <1>4, <1>5, <1>7
  <2> QED BY <1>5, <1>7, <1>8, <2>1, SeqEqual
<1> QED BY <1>3, <1>4, <1>6, <1>9

Alike(t, w, v) ==
    \E at, x : /\ x \in Seq(Part)
               /\ WalkPart(t, w) = Going(at, x \o Tail(w.parts), w.left - 1)
               /\ WalkPart(t, v) = Going(at, x \o Tail(v.parts), v.left - 1)

LEMMA StepsAlike ==
    ASSUME NEW t, t \in [DOMAIN t -> Entry],
           NEW w \in Underway, ~w.end, ~Stuck(t, w),
           NEW v \in Underway, ~v.end, v.left # 0,
           w.at = v.at, Head(w.parts) = Head(v.parts)
    PROVE  ~Stuck(t, v) /\ Alike(t, w, v)
<1> DEFINE part == Head(w.parts)
           entry == EntryAt(t, Append(w.at, part))
<1>1. ~Stuck(t, v)
  BY DEF Stuck
<1>2. /\ w.parts \in Seq(Part) /\ w.parts # <<>> /\ v.parts \in Seq(Part) /\ v.parts # <<>>
      /\ part \in Part
  BY DEF Underway, WalkRecord
<1>3. /\ Tail(w.parts) = <<>> \o Tail(w.parts) /\ Tail(v.parts) = <<>> \o Tail(v.parts)
      /\ <<>> \in Seq(Part)
  BY <1>2, HeadTailProperties, ConcatEmptySeq
<1>4. CASE part = "."
  <2>1. /\ WalkPart(t, w) = Going(w.at, <<>> \o Tail(w.parts), w.left - 1)
        /\ WalkPart(t, v) = Going(w.at, <<>> \o Tail(v.parts), v.left - 1)
    BY <1>1, <1>3, <1>4, WalkPartIs
  <2> QED BY <1>1, <1>3, <2>1 DEF Alike
<1>5. CASE part = ".."
  <2> DEFINE at == IF w.at = <<>> THEN <<>> ELSE Front(w.at)
  <2>1. /\ WalkPart(t, w) = Going(at, <<>> \o Tail(w.parts), w.left - 1)
        /\ WalkPart(t, v) = Going(at, <<>> \o Tail(v.parts), v.left - 1)
    BY <1>1, <1>3, <1>5, WalkPartIs
  <2> QED BY <1>1, <1>3, <2>1 DEF Alike
<1>6. CASE part \in Name /\ entry.kind = "link"
  <2> DEFINE at == IF entry.abs THEN <<>> ELSE w.at
  <2>1. /\ WalkPart(t, w) = Going(at, entry.parts \o Tail(w.parts), w.left - 1)
        /\ WalkPart(t, v) = Going(at, entry.parts \o Tail(v.parts), v.left - 1)
    BY <1>1, <1>6, WalkPartIs
  <2>2. entry.parts \in Seq(Part)
    <3>1. entry \in Entry
      BY EntryType
    <3> HIDE DEF entry
    <3> QED BY <1>6, <3>1 DEF Entry, Nothing, Dir, Binary
  <2> HIDE DEF at, entry
  <2> QED BY <1>1, <2>1, <2>2 DEF Alike
<1>7. CASE part \in Name /\ entry.kind # "link"
  <2> DEFINE at == Append(w.at, part)
  <2>1. /\ WalkPart(t, w) = Going(at, <<>> \o Tail(w.parts), w.left - 1)
        /\ WalkPart(t, v) = Going(at, <<>> \o Tail(v.parts), v.left - 1)
    BY <1>1, <1>3, <1>7, WalkPartIs
  <2> QED BY <1>1, <1>3, <2>1 DEF Alike
<1> QED BY <1>2, <1>4, <1>5, <1>6, <1>7 DEF Part

\* Where a path can be followed to its end there is a last entry.
LEMMA ExistsHasEntry ==
    ASSUME NEW t, t \in [DOMAIN t -> Entry], NEW place \in Seq(Name),
           Follow(t, place) # None
    PROVE  Lstat(t, place)
<1> SUFFICES ASSUME place # <<>>, ~Lstat(t, place) PROVE FALSE
  BY DEF Lstat
<1> DEFINE walk == WalkOf(t, Front(place))
           N == MaxWalk + 1
           Along(w) == \E m \in 0 .. N : /\ w.at = walk[m].at /\ w.left = walk[m].left
                                         /\ w.parts = Append(walk[m].parts, Last(place))
           S == {w \in Underway : w.at # None => Along(w)}
<1>1. /\ place \in Seq(Part) /\ Front(place) \in Seq(Part) /\ Last(place) \in Name
      /\ Last(place) \in Part /\ place = Append(Front(place), Last(place))
  <2>1. place \in Seq(Part)
    BY DEF Part
  <2> QED BY <2>1, FrontFacts
<1>2. N \in Nat /\ 0 \in 0 .. N
  BY RootAssumption
<1>3. /\ \A m \in 0 .. N : walk[m] \in Underway
      /\ walk[0] = Walk(Front(place))
      /\ \A m \in 1 .. N : walk[m] = IF walk[m - 1].end THEN walk[m - 1]
                                     ELSE WalkPart(t, walk[m - 1])
      /\ walk[N].end
  <2>1. /\ walk \in [0 .. N -> Underway]
        /\ walk[0] = Walk(Front(place))
        /\ \A m \in 1 .. N : LET before == walk[m - 1]
                             IN  walk[m] = IF before.end THEN before ELSE WalkPart(t, before)
    BY <1>1, WalkOfSteps
  <2>2. walk[N].end
    BY <1>1, WalkCounts
  <2> HIDE DEF walk
  <2> QED BY <2>1, <2>2
<1>4. \A m \in 0 .. N : walk[m].end => Follow(t, Front(place)) = walk[m].at
  BY <1>1, WalkStays
<1> HIDE DEF walk
<1>5. Walk(place) \in S
  <2>1. Walk(place) \in Underway
    BY <1>1, WalkType
  <2>2. /\ Walk(place).at = walk[0].at /\ Walk(place).left = walk[0].left
        /\ Walk(place).parts = Append(walk[0].parts, Last(place))
    BY <1>1, <1>3 DEF Walk
  <2> QED BY <1>2, <2>1, <2>2
<1>6. ASSUME NEW w \in Underway, w \in S, ~w.end PROVE WalkPart(t, w) \in S
  <2>1. WalkPart(t, w) \in Underway
    BY <1>6, WalkPartType
  <2> SUFFICES ASSUME WalkPart(t, w).at # None PROVE Along(WalkPart(t, w))
    BY <2>1
  <2>2. w.at # None
    BY <1>6 DEF Underway
  <2>3. PICK m \in 0 .. N : /\ w.at = walk[m].at /\ w.left = walk[m].left
                            /\ w.parts = Append(walk[m].parts, Last(place))
    BY <1>6, <2>2
  <2>4. ~Stuck(t, w)
    BY WalkPartIs DEF Failed
  <2>5. walk[m] \in Underway /\ walk[m].parts \in Seq(Part)
    BY <1>3 DEF Underway, WalkRecord
  <2>6. ~walk[m].end
    <3>1. SUFFICES ASSUME walk[m].end PROVE FALSE
      OBVIOUS
    <3>2. walk[m].parts = <<>>
      BY <2>5, <3>1 DEF Underway
    <3>3. Head(w.parts) = Last(place)
      BY <1>1, <2>3, <2>5, <3>2, HeadTailAppend
    <3>4. /\ EntryAt(t, w.at).kind = "dir"
          /\ EntryAt(t, Append(w.at, Last(place))).kind # "none"
      BY <1>1, <2>4, <3>3 DEF Stuck
    <3>5. Follow(t, Front(place)) = w.at
      BY <1>4, <2>3, <3>1
    <3> QED BY <2>2, <3>4, <3>5 DEF Lstat
  <2>7. walk[m].parts # <<>> /\ w.left # 0
    BY <2>4, <2>5, <2>6 DEF Underway, Stuck
  <2>8. /\ Head(w.parts) = Head(walk[m].parts)
        /\ Tail(w.parts) = Append(Tail(walk[m].parts), Last(place))
        /\ Tail(walk[m].parts) \in Seq(Part)
    BY <2>3, <2>5, <2>7, HeadTailAppend, HeadTailProperties
  <2>9. PICK at, x : /\ x \in Seq(Part)
                     /\ WalkPart(t, w) = Going(at, x \o Tail(w.parts), w.left - 1)
                     /\ WalkPart(t, walk[m]) = Going(at, x \o Tail(walk[m].parts),
                                                     walk[m].left - 1)
    <3>1. Alike(t, w, walk[m])
      BY <1>6, <2>3, <2>4, <2>5, <2>6, <2>7, <2>8, StepsAlike
    <3> QED BY <3>1 DEF Alike
  <2>10. m + 1 \in 0 .. N /\ walk[m + 1] = WalkPart(t, walk[m])
    <3>1. m # N
      BY <1>3, <2>6
    <3>2. m + 1 \in 1 .. N /\ (m + 1) - 1 = m
      BY <1>2, <3>1
    <3> QED BY <1>3, <2>6, <3>2
  <2>11. x \o Append(Tail(walk[m].parts), Last(place)) =
            Append(x \o Tail(walk[m].parts), Last(place))
    <3> DEFINE y == Tail(walk[m].parts)
    <3>1. /\ x \in Seq(Part) /\ y \in Seq(Part) /\ <<Last(place)>> \in Seq(Part)
          /\ x \o y \in Seq(Part)
      BY <1>1, <2>8, <2>9
    <3> HIDE DEF y
    <3>2. /\ Append(y, Last(place)) = y \o <<Last(place)>>
          /\ Append(x \o y, Last(place)) = (x \o y) \o <<Last(place)>>
      BY <1>1, <3>1, AppendIsConcat
    <3>3. (x \o y) \o <<Last(place)>> = x \o (y \o <<Last(place)>>)
      BY <3>1, ConcatAssociative
    <3> QED BY <3>2, <3>3 DEF y
  <2>12. /\ WalkPart(t, w).at = walk[m + 1].at /\ WalkPart(t, w).left = walk[m + 1].left
         /\ WalkPart(t, w).parts = Append(walk[m + 1].parts, Last(place))
    <3> DEFINE p == x \o Tail(w.parts)
               q == x \o Tail(walk[m].parts)
    <3>1. /\ WalkPart(t, w) = Going(at, p, w.left - 1)
          /\ walk[m + 1] = Going(at, q, walk[m].left - 1)
      BY <2>9, <2>10
    <3>2. p = Append(q, Last(place))
      BY <2>8, <2>11
    <3> HIDE DEF p, q
    <3>3. WalkPart(t, w).at = at /\ WalkPart(t, w).left = w.left - 1 /\ WalkPart(t, w).parts = p
      BY <3>1, GoingIs
    <3>4. walk[m + 1].at = at /\ walk[m + 1].left = walk[m].left - 1 /\ walk[m + 1].parts = q
      BY <3>1, GoingIs
    <3> QED BY <2>3, <3>2, <3>3, <3>4
  <2> QED BY <2>10, <2>12
<1>7. PICK w \in Underway : w \in S /\ w.end /\ w.at = Follow(t, place)
  <2> HIDE DEF S
  <2> QED BY <1>1, <1>5, <1>6, WalkInvariant
<1>8. PICK m \in 0 .. N : w.parts = Append(walk[m].parts, Last(place))
  BY <1>7
<1>9. walk[m].parts \in Seq(Part) /\ w.parts = <<>>
  BY <1>3, <1>7 DEF Underway, WalkRecord
<1>10. Append(walk[m].parts, Last(place)) # <<>>
  BY <1>1, <1>9, AppendProperties
<1> QED BY <1>8, <1>9, <1>10

-----------------------------------------------------------------------------
(* Root::lexical, part by part. *)

\* lex[n] is what Root::lexical has made of the first n parts.
LexesTo(parts, lex) ==
    /\ lex \in [0 .. Len(parts) -> Seq(Name) \cup {None}]
    /\ lex[0] = <<>>
    /\ \A n \in 1 .. Len(parts) :
          lex[n] = IF lex[n - 1] = None THEN None ELSE LexicalPart(lex[n - 1], parts[n])
    /\ Lexical(parts) = lex[Len(parts)]

LEMMA LexicalSteps ==
    ASSUME NEW parts \in Seq(Part)
    PROVE  \E lex : LexesTo(parts, lex)
<1> DEFINE N == Len(parts)
           Places == Seq(Name) \cup {None}
           Next(n, p) == IF p = None THEN None ELSE LexicalPart(p, parts[n])
           F == [np \in (1 .. N) \X Places |-> Next(np[1], np[2])]
           Def(f) == f = [n \in 0 .. N |->
                            IF n = 0 THEN <<>>
                            ELSE LET before == f[n - 1]
                                 IN  IF before = None THEN None
                                     ELSE LexicalPart(before, parts[n])]
<1>1. N \in Nat /\ <<>> \in Places
  BY LenProperties
<1>2. \A n \in 1 .. N, p \in Places : Next(n, p) \in Places
  <2> SUFFICES ASSUME NEW n \in 1 .. N, NEW p \in Seq(Name)
               PROVE  LexicalPart(p, parts[n]) \in Places
    OBVIOUS
  <2>1. parts[n] \in Part
    BY ElementOfSeq
  <2> QED BY <2>1, LexicalPartType
<1>3. F \in [(1 .. N) \X Places -> Places]
  <2> HIDE DEF Next, Places
  <2> QED BY <1>2
<1> HIDE DEF F
<1>4. PICK f : /\ f \in [0 .. N -> Places] /\ f[0] = <<>>
               /\ \A n \in 1 .. N : f[n] = F[<<n, f[n - 1]>>]
  <2> HIDE DEF N, Places
  <2>1. \E f : Iterates(f, Places, <<>>, N, F)
    BY <1>1, <1>3, Iteration
  <2> QED BY <2>1 DEF Iterates
<1>5. \A n \in 1 .. N : f[n] = Next(n, f[n - 1])
  <2> SUFFICES ASSUME NEW n \in 1 .. N PROVE F[<<n, f[n - 1]>>] = Next(n, f[n - 1])
    BY <1>4
  <2>1. n - 1 \in 0 .. N
    BY <1>1
  <2>2. f[n - 1] \in Places
    BY <1>4, <2>1
  <2> HIDE DEF Next, Places, N
  <2> QED BY <2>2 DEF F
<1>6. Def(f)
  <2> HIDE DEF N
  <2>1. f = [n \in 0 .. N |-> f[n]]
    BY <1>4
  <2>2. \A n \in 0 .. N : n = 0 \/ n \in 1 .. N
    BY <1>1
  <2>3. \A n \in 0 .. N : f[n] = IF n = 0 THEN <<>> ELSE Next(n, f[n - 1])
    BY <1>4, <1>5, <2>2
  <2> QED BY <2>1, <2>3
<1>7. Lexical(parts) = (CHOOSE g : Def(g))[N]
  BY DEF Lexical
<1> DEFINE lex == CHOOSE g : Def(g)
<1> HIDE DEF Def
<1>8. Def(lex)
  BY <1>6
<1> HIDE DEF lex
<1>9. lex[0] = <<>> /\ \A n \in 1 .. N : lex[n] = Next(n, lex[n - 1])
  <2>1. lex[0] = <<>>
    BY <1>1, <1>8 DEF Def
  <2>2. ASSUME NEW n \in 1 .. N PROVE lex[n] = Next(n, lex[n - 1])
    <3>1. n \in 0 .. N /\ n # 0
      BY <1>1
    <3> QED BY <1>8, <3>1 DEF Def
  <2> QED BY <2>1, <2>2
<1>10. \A n \in 0 .. N : lex[n] \in Places
  <2> DEFINE Good == {n \in 0 .. N : lex[n] \in Places}
  <2>1. 0 \in Good
    <3>1. 0 \in 0 .. N
      BY <1>1
    <3> HIDE DEF Places, N
    <3> QED BY <1>1, <1>9, <3>1
  <2>2. ASSUME NEW n \in 0 .. N - 1, n \in Good PROVE n + 1 \in Good
    <3>1. n + 1 \in 1 .. N /\ n + 1 \in 0 .. N /\ (n + 1) - 1 = n
      BY <1>1
    <3>2. lex[n + 1] = Next(n + 1, lex[n])
      BY <1>9, <3>1
    <3> HIDE DEF Next, Places, N
    <3> QED BY <1>2, <2>2, <3>1, <3>2
  <2> HIDE DEF Good, N
  <2>3. \A n \in 0 .. N : n \in Good
    BY <1>1, <2>1, <2>2, IntervalInduction
  <2> QED BY <2>3 DEF Good
<1>11. lex \in [0 .. N -> Places]
  <2>1. lex = [n \in 0 .. N |-> lex[n]]
    BY <1>8 DEF Def
  <2> HIDE DEF N, Places
  <2> QED BY <1>10, <2>1
<1>12. Lexical(parts) = lex[N]
  BY <1>7 DEF lex
<1>13. LexesTo(parts, lex)
  BY <1>9, <1>11, <1>12 DEF LexesTo
<1> QED BY <1>13

LEMMA LexicalType ==
    ASSUME NEW parts \in Seq(Part)
    PROVE  Lexical(parts) \in Seq(Name) \cup {None}
<1>1. PICK lex : LexesTo(parts, lex)
  BY LexicalSteps
<1>2. Len(parts) \in 0 .. Len(parts)
  BY LenProperties
<1> QED BY <1>1, <1>2 DEF LexesTo

\* Where Root::lexical is lost it stays lost.
LEMMA LexicalLost ==
    ASSUME NEW parts \in Seq(Part), NEW lex, LexesTo(parts, lex),
           Lexical(parts) # None, NEW k \in 0 .. Len(parts)
    PROVE  lex[k] \in Seq(Name) /\ lex[k] # None
<1> DEFINE N == Len(parts)
           Good == {n \in Nat : n >= k => lex[n] = None}
<1>1. N \in Nat
  BY LenProperties
<1>2. lex[k] \in Seq(Name) \cup {None}
  BY DEF LexesTo
<1>3. lex[k] # None
  <2> SUFFICES ASSUME lex[k] = None PROVE FALSE
    OBVIOUS
  <2>1. 0 \in Good
    <3>1. 0 >= k => k = 0
      OBVIOUS
    <3> QED BY <3>1
  <2>2. ASSUME NEW n \in 0 .. N - 1, n \in Good PROVE n + 1 \in Good
    <3>1. n + 1 \in 1 .. N /\ (n + 1) - 1 = n
      BY <1>1
    <3>2. lex[n + 1] = IF lex[n] = None THEN None ELSE LexicalPart(lex[n], parts[n + 1])
      BY <3>1 DEF LexesTo
    <3>3. n + 1 >= k => n >= k \/ n + 1 = k
      BY <1>1
    <3> QED BY <2>2, <3>1, <3>2, <3>3
  <2>3. \A n \in 0 .. N : n \in Good
    <3> HIDE DEF Good, N
    <3> QED BY <1>1, <2>1, <2>2, IntervalInduction
  <2>4. lex[N] = None
    BY <1>1, <2>3
  <2> QED BY <2>4 DEF LexesTo
<1> QED BY <1>2, <1>3

LEMMA FirstOfAppend ==
    ASSUME NEW S, NEW s \in Seq(S), NEW e \in S, NEW j \in 0 .. Len(s)
    PROVE  First(Append(s, e), j) = First(s, j)
<1>1. Len(s) \in Nat
  BY LenProperties
<1>2. /\ Append(s, e) \in Seq(S) /\ Len(Append(s, e)) = Len(s) + 1
      /\ \A i \in 1 .. Len(s) : Append(s, e)[i] = s[i]
  BY AppendProperties
<1>3. j \in 0 .. Len(Append(s, e)) /\ \A i \in 1 .. j : i \in 1 .. Len(s)
  BY <1>1, <1>2
<1>4. /\ First(s, j) \in Seq(S) /\ Len(First(s, j)) = j
      /\ \A i \in 1 .. j : First(s, j)[i] = s[i]
  BY FirstFacts
<1>5. /\ First(Append(s, e), j) \in Seq(S) /\ Len(First(Append(s, e), j)) = j
      /\ \A i \in 1 .. j : First(Append(s, e), j)[i] = Append(s, e)[i]
  BY <1>2, <1>3, FirstFacts
<1>6. \A i \in 1 .. Len(First(s, j)) : First(s, j)[i] = First(Append(s, e), j)[i]
  BY <1>2, <1>3, <1>4, <1>5
<1>7. First(s, j) = First(Append(s, e), j)
  BY <1>4, <1>5, <1>6, SeqEqual
<1> QED BY <1>7

\* Without .. nothing is taken back.
LEMMA LexicalGrows ==
    ASSUME NEW parts \in Seq(Part), \A i \in 1 .. Len(parts) : parts[i] # "..",
           NEW lex, LexesTo(parts, lex)
    PROVE  /\ Lexical(parts) \in Seq(Name) /\ Lexical(parts) # None
           /\ \A k \in 0 .. Len(parts) :
                 /\ lex[k] \in Seq(Name) /\ lex[k] # None
                 /\ Len(lex[k]) \in 0 .. Len(Lexical(parts))
                 /\ First(Lexical(parts), Len(lex[k])) = lex[k]
           /\ \A k \in 1 .. Len(parts) :
                 IF parts[k] = "." THEN lex[k] = lex[k - 1]
                 ELSE parts[k] \in Name /\ lex[k] = Append(lex[k - 1], parts[k])
<1> DEFINE N == Len(parts)
           Good == {n \in Nat : lex[n] \in Seq(Name)}
           Step(n) == IF parts[n] = "." THEN lex[n] = lex[n - 1]
                      ELSE parts[n] \in Name /\ lex[n] = Append(lex[n - 1], parts[n])
<1>1. N \in Nat
  BY LenProperties
<1>2. lex[0] = <<>> /\ Lexical(parts) = lex[N] /\ None \notin Seq(Name)
  BY RootAssumption DEF LexesTo
<1>3. ASSUME NEW n \in 1 .. N, lex[n - 1] \in Seq(Name) PROVE Step(n)
  <2>1. lex[n] = LexicalPart(lex[n - 1], parts[n])
    BY <1>2, <1>3 DEF LexesTo
  <2>2. parts[n] # ".." /\ (parts[n] = "." \/ parts[n] \in Name)
    <3>1. parts[n] \in Part
      BY ElementOfSeq
    <3> QED BY <3>1 DEF Part
  <2> QED BY <2>1, <2>2 DEF LexicalPart
<1>4. \A n \in 0 .. N : n \in Good
  <2>1. 0 \in Good
    <3>1. <<>> \in Seq(Name)
      OBVIOUS
    <3> QED BY <1>2, <3>1
  <2>2. ASSUME NEW n \in 0 .. N - 1, n \in Good PROVE n + 1 \in Good
    <3>1. n + 1 \in 1 .. N /\ (n + 1) - 1 = n /\ n + 1 \in Nat
      BY <1>1
    <3>2. lex[n] \in Seq(Name)
      BY <2>2
    <3>3. IF parts[n + 1] = "." THEN lex[n + 1] = lex[n]
          ELSE parts[n + 1] \in Name /\ lex[n + 1] = Append(lex[n], parts[n + 1])
      BY <1>3, <3>1, <3>2
    <3>4. lex[n + 1] \in Seq(Name)
      <4>1. CASE parts[n + 1] = "."
        BY <3>2, <3>3, <4>1
      <4>2. CASE parts[n + 1] # "."
        <5>1. parts[n + 1] \in Name /\ lex[n + 1] = Append(lex[n], parts[n + 1])
          BY <3>3, <4>2
        <5>2. Append(lex[n], parts[n + 1]) \in Seq(Name)
          BY <3>2, <5>1, AppendProperties
        <5> QED BY <5>1, <5>2
      <4> QED BY <4>1, <4>2
    <3> QED BY <3>1, <3>4
  <2> HIDE DEF Good, N
  <2> QED BY <1>1, <2>1, <2>2, IntervalInduction
<1>5. \A n \in 0 .. N : lex[n] \in Seq(Name) /\ lex[n] # None
  BY <1>2, <1>4
<1>6. \A n \in 1 .. N : Step(n)
  <2> HIDE DEF N, Step
  <2>1. \A n \in 1 .. N : n - 1 \in 0 .. N
    BY <1>1
  <2> QED BY <1>3, <1>5, <2>1
<1>7. ASSUME NEW k \in 0 .. N
      PROVE  Len(lex[k]) \in 0 .. Len(lex[N]) /\ First(lex[N], Len(lex[k])) = lex[k]
  <2> DEFINE l == Len(lex[k])
             Has == {n \in Nat : n >= k => l \in 0 .. Len(lex[n]) /\ First(lex[n], l) = lex[k]}
  <2>1. l \in Nat /\ l \in 0 .. l /\ First(lex[k], l) = lex[k]
    <3>1. lex[k] \in Seq(Name) /\ l \in Nat
      BY <1>5, LenProperties
    <3>2. l \in 0 .. l
      BY <3>1
    <3> QED BY <3>1, <3>2, FirstAfter
  <2>2. k \in Has
    BY <2>1
  <2>3. 0 \in Has
    BY <2>2
  <2>4. ASSUME NEW n \in 0 .. N - 1, n \in Has PROVE n + 1 \in Has
    <3> HIDE DEF l
    <3>1. n + 1 \in 1 .. N /\ (n + 1) - 1 = n /\ n + 1 \in Nat /\ n \in 0 .. N
      BY <1>1
    <3>2. CASE n >= k
      <4>1. l \in 0 .. Len(lex[n]) /\ First(lex[n], l) = lex[k]
        BY <2>4, <3>2
      <4>2. Step(n + 1) /\ lex[n] \in Seq(Name)
        BY <1>5, <1>6, <3>1
      <4>3. CASE parts[n + 1] = "."
        <5>1. lex[n + 1] = lex[n]
          BY <3>1, <4>2, <4>3
        <5> QED BY <3>1, <4>1, <5>1
      <4>4. CASE parts[n + 1] # "."
        <5>1. parts[n + 1] \in Name /\ lex[n + 1] = Append(lex[n], parts[n + 1])
          BY <3>1, <4>2, <4>4
        <5>2. First(lex[n + 1], l) = First(lex[n], l)
          BY <4>1, <4>2, <5>1, FirstOfAppend
        <5>3. Len(lex[n + 1]) = Len(lex[n]) + 1 /\ Len(lex[n]) \in Nat
          BY <4>2, <5>1, AppendProperties, LenProperties
        <5>4. l \in 0 .. Len(lex[n + 1])
          BY <4>1, <5>3
        <5> QED BY <3>1, <4>1, <5>2, <5>4
      <4> QED BY <4>3, <4>4
    <3>3. CASE n + 1 = k
      BY <2>2, <3>3
    <3>4. CASE ~(n + 1 >= k)
      BY <3>1, <3>4
    <3>5. n >= k \/ n + 1 = k \/ ~(n + 1 >= k)
      BY <1>1
    <3> QED BY <3>2, <3>3, <3>4, <3>5
  <2>5. \A n \in 0 .. N : n \in Has
    <3> HIDE DEF Has, N
    <3> QED BY <1>1, <2>3, <2>4, IntervalInduction
  <2>6. N \in Has /\ N >= k
    BY <1>1, <2>5
  <2> QED BY <2>6
<1>8. N \in 0 .. N
  BY <1>1
<1> QED BY <1>2, <1>5, <1>6, <1>7, <1>8

Regroups(a, b, c) == (a \o b) \o c = a \o (b \o c)

LEMMA PartsRegroup ==
    \A a, b, c \in Seq(Part) : Regroups(a, b, c)
BY ConcatAssociative DEF Regroups

\* A path without .. leads where Root::lexical's reading of it leads.
LEMMA DotsDoNotMatter ==
    ASSUME NEW t, t \in [DOMAIN t -> Entry], NEW parts \in Seq(Part),
           \A i \in 1 .. Len(parts) : parts[i] # "..", Follow(t, parts) # None
    PROVE  Follow(t, Lexical(parts)) = Follow(t, parts)
<1> PICK lex : LexesTo(parts, lex)
  BY LexicalSteps
<1> DEFINE L == Len(parts)
           P == Lexical(parts)
           Rest(k) == After(P, Len(lex[k]))
           walk == WalkOf(t, P)
           N == MaxWalk + 1
           Beside(w, m, x, k) ==
              /\ w.at = walk[m].at /\ w.left <= walk[m].left
              /\ w.parts = x \o After(parts, k) /\ walk[m].parts = x \o Rest(k)
           Along(w) == \E m \in 0 .. N, x \in Seq(Part), k \in 0 .. L : Beside(w, m, x, k)
           S == {w \in Underway : w.at # None => Along(w)}
<1>1. /\ P \in Seq(Name) /\ P \in Seq(Part) /\ P # None
      /\ \A k \in 0 .. L : /\ lex[k] \in Seq(Name) /\ Len(lex[k]) \in 0 .. Len(P)
                           /\ First(P, Len(lex[k])) = lex[k]
      /\ \A k \in 1 .. L : IF parts[k] = "." THEN lex[k] = lex[k - 1]
                           ELSE parts[k] \in Name /\ lex[k] = Append(lex[k - 1], parts[k])
  BY LexicalGrows DEF Part
<1>2. lex[0] = <<>> /\ P = lex[L] /\ L \in Nat
  BY LenProperties DEF LexesTo
<1> HIDE DEF P
<1>3. N \in Nat /\ 0 \in 0 .. N /\ 0 \in 0 .. L
  BY <1>2, RootAssumption
<1>4. /\ \A m \in 0 .. N : walk[m] \in Underway
      /\ walk[0] = Walk(P)
      /\ \A m \in 1 .. N : walk[m] = IF walk[m - 1].end THEN walk[m - 1]
                                     ELSE WalkPart(t, walk[m - 1])
      /\ walk[N].end
  <2>1. /\ walk \in [0 .. N -> Underway]
        /\ walk[0] = Walk(P)
        /\ \A m \in 1 .. N : LET before == walk[m - 1]
                             IN  walk[m] = IF before.end THEN before ELSE WalkPart(t, before)
    BY <1>1, WalkOfSteps
  <2>2. walk[N].end
    BY <1>1, WalkCounts
  <2> HIDE DEF walk
  <2> QED BY <2>1, <2>2
<1>5. \A m \in 0 .. N : walk[m].end => Follow(t, P) = walk[m].at
  BY <1>1, WalkStays
<1> HIDE DEF walk
<1>6. \A k \in 0 .. L : After(parts, k) \in Seq(Part) /\ Rest(k) \in Seq(Part)
  BY <1>1, AfterFacts
<1>7. ASSUME NEW k \in 0 .. L - 1
      PROVE  /\ k \in 0 .. L /\ k + 1 \in 0 .. L
             /\ After(parts, k) # <<>> /\ Head(After(parts, k)) = parts[k + 1]
             /\ Tail(After(parts, k)) = After(parts, k + 1)
             /\ parts[k + 1] = "." => Rest(k + 1) = Rest(k)
             /\ parts[k + 1] # "." =>
                  /\ Rest(k) # <<>> /\ Head(Rest(k)) = parts[k + 1]
                  /\ Tail(Rest(k)) = Rest(k + 1)
  <2>1. k \in 0 .. L /\ k + 1 \in 0 .. L /\ k + 1 \in 1 .. L /\ (k + 1) - 1 = k /\ k < L
    BY <1>2
  <2>2. /\ After(parts, k) # <<>> /\ Head(After(parts, k)) = parts[k + 1]
        /\ Tail(After(parts, k)) = After(parts, k + 1)
    BY <2>1, FirstAfter
  <2>3. IF parts[k + 1] = "." THEN lex[k + 1] = lex[k]
        ELSE parts[k + 1] \in Name /\ lex[k + 1] = Append(lex[k], parts[k + 1])
    BY <1>1, <2>1
  <2>4. ASSUME parts[k + 1] # "."
        PROVE  /\ Rest(k) # <<>> /\ Head(Rest(k)) = parts[k + 1]
               /\ Tail(Rest(k)) = Rest(k + 1)
    <3> DEFINE l == Len(lex[k])
    <3>1. /\ lex[k + 1] = Append(lex[k], parts[k + 1]) /\ parts[k + 1] \in Name
          /\ lex[k] \in Seq(Name) /\ l \in Nat
      BY <1>1, <2>1, <2>3, <2>4, LenProperties
    <3>2. Len(lex[k + 1]) = l + 1 /\ lex[k + 1][l + 1] = parts[k + 1]
      BY <3>1, AppendProperties
    <3>3. l + 1 \in 0 .. Len(P) /\ First(P, l + 1) = lex[k + 1] /\ Len(P) \in Nat
      BY <1>1, <2>1, <3>2, LenProperties
    <3>4. l \in 0 .. Len(P) /\ l < Len(P) /\ l + 1 \in 1 .. l + 1
      BY <3>1, <3>3
    <3> HIDE DEF l
    <3>5. P[l + 1] = parts[k + 1]
      BY <1>1, <3>2, <3>3, <3>4, FirstFacts
    <3>6. /\ After(P, l) # <<>> /\ Head(After(P, l)) = P[l + 1]
          /\ Tail(After(P, l)) = After(P, l + 1)
      BY <1>1, <3>4, FirstAfter
    <3>7. Rest(k) = After(P, l) /\ Rest(k + 1) = After(P, l + 1)
      BY <3>2 DEF l
    <3> QED BY <3>5, <3>6, <3>7
  <2> QED BY <2>1, <2>2, <2>3, <2>4
<1>8. Rest(L) = <<>>
  BY <1>1, <1>2, FirstAfter
<1>9. Rest(0) = P
  <2>1. Len(lex[0]) = 0
    BY <1>2
  <2>2. 0 \in 0 .. Len(P)
    BY <1>1, LenProperties
  <2> QED BY <1>1, <2>1, <2>2, FirstAfter
<1> HIDE DEF Rest
<1>10. Walk(parts) \in S
  <2>1. Walk(parts) \in Underway
    BY WalkType
  <2>2. <<>> \in Seq(Part) /\ After(parts, 0) = <<>> \o After(parts, 0)
        /\ Rest(0) = <<>> \o Rest(0) /\ After(parts, 0) = parts
    BY <1>3, <1>6, FirstAfter, ConcatEmptySeq
  <2>3. MaxWalk <= MaxWalk
    BY RootAssumption
  <2>4. Beside(Walk(parts), 0, <<>>, 0)
    BY <1>4, <1>9, <2>2, <2>3 DEF Walk
  <2> HIDE DEF Beside
  <2> QED BY <1>3, <2>1, <2>2, <2>4
<1>11. ASSUME NEW w \in Underway, w \in S, ~w.end PROVE WalkPart(t, w) \in S
  <2>1. WalkPart(t, w) \in Underway
    BY <1>11, WalkPartType
  <2> SUFFICES ASSUME WalkPart(t, w).at # None PROVE Along(WalkPart(t, w))
    BY <2>1
  <2>2. w.at # None /\ w.parts # <<>>
    BY <1>11 DEF Underway
  <2>3. PICK m \in 0 .. N, x \in Seq(Part), k \in 0 .. L : Beside(w, m, x, k)
    BY <1>11, <2>2
  <2>4. ~Stuck(t, w)
    BY WalkPartIs DEF Failed
  <2>5. /\ walk[m] \in Underway /\ w.left \in Nat /\ walk[m].left \in Nat
        /\ walk[m].left # 0
    <3>1. walk[m] \in Underway /\ w.left \in 0 .. MaxWalk /\ walk[m].left \in 0 .. MaxWalk
      BY <1>4 DEF Underway, WalkRecord
    <3>2. w.left # 0 /\ w.left <= walk[m].left
      BY <2>3, <2>4 DEF Stuck
    <3> QED BY <3>1, <3>2, RootAssumption
  <2>6. ASSUME NEW y \in Seq(Part), NEW j \in 0 .. L,
               walk[m].parts # <<>>, Head(w.parts) = Head(walk[m].parts),
               Tail(w.parts) = y \o After(parts, j), Tail(walk[m].parts) = y \o Rest(j)
        PROVE  Along(WalkPart(t, w))
    <3>1. ~walk[m].end
      BY <2>5, <2>6 DEF Underway
    <3>2. Alike(t, w, walk[m])
      BY <1>11, <2>3, <2>4, <2>5, <2>6, <3>1, StepsAlike
    <3>3. PICK at, z : /\ z \in Seq(Part)
                       /\ WalkPart(t, w) = Going(at, z \o Tail(w.parts), w.left - 1)
                       /\ WalkPart(t, walk[m]) = Going(at, z \o Tail(walk[m].parts),
                                                       walk[m].left - 1)
      BY <3>2 DEF Alike
    <3>4. m + 1 \in 0 .. N /\ walk[m + 1] = WalkPart(t, walk[m])
      <4>1. m # N
        BY <1>4, <3>1
      <4>2. m + 1 \in 1 .. N /\ (m + 1) - 1 = m
        BY <1>3, <4>1
      <4> QED BY <1>4, <3>1, <4>2
    <3> DEFINE p == z \o Tail(w.parts)
               q == z \o Tail(walk[m].parts)
    <3>5. /\ z \o y \in Seq(Part)
          /\ p = (z \o y) \o After(parts, j) /\ q = (z \o y) \o Rest(j)
      <4>1. After(parts, j) \in Seq(Part) /\ Rest(j) \in Seq(Part)
        BY <1>6
      <4>2. z \o y \in Seq(Part)
        BY <3>3, ConcatProperties
      <4>0. z \in Seq(Part) /\ y \in Seq(Part)
        BY <3>3
      <4>3. (z \o y) \o After(parts, j) = z \o (y \o After(parts, j))
        <5>1. Regroups(z, y, After(parts, j))
          BY <4>0, <4>1, PartsRegroup
        <5> QED BY <5>1 DEF Regroups
      <4>4. (z \o y) \o Rest(j) = z \o (y \o Rest(j))
        <5>1. Regroups(z, y, Rest(j))
          BY <4>0, <4>1, PartsRegroup
        <5> QED BY <5>1 DEF Regroups
      <4> QED BY <2>6, <4>2, <4>3, <4>4
    <3>6. /\ WalkPart(t, w) = Going(at, p, w.left - 1)
          /\ walk[m + 1] = Going(at, q, walk[m].left - 1)
      BY <3>3, <3>4
    <3> HIDE DEF p, q
    <3>7. WalkPart(t, w).at = at /\ WalkPart(t, w).left = w.left - 1 /\ WalkPart(t, w).parts = p
      BY <3>6, GoingIs
    <3>8. walk[m + 1].at = at /\ walk[m + 1].left = walk[m].left - 1 /\ walk[m + 1].parts = q
      BY <3>6, GoingIs
    <3>9. w.left - 1 <= walk[m].left - 1
      BY <2>3, <2>5
    <3>10. Beside(WalkPart(t, w), m + 1, z \o y, j)
      BY <3>5, <3>7, <3>8, <3>9
    <3> HIDE DEF Beside
    <3> QED BY <3>4, <3>5, <3>10
  <2>7. CASE x # <<>>
    <3>1. /\ Head(w.parts) = Head(x) /\ Tail(w.parts) = Tail(x) \o After(parts, k)
          /\ Head(walk[m].parts) = Head(x) /\ Tail(walk[m].parts) = Tail(x) \o Rest(k)
          /\ walk[m].parts # <<>> /\ Tail(x) \in Seq(Part)
      <4>1. After(parts, k) \in Seq(Part) /\ Rest(k) \in Seq(Part)
        BY <1>6
      <4>2. /\ Head(x \o After(parts, k)) = Head(x) /\ Tail(x) \in Seq(Part)
            /\ Tail(x \o After(parts, k)) = Tail(x) \o After(parts, k)
        BY <2>7, <4>1, HeadTailConcat
      <4>3. /\ Head(x \o Rest(k)) = Head(x) /\ x \o Rest(k) # <<>>
            /\ Tail(x \o Rest(k)) = Tail(x) \o Rest(k)
        BY <2>7, <4>1, HeadTailConcat
      <4>4. w.parts = x \o After(parts, k) /\ walk[m].parts = x \o Rest(k)
        BY <2>3
      <4> QED BY <4>2, <4>3, <4>4
    <3> HIDE DEF Along
    <3> QED BY <2>6, <3>1
  <2>8. CASE x = <<>>
    <3>1. w.parts = After(parts, k) /\ walk[m].parts = Rest(k)
      BY <1>6, <2>3, <2>8, ConcatEmptySeq
    <3>2. k \in 0 .. L - 1
      <4>1. k # L
        BY <2>2, <3>1, FirstAfter
      <4> QED BY <1>2, <4>1
    <3>3. /\ k + 1 \in 0 .. L
          /\ Head(w.parts) = parts[k + 1] /\ Tail(w.parts) = After(parts, k + 1)
          /\ parts[k + 1] = "." => Rest(k + 1) = Rest(k)
          /\ parts[k + 1] # "." =>
               /\ Rest(k) # <<>> /\ Head(Rest(k)) = parts[k + 1]
               /\ Tail(Rest(k)) = Rest(k + 1)
      BY <1>7, <3>1, <3>2
    <3>4. /\ <<>> \in Seq(Part)
          /\ After(parts, k + 1) = <<>> \o After(parts, k + 1)
          /\ Rest(k + 1) = <<>> \o Rest(k + 1)
      BY <1>6, <3>3, ConcatEmptySeq
    <3>5. CASE parts[k + 1] = "."
      <4>1. WalkPart(t, w) = Going(w.at, Tail(w.parts), w.left - 1)
        BY <2>4, <3>3, <3>5, WalkPartIs
      <4>2. /\ WalkPart(t, w).at = w.at /\ WalkPart(t, w).left = w.left - 1
            /\ WalkPart(t, w).parts = After(parts, k + 1)
        BY <3>3, <4>1, GoingIs
      <4>3. w.left - 1 <= walk[m].left
        BY <2>3, <2>5
      <4>4. Beside(WalkPart(t, w), m, <<>>, k + 1)
        <5>1. walk[m].parts = Rest(k + 1) /\ w.at = walk[m].at
          BY <2>3, <3>1, <3>3, <3>5
        <5> QED BY <3>4, <4>2, <4>3, <5>1
      <4> HIDE DEF Beside
      <4> QED BY <3>3, <3>4, <4>4
    <3>6. CASE parts[k + 1] # "."
      <4>1. /\ walk[m].parts # <<>> /\ Head(w.parts) = Head(walk[m].parts)
            /\ Tail(w.parts) = <<>> \o After(parts, k + 1)
            /\ Tail(walk[m].parts) = <<>> \o Rest(k + 1)
        BY <3>1, <3>3, <3>4, <3>6
      <4> HIDE DEF Along
      <4> QED BY <2>6, <3>3, <3>4, <4>1
    <3> QED BY <3>5, <3>6
  <2> QED BY <2>7, <2>8
<1>12. PICK w \in Underway : w \in S /\ w.end /\ w.at = Follow(t, parts)
  <2> HIDE DEF S
  <2> QED BY <1>10, <1>11, WalkInvariant
<1>13. PICK m \in 0 .. N, x \in Seq(Part), k \in 0 .. L : Beside(w, m, x, k)
  BY <1>12
<1>14. walk[m].parts = <<>>
  <2>1. w.parts = <<>> /\ w.parts = x \o After(parts, k)
    BY <1>12, <1>13 DEF Underway
  <2>2. x = <<>> /\ After(parts, k) = <<>>
    BY <1>6, <2>1, ConcatSimplifications
  <2>3. k = L
    BY <2>2, FirstAfter
  <2>4. walk[m].parts = <<>> \o <<>>
    BY <1>8, <1>13, <2>2, <2>3
  <2> QED BY <2>4, ConcatEmptySeq, EmptySeq
<1>15. walk[m].end
  BY <1>4, <1>14 DEF Underway
<1> QED BY <1>5, <1>12, <1>13, <1>15 DEF P

-----------------------------------------------------------------------------
(* Paths with .. in them. *)

\* A tree as it would be if its links were not there.
Unlinked(t) == [place \in DOMAIN t |-> IF t[place].kind = "link" THEN Nothing ELSE t[place]]

LEMMA UnlinkedEntries ==
    ASSUME NEW t, t \in [DOMAIN t -> Entry]
    PROVE  /\ Unlinked(t) \in [DOMAIN Unlinked(t) -> Entry]
           /\ \A place : EntryAt(Unlinked(t), place) =
                            IF EntryAt(t, place).kind = "link" THEN Nothing ELSE EntryAt(t, place)
<1>1. Nothing \in Entry /\ Nothing.kind # "link" /\ Dir.kind # "link"
  BY DEF Entry, Nothing, Dir
<1>2. DOMAIN Unlinked(t) = DOMAIN t
  BY DEF Unlinked
<1>3. Unlinked(t) \in [DOMAIN Unlinked(t) -> Entry]
  BY <1>1 DEF Unlinked
<1>4. ASSUME NEW place
      PROVE  EntryAt(Unlinked(t), place) =
                IF EntryAt(t, place).kind = "link" THEN Nothing ELSE EntryAt(t, place)
  <2>1. CASE place = <<>>
    BY <1>1, <2>1 DEF EntryAt
  <2>2. CASE place # <<>> /\ place \in DOMAIN t
    BY <1>2, <2>2 DEF EntryAt, Unlinked
  <2>3. CASE place # <<>> /\ place \notin DOMAIN t
    BY <1>2, <2>3 DEF EntryAt
  <2> QED BY <2>1, <2>2, <2>3
<1> QED BY <1>3, <1>4

\* A path that can be followed where links are not there is followed through none of them,
\* and then .. is the directory a place is in.
LEMMA LinksDoNotMatter ==
    ASSUME NEW t, t \in [DOMAIN t -> Entry], NEW parts \in Seq(Part),
           Follow(Unlinked(t), parts) # None
    PROVE  /\ Follow(t, parts) = Follow(Unlinked(t), parts)
           /\ Lexical(parts) # None => Follow(t, parts) = Lexical(parts)
<1> PICK lex : LexesTo(parts, lex)
  BY LexicalSteps
<1> DEFINE L == Len(parts)
           u == Unlinked(t)
           walk == WalkOf(t, parts)
           N == MaxWalk + 1
           Along(w) == /\ \E m \in 0 .. N : w = walk[m]
                       /\ \E k \in 0 .. L : /\ w.parts = After(parts, k)
                                            /\ Lexical(parts) # None => w.at = lex[k]
           S == {w \in Underway : w.at # None => Along(w)}
<1>1. L \in Nat /\ 0 \in 0 .. L /\ N \in Nat /\ 0 \in 0 .. N
  BY LenProperties, RootAssumption
<1>2. /\ u \in [DOMAIN u -> Entry]
      /\ \A place : EntryAt(u, place) =
                       IF EntryAt(t, place).kind = "link" THEN Nothing ELSE EntryAt(t, place)
  BY UnlinkedEntries
<1> HIDE DEF u
<1>3. /\ walk[0] = Walk(parts) /\ walk[N].end
      /\ \A m \in 1 .. N : walk[m] = IF walk[m - 1].end THEN walk[m - 1]
                                     ELSE WalkPart(t, walk[m - 1])
  <2>1. /\ walk[0] = Walk(parts)
        /\ \A m \in 1 .. N : LET before == walk[m - 1]
                             IN  walk[m] = IF before.end THEN before ELSE WalkPart(t, before)
    BY WalkOfSteps
  <2>2. walk[N].end
    BY WalkCounts
  <2> HIDE DEF walk
  <2> QED BY <2>1, <2>2
<1>4. \A m \in 0 .. N : walk[m].end => Follow(t, parts) = walk[m].at
  BY WalkStays
<1> HIDE DEF walk
<1>5. Walk(parts) \in S
  <2>1. Walk(parts) \in Underway
    BY WalkType
  <2>2. After(parts, 0) = parts /\ lex[0] = <<>>
    BY <1>1, FirstAfter DEF LexesTo
  <2>3. Walk(parts).parts = After(parts, 0) /\ Walk(parts).at = lex[0]
    BY <2>2 DEF Walk
  <2> QED BY <1>1, <1>3, <2>1, <2>3
<1>6. ASSUME NEW w \in Underway, w \in S, ~w.end PROVE WalkPart(u, w) \in S
  <2>1. WalkPart(u, w) \in Underway
    BY <1>2, <1>6, WalkPartType
  <2> SUFFICES ASSUME WalkPart(u, w).at # None PROVE Along(WalkPart(u, w))
    BY <2>1
  <2> DEFINE part == Head(w.parts)
             entry == EntryAt(t, Append(w.at, part))
  <2>2. w.at # None /\ w.parts # <<>>
    BY <1>6 DEF Underway
  <2>3. PICK m \in 0 .. N : w = walk[m]
    BY <1>6, <2>2
  <2>4. PICK k \in 0 .. L : w.parts = After(parts, k) /\ (Lexical(parts) # None => w.at = lex[k])
    BY <1>6, <2>2
  <2>5. k < L /\ part = parts[k + 1] /\ Tail(w.parts) = After(parts, k + 1) /\ part \in Part
    <3>1. k < L
      <4>1. After(parts, k) = <<>> <=> k = L
        BY FirstAfter
      <4> QED BY <1>1, <2>2, <2>4, <4>1
    <3> QED BY <2>4, <3>1, FirstAfter
  <2>6. ~Stuck(u, w)
    BY WalkPartIs DEF Failed
  <2>7. /\ EntryAt(t, w.at).kind = "dir" /\ w.left # 0
        /\ part \in Name => /\ EntryAt(u, Append(w.at, part)).kind \notin {"none", "link"}
                            /\ entry.kind \notin {"none", "link"}
    <3>1. /\ EntryAt(u, w.at).kind = "dir" /\ w.left # 0
          /\ part \in Name => EntryAt(u, Append(w.at, part)).kind # "none"
      BY <2>6 DEF Stuck
    <3> HIDE DEF part
    <3> QED BY <1>2, <3>1 DEF Nothing
  <2>8. ~Stuck(t, w)
    BY <2>7 DEF Stuck
  <2> DEFINE at == IF part = "." THEN w.at
                   ELSE IF part = ".." THEN IF w.at = <<>> THEN <<>> ELSE Front(w.at)
                   ELSE Append(w.at, part)
             next == Going(at, Tail(w.parts), w.left - 1)
  <2>9. {".", ".."} \cap Name = {} /\ "." # ".."
    BY RootAssumption
  <2>10. WalkPart(u, w) = next /\ WalkPart(t, w) = next
    <3>1. CASE part = "."
      BY <2>6, <2>8, <2>9, <3>1, WalkPartIs
    <3>2. CASE part = ".."
      BY <2>6, <2>8, <2>9, <3>2, WalkPartIs
    <3>3. CASE part \in Name
      <4>1. at = Append(w.at, part)
        BY <2>9, <3>3
      <4>2. WalkPart(u, w) = Going(Append(w.at, part), Tail(w.parts), w.left - 1)
        BY <2>6, <2>7, <3>3, WalkPartIs
      <4>3. WalkPart(t, w) = Going(Append(w.at, part), Tail(w.parts), w.left - 1)
        BY <2>7, <2>8, <3>3, WalkPartIs
      <4> QED BY <4>1, <4>2, <4>3
    <3> QED BY <2>5, <3>1, <3>2, <3>3 DEF Part
  <2>11. m + 1 \in 0 .. N /\ walk[m + 1] = next
    <3>1. m # N
      BY <1>3, <1>6, <2>3
    <3>2. m + 1 \in 1 .. N /\ (m + 1) - 1 = m
      BY <1>1, <3>1
    <3> QED BY <1>3, <1>6, <2>3, <2>10, <3>2
  <2>12. Lexical(parts) # None => at = lex[k + 1]
    <3> SUFFICES ASSUME Lexical(parts) # None PROVE at = lex[k + 1]
      OBVIOUS
    <3>1. k + 1 \in 1 .. L /\ k + 1 \in 0 .. L /\ (k + 1) - 1 = k
      BY <1>1, <2>5
    <3>2. lex[k] # None /\ lex[k + 1] # None
      BY <3>1, LexicalLost
    <3>3. lex[k + 1] = LexicalPart(w.at, part)
      BY <2>4, <2>5, <3>1, <3>2 DEF LexesTo
    <3> HIDE DEF part
    <3> QED BY <2>9, <3>2, <3>3 DEF LexicalPart
  <2>13. next.parts = After(parts, k + 1) /\ next.at = at
    BY <2>5, GoingIs
  <2>14. k + 1 \in 0 .. L
    BY <1>1, <2>5
  <2> HIDE DEF at, next
  <2> QED BY <2>10, <2>11, <2>12, <2>13, <2>14
<1>7. PICK w \in Underway : w \in S /\ w.end /\ w.at = Follow(u, parts)
  <2> HIDE DEF S
  <2> QED BY <1>2, <1>5, <1>6, WalkInvariant
<1>8. Along(w)
  BY <1>7 DEF u
<1>9. Follow(t, parts) = w.at
  BY <1>4, <1>7, <1>8
<1>10. Lexical(parts) # None => w.at = Lexical(parts)
  <2>1. PICK k \in 0 .. L : w.parts = After(parts, k) /\ (Lexical(parts) # None => w.at = lex[k])
    BY <1>8
  <2>2. k = L
    <3>1. w.parts = <<>>
      BY <1>7 DEF Underway
    <3> QED BY <2>1, <3>1, FirstAfter
  <2> QED BY <2>1, <2>2 DEF LexesTo
<1> QED BY <1>7, <1>9, <1>10 DEF u

LEMMA CountStep ==
    ASSUME NEW X, NEW n \in Nat
    PROVE  /\ Cardinality({i \in 1 .. n : i \in X}) \in Nat
           /\ Cardinality({i \in 1 .. n + 1 : i \in X}) =
                 Cardinality({i \in 1 .. n : i \in X}) + IF n + 1 \in X THEN 1 ELSE 0
<1> DEFINE C == {i \in 1 .. n : i \in X}
           D == {i \in 1 .. n + 1 : i \in X}
<1>1. IsFiniteSet(1 .. n)
  BY FS_Interval
<1>2. IsFiniteSet(C)
  BY <1>1, FS_Subset
<1>3. Cardinality(C) \in Nat
  BY <1>2, FS_CardinalityType
<1>4. CASE n + 1 \in X
  <2>1. D = C \cup {n + 1} /\ n + 1 \notin C
    BY <1>4
  <2> HIDE DEF C, D
  <2>2. Cardinality(D) = Cardinality(C) + 1
    BY <1>2, <2>1, FS_AddElement
  <2> QED BY <1>3, <1>4, <2>2 DEF C, D
<1>5. CASE n + 1 \notin X
  <2>1. D = C
    BY <1>5
  <2> QED BY <1>3, <1>5, <2>1
<1> QED BY <1>4, <1>5

\* Root::lexical is lost only where more .. than names have been read.
LEMMA LostAboveTheTop ==
    ASSUME NEW parts \in Seq(Part), Lexical(parts) = None
    PROVE  \E k \in DOMAIN parts :
              Cardinality({i \in 1 .. k : parts[i] = ".."})
                 > Cardinality({i \in 1 .. k : parts[i] \in Name})
<1> PICK lex : LexesTo(parts, lex)
  BY LexicalSteps
<1> DEFINE L == Len(parts)
           Ups == {i \in 1 .. L : parts[i] = ".."}
           Downs == {i \in 1 .. L : parts[i] \in Name}
           U(n) == Cardinality({i \in 1 .. n : i \in Ups})
           D(n) == Cardinality({i \in 1 .. n : i \in Downs})
<1>1. L \in Nat /\ DOMAIN parts = 1 .. L
  BY LenProperties
<1> SUFFICES ASSUME \A k \in 1 .. L : ~(U(k) > D(k)) PROVE FALSE
  <2>1. ASSUME NEW k \in 1 .. L
        PROVE  /\ {i \in 1 .. k : parts[i] = ".."} = {i \in 1 .. k : i \in Ups}
               /\ {i \in 1 .. k : parts[i] \in Name} = {i \in 1 .. k : i \in Downs}
    BY <1>1
  <2> HIDE DEF Ups, Downs
  <2> QED BY <1>1, <2>1
<1>2. /\ \A n \in Nat : U(n) \in Nat /\ U(n + 1) = U(n) + IF n + 1 \in Ups THEN 1 ELSE 0
      /\ \A n \in Nat : D(n) \in Nat /\ D(n + 1) = D(n) + IF n + 1 \in Downs THEN 1 ELSE 0
  <2> HIDE DEF Ups, Downs
  <2> QED BY CountStep
<1>3. U(0) = 0 /\ D(0) = 0
  <2>1. {i \in 1 .. 0 : i \in Ups} = {} /\ {i \in 1 .. 0 : i \in Downs} = {}
    OBVIOUS
  <2> QED BY <2>1, FS_EmptySet
<1> HIDE DEF U, D
<1> DEFINE Good == {n \in Nat : lex[n] \in Seq(Name) /\ Len(lex[n]) = D(n) - U(n)}
<1>4. 0 \in Good
  <2>1. lex[0] = <<>> /\ <<>> \in Seq(Name) /\ Len(<<>>) = 0
    BY DEF LexesTo
  <2>2. D(0) - U(0) = 0
    BY <1>3
  <2>3. lex[0] \in Seq(Name) /\ Len(lex[0]) = D(0) - U(0)
    BY <2>1, <2>2
  <2> QED BY <2>3
<1>5. ASSUME NEW n \in 0 .. L - 1, n \in Good PROVE n + 1 \in Good
  <2>1. n + 1 \in 1 .. L /\ (n + 1) - 1 = n /\ n \in Nat /\ n + 1 \in Nat
    BY <1>1
  <2>2. lex[n] \in Seq(Name) /\ Len(lex[n]) = D(n) - U(n) /\ lex[n] # None
    BY <1>5, RootAssumption
  <2>3. lex[n + 1] = LexicalPart(lex[n], parts[n + 1])
    BY <2>1, <2>2 DEF LexesTo
  <2>4. parts[n + 1] \in Part /\ {".", ".."} \cap Name = {}
    BY <2>1, ElementOfSeq, RootAssumption
  <2>5. /\ n + 1 \in Ups <=> parts[n + 1] = ".."
        /\ n + 1 \in Downs <=> parts[n + 1] \in Name
    BY <2>1
  <2>6. /\ U(n) \in Nat /\ U(n + 1) = U(n) + IF parts[n + 1] = ".." THEN 1 ELSE 0
        /\ D(n) \in Nat /\ D(n + 1) = D(n) + IF parts[n + 1] \in Name THEN 1 ELSE 0
    BY <1>2, <2>1, <2>5
  <2>7. ~(U(n + 1) > D(n + 1))
    BY <2>1
  <2> HIDE DEF Ups, Downs
  <2>8. CASE parts[n + 1] = "."
    <3>1. lex[n + 1] = lex[n] /\ U(n + 1) = U(n) /\ D(n + 1) = D(n)
      BY <2>3, <2>4, <2>6, <2>8 DEF LexicalPart
    <3> QED BY <2>1, <2>2, <3>1
  <2>9. CASE parts[n + 1] = ".."
    <3>1. U(n + 1) = U(n) + 1 /\ D(n + 1) = D(n)
      BY <2>4, <2>6, <2>9
    <3>2. lex[n] # <<>>
      <4> SUFFICES ASSUME lex[n] = <<>> PROVE FALSE
        OBVIOUS
      <4>1. D(n) - U(n) = 0
        BY <2>2
      <4> QED BY <2>6, <2>7, <3>1, <4>1
    <3>3. lex[n + 1] = Front(lex[n])
      BY <2>3, <2>9, <3>2 DEF LexicalPart
    <3>4. Front(lex[n]) \in Seq(Name) /\ Len(Front(lex[n])) = Len(lex[n]) - 1
      BY <2>2, <3>2, FrontFacts
    <3>5. (D(n) - U(n)) - 1 = D(n) - (U(n) + 1)
      BY <2>6
    <3> QED BY <2>1, <2>2, <3>1, <3>3, <3>4, <3>5
  <2>10. CASE parts[n + 1] \in Name
    <3>1. U(n + 1) = U(n) /\ D(n + 1) = D(n) + 1
      BY <2>4, <2>6, <2>10
    <3>2. lex[n + 1] = Append(lex[n], parts[n + 1])
      BY <2>3, <2>4, <2>10 DEF LexicalPart
    <3>3. lex[n + 1] \in Seq(Name) /\ Len(lex[n + 1]) = Len(lex[n]) + 1
      BY <2>2, <2>10, <3>2, AppendProperties
    <3>4. (D(n) - U(n)) + 1 = (D(n) + 1) - U(n)
      BY <2>6
    <3> QED BY <2>1, <2>2, <3>1, <3>3, <3>4
  <2> QED BY <2>4, <2>8, <2>9, <2>10 DEF Part
<1>6. \A n \in 0 .. L : n \in Good
  <2> HIDE DEF Good, L
  <2> QED BY <1>1, <1>4, <1>5, IntervalInduction
<1>7. lex[L] \in Seq(Name)
  BY <1>1, <1>6
<1> QED BY <1>7, RootAssumption DEF LexesTo

-----------------------------------------------------------------------------
(* Root::resolve on a tree that does not change. *)

LEMMA FrontOfAppend ==
    ASSUME NEW S, NEW s \in Seq(S), NEW e \in S
    PROVE  Front(Append(s, e)) = s /\ Last(Append(s, e)) = e /\ Append(s, e) # <<>>
<1>1. /\ Append(s, e) \in Seq(S) /\ Append(s, e) # <<>>
      /\ Len(Append(s, e)) = Len(s) + 1 /\ Append(s, e)[Len(s) + 1] = e
  BY AppendProperties
<1>2. Len(s) \in Nat /\ Len(s) \in 0 .. Len(s)
  BY LenProperties
<1>3. First(Append(s, e), Len(s)) = s
  <2>1. First(s, Len(s)) = s
    BY <1>2, FirstAfter
  <2> QED BY <1>2, <2>1, FirstOfAppend
<1>4. Front(Append(s, e)) = First(Append(s, e), Len(s))
  <2>1. Len(Append(s, e)) - 1 = Len(s)
    BY <1>1, <1>2
  <2> QED BY <2>1 DEF Front, First
<1> QED BY <1>1, <1>3, <1>4 DEF Last

LEMMA FirstOfConcat ==
    ASSUME NEW S, NEW s \in Seq(S), NEW z \in Seq(S)
    PROVE  /\ \A j \in 0 .. Len(s) : First(s \o z, j) = First(s, j)
           /\ z # <<>> => First(s \o z, Len(s) + 1) = Append(s, z[1])
<1>1. Len(s) \in Nat /\ Len(z) \in Nat /\ (z # <<>> => Len(z) >= 1)
  BY LenProperties, EmptySeq
<1>2. /\ s \o z \in Seq(S) /\ Len(s \o z) = Len(s) + Len(z)
      /\ \A i \in 1 .. Len(s) + Len(z) : (s \o z)[i] = IF i <= Len(s) THEN s[i] ELSE z[i - Len(s)]
  BY ConcatProperties
<1>3. ASSUME NEW j \in 0 .. Len(s) PROVE First(s \o z, j) = First(s, j)
  <2>1. j \in 0 .. Len(s \o z) /\ \A i \in 1 .. j : i \in 1 .. Len(s) + Len(z) /\ i <= Len(s)
    BY <1>1, <1>2
  <2>2. /\ First(s, j) \in Seq(S) /\ Len(First(s, j)) = j
        /\ \A i \in 1 .. j : First(s, j)[i] = s[i]
    BY FirstFacts
  <2>3. /\ First(s \o z, j) \in Seq(S) /\ Len(First(s \o z, j)) = j
        /\ \A i \in 1 .. j : First(s \o z, j)[i] = (s \o z)[i]
    BY <1>2, <2>1, FirstFacts
  <2>4. \A i \in 1 .. Len(First(s \o z, j)) : First(s \o z, j)[i] = First(s, j)[i]
    BY <1>2, <2>1, <2>2, <2>3
  <2> QED BY <2>2, <2>3, <2>4, SeqEqual
<1>4. ASSUME z # <<>> PROVE First(s \o z, Len(s) + 1) = Append(s, z[1])
  <2>1. Len(s) \in 0 .. Len(s) /\ Len(s) \in 0 .. Len(s \o z) /\ Len(s) < Len(s \o z)
    BY <1>1, <1>2, <1>4
  <2>2. First(s \o z, Len(s) + 1) = Append(First(s \o z, Len(s)), (s \o z)[Len(s) + 1])
    BY <1>2, <2>1, FirstAfter
  <2>3. First(s \o z, Len(s)) = s
    BY <1>3, <2>1, FirstAfter
  <2>4. (s \o z)[Len(s) + 1] = z[1]
    <3>1. /\ Len(s) + 1 \in 1 .. Len(s) + Len(z) /\ ~(Len(s) + 1 <= Len(s))
          /\ Len(s) + 1 - Len(s) = 1
      BY <1>1, <1>4
    <3> QED BY <1>2, <3>1
  <2> QED BY <2>2, <2>3, <2>4
<1> QED BY <1>3, <1>4

\* The longest part of a place that has an entry.
Deepest(t, place, k) ==
    /\ k \in 0 .. Len(place) /\ Lstat(t, First(place, k))
    /\ \A j \in k + 1 .. Len(place) : ~Lstat(t, First(place, j))

\* Where Root::resolve takes what a caller writes.
ResolvesTo(t, input, place) ==
    LET written == Lexical(Joined(input))
    IN  /\ written # None /\ Under(written)
        /\ \E k \in 0 .. Len(written) :
              LET led == Follow(t, First(written, k))
              IN  /\ Deepest(t, written, k)
                  /\ led # None /\ Under(led)
                  /\ place = led \o After(written, k)

LEMMA OneDeepest ==
    ASSUME NEW t, NEW place \in Seq(Name), NEW j, NEW k,
           Deepest(t, place, j), Deepest(t, place, k)
    PROVE  j = k
<1>1. Len(place) \in Nat
  BY LenProperties
<1>2. j \in 0 .. Len(place) /\ k \in 0 .. Len(place)
  BY DEF Deepest
<1>3. ~(j < k) /\ ~(k < j)
  <2>1. j < k => k \in j + 1 .. Len(place)
    BY <1>1, <1>2
  <2>2. k < j => j \in k + 1 .. Len(place)
    BY <1>1, <1>2
  <2> QED BY <2>1, <2>2 DEF Deepest
<1> QED BY <1>2, <1>3

LEMMA OneResolution ==
    ASSUME NEW t, NEW input \in Input, NEW p, NEW q,
           ResolvesTo(t, input, p), ResolvesTo(t, input, q)
    PROVE  p = q
<1> DEFINE written == Lexical(Joined(input))
<1>1. written \in Seq(Name)
  <2>1. written \in Seq(Name) \cup {None} /\ written # None
    BY JoinedType, LexicalType DEF ResolvesTo
  <2> QED BY <2>1
<1> HIDE DEF written
<1>2. PICK j : Deepest(t, written, j) /\ p = Follow(t, First(written, j)) \o After(written, j)
  BY DEF ResolvesTo, written
<1>3. PICK k : Deepest(t, written, k) /\ q = Follow(t, First(written, k)) \o After(written, k)
  BY DEF ResolvesTo, written
<1>4. j = k
  BY <1>1, <1>2, <1>3, OneDeepest
<1> QED BY <1>2, <1>3, <1>4

\* Nothing is below a place that has no entry.
LEMMA NothingBeyond ==
    ASSUME NEW t, IsTree(t), NEW led, Plain(t, led), NEW rest \in Seq(Name), rest # <<>>,
           \/ EntryAt(t, led).kind # "dir"
           \/ EntryAt(t, Append(led, rest[1])).kind = "none"
    PROVE  /\ led \o rest \in Seq(Name) /\ NoLinks(t, led \o rest)
           /\ EntryAt(t, led \o rest).kind = "none"
<1> DEFINE place == led \o rest
<1>1. led \in Seq(Name) /\ NoLinks(t, led)
  BY DEF Plain
<1>2. Len(led) \in Nat /\ Len(rest) \in Nat /\ Len(rest) >= 1
  BY <1>1, LenProperties, EmptySeq
<1>3. place \in Seq(Name) /\ Len(place) = Len(led) + Len(rest)
  BY <1>1, ConcatProperties
<1>4. \A j \in 0 .. Len(led) : First(place, j) = First(led, j)
  BY <1>1, FirstOfConcat
<1>5. First(place, Len(led)) = led
  <2>1. Len(led) \in 0 .. Len(led)
    BY <1>2
  <2> QED BY <1>1, <1>4, <2>1, FirstAfter
<1>6. First(place, Len(led) + 1) = Append(led, rest[1])
  BY <1>1, FirstOfConcat
<1> HIDE DEF place
<1>7. ASSUME NEW j \in Len(led) + 1 .. Len(place)
      PROVE  EntryAt(t, First(place, j)).kind = "none"
  <2> SUFFICES ASSUME EntryAt(t, First(place, j)).kind # "none" PROVE FALSE
    OBVIOUS
  <2>1. j \in 0 .. Len(place) /\ Len(First(place, j)) = j
    <3>1. j \in 0 .. Len(place)
      BY <1>2, <1>3
    <3> QED BY <1>3, <3>1, FirstFacts
  <2>2. ASSUME NEW i \in 0 .. j - 1 PROVE EntryAt(t, First(place, i)).kind = "dir"
    <3>1. i \in 0 .. Len(First(place, j)) - 1 /\ i \in 0 .. j
      BY <2>1
    <3>2. EntryAt(t, First(First(place, j), i)).kind = "dir"
      BY <3>1, InDirectories DEF First
    <3>3. First(First(place, j), i) = First(place, i)
      BY <1>3, <2>1, <3>1, FirstOfFirst
    <3> QED BY <3>2, <3>3
  <2>3. EntryAt(t, led).kind = "dir"
    <3>1. Len(led) \in 0 .. j - 1
      BY <1>2
    <3> QED BY <1>5, <2>2, <3>1
  <2>4. EntryAt(t, Append(led, rest[1])).kind # "none"
    <3>1. CASE j = Len(led) + 1
      BY <1>6, <3>1
    <3>2. CASE j # Len(led) + 1
      <4>1. Len(led) + 1 \in 0 .. j - 1
        BY <1>2, <3>2
      <4>2. EntryAt(t, First(place, Len(led) + 1)).kind = "dir"
        BY <2>2, <4>1
      <4> QED BY <1>6, <4>2
    <3> QED BY <3>1, <3>2
  <2> QED BY <2>3, <2>4
<1>8. ASSUME NEW j \in 1 .. Len(place) PROVE EntryAt(t, First(place, j)).kind # "link"
  <2>1. CASE j <= Len(led)
    <3>1. j \in 0 .. Len(led) /\ j \in 1 .. Len(led)
      BY <1>2, <2>1
    <3> QED BY <1>1, <1>4, <3>1 DEF NoLinks, First
  <2>2. CASE ~(j <= Len(led))
    <3>1. j \in Len(led) + 1 .. Len(place)
      BY <1>2, <1>3, <2>2
    <3>2. EntryAt(t, First(place, j)).kind = "none"
      BY <1>7, <3>1
    <3> QED BY <3>2
  <2> QED BY <2>1, <2>2
<1>9. EntryAt(t, place).kind = "none"
  <2>1. Len(place) \in Len(led) + 1 .. Len(place) /\ Len(place) \in 0 .. Len(place)
    BY <1>2, <1>3
  <2>2. First(place, Len(place)) = place
    BY <1>3, <2>1, FirstAfter
  <2> QED BY <1>7, <2>1, <2>2
<1> QED BY <1>3, <1>8, <1>9 DEF NoLinks, First, place

\* Root::resolve takes a path to a place under the root that no link has a part in.
THEOREM ResolvedIsLinkless ==
    ASSUME NEW t, IsTree(t), NEW input \in Input, NEW place, ResolvesTo(t, input, place)
    PROVE  place \in Seq(Name) /\ Under(place) /\ NoLinks(t, place)
<1> DEFINE written == Lexical(Joined(input))
<1>1. written \in Seq(Name)
  <2>1. written \in Seq(Name) \cup {None} /\ written # None
    BY JoinedType, LexicalType DEF ResolvesTo
  <2> QED BY <2>1
<1> HIDE DEF written
<1> DEFINE led(k) == Follow(t, First(written, k))
<1>2. PICK k \in 0 .. Len(written) :
         Deepest(t, written, k) /\ led(k) # None /\ Under(led(k))
            /\ place = led(k) \o After(written, k)
  BY DEF ResolvesTo, written
<1>3. First(written, k) \in Seq(Name) /\ First(written, k) \in Seq(Part)
  <2>1. First(written, k) \in Seq(Name)
    BY <1>1, FirstFacts
  <2> QED BY <2>1 DEF Part
<1>4. Plain(t, led(k))
  BY <1>2, <1>3, FollowIsPlain
<1>5. led(k) \in Seq(Name)
  BY <1>4 DEF Plain
<1>6. After(written, k) \in Seq(Name)
  BY <1>1, AfterFacts
<1> HIDE DEF led
<1>7. Under(place)
  BY <1>2, <1>5, <1>6, UnderExtends
<1>8. CASE After(written, k) = <<>>
  <2>1. place = led(k)
    BY <1>2, <1>5, <1>8, ConcatEmptySeq
  <2> QED BY <1>4, <1>5, <1>7, <2>1 DEF Plain
<1>9. CASE After(written, k) # <<>>
  <2>1. Len(written) \in Nat /\ k < Len(written)
    <3>1. k # Len(written)
      BY <1>1, <1>9, FirstAfter
    <3> QED BY <1>1, <3>1, LenProperties
  <2>2. /\ written[k + 1] \in Name /\ After(written, k)[1] = written[k + 1]
        /\ First(written, k + 1) = Append(First(written, k), written[k + 1])
    <3>1. Head(After(written, k)) = After(written, k)[1]
      OBVIOUS
    <3> QED BY <1>1, <2>1, <3>1, FirstAfter
  <2>3. ~Lstat(t, First(written, k + 1))
    <3>1. k + 1 \in k + 1 .. Len(written)
      BY <2>1
    <3> QED BY <1>2, <3>1 DEF Deepest
  <2>4. \/ EntryAt(t, led(k)).kind # "dir"
        \/ EntryAt(t, Append(led(k), written[k + 1])).kind = "none"
    <3>0. First(written, k) \in Seq(Name) /\ written[k + 1] \in Name
      BY <1>3, <2>2
    <3> DEFINE longer == Append(First(written, k), written[k + 1])
    <3>a. /\ Front(longer) = First(written, k) /\ Last(longer) = written[k + 1]
          /\ longer # <<>>
      BY <3>0, FrontOfAppend
    <3> HIDE DEF longer
    <3>b. First(written, k + 1) = longer
      BY <2>2 DEF longer
    <3>1. /\ Front(First(written, k + 1)) = First(written, k)
          /\ Last(First(written, k + 1)) = written[k + 1]
          /\ First(written, k + 1) # <<>>
      BY <3>a, <3>b
    <3> QED BY <1>2, <2>3, <3>1 DEF Lstat, led
  <2>5. NoLinks(t, led(k) \o After(written, k)) /\ led(k) \o After(written, k) \in Seq(Name)
    BY <1>4, <1>6, <1>9, <2>2, <2>4, NothingBeyond
  <2> QED BY <1>2, <1>7, <2>5
<1> QED BY <1>8, <1>9

\* A path that leads somewhere and, if it has .. in it, needs no link for that: Root::resolve
\* finds all of what Root::lexical makes of it, and it leads to the same place.
THEOREM ResolvesLikeTheShell ==
    ASSUME NEW t, IsTree(t), NEW parts \in Seq(Part), Follow(t, parts) # None,
           \/ \A i \in 1 .. Len(parts) : parts[i] # ".."
           \/ Follow(Unlinked(t), parts) # None,
           Lexical(parts) # None
    PROVE  /\ Follow(t, Lexical(parts)) = Follow(t, parts)
           /\ \A k : Deepest(t, Lexical(parts), k) => k = Len(Lexical(parts))
<1> DEFINE written == Lexical(parts)
<1>1. written \in Seq(Name) /\ t \in [DOMAIN t -> Entry]
  BY LexicalType DEF IsTree
<1>2. Follow(t, written) = Follow(t, parts)
  <2>1. CASE \A i \in 1 .. Len(parts) : parts[i] # ".."
    BY <1>1, <2>1, DotsDoNotMatter
  <2>2. CASE Follow(Unlinked(t), parts) # None
    <3>1. Follow(t, parts) = written
      BY <1>1, <2>2, LinksDoNotMatter
    <3>2. Plain(t, written)
      BY <3>1, FollowIsPlain
    <3> QED BY <3>1, <3>2, PlainLeadsThere
  <2> QED BY <2>1, <2>2
<1> HIDE DEF written
<1>3. Lstat(t, written)
  BY <1>1, <1>2, ExistsHasEntry
<1>4. Deepest(t, written, Len(written))
  <2>1. Len(written) \in Nat
    BY <1>1, LenProperties
  <2>2. /\ Len(written) \in 0 .. Len(written)
        /\ \A j \in Len(written) + 1 .. Len(written) : FALSE
    BY <2>1
  <2>3. First(written, Len(written)) = written
    BY <1>1, <2>2, FirstAfter
  <2> QED BY <1>3, <2>2, <2>3 DEF Deepest
<1> QED BY <1>1, <1>2, <1>4, OneDeepest DEF written

-----------------------------------------------------------------------------
(* What the tools print of a place, read as a path. *)

\* Names are what Root::lexical keeps.
LEMMA LexicalOfNames ==
    ASSUME NEW parts \in Seq(Part), NEW lex, LexesTo(parts, lex),
           NEW L \in 0 .. Len(parts), \A i \in 1 .. L : parts[i] \in Name
    PROVE  lex[L] = First(parts, L)
<1> DEFINE Good == {n \in Nat : lex[n] = First(parts, n)}
<1>1. Len(parts) \in Nat /\ L \in Nat
  BY LenProperties
<1>2. None \notin Seq(Name) /\ {".", ".."} \cap Name = {}
  BY RootAssumption
<1>3. 0 \in Good
  <2>1. 0 \in 0 .. Len(parts)
    BY <1>1
  <2>2. First(parts, 0) = <<>>
    BY <2>1, FirstAfter
  <2> QED BY <2>2 DEF LexesTo
<1>4. ASSUME NEW n \in 0 .. L - 1, n \in Good PROVE n + 1 \in Good
  <2>1. /\ n + 1 \in 1 .. Len(parts) /\ (n + 1) - 1 = n /\ n \in 0 .. Len(parts)
        /\ n + 1 \in 1 .. L /\ n < Len(parts) /\ n + 1 \in Nat
    BY <1>1
  <2>2. lex[n] = First(parts, n) /\ parts[n + 1] \in Name
    BY <1>4, <2>1
  <2>3. First(parts, n) \in Seq(Name)
    <3>1. /\ First(parts, n) \in Seq(Part) /\ Len(First(parts, n)) = n
          /\ \A i \in 1 .. n : First(parts, n)[i] = parts[i]
      BY <2>1, FirstFacts
    <3>2. \A i \in 1 .. n : First(parts, n)[i] \in Name
      <4>1. \A i \in 1 .. n : i \in 1 .. L
        BY <2>1
      <4> QED BY <3>1, <4>1
    <3> DEFINE f == First(parts, n)
    <3>3. f \in Seq(Part) /\ Len(f) = n /\ \A i \in 1 .. n : f[i] \in Name
      BY <3>1, <3>2
    <3> HIDE DEF f
    <3>4. f \in [1 .. n -> Name]
      BY <3>3, LenProperties
    <3>5. f \in Seq(Name)
      BY <2>1, <3>4
    <3> QED BY <3>5 DEF f
  <2>4. lex[n] # None
    BY <1>2, <2>2, <2>3
  <2>5. lex[n + 1] = LexicalPart(lex[n], parts[n + 1])
    BY <2>1, <2>4 DEF LexesTo
  <2>6. parts[n + 1] # "." /\ parts[n + 1] # ".."
    BY <1>2, <2>2
  <2>7. lex[n + 1] = Append(lex[n], parts[n + 1])
    BY <2>5, <2>6 DEF LexicalPart
  <2>8. First(parts, n + 1) = Append(First(parts, n), parts[n + 1])
    BY <2>1, FirstAfter
  <2> QED BY <2>1, <2>2, <2>7, <2>8
<1>5. \A n \in 0 .. L : n \in Good
  <2> HIDE DEF Good
  <2> QED BY <1>1, <1>3, <1>4, IntervalInduction
<1>6. L \in 0 .. L
  BY <1>1
<1> QED BY <1>5, <1>6

LEMMA LexicalOfPlace ==
    ASSUME NEW place \in Seq(Name)
    PROVE  Lexical(place) = place /\ Lexical(place \o <<".">>) = place
<1> DEFINE L == Len(place)
           dotted == place \o <<".">>
<1>1. place \in Seq(Part) /\ <<".">> \in Seq(Part) /\ L \in Nat /\ L \in 0 .. L
  BY LenProperties DEF Part
<1>2. \A i \in 1 .. L : place[i] \in Name
  BY ElementOfSeq
<1>3. Lexical(place) = place
  <2>1. PICK lex : LexesTo(place, lex)
    BY <1>1, LexicalSteps
  <2>2. lex[L] = First(place, L)
    BY <1>1, <1>2, <2>1, LexicalOfNames
  <2>3. First(place, L) = place
    BY <1>1, FirstAfter
  <2> QED BY <2>1, <2>2, <2>3 DEF LexesTo
<1>4. Lexical(dotted) = place
  <2>1. Len(<<".">>) = 1 /\ <<".">>[1] = "."
    OBVIOUS
  <2>2. /\ dotted \in Seq(Part) /\ Len(dotted) = L + 1
        /\ \A i \in 1 .. L + 1 : dotted[i] = IF i <= L THEN place[i] ELSE <<".">>[i - L]
    BY <1>1, <2>1, ConcatProperties
  <2>3. First(dotted, L) = place
    <3>1. First(dotted, L) = First(place, L)
      BY <1>1, FirstOfConcat
    <3> QED BY <1>1, <3>1, FirstAfter
  <2> HIDE DEF dotted
  <2>4. L \in 0 .. Len(dotted) /\ L + 1 \in 1 .. Len(dotted) /\ (L + 1) - 1 = L
    BY <1>1, <2>2
  <2>5. \A i \in 1 .. L : dotted[i] \in Name
    <3>1. \A i \in 1 .. L : i \in 1 .. L + 1 /\ i <= L
      BY <1>1
    <3> QED BY <1>2, <2>2, <3>1
  <2>6. dotted[L + 1] = "."
    <3>1. L + 1 \in 1 .. L + 1 /\ ~(L + 1 <= L) /\ (L + 1) - L = 1
      BY <1>1
    <3> QED BY <2>1, <2>2, <3>1
  <2>7. PICK lex : LexesTo(dotted, lex)
    BY <2>2, LexicalSteps
  <2>8. lex[L] = place
    BY <2>2, <2>3, <2>4, <2>5, <2>7, LexicalOfNames
  <2>9. lex[L + 1] = LexicalPart(place, ".")
    <3>1. place # None
      BY RootAssumption
    <3> QED BY <2>4, <2>6, <2>7, <2>8, <3>1 DEF LexesTo
  <2>10. lex[L + 1] = place
    BY <2>9 DEF LexicalPart
  <2> QED BY <2>2, <2>7, <2>10 DEF LexesTo
<1> QED BY <1>3, <1>4

\* What is printed of a place is a path that is read as that place.
THEOREM ShownReads ==
    ASSUME NEW place \in Seq(Name), Under(place)
    PROVE  Shown(place) \in Input /\ Lexical(Joined(Shown(place))) = place
<1> DEFINE R == Len(Root)
<1>1. Root \in Seq(Name) /\ R \in Nat /\ R \in 0 .. Len(place) /\ First(place, R) = Root
  <2>1. Root \in Seq(Name) /\ R \in Nat /\ Len(place) \in Nat
    BY RootAssumption, LenProperties
  <2>2. R <= Len(place) /\ SubSeq(Root, 1, R) = SubSeq(place, 1, R)
    BY DEF Under, IsPrefix
  <2>3. SubSeq(Root, 1, R) = Root
    BY <2>1, SubSeqFull
  <2> QED BY <2>1, <2>2, <2>3 DEF First
<1>2. After(place, R) \in Seq(Name) /\ place = First(place, R) \o After(place, R)
  <2>1. After(place, R) \in Seq(Name)
    BY <1>1, AfterFacts
  <2>2. place = First(place, R) \o After(place, R)
    <3>1. R \in 0 .. Len(place)
      BY <1>1
    <3> HIDE DEF R
    <3> QED BY <3>1, FirstAfter
  <2> QED BY <2>1, <2>2
<1>3. CASE place = Root
  <2>1. Shown(place) = [abs |-> FALSE, parts |-> <<".">>]
    BY <1>3 DEF Shown
  <2>2. <<".">> \in Seq(Part)
    BY DEF Part
  <2>3. Shown(place) \in Input
    BY <2>1, <2>2 DEF Input
  <2>4. Joined(Shown(place)) = place \o <<".">>
    BY <1>3, <2>1 DEF Joined
  <2> QED BY <2>3, <2>4, LexicalOfPlace
<1>4. CASE place # Root
  <2>1. Shown(place) = [abs |-> FALSE, parts |-> After(place, R)]
    BY <1>4 DEF Shown, After
  <2>2. After(place, R) \in Seq(Part)
    BY <1>2 DEF Part
  <2>3. Shown(place) \in Input
    BY <2>1, <2>2 DEF Input
  <2>4. Joined(Shown(place)) = Root \o After(place, R)
    BY <2>1 DEF Joined
  <2>5. Joined(Shown(place)) = place
    BY <1>1, <1>2, <2>4
  <2> QED BY <2>3, <2>5, LexicalOfPlace
<1> QED BY <1>3, <1>4

\* And resolved as that place, where something is there.
LEMMA ShownResolves ==
    ASSUME NEW t, IsTree(t), NEW place, Plain(t, place), Under(place)
    PROVE  /\ ResolvesTo(t, Shown(place), place)
           /\ Deepest(t, place, Len(place))
           /\ Follow(t, First(place, Len(place))) = place
<1>1. place \in Seq(Name) /\ place # None /\ t \in [DOMAIN t -> Entry]
  BY RootAssumption DEF Plain, IsTree
<1>2. Lexical(Joined(Shown(place))) = place
  BY <1>1, ShownReads
<1>3. Follow(t, place) = place
  BY PlainLeadsThere
<1>4. Lstat(t, place)
  BY <1>1, <1>3, ExistsHasEntry
<1>5. Len(place) \in Nat /\ Len(place) \in 0 .. Len(place)
  BY <1>1, LenProperties
<1>6. First(place, Len(place)) = place /\ After(place, Len(place)) = <<>>
  BY <1>1, <1>5, FirstAfter
<1>7. Deepest(t, place, Len(place))
  <2>1. \A j \in Len(place) + 1 .. Len(place) : FALSE
    BY <1>5
  <2> QED BY <1>4, <1>5, <1>6, <2>1 DEF Deepest
<1>8. place = Follow(t, First(place, Len(place))) \o After(place, Len(place))
  BY <1>1, <1>3, <1>6, ConcatEmptySeq
<1>9. ResolvesTo(t, Shown(place), place)
  BY <1>1, <1>2, <1>3, <1>5, <1>6, <1>7, <1>8 DEF ResolvesTo
<1> QED BY <1>3, <1>6, <1>7, <1>9

-----------------------------------------------------------------------------
(* Prefixes. *)

LEMMA PrefixIsFirst ==
    ASSUME NEW S, NEW p \in Seq(S), NEW q
    PROVE  IsPrefix(p, q) <=> Len(p) <= Len(q) /\ First(q, Len(p)) = p
<1>1. SubSeq(p, 1, Len(p)) = p
  BY SubSeqFull
<1> QED BY <1>1 DEF IsPrefix, First

LEMMA PrefixFacts ==
    ASSUME NEW S, NEW p \in Seq(S), NEW q \in Seq(S)
    PROVE  /\ IsPrefix(p, p)
           /\ IsPrefix(p, q) => Len(p) <= Len(q) /\ \A i \in 1 .. Len(p) : p[i] = q[i]
           /\ IsPrefix(p, q) /\ Len(p) = Len(q) => p = q
           /\ \A r \in Seq(S) : IsPrefix(p, q) /\ IsPrefix(q, r) => IsPrefix(p, r)
           /\ IsPrefix(p, q) /\ p # q =>
                 /\ Len(p) < Len(q) /\ q[Len(p) + 1] \in S
                 /\ IsPrefix(Append(p, q[Len(p) + 1]), q)
<1>1. Len(p) \in Nat /\ Len(q) \in Nat /\ Len(p) \in 0 .. Len(p)
  BY LenProperties
<1>2. IsPrefix(p, q) <=> Len(p) <= Len(q) /\ First(q, Len(p)) = p
  BY PrefixIsFirst
<1>3. IsPrefix(p, p)
  BY <1>1, FirstAfter, PrefixIsFirst
<1>4. ASSUME IsPrefix(p, q)
      PROVE  Len(p) <= Len(q) /\ \A i \in 1 .. Len(p) : p[i] = q[i]
  <2>1. Len(p) \in 0 .. Len(q)
    BY <1>1, <1>2, <1>4
  <2> QED BY <1>2, <1>4, <2>1, FirstFacts
<1>5. ASSUME IsPrefix(p, q), Len(p) = Len(q) PROVE p = q
  BY <1>4, <1>5, SeqEqual
<1>6. ASSUME NEW r \in Seq(S), IsPrefix(p, q), IsPrefix(q, r) PROVE IsPrefix(p, r)
  <2>1. Len(r) \in Nat
    BY LenProperties
  <2>2. Len(q) <= Len(r) /\ First(r, Len(q)) = q
    BY <1>6, PrefixIsFirst
  <2>3. Len(p) <= Len(q) /\ First(q, Len(p)) = p
    BY <1>2, <1>6
  <2>4. First(First(r, Len(q)), Len(p)) = First(r, Len(p))
    <3>1. Len(q) \in 0 .. Len(r) /\ Len(p) \in 0 .. Len(q)
      BY <1>1, <2>1, <2>2, <2>3
    <3> QED BY <3>1, FirstOfFirst
  <2>5. First(r, Len(p)) = p
    <3>1. First(First(r, Len(q)), Len(p)) = First(q, Len(p))
      BY <2>2
    <3> QED BY <2>3, <2>4, <3>1
  <2>6. Len(p) <= Len(r)
    BY <1>1, <2>1, <2>2, <2>3
  <2> QED BY <2>5, <2>6, PrefixIsFirst
<1>7. ASSUME IsPrefix(p, q), p # q
      PROVE  /\ Len(p) < Len(q) /\ q[Len(p) + 1] \in S
             /\ IsPrefix(Append(p, q[Len(p) + 1]), q)
  <2>1. Len(p) < Len(q) /\ Len(p) \in 0 .. Len(q) /\ Len(p) + 1 \in 1 .. Len(q)
    <3>1. Len(p) # Len(q) /\ Len(p) <= Len(q)
      BY <1>4, <1>5, <1>7
    <3> QED BY <1>1, <3>1
  <2>2. First(q, Len(p) + 1) = Append(p, q[Len(p) + 1]) /\ q[Len(p) + 1] \in S
    BY <1>2, <1>7, <2>1, FirstAfter
  <2>3. /\ Append(p, q[Len(p) + 1]) \in Seq(S)
        /\ Len(Append(p, q[Len(p) + 1])) = Len(p) + 1 /\ Len(p) + 1 <= Len(q)
    BY <2>1, <2>2, AppendProperties
  <2>4. IsPrefix(Append(p, q[Len(p) + 1]), q)
    BY <2>2, <2>3, PrefixIsFirst
  <2> QED BY <2>1, <2>2, <2>4
<1> QED BY <1>3, <1>4, <1>5, <1>6, <1>7

LEMMA PrefixOfAppend ==
    ASSUME NEW S, NEW p \in Seq(S), NEW q \in Seq(S), NEW e \in S
    PROVE  /\ IsPrefix(q, Append(q, e)) /\ Append(q, e) # q
           /\ IsPrefix(p, Append(q, e)) => p = Append(q, e) \/ IsPrefix(p, q)
<1>1. Append(q, e) \in Seq(S) /\ Len(Append(q, e)) = Len(q) + 1
  BY AppendProperties
<1>2. Len(p) \in Nat /\ Len(q) \in Nat
  BY LenProperties
<1>3. \A j \in 0 .. Len(q) : First(Append(q, e), j) = First(q, j)
  BY FirstOfAppend
<1>4. IsPrefix(q, Append(q, e))
  <2>1. Len(q) \in 0 .. Len(q) /\ Len(q) <= Len(Append(q, e))
    BY <1>1, <1>2
  <2>2. First(Append(q, e), Len(q)) = q
    BY <1>3, <2>1, FirstAfter
  <2> QED BY <2>1, <2>2, PrefixIsFirst
<1>5. Append(q, e) # q
  BY <1>1, <1>2
<1>6. ASSUME IsPrefix(p, Append(q, e)), p # Append(q, e) PROVE IsPrefix(p, q)
  <2>1. Len(p) < Len(Append(q, e))
    BY <1>1, <1>6, PrefixFacts
  <2>2. Len(p) \in 0 .. Len(q) /\ Len(p) <= Len(q)
    BY <1>1, <1>2, <2>1
  <2>3. First(Append(q, e), Len(p)) = p
    BY <1>6, PrefixIsFirst
  <2>4. First(q, Len(p)) = p
    BY <1>3, <2>2, <2>3
  <2> QED BY <2>2, <2>4, PrefixIsFirst
<1> QED BY <1>4, <1>5, <1>6

\* What is in a tree has directories above it and no link, so that the place above it leads
\* there, and so does its own unless it is a link.
LEMMA BelowPlain ==
    ASSUME NEW t, IsTree(t), NEW place, EntryAt(t, place).kind # "none", place # <<>>
    PROVE  /\ place \in Seq(Name)
           /\ Plain(t, Front(place)) /\ EntryAt(t, Front(place)).kind = "dir"
           /\ EntryAt(t, place).kind # "link" => Plain(t, place)
<1>1. place \in Seq(Name)
  BY NotTooDeep
<1>2. /\ Front(place) \in Seq(Name) /\ Front(place) = First(place, Len(place) - 1)
      /\ Len(Front(place)) = Len(place) - 1 /\ Len(place) \in Nat /\ Len(place) >= 1
  BY <1>1, FrontFacts DEF First
<1>3. \A k \in 0 .. Len(place) - 1 : EntryAt(t, First(place, k)).kind = "dir"
  BY InDirectories DEF First
<1>4. EntryAt(t, Front(place)).kind = "dir"
  BY <1>2, <1>3
<1>5. \A k \in 1 .. Len(Front(place)) : First(Front(place), k) = First(place, k)
  BY <1>1, <1>2, FirstOfFirst
<1>6. NoLinks(t, Front(place))
  <2> SUFFICES ASSUME NEW k \in 1 .. Len(Front(place))
               PROVE  EntryAt(t, First(Front(place), k)).kind # "link"
    BY DEF NoLinks, First
  <2> QED BY <1>2, <1>3, <1>5
<1>7. ASSUME EntryAt(t, place).kind # "link" PROVE Plain(t, place)
  <2>1. First(place, Len(place)) = place
    BY <1>1, <1>2, FirstAfter
  <2>2. NoLinks(t, place)
    <3> SUFFICES ASSUME NEW k \in 1 .. Len(place)
                 PROVE  EntryAt(t, First(place, k)).kind # "link"
      BY DEF NoLinks, First
    <3>1. CASE k = Len(place)
      BY <3>1, <2>1, <1>7
    <3>2. CASE k # Len(place)
      <4>1. k \in 0 .. Len(place) - 1
        BY <3>2, <1>2
      <4> QED BY <4>1, <1>3
    <3> QED BY <3>1, <3>2
  <2> QED BY <2>2, <1>1 DEF Plain
<1> QED BY <1>1, <1>2, <1>4, <1>6, <1>7 DEF Plain

\* The smaller and the larger of two numbers.
LEMMA OfTwo ==
    ASSUME NEW x \in Int, NEW y \in Int
    PROVE  /\ Min({x, y}) = IF x <= y THEN x ELSE y
           /\ Max({x, y}) = IF x >= y THEN x ELSE y
<1>1. \E z \in {x, y} : \A u \in {x, y} : z <= u
  OBVIOUS
<1>2. \E z \in {x, y} : \A u \in {x, y} : z >= u
  OBVIOUS
<1>3. Min({x, y}) \in {x, y} /\ Min({x, y}) <= x /\ Min({x, y}) <= y
  BY <1>1 DEF Min
<1>4. Max({x, y}) \in {x, y} /\ Max({x, y}) >= x /\ Max({x, y}) >= y
  BY <1>2 DEF Max
<1> QED BY <1>3, <1>4

\* No two of a sequence are the same.
Distinct(s) == \A i, j \in 1 .. Len(s) : s[i] = s[j] => i = j

\* A sequence is as long as the set of what is in it is large when no two are the same.
LEMMA DistinctCount ==
    ASSUME NEW S, NEW s \in Seq(S), Distinct(s)
    PROVE  Len(s) = Cardinality(ToSet(s))
<1>1. s \in [1 .. Len(s) -> S] /\ Len(s) \in Nat
  OBVIOUS
<1>2. ToSet(s) = {s[i] : i \in 1 .. Len(s)}
  BY <1>1 DEF ToSet
<1>3. s \in Bijection(1 .. Len(s), ToSet(s))
  BY <1>1, <1>2 DEF Distinct, Bijection, Injection, Surjection, IsInjective
<1>4. ExistsBijection(1 .. Len(s), ToSet(s))
  BY <1>3 DEF ExistsBijection
<1>5. IsFiniteSet(1 .. Len(s)) /\ Cardinality(1 .. Len(s)) = Len(s)
  <2>1. \A n \in Nat : IsFiniteSet(1 .. n) /\ Cardinality(1 .. n) = n
    BY FS_Interval
  <2> QED BY <2>1, <1>1
<1> QED BY <1>4, <1>5, FS_Bijection

\* What is in a sequence, and in one made of two.
LEMMA SetOfConcat ==
    ASSUME NEW S, NEW s \in Seq(S), NEW z \in Seq(S)
    PROVE  /\ ToSet(s) = {s[i] : i \in 1 .. Len(s)} /\ ToSet(s) \subseteq S
           /\ ToSet(s \o z) = ToSet(s) \cup ToSet(z)
           /\ Distinct(s) /\ Distinct(z) /\ ToSet(s) \cap ToSet(z) = {} => Distinct(s \o z)
<1>1. /\ s \o z \in Seq(S) /\ Len(s \o z) = Len(s) + Len(z) /\ Len(s) \in Nat /\ Len(z) \in Nat
      /\ \A i \in 1 .. Len(s) : (s \o z)[i] = s[i]
      /\ \A i \in 1 .. Len(z) : (s \o z)[Len(s) + i] = z[i]
  OBVIOUS
<1> DEFINE y == s \o z
<1>2. /\ ToSet(s) = {s[i] : i \in 1 .. Len(s)} /\ ToSet(s) \subseteq S
      /\ ToSet(z) = {z[i] : i \in 1 .. Len(z)}
      /\ ToSet(y) = {y[i] : i \in 1 .. Len(y)}
  BY <1>1 DEF ToSet
<1>3. \A i \in 1 .. Len(y) : i \in 1 .. Len(s) \/ i - Len(s) \in 1 .. Len(z)
  BY <1>1
<1>4. \A i \in 1 .. Len(y) : i \notin 1 .. Len(s) => y[i] = z[i - Len(s)]
  <2> SUFFICES ASSUME NEW i \in 1 .. Len(y), i \notin 1 .. Len(s) PROVE y[i] = z[i - Len(s)]
    OBVIOUS
  <2>1. i - Len(s) \in 1 .. Len(z) /\ Len(s) + (i - Len(s)) = i
    BY <1>1, <1>3
  <2> QED BY <2>1, <1>1
<1>5. \A i \in 1 .. Len(s) : i \in 1 .. Len(y) /\ y[i] = s[i]
  BY <1>1
<1>6. \A i \in 1 .. Len(z) : Len(s) + i \in 1 .. Len(y) /\ y[Len(s) + i] = z[i]
  BY <1>1
<1> HIDE DEF y
<1>7. ToSet(y) \subseteq ToSet(s) \cup ToSet(z)
  BY <1>2, <1>3, <1>4, <1>5
<1>8. ToSet(s) \subseteq ToSet(y)
  BY <1>2, <1>5
<1>9. ToSet(z) \subseteq ToSet(y)
  BY <1>2, <1>6
<1>10. ASSUME Distinct(s), Distinct(z), ToSet(s) \cap ToSet(z) = {} PROVE Distinct(y)
  <2> SUFFICES ASSUME NEW i \in 1 .. Len(y), NEW j \in 1 .. Len(y), y[i] = y[j] PROVE i = j
    BY DEF Distinct
  <2>1. CASE i \in 1 .. Len(s) /\ j \in 1 .. Len(s)
    BY <2>1, <1>5, <1>10 DEF Distinct
  <2>2. CASE i \notin 1 .. Len(s) /\ j \notin 1 .. Len(s)
    <3>1. i - Len(s) = j - Len(s)
      BY <2>2, <1>3, <1>4, <1>10 DEF Distinct
    <3> QED BY <3>1, <1>1
  <2>3. CASE i \in 1 .. Len(s) /\ j \notin 1 .. Len(s)
    BY <2>3, <1>2, <1>3, <1>4, <1>5, <1>10
  <2>4. CASE i \notin 1 .. Len(s) /\ j \in 1 .. Len(s)
    BY <2>4, <1>2, <1>3, <1>4, <1>5, <1>10
  <2> QED BY <2>1, <2>2, <2>3, <2>4
<1> QED BY <1>2, <1>7, <1>8, <1>9, <1>10 DEF y

\* The beginning of a sequence has what the sequence has, and no two the same if it has none.
LEMMA SetOfFirst ==
    ASSUME NEW S, NEW s \in Seq(S), NEW k \in 0 .. Len(s)
    PROVE  /\ First(s, k) \in Seq(S) /\ Len(First(s, k)) = k
           /\ ToSet(First(s, k)) \subseteq ToSet(s)
           /\ Distinct(s) => Distinct(First(s, k))
<1>1. /\ First(s, k) \in Seq(S) /\ Len(First(s, k)) = k
      /\ \A i \in 1 .. k : First(s, k)[i] = s[i] /\ i \in 1 .. Len(s)
  BY FirstFacts
<1>2. /\ ToSet(s) = {s[i] : i \in 1 .. Len(s)}
      /\ ToSet(First(s, k)) = {First(s, k)[i] : i \in 1 .. k}
  BY <1>1 DEF ToSet
<1> QED BY <1>1, <1>2 DEF Distinct

\* How many numbers up to n a set has is at most n.
LEMMA CountUpTo ==
    ASSUME NEW n \in Nat, NEW T \in SUBSET (1 .. n)
    PROVE  IsFiniteSet(T) /\ Cardinality(T) \in 0 .. n
<1>1. IsFiniteSet(1 .. n) /\ Cardinality(1 .. n) = n
  BY FS_Interval
<1>2. IsFiniteSet(T) /\ Cardinality(T) <= n
  BY <1>1, FS_Subset
<1> QED BY <1>2, FS_CardinalityType

\* One name less of the beginning is one more of the rest.
LEMMA FrontOfFirst ==
    ASSUME NEW S, NEW s \in Seq(S), NEW k \in 1 .. Len(s)
    PROVE  /\ Front(First(s, k)) = First(s, k - 1)
           /\ <<Last(First(s, k))>> \o After(s, k) = After(s, k - 1)
<1>1. k - 1 \in 0 .. Len(s) /\ k - 1 < Len(s) /\ (k - 1) + 1 = k
  OBVIOUS
<1>2. /\ s[k] \in S /\ First(s, k) = Append(First(s, k - 1), s[k])
      /\ After(s, k - 1) # <<>>
      /\ Head(After(s, k - 1)) = s[k] /\ Tail(After(s, k - 1)) = After(s, k)
  BY <1>1, FirstAfter
<1>3. First(s, k - 1) \in Seq(S) /\ After(s, k - 1) \in Seq(S)
  BY <1>1, FirstFacts, AfterFacts
<1>4. Front(First(s, k)) = First(s, k - 1) /\ Last(First(s, k)) = s[k]
  BY <1>2, <1>3, FrontOfAppend
<1> DEFINE a == After(s, k - 1)
<1>5. a \in Seq(S) /\ a # <<>> /\ Head(a) = s[k] /\ Tail(a) = After(s, k)
  BY <1>2, <1>3
<1> HIDE DEF a
<1>6. <<Head(a)>> \o Tail(a) = a
  BY <1>5
<1> QED BY <1>4, <1>5, <1>6 DEF a
=============================================================================
