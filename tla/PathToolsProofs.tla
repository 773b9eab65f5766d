--------------------------- MODULE PathToolsProofs ---------------------------
(***************************************************************************)
(* Whatever the tree and however it changes: the calls of PathTools keep    *)
(* their types. And while nobody changes the tree: that nothing outside the *)
(* root is opened, what a path means, what search and list_dir print, and   *)
(* what the pages of a file and the lines that search found read back as.   *)
(***************************************************************************)
EXTENDS PathTools, RootResolveProofs

\* What TypeOK leaves out: a call is the record it began as, with the arguments its tool
\* takes; its walk is one that the kernel makes; and each part of it is set only where it is.
WellFormed ==
    /\ DOMAIN call = DOMAIN Idle
    /\ call.pc # "idle" =>
          /\ call.input # None /\ call.op \in {"read_file", "list_dir", "search"}
          /\ call.op = "read_file" => call.offset # None
          /\ call.op # "read_file" => call.limit # None
    /\ call.pc = "idle" => pages = <<>> /\ hit = None
    /\ hit # None => call.op = "read_file"
    /\ call.walk \in Underway
    /\ call.pc \in {"ancestor", "canonicalize", "read", "present", "walk"} =>
          call.place # None
    /\ call.pc # "done" => call.answer = None
    /\ call.pc \in {"idle", "lexical"} => call.trailing = <<>>
    /\ call.pc \notin {"walk", "done"} => call.out = <<>>
    /\ call.pc = "read" => call.op = "read_file"
    /\ call.pc \in {"present", "walk"} => call.op # "read_file"
    /\ call.op = "search" => \A i \in 1 .. Len(call.out) : call.out[i].n # 0

\* Whatever changes while a path is being resolved, what a tool goes on with is a place
\* under the root.
PlacesStayUnder == Resolved => Under(call.place)

IInv == TypeOK /\ WellFormed /\ PlacesStayUnder

-----------------------------------------------------------------------------
(* What the tools print. *)

LEMMA OutputLineType ==
    ASSUME NEW path \in Input, NEW n \in Nat, NEW text \in Seq(Char)
    PROVE  /\ OutputLine(path, n, text) \in Line
           /\ OutputLine(path, n, text).path = path /\ OutputLine(path, n, text).n = n
           /\ OutputLine(path, n, text).text = text
BY DEF OutputLine, Line

\* What a tool shows of a place is a path.
LEMMA ShownType ==
    ASSUME NEW place \in Seq(Name)
    PROVE  Shown(place) \in Input
<1>1. CASE Under(place)
  BY <1>1, ShownReads
<1>2. CASE ~Under(place)
  <2>1. place \in Seq(Part)
    BY DEF Part
  <2> QED BY <1>2, <2>1 DEF Shown, Input
<1> QED BY <1>1, <1>2

\* A text file has a text.
LEMMA FileText ==
    ASSUME NEW entry \in Entry, entry.kind = "file"
    PROVE  entry.text \in Seq(Seq(Char))
BY DEF Entry, Nothing, Dir, Binary

\* Output that is cut is the beginning of what it was.
LEMMA WholeLinesAreFirst ==
    ASSUME NEW out \in Seq(Line)
    PROVE  \E k \in 0 .. Len(out) : WholeLines(out) = First(out, k)
<1> DEFINE T == {k \in DOMAIN out : Bytes(SubSeq(out, 1, k)) <= MaxOutput}
<1>1. T \in SUBSET (1 .. Len(out)) /\ Len(out) \in Nat
  OBVIOUS
<1> HIDE DEF T
<1>2. Cardinality(T) \in 0 .. Len(out)
  BY <1>1, CountUpTo
<1>3. WholeLines(out) = First(out, Cardinality(T))
  BY DEF WholeLines, First, T
<1> QED BY <1>2, <1>3

\* A page of a file: the lines after the offset, to the limit or the end, each with its number.
LEMMA PageFacts ==
    ASSUME NEW lines \in Seq(Seq(Char)), call.offset \in Nat, call.limit \in Nat \cup {None},
           call.place \in Seq(Name)
    PROVE  /\ Page(lines) \in Seq(Line)
           /\ Len(Page(lines)) =
                 IF call.offset >= Len(lines) THEN 0
                 ELSE IF call.limit = None \/ call.offset + call.limit >= Len(lines)
                 THEN Len(lines) - call.offset ELSE call.limit
           /\ \A i \in 1 .. Len(Page(lines)) :
                 /\ call.offset + i \in 1 .. Len(lines)
                 /\ Page(lines)[i] =
                       OutputLine(Shown(call.place), call.offset + i, lines[call.offset + i])
<1> DEFINE first == Min({call.offset, Len(lines)})
           last  == IF call.limit = None THEN Len(lines)
                    ELSE Min({call.offset + call.limit, Len(lines)})
           length == IF call.offset >= Len(lines) THEN 0
                     ELSE IF call.limit = None \/ call.offset + call.limit >= Len(lines)
                     THEN Len(lines) - call.offset ELSE call.limit
           line(i) == OutputLine(Shown(call.place), call.offset + i, lines[first + i])
<1>1. Len(lines) \in Nat
  OBVIOUS
<1>2. first = IF call.offset <= Len(lines) THEN call.offset ELSE Len(lines)
  BY <1>1, OfTwo
<1>3. ASSUME call.limit # None
      PROVE  /\ call.limit \in Nat
             /\ last = IF call.offset + call.limit <= Len(lines)
                       THEN call.offset + call.limit ELSE Len(lines)
  <2>1. call.limit \in Nat /\ call.offset + call.limit \in Int
    BY <1>3
  <2>2. Min({call.offset + call.limit, Len(lines)}) =
           IF call.offset + call.limit <= Len(lines) THEN call.offset + call.limit
           ELSE Len(lines)
    BY <2>1, <1>1, OfTwo
  <2> QED BY <1>3, <2>1, <2>2
<1>4. Page(lines) = [i \in 1 .. last - first |-> line(i)]
  BY DEF Page
<1>5. call.limit = None => last = Len(lines)
  OBVIOUS
<1> HIDE DEF first, last, line
<1>6. last - first = length /\ length \in Nat
  <2>1. CASE call.limit = None
    BY <2>1, <1>1, <1>2, <1>5
  <2>2. CASE call.limit # None /\ call.offset + call.limit >= Len(lines)
    BY <2>2, <1>1, <1>2, <1>3
  <2>3. CASE call.limit # None /\ ~(call.offset + call.limit >= Len(lines))
    <3>1. call.limit \in Nat /\ call.offset + call.limit <= Len(lines)
      BY <2>3, <1>1, <1>3
    <3>2. call.offset <= Len(lines)
      BY <3>1, <1>1
    <3>3. last - first = call.limit
      BY <3>1, <3>2, <2>3, <1>2, <1>3
    <3>4. call.offset >= Len(lines) => call.limit = 0
      BY <3>1, <3>2, <1>1
    <3> QED BY <3>1, <3>3, <3>4, <2>3
  <2> QED BY <2>1, <2>2, <2>3
<1> HIDE DEF length
<1>7. ASSUME NEW i \in 1 .. length
      PROVE  first = call.offset /\ call.offset + i \in 1 .. Len(lines) /\ line(i) \in Line
  <2>1. first = call.offset /\ call.offset + i \in 1 .. Len(lines)
    BY <1>1, <1>2, <1>3, <1>7 DEF length
  <2>2. lines[first + i] \in Seq(Char) /\ call.offset + i \in Nat
    BY <2>1
  <2>3. Shown(call.place) \in Input
    BY ShownType
  <2> QED BY <2>1, <2>2, <2>3, OutputLineType DEF line
<1>8. Page(lines) \in [1 .. length -> Line]
  BY <1>4, <1>6, <1>7
<1>9. Page(lines) \in Seq(Line) /\ Len(Page(lines)) = length
  BY <1>6, <1>8
<1>10. \A i \in 1 .. length : Page(lines)[i] = line(i)
  BY <1>4, <1>6
<1>11. Len(Page(lines)) =
          IF call.offset >= Len(lines) THEN 0
          ELSE IF call.limit = None \/ call.offset + call.limit >= Len(lines)
          THEN Len(lines) - call.offset ELSE call.limit
  BY <1>9 DEF length
<1>12. \A i \in 1 .. Len(Page(lines)) :
          /\ call.offset + i \in 1 .. Len(lines)
          /\ Page(lines)[i] =
                OutputLine(Shown(call.place), call.offset + i, lines[call.offset + i])
  BY <1>7, <1>9, <1>10 DEF line
<1> QED BY <1>9, <1>11, <1>12

\* How many of a set of numbers are not larger than one of them: each count, from one to all,
\* is that of exactly one.
Rank(T, n) == Cardinality({m \in T : m <= n})

LEMMA Ranks ==
    ASSUME NEW N \in Nat, NEW T \in SUBSET (1 .. N)
    PROVE  /\ Cardinality(T) \in Nat
           /\ \A n \in T : Rank(T, n) \in 1 .. Cardinality(T)
           /\ \A m, n \in T : Rank(T, m) = Rank(T, n) => m = n
           /\ \A i \in 1 .. Cardinality(T) : \E n \in T : Rank(T, n) = i
<1>1. IsFiniteSet(T) /\ Cardinality(T) \in Nat
  BY CountUpTo
<1> DEFINE UpTo(n) == {m \in T : m <= n}
<1>2. \A n : IsFiniteSet(UpTo(n)) /\ Cardinality(UpTo(n)) \in Nat
             /\ Cardinality(UpTo(n)) <= Cardinality(T)
  <2> SUFFICES ASSUME NEW n
               PROVE  IsFiniteSet(UpTo(n)) /\ Cardinality(UpTo(n)) \in Nat
                      /\ Cardinality(UpTo(n)) <= Cardinality(T)
    OBVIOUS
  <2>1. UpTo(n) \in SUBSET T
    OBVIOUS
  <2> HIDE DEF UpTo
  <2> QED BY <1>1, <2>1, FS_Subset, FS_CardinalityType
<1>3. \A n \in T : Rank(T, n) \in 1 .. Cardinality(T)
  <2> SUFFICES ASSUME NEW n \in T PROVE Rank(T, n) \in 1 .. Cardinality(T)
    OBVIOUS
  <2>1. n \in UpTo(n)
    OBVIOUS
  <2>2. Rank(T, n) = Cardinality(UpTo(n))
    BY DEF Rank
  <2> HIDE DEF UpTo
  <2>3. Cardinality(UpTo(n)) # 0
    BY <1>2, <2>1, FS_EmptySet
  <2> QED BY <1>1, <1>2, <2>2, <2>3
<1>4. \A m, n \in T : m < n => Rank(T, m) # Rank(T, n)
  <2> SUFFICES ASSUME NEW m \in T, NEW n \in T, m < n PROVE Rank(T, m) # Rank(T, n)
    OBVIOUS
  <2>0. \A x \in T : x \in Int
    OBVIOUS
  <2>1. UpTo(m) \in SUBSET UpTo(n) /\ n \in UpTo(n) /\ n \notin UpTo(m)
    <3>1. \A x \in T : x <= m => x <= n
      BY <2>0
    <3>2. n <= n /\ ~(n <= m)
      BY <2>0
    <3> QED BY <3>1, <3>2
  <2>2. Rank(T, m) = Cardinality(UpTo(m)) /\ Rank(T, n) = Cardinality(UpTo(n))
    BY DEF Rank
  <2> HIDE DEF UpTo
  <2>3. Cardinality(UpTo(n)) = Cardinality(UpTo(m)) => UpTo(n) = UpTo(m)
    BY <1>2, <2>1, FS_Subset
  <2> QED BY <2>1, <2>2, <2>3
<1>5. \A m, n \in T : Rank(T, m) = Rank(T, n) => m = n
  BY <1>4
<1> DEFINE C == 1 .. Cardinality(T)
           f == [n \in T |-> Rank(T, n)]
<1>6. f \in Injection(T, C)
  BY <1>3, <1>5 DEF Injection, IsInjective
<1>7. IsFiniteSet(C) /\ Cardinality(C) = Cardinality(T)
  <2>1. \A n \in Nat : IsFiniteSet(1 .. n) /\ Cardinality(1 .. n) = n
    BY FS_Interval
  <2> QED BY <2>1, <1>1
<1>8. f \in Surjection(T, C)
  <2> HIDE DEF f, C
  <2> QED BY <1>6, <1>7, FS_Injection
<1>9. \A i \in C : \E n \in T : f[n] = i
  BY <1>8 DEF Surjection
<1> QED BY <1>1, <1>3, <1>5, <1>9

\* What is left of a line without the blanks at its end is a line.
LEMMA TrimmedType ==
    ASSUME NEW line \in Seq(Char)
    PROVE  Trimmed(line) \in Seq(Char)
<1> DEFINE kept == {k \in DOMAIN line : \E j \in k .. Len(line) : line[j] \notin Blank}
<1>1. kept \in SUBSET (1 .. Len(line)) /\ Len(line) \in Nat
  OBVIOUS
<1>2. Trimmed(line) = SubSeq(line, 1, Cardinality(kept))
  BY DEF Trimmed
<1> HIDE DEF kept
<1>3. Cardinality(kept) \in 0 .. Len(line)
  BY <1>1, CountUpTo
<1> DEFINE n == Cardinality(kept)
<1>4. n \in Nat /\ n <= Len(line)
  BY <1>1, <1>3
<1> HIDE DEF n
<1>5. SubSeq(line, 1, n) \in Seq(Char)
  BY <1>4, SubSeqFacts
<1> QED BY <1>2, <1>5 DEF n

\* The hits of a file are its matching lines, trimmed, each once.
LEMMA HitsFacts ==
    ASSUME NEW path \in Input, NEW text \in Seq(Seq(Char))
    PROVE  /\ Hits(path, text) \in Seq(Line)
           /\ Distinct(Hits(path, text))
           /\ \A i \in 1 .. Len(Hits(path, text)) : \E n \in 1 .. Len(text) :
                 /\ Matches(text[n])
                 /\ Hits(path, text)[i] = OutputLine(path, n, Trimmed(text[n]))
           /\ \A n \in 1 .. Len(text) : Matches(text[n]) =>
                 \E i \in 1 .. Len(Hits(path, text)) :
                    Hits(path, text)[i] = OutputLine(path, n, Trimmed(text[n]))
<1> DEFINE found == {n \in DOMAIN text : Matches(text[n])}
           At(i) == CHOOSE m \in found : Rank(found, m) = i
           c == Cardinality(found)
           hits == Hits(path, text)
<1>1. found \in SUBSET (1 .. Len(text)) /\ Len(text) \in Nat
  OBVIOUS
<1>2. hits = [i \in 1 .. c |-> OutputLine(path, At(i), Trimmed(text[At(i)]))]
  BY DEF Hits, Rank
<1>3. \A n \in found : n \in 1 .. Len(text) /\ Matches(text[n])
  OBVIOUS
<1>4. \A n \in 1 .. Len(text) : Matches(text[n]) => n \in found
  OBVIOUS
<1> HIDE DEF found, hits
<1>5. /\ c \in Nat
      /\ \A n \in found : Rank(found, n) \in 1 .. c
      /\ \A m, n \in found : Rank(found, m) = Rank(found, n) => m = n
      /\ \A i \in 1 .. c : \E n \in found : Rank(found, n) = i
  BY <1>1, Ranks
<1> HIDE DEF c
<1>6. \A i \in 1 .. c : At(i) \in found /\ Rank(found, At(i)) = i
  BY <1>5
<1>7. \A n \in found : At(Rank(found, n)) = n
  BY <1>5
<1> HIDE DEF At
<1>8. \A n \in found : OutputLine(path, n, Trimmed(text[n])) \in Line
                       /\ OutputLine(path, n, Trimmed(text[n])).n = n
  <2> SUFFICES ASSUME NEW n \in found PROVE OutputLine(path, n, Trimmed(text[n])) \in Line
                                            /\ OutputLine(path, n, Trimmed(text[n])).n = n
    OBVIOUS
  <2>1. n \in Nat /\ text[n] \in Seq(Char)
    BY <1>1, <1>3
  <2> QED BY <2>1, TrimmedType, OutputLineType
<1>9. hits \in Seq(Line) /\ Len(hits) = c
  <2>1. hits \in [1 .. c -> Line]
    BY <1>2, <1>6, <1>8
  <2> QED BY <2>1, <1>5
<1>10. \A i \in 1 .. c : hits[i] = OutputLine(path, At(i), Trimmed(text[At(i)]))
  BY <1>2
<1>11. Distinct(hits)
  <2> SUFFICES ASSUME NEW i \in 1 .. c, NEW j \in 1 .. c, hits[i] = hits[j] PROVE i = j
    BY <1>9 DEF Distinct
  <2>1. At(i) = At(j)
    BY <1>6, <1>8, <1>10
  <2> QED BY <2>1, <1>6
<1>12. \A i \in 1 .. c : \E n \in 1 .. Len(text) :
          Matches(text[n]) /\ hits[i] = OutputLine(path, n, Trimmed(text[n]))
  BY <1>3, <1>6, <1>10
<1>13. \A n \in found : \E i \in 1 .. c : hits[i] = OutputLine(path, n, Trimmed(text[n]))
  BY <1>5, <1>7, <1>10
<1>14. \A n \in 1 .. Len(text) : Matches(text[n]) =>
          \E i \in 1 .. c : hits[i] = OutputLine(path, n, Trimmed(text[n]))
  BY <1>4, <1>13
<1> QED BY <1>9, <1>11, <1>12, <1>14 DEF hits

LEMMA SeenType ==
    ASSUME NEW place, tree \in [DOMAIN tree -> Entry]
    PROVE  Seen(place) \in Entry /\ FollowedEntry(tree, place) \in Entry
<1>1. Nothing \in Entry
  BY DEF Entry
<1>2. FollowedEntry(tree, place) \in Entry
  BY <1>1, EntryType DEF FollowedEntry
<1> QED BY <1>1, <1>2, EntryType DEF Seen

\* What a walk prints of a place are lines, and what search prints is numbered from 1.
LEMMA PrintedType ==
    ASSUME tree \in [DOMAIN tree -> Entry], call.place \in Seq(Name), NEW place \in Seq(Name)
    PROVE  /\ Printed(place) \in Seq(Line)
           /\ call.op = "search" => \A i \in 1 .. Len(Printed(place)) : Printed(place)[i].n # 0
<1>1. <<>> \in Seq(Line) /\ Len(<<>>) = 0 /\ \A i \in 1 .. 0 : FALSE
  OBVIOUS
<1>2. CASE call.op = "search" /\ Seen(place).kind = "file" /\ Readable(place)
  <2> DEFINE text == Seen(place).text
             hits == Hits(Shown(place), text)
  <2>1. text \in Seq(Seq(Char)) /\ Shown(place) \in Input
    BY <1>2, SeenType, FileText, ShownType
  <2>2. Printed(place) = hits
    BY <1>2 DEF Printed
  <2> HIDE DEF text
  <2>3. /\ hits \in Seq(Line)
        /\ \A i \in 1 .. Len(hits) :
              \E n \in 1 .. Len(text) : hits[i] = OutputLine(Shown(place), n, Trimmed(text[n]))
    BY <2>1, HitsFacts
  <2> HIDE DEF hits
  <2>4. \A n \in 1 .. Len(text) : OutputLine(Shown(place), n, Trimmed(text[n])).n # 0
    <3> SUFFICES ASSUME NEW n \in 1 .. Len(text)
                 PROVE  OutputLine(Shown(place), n, Trimmed(text[n])).n # 0
      OBVIOUS
    <3>1. n \in Nat /\ n # 0 /\ text[n] \in Seq(Char)
      BY <2>1
    <3> QED BY <3>1, <2>1, TrimmedType, OutputLineType
  <2> QED BY <2>2, <2>3, <2>4
<1>3. CASE call.op = "search" /\ ~(Seen(place).kind = "file" /\ Readable(place))
  BY <1>1, <1>3 DEF Printed
<1>4. CASE call.op # "search" /\ (place = call.place \/ Seen(place).kind = "none")
  BY <1>1, <1>4 DEF Printed
<1>5. CASE call.op # "search" /\ ~(place = call.place \/ Seen(place).kind = "none")
  <2> DEFINE s == SubSeq(place, Len(call.place) + 1, Len(place))
             path == [abs |-> FALSE, parts |-> s]
             line == OutputLine(path, 0, <<>>)
  <2>1. s \in Seq(Name)
    <3>1. Len(call.place) + 1 \in Nat /\ Len(call.place) + 1 >= 1 /\ Len(place) \in Nat
      OBVIOUS
    <3> QED BY <3>1, SubSeqFacts
  <2>2. s \in Seq(Part)
    BY <2>1 DEF Part
  <2> HIDE DEF s
  <2>3. path \in Input
    BY <2>2 DEF Input
  <2> HIDE DEF path
  <2>4. <<>> \in Seq(Char) /\ 0 \in Nat
    OBVIOUS
  <2>5. line \in Line
    BY <2>3, <2>4, OutputLineType
  <2> HIDE DEF line
  <2>6. Printed(place) = <<line>>
    BY <1>5 DEF Printed, line, path, s
  <2> QED BY <2>5, <2>6, <1>5
<1> QED BY <1>2, <1>3, <1>4, <1>5

-----------------------------------------------------------------------------
(* The steps and IInv. *)

\* What IInv says of a call in flight.
LEMMA InFlight ==
    ASSUME IInv, call.pc \notin {"idle", "done"}
    PROVE  /\ DOMAIN call = DOMAIN Idle
           /\ call.input \in Input /\ call.input # None
           /\ call.op \in {"read_file", "list_dir", "search"}
           /\ call.op = "read_file" => call.offset \in Nat
           /\ call.op # "read_file" => call.limit \in Nat
           /\ {call.offset, call.limit} \subseteq Nat \cup {None}
           /\ call.answer = None
           /\ call.walk \in Underway
           /\ call.trailing \in Seq(Name) /\ call.todo \subseteq Seq(Name)
           /\ call.place \in Seq(Name) \cup {None}
           /\ call.pc # "lexical" => call.place \in Seq(Name)
           /\ call.pc \in {"read", "present", "walk"} => Under(call.place)
           /\ {call.out, pages} \subseteq Seq(Line)
           /\ tree \in [DOMAIN tree -> Entry]
BY DEF IInv, TypeOK, WellFormed, PlacesStayUnder, Resolved

\* A step of a call that goes on: what it must give its record.
LEMMA GoesOn ==
    ASSUME IInv, UNCHANGED <<tree, changes, pages, hit>>, call.pc \notin {"idle", "done"},
           DOMAIN call' = DOMAIN call,
           call'.op = call.op, call'.input = call.input,
           call'.offset = call.offset, call'.limit = call.limit,
           call'.pc \in {"ancestor", "canonicalize", "read", "present", "walk"},
           call'.pc = "read" => call.op = "read_file",
           call'.pc \in {"present", "walk"} => call.op # "read_file",
           call'.answer = call.answer,
           call'.walk \in Underway,
           call'.trailing \in Seq(Name),
           call'.todo \subseteq Seq(Name),
           call'.place \in Seq(Name),
           call'.pc \in {"read", "present", "walk"} => Under(call'.place),
           call'.out \in Seq(Line),
           call'.pc # "walk" => call'.out = <<>>,
           call'.op = "search" => \A i \in 1 .. Len(call'.out) : call'.out[i].n # 0
    PROVE  IInv'
<1>1. call'.walk \in WalkRecord
  BY DEF Underway
<1>2. TypeOK'
  BY <1>1 DEF IInv, TypeOK
<1>3. WellFormed'
  BY RootAssumption, InFlight DEF IInv, WellFormed
<1>4. PlacesStayUnder'
  <2>1. None \notin {"ok", "stopped"}
    BY PathToolsAssumption DEF Answered
  <2> QED BY <2>1, InFlight DEF PlacesStayUnder, Resolved
<1> QED BY <1>2, <1>3, <1>4 DEF IInv

\* A call that is answered.
LEMMA AnswersIs ==
    ASSUME IInv, NEW answer, NEW out, Answers(answer, out)
    PROVE  /\ DOMAIN call' = DOMAIN Idle /\ call'.pc = "done" /\ call'.answer = answer
           /\ call'.todo = {} /\ call'.out = out /\ call'.op = call.op
           /\ call'.input = call.input /\ call'.offset = call.offset
           /\ call'.limit = call.limit /\ call'.place = call.place
           /\ call'.trailing = call.trailing /\ call'.walk = call.walk
BY DEF Answers, IInv, WellFormed, Idle

\* A step that answers a call with lines only once its place is under the root.
LEMMA IsAnswered ==
    ASSUME IInv, UNCHANGED <<tree, changes, hit>>, call.pc \notin {"idle", "done"},
           NEW answer \in Answered, NEW out \in Seq(Line), Answers(answer, out),
           answer \in {"ok", "stopped"} => Under(call.place),
           call.op = "search" => \A i \in 1 .. Len(out) : out[i].n # 0,
           pages' \in Seq(Line)
    PROVE  IInv'
<1>1. /\ DOMAIN call' = DOMAIN Idle /\ call'.pc = "done" /\ call'.answer = answer
      /\ call'.todo = {} /\ call'.out = out /\ call'.op = call.op
      /\ call'.input = call.input /\ call'.offset = call.offset
      /\ call'.limit = call.limit /\ call'.place = call.place
      /\ call'.trailing = call.trailing /\ call'.walk = call.walk
  BY AnswersIs
<1>2. TypeOK'
  BY <1>1 DEF IInv, TypeOK
<1>3. WellFormed'
  BY <1>1 DEF IInv, WellFormed
<1>4. PlacesStayUnder'
  BY <1>1 DEF PlacesStayUnder, Resolved
<1> QED BY <1>2, <1>3, <1>4 DEF IInv

\* A call that has just begun.
LEMMA CallIs ==
    ASSUME NEW op, NEW input, NEW offset, NEW limit, Call(op, input, offset, limit)
    PROVE  /\ DOMAIN call' = DOMAIN Idle /\ call'.pc = "lexical" /\ call'.op = op
           /\ call'.input = input /\ call'.offset = offset /\ call'.limit = limit
           /\ call'.walk = Walk(<<>>) /\ call'.trailing = <<>> /\ call'.place = None
           /\ call'.todo = {} /\ call'.out = <<>> /\ call'.answer = None
BY DEF Call, Idle

LEMMA Begins ==
    ASSUME IInv, UNCHANGED <<tree, changes, pages>>,
           NEW op \in {"read_file", "list_dir", "search"}, NEW input \in Input,
           NEW offset \in Nat \cup {None}, NEW limit \in Nat \cup {None},
           op = "read_file" => offset \in Nat, op # "read_file" => limit \in Nat,
           Call(op, input, offset, limit), hit' \in Line \cup {None},
           hit' # None => op = "read_file"
    PROVE  IInv'
<1>1. /\ DOMAIN call' = DOMAIN Idle /\ call'.pc = "lexical" /\ call'.op = op
      /\ call'.input = input /\ call'.offset = offset /\ call'.limit = limit
      /\ call'.walk = Walk(<<>>) /\ call'.trailing = <<>> /\ call'.place = None
      /\ call'.todo = {} /\ call'.out = <<>> /\ call'.answer = None
  BY CallIs
<1>2. Walk(<<>>) \in Underway /\ Walk(<<>>) \in WalkRecord
  <2>1. <<>> \in Seq(Part)
    OBVIOUS
  <2> QED BY <2>1, WalkType DEF Underway
<1>3. input # None /\ None \notin Nat /\ None \notin {"ok", "stopped"}
  <2>1. \A x \in {"ok", "stopped"} : x \in Answered
    BY DEF Answered
  <2>2. None \notin Nat /\ None \notin Input /\ None \notin Answered
    BY PathToolsAssumption
  <2> QED BY <2>1, <2>2
<1>4. <<>> \in Seq(Name) /\ <<>> \in Seq(Line) /\ Len(<<>>) = 0 /\ \A i \in 1 .. 0 : FALSE
  OBVIOUS
<1>5. TypeOK'
  BY <1>1, <1>2, <1>4 DEF IInv, TypeOK
<1>6. WellFormed'
  BY <1>1, <1>2, <1>3, <1>4 DEF IInv, WellFormed
<1>7. PlacesStayUnder'
  BY <1>1, <1>3 DEF PlacesStayUnder, Resolved
<1> QED BY <1>5, <1>6, <1>7 DEF IInv

LEMMA LooksUpStep == IInv /\ LooksUp => IInv'
<1> SUFFICES ASSUME IInv, LooksUp PROVE IInv'
  OBVIOUS
<1> DEFINE place == Lexical(Joined(call.input))
<1>1. call.pc = "lexical" /\ call.input \in Input /\ place # None
  BY InFlight DEF LooksUp
<1>2. place \in Seq(Name)
  BY <1>1, JoinedType, LexicalType
<1>3. /\ call' = [call EXCEPT !.pc = "ancestor", !.place = place]
      /\ UNCHANGED <<tree, changes, pages, hit>>
  BY DEF LooksUp
<1> HIDE DEF place
<1>4. DOMAIN call = DOMAIN Idle /\ call.out = <<>> /\ call.out \in Seq(Line)
  BY <1>1 DEF IInv, WellFormed, TypeOK
<1>5. \A i \in 1 .. Len(<<>>) : FALSE
  OBVIOUS
<1> QED BY <1>1, <1>2, <1>3, <1>4, <1>5, InFlight, GoesOn DEF Idle

\* Nothing is printed before a walk.
LEMMA NotYetPrinted ==
    ASSUME IInv, call.pc \notin {"walk", "done"}
    PROVE  /\ call.out = <<>> /\ call.out \in Seq(Line)
           /\ \A i \in 1 .. Len(call.out) : call.out[i].n # 0
<1>1. call.out = <<>> /\ call.out \in Seq(Line)
  BY DEF IInv, WellFormed, TypeOK
<1>2. \A i \in 1 .. Len(<<>>) : FALSE
  OBVIOUS
<1> QED BY <1>1, <1>2

LEMMA GoesUpStep == IInv /\ GoesUp => IInv'
<1> SUFFICES ASSUME IInv, GoesUp PROVE IInv'
  OBVIOUS
<1>1. call.pc = "ancestor" /\ call.place \in Seq(Name) /\ call.place # <<>>
  BY InFlight DEF GoesUp, Lstat
<1>2. Front(call.place) \in Seq(Name) /\ Last(call.place) \in Name
  BY <1>1, FrontFacts
<1>3. <<Last(call.place)>> \o call.trailing \in Seq(Name)
  BY <1>1, <1>2, InFlight
<1> DEFINE place == Front(call.place)
           trailing == <<Last(call.place)>> \o call.trailing
<1>4. /\ call' = [call EXCEPT !.place = place, !.trailing = trailing]
      /\ UNCHANGED <<tree, changes, pages, hit>>
  BY DEF GoesUp
<1>5. place \in Seq(Name) /\ trailing \in Seq(Name)
  BY <1>2, <1>3
<1> HIDE DEF place, trailing
<1> QED BY <1>1, <1>4, <1>5, InFlight, NotYetPrinted, GoesOn DEF Idle

LEMMA FindsAncestorStep == IInv /\ FindsAncestor => IInv'
<1> SUFFICES ASSUME IInv, FindsAncestor PROVE IInv'
  OBVIOUS
<1>1. call.pc = "ancestor" /\ call.place \in Seq(Name)
  BY InFlight DEF FindsAncestor
<1>2. call.place \in Seq(Part)
  BY <1>1 DEF Part
<1>3. /\ call' = [call EXCEPT !.pc = "canonicalize", !.walk = Walk(call.place)]
      /\ UNCHANGED <<tree, changes, pages, hit>> /\ Walk(call.place) \in Underway
  BY <1>2, WalkType DEF FindsAncestor
<1> QED BY <1>1, <1>3, InFlight, NotYetPrinted, GoesOn DEF Idle

LEMMA CanonicalizesStep == IInv /\ Canonicalizes => IInv'
<1> SUFFICES ASSUME IInv, Canonicalizes PROVE IInv'
  OBVIOUS
<1> DEFINE walk == WalkPart(tree, call.walk)
<1>1. /\ call.pc = "canonicalize" /\ ~call.walk.end
      /\ UNCHANGED <<tree, changes, pages, hit>>
      /\ call' = [call EXCEPT !.walk = walk]
  BY DEF Canonicalizes
<1>2. walk \in Underway
  BY <1>1, InFlight, WalkPartType
<1> HIDE DEF walk
<1> QED BY <1>1, <1>2, InFlight, NotYetPrinted, GoesOn DEF Idle

\* Here the place is checked: what is appended to it are names.
LEMMA ResolvesStep == IInv /\ Resolves => IInv'
<1> SUFFICES ASSUME IInv, Resolves PROVE IInv'
  OBVIOUS
<1> DEFINE place == call.walk.at \o call.trailing
           pc == IF call.op = "read_file" THEN "read" ELSE "present"
<1>1. call.pc = "canonicalize" /\ call.walk.at # None /\ Under(call.walk.at)
      /\ UNCHANGED <<tree, changes, pages, hit>>
  BY DEF Resolves
<1>2. call.walk.at \in Seq(Name) /\ call.trailing \in Seq(Name)
  BY <1>1, InFlight DEF Underway, WalkRecord
<1>3. place \in Seq(Name) /\ Under(place)
  BY <1>1, <1>2, UnderExtends
<1>4. call' = [call EXCEPT !.pc = pc, !.place = place]
  BY DEF Resolves, GoesOnAt
<1>5. /\ pc = "read" => call.op = "read_file"
      /\ pc \in {"present", "walk"} => call.op # "read_file"
      /\ pc \in {"read", "present"}
  OBVIOUS
<1> HIDE DEF place, pc
<1> QED BY <1>1, <1>3, <1>4, <1>5, InFlight, NotYetPrinted, GoesOn DEF Idle

\* No line is a well-formed answer to any call.
LEMMA NoLines ==
    <<>> \in Seq(Line) /\ \A i \in 1 .. Len(<<>>) : <<>>[i].n # 0
<1>1. \A i \in 1 .. Len(<<>>) : FALSE
  OBVIOUS
<1> QED BY <1>1

\* Root::resolve refuses.
LEMMA RefusalSteps == IInv /\ (Escapes \/ CannotResolve \/ LeadsOut) => IInv'
<1> SUFFICES ASSUME IInv, Escapes \/ CannotResolve \/ LeadsOut PROVE IInv'
  OBVIOUS
<1>1. call.pc \in {"lexical", "canonicalize"} /\ UNCHANGED <<tree, changes, pages, hit>>
      /\ (Answers("escape", <<>>) \/ Answers("cannot_resolve", <<>>))
  BY DEF Escapes, CannotResolve, LeadsOut, Refuses
<1>2. pages' \in Seq(Line) /\ {"escape", "cannot_resolve"} \subseteq Answered
  BY <1>1, InFlight DEF Answered
<1> QED BY <1>1, <1>2, NoLines, IsAnswered

\* A text is answered whole, cut, or not at all.
LEMMA TextIsAnswered ==
    ASSUME NEW answer, NEW out \in Seq(Line), AnswersText(answer, out)
    PROVE  \E a \in {answer, "truncated", "panicked"}, o \in Seq(Line) :
              /\ Answers(a, o)
              /\ a = answer => o = out \/ answer \in {"truncated", "panicked"}
              /\ \E k \in 0 .. Len(out) : o = First(out, k)
<1>1. CASE Answers(answer, out)
  <2>1. Len(out) \in 0 .. Len(out) /\ out = First(out, Len(out))
    BY FirstAfter
  <2> QED BY <1>1, <2>1
<1>2. CASE Answers("truncated", WholeLines(out))
  <2>1. PICK k \in 0 .. Len(out) : WholeLines(out) = First(out, k)
    BY WholeLinesAreFirst
  <2>2. WholeLines(out) \in Seq(Line)
    BY <2>1, FirstFacts
  <2> QED BY <1>2, <2>1, <2>2
<1>3. CASE Answers("panicked", <<>>)
  <2>1. 0 \in 0 .. Len(out) /\ First(out, 0) = <<>> /\ <<>> \in Seq(Line)
    BY FirstAfter
  <2> QED BY <1>3, <2>1
<1> QED BY <1>1, <1>2, <1>3 DEF AnswersText

\* ... and the step of a call so answered.
LEMMA TextStep ==
    ASSUME IInv, UNCHANGED <<tree, changes, hit>>, call.pc \in {"read", "walk"},
           NEW answer \in {"ok", "stopped"}, NEW out \in Seq(Line), AnswersText(answer, out),
           call.op = "search" => \A i \in 1 .. Len(out) : out[i].n # 0,
           pages' = pages \/ pages' = pages \o call'.out
    PROVE  IInv'
<1>1. PICK a \in {answer, "truncated", "panicked"}, o \in Seq(Line) :
         /\ Answers(a, o)
         /\ \E k \in 0 .. Len(out) : o = First(out, k)
  BY TextIsAnswered
<1>2. Under(call.place) /\ pages \in Seq(Line)
  BY InFlight
<1>3. a \in Answered
  BY DEF Answered
<1>4. call'.out = o
  BY <1>1, AnswersIs
<1>5. pages' \in Seq(Line)
  <2>1. pages \o o \in Seq(Line)
    BY <1>2
  <2> QED BY <2>1, <1>2, <1>4
<1>6. call.op = "search" => \A i \in 1 .. Len(o) : o[i].n # 0
  <2>1. PICK k \in 0 .. Len(out) : o = First(out, k)
    BY <1>1
  <2>2. Len(o) = k /\ \A i \in 1 .. k : o[i] = out[i] /\ i \in 1 .. Len(out)
    BY <2>1, FirstFacts
  <2> QED BY <2>2
<1> QED BY <1>1, <1>2, <1>3, <1>5, <1>6, IsAnswered

\* What a read comes to.
LEMMA ReadCases ==
    ASSUME Read
    PROVE  LET entry == FollowedEntry(tree, call.place)
           IN  /\ call.pc = "read" /\ UNCHANGED <<tree, changes, hit>>
               /\ \/ /\ entry.kind # "file" \/ ~Readable(call.place)
                     /\ Refuses("refused") /\ UNCHANGED pages
                  \/ /\ entry.kind = "file" /\ call.offset >= Len(entry.text)
                     /\ entry.text # <<>> /\ Refuses("past_the_end") /\ UNCHANGED pages
                  \/ /\ entry.kind = "file" /\ Readable(call.place)
                     /\ ~(call.offset >= Len(entry.text) /\ entry.text # <<>>)
                     /\ AnswersText("ok", Page(entry.text)) /\ pages' = pages \o call'.out
<1> DEFINE entry == FollowedEntry(tree, call.place)
           isRead == entry.kind = "file" /\ Readable(call.place)
           past  == call.offset >= Len(entry.text) /\ entry.text # <<>>
<1>1. call.pc = "read" /\ UNCHANGED <<tree, changes, hit>>
  BY DEF Read
<1>2. CASE ~isRead
  BY <1>1, <1>2 DEF Read
<1>3. CASE isRead /\ past
  BY <1>1, <1>3 DEF Read
<1>4. CASE isRead /\ ~past
  BY <1>1, <1>4 DEF Read
<1> QED BY <1>2, <1>3, <1>4

LEMMA ReadStep == IInv /\ Read => IInv'
<1> SUFFICES ASSUME IInv, Read PROVE IInv'
  OBVIOUS
<1> DEFINE entry == FollowedEntry(tree, call.place)
<1>1. call.pc = "read" /\ UNCHANGED <<tree, changes, hit>> /\ call.op = "read_file"
  BY ReadCases DEF IInv, WellFormed
<1>2. \/ /\ Refuses("refused") \/ Refuses("past_the_end")
         /\ UNCHANGED pages
      \/ /\ entry.kind = "file"
         /\ AnswersText("ok", Page(entry.text)) /\ pages' = pages \o call'.out
  BY ReadCases
<1>3. entry \in Entry
  BY <1>1, InFlight, SeenType
<1> HIDE DEF entry
<1>4. CASE (Refuses("refused") \/ Refuses("past_the_end")) /\ UNCHANGED pages
  <2>1. pages' \in Seq(Line) /\ {"refused", "past_the_end"} \subseteq Answered
    BY <1>1, <1>4, InFlight DEF Answered
  <2> QED BY <1>1, <1>4, <2>1, NoLines, IsAnswered DEF Refuses
<1>5. CASE /\ entry.kind = "file"
           /\ AnswersText("ok", Page(entry.text)) /\ pages' = pages \o call'.out
  <2>1. Page(entry.text) \in Seq(Line)
    <3>1. entry.text \in Seq(Seq(Char))
      BY <1>3, <1>5, FileText
    <3>2. call.offset \in Nat /\ call.limit \in Nat \cup {None} /\ call.place \in Seq(Name)
      BY <1>1, InFlight
    <3> QED BY <3>1, <3>2, PageFacts
  <2> QED BY <1>1, <1>5, <2>1, TextStep
<1> QED BY <1>2, <1>4, <1>5

LEMMA PresentsStep == IInv /\ Presents => IInv'
<1> SUFFICES ASSUME IInv, Presents PROVE IInv'
  OBVIOUS
<1>1. call.pc = "present" /\ UNCHANGED <<tree, changes, pages, hit>>
  BY DEF Presents
<1>2. \/ Refuses("refused")
      \/ call' = [call EXCEPT !.pc = "walk", !.todo = {call.place}]
  BY DEF Presents
<1>3. CASE Refuses("refused")
  <2>1. pages' \in Seq(Line) /\ "refused" \in Answered
    BY <1>1, InFlight DEF Answered
  <2> QED BY <1>1, <1>3, <2>1, NoLines, IsAnswered DEF Refuses
<1>4. CASE call' = [call EXCEPT !.pc = "walk", !.todo = {call.place}]
  <2>1. call.op # "read_file" /\ call.place \in Seq(Name) /\ Under(call.place)
    BY <1>1, InFlight DEF IInv, WellFormed
  <2> QED BY <1>1, <1>4, <2>1, InFlight, NotYetPrinted, GoesOn DEF Idle
<1> QED BY <1>2, <1>3, <1>4

\* What a visit comes to: the lines so far, all of them or up to the limit.
LEMMA VisitCases ==
    ASSUME IInv, NEW place, Visits(place)
    PROVE  LET out == call.out \o Printed(place)
               some == IF call.limit >= 1 THEN call.limit ELSE 1
           IN  /\ call.pc = "walk" /\ place \in call.todo /\ place \in Seq(Name)
               /\ UNCHANGED <<tree, changes, pages, hit>>
               /\ call.out \in Seq(Line) /\ Printed(place) \in Seq(Line) /\ out \in Seq(Line)
               /\ call.op = "search" => \A i \in 1 .. Len(out) : out[i].n # 0
               /\ \/ /\ call.op = "search" /\ some \in 1 .. Len(out)
                     /\ AnswersText("stopped", First(out, some))
                  \/ /\ call.op = "search" => Printed(place) = <<>> \/ Len(out) < call.limit
                     /\ call' = [call EXCEPT !.out = out,
                                             !.todo = (call.todo \ {place}) \cup Below(place)]
<1> DEFINE out == call.out \o Printed(place)
           some == IF call.limit >= 1 THEN call.limit ELSE 1
           full == Full(out, place)
<1>1. /\ call.pc = "walk" /\ place \in call.todo /\ UNCHANGED <<tree, changes, pages, hit>>
      /\ IF full THEN AnswersText("stopped", SubSeq(out, 1, Max({call.limit, 1})))
         ELSE call' = [call EXCEPT !.out = out,
                                   !.todo = (call.todo \ {place}) \cup Below(place)]
  BY DEF Visits
<1>2. /\ place \in Seq(Name) /\ call.out \in Seq(Line) /\ call.place \in Seq(Name)
      /\ tree \in [DOMAIN tree -> Entry] /\ call.limit \in Nat
  BY <1>1, InFlight DEF IInv, WellFormed
<1>3. /\ Printed(place) \in Seq(Line)
      /\ call.op = "search" => \A i \in 1 .. Len(Printed(place)) : Printed(place)[i].n # 0
  BY <1>2, PrintedType
<1>4. out \in Seq(Line) /\ Len(out) = Len(call.out) + Len(Printed(place))
  BY <1>2, <1>3
<1>5. ASSUME call.op = "search", NEW i \in 1 .. Len(out)
      PROVE  out[i].n # 0
  <2>1. \A k \in 1 .. Len(call.out) : call.out[k].n # 0
    BY <1>5 DEF IInv, WellFormed
  <2>2. CASE i \in 1 .. Len(call.out)
    <3>1. out[i] = call.out[i]
      BY <2>2, <1>2, <1>3
    <3> QED BY <2>1, <2>2, <3>1
  <2>3. CASE i \notin 1 .. Len(call.out)
    <3>1. i - Len(call.out) \in 1 .. Len(Printed(place))
          /\ out[i] = Printed(place)[i - Len(call.out)]
      BY <2>3, <1>2, <1>3, <1>4
    <3> QED BY <3>1, <1>3, <1>5
  <2> QED BY <2>2, <2>3
<1>6. full <=> call.op = "search" /\ Printed(place) # <<>> /\ Len(out) >= call.limit
  BY DEF Full
<1>7. Max({call.limit, 1}) = some
  <2>1. call.limit \in Int /\ 1 \in Int
    BY <1>2
  <2>2. Max({call.limit, 1}) = IF call.limit >= 1 THEN call.limit ELSE 1
    BY <2>1, OfTwo
  <2> QED BY <2>2
<1>8. Len(out) \in Nat /\ (Printed(place) # <<>> => Len(out) >= 1)
  BY <1>2, <1>3, <1>4
<1> HIDE DEF out, full, some
<1>9. full => some \in 1 .. Len(out)
  BY <1>2, <1>6, <1>8 DEF some
<1>10. SubSeq(out, 1, Max({call.limit, 1})) = First(out, some)
  BY <1>7 DEF First
<1>11. ~full => (call.op = "search" => Printed(place) = <<>> \/ Len(out) < call.limit)
  BY <1>2, <1>6, <1>8
<1>12. \/ call.op = "search" /\ some \in 1 .. Len(out) /\ AnswersText("stopped", First(out, some))
       \/ /\ call.op = "search" => Printed(place) = <<>> \/ Len(out) < call.limit
          /\ call' = [call EXCEPT !.out = out,
                                  !.todo = (call.todo \ {place}) \cup Below(place)]
  BY <1>1, <1>6, <1>9, <1>10, <1>11
<1> QED BY <1>1, <1>2, <1>3, <1>4, <1>5, <1>12 DEF out, some

LEMMA VisitsStep == ASSUME NEW place PROVE IInv /\ Visits(place) => IInv'
<1> SUFFICES ASSUME IInv, Visits(place) PROVE IInv'
  OBVIOUS
<1> DEFINE out == call.out \o Printed(place)
           some == IF call.limit >= 1 THEN call.limit ELSE 1
           todo == (call.todo \ {place}) \cup Below(place)
<1>1. /\ call.pc = "walk" /\ place \in Seq(Name) /\ UNCHANGED <<tree, changes, pages, hit>>
      /\ out \in Seq(Line)
      /\ call.op = "search" => \A i \in 1 .. Len(out) : out[i].n # 0
      /\ \/ some \in 1 .. Len(out) /\ AnswersText("stopped", First(out, some))
         \/ call' = [call EXCEPT !.out = out, !.todo = todo]
  BY VisitCases
<1>2. todo \subseteq Seq(Name)
  <2>1. \A name \in Name : Append(place, name) \in Seq(Name)
    BY <1>1
  <2>2. Below(place) \subseteq Seq(Name)
    BY <2>1 DEF Below
  <2> QED BY <2>2, <1>1, InFlight
<1> HIDE DEF out, some, todo
<1>3. CASE some \in 1 .. Len(out) /\ AnswersText("stopped", First(out, some))
  <2>1. some \in 0 .. Len(out)
    BY <1>3
  <2>2. /\ First(out, some) \in Seq(Line) /\ Len(First(out, some)) = some
        /\ \A i \in 1 .. some : First(out, some)[i] = out[i]
    BY <2>1, <1>1, FirstFacts
  <2>3. \A i \in 1 .. some : i \in 1 .. Len(out)
    BY <1>3
  <2>4. call.op = "search" =>
           \A i \in 1 .. Len(First(out, some)) : First(out, some)[i].n # 0
    BY <1>1, <2>2, <2>3
  <2> QED BY <1>1, <1>3, <2>2, <2>4, TextStep
<1>4. CASE call' = [call EXCEPT !.out = out, !.todo = todo]
  <2>1. call.op # "read_file" /\ call.place \in Seq(Name) /\ Under(call.place)
    BY <1>1, InFlight DEF IInv, WellFormed
  <2> QED BY <1>1, <1>2, <1>4, <2>1, InFlight, GoesOn DEF Idle
<1> QED BY <1>1, <1>3, <1>4

LEMMA WalkEndsStep == IInv /\ WalkEnds => IInv'
<1> SUFFICES ASSUME IInv, WalkEnds PROVE IInv'
  OBVIOUS
<1>1. /\ call.pc = "walk" /\ AnswersText("ok", call.out)
      /\ UNCHANGED <<tree, changes, pages, hit>>
  BY DEF WalkEnds
<1>2. /\ call.out \in Seq(Line)
      /\ call.op = "search" => \A i \in 1 .. Len(call.out) : call.out[i].n # 0
  BY DEF IInv, WellFormed, TypeOK
<1> QED BY <1>1, <1>2, TextStep

LEMMA CommandStep == IInv /\ Command => IInv'
<1> SUFFICES ASSUME IInv, Command PROVE IInv'
  OBVIOUS
<1> PICK change \in Change :
       tree' = [place \in DOMAIN tree |->
                  IF place = change.place THEN change.entry
                  ELSE IF IsPrefix(change.place, place) THEN Nothing ELSE tree[place]]
  BY DEF Command
<1>1. change.entry \in Entry /\ Nothing \in Entry
  BY PathToolsAssumption DEF Entry
<1>2. tree' \in [DOMAIN tree' -> Entry]
  BY <1>1 DEF IInv, TypeOK
<1>3. changes' \in 0 .. MaxChanges /\ UNCHANGED <<call, pages, hit>>
  BY PathToolsAssumption DEF Command, IInv, TypeOK
<1>4. TypeOK'
  BY <1>2, <1>3 DEF IInv, TypeOK
<1>5. WellFormed' /\ PlacesStayUnder'
  BY <1>3 DEF IInv, WellFormed, PlacesStayUnder, Resolved
<1> QED BY <1>4, <1>5 DEF IInv

\* The call a client goes on with reads the file it was reading, or the line search found.
LEMMA ReadsHitCases ==
    ASSUME IInv, ReadsHit
    PROVE  /\ call.pc = "done" /\ call.op = "search" /\ UNCHANGED <<tree, changes, pages>>
           /\ \E i \in 1 .. Len(call.out) :
                 /\ hit' = call.out[i] /\ call.out[i] \in Line
                 /\ call.out[i].path \in Input /\ call.out[i].n - 1 \in Nat
                 /\ Call("read_file", call.out[i].path, call.out[i].n - 1, 1)
<1>1. call.out \in Seq(Line) /\ call.op = "search"
  BY DEF ReadsHit, IInv, TypeOK
<1>2. PICK i \in 1 .. Len(call.out) :
         hit' = call.out[i] /\ Call("read_file", call.out[i].path, call.out[i].n - 1, 1)
  BY <1>1 DEF ReadsHit
<1>3. call.out[i] \in Line /\ call.out[i].n # 0
  BY <1>1 DEF IInv, WellFormed
<1>4. call.out[i].path \in Input /\ call.out[i].n - 1 \in Nat
  BY <1>3 DEF Line
<1> QED BY <1>1, <1>2, <1>3, <1>4 DEF ReadsHit

LEMMA AsksForMoreCases ==
    ASSUME IInv, AsksForMore
    PROVE  /\ call.pc = "done" /\ call.op = "read_file" /\ call.answer = "ok"
           /\ hit = None /\ Len(call.out) = call.limit
           /\ call.input \in Input /\ call.limit \in Nat /\ call.offset \in Nat
           /\ Call("read_file", call.input, call.offset + call.limit, call.limit)
           /\ UNCHANGED <<tree, changes, pages, hit>>
BY DEF AsksForMore, IInv, TypeOK, WellFormed

LEMMA AsksCases ==
    ASSUME Asks
    PROVE  /\ call.pc = "idle" /\ UNCHANGED <<tree, changes, pages, hit>>
           /\ \E op \in {"read_file", "list_dir", "search"}, input \in Input,
                 offset \in Nat \cup {None}, limit \in Nat \cup {None} :
                 /\ op = "read_file" => offset \in Nat
                 /\ op # "read_file" => limit \in Nat
                 /\ Call(op, input, offset, limit)
<1>1. Path \subseteq Input /\ Offset \subseteq Nat /\ Limit \subseteq Nat \cup {None}
  BY PathToolsAssumption
<1>2. PICK input \in Path :
         \/ \E offset \in Offset, limit \in Limit : Call("read_file", input, offset, limit)
         \/ \E op \in {"list_dir", "search"}, limit \in Limit \ {None} :
               Call(op, input, None, limit)
  BY DEF Asks
<1>3. CASE \E offset \in Offset, limit \in Limit : Call("read_file", input, offset, limit)
  BY <1>1, <1>3 DEF Asks
<1>4. CASE \E op \in {"list_dir", "search"}, limit \in Limit \ {None} :
              Call(op, input, None, limit)
  BY <1>1, <1>4 DEF Asks
<1> QED BY <1>2, <1>3, <1>4

LEMMA ClientSteps == IInv /\ (Asks \/ AsksForMore \/ ReadsHit) => IInv'
<1> SUFFICES ASSUME IInv, Asks \/ AsksForMore \/ ReadsHit PROVE IInv'
  OBVIOUS
<1>0. hit \in Line \cup {None} /\ (call.pc = "idle" => hit = None)
  BY DEF IInv, TypeOK, WellFormed
<1>1. CASE Asks
  BY <1>0, <1>1, AsksCases, Begins
<1>2. CASE AsksForMore
  <2>1. call.offset + call.limit \in Nat
    BY <1>2, AsksForMoreCases
  <2> QED BY <1>0, <1>2, <2>1, AsksForMoreCases, Begins
<1>3. CASE ReadsHit
  <2>1. PICK i \in 1 .. Len(call.out) :
           /\ hit' = call.out[i] /\ call.out[i] \in Line
           /\ call.out[i].path \in Input /\ call.out[i].n - 1 \in Nat
           /\ Call("read_file", call.out[i].path, call.out[i].n - 1, 1)
    BY <1>3, ReadsHitCases
  <2>2. UNCHANGED <<tree, changes, pages>>
    BY <1>3, ReadsHitCases
  <2> QED BY <2>1, <2>2, Begins
<1> QED BY <1>1, <1>2, <1>3

-----------------------------------------------------------------------------
LEMMA Initially == Init => IInv
<1> SUFFICES ASSUME Init PROVE IInv
  OBVIOUS
<1>1. call = Idle /\ changes = 0 /\ pages = <<>> /\ hit = None
      /\ tree \in [DOMAIN tree -> Entry]
  BY PathToolsAssumption DEF Init, IsTree
<1>2. <<>> \in Seq(Part) /\ <<>> \in Seq(Name) /\ <<>> \in Seq(Line)
  OBVIOUS
<1>3. Walk(<<>>) \in WalkRecord /\ Walk(<<>>) \in Underway
  BY <1>2, WalkType DEF Underway
<1>4. TypeOK
  BY <1>1, <1>2, <1>3, PathToolsAssumption DEF TypeOK, Idle
<1>5. WellFormed
  BY <1>1, <1>3, NoLines DEF WellFormed, Idle
<1>6. PlacesStayUnder
  <2>1. None \notin {"ok", "stopped"}
    BY PathToolsAssumption DEF Answered
  <2> QED BY <1>1, <2>1 DEF PlacesStayUnder, Resolved, Idle
<1> QED BY <1>4, <1>5, <1>6 DEF IInv

LEMMA Inductive == IInv /\ [Next]_vars => IInv'
<1> SUFFICES ASSUME IInv, [Next]_vars PROVE IInv'
  OBVIOUS
<1>1. CASE Resolution
  BY <1>1, RefusalSteps, LooksUpStep, GoesUpStep, FindsAncestorStep,
     CanonicalizesStep, ResolvesStep DEF Resolution
<1>2. CASE Walks
  BY <1>2, PresentsStep, VisitsStep, WalkEndsStep DEF Walks
<1>3. CASE Asks \/ AsksForMore \/ ReadsHit \/ Read \/ Command
  BY <1>3, ClientSteps, ReadStep, CommandStep
<1>4. CASE UNCHANGED vars
  BY <1>4 DEF vars, IInv, TypeOK, WellFormed, PlacesStayUnder, Resolved
<1> QED BY <1>1, <1>2, <1>3, <1>4 DEF Next

LEMMA Invariance == Spec => []IInv
<1>1. Init => IInv
  BY Initially
<1>2. IInv /\ [Next]_vars => IInv'
  BY Inductive
<1> QED BY <1>1, <1>2, PTL DEF Spec

\* A tree, a call and its walk over a path, and the lines that are printed and kept, keep
\* their types.
THEOREM TypeCorrect == Spec => []TypeOK
<1>1. IInv => TypeOK
  BY DEF IInv
<1> QED BY <1>1, Invariance, PTL

-----------------------------------------------------------------------------
(***************************************************************************)
(* While nobody changes the tree: what is true of a call at each point.     *)
(***************************************************************************)
Written == Lexical(Joined(call.input))

\* A tool has been told where its path leads.
GoneOn ==
    \/ call.pc \in {"read", "present", "walk"}
    \/ call.pc = "done" /\ call.answer \notin {"escape", "cannot_resolve"}

\* The walk up has left behind only what is not there; canonicalize walks the deepest place
\* that is; and what the call goes on with, or is refused for, is what that comes to.
Resolving ==
    /\ IsTree(tree)
    /\ call.pc \in {"ancestor", "canonicalize"} => Written # None /\ Under(Written)
    /\ call.pc = "ancestor" =>
          \E k \in 0 .. Len(Written) :
             /\ call.place = First(Written, k) /\ call.trailing = After(Written, k)
             /\ \A j \in k + 1 .. Len(Written) : ~Lstat(tree, First(Written, j))
    /\ call.pc = "canonicalize" =>
          \E k \in 0 .. Len(Written) :
             /\ call.place = First(Written, k) /\ call.trailing = After(Written, k)
             /\ Deepest(tree, Written, k)
             /\ \E n \in 0 .. MaxWalk + 1 : call.walk = WalkOf(tree, call.place)[n]
    /\ GoneOn => ResolvesTo(tree, call.input, call.place)
    /\ call.answer = "escape" =>
          \/ Written = None \/ ~Under(Written)
          \/ \E k \in 0 .. Len(Written) :
                /\ Deepest(tree, Written, k) /\ Follow(tree, First(Written, k)) # None
                /\ ~Under(Follow(tree, First(Written, k)))
    /\ call.answer = "cannot_resolve" =>
          /\ Written # None
          /\ \E k \in 0 .. Len(Written) :
                Deepest(tree, Written, k) /\ Follow(tree, First(Written, k)) = None

\* What read_file answers with is a page of the file its place is, or says why there is none.
Reading ==
    call.pc = "done" /\ call.op = "read_file" /\ GoneOn =>
        LET entry == EntryAt(tree, call.place)
        IN  /\ call.answer \in {"ok", "truncated", "panicked", "refused", "past_the_end"}
            /\ call.answer = "refused" => entry.kind # "file" \/ call.place \in Unreadable
            /\ call.answer = "past_the_end" =>
                  entry.kind = "file" /\ call.offset >= Len(entry.text)
            /\ call.answer = "ok" =>
                  /\ entry.kind = "file" /\ call.out = Page(entry.text)
                  /\ call.offset < Len(entry.text) \/ entry.text = <<>>

\* A line of a text file under the root that can be read, as search prints it.
IsHit(line, place, n) ==
    /\ Plain(tree, place) /\ Under(place) /\ EntryAt(tree, place).kind = "file"
    /\ place \notin Unreadable
    /\ n \in 1 .. Len(EntryAt(tree, place).text)
    /\ line = OutputLine(Shown(place), n, Trimmed(EntryAt(tree, place).text[n]))

\* What search prints are such lines, and what is read back is the one that was asked for.
Finding ==
    /\ call.op = "search" /\ call.pc = "done" =>
          \A i \in 1 .. Len(call.out) : \E place, n : IsHit(call.out[i], place, n)
    /\ hit # None =>
          \E place, n : /\ IsHit(hit, place, n) /\ call.input = Shown(place)
                        /\ call.offset = n - 1 /\ call.limit = 1

\* Up to where the pages of a file go.
Position ==
    IF call.pc = "done" /\ call.answer = "ok" THEN call.offset + Len(call.out) ELSE call.offset

\* Lines of a text one after the other, under their numbers.
Continues(lines, text) ==
    \A i \in 1 .. Len(lines) :
       LET n == lines[1].n - 1 + i
       IN  lines[i].n = n /\ n \in 1 .. Len(text) /\ lines[i].text = text[n]

\* The pages so far are lines of one file, one after the other, up to there.
Paging ==
    hit = None /\ pages # <<>> /\ call.answer \notin {"truncated", "panicked"} =>
        /\ call.op = "read_file"
        /\ pages[1].n - 1 + Len(pages) = Position
        /\ \E file :
              /\ ResolvesTo(tree, call.input, file) /\ EntryAt(tree, file).kind = "file"
              /\ Continues(pages, EntryAt(tree, file).text)

\* What a walk is to visit: its place and what it can see below it.
Region ==
    {place \in DOMAIN tree \cup {call.place} :
        \/ place = call.place
        \/ Visible(place) /\ (call.op = "list_dir" => Depth(place) <= call.limit)}

\* What of it a walk has visited: what is not still at or below a place that it has to.
Visited(todo) == {place \in Region : \A other \in todo : ~IsPrefix(other, place)}

\* Of the places a walk has to visit none is below another.
Apart(todo) == \A p, q \in todo : IsPrefix(p, q) => p = q

PrintedOf(places) == UNION {ToSet(Printed(place)) : place \in places}

\* The place a line was printed for.
PlaceOf(line) ==
    IF call.op = "search" THEN Lexical(Joined(line.path)) ELSE call.place \o line.path.parts

\* A walk has printed what it has visited, once each, and has not yet reached its limit.
Walking ==
    call.pc = "walk" =>
        /\ EntryAt(tree, call.place).kind # "none"
        /\ call.op = "list_dir" => EntryAt(tree, call.place).kind = "dir"
        /\ call.todo \subseteq Region /\ Apart(call.todo)
        /\ ToSet(call.out) = PrintedOf(Visited(call.todo))
        /\ Distinct(call.out)
        /\ call.op = "search" => call.out = <<>> \/ Len(call.out) < call.limit

QInv ==
    Quiet =>
        /\ Resolving /\ Reading /\ Finding /\ Paging /\ Walking
        /\ ListIsComplete /\ SearchIsComplete

-----------------------------------------------------------------------------
(* What a step that leaves the tree alone can be. *)

QuietNext == Asks \/ Resolution \/ Read \/ Walks \/ AsksForMore \/ ReadsHit \/ UNCHANGED vars

LEMMA QuietStep ==
    ASSUME IInv, [Next]_vars, Quiet'
    PROVE  Quiet /\ QuietNext /\ UNCHANGED <<tree, changes>>
<1>1. changes \in Nat
  BY PathToolsAssumption DEF IInv, TypeOK
<1>2. ~Command
  BY <1>1 DEF Command, Quiet
<1>3. QuietNext
  BY <1>2 DEF Next, QuietNext
<1>4. Resolution => UNCHANGED <<tree, changes>>
  BY DEF Resolution, Escapes, LooksUp, GoesUp, FindsAncestor, Canonicalizes,
         CannotResolve, LeadsOut, Resolves
<1>5. Walks => UNCHANGED <<tree, changes>>
  BY DEF Walks, Presents, Visits, WalkEnds
<1>6. Asks \/ AsksForMore \/ ReadsHit \/ Read => UNCHANGED <<tree, changes>>
  BY ReadCases DEF Asks, AsksForMore, ReadsHit
<1>7. UNCHANGED vars => UNCHANGED <<tree, changes>>
  BY DEF vars
<1>8. UNCHANGED <<tree, changes>>
  BY <1>3, <1>4, <1>5, <1>6, <1>7 DEF QuietNext
<1> QED BY <1>3, <1>8 DEF Quiet

\* A call that has begun: Asks, AsksForMore and ReadsHit.
LEMMA BegunIs ==
    ASSUME IInv, Asks \/ AsksForMore \/ ReadsHit
    PROVE  /\ call'.pc = "lexical" /\ call'.answer = None /\ call'.out = <<>>
           /\ call'.place = None /\ call'.trailing = <<>> /\ pages' = pages
<1>1. \A op, input, offset, limit : Call(op, input, offset, limit) =>
         /\ call'.pc = "lexical" /\ call'.answer = None /\ call'.out = <<>>
         /\ call'.place = None /\ call'.trailing = <<>>
  BY CallIs
<1>2. CASE Asks
  BY <1>1, <1>2, AsksCases
<1>3. CASE AsksForMore
  BY <1>1, <1>3, AsksForMoreCases
<1>4. CASE ReadsHit
  BY <1>1, <1>4, ReadsHitCases
<1> QED BY <1>2, <1>3, <1>4

\* The strings of pc and answer are not None.
LEMMA NotNone ==
    \A answer \in Answered : answer # None
BY PathToolsAssumption

\* What the tools do once their path is resolved.
LEMMA ToolSteps ==
    ASSUME IInv, Read \/ Walks
    PROVE  /\ call.pc \in {"read", "present", "walk"}
           /\ call'.place = call.place /\ call'.input = call.input /\ call'.op = call.op
           /\ call'.offset = call.offset /\ call'.limit = call.limit
           /\ hit' = hit
           /\ \/ call'.pc = "walk" /\ call'.answer = call.answer
              \/ call'.pc = "done"
                 /\ call'.answer \in Answered \ {"escape", "cannot_resolve"}
<1> DEFINE Same ==
             /\ call'.place = call.place /\ call'.input = call.input /\ call'.op = call.op
             /\ call'.offset = call.offset /\ call'.limit = call.limit
           Done == Same /\ call'.pc = "done"
                   /\ call'.answer \in Answered \ {"escape", "cannot_resolve"}
<1>1. \A answer \in Answered \ {"escape", "cannot_resolve"} : \A out :
         Answers(answer, out) => Done
  BY AnswersIs
<1>2. \A answer \in {"ok", "stopped"}, out \in Seq(Line) : AnswersText(answer, out) => Done
  <2> SUFFICES ASSUME NEW answer \in {"ok", "stopped"}, NEW out \in Seq(Line),
                      AnswersText(answer, out)
               PROVE  Done
    OBVIOUS
  <2>1. PICK a \in {answer, "truncated", "panicked"}, o \in Seq(Line) : Answers(a, o)
    BY TextIsAnswered
  <2>2. a \in Answered \ {"escape", "cannot_resolve"}
    BY DEF Answered
  <2> HIDE DEF Done
  <2> QED BY <1>1, <2>1, <2>2
<1>3. {"refused", "past_the_end"} \subseteq Answered \ {"escape", "cannot_resolve"}
  BY DEF Answered
<1>4. CASE Read
  <2> DEFINE entry == FollowedEntry(tree, call.place)
  <2>1. /\ call.pc = "read" /\ hit' = hit
        /\ \/ Refuses("refused") \/ Refuses("past_the_end")
           \/ entry.kind = "file" /\ AnswersText("ok", Page(entry.text))
    BY <1>4, ReadCases
  <2>2. entry \in Entry /\ call.offset \in Nat /\ call.limit \in Nat \cup {None}
        /\ call.place \in Seq(Name)
    BY <2>1, InFlight, SeenType DEF IInv, WellFormed
  <2> HIDE DEF entry, Done
  <2>3. entry.kind = "file" => Page(entry.text) \in Seq(Line)
    BY <2>2, FileText, PageFacts
  <2>4. Done
    BY <1>1, <1>2, <1>3, <2>1, <2>3 DEF Refuses
  <2> QED BY <2>1, <2>4 DEF Done
<1>5. CASE Presents
  <2>1. call.pc = "present" /\ hit' = hit /\ DOMAIN call = DOMAIN Idle
        /\ (Refuses("refused") \/ call' = [call EXCEPT !.pc = "walk", !.todo = {call.place}])
    BY <1>5, InFlight DEF Presents
  <2>2. CASE Refuses("refused")
    <3> HIDE DEF Done
    <3>1. Done
      BY <2>2, <1>1, <1>3 DEF Refuses
    <3> QED BY <2>1, <3>1 DEF Done
  <2>3. CASE call' = [call EXCEPT !.pc = "walk", !.todo = {call.place}]
    BY <2>1, <2>3 DEF Idle
  <2> QED BY <2>1, <2>2, <2>3
<1>6. ASSUME NEW place, Visits(place)
      PROVE  /\ call.pc = "walk" /\ hit' = hit
             /\ Done \/ (Same /\ call'.pc = "walk" /\ call'.answer = call.answer)
  <2> DEFINE out == call.out \o Printed(place)
             some == IF call.limit >= 1 THEN call.limit ELSE 1
             todo == (call.todo \ {place}) \cup Below(place)
  <2>1. /\ call.pc = "walk" /\ hit' = hit /\ out \in Seq(Line)
        /\ \/ some \in 1 .. Len(out) /\ AnswersText("stopped", First(out, some))
           \/ call' = [call EXCEPT !.out = out, !.todo = todo]
    BY <1>6, VisitCases
  <2> HIDE DEF out, some, todo
  <2>2. CASE some \in 1 .. Len(out) /\ AnswersText("stopped", First(out, some))
    <3>1. some \in 0 .. Len(out)
      BY <2>2
    <3>2. First(out, some) \in Seq(Line)
      BY <2>1, <3>1, FirstFacts
    <3> HIDE DEF Done
    <3> QED BY <1>2, <2>1, <2>2, <3>2
  <2>3. CASE call' = [call EXCEPT !.out = out, !.todo = todo]
    <3>1. DOMAIN call = DOMAIN Idle
      BY DEF IInv, WellFormed
    <3> QED BY <2>1, <2>3, <3>1 DEF Idle
  <2> QED BY <2>1, <2>2, <2>3
<1>7. CASE WalkEnds
  <2>1. call.pc = "walk" /\ hit' = hit /\ AnswersText("ok", call.out)
    BY <1>7 DEF WalkEnds
  <2>2. call.out \in Seq(Line)
    BY DEF IInv, TypeOK
  <2> HIDE DEF Done
  <2>3. Done
    BY <1>2, <2>1, <2>2
  <2> QED BY <2>1, <2>3 DEF Done
<1> QED BY <1>4, <1>5, <1>6, <1>7 DEF Walks

-----------------------------------------------------------------------------
(* Resolving. *)

\* A call that is where its path has led it, or is being begun, says nothing of its walk.
LEMMA ResolvingBegun ==
    ASSUME IsTree(tree'), call'.pc \in {"idle", "lexical"}, call'.answer = None
    PROVE  Resolving'
BY NotNone DEF Resolving, GoneOn, Answered

LEMMA WrittenType ==
    ASSUME IInv, call.pc # "idle"
    PROVE  Joined(call.input) \in Seq(Part) /\ Written \in Seq(Name) \cup {None}
<1>1. call.input \in Input
  BY DEF IInv, TypeOK, WellFormed
<1> QED BY <1>1, JoinedType, LexicalType DEF Written

LEMMA ResolvingEscapes ==
    ASSUME IInv, Resolving, Escapes
    PROVE  Resolving'
<1>1. /\ UNCHANGED tree /\ call'.pc = "done" /\ call'.answer = "escape"
      /\ call'.input = call.input
  BY AnswersIs DEF Escapes, Refuses
<1>2. Written' = Written
  BY <1>1 DEF Written
<1>3. Written = None \/ ~Under(Written)
  BY DEF Escapes, Written
<1> QED BY <1>1, <1>2, <1>3 DEF Resolving, GoneOn

LEMMA ResolvingLooksUp ==
    ASSUME IInv, Resolving, LooksUp
    PROVE  Resolving'
<1>1. /\ call.pc = "lexical" /\ Written # None /\ Under(Written) /\ UNCHANGED tree
      /\ call' = [call EXCEPT !.pc = "ancestor", !.place = Written]
  BY DEF LooksUp, Written
<1>2. DOMAIN call = DOMAIN Idle /\ call.trailing = <<>> /\ call.answer = None
  BY <1>1 DEF IInv, WellFormed
<1>3. /\ call'.pc = "ancestor" /\ call'.place = Written /\ call'.trailing = <<>>
      /\ call'.input = call.input /\ call'.answer = None
  BY <1>1, <1>2 DEF Idle
<1>4. Written' = Written
  BY <1>3 DEF Written
<1>5. Written \in Seq(Name)
  BY <1>1, WrittenType
<1>6. Len(Written) \in 0 .. Len(Written)
      /\ First(Written, Len(Written)) = Written /\ After(Written, Len(Written)) = <<>>
  BY <1>5, FirstAfter
<1>7. \A j \in Len(Written) + 1 .. Len(Written) : FALSE
  BY <1>5
<1> QED BY <1>1, <1>3, <1>4, <1>6, <1>7, NotNone DEF Resolving, GoneOn, Answered

LEMMA ResolvingGoesUp ==
    ASSUME IInv, Resolving, GoesUp
    PROVE  Resolving'
<1>1. /\ call.pc = "ancestor" /\ ~Lstat(tree, call.place) /\ UNCHANGED tree
      /\ call' = [call EXCEPT !.place = Front(call.place),
                              !.trailing = <<Last(call.place)>> \o call.trailing]
  BY DEF GoesUp
<1>2. DOMAIN call = DOMAIN Idle /\ call.answer = None
  BY <1>1 DEF IInv, WellFormed
<1>3. /\ call'.pc = "ancestor" /\ call'.place = Front(call.place)
      /\ call'.trailing = <<Last(call.place)>> \o call.trailing
      /\ call'.input = call.input /\ call'.answer = None
  BY <1>1, <1>2 DEF Idle
<1>4. Written' = Written /\ Written # None /\ Under(Written)
  BY <1>1, <1>3 DEF Written, Resolving
<1>5. Written \in Seq(Name)
  BY <1>1, <1>4, WrittenType
<1>6. PICK k \in 0 .. Len(Written) :
         /\ call.place = First(Written, k) /\ call.trailing = After(Written, k)
         /\ \A j \in k + 1 .. Len(Written) : ~Lstat(tree, First(Written, j))
  BY <1>1 DEF Resolving
<1>7. k \in 1 .. Len(Written) /\ k - 1 \in 0 .. Len(Written)
  <2>1. First(Written, 0) = <<>>
    BY <1>5, <1>6, FirstAfter
  <2>2. k # 0
    BY <1>1, <1>6, <2>1 DEF Lstat
  <2> QED BY <1>5, <2>2
<1>8. call'.place = First(Written, k - 1) /\ call'.trailing = After(Written, k - 1)
  BY <1>3, <1>5, <1>6, <1>7, FrontOfFirst
<1>9. \A j \in (k - 1) + 1 .. Len(Written) : ~Lstat(tree, First(Written, j))
  <2> SUFFICES ASSUME NEW j \in (k - 1) + 1 .. Len(Written)
               PROVE  ~Lstat(tree, First(Written, j))
    OBVIOUS
  <2>1. j = k \/ j \in k + 1 .. Len(Written)
    BY <1>7
  <2> QED BY <2>1, <1>1, <1>6
<1> QED BY <1>1, <1>3, <1>4, <1>7, <1>8, <1>9, NotNone DEF Resolving, GoneOn, Answered

LEMMA ResolvingFindsAncestor ==
    ASSUME IInv, Resolving, FindsAncestor
    PROVE  Resolving'
<1>1. /\ call.pc = "ancestor" /\ Lstat(tree, call.place) /\ UNCHANGED tree
      /\ call' = [call EXCEPT !.pc = "canonicalize", !.walk = Walk(call.place)]
  BY DEF FindsAncestor
<1>2. DOMAIN call = DOMAIN Idle /\ call.answer = None /\ call.place \in Seq(Name)
  BY <1>1, InFlight
<1>3. /\ call'.pc = "canonicalize" /\ call'.place = call.place
      /\ call'.trailing = call.trailing /\ call'.walk = Walk(call.place)
      /\ call'.input = call.input /\ call'.answer = None
  BY <1>1, <1>2 DEF Idle
<1>4. Written' = Written /\ Written # None /\ Under(Written)
  BY <1>1, <1>3 DEF Written, Resolving
<1>5. PICK k \in 0 .. Len(Written) :
         /\ call.place = First(Written, k) /\ call.trailing = After(Written, k)
         /\ \A j \in k + 1 .. Len(Written) : ~Lstat(tree, First(Written, j))
  BY <1>1 DEF Resolving
<1>6. Deepest(tree, Written, k)
  BY <1>1, <1>5 DEF Deepest
<1>7. 0 \in 0 .. MaxWalk + 1 /\ WalkOf(tree, call.place)[0] = Walk(call.place)
  <2>1. call.place \in Seq(Part) /\ tree \in [DOMAIN tree -> Entry]
    BY <1>1, <1>2, InFlight DEF Part
  <2> QED BY <2>1, WalkOfSteps, RootAssumption
<1> QED BY <1>1, <1>3, <1>4, <1>5, <1>6, <1>7, NotNone DEF Resolving, GoneOn, Answered

LEMMA ResolvingCanonicalizes ==
    ASSUME IInv, Resolving, Canonicalizes
    PROVE  Resolving'
<1>1. /\ call.pc = "canonicalize" /\ ~call.walk.end /\ UNCHANGED tree
      /\ call' = [call EXCEPT !.walk = WalkPart(tree, call.walk)]
  BY DEF Canonicalizes
<1>2. DOMAIN call = DOMAIN Idle /\ call.answer = None /\ call.place \in Seq(Name)
  BY <1>1, InFlight
<1>3. /\ call'.pc = "canonicalize" /\ call'.place = call.place
      /\ call'.trailing = call.trailing /\ call'.walk = WalkPart(tree, call.walk)
      /\ call'.input = call.input /\ call'.answer = None
  BY <1>1, <1>2 DEF Idle
<1>4. Written' = Written /\ Written # None /\ Under(Written)
  BY <1>1, <1>3 DEF Written, Resolving
<1>5. PICK k \in 0 .. Len(Written) :
         /\ call.place = First(Written, k) /\ call.trailing = After(Written, k)
         /\ Deepest(tree, Written, k)
         /\ \E n \in 0 .. MaxWalk + 1 : call.walk = WalkOf(tree, call.place)[n]
  BY <1>1 DEF Resolving
<1>6. \E n \in 0 .. MaxWalk + 1 : call'.walk = WalkOf(tree, call.place)[n]
  <2>1. call.place \in Seq(Part) /\ tree \in [DOMAIN tree -> Entry]
    BY <1>1, <1>2, InFlight DEF Part
  <2>2. PICK n \in 0 .. MaxWalk + 1 : call.walk = WalkOf(tree, call.place)[n]
    BY <1>5
  <2>3. n # MaxWalk + 1
    BY <1>1, <2>1, <2>2, WalkCounts
  <2>4. n + 1 \in 1 .. MaxWalk + 1 /\ (n + 1) - 1 = n /\ n + 1 \in 0 .. MaxWalk + 1
    BY <2>2, <2>3, RootAssumption
  <2>5. WalkOf(tree, call.place)[n + 1] = WalkPart(tree, call.walk)
    BY <1>1, <2>1, <2>2, <2>4, WalkOfSteps
  <2> QED BY <1>3, <2>4, <2>5
<1> QED BY <1>1, <1>3, <1>4, <1>5, <1>6, NotNone DEF Resolving, GoneOn, Answered

\* Where canonicalize ends is where its place leads.
LEMMA CanonicalizesTo ==
    ASSUME IInv, Resolving, call.pc = "canonicalize", call.walk.end
    PROVE  /\ Written # None /\ Under(Written) /\ Written \in Seq(Name)
           /\ \E k \in 0 .. Len(Written) :
                 /\ call.trailing = After(Written, k) /\ Deepest(tree, Written, k)
                 /\ Follow(tree, First(Written, k)) = call.walk.at
<1>1. Written # None /\ Under(Written) /\ Written \in Seq(Name)
  BY WrittenType DEF Resolving
<1>2. PICK k \in 0 .. Len(Written) :
         /\ call.place = First(Written, k) /\ call.trailing = After(Written, k)
         /\ Deepest(tree, Written, k)
         /\ \E n \in 0 .. MaxWalk + 1 : call.walk = WalkOf(tree, call.place)[n]
  BY DEF Resolving
<1>3. call.place \in Seq(Part) /\ tree \in [DOMAIN tree -> Entry]
  BY InFlight DEF Part
<1>4. Follow(tree, call.place) = call.walk.at
  BY <1>2, <1>3, WalkStays
<1> QED BY <1>1, <1>2, <1>4

LEMMA ResolvingRefused ==
    ASSUME IInv, Resolving, CannotResolve \/ LeadsOut
    PROVE  Resolving'
<1>1. /\ call.pc = "canonicalize" /\ call.walk.end /\ UNCHANGED tree
      /\ \/ call.walk.at = None /\ Answers("cannot_resolve", <<>>)
         \/ call.walk.at # None /\ ~Under(call.walk.at) /\ Answers("escape", <<>>)
  BY DEF CannotResolve, LeadsOut, Refuses
<1>2. /\ call'.pc = "done" /\ call'.input = call.input
      /\ \/ call.walk.at = None /\ call'.answer = "cannot_resolve"
         \/ call.walk.at # None /\ ~Under(call.walk.at) /\ call'.answer = "escape"
  BY <1>1, AnswersIs
<1>3. Written' = Written /\ Written # None
  BY <1>1, <1>2, CanonicalizesTo DEF Written
<1>4. PICK k \in 0 .. Len(Written) :
         Deepest(tree, Written, k) /\ Follow(tree, First(Written, k)) = call.walk.at
  BY <1>1, CanonicalizesTo
<1> QED BY <1>1, <1>2, <1>3, <1>4 DEF Resolving, GoneOn

LEMMA ResolvingResolves ==
    ASSUME IInv, Resolving, Resolves
    PROVE  Resolving'
<1> DEFINE place == call.walk.at \o call.trailing
           pc == IF call.op = "read_file" THEN "read" ELSE "present"
<1>1. /\ call.pc = "canonicalize" /\ call.walk.end /\ UNCHANGED tree
      /\ call.walk.at # None /\ Under(call.walk.at)
      /\ call' = [call EXCEPT !.pc = pc, !.place = place]
  BY DEF Resolves, GoesOnAt
<1>2. DOMAIN call = DOMAIN Idle /\ call.answer = None /\ pc \in {"read", "present"}
  BY <1>1, InFlight
<1>3. PICK k \in 0 .. Len(Written) :
         /\ call.trailing = After(Written, k) /\ Deepest(tree, Written, k)
         /\ Follow(tree, First(Written, k)) = call.walk.at
  BY <1>1, CanonicalizesTo
<1>4. Written # None /\ Under(Written)
  BY <1>1, CanonicalizesTo
<1>5. ResolvesTo(tree, call.input, place)
  BY <1>1, <1>3, <1>4 DEF ResolvesTo, Written
<1> HIDE DEF place, pc
<1>6. /\ call'.pc \in {"read", "present"} /\ call'.place = place
      /\ call'.input = call.input /\ call'.answer = None
  BY <1>1, <1>2 DEF Idle
<1> QED BY <1>1, <1>5, <1>6, NotNone DEF Resolving, GoneOn, Answered

LEMMA ResolvingTool ==
    ASSUME IInv, Resolving, Read \/ Walks, UNCHANGED tree
    PROVE  Resolving'
<1>1. /\ call.pc \in {"read", "present", "walk"}
      /\ call'.place = call.place /\ call'.input = call.input
      /\ \/ call'.pc = "walk" /\ call'.answer = call.answer
         \/ call'.pc = "done" /\ call'.answer \in Answered \ {"escape", "cannot_resolve"}
  BY ToolSteps
<1>2. call.answer = None
  BY <1>1, InFlight
<1>3. ResolvesTo(tree, call.input, call.place)
  BY <1>1 DEF Resolving, GoneOn
<1> QED BY <1>1, <1>2, <1>3, NotNone DEF Resolving, GoneOn, Answered

LEMMA ResolvingKept ==
    ASSUME IInv, Resolving, QuietNext, UNCHANGED tree
    PROVE  Resolving'
<1>1. CASE Asks \/ AsksForMore \/ ReadsHit
  BY <1>1, BegunIs, ResolvingBegun DEF Resolving
<1>2. CASE Resolution
  BY <1>2, ResolvingEscapes, ResolvingLooksUp, ResolvingGoesUp, ResolvingFindsAncestor,
     ResolvingCanonicalizes, ResolvingRefused, ResolvingResolves DEF Resolution
<1>3. CASE Read \/ Walks
  BY <1>3, ResolvingTool
<1>4. CASE UNCHANGED vars
  BY <1>4 DEF vars, Resolving, GoneOn, Written
<1> QED BY <1>1, <1>2, <1>3, <1>4 DEF QuietNext

-----------------------------------------------------------------------------
(* What Resolving says of a path. *)

LEMMA ResolvedIsGoneOn ==
    ASSUME IInv, Resolved
    PROVE  GoneOn /\ call.input \in Input
<1>1. call.answer \in {"ok", "stopped"} => call.pc = "done"
  BY NotNone DEF IInv, WellFormed, Answered
<1>2. GoneOn
  BY <1>1 DEF Resolved, GoneOn
<1>3. call.pc # "idle"
  BY <1>2 DEF GoneOn
<1> QED BY <1>2, <1>3 DEF IInv, TypeOK, WellFormed

LEMMA ResolvedLinkless ==
    ASSUME IInv, Resolving, GoneOn
    PROVE  call.place \in Seq(Name) /\ Under(call.place) /\ NoLinks(tree, call.place)
<1>1. IsTree(tree) /\ ResolvesTo(tree, call.input, call.place)
  BY DEF Resolving
<1>2. call.pc # "idle"
  BY DEF GoneOn
<1>3. call.input \in Input
  BY <1>2 DEF IInv, TypeOK, WellFormed
<1> QED BY <1>1, <1>3, ResolvedIsLinkless

LEMMA NoLinkResolved ==
    ASSUME IInv, Quiet => Resolving
    PROVE  ResolvedHasNoLink
<1> SUFFICES ASSUME Resolved, Quiet PROVE NoLinks(tree, call.place)
  BY DEF ResolvedHasNoLink, NoLinks
<1> QED BY ResolvedIsGoneOn, ResolvedLinkless

LEMMA ShellMeaning ==
    ASSUME IInv, Quiet => Resolving
    PROVE  MeansWhatTheShellMeans
<1> DEFINE parts == Joined(call.input)
           there == Follow(tree, parts)
<1> SUFFICES ASSUME call.pc # "idle", Quiet, there # None,
                    ".." \in ToSet(parts) => Follow(Unlinked(tree), parts) # None
             PROVE  /\ Resolved => call.place = there
                    /\ call.answer = "escape" =>
                          \/ ~Under(there) \/ ClimbsOverTheTop(parts)
                          \/ ".." \notin ToSet(parts) /\ ~Under(Lexical(parts))
                    /\ call.answer # "cannot_resolve"
  BY DEF MeansWhatTheShellMeans, WithoutLinks, Unlinked
<1>1. parts \in Seq(Part) /\ Written = Lexical(parts) /\ Written \in Seq(Name) \cup {None}
  BY WrittenType DEF Written
<1>2. Resolving /\ IsTree(tree) /\ tree \in [DOMAIN tree -> Entry]
  BY DEF Resolving, IInv, TypeOK
<1>3. Resolved => ResolvesTo(tree, call.input, call.place)
  BY <1>2, ResolvedIsGoneOn DEF Resolving
<1> HIDE DEF parts
<1>4. CASE Written = None
  <2>1. ~Resolved
    BY <1>1, <1>3, <1>4 DEF ResolvesTo, Written
  <2>2. ClimbsOverTheTop(parts)
    BY <1>1, <1>4, LostAboveTheTop DEF ClimbsOverTheTop
  <2>3. call.answer # "cannot_resolve"
    BY <1>2, <1>4 DEF Resolving
  <2> QED BY <2>1, <2>2, <2>3
<1>5. CASE Written # None
  <2>0. Written \in Seq(Name)
    BY <1>1, <1>5
  <2>1. \/ \A i \in 1 .. Len(parts) : parts[i] # ".."
        \/ Follow(Unlinked(tree), parts) # None
    BY <1>1 DEF ToSet
  <2>2. /\ Follow(tree, Written) = there
        /\ \A k : Deepest(tree, Written, k) => k = Len(Written)
    BY <1>1, <1>2, <1>5, <2>1, ResolvesLikeTheShell
  <2>3. First(Written, Len(Written)) = Written /\ After(Written, Len(Written)) = <<>>
    <3>1. Len(Written) \in 0 .. Len(Written)
      BY <2>0
    <3> QED BY <2>0, <3>1, FirstAfter
  <2>4. there \in Seq(Name)
    BY <1>1, <1>2, FollowIsPlain DEF Plain
  <2>5. ASSUME Resolved PROVE call.place = there
    <3>1. \E k \in 0 .. Len(Written) :
             /\ Deepest(tree, Written, k)
             /\ call.place = Follow(tree, First(Written, k)) \o After(Written, k)
      BY <1>3, <2>5 DEF ResolvesTo, Written
    <3>2. call.place = there \o <<>>
      BY <2>2, <2>3, <3>1
    <3> HIDE DEF there
    <3> QED BY <2>4, <3>2
  <2>6. ASSUME call.answer = "escape"
        PROVE  \/ ~Under(there)
               \/ ".." \notin ToSet(parts) /\ ~Under(Lexical(parts))
    <3>1. CASE ~Under(Written) /\ ".." \in ToSet(parts)
      BY <1>1, <1>2, <1>5, <3>1, LinksDoNotMatter
    <3>2. CASE ~Under(Written) /\ ".." \notin ToSet(parts)
      BY <1>1, <3>2
    <3>3. CASE Under(Written)
      <4>1. \E k \in 0 .. Len(Written) :
               Deepest(tree, Written, k) /\ ~Under(Follow(tree, First(Written, k)))
        BY <1>2, <1>5, <2>6, <3>3 DEF Resolving
      <4> QED BY <2>2, <2>3, <4>1
    <3> QED BY <3>1, <3>2, <3>3
  <2>7. call.answer # "cannot_resolve"
    <3> SUFFICES ASSUME call.answer = "cannot_resolve" PROVE FALSE
      OBVIOUS
    <3>1. \E k \in 0 .. Len(Written) :
             Deepest(tree, Written, k) /\ Follow(tree, First(Written, k)) = None
      BY <1>2 DEF Resolving
    <3> QED BY <2>2, <2>3, <3>1
  <2> QED BY <2>5, <2>6, <2>7
<1> QED BY <1>4, <1>5

-----------------------------------------------------------------------------
(* Reading. *)

\* What the steps of Root::resolve leave alone.
LEMMA ResolutionSteps ==
    ASSUME IInv, Resolution
    PROVE  /\ call.pc \in {"lexical", "ancestor", "canonicalize"}
           /\ call'.input = call.input /\ call'.op = call.op
           /\ call'.offset = call.offset /\ call'.limit = call.limit
           /\ call'.out = <<>> /\ UNCHANGED <<pages, hit>>
           /\ \/ /\ call'.pc \in {"ancestor", "canonicalize", "read", "present"}
                 /\ call'.answer = call.answer
              \/ call'.pc = "done" /\ call'.answer \in {"escape", "cannot_resolve"}
<1>0. call.pc \in {"lexical", "ancestor", "canonicalize"} /\ UNCHANGED <<pages, hit>>
  BY DEF Resolution, Escapes, LooksUp, GoesUp, FindsAncestor, Canonicalizes, CannotResolve,
         LeadsOut, Resolves
<1>1. DOMAIN call = DOMAIN Idle /\ call.out = <<>>
  BY <1>0, NotYetPrinted, InFlight
<1>2. CASE Escapes \/ CannotResolve \/ LeadsOut
  <2>1. Answers("escape", <<>>) \/ Answers("cannot_resolve", <<>>)
    BY <1>2 DEF Escapes, CannotResolve, LeadsOut, Refuses
  <2> QED BY <1>0, <2>1, AnswersIs
<1>3. CASE LooksUp
  <2>1. \E place : call' = [call EXCEPT !.pc = "ancestor", !.place = place]
    BY <1>3 DEF LooksUp
  <2> QED BY <1>0, <1>1, <2>1 DEF Idle
<1>4. CASE GoesUp
  <2>1. \E place, trailing : call' = [call EXCEPT !.place = place, !.trailing = trailing]
    BY <1>4 DEF GoesUp
  <2>2. call.pc = "ancestor"
    BY <1>4 DEF GoesUp
  <2> QED BY <1>0, <1>1, <2>1, <2>2 DEF Idle
<1>5. CASE FindsAncestor
  <2>1. \E walk : call' = [call EXCEPT !.pc = "canonicalize", !.walk = walk]
    BY <1>5 DEF FindsAncestor
  <2> QED BY <1>0, <1>1, <2>1 DEF Idle
<1>6. CASE Canonicalizes
  <2>1. \E walk : call' = [call EXCEPT !.walk = walk]
    BY <1>6 DEF Canonicalizes
  <2>2. call.pc = "canonicalize"
    BY <1>6 DEF Canonicalizes
  <2> QED BY <1>0, <1>1, <2>1, <2>2 DEF Idle
<1>7. CASE Resolves
  <2>1. \E pc \in {"read", "present"} : \E place :
           call' = [call EXCEPT !.pc = pc, !.place = place]
    BY <1>7 DEF Resolves, GoesOnAt
  <2> QED BY <1>0, <1>1, <2>1 DEF Idle
<1> QED BY <1>2, <1>3, <1>4, <1>5, <1>6, <1>7 DEF Resolution

LEMMA SamePage ==
    ASSUME NEW text, call'.offset = call.offset, call'.limit = call.limit,
           call'.place = call.place
    PROVE  Page(text)' = Page(text)
BY DEF Page

\* The entry a tool finds by following its place is the one at it, and so is the file it
\* reads.
LEMMA ReadsWhatIsThere ==
    ASSUME IInv, Resolving, GoneOn
    PROVE  /\ FollowedEntry(tree, call.place) = EntryAt(tree, call.place)
           /\ EntryAt(tree, call.place) \in Entry
           /\ EntryAt(tree, call.place).kind # "none" =>
                 (Readable(call.place) <=> call.place \notin Unreadable)
<1>1. call.place \in Seq(Name) /\ NoLinks(tree, call.place)
  BY ResolvedLinkless
<1>2. IsTree(tree) /\ tree \in [DOMAIN tree -> Entry]
  BY DEF Resolving, IInv, TypeOK
<1> QED BY <1>1, <1>2, LinklessIsSeen, EntryType DEF Readable

\* What a read answers, of the entry at its place.
LEMMA ReadAnswers ==
    ASSUME IInv, Resolving, Read
    PROVE  LET entry == EntryAt(tree, call.place)
           IN  /\ entry \in Entry /\ call.pc = "read" /\ call'.pc = "done"
               /\ call.op = "read_file"
               /\ call.place \in Seq(Name) /\ call.offset \in Nat
               /\ call.limit \in Nat \cup {None}
               /\ \/ /\ entry.kind # "file" \/ call.place \in Unreadable
                     /\ call'.answer = "refused" /\ pages' = pages /\ call'.out = <<>>
                  \/ /\ entry.kind = "file" /\ call.offset >= Len(entry.text)
                     /\ call'.answer = "past_the_end" /\ pages' = pages
                     /\ call'.out = <<>>
                  \/ /\ entry.kind = "file" /\ entry.text \in Seq(Seq(Char))
                     /\ call.offset < Len(entry.text) \/ entry.text = <<>>
                     /\ call'.answer = "ok" /\ call'.out = Page(entry.text)
                     /\ pages' = pages \o call'.out
                  \/ call'.answer \in {"truncated", "panicked"}
<1> DEFINE entry == EntryAt(tree, call.place)
<1>1. call.pc = "read"
  BY ReadCases
<1>2. /\ FollowedEntry(tree, call.place) = entry /\ entry \in Entry
      /\ entry.kind # "none" => (Readable(call.place) <=> call.place \notin Unreadable)
  BY <1>1, ReadsWhatIsThere DEF GoneOn
<1>3. /\ call.op = "read_file" /\ call.place \in Seq(Name) /\ call.offset \in Nat
      /\ call.limit \in Nat \cup {None}
  BY <1>1, InFlight DEF IInv, WellFormed
<1>4. \/ /\ entry.kind # "file" \/ call.place \in Unreadable
         /\ Answers("refused", <<>>) /\ pages' = pages
      \/ /\ entry.kind = "file" /\ call.offset >= Len(entry.text)
         /\ Answers("past_the_end", <<>>) /\ pages' = pages
      \/ /\ entry.kind = "file"
         /\ ~(call.offset >= Len(entry.text) /\ entry.text # <<>>)
         /\ AnswersText("ok", Page(entry.text)) /\ pages' = pages \o call'.out
  BY <1>2, ReadCases DEF Refuses
<1> HIDE DEF entry
<1>5. CASE /\ entry.kind # "file" \/ call.place \in Unreadable
           /\ Answers("refused", <<>>) /\ pages' = pages
  BY <1>1, <1>2, <1>3, <1>5, AnswersIs DEF entry
<1>6. CASE /\ entry.kind = "file" /\ call.offset >= Len(entry.text)
           /\ Answers("past_the_end", <<>>) /\ pages' = pages
  BY <1>1, <1>2, <1>3, <1>6, AnswersIs DEF entry
<1>7. CASE /\ entry.kind = "file"
           /\ ~(call.offset >= Len(entry.text) /\ entry.text # <<>>)
           /\ AnswersText("ok", Page(entry.text)) /\ pages' = pages \o call'.out
  <2>1. entry.text \in Seq(Seq(Char))
    BY <1>2, <1>7, FileText
  <2>2. call.offset < Len(entry.text) \/ entry.text = <<>>
    <3>1. Len(entry.text) \in Nat
      BY <2>1
    <3> QED BY <3>1, <1>3, <1>7
  <2>3. Page(entry.text) \in Seq(Line)
    BY <1>3, <2>1, PageFacts
  <2>4. PICK a \in {"ok", "truncated", "panicked"}, o \in Seq(Line) :
           Answers(a, o) /\ (a = "ok" => o = Page(entry.text))
    BY <1>7, <2>3, TextIsAnswered
  <2>5. call'.pc = "done" /\ call'.answer = a /\ call'.out = o
    BY <2>4, AnswersIs
  <2> QED BY <1>1, <1>2, <1>3, <1>7, <2>1, <2>2, <2>4, <2>5 DEF entry
<1> QED BY <1>4, <1>5, <1>6, <1>7

LEMMA ReadingKept ==
    ASSUME IInv, Resolving, Reading, QuietNext, UNCHANGED tree
    PROVE  Reading'
<1>1. CASE Asks \/ AsksForMore \/ ReadsHit
  BY <1>1, BegunIs DEF Reading
<1>2. CASE Resolution
  BY <1>2, ResolutionSteps DEF Reading, GoneOn
<1>3. CASE Read
  <2> DEFINE entry == EntryAt(tree, call.place)
  <2>1. call'.place = call.place /\ call'.offset = call.offset /\ call'.limit = call.limit
    BY <1>3, ToolSteps
  <2>2. entry' = entry
    BY <2>1
  <2>3. Page(entry.text)' = Page(entry.text)
    BY <2>1, <2>2, SamePage
  <2>4. \/ (entry.kind # "file" \/ call.place \in Unreadable) /\ call'.answer = "refused"
        \/ /\ entry.kind = "file" /\ call.offset >= Len(entry.text)
           /\ call'.answer = "past_the_end"
        \/ /\ entry.kind = "file"
           /\ call.offset < Len(entry.text) \/ entry.text = <<>>
           /\ call'.answer = "ok" /\ call'.out = Page(entry.text)
        \/ call'.answer \in {"truncated", "panicked"}
    BY <1>3, ReadAnswers
  <2> QED BY <2>1, <2>2, <2>3, <2>4 DEF Reading
<1>4. CASE Walks
  <2>1. call.pc \in {"present", "walk"} /\ call'.op = call.op
    BY <1>4, ToolSteps DEF Walks, Presents, Visits, WalkEnds
  <2>2. call.op # "read_file"
    BY <2>1 DEF IInv, WellFormed
  <2> QED BY <2>1, <2>2 DEF Reading
<1>5. CASE UNCHANGED vars
  <2>1. call' = call /\ tree' = tree
    BY <1>5 DEF vars
  <2> QED BY <2>1 DEF Reading, GoneOn, Page
<1> QED BY <1>1, <1>2, <1>3, <1>4, <1>5 DEF QuietNext

-----------------------------------------------------------------------------
(* Paging. *)

\* Lines go on where the next page begins.
LEMMA ContinuesWith ==
    ASSUME NEW text, NEW lines \in Seq(Line), NEW page \in Seq(Line), NEW offset \in Nat,
           Continues(lines, text), Len(text) \in Nat,
           lines # <<>> => lines[1].n - 1 + Len(lines) = offset,
           \A i \in 1 .. Len(page) :
              /\ offset + i \in 1 .. Len(text)
              /\ page[i].n = offset + i /\ page[i].text = text[offset + i]
    PROVE  /\ Continues(lines \o page, text)
           /\ lines \o page # <<>> =>
                 (lines \o page)[1].n - 1 + Len(lines \o page) = offset + Len(page)
<1> DEFINE all == lines \o page
<1>1. /\ all \in Seq(Line) /\ Len(all) = Len(lines) + Len(page)
      /\ Len(lines) \in Nat /\ Len(page) \in Nat
      /\ \A i \in 1 .. Len(lines) : all[i] = lines[i]
      /\ \A i \in 1 .. Len(all) : i \notin 1 .. Len(lines) =>
            i - Len(lines) \in 1 .. Len(page) /\ all[i] = page[i - Len(lines)]
  <2>1. /\ all \in Seq(Line) /\ Len(all) = Len(lines) + Len(page)
        /\ Len(lines) \in Nat /\ Len(page) \in Nat
        /\ \A i \in 1 .. Len(lines) : all[i] = lines[i]
    OBVIOUS
  <2>2. ASSUME NEW i \in 1 .. Len(all), i \notin 1 .. Len(lines)
        PROVE  i - Len(lines) \in 1 .. Len(page) /\ all[i] = page[i - Len(lines)]
    BY <2>1, <2>2
  <2> QED BY <2>1, <2>2
<1>2. all # <<>> => Len(all) >= 1
  BY <1>1
<1>3. lines # <<>> => Len(lines) >= 1
  OBVIOUS
<1>4. \A i \in 1 .. Len(lines) : lines[i].n \in Nat
  <2>1. \A line \in Line : line.n \in Nat
    BY DEF Line
  <2>2. \A i \in 1 .. Len(lines) : lines[i] \in Line
    OBVIOUS
  <2> QED BY <2>1, <2>2
<1> HIDE DEF all
<1>5. ASSUME all # <<>> PROVE all[1].n - 1 + Len(lines) = offset /\ all[1].n \in Nat
  <2>1. CASE lines # <<>>
    <3>1. 1 \in 1 .. Len(lines)
      BY <2>1, <1>1, <1>3
    <3> QED BY <2>1, <3>1, <1>1, <1>4
  <2>2. CASE lines = <<>>
    <3>1. Len(lines) = 0
      BY <2>2
    <3>2. 1 \in 1 .. Len(all) /\ 1 \notin 1 .. Len(lines) /\ 1 - Len(lines) = 1
      BY <3>1, <1>1, <1>2, <1>5
    <3>3. 1 \in 1 .. Len(page) /\ all[1] = page[1]
      BY <3>2, <1>1
    <3>4. page[1].n = offset + 1
      BY <3>3
    <3> QED BY <3>1, <3>3, <3>4
  <2> QED BY <2>1, <2>2
<1>6. ASSUME NEW i \in 1 .. Len(all)
      PROVE  LET n == all[1].n - 1 + i
             IN  all[i].n = n /\ n \in 1 .. Len(text) /\ all[i].text = text[n]
  <2>1. all # <<>>
    BY <1>1
  <2>2. CASE i \in 1 .. Len(lines)
    <3>1. 1 \in 1 .. Len(lines) /\ all[1] = lines[1] /\ all[i] = lines[i]
      BY <2>2, <1>1
    <3> QED BY <2>2, <3>1 DEF Continues
  <2>3. CASE i \notin 1 .. Len(lines)
    <3> DEFINE j == i - Len(lines)
    <3>1. j \in 1 .. Len(page) /\ all[i] = page[j]
      BY <2>3, <1>1
    <3>2. all[1].n - 1 + i = offset + j
      <4> DEFINE n == all[1].n
                 l == Len(lines)
      <4>1. n - 1 + l = offset /\ n \in Nat /\ l \in Nat /\ i \in Nat
        BY <2>1, <1>1, <1>5
      <4> HIDE DEF n, l
      <4>2. n - 1 + i = offset + (i - l)
        BY <4>1
      <4> QED BY <4>2 DEF n, l
    <3> HIDE DEF j
    <3> QED BY <3>1, <3>2
  <2> QED BY <2>2, <2>3
<1>7. ASSUME all # <<>> PROVE all[1].n - 1 + Len(all) = offset + Len(page)
  <2>1. all[1].n - 1 + Len(lines) = offset /\ all[1].n \in Nat
    BY <1>5, <1>7
  <2> DEFINE n == all[1].n
             l == Len(lines)
             m == Len(page)
  <2>2. Len(all) = l + m /\ l \in Nat /\ m \in Nat /\ n \in Nat /\ n - 1 + l = offset
    BY <1>1, <2>1
  <2> HIDE DEF n, l, m
  <2>3. n - 1 + Len(all) = offset + m
    BY <2>2
  <2> QED BY <2>3 DEF n, m
<1>8. Continues(all, text)
  BY <1>6 DEF Continues
<1> QED BY <1>7, <1>8 DEF all

LEMMA PagingRead ==
    ASSUME IInv, Resolving, Paging, Read, UNCHANGED tree
    PROVE  Paging'
<1> DEFINE entry == EntryAt(tree, call.place)
<1> SUFFICES ASSUME hit' = None, pages' # <<>>, call'.answer \notin {"truncated", "panicked"}
             PROVE  /\ call'.op = "read_file"
                    /\ pages'[1].n - 1 + Len(pages') = Position'
                    /\ \E file : /\ ResolvesTo(tree, call'.input, file)
                                 /\ EntryAt(tree, file).kind = "file"
                                 /\ Continues(pages', EntryAt(tree, file).text)
  BY DEF Paging
<1>1. /\ call'.op = call.op /\ call'.input = call.input /\ call'.offset = call.offset
      /\ call'.place = call.place /\ hit = None /\ call.pc = "read"
  BY ToolSteps, ReadCases
<1>2. /\ call'.pc = "done" /\ call.op = "read_file"
      /\ call.place \in Seq(Name) /\ call.offset \in Nat
      /\ call.limit \in Nat \cup {None}
      /\ \/ call'.answer \in {"refused", "past_the_end"} /\ pages' = pages
         \/ /\ entry.kind = "file" /\ entry.text \in Seq(Seq(Char))
            /\ call'.answer = "ok" /\ call'.out = Page(entry.text)
            /\ pages' = pages \o call'.out
  BY ReadAnswers
<1>3. /\ pages \in Seq(Line) /\ call.answer = None /\ {"truncated", "panicked"} \subseteq Answered
      /\ call.input \in Input
  BY <1>1, InFlight DEF Answered
<1>4. ResolvesTo(tree, call.input, call.place) /\ Position = call.offset
  BY <1>1 DEF Resolving, GoneOn, Position
<1>5. pages # <<>> =>
         /\ pages[1].n - 1 + Len(pages) = call.offset
         /\ \E file : /\ ResolvesTo(tree, call.input, file) /\ EntryAt(tree, file).kind = "file"
                      /\ Continues(pages, EntryAt(tree, file).text)
  BY <1>1, <1>3, <1>4, NotNone DEF Paging
<1>6. pages # <<>> => entry.kind = "file" /\ Continues(pages, entry.text)
  BY <1>3, <1>4, <1>5, OneResolution
<1>7. CASE call'.answer \in {"refused", "past_the_end"} /\ pages' = pages
  <2>1. Position' = call.offset
    BY <1>1, <1>2, <1>7 DEF Position
  <2> QED BY <1>1, <1>2, <1>4, <1>5, <1>6, <1>7, <2>1
<1>8. CASE /\ entry.kind = "file" /\ entry.text \in Seq(Seq(Char))
           /\ call'.answer = "ok" /\ call'.out = Page(entry.text)
           /\ pages' = pages \o call'.out
  <2> DEFINE text == entry.text
             page == Page(entry.text)
  <2>1. /\ page \in Seq(Line)
        /\ \A i \in 1 .. Len(page) :
              /\ call.offset + i \in 1 .. Len(text)
              /\ page[i] = OutputLine(Shown(call.place), call.offset + i, text[call.offset + i])
    BY <1>2, <1>8, PageFacts
  <2> HIDE DEF entry
  <2>2. text \in Seq(Seq(Char)) /\ Len(text) \in Nat
    BY <1>8
  <2> HIDE DEF page, text
  <2>3. \A i \in 1 .. Len(page) :
           /\ call.offset + i \in 1 .. Len(text)
           /\ page[i].n = call.offset + i /\ page[i].text = text[call.offset + i]
    <3> SUFFICES ASSUME NEW i \in 1 .. Len(page)
                 PROVE  /\ call.offset + i \in 1 .. Len(text)
                        /\ page[i].n = call.offset + i /\ page[i].text = text[call.offset + i]
      OBVIOUS
    <3>1. /\ call.offset + i \in 1 .. Len(text)
          /\ page[i] = OutputLine(Shown(call.place), call.offset + i, text[call.offset + i])
      BY <2>1
    <3>2. call.offset + i \in Nat /\ text[call.offset + i] \in Seq(Char)
      BY <2>2, <3>1
    <3>3. Shown(call.place) \in Input
      BY <1>2, ShownType
    <3> QED BY <3>1, <3>2, <3>3, OutputLineType
  <2>4. Continues(pages, text)
    <3>1. CASE pages = <<>>
      <4>1. \A i \in 1 .. Len(<<>>) : FALSE
        OBVIOUS
      <4> QED BY <3>1, <4>1 DEF Continues
    <3>2. CASE pages # <<>>
      BY <3>2, <1>6 DEF text
    <3> QED BY <3>1, <3>2
  <2>5. /\ Continues(pages \o page, text)
        /\ pages \o page # <<>> =>
              (pages \o page)[1].n - 1 + Len(pages \o page) = call.offset + Len(page)
    <3>1. pages # <<>> => pages[1].n - 1 + Len(pages) = call.offset
      BY <1>5
    <3>2. pages \in Seq(Line) /\ page \in Seq(Line) /\ call.offset \in Nat /\ Len(text) \in Nat
      BY <1>2, <1>3, <2>1, <2>2
    <3> QED BY <2>3, <2>4, <3>1, <3>2, ContinuesWith
  <2>6. pages' = pages \o page /\ call'.out = page
    BY <1>8 DEF page
  <2>7. Position' = call.offset + Len(page)
    BY <1>1, <1>2, <1>8, <2>6 DEF Position
  <2>8. EntryAt(tree, call.place).kind = "file"
        /\ Continues(pages', EntryAt(tree, call.place).text)
    BY <1>8, <2>5, <2>6 DEF entry, text
  <2>9. pages'[1].n - 1 + Len(pages') = Position'
    BY <2>5, <2>6, <2>7
  <2> QED BY <1>1, <1>2, <1>4, <2>8, <2>9
<1> QED BY <1>2, <1>7, <1>8

LEMMA PagingKept ==
    ASSUME IInv, Resolving, Paging, QuietNext, UNCHANGED tree
    PROVE  Paging'
<1>1. CASE Asks
  <2>1. pages' = <<>>
    BY <1>1, AsksCases DEF IInv, WellFormed
  <2> QED BY <2>1 DEF Paging
<1>2. CASE AsksForMore
  <2>1. /\ call.pc = "done" /\ call.op = "read_file" /\ call.answer = "ok"
        /\ hit = None /\ Len(call.out) = call.limit
        /\ Call("read_file", call.input, call.offset + call.limit, call.limit)
        /\ pages' = pages
    BY <1>2, AsksForMoreCases
  <2>2. /\ call'.pc = "lexical" /\ call'.op = "read_file" /\ call'.input = call.input
        /\ call'.offset = call.offset + call.limit
    BY <2>1, CallIs
  <2>3. Position = call.offset + call.limit /\ Position' = call.offset + call.limit
    BY <2>1, <2>2 DEF Position
  <2> QED BY <2>1, <2>2, <2>3 DEF Paging
<1>3. CASE ReadsHit
  <2>1. hit' # None
    BY <1>3, ReadsHitCases, PathToolsAssumption
  <2> QED BY <2>1 DEF Paging
<1>4. CASE Resolution
  <2>1. /\ call.pc \in {"lexical", "ancestor", "canonicalize"}
        /\ call'.input = call.input /\ call'.op = call.op /\ call'.offset = call.offset
        /\ pages' = pages /\ hit' = hit
        /\ call'.pc # "done" \/ call'.answer \in {"escape", "cannot_resolve"}
    BY <1>4, ResolutionSteps
  <2>2. Position = call.offset /\ Position' = call.offset
    BY <2>1 DEF Position
  <2>3. call.answer = None /\ {"truncated", "panicked"} \subseteq Answered
    BY <2>1, InFlight DEF Answered
  <2> QED BY <2>1, <2>2, <2>3, NotNone DEF Paging
<1>5. CASE Read
  BY <1>5, PagingRead
<1>6. CASE Walks
  <2>1. call.pc \in {"present", "walk"} /\ pages' = pages /\ hit' = hit
    BY <1>6 DEF Walks, Presents, Visits, WalkEnds
  <2>2. call.op # "read_file" /\ call.answer = None
    BY <2>1 DEF IInv, WellFormed
  <2>3. {"truncated", "panicked"} \subseteq Answered
    BY DEF Answered
  <2> QED BY <2>1, <2>2, <2>3, NotNone DEF Paging
<1>7. CASE UNCHANGED vars
  <2>1. call' = call /\ tree' = tree /\ pages' = pages /\ hit' = hit
    BY <1>7 DEF vars
  <2> QED BY <2>1 DEF Paging, Position
<1> QED BY <1>1, <1>2, <1>3, <1>4, <1>5, <1>6, <1>7 DEF QuietNext

\* At the end of a file its pages are its lines.
LEMMA PagesAreTheFile ==
    ASSUME IInv, Quiet => Resolving /\ Reading /\ Paging
    PROVE  PagesMakeTheFile
<1> DEFINE text == FollowedEntry(tree, call.place).text
           done == \/ call.answer = "past_the_end" /\ pages # <<>>
                   \/ call.answer = "ok" /\ (call.limit = None \/ Len(call.out) < call.limit)
           first == pages[1].n - 1
<1> SUFFICES ASSUME call.pc = "done", call.op = "read_file", Quiet, hit = None, done,
                    pages # <<>>
             PROVE  /\ Len(pages) = Len(text) - first
                    /\ \A i \in 1 .. Len(pages) :
                          pages[i].n = first + i /\ pages[i].text = text[first + i]
  <2>1. pages \in Seq(Line)
    BY DEF IInv, TypeOK
  <2>2. DOMAIN pages = 1 .. Len(pages)
    BY <2>1
  <2> QED BY <2>2 DEF PagesMakeTheFile
<1> DEFINE entry == EntryAt(tree, call.place)
<1>1. GoneOn /\ call.answer \in {"ok", "past_the_end"}
  BY DEF GoneOn
<1>2. /\ pages \in Seq(Line) /\ call.place \in Seq(Name) /\ call.offset \in Nat
      /\ call.limit \in Nat \cup {None} /\ call.input \in Input
  BY <1>1, ResolvedLinkless DEF IInv, TypeOK, WellFormed
<1>3. /\ ResolvesTo(tree, call.input, call.place)
      /\ FollowedEntry(tree, call.place) = entry /\ entry \in Entry
  BY <1>1, ReadsWhatIsThere DEF Resolving
<1>4. /\ first + Len(pages) = Position
      /\ \E file : /\ ResolvesTo(tree, call.input, file) /\ EntryAt(tree, file).kind = "file"
                   /\ Continues(pages, EntryAt(tree, file).text)
  BY <1>1 DEF Paging
<1>5. entry.kind = "file" /\ Continues(pages, entry.text)
  BY <1>2, <1>3, <1>4, OneResolution
<1>6. /\ call.answer = "past_the_end" => call.offset >= Len(entry.text)
      /\ call.answer = "ok" =>
            /\ call.out = Page(entry.text)
            /\ call.offset < Len(entry.text) \/ entry.text = <<>>
  BY <1>1 DEF Reading
<1>7. text = entry.text /\ text \in Seq(Seq(Char)) /\ Len(text) \in Nat
  BY <1>3, <1>5, FileText
<1>8. \A i \in 1 .. Len(pages) :
         /\ pages[i].n = first + i /\ pages[i].text = text[first + i]
         /\ first + i \in 1 .. Len(text)
  BY <1>5, <1>7 DEF Continues
<1>9. Len(pages) \in Nat /\ Len(pages) >= 1 /\ first \in Int
  <2>1. 1 \in 1 .. Len(pages) /\ Len(pages) \in Nat /\ Len(pages) >= 1
    BY <1>2
  <2>2. pages[1] \in Line
    BY <1>2, <2>1
  <2> QED BY <2>1, <2>2 DEF Line
<1>10. first + Len(pages) <= Len(text)
  <2>1. Len(pages) \in 1 .. Len(pages)
    BY <1>9
  <2>2. first + Len(pages) \in 1 .. Len(text)
    BY <1>8, <2>1
  <2> QED BY <1>7, <2>2
<1>11. first + Len(pages) >= Len(text)
  <2>1. CASE call.answer = "past_the_end"
    <3>1. Position = call.offset
      BY <2>1 DEF Position
    <3> QED BY <2>1, <3>1, <1>4, <1>6, <1>7
  <2>2. CASE call.answer = "ok"
    <3> DEFINE length == Len(Page(entry.text))
    <3>1. Position = call.offset + length
      BY <2>2, <1>6 DEF Position
    <3>2. call.limit = None \/ length < call.limit
      BY <2>2, <1>6
    <3>3. Page(entry.text) = Page(text)
      BY <1>7
    <3>4. length = IF call.offset >= Len(text) THEN 0
                   ELSE IF call.limit = None \/ call.offset + call.limit >= Len(text)
                   THEN Len(text) - call.offset ELSE call.limit
      BY <1>2, <1>7, <3>3, PageFacts
    <3> HIDE DEF length, first, text
    <3>5. CASE call.limit = None
      BY <1>2, <1>4, <1>7, <3>1, <3>4, <3>5
    <3>6. CASE call.limit # None
      <4>1. call.limit \in Nat /\ length < call.limit
        BY <1>2, <3>2, <3>6
      <4>2. CASE call.offset >= Len(text)
        BY <1>2, <1>4, <1>7, <3>1, <3>4, <4>2
      <4>3. CASE ~(call.offset >= Len(text))
        BY <1>2, <1>4, <1>7, <3>1, <3>4, <3>6, <4>1, <4>3
      <4> QED BY <4>2, <4>3
    <3> QED BY <3>5, <3>6
  <2> QED BY <1>1, <2>1, <2>2
<1>12. Len(pages) = Len(text) - first
  <2> HIDE DEF first, text
  <2> QED BY <1>7, <1>9, <1>10, <1>11
<1> QED BY <1>8, <1>12

-----------------------------------------------------------------------------
(* What a walk is to visit, and what it prints of it. *)

\* A call of list_dir or search whose path has led it to something.
Walkable ==
    /\ IsTree(tree) /\ tree \in [DOMAIN tree -> Entry]
    /\ call.place \in Seq(Name) /\ Under(call.place) /\ Plain(tree, call.place)
    /\ call.op \in {"list_dir", "search"} /\ call.limit \in Nat

LEMMA RegionFacts ==
    ASSUME Walkable, NEW p \in Region
    PROVE  /\ p \in Seq(Name) /\ EntryAt(tree, p).kind # "none"
           /\ IsPrefix(call.place, p) /\ Under(p) /\ Len(call.place) <= Len(p)
           /\ Seen(p) = EntryAt(tree, p) /\ EntryAt(tree, p) \in Entry
           /\ EntryAt(tree, p).kind # "link" => Plain(tree, p)
           /\ EntryAt(tree, p).kind # "link" => (Readable(p) <=> p \notin Unreadable)
           /\ \A k \in Len(call.place) + 1 .. Len(p) : p[k] \notin Ignored
           /\ Reachable(p)
           /\ call.op = "list_dir" => Depth(p) <= call.limit
           /\ p # call.place => p \in DOMAIN tree /\ Visible(p)
<1>0. ASSUME Plain(tree, p) PROVE Readable(p) <=> p \notin Unreadable
  BY <1>0, PlainLeadsThere DEF Readable, Walkable
<1>1. CASE p = call.place
  <2>1. /\ EntryAt(tree, p).kind # "none" /\ p \in Seq(Name) /\ NoLinks(tree, p)
        /\ Plain(tree, p) /\ Under(p)
    BY <1>1 DEF Walkable, Plain
  <2>2. IsPrefix(call.place, p) /\ Len(call.place) <= Len(p)
    BY <1>1, <2>1, PrefixFacts
  <2>3. FollowedEntry(tree, p) = EntryAt(tree, p) /\ EntryAt(tree, p) \in Entry
    BY <2>1, LinklessIsSeen, EntryType DEF Walkable
  <2>4. Depth(p) = 0 /\ call.limit \in Nat
    BY <1>1, <2>1 DEF Depth, Walkable
  <2>5. /\ \A k \in Len(call.place) + 1 .. Len(p) : FALSE
        /\ \A k \in Len(call.place) .. Len(p) - 1 : FALSE
    BY <1>1, <2>1
  <2> QED BY <1>0, <1>1, <2>1, <2>2, <2>3, <2>4, <2>5 DEF Seen, Reachable
<1>2. CASE p # call.place
  <2>1. p \in DOMAIN tree /\ Visible(p) /\ (call.op = "list_dir" => Depth(p) <= call.limit)
    BY <1>2 DEF Region
  <2>2. p \in Seq(Name) /\ call.place \in Seq(Name)
    BY <2>1 DEF Walkable, IsTree
  <2>3. /\ IsPrefix(call.place, p) /\ tree[p].kind # "none"
        /\ \A k \in Len(call.place) + 1 .. Len(p) : p[k] \notin Ignored
        /\ Reachable(p)
    BY <2>1 DEF Visible, IsStrictPrefix
  <2>4. Len(call.place) < Len(p)
    BY <1>2, <2>2, <2>3, PrefixFacts
  <2>5. p # <<>>
    <3>1. Len(call.place) \in Nat
      BY <2>2
    <3> QED BY <2>4, <3>1
  <2>6. EntryAt(tree, p) = tree[p] /\ EntryAt(tree, p) \in Entry
    BY <2>1, <2>5, EntryType DEF EntryAt, Walkable
  <2>7. /\ Plain(tree, Front(p))
        /\ EntryAt(tree, p).kind # "link" => Plain(tree, p)
    BY <2>3, <2>5, <2>6, BelowPlain DEF Walkable
  <2>8. Follow(tree, Front(p)) = Front(p) /\ Front(p) # None /\ p = Append(Front(p), Last(p))
    <3>1. Front(p) \in Seq(Name) /\ p = Append(Front(p), Last(p))
      BY <2>2, <2>5, FrontFacts
    <3> QED BY <2>7, <3>1, PlainLeadsThere, RootAssumption DEF Walkable
  <2>9. Seen(p) = EntryAt(tree, p)
    BY <1>2, <2>8 DEF Seen
  <2>10. Under(p)
    <3>1. Root \in Seq(Name) /\ IsPrefix(Root, call.place)
      BY RootAssumption DEF Walkable, Under
    <3> QED BY <2>2, <2>3, <3>1, PrefixFacts DEF Under
  <2>11. Len(call.place) <= Len(p)
    BY <2>2, <2>3, PrefixFacts
  <2> QED BY <1>0, <1>2, <2>1, <2>2, <2>3, <2>6, <2>7, <2>9, <2>10, <2>11
<1> QED BY <1>1, <1>2

LEMMA InRegion ==
    ASSUME Walkable, NEW p \in Seq(Name), EntryAt(tree, p).kind # "none",
           IsPrefix(call.place, p), call.op = "list_dir" => Depth(p) <= call.limit,
           Reachable(p), \A k \in Len(call.place) + 1 .. Len(p) : p[k] \notin Ignored
    PROVE  p \in Region
<1>1. CASE p = call.place
  BY <1>1 DEF Region
<1>2. CASE p # call.place
  <2>1. Len(call.place) < Len(p) /\ Len(call.place) \in Nat
    BY <1>2, PrefixFacts DEF Walkable
  <2>2. p # <<>>
    BY <2>1
  <2>3. p \in DOMAIN tree /\ tree[p].kind # "none"
    BY <2>2 DEF EntryAt, Nothing
  <2>4. Visible(p)
    BY <1>2, <2>3 DEF Visible, IsStrictPrefix
  <2> QED BY <2>3, <2>4 DEF Region
<1> QED BY <1>1, <1>2

\* What is below a place is one name longer, and everything in the region that is longer
\* than the place and begins with it is at or below one of these.
LEMMA BelowFacts ==
    ASSUME Walkable, NEW p \in Region
    PROVE  /\ Below(p) \subseteq Region
           /\ \A q \in Below(p) : \E name \in Name : q = Append(p, name)
           /\ \A q \in Region : IsPrefix(p, q) /\ q # p => \E r \in Below(p) : IsPrefix(r, q)
<1> DEFINE names == {name \in Name \ Ignored : EntryAt(tree, Append(p, name)).kind # "none"}
           goes == EntryAt(tree, p).kind = "dir" /\ p \notin Unreadable
                   /\ (call.op = "list_dir" => Depth(p) < call.limit)
           P == call.place
<1>1. /\ p \in Seq(Name) /\ EntryAt(tree, p).kind # "none"
      /\ IsPrefix(P, p) /\ Seen(p) = EntryAt(tree, p)
      /\ EntryAt(tree, p).kind # "link" => Plain(tree, p)
      /\ EntryAt(tree, p).kind # "link" => (Readable(p) <=> p \notin Unreadable)
      /\ \A k \in Len(P) + 1 .. Len(p) : p[k] \notin Ignored
      /\ Reachable(p)
      /\ Len(P) \in Nat /\ Len(p) \in Nat /\ Len(P) <= Len(p) /\ P \in Seq(Name)
  <2>1. p \in Seq(Name) /\ P \in Seq(Name)
    BY RegionFacts DEF Walkable
  <2> QED BY <2>1, RegionFacts
<1>2. Below(p) = IF goes THEN {Append(p, name) : name \in names} ELSE {}
  <2>1. EntryAt(tree, p).kind = "dir" => Follow(tree, p) = p
    BY <1>1, PlainLeadsThere DEF Walkable
  <2> QED BY <1>1, <2>1 DEF Below
<1>3. \A name \in Name :
         /\ Append(p, name) \in Seq(Name) /\ Len(Append(p, name)) = Len(p) + 1
         /\ Append(p, name)[Len(p) + 1] = name
         /\ \A k \in 1 .. Len(p) : Append(p, name)[k] = p[k]
  BY <1>1
<1> HIDE DEF P
<1>4. ASSUME NEW name \in names, goes PROVE Append(p, name) \in Region
  <2> DEFINE q == Append(p, name)
  <2>1. /\ q \in Seq(Name) /\ EntryAt(tree, q).kind # "none" /\ Len(q) = Len(p) + 1
        /\ q[Len(p) + 1] = name /\ name \notin Ignored
        /\ \A k \in 1 .. Len(p) : q[k] = p[k]
    BY <1>3
  <2>2. IsPrefix(P, q) /\ IsPrefix(p, q)
    <3>1. name \in Name
      OBVIOUS
    <3>2. IsPrefix(p, q)
      BY <1>1, <3>1, PrefixOfAppend
    <3> QED BY <1>1, <2>1, <3>2, PrefixFacts
  <2> HIDE DEF q
  <2>3. ASSUME call.op = "list_dir" PROVE Depth(q) <= call.limit
    <3>1. Depth(p) < call.limit /\ call.limit \in Nat
      BY <1>4, <2>3 DEF Walkable
    <3>2. Depth(p) = Len(p) - Len(P) /\ Depth(q) = Len(q) - Len(P)
      BY DEF Depth, P
    <3> QED BY <1>1, <2>1, <3>1, <3>2
  <2>4. \A k \in Len(P) + 1 .. Len(q) : q[k] \notin Ignored
    <3> SUFFICES ASSUME NEW k \in Len(P) + 1 .. Len(q) PROVE q[k] \notin Ignored
      OBVIOUS
    <3>1. CASE k = Len(p) + 1
      BY <2>1, <3>1
    <3>2. CASE k # Len(p) + 1
      <4>1. k \in Len(P) + 1 .. Len(p) /\ k \in 1 .. Len(p)
        BY <1>1, <2>1, <3>2
      <4> QED BY <1>1, <2>1, <4>1
    <3> QED BY <3>1, <3>2
  <2>5. Reachable(q)
    <3> SUFFICES ASSUME NEW k \in Len(P) .. Len(q) - 1 PROVE First(q, k) \notin Unreadable
      BY DEF Reachable, First, P
    <3>1. k \in Nat /\ k <= Len(p)
      BY <1>1, <2>1
    <3>2. First(q, k) = First(p, k)
      <4>1. First(q, Len(p)) = p
        BY <1>1, <2>2, PrefixIsFirst
      <4>2. k \in 0 .. Len(p) /\ Len(p) \in 0 .. Len(q)
        BY <1>1, <2>1, <3>1
      <4> QED BY <2>1, <4>1, <4>2, FirstOfFirst
    <3>3. CASE k = Len(p)
      BY <1>1, <1>4, <3>2, <3>3, SubSeqFull DEF First
    <3>4. CASE k # Len(p)
      <4>1. k \in Len(P) .. Len(p) - 1
        BY <1>1, <3>1, <3>4
      <4> QED BY <1>1, <3>2, <4>1 DEF Reachable, First, P
    <3> QED BY <3>3, <3>4
  <2> QED BY <2>1, <2>2, <2>3, <2>4, <2>5, InRegion DEF P, q
<1>5. ASSUME NEW q \in Region, IsPrefix(p, q), q # p
      PROVE  \E r \in Below(p) : IsPrefix(r, q)
  <2>1. /\ q \in Seq(Name) /\ EntryAt(tree, q).kind # "none"
        /\ \A k \in Len(P) + 1 .. Len(q) : q[k] \notin Ignored
        /\ Reachable(q)
        /\ call.op = "list_dir" => Depth(q) <= call.limit
    BY RegionFacts DEF P
  <2> DEFINE name == q[Len(p) + 1]
             r == Append(p, name)
  <2>2. Len(p) < Len(q) /\ name \in Name /\ IsPrefix(r, q)
    BY <1>1, <1>5, <2>1, PrefixFacts
  <2>3. Len(q) \in Nat
    BY <2>1
  <2>4. name \notin Ignored
    <3>1. Len(p) + 1 \in Len(P) + 1 .. Len(q)
      BY <1>1, <2>2, <2>3
    <3> QED BY <2>1, <3>1
  <2>5. r \in Seq(Name) /\ Len(r) = Len(p) + 1
    BY <1>3, <2>2
  <2>6. First(q, Len(p)) = p /\ First(q, Len(p) + 1) = r
    BY <1>1, <1>5, <2>1, <2>2, <2>5, PrefixIsFirst
  <2>7. EntryAt(tree, p).kind = "dir"
    <3>1. Len(p) \in 0 .. Len(q) - 1
      BY <1>1, <2>2, <2>3
    <3> QED BY <2>1, <2>6, <3>1, InDirectories DEF First, Walkable
  <2>8. EntryAt(tree, r).kind # "none"
    <3>1. CASE Len(r) = Len(q)
      <4>1. r = q
        BY <2>1, <2>2, <2>5, <3>1, PrefixFacts
      <4> QED BY <2>1, <4>1
    <3>2. CASE Len(r) # Len(q)
      <4>1. Len(p) + 1 \in 0 .. Len(q) - 1
        BY <1>1, <2>2, <2>3, <2>5, <3>2
      <4>2. EntryAt(tree, r).kind = "dir"
        BY <2>1, <2>6, <4>1, InDirectories DEF First, Walkable
      <4> QED BY <4>2
    <3> QED BY <3>1, <3>2
  <2>9. goes
    <3>1. p \notin Unreadable
      <4>1. Len(p) \in Len(P) .. Len(q) - 1
        BY <1>1, <2>2, <2>3
      <4> QED BY <2>1, <2>6, <4>1 DEF Reachable, First, P
    <3> QED BY <1>1, <2>1, <2>2, <2>3, <2>7, <3>1 DEF Depth, Walkable, P
  <2>10. name \in names
    BY <2>2, <2>4, <2>8
  <2> HIDE DEF name, goes, names
  <2>11. r \in Below(p)
    BY <1>2, <2>9, <2>10
  <2> QED BY <2>2, <2>11
<1>6. \A q \in Below(p) : \E name \in names : goes /\ q = Append(p, name)
  BY <1>2
<1>7. Below(p) \subseteq Region
  <2> HIDE DEF goes, names
  <2> QED BY <1>4, <1>6
<1>8. names \subseteq Name
  OBVIOUS
<1> HIDE DEF goes, names
<1>9. \A q \in Below(p) : \E name \in Name : q = Append(p, name)
  BY <1>6, <1>8
<1> QED BY <1>5, <1>7, <1>9

\* A visit goes from a place to those below it: no other has been visited by it.
LEMMA VisitedGrows ==
    ASSUME Walkable, NEW todo \in SUBSET Region, Apart(todo), NEW p \in todo
    PROVE  LET more == (todo \ {p}) \cup Below(p)
           IN  /\ more \subseteq Region /\ Apart(more)
               /\ Visited(more) = Visited(todo) \cup {p} /\ p \notin Visited(todo)
<1> DEFINE more == (todo \ {p}) \cup Below(p)
<1>1. /\ Below(p) \subseteq Region
      /\ \A q \in Below(p) : \E name \in Name : q = Append(p, name)
      /\ \A q \in Region : IsPrefix(p, q) /\ q # p => \E r \in Below(p) : IsPrefix(r, q)
  BY BelowFacts
<1>2. \A q \in Region : q \in Seq(Name)
  BY RegionFacts
<1>3. p \in Region /\ p \in Seq(Name) /\ more \subseteq Region /\ IsPrefix(p, p)
  BY <1>1, <1>2, PrefixFacts
<1>4. \A r \in Below(p) : /\ r \in Seq(Name) /\ Len(r) = Len(p) + 1 /\ IsPrefix(p, r)
                          /\ r # p
  <2> SUFFICES ASSUME NEW r \in Below(p)
               PROVE  /\ r \in Seq(Name) /\ Len(r) = Len(p) + 1 /\ IsPrefix(p, r) /\ r # p
    OBVIOUS
  <2>1. PICK name \in Name : r = Append(p, name)
    BY <1>1
  <2>2. Append(p, name) \in Seq(Name) /\ Len(Append(p, name)) = Len(p) + 1
    BY <1>3
  <2>3. IsPrefix(p, Append(p, name)) /\ Append(p, name) # p
    BY <1>3, PrefixOfAppend
  <2> QED BY <2>1, <2>2, <2>3
<1>5. \A q \in Seq(Name), r \in Below(p) : IsPrefix(q, r) => q = r \/ IsPrefix(q, p)
  <2> SUFFICES ASSUME NEW q \in Seq(Name), NEW r \in Below(p), IsPrefix(q, r)
               PROVE  q = r \/ IsPrefix(q, p)
    OBVIOUS
  <2>1. PICK name \in Name : r = Append(p, name)
    BY <1>1
  <2> QED BY <1>3, <2>1, PrefixOfAppend
<1>6. \A q \in Seq(Name), r \in Below(p) : IsPrefix(r, q) => IsPrefix(p, q)
  BY <1>3, <1>4, PrefixFacts
<1>7. ~ \E r \in Below(p) : IsPrefix(r, p)
  <2> SUFFICES ASSUME NEW r \in Below(p), IsPrefix(r, p) PROVE FALSE
    OBVIOUS
  <2>1. Len(r) <= Len(p) /\ Len(r) = Len(p) + 1 /\ Len(p) \in Nat
    BY <1>3, <1>4, PrefixFacts
  <2> QED BY <2>1
<1>8. \A q, r \in Below(p) : IsPrefix(q, r) => q = r
  BY <1>4, PrefixFacts
<1>9. Apart(more)
  <2> SUFFICES ASSUME NEW q \in more, NEW r \in more, IsPrefix(q, r) PROVE q = r
    BY DEF Apart
  <2>1. q \in Seq(Name) /\ r \in Seq(Name)
    BY <1>2, <1>3
  <2>2. CASE q \in todo \ {p} /\ r \in todo \ {p}
    BY <2>2 DEF Apart
  <2>3. CASE q \in todo \ {p} /\ r \in Below(p)
    BY <2>1, <2>3, <1>5 DEF Apart
  <2>4. CASE q \in Below(p) /\ r \in todo \ {p}
    BY <2>1, <2>4, <1>6 DEF Apart
  <2>5. CASE q \in Below(p) /\ r \in Below(p)
    BY <2>5, <1>8
  <2> QED BY <2>2, <2>3, <2>4, <2>5
<1>10. Visited(more) \subseteq Visited(todo) \cup {p}
  <2> SUFFICES ASSUME NEW q \in Visited(more), q # p PROVE q \in Visited(todo)
    OBVIOUS
  <2>1. q \in Region /\ \A r \in more : ~IsPrefix(r, q)
    BY DEF Visited
  <2>2. ~IsPrefix(p, q)
    BY <1>1, <2>1
  <2> QED BY <2>1, <2>2 DEF Visited
<1>11. Visited(todo) \subseteq Visited(more)
  <2> SUFFICES ASSUME NEW q \in Visited(todo), NEW r \in Below(p) PROVE ~IsPrefix(r, q)
    BY DEF Visited
  <2>1. q \in Seq(Name) /\ ~IsPrefix(p, q)
    BY <1>2 DEF Visited
  <2> QED BY <1>6, <2>1
<1>12. p \in Visited(more)
  <2>1. \A r \in todo \ {p} : ~IsPrefix(r, p)
    BY DEF Apart
  <2> QED BY <1>3, <1>7, <2>1 DEF Visited
<1>13. p \notin Visited(todo)
  BY <1>3 DEF Visited
<1> QED BY <1>3, <1>9, <1>10, <1>11, <1>12, <1>13

\* At a place's own name everything is still to be visited, and at none nothing is.
LEMMA VisitedFromTo ==
    ASSUME Walkable
    PROVE  /\ Visited({call.place}) = {} /\ Visited({}) = Region
           /\ {call.place} \subseteq Region /\ Apart({call.place})
<1>1. \A p \in Region : IsPrefix(call.place, p)
  BY RegionFacts
<1> QED BY <1>1 DEF Visited, Apart, Region

LEMMA OneLine ==
    ASSUME NEW line \in Line
    PROVE  /\ <<line>> \in Seq(Line) /\ <<line>> # <<>> /\ Len(<<line>>) = 1
           /\ ToSet(<<line>>) = {line} /\ Distinct(<<line>>)
<1>1. <<line>> \in Seq(Line) /\ Len(<<line>>) = 1 /\ <<line>>[1] = line /\ <<line>> # <<>>
  OBVIOUS
<1> DEFINE s == <<line>>
<1>2. s \in Seq(Line) /\ Len(s) = 1 /\ s[1] = line /\ s # <<>>
  BY <1>1
<1> HIDE DEF s
<1>3. ToSet(s) = {s[i] : i \in 1 .. Len(s)}
  BY <1>2, SetOfConcat
<1>4. ToSet(s) = {line}
  BY <1>2, <1>3
<1>5. Distinct(s)
  BY <1>2 DEF Distinct
<1> QED BY <1>2, <1>4, <1>5 DEF s

\* There is nothing in no lines.
LEMMA NoLine ==
    <<>> \in Seq(Line) /\ Distinct(<<>>) /\ ToSet(<<>>) = {}
<1>1. <<>> \in Seq(Line) /\ Len(<<>>) = 0 /\ DOMAIN <<>> = {}
  OBVIOUS
<1>2. ToSet(<<>>) = {}
  BY <1>1 DEF ToSet
<1>3. Distinct(<<>>)
  BY <1>1 DEF Distinct
<1> QED BY <1>1, <1>2, <1>3

LEMMA BareLine ==
    ASSUME NEW path \in Input
    PROVE  OutputLine(path, 0, <<>>) \in Line /\ OutputLine(path, 0, <<>>).path = path
<1>1. <<>> \in Seq(Char) /\ 0 \in Nat
  OBVIOUS
<1> QED BY <1>1 DEF OutputLine, Line

\* What is printed of a place is of that place, once each: of a file its matching lines.
LEMMA PrintedFacts ==
    ASSUME Walkable, NEW p \in Region
    PROVE  /\ Printed(p) \in Seq(Line) /\ Distinct(Printed(p))
           /\ \A line \in ToSet(Printed(p)) : PlaceOf(line) = p
           /\ call.op = "list_dir" =>
                 /\ p = call.place => ToSet(Printed(p)) = {}
                 /\ p # call.place => ToSet(Printed(p)) # {}
           /\ call.op = "search" =>
                 ToSet(Printed(p)) = IF EntryAt(tree, p).kind = "file" /\ p \notin Unreadable
                                     THEN ToSet(Hits(Shown(p), EntryAt(tree, p).text)) ELSE {}
           /\ call.op = "search" =>
                 \A line \in ToSet(Printed(p)) : \E n : IsHit(line, p, n)
<1>1. /\ p \in Seq(Name) /\ EntryAt(tree, p).kind # "none" /\ EntryAt(tree, p) \in Entry
      /\ IsPrefix(call.place, p) /\ Under(p) /\ Seen(p) = EntryAt(tree, p)
      /\ EntryAt(tree, p).kind # "link" =>
            Plain(tree, p) /\ (Readable(p) <=> p \notin Unreadable)
  BY RegionFacts
<1>2. <<>> \in Seq(Line) /\ Distinct(<<>>) /\ ToSet(<<>>) = {}
  BY NoLine
<1>3. CASE call.op = "search" /\ EntryAt(tree, p).kind = "file" /\ p \notin Unreadable
  <2> DEFINE text == EntryAt(tree, p).text
             hits == Hits(Shown(p), text)
  <2>1. text \in Seq(Seq(Char)) /\ Shown(p) \in Input /\ Lexical(Joined(Shown(p))) = p
    BY <1>1, <1>3, FileText, ShownReads
  <2>2. Printed(p) = hits
    BY <1>1, <1>3 DEF Printed
  <2>3. Plain(tree, p)
    BY <1>1, <1>3
  <2> HIDE DEF text
  <2>4. /\ hits \in Seq(Line) /\ Distinct(hits)
        /\ \A i \in 1 .. Len(hits) :
              \E n \in 1 .. Len(text) : hits[i] = OutputLine(Shown(p), n, Trimmed(text[n]))
    BY <2>1, HitsFacts
  <2> HIDE DEF hits
  <2>5. ToSet(hits) = {hits[i] : i \in 1 .. Len(hits)}
    BY <2>4, SetOfConcat
  <2>6. ASSUME NEW line \in ToSet(hits)
        PROVE  PlaceOf(line) = p /\ \E n : IsHit(line, p, n)
    <3>1. PICK n \in 1 .. Len(text) : line = OutputLine(Shown(p), n, Trimmed(text[n]))
      BY <2>4, <2>5
    <3>2. n \in Nat /\ Trimmed(text[n]) \in Seq(Char)
      <4>1. n \in Nat /\ text[n] \in Seq(Char)
        BY <2>1
      <4> QED BY <4>1, TrimmedType
    <3>3. line.path = Shown(p)
      BY <2>1, <3>1, <3>2, OutputLineType
    <3>4. PlaceOf(line) = p
      BY <1>3, <2>1, <3>3 DEF PlaceOf
    <3>5. IsHit(line, p, n)
      BY <1>1, <1>3, <2>3, <3>1 DEF IsHit, text
    <3> QED BY <3>4, <3>5
  <2>7. ToSet(Printed(p)) = ToSet(Hits(Shown(p), EntryAt(tree, p).text))
    BY <2>2 DEF hits, text
  <2> QED BY <1>3, <2>2, <2>4, <2>6, <2>7
<1>4. CASE call.op = "search" /\ ~(EntryAt(tree, p).kind = "file" /\ p \notin Unreadable)
  <2>1. Printed(p) = <<>>
    BY <1>1, <1>4 DEF Printed
  <2> QED BY <1>2, <1>4, <2>1
<1>5. CASE call.op = "list_dir" /\ p = call.place
  <2>1. Printed(p) = <<>>
    BY <1>5 DEF Printed
  <2> QED BY <1>2, <1>5, <2>1
<1>6. CASE call.op = "list_dir" /\ p # call.place
  <2> DEFINE path == [abs |-> FALSE, parts |-> After(p, Len(call.place))]
             line == OutputLine(path, 0, <<>>)
  <2>1. Printed(p) = <<line>>
    BY <1>1, <1>6 DEF Printed, After
  <2>2. Printed(p) \in Seq(Line)
    BY <1>1, PrintedType DEF Walkable
  <2>3. call.place \in Seq(Name) /\ Len(call.place) \in 0 .. Len(p)
        /\ First(p, Len(call.place)) = call.place
    <3>1. call.place \in Seq(Name)
      BY DEF Walkable
    <3>2. Len(call.place) <= Len(p) /\ First(p, Len(call.place)) = call.place
      BY <1>1, <3>1, PrefixIsFirst
    <3>3. Len(call.place) \in Nat /\ Len(p) \in Nat
      BY <1>1, <3>1
    <3> QED BY <3>1, <3>2, <3>3
  <2>4. After(p, Len(call.place)) \in Seq(Name) /\ p = call.place \o After(p, Len(call.place))
    <3>1. p = First(p, Len(call.place)) \o After(p, Len(call.place))
      BY <1>1, <2>3, FirstAfter
    <3>2. After(p, Len(call.place)) \in Seq(Name)
      BY <1>1, <2>3, AfterFacts
    <3> QED BY <2>3, <3>1, <3>2
  <2>5. path \in Input
    <3>1. After(p, Len(call.place)) \in Seq(Part)
      BY <2>4 DEF Part
    <3> QED BY <3>1 DEF Input
  <2>6. path.parts = After(p, Len(call.place))
    OBVIOUS
  <2> HIDE DEF path
  <2>7. line \in Line /\ line.path = path
    BY <2>5, BareLine
  <2> HIDE DEF line
  <2>8. PlaceOf(line) = p
    BY <1>6, <2>4, <2>6, <2>7 DEF PlaceOf
  <2> QED BY <1>6, <2>1, <2>2, <2>7, <2>8, OneLine
<1>7. call.op \in {"list_dir", "search"}
  BY DEF Walkable
<1> QED BY <1>3, <1>4, <1>5, <1>6, <1>7

\* While a walk goes on what it has to do, has done and prints stays what it is.
LEMMA SameWalk ==
    ASSUME tree' = tree, call'.place = call.place, call'.op = call.op,
           call'.limit = call.limit
    PROVE  /\ Region' = Region
           /\ \A todo : Visited(todo)' = Visited(todo)
           /\ \A places : PrintedOf(places)' = PrintedOf(places)
           /\ \A line : PlaceOf(line)' = PlaceOf(line)
<1>1. Region' = Region
  BY DEF Region, Visible, Reachable, Depth
<1>2. \A todo : Visited(todo)' = Visited(todo)
  BY <1>1 DEF Visited
<1>3. ASSUME NEW p PROVE Printed(p)' = Printed(p)
  <2>1. Seen(p)' = Seen(p)
    BY DEF Seen
  <2> QED BY <2>1 DEF Printed, Readable
<1>4. \A places : PrintedOf(places)' = PrintedOf(places)
  BY <1>3 DEF PrintedOf
<1>5. \A line : PlaceOf(line)' = PlaceOf(line)
  BY DEF PlaceOf
<1> QED BY <1>1, <1>2, <1>4, <1>5

-----------------------------------------------------------------------------
(* Walking. *)

LEMMA InWalk ==
    ASSUME IInv, Resolving, Walking, call.pc = "walk"
    PROVE  Walkable
<1>1. call.place \in Seq(Name) /\ Under(call.place) /\ NoLinks(tree, call.place)
  BY ResolvedLinkless DEF GoneOn
<1>2. EntryAt(tree, call.place).kind # "none"
  BY DEF Walking
<1>3. call.op \in {"list_dir", "search"} /\ call.limit \in Nat
  BY DEF IInv, TypeOK, WellFormed
<1>4. IsTree(tree) /\ tree \in [DOMAIN tree -> Entry]
  BY DEF Resolving, IInv, TypeOK
<1> QED BY <1>1, <1>2, <1>3, <1>4 DEF Walkable, Plain

\* A visit prints what there is at its place, and nothing that was printed before.
LEMMA Visiting ==
    ASSUME IInv, Resolving, Walking, NEW place, Visits(place)
    PROVE  LET out  == call.out \o Printed(place)
               more == (call.todo \ {place}) \cup Below(place)
           IN  /\ Walkable /\ out \in Seq(Line) /\ Distinct(out)
               /\ more \subseteq Region /\ Apart(more)
               /\ ToSet(out) = PrintedOf(Visited(more))
<1> DEFINE out  == call.out \o Printed(place)
           more == (call.todo \ {place}) \cup Below(place)
<1>1. call.pc = "walk" /\ place \in call.todo /\ call.out \in Seq(Line) /\ out \in Seq(Line)
  BY VisitCases
<1>2. Walkable
  BY <1>1, InWalk
<1>3. /\ call.todo \subseteq Region /\ Apart(call.todo) /\ Distinct(call.out)
      /\ ToSet(call.out) = PrintedOf(Visited(call.todo))
  BY <1>1 DEF Walking
<1>4. /\ more \subseteq Region /\ Apart(more)
      /\ Visited(more) = Visited(call.todo) \cup {place}
      /\ place \notin Visited(call.todo)
  BY <1>1, <1>2, <1>3, VisitedGrows
<1>5. /\ Printed(place) \in Seq(Line) /\ Distinct(Printed(place))
      /\ \A line \in ToSet(Printed(place)) : PlaceOf(line) = place
  BY <1>1, <1>2, <1>3, PrintedFacts
<1>6. \A other \in Visited(call.todo) : \A line \in ToSet(Printed(other)) :
         PlaceOf(line) = other
  BY <1>2, PrintedFacts DEF Visited
<1>7. ToSet(call.out) \cap ToSet(Printed(place)) = {}
  <2> SUFFICES ASSUME NEW line \in ToSet(call.out), line \in ToSet(Printed(place))
               PROVE  FALSE
    OBVIOUS
  <2>1. PICK other \in Visited(call.todo) : line \in ToSet(Printed(other))
    BY <1>3 DEF PrintedOf
  <2>2. other = place
    BY <1>5, <1>6, <2>1
  <2> QED BY <1>4, <2>1, <2>2
<1>8. ToSet(out) = ToSet(call.out) \cup ToSet(Printed(place)) /\ Distinct(out)
  BY <1>1, <1>3, <1>5, <1>7, SetOfConcat
<1> HIDE DEF out, more
<1>9. ToSet(out) = PrintedOf(Visited(more))
  BY <1>3, <1>4, <1>8 DEF PrintedOf
<1> QED BY <1>1, <1>2, <1>4, <1>8, <1>9 DEF out, more

LEMMA WalkingKept ==
    ASSUME IInv, Resolving, Walking, QuietNext, UNCHANGED tree
    PROVE  Walking'
<1>0. DOMAIN call = DOMAIN Idle
  BY DEF IInv, WellFormed
<1>1. CASE Asks \/ AsksForMore \/ ReadsHit
  BY <1>1, BegunIs DEF Walking
<1>2. CASE Resolution
  BY <1>2, ResolutionSteps DEF Walking
<1>3. CASE Read
  BY <1>3, ReadAnswers DEF Walking
<1>4. CASE WalkEnds
  <2>1. /\ call.pc = "walk" /\ AnswersText("ok", call.out)
        /\ call.out \in Seq(Line)
    BY <1>4 DEF WalkEnds, IInv, TypeOK
  <2>2. \E a, o : Answers(a, o)
    BY <2>1, TextIsAnswered
  <2> QED BY <2>2, AnswersIs DEF Walking
<1>5. CASE Presents
  <2> DEFINE kind == FollowedEntry(tree, call.place).kind
  <2>1. /\ call.pc = "present"
        /\ \/ Refuses("refused")
           \/ /\ kind # "none" /\ (call.op = "list_dir" => kind = "dir")
              /\ call' = [call EXCEPT !.pc = "walk", !.todo = {call.place}]
    BY <1>5 DEF Presents
  <2>2. CASE Refuses("refused")
    BY <2>2, AnswersIs DEF Refuses, Walking
  <2>3. CASE /\ kind # "none" /\ (call.op = "list_dir" => kind = "dir")
             /\ call' = [call EXCEPT !.pc = "walk", !.todo = {call.place}]
    <3>1. /\ call'.todo = {call.place} /\ call'.place = call.place /\ call'.op = call.op
          /\ call'.limit = call.limit /\ call'.out = <<>>
      BY <1>0, <2>1, <2>3, NotYetPrinted DEF Idle
    <3>2. kind = EntryAt(tree, call.place).kind
      BY <2>1, ReadsWhatIsThere DEF GoneOn
    <3>3. Walkable
      <4>1. call.place \in Seq(Name) /\ Under(call.place) /\ NoLinks(tree, call.place)
        BY <2>1, ResolvedLinkless DEF GoneOn
      <4>2. call.op \in {"list_dir", "search"} /\ call.limit \in Nat
        BY <2>1 DEF IInv, TypeOK, WellFormed
      <4>3. IsTree(tree) /\ tree \in [DOMAIN tree -> Entry]
        BY DEF Resolving, IInv, TypeOK
      <4> QED BY <2>3, <3>2, <4>1, <4>2, <4>3 DEF Walkable, Plain
    <3>4. /\ Visited({call.place}) = {} /\ {call.place} \subseteq Region
          /\ Apart({call.place})
      BY <3>3, VisitedFromTo
    <3>5. PrintedOf({}) = {} /\ ToSet(<<>>) = {} /\ Distinct(<<>>)
      BY NoLine DEF PrintedOf
    <3>6. /\ Region' = Region /\ Visited({call.place})' = Visited({call.place})
          /\ PrintedOf({})' = PrintedOf({})
      BY <3>1, SameWalk
    <3>7. Visited(call.todo)' = {}
      BY <3>1, <3>4, <3>6
    <3>8. PrintedOf(Visited(call.todo))' = {}
      BY <3>5, <3>6, <3>7
    <3> HIDE DEF kind
    <3> QED BY <2>3, <3>1, <3>2, <3>4, <3>5, <3>6, <3>8 DEF Walking
  <2> QED BY <2>1, <2>2, <2>3
<1>6. ASSUME NEW place, Visits(place) PROVE Walking'
  <2> DEFINE out  == call.out \o Printed(place)
             more == (call.todo \ {place}) \cup Below(place)
             some == IF call.limit >= 1 THEN call.limit ELSE 1
  <2>1. /\ call.pc = "walk" /\ call.out \in Seq(Line) /\ Printed(place) \in Seq(Line)
        /\ \/ some \in 1 .. Len(out) /\ AnswersText("stopped", First(out, some))
           \/ /\ call.op = "search" => Printed(place) = <<>> \/ Len(out) < call.limit
              /\ call' = [call EXCEPT !.out = out, !.todo = more]
    BY <1>6, VisitCases
  <2>2. /\ out \in Seq(Line) /\ Distinct(out) /\ more \subseteq Region /\ Apart(more)
        /\ ToSet(out) = PrintedOf(Visited(more))
    BY <1>6, Visiting
  <2>3. CASE some \in 1 .. Len(out) /\ AnswersText("stopped", First(out, some))
    <3>1. First(out, some) \in Seq(Line)
      <4> HIDE DEF out, some
      <4>1. some \in 0 .. Len(out)
        BY <2>3
      <4> QED BY <2>2, <4>1, FirstFacts
    <3>2. \E a, o : Answers(a, o)
      BY <2>3, <3>1, TextIsAnswered
    <3> QED BY <3>2, AnswersIs DEF Walking
  <2>4. CASE /\ call.op = "search" => Printed(place) = <<>> \/ Len(out) < call.limit
             /\ call' = [call EXCEPT !.out = out, !.todo = more]
    <3>1. call.op = "search" => out = <<>> \/ Len(out) < call.limit
      <4>1. ASSUME call.op = "search", Printed(place) = <<>>
            PROVE  out = <<>> \/ Len(out) < call.limit
        <5>1. call.out \o <<>> = call.out
          BY <2>1
        <5>2. out = call.out
          BY <4>1, <5>1
        <5> QED BY <2>1, <4>1, <5>2 DEF Walking
      <4> QED BY <2>4, <4>1
    <3> HIDE DEF out, more
    <3>2. /\ call'.todo = more /\ call'.place = call.place /\ call'.op = call.op
          /\ call'.limit = call.limit /\ call'.out = out
      BY <1>0, <2>4 DEF Idle
    <3>3. /\ Region' = Region /\ \A todo : Visited(todo)' = Visited(todo)
          /\ \A places : PrintedOf(places)' = PrintedOf(places)
      BY <3>2, SameWalk
    <3>4. PrintedOf(Visited(call.todo))' = PrintedOf(Visited(more))
      BY <3>2, <3>3
    <3>5. /\ EntryAt(tree, call.place).kind # "none"
          /\ call.op = "list_dir" => EntryAt(tree, call.place).kind = "dir"
      BY <2>1 DEF Walking
    <3> QED BY <2>2, <3>1, <3>2, <3>3, <3>4, <3>5 DEF Walking
  <2> QED BY <2>1, <2>3, <2>4
<1>7. CASE UNCHANGED vars
  <2>1. call' = call /\ tree' = tree
    BY <1>7 DEF vars
  <2>2. /\ Region' = Region /\ \A todo : Visited(todo)' = Visited(todo)
        /\ \A places : PrintedOf(places)' = PrintedOf(places)
    BY <2>1, SameWalk
  <2>3. PrintedOf(Visited(call.todo))' = PrintedOf(Visited(call.todo))
    BY <2>1, <2>2
  <2> QED BY <2>1, <2>2, <2>3 DEF Walking
<1> QED BY <1>1, <1>2, <1>3, <1>4, <1>5, <1>6, <1>7 DEF QuietNext, Walks

\* What a tool opens is under the root: the resolved place has no link on the way to it, and
\* of what a walk has to visit only a link leads anywhere else.
LEMMA OpenedStaysUnder ==
    ASSUME IInv, Quiet => Resolving /\ Walking
    PROVE  ReadsStayUnder
<1> SUFFICES ASSUME Quiet, NEW place \in Opened, Follow(tree, place) # None
             PROVE  Under(Follow(tree, place))
  BY DEF ReadsStayUnder
<1>1. IsTree(tree)
  BY DEF Resolving
<1>2. CASE call.pc \in {"read", "present"}
  <2>1. place = call.place
    BY <1>2 DEF Opened
  <2>2. call.place \in Seq(Name) /\ Under(call.place) /\ NoLinks(tree, call.place)
    BY <1>2, ResolvedLinkless DEF GoneOn
  <2> QED BY <1>1, <2>1, <2>2, LinklessIsSeen
<1>3. CASE call.pc = "walk"
  <2>1. place \in call.todo /\ Seen(place).kind # "link"
    BY <1>3 DEF Opened
  <2>2. Walkable /\ place \in Region
    BY <1>3, <2>1, InWalk DEF Walking
  <2>3. Plain(tree, place) /\ Under(place)
    BY <2>1, <2>2, RegionFacts
  <2> QED BY <1>1, <2>3, PlainLeadsThere
<1>4. CASE call.pc \notin {"read", "present", "walk"}
  BY <1>4 DEF Opened
<1> QED BY <1>2, <1>3, <1>4

-----------------------------------------------------------------------------
(* What search and list_dir answer. *)

\* The files below a path are those that a search of it visits.
LEMMA AllHitsArePrinted ==
    ASSUME Walkable, call.op = "search"
    PROVE  AllHits = PrintedOf(Region)
<1> DEFINE files == {p \in DOMAIN tree : /\ Visible(p) \/ p = call.place
                                         /\ EntryAt(tree, p).kind = "file"
                                         /\ p \notin Unreadable}
           inRegion == {p \in Region : EntryAt(tree, p).kind = "file" /\ p \notin Unreadable}
<1>1. files \subseteq inRegion
  BY DEF Region
<1>2. inRegion \subseteq files
  <2> SUFFICES ASSUME NEW p \in Region, EntryAt(tree, p).kind = "file", p \notin Unreadable
               PROVE  p \in files
    OBVIOUS
  <2>1. CASE p # call.place
    BY <2>1, RegionFacts
  <2>2. CASE p = call.place
    BY <2>2 DEF EntryAt, Nothing, Dir
  <2> QED BY <2>1, <2>2
<1>3. \A p \in inRegion : FollowedEntry(tree, p) = EntryAt(tree, p)
  <2> SUFFICES ASSUME NEW p \in inRegion PROVE FollowedEntry(tree, p) = EntryAt(tree, p)
    OBVIOUS
  <2>1. Plain(tree, p)
    BY RegionFacts
  <2> QED BY <2>1, LinklessIsSeen DEF Plain, Walkable
<1>4. \A p \in Region :
         ToSet(Printed(p)) = IF EntryAt(tree, p).kind = "file" /\ p \notin Unreadable
                             THEN ToSet(Hits(Shown(p), EntryAt(tree, p).text)) ELSE {}
  BY PrintedFacts
<1>5. PrintedOf(Region) =
         UNION {ToSet(Hits(Shown(p), EntryAt(tree, p).text)) : p \in inRegion}
  BY <1>4 DEF PrintedOf
<1>6. AllHits = UNION {ToSet(Hits(Shown(p), FollowedEntry(tree, p).text)) : p \in files}
  BY DEF AllHits
<1>7. files = inRegion
  BY <1>1, <1>2
<1> HIDE DEF files, inRegion
<1> QED BY <1>3, <1>5, <1>6, <1>7

\* What a walk has printed, of a search.
LEMMA PrintedAreHits ==
    ASSUME Walkable, call.op = "search", NEW todo,
           NEW out \in Seq(Line), ToSet(out) = PrintedOf(Visited(todo))
    PROVE  /\ ToSet(out) \subseteq AllHits
           /\ \A i \in 1 .. Len(out) : \E place, n : IsHit(out[i], place, n)
<1>1. Visited(todo) \subseteq Region
  BY DEF Visited
<1>2. PrintedOf(Visited(todo)) \subseteq PrintedOf(Region)
  BY <1>1 DEF PrintedOf
<1>3. ToSet(out) \subseteq AllHits
  BY <1>2, AllHitsArePrinted
<1>4. ASSUME NEW i \in 1 .. Len(out) PROVE \E place, n : IsHit(out[i], place, n)
  <2>1. out[i] \in ToSet(out)
    BY SetOfConcat
  <2>2. PICK place \in Region : out[i] \in ToSet(Printed(place))
    BY <1>2, <2>1 DEF PrintedOf
  <2> QED BY <2>2, PrintedFacts
<1> QED BY <1>3, <1>4

\* What is true of an answer to a search, when so many lines of it are shown.
SearchAnswer(answer, out) ==
    /\ answer \in {"ok", "stopped"} =>
          ToSet(out) \subseteq AllHits /\ Len(out) = Cardinality(ToSet(out))
    /\ answer = "ok" => ToSet(out) = AllHits /\ (out = <<>> \/ Len(out) < call.limit)
    /\ answer = "stopped" /\ call.limit > 0 => Len(out) = call.limit
    /\ \A i \in 1 .. Len(out) : \E place, n : IsHit(out[i], place, n)

\* ... and to a listing.
ListAnswer(answer, out) ==
    answer = "ok" =>
        /\ Len(out) = Cardinality(ToSet(out))
        /\ {PlaceOf(line) : line \in ToSet(out)} =
              {p \in DOMAIN tree : Visible(p) /\ Depth(p) <= call.limit}

WalkAnswer(answer, out) ==
    /\ call.op = "search" => SearchAnswer(answer, out)
    /\ call.op = "list_dir" => ListAnswer(answer, out)

\* A walk that ends, or one that reaches its limit, answers so.
LEMMA WalkEndsAnswers ==
    ASSUME IInv, Resolving, Walking, WalkEnds
    PROVE  \E answer \in Answered, out \in Seq(Line) :
              Answers(answer, out) /\ WalkAnswer(answer, out)
<1>1. /\ call.pc = "walk" /\ call.todo = {} /\ AnswersText("ok", call.out)
      /\ call.out \in Seq(Line)
  BY DEF WalkEnds, IInv, TypeOK
<1>2. Walkable
  BY <1>1, InWalk
<1>3. /\ ToSet(call.out) = PrintedOf(Visited({})) /\ Distinct(call.out)
      /\ call.op = "search" => call.out = <<>> \/ Len(call.out) < call.limit
  BY <1>1 DEF Walking
<1>4. Visited({}) = Region
  BY <1>2, VisitedFromTo
<1>5. PICK a \in {"ok", "truncated", "panicked"}, o \in Seq(Line) :
         /\ Answers(a, o) /\ (a = "ok" => o = call.out)
         /\ \E k \in 0 .. Len(call.out) : o = First(call.out, k)
  BY <1>1, TextIsAnswered
<1>6. Len(call.out) = Cardinality(ToSet(call.out))
  BY <1>1, <1>3, DistinctCount
<1>7. a \in Answered
  BY DEF Answered
<1>8. ASSUME call.op = "search" PROVE SearchAnswer(a, o)
  <2>1. /\ ToSet(call.out) = AllHits
        /\ \A i \in 1 .. Len(call.out) : \E place, n : IsHit(call.out[i], place, n)
    BY <1>1, <1>2, <1>3, <1>4, <1>8, AllHitsArePrinted, PrintedAreHits
  <2>2. \A i \in 1 .. Len(o) : i \in 1 .. Len(call.out) /\ o[i] = call.out[i]
    BY <1>1, <1>5, FirstFacts
  <2>3. \A i \in 1 .. Len(o) : \E place, n : IsHit(o[i], place, n)
    BY <2>1, <2>2
  <2> QED BY <1>3, <1>5, <1>6, <1>8, <2>1, <2>3 DEF SearchAnswer
<1>9. ASSUME call.op = "list_dir", a = "ok" PROVE ListAnswer(a, o)
  <2>1. /\ \A p \in Region : \A line \in ToSet(Printed(p)) : PlaceOf(line) = p
        /\ ToSet(Printed(call.place)) = {}
        /\ \A p \in Region : p # call.place => ToSet(Printed(p)) # {}
    <3>1. call.place \in Region
      BY DEF Region
    <3> QED BY <1>2, <1>9, <3>1, PrintedFacts
  <2>2. {PlaceOf(line) : line \in PrintedOf(Region)} = Region \ {call.place}
    <3>1. ASSUME NEW line \in PrintedOf(Region) PROVE PlaceOf(line) \in Region \ {call.place}
      <4>1. PICK p \in Region : line \in ToSet(Printed(p))
        BY DEF PrintedOf
      <4> QED BY <2>1, <4>1
    <3>2. ASSUME NEW p \in Region \ {call.place}
          PROVE  \E line \in PrintedOf(Region) : PlaceOf(line) = p
      <4>1. PICK line \in ToSet(Printed(p)) : TRUE
        BY <2>1
      <4>2. line \in PrintedOf(Region) /\ PlaceOf(line) = p
        BY <2>1, <4>1 DEF PrintedOf
      <4> QED BY <4>2
    <3> QED BY <3>1, <3>2
  <2>3. Region \ {call.place} = {p \in DOMAIN tree : Visible(p) /\ Depth(p) <= call.limit}
    <3>1. ~Visible(call.place)
      BY DEF Visible, IsStrictPrefix
    <3> QED BY <1>9, <3>1 DEF Region
  <2> QED BY <1>3, <1>4, <1>5, <1>6, <1>9, <2>2, <2>3 DEF ListAnswer
<1>10. WalkAnswer(a, o)
  BY <1>8, <1>9 DEF WalkAnswer, ListAnswer
<1> QED BY <1>5, <1>7, <1>10

LEMMA VisitAnswers ==
    ASSUME IInv, Resolving, Walking, NEW place, Visits(place), call'.pc = "done"
    PROVE  \E answer \in Answered, out \in Seq(Line) :
              Answers(answer, out) /\ WalkAnswer(answer, out)
<1> DEFINE out  == call.out \o Printed(place)
           more == (call.todo \ {place}) \cup Below(place)
           some == IF call.limit >= 1 THEN call.limit ELSE 1
           shown == First(out, some)
<1>1. /\ call.pc = "walk"
      /\ \/ call.op = "search" /\ some \in 1 .. Len(out) /\ AnswersText("stopped", shown)
         \/ call' = [call EXCEPT !.out = out, !.todo = more]
  BY VisitCases
<1>2. /\ Walkable /\ out \in Seq(Line) /\ Distinct(out)
      /\ ToSet(out) = PrintedOf(Visited(more))
  BY Visiting
<1> HIDE DEF out, more, some, shown
<1>3. call.op = "search" /\ some \in 1 .. Len(out) /\ AnswersText("stopped", shown)
  <2>1. ASSUME call' = [call EXCEPT !.out = out, !.todo = more] PROVE FALSE
    <3>1. call'.pc = "walk"
      BY <1>1, <2>1 DEF IInv, WellFormed, Idle
    <3> QED BY <3>1
  <2> QED BY <1>1, <2>1
<1>4. /\ ToSet(out) \subseteq AllHits
      /\ \A i \in 1 .. Len(out) : \E p, n : IsHit(out[i], p, n)
  BY <1>2, <1>3, PrintedAreHits
<1>5. /\ shown \in Seq(Line) /\ Len(shown) = some /\ ToSet(shown) \subseteq ToSet(out)
      /\ Distinct(shown) /\ \A i \in 1 .. some : shown[i] = out[i] /\ i \in 1 .. Len(out)
  <2>1. some \in 0 .. Len(out)
    BY <1>3
  <2> QED BY <1>2, <1>3, <2>1, SetOfFirst, FirstFacts DEF shown
<1>6. PICK a \in {"stopped", "truncated", "panicked"}, o \in Seq(Line) :
         /\ Answers(a, o) /\ (a = "stopped" => o = shown)
         /\ \E k \in 0 .. Len(shown) : o = First(shown, k)
  BY <1>3, <1>5, TextIsAnswered
<1>7. Len(shown) = Cardinality(ToSet(shown))
  BY <1>5, DistinctCount
<1>8. \A i \in 1 .. Len(o) : \E p, n : IsHit(o[i], p, n)
  <2>1. \A i \in 1 .. Len(o) : i \in 1 .. Len(shown) /\ o[i] = shown[i]
    BY <1>5, <1>6, FirstFacts
  <2> QED BY <1>4, <1>5, <2>1
<1>9. SearchAnswer(a, o)
  <2>1. call.limit > 0 => some = call.limit
    BY <1>2 DEF Walkable, some
  <2> QED BY <1>4, <1>5, <1>6, <1>7, <1>8, <2>1 DEF SearchAnswer
<1>10. a \in Answered
  BY DEF Answered
<1> QED BY <1>3, <1>6, <1>9, <1>10 DEF WalkAnswer

\* A refused walk has printed nothing and says so.
LEMMA RefusalAnswers ==
    ASSUME NEW answer, answer \notin {"ok", "stopped"}
    PROVE  WalkAnswer(answer, <<>>)
<1>1. \A i \in 1 .. Len(<<>>) : FALSE
  OBVIOUS
<1> QED BY <1>1 DEF WalkAnswer, SearchAnswer, ListAnswer

\* So answered, a call keeps what is promised of it.
LEMMA Promised ==
    ASSUME IInv, UNCHANGED tree, NEW answer, NEW out \in Seq(Line), Answers(answer, out),
           WalkAnswer(answer, out), call.limit \in Nat, call.op # "read_file", hit = None,
           UNCHANGED hit
    PROVE  ListIsComplete' /\ SearchIsComplete' /\ Finding'
<1>1. /\ call'.pc = "done" /\ call'.answer = answer /\ call'.out = out /\ call'.op = call.op
      /\ call'.place = call.place /\ call'.limit = call.limit
  BY AnswersIs
<1>2. AllHits' = AllHits
  BY <1>1 DEF AllHits, Visible, Reachable
<1>3. {p \in DOMAIN tree : Visible(p) /\ Depth(p) <= call.limit}'
         = {p \in DOMAIN tree : Visible(p) /\ Depth(p) <= call.limit}
  BY <1>1 DEF Visible, Reachable, Depth
<1>5. SearchIsComplete'
  <2> HIDE DEF AllHits
  <2> SUFFICES ASSUME call.op = "search"
               PROVE  /\ answer \in {"ok", "stopped"} =>
                            ToSet(out) \subseteq AllHits /\ Len(out) = Cardinality(ToSet(out))
                      /\ answer = "ok" =>
                            ToSet(out) = AllHits /\ (out = <<>> \/ Len(out) < call.limit)
                      /\ answer = "stopped" /\ call.limit > 0 => Len(out) = call.limit
    BY <1>1, <1>2 DEF SearchIsComplete
  <2> QED BY DEF WalkAnswer, SearchAnswer
<1>6. ListIsComplete'
  <2>1. SUFFICES ASSUME call.op = "list_dir", answer = "ok"
        PROVE  /\ Len(out) = Cardinality(ToSet(out))
               /\ {call.place \o out[i].path.parts : i \in DOMAIN out} =
                     {p \in DOMAIN tree : Visible(p) /\ Depth(p) <= call.limit}
    BY <1>1, <1>3 DEF ListIsComplete
  <2>2. /\ Len(out) = Cardinality(ToSet(out))
        /\ {PlaceOf(line) : line \in ToSet(out)} =
              {p \in DOMAIN tree : Visible(p) /\ Depth(p) <= call.limit}
    BY <2>1 DEF WalkAnswer, ListAnswer
  <2>3. \A line : PlaceOf(line) = call.place \o line.path.parts
    BY <2>1 DEF PlaceOf
  <2>4. {PlaceOf(line) : line \in ToSet(out)} = {call.place \o out[i].path.parts : i \in DOMAIN out}
    BY <2>3 DEF ToSet
  <2> QED BY <2>2, <2>4
<1>7. Finding'
  <2>1. call.op = "search" => \A i \in 1 .. Len(out) : \E p, n : IsHit(out[i], p, n)
    BY DEF WalkAnswer, SearchAnswer
  <2>2. \A line, p, n : IsHit(line, p, n)' <=> IsHit(line, p, n)
    BY DEF IsHit
  <2> QED BY <1>1, <2>1, <2>2 DEF Finding
<1> QED BY <1>5, <1>6, <1>7

-----------------------------------------------------------------------------
(* What is promised of an answer stays so. *)

\* A line of a file is one as long as nobody changes the tree.
LEMMA SameHits ==
    ASSUME UNCHANGED tree
    PROVE  \A line, place, n : IsHit(line, place, n)' <=> IsHit(line, place, n)
BY DEF IsHit

\* A call that is not at its end has promised nothing but the line it reads back.
LEMMA NothingPromised ==
    ASSUME UNCHANGED <<tree, hit>>, Finding,
           call'.input = call.input, call'.offset = call.offset, call'.limit = call.limit,
           \/ call'.pc # "done"
           \/ call'.op = "read_file"
           \/ call'.answer \notin {"ok", "stopped"} /\ call'.out = <<>>
    PROVE  ListIsComplete' /\ SearchIsComplete' /\ Finding'
<1>1. ListIsComplete' /\ SearchIsComplete'
  BY DEF ListIsComplete, SearchIsComplete
<1>2. call'.op = "search" /\ call'.pc = "done" => Len(call'.out) = 0
  BY DEF Finding
<1>3. \A i \in 1 .. 0 : FALSE
  OBVIOUS
<1>4. Finding'
  BY <1>2, <1>3, SameHits DEF Finding
<1> QED BY <1>1, <1>4

\* The client's next call asks for no line, or for one that search has printed.
LEMMA FindingBegun ==
    ASSUME IInv, Finding, Asks \/ AsksForMore \/ ReadsHit, UNCHANGED tree
    PROVE  ListIsComplete' /\ SearchIsComplete' /\ Finding'
<1>1. call'.pc = "lexical"
  BY BegunIs
<1>2. ListIsComplete' /\ SearchIsComplete'
  BY <1>1 DEF ListIsComplete, SearchIsComplete
<1>3. CASE Asks \/ AsksForMore
  <2>1. hit' = None
    BY <1>3, AsksCases, AsksForMoreCases DEF IInv, WellFormed
  <2> QED BY <1>1, <1>2, <2>1 DEF Finding
<1>4. CASE ReadsHit
  <2>1. PICK i \in 1 .. Len(call.out) :
           /\ hit' = call.out[i]
           /\ Call("read_file", call.out[i].path, call.out[i].n - 1, 1)
    BY <1>4, ReadsHitCases
  <2>2. call.pc = "done" /\ call.op = "search"
    BY <1>4, ReadsHitCases
  <2>3. PICK place, n : IsHit(call.out[i], place, n)
    BY <2>2 DEF Finding
  <2>4. call.out[i].path = Shown(place) /\ call.out[i].n = n
    BY <2>3 DEF IsHit, OutputLine
  <2>5. /\ call'.input = Shown(place) /\ call'.offset = n - 1 /\ call'.limit = 1
    BY <2>1, <2>4, CallIs
  <2>6. IsHit(hit, place, n)'
    BY <2>1, <2>3 DEF IsHit
  <2>7. Shown(place)' = Shown(place)
    OBVIOUS
  <2> QED BY <1>1, <1>2, <2>5, <2>6 DEF Finding
<1> QED BY <1>3, <1>4

LEMMA WalkPromises ==
    ASSUME IInv, Resolving, Walking, Finding, Walks, UNCHANGED tree
    PROVE  ListIsComplete' /\ SearchIsComplete' /\ Finding'
<1>1. /\ call.pc \in {"present", "walk"}
      /\ call'.input = call.input /\ call'.offset = call.offset /\ call'.limit = call.limit
      /\ UNCHANGED hit
      /\ call'.pc \in {"walk", "done"}
  BY ToolSteps DEF Walks, Presents, Visits, WalkEnds
<1>2. call.op # "read_file" /\ call.limit \in Nat /\ hit = None
  BY <1>1 DEF IInv, TypeOK, WellFormed
<1>3. CASE call'.pc = "walk"
  BY <1>1, <1>3, NothingPromised
<1>4. CASE call'.pc = "done"
  <2>1. \E answer : \E out \in Seq(Line) : Answers(answer, out) /\ WalkAnswer(answer, out)
    <3>1. CASE Presents
      <4>1. Refuses("refused") \/ call' = [call EXCEPT !.pc = "walk", !.todo = {call.place}]
        BY <3>1 DEF Presents
      <4>2. Refuses("refused")
        BY <1>4, <4>1 DEF IInv, WellFormed, Idle
      <4>3. <<>> \in Seq(Line)
        OBVIOUS
      <4> QED BY <4>2, <4>3, RefusalAnswers DEF Refuses
    <3>2. CASE \E place \in call.todo : Visits(place)
      BY <1>4, <3>2, VisitAnswers
    <3>3. CASE WalkEnds
      BY <3>3, WalkEndsAnswers
    <3> QED BY <3>1, <3>2, <3>3 DEF Walks
  <2> QED BY <1>1, <1>2, <2>1, Promised
<1> QED BY <1>1, <1>3, <1>4

LEMMA OutcomesKept ==
    ASSUME IInv, Resolving, Walking, Finding, ListIsComplete, SearchIsComplete, Quiet,
           QuietNext, UNCHANGED <<tree, changes>>
    PROVE  ListIsComplete' /\ SearchIsComplete' /\ Finding'
<1>1. CASE Asks \/ AsksForMore \/ ReadsHit
  BY <1>1, FindingBegun
<1>2. CASE Resolution
  <2>1. /\ call'.input = call.input /\ call'.offset = call.offset
        /\ call'.limit = call.limit /\ call'.out = <<>> /\ UNCHANGED hit
        /\ call'.pc # "done" \/ call'.answer \notin {"ok", "stopped"}
    BY <1>2, ResolutionSteps
  <2> QED BY <2>1, NothingPromised
<1>3. CASE Read
  <2>1. /\ call'.input = call.input /\ call'.offset = call.offset
        /\ call'.limit = call.limit /\ UNCHANGED hit /\ call'.op = "read_file"
    BY <1>3, ToolSteps, ReadAnswers
  <2> QED BY <2>1, NothingPromised
<1>4. CASE Walks
  BY <1>4, WalkPromises
<1>5. CASE UNCHANGED vars
  <2>1. call' = call /\ tree' = tree /\ hit' = hit /\ changes' = changes
    BY <1>5 DEF vars
  <2>2. Finding'
    BY <2>1, SameHits DEF Finding
  <2>3. SearchIsComplete'
    BY <2>1 DEF SearchIsComplete, Quiet, AllHits, Visible, Reachable
  <2>4. ListIsComplete'
    BY <2>1 DEF ListIsComplete, Quiet, Visible, Reachable, Depth
  <2> QED BY <2>2, <2>3, <2>4
<1> QED BY <1>1, <1>2, <1>3, <1>4, <1>5 DEF QuietNext

-----------------------------------------------------------------------------
(* A match reads back. *)

LEMMA HitReadBack ==
    ASSUME IInv, Quiet => Resolving /\ Reading /\ Finding
    PROVE  HitsReadBack
<1> SUFFICES ASSUME call.pc = "done", hit # None, call.op = "read_file", Quiet
             PROVE  \/ /\ call.answer = "ok" /\ Len(call.out) = 1
                       /\ [call.out[1] EXCEPT !.text = Trimmed(@)] = hit
                    \/ call.answer \in {"truncated", "panicked"}
  BY DEF HitsReadBack
<1>1. PICK place, n : /\ IsHit(hit, place, n) /\ call.input = Shown(place)
                      /\ call.offset = n - 1 /\ call.limit = 1
  BY DEF Finding
<1> DEFINE entry == EntryAt(tree, place)
<1>2. /\ IsTree(tree) /\ Plain(tree, place) /\ Under(place) /\ place \in Seq(Name)
      /\ place # None
  BY <1>1, RootAssumption DEF Resolving, IsHit, Plain
<1>3. /\ ResolvesTo(tree, Shown(place), place)
      /\ Deepest(tree, place, Len(place))
      /\ Follow(tree, First(place, Len(place))) = place
  BY <1>2, ShownResolves
<1>4. Written = place
  BY <1>1, <1>2, ShownReads DEF Written
<1>5. \A k : Deepest(tree, place, k) => k = Len(place)
  BY <1>2, <1>3, OneDeepest
<1>6. call.answer # "escape"
  <2> SUFFICES ASSUME call.answer = "escape" PROVE FALSE
    OBVIOUS
  <2>1. PICK k \in 0 .. Len(place) :
           Deepest(tree, place, k) /\ ~Under(Follow(tree, First(place, k)))
    BY <1>2, <1>4 DEF Resolving
  <2> QED BY <1>2, <1>3, <1>5, <2>1
<1>7. call.answer # "cannot_resolve"
  <2> SUFFICES ASSUME call.answer = "cannot_resolve" PROVE FALSE
    OBVIOUS
  <2>1. PICK k \in 0 .. Len(place) :
           Deepest(tree, place, k) /\ Follow(tree, First(place, k)) = None
    BY <1>2, <1>4 DEF Resolving
  <2> QED BY <1>2, <1>3, <1>5, <2>1
<1>8. GoneOn
  BY <1>6, <1>7 DEF GoneOn
<1>9. ResolvesTo(tree, Shown(place), call.place) /\ Shown(place) \in Input
  BY <1>1, <1>2, <1>8, ShownReads DEF Resolving
<1>10. call.place = place
  BY <1>3, <1>9, OneResolution
<1>11. /\ entry.kind = "file" /\ n \in 1 .. Len(entry.text) /\ place \notin Unreadable
       /\ hit = OutputLine(Shown(place), n, Trimmed(entry.text[n]))
  BY <1>1 DEF IsHit
<1>12. entry \in Entry
  BY <1>2, EntryType DEF IsTree
<1> HIDE DEF entry
<1>13. entry.text \in Seq(Seq(Char)) /\ Len(entry.text) \in Nat
  <2>1. entry.text \in Seq(Seq(Char))
    BY <1>11, <1>12, FileText
  <2> QED BY <2>1
<1>14. n \in Nat /\ call.offset \in Nat /\ call.limit \in Nat /\ call.offset + 1 = n
       /\ call.offset < Len(entry.text) /\ call.offset + 1 <= Len(entry.text)
  BY <1>1, <1>11, <1>13
<1>15. \/ call.answer \in {"truncated", "panicked"}
       \/ call.answer = "ok" /\ call.out = Page(entry.text)
  <2>1. /\ call.answer \in {"ok", "truncated", "panicked", "refused", "past_the_end"}
        /\ call.answer = "refused" => entry.kind # "file" \/ place \in Unreadable
        /\ call.answer = "past_the_end" => call.offset >= Len(entry.text)
        /\ call.answer = "ok" => call.out = Page(entry.text)
    BY <1>8, <1>10 DEF Reading, entry
  <2> QED BY <1>11, <1>13, <1>14, <2>1
<1>16. /\ Len(Page(entry.text)) = 1
       /\ [Page(entry.text)[1] EXCEPT !.text = Trimmed(@)] = hit
  <2> DEFINE page == Page(entry.text)
  <2>1. /\ page \in Seq(Line)
        /\ Len(page) = IF call.offset >= Len(entry.text) THEN 0
                       ELSE IF call.limit = None \/ call.offset + call.limit >= Len(entry.text)
                       THEN Len(entry.text) - call.offset ELSE call.limit
        /\ \A i \in 1 .. Len(page) :
              page[i] = OutputLine(Shown(call.place), call.offset + i,
                                   entry.text[call.offset + i])
    BY <1>2, <1>10, <1>13, <1>14, PageFacts
  <2> HIDE DEF page
  <2>2. call.limit # None
    BY <1>14, PathToolsAssumption
  <2>3. Len(page) = 1
    BY <1>1, <1>13, <1>14, <2>1, <2>2
  <2>4. page[1] = OutputLine(Shown(place), n, entry.text[n])
    BY <1>10, <1>14, <2>1, <2>3
  <2>5. [page[1] EXCEPT !.text = Trimmed(@)] = hit
    BY <1>11, <2>4 DEF OutputLine
  <2> QED BY <2>3, <2>5 DEF page
<1> QED BY <1>15, <1>16

-----------------------------------------------------------------------------
LEMMA QuietInitially == Init => QInv
<1> SUFFICES ASSUME Init PROVE QInv
  OBVIOUS
<1>1. /\ IsTree(tree) /\ call = Idle /\ pages = <<>> /\ hit = None
  BY PathToolsAssumption DEF Init
<1>2. call.pc = "idle" /\ call.answer = None /\ call.op = None
  BY <1>1 DEF Idle
<1>3. Resolving
  BY <1>1, <1>2, NotNone DEF Resolving, GoneOn, Answered
<1> QED BY <1>1, <1>2, <1>3
        DEF QInv, Reading, Finding, Paging, Walking, ListIsComplete, SearchIsComplete

LEMMA QuietInductive == IInv /\ QInv /\ [Next]_vars => QInv'
<1> SUFFICES ASSUME IInv, QInv, [Next]_vars, Quiet'
             PROVE  /\ Resolving' /\ Reading' /\ Finding' /\ Paging' /\ Walking'
                    /\ ListIsComplete' /\ SearchIsComplete'
  BY DEF QInv
<1>1. Quiet /\ QuietNext /\ UNCHANGED <<tree, changes>>
  BY QuietStep
<1>2. /\ Resolving /\ Reading /\ Finding /\ Paging /\ Walking
      /\ ListIsComplete /\ SearchIsComplete
  BY <1>1 DEF QInv
<1>3. Resolving' /\ Reading' /\ Paging' /\ Walking'
  BY <1>1, <1>2, ResolvingKept, ReadingKept, PagingKept, WalkingKept
<1>4. Finding' /\ ListIsComplete' /\ SearchIsComplete'
  BY <1>1, <1>2, OutcomesKept
<1> QED BY <1>3, <1>4

LEMMA QuietInvariance == Spec => [](IInv /\ QInv)
<1>1. Init => IInv /\ QInv
  BY Initially, QuietInitially
<1>2. IInv /\ QInv /\ [Next]_vars => (IInv /\ QInv)'
  BY Inductive, QuietInductive
<1> QED BY <1>1, <1>2, PTL DEF Spec

\* Whatever links the tree has, read_file, list_dir and search open no file and no directory
\* that is not under the root, as long as nobody changes the tree after a path was checked.
THEOREM NothingOutsideIsRead == Spec => []ReadsStayUnder
<1>1. IInv /\ QInv => ReadsStayUnder
  BY OpenedStaysUnder DEF QInv
<1> QED BY <1>1, QuietInvariance, PTL

\* While nobody changes the tree, what a tool goes on with has no link on the way to it: not
\* one that leads somewhere, nor a dangling one that creating the file would follow.
THEOREM NoLinkIsFollowed == Spec => []ResolvedHasNoLink
<1>1. IInv /\ QInv => ResolvedHasNoLink
  BY NoLinkResolved DEF QInv
<1> QED BY <1>1, QuietInvariance, PTL

\* Root::resolve takes a path that names something to the place a shell in the root would,
\* and refuses it when that is not under the root: resolving .. by the path's text and links
\* by canonicalize agrees with the kernel, except for the paths that the property sets apart.
THEOREM PathsMeanWhatTheShellMeans == Spec => []MeansWhatTheShellMeans
<1>1. IInv /\ QInv => MeansWhatTheShellMeans
  BY ShellMeaning DEF QInv
<1> QED BY <1>1, QuietInvariance, PTL

\* Reading one line at the number and the path that search printed gives the line that it
\* printed trimmed, unless the answer is cut to the ceiling.
THEOREM HitsAreReadBack == Spec => []HitsReadBack
<1>1. IInv /\ QInv => HitsReadBack
  BY HitReadBack DEF QInv
<1> QED BY <1>1, QuietInvariance, PTL

\* However long the file and whatever the offset and the limit: the pages up to the last one
\* are the file from that offset on, no line lost or repeated where two pages meet.
THEOREM PagesAreFiles == Spec => []PagesMakeTheFile
<1>1. IInv /\ QInv => PagesMakeTheFile
  BY PagesAreTheFile DEF QInv
<1> QED BY <1>1, QuietInvariance, PTL

\* In whatever order the walker goes through the tree, and whatever of it cannot be read: a
\* search that ends has printed once every matching line that it can read, and one that stops
\* has printed as many of them as its limit, if that is above 0.
THEOREM SearchCompletes == Spec => []SearchIsComplete
<1>1. IInv /\ QInv => SearchIsComplete
  BY DEF QInv, SearchIsComplete
<1> QED BY <1>1, QuietInvariance, PTL

\* In whatever order the walker goes through the tree: a listing names once every entry, down
\* to its depth, that is not ignored and lies in directories that can be read.
THEOREM ListingCompletes == Spec => []ListIsComplete
<1>1. IInv /\ QInv => ListIsComplete
  BY DEF QInv, ListIsComplete
<1> QED BY <1>1, QuietInvariance, PTL
=============================================================================
