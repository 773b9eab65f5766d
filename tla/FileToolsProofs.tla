-------------------------- MODULE FileToolsProofs --------------------------
(***************************************************************************)
(* Theorems about FileTools, for every set of calls and of texts.           *)
(*                                                                          *)
(* The invariant follows the copy an edit works on from its read to its     *)
(* write, and the file for as long as nobody else touches it.               *)
(***************************************************************************)
EXTENDS FileTools, SequenceTheorems, TLAPS

\* What an edit is about to write, or has written, is the edit of what it read.
IsEditOf(c, read) ==
    /\ read \in Seq(Byte)
    /\ MatchesOnce(read, call[c].old)
    /\ call[c].target = Replaced(read, call[c].old, call[c].new)

HasRead(c) == call[c].op = "edit" /\ (call[c].pc \in {"open", "write"} \/ Succeeded(c))

Copies ==
    \A c \in Call : HasRead(c) =>
        /\ IsEditOf(c, past[c].read)
        /\ ~ past[c].stale =>
              past[c].read = IF call[c].pc = "open" THEN file ELSE past[c].before

\* A file that only c has touched since c opened it is still empty.
OpenIsEmpty ==
    \A c \in Call : call[c].pc = "write" /\ ~ past[c].crossed => file = <<>>

OpenAlone ==
    ~ mixed => \A c \in Call : call[c].pc = "write" =>
        /\ file = <<>>
        /\ latest = call[c].target
        /\ \A d \in Call : call[d].pc = "write" => d = c

OnlyWritesMakeParents == \A c \in Call : call[c].pc = "parents" => call[c].op = "write"

IInv ==
    /\ TypeOK
    /\ OnlyWritesMakeParents
    /\ Copies
    /\ OpenIsEmpty
    /\ OpenAlone
    /\ SuccessIsWhole
    /\ NoRemains

-----------------------------------------------------------------------------
(* Text. *)

\* Writing to an empty file leaves the text, and writing over any file a file.
LEMMA OverlayIs ==
  ASSUME NEW t \in Seq(Byte), NEW f \in Seq(Byte)
  PROVE  /\ Overlay(t, f) \in Seq(Byte)
         /\ f = <<>> => Overlay(t, f) = t
  <1>1. SubSeq(f, Len(t) + 1, Len(f)) \in Seq(Byte)
    <2>1. \A i \in Len(t) + 1 .. Len(f) : f[i] \in Byte
      BY LenProperties, ElementOfSeq
    <2>2. Len(t) \in Nat /\ Len(f) \in Nat
      BY LenProperties
    <2> QED
      BY <2>1, <2>2, SubSeqProperties
  <1>2. Overlay(t, f) \in Seq(Byte)
    BY <1>1, ConcatProperties DEF Overlay
  <1>3. ASSUME f = <<>> PROVE Overlay(t, f) = t
    <2>1. Len(f) = 0 /\ Len(t) \in Nat
      BY <1>3, LenProperties
    <2>2. SubSeq(f, Len(t) + 1, Len(f)) = <<>>
      BY <2>1, SubSeqEmpty
    <2> QED
      BY <2>2, ConcatEmptySeq DEF Overlay
  <1> QED
    BY <1>2, <1>3

\* The beginning of a text is a text, its length what was asked for.
LEMMA BeginningIs ==
  ASSUME NEW t \in Seq(Byte), NEW k \in 0 .. Len(t)
  PROVE  /\ SubSeq(t, 1, k) \in Seq(Byte)
         /\ Len(SubSeq(t, 1, k)) = k
  <1>1. \A i \in 1 .. k : t[i] \in Byte
    BY LenProperties, ElementOfSeq
  <1>2. Len(t) \in Nat
    BY LenProperties
  <1> QED
    BY <1>1, <1>2, SubSeqProperties

\* Where old matches once, Replaced keeps what is left and right of it.
LEMMA ReplacedKeepsTheRest ==
  ASSUME NEW text \in Seq(Byte), NEW old \in Seq(Byte), NEW new \in Seq(Byte),
         MatchesOnce(text, old)
  PROVE  /\ Replaced(text, old, new) \in Seq(Byte)
         /\ \E i \in 0 .. Len(text) :
               LET left  == SubSeq(text, 1, i)
                   right == SubSeq(text, i + Len(old) + 1, Len(text))
               IN  /\ text = left \o old \o right
                   /\ Replaced(text, old, new) = left \o new \o right
                   /\ \A j \in At(text, old) : i < j /\ j <= i + Len(old)
  <1> DEFINE k == CHOOSE i \in At(text, old) : MatchesOnceAt(text, old, i)
             left == SubSeq(text, 1, k - 1)
             right == SubSeq(text, k + Len(old), Len(text))
  <1>1. k \in At(text, old) /\ \A j \in At(text, old) : k <= j /\ j < k + Len(old)
    <2>1. MatchesOnceAt(text, old, k)
      BY DEF MatchesOnce
    <2> QED
      BY <2>1 DEF MatchesOnceAt
  <1>2. Len(text) \in Nat /\ Len(old) \in Nat
    BY LenProperties
  <1>3. /\ k \in 1 .. Len(text) - Len(old) + 1
        /\ SubSeq(text, k, k + Len(old) - 1) = old
    BY <1>1 DEF At
  <1>4. Replaced(text, old, new) = left \o new \o right
    BY DEF Replaced
  <1> HIDE DEF k
  <1>5. left \in Seq(Byte)
    BY <1>2, <1>3, BeginningIs
  <1>6. right \in Seq(Byte)
    <2>1. \A i \in k + Len(old) .. Len(text) : text[i] \in Byte
      BY <1>2, <1>3, ElementOfSeq
    <2> QED
      BY <1>2, <1>3, <2>1, SubSeqProperties
  <1>7. left \o old = SubSeq(text, 1, k + Len(old) - 1)
    <2>1. /\ 1 \in 1 .. Len(text) + 1
          /\ k - 1 \in 1 - 1 .. Len(text)
          /\ k + Len(old) - 1 \in k - 1 .. Len(text)
      BY <1>2, <1>3
    <2>2. SubSeq(text, 1, k - 1) \o SubSeq(text, (k - 1) + 1, k + Len(old) - 1)
            = SubSeq(text, 1, k + Len(old) - 1)
      BY <2>1, ConcatAdjacentSubSeq, ZenonT(30)
    <2>3. (k - 1) + 1 = k
      BY <1>3
    <2> QED
      BY <1>3, <2>2, <2>3
  <1>8. text = left \o old \o right
    <2>1. /\ 1 \in 1 .. Len(text) + 1
          /\ k + Len(old) - 1 \in 1 - 1 .. Len(text)
          /\ Len(text) \in k + Len(old) - 1 .. Len(text)
      BY <1>2, <1>3
    <2>2. SubSeq(text, 1, k + Len(old) - 1) \o SubSeq(text, (k + Len(old) - 1) + 1, Len(text))
            = SubSeq(text, 1, Len(text))
      BY <2>1, ConcatAdjacentSubSeq, ZenonT(30)
    <2>3. (k + Len(old) - 1) + 1 = k + Len(old)
      BY <1>2, <1>3
    <2>4. SubSeq(text, 1, Len(text)) = text
      BY SubSeqFull
    <2> QED
      BY <1>7, <2>2, <2>3, <2>4
  <1>9. Replaced(text, old, new) \in Seq(Byte)
    BY <1>4, <1>5, <1>6, ConcatProperties
  <1>10. k - 1 \in 0 .. Len(text) /\ (k - 1) + Len(old) + 1 = k + Len(old)
    BY <1>2, <1>3
  <1>11. \A j \in At(text, old) : k - 1 < j /\ j <= (k - 1) + Len(old)
    <2>1. At(text, old) \subseteq Int
      BY <1>2 DEF At
    <2> QED
      BY <2>1, <1>1, <1>2, <1>3
  <1> QED
    BY <1>4, <1>8, <1>9, <1>10, <1>11

\* A call and what happened around it have the fields their types give them.
LEMMA RecordFields ==
  /\ \A r \in CallRecord :
        /\ r.pc \in Pc /\ r.op \in {"write", "edit", None}
        /\ r.old \in Seq(Byte) /\ r.new \in Seq(Byte) /\ r.target \in Seq(Byte)
        /\ r.answer \in Answer \cup {None}
  /\ \A r \in PastRecord :
        /\ r.read \in Seq(Byte) \cup {None} /\ r.before \in Seq(Byte) \cup {None}
        /\ r.stale \in BOOLEAN /\ r.crossed \in BOOLEAN
  /\ Idle \in CallRecord /\ Idle.pc = "idle"
  /\ <<>> \in Seq(Byte)
  BY DEF CallRecord, PastRecord, Idle, Pc

-----------------------------------------------------------------------------
LEMMA InitIInv == Init => IInv
  <1> SUFFICES ASSUME Init PROVE IInv
    OBVIOUS
  <1>1. TypeOK
    <2>1. file \in Seq(Byte) \cup {None} /\ latest \in Seq(Byte) \cup {None}
      BY FileToolsAssumption DEF Init
    <2> QED
      BY <2>1, RecordFields DEF Init, TypeOK, PastRecord
  <1>2. \A c \in Call : call[c].pc = "idle"
    BY RecordFields DEF Init
  <1>3. NoRemains
    <2>1. ASSUME file # None
          PROVE  Len(file) <= Len(latest) /\ file = SubSeq(latest, 1, Len(file))
      <3>1. file \in Seq(Byte) /\ latest = file
        BY <2>1, FileToolsAssumption DEF Init
      <3>2. Len(file) \in Nat
        BY <3>1, LenProperties
      <3> QED
        BY <3>1, <3>2, SubSeqFull
    <2> QED
      BY <2>1 DEF Init, NoRemains
  <1> QED
    BY <1>1, <1>2, <1>3 DEF IInv, OnlyWritesMakeParents, Copies, HasRead, OpenIsEmpty,
                            OpenAlone, SuccessIsWhole, Succeeded

-----------------------------------------------------------------------------
(* Steps. *)

\* A step of c that leaves the file alone and does not succeed.
LEMMA QuietStep ==
  ASSUME IInv, NEW c \in Call, NEW r \in CallRecord,
         call' = [call EXCEPT ![c] = r],
         UNCHANGED <<file, latest, mixed, past>>,
         r.pc # "write",
         r.pc = "done" => r.answer # "ok",
         r.pc = "open" => r.op # "edit",
         r.pc = "parents" => r.op = "write"
  PROVE  IInv'
  <1>1. call \in [Call -> CallRecord]
    BY DEF IInv, TypeOK
  <1>2. call'[c] = r /\ \A d \in Call \ {c} : call'[d] = call[d]
    BY <1>1
  <1>3. TypeOK'
    <2>1. call' \in [Call -> CallRecord]
      BY <1>1
    <2>2. (\E d \in Call : call'[d].pc = "write") => file' # None
      BY <1>2 DEF IInv, TypeOK
    <2> QED
      BY <2>1, <2>2 DEF IInv, TypeOK
  <1>4. OnlyWritesMakeParents'
    BY <1>2 DEF IInv, OnlyWritesMakeParents
  <1>5. Copies'
    <2>1. \A d \in Call : HasRead(d)' => d # c /\ HasRead(d)
      BY <1>2 DEF HasRead, Succeeded
    <2> QED
      BY <1>2, <2>1 DEF IInv, Copies, IsEditOf
  <1>6. OpenIsEmpty'
    BY <1>2 DEF IInv, OpenIsEmpty
  <1>7. OpenAlone'
    BY <1>2 DEF IInv, OpenAlone
  <1>8. SuccessIsWhole'
    BY <1>2 DEF IInv, SuccessIsWhole, Succeeded
  <1>9. NoRemains'
    BY DEF IInv, NoRemains
  <1> QED
    BY <1>3, <1>4, <1>5, <1>6, <1>7, <1>8, <1>9 DEF IInv

LEMMA QuietSteps ==
  ASSUME IInv, NEW c \in Call,
         \/ BeginWrite(c) \/ BeginEdit(c) \/ RefuseAtOnce(c)
         \/ CreateParents(c) \/ ParentsFail(c) \/ RefuseEdit(c) \/ ReadFails(c)
         \/ OpenFails(c) \/ GiveUp(c)
  PROVE  IInv'
  <1>1. call[c] \in CallRecord
    BY DEF IInv, TypeOK
  <1>2. CASE BeginWrite(c)
    <2>1. PICK content \in Text :
            call' = [call EXCEPT ![c] = [Idle EXCEPT !.pc = "parents", !.op = "write",
                                                     !.target = content]]
      BY <1>2 DEF BeginWrite
    <2> DEFINE r == [Idle EXCEPT !.pc = "parents", !.op = "write", !.target = content]
    <2>2. r \in CallRecord /\ r.pc = "parents" /\ r.op = "write"
      BY FileToolsAssumption, RecordFields DEF CallRecord, Idle, Pc
    <2> HIDE DEF r
    <2>3. call' = [call EXCEPT ![c] = r]
      BY <2>1 DEF r
    <2> QED
      BY <1>2, <2>2, <2>3, QuietStep DEF BeginWrite
  <1>3. CASE BeginEdit(c)
    <2>1. PICK old \in Text \ {<<>>}, new \in Text :
            call' = [call EXCEPT ![c] = [Idle EXCEPT !.pc = "read", !.op = "edit",
                                                     !.old = old, !.new = new]]
      BY <1>3 DEF BeginEdit
    <2> DEFINE r == [Idle EXCEPT !.pc = "read", !.op = "edit", !.old = old, !.new = new]
    <2>2. r \in CallRecord /\ r.pc = "read"
      BY FileToolsAssumption, RecordFields DEF CallRecord, Idle, Pc
    <2> HIDE DEF r
    <2>3. call' = [call EXCEPT ![c] = r]
      BY <2>1 DEF r
    <2> QED
      BY <1>3, <2>2, <2>3, QuietStep DEF BeginEdit
  <1>4. CASE RefuseAtOnce(c)
    <2>1. PICK op \in {"write", "edit"} :
            call' = [call EXCEPT ![c] = [Idle EXCEPT !.pc = "done", !.op = op,
                                                     !.answer = "refused"]]
      BY <1>4 DEF RefuseAtOnce
    <2> DEFINE r == [Idle EXCEPT !.pc = "done", !.op = op, !.answer = "refused"]
    <2>2. r \in CallRecord /\ r.pc = "done" /\ r.answer = "refused"
      BY RecordFields DEF CallRecord, Idle, Pc, Answer
    <2> HIDE DEF r
    <2>3. call' = [call EXCEPT ![c] = r]
      BY <2>1 DEF r
    <2> QED
      BY <1>4, <2>2, <2>3, QuietStep DEF RefuseAtOnce
  <1>5. CASE CreateParents(c)
    <2> DEFINE r == [call[c] EXCEPT !.pc = "open"]
    <2>1. r \in CallRecord /\ r.pc = "open" /\ r.op = call[c].op
      BY <1>1 DEF CallRecord, Pc
    <2>2. r.op # "edit"
      BY <1>5, <2>1 DEF CreateParents, IInv, OnlyWritesMakeParents
    <2>3. call' = [call EXCEPT ![c] = r]
      BY <1>5 DEF CreateParents
    <2> HIDE DEF r
    <2> QED
      BY <1>5, <2>1, <2>2, <2>3, QuietStep DEF CreateParents
  <1>6. CASE ParentsFail(c) \/ RefuseEdit(c) \/ ReadFails(c) \/ OpenFails(c) \/ GiveUp(c)
    <2>1. PICK answer \in {"refused", "failed", "dropped"} :
            Answers(c, answer) /\ UNCHANGED <<file, latest, mixed, past>>
      BY <1>6 DEF ParentsFail, RefuseEdit, ReadFails, OpenFails, GiveUp
    <2> DEFINE r == [call[c] EXCEPT !.pc = "done", !.answer = answer]
    <2>2. r \in CallRecord /\ r.pc = "done" /\ r.answer # "ok"
      BY <1>1 DEF CallRecord, Pc, Answer
    <2>3. call' = [call EXCEPT ![c] = r]
      BY <2>1 DEF Answers
    <2> HIDE DEF r
    <2> QED
      BY <2>1, <2>2, <2>3, QuietStep
  <1> QED
    BY <1>2, <1>3, <1>4, <1>5, <1>6

LEMMA ReadAndMatchStep ==
  ASSUME IInv, NEW c \in Call, ReadAndMatch(c)
  PROVE  IInv'
  <1> DEFINE t == Replaced(file, call[c].old, call[c].new)
             r == [call[c] EXCEPT !.pc = "open", !.target = t]
  <1>1. /\ call \in [Call -> CallRecord] /\ call[c] \in CallRecord
        /\ past \in [Call -> PastRecord] /\ past[c] \in PastRecord
        /\ file \in Seq(Byte)
    BY DEF IInv, TypeOK, ReadAndMatch
  <1>2. t \in Seq(Byte)
    BY <1>1, RecordFields, ReplacedKeepsTheRest DEF ReadAndMatch
  <1>3. call' = [call EXCEPT ![c] = r]
    BY DEF ReadAndMatch
  <1>4. /\ r \in CallRecord /\ r.pc = "open" /\ r.target = t
        /\ r.old = call[c].old /\ r.new = call[c].new /\ r.op = call[c].op
    BY <1>1, <1>2 DEF CallRecord, Pc
  <1>5. MatchesOnce(file, r.old) /\ t = Replaced(file, r.old, r.new)
    BY <1>4 DEF ReadAndMatch
  <1> HIDE DEF t, r
  <1>6. call'[c] = r /\ \A d \in Call \ {c} : call'[d] = call[d]
    BY <1>1, <1>3
  <1>7. /\ past' \in [Call -> PastRecord]
        /\ past'[c].read = file
        /\ \A d \in Call \ {c} : past'[d] = past[d]
    BY <1>1 DEF ReadAndMatch, PastRecord
  <1>8. file' = file /\ latest' = latest /\ mixed' = mixed /\ file # None
    BY DEF ReadAndMatch
  <1>9. TypeOK'
    BY <1>1, <1>3, <1>4, <1>7, <1>8 DEF IInv, TypeOK
  <1>10. OnlyWritesMakeParents'
    BY <1>4, <1>6 DEF IInv, OnlyWritesMakeParents
  <1>11. Copies'
    <2>1. IsEditOf(c, past[c].read)' /\ past'[c].read = file' /\ call'[c].pc = "open"
      BY <1>1, <1>4, <1>5, <1>6, <1>7, <1>8 DEF IsEditOf
    <2>2. \A d \in Call \ {c} : HasRead(d)' => HasRead(d)
      BY <1>6 DEF HasRead, Succeeded
    <2>3. ASSUME NEW d \in Call \ {c}, HasRead(d)'
          PROVE  /\ IsEditOf(d, past[d].read)'
                 /\ ~ past'[d].stale =>
                       past'[d].read = IF call'[d].pc = "open" THEN file' ELSE past'[d].before
      BY <1>6, <1>7, <1>8, <2>2, <2>3 DEF IInv, Copies, IsEditOf
    <2> QED
      BY <2>1, <2>3 DEF Copies
  <1>12. OpenIsEmpty'
    BY <1>4, <1>6, <1>7, <1>8 DEF IInv, OpenIsEmpty
  <1>13. OpenAlone'
    BY <1>4, <1>6, <1>8 DEF IInv, OpenAlone
  <1>14. SuccessIsWhole'
    BY <1>4, <1>6, <1>7, <1>8 DEF IInv, SuccessIsWhole, Succeeded
  <1>15. NoRemains'
    BY <1>8 DEF IInv, NoRemains
  <1> QED
    BY <1>9, <1>10, <1>11, <1>12, <1>13, <1>14, <1>15 DEF IInv

\* What the steps that change the file have in common: past is still a history,
\* c keeps its own, and every other call has been changed under.
LEMMA OthersNotice ==
  ASSUME TypeOK, NEW c \in Call
  PROVE  /\ ChangedUnder(c) \in [Call -> PastRecord]
         /\ ChangedUnder(c)[c] = past[c]
         /\ \A d \in Call \ {c} : /\ ChangedUnder(c)[d].stale /\ ChangedUnder(c)[d].crossed
                                 /\ ChangedUnder(c)[d].read = past[d].read
  BY DEF TypeOK, ChangedUnder, PastRecord

LEMMA OpenStep ==
  ASSUME IInv, NEW c \in Call, Open(c)
  PROVE  IInv'
  <1> DEFINE r == [call[c] EXCEPT !.pc = "write"]
             others == ChangedUnder(c)
             h == [others[c] EXCEPT !.before = file, !.crossed = FALSE]
  <1>1. /\ TypeOK
        /\ call \in [Call -> CallRecord] /\ call[c] \in CallRecord
        /\ past[c] \in PastRecord
    BY DEF IInv, TypeOK
  <1>2. others \in [Call -> PastRecord] /\ others[c] = past[c]
    BY <1>1, OthersNotice
  <1>3. \A d \in Call \ {c} : /\ others[d].stale /\ others[d].crossed
                              /\ others[d].read = past[d].read
    BY <1>1, OthersNotice
  <1>4. call' = [call EXCEPT ![c] = r] /\ past' = [others EXCEPT ![c] = h]
    BY DEF Open
  <1>5. /\ r \in CallRecord /\ r.pc = "write" /\ r.target = call[c].target
        /\ r.old = call[c].old /\ r.new = call[c].new /\ r.op = call[c].op
    BY <1>1 DEF CallRecord, Pc
  <1>6. /\ h \in PastRecord /\ h.before = file /\ h.stale = past[c].stale
        /\ h.crossed = FALSE /\ h.read = past[c].read
    BY <1>1, <1>2 DEF PastRecord, TypeOK
  <1> HIDE DEF r, others, h
  <1>7. call'[c] = r /\ \A d \in Call \ {c} : call'[d] = call[d]
    BY <1>1, <1>4
  <1>8. /\ past' \in [Call -> PastRecord]
        /\ past'[c] = h
        /\ \A d \in Call \ {c} : past'[d].stale /\ past'[d].crossed /\ past'[d].read = past[d].read
    BY <1>2, <1>3, <1>4, <1>6
  <1>9. /\ file' = <<>> /\ latest' = call[c].target
        /\ mixed' = OthersOpen(c)
    BY DEF Open, Opened
  <1>10. <<>> \in Seq(Byte) /\ <<>> # None /\ call[c].target \in Seq(Byte)
    BY <1>1, RecordFields, FileToolsAssumption
  <1>11. TypeOK'
    <2>1. mixed' \in BOOLEAN
      BY <1>9 DEF OthersOpen
    <2>2. call' \in [Call -> CallRecord]
      BY <1>1, <1>4, <1>5
    <2> QED
      BY <1>8, <1>9, <1>10, <2>1, <2>2 DEF TypeOK
  <1>12. OnlyWritesMakeParents'
    BY <1>5, <1>7 DEF IInv, OnlyWritesMakeParents
  <1>13. Copies'
    <2>1. \A d \in Call : HasRead(d)' => HasRead(d)
      BY <1>5, <1>7 DEF HasRead, Succeeded, Open
    <2>2. \A d \in Call : HasRead(d)' => IsEditOf(d, past[d].read)'
      BY <1>5, <1>6, <1>7, <1>8, <2>1 DEF IInv, Copies, IsEditOf
    <2>3. call[c].pc = "open"
      BY DEF Open
    <2>4. HasRead(c) /\ ~ past'[c].stale => past'[c].read = past'[c].before
      BY <1>6, <1>8, <2>3 DEF IInv, Copies
    <2> QED
      BY <1>5, <1>7, <1>8, <2>1, <2>2, <2>4 DEF Copies
  <1>14. OpenIsEmpty'
    BY <1>9 DEF OpenIsEmpty
  <1>15. OpenAlone'
    BY <1>5, <1>7, <1>9 DEF OpenAlone, OthersOpen
  <1>16. SuccessIsWhole'
    BY <1>5, <1>7, <1>8 DEF SuccessIsWhole, Succeeded
  <1>17. NoRemains'
    <2>1. /\ Len(<<>>) = 0 /\ Len(call[c].target) \in Nat
          /\ call[c].target # None
      BY <1>10, LenProperties, EmptySeq, FileToolsAssumption
    <2>2. SubSeq(call[c].target, 1, 0) = <<>>
      BY SubSeqEmpty
    <2> QED
      BY <1>9, <2>1, <2>2 DEF NoRemains
  <1> QED
    BY <1>11, <1>12, <1>13, <1>14, <1>15, <1>16, <1>17 DEF IInv

\* c writes text, the whole of its contents if the write succeeds, and is done.
LEMMA WriteStep ==
  ASSUME IInv, NEW c \in Call, Write(c) \/ WriteFails(c)
  PROVE  IInv'
  <1>1. /\ TypeOK
        /\ call \in [Call -> CallRecord] /\ call[c] \in CallRecord
        /\ past[c] \in PastRecord
        /\ call[c].target \in Seq(Byte)
    BY RecordFields DEF IInv, TypeOK
  <1>2. /\ call[c].pc = "write" /\ file \in Seq(Byte)
        /\ latest' = latest /\ mixed' = mixed /\ past' = ChangedUnder(c)
    BY <1>1 DEF Write, WriteFails, TypeOK
  <1>3. PICK k \in 0 .. Len(call[c].target), answer \in {"ok", "failed"} :
          /\ file' = Overlay(SubSeq(call[c].target, 1, k), file)
          /\ Answers(c, answer)
          /\ answer = "ok" => k = Len(call[c].target)
    <2>1. CASE Write(c)
      <3>1. SubSeq(call[c].target, 1, Len(call[c].target)) = call[c].target
        BY <1>1, SubSeqFull
      <3>2. Len(call[c].target) \in 0 .. Len(call[c].target)
        BY <1>1, LenProperties
      <3> QED
        BY <2>1, <3>1, <3>2 DEF Write
    <2>2. CASE WriteFails(c)
      BY <2>2 DEF WriteFails
    <2> QED
      BY <2>1, <2>2
  <1> DEFINE text == SubSeq(call[c].target, 1, k)
             r == [call[c] EXCEPT !.pc = "done", !.answer = answer]
  <1>4. /\ text \in Seq(Byte) /\ Len(text) = k
        /\ answer = "ok" => text = call[c].target
    BY <1>1, <1>3, BeginningIs, SubSeqFull
  <1>5. call' = [call EXCEPT ![c] = r]
    BY <1>3 DEF Answers
  <1>6. /\ r \in CallRecord /\ r.pc = "done" /\ r.target = call[c].target
        /\ r.old = call[c].old /\ r.new = call[c].new /\ r.op = call[c].op
        /\ r.answer = answer
    BY <1>1 DEF CallRecord, Pc, Answer
  <1>7. /\ past' \in [Call -> PastRecord]
        /\ past'[c] = past[c]
        /\ \A d \in Call \ {c} : past'[d].stale /\ past'[d].crossed /\ past'[d].read = past[d].read
    BY <1>1, <1>2, OthersNotice
  <1>8. file' = Overlay(text, file)
    BY <1>3
  <1> HIDE DEF text, r
  <1>9. call'[c] = r /\ \A d \in Call \ {c} : call'[d] = call[d]
    BY <1>1, <1>5
  <1>10. /\ file' \in Seq(Byte) /\ file' # None
         /\ file = <<>> => file' = text
    BY <1>2, <1>4, <1>8, OverlayIs, FileToolsAssumption
  <1>11. TypeOK'
    <2>1. call' \in [Call -> CallRecord]
      BY <1>1, <1>5, <1>6
    <2> QED
      BY <1>1, <1>2, <1>7, <1>10, <2>1 DEF TypeOK
  <1>12. OnlyWritesMakeParents'
    BY <1>6, <1>9 DEF IInv, OnlyWritesMakeParents
  <1>13. Copies'
    <2>1. \A d \in Call : HasRead(d)' => HasRead(d)
      BY <1>2, <1>6, <1>9 DEF HasRead, Succeeded
    <2>2. \A d \in Call : HasRead(d)' => IsEditOf(d, past[d].read)'
      BY <1>6, <1>7, <1>9, <2>1 DEF IInv, Copies, IsEditOf
    <2>3. HasRead(c) /\ ~ past'[c].stale => past'[c].read = past'[c].before
      BY <1>2, <1>7 DEF IInv, Copies
    <2> QED
      BY <1>6, <1>7, <1>9, <2>1, <2>2, <2>3 DEF Copies
  <1>14. OpenIsEmpty'
    BY <1>6, <1>7, <1>9 DEF OpenIsEmpty
  <1>15. ~ mixed => file = <<>> /\ latest = call[c].target
                    /\ \A d \in Call \ {c} : call[d].pc # "write"
    BY <1>2 DEF IInv, OpenAlone
  <1>16. OpenAlone'
    BY <1>2, <1>6, <1>9, <1>15 DEF OpenAlone
  <1>17. SuccessIsWhole'
    <2>1. ASSUME Succeeded(c)', ~ past'[c].crossed PROVE file' = call'[c].target
      <3>1. answer = "ok" /\ file = <<>>
        BY <1>2, <1>6, <1>7, <1>9, <2>1 DEF Succeeded, IInv, OpenIsEmpty
      <3> QED
        BY <1>4, <1>6, <1>9, <1>10, <3>1
    <2> QED
      BY <1>7, <2>1 DEF SuccessIsWhole
  <1>18. NoRemains'
    <2>1. SUFFICES ASSUME ~ mixed
                   PROVE  /\ latest # None
                          /\ Len(file') <= Len(latest)
                          /\ file' = SubSeq(latest, 1, Len(file'))
      BY <1>2 DEF NoRemains
    <2>2. file' = text /\ latest = call[c].target
      BY <1>10, <1>15, <2>1
    <2>3. Len(call[c].target) \in Nat /\ call[c].target # None
      BY <1>1, LenProperties, FileToolsAssumption
    <2> QED
      BY <1>3, <1>4, <2>2, <2>3 DEF text
  <1> QED
    BY <1>11, <1>12, <1>13, <1>14, <1>16, <1>17, <1>18 DEF IInv

LEMMA CommandStep ==
  ASSUME IInv, Command
  PROVE  IInv'
  <1>1. PICK text \in Text : file' = text /\ latest' = text
    BY DEF Command
  <1>2. text \in Seq(Byte) /\ text # None
    BY FileToolsAssumption
  <1>3. call' = call /\ mixed' = (\E d \in Call : call[d].pc = "write")
    BY DEF Command
  <1>4. /\ past' \in [Call -> PastRecord]
        /\ \A d \in Call : past'[d].stale /\ past'[d].crossed /\ past'[d].read = past[d].read
    BY DEF Command, IInv, TypeOK, PastRecord
  <1>5. TypeOK'
    BY <1>1, <1>2, <1>3, <1>4 DEF IInv, TypeOK
  <1>6. OnlyWritesMakeParents'
    BY <1>3 DEF IInv, OnlyWritesMakeParents
  <1>7. Copies'
    <2>1. \A d \in Call : HasRead(d)' => HasRead(d)
      BY <1>3 DEF HasRead, Succeeded
    <2> QED
      BY <1>3, <1>4, <2>1 DEF IInv, Copies, IsEditOf
  <1>8. OpenIsEmpty' /\ SuccessIsWhole'
    BY <1>4 DEF OpenIsEmpty, SuccessIsWhole
  <1>9. OpenAlone'
    BY <1>3 DEF OpenAlone
  <1>10. NoRemains'
    <2>1. Len(text) \in Nat /\ SubSeq(text, 1, Len(text)) = text
      BY <1>2, LenProperties, SubSeqFull
    <2> QED
      BY <1>1, <1>2, <2>1 DEF NoRemains
  <1> QED
    BY <1>5, <1>6, <1>7, <1>8, <1>9, <1>10 DEF IInv

LEMMA RestartStep ==
  ASSUME IInv, Restart
  PROVE  IInv'
  <1>1. file' = file /\ latest' = latest /\ mixed' = mixed /\ past' = past
    BY DEF Restart
  <1>2. \A d \in Call :
          \/ call'[d] = call[d]
          \/ call'[d].pc = "done" /\ call'[d].answer = "dropped"
    BY DEF Restart, IInv, TypeOK, CallRecord
  <1>3. \A d \in Call : call'[d].pc \in {"idle", "done"}
    BY DEF Restart, IInv, TypeOK, CallRecord
  <1>4. TypeOK'
    <2>1. \A r \in CallRecord : [r EXCEPT !.pc = "done", !.answer = "dropped"] \in CallRecord
      BY DEF CallRecord, Pc, Answer
    <2>2. \A d \in Call :
            (IF call[d].pc \in {"idle", "done"} THEN call[d]
             ELSE [call[d] EXCEPT !.pc = "done", !.answer = "dropped"]) \in CallRecord
      BY <2>1 DEF IInv, TypeOK
    <2>3. call' \in [Call -> CallRecord]
      BY <2>2 DEF Restart
    <2> QED
      BY <1>1, <1>3, <2>3 DEF IInv, TypeOK
  <1>5. OnlyWritesMakeParents' /\ OpenIsEmpty' /\ OpenAlone'
    BY <1>3 DEF OnlyWritesMakeParents, OpenIsEmpty, OpenAlone
  <1>6. \A d \in Call : Succeeded(d)' => call'[d] = call[d] /\ Succeeded(d)
    BY <1>2 DEF Succeeded
  <1>7. Copies'
    <2>1. \A d \in Call : HasRead(d)' => HasRead(d) /\ call'[d] = call[d]
      BY <1>3, <1>6 DEF HasRead
    <2> QED
      BY <1>1, <2>1 DEF IInv, Copies, IsEditOf
  <1>8. SuccessIsWhole'
    BY <1>1, <1>6 DEF IInv, SuccessIsWhole
  <1>9. NoRemains'
    BY <1>1 DEF IInv, NoRemains
  <1> QED
    BY <1>4, <1>5, <1>7, <1>8, <1>9 DEF IInv

LEMMA StepIInv == IInv /\ [Next]_vars => IInv'
  <1> SUFFICES ASSUME IInv, [Next]_vars PROVE IInv'
    OBVIOUS
  <1>1. ASSUME NEW c \in Call, CallStep(c) PROVE IInv'
    BY <1>1, QuietSteps, ReadAndMatchStep, OpenStep, WriteStep DEF CallStep
  <1>2. CASE Command
    BY <1>2, CommandStep
  <1>3. CASE Restart
    BY <1>3, RestartStep
  <1>4. CASE UNCHANGED vars
    BY <1>4 DEF vars, IInv, TypeOK, OnlyWritesMakeParents, Copies, HasRead, IsEditOf,
                OpenIsEmpty, OpenAlone, SuccessIsWhole, Succeeded, NoRemains
  <1> QED
    BY <1>1, <1>2, <1>3, <1>4 DEF Next

-----------------------------------------------------------------------------
(* The invariant holds in every state the tools can reach: of write_file, edit_file  *)
(* (fs_ops.rs:104-140), the commands that write the same file, and restarts.         *)
THEOREM Invariance == Spec => []IInv
  BY InitIInv, StepIInv, PTL DEF Spec

\* Every file, call and history keeps its type, and what a call writes to exists.
THEOREM TypeCorrect == Spec => []TypeOK
  <1>1. IInv => TypeOK
    BY DEF IInv
  <1> QED
    BY <1>1, Invariance, PTL

\* A call that reports success has put its whole contents in the file, up to what
\* others wrote since it opened the file (fs_ops.rs:112-115, 136-139).
THEOREM SuccessWritesAll == Spec => []SuccessIsWhole
  <1>1. IInv => SuccessIsWhole
    BY DEF IInv
  <1> QED
    BY <1>1, Invariance, PTL

\* While the tools' writes do not overlap, a file holds the beginning of what was
\* written last, across failures and restarts (tokio::fs::write, fs_ops.rs:112, 136).
THEOREM WritesLeaveNoRemains == Spec => []NoRemains
  <1>1. IInv => NoRemains
    BY DEF IInv
  <1> QED
    BY <1>1, Invariance, PTL

\* What a successful edit_file leaves is the file it read with the one occurrence of old_text
\* replaced, or the first of several that all overlap it, and the rest kept, whatever the
\* texts; only what others wrote since it read is lost (fs_ops.rs:118-140).
THEOREM EditsReplaceTheMatch == Spec => []EditReplacesTheMatch
  <1>1. ASSUME IInv, NEW c \in Call, Succeeded(c), call[c].op = "edit", ~ past[c].crossed
        PROVE  /\ \E i \in 0 .. Len(past[c].read) :
                     LET left  == SubSeq(past[c].read, 1, i)
                         right == SubSeq(past[c].read, i + Len(call[c].old) + 1,
                                         Len(past[c].read))
                     IN  /\ past[c].read = left \o call[c].old \o right
                         /\ file = left \o call[c].new \o right
                         /\ \A j \in At(past[c].read, call[c].old) :
                               i < j /\ j <= i + Len(call[c].old)
               /\ ~ past[c].stale => past[c].before = past[c].read
    <2>1. call[c].pc = "done" /\ HasRead(c)
      BY <1>1 DEF HasRead, Succeeded
    <2>2. /\ IsEditOf(c, past[c].read)
          /\ ~ past[c].stale => past[c].before = past[c].read
      BY <1>1, <2>1 DEF IInv, Copies
    <2>3. file = Replaced(past[c].read, call[c].old, call[c].new)
      BY <1>1, <2>2 DEF IInv, SuccessIsWhole, IsEditOf
    <2>4. /\ call[c].old \in Seq(Byte) /\ call[c].new \in Seq(Byte)
          /\ past[c].read \in Seq(Byte) /\ MatchesOnce(past[c].read, call[c].old)
      BY <1>1, <2>2, RecordFields DEF IInv, TypeOK, IsEditOf
    <2>5. \E i \in 0 .. Len(past[c].read) :
             LET left  == SubSeq(past[c].read, 1, i)
                 right == SubSeq(past[c].read, i + Len(call[c].old) + 1, Len(past[c].read))
             IN  /\ past[c].read = left \o call[c].old \o right
                 /\ Replaced(past[c].read, call[c].old, call[c].new)
                       = left \o call[c].new \o right
                 /\ \A j \in At(past[c].read, call[c].old) : i < j /\ j <= i + Len(call[c].old)
      BY <2>4, ReplacedKeepsTheRest, ZenonT(30)
    <2> QED
      BY <2>2, <2>3, <2>5, ZenonT(30)
  <1>2. IInv => EditReplacesTheMatch
    BY <1>1 DEF EditReplacesTheMatch
  <1> QED
    BY <1>2, Invariance, PTL
=============================================================================
