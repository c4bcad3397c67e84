---------------------------- MODULE Ledger_proofs ----------------------------
(***************************************************************************)
(* Theorems about Ledger for every set of processes, payloads and batches, *)
(* and every choice of operations and faults the statements allow.         *)
(*                                                                         *)
(* First the ledger nobody edits: LedgerInv is inductive, whatever writers *)
(* crash, fail, retry and interleave, whatever other programs append and a *)
(* power loss takes.                                                       *)
(*                                                                         *)
(* Then what the head file says of the ledger, also of one that is edited: *)
(* the ledger implements the log of acknowledged payloads of AckLog, a     *)
(* retry never stores a batch twice, verify_report neither cries wolf nor  *)
(* passes what nobody acknowledged, and later writes do not hide a lost    *)
(* record.                                                                 *)
(***************************************************************************)
EXTENDS Ledger, SequenceTheorems, WellFoundedInduction, TLAPS

-----------------------------------------------------------------------------
(* Sequences of hashes *)

\* The end of a replay is a hash.
LEMMA EndOfType ==
  ASSUME NEW h \in Hash, NEW lines \in Seq(Hash)
  PROVE  EndOf(h, lines) \in Hash
BY DEF EndOf

\* A part of a sequence is a sequence over the same set.
LEMMA SubSeqType ==
  ASSUME NEW S, NEW q \in Seq(S), NEW i \in 1..Len(q) + 1, NEW j \in 0..Len(q)
  PROVE  /\ SubSeq(q, i, j) \in Seq(S)
         /\ Len(SubSeq(q, i, j)) = IF i <= j THEN j - i + 1 ELSE 0
         /\ \A k \in 1..Len(SubSeq(q, i, j)) : SubSeq(q, i, j)[k] = q[i + k - 1]
OBVIOUS

\* A non-empty sequence without its last element is one over the same set.
LEMMA FrontType ==
  ASSUME NEW S, NEW q \in Seq(S)
  PROVE  /\ Front(q) \in Seq(S)
         /\ Len(Front(q)) = IF q = <<>> THEN 0 ELSE Len(q) - 1
BY DEF Front

\* Two sequences over one set make a sequence over it.
LEMMA ConcatType ==
  ASSUME NEW S, NEW q \in Seq(S), NEW r \in Seq(S)
  PROVE  q \o r \in Seq(S) /\ Len(q \o r) = Len(q) + Len(r)
OBVIOUS

-----------------------------------------------------------------------------
(* Type correctness *)

\* Every store and every process starts with its variables in their types.
LEMMA TypeInit == Init => TypeOK
<1> SUFFICES ASSUME NEW st \in Stores, NEW x \in Others, InitFrom(st, x)
             PROVE  TypeOK
  BY DEF Init
<1> USE DEF InitFrom
<1>1. <<x>> \in Hash /\ <<>> \in Hash
  BY LedgerAssumption DEF Hash
<1>2. file \in Seq(Hash) /\ frag \in {"none", "torn", "bare", "alien"} /\ synced \in 0..Len(file)
  BY <1>1
<1>3. head \in HeadFile /\ heads \subseteq HeadFile /\ done \in Hash
  BY <1>1 DEF HeadFile, NoHead, HeadAt
<1>4. hload \in [Proc -> HeadFile] /\ recs \in [Proc -> Hash]
  BY <1>1 DEF HeadFile, NoHead
<1>5. /\ pc \in [Proc -> Stage] /\ op \in [Proc -> Ops \cup {"none"}] /\ off \in [Proc -> Nat]
      /\ batch \in [Proc -> Seq(Payload)] /\ wrote \in [Proc -> Nat]
      /\ verdict \in [Proc -> {"none", "ok", "alarm"}]
  BY DEF Stage
<1>. QED
  BY <1>2, <1>3, <1>4, <1>5 DEF TypeOK

\* Dropping a handle keeps every per-process variable in its type.
LEMMA DropType ==
  ASSUME TypeOK, NEW p \in Proc, Drop(p)
  PROVE  /\ pc' \in [Proc -> Stage] /\ op' \in [Proc -> Ops \cup {"none"}]
         /\ recs' \in [Proc -> Hash] /\ off' \in [Proc -> Nat]
         /\ hload' \in [Proc -> HeadFile]
         /\ batch' \in [Proc -> Seq(Payload)] /\ wrote' \in [Proc -> Nat]
         /\ verdict' \in [Proc -> {"none", "ok", "alarm"}]
BY DEF TypeOK, Drop, Goto, Stage, Hash, HeadFile, NoHead

\* The end of an operation keeps every per-process variable in its type.
LEMMA ReturnType ==
  ASSUME TypeOK, NEW p \in Proc, Return(p)
  PROVE  /\ pc' \in [Proc -> Stage] /\ op' \in [Proc -> Ops \cup {"none"}]
         /\ batch' \in [Proc -> Seq(Payload)] /\ wrote' \in [Proc -> Nat]
BY DEF TypeOK, Return, Goto, Stage

\* What sync_tail reads is a sequence of lines, and so is every part of it.
LEMMA UnreadType ==
  ASSUME TypeOK, NEW p \in Proc, Len(file) >= off[p]
  PROVE  /\ Unread(p) \in Seq(Hash) /\ Len(Unread(p)) = Len(file) - off[p]
         /\ \A i \in 1..Len(Unread(p)) : Unread(p)[i] = file[off[p] + i]
<1>1. off[p] + 1 \in 1..Len(file) + 1 /\ Len(file) \in 0..Len(file) /\ off[p] \in Nat
  BY DEF TypeOK
<1>. QED
  BY <1>1, SubSeqType DEF Unread, TypeOK

\* write_head leaves a head, and a set of heads, of the right type.
LEMMA HeadWrittenType ==
  ASSUME TypeOK, NEW p \in Proc, HeadWritten(p)
  PROVE  head' \in HeadFile /\ heads' \subseteq HeadFile /\ hload' \in [Proc -> HeadFile]
BY DEF TypeOK, HeadWritten, HeadAt, HeadFile

\* The line a writer appends next is a hash.
LEMMA NextLineType ==
  ASSUME TypeOK, NEW p \in Proc, wrote[p] < Len(batch[p])
  PROVE  /\ NextLine(p) \in Hash
         /\ Append(file, NextLine(p)) \in Seq(Hash)
         /\ synced \in 0..Len(Append(file, NextLine(p)))
<1>1. SubSeq(batch[p], 1, wrote[p] + 1) \in Seq(Payload)
  <2>1. batch[p] \in Seq(Payload) /\ wrote[p] \in Nat
    BY DEF TypeOK
  <2>. QED
    BY <2>1, SubSeqType
<1>2. NextLine(p) \in Hash
  BY <1>1, ConcatType DEF NextLine, TypeOK, Hash
<1>. QED
  BY <1>2 DEF TypeOK

\* No step of a process takes a variable out of its type.
LEMMA TypeStep ==
  ASSUME TypeOK, NEW p \in Proc, Step(p)
  PROVE  TypeOK'
<1>1. CASE OpenHead(p)
  BY <1>1 DEF OpenHead, TypeOK, disk, task, Goto, Stage
<1>2. CASE OpenLedger(p)
  <2>1. <<>> \in Hash
    BY DEF Hash
  <2>2. EndOf(<<>>, file) \in Hash /\ Len(file) \in Nat
    BY <2>1, EndOfType DEF TypeOK
  <2>. QED
    BY <1>2, <2>2 DEF OpenLedger, TypeOK, disk, task, Goto, Stage
<1>3. CASE OpenRefused(p)
  BY <1>3, DropType DEF OpenRefused, TypeOK, disk
<1>4. CASE Close(p)
  BY <1>4, DropType DEF Close, TypeOK, disk
<1>5. ASSUME NEW b \in Batches[p], StartAppend(p, b)
      PROVE  TypeOK'
  <2>1. b \in Seq(Payload) /\ "append" \in Ops
    BY <1>5, LedgerAssumption DEF StartAppend
  <2>. QED
    BY <1>5, <2>1 DEF StartAppend, TypeOK, disk, handle, Goto, Stage
<1>6. ASSUME NEW o \in {"accept", "reset"}, StartPerson(p, o)
      PROVE  TypeOK'
  BY <1>6 DEF StartPerson, TypeOK, disk, handle, task, Goto, Stage
<1>7. CASE Lock(p)
  BY <1>7 DEF Lock, TypeOK, disk, handle, task, Goto, Stage, Exclusive
<1>8. CASE LockBusy(p)
  BY <1>8, ReturnType DEF LockBusy, TypeOK, disk, handle
<1>9. CASE SyncTail(p)
  <2>1. EndOf(recs[p], Unread(p)) \in Hash /\ Len(file) \in Nat
    BY <1>9, UnreadType, EndOfType DEF SyncTail, TypeOK
  <2>. QED
    BY <1>9, <2>1 DEF SyncTail, TypeOK, task, Goto, Stage, Exclusive
<1>10. CASE SyncTailRefused(p)
  <2>1. recs' \in [Proc -> Hash] /\ off' \in [Proc -> Nat]
    <3>1. CASE UNCHANGED <<recs, off>>
      BY <3>1 DEF TypeOK
    <3>2. ASSUME Len(file) >= off[p], NEW k \in 0..Len(Unread(p)) - 1,
                 recs' = [recs EXCEPT ![p] = EndOf(@, SubSeq(Unread(p), 1, k))],
                 UNCHANGED off
          PROVE  recs' \in [Proc -> Hash] /\ off' \in [Proc -> Nat]
      <4>1. Unread(p) \in Seq(Hash) /\ 1 \in 1..Len(Unread(p)) + 1 /\ k \in 0..Len(Unread(p))
        BY <3>2, UnreadType
      <4>2. EndOf(recs[p], SubSeq(Unread(p), 1, k)) \in Hash
        BY <4>1, SubSeqType, EndOfType DEF TypeOK
      <4>. QED
        BY <3>2, <4>2 DEF TypeOK
    <3>. QED
      BY <1>10, <3>1, <3>2 DEF SyncTailRefused
  <2>. QED
    BY <1>10, <2>1, ReturnType DEF SyncTailRefused, TypeOK, disk
<1>11. CASE CheckHead(p)
  BY <1>11 DEF CheckHead, TypeOK, disk, handle, task, Goto, Stage, Exclusive
<1>12. CASE AppendRefused(p)
  BY <1>12, ReturnType DEF AppendRefused, TypeOK, disk, handle
<1>13. CASE WritePart(p)
  <2>1. /\ frag' \in {"torn", "bare"}
        /\ file' \in Seq(Hash) /\ synced' \in 0..Len(file')
    BY <1>13, NextLineType DEF WritePart, TypeOK
  <2>. QED
    BY <1>13, <2>1 DEF WritePart, TypeOK, handle, task, Goto, Stage, Exclusive
<1>14. CASE WriteLine(p)
  <2>1. file' \in Seq(Hash) /\ synced' \in 0..Len(file')
    <3> DEFINE junk == Append(Front(file), Junk)
    <3>1. Junk \in Hash
      BY DEF Junk, Hash
    <3>2. Append(file, Junk) \in Seq(Hash) /\ synced \in 0..Len(Append(file, Junk))
      BY <3>1 DEF TypeOK
    <3>3. junk \in Seq(Hash) /\ synced \in 0..Len(junk)
      <4>1. /\ Front(file) \in Seq(Hash)
            /\ Len(Front(file)) = IF file = <<>> THEN 0 ELSE Len(file) - 1
        BY FrontType DEF TypeOK
      <4>. QED
        BY <3>1, <4>1 DEF TypeOK
    <3>. QED
      BY <1>14, <3>2, <3>3, NextLineType DEF WriteLine, TypeOK
  <2>. QED
    BY <1>14, <2>1 DEF WriteLine, TypeOK, handle, Goto, Stage, Exclusive
<1>15. CASE WriteDone(p)
  BY <1>15 DEF WriteDone, TypeOK, disk, handle, task, Goto, Stage, Exclusive
<1>16. CASE SyncData(p)
  <2>1. recs[p] \o batch[p] \in Hash /\ off[p] + Len(batch[p]) \in Nat /\ Len(file) \in 0..Len(file)
    BY ConcatType DEF TypeOK, Hash
  <2>. QED
    BY <1>16, <2>1 DEF SyncData, TypeOK, task, Goto, Stage, Exclusive
<1>17. CASE HeadRename(p) \/ AppendOk(p)
  <2>1. ToSet(batch[p]) \subseteq Payload
    BY DEF TypeOK, ToSet
  <2>2. CASE HeadRename(p)
    BY <2>2, HeadWrittenType DEF HeadRename, TypeOK, task, Goto, Stage, Exclusive
  <2>3. CASE AppendOk(p)
    BY <2>1, <2>3, ReturnType DEF AppendOk, TypeOK, disk, handle
  <2>. QED
    BY <1>17, <2>2, <2>3
<1>18. CASE AcceptTail(p)
  <2>1. head' \in HeadFile /\ heads' \subseteq HeadFile /\ hload' \in [Proc -> HeadFile]
    BY <1>18, HeadWrittenType DEF AcceptTail, TypeOK
  <2>. QED
    BY <1>18, <2>1, ReturnType DEF AcceptTail, TypeOK
<1>19. CASE AcceptRefused(p)
  BY <1>19, ReturnType DEF AcceptRefused, TypeOK, disk, handle
<1>20. CASE ResetHead(p)
  <2>1. head' \in HeadFile /\ heads' \subseteq HeadFile /\ hload' \in [Proc -> HeadFile]
    <3>1. NoHead \in HeadFile
      BY DEF NoHead, HeadFile, Hash
    <3>. QED
      BY <1>20, <3>1, HeadWrittenType DEF ResetHead, TypeOK
  <2>2. done' \in Hash
    BY <1>20 DEF ResetHead, TypeOK, Hash
  <2>. QED
    BY <1>20, <2>1, <2>2, ReturnType DEF ResetHead, TypeOK
<1>21. CASE VerifyNow(p)
  BY <1>21 DEF VerifyNow, Verdict, TypeOK, disk, handle, task
<1>22. CASE VerifyTail(p)
  BY <1>22 DEF VerifyTail, TypeOK, disk, handle, task, Goto, Stage
<1>23. CASE LockShared(p)
  BY <1>23 DEF LockShared, TypeOK, disk, handle, task, Goto, Stage
<1>24. CASE VerifyRecheck(p)
  <2>1. verdict' \in [Proc -> {"none", "ok", "alarm"}]
    BY <1>24 DEF VerifyRecheck, Verdict, TypeOK
  <2>. QED
    BY <1>24, <2>1, ReturnType DEF VerifyRecheck, TypeOK, disk, handle
<1>. QED
  BY <1>1, <1>2, <1>3, <1>4, <1>5, <1>6, <1>7, <1>8, <1>9, <1>10, <1>11, <1>12, <1>13,
     <1>14, <1>15, <1>16, <1>17, <1>18, <1>19, <1>20, <1>21, <1>22, <1>23, <1>24
     DEF Step

\* Neither does any fault.
LEMMA UnheardType ==
  ASSUME TypeOK, NEW P \in SUBSET Proc
  PROVE  Unheard(P) \subseteq Payload
BY DEF TypeOK, Unheard, ToSet

LEMMA TypeFailure ==
  ASSUME TypeOK, Failure
  PROVE  TypeOK'
<1>1. ASSUME NEW p \in Proc, Crash(p)
      PROVE  TypeOK'
  <2>1. unheard' \subseteq Payload
    BY <1>1, UnheardType DEF Crash, TypeOK
  <2>2. Drop(p) /\ UNCHANGED <<disk, stored, done>> /\ faults' \in Nat
    BY <1>1 DEF Crash, Fault, TypeOK
  <2>. QED
    BY <2>1, <2>2, DropType DEF TypeOK, disk
<1>2. ASSUME NEW p \in Proc, WriteFails(p)
      PROVE  TypeOK'
  <2>1. /\ Return(p) /\ UNCHANGED <<disk, handle, verdict, stored, unheard, done>>
        /\ faults' = faults + 1
    BY <1>2 DEF WriteFails, Fault
  <2>2. faults' \in Nat
    BY <2>1 DEF TypeOK
  <2>. QED
    BY <2>1, <2>2, ReturnType DEF TypeOK, disk, handle
<1>3. ASSUME NEW p \in Proc, HeadFails(p)
      PROVE  TypeOK'
  <2>1. /\ Return(p) /\ UNCHANGED <<disk, handle, verdict, stored, unheard, done>>
        /\ faults' = faults + 1
    BY <1>3 DEF HeadFails, Fault
  <2>2. faults' \in Nat
    BY <2>1 DEF TypeOK
  <2>. QED
    BY <2>1, <2>2, ReturnType DEF TypeOK, disk, handle
<1>4. CASE PowerLoss
  <2>1. file' \in Seq(Hash) /\ synced' \in 0..Len(file')
    <3>1. PICK k \in synced..Len(file) : file' = SubSeq(file, 1, k) /\ synced' = k
      BY <1>4 DEF PowerLoss
    <3>2. k \in 0..Len(file) /\ 1 \in 1..Len(file) + 1
      BY DEF TypeOK
    <3>3. file' \in Seq(Hash) /\ Len(file') = k
      BY <3>1, <3>2, SubSeqType DEF TypeOK
    <3>. QED
      BY <3>1, <3>2, <3>3
  <2>2. frag' \in {"none", "torn", "bare", "alien"} /\ head' \in HeadFile /\ heads' \subseteq HeadFile
    BY <1>4 DEF PowerLoss, TypeOK
  <2>3. NoHead \in HeadFile /\ <<>> \in Hash /\ <<>> \in Seq(Payload)
    BY DEF NoHead, HeadFile, Hash
  <2>. QED
    BY <1>4, <2>1, <2>2, <2>3, UnheardType DEF PowerLoss, Fault, TypeOK, Stage
<1>5. ASSUME NEW x \in Others, ForeignAppend(x)
      PROVE  TypeOK'
  <2> DEFINE line == EndOf(<<>>, file) \o <<x>>
  <2>1. line \in Hash
    <3>1. <<>> \in Hash /\ <<x>> \in Seq(Payload)
      BY LedgerAssumption DEF Hash
    <3>2. EndOf(<<>>, file) \in Seq(Payload)
      BY <3>1, EndOfType DEF TypeOK, Hash
    <3>. QED
      BY <3>1, <3>2, ConcatType DEF Hash
  <2>2. Append(file, line) \in Seq(Hash) /\ synced \in 0..Len(Append(file, line))
    BY <2>1 DEF TypeOK
  <2>. QED
    BY <1>5, <2>2 DEF ForeignAppend, Fault, TypeOK, handle, task
<1>6. CASE Edit
  <2>1. file' \in Seq(Hash)
    <3>1. ASSUME NEW k \in 0..Len(file)-1, file' = SubSeq(file, 1, k)
          PROVE  file' \in Seq(Hash)
      <4>1. k \in 0..Len(file) /\ 1 \in 1..Len(file) + 1
        BY DEF TypeOK
      <4>. QED
        BY <3>1, <4>1, SubSeqType DEF TypeOK
    <3>2. ASSUME NEW x \in Others, file # <<>>,
                 file' = [file EXCEPT ![Len(file)] = Append(Front(@), x)]
          PROVE  file' \in Seq(Hash)
      <4>1. Len(file) \in 1..Len(file) /\ file[Len(file)] \in Hash
        BY <3>2 DEF TypeOK
      <4>2. x \in Payload
        BY LedgerAssumption
      <4>3. Front(file[Len(file)]) \in Seq(Payload)
        BY <4>1, FrontType DEF Hash
      <4>4. Append(Front(file[Len(file)]), x) \in Hash
        BY <4>2, <4>3 DEF Hash
      <4>. QED
        BY <3>2, <4>4 DEF TypeOK
    <3>. QED
      BY <1>6, <3>1, <3>2 DEF Edit
  <2>2. synced' \in 0..Len(file')
    BY <1>6, <2>1 DEF Edit, TypeOK
  <2>. QED
    BY <1>6, <2>1, <2>2 DEF Edit, Fault, TypeOK, handle, task
<1>7. CASE HeadLost
  <2>1. NoHead \in HeadFile /\ BadHead \in HeadFile
    BY DEF NoHead, BadHead, HeadFile, Hash
  <2>. QED
    BY <1>7, <2>1 DEF HeadLost, Fault, TypeOK, handle, task
<1>. QED
  BY <1>1, <1>2, <1>3, <1>4, <1>5, <1>6, <1>7 DEF Failure

\* Every variable keeps its type: in particular the synced part is always a part
\* of the file, and the lines and heads are always hashes of payload sequences.
THEOREM TypeCorrect == Spec => []TypeOK
<1>1. Init => TypeOK
  BY TypeInit
<1>2. TypeOK /\ [Next]_vars => TypeOK'
  <2>1. ASSUME TypeOK, UNCHANGED vars
        PROVE  TypeOK'
    BY <2>1 DEF vars, TypeOK
  <2>. QED
    BY <2>1, TypeStep, TypeFailure DEF Next
<1>. QED
  BY <1>1, <1>2, PTL DEF Spec

-----------------------------------------------------------------------------
(* Prefixes and chains *)

\* A sequence is a prefix of whatever extends it.
LEMMA PrefixOfConcat ==
  ASSUME NEW S, NEW q \in Seq(S), NEW r \in Seq(S)
  PROVE  IsPrefix(q, q \o r)
<1>1. Len(q) <= Len(q \o r) /\ q \o r \in Seq(S) /\ Len(q) \in 0..Len(q \o r)
  OBVIOUS
<1>2. SubSeq(q, 1, Len(q)) = SubSeq(q \o r, 1, Len(q))
  OBVIOUS
<1>. QED
  BY <1>1, <1>2 DEF IsPrefix

\* Every sequence is a prefix of itself.
LEMMA PrefixRefl ==
  ASSUME NEW S, NEW q \in Seq(S)
  PROVE  IsPrefix(q, q)
BY DEF IsPrefix

\* One more payload of a batch makes a longer hash with the earlier one as its prefix.
LEMMA BatchPrefix ==
  ASSUME NEW S, NEW q \in Seq(S), NEW b \in Seq(S), NEW n \in Nat, n < Len(b)
  PROVE  /\ q \o SubSeq(b, 1, n + 1) \in Seq(S)
         /\ Len(q \o SubSeq(b, 1, n + 1)) = Len(q) + n + 1
         /\ IsPrefix(q \o SubSeq(b, 1, n), q \o SubSeq(b, 1, n + 1))
<1>1. SubSeq(b, 1, n) \in Seq(S) /\ Len(SubSeq(b, 1, n)) = n
  OBVIOUS
<1>2. SubSeq(b, 1, n + 1) \in Seq(S) /\ Len(SubSeq(b, 1, n + 1)) = n + 1
  OBVIOUS
<1>3. \A i \in 1..n : SubSeq(b, 1, n)[i] = SubSeq(b, 1, n + 1)[i]
  OBVIOUS
<1> DEFINE u == q \o SubSeq(b, 1, n)
           v == q \o SubSeq(b, 1, n + 1)
<1>4. u \in Seq(S) /\ Len(u) = Len(q) + n /\ v \in Seq(S) /\ Len(v) = Len(q) + n + 1
  BY <1>1, <1>2
<1>5. \A i \in 1..Len(u) : u[i] = v[i]
  BY <1>1, <1>2, <1>3
<1>6. SubSeq(u, 1, Len(u)) = SubSeq(v, 1, Len(u))
  <2> HIDE DEF u, v
  <2>. QED
    BY <1>4, <1>5
<1>7. IsPrefix(u, v)
  <2> HIDE DEF u, v
  <2>. QED
    BY <1>4, <1>6 DEF IsPrefix
<1>. QED
  BY <1>4, <1>7

\* In a chain of lines the hash of the first n of them has length n.
LEMMA UptoLen ==
  ASSUME TypeOK, Loadable, NEW n \in 0..Len(file)
  PROVE  Upto(n) \in Hash /\ Len(Upto(n)) = n
<1>1. CASE n = 0
  BY <1>1 DEF Upto, Hash
<1>2. CASE n # 0
  <2>1. n \in DOMAIN file /\ file[n] \in Hash
    BY <1>2 DEF TypeOK
  <2>. QED  BY <1>2, <2>1 DEF Upto, Loadable, Chains
<1>. QED
  BY <1>1, <1>2

\* A chain goes on with any line that extends the last one by one payload.
LEMMA ChainAppend ==
  ASSUME TypeOK, Loadable, NEW line \in Hash,
         Len(line) = Len(file) + 1, IsPrefix(Upto(Len(file)), line)
  PROVE  Chains(<<>>, Append(file, line))
<1> DEFINE g == Append(file, line)
<1>1. g \in Seq(Hash) /\ Len(g) = Len(file) + 1 /\ g[Len(g)] = line
      /\ \A i \in 1..Len(file) : g[i] = file[i]
  BY DEF TypeOK
<1> HIDE DEF g
<1>2. ASSUME NEW i \in 1..Len(g)
      PROVE  Len(g[i]) = i /\ IsPrefix(Prev(<<>>, g, i), g[i])
  <2>1. CASE i <= Len(file)
    <3>1. i \in 1..Len(file) /\ g[i] = file[i]
      BY <1>1, <2>1 DEF TypeOK
    <3>2. Prev(<<>>, g, i) = Prev(<<>>, file, i)
      BY <1>1, <3>1 DEF Prev
    <3>. QED
      BY <3>1, <3>2 DEF Loadable, Chains
  <2>2. CASE i = Len(file) + 1
    <3>1. Prev(<<>>, g, i) = Upto(Len(file))
      BY <1>1, <2>2 DEF Prev, Upto, TypeOK
    <3>. QED
      BY <1>1, <2>2, <3>1 DEF TypeOK
  <2>. QED
    BY <1>1, <2>1, <2>2 DEF TypeOK
<1>. QED
  BY <1>2 DEF Chains, g

\* The first lines of a chain are a chain.
LEMMA ChainCut ==
  ASSUME TypeOK, Loadable, NEW k \in 0..Len(file)
  PROVE  Chains(<<>>, SubSeq(file, 1, k))
<1> DEFINE g == SubSeq(file, 1, k)
<1>1. Len(g) = k /\ \A i \in 1..k : g[i] = file[i]
  BY DEF TypeOK
<1> HIDE DEF g
<1>2. ASSUME NEW i \in 1..Len(g)
      PROVE  Len(g[i]) = i /\ IsPrefix(Prev(<<>>, g, i), g[i])
  <2>1. i \in 1..Len(file) /\ g[i] = file[i]
    BY <1>1 DEF TypeOK
  <2>2. Prev(<<>>, g, i) = Prev(<<>>, file, i)
    BY <1>1, <2>1 DEF Prev
  <2>. QED
    BY <2>1, <2>2 DEF Loadable, Chains
<1>. QED
  BY <1>2 DEF Chains, g

\* The lines a handle has not read chain to the ones it has.
LEMMA UnreadChains ==
  ASSUME TypeOK, Loadable, NEW p \in Proc, Replayed(p)
  PROVE  Chains(recs[p], Unread(p)) /\ EndOf(recs[p], Unread(p)) = Upto(Len(file))
<1>1. /\ Unread(p) \in Seq(Hash) /\ Len(Unread(p)) = Len(file) - off[p]
      /\ \A i \in 1..Len(Unread(p)) : Unread(p)[i] = file[off[p] + i]
  BY UnreadType DEF Replayed, TypeOK
<1>2. off[p] \in 0..Len(file) /\ Len(file) \in Nat
  BY DEF Replayed, TypeOK
<1>3. Len(recs[p]) = off[p] /\ recs[p] = Upto(off[p])
  BY <1>2, UptoLen DEF Replayed
<1>4. ASSUME NEW i \in 1..Len(Unread(p))
      PROVE  /\ Len(Unread(p)[i]) = Len(recs[p]) + i
             /\ IsPrefix(Prev(recs[p], Unread(p), i), Unread(p)[i])
  <2> DEFINE n == off[p] + i
  <2>1. n \in 1..Len(file) /\ Unread(p)[i] = file[n]
    BY <1>1, <1>2
  <2>2. Len(file[n]) = n /\ IsPrefix(Prev(<<>>, file, n), file[n])
    BY <2>1 DEF Loadable, Chains
  <2>3. Prev(recs[p], Unread(p), i) = Prev(<<>>, file, n)
    <3>1. CASE i = 1
      BY <1>2, <1>3, <3>1 DEF Prev, Upto
    <3>2. CASE i # 1
      <4>1. i - 1 \in 1..Len(Unread(p)) /\ n # 1 /\ off[p] + (i - 1) = n - 1
        BY <1>1, <1>2, <3>2
      <4>. QED
        BY <1>1, <3>2, <4>1 DEF Prev
    <3>. QED
      BY <3>1, <3>2
  <2>. QED
    BY <1>2, <1>3, <2>1, <2>2, <2>3
<1>5. EndOf(recs[p], Unread(p)) = Upto(Len(file))
  <2>1. CASE Unread(p) = <<>>
    BY <1>1, <1>2, <1>3, <2>1 DEF EndOf
  <2>2. CASE Unread(p) # <<>>
    BY <1>1, <1>2, <2>2 DEF EndOf, Upto
  <2>. QED
    BY <2>1, <2>2
<1>. QED
  BY <1>4, <1>5 DEF Chains


-----------------------------------------------------------------------------
(* Frames *)

\* Nothing of the processes other than p changes.
OnlyTask(p) ==
  \A q \in Proc \ {p} : /\ pc'[q] = pc[q] /\ recs'[q] = recs[q] /\ off'[q] = off[q]
                         /\ batch'[q] = batch[q] /\ wrote'[q] = wrote[q]

\* The file keeps the lines it has.
Grows == Len(file') >= Len(file) /\ \A i \in 1..Len(file) : file'[i] = file[i]

\* A process that does not move keeps its part of the invariant: a writer while
\* the file stays as it is, any other while the file only grows.
LEMMA OthersKeep ==
  ASSUME TypeOK, LedgerInv, NEW q \in Proc,
         pc'[q] = pc[q], recs'[q] = recs[q], off'[q] = off[q],
         batch'[q] = batch[q], wrote'[q] = wrote[q],
         \/ UNCHANGED <<file, frag, synced>>
         \/ q \notin Writers /\ Grows /\ Len(file') \in Nat
  PROVE  Replayed(q)' /\ StageInv(q)'
<1>1. Replayed(q) /\ StageInv(q) /\ off[q] \in Nat /\ Len(file) \in Nat
  BY DEF LedgerInv, TypeOK
<1>2. CASE UNCHANGED <<file, frag, synced>>
  BY <1>1, <1>2 DEF Replayed, StageInv, InFlight, Upto
<1>3. CASE q \notin Writers /\ Grows /\ Len(file') \in Nat
  <2>1. Replayed(q)'
    BY <1>1, <1>3 DEF Replayed, Upto, Grows
  <2>2. StageInv(q)'
    BY <1>1, <1>3 DEF StageInv, Writers, Exclusive
  <2>. QED
    BY <2>1, <2>2
<1>. QED
  BY <1>2, <1>3

\* A step of p that leaves the lines alone keeps the invariant if p keeps its
\* part of it and takes the lock only when no process has it.
LEMMA QuietStep ==
  ASSUME TypeOK, LedgerInv, NEW p \in Proc, OnlyTask(p),
         UNCHANGED <<file, frag, synced>>, Replayed(p)', StageInv(p)',
         pc'[p] \in Exclusive => pc[p] \in Exclusive \/ Writers = {}
  PROVE  LedgerInv'
<1>1. \A q \in Proc : Replayed(q)' /\ StageInv(q)'
  BY OthersKeep DEF OnlyTask
<1>2. (\A q, r \in Writers : q = r)'
  BY DEF LedgerInv, Writers, OnlyTask
<1>3. Loadable'
  BY DEF LedgerInv, Loadable, Chains, Prev
<1>. QED
  BY <1>1, <1>2, <1>3 DEF LedgerInv

\* The end of an operation, whatever becomes of the head.
LEMMA ReturnStep ==
  ASSUME TypeOK, LedgerInv, NEW p \in Proc, Return(p), UNCHANGED <<file, frag, synced, recs, off>>
  PROVE  LedgerInv'
<1>1. OnlyTask(p)
  BY DEF TypeOK, Return, Goto, OnlyTask
<1>2. pc'[p] = "ready" /\ wrote'[p] = 0
  BY DEF TypeOK, Return, Goto
<1>3. Replayed(p)' /\ StageInv(p)'
  BY <1>2 DEF LedgerInv, Replayed, Upto, StageInv
<1>. QED
  BY <1>1, <1>2, <1>3, QuietStep DEF Exclusive

\* The end of a handle, by choice or by a crash.
LEMMA DropStep ==
  ASSUME TypeOK, LedgerInv, NEW p \in Proc, Drop(p), UNCHANGED <<file, frag, synced>>
  PROVE  LedgerInv'
<1>1. OnlyTask(p)
  BY DEF TypeOK, Drop, Goto, OnlyTask
<1>2. pc'[p] = "closed" /\ wrote'[p] = 0 /\ off'[p] = 0 /\ recs'[p] = <<>>
  BY DEF TypeOK, Drop, Goto
<1>3. Replayed(p)' /\ StageInv(p)'
  BY <1>2 DEF TypeOK, Replayed, Upto, StageInv
<1>. QED
  BY <1>1, <1>2, <1>3, QuietStep DEF Exclusive

\* A step of the one writer p that changes the lines keeps the invariant if the
\* file only grows, stays a chain, and p keeps its part of the invariant.
LEMMA WriterStep ==
  ASSUME TypeOK, LedgerInv, NEW p \in Writers, OnlyTask(p),
         Grows, Len(file') \in Nat, Loadable', Replayed(p)', StageInv(p)'
  PROVE  LedgerInv'
<1>1. \A q \in Proc \ {p} : q \notin Writers
  BY DEF LedgerInv
<1>2. \A q \in Proc : Replayed(q)' /\ StageInv(q)'
  BY <1>1, OthersKeep DEF OnlyTask, Writers
<1>3. (\A q, r \in Writers : q = r)'
  BY <1>1 DEF Writers, OnlyTask
<1>. QED
  BY <1>2, <1>3 DEF LedgerInv

\* The next line of a batch continues the chain and the batch.
LEMMA NextLineFits ==
  ASSUME TypeOK, LedgerInv, NEW p \in Proc, pc[p] \in {"writing", "tearing"},
         wrote[p] < Len(batch[p]), frag # "bare"
  PROVE  LET g == Append(file, NextLine(p)) IN
         /\ Chains(<<>>, g)
         /\ Len(g) = off[p] + wrote[p] + 1
         /\ \A i \in 1..Len(file) : g[i] = file[i]
         /\ \A i \in off[p] + 1..Len(g) : g[i] = recs[p] \o SubSeq(batch[p], 1, i - off[p])
<1> DEFINE w == wrote[p]
           b == batch[p]
           line == recs[p] \o SubSeq(b, 1, w + 1)
           g == Append(file, line)
<1>1. /\ recs[p] \in Seq(Payload) /\ b \in Seq(Payload) /\ w \in Nat /\ w < Len(b)
      /\ off[p] \in Nat /\ Len(file) \in Nat /\ file \in Seq(Hash)
  BY DEF TypeOK, Hash
<1>2. InFlight(p) /\ Replayed(p) /\ Loadable
  BY DEF LedgerInv, StageInv
<1>3. Len(file) = off[p] + w
  BY <1>1, <1>2 DEF InFlight
<1>4. /\ line \in Seq(Payload) /\ Len(line) = Len(recs[p]) + w + 1
      /\ IsPrefix(recs[p] \o SubSeq(b, 1, w), line)
  BY <1>1, BatchPrefix
<1>5. Len(recs[p]) = off[p]
  BY <1>1, <1>2, UptoLen DEF Replayed
<1>6. Upto(Len(file)) = recs[p] \o SubSeq(b, 1, w)
  <2>1. CASE w = 0
    <3>1. SubSeq(b, 1, w) = <<>> /\ recs[p] \o <<>> = recs[p]
      BY <1>1, <2>1
    <3>. QED
      BY <1>1, <1>2, <1>3, <2>1, <3>1 DEF Replayed
  <2>2. CASE w # 0
    <3>1. Len(file) \in off[p] + 1..Len(file) /\ Len(file) - off[p] = w /\ Len(file) # 0
      BY <1>1, <1>3, <2>2
    <3>. QED
      BY <1>2, <3>1 DEF InFlight, Upto
  <2>. QED
    BY <2>1, <2>2
<1>7. NextLine(p) = line /\ line \in Hash
  BY <1>4 DEF NextLine, Hash
<1> HIDE DEF line, w, b
<1>8. Chains(<<>>, g)
  BY <1>1, <1>2, <1>3, <1>4, <1>5, <1>6, <1>7, ChainAppend
<1>9. Len(g) = off[p] + w + 1 /\ (\A i \in 1..Len(file) : g[i] = file[i]) /\ g[Len(g)] = line
  BY <1>1, <1>3, <1>7
<1>10. ASSUME NEW i \in off[p] + 1..Len(g)
       PROVE  g[i] = recs[p] \o SubSeq(b, 1, i - off[p])
  <2>1. CASE i = Len(g)
    <3>1. i - off[p] = w + 1
      BY <1>1, <1>9, <2>1
    <3>. QED
      BY <1>9, <2>1, <3>1 DEF line
  <2>2. CASE i # Len(g)
    <3>1. i \in 1..Len(file) /\ i \in off[p] + 1..Len(file)
      BY <1>1, <1>3, <1>9, <2>2
    <3>. QED
      BY <1>2, <1>9, <3>1 DEF InFlight, b
  <2>. QED
    BY <2>1, <2>2
<1>. QED
  BY <1>7, <1>8, <1>9, <1>10 DEF w, b

-----------------------------------------------------------------------------
(* LedgerInv is inductive *)

\* Every store a behaviour may start from satisfies the invariant.
LEMMA InvInit == Init => LedgerInv
<1> SUFFICES ASSUME NEW st \in Stores, NEW x \in Others, InitFrom(st, x)
             PROVE  LedgerInv
  BY DEF Init
<1>1. \A p \in Proc : pc[p] = "closed" /\ off[p] = 0 /\ recs[p] = <<>> /\ wrote[p] = 0
  BY DEF InitFrom
<1>2. Writers = {}
  BY <1>1 DEF Writers, Exclusive
<1>3. Loadable
  <2>1. CASE file = <<>>
    BY <2>1 DEF Loadable, Chains
  <2>2. CASE file = << <<x>> >>
    <3>1. Len(file) = 1 /\ file[1] = <<x>> /\ Len(<<x>>) = 1
      BY <2>2
    <3>2. <<>> \in Seq(Payload) /\ <<x>> \in Seq(Payload) /\ <<>> \o <<x>> = <<x>>
      BY LedgerAssumption
    <3>3. IsPrefix(Prev(<<>>, file, 1), file[1])
      BY <3>1, <3>2, PrefixOfConcat DEF Prev
    <3>. QED
      BY <3>1, <3>3 DEF Loadable, Chains
  <2>. QED
    BY <2>1, <2>2 DEF InitFrom
<1>4. \A p \in Proc : Replayed(p) /\ StageInv(p)
  <2>1. Len(file) \in Nat
    BY DEF InitFrom
  <2>. QED
    BY <1>1, <2>1 DEF Replayed, Upto, StageInv
<1>. QED
  BY <1>2, <1>3, <1>4 DEF LedgerInv

\* No step of a process breaks the invariant.
LEMMA InvStep ==
  ASSUME TypeOK, LedgerInv, NEW p \in Proc, Step(p)
  PROVE  LedgerInv'
<1>0. Replayed(p) /\ StageInv(p) /\ Loadable /\ off[p] \in Nat /\ Len(file) \in Nat
  BY DEF LedgerInv, TypeOK
<1>1. CASE OpenHead(p)
  <2>1. OnlyTask(p) /\ pc'[p] = "opening" /\ wrote'[p] = 0
    BY <1>0, <1>1 DEF OpenHead, TypeOK, Goto, OnlyTask, StageInv, task
  <2>2. Replayed(p)' /\ StageInv(p)'
    BY <1>0, <1>1, <2>1 DEF OpenHead, disk, Replayed, Upto, StageInv
  <2>. QED
    BY <1>1, <2>1, <2>2, QuietStep DEF OpenHead, disk, Exclusive
<1>2. CASE OpenLedger(p)
  <2>1. /\ OnlyTask(p) /\ pc'[p] = "ready" /\ wrote'[p] = 0
        /\ off'[p] = Len(file) /\ recs'[p] = EndOf(<<>>, file)
    BY <1>0, <1>2 DEF OpenLedger, TypeOK, Goto, OnlyTask, StageInv, task
  <2>2. EndOf(<<>>, file) = Upto(Len(file))
    BY DEF EndOf, Upto, TypeOK
  <2>3. Replayed(p)' /\ StageInv(p)'
    BY <1>0, <1>2, <2>1, <2>2 DEF OpenLedger, disk, Replayed, Upto, StageInv
  <2>. QED
    BY <1>2, <2>1, <2>3, QuietStep DEF OpenLedger, disk, Exclusive
<1>3. CASE OpenRefused(p)
  BY <1>3, DropStep DEF OpenRefused, disk
<1>4. CASE Close(p)
  BY <1>4, DropStep DEF Close, disk
<1>5. ASSUME NEW b \in Batches[p], StartAppend(p, b)
      PROVE  LedgerInv'
  <2>1. OnlyTask(p) /\ pc'[p] = "want" /\ wrote'[p] = 0
    BY <1>0, <1>5 DEF StartAppend, TypeOK, Goto, OnlyTask, StageInv, handle
  <2>2. Replayed(p)' /\ StageInv(p)'
    BY <1>0, <1>5, <2>1 DEF StartAppend, disk, handle, Replayed, Upto, StageInv
  <2>. QED
    BY <1>5, <2>1, <2>2, QuietStep DEF StartAppend, disk, Exclusive
<1>6. ASSUME NEW o \in {"accept", "reset"}, StartPerson(p, o)
      PROVE  LedgerInv'
  <2>1. OnlyTask(p) /\ pc'[p] = "want" /\ wrote'[p] = 0
    BY <1>0, <1>6 DEF StartPerson, TypeOK, Goto, OnlyTask, StageInv, handle, task
  <2>2. Replayed(p)' /\ StageInv(p)'
    BY <1>0, <1>6, <2>1 DEF StartPerson, disk, handle, Replayed, Upto, StageInv
  <2>. QED
    BY <1>6, <2>1, <2>2, QuietStep DEF StartPerson, disk, Exclusive
<1>7. CASE Lock(p)
  <2>1. OnlyTask(p) /\ pc'[p] = "locked" /\ wrote'[p] = 0
    BY <1>0, <1>7 DEF Lock, TypeOK, Goto, OnlyTask, StageInv, handle, task
  <2>2. Replayed(p)' /\ StageInv(p)'
    BY <1>0, <1>7, <2>1 DEF Lock, disk, handle, Replayed, Upto, StageInv
  <2>. QED
    BY <1>7, <2>1, <2>2, QuietStep DEF Lock, disk
<1>8. CASE LockBusy(p)
  BY <1>8, ReturnStep DEF LockBusy, disk, handle
<1>9. CASE SyncTail(p)
  <2>1. p \in Writers
    BY <1>9 DEF SyncTail, Writers, Exclusive
  <2>2. /\ OnlyTask(p) /\ pc'[p] = "synced" /\ wrote'[p] = 0
        /\ off'[p] = Len(file) /\ recs'[p] = EndOf(recs[p], Unread(p))
    BY <1>0, <1>9 DEF SyncTail, TypeOK, Goto, OnlyTask, StageInv, task
  <2>3. recs'[p] = Upto(Len(file))
    BY <1>0, <2>2, UnreadChains
  <2>4. Replayed(p)' /\ StageInv(p)'
    BY <1>0, <1>9, <2>2, <2>3 DEF SyncTail, Replayed, Upto, StageInv
  <2>5. Grows /\ Len(file') \in Nat /\ Loadable'
    BY <1>0, <1>9 DEF SyncTail, Grows, Loadable, Chains, Prev
  <2>. QED
    BY <2>1, <2>2, <2>4, <2>5, WriterStep
<1>10. CASE SyncTailRefused(p)
  <2>1. UNCHANGED <<recs, off>>
    BY <1>0, <1>10, UnreadChains DEF SyncTailRefused
  <2>. QED
    BY <1>10, <2>1, ReturnStep DEF SyncTailRefused, disk
<1>11. CASE CheckHead(p)
  <2>1. OnlyTask(p) /\ pc'[p] = "writing" /\ wrote'[p] = 0 /\ pc[p] = "synced"
    BY <1>0, <1>11 DEF CheckHead, TypeOK, Goto, OnlyTask, StageInv, handle, task
  <2>2. off[p] = Len(file) /\ frag = "none" /\ wrote[p] = 0 /\ Len(batch[p]) \in Nat
    BY <1>0, <2>1 DEF StageInv, TypeOK
  <2>3. InFlight(p)
    <3>1. off[p] + 1..Len(file) = {} /\ Len(file) = off[p] + wrote[p] + 0
      BY <1>0, <2>2
    <3>2. Len(file) <= off[p] + Len(batch[p])
      BY <1>0, <2>2
    <3>. QED
      BY <2>2, <3>1, <3>2 DEF InFlight
  <2>4. Replayed(p)' /\ StageInv(p)'
    BY <1>0, <1>11, <2>1, <2>2, <2>3
    DEF CheckHead, disk, handle, task, Replayed, Upto, StageInv, InFlight
  <2>. QED
    BY <1>11, <2>1, <2>4, QuietStep DEF CheckHead, disk, Exclusive
<1>12. CASE AppendRefused(p)
  BY <1>12, ReturnStep DEF AppendRefused, disk, handle
<1>13. CASE WritePart(p)
  <2>1. p \in Writers
    BY <1>13 DEF WritePart, Writers, Exclusive
  <2>2. OnlyTask(p) /\ pc'[p] = "tearing" /\ UNCHANGED <<synced, recs, off, batch, wrote>>
    BY <1>13 DEF WritePart, TypeOK, Goto, OnlyTask, handle, task
  <2>3. InFlight(p) /\ wrote[p] < Len(batch[p]) /\ wrote[p] \in Nat /\ Len(batch[p]) \in Nat
    BY <1>0, <1>13 DEF WritePart, StageInv, TypeOK
  <2>4. CASE frag' = "torn" /\ UNCHANGED file
    <3>1. Replayed(p)' /\ StageInv(p)'
      BY <1>0, <1>13, <2>2, <2>3, <2>4 DEF WritePart, Replayed, Upto, StageInv, InFlight
    <3>2. Grows /\ Loadable' /\ Len(file') \in Nat
      BY <1>0, <2>4 DEF Grows, Loadable, Chains, Prev
    <3>. QED
      BY <2>1, <2>2, <3>1, <3>2, WriterStep
  <2>5. CASE frag' = "bare" /\ file' = Append(file, NextLine(p))
    <3>1. /\ Chains(<<>>, file') /\ Len(file') = off[p] + wrote[p] + 1
          /\ \A i \in 1..Len(file) : file'[i] = file[i]
          /\ \A i \in off[p] + 1..Len(file') : file'[i] = recs[p] \o SubSeq(batch[p], 1, i - off[p])
      BY <1>13, <2>3, <2>5, NextLineFits DEF WritePart
    <3>2. Len(file) = off[p] + wrote[p]
      BY <1>0, <1>13, <2>3 DEF WritePart, InFlight
    <3>3. Grows /\ Len(file') \in Nat /\ Loadable'
      <4>1. off[p] \in Nat /\ wrote[p] \in Nat
        BY <1>0, <2>3
      <4>2. Len(file') = Len(file) + 1 /\ Len(file') \in Nat /\ Len(file') >= Len(file)
        BY ONLY <1>0, <3>1, <3>2, <4>1
      <4>3. \A i \in 1..Len(file) : file'[i] = file[i]
        BY <3>1
      <4>4. Loadable'
        BY <3>1 DEF Loadable
      <4>. QED
        BY <4>2, <4>3, <4>4, Zenon DEF Grows
    <3>4. Replayed(p)'
      BY <1>0, <2>2, <2>3, <3>1, <3>2 DEF Replayed, Upto
    <3>5. InFlight(p)'
      <4>1. Len(file') = off[p] + wrote[p] + 1 /\ Len(file') <= off[p] + Len(batch[p])
        BY <1>0, <2>3, <3>1
      <4>. QED
        BY <2>2, <2>5, <3>1, <4>1 DEF InFlight
    <3>6. StageInv(p)'
      BY <2>2, <2>3, <2>5, <3>5 DEF StageInv
    <3>. QED
      BY <2>1, <2>2, <3>3, <3>4, <3>6, WriterStep
  <2>. QED
    BY <1>13, <2>4, <2>5 DEF WritePart
<1>14. CASE WriteLine(p)
  <2>1. p \in Writers
    BY <1>14 DEF WriteLine, Writers, Exclusive
  <2>2. /\ OnlyTask(p) /\ pc'[p] = "writing" /\ frag' = "none"
        /\ wrote'[p] = wrote[p] + 1 /\ UNCHANGED <<synced, recs, off, batch>>
    BY <1>14 DEF WriteLine, TypeOK, Goto, OnlyTask, handle
  <2>3. InFlight(p) /\ wrote[p] < Len(batch[p]) /\ wrote[p] \in Nat /\ Len(batch[p]) \in Nat
    BY <1>0, <1>14 DEF WriteLine, StageInv, TypeOK
  <2>4. CASE frag = "bare"
    <3>1. UNCHANGED file
      BY <1>0, <1>14, <2>4 DEF WriteLine, StageInv
    <3>2. InFlight(p)'
      <4>1. Len(file) = off[p] + (wrote[p] + 1) + 0 /\ Len(file) <= off[p] + Len(batch[p])
        BY <1>0, <2>3, <2>4 DEF InFlight
      <4>. QED
        BY <2>2, <2>3, <3>1, <4>1 DEF InFlight
    <3>3. Replayed(p)' /\ StageInv(p)'
      BY <1>0, <2>2, <3>1, <3>2 DEF Replayed, Upto, StageInv
    <3>4. Grows /\ Loadable' /\ Len(file') \in Nat
      BY <1>0, <3>1 DEF Grows, Loadable, Chains, Prev
    <3>. QED
      BY <2>1, <2>2, <3>3, <3>4, WriterStep
  <2>5. CASE frag # "bare"
    <3>0. file' = Append(file, NextLine(p))
      BY <1>0, <1>14, <2>5 DEF WriteLine, StageInv
    <3>1. /\ Chains(<<>>, file') /\ Len(file') = off[p] + wrote[p] + 1
          /\ \A i \in 1..Len(file) : file'[i] = file[i]
          /\ \A i \in off[p] + 1..Len(file') : file'[i] = recs[p] \o SubSeq(batch[p], 1, i - off[p])
      BY <1>14, <2>3, <2>5, <3>0, NextLineFits DEF WriteLine
    <3>2. Len(file) = off[p] + wrote[p]
      BY <1>0, <2>3, <2>5 DEF InFlight
    <3>3. Grows /\ Len(file') \in Nat /\ Loadable'
      <4>1. off[p] \in Nat /\ wrote[p] \in Nat
        BY <1>0, <2>3
      <4>2. Len(file') = Len(file) + 1 /\ Len(file') \in Nat /\ Len(file') >= Len(file)
        BY ONLY <1>0, <3>1, <3>2, <4>1
      <4>3. \A i \in 1..Len(file) : file'[i] = file[i]
        BY <3>1
      <4>4. Loadable'
        BY <3>1 DEF Loadable
      <4>. QED
        BY <4>2, <4>3, <4>4, Zenon DEF Grows
    <3>4. Replayed(p)'
      BY <1>0, <2>2, <2>3, <3>1, <3>2 DEF Replayed, Upto
    <3>5. InFlight(p)'
      <4>1. /\ Len(file') = off[p] + (wrote[p] + 1) + 0
            /\ Len(file') <= off[p] + Len(batch[p])
        BY <1>0, <2>3, <3>1
      <4>. QED
        BY <2>2, <3>1, <4>1 DEF InFlight
    <3>6. StageInv(p)'
      BY <2>2, <3>5 DEF StageInv
    <3>. QED
      BY <2>1, <2>2, <3>3, <3>4, <3>6, WriterStep
  <2>. QED
    BY <2>4, <2>5
<1>15. CASE WriteDone(p)
  <2>1. /\ OnlyTask(p) /\ pc'[p] = "written" /\ pc[p] = "writing" /\ wrote[p] = Len(batch[p])
        /\ UNCHANGED <<file, frag, synced, recs, off, batch, wrote>>
    BY <1>15 DEF WriteDone, TypeOK, Goto, OnlyTask, disk, handle, task
  <2>2. Replayed(p)' /\ StageInv(p)'
    BY <1>0, <2>1 DEF Replayed, Upto, StageInv, InFlight
  <2>. QED
    BY <2>1, <2>2, QuietStep DEF Exclusive
<1>16. CASE SyncData(p)
  <2>1. p \in Writers
    BY <1>16 DEF SyncData, Writers, Exclusive
  <2>2. /\ OnlyTask(p) /\ pc'[p] = "heading" /\ synced' = Len(file)
        /\ recs'[p] = recs[p] \o batch[p] /\ off'[p] = off[p] + Len(batch[p])
        /\ UNCHANGED <<file, frag, batch, wrote>>
    BY <1>16 DEF SyncData, TypeOK, Goto, OnlyTask, task
  <2>3. /\ InFlight(p) /\ frag = "none" /\ wrote[p] = Len(batch[p])
        /\ batch[p] \in Seq(Payload) /\ recs[p] \in Seq(Payload)
    BY <1>0, <1>16 DEF SyncData, StageInv, TypeOK, Hash
  <2>4. Len(file) = off[p] + Len(batch[p]) /\ Len(batch[p]) \in Nat
    BY <1>0, <2>3 DEF InFlight
  <2>5. recs[p] \o batch[p] = Upto(Len(file))
    <3>1. CASE batch[p] = <<>>
      BY <1>0, <2>3, <2>4, <3>1 DEF Replayed
    <3>2. CASE batch[p] # <<>>
      <4>1. Len(file) \in off[p] + 1..Len(file) /\ Len(file) - off[p] = Len(batch[p]) /\ Len(file) # 0
        BY <1>0, <2>3, <2>4, <3>2
      <4>2. SubSeq(batch[p], 1, Len(batch[p])) = batch[p]
        BY <2>3
      <4>. QED
        BY <2>3, <4>1, <4>2 DEF InFlight, Upto
    <3>. QED
      BY <3>1, <3>2
  <2>6. Replayed(p)' /\ StageInv(p)'
    <3>1. off'[p] = Len(file) /\ recs'[p] = Upto(Len(file))
      BY <2>2, <2>4, <2>5
    <3>2. file' = file
      BY <2>2
    <3>3. Replayed(p)'
      BY <1>0, <3>1, <3>2 DEF Replayed, Upto
    <3>4. StageInv(p)'
      BY <2>2, <2>3, <3>1 DEF StageInv
    <3>. QED
      BY <3>3, <3>4
  <2>7. Grows /\ Len(file') \in Nat /\ Loadable'
    BY <1>0, <2>2 DEF Grows, Loadable, Chains, Prev
  <2>. QED
    BY <2>1, <2>2, <2>6, <2>7, WriterStep
<1>17. CASE HeadRename(p) \/ AppendOk(p)
  <2>1. CASE HeadRename(p)
    <3>1. OnlyTask(p) /\ pc[p] = "heading" /\ pc'[p] = "headed"
          /\ UNCHANGED <<file, frag, synced, recs, off, batch, wrote>>
      BY <2>1 DEF HeadRename, TypeOK, Goto, OnlyTask, task
    <3>2. Replayed(p)' /\ StageInv(p)'
      BY <1>0, <3>1 DEF Replayed, Upto, StageInv
    <3>. QED
      BY <3>1, <3>2, QuietStep DEF Exclusive
  <2>2. CASE AppendOk(p)
    BY <2>2, ReturnStep DEF AppendOk, disk, handle
  <2>. QED
    BY <1>17, <2>1, <2>2
<1>18. CASE AcceptTail(p)
  BY <1>18, ReturnStep DEF AcceptTail
<1>19. CASE AcceptRefused(p)
  BY <1>19, ReturnStep DEF AcceptRefused, disk, handle
<1>20. CASE ResetHead(p)
  BY <1>20, ReturnStep DEF ResetHead
<1>21. CASE VerifyNow(p)
  <2>1. OnlyTask(p) /\ UNCHANGED <<file, frag, synced, pc, recs, off, batch, wrote>>
    BY <1>21 DEF VerifyNow, OnlyTask, disk, handle, task
  <2>2. Replayed(p)' /\ StageInv(p)'
    BY <1>0, <2>1 DEF Replayed, Upto, StageInv, InFlight
  <2>. QED
    BY <2>1, <2>2, QuietStep
<1>22. CASE VerifyTail(p)
  <2>1. OnlyTask(p) /\ pc'[p] = "vwant" /\ wrote'[p] = 0
    BY <1>0, <1>22 DEF VerifyTail, TypeOK, Goto, OnlyTask, StageInv, handle, task
  <2>2. Replayed(p)' /\ StageInv(p)'
    BY <1>0, <1>22, <2>1 DEF VerifyTail, disk, handle, Replayed, Upto, StageInv
  <2>. QED
    BY <1>22, <2>1, <2>2, QuietStep DEF VerifyTail, disk, Exclusive
<1>23. CASE LockShared(p)
  <2>1. OnlyTask(p) /\ pc'[p] = "vhold" /\ wrote'[p] = 0
    BY <1>0, <1>23 DEF LockShared, TypeOK, Goto, OnlyTask, StageInv, handle, task
  <2>2. Replayed(p)' /\ StageInv(p)'
    BY <1>0, <1>23, <2>1 DEF LockShared, disk, handle, Replayed, Upto, StageInv
  <2>. QED
    BY <1>23, <2>1, <2>2, QuietStep DEF LockShared, disk, Exclusive
<1>24. CASE VerifyRecheck(p)
  BY <1>24, ReturnStep DEF VerifyRecheck, disk, handle
<1>. QED
  BY <1>1, <1>2, <1>3, <1>4, <1>5, <1>6, <1>7, <1>8, <1>9, <1>10, <1>11, <1>12, <1>13,
     <1>14, <1>15, <1>16, <1>17, <1>18, <1>19, <1>20, <1>21, <1>22, <1>23, <1>24
     DEF Step

\* Neither does any fault but an edit of the ledger.
LEMMA InvFailure ==
  ASSUME "edit" \notin Faults, TypeOK, LedgerInv, Failure
  PROVE  LedgerInv'
<1>1. ASSUME NEW p \in Proc, Crash(p)
      PROVE  LedgerInv'
  BY <1>1, DropStep DEF Crash, disk
<1>2. ASSUME NEW p \in Proc, WriteFails(p)
      PROVE  LedgerInv'
  BY <1>2, ReturnStep DEF WriteFails, disk, handle
<1>3. ASSUME NEW p \in Proc, HeadFails(p)
      PROVE  LedgerInv'
  BY <1>3, ReturnStep DEF HeadFails, disk, handle
<1>4. CASE PowerLoss
  <2>1. PICK k \in synced..Len(file) : file' = SubSeq(file, 1, k)
    BY <1>4 DEF PowerLoss
  <2>2. k \in 0..Len(file)
    BY DEF TypeOK
  <2>3. Loadable'
    <3>1. Chains(<<>>, SubSeq(file, 1, k))
      BY <2>2, ChainCut DEF LedgerInv
    <3>. QED
      BY <2>1, <3>1 DEF Loadable, Chains, Prev
  <2>4. Len(file') \in Nat
    BY <2>1, <2>2, SubSeqType DEF TypeOK
  <2>5. \A p \in Proc : pc'[p] = "closed" /\ off'[p] = 0 /\ recs'[p] = <<>> /\ wrote'[p] = 0
    BY <1>4 DEF PowerLoss
  <2>6. \A p \in Proc : Replayed(p)' /\ StageInv(p)'
    BY <2>4, <2>5 DEF Replayed, Upto, StageInv
  <2>7. Writers' = {}
    BY <2>5 DEF Writers, Exclusive
  <2>. QED
    BY <2>3, <2>6, <2>7 DEF LedgerInv
<1>5. ASSUME NEW x \in Others, ForeignAppend(x)
      PROVE  LedgerInv'
  <2> DEFINE line == EndOf(<<>>, file) \o <<x>>
  <2>1. EndOf(<<>>, file) = Upto(Len(file)) /\ Len(file) \in Nat
    BY DEF EndOf, Upto, TypeOK
  <2>2. Upto(Len(file)) \in Seq(Payload) /\ Len(Upto(Len(file))) = Len(file)
    BY <2>1, UptoLen DEF LedgerInv, Hash
  <2>3. /\ line \in Hash /\ Len(line) = Len(file) + 1
        /\ IsPrefix(Upto(Len(file)), line)
    <3>1. <<x>> \in Seq(Payload) /\ Len(<<x>>) = 1
      BY LedgerAssumption
    <3>2. line = Upto(Len(file)) \o <<x>>
      BY <2>1
    <3> HIDE DEF line
    <3>3. line \in Seq(Payload) /\ Len(line) = Len(file) + 1
      BY <2>2, <3>1, <3>2, ConcatType
    <3>4. IsPrefix(Upto(Len(file)), line)
      BY <2>2, <3>1, <3>2, PrefixOfConcat
    <3>. QED
      BY <3>3, <3>4 DEF Hash
  <2>4. file' = Append(file, line) /\ UNCHANGED <<pc, recs, off, batch, wrote>> /\ Writers = {}
    BY <1>5 DEF ForeignAppend, handle, task
  <2> HIDE DEF line
  <2>5. Chains(<<>>, Append(file, line))
    BY <2>3, ChainAppend DEF LedgerInv
  <2>6. Grows /\ Len(file') \in Nat /\ Loadable'
    BY <2>3, <2>4, <2>5 DEF Grows, Loadable, Chains, Prev, TypeOK
  <2>7. \A q \in Proc : Replayed(q)' /\ StageInv(q)'
    BY <2>4, <2>6, OthersKeep
  <2>8. Writers' = {}
    BY <2>4 DEF Writers
  <2>. QED
    BY <2>6, <2>7, <2>8 DEF LedgerInv
<1>6. CASE HeadLost
  <2>1. UNCHANGED <<file, frag, synced, pc, recs, off, batch, wrote>>
    BY <1>6 DEF HeadLost, handle, task
  <2>2. \A q \in Proc : Replayed(q)' /\ StageInv(q)'
    BY <2>1, OthersKeep
  <2>3. Loadable' /\ Writers' = Writers
    BY <2>1 DEF LedgerInv, Loadable, Chains, Prev, Writers
  <2>. QED
    BY <2>2, <2>3 DEF LedgerInv
<1>. QED
  BY <1>1, <1>2, <1>3, <1>4, <1>5, <1>6 DEF Failure, Edit, Fault

\* Stuttering changes nothing.
LEMMA InvStutter ==
  ASSUME TypeOK, LedgerInv, UNCHANGED vars
  PROVE  LedgerInv'
<1>1. UNCHANGED <<file, frag, synced, pc, recs, off, batch, wrote>>
  BY DEF vars
<1>2. \A q \in Proc : Replayed(q)' /\ StageInv(q)'
  BY <1>1, OthersKeep
<1>3. Loadable' /\ Writers' = Writers
  BY <1>1 DEF LedgerInv, Loadable, Chains, Prev, Writers
<1>. QED
  BY <1>2, <1>3 DEF LedgerInv

\* Unless the ledger is edited, there is one writer at a time, every handle has
\* replayed a prefix of the file, and past that prefix stands at most the
\* beginning of the one batch being written.
THEOREM LedgerInvariant ==
  ASSUME "edit" \notin Faults
  PROVE  Spec => []LedgerInv
<1>1. Init => LedgerInv
  BY InvInit
<1>2. TypeOK /\ LedgerInv /\ [Next]_vars => LedgerInv'
  BY InvStep, InvFailure, InvStutter DEF Next
<1>. QED
  BY <1>1, <1>2, TypeCorrect, PTL DEF Spec

\* Kills, full disks, foreign appends and power losses never leave a ledger that
\* does not open: a torn line is cut, a bare one finished, and a writer that was
\* overtaken catches up before it chains its own records.
THEOREM ChainUnbroken ==
  ASSUME "edit" \notin Faults
  PROVE  Spec => []AlwaysLoadable
<1>1. LedgerInv => AlwaysLoadable
  BY DEF LedgerInv, AlwaysLoadable
<1>. QED
  BY <1>1, LedgerInvariant, PTL

\* Past sync_tail a writer's handle agrees with the whole file.
THEOREM WriterCurrent ==
  ASSUME "edit" \notin Faults
  PROVE  Spec => []WriterIsCurrent
<1>1. TypeOK /\ LedgerInv => WriterIsCurrent
  <2> SUFFICES ASSUME TypeOK, LedgerInv, NEW p \in Writers, pc[p] = "synced"
               PROVE  frag = "none" /\ off[p] = Len(file) /\ recs[p] = EndOf(<<>>, file)
    BY DEF WriterIsCurrent
  <2>1. Replayed(p) /\ StageInv(p)
    BY DEF LedgerInv, Writers
  <2>. QED
    BY <2>1 DEF Replayed, StageInv, Upto, EndOf, TypeOK
<1>. QED
  BY <1>1, TypeCorrect, LedgerInvariant, PTL

-----------------------------------------------------------------------------
(* Heads and acknowledged records *)

\* What it means that the first n lines cover a head.
LEMMA CoversCut ==
  ASSUME TypeOK, NEW n \in 0..Len(file), NEW h \in Hash
  PROVE  Covers(SubSeq(file, 1, n), HeadAt(h)) <=>
           Len(h) <= n /\ (Len(h) > 0 => file[Len(h)] = h)
<1> DEFINE g == SubSeq(file, 1, n)
<1>1. Len(g) = n /\ \A i \in 1..n : g[i] = file[i]
  BY DEF TypeOK
<1>2. Len(h) \in Nat
  BY DEF Hash
<1> HIDE DEF g
<1>3. Covers(g, HeadAt(h)) <=> Len(h) <= n /\ (Len(h) > 0 => file[Len(h)] = h)
  BY <1>1, <1>2 DEF Covers, HeadAt, Present
<1>. QED
  BY <1>3 DEF g

\* A head of the type is present at its own hash, or not present.
LEMMA HeadCases ==
  ASSUME NEW d \in HeadFile, Present(d)
  PROVE  d = HeadAt(d.at) /\ d.at \in Hash
BY DEF HeadFile, Present, HeadAt

\* No step but an edit takes or changes a synced line, and none but an edit or a
\* power loss any line.
LEMMA LinesKept ==
  ASSUME "edit" \notin Faults, TypeOK, LedgerInv, [Next]_vars
  PROVE  /\ synced <= synced' /\ synced' <= Len(file')
         /\ \A i \in 1..synced : file'[i] = file[i]
         /\ "power" \notin Faults => Grows
<1> DEFINE Goal == /\ synced <= synced' /\ synced' <= Len(file')
                   /\ \A i \in 1..synced : file'[i] = file[i]
                   /\ "power" \notin Faults => Grows
<1>0. synced \in 0..Len(file) /\ Len(file) \in Nat
  BY DEF TypeOK
<1>1. CASE UNCHANGED <<file, synced>>
  BY <1>0, <1>1 DEF Grows
<1>2. ASSUME NEW line \in Hash, file' = Append(file, line), synced' = synced
      PROVE  Goal
  <2>1. Len(file') = Len(file) + 1 /\ \A i \in 1..Len(file) : file'[i] = file[i]
    BY <1>2 DEF TypeOK
  <2>. QED
    BY <1>0, <1>2, <2>1 DEF Grows
<1>3. ASSUME NEW p \in Proc, Step(p)
      PROVE  Goal
  <2>1. CASE WritePart(p)
    <3>1. CASE UNCHANGED <<file, synced>>
      BY <1>1, <3>1
    <3>2. CASE file' = Append(file, NextLine(p)) /\ synced' = synced
      BY <1>2, <2>1, <3>2, NextLineType DEF WritePart
    <3>. QED
      BY <2>1, <3>1, <3>2 DEF WritePart
  <2>2. CASE WriteLine(p)
    <3>1. frag # "alien" /\ (pc[p] = "writing" => frag = "none")
      BY <2>2 DEF WriteLine, LedgerInv, StageInv
    <3>2. CASE UNCHANGED <<file, synced>>
      BY <1>1, <3>2
    <3>3. CASE file' = Append(file, NextLine(p)) /\ synced' = synced
      BY <1>2, <2>2, <3>3, NextLineType DEF WriteLine
    <3>. QED
      BY <2>2, <3>1, <3>2, <3>3 DEF WriteLine
  <2>3. CASE SyncData(p)
    BY <1>0, <2>3 DEF SyncData, Grows
  <2>4. CASE ~(WritePart(p) \/ WriteLine(p) \/ SyncData(p))
    <3>1. UNCHANGED <<file, synced>>
      BY <1>3, <2>4
      DEF Step, OpenHead, OpenLedger, OpenRefused, Close, StartAppend, StartPerson, Lock,
          LockBusy, SyncTail, SyncTailRefused, CheckHead, AppendRefused, WriteDone, HeadRename,
          AppendOk, AcceptTail, AcceptRefused, ResetHead, VerifyNow, VerifyTail, LockShared,
          VerifyRecheck, disk
    <3>. QED
      BY <1>1, <3>1
  <2>. QED
    BY <2>1, <2>2, <2>3, <2>4
<1>4. CASE PowerLoss
  <2>1. PICK k \in synced..Len(file) : file' = SubSeq(file, 1, k) /\ synced' = k
    BY <1>4 DEF PowerLoss
  <2>2. k \in 0..Len(file)
    BY <1>0
  <2>3. Len(file') = k /\ \A i \in 1..k : file'[i] = file[i]
    BY <2>1, <2>2 DEF TypeOK
  <2>. QED
    BY <1>0, <1>4, <2>1, <2>2, <2>3 DEF PowerLoss, Fault
<1>5. ASSUME NEW x \in Others, ForeignAppend(x)
      PROVE  Goal
  <2> DEFINE line == EndOf(<<>>, file) \o <<x>>
  <2>1. line \in Hash
    <3>1. <<>> \in Hash /\ <<x>> \in Seq(Payload)
      BY LedgerAssumption DEF Hash
    <3>2. EndOf(<<>>, file) \in Seq(Payload)
      BY <3>1, EndOfType DEF TypeOK, Hash
    <3>. QED
      BY <3>1, <3>2, ConcatType DEF Hash
  <2>2. file' = Append(file, line) /\ synced' = synced
    BY <1>5 DEF ForeignAppend
  <2> HIDE DEF line
  <2>. QED
    BY <1>2, <2>1, <2>2
<1>6. CASE HeadLost \/ UNCHANGED vars \/ \E p \in Proc : Crash(p) \/ WriteFails(p) \/ HeadFails(p)
  <2>1. UNCHANGED <<file, synced>>
    BY <1>6 DEF HeadLost, Crash, WriteFails, HeadFails, disk, vars
  <2>. QED
    BY <1>1, <2>1
<1>. QED
  BY <1>3, <1>4, <1>5, <1>6 DEF Next, Failure, Edit, Fault

\* The step writes a head that names the last line of the file, after a synced
\* batch or by a person's decision only.
HeadNamesEnd ==
  /\ UNCHANGED <<file, synced>>
  /\ head' = HeadAt(Upto(Len(file)))
  /\ heads' = heads \cup {head'}
  /\ synced = Len(file) \/ Ops \cap {"accept", "reset"} # {}

\* The step writes no head: one may be lost or, after a power loss, come back.
NoNewHead ==
  /\ heads' \subseteq heads \cup {NoHead, BadHead}
  /\ head' \in {head, NoHead, BadHead} \/ "power" \in Faults

\* Every step is of one kind or the other.
LEMMA HeadMoves ==
  ASSUME "edit" \notin Faults, TypeOK, LedgerInv, [Next]_vars
  PROVE  HeadNamesEnd \/ NoNewHead
<1>1. CASE UNCHANGED <<head, heads>>
  BY <1>1 DEF NoNewHead
<1>2. ASSUME NEW p \in Proc, HeadWritten(p), UNCHANGED <<file, synced>>,
             pc[p] = "heading" \/ (pc[p] = "synced" /\ op[p] \in {"accept", "reset"})
      PROVE  HeadNamesEnd
  <2>1. Replayed(p) /\ StageInv(p) /\ op[p] \in Ops \cup {"none"}
    BY DEF LedgerInv, TypeOK
  <2>2. recs[p] = Upto(Len(file)) /\ (synced = Len(file) \/ Ops \cap {"accept", "reset"} # {})
    BY <1>2, <2>1 DEF Replayed, StageInv
  <2>. QED
    BY <1>2, <2>2 DEF HeadNamesEnd, HeadWritten
<1>3. ASSUME NEW p \in Proc, Step(p)
      PROVE  HeadNamesEnd \/ NoNewHead
  <2>1. CASE HeadRename(p)
    BY <1>2, <2>1 DEF HeadRename
  <2>2. CASE AcceptTail(p)
    BY <1>1, <1>2, <2>2 DEF AcceptTail
  <2>3. CASE ResetHead(p)
    BY <1>2, <2>3 DEF ResetHead, NoNewHead
  <2>4. CASE ~(HeadRename(p) \/ AcceptTail(p) \/ ResetHead(p))
    <3>1. UNCHANGED <<head, heads>>
      BY <1>3, <2>4
      DEF Step, OpenHead, OpenLedger, OpenRefused, Close, StartAppend, StartPerson, Lock,
          LockBusy, SyncTail, SyncTailRefused, CheckHead, AppendRefused, WritePart, WriteLine,
          WriteDone, SyncData, AppendOk, AcceptRefused, VerifyNow, VerifyTail, LockShared,
          VerifyRecheck, disk
    <3>. QED
      BY <1>1, <3>1
  <2>. QED
    BY <2>1, <2>2, <2>3, <2>4
<1>4. CASE Failure
  <2>1. CASE PowerLoss
    BY <2>1 DEF PowerLoss, Fault, NoNewHead
  <2>2. CASE HeadLost
    BY <2>2 DEF HeadLost, NoNewHead
  <2>3. CASE ~(PowerLoss \/ HeadLost)
    <3>1. UNCHANGED <<head, heads>>
      BY <1>4, <2>3
      DEF Failure, Crash, WriteFails, HeadFails, ForeignAppend, Edit, disk
    <3>. QED
      BY <1>1, <3>1
  <2>. QED
    BY <2>1, <2>2, <2>3
<1>5. CASE UNCHANGED vars
  BY <1>1, <1>5 DEF vars
<1>. QED
  BY <1>3, <1>4, <1>5 DEF Next

\* An append returns Ok when all it wrote is synced; a reset may forget that.
LEMMA DoneMoves ==
  ASSUME TypeOK, LedgerInv, [Next]_vars
  PROVE  \/ done' \in {done, <<>>}
         \/ UNCHANGED <<file, synced>> /\ synced = Len(file) /\ done' = Upto(Len(file))
<1>1. ASSUME NEW p \in Proc, Step(p)
      PROVE  \/ done' \in {done, <<>>}
             \/ UNCHANGED <<file, synced>> /\ synced = Len(file) /\ done' = Upto(Len(file))
  <2>1. CASE AppendOk(p)
    <3>1. Replayed(p) /\ StageInv(p)
      BY DEF LedgerInv
    <3>. QED
      BY <2>1, <3>1 DEF AppendOk, Replayed, StageInv, disk
  <2>2. CASE ResetHead(p)
    BY <2>2 DEF ResetHead
  <2>3. CASE ~(AppendOk(p) \/ ResetHead(p))
    BY <1>1, <2>3
    DEF Step, OpenHead, OpenLedger, OpenRefused, Close, StartAppend, StartPerson, Lock,
        LockBusy, SyncTail, SyncTailRefused, CheckHead, AppendRefused, WritePart, WriteLine,
        WriteDone, SyncData, HeadRename, AcceptTail, AcceptRefused, VerifyNow, VerifyTail,
        LockShared, VerifyRecheck
  <2>. QED
    BY <2>1, <2>2, <2>3
<1>2. CASE Failure
  BY <1>2 DEF Failure, Crash, WriteFails, HeadFails, PowerLoss, ForeignAppend, Edit, HeadLost
<1>3. CASE UNCHANGED vars
  BY <1>3 DEF vars
<1>. QED
  BY <1>1, <1>2, <1>3 DEF Next

\* Without power losses the head never names a record the ledger does not hold.
THEOREM HeadNeverAhead ==
  ASSUME "edit" \notin Faults, "power" \notin Faults
  PROVE  Spec => []HeadCovered
<1>1. Init => HeadCovered
  <2> SUFFICES ASSUME NEW st \in Stores, NEW x \in Others, InitFrom(st, x)
               PROVE  Covers(file, head)
    BY DEF Init, HeadCovered
  <2>1. \/ head = NoHead
        \/ head = HeadAt(<<x>>) /\ file = << <<x>> >>
    BY DEF InitFrom
  <2>. QED
    BY <2>1 DEF Covers, Present, NoHead, HeadAt
<1>2. TypeOK /\ LedgerInv /\ HeadCovered /\ [Next]_vars => HeadCovered'
  <2> SUFFICES ASSUME TypeOK, LedgerInv, HeadCovered, [Next]_vars, Present(head)'
               PROVE  /\ Len(head'.at) <= Len(file')
                      /\ Len(head'.at) > 0 => file'[Len(head'.at)] = head'.at
    BY DEF HeadCovered, Covers
  <2>1. Len(file) \in Nat /\ head \in HeadFile /\ Loadable
    BY DEF TypeOK, LedgerInv
  <2>2. CASE HeadNamesEnd
    <3>1. head'.at = Upto(Len(file)) /\ file' = file
      BY <2>2 DEF HeadNamesEnd, HeadAt
    <3>2. Len(head'.at) = Len(file)
      BY <2>1, <3>1, UptoLen
    <3>. QED
      BY <2>1, <3>1, <3>2 DEF Upto
  <2>3. CASE head' = head
    <3>1. Len(head.at) \in Nat
      BY <2>1 DEF HeadFile, Hash
    <3>2. Grows
      BY LinesKept
    <3>3. Len(head.at) <= Len(file) /\ (Len(head.at) > 0 => file[Len(head.at)] = head.at)
      BY <2>3 DEF HeadCovered, Covers, Present
    <3>4. Len(file') \in Nat
      BY TypeStep, TypeFailure DEF Next, TypeOK, vars
    <3>. QED
      BY <2>1, <2>3, <3>1, <3>2, <3>3, <3>4 DEF Grows
  <2>4. ~(head' \in {NoHead, BadHead})
    BY DEF Present, NoHead, BadHead
  <2>. QED
    BY <2>2, <2>3, <2>4, HeadMoves DEF NoNewHead
<1>. QED
  BY <1>1, <1>2, TypeCorrect, LedgerInvariant, PTL DEF Spec

\* With appends alone, and whatever crashes, write errors, foreign appends and
\* power losses happen, no head that is in place or may come back names a record
\* a power loss can take.
THEOREM HeadsSynced ==
  ASSUME "edit" \notin Faults, Ops \cap {"accept", "reset"} = {}
  PROVE  Spec => []HeadsOnlyAfterSync
<1> DEFINE Safe == \A d \in heads : Present(d) =>
                     Len(d.at) <= synced /\ (Len(d.at) > 0 => file[Len(d.at)] = d.at)
<1>1. Init => Safe
  <2> SUFFICES ASSUME NEW st \in Stores, NEW x \in Others, InitFrom(st, x)
               PROVE  Safe
    BY DEF Init
  <2>1. \/ heads = {NoHead}
        \/ heads = {HeadAt(<<x>>)} /\ file = << <<x>> >> /\ synced = 1
    BY DEF InitFrom
  <2>. QED
    BY <2>1 DEF Present, NoHead, HeadAt
<1>2. TypeOK /\ LedgerInv /\ Safe /\ [Next]_vars => Safe'
  <2> SUFFICES ASSUME TypeOK, LedgerInv, Safe, [Next]_vars, NEW d \in heads', Present(d)
               PROVE  /\ Len(d.at) <= synced'
                      /\ Len(d.at) > 0 => file'[Len(d.at)] = d.at
    OBVIOUS
  <2>1. Len(file) \in Nat /\ synced \in 0..Len(file) /\ heads \subseteq HeadFile /\ Loadable
    BY DEF TypeOK, LedgerInv
  <2>2. CASE d \in heads
    <3>1. Len(d.at) \in Nat
      BY <2>1, <2>2 DEF HeadFile, Hash
    <3>2. Len(d.at) <= synced /\ (Len(d.at) > 0 => file[Len(d.at)] = d.at)
      BY <2>2
    <3>3. synced <= synced' /\ (\A i \in 1..synced : file'[i] = file[i]) /\ synced' \in Nat
      <4>1. synced' \in Nat
        BY TypeStep, TypeFailure DEF Next, TypeOK, vars
      <4>. QED
        BY <4>1, LinesKept
    <3>. QED
      BY <2>1, <3>1, <3>2, <3>3
  <2>3. CASE HeadNamesEnd /\ d \notin heads
    <3>1. d.at = Upto(Len(file)) /\ file' = file /\ synced' = Len(file)
      BY <2>3 DEF HeadNamesEnd, HeadAt
    <3>2. Len(d.at) = Len(file)
      BY <2>1, <3>1, UptoLen
    <3>. QED
      BY <2>1, <3>1, <3>2 DEF Upto
  <2>4. d \notin {NoHead, BadHead}
    BY DEF Present, NoHead, BadHead
  <2>. QED
    BY <2>2, <2>3, <2>4, HeadMoves DEF NoNewHead
<1>3. TypeOK /\ Safe => HeadsOnlyAfterSync
  <2> SUFFICES ASSUME TypeOK, Safe, NEW d \in heads, Present(d)
               PROVE  Covers(SubSeq(file, 1, synced), d)
    BY DEF HeadsOnlyAfterSync, Covers
  <2>1. d = HeadAt(d.at) /\ d.at \in Hash /\ synced \in 0..Len(file)
    BY HeadCases DEF TypeOK
  <2>2. Len(d.at) <= synced /\ (Len(d.at) > 0 => file[Len(d.at)] = d.at)
    OBVIOUS
  <2>. QED
    BY <2>1, <2>2, CoversCut
<1> HIDE DEF Safe
<1>. QED
  BY <1>1, <1>2, <1>3, TypeCorrect, LedgerInvariant, PTL DEF Spec

\* What an append acknowledged stays in the synced part of the ledger through
\* kills, full disks, foreign appends, power losses and the loss of the head file.
THEOREM AcknowledgedDurable ==
  ASSUME "edit" \notin Faults
  PROVE  Spec => []AcknowledgedIsDurable
<1> DEFINE Safe == Len(done) <= synced /\ (Len(done) > 0 => file[Len(done)] = done)
<1>1. Init => Safe
  <2> SUFFICES ASSUME NEW st \in Stores, NEW x \in Others, InitFrom(st, x)
               PROVE  Safe
    BY DEF Init
  <2>1. \/ done = <<>> /\ synced \in Nat
        \/ done = <<x>> /\ file = << <<x>> >> /\ synced = 1
    BY DEF InitFrom
  <2>2. Len(<<>>) = 0 /\ Len(<<x>>) = 1
    OBVIOUS
  <2>3. CASE done = <<>> /\ synced \in Nat
    BY <2>2, <2>3
  <2>4. CASE done = <<x>> /\ file = << <<x>> >> /\ synced = 1
    BY <2>2, <2>4
  <2>. QED
    BY <2>1, <2>3, <2>4
<1>2. TypeOK /\ LedgerInv /\ Safe /\ [Next]_vars => Safe'
  <2> SUFFICES ASSUME TypeOK, LedgerInv, Safe, [Next]_vars
               PROVE  Safe'
    OBVIOUS
  <2>1. /\ Len(file) \in Nat /\ synced \in 0..Len(file) /\ Len(done) \in Nat /\ Loadable
    BY DEF TypeOK, LedgerInv, Hash
  <2>2. synced <= synced' /\ (\A i \in 1..synced : file'[i] = file[i]) /\ synced' \in Nat
    <3>1. synced' \in Nat
      BY TypeStep, TypeFailure DEF Next, TypeOK, vars
    <3>. QED
      BY <3>1, LinesKept
  <2>3. CASE done' = done
    BY <2>1, <2>2, <2>3
  <2>4. CASE done' = <<>>
    BY <2>2, <2>4
  <2>5. CASE UNCHANGED <<file, synced>> /\ synced = Len(file) /\ done' = Upto(Len(file))
    <3>1. Len(done') = Len(file)
      BY <2>1, <2>5, UptoLen
    <3>. QED
      BY <2>1, <2>5, <3>1 DEF Upto
  <2>. QED
    BY <2>3, <2>4, <2>5, DoneMoves
<1>3. TypeOK /\ Safe => AcknowledgedIsDurable
  BY CoversCut DEF AcknowledgedIsDurable, TypeOK
<1> HIDE DEF Safe
<1>. QED
  BY <1>1, <1>2, <1>3, TypeCorrect, LedgerInvariant, PTL DEF Spec

-----------------------------------------------------------------------------
(* The head and the lock *)

\* A step of p leaves every other process where it is.
OnlyMoves(p) ==
  \A q \in Proc \ {p} : /\ pc'[q] = pc[q] /\ op'[q] = op[q] /\ recs'[q] = recs[q]
                        /\ off'[q] = off[q] /\ hload'[q] = hload[q]
                        /\ batch'[q] = batch[q] /\ verdict'[q] = verdict[q]

LEMMA StepIsLocal ==
  ASSUME TypeOK, NEW p \in Proc, Step(p)
  PROVE  OnlyMoves(p)
<1> USE DEF TypeOK, OnlyMoves, Goto, handle, task, disk
<1>1. CASE OpenHead(p)
  BY <1>1 DEF OpenHead
<1>2. CASE OpenLedger(p)
  BY <1>2 DEF OpenLedger
<1>3. CASE OpenRefused(p) \/ Close(p)
  BY <1>3 DEF OpenRefused, Close, Drop
<1>4. CASE \E b \in Batches[p] : StartAppend(p, b)
  BY <1>4 DEF StartAppend
<1>5. CASE \E o \in {"accept", "reset"} : StartPerson(p, o)
  BY <1>5 DEF StartPerson
<1>6. CASE Lock(p) \/ LockBusy(p) \/ LockShared(p)
  BY <1>6 DEF Lock, LockBusy, LockShared, Return
<1>7. CASE SyncTail(p)
  BY <1>7 DEF SyncTail
<1>8. CASE SyncTailRefused(p)
  <2>1. pc' = [pc EXCEPT ![p] = "ready"] /\ op' = [op EXCEPT ![p] = "none"]
        /\ batch' = [batch EXCEPT ![p] = <<>>]
        /\ UNCHANGED <<off, hload, verdict>>
    BY <1>8 DEF SyncTailRefused, Return
  <2>2. \A q \in Proc \ {p} : recs'[q] = recs[q]
    BY <1>8 DEF SyncTailRefused
  <2>. QED
    BY <2>1, <2>2
<1>9. CASE CheckHead(p) \/ AppendRefused(p)
  BY <1>9 DEF CheckHead, AppendRefused, Return
<1>10. CASE WritePart(p) \/ WriteLine(p) \/ WriteDone(p)
  BY <1>10 DEF WritePart, WriteLine, WriteDone
<1>11. CASE SyncData(p)
  BY <1>11 DEF SyncData
<1>12. CASE HeadRename(p) \/ AppendOk(p)
  BY <1>12 DEF HeadRename, AppendOk, HeadWritten, Return
<1>13. CASE AcceptTail(p) \/ AcceptRefused(p)
  BY <1>13 DEF AcceptTail, AcceptRefused, HeadWritten, Return
<1>14. CASE ResetHead(p)
  BY <1>14 DEF ResetHead, HeadWritten, Return
<1>15. CASE VerifyNow(p) \/ VerifyTail(p) \/ VerifyRecheck(p)
  BY <1>15 DEF VerifyNow, VerifyTail, VerifyRecheck, Verdict, Return
<1>. QED
  BY <1>1, <1>2, <1>3, <1>4, <1>5, <1>6, <1>7, <1>8, <1>9, <1>10, <1>11, <1>12, <1>13, <1>14,
     <1>15 DEF Step

\* The invariant is kept by a step of p that keeps p's part of it, takes the lock
\* only when it is free and moves the head only under it.
LEMMA HeadStep ==
  ASSUME HeadInv, NEW p \in Proc, OnlyMoves(p), Appending(p)', head' \in heads',
         pc'[p] \in Exclusive => pc[p] \in Exclusive \/ (Writers = {} /\ Sharers = {}),
         pc'[p] = "vhold" => pc[p] = "vhold" \/ Writers = {},
         p \in Writers \/ head' = head
  PROVE  HeadInv'
<1>1. Writers' \subseteq Writers \cup {p} /\ Sharers' \subseteq Sharers \cup {p}
  BY DEF OnlyMoves, Writers, Sharers
<1>2. "vhold" \notin Exclusive
  BY DEF Exclusive
<1>3. p \in Writers' => Writers \subseteq {p} /\ Sharers = {}
  BY DEF HeadInv, Writers, Sharers
<1>4. p \in Sharers' => Writers = {}
  BY DEF HeadInv, Writers, Sharers
<1>5. (\A q, r \in Writers : q = r)'
  BY <1>1, <1>3 DEF HeadInv
<1>6. Writers' = {} \/ Sharers' = {}
  <2>1. CASE p \in Writers'
    <3>1. p \notin Sharers'
      BY <1>2, <2>1 DEF Writers, Sharers
    <3>. QED
      BY <1>1, <1>3, <2>1, <3>1
  <2>2. CASE p \notin Writers'
    BY <1>1, <1>4, <2>2 DEF HeadInv
  <2>. QED
    BY <2>1, <2>2
<1>7. ASSUME NEW q \in Proc \ {p}
      PROVE  Appending(q)'
  <2>1. pc'[q] = pc[q] /\ op'[q] = op[q] /\ recs'[q] = recs[q] /\ batch'[q] = batch[q]
    BY DEF OnlyMoves
  <2>2. CASE head' = head
    BY <2>1, <2>2 DEF HeadInv, Appending, Before
  <2>3. CASE p \in Writers
    <3>1. pc[q] \notin Exclusive
      BY <2>3 DEF HeadInv, Writers
    <3>. QED
      BY <2>1, <3>1 DEF HeadInv, Appending, Exclusive
  <2>. QED
    BY <2>2, <2>3
<1>. QED
  BY <1>5, <1>6, <1>7 DEF HeadInv

\* Where a process stands that is neither checking the head nor writing.
AtRest(p) ==
  /\ pc'[p] \notin {"writing", "tearing", "written", "heading", "headed"}
  /\ op'[p] = "append" => op[p] = "append" /\ batch'[p] = batch[p]

LEMMA AppendingAtRest ==
  ASSUME HeadInv, NEW p \in Proc, AtRest(p)
  PROVE  Appending(p)'
BY DEF HeadInv, Appending, AtRest

\* No step of a process breaks it.
LEMMA HeadInvStep ==
  ASSUME TypeOK, HeadInv, NEW p \in Proc, Step(p)
  PROVE  HeadInv'
<1>0. /\ OnlyMoves(p) /\ Appending(p) /\ head \in heads
      /\ pc \in [Proc -> Stage] /\ op \in [Proc -> Ops \cup {"none"}]
      /\ recs \in [Proc -> Seq(Payload)] /\ batch \in [Proc -> Seq(Payload)]
      /\ wrote \in [Proc -> Nat]
  BY StepIsLocal DEF HeadInv, TypeOK, Hash
<1>1. ASSUME AtRest(p), UNCHANGED <<head, heads>>,
             pc'[p] \in Exclusive => pc[p] \in Exclusive \/ (Writers = {} /\ Sharers = {}),
             pc'[p] = "vhold" => pc[p] = "vhold" \/ Writers = {}
      PROVE  HeadInv'
  BY <1>0, <1>1, AppendingAtRest, HeadStep
<1>2. CASE OpenHead(p) \/ OpenLedger(p)
  BY <1>0, <1>1, <1>2 DEF OpenHead, OpenLedger, Goto, AtRest, Exclusive, disk, task
<1>3. CASE OpenRefused(p) \/ Close(p)
  BY <1>0, <1>1, <1>3 DEF OpenRefused, Close, Drop, Goto, AtRest, Exclusive, disk
<1>4. ASSUME NEW b \in Batches[p], StartAppend(p, b) PROVE HeadInv'
  <2>1. pc'[p] = "want" /\ batch'[p] = b /\ b # <<>> /\ UNCHANGED <<head, heads>>
    BY <1>0, <1>4 DEF StartAppend, Goto, disk
  <2>2. Appending(p)'
    BY <1>4, <2>1 DEF Appending
  <2>. QED
    BY <1>0, <2>1, <2>2, HeadStep DEF Exclusive
<1>5. CASE \E o \in {"accept", "reset"} : StartPerson(p, o)
  BY <1>0, <1>1, <1>5 DEF StartPerson, Goto, AtRest, Exclusive, disk, task
<1>6. CASE Lock(p)
  BY <1>0, <1>1, <1>6 DEF Lock, Goto, AtRest, disk, task
<1>7. CASE LockBusy(p) \/ AppendRefused(p) \/ AcceptRefused(p) \/ VerifyRecheck(p)
  BY <1>0, <1>1, <1>7
  DEF LockBusy, AppendRefused, AcceptRefused, VerifyRecheck, Return, Goto, AtRest, Exclusive, disk
<1>8. CASE SyncTail(p)
  BY <1>0, <1>1, <1>8 DEF SyncTail, Goto, AtRest, Exclusive, task
<1>9. CASE SyncTailRefused(p)
  BY <1>0, <1>1, <1>9 DEF SyncTailRefused, Return, Goto, AtRest, Exclusive, disk
<1>10. CASE CheckHead(p)
  <2>1. pc'[p] = "writing" /\ pc[p] \in Exclusive /\ UNCHANGED <<head, heads, op, recs, batch>>
        /\ head \in {NoHead, HeadAt(recs[p])}
    BY <1>0, <1>10 DEF CheckHead, HeadAllows, Goto, Exclusive, disk, task, handle
  <2>2. Appending(p)'
    BY <1>0, <2>1 DEF Appending
  <2>. QED
    BY <1>0, <2>1, <2>2, HeadStep
<1>11. CASE WritePart(p) \/ WriteLine(p) \/ WriteDone(p)
  <2>1. pc'[p] \in {"writing", "tearing", "written"} /\ pc[p] \in {"writing", "tearing"}
        /\ UNCHANGED <<head, heads, op, recs, batch>>
    BY <1>0, <1>11 DEF WritePart, WriteLine, WriteDone, Goto, disk, task, handle
  <2>2. Appending(p)'
    BY <1>0, <2>1 DEF Appending
  <2>3. pc[p] \in Exclusive /\ pc'[p] # "vhold"
    BY <2>1 DEF Exclusive
  <2>. QED
    BY <1>0, <2>1, <2>2, <2>3, HeadStep
<1>12. CASE SyncData(p)
  <2>1. pc'[p] = "heading" /\ pc[p] = "written" /\ recs'[p] = recs[p] \o batch[p]
        /\ UNCHANGED <<head, heads, op, batch>>
    BY <1>0, <1>12 DEF SyncData, Goto, task
  <2>2. SubSeq(recs[p] \o batch[p], 1, Len(recs[p] \o batch[p]) - Len(batch[p])) = recs[p]
    <3> DEFINE r == recs[p]
               b == batch[p]
    <3>1. r \in Seq(Payload) /\ b \in Seq(Payload)
      BY <1>0
    <3> HIDE DEF r, b
    <3>2. Len(r \o b) - Len(b) = Len(r)
      BY <3>1
    <3>3. SubSeq(r \o b, 1, Len(r)) = r
      BY <3>1
    <3>. QED
      BY <3>2, <3>3 DEF r, b
  <2>3. Before(p)' = recs[p]
    BY <2>1, <2>2 DEF Before
  <2>4. Appending(p)'
    BY <1>0, <2>1, <2>3 DEF Appending
  <2>. QED
    BY <1>0, <2>1, <2>4, HeadStep DEF Exclusive
<1>13. ASSUME p \in Writers, pc'[p] = "ready", op'[p] = "none", head' \in heads'
       PROVE  HeadInv'
  <2>1. AtRest(p)
    BY <1>13 DEF AtRest
  <2>. QED
    BY <1>0, <1>13, <2>1, AppendingAtRest, HeadStep DEF Exclusive
<1>14. CASE HeadRename(p) \/ AppendOk(p)
  <2>1. CASE HeadRename(p)
    <3>1. /\ pc[p] = "heading" /\ op[p] = "append"
          /\ pc'[p] = "headed" /\ head' = HeadAt(recs[p]) /\ head' \in heads'
          /\ UNCHANGED <<op, recs, batch>>
      BY <1>0, <2>1 DEF HeadRename, HeadWritten, Goto, task
    <3>2. Appending(p)'
      BY <1>0, <3>1 DEF Appending
    <3>. QED
      BY <1>0, <3>1, <3>2, HeadStep DEF Writers, Exclusive
  <2>2. CASE AppendOk(p)
    BY <1>0, <1>13, <2>2 DEF AppendOk, Return, Goto, Writers, Exclusive, disk
  <2>. QED
    BY <1>14, <2>1, <2>2
<1>15. CASE AcceptTail(p)
  BY <1>0, <1>13, <1>15 DEF AcceptTail, HeadWritten, Return, Goto, Writers, Exclusive
<1>16. CASE ResetHead(p)
  BY <1>0, <1>13, <1>16 DEF ResetHead, HeadWritten, Return, Goto, Writers, Exclusive
<1>17. CASE VerifyNow(p)
  BY <1>0, <1>1, <1>17 DEF VerifyNow, AtRest, Exclusive, disk, task
<1>18. CASE VerifyTail(p)
  BY <1>0, <1>1, <1>18 DEF VerifyTail, Goto, AtRest, Exclusive, disk, task
<1>19. CASE LockShared(p)
  BY <1>0, <1>1, <1>19 DEF LockShared, Goto, AtRest, Exclusive, disk, task
<1>. QED
  BY <1>2, <1>3, <1>4, <1>5, <1>6, <1>7, <1>8, <1>9, <1>10, <1>11, <1>12, <1>14, <1>15, <1>16,
     <1>17, <1>18, <1>19 DEF Step

\* Neither does a fault: what happens to the head happens when nobody writes.
LEMMA HeadInvFailure ==
  ASSUME TypeOK, HeadInv, Failure
  PROVE  HeadInv'
<1>0. /\ pc \in [Proc -> Stage] /\ op \in [Proc -> Ops \cup {"none"}]
      /\ batch \in [Proc -> Seq(Payload)] /\ head \in heads
  BY DEF HeadInv, TypeOK
<1>1. ASSUME NEW p \in Proc, OnlyMoves(p), UNCHANGED <<head, heads>>,
             pc'[p] \in {"closed", "ready"}, op'[p] = "none"
      PROVE  HeadInv'
  <2>1. Appending(p)'
    BY <1>1 DEF Appending
  <2>. QED
    BY <1>0, <1>1, <2>1, HeadStep DEF Exclusive
<1>2. ASSUME NEW p \in Proc, Crash(p) PROVE HeadInv'
  <2>1. OnlyMoves(p)
    BY <1>2 DEF Crash, Drop, Goto, OnlyMoves, TypeOK
  <2>. QED
    BY <1>0, <1>1, <1>2, <2>1 DEF Crash, Drop, Goto, disk
<1>3. ASSUME NEW p \in Proc, WriteFails(p) \/ HeadFails(p) PROVE HeadInv'
  <2>1. OnlyMoves(p)
    BY <1>3 DEF WriteFails, HeadFails, Return, Goto, OnlyMoves, handle, TypeOK
  <2>. QED
    BY <1>0, <1>1, <1>3, <2>1 DEF WriteFails, HeadFails, Return, Goto, disk
<1>4. CASE PowerLoss
  <2>1. \A p \in Proc : pc'[p] = "closed" /\ op'[p] = "none"
    BY <1>4 DEF PowerLoss
  <2>2. Writers' = {} /\ \A p \in Proc : Appending(p)'
    BY <2>1 DEF Writers, Exclusive, Appending
  <2>3. head' \in heads'
    BY <1>4 DEF PowerLoss
  <2>. QED
    BY <2>2, <2>3 DEF HeadInv
<1>5. CASE (\E x \in Others : ForeignAppend(x)) \/ Edit
  <2>1. UNCHANGED <<head, heads, pc, op, recs, batch>>
    BY <1>5 DEF ForeignAppend, Edit, handle, task
  <2>. QED
    BY <2>1 DEF HeadInv, Writers, Sharers, Appending, Before
<1>6. CASE HeadLost
  <2>1. UNCHANGED <<pc, op, batch>> /\ Writers = {} /\ head' \in heads'
    BY <1>6 DEF HeadLost, task
  <2>2. Writers' = {}
    BY <2>1 DEF Writers
  <2>3. \A p \in Proc : Appending(p)'
    BY <2>1, <2>2 DEF HeadInv, Appending, Writers, Exclusive
  <2>. QED
    BY <2>1, <2>2, <2>3 DEF HeadInv
<1>. QED
  BY <1>2, <1>3, <1>4, <1>5, <1>6 DEF Failure

LEMMA HeadInvNext ==
  ASSUME TypeOK, HeadInv, [Next]_vars
  PROVE  HeadInv'
<1>1. ASSUME UNCHANGED vars PROVE HeadInv'
  BY <1>1 DEF vars, HeadInv, Writers, Sharers, Appending, Before
<1>. QED
  BY <1>1, HeadInvStep, HeadInvFailure DEF Next

\* There is one writer or there are readers; a writer that has passed the check
\* of the head chains its batch to what the head names until it moves the head
\* itself, in a ledger that is edited or damaged too.
THEOREM HeadInvariant == Spec => []HeadInv
<1>1. Init => HeadInv
  <2> SUFFICES ASSUME NEW st \in Stores, NEW x \in Others, InitFrom(st, x)
               PROVE  HeadInv
    BY DEF Init
  <2>1. heads = {head} /\ \A p \in Proc : pc[p] = "closed" /\ op[p] = "none"
    BY DEF InitFrom
  <2>2. Writers = {}
    BY <2>1 DEF Writers, Exclusive
  <2>. QED
    BY <2>1, <2>2 DEF HeadInv, Appending
<1>. QED
  BY <1>1, HeadInvNext, TypeCorrect, PTL DEF Spec

\* Types, one writer or readers, and a head that only the writer moves, from each
\* step to the next: with every fault, in an edited ledger too.
THEOREM InductiveInvariant == Spec => []InductiveInv
<1>1. TypeOK /\ HeadInv => InductiveInv
  BY DEF InductiveInv
<1>. QED
  BY <1>1, TypeCorrect, HeadInvariant, PTL

-----------------------------------------------------------------------------
(* The acknowledged log *)

\* What p had replayed before its batch is a hash.
LEMMA BeforeType ==
  ASSUME TypeOK, NEW p \in Proc
  PROVE  Before(p) \in Seq(Payload)
<1>1. recs[p] \in Seq(Payload) /\ batch[p] \in Seq(Payload)
  BY DEF TypeOK, Hash
<1>2. ASSUME NEW r \in Seq(Payload), NEW n \in Nat
      PROVE  SubSeq(r, 1, Len(r) - n) \in Seq(Payload)
  <2>1. Len(r) - n \in 0..Len(r) \/ Len(r) - n < 0
    OBVIOUS
  <2>. QED
    BY <2>1
<1>. QED
  BY <1>1, <1>2 DEF Before

\* What follows a sequence is a suffix of the two together.
LEMMA SuffixOfConcat ==
  ASSUME NEW S, NEW q \in Seq(S), NEW r \in Seq(S)
  PROVE  IsSuffix(r, q \o r)
<1> DEFINE u == q \o r
<1>1. u \in Seq(S) /\ Len(u) = Len(q) + Len(r) /\ Len(r) \in Nat /\ Len(q) \in Nat
      /\ \A i \in 1..Len(r) : u[Len(q) + i] = r[i]
  OBVIOUS
<1> HIDE DEF u
<1>2. /\ Reverse(r) \in Seq(S) /\ Len(Reverse(r)) = Len(r)
      /\ \A i \in 1..Len(r) : Reverse(r)[i] = r[(Len(r) - i) + 1]
  BY DEF Reverse
<1>3. /\ Reverse(u) \in Seq(S) /\ Len(Reverse(u)) = Len(u)
      /\ \A i \in 1..Len(u) : Reverse(u)[i] = u[(Len(u) - i) + 1]
  BY <1>1 DEF Reverse
<1>4. \A i \in 1..Len(r) : Reverse(r)[i] = Reverse(u)[i]
  <2> SUFFICES ASSUME NEW i \in 1..Len(r)
               PROVE  Reverse(r)[i] = Reverse(u)[i]
    OBVIOUS
  <2>1. (Len(r) - i) + 1 \in 1..Len(r) /\ (Len(u) - i) + 1 = Len(q) + ((Len(r) - i) + 1)
        /\ i \in 1..Len(u)
    BY <1>1
  <2>. QED
    BY <1>1, <1>2, <1>3, <2>1
<1> DEFINE a == Reverse(r)
           b == Reverse(u)
<1>5. a \in Seq(S) /\ b \in Seq(S) /\ Len(a) = Len(r) /\ Len(a) <= Len(b)
      /\ \A i \in 1..Len(a) : a[i] = b[i]
  BY <1>1, <1>2, <1>3, <1>4
<1> HIDE DEF a, b
<1>6. SubSeq(a, 1, Len(a)) = SubSeq(b, 1, Len(a))
  BY <1>5
<1>. QED
  BY <1>5, <1>6 DEF IsSuffix, IsPrefix, a, b, u

\* Every step is one of the acknowledged log or does not touch it.
LEMMA AckedStep ==
  ASSUME TypeOK, HeadInv, [Next]_vars
  PROVE  [Acked!Next]_<<head, heads>>
<1>1. ASSUME NEW p \in Proc, HeadRename(p) PROVE Acked!Commit
  <2>1. /\ pc[p] = "heading" /\ batch[p] \in Batches[p] \ {<<>>}
        /\ recs[p] = Before(p) \o batch[p] /\ head \in {NoHead, HeadAt(Before(p))}
    BY <1>1 DEF HeadRename, HeadInv, Appending
  <2>2. head' = HeadAt(recs[p]) /\ heads' = heads \cup {head'}
    BY <1>1 DEF HeadRename, HeadWritten
  <2>3. Before(p) \in Seq(Payload) /\ batch[p] \in Seq(Payload)
    BY BeforeType DEF TypeOK
  <2>4. head = NoHead => IsSuffix(batch[p], recs[p])
    BY <2>1, <2>3, SuffixOfConcat
  <2>5. head.state = "present" => head.at \o batch[p] = recs[p]
    <3>1. head = NoHead => head.state # "present"
      BY DEF NoHead
    <3>2. head = HeadAt(Before(p)) => head.at = Before(p)
      BY DEF HeadAt
    <3>. QED
      BY <2>1, <3>1, <3>2
  <2>6. head'.state = "present" /\ head'.at = recs[p]
    BY <2>2 DEF HeadAt
  <2>7. head.state # "present" => head = NoHead /\ head.state = "missing"
    BY <2>1 DEF NoHead, HeadAt
  <2>8. batch[p] \in (UNION {Batches[q] : q \in Proc}) \ {<<>>}
    BY <2>1
  <2>. QED
    BY <2>2, <2>4, <2>5, <2>6, <2>7, <2>8 DEF Acked!Commit, Acked!Known, IsSuffix, IsPrefix, Reverse, Acked!IsSuffix, Acked!IsPrefix,
       Acked!Reverse
<1>2. ASSUME NEW p \in Proc, AcceptTail(p) PROVE Acked!Accept \/ UNCHANGED <<head, heads>>
  <2>1. op[p] = "accept" /\ p \in Writers /\ Present(head) /\ IsPrefix(head.at, recs[p])
    BY <1>2 DEF AcceptTail, Writers, Exclusive
  <2>2. CASE head.at = recs[p]
    BY <1>2, <2>2 DEF AcceptTail
  <2>3. CASE head.at # recs[p]
    <3>1. head' = HeadAt(recs[p]) /\ heads' = heads \cup {head'}
      BY <1>2, <2>3 DEF AcceptTail, HeadWritten
    <3>2. "accept" \in {op[q] : q \in Writers}
      BY <2>1
    <3>. QED
      BY <2>1, <2>3, <3>1, <3>2 DEF Acked!Accept, Acked!Known, Present, HeadAt, IsPrefix, Acked!IsStrictPrefix, Acked!IsPrefix
  <2>. QED
    BY <2>2, <2>3
<1>3. ASSUME NEW p \in Proc, ResetHead(p) PROVE Acked!Reset
  <2>1. op[p] = "reset" /\ p \in Writers
    BY <1>3 DEF ResetHead, Writers, Exclusive
  <2>2. head' \in {NoHead, HeadAt(recs[p])} /\ heads' = heads \cup {head'}
    BY <1>3 DEF ResetHead, HeadWritten
  <2>3. "reset" \in {op[q] : q \in Writers}
    BY <2>1
  <2>. QED
    BY <2>2, <2>3 DEF Acked!Reset, NoHead, HeadAt
<1>4. ASSUME NEW p \in Proc, Step(p), ~(HeadRename(p) \/ AcceptTail(p) \/ ResetHead(p))
      PROVE  UNCHANGED <<head, heads>>
  BY <1>4
  DEF Step, OpenHead, OpenLedger, OpenRefused, Close, StartAppend, StartPerson, Lock,
      LockBusy, SyncTail, SyncTailRefused, CheckHead, AppendRefused, WritePart, WriteLine,
      WriteDone, SyncData, AppendOk, AcceptRefused, VerifyNow, VerifyTail, LockShared,
      VerifyRecheck, disk
<1>5. ASSUME PowerLoss PROVE Acked!Revert
  BY <1>5 DEF PowerLoss, Fault, Acked!Revert
<1>6. ASSUME HeadLost PROVE Acked!Damage
  BY <1>6 DEF HeadLost, Fault, Acked!Damage, NoHead, BadHead
<1>7. ASSUME Failure, ~(PowerLoss \/ HeadLost) PROVE UNCHANGED <<head, heads>>
  BY <1>7 DEF Failure, Crash, WriteFails, HeadFails, ForeignAppend, Edit, disk
<1>8. UNCHANGED vars => UNCHANGED <<head, heads>>
  BY DEF vars
<1>. QED
  BY <1>1, <1>2, <1>3, <1>4, <1>5, <1>6, <1>7, <1>8 DEF Next, Acked!Next

\* The ledger implements the acknowledged log, whatever fails and whoever edits
\* it: the head moves forward by whole batches, each chained to what it named
\* before, and otherwise by a person's decision, a power loss or damage only.
THEOREM LedgerImplementsAckLog == Spec => AckedLog
<1>1. Init => Acked!Init
  <2> SUFFICES ASSUME NEW st \in Stores, NEW x \in Others, InitFrom(st, x)
               PROVE  Acked!Init
    BY DEF Init
  <2>. QED
    BY DEF InitFrom, Acked!Init, NoHead, HeadAt
<1>. QED
  BY <1>1, AckedStep, HeadInvariant, TypeCorrect, PTL DEF Spec, AckedLog, Acked!Spec

-----------------------------------------------------------------------------
(* A file that was never a ledger *)

\* Nobody has replayed anything of it, and nobody gets past sync_tail.
NeverALedger ==
  frag = "alien" =>
    /\ file = <<>>
    /\ \A p \in Proc : recs[p] = <<>> /\ pc[p] \notin Exclusive \ {"locked"}

\* While frag is alien sync_tail refuses.
LEMMA AlienRefused ==
  ASSUME TypeOK, NeverALedger, frag = "alien", NEW p \in Proc
  PROVE  Unread(p) = <<>> /\ NotALedger(p)
<1>1. file = <<>> /\ recs[p] = <<>> /\ off[p] \in Nat
  BY DEF NeverALedger, TypeOK
<1>2. Unread(p) = <<>>
  BY <1>1 DEF Unread
<1>. QED
  BY <1>1, <1>2 DEF NotALedger, EndOf

\* No step of a process touches it.
LEMMA AlienStep ==
  ASSUME TypeOK, NeverALedger, frag = "alien", NEW p \in Proc, Step(p)
  PROVE  UNCHANGED <<file, frag>> /\ NeverALedger'
<1>0. /\ file = <<>> /\ \A q \in Proc : recs[q] = <<>> /\ pc[q] \notin Exclusive \ {"locked"}
      /\ pc \in [Proc -> Stage] /\ recs \in [Proc -> Hash]
      /\ Unread(p) = <<>> /\ NotALedger(p) /\ OnlyMoves(p)
  BY AlienRefused, StepIsLocal DEF NeverALedger, TypeOK
<1>1. pc[p] \notin {"synced", "writing", "tearing", "written", "heading", "headed"}
  BY <1>0 DEF Exclusive
<1>2. ASSUME UNCHANGED <<file, frag>>, recs'[p] = <<>>, pc'[p] \notin Exclusive \ {"locked"}
      PROVE  UNCHANGED <<file, frag>> /\ NeverALedger'
  BY <1>0, <1>2 DEF NeverALedger, OnlyMoves
<1>3. CASE OpenHead(p) \/ OpenLedger(p)
  BY <1>0, <1>2, <1>3 DEF OpenHead, OpenLedger, EndOf, Goto, Exclusive, disk
<1>4. CASE OpenRefused(p) \/ Close(p)
  BY <1>0, <1>2, <1>4 DEF OpenRefused, Close, Drop, Goto, Exclusive, disk
<1>5. CASE (\E b \in Batches[p] : StartAppend(p, b)) \/ (\E o \in {"accept", "reset"} : StartPerson(p, o))
  BY <1>0, <1>2, <1>5 DEF StartAppend, StartPerson, Goto, Exclusive, disk, handle
<1>6. CASE Lock(p) \/ LockBusy(p) \/ LockShared(p)
  BY <1>0, <1>2, <1>6 DEF Lock, LockBusy, LockShared, Return, Goto, Exclusive, disk, handle
<1>7. CASE SyncTail(p)
  BY <1>0, <1>7 DEF SyncTail
<1>8. CASE SyncTailRefused(p)
  <2>1. UNCHANGED <<file, frag>> /\ pc'[p] = "ready"
    BY <1>0, <1>8 DEF SyncTailRefused, Return, Goto, disk
  <2>2. 0..Len(Unread(p)) - 1 = {}
    BY <1>0
  <2>3. recs' = recs
    BY <1>8, <2>2 DEF SyncTailRefused
  <2>. QED
    BY <1>0, <1>2, <2>1, <2>3 DEF Exclusive
<1>9. CASE VerifyNow(p) \/ VerifyTail(p) \/ VerifyRecheck(p)
  BY <1>0, <1>2, <1>9 DEF VerifyNow, VerifyTail, VerifyRecheck, Return, Goto, Exclusive, disk, handle
<1>10. ~(CheckHead(p) \/ AppendRefused(p) \/ WritePart(p) \/ WriteLine(p) \/ WriteDone(p)
           \/ SyncData(p) \/ HeadRename(p) \/ AppendOk(p) \/ AcceptTail(p) \/ AcceptRefused(p)
           \/ ResetHead(p))
  BY <1>1 DEF CheckHead, AppendRefused, WritePart, WriteLine, WriteDone, SyncData, HeadRename,
              AppendOk, AcceptTail, AcceptRefused, ResetHead
<1>. QED
  BY <1>3, <1>4, <1>5, <1>6, <1>7, <1>8, <1>9, <1>10 DEF Step

\* Nor does a fault.
LEMMA AlienFailure ==
  ASSUME TypeOK, NeverALedger, frag = "alien", Failure
  PROVE  UNCHANGED <<file, frag>> /\ NeverALedger'
<1>0. file = <<>> /\ synced \in 0..Len(file)
      /\ (\A q \in Proc : recs[q] = <<>> /\ pc[q] \notin Exclusive \ {"locked"})
      /\ pc \in [Proc -> Stage] /\ recs \in [Proc -> Hash]
  BY DEF NeverALedger, TypeOK
<1>1. ASSUME NEW p \in Proc, Crash(p) PROVE UNCHANGED <<file, frag>> /\ NeverALedger'
  <2>1. UNCHANGED <<file, frag>> /\ pc' = [pc EXCEPT ![p] = "closed"] /\ recs' = [recs EXCEPT ![p] = <<>>]
    BY <1>1 DEF Crash, Drop, Goto, disk
  <2>. QED
    BY <1>0, <2>1 DEF NeverALedger, Exclusive
<1>2. ASSUME NEW p \in Proc, WriteFails(p) \/ HeadFails(p)
      PROVE  UNCHANGED <<file, frag>> /\ NeverALedger'
  BY <1>0, <1>2 DEF WriteFails, HeadFails, Return, Goto, NeverALedger, Exclusive, disk, handle
<1>3. CASE PowerLoss
  <2>1. PICK k \in synced..Len(file) : file' = SubSeq(file, 1, k) /\ frag' = "alien"
    BY <1>3 DEF PowerLoss
  <2>2. file' = <<>>
    BY <1>0, <2>1
  <2>3. \A q \in Proc : recs'[q] = <<>> /\ pc'[q] = "closed"
    BY <1>3 DEF PowerLoss
  <2>. QED
    BY <1>0, <2>1, <2>2, <2>3 DEF NeverALedger, Exclusive
<1>4. ~\E x \in Others : ForeignAppend(x)
  BY DEF ForeignAppend
<1>5. ~Edit
  <2>1. 0..Len(file) - 1 = {}
    BY <1>0
  <2>. QED
    BY <1>0, <2>1 DEF Edit
<1>6. CASE HeadLost
  BY <1>0, <1>6 DEF HeadLost, NeverALedger, handle
<1>. QED
  BY <1>1, <1>2, <1>3, <1>4, <1>5, <1>6 DEF Failure

\* Nothing becomes such a file.
LEMMA AlienIsOld ==
  ASSUME [Next]_vars, frag # "alien"
  PROVE  frag' # "alien"
<1>1. ASSUME NEW p \in Proc, Step(p) PROVE frag' # "alien"
  <2>1. CASE UNCHANGED frag
    BY <2>1
  <2>2. CASE SyncTail(p) \/ WritePart(p) \/ WriteLine(p)
    BY <2>2 DEF SyncTail, WritePart, WriteLine
  <2>. QED
    BY <1>1, <2>1, <2>2
    DEF Step, OpenHead, OpenLedger, OpenRefused, Close, StartAppend, StartPerson, Lock,
        LockBusy, SyncTailRefused, CheckHead, AppendRefused, WriteDone, SyncData, HeadRename,
        AppendOk, AcceptTail, AcceptRefused, ResetHead, VerifyNow, VerifyTail, LockShared, VerifyRecheck,
        disk
<1>2. CASE Failure
  BY <1>2 DEF Failure, Crash, WriteFails, HeadFails, PowerLoss, ForeignAppend, Edit, HeadLost, disk
<1>. QED
  BY <1>1, <1>2 DEF Next, vars

\* A text file that is not a ledger is left as it is by every operation, crash,
\* power loss and retry.
THEOREM OtherFilesUntouched == Spec => NeverLedgerUntouched
<1>1. Init => NeverALedger
  <2> SUFFICES ASSUME NEW st \in Stores, NEW x \in Others, InitFrom(st, x)
               PROVE  NeverALedger
    BY DEF Init
  <2>. QED
    BY DEF InitFrom, NeverALedger, Exclusive
<1>2. TypeOK /\ NeverALedger /\ [Next]_vars =>
        NeverALedger' /\ (frag = "alien" => frag' = "alien" /\ file' = file)
  <2> SUFFICES ASSUME TypeOK, NeverALedger, [Next]_vars
               PROVE  NeverALedger' /\ (frag = "alien" => frag' = "alien" /\ file' = file)
    OBVIOUS
  <2>1. CASE frag # "alien"
    BY <2>1, AlienIsOld DEF NeverALedger
  <2>2. CASE frag = "alien" /\ UNCHANGED vars
    BY <2>2 DEF vars, NeverALedger
  <2>3. CASE frag = "alien" /\ Next
    BY <2>3, AlienStep, AlienFailure DEF Next
  <2>. QED
    BY <2>1, <2>2, <2>3
<1>3. TypeOK /\ NeverALedger /\ [Next]_vars =>
        [frag = "alien" => frag' = "alien" /\ file' = file]_<<file, frag>>
  BY <1>2
<1>. QED
  BY <1>1, <1>2, <1>3, TypeCorrect, PTL DEF Spec, NeverLedgerUntouched

-----------------------------------------------------------------------------
(* Chains, line by line *)

\* A prefix agrees element by element.
LEMMA PrefixIs ==
  ASSUME NEW S, NEW q \in Seq(S), NEW r \in Seq(S)
  PROVE  IsPrefix(q, r) <=> Len(q) <= Len(r) /\ \A i \in 1..Len(q) : q[i] = r[i]
<1>1. ASSUME IsPrefix(q, r), NEW i \in 1..Len(q) PROVE q[i] = r[i]
  <2>1. SubSeq(q, 1, Len(q))[i] = q[i] /\ SubSeq(r, 1, Len(q))[i] = r[i]
    BY <1>1 DEF IsPrefix
  <2>. QED
    BY <1>1, <2>1 DEF IsPrefix
<1>2. ASSUME Len(q) <= Len(r), \A i \in 1..Len(q) : q[i] = r[i] PROVE IsPrefix(q, r)
  BY <1>2 DEF IsPrefix
<1>. QED
  BY <1>1, <1>2 DEF IsPrefix

\* The empty sequence is a prefix of every other.
LEMMA EmptyPrefix ==
  ASSUME NEW S, NEW q \in Seq(S)
  PROVE  IsPrefix(<<>>, q)
<1>1. <<>> \in Seq(S) /\ Len(<<>>) = 0 /\ Len(q) \in Nat
  OBVIOUS
<1> DEFINE e == <<>>
<1>2. e \in Seq(S) /\ Len(e) <= Len(q) /\ \A i \in 1..Len(e) : e[i] = q[i]
  BY <1>1
<1> HIDE DEF e
<1>3. IsPrefix(e, q)
  BY <1>2, PrefixIs
<1>. QED
  BY <1>3 DEF e

\* A prefix of a prefix is one, and so is the shorter of two prefixes of the other.
LEMMA PrefixTrans ==
  ASSUME NEW S, NEW q \in Seq(S), NEW r \in Seq(S), NEW s \in Seq(S), IsPrefix(q, r), IsPrefix(r, s)
  PROVE  IsPrefix(q, s)
<1>1. Len(q) \in Nat /\ Len(r) \in Nat /\ Len(s) \in Nat /\ Len(q) <= Len(r) /\ Len(r) <= Len(s)
      /\ (\A i \in 1..Len(q) : q[i] = r[i]) /\ (\A i \in 1..Len(r) : r[i] = s[i])
  BY PrefixIs
<1>2. Len(q) <= Len(s) /\ \A i \in 1..Len(q) : q[i] = s[i]
  BY <1>1
<1>. QED
  BY <1>2, PrefixIs

LEMMA PrefixOfBoth ==
  ASSUME NEW S, NEW q \in Seq(S), NEW r \in Seq(S), NEW s \in Seq(S),
         IsPrefix(q, s), IsPrefix(r, s), Len(q) = Len(r)
  PROVE  q = r
<1>1. (\A i \in 1..Len(q) : q[i] = s[i]) /\ (\A i \in 1..Len(r) : r[i] = s[i])
  BY PrefixIs
<1>2. \A i \in 1..Len(q) : q[i] = r[i]
  BY <1>1
<1>. QED
  BY <1>2, SeqEqual

\* A non-empty set of numbers has a least one.
LEMMA FirstPlace ==
  ASSUME NEW T \in SUBSET Nat, T # {}
  PROVE  \E x \in T : \A y \in T : x <= y
<1> DEFINE R == OpToRel(<, Nat)
<1>1. PICK x \in T : \A y \in T : ~ (<<y, x>> \in R)
  <2>1. IsWellFoundedOn(R, Nat)
    BY NatLessThanWellFounded
  <2> HIDE DEF R
  <2>. QED
    BY <2>1, WFMin
<1>2. \A y \in T : x <= y
  <2> SUFFICES ASSUME NEW y \in T
               PROVE  x <= y
    OBVIOUS
  <2>1. y < x => <<y, x>> \in R
    BY DEF OpToRel
  <2> HIDE DEF R
  <2>. QED
    BY <1>1, <2>1
<1>. QED
  BY <1>2

\* Each line of a chain is a prefix of every later one.
LEMMA ChainPrefix ==
  ASSUME TypeOK, Loadable, NEW i \in 1..Len(file), NEW j \in i..Len(file)
  PROVE  IsPrefix(file[i], file[j])
<1>0. Len(file) \in Nat /\ \A k \in 1..Len(file) : file[k] \in Seq(Payload)
  BY DEF TypeOK, Hash
<1> DEFINE T == {k \in i..Len(file) : ~IsPrefix(file[i], file[k])}
<1>1. SUFFICES ASSUME T # {} PROVE FALSE
  OBVIOUS
<1>2. T \in SUBSET Nat
  BY <1>0
<1>3. PICK k \in T : \A m \in T : k <= m
  <2> HIDE DEF T
  <2>. QED
    BY <1>1, <1>2, FirstPlace
<1>4. k # i
  BY <1>0, PrefixRefl
<1>5. k - 1 \in i..Len(file) /\ k - 1 \in 1..Len(file) /\ k \in 1..Len(file) /\ k # 1
  BY <1>0, <1>4
<1>6. IsPrefix(file[i], file[k-1])
  BY <1>3, <1>5
<1>7. IsPrefix(file[k-1], file[k])
  BY <1>5 DEF Loadable, Chains, Prev
<1>. QED
  BY <1>0, <1>5, <1>6, <1>7, PrefixTrans

\* What a handle has replayed is a prefix of every later hash of the chain.
LEMMA UptoPrefix ==
  ASSUME TypeOK, Loadable, NEW m \in 0..Len(file), NEW n \in m..Len(file)
  PROVE  IsPrefix(Upto(m), Upto(n))
<1>1. CASE m = 0
  <2>1. Upto(m) = <<>> /\ Upto(n) \in Hash
    <3>1. n \in 0..Len(file)
      BY DEF TypeOK
    <3>. QED
      BY <1>1, <3>1, UptoLen DEF Upto
  <2>2. \A h \in Hash : IsPrefix(<<>>, h)
    BY EmptyPrefix DEF Hash
  <2>. QED
    BY <2>1, <2>2
<1>2. CASE m # 0
  BY <1>2, ChainPrefix DEF Upto, TypeOK
<1>. QED
  BY <1>1, <1>2

-----------------------------------------------------------------------------
(* Lost records *)

\* The head names at least the longest ledger an append has returned Ok for.
HeadNamesDone ==
  /\ head = NoHead \/ Present(head)
  /\ IF Present(head) THEN IsPrefix(done, head.at) ELSE done = <<>>

LEMMA HeadNamesDoneNext ==
  ASSUME {"head", "power"} \cap Faults = {}, TypeOK, HeadInv, HeadNamesDone, [Next]_vars
  PROVE  HeadNamesDone'
<1>0. done \in Seq(Payload) /\ head \in HeadFile /\ (\A p \in Proc : recs[p] \in Seq(Payload))
      /\ (Present(head) => head.at \in Seq(Payload))
  BY HeadCases DEF TypeOK, Hash
<1>1. \A h : Present(HeadAt(h)) /\ HeadAt(h).at = h
  BY DEF Present, HeadAt
<1>2. ~Present(NoHead)
  BY DEF Present, NoHead
<1>3. ASSUME NEW p \in Proc, HeadRename(p) PROVE HeadNamesDone'
  <2>1. head' = HeadAt(recs[p]) /\ done' = done
    BY <1>3 DEF HeadRename, HeadWritten
  <2>2. recs[p] = Before(p) \o batch[p] /\ head \in {NoHead, HeadAt(Before(p))}
    BY <1>3 DEF HeadRename, HeadInv, Appending
  <2>3. batch[p] \in Seq(Payload) /\ Before(p) \in Seq(Payload)
    BY BeforeType DEF TypeOK
  <2>4. IsPrefix(Before(p), recs[p])
    BY <2>2, <2>3, PrefixOfConcat
  <2>5. IsPrefix(done, recs[p])
    <3>1. CASE head = NoHead
      <4>1. done = <<>>
        BY <1>2, <3>1 DEF HeadNamesDone
      <4>. QED
        BY <1>0, <4>1, EmptyPrefix
    <3>2. CASE head = HeadAt(Before(p))
      <4>1. IsPrefix(done, Before(p))
        BY <1>1, <3>2 DEF HeadNamesDone
      <4>. QED
        BY <1>0, <2>3, <2>4, <4>1, PrefixTrans
    <3>. QED
      BY <2>2, <3>1, <3>2
  <2>. QED
    BY <1>1, <2>1, <2>5 DEF HeadNamesDone
<1>4. ASSUME NEW p \in Proc, AcceptTail(p) PROVE HeadNamesDone'
  <2>1. Present(head) /\ IsPrefix(head.at, recs[p]) /\ done' = done
    BY <1>4 DEF AcceptTail
  <2>2. CASE head' = head
    BY <2>1, <2>2 DEF HeadNamesDone
  <2>3. CASE head' = HeadAt(recs[p])
    <3>1. IsPrefix(done, recs[p])
      BY <1>0, <2>1, PrefixTrans DEF HeadNamesDone
    <3>. QED
      BY <1>1, <2>1, <2>3, <3>1 DEF HeadNamesDone
  <2>. QED
    BY <1>4, <2>2, <2>3 DEF AcceptTail, HeadWritten
<1>5. ASSUME NEW p \in Proc, ResetHead(p) PROVE HeadNamesDone'
  <2>1. done' = IF IsPrefix(done, recs[p]) THEN done ELSE <<>>
    BY <1>5 DEF ResetHead
  <2>2. IsPrefix(done', recs[p])
    BY <1>0, <2>1, EmptyPrefix
  <2>3. CASE recs[p] = <<>>
    <3>1. head' = NoHead
      BY <1>5, <2>3 DEF ResetHead
    <3>2. done' = <<>>
      BY <1>0, <2>1, <2>2, <2>3 DEF IsPrefix
    <3>. QED
      BY <1>2, <3>1, <3>2 DEF HeadNamesDone
  <2>4. CASE recs[p] # <<>>
    <3>1. head' = HeadAt(recs[p])
      BY <1>5, <2>4 DEF ResetHead, HeadWritten
    <3>. QED
      BY <1>1, <2>2, <3>1 DEF HeadNamesDone
  <2>. QED
    BY <2>3, <2>4
<1>6. CASE UNCHANGED <<head, done>>
  BY <1>6 DEF HeadNamesDone
<1>7. ASSUME NEW p \in Proc, Step(p), ~(HeadRename(p) \/ AppendOk(p) \/ AcceptTail(p) \/ ResetHead(p))
      PROVE  UNCHANGED <<head, done>>
  BY <1>7
  DEF Step, OpenHead, OpenLedger, OpenRefused, Close, StartAppend, StartPerson, Lock,
      LockBusy, SyncTail, SyncTailRefused, CheckHead, AppendRefused, WritePart, WriteLine,
      WriteDone, SyncData, AcceptRefused, VerifyNow, VerifyTail, LockShared,
      VerifyRecheck, disk
<1>8. CASE Failure
  <2>1. ~PowerLoss /\ ~HeadLost
    BY DEF PowerLoss, HeadLost, Fault
  <2>2. UNCHANGED <<head, done>>
    BY <1>8, <2>1 DEF Failure, Crash, WriteFails, HeadFails, ForeignAppend, Edit, disk
  <2>. QED
    BY <1>6, <2>2
<1>9. ASSUME NEW p \in Proc, AppendOk(p) PROVE HeadNamesDone'
  <2>1. head' = head /\ done' \in {done, recs[p]}
    BY <1>9 DEF AppendOk, disk
  <2>2. head = HeadAt(recs[p])
    BY <1>9 DEF AppendOk, HeadInv, Appending
  <2>. QED
    BY <1>0, <1>1, <2>1, <2>2, PrefixRefl DEF HeadNamesDone
<1>. QED
  BY <1>3, <1>4, <1>5, <1>6, <1>7, <1>8, <1>9 DEF Next, vars

\* As long as the head file itself is neither damaged nor taken back by a power
\* loss, a store that a fresh handle finds in order has lost no acknowledged
\* record, whatever was removed or rewritten and whoever wrote after that.
THEOREM LossIsNotHidden ==
  ASSUME {"head", "power"} \cap Faults = {}
  PROVE  Spec => []EvidenceKept
<1>1. Init => HeadNamesDone
  <2> SUFFICES ASSUME NEW st \in Stores, NEW x \in Others, InitFrom(st, x)
               PROVE  HeadNamesDone
    BY DEF Init
  <2>1. \/ head = NoHead /\ done = <<>>
        \/ head = HeadAt(<<x>>) /\ done = <<x>>
    BY DEF InitFrom
  <2>2. IsPrefix(<<x>>, <<x>>)
    <3> DEFINE h == <<x>>
    <3>1. h \in Seq(Others)
      OBVIOUS
    <3> HIDE DEF h
    <3>2. IsPrefix(h, h)
      BY <3>1, PrefixRefl
    <3>. QED
      BY <3>2 DEF h
  <2>. QED
    BY <2>1, <2>2 DEF HeadNamesDone, Present, NoHead, HeadAt
<1>2. Spec => []HeadNamesDone
  BY <1>1, HeadNamesDoneNext, TypeCorrect, HeadInvariant, PTL DEF Spec
<1>3. TypeOK /\ HeadNamesDone => EvidenceKept
  <2> SUFFICES ASSUME TypeOK, HeadNamesDone, Loadable, Covers(file, head)
               PROVE  Covers(file, HeadAt(done))
    BY DEF EvidenceKept
  <2>1. done \in Seq(Payload) /\ Len(file) \in Nat
        /\ \A k \in 1..Len(file) : file[k] \in Seq(Payload) /\ Len(file[k]) = k
    BY DEF TypeOK, Hash, Loadable, Chains
  <2>2. SUFFICES Len(done) <= Len(file) /\ (Len(done) > 0 => file[Len(done)] = done)
    BY DEF Covers, HeadAt
  <2>3. CASE done = <<>>
    BY <2>1, <2>3
  <2>4. CASE done # <<>>
    <3>1. Present(head) /\ IsPrefix(done, head.at) /\ head.at \in Seq(Payload)
      BY <2>4, HeadCases DEF HeadNamesDone, TypeOK, Hash
    <3>2. Len(head.at) <= Len(file) /\ (Len(head.at) > 0 => file[Len(head.at)] = head.at)
      BY <3>1 DEF Covers
    <3>3. Len(done) \in 1..Len(head.at) /\ Len(head.at) \in 1..Len(file)
      BY <2>1, <2>4, <3>1, <3>2 DEF IsPrefix
    <3>4. Len(done) \in 1..Len(file) /\ Len(head.at) \in Len(done)..Len(file)
      BY <2>1, <3>3
    <3>5. IsPrefix(file[Len(done)], head.at)
      BY <3>2, <3>3, <3>4, ChainPrefix
    <3>6. file[Len(done)] = done
      BY <2>1, <3>1, <3>4, <3>5, PrefixOfBoth
    <3>. QED
      BY <3>4, <3>6
  <2>. QED
    BY <2>3, <2>4
<1>. QED
  BY <1>2, <1>3, TypeCorrect, PTL

-----------------------------------------------------------------------------
(* verify_report *)

\* A verdict is kept while its process does nothing else.
VerdictsAtRest == \A p \in Proc : verdict[p] # "none" => pc[p] = "ready"

\* What a step does to the verdict of its process.
LEMMA VerdictMoves ==
  ASSUME TypeOK, VerdictsAtRest, NEW p \in Proc, Step(p)
  PROVE  VerifyNow(p) \/ VerifyRecheck(p) \/ verdict'[p] = "none"
<1> USE DEF TypeOK
<1>1. pc[p] # "ready" => verdict[p] = "none"
  BY DEF VerdictsAtRest
<1>2. CASE OpenHead(p) \/ OpenLedger(p) \/ OpenRefused(p) \/ Close(p)
  BY <1>1, <1>2 DEF OpenHead, OpenLedger, OpenRefused, Close, Drop
<1>3. CASE (\E b \in Batches[p] : StartAppend(p, b)) \/ (\E o \in {"accept", "reset"} : StartPerson(p, o))
  BY <1>3 DEF StartAppend, StartPerson
<1>4. CASE Lock(p) \/ LockBusy(p) \/ SyncTail(p) \/ SyncTailRefused(p) \/ CheckHead(p) \/ AppendRefused(p)
  BY <1>1, <1>4 DEF Lock, LockBusy, SyncTail, SyncTailRefused, CheckHead, AppendRefused
<1>5. CASE WritePart(p) \/ WriteLine(p) \/ WriteDone(p) \/ SyncData(p) \/ HeadRename(p) \/ AppendOk(p)
  BY <1>1, <1>5 DEF WritePart, WriteLine, WriteDone, SyncData, HeadRename, AppendOk
<1>6. CASE AcceptTail(p) \/ AcceptRefused(p) \/ ResetHead(p)
  BY <1>1, <1>6 DEF AcceptTail, AcceptRefused, ResetHead
<1>7. CASE VerifyTail(p) \/ LockShared(p)
  BY <1>1, <1>7 DEF VerifyTail, LockShared
<1>. QED
  BY <1>2, <1>3, <1>4, <1>5, <1>6, <1>7 DEF Step

\* What a step does to the head its process remembers.
LEMMA RememberedHead ==
  ASSUME TypeOK, NEW p \in Proc, Step(p)
  PROVE  /\ hload'[p] \in {hload[p], head, head', NoHead}
         /\ heads \subseteq heads' /\ head' \in heads \cup heads' \cup {head}
         /\ head' \in heads' \/ UNCHANGED <<head, heads>>
<1> USE DEF TypeOK
<1>1. CASE OpenHead(p)
  BY <1>1 DEF OpenHead, disk
<1>2. CASE OpenRefused(p) \/ Close(p)
  BY <1>2 DEF OpenRefused, Close, Drop, disk
<1>3. CASE HeadRename(p) \/ AcceptTail(p)
  BY <1>3 DEF HeadRename, AcceptTail, HeadWritten
<1>4. CASE ResetHead(p)
  BY <1>4 DEF ResetHead, HeadWritten
<1>5. CASE ~(OpenHead(p) \/ OpenRefused(p) \/ Close(p) \/ HeadRename(p) \/ AcceptTail(p) \/ ResetHead(p))
  <2>1. UNCHANGED <<head, heads, hload>>
    BY <1>5
    DEF Step, OpenLedger, StartAppend, StartPerson, Lock, LockBusy, SyncTail, SyncTailRefused,
        CheckHead, AppendRefused, WritePart, WriteLine, WriteDone, SyncData, AppendOk,
        AcceptRefused, VerifyNow, VerifyTail, LockShared, VerifyRecheck, disk, handle
  <2>. QED
    BY <2>1
<1>. QED
  BY <1>1, <1>2, <1>3, <1>4, <1>5

\* Verdicts are kept at rest, a remembered head was in place, and a pass was given
\* to what some head acknowledges.
PassInv ==
  /\ VerdictsAtRest
  /\ \A p \in Proc : Present(hload[p]) => hload[p] \in heads
  /\ PassMeansAcknowledged

\* Acknowledged by a newer head: the chain it names runs through the snapshot.
LEMMA ConfirmedIsPrefix ==
  ASSUME TypeOK, NEW p \in Proc, Confirmed(p)
  PROVE  Present(head) /\ IsPrefix(recs[p], head.at)
<1>0. recs[p] \in Seq(Payload) /\ head \in HeadFile
  BY DEF TypeOK, Hash
<1>1. CASE head = HeadAt(recs[p])
  BY <1>0, <1>1, PrefixRefl DEF HeadAt, Present
<1>2. CASE Present(head) /\ Len(head.at) > Len(recs[p]) /\ Loadable /\ Covers(file, head)
           /\ file[Len(recs[p])] = recs[p]
  <2>1. head.at \in Seq(Payload)
    BY <1>0, <1>2, HeadCases DEF Hash
  <2>2. CASE recs[p] = <<>>
    BY <1>2, <2>1, <2>2, EmptyPrefix
  <2>3. CASE recs[p] # <<>>
    <3>1. Len(head.at) <= Len(file) /\ file[Len(head.at)] = head.at
      BY <1>0, <1>2, <2>1 DEF Covers
    <3>2. Len(recs[p]) \in 1..Len(file) /\ Len(head.at) \in Len(recs[p])..Len(file)
      <4>1. Len(recs[p]) \in Nat /\ Len(recs[p]) > 0 /\ Len(head.at) \in Nat /\ Len(file) \in Nat
        BY <1>0, <2>1, <2>3 DEF TypeOK
      <4>. QED
        BY <1>2, <3>1, <4>1
    <3>. QED
      BY <1>2, <3>1, <3>2, ChainPrefix
  <2>. QED
    BY <2>2, <2>3
<1>. QED
  BY <1>1, <1>2 DEF Confirmed

LEMMA PassInvNext ==
  ASSUME TypeOK, HeadInv, PassInv, [Next]_vars
  PROVE  PassInv'
<1>0. /\ VerdictsAtRest /\ head \in heads /\ verdict \in [Proc -> {"none", "ok", "alarm"}]
      /\ (\A p \in Proc : recs[p] \in Seq(Payload) /\ hload[p] \in HeadFile)
      /\ ~Present(NoHead) /\ NoHead # BadHead
  BY DEF PassInv, HeadInv, TypeOK, Hash, Present, NoHead, BadHead
\* What a verdict of p asks for.
<1> DEFINE Passed(p) == \/ hload[p] = NoHead
                        \/ \E d \in heads : Present(d) /\ IsPrefix(recs[p], d.at)
<1>1. ASSUME NEW p \in Proc, Step(p) PROVE PassInv'
  <2>0. OnlyMoves(p) /\ heads \subseteq heads'
    BY <1>1, StepIsLocal, RememberedHead
  <2>1. ASSUME NEW q \in Proc \ {p}
        PROVE  /\ (verdict[q] # "none" => pc[q] = "ready")'
               /\ (Present(hload[q]) => hload[q] \in heads)'
               /\ (verdict[q] = "ok" => Passed(q))'
    BY <2>0 DEF PassInv, VerdictsAtRest, PassMeansAcknowledged, OnlyMoves
  <2>2. Present(hload'[p]) => hload'[p] \in heads'
    <3>1. hload'[p] \in {hload[p], head, head', NoHead}
          /\ (head' \in heads' \/ UNCHANGED <<head, heads>>)
      BY <1>1, RememberedHead
    <3>. QED
      BY <1>0, <2>0, <3>1 DEF PassInv
  <2>3. CASE VerifyNow(p)
    <3>1. UNCHANGED <<pc, hload, recs, heads>> /\ pc[p] = "ready"
      BY <2>3 DEF VerifyNow, disk, handle
    <3>2. verdict'[p] = "ok" => hload[p] = NoHead \/ hload[p] = HeadAt(recs[p])
      BY <1>0, <2>3 DEF VerifyNow, Verdict
    <3>3. hload[p] = HeadAt(recs[p]) => Present(hload[p]) /\ IsPrefix(recs[p], hload[p].at)
      BY <1>0, PrefixRefl DEF HeadAt, Present
    <3>4. (verdict[p] = "ok" => Passed(p))'
      BY <3>1, <3>2, <3>3 DEF PassInv
    <3>. QED
      BY <2>1, <2>2, <3>1, <3>4 DEF PassInv, VerdictsAtRest, PassMeansAcknowledged
  <2>4. CASE VerifyRecheck(p)
    <3>1. UNCHANGED <<hload, recs, heads, head>> /\ pc'[p] = "ready"
      BY <2>4 DEF VerifyRecheck, Return, Goto, disk, handle, TypeOK
    <3>2. verdict'[p] = "ok" => Confirmed(p)
      BY <1>0, <2>4 DEF VerifyRecheck, Verdict
    <3>3. (verdict[p] = "ok" => Passed(p))'
      BY <1>0, <3>1, <3>2, ConfirmedIsPrefix
    <3>. QED
      BY <2>1, <2>2, <3>1, <3>3 DEF PassInv, VerdictsAtRest, PassMeansAcknowledged
  <2>5. CASE verdict'[p] = "none"
    BY <2>1, <2>2, <2>5 DEF PassInv, VerdictsAtRest, PassMeansAcknowledged
  <2>. QED
    BY <1>0, <1>1, <2>3, <2>4, <2>5, VerdictMoves
<1>2. ASSUME NEW p \in Proc, Crash(p) \/ WriteFails(p) \/ HeadFails(p) PROVE PassInv'
  <2>1. UNCHANGED heads
    BY <1>2 DEF Crash, WriteFails, HeadFails, disk
  <2>2. CASE Crash(p)
    <3>1. /\ verdict' = [verdict EXCEPT ![p] = "none"] /\ pc' = [pc EXCEPT ![p] = "closed"]
          /\ hload' = [hload EXCEPT ![p] = NoHead] /\ recs' = [recs EXCEPT ![p] = <<>>]
      BY <2>2 DEF Crash, Drop, Goto
    <3>. QED
      BY <1>0, <2>1, <3>1 DEF PassInv, VerdictsAtRest, PassMeansAcknowledged, TypeOK
  <2>3. CASE WriteFails(p) \/ HeadFails(p)
    <3>1. UNCHANGED <<verdict, hload, recs>> /\ pc' = [pc EXCEPT ![p] = "ready"]
      BY <2>3 DEF WriteFails, HeadFails, Return, Goto, handle
    <3>. QED
      BY <2>1, <3>1 DEF PassInv, VerdictsAtRest, PassMeansAcknowledged, TypeOK
  <2>. QED
    BY <1>2, <2>2, <2>3
<1>3. CASE PowerLoss
  BY <1>0, <1>3 DEF PowerLoss, PassInv, VerdictsAtRest, PassMeansAcknowledged
<1>4. CASE HeadLost \/ Edit \/ UNCHANGED vars \/ \E x \in Others : ForeignAppend(x)
  <2>1. UNCHANGED <<verdict, pc, hload, recs>> /\ heads \subseteq heads'
    BY <1>4 DEF HeadLost, Edit, ForeignAppend, vars, handle
  <2>. QED
    BY <2>1 DEF PassInv, VerdictsAtRest, PassMeansAcknowledged
<1>. QED
  BY <1>1, <1>2, <1>3, <1>4 DEF Next, Failure

\* verify_report passes a snapshot only when a head acknowledged all of it or
\* there was no head to compare with: in a ledger that is edited, cut and
\* damaged while it looks, too.
THEOREM PassIsEarned == Spec => []PassMeansAcknowledged
<1>1. Init => PassInv
  <2> SUFFICES ASSUME NEW st \in Stores, NEW x \in Others, InitFrom(st, x)
               PROVE  PassInv
    BY DEF Init
  <2>. QED
    BY DEF InitFrom, PassInv, VerdictsAtRest, PassMeansAcknowledged, Present, NoHead
<1>2. PassInv => PassMeansAcknowledged
  BY DEF PassInv
<1>. QED
  BY <1>1, <1>2, PassInvNext, TypeCorrect, HeadInvariant, PTL DEF Spec

-----------------------------------------------------------------------------
(* Retries *)

\* Nobody appends a payload of another process or of another program, nor twice
\* in one batch: payloads carry trace ids.
OwnPayloads ==
  \A p \in Proc : \A b \in Batches[p] :
    /\ \A i, j \in DOMAIN b : b[i] = b[j] => i = j
    /\ ToSet(b) \cap Others = {}
    /\ \A q \in Proc \ {p} : \A c \in Batches[q] : ToSet(b) \cap ToSet(c) = {}

\* What a head may name: what was there, what an append returned Ok for, and what
\* a killed caller never heard Ok for or is about to hear it for.
Nameable == Others \cup stored \cup unheard \cup Unheard(Proc)

\* No payload of s outside U comes twice in it.
Once(s, U) == \A i, j \in DOMAIN s : s[i] = s[j] /\ s[i] \notin U => i = j

\* Every head names a payload once, except what a killed caller never heard Ok
\* for; what is being appended has not been stored.
OnceInv ==
  /\ \A d \in heads : Present(d) /\ Once(d.at, unheard) /\ ToSet(d.at) \subseteq Nameable
  /\ \A p \in Proc : op[p] = "append" => ToSet(batch[p]) \cap stored = {}

\* A sequence that goes on with other elements, those of U apart.
LEMMA ConcatOnce ==
  ASSUME NEW S, NEW q \in Seq(S), NEW r \in Seq(S), NEW U,
         Once(q, U), Once(r, U), ToSet(q) \cap ToSet(r) \subseteq U
  PROVE  Once(q \o r, U) /\ ToSet(q \o r) = ToSet(q) \cup ToSet(r)
<1> DEFINE s == q \o r
           N == Len(q)
<1>0. /\ s \in Seq(S) /\ N \in Nat /\ Len(r) \in Nat /\ DOMAIN s = 1..N + Len(r)
      /\ DOMAIN q = 1..N /\ DOMAIN r = 1..Len(r)
      /\ (\A i \in 1..N : s[i] = q[i]) /\ (\A i \in 1..Len(r) : s[N + i] = r[i])
  OBVIOUS
<1> HIDE DEF s, N
<1>1. \A i \in DOMAIN s : i \in DOMAIN q \/ (i - N \in DOMAIN r /\ i = N + (i - N))
  BY <1>0
<1>2. \A i \in DOMAIN s : (i \in DOMAIN q /\ s[i] = q[i]) \/ (i - N \in DOMAIN r /\ s[i] = r[i-N])
  BY <1>0, <1>1
<1>3. \A i \in DOMAIN q, j \in DOMAIN r : q[i] = r[j] => q[i] \in U
  BY DEF ToSet
<1>4. ASSUME NEW i \in DOMAIN s, NEW j \in DOMAIN s, s[i] = s[j], s[i] \notin U
      PROVE  i = j
  <2>1. CASE i \in DOMAIN q /\ s[i] = q[i] /\ j \in DOMAIN q /\ s[j] = q[j]
    BY <1>4, <2>1 DEF Once
  <2>2. CASE i - N \in DOMAIN r /\ s[i] = r[i-N] /\ j - N \in DOMAIN r /\ s[j] = r[j-N]
    <3>1. i - N = j - N
      BY <1>4, <2>2 DEF Once
    <3>. QED
      BY <1>0, <3>1
  <2>3. CASE i \in DOMAIN q /\ s[i] = q[i] /\ j - N \in DOMAIN r /\ s[j] = r[j-N]
    BY <1>3, <1>4, <2>3
  <2>4. CASE i - N \in DOMAIN r /\ s[i] = r[i-N] /\ j \in DOMAIN q /\ s[j] = q[j]
    BY <1>3, <1>4, <2>4
  <2>. QED
    BY <1>2, <2>1, <2>2, <2>3, <2>4
<1>5. ToSet(s) \subseteq ToSet(q) \cup ToSet(r)
  BY <1>2 DEF ToSet
<1>6. ToSet(q) \subseteq ToSet(s)
  BY <1>0 DEF ToSet
<1>7. ToSet(r) \subseteq ToSet(s)
  <2>1. \A i \in DOMAIN r : N + i \in DOMAIN s /\ s[N + i] = r[i]
    BY <1>0
  <2>. QED
    BY <2>1 DEF ToSet
<1>8. Once(s, U)
  BY <1>4 DEF Once
<1>. QED
  BY <1>5, <1>6, <1>7, <1>8 DEF s

LEMMA OnceInvNext ==
  ASSUME OwnPayloads, Ops \cap {"accept", "reset"} = {}, "head" \notin Faults,
         TypeOK, HeadInv, OnceInv, [Next]_vars
  PROVE  OnceInv'
<1>0. /\ batch \in [Proc -> Seq(Payload)] /\ op \in [Proc -> Ops \cup {"none"}]
      /\ pc \in [Proc -> Stage]
      /\ head \in heads /\ Present(head) /\ ~Present(NoHead)
  BY DEF TypeOK, HeadInv, OnceInv, Present, NoHead
\* No head is written, and the batches that are appended are the old ones.
<1>1. ASSUME heads' \subseteq heads, stored' = stored,
             unheard \subseteq unheard', unheard \cup Unheard(Proc) \subseteq unheard' \cup Unheard(Proc)',
             \A p \in Proc : op'[p] = "append" =>
               \/ op[p] = "append" /\ batch'[p] = batch[p]
               \/ ToSet(batch'[p]) \cap stored = {}
      PROVE  OnceInv'
  <2>1. Nameable \subseteq Nameable'
    BY <1>1 DEF Nameable
  <2>. QED
    BY <1>1, <2>1 DEF OnceInv, Once
\* Nobody who is about to hear Ok is cut off.
<1>2. ASSUME \A q \in Proc : pc[q] = "headed" => pc'[q] = "headed" /\ batch'[q] = batch[q]
      PROVE  Unheard(Proc) \subseteq Unheard(Proc)'
  BY <1>2 DEF Unheard
<1>3. ASSUME NEW p \in Proc, HeadRename(p) PROVE OnceInv'
  <2> DEFINE b == batch[p]
  <2>0. b \in Seq(Payload) /\ recs[p] \in Seq(Payload)
    BY DEF TypeOK, Hash
  <2>1. /\ b \in Batches[p] \ {<<>>} /\ op[p] = "append" /\ pc[p] = "heading"
        /\ recs[p] = Before(p) \o b /\ head \in {NoHead, HeadAt(Before(p))}
    BY <1>3 DEF HeadRename, HeadInv, Appending
  <2>2. /\ head' = HeadAt(recs[p]) /\ heads' = heads \cup {head'} /\ pc' = [pc EXCEPT ![p] = "headed"]
        /\ UNCHANGED <<stored, unheard, op, batch>>
    BY <1>3 DEF HeadRename, HeadWritten, Goto, task
  <2>3. head = HeadAt(Before(p)) /\ head.at = Before(p)
    BY <1>0, <2>1 DEF HeadAt
  <2>4. Before(p) \in Seq(Payload)
    BY <1>0, <2>3, HeadCases DEF TypeOK, Hash
  <2>5. Unheard(Proc) = {}
    <3>1. ASSUME NEW q \in Proc, pc[q] = "headed" PROVE FALSE
      BY <2>1, <3>1 DEF HeadInv, Writers, Exclusive
    <3>. QED
      BY <3>1 DEF Unheard
  <2>6. Once(Before(p), unheard) /\ ToSet(Before(p)) \subseteq Others \cup stored \cup unheard
    BY <1>0, <2>3, <2>5 DEF OnceInv, Nameable
  <2>7. Once(b, unheard) /\ ToSet(b) \cap (Others \cup stored) = {}
    BY <2>1 DEF OwnPayloads, OnceInv, Once
  <2>8. ToSet(Before(p)) \cap ToSet(b) \subseteq unheard
    BY <2>6, <2>7
  <2>9. ToSet(b) \subseteq Unheard(Proc)'
    BY <1>0, <2>2 DEF Unheard
  <2> HIDE DEF b
  <2>10. Once(recs[p], unheard) /\ ToSet(recs[p]) = ToSet(Before(p)) \cup ToSet(b)
    BY <2>0, <2>1, <2>4, <2>6, <2>7, <2>8, ConcatOnce
  <2>11. Unheard(Proc) \subseteq Unheard(Proc)'
    BY <2>5
  <2>12. ASSUME NEW d \in heads'
         PROVE  Present(d) /\ Once(d.at, unheard') /\ ToSet(d.at) \subseteq Nameable'
    <3>1. CASE d \in heads
      BY <2>2, <2>11, <3>1 DEF OnceInv, Nameable
    <3>2. CASE d = HeadAt(recs[p])
      <4>1. Present(d) /\ d.at = recs[p]
        BY <3>2 DEF HeadAt, Present
      <4>2. ToSet(recs[p]) \subseteq Nameable'
        BY <2>2, <2>6, <2>9, <2>10 DEF Nameable
      <4>. QED
        BY <2>2, <2>10, <4>1, <4>2
    <3>. QED
      BY <2>2, <3>1, <3>2
  <2>. QED
    BY <2>2, <2>12 DEF OnceInv
<1>4. ASSUME NEW p \in Proc, AppendOk(p) PROVE OnceInv'
  <2>1. /\ batch[p] \in Batches[p] /\ pc[p] = "headed" /\ op[p] = "append" /\ heads' = heads
        /\ stored' = stored \cup ToSet(batch[p]) /\ unheard' = unheard
        /\ pc' = [pc EXCEPT ![p] = "ready"] /\ op' = [op EXCEPT ![p] = "none"]
        /\ batch' = [batch EXCEPT ![p] = <<>>]
    BY <1>4 DEF AppendOk, HeadInv, Appending, Return, Goto, disk
  <2>2. Nameable \subseteq Nameable'
    <3>1. Unheard(Proc) \subseteq ToSet(batch[p]) \cup Unheard(Proc)'
      BY <1>0, <2>1 DEF Unheard
    <3>. QED
      BY <2>1, <3>1 DEF Nameable
  <2>3. ASSUME NEW q \in Proc, op'[q] = "append"
        PROVE  ToSet(batch'[q]) \cap stored' = {}
    <3>1. q # p /\ op[q] = "append" /\ batch'[q] = batch[q]
      BY <1>0, <2>1, <2>3
    <3>2. ToSet(batch[q]) \cap stored = {} /\ batch[q] \in Batches[q]
      BY <3>1 DEF OnceInv, HeadInv, Appending
    <3>3. ToSet(batch[q]) \cap ToSet(batch[p]) = {}
      BY <2>1, <3>1, <3>2 DEF OwnPayloads
    <3>. QED
      BY <2>1, <3>1, <3>2, <3>3
  <2>. QED
    BY <2>1, <2>2, <2>3 DEF OnceInv
<1>5. ASSUME NEW p \in Proc, Step(p), ~HeadRename(p), ~AppendOk(p) PROVE OnceInv'
  <2>1. ~AcceptTail(p) /\ ~ResetHead(p)
    BY <1>0 DEF AcceptTail, ResetHead
  <2>2. UNCHANGED <<heads, stored, unheard>>
    BY <1>5, <2>1
    DEF Step, OpenHead, OpenLedger, OpenRefused, Close, StartAppend, StartPerson, Lock,
        LockBusy, SyncTail, SyncTailRefused, CheckHead, AppendRefused, WritePart, WriteLine,
        WriteDone, SyncData, AcceptRefused, VerifyNow, VerifyTail, LockShared,
        VerifyRecheck, disk
  <2>3. OnlyMoves(p)
    BY <1>5, StepIsLocal
  <2>4. pc[p] # "headed"
    BY <1>5, <2>1
    DEF Step, OpenHead, OpenLedger, OpenRefused, Close, StartAppend, StartPerson, Lock,
        LockBusy, SyncTail, SyncTailRefused, CheckHead, AppendRefused, WritePart, WriteLine,
        WriteDone, SyncData, AcceptRefused, VerifyNow, VerifyTail, LockShared, VerifyRecheck
  <2>5. Unheard(Proc) \subseteq Unheard(Proc)'
    BY <1>2, <2>3, <2>4 DEF OnlyMoves
  <2>6. CASE \E b \in Batches[p] : StartAppend(p, b)
    <3>1. ToSet(batch'[p]) \cap stored = {}
      BY <1>0, <2>6 DEF StartAppend
    <3>. QED
      BY <1>1, <2>2, <2>3, <2>5, <3>1 DEF OnlyMoves
  <2>7. CASE ~\E b \in Batches[p] : StartAppend(p, b)
    <3>1. op'[p] = "append" => op[p] = "append" /\ batch'[p] = batch[p]
      BY <1>0, <1>5, <2>1, <2>7
      DEF Step, OpenHead, OpenLedger, OpenRefused, Close, Drop, StartPerson, Lock,
          LockBusy, SyncTail, SyncTailRefused, CheckHead, AppendRefused, WritePart, WriteLine,
          WriteDone, SyncData, AcceptRefused, VerifyNow, VerifyTail, LockShared,
          VerifyRecheck, Return, task
    <3>. QED
      BY <1>1, <2>2, <2>3, <2>5, <3>1 DEF OnlyMoves
  <2>. QED
    BY <2>6, <2>7
<1>6. CASE Failure
  <2>1. CASE PowerLoss
    BY <1>0, <1>1, <2>1 DEF PowerLoss
  <2>2. ~HeadLost
    BY DEF HeadLost, Fault
  <2>3. ASSUME NEW p \in Proc, Crash(p) \/ WriteFails(p) \/ HeadFails(p) PROVE OnceInv'
    <3>1. UNCHANGED <<heads, stored>> /\ op' = [op EXCEPT ![p] = "none"]
          /\ batch' = [batch EXCEPT ![p] = <<>>]
          /\ \A q \in Proc \ {p} : pc'[q] = pc[q]
      BY <1>0, <2>3 DEF Crash, Drop, WriteFails, HeadFails, Return, Goto, disk
    <3>2. CASE Crash(p)
      <4>1. unheard' = unheard \cup Unheard({p})
        BY <3>2 DEF Crash
      <4>2. Unheard(Proc) \subseteq Unheard({p}) \cup Unheard(Proc)'
        BY <1>0, <3>1 DEF Unheard
      <4>. QED
        BY <1>0, <1>1, <3>1, <4>1, <4>2
    <3>3. CASE WriteFails(p) \/ HeadFails(p)
      <4>1. unheard' = unheard /\ pc[p] # "headed"
        BY <3>3 DEF WriteFails, HeadFails
      <4>2. Unheard(Proc) \subseteq Unheard(Proc)'
        BY <1>0, <1>2, <3>1, <4>1
      <4>. QED
        BY <1>0, <1>1, <3>1, <4>1, <4>2
    <3>. QED
      BY <2>3, <3>2, <3>3
  <2>4. CASE Edit \/ \E x \in Others : ForeignAppend(x)
    <3>1. UNCHANGED <<heads, stored, unheard, pc, op, batch>>
      BY <2>4 DEF Edit, ForeignAppend, task
    <3>. QED
      BY <1>1, <1>2, <3>1
  <2>. QED
    BY <1>6, <2>1, <2>2, <2>3, <2>4 DEF Failure
<1>7. CASE UNCHANGED vars
  BY <1>1, <1>2, <1>7 DEF vars
<1>. QED
  BY <1>3, <1>4, <1>5, <1>6, <1>7 DEF Next

\* A batch that is appended again after its append returned an error, or died
\* before its head update, is never acknowledged twice, whatever part of it is in
\* the file: in a store that has a head file, where no person accepts or resets
\* anything.  A caller killed between the head update and Ok is the exception.
THEOREM RetriesStoreOnce ==
  ASSUME OwnPayloads, Ops \cap {"accept", "reset"} = {}, "head" \notin Faults, Stores \subseteq {"acked"}
  PROVE  Spec => []NoSilentDuplicate
<1>1. Init => OnceInv
  <2> SUFFICES ASSUME NEW x \in Others, InitFrom("acked", x)
               PROVE  OnceInv
    BY DEF Init
  <2>1. heads = {HeadAt(<<x>>)} /\ \A p \in Proc : op[p] = "none"
    BY DEF InitFrom
  <2>2. Once(<<x>>, unheard) /\ ToSet(<<x>>) \subseteq Nameable
    BY DEF Once, Nameable, ToSet
  <2>. QED
    BY <2>1, <2>2 DEF OnceInv, HeadAt, Present
<1>2. HeadInv /\ OnceInv => NoSilentDuplicate
  BY DEF HeadInv, OnceInv, Once, NoSilentDuplicate
<1>. QED
  BY <1>1, <1>2, OnceInvNext, TypeCorrect, HeadInvariant, PTL DEF Spec

-----------------------------------------------------------------------------
(* A ledger that nothing happened to *)

\* The head d acknowledges the first n lines, and at least one.
Names(d, n) == n \in 1..Len(file) /\ d = HeadAt(Upto(n))

\* p has checked the head and not moved it yet.
InWrite(p) == pc[p] \in {"writing", "tearing", "written", "heading"}

\* Without faults the head names lines of the file, and all of them while nobody
\* is writing; what a handle remembers is behind that and behind what it replayed.
Quiet ==
  /\ LedgerInv
  /\ VerdictsAtRest
  /\ head = NoHead \/ \E n \in 1..Len(file) : Names(head, n)
  /\ (\A p \in Proc : ~InWrite(p)) => head \in {NoHead, HeadAt(Upto(Len(file)))}
  /\ \A p \in Proc :
       /\ verdict[p] # "alarm"
       /\ pc[p] \in {"vwant", "vhold"} => Present(hload[p])
       /\ hload[p] # NoHead =>
            /\ head # NoHead
            /\ \E n \in 1..Len(file) : Names(hload[p], n) /\ (pc[p] \notin {"closed", "opening"} => n <= off[p])

\* A step keeps the lines there are, and adds some only while writing.
LEMMA LinesGrow ==
  ASSUME TypeOK, LedgerInv, NEW p \in Proc, Step(p)
  PROVE  /\ Grows /\ Len(file) \in Nat /\ Len(file') \in Nat
         /\ file' = file \/ (InWrite(p)' /\ UNCHANGED <<head, hload, off>>)
<1>0. Len(file) \in Nat /\ file \in Seq(Hash) /\ pc \in [Proc -> Stage]
  BY DEF TypeOK
<1>1. ASSUME NEW line, file' = Append(file, line)
      PROVE  Grows /\ Len(file') \in Nat
  <2>1. Len(file') = Len(file) + 1 /\ \A i \in 1..Len(file) : file'[i] = file[i]
    BY <1>0, <1>1
  <2>. QED
    BY <1>0, <2>1 DEF Grows
<1>2. file' = file => Grows
  BY <1>0 DEF Grows
<1>3. CASE WritePart(p)
  <2>1. file' = file \/ file' = Append(file, NextLine(p))
    BY <1>3 DEF WritePart
  <2>2. InWrite(p)' /\ UNCHANGED <<head, hload, off>>
    BY <1>0, <1>3 DEF WritePart, Goto, InWrite, handle
  <2>. QED
    BY <1>0, <1>1, <1>2, <2>1, <2>2
<1>4. CASE WriteLine(p)
  <2>1. pc[p] = "writing" => frag = "none"
    BY DEF LedgerInv, StageInv
  <2>2. file' = file \/ file' = Append(file, NextLine(p))
    BY <1>4, <2>1 DEF WriteLine
  <2>3. InWrite(p)' /\ UNCHANGED <<head, hload, off>>
    BY <1>0, <1>4 DEF WriteLine, Goto, InWrite, handle
  <2>. QED
    BY <1>0, <1>1, <1>2, <2>2, <2>3
<1>5. CASE ~(WritePart(p) \/ WriteLine(p))
  <2>1. file' = file
    BY <1>5
    DEF Step, OpenHead, OpenLedger, OpenRefused, Close, StartAppend, StartPerson, Lock,
        LockBusy, SyncTail, SyncTailRefused, CheckHead, AppendRefused,
        WriteDone, SyncData, HeadRename, AppendOk, AcceptTail, AcceptRefused, ResetHead,
        VerifyNow, VerifyTail, LockShared, VerifyRecheck, disk
  <2>. QED
    BY <1>0, <1>2, <2>1
<1>. QED
  BY <1>0, <1>3, <1>4, <1>5

\* What a head names it still names when the file has grown.
LEMMA NamesStays ==
  ASSUME Grows, Len(file) \in Nat, Len(file') \in Nat, NEW n \in 1..Len(file)
  PROVE  n \in 1..Len(file') /\ Upto(n)' = Upto(n)
BY DEF Grows, Upto

\* A step of p leaves the head, or p makes it name every line, or takes it away
\* from an empty file.
LEMMA QuietHead ==
  ASSUME TypeOK, HeadInv, Quiet, NEW p \in Proc, Step(p)
  PROVE  \/ /\ head' = head /\ (InWrite(p) => InWrite(p)')
            /\ hload'[p] \in {hload[p], NoHead} \/ (hload'[p] = head /\ pc'[p] = "opening")
         \/ /\ Names(head', Len(file)) /\ hload'[p] = head' /\ off'[p] = Len(file)
            /\ UNCHANGED file
         \/ /\ file = <<>> /\ UNCHANGED file /\ head' = NoHead /\ hload'[p] = NoHead
<1>0. /\ Len(file) \in Nat /\ hload \in [Proc -> HeadFile] /\ off \in [Proc -> Nat]
      /\ recs \in [Proc -> Seq(Payload)] /\ pc \in [Proc -> Stage] /\ batch[p] \in Seq(Payload)
  BY DEF TypeOK, Hash
<1>1. Replayed(p) /\ StageInv(p)
  BY DEF Quiet, LedgerInv
<1>2. ASSUME HeadWritten(p), pc[p] \in {"synced", "heading"}, recs[p] # <<>>, UNCHANGED <<file, off>>
      PROVE  /\ Names(head', Len(file)) /\ hload'[p] = head' /\ off'[p] = Len(file)
             /\ UNCHANGED file
  <2>1. off[p] = Len(file) /\ recs[p] = Upto(Len(file))
    BY <1>1, <1>2 DEF Replayed, StageInv
  <2>2. Len(file) # 0
    BY <1>2, <2>1 DEF Upto
  <2>. QED
    BY <1>0, <1>2, <2>1, <2>2 DEF HeadWritten, Names
<1>3. CASE HeadRename(p)
  <2>1. recs[p] = Before(p) \o batch[p] /\ batch[p] # <<>>
    BY <1>3 DEF HeadRename, HeadInv, Appending
  <2>2. recs[p] # <<>>
    <3>1. Before(p) \in Seq(Payload) /\ Len(batch[p]) > 0
      BY <1>0, <2>1, BeforeType
    <3>2. Len(recs[p]) > 0
      BY <1>0, <2>1, <3>1
    <3>. QED
      BY <3>2
  <2>. QED
    BY <1>2, <1>3, <2>2 DEF HeadRename
<1>4. CASE AcceptTail(p)
  <2>1. CASE head.at = recs[p]
    BY <1>4, <2>1 DEF AcceptTail, InWrite
  <2>2. CASE head.at # recs[p]
    <3>1. recs[p] # <<>>
      <4>1. PICK n \in 1..Len(file) : head = HeadAt(Upto(n))
        BY <1>4 DEF AcceptTail, Quiet, Names, Present, NoHead
      <4>2. head.at = Upto(n) /\ Upto(n) \in Seq(Payload) /\ Len(Upto(n)) = n
        BY <1>0, <4>1, UptoLen DEF HeadAt, Quiet, LedgerInv, Hash
      <4>. QED
        BY <1>0, <1>4, <4>2 DEF AcceptTail, IsPrefix
    <3>. QED
      BY <1>2, <1>4, <2>2, <3>1 DEF AcceptTail
  <2>. QED
    BY <2>1, <2>2
<1>5. CASE ResetHead(p)
  <2>1. CASE recs[p] = <<>>
    <3>1. off[p] = Len(file) /\ recs[p] = Upto(Len(file))
      BY <1>1, <1>5 DEF Replayed, StageInv, ResetHead
    <3>2. Len(file) = 0
      <4>1. Len(Upto(Len(file))) = Len(file)
        BY <1>0, UptoLen DEF Quiet, LedgerInv
      <4>. QED
        BY <2>1, <3>1, <4>1
    <3>3. file = <<>>
      BY <3>2 DEF TypeOK
    <3>. QED
      BY <1>0, <1>5, <2>1, <3>3 DEF ResetHead
  <2>2. CASE recs[p] # <<>>
    BY <1>2, <1>5, <2>2 DEF ResetHead
  <2>. QED
    BY <2>1, <2>2
<1>6. CASE OpenHead(p)
  BY <1>0, <1>6 DEF OpenHead, Goto, InWrite, disk
<1>7. CASE OpenRefused(p) \/ Close(p)
  BY <1>0, <1>7 DEF OpenRefused, Close, Drop, InWrite, disk
<1>8. CASE OpenLedger(p) \/ (\E b \in Batches[p] : StartAppend(p, b))
           \/ (\E o \in {"accept", "reset"} : StartPerson(p, o)) \/ Lock(p) \/ LockBusy(p)
           \/ SyncTail(p) \/ SyncTailRefused(p) \/ CheckHead(p) \/ AppendRefused(p) \/ AppendOk(p)
           \/ AcceptRefused(p) \/ VerifyNow(p) \/ VerifyTail(p) \/ LockShared(p) \/ VerifyRecheck(p)
  <2>1. UNCHANGED <<head, hload>> /\ ~InWrite(p)
    BY <1>8
    DEF OpenLedger, StartAppend, StartPerson, Lock, LockBusy, SyncTail, SyncTailRefused,
        CheckHead, AppendRefused, AppendOk, AcceptRefused, VerifyNow, VerifyTail, LockShared,
        VerifyRecheck, InWrite, disk, handle
  <2>. QED
    BY <2>1
<1>9. CASE WritePart(p) \/ WriteLine(p) \/ WriteDone(p) \/ SyncData(p)
  <2>1. UNCHANGED <<head, hload>> /\ InWrite(p)'
    BY <1>0, <1>9 DEF WritePart, WriteLine, WriteDone, SyncData, Goto, InWrite, disk, handle
  <2>. QED
    BY <2>1
<1>. QED
  BY <1>3, <1>4, <1>5, <1>6, <1>7, <1>8, <1>9 DEF Step

\* An open handle has replayed no less than before, a new one everything.
LEMMA OffMoves ==
  ASSUME TypeOK, NEW p \in Proc, Step(p), pc'[p] \notin {"closed", "opening"}
  PROVE  off'[p] = Len(file) \/ (pc[p] \notin {"closed", "opening"} /\ off[p] <= off'[p])
<1>0. off \in [Proc -> Nat] /\ pc \in [Proc -> Stage] /\ Len(batch[p]) \in Nat
  BY DEF TypeOK
<1>1. CASE OpenHead(p) \/ OpenRefused(p) \/ Close(p)
  BY <1>0, <1>1 DEF OpenHead, OpenRefused, Close, Drop, Goto
<1>2. CASE OpenLedger(p) \/ SyncTail(p)
  BY <1>0, <1>2 DEF OpenLedger, SyncTail
<1>3. CASE SyncData(p)
  <2>1. off'[p] = off[p] + Len(batch[p]) /\ pc[p] = "written"
    BY <1>0, <1>3 DEF SyncData
  <2>. QED
    BY <1>0, <2>1
<1>4. CASE SyncTailRefused(p)
  BY <1>0, <1>4 DEF SyncTailRefused
<1>5. CASE ~(OpenHead(p) \/ OpenRefused(p) \/ Close(p) \/ OpenLedger(p) \/ SyncTail(p)
             \/ SyncTailRefused(p) \/ SyncData(p))
  <2>1. off' = off /\ pc[p] \notin {"closed", "opening"}
    BY <1>5
    DEF Step, StartAppend, StartPerson, Lock, LockBusy, CheckHead, AppendRefused, WritePart,
        WriteLine, WriteDone, HeadRename, AppendOk, AcceptTail, AcceptRefused, ResetHead,
        VerifyNow, VerifyTail, LockShared, VerifyRecheck, handle
  <2>. QED
    BY <1>0, <2>1
<1>. QED
  BY <1>1, <1>2, <1>3, <1>4, <1>5

\* In a quiet ledger verify_report finds nothing wrong: what the handle remembers
\* is behind what it replayed, and the head that is in place while nobody writes
\* covers that.
LEMMA QuietVerdict ==
  ASSUME TypeOK, HeadInv, Quiet, NEW p \in Proc, VerifyNow(p) \/ VerifyRecheck(p)
  PROVE  verdict'[p] # "alarm"
<1>0. /\ Len(file) \in Nat /\ off[p] \in Nat /\ verdict \in [Proc -> {"none", "ok", "alarm"}]
      /\ Loadable /\ off[p] <= Len(file) /\ recs[p] = Upto(off[p])
  BY DEF TypeOK, Quiet, LedgerInv, Replayed
<1>1. CASE VerifyNow(p)
  <2>1. SUFFICES ASSUME verdict'[p] = "alarm" PROVE FALSE
    OBVIOUS
  <2>2. hload[p] = BadHead \/ (Present(hload[p]) /\ ~IsPrefix(hload[p].at, recs[p]))
    BY <1>0, <1>1, <2>1 DEF VerifyNow, Verdict
  <2>3. hload[p] # NoHead /\ pc[p] = "ready"
    BY <1>1, <2>2 DEF VerifyNow, BadHead, NoHead, Present
  <2>4. PICK n \in 1..Len(file) : hload[p] = HeadAt(Upto(n)) /\ n <= off[p]
    BY <2>3 DEF Quiet, Names
  <2>5. hload[p].at = Upto(n) /\ hload[p] # BadHead
    BY <2>4 DEF HeadAt, BadHead
  <2>6. n \in 0..Len(file) /\ off[p] \in n..Len(file)
    BY <1>0, <2>4
  <2>7. IsPrefix(Upto(n), recs[p])
    BY <1>0, <2>6, UptoPrefix
  <2>. QED
    BY <2>2, <2>5, <2>7
<1>2. CASE VerifyRecheck(p)
  <2>1. pc[p] = "vhold" /\ p \in Sharers
    BY <1>2 DEF VerifyRecheck, Sharers
  <2>2. \A q \in Proc : ~InWrite(q)
    BY <2>1 DEF HeadInv, Writers, InWrite, Exclusive
  <2>3. hload[p] # NoHead
    BY <2>1 DEF Quiet, Present, NoHead
  <2>4. PICK n \in 1..Len(file) : Names(hload[p], n) /\ n <= off[p]
    BY <2>1, <2>3 DEF Quiet
  <2>5. head = HeadAt(Upto(Len(file)))
    BY <2>2, <2>3 DEF Quiet
  <2>6. off[p] \in 1..Len(file) /\ Len(recs[p]) = off[p] /\ Len(file) # 0
    BY <1>0, <2>4, UptoLen
  <2>7. Present(head) /\ head.at = file[Len(file)] /\ Len(head.at) = Len(file)
    <3>1. Present(head) /\ head.at = Upto(Len(file))
      BY <2>5 DEF HeadAt, Present
    <3>2. Len(Upto(Len(file))) = Len(file)
      BY <1>0, UptoLen
    <3>. QED
      BY <2>6, <3>1, <3>2 DEF Upto
  <2>8. Confirmed(p)
    <3>1. CASE off[p] = Len(file)
      BY <1>0, <2>5, <3>1 DEF Confirmed
    <3>2. CASE off[p] # Len(file)
      <4>1. off[p] < Len(file) /\ file[off[p]] = recs[p]
        BY <1>0, <2>6, <3>2 DEF Upto
      <4>. QED
        BY <1>0, <2>6, <2>7, <4>1 DEF Confirmed, Covers
    <3>. QED
      BY <3>1, <3>2
  <2>. QED
    BY <1>0, <1>2, <2>8 DEF VerifyRecheck, Verdict
<1>. QED
  BY <1>1, <1>2

LEMMA QuietKept ==
  ASSUME TypeOK, HeadInv, Quiet, NEW p \in Proc, Step(p)
  PROVE  Quiet'
<1>0. /\ OnlyMoves(p) /\ Grows /\ Len(file) \in Nat /\ Len(file') \in Nat
      /\ file' = file \/ (InWrite(p)' /\ UNCHANGED <<head, hload, off>>)
      /\ pc \in [Proc -> Stage] /\ verdict \in [Proc -> {"none", "ok", "alarm"}] /\ off[p] \in Nat
  BY StepIsLocal, LinesGrow DEF Quiet, TypeOK
<1>1. LedgerInv'
  BY InvStep DEF Quiet
<1>2. VerdictsAtRest' /\ verdict'[p] # "alarm"
  <2>1. CASE VerifyNow(p) \/ VerifyRecheck(p)
    <3>1. pc'[p] = "ready"
      BY <1>0, <2>1 DEF VerifyNow, VerifyRecheck, Return, Goto
    <3>2. verdict'[p] # "alarm"
      BY <2>1, QuietVerdict
    <3>. QED
      BY <1>0, <3>1, <3>2 DEF Quiet, VerdictsAtRest, OnlyMoves
  <2>2. CASE verdict'[p] = "none"
    BY <1>0, <2>2 DEF Quiet, VerdictsAtRest, OnlyMoves
  <2>. QED
    BY <2>1, <2>2, VerdictMoves DEF Quiet
<1>3. \/ /\ head' = head /\ (InWrite(p) => InWrite(p)')
         /\ hload'[p] \in {hload[p], NoHead} \/ (hload'[p] = head /\ pc'[p] = "opening")
      \/ /\ Names(head', Len(file)) /\ hload'[p] = head' /\ off'[p] = Len(file) /\ UNCHANGED file
      \/ /\ file = <<>> /\ UNCHANGED file /\ head' = NoHead /\ hload'[p] = NoHead
  BY QuietHead
<1>4. \A h : HeadAt(h) # NoHead
  BY DEF HeadAt, NoHead
<1>5. head' = NoHead \/ \E n \in 1..Len(file') : Names(head, n)'
  <2>1. CASE head' = head
    <3>1. CASE head = NoHead
      BY <2>1, <3>1
    <3>2. CASE head # NoHead
      <4>1. PICK n \in 1..Len(file) : head = HeadAt(Upto(n))
        BY <3>2 DEF Quiet, Names
      <4>2. n \in 1..Len(file') /\ head' = HeadAt(Upto(n))'
        BY <1>0, <2>1, <4>1, NamesStays DEF HeadAt
      <4>. QED
        BY <4>2 DEF Names
    <3>. QED
      BY <3>1, <3>2
  <2>2. CASE Names(head', Len(file)) /\ UNCHANGED file
    <3>1. Len(file') \in 1..Len(file') /\ head' = HeadAt(Upto(Len(file)))
      BY <2>2 DEF Names
    <3>2. head' = HeadAt(Upto(Len(file)))'
      BY <2>2, <3>1 DEF Upto, HeadAt
    <3>. QED
      BY <2>2, <3>1, <3>2 DEF Names
  <2>. QED
    BY <1>3, <2>1, <2>2
<1>6. (\A q \in Proc : ~InWrite(q)') => head' \in {NoHead, HeadAt(Upto(Len(file)))'}
  <2> SUFFICES ASSUME \A q \in Proc : ~InWrite(q)'
               PROVE  head' \in {NoHead, HeadAt(Upto(Len(file)))'}
    OBVIOUS
  <2>1. file' = file
    BY <1>0
  <2>2. CASE head' = head /\ (InWrite(p) => InWrite(p)')
    <3>1. \A q \in Proc : ~InWrite(q)
      BY <1>0, <2>2 DEF OnlyMoves, InWrite
    <3>. QED
      BY <2>1, <2>2, <3>1 DEF Quiet, Upto, HeadAt
  <2>3. CASE Names(head', Len(file))
    BY <2>1, <2>3 DEF Names, Upto, HeadAt
  <2>. QED
    BY <1>3, <2>2, <2>3
\* A head that was there stays, for the file is not empty.
<1>7. ASSUME NEW n \in 1..Len(file) PROVE head # NoHead => head' # NoHead
  BY <1>3, <1>4, <1>7 DEF Names
\* What a handle remembers stays named, for lines are only added.
<1>8. ASSUME NEW q \in Proc, hload[q] # NoHead
      PROVE  /\ head # NoHead /\ head' # NoHead
             /\ \E n \in 1..Len(file') :
                  /\ n \in 1..Len(file) /\ hload[q] = HeadAt(Upto(n)')
                  /\ pc[q] \notin {"closed", "opening"} => n <= off[q]
  <2>1. PICK n \in 1..Len(file) :
          /\ head # NoHead /\ hload[q] = HeadAt(Upto(n))
          /\ pc[q] \notin {"closed", "opening"} => n <= off[q]
    BY <1>8 DEF Quiet, Names
  <2>2. n \in 1..Len(file') /\ Upto(n)' = Upto(n)
    BY <1>0, NamesStays
  <2>. QED
    BY <1>7, <2>1, <2>2
\* What Quiet says of q.
<1> DEFINE Settled(q) ==
             /\ verdict'[q] # "alarm"
             /\ pc'[q] \in {"vwant", "vhold"} => Present(hload'[q])
             /\ hload'[q] # NoHead =>
                  /\ head' # NoHead
                  /\ \E n \in 1..Len(file') :
                       /\ hload'[q] = HeadAt(Upto(n)')
                       /\ pc'[q] \notin {"closed", "opening"} => n <= off'[q]
<1>9. ASSUME NEW q \in Proc \ {p} PROVE Settled(q)
  <2>1. pc'[q] = pc[q] /\ verdict'[q] = verdict[q] /\ hload'[q] = hload[q] /\ off'[q] = off[q]
    BY <1>0 DEF OnlyMoves
  <2>2. verdict[q] # "alarm" /\ (pc[q] \in {"vwant", "vhold"} => Present(hload[q]))
    BY DEF Quiet
  <2>3. CASE hload[q] = NoHead
    BY <2>1, <2>2, <2>3
  <2>4. CASE hload[q] # NoHead
    BY <1>8, <2>1, <2>2, <2>4
  <2>. QED
    BY <2>3, <2>4
<1>10. pc'[p] \in {"vwant", "vhold"} => Present(hload'[p])
  <2>1. CASE VerifyTail(p) \/ LockShared(p)
    BY <2>1 DEF VerifyTail, LockShared, Quiet, handle
  <2>2. CASE ~(VerifyTail(p) \/ LockShared(p))
    BY <1>0, <2>2
    DEF Step, OpenHead, OpenLedger, OpenRefused, Close, Drop, StartAppend, StartPerson, Lock,
        LockBusy, SyncTail, SyncTailRefused, CheckHead, AppendRefused, WritePart, WriteLine,
        WriteDone, SyncData, HeadRename, AppendOk, AcceptTail, AcceptRefused, ResetHead,
        VerifyNow, VerifyRecheck, Return, Goto
  <2>. QED
    BY <2>1, <2>2
<1>11. hload'[p] # NoHead =>
         /\ head' # NoHead
         /\ \E n \in 1..Len(file') :
              /\ hload'[p] = HeadAt(Upto(n)')
              /\ pc'[p] \notin {"closed", "opening"} => n <= off'[p]
  <2> SUFFICES ASSUME hload'[p] # NoHead
               PROVE  /\ head' # NoHead
                      /\ \E n \in 1..Len(file') :
                           /\ hload'[p] = HeadAt(Upto(n)')
                           /\ pc'[p] \notin {"closed", "opening"} => n <= off'[p]
    OBVIOUS
  <2>1. CASE hload'[p] = hload[p] /\ hload[p] # NoHead
    <3>1. PICK n \in 1..Len(file') :
            /\ n \in 1..Len(file) /\ hload[p] = HeadAt(Upto(n)')
            /\ pc[p] \notin {"closed", "opening"} => n <= off[p]
      BY <1>8, <2>1
    <3>2. head' # NoHead
      BY <1>8, <2>1
    <3>3. pc'[p] \notin {"closed", "opening"} => n <= off'[p]
      <4>1. off'[p] \in Nat
        BY TypeStep DEF TypeOK
      <4>. QED
        BY <1>0, <3>1, <4>1, OffMoves
    <3>. QED
      BY <2>1, <3>1, <3>2, <3>3
  <2>2. CASE head' = head /\ hload'[p] = head /\ pc'[p] = "opening"
    <3>1. PICK n \in 1..Len(file') : Names(head, n)'
      BY <1>5, <2>2
    <3>2. hload'[p] = HeadAt(Upto(n)')
      BY <2>2, <3>1 DEF Names, HeadAt
    <3>. QED
      BY <2>2, <3>2
  <2>3. CASE Names(head', Len(file)) /\ hload'[p] = head' /\ off'[p] = Len(file) /\ UNCHANGED file
    <3>1. head' = HeadAt(Upto(Len(file))) /\ Len(file) \in 1..Len(file)
      BY <2>3 DEF Names
    <3> DEFINE m == Len(file)
    <3>2. m \in 1..Len(file') /\ hload'[p] = HeadAt(Upto(m)') /\ m <= off'[p]
      <4>1. Upto(Len(file))' = Upto(Len(file))
        BY <2>3 DEF Upto
      <4>. QED
        BY <1>0, <2>3, <3>1, <4>1 DEF HeadAt
    <3>. QED
      BY <1>4, <2>3, <3>1, <3>2
  <2>. QED
    BY <1>3, <2>1, <2>2, <2>3
<1>12. \A q \in Proc : Settled(q)
  BY <1>2, <1>9, <1>10, <1>11
<1>. QED
  BY <1>1, <1>2, <1>5, <1>6, <1>12 DEF Quiet, Names, HeadAt

\* Nothing has happened to the store yet.
LEMMA QuietInit == Init => Quiet
<1> SUFFICES ASSUME NEW st \in Stores, NEW x \in Others, InitFrom(st, x)
             PROVE  Quiet
  BY DEF Init
<1>1. LedgerInv
  BY InvInit DEF Init
<1>2. /\ head = NoHead \/ \E n \in 1..Len(file) : Names(head, n)
      /\ head \in {NoHead, HeadAt(Upto(Len(file)))}
  <2>1. CASE st = "acked"
    <3>1. file = << <<x>> >> /\ head = HeadAt(<<x>>)
      BY <2>1 DEF InitFrom
    <3>2. Len(file) = 1 /\ file[1] = <<x>>
      BY <3>1
    <3>3. 1 \in 1..Len(file) /\ head = HeadAt(Upto(1))
      BY <3>1, <3>2 DEF Upto
    <3>. QED
      BY <3>2, <3>3 DEF Names
  <2>2. CASE st # "acked"
    BY <2>2 DEF InitFrom
  <2>. QED
    BY <2>1, <2>2
<1>3. VerdictsAtRest /\ \A p \in Proc : verdict[p] = "none" /\ pc[p] = "closed" /\ hload[p] = NoHead
  BY DEF InitFrom, VerdictsAtRest
<1>. QED
  BY <1>1, <1>2, <1>3 DEF Quiet

\* However readers and writers interleave, verify_report reports no problem in a
\* ledger that nothing happened to: a handle that read the head before the lines,
\* or while a batch was between its lines and its head, waits for that writer and
\* finds its snapshot acknowledged.
THEOREM NoFalseAlarmEver == Spec => []NoFalseAlarm
<1>1. Init => (faults = 0 => Quiet)
  BY QuietInit
<1>2. TypeOK /\ HeadInv /\ (faults = 0 => Quiet) /\ [Next]_vars => (faults = 0 => Quiet)'
  <2> SUFFICES ASSUME TypeOK, HeadInv, faults = 0 => Quiet, [Next]_vars, faults' = 0
               PROVE  Quiet'
    OBVIOUS
  <2>1. CASE Failure
    <3>1. faults' = faults + 1 /\ faults \in Nat
      BY <2>1
      DEF TypeOK, Failure, Crash, WriteFails, HeadFails, PowerLoss, ForeignAppend, Edit, HeadLost, Fault
    <3>. QED
      BY <3>1
  <2>2. ASSUME NEW p \in Proc, Step(p) PROVE Quiet'
    <3>1. faults' = faults
      BY <2>2
      DEF Step, OpenHead, OpenLedger, OpenRefused, Close, StartAppend, StartPerson, Lock, LockBusy,
          SyncTail, SyncTailRefused, CheckHead, AppendRefused, WritePart, WriteLine, WriteDone,
          SyncData, HeadRename, AppendOk, AcceptTail, AcceptRefused, ResetHead, VerifyNow,
          VerifyTail, LockShared, VerifyRecheck
    <3>. QED
      BY <2>2, <3>1, QuietKept
  <2>3. CASE UNCHANGED vars
    <3>1. Quiet
      BY <2>3 DEF vars
    <3>2. LedgerInv'
      BY <2>3, <3>1, InvStutter DEF Quiet
    <3>. QED
      BY <2>3, <3>1, <3>2 DEF vars, Quiet, VerdictsAtRest, Names, Upto, InWrite
  <2>. QED
    BY <2>1, <2>2, <2>3 DEF Next
<1>3. (faults = 0 => Quiet) => NoFalseAlarm
  BY DEF Quiet, NoFalseAlarm
<1>. QED
  BY <1>1, <1>2, <1>3, TypeCorrect, HeadInvariant, PTL DEF Spec

=============================================================================
