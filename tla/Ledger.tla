------------------------------- MODULE Ledger -------------------------------
(***************************************************************************)
(* The storage protocol of the append-only memory ledger (ledger.rs):      *)
(* processes that share one JSONL file, its <store>.head sidecar and its   *)
(* <store>.lock sidecar, each through a MemoryStore handle of its own.     *)
(*                                                                         *)
(* A record's hash commits to its sequence number, the previous hash and   *)
(* its payload, so it is modelled by the sequence of all payloads up to    *)
(* the record: `file[i]' is the hash of line i, its length is the record's *)
(* seq, its Front is prev_hash and its last element the payload.  Equal    *)
(* hashes are equal prefixes (no collisions).  A handle's records are the  *)
(* hash of its last record, since every earlier one is a prefix of it.     *)
(***************************************************************************)
EXTENDS Naturals, Sequences, FiniteSets, SequencesExt

CONSTANTS
  Proc,         \* processes: CLI commands, hooks, python clients
  Payload,      \* event payloads (what an event means is Traces.tla's subject)
  Others,       \* payloads of earlier sessions and of other programs
  Batches,      \* Batches[p]: the batches of payloads p may append
  Nonblocking,  \* processes that called set_nonblocking_writes(true)
  Ops,          \* the operations callers use: a subset of AllOps
  Faults,       \* the faults that may happen: a subset of AllFaults
  Stores,       \* the kinds of store the behaviour may start from
  MaxLen,       \* bound: no append starts that would pass this many lines
  MaxFaults     \* bound: at most this many faults

AllOps    == {"append", "accept", "reset", "verify"}
AllFaults == {"crash", "io", "power", "foreign", "edit", "head"}
AllStores == {"fresh", "legacy", "acked", "alien"}

ASSUME LedgerAssumption ==
  /\ Others # {} /\ Others \subseteq Payload
  /\ Batches \in [Proc -> SUBSET Seq(Payload)]
  /\ Nonblocking \subseteq Proc
  /\ Ops \subseteq AllOps
  /\ Faults \subseteq AllFaults
  /\ Stores \subseteq AllStores
  /\ MaxLen \in Nat
  /\ MaxFaults \in Nat

VARIABLES
  file,     \* the complete lines of the ledger, each its hash
  frag,     \* the bytes after the last newline: none, torn, bare, alien
  synced,   \* how many leading lines a power loss cannot take
  head,     \* what read_head returns
  heads,    \* every head a power loss may leave in place (renames are not fsynced)
  pc,       \* where each process is
  op,       \* the operation it is in
  recs,     \* its handle: hash of the last replayed record (<<>> = genesis)
  off,      \* its handle: lines before MemoryStore.offset
  hload,    \* its handle: head_at_load
  batch,    \* the payloads it is appending
  wrote,    \* how many lines of the batch are complete in the file
  verdict,  \* result of its last verify_report
  stored,   \* history: payloads whose append returned Ok
  unheard,  \* history: payloads whose caller died after the head named them,
            \* before it heard Ok
  done,     \* history: the longest ledger whose append returned Ok
  faults    \* history: faults so far

handle == <<recs, off, hload>>
disk   == <<file, frag, synced, head, heads>>
task   == <<batch, wrote>>
vars   == <<file, frag, synced, head, heads, pc, op, recs, off, hload, batch,
            wrote, verdict, stored, unheard, done, faults>>

-----------------------------------------------------------------------------
(* Hashes, lines and heads *)

Hash == Seq(Payload)

\* A line that does not parse: no record has the empty sequence as its hash.
Junk == <<>>

HeadFile   == [state : {"missing", "unreadable", "present"}, at : Hash]
NoHead     == [state |-> "missing", at |-> <<>>]
BadHead    == [state |-> "unreadable", at |-> <<>>]
HeadAt(h)  == [state |-> "present", at |-> h]
Present(d) == d.state = "present"

\* The hash after replaying `lines' from a handle whose last hash is h.
EndOf(h, lines) == IF lines = <<>> THEN h ELSE lines[Len(lines)]

\* The hash line i has to name as its prev_hash.
Prev(h, lines, i) == IF i = 1 THEN h ELSE lines[i-1]

\* replay_line accepts each line: the next seq, and the previous line's hash.
Chains(h, lines) ==
  \A i \in 1..Len(lines) :
    /\ Len(lines[i]) = Len(h) + i
    /\ IsPrefix(Prev(h, lines, i), lines[i])

Loadable == Chains(<<>>, file)

\* The ledger still holds every record head d names, unchanged.
Covers(lines, d) ==
  Present(d) => /\ Len(d.at) <= Len(lines)
                /\ Len(d.at) > 0 => lines[Len(d.at)] = d.at

-----------------------------------------------------------------------------
(* Program counters and the two file locks *)

\* From lock.lock() in open_locked to the end of the operation, where the
\* lock file is dropped.
Exclusive == {"locked", "synced", "writing", "tearing", "written", "heading", "headed"}
Stage     == {"closed", "opening", "ready", "want", "vwant", "vhold"} \cup Exclusive

Writers == {p \in Proc : pc[p] \in Exclusive}
Sharers == {p \in Proc : pc[p] = "vhold"}

Goto(p, s) == pc' = [pc EXCEPT ![p] = s]

\* The operation ends: the file handles are dropped, which unlocks.
Return(p) == /\ Goto(p, "ready")
             /\ op' = [op EXCEPT ![p] = "none"]
             /\ batch' = [batch EXCEPT ![p] = <<>>]
             /\ wrote' = [wrote EXCEPT ![p] = 0]

TypeOK ==
  /\ file \in Seq(Hash)
  /\ frag \in {"none", "torn", "bare", "alien"}
  /\ synced \in 0..Len(file)
  /\ head \in HeadFile
  /\ heads \subseteq HeadFile
  /\ pc \in [Proc -> Stage]
  /\ op \in [Proc -> Ops \cup {"none"}]
  /\ recs \in [Proc -> Hash]
  /\ off \in [Proc -> Nat]
  /\ hload \in [Proc -> HeadFile]
  /\ batch \in [Proc -> Seq(Payload)]
  /\ wrote \in [Proc -> Nat]
  /\ verdict \in [Proc -> {"none", "ok", "alarm"}]
  /\ stored \subseteq Payload
  /\ unheard \subseteq Payload
  /\ done \in Hash
  /\ faults \in Nat

\* fresh: no file yet.  legacy: records, no head file (written before heads
\* existed, or the head was lost).  acked: one completed write.  alien: a
\* text file that is not a ledger.
InitFrom(st, x) ==
  /\ file = IF st \in {"legacy", "acked"} THEN << <<x>> >> ELSE <<>>
  /\ frag = IF st = "alien" THEN "alien" ELSE "none"
  /\ synced = Len(file)
  /\ head = IF st = "acked" THEN HeadAt(<<x>>) ELSE NoHead
  /\ heads = {head}
  /\ pc = [p \in Proc |-> "closed"]
  /\ op = [p \in Proc |-> "none"]
  /\ recs = [p \in Proc |-> <<>>]
  /\ off = [p \in Proc |-> 0]
  /\ hload = [p \in Proc |-> NoHead]
  /\ batch = [p \in Proc |-> <<>>]
  /\ wrote = [p \in Proc |-> 0]
  /\ verdict = [p \in Proc |-> "none"]
  /\ stored = {}
  /\ unheard = {}
  /\ done = IF st = "acked" THEN <<x>> ELSE <<>>
  /\ faults = 0

Init == \E st \in Stores, x \in Others : InitFrom(st, x)

-----------------------------------------------------------------------------
(* Opening a store: the head is read before the ledger, in two steps that   *)
(* other processes may come between.                                        *)

OpenHead(p) ==
  /\ pc[p] = "closed"
  /\ Goto(p, "opening")
  /\ hload' = [hload EXCEPT ![p] = head]
  /\ UNCHANGED <<disk, op, recs, off, task, verdict, stored, unheard, done, faults>>

\* fs::read and replay_bytes; a broken chain makes open return an error.
OpenLedger(p) ==
  /\ pc[p] = "opening"
  /\ Loadable
  /\ Goto(p, "ready")
  /\ recs' = [recs EXCEPT ![p] = EndOf(<<>>, file)]
  /\ off' = [off EXCEPT ![p] = Len(file)]
  /\ UNCHANGED <<disk, op, hload, task, verdict, stored, unheard, done, faults>>

\* The handle is dropped and, with it, whatever lock it held.
Drop(p) ==
  /\ Goto(p, "closed")
  /\ op' = [op EXCEPT ![p] = "none"]
  /\ recs' = [recs EXCEPT ![p] = <<>>]
  /\ off' = [off EXCEPT ![p] = 0]
  /\ hload' = [hload EXCEPT ![p] = NoHead]
  /\ batch' = [batch EXCEPT ![p] = <<>>]
  /\ wrote' = [wrote EXCEPT ![p] = 0]
  /\ verdict' = [verdict EXCEPT ![p] = "none"]

OpenRefused(p) ==
  /\ pc[p] = "opening"
  /\ ~Loadable
  /\ Drop(p)
  /\ UNCHANGED <<disk, stored, unheard, done, faults>>

Close(p) ==
  /\ pc[p] = "ready"
  /\ Drop(p)
  /\ UNCHANGED <<disk, stored, unheard, done, faults>>

-----------------------------------------------------------------------------
(* append_batch, accept_tail and reset_head *)

\* A caller retries a batch only when no append of it has returned Ok.
StartAppend(p, b) ==
  /\ pc[p] = "ready"
  /\ "append" \in Ops
  /\ b # <<>>
  /\ ToSet(b) \cap stored = {}
  /\ Len(file) + Len(b) <= MaxLen
  /\ Goto(p, "want")
  /\ op' = [op EXCEPT ![p] = "append"]
  /\ batch' = [batch EXCEPT ![p] = b]
  /\ verdict' = [verdict EXCEPT ![p] = "none"]
  /\ UNCHANGED <<disk, handle, wrote, stored, unheard, done, faults>>

StartPerson(p, o) ==
  /\ pc[p] = "ready"
  /\ o \in Ops \cap {"accept", "reset"}
  /\ Goto(p, "want")
  /\ op' = [op EXCEPT ![p] = o]
  /\ verdict' = [verdict EXCEPT ![p] = "none"]
  /\ UNCHANGED <<disk, handle, task, stored, unheard, done, faults>>

\* Slip: the exclusive lock keeps out readers but not other writers.
Lock_NotExclusive(p) ==
  /\ pc[p] = "want"
  /\ Sharers = {}
  /\ Goto(p, "locked")
  /\ UNCHANGED <<disk, op, handle, task, verdict, stored, unheard, done, faults>>

Lock(p) ==
  /\ pc[p] = "want"
  /\ Writers = {} /\ Sharers = {}
  /\ Goto(p, "locked")
  /\ UNCHANGED <<disk, op, handle, task, verdict, stored, unheard, done, faults>>

\* Slip: a busy store is tried again instead of reported.
LockBusy_Retries(p) ==
  /\ pc[p] = "want"
  /\ p \in Nonblocking
  /\ Writers # {} \/ Sharers # {}
  /\ UNCHANGED vars

\* try_lock answers WouldBlock: the operation fails at once.
LockBusy(p) ==
  /\ pc[p] = "want"
  /\ p \in Nonblocking
  /\ Writers # {} \/ Sharers # {}
  /\ Return(p)
  /\ UNCHANGED <<disk, handle, verdict, stored, unheard, done, faults>>

\* What sync_tail reads: the lines after the handle's offset.
Unread(p) == SubSeq(file, off[p] + 1, Len(file))

\* Slip: any fragment is cut.
NotALedger_Never(p) == FALSE

\* A torn fragment in front of no record at all is cut only when it begins
\* like a ledger record.
NotALedger(p) == frag = "alien" /\ EndOf(recs[p], Unread(p)) = <<>>

\* Slip: the fragment at the end is neither cut nor finished.
SyncTail_LeavesFragment(p) ==
  /\ pc[p] = "locked"
  /\ Len(file) >= off[p]
  /\ Chains(recs[p], Unread(p))
  /\ ~NotALedger(p)
  /\ recs' = [recs EXCEPT ![p] = EndOf(@, Unread(p))]
  /\ off' = [off EXCEPT ![p] = Len(file)]
  /\ Goto(p, "synced")
  /\ UNCHANGED <<disk, op, hload, task, verdict, stored, unheard, done, faults>>

\* Slip: a torn line is cut at the offset the handle had before it caught up.
SyncTail_CutsAtOffset(p) ==
  /\ pc[p] = "locked"
  /\ Len(file) >= off[p]
  /\ Chains(recs[p], Unread(p))
  /\ ~NotALedger(p)
  /\ file' = IF frag = "torn" THEN SubSeq(file, 1, off[p]) ELSE file
  /\ recs' = [recs EXCEPT ![p] = EndOf(@, Unread(p))]
  /\ off' = [off EXCEPT ![p] = Len(file)]
  /\ frag' = "none"
  /\ Goto(p, "synced")
  /\ UNCHANGED <<synced, head, heads, op, hload, task, verdict, stored, unheard, done, faults>>

\* Catch up with the other writers, cut a torn line, finish a bare one.
SyncTail(p) ==
  /\ pc[p] = "locked"
  /\ Len(file) >= off[p]
  /\ Chains(recs[p], Unread(p))
  /\ ~NotALedger(p)
  /\ recs' = [recs EXCEPT ![p] = EndOf(@, Unread(p))]
  /\ off' = [off EXCEPT ![p] = Len(file)]
  /\ frag' = "none"
  /\ Goto(p, "synced")
  /\ UNCHANGED <<file, synced, head, heads, op, hload, task, verdict, stored, unheard, done, faults>>

\* The ledger is shorter than the offset, a line does not chain (the lines
\* before it stay replayed while the offset does not move), or the file is
\* not a ledger.
SyncTailRefused(p) ==
  /\ pc[p] = "locked"
  /\ \/ /\ Len(file) < off[p]
        /\ UNCHANGED <<recs, off>>
     \/ /\ Len(file) >= off[p]
        /\ ~Chains(recs[p], Unread(p))
        /\ \E k \in 0..Len(Unread(p)) - 1 :
             /\ Chains(recs[p], SubSeq(Unread(p), 1, k))
             /\ ~Chains(recs[p], SubSeq(Unread(p), 1, k + 1))
             /\ recs' = [recs EXCEPT ![p] = EndOf(@, SubSeq(Unread(p), 1, k))]
        /\ UNCHANGED off
     \/ /\ Len(file) >= off[p]
        /\ Chains(recs[p], Unread(p))
        /\ NotALedger(p)
        /\ UNCHANGED <<recs, off>>
  /\ Return(p)
  /\ UNCHANGED <<disk, hload, verdict, stored, unheard, done, faults>>

\* Slip: records after the head do not stop a write.
HeadAllows_Behind(p) == head = NoHead \/ (Present(head) /\ IsPrefix(head.at, recs[p]))

\* Slip: the head is not looked at before a write.
HeadAllows_Always(p) == TRUE

\* The head file allows a write: there is none, or it names exactly the last record.
HeadAllows(p) == head = NoHead \/ head = HeadAt(recs[p])

\* check_head_before_write passes and so does validate_batch.
CheckHead(p) ==
  /\ pc[p] = "synced" /\ op[p] = "append"
  /\ HeadAllows(p)
  /\ Goto(p, "writing")
  /\ UNCHANGED <<disk, op, handle, task, verdict, stored, unheard, done, faults>>

\* Slip: a refused writer keeps the lock and looks at the ledger again.
AppendRefused_KeepsLock(p) ==
  /\ pc[p] = "synced" /\ op[p] = "append"
  /\ Goto(p, "locked")
  /\ UNCHANGED <<disk, op, handle, task, verdict, stored, unheard, done, faults>>

\* check_head_before_write or validate_batch refuses; nothing was written.
AppendRefused(p) ==
  /\ pc[p] = "synced" /\ op[p] = "append"
  /\ Return(p)
  /\ UNCHANGED <<disk, handle, verdict, stored, unheard, done, faults>>

\* The next line of the batch, chained to the handle's own last record.
NextLine(p) == recs[p] \o SubSeq(batch[p], 1, wrote[p] + 1)

\* write_all under way: a lock-free reader, or a crash, may find any prefix of
\* the batch, its last line torn, or whole but without its newline.
WritePart(p) ==
  /\ pc[p] = "writing" /\ wrote[p] < Len(batch[p]) /\ frag = "none"
  /\ \/ frag' = "torn" /\ UNCHANGED file
     \/ frag' = "bare" /\ file' = Append(file, NextLine(p))
  /\ Goto(p, "tearing")
  /\ UNCHANGED <<synced, head, heads, op, handle, task, verdict, stored, unheard, done, faults>>

\* A line is complete.  Bytes some other program left after the last newline
\* would run into it and make a line that does not parse.
WriteLine(p) ==
  /\ wrote[p] < Len(batch[p])
  /\ \/ /\ pc[p] = "tearing"
        /\ file' = IF frag = "bare" THEN file ELSE Append(file, NextLine(p))
     \/ /\ pc[p] = "writing"
        /\ file' = CASE frag = "none" -> Append(file, NextLine(p))
                     [] frag = "bare" -> Append(Front(file), Junk)
                     [] OTHER         -> Append(file, Junk)
  /\ frag' = "none"
  /\ wrote' = [wrote EXCEPT ![p] = @ + 1]
  /\ Goto(p, "writing")
  /\ UNCHANGED <<synced, head, heads, op, handle, batch, verdict, stored, unheard, done, faults>>

WriteDone(p) ==
  /\ pc[p] = "writing" /\ wrote[p] = Len(batch[p])
  /\ Goto(p, "written")
  /\ UNCHANGED <<disk, op, handle, task, verdict, stored, unheard, done, faults>>

\* Slip: no sync_data.
SyncData_NotSynced(p) ==
  /\ pc[p] = "written"
  /\ recs' = [recs EXCEPT ![p] = @ \o batch[p]]
  /\ off' = [off EXCEPT ![p] = @ + Len(batch[p])]
  /\ Goto(p, "heading")
  /\ UNCHANGED <<disk, op, hload, task, verdict, stored, unheard, done, faults>>

\* sync_data, then the handle takes in the batch it wrote.
SyncData(p) ==
  /\ pc[p] = "written"
  /\ synced' = Len(file)
  /\ recs' = [recs EXCEPT ![p] = @ \o batch[p]]
  /\ off' = [off EXCEPT ![p] = @ + Len(batch[p])]
  /\ Goto(p, "heading")
  /\ UNCHANGED <<file, frag, head, heads, op, hload, task, verdict, stored, unheard, done, faults>>

\* write_head: temporary file, sync_all, rename.  The rename itself is not
\* fsynced, so the heads it replaced may come back after a power loss.
HeadWritten(p) ==
  /\ head' = HeadAt(recs[p])
  /\ heads' = heads \cup {head'}
  /\ hload' = [hload EXCEPT ![p] = head']

\* The head names the batch's last record; its caller has not heard of it yet.
HeadRename(p) ==
  /\ pc[p] = "heading" /\ op[p] = "append"
  /\ HeadWritten(p)
  /\ Goto(p, "headed")
  /\ UNCHANGED <<file, frag, synced, op, recs, off, task, verdict, stored, unheard, done, faults>>

\* The append returns Ok.
AppendOk(p) ==
  /\ pc[p] = "headed"
  /\ stored' = stored \cup ToSet(batch[p])
  /\ done' = IF IsPrefix(done, recs[p]) THEN recs[p] ELSE done
  /\ Return(p)
  /\ UNCHANGED <<disk, handle, verdict, unheard, faults>>

\* accept_tail: only records after a present head that the ledger still
\* covers.  With none to accept the head is left alone.
AcceptTail(p) ==
  /\ pc[p] = "synced" /\ op[p] = "accept"
  /\ Present(head) /\ IsPrefix(head.at, recs[p])
  /\ IF head.at = recs[p]
     THEN UNCHANGED <<head, heads, hload>>
     ELSE HeadWritten(p)
  /\ Return(p)
  /\ UNCHANGED <<file, frag, synced, recs, off, verdict, stored, unheard, done, faults>>

AcceptRefused(p) ==
  /\ pc[p] = "synced" /\ op[p] = "accept"
  /\ Present(head) => ~IsPrefix(head.at, recs[p])
  /\ Return(p)
  /\ UNCHANGED <<disk, handle, verdict, stored, unheard, done, faults>>

\* reset_head: the current ledger becomes the accepted one, whatever it is.
ResetHead(p) ==
  /\ pc[p] = "synced" /\ op[p] = "reset"
  /\ IF recs[p] = <<>>
     THEN /\ head' = NoHead
          /\ heads' = heads \cup {head'}
          /\ hload' = [hload EXCEPT ![p] = NoHead]
     ELSE HeadWritten(p)
  /\ done' = IF IsPrefix(done, recs[p]) THEN done ELSE <<>>
  /\ Return(p)
  /\ UNCHANGED <<file, frag, synced, recs, off, verdict, stored, unheard, faults>>

-----------------------------------------------------------------------------
(* verify_report, with acknowledged_now for a snapshot the head does not cover *)

Verdict(p, good) == verdict' = [verdict EXCEPT ![p] = IF good THEN "ok" ELSE "alarm"]

\* The head read at load is compared with the records replayed after it.
VerifyNow(p) ==
  /\ pc[p] = "ready" /\ "verify" \in Ops
  /\ \/ hload[p] = NoHead /\ Verdict(p, TRUE)
     \/ hload[p] = BadHead /\ Verdict(p, FALSE)
     \/ Present(hload[p]) /\ ~IsPrefix(hload[p].at, recs[p]) /\ Verdict(p, FALSE)
     \/ hload[p] = HeadAt(recs[p]) /\ Verdict(p, TRUE)
  /\ UNCHANGED <<disk, pc, op, handle, task, stored, unheard, done, faults>>

\* Records after the head: an unacknowledged tail, or a write in flight.
VerifyTail(p) ==
  /\ pc[p] = "ready" /\ "verify" \in Ops
  /\ Present(hload[p]) /\ IsStrictPrefix(hload[p].at, recs[p])
  /\ Goto(p, "vwant")
  /\ verdict' = [verdict EXCEPT ![p] = "none"]
  /\ op' = [op EXCEPT ![p] = "verify"]
  /\ UNCHANGED <<disk, handle, task, stored, unheard, done, faults>>

\* Slip: verify_report does not wait for a write in flight.
LockShared_NoWait(p) ==
  /\ pc[p] = "vwant"
  /\ Goto(p, "vhold")
  /\ UNCHANGED <<disk, op, handle, task, verdict, stored, unheard, done, faults>>

\* lock_shared returns once no writer holds the sidecar.
LockShared(p) ==
  /\ pc[p] = "vwant"
  /\ Writers = {}
  /\ Goto(p, "vhold")
  /\ UNCHANGED <<disk, op, handle, task, verdict, stored, unheard, done, faults>>

\* Slip: only the sequence number of the newer head is compared.
Confirmed_BySeq(p) == Present(head) /\ Len(head.at) >= Len(recs[p])

\* The newer head covers this snapshot and the reloaded ledger still begins with it.
Confirmed(p) ==
  LET n == Len(recs[p]) IN
  \/ head = HeadAt(recs[p])
  \/ /\ Present(head) /\ Len(head.at) > n
     /\ Loadable /\ Covers(file, head)
     /\ file[n] = recs[p]

VerifyRecheck(p) ==
  /\ pc[p] = "vhold"
  /\ Verdict(p, Confirmed(p))
  /\ Return(p)
  /\ UNCHANGED <<disk, handle, stored, unheard, done, faults>>

-----------------------------------------------------------------------------
(* Faults *)

Fault(f) == /\ f \in Faults
            /\ faults < MaxFaults
            /\ faults' = faults + 1

\* What the processes of P would have heard Ok for.
Unheard(P) == UNION {ToSet(batch[p]) : p \in {q \in P : pc[q] = "headed"}}

\* The process is killed; its writes so far stay, its locks are released.
Crash(p) ==
  /\ Fault("crash")
  /\ pc[p] # "closed"
  /\ unheard' = unheard \cup Unheard({p})
  /\ Drop(p)
  /\ UNCHANGED <<disk, stored, done>>

\* write_all or sync_data returns an error (a full disk): the handle does not
\* take the batch in, whatever part of it the file holds.
WriteFails(p) ==
  /\ Fault("io")
  /\ pc[p] \in {"writing", "tearing", "written"}
  /\ Return(p)
  /\ UNCHANGED <<disk, handle, verdict, stored, unheard, done>>

\* write_head returns an error: the records are stored, the handle has taken
\* them in, and the head stays behind.
HeadFails(p) ==
  /\ Fault("io")
  /\ \/ pc[p] = "heading"
     \/ pc[p] = "synced" /\ op[p] \in {"accept", "reset"}
  /\ Return(p)
  /\ UNCHANGED <<disk, handle, verdict, stored, unheard, done>>

\* The machine stops.  Lines that no sync covers, the repair of the last line
\* and head renames may be lost.
PowerLoss ==
  /\ Fault("power")
  /\ \E k \in synced..Len(file) :
       /\ file' = SubSeq(file, 1, k)
       /\ frag' \in IF frag = "alien" THEN {"alien"} ELSE {"none", "torn", "bare"}
       /\ frag' = "bare" => k > 0
       /\ synced' = k
  /\ head' \in heads
  /\ heads' = {head'}
  /\ pc' = [p \in Proc |-> "closed"]
  /\ op' = [p \in Proc |-> "none"]
  /\ recs' = [p \in Proc |-> <<>>]
  /\ off' = [p \in Proc |-> 0]
  /\ hload' = [p \in Proc |-> NoHead]
  /\ batch' = [p \in Proc |-> <<>>]
  /\ wrote' = [p \in Proc |-> 0]
  /\ verdict' = [p \in Proc |-> "none"]
  /\ unheard' = unheard \cup Unheard(Proc)
  /\ UNCHANGED <<stored, done>>

\* A program that keeps the chain but no head file (an older binary, a forged
\* append) adds a record between two operations.
ForeignAppend(x) ==
  /\ Fault("foreign")
  /\ Writers = {} /\ frag = "none" /\ Loadable
  /\ Len(file) < MaxLen
  /\ file' = Append(file, EndOf(<<>>, file) \o <<x>>)
  /\ UNCHANGED <<frag, synced, head, heads, pc, op, handle, task, verdict, stored, unheard, done>>

\* The ledger is edited between two operations: last lines removed, or the
\* last one replaced by a line of the same length whose hashes were recomputed.
Edit ==
  /\ Fault("edit")
  /\ Writers = {}
  /\ \/ \E k \in 0..Len(file)-1 : file' = SubSeq(file, 1, k)
     \/ \E x \in Others :
          /\ file # <<>> /\ Last(file) # Junk
          /\ file' = [file EXCEPT ![Len(file)] = Append(Front(@), x)]
  /\ frag' = "none"
  /\ synced' = IF synced > Len(file') THEN Len(file') ELSE synced
  /\ UNCHANGED <<head, heads, pc, op, handle, task, verdict, stored, unheard, done>>

\* The head file is damaged or deleted between two operations.
HeadLost ==
  /\ Fault("head")
  /\ Writers = {}
  /\ head' \in {NoHead, BadHead}
  /\ heads' = heads \cup {head'}
  /\ UNCHANGED <<file, frag, synced, pc, op, handle, task, verdict, stored, unheard, done>>

-----------------------------------------------------------------------------

Step(p) ==
  \/ OpenHead(p) \/ OpenLedger(p) \/ OpenRefused(p) \/ Close(p)
  \/ \E b \in Batches[p] : StartAppend(p, b)
  \/ \E o \in {"accept", "reset"} : StartPerson(p, o)
  \/ Lock(p) \/ LockBusy(p) \/ SyncTail(p) \/ SyncTailRefused(p)
  \/ CheckHead(p) \/ AppendRefused(p)
  \/ WritePart(p) \/ WriteLine(p) \/ WriteDone(p) \/ SyncData(p)
  \/ HeadRename(p) \/ AppendOk(p)
  \/ AcceptTail(p) \/ AcceptRefused(p) \/ ResetHead(p)
  \/ VerifyNow(p) \/ VerifyTail(p) \/ LockShared(p) \/ VerifyRecheck(p)

Failure ==
  \/ \E p \in Proc : Crash(p) \/ WriteFails(p) \/ HeadFails(p)
  \/ PowerLoss
  \/ \E x \in Others : ForeignAppend(x)
  \/ Edit
  \/ HeadLost

Next == (\E p \in Proc : Step(p)) \/ Failure

Spec == Init /\ [][Next]_vars

\* Fairness.  A running process takes its next step; try_lock answers at once,
\* either way.  The locks are no queue: a process that waits for one is only
\* promised it when it is free again and again, and a nonblocking writer has no
\* such promise at all.
Running(p) ==
  \/ p \in Nonblocking /\ Lock(p)
  \/ OpenLedger(p) \/ OpenRefused(p)
  \/ LockBusy(p) \/ SyncTail(p) \/ SyncTailRefused(p) \/ CheckHead(p) \/ AppendRefused(p)
  \/ WritePart(p) \/ WriteLine(p) \/ WriteDone(p) \/ SyncData(p)
  \/ HeadRename(p) \/ AppendOk(p)
  \/ AcceptTail(p) \/ AcceptRefused(p) \/ ResetHead(p) \/ VerifyRecheck(p)

FairSpec ==
  /\ Spec
  /\ \A p \in Proc : WF_vars(Running(p)) /\ SF_vars(LockShared(p))
  /\ \A p \in Proc \ Nonblocking : SF_vars(Lock(p))

-----------------------------------------------------------------------------
(* The inductive invariant, for a ledger nobody edits *)

\* The hash of the first n lines.
Upto(n) == IF n = 0 THEN <<>> ELSE file[n]

\* What p's handle has replayed is what the file begins with.
Replayed(p) == off[p] <= Len(file) /\ recs[p] = Upto(off[p])

\* The lines after p's offset are the first lines of the batch p is writing.
InFlight(p) ==
  /\ Len(file) = off[p] + wrote[p] + (IF frag = "bare" THEN 1 ELSE 0)
  /\ Len(file) <= off[p] + Len(batch[p])
  /\ \A i \in off[p] + 1..Len(file) : file[i] = recs[p] \o SubSeq(batch[p], 1, i - off[p])

\* Where a writer stands between sync_tail and the head update.
StageInv(p) ==
  /\ pc[p] \notin {"writing", "tearing", "written", "heading", "headed"} => wrote[p] = 0
  /\ pc[p] \in {"synced", "heading", "headed"} => off[p] = Len(file) /\ frag = "none"
  /\ pc[p] \in {"writing", "tearing", "written"} => InFlight(p)
  /\ pc[p] \in {"writing", "written"} => frag = "none"
  /\ pc[p] = "tearing" => frag \in {"torn", "bare"} /\ wrote[p] < Len(batch[p])
  /\ pc[p] = "written" => wrote[p] = Len(batch[p])
  /\ pc[p] \in {"heading", "headed"} => synced = Len(file)

\* One writer at a time; the lines form a chain; every handle is a prefix of
\* it, and the writer's batch is all that may follow.
LedgerInv ==
  /\ \A p, q \in Writers : p = q
  /\ Loadable
  /\ \A p \in Proc : Replayed(p) /\ StageInv(p)

-----------------------------------------------------------------------------
(* The inductive invariant of the head and the lock, for any ledger *)

\* What p's handle had replayed before it took in the batch it wrote.
Before(p) == SubSeq(recs[p], 1, Len(recs[p]) - Len(batch[p]))

\* From the check of the head to its update the head names what the batch is
\* chained to, or there is none.
Appending(p) ==
  /\ op[p] = "append" => batch[p] \in Batches[p] \ {<<>>}
  /\ pc[p] \in {"writing", "tearing", "written"} => head \in {NoHead, HeadAt(recs[p])}
  /\ pc[p] = "heading" => recs[p] = Before(p) \o batch[p] /\ head \in {NoHead, HeadAt(Before(p))}
  /\ pc[p] = "headed" => op[p] = "append" /\ head = HeadAt(recs[p])

\* One writer, or readers; nobody but the writer moves the head in between.
HeadInv ==
  /\ \A p, q \in Writers : p = q
  /\ Writers = {} \/ Sharers = {}
  /\ \A p \in Proc : Appending(p)
  /\ head \in heads

\* What holds of every ledger, an edited one too, and goes from each step to the
\* next: types, one writer or readers, a head that only the writer moves.
InductiveInv == TypeOK /\ HeadInv

-----------------------------------------------------------------------------
(* Properties *)

\* Past sync_tail a writer's handle has replayed every line of the file, those
\* of other processes included, so the batch it builds chains to the last one.
WriterIsCurrent ==
  \A p \in Writers : pc[p] = "synced" =>
    /\ frag = "none"
    /\ off[p] = Len(file)
    /\ recs[p] = EndOf(<<>>, file)

\* However writers crash, fail, retry and interleave, the complete lines form
\* one chain: no fork, no gap, no line that does not parse, so every open succeeds.
AlwaysLoadable == Loadable

\* The head never runs ahead of the ledger (the comment in load): the ledger
\* holds every record it names, unchanged.
HeadCovered == Covers(file, head)

\* "Heads are written only after their records are synced" (load): no head that
\* is in place, or that a power loss may bring back, names a record a power
\* loss can take.
HeadsOnlyAfterSync == \A d \in heads : Covers(SubSeq(file, 1, synced), d)

\* Once append_batch returns Ok its records survive kills, full disks, foreign
\* appends and power losses: they are in the part of the file that is synced.
AcknowledgedIsDurable == Covers(SubSeq(file, 1, synced), HeadAt(done))

\* A batch whose append returned an error, or died before its head update, may
\* be in the file, but a retry of it never puts it a second time among the
\* acknowledged records behind the caller's back.  Only a caller killed between
\* the head update and Ok, which has no way to know that the batch is in, can
\* have it acknowledged twice.
NoSilentDuplicate ==
  Present(head) =>
    \A i, j \in DOMAIN head.at : head.at[i] = head.at[j] /\ head.at[i] \notin unheard => i = j

\* Reading without the lock while writers are at work, verify_report never
\* reports a problem in a ledger that nothing happened to.
NoFalseAlarm == faults = 0 => \A p \in Proc : verdict[p] # "alarm"

\* verify_report passes a snapshot only when some head written so far
\* acknowledged all of it, or there was no head file to compare with.
PassMeansAcknowledged ==
  \A p \in Proc : verdict[p] = "ok" =>
    \/ hload[p] = NoHead
    \/ \E d \in heads : Present(d) /\ IsPrefix(recs[p], d.at)

\* A store that a fresh handle finds in order has lost no acknowledged record:
\* ordinary writes by stale handles never paper over removed or rewritten lines.
EvidenceKept ==
  Loadable /\ Covers(file, head) => Covers(file, HeadAt(done))

\* A file that was never a ledger is not cut, appended to or replaced.
NeverLedgerUntouched == [][frag = "alien" => frag' = "alien" /\ file' = file]_<<file, frag>>

\* A writer that asked not to wait is done, one way or the other, although
\* nothing promises it the lock.
NonblockingReturns ==
  \A p \in Nonblocking : (pc[p] = "want") ~> (pc[p] \notin {"want"} \cup Exclusive)

\* Nobody keeps the lock, and everybody who waits for it gets through.
EveryoneReturns == \A p \in Proc : (pc[p] \notin {"closed", "ready"}) ~> (pc[p] \in {"closed", "ready"})

\* The acknowledged log that callers see: only appends of whole batches move it
\* forward, only a person accepts or resets anything else.
Acked == INSTANCE AckLog WITH
  acked <- head, past <- heads,
  Batch <- UNION {Batches[p] : p \in Proc},
  asked <- {op[p] : p \in Writers},
  MayRevert <- "power" \in Faults, MayDamage <- "head" \in Faults

AckedLog == Acked!Spec

=============================================================================
