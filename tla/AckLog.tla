------------------------------- MODULE AckLog -------------------------------
(***************************************************************************)
(* What the ledger promises its callers: a log of acknowledged payloads.   *)
(* An append adds a whole batch or nothing.  Records that reached the file *)
(* any other way are acknowledged only by a person's decision.             *)
(***************************************************************************)
EXTENDS Sequences, SequencesExt

CONSTANTS
  Payload, Batch,
  MayRevert,  \* a power loss may bring an earlier acknowledgement back
  MayDamage   \* the head file may be deleted or damaged

VARIABLES
  acked,  \* the acknowledged log, or that there is none to read
  past,   \* the acknowledgements a power loss may bring back
  asked   \* what is being decided: "accept" while verify-ledger --accept-tail
          \* runs, "reset" while verify-ledger --reset-head does

Known == acked.state = "present"

Init ==
  /\ acked.state \in {"missing", "present"}
  /\ past = {acked}

\* Whole batches only.  The first write after the head is missing also takes
\* in whatever the ledger already holds.
Commit ==
  /\ acked'.state = "present"
  /\ \E b \in Batch \ {<<>>} :
       IF Known THEN acked'.at = acked.at \o b
       ELSE acked.state = "missing" /\ IsSuffix(b, acked'.at)
  /\ past' = past \cup {acked'}

Accept ==
  /\ "accept" \in asked /\ Known
  /\ acked'.state = "present" /\ IsStrictPrefix(acked.at, acked'.at)
  /\ past' = past \cup {acked'}

Reset ==
  /\ "reset" \in asked
  /\ acked'.state \in {"missing", "present"}
  /\ past' = past \cup {acked'}

Revert ==
  /\ MayRevert
  /\ acked' \in past
  /\ past' = {acked'}

Damage ==
  /\ MayDamage
  /\ acked'.state \in {"missing", "unreadable"}
  /\ past' = past \cup {acked'}

Next == Commit \/ Accept \/ Reset \/ Revert \/ Damage

Spec == Init /\ [][Next]_<<acked, past>>

=============================================================================
