------------------------------ MODULE MCLedger ------------------------------
(***************************************************************************)
(* Small instances of Ledger.  s is the payload of records already in the  *)
(* store and of other programs; the rest are the callers' own payloads.    *)
(***************************************************************************)
EXTENDS Ledger, TLC

CONSTANTS p1, p2, s, a, b, c

\* p1 appends a batch of two payloads, p2 one payload.
MCBatches2 == (p1 :> {<<a, b>>}) @@ (p2 :> {<<c>>})
=============================================================================
