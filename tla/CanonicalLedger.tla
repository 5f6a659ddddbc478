--------------------------- MODULE CanonicalLedger ---------------------------
(***************************************************************************)
(* What the canonical candle table promises to those who read it: a ledger *)
(* with at most one row per key.  A write either fills empty keys, all     *)
(* at once and under a number of its own, or disputes keys that are        *)
(* filled; it never does both, and no write changes a row.                 *)
(***************************************************************************)
EXTENDS Naturals

CONSTANTS Keys, Values, Empty

VARIABLES
    ledger,   \* key -> [value, batch], or Empty
    written,  \* the number of the last write
    disputed  \* keys for which differing evidence is on record

ledgerVars == <<ledger, written, disputed>>

Filled == {k \in Keys : ledger[k] # Empty}

Init ==
    /\ ledger = [k \in Keys |-> Empty]
    /\ written = 0
    /\ disputed = {}

\* What a write may leave at a key.
Outcomes(k) ==
    IF ledger[k] = Empty THEN {Empty} \cup [value : Values, batch : {written + 1}]
    ELSE {ledger[k]}

Fill ==
    /\ written' = written + 1
    /\ ledger' = [k \in Keys |-> ledger'[k]]
    /\ \A k \in Keys : ledger'[k] \in Outcomes(k)
    /\ UNCHANGED disputed

Dispute ==
    /\ written' = written + 1
    /\ \E ks \in SUBSET Filled : ks # {} /\ disputed' = disputed \cup ks
    /\ UNCHANGED ledger

Next == Fill \/ Dispute

Spec == Init /\ [][Next]_ledgerVars
=============================================================================
