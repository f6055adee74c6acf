------------------------------ MODULE AuditTrail ------------------------------
(***************************************************************************)
(* What the audit log promises its callers, without the hash chain, the    *)
(* transactions and the locks: a trail of events that only grows, and      *)
(* receipts (the digests append returns), each of which commits to a       *)
(* prefix of the trail.                                                    *)
(***************************************************************************)
EXTENDS Naturals, Sequences

CONSTANT Events         \* what can be recorded

VARIABLES
    trail,              \* the committed events, oldest first
    receipts            \* the prefixes of the trail handed out to callers

vars == <<trail, receipts>>

Init == trail = <<>> /\ receipts = {}

(* An event is recorded behind all earlier ones. *)
Record(e) ==
    /\ trail' = Append(trail, e)
    /\ UNCHANGED receipts

(* A caller learns that its event is in the trail, and what is before it. *)
Acknowledge(n) ==
    /\ receipts' = receipts \cup {SubSeq(trail, 1, n)}
    /\ UNCHANGED trail

Next ==
    \/ \E e \in Events : Record(e)
    \/ \E n \in 1..Len(trail) : Acknowledge(n)

Spec == Init /\ [][Next]_vars
===============================================================================
