------------------------------ MODULE AuditChain ------------------------------
(***************************************************************************)
(* The rows of table audit_log and their digests.  A digest is modelled by *)
(* what it commits to: HMAC over an event and the previous digest is the   *)
(* sequence that ends in that event, so two digests are equal exactly when *)
(* the whole histories they commit to are.                                 *)
(***************************************************************************)
EXTENDS Naturals, Sequences

CONSTANT Events         \* what can be recorded

Digests == Seq(Events)
Genesis == <<>>
Hmac(e, prev) == Append(prev, e)

(* previous = last["entry_hash"] if last else GENESIS *)
TipOf(table) == IF table = <<>> THEN Genesis ELSE table[Len(table)].hash

Entry(e, prev) == [event |-> e, previous |-> prev, hash |-> Hmac(e, prev)]

(* The events of the first n rows: the history their digests stand for. *)
History(table, n) == [i \in 1..n |-> table[i].event]
===============================================================================
