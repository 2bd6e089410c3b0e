------------------------------ MODULE Mempool ------------------------------
(***************************************************************************)
(* The persistent mempool of one middleware: an ordered store keyed by     *)
(* (sender, nonce) whose range scan yields arrival (FIFO) order.  Each     *)
(* operation is one store transaction, so each is one atomic step here.   *)
(***************************************************************************)
EXTENDS AiOp, SequencesExt

VARIABLE
    mempool     \* the entries in arrival order

InPool == ToSet(mempool)

\* Dump(middleware): every entry, in arrival order.
Dump == mempool

\* The reads an ingress context takes: entries that share the sender, the
\* factory or the paymaster of the incoming op.
GetOpsBySender(s) == {op \in InPool : op.sender = s}
GetOpsByFactory(f) == {op \in InPool : GetFactory(op) = f}
GetOpsByPaymaster(p) == {op \in InPool : GetPaymaster(op) = p}

\* Add is refused (DuplicateUnderpriced) when an entry with the same key is
\* not outbid by op.
AddAllowed(op) == \A old \in InPool : Key(old) = Key(op) => OutbidsFees(op, old)

\* A store that appends without deleting the entry under the same key.
AddOpAppend(op) == mempool' = Append(mempool, op)

\* Insert op, replacing the entry with its key; a replacement is written
\* under a fresh sequence key, so it moves to the end of the arrival order.
AddOp(op) ==
    mempool' = Append(SelectSeq(mempool, LAMBDA old : Key(old) # Key(op)), op)

\* RemoveOps(middleware, ops...): deletes the entries under the keys of ops.
RemoveOps(S) ==
    mempool' = SelectSeq(mempool, LAMBDA old : Key(old) \notin KeysOf(S))

Clear == mempool' = <<>>

\* The store is keyed: no two entries share (sender, nonce).
KeyedStore ==
    /\ mempool \in Seq(Ops)
    /\ \A i, j \in DOMAIN mempool : i # j => Key(mempool[i]) # Key(mempool[j])

=============================================================================
