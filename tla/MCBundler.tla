----------------------------- MODULE MCBundler -----------------------------
(***************************************************************************)
(* Model values for Bundler.  Entities: two senders, a factory and a       *)
(* paymaster.  s1 sends nonce 0 twice (a1, then a2 at a higher fee level), *)
(* s2 sends one op deployed by f1.  The gas of a1 and b1 together reaches  *)
(* the batch gas limit, so MaintainGasLimit cuts a two-op batch.           *)
(***************************************************************************)
EXTENDS Bundler

CONSTANTS s1, s2, f1, p1, c1, c2, t1, t2

a1 == [sender |-> s1, nonce |-> 0, ver |-> 1, factory |-> Zero, paymaster |-> p1, gas |-> 2]
a2 == [sender |-> s1, nonce |-> 0, ver |-> 2, factory |-> Zero, paymaster |-> p1, gas |-> 2]
b1 == [sender |-> s2, nonce |-> 0, ver |-> 1, factory |-> f1, paymaster |-> Zero, gas |-> 3]
a3 == [sender |-> s1, nonce |-> 1, ver |-> 1, factory |-> Zero, paymaster |-> Zero, gas |-> 1]

MCEntities == {s1, s2, f1, p1}
MCClients1 == {c1}
MCClients2 == {c1, c2}
MCTargets == {t1, t2}

\* The op sets of the runs.
OpsCore == {a1, a2, b1}
OpsDistinct == {a1, b1}
OpsSameSender == {a1, a3}

=============================================================================
