------------------------------ MODULE Payout ------------------------------
(***************************************************************************)
(* What the Hodler mode promises its users about money.  Per address and   *)
(* kind, the AO processes accrue a cumulative total (owed) and the Hodler  *)
(* contract pays up to a cumulative total (paid).  A payment raises what   *)
(* an address was paid, to no more than it is owed; nothing is taken back. *)
(***************************************************************************)
EXTENDS Integers

CONSTANTS Addr, Kinds

VARIABLES owed, paid

Totals == [Kinds -> Nat]

PayoutInit ==
    /\ owed \in [Addr -> Totals]
    /\ paid = [a \in Addr |-> [k \in Kinds |-> 0]]

Accrues(a) ==
    /\ owed' \in [Addr -> Totals]
    /\ \A k \in Kinds : owed[a][k] <= owed'[a][k]
    /\ \A b \in Addr \ {a} : owed'[b] = owed[b]
    /\ UNCHANGED paid

Pays(a) ==
    /\ paid' \in [Addr -> Totals]
    /\ \A k \in Kinds : paid[a][k] <= paid'[a][k] /\ paid'[a][k] <= owed[a][k]
    /\ \A b \in Addr \ {a} : paid'[b] = paid[b]
    /\ UNCHANGED owed

PayoutNext == \E a \in Addr : Accrues(a) \/ Pays(a)

PayoutSpec == PayoutInit /\ [][PayoutNext]_<<owed, paid>>

============================================================================
