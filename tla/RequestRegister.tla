-------------------------- MODULE RequestRegister --------------------------
(***************************************************************************)
(* What a discovery loop promises about the requests for an update that    *)
(* users leave on the chain: a register of them that can be trusted up to  *)
(* its horizon.  It records only what was requested and forgets nothing; a *)
(* request is closed once, for a payment that followed it or because there *)
(* was nothing to pay; and when the horizon moves, nothing below it is     *)
(* missing and nothing that was paid below it is open.  Where the register *)
(* is split into jobs, calls and documents, and who keeps it, is left to   *)
(* the specifications that implement it.                                   *)
(***************************************************************************)
EXTENDS Integers

VARIABLES
    emitted,          \* requests on the chain
    payments,         \* a request and a later block that has a payment for it
    known,            \* requests the register holds
    closed,           \* those nobody will claim for again
    retired,          \* those closed because nothing was to be paid
    horizon           \* the block the register is complete up to

vars == <<emitted, payments, known, closed, retired, horizon>>

RegisterInit ==
    /\ emitted = {} /\ payments = {}
    /\ known = {} /\ closed = {} /\ retired = {}
    /\ horizon = 0

(* A block is mined.  What it brings is not behind the horizon already.    *)
Happens ==
    /\ emitted \subseteq emitted' /\ payments \subseteq payments'
    /\ \A r \in emitted' \ emitted : r.block \in Nat /\ horizon <= r.block
    /\ \A p \in payments' \ payments : p.block \in Nat /\ horizon <= p.block
    /\ UNCHANGED <<known, closed, retired, horizon>>

Record ==
    /\ known \subseteq known' /\ known' \subseteq emitted
    /\ UNCHANGED <<emitted, payments, closed, retired, horizon>>

Close ==
    /\ closed \subseteq closed'
    /\ closed' \ closed \subseteq {r \in known : \E p \in payments : p.request = r}
    /\ UNCHANGED <<emitted, payments, known, retired, horizon>>

Retire ==
    /\ closed \subseteq closed' /\ retired \subseteq retired'
    /\ closed' \ closed = retired' \ retired
    /\ retired' \ retired \subseteq known
    /\ UNCHANGED <<emitted, payments, known, horizon>>

Advance ==
    /\ horizon' \in Nat
    /\ \A r \in emitted : r.block < horizon' => r \in known
    /\ \A p \in payments : p.block < horizon' => p.request \in closed
    /\ UNCHANGED <<emitted, payments, known, closed, retired>>

RegisterNext == Happens \/ Record \/ Close \/ Retire \/ Advance

RegisterSpec == RegisterInit /\ [][RegisterNext]_vars

-----------------------------------------------------------------------------
(* What the register is good for.  Below its horizon it is complete: every *)
(* request is there, and every one that was paid is closed.                *)
Complete ==
    /\ \A r \in emitted : r.block < horizon => r \in known
    /\ \A p \in payments : p.block < horizon => p.request \in closed

(* At any height it is honest: what it holds was requested, what it closed *)
(* it holds, and a closed request was paid or had nothing to be paid.      *)
Honest ==
    /\ known \subseteq emitted
    /\ closed \subseteq known
    /\ \A r \in closed \ retired : \E p \in payments : p.request = r

Trusted == Complete /\ Honest

============================================================================
