----------------------- MODULE RequestRegisterProofs -----------------------
(***************************************************************************)
(* What the register of requests promises follows from its steps alone.    *)
(* The two discovery loops implement it, so that it holds of both.         *)
(***************************************************************************)
EXTENDS RequestRegister, TLAPS

Blocks ==
    /\ horizon \in Nat
    /\ \A r \in emitted : r.block \in Nat
    /\ \A p \in payments : p.block \in Nat

RegisterInv == Blocks /\ Complete /\ Honest /\ retired \subseteq closed

LEMMA BlocksStep == RegisterInv /\ [RegisterNext]_vars => Blocks'
<1> SUFFICES ASSUME RegisterInv, [RegisterNext]_vars PROVE Blocks'
  OBVIOUS
<1> USE DEF RegisterInv, Blocks
<1>1. CASE Happens
  BY <1>1 DEF Happens
<1>2. CASE Record \/ Close \/ Retire
  BY <1>2 DEF Record, Close, Retire
<1>3. CASE Advance
  BY <1>3 DEF Advance
<1>4. CASE UNCHANGED vars
  BY <1>4 DEF vars
<1> QED BY <1>1, <1>2, <1>3, <1>4 DEF RegisterNext

(* Nothing new is behind the horizon, and the horizon moves when nothing   *)
(* behind its new place is missing.                                        *)
LEMMA CompleteStep == RegisterInv /\ [RegisterNext]_vars => Complete'
<1> SUFFICES ASSUME RegisterInv, [RegisterNext]_vars PROVE Complete'
  OBVIOUS
<1> USE DEF RegisterInv, Complete
<1>1. CASE Happens
  <2>1. ASSUME NEW r \in emitted', r.block < horizon PROVE r \in known
    BY <1>1, <2>1 DEF Happens, Blocks
  <2>2. ASSUME NEW p \in payments', p.block < horizon PROVE p.request \in closed
    BY <1>1, <2>2 DEF Happens, Blocks
  <2> QED BY <1>1, <2>1, <2>2 DEF Happens
<1>2. CASE Record \/ Close \/ Retire
  BY <1>2 DEF Record, Close, Retire
<1>3. CASE Advance
  BY <1>3 DEF Advance
<1>4. CASE UNCHANGED vars
  BY <1>4 DEF vars
<1> QED BY <1>1, <1>2, <1>3, <1>4 DEF RegisterNext

LEMMA HonestStep ==
    RegisterInv /\ [RegisterNext]_vars => Honest' /\ (retired \subseteq closed)'
<1> SUFFICES ASSUME RegisterInv, [RegisterNext]_vars
             PROVE  Honest' /\ retired' \subseteq closed'
  OBVIOUS
<1> USE DEF RegisterInv, Honest
<1>1. CASE Happens
  BY <1>1 DEF Happens
<1>2. CASE Record
  BY <1>2 DEF Record
<1>3. CASE Close
  <2>1. ASSUME NEW r \in closed' \ retired' PROVE \E p \in payments' : p.request = r
    BY <1>3, <2>1 DEF Close
  <2> QED BY <1>3, <2>1 DEF Close
<1>4. CASE Retire
  BY <1>4 DEF Retire
<1>5. CASE Advance
  BY <1>5 DEF Advance
<1>6. CASE UNCHANGED vars
  BY <1>6 DEF vars
<1> QED BY <1>1, <1>2, <1>3, <1>4, <1>5, <1>6 DEF RegisterNext

(* Whoever keeps the register can trust it: below the horizon nothing is   *)
(* missing and nothing paid is open, and above it nothing is made up.      *)
THEOREM RegisterTrusted == RegisterSpec => []Trusted
<1>1. RegisterInit => RegisterInv
  BY DEF RegisterInit, RegisterInv, Blocks, Complete, Honest
<1>2. RegisterInv /\ [RegisterNext]_vars => RegisterInv'
  BY BlocksStep, CompleteStep, HonestStep DEF RegisterInv
<1>3. RegisterInv => Trusted
  BY DEF RegisterInv, Trusted
<1> QED BY <1>1, <1>2, <1>3, PTL DEF RegisterSpec

=============================================================================
