---------------------------- MODULE EvmNonceProofs -----------------------------
(***************************************************************************)
(* Proofs about EvmNonce, for any number of transfers and chains.          *)
(*                                                                         *)
(* NoGapOfOwnCount is not inductive: a transaction enters the pool with    *)
(* the nonce its transfer carries, so the invariant also bounds the nonces *)
(* carried, from the moment the node is asked, by the count of the chain   *)
(* when the address asked about is the wallet's own; and a block leaves no *)
(* such transaction behind only because the pool holds a nonce once.       *)
(***************************************************************************)
EXTENDS MCEvmNonce, FiniteSetTheorems, TLAPS

(* The nonce a transfer carries was the wallet's at some moment, if it gave *)
(* the wallet's address.                                                    *)
CarriedOK(k) ==
  /\ k.phase = "resolving" /\ k.own => k.onchain <= mined
  /\ k.phase \in {"signing", "sending"} /\ k.own => k.nonce <= mined

(* The pool holds a nonce once, and finitely many transactions.             *)
PoolOK == IsFiniteSet(pool) /\ \A tx, other \in pool : tx.nonce = other.nonce => tx = other

(* The inductive invariant.                                                 *)
IInv ==
  /\ TypeOK
  /\ \A c \in Calls : CarriedOK(call[c])
  /\ PoolOK
  /\ NoGapOfOwnCount

(* A transfer of each phase has that phase's fields.                        *)
LEMMA PhaseFields ==
  ASSUME NEW k \in CallStates
  PROVE  /\ k.phase \in {"idle", "done", "resolving", "signing", "sending"}
         /\ k.phase = "idle" => k = Idle
         /\ k.phase = "done" => k \in {Finished("ok"), Finished("err")}
         /\ k.phase = "resolving" =>
              k \in [phase : {"resolving"}, chain : Chains, own : BOOLEAN, cached : Nat,
                     onchain : {Unset} \cup Nat]
         /\ k.phase = "signing" => k \in [phase : {"signing"}, chain : Chains, own : BOOLEAN, nonce : Nat]
         /\ k.phase = "sending" =>
              k \in [phase : {"sending"}, chain : Chains, own : BOOLEAN, nonce : Nat,
                     answer : {"none", "ok", "err"}]
  BY DEF CallStates, Idle, Finished

(* A change of one transfer leaves the others.                              *)
LEMMA OneCallChanges ==
  ASSUME TypeOK, NEW c \in Calls, NEW k \in CallStates, call' = [call EXCEPT ![c] = k]
  PROVE  /\ call' \in [Calls -> CallStates]
         /\ call'[c] = k
         /\ \A d \in Calls : d # c => call'[d] = call[d]
  BY DEF TypeOK

LEMMA InitIInv == Init => IInv
  <1>1. ASSUME Init PROVE TypeOK
    BY <1>1 DEF Init, TypeOK, CallStates, Idle, Unset
  <1>2. ASSUME Init PROVE \A c \in Calls : CarriedOK(call[c])
    BY <1>2 DEF Init, CarriedOK, Idle
  <1>3. ASSUME Init PROVE PoolOK /\ NoGapOfOwnCount
    BY <1>3, FS_EmptySet DEF Init, PoolOK, NoGapOfOwnCount
  <1> QED BY <1>1, <1>2, <1>3 DEF IInv

(* A step of one transfer that leaves the chain alone keeps the invariant   *)
(* when what the transfer becomes is well-typed and carries an old nonce.   *)
LEMMA QuietStep ==
  ASSUME IInv, NEW c \in Calls, NEW k \in CallStates, CarriedOK(k),
         call' = [call EXCEPT ![c] = k],
         local' \in [Chains -> {Unset} \cup Nat], tries' \in [Calls -> Nat],
         UNCHANGED <<mined, pool, paid>>
  PROVE  IInv'
  <1> USE DEF IInv
  <1>1. /\ call' \in [Calls -> CallStates]
        /\ call'[c] = k
        /\ \A d \in Calls : d # c => call'[d] = call[d]
    BY OneCallChanges
  <1>2. TypeOK'
    BY <1>1 DEF TypeOK
  <1>3. \A d \in Calls : CarriedOK(call[d])'
    BY <1>1 DEF CarriedOK
  <1>4. PoolOK' /\ NoGapOfOwnCount'
    BY DEF PoolOK, NoGapOfOwnCount
  <1> QED BY <1>2, <1>3, <1>4

LEMMA TransferKeeps ==
  ASSUME IInv, NEW c \in Calls, NEW ch \in Chains, NEW own \in BOOLEAN, Transfer(c, ch, own)
  PROVE  IInv'
  <1> DEFINE k == [phase |-> "resolving", chain |-> ch, own |-> own, cached |-> NonceOr0(local[ch]),
                   onchain |-> Unset]
  <1>1. NonceOr0(local[ch]) \in Nat
    BY DEF IInv, TypeOK, NonceOr0, Unset
  <1>2. k \in CallStates
    BY <1>1 DEF CallStates
  <1>3. CarriedOK(k)
    BY DEF CarriedOK, IInv, TypeOK, Unset
  <1>4. /\ call' = [call EXCEPT ![c] = k]
        /\ local' \in [Chains -> {Unset} \cup Nat] /\ tries' \in [Calls -> Nat]
        /\ UNCHANGED <<mined, pool, paid>>
    BY DEF Transfer, IInv, TypeOK
  <1> HIDE DEF k
  <1> QED BY <1>2, <1>3, <1>4, QuietStep

LEMMA FailureKeeps ==
  ASSUME IInv, NEW c \in Calls, NodeCountFails(c) \/ SignFails(c)
  PROVE  IInv'
  <1>1. Finished("err") \in CallStates /\ CarriedOK(Finished("err"))
    BY DEF CallStates, CarriedOK, Finished
  <1>2. /\ call' = [call EXCEPT ![c] = Finished("err")]
        /\ local' \in [Chains -> {Unset} \cup Nat] /\ tries' \in [Calls -> Nat]
        /\ UNCHANGED <<mined, pool, paid>>
    BY DEF NodeCountFails, SignFails, IInv, TypeOK
  <1> QED BY <1>1, <1>2, QuietStep

LEMMA NodeCountsKeeps ==
  ASSUME IInv, NEW c \in Calls, NodeCounts(c)
  PROVE  IInv'
  <1>1. call[c] \in CallStates /\ mined \in Nat /\ call[c].phase = "resolving"
    BY DEF IInv, TypeOK, NodeCounts
  <1>2. call[c] \in [phase : {"resolving"}, chain : Chains, own : BOOLEAN, cached : Nat,
                     onchain : {Unset} \cup Nat]
    BY <1>1, PhaseFields
  <1>3. PICK count \in CountsOf(call[c].own) : call' = [call EXCEPT ![c].onchain = count]
    BY DEF NodeCounts
  <1>4. count \in Nat /\ (call[c].own => count <= mined)
    BY <1>1, <1>2, ChainAssumption DEF CountsOf
  <1> DEFINE k == [call[c] EXCEPT !.onchain = count]
  <1>5. k \in CallStates
    BY <1>2, <1>4 DEF CallStates
  <1>6. CarriedOK(k)
    BY <1>2, <1>4 DEF CarriedOK
  <1>7. /\ call' = [call EXCEPT ![c] = k]
        /\ local' \in [Chains -> {Unset} \cup Nat] /\ tries' \in [Calls -> Nat]
        /\ UNCHANGED <<mined, pool, paid>>
    BY <1>3 DEF NodeCounts, IInv, TypeOK
  <1> HIDE DEF k
  <1> QED BY <1>5, <1>6, <1>7, QuietStep

LEMMA ResolvedKeeps ==
  ASSUME IInv, NEW c \in Calls, Resolved(c)
  PROVE  IInv'
  <1> DEFINE k == [phase |-> "signing", chain |-> call[c].chain, own |-> call[c].own,
                   nonce |-> NonceToSend(call[c].onchain, call[c].cached)]
  <1>1. call[c] \in CallStates /\ call[c].phase = "resolving" /\ CarriedOK(call[c])
    BY DEF IInv, TypeOK, Resolved
  <1>2. call[c] \in [phase : {"resolving"}, chain : Chains, own : BOOLEAN, cached : Nat,
                     onchain : {Unset} \cup Nat]
    BY <1>1, PhaseFields
  <1>3. /\ call[c].onchain \in Nat /\ call[c].chain \in Chains /\ call[c].own \in BOOLEAN
        /\ call[c].own => call[c].onchain <= mined
    BY <1>1, <1>2 DEF Resolved, CarriedOK
  <1>4. k \in CallStates
    BY <1>3 DEF CallStates, NonceToSend
  <1>5. CarriedOK(k)
    BY <1>3 DEF CarriedOK, NonceToSend
  <1>6. local' \in [Chains -> {Unset} \cup Nat]
    BY <1>3 DEF Resolved, IInv, TypeOK
  <1>7. call' = [call EXCEPT ![c] = k] /\ tries' \in [Calls -> Nat]
        /\ UNCHANGED <<mined, pool, paid>>
    BY DEF Resolved, IInv, TypeOK
  <1> HIDE DEF k
  <1> QED BY <1>4, <1>5, <1>6, <1>7, QuietStep

LEMMA SignedKeeps ==
  ASSUME IInv, NEW c \in Calls, Signed(c)
  PROVE  IInv'
  <1> DEFINE k == [phase |-> "sending", chain |-> call[c].chain, own |-> call[c].own,
                   nonce |-> call[c].nonce,
                   answer |-> "none"]
  <1>1. call[c] \in CallStates /\ call[c].phase = "signing" /\ CarriedOK(call[c])
    BY DEF IInv, TypeOK, Signed
  <1>2. call[c] \in [phase : {"signing"}, chain : Chains, own : BOOLEAN, nonce : Nat]
    BY <1>1, PhaseFields
  <1>3. k \in CallStates
    BY <1>2 DEF CallStates
  <1>4. CarriedOK(k)
    BY <1>1 DEF CarriedOK
  <1>5. call' = [call EXCEPT ![c] = k]
    BY DEF Signed, IInv, TypeOK
  <1>6. local' \in [Chains -> {Unset} \cup Nat] /\ tries' \in [Calls -> Nat]
        /\ UNCHANGED <<mined, pool, paid>>
    BY DEF Signed, IInv, TypeOK
  <1> HIDE DEF k
  <1> QED BY <1>3, <1>4, <1>5, <1>6, QuietStep

(* The answer of the node changes nothing but the transfer's answer.        *)
LEMMA AnsweredCall ==
  ASSUME IInv, NEW c \in Calls, Unanswered(c), NEW answer \in {"ok", "err"}
  PROVE  LET k == [call[c] EXCEPT !.answer = answer]
         IN  k \in CallStates /\ CarriedOK(k)
  <1>1. call[c] \in CallStates /\ call[c].phase = "sending" /\ CarriedOK(call[c])
    BY DEF IInv, TypeOK, Unanswered
  <1>2. call[c] \in [phase : {"sending"}, chain : Chains, own : BOOLEAN, nonce : Nat,
                     answer : {"none", "ok", "err"}]
    BY <1>1, PhaseFields
  <1>3. [call[c] EXCEPT !.answer = answer] \in
          [phase : {"sending"}, chain : Chains, own : BOOLEAN, nonce : Nat,
           answer : {"none", "ok", "err"}]
    BY <1>2
  <1> QED BY <1>1, <1>2, <1>3 DEF CallStates, CarriedOK

LEMMA NodeRefusesKeeps ==
  ASSUME IInv, NEW c \in Calls, NodeRefuses(c)
  PROVE  IInv'
  <1> DEFINE k == [call[c] EXCEPT !.answer = "err"]
  <1>1. k \in CallStates /\ CarriedOK(k)
    BY AnsweredCall DEF NodeRefuses
  <1>2. /\ call' = [call EXCEPT ![c] = k]
        /\ local' \in [Chains -> {Unset} \cup Nat] /\ tries' \in [Calls -> Nat]
        /\ UNCHANGED <<mined, pool, paid>>
    BY DEF NodeRefuses, IInv, TypeOK
  <1> HIDE DEF k
  <1> QED BY <1>1, <1>2, QuietStep

LEMMA SentKeeps ==
  ASSUME IInv, NEW c \in Calls, Sent(c)
  PROVE  IInv'
  <1> DEFINE k == Finished(ResultOf(call[c].answer))
  <1>1. call[c] \in CallStates /\ call[c].phase = "sending"
    BY DEF IInv, TypeOK, Sent
  <1>2. call[c] \in [phase : {"sending"}, chain : Chains, own : BOOLEAN, nonce : Nat,
                     answer : {"none", "ok", "err"}]
    BY <1>1, PhaseFields
  <1>3. k \in CallStates
    BY <1>2 DEF CallStates, Sent, ResultOf
  <1>4. CarriedOK(k)
    BY DEF CarriedOK, Finished
  <1>5. NonceOr0(local[call[c].chain]) + 1 \in Nat
    BY <1>2 DEF IInv, TypeOK, NonceOr0, Unset
  <1>6. local' \in [Chains -> {Unset} \cup Nat]
    BY <1>5 DEF Sent, IInv, TypeOK
  <1>7. call' = [call EXCEPT ![c] = k] /\ tries' \in [Calls -> Nat]
        /\ UNCHANGED <<mined, pool, paid>>
    BY DEF Sent, IInv, TypeOK
  <1> HIDE DEF k
  <1> QED BY <1>3, <1>4, <1>6, <1>7, QuietStep

(* A transaction the node accepts is new, and the next one of the chain if  *)
(* its transfer gave the wallet's address.                                  *)
LEMMA AcceptedIsNew ==
  ASSUME IInv, NEW c \in Calls, Unanswered(c), Accepts(call[c])
  PROVE  /\ TxOf(c) \in [nonce : Nat, payment : Calls, own : BOOLEAN]
         /\ TxOf(c) \notin pool
         /\ \A P : P = pool \cup {TxOf(c)} =>
              /\ IsFiniteSet(P)
              /\ \A tx, other \in P : tx.nonce = other.nonce => tx = other
              /\ \A tx \in P : tx.own => tx.nonce = mined
  <1> USE DEF IInv
  <1>1. call[c] \in CallStates /\ call[c].phase = "sending" /\ CarriedOK(call[c])
    BY DEF TypeOK, Unanswered
  <1>2. call[c].nonce \in Nat /\ call[c].own \in BOOLEAN /\ mined \in Nat
    BY <1>1, PhaseFields DEF TypeOK
  <1>3. call[c].own => call[c].nonce = mined
    BY <1>1, <1>2 DEF CarriedOK, Accepts
  <1>4. \A tx \in pool : tx.nonce # TxOf(c).nonce
    BY DEF Accepts, TxOf
  <1>5. TxOf(c).own => TxOf(c).nonce = mined
    BY <1>3 DEF TxOf
  <1>6. TxOf(c) \in [nonce : Nat, payment : Calls, own : BOOLEAN]
    BY <1>2 DEF TxOf
  <1>7. IsFiniteSet(pool \cup {TxOf(c)})
    BY FS_AddElement DEF PoolOK
  <1> HIDE DEF IInv
  <1> QED BY <1>4, <1>5, <1>6, <1>7 DEF PoolOK, NoGapOfOwnCount, IInv

LEMMA NodeAcceptsKeeps ==
  ASSUME IInv, NEW c \in Calls, NodeAccepts(c)
  PROVE  IInv'
  <1> USE DEF IInv
  <1>1. PICK answer \in {"ok", "err"} : call' = [call EXCEPT ![c].answer = answer]
    BY DEF NodeAccepts
  <1> DEFINE k == [call[c] EXCEPT !.answer = answer]
  <1>2. k \in CallStates /\ CarriedOK(k)
    BY AnsweredCall DEF NodeAccepts
  <1>3. call' = [call EXCEPT ![c] = k]
    BY <1>1 DEF TypeOK
  <1>4. pool' = pool \cup {TxOf(c)} /\ UNCHANGED <<local, tries, mined, paid>>
    BY DEF NodeAccepts
  <1> HIDE DEF k
  <1>5. /\ call' \in [Calls -> CallStates]
        /\ call'[c] = k
        /\ \A d \in Calls : d # c => call'[d] = call[d]
    BY <1>2, <1>3, OneCallChanges
  <1>6. /\ TxOf(c) \in [nonce : Nat, payment : Calls, own : BOOLEAN]
        /\ IsFiniteSet(pool')
        /\ \A tx, other \in pool' : tx.nonce = other.nonce => tx = other
        /\ \A tx \in pool' : tx.own => tx.nonce = mined
    BY <1>4, AcceptedIsNew DEF NodeAccepts
  <1>7. TypeOK'
    BY <1>4, <1>5, <1>6 DEF TypeOK
  <1>8. \A d \in Calls : CarriedOK(call[d])'
    BY <1>2, <1>4, <1>5 DEF CarriedOK
  <1>9. PoolOK' /\ NoGapOfOwnCount'
    BY <1>4, <1>6 DEF PoolOK, NoGapOfOwnCount
  <1> QED BY <1>7, <1>8, <1>9

(* A block raises the count, and takes the only transaction that had the    *)
(* next nonce: none of those that gave the wallet's address is left.        *)
LEMMA MineKeeps ==
  ASSUME IInv, Mine
  PROVE  IInv'
  <1> USE DEF IInv
  <1>1. PICK tx \in pool : /\ tx.nonce = mined
                           /\ pool' = pool \ {tx}
                           /\ mined' = mined + 1
                           /\ paid' = [paid EXCEPT ![tx.payment] = @ + 1]
                           /\ UNCHANGED <<local, call, tries>>
    BY DEF Mine
  <1>2. \A other \in pool' : ~other.own
    BY <1>1 DEF PoolOK, NoGapOfOwnCount, TypeOK
  <1>3. mined' \in Nat /\ mined' > mined
    BY <1>1 DEF TypeOK
  <1>4. paid' \in [Calls -> Nat]
    BY <1>1 DEF TypeOK
  <1>5. TypeOK'
    BY <1>1, <1>3, <1>4 DEF TypeOK
  <1>6. ASSUME NEW d \in Calls PROVE CarriedOK(call[d])'
    <2>1. call'[d] = call[d] /\ CarriedOK(call[d]) /\ call[d] \in CallStates
      BY <1>1 DEF TypeOK
    <2>2. call[d].phase = "resolving" => call[d].onchain \in {Unset} \cup Nat
      BY <2>1, PhaseFields
    <2>3. call[d].phase \in {"signing", "sending"} => call[d].nonce \in Nat
      BY <2>1, PhaseFields
    <2>4. mined \in Nat
      BY DEF TypeOK
    <2>5. call[d].phase = "resolving" /\ call[d].own => call[d].onchain <= mined'
      BY <1>3, <2>1, <2>2, <2>4 DEF CarriedOK, Unset
    <2>6. call[d].phase \in {"signing", "sending"} /\ call[d].own => call[d].nonce <= mined'
      BY <1>3, <2>1, <2>3, <2>4 DEF CarriedOK
    <2> QED BY <2>1, <2>5, <2>6 DEF CarriedOK
  <1>7. PoolOK'
    BY <1>1, FS_RemoveElement DEF PoolOK
  <1>8. NoGapOfOwnCount'
    BY <1>2 DEF NoGapOfOwnCount
  <1> QED BY <1>5, <1>6, <1>7, <1>8

(* What the node may still accept of the transfers an upgrade drops.        *)
LEMMA LateIsOne ==
  ASSUME IInv, Upgrade
  PROVE  \/ pool' = pool
         \/ \E c \in Calls : /\ Unanswered(c) /\ Accepts(call[c])
                             /\ pool' = pool \cup {TxOf(c)}
  <1>1. PICK late \in {{}} \cup {{c} : c \in {d \in Calls : Unanswered(d) /\ Accepts(call[d])}} :
          pool' = pool \cup {TxOf(c) : c \in late}
    BY DEF Upgrade
  <1>2. CASE late = {}
    BY <1>1, <1>2
  <1>3. CASE late # {}
    <2>1. PICK c \in Calls : late = {c} /\ Unanswered(c) /\ Accepts(call[c])
      BY <1>3
    <2> QED BY <1>1, <2>1
  <1> QED BY <1>2, <1>3

LEMMA UpgradeKeeps ==
  ASSUME IInv, Upgrade
  PROVE  IInv'
  <1> USE DEF IInv
  <1>1. /\ call' = [c \in Calls |-> IF call[c].phase = "done" THEN call[c] ELSE Idle]
        /\ UNCHANGED <<local, tries, mined, paid>>
    BY DEF Upgrade
  <1>2. call' \in [Calls -> CallStates] /\ \A c \in Calls : CarriedOK(call[c])'
    <2>1. Idle \in CallStates
      BY DEF CallStates
    <2>2. call' \in [Calls -> CallStates]
      BY <1>1, <2>1 DEF TypeOK
    <2>3. \A c \in Calls : call'[c].phase \in {"done", "idle"}
      BY <1>1 DEF Idle
    <2> QED BY <2>2, <2>3 DEF CarriedOK
  <1>3. pool' \in SUBSET [nonce : Nat, payment : Calls, own : BOOLEAN] /\ PoolOK' /\ NoGapOfOwnCount'
    <2>1. CASE pool' = pool
      BY <1>1, <2>1 DEF TypeOK, PoolOK, NoGapOfOwnCount
    <2>2. CASE pool' # pool
      <3>1. PICK c \in Calls : /\ Unanswered(c) /\ Accepts(call[c])
                               /\ pool' = pool \cup {TxOf(c)}
        BY <2>2, LateIsOne
      <3>2. /\ TxOf(c) \in [nonce : Nat, payment : Calls, own : BOOLEAN]
            /\ IsFiniteSet(pool')
            /\ \A tx, other \in pool' : tx.nonce = other.nonce => tx = other
            /\ \A tx \in pool' : tx.own => tx.nonce = mined
        BY <3>1, AcceptedIsNew
      <3> QED BY <1>1, <3>1, <3>2 DEF TypeOK, PoolOK, NoGapOfOwnCount
    <2> QED BY <2>1, <2>2
  <1>4. TypeOK'
    BY <1>1, <1>2, <1>3 DEF TypeOK
  <1> QED BY <1>2, <1>3, <1>4

(* The invariant holds whatever the transfers, the node, callers of         *)
(* set_chain_nonce and upgrades do.                                         *)
THEOREM Inductive == Spec => []IInv
  <1>1. IInv /\ [Next]_vars => IInv'
    <2> SUFFICES ASSUME IInv, [Next]_vars PROVE IInv'
      OBVIOUS
    <2>1. CASE \E c \in Calls, ch \in Chains, own \in BOOLEAN : Transfer(c, ch, own)
      BY <2>1, TransferKeeps
    <2>2. CASE \E c \in Calls : NodeCountFails(c) \/ SignFails(c)
      BY <2>2, FailureKeeps
    <2>3. CASE \E c \in Calls : NodeCounts(c)
      BY <2>3, NodeCountsKeeps
    <2>4. CASE \E c \in Calls : Resolved(c)
      BY <2>4, ResolvedKeeps
    <2>5. CASE \E c \in Calls : Signed(c)
      BY <2>5, SignedKeeps
    <2>6. CASE \E c \in Calls : NodeAccepts(c)
      BY <2>6, NodeAcceptsKeeps
    <2>7. CASE \E c \in Calls : NodeRefuses(c)
      BY <2>7, NodeRefusesKeeps
    <2>8. CASE \E c \in Calls : Sent(c)
      BY <2>8, SentKeeps
    <2>9. CASE Mine
      BY <2>9, MineKeeps
    <2>10. CASE \E ch \in Chains, n \in {Unset} \cup 0 .. MaxNonce : SetChainNonce(ch, n)
      <3>1. local' \in [Chains -> {Unset} \cup Nat] /\ UNCHANGED <<call, tries, mined, pool, paid>>
        BY <2>10, ChainAssumption DEF SetChainNonce, IInv, TypeOK
      <3> QED BY <3>1 DEF IInv, TypeOK, PoolOK, NoGapOfOwnCount, CarriedOK
    <2>11. CASE Upgrade
      BY <2>11, UpgradeKeeps
    <2>12. CASE UNCHANGED vars
      BY <2>12 DEF vars, IInv, TypeOK, PoolOK, NoGapOfOwnCount, CarriedOK
    <2> QED BY <2>1, <2>2, <2>3, <2>4, <2>5, <2>6, <2>7, <2>8, <2>9, <2>10, <2>11, <2>12
            DEF Next
  <1> QED BY <1>1, InitIInv, PTL DEF Spec

(* The types of the state, for any constants.                               *)
THEOREM TypeCorrect == Spec => []TypeOK
  <1>1. IInv => TypeOK
    BY DEF IInv
  <1> QED BY <1>1, Inductive, PTL

(* resolve_account_nonce: a transfer that gave the wallet's own address     *)
(* never waits behind a nonce that nobody uses, for any number of transfers,*)
(* chains and retries, and whatever is cached by set_chain_nonce or by      *)
(* transfers that gave another account's address.                           *)
THEOREM OwnCountLeavesNoGap == Spec => []NoGapOfOwnCount
  <1>1. IInv => NoGapOfOwnCount
    BY DEF IInv
  <1> QED BY <1>1, Inductive, PTL

-----------------------------------------------------------------------------
(* What was paid, what pends and what still asks the node are the tries of  *)
(* a payment; an Ok on its way back to the caller stands for a transaction. *)
PoolOf(c) == {tx \in pool : tx.payment = c}
Pending(c) == Cardinality(PoolOf(c))
Asking(c) == call[c].phase \in {"resolving", "signing"} \/ Unanswered(c)
One(holds) == IF holds THEN 1 ELSE 0

Counted(c) == paid[c] + Pending(c) + One(Asking(c)) <= tries[c]
ToldTrue(c) ==
  call[c] = Finished("ok") \/ (call[c].phase = "sending" /\ call[c].answer = "ok") =>
    paid[c] > 0 \/ PoolOf(c) # {}

(* Inductive together with IInv.                                            *)
PaidInv == \A c \in Calls : Counted(c) /\ ToldTrue(c)

(* What pends of a payment is a number.                                     *)
LEMMA PendingIsANumber ==
  ASSUME PoolOK, NEW c \in Calls
  PROVE  IsFiniteSet(PoolOf(c)) /\ Pending(c) \in Nat
  <1>1. PoolOf(c) \in SUBSET pool
    BY DEF PoolOf
  <1>2. IsFiniteSet(PoolOf(c))
    BY <1>1, FS_Subset DEF PoolOK
  <1> QED BY <1>2, FS_CardinalityType DEF Pending

(* A transaction that enters the pool pends for its own payment only.       *)
LEMMA NewPends ==
  ASSUME IInv, NEW c \in Calls, Unanswered(c), Accepts(call[c]), pool' = pool \cup {TxOf(c)}
  PROVE  /\ Pending(c)' = Pending(c) + 1 /\ PoolOf(c)' # {}
         /\ \A d \in Calls : d # c => PoolOf(d)' = PoolOf(d)
  <1>1. TxOf(c).payment = c /\ TxOf(c) \notin PoolOf(c)
    BY AcceptedIsNew DEF TxOf, PoolOf
  <1> DEFINE S == PoolOf(c)
             x == TxOf(c)
  <1>2. PoolOf(c)' = S \cup {x}
    BY <1>1 DEF PoolOf
  <1>3. \A d \in Calls : d # c => PoolOf(d)' = PoolOf(d)
    BY <1>1 DEF PoolOf
  <1>4. IsFiniteSet(S)
    BY PendingIsANumber DEF IInv
  <1>5. Cardinality(S \cup {x}) = Cardinality(S) + 1
    BY <1>1, <1>4, FS_AddElement
  <1> QED BY <1>2, <1>3, <1>5 DEF Pending

(* A step keeps it of a payment it does not touch.                          *)
LEMMA OtherPayments ==
  ASSUME NEW c \in Calls, Counted(c), ToldTrue(c),
         UNCHANGED <<call[c], tries[c], paid[c]>>, PoolOf(c)' = PoolOf(c)
  PROVE  Counted(c)' /\ ToldTrue(c)'
  BY DEF Counted, ToldTrue, Asking, Unanswered, One, Pending

(* A transfer that leaves the chain alone, and asks no more than before,    *)
(* keeps it, unless it now tells of an Ok it did not hear.                  *)
LEMMA QuietPaid ==
  ASSUME IInv, PaidInv, NEW c \in Calls, NEW k \in CallStates,
         call' = [call EXCEPT ![c] = k], tries' \in [Calls -> Nat],
         \A d \in Calls : d # c => tries'[d] = tries[d],
         k.phase \in {"resolving", "signing"} \/ (k.phase = "sending" /\ k.answer = "none") =>
           (Asking(c) /\ tries'[c] = tries[c]) \/ (~Asking(c) /\ tries'[c] = tries[c] + 1),
         tries'[c] >= tries[c],
         k = Finished("ok") \/ (k.phase = "sending" /\ k.answer = "ok") =>
           call[c].phase = "sending" /\ call[c].answer = "ok",
         UNCHANGED <<mined, pool, paid>>
  PROVE  PaidInv'
  <1>1. /\ call'[c] = k
        /\ \A d \in Calls : d # c => call'[d] = call[d]
    BY DEF IInv, TypeOK
  <1>2. \A d : PoolOf(d)' = PoolOf(d)
    BY DEF PoolOf
  <1>3. ASSUME NEW d \in Calls, d # c PROVE Counted(d)' /\ ToldTrue(d)'
    BY <1>1, <1>2, <1>3, OtherPayments DEF PaidInv
  <1>4. Asking(c)' <=> \/ k.phase \in {"resolving", "signing"}
                       \/ k.phase = "sending" /\ k.answer = "none"
    BY <1>1 DEF Asking, Unanswered
  <1>5. Counted(c)'
    <2>1. /\ paid[c] \in Nat /\ tries[c] \in Nat /\ tries'[c] \in Nat
          /\ paid[c] + Pending(c) + One(Asking(c)) <= tries[c]
      BY DEF PaidInv, Counted, IInv, TypeOK
    <2>2. Pending(c) \in Nat /\ One(Asking(c)) = (IF Asking(c) THEN 1 ELSE 0)
      BY PendingIsANumber DEF One, IInv
    <2>3. Pending(c)' = Pending(c)
      BY <1>2 DEF Pending
    <2>4. One(Asking(c))' = IF Asking(c)' THEN 1 ELSE 0
      BY DEF One
    <2>5. CASE Asking(c)'
      <3>1. \/ Asking(c) /\ tries'[c] = tries[c]
            \/ ~Asking(c) /\ tries'[c] = tries[c] + 1
        BY <1>4, <2>5
      <3> QED BY <2>1, <2>2, <2>3, <2>4, <2>5, <3>1 DEF Counted
    <2>6. CASE ~Asking(c)'
      BY <2>1, <2>2, <2>3, <2>4, <2>6 DEF Counted
    <2> QED BY <2>5, <2>6
  <1>6. ToldTrue(c)'
    BY <1>1, <1>2 DEF PaidInv, ToldTrue
  <1> QED BY <1>3, <1>5, <1>6 DEF PaidInv

LEMMA AskingStep ==
  ASSUME IInv, PaidInv, NEW c \in Calls,
         \/ \E ch \in Chains, own \in BOOLEAN : Transfer(c, ch, own)
         \/ NodeCounts(c) \/ NodeCountFails(c) \/ Resolved(c) \/ Signed(c) \/ SignFails(c)
         \/ NodeRefuses(c) \/ Sent(c)
  PROVE  PaidInv'
  <1> USE DEF IInv
  <1>1. call[c] \in CallStates /\ tries \in [Calls -> Nat] /\ call \in [Calls -> CallStates]
    BY DEF TypeOK
  <1>2. ASSUME NEW ch \in Chains, NEW own \in BOOLEAN, Transfer(c, ch, own)
        PROVE  PaidInv'
    <2> DEFINE k == [phase |-> "resolving", chain |-> ch, own |-> own, cached |-> NonceOr0(local[ch]),
                     onchain |-> Unset]
    <2>1. k \in CallStates /\ k.phase = "resolving"
      <3>1. NonceOr0(local[ch]) \in Nat
        BY DEF TypeOK, NonceOr0, Unset
      <3> QED BY <3>1 DEF CallStates
    <2>2. call' = [call EXCEPT ![c] = k] /\ UNCHANGED <<mined, pool, paid>>
      BY <1>2 DEF Transfer
    <2>3. ~Asking(c) /\ k # Finished("ok")
      BY <1>2 DEF Transfer, Asking, Unanswered, Idle, Finished
    <2>4. /\ tries' \in [Calls -> Nat] /\ tries'[c] = tries[c] + 1 /\ tries'[c] >= tries[c]
          /\ \A d \in Calls : d # c => tries'[d] = tries[d]
      BY <1>1, <1>2 DEF Transfer
    <2> HIDE DEF k
    <2> QED BY <2>1, <2>2, <2>3, <2>4, QuietPaid
  <1>3. ASSUME NEW k \in CallStates, call' = [call EXCEPT ![c] = k],
               k.phase \in {"resolving", "signing"} \/ (k.phase = "sending" /\ k.answer = "none")
                 => Asking(c),
               k = Finished("ok") \/ (k.phase = "sending" /\ k.answer = "ok") =>
                 call[c].phase = "sending" /\ call[c].answer = "ok",
               UNCHANGED <<tries, mined, pool, paid>>
        PROVE  PaidInv'
    <2>1. /\ tries' \in [Calls -> Nat] /\ tries'[c] = tries[c] /\ tries'[c] >= tries[c]
          /\ \A d \in Calls : d # c => tries'[d] = tries[d]
      BY <1>1, <1>3
    <2>2. k.phase \in {"resolving", "signing"} \/ (k.phase = "sending" /\ k.answer = "none") =>
            (Asking(c) /\ tries'[c] = tries[c]) \/ (~Asking(c) /\ tries'[c] = tries[c] + 1)
      BY <1>3, <2>1
    <2>3. UNCHANGED <<mined, pool, paid>>
      BY <1>3
    <2> QED BY <1>3, <2>1, <2>2, <2>3, QuietPaid
  <1>4. CASE NodeCountFails(c) \/ SignFails(c)
    <2>1. Finished("err") \in CallStates /\ Finished("err") # Finished("ok")
          /\ Finished("err").phase = "done"
      BY DEF CallStates, Finished
    <2> QED BY <1>3, <1>4, <2>1 DEF NodeCountFails, SignFails
  <1>5. CASE NodeCounts(c)
    <2>1. call[c].phase = "resolving" /\ mined \in Nat
      BY <1>5 DEF NodeCounts, TypeOK
    <2>2. call[c] \in [phase : {"resolving"}, chain : Chains, own : BOOLEAN, cached : Nat,
                       onchain : {Unset} \cup Nat]
      BY <1>1, <2>1, PhaseFields
    <2>3. PICK count \in CountsOf(call[c].own) : call' = [call EXCEPT ![c].onchain = count]
      BY <1>5 DEF NodeCounts
    <2>4. count \in Nat
      BY <2>1, ChainAssumption DEF CountsOf
    <2> DEFINE k == [call[c] EXCEPT !.onchain = count]
    <2>5. k \in CallStates /\ k.phase = "resolving" /\ k # Finished("ok")
      BY <2>1, <2>2, <2>4 DEF CallStates, Finished
    <2>6. call' = [call EXCEPT ![c] = k] /\ UNCHANGED <<tries, mined, pool, paid>>
      BY <1>1, <1>5, <2>3 DEF NodeCounts
    <2>7. Asking(c)
      BY <2>1 DEF Asking
    <2> HIDE DEF k
    <2> QED BY <1>3, <2>5, <2>6, <2>7
  <1>6. CASE Resolved(c)
    <2> DEFINE k == [phase |-> "signing", chain |-> call[c].chain, own |-> call[c].own,
                     nonce |-> NonceToSend(call[c].onchain, call[c].cached)]
    <2>1. call[c].phase = "resolving"
      BY <1>6 DEF Resolved
    <2>2. call[c] \in [phase : {"resolving"}, chain : Chains, own : BOOLEAN, cached : Nat,
                       onchain : {Unset} \cup Nat]
      BY <1>1, <2>1, PhaseFields
    <2>3. k \in CallStates /\ k.phase = "signing" /\ k # Finished("ok")
      BY <1>6, <2>2 DEF CallStates, Finished, NonceToSend, Resolved
    <2>4. call' = [call EXCEPT ![c] = k] /\ UNCHANGED <<tries, mined, pool, paid>>
      BY <1>6 DEF Resolved
    <2>5. Asking(c)
      BY <2>1 DEF Asking
    <2> HIDE DEF k
    <2> QED BY <1>3, <2>3, <2>4, <2>5
  <1>7. CASE Signed(c)
    <2> DEFINE k == [phase |-> "sending", chain |-> call[c].chain, own |-> call[c].own,
                   nonce |-> call[c].nonce,
                     answer |-> "none"]
    <2>1. call[c].phase = "signing"
      BY <1>7 DEF Signed
    <2>2. call[c] \in [phase : {"signing"}, chain : Chains, own : BOOLEAN, nonce : Nat]
      BY <1>1, <2>1, PhaseFields
    <2>3. k \in CallStates /\ k.phase = "sending" /\ k.answer = "none" /\ k # Finished("ok")
      BY <2>2 DEF CallStates, Finished
    <2>4. call' = [call EXCEPT ![c] = k] /\ UNCHANGED <<tries, mined, pool, paid>>
      BY <1>7 DEF Signed
    <2>5. Asking(c)
      BY <2>1 DEF Asking
    <2> HIDE DEF k
    <2> QED BY <1>3, <2>3, <2>4, <2>5
  <1>8. CASE NodeRefuses(c)
    <2> DEFINE k == [call[c] EXCEPT !.answer = "err"]
    <2>1. Unanswered(c) /\ call' = [call EXCEPT ![c] = k]
          /\ UNCHANGED <<tries, mined, pool, paid>>
      BY <1>1, <1>8 DEF NodeRefuses
    <2>2. call[c].phase = "sending"
      BY <2>1 DEF Unanswered
    <2>3. call[c] \in [phase : {"sending"}, chain : Chains, own : BOOLEAN, nonce : Nat,
                       answer : {"none", "ok", "err"}]
      BY <1>1, <2>2, PhaseFields
    <2>4. k.phase = "sending" /\ k.answer = "err" /\ k # Finished("ok")
      BY <2>3 DEF Finished
    <2>5. k \in CallStates
      BY <2>1, AnsweredCall
    <2> HIDE DEF k
    <2> QED BY <1>3, <2>1, <2>4, <2>5
  <1>9. CASE Sent(c)
    <2> DEFINE k == Finished(ResultOf(call[c].answer))
    <2>1. call[c].phase = "sending" /\ call[c].answer # "none"
          /\ call' = [call EXCEPT ![c] = k] /\ UNCHANGED <<tries, mined, pool, paid>>
      BY <1>9 DEF Sent
    <2>2. call[c] \in [phase : {"sending"}, chain : Chains, own : BOOLEAN, nonce : Nat,
                       answer : {"none", "ok", "err"}]
      BY <1>1, <2>1, PhaseFields
    <2>3. /\ k \in CallStates /\ k.phase = "done"
          /\ k = Finished("ok") => call[c].answer = "ok"
      BY <2>1, <2>2 DEF CallStates, Finished, ResultOf
    <2> HIDE DEF k
    <2> QED BY <1>3, <2>1, <2>3
  <1> QED BY <1>2, <1>4, <1>5, <1>6, <1>7, <1>8, <1>9

(* The node takes a transaction into its pool: who asked now pends.         *)
LEMMA AcceptedPays ==
  ASSUME IInv, PaidInv, NEW c \in Calls, NodeAccepts(c)
  PROVE  PaidInv'
  <1> USE DEF IInv
  <1>1. PICK answer \in {"ok", "err"} : call' = [call EXCEPT ![c].answer = answer]
    BY DEF NodeAccepts
  <1>2. call[c] \in [phase : {"sending"}, chain : Chains, own : BOOLEAN, nonce : Nat,
                     answer : {"none", "ok", "err"}]
    BY PhaseFields DEF NodeAccepts, Unanswered, TypeOK
  <1>3. /\ call'[c].phase = "sending" /\ call'[c].answer = answer
        /\ \A d \in Calls : d # c => call'[d] = call[d]
    BY <1>1, <1>2 DEF TypeOK
  <1>4. /\ pool' = pool \cup {TxOf(c)} /\ Asking(c)
        /\ UNCHANGED <<local, tries, mined, paid>>
    BY DEF NodeAccepts, Asking
  <1>5. /\ Pending(c)' = Pending(c) + 1 /\ PoolOf(c)' # {}
        /\ \A d \in Calls : d # c => PoolOf(d)' = PoolOf(d)
    BY <1>4, NewPends DEF NodeAccepts
  <1>6. ASSUME NEW d \in Calls, d # c PROVE Counted(d)' /\ ToldTrue(d)'
    BY <1>3, <1>4, <1>5, <1>6, OtherPayments DEF PaidInv
  <1>7. Counted(c)' /\ ToldTrue(c)'
    <2>1. ~Asking(c)'
      BY <1>1, <1>3 DEF Asking, Unanswered
    <2>2. One(Asking(c))' = 0 /\ One(Asking(c)) = 1
      BY <1>4, <2>1 DEF One
    <2>3. /\ paid[c] \in Nat /\ tries[c] \in Nat /\ Pending(c) \in Nat
          /\ paid[c] + Pending(c) + 1 <= tries[c]
      BY <2>2, PendingIsANumber DEF PaidInv, Counted, TypeOK
    <2>4. paid'[c] = paid[c] /\ tries'[c] = tries[c]
      BY <1>4
    <2>5. paid'[c] + Pending(c)' + One(Asking(c))' <= tries'[c]
      BY <1>5, <2>2, <2>3, <2>4
    <2> QED BY <1>5, <2>5 DEF Counted, ToldTrue
  <1> QED BY <1>6, <1>7 DEF PaidInv

(* A block takes one transaction of the pool: that one is paid.             *)
LEMMA MinedIsPaid ==
  ASSUME IInv, PaidInv, Mine
  PROVE  PaidInv'
  <1> USE DEF IInv
  <1>1. PICK tx \in pool : /\ pool' = pool \ {tx}
                           /\ paid' = [paid EXCEPT ![tx.payment] = @ + 1]
                           /\ UNCHANGED <<local, call, tries>>
    BY DEF Mine
  <1>2. tx.payment \in Calls
    BY <1>1 DEF TypeOK
  <1>3. ASSUME NEW d \in Calls, d # tx.payment PROVE Counted(d)' /\ ToldTrue(d)'
    <2>1. paid'[d] = paid[d]
      BY <1>1, <1>3 DEF TypeOK
    <2>2. PoolOf(d)' = PoolOf(d)
      BY <1>1, <1>3 DEF PoolOf
    <2> QED BY <1>1, <2>1, <2>2, OtherPayments DEF PaidInv
  <1>4. ASSUME NEW d \in Calls, d = tx.payment PROVE Counted(d)' /\ ToldTrue(d)'
    <2>1. paid'[d] = paid[d] + 1 /\ paid[d] \in Nat /\ tries[d] \in Nat
      BY <1>1, <1>4 DEF TypeOK
    <2>2. Pending(d)' = Pending(d) - 1 /\ Pending(d) \in Nat
      <3> DEFINE S == PoolOf(d)
      <3>1. PoolOf(d)' = S \ {tx} /\ tx \in S
        BY <1>1, <1>4 DEF PoolOf
      <3>2. IsFiniteSet(S) /\ Pending(d) \in Nat
        BY PendingIsANumber
      <3>3. Cardinality(S \ {tx}) = Cardinality(S) - 1
        BY <3>1, <3>2, FS_RemoveElement
      <3> QED BY <3>1, <3>2, <3>3 DEF Pending
    <2>3. One(Asking(d))' = One(Asking(d)) /\ One(Asking(d)) \in {0, 1}
      BY <1>1 DEF One, Asking, Unanswered
    <2>4. paid[d] + Pending(d) + One(Asking(d)) <= tries[d]
      BY DEF PaidInv, Counted
    <2> QED BY <1>1, <2>1, <2>2, <2>3, <2>4 DEF Counted, ToldTrue
  <1> QED BY <1>3, <1>4 DEF PaidInv

(* An upgrade drops who asks; of one of them the node may hold the payment. *)
LEMMA DroppedArePaidOnce ==
  ASSUME IInv, PaidInv, Upgrade
  PROVE  PaidInv'
  <1> USE DEF IInv
  <1>1. /\ call' = [c \in Calls |-> IF call[c].phase = "done" THEN call[c] ELSE Idle]
        /\ UNCHANGED <<local, tries, mined, paid>>
    BY DEF Upgrade
  <1>2. ASSUME NEW d \in Calls
        PROVE  /\ Pending(d) \in Nat /\ Pending(d)' \in Nat
               /\ Pending(d)' <= Pending(d) + One(Asking(d))
               /\ PoolOf(d) # {} => PoolOf(d)' # {}
    <2>1. Pending(d) \in Nat /\ One(Asking(d)) \in {0, 1}
      BY PendingIsANumber DEF One
    <2>2. CASE PoolOf(d)' = PoolOf(d)
      BY <2>1, <2>2 DEF Pending
    <2>3. CASE PoolOf(d)' # PoolOf(d)
      <3>1. PICK c \in Calls : /\ Unanswered(c) /\ Accepts(call[c])
                               /\ pool' = pool \cup {TxOf(c)}
        BY <2>3, LateIsOne DEF PoolOf
      <3>2. d = c
        BY <2>3, <3>1, NewPends
      <3>3. Pending(d)' = Pending(d) + 1 /\ PoolOf(d)' # {} /\ One(Asking(d)) = 1
        BY <3>1, <3>2, NewPends DEF Asking, One
      <3> QED BY <2>1, <3>3
    <2> QED BY <2>2, <2>3
  <1>3. ASSUME NEW d \in Calls PROVE Counted(d)' /\ ToldTrue(d)'
    <2>1. /\ call'[d].phase \in {"idle", "done"}
          /\ call'[d] = Finished("ok") => call[d] = Finished("ok")
      BY <1>1 DEF Idle, Finished
    <2>2. One(Asking(d))' = 0 /\ One(Asking(d)) \in {0, 1}
      BY <2>1 DEF Asking, Unanswered, One
    <2>3. /\ paid[d] \in Nat /\ tries[d] \in Nat
          /\ paid[d] + Pending(d) + One(Asking(d)) <= tries[d]
      BY DEF PaidInv, Counted, TypeOK
    <2>4. paid[d] + Pending(d)' + 0 <= tries[d]
      BY <1>2, <2>2, <2>3
    <2>5. Counted(d)'
      BY <1>1, <2>2, <2>4 DEF Counted
    <2>6. ToldTrue(d)'
      BY <1>1, <1>2, <2>1 DEF PaidInv, ToldTrue
    <2> QED BY <2>5, <2>6
  <1> QED BY <1>3 DEF PaidInv

(* transfer_ethereum (wallet.rs): answered with a hash, it is pending or     *)
(* mined, and no payment is paid more often than it was tried, over unsure  *)
(* answers, retries and upgrades, for any number of transfers and chains.   *)
THEOREM PaidWhenAnswered == Spec => []PaidAsAnswered
  <1>1. Init => PaidInv
    <2> SUFFICES ASSUME Init, NEW c \in Calls PROVE Counted(c) /\ ToldTrue(c)
      BY DEF PaidInv
    <2>1. ~Asking(c) /\ PoolOf(c) = {} /\ paid[c] = 0 /\ tries[c] = 0
      BY DEF Init, Asking, Unanswered, PoolOf, Idle
    <2>2. Pending(c) = 0
      BY <2>1, FS_EmptySet DEF Pending
    <2> QED BY <2>1, <2>2 DEF Init, Counted, ToldTrue, One, Idle, Finished
  <1>2. IInv /\ PaidInv /\ [Next]_vars => PaidInv'
    <2> SUFFICES ASSUME IInv, PaidInv, [Next]_vars PROVE PaidInv'
      OBVIOUS
    <2>1. ASSUME NEW c \in Calls,
                 \/ \E ch \in Chains, own \in BOOLEAN : Transfer(c, ch, own)
                 \/ NodeCounts(c) \/ NodeCountFails(c) \/ Resolved(c) \/ Signed(c)
                 \/ SignFails(c) \/ NodeRefuses(c) \/ Sent(c)
          PROVE  PaidInv'
      BY <2>1, AskingStep
    <2>2. ASSUME NEW c \in Calls, NodeAccepts(c) PROVE PaidInv'
      BY <2>2, AcceptedPays
    <2>3. CASE Mine
      BY <2>3, MinedIsPaid
    <2>4. CASE Upgrade
      BY <2>4, DroppedArePaidOnce
    <2>5. ASSUME UNCHANGED <<call, tries, mined, pool, paid>> PROVE PaidInv'
      BY <2>5, OtherPayments DEF PaidInv, PoolOf
    <2>6. ASSUME NEW ch \in Chains, NEW n, SetChainNonce(ch, n) PROVE PaidInv'
      BY <2>5, <2>6 DEF SetChainNonce
    <2>7. CASE UNCHANGED vars
      BY <2>5, <2>7 DEF vars
    <2> QED BY <2>1, <2>2, <2>3, <2>4, <2>6, <2>7 DEF Next
  <1>3. IInv /\ PaidInv => PaidAsAnswered
    BY DEF PaidAsAnswered, OkIsPaid, PaidPerTry, PaidInv, Counted, ToldTrue, Pending, PoolOf,
           Asking, One
  <1> QED BY <1>1, <1>2, <1>3, Inductive, PTL DEF Spec
=============================================================================
