------------------------------- MODULE EvmNonce --------------------------------
(***************************************************************************)
(* wallet_token_transfer on an EVM chain (src/src/ic_govmind_backend/src/  *)
(* wallet.rs): resolve_account_nonce, sign_transaction, then               *)
(* eth_sendRawTransaction, each of which awaits another canister, with the *)
(* chain's nonce cached in the canister's state in between.  Transfers     *)
(* overlap, callers retry, and an upgrade drops the transfers that wait.   *)
(*                                                                         *)
(* The caller names the address whose count is asked for; the transaction  *)
(* is signed with the wallet's key whichever that is.  With another        *)
(* account's count the nonce sent is any number.                           *)
(*                                                                         *)
(* The node behind the EVM RPC canister is external.  Every transaction    *)
(* offers the same gas price, so a node refuses to replace a pending one.  *)
(***************************************************************************)
EXTENDS Integers, FiniteSets

CONSTANTS
  Calls,     \* transfers under way at a time; each makes a payment of its own
  Chains,    \* the EVM ChainTypes that are configured
  Served,    \* the chain type whose network key_env's RPC service serves
  MaxNonce,  \* bound on the nonces given to set_chain_nonce and on the
             \* counts of other accounts
  MaxTries,  \* bound on the attempts at each payment
  Unsure     \* TRUE: an accepted transaction can be answered with an error

ASSUME ChainAssumption ==
  /\ Served \in Chains
  /\ MaxNonce \in Nat /\ MaxTries \in [Calls -> Nat] /\ Unsure \in BOOLEAN

VARIABLES
  local,  \* BlockchainConfig.nonce of each chain
  call,   \* the transfers
  tries,  \* attempts made at each payment
  mined,  \* external: transactions of the wallet in blocks, its next nonce
  pool,   \* external: the wallet's pending transactions
  paid    \* external: how often each payment was mined

vars == <<local, call, tries, mined, pool, paid>>

Unset == -1
NonceAsIs(n) == n
NonceOr0(n) == IF n = Unset THEN 0 ELSE n

Idle == [phase |-> "idle"]
Finished(result) == [phase |-> "done", result |-> result]

Init ==
  /\ local = [ch \in Chains |-> Unset]
  /\ call = [c \in Calls |-> Idle]
  /\ tries = [c \in Calls |-> 0]
  /\ mined = 0 /\ pool = {}
  /\ paid = [c \in Calls |-> 0]

-----------------------------------------------------------------------------
(* wallet_token_transfer to the await of resolve_account_nonce: the caller  *)
(* gives the wallet's own address or another, and the cached nonce is read. *)
(* A caller whose transfer failed, or was dropped, may try again.           *)
Transfer(c, ch, own) ==
  /\ call[c] \in {Idle, Finished("err")} /\ tries[c] < MaxTries[c]
  /\ tries' = [tries EXCEPT ![c] = @ + 1]
  /\ call' = [call EXCEPT ![c] = [phase |-> "resolving", chain |-> ch, own |-> own,
                                  cached |-> NonceOr0(local[ch]), onchain |-> Unset]]
  /\ UNCHANGED <<local, mined, pool, paid>>

(* eth_getTransactionCount at "latest" (external): mined transactions only, *)
(* of the address that was given.                                           *)
CountsOf(own) == IF own THEN {mined} ELSE 0 .. MaxNonce

NodeCounts(c) ==
  /\ call[c].phase = "resolving" /\ call[c].onchain = Unset
  /\ \E count \in CountsOf(call[c].own) : call' = [call EXCEPT ![c].onchain = count]
  /\ UNCHANGED <<local, tries, mined, pool, paid>>

NodeCountFails(c) ==
  /\ call[c].phase = "resolving" /\ call[c].onchain = Unset
  /\ call' = [call EXCEPT ![c] = Finished("err")]
  /\ UNCHANGED <<local, tries, mined, pool, paid>>

(* The nonce to send: the one the node counted, which also replaces the cached  *)
(* one when they differ; then the transaction is signed.                    *)
LargerNonce(onchain, cached) == IF cached > onchain THEN cached ELSE onchain
NonceToSend(onchain, cached) == onchain

Resolved(c) ==
  LET k == call[c] IN
  /\ k.phase = "resolving" /\ k.onchain # Unset
  /\ local' = IF k.onchain # k.cached THEN [local EXCEPT ![k.chain] = k.onchain] ELSE local
  /\ call' = [call EXCEPT ![c] = [phase |-> "signing", chain |-> k.chain, own |-> k.own,
                                  nonce |-> NonceToSend(k.onchain, k.cached)]]
  /\ UNCHANGED <<tries, mined, pool, paid>>

(* sign_transaction answers, and send_raw_tx_ethereum awaits the node.      *)
Signed(c) ==
  /\ call[c].phase = "signing"
  /\ call' = [call EXCEPT ![c] = [phase |-> "sending", chain |-> @.chain, own |-> @.own,
                                  nonce |-> @.nonce, answer |-> "none"]]
  /\ UNCHANGED <<local, tries, mined, pool, paid>>

SignFails(c) ==
  /\ call[c].phase = "signing"
  /\ call' = [call EXCEPT ![c] = Finished("err")]
  /\ UNCHANGED <<local, tries, mined, pool, paid>>

(* The node (external): right chain id, no nonce too low, no replacement;   *)
(* a nonce that is too high waits in the pool.  It may refuse whatever it   *)
(* is sent, a signature that does not recover to the wallet included.       *)
Unanswered(c) == call[c].phase = "sending" /\ call[c].answer = "none"
TxOf(c) == [nonce |-> call[c].nonce, payment |-> c, own |-> call[c].own]
Accepts(k) ==
  /\ k.chain = Served
  /\ k.nonce >= mined
  /\ \A tx \in pool : tx.nonce # k.nonce

NodeAccepts(c) ==
  /\ Unanswered(c) /\ Accepts(call[c])
  /\ pool' = pool \cup {TxOf(c)}
  /\ \E answer \in {"ok"} \cup (IF Unsure THEN {"err"} ELSE {}) :
       call' = [call EXCEPT ![c].answer = answer]
  /\ UNCHANGED <<local, tries, mined, paid>>

NodeRefuses(c) ==
  /\ Unanswered(c)
  /\ call' = [call EXCEPT ![c].answer = "err"]
  /\ UNCHANGED <<local, tries, mined, pool, paid>>

(* The block that holds the pending transaction with the next nonce.        *)
Mine ==
  \E tx \in pool :
    /\ tx.nonce = mined
    /\ pool' = pool \ {tx}
    /\ mined' = mined + 1
    /\ paid' = [paid EXCEPT ![tx.payment] = @ + 1]
    /\ UNCHANGED <<local, call, tries>>

(* The end of transfer_ethereum: a result that is Ok increments the nonce.  *)
ResultOf(answer) == answer

SentOrRetried(c) ==
  LET k == call[c] IN
  /\ k.phase = "sending" /\ k.answer # "none"
  /\ call' = [call EXCEPT ![c] =
               IF k.answer = "ok" THEN Finished("ok")
               ELSE [phase |-> "resolving", chain |-> k.chain, own |-> k.own,
                     cached |-> NonceOr0(local[k.chain]), onchain |-> Unset]]
  /\ UNCHANGED <<local, tries, mined, pool, paid>>

Sent(c) ==
  LET k == call[c] IN
  /\ k.phase = "sending" /\ k.answer # "none"
  /\ local' = IF ResultOf(k.answer) = "ok"
                THEN [local EXCEPT ![k.chain] = NonceOr0(@) + 1] ELSE local
  /\ call' = [call EXCEPT ![c] = Finished(ResultOf(k.answer))]
  /\ UNCHANGED <<tries, mined, pool, paid>>

-----------------------------------------------------------------------------
(* set_chain_nonce: anybody, any value, at any time.                        *)
SetChainNonce(ch, n) ==
  /\ local' = [local EXCEPT ![ch] = n]
  /\ UNCHANGED <<call, tries, mined, pool, paid>>

(* pre_upgrade saves the nonces, post_upgrade loads them.  Transfers that   *)
(* wait are dropped; what was sent to the node may still arrive there.      *)
Upgrade ==
  /\ \E c \in Calls : call[c].phase \notin {"idle", "done"}
  /\ \E late \in {{}} \cup {{c} : c \in {d \in Calls : Unanswered(d) /\ Accepts(call[d])}} :
       pool' = pool \cup {TxOf(c) : c \in late}
  /\ call' = [c \in Calls |-> IF call[c].phase = "done" THEN call[c] ELSE Idle]
  /\ UNCHANGED <<local, tries, mined, paid>>

Next ==
  \/ \E c \in Calls :
       \/ \E ch \in Chains, own \in BOOLEAN : Transfer(c, ch, own)
       \/ NodeCounts(c) \/ NodeCountFails(c) \/ Resolved(c)
       \/ Signed(c) \/ SignFails(c) \/ NodeAccepts(c) \/ NodeRefuses(c) \/ Sent(c)
  \/ Mine
  \/ \E ch \in Chains, n \in {Unset} \cup 0 .. MaxNonce : SetChainNonce(ch, n)
  \/ Upgrade

Spec == Init /\ [][Next]_vars

(* Calls of other canisters are answered, answers are delivered, and blocks *)
(* take what can be mined.                                                  *)
FairSpec ==
  /\ Spec /\ WF_vars(Mine)
  /\ \A c \in Calls :
       /\ WF_vars(NodeCounts(c) \/ NodeCountFails(c)) /\ WF_vars(Resolved(c))
       /\ WF_vars(Signed(c) \/ SignFails(c))
       /\ WF_vars(NodeAccepts(c) \/ NodeRefuses(c)) /\ WF_vars(Sent(c))

-----------------------------------------------------------------------------
CallStates ==
  {Idle, Finished("ok"), Finished("err")}
  \cup [phase : {"resolving"}, chain : Chains, own : BOOLEAN, cached : Nat,
         onchain : {Unset} \cup Nat]
  \cup [phase : {"signing"}, chain : Chains, own : BOOLEAN, nonce : Nat]
  \cup [phase : {"sending"}, chain : Chains, own : BOOLEAN, nonce : Nat,
         answer : {"none", "ok", "err"}]

(* The types of the state.                                                  *)
TypeOK ==
  /\ local \in [Chains -> {Unset} \cup Nat]
  /\ call \in [Calls -> CallStates]
  /\ tries \in [Calls -> Nat]
  /\ mined \in Nat
  /\ pool \in SUBSET [nonce : Nat, payment : Calls, own : BOOLEAN]
  /\ paid \in [Calls -> Nat]

(* A transfer that gave the wallet's own address never waits behind a nonce *)
(* that nobody uses: however the cached nonce drifts, is set by hand or by  *)
(* a transfer that gave another address, its transaction has the very next  *)
(* nonce of the chain (resolve_account_nonce sends what the node counted).  *)
NoGapOfOwnCount == \A tx \in pool : tx.own => tx.nonce = mined

(* A transfer that reports success is pending or mined.                     *)
OkIsPaid ==
  \A c \in Calls : call[c] = Finished("ok") =>
    paid[c] > 0 \/ \E tx \in pool : tx.payment = c

(* Nobody pays more often than he asked to, over retries, unsure answers    *)
(* and upgrades.                                                            *)
PaidPerTry ==
  \A c \in Calls :
    paid[c] + Cardinality({tx \in pool : tx.payment = c})
      + (IF call[c].phase \in {"resolving", "signing"} \/ Unanswered(c) THEN 1 ELSE 0)
    <= tries[c]

(* What a transfer that gave the wallet's own address left pending is mined *)
(* in the end, whatever other transfers, callers of set_chain_nonce and     *)
(* upgrades do meanwhile (resolve_account_nonce).                           *)
OwnPaymentsMined ==
  \A c \in Calls :
    (\E tx \in pool : tx.own /\ tx.payment = c) ~> (\A tx \in pool : tx.own => tx.payment # c)
=============================================================================
