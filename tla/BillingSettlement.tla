--------------------------- MODULE BillingSettlement ---------------------------
(***************************************************************************)
(* Payment and refund settlement, the subscription a paid order owns and   *)
(* the route that cancels it.  A settlement is one transaction under the   *)
(* order's row lock (PgStore) or one synchronous block (MemoryStore), so   *)
(* it is one action; the cancel route reads the subscription, awaits, and  *)
(* then writes it.  Callers retry with the same or with another key.       *)
(***************************************************************************)
EXTENDS Integers, FiniteSets

CONSTANTS
  Orders,
  Keys,        \* Idempotency-Key values, also reused for other orders
  Hashes,      \* request hashes
  Stores,      \* which stores to consider: "memory" (MemoryStore), "postgres" (PgStore)
  MaxBalance,  \* bound: wallet balance in price units
  MaxAdjusts   \* bound: manual adjustments

ASSUME SettlementAssumption ==
  /\ IsFiniteSet(Orders) /\ Stores \subseteq {"memory", "postgres"}
  /\ MaxBalance \in Nat /\ MaxAdjusts \in Nat

OrderTypes == {"cloud", "pack", "recharge"}
Methods == {"balance", "mock", "provider"}

VARIABLES
  store,        \* the store this deployment runs on
  order,        \* billing_order: type, status, pay_method; every price is 1
  sub,          \* cloud_skill_subscription by source_order_id
  ent,          \* access rows owned by the order (Skill or Pack entitlements)
  settlements,  \* billing_settlement
  outbox,       \* billing_outbox: one per settlement
  balance,      \* user.balance_fen
  adjusted,     \* sum of manual adjustments, and how many there were
  unsourced,    \* an active legacy Pack row without a source exists
  canceller     \* POST /v1/me/cloud-skill-subscriptions/{id}/cancel

vars == <<store, order, sub, ent, settlements, outbox, balance, adjusted, unsourced, canceller>>

\* Only MemoryStore has the wallet and the legacy order types and pay methods.
Wallet == store = "memory"
TypesHere == IF Wallet THEN OrderTypes ELSE {"cloud"}
MethodsHere == IF Wallet THEN Methods ELSE {"provider"}

NoOrder == [type |-> "none", status |-> "absent", method |-> "none"]

Init ==
  /\ store \in Stores
  /\ order = [o \in Orders |-> NoOrder]
  /\ sub = [o \in Orders |-> "none"]
  /\ ent = [o \in Orders |-> "none"]
  /\ settlements = {}
  /\ outbox = {}
  /\ balance = 0
  /\ adjusted = [sum |-> 0, count |-> 0]
  /\ unsourced \in IF Wallet THEN BOOLEAN ELSE {FALSE}
  /\ canceller = [pc |-> "idle", sub |-> "none"]

-----------------------------------------------------------------------------
\* Settlements the order or the key is already bound to.
Related(o, op, k) == {s \in settlements : s.op = op /\ (s.order = o \/ s.key = k)}

Settlement(o, op, k, h, m) == [order |-> o, op |-> op, key |-> k, hash |-> h, method |-> m]

\* A replay answers from the stored settlement, anything else related to it is
\* a conflict: neither changes anything, so only the first settlement acts.
IsFirst(o, op, k) == Related(o, op, k) = {}

Record(s) ==
  /\ settlements' = settlements \cup {s}
  /\ outbox' = outbox \cup {[order |-> s.order, op |-> s.op, key |-> s.key]}

CreateOrder(o, t) ==
  /\ order[o] = NoOrder
  /\ order' = [order EXCEPT ![o] = [type |-> t, status |-> "pending", method |-> "none"]]
  /\ UNCHANGED <<sub, ent, settlements, outbox, balance, adjusted, unsourced, canceller>>

\* What a payment adds to the wallet.
PaymentDelta(o, m) ==
  IF order[o].type = "recharge" THEN 1 ELSE IF m = "balance" THEN -1 ELSE 0

\* A recharge is not paid from the wallet, and the wallet never goes below zero.
MayPay(o, m) ==
  /\ order[o].status = "pending"
  /\ ~(order[o].type = "recharge" /\ m = "balance")
  /\ balance + PaymentDelta(o, m) \in 0..MaxBalance

\* The paid order's subscription and access rows.
Fulfil(o) ==
  /\ sub' = IF order[o].type = "cloud" THEN [sub EXCEPT ![o] = "active"] ELSE sub
  /\ ent' = IF order[o].type = "recharge" THEN ent ELSE [ent EXCEPT ![o] = "active"]

\* Order, wallet, subscription, access rows and outbox in one transaction.
SettleOrderPayment(o, k, h, m) ==
  /\ IsFirst(o, "payment", k)
  /\ MayPay(o, m)
  /\ Record(Settlement(o, "payment", k, h, m))
  /\ order' = [order EXCEPT ![o].status = "paid", ![o].method = m]
  /\ balance' = balance + PaymentDelta(o, m)
  /\ Fulfil(o)
  /\ UNCHANGED <<adjusted, unsourced, canceller>>

\* Variant: the order may be reversed again under another key.
SettleOrderRefundAgain(o, k, h, m) ==
  /\ order[o].status \in {"paid", "refunded"} /\ order[o].type # "recharge"
  /\ balance < MaxBalance
  /\ Record(Settlement(o, "refund", k, h, m))
  /\ order' = [order EXCEPT ![o].status = "refunded"]
  /\ balance' = IF Wallet THEN balance + 1 ELSE balance
  /\ UNCHANGED <<sub, ent, adjusted, unsourced, canceller>>

\* A Pack row of unknown origin, or (PgStore) a foreign payment, needs a human.
MayRefund(o) ==
  /\ order[o].status = "paid" /\ order[o].type # "recharge"
  /\ order[o].type = "pack" => ~unsourced
  /\ Wallet \/ (sub[o] # "refunded" /\ order[o].method = "provider")
  /\ Wallet => balance < MaxBalance

\* What the order owns goes.
RevokeOwned(o) ==
  /\ sub' = IF order[o].type = "cloud" THEN [sub EXCEPT ![o] = "refunded"] ELSE sub
  /\ ent' = [ent EXCEPT ![o] = "revoked"]

\* Reverse the order, revoke what it owns; MemoryStore credits the wallet.
SettleOrderRefund(o, k, h, m) ==
  /\ IsFirst(o, "refund", k)
  /\ MayRefund(o)
  /\ Record(Settlement(o, "refund", k, h, m))
  /\ order' = [order EXCEPT ![o].status = "refunded"]
  /\ balance' = IF Wallet THEN balance + 1 ELSE balance
  /\ RevokeOwned(o)
  /\ UNCHANGED <<adjusted, unsourced, canceller>>

\* addWalletTransaction of an admin: never below zero.
AdjustWallet(d) ==
  /\ Wallet /\ adjusted.count < MaxAdjusts
  /\ balance + d \in 0..MaxBalance
  /\ balance' = balance + d
  /\ adjusted' = [sum |-> adjusted.sum + d, count |-> adjusted.count + 1]
  /\ UNCHANGED <<order, sub, ent, settlements, outbox, unsourced, canceller>>

-----------------------------------------------------------------------------
(* The cancel route                                                         *)

CancelRead(o) ==
  /\ canceller.pc = "idle"
  /\ sub[o] = "active"
  /\ canceller' = [pc |-> "update", sub |-> o]
  /\ UNCHANGED <<order, sub, ent, settlements, outbox, balance, adjusted, unsourced>>

\* Variant: only the subscription is written, its access rows are not.
UpdateSubscriptionStatusOnly(o, s) ==
  /\ sub' = [sub EXCEPT ![o] = s]
  /\ UNCHANGED ent

\* updateCloudSkillSubscriptionStatus: unconditional; revokes active rows.
UpdateSubscriptionStatus(o, s) ==
  /\ sub' = [sub EXCEPT ![o] = s]
  /\ ent' = IF s # "active" /\ ent[o] = "active" THEN [ent EXCEPT ![o] = "revoked"] ELSE ent

CancelUpdate ==
  /\ canceller.pc = "update"
  /\ UpdateSubscriptionStatus(canceller.sub, "cancelled")
  /\ canceller' = [pc |-> "idle", sub |-> "none"]
  /\ UNCHANGED <<order, settlements, outbox, balance, adjusted, unsourced>>

Next ==
  /\ \/ \E o \in Orders, t \in TypesHere : CreateOrder(o, t)
     \/ \E o \in Orders, k \in Keys, h \in Hashes, m \in MethodsHere :
          SettleOrderPayment(o, k, h, m) \/ SettleOrderRefund(o, k, h, m)
     \/ \E d \in {-1, 1} : AdjustWallet(d)
     \/ \E o \in Orders : CancelRead(o)
     \/ CancelUpdate
  /\ UNCHANGED store

Spec == Init /\ [][Next]_vars

-----------------------------------------------------------------------------
\* Every variable has its type.
TypeOK ==
  /\ store \in Stores
  /\ order \in [Orders -> [type: OrderTypes \cup {"none"}, method: Methods \cup {"none"},
                           status: {"absent", "pending", "paid", "refunded"}]]
  /\ sub \in [Orders -> {"none", "active", "cancelled", "refunded"}]
  /\ ent \in [Orders -> {"none", "active", "revoked"}]
  /\ settlements \subseteq [order: Orders, op: {"payment", "refund"}, key: Keys, hash: Hashes, method: Methods]
  /\ balance \in 0..MaxBalance
  /\ canceller \in [pc: {"idle"}, sub: {"none"}] \cup [pc: {"update"}, sub: Orders]

Count(P(_)) == Cardinality({o \in Orders : P(o)})

\* The wallet is what the orders say: recharges and refunds came in, purchases
\* from the balance went out, each exactly once, however often callers retry.
WalletMatchesOrders ==
  Wallet =>
    balance = adjusted.sum
              + Count(LAMBDA o : order[o].type = "recharge" /\ order[o].status = "paid")
              + Count(LAMBDA o : order[o].status = "refunded")
              - Count(LAMBDA o : order[o].method = "balance")

\* Access exists only for an order that is paid for and a subscription that is
\* active: no order of payment, refund and cancel leaves access behind.
AccessIsPaidFor ==
  \A o \in Orders : ent[o] = "active" => /\ order[o].status = "paid"
                                         /\ order[o].type = "cloud" => sub[o] = "active"

\* The settlements, the outbox and the order's status tell the same story: one
\* payment per settled order, one refund more per refunded one, an event each.
LedgerMatchesOrders ==
  \A o \in Orders :
    LET of(op) == {s \in settlements : s.order = o /\ s.op = op} IN
    /\ Cardinality(of("payment")) = IF order[o].status \in {"paid", "refunded"} THEN 1 ELSE 0
    /\ Cardinality(of("refund")) = IF order[o].status = "refunded" THEN 1 ELSE 0
    /\ \A op \in {"payment", "refund"} : Cardinality({e \in outbox : e.order = o /\ e.op = op}) = Cardinality(of(op))

\* A key names one settlement of an operation: no two orders share it.
KeyNamesOneSettlement ==
  \A s, t \in settlements : s.op = t.op /\ s.key = t.key => s = t

\* Orders, settlements, events and access tell one story in both stores.
SettlementSafe == TypeOK /\ LedgerMatchesOrders /\ KeyNamesOneSettlement /\ AccessIsPaidFor
=============================================================================
