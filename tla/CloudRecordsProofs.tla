------------------------- MODULE CloudRecordsProofs -------------------------
(***************************************************************************)
(* What the Cloud keeps on record: settlements, feature policies, releases *)
(* of installers and archives, and releases of Skill adapters, each for    *)
(* any constants.  Every section has an inductive invariant of its own and *)
(* says what it adds to the property.                                      *)
(***************************************************************************)
EXTENDS BillingSettlement, AdapterReleases, FeaturePolicy,
        FiniteSetTheorems, SequenceTheorems, WellFoundedInduction, TLAPS

-----------------------------------------------------------------------------
(* Settlements, for any number of orders, keys and hashes and for both      *)
(* stores.  LedgerMatchesOrders counts; the invariant under it does not: an *)
(* order has at most one settlement of an operation, it has one exactly when *)
(* its status says so, and the outbox is the image of the settlements.  The *)
(* counts follow from that.                                                 *)

Ops == {"payment", "refund"}
Event(s) == [order |-> s.order, op |-> s.op, key |-> s.key]

OneEach == \A s, t \in settlements : s.op = t.op /\ s.order = t.order => s = t

StatusTold ==
  \A o \in Orders :
    /\ order[o].status \in {"paid", "refunded"} <=> \E s \in settlements : s.order = o /\ s.op = "payment"
    /\ order[o].status = "refunded" <=> \E s \in settlements : s.order = o /\ s.op = "refund"

OutboxIsImage == outbox = {Event(s) : s \in settlements}

\* The inductive invariant of the ledger.
LedgerInv ==
  /\ TypeOK
  /\ AccessIsPaidFor
  /\ KeyNamesOneSettlement
  /\ OneEach
  /\ StatusTold
  /\ OutboxIsImage

-----------------------------------------------------------------------------
(* Types                                                                    *)

\* Either store has some of the order types and pay methods.
LEMMA HereIsSubset == TypesHere \subseteq OrderTypes /\ MethodsHere \subseteq Methods
BY DEF TypesHere, MethodsHere, OrderTypes, Methods

\* The initial state is well typed.
LEMMA InitType == Init => TypeOK
BY SettlementAssumption DEF Init, TypeOK, NoOrder

\* Every step keeps the types.
LEMMA StepType == TypeOK /\ [Next]_vars => TypeOK'
<1> SUFFICES ASSUME TypeOK, [Next]_vars PROVE TypeOK'
  OBVIOUS
<1> USE SettlementAssumption
<1>0. store' = store
  BY DEF Next, vars
<1>1. ASSUME NEW o \in Orders, NEW t \in TypesHere, CreateOrder(o, t) PROVE TypeOK'
  BY <1>0, <1>1, HereIsSubset DEF TypeOK, CreateOrder
<1>2. ASSUME NEW o \in Orders, NEW k \in Keys, NEW h \in Hashes, NEW m \in MethodsHere,
             SettleOrderPayment(o, k, h, m)
      PROVE TypeOK'
  <2>1. order' \in [Orders -> [type: OrderTypes \cup {"none"}, method: Methods \cup {"none"},
                                status: {"absent", "pending", "paid", "refunded"}]]
    <3> DEFINE R == [type: OrderTypes \cup {"none"}, method: Methods \cup {"none"},
                     status: {"absent", "pending", "paid", "refunded"}]
               r == [[order[o] EXCEPT !.status = "paid"] EXCEPT !.method = m]
    <3>1. order \in [Orders -> R] /\ order' = [order EXCEPT ![o] = r]
      BY <1>2 DEF TypeOK, SettleOrderPayment
    <3>2. r \in R
      BY <3>1, HereIsSubset
    <3> HIDE DEF R, r
    <3>3. order' \in [Orders -> R]
      BY <3>1, <3>2
    <3> QED
      BY <3>3 DEF R
  <2>2. /\ sub' \in [Orders -> {"none", "active", "cancelled", "refunded"}]
        /\ ent' \in [Orders -> {"none", "active", "revoked"}]
    BY <1>2 DEF TypeOK, SettleOrderPayment, Fulfil
  <2>3. settlements' \subseteq [order: Orders, op: {"payment", "refund"}, key: Keys, hash: Hashes, method: Methods]
    BY <1>2, HereIsSubset DEF TypeOK, SettleOrderPayment, Record, Settlement
  <2>4. balance' \in 0..MaxBalance /\ canceller' = canceller
    BY <1>2 DEF SettleOrderPayment, MayPay
  <2> QED
    BY <2>1, <2>2, <2>3, <2>4, <1>0 DEF TypeOK
<1>3. ASSUME NEW o \in Orders, NEW k \in Keys, NEW h \in Hashes, NEW m \in MethodsHere,
             SettleOrderRefund(o, k, h, m)
      PROVE TypeOK'
  <2>1. order' \in [Orders -> [type: OrderTypes \cup {"none"}, method: Methods \cup {"none"},
                                status: {"absent", "pending", "paid", "refunded"}]]
    BY <1>3 DEF TypeOK, SettleOrderRefund
  <2>2. /\ sub' \in [Orders -> {"none", "active", "cancelled", "refunded"}]
        /\ ent' \in [Orders -> {"none", "active", "revoked"}]
    BY <1>3 DEF TypeOK, SettleOrderRefund, RevokeOwned
  <2>3. settlements' \subseteq [order: Orders, op: {"payment", "refund"}, key: Keys, hash: Hashes, method: Methods]
    BY <1>3, HereIsSubset DEF TypeOK, SettleOrderRefund, Record, Settlement
  <2>4. balance' \in 0..MaxBalance /\ canceller' = canceller
    BY <1>3 DEF TypeOK, SettleOrderRefund, MayRefund
  <2> QED
    BY <2>1, <2>2, <2>3, <2>4, <1>0 DEF TypeOK
<1>4. ASSUME NEW d \in {-1, 1}, AdjustWallet(d) PROVE TypeOK'
  BY <1>0, <1>4 DEF TypeOK, AdjustWallet
<1>5. ASSUME NEW o \in Orders, CancelRead(o) PROVE TypeOK'
  BY <1>0, <1>5 DEF TypeOK, CancelRead
<1>6. CASE CancelUpdate
  BY <1>0, <1>6 DEF TypeOK, CancelUpdate, UpdateSubscriptionStatus
<1>7. CASE UNCHANGED vars
  BY <1>0, <1>7 DEF TypeOK, vars
<1> QED
  BY <1>1, <1>2, <1>3, <1>4, <1>5, <1>6, <1>7 DEF Next

-----------------------------------------------------------------------------
(* The ledger                                                               *)

\* What recording a first settlement does to the ledger: it stays one settlement
\* per key and per order, and the outbox stays its image.
LEMMA RecordKeepsLedger ==
  ASSUME NEW o \in Orders, NEW op \in Ops, NEW k \in Keys, NEW h \in Hashes, NEW m \in Methods,
         KeyNamesOneSettlement, OneEach, OutboxIsImage,
         IsFirst(o, op, k), Record(Settlement(o, op, k, h, m))
  PROVE  KeyNamesOneSettlement' /\ OneEach' /\ OutboxIsImage'
<1> DEFINE s == Settlement(o, op, k, h, m)
<1>1. settlements' = settlements \cup {s} /\ s.op = op /\ s.order = o /\ s.key = k
  BY DEF Record, Settlement
<1>2. \A t \in settlements : ~(t.op = op /\ (t.order = o \/ t.key = k))
  BY DEF IsFirst, Related
<1>3. outbox' = outbox \cup {Event(s)}
  BY DEF Record, Event
<1> HIDE DEF s
<1>4. KeyNamesOneSettlement'
  BY <1>1, <1>2 DEF KeyNamesOneSettlement
<1>5. OneEach'
  BY <1>1, <1>2 DEF OneEach
<1>6. OutboxIsImage'
  BY <1>1, <1>3 DEF OutboxIsImage
<1> QED
  BY <1>4, <1>5, <1>6

\* The initial state satisfies the invariant.
LEMMA InitLedger == Init => LedgerInv
<1> SUFFICES ASSUME Init PROVE LedgerInv
  OBVIOUS
<1>1. TypeOK
  BY InitType
<1>2. AccessIsPaidFor /\ KeyNamesOneSettlement /\ OneEach /\ StatusTold /\ OutboxIsImage
  BY DEF Init, NoOrder, AccessIsPaidFor, KeyNamesOneSettlement, OneEach, StatusTold, OutboxIsImage
<1> QED
  BY <1>1, <1>2 DEF LedgerInv

\* Every step keeps the invariant.
LEMMA StepLedger == LedgerInv /\ [Next]_vars => LedgerInv'
<1> SUFFICES ASSUME LedgerInv, [Next]_vars PROVE LedgerInv'
  OBVIOUS
<1> USE DEF LedgerInv
<1>0. TypeOK'
  BY StepType
<1>1. ASSUME NEW o \in Orders, NEW t \in TypesHere, CreateOrder(o, t) PROVE LedgerInv'
  <2>1. AccessIsPaidFor'
    BY <1>1 DEF CreateOrder, AccessIsPaidFor, TypeOK, NoOrder
  <2>2. StatusTold'
    BY <1>1 DEF CreateOrder, StatusTold, TypeOK, NoOrder
  <2> QED
    BY <1>0, <1>1, <2>1, <2>2 DEF CreateOrder, KeyNamesOneSettlement, OneEach, OutboxIsImage
<1>2. ASSUME NEW o \in Orders, NEW k \in Keys, NEW h \in Hashes, NEW m \in MethodsHere,
             SettleOrderPayment(o, k, h, m)
      PROVE LedgerInv'
  <2>1. KeyNamesOneSettlement' /\ OneEach' /\ OutboxIsImage'
    <3>1. IsFirst(o, "payment", k) /\ Record(Settlement(o, "payment", k, h, m))
      BY <1>2 DEF SettleOrderPayment
    <3> QED
      BY <3>1, RecordKeepsLedger, HereIsSubset DEF Ops
  <2>2. AccessIsPaidFor'
    BY <1>2 DEF SettleOrderPayment, MayPay, Fulfil, AccessIsPaidFor, TypeOK
  <2>3. StatusTold'
    <3> DEFINE s == Settlement(o, "payment", k, h, m)
    <3>1. settlements' = settlements \cup {s} /\ s.order = o /\ s.op = "payment"
      BY <1>2 DEF SettleOrderPayment, Record, Settlement
    <3>2. /\ order[o].status = "pending"
          /\ order'[o].status = "paid"
          /\ \A x \in Orders \ {o} : order'[x] = order[x]
      BY <1>2 DEF SettleOrderPayment, MayPay, TypeOK
    <3> HIDE DEF s
    <3> QED
      BY <3>1, <3>2 DEF StatusTold
  <2> QED
    BY <1>0, <2>1, <2>2, <2>3
<1>3. ASSUME NEW o \in Orders, NEW k \in Keys, NEW h \in Hashes, NEW m \in MethodsHere,
             SettleOrderRefund(o, k, h, m)
      PROVE LedgerInv'
  <2>1. KeyNamesOneSettlement' /\ OneEach' /\ OutboxIsImage'
    <3>1. IsFirst(o, "refund", k) /\ Record(Settlement(o, "refund", k, h, m))
      BY <1>3 DEF SettleOrderRefund
    <3> QED
      BY <3>1, RecordKeepsLedger, HereIsSubset DEF Ops
  <2>2. AccessIsPaidFor'
    BY <1>3 DEF SettleOrderRefund, RevokeOwned, AccessIsPaidFor, TypeOK
  <2>3. StatusTold'
    <3> DEFINE s == Settlement(o, "refund", k, h, m)
    <3>1. settlements' = settlements \cup {s} /\ s.order = o /\ s.op = "refund"
      BY <1>3 DEF SettleOrderRefund, Record, Settlement
    <3>2. /\ order[o].status = "paid"
          /\ order'[o].status = "refunded"
          /\ \A x \in Orders \ {o} : order'[x] = order[x]
      BY <1>3 DEF SettleOrderRefund, MayRefund, TypeOK
    <3> HIDE DEF s
    <3> QED
      BY <3>1, <3>2 DEF StatusTold
  <2> QED
    BY <1>0, <2>1, <2>2, <2>3
<1>4. ASSUME NEW d \in {-1, 1}, AdjustWallet(d) PROVE LedgerInv'
  BY <1>0, <1>4 DEF AdjustWallet, AccessIsPaidFor, KeyNamesOneSettlement, OneEach, StatusTold, OutboxIsImage
<1>5. ASSUME NEW o \in Orders, CancelRead(o) PROVE LedgerInv'
  BY <1>0, <1>5 DEF CancelRead, AccessIsPaidFor, KeyNamesOneSettlement, OneEach, StatusTold, OutboxIsImage
<1>6. CASE CancelUpdate
  <2>1. AccessIsPaidFor'
    BY <1>6 DEF CancelUpdate, UpdateSubscriptionStatus, AccessIsPaidFor, TypeOK
  <2> QED
    BY <1>0, <1>6, <2>1 DEF CancelUpdate, KeyNamesOneSettlement, OneEach, StatusTold, OutboxIsImage
<1>7. CASE UNCHANGED vars
  BY <1>0, <1>7 DEF vars, AccessIsPaidFor, KeyNamesOneSettlement, OneEach, StatusTold, OutboxIsImage
<1> QED
  BY <1>1, <1>2, <1>3, <1>4, <1>5, <1>6, <1>7 DEF Next

\* The invariant gives the counts: a set with one settlement has cardinality one.
LEMMA LedgerCounts == LedgerInv => LedgerMatchesOrders
<1> SUFFICES ASSUME LedgerInv, NEW o \in Orders
             PROVE LET of(op) == {s \in settlements : s.order = o /\ s.op = op} IN
                   /\ Cardinality(of("payment")) = IF order[o].status \in {"paid", "refunded"} THEN 1 ELSE 0
                   /\ Cardinality(of("refund")) = IF order[o].status = "refunded" THEN 1 ELSE 0
                   /\ \A op \in Ops :
                        Cardinality({e \in outbox : e.order = o /\ e.op = op}) = Cardinality(of(op))
  BY DEF LedgerMatchesOrders, Ops
<1> DEFINE of(op) == {s \in settlements : s.order = o /\ s.op = op}
           told(op) == {e \in outbox : e.order = o /\ e.op = op}
<1>1. ASSUME NEW op \in Ops, \E s \in settlements : s.order = o /\ s.op = op
      PROVE Cardinality(of(op)) = 1 /\ Cardinality(told(op)) = 1
  <2>1. PICK s \in settlements : s.order = o /\ s.op = op
    BY <1>1
  <2>2. of(op) = {s}
    BY <2>1 DEF LedgerInv, OneEach
  <2>3. told(op) = {Event(s)}
    BY <2>1 DEF LedgerInv, OneEach, OutboxIsImage, Event
  <2> HIDE DEF of, told
  <2> QED
    BY <2>2, <2>3, FS_Singleton
<1>2. ASSUME NEW op \in Ops, ~ \E s \in settlements : s.order = o /\ s.op = op
      PROVE Cardinality(of(op)) = 0 /\ Cardinality(told(op)) = 0
  <2>1. of(op) = {} /\ told(op) = {}
    BY <1>2 DEF LedgerInv, OutboxIsImage, Event
  <2> HIDE DEF of, told
  <2> QED
    BY <2>1, FS_EmptySet
<1>3. /\ order[o].status \in {"paid", "refunded"} <=> \E s \in settlements : s.order = o /\ s.op = "payment"
      /\ order[o].status = "refunded" <=> \E s \in settlements : s.order = o /\ s.op = "refund"
  BY DEF LedgerInv, StatusTold
<1>4. "payment" \in Ops /\ "refund" \in Ops
  BY DEF Ops
<1>5. \A op \in Ops : Cardinality(told(op)) = Cardinality(of(op))
  BY <1>1, <1>2
<1>6. Cardinality(of("payment")) = IF order[o].status \in {"paid", "refunded"} THEN 1 ELSE 0
  BY <1>1, <1>2, <1>3, <1>4
<1>7. Cardinality(of("refund")) = IF order[o].status = "refunded" THEN 1 ELSE 0
  BY <1>1, <1>2, <1>3, <1>4
<1> QED
  BY <1>5, <1>6, <1>7

-----------------------------------------------------------------------------
(* Theorems                                                                 *)

\* Every variable keeps its type; the wallet in particular never goes below zero,
\* whatever order payments, refunds and manual adjustments come in.
THEOREM TypesHold == Spec => []TypeOK
BY InitType, StepType, PTL DEF Spec

\* LedgerInv holds throughout.
LEMMA LedgerHolds == Spec => []LedgerInv
BY InitLedger, StepLedger, PTL DEF Spec

\* The order's status, the settlements and the outbox of settleOrderPayment and
\* settleOrderRefund tell the same story, for any number of retries and keys.
THEOREM LedgerAgrees == Spec => []LedgerMatchesOrders
BY LedgerHolds, LedgerCounts, PTL

\* Access rows are active only for paid orders with an active subscription, although
\* the cancel route writes what it decided on before its await.
THEOREM AccessNeedsPayment == Spec => []AccessIsPaidFor
<1>1. LedgerInv => AccessIsPaidFor
  BY DEF LedgerInv
<1> QED
  BY <1>1, LedgerHolds, PTL

\* An idempotency key is bound to one settlement of an operation for ever.
THEOREM KeysAreUnique == Spec => []KeyNamesOneSettlement
<1>1. LedgerInv => KeyNamesOneSettlement
  BY DEF LedgerInv
<1> QED
  BY <1>1, LedgerHolds, PTL

\* Orders, settlements, outbox and access agree in both stores, whatever payments,
\* refunds, retries and cancels interleave.
THEOREM SettlementIsSafe == Spec => []SettlementSafe
<1>1. TypeOK /\ LedgerMatchesOrders /\ KeyNamesOneSettlement /\ AccessIsPaidFor => SettlementSafe
  BY DEF SettlementSafe
<1> QED
  BY <1>1, TypesHold, LedgerAgrees, KeysAreUnique, AccessNeedsPayment, PTL

-----------------------------------------------------------------------------
(* The wallet                                                               *)

Recharged == {o \in Orders : order[o].type = "recharge" /\ order[o].status = "paid"}
Reversed == {o \in Orders : order[o].status = "refunded"}
Bought == {o \in Orders : order[o].method = "balance"}

\* A method of payment belongs to an order that was paid.
MethodIsOfPayment == \A o \in Orders : order[o].status \in {"absent", "pending"} => order[o].method = "none"

\* The wallet counts each recharge, purchase and refund once.
WalletInv ==
  /\ TypeOK /\ MethodIsOfPayment /\ adjusted.sum \in Int
  /\ Wallet => balance = adjusted.sum + Cardinality(Recharged) + Cardinality(Reversed) - Cardinality(Bought)

\* The sets that the wallet counts are finite, and one order more is one more.
LEMMA Counted ==
  ASSUME NEW S \in SUBSET Orders
  PROVE  /\ IsFiniteSet(S) /\ Cardinality(S) \in Nat
         /\ \A o \in Orders \ S : Cardinality(S \cup {o}) = Cardinality(S) + 1
<1>1. IsFiniteSet(S)
  BY SettlementAssumption, FS_Subset
<1> QED
  BY <1>1, FS_CardinalityType, FS_AddElement

\* The initial state satisfies the invariant.
LEMMA InitWallet == Init => WalletInv
<1> SUFFICES ASSUME Init PROVE WalletInv
  OBVIOUS
<1>1. Recharged = {} /\ Reversed = {} /\ Bought = {} /\ MethodIsOfPayment /\ adjusted.sum = 0 /\ balance = 0
  BY DEF Init, NoOrder, Recharged, Reversed, Bought, MethodIsOfPayment
<1> QED
  BY <1>1, InitType, FS_EmptySet DEF WalletInv

\* A step that leaves orders and wallet alone.
LEMMA WalletAlone ==
  ASSUME WalletInv, TypeOK', UNCHANGED <<store, order, balance, adjusted>>
  PROVE  WalletInv'
  BY DEF WalletInv, Wallet, MethodIsOfPayment, Recharged, Reversed, Bought

\* Every step keeps it: each settlement moves one order from one sum to another.
LEMMA StepWallet == WalletInv /\ [Next]_vars => WalletInv'
<1> SUFFICES ASSUME WalletInv, [Next]_vars PROVE WalletInv'
  OBVIOUS
<1>0. TypeOK /\ TypeOK' /\ store' = store
  BY StepType DEF WalletInv, Next, vars
<1> DEFINE a == Cardinality(Recharged)
           b == Cardinality(Reversed)
           c == Cardinality(Bought)
<1>a. a \in Nat /\ b \in Nat /\ c \in Nat
  BY Counted DEF Recharged, Reversed, Bought
<1>b. balance \in Nat /\ adjusted.sum \in Int
  BY SettlementAssumption DEF WalletInv, TypeOK
<1>1. ASSUME NEW o \in Orders, NEW t \in TypesHere, CreateOrder(o, t) PROVE WalletInv'
  <2>1. /\ order[o].status = "absent" /\ order[o].method = "none" /\ order'[o].status = "pending" /\ order'[o].method = "none"
        /\ \A x \in Orders \ {o} : order'[x] = order[x]
    BY <1>0, <1>1 DEF CreateOrder, NoOrder, TypeOK
  <2>2. Recharged' = Recharged /\ Reversed' = Reversed /\ Bought' = Bought
    BY <2>1 DEF Recharged, Reversed, Bought
  <2>3. MethodIsOfPayment'
    BY <2>1 DEF WalletInv, MethodIsOfPayment
  <2> QED
    BY <1>0, <1>1, <2>2, <2>3 DEF CreateOrder, WalletInv, Wallet
<1>2. ASSUME NEW o \in Orders, NEW k \in Keys, NEW h \in Hashes, NEW m \in MethodsHere,
             SettleOrderPayment(o, k, h, m)
      PROVE WalletInv'
  <2>1. /\ order[o].status = "pending" /\ order[o].method = "none"
        /\ order'[o].status = "paid" /\ order'[o].method = m /\ order'[o].type = order[o].type
        /\ \A x \in Orders \ {o} : order'[x] = order[x]
        /\ adjusted' = adjusted /\ balance' = balance + PaymentDelta(o, m)
        /\ ~(order[o].type = "recharge" /\ m = "balance")
    BY <1>0, <1>2 DEF SettleOrderPayment, MayPay, TypeOK, WalletInv, MethodIsOfPayment
  <2>2. MethodIsOfPayment'
    BY <2>1 DEF WalletInv, MethodIsOfPayment
  <2>3. Reversed' = Reversed /\ o \notin Recharged /\ o \notin Bought
    BY <2>1 DEF Recharged, Reversed, Bought
  <2>4. CASE order[o].type = "recharge"
    <3>1. Recharged' = Recharged \cup {o} /\ Bought' = Bought /\ balance' = balance + 1
      BY <2>1, <2>4 DEF Recharged, Bought, PaymentDelta
    <3>2. Cardinality(Recharged') = a + 1
      BY <2>3, <3>1, Counted DEF Recharged
    <3> QED
      BY <1>0, <1>a, <1>b, <2>1, <2>2, <2>3, <3>1, <3>2 DEF WalletInv, Wallet
  <2>5. CASE order[o].type # "recharge" /\ m = "balance"
    <3>1. Recharged' = Recharged /\ Bought' = Bought \cup {o} /\ balance' = balance - 1
      BY <1>b, <2>1, <2>5 DEF Recharged, Bought, PaymentDelta
    <3>2. Cardinality(Bought') = c + 1
      BY <2>3, <3>1, Counted DEF Bought
    <3> QED
      BY <1>0, <1>a, <1>b, <2>1, <2>2, <2>3, <3>1, <3>2 DEF WalletInv, Wallet
  <2>6. CASE order[o].type # "recharge" /\ m # "balance"
    <3>1. Recharged' = Recharged /\ Bought' = Bought /\ balance' = balance
      BY <1>b, <2>1, <2>6 DEF Recharged, Bought, PaymentDelta
    <3> QED
      BY <1>0, <2>1, <2>2, <2>3, <3>1 DEF WalletInv, Wallet
  <2> QED
    BY <2>4, <2>5, <2>6
<1>3. ASSUME NEW o \in Orders, NEW k \in Keys, NEW h \in Hashes, NEW m \in MethodsHere,
             SettleOrderRefund(o, k, h, m)
      PROVE WalletInv'
  <2>1. /\ order[o].status = "paid" /\ order[o].type # "recharge" /\ adjusted' = adjusted
        /\ order'[o].status = "refunded" /\ order'[o].method = order[o].method /\ order'[o].type = order[o].type
        /\ \A x \in Orders \ {o} : order'[x] = order[x]
        /\ Wallet => balance' = balance + 1
    BY <1>0, <1>3 DEF SettleOrderRefund, MayRefund, TypeOK
  <2>2. MethodIsOfPayment'
    BY <2>1 DEF WalletInv, MethodIsOfPayment
  <2>3. Recharged' = Recharged /\ Bought' = Bought /\ Reversed' = Reversed \cup {o} /\ o \notin Reversed
    BY <2>1 DEF Recharged, Reversed, Bought
  <2>4. Cardinality(Reversed') = b + 1
    BY <2>3, Counted DEF Reversed
  <2> QED
    BY <1>0, <1>a, <1>b, <2>1, <2>2, <2>3, <2>4 DEF WalletInv, Wallet
<1>4. ASSUME NEW d \in {-1, 1}, AdjustWallet(d) PROVE WalletInv'
  <2>1. order' = order /\ balance' = balance + d /\ adjusted'.sum = adjusted.sum + d /\ d \in Int
    BY <1>4 DEF AdjustWallet
  <2>2. Recharged' = Recharged /\ Reversed' = Reversed /\ Bought' = Bought
    BY <2>1 DEF Recharged, Reversed, Bought
  <2>3. MethodIsOfPayment'
    BY <2>1 DEF WalletInv, MethodIsOfPayment
  <2> QED
    BY <1>0, <1>a, <1>b, <2>1, <2>2, <2>3 DEF WalletInv, Wallet
<1>5. ASSUME NEW o \in Orders, CancelRead(o) PROVE WalletInv'
  BY <1>0, <1>5, WalletAlone DEF CancelRead
<1>6. CASE CancelUpdate
  BY <1>0, <1>6, WalletAlone DEF CancelUpdate
<1>7. CASE UNCHANGED vars
  BY <1>0, <1>7, WalletAlone DEF vars
<1> QED
  BY <1>1, <1>2, <1>3, <1>4, <1>5, <1>6, <1>7 DEF Next

\* The wallet of MemoryStore is what the orders say, for any orders, keys and
\* retries: a recharge or a refund comes in and a purchase goes out exactly once.
THEOREM WalletAgrees == Spec => []WalletMatchesOrders
<1>1. WalletInv => WalletMatchesOrders
  BY DEF WalletInv, WalletMatchesOrders, Count, Recharged, Reversed, Bought
<1> QED
  BY <1>1, InitWallet, StepWallet, PTL DEF Spec

-----------------------------------------------------------------------------
(* An emergency stop is timely on both sides, for any times, revisions and  *)
(* failures.  The stop is dated by lastOpen, the last tick without one: a   *)
(* document that carries no stop was built from records that had none, so it *)
(* was issued no later than that tick, and every copy of it (published,     *)
(* cached, on its way, confirmed by an ETag) keeps this whatever happens in *)
(* between.  What expires Validity after its issue then expires within      *)
(* Validity of the stop.                                                    *)

\* The scopes of the client's context, and those of the server's.
Carried == {"global", "device"}
Checked == {"global", "device", "plan"}

Names(es) == \E r \in es : r.is = "stop"

\* A document was issued before the stop or names it.
Timely(doc, open) == doc.issued \in Nat /\ (doc.issued <= open \/ Names(Applicable(doc.recs, Carried)))

\* The store: entries of their kinds, room for them, and a revision for every POST.
Kept ==
  /\ pol = [t \in Targets |-> pol[t]]
  /\ \A t \in Targets : pol[t] = Absent \/ (pol[t].rev \in 1..rev /\ pol[t].is \in EntryKinds(t))
  /\ rev \in Nat
  /\ IsFiniteSet(StoredPolicies) /\ Cardinality(StoredPolicies) <= MaxPolicies
  /\ IsFiniteSet(adm) /\ rev + Cardinality(adm) <= MaxRevision
  /\ \A post \in adm : post.on \in Targets /\ post.is \in EntryKinds(post.on)

\* The clock, and the stop that is in force.
Dated ==
  /\ now \in 0..MaxTime /\ lastOpen \in 0..now
  /\ Stopped(pol) \/ lastOpen = now

\* Every document there is, published, cached or on its way.
Documents ==
  /\ snap # Nothing => Timely(snap.doc, lastOpen) /\ snap.src \in {"network", "cache"}
  /\ pcache # Nothing => Timely(pcache.doc, lastOpen)
  /\ flight.st \in {"sent", "plans", "answer"} /\ flight.cached # Nothing => Timely(flight.cached.doc, lastOpen)
  /\ flight.st = "plans" => flight.time \in 0..now
  /\ flight.st = "answer" /\ flight.code \in {"200", "304"} => Timely(flight.doc, lastOpen)

\* The protected call.
Call ==
  /\ gate.st = "plans" => gate.began \in 0..now
  /\ gate.st = "allowed" => gate.began \in 0..lastOpen

\* The inductive invariant.
PolicyIInv == Kept /\ Dated /\ Documents /\ Call

-----------------------------------------------------------------------------
(* The records of the store and what is built from them.                    *)

\* relevantPolicies keeps the stop for every context that knows the device.
LEMMA StopIsRelevant ==
  ASSUME Stopped(pol), NEW plan, NEW scopes, Carried \subseteq scopes
  PROVE  Names(Applicable(Relevant(plan), scopes))
<1>1. PICK t \in Carried : pol[t].is = "stop"  BY DEF Stopped, Carried
<1>2. t \in StoredPolicies  BY <1>1 DEF StoredPolicies, Targets, Carried, Absent
<1>3. [on |-> t, rev |-> pol[t].rev, is |-> pol[t].is] \in Relevant(plan)  BY <1>2 DEF Relevant, Carried
<1> QED  BY <1>1, <1>3 DEF Applicable, Names

\* decideFeatureAccess lets nothing pass that a stop applies to.
LEMMA StopForbids ==
  ASSUME NEW es, NEW entitled, Allowed(es, entitled)
  PROVE  ~Names(es)
BY DEF Allowed, Names

\* mergeLimits takes the smallest limit there is.
LEMMA SmallestLimit ==
  ASSUME NEW es, es # {}
  PROVE  /\ \A r \in es : Limit(r) \in 1..3 /\ MergedLimit(es) <= Limit(r)
         /\ \E r \in es : MergedLimit(es) = Limit(r)
<1> DEFINE S == {Limit(r) : r \in es}
<1>1. \A r \in es : Limit(r) \in {1, 2, 3}  BY DEF Limit
<1>2. S \subseteq {1, 2, 3} /\ S # {}
  <2>1. PICK r \in es : TRUE  OBVIOUS
  <2>2. Limit(r) \in S  BY <2>1
  <2>3. S \subseteq {1, 2, 3}  BY <1>1
  <2> HIDE DEF S
  <2> QED  BY <2>2, <2>3
<1>3. \E n \in S : \A m \in S : n <= m
  <2> HIDE DEF S
  <2>1. CASE 1 \in S  BY <1>2, <2>1
  <2>2. CASE 1 \notin S /\ 2 \in S
    <3>1. \A m \in S : 2 <= m  BY <1>2, <2>2
    <3> QED  BY <2>2, <3>1
  <2>3. CASE 1 \notin S /\ 2 \notin S
    <3>1. \A m \in S : m = 3  BY <1>2, <2>3
    <3>2. PICK n \in S : n = 3  BY <1>2, <3>1
    <3> QED  BY <3>1, <3>2
  <2> QED  BY <2>1, <2>2, <2>3
<1>4. \E n \in S : \A r \in es : n <= Limit(r)  BY <1>3
<1>5. MergedLimit(es) \in S /\ \A r \in es : MergedLimit(es) <= Limit(r)  BY <1>4 DEF MergedLimit
<1> QED  BY <1>1, <1>5

\* What all entries allow together, any of them allow, with a limit at least as
\* large and at most the risk (resolveFeaturePolicy).
LEMMA MergeOnlyNarrows ==
  ASSUME NEW all, NEW es \in SUBSET all, es # {}, NEW entitled
  PROVE  /\ Allowed(all, entitled) => Allowed(es, entitled)
         /\ MergedLimit(all) <= MergedLimit(es)
         /\ HighRisk(es) => HighRisk(all)
<1>1. PICK r \in es : MergedLimit(es) = Limit(r)  BY SmallestLimit
<1>2. MergedLimit(all) <= Limit(r)  BY SmallestLimit
<1> QED  BY <1>1, <1>2 DEF Allowed, HighRisk

\* A document issued in this tick's interval is not issued later than now.
LEMMA IssuedBefore ==
  ASSUME PolicyAssumption, NEW time \in Nat, NEW plan
  PROVE  DocumentAt(time, plan).issued \in 0..time
BY DEF DocumentAt, PolicyAssumption

\* A document stays timely: the last tick without a stop only comes later.
LEMMA TimelyStays ==
  ASSUME NEW doc, NEW open \in Nat, NEW later \in Nat, open <= later, Timely(doc, open)
  PROVE  Timely(doc, later)
BY DEF Timely

\* All documents of the device stay timely when nothing but the cloud moves on.
LEMMA DocumentsStay ==
  ASSUME Documents, Dated, Dated', lastOpen <= lastOpen', now <= now', UNCHANGED <<snap, pcache, flight>>
  PROVE  Documents'
<1>1. lastOpen \in Nat /\ lastOpen' \in Nat /\ now \in Nat /\ now' \in Nat  BY DEF Dated
<1> QED  BY <1>1, TimelyStays DEF Documents

-----------------------------------------------------------------------------
(* The steps, one lemma for each group.                                     *)

\* The first record is there, nobody stops anything and there is no document.
LEMMA PolicyStarts ==
  ASSUME PolicyAssumption, PolicyInit
  PROVE  PolicyIInv
<1>1. StoredPolicies = {"global"}  BY DEF PolicyInit, StoredPolicies, Targets, Absent
<1>2. IsFiniteSet(StoredPolicies) /\ Cardinality(StoredPolicies) = 1  BY <1>1, FS_Singleton
<1>3. IsFiniteSet(adm) /\ Cardinality(adm) = 0  BY FS_EmptySet DEF PolicyInit
<1>4. Kept
  <2>1. \A t \in Targets : pol[t] = IF t = "global" THEN [rev |-> 1, is |-> "low"] ELSE Absent
    BY DEF PolicyInit, Targets
  <2>2. pol = [t \in Targets |-> pol[t]]  BY DEF PolicyInit
  <2>3. \A t \in Targets : pol[t] = Absent \/ (pol[t].rev \in 1..rev /\ pol[t].is \in EntryKinds(t))
    BY <2>1 DEF PolicyInit, EntryKinds
  <2> QED  BY <1>2, <1>3, <2>2, <2>3 DEF PolicyInit, Kept, PolicyAssumption
<1>5. Dated  BY DEF PolicyInit, Dated, PolicyAssumption
<1>6. Documents /\ Call  BY DEF PolicyInit, Documents, Call, Idle
<1> QED  BY <1>4, <1>5, <1>6 DEF PolicyIInv

\* A POST that passed the route's check will have a revision left for it.
LEMMA PostsKeep ==
  ASSUME PolicyAssumption, PolicyIInv, NEW t \in Targets, NEW k \in EntryKinds(t), AdminPosts(t, k)
  PROVE  PolicyIInv'
<1> DEFINE post == [on |-> t, is |-> k]
<1>0. IsFiniteSet(adm) /\ adm' = adm \cup {post}  BY DEF AdminPosts, PolicyIInv, Kept
<1> HIDE DEF post
<1>1. /\ IsFiniteSet(adm') /\ Cardinality(adm') <= Cardinality(adm) + 1
      /\ Cardinality(adm) \in Nat /\ Cardinality(adm') \in Nat
  <2>1. Cardinality(adm) \in Nat  BY <1>0, FS_CardinalityType
  <2>2. CASE post \in adm
    <3>1. adm' = adm  BY <1>0, <2>2
    <3> QED  BY <1>0, <2>1, <3>1
  <2>3. CASE post \notin adm  BY <1>0, <2>1, <2>3, FS_AddElement
  <2> QED  BY <2>2, <2>3
<1>2. rev' + Cardinality(adm') <= MaxRevision
  BY <1>1 DEF AdminPosts, PolicyIInv, Kept, PolicyAssumption
<1>3. \A p \in adm' : p.on \in Targets /\ p.is \in EntryKinds(p.on)  BY <1>0 DEF post, PolicyIInv, Kept
<1>4. Kept'  BY <1>1, <1>2, <1>3 DEF AdminPosts, PolicyIInv, Kept, StoredPolicies
<1> QED  BY <1>4 DEF AdminPosts, PolicyIInv, Dated, Stopped, Documents, Call

\* upsertFeaturePolicy finds room again under its lock; what it stores may be the stop.
LEMMA SavesKeep ==
  ASSUME PolicyAssumption, PolicyIInv, NEW post \in adm, AdminSaves(post)
  PROVE  PolicyIInv'
<1>1. /\ IsFiniteSet(adm') /\ Cardinality(adm') = Cardinality(adm) - 1
      /\ Cardinality(adm) \in Nat /\ Cardinality(adm') \in Nat /\ rev \in Nat /\ MaxRevision \in Nat
  BY FS_RemoveElement, FS_CardinalityType DEF AdminSaves, PolicyIInv, Kept, PolicyAssumption
<1>2. post.on \in Targets /\ post.is \in EntryKinds(post.on)  BY DEF PolicyIInv, Kept
<1>3. Kept'
  <2>1. CASE Room(post.on)
    <3>1. rev' = rev + 1 /\ pol' = [pol EXCEPT ![post.on] = [rev |-> rev + 1, is |-> post.is]]
      BY <2>1 DEF AdminSaves
    <3>2. \A t \in Targets : pol'[t] = IF t = post.on THEN [rev |-> rev + 1, is |-> post.is] ELSE pol[t]
      BY <3>1 DEF PolicyIInv, Kept
    <3>3. StoredPolicies' = StoredPolicies \cup {post.on}
      BY <1>2, <3>2 DEF StoredPolicies, Absent, EntryKinds, Targets
    <3>4. IsFiniteSet(StoredPolicies') /\ Cardinality(StoredPolicies') <= MaxPolicies
      <4>1. CASE post.on \in StoredPolicies
        <5>1. StoredPolicies' = StoredPolicies  BY <3>3, <4>1
        <5> QED  BY <5>1 DEF PolicyIInv, Kept
      <4>2. CASE post.on \notin StoredPolicies
        <5>1. Cardinality(StoredPolicies) < MaxPolicies  BY <1>2, <2>1, <4>2 DEF Room, StoredPolicies
        <5>2. /\ IsFiniteSet(StoredPolicies') /\ Cardinality(StoredPolicies') = Cardinality(StoredPolicies) + 1
              /\ Cardinality(StoredPolicies) \in Nat
          BY <3>3, <4>2, FS_AddElement, FS_CardinalityType DEF PolicyIInv, Kept
        <5> QED  BY <5>1, <5>2 DEF PolicyAssumption
      <4> QED  BY <4>1, <4>2
    <3>5. \A t \in Targets : pol'[t] = Absent \/ (pol'[t].rev \in 1..rev' /\ pol'[t].is \in EntryKinds(t))
      BY <1>1, <1>2, <3>1, <3>2 DEF PolicyIInv, Kept
    <3> QED  BY <1>1, <3>1, <3>4, <3>5 DEF PolicyIInv, Kept, AdminSaves
  <2>2. CASE ~Room(post.on)
    <3>1. UNCHANGED <<rev, pol>>  BY <2>2 DEF AdminSaves
    <3> QED  BY <1>1, <3>1 DEF PolicyIInv, Kept, StoredPolicies, AdminSaves
  <2> QED  BY <2>1, <2>2
<1>4. Dated' /\ lastOpen <= lastOpen' /\ now' = now  BY DEF AdminSaves, PolicyIInv, Dated, PolicyAssumption
<1>5. Documents'  BY <1>4, DocumentsStay DEF AdminSaves, PolicyIInv, Dated
<1>6. Call'  BY <1>4 DEF AdminSaves, PolicyIInv, Call, Dated
<1> QED  BY <1>3, <1>4, <1>5, <1>6 DEF PolicyIInv

\* Time passes; while nothing stops the device, so does its last open tick.
LEMMA TickKeeps ==
  ASSUME PolicyAssumption, PolicyIInv, Tick
  PROVE  PolicyIInv'
<1>1. Dated' /\ lastOpen <= lastOpen' /\ now <= now'
  BY DEF Tick, PolicyIInv, Dated, Stopped, PolicyAssumption
<1>2. Kept'  BY DEF Tick, PolicyIInv, Kept, StoredPolicies
<1>3. Documents'  BY <1>1, DocumentsStay DEF Tick, PolicyIInv
<1>4. Call'  BY <1>1 DEF Tick, PolicyIInv, Call, Dated
<1> QED  BY <1>1, <1>2, <1>3, <1>4 DEF PolicyIInv

\* A subscription, and a protected call at the server.
LEMMA GateKeeps ==
  ASSUME PolicyIInv,
         SubscriptionChanges \/ (\E m \in BOOLEAN : GateReadsPlans(m)) \/ GateDecides \/ GateLeaves
  PROVE  PolicyIInv'
<1>1. UNCHANGED <<pol, rev, adm, now, lastOpen, snap, pcache, flight>>
  BY DEF SubscriptionChanges, GateReadsPlans, GateDecides, GateLeaves
<1>2. Kept' /\ Dated' /\ Documents'  BY <1>1 DEF PolicyIInv, Kept, StoredPolicies, Dated, Stopped, Documents
<1>3. Call'
  <2>1. CASE SubscriptionChanges  BY <2>1 DEF SubscriptionChanges, PolicyIInv, Call
  <2>2. CASE \E m \in BOOLEAN : GateReadsPlans(m)
    BY <1>1, <2>2 DEF GateReadsPlans, PolicyIInv, Dated, Call
  <2>3. CASE GateDecides
    <3> DEFINE es == Applicable(Relevant(gate.plan), Checked)
    <3>1. gate.st = "plans" /\ gate.began \in 0..now  BY <2>3 DEF GateDecides, PolicyIInv, Call
    <3>2. CASE Names(es)
      <4>1. gate' = Idle  BY <2>3, <3>2, StopForbids DEF GateDecides, Names, Checked
      <4> QED  BY <4>1 DEF Call, Idle
    <3>3. CASE ~Names(es)
      <4>1. ~Stopped(pol)  BY <3>3, StopIsRelevant DEF Carried, Checked
      <4>2. lastOpen = now  BY <4>1 DEF PolicyIInv, Dated
      <4>3. gate' = Idle \/ gate' = [st |-> "allowed", began |-> gate.began]  BY <2>3 DEF GateDecides
      <4> QED  BY <1>1, <3>1, <4>2, <4>3 DEF Call, Idle
    <3> QED  BY <3>2, <3>3
  <2>4. CASE GateLeaves  BY <2>4 DEF GateLeaves, Call, Idle
  <2> QED  BY <2>1, <2>2, <2>3, <2>4
<1> QED  BY <1>2, <1>3 DEF PolicyIInv

\* The server builds the answer from the records of this moment.
LEMMA AnswersKeep ==
  ASSUME PolicyAssumption, PolicyIInv, ServerAnswers
  PROVE  Documents'
<1> DEFINE doc == DocumentAt(flight.time, flight.plan)
<1>1. /\ flight.st = "plans" /\ flight'.st = "answer" /\ flight'.cached = flight.cached
      /\ flight'.doc = doc /\ UNCHANGED <<now, lastOpen, snap, pcache>>
  BY DEF ServerAnswers
<1>2. flight.time \in 0..now /\ now \in Nat /\ lastOpen \in Nat  BY <1>1 DEF PolicyIInv, Documents, Dated
<1>3. doc.issued \in 0..now  BY <1>2, IssuedBefore
<1>4. doc.recs = Relevant(flight.plan)  BY DEF DocumentAt
<1>5. Timely(doc, lastOpen)
  <2>1. CASE Stopped(pol)  BY <1>2, <1>3, <1>4, <2>1, StopIsRelevant DEF Timely, Carried
  <2>2. CASE ~Stopped(pol)
    <3>1. lastOpen = now  BY <2>2 DEF PolicyIInv, Dated
    <3> HIDE DEF doc
    <3> QED  BY <1>2, <1>3, <3>1 DEF Timely
  <2> QED  BY <2>1, <2>2
<1> HIDE DEF doc
<1> QED  BY <1>1, <1>5 DEF PolicyIInv, Documents

\* The device's coordinator moves documents about.
LEMMA ClientKeeps ==
  ASSUME PolicyAssumption, PolicyIInv, ClientNext
  PROVE  PolicyIInv'
<1>1. UNCHANGED <<pol, rev, adm, now, lastOpen, gate>>
  BY DEF ClientNext, RefreshStarts, ServerReadsPlans, ServerAnswers, RequestFails, ReceivesUnavailable,
         ReceivesRefused, ReceivesDocument, Receives, StopClient, StartClient
<1>2. Kept' /\ Dated' /\ Call'  BY <1>1 DEF PolicyIInv, Kept, StoredPolicies, Dated, Stopped, Call
<1>3. Documents'
  <2>1. CASE RefreshStarts  BY <1>1, <2>1 DEF RefreshStarts, PolicyIInv, Documents, Nothing
  <2>2. CASE ServerReadsPlans  BY <1>1, <2>2 DEF ServerReadsPlans, PolicyIInv, Documents, Dated
  <2>3. CASE ServerAnswers  BY <2>3, AnswersKeep
  <2>4. CASE \E c \in {"unavailable", "auth", "protocol"} : RequestFails(c)
    BY <1>1, <2>4 DEF RequestFails, PolicyIInv, Documents
  <2>5. CASE ReceivesUnavailable
    BY <1>1, <2>5 DEF ReceivesUnavailable, Answered, Receives, Publish, Idle, PolicyIInv, Documents
  <2>6. CASE ReceivesRefused
    BY <1>1, <2>6 DEF ReceivesRefused, Answered, Receives, Forget, Idle, PolicyIInv, Documents
  <2>7. CASE ReceivesDocument
    BY <1>1, <2>7 DEF ReceivesDocument, Answered, Receives, Publish, Forget, Idle, PolicyIInv, Documents
  <2>8. CASE StopClient  BY <1>1, <2>8 DEF StopClient, PolicyIInv, Documents
  <2>9. CASE StartClient  BY <1>1, <2>9 DEF StartClient, Idle, PolicyIInv, Documents
  <2> QED  BY <2>1, <2>2, <2>3, <2>4, <2>5, <2>6, <2>7, <2>8, <2>9 DEF ClientNext
<1> QED  BY <1>2, <1>3 DEF PolicyIInv

\* Every step keeps the invariant.
LEMMA PolicyStep ==
  ASSUME PolicyAssumption, PolicyIInv, [PolicyNext]_policyVars
  PROVE  PolicyIInv'
<1>1. CASE UNCHANGED policyVars
  BY <1>1 DEF policyVars, PolicyIInv, Kept, StoredPolicies, Dated, Stopped, Documents, Call
<1> QED  BY <1>1, TickKeeps, PostsKeep, SavesKeep, GateKeeps, ClientKeeps DEF PolicyNext, CloudNext

-----------------------------------------------------------------------------
(* The theorem.                                                             *)

\* What the invariant says of documents and calls is that the stop is timely.
LEMMA PolicyIsSafe ==
  ASSUME PolicyAssumption, PolicyIInv
  PROVE  PolicyInv
<1>1. PolicyTypeOK
  <2>1. Cardinality(adm) \in Nat  BY FS_CardinalityType DEF PolicyIInv, Kept
  <2> QED  BY <2>1 DEF PolicyIInv, Kept, Dated, Documents, PolicyTypeOK, PolicyAssumption
<1>2. CapacityHolds  BY DEF PolicyIInv, Kept, CapacityHolds
<1>3. StopReachesClient
  <2> SUFFICES ASSUME Decide(snap) PROVE now - lastOpen < Validity  BY DEF StopReachesClient
  <2>1. snap # Nothing /\ now < snap.doc.issued + Validity  BY DEF Decide, Current
  <2>2. ~Names(Applicable(snap.doc.recs, Carried))  BY StopForbids DEF Decide, Carried
  <2>3. snap.doc.issued \in Nat /\ snap.doc.issued <= lastOpen  BY <2>1, <2>2 DEF PolicyIInv, Documents, Timely
  <2> QED  BY <2>1, <2>3 DEF PolicyIInv, Dated, PolicyAssumption
<1>4. StopReachesServer  BY DEF PolicyIInv, Call, Dated, StopReachesServer
<1>5. MergeNarrows  BY MergeOnlyNarrows DEF MergeNarrows
<1> QED  BY <1>1, <1>2, <1>3, <1>4, <1>5 DEF PolicyInv

\* For any times, revisions and failures: an emergency stop reaches the device and
\* the server's gate in time, the store keeps its capacity, and merging only narrows
\* (resolution.ts, feature-policy-routes.ts, feature-policy-coordinator.ts).
THEOREM PolicyStopsInTime == ASSUME PolicyAssumption PROVE PolicySpec => []PolicyInv
<1>1. PolicyInit => PolicyIInv  BY PolicyStarts
<1>2. PolicyIInv /\ [PolicyNext]_policyVars => PolicyIInv'  BY PolicyStep
<1>3. PolicyIInv => PolicyInv  BY PolicyIsSafe
<1> QED  BY <1>1, <1>2, <1>3, PTL DEF PolicySpec

-----------------------------------------------------------------------------
(* Releases of installers and archives.  The invariant speaks of every index *)
(* there is, the stored one and what each upload read: one record per version *)
(* and per number, with a file for each.  Files are never removed, so an old *)
(* reading stays good, and an upload whose version has no file adds a version *)
(* that no index has.  The client route adds to the index of the moment, which *)
(* is also in order; the artifact route adds to what it read.               *)

\* A nonempty finite set of numbers has a largest one.
LEMMA SetMax ==
  ASSUME NEW T \in SUBSET Nat, IsFiniteSet(T), T # {}
  PROVE  \E m \in T : \A k \in T : k <= m
<1> DEFINE Above(m) == {k \in T : m <= k}
           U == {Above(m) : m \in T}
           R == StrictSubsetOrdering(T)
           F == FiniteSubsetsOf(T)
<1>1. U \subseteq F
  BY FS_Subset DEF FiniteSubsetsOf
<1>2. U # {}
  <2>1. PICK m : m \in T  OBVIOUS
  <2>2. Above(m) \in U  BY <2>1
  <2> QED  BY <2>2
<1>3. IsWellFoundedOn(R, F)
  BY FS_StrictSubsetOrderingWellFounded
<1>4. \E x \in U : \A y \in U : ~ (<<y, x>> \in R)
  <2> HIDE DEF U, R, F
  <2> QED  BY <1>1, <1>2, <1>3, WFMin
<1>5. PICK m \in T : \A y \in U : ~ (<<y, Above(m)>> \in R)
  BY <1>4
<1>6. ASSUME NEW k \in T, ~ (k <= m) PROVE FALSE
  <2>1. Above(k) \subseteq Above(m) /\ Above(k) # Above(m)
    <3>1. m \in Above(m) /\ m \notin Above(k)
      BY <1>6
    <3>2. \A j \in Above(k) : j \in Above(m)
      BY <1>6
    <3> QED  BY <3>1, <3>2
  <2>2. Above(k) \in SUBSET T /\ Above(m) \in SUBSET T /\ Above(k) \in U
    OBVIOUS
  <2>3. <<Above(k), Above(m)>> \in R
    <3> HIDE DEF Above
    <3> QED  BY <2>1, <2>2 DEF StrictSubsetOrdering
  <2> QED  BY <1>5, <2>2, <2>3
<1> QED
  BY <1>6

\* An index with one record per version and per sequence number, and a file for each.
GoodIndex(S, D) ==
  /\ S \subseteq Records
  /\ \A r, s \in S : r.v = s.v \/ r.seq = s.seq => r = s
  /\ Held(S) \subseteq D

\* Within a channel a larger sequence number is a higher version.
InOrder(S) == \A r, s \in S : r.ch = s.ch /\ r.seq < s.seq => r.v < s.v

\* The inductive invariant: what an upload read is a good index too.
RelIInv ==
  /\ RelTypeOK
  /\ GoodIndex(index, disk)
  /\ \A a \in Uploaders : GoodIndex(up[a].read, disk)
  /\ surface = "client" => accepted \subseteq Held(index) /\ InOrder(index)

\* The number TopSeq hands out is the largest one in use.
LEMMA TopSeqIsTop ==
  ASSUME NEW S \in SUBSET Records, RlAssumption
  PROVE  /\ TopSeq(S) \in 0..MaxSeq
         /\ \A r \in S : r.seq <= TopSeq(S)
         /\ S # {} => \E r \in S : r.seq = TopSeq(S)
<1>1. CASE S = {}
  BY <1>1 DEF TopSeq, RlAssumption
<1>2. CASE S # {}
  <2> DEFINE T == {r.seq : r \in S}
  <2>1. T \subseteq 1..MaxSeq
    BY DEF Records
  <2>2. IsFiniteSet(T)
    BY <2>1, FS_Interval, FS_Subset, 1 \in Int, MaxSeq \in Int DEF RlAssumption
  <2>3. T # {}
    <3>1. PICK r : r \in S  BY <1>2
    <3>2. r.seq \in T  BY <3>1
    <3> QED  BY <3>2
  <2>4. PICK m \in T : \A k \in T : k <= m
    <3>1. T \in SUBSET Nat  BY <2>1
    <3> HIDE DEF T
    <3> QED  BY <3>1, <2>2, <2>3, SetMax
  <2>5. \E n \in T : \A r \in S : r.seq <= n
    BY <2>4
  <2>6. TopSeq(S) \in T /\ \A r \in S : r.seq <= TopSeq(S)
    BY <1>2, <2>5 DEF TopSeq
  <2> QED
    BY <2>1, <2>6 DEF RlAssumption
<1> QED
  BY <1>1, <1>2

\* A record of the top sequence number is the one that is found first.
LEMMA FirstIsTop ==
  ASSUME NEW S \in SUBSET Records, RlAssumption, S # {}
  PROVE  First(S) \in S /\ First(S).seq = TopSeq(S)
BY TopSeqIsTop DEF First

\* The empty index satisfies the invariant.
LEMMA InitKeeps == RlAssumption /\ RelInit => RelIInv
BY DEF RlAssumption, RelInit, RelIInv, RelTypeOK, GoodIndex, InOrder, Held, NoUpload

\* client-release-routes.ts upload: what it read is the index of that moment.
LEMMA StartKeeps ==
  ASSUME RelIInv, NEW a \in Uploaders, NEW v \in Versions, NEW c \in Channels, StartUpload(a, v, c)
  PROVE  RelIInv'
<1> DEFINE x == [v |-> v, ch |-> c, read |-> index]
<1>1. up' = [up EXCEPT ![a] = x] /\ UNCHANGED <<surface, index, disk, accepted, gone, rlfaults>>
  BY DEF StartUpload
<1>2. RelTypeOK'
  BY <1>1 DEF RelIInv, RelTypeOK
<1>3. GoodIndex(index', disk')
  BY <1>1 DEF RelIInv, GoodIndex, Records, Held
<1>5. \A b \in Uploaders : GoodIndex(up'[b].read, disk')
  BY <1>1 DEF RelIInv, RelTypeOK
<1> QED
  BY <1>1, <1>2, <1>3, <1>5 DEF RelIInv, InOrder, Held

\* An upload that fails leaves no more than its temporary file behind.
LEMMA FailKeeps ==
  ASSUME RelIInv, NEW a \in Uploaders, FailUpload(a)
  PROVE  RelIInv'
<1>1. up' = [up EXCEPT ![a] = NoUpload] /\ UNCHANGED <<surface, index, disk, accepted, gone, rlfaults>>
  BY DEF FailUpload
<1>2. RelTypeOK'
  BY <1>1 DEF RelIInv, RelTypeOK
<1>3. GoodIndex(index', disk')
  BY <1>1 DEF RelIInv, GoodIndex, Records, Held
<1>5. \A b \in Uploaders : GoodIndex(up'[b].read, disk')
  BY <1>1 DEF RelIInv, RelTypeOK, NoUpload, GoodIndex, Held
<1> QED
  BY <1>1, <1>2, <1>3, <1>5 DEF RelIInv, InOrder, Held

\* The record that publication adds is new to the index it is added to.
LEMMA AddedIsGood ==
  ASSUME RlAssumption, NEW S, NEW D, GoodIndex(S, D), NEW v \in Versions, NEW c \in Channels, v \notin D,
         TopSeq(S) < MaxSeq
  PROVE  GoodIndex(S \cup {[v |-> v, ch |-> c, seq |-> TopSeq(S) + 1, withdrawn |-> FALSE, rollout |-> "paused"]},
                   D \cup {v})
<1> DEFINE n == [v |-> v, ch |-> c, seq |-> TopSeq(S) + 1, withdrawn |-> FALSE, rollout |-> "paused"]
<1>1. TopSeq(S) \in 0..MaxSeq /\ \A r \in S : r.seq <= TopSeq(S) /\ r.seq \in Nat
  BY TopSeqIsTop DEF GoodIndex, Records
<1>2. n \in Records
  BY <1>1 DEF Records, Policies, RlAssumption
<1>3. \A r \in S : r.seq # n.seq /\ r.v # n.v
  BY <1>1 DEF GoodIndex, Held
<1>4. \A r, s \in S \cup {n} : r.v = s.v \/ r.seq = s.seq => r = s
  <2> HIDE DEF n
  <2> QED  BY <1>3 DEF GoodIndex
<1>5. Held(S \cup {n}) \subseteq D \cup {v}
  BY DEF GoodIndex, Held
<1> HIDE DEF n
<1>6. GoodIndex(S \cup {n}, D \cup {v})
  BY <1>2, <1>4, <1>5 DEF GoodIndex, Records, Held
<1> QED
  BY <1>6 DEF n

\* client-release-routes.ts:381-461: checks, link and save in one step.
LEMMA PublishKeeps ==
  ASSUME RlAssumption, RelIInv, NEW a \in Uploaders, PublishRelease(a)
  PROVE  RelIInv'
<1> DEFINE u == up[a]
           S == Base(a)
           n == [v |-> u.v, ch |-> u.ch, seq |-> TopSeq(S) + 1, withdrawn |-> FALSE, rollout |-> "paused"]
<1>1. u # NoUpload /\ up' = [up EXCEPT ![a] = NoUpload] /\ UNCHANGED <<surface, gone>>
  BY DEF PublishRelease
<1>2. GoodIndex(S, disk)
  BY DEF Base, RelIInv
<1>3. u.v \in Versions /\ u.ch \in Channels
  BY <1>1 DEF RelIInv, RelTypeOK
<1>4. up' \in [Uploaders -> {NoUpload} \cup [v : Versions, ch : Channels, read : SUBSET Records]]
  BY <1>1 DEF RelIInv, RelTypeOK
<1>5. CASE UNCHANGED <<index, disk, accepted>> /\ rlfaults' \in 0..RlFaults
  <2>2. \A b \in Uploaders : GoodIndex(up'[b].read, disk')
    BY <1>1, <1>5 DEF RelIInv, RelTypeOK, NoUpload, GoodIndex, Held
  <2>3. RelTypeOK'
    BY <1>1, <1>4, <1>5 DEF RelIInv, RelTypeOK, Records
  <2>4. GoodIndex(index', disk')
    BY <1>5 DEF RelIInv, GoodIndex, Records, Held
  <2> QED
    BY <1>1, <1>5, <2>2, <2>3, <2>4 DEF RelIInv, InOrder, Held
<1>6. CASE /\ u.v \notin disk /\ (surface = "client" => Newer(S, u.v, u.ch))
           /\ TopSeq(S) < MaxSeq /\ index' = S \cup {n}
           /\ disk' = disk \cup {u.v} /\ accepted' = accepted \cup {u.v} /\ UNCHANGED rlfaults
  <2>1. GoodIndex(index', disk')
    <3>1. GoodIndex(S \cup {n}, disk \cup {u.v})
      <4>1. u.v \notin disk /\ TopSeq(S) < MaxSeq
        BY <1>6
      <4> HIDE DEF u, S
      <4> QED  BY <4>1, <1>2, <1>3, AddedIsGood DEF n
    <3> HIDE DEF S, n
    <3> QED  BY <3>1, <1>6
  <2>2. \A b \in Uploaders : GoodIndex(up'[b].read, disk')
    <3>1. \A b \in Uploaders : GoodIndex(up'[b].read, disk)
      BY <1>1 DEF RelIInv, RelTypeOK, NoUpload, GoodIndex, Held
    <3>2. disk \subseteq disk'  BY <1>6
    <3> QED  BY <3>1, <3>2 DEF GoodIndex
  <2>3. RelTypeOK'
    BY <1>1, <1>3, <1>4, <1>6, <2>1 DEF RelIInv, RelTypeOK, Records, GoodIndex
  <2>4. ASSUME surface = "client" PROVE accepted' \subseteq Held(index')
    <3>1. S = index  BY <2>4 DEF Base
    <3> HIDE DEF S
    <3>2. n \in index' /\ n.v = u.v  BY <1>6
    <3> QED  BY <1>6, <2>4, <3>1, <3>2 DEF RelIInv, Held
  <2>5. ASSUME surface = "client", NEW r \in index', NEW s \in index', r.ch = s.ch, r.seq < s.seq
        PROVE r.v < s.v
    <3>1. S = index  BY <2>5 DEF Base
    <3>2. TopSeq(S) \in Nat /\ \A t \in S : t \in Records /\ t.seq \in Nat /\ t.seq <= TopSeq(S)
      BY <1>2, TopSeqIsTop DEF GoodIndex, Records
    <3>3. n.seq = TopSeq(S) + 1 /\ n.v = u.v /\ n.ch = u.ch
      OBVIOUS
    <3> HIDE DEF n, S
    <3>4. CASE r = n
      <4>1. s \in S \/ s = n  BY <1>6
      <4>2. s.seq <= n.seq  BY <4>1, <3>2, <3>3
      <4>3. s.seq \in Nat  BY <4>1, <3>2, <3>3
      <4> QED  BY <4>2, <4>3, <3>4, <2>5, <3>2, <3>3
    <3>5. CASE r \in S /\ s \in S
      BY <3>5, <3>1, <2>5 DEF RelIInv, InOrder
    <3>6. CASE r \in S /\ s = n
      <4> DEFINE C == InChannel(S, u.ch)
      <4>1. r \in C /\ C \subseteq S
        BY <3>6, <2>5, <3>3 DEF InChannel
      <4>2. C \in SUBSET Records  BY <4>1, <3>2
      <4>3. PICK t \in C : t.seq = TopSeq(C)
        <5> HIDE DEF C
        <5> QED  BY <4>1, <4>2, TopSeqIsTop
      <4>4. u.v > t.v
        BY <1>6, <2>5, <4>3 DEF Newer
      <4>5. r.seq <= t.seq
        <5> HIDE DEF C
        <5> QED  BY <4>1, <4>2, <4>3, TopSeqIsTop
      <4>6. t.ch = r.ch /\ t \in index /\ r \in index
        BY <4>1, <4>3, <3>1, <3>3, <2>5, <3>6 DEF InChannel
      <4>7. r.seq = t.seq => r = t
        BY <4>6 DEF RelIInv, GoodIndex
      <4>8. r.seq < t.seq => r.v < t.v
        BY <4>6, <2>5 DEF RelIInv, InOrder
      <4>9. r.seq \in Nat /\ t.seq \in Nat /\ r.v \in Nat /\ t.v \in Nat /\ u.v \in Nat
        BY <4>6, <3>2, <3>1, <1>3 DEF Records, RlAssumption
      <4> QED  BY <4>4, <4>5, <4>7, <4>8, <4>9, <3>6, <3>3
    <3> QED  BY <1>6, <3>4, <3>5, <3>6
  <2> QED
    BY <1>1, <2>1, <2>2, <2>3, <2>4, <2>5 DEF RelIInv, InOrder
<1>7. rlfaults \in 0..RlFaults /\ RlFaults \in Nat
  BY DEF RelIInv, RelTypeOK, RlAssumption
<1>8. \/ UNCHANGED <<index, disk, accepted, rlfaults>>
      \/ rlfaults < RlFaults /\ rlfaults' = rlfaults + 1 /\ UNCHANGED <<index, disk, accepted>>
      \/ /\ u.v \notin disk /\ (surface = "client" => Newer(S, u.v, u.ch))
         /\ TopSeq(S) < MaxSeq /\ index' = S \cup {n}
         /\ disk' = disk \cup {u.v} /\ accepted' = accepted \cup {u.v} /\ UNCHANGED rlfaults
  BY DEF PublishRelease
<1> QED
  BY <1>5, <1>6, <1>7, <1>8

\* A change of policy or a withdrawal: every record stays where it is, and at most version v
\* gets another number, one that is larger than all others.
Changed(S, S2, g, v, n) ==
  /\ \A s \in S2 : \E r \in S : s = g[r]
  /\ \A r \in S : /\ g[r] \in S2 /\ g[r] \in Records /\ g[r].v = r.v /\ g[r].ch = r.ch
                  /\ g[r].seq = r.seq \/ (r.v = v /\ g[r].seq = n /\ \A t \in S : t.seq < n)

\* A changed index is a good one.
LEMMA ChangedIsGood ==
  ASSUME RlAssumption, NEW S, NEW D, GoodIndex(S, D), NEW S2, NEW v, NEW n \in 1..MaxSeq,
         NEW g, Changed(S, S2, g, v, n)
  PROVE  GoodIndex(S2, D)
<1> USE DEF Changed
<1>1. S2 \subseteq Records /\ Held(S2) \subseteq Held(S)
  BY DEF Held
<1>2. ASSUME NEW r \in S, NEW s \in S, g[r].v = g[s].v \/ g[r].seq = g[s].seq PROVE r = s
  <2>1. r.seq \in Nat /\ s.seq \in Nat /\ n \in Nat
    BY DEF GoodIndex, Records
  <2>2. r.v = s.v => r = s
    BY DEF GoodIndex
  <2>3. r.seq = s.seq => r = s
    BY DEF GoodIndex
  <2> QED
    BY <1>2, <2>1, <2>2, <2>3
<1>3. \A r, s \in S2 : r.v = s.v \/ r.seq = s.seq => r = s
  BY <1>2
<1> QED
  BY <1>1, <1>3 DEF GoodIndex

\* PATCH .../rollout: only the newest record of a channel, which takes the next number.
LEMMA RolloutKeeps ==
  ASSUME RlAssumption, RelIInv, NEW v \in Versions, NEW p \in Policies, Rollout(v, p)
  PROVE  RelIInv'
<1> DEFINE n == TopSeq(index) + 1
           g == [r \in index |-> IF r.v = v THEN [r EXCEPT !.seq = n, !.rollout = p] ELSE r]
<1>1. /\ TopSeq(index) \in Nat /\ \A t \in index : t \in Records /\ t.seq \in Nat /\ t.seq <= TopSeq(index)
  BY TopSeqIsTop DEF RelIInv, GoodIndex, Records
<1>2. n \in 1..MaxSeq /\ \A t \in index : t.seq < n
  <2>1. TopSeq(index) < MaxSeq /\ MaxSeq \in Nat
    BY DEF Rollout, RlAssumption
  <2> QED  BY <1>1, <2>1
<1>3. index' = {g[r] : r \in index} /\ UNCHANGED <<surface, disk, up, accepted, gone, rlfaults>>
  BY DEF Rollout
<1>4. \A r \in index : /\ g[r] \in Records /\ g[r].v = r.v /\ g[r].ch = r.ch
                       /\ IF r.v = v THEN g[r].seq = n ELSE g[r] = r
  <2> TAKE r \in index
  <2> HIDE DEF n
  <2>1. r \in Records  BY <1>1
  <2> QED  BY <1>2, <2>1 DEF Records
<1>5. Changed(index, index', g, v, n)
  <2>1. \A s \in index' : \E r \in index : s = g[r]
    BY <1>3
  <2>2. \A r \in index : g[r] \in index'
    BY <1>3
  <2> HIDE DEF n, g
  <2> QED  BY <1>2, <1>4, <2>1, <2>2 DEF Changed
<1>6. GoodIndex(index', disk)
  <2>1. GoodIndex(index, disk)
    BY DEF RelIInv
  <2> HIDE DEF n, g
  <2> QED  BY <1>2, <1>5, <2>1, ChangedIsGood
<1>7. Held(index') = Held(index)
  <2> HIDE DEF g
  <2> QED  BY <1>3, <1>4 DEF Held
<1>8. ASSUME surface = "client" PROVE InOrder(index')
  <2>1. PICK top \in index : top.v = v /\ top = First(InChannel(index, top.ch))
    BY DEF Rollout, Adjustable
  <2> DEFINE C == InChannel(index, top.ch)
  <2>2. C \in SUBSET Records /\ top \in C /\ \A r \in index : r.ch = top.ch => r \in C
    BY <1>1 DEF InChannel
  <2>3. \A r \in C : r.seq <= top.seq
    <3> HIDE DEF C
    <3> QED  BY <2>1, <2>2, TopSeqIsTop, FirstIsTop DEF C
  <2>4. \A r \in index : r.v = v => r = top
    BY <2>1 DEF RelIInv, GoodIndex
  <2>5. ASSUME NEW r \in index, NEW s \in index, g[r].ch = g[s].ch, g[r].seq < g[s].seq
        PROVE  r.v < s.v
    <3>1. r.ch = s.ch  BY <1>4, <2>5
    <3>2. r.seq \in Nat /\ s.seq \in Nat /\ n \in Nat  BY <1>1
    <3> HIDE DEF g, n
    <3>3. CASE s.v = v
      <4>1. s = top /\ r.seq <= s.seq  BY <2>2, <2>3, <2>4, <3>1, <3>3
      <4>2. r # s  BY <2>5, <1>4, <3>2
      <4>3. r.seq # s.seq  BY <4>2 DEF RelIInv, GoodIndex
      <4> QED  BY <4>1, <4>3, <3>1, <3>2, <1>8 DEF RelIInv, InOrder
    <3>4. CASE s.v # v /\ r.v = v
      <4>1. g[r].seq = n /\ g[s].seq = s.seq  BY <1>4, <3>4
      <4> QED  BY <4>1, <1>2, <2>5, <3>2
    <3>5. CASE s.v # v /\ r.v # v
      <4>1. g[r] = r /\ g[s] = s  BY <1>4, <3>5
      <4> QED  BY <4>1, <2>5, <1>8 DEF RelIInv, InOrder
    <3> QED  BY <3>3, <3>4, <3>5
  <2>6. \A r \in index : g[r].v = r.v  BY <1>4
  <2> HIDE DEF g
  <2> QED  BY <1>3, <2>5, <2>6 DEF InOrder
<1>9. RelTypeOK'
  BY <1>3, <1>6 DEF RelIInv, RelTypeOK, GoodIndex, Records
<1> QED
  BY <1>3, <1>6, <1>7, <1>8, <1>9 DEF RelIInv

\* DELETE: a record is marked and stays, with its number.
LEMMA WithdrawKeeps ==
  ASSUME RlAssumption, RelIInv, NEW v \in Versions, Withdraw(v)
  PROVE  RelIInv'
<1> DEFINE g == [r \in index |-> IF r.v = v THEN [r EXCEPT !.withdrawn = TRUE] ELSE r]
<1>1. surface = "artifact" /\ index' = {g[r] : r \in index} /\ gone' = gone \cup {v}
      /\ UNCHANGED <<surface, disk, up, accepted, rlfaults>>
  BY DEF Withdraw
<1>2. \A r \in index : g[r] \in Records /\ g[r].v = r.v /\ g[r].ch = r.ch /\ g[r].seq = r.seq
  <2> TAKE r \in index
  <2>1. r \in Records  BY DEF RelIInv, GoodIndex
  <2> QED  BY <2>1 DEF Records
<1>3. GoodIndex(index', disk)
  <2>1. CASE index = {}
    BY <1>1, <2>1 DEF GoodIndex, Held
  <2>2. CASE index # {}
    <3>1. PICK n \in 1..MaxSeq : TRUE
      BY <2>2 DEF RelIInv, GoodIndex, Records
    <3>2. GoodIndex(index, disk)  BY DEF RelIInv
    <3>3. /\ \A s \in index' : \E r \in index : s = g[r]
          /\ \A r \in index : g[r] \in index'
      BY <1>1
    <3> HIDE DEF g
    <3>4. Changed(index, index', g, v, n)  BY <1>2, <3>3 DEF Changed
    <3> QED  BY <3>1, <3>2, <3>4, ChangedIsGood
  <2> QED  BY <2>1, <2>2
<1>4. RelTypeOK'
  BY <1>1, <1>3 DEF RelIInv, RelTypeOK, GoodIndex, Records
<1> QED
  BY <1>1, <1>3, <1>4 DEF RelIInv

\* A stop of the API forgets what was being uploaded, perhaps after its file was linked.
LEMMA CrashKeeps ==
  ASSUME RlAssumption, RelIInv, RelCrash
  PROVE  RelIInv'
<1>1. up' = [a \in Uploaders |-> NoUpload] /\ UNCHANGED <<surface, index, accepted, gone>>
  BY DEF RelCrash
<1>2. disk \subseteq disk' /\ disk' \subseteq Versions /\ rlfaults' \in 0..RlFaults
  <2>1. PICK linked \in {{}} \cup {{up[a].v} : a \in {b \in Uploaders : up[b] # NoUpload}} :
           disk' = disk \cup linked
    BY DEF RelCrash
  <2>2. linked \subseteq Versions
    BY <2>1 DEF RelIInv, RelTypeOK
  <2>3. rlfaults' \in 0..RlFaults
    BY DEF RelCrash, RelIInv, RelTypeOK, RlAssumption
  <2> QED  BY <2>1, <2>2, <2>3 DEF RelIInv, RelTypeOK
<1>3. GoodIndex(index', disk')
  BY <1>1, <1>2 DEF RelIInv, GoodIndex
<1>4. \A a \in Uploaders : GoodIndex(up'[a].read, disk')
  BY <1>1 DEF NoUpload, GoodIndex, Held
<1>5. RelTypeOK'
  BY <1>1, <1>2 DEF RelIInv, RelTypeOK, Records
<1> QED
  BY <1>1, <1>3, <1>4, <1>5 DEF RelIInv

\* Every step of the release routes keeps the invariant.
LEMMA RelStep == RlAssumption /\ RelIInv /\ [RelNext]_relVars => RelIInv'
<1> SUFFICES ASSUME RlAssumption, RelIInv, [RelNext]_relVars PROVE RelIInv'
  OBVIOUS
<1>1. CASE UNCHANGED relVars
  BY <1>1 DEF relVars, RelIInv, RelTypeOK, Records, GoodIndex, Held, InOrder
<1>2. CASE RelNext
  BY <1>2, StartKeeps, FailKeeps, PublishKeeps, WithdrawKeeps, RolloutKeeps, CrashKeeps DEF RelNext
<1> QED
  BY <1>1, <1>2

\* client-release-routes.ts, cloud-artifact-release-routes.ts: the invariant says what is checked.
LEMMA NoReleaseIsLost == RelSpec => []ReleasesInv
<1>1. RelIInv => ReleasesInv
  BY DEF RelIInv, ReleasesInv, GoodIndex, InOrder
<1> QED
  BY <1>1, InitKeeps, RelStep, RlAssumption, PTL DEF RelSpec

\* What a step of the client route leaves of each record: its version and channel, and a number
\* that is not smaller; and no number passes to another record.
CarriesOver(S, S2) == \A r \in S : \E s \in S2 : s.v = r.v /\ s.ch = r.ch /\ s.seq >= r.seq
SeqKept(S, S2) == \A r \in S, s \in S2 : r.seq = s.seq => r = s

\* A step of the client route carries the records.
LEMMA StepCarries ==
  ASSUME RlAssumption, RelIInv, RelNext, surface = "client"
  PROVE  CarriesOver(index, index') /\ SeqKept(index, index')
<1>0. TopSeq(index) \in Nat /\ \A r \in index : r \in Records /\ r.seq \in Nat /\ r.seq <= TopSeq(index)
  BY TopSeqIsTop DEF RelIInv, GoodIndex, Records
<1>1. CASE index' = index
  BY <1>0, <1>1 DEF CarriesOver, SeqKept, RelIInv, GoodIndex
<1>2. ASSUME NEW a \in Uploaders, PublishRelease(a), index' # index
      PROVE  CarriesOver(index, index') /\ SeqKept(index, index')
  <2>1. PICK n : n.seq = TopSeq(index) + 1 /\ index' = index \cup {n}
    BY <1>2 DEF PublishRelease, Base
  <2>2. \A r \in index : r.seq # n.seq
    BY <1>0, <2>1
  <2> QED
    BY <1>0, <2>1, <2>2 DEF CarriesOver, SeqKept, RelIInv, GoodIndex
<1>3. ASSUME NEW v \in Versions, NEW p \in Policies, Rollout(v, p)
      PROVE  CarriesOver(index, index') /\ SeqKept(index, index')
  <2> DEFINE n == TopSeq(index) + 1
             g == [r \in index |-> IF r.v = v THEN [r EXCEPT !.seq = n, !.rollout = p] ELSE r]
  <2>1. index' = {g[r] : r \in index}
    BY <1>3 DEF Rollout
  <2>2. \A r \in index : /\ g[r].v = r.v /\ g[r].ch = r.ch
                         /\ IF r.v = v THEN g[r].seq = n ELSE g[r] = r
    <3> TAKE r \in index
    <3> HIDE DEF n
    <3>1. r \in Records  BY <1>0
    <3> QED  BY <3>1 DEF Records
  <2>3. n \in Nat /\ \A r \in index : r.seq < n
    BY <1>0
  <2> HIDE DEF n, g
  <2>4. ASSUME NEW r \in index PROVE g[r] \in index' /\ g[r].seq >= r.seq
    BY <1>0, <2>1, <2>2, <2>3, <2>4
  <2>5. ASSUME NEW r \in index, NEW s \in index, r.seq = g[s].seq PROVE r = g[s]
    BY <2>2, <2>3, <2>5 DEF RelIInv, GoodIndex
  <2> QED
    BY <2>1, <2>2, <2>4, <2>5 DEF CarriesOver, SeqKept
<1> QED
  BY <1>1, <1>2, <1>3 DEF RelNext, StartUpload, FailUpload, Withdraw, RelCrash

\* GET .../latest of the client route: what is carried is offered, or something newer is.
LEMMA CarriedIsOffered ==
  ASSUME RlAssumption, NEW S \in SUBSET Records, NEW S2, NEW D, GoodIndex(S2, D), InOrder(S2),
         CarriesOver(S, S2), surface = "client", NEW c \in Channels, NEW r \in Offered(S, c)
  PROVE  \E s \in Offered(S2, c) : s.v >= r.v /\ s.seq >= r.seq
<1> DEFINE C == InChannel(S, c)
           C2 == InChannel(S2, c)
<1>1. Offered(S, c) = IF C = {} THEN {} ELSE {First(C)}
  BY DEF Offered
<1>2. Offered(S2, c) = IF C2 = {} THEN {} ELSE {First(C2)}
  BY DEF Offered
<1>3. C \in SUBSET Records /\ C2 \in SUBSET Records
  BY DEF InChannel, GoodIndex
<1>4. C # {} /\ r = First(C)
  BY <1>1
<1>5. r \in C
  <2> HIDE DEF C
  <2> QED  BY <1>3, <1>4, FirstIsTop
<1>6. PICK s \in C2 : s.v = r.v /\ s.seq >= r.seq
  BY <1>5 DEF InChannel, CarriesOver
<1> DEFINE t == First(C2)
<1>7. t \in C2 /\ s.seq <= t.seq /\ t \in Offered(S2, c)
  <2> HIDE DEF C2
  <2> QED  BY <1>2, <1>3, <1>6, FirstIsTop, TopSeqIsTop
<1>8. t \in S2 /\ s \in S2 /\ t.ch = s.ch
  BY <1>6, <1>7 DEF InChannel
<1> HIDE DEF t, C, C2
<1>9. s.seq \in Nat /\ t.seq \in Nat /\ r.seq \in Nat /\ s.v \in Nat /\ t.v \in Nat /\ r.v \in Nat
  <2>1. ASSUME NEW x \in Records PROVE x.seq \in Nat /\ x.v \in Nat
    <3>1. x.seq \in 1..MaxSeq /\ x.v \in Versions  BY DEF Records
    <3>2. x.seq \in Nat  BY <3>1 DEF RlAssumption
    <3>3. \A w \in Versions : w \in Nat  BY DEF RlAssumption
    <3> QED  BY <3>1, <3>2, <3>3
  <2> QED  BY <1>3, <1>5, <1>6, <1>7, <2>1
<1>10. s.seq = t.seq => s = t
  BY <1>8 DEF GoodIndex
<1>11. s.seq < t.seq => s.v < t.v
  BY <1>8 DEF InOrder
<1> QED
  BY <1>6, <1>7, <1>9, <1>10, <1>11

\* client-release-routes.ts: for any versions, channels, uploads and failures, what a channel
\* offers never goes back to a lower version or number, and no number passes to another record.
THEOREM OffersGoForward == RelSpec => OfferAdvances
<1> DEFINE Forward == surface = "client" =>
             /\ \A c \in Channels : \A r \in Offered(index, c) : \E s \in Offered(index', c) :
                   s.v >= r.v /\ s.seq >= r.seq
             /\ \A r \in index, s \in index' : r.seq = s.seq => r = s
<1>1. RlAssumption /\ RelIInv /\ RelIInv' /\ RelNext => Forward
  <2> SUFFICES ASSUME RlAssumption, RelIInv, RelIInv', RelNext, surface = "client" PROVE Forward
    OBVIOUS
  <2>1. CarriesOver(index, index') /\ SeqKept(index, index')
    BY StepCarries
  <2>2. surface' = surface
    BY DEF RelNext, StartUpload, FailUpload, PublishRelease, Rollout, Withdraw, RelCrash
  <2>3. GoodIndex(index', disk') /\ InOrder(index')
    BY <2>2 DEF RelIInv
  <2>4. index \in SUBSET Records
    BY DEF RelIInv, GoodIndex
  <2>5. \A c \in Channels : \A r \in Offered(index, c) : \E s \in Offered(index', c) :
           s.v >= r.v /\ s.seq >= r.seq
    BY <2>1, <2>3, <2>4, CarriedIsOffered
  <2> QED
    BY <2>1, <2>5 DEF SeqKept
<1> HIDE DEF Forward
<1>2. RelSpec => [][Forward]_relVars
  BY <1>1, InitKeeps, RelStep, RlAssumption, PTL DEF RelSpec
<1> QED
  BY <1>2 DEF OfferAdvances, Forward

-----------------------------------------------------------------------------
(* Releases of Skill adapters.  A version has one row, whose content never  *)
(* changes, and what was sent to the device is the content of a row.  The three *)
(* readers then look at the same row.                                       *)

\* What a store keeps of an adapter.
Rows == [v : AdapterVersions, digest : Contents, min : ManagerVersions, host : Hosts,
         status : {"active", "revoked"}, intact : BOOLEAN]

\* INSERT ... ON CONFLICT DO NOTHING: one row per version.
OneRowEach == \A i, j \in DOMAIN rows : rows[i].v = rows[j].v => i = j

\* What was sent to the device is the content of a row.
SentIsStored == \A s \in served : \E i \in DOMAIN rows : rows[i].v = s[1] /\ rows[i].digest = s[2]

\* The inductive invariant.
AdIInv == AdTypeOK /\ OneRowEach /\ SentIsStored

\* A step that changes rows in place changes neither their versions nor their contents.
InPlace(new) ==
  /\ DOMAIN new = DOMAIN rows
  /\ \A i \in DOMAIN rows : new[i] \in Rows /\ new[i].v = rows[i].v /\ new[i].digest = rows[i].digest

\* The rows are a sequence of adapters.
LEMMA RowTypes ==
  ASSUME AdIInv
  PROVE  DOMAIN rows = 1..Len(rows) /\ Len(rows) \in Nat /\ \A i \in DOMAIN rows : rows[i] \in Rows
<1>1. rows \in Seq(Rows)
  BY DEF AdIInv, AdTypeOK, Rows
<1> QED  BY <1>1

\* Revocation and damage change rows in place.
LEMMA InPlaceKeeps ==
  ASSUME AdIInv, rows' = [i \in DOMAIN rows |-> rows'[i]], InPlace(rows'), UNCHANGED <<packages, device, access, served>>,
         adevents' \in 0..AdEvents
  PROVE  AdIInv'
<1>1. rows' \in [1..Len(rows) -> Rows]
  BY RowTypes DEF InPlace
<1>2. rows' \in Seq(Rows)
  BY <1>1, RowTypes, SeqDef
<1>3. AdTypeOK'
  BY <1>2 DEF AdIInv, AdTypeOK, Rows
<1>4. OneRowEach' /\ SentIsStored'
  BY DEF AdIInv, OneRowEach, SentIsStored, InPlace
<1> QED  BY <1>3, <1>4 DEF AdIInv

\* The row of a version, when there is one.
LEMMA StoredRow ==
  ASSUME AdIInv, NEW i \in DOMAIN rows
  PROVE  Listed(rows[i].v) /\ Stored(rows[i].v) = rows[i]
<1>1. RowOf(rows[i].v) = {i}
  BY DEF AdIInv, OneRowEach, RowOf
<1> QED  BY <1>1 DEF Listed, Stored

\* A listed version has a row.
LEMMA ListedRow ==
  ASSUME AdIInv, NEW v, Listed(v)
  PROVE  \E i \in DOMAIN rows : rows[i].v = v /\ Stored(v) = rows[i]
BY StoredRow DEF Listed, RowOf

\* The store starts empty.
LEMMA AdInitKeeps == AdapterAssumption /\ AdInit => AdIInv
<1> SUFFICES ASSUME AdapterAssumption, AdInit PROVE AdIInv  OBVIOUS
<1>1. rows \in Seq(Rows) /\ DOMAIN rows = {}
  BY DEF AdInit
<1> QED  BY <1>1 DEF AdapterAssumption, AdInit, AdIInv, AdTypeOK, OneRowEach, SentIsStored, Rows

\* server.ts:1937-2018
LEMMA PublishAdapterKeeps ==
  ASSUME AdIInv, NEW c \in Publishable, PublishAdapter(c)
  PROVE  AdIInv'
<1> DEFINE n == [v |-> c.v, digest |-> c.digest, min |-> c.min, host |-> c.host,
                 status |-> "active", intact |-> TRUE]
<1>1. c.v \in AdapterVersions /\ c.digest \in Contents /\ c.min \in ManagerVersions /\ c.host \in Hosts
  BY DEF Publishable, Candidates
<1>2. n \in Rows
  BY <1>1 DEF Rows
<1>3. rows \in Seq(Rows) /\ rows' = Append(rows, n) /\ UNCHANGED <<packages, device, access, served, adevents>>
  BY DEF AdIInv, AdTypeOK, Rows, PublishAdapter
<1>4. \A i \in DOMAIN rows : rows[i].v # n.v
  BY DEF PublishAdapter, Listed, RowOf
<1> HIDE DEF n
<1>5. /\ rows' \in Seq(Rows) /\ DOMAIN rows' = 1..(Len(rows) + 1) /\ DOMAIN rows = 1..Len(rows) /\ Len(rows) \in Nat
      /\ \A i \in DOMAIN rows : rows'[i] = rows[i]
      /\ rows'[Len(rows) + 1] = n
  BY <1>2, <1>3
<1>6. OneRowEach'
  BY <1>4, <1>5 DEF AdIInv, OneRowEach
<1>7. SentIsStored'
  BY <1>3, <1>5 DEF AdIInv, SentIsStored
<1>8. AdTypeOK'
  BY <1>3, <1>5 DEF AdIInv, AdTypeOK, Rows
<1> QED  BY <1>6, <1>7, <1>8 DEF AdIInv

\* server.ts:2019-2043: a revoked row keeps its version and content.
LEMMA RevokeKeeps ==
  ASSUME AdIInv, NEW v \in AdapterVersions, RevokeAdapter(v)
  PROVE  AdIInv'
<1>1. \A i \in DOMAIN rows : [rows[i] EXCEPT !.status = "revoked"] \in Rows
  BY RowTypes DEF Rows
<1>2. InPlace(rows') /\ rows' = [i \in DOMAIN rows |-> rows'[i]]
  BY <1>1, RowTypes DEF RevokeAdapter, InPlace, Rows
<1> QED  BY <1>2, InPlaceKeeps DEF RevokeAdapter, AdIInv, AdTypeOK

\* A row that no longer matches its manifest keeps its version and content.
LEMMA DamageKeeps ==
  ASSUME AdapterAssumption, AdIInv, NEW v \in AdapterVersions, Damage(v)
  PROVE  AdIInv'
<1>1. \A i \in DOMAIN rows : [rows[i] EXCEPT !.intact = FALSE] \in Rows
  BY RowTypes DEF Rows
<1>2. InPlace(rows') /\ rows' = [i \in DOMAIN rows |-> rows'[i]]
  BY <1>1, RowTypes DEF Damage, InPlace, Rows
<1>3. adevents' \in 0..AdEvents
  BY DEF Damage, AdIInv, AdTypeOK, AdapterAssumption
<1> QED  BY <1>2, <1>3, InPlaceKeeps DEF Damage

\* The newest row of a catalogue is one of its rows.
LEMMA NewestIsOne ==
  ASSUME AdIInv, NEW C \in SUBSET DOMAIN rows, C # {}
  PROVE  \E i \in C : Newest(C) = rows[i]
<1>1. C \in SUBSET Nat /\ IsFiniteSet(C)
  <2>1. IsFiniteSet(1..Len(rows))  BY RowTypes, FS_Interval
  <2> QED  BY <2>1, RowTypes, FS_Subset
<1>2. \E i \in C : \A j \in C : j <= i
  BY <1>1, SetMax
<1> QED  BY <1>2 DEF Newest

\* What a download sends is a row of the catalogue.
LEMMA DownloadIsListed ==
  ASSUME AdIInv, NEW v, NEW h, Download(v, h).ok
  PROVE  \E i \in Catalogue(h) : Download(v, h).v = rows[i].v
<1>1. CASE v = NoVersion
  <2>1. Catalogue(h) # {} /\ Download(v, h) = Sent(Newest(Catalogue(h)).v)
    BY <1>1 DEF Download, Refused
  <2>2. Catalogue(h) \in SUBSET DOMAIN rows
    BY DEF Catalogue
  <2> QED  BY <2>1, <2>2, NewestIsOne DEF Sent
<1>2. CASE v # NoVersion
  <2>1. /\ Listed(v) /\ Download(v, h) = Sent(Stored(v).v)
        /\ Stored(v).status # "revoked" /\ Compatible(Stored(v), h)
    BY <1>2 DEF Download, Refused
  <2>2. PICK i \in DOMAIN rows : rows[i].v = v /\ Stored(v) = rows[i]
    BY <2>1, ListedRow
  <2>3. i \in Catalogue(h)
    BY <2>1, <2>2, RowTypes DEF Catalogue, Rows
  <2> QED  BY <2>1, <2>2, <2>3 DEF Sent
<1> QED  BY <1>1, <1>2

\* server.ts adapterDownloadBody: what is sent is the content of a stored row.
LEMMA ServeKeeps ==
  ASSUME AdIInv, NEW v, NEW h, Serve(v, h)
  PROVE  AdIInv'
<1>1. PICK i \in DOMAIN rows : Download(v, h).v = rows[i].v
  BY DownloadIsListed DEF Serve, Catalogue
<1>2. served' = served \cup {<<rows[i].v, rows[i].digest>>} /\ UNCHANGED <<rows, packages, device, access, adevents>>
  BY <1>1, StoredRow DEF Serve
<1>3. rows[i].v \in AdapterVersions /\ rows[i].digest \in Contents
  BY RowTypes DEF Rows
<1> QED  BY <1>2, <1>3 DEF AdIInv, AdTypeOK, OneRowEach, SentIsStored

\* A SkillPackage changes no adapter.
LEMMA PackagesKeep ==
  ASSUME AdIInv, NEW v \in AdapterVersions,
         RevokePackage(v) \/ \E m \in ManagerVersions, h \in Hosts : PublishPackage(v, m, h)
  PROVE  AdIInv'
<1> DEFINE P == [v : AdapterVersions, status : {"active", "revoked"}, min : ManagerVersions, host : Hosts]
<1>1. packages \in SUBSET P
  BY DEF AdIInv, AdTypeOK
<1>2. \A m \in ManagerVersions, h \in Hosts : [v |-> v, status |-> "active", min |-> m, host |-> h] \in P
  OBVIOUS
<1>3. \A p \in P : [p EXCEPT !.status = "revoked"] \in P
  OBVIOUS
<1> HIDE DEF P
<1>4. packages' \in SUBSET P /\ UNCHANGED <<rows, device, access, served, adevents>>
  BY <1>1, <1>2, <1>3 DEF PublishPackage, RevokePackage, PackageOf
<1> QED  BY <1>4 DEF AdIInv, AdTypeOK, OneRowEach, SentIsStored, P

\* Every step of the adapter routes keeps the invariant.
LEMMA AdStep == AdapterAssumption /\ AdIInv /\ [AdNext]_adapterVars => AdIInv'
<1> SUFFICES ASSUME AdapterAssumption, AdIInv, [AdNext]_adapterVars PROVE AdIInv'
  OBVIOUS
<1>1. CASE UNCHANGED adapterVars
  BY <1>1 DEF adapterVars, AdIInv, AdTypeOK, OneRowEach, SentIsStored
<1>2. ASSUME NEW v \in AdapterVersions,
             RevokePackage(v) \/ \E m \in ManagerVersions, h \in Hosts : PublishPackage(v, m, h)
      PROVE  AdIInv'
  BY <1>2, PackagesKeep
<1>3. CASE Upgrade \/ Subscribe
  BY <1>3 DEF Upgrade, Subscribe, AdIInv, AdTypeOK, OneRowEach, SentIsStored
<1> QED
  BY <1>1, <1>2, <1>3, PublishAdapterKeeps, RevokeKeeps, DamageKeeps, ServeKeeps DEF AdNext

\* What the three readers answer for a version, from the row they read.
LEMMA ReadersAgree ==
  ASSUME AdapterAssumption, AdIInv, NEW h \in Hosts, NEW v \in AdapterVersions
  PROVE  LET listed == \E i \in Catalogue(h) : rows[i].v = v
             load   == Download(v, h)
             exec   == Execution(v, h)
         IN  /\ load.ok => listed /\ exec.ok
             /\ listed => exec.ok \/ exec.code = 503
             /\ Listed(v) /\ access = "subscribed" /\ exec.ok => load.ok
             /\ Listed(v) /\ Stored(v).status = "revoked" => ~exec.ok
<1>0. v # NoVersion
  BY DEF AdapterAssumption, NoVersion
<1>1. CASE ~Listed(v)
  <2>1. ~Download(v, h).ok
    BY <1>0, <1>1 DEF Download, Refused
  <2>2. ~ \E i \in Catalogue(h) : rows[i].v = v
    BY <1>1 DEF Catalogue, Listed, RowOf
  <2> QED  BY <1>1, <2>1, <2>2
<1>2. CASE Listed(v)
  <2>1. PICK k \in DOMAIN rows : rows[k].v = v /\ Stored(v) = rows[k]
    BY <1>2, ListedRow
  <2>2. \A i \in Catalogue(h) : rows[i].v = v => i = k
    BY <2>1 DEF Catalogue, AdIInv, OneRowEach
  <2>3. rows[k].status = "active" \/ rows[k].status = "revoked"
    BY RowTypes DEF Rows
  <2>4. (\E i \in Catalogue(h) : rows[i].v = v) <=> rows[k].status = "active" /\ Compatible(rows[k], h)
    BY <2>1, <2>2 DEF Catalogue
  <2>5. Download(v, h).ok <=> access = "subscribed" /\ rows[k].status # "revoked" /\ Intact(rows[k]) /\ Compatible(rows[k], h)
    BY <1>0, <1>2, <2>1 DEF Download, Refused, Sent
  <2>6. /\ Execution(v, h).ok <=> rows[k].status # "revoked" /\ Intact(rows[k]) /\ Compatible(rows[k], h)
        /\ rows[k].status # "revoked" /\ ~Intact(rows[k]) => Execution(v, h).code = 503
    BY <1>2, <2>1 DEF Execution, Refused, Sent
  <2> QED  BY <1>2, <2>1, <2>3, <2>4, <2>5, <2>6
<1> QED  BY <1>1, <1>2

\* What the run checks follows.
LEMMA AdapterIsSafe == AdapterAssumption /\ AdIInv => AdapterInv
<1> SUFFICES ASSUME AdapterAssumption, AdIInv PROVE AdapterInv
  OBVIOUS
<1>1. AdTypeOK
  BY DEF AdIInv
<1>2. ASSUME NEW h \in Hosts PROVE Download(NoVersion, h).code # 410
  <2>1. Catalogue(h) # {} => Newest(Catalogue(h)).status = "active"
    BY NewestIsOne DEF Catalogue
  <2> QED  BY <2>1 DEF Download, Refused, Sent
<1>3. \A a, b \in served : a[1] = b[1] => a[2] = b[2]
  BY DEF AdIInv, SentIsStored, OneRowEach
<1> QED
  BY <1>1, <1>2, <1>3, ReadersAgree DEF AdapterInv

-----------------------------------------------------------------------------
\* client-release-routes.ts, cloud-artifact-release-routes.ts, server.ts: for any versions,
\* channels, uploads, hosts and failures, no answered release is lost, no sequence number is
\* used twice, and catalogue, download and execution gate agree on adapters.
THEOREM PublishingIsSafe == RelSpec /\ AdSpec => []PublishingInv
<1>1. AdSpec => []AdapterInv
  BY AdInitKeeps, AdStep, AdapterIsSafe, AdapterAssumption, PTL DEF AdSpec
<1>2. ReleasesInv /\ AdapterInv => PublishingInv
  BY DEF PublishingInv
<1> QED
  BY <1>1, <1>2, NoReleaseIsLost, PTL
=============================================================================
