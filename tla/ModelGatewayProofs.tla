-------------------------- MODULE ModelGatewayProofs --------------------------
(***************************************************************************)
(* The model proxy of a device for any number of requests and any limits.  *)
(* The invariant has four parts.  The chain of promises is one line: each  *)
(* open promise but the oldest waits for an open one of a lower rank and   *)
(* an earlier time.  The slots are counted by the requests that have one.  *)
(* An admission that minuteRequests has forgotten is too old for everybody *)
(* who still waits.  And booked calls and calls that may yet be booked are *)
(* together within the quota's overshoot.                                  *)
(***************************************************************************)
EXTENDS ModelGateway, FiniteSetTheorems, SequenceTheorems, WellFoundedInduction, TLAPS

Links == [prev : Calls \cup {Nil}, open : BOOLEAN]

RequestStates == [pc : {"idle", "body", "wait", "list", "check", "register", "call", "stream", "drain",
                        "book", "done"},
                  todo : Seq(Candidates), n : 0..2, at : Nat, seen : Nat, k : Nat, tried : BOOLEAN,
                  lease : {"none", "held", "released"}, abort : BOOLEAN]

\* What one request looks like.
Waits(q) == q.pc \in {"wait", "list", "check"}
HasSlot(q) == q.pc = "register" \/ q.lease = "held"
MayBook(q) == q.pc \in {"register", "call", "stream", "drain", "book"}

Shape(q) ==
  /\ q.pc \in {"idle", "body"} => q.n = 0
  /\ q.pc \notin {"idle", "body", "done"} => q.n >= 1 /\ Len(q.todo) >= 1 /\ q.n + Len(q.todo) <= 3
  /\ q.pc \in {"call", "stream", "drain", "book"} <=> q.lease # "none"
  /\ q.lease = "released" => q.abort

Requests == rq \in [Reqs -> RequestStates] /\ \A r \in Reqs : Shape(rq[r])

-----------------------------------------------------------------------------
(* The chain                                                                *)

\* Links l and a last promise t alone: the last promise is open and nobody waits
\* for it, no two wait for one, and only one waits for nobody.
Free(l, p) == p = Nil \/ ~l[p].open

LineOf(l, t) ==
  /\ l \in [Calls -> Links] /\ t \in Calls \cup {Nil}
  /\ t = Nil => \A c \in Calls : ~l[c].open
  /\ t # Nil => l[t].open
  /\ \A c \in Calls : l[c].open => l[c].prev # t
  /\ \A c, d \in Calls : l[c].open /\ l[d].open /\ l[c].prev = l[d].prev /\ ~Free(l, l[c].prev) => c = d
  /\ \A c, d \in Calls : l[c].open /\ l[d].open /\ Free(l, l[c].prev) /\ Free(l, l[d].prev) => c = d

Without(l, c) == [l EXCEPT ![c] = [prev |-> Nil, open |-> FALSE]]
With(l, t, c) == [l EXCEPT ![c] = [prev |-> t, open |-> TRUE]]

\* Ranks f and times g grow along the chain, up to now.
Ordered(l, now, f, g) ==
  \A c \in Calls : l[c].open =>
    /\ g[c] <= now
    /\ ~Free(l, l[c].prev) => f[l[c].prev] < f[c] /\ g[l[c].prev] <= g[c]

At(g, c, now) == [g EXCEPT ![c] = now]

\* What a new promise c leaves as it was.
Grown(l, t, now, c, g, m) ==
  /\ LineOf(m, c) /\ m[c].open /\ m[c].prev = t /\ \A d \in Calls \ {c} : m[d] = l[d]
  /\ \A d \in Calls \ {c} : l[d].open => (Free(m, m[d].prev) <=> Free(l, l[d].prev))
  /\ \E h \in [Calls -> Nat] : Ordered(m, now, h, At(g, c, now))

InLine(q, g) == \A r \in Reqs : Waits(q[r]) => g[<<r, q[r].n>>] = q[r].at

\* A promise was made by its request before.
Used(q, c) == q[c[1]].pc = "done" \/ c[2] <= q[c[1]].n

ChainOf(l, t, now, q) ==
  /\ LineOf(l, t)
  /\ \E f, g \in [Calls -> Nat] : Ordered(l, now, f, g) /\ InLine(q, g)
  /\ \A c \in Calls : l[c].open => Used(q, c) /\ (l[c].prev # Nil => Used(q, l[c].prev))
  /\ \A r \in Reqs : /\ Waits(q[r]) => l[<<r, q[r].n>>].open
                     /\ q[r].pc \in {"list", "check"} => Free(l, l[<<r, q[r].n>>].prev)

Chain == ChainOf(link, tail, clock, rq)

-----------------------------------------------------------------------------
(* Slots, rate and quota                                                    *)

Slotted == {r \in Reqs : HasSlot(rq[r])}
Bookers == {r \in Reqs : MayBook(rq[r])}
Leavers == {r \in Reqs : Aborted(r)}

SlotsCounted == active = Cardinality(Slotted) /\ active <= Slots

Entries == [call : Calls, at : Nat]
Minute(t) == {a \in admitted : t - Window < a.at /\ a.at <= t}

RateKept ==
  /\ recent \subseteq admitted /\ admitted \subseteq Entries /\ IsFiniteSet(admitted)
  /\ \A a \in admitted : a.at <= clock
  /\ \A a \in admitted \ recent : /\ a.at <= clock - Window
                                  /\ \A r \in Reqs : Waits(rq[r]) => a.at <= rq[r].at - Window
  /\ \A t \in Nat : Cardinality(Minute(t)) <= Rate

QuotaKept ==
  /\ used \in Nat
  /\ used + Cardinality(Bookers) <= Tokens + Slots + Cardinality(Leavers)
  /\ \A r \in Reqs : rq[r].pc = "check" =>
       used + Cardinality(Bookers) <= rq[r].seen + Slots + Cardinality(Leavers)

\* The inductive invariant: the requests, the chain, the slots, the rate and the quota.
GatewayIInv ==
  /\ clock \in 0..MaxClock
  /\ Requests /\ Chain /\ SlotsCounted /\ RateKept /\ QuotaKept

-----------------------------------------------------------------------------
(* Lemmas about the chain                                                   *)

\* Some member of a set of promises has the lowest rank.
LEMMA LowestRank ==
  ASSUME NEW f \in [Calls -> Nat], NEW S \in SUBSET Calls, S # {}
  PROVE  \E d \in S : \A e \in S : ~(f[e] < f[d])
<1> DEFINE T == {f[d] : d \in S}
<1>1. T \subseteq Nat /\ T # {}
  OBVIOUS
<1>2. \E x \in T : \A y \in T : ~(<<y, x>> \in OpToRel(<, Nat))
  <2> HIDE DEF T
  <2> QED
    BY <1>1, NatLessThanWellFounded, WFMin
<1>3. PICK x \in T : \A y \in T : ~(<<y, x>> \in OpToRel(<, Nat))
  BY <1>2
<1>4. \A y \in T : ~(y < x)
  BY <1>1, <1>3 DEF OpToRel
<1>5. PICK d \in S : x = f[d]
  OBVIOUS
<1> QED
  BY <1>4, <1>5

\* The promise that waits for nobody is the earliest of all.
LEMMA OldestFirst ==
  ASSUME NEW l, NEW t, LineOf(l, t), NEW now, NEW f \in [Calls -> Nat], NEW g \in [Calls -> Nat],
         Ordered(l, now, f, g), NEW c \in Calls, l[c].open, Free(l, l[c].prev), NEW d \in Calls, l[d].open
  PROVE  g[c] <= g[d]
<1> DEFINE S == {e \in Calls : l[e].open /\ g[e] < g[c]}
<1> SUFFICES ASSUME S # {} PROVE FALSE
  <2>1. g[c] \in Nat /\ g[d] \in Nat
    OBVIOUS
  <2> QED
    BY <2>1
<1>1. PICK e \in S : \A x \in S : ~(f[x] < f[e])
  BY LowestRank
<1>2. e # c /\ e \in Calls /\ l[e].open /\ g[e] < g[c]
  OBVIOUS
<1>3. ~Free(l, l[e].prev)
  BY <1>2 DEF LineOf
<1>4. l[e].prev \in Calls /\ l[l[e].prev].open
  BY <1>2, <1>3 DEF LineOf, Free, Links
<1>5. f[l[e].prev] < f[e] /\ g[l[e].prev] <= g[e]
  BY <1>2, <1>3 DEF Ordered
<1>6. l[e].prev \in S
  BY <1>2, <1>4, <1>5
<1> QED
  BY <1>1, <1>5, <1>6

\* The last promise, once it waits for nobody, is the only one.
LEMMA TailAlone ==
  ASSUME NEW l, NEW t, LineOf(l, t), NEW now, NEW f \in [Calls -> Nat], NEW g \in [Calls -> Nat],
         Ordered(l, now, f, g), t \in Calls, l[t].open, Free(l, l[t].prev), NEW d \in Calls, l[d].open
  PROVE  d = t
<1> DEFINE S == {e \in Calls : l[e].open /\ e # t}
<1> SUFFICES ASSUME S # {} PROVE FALSE
  OBVIOUS
<1>1. PICK e \in S : \A x \in S : ~(f[x] < f[e])
  BY LowestRank
<1>2. e # t /\ e \in Calls /\ l[e].open
  OBVIOUS
<1>3. ~Free(l, l[e].prev)
  BY <1>2 DEF LineOf
<1>4. l[e].prev \in Calls /\ l[l[e].prev].open /\ l[e].prev # t
  BY <1>2, <1>3 DEF LineOf, Free, Links
<1>5. f[l[e].prev] < f[e]
  BY <1>2, <1>3 DEF Ordered
<1> QED
  BY <1>1, <1>4, <1>5

\* The oldest promise resolves: the line is one shorter.
LEMMA FinishKeepsLine ==
  ASSUME Nil \notin Calls, NEW l, NEW t, LineOf(l, t), NEW now,
         NEW f \in [Calls -> Nat], NEW g \in [Calls -> Nat], Ordered(l, now, f, g),
         NEW c \in Calls, l[c].open, Free(l, l[c].prev),
         NEW m, m = Without(l, c), NEW u, t = c => u = Nil, t # c => u = t
  PROVE  LineOf(m, u) /\ Ordered(m, now, f, g)
<1> DEFINE x == [prev |-> Nil, open |-> FALSE]
<1>1. x \in Links /\ ~x.open
  BY DEF Links
<1>2. m = [l EXCEPT ![c] = x]
  BY DEF Without
<1> HIDE DEF x
<1>3. m \in [Calls -> Links] /\ m[c] = x /\ \A d \in Calls \ {c} : m[d] = l[d]
  BY <1>1, <1>2 DEF LineOf
<1>4. \A d \in Calls : l[d].prev \in Calls \cup {Nil}
  BY DEF LineOf, Links
<1>5. \A d \in Calls : m[d].open => d # c /\ l[d].open /\ m[d].prev = l[d].prev
  BY <1>1, <1>3
<1>6. \A d \in Calls : l[d].open /\ d # c => l[d].prev \in Calls /\ l[l[d].prev].open
  BY <1>4 DEF LineOf, Free
<1>7. \A d \in Calls : m[d].open => (Free(m, m[d].prev) <=> l[d].prev = c)
  BY <1>1, <1>3, <1>5, <1>6 DEF Free
<1>8. u \in Calls \cup {Nil} /\ (u = Nil => \A d \in Calls : ~m[d].open) /\ (u # Nil => m[u].open)
  <2>1. CASE t = c
    BY <1>5, <2>1, TailAlone
  <2>2. CASE t # c
    BY <1>3, <1>5, <2>2 DEF LineOf
  <2> QED
    BY <2>1, <2>2
<1>9. \A d \in Calls : m[d].open => m[d].prev # u
  BY <1>5, <1>6 DEF LineOf
<1>10. \A d, e \in Calls : m[d].open /\ m[e].open /\ m[d].prev = m[e].prev => d = e
  BY <1>5, <1>6 DEF LineOf, Free
<1>11. LineOf(m, u)
  <2>1. \A d, e \in Calls : m[d].open /\ m[e].open /\ Free(m, m[d].prev) /\ Free(m, m[e].prev) => d = e
    BY <1>5, <1>7, <1>10
  <2> QED
    BY <1>3, <1>8, <1>9, <1>10, <2>1 DEF LineOf
<1>12. Ordered(m, now, f, g)
  BY <1>5, <1>6 DEF Ordered, Free
<1> QED
  BY <1>11, <1>12

\* A new promise goes to the end of the line, with a new rank and the time.
LEMMA QueueKeepsLine ==
  ASSUME Nil \notin Calls, NEW l, NEW t, LineOf(l, t), NEW now \in Nat,
         NEW f \in [Calls -> Nat], NEW g \in [Calls -> Nat], Ordered(l, now, f, g),
         NEW c \in Calls, ~l[c].open, \A d \in Calls : l[d].open => l[d].prev # c,
         NEW m, m = With(l, t, c)
  PROVE  Grown(l, t, now, c, g, m)
<1> DEFINE x == [prev |-> t, open |-> TRUE]
           n == IF t = Nil THEN 0 ELSE f[t] + 1
           h == [f EXCEPT ![c] = n]
           s == At(g, c, now)
<1>1. x \in Links /\ x.open /\ x.prev = t
  BY DEF Links, LineOf
<1>2. m = [l EXCEPT ![c] = x]
  BY DEF With
<1> HIDE DEF x
<1>3. m \in [Calls -> Links] /\ m[c] = x /\ \A d \in Calls \ {c} : m[d] = l[d]
  <2>1. l \in [Calls -> Links]
    BY DEF LineOf
  <2> QED
    BY <1>1, <1>2, <2>1
<1>4. c # Nil /\ t # c /\ t \in Calls \cup {Nil}
  BY DEF LineOf
<1>5. \A d \in Calls : l[d].prev \in Calls \cup {Nil}
  BY DEF LineOf, Links
<1>6. \A d \in Calls \ {c} : l[d].open => m[d].prev # c /\ m[d].prev # t /\ (Free(m, m[d].prev) <=> Free(l, l[d].prev))
  BY <1>3, <1>5 DEF LineOf, Free
<1>7. Free(m, t) <=> t = Nil
  BY <1>3, <1>4 DEF Free, LineOf
<1>8. \A d, e \in Calls : m[d].open /\ m[e].open /\ Free(m, m[d].prev) /\ Free(m, m[e].prev) => d = e
  BY <1>1, <1>3, <1>6, <1>7 DEF LineOf
<1>9. \A d, e \in Calls : m[d].open /\ m[e].open /\ m[d].prev = m[e].prev /\ ~Free(m, m[d].prev) => d = e
  BY <1>1, <1>3, <1>6 DEF LineOf
<1>10. \A d \in Calls : m[d].open => m[d].prev # c
  BY <1>1, <1>3, <1>4, <1>6
<1>11. LineOf(m, c)
  BY <1>1, <1>3, <1>4, <1>8, <1>9, <1>10 DEF LineOf
<1>12. n \in Nat /\ (t # Nil => n = f[t] + 1 /\ f[t] \in Nat)
  BY <1>4
<1> HIDE DEF n
<1>13. /\ h \in [Calls -> Nat] /\ s \in [Calls -> Nat]
       /\ h[c] = n /\ s[c] = now
       /\ \A d \in Calls \ {c} : h[d] = f[d] /\ s[d] = g[d]
  BY <1>12 DEF At
<1> HIDE DEF h, s
<1>14. Ordered(m, now, h, s)
  <2> SUFFICES ASSUME NEW d \in Calls, m[d].open
               PROVE  /\ s[d] <= now
                      /\ ~Free(m, m[d].prev) => h[m[d].prev] < h[d] /\ s[m[d].prev] <= s[d]
    BY DEF Ordered
  <2>1. CASE d = c
    <3>1. t # Nil => g[t] <= now /\ t \in Calls
      BY <1>4 DEF Ordered, LineOf
    <3>2. t # Nil => h[t] < h[c] /\ s[t] <= s[c]
      BY <1>4, <1>12, <1>13, <3>1
    <3> QED
      BY <1>1, <1>3, <1>7, <1>13, <2>1, <3>2
  <2>2. CASE d # c
    <3>1. m[d].prev = l[d].prev /\ l[d].open /\ l[d].prev # c
      BY <1>3, <1>6, <2>2
    <3>2. ~Free(l, l[d].prev) => l[d].prev \in Calls
      BY <1>5 DEF Free
    <3>3. g[d] <= now /\ (~Free(l, l[d].prev) => f[l[d].prev] < f[d] /\ g[l[d].prev] <= g[d])
      BY <3>1 DEF Ordered
    <3> QED
      BY <1>6, <1>13, <2>2, <3>1, <3>2, <3>3
  <2> QED
    BY <2>1, <2>2
<1> QED
  BY <1>1, <1>3, <1>6, <1>11, <1>13, <1>14 DEF s, Grown

-----------------------------------------------------------------------------
(* A request moves: what it does to the chain                               *)

\* A request of the model changes and the others do not.
LEMMA Moved ==
  ASSUME rq \in [Reqs -> RequestStates], NEW r \in Reqs, NEW x \in RequestStates, rq' = [rq EXCEPT ![r] = x]
  PROVE  rq' \in [Reqs -> RequestStates] /\ rq'[r] = x /\ \A s \in Reqs \ {r} : rq'[s] = rq[s]
  OBVIOUS

\* What has been used stays used.
LEMMA UsedStays ==
  ASSUME rq \in [Reqs -> RequestStates], NEW r \in Reqs, NEW x \in RequestStates, rq' = [rq EXCEPT ![r] = x],
         x.pc = "done" \/ (rq[r].pc # "done" /\ rq[r].n <= x.n),
         NEW c \in Calls, Used(rq, c)
  PROVE  Used(rq', c)
<1>1. c[1] \in Reqs /\ c[2] \in 1..2
  BY DEF Calls
<1>2. rq'[r] = x /\ \A s \in Reqs \ {r} : rq'[s] = rq[s]
  BY Moved
<1>3. rq[r].n \in 0..2 /\ x.n \in 0..2
  BY DEF RequestStates
<1> QED
  BY <1>1, <1>2, <1>3 DEF Used

\* A request that does not touch the chain.
LEMMA ChainStays ==
  ASSUME Requests, Chain, NEW r \in Reqs, NEW x \in RequestStates, rq' = [rq EXCEPT ![r] = x],
         UNCHANGED <<link, tail, clock>>,
         Waits(x) => Waits(rq[r]) /\ x.n = rq[r].n /\ x.at = rq[r].at,
         x.pc \in {"list", "check"} => Free(link, link[Call(r)].prev),
         x.pc = "done" \/ (rq[r].pc # "done" /\ rq[r].n <= x.n)
  PROVE  Chain'
<1>1. rq' \in [Reqs -> RequestStates] /\ rq'[r] = x /\ \A s \in Reqs \ {r} : rq'[s] = rq[s]
  BY Moved DEF Requests
<1>2. LineOf(link', tail') /\ \A c \in Calls : link[c].prev # Nil => link[c].prev \in Calls
  BY DEF Chain, ChainOf, LineOf, Links
<1>3. PICK f \in [Calls -> Nat], g \in [Calls -> Nat] : Ordered(link, clock, f, g) /\ InLine(rq, g)
  BY DEF Chain, ChainOf
<1>4. InLine(rq', g)
  BY <1>1, <1>3 DEF InLine
<1>5. \A c \in Calls : link[c].open => Used(rq', c) /\ (link[c].prev # Nil => Used(rq', link[c].prev))
  BY <1>2, UsedStays DEF Chain, ChainOf, Requests
<1>6. \A s \in Reqs : /\ Waits(rq'[s]) => link[<<s, rq'[s].n>>].open
                      /\ rq'[s].pc \in {"list", "check"} => Free(link, link[<<s, rq'[s].n>>].prev)
  <2>1. ASSUME NEW s \in Reqs, s # r
        PROVE  /\ Waits(rq'[s]) => link[<<s, rq'[s].n>>].open
               /\ rq'[s].pc \in {"list", "check"} => Free(link, link[<<s, rq'[s].n>>].prev)
    BY <1>1, <2>1 DEF Chain, ChainOf
  <2>2. /\ Waits(x) => link[<<r, x.n>>].open
        /\ x.pc \in {"list", "check"} => Free(link, link[<<r, x.n>>].prev)
    BY DEF Chain, ChainOf, Call, Waits
  <2> QED
    BY <1>1, <2>1, <2>2
<1> HIDE DEF Chain
<1>7. ChainOf(link', tail', clock', rq')
  BY <1>2, <1>3, <1>4, <1>5, <1>6 DEF ChainOf
<1> QED
  BY <1>7 DEF Chain

\* The call of a waiting request is a place in the chain, and its own.
LEMMA CallPlaces ==
  ASSUME Requests, NEW r \in Reqs, Waits(rq[r])
  PROVE  Call(r) \in Calls /\ \A s \in Reqs, n \in 0..2 : s # r => <<s, n>> # Call(r)
<1>1. rq[r].n \in 0..2 /\ rq[r].n >= 1
  BY DEF Requests, RequestStates, Shape, Waits
<1> QED
  BY <1>1 DEF Calls, Call

\* Whoever is at the front resolves its promise: nobody else was at the front.
LEMMA FinishKeepsChain ==
  ASSUME GatewayAssumption, Requests, Chain, NEW c \in Calls, link[c].open, Free(link, link[c].prev),
         Finish(c), clock' = clock,
         NEW q, q \in [Reqs -> RequestStates], \A s \in Reqs : Waits(q[s]) => q[s] = rq[s] /\ <<s, q[s].n>> # c,
         \A d \in Calls : Used(rq, d) => Used(q, d)
  PROVE  ChainOf(link', tail', clock', q)
<1>1. PICK f \in [Calls -> Nat], g \in [Calls -> Nat] : Ordered(link, clock, f, g) /\ InLine(rq, g)
  BY DEF Chain, ChainOf
<1>2. LineOf(link, tail) /\ Nil \notin Calls
  BY DEF Chain, ChainOf, GatewayAssumption
<1>3. LineOf(link', tail') /\ Ordered(link', clock', f, g)
  <2>1. link' = Without(link, c) /\ (tail = c => tail' = Nil) /\ (tail # c => tail' = tail)
    BY DEF Finish, Without
  <2>2. LineOf(link', tail') /\ Ordered(link', clock, f, g)
    BY <1>1, <1>2, <2>1, FinishKeepsLine, ZenonT(60)
  <2> QED
    BY <2>2
<1>4. InLine(q, g)
  BY <1>1 DEF InLine
<1>5. \A d \in Calls : link'[d].open => d # c /\ link'[d] = link[d] /\ link[d].open
  BY <1>2 DEF Finish, LineOf
<1>6. \A d \in Calls : link'[d].open => Used(q, d) /\ (link'[d].prev # Nil => Used(q, link'[d].prev))
  BY <1>2, <1>5 DEF Chain, ChainOf, LineOf, Links
<1>7. ASSUME NEW s \in Reqs, Waits(q[s])
      PROVE  link'[<<s, q[s].n>>].open /\ (q[s].pc \in {"list", "check"} => Free(link', link'[<<s, q[s].n>>].prev))
  <2>1. <<s, q[s].n>> = Call(s) /\ Call(s) \in Calls /\ Call(s) # c /\ link[Call(s)].open
    BY <1>7, CallPlaces DEF Call, Chain, ChainOf
  <2>2. link'[Call(s)] = link[Call(s)]
    BY <1>2, <2>1 DEF Finish, LineOf
  <2>3. q[s].pc \in {"list", "check"} => FALSE
    BY <1>2, <1>7, <2>1 DEF Chain, ChainOf, LineOf, Call
  <2> QED
    BY <2>1, <2>2, <2>3
<1>8. \A s \in Reqs : q[s].pc \in {"list", "check"} => Waits(q[s])
  BY DEF Waits
<1> QED
  BY <1>1, <1>3, <1>4, <1>6, <1>7, <1>8 DEF ChainOf

\* The request at the front leaves.
LEMMA ChainLeft ==
  ASSUME GatewayAssumption, Requests, Chain, NEW r \in Reqs, Holds(r), NEW x \in RequestStates,
         rq' = [rq EXCEPT ![r] = x], Finish(Call(r)), clock' = clock,
         ~Waits(x), x.pc = "done" \/ rq[r].n <= x.n
  PROVE  Chain'
<1>1. rq' \in [Reqs -> RequestStates] /\ rq'[r] = x /\ \A s \in Reqs \ {r} : rq'[s] = rq[s]
  BY Moved DEF Requests
<1>2. Waits(rq[r]) /\ rq[r].pc # "done"
  BY DEF Holds, Waits
<1>3. Call(r) \in Calls /\ link[Call(r)].open /\ Free(link, link[Call(r)].prev)
  BY <1>2, CallPlaces DEF Chain, ChainOf, Call, Holds
<1>4. \A s \in Reqs : Waits(rq'[s]) => rq'[s] = rq[s] /\ <<s, rq'[s].n>> # Call(r)
  BY <1>1, <1>2, CallPlaces, SMTT(60) DEF RequestStates
<1>5. \A d \in Calls : Used(rq, d) => Used(rq', d)
  BY <1>2, UsedStays DEF Requests
<1>6. ChainOf(link', tail', clock', rq')
  BY <1>1, <1>3, <1>4, <1>5, FinishKeepsChain
<1> QED
  BY <1>6 DEF Chain

\* The promise of a request that left resolves.
LEMMA ChainPassed ==
  ASSUME GatewayAssumption, Requests, Chain, NEW c \in Calls, PassOn(c)
  PROVE  Chain'
<1>1. link[c].open /\ Finish(c) /\ UNCHANGED <<clock, rq>>
  BY DEF PassOn, Left
<1>2. Free(link, link[c].prev)
  BY DEF PassOn, Resolved, Free
<1>3. ASSUME NEW s \in Reqs, Waits(rq[s]), <<s, rq[s].n>> = c
      PROVE  FALSE
  <2>1. c[1] = s
    BY <1>3
  <2> QED
    BY <1>3, <2>1 DEF PassOn, Left, Waits, Call
<1>4. ChainOf(link', tail', clock', rq)
  BY <1>1, <1>2, <1>3, FinishKeepsChain DEF Requests
<1> QED
  BY <1>1, <1>4 DEF Chain

\* A request takes a place at the end.
LEMMA ChainJoined ==
  ASSUME GatewayAssumption, clock \in Nat, Requests, Chain, NEW r \in Reqs, ~Waits(rq[r]), rq[r].pc # "done",
         NEW x \in RequestStates, rq' = [rq EXCEPT ![r] = x], clock' = clock,
         x.pc = "wait", x.n = rq[r].n + 1, x.at = clock,
         link' = Queued(<<r, x.n>>), tail' = <<r, x.n>>
  PROVE  Chain'
<1> DEFINE c == <<r, x.n>>
<1>1. rq' \in [Reqs -> RequestStates] /\ rq'[r] = x /\ \A s \in Reqs \ {r} : rq'[s] = rq[s]
  BY Moved DEF Requests
<1>2. rq[r].n \in 0..2 /\ x.n \in 1..2 /\ x.n > rq[r].n
  <2>1. rq[r] \in RequestStates
    BY DEF Requests
  <2>2. rq[r].n \in 0..2 /\ x.n \in 0..2
    BY <2>1 DEF RequestStates
  <2> QED
    BY <2>2
<1>3. c \in Calls /\ c[1] = r /\ c[2] = x.n /\ Nil \notin Calls
  BY <1>2 DEF Calls, GatewayAssumption
<1>4. ~Used(rq, c)
  BY <1>2, <1>3 DEF Used
<1> HIDE DEF c
<1>5. ~link[c].open /\ \A d \in Calls : link[d].open => link[d].prev # c
  BY <1>3, <1>4 DEF Chain, ChainOf
<1>6. PICK f \in [Calls -> Nat], g \in [Calls -> Nat] : Ordered(link, clock, f, g) /\ InLine(rq, g)
  BY DEF Chain, ChainOf
<1>7. link' = With(link, tail, c) /\ tail' = c
  BY DEF Queued, With, c
<1>8. /\ LineOf(link', c) /\ link'[c].open /\ link'[c].prev = tail /\ \A d \in Calls \ {c} : link'[d] = link[d]
      /\ \A d \in Calls \ {c} : link[d].open => (Free(link', link'[d].prev) <=> Free(link, link[d].prev))
      /\ \E h \in [Calls -> Nat] : Ordered(link', clock, h, At(g, c, clock))
  <2>1. LineOf(link, tail)
    BY DEF Chain, ChainOf
  <2>2. Grown(link, tail, clock, c, g, link')
    BY <1>3, <1>5, <1>6, <1>7, <2>1, QueueKeepsLine
  <2> QED
    BY <2>2 DEF Grown
<1>9. PICK h \in [Calls -> Nat] : Ordered(link', clock, h, At(g, c, clock))
  BY <1>8
<1> DEFINE s == At(g, c, clock)
<1>10. s \in [Calls -> Nat] /\ s[c] = clock /\ \A d \in Calls \ {c} : s[d] = g[d]
  BY <1>3 DEF At
<1>11. Ordered(link', clock', h, s)
  BY <1>9
<1> HIDE DEF s
<1>12. ASSUME NEW p \in Reqs \ {r}, Waits(rq'[p])
       PROVE  /\ Waits(rq[p]) /\ rq'[p] = rq[p]
              /\ <<p, rq'[p].n>> = Call(p) /\ Call(p) \in Calls \ {c} /\ link[Call(p)].open
  <2>1. Waits(rq[p]) /\ rq'[p] = rq[p] /\ <<p, rq'[p].n>> = Call(p)
    BY <1>1, <1>12 DEF Call
  <2>2. Call(p) \in Calls /\ link[Call(p)].open
    BY <2>1, CallPlaces DEF Chain, ChainOf, Call
  <2>3. Call(p)[1] = p
    BY DEF Call
  <2> QED
    BY <1>3, <2>1, <2>2, <2>3
<1>13. InLine(rq', s)
  <2>1. s[<<r, rq'[r].n>>] = rq'[r].at
    BY <1>1, <1>10 DEF c
  <2>2. ASSUME NEW p \in Reqs \ {r}, Waits(rq'[p])
        PROVE  s[<<p, rq'[p].n>>] = rq'[p].at
    BY <1>6, <1>10, <1>12, <2>2 DEF InLine, Call
  <2> QED
    BY <2>1, <2>2 DEF InLine
<1>14. \A d \in Calls : Used(rq, d) => Used(rq', d)
  <2>1. rq[r].n <= x.n
    BY <1>2
  <2> QED
    BY <2>1, UsedStays DEF Requests
<1>15. Used(rq', c)
  BY <1>1, <1>2, <1>3 DEF Used
<1>16. tail \in Calls \cup {Nil} /\ (tail # Nil => Used(rq, tail))
  BY DEF Chain, ChainOf, LineOf
<1>17. \A d \in Calls : link[d].open => Used(rq, d) /\ (link[d].prev # Nil => link[d].prev \in Calls /\ Used(rq, link[d].prev))
  BY DEF Chain, ChainOf, LineOf, Links
<1>18. \A d \in Calls : link'[d].open => Used(rq', d) /\ (link'[d].prev # Nil => Used(rq', link'[d].prev))
  <2> SUFFICES ASSUME NEW d \in Calls, link'[d].open
               PROVE  Used(rq', d) /\ (link'[d].prev # Nil => Used(rq', link'[d].prev))
    OBVIOUS
  <2>1. CASE d = c
    BY <1>8, <1>14, <1>15, <1>16, <2>1
  <2>2. CASE d # c
    BY <1>8, <1>14, <1>17, <2>2, ZenonT(60)
  <2> QED
    BY <2>1, <2>2
<1>19. ASSUME NEW p \in Reqs
       PROVE  /\ Waits(rq'[p]) => link'[<<p, rq'[p].n>>].open
              /\ rq'[p].pc \in {"list", "check"} => Free(link', link'[<<p, rq'[p].n>>].prev)
  <2>1. CASE p = r
    BY <1>1, <1>8, <2>1 DEF c
  <2>2. CASE p # r /\ Waits(rq'[p])
    <3>1. rq'[p].pc \in {"list", "check"} => Free(link, link[Call(p)].prev)
      BY <1>12, <2>2 DEF Chain, ChainOf, Call
    <3> QED
      BY <1>8, <1>12, <2>2, <3>1
  <2>3. CASE ~Waits(rq'[p])
    BY <2>3 DEF Waits
  <2> QED
    BY <2>1, <2>2, <2>3
<1>20. ChainOf(link', tail', clock', rq')
  BY <1>7, <1>8, <1>10, <1>11, <1>13, <1>18, <1>19 DEF ChainOf
<1> QED
  BY <1>20 DEF Chain

\* Time passes.
LEMMA ChainTicks ==
  ASSUME Chain, clock \in Nat, clock' = clock + 1, UNCHANGED <<link, tail, rq>>
  PROVE  Chain'
<1>1. PICK f \in [Calls -> Nat], g \in [Calls -> Nat] : Ordered(link, clock, f, g) /\ InLine(rq, g)
  BY DEF Chain, ChainOf
<1>2. Ordered(link, clock + 1, f, g)
  BY <1>1 DEF Ordered
<1>3. ChainOf(link, tail, clock + 1, rq)
  BY <1>1, <1>2 DEF Chain, ChainOf
<1> QED
  BY <1>3 DEF Chain

-----------------------------------------------------------------------------
(* A request moves: slots, rate and quota                                   *)

\* The sets of requests are finite.
LEMMA Finite ==
  ASSUME GatewayAssumption
  PROVE  /\ \A S \in SUBSET Reqs : IsFiniteSet(S) /\ Cardinality(S) \in Nat
         /\ Rate \in Nat /\ Slots \in Nat /\ Tokens \in Nat /\ Window \in Nat
  BY FS_Subset, FS_CardinalityType DEF GatewayAssumption

\* A move neither takes nor gives back a slot.
LEMMA SlotsSame ==
  ASSUME Requests, SlotsCounted, NEW r \in Reqs, NEW x \in RequestStates, rq' = [rq EXCEPT ![r] = x],
         HasSlot(x) <=> HasSlot(rq[r]), active' = active
  PROVE  SlotsCounted'
<1>1. rq'[r] = x /\ \A s \in Reqs \ {r} : rq'[s] = rq[s]
  BY Moved DEF Requests
<1>2. {s \in Reqs : HasSlot(rq'[s])} = {s \in Reqs : HasSlot(rq[s])}
  BY <1>1
<1> QED
  BY <1>2 DEF SlotsCounted, Slotted, HasSlot

\* A move takes a free slot.
LEMMA SlotTaken ==
  ASSUME GatewayAssumption, Requests, SlotsCounted, NEW r \in Reqs, NEW x \in RequestStates, rq' = [rq EXCEPT ![r] = x],
         HasSlot(x), ~HasSlot(rq[r]), active < Slots, active' = active + 1
  PROVE  SlotsCounted'
<1>1. rq'[r] = x /\ \A s \in Reqs \ {r} : rq'[s] = rq[s]
  BY Moved DEF Requests
<1>2. {s \in Reqs : HasSlot(rq'[s])} = {s \in Reqs : HasSlot(rq[s])} \cup {r}
  BY <1>1
<1>3. Slotted' = Slotted \cup {r} /\ r \notin Slotted /\ IsFiniteSet(Slotted) /\ Cardinality(Slotted) \in Nat /\ Slots \in Nat
  BY <1>2, Finite DEF Slotted, HasSlot
<1>4. Cardinality(Slotted') = Cardinality(Slotted) + 1
  BY <1>3, FS_AddElement
<1> QED
  BY <1>3, <1>4 DEF SlotsCounted

\* A move gives its slot back.
LEMMA SlotFreed ==
  ASSUME GatewayAssumption, Requests, SlotsCounted, NEW r \in Reqs, NEW x \in RequestStates, rq' = [rq EXCEPT ![r] = x],
         ~HasSlot(x), HasSlot(rq[r]), active' = active - 1
  PROVE  SlotsCounted'
<1>1. rq'[r] = x /\ \A s \in Reqs \ {r} : rq'[s] = rq[s]
  BY Moved DEF Requests
<1>2. {s \in Reqs : HasSlot(rq'[s])} = {s \in Reqs : HasSlot(rq[s])} \ {r}
  BY <1>1
<1>3. Slotted' = Slotted \ {r} /\ r \in Slotted /\ IsFiniteSet(Slotted) /\ Cardinality(Slotted) \in Nat /\ Slots \in Nat
  BY <1>2, Finite DEF Slotted, HasSlot
<1>4. Cardinality(Slotted') = Cardinality(Slotted) - 1
  BY <1>3, FS_RemoveElement
<1> QED
  BY <1>3, <1>4 DEF SlotsCounted

\* Nothing is admitted: who waits has waited as long, or begins now.
LEMMA RateSame ==
  ASSUME Requests, RateKept, NEW r \in Reqs, NEW x \in RequestStates, rq' = [rq EXCEPT ![r] = x],
         UNCHANGED <<recent, admitted, clock>>,
         Waits(x) => (Waits(rq[r]) /\ x.at = rq[r].at) \/ x.at = clock
  PROVE  RateKept'
<1>1. rq'[r] = x /\ \A s \in Reqs \ {r} : rq'[s] = rq[s]
  BY Moved DEF Requests
<1>2. \A a \in admitted \ recent : \A s \in Reqs : Waits(rq'[s]) => a.at <= rq'[s].at - Window
  BY <1>1 DEF RateKept
<1> QED
  BY <1>2 DEF RateKept, Minute, Waits

\* Nobody new may book: the sum of what is booked and may be does not grow.
LEMMA QuotaSame ==
  ASSUME GatewayAssumption, Requests, QuotaKept, NEW r \in Reqs, NEW x \in RequestStates, rq' = [rq EXCEPT ![r] = x],
         MayBook(x) => MayBook(rq[r]), rq[r].abort => x.abort,
         used' = used \/ (used' = used + 1 /\ MayBook(rq[r]) /\ ~MayBook(x)),
         x.pc = "check" => rq[r].pc = "check" /\ x.seen = rq[r].seen
  PROVE  QuotaKept'
<1>1. rq'[r] = x /\ \A s \in Reqs \ {r} : rq'[s] = rq[s]
  BY Moved DEF Requests
<1>2. /\ {s \in Reqs : MayBook(rq'[s])} \subseteq {s \in Reqs : MayBook(rq[s])}
      /\ {s \in Reqs : rq[s].abort} \subseteq {s \in Reqs : rq'[s].abort}
      /\ MayBook(rq[r]) /\ ~MayBook(x) => {s \in Reqs : MayBook(rq'[s])} = {s \in Reqs : MayBook(rq[s])} \ {r}
  BY <1>1
<1>3. /\ Bookers' \subseteq Bookers /\ Leavers \subseteq Leavers'
      /\ MayBook(rq[r]) /\ ~MayBook(x) => Bookers' = Bookers \ {r} /\ r \in Bookers
  BY <1>2 DEF Bookers, Leavers, Aborted, MayBook
<1>4. /\ IsFiniteSet(Bookers) /\ IsFiniteSet(Leavers') /\ Cardinality(Bookers) \in Nat /\ Cardinality(Bookers') \in Nat
      /\ Cardinality(Leavers) \in Nat /\ Cardinality(Leavers') \in Nat /\ Slots \in Nat /\ Tokens \in Nat
  BY Finite DEF Bookers, Leavers
<1>5. Cardinality(Bookers') <= Cardinality(Bookers) /\ Cardinality(Leavers) <= Cardinality(Leavers')
  BY <1>3, <1>4, FS_Subset
<1>6. MayBook(rq[r]) /\ ~MayBook(x) => Cardinality(Bookers') = Cardinality(Bookers) - 1
  BY <1>3, <1>4, FS_RemoveElement
<1>7. used' \in Nat /\ used' + Cardinality(Bookers') <= used + Cardinality(Bookers) /\ used \in Nat
  BY <1>4, <1>5, <1>6 DEF QuotaKept
<1>8. used' + Cardinality(Bookers') <= Tokens + Slots + Cardinality(Leavers')
  BY <1>4, <1>5, <1>7 DEF QuotaKept
<1>9. ASSUME NEW s \in Reqs, rq'[s].pc = "check"
      PROVE  used' + Cardinality(Bookers') <= rq'[s].seen + Slots + Cardinality(Leavers')
  <2>1. rq[s].pc = "check" /\ rq'[s].seen = rq[s].seen
    BY <1>1, <1>9
  <2>2. used + Cardinality(Bookers) <= rq[s].seen + Slots + Cardinality(Leavers) /\ rq[s].seen \in Nat
    BY <2>1 DEF QuotaKept, Requests, RequestStates
  <2> QED
    BY <1>4, <1>5, <1>7, <2>1, <2>2
<1> QED
  BY <1>7, <1>8, <1>9 DEF QuotaKept

\* The request at the front is alone there.
LEMMA OneHolds ==
  ASSUME Requests, Chain
  PROVE  OneAdmission
<1> SUFFICES ASSUME NEW p \in Reqs, NEW q \in Reqs, Holds(p), Holds(q) PROVE p = q
  BY DEF OneAdmission
<1>1. Waits(rq[p]) /\ Waits(rq[q])
  BY DEF Holds, Waits
<1>2. /\ Call(p) \in Calls /\ link[Call(p)].open /\ Free(link, link[Call(p)].prev)
      /\ Call(q) \in Calls /\ link[Call(q)].open /\ Free(link, link[Call(q)].prev)
  BY <1>1, CallPlaces DEF Chain, ChainOf, Holds, Call
<1>3. Call(p) = Call(q)
  BY <1>2 DEF Chain, ChainOf, LineOf
<1> QED
  BY <1>3 DEF Call

\* The usage is read: whoever may still book has a slot, or was aborted.
LEMMA QuotaRead ==
  ASSUME GatewayAssumption, Requests, SlotsCounted, QuotaKept, NEW r \in Reqs, NEW x \in RequestStates,
         rq' = [rq EXCEPT ![r] = x],
         ~MayBook(x), ~MayBook(rq[r]), x.abort = rq[r].abort, used' = used, x.seen = used,
         \A s \in Reqs \ {r} : rq[s].pc # "check"
  PROVE  QuotaKept'
<1>1. rq'[r] = x /\ \A s \in Reqs \ {r} : rq'[s] = rq[s]
  BY Moved DEF Requests
<1>2. {s \in Reqs : MayBook(rq'[s])} = {s \in Reqs : MayBook(rq[s])} /\ {s \in Reqs : rq[s].abort} = {s \in Reqs : rq'[s].abort}
  BY <1>1
<1>3. Bookers' = Bookers /\ Leavers' = Leavers
  BY <1>2 DEF Bookers, Leavers, Aborted, MayBook
<1>4. \A s \in Reqs : MayBook(rq[s]) => HasSlot(rq[s]) \/ rq[s].abort
  BY DEF Requests, RequestStates, Shape, MayBook, HasSlot
<1>5. Bookers \subseteq Slotted \cup Leavers
  BY <1>4 DEF Bookers, Slotted, Leavers, Aborted
<1>6. /\ IsFiniteSet(Slotted) /\ IsFiniteSet(Leavers) /\ Cardinality(Bookers) \in Nat
      /\ Cardinality(Leavers) \in Nat /\ Cardinality(Slotted) \in Nat /\ Slots \in Nat
  BY Finite DEF Slotted, Leavers, Bookers
<1>7. IsFiniteSet(Slotted \cup Leavers) /\ Cardinality(Slotted \cup Leavers) <= Cardinality(Slotted) + Cardinality(Leavers)
  <2>1. Cardinality(Slotted \cup Leavers) = Cardinality(Slotted) + Cardinality(Leavers) - Cardinality(Slotted \cap Leavers)
    BY <1>6, FS_Union
  <2>2. Cardinality(Slotted \cap Leavers) \in Nat /\ IsFiniteSet(Slotted \cup Leavers)
    BY Finite DEF Slotted, Leavers
  <2> QED
    BY <1>6, <2>1, <2>2
<1>8. Cardinality(Bookers) <= Cardinality(Slotted \cup Leavers) /\ Cardinality(Slotted \cup Leavers) \in Nat
  BY <1>5, <1>7, FS_Subset, FS_CardinalityType
<1>9. used + Cardinality(Bookers) <= used + Slots + Cardinality(Leavers) /\ used \in Nat
  BY <1>6, <1>7, <1>8 DEF SlotsCounted, QuotaKept
<1>10. used + Cardinality(Bookers) <= Tokens + Slots + Cardinality(Leavers)
  BY DEF QuotaKept
<1>11. \A s \in Reqs : rq'[s].pc = "check" => s = r
  BY <1>1
<1> QED
  BY <1>1, <1>3, <1>9, <1>10, <1>11 DEF QuotaKept

\* A request is admitted within the quota that it read.
LEMMA QuotaTaken ==
  ASSUME GatewayAssumption, Requests, QuotaKept, NEW r \in Reqs, NEW x \in RequestStates,
         rq' = [rq EXCEPT ![r] = x], MayBook(x), rq[r].pc = "check", rq[r].seen < Tokens,
         x.abort = rq[r].abort, used' = used, \A s \in Reqs \ {r} : rq[s].pc # "check"
  PROVE  QuotaKept'
<1>1. rq'[r] = x /\ \A s \in Reqs \ {r} : rq'[s] = rq[s]
  BY Moved DEF Requests
<1>2. {s \in Reqs : MayBook(rq'[s])} = {s \in Reqs : MayBook(rq[s])} \cup {r} /\ {s \in Reqs : rq[s].abort} = {s \in Reqs : rq'[s].abort}
  BY <1>1
<1>3. Bookers' = Bookers \cup {r} /\ Leavers' = Leavers /\ r \notin Bookers
  BY <1>2 DEF Bookers, Leavers, Aborted, MayBook
<1>4. /\ IsFiniteSet(Bookers) /\ Cardinality(Bookers) \in Nat /\ Cardinality(Leavers) \in Nat
      /\ Slots \in Nat /\ Tokens \in Nat /\ used \in Nat /\ rq[r].seen \in Nat
  BY Finite DEF Bookers, Leavers, QuotaKept, Requests, RequestStates
<1>5. Cardinality(Bookers') = Cardinality(Bookers) + 1
  BY <1>3, <1>4, FS_AddElement
<1>6. used + Cardinality(Bookers) <= rq[r].seen + Slots + Cardinality(Leavers)
  BY DEF QuotaKept
<1>7. used' + Cardinality(Bookers') <= Tokens + Slots + Cardinality(Leavers')
  BY <1>3, <1>4, <1>5, <1>6
<1>8. \A s \in Reqs : rq'[s].pc # "check"
  BY <1>1 DEF MayBook
<1> QED
  BY <1>4, <1>7, <1>8 DEF QuotaKept

\* An admission: what minuteRequests forgets at the time its request read is too
\* old for all that wait behind it, and what it remembers was counted.
LEMMA RateTaken ==
  ASSUME GatewayAssumption, clock \in Nat, Requests, Chain, RateKept, NEW r \in Reqs, Holds(r), NEW x \in RequestStates,
         rq' = [rq EXCEPT ![r] = x], ~Waits(x), clock' = clock,
         Cardinality(InWindow(rq[r].at)) < Rate,
         NEW this, this = [call |-> Call(r), at |-> rq[r].at],
         recent' = InWindow(rq[r].at) \cup {this}, admitted' = admitted \cup {this}
  PROVE  RateKept'
<1>1. rq'[r] = x /\ \A s \in Reqs \ {r} : rq'[s] = rq[s]
  BY Moved DEF Requests
<1>2. Waits(rq[r]) /\ rq[r].at \in Nat
  BY DEF Holds, Waits, Requests, RequestStates
<1>3. Call(r) \in Calls /\ link[Call(r)].open /\ Free(link, link[Call(r)].prev)
  BY <1>2, CallPlaces DEF Chain, ChainOf, Holds, Call
<1>4. PICK f \in [Calls -> Nat], g \in [Calls -> Nat] : Ordered(link, clock, f, g) /\ InLine(rq, g)
  BY DEF Chain, ChainOf
<1>5. rq[r].at <= clock
  BY <1>2, <1>3, <1>4 DEF Ordered, InLine, Call
<1>6. \A s \in Reqs : Waits(rq[s]) => rq[r].at <= rq[s].at
  <2> SUFFICES ASSUME NEW s \in Reqs, Waits(rq[s]) PROVE rq[r].at <= rq[s].at
    OBVIOUS
  <2>1. Call(s) \in Calls /\ link[Call(s)].open
    BY CallPlaces DEF Chain, ChainOf, Call
  <2>2. g[Call(r)] = rq[r].at /\ g[Call(s)] = rq[s].at
    BY <1>2, <1>4 DEF InLine, Call
  <2>3. LineOf(link, tail)
    BY DEF Chain, ChainOf
  <2>4. g[Call(r)] <= g[Call(s)]
    BY <1>3, <1>4, <2>1, <2>3, OldestFirst
  <2> QED
    BY <2>2, <2>4
<1>7. this \in Entries /\ this.at = rq[r].at
  BY <1>2, <1>3 DEF Entries
<1>8. recent' \subseteq admitted' /\ admitted' \subseteq Entries /\ IsFiniteSet(admitted') /\ \A a \in admitted' : a.at <= clock'
  <2>1. IsFiniteSet(admitted')
    BY FS_AddElement DEF RateKept
  <2> QED
    BY <1>5, <1>7, <2>1 DEF RateKept, InWindow
<1>9. Window \in Nat /\ Rate \in Nat
  BY Finite
<1>10. ASSUME NEW a \in admitted' \ recent'
       PROVE  a.at <= clock' - Window /\ \A s \in Reqs : Waits(rq'[s]) => a.at <= rq'[s].at - Window
  <2>1. a \in admitted /\ a.at \in Nat /\ a # this
    BY <1>10 DEF RateKept, Entries
  <2>2. CASE a \in recent
    <3>1. a.at <= rq[r].at - Window
      BY <1>2, <1>9, <1>10, <2>1, <2>2 DEF InWindow
    <3>2. a.at <= clock' - Window
      BY <1>2, <1>5, <1>9, <2>1, <3>1
    <3>3. ASSUME NEW s \in Reqs, Waits(rq'[s]) PROVE a.at <= rq'[s].at - Window
      <4>1. Waits(rq[s]) /\ rq'[s] = rq[s] /\ rq[s].at \in Nat
        BY <1>1, <3>3 DEF Requests, RequestStates
      <4> QED
        BY <1>2, <1>6, <1>9, <2>1, <3>1, <4>1
    <3> QED
      BY <3>2, <3>3
  <2>3. CASE a \notin recent
    BY <1>1, <2>1, <2>3 DEF RateKept
  <2> QED
    BY <2>2, <2>3
<1>11. ASSUME NEW t \in Nat
       PROVE  Cardinality({a \in admitted' : t - Window < a.at /\ a.at <= t}) <= Rate
  <2> DEFINE M == {a \in admitted : t - Window < a.at /\ a.at <= t}
             N == {a \in admitted' : t - Window < a.at /\ a.at <= t}
  <2>1. Cardinality(M) <= Rate /\ IsFiniteSet(M)
    BY FS_Subset DEF RateKept, Minute
  <2>2. CASE t < rq[r].at
    <3>1. N = M
      BY <1>2, <1>7, <2>2
    <3> QED
      BY <2>1, <3>1
  <2>3. CASE rq[r].at <= t
    <3>1. M \subseteq InWindow(rq[r].at)
      <4> SUFFICES ASSUME NEW a \in M PROVE a \in recent /\ a.at > rq[r].at - Window
        BY DEF InWindow
      <4>1. a \in admitted /\ a.at \in Nat /\ t - Window < a.at
        BY DEF RateKept, Entries
      <4>2. a.at > rq[r].at - Window
        BY <1>2, <1>9, <2>3, <4>1
      <4>3. a \notin recent => a.at <= rq[r].at - Window
        BY <1>2, <4>1 DEF RateKept
      <4> QED
        BY <1>2, <1>9, <4>1, <4>2, <4>3
    <3>2. IsFiniteSet(InWindow(rq[r].at))
      BY FS_Subset DEF InWindow, RateKept
    <3>3. Cardinality(M) <= Cardinality(InWindow(rq[r].at)) /\ Cardinality(M) \in Nat /\ Cardinality(InWindow(rq[r].at)) \in Nat
      BY <2>1, <3>1, <3>2, FS_Subset, FS_CardinalityType
    <3>4. N \subseteq M \cup {this}
      OBVIOUS
    <3> HIDE DEF M, N
    <3>5. IsFiniteSet(M \cup {this}) /\ Cardinality(M \cup {this}) <= Cardinality(M) + 1 /\ Cardinality(M \cup {this}) \in Nat
      <4>1. CASE this \in M
        <5> DEFINE K == M \cup {this}
        <5>1. K = M
          BY <4>1
        <5> HIDE DEF K
        <5>2. IsFiniteSet(K) /\ Cardinality(K) <= Cardinality(M) + 1 /\ Cardinality(K) \in Nat
          BY <2>1, <3>3, <5>1
        <5> QED
          BY <5>2 DEF K
      <4>2. CASE this \notin M
        BY <2>1, <3>3, <4>2, FS_AddElement
      <4> QED
        BY <4>1, <4>2
    <3>6. Cardinality(N) <= Cardinality(M \cup {this}) /\ Cardinality(N) \in Nat
      BY <3>4, <3>5, FS_Subset, FS_CardinalityType
    <3>7. Cardinality(N) <= Rate
      BY <1>9, <3>3, <3>5, <3>6
    <3> QED
      BY <3>7 DEF N
  <2> QED
    BY <1>2, <2>2, <2>3
<1> QED
  BY <1>8, <1>10, <1>11 DEF RateKept, Minute, Waits

-----------------------------------------------------------------------------
(* The moves of a request                                                   *)

\* Any move to a well-shaped state keeps the requests well shaped.
LEMMA RequestsStay ==
  ASSUME Requests, NEW r \in Reqs, NEW x \in RequestStates, Shape(x), rq' = [rq EXCEPT ![r] = x]
  PROVE  Requests'
<1>1. rq' \in [Reqs -> RequestStates] /\ rq'[r] = x /\ \A s \in Reqs \ {r} : rq'[s] = rq[s]
  BY Moved DEF Requests
<1>2. \A s \in Reqs : Shape(rq'[s])
  BY <1>1 DEF Requests
<1> QED
  BY <1>1, <1>2 DEF Requests, Shape

\* A request ends.
LEMMA Ends ==
  ASSUME Requests, NEW r \in Reqs, rq' = Done(r)
  PROVE  \E x \in RequestStates : /\ rq' = [rq EXCEPT ![r] = x] /\ Shape(x)
                                  /\ x.pc = "done" /\ x.lease = "none" /\ x.abort = rq[r].abort
<1> DEFINE x == [Fresh EXCEPT !.pc = "done", !.abort = rq[r].abort]
<1>1. rq[r].abort \in BOOLEAN
  BY DEF Requests, RequestStates
<1>2. <<>> \in Seq(Candidates)
  OBVIOUS
<1>3. x \in RequestStates /\ x.pc = "done" /\ x.lease = "none" /\ x.abort = rq[r].abort
  <2>1. Fresh \in RequestStates /\ Fresh.lease = "none"
    BY <1>2 DEF Fresh, RequestStates
  <2> QED
    BY <1>1, <2>1 DEF RequestStates
<1>4. rq' = [rq EXCEPT ![r] = x]
  BY DEF Done
<1> HIDE DEF x
<1>5. Shape(x)
  BY <1>3 DEF Shape
<1> QED
  BY <1>3, <1>4, <1>5

\* A request takes its place for the next candidate.
LEMMA Joins ==
  ASSUME Requests, clock \in Nat, NEW r \in Reqs, NEW todo \in Seq(Candidates), NEW base,
         base = rq \/ base = [rq EXCEPT ![r].lease = "released"], Try(r, todo, base),
         Len(todo) >= 1, rq[r].n + 1 + Len(todo) <= 3
  PROVE  \E x \in RequestStates :
           /\ rq' = [rq EXCEPT ![r] = x] /\ Shape(x)
           /\ x.pc = "wait" /\ x.n = rq[r].n + 1 /\ x.at = clock /\ x.lease = "none" /\ x.abort = rq[r].abort
           /\ link' = Queued(<<r, x.n>>) /\ tail' = <<r, x.n>>
<1> DEFINE w == rq[r]
           m == rq[r].n + 1
           x == [w EXCEPT !.pc = "wait", !.todo = todo, !.n = m, !.at = clock, !.k = 0, !.tried = FALSE, !.lease = "none"]
<1>1. w \in RequestStates /\ w = rq[r]
  BY DEF Requests
<1>2. m \in 1..2 /\ m = w.n + 1 /\ m + Len(todo) <= 3
  BY <1>1, SMTT(60) DEF RequestStates
<1>3. rq' = [rq EXCEPT ![r] = x] /\ link' = Queued(<<r, m>>) /\ tail' = <<r, m>>
  <2>1. rq \in [Reqs -> RequestStates]
    BY DEF Requests
  <2>2. CASE base = rq
    BY <2>1, <2>2, ZenonT(60) DEF Try
  <2>3. CASE base = [rq EXCEPT ![r].lease = "released"]
    BY <1>1, <2>1, <2>3 DEF Try, RequestStates
  <2> QED
    BY <2>2, <2>3 DEF Try
<1> HIDE DEF w, m
<1>4. x \in RequestStates
  <2>1. m \in 0..2
    BY <1>2
  <2> QED
    BY <1>1, <2>1 DEF RequestStates
<1>5. x.pc = "wait" /\ x.n = m /\ x.at = clock /\ x.lease = "none" /\ x.abort = w.abort /\ x.todo = todo
  BY <1>1 DEF RequestStates
<1> HIDE DEF x
<1>6. Shape(x)
  BY <1>2, <1>5 DEF Shape
<1> QED
  BY <1>1, <1>2, <1>3, <1>4, <1>5, <1>6

\* The slot that a move leaves behind.
Leaves(r) == IF HasSlot(rq[r]) THEN active' = active - 1 ELSE active' = active

\* At most one call is booked, by a request that may.
Books(r) == used' = used \/ (used' = used + 1 /\ MayBook(rq[r]))

\* Every way in which a request ends.
LEMMA EndKeeps ==
  ASSUME GatewayAssumption, GatewayIInv, NEW r \in Reqs, rq' = Done(r), UNCHANGED <<clock, recent, admitted>>,
         UNCHANGED <<link, tail>> \/ (Holds(r) /\ Finish(Call(r))), Leaves(r), Books(r)
  PROVE  GatewayIInv'
<1>1. PICK x \in RequestStates : /\ rq' = [rq EXCEPT ![r] = x] /\ Shape(x)
                                 /\ x.pc = "done" /\ x.lease = "none" /\ x.abort = rq[r].abort
  BY Ends DEF GatewayIInv
<1>2. ~Waits(x) /\ ~HasSlot(x) /\ ~MayBook(x) /\ x.pc # "check" /\ x.pc \notin {"list", "check"}
  BY <1>1 DEF Waits, HasSlot, MayBook
<1>3. Requests'
  BY <1>1, RequestsStay DEF GatewayIInv
<1>4. Chain'
  <2>1. CASE UNCHANGED <<link, tail>>
    BY <1>1, <1>2, <2>1, ChainStays DEF GatewayIInv
  <2>2. CASE Holds(r) /\ Finish(Call(r))
    BY <1>1, <1>2, <2>2, ChainLeft DEF GatewayIInv
  <2> QED
    BY <2>1, <2>2
<1>5. SlotsCounted'
  BY <1>1, <1>2, SlotsSame, SlotFreed DEF GatewayIInv, Leaves
<1>6. RateKept'
  BY <1>1, <1>2, RateSame DEF GatewayIInv
<1>7. QuotaKept'
  BY <1>1, <1>2, QuotaSame DEF GatewayIInv, Books
<1> QED
  BY <1>3, <1>4, <1>5, <1>6, <1>7 DEF GatewayIInv

\* Every way in which a request turns to a candidate.
LEMMA JoinKeeps ==
  ASSUME GatewayAssumption, GatewayIInv, NEW r \in Reqs, NEW todo \in Seq(Candidates), NEW base,
         base = rq \/ base = [rq EXCEPT ![r].lease = "released"], Try(r, todo, base),
         Len(todo) >= 1, rq[r].n + 1 + Len(todo) <= 3, ~Waits(rq[r]), rq[r].pc # "done",
         UNCHANGED <<clock, recent, admitted>>, Leaves(r), Books(r)
  PROVE  GatewayIInv'
<1>0. clock \in Nat
  BY DEF GatewayIInv, GatewayAssumption
<1>1. PICK x \in RequestStates :
        /\ rq' = [rq EXCEPT ![r] = x] /\ Shape(x)
        /\ x.pc = "wait" /\ x.n = rq[r].n + 1 /\ x.at = clock /\ x.lease = "none" /\ x.abort = rq[r].abort
        /\ link' = Queued(<<r, x.n>>) /\ tail' = <<r, x.n>>
  BY <1>0, Joins DEF GatewayIInv
<1>2. ~HasSlot(x) /\ ~MayBook(x) /\ x.pc # "check"
  BY <1>1 DEF HasSlot, MayBook
<1>3. Requests'
  BY <1>1, RequestsStay DEF GatewayIInv
<1>4. Chain'
  BY <1>0, <1>1, ChainJoined DEF GatewayIInv
<1>5. SlotsCounted'
  BY <1>1, <1>2, SlotsSame, SlotFreed DEF GatewayIInv, Leaves
<1>6. RateKept'
  BY <1>1, RateSame DEF GatewayIInv
<1>7. QuotaKept'
  BY <1>1, <1>2, QuotaSame DEF GatewayIInv, Books
<1> QED
  BY <1>3, <1>4, <1>5, <1>6, <1>7 DEF GatewayIInv

\* Every other step of a request that leaves its slot, the chain and the rows
\* alone.
LEMMA MoveKeeps ==
  ASSUME GatewayAssumption, GatewayIInv, NEW r \in Reqs, NEW x \in RequestStates, Shape(x), rq' = [rq EXCEPT ![r] = x],
         UNCHANGED <<clock, recent, admitted, link, tail, used>>,
         Waits(x) => Waits(rq[r]) /\ x.n = rq[r].n /\ x.at = rq[r].at,
         x.pc \in {"list", "check"} => Free(link, link[Call(r)].prev),
         x.pc = "done" \/ (rq[r].pc # "done" /\ rq[r].n <= x.n),
         MayBook(x) => MayBook(rq[r]), rq[r].abort => x.abort,
         x.pc = "check" => rq[r].pc = "check" /\ x.seen = rq[r].seen,
         \/ (HasSlot(x) <=> HasSlot(rq[r])) /\ active' = active
         \/ ~HasSlot(x) /\ HasSlot(rq[r]) /\ active' = active - 1
  PROVE  GatewayIInv'
<1>1. Requests'
  BY RequestsStay DEF GatewayIInv
<1>2. Chain'
  BY ChainStays DEF GatewayIInv
<1>3. SlotsCounted'
  BY SlotsSame, SlotFreed DEF GatewayIInv
<1>4. RateKept'
  BY RateSame DEF GatewayIInv
<1>5. QuotaKept'
  BY QuotaSame DEF GatewayIInv
<1> QED
  BY <1>1, <1>2, <1>3, <1>4, <1>5 DEF GatewayIInv

-----------------------------------------------------------------------------
(* The steps                                                                *)

\* The state of one request, in the facts its moves use.
LEMMA State ==
  ASSUME GatewayIInv, NEW r \in Reqs
  PROVE  /\ rq[r] \in RequestStates /\ Shape(rq[r]) /\ rq \in [Reqs -> RequestStates]
         /\ clock \in 0..MaxClock /\ used \in Nat
  BY DEF GatewayIInv, Requests, QuotaKept

\* A request is let in or refused, and waits for nothing yet.
LEMMA ArriveKeeps ==
  ASSUME GatewayAssumption, GatewayIInv, NEW r \in Reqs, Arrive(r)
  PROVE  GatewayIInv'
<1>1. rq[r].pc = "idle" /\ UNCHANGED <<clock, link, tail, active, recent, admitted, used>>
  BY DEF Arrive
<1>2. ~HasSlot(rq[r]) /\ rq[r].lease = "none" /\ rq[r].n = 0
  BY <1>1, State DEF Shape, HasSlot, RequestStates
<1>3. CASE rq' = Done(r)
  BY <1>1, <1>2, <1>3, EndKeeps DEF Leaves, Books
<1>4. CASE rq' = [rq EXCEPT ![r].pc = "body"]
  <2> DEFINE w == rq[r]
             x == [w EXCEPT !.pc = "body"]
  <2>1. rq' = [rq EXCEPT ![r] = x] /\ w \in RequestStates /\ w = rq[r]
    BY <1>4, State
  <2> HIDE DEF w
  <2>2. x \in RequestStates /\ x.pc = "body" /\ x.lease = w.lease /\ x.n = w.n /\ x.abort = w.abort
    BY <2>1 DEF RequestStates
  <2> HIDE DEF x
  <2>3. Shape(x) /\ ~Waits(x) /\ ~MayBook(x) /\ ~HasSlot(x)
    BY <1>2, <2>1, <2>2 DEF Shape, Waits, MayBook, HasSlot
  <2>4. rq[r].pc # "done" /\ rq[r].n <= x.n
    BY <1>1, <1>2, <2>1, <2>2
  <2> QED
    BY <1>1, <1>2, <2>1, <2>2, <2>3, <2>4, MoveKeeps
<1> QED
  BY <1>3, <1>4 DEF Arrive

\* The body is read: the request joins the chain with its first candidate, or ends.
LEMMA PrepareKeeps ==
  ASSUME GatewayAssumption, GatewayIInv, NEW r \in Reqs, Prepare(r)
  PROVE  GatewayIInv'
<1>1. rq[r].pc = "body" /\ UNCHANGED <<clock, active, recent, admitted, used>>
  BY DEF Prepare
<1>2. ~HasSlot(rq[r]) /\ ~Waits(rq[r]) /\ rq[r].n = 0
  BY <1>1, State DEF Shape, HasSlot, Waits, RequestStates
<1>3. CASE rq' = Done(r) /\ UNCHANGED <<link, tail>>
  BY <1>1, <1>2, <1>3, EndKeeps DEF Leaves, Books
<1>4. ASSUME NEW fallback, fallback \in {<<>>} \cup {<<"fallback">> : z \in Fallbacks \cap {r}},
             NEW first, first \in {<<>>, <<"primary">>}, NEW todo, todo = first \o fallback, todo # <<>>, Try(r, todo, rq)
      PROVE  GatewayIInv'
  <2>1. fallback \in {<<>>, <<"fallback">>} /\ first \in {<<>>, <<"primary">>}
    BY <1>4
  <2>2. todo \in Seq(Candidates) /\ Len(todo) >= 1 /\ Len(todo) <= 2
    <3> DEFINE Short(s) == s \in Seq(Candidates) /\ (Len(s) = 0 \/ Len(s) = 1)
    <3>4. Short(<<>>) /\ Short(<<"primary">>) /\ Short(<<"fallback">>)
      BY EmptySeq DEF Candidates
    <3> HIDE DEF Short
    <3>5. Short(first) /\ Short(fallback)
      BY <2>1, <3>4
    <3>1. /\ first \in Seq(Candidates) /\ (Len(first) = 0 \/ Len(first) = 1)
          /\ fallback \in Seq(Candidates) /\ (Len(fallback) = 0 \/ Len(fallback) = 1)
      BY <3>5 DEF Short
    <3>2. todo \in Seq(Candidates) /\ Len(todo) = Len(first) + Len(fallback)
      BY <1>4, <3>1, ConcatProperties
    <3>3. Len(todo) \in Nat \ {0}
      BY <1>4, <3>2, EmptySeq
    <3>6. Len(todo) <= 2
      <4> DEFINE a == Len(first)
                 b == Len(fallback)
                 n == Len(todo)
      <4>1. (a = 0 \/ a = 1) /\ (b = 0 \/ b = 1) /\ n = a + b
        BY <3>1, <3>2
      <4> HIDE DEF a, b, n
      <4>2. n <= 2
        BY <4>1
      <4> QED
        BY <4>2 DEF n
    <3> QED
      BY <3>2, <3>3, <3>6
  <2>3. rq[r].n + 1 + Len(todo) <= 3
    BY <1>2, <2>2
  <2> QED
    BY <1>1, <1>2, <1>4, <2>2, <2>3, JoinKeeps DEF Leaves, Books
<1> QED
  BY <1>3, <1>4 DEF Prepare

\* The promise before its own has resolved: the request is at the front of the chain.
LEMMA AcquireKeeps ==
  ASSUME GatewayAssumption, GatewayIInv, NEW r \in Reqs, Acquire(r)
  PROVE  GatewayIInv'
<1> DEFINE w == rq[r]
           x == [w EXCEPT !.pc = "list"]
<1>1. rq[r].pc = "wait" /\ UNCHANGED <<clock, link, tail, active, recent, admitted, used>>
  BY DEF Acquire
<1>2. rq' = [rq EXCEPT ![r] = x] /\ w \in RequestStates /\ w = rq[r] /\ Shape(w)
  BY State DEF Acquire
<1> HIDE DEF w
<1>3. /\ x \in RequestStates /\ x.pc = "list" /\ x.lease = w.lease /\ x.n = w.n /\ x.at = w.at
      /\ x.abort = w.abort /\ x.todo = w.todo /\ w.n \in 0..2
  BY <1>2 DEF RequestStates
<1> HIDE DEF x
<1>4. /\ Shape(x) /\ Waits(w) /\ ~MayBook(x) /\ rq[r].n <= x.n
      /\ (HasSlot(x) <=> HasSlot(w)) /\ w.pc # "done"
  BY <1>1, <1>2, <1>3, SMTT(60) DEF Shape, Waits, MayBook, HasSlot
<1>5. Free(link, link[Call(r)].prev)
  BY DEF Acquire, Free, Resolved
<1> QED
  BY <1>1, <1>2, <1>3, <1>4, <1>5, MoveKeeps

\* A request is aborted in the chain: its promise resolves when the one before does.
LEMMA AbortWaitKeeps ==
  ASSUME GatewayAssumption, GatewayIInv, NEW r \in Reqs, AbortWait(r)
  PROVE  GatewayIInv'
<1>1. /\ rq[r].pc \in {"wait", "list", "check"} /\ rq' = Done(r)
      /\ UNCHANGED <<clock, active, recent, admitted, used>>
      /\ UNCHANGED <<link, tail>> \/ (Holds(r) /\ Finish(Call(r)))
  BY DEF AbortWait, LeaveChain, Holds
<1>2. ~HasSlot(rq[r])
  BY <1>1, State DEF Shape, HasSlot, RequestStates
<1> QED
  BY <1>1, <1>2, EndKeeps DEF Leaves, Books

\* The request at the front reads the device's usage.
LEMMA ListUsageKeeps ==
  ASSUME GatewayAssumption, GatewayIInv, NEW r \in Reqs, ListUsage(r)
  PROVE  GatewayIInv'
<1> DEFINE w == rq[r]
           x == [w EXCEPT !.pc = "check", !.seen = used]
<1>1. rq[r].pc = "list" /\ UNCHANGED <<clock, link, tail, active, recent, admitted, used>>
  BY DEF ListUsage
<1>2. /\ rq' = [rq EXCEPT ![r] = x] /\ w \in RequestStates /\ w = rq[r] /\ Shape(w) /\ used \in Nat
      /\ rq \in [Reqs -> RequestStates]
  BY State DEF ListUsage
<1> HIDE DEF w
<1>3. /\ x \in RequestStates /\ x.pc = "check" /\ x.lease = w.lease /\ x.n = w.n /\ x.at = w.at
      /\ x.abort = w.abort /\ x.todo = w.todo /\ w.n \in 0..2 /\ x.seen = used
  BY <1>2 DEF RequestStates
<1> HIDE DEF x
<1>4. /\ Shape(x) /\ Waits(w) /\ ~MayBook(x) /\ ~MayBook(w) /\ rq[r].n <= x.n
      /\ (HasSlot(x) <=> HasSlot(w)) /\ w.pc # "done"
  BY <1>1, <1>2, <1>3, SMTT(60) DEF Shape, Waits, MayBook, HasSlot
<1>5. Free(link, link[Call(r)].prev)
  BY <1>1 DEF GatewayIInv, Chain, ChainOf, Call
<1>6. \A s \in Reqs \ {r} : rq[s].pc # "check"
  BY <1>1, OneHolds DEF GatewayIInv, OneAdmission, Holds
<1>7. Requests'
  BY <1>2, <1>3, <1>4, RequestsStay DEF GatewayIInv
<1>8. Chain'
  BY <1>1, <1>2, <1>3, <1>4, <1>5, ChainStays DEF GatewayIInv
<1>9. SlotsCounted'
  BY <1>1, <1>2, <1>3, <1>4, SlotsSame DEF GatewayIInv
<1>10. RateKept'
  BY <1>1, <1>2, <1>3, <1>4, RateSame DEF GatewayIInv
<1>11. QuotaKept'
  BY <1>1, <1>2, <1>3, <1>4, <1>6, QuotaRead DEF GatewayIInv
<1> QED
  BY <1>1, <1>7, <1>8, <1>9, <1>10, <1>11 DEF GatewayIInv

\* The read fails: the request ends, and the next one has its turn.
LEMMA ListUsageFailsKeeps ==
  ASSUME GatewayAssumption, GatewayIInv, NEW r \in Reqs, ListUsageFails(r)
  PROVE  GatewayIInv'
<1>1. rq[r].pc = "list" /\ rq' = Done(r) /\ Holds(r) /\ Finish(Call(r)) /\ UNCHANGED <<clock, active, recent, admitted, used>>
  BY DEF ListUsageFails, Holds
<1>2. ~HasSlot(rq[r])
  BY <1>1, State DEF Shape, HasSlot, RequestStates
<1> QED
  BY <1>1, <1>2, EndKeeps DEF Leaves, Books

\* By what it read the request is admitted and takes a slot, or ends; the next has its turn.
LEMMA CheckKeeps ==
  ASSUME GatewayAssumption, GatewayIInv, NEW r \in Reqs, Check(r)
  PROVE  GatewayIInv'
<1>1. rq[r].pc = "check" /\ Holds(r) /\ Finish(Call(r)) /\ UNCHANGED <<clock, used>>
  BY DEF Check, Holds
<1>2. ~HasSlot(rq[r]) /\ rq[r].lease = "none" /\ ~MayBook(rq[r])
  BY <1>1, State DEF Shape, HasSlot, MayBook, RequestStates
<1>3. CASE Verdict(r) # "ok"
  <2>1. rq' = Done(r) /\ UNCHANGED <<recent, admitted, active>>
    BY <1>3 DEF Check
  <2> QED
    BY <1>1, <1>2, <2>1, EndKeeps DEF Leaves, Books
<1>4. CASE Verdict(r) = "ok"
  <2> DEFINE w == rq[r]
             x == [w EXCEPT !.pc = "register", !.at = 0, !.seen = 0]
             this == [call |-> Call(r), at |-> rq[r].at]
  <2>1. /\ rq' = [rq EXCEPT ![r] = x] /\ active' = active + 1
        /\ recent' = InWindow(rq[r].at) \cup {this} /\ admitted' = admitted \cup {this}
        /\ w \in RequestStates /\ w = rq[r] /\ Shape(w)
    BY <1>4, State DEF Check
  <2>2. ~(Cardinality(InWindow(rq[r].at)) >= Rate) /\ ~(active >= Slots) /\ ~(rq[r].seen >= Tokens)
    BY <1>4 DEF Verdict
  <2>3. Cardinality(InWindow(rq[r].at)) < Rate /\ active < Slots /\ rq[r].seen < Tokens
    <3>1. InWindow(rq[r].at) \subseteq admitted /\ IsFiniteSet(admitted) /\ IsFiniteSet(Slotted)
      BY Finite DEF GatewayIInv, RateKept, InWindow, Slotted
    <3>2. Cardinality(InWindow(rq[r].at)) \in Nat /\ active \in Nat /\ rq[r].seen \in Nat
      BY <3>1, State, FS_Subset, FS_CardinalityType DEF GatewayIInv, SlotsCounted, RequestStates
    <3> QED
      BY <2>2, <3>2, Finite
  <2> HIDE DEF w, this
  <2>4. /\ x \in RequestStates /\ x.pc = "register" /\ x.lease = w.lease /\ x.n = w.n
        /\ x.abort = w.abort /\ x.todo = w.todo /\ w.n \in 0..2
    BY <2>1 DEF RequestStates
  <2> HIDE DEF x
  <2>5. Shape(x) /\ ~Waits(x) /\ HasSlot(x) /\ MayBook(x) /\ rq[r].n <= x.n
    BY <1>1, <2>1, <2>4, SMTT(60) DEF Shape, Waits, HasSlot, MayBook
  <2>6. Requests'
    BY <2>1, <2>4, <2>5, RequestsStay DEF GatewayIInv
  <2>7. Chain'
    BY <1>1, <2>1, <2>4, <2>5, ChainLeft DEF GatewayIInv
  <2>8. SlotsCounted'
    BY <1>2, <2>1, <2>3, <2>4, <2>5, SlotTaken DEF GatewayIInv
  <2>9. RateKept'
    <3>1. this = [call |-> Call(r), at |-> rq[r].at] /\ clock \in Nat
      BY DEF this, GatewayIInv, GatewayAssumption
    <3> QED
      BY <1>1, <2>1, <2>3, <2>4, <2>5, <3>1, RateTaken DEF GatewayIInv
  <2>10. \A s \in Reqs \ {r} : rq[s].pc # "check"
    BY <1>1, OneHolds DEF GatewayIInv, OneAdmission, Holds
  <2>11. QuotaKept'
    BY <1>1, <2>1, <2>3, <2>4, <2>5, <2>10, QuotaTaken DEF GatewayIInv
  <2> QED
    BY <1>1, <2>6, <2>7, <2>8, <2>9, <2>11 DEF GatewayIInv
<1> QED
  BY <1>3, <1>4

\* The lease is made, or the slot is given back to an abort that came before it.
LEMMA RegisterKeeps ==
  ASSUME GatewayAssumption, GatewayIInv, NEW r \in Reqs, Register(r)
  PROVE  GatewayIInv'
<1>1. rq[r].pc = "register" /\ UNCHANGED <<clock, link, tail, recent, admitted, used>> /\ HasSlot(rq[r])
  BY DEF Register, HasSlot
<1>2. CASE Aborted(r)
  <2>1. rq' = Done(r) /\ active' = active - 1
    BY <1>2 DEF Register
  <2> QED
    BY <1>1, <2>1, EndKeeps DEF Leaves, Books
<1>3. CASE ~Aborted(r)
  <2> DEFINE w == rq[r]
             x == [w EXCEPT !.pc = "call", !.lease = "held"]
  <2>1. rq' = [rq EXCEPT ![r] = x] /\ active' = active /\ w \in RequestStates /\ w = rq[r] /\ Shape(w)
    BY <1>3, State DEF Register
  <2> HIDE DEF w
  <2>2. /\ x \in RequestStates /\ x.pc = "call" /\ x.lease = "held" /\ x.n = w.n
        /\ x.abort = w.abort /\ x.todo = w.todo /\ w.n \in 0..2
    BY <2>1 DEF RequestStates
  <2> HIDE DEF x
  <2>3. Shape(x) /\ ~Waits(x) /\ HasSlot(x) /\ MayBook(w) /\ rq[r].n <= x.n
    BY <1>1, <2>1, <2>2 DEF Shape, Waits, HasSlot, MayBook
  <2> QED
    BY <1>1, <2>1, <2>2, <2>3, MoveKeeps
<1> QED
  BY <1>2, <1>3

\* An upstream answered: the answer is passed on, and the slot stays taken.
LEMMA AnsweredKeeps ==
  ASSUME GatewayAssumption, GatewayIInv, NEW r \in Reqs, Answered(r)
  PROVE  GatewayIInv'
<1> DEFINE w == rq[r]
           x == [w EXCEPT !.pc = "stream", !.k = 0, !.tried = FALSE]
<1>1. rq[r].pc = "call" /\ UNCHANGED <<clock, link, tail, active, recent, admitted, used>>
  BY DEF Answered
<1>2. rq' = [rq EXCEPT ![r] = x] /\ w \in RequestStates /\ w = rq[r] /\ Shape(w)
  BY State DEF Answered
<1> HIDE DEF w
<1>3. /\ x \in RequestStates /\ x.pc = "stream" /\ x.lease = w.lease /\ x.n = w.n
      /\ x.abort = w.abort /\ x.todo = w.todo /\ w.n \in 0..2
  BY <1>2 DEF RequestStates
<1> HIDE DEF x
<1>4. Shape(x) /\ ~Waits(x) /\ (HasSlot(x) <=> HasSlot(w)) /\ MayBook(w) /\ rq[r].n <= x.n
  BY <1>1, <1>2, <1>3, SMTT(60) DEF Shape, Waits, HasSlot, MayBook
<1> QED
  BY <1>1, <1>2, <1>3, <1>4, MoveKeeps

\* The candidates that are left have their places in the chain.
LEMMA Room ==
  ASSUME GatewayIInv, NEW r \in Reqs, rq[r].pc \in {"call", "stream", "book"}, ~Last(r)
  PROVE  /\ Tail(rq[r].todo) \in Seq(Candidates) /\ Len(Tail(rq[r].todo)) >= 1
         /\ rq[r].n + 1 + Len(Tail(rq[r].todo)) <= 3
<1>1. rq[r].todo \in Seq(Candidates) /\ rq[r].n \in 0..2 /\ Len(rq[r].todo) >= 1 /\ rq[r].n + Len(rq[r].todo) <= 3
  BY State DEF RequestStates, Shape
<1>2. Len(rq[r].todo) \in Nat /\ Len(rq[r].todo) # 1
  BY <1>1, LenProperties DEF Last
<1>3. rq[r].todo # <<>>
  BY <1>1, EmptySeq
<1>4. Tail(rq[r].todo) \in Seq(Candidates) /\ Len(Tail(rq[r].todo)) = Len(rq[r].todo) - 1
  BY <1>1, <1>3, HeadTailProperties
<1> DEFINE n == rq[r].n
           m == Len(rq[r].todo)
           t == Len(Tail(rq[r].todo))
<1>5. n \in 0..2 /\ m \in Nat /\ m >= 1 /\ m # 1 /\ n + m <= 3 /\ t = m - 1
  BY <1>1, <1>2, <1>4
<1> HIDE DEF n, m, t
<1>6. t >= 1 /\ n + 1 + t <= 3
  BY <1>5
<1> QED
  BY <1>4, <1>6 DEF n, t

\* The attempts of a candidate are over.
LEMMA OverKeeps ==
  ASSUME GatewayAssumption, GatewayIInv, NEW r \in Reqs, rq[r].pc = "call", NEW tried, Over(r, tried),
         UNCHANGED <<clock, recent, admitted, used>>
  PROVE  GatewayIInv'
<1>1. rq[r] \in RequestStates /\ Shape(rq[r]) /\ (HasSlot(rq[r]) <=> rq[r].lease = "held") /\ ~Waits(rq[r])
  BY State DEF HasSlot, Waits
<1>2. CASE tried
  <2> DEFINE w == rq[r]
             x == [w EXCEPT !.pc = "book", !.k = 0, !.tried = FALSE]
  <2>1. rq' = [rq EXCEPT ![r] = x] /\ UNCHANGED <<active, link, tail>> /\ w \in RequestStates /\ w = rq[r] /\ Shape(w)
    BY <1>2, State DEF Over
  <2> HIDE DEF w
  <2>2. /\ x \in RequestStates /\ x.pc = "book" /\ x.lease = w.lease /\ x.n = w.n
        /\ x.abort = w.abort /\ x.todo = w.todo /\ w.n \in 0..2
    BY <2>1 DEF RequestStates
  <2> HIDE DEF x
  <2>3. Shape(x) /\ ~Waits(x) /\ (HasSlot(x) <=> HasSlot(w)) /\ MayBook(w) /\ rq[r].n <= x.n
    BY <2>1, <2>2, SMTT(60) DEF Shape, Waits, HasSlot, MayBook
  <2> QED
    BY <2>1, <2>2, <2>3, MoveKeeps
<1>3. CASE ~tried
  <2>1. Leaves(r) /\ Books(r)
    BY <1>1, <1>3 DEF Over, Released, Leaves, Books
  <2>2. CASE Aborted(r) \/ Last(r)
    <3>1. rq' = Done(r) /\ UNCHANGED <<link, tail>>
      BY <1>3, <2>2 DEF Over
    <3> QED
      BY <2>1, <3>1, EndKeeps
  <2>3. CASE ~(Aborted(r) \/ Last(r))
    <3> DEFINE freed == [rq EXCEPT ![r].lease = "released"]
    <3>1. Try(r, Tail(rq[r].todo), freed)
      BY <1>3, <2>3 DEF Over
    <3> QED
      BY <1>1, <2>1, <2>3, <3>1, Room, JoinKeeps
  <2> QED
    BY <2>2, <2>3
<1> QED
  BY <1>2, <1>3

\* No answer: the same candidate again, or the slot is given back and the next one queues.
LEMMA UnansweredKeeps ==
  ASSUME GatewayAssumption, GatewayIInv, NEW r \in Reqs, NEW tried \in BOOLEAN, Unanswered(r, tried)
  PROVE  GatewayIInv'
<1>1. rq[r].pc = "call" /\ UNCHANGED <<clock, recent, admitted, used>>
  BY DEF Unanswered
<1>2. CASE Spent(r)
  BY <1>1, <1>2, OverKeeps DEF Unanswered
<1>3. CASE ~Spent(r)
  <2> DEFINE w == rq[r]
             k == rq[r].k + 1
             x == [w EXCEPT !.k = k, !.tried = tried]
  <2>1. rq' = [rq EXCEPT ![r] = x] /\ UNCHANGED <<active, link, tail>> /\ w \in RequestStates /\ w = rq[r] /\ Shape(w)
    BY <1>3, State DEF Unanswered
  <2>2. k \in Nat
    BY <2>1, SMTT(60) DEF RequestStates
  <2> HIDE DEF w, k
  <2>3. /\ x \in RequestStates /\ x.pc = w.pc /\ x.lease = w.lease /\ x.n = w.n
        /\ x.abort = w.abort /\ x.todo = w.todo /\ w.n \in 0..2
    BY <2>1, <2>2 DEF RequestStates
  <2> HIDE DEF x
  <2>4. Shape(x) /\ ~Waits(x) /\ (HasSlot(x) <=> HasSlot(w)) /\ MayBook(w) /\ rq[r].n <= x.n
    BY <1>1, <2>1, <2>3, SMTT(60) DEF Shape, Waits, HasSlot, MayBook
  <2> QED
    BY <1>1, <2>1, <2>3, <2>4, MoveKeeps
<1> QED
  BY <1>2, <1>3

\* Usage is booked or not, the slot is given back, and a failed candidate is followed by the next.
LEMMA CompleteKeeps ==
  ASSUME GatewayAssumption, GatewayIInv, NEW r \in Reqs, Complete(r)
  PROVE  GatewayIInv'
<1>1. rq[r].pc \in {"book", "stream"} /\ UNCHANGED <<clock, recent, admitted>> /\ active' = Released(r)
  BY DEF Complete
<1>2. /\ rq[r] \in RequestStates /\ Shape(rq[r]) /\ (HasSlot(rq[r]) <=> rq[r].lease = "held")
      /\ ~Waits(rq[r]) /\ MayBook(rq[r]) /\ rq[r].pc # "done"
  BY <1>1, State DEF HasSlot, Waits, MayBook
<1>3. Leaves(r) /\ Books(r)
  BY <1>1, <1>2 DEF Complete, Booked, Released, Leaves, Books
<1>4. CASE rq' = Done(r) /\ UNCHANGED <<link, tail>>
  BY <1>1, <1>3, <1>4, EndKeeps
<1>5. CASE ~Last(r) /\ Try(r, Tail(rq[r].todo), [rq EXCEPT ![r].lease = "released"])
  BY <1>1, <1>2, <1>3, <1>5, Room, JoinKeeps
<1> QED
  BY <1>4, <1>5 DEF Complete

\* The client stops reading, or reads on: the slot stays as it is.
LEMMA StreamKeeps ==
  ASSUME GatewayAssumption, GatewayIInv, NEW r \in Reqs, Stalls(r) \/ Resumes(r)
  PROVE  GatewayIInv'
<1> DEFINE w == rq[r]
<1>1. PICK pc \in {"stream", "drain"} : rq' = [rq EXCEPT ![r].pc = pc]
  BY DEF Stalls, Resumes
<1> DEFINE x == [w EXCEPT !.pc = pc]
<1>2. w.pc \in {"stream", "drain"} /\ UNCHANGED <<clock, link, tail, active, recent, admitted, used>>
  BY DEF Stalls, Resumes
<1>3. rq' = [rq EXCEPT ![r] = x] /\ w \in RequestStates /\ w = rq[r] /\ Shape(w)
  BY <1>1, State
<1> HIDE DEF w
<1>4. /\ x \in RequestStates /\ x.pc = pc /\ x.lease = w.lease /\ x.n = w.n
      /\ x.abort = w.abort /\ x.todo = w.todo /\ w.n \in 0..2
  BY <1>1, <1>3 DEF RequestStates
<1> HIDE DEF x
<1>5. Shape(x) /\ ~Waits(x) /\ (HasSlot(x) <=> HasSlot(w)) /\ MayBook(w) /\ rq[r].n <= x.n
  BY <1>1, <1>2, <1>3, <1>4, SMTT(60) DEF Shape, Waits, HasSlot, MayBook
<1> QED
  BY <1>1, <1>2, <1>3, <1>4, <1>5, MoveKeeps

\* The signal is raised: a lease that listens gives its slot back in the same turn.
LEMMA SignalKeeps ==
  ASSUME GatewayAssumption, GatewayIInv, NEW r \in Reqs, rq[r].pc \notin {"idle", "done"}, Signal(r)
  PROVE  GatewayIInv'
<1> DEFINE w == rq[r]
           lease == IF rq[r].lease = "held" THEN "released" ELSE rq[r].lease
           x == [w EXCEPT !.abort = TRUE, !.lease = lease]
<1>1. rq[r].pc \notin {"idle", "done"} /\ UNCHANGED <<clock, link, tail, recent, admitted, used>> /\ active' = Released(r)
  BY DEF Signal
<1>2. rq' = [rq EXCEPT ![r] = x] /\ w \in RequestStates /\ w = rq[r] /\ Shape(w)
  BY State DEF Signal
<1>3. /\ lease \in {"none", "held", "released"} /\ lease # "held" /\ (lease # "none" <=> w.lease # "none")
      /\ (w.lease # "held" => lease = w.lease)
  BY <1>2 DEF RequestStates
<1>4. active' = IF w.lease = "held" THEN active - 1 ELSE active
  BY <1>1 DEF Released
<1> HIDE DEF w, lease
<1>5. /\ x \in RequestStates /\ x.pc = w.pc /\ x.lease = lease /\ x.n = w.n /\ x.at = w.at
      /\ x.abort = TRUE /\ x.todo = w.todo /\ w.n \in 0..2 /\ x.seen = w.seen
  BY <1>2, <1>3 DEF RequestStates
<1> HIDE DEF x
<1>6. /\ Shape(x) /\ (Waits(x) => Waits(w)) /\ (MayBook(x) => MayBook(w)) /\ w.pc # "done" /\ rq[r].n <= x.n
      /\ (w.lease = "held" => ~HasSlot(x) /\ HasSlot(w)) /\ (w.lease # "held" => (HasSlot(x) <=> HasSlot(w)))
  BY <1>1, <1>2, <1>3, <1>5, SMTT(60) DEF Shape, Waits, HasSlot, MayBook
<1>7. x.pc \in {"list", "check"} => Free(link, link[Call(r)].prev)
  BY <1>2, <1>5 DEF GatewayIInv, Chain, ChainOf, Call
<1> QED
  BY <1>1, <1>2, <1>4, <1>5, <1>6, <1>7, MoveKeeps

\* A promise in the chain resolves for the one behind it.
LEMMA PassOnKeeps ==
  ASSUME GatewayAssumption, GatewayIInv, NEW c \in Calls, PassOn(c)
  PROVE  GatewayIInv'
<1>1. UNCHANGED <<clock, active, recent, admitted, used, rq>>
  BY DEF PassOn
<1>2. Chain'
  BY ChainPassed DEF GatewayIInv
<1>3. Requests' /\ SlotsCounted' /\ RateKept' /\ QuotaKept'
  BY <1>1 DEF GatewayIInv, Requests, SlotsCounted, RateKept, QuotaKept, Slotted, Bookers, Leavers, Aborted, Minute
<1> QED
  BY <1>1, <1>2, <1>3 DEF GatewayIInv

\* Time passes.
LEMMA TickKeeps ==
  ASSUME GatewayAssumption, GatewayIInv, Tick
  PROVE  GatewayIInv'
<1>1. /\ UNCHANGED <<link, tail, active, recent, admitted, used, rq>> /\ clock' = clock + 1
      /\ clock \in Nat /\ clock' \in 0..MaxClock
  BY DEF Tick, GatewayIInv, GatewayAssumption
<1>2. Chain'
  BY <1>1, ChainTicks DEF GatewayIInv
<1>3. Requests' /\ SlotsCounted' /\ QuotaKept'
  BY <1>1 DEF GatewayIInv, Requests, SlotsCounted, QuotaKept, Slotted, Bookers, Leavers, Aborted
<1>4. RateKept'
  <2>1. \A a \in admitted : a.at \in Nat
    BY DEF GatewayIInv, RateKept, Entries
  <2>2. Window \in Nat
    BY Finite
  <2>3. \A a \in admitted : a.at <= clock
    BY DEF GatewayIInv, RateKept
  <2>4. \A a \in admitted \ recent : a.at <= clock - Window
    BY DEF GatewayIInv, RateKept
  <2>5. \A a \in admitted : a.at <= clock'
    BY <1>1, <2>1, <2>3
  <2>6. \A a \in admitted \ recent : a.at <= clock' - Window
    BY <1>1, <2>1, <2>2, <2>4
  <2> QED
    BY <1>1, <2>5, <2>6 DEF GatewayIInv, RateKept, Minute
<1> QED
  BY <1>1, <1>2, <1>3, <1>4 DEF GatewayIInv

-----------------------------------------------------------------------------
(* The invariant                                                            *)

\* It holds before the first request.
LEMMA InitHolds ==
  ASSUME GatewayAssumption, Init
  PROVE  GatewayIInv
<1>0. Nil \notin Calls
  BY DEF GatewayAssumption
<1>1. /\ Fresh \in RequestStates /\ Fresh.pc = "idle" /\ Fresh.lease = "none" /\ Fresh.n = 0 /\ Fresh.abort = FALSE
      /\ rq \in [Reqs -> RequestStates] /\ \A r \in Reqs : rq[r] = Fresh
  <2>1. Fresh \in RequestStates /\ Fresh.pc = "idle" /\ Fresh.lease = "none" /\ Fresh.n = 0 /\ Fresh.abort = FALSE
    BY EmptySeq DEF Fresh, RequestStates
  <2> QED
    BY <2>1 DEF Init
<1>2. /\ Shape(Fresh) /\ ~Waits(Fresh) /\ ~HasSlot(Fresh) /\ ~MayBook(Fresh)
      /\ Fresh.pc # "check" /\ Fresh.pc \notin {"list", "check"}
  BY <1>1 DEF Shape, Waits, HasSlot, MayBook
<1>3. Requests
  BY <1>1, <1>2 DEF Requests
<1>4. Chain
  <2> DEFINE x == [prev |-> Nil, open |-> FALSE]
  <2>1. x \in Links /\ ~x.open
    BY DEF Links
  <2>2. link = [c \in Calls |-> x] /\ tail = Nil /\ clock = 0
    BY DEF Init
  <2> HIDE DEF x
  <2>3. link \in [Calls -> Links] /\ \A c \in Calls : ~link[c].open
    BY <2>1, <2>2
  <2>4. LineOf(link, tail)
    BY <2>2, <2>3 DEF LineOf
  <2> DEFINE z == [c \in Calls |-> 0]
  <2>5. z \in [Calls -> Nat]
    OBVIOUS
  <2>6. Ordered(link, clock, z, z) /\ InLine(rq, z)
    BY <1>1, <1>2, <2>3 DEF Ordered, InLine
  <2> QED
    BY <1>1, <1>2, <2>3, <2>4, <2>5, <2>6 DEF Chain, ChainOf
<1>5. Slotted = {} /\ Bookers = {} /\ Leavers = {}
  BY <1>1, <1>2 DEF Slotted, Bookers, Leavers, Aborted
<1>6. Cardinality({}) = 0 /\ IsFiniteSet({})
  BY FS_EmptySet
<1>7. SlotsCounted
  BY <1>5, <1>6, Finite DEF SlotsCounted, Init
<1>8. RateKept
  <2>1. recent = {} /\ admitted = {}
    BY DEF Init
  <2>2. \A t \in Nat : Minute(t) = {}
    BY <2>1 DEF Minute
  <2> QED
    BY <1>6, <2>1, <2>2, Finite DEF RateKept
<1>9. QuotaKept
  <2>1. used = 0
    BY DEF Init
  <2> QED
    BY <1>1, <1>2, <1>5, <1>6, <2>1, Finite DEF QuotaKept
<1>10. clock \in 0..MaxClock
  BY DEF Init, GatewayAssumption
<1> QED
  BY <1>3, <1>4, <1>7, <1>8, <1>9, <1>10 DEF GatewayIInv

\* It survives a step that changes nothing.
LEMMA StutterHolds ==
  ASSUME GatewayIInv, UNCHANGED vars
  PROVE  GatewayIInv'
  BY DEF GatewayIInv, vars, Requests, Chain, SlotsCounted, RateKept, QuotaKept, Slotted, Bookers, Leavers, Aborted, Minute

\* It survives every step.
LEMMA NextHolds ==
  ASSUME GatewayAssumption, GatewayIInv, Next
  PROVE  GatewayIInv'
<1>1. ASSUME NEW r \in Reqs, Step(r)
      PROVE  GatewayIInv'
  BY <1>1, PrepareKeeps, AcquireKeeps, AbortWaitKeeps, ListUsageKeeps, CheckKeeps, RegisterKeeps,
     AnsweredKeeps, CompleteKeeps, UnansweredKeeps, OverKeeps DEF Step, AbortCall
<1>2. ASSUME NEW r \in Reqs, Arrive(r) \/ ListUsageFails(r) \/ Abort(r) \/ Stalls(r) \/ Resumes(r) \/ TimerFires(r)
      PROVE  GatewayIInv'
  BY <1>2, ArriveKeeps, ListUsageFailsKeeps, StreamKeeps, SignalKeeps DEF Abort, TimerFires
<1> QED
  BY <1>1, <1>2, PassOnKeeps, TickKeeps DEF Next

\* Its parts are what the runs check.
LEMMA Implied ==
  ASSUME GatewayAssumption, GatewayIInv
  PROVE  GatewayInv
<1>1. TypeOK
  <2>1. \A r \in Reqs : rq[r].lease \in {"none", "held", "released"}
    BY State DEF RequestStates
  <2>2. active \in 0..Slots
    BY Finite DEF GatewayIInv, SlotsCounted, Slotted
  <2>3. \A c \in Calls : link[c].open \in BOOLEAN /\ link[c].prev \in Calls \cup {Nil}
    BY DEF GatewayIInv, Chain, ChainOf, LineOf, Links
  <2>4. tail \in Calls \cup {Nil}
    BY DEF GatewayIInv, Chain, ChainOf, LineOf
  <2>5. recent \subseteq admitted /\ \A a \in admitted : a \in [call : Calls, at : Nat] /\ a.at <= clock
    BY DEF GatewayIInv, RateKept, Entries
  <2>6. admitted \subseteq [call : Calls, at : 0..clock]
    BY <2>5 DEF GatewayIInv, GatewayAssumption
  <2> QED
    BY <2>1, <2>2, <2>3, <2>4, <2>5, <2>6 DEF TypeOK, GatewayIInv, QuotaKept
<1>2. OneAdmission
  BY OneHolds DEF GatewayIInv
<1>3. SlotsConserved
  BY DEF SlotsConserved, GatewayIInv, SlotsCounted, Slotted, HasSlot
<1>4. RateHolds
  BY DEF RateHolds, GatewayIInv, GatewayAssumption, RateKept, Minute
<1>5. ChainInOrder
  BY DEF ChainInOrder, GatewayIInv, Chain, ChainOf, LineOf, Resolved, Free
<1>6. OvershootBounded
  <2>1. Cardinality(Bookers) \in Nat /\ Cardinality(Leavers) \in Nat /\ Slots \in Nat /\ Tokens \in Nat /\ used \in Nat
    BY Finite, State DEF Bookers, Leavers, GatewayIInv, QuotaKept
  <2>2. used + Cardinality(Bookers) <= Tokens + Slots + Cardinality(Leavers)
    BY DEF GatewayIInv, QuotaKept
  <2>3. used <= Tokens + Slots + Cardinality(Leavers)
    BY <2>1, <2>2
  <2> QED
    BY <2>3 DEF OvershootBounded, Leavers
<1> QED
  BY <1>1, <1>2, <1>3, <1>4, <1>5, <1>6 DEF GatewayInv

\* For any requests, limits and faults: the model proxy admits one request of a
\* device at a time and in order, loses no slot and gives none back twice, keeps
\* the rate of every minute, and passes the quota by no more than the calls in
\* flight (model-gateway.ts, withDeviceAdmissionLock and proxyModelRequest).
THEOREM GatewayIsSafe == ASSUME GatewayAssumption PROVE Spec => []GatewayInv
<1>1. Init => GatewayIInv
  BY InitHolds
<1>2. GatewayIInv /\ [Next]_vars => GatewayIInv'
  BY NextHolds, StutterHolds
<1>3. GatewayIInv => GatewayInv
  BY Implied
<1> QED
  BY <1>1, <1>2, <1>3, PTL DEF Spec
=============================================================================
