-------------------------- MODULE DevicePairingProofs --------------------------
(***************************************************************************)
(* Who may use the Cloud: devices, then accounts and their sessions.       *)
(* Device rows, pairing codes and what the requests were told, for any     *)
(* number of rows, accounts, requests and codes.  The invariant says what  *)
(* a request may rely on where it stands: the row it locked is unbound,    *)
(* the code it locked is open, the row it will write exists, and what it   *)
(* was told has come true.  Whatever one request does to the tables leaves *)
(* that true for the others: Later names what all writers respect.         *)
(***************************************************************************)
EXTENDS DevicePairing, Accounts, FiniteSetTheorems, TLAPS

Rows == [status : Statuses, print : Prints \cup {Nil}, user : Users \cup {Nil},
         token : 0..MaxTokens, group : Groups \cup {Nil}]

CodeRows == [state : {"unminted", "open", "consumed", "deleted"}, of : Ids \cup {Nil}, late : BOOLEAN]

RequestStates ==
  [op : Ops \cup {"none"},
   pc : {"idle", "lookup", "insert", "auth", "read", "write", "lock_row", "mint", "take_code", "bind", "done"},
   dev : Ids \cup {Nil}, token : 0..MaxTokens, code : 0..MaxCodes, user : Users \cup {Nil},
   print : Prints \cup {Nil}, patch : Snapshots, seen : Snapshots, late : BOOLEAN,
   out : {"none", "exists", "registered", "unauthorized", "bound", "not_found", "updated", "internal_error",
          "minted", "code_invalid", "code_expired", "paired", "device_revoked", "unavailable"}]

Touches == [pc : {"none", "read", "write"}, dev : Ids \cup {Nil}, seen : Snapshots]

Real(d) == d \in Ids /\ device[d].print # Nil

\* What request p, when it is q, may rely on: rows dv, codes ch, locks rl and cl, and
\* tk credentials issued.
StandsOn(q, p, dv, ch, rl, cl, tk) ==
  /\ q.pc \in {"lookup", "insert"} => q.print \in Prints
  /\ q.pc \in {"read", "lock_row", "mint"} => q.dev \in Ids
  /\ q.pc = "write" => q.dev \in Ids /\ dv[q.dev].print # Nil
  /\ q.pc = "mint" => rl[q.dev] = p /\ dv[q.dev].user = Nil
  /\ q.pc \in {"take_code", "bind"} => q.code \in Codes /\ q.user \in Users
  /\ q.pc = "bind" => cl[q.code] = p /\ ch[q.code].state = "open"
  /\ q.out = "paired" => /\ q.pc = "done" /\ q.dev \in Ids /\ q.user \in Users /\ dv[q.dev].user = q.user
                         /\ q.code \in Codes /\ ch[q.code].state = "consumed"
  /\ q.out = "registered" => q.pc = "done" /\ q.token \in 1..tk

Standing(q, p) == StandsOn(q, p, device, challenge, rowLock, codeLock, tokens)
StandingNext(q, p) == StandsOn(q, p, device', challenge', rowLock', codeLock', tokens')

\* The rows: credentials differ, and a rotated one never comes back.
DevicesInv ==
  /\ device \in [Ids -> Rows] /\ tokens \in 0..MaxTokens
  /\ \A d \in Ids : device[d] = NoRow \/ (device[d].print \in Prints /\ device[d].token \in 1..tokens)
  /\ \A d, e \in Ids : Real(d) /\ Real(e) /\ device[d].token = device[e].token => d = e
  /\ retired \subseteq 1..tokens /\ RotatedStaysDead

\* The codes: an open one is of a row without an owner, and the only one of its row.
CodesInv ==
  /\ challenge \in [Codes -> CodeRows]
  /\ \A c \in Codes : challenge[c].state = "open" => challenge[c].of \in Ids /\ device[challenge[c].of].user = Nil
  /\ \A c, e \in Codes :
       challenge[c].state = "open" /\ challenge[e].state = "open" /\ challenge[c].of = challenge[e].of => c = e

\* Locks and pending updates of last_seen_at are of requests and rows there are.
LocksInv ==
  /\ rowLock \in [Ids -> Reqs \cup {Nil}] /\ codeLock \in [Codes -> Reqs \cup {Nil}] /\ loggedOut \subseteq Ids
  /\ touch \in [Reqs -> Touches] /\ \A p \in Reqs : touch[p].pc # "none" => Real(touch[p].dev)

\* Each request stands on what it was told, and no two were paired by one code or to one row.
RequestsInv ==
  /\ req \in [Reqs -> RequestStates] /\ \A p \in Reqs : Standing(req[p], p)
  /\ \A p, q \in Reqs : p # q /\ req[p].out = "paired" /\ req[q].out = "paired" =>
       req[q].code # req[p].code /\ req[q].dev # req[p].dev
  /\ CredentialShownOnce

\* The inductive invariant.
PairingIInv == DevicesInv /\ CodesInv /\ LocksInv /\ RequestsInv

\* What every step of request p leaves the other requests.
Later(p) ==
  /\ \A d \in Ids : /\ Real(d) => device'[d].print # Nil
                    /\ device[d].user # Nil => device'[d].user = device[d].user
                    /\ rowLock[d] \notin {Nil, p} => rowLock'[d] = rowLock[d] /\ device'[d].user = device[d].user
  /\ \A c \in Codes : /\ challenge[c].state = "consumed" => challenge'[c].state = "consumed"
                      /\ codeLock[c] \notin {Nil, p} => /\ codeLock'[c] = codeLock[c]
                                                        /\ challenge[c].state = "open" => challenge'[c].state = "open"
  /\ 1..tokens \subseteq 1..tokens'

-----------------------------------------------------------------------------
(* What the requests rely on                                                *)

\* What a request stands on stays there when another one moves.
LEMMA OthersStand ==
  ASSUME DeviceAssumption, NEW p, Later(p), NEW r \in Reqs, r # p, NEW q \in RequestStates, Standing(q, r)
  PROVE  StandingNext(q, r)
<1>1. r # Nil /\ Nil \notin Users
  BY DEF DeviceAssumption
<1>2. q.pc = "write" => q.dev \in Ids /\ device'[q.dev].print # Nil
  BY DEF Standing, StandsOn, Later, Real
<1>3. q.pc = "mint" => q.dev \in Ids /\ rowLock'[q.dev] = r /\ device'[q.dev].user = Nil
  BY <1>1 DEF Standing, StandsOn, Later
<1>4. q.pc = "bind" => codeLock'[q.code] = r /\ challenge'[q.code].state = "open"
  BY <1>1 DEF Standing, StandsOn, Later
<1>5. q.out = "paired" => device'[q.dev].user = q.user /\ challenge'[q.code].state = "consumed"
  BY <1>1 DEF Standing, StandsOn, Later
<1>6. q.out = "registered" => q.token \in 1..tokens'
  BY DEF Standing, StandsOn, Later
<1> QED
  BY <1>2, <1>3, <1>4, <1>5, <1>6 DEF Standing, StandingNext, StandsOn

\* A request moves to where it may stand; the others stay where they are.
LEMMA RequestMoves ==
  ASSUME DeviceAssumption, RequestsInv, NEW p \in Reqs, NEW x \in RequestStates, req' = [req EXCEPT ![p] = x],
         Later(p), StandingNext(x, p),
         \A r \in Reqs \ {p} : x.out = "paired" /\ req[r].out = "paired" => req[r].code # x.code /\ req[r].dev # x.dev,
         \A r \in Reqs \ {p} : x.out = "registered" /\ req[r].out = "registered" => req[r].token # x.token
  PROVE  RequestsInv'
<1>1. req' \in [Reqs -> RequestStates] /\ req'[p] = x /\ \A r \in Reqs \ {p} : req'[r] = req[r]
  BY DEF RequestsInv
<1>2. \A r \in Reqs \ {p} : req[r] \in RequestStates /\ Standing(req[r], r)
  BY DEF RequestsInv
<1>3. \A r \in Reqs \ {p} : StandingNext(req[r], r)
  BY <1>2, OthersStand
<1>4. \A r \in Reqs : StandingNext(req'[r], r)
  BY <1>1, <1>3
<1>5. (\A r, q \in Reqs : r # q /\ req[r].out = "paired" /\ req[q].out = "paired" =>
         req[q].code # req[r].code /\ req[q].dev # req[r].dev)'
  BY <1>1 DEF RequestsInv
<1>6. CredentialShownOnce'
  BY <1>1 DEF RequestsInv, CredentialShownOnce
<1> QED
  BY <1>1, <1>4, <1>5, <1>6 DEF RequestsInv, StandingNext, Standing

\* The requests stay where they are.
LEMMA RequestsStand ==
  ASSUME DeviceAssumption, RequestsInv, req' = req, Later(Nil)
  PROVE  RequestsInv'
<1>1. \A r \in Reqs : r # Nil
  BY DEF DeviceAssumption
<1>2. \A r \in Reqs : StandingNext(req[r], r)
  BY <1>1, OthersStand DEF RequestsInv
<1> QED
  BY <1>2 DEF RequestsInv, StandingNext, Standing, CredentialShownOnce

-----------------------------------------------------------------------------
(* What happens to the rows                                                 *)

\* Nothing happens to what other requests rely on.
LEMMA SameTables ==
  ASSUME NEW p, PairingIInv, UNCHANGED <<device, challenge, tokens>>,
         \A d \in Ids : rowLock[d] \notin {Nil, p} => rowLock'[d] = rowLock[d],
         \A c \in Codes : codeLock[c] \notin {Nil, p} => codeLock'[c] = codeLock[c]
  PROVE  Later(p)
  BY DEF Later, Real

\* A real row gets other columns, but keeps its credential or gets a new one.
LEMMA RowWritten ==
  ASSUME DeviceAssumption, DevicesInv, NEW d, Real(d), NEW y \in Rows, device' = [device EXCEPT ![d] = y],
         y.print = device[d].print,
         \/ y.token = device[d].token /\ tokens' = tokens /\ retired' = retired
         \/ /\ y.token = tokens + 1 /\ tokens' = tokens + 1 /\ tokens + 1 <= MaxTokens
            /\ retired' = retired \cup {device[d].token}
  PROVE  DevicesInv'
<1>1. d \in Ids /\ device[d].print \in Prints /\ device[d].token \in 1..tokens /\ y.print # Nil
  BY DEF Real, DevicesInv, NoRow
<1>2. device' \in [Ids -> Rows] /\ device'[d] = y /\ \A e \in Ids \ {d} : device'[e] = device[e]
  BY <1>1 DEF DevicesInv
<1>3. tokens \in 0..MaxTokens /\ MaxTokens \in Nat /\ tokens \in Nat
  BY DEF DevicesInv, DeviceAssumption
<1>4. NoRow.print = Nil /\ NoRow.token = 0
  BY DEF NoRow
<1>5. \A e \in Ids : (~Real(e) => device[e] = NoRow) /\ (Real(e) => device[e].token \in 1..tokens)
  BY <1>4 DEF DevicesInv, Real, DeviceAssumption
<1>6. \A e \in Ids : Real(e)' <=> Real(e)
  BY <1>1, <1>2 DEF Real
<1>7. CASE y.token = device[d].token /\ tokens' = tokens /\ retired' = retired
  <2>1. \A e \in Ids : device'[e].token = device[e].token
    BY <1>2, <1>7
  <2>2. \A e \in Ids : device'[e] = NoRow \/ (device'[e].print \in Prints /\ device'[e].token \in 1..tokens')
    BY <1>1, <1>2, <1>7 DEF DevicesInv
  <2>3. \A e, f \in Ids : Real(e)' /\ Real(f)' /\ device'[e].token = device'[f].token => e = f
    BY <1>6, <2>1 DEF DevicesInv
  <2>4. RotatedStaysDead'
    BY <1>7, <2>1 DEF DevicesInv, RotatedStaysDead
  <2> QED
    BY <1>2, <1>7, <2>2, <2>3, <2>4 DEF DevicesInv
<1>8. CASE /\ y.token = tokens + 1 /\ tokens' = tokens + 1 /\ tokens + 1 <= MaxTokens
           /\ retired' = retired \cup {device[d].token}
  <2>1. tokens' \in 0..MaxTokens /\ y.token \in 1..tokens' /\ \A t \in 1..tokens : t \in 1..tokens' /\ t # y.token
    BY <1>3, <1>8
  <2>2. \A e \in Ids : device'[e] = NoRow \/ (device'[e].print \in Prints /\ device'[e].token \in 1..tokens')
    BY <1>1, <1>2, <1>8, <2>1 DEF DevicesInv
  <2>3. \A e, f \in Ids : Real(e)' /\ Real(f)' /\ device'[e].token = device'[f].token => e = f
    <3> SUFFICES ASSUME NEW e \in Ids, NEW f \in Ids, Real(e), Real(f), e # f PROVE device'[e].token # device'[f].token
      BY <1>6
    <3>1. device[e].token \in 1..tokens /\ device[f].token \in 1..tokens /\ device[e].token # device[f].token
      BY <1>5 DEF DevicesInv
    <3> QED
      BY <1>2, <2>1, <3>1
  <2>4. retired' \subseteq 1..tokens'
    BY <1>1, <1>8, <2>1 DEF DevicesInv
  <2>5. \A e \in Ids : device'[e].token \notin retired'
    <3> SUFFICES ASSUME NEW e \in Ids PROVE device'[e].token \notin retired'
      OBVIOUS
    <3>1. CASE e = d
      <4>1. y.token \notin retired /\ y.token # device[d].token
        BY <1>1, <2>1 DEF DevicesInv
      <4> QED
        BY <1>2, <1>8, <3>1, <4>1
    <3>2. CASE e # d /\ Real(e)
      BY <1>1, <1>2, <1>8, <3>2 DEF DevicesInv, RotatedStaysDead, Real
    <3>3. CASE e # d /\ ~Real(e)
      <4>1. device'[e].token = 0 /\ 0 \notin retired /\ 0 # device[d].token
        BY <1>1, <1>2, <1>4, <1>5, <3>3 DEF DevicesInv
      <4> QED
        BY <1>8, <4>1
    <3> QED
      BY <3>1, <3>2, <3>3
  <2> QED
    BY <1>2, <2>1, <2>2, <2>3, <2>4, <2>5 DEF DevicesInv, RotatedStaysDead
<1> QED
  BY <1>7, <1>8

-----------------------------------------------------------------------------
(* Steps that change the requests alone                                     *)

Told == {"paired", "registered"}
Outs == {"none", "exists", "registered", "unauthorized", "bound", "not_found", "updated", "internal_error",
         "minted", "code_invalid", "code_expired", "paired", "device_revoked", "unavailable"}

\* The rows and codes as they are satisfy their part of the invariant.
LEMMA TablesStay ==
  ASSUME PairingIInv, UNCHANGED <<device, challenge, tokens, retired>>
  PROVE  DevicesInv' /\ CodesInv'
  BY DEF PairingIInv, DevicesInv, CodesInv, Real, RotatedStaysDead

\* Rows and locks as they are.
LEMMA LocksStay ==
  ASSUME PairingIInv, UNCHANGED <<device, rowLock, codeLock, touch, loggedOut>>
  PROVE  LocksInv'
  BY DEF PairingIInv, LocksInv, Real

\* A request that was told nothing about credentials or ownership.
LEMMA Moves ==
  ASSUME DeviceAssumption, PairingIInv, NEW p \in Reqs, NEW x \in RequestStates, req' = [req EXCEPT ![p] = x],
         Later(p), StandingNext(x, p), x.out \notin Told
  PROVE  RequestsInv'
  BY RequestMoves DEF PairingIInv, Told

\* The same, and nothing else changes.
LEMMA MovesAlone ==
  ASSUME DeviceAssumption, PairingIInv, NEW p \in Reqs, NEW x \in RequestStates, req' = [req EXCEPT ![p] = x],
         Standing(x, p), x.out \notin Told,
         UNCHANGED <<device, challenge, rowLock, codeLock, touch, tokens, retired, loggedOut>>
  PROVE  PairingIInv'
<1>1. Later(p)
  BY SameTables
<1>2. StandingNext(x, p)
  BY DEF Standing, StandingNext
<1> QED
  BY <1>1, <1>2, Moves, TablesStay, LocksStay DEF PairingIInv

\* A request is answered.
LEMMA Answers ==
  ASSUME DeviceAssumption, PairingIInv, NEW p \in Reqs, NEW what \in Outs \ Told, Answer(p, what)
  PROVE  \E x \in RequestStates : req' = [req EXCEPT ![p] = x] /\ x.pc = "done" /\ x.out = what /\ x.out \notin Told
<1> DEFINE w == req[p]
           x == [w EXCEPT !.pc = "done", !.out = what, !.patch = NoSnapshot, !.seen = NoSnapshot, !.late = FALSE]
<1>1. req' = [req EXCEPT ![p] = x] /\ w \in RequestStates
  BY DEF Answer, Answered, PairingIInv, RequestsInv
<1>2. NoSnapshot \in Snapshots
  BY DEF NoSnapshot, Snapshots, Statuses, DeviceAssumption
<1> HIDE DEF w
<1>3. x \in RequestStates
  BY <1>1, <1>2, ZenonT(60) DEF RequestStates, Outs
<1>4. x.pc = "done" /\ x.out = what
  BY <1>1 DEF RequestStates
<1> QED
  BY <1>1, <1>3, <1>4

\* An answer that claims nothing needs nothing to stand on.
LEMMA DoneStands ==
  ASSUME NEW p, NEW x, x.pc = "done", x.out \notin Told
  PROVE  Standing(x, p) /\ StandingNext(x, p)
  BY DEF Standing, StandingNext, StandsOn, Told

\* A request is answered and nothing else happens.
LEMMA AnswersAlone ==
  ASSUME DeviceAssumption, PairingIInv, NEW p \in Reqs, NEW what \in Outs \ Told, Answer(p, what),
         UNCHANGED <<device, challenge, rowLock, codeLock, touch, tokens, retired, loggedOut>>
  PROVE  PairingIInv'
<1>1. PICK x \in RequestStates : req' = [req EXCEPT ![p] = x] /\ x.pc = "done" /\ x.out = what /\ x.out \notin Told
  BY Answers
<1> QED
  BY <1>1, DoneStands, MovesAlone

\* A request goes on to another place, with what it has.
LEMMA Goes ==
  ASSUME PairingIInv, NEW p \in Reqs, NEW where \in {"insert", "mint", "bind"}, Go(p, where)
  PROVE  \E x \in RequestStates : /\ req' = [req EXCEPT ![p] = x] /\ x.pc = where /\ x.out = req[p].out
                                  /\ x.print = req[p].print /\ x.dev = req[p].dev /\ x.code = req[p].code
                                  /\ x.user = req[p].user
<1> DEFINE w == req[p]
           x == [w EXCEPT !.pc = where]
<1>1. req' = [req EXCEPT ![p] = x] /\ w \in RequestStates /\ w = req[p]
  BY DEF Go, PairingIInv, RequestsInv
<1> HIDE DEF w
<1>2. /\ x \in RequestStates /\ x.pc = where /\ x.out = w.out /\ x.print = w.print /\ x.dev = w.dev
      /\ x.code = w.code /\ x.user = w.user
  BY <1>1 DEF RequestStates
<1> QED
  BY <1>1, <1>2

\* Who is not done has been told nothing.
LEMMA NotTold ==
  ASSUME PairingIInv, NEW p \in Reqs
  PROVE  /\ req[p] \in RequestStates /\ Standing(req[p], p)
         /\ req[p].pc # "done" => req[p].out \notin Told
  BY DEF PairingIInv, RequestsInv, Standing, StandsOn, Told

\* A request arrives with an identity, a fingerprint or a code, and holds nothing yet.
LEMMA ArriveKeeps ==
  ASSUME DeviceAssumption, PairingIInv, NEW p \in Reqs, Arrive(p)
  PROVE  PairingIInv'
<1>0. UNCHANGED <<device, challenge, rowLock, codeLock, touch, tokens, retired, loggedOut>>
  BY DEF Arrive
<1>1. /\ NoSnapshot \in Snapshots /\ Idle.patch = NoSnapshot /\ Idle \in RequestStates
      /\ MaxTokens \in Nat /\ MaxCodes \in Nat /\ tokens \in 0..MaxTokens
  <2>1. NoSnapshot \in Snapshots
    BY DEF NoSnapshot, Snapshots, Statuses, DeviceAssumption
  <2>2. MaxTokens \in Nat /\ MaxCodes \in Nat /\ tokens \in 0..MaxTokens
    BY DEF DeviceAssumption, PairingIInv, DevicesInv
  <2> HIDE DEF NoSnapshot
  <2> QED
    BY <2>1, <2>2 DEF Idle, RequestStates
<1>2. Idle.out = "none" /\ "none" \notin Told
  BY DEF Idle, Told
<1> DEFINE z == Idle
<1>3. z \in RequestStates /\ z.out = "none" /\ z.patch = NoSnapshot /\ z = Idle
  BY <1>1, <1>2
<1> HIDE DEF z
<1>4. ASSUME NEW f \in Prints,
             req' = [req EXCEPT ![p] = [Idle EXCEPT !.op = "register", !.pc = "lookup", !.print = f]]
      PROVE  PairingIInv'
  <2> DEFINE x == [z EXCEPT !.op = "register", !.pc = "lookup", !.print = f]
  <2>1. x \in RequestStates /\ x.pc = "lookup" /\ x.print = f /\ x.out = "none"
    <3>1. x \in RequestStates
      BY <1>3, ZenonT(60) DEF RequestStates, Ops
    <3>2. x.pc = "lookup" /\ x.print = f /\ x.out = "none"
      BY <1>3 DEF RequestStates
    <3> QED
      BY <3>1, <3>2
  <2>2. req' = [req EXCEPT ![p] = x]
    BY <1>3, <1>4
  <2> HIDE DEF x
  <2>3. Standing(x, p)
    BY <2>1 DEF Standing, StandsOn
  <2> QED
    BY <1>0, <1>2, <2>1, <2>2, <2>3, MovesAlone
<1>5. ASSUME NEW op \in {"challenge", "revoke"}, NEW t \in 1..tokens,
             req' = [req EXCEPT ![p] = [Idle EXCEPT !.op = op, !.pc = "auth", !.token = t]]
      PROVE  PairingIInv'
  <2> DEFINE x == [z EXCEPT !.op = op, !.pc = "auth", !.token = t]
  <2>0. t \in 0..MaxTokens /\ op \in Ops
    BY <1>1 DEF Ops
  <2>1. x \in RequestStates /\ x.pc = "auth" /\ x.out = "none"
    <3>1. x \in RequestStates
      BY <1>3, <2>0, ZenonT(60) DEF RequestStates
    <3>2. x.pc = "auth" /\ x.out = "none"
      BY <1>3 DEF RequestStates
    <3> QED
      BY <3>1, <3>2
  <2>2. req' = [req EXCEPT ![p] = x]
    BY <1>3, <1>5
  <2> HIDE DEF x
  <2>3. Standing(x, p)
    BY <2>1 DEF Standing, StandsOn
  <2> QED
    BY <1>0, <1>2, <2>1, <2>2, <2>3, MovesAlone
<1>6. ASSUME NEW c \in Codes, NEW u \in Users, NEW late, late \in BOOLEAN,
             req' = [req EXCEPT ![p] = [Idle EXCEPT !.op = "pair", !.pc = "take_code", !.code = c, !.user = u, !.late = late]]
      PROVE  PairingIInv'
  <2> DEFINE x == [z EXCEPT !.op = "pair", !.pc = "take_code", !.code = c, !.user = u, !.late = late]
  <2>0. c \in 0..MaxCodes /\ "pair" \in Ops
    BY <1>1 DEF Codes, Ops
  <2>1. x \in RequestStates /\ x.pc = "take_code" /\ x.out = "none" /\ x.code = c /\ x.user = u
    <3>1. x \in RequestStates
      BY <1>3, <1>6, <2>0, ZenonT(60) DEF RequestStates
    <3>2. x.pc = "take_code" /\ x.out = "none" /\ x.code = c /\ x.user = u
      BY <1>3, <1>6 DEF RequestStates
    <3> QED
      BY <3>1, <3>2
  <2>2. req' = [req EXCEPT ![p] = x]
    BY <1>3, <1>6
  <2> HIDE DEF x
  <2>3. Standing(x, p)
    BY <2>1 DEF Standing, StandsOn
  <2> QED
    BY <1>0, <1>2, <2>1, <2>2, <2>3, MovesAlone
<1>7. ASSUME NEW d \in Ids, NEW s \in {"active", "revoked", "none"}, NEW g \in Groups \cup {Nil},
             req' = [req EXCEPT ![p] = [Idle EXCEPT !.op = "admin", !.pc = "read", !.dev = d,
                                                    !.patch.status = s, !.patch.group = g]]
      PROVE  PairingIInv'
  <2> DEFINE n == NoSnapshot
             m == [n EXCEPT !.status = s, !.group = g]
             x == [z EXCEPT !.op = "admin", !.pc = "read", !.dev = d, !.patch = m]
  <2>0. n \in Snapshots /\ n = NoSnapshot /\ "admin" \in Ops
    BY <1>1 DEF Ops
  <2>1. req' = [req EXCEPT ![p] = x]
    BY <1>3, <1>7, ZenonT(60) DEF RequestStates
  <2> HIDE DEF n
  <2>2. m \in Snapshots
    BY <2>0 DEF Snapshots, Statuses
  <2> HIDE DEF m
  <2>3. x \in RequestStates /\ x.pc = "read" /\ x.out = "none" /\ x.dev = d
    <3>1. x \in RequestStates
      BY <1>3, <2>0, <2>2, ZenonT(60) DEF RequestStates
    <3>2. x.pc = "read" /\ x.out = "none" /\ x.dev = d
      BY <1>3 DEF RequestStates
    <3> QED
      BY <3>1, <3>2
  <2> HIDE DEF x
  <2>4. Standing(x, p)
    BY <2>3 DEF Standing, StandsOn
  <2> QED
    BY <1>0, <1>2, <2>1, <2>3, <2>4, MovesAlone
<1>8. ASSUME NEW d \in Ids, req' = [req EXCEPT ![p] = [Idle EXCEPT !.op = "rotate", !.pc = "read", !.dev = d]]
      PROVE  PairingIInv'
  <2> DEFINE x == [z EXCEPT !.op = "rotate", !.pc = "read", !.dev = d]
  <2>1. x \in RequestStates /\ x.pc = "read" /\ x.out = "none" /\ x.dev = d
    <3>1. x \in RequestStates
      BY <1>3, ZenonT(60) DEF RequestStates, Ops
    <3>2. x.pc = "read" /\ x.out = "none" /\ x.dev = d
      BY <1>3 DEF RequestStates
    <3> QED
      BY <3>1, <3>2
  <2>2. req' = [req EXCEPT ![p] = x]
    BY <1>3, <1>8
  <2> HIDE DEF x
  <2>3. Standing(x, p)
    BY <2>1 DEF Standing, StandsOn
  <2> QED
    BY <1>0, <1>2, <2>1, <2>2, <2>3, MovesAlone
<1>9. \A c \in Codes : challenge[c].late \in BOOLEAN
  BY DEF PairingIInv, CodesInv, CodeRows
<1>10. PICK op \in Askable :
       \/ /\ op = "register"
          /\ \E f \in Prints : req' = [req EXCEPT ![p] = [Idle EXCEPT !.op = op, !.pc = "lookup", !.print = f]]
       \/ /\ op \in {"challenge", "revoke"}
          /\ \E t \in 1..tokens : req' = [req EXCEPT ![p] = [Idle EXCEPT !.op = op, !.pc = "auth", !.token = t]]
       \/ /\ op = "pair"
          /\ \E c \in Codes, u \in Users :
               /\ challenge[c].state # "unminted"
               /\ req' = [req EXCEPT ![p] = [Idle EXCEPT !.op = op, !.pc = "take_code", !.code = c, !.user = u,
                                                         !.late = challenge[c].late]]
       \/ /\ op = "admin"
          /\ \E d \in Ids, s \in {"active", "revoked", "none"}, g \in Groups \cup {Nil} :
               req' = [req EXCEPT ![p] = [Idle EXCEPT !.op = op, !.pc = "read", !.dev = d,
                                                      !.patch.status = s, !.patch.group = g]]
       \/ /\ op = "rotate"
          /\ \E d \in Ids : req' = [req EXCEPT ![p] = [Idle EXCEPT !.op = op, !.pc = "read", !.dev = d]]
  BY ZenonT(60) DEF Arrive
<1>11. CASE op = "register"
  BY <1>4, <1>10, <1>11
<1>12. CASE op \in {"challenge", "revoke"}
  BY <1>5, <1>10, <1>12
<1>13. CASE op = "pair"
  BY <1>6, <1>9, <1>10, <1>13, ZenonT(60)
<1>14. CASE op = "admin"
  BY <1>7, <1>10, <1>14, ZenonT(60)
<1>15. CASE op = "rotate"
  BY <1>8, <1>10, <1>15
<1> QED
  BY <1>10, <1>11, <1>12, <1>13, <1>14, <1>15

-----------------------------------------------------------------------------
(* Registration, authentication and the writes of a row                     *)

\* A registration looks for an active row of its fingerprint.
LEMMA LookupKeeps ==
  ASSUME DeviceAssumption, PairingIInv, NEW p \in Reqs, Lookup(p)
  PROVE  PairingIInv'
<1>0. At(p, "lookup") /\ UNCHANGED <<device, challenge, rowLock, codeLock, touch, tokens, retired, loggedOut>>
  BY DEF Lookup
<1>1. CASE Answer(p, "exists")
  BY <1>0, <1>1, AnswersAlone DEF Outs, Told
<1>2. CASE Go(p, "insert")
  <2>1. PICK x \in RequestStates : req' = [req EXCEPT ![p] = x] /\ x.pc = "insert" /\ x.out = req[p].out /\ x.print = req[p].print
    BY <1>2, Goes
  <2>2. req[p].print \in Prints /\ x.out \notin Told
    BY <1>0, <2>1, NotTold DEF Standing, StandsOn, At
  <2>3. Standing(x, p)
    BY <2>1, <2>2 DEF Standing, StandsOn, Told
  <2> QED
    BY <1>0, <2>1, <2>2, <2>3, MovesAlone
<1> QED
  BY <1>1, <1>2 DEF Lookup

\* The INSERT of a new row, or the unique index refuses it.
LEMMA InsertKeeps ==
  ASSUME DeviceAssumption, PairingIInv, NEW p \in Reqs, Insert(p)
  PROVE  PairingIInv'
<1>0. At(p, "insert") /\ UNCHANGED <<challenge, rowLock, codeLock, touch, retired, loggedOut>>
  BY DEF Insert
<1>1. CASE Answer(p, "exists") /\ UNCHANGED <<device, tokens>>
  BY <1>0, <1>1, AnswersAlone DEF Outs, Told
<1>2. ASSUME tokens < MaxTokens, tokens' = tokens + 1, NEW d \in FreeRow,
             device' = [device EXCEPT ![d] = NewRow(req[p].print, tokens + 1)],
             req' = [req EXCEPT ![p].pc = "done", ![p].out = "registered", ![p].dev = d, ![p].token = tokens + 1]
      PROVE  PairingIInv'
  <2> DEFINE w == req[p]
             t == tokens + 1
             x == [w EXCEPT !.pc = "done", !.out = "registered", !.dev = d, !.token = t]
             f == req[p].print
             n == NoRow
             y == [n EXCEPT !.status = "active", !.print = f, !.token = t]
  <2>1. w \in RequestStates /\ f \in Prints /\ d \in Ids /\ device[d] = NoRow /\ ~Real(d)
    BY <1>0, NotTold DEF Standing, StandsOn, At, FreeRow, Real, NoRow
  <2>2. /\ tokens \in 0..MaxTokens /\ MaxTokens \in Nat /\ t \in 0..MaxTokens /\ t \in 1..tokens'
        /\ \A i \in 1..tokens : i \in 1..tokens' /\ i # t
    BY <1>2 DEF PairingIInv, DevicesInv, DeviceAssumption
  <2>3. req' = [req EXCEPT ![p] = x] /\ device' = [device EXCEPT ![d] = y]
    BY <1>2 DEF NewRow, PairingIInv, RequestsInv
  <2>4. n \in Rows /\ n.user = Nil /\ n.token = 0 /\ n.print = Nil /\ n = NoRow
    BY <2>2 DEF NoRow, Rows, Statuses
  <2> HIDE DEF w, t, f, n
  <2>5. y \in Rows
    BY <2>1, <2>2, <2>4 DEF Rows, Statuses
  <2>6. y.print = f /\ y.token = t /\ y.user = Nil
    BY <2>4 DEF Rows
  <2>7. x \in RequestStates
    BY <2>1, <2>2, ZenonT(60) DEF RequestStates
  <2>8. x.pc = "done" /\ x.out = "registered" /\ x.token = t
    BY <2>1 DEF RequestStates
  <2> HIDE DEF x, y
  <2>9. device' \in [Ids -> Rows] /\ device'[d] = y /\ \A e \in Ids \ {d} : device'[e] = device[e]
    BY <2>1, <2>3, <2>5 DEF PairingIInv, DevicesInv
  <2>10. f # Nil /\ (\A e \in Ids : Real(e) => e # d /\ device[e].token \in 1..tokens) /\ \A e \in Ids : ~Real(e) => device[e].token = 0
    BY <2>1, <2>4 DEF PairingIInv, DevicesInv, DeviceAssumption, Real
  <2>11. DevicesInv'
    <3>1. tokens' \in 0..MaxTokens
      BY <1>2, <2>2
    <3>2. \A e \in Ids : device'[e] = NoRow \/ (device'[e].print \in Prints /\ device'[e].token \in 1..tokens')
      BY <2>1, <2>2, <2>6, <2>9 DEF PairingIInv, DevicesInv
    <3>3. \A e \in Ids \ {d} : Real(e)' <=> Real(e)
      BY <2>9 DEF Real
    <3>4. \A e, g \in Ids : Real(e)' /\ Real(g)' /\ device'[e].token = device'[g].token => e = g
      BY <2>2, <2>6, <2>9, <2>10, <3>3 DEF PairingIInv, DevicesInv
    <3>5. retired' \subseteq 1..tokens' /\ \A e \in Ids : device'[e].token \notin retired'
      BY <1>0, <2>2, <2>6, <2>9 DEF PairingIInv, DevicesInv, RotatedStaysDead
    <3> QED
      BY <2>9, <3>1, <3>2, <3>4, <3>5 DEF DevicesInv, RotatedStaysDead
  <2>12. CodesInv'
    <3>1. \A e \in Ids : device'[e].user = device[e].user
      BY <2>1, <2>4, <2>6, <2>9
    <3> QED
      BY <1>0, <3>1 DEF PairingIInv, CodesInv
  <2>13. LocksInv'
    BY <1>0, <2>6, <2>9, <2>10 DEF PairingIInv, LocksInv, Real
  <2>14. Later(p)
    BY <1>0, <2>1, <2>2, <2>4, <2>6, <2>9, <2>10 DEF Later, Real
  <2>15. StandingNext(x, p)
    BY <2>2, <2>8 DEF StandingNext, StandsOn
  <2>16. \A r \in Reqs \ {p} : req[r].out = "registered" => req[r].token # x.token
    BY <2>2, <2>8, NotTold DEF Standing, StandsOn
  <2>17. RequestsInv'
    BY <2>3, <2>7, <2>8, <2>14, <2>15, <2>16, RequestMoves DEF PairingIInv
  <2> QED
    BY <2>11, <2>12, <2>13, <2>17 DEF PairingIInv
<1> QED
  BY <1>1, <1>2 DEF Insert

\* What updateDeviceOperations writes: the row's own account and fingerprint stay.
LEMMA Written ==
  ASSUME DevicesInv, NEW d, Real(d), NEW seen \in Snapshots, NEW patch \in Snapshots, WriteBack(d, seen, patch)
  PROVE  \E y \in Rows : /\ device' = [device EXCEPT ![d] = y] /\ y.print = device[d].print /\ y.user = device[d].user
                         /\ patch.token = 0 => y.token = device[d].token
                         /\ patch.token # 0 => y.token = patch.token
<1> DEFINE w == device[d]
           s == IF patch.status = "none" THEN seen.status ELSE patch.status
           g == IF patch.group = Nil THEN seen.group ELSE patch.group
           t == IF patch.token = 0 THEN w.token ELSE patch.token
           y == [w EXCEPT !.status = s, !.group = g, !.token = t]
<1>1. d \in Ids /\ w \in Rows /\ w = device[d]
  BY DEF DevicesInv, Real
<1>2. s \in Statuses /\ g \in Groups \cup {Nil} /\ t \in 0..MaxTokens
  <2>1. /\ seen.status \in Statuses /\ patch.status \in Statuses /\ seen.group \in Groups \cup {Nil}
        /\ patch.group \in Groups \cup {Nil} /\ patch.token \in 0..MaxTokens
    BY DEF Snapshots
  <2>2. w.token \in 0..MaxTokens
    BY <1>1 DEF Rows
  <2> QED
    BY <2>1, <2>2
<1>3. device' = [device EXCEPT ![d] = y]
  BY <1>1 DEF WriteBack, DevicesInv
<1>4. (patch.token = 0 => t = w.token) /\ (patch.token # 0 => t = patch.token)
  OBVIOUS
<1> HIDE DEF w, s, g, t
<1>5. y \in Rows
  BY <1>1, <1>2 DEF Rows
<1>6. y.print = w.print /\ y.user = w.user /\ y.token = t
  BY <1>1 DEF Rows
<1> QED
  BY <1>1, <1>3, <1>4, <1>5, <1>6

\* A write-back leaves what everybody relies on.
LEMMA RowLater ==
  ASSUME DeviceAssumption, PairingIInv, NEW p, NEW d, Real(d), NEW y \in Rows, device' = [device EXCEPT ![d] = y],
         y.print = device[d].print, y.user = device[d].user,
         UNCHANGED <<challenge, rowLock, codeLock>>, 1..tokens \subseteq 1..tokens'
  PROVE  Later(p) /\ CodesInv' /\ (\A e \in Ids : Real(e) => Real(e)')
<1>1. \A e \in Ids : device'[e].print = device[e].print /\ device'[e].user = device[e].user
  BY DEF PairingIInv, DevicesInv, Real
<1>2. Later(p)
  BY <1>1 DEF Later, Real
<1>3. CodesInv'
  BY <1>1, SMTT(60) DEF PairingIInv, CodesInv
<1> QED
  BY <1>1, <1>2, <1>3 DEF Real

\* A token is looked up: who is let in names the row it belongs to.
LEMMA AuthenticateKeeps ==
  ASSUME DeviceAssumption, PairingIInv, NEW p \in Reqs, Authenticate(p)
  PROVE  PairingIInv'
<1>0. At(p, "auth") /\ UNCHANGED <<device, challenge, rowLock, codeLock, tokens, retired, loggedOut>>
  BY DEF Authenticate
<1>1. CASE Answer(p, "unauthorized") /\ UNCHANGED touch
  BY <1>0, <1>1, AnswersAlone DEF Outs, Told
<1>2. ASSUME NEW d \in Owner(req[p].token),
             touch' = [touch EXCEPT ![p] = [pc |-> "read", dev |-> d, seen |-> NoSnapshot]],
             NEW where \in {"read", "done", "lock_row"}, NEW what \in {"none", "bound"}, NEW s \in {"none", "revoked"},
             req' = [req EXCEPT ![p].dev = d, ![p].pc = where, ![p].out = what, ![p].patch.status = s]
      PROVE  PairingIInv'
  <2> DEFINE w == req[p]
             m == req[p].patch
             n == [m EXCEPT !.status = s]
             x == [w EXCEPT !.dev = d, !.pc = where, !.out = what, !.patch = n]
             y == [pc |-> "read", dev |-> d, seen |-> NoSnapshot]
  <2>1. d \in Ids /\ Real(d)
    BY <1>2 DEF Owner, Real, NoRow, PairingIInv, DevicesInv, DeviceAssumption
  <2>2. w \in RequestStates /\ m \in Snapshots /\ req' = [req EXCEPT ![p] = x]
    <3>1. w \in RequestStates
      BY NotTold
    <3>2. m \in Snapshots
      BY <3>1 DEF RequestStates
    <3>3. req' = [req EXCEPT ![p] = x]
      BY <1>2, <3>1, ZenonT(60) DEF RequestStates, PairingIInv, RequestsInv
    <3> QED
      BY <3>1, <3>2, <3>3
  <2> HIDE DEF w, m
  <2>3. n \in Snapshots
    BY <2>2 DEF Snapshots, Statuses
  <2> HIDE DEF n
  <2>4. x \in RequestStates
    BY <2>1, <2>2, <2>3, ZenonT(60) DEF RequestStates
  <2>5. x.dev = d /\ x.pc = where /\ x.out = what
    BY <2>2 DEF RequestStates
  <2> HIDE DEF x
  <2>6. y \in Touches /\ y.dev = d
    BY <2>1 DEF Touches, NoSnapshot, Snapshots, Statuses, DeviceAssumption
  <2> HIDE DEF y
  <2>7. LocksInv'
    BY <1>0, <1>2, <2>1, <2>6 DEF PairingIInv, LocksInv, Real, y
  <2>8. Later(p)
    BY <1>0, SameTables
  <2>9. StandingNext(x, p) /\ x.out \notin Told
    BY <2>1, <2>5 DEF StandingNext, StandsOn, Told
  <2>10. RequestsInv'
    BY <2>2, <2>4, <2>8, <2>9, Moves
  <2> QED
    BY <1>0, <2>7, <2>10, TablesStay DEF PairingIInv
<1>3. ASSUME NEW d \in Owner(req[p].token),
             touch' = [touch EXCEPT ![p] = [pc |-> "read", dev |-> d, seen |-> NoSnapshot]],
             req' = [req EXCEPT ![p].dev = d,
                                ![p].pc = IF req[p].op = "revoke" THEN "read"
                                          ELSE IF device[d].user # Nil THEN "done" ELSE "lock_row",
                                ![p].out = IF req[p].op = "challenge" /\ device[d].user # Nil
                                           THEN "bound" ELSE "none",
                                ![p].patch.status = IF req[p].op = "revoke" THEN "revoked" ELSE "none"]
      PROVE  PairingIInv'
  <2> DEFINE where == IF req[p].op = "revoke" THEN "read" ELSE IF device[d].user # Nil THEN "done" ELSE "lock_row"
             what == IF req[p].op = "challenge" /\ device[d].user # Nil THEN "bound" ELSE "none"
             s == IF req[p].op = "revoke" THEN "revoked" ELSE "none"
  <2>1. where \in {"read", "done", "lock_row"} /\ what \in {"none", "bound"} /\ s \in {"none", "revoked"}
    OBVIOUS
  <2>2. req' = [req EXCEPT ![p].dev = d, ![p].pc = where, ![p].out = what, ![p].patch.status = s]
    BY <1>3
  <2> HIDE DEF where, what, s
  <2> QED
    BY <1>2, <1>3, <2>1, <2>2, ZenonT(60)
<1> QED
  BY <1>1, <1>3, ZenonT(60) DEF Authenticate

\* What is read of a row.
LEMMA SnapshotRead ==
  ASSUME PairingIInv, NEW d \in Ids
  PROVE  Snapshot(d) \in Snapshots
  BY DEF Snapshot, Snapshots, PairingIInv, DevicesInv, Rows

\* The unawaited update of last_seen_at reads its row.
LEMMA TouchReadKeeps ==
  ASSUME DeviceAssumption, PairingIInv, NEW p \in Reqs, TouchRead(p)
  PROVE  PairingIInv'
<1> DEFINE w == touch[p]
           s == Snapshot(touch[p].dev)
           y == [w EXCEPT !.pc = "write", !.seen = s]
<1>0. w.pc = "read" /\ UNCHANGED <<device, challenge, rowLock, codeLock, req, tokens, retired, loggedOut>>
  BY DEF TouchRead
<1>1. w \in Touches /\ Real(w.dev) /\ touch' = [touch EXCEPT ![p] = y]
  BY <1>0 DEF TouchRead, PairingIInv, LocksInv
<1>2. s \in Snapshots
  BY <1>1, SnapshotRead DEF Real
<1> HIDE DEF w, s
<1>3. y \in Touches
  BY <1>1, <1>2 DEF Touches
<1>4. y.dev = w.dev
  BY <1>1 DEF Touches
<1> HIDE DEF y
<1>5. LocksInv'
  BY <1>0, <1>1, <1>3, <1>4 DEF PairingIInv, LocksInv, Real
<1>6. RequestsInv'
  BY <1>0, SameTables, RequestsStand DEF PairingIInv
<1> QED
  BY <1>0, <1>5, <1>6, TablesStay DEF PairingIInv

\* It writes the row back, later, over whatever happened in between.
LEMMA TouchWriteKeeps ==
  ASSUME DeviceAssumption, PairingIInv, NEW p \in Reqs, TouchWrite(p)
  PROVE  PairingIInv'
<1> DEFINE w == touch[p]
           n == NoSnapshot
           y == [w EXCEPT !.pc = "none", !.dev = Nil, !.seen = n]
           d == touch[p].dev
<1>0. touch[p].pc = "write" /\ UNCHANGED <<challenge, rowLock, codeLock, req, tokens, retired, loggedOut>>
  BY DEF TouchWrite
<1>1. w \in Touches /\ Real(d) /\ touch' = [touch EXCEPT ![p] = y] /\ touch[p].seen \in Snapshots
  BY <1>0 DEF TouchWrite, PairingIInv, LocksInv, Touches
<1>2. n \in Snapshots /\ n.token = 0
  BY DEF NoSnapshot, Snapshots, Statuses, DeviceAssumption
<1>3. CASE UNCHANGED device
  <2> HIDE DEF w, n
  <2>1. y \in Touches
    BY <1>1, <1>2 DEF Touches
  <2>2. y.pc = "none"
    BY <1>1 DEF Touches
  <2> HIDE DEF y
  <2>3. LocksInv'
    BY <1>0, <1>1, <1>3, <2>1, <2>2 DEF PairingIInv, LocksInv, Real
  <2>4. RequestsInv'
    BY <1>0, <1>3, SameTables, RequestsStand DEF PairingIInv
  <2> QED
    BY <1>0, <1>3, <2>3, <2>4, TablesStay DEF PairingIInv
<1>4. CASE WriteBack(d, touch[p].seen, NoSnapshot)
  <2>1. PICK z \in Rows : /\ device' = [device EXCEPT ![d] = z] /\ z.print = device[d].print /\ z.user = device[d].user
                          /\ z.token = device[d].token
    BY <1>1, <1>2, <1>4, Written DEF PairingIInv
  <2>2. Later(Nil) /\ CodesInv' /\ \A e \in Ids : Real(e) => Real(e)'
    BY <1>0, <1>1, <2>1, RowLater
  <2>3. DevicesInv'
    BY <1>0, <1>1, <2>1, RowWritten DEF PairingIInv
  <2>4. RequestsInv'
    BY <1>0, <2>2, RequestsStand DEF PairingIInv
  <2> HIDE DEF w, n, d
  <2>5. y \in Touches
    BY <1>1, <1>2 DEF Touches
  <2>6. y.pc = "none"
    BY <1>1 DEF Touches
  <2> HIDE DEF y
  <2>7. touch' \in [Reqs -> Touches] /\ \A r \in Reqs : touch'[r].pc # "none" => r # p /\ touch'[r] = touch[r]
    BY <1>1, <2>5, <2>6 DEF PairingIInv, LocksInv
  <2>8. \A r \in Reqs : touch'[r].pc # "none" => Real(touch[r].dev) /\ touch'[r].dev = touch[r].dev
    BY <2>7 DEF PairingIInv, LocksInv
  <2>9. \A r \in Reqs : touch'[r].pc # "none" => touch'[r].dev \in Ids /\ device'[touch'[r].dev].print # Nil
    BY <2>2, <2>8 DEF Real
  <2>10. LocksInv'
    BY <1>0, <2>7, <2>9 DEF PairingIInv, LocksInv, Real
  <2> QED
    BY <2>2, <2>3, <2>4, <2>10 DEF PairingIInv
<1> QED
  BY <1>3, <1>4 DEF TouchWrite

\* An operation of the row reads it without a lock.
LEMMA ReadRowKeeps ==
  ASSUME DeviceAssumption, PairingIInv, NEW p \in Reqs, ReadRow(p)
  PROVE  PairingIInv'
<1>0. At(p, "read") /\ UNCHANGED <<device, challenge, rowLock, codeLock, touch, tokens, retired, loggedOut>>
  BY DEF ReadRow
<1>1. CASE Answer(p, "not_found")
  BY <1>0, <1>1, AnswersAlone DEF Outs, Told
<1>2. CASE device[req[p].dev] # NoRow /\ req' = [req EXCEPT ![p].pc = "write", ![p].seen = Snapshot(req[p].dev)]
  <2> DEFINE w == req[p]
             s == Snapshot(req[p].dev)
             x == [w EXCEPT !.pc = "write", !.seen = s]
  <2>1. w \in RequestStates /\ w.out \notin Told /\ w.dev \in Ids
    BY <1>0, NotTold DEF Standing, StandsOn, At
  <2>2. s \in Snapshots
    BY <2>1, SnapshotRead
  <2>3. req' = [req EXCEPT ![p] = x] /\ Real(w.dev)
    BY <1>2, <2>1 DEF PairingIInv, RequestsInv, DevicesInv, Real, DeviceAssumption
  <2> HIDE DEF w, s
  <2>4. x \in RequestStates
    BY <2>1, <2>2, ZenonT(60) DEF RequestStates
  <2>5. x.pc = "write" /\ x.out = w.out /\ x.dev = w.dev
    BY <2>1 DEF RequestStates
  <2> HIDE DEF x
  <2>6. Standing(x, p)
    BY <2>1, <2>3, <2>5 DEF Standing, StandsOn, Real, Told
  <2> QED
    BY <1>0, <2>1, <2>3, <2>4, <2>5, <2>6, MovesAlone
<1> QED
  BY <1>1, <1>2 DEF ReadRow

\* The operation writes back what it read, with its own columns changed.
LEMMA WriteRowKeeps ==
  ASSUME DeviceAssumption, PairingIInv, NEW p \in Reqs, WriteRow(p)
  PROVE  PairingIInv'
<1> DEFINE d == req[p].dev
           issued == IF req[p].op = "rotate" THEN tokens + 1 ELSE 0
           m == req[p].patch
           patch == [m EXCEPT !.token = issued]
<1>0. At(p, "write") /\ issued <= MaxTokens /\ UNCHANGED <<challenge, rowLock, codeLock, touch>>
  BY DEF WriteRow
<1>1. tokens \in Nat /\ MaxTokens \in Nat /\ issued \in 0..MaxTokens
  BY <1>0 DEF DeviceAssumption, PairingIInv, DevicesInv
<1>2. m \in Snapshots /\ req[p].seen \in Snapshots /\ Real(d)
  BY <1>0, NotTold DEF RequestStates, Standing, StandsOn, At, Real
<1>3. CASE Answer(p, "internal_error") /\ UNCHANGED <<device, tokens, retired, loggedOut>>
  BY <1>0, <1>3, AnswersAlone DEF Outs, Told
<1>4. CASE /\ WriteBack(d, req[p].seen, patch) /\ Answer(p, "updated")
           /\ tokens' = IF issued = 0 THEN tokens ELSE issued
           /\ retired' = IF issued = 0 THEN retired ELSE retired \cup {device[d].token}
           /\ loggedOut' = IF req[p].op = "revoke" THEN loggedOut \cup {d}
                           ELSE IF req[p].op = "admin" /\ device'[d].status = "active"
                           THEN loggedOut \ {d} ELSE loggedOut
  <2>1. issued = 0 \/ (issued = tokens + 1 /\ issued # 0)
    BY <1>1
  <2>2. loggedOut' \subseteq Ids
    BY <1>2, <1>4 DEF PairingIInv, LocksInv, Real
  <2> HIDE DEF issued, m
  <2>3. patch \in Snapshots
    BY <1>1, <1>2 DEF Snapshots
  <2>4. patch.token = issued
    BY <1>2 DEF Snapshots
  <2> HIDE DEF patch, d
  <2>5. PICK y \in Rows : /\ device' = [device EXCEPT ![d] = y] /\ y.print = device[d].print /\ y.user = device[d].user
                          /\ issued = 0 => y.token = device[d].token
                          /\ issued # 0 => y.token = issued
    BY <1>2, <1>4, <2>3, <2>4, Written DEF PairingIInv
  <2>6. \/ y.token = device[d].token /\ tokens' = tokens /\ retired' = retired
        \/ /\ y.token = tokens + 1 /\ tokens' = tokens + 1 /\ tokens + 1 <= MaxTokens
           /\ retired' = retired \cup {device[d].token}
    BY <1>0, <1>4, <2>1, <2>5
  <2>7. 1..tokens \subseteq 1..tokens'
    BY <1>1, <2>6
  <2>8. DevicesInv'
    BY <1>2, <2>5, <2>6, RowWritten DEF PairingIInv
  <2>9. Later(p) /\ CodesInv' /\ \A e \in Ids : Real(e) => Real(e)'
    BY <1>0, <1>2, <2>5, <2>7, RowLater
  <2>10. LocksInv'
    <3>1. \A e \in Ids : Real(e) => device'[e].print # Nil
      BY <2>9 DEF Real
    <3>2. \A r \in Reqs : touch[r].pc # "none" => touch[r].dev \in Ids /\ device'[touch[r].dev].print # Nil
      BY <3>1 DEF PairingIInv, LocksInv, Real
    <3> QED
      BY <1>0, <2>2, <3>2 DEF PairingIInv, LocksInv, Real
  <2>11. PICK x \in RequestStates : req' = [req EXCEPT ![p] = x] /\ x.pc = "done" /\ x.out \notin Told
    <3>1. Answer(p, "updated") /\ "updated" \in Outs \ Told
      BY <1>4 DEF Outs, Told
    <3> QED
      BY <3>1, Answers
  <2>12. RequestsInv'
    BY <2>9, <2>11, DoneStands, Moves
  <2> QED
    BY <2>8, <2>9, <2>10, <2>12 DEF PairingIInv
<1> QED
  BY <1>3, <1>4 DEF WriteRow

-----------------------------------------------------------------------------
(* Minting and redeeming                                                    *)

\* A transaction takes the row's lock, once it is free.
LEMMA LockRowKeeps ==
  ASSUME DeviceAssumption, PairingIInv, NEW p \in Reqs, LockRow(p)
  PROVE  PairingIInv'
<1> DEFINE d == req[p].dev
<1>0. /\ At(p, "lock_row") /\ rowLock[d] = Nil
      /\ UNCHANGED <<device, challenge, codeLock, touch, tokens, retired, loggedOut>>
  BY DEF LockRow
<1>1. CASE Answer(p, "bound") /\ UNCHANGED rowLock
  BY <1>0, <1>1, AnswersAlone DEF Outs, Told
<1>2. CASE device[d].user = Nil /\ Go(p, "mint") /\ rowLock' = [rowLock EXCEPT ![d] = p]
  <2>1. PICK x \in RequestStates : /\ req' = [req EXCEPT ![p] = x] /\ x.pc = "mint" /\ x.out = req[p].out
                                   /\ x.dev = req[p].dev
    BY <1>2, Goes
  <2>2. d \in Ids /\ x.out \notin Told
    BY <1>0, <2>1, NotTold DEF Standing, StandsOn, At
  <2>3. /\ rowLock' \in [Ids -> Reqs \cup {Nil}] /\ rowLock'[d] = p
        /\ \A e \in Ids : rowLock[e] # Nil => rowLock'[e] = rowLock[e]
    BY <1>0, <1>2, <2>2 DEF PairingIInv, LocksInv
  <2>4. LocksInv'
    BY <1>0, <2>3 DEF PairingIInv, LocksInv, Real
  <2>5. Later(p)
    BY <1>0, <2>3, SameTables
  <2>6. StandingNext(x, p)
    BY <1>0, <1>2, <2>1, <2>2, <2>3 DEF StandingNext, StandsOn, Told
  <2>7. RequestsInv'
    BY <2>1, <2>2, <2>5, <2>6, Moves
  <2> QED
    BY <1>0, <2>4, <2>7, TablesStay DEF PairingIInv
<1> QED
  BY <1>1, <1>2 DEF LockRow

\* A claim takes the lock of an open code in time, or is told why not.
LEMMA TakeCodeKeeps ==
  ASSUME DeviceAssumption, PairingIInv, NEW p \in Reqs, TakeCode(p)
  PROVE  PairingIInv'
<1> DEFINE c == req[p].code
<1>0. At(p, "take_code") /\ codeLock[c] = Nil /\ UNCHANGED <<device, rowLock, touch, tokens, retired, loggedOut>>
  BY DEF TakeCode
<1>1. c \in Codes /\ req[p].user \in Users /\ req[p].out \notin Told
  BY <1>0, NotTold DEF Standing, StandsOn, At
<1>2. CASE Answer(p, "code_invalid") /\ UNCHANGED <<challenge, codeLock>>
  BY <1>0, <1>2, AnswersAlone DEF Outs, Told
<1>3. CASE /\ challenge[c].state = "open" /\ challenge' = [challenge EXCEPT ![c].state = "deleted"]
           /\ Answer(p, "code_expired") /\ UNCHANGED codeLock
  <2> DEFINE w == challenge[c]
             y == [w EXCEPT !.state = "deleted"]
  <2>1. w \in CodeRows /\ challenge' = [challenge EXCEPT ![c] = y] /\ w = challenge[c]
    BY <1>1, <1>3 DEF PairingIInv, CodesInv
  <2> HIDE DEF w
  <2>2. y \in CodeRows /\ y.state = "deleted"
    BY <2>1 DEF CodeRows
  <2> HIDE DEF y
  <2>3. /\ challenge' \in [Codes -> CodeRows] /\ challenge'[c].state = "deleted"
        /\ \A e \in Codes \ {c} : challenge'[e] = challenge[e]
    BY <1>1, <2>1, <2>2 DEF PairingIInv, CodesInv
  <2>4. CodesInv'
    BY <1>0, <1>1, <2>3 DEF PairingIInv, CodesInv
  <2>5. Later(p)
    BY <1>0, <1>1, <1>3, <2>3 DEF Later, Real
  <2>6. PICK x \in RequestStates : req' = [req EXCEPT ![p] = x] /\ x.pc = "done" /\ x.out \notin Told
    <3>1. Answer(p, "code_expired") /\ "code_expired" \in Outs \ Told
      BY <1>3 DEF Outs, Told
    <3> QED
      BY <3>1, Answers
  <2>7. RequestsInv'
    BY <2>5, <2>6, DoneStands, Moves
  <2>8. DevicesInv'
    BY <1>0 DEF PairingIInv, DevicesInv, Real, RotatedStaysDead
  <2>9. LocksInv'
    BY <1>0, <1>3, LocksStay
  <2> QED
    BY <2>4, <2>7, <2>8, <2>9 DEF PairingIInv
<1>4. CASE /\ challenge[c].state = "open" /\ codeLock' = [codeLock EXCEPT ![c] = p] /\ Go(p, "bind")
           /\ UNCHANGED challenge
  <2>1. PICK x \in RequestStates : /\ req' = [req EXCEPT ![p] = x] /\ x.pc = "bind" /\ x.out = req[p].out
                                   /\ x.code = c /\ x.user = req[p].user
    BY <1>4, Goes
  <2>2. /\ codeLock' \in [Codes -> Reqs \cup {Nil}] /\ codeLock'[c] = p
        /\ \A e \in Codes : codeLock[e] # Nil => codeLock'[e] = codeLock[e]
    BY <1>0, <1>1, <1>4 DEF PairingIInv, LocksInv
  <2>3. LocksInv'
    BY <1>0, <2>2 DEF PairingIInv, LocksInv, Real
  <2>4. Later(p)
    BY <1>0, <1>4, <2>2, SameTables
  <2>5. StandingNext(x, p) /\ x.out \notin Told
    BY <1>0, <1>1, <1>4, <2>1, <2>2 DEF StandingNext, StandsOn, Told
  <2>6. RequestsInv'
    BY <2>1, <2>4, <2>5, Moves
  <2> QED
    BY <1>0, <1>4, <2>3, <2>6, TablesStay DEF PairingIInv
<1> QED
  BY <1>2, <1>3, <1>4 DEF TakeCode

\* A new code replaces the open ones of the row, and the row's lock is given back.
LEMMA MintKeeps ==
  ASSUME DeviceAssumption, PairingIInv, NEW p \in Reqs, Mint(p)
  PROVE  PairingIInv'
<1> DEFINE d == req[p].dev
<1>0. /\ At(p, "mint") /\ rowLock' = [rowLock EXCEPT ![d] = Nil]
      /\ UNCHANGED <<device, codeLock, touch, tokens, retired, loggedOut>>
      /\ \A c \in Open(d) : codeLock[c] = Nil
  BY DEF Mint
<1>1. PICK c \in Codes : /\ challenge[c].state = "unminted" /\ challenge' = Replaced(d, c)
                         /\ req' = [req EXCEPT ![p].pc = "done", ![p].out = "minted", ![p].code = c]
  BY DEF Mint
<1>2. d \in Ids /\ rowLock[d] = p /\ device[d].user = Nil /\ req[p] \in RequestStates
  BY <1>0, NotTold DEF Standing, StandsOn, At
<1>3. \A e \in Codes : challenge[e] \in CodeRows
  BY DEF PairingIInv, CodesInv
<1>4. \A e \in Codes : /\ e = c => challenge'[e] = [state |-> "open", of |-> d, late |-> FALSE]
                       /\ e # c /\ e \in Open(d) => challenge'[e] = [challenge[e] EXCEPT !.state = "deleted"]
                       /\ e # c /\ e \notin Open(d) => challenge'[e] = challenge[e]
  BY <1>1 DEF Replaced
<1>5. \A e \in Codes : e \in Open(d) <=> challenge[e].state = "open" /\ challenge[e].of = d
  BY DEF Open
<1>6. \A e \in Codes : /\ challenge'[e] \in CodeRows
                       /\ challenge'[e].state = "open" <=> e = c \/ (challenge[e].state = "open" /\ challenge[e].of # d)
                       /\ e = c => challenge'[e].of = d
                       /\ e # c => challenge'[e].of = challenge[e].of
                       /\ challenge[e].state = "consumed" => challenge'[e].state = "consumed"
  <2> SUFFICES ASSUME NEW e \in Codes
               PROVE  /\ challenge'[e] \in CodeRows
                      /\ challenge'[e].state = "open" <=> e = c \/ (challenge[e].state = "open" /\ challenge[e].of # d)
                      /\ e = c => challenge'[e].of = d
                      /\ e # c => challenge'[e].of = challenge[e].of
                      /\ challenge[e].state = "consumed" => challenge'[e].state = "consumed"
    OBVIOUS
  <2>1. CASE e = c
    <3> DEFINE y == [state |-> "open", of |-> d, late |-> FALSE]
    <3>1. challenge'[e] = y
      BY <1>4, <2>1
    <3>2. y \in CodeRows
      BY <1>2 DEF CodeRows
    <3>3. y.state = "open" /\ y.of = d
      OBVIOUS
    <3> HIDE DEF y, d
    <3>4. challenge[e].state = "unminted"
      BY <1>1, <2>1
    <3> QED
      BY <2>1, <3>1, <3>2, <3>3, <3>4
  <2>2. CASE e # c /\ e \in Open(d)
    <3> DEFINE w == challenge[e]
               y == [w EXCEPT !.state = "deleted"]
    <3>1. w \in CodeRows /\ challenge'[e] = y /\ w.state = "open" /\ w.of = d
      BY <1>3, <1>4, <1>5, <2>2
    <3> HIDE DEF w
    <3>2. y \in CodeRows
      BY <3>1 DEF CodeRows
    <3>3. y.state = "deleted" /\ y.of = w.of
      BY <3>1 DEF CodeRows
    <3> QED
      BY <2>2, <3>1, <3>2, <3>3 DEF w
  <2>3. CASE e # c /\ e \notin Open(d)
    BY <1>3, <1>4, <1>5, <2>3
  <2> QED
    BY <2>1, <2>2, <2>3
<1>7. CodesInv'
  <2>1. challenge' \in [Codes -> CodeRows]
    <3>1. challenge' = [e \in Codes |-> challenge'[e]]
      BY <1>1 DEF Replaced
    <3> QED
      BY <1>6, <3>1
  <2>2. \A e \in Codes : challenge'[e].state = "open" => challenge'[e].of \in Ids /\ device[challenge'[e].of].user = Nil
    BY <1>2, <1>6 DEF PairingIInv, CodesInv
  <2>3. \A e, f \in Codes :
          challenge'[e].state = "open" /\ challenge'[f].state = "open" /\ challenge'[e].of = challenge'[f].of => e = f
    BY <1>6 DEF PairingIInv, CodesInv
  <2> QED
    BY <1>0, <2>1, <2>2, <2>3 DEF CodesInv
<1>8. rowLock' \in [Ids -> Reqs \cup {Nil}] /\ \A e \in Ids : rowLock[e] \notin {Nil, p} => rowLock'[e] = rowLock[e]
  BY <1>0, <1>2 DEF PairingIInv, LocksInv
<1>9. LocksInv'
  BY <1>0, <1>8 DEF PairingIInv, LocksInv, Real
<1>10. Later(p)
  <2>1. \A e \in Codes : codeLock[e] \notin {Nil, p} /\ challenge[e].state = "open" => challenge'[e].state = "open"
    BY <1>0, <1>5, <1>6
  <2> QED
    BY <1>0, <1>6, <1>8, <2>1 DEF Later, Real
<1>11. PICK x \in RequestStates : req' = [req EXCEPT ![p] = x] /\ x.pc = "done" /\ x.out \notin Told
  <2> DEFINE w == req[p]
             x == [w EXCEPT !.pc = "done", !.out = "minted", !.code = c]
  <2>0. c \in 0..MaxCodes
    BY <1>1 DEF Codes, DeviceAssumption
  <2>1. w \in RequestStates /\ req' = [req EXCEPT ![p] = x]
    BY <1>1, <1>2 DEF PairingIInv, RequestsInv
  <2> HIDE DEF w
  <2>2. x \in RequestStates
    BY <2>0, <2>1, ZenonT(60) DEF RequestStates
  <2>3. x.pc = "done" /\ x.out = "minted"
    BY <2>1 DEF RequestStates
  <2> QED
    BY <2>1, <2>2, <2>3 DEF Told
<1>12. RequestsInv'
  BY <1>10, <1>11, DoneStands, Moves
<1>13. DevicesInv'
  BY <1>0 DEF PairingIInv, DevicesInv, Real, RotatedStaysDead
<1> QED
  BY <1>7, <1>9, <1>12, <1>13 DEF PairingIInv

\* The claim binds the row to the account and consumes the code, in one transaction.
LEMMA BindKeeps ==
  ASSUME DeviceAssumption, PairingIInv, NEW p \in Reqs, Bind(p)
  PROVE  PairingIInv'
<1> DEFINE c == req[p].code
           d == challenge[c].of
           u == req[p].user
<1>0. /\ At(p, "bind") /\ rowLock[d] = Nil /\ UNCHANGED <<rowLock, touch, tokens, retired, loggedOut>>
      /\ codeLock' = [codeLock EXCEPT ![c] = Nil] /\ \A x \in Open(d) \ {c} : codeLock[x] = Nil
  BY DEF Bind
<1>1. /\ c \in Codes /\ u \in Users /\ codeLock[c] = p /\ challenge[c].state = "open" /\ req[p] \in RequestStates
      /\ d \in Ids /\ u # Nil
  BY <1>0, NotTold DEF Standing, StandsOn, At, PairingIInv, CodesInv, DeviceAssumption
<1>2. /\ codeLock' \in [Codes -> Reqs \cup {Nil}]
      /\ \A e \in Codes : codeLock[e] \notin {Nil, p} => codeLock'[e] = codeLock[e]
  BY <1>0, <1>1 DEF PairingIInv, LocksInv
<1>3. ASSUME UNCHANGED <<device, challenge>>, NEW what \in Outs \ Told, Answer(p, what)
      PROVE  PairingIInv'
  <2>1. LocksInv'
    BY <1>0, <1>2, <1>3 DEF PairingIInv, LocksInv, Real
  <2>2. Later(p)
    BY <1>0, <1>2, <1>3, SameTables
  <2>3. PICK x \in RequestStates : req' = [req EXCEPT ![p] = x] /\ x.pc = "done" /\ x.out \notin Told
    BY <1>3, Answers
  <2>4. RequestsInv'
    BY <2>2, <2>3, DoneStands, Moves, ZenonT(60)
  <2> QED
    BY <1>0, <1>3, <2>1, <2>4, TablesStay DEF PairingIInv
<1>4. CASE /\ device[d].status = "active" /\ device[d].user = Nil /\ device' = [device EXCEPT ![d].user = u]
           /\ challenge' = Spent(d, c)
           /\ req' = [req EXCEPT ![p].pc = "done", ![p].out = "paired", ![p].dev = d]
  <2>1. PICK y \in Rows : /\ device' = [device EXCEPT ![d] = y] /\ y.print = device[d].print /\ y.user = u
                          /\ y.token = device[d].token
    <3> DEFINE w == device[d]
               y == [w EXCEPT !.user = u]
    <3>1. w \in Rows /\ device' = [device EXCEPT ![d] = y]
      BY <1>1, <1>4 DEF PairingIInv, DevicesInv
    <3> HIDE DEF w
    <3>2. y \in Rows
      BY <1>1, <3>1 DEF Rows
    <3>3. y.print = w.print /\ y.user = u /\ y.token = w.token
      BY <1>1, <3>1, SMTT(60) DEF Rows
    <3> QED
      BY <3>1, <3>2, <3>3, ZenonT(60) DEF w
  <2>2. Real(d)
    <3>1. NoRow.status = "none" /\ device[d].status = "active"
      BY <1>4 DEF NoRow
    <3>2. device[d].print \in Prints
      BY <1>1, <3>1 DEF PairingIInv, DevicesInv
    <3> QED
      BY <1>1, <3>2 DEF Real, DeviceAssumption
  <2>3. DevicesInv'
    BY <1>0, <2>1, <2>2, RowWritten DEF PairingIInv
  <2>4. device'[d] = y /\ \A e \in Ids \ {d} : device'[e] = device[e]
    BY <1>1, <2>1 DEF PairingIInv, DevicesInv
  <2>5. \A e \in Codes : challenge[e] \in CodeRows
    BY DEF PairingIInv, CodesInv
  <2>6. \A e \in Codes : e # c /\ challenge[e].state = "open" => challenge[e].of # d
    BY <1>1, SMTT(60) DEF PairingIInv, CodesInv
  <2>7. \A e \in Codes : e # c => challenge'[e] = challenge[e]
    BY <1>4, <2>6 DEF Spent, Open
  <2>8. challenge'[c] \in CodeRows /\ challenge'[c].state = "consumed"
    <3> DEFINE w == challenge[c]
               z == [w EXCEPT !.state = "consumed"]
    <3>1. w \in CodeRows /\ challenge'[c] = z
      BY <1>1, <1>4, <2>5 DEF Spent
    <3> HIDE DEF w
    <3>2. z \in CodeRows /\ z.state = "consumed"
      BY <3>1 DEF CodeRows
    <3> QED
      BY <3>1, <3>2, SMTT(60)
  <2>9. challenge' \in [Codes -> CodeRows]
    <3>1. challenge' = [e \in Codes |-> challenge'[e]]
      BY <1>4 DEF Spent
    <3>2. \A e \in Codes : challenge'[e] \in CodeRows
      BY <2>5, <2>7, <2>8
    <3> QED
      BY <3>1, <3>2, SMTT(60)
  <2>10. CodesInv'
    <3>1. \A e \in Codes : challenge'[e].state = "open" => e # c /\ challenge'[e] = challenge[e] /\ challenge[e].of # d
      BY <2>6, <2>7, <2>8
    <3>2. \A e \in Codes : challenge'[e].state = "open" => challenge'[e].of \in Ids /\ device'[challenge'[e].of].user = Nil
      BY <2>4, <3>1 DEF PairingIInv, CodesInv
    <3>3. \A e, f \in Codes :
            challenge'[e].state = "open" /\ challenge'[f].state = "open" /\ challenge'[e].of = challenge'[f].of => e = f
      BY <3>1 DEF PairingIInv, CodesInv
    <3> QED
      BY <2>9, <3>2, <3>3 DEF CodesInv
  <2>11. Later(p)
    <3>1. \A e \in Ids : /\ Real(e) => device'[e].print # Nil
                         /\ device[e].user # Nil => device'[e].user = device[e].user
                         /\ rowLock[e] \notin {Nil, p} => rowLock'[e] = rowLock[e] /\ device'[e].user = device[e].user
      BY <1>0, <1>4, <2>1, <2>4, ZenonT(60) DEF Real
    <3>2. \A e \in Codes : /\ challenge[e].state = "consumed" => challenge'[e].state = "consumed"
                           /\ codeLock[e] \notin {Nil, p} => /\ codeLock'[e] = codeLock[e]
                                                             /\ challenge[e].state = "open" => challenge'[e].state = "open"
      BY <1>1, <1>2, <2>7, <2>8, SMTT(60)
    <3> QED
      BY <1>0, <3>1, <3>2, SMTT(60) DEF Later
  <2>12. LocksInv'
    <3>1. \A e \in Ids : device'[e].print = device[e].print
      BY <2>1, <2>4
    <3>2. \A e : Real(e) => Real(e)'
      BY <3>1 DEF Real
    <3> QED
      BY <1>0, <1>2, <3>2 DEF PairingIInv, LocksInv
  <2> DEFINE w == req[p]
             x == [w EXCEPT !.pc = "done", !.out = "paired", !.dev = d]
  <2>13. w \in RequestStates /\ req' = [req EXCEPT ![p] = x] /\ w.code = c /\ w.user = u
    <3>1. req \in [Reqs -> RequestStates]
      BY DEF PairingIInv, RequestsInv
    <3>2. w \in RequestStates /\ w.code = c /\ w.user = u
      BY <1>1
    <3> HIDE DEF d
    <3>3. req' = [req EXCEPT ![p] = x]
      BY <1>4, <3>1
    <3> QED
      BY <3>2, <3>3
  <2> HIDE DEF w, c, d, u
  <2>14. x \in RequestStates
    <3>1. d \in Ids
      BY <1>1
    <3>2. w \in RequestStates
      BY <2>13
    <3> QED
      BY <3>1, <3>2, ZenonT(60) DEF RequestStates
  <2>15. x.pc = "done" /\ x.out = "paired" /\ x.dev = d /\ x.code = c /\ x.user = u
    BY <2>13 DEF RequestStates
  <2> HIDE DEF x
  <2>16. StandingNext(x, p)
    BY <1>1, <2>1, <2>4, <2>8, <2>15 DEF StandingNext, StandsOn
  <2>17. \A r \in Reqs \ {p} : req[r].out = "paired" => req[r].code # c /\ req[r].dev # d
    <3> SUFFICES ASSUME NEW r \in Reqs \ {p}, req[r].out = "paired" PROVE req[r].code # c /\ req[r].dev # d
      OBVIOUS
    <3>1. challenge[req[r].code].state = "consumed" /\ device[req[r].dev].user \in Users
      BY NotTold DEF Standing, StandsOn
    <3> QED
      BY <1>1, <1>4, <3>1 DEF DeviceAssumption
  <2>18. RequestsInv'
    BY <2>11, <2>13, <2>14, <2>15, <2>16, <2>17, RequestMoves DEF PairingIInv
  <2> QED
    BY <2>3, <2>10, <2>12, <2>18 DEF PairingIInv
<1>5. CASE UNCHANGED <<device, challenge>> /\ Answer(p, IF device[d].status # "active" THEN "device_revoked" ELSE "bound")
  <2> DEFINE what == IF device[d].status # "active" THEN "device_revoked" ELSE "bound"
  <2>1. what \in Outs \ Told
    BY DEF Outs, Told
  <2>2. Answer(p, what)
    BY <1>5
  <2> HIDE DEF what
  <2> QED
    BY <1>3, <1>5, <2>1, <2>2
<1> QED
  BY <1>4, <1>5, ZenonT(60) DEF Bind, MayBind

\* PostgreSQL ends one of two transactions that wait for each other: its locks are free.
LEMMA VictimKeeps ==
  ASSUME DeviceAssumption, PairingIInv, NEW p \in Reqs, Victim(p)
  PROVE  PairingIInv'
<1>0. Answer(p, "unavailable") /\ UNCHANGED <<device, challenge, touch, tokens, retired, loggedOut>>
  BY DEF Victim
<1>1. /\ rowLock' \in [Ids -> Reqs \cup {Nil}] /\ codeLock' \in [Codes -> Reqs \cup {Nil}]
      /\ \A e \in Ids : rowLock[e] \notin {Nil, p} => rowLock'[e] = rowLock[e]
      /\ \A e \in Codes : codeLock[e] \notin {Nil, p} => codeLock'[e] = codeLock[e]
  BY DEF Victim, PairingIInv, LocksInv
<1>2. LocksInv'
  BY <1>0, <1>1 DEF PairingIInv, LocksInv, Real
<1>3. Later(p)
  BY <1>0, <1>1, SameTables
<1>4. PICK x \in RequestStates : req' = [req EXCEPT ![p] = x] /\ x.pc = "done" /\ x.out \notin Told
  <2>1. "unavailable" \in Outs \ Told
    BY DEF Outs, Told
  <2> QED
    BY <1>0, <2>1, Answers
<1>5. RequestsInv'
  BY <1>3, <1>4, DoneStands, Moves
<1> QED
  BY <1>0, <1>2, <1>5, TablesStay DEF PairingIInv

\* A code's ten minutes are over: a claim that comes now is late.
LEMMA ExpireKeeps ==
  ASSUME DeviceAssumption, PairingIInv, NEW c \in Codes, Expire(c)
  PROVE  PairingIInv'
<1> DEFINE w == challenge[c]
           y == [w EXCEPT !.late = TRUE]
<1>0. UNCHANGED <<device, rowLock, codeLock, req, touch, tokens, retired, loggedOut>>
  BY DEF Expire
<1>1. w \in CodeRows /\ challenge' = [challenge EXCEPT ![c] = y]
  BY DEF Expire, PairingIInv, CodesInv
<1> HIDE DEF w
<1>2. y \in CodeRows
  BY <1>1 DEF CodeRows
<1>3. y.state = w.state /\ y.of = w.of
  BY <1>1 DEF CodeRows
<1> HIDE DEF y
<1>4. /\ challenge' \in [Codes -> CodeRows]
      /\ \A e \in Codes : challenge'[e].state = challenge[e].state /\ challenge'[e].of = challenge[e].of
  BY <1>1, <1>2, <1>3 DEF PairingIInv, CodesInv, w
<1>5. CodesInv'
  BY <1>0, <1>4 DEF PairingIInv, CodesInv
<1>6. Later(Nil)
  BY <1>0, <1>4 DEF Later, Real
<1>7. RequestsInv'
  BY <1>0, <1>6, RequestsStand DEF PairingIInv
<1>8. LocksInv'
  BY <1>0, LocksStay
<1>9. DevicesInv'
  BY <1>0 DEF PairingIInv, DevicesInv, Real, RotatedStaysDead
<1> QED
  BY <1>5, <1>7, <1>8, <1>9 DEF PairingIInv

-----------------------------------------------------------------------------
(* The invariant                                                            *)

\* It holds of a database with the preset rows.
LEMMA InitHolds ==
  ASSUME DeviceAssumption, Init
  PROVE  PairingIInv
<1>1. MaxTokens \in Nat /\ MaxCodes \in Nat /\ Cardinality(Preset) \in Nat /\ Cardinality(Preset) <= MaxTokens
      /\ Nil \notin Ids \cup Prints \cup Users \cup Reqs
  BY FS_CardinalityType DEF DeviceAssumption
<1>2. NoSnapshot \in Snapshots
  BY <1>1 DEF NoSnapshot, Snapshots, Statuses
<1>3. NoRow \in Rows /\ NoRow.token = 0 /\ NoRow.print = Nil /\ NoRow.user = Nil
  <2>1. NoRow \in Rows
    BY <1>1 DEF NoRow, Rows, Statuses
  <2> QED
    BY <2>1 DEF NoRow
<1>4. \A f \in Prints, t \in 1..MaxTokens :
        NewRow(f, t) \in Rows /\ NewRow(f, t).token = t /\ NewRow(f, t).print = f /\ NewRow(f, t).user = Nil
  <2> SUFFICES ASSUME NEW f \in Prints, NEW t \in 1..MaxTokens
               PROVE  NewRow(f, t) \in Rows /\ NewRow(f, t).token = t /\ NewRow(f, t).print = f /\ NewRow(f, t).user = Nil
    OBVIOUS
  <2> DEFINE n == NoRow
             y == [n EXCEPT !.status = "active", !.print = f, !.token = t]
  <2>1. n \in Rows /\ NewRow(f, t) = y /\ n.user = Nil /\ t \in 0..MaxTokens
    BY <1>3 DEF NewRow
  <2> HIDE DEF n
  <2>2. y \in Rows
    BY <2>1 DEF Rows, Statuses
  <2>3. y.token = t /\ y.print = f /\ y.user = Nil
    BY <2>1 DEF Rows
  <2> QED
    BY <2>1, <2>2, <2>3
<1>5. DevicesInv
  <2>1. device \in [Ids -> Rows]
    BY <1>3, <1>4 DEF Init
  <2>2. tokens = Cardinality(Preset) /\ tokens \in 0..MaxTokens /\ retired = {}
    BY <1>1 DEF Init
  <2>3. \A d \in Ids : device[d] # NoRow => d \in Preset
    BY DEF Init
  <2>4. \A d \in Preset : device[d].token \in 1..tokens
    BY <2>2 DEF Init
  <2>5. \A d \in Ids : device[d] # NoRow => device[d].print \in Prints
    BY <1>4 DEF Init
  <2>6. \A d \in Ids : Real(d) => d \in Preset
    BY <1>3, <2>3 DEF Real
  <2>7. \A d, e \in Preset : d # e => device[d].token # device[e].token
    BY DEF Init
  <2>8. \A d, e \in Ids : Real(d) /\ Real(e) /\ device[d].token = device[e].token => d = e
    BY <2>6, <2>7
  <2> QED
    BY <2>1, <2>2, <2>3, <2>4, <2>5, <2>8 DEF DevicesInv, RotatedStaysDead
<1>6. CodesInv
  <2>1. challenge = [c \in Codes |-> [state |-> "unminted", of |-> Nil, late |-> FALSE]]
    BY DEF Init
  <2>2. challenge \in [Codes -> CodeRows] /\ \A c \in Codes : challenge[c].state = "unminted"
    BY <2>1 DEF CodeRows
  <2> QED
    BY <2>2 DEF CodesInv
<1>7. LocksInv
  <2> DEFINE s == NoSnapshot
             y == [pc |-> "none", dev |-> Nil, seen |-> s]
  <2>1. touch = [p \in Reqs |-> y] /\ s \in Snapshots
    BY <1>2 DEF Init
  <2> HIDE DEF s
  <2>2. y \in Touches /\ y.pc = "none"
    BY <2>1 DEF Touches
  <2> HIDE DEF y
  <2>3. touch \in [Reqs -> Touches] /\ \A p \in Reqs : touch[p].pc = "none"
    BY <2>1, <2>2
  <2>4. rowLock \in [Ids -> Reqs \cup {Nil}] /\ codeLock \in [Codes -> Reqs \cup {Nil}] /\ loggedOut \subseteq Ids
    BY DEF Init
  <2> QED
    BY <2>3, <2>4 DEF LocksInv
<1>8. RequestsInv
  <2>1. req = [p \in Reqs |-> Idle]
    BY DEF Init
  <2>2. Idle \in RequestStates
    <3> DEFINE s == NoSnapshot
    <3>1. s \in Snapshots /\ s = NoSnapshot
      BY <1>2
    <3> HIDE DEF s
    <3> QED
      BY <1>1, <3>1 DEF Idle, RequestStates
  <2>3. Idle.pc = "idle" /\ Idle.out = "none"
    BY DEF Idle
  <2>4. req \in [Reqs -> RequestStates] /\ \A p \in Reqs : req[p] = Idle
    BY <2>1, <2>2
  <2>5. \A p \in Reqs : Standing(req[p], p)
    BY <2>3, <2>4 DEF Standing, StandsOn
  <2> QED
    BY <2>3, <2>4, <2>5 DEF RequestsInv, CredentialShownOnce
<1> QED
  BY <1>5, <1>6, <1>7, <1>8 DEF PairingIInv

\* It survives every step.
LEMMA NextHolds ==
  ASSUME DeviceAssumption, PairingIInv, [Next]_vars
  PROVE  PairingIInv'
<1>1. CASE UNCHANGED vars
  <2>1. UNCHANGED <<device, challenge, rowLock, codeLock, req, touch, tokens, retired, loggedOut>>
    BY <1>1 DEF vars
  <2>2. RequestsInv'
    BY <2>1, SameTables, RequestsStand DEF PairingIInv
  <2> QED
    BY <2>1, <2>2, TablesStay, LocksStay DEF PairingIInv
<1>2. ASSUME NEW c \in Codes, Expire(c) PROVE PairingIInv'
  BY <1>2, ExpireKeeps
<1>3. ASSUME NEW p \in Reqs, Arrive(p) PROVE PairingIInv'
  BY <1>3, ArriveKeeps
<1>4. ASSUME NEW p \in Reqs, Step(p) PROVE PairingIInv'
  BY <1>4, LookupKeeps, InsertKeeps, AuthenticateKeeps, TouchReadKeeps, TouchWriteKeeps, ReadRowKeeps,
     WriteRowKeeps, LockRowKeeps, MintKeeps, TakeCodeKeeps, BindKeeps, VictimKeeps DEF Step
<1> QED
  BY <1>1, <1>2, <1>3, <1>4 DEF Next

\* Two open codes of one row are the same code.
LEMMA Implied ==
  ASSUME DeviceAssumption, PairingIInv
  PROVE  PairingInv
<1>1. TypeOK
  <2>1. \A p \in Reqs : /\ req[p].seen \in Snapshots /\ req[p].patch \in Snapshots
                        /\ req[p].dev \in Ids \cup {Nil} /\ req[p].code \in 0..MaxCodes
    BY NotTold DEF RequestStates
  <2>2. \A p \in Reqs : touch[p] \in [pc : {"none", "read", "write"}, dev : Ids \cup {Nil}, seen : Snapshots]
    BY DEF PairingIInv, LocksInv, Touches
  <2>3. retired \subseteq 1..MaxTokens
    BY DEF PairingIInv, DevicesInv, DeviceAssumption
  <2> QED
    BY <2>1, <2>2, <2>3 DEF TypeOK, PairingIInv, DevicesInv, CodesInv, LocksInv, Rows, CodeRows
<1>2. OneOpenCode
  <2> SUFFICES ASSUME NEW d \in Ids PROVE Cardinality(Open(d)) <= 1
    BY DEF OneOpenCode
  <2>1. CASE Open(d) = {}
    BY <2>1, FS_EmptySet
  <2>2. CASE Open(d) # {}
    <3>1. PICK c \in Codes : c \in Open(d)
      BY <2>2 DEF Open
    <3>2. \A e \in Open(d) : e = c
      BY <3>1 DEF Open, PairingIInv, CodesInv
    <3>3. Open(d) = {c}
      BY <3>1, <3>2
    <3>4. Cardinality({c}) = 1
      BY FS_Singleton
    <3> QED
      BY <3>3, <3>4
  <2> QED
    BY <2>1, <2>2
<1>3. BoundHasNoOpenCode
  BY DEF BoundHasNoOpenCode, Open, PairingIInv, CodesInv
<1>4. PairedMeansOwned
  BY NotTold DEF PairedMeansOwned, PairingIInv, RequestsInv, Standing, StandsOn
<1> QED
  BY <1>1, <1>2, <1>3, <1>4 DEF PairingInv, PairingIInv, RequestsInv, DevicesInv

\* Any number of devices, accounts, codes and requests: a device never has two
\* redeemable codes, nor one once it is bound; whoever was told "paired" owns the
\* device and is the only one of that code and of that device; a clear credential
\* is shown once, and one that a rotation replaced is in no row again, whatever the
\* write-backs of older reads bring back.
THEOREM PairingIsSafe == ASSUME DeviceAssumption PROVE Spec => []PairingInv
<1>1. Init => PairingIInv
  BY InitHolds
<1>2. PairingIInv /\ [Next]_vars => PairingIInv'
  BY NextHolds
<1>3. PairingIInv => PairingInv
  BY Implied
<1> QED
  BY <1>1, <1>2, <1>3, PTL DEF Spec

(***************************************************************************)
(* Accounts, sessions and orders.  AccountsInv alone is not inductive:     *)
(* that a session is of its account needs whoever is about to get one to   *)
(* know the password (KnowsPassword); that who is shut out gets nothing    *)
(* needs the request to stop where its token or its user is looked at, and *)
(* a token or a user to stay as bad as it was meanwhile (ShutStays); that  *)
(* a write is authorized needs what the session was found good for, which  *)
(* never changes (TokenOK).                                                *)
(***************************************************************************)
\* An account, a session and a request.
AcctSet == [st : {"none", "active", "disabled"}, pw : Passwords \cup {None}]
SessSet == [type : {None, "user", "admin"}, subj : Emails \cup Admins \cup {None}, pw : Passwords \cup {None},
            st : {"none", "live", "expired", "deleted"}]
RequestPcs == {"new", "hash", "lookup", "verify", "session", "auth", "subject",
               "body", "audit", "plan", "devices", "create", "done"}
Refusals == {"error", "EMAIL_EXISTS", "BAD_CREDENTIALS", "USER_DISABLED", "UNAUTHORIZED", "FORBIDDEN",
             "USER_NOT_FOUND", "CLOUD_SKILL_PLAN_NOT_FOUND", "CLOUD_SKILL_DEVICE_REQUIRED"}
RequestSet ==
  [kind : Kinds \cup {None}, pc : RequestPcs, ans : Refusals \cup {None, "ok"}, subj : Emails \cup Admins \cup {None},
   pw : Passwords \cup {None, "active", "disabled"}, token : Requests \cup {StaticToken}, copy : AcctSet,
   price : Prices \cup {0}, offers : SUBSET Prices, shut : {"no", "blocked", "token"}]

\* A request and its handler's place and locals.
StagesOK(q) ==
  /\ q.kind = None <=> q.pc = "new"
  /\ q.ans = None <=> q.pc # "done"
  /\ q.kind = "register" => q.pc \in {"hash", "session", "done"} /\ q.subj \in Emails /\ q.pw \in Passwords
  /\ q.kind = "login" => q.pc \in {"lookup", "verify", "session", "done"} /\ q.subj \in Emails /\ q.pw \in Passwords
  /\ q.kind = "adminLogin" => q.pc \in {"session", "audit", "done"} /\ q.subj \in Admins /\ q.pw = None
  /\ q.kind = "logout" => q.pc = "done"
  /\ q.kind = "order" => q.pc \in {"auth", "subject", "plan", "devices", "create", "done"} /\ q.token \in Requests
  /\ q.kind \in {"setStatus", "editPlan"} => q.pc \in {"auth", "subject", "body", "audit", "done"}
  /\ q.kind = "setStatus" => q.subj \in Emails /\ q.pw \in {"active", "disabled"}

\* Who made the account of an address, and who has its password.
OwnsAddress(q) == q.kind = "register" /\ (q.pc = "session" \/ q.ans = "ok")
KnowsPassword(q, ac) ==
  /\ OwnsAddress(q) \/ (q.kind = "login" /\ q.pc = "session") =>
       ac[q.subj].st # "none" /\ ac[q.subj].pw = q.pw
  /\ q.kind = "login" /\ q.pc = "verify" /\ q.copy.st # "none" =>
       ac[q.subj].st # "none" /\ ac[q.subj].pw = q.copy.pw

\* A request that is shut out stops where its token or its user is looked at.
ShutStays(q, ac, se) ==
  /\ q.shut # "no" => q.kind \in {"login", "order"} /\ q.ans # "ok"
  /\ q.shut = "token" => q.kind = "order" /\ se[q.token].st # "live" /\ q.pc \in {"auth", "done"}
  /\ q.shut = "blocked" /\ q.kind = "login" =>
       ac[q.subj].st = "disabled" /\ q.pc \in {"lookup", "verify", "done"} /\ (q.pc = "verify" => q.copy.st = "disabled")
  /\ q.shut = "blocked" /\ q.kind = "order" =>
       se[q.token].type = "user" /\ ac[se[q.token].subj].st = "disabled" /\ q.pc \in {"auth", "subject", "done"}

\* What a token has been found good for.
Writes == {"setStatus", "editPlan"}
TokenOK(q, se) ==
  /\ q.token \in Requests => se[q.token].st # "none"
  /\ q.kind = "order" /\ q.pc \notin {"auth", "done"} => se[q.token].type = "user"
  /\ q.kind \in Writes /\ q.pc = "subject" => q.token \in Requests /\ se[q.token].type = "admin"
  /\ q.kind \in Writes /\ (q.pc \in {"body", "audit"} \/ q.ans = "ok") =>
       q.token = StaticToken \/ (se[q.token].type = "admin" /\ se[q.token].subj = "ops")

\* The price of an order, and that of the plan while the order is under way.
PriceOK(q, pl) ==
  q.kind = "order" =>
    /\ q.pc \in {"devices", "create"} \/ q.ans = "ok" => q.price \in q.offers
    /\ q.pc # "done" /\ pl.listed => pl.price \in q.offers

\* Everything request r, when it is q, may rely on.
RequestOK(r, q, ac, se, pl, au) ==
  /\ StagesOK(q) /\ KnowsPassword(q, ac) /\ ShutStays(q, ac, se) /\ TokenOK(q, se) /\ PriceOK(q, pl)
  /\ q.kind \in Writes /\ q.ans = "ok" => r \in au

\* The shapes of the tables, exactly.
AccountTypes ==
  /\ astore \in {"memory", "postgres"}
  /\ acct \in [Emails -> AcctSet] /\ sess \in [Requests -> SessSet] /\ areq \in [Requests -> RequestSet]
  /\ plan \in [listed : BOOLEAN, price : Prices] /\ bound \subseteq Emails /\ audits \subseteq Requests

\* A session comes from a login that ended, with the password of its account.
Unfinished == {"new", "hash", "lookup", "verify", "session"}
SessionOK(t, s, q, ac) ==
  s.st # "none" =>
    /\ q.pc \notin Unfinished
    /\ \/ s.type = "user" /\ s.subj \in Emails /\ ac[s.subj].st # "none" /\ s.pw = ac[s.subj].pw
       \/ s.type = "admin" /\ s.subj \in Admins

\* No two requests made the account of one address.
OneOwner(rq) == \A r, p \in Requests : OwnsAddress(rq[r]) /\ OwnsAddress(rq[p]) /\ rq[r].subj = rq[p].subj => r = p

\* The inductive invariant.
AccountIInv ==
  /\ AccountTypes
  /\ \A t \in Requests : SessionOK(t, sess[t], areq[t], acct)
  /\ \A r \in Requests : RequestOK(r, areq[r], acct, sess, plan, audits)
  /\ OneOwner(areq)

\* What an answer and a further step make of a request.
Ends(q, a) == [q EXCEPT !.pc = "done", !.ans = a, !.copy = NoAccount]
GoesAt(q, pc) == [q EXCEPT !.pc = pc]

\* An address without an account.
LEMMA NoAccountIs == NoAccount \in AcctSet /\ NoAccount.st = "none"
  BY DEF NoAccount, AcctSet

\* A request that has been answered, field by field.
LEMMA EndsIs ==
  ASSUME NEW q \in RequestSet, NEW a \in Refusals \cup {None, "ok"}
  PROVE  /\ Ends(q, a) \in RequestSet /\ Ends(q, a).pc = "done" /\ Ends(q, a).ans = a
         /\ Ends(q, a).kind = q.kind /\ Ends(q, a).subj = q.subj /\ Ends(q, a).pw = q.pw
         /\ Ends(q, a).token = q.token /\ Ends(q, a).price = q.price /\ Ends(q, a).offers = q.offers
         /\ Ends(q, a).shut = q.shut
  <1>1. "done" \in RequestPcs
    BY DEF RequestPcs
  <1>2. Ends(q, a) \in RequestSet
    BY <1>1, NoAccountIs DEF Ends, RequestSet
  <1> QED BY <1>2 DEF Ends, RequestSet

\* A request at another place, field by field.
LEMMA GoesAtIs ==
  ASSUME NEW q \in RequestSet, NEW pc \in RequestPcs
  PROVE  /\ GoesAt(q, pc) \in RequestSet /\ GoesAt(q, pc).pc = pc /\ GoesAt(q, pc).ans = q.ans
         /\ GoesAt(q, pc).kind = q.kind /\ GoesAt(q, pc).subj = q.subj /\ GoesAt(q, pc).pw = q.pw
         /\ GoesAt(q, pc).token = q.token /\ GoesAt(q, pc).price = q.price /\ GoesAt(q, pc).offers = q.offers
         /\ GoesAt(q, pc).shut = q.shut /\ GoesAt(q, pc).copy = q.copy
  BY DEF GoesAt, RequestSet

\* Both touch one request.
LEMMA AnswersAre ==
  ASSUME areq \in [Requests -> RequestSet], NEW r \in Requests
  PROVE  /\ \A a : Replies(r, a) = [areq EXCEPT ![r] = Ends(areq[r], a)]
         /\ \A pc : MovesTo(r, pc) = [areq EXCEPT ![r] = GoesAt(areq[r], pc)]
  BY DEF Replies, MovesTo, Ends, GoesAt, RequestSet

\* At the start there is no account, session or request.
LEMMA AccountInitKeeps == AccountInit => AccountIInv
  <1> SUFFICES ASSUME AccountInit PROVE AccountIInv
    OBVIOUS
  <1>1. NoRequest \in RequestSet /\ NoRequest.kind = None /\ NoRequest.pc = "new" /\ NoRequest.ans = None
        /\ NoRequest.shut = "no" /\ NoRequest.token = StaticToken
    BY NoAccountIs DEF NoRequest, RequestSet, RequestPcs, None
  <1>2. NoSession \in SessSet /\ NoSession.st = "none"
    BY DEF NoSession, SessSet
  <1>3. AccountTypes
    BY <1>1, <1>2, NoAccountIs DEF AccountInit, AccountTypes
  <1>4. StaticToken \notin Requests
    BY DEF StaticToken, Requests
  <1>5. \A r \in Requests : RequestOK(r, NoRequest, acct, sess, plan, audits)
    BY <1>1, <1>4 DEF RequestOK, StagesOK, KnowsPassword, OwnsAddress, ShutStays, TokenOK, PriceOK, Writes, None
  <1>6. \A t \in Requests : SessionOK(t, NoSession, NoRequest, acct)
    BY <1>2 DEF SessionOK
  <1>7. OneOwner(areq)
    BY <1>1 DEF AccountInit, OneOwner, OwnsAddress, None
  <1> QED BY <1>3, <1>5, <1>6, <1>7 DEF AccountInit, AccountIInv

\* A request goes on, and what it is judged by stays.
LEMMA OneMoves ==
  ASSUME AccountIInv, NEW r \in Requests, NEW q \in RequestSet, areq' = [areq EXCEPT ![r] = q],
         UNCHANGED <<astore, acct, sess, plan, bound>>, audits \subseteq audits', audits' \subseteq Requests,
         RequestOK(r, q, acct, sess, plan, audits'),
         OwnsAddress(q) => OwnsAddress(areq[r]) /\ q.subj = areq[r].subj,
         q.pc \in Unfinished => areq[r].pc \in Unfinished
  PROVE  AccountIInv'
  <1>1. areq \in [Requests -> RequestSet]
    BY DEF AccountIInv, AccountTypes
  <1>2. areq' \in [Requests -> RequestSet] /\ areq'[r] = q /\ \A p \in Requests : p # r => areq'[p] = areq[p]
    BY <1>1
  <1>3. AccountTypes'
    BY <1>2 DEF AccountIInv, AccountTypes
  <1>4. \A t \in Requests : SessionOK(t, sess'[t], areq'[t], acct')
    BY <1>2 DEF AccountIInv, SessionOK
  <1>5. \A p \in Requests : RequestOK(p, areq'[p], acct', sess', plan', audits')
    <2>1. \A p \in Requests : RequestOK(p, areq[p], acct, sess, plan, audits')
      BY DEF AccountIInv, RequestOK
    <2> QED BY <1>2, <2>1
  <1>6. OneOwner(areq')
    BY <1>2 DEF AccountIInv, OneOwner
  <1> QED BY <1>3, <1>4, <1>5, <1>6 DEF AccountIInv

\* An answer that is not ok ends a request without owning anything.
LEMMA RefusalHolds ==
  ASSUME NEW r, NEW q \in RequestSet, NEW a \in Refusals, NEW ac, NEW se, NEW pl, NEW au,
         RequestOK(r, q, ac, se, pl, au), q.pc # "new"
  PROVE  RequestOK(r, Ends(q, a), ac, se, pl, au) /\ ~OwnsAddress(Ends(q, a)) /\ Ends(q, a) \in RequestSet
  <1> DEFINE e == Ends(q, a)
  <1>1. /\ e \in RequestSet /\ e.pc = "done" /\ e.ans = a /\ a # "ok" /\ a # None /\ e.kind = q.kind /\ e.subj = q.subj
        /\ e.pw = q.pw /\ e.token = q.token /\ e.price = q.price /\ e.offers = q.offers /\ e.shut = q.shut
    BY EndsIs DEF Refusals, None
  <1> HIDE DEF e
  <1>2. StagesOK(e)
    BY <1>1 DEF RequestOK, StagesOK
  <1>3. KnowsPassword(e, ac) /\ ~OwnsAddress(e)
    BY <1>1 DEF KnowsPassword, OwnsAddress
  <1>4. ShutStays(e, ac, se)
    BY <1>1 DEF RequestOK, ShutStays
  <1>5. TokenOK(e, se) /\ PriceOK(e, pl)
    BY <1>1 DEF RequestOK, TokenOK, PriceOK
  <1> QED BY <1>1, <1>2, <1>3, <1>4, <1>5 DEF e, RequestOK

\* So a refusal keeps the invariant wherever it happens, as does a store call that throws.
LEMMA RefusalKeeps ==
  ASSUME AccountIInv, NEW r \in Requests, NEW a \in Refusals, areq[r].pc # "new", areq' = Replies(r, a),
         UNCHANGED <<astore, acct, sess, plan, bound, audits>>
  PROVE  AccountIInv'
  <1>1. areq \in [Requests -> RequestSet] /\ audits \subseteq Requests /\ RequestOK(r, areq[r], acct, sess, plan, audits)
    BY DEF AccountIInv, AccountTypes
  <1>2. areq' = [areq EXCEPT ![r] = Ends(areq[r], a)]
    BY <1>1, AnswersAre
  <1>3. /\ RequestOK(r, Ends(areq[r], a), acct, sess, plan, audits) /\ ~OwnsAddress(Ends(areq[r], a))
        /\ Ends(areq[r], a) \in RequestSet /\ Ends(areq[r], a).pc = "done"
    BY <1>1, RefusalHolds, EndsIs
  <1> QED BY <1>1, <1>2, <1>3, OneMoves DEF Unfinished

\* What the invariant says of one request.
LEMMA AtHand ==
  ASSUME AccountIInv, NEW r \in Requests
  PROVE  /\ areq \in [Requests -> RequestSet] /\ areq[r] \in RequestSet /\ audits \subseteq Requests
         /\ RequestOK(r, areq[r], acct, sess, plan, audits) /\ SessionOK(r, sess[r], areq[r], acct)
         /\ acct \in [Emails -> AcctSet] /\ sess \in [Requests -> SessSet]
         /\ plan \in [listed : BOOLEAN, price : Prices]
         /\ \A a : Replies(r, a) = [areq EXCEPT ![r] = Ends(areq[r], a)]
         /\ \A pc : MovesTo(r, pc) = [areq EXCEPT ![r] = GoesAt(areq[r], pc)]
  <1>1. areq \in [Requests -> RequestSet]
    BY DEF AccountIInv, AccountTypes
  <1> QED BY <1>1, AnswersAre DEF AccountIInv, AccountTypes

\* A request that arrives is shut out for what is true of its token and its user now.
LEMMA BeginKeeps ==
  ASSUME AccountIInv, NEW r \in Requests, NEW kind, NEW pc, NEW e, NEW p, NEW t, Begin(r, kind, pc, e, p, t),
         \/ kind = "register" /\ pc = "hash" /\ e \in Emails /\ p \in Passwords /\ t = StaticToken
         \/ kind = "login" /\ pc = "lookup" /\ e \in Emails /\ p \in Passwords /\ t = StaticToken
         \/ kind = "adminLogin" /\ pc = "session" /\ e \in Admins /\ p = None /\ t = StaticToken
         \/ kind = "order" /\ pc = "auth" /\ e = None /\ p = None /\ t \in Tokens \cap Requests
         \/ kind = "setStatus" /\ pc = "auth" /\ e \in Emails /\ p \in {"active", "disabled"} /\ t \in Tokens
         \/ kind = "editPlan" /\ pc = "auth" /\ e = None /\ p = None /\ t \in Tokens
  PROVE  AccountIInv'
  <1> DEFINE offers == IF kind = "order" /\ plan.listed THEN {plan.price} ELSE {}
             q == [NoRequest EXCEPT !.kind = kind, !.pc = pc, !.subj = e, !.pw = p, !.token = t,
                                    !.offers = offers, !.shut = ShutOut(kind, e, t)]
  <1>1. areq' = [areq EXCEPT ![r] = q] /\ UNCHANGED <<astore, acct, sess, plan, bound, audits>> /\ areq[r].pc = "new"
    BY DEF Begin, NextRequest
  <1>2. /\ q.kind = kind /\ q.pc = pc /\ q.subj = e /\ q.pw = p /\ q.token = t /\ q.offers = offers /\ q.ans = None
        /\ q.shut = ShutOut(kind, e, t) /\ q.copy = NoAccount /\ q.price = 0
    BY DEF NoRequest
  <1>3. /\ ShutOut(kind, e, t) \in {"no", "blocked", "token"}
        /\ ShutOut(kind, e, t) # "no" => kind \in {"login", "order"}
        /\ ShutOut(kind, e, t) = "token" => kind = "order" /\ DeadToken(t)
        /\ ShutOut(kind, e, t) = "blocked" /\ kind = "login" => acct[e].st = "disabled"
        /\ ShutOut(kind, e, t) = "blocked" /\ kind = "order" => sess[t].type = "user" /\ acct[sess[t].subj].st = "disabled"
    BY DEF ShutOut
  <1>4. plan \in [listed : BOOLEAN, price : Prices] /\ audits \subseteq Requests
    BY AtHand
  <1>5. t \in Requests \cup {StaticToken} /\ (t \in Requests => sess[t].st # "none") /\ StaticToken \notin Requests
    BY DEF Tokens, StaticToken, Requests
  <1>6. offers \in SUBSET Prices /\ (kind = "order" /\ plan.listed => plan.price \in offers)
    BY <1>4
  <1>7. kind \in Kinds /\ pc \in RequestPcs /\ e \in Emails \cup Admins \cup {None} /\ p \in Passwords \cup {None, "active", "disabled"}
    BY DEF Kinds, RequestPcs
  <1> DEFINE shut == ShutOut(kind, e, t)
  <1> HIDE DEF offers, shut
  <1>8. [NoRequest EXCEPT !.kind = kind, !.pc = pc, !.subj = e, !.pw = p, !.token = t, !.offers = offers, !.shut = shut] \in RequestSet
    BY <1>3, <1>5, <1>6, <1>7, NoAccountIs DEF NoRequest, RequestSet, shut
  <1> HIDE DEF q
  <1>9. q \in RequestSet
    BY <1>8 DEF q, shut
  <1>10. StagesOK(q) /\ ~OwnsAddress(q)
    BY <1>2 DEF StagesOK, OwnsAddress, None, Admins
  <1>11. KnowsPassword(q, acct)
    BY <1>2, <1>10 DEF KnowsPassword
  <1>12. ShutStays(q, acct, sess)
    BY <1>2, <1>3 DEF ShutStays, DeadToken, None
  <1>13. TokenOK(q, sess)
    BY <1>2, <1>5 DEF TokenOK, Writes, None
  <1>14. PriceOK(q, plan) /\ q.ans # "ok"
    BY <1>2, <1>6 DEF PriceOK, None
  <1>15. RequestOK(r, q, acct, sess, plan, audits')
    BY <1>10, <1>11, <1>12, <1>13, <1>14 DEF RequestOK
  <1> QED BY <1>1, <1>4, <1>9, <1>10, <1>15, OneMoves DEF Unfinished

\* The requests that arrive, by kind.
LEMMA ArrivesKeeps ==
  ASSUME AccountIInv, NEW r \in Requests, Arrives(r)
  PROVE  AccountIInv'
  <1>1. ASSUME NEW e \in Emails, NEW p \in Passwords, Begin(r, "register", "hash", e, p, StaticToken) PROVE AccountIInv'
    BY <1>1, BeginKeeps
  <1>2. ASSUME NEW e \in Emails, NEW p \in Passwords, Begin(r, "login", "lookup", e, p, StaticToken) PROVE AccountIInv'
    BY <1>2, BeginKeeps
  <1>3. ASSUME NEW a \in Admins, Begin(r, "adminLogin", "session", a, None, StaticToken) PROVE AccountIInv'
    BY <1>3, BeginKeeps
  <1>4. ASSUME NEW t \in Tokens \cap Requests, Begin(r, "order", "auth", None, None, t) PROVE AccountIInv'
    BY <1>4, BeginKeeps
  <1>5. ASSUME NEW t \in Tokens, NEW e \in Emails, NEW p \in {"active", "disabled"},
               Begin(r, "setStatus", "auth", e, p, t) PROVE AccountIInv'
    BY <1>5, BeginKeeps
  <1>6. ASSUME NEW t \in Tokens, Begin(r, "editPlan", "auth", None, None, t) PROVE AccountIInv'
    BY <1>6, BeginKeeps
  <1> QED BY <1>1, <1>2, <1>3, <1>4, <1>5, <1>6 DEF Arrives

\* A request takes the next stage, with what it knows already.
LEMMA StageKeeps ==
  ASSUME AccountIInv, NEW r \in Requests, NEW pc \in RequestPcs, areq' = MovesTo(r, pc),
         UNCHANGED <<astore, acct, sess, plan, bound, audits>>,
         RequestOK(r, GoesAt(areq[r], pc), acct, sess, plan, audits),
         OwnsAddress(GoesAt(areq[r], pc)) => OwnsAddress(areq[r]), pc \in Unfinished => areq[r].pc \in Unfinished
  PROVE  AccountIInv'
  <1>1. /\ areq[r] \in RequestSet /\ audits \subseteq Requests
        /\ areq' = [areq EXCEPT ![r] = GoesAt(areq[r], pc)]
    BY AtHand
  <1>2. GoesAt(areq[r], pc) \in RequestSet /\ GoesAt(areq[r], pc).pc = pc /\ GoesAt(areq[r], pc).subj = areq[r].subj
    BY <1>1, GoesAtIs
  <1> QED BY <1>1, <1>2, OneMoves

\* The address decides: who finds no account there is its first and only owner.
LEMMA CreateUserKeeps ==
  ASSUME AccountIInv, NEW r \in Requests, CreateUser(r)
  PROVE  AccountIInv'
  <1> DEFINE e == areq[r].subj
             q == GoesAt(areq[r], "session")
  <1>1. /\ areq[r] \in RequestSet /\ areq[r].pc = "hash" /\ areq[r].kind = "register" /\ e \in Emails
        /\ areq[r].pw \in Passwords /\ RequestOK(r, areq[r], acct, sess, plan, audits)
        /\ areq \in [Requests -> RequestSet] /\ acct \in [Emails -> AcctSet]
        /\ UNCHANGED <<astore, sess, plan, bound, audits>>
    <2>1. /\ areq[r] \in RequestSet /\ RequestOK(r, areq[r], acct, sess, plan, audits) /\ areq[r].pc = "hash"
          /\ areq \in [Requests -> RequestSet] /\ acct \in [Emails -> AcctSet]
      BY AtHand DEF CreateUser
    <2>2. areq[r].kind \in Kinds \cup {None}
      BY <2>1 DEF RequestSet
    <2>3. areq[r].kind = "register"
      BY <2>1, <2>2 DEF RequestOK, StagesOK, Kinds, None
    <2> QED BY <2>1, <2>3 DEF RequestOK, StagesOK, CreateUser
  <1>2. CASE acct[e].st # "none"
    <2>1. areq' = Replies(r, "EMAIL_EXISTS") /\ UNCHANGED acct
      BY <1>2 DEF CreateUser
    <2> QED BY <1>1, <2>1, RefusalKeeps DEF Refusals
  <1>3. CASE acct[e].st = "none"
    <2>1. acct' = [acct EXCEPT ![e] = [st |-> "active", pw |-> areq[r].pw]] /\ areq' = [areq EXCEPT ![r] = q]
      BY <1>3, AtHand DEF CreateUser
    <2>2. /\ acct' \in [Emails -> AcctSet] /\ acct'[e].st = "active" /\ acct'[e].pw = areq[r].pw
          /\ \A x \in Emails : acct[x].st # "none" => acct'[x] = acct[x]
      BY <1>1, <1>3, <2>1 DEF AcctSet
    <2>3. /\ q \in RequestSet /\ q.pc = "session" /\ q.ans = areq[r].ans /\ q.kind = "register" /\ q.subj = e
          /\ q.pw = areq[r].pw /\ q.token = areq[r].token /\ q.shut = areq[r].shut
      BY <1>1, GoesAtIs DEF RequestPcs
    <2> HIDE DEF q, e
    <2>4. areq' \in [Requests -> RequestSet] /\ areq'[r] = q /\ \A p \in Requests : p # r => areq'[p] = areq[p]
      BY <1>1, <2>1, <2>3
    <2>5. AccountTypes'
      BY <1>1, <2>2, <2>4 DEF AccountIInv, AccountTypes
    <2>6. \A t \in Requests : SessionOK(t, sess'[t], areq'[t], acct')
      BY <1>1, <2>2, <2>3, <2>4 DEF AccountIInv, SessionOK, Unfinished
    <2>7. RequestOK(r, q, acct', sess', plan', audits')
      <3>1. StagesOK(q)
        BY <1>1, <2>3 DEF RequestOK, StagesOK, e
      <3>2. KnowsPassword(q, acct')
        BY <1>1, <2>2, <2>3 DEF KnowsPassword
      <3>3. ShutStays(q, acct', sess') /\ TokenOK(q, sess') /\ PriceOK(q, plan') /\ ~(q.kind \in Writes)
        BY <1>1, <2>3 DEF RequestOK, ShutStays, TokenOK, PriceOK, Writes
      <3> QED BY <3>1, <3>2, <3>3 DEF RequestOK
    <2>8. ASSUME NEW p \in Requests, p # r PROVE RequestOK(p, areq'[p], acct', sess', plan', audits')
      <3>1. RequestOK(p, areq[p], acct, sess, plan, audits) /\ areq'[p] = areq[p]
        BY <2>4, <2>8, AtHand
      <3>2. KnowsPassword(areq[p], acct')
        <4>1. areq[p].kind \in {"register", "login"} => areq[p].subj \in Emails
          BY <3>1 DEF RequestOK, StagesOK
        <4> QED BY <3>1, <4>1, <2>2 DEF RequestOK, KnowsPassword, OwnsAddress
      <3>3. ShutStays(areq[p], acct', sess')
        <4>1. areq[p].kind = "login" => areq[p].subj \in Emails
          BY <3>1 DEF RequestOK, StagesOK
        <4>2. areq[p].kind = "order" /\ sess[areq[p].token].type = "user" => sess[areq[p].token].subj \in Emails
          <5>1. areq[p].kind = "order" => areq[p].token \in Requests /\ sess[areq[p].token].st # "none"
            BY <3>1 DEF RequestOK, StagesOK, TokenOK
          <5> QED BY <5>1 DEF AccountIInv, SessionOK
        <4>3. ShutStays(areq[p], acct, sess) /\ sess' = sess
          BY <1>1, <3>1 DEF RequestOK
        <4> QED BY <4>1, <4>2, <4>3, <2>2 DEF ShutStays
      <3> QED BY <1>1, <3>1, <3>2, <3>3 DEF RequestOK
    <2>9. OneOwner(areq')
      <3>1. \A p \in Requests : OwnsAddress(areq[p]) => areq[p].subj # e
        <4>1. ASSUME NEW p \in Requests, OwnsAddress(areq[p]) PROVE acct[areq[p].subj].st # "none"
          BY <4>1, AtHand DEF RequestOK, KnowsPassword
        <4> QED BY <1>3, <4>1
      <3> QED BY <2>3, <2>4, <3>1 DEF AccountIInv, OneOwner
    <2> QED BY <2>4, <2>5, <2>6, <2>7, <2>8, <2>9 DEF AccountIInv
  <1> QED BY <1>2, <1>3

\* Where a request stands tells what it may be.
LEMMA KindAt ==
  ASSUME NEW q \in RequestSet, StagesOK(q)
  PROVE  /\ q.pc \in {"lookup", "verify"} => q.kind = "login"
         /\ q.pc = "session" => q.kind \in {"register", "login", "adminLogin"}
         /\ q.pc \in {"auth", "subject"} => q.kind \in {"order", "setStatus", "editPlan"}
         /\ q.pc = "body" => q.kind \in Writes
         /\ q.pc = "audit" => q.kind \in {"adminLogin", "setStatus", "editPlan"}
         /\ q.pc \in {"plan", "devices", "create"} => q.kind = "order"
  <1>1. q.kind \in Kinds \cup {None}
    BY DEF RequestSet
  <1> QED BY <1>1 DEF StagesOK, Kinds, Writes, None

\* The copy of the account is as the account is.
LEMMA GetUserByEmailKeeps ==
  ASSUME AccountIInv, NEW r \in Requests, GetUserByEmail(r)
  PROVE  AccountIInv'
  <1> DEFINE e == areq[r].subj
             q == [areq[r] EXCEPT !.copy = acct[e], !.pc = "verify"]
  <1>1. /\ areq[r] \in RequestSet /\ areq[r].pc = "lookup" /\ RequestOK(r, areq[r], acct, sess, plan, audits)
        /\ acct \in [Emails -> AcctSet] /\ audits \subseteq Requests
        /\ areq' = [areq EXCEPT ![r].copy = acct[e], ![r].pc = "verify"] /\ areq \in [Requests -> RequestSet]
        /\ UNCHANGED <<astore, acct, sess, plan, bound, audits>>
    BY AtHand DEF GetUserByEmail
  <1>2. areq[r].kind = "login" /\ e \in Emails
    <2>1. areq[r].kind = "login"
      BY <1>1, KindAt DEF RequestOK
    <2> QED BY <1>1, <2>1 DEF RequestOK, StagesOK
  <1>3. /\ q \in RequestSet /\ q.kind = "login" /\ q.pc = "verify" /\ q.copy = acct[e] /\ q.subj = e /\ q.ans = areq[r].ans
        /\ q.pw = areq[r].pw /\ q.token = areq[r].token /\ q.shut = areq[r].shut
    BY <1>1, <1>2 DEF RequestSet, RequestPcs
  <1>4. areq' = [areq EXCEPT ![r] = q]
    BY <1>1
  <1> HIDE DEF q
  <1>5. StagesOK(q) /\ KnowsPassword(q, acct) /\ ShutStays(q, acct, sess) /\ TokenOK(q, sess) /\ PriceOK(q, plan)
    <2>1. StagesOK(q)
      BY <1>1, <1>2, <1>3 DEF RequestOK, StagesOK
    <2>2. KnowsPassword(q, acct)
      BY <1>1, <1>2, <1>3 DEF RequestOK, StagesOK, KnowsPassword, OwnsAddress, None
    <2>3. ShutStays(q, acct, sess)
      BY <1>1, <1>2, <1>3 DEF RequestOK, ShutStays
    <2> QED BY <1>1, <1>2, <1>3, <2>1, <2>2, <2>3 DEF RequestOK, TokenOK, PriceOK, Writes
  <1>6. RequestOK(r, q, acct, sess, plan, audits) /\ ~OwnsAddress(q)
    BY <1>3, <1>5 DEF RequestOK, OwnsAddress, Writes
  <1> QED BY <1>1, <1>3, <1>4, <1>6, OneMoves DEF Unfinished

\* Who passes knows the password, and was not blocked when the copy was taken.
LEMMA VerifyPasswordKeeps ==
  ASSUME AccountIInv, NEW r \in Requests, VerifyPassword(r)
  PROVE  AccountIInv'
  <1> DEFINE e == areq[r].subj
             user == IF astore = "memory" /\ areq[r].copy.st # "none" THEN acct[e] ELSE areq[r].copy
             q == GoesAt(areq[r], "session")
  <1>1. /\ areq[r] \in RequestSet /\ areq[r].pc = "verify" /\ RequestOK(r, areq[r], acct, sess, plan, audits)
        /\ acct \in [Emails -> AcctSet] /\ UNCHANGED <<astore, acct, sess, plan, bound, audits>>
        /\ areq' = CASE user.st = "none" \/ user.pw # areq[r].pw -> Replies(r, "BAD_CREDENTIALS")
                      [] user.st = "disabled" /\ user.pw = areq[r].pw -> Replies(r, "USER_DISABLED")
                      [] OTHER -> MovesTo(r, "session")
    BY AtHand DEF VerifyPassword
  <1>2. areq[r].kind = "login" /\ e \in Emails
    <2>1. areq[r].kind = "login"
      BY <1>1, KindAt DEF RequestOK
    <2> QED BY <1>1, <2>1 DEF RequestOK, StagesOK
  <1>3. CASE user.st = "none" \/ user.pw # areq[r].pw
    <2>1. areq' = Replies(r, "BAD_CREDENTIALS")
      BY <1>1, <1>3
    <2> QED BY <1>1, <2>1, RefusalKeeps DEF Refusals
  <1>4. CASE user.st = "disabled" /\ user.pw = areq[r].pw
    <2>1. areq' = Replies(r, "USER_DISABLED")
      BY <1>1, <1>4
    <2> QED BY <1>1, <2>1, RefusalKeeps DEF Refusals
  <1>5. CASE user.st \notin {"none", "disabled"} /\ user.pw = areq[r].pw
    <2>1. areq' = MovesTo(r, "session")
      BY <1>1, <1>5
    <2>2. /\ q.pc = "session" /\ q.kind = "login" /\ q.subj = e /\ q.pw = areq[r].pw /\ q.token = areq[r].token
          /\ q.shut = areq[r].shut /\ q.ans = areq[r].ans
      BY <1>1, <1>2, GoesAtIs DEF RequestPcs
    <2>3. areq[r].copy.st # "none" /\ acct[e].st # "none" /\ acct[e].pw = areq[r].pw
      <3>1. areq[r].copy.st # "none"
        BY <1>5
      <3>2. acct[e].st # "none" /\ acct[e].pw = areq[r].copy.pw
        BY <1>1, <1>2, <3>1 DEF RequestOK, KnowsPassword
      <3> QED BY <1>5, <3>1, <3>2
    <2>4. areq[r].shut # "blocked"
      <3>1. ASSUME areq[r].shut = "blocked" PROVE acct[e].st = "disabled" /\ areq[r].copy.st = "disabled"
        BY <1>1, <1>2, <3>1 DEF RequestOK, ShutStays
      <3> QED BY <1>5, <3>1
    <2> HIDE DEF q
    <2>5. StagesOK(q)
      BY <1>1, <1>2, <2>2 DEF RequestOK, StagesOK
    <2>6. KnowsPassword(q, acct)
      BY <2>2, <2>3 DEF KnowsPassword
    <2>7. ShutStays(q, acct, sess)
      BY <1>1, <1>2, <2>2, <2>4 DEF RequestOK, ShutStays
    <2>8. TokenOK(q, sess) /\ PriceOK(q, plan) /\ q.kind \notin Writes /\ ~OwnsAddress(q)
      BY <1>1, <2>2 DEF RequestOK, TokenOK, PriceOK, Writes, OwnsAddress
    <2>9. RequestOK(r, q, acct, sess, plan, audits)
      BY <2>5, <2>6, <2>7, <2>8 DEF RequestOK
    <2> QED BY <1>1, <2>1, <2>8, <2>9, StageKeeps DEF q, RequestPcs, Unfinished
  <1> QED BY <1>3, <1>4, <1>5

\* Sessions come, end and expire: what a request knows of its own stays.
LEMMA SessionsChange ==
  ASSUME NEW r, NEW q \in RequestSet, NEW ac, NEW se, NEW new, NEW pl, NEW au, RequestOK(r, q, ac, se, pl, au),
         q.token \in Requests => /\ new[q.token].type = se[q.token].type /\ new[q.token].subj = se[q.token].subj
                                 /\ new[q.token].st # "none" /\ (se[q.token].st # "live" => new[q.token].st # "live")
  PROVE  RequestOK(r, q, ac, new, pl, au)
  <1>1. q.token \in Requests \cup {StaticToken}
    BY DEF RequestSet
  <1>2. StagesOK(q) /\ ShutStays(q, ac, se) /\ TokenOK(q, se)
    BY DEF RequestOK
  <1>3. q.kind = "order" => q.token \in Requests
    BY <1>2 DEF StagesOK
  <1>4. ShutStays(q, ac, new)
    BY <1>2, <1>3 DEF ShutStays
  <1>5. TokenOK(q, new)
    BY <1>1, <1>2, <1>3 DEF TokenOK
  <1> QED BY <1>4, <1>5 DEF RequestOK

\* The token of a new session is nobody's yet.
LEMMA CreateSessionKeeps ==
  ASSUME AccountIInv, NEW r \in Requests, CreateSession(r)
  PROVE  AccountIInv'
  <1> DEFINE admin == areq[r].kind = "adminLogin"
             s == [type |-> IF admin THEN "admin" ELSE "user", subj |-> areq[r].subj, pw |-> areq[r].pw, st |-> "live"]
             q == IF admin THEN GoesAt(areq[r], "audit") ELSE Ends(areq[r], "ok")
  <1>1. /\ areq[r] \in RequestSet /\ areq \in [Requests -> RequestSet] /\ sess \in [Requests -> SessSet]
        /\ areq[r].pc = "session" /\ RequestOK(r, areq[r], acct, sess, plan, audits)
        /\ SessionOK(r, sess[r], areq[r], acct) /\ UNCHANGED <<astore, acct, plan, bound, audits>>
        /\ sess' = [sess EXCEPT ![r] = s] /\ areq' = [areq EXCEPT ![r] = q]
    BY AtHand DEF CreateSession
  <1>2. areq[r].kind \in {"register", "login", "adminLogin"} /\ sess[r].st = "none"
    BY <1>1, KindAt DEF RequestOK, SessionOK, Unfinished
  <1>3. /\ admin => areq[r].subj \in Admins /\ areq[r].pw = None
        /\ ~admin => areq[r].subj \in Emails /\ areq[r].pw \in Passwords
    BY <1>1, <1>2 DEF RequestOK, StagesOK
  <1>4. /\ q \in RequestSet /\ q.pc \in {"audit", "done"} /\ q.kind = areq[r].kind /\ q.subj = areq[r].subj /\ q.pw = areq[r].pw
        /\ q.token = areq[r].token /\ q.shut = areq[r].shut
        /\ (admin => q.pc = "audit" /\ q.ans = areq[r].ans) /\ (~admin => q.pc = "done" /\ q.ans = "ok")
    BY <1>1, GoesAtIs, EndsIs DEF RequestPcs
  <1>5. s \in SessSet /\ s.st = "live" /\ s.subj = areq[r].subj /\ s.pw = areq[r].pw /\ s.type = IF admin THEN "admin" ELSE "user"
    BY <1>3 DEF SessSet
  <1>6. ~admin => acct[areq[r].subj].st # "none" /\ acct[areq[r].subj].pw = areq[r].pw
    BY <1>1, <1>2 DEF RequestOK, KnowsPassword, OwnsAddress
  <1>7. ~admin => areq[r].shut = "no"
    <2>1. areq[r].shut \in {"no", "blocked", "token"}
      BY <1>1 DEF RequestSet
    <2> QED BY <1>1, <1>2, <2>1 DEF RequestOK, ShutStays
  <1> HIDE DEF q, s
  <1>8. /\ areq' \in [Requests -> RequestSet] /\ areq'[r] = q /\ (\A p \in Requests : p # r => areq'[p] = areq[p])
        /\ sess' \in [Requests -> SessSet] /\ sess'[r] = s /\ (\A t \in Requests : t # r => sess'[t] = sess[t])
    BY <1>1, <1>4, <1>5
  <1>9. AccountTypes'
    BY <1>1, <1>8 DEF AccountIInv, AccountTypes
  <1>10. \A p \in Requests : RequestOK(p, areq[p], acct', sess', plan', audits')
    <2>1. ASSUME NEW p \in Requests PROVE RequestOK(p, areq[p], acct', sess', plan', audits')
      <3>1. RequestOK(p, areq[p], acct, sess, plan, audits) /\ areq[p] \in RequestSet
        BY AtHand
      <3>2. areq[p].token \in Requests => sess'[areq[p].token] = sess[areq[p].token] /\ sess[areq[p].token].st # "none"
        BY <1>2, <1>8, <3>1 DEF RequestOK, TokenOK
      <3>3. RequestOK(p, areq[p], acct, sess', plan, audits)
        BY <3>1, <3>2, SessionsChange
      <3> QED BY <1>1, <3>3
    <2> QED BY <2>1
  <1>11. RequestOK(r, q, acct', sess', plan', audits')
    <2>1. RequestOK(r, areq[r], acct, sess', plan, audits)
      BY <1>1, <1>10
    <2>2. StagesOK(q)
      BY <1>1, <1>2, <1>4, <2>1 DEF RequestOK, StagesOK, None
    <2>3. KnowsPassword(q, acct)
      BY <1>2, <1>4, <1>6 DEF KnowsPassword, OwnsAddress
    <2>4. ShutStays(q, acct, sess')
      BY <1>2, <1>4, <1>7, <2>1 DEF RequestOK, ShutStays
    <2>5. TokenOK(q, sess') /\ PriceOK(q, plan) /\ q.kind \notin Writes
      BY <1>2, <1>4, <2>1 DEF RequestOK, TokenOK, PriceOK, Writes
    <2> QED BY <1>1, <2>2, <2>3, <2>4, <2>5 DEF RequestOK
  <1>12. \A t \in Requests : SessionOK(t, sess'[t], areq'[t], acct')
    <2>1. SessionOK(r, s, q, acct)
      BY <1>3, <1>4, <1>5, <1>6 DEF SessionOK, Unfinished
    <2> QED BY <1>1, <1>8, <2>1 DEF AccountIInv
  <1>13. OneOwner(areq')
    <2>1. OwnsAddress(q) => OwnsAddress(areq[r]) /\ q.subj = areq[r].subj
      BY <1>1, <1>4 DEF OwnsAddress
    <2> QED BY <1>8, <2>1 DEF AccountIInv, OneOwner
  <1> QED BY <1>8, <1>9, <1>10, <1>11, <1>12, <1>13 DEF AccountIInv

\* A session that ends was made, and stays dead.
LEMMA SessionEnds ==
  ASSUME AccountIInv, NEW t \in Requests, NEW st \in {"expired", "deleted"}, sess[t].st # "none",
         sess' = [sess EXCEPT ![t].st = st], UNCHANGED <<astore, acct, plan, bound, audits>>
  PROVE  /\ sess' \in [Requests -> SessSet]
         /\ \A p \in Requests : RequestOK(p, areq[p], acct', sess', plan', audits')
         /\ \A p \in Requests : SessionOK(p, sess'[p], areq[p], acct')
         /\ \A p \in Requests : sess[p].st # "none" => sess'[p].st # "none"
  <1>1. sess \in [Requests -> SessSet]
    BY DEF AccountIInv, AccountTypes
  <1>2. /\ sess' \in [Requests -> SessSet]
        /\ \A p \in Requests : /\ sess'[p].type = sess[p].type /\ sess'[p].subj = sess[p].subj /\ sess'[p].pw = sess[p].pw
                               /\ (sess[p].st # "none" <=> sess'[p].st # "none")
                               /\ (sess[p].st # "live" => sess'[p].st # "live")
    BY <1>1 DEF SessSet
  <1>3. ASSUME NEW p \in Requests PROVE RequestOK(p, areq[p], acct', sess', plan', audits')
    <2>1. RequestOK(p, areq[p], acct, sess, plan, audits) /\ areq[p] \in RequestSet
      BY AtHand
    <2>2. areq[p].token \in Requests => sess[areq[p].token].st # "none"
      BY <2>1 DEF RequestOK, TokenOK
    <2>3. areq[p].token \in Requests =>
            /\ sess'[areq[p].token].type = sess[areq[p].token].type /\ sess'[areq[p].token].subj = sess[areq[p].token].subj
            /\ sess'[areq[p].token].st # "none"
            /\ (sess[areq[p].token].st # "live" => sess'[areq[p].token].st # "live")
      BY <1>2, <2>2
    <2>4. RequestOK(p, areq[p], acct, sess', plan, audits)
      BY <2>1, <2>3, SessionsChange
    <2> QED BY <2>4
  <1>4. \A p \in Requests : SessionOK(p, sess'[p], areq[p], acct')
    BY <1>2 DEF AccountIInv, SessionOK
  <1> QED BY <1>2, <1>3, <1>4

\* expires_at ends a session that was made.
LEMMA SessionExpiresKeeps ==
  ASSUME AccountIInv, NEW t \in Requests, SessionExpires(t)
  PROVE  AccountIInv'
  <1>1. /\ sess[t].st = "live" /\ sess' = [sess EXCEPT ![t].st = "expired"]
        /\ UNCHANGED <<astore, acct, areq, plan, bound, audits>>
    BY DEF SessionExpires
  <1>2. /\ sess' \in [Requests -> SessSet]
        /\ \A p \in Requests : RequestOK(p, areq[p], acct', sess', plan', audits')
        /\ \A p \in Requests : SessionOK(p, sess'[p], areq[p], acct')
    BY <1>1, SessionEnds
  <1>3. AccountTypes'
    BY <1>1, <1>2 DEF AccountIInv, AccountTypes
  <1> QED BY <1>1, <1>2, <1>3 DEF AccountIInv

\* A logout ends a session that was made, and is over at once.
LEMMA LogoutKeeps ==
  ASSUME AccountIInv, NEW r \in Requests, NEW t \in Requests, Logout(r, t)
  PROVE  AccountIInv'
  <1> DEFINE q == [NoRequest EXCEPT !.kind = "logout", !.pc = "done", !.token = t, !.ans = "ok"]
  <1>1. /\ areq[r].pc = "new" /\ sess[t].st # "none" /\ sess' = [sess EXCEPT ![t].st = "deleted"]
        /\ areq' = [areq EXCEPT ![r] = q] /\ UNCHANGED <<astore, acct, plan, bound, audits>>
    BY DEF Logout, NextRequest
  <1>2. /\ sess' \in [Requests -> SessSet]
        /\ \A p \in Requests : RequestOK(p, areq[p], acct', sess', plan', audits')
        /\ \A p \in Requests : SessionOK(p, sess'[p], areq[p], acct')
        /\ sess'[t].st # "none"
    BY <1>1, SessionEnds
  <1>3. /\ q \in RequestSet /\ q.kind = "logout" /\ q.pc = "done" /\ q.ans = "ok" /\ q.token = t /\ q.shut = "no"
    BY NoAccountIs DEF NoRequest, RequestSet, RequestPcs, Kinds
  <1> HIDE DEF q
  <1>4. areq' \in [Requests -> RequestSet] /\ areq'[r] = q /\ \A p \in Requests : p # r => areq'[p] = areq[p]
    BY <1>1, <1>3, AtHand
  <1>5. AccountTypes'
    BY <1>1, <1>2, <1>4 DEF AccountIInv, AccountTypes
  <1>6. RequestOK(r, q, acct', sess', plan', audits')
    BY <1>2, <1>3 DEF RequestOK, StagesOK, KnowsPassword, OwnsAddress, ShutStays, TokenOK, PriceOK, Writes, None
  <1>7. \A p \in Requests : SessionOK(p, sess'[p], areq'[p], acct')
    BY <1>1, <1>2, <1>3, <1>4 DEF SessionOK, Unfinished
  <1>8. OneOwner(areq')
    BY <1>3, <1>4 DEF AccountIInv, OneOwner, OwnsAddress
  <1> QED BY <1>2, <1>4, <1>5, <1>6, <1>7, <1>8 DEF AccountIInv

\* A dead token ends the request here; the static one needs no session.
LEMMA GetSessionKeeps ==
  ASSUME AccountIInv, NEW r \in Requests, GetSession(r)
  PROVE  AccountIInv'
  <1> DEFINE t == areq[r].token
             type == IF areq[r].kind = "order" THEN "user" ELSE "admin"
  <1>1. /\ areq[r] \in RequestSet /\ areq[r].pc = "auth" /\ RequestOK(r, areq[r], acct, sess, plan, audits)
        /\ UNCHANGED <<astore, acct, sess, plan, bound, audits>>
        /\ areq' = IF t = StaticToken THEN MovesTo(r, "body")
                    ELSE IF sess[t].st = "live" /\ sess[t].type = type THEN MovesTo(r, "subject")
                    ELSE Replies(r, "UNAUTHORIZED")
    BY AtHand DEF GetSession
  <1>2. areq[r].kind \in {"order", "setStatus", "editPlan"} /\ t \in Requests \cup {StaticToken} /\ StaticToken \notin Requests
    BY <1>1, KindAt DEF RequestOK, RequestSet, StaticToken, Requests
  <1>3. CASE t = StaticToken
    <2> DEFINE q == GoesAt(areq[r], "body")
    <2>1. areq' = MovesTo(r, "body")
      BY <1>1, <1>3
    <2>2. /\ q.pc = "body" /\ q.kind = areq[r].kind /\ q.subj = areq[r].subj /\ q.pw = areq[r].pw /\ q.token = t
          /\ q.shut = areq[r].shut /\ q.ans = areq[r].ans
      BY <1>1, GoesAtIs DEF RequestPcs
    <2> HIDE DEF q
    <2>3. q.kind \in Writes /\ q.kind # "order"
      BY <1>1, <1>2, <1>3, <2>2 DEF RequestOK, StagesOK, Writes
    <2>4. StagesOK(q)
      BY <1>1, <2>2, <2>3 DEF RequestOK, StagesOK, Writes, None
    <2>5. KnowsPassword(q, acct) /\ ShutStays(q, acct, sess) /\ PriceOK(q, plan) /\ ~OwnsAddress(q)
      BY <1>1, <2>2, <2>3 DEF RequestOK, KnowsPassword, OwnsAddress, ShutStays, PriceOK, Writes
    <2>6. TokenOK(q, sess) /\ q.ans # "ok"
      BY <1>1, <1>2, <1>3, <2>2, <2>3, <2>4 DEF StagesOK, TokenOK, Writes, None
    <2>7. RequestOK(r, q, acct, sess, plan, audits)
      BY <2>4, <2>5, <2>6 DEF RequestOK
    <2> QED BY <1>1, <2>1, <2>5, <2>7, StageKeeps DEF q, RequestPcs, Unfinished
  <1>4. CASE t # StaticToken /\ sess[t].st = "live" /\ sess[t].type = type
    <2> DEFINE q == GoesAt(areq[r], "subject")
    <2>1. areq' = MovesTo(r, "subject")
      BY <1>1, <1>4
    <2>2. /\ q.pc = "subject" /\ q.kind = areq[r].kind /\ q.subj = areq[r].subj /\ q.pw = areq[r].pw /\ q.token = t
          /\ q.shut = areq[r].shut /\ q.ans = areq[r].ans /\ q.offers = areq[r].offers /\ q.price = areq[r].price
      BY <1>1, GoesAtIs DEF RequestPcs
    <2> HIDE DEF q
    <2>3. q.ans = None
      BY <1>1, <2>2 DEF RequestOK, StagesOK
    <2>4. StagesOK(q)
      BY <1>1, <1>2, <2>2, <2>3 DEF RequestOK, StagesOK, None
    <2>5. KnowsPassword(q, acct) /\ ~OwnsAddress(q)
      BY <1>2, <2>2, <2>3 DEF KnowsPassword, OwnsAddress, None
    <2>6. ShutStays(q, acct, sess)
      BY <1>1, <1>2, <1>4, <2>2 DEF RequestOK, ShutStays
    <2>7. TokenOK(q, sess) /\ PriceOK(q, plan)
      BY <1>1, <1>2, <1>4, <2>2, <2>3 DEF RequestOK, TokenOK, PriceOK, Writes, None
    <2>8. RequestOK(r, q, acct, sess, plan, audits)
      BY <2>3, <2>4, <2>5, <2>6, <2>7 DEF RequestOK, None
    <2> QED BY <1>1, <2>1, <2>5, <2>8, StageKeeps DEF q, RequestPcs, Unfinished
  <1>5. CASE t # StaticToken /\ ~(sess[t].st = "live" /\ sess[t].type = type)
    <2>1. areq' = Replies(r, "UNAUTHORIZED")
      BY <1>1, <1>5
    <2> QED BY <1>1, <2>1, RefusalKeeps DEF Refusals
  <1> QED BY <1>3, <1>4, <1>5

\* A blocked user's order and a supporter's write end here.
LEMMA GetSubjectKeeps ==
  ASSUME AccountIInv, NEW r \in Requests, GetSubject(r)
  PROVE  AccountIInv'
  <1> DEFINE t == areq[r].token
             who == sess[t].subj
  <1>1. /\ areq[r] \in RequestSet /\ areq[r].pc = "subject" /\ RequestOK(r, areq[r], acct, sess, plan, audits)
        /\ UNCHANGED <<astore, acct, sess, plan, bound, audits>>
        /\ areq' = IF areq[r].kind = "order"
                      THEN IF acct[who].st = "active" THEN MovesTo(r, "plan") ELSE Replies(r, "UNAUTHORIZED")
                      ELSE IF who = "support" THEN Replies(r, "FORBIDDEN") ELSE MovesTo(r, "body")
    BY AtHand DEF GetSubject
  <1>2. areq[r].kind \in {"order", "setStatus", "editPlan"} /\ areq[r].ans = None
    BY <1>1, KindAt DEF RequestOK, StagesOK
  <1>3. CASE areq[r].kind = "order" /\ acct[who].st = "active"
    <2> DEFINE q == GoesAt(areq[r], "plan")
    <2>1. areq' = MovesTo(r, "plan")
      BY <1>1, <1>3
    <2>2. /\ q.pc = "plan" /\ q.kind = "order" /\ q.subj = areq[r].subj /\ q.pw = areq[r].pw /\ q.token = t
          /\ q.shut = areq[r].shut /\ q.ans = None /\ q.offers = areq[r].offers /\ q.price = areq[r].price
      BY <1>1, <1>2, <1>3, GoesAtIs DEF RequestPcs
    <2> HIDE DEF q
    <2>3. areq[r].shut \notin {"blocked", "token"} /\ areq[r].shut \in {"no", "blocked", "token"}
      BY <1>1, <1>3 DEF RequestOK, ShutStays, RequestSet
    <2>4. StagesOK(q)
      BY <1>1, <1>3, <2>2 DEF RequestOK, StagesOK, None
    <2>5. KnowsPassword(q, acct) /\ ~OwnsAddress(q) /\ ShutStays(q, acct, sess)
      BY <2>2, <2>3 DEF KnowsPassword, OwnsAddress, ShutStays
    <2>6. TokenOK(q, sess) /\ PriceOK(q, plan) /\ q.kind \notin Writes
      BY <1>1, <1>2, <1>3, <2>2 DEF RequestOK, TokenOK, PriceOK, Writes, None
    <2>7. RequestOK(r, q, acct, sess, plan, audits)
      BY <2>4, <2>5, <2>6 DEF RequestOK
    <2> QED BY <1>1, <2>1, <2>5, <2>7, StageKeeps DEF q, RequestPcs, Unfinished
  <1>4. CASE areq[r].kind = "order" /\ acct[who].st # "active"
    <2>1. areq' = Replies(r, "UNAUTHORIZED")
      BY <1>1, <1>4
    <2> QED BY <1>1, <2>1, RefusalKeeps DEF Refusals
  <1>5. CASE areq[r].kind # "order" /\ who = "support"
    <2>1. areq' = Replies(r, "FORBIDDEN")
      BY <1>1, <1>5
    <2> QED BY <1>1, <2>1, RefusalKeeps DEF Refusals
  <1>6. CASE areq[r].kind # "order" /\ who # "support"
    <2> DEFINE q == GoesAt(areq[r], "body")
    <2>1. areq' = MovesTo(r, "body")
      BY <1>1, <1>6
    <2>2. /\ q.pc = "body" /\ q.kind = areq[r].kind /\ q.subj = areq[r].subj /\ q.pw = areq[r].pw /\ q.token = t
          /\ q.shut = areq[r].shut /\ q.ans = None
      BY <1>1, <1>2, GoesAtIs DEF RequestPcs
    <2> HIDE DEF q
    <2>3. areq[r].kind \in Writes /\ t \in Requests /\ sess[t].type = "admin" /\ sess[t].st # "none"
      BY <1>1, <1>2, <1>6 DEF RequestOK, TokenOK, Writes
    <2>4. who = "ops"
      BY <1>6, <2>3 DEF AccountIInv, SessionOK, Admins
    <2>5. StagesOK(q)
      BY <1>1, <2>2, <2>3 DEF RequestOK, StagesOK, Writes, None
    <2>6. KnowsPassword(q, acct) /\ ~OwnsAddress(q) /\ ShutStays(q, acct, sess) /\ PriceOK(q, plan)
      BY <1>1, <2>2, <2>3 DEF RequestOK, KnowsPassword, OwnsAddress, ShutStays, PriceOK, Writes
    <2>7. TokenOK(q, sess) /\ q.ans # "ok"
      BY <2>2, <2>3, <2>4 DEF TokenOK, Writes, None
    <2>8. RequestOK(r, q, acct, sess, plan, audits)
      BY <2>5, <2>6, <2>7 DEF RequestOK
    <2> QED BY <1>1, <2>1, <2>6, <2>8, StageKeeps DEF q, RequestPcs, Unfinished
  <1> QED BY <1>3, <1>4, <1>5, <1>6

\* A request under way ends with ok: only what it was authorized for.
LEMMA OkHolds ==
  ASSUME NEW r \in Requests, NEW q \in RequestSet, NEW ac, NEW se, NEW pl, NEW au, NEW au2, RequestOK(r, q, ac, se, pl, au),
         au \subseteq au2, q.pc \in {"create", "audit"}, q.pc = "audit" => r \in au2
  PROVE  RequestOK(r, Ends(q, "ok"), ac, se, pl, au2) /\ Ends(q, "ok") \in RequestSet /\ ~OwnsAddress(Ends(q, "ok"))
         /\ Ends(q, "ok").pc = "done"
  <1> DEFINE e == Ends(q, "ok")
  <1>1. /\ e \in RequestSet /\ e.pc = "done" /\ e.ans = "ok" /\ e.kind = q.kind /\ e.subj = q.subj
        /\ e.pw = q.pw /\ e.token = q.token /\ e.price = q.price /\ e.offers = q.offers /\ e.shut = q.shut
    BY EndsIs
  <1>2. q.kind \in {"order", "adminLogin", "setStatus", "editPlan"} /\ (q.kind = "order" <=> q.pc = "create")
    BY KindAt DEF RequestOK, StagesOK
  <1>3. q.shut = "no"
    <2>1. q.shut \in {"no", "blocked", "token"}
      BY DEF RequestSet
    <2> QED BY <1>2, <2>1 DEF RequestOK, ShutStays
  <1> HIDE DEF e
  <1>4. StagesOK(e)
    BY <1>1, <1>2 DEF RequestOK, StagesOK, None
  <1>5. KnowsPassword(e, ac) /\ ~OwnsAddress(e) /\ ShutStays(e, ac, se)
    BY <1>1, <1>2, <1>3 DEF KnowsPassword, OwnsAddress, ShutStays
  <1>6. TokenOK(e, se) /\ PriceOK(e, pl)
    BY <1>1, <1>2 DEF RequestOK, TokenOK, PriceOK, Writes
  <1>7. e.kind \in Writes => r \in au2
    BY <1>1, <1>2 DEF Writes
  <1> QED BY <1>1, <1>4, <1>5, <1>6, <1>7 DEF e, RequestOK

\* The entry comes before the answer.
LEMMA AppendAuditKeeps ==
  ASSUME AccountIInv, NEW r \in Requests, AppendAudit(r)
  PROVE  AccountIInv'
  <1> DEFINE q == Ends(areq[r], "ok")
  <1>1. /\ areq[r] \in RequestSet /\ areq[r].pc = "audit" /\ RequestOK(r, areq[r], acct, sess, plan, audits)
        /\ audits' = audits \cup {r} /\ audits \subseteq Requests /\ areq' = [areq EXCEPT ![r] = q]
        /\ UNCHANGED <<astore, acct, sess, plan, bound>>
    BY AtHand DEF AppendAudit
  <1>2. audits \subseteq audits' /\ r \in audits' /\ audits' \subseteq Requests
    BY <1>1
  <1>3. RequestOK(r, q, acct, sess, plan, audits') /\ q \in RequestSet /\ ~OwnsAddress(q) /\ q.pc = "done"
    BY <1>1, <1>2, OkHolds
  <1> QED BY <1>1, <1>2, <1>3, OneMoves DEF Unfinished

\* The order takes the price that was read.
LEMMA CreateOrderKeeps ==
  ASSUME AccountIInv, NEW r \in Requests, CreateOrder(r)
  PROVE  AccountIInv'
  <1> DEFINE q == Ends(areq[r], "ok")
  <1>1. /\ areq[r] \in RequestSet /\ areq[r].pc = "create" /\ RequestOK(r, areq[r], acct, sess, plan, audits)
        /\ audits \subseteq Requests /\ areq' = [areq EXCEPT ![r] = q] /\ UNCHANGED <<astore, acct, sess, plan, bound, audits>>
    BY AtHand DEF CreateOrder
  <1>2. RequestOK(r, q, acct, sess, plan, audits) /\ q \in RequestSet /\ ~OwnsAddress(q) /\ q.pc = "done"
    BY <1>1, OkHolds
  <1> QED BY <1>1, <1>2, OneMoves DEF Unfinished

\* The price read is the one on sale, which the request has been offered.
LEMMA GetPlanKeeps ==
  ASSUME AccountIInv, NEW r \in Requests, GetPlan(r)
  PROVE  AccountIInv'
  <1>1. /\ areq[r] \in RequestSet /\ areq[r].pc = "plan" /\ RequestOK(r, areq[r], acct, sess, plan, audits)
        /\ audits \subseteq Requests /\ plan \in [listed : BOOLEAN, price : Prices] /\ areq \in [Requests -> RequestSet]
        /\ UNCHANGED <<astore, acct, sess, plan, bound, audits>>
    BY AtHand DEF GetPlan
  <1>2. areq[r].kind = "order"
    BY <1>1, KindAt DEF RequestOK
  <1>3. CASE ~plan.listed
    <2>1. areq' = Replies(r, "CLOUD_SKILL_PLAN_NOT_FOUND")
      BY <1>3 DEF GetPlan
    <2> QED BY <1>1, <2>1, RefusalKeeps DEF Refusals
  <1>4. CASE plan.listed
    <2> DEFINE q == [areq[r] EXCEPT !.pc = "devices", !.price = plan.price]
    <2>1. areq' = [areq EXCEPT ![r] = q]
      BY <1>1, <1>4 DEF GetPlan
    <2>2. "devices" \in RequestPcs /\ plan.price \in Prices
      BY <1>1 DEF RequestPcs
    <2>3. /\ q \in RequestSet /\ q.kind = "order" /\ q.pc = "devices" /\ q.price = plan.price /\ q.ans = areq[r].ans
          /\ q.token = areq[r].token /\ q.shut = areq[r].shut /\ q.offers = areq[r].offers
      BY <1>1, <1>2, <2>2 DEF RequestSet
    <2> HIDE DEF q
    <2>4. StagesOK(q) /\ KnowsPassword(q, acct) /\ ~OwnsAddress(q)
      BY <1>1, <1>2, <2>3 DEF RequestOK, StagesOK, KnowsPassword, OwnsAddress, None
    <2>5. ShutStays(q, acct, sess)
      BY <1>1, <1>2, <2>3 DEF RequestOK, ShutStays
    <2>6. TokenOK(q, sess) /\ PriceOK(q, plan) /\ q.kind \notin Writes
      BY <1>1, <1>2, <1>4, <2>3 DEF RequestOK, TokenOK, PriceOK, Writes
    <2>7. RequestOK(r, q, acct, sess, plan, audits)
      BY <2>4, <2>5, <2>6 DEF RequestOK
    <2> QED BY <1>1, <2>1, <2>3, <2>4, <2>7, OneMoves DEF Unfinished
  <1> QED BY <1>3, <1>4

\* An order goes on only with an active device.
LEMMA ListDevicesKeeps ==
  ASSUME AccountIInv, NEW r \in Requests, ListDevices(r)
  PROVE  AccountIInv'
  <1> DEFINE q == GoesAt(areq[r], "create")
  <1>1. /\ areq[r] \in RequestSet /\ areq[r].pc = "devices" /\ RequestOK(r, areq[r], acct, sess, plan, audits)
        /\ UNCHANGED <<astore, acct, sess, plan, bound, audits>>
        /\ areq' \in {MovesTo(r, "create"), Replies(r, "CLOUD_SKILL_DEVICE_REQUIRED")}
    BY AtHand DEF ListDevices
  <1>2. areq[r].kind = "order"
    BY <1>1, KindAt DEF RequestOK
  <1>3. CASE areq' = Replies(r, "CLOUD_SKILL_DEVICE_REQUIRED")
    BY <1>1, <1>3, RefusalKeeps DEF Refusals
  <1>4. CASE areq' = MovesTo(r, "create")
    <2>1. /\ q.pc = "create" /\ q.kind = "order" /\ q.token = areq[r].token /\ q.shut = areq[r].shut
          /\ q.ans = areq[r].ans /\ q.price = areq[r].price /\ q.offers = areq[r].offers
      BY <1>1, <1>2, GoesAtIs DEF RequestPcs
    <2> HIDE DEF q
    <2>2. StagesOK(q) /\ KnowsPassword(q, acct) /\ ~OwnsAddress(q)
      BY <1>1, <1>2, <2>1 DEF RequestOK, StagesOK, KnowsPassword, OwnsAddress, None
    <2>3. ShutStays(q, acct, sess)
      BY <1>1, <1>2, <2>1 DEF RequestOK, ShutStays
    <2>4. TokenOK(q, sess) /\ PriceOK(q, plan) /\ q.kind \notin Writes
      BY <1>1, <1>2, <2>1 DEF RequestOK, TokenOK, PriceOK, Writes
    <2>5. RequestOK(r, q, acct, sess, plan, audits)
      BY <2>2, <2>3, <2>4 DEF RequestOK
    <2> QED BY <1>1, <1>4, <2>2, <2>5, StageKeeps DEF q, RequestPcs, Unfinished
  <1> QED BY <1>1, <1>3, <1>4

\* A store call that throws ends its request.
LEMMA StoreFailsKeeps ==
  ASSUME AccountIInv, NEW r \in Requests, StoreFails(r)
  PROVE  AccountIInv'
  BY RefusalKeeps DEF StoreFails, Refusals

\* Devices decide nothing about accounts.
LEMMA DeviceChangesKeeps ==
  ASSUME AccountIInv, NEW e \in Emails, DeviceChanges(e)
  PROVE  AccountIInv'
  <1>1. bound' \subseteq Emails /\ UNCHANGED <<astore, acct, sess, areq, plan, audits>>
    BY DEF DeviceChanges, AccountIInv, AccountTypes
  <1> QED BY <1>1 DEF AccountIInv, AccountTypes

\* Blocking keeps a password; letting in frees the requests of that user alone.
LEMMA SetUserStatusKeeps ==
  ASSUME AccountIInv, NEW r \in Requests, SetUserStatus(r)
  PROVE  AccountIInv'
  <1> DEFINE e == areq[r].subj
  <1>1. /\ areq[r] \in RequestSet /\ areq[r].pc = "body" /\ areq[r].kind = "setStatus"
        /\ RequestOK(r, areq[r], acct, sess, plan, audits) /\ areq \in [Requests -> RequestSet] /\ acct \in [Emails -> AcctSet]
        /\ UNCHANGED <<astore, sess, plan, bound, audits>>
    BY AtHand DEF SetUserStatus
  <1>2. e \in Emails /\ areq[r].pw \in {"active", "disabled"} /\ areq[r].ans = None
    BY <1>1 DEF RequestOK, StagesOK
  <1>3. CASE acct[e].st = "none"
    <2>1. areq' = Replies(r, "USER_NOT_FOUND") /\ UNCHANGED acct
      BY <1>3 DEF SetUserStatus
    <2> QED BY <1>1, <2>1, RefusalKeeps DEF Refusals
  <1>4. CASE acct[e].st # "none"
    <2> DEFINE freed(q) == areq[r].pw = "active" /\ q.shut = "blocked" /\ Who(q) = e
               goes(q) == IF freed(q) THEN [q EXCEPT !.shut = "no"] ELSE q
               mine == [areq[r] EXCEPT !.pc = "audit"]
    <2>1. /\ acct' = [acct EXCEPT ![e].st = areq[r].pw]
          /\ areq' = [p \in Requests |-> IF p = r THEN mine ELSE goes(areq[p])]
      BY <1>4 DEF SetUserStatus
    <2>2. /\ acct' \in [Emails -> AcctSet] /\ acct'[e].st = areq[r].pw /\ acct'[e].pw = acct[e].pw
          /\ \A x \in Emails : x # e => acct'[x] = acct[x]
      BY <1>1, <1>2, <2>1 DEF AcctSet
    <2>3. \A x \in Emails : acct'[x].pw = acct[x].pw /\ (acct[x].st # "none" => acct'[x].st # "none")
      BY <1>2, <2>2
    <2>4. /\ mine \in RequestSet /\ mine.pc = "audit" /\ mine.kind = "setStatus" /\ mine.subj = e /\ mine.pw = areq[r].pw
          /\ mine.token = areq[r].token /\ mine.shut = areq[r].shut /\ mine.ans = None
      BY <1>1, <1>2 DEF RequestSet, RequestPcs
    <2>5. ASSUME NEW q \in RequestSet
          PROVE  /\ goes(q) \in RequestSet /\ goes(q).kind = q.kind /\ goes(q).pc = q.pc /\ goes(q).ans = q.ans
                 /\ goes(q).subj = q.subj /\ goes(q).pw = q.pw /\ goes(q).token = q.token /\ goes(q).copy = q.copy
                 /\ goes(q).price = q.price /\ goes(q).offers = q.offers
                 /\ goes(q).shut = IF freed(q) THEN "no" ELSE q.shut
      BY DEF RequestSet
    <2> HIDE DEF mine, goes
    <2>6. areq' \in [Requests -> RequestSet] /\ areq'[r] = mine /\ \A p \in Requests : p # r => areq'[p] = goes(areq[p])
      BY <1>1, <2>1, <2>4, <2>5
    <2>7. AccountTypes'
      BY <1>1, <2>2, <2>6 DEF AccountIInv, AccountTypes
    <2>8. RequestOK(r, mine, acct', sess', plan', audits') /\ ~OwnsAddress(mine)
      <3>1. StagesOK(mine) /\ KnowsPassword(mine, acct') /\ ~OwnsAddress(mine) /\ PriceOK(mine, plan')
        BY <1>1, <1>2, <2>4 DEF StagesOK, KnowsPassword, OwnsAddress, PriceOK, None
      <3>2. ShutStays(mine, acct', sess')
        BY <1>1, <2>4 DEF RequestOK, ShutStays
      <3>3. TokenOK(mine, sess') /\ mine.ans # "ok"
        BY <1>1, <2>4 DEF RequestOK, TokenOK, Writes, None
      <3> QED BY <3>1, <3>2, <3>3 DEF RequestOK
    <2>9. ASSUME NEW p \in Requests, p # r
          PROVE  RequestOK(p, areq'[p], acct', sess', plan', audits') /\ (OwnsAddress(areq'[p]) <=> OwnsAddress(areq[p]))
                 /\ areq'[p].subj = areq[p].subj /\ areq'[p].pc = areq[p].pc
      <3> DEFINE q == areq[p]
      <3>1. q \in RequestSet /\ RequestOK(p, q, acct, sess, plan, audits) /\ areq'[p] = goes(q)
        BY <2>6, <2>9, AtHand
      <3>2. /\ goes(q).kind = q.kind /\ goes(q).pc = q.pc /\ goes(q).ans = q.ans /\ goes(q).subj = q.subj /\ goes(q).pw = q.pw
            /\ goes(q).token = q.token /\ goes(q).copy = q.copy /\ goes(q).price = q.price /\ goes(q).offers = q.offers
            /\ goes(q).shut = IF freed(q) THEN "no" ELSE q.shut
        BY <2>5, <3>1
      <3>3. /\ q.kind \in {"register", "login"} => q.subj \in Emails
            /\ q.kind = "order" /\ sess[q.token].type = "user" => sess[q.token].subj \in Emails
        <4>1. q.kind = "order" => q.token \in Requests /\ sess[q.token].st # "none"
          BY <3>1 DEF RequestOK, StagesOK, TokenOK
        <4>2. q.kind = "order" /\ sess[q.token].type = "user" => sess[q.token].subj \in Emails
          BY <4>1 DEF AccountIInv, SessionOK
        <4> QED BY <3>1, <4>2 DEF RequestOK, StagesOK
      <3> HIDE DEF q
      <3>4. StagesOK(goes(q)) /\ TokenOK(goes(q), sess) /\ PriceOK(goes(q), plan) /\ (OwnsAddress(goes(q)) <=> OwnsAddress(q))
        BY <3>1, <3>2 DEF RequestOK, StagesOK, TokenOK, PriceOK, OwnsAddress
      <3>5. KnowsPassword(goes(q), acct')
        BY <2>3, <3>1, <3>2, <3>3 DEF RequestOK, KnowsPassword, OwnsAddress
      <3>6. ShutStays(goes(q), acct', sess)
        <4>1. ShutStays(q, acct, sess)
          BY <3>1 DEF RequestOK
        <4>2. CASE freed(q)
          BY <3>2, <4>2 DEF ShutStays
        <4>3. CASE ~freed(q)
          <5>1. goes(q).shut = q.shut
            BY <3>2, <4>3
          <5>2. q.shut = "blocked" /\ q.kind = "login" => acct'[q.subj].st = "disabled"
            <6>1. ASSUME q.shut = "blocked", q.kind = "login" PROVE acct'[q.subj].st = "disabled"
              <7>1. Who(q) = q.subj /\ q.subj \in Emails /\ acct[q.subj].st = "disabled"
                BY <3>3, <4>1, <6>1 DEF Who, ShutStays
              <7> QED BY <1>2, <2>2, <4>3, <6>1, <7>1
            <6> QED BY <6>1
          <5>3. q.shut = "blocked" /\ q.kind = "order" => acct'[sess[q.token].subj].st = "disabled"
            <6>1. ASSUME q.shut = "blocked", q.kind = "order" PROVE acct'[sess[q.token].subj].st = "disabled"
              <7>1. Who(q) = sess[q.token].subj /\ sess[q.token].subj \in Emails /\ acct[sess[q.token].subj].st = "disabled"
                BY <3>3, <4>1, <6>1 DEF Who, ShutStays
              <7> QED BY <1>2, <2>2, <4>3, <6>1, <7>1
            <6> QED BY <6>1
          <5> QED BY <3>2, <4>1, <5>1, <5>2, <5>3 DEF ShutStays
        <4> QED BY <4>2, <4>3
      <3> QED BY <1>1, <3>1, <3>2, <3>4, <3>5, <3>6 DEF RequestOK, q
    <2>10. \A t \in Requests : SessionOK(t, sess'[t], areq'[t], acct')
      <3>1. \A t \in Requests : areq'[t].pc \in Unfinished => areq[t].pc \in Unfinished
        BY <2>4, <2>6, <2>9 DEF Unfinished
      <3> QED BY <1>1, <2>3, <3>1 DEF AccountIInv, SessionOK
    <2>11. OneOwner(areq')
      BY <2>6, <2>8, <2>9 DEF AccountIInv, OneOwner
    <2> QED BY <2>6, <2>7, <2>8, <2>9, <2>10, <2>11 DEF AccountIInv
  <1> QED BY <1>3, <1>4

\* Every order under way is offered the new price.
LEMMA UpdatePlanKeeps ==
  ASSUME AccountIInv, NEW r \in Requests, UpdatePlan(r)
  PROVE  AccountIInv'
  <1>1. PICK new \in [listed : BOOLEAN, price : Prices] :
          /\ plan' = new
          /\ areq' = [p \in Requests |->
               IF p = r THEN [areq[r] EXCEPT !.pc = "audit"]
               ELSE IF new.listed /\ areq[p].kind = "order" /\ areq[p].pc # "done"
                 THEN [areq[p] EXCEPT !.offers = @ \cup {new.price}] ELSE areq[p]]
    BY DEF UpdatePlan
  <1> DEFINE under(q) == new.listed /\ q.kind = "order" /\ q.pc # "done"
             goes(q) == IF under(q) THEN [q EXCEPT !.offers = @ \cup {new.price}] ELSE q
             mine == [areq[r] EXCEPT !.pc = "audit"]
  <1>2. /\ areq[r] \in RequestSet /\ areq[r].pc = "body" /\ areq[r].kind = "editPlan"
        /\ RequestOK(r, areq[r], acct, sess, plan, audits) /\ areq \in [Requests -> RequestSet]
        /\ UNCHANGED <<astore, acct, sess, bound, audits>>
    BY AtHand DEF UpdatePlan
  <1>3. /\ mine \in RequestSet /\ mine.pc = "audit" /\ mine.kind = "editPlan" /\ mine.subj = areq[r].subj
        /\ mine.token = areq[r].token /\ mine.shut = areq[r].shut /\ mine.ans = areq[r].ans
    BY <1>2 DEF RequestSet, RequestPcs
  <1>4. ASSUME NEW q \in RequestSet
        PROVE  /\ goes(q) \in RequestSet /\ goes(q).kind = q.kind /\ goes(q).pc = q.pc /\ goes(q).ans = q.ans
               /\ goes(q).subj = q.subj /\ goes(q).pw = q.pw /\ goes(q).token = q.token /\ goes(q).copy = q.copy
               /\ goes(q).price = q.price /\ goes(q).shut = q.shut
               /\ goes(q).offers = IF under(q) THEN q.offers \cup {new.price} ELSE q.offers
    BY DEF RequestSet
  <1> HIDE DEF mine, goes
  <1>5. areq' \in [Requests -> RequestSet] /\ areq'[r] = mine /\ \A p \in Requests : p # r => areq'[p] = goes(areq[p])
    <2>1. areq' = [p \in Requests |-> IF p = r THEN mine ELSE goes(areq[p])]
      BY <1>1 DEF mine, goes
    <2> QED BY <1>2, <1>3, <1>4, <2>1
  <1>6. AccountTypes'
    BY <1>1, <1>2, <1>5 DEF AccountIInv, AccountTypes
  <1>7. RequestOK(r, mine, acct', sess', plan', audits') /\ ~OwnsAddress(mine)
    <2>1. StagesOK(mine) /\ KnowsPassword(mine, acct') /\ ~OwnsAddress(mine) /\ PriceOK(mine, plan')
      BY <1>2, <1>3 DEF RequestOK, StagesOK, KnowsPassword, OwnsAddress, PriceOK, None
    <2>2. ShutStays(mine, acct', sess')
      BY <1>2, <1>3 DEF RequestOK, ShutStays
    <2>3. TokenOK(mine, sess') /\ mine.ans # "ok"
      BY <1>2, <1>3, <2>1 DEF RequestOK, StagesOK, TokenOK, Writes, None
    <2> QED BY <2>1, <2>2, <2>3 DEF RequestOK
  <1>8. ASSUME NEW p \in Requests, p # r
        PROVE  RequestOK(p, areq'[p], acct', sess', plan', audits') /\ (OwnsAddress(areq'[p]) <=> OwnsAddress(areq[p]))
               /\ areq'[p].subj = areq[p].subj /\ areq'[p].pc = areq[p].pc
    <2> DEFINE q == areq[p]
    <2>1. q \in RequestSet /\ RequestOK(p, q, acct, sess, plan, audits) /\ areq'[p] = goes(q)
      BY <1>5, <1>8, AtHand
    <2>2. /\ goes(q).kind = q.kind /\ goes(q).pc = q.pc /\ goes(q).ans = q.ans /\ goes(q).subj = q.subj /\ goes(q).pw = q.pw
          /\ goes(q).token = q.token /\ goes(q).copy = q.copy /\ goes(q).price = q.price /\ goes(q).shut = q.shut
          /\ goes(q).offers = IF under(q) THEN q.offers \cup {new.price} ELSE q.offers
      BY <1>4, <2>1
    <2> HIDE DEF q
    <2>3. StagesOK(goes(q)) /\ TokenOK(goes(q), sess) /\ KnowsPassword(goes(q), acct) /\ (OwnsAddress(goes(q)) <=> OwnsAddress(q))
      BY <2>1, <2>2 DEF RequestOK, StagesOK, TokenOK, KnowsPassword, OwnsAddress
    <2>4. ShutStays(goes(q), acct, sess)
      BY <2>1, <2>2 DEF RequestOK, ShutStays
    <2>5. PriceOK(goes(q), new)
      BY <2>1, <2>2 DEF RequestOK, PriceOK
    <2>6. RequestOK(p, goes(q), acct, sess, new, audits)
      BY <2>1, <2>2, <2>3, <2>4, <2>5 DEF RequestOK
    <2>7. areq'[p].subj = q.subj /\ areq'[p].pc = q.pc
      BY <2>1, <2>2
    <2> QED BY <1>1, <1>2, <2>1, <2>3, <2>6, <2>7 DEF q
  <1>9. \A t \in Requests : SessionOK(t, sess'[t], areq'[t], acct')
    <2>1. \A t \in Requests : areq'[t].pc \in Unfinished => areq[t].pc \in Unfinished
      BY <1>3, <1>5, <1>8 DEF Unfinished
    <2> QED BY <1>2, <2>1 DEF AccountIInv, SessionOK
  <1>10. OneOwner(areq')
    BY <1>5, <1>7, <1>8 DEF AccountIInv, OneOwner
  <1> QED BY <1>5, <1>6, <1>7, <1>8, <1>9, <1>10 DEF AccountIInv

\* Every step, and stuttering.
LEMMA AccountStep ==
  ASSUME AccountIInv, [AccountNext]_accountVars
  PROVE  AccountIInv'
  <1>1. CASE UNCHANGED accountVars
    BY <1>1 DEF accountVars, AccountIInv, AccountTypes
  <1> QED BY <1>1, ArrivesKeeps, CreateUserKeeps, GetUserByEmailKeeps, VerifyPasswordKeeps, CreateSessionKeeps,
             GetSessionKeeps, GetSubjectKeeps, SetUserStatusKeeps, UpdatePlanKeeps, AppendAuditKeeps, GetPlanKeeps,
             ListDevicesKeeps, CreateOrderKeeps, StoreFailsKeeps, LogoutKeeps, SessionExpiresKeeps,
             DeviceChangesKeeps DEF AccountNext

\* What the invariant gives: the properties of the runs.
LEMMA AccountsAreSafe == AccountIInv => AccountsInv
  <1> SUFFICES ASSUME AccountIInv PROVE AccountsInv
    OBVIOUS
  <1>1. ASSUME NEW r \in Requests
        PROVE  areq[r] \in RequestSet /\ RequestOK(r, areq[r], acct, sess, plan, audits)
    BY AtHand
  <1>2. AccountTypeOK
    <2>1. \A t \in Requests : sess[t].st \in {"none", "live", "expired", "deleted"}
      BY AtHand DEF SessSet
    <2>2. \A r \in Requests : areq[r].pc \in RequestPcs
      BY <1>1 DEF RequestSet
    <2> QED BY <2>1, <2>2 DEF AccountIInv, AccountTypes, AccountTypeOK, AcctSet, RequestPcs
  <1>3. OneOwnerPerAddress
    BY <1>1 DEF AccountIInv, OneOwner, OneOwnerPerAddress, RequestOK, KnowsPassword, OwnsAddress
  <1>4. SessionsBelong
    BY DEF AccountIInv, SessionOK, SessionsBelong
  <1>5. ShutOutGetsNothing
    BY <1>1 DEF ShutOutGetsNothing, RequestOK, ShutStays, RequestSet
  <1>6. WritesAreAuthorized
    BY <1>1 DEF WritesAreAuthorized, RequestOK, StagesOK, TokenOK, Writes
  <1>7. PriceWasOffered
    BY <1>1 DEF PriceWasOffered, RequestOK, PriceOK
  <1> QED BY <1>2, <1>3, <1>4, <1>5, <1>6, <1>7 DEF AccountsInv

\* account-routes.ts, admin-routes.ts: for any addresses, passwords, prices, requests and
\* store failures, an address has one owner, a session is of its account, who is blocked or
\* logged out as a request begins gets nothing unless let in again, a write is authorized
\* and audited, and an order's price was offered while it ran.
THEOREM AccountsAreEntitled == AccountSpec => []AccountsInv
  BY AccountInitKeeps, AccountStep, AccountsAreSafe, PTL DEF AccountSpec

=============================================================================
