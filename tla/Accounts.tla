------------------------------- MODULE Accounts -------------------------------
(***************************************************************************)
(* Accounts and sessions: registration, login, logout and the check of a   *)
(* session in account-routes.ts; the administrators' login, roles, account *)
(* blocking and plan edits in admin-routes.ts; an order for a plan; with   *)
(* the users, sessions and audit log of both stores.  Every await of a     *)
(* handler ends a step.  A password is the value it was hashed from; a     *)
(* token is the request that created it.                                   *)
(***************************************************************************)
EXTENDS Naturals, FiniteSets

CONSTANTS
  Emails,       \* e-mail addresses people register
  Passwords,    \* passwords they choose
  MaxRequests,  \* bound on the requests, numbered as they arrive
  Prices,       \* prices a plan may have
  AcFaults      \* bound on store calls that fail

VARIABLES
  astore,     \* memory (a user is handed out as the live object) or postgres (a copy)
  acct,       \* acct[e]: the account of an address, if there is one
  sess,       \* sess[t]: the session created by request t
  areq,       \* areq[r]: a request and its handler's locals
  plan,       \* the plan on sale: listed or not, and its price
  bound,      \* emails whose account has an active device
  audits,     \* requests with an entry in the audit log
  acfaults

accountVars == <<astore, acct, sess, areq, plan, bound, audits, acfaults>>

None == "none"
Requests == 1 .. MaxRequests
Admins == {"ops", "support"}  \* one administrator of each role
StaticToken == 0              \* ADMIN_TOKEN, equivalent to super
NoAccount == [st |-> "none", pw |-> None]
NoSession == [type |-> None, subj |-> None, pw |-> None, st |-> "none"]
Kinds == {"register", "login", "adminLogin", "logout", "order", "setStatus", "editPlan"}
NoRequest == [kind |-> None, pc |-> "new", ans |-> None, subj |-> None, pw |-> None, token |-> StaticToken,
              copy |-> NoAccount, price |-> 0, offers |-> {}, shut |-> "no"]

\* The shapes of the account tables and of a request.
AccountTypeOK ==
  /\ astore \in {"memory", "postgres"}
  /\ acct \in [Emails -> [st : {"none", "active", "disabled"}, pw : Passwords \cup {None}]]
  /\ \A t \in Requests : sess[t].st \in {"none", "live", "expired", "deleted"}
  /\ \A r \in Requests : areq[r].pc \in {"new", "hash", "lookup", "verify", "session", "auth", "subject",
                                         "body", "audit", "plan", "devices", "create", "done"}
  /\ plan \in [listed : BOOLEAN, price : Prices]
  /\ bound \subseteq Emails /\ audits \subseteq Requests

AccountInit ==
  /\ astore \in {"memory", "postgres"}
  /\ acct = [e \in Emails |-> NoAccount]
  /\ sess = [t \in Requests |-> NoSession]
  /\ areq = [r \in Requests |-> NoRequest]
  /\ plan \in [listed : {TRUE}, price : Prices]
  /\ bound = {} /\ audits = {} /\ acfaults = 0

Replies(r, a) == [areq EXCEPT ![r].pc = "done", ![r].ans = a, ![r].copy = NoAccount]
MovesTo(r, pc) == [areq EXCEPT ![r].pc = pc]

\* Whether a token is good for nothing when a request with it begins.
DeadToken(t) == t \in Requests /\ sess[t].st # "live"
\* Whom a request is about, or the user whose session it comes with.
Who(q) == IF q.kind = "order" THEN sess[q.token].subj ELSE q.subj
\* Why a user's request gets nothing as it begins: its token, or that the user is blocked.
ShutOut(kind, e, t) ==
  CASE kind = "order" /\ DeadToken(t) -> "token"
    [] kind = "order" /\ ~DeadToken(t) /\ sess[t].type = "user" /\ acct[sess[t].subj].st = "disabled" -> "blocked"
    [] kind = "login" /\ acct[e].st = "disabled" -> "blocked"
    [] OTHER -> "no"

-----------------------------------------------------------------------------
(* Requests arrive.                                                         *)

\* The next number that no request has.
NextRequest(r) == areq[r].pc = "new" /\ \A q \in 1 .. r - 1 : areq[q].pc # "new"

Begin(r, kind, pc, e, p, t) ==
  /\ NextRequest(r)
  /\ areq' = [areq EXCEPT ![r] =
       [NoRequest EXCEPT !.kind = kind, !.pc = pc, !.subj = e, !.pw = p, !.token = t,
                         !.offers = IF kind = "order" /\ plan.listed THEN {plan.price} ELSE {},
                         !.shut = ShutOut(kind, e, t)]]
  /\ UNCHANGED <<astore, acct, sess, plan, bound, audits, acfaults>>

Tokens == {t \in Requests : sess[t].st # "none"} \cup {StaticToken}

Arrives(r) ==
  \/ \E e \in Emails, p \in Passwords :
       Begin(r, "register", "hash", e, p, StaticToken) \/ Begin(r, "login", "lookup", e, p, StaticToken)
  \/ \E a \in Admins : Begin(r, "adminLogin", "session", a, None, StaticToken)
  \/ \E t \in Tokens \cap Requests : Begin(r, "order", "auth", None, None, t)
  \/ \E t \in Tokens :
       \/ \E e \in Emails, p \in {"active", "disabled"} : Begin(r, "setStatus", "auth", e, p, t)
       \/ Begin(r, "editPlan", "auth", None, None, t)

-----------------------------------------------------------------------------
(* Registration and login.                                                  *)

\* Variant: the new password replaces the one of an existing account.
CreateUserUpsert(r) ==
  LET e == areq[r].subj IN
  /\ areq[r].pc = "hash"
  /\ acct' = [acct EXCEPT ![e] = [st |-> "active", pw |-> areq[r].pw]]
  /\ areq' = MovesTo(r, "session")
  /\ UNCHANGED <<astore, sess, plan, bound, audits, acfaults>>

\* createUser() once the password is hashed: the address decides, not a look before.
CreateUser(r) ==
  LET e == areq[r].subj IN
  /\ areq[r].pc = "hash"
  /\ IF acct[e].st # "none"
       THEN areq' = Replies(r, "EMAIL_EXISTS") /\ UNCHANGED acct
       ELSE /\ acct' = [acct EXCEPT ![e] = [st |-> "active", pw |-> areq[r].pw]]
            /\ areq' = MovesTo(r, "session")
  /\ UNCHANGED <<astore, sess, plan, bound, audits, acfaults>>

\* getUserByEmail(), before the password is verified.
GetUserByEmail(r) ==
  /\ areq[r].pc = "lookup"
  /\ areq' = [areq EXCEPT ![r].copy = acct[areq[r].subj], ![r].pc = "verify"]
  /\ UNCHANGED <<astore, acct, sess, plan, bound, audits, acfaults>>

\* verifyPassword() took time; the memory store's user is the live object.
VerifyPassword(r) ==
  LET user == IF astore = "memory" /\ areq[r].copy.st # "none" THEN acct[areq[r].subj] ELSE areq[r].copy IN
  /\ areq[r].pc = "verify"
  /\ areq' = CASE user.st = "none" \/ user.pw # areq[r].pw -> Replies(r, "BAD_CREDENTIALS")
               [] user.st = "disabled" /\ user.pw = areq[r].pw -> Replies(r, "USER_DISABLED")
               [] OTHER -> MovesTo(r, "session")
  /\ UNCHANGED <<astore, acct, sess, plan, bound, audits, acfaults>>

\* createSession() under a fresh token; an administrator's login is audited after it.
CreateSession(r) ==
  LET admin == areq[r].kind = "adminLogin" IN
  /\ areq[r].pc = "session"
  /\ sess' = [sess EXCEPT ![r] = [type |-> IF admin THEN "admin" ELSE "user", subj |-> areq[r].subj,
                                  pw |-> areq[r].pw, st |-> "live"]]
  /\ areq' = IF admin THEN MovesTo(r, "audit") ELSE Replies(r, "ok")
  /\ UNCHANGED <<astore, acct, plan, bound, audits, acfaults>>

\* POST /v1/auth/logout.
Logout(r, t) ==
  /\ NextRequest(r) /\ sess[t].st # "none"
  /\ sess' = [sess EXCEPT ![t].st = "deleted"]
  /\ areq' = [areq EXCEPT ![r] = [NoRequest EXCEPT !.kind = "logout", !.pc = "done", !.token = t, !.ans = "ok"]]
  /\ UNCHANGED <<astore, acct, plan, bound, audits, acfaults>>

\* expires_at passes: getSession() no longer returns the session.
SessionExpires(t) ==
  /\ sess[t].st = "live" /\ acfaults < AcFaults /\ acfaults' = acfaults + 1
  /\ sess' = [sess EXCEPT ![t].st = "expired"]
  /\ UNCHANGED <<astore, acct, areq, plan, bound, audits>>

-----------------------------------------------------------------------------
(* authenticateUser() and requireAdmin(): the session, then its subject.     *)

\* getSession() and the type of its subject; the static token needs none.
GetSession(r) ==
  LET t == areq[r].token
      type == IF areq[r].kind = "order" THEN "user" ELSE "admin" IN
  /\ areq[r].pc = "auth"
  /\ areq' = IF t = StaticToken THEN MovesTo(r, "body")
             ELSE IF sess[t].st = "live" /\ sess[t].type = type THEN MovesTo(r, "subject")
             ELSE Replies(r, "UNAUTHORIZED")
  /\ UNCHANGED <<astore, acct, sess, plan, bound, audits, acfaults>>

\* getUser() or getAdmin(): the status of the user, the role of the administrator.
GetSubject(r) ==
  LET who == sess[areq[r].token].subj IN
  /\ areq[r].pc = "subject"
  /\ areq' = IF areq[r].kind = "order"
               THEN IF acct[who].st = "active" THEN MovesTo(r, "plan") ELSE Replies(r, "UNAUTHORIZED")
               ELSE IF who = "support" THEN Replies(r, "FORBIDDEN") ELSE MovesTo(r, "body")
  /\ UNCHANGED <<astore, acct, sess, plan, bound, audits, acfaults>>

-----------------------------------------------------------------------------
(* POST /v1/admin/users/{id}/status, POST /v1/admin/cloud-skill-plans.       *)

\* setUserStatus(); a user who is let in again is shut out no longer.
SetUserStatus(r) ==
  LET e == areq[r].subj IN
  /\ areq[r].kind = "setStatus" /\ areq[r].pc = "body"
  /\ IF acct[e].st = "none"
       THEN areq' = Replies(r, "USER_NOT_FOUND") /\ UNCHANGED acct
       ELSE /\ acct' = [acct EXCEPT ![e].st = areq[r].pw]
            /\ areq' = [q \in Requests |->
                 IF q = r THEN [areq[r] EXCEPT !.pc = "audit"]
                 ELSE IF areq[r].pw = "active" /\ areq[q].shut = "blocked" /\ Who(areq[q]) = e
                   THEN [areq[q] EXCEPT !.shut = "no"]
                 ELSE areq[q]]
  /\ UNCHANGED <<astore, sess, plan, bound, audits, acfaults>>

\* updateCloudSkillPlan(): the status or the price changes.  Orders that are under
\* way have been offered the new price too.
UpdatePlan(r) ==
  /\ areq[r].kind = "editPlan" /\ areq[r].pc = "body"
  /\ \E p \in [listed : BOOLEAN, price : Prices] :
       /\ plan' = p
       /\ areq' = [q \in Requests |->
            IF q = r THEN [areq[r] EXCEPT !.pc = "audit"]
            ELSE IF p.listed /\ areq[q].kind = "order" /\ areq[q].pc # "done" THEN [areq[q] EXCEPT !.offers = @ \cup {p.price}]
            ELSE areq[q]]
  /\ UNCHANGED <<astore, acct, sess, bound, audits, acfaults>>

\* appendAudit() comes last, then the answer.
AppendAudit(r) ==
  /\ areq[r].pc = "audit"
  /\ audits' = audits \cup {r}
  /\ areq' = Replies(r, "ok")
  /\ UNCHANGED <<astore, acct, sess, plan, bound, acfaults>>

-----------------------------------------------------------------------------
(* POST /v1/orders for a Cloud Skill plan.                                   *)

\* getCloudSkillPlan(): a plan on sale, and the price as it is now.
GetPlan(r) ==
  /\ areq[r].pc = "plan"
  /\ areq' = IF plan.listed THEN [areq EXCEPT ![r].pc = "devices", ![r].price = plan.price]
             ELSE Replies(r, "CLOUD_SKILL_PLAN_NOT_FOUND")
  /\ UNCHANGED <<astore, acct, sess, plan, bound, audits, acfaults>>

\* listDevices(): the order needs an active device of the user for its tenant.
ListDevices(r) ==
  /\ areq[r].pc = "devices"
  /\ areq' = IF sess[areq[r].token].subj \in bound THEN MovesTo(r, "create")
             ELSE Replies(r, "CLOUD_SKILL_DEVICE_REQUIRED")
  /\ UNCHANGED <<astore, acct, sess, plan, bound, audits, acfaults>>

\* createOrder() with the price that was read.
CreateOrder(r) ==
  /\ areq[r].pc = "create"
  /\ areq' = Replies(r, "ok")
  /\ UNCHANGED <<astore, acct, sess, plan, bound, audits, acfaults>>

\* A device of an account is bound or revoked elsewhere.
DeviceChanges(e) ==
  /\ acct[e].st # "none"
  /\ bound' = IF e \in bound THEN bound \ {e} ELSE bound \cup {e}
  /\ acfaults < AcFaults /\ acfaults' = acfaults + 1
  /\ UNCHANGED <<astore, acct, sess, areq, plan, audits>>

\* A store call throws: the request ends with an error, its earlier effects stay.
StoreFails(r) ==
  /\ areq[r].pc \notin {"new", "done"} /\ acfaults < AcFaults /\ acfaults' = acfaults + 1
  /\ areq' = Replies(r, "error")
  /\ UNCHANGED <<astore, acct, sess, plan, bound, audits>>

AccountNext ==
  \/ \E r \in Requests :
       \/ Arrives(r) \/ CreateUser(r) \/ GetUserByEmail(r) \/ VerifyPassword(r) \/ CreateSession(r)
       \/ GetSession(r) \/ GetSubject(r) \/ SetUserStatus(r) \/ UpdatePlan(r) \/ AppendAudit(r)
       \/ GetPlan(r) \/ ListDevices(r) \/ CreateOrder(r) \/ StoreFails(r)
       \/ \E t \in Requests : Logout(r, t)
  \/ \E t \in Requests : SessionExpires(t)
  \/ \E e \in Emails : DeviceChanges(e)

AccountSpec == AccountInit /\ [][AccountNext]_accountVars

-----------------------------------------------------------------------------
(* Properties.                                                              *)

\* account-routes.ts, createUser(): of registrations of one address at most one
\* succeeds, and the account keeps the password that one chose.
OneOwnerPerAddress ==
  \A r \in Requests : areq[r].kind = "register" /\ (areq[r].pc = "session" \/ areq[r].ans = "ok") =>
    /\ acct[areq[r].subj].pw = areq[r].pw
    /\ \A q \in Requests \ {r} :
         ~(areq[q].kind = "register" /\ areq[q].subj = areq[r].subj /\ (areq[q].pc = "session" \/ areq[q].ans = "ok"))

\* account-routes.ts: a user's session was made by somebody with the password of its
\* account, and never speaks for an administrator.
SessionsBelong ==
  \A t \in Requests : sess[t].st # "none" =>
    IF sess[t].type = "user" THEN sess[t].pw = acct[sess[t].subj].pw /\ acct[sess[t].subj].st # "none"
    ELSE sess[t].subj \in Admins

\* account-routes.ts: who is blocked, or comes with a token that is logged out or
\* expired, as a request begins gets nothing from it unless let in again meanwhile.
ShutOutGetsNothing ==
  \A r \in Requests : areq[r].shut # "no" => areq[r].ans # "ok" /\ areq[r].pc # "create"

\* admin-routes.ts, requireAdmin(): a write is made only with the static token or an
\* administrator's session whose role may write, and is audited before it is answered.
WritesAreAuthorized ==
  \A r \in Requests : areq[r].kind \in {"setStatus", "editPlan"} /\ areq[r].pc \in {"body", "audit", "done"} =>
    /\ areq[r].ans \in {None, "ok"} =>
         areq[r].token = StaticToken \/ (sess[areq[r].token].type = "admin" /\ sess[areq[r].token].subj = "ops")
    /\ areq[r].ans = "ok" => r \in audits

\* account-routes.ts: an order's price is one at which the plan was on sale while the
\* request ran.
PriceWasOffered ==
  \A r \in Requests : areq[r].kind = "order" /\ areq[r].ans = "ok" => areq[r].price \in areq[r].offers

\* All of it: one owner per address, sessions of their account, no answer for who is shut
\* out, every write authorized when it is made, and orders at a price that was offered.
AccountsInv ==
  /\ AccountTypeOK
  /\ OneOwnerPerAddress /\ SessionsBelong /\ ShutOutGetsNothing /\ WritesAreAuthorized /\ PriceWasOffered
=============================================================================
