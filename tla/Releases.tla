------------------------------ MODULE Releases ------------------------------
(***************************************************************************)
(* The release indexes of the Cloud API: the signed Manager installers     *)
(* (client-release-routes.ts) and the Cloud plugin and Cloud CLI archives  *)
(* (cloud-artifact-release-routes.ts).  Each surface is one releases.json  *)
(* beside its files.  The handlers run on one thread and lose it only      *)
(* while a body is received, so what an upload read before that wait may   *)
(* be old when it publishes.  The client route reads the index again; the  *)
(* artifact route does not.  The two surfaces share nothing: the initial   *)
(* state picks one.                                                        *)
(***************************************************************************)
EXTENDS Naturals, FiniteSets

CONSTANTS Uploaders,   \* concurrent uploads by administrators
          Versions,    \* release versions, ordered as numbers
          Channels,    \* stable and beta
          MaxSeq,      \* bound on the sequence numbers handed out
          RlFaults     \* bound on failed saves and crashes

ASSUME RlAssumption ==
    /\ Versions \subseteq Nat \ {0}
    /\ MaxSeq \in Nat /\ RlFaults \in Nat

VARIABLES surface,     \* "client" or "artifact"
          index,       \* releases.json: the set of signed records
          disk,        \* versions whose published file exists
          up,          \* per uploader: the upload under way
          accepted,    \* versions whose upload was answered 201
          gone,        \* versions whose withdrawal was answered 200
          rlfaults

relVars == <<surface, index, disk, up, accepted, gone, rlfaults>>

\* Rollout policies, with the basis points reduced to whether any client is in the share;
\* "none" is active with 0 points, which both body readers refuse.
Policies == {"paused", "active", "none"}
Records  == [v : Versions, ch : Channels, seq : 1 .. MaxSeq, rollout : Policies, withdrawn : BOOLEAN]
NoUpload     == [v |-> 0, ch |-> "none", read |-> {}]

Held(S)        == {r.v : r \in S}
TopSeq(S)      == IF S = {} THEN 0 ELSE CHOOSE n \in {r.seq : r \in S} : \A r \in S : r.seq <= n
InChannel(S, c) == {r \in S : r.ch = c}
\* load sorts by falling sequence, so find returns the record with the largest one.
First(S)       == CHOOSE r \in S : r.seq = TopSeq(S)

RelInit ==
    /\ surface \in {"client", "artifact"} /\ index = {} /\ disk = {}
    /\ up = [a \in Uploaders |-> NoUpload] /\ accepted = {} /\ gone = {} /\ rlfaults = 0

\* VERSION_EXISTS and VERSION_ROLLBACK; the artifact route has only the first.
Newer(S, v, c) ==
    /\ v \notin Held(S)
    /\ surface = "client" => \A r \in InChannel(S, c) : r.seq = TopSeq(InChannel(S, c)) => v > r.v

StartUpload(a, v, c) ==
    /\ up[a] = NoUpload /\ Newer(index, v, c)
    /\ surface = "client" => v \notin disk
    /\ up' = [up EXCEPT ![a] = [v |-> v, ch |-> c, read |-> index]]
    /\ UNCHANGED <<surface, index, disk, accepted, gone, rlfaults>>

\* A broken, empty, oversized or truncated body: the temporary file is removed.
FailUpload(a) ==
    /\ up[a] # NoUpload /\ up' = [up EXCEPT ![a] = NoUpload]
    /\ UNCHANGED <<surface, index, disk, accepted, gone, rlfaults>>

\* The index the new record is added to.
Base(a) == IF surface = "client" THEN index ELSE up[a].read

\* The body is complete: checks, link and save run without giving up the thread.
PublishRelease(a) ==
    LET u == up[a]  S == Base(a) IN
    /\ u # NoUpload /\ up' = [up EXCEPT ![a] = NoUpload]
    /\ UNCHANGED <<surface, gone>>
    /\ IF u.v \in disk \/ (surface = "client" /\ ~Newer(S, u.v, u.ch))
       THEN UNCHANGED <<index, disk, accepted, rlfaults>>
       ELSE \/ /\ TopSeq(S) < MaxSeq
               /\ index' = S \cup {[v |-> u.v, ch |-> u.ch, seq |-> TopSeq(S) + 1, withdrawn |-> FALSE,
                                    rollout |-> "paused"]}
               /\ disk' = disk \cup {u.v} /\ accepted' = accepted \cup {u.v} /\ UNCHANGED rlfaults
            \/ \* link or save fails: the file is unlinked again
               /\ rlfaults < RlFaults /\ rlfaults' = rlfaults + 1 /\ UNCHANGED <<index, disk, accepted>>

\* readRolloutPolicyBody and rolloutBody: active needs at least one basis point.
ValidPolicy(p) == p # "none"

\* Variant: any version's policy may be changed.
AdjustableAny(v, p) ==
    \E r \in index : r.v = v /\ ~r.withdrawn /\ (surface = "client" => r.rollout # p)
\* Only the newest record of the channel, and for clients only to a new policy.
Adjustable(v, p) ==
    \E r \in index :
        /\ r.v = v /\ ~r.withdrawn /\ r = First(InChannel(index, r.ch))
        /\ surface = "client" => r.rollout # p

\* PATCH .../rollout: the body is read first, the rest is one step.
Rollout(v, p) ==
    /\ ValidPolicy(p) /\ Adjustable(v, p) /\ TopSeq(index) < MaxSeq
    /\ index' = {IF r.v = v THEN [r EXCEPT !.seq = TopSeq(index) + 1, !.rollout = p] ELSE r : r \in index}
    /\ UNCHANGED <<surface, disk, up, accepted, gone, rlfaults>>

\* DELETE: only plugin and CLI releases can be withdrawn; file and record stay.
Withdraw(v) ==
    /\ surface = "artifact" /\ \E r \in index : r.v = v /\ ~r.withdrawn
    /\ index' = {IF r.v = v THEN [r EXCEPT !.withdrawn = TRUE] ELSE r : r \in index}
    /\ gone' = gone \cup {v}
    /\ UNCHANGED <<surface, disk, up, accepted, rlfaults>>

\* The API stops: uploads are lost, and one of them may have linked its file already.
RelCrash ==
    /\ rlfaults < RlFaults /\ rlfaults' = rlfaults + 1
    /\ up' = [a \in Uploaders |-> NoUpload]
    /\ \E linked \in {{}} \cup {{up[a].v} : a \in {b \in Uploaders : up[b] # NoUpload}} : disk' = disk \cup linked
    /\ UNCHANGED <<surface, index, accepted, gone>>

RelNext ==
    \/ \E a \in Uploaders :
          \/ \E v \in Versions, c \in Channels : StartUpload(a, v, c)
          \/ FailUpload(a)
          \/ PublishRelease(a)
    \/ \E v \in Versions : Withdraw(v) \/ \E p \in Policies : Rollout(v, p)
    \/ RelCrash

RelSpec == RelInit /\ [][RelNext]_relVars

-----------------------------------------------------------------------------
\* GET .../latest: the client route offers the newest record whatever its rollout,
\* the artifact route the newest active one.
Offered(S, c) ==
    LET T == {r \in InChannel(S, c) : surface = "artifact" => ~r.withdrawn /\ r.rollout = "active"}
    IN  IF T = {} THEN {} ELSE {First(T)}

\* GET /downloads/...: not 404 and not 410.
Downloadable(v) == v \in disk /\ \E r \in index : r.v = v /\ ~r.withdrawn

\* Types of what the properties below are about.
RelTypeOK ==
    /\ surface \in {"client", "artifact"} /\ index \in SUBSET Records /\ disk \subseteq Versions
    /\ up \in [Uploaders -> {NoUpload} \cup [v : Versions, ch : Channels, read : SUBSET Records]]
    /\ accepted \subseteq Versions /\ gone \subseteq Versions /\ rlfaults \in 0 .. RlFaults

\* However uploads, rollout changes, failures and crashes interleave, an index has one record
\* per version and per sequence number and a file for each; no client release answered 201 is
\* ever missing from the index, and within a channel a larger sequence number is a higher version.
ReleasesInv ==
    /\ RelTypeOK
    /\ \A r, s \in index : r.v = s.v \/ r.seq = s.seq => r = s
    /\ Held(index) \subseteq disk
    /\ surface = "client" =>
          /\ accepted \subseteq Held(index)
          /\ \A r, s \in index : r.ch = s.ch /\ r.seq < s.seq => r.v < s.v

\* What the client route offers on a channel never goes back to a lower version or sequence
\* number, and a sequence number never comes to stand for another record.
OfferAdvances ==
    [][surface = "client" =>
          /\ \A c \in Channels : \A r \in Offered(index, c) : \E s \in Offered(index', c) :
                s.v >= r.v /\ s.seq >= r.seq
          /\ \A r \in index, s \in index' : r.seq = s.seq => r = s]_relVars

\* DESIGN.md of the deployment: withdrawn artifacts fail closed, they are not downloaded again.
WithdrawnFailsClosed == \A v \in gone : ~Downloadable(v)
=============================================================================
