--------------------------- MODULE AdapterReleases ---------------------------
(***************************************************************************)
(* Signed thin adapters of one Cloud Skill: publication and revocation     *)
(* (server.ts, cloud-skill-adapter-release.ts and both stores), and the    *)
(* three places that read them, each with conditions of its own: the       *)
(* catalogue, the download and the execution gate of POST /v1/tasks.       *)
(* With the legacy surface enabled, SkillPackage releases of the same      *)
(* Skill exist beside them.  A stored row may be damaged; the readers      *)
(* verify it again.  PublishingInv at the end joins both kinds of release. *)
(***************************************************************************)
EXTENDS Releases, Sequences

CONSTANTS AdapterVersions,  \* versions of the Skill
          Contents,         \* candidate file sets, identified by their digest
          ManagerVersions,  \* versions a Manager reports, ordered as numbers
          Hosts,            \* OpenClaw versions
          MaxDepth,         \* MAX_SCHEMA_DEPTH
          Legacy,           \* legacySurfaceEnabled
          MaxPackages,      \* bound on legacy SkillPackage releases
          AdEvents          \* bound on damage to stored rows

ASSUME AdapterAssumption ==
    /\ AdapterVersions \subseteq Nat \ {0} /\ ManagerVersions \subseteq Nat /\ MaxPackages \in Nat
    /\ "any" \notin Hosts /\ AdEvents \in Nat

VARIABLES rows,      \* cloud_skill_adapter_release, in order of creation
          packages,  \* legacy SkillPackage releases: version, status, requirements
          device,    \* app_version of the device
          access,      \* "none", "unsubscribed" or "subscribed": resolveSkillAccess
          served,    \* adapters sent to the device: version, digest
          adevents

adapterVars == <<rows, packages, device, access, served, adevents>>

NoVersion == 0

-----------------------------------------------------------------------------
\* Validation of a publisher's payload.  A schema is reduced to what validateJsonSchema
\* decides on: its root type, the properties and the ones required, the depth, a pair of
\* bounds, and whether every key, name, enum value and string is an allowed public one.
ValidSchema(s) ==
    /\ s.public /\ s.depth <= MaxDepth /\ s.root = "object"
    /\ s.required \subseteq s.props /\ s.low <= s.high

\* SKILL.md: two front-matter fields and the fixed body.
ValidSkill(m) == m.fields = {"name", "description"} /\ m.body = "template"

\* The payloads tried: a sound one, and one with each flaw.
GoodSchema == [root |-> "object", props |-> {"p"}, required |-> {"p"}, depth |-> MaxDepth,
               low |-> 0, high |-> 1, public |-> TRUE]
GoodSkill  == [fields |-> {"name", "description"}, body |-> "template"]
SomeSchemas ==
    {GoodSchema,
     [GoodSchema EXCEPT !.depth = MaxDepth + 1], [GoodSchema EXCEPT !.props = {}],
     [GoodSchema EXCEPT !.low = 1, !.high = 0], [GoodSchema EXCEPT !.root = "array"],
     [GoodSchema EXCEPT !.public = FALSE]}
SomeSkills == {GoodSkill, [GoodSkill EXCEPT !.fields = {"name"}], [GoodSkill EXCEPT !.body = "own"]}

\* fileContentMap: exactly the three files, canonical and within the size limits.
ValidFiles(f) ==
    /\ f.exact
    /\ ValidSkill(f.skill) /\ ValidSchema(f.input) /\ ValidSchema(f.output)

Candidates ==
    {[v |-> v, digest |-> c, min |-> m, host |-> h, declared |-> d,
      files |-> [exact |-> x, skill |-> k, input |-> s, output |-> o]] :
        v \in AdapterVersions, c \in Contents, m \in ManagerVersions, h \in Hosts,
        d \in Contents, x \in BOOLEAN, k \in SomeSkills, s \in SomeSchemas, o \in {GoodSchema}}

\* prepareCloudSkillAdapterRelease: the digests are recomputed and must match the manifest;
\* the caller's integrity block is replaced by the server's signature.
Prepared(c) == ValidFiles(c.files) /\ c.declared = c.digest
Publishable == {[v |-> c.v, digest |-> c.digest, min |-> c.min, host |-> c.host] : c \in {d \in Candidates : Prepared(d)}}

-----------------------------------------------------------------------------
AdInit ==
    /\ rows = << >> /\ packages = {}
    /\ device \in ManagerVersions /\ access \in {"none", "unsubscribed", "subscribed"}
    /\ served = {} /\ adevents = 0

RowOf(v)    == {i \in DOMAIN rows : rows[i].v = v}
Listed(v)   == RowOf(v) # {}
Stored(v)      == rows[CHOOSE i \in RowOf(v) : TRUE]

\* POST /v1/admin/cloud-skill-adapters: INSERT ... ON CONFLICT DO NOTHING, 409 if it existed.
PublishAdapter(c) ==
    /\ ~Listed(c.v)
    /\ rows' = Append(rows, [v |-> c.v, digest |-> c.digest, min |-> c.min, host |-> c.host,
                             status |-> "active", intact |-> TRUE])
    /\ UNCHANGED <<packages, device, access, served, adevents>>

\* POST .../revoke.
RevokeAdapter(v) ==
    /\ Listed(v) /\ Stored(v).status = "active"
    /\ rows' = [i \in DOMAIN rows |-> IF rows[i].v = v THEN [rows[i] EXCEPT !.status = "revoked"] ELSE rows[i]]
    /\ UNCHANGED <<packages, device, access, served, adevents>>

\* The legacy routes /v1/admin/skills: publish once per version, revoke.
PackageOf(v) == {p \in packages : p.v = v}
PublishPackage(v, m, h) ==
    /\ Legacy /\ PackageOf(v) = {} /\ Cardinality(packages) < MaxPackages
    /\ packages' = packages \cup {[v |-> v, status |-> "active", min |-> m, host |-> h]}
    /\ UNCHANGED <<rows, device, access, served, adevents>>
RevokePackage(v) ==
    /\ Legacy
    /\ \E p \in PackageOf(v) :
          /\ p.status = "active"
          /\ packages' = (packages \ {p}) \cup {[p EXCEPT !.status = "revoked"]}
    /\ UNCHANGED <<rows, device, access, served, adevents>>

\* A row that no longer agrees with its signed manifest.
Damage(v) ==
    /\ adevents < AdEvents /\ adevents' = adevents + 1 /\ Listed(v)
    /\ rows' = [i \in DOMAIN rows |-> IF rows[i].v = v THEN [rows[i] EXCEPT !.intact = FALSE] ELSE rows[i]]
    /\ UNCHANGED <<packages, device, access, served>>

\* updateDeviceVersion, and the plan and subscription of the account.
Upgrade ==
    /\ device' \in {m \in ManagerVersions : m > device}
    /\ UNCHANGED <<rows, packages, access, served, adevents>>
Subscribe ==
    /\ access' \in {"unsubscribed", "subscribed"} \ {access}
    /\ UNCHANGED <<rows, packages, device, served, adevents>>

-----------------------------------------------------------------------------
\* verifyStoredCloudSkillAdapterRelease: row, manifest, files and signature agree.
Intact(r) == r.intact

\* isCloudSkillAdapterCompatible, and isSkillCompatible of a SkillPackage: the same two
\* conditions; h = "any" is a request without openclaw_version.
Compatible(r, h) == r.min <= device /\ h \in {"any", r.host}

\* Variant: the catalogue does not look at the status.
CatalogueAll(h) == {i \in DOMAIN rows : Compatible(rows[i], h)}
\* GET /v1/catalog/skills and /v1/catalog/skills/{id}: the rows of active and compatible
\* adapters, in order of creation.
Catalogue(h) == {i \in DOMAIN rows : rows[i].status = "active" /\ Compatible(rows[i], h)}
Newest(C)    == rows[CHOOSE i \in C : \A j \in C : j <= i]

Refused(code) == [ok |-> FALSE, code |-> code, v |-> NoVersion]
Sent(v)       == [ok |-> TRUE, code |-> 200, v |-> v]

\* GET /v1/skills/{id}/adapter, for a version or for the newest compatible one.
Download(v, h) ==
    LET C    == Catalogue(h)
        none == IF v = NoVersion THEN C = {} ELSE ~Listed(v)
        r    == IF v = NoVersion THEN Newest(C) ELSE Stored(v)
    IN  IF access # "subscribed" THEN Refused(403)
        ELSE IF none THEN Refused(404)
        ELSE IF r.status = "revoked" THEN Refused(410)
        ELSE IF ~Intact(r) THEN Refused(503)
        ELSE IF ~Compatible(r, h) THEN Refused(422)
        ELSE Sent(r.v)

\* checkExecutionRelease: an adapter decides; a SkillPackage counts only without one.
Execution(v, h) ==
    IF Listed(v)
    THEN LET r == Stored(v)
         IN  IF r.status = "revoked" THEN Refused(410)
             ELSE IF ~Intact(r) THEN Refused(503)
             ELSE IF ~Compatible(r, h) THEN Refused(422) ELSE Sent(v)
    ELSE IF PackageOf(v) = {} THEN Refused(404)
    ELSE LET p == CHOOSE p \in PackageOf(v) : TRUE
         IN  IF p.status = "revoked" THEN Refused(410)
             ELSE IF ~Compatible(p, h) THEN Refused(422) ELSE Sent(v)

Serve(v, h) ==
    LET load == Download(v, h) IN
    /\ load.ok /\ served' = served \cup {<<load.v, Stored(load.v).digest>>}
    /\ UNCHANGED <<rows, packages, device, access, adevents>>

AdNext ==
    \/ \E c \in Publishable : PublishAdapter(c)
    \/ \E v \in AdapterVersions :
          \/ RevokeAdapter(v) \/ RevokePackage(v) \/ Damage(v)
          \/ \E m \in ManagerVersions, h \in Hosts : PublishPackage(v, m, h)
    \/ Upgrade \/ Subscribe
    \/ \E v \in AdapterVersions \cup {NoVersion}, h \in Hosts : Serve(v, h)

AdSpec == AdInit /\ [][AdNext]_adapterVars

-----------------------------------------------------------------------------
\* Types of what the properties below are about.
AdTypeOK ==
    /\ rows \in Seq([v : AdapterVersions, digest : Contents, min : ManagerVersions, host : Hosts,
                     status : {"active", "revoked"}, intact : BOOLEAN])
    /\ packages \subseteq [v : AdapterVersions, status : {"active", "revoked"},
                           min : ManagerVersions, host : Hosts]
    /\ device \in ManagerVersions /\ access \in {"none", "unsubscribed", "subscribed"}
    /\ served \subseteq AdapterVersions \X Contents /\ adevents \in 0 .. AdEvents

\* The catalogue, the download and the execution gate agree, whatever was published, revoked,
\* damaged or upgraded: what may be downloaded is in the catalogue and may be executed, what a
\* subscriber may execute from an adapter may be downloaded, the default download never hides
\* behind a revoked version, and a revoked adapter is not executed through a legacy package.
\* A version never had two contents on any device.
AdapterInv ==
    /\ AdTypeOK
    /\ \A h \in Hosts, v \in AdapterVersions :
          LET listed == \E i \in Catalogue(h) : rows[i].v = v
              load   == Download(v, h)
              exec   == Execution(v, h)
          IN  /\ load.ok => listed /\ exec.ok
              /\ listed => exec.ok \/ exec.code = 503
              /\ Listed(v) /\ access = "subscribed" /\ exec.ok => load.ok
              /\ Listed(v) /\ Stored(v).status = "revoked" => ~exec.ok
    /\ \A h \in Hosts : Download(NoVersion, h).code # 410
    /\ \A a, b \in served : a[1] = b[1] => a[2] = b[2]

-----------------------------------------------------------------------------
\* What the Cloud publishes.  client-release-routes.ts, cloud-artifact-release-routes.ts: no
\* answered release is lost and no sequence number is used twice; server.ts: catalogue,
\* download and execution gate agree on adapters.
PublishingInv == ReleasesInv /\ AdapterInv
=============================================================================
