------------------------------ MODULE CloudCli ------------------------------
(***************************************************************************)
(* The longhub-cloud command (cli.ts, artifact.ts): pair and logout keep   *)
(* the device credential in the Windows vault in step with the Cloud;      *)
(* install and update replace the OpenClaw plugin by a verified release    *)
(* and fall back to the release that ran before.  One command runs at a    *)
(* time; answers get lost, releases change while it runs, bytes arrive     *)
(* damaged, openclaw fails with or without an effect, and the process may  *)
(* stop at any point.                                                      *)
(***************************************************************************)
EXTENDS Naturals

CONSTANTS PluginVersions,  \* plugin releases, ordered as numbers
          Devices,         \* device records the Cloud may create
          CliRuns,         \* bound on commands
          CliFaults        \* bound on lost answers, failures, crashes and withdrawals

ASSUME CliAssumption ==
    /\ PluginVersions \subseteq Nat \ {0} /\ "none" \notin Devices
    /\ CliRuns \in Nat /\ CliFaults \in Nat

VARIABLES plugin,    \* the plugin OpenClaw has: version (0: none) and whether it is loaded
          release,   \* per version: its state in the release index
          device,    \* per device record: unused, active or revoked
          vault,     \* the device whose credential the vault holds, or "none"
          meta,      \* device.json: the saved fingerprint, or "none"
          prints,    \* per device record: its fingerprint, named by the first record that had it
          kept,      \* the devices whose credential the vault has held
          cli,       \* the running command
          outcome,   \* how the last command ended
          cliruns, clifaults

cliVars == <<plugin, release, device, vault, meta, prints, kept, cli, outcome, cliruns, clifaults>>

NoPlugin  == [v |-> 0, loaded |-> FALSE]
NoCommand == [at |-> "idle", cmd |-> "none", cur |-> NoPlugin, tgt |-> 0, dev |-> "none", failed |-> FALSE, calm |-> TRUE]
NoResult  == [cmd |-> "none", res |-> "none", cur |-> NoPlugin, tgt |-> 0, calm |-> TRUE]
Open      == {"partial", "full"}

CliInit ==
    /\ plugin \in {NoPlugin} \cup {[v |-> v, loaded |-> TRUE] : v \in PluginVersions}
    /\ release \in [PluginVersions -> {"paused", "full"}]
    /\ device = [d \in Devices |-> "unused"] /\ vault = "none" /\ meta = "none"
    /\ prints = [d \in Devices |-> "none"] /\ kept = {}
    /\ cli = NoCommand /\ outcome = NoResult /\ cliruns = 0 /\ clifaults = 0

Fault == clifaults < CliFaults /\ clifaults' = clifaults + 1
Goto(l)   == cli' = [cli EXCEPT !.at = l]
Finish(r) ==
    /\ cli' = NoCommand
    /\ outcome' = [cmd |-> cli.cmd, res |-> r, cur |-> cli.cur, tgt |-> cli.tgt, calm |-> cli.calm]

\* main: one of the commands; update begins with an inspection of the running plugin.
Begin(c) ==
    /\ cli = NoCommand /\ cliruns < CliRuns /\ cliruns' = cliruns + 1
    /\ cli' = [NoCommand EXCEPT !.cmd = c, !.cur = plugin, !.at = IF c \in {"pair", "logout"} THEN "vault" ELSE "latest"]
    /\ c = "update" => plugin.loaded
    /\ UNCHANGED <<plugin, release, device, vault, meta, prints, kept, outcome, clifaults>>

-----------------------------------------------------------------------------
\* credentialsFor and logout begin with the vault.
ReadVault ==
    /\ cli.at = "vault"
    /\ IF vault # "none"
       THEN cli' = [cli EXCEPT !.dev = vault, !.at = IF cli.cmd = "pair" THEN "challenge" ELSE "revoke"] /\ UNCHANGED outcome
       ELSE IF cli.cmd = "pair" THEN Goto("register") /\ UNCHANGED outcome ELSE Finish("ok")
    /\ UNCHANGED <<plugin, release, device, vault, meta, prints, kept, cliruns, clifaults>>

\* POST /v1/devices/register with the saved fingerprint or a new one: an active device that has
\* it is returned without a token, which the command refuses; otherwise a device is created.  The
\* request or its answer may be lost.
Taken(f) == \E d \in Devices : device[d] = "active" /\ prints[d] = f
RegisterDevice ==
    /\ cli.at = "register"
    /\ \/ Taken(meta) /\ Finish("refused") /\ UNCHANGED <<device, prints, clifaults>>
       \/ Fault /\ Finish("unreachable") /\ UNCHANGED <<device, prints>>
       \/ /\ ~Taken(meta)
          /\ \E d \in {e \in Devices : device[e] = "unused"} :
               /\ device' = [device EXCEPT ![d] = "active"]
               /\ prints' = [prints EXCEPT ![d] = IF meta = "none" THEN d ELSE meta]
               /\ \/ cli' = [cli EXCEPT !.at = "write", !.dev = d] /\ UNCHANGED <<outcome, clifaults>>
                  \/ Fault /\ Finish("unreachable")
    /\ UNCHANGED <<plugin, release, vault, meta, kept, cliruns>>

\* The vault is written and read back, either of which may fail; device.json follows.
WriteVault ==
    /\ cli.at = "write"
    /\ \/ /\ vault' = cli.dev /\ kept' = kept \cup {cli.dev}
          /\ Goto("save") /\ UNCHANGED <<outcome, clifaults>>
       \/ /\ Fault /\ Finish("vault_failed")
          /\ \/ vault' = cli.dev /\ kept' = kept \cup {cli.dev}
             \/ UNCHANGED <<vault, kept>>
    /\ UNCHANGED <<plugin, release, device, meta, prints, cliruns>>
SaveMetadata ==
    /\ cli.at = "save" /\ meta' = prints[cli.dev] /\ Goto("challenge")
    /\ UNCHANGED <<plugin, release, device, vault, prints, kept, outcome, cliruns, clifaults>>

\* POST /v1/devices/pairing/challenge: 401 unless the device is active.  (No portal redeems a
\* code here; a device that an account has is answered 409.)
Challenge ==
    /\ cli.at = "challenge"
    /\ \/ Finish(IF device[cli.dev] = "active" THEN "ok" ELSE "refused") /\ UNCHANGED clifaults
       \/ Fault /\ Finish("unreachable")
    /\ UNCHANGED <<plugin, release, device, vault, meta, prints, kept, cliruns>>

\* POST /v1/devices/self/revoke: only an answered success goes on to the vault.
RevokeSelf ==
    /\ cli.at = "revoke"
    /\ IF device[cli.dev] # "active" THEN Finish("refused") /\ UNCHANGED <<device, clifaults>>
       ELSE \/ device' = [device EXCEPT ![cli.dev] = "revoked"] /\ Goto("delete") /\ UNCHANGED <<outcome, clifaults>>
            \/ Fault /\ Finish("unreachable") /\ device' \in {device, [device EXCEPT ![cli.dev] = "revoked"]}
    /\ UNCHANGED <<plugin, release, vault, meta, prints, kept, cliruns>>
\* The credential is deleted; device.json keeps the fingerprint.
DeleteCredential ==
    /\ cli.at = "delete" /\ vault' = "none" /\ Finish("ok")
    /\ UNCHANGED <<plugin, release, device, meta, prints, kept, cliruns, clifaults>>

-----------------------------------------------------------------------------
\* compareVersions against the version the inspection found.
Backwards(v) == cli.cmd = "update" /\ v < cli.cur.v

\* fetchManifest of the newest open release, and the checks on it.
FetchLatest ==
    /\ cli.at = "latest"
    /\ \/ (\A v \in PluginVersions : release[v] \notin Open) /\ Finish("refused")
       \/ \E v \in PluginVersions :
             /\ release[v] \in Open
             /\ IF release[v] = "partial" \/ Backwards(v) THEN Finish("refused")
                ELSE IF cli.cmd = "update" /\ v = cli.cur.v THEN Finish("current")
                ELSE /\ cli' = [cli EXCEPT !.tgt = v, !.at = IF cli.cmd = "update" THEN "rollback" ELSE "stage"]
                     /\ UNCHANGED outcome
    /\ UNCHANGED <<plugin, release, device, vault, meta, prints, kept, cliruns, clifaults>>

\* What a download may deliver, and the two verifications of artifact.ts.
Bytes == {"sound", "altered", "other_package"}
VerifiedRelease(b) == b # "altered"
VerifiedPackage(b) == b # "other_package"

\* stageRelease: download and verify; a withdrawn release and wrong bytes end the command.
Staged(v, next) ==
    \E b \in Bytes :
        /\ IF b = "sound" THEN UNCHANGED clifaults ELSE Fault
        /\ IF release[v] # "withdrawn" /\ VerifiedRelease(b) /\ VerifiedPackage(b)
           THEN Goto(next) /\ UNCHANGED outcome ELSE Finish("refused")
StageRollback ==
    /\ cli.at = "rollback" /\ Staged(cli.cur.v, "stage")
    /\ UNCHANGED <<plugin, release, device, vault, meta, prints, kept, cliruns>>
StageTarget ==
    /\ cli.at = "stage" /\ Staged(cli.tgt, "install")
    /\ UNCHANGED <<plugin, release, device, vault, meta, prints, kept, cliruns>>

\* openclaw plugins install npm-pack:<file>: as asked, or failed with any partial effect.
OpenClawInstalls(v, ok, failed) ==
    \/ plugin' = [v |-> v, loaded |-> TRUE] /\ Goto(ok) /\ UNCHANGED <<outcome, clifaults>>
    \/ /\ Fault /\ plugin' \in {plugin, NoPlugin, [v |-> v, loaded |-> FALSE]}
       /\ cli' = [cli EXCEPT !.at = failed, !.failed = TRUE] /\ UNCHANGED outcome
Install ==
    /\ cli.at = "install"
    /\ OpenClawInstalls(cli.tgt, "inspect", "inspect")
    /\ UNCHANGED <<release, device, vault, meta, prints, kept, cliruns>>

\* verifyRuntimeInspect after the installation; a failure of either goes to the rollback.
InspectPlugin ==
    /\ cli.at = "inspect"
    /\ \/ plugin.v = cli.tgt /\ plugin.loaded /\ ~cli.failed /\ Finish("installed") /\ UNCHANGED clifaults
       \/ /\ \/ (plugin.v # cli.tgt \/ ~plugin.loaded \/ cli.failed) /\ UNCHANGED clifaults
             \/ Fault
          /\ IF cli.cmd = "update" THEN Goto("restore") /\ UNCHANGED outcome ELSE Finish("failed")
    /\ UNCHANGED <<plugin, release, device, vault, meta, prints, kept, cliruns>>

\* The rollback artifact is installed and inspected.
Restore ==
    /\ cli.at = "restore"
    /\ \/ /\ plugin' = cli.cur
          /\ \/ Finish("rolled_back") /\ UNCHANGED clifaults
             \/ Fault /\ Finish("rollback_failed")
       \/ /\ Fault /\ plugin' \in {plugin, NoPlugin, [cli.cur EXCEPT !.loaded = FALSE]}
          /\ Finish("rollback_failed")
    /\ UNCHANGED <<release, device, vault, meta, prints, kept, cliruns>>

-----------------------------------------------------------------------------
\* The command is killed; administrators change releases and revoke devices.
CliCrash ==
    /\ cli # NoCommand /\ Fault /\ Finish("crashed")
    /\ UNCHANGED <<plugin, release, device, vault, meta, prints, kept, cliruns>>
Administer ==
    /\ Fault
    /\ cli' = IF cli = NoCommand THEN cli ELSE [cli EXCEPT !.calm = FALSE]
    /\ \/ \E v \in PluginVersions, s \in {"paused", "partial", "full", "withdrawn"} :
             release[v] # "withdrawn" /\ release' = [release EXCEPT ![v] = s] /\ UNCHANGED device
       \/ \E d \in Devices : device[d] = "active" /\ device' = [device EXCEPT ![d] = "revoked"] /\ UNCHANGED release
    /\ UNCHANGED <<plugin, vault, meta, prints, kept, outcome, cliruns>>

CliNext ==
    \/ \E c \in {"pair", "logout", "install", "update"} : Begin(c)
    \/ ReadVault \/ RegisterDevice \/ WriteVault \/ SaveMetadata \/ Challenge \/ RevokeSelf \/ DeleteCredential
    \/ FetchLatest \/ StageRollback \/ StageTarget \/ Install \/ InspectPlugin \/ Restore
    \/ CliCrash \/ Administer

CliSpec == CliInit /\ [][CliNext]_cliVars

-----------------------------------------------------------------------------
\* Types of what the properties below are about.
CliTypeOK ==
    /\ plugin.v \in PluginVersions \cup {0} /\ plugin.loaded \in BOOLEAN
    /\ release \in [PluginVersions -> {"paused", "partial", "full", "withdrawn"}]
    /\ device \in [Devices -> {"unused", "active", "revoked"}]
    /\ vault \in Devices \cup {"none"} /\ meta \in Devices \cup {"none"}
    /\ prints \in [Devices -> Devices \cup {"none"}] /\ kept \subseteq Devices
    /\ cliruns \in 0 .. CliRuns /\ clifaults \in 0 .. CliFaults

\* A command's answer tells the truth about the plugin: "installed" is the target, loaded and,
\* for an update, newer than before; "rolled back" is the plugin that ran before; a refusal has
\* changed nothing.  Only a failed rollback or a crash of an update leaves a loaded plugin
\* unloaded.
UpdateTruthful ==
    cli = NoCommand /\ outcome.cmd \in {"install", "update"} =>
        /\ outcome.res = "installed" =>
              plugin.v = outcome.tgt /\ plugin.loaded /\ (outcome.cmd = "update" => outcome.tgt > outcome.cur.v)
        /\ outcome.res \in {"rolled_back", "refused", "current"} => plugin = outcome.cur
        /\ outcome.cmd = "update" /\ ~plugin.loaded => outcome.res \in {"rollback_failed", "crashed"}

\* A credential that was once in the vault stays there as long as the Cloud accepts it: logout
\* deletes it only after an answered revocation.  No two devices of one fingerprint are accepted.
\* A registration is refused, which no later pair can help, only for a device whose credential
\* never reached the vault: its answer was lost, or the vault could not be written.
CredentialKept ==
    /\ \A d \in kept : device[d] = "active" => vault = d
    /\ \A d, e \in Devices : device[d] = "active" /\ device[e] = "active" /\ prints[d] = prints[e] => d = e
    /\ cli.at = "register" => \A d \in kept : ~(device[d] = "active" /\ prints[d] = meta)

\* What the command reports and what the vault holds stay true under lost answers, failed
\* installations, crashes and administrators.
CliInv == CliTypeOK /\ UpdateTruthful /\ CredentialKept

\* client.ts tells the user of a revoked device to run longhub-cloud pair again: a pair that
\* nothing disturbed ends with a pairing code.
PairRecovers == outcome.cmd = "pair" /\ outcome.calm => outcome.res # "refused"
=============================================================================
