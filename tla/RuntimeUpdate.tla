--------------------------- MODULE RuntimeUpdate ---------------------------
(***************************************************************************)
(* The desired-state loop of a QwenPaw worker (update.py): RuntimeUpdater  *)
(* polls the configuration the controller projects and applies it part by  *)
(* part to the QwenPaw process, through its API, and to the workspace;     *)
(* AgentPackageManager swaps the agent package.                            *)
(*                                                                         *)
(* An application is one thread: its steps are the calls between which it  *)
(* can raise, or the worker can crash.  What the updater remembers is lost *)
(* in a crash; the disk and, for a worker that restarts beside it, the     *)
(* settings QwenPaw stores are not.                                        *)
(***************************************************************************)
EXTENDS Naturals, FiniteSets

CONSTANTS
    Configs,     \* configurations the controller may ask for
    Packages,    \* agent packages
    Keys,        \* keys of the MCP clients configurations and packages define
    None,        \* no value
    MaxUpdates,  \* changes of the desired configuration
    MaxRaises    \* calls that raise, reads that fail, crashes

ASSUME UpdateBounds ==
    MaxUpdates \in Nat /\ MaxRaises \in Nat /\ None \notin Packages

\* Every part of a configuration is a value, None where it is absent; a worker that
\* is deployed has its Matrix account in the environment.
ASSUME UpdateConfigs ==
    \A c \in Configs : /\ DOMAIN c = {"model", "matrix", "acl", "pkg", "mcp", "inline"}
                       /\ c.matrix # None
                       /\ c.pkg \in Packages \cup {None}
                       /\ c.mcp = [k \in Keys |-> c.mcp[k]]

VARIABLES
    want,    \* the runtime configuration the controller projects
    mem,     \* what the updater remembers: current_config, _applied_*_identity
    job,     \* the application in progress
    rt,      \* settings of the QwenPaw process
    owned,   \* the ownership file of MCP clients
    ws,      \* the workspace: the prompt file and the packages with files in it
    pkgdir,  \* agent-packages: the package in current/, and current.identity
    torn,    \* parts a stopped application left in doubt
    spent    \* changes and faults so far

updaterVars == <<want, mem, job, rt, owned, ws, pkgdir, torn, spent>>

-----------------------------------------------------------------------------
(* Values *)

NoClients == [k \in Keys |-> None]
Forgotten == [cfg |-> None, gen |-> 0, model |-> None, matrix |-> None, pkg |-> None,
              mcp |-> NoClients, inline |-> None, retry |-> FALSE]

\* pc: the next step; force: the application at start-up; do: parts to apply;
\* snap: the workspace snapshot of a package change.
NoSnap == [held |-> FALSE, ws |-> [prompt |-> None, pkgs |-> {}], current |-> None]
NoJob(pc) == [pc |-> pc, cfg |-> None, gen |-> 0, force |-> FALSE, do |-> {}, snap |-> NoSnap]

Faulty == spent.faults < MaxRaises /\ spent' = [spent EXCEPT !.faults = @ + 1]

\* A call ends well, or raises before or after it took effect.
Outcomes == {"ok", "failed", "lost"}
Ended(o) == IF o = "ok" THEN spent' = spent ELSE Faulty
Took(o) == o \in {"ok", "lost"}

Goes(pc) == job' = [job EXCEPT !.pc = pc]

\* The application raises: the loop polls again, a starting worker exits.
Raises == job' = NoJob(IF job.force THEN "down" ELSE "idle")
MemAfterRaise == IF job.force THEN Forgotten ELSE mem

\* The retry flag was cleared before the application that it asked for, and no later
\* poll finds anything changed.
RetryForgotten == IF ~job.force /\ mem.gen = job.gen /\ ~mem.retry THEN {"retry"} ELSE {}

\* The package swap wrote the workspace, and nothing remembers it yet.
Unrecorded == IF "pkg" \in job.do THEN {"pkg", "inline"} ELSE {}

-----------------------------------------------------------------------------
(* The controller *)

Desire(c) ==
    /\ c # want.cfg /\ spent.changes < MaxUpdates
    /\ want' = [cfg |-> c, gen |-> want.gen + 1]
    /\ spent' = [spent EXCEPT !.changes = @ + 1]
    /\ UNCHANGED <<mem, job, rt, owned, ws, pkgdir, torn>>

-----------------------------------------------------------------------------
(* apply_once *)

\* changed_from: the generation, or any part.
ChangedFrom == want.gen # mem.gen \/ want.cfg # mem.cfg

\* Parts whose identity differs from the applied one; a package takes the inline
\* configuration with it.  matrix is unknown when its channel cannot be read.
ToApply(c, force, readable) ==
    {p \in {"model", "pkg"} : force \/ c[p] # mem[p]}
        \cup {p \in {"matrix"} : readable /\ (force \/ c[p] # mem[p])}
        \cup {p \in {"inline"} : force \/ c.pkg # mem.pkg \/ c[p] # mem[p]}

\* Mutant: a deferred channel waits for the next change.
BeginIfChanged(force, readable) ==
    /\ job.pc = IF force THEN "starting" ELSE "idle"
    /\ force \/ ChangedFrom
    /\ IF readable THEN spent' = spent ELSE Faulty
    /\ mem' = [mem EXCEPT !.retry = ~readable]
    /\ job' = [pc |-> "model", cfg |-> want.cfg, gen |-> want.gen, force |-> force,
               do |-> ToApply(want.cfg, force, readable), snap |-> NoSnap]
    /\ UNCHANGED <<want, rt, owned, ws, pkgdir, torn>>

Begin(force, readable) ==
    /\ job.pc = IF force THEN "starting" ELSE "idle"
    /\ force \/ ChangedFrom \/ mem.retry
    /\ IF readable THEN spent' = spent ELSE Faulty
    /\ mem' = [mem EXCEPT !.retry = ~readable]
    /\ job' = [pc |-> "model", cfg |-> want.cfg, gen |-> want.gen, force |-> force,
               do |-> ToApply(want.cfg, force, readable), snap |-> NoSnap]
    /\ UNCHANGED <<want, rt, owned, ws, pkgdir, torn>>

\* A poll that finds nothing to do.
SkipPoll ==
    /\ job.pc = "idle" /\ ~ChangedFrom /\ ~mem.retry
    /\ UNCHANGED updaterVars

\* A part that one API call applies, and that is remembered at once.
ApplyPart(p, next, o) ==
    /\ job.pc = p
    /\ IF p \in job.do /\ job.cfg[p] # None
       THEN /\ Ended(o)
            /\ rt' = IF Took(o) THEN [rt EXCEPT ![p] = job.cfg[p]] ELSE rt
       ELSE o = "ok" /\ UNCHANGED <<rt, spent>>
    /\ IF o = "ok"
       THEN /\ Goes(next)
            /\ mem' = IF p \in job.do THEN [mem EXCEPT ![p] = job.cfg[p]] ELSE mem
            /\ torn' = IF p \in job.do THEN torn \ {p} ELSE torn
       ELSE /\ Raises /\ mem' = MemAfterRaise
            /\ torn' = IF o = "lost" THEN torn \cup {p} ELSE torn
    /\ UNCHANGED <<want, owned, ws, pkgdir>>

ApplyModel(o) == ApplyPart("model", "matrix", o)

\* The channel is replaced as a whole, access control included; "defer": it cannot be
\* read, and the channel is left for the next poll.
ApplyMatrix(o) ==
    /\ job.pc = "matrix"
    /\ IF "matrix" \in job.do
       THEN /\ IF o = "ok" THEN spent' = spent ELSE Faulty
            /\ rt' = IF Took(o) THEN [rt EXCEPT !.matrix = job.cfg.matrix, !.acl = None] ELSE rt
       ELSE o = "ok" /\ UNCHANGED <<rt, spent>>
    /\ IF o \in {"ok", "defer"}
       THEN /\ Goes("policy")
            /\ mem' = IF "matrix" \notin job.do THEN mem
                      ELSE IF o = "defer" THEN [mem EXCEPT !.retry = TRUE]
                      ELSE [mem EXCEPT !.matrix = job.cfg.matrix, !.retry = FALSE]
            /\ torn' = IF o = "ok" /\ "matrix" \in job.do THEN torn \ {"matrix"} ELSE torn
       ELSE /\ Raises /\ mem' = MemAfterRaise
            /\ torn' = torn \cup RetryForgotten \cup (IF o = "lost" THEN {"matrix"} ELSE {})
    /\ UNCHANGED <<want, owned, ws, pkgdir>>

\* Mutant: the policy is applied when it changed.
PolicyIfChanged(o) ==
    /\ job.pc = "policy" /\ o \in Outcomes
    /\ IF mem.cfg # None /\ mem.cfg.acl = job.cfg.acl
       THEN o = "ok" /\ UNCHANGED <<rt, spent>>
       ELSE Ended(o) /\ rt' = IF Took(o) THEN [rt EXCEPT !.acl = job.cfg.acl] ELSE rt
    /\ IF o = "ok" THEN Goes("package") /\ UNCHANGED mem ELSE Raises /\ mem' = MemAfterRaise
    /\ torn' = IF o = "ok" THEN torn \ {"retry"} ELSE torn \cup RetryForgotten
    /\ UNCHANGED <<want, owned, ws, pkgdir>>

\* _apply_channel_policy, always and after the channel; without a policy of its own it
\* needs to read the channel.  "unset": QwenPaw does not keep the flags, which is logged.
ApplyPolicy(o) ==
    /\ job.pc = "policy"
    /\ o = "defer" => job.cfg.acl = None
    /\ IF o = "ok" THEN spent' = spent ELSE Faulty
    /\ rt' = IF Took(o) THEN [rt EXCEPT !.acl = job.cfg.acl] ELSE rt
    /\ CASE o \in {"ok", "unset"} -> Goes("package") /\ UNCHANGED mem
         [] o = "defer" -> Goes("package") /\ mem' = [mem EXCEPT !.retry = TRUE]
         [] OTHER -> Raises /\ mem' = MemAfterRaise
    /\ torn' = CASE o = "ok" -> torn \ {"acl", "retry"}
                 [] o = "unset" -> (torn \ {"retry"}) \cup {"acl"}
                 [] o = "defer" -> torn \ {"retry"}
                 [] OTHER -> torn \cup RetryForgotten
    /\ UNCHANGED <<want, owned, ws, pkgdir>>

-----------------------------------------------------------------------------
(* AgentPackageManager.apply *)

\* _apply_to_workspace: prompt files and skills of package p.
Copied(p) == [prompt |-> p, pkgs |-> ws.pkgs \cup {p}]

PackageNotDue ==
    /\ job.pc = "package"
    /\ "pkg" \notin job.do \/ job.cfg.pkg = None
    /\ Goes("mcp")
    /\ UNCHANGED <<want, mem, rt, owned, ws, pkgdir, torn, spent>>

PackageDue == job.pc = "package" /\ "pkg" \in job.do /\ job.cfg.pkg # None

\* The package is current already: it is copied again, or the copy is rolled back.
PackageCurrent(o) ==
    /\ PackageDue /\ pkgdir.marker = job.cfg.pkg /\ pkgdir.current # None
    /\ o # "lost" /\ Ended(o)
    /\ IF o = "ok" THEN Goes("mcp") /\ ws' = Copied(pkgdir.current) /\ UNCHANGED mem
       ELSE Raises /\ mem' = MemAfterRaise /\ UNCHANGED ws
    /\ UNCHANGED <<want, rt, owned, pkgdir, torn>>

\* Another one is fetched and extracted, and the workspace is saved.
PackageFetched ==
    /\ PackageDue /\ ~(pkgdir.marker = job.cfg.pkg /\ pkgdir.current # None)
    /\ job' = [job EXCEPT !.pc = "clean", !.snap = [held |-> TRUE, ws |-> ws, current |-> pkgdir.current]]
    /\ UNCHANGED <<want, mem, rt, owned, ws, pkgdir, torn, spent>>

\* Mutant: what the previous package brought stays.
StaleKept ==
    /\ job.pc = "clean"
    /\ Goes("copy")
    /\ UNCHANGED <<want, mem, rt, owned, ws, pkgdir, torn, spent>>

\* _cleanup_stale_workspace_targets: what only the previous package has.
PackageCleaned ==
    /\ job.pc = "clean"
    /\ ws' = [ws EXCEPT !.pkgs = @ \ ({pkgdir.current} \ {job.cfg.pkg})]
    /\ Goes("copy")
    /\ UNCHANGED <<want, mem, rt, owned, pkgdir, torn, spent>>

PackageCopied ==
    /\ job.pc = "copy"
    /\ ws' = Copied(job.cfg.pkg)
    /\ Goes("unlink")
    /\ UNCHANGED <<want, mem, rt, owned, pkgdir, torn, spent>>

\* _commit_current: current/ is moved away, the new one takes its place, then the marker.
CurrentMoved ==
    /\ job.pc = "unlink"
    /\ pkgdir' = [pkgdir EXCEPT !.current = None]
    /\ Goes("link")
    /\ UNCHANGED <<want, mem, rt, owned, ws, torn, spent>>

StagingMoved ==
    /\ job.pc = "link"
    /\ pkgdir' = [pkgdir EXCEPT !.current = job.cfg.pkg]
    /\ Goes("mark")
    /\ UNCHANGED <<want, mem, rt, owned, ws, torn, spent>>

MarkerWritten ==
    /\ job.pc = "mark"
    /\ pkgdir' = [pkgdir EXCEPT !.marker = job.cfg.pkg]
    /\ job' = [job EXCEPT !.pc = "mcp", !.snap = NoSnap]
    /\ torn' = torn \ {"pkg"}
    /\ UNCHANGED <<want, mem, rt, owned, ws, spent>>

InPackage == job.pc \in {"clean", "copy", "unlink", "link", "mark"}

\* A step of the swap raises: _restore_workspace_snapshot, and current/ is put back.
PackageFails ==
    /\ \/ PackageDue
       \/ InPackage
    /\ Faulty
    /\ ws' = IF InPackage THEN job.snap.ws ELSE ws
    /\ pkgdir' = IF InPackage THEN [pkgdir EXCEPT !.current = job.snap.current] ELSE pkgdir
    /\ Raises /\ mem' = MemAfterRaise
    /\ UNCHANGED <<want, rt, owned, torn>>

-----------------------------------------------------------------------------
(* _reconcile_mcp_clients, inline configuration, end *)

\* Clients of an earlier configuration.
StaleClients == {k \in owned : job.cfg.mcp[k] = None}

\* create_mcp for a missing client, update_mcp for one with another identity.
DueClients ==
    {k \in Keys : /\ job.cfg.mcp[k] # None
                  /\ rt.mcp[k] = None \/ job.force \/ mem.mcp[k] # job.cfg.mcp[k]}

DeleteClients(o) ==
    /\ job.pc = "mcp"
    /\ Ended(o)
    /\ \E D \in SUBSET StaleClients :
          /\ (o = "ok") => (D = StaleClients)
          /\ rt' = [rt EXCEPT !.mcp = [k \in DOMAIN @ |-> IF k \in D THEN None ELSE @[k]]]
    /\ IF o = "ok" THEN Goes("clients") /\ UNCHANGED <<mem, torn>>
       ELSE Raises /\ mem' = MemAfterRaise /\ torn' = torn \cup Unrecorded
    /\ UNCHANGED <<want, owned, ws, pkgdir>>

\* One call for each client: a failure leaves some of them done.
WriteClients(o) ==
    /\ job.pc = "clients"
    /\ Ended(o)
    /\ \E D \in SUBSET DueClients :
          /\ (o = "ok") => (D = DueClients)
          /\ rt' = [rt EXCEPT !.mcp = [k \in DOMAIN @ |-> IF k \in D THEN job.cfg.mcp[k] ELSE @[k]]]
    /\ IF o = "ok"
       THEN Goes("own") /\ mem' = [mem EXCEPT !.mcp = job.cfg.mcp] /\ UNCHANGED torn
       ELSE Raises /\ mem' = MemAfterRaise /\ torn' = torn \cup Unrecorded \cup {"mcp"}
    /\ UNCHANGED <<want, owned, ws, pkgdir>>

\* _write_managed_mcp_keys
RecordOwned ==
    /\ job.pc = "own"
    /\ owned' = {k \in Keys : job.cfg.mcp[k] # None}
    /\ Goes("inline")
    /\ torn' = IF rt.mcp = job.cfg.mcp THEN torn \ {"mcp"} ELSE torn
    /\ UNCHANGED <<want, mem, rt, ws, pkgdir, spent>>

\* _apply_inline_config: an absent one leaves the prompt files alone.
ApplyInline(o) ==
    /\ job.pc = "inline" /\ o # "lost" /\ Ended(o)
    /\ "inline" \notin job.do => o = "ok"
    /\ ws' = IF "inline" \in job.do /\ job.cfg.inline # None /\ o = "ok"
             THEN [ws EXCEPT !.prompt = job.cfg.inline] ELSE ws
    /\ IF o = "ok"
       THEN /\ Goes("commit")
            /\ mem' = IF "inline" \in job.do THEN [mem EXCEPT !.inline = job.cfg.inline] ELSE mem
            /\ torn' = IF "inline" \in job.do THEN torn \ {"inline"} ELSE torn
       ELSE Raises /\ mem' = MemAfterRaise /\ torn' = torn \cup Unrecorded
    /\ UNCHANGED <<want, rt, owned, pkgdir>>

\* The package is remembered, and the configuration becomes the current one.
Commit ==
    /\ job.pc = "commit"
    /\ mem' = [mem EXCEPT !.cfg = job.cfg, !.gen = job.gen,
                          !.pkg = IF "pkg" \in job.do THEN job.cfg.pkg ELSE @]
    /\ torn' = IF "pkg" \in job.do /\ pkgdir.marker = pkgdir.current THEN torn \ {"pkg"} ELSE torn
    /\ job' = NoJob("idle")
    /\ UNCHANGED <<want, rt, owned, ws, pkgdir, spent>>

-----------------------------------------------------------------------------
(* The worker *)

Restart ==
    /\ job.pc = "down"
    /\ job' = NoJob("starting")
    /\ UNCHANGED <<want, mem, rt, owned, ws, pkgdir, torn, spent>>

\* A crash.  A swap that was under way leaves its files; clients that were made are
\* not in the ownership file.
Crash ==
    /\ job.pc \notin {"down", "starting"}
    /\ Faulty
    /\ job' = NoJob("down")
    /\ mem' = Forgotten
    /\ torn' = torn \cup (IF job.pc \in {"unlink", "link", "mark"} THEN {"left"} ELSE {})
                    \cup (IF job.pc = "mark" THEN {"pkg"} ELSE {})
                    \cup (IF job.pc \in {"clients", "own"} THEN {"mcp"} ELSE {})
    /\ UNCHANGED <<want, rt, owned, ws, pkgdir>>

UpdaterInit ==
    /\ want \in [cfg : Configs, gen : {1}]
    /\ mem = Forgotten
    /\ job = NoJob("starting")
    /\ rt = [model |-> None, matrix |-> None, acl |-> None,
             mcp |-> NoClients]
    /\ owned = {}
    /\ ws = [prompt |-> None, pkgs |-> {}]
    /\ pkgdir = [current |-> None, marker |-> None]
    /\ torn = {}
    /\ spent = [changes |-> 0, faults |-> 0]

PackageStep ==
    \/ PackageNotDue \/ PackageFetched \/ PackageCleaned \/ PackageCopied
    \/ CurrentMoved \/ StagingMoved \/ MarkerWritten \/ PackageFails
    \/ \E o \in Outcomes : PackageCurrent(o)

UpdaterStep ==
    \/ \E force, readable \in BOOLEAN : Begin(force, readable)
    \/ \E o \in Outcomes : ApplyModel(o)
    \/ \E o \in Outcomes \cup {"defer"} : ApplyMatrix(o)
    \/ \E o \in Outcomes \cup {"defer", "unset"} : ApplyPolicy(o)
    \/ PackageStep
    \/ \E o \in Outcomes : DeleteClients(o) \/ WriteClients(o) \/ ApplyInline(o)
    \/ RecordOwned \/ Commit

UpdaterNext == (\E c \in Configs : Desire(c)) \/ SkipPoll \/ UpdaterStep \/ Restart \/ Crash

UpdaterSpec == UpdaterInit /\ [][UpdaterNext]_updaterVars

\* The update loop polls for ever, and a worker that exited is started again.
FairSpec == UpdaterSpec /\ WF_updaterVars(UpdaterStep) /\ WF_updaterVars(Restart)

-----------------------------------------------------------------------------
(* Properties *)

Parts == {"model", "matrix", "acl", "retry", "pkg", "left", "mcp", "inline"}

\* Type correctness of the updater; a workspace snapshot is held during a package swap
\* and only then, and nothing newer than the desired configuration is remembered.
UpdaterTypeOK ==
    /\ want.cfg \in Configs /\ want.gen \in Nat
    /\ mem.cfg \in Configs \cup {None} /\ mem.gen <= want.gen /\ mem.retry \in BOOLEAN
    /\ job.pc \in {"down", "starting", "idle", "model", "matrix", "policy", "package", "mcp",
                   "clients", "own", "inline", "commit"} \/ InPackage
    /\ InPackage <=> job.snap.held
    /\ DOMAIN rt.mcp = Keys
    /\ owned \subseteq Keys
    /\ ws.pkgs \subseteq Packages
    /\ pkgdir \in [current : Packages \cup {None}, marker : Packages \cup {None}]
    /\ torn \subseteq Parts

\* An application that gets to its end leaves QwenPaw and the workspace as its
\* configuration says, whatever failed or crashed before: model, channel, access
\* control, exactly the files of the package, exactly the clients, and the inline
\* prompt over the package's.  Exempt are the parts an earlier attempt stopped in and
\* no later one has applied again.
ApplyConverges ==
    job.pc = "commit" =>
        LET c == job.cfg IN
        /\ c.model # None /\ "model" \notin torn => rt.model = c.model
        /\ "matrix" \notin torn /\ ~mem.retry => rt.matrix = c.matrix
        /\ "acl" \notin torn /\ ~mem.retry => rt.acl = c.acl
        /\ c.pkg # None /\ "pkg" \notin torn =>
              /\ pkgdir = [current |-> c.pkg, marker |-> c.pkg]
              /\ c.pkg \in ws.pkgs
              /\ "left" \notin torn => ws.pkgs = {c.pkg}
        /\ "mcp" \notin torn => rt.mcp = c.mcp
        /\ c.inline # None /\ "inline" \notin torn => ws.prompt = c.inline

\* The configuration asked for last is applied in the end, and then the process has its
\* channel and access control, those whose read was deferred included, unless they are
\* in doubt or the application a retry asked for raised before it got to them.
DesiredReached ==
    []<>(/\ mem.cfg = want.cfg /\ mem.gen = want.gen /\ ~mem.retry
         /\ "retry" \notin torn =>
               /\ "matrix" \notin torn => rt.matrix = want.cfg.matrix
               /\ "acl" \notin torn => rt.acl = want.cfg.acl)
=============================================================================
