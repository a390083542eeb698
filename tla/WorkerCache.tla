---------------------------- MODULE WorkerCache ----------------------------
(***************************************************************************)
(* How quiczilla-cli gets a worker of its own build to run on a remote     *)
(* host: an installed one of the same checksum, or the bundle of worker,   *)
(* runtime and marker kept in a directory named by their hash.             *)
(*                                                                         *)
(* Several invocations work on one host.  None holds a lock: each step is  *)
(* a command of its own over SSH, and cleaning up is a listing followed by *)
(* removals, entry by entry.                                               *)
(***************************************************************************)
EXTENDS Naturals, Sequences, FiniteSets, Functions

CONSTANTS
    Clients,       \* invocations of the CLI
    Bundles,       \* bundle hashes
    Embedded,      \* clients that carry a runtime to deploy
    Retained,      \* bundles a cleanup keeps: 3
    Worlds,        \* what each client would deploy, and the host it finds
    MaxFailures,   \* invocations that a failing command or their user may stop
    SlowUploads,   \* half an hour may pass between two files of an upload
    Locks,         \* a file may be undeletable
    None

\* The installed worker: the bundle it belongs to, if it is there at all, whether
\* it starts, and the protocol version it reports, if it does.  noexec is a
\* property of the mount of the cache.
Host == [build: Bundles \cup {None}, starts: BOOLEAN, protocol: Nat \cup {None}, noexec: BOOLEAN]

\* cached: bundles of earlier invocations, newest first.
World == [deploys: [Clients -> Bundles], host: Host, cached: Seq(Bundles)]

ASSUME CacheAssumption ==
    /\ Worlds \subseteq World /\ \A w \in Worlds : IsInjective(w.cached)
    /\ Clients # {} /\ Embedded \subseteq Clients
    /\ Clients \cap Bundles = {} /\ None \notin Clients \cup Bundles \cup Nat
    /\ Retained \in Nat
    /\ MaxFailures \in Nat /\ {SlowUploads, Locks} \subseteq BOOLEAN

VARIABLES
    Bundle,      \* the bundle each client would deploy
    installed,   \* the host
    recent,      \* the directories of the cache, newest first: a bundle, or
                 \* the staging directory of a client
    bundle,      \* the entries of a bundle directory
    staging,     \* the entries of a staging directory
    stale,       \* staging directories older than half an hour
    cli,         \* what each invocation does
    uploading,   \* invocations whose upload command has opened its file
    deleting,    \* bundles its cleanup has listed and not dealt with yet
    managed,     \* used_managed_worker
    worker,      \* the worker process it started
    excused,     \* history: invocations stopped, or with a command that failed
    swept,       \* history: whose staging directory was cleaned away
    damaged,     \* history: bundles cleaned up, or published from such a one
    kept,        \* history: bundles a cleanup could not remove
    publisher    \* history: whose files a bundle directory holds

hostVars    == <<Bundle, installed>>
cacheVars   == <<recent, bundle, staging, stale>>
historyVars == <<excused, swept, damaged, kept, publisher>>
vars == <<hostVars, cacheVars, cli, uploading, deleting, managed, worker, historyVars>>

Members == {"worker", "runtime", "marker"}
Entries == Members \cup {"nested"}   \* a staging directory moved into a bundle

\* "worker", "runtime" and "marker" are the uploads, in this order.
Working == {"start", "check", "commit", "move", "spawn", "list", "prune", "remove",
            "await"} \cup Members
Ended   == {"ready", "failed", "interrupted"}

TypeOK ==
    /\ Bundle \in [Clients -> Bundles] /\ installed \in Host
    /\ recent \in Seq(Bundles \cup Clients) /\ IsInjective(recent)
    /\ bundle \in [Bundles -> SUBSET Entries] /\ staging \in [Clients -> SUBSET Members]
    /\ cli \in [Clients -> Working \cup Ended]
    /\ {stale, uploading, excused, swept, Embedded} \subseteq SUBSET Clients
    /\ deleting \in [Clients -> Seq(Bundles)] /\ managed \in [Clients -> BOOLEAN]
    /\ worker \in [Clients -> {"none", "spawned", "loading", "ready", "exited"}]
    /\ damaged \subseteq Bundles /\ kept \subseteq Bundles
    /\ publisher \in [Bundles -> Clients \cup {None}]

Present(d) == d \in Range(recent)

Init ==
    /\ \E w \in Worlds : Bundle = w.deploys /\ installed = w.host /\ recent = w.cached
    /\ bundle = [b \in Bundles |-> IF Present(b) THEN Members ELSE {}]
    /\ staging = [c \in Clients |-> {}] /\ stale = {}
    /\ cli = [c \in Clients |-> "start"] /\ uploading = {}
    /\ deleting = [c \in Clients |-> <<>>] /\ managed = [c \in Clients |-> TRUE]
    /\ worker = [c \in Clients |-> "none"]
    /\ excused = {} /\ swept = {} /\ damaged = {} /\ kept = {}
    /\ publisher = [b \in Bundles |-> None]

Goto(c, state) == cli' = [cli EXCEPT ![c] = state]

\* The members of s that are in S, in their order.
Among(s, S) ==
    LET upTo[n \in 0 .. Len(s)] ==
          IF n = 0 THEN <<>> ELSE IF s[n] \in S THEN Append(upTo[n - 1], s[n]) ELSE upTo[n - 1]
    IN  upTo[Len(s)]

Without(s, d) == Among(s, Range(s) \ {d})

\* Variant for the checks: the former place of the directory is kept.
TouchedTwice(d) == <<d>> \o recent

\* Creating or removing an entry makes a directory the newest.
Touched(d) == <<d>> \o Without(recent, d)

MayFail == Cardinality(excused) < MaxFailures

-----------------------------------------------------------------------------
\* Finding a worker

\* The SSH probe fails, or the host is of an unknown kind.
ProbeFails(c) ==
    /\ MayFail /\ cli[c] = "start"
    /\ Goto(c, "failed") /\ excused' = excused \cup {c}
    /\ UNCHANGED <<hostVars, cacheVars, uploading, deleting, managed, worker, swept, damaged, kept, publisher>>

\* The checksum of the installed worker is that of the one to deploy.
Discover(c) ==
    /\ cli[c] = "start"
    /\ IF installed.build = Bundle[c]
       THEN /\ managed' = [managed EXCEPT ![c] = FALSE]
            /\ worker' = [worker EXCEPT ![c] = "spawned"] /\ Goto(c, "await")
       ELSE /\ Goto(c, IF c \in Embedded THEN "check" ELSE "failed")
            /\ UNCHANGED <<managed, worker>>
    /\ UNCHANGED <<hostVars, cacheVars, uploading, deleting, historyVars>>

\* The installed worker, or its checksum, cannot be looked up.
DiscoverUnavailable(c) ==
    /\ MayFail /\ cli[c] = "start" /\ installed.build = Bundle[c]
    /\ Goto(c, IF c \in Embedded THEN "check" ELSE "failed") /\ excused' = excused \cup {c}
    /\ UNCHANGED <<hostVars, cacheVars, uploading, deleting, managed, worker, swept, damaged, kept, publisher>>

CacheHit(b) == "marker" \in bundle[b]

CheckCache(c) ==
    /\ cli[c] = "check"
    /\ \/ Goto(c, IF CacheHit(Bundle[c]) THEN "spawn" ELSE "worker")
       \/ MayFail /\ Goto(c, "worker")
    /\ UNCHANGED <<hostVars, cacheVars, uploading, deleting, managed, worker, historyVars>>

-----------------------------------------------------------------------------
\* Uploading and publishing a bundle

\* `mkdir -p`, and the redirection creates the file.
UploadOpens(c) ==
    /\ cli[c] \in Members /\ c \notin uploading
    /\ uploading' = uploading \cup {c}
    /\ recent' = Touched(c) /\ stale' = stale \ {c}
    /\ UNCHANGED <<hostVars, bundle, staging, cli, deleting, managed, worker, historyVars>>

AfterUpload(member) ==
    CASE member = "worker" -> "runtime" [] member = "runtime" -> "marker"
      [] member = "marker" -> "commit"

\* A file whose directory was removed meanwhile is written all the same; only
\* the worker is given its mode by name afterwards.
UploadEnds(c) ==
    /\ c \in uploading
    /\ uploading' = uploading \ {c}
    /\ staging' = [staging EXCEPT ![c] = IF Present(c) THEN @ \cup {cli[c]} ELSE @]
    /\ Goto(c, IF cli[c] = "worker" /\ ~Present(c) THEN "failed" ELSE AfterUpload(cli[c]))
    /\ UNCHANGED <<hostVars, recent, bundle, stale, deleting, managed, worker, historyVars>>

\* Variant for the checks: the status of an upload is not looked at.
UploadUnchecked(member) == AfterUpload(member)

FailedUpload(member) == "failed"

UploadFails(c) ==
    /\ MayFail /\ c \in uploading
    /\ uploading' = uploading \ {c} /\ excused' = excused \cup {c}
    /\ Goto(c, FailedUpload(cli[c]))
    /\ UNCHANGED <<hostVars, cacheVars, deleting, managed, worker, swept, damaged, kept, publisher>>

\* The commit is one shell script: it tests for the directory, then moves.
CommitTest(c) ==
    /\ cli[c] = "commit"
    /\ IF Present(Bundle[c])
       THEN /\ recent' = Without(recent, c) /\ staging' = [staging EXCEPT ![c] = {}]
            /\ stale' = stale \ {c} /\ Goto(c, "spawn")
       ELSE Goto(c, "move") /\ UNCHANGED <<recent, staging, stale>>
    /\ UNCHANGED <<hostVars, bundle, uploading, deleting, managed, worker, historyVars>>

\* rm holds the directory it opened: when that one is gone or replaced, it
\* leaves a new one of the same name alone.
Dropped(b) == {d \in Clients : cli[d] = "remove" /\ Head(deleting[d]) = b}

SkipDropped(b, next) ==
    /\ cli' = [d \in Clients |-> IF d \in Dropped(b) THEN "prune" ELSE next[d]]
    /\ deleting' = [d \in Clients |-> IF d \in Dropped(b) THEN Tail(deleting[d]) ELSE deleting[d]]

\* Variant for the checks: the files are copied into a directory that is there.
CopyOver(b) == Present(b) \/ bundle[b] = {}

\* `mv -T` takes the place of nothing or of an empty directory.
Replaces(b) == bundle[b] = {}

Publish(c, b) ==
    /\ bundle' = [bundle EXCEPT ![b] = staging[c]]
    /\ recent' = [i \in DOMAIN Without(recent, b) |->
                    IF Without(recent, b)[i] = c THEN b ELSE Without(recent, b)[i]]
    /\ damaged' = IF c \in swept THEN damaged \cup {b} ELSE damaged
    /\ publisher' = [publisher EXCEPT ![b] = c]
    /\ SkipDropped(b, [cli EXCEPT ![c] = "spawn"])

\* Variant for the checks: a move that loses the race is an error.
LostRaceFails(c) == "failed"

AfterMove(c) == "spawn"

\* The second `mv` moves into the directory.
Nest(c, b) ==
    /\ bundle' = [bundle EXCEPT ![b] = @ \cup {"nested"}]
    /\ recent' = Without(Touched(b), c)
    /\ Goto(c, AfterMove(c)) /\ UNCHANGED <<deleting, damaged, publisher>>

Move(c) ==
    /\ cli[c] = "move" /\ Present(c)
    /\ IF Replaces(Bundle[c]) THEN Publish(c, Bundle[c]) ELSE Nest(c, Bundle[c])
    /\ staging' = [staging EXCEPT ![c] = {}] /\ stale' = stale \ {c}
    /\ UNCHANGED <<hostVars, uploading, managed, worker, excused, swept, kept>>

NothingToMove(c) ==
    /\ cli[c] = "move" /\ ~Present(c)
    /\ Goto(c, AfterMove(c))
    /\ UNCHANGED <<hostVars, cacheVars, uploading, deleting, managed, worker, historyVars>>

\* The commit command cannot be run.
CommitFails(c) ==
    /\ MayFail /\ cli[c] = "commit"
    /\ Goto(c, "failed") /\ excused' = excused \cup {c}
    /\ UNCHANGED <<hostVars, cacheVars, uploading, deleting, managed, worker, swept, damaged, kept, publisher>>

-----------------------------------------------------------------------------
\* Starting it, and cleaning up at once

Spawn(c) ==
    /\ cli[c] = "spawn"
    /\ worker' = [worker EXCEPT ![c] = "spawned"] /\ Goto(c, "list")
    /\ UNCHANGED <<hostVars, cacheVars, uploading, deleting, managed, historyVars>>

\* Variant for the checks: one bundle too many is kept.
OneMoreRetained(bundles) == SubSeq(bundles, Retained + 2, Len(bundles))

Superfluous(bundles) == SubSeq(bundles, Retained + 1, Len(bundles))

List(c) ==
    /\ cli[c] = "list"
    /\ deleting' = [deleting EXCEPT ![c] = Superfluous(Among(recent, Bundles))]
    /\ Goto(c, "prune")
    /\ UNCHANGED <<hostVars, cacheVars, uploading, managed, worker, historyVars>>

\* Cleaning up is best-effort: its failures are ignored.
ListFails(c) ==
    /\ MayFail /\ cli[c] = "list"
    /\ Goto(c, "await") /\ excused' = excused \cup {c}
    /\ UNCHANGED <<hostVars, cacheVars, uploading, deleting, managed, worker, swept, damaged, kept, publisher>>

\* rm opens the next directory, if it is still there.
RemoveNext(c) ==
    /\ cli[c] = "prune" /\ deleting[c] # <<>>
    /\ IF Present(Head(deleting[c]))
       THEN Goto(c, "remove") /\ UNCHANGED deleting
       ELSE deleting' = [deleting EXCEPT ![c] = Tail(@)] /\ UNCHANGED cli
    /\ UNCHANGED <<hostVars, cacheVars, uploading, managed, worker, historyVars>>

RemoveEntry(c, entry) ==
    /\ cli[c] = "remove"
    /\ LET b == Head(deleting[c]) IN
       /\ entry \in bundle[b]
       /\ bundle' = [bundle EXCEPT ![b] = @ \ {entry}]
       /\ recent' = Touched(b) /\ damaged' = damaged \cup {b}
    /\ UNCHANGED <<hostVars, staging, stale, cli, uploading, deleting, managed, worker, excused, swept, kept, publisher>>

RemoveDirectory(c) ==
    /\ cli[c] = "remove"
    /\ LET b == Head(deleting[c]) IN
       /\ bundle[b] = {}
       /\ recent' = Without(recent, b) /\ SkipDropped(b, cli)
    /\ UNCHANGED <<hostVars, bundle, staging, stale, uploading, managed, worker, historyVars>>

\* A locked executable, or an entry that rm did not list, stays.
RemoveFails(c) ==
    /\ cli[c] = "remove"
    /\ Locks \/ "nested" \in bundle[Head(deleting[c])]
    /\ Goto(c, "prune") /\ deleting' = [deleting EXCEPT ![c] = Tail(@)]
    /\ kept' = kept \cup {Head(deleting[c])}
    /\ UNCHANGED <<hostVars, cacheVars, uploading, managed, worker, excused, swept, damaged, publisher>>

\* Staging directories half an hour old; what is renamed since is not found.
Sweep(c) ==
    /\ cli[c] = "prune" /\ deleting[c] = <<>>
    /\ recent' = Among(recent, Range(recent) \ stale)
    /\ staging' = [d \in Clients |-> IF d \in stale THEN {} ELSE staging[d]]
    /\ swept' = swept \cup stale /\ stale' = {}
    /\ Goto(c, "await")
    /\ UNCHANGED <<hostVars, bundle, uploading, deleting, managed, worker, excused, damaged, kept, publisher>>

-----------------------------------------------------------------------------
\* The worker process, and its ready line

\* The shell finds the executable and may run it.
WorkerExec(c) ==
    /\ worker[c] = "spawned"
    /\ worker' = [worker EXCEPT ![c] =
         IF managed[c] THEN IF "worker" \in bundle[Bundle[c]] /\ ~installed.noexec THEN "loading" ELSE "exited"
         ELSE IF installed.starts THEN "ready" ELSE "exited"]
    /\ UNCHANGED <<hostVars, cacheVars, cli, uploading, deleting, managed, historyVars>>

\* The runtime is found beside it, or the host has one of its own.
WorkerLoad(c) ==
    /\ worker[c] = "loading"
    /\ \/ worker' = [worker EXCEPT ![c] = "ready"]
       \/ "runtime" \notin bundle[Bundle[c]] /\ worker' = [worker EXCEPT ![c] = "exited"]
    /\ UNCHANGED <<hostVars, cacheVars, cli, uploading, deleting, managed, historyVars>>

\* Its SSH session ends before the ready line.
WorkerCut(c) ==
    /\ MayFail /\ worker[c] \in {"spawned", "loading"}
    /\ worker' = [worker EXCEPT ![c] = "exited"] /\ excused' = excused \cup {c}
    /\ UNCHANGED <<hostVars, cacheVars, cli, uploading, deleting, managed, swept, damaged, kept, publisher>>

\* MIN_SUPPORTED_PROTOCOL_VERSION and CURRENT_PROTOCOL_VERSION are both 1; a
\* worker that reports none is accepted.
Compatible(protocol) == protocol = None \/ protocol = 1

Protocol(c) == IF managed[c] THEN 1 ELSE installed.protocol

AwaitReady(c) ==
    /\ cli[c] = "await" /\ worker[c] = "ready"
    /\ Goto(c, IF Compatible(Protocol(c)) THEN "ready" ELSE "failed")
    /\ UNCHANGED <<hostVars, cacheVars, uploading, deleting, managed, worker, historyVars>>

\* Variant for the checks: the installed worker is started again and again.
StillManaged(c) == TRUE

ManagedNow(c) == FALSE

\* The output ended without a ready line.
AwaitEnd(c) ==
    /\ cli[c] = "await" /\ worker[c] = "exited"
    /\ IF managed[c] /\ installed.build # None
       THEN /\ managed' = [managed EXCEPT ![c] = ManagedNow(c)]
            /\ worker' = [worker EXCEPT ![c] = "spawned"] /\ UNCHANGED cli
       ELSE Goto(c, "failed") /\ UNCHANGED <<managed, worker>>
    /\ UNCHANGED <<hostVars, cacheVars, uploading, deleting, historyVars>>

\* The user gives up; a script that runs on the host still ends.
Interrupt(c) ==
    /\ MayFail /\ cli[c] \in {"start", "check", "commit", "spawn", "list", "await"} \cup Members
    /\ Goto(c, "interrupted") /\ uploading' = uploading \ {c} /\ excused' = excused \cup {c}
    /\ UNCHANGED <<hostVars, cacheVars, deleting, managed, worker, swept, damaged, kept, publisher>>

\* Half an hour passes with nothing new in a staging directory.
GrowsStale(c) ==
    /\ SlowUploads /\ Present(c) /\ c \notin stale
    /\ stale' = stale \cup {c}
    /\ UNCHANGED <<hostVars, recent, bundle, staging, cli, uploading, deleting, managed, worker, historyVars>>

-----------------------------------------------------------------------------

Prune(c) ==
    \/ List(c) \/ ListFails(c) \/ RemoveNext(c) \/ RemoveDirectory(c) \/ RemoveFails(c) \/ Sweep(c)
    \/ \E entry \in Entries : RemoveEntry(c, entry)

CliNext(c) ==
    \/ ProbeFails(c) \/ Discover(c) \/ DiscoverUnavailable(c) \/ CheckCache(c)
    \/ UploadOpens(c) \/ UploadEnds(c) \/ UploadFails(c)
    \/ CommitTest(c) \/ CommitFails(c) \/ Move(c) \/ NothingToMove(c)
    \/ Spawn(c) \/ Prune(c) \/ AwaitReady(c) \/ AwaitEnd(c)

WorkerNext(c) == WorkerExec(c) \/ WorkerLoad(c) \/ WorkerCut(c)

Finished ==
    /\ \A c \in Clients : cli[c] \in Ended /\ worker[c] \notin {"spawned", "loading"}
    /\ UNCHANGED vars

Next ==
    \/ \E c \in Clients : CliNext(c) \/ WorkerNext(c) \/ Interrupt(c) \/ GrowsStale(c)
    \/ Finished

Spec == Init /\ [][Next]_vars

\* Every command over SSH ends, and a started worker prints or exits.
FairSpec == Spec /\ \A c \in Clients : WF_vars(CliNext(c)) /\ WF_vars(WorkerNext(c))

-----------------------------------------------------------------------------
\* Properties

Whole(b) == Members \subseteq bundle[b]

\* A bundle directory that no cleanup has touched holds all its files, whatever
\* uploads failed, raced or were given up: it is published whole or not at all.
PublishedWhole == \A b \in Bundles : Present(b) /\ b \notin damaged => Whole(b)

\* A directory that holds anything is never filled or replaced by the upload of
\* another invocation: a worker may be running from it.
NeverOverwritten ==
    [][\A b \in Bundles : bundle[b] # {} => publisher'[b] = publisher[b]]_vars

InstalledUnusable == ~installed.starts \/ ~Compatible(installed.protocol)

\* A bootstrap fails for a reason: a command that failed, no runtime to deploy,
\* a host that executes neither worker, or a cleanup in its way; never because
\* another invocation uploads the same bundle at the same time.
FailureHasCause ==
    \A c \in Clients : cli[c] = "failed" =>
        \/ c \in excused \cup swept
        \/ c \notin Embedded
        \/ (Bundle[c] \in damaged \/ installed.noexec) /\ (installed.build = None \/ InstalledUnusable)
        \/ installed.build = Bundle[c] /\ InstalledUnusable

\* When all have ended and every cleanup could work, the cache is down to what
\* is to be retained, in whatever order uploads and cleanups took place.
CacheBounded ==
    (\A c \in Clients : cli[c] = "ready" /\ worker[c] = "ready" /\ managed[c]) /\ kept = {} /\ excused = {} =>
        Cardinality({b \in Bundles : Present(b)}) <= Retained

\* Every invocation ends: the fall-back to the installed worker is taken once.
BootstrapEnds == \A c \in Clients : <>(cli[c] \in Ended)

\* README.md:393-395: after a worker starts, the cache is pruned to "the active
\* bundle plus two recent ones".
ActiveBundleKept ==
    \A c \in Clients : ~(cli[c] = "remove" /\ Head(deleting[c]) = Bundle[c])
=============================================================================
