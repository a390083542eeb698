# A verification development for quiczilla

TLA+ models of quiczilla, the TLC configurations that check them on small
instances, and TLAPS proofs of the main results for every instance. Paths are
relative to the repository.

## 1. The system

`quiczilla-cli` sends a file, a directory or a pipe to a remote machine. It
starts `quiczilla-worker` there over SSH (or talks to a daemon), connects to it
over QUIC with certificates pinned in both directions, and falls back to SSH
itself when QUIC cannot be used.

| Component | State | Operations | Talks to |
|---|---|---|---|
| File transfer, `core/src/peer.rs` | pending send, pending accept, recorded offer, pending resume, pause watch, expected hashes; the file tasks' offsets; `<file>.quic-part` | commands SendFile, AcceptFile, RejectFile, Pause, Resume, Disconnect; one handler per control message; file send and file receive task | its peer over a control and a file stream; its program by commands and events |
| Messages and helpers, `core/src/types.rs` | none | `ControlMessage`, fingerprint, whole-file hash, part path | used by the above |
| `core/src/peer_generic.rs` | as `peer.rs` | the same over any stream, for tests | |
| Worker, `worker/src/main.rs` | conflict policy, listener queue | one-shot and daemon loop, stream classification, file, directory and pipe mode | `run_peer`, listener |
| CLI, `cli/src/main.rs` | transport, pause flag, final event | bootstrap and worker cache, STUN discovery, candidate race, event loop, SSH fallback, exit codes | SSH, `run_peer`, MsQuic |
| MsQuic connections, `core/src/msquic/engine.rs` | `connect_tx`, `stream_tx`, shutdown reason | connection and listener callbacks, connect, open and accept a stream, shutdown | MsQuic threads, the tasks |
| MsQuic streams, `core/src/msquic/stream.rs` | receive buffer, bytes in flight, wakers, closed flags, error | stream callback, poll_read, poll_write, poll_flush, poll_shutdown | MsQuic threads, the tasks |
| Directory transfer, `core/src/directory.rs` | partial file, totals | send, receive, acknowledge | one stream |
| Pipe, `core/src/pipe.rs` | two copies, cancellation | both directions, final FIN | one stream, a child process |
| Worker cache, `cli/src/main.rs` | directories on the remote host | discover, check, upload, publish, start, clean up | SSH commands, other invocations |
| Daemon, `worker/src/main.rs`, and direct mode | a save directory shared by all sessions | a session per connection | `run_peer`, listener |
| Identities, `core/src/cert.rs` | key, certificate and thumbprint files | create or load | MsQuic, other starts |
| STUN, progress | a socket, the terminal | | |

What is hard in it: `run_peer` is six concurrent tasks per side that share
channels and a disk; the resume negotiation sets up two tasks on two machines
through `Option`s that handlers take out and put back; the connection may be
lost, and either program may be cancelled, at any point, and what is then on
the disk is what the next session resumes from; the candidate race is a
`select!` over futures that must not be polled after completion, against
callbacks of MsQuic threads; several failures are only logged.
`PROJECT.json` lists these hazards with their lines and the properties that
watch them.

What makes each part correct:

- **File transfer**: both tasks work from the same offset; a transfer reported
  as completed delivered the source; a destination is not touched before the
  received file is verified; a resume keeps what was received; every session
  ends.
- **Connection selection**: SSH comes last, and only in auto mode; the winner of
  the race carries the transfer; every invocation ends.
- **Streams**: first in first out, bounded in flight, no lost wake-up, no end
  before the last byte while the connection holds.
- **Directory**: a transfer reported complete delivered the tree; a file appears
  whole or not at all; an acknowledgement is understood whenever it comes.
- **Daemon**: what is reported complete is at the destination; a file is replaced
  at once; a policy of refusing is kept; a session ends.
- **Worker cache**: a bundle is published whole and never changed; nobody fails
  for what another invocation does at the same time; the cache stays bounded;
  every bootstrap ends.
- **Pipe**: neither direction is cut short without a cause; both processes end.
- **Identities**: what a node announces is the certificate it uses; it stays the
  same over restarts and crashes.

## 2. Modules

| Module | What it is |
|---|---|
| `FileDelivery` | what a file transfer promises its user |
| `PeerTransfer` | a file from client to worker: `run_peer` on both sides with the CLI's and the worker's event loops around it |
| `MCPeerTransfer` | its constants for TLC |
| `PeerTransferInv` | its inductive invariant, in named parts |
| `PeerTransferProofs` | proofs: types and the control protocol, then the bytes: delivery, staging and resuming; that it implements `FileDelivery` |
| `ConnectionSelection` | the candidate race, the one-shot worker, the SSH fallback |
| `MCConnectionSelection` | its constants for TLC |
| `ConnectionSelectionProofs` | proofs: its safety properties |
| `ByteStream` | what one direction of a stream promises |
| `QuicStream` | the state, callback and poll functions of a stream, at both ends |
| `MCQuicStream` | its constants for TLC |
| `QuicStreamProofs` | proofs: all its safety properties, and that it implements `ByteStream` |
| `DirectoryTransfer` | a directory from client to worker |
| `MCDirectoryTransfer` | its constants for TLC |
| `DirectoryTransferProofs` | proofs: all its safety properties |
| `WorkerCache` | how invocations get a worker to run on a host |
| `MCWorkerCache` | its constants for TLC |
| `WorkerCacheProofs` | proofs: all its safety properties |
| `PipeDuplex` | a pipe through a remote command |
| `MCPipeDuplex` | its constants for TLC |
| `PipeDuplexProofs` | proofs: all its safety properties |
| `DaemonService` | concurrent sessions of a daemon on one file |
| `MCDaemonService` | its constants for TLC |
| `DaemonServiceProofs` | proofs: types, delivery, replacement, refusal |
| `IdentityFiles` | the identity of a node as files |
| `MCIdentityFiles` | its constants for TLC |
| `IdentityFilesProofs` | proofs: all its properties |

### PeerTransfer

Actors and their code: the client's main loop (`ClientNext`, peer.rs 640-853)
and file send task (`SendNext`, 131-331), the worker's main loop together with
the event loop of `worker/src/main.rs` 510-571 (`WorkerNext`) and its file
receive task (`RecvNext`, 333-629), and the environment (`UserNext`: sessions,
keys, edits of the source, loss of the connection). The control send task is
the two queues `toWorker` and `toClient`; MsQuic delivers them in order until
the connection ends. The disk reader and writer tasks are part of the file
tasks: between them are channels whose content counts as not yet read, or, when
a session ends, as lost in any quantity (`RecvAbort`).

| State | Code |
|---|---|
| `pendingSend`, `pendingAccept`, `offered`, `pendingRecv` | `pending_send_path`, `pending_accept`, `offered_file_*`, `pending_resume_recv` |
| `recvPlan` | the tuple in `recv_file_trigger_tx` |
| `sendOffset`, `sent`, `recvPlan.offset`, `rcvd` | `resume_offset`, `bytes_transferred`, `total_received` |
| `hashRx`, `sendHash`, `recvHash` | `hash_rx`, `final_hash`, `actual_hash` |
| `cliPaused`, `wrkPaused` | the pause watches |
| `cliResult`, `wrkResult` | the final event each program acts on |
| `part`, `dest`, `src` | the files on disk |
| `base`, `edited` | history variables used in properties only |

A file is a sequence of units, a unit being a part of a 2 MiB chunk; a digest is
the content it was taken over; `NONE` and missing fields are `None`. A session
is one connection; the next one finds the disk as the last one left it. A crash
is a loss of the connection after which the crashed side takes no step.
`AcceptEarly` is the acceptance before an offer that `run_peer` supports and its
tests use.

Left out: pings and progress events, the byte framing of control messages (a
message is read whole), a second SendFile in a session (neither program sends
one), the two other `Rejected` messages (no code sends them), two presses of the
pause key before its event, failure of `set_len`, replacement of the source by
renaming. Both directions of `run_peer` are independent of each other; one is
modelled.

`FileDelivery` is the promise, session by session: the session chooses, once, to
write in place or to stage (it has to stage a large file that is not resumed); in
place, it writes until its verdict; staged, it replaces the destination in one
step, at the delivery, or not at all; after the verdict nothing touches the
destination; what is delivered is the source whenever that is vouched for (the
source was left alone, and digests were compared or the bytes resumed from were
its own); and the user is told of a completed transfer after its delivery only.
The mapping reads `mode` and `outcome` off the receive task, and `completed` off
the CLI's final event. `ImplementsFileDelivery` is the refinement. An edit of the
source withdraws `bound` and `vouched`: nothing is promised of the content then,
but that a staged destination is replaced in one step still is.

### ConnectionSelection

`connect_quic_candidate` is one action per branch of `select!`, plus the first
poll of a future (`StunStarted`), the completion of a handshake by MsQuic
(`Connected`, `ConnectFails`), the listener's `NewConnection` and the worker's
`TakeConnection`. `attempt[c]` distinguishes a future that has completed but has
not been polled since from one polled to completion, which panics if polled
again (`StunPolledAgain`). STUN discovery and the bootstrap are the choice of
`stunAddr`; the transfer is one step (`TransferEnds`, `TransferLost`), since
`PeerTransfer` models it. Directory and pipe mode use the same race but have no
SSH fallback; only file mode is modelled. Killing the local `ssh` child is not a
message to the worker.

### ByteStream, QuicStream

`QuicStream` is `stream.rs` at both ends of one stream. Each poll function and
each event of the callback holds the mutex from beginning to end and is one
action; `shared[e]` is `StreamShared`, a waker being present or not. A parked
task is one whose poll returned Pending and whose waker was not taken since; it
may be polled all the same, since a task is also woken for other reasons.
`Abandon` is a write whose future `select!` drops. MsQuic is external: it
delivers the accepted bytes in order and in any pieces; it completes sends
whenever it likes, since send buffering is switched on (engine.rs 103), and all
of them once the connection is gone; a lost connection loses what is under way.
Neither program resets a stream, so `PeerReceiveAborted` and `PeerSendAborted`
need a peer that does (`Resets`); the handlers are there and are modelled.

`ByteStream` is the promise: bytes accepted, bytes delivered, an end after the
last of them unless the stream was cut. `QuicStream` implements it for each
direction (`Upstream`, `Downstream`). `PeerTransfer` and `DirectoryTransfer`
take their streams for it.

### DirectoryTransfer

`send_directory` and the CLI's `select!` around it, `receive_directory` and the
worker around it. `stack` is the stack of `read_dir` iterators, each the set of
entries it has still to return, in any order. A frame travels whole; the
acknowledgement travels in two parts, because `read_directory_ack` awaits twice
and its future can be dropped in between. `sender` after `ended` or `failed` is
the `send.shutdown()` of `send_task`; `cli` is the branch of `select!` that was
taken. `dest` maps a path to what is there, `Partial` a file to its staging
name, which is any name beside it: the code computes `.{stem}.quic-part` with a
shortened stem. A digest is the content. Left out: which paths are valid, the
read side's check of it, whatever else writes into the destination, links at a
staging name. `SendFails` covers every failure of the source at the point where
its file is open or its directory listed.

### WorkerCache

`bootstrap_remote_worker` and the functions it calls, for several invocations on
one host. Each SSH command is one action, or more where others can come between
its parts: an upload opens and ends (`UploadOpens`, `UploadEnds`), the commit
script tests and moves (`CommitTest`, `Move`), `rm -rf` removes entry by entry
what an earlier listing named (`List`, `RemoveEntry`, `RemoveDirectory`).

| State | Code |
|---|---|
| `Bundle[c]` | `bundle_hash`, `bundle_dir` |
| `installed` | `pre_installed_path`, `installed_worker_hash`, and what that worker would answer |
| `recent`, `bundle`, `staging` | the directories under `~/.cache/quiczilla`, newest first, and their entries |
| `cli`, `managed` | where the function stands, `used_managed_worker` |
| `worker` | the started process, up to its ready line |

`noexec` is a property of the mount, `nested` a staging directory that `mv`
moved into a bundle instead of in its place. A member of a bundle is whole or
absent: an upload that breaks off fails its command and is not committed. The
cleanup of staging directories is one step. The commands are those for Linux; on
Windows `Move-Item` nests also into an empty directory.

### PipeDuplex

`run_pipe` on both sides, `run_pipe_cli`, and pipe mode of the worker with its
child process and the task that waits for it. A direction is a `ByteStream`, so
only counts matter: how many units were taken from the input, accepted by the
stream, have arrived, were read and were written, and how many are counted in
`in_flight_bytes` (`Progress`). The last is bounded, not the number under way:
MsQuic buffers what it is given, so that SEND_COMPLETE (`Complete`) and arrival
(`Arrive`) come in either order. `SendNext` and `RecvNext` are the two tasks; the
`biased` of their `select!` is the order of their alternatives. `SendReadFails` is
the error of a read of stdin or of the command's output: the loop ends and a FIN
follows, as at the end of the input. Writes fail at the CLI's stdout and at the
stdin of a command that is gone. `outputFailed` and `inputFailed` are history. The
remote command is external: it echoes, digests, produces, or stops at any point and
has written any part of what it read. The connection is `ConnectionSelection`'s.

### DaemonService

The daemon's accept loop, `handle_incoming_connection` and the receiving side of
`run_peer`, for sessions of one basename, and `run_direct_cli`. A file is an inode
(`inodes`, `dir`): a session writes to the inode it opened, by whatever name it is
known meanwhile. The actions follow `PeerTransfer`'s receiver, cut where another
session can come between: check of the policy (`Decide`), `handle_accept`,
the answer to RESUME_READY (`Resume`), `File::create` (`Open`), each write, the
digest, the rename. The sender is the other side of `PeerTransfer`, which always
sends its file; a client may give up at any point, which covers the idle timeout
of 15 seconds, Ctrl-C and a lost connection. `refuse` and `wresume` are the
daemon's own `--on-conflict` and `--resume`; the latter counts at the check of the
policy only, since `should_resume` needs the client's `-c` (peer.rs 882). For a
session in `Failing` any operation on a file may fail: the fingerprint, the creation
of the part file, `Open`, a write or the flush (`Interrupted`), reading back for the
hash at either end (`Verify`), the rename (`Finish`). `alone`, `asked` and `unread`
are history. `--checksum` is always given; a chunk is one unit; `handle_accept` is one step,
although it awaits a fingerprint. The daemon itself does not restart.

### IdentityFiles

`build_persistent_quic_config` and `build_quic_config` for Unix: which files are
missing, the creation of each in two steps (truncated, written), the thumbprint
read back, the two files that MsQuic reads one after the other. A start may crash
between any two steps, and any operation may fail (`OperationFails`, every `?` of
the two functions), which ends the start as `error` with the file it was about to
write truncated or untouched. A start that ends as `failed` had no failing operation:
it did not like what it found. `mixed` remembers the directories that two starts had at
once. Left out: the Windows certificate store, the test identity
`/tmp/quiczilla_static_*`, permissions, and a loss of power (nothing is synced).

## 3. Runs

| Run | Checks | Shows |
|---|---|---|
| `PeerSafety` | `OffsetsAgree`, `CompletedMeansIdentical`, `ResumeKeepsProgress`, `ImplementsFileDelivery` | safety of two consecutive sessions with any handshake, one I/O failure of any kind, one edit of the source |
| `PeerLiveness` | `TypeOK`, `SessionSettles` | every session ends, with a pause, one failing disk operation, losses and cancellations |
| `SelectionRace` | `TypeOK`, `SshIsLastResort`, `SingleCandidateSettles` | the race, for every transport and order of events |
| `SelectionFallback` | `AutoFallsBack` | violated: a completed future is polled again when STUN fails first |
| `StreamBytes` | `TypeOK`, `InFlightExact`, `NoLostWakeup`, `ImplementsByteStream`, `LossEndsReaders`, `ParkedWritersGoOn` | a stream under every order of callbacks, polls, dropped writes, resets and loss |
| `DirectorySafety` | `TypeOK`, `SameTree`, `ReceiptAgrees`, `FilesAppearWhole`, `BothEnd` | a tree onto an empty and onto occupied destinations, with failures of source, disk and connection anywhere |
| `WorkerCache` | `TypeOK`, `PublishedWhole`, `FailureHasCause`, `CacheBounded`, `NeverOverwritten`, `BootstrapEnds` | two invocations of one or two builds on one host, whatever fails or is interrupted |
| `PipeDuplex` | `TypeOK`, `OutputWhole`, `InputWhole`, `InputConsumed`, `PipeEnds` | both directions, whatever the command does, wherever it is held up and whichever end's input or output fails |
| `PipeDrain` | `OutputDrained` | violated: output left five seconds after the command's exit is dropped |
| `DaemonService` | `TypeOK`, `DeliveredWhole`, `RefuseHolds`, `ReplacedAtOnce`, `SessionsEnd` | two concurrent sessions onto one destination, one of them with failing disk operations |
| `DaemonSharing` | `CompleteIsWhole` | violated: a second session truncates the part file that the first is about to rename |
| `IdentityFiles` | `TypeOK`, `Coherent`, `IdentityStable`, `FailureExplained` | three starts that follow, overlap, crash and fail |

The violated properties state what the documentation says; `findings` in
`PROJECT.json` quotes the sentences. Each property of a passing run has a mutant,
an operator next to the one it replaces, that the run detects.

**Bounds.** Files have one or three units, a chunk is two, the fingerprint one
and the threshold three. That gives a small file, a large one, a chunk with a
remainder (so that rounding matters), a change inside and one behind the
fingerprint, and a leftover destination of the same size. Two sessions are
enough for any disk a session leaves to be met by a following one with other
options; the proofs cover any number. `MaxFaults = 1`, `MaxEdits = 1`: one
failure or one edit at any point. Each
session of `PeerSafety` has any of the client's four combinations of `--checksum` and
`-c`, with one setting of the worker for each, so that every worker option is on in one.
`PeerSafety` has no pauses, since a pause only
delays steps and safety holds for every schedule; `PeerLiveness` has one.
`TypeOK` is checked in `PeerLiveness`, which is the smaller run; `TypeCorrect` proves it for both.
`ConnectionSelection` is finite as it stands. `StreamBytes` writes two bytes in
one or two sends with a limit of one in flight, read one at a time: that fills
the limit, parks each of the three write operations, and leaves bytes unread at
an end; the other direction carries none, but shares state, error and resets
with the first. `DirectorySafety` has two files, one nested, of one and two
units and a pack of two, so that a pack ends; five destinations hold a leftover,
an older file, a link, a directory or a file in the way. `WorkerCache` retains
one bundle instead of three, so that two invocations of different builds exceed
it; one command fails or one invocation is interrupted; the worlds give a cache
that hits, one that misses, and an installed worker that is usable, too new,
broken, or the fall-back of a cache that cannot be executed. `PipeDuplex` has a
window and pipes of one unit, so that each fills, with up to two units of input
and three of output; of stdin, stdout and the command's output one fails
(`OneFailure`), with or without a loss of the connection, and the proofs cover any
of them together. `DaemonService` has two sessions with a staged file of two
versions that begin alike, of different lengths, and a small file; a third
session meets nothing new, since the disk that two leave is any that one finds,
and the proofs cover any number. The operations of the first session may fail, all
of them; the proofs cover failures of every session. Of the policies the run takes
that of refusing (`Refusing`), with and without the daemon's `--resume`: the policy
and that option are read in `Refused` only, where overwriting is refusing with
`--resume`. `DaemonSharing` and `PipeDrain` need no failure.
`IdentityFiles` has three persistent or two
temporary starts: one that crashes, one that meets what it left, and one more.

**Fairness.** Weak fairness of each task group of both processes: tokio runs
every ready task, `select!` is random among ready branches and no branch can
keep another from being taken for ever. Nothing is assumed of the user, the
network or the disk. In `ConnectionSelection`, in addition: timers elapse,
a handshake ends one way or the other (MsQuic times it out), and a transfer that
the worker serves ends (`SessionSettles`). In `QuicStream` a task that is not
parked is polled and MsQuic delivers its events; writing, resets and loss are
not fair. In `DirectoryTransfer` the sender, the worker and the CLI's wait each
go on, and a connection one of whose processes has ended goes away (it is closed
or times out); no network failure is assumed. In `PeerTransfer` the loss of a connection is not fair:
keepalives every two seconds hold an idle connection open. In `WorkerCache` every
SSH command ends and a started worker prints its line or exits. In `PipeDuplex`
the tasks run, sent bytes arrive and are completed, the timer runs off and the
command goes on; nobody need type and no read need fail, so that `PipeEnds` starts
from the end or the failure of stdin. In
`DaemonService` a client does not wait for more than 15 seconds without an event,
and need not connect.

`SessionSettles` is checked without the two failures nobody is told of (`stat`
and `read` of the source) and
without edits: a source that shrinks between SendFile and the end of the
transfer leaves the worker waiting for bytes that never come. `CHECK_DEADLOCK`
stays on in all runs; where the system may rest there is an explicit
stuttering step (`Finished`, `Done`, `Listening`, `Idle`).

## 4. Proofs

All bounds are arbitrary in the theorems. Each proof has a lemma per part of the
invariant or per group of actions, with a step per action, and lemmas on what
helpers return. The assumptions are evaluated by TLC in the runs of the module
they are about.

**PeerTransfer** (`PeerTransferInv`, `PeerTransferProofs`). Assumptions:
`ConstantsAssumption` (sizes are positive numbers, options and contents are of
their types) and `NoneAssumption` (`None` is not a file, plan or offer).

- `ControlCorrect`: `TypeOK /\ Handshake /\ Writing` is inductive. `OffsetsAgree`
  alone is not: after `RESUME_OK` the two tasks start from values held by
  different machines. `Handshake` says that at most one step of the exchange is
  outstanding, in one of the two queues or as a recorded offer, and what that
  message says of both sides: `RESUME_OK` in flight means the sender started from
  the offset the worker has pending; `READY` means the receiver started from 0.
  `Writing` says that there is a file to write to.
- `TypeCorrect`, `OffsetsCorrect`: `TypeOK` and `OffsetsAgree` follow.
- `TransferCorrect`: `Transfer` is inductive relative to it. `SizeKnown`,
  `SentFromSource`, `InOrder` and `HashAnnounced` follow the bytes and the hash
  from the source to the worker; `OnDisk` says what the file being written holds,
  namely what was resumed from, then what was received; `Committed` and `Staged`
  are about the destination.
- `DeliveryCorrect`: `CompletedMeansIdentical`. Where digests were compared, they
  are the content; where not, the bytes resumed from were the source's
  (`Honest`), and the rest came over the stream.
- `StagingCorrect`: `UntouchedUntilVerified`, a large file that is not resumed
  leaves the destination as it was until the received file is verified. No run
  checks it on its own: it is the part of the refinement about `bound`.
- `DeliveryImplemented`: `ImplementsFileDelivery`. Under `ControlInv` and `Transfer`
  (and the same after the step, for what a commit delivers) the steps of the send
  task, of the wire and of the user's keys are stutters, those of the worker's main
  loop are `Choose` or a stutter, those of the receive task `Write`, `Deliver`,
  `Fail` or a stutter. `Handshake` is what makes `Choose` happen once: no plan is
  handed over while the receive task has one. `Committed` is what makes `Report`
  follow `Deliver`, `Staged` what makes `Choose` stage a large file, and
  `CommitDelivers` what makes `Deliver` keep its word.
- `ResumeCorrect`: `ResumeKeepsProgress`, when the prefix that both ends compare is
  no longer than the alignment of an offset. The part of `Transfer` it needs,
  `Resumed`, says that as long as a session that resumes can still keep what the
  first one left (`Resuming`), the offer, the answer and the file do (`Kept`). The
  code compares up to 64 KiB and aligns to 2 MiB (types.rs). The hypothesis is not
  a convenience: TLC finds the property violated with a prefix of 3 and an
  alignment of 2, where a part file cut to 2 has another fingerprint than the
  source, and the sender restarts from 0.

**IdentityFiles** (`IdentityFilesProofs`), for any number of starts, crashes and
failing operations.
Assumption: `StartsAssumption` (no start is both persistent and temporary; `Absent` and
`Partial` are no certificates). `Coherent`, `IdentityStable` and `FailureExplained` say nothing of a
start that is under way, nor of what a crash left, so none of them is inductive.
The invariant adds the order in which files come into being (`ThumbprintLast`),
what a start has seen and is about to do (`Shape`), and what that says of the
files unless two starts had the directory at once (`InIdentity`, `InTemporary`).
`TypeCorrect`, `CoherentCorrect`, `StableCorrect` and `FailureCorrect` follow. The
last is about what earlier starts left: that a start fails when one of its own
operations does is `OperationFails`.

**DaemonService** (`DaemonServiceProofs`), for any number of sessions, any files
and any threshold, and whichever operations fail. Assumption: `DaemonAssumption`
(files and what was there before are sequences of units, there is a file). What a session reports depends
on an inode it opened earlier by a name that may mean something else by now. The
invariant says that destination and part file are never one inode (`Apart`),
what a session decided when (`Decided`), that two sessions with their hands on
the files are not alone (`Single`), and that one that is alone still has its
inode under the name it opened, holding its file as far as it has come
(`Owns`). From these, by the step in which it could go wrong: `DeliveredCorrect`,
`RefuseCorrect` and `ReplacedCorrect`, which are action properties, and
`TypeCorrect`. `DeliveredCorrect` excuses a hash that could not be computed, which
the code takes for a match, and `RefuseCorrect` speaks of a daemon without
`--resume`: with it the policy is not kept (section 5).

**PipeDuplex** (`PipeDuplexProofs`), for any input and output, any limit in
flight and any pipes. Assumption: `PipeAssumption` (lengths are numbers, the
limit is positive). The properties speak of one end of a direction; what happens
there follows from why the task at the other end stopped: at the end of its input
(`SourceDone`), because it could not read it, or because it was cancelled. The
invariant says, of
every sending and receiving task, what its position means for the counts while
the connection is up (`Sending`, `Receiving`), and how the two tasks, the child
and the drain timer of a process go together (`Processes`). `OutputCorrect`,
`InputCorrect`, `ConsumedCorrect` and `TypeCorrect` follow.

**QuicStream** (`QuicStreamProofs`), for any limit in flight, any sizes of writes
and reads and any number of bytes each way. Assumption: `StreamAssumption`
(sizes and the limit are positive). The properties relate what one end has done
to what the other, MsQuic and the wire still owe it. The invariant says, for
each end:

- `Contiguous`: the sends outstanding follow each other up to the last byte
  accepted, so that their sum is the distance from the first of them
  (`Unacknowledged`), which `in_flight` is (`Exact`); no induction over the queue
  is needed;
- `Woken`: a parked task has its waker registered and something to wait for; for a
  writer that is a send outstanding, whose completion takes the waker;
- `Flow`: what a reader was handed, what is buffered and what is on the wire are
  the other end's bytes, numbered through, and all of them while the connection
  is up;
- `Ended`: a half is closed behind the last byte, or something was lost.

`TypeCorrect`, `InFlightCorrect` and `WakeupCorrect` follow. `StreamCorrect` is
the refinement: each step of either end is, for the bytes of a direction, one of
`ByteStream` or a stutter.

**DirectoryTransfer** (`DirectoryTransferProofs`), for any finite tree, sizes, pack
target and destinations. Assumption: `DirectoryAssumption` (the source is a
tree, names are of one kind, no link lies at a staging name). The walk is not
recursive in the model, and the assumption that a tree has no set of directories
each inside another of the set takes the place of an induction. The invariant:

- `Wire`: the frames on their way lead, each permitted after the one before, from
  where the worker stands to where the walk stands;
- `TaskFiles`: a staging file that is open holds what was received of its file;
- `EndSent`: END is the last frame and carries the sender's totals;
- `Progress`: there is a set of entries seen, which the stack still to be walked
  completes to the whole tree (`Walk`), and whose members are on their way,
  being received, or at the destination (`Covered`);
- `Finished`: after success, the destination is the tree;
- `Receipt`: who has heard of which totals.

`TreeCorrect` (`SameTree`) assumes `NoClash`: no file has the staging name of
another. Without it the property is false (section 5, directory.rs 361).
`FilesWholeCorrect` needs no such assumption, since `FilesAppearWhole` leaves staging
names out. `ReceiptCorrect` and `TypeCorrect` follow as well.

**ConnectionSelection** (`ConnectionSelectionProofs`), for any set of transports.
Assumption: `TransportAssumption`. That SSH is the last resort does not follow from
the step that turns to it, but from how candidates, timer and race went before:
the invariant adds which candidates there are in each state of the CLI and how
they stand (`Choosing`). `LastResortCorrect` and `TypeCorrect` follow.

**WorkerCache** (`WorkerCacheProofs`), for any number of invocations, any bundles,
hosts and failures, and any number of bundles retained. Assumption:
`CacheAssumption` (bundles and clients have different names, the cache lists none
twice, there is an invocation). The invariant:

- `Staged`: a staging directory holds what was uploaded so far, until it is
  cleaned away;
- `Listed`: a bundle of which something is there is listed, so that a directory is
  removed from the listing only when it is empty;
- `Installed`: who is about to start the cached worker found it or put it there,
  or something was cleaned away since;
- `Explained`: why a worker ended, and why it is the installed one;
- `Removing`: only a cleanup has a list of what to remove;
- `Pruned`: once all have listed the cache, there is one, the last to do so, that
  has left no more than is to be retained. Each invocation for itself promises
  nothing of the kind, since others publish after its listing.

`PublishedCorrect`, `FailureCorrect`, `BoundedCorrect`, `TypeCorrect` and the action
property `OverwritingCorrect` follow. What a listing keeps is a recursive function
of a sequence (`Among`); that it keeps just the members asked for, each once, is
proved by the least position at which it would not (`Least`, `AmongIs`).

Only model-checked:

- liveness (`SessionSettles`, `SingleCandidateSettles`, `ParkedWritersGoOn`,
  `LossEndsReaders`, `BothEnd`, `BootstrapEnds`, `PipeEnds`, `SessionsEnd`), which
  is out of the prover's reach. Every safety property of a passing run is proved.

## 5. Observations that are not runs

Documented statements that the code does not keep, beyond the runs with a
violation. Each is a definition of a module; adding it to the configuration named
shows the counterexample.

| Definition | Statement | Code | How |
|---|---|---|---|
| `ChangedFileRestarts` | README.md:279 | peer.rs:681 compares 64 KiB | `PeerSafety.cfg`, INVARIANT |
| `NoIncompleteFinalFile` | docs/PRODUCTION_TEST_PLAN.md:71 | peer.rs:388: below 20 MiB nothing is staged | `PeerSafety.cfg`, INVARIANT |
| `ReadFailureEnds` | docs/PRODUCTION_TEST_PLAN.md:72 | peer.rs:322 only logs | `PeerLiveness.cfg` with `"read"` in `Faults`, PROPERTY |
| `AckUnderstood` | PROJECT_STATE.md:141-142 | cli/src/main.rs:1462 drops a half-read one | `DirectorySafety.cfg`, INVARIANT |
| `SameTree` | tests/e2e/cases/S5_directory_tree.sh:5 | directory.rs:361: the staging name may be another file's | `DirectorySafety.cfg` with `Dirs = {}`, `Links = {}` and the `Clash...` constants of `MCDirectoryTransfer` |
| `WinnerIsServed` | README.md:314-315 | worker/src/main.rs:294 takes the first connection | `SelectionRace.cfg`, PROPERTY |
| `ActiveBundleKept` | README.md:393-395 | cli/src/main.rs:2229, 2637: a hit does not make a bundle newer | `WorkerCache.cfg`, INVARIANT |

Transfer:

- README.md:272 documents exit code 4 for "all UDP & SSH fallbacks exhausted";
  a failing SSH fallback exits with 1 (cli/src/main.rs:1256).
- README.md:273 documents exit code 5 for a mismatch; every failure of the
  receiver is `RECEIVED_FILE:FAILED` and exits with 5.
- The worker's `--verify` without the client's `--checksum` verifies nothing:
  the hash sent is `NONE`, which matches.
- A mismatch of the digests after an SSH fallback exits with 0
  (cli/src/main.rs:2751).
- A part file that failed verification stays, and every retry with `-c
  --checksum` resumes it and fails.
- With `-c`, an equally long but different destination is truncated in place and
  written anew, without a part file.
- 200 ms after its verdict the worker disconnects; if the verdict is lost the CLI
  sends the file again over SSH in auto mode.

Streams and pipe:

- Sends stop at 16 MiB in flight; the receive buffer has no limit
  (stream.rs:103).
- `flush` and `shutdown` of a stream succeed also when a lost connection
  cancelled the sends they wait for.
- `run_pipe` takes the end of a lost connection for the end of the stream, and
  logs failures of reads and writes (pipe.rs:107): the CLI prints that the pipe
  is complete and exits with 0 in each case.
- A read error of stdin, or of the command's output, is logged and followed by a
  FIN (pipe.rs:64-67, 79): the command is told the end of a short input and the CLI
  exits with 0. `InputWhole`, `InputConsumed` and `OutputWhole` excuse it.
- A stream whose peer aborted its receiving half has `error` set and its writer
  woken; a parked reader is not woken, though its next poll would return that error
  (stream.rs:128-137, 172). It waits for data, FIN or the end of the connection, as
  before, so `NoLostWakeup` does not count `error` among what ends a reader's wait.
  Neither program resets a stream.
- The worker shuts the connection down right after its last FIN; bytes under way
  may be lost with it.
- The CLI ends only after the end of its stdin, also when the remote command is
  gone.

Daemon, direct mode, identities:

- Between the test of `--on-conflict refuse` and the creation of the file another
  session may create it: `RefuseHolds` therefore excuses a session that asked
  before.
- A daemon started with `--resume` and `--on-conflict refuse` does not refuse: the
  policy is lifted by either side's `--resume` (worker/src/main.rs:529), while
  resuming needs the client's (peer.rs:882), so that a client without `-c` replaces
  an existing file from its first byte. `RefuseHolds` speaks of a daemon without.
- A session whose handshake failed waits in `accept_stream` for ever
  (`SessionsEnd` starts from the streams).
- The idle timeout of direct mode gives up on a daemon that takes more than 15
  seconds to hash a file.
- First starts that overlap may mix key and certificate; a crash while the
  thumbprint is written, or a full disk, makes every later start fail
  (`FailureExplained`).
- Runs without an identity directory share `/tmp/quiczilla_cert.pem` and
  `key.pem`.

Worker cache:

- A cleanup that is interrupted, or that meets a file it cannot remove, leaves a
  bundle without its marker; no later invocation repairs it, since its upload is
  moved into it or dropped.
- A second cleanup counts half-removed directories as bundles.
- A staging directory is swept after 30 minutes whether or not its upload is
  still running; the bundle may then be published with its marker and without
  its worker.
- A failed SSH probe with "Connection refused" exits with 6, where
  README.md:274 documents 4.

## 6. Not modelled

- `peer_generic.rs` repeats `peer.rs` over any stream, for tests: no program runs
  it. The STUN client is one request and its answer, the progress display only
  prints.
- Nine tenths of `core/src/msquic` by lines, and more than half of all source
  lines, are the generated bindings (`linux_bindings.rs`,
  `win_bindings.rs`): declarations of the C library, without logic.
- Parsing of options, URLs and SSH targets, assembling of shell commands, the
  text of control messages, messages to the user: no state. Where such code
  decides something, a model has the decision.
- The static identity of `build_quic_config` (cert.rs 350-367), which takes
  `/tmp/quiczilla_static_*` when they exist and announces whatever thumbprint stands
  beside them, or a fixed one.
- Directory and pipe sessions of a daemon side by side with others: one such session
  is `DirectoryTransfer` and `PipeDuplex`.
- All exit codes of the CLI: `TransferEnds` and `GiveUp` of `ConnectionSelection` have
  those that tell success, fallback and failure apart, not the finer ones of
  `classify_error_message`.
- The interval between the two `mv` of the commit script: `Move` is one step.
- Windows: the certificate store and the PowerShell commands.
- The content of the SSH fallback (`cat >`), which is one command.
- Several SendFile commands in one session, which no program sends.
- The life of native handles in `engine.rs` (contexts handed to callbacks as raw
  pointers, `Drop`) apart from what connections and streams do.
- Installers, scripts, benchmarks and the C# reference implementation.

## 7. Plan

1. `ControlFraming`: cancellation of a partly read control message in `select!`.
2. `NativeHandles`: contexts of connections and listeners against the callbacks
   that still use them.
