# Jeeves sync in TLA+

Jeeves is an offline-first GTD application. Each device keeps the user's data in
SQLite, writes every change as a signed operation ("op") into the log of a
Workspace, posts its ops to a small server and pulls everybody's. The server orders
ops, stores them and keeps index tables of what control ops assert; it is not trusted
with content. An op is judged against its author's hash chain and the Workspace's
control chain, applied once, and reduced by merges that must not depend on the order
of arrival. These modules model the op log at both ends: the server's request
handlers, statement by statement where another request can run in between, and the
device's receive, reduce and outbox paths, statement by statement where a crash or a
fault can fall.

## The system and its parts

| Part | State it keeps | Operations | What is hard about it | What makes it correct |
|---|---|---|---|---|
| Op log of the server (`backend/app/sync/routes.py`: `post_ops`, `pull_ops`) | `ops`, `workspaces`, `grants`, `workspace_epochs`, `members` | check a batch at the door, walk it, append, materialise, commit, answer; pull pages | requests in flight read before others commit; seqs are drawn before they are visible; retries | one chain per author; the tables are what the log says; every stored op was entitled |
| Epoch keys (`put_keywraps`, `get_epoch_keys`, `key_wraps.py`) | `workspace_epochs`, `key_wraps` | upload the wraps of an epoch, serve them | an upload retried while its first copy runs; two sets race | an epoch's wraps are the signed set, whole or absent |
| Recovery escrow (`put_/get_recovery_escrow`, `escrow.py`) | `recovery_escrows`, the fetch audit, a Redis counter | versioned write, counted and audited read | check and write are two statements | no acknowledged blob is lost; no unrecorded read |
| Signal channel (`signal_hub.py`, `signal_socket`) | subscriptions in memory | handshake, poke, close on revocation | an append between check and subscription, or between clear and send | no poke is lost |
| Logins (`auth/`, `member_auth.py`) | `users`, `refresh_tokens`, nonces in Redis | challenge, log in, refresh, log out, revoke transport | one nonce presented twice; two first logins of a wallet | a nonce buys one login; a wallet has one user |
| Member registry (`register_member`) | `members` | register, chain, list | two registrations of one id | a registration answered with success stands |
| Server codecs (`envelope.py`, `control_payload.py`, `prune_payload.py`, `op_payload.py`) | none | parse, check, pad, seal, sign | boundaries of lengths, which fault is reported first | what a device builds the server accepts, and nothing opens elsewhere |
| Author chain verifier (`chain_verifier.dart`) | none; reads `op_log` | `chainVerdict`, `alarmForRejection` | duplicates, gaps, forks and rewrites look alike from one op | an honest author is never accused |
| Receive path (`sync_client.dart`: `pull`, `_receive`, `_releaseChainSuccessors`, `_refuse`) | `op_log`, `quarantined_ops`, `integrity_alarms`, `sync_cursors`; the member directory in memory | pull a page, receive an op, refuse it, release successors | commits are per statement; pages come in any order | nothing dropped, nothing edited, everything settled in the end |
| Reducer (`reducer.dart`, `merge_strategy.dart`, `hlc.dart`) | `reduced_fields`, `field_clocks`, `row_tombstones`; the HLC in memory | `apply`, HLC `send`/`receive` | order, repetition, clocks that step back | devices that applied the same ops show the same |
| Authoring and outbox (`capture`, `flushOutbox`, `enrolment.dart`) | `outbox`, `author_state` | claim a place, capture, post a chunk, mark sent, drop a superseded genesis | lost answers, late requests, two founders, restored backups | the own chain never forks; nothing captured is lost |
| Rebuild, control log, epochs, compaction, lifecycle and domain projection of the client | see Plan | | | |

A device calls `sync()`, flush and then pull, when it is launched or enrolled. After that
an authored op arms a timer that flushes, and a poke on the signal socket pulls; neither
retries what failed. The server is called for posts, pages, wraps and the recovery slot.
Every table of a device is in one SQLite file; what a process remembers beyond it (the
directory, flags, the HLC) is gone after a relaunch. The server is one process of
coroutines over PostgreSQL (READ COMMITTED), so its handlers interleave at every await.

PROJECT.json lists each part with its status, and the hazards each one has at its
line.

## What is modelled: the server

**Admission** is the walk of `_verify_and_authorize` over one batch: for each op the checks of
its class against the grants, epochs, workspace and members as this batch has changed
them, in the order the code makes them. **Envelope**, **ControlPayload**,
**PrunePayload** and **OpPayload** hold the checks that need no database. Bytes are
records that tell apart what a check tells apart; a signature is the record of who
signed what under which domain.

**OpServer** runs several requests over those operators. Its variables:

| Variable | Code |
|---|---|
| `log`, `stamp` | committed `ops` rows by `seq`, and their column `pruned_by_seq` |
| `genesis`, `grants`, `epochs`, `chained` | `workspaces`, `grants`, `workspace_epochs`, and `member_kind` of `members` |
| `nextSeq` | the sequence behind `ops.seq`, which a rollback does not rewind |
| `txn` | the requests in flight: program point, batch, walk result, drawn seqs, staged rows |
| `transport` | members whose tokens and sockets stand |
| `acked` | what devices were told is stored |

What a request may post is the constant `Batch`. Two assumptions say what the door has
parsed by then: a batch is a sequence of ops (`BatchAssumption`), and an op has the fields
of its class (`PostedAssumption`).

One action is what runs between two points where another transaction may become
visible: the door, the walk, the duplicate resolution, the insert, the materialisation,
the commit, the closing of transports and the answer, each with its error paths
(retry after a lost unique index, `genesis_not_first` at the insert and at the commit).
Inserting a row another transaction holds uncommitted waits (`MustWait`).
**ChainLog** is what devices may rely on: one chain per author that grows at its end,
and acknowledged ops that are in it. Three components are shown to implement it: OpServer
(mapping `Chains`, checked and proved), the device that reads the log (`HeldLog` of
SyncReceiver) and the device that writes it (`WrittenLog` of Outbox), both proved.
**MCPull** adds a puller.

**GrantHistory** remembers beside OpServer which grants stood revoked when a request was
let in (`lapsed`), and so which grants could not vouch for a row of the log (`barred`).
Its memory follows OpServer's steps and restricts none. `AuthorizedAtPosition` needs it,
since the tables forget when a revoke became visible to whom. The documented verdict,
`granted_seq < S < revoked_by_seq`, is the reader's. The server walks before it draws
seqs, so an op may be stored above the revoke of the only grant it stands on, in two ways:
the revoke committed between the walk and the append, or the op's batch posts again the
grant op that was revoked, which the walk files as live. The property therefore says what
the server does keep: the grant lies below the op, it was not revoked when the request was
let in, and no op before it in its own batch revokes it.

**KeyWrapStore** has the epochs' rows and the PUT handlers in four statements,
autoflush included: a SELECT sends all but the last of the pending rows. **KeyWraps**
has wrapping, opening and the digest. **RecoveryEscrow**, **SignalChannel**,
**Access** and **MemberRegistry** model their handlers the same way: one action per
statement or await, everything else may run between. A PUT of the recovery slot is read,
commit and answer, so the process may die with a version stored that nobody was told of.
In SignalChannel a device pulls when it is poked; the pull may fail, and SignalListener
does not try again (`PullFails`; `missed` keeps what it missed). A device whose member was
revoked is refused its pulls.

## What is modelled: the device

**AuthorChain** has the chain rules as operators: the derived head, the verdict on one
op, and what it means that an author signed one chain (`SignsOneChain`). An envelope is
a value; its hash is itself, so `Prev[o]` is the envelope `prev_author_hash` names.
Every op was signed by its author: a server may reorder, repeat and withhold, and an
author may fork.

**SyncReceiver** is one device pulling one Workspace.

| Variable | Code |
|---|---|
| `log`, `stamp` | `op_log.envelope` per transport seq; `applied_at` / `refused_reason` |
| `reduced` | the content ops whose `Reducer.apply` committed |
| `quar` | `quarantined_ops` in row-id order, with `released_at` and `release_started_at` |
| `alarms` | unresolved `integrity_alarms`, by kind and author |
| `cursor` | `sync_cursors.last_seq` |
| `directory` | `MemberDirectory`: memory, so a crash empties it but for the own key |
| `pc`, `since`, `page`, `at`, `op`, `why`, `cont`, `who`, `claim`, `freed` | where `pull` is, and its locals |

One action is one committed statement or transaction: `ReceiveControl` logs, applies
and stamps at once as the code does in `_db.transaction`; `ReceiveContent`, `Judge` and
`StampApplied` are three because the code commits three times; `Replay` marks a row
released and receives it again in one transaction. `Crash` and `StorageFault` may fall
at the program points a configuration names, and `MaxFaults` bounds how often.
What stays out: prune ops and the chain floor they bridge, bodies under an epoch key,
control forks (assumption `NoControlForks`), and the tail of the pull after the release
scans (projection, rebuild).

**Reducer** has clocks and joins as operators. A cell is a field or a tombstone; a device's
state and an op's writes both map cells to a value with a clock. `Later` is
`Hlc.compareTo`, `Sent` and `Received` are `HlcClock`, `Join` is the stored write met by
an incoming one under the cell's strategy. `IsJoin` says what a reduction is meant to be:
the least upper bound of a set of writes, with no order of arrival in it. Values under
`maxTimestampValue` are numbers, their order the code's total order on values.

**Replicas** is the devices of one Workspace, writing and reducing.

| Variable | Code |
|---|---|
| `ops` | every outbox row, in the order of insertion; the server serves them in any order that keeps an author's own |
| `drafts`, `queued` | memory: captures between `_clock.send()` and the outbox, and between the outbox and their own `Reducer.apply` |
| `received`, `applied` | `op_log` (refused rows included); the ops the reducer took, pulled or captured |
| `judging` | memory: the op logged that the reducer has not judged yet |
| `state` | `reduced_fields`, `field_clocks`, `row_tombstones` |
| `clock`, `merging` | memory: `HlcClock`, and the op reduced whose clock is not merged yet |
| `now` | the wall clock the device reads |
| `cut` | history: the ops whose receipt was cut off behind `op_log` |

A capture is three actions because it awaits twice (`Capture`, `Queue` or
`RefuseToAuthor`, `ApplyOwn`); a pulled op is three (`Deliver` logs it,
`Reduce` judges and reduces it, `MergeClock` takes its clock), for those are three commits.
`Relaunch` ends a process anywhere between, after which the next clock starts from `NewClock`;
`ReducerFails` is storage that fails under `Reducer.apply`. An op cut off behind the log is
not reduced when it is served again (`receiver_apply_crash` shows that of one device), so
`AlikeOnceServed` compares devices that were cut off alike. Per-field clocks,
which only compaction ops carry, are left to the Compaction module.

**Outbox** is a device that claims its place in a workspace and writes to it.

| Variable | Code |
|---|---|
| `device` | `outbox`, `author_state`, and how much of the own chain `op_log` holds |
| `claim` | where the ceremony of `enrolment.dart` is, in memory |
| `post`, `delayed` | the chunk `flushOutbox` awaits an answer for; requests whose sender gave up |
| `mine`, `founder` | the server: this author's stored ops, and who founded |
| `door` | what others made of the workspace: open, this device's grant revoked, or the key rotated past what it sealed its queue under |
| `accused`, `backup`, `restored` | an own-writes alarm; a copy of the database, and whether it was put back |

Here the server is `post_ops` reduced to one author's ops (Admission and OpServer have
the whole of it); a rival may found first. A door that shuts stays shut: content queued two
epochs behind is refused for ever (`_require_fresh_key_epoch`), and so is what a revoked
device writes and reads.

## What the runs check

MCReceiver, MCReplicas, MCServer (which checks GrantHistory's specification), MCOutbox and
MCBackend name the instances. A "world" (MCReceiverWorlds, MCReplicasWorlds), a "scene"
(MCServer) or a "plane" (MCBackend) is picked by the initial state and never left, so that
their state spaces add up and do not multiply.

| Run | Instance | Shows |
|---|---|---|
| `server` | two requests in flight over three scenes, one death of the process where the workspace is founded | see below; 72,123 states |
| `backend` | the parts that share no state, one plane each | see below; 341,463 states |
| `receiver_hostile` | 5 envelopes on 3 seqs, pages of up to 2 in any order and repetition, one crash or fault | `TypeOK`, `ChainLinked`, `NothingDropped`, `EvidenceKept`; 677,229 states |
| `receiver_reorder` | two authors, 7 ops: a world of shuffled pages and 2 storage faults, a world of an honest server and 3 faults anywhere but between log and stamp | `HealsInOneSync`, `HonestNeverAccused`, `ReadySuccessorsReArmed`, `GapAlarmTracksGaps`, `ExactlyOneVerdict`; in the second world `HonestConverges` |
| `replicas` | two devices, two ops over four cells: wall clocks set to anything, wall clocks that advance apart, agreeing ones with relaunches, agreeing ones with failing storage | `StateIsJoin`, `Convergence`, `AppliedIsAbsorbed`, `LocalWriteWins`, `SkewBounded`, `EchoesHeal`; 1,073,297 states |
| `receiver_apply_crash` | a crash between log and apply | violates `ExactlyOneVerdict` |
| `receiver_relaunch` | a crash between two pulls | violates `RegisteredIsKnown` |
| `replicas_relaunch_write` | advancing wall clocks and relaunches | violates `LocalWriteWins` |
| `server_pull` | a puller beside two posts | violates `AppendedIsSweptUp` |
| `server_boundary` | two owners revoke one grant | violates `BoundaryIsImmutable` |
| `outbox_founding` | the answer to the founding post is lost | violates `DroppedWereNeverAccepted` |
| `outbox_enrol` | the process dies inside the claim | violates `EnrolledHasPlace` |

`server`. The scenes are two devices that found a workspace while a third joins; two
owners who revoke, grant and rotate while the revoked member writes and joins again; an
author and a compactor who prune the same row. In all of them `ImplementsChainLog` (the
refinement), `IndexMatchesLog`, `LogInOrder` (one genesis, below everything; epochs minted
one by one in log order; every author's ops in the order of its chain),
`AuthorizedAtPosition`, `PrunesVouched`, `FoundersLearnWhy` and `EveryRequestAnswered`.

`backend`. Logins: `NonceSpentOnce`, `OneUserPerWallet`. Registry: `RegistrationsStand`.
Recovery slot: `AcceptedIsStored`, `SlotMovesForward`, `ServedIsAudited`. Wraps:
`WrapsAreTheCommittedSet`, `ConfirmedIsStored`, `KeysAreWrittenOnce`. Sockets:
`NewsIsOnItsWay`, and `NewsArrives` under fairness. Outbox: `SpentPositionsHeld`,
`OnlyRestoredAreAccused`, and `QueueDrains` under fairness.

Bounds. Two requests are the least that race, and each race of the server's code (unique
index, row lock, primary key at the commit) is between two; a batch of two ops has a first
and a later position, which is where the walk's own changes show. `MaxSeq` only has to
leave room for what the scenes post; a scene's first seq is above 1 since all workspaces
draw from one sequence. `MaxCrashes` and `MaxDeaths` of 1 put a death at every point (of
the server's scenes, in the founding one). The recovery slot has three versions and two
writers with two roots, so a stale, a skipped and a rival write all occur; a quota of one
is a last fetch two readers race for. Two refresh tokens let one replace the other. One
mishap is a restart of the process or a failed pull, at every point. Four sets of wraps
differ in a wrap, in their members and in being empty. A challenge limit of one has a
refusal. The outbox may author five ops in chunks of two, so a flush has a second chunk,
and two faults (lost answers, requests given up, deaths, a shut door) let a retry fail
too.

In the receiver runs three successors suffice for a release that releases, is refused and
releases again; a fork needs two envelopes at one position. `MaxPage = 2` lets a hostile
page hold a pair in either order. `CrashAt` and `FaultAt` are part of the claims: the
violation runs and the hazards without a property name points where the claim does not
hold. In the replica runs two ops are the least that disagree, and they disagree under
every strategy; two wall readings (three where clocks advance apart) give ties, clocks
ahead, clocks set back and refusals. Edits that disagree are written in the world of
agreeing clocks and relaunches (`Disagreeing`), where they come in every order; in the
others, which are about time and faults, one edit is enough. More devices, ops, writers,
sockets and uploads are what the theorems are for.

Fairness. OpServer: the event loop runs every request it has accepted (`WF` of each
slot's step); nobody is bound to post. SignalChannel: the coroutines of the process run,
and a device acts on a poke it received, with a pull that may fail; nobody is bound to
connect, and nothing retries a failed pull, so `NewsArrives` ends where the last pull
failed with the same head. Outbox: what was started runs on, a ceremony or the chunks of a flush
(`Running`), and requests are lost finitely often. Nothing is bound to start a flush:
`SyncLifecycle` syncs when it is activated, at enrolment and at launch, and flushes on a
debounce timer that only an authored op arms; a poke only pulls, and a flush that failed
waits for the next authored op or launch. `QueueDrains` therefore says of a device that goes
on flushing that its queue drains, unless its door is shut: no retry meets the same
refusal for ever otherwise. SyncReceiver: a started pull goes on, the device pulls
again, and an honest server with ops above the cursor does not answer with an empty page
for ever.

## What is proved

Each theorem is about every value of the constants that satisfies the named assumptions
of its modules: any number of authors, devices, requests, sockets, seqs, faults.

| Module | Theorem | Statement |
|---|---|---|
| SyncReceiverProofs | `TypeCorrect`, `LogIsChains`, `EvidenceIsKept`, `NothingIsDropped`, `HonestIsNeverAccused` | `TypeOK`, `ChainLinked`, `EvidenceKept`, `NothingDropped`, `HonestNeverAccused` of `Spec` |
| | `VerdictsAreExact` | `ExactlyOneVerdict`, if `VerdictsAreWhole` |
| | `GapAlarmsTrackGaps` | `GapAlarmTracksGaps`, if `GapsAreSettled` |
| | `NoReadySuccessorIsForgotten` | `ReadySuccessorsReArmed`, if `ReleasesGoThrough`, `RegistersFirst` and `NothingOnControl` |
| | `ReceiverKeepsChainLog` | `KeepsChainLog`: every step of SyncReceiver is a step of ChainLog's reader or a stutter |
| | `SharedOpProvesSharedPast` | `SharedOpSharedPast` of `Spec`: one op of an author in common is that author's past in common |
| | `OneSyncHeals` | `HealsInOneSync`, if `ServesHonestChains`, `ReleasesGoThrough` and `NothingOnControl` |
| ReplicasProofs | `TypeCorrect`, `ReplayIsHarmless`, `ClocksStayWithinSkew` | `TypeOK`, `AppliedIsAbsorbed`, `ClockWithinSkew` |
| | `ReductionIsJoin`, `DevicesConverge`, `LocalWritesWin` | `StateIsJoin`, `Convergence`, `LocalWriteWins`, if `RelaunchesMoveOn` |
| | `ServedAlikeShowsAlike` | `AlikeOnceServed` of `Spec`: with relaunches and failing storage, where wall clocks agree |
| | `JoinIsUnique` | a set of writes with distinct clocks has one join |
| AdmissionProofs | `AdmittedIsVouched` | the walk over a batch of any length admits an op only on what the tables and the ops before it assert |
| OpServerProofs | `ServerImplementsChainLog` | `ImplementsChainLog`: every step of OpServer is a step of ChainLog or a stutter |
| | `ServerTypeCorrect`, `IndexIsTheLog`, `ServerVouchesPrunes`, `ServerFoundsFirst` | `TypeOK`, `IndexMatchesLog`, `PrunesVouched`, `GenesisFirst` of `Spec` |
| | `ServerAuthorizes` | `AuthorizedAtPosition` of `HistSpec` |
| | `ServerTellsFounders` | `FoundersLearnWhy`, if `FoundsApart` |
| | `ServerKeepsChainsInOrder` | `ChainsInOrder` of `Spec` |
| | `ServerKeepsOrder` | `LogInOrder`, if `[][SealsWhatIsMinted]_vars` |
| BackendProofs | `EscrowTypeCorrect`, `AcceptedEscrowsAreStored`, `EscrowMovesForward`, `FetchesAreAudited` | `EscrowTypeOK`, `AcceptedIsStored`, `SlotMovesForward`, `ServedIsAudited` |
| | `SignalTypeCorrect`, `NoPokeIsLost` | `SignalTypeOK`, `NewsIsOnItsWay` |
| | `AccessTypeCorrect`, `NoncesAreSpentOnce`, `WalletsHaveOneUser` | `AccessTypeOK`, `NonceSpentOnce`, `OneUserPerWallet` |
| | `RegistryTypeCorrect`, `RegistrationsAreKept` | `RegistryTypeOK`, `RegistrationsStand` |
| OutboxProofs | `OutboxTypeCorrect` | `OutboxTypeOK` of `OutboxSpec` |
| | `OutboxPositionsHeld`, `OutboxAccusesRestored` | `SpentPositionsHeld`, `OnlyRestoredAreAccused`, if `FoundsWithoutLoss` |
| | `OutboxWritesToChainLog` | `WritesToChainLog`, if `FoundsWithoutLoss`: up to a restore every step of Outbox is a step of ChainLog or a stutter, and the chain at the server grows at its end even after one |
| KeyWrapStoreProofs | `TypeCorrect`, `KeysAreTheCommittedSet`, `ConfirmedSetsAreStored`, `KeysNeverChange`, `MembersReadTheirOwnWraps` | `KeyWrapTypeOK`, `WrapsAreTheCommittedSet`, `ConfirmedIsStored`, `KeysAreWrittenOnce`, `ServedWrapsAreSealed` |
| CodecProofs | `PaddingIsLegalAndLeast`, `FramedBodiesParse`, `SuitesNeverShareALength`, `BuiltEnvelopesAreServed`, `SealedOpensWhereItWasSealed`, `SignaturesVouchForOneOp`, `WrapOpensOnlyInItsSlot`, `EscrowWrapOpensOnlyInItsEpoch`, `DigestDeterminesTheSet`, `HlcOrderIsTotal`, `GuardKeepsOriginalClocks` | laws of the codecs' operators, for every payload length, key and record |

The arguments.

*Receiver.* `HeadsExist`: an author with logged ops has a highest one, so that the head
`CHOOSE`s something; with it an accepted content op stands on the head, which gives
`ChainLinked`. `VerdictAwaited`: the op in hand at `judge` and `stamp` is logged and
unstamped, so `StampApplied` overwrites no verdict. `HandOnRecord`: from the moment a
refusal is filed or the log insert done, the op in hand is on record; with `RecordKept`,
one case per action, that is `NothingDropped`. `DownClosed`: what an honest author signed
below a logged op is logged, so no verdict on its ops accuses (`FilesNoAccusation`).

`ChainsWhole`: of an author without later control ops the log holds exactly the
author_seqs `1 .. n`, each op but the first on top of the one it names (`NextOf`,
`WholeGrows`). Every log insert, in the reception or in a replay, therefore lengthens one
chain at its end (`ChainLengthens`), the reducer only gains ops of the log
(`ReducedStep`), and that is the reader's side of ChainLog. A replay logs and applies in
one transaction, which is why ChainLog's reader may take in and act in one step (`TakeIn`).
Authors of later control ops are left out because the code logs those ops without the chain
check, so their chains may have holes.

`SharedOpProvesSharedPast` compares the log of a device with any other linked history,
which by the same theorem is what every other device has. Were the two apart somewhere below an
op they share, look at the highest such position (`GreatestUpTo`): the op above it is
shared and names its predecessor, so that is shared too (`SharedBelow`). This is what
the hash in the header buys: a server that shows two devices two branches of one author
can never bring them together again, and equal heads mean equal pasts.

Four of the receiver's properties do not hold under every crash and fault, and their
theorems say which ones they exclude. The hypotheses are stated at the end of SyncReceiver;
TLC evaluates all of them in the shuffled world of `receiver_reorder` (`ShuffledWorld` of
MCReceiverWorlds), and each excludes something a finding or a hazard shows to break the
property. `VerdictsAreWhole`: nothing falls between the log insert and the stamp
(`receiver_apply_crash` is what happens otherwise). `VerdictsMatch` then ties every stamp to
the reducer, with the op in hand as the one exception. `GapsAreSettled`: nothing parts a
gap row from its alarm. `GapsTracked` is inductive because a scan that released something
(`freed`) is what an alarm without rows waits for. `ReleasesGoThrough`: the server may
shuffle a page but not show half of one, and nothing falls between an op and the scan it
calls for. `RegistersFirst` and `NothingOnControl` keep out the two other ways in which an
op becomes ready with nobody looking: its author's registration, or a control op below it,
arrives last. The invariant `ReadyTracked` rests on one fact: what can be released next
is the op right above the author's head (`HeldLocal`), so only a log insert of that author
makes another one ready, and a scan follows each.

`OneSyncHeals` is the strongest of them. What `ServesHonestChains` asks of the server's
log, each author's ops from position 1 on in order and without a gap, is what
`ServerKeepsChainsInOrder` proves of the server. With that, as long as no fault has come
up, `NothingMissed`: registrations are applied as they are received, what was received is
logged or has a gap row, and no release is left half done when a pull ends. Suppose a
received op were then neither. The op right above its author's head is served below it, so
it was received too; it waits as a gap row, and it could be released, which `ReadyTracked`
allows only while a scan is due. A pull that has ended without a fault has none due.

*Replicas.* The laws of `Join`, strategy by strategy: idempotent (`JoinAbsorbsNew`), keeps
what was absorbed (`JoinKeepsAbsorbed`), and takes the join of a set of writes to that of
the set and one more (`JoinStep`). Distinct clocks are what the system has to supply, and
`ClocksInv` is why it does: what a device gave out is past its clock and unlike any other
(`Stamped`, `NoTwins`), and so is what it merged (`Merged`). A relaunch forgets the clock,
so `RelaunchesMoveOn` asks that processes keep theirs or that wall clocks agree; where
they merely advance, `replicas_relaunch_write` is the counterexample. Where they agree,
`SharedTime` is an invariant: no clock, draft or op is ahead of the wall clock, so a
relaunched process reads one that has passed whatever its device gave out (`Passed`), and
no device refuses what it is served. A device that was served everything has then applied
all of it, echoes of its own cut-off captures included, but for what it was cut off from
behind its log (`Missing`); devices that miss the same applied the same ops, and
`DevicesConverge` does the rest. `ClocksStayWithinSkew` rests on `MergesInTime`: the op
about to be merged passed the guard.

*Admission.* `WalkUnfolds`: the walk, a function over the positions of the batch, is at
each position one `WalkStep` from the one before. `WalkViews`, by induction over the
positions, says what the walk's accumulators hold there: the tables, and what the ops
before it assert. With that, each check a passing op went through says who vouches for it.
A live role is a grant not revoked in the tables the walk read and by no op before
(`BarredStep`), which is what `GrantHistory` remembers. The induction looks at the least
position where a claim fails (`LeastNat`, `UpTo`), since the library's induction rules
over a predicate cannot be instantiated here.

*Op log.* `ChainInv` is about chains only: in the log each author's positions are
`1 .. n` and no two rows meet in a unique constraint (`SoundLog`), each request continues
from a base the log has reached (`Continues`), and rows inserted by two requests never meet
(`Apart`, which is what the unique indexes and the waiting of `MustWait` are for). A commit
then appends a segment to one chain (`CommitRefines`), and every other step leaves the
log alone: that is the refinement of ChainLog. `IndexInv` carries what the walk vouched
for across the statements in which other requests commit: it still stands in any later
tables (`StandsKept`, over `TablesGrow`); once rows have seqs, what an op rests on lies
below it (`InsertPlaces`); what two requests stage is disjoint (`StagedApart`). A commit
turns these into facts about rows (`CommitsTables`), part by part of `TablesSound`: genesis,
grants, revocations, epochs, members, roles, prunes. The table properties are read off.
`LiveInv` carries one fact more from walk to commit: the grant a role was found under is
not among those barred when the request was let in. Each step of GrantHistory is one of
OpServer (`HistIsSpec`), so everything proved of OpServer holds beside it.

`OrderInv` ties seqs to chains, although seqs are drawn long before rows commit. Rows in
flight lie above all their author has in the log (`OnTop`): they go on exactly where the
log's chain ends (`FreshContinues`), so a second request of that author would insert the same
place, which the unique index makes it wait for (`RowsOfOneAuthor`). A pull that follows
seqs therefore meets each chain upwards; across authors it may still pass a lower seq that
commits later (`server_pull`).

Two of the server's theorems rest on what clients do. `FoundsApart`: no batch both founds
a workspace and revokes. The code's founder posts a genesis, its grant and a rotate; in a batch
that also revokes, the revoke may be what is refused, with another code. `SealsWhatIsMinted`: no
device seals under an epoch before the first rotate is stored or in its own batch. The
server cannot check it, since without any epoch row its floor is absent; a device has a key
only from a rotate it authored or from the wraps of a stored one.

*Outbox.* `OutboxInv` holds until the database is put back. `RowsNumbered`: the outbox has
one row at each position spent; `ChainStored`: what the server holds of the author is a
first part of the same chain, and covers the rows marked sent. `InFlight` says why steps of
the network leave both alone: a chunk that is asked, answered or late is made of rows the
outbox still has under the same positions, and an answer stays true until it is heard.
Then whatever the server takes, however late, extends the chain the device numbered
(`TakenChain`, over `Contiguous`: fresh positions without a hole go on where the chain
ends), and a conflict names a position above everything acknowledged. The founding of a
workspace is the one place where rows leave the outbox, and where a late chunk would break
all this: `FoundingPhase` pins down what a device has queued until its genesis is answered,
so that a `genesis_not_first` means that none of it is stored. `FoundsWithoutLoss` says of
the first state that answers are lost only in a workspace another device founded;
`outbox_founding` shows what a lost answer does to a founder.

`OutboxWritesToChainLog` ties this module to the server's. Outbox has a short server of
its own, post_ops for one author; the theorem says that it stays within ChainLog, which
OpServer implements: what the device relies on is no more than the real server promises.
The mapping counts as acknowledged what the outbox marks sent. `TakenContinues` gives the
growth of the chain with no assumption on what the outbox holds, so also after a restore;
`ToldStays` and `ToldIsStored` rest on `OutboxInv`, the only rows ever dropped being unsent.

*Recovery slot.* `WritersGoUp`: a writer past its read carries a version above the one it
observed. An UPDATE that matches the observed version therefore raises it, and an INSERT
needs an empty slot, so each version has one writer that committed it. Only that writer is
ever told so, at once or never, and the blob stays its own until the version rises, which
is `AcceptedIsStored`. For fetches, handlers in flight hold their share of the quota;
counting them is by cardinality of finite sets.

*Wraps.* `KeyInv` says what an upload past each of its reads knows: a digest that matches,
the wraps that were absent, and which rows it alone may insert. Committed rows are those of
the digest's set, and the last statement completes it; the loser of a race re-reads.

*Sockets.* The type invariant alone makes `NewsIsOnItsWay` inductive, since the property
already lists every place the news can be, and excepts a device whose last pull failed at
the present head.

*Logins and registrations.* A call at the step after `GETDEL` counts as the nonce's one
login; a call that looked up a wallet names the user the row has, or none. A registration's
insert is refused when the row exists, so a row is written once and keys are never updated.

*Codecs.* Case analysis over the size classes for padding. `FramedBodiesParse`: the framed
body parses, and of all bodies the server accepts with that payload length it is the
shortest and the only one of its length; longer ones are padding nobody builds. Equality
of records for sealing and signing, where the assumption is the usual one on the
primitives: a ciphertext or signature opens or verifies for exactly what it was made over.

Proved only. `KeepsChainLog`, `SharedOpSharedPast` and `WritesToChainLog` are in no run:
the runs of their modules check `ChainLinked`, `EvidenceKept` and `SpentPositionsHeld`,
the invariants they rest on or overlap with.

Model-checked only. Liveness (`HonestConverges`, `EveryRequestAnswered`, `NewsArrives`,
`QueueDrains`): fairness and ENABLED are beyond the prover. `SkewBounded` and `EchoesHeal`
are about the worlds of their run; `ClocksStayWithinSkew` and `ServedAlikeShowsAlike`
prove what they say for every single world. `BackendTypeOK` is the conjunction of the
parts' type invariants, which are theorems part by part.

## Where code and comments disagree

Four are defects, each a behaviour of a run:

1. `pull_ops` serves what is committed past the cursor; seqs are drawn before they commit,
   so a pull between two commits passes a lower seq for good (`server_pull`).
2. Two concurrent revokes of one grant both stamp it, and the boundary a comment calls
   immutable moves (`server_boundary`).
3. A founder whose first answer was lost is told `genesis_not_first` for its own genesis
   and drops rows the server has stored (`outbox_founding`).
4. A device that dies between the claim's pull and its two ops reads as enrolled and has
   no grant (`outbox_enrol`).

Three are comments the code does not keep:

5. `op_log` rows get "exactly one" of two verdicts; a crash between the insert and the apply
   leaves none, and the re-serve is skipped as already applied (`receiver_apply_crash`).
6. The directory is hydrated by the pull; after a relaunch it is not, since the register
   lies below the cursor (`receiver_relaunch`).
7. Merging a remote clock makes the next local write sort after it; a relaunch forgets what
   was merged, and the write may lose to what it replaced (`replicas_relaunch_write`).

Also seen, as hazards without a run: a control op that fills a gap does not re-ask whether
successors chain; the loser of two rotates of one epoch, and of two registrations of one
member id, is answered 500. And a comment: `_flushOutboxes` swallows a failed flush as one
that "the next authored op or the next poke-driven sync makes"
(`sync_lifecycle.dart:494-495`), but a poke only pulls (`signal_listener.dart:250-265`).

## What the models leave out of the parts they have

- One Workspace and one user's devices; the check that a workspace is derivable from the
  user is always true. One walk's reads are taken at one instant, where the code reads
  table by table: any other request may still run between the walk and the append.
- Ops of a batch get contiguous seqs at one insert. A request takes all its row locks in one
  step, so `EveryRequestAnswered` does not speak of two prunes that name rows in opposite
  order, which PostgreSQL would find deadlocked and abort.
- JSON typing, HTTP status codes and detail fields; a refusal keeps its code where a
  property or the client tells codes apart. SQLAlchemy's autoflush is taken as documented.
- Cryptography is symbolic; hashes and nonces do not collide; op ids are fresh (`OpIdsName`).
- Members are constant in OpServer, whose scenes start after registration; MemberRegistry
  creates them. Reads of KeyWrapStore do not pass the gate that refuses revoked members;
  nor does MemberRegistry's listing.
- Redis counters do not reset within a behaviour; a keepalive of a socket is a stutter.
- Outbox keeps one backup. Where the device itself may become the founder, faults are let
  in by `LossyFounding` alone (else `FoundsWithoutLoss` holds): they break what `backend` checks of a device, as
  `outbox_founding` shows, so there `backend` has faults only in a founded workspace.

## Plan

1. AuthorChain, SyncReceiver and their proofs: done, but for prune floors and control forks.
2. Reducer, Replicas and their proofs: done, but for per-field clocks.
3. The server (Admission, OpServer, ChainLog, the codecs, wraps, escrow, signal channel,
   access, registry) and the proofs named above, the refinements of ChainLog included: done.
4. Outbox and its proofs: done for one workspace.
5. LocalStore: stamps, outbox and reduced tables under `capture`, the echo and
   `rebuildFromOpLog`, with crashes; the abstract specification is "reduced is the
   reduction of what is stamped applied and of what the outbox holds".
6. ControlLog: forks and the tie-break; devices that saw the same control ops keep the same
   branch and derive the same grants.
7. Epochs of the client: floor, missing keys, rotation and its resume.
8. Compaction: snapshot, prune and the bridged chain, against the reducer's result.
9. Lifecycle of the client, domain projection, password accounts.

## Not modelled

For good: the bytes of the wire formats (golden vectors pin both languages to them), the
user interface, platform services, JWT formats, migrations and the start of the service,
and the build scripts. The GTD database and its DAOs are sequential SQL of one user.
Password accounts and the client parts of the plan's last five points are left for their
modules; none of them changes what the modelled parts promise, except that the receive
path's claims are made for op kinds other than prune and for an unforked control chain.
