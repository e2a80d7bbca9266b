# A TLA+ specification of dkim-lite

dkim-lite is a milter daemon that adds one RSA-SHA256 DKIM signature to outgoing
mail. This directory holds TLA+ modules translated from its source, the TLC
configurations that check them on small instances, and TLAPS proofs about them.
`PROJECT.json` maps every definition to the lines it models.

## 1. Inventory

| Part | Code | State | Operations | What makes it correct |
|---|---|---|---|---|
| Connection handler | `src/src/milter.rs` 374–622 | `MessageState` (config snapshot, headers, byte count, body, error), negotiated `actions` and `protocol`, deadline | one arm of the `match` per milter command | exactly the awaited answers, a signature over exactly the message sent, under the configuration it began with, or acceptance unchanged |
| Accept loop, workers | `milter.rs` 190–270 | bounded channel, shared receiver, shutdown flag, threads | accept, queue or drop, receive, serve, join | bounded queue, workers survive bad connections, shutdown always completes |
| Daemon life cycle | `src/src/main.rs` 61–107, 206–224 | `RELOAD`, `SHUTDOWN`, `shutdown`, active configuration, two threads | start, signals, reload, stop | no reload lost, only validated configurations, no join that waits forever |
| Configuration | `src/src/config.rs` | two files on disk | parse, read key, FIPS check | strictness, a text and its own key |
| Body canonicalizer | `src/src/dkim.rs` 50–148 | hasher, held-back white space and empty lines, CR seen | `update`, `finish` | independent of chunking, equal to RFC 6376 relaxed |
| Signing | `dkim.rs` 150–210 | none | select headers, canonicalize, sign | verifiers select the same headers; a second From breaks the signature |
| Header text | `dkim.rs` 212–247, 427–448 | none | canonicalize a value, fold the signature | the hashed form is the relaxed one; folding changes nothing |
| From parser | `dkim.rs` 249–425 | none | extract one domain | one mailbox or refusal |
| Key generation | `src/src/keygen.rs` | temporary and target files | create, write, link, unlink | never overwrites, never partial |
| Framing, deadline | `milter.rs` 146–188, 544–562, 602–622 | packet buffer, deadline | read and write packets | no bytes of an earlier packet, no torn answer followed by another, lifetime bound |
| Listener | `milter.rs` 272–365 | socket path | bind, accept, poll | replaces only sockets, restricts what it serves, recovers from any debris |
| Command line | `main.rs` 33–59, 125–204 | none | parse | values and options are never confused |

Interaction: `run_daemon` loads the configuration, installs signal handlers,
starts the *monitor* thread and calls `serve` on the main thread. `serve` starts
2–32 *workers*, which take connections from a channel and run the connection
handler. The monitor replaces the configuration that handlers clone, under an
`RwLock`, at the start of each message, and raises the flag that ends `serve`.
The hard behaviour is in these meetings: reloads during messages and during
reloads, shutdown against a busy backlog and blocked workers, deadlines between
two writes, answers the MTA waived, one `MessageState` reused for many messages.
`PROJECT.json` lists the hazards at the line where each bites, with the
properties that would catch it.

## 2. Modules

| Module | Models | State |
|---|---|---|
| `MilterTypes` | vocabulary: commands, packets, messages, signatures, eligibility | none |
| `SigningService` | what one connection is promised | `active granted msg sig verdict` |
| `MilterSession` | the connection handler, its MTA, reloads; implements `SigningService` | worker: `pc state actions protocol expired`; socket: `inbox outbox`; MTA: `mtaOpen awaiting noReply granted msg sig verdict`; shared: `active` |
| `PacketChannel` | what the packet layer promises the handler | `inbox given outbox open` |
| `Framing` | `read_packet_into`, `write_packet`, `write_status` on a `DeadlineConnection`; implements `PacketChannel` | peer: `sent ends stream garbled peerOpen taken`; reader: `pos length packet got`; writer: `todo answered written output`; `pc call expired handled` |
| `ServePool` | `serve`, `drain_backlog`, workers | `shutdown main backlog queue senderOpen receiver worker serving` |
| `Daemon` | `run_daemon`, monitor, signals, two-file load | `text keys` on disk, the three flags, `main monitor loading loaded initial active` |
| `DaemonProcess` | `Daemon` and `ServePool` in one process; implements both | the variables of the two, `serve` for the place of the main thread inside `serve` |
| `Listener` | `Listener::bind` of several daemons at one address | `kind path phase unseen kills files` |
| `KeyFile` | `generate-key`: `write_private_key` by several processes | `pc pid tries tmp`, the directory and files in memory (`dir whole`) and on disk (`disk safe`), `stranded losses` |
| `Signing` | header selection of `sign`, seen by a verifier | `headers original signature edits` |
| `BodyCanon` | `BodyCanonicalizer` | `body rest canon` |
| `HeaderText`, `HeaderValue` | `canonicalize_header`, `fold_signature`, and the values they are given | `form value` |
| `AsciiText` | what the standard library does to the text of a domain name | none |
| `FromDomain` | `from_domain`, `local_part`, `display_name` | that of `HeaderValue` |
| `Settings` | syntax of the configuration file, `validate_dns_name` | `lines name` |
| `OwnDomain` | the comparison in `sign` of the domain of From with the configured one | that of `FromDomain` and `Settings` |
| `CommandLine` | `parse_args`, `parse_generate_args` | `args` |
| `MCSession`, `MCPool`, `MCDaemon`, `MCProcess`, `MCFraming`, `MCSigning` | instances for TLC | |
| `MCText` | the texts the program reads and writes, enumerated for TLC | |
| `MilterSessionProofs`, `FramingProofs`, `ServePoolProofs`, `DaemonProofs`, `FromDomainProofs` | theorems about those modules; `DaemonProofs` about `DaemonProcess` too, `FromDomainProofs` about `OwnDomain` | |
| `FileSystemProofs` | theorems about `KeyFile` and `Listener` | |
| `TextProofs` | theorems about `BodyCanon`, `HeaderValue`, `Signing`, `Settings`, `CommandLine` | |
| `SequenceLemmas` | lemmas about sequences, flattening and folds, used by `FramingProofs`, `TextProofs` and `FromDomainProofs` | |

How they stack: `Framing` implements the channel of whole packets on which
`MilterSession` is written; serving a connection is one step of `ServePool`, which
ends because `Framing` lets no connection outlive its deadline
(`DeadlineEndsConnection`); `DaemonProcess` puts `ServePool` where `Daemon` has
the return of `serve`; a `Reload` of `MilterSession` is the monitor of `Daemon`.
`Signing` uses the canonicalization of `HeaderText`; what a session calls
eligible is what `OwnDomain` makes of `FromDomain` and `Settings`.

### MilterSession

Each action of the worker is one turn of the loop in `handle_connection_until`: a
whole packet is taken from `inbox`, handled, and its whole answer appended to
`outbox`. `state` has the fields of `MessageState`. `finish_message` writes two
packets when it signs, so it is two actions with `pc = "accept"` between them.
A failure inside a write is either a failure before it, when the peer cannot
parse what it got, or after it, when the answer was complete and the deadline
check that follows the write failed. Both are covered by `Expire` and
`IoFailure` before or after the action.

`Reload` stands for the monitor and increments the version of `active`;
`DomainOf` gives the signing domain of each version. A header is reduced to its
role (From or not), the outcome of its framing and name checks, its domain and
its size. A malformed From address is a domain no configuration has.
`CryptoOutcomes` says whether the clock and the signer may fail.

The MTA is external. It sends any commands in any order, awaits the answer to
each unless the daemon agreed not to give one, and keeps its own record of the
message (`msg`), of the permissions and of the signature it got. That record is
what the daemon's behaviour is compared with. Opening a message also records
the configuration then in force (`floor`), and the first `continue` after it
records the one in force by then (`ceil`): the signature must be made under a
configuration of that window. `BodyFirst` allows body before a message is open.

`MilterSession` implements `SigningService` (property `ImplementsService`) under
the identity mapping of the MTA's variables: packets, buffers and the worker are
hidden, and each MTA step is a step of the service or a stutter. The abstract
`Accept` may leave a message unsigned only if it is not signable under some
configuration of its window, or signing may fail; this is what forbids silent
loss of signatures.

### Framing

A system call is two steps: its start, after the first look at the deadline, and
its return, before the second. It moves any number of the bytes it was offered, so
every division of packets and answers happens, and it may be interrupted. Bytes are
digits of `Base`; lengths are four of them, as in `u32::to_be_bytes`. The buffer is
resized and not cleared, as in the code. The peer may announce a length out of
range, stop in the middle of a packet, close, or stop reading; `Window` bytes of
answers fit into its socket. `EndOfStream` is a clean close while the four length
bytes are read, even inside them, because `read_packet_into` does not tell these
cases apart.

`Framing` implements `PacketChannel` (property `ImplementsChannel`) with the packets
sent and not handled as `inbox` and the answers begun and not read to their last
byte as `outbox`.

### ServePool

`main` names the places of the main thread in `serve` and `drain_backlog`, at
the granularity of one look at the flag, one poll, one accept. Each worker locks
the receiver, blocks in `recv` with the lock, looks at the flag, serves.
Clients use a few connection names again and again, so the backlog can stay
readable forever in a finite model. The mutex of the receiver is let go where its
guard is dropped: by `Receive`, or else at the end of the iteration (`Released`).

`ListenerFails` enables the errors of `wait_readable`, in `serve` and in
`drain_backlog`, shutdown or not, and the hard error of `accept`. `serve` then
returns an error and joins nobody; the process ends, which stops its threads.
`WorkersPanic` lets the handling of a connection panic, for instance in `eprintln!`
with a broken standard error. The pool is then smaller by one worker, and the join
of that worker makes `serve` return an error (`JoinPanicked`). The order of the
joins is left open, so threads that would have come after it may still run.

### Daemon

`RuntimeConfig::load` is two steps, the text and then the key file it names, with
edits possible in between. The start-up thread and the monitor both use it.
`InstallFails` ends the start when the signal handlers cannot be installed.
`announced` is a history variable: a SIGHUP followed the last edit. Signals before the
handlers are installed kill the process. The poll sleeps, logging and the check of
`--check-config` are reduced to their control flow. `serve` returns at any time
with an error and eventually once told to.

### DaemonProcess

`Daemon` alone lets `serve` return at any time with an error and assumes that it
returns once told to. `DaemonProcess` replaces this by the threads of `ServePool`,
which live in the same process, share the `shutdown` flag, and end with it. It
implements `Daemon` with its fairness (`ImplementsDaemon`) and `ServePool`, so
what is shown of the parts holds of the whole.

### Listener

One action per system call of `Listener::bind`: look at the path, remove, bind,
change the mode, each by name. Any daemon may be killed anywhere, which leaves the
socket; a service manager restarts the managed ones; others may start for the
same address at any time. The administrator may put a file at the path or clear
it. `unseen` records who had looked at the path before the file came: those are
excepted from `FilesSurvive`, since `remove_file` and `set_permissions` go by the
name. For TCP the kernel grants and takes back the port.

### KeyFile

One action per system call of `write_private_key` and `create_temporary`, run by
several processes for the same target. Any call may fail, any process may be
killed, and a power loss leaves what the kernel had written back (`WriteBack`),
which `sync_all` forces. A process id may return after its process has ended, so
debris of a killed run can meet the names of a later one. `stranded` marks runs
that met a failure the code does not undo: a removal or the directory sync that
failed. Generating the RSA key and printing the DNS record are left out.

### Signing, HeaderText, HeaderValue

`Signing` composes a message header by header, signs it as `sign` does (the last
instance of each listed name, From listed once more than it occurs) and lets
relays insert, delete and rewrite fields anywhere. The verifier is external and
consumes instances from the bottom. Values go through the canonicalization of
`HeaderText`, so a change of white space is no change. `HeaderText` holds the
loop of `canonicalize_header` as a fold. `HeaderValue` has the two loops of
`fold_signature`, enumerates values and compares the canonical form with a
definition by positions, and the folded signature with what a verifier reads.

### FromDomain

The passes of `from_domain` (line ends, comments, brackets, address) as folds and
selections over byte classes. The reference is a grammar of the mailboxes after
RFC 5322, evaluated as tables of end positions, which shares nothing with the
passes. Of the letters "A" stands for capitals and "a" for small ones, so that what
`to_ascii_lowercase` does shows. Repetitions (`Many`) and nested comments (`Comment`) are tables too, filled
from the end of the value to its start, so neither has a bound. Where the code
accepts more than the RFC (several dots at the end of a domain) the grammar says so.

### Settings, CommandLine and OwnDomain

`Settings` reads the lines of a file in order, as `RuntimeConfig::load` does; values
are classes. `CommandLine` has both parsers as folds over words. Each is compared
with a description of the accepted inputs as a whole. `OwnDomain` relates two
components: the domain of the file goes through `validate_dns_name`, the one of the
message through `from_domain`, which trim and lower it in code of their own, and
`sign` compares the two. `OwnDomainIsRecognized` holds that comparison, with
`DomainOf` of `FromDomain` on one side and `ValidateDnsName` on the other, against
the grammar's mailboxes and `SameName`, which compares two spellings byte by byte.

### BodyCanon

`Step` is an iteration of the loop in `update`, with its runs of ordinary bytes
and of white space, so chunk boundaries matter in the model as in the code.
`RelaxedBody` is a closed definition by positions in the whole body (`Part` says
what each byte contributes), which shares no structure with the machine.

## 3. Runs

| Run | Bounds | Shows |
|---|---|---|
| `session_safety` | 2 configurations with different domains, limits of 2 headers and 3 bytes, up to 3 headers and 1 chunk sent, 2 packets in flight, 3 negotiations | `TypeOK`, `ReplyDiscipline`, `SignatureCoversMessage`, `ConfigWindow`, `ImplementsService` |
| `session_liveness` | every command, signing may fail, 1 header, 1 chunk | `EveryCommandAnswered` |
| `session_body_first` | limits as in `session_safety`, no reload, `BodyFirst` | violates `SignatureCoversMessage`, see section 6 |
| `framing` | 2 packets of 1 or 2 bytes cut in every way, lengths 0 and 3 out of range, up to 2 answers to each, a socket of 4 bytes, deadline and close anywhere | `TypeOK`, `PacketsIntact`, `CleanCloseLosesNothing`, `AnswersIntact`, `ImplementsChannel`, `DeadlineEndsConnection`, `RequestsAreHandled` |
| `pool` | 2 workers, channel of 4, 6 clients, poll and accept may fail, workers may panic; clients and workers symmetric | `TypeOK`, `PoolNeverShrinks`, `NothingStartsAfterShutdown` |
| `pool_liveness` | the same with 3 clients, connections may be served forever | `QueuedIsTaken` |
| `daemon` | 5 texts (two good, moved listener, FIPS, unparsable), 2 key files, 2 keys and a bad one, 2 edits, any number of signals | `QuiescentIsCurrent`, `ActiveIsValid`, `ReloadTakesEffect`, `StopCompletes` |
| `process` | 1 text, 2 workers, 2 clients that come back forever, poll and accept may fail, workers may panic, signals at any time | `ExitIsGraceful`, `ImplementsDaemon` |
| `listener` | 3 daemons, 1 managed, 3 kills, 2 files, both kinds of address | `ServedSocketIsRestricted`, `FilesSurvive`, `Recovers` |
| `key_file` | 3 runs, 2 process ids, 2 attempts at a name, 1 power loss, every call may fail; runs symmetric | `TargetIsWhole`, `NeverReplaced`, `SuccessIsInstalled`, `FailureLeavesNothing` |
| `texts` | all bodies of up to 6 bytes over 4 classes, every division into chunks; all values of up to 7 bytes of content and white space; 13 families of From values of up to 9 bytes, 2 of them after every name of up to 3 bytes; folded lines of 3; up to 5 words, 5 lines, names of 6 bytes with limits of 5 and 3 | `HashesCanonicalBody`, `CanonicalIsRelaxed`, `FoldingIsSound`, `AcceptsExactlyMailboxes`, `ParsesItsForms`, `LoadIsStrict`, `NamesAreDnsNames`, `OwnDomainIsRecognized` |
| `signing` | up to 3 headers out of 7, 2 edits | `VerifiesExactlyTheSigned` |

What the properties say is in the comment above each; `PROJECT.json` gives for
each a mutant, a plausible slip in the code that makes the run fail.

Why the bounds are enough. Limits of 2 headers and 3 bytes are reached exactly
and exceeded separately by 3 headers of sizes 1 and 2. Two packets in flight let
a waived command be overtaken by the next one; more only lengthens the queue of
commands that have no answer. One reload changes the domain, so a signature under
the wrong configuration is also ineligible. Two packets of different lengths make
the reused buffer grow and shrink; a socket of 4 bytes is full in the middle of
an answer. Six clients are two being served and four queued, so the next is
dropped; in `pool_liveness` three clients are one being served forever, one in the
channel and one more that would follow it; in `process` two clients keep the backlog
readable forever. Three daemons
are one that looks, one that binds and one whose socket is removed. Three runs of
`generate-key` with two process ids are two that race and a third that meets
their debris. Two edits are one inside and one after a load, and the two that an
unannounced mixture of files needs. Six bytes of a body hold content, white space
or an empty line, a split CR LF and content again. The families of From values fix
the start of a value so that brackets, nested comments, quoted strings and escapes
each occur complete with something after them. Two of them have domains in both
cases with dots at the end, and come after names of three bytes: enough for a
letter, a dot inside or at the end, and a hyphen. A file has at most one line that
is wrong by itself, since it ends the loop over them. Three headers and two edits are a
duplicate, its removal and its replacement. No run disables the deadlock check:
where a system is over, a stuttering action (`Terminated`, `Over`, `Complete`)
says so. Beyond the bounds reach the proofs of section 5.

## 4. Fairness

* `MilterSession!FairSpec`: weak fairness of the worker (its thread is
  scheduled and its socket calls are blocking with a deadline) and of an MTA that
  reads the answers it awaits. The deadline itself is not fair: an awaited answer
  must come without it.
* `Framing!FairSpec`: weak fairness of the worker: a system call that has
  something to do, or whose timeout is over, returns. The peer owes nothing, and
  `Interrupted` is not fair.
* `ServePool!FairSpec`: weak fairness of each worker on its way to its next
  connection (`Take`). Nothing is assumed of `Served`, whose time is up to the MTA, of
  the main thread or of the clients.
* `Daemon!FairSpec`: weak fairness of both threads, and of the return of `serve`
  once its flag is up. This last assumption is discharged by `process`.
* `DaemonProcess!ProcessSpec`: weak fairness of the main thread, the monitor and
  each worker, and nothing about the return of `serve`. That serving a connection
  ends, one step here, is `DeadlineEndsConnection` of `Framing`, and clock time
  passes: a connection is over in 60 seconds at the latest. No fairness towards a particular
  worker at the mutex is assumed beyond weak fairness.
* `Listener!FairSpec`: weak fairness of the managed daemons, their restart
  included (`Restart=on-failure` in `src/packaging/dkim-lite.service`; systemd's start
  limit is left out), and of the others once started.
* `KeyFile` and the enumerating modules need none: they are checked for safety.

## 5. Proofs

Each theorem holds for every value of the constants that satisfies the named
assumptions (`TypesAssumption`, `NoneAssumption`, `SessionAssumption`,
`FramingAssumption`, `PoolAssumption`, `DaemonAssumption`, `ProcessAssumption`,
`ListenerAssumption`, `KeyFileAssumption`, `BodyAssumption`, `ValueAssumption`,
`SigningAssumption`, `SettingsAssumption`), which TLC evaluates in the runs: any
number of headers, chunks, reloads, packets, workers, clients, edits, daemons and
generators, any size of byte, packet and socket, and texts of any length. The
theorems about header and From values, settings and command lines are not about the
enumerating specification but about every sequence of bytes, lines or words.

| Theorem | Property | Needs |
|---|---|---|
| `MilterSessionProofs!TypeCorrect` | `TypeOK` | inductive as it stands |
| `MilterSessionProofs!AnswersStayInStep` | `ReplyDiscipline` | `Sync` |
| `MilterSessionProofs!SignatureIsComplete` | `SignatureCoversMessage` | `Faithful`, `~BodyFirst` |
| `MilterSessionProofs!SignedAsItBegan` | `ConfigWindow` | `Faithful`, `~BodyFirst` |
| `MilterSessionProofs!HandlerRefinesService` | `ImplementsService` | `Faithful`, `Judged`, `~BodyFirst` |
| `FramingProofs!TypeCorrect`, `ReadsWhatWasSent`, `CleanMeansComplete` | `TypeOK`, `PacketsIntact`, `CleanCloseLosesNothing` | `IInv`, `Digits` |
| `FramingProofs!AnswersArriveWhole` | `AnswersIntact` | `Writes` |
| `FramingProofs!FramingRefinesChannel` | `ImplementsChannel` | `IInv`, `Writes`, `Calling`, `Sizes` |
| `ServePoolProofs!TypeCorrect`, `SuccessMeansJoined`, `WorkersSurvive`, `ShutdownIsFinal` | `TypeOK`, `ReturnsJoined`, `PoolNeverShrinks`, `NothingStartsAfterShutdown` | `IInv` |
| `DaemonProofs!TypeCorrect`, `NoReloadLost`, `OnlyValidConfigurations` | `TypeOK`, `QuiescentIsCurrent`, `ActiveIsValid` | `IInv` |
| `DaemonProofs!ProcessRefinesDaemon`, `ProcessRefinesPool` | the safety part of `ImplementsDaemon`, and the same for `ServePool` | step simulation |
| `DaemonProofs!ProcessExitsGracefully` | `ExitIsGraceful` | both refinements |
| `FileSystemProofs!SocketIsRestricted`, `FilesAreSpared` | `ServedSocketIsRestricted`, `FilesSurvive` | `ListenerInv` |
| `FileSystemProofs!TypeCorrect`, `NeverPartial`, `InstalledKeyStays`, `SuccessIsTrue` | `TypeOK`, `TargetIsWhole`, `NeverReplaced`, `SuccessIsInstalled` | `IInv` |
| `FileSystemProofs!FailureIsClean` | `FailureLeavesNothing` | `Accounted` |
| `FromDomainProofs!FromDomainAccepts` | `AcceptsExactlyMailboxes` | `Follows`, `RunOf`, `CommentsClose`, `QuotesClose`, `ScanIs` |
| `FromDomainProofs!OwnDomain` | `OwnDomainIsRecognized` | `FromDomainAccepts`, `SameNameIs` |
| `TextProofs!BodyIsCanonical` | `HashesCanonicalBody` | `BodyInv` |
| `TextProofs!HeadersAreRelaxed`, `FoldingUnseen` | `CanonicalIsRelaxed`, `FoldingIsSound` | the states of the loops, `LastLine` |
| `TextProofs!SignatureProves` | `VerifiesExactlyTheSigned` | `SigningInv` |
| `TextProofs!LoadTakesASet`, `DnsNames` | `LoadIsStrict`, `NamesAreDnsNames` | the states of the loops, `IsSplit` |
| `TextProofs!CommandLines` | `ParsesItsForms` | `AskedSoFar`, `ServedSoFar` |

The arguments:

* *Replies.* `ReplyDiscipline` sees only the answers in the socket. `Sync` adds
  what is still to be read: every packet in the inbox before the awaited command
  needs no answer; the awaited command is the last packet, or is being
  concluded, or is answered, and then nothing follows; and the two copies of the
  negotiated options agree unless the answer that carries them is in the socket.
* *Signatures.* The message in the daemon lags behind the one the MTA has sent by
  the packets in the inbox. `Faithful` names the versions in between as a path
  from one to the other, one packet per step, starting at a message that the
  `MessageState` holds (`Holds`): retained whole unless an error is recorded, an
  error exactly when the message is not acceptable, under a configuration of its
  window. Reading a packet drops the first step of the path, sending appends one, a
  reload widens the windows. Once the end of message has been read, the state is
  empty and the signature carries the claim (`Covers`). The assumption
  `~BodyFirst` is the finding of section 6: without it the first body chunk
  would leave the message and the state apart.
* *Service.* The step simulation needs besides what the answers in the socket
  stand for (`Judged`): one signature at most, an acceptance that follows a
  signature or has an excuse (a configuration of the window under which the
  message is not signable, or a signer that may fail), options that are those of
  an offer. That an unsigned message is excused rests on the equivalence in
  `Holds`: an error is recorded only for a message the service may refuse.
* *Framing.* `Digits`: four bytes determine the length they were made of.
  `Framed` says where each packet lies in the peer's stream and `Ended` where the
  stream stops: after the last packet or a bad length, and earlier only if the
  peer has closed. `Reading` locates the reader in it: what has been handled ends
  where the current packet begins, the length bytes and the payload read so far
  are the bytes that follow, and a clean close happened at the end of the stream
  less than four bytes into a packet. `Writing`: who writes has an answer to write.
* *Answers.* `Writes`: what is on the wire is a prefix of the answers begun, all of
  them between two answers, and during a write all but the last with a part of
  that one. The peer can then cut the answers out of the stream again.
* *Channel.* The abstract queue of answers drops those read to their last byte.
  `Sizes` gives the number of bytes of the first i answers, as a table; it grows
  with every answer, so that reading more bytes takes answers from the front, and
  beginning another adds one at the end.
* *Folds.* The loops over a text are written with `FoldLeft` and `FlattenSeq`, whose
  library definitions are recursions over subsets of positions. `SequenceLemmas`
  shows that the table of this recursion exists and cuts a *trace* out of it: the
  states before the first and after each element. A claim about a loop is then a
  set of positions that holds 0 and with each its successor (`UpTo`), no operator
  being passed to an induction theorem. Each proof says what is known after k
  elements and holds that against a definition which knows nothing of the loop.
* *Body.* `BodyInv`: after m bytes the hasher has the parts of the m bytes, and
  the three flags and the counter tell what the gap behind the last content holds
  (`Agrees`). A run of bytes is as good as its bytes one by one, and a CR in front
  of a chunk boundary is resolved by the byte after it (`Resolved`).
* *Header values.* Folding is not seen because the loop of `canonicalize_header` is
  in the same state after CR LF TAB as after a space. `LastLine` tells where the
  last line of the output began, that its length is the column, and that every line
  before it has ended within the limit or is a single token.
* *Signing.* `SigningInv` is short: the signature lists and hashes what `sign`
  selects of the message signed. The work is in the equivalence: the n-th mention
  of a name in `h=` makes the verifier take the n-th instance from the bottom, and
  the mention of From that is one too many takes nothing exactly if no From was
  added. Both hashes are then compared part by part.
* *From addresses.* The code makes passes over the whole text, the grammar looks
  at it place by place, and no invariant of one loop relates the two. What does is a
  set of places of the value: those at which the first scan is outside of every
  comment and quoted string (`Top`), each leading to the next over one token
  (`Follows`), a byte, a fold, a comment or a quoted string. `RunOf` is a run of such
  tokens. On one side each table of the grammar is shown to relate exactly the places
  its phrase spans; this rests on `CommentsClose` and `QuotesClose`: a comment or
  quoted string of the grammar ends where the scan leaves it, by its depth at every
  place between, whatever is nested in it. On the other side `Slice` is what the
  passes leave of the value between two places, and it distributes over runs, so
  what the code asks of a piece of text is what the grammar asks of a run. The code
  finds its marks (brackets, `@`, commas) with a second scan, of text that the first
  has shortened; `ScanIs` shows that the second is at every byte in the mode the
  first had there, so a mark it finds is one at a `Top` place. The two directions
  are then a case for each shape of a mailbox. Recursive tables have no induction
  theorem here either; `TableFromLast` shows that one exists, and `FromLast` is the
  induction from the last place down, both as claims about sets of numbers.
* *Settings.* `ReadsTo`: after k lines the table holds what the good lines gave, or
  an error exactly if a line is wrong or a name comes twice. A name is divided at
  its dots (`IsSplit`: each label lies between two neighbouring ones). What is kept
  of it has no dots at the end and no capitals, so validating it again changes nothing.
* *Own domain.* `SameNameIs`: two names are one by `SameName` exactly if they agree
  without the dots at their ends and in lower case. What `from_domain` finds is the
  grammar's domain in lower case (`FromDomainAccepts`), the grammar itself lets dots
  at the end go, and what `validate_dns_name` keeps is the name without its dots in
  lower case; so `sign` finds the two equal exactly if they spell one name.
* *Command line.* `AskedSoFar`: the words are good pairs and perhaps an option whose
  value is awaited, or there is a first bad pair, or a help option after good pairs.
  `ServedSoFar`: the words begin one of the forms and the state is what they say, or
  they begin none.
* *Pool.* The control states determine which flags and threads exist: a main
  thread past its loop has seen `shutdown`, the sender exists until it is dropped
  or `serve` fails, only a worker in `recv` holds the mutex, and one that is idle or has
  ended holds no connection. `serve` succeeds only past the joins, with the channel
  emptied; a worker ends without a panic only after `shutdown` or a failure of `serve`.
* *Daemon.* `Control` ties the thread positions to what is loaded, `Validated`
  says that nothing unparsed is carried and that `FipsOk` was checked before the
  start, `Tracks` that after an announced edit the reload in progress, or the
  active configuration, is what the disk says unless the flag is up.
* *Process.* Each thread's step is a step of one part and a stutter of the other;
  the invariants of the parts then hold of the whole.
* *Listener.* `Looked`: who is about to remove or to change the mode while a file is
  at the path had looked before the file came. `Apart`: an address is of one kind,
  so no step of a TCP start-up meets a socket file. `ServedSocketIsRestricted` is
  inductive beside them: a daemon serves only after its own `set_permissions`, which
  changes whatever socket is at the path, and a socket bound later is another's.
* *Key file.* `Durable`: content is on disk before the target name exists.
  `Placed`: the name stays the run's own until it ends and is on disk before
  success is reported. `Named`: no other name a run touches is the target.
  `Accounted`: every name that leads to a run's file is one that run still has to
  remove, or belongs to a run that succeeded, was stranded or killed.

Only model-checked. The seven liveness properties of the runs (fairness and
`ENABLED` are out of the prover's reach) and the fairness part of
`ImplementsDaemon`. Every safety invariant, every action property and every
refinement's step simulation that a run checks has its theorem. The exception is
`SignatureCoversMessage` under `BodyFirst`, which is false: see section 6.

## 6. Finding

A body packet before any MAIL or header packet is recorded as an error of the
message (`milter.rs` 446), but the next header packet opens the message with
`begin` (`milter.rs` 439), which resets the state and the error with it. The end
of message is then signed without the body that came first. `SECURITY.md` 10–11
says that parsing failures never lead to a partial signature. A well-behaved MTA
does not send body first, and the other runs leave it out (`BodyFirst = FALSE`).

## 7. Plan

Done, in this order: `MilterTypes`, `SigningService`, `MilterSession`; `ServePool`,
`Daemon`, `BodyCanon`, `KeyFile`; `PacketChannel` and `Framing`; `HeaderText`,
`HeaderValue`, `Signing`; `Listener`; `FromDomain`, `Settings`, `CommandLine`;
`DaemonProcess`; `AsciiText` and `OwnDomain`; the proofs of section 5, the control first and then the texts.

Left for those who extend it: a single specification of `Framing` under
`MilterSession`, whose state space is the product of both (today they meet in
`PacketChannel`, whose queues have the same meaning in both); bytes above 127 in
`FromDomain`.

## 8. Not modelled

* The cryptographic operations (RSA, SHA-256, the FIPS provider): they succeed or
  fail, and a hash is the sequence of what was hashed.
* Log texts, the text of the other signature tags, the DNS record of
  `generate-key`, the parsing of socket addresses: formatting without decisions
  that a property is about.
* Bytes above 127 in From values: they may occur in a display name, a comment or a
  quoted string and nowhere else.
* A panic of the main thread or of the monitor, which `eprintln!` could raise too.
  That of a worker is modelled.
* A SIGHUP before the handlers are installed kills the process. It is part of
  `Daemon`, but nothing in the documentation forbids it, so no property does.
* The fuzz harness, packaging and vendored crates have no logic of their own.

`PROJECT.json` lists every component with the reason.
