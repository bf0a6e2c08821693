# ee2e-chat in TLA+

A formal model of `ee2e-chat`: modules that follow the Rust code of the peer-to-peer
mesh, of its connections under back pressure, of what a start of the program does to its
files, of the terminal interface, of room codes on their way between people and of the
updater; TLC configurations that check them on small instances, and TLAPS proofs for every
instance. Paths below are those of the repository; `node.rs:408` is line 408 of
`src/node.rs`.

## The system

A node both listens and dials. Each TCP connection is driven at each end by one task,
`Node::run_connection`: handshake (`Hello`, then an `Auth` that proves the room code),
admission to the registry, announcement of the new peer to everyone held, then a pump
that reads and writes frames until either side stops, then removal from the registry.
Tasks of one node share, under one mutex, the registry of peers, the table of senders to
the tasks of its connections, and the set of peers being dialled. They run on a
multi-threaded runtime, so anything may happen between an unlock and what follows it.
Two nodes may connect to each other twice; both then have to keep the same connection.

| Component | State it keeps | Operations | Talks to | What makes it correct |
|---|---|---|---|---|
| `node.rs` | `State` (registry, connections, dialing); per task: phase, socket, channel | `start`, `connect`, `say`, `peers`, `serve`, `run_connection`, `handshake`, `pump`, `announce_peers`, `handle_gossip`, `finished_dialing`, `receive_chat`, `disconnect` | other nodes (frames), its own tasks (lock, channels), the user (events) | the tables agree and lead to live tasks; one connection per pair, the same at both ends; the mesh completes; no message doubled, reordered or taken from a stranger; what the user is told is what is held |
| `peers.rs` | the peers by key | `admit`, `connection_wins`, `remove`, `undialed` | called by `node.rs` under its lock | both ends reach the same verdict; two identities under one name are reported |
| `identity.rs`, `secretfile.rs` | the identity file | `load_or_create`, `load`, `save`, `write_new` | `main.rs` | one identity, never replaced |
| `room.rs` | the room file; codes | `load_or_create`, `save`, `parse`, `display`, `proof`, `verify` | `main.rs`, `ui.rs`, handshake | the room one runs in is the room remembered; a code survives display and parse |
| `ui.rs` (Launcher) | the room it was made with | `start`, `dial` | `room.rs`, `node.rs` | a code typed is a code kept |
| `ui.rs` (interface) | held events, scroll strategy, views, the room field | `apply`, `build`, `submit`, `run_command`, `scroll`, `follow`, `connect_pressed`, `copy_room` | `node.rs`, `clipboard.rs` | no event lost or reordered at the hand-over; readers are not dragged along, and following resumes; a way out |
| `main.rs` | none | `run`, `resolve_identity`, `resolve_room`, `plain` | all | stops rather than fall back |
| `protocol.rs`, `messages.rs` | none | `encode`, `decode`, `to_json` | `node.rs` | what does not fit a frame is not sent |
| `crypto.rs` | none | `seal`, `open`, `fingerprint` | `node.rs`, `identity.rs` | open undoes seal |
| `clipboard.rs` | none | `copy`, `try_tool` | `ui.rs` | the first tool that works, or the right reason |
| `update.rs`, end of `install.sh` | a temporary clone, the installed copy | `run`, `TempDir`, `clone`, `install`, `modified` | git, `install.sh` | a failed update leaves no clone behind, and the old copy or all of the new one in place |
| rest of `install.sh`, workflow | files | shell | | not modelled |

What is hard: two ends of a connection finish their handshakes at different moments and in
different orders; senders taken under the lock are used after it; a superseded task goes on
running; gossip is bounded, best-effort, and itself causes dials; connections break and
handshakes time out anywhere; a peer may stop reading, and a pump that awaits a send does
not read; nodes quit and come back before their old connections are gone; several runs share
files they create in two steps and may be killed between them; events reach the interface
before it has a place for them. `PROJECT.json` lists each of these hazards with its line and the
properties aimed at it.

## Modules

| Module | Models | Lines of code |
|---|---|---|
| `Peers` | the decisions of the registry, as operators: `Verdict` (admit), `ConnectionWins`, `Undialed` | `peers.rs:62-87, 110-167, 189-203` |
| `Node` | the mesh: nodes, connections, tasks, frames; EXTENDS `Peers` | `node.rs:141-753`, frames of `protocol.rs` |
| `Registry` | the registry with display names; EXTENDS `Peers` | `peers.rs:89-171` |
| `Startup` | identity and room files, how a run comes by them | `identity.rs:117-195`, `room.rs:229-259`, `secretfile.rs:24-62`, `main.rs:83-218`, `ui.rs:224-291, 575-596` |
| `Channel` | what a connection promises: a bounded line per direction | abstract |
| `Pump` | established connections over sockets that fill up; refines `Channel` | `node.rs:296-370, 453-481` |
| `Ui` | events from the node to the log, the log's scrolling, keys; refines `Channel` | `ui.rs:101-841`, `main.rs:94-108` |
| `RoomCode` | how a code is shown, read and proved | `room.rs:35-206` |
| `Invite` | a code from one person to another; EXTENDS `RoomCode` | `ui.rs:247-252, 548-596, 810-825`, `clipboard.rs:47-109`, `node.rs:717-746` |
| `Update` | `chat update` and the part of `install.sh` it runs | `update.rs:46-204`, `install.sh:204-289` |
| `MCNode`, `MCRegistry`, `MCStartup`, `MCPump`, `MCUi`, `MCInvite`, `MCUpdate` | the small instances TLC checks | |
| `NodeProofs`, `MessageProofs`, `RegistryProofs`, `StartupProofs`, `PumpProofs`, `UiProofs`, `UpdateProofs`, `InviteProofs` | the theorems | |

### Node

Nodes are natural numbers, their public keys; the code compares keys for equality and order
only. `Conns` are the connections that may be opened; an *end* is `<<c, "out">>` (the
dialler) or `<<c, "in">>`. `phase[e]` is where the task of end `e` stands:

    idle - hello - auth - admitted - announcing - pump - closing - leaving - done
                      \                 \- (superseding: straight to pump)  \- ended - done
                       \- done (rejected, failed, timed out)

`ended` is the stretch between the return of `serve` and `finished_dialing` in a task that
`handle_gossip` spawned. `inbox[e]` is what is on its way to `e`, in order; `queue[e]` is its
mpsc channel; `pending[a]` holds the `try_send`s that a user or a task has decided on under
the lock and still has to make. `registry`, `connections` and `dialing` are `State`; `shown`
is what the emitted `PeerJoined` and `PeerLeft` add up to; `log` is the emitted messages of
peers. A critical section is one action; whatever follows its unlock is another: `AdmitNew`,
`EmitJoined`, `AnnouncePeers` and each `Put` are four steps or more, `DisconnectHeld` and
`EmitLeft` two.

What is abstracted: an `Auth` is the room its sender holds (what the HMAC proves); a message
is its author, a number and whether it overflows a frame; names and addresses do not occur,
and a node's address is known to whoever is told its key. Nodes are honest: no malformed or
out-of-place frame is sent, so the branches that answer one are not modelled, nor is a
message that fails to decrypt. The accept loop never fails. Sockets have no capacity here;
back pressure is the subject of `Pump`. A cut loses what is in flight and both ends read an error; it is
the same `Eof` as a close, since `pump` ends either way. A write to a closed connection may
be lost (before the close is known) or fail (`WriteFails`).

`Restart(n)` is a user who quits and starts the program again with the same identity and
the same command line: all of `Node::start` is made anew (`State`, queues, tasks, bootstrap
dials), the operating system closes the old sockets, and the far ends read `Eof` when they
come to it, which may be long after the new connection is there. It happens once for each
node of `MayRestart`. A machine that loses power, so that its peers are told nothing, is not
modelled.

### Pump and Channel

`Pump` looks at established connections only. What `Node` does in one `WriteFrame` is two
steps here: `Take` (`rx.recv()` gave a frame, from now on the task awaits `framed.send`) and
`Flush` (the sockets had room). Between the two the task does not read. A `Stall`ed node is
a process that is suspended with its sockets open. `Channel` is what a connection promises
in either direction: frames are taken or refused at once, there are never more than `Bound`
of them, and they come out once each and in order. `IsLine` says that `Pump` implements
`Channel`, with what is in the sockets, in the hand of the pump and in the queue as the line
in transit, and `Capacity + 1 + QueueDepth` as its bound.

### Ui

`screen` says what the interface thread is busy with: `main` (before it runs), `setup`,
`start` (`Launcher::start` up to the bind), `dial` (its bootstrap dial), `build`, `chat`,
`closed`. An event passes the node's channel (`events`), cursive's channel of callbacks
(`sink`), and `UiState::pending` if it is applied while there is no log (`Hold`); `build`
empties `pending` (`Replay`) before the event loop goes on. The log is as many `rows` as its
events and answers take, of which `laid` were there when it was last laid out; `top` and
`strategy` are the scroll view's. `live` is a history variable: the reader has pressed Enter
or Ctrl+E and has not paged back since. `LogIsALine` says that `Ui` implements `Channel`
too: from the node to the log there is one line.

### RoomCode and Invite

`RoomCode` has `display` and `parse` as they are, bit by bit through a register of sixteen
bits, for codes of any admissible length; the instance has codes of five bytes instead of
ten, so eight characters instead of sixteen, and the proofs are about every length. A proof (an HMAC) is the tuple of what
goes into it. In `Invite` two people look at, copy, spell, type and paste each other's codes
and connect. `meant` is what somebody has in mind when they fill in the room field, and in
which `Style` they write it: prefix, case, separators, and letters for the digits that look
like them. `Confusing` names the two ways of writing that `parse` does not follow.

### Update

Files are known by who wrote them, as inodes are: `target` and `staged` are the two names.
`dir` are the temporary directories, named by process id, which may be used again. `beside`
are the updates that had another one beside them at some time, `failed` those to which
something was done from outside. The steps of the script are `build`, `stage` (`install` makes the
file), `write` (and fills it), `move`, and `finish`: all that it says once the copy is in
place, still under `set -eu`. At each of them it may end with an error (`ScriptFails`: a build, a
disk or a pipe that fails, or a signal to the script), and so may the update itself when it prints
(`VerifyFails`). An interrupted update drops nothing. The update may be killed with its script (`Interrupt`)
or without it (`Kill`, `gone`): the script traps INT and TERM without exiting, so it goes on to
install by itself, and another update may meanwhile get the process id, and with it the
directory. A tool is taken to end with whoever runs it: `git` with the update, `cargo`, `install` and
`mv` with the script.

### Registry

`nameOf` is the name under which each peer's user currently runs it, `name` the one in the
registry, `warned` the keys whose admission raised `NameConflict`. `MayOverlap` says whether
a peer may come back, renamed, before this node has noticed that its old connection is gone.

### Startup

Each file operation is a step of a run: `path.exists()`, reading, `remove_file`,
`create_new`, `write_all`. A file between creation and its complete write is a `Fragment`;
a run killed there leaves it, and no parser takes it. `args` are the arguments of a run:
`plain` stands for `--plain` or `--name`, which both join the room without asking and end
on failure; otherwise there is the setup screen, on which the user may leave, blank or replace the code and may try again.
`--identity`, `--ephemeral`, permissions and failing disks are left out. `crowded` is a history variable: some
run was started while another was going on.

## Runs

All runs end within three minutes each with two workers. Deadlock checking is on in `Invite`
and off everywhere else: bounded users stop acting, and a settled mesh that waits for frames
(or a program that has been started as often as allowed, or has been closed) is the normal
end. What must not stop there is stated as a property.

| Run | Instance | Checks |
|---|---|---|
| `PairTie` | two nodes dial each other; one message each; fairness | `TypeOK`, `RegisteredIsLive`, `FramesInOrder`, `NoDuplicates`, `DialsConnect`, `MeshForms` |
| `PairFaults` | one connection; two messages each, long or short; a queue of one; one timeout, one cut and one restart of the node dialled; fairness | `InOrder`, `SettledAgree`, `ShownIsHeld`, `FallsSilent` |
| `Rooms` | three nodes, two room codes, a dial to oneself, one message each | `OnlyRoommates`, `Delivered` |
| `Chain` | 1 dials 2, 2 dials 3; 3 cannot reach 1 | `DialedOnce`, `MarksCleared`, `MeshCloses` |
| `Names` | three peers, two spellings of one name, our own name, no overlap | `ClashesReported` |
| `Starts` | two runs, four starts, one kill, with and without setup screen | `TypeOK`, `OneIdentity`, `IdentityKept`, `GivenIsRemembered`, `NoneForgotten` |
| `Pump` | a hub that says four messages and two others, one of which says one and one stalls; queue and sockets of one; fairness | `IsLine`, `SpeaksOn`, `Drains` |
| `Interface` | one notice before the screen is up, three events of one or four lines, three keys, two presses of Connect; fairness | `TypeOK`, `NewestInSight`, `LogIsALine`, `AllWritten`, `NotDragged`, `EscQuits` |
| `Update` | three updates, the third with the process id of the first, two faults or kills | `NoCloneBehind`, `CopyIsWhole`, `StartsOver`, `OldOrNew`, `InstallsItsOwn` |
| `Invite` | two people, four times two codes, seven styles, three texts that are no code, two tools in every condition, two edits | `TypeOK`, `ReadAsMeant`, `InvitedMeet`, `ToldTheTruth` |

Bounds and why they are enough. Two connections are what a simultaneous dial makes, and the
tiebreak only ever compares two; every order of the steps at the four ends is explored.
Three nodes are the fewest that gossip: one introduces the two others. Four connections let
a chain make one dial more than the mesh needs. One timeout and one cut strike at any point
of any connection. A queue of one is full after one frame, as a queue of 64 is after 64;
what matters is that a frame can be refused between two accepted ones. Two messages are the
fewest that can be reordered. With `MaxGossip` 1 or 2 lists of two are cut or just not cut.
With queues of two as in `Chain` a peer list is refused now and then, but never the one that counts; with
queues of three none is, and the states of that instance satisfy `MeshCloses` and the invariant of its proof too.
Two runs of the program suffice to race for a file; keys and codes are told apart only by
being different, so `Starts` permutes them (`Alike`; it checks safety only). Settled states are those of `Quiet`:
nothing is in flight, queued, pending or being dialled. Properties under `Quiet` are stated
as invariants so that TLC needs no fairness for them; `FallsSilent` says that such a state
is reached. With three nodes the fair graph is too large to check on every occasion, so the
runs check liveness for pairs only; `FallsSilent` was found to hold once on a chain of three
in which lower keys cannot dial higher ones (590,000 states under `FairSpec`). A queue of
two holds the one peer list and the one message of `Rooms`: `Delivered` is about queues
that suffice. In `Pump` a queue, a pump's hand and a socket of one are three places,
so the hub's fourth message is refused when its far end stalls at once. In `Interface` an event of four lines is
more than the screen of two, one of one line less, and a page is a screen; two presses
of Connect let a first start fail. In `Update` three updates are a failed one, a later one
and one beside either. In `Invite` the codes are all
zeros, all ones as characters (so every character has a lookalike), one that is shown as
`T10G...`, and two with bits set on either side of every byte boundary; five bytes are one
period of the groups of eight and five bits, after which the shifts repeat.

The type invariants of `Registry`, `Pump` and `Update` are in no run: they are proved (`TypeCorrect`).

Each property of a passing run has a mutant: an operator marked "Mistake" beside a
definition, which breaks that property when put in its place.

### Disagreements with the documentation

These runs check what a test, a comment or the program itself says and end in a counterexample;
`PROJECT.json` quotes the sentences.

| Run | Property | What happens |
|---|---|---|
| `StarSplit` | `MeshSettles` | the bootstrap dial has no mark, so gossip may dial the same peer in the same direction, on which the tiebreak does not decide; dialled by the larger key, each end rejects what the other keeps, and none is left |
| `Untouched` | `FailsUntouched` | the script replaces the copy (install.sh:225) and goes on to talk under `set -eu`; if a pipe breaks, the disk is full or it is killed there, the update says "your existing copy is untouched" (update.rs:169) of a copy that has just been replaced. `OldOrNew` says what is true instead |

Further corners have no run of their own. Each shows as a counterexample when the constants
of a run are changed as said, and its properties replaced by the one named:

- `NoOrphans` in `PairTie`: the task of a superseded connection keeps a sender to its own
  channel (`mine`, node.rs:408), so it is never told to stop, against node.rs:8; it lives as
  long as its far end.
- `ShownIsHeld` in `PairTie` without its `Single`: events are emitted after unlocking, and with two connections to
  one peer the last one may say that a held peer left.
- `RunningIsRemembered` in `Starts`: with the setup screen, a code is saved, the bind fails, and
  the user goes back to the first code, which is not saved again.
- `SettledAgree` without its `Single` in `StarSplit` with `Unreachable <- HubOnly` (the smaller key
  dials twice): both connections win at whichever end sees them second, and the ends may keep different ones.
  peers.rs:149-152 says the two sides "always agree".
- `SettledAgree` without its `Single` in `PairTie` with `MaxCuts = 1`: the winner of a tiebreak is cut before its far
  end has registered it; that end then registers the loser, whose other end is an orphan, and
  one user sees the other in the room while the other sees nobody.
- `MeshSettles` in `PairTie` with `LongTexts <- ShortOrLong` and `Spec`: a text too long for a frame
  ends the winning connection (node.rs:473) while its far end still has the losing one in the
  table, and rejects or replaces it with what is about to end; the pair is left apart, for
  nobody dials again. So `Undisturbed` allows no such text.
- `MeshSettles` in `PairTie` with `Conns <- ThreeConns`, `MayRestart <- NodeOne` and `Spec`: node 1
  quits while its dial is in its handshake and comes back. Node 2 handles the new connection first;
  the old one, whose proof is still in its inbox, then supersedes it, finds its end and
  takes the peer away with it. Node 1 holds node 2 for good, which holds nobody.
- `MeshSettles` in `Chain` with `QueueDepth = 1`: a peer list dropped because a queue was full
  was the last one. "A peer too backed up to accept a peer list will get the next one"
  (node.rs:515), if there is a next one.
- `MeshSettles` in `Chain` with `Bootstrap <- TieAndThird` and `Conns <- ThreeConns`: nodes 1 and 2 dial each other and node 2 announces node 3 over the
  connection that node 1 then rejects; superseding announces nothing (node.rs:433-436), so node 1
  never hears of node 3, although "the room assembles itself into a full mesh"
  (README.md:63-65).
- `ClashesReported` in `Names` with `MayOverlap = TRUE`: a connection that supersedes another
  replaces the peer, its name included, and names are not compared (peers.rs:119-128).
- `NoneForgotten` in `Starts` without its `kills = 0`: killed between `remove_file` and
  `create_new` (room.rs:256-258) there is no room file, and the next start makes up a room
  without asking.
- `SlowsDown` in `Pump`, with `Spec`: the comment on the queue's bound speaks of "frames that may queue for
  one peer before sending blocks" and says that "a peer that stops reading must slow us down"
  (node.rs:32-34). Nothing blocks and nobody is slowed down: `try_send` refuses the frame, the
  message is dropped with a warning, and the user goes on (node.rs:351). The comment on `say`
  (node.rs:298-302) contradicts it and is the one the code follows; `SpeaksOn` checks that one. What both
  have in common, that the memory is bounded, is `IsLine`.
- `NoStandstill` in `Pump` with `Nodes <- Pair`, `Links <- PairEnds`, `MaxSays <- BothTalk` and
  `MayStall <- NoneStalls`: with the sockets full in both directions each pump awaits a send
  and reads nothing (node.rs:462-475), so neither send ever returns; what both users say
  from then on is dropped with a warning, and no timeout ends it.
- `CopyIsWhole` in `Update` without its `beside`: of two updates side by side, the file that one
  moves may be one that the other is still writing (install.sh:222). `StartsOver` without it: one may fail
  because the other has moved its file, again with the sentence of `Untouched`. An interrupted
  update leaves its clone (update.rs:184-204).
- `ReadAsMeant` in `Invite` without `Confusing`: "Tio-..." in mixed case is refused, and so is
  a code that begins with `T10`, typed without its prefix and as `TIO...`, for the
  prefix is stripped before lookalikes are folded (room.rs:84-91).

This is why the properties and the passing runs have the shape they have. `SettledAgree`,
`ShownIsHeld` and `InOrder` are said of pairs that never had more than one connection (`Single`),
under all faults. `DialsConnect` and `MeshForms` are about two connections, one in each direction
(`Crossed`), when nothing breaks (`Undisturbed`). `MeshSettles` holds with gossip when no queue
overflows, no bootstrap dial is raced by a gossip dial and nobody is announced during a
tiebreak. What gossip does of its own is `MeshCloses`: two peers that one node holds, each by the only
connection it ever had with it, have had a connection to each other (unless the one could not dial the
other), and are joined if nothing broke and neither dialled twice. The corners above show what
each of its conditions is for: without `Single` it fails as `MeshSettles` does in `TieAndThird`, without
`Crossed` as in `StarSplit`, and with a queue of one because the list that counted was refused.
It holds as long as `NothingRefused` and `ListsFit` do. A message may be lost, without a warning, if it
is queued on a connection that then loses a tiebreak, or refused by a full queue; `Delivered` is said
of pairs that never had more than one connection, and holds as long as `NothingRefused` does. It
asks for all that was said only where nobody else may hear it (`OnlyRoommate`): in a larger room what is
said before a node comes in is not for that node, but what is said after something it has shown is. `GivenIsRemembered` is `RunningIsRemembered` for runs without a setup
screen. `Drains` is checked where, between two nodes, one direction fits the sockets.

## Fairness

`FairSpec` assumes weak fairness of

- each task's own steps and reads together, and its writes: the tokio runtime polls every
  task that has been woken, and `select!` picks at random among ready branches
  (node.rs:462), so neither a stream of frames to read nor one to write starves the other;
- dials: `TcpStream::connect` resolves one way or the other, and the user's bootstrap
  dials are made;
- `Put`: a loop of `try_send` runs to its end without waiting.

Nothing is assumed of users who talk, of timeouts or of the network.

In `Pump` each pump goes on when any branch can (read, take or flush together), each `try_send`
is made, and users do say what they have to say; a stalled process does nothing. In `Ui` the
event loop runs (callbacks, layout and a pressed Esc), the forwarding task is polled, and
`Launcher::start` returns one way or the other, as the system's bind and connect do. Keys are
never assumed to be pressed. `Update` and `Invite` state safety only.

## Proofs

`NodeProofs` is about any set of nodes and connections, any bootstrap and reachability
relations, any rooms and limits, under the assumptions named in `Node`.

- `Invariance`: `IInv == TypeOK /\ Started /\ RegisteredIsLive` is inductive.
  `RegisteredIsLive` alone is not: a new connection could take the place of one that a sender
  still points at; `Started` excludes this, for an end that is a live task belongs to a
  connection that was dialled, and `OpenLink` takes one that was not. The proof has a lemma
  per kind of step: those that open a connection, register, disconnect, move a
  task on, or leave phases and tables alone.
- `TypeCorrect`, `TablesAgree`: its parts as theorems.
- `RoommatesOnly`: `OnlyRoommates`, from a further invariant `RoomInv`: a proof in
  an inbox is that of the node at the far end.
- `NeverDialedTwice`: `DialedOnce`. Marking and choosing are one step, a dial task turns into
  one marked connection, and the mark goes with its task.
- `NoMarkLeftBehind`: `MarksCleared`, from the invariant of `DialedOnce`: the one dial a mark
  was set for is there until the step that clears it.
- `ShownAddsUp`: `ShownIsHeld`. `HeldInv` says which connection a node holds: of the rivals to one
  peer that are admitted and not ended, the only one, or the one that wins the tiebreak while no
  other does (`Foremost`); a registration keeps it because `Verdict` asks the same question. With
  one connection, then, a task between `PeerJoined` and `PeerLeft` is what `shown` reflects
  (`ShownInv`), and once quiet such a task is in its pump and the one held.
- `NobodyHeldInVain`: `SettledAgree`. `EndsTold`: a task whose far end is gone, or whose connection
  is cut, has an `Eof` ahead of it. So a quiet pump has a far end that is open, quiet and, by `HeldInv`
  again, the one the peer holds.
- `EitherDialConnects`: `DialsConnect`, for any keys and any order of steps at the four ends.
  `OneWins`: of two connections in opposite directions exactly one wins, and (`FarForemost`) it
  does at both ends. `LastingInv`: a foremost connection between roommates is neither rejected nor
  closed at either end, for what could end it is a wrong proof (excluded by the invariant of
  `RoommatesOnly`), a text that is too long (`SaidInv`), a frame out of place (`FrameInv`), a verdict
  for another (`HeldInv`), or the end of its far end. Once quiet both its ends pump, and both nodes
  hold it.
- `HandshakesUndisturbed`: `FramesInOrder`. Its invariant `FrameInv` knows the place of the proof
  in what an end has still to read (`Due`), that nothing but a `Hello` comes before it and
  everything else after it (`Ordered`), and, as long as both ends are there and the network
  has not cut them, that the proof is missing only while its sender is in "hello"
  (`Counted`). Without the counts a frame queued by a registered end could come to stand where
  the proof of that end belongs.

`MessageProofs` goes on from there, for as many connections between two nodes as there may be.

- `NeverShownTwice`: `NoDuplicates`. A log alone says nothing of what is still to come, so the
  invariant speaks of every place a message for a node can be in (`Copy`): owed by its
  author, on a queue, in an inbox, or in that node's log. `OneCopy`: of a message there is at most
  one copy for each node; `OnlySaid`: there is none of a message not said; `Dormant`: nothing
  waits for a connection that is still to be opened, which would then lead somewhere. A
  message starts with one copy per peer because the table of senders has one end for each
  (`RegisteredIsLive`). `CopySteps` says once what a step can do to copies: it makes those of a new
  message (`Makes`: `Say`), moves one from its author to a queue (`Enqueues`: `Put`), from a queue
  to an inbox (`Transmits`: `WriteFrame`), from an inbox to a log (`Shows`: `ReceiveChat`), or at most
  loses some (`NoneMade`: all others).
- `ShownInTurn`: `InOrder`, from the same description. A log is in order only if what is on its way
  is: `OrderInv` compares any two copies on one connection by place (owed, then queue, inbox, log)
  and position. `PathInv` keeps each copy on a connection between its author and the node it is for, and a
  user from owing two messages at once.

Two theorems are about behaviours in which no queue refuses a frame (`NothingRefused`): `try_send`
may drop what it cannot queue, and the bound of 64 is no promise of the code.

- `AllIsHeard`: `Delivered`. Its invariant `HeardInv` follows the only connection between two nodes as long as nobody is
  about to leave it (`Whole`): of what its author said it has underway (`Underway`: owed, queued,
  in the inbox or shown) everything from the first one on, nothing before its own end is admitted, and
  everything if it leads to the only roommate. `UnderwayKept`: no step loses what is underway there;
  `CopyBefore`, from `CopySteps`: nothing comes to be underway but what is said; and what is
  said goes to this connection if and only if `HeldInv` has it in the table. `StrangersInv`
  gives `HeardInv` its start when a connection opens: between two that had none there is no
  copy, and who has no other roommate has said nothing, for `say` without a peer sends nothing.
  Once quiet, `EndsTold` makes the connection of a held peer whole, and all that is underway is shown.
- `PeersOfPeersMeet`: `MeshCloses`, with `ListsFit` as its own condition (rooms no larger than the cap).
  Its invariant `GossipInv` speaks of two peers `q` and `n` of a node `p` whose connection to `n` is whole
  and registered at `p`: either `n` knows `q` (`Knows`: there is a connection between them, or a dial
  of `n` is on its way, or `n` cannot dial `q`), or `p` has yet to announce (`Announces`), or a list with
  `q` in it is on its way to `n` (`ListUnderway`, `Telling`). Each admission makes the node that admits
  announce the newcomer to all the others and all the others to the newcomer (`AnnouncedTold`), of which
  nothing is lost on the way (`CarriedKept`, which `UnderwayKept` above is a case of), and a list that is
  read makes its reader dial whoever it does not know (`ReadIsKnown`; a mark stands for a dial by
  `MarksCleared`). Two admissions at one node may interleave: the later one finds the earlier in the
  table, whatever the earlier list lacked. Once quiet nothing is on its way and nobody dials
  (`QuietKnows`), which leaves a connection; that it joins the two is `EitherDialConnects`.

`RegistryProofs` is about any peers, names and spelling rule.

- `TypeCorrect`: types, and that only peers held are on record as warned about.
- `NoSilentNamesakes`: `ClashesReported` if `MayOverlap = FALSE`, from `OnRecord`: the name on
  record is the one the peer runs under, so whoever is superseded keeps its name.

`PumpProofs` is about any nodes, links, capacities and stalls.

- `Invariance`, `TypeCorrect`: types, and that pump, sockets and queue hold no more than they may.
- `EveryConnectionIsALine`: `IsLine`, the refinement. `Put` of a frame that is not refused is
  `Accept`, `Read` is `Deliver`; `Take` and `Flush` move a frame along the line and are
  stutters, as is everything else.

`UiProofs` is about any event sizes, page and height, and any number of events and keys.

- `Invariance`, `TypeCorrect`: types, on which screens events can be held or replayed (`Waiting`),
  that every event is in one place (`Counted`), and that `live` implies sticking and sticking
  means the bottom of the last layout (`Settled`).
- `FollowersSee` (`NewestInSight`), `ReadersStay` (`NotDragged`).
- `EventsKeepTheirTurn`: `LogIsALine`, the refinement, in which `Waiting` says that the lines that are joined are not both
  moved.

`UpdateProofs` is about any number of updates, process ids and faults.

- `Invariance`: two updates that run at once know of each other and share a process id only with a
  script that was left alone (`Apart`), nothing has a file before its own update has made it, and who was
  not killed has its directory to itself (`InTurn`, from `DirKept` and `OwnsDir`), and an update that has the copy to itself finds
  target, temporary name and contents as its own steps left them (`Alone`).
- `TypeCorrect`; `NothingBehind`, `NeverHalfWritten`, `AlwaysStartsOver`, `NeitherLost` (`OldOrNew`) and
  `InstallsWhatItBuilt`: every property of the run.

`StartupProofs` is about any number of runs, starts and kills.

- `Invariance`: `TypeOK`, `RoomKnown` (a run past its room has a code), `OneWriter` (only the
  run that created the identity file writes it, and it is a fragment until then) and
  `OneIdentity` are inductive together. `OneIdentity` needs `OneWriter`: otherwise a
  second writer could replace the key that a first one runs under.
- `TypeCorrect`, `NeverAnother` (`OneIdentity`), `NeverReplaced` (`IdentityKept`).
- `AlwaysRemembered`: `GivenIsRemembered`. Until two runs overlap (`crowded`) there is one at most (`Solo`); a
  second one may replace the room file under the first. Its invariant `Remembers`: no room is being joined
  before Connect, and a run without setup screen saves only as it starts, so that the file
  has the code from the setup phase on.
- `NeverForgotten`: `NoneForgotten`, again until two runs overlap. Its invariant `Replaced`: without a
  kill, a code that was stored is missing from the file only while a run is about to
  create it. `save` that finds a file in its way does not lose it, and what is written is a code
  (`RoomKnown`).

`InviteProofs` is about any people, codes of any number of whole groups of five bytes (the code
has two, `CODE_BYTES` is 10), ways of writing one down, clipboard tools and edits. It assumes what
the constants mean, no more: what counts as `Rubbish` is not blank and not read as a code, and
no tool is named like an error.

- `ShownIsRead`: `parse` reads what `display` shows as the code it shows; `SpelledIsRead`: the same for
  every way of writing it down, except that the two ways of `Confusing`, and only they, are refused.
  `Encoded`, `Cleaned` and `Decoding` are recursive functions; that there is such a function at all
  is `Recursion`, and what it does is shown by `InductionUpTo`, induction stated for a set of numbers.
  (The induction theorems of the library, which take a predicate, cannot be used here: no installed prover
  instantiates them. `WFMin` on the order of the naturals takes a set.) Five bytes make eight
  characters and leave no bit over. `EncodeRound` follows `Encode` through five bytes and finds the eight
  numbers `Fives`, whatever the register of sixteen bits still holds of the bytes before;
  `DecodeRound` follows `Decode` back (`FirstBack` to `FifthBack` are the arithmetic); `EncodedRounds` and
  `DecodedRounds` are the inductions over the rounds. `LettersRead`: small letters and lookalikes are
  read as the characters they stand for. `CleanedGroups`: the separators that grouping puts in are
  what cleaning takes out. `LettersLikePrefix`: which codes look as though they had the
  prefix, when they are written without.
- `TypeCorrect`; `ReadRight` (`ReadAsMeant`), `InvitedAccept` (`InvitedMeet`), `CopySaidRight`
  (`ToldTheTruth`): every property of the run. The properties are not inductive: what is in a field, or
  was shown, may still be entered, copied and connected with. The invariant `IInv` adds that
  each such text *stands for* the code it came from (`Stands`: it is no blank, and is read as that code
  unless it is confusing or none; `FieldInv`, `ToldInv`), which is where `SpelledIsRead` is needed, and that
  who found whose proof good is settled by their rooms (`MetInv`). TLC found `FieldInv`, `ToldInv` and
  `MetInv` to hold in all states of the run `Invite` as well.

Only model-checked: liveness under fairness, which is out of the provers' reach: `MeshForms`, `FallsSilent`, `SpeaksOn`, `Drains`,
`AllWritten`, `EscQuits`.

## Plan

Done: `Node` with restarts, `Peers`, `Registry`, `Startup`, `Pump` and `Channel`, `Ui`, `RoomCode`
and `Invite` with the clipboard, `Update`, and the theorems above. Left, in this order:

1. `Mesh`: an abstract specification of one pair of nodes (apart, joining, joined) with `Node`
   on one connection as its refinement.
2. Half-open connections: a node that disappears without closing its sockets.

## Not modelled

Cryptography itself (pure functions over data that a model checker cannot tell apart), JSON and
the line codec, plain mode (it prints events as they come), theme and layout, the clock in the
header, the mouse wheel, resizing and the scrolling of the setup screen, `prefix_for` and the
version that an update prints, the rest of `install.sh`, Windows, the workflow.
