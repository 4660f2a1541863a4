# BeTalk, specified

BeTalk is a chat over TCP: clients log in with a nickname and everybody gets
what anybody says, first the history and then live. The repository holds the
same program several times: servers in Rust, Kotlin, Python and (begun) C and
Go, clients in Flutter and Python. This directory holds TLA+ modules for it,
the TLC configurations that check them on small instances, and theorems that
TLAPS proves for every instance.

Source paths below are relative to the repository; `server.rs` is
`server_rust/src/server/server.rs`.

## 1. Inventory

### Rust server (`server_rust/src`)

*State.* The list `clients` and the history `messages`, each in a tokio
`RwLock`; per client its name, peer address, two socket halves and a queue of
messages to send, the last three in locks of their own.

*Tasks.* `run` accepts connections and stops at Ctrl+C. Every connection gets a
task `handle_client`: wait for a LOGIN line; under the write lock of `clients`
join the list and copy the history into the own queue; broadcast "joined"; start
the send task; receive lines and broadcast each; at the end of the input, or at
a wrong line, remove the own entry under the write lock, abort the send task,
broadcast "left". The send task takes the queue's lock in every turn and holds
it while it writes a message or, when there is none, for 100 ms.
`broadcast` holds the read lock of `clients` while it pushes the message onto
every queue and then the history.

*Hard.* Broadcasts run at once and wait in the middle for locks that other
tasks hold across awaits; clients come and go meanwhile; connections end at any
point; abort is asynchronous; peers stop reading; addresses are used as
identities.

*Correct means.* Nobody in the list misses a message, the history included, or
gets one twice; one author's messages keep their order; the list holds the
clients that are served; broadcasts end; what is queued is sent; the server
stops when told to and only then.

### Rust data packets (`server_rust/src/models`)

`DataPacket::assert` and `Message::assert` decide which parsed lines are
valid. The handler relies on them: it unwraps the login name and the message
with `?`, and an early return there would skip the removal.

### Kotlin server (`server_kotlin/src/main/kotlin`)

The same design with threads and no locks at all: an accept loop, a handler
thread and a send thread per client, and the thread of the Ctrl+C signal, share
`ArrayList`s and a `LinkedList` per client. `receive` takes whatever one `read`
returns for one packet, though the protocol ends packets with newlines (`README.md:19`). Hard: concurrent
modification of the lists, the gap between joining the list (`Server.kt:54`) and
copying the history (`:55`), exceptions that end innocent handlers. Correct
ought to mean what it means for the Rust server; what the code can keep of it
without locks is that every thread ends: broadcasts, handlers of lost peers, send
threads of closed sockets, the server at Ctrl+C.

### Python server (`server_python`)

An accept loop that waits for each nickname, one thread per client, and the
parallel lists `clients` and `nicknames`. It forwards bytes: no packets, no
history. Hard: indices used after the lists changed (`server.py:40-43`), sends to
dead clients that fail in someone else's thread (`:30`), end-of-input loops
(`:33`), shutdown that does not reach blocked threads (`:65`). Correct means
the lists stay paired and the handlers of lost peers end at shutdown.

### Flutter client (`client_flutter/lib`)

`data_service.dart` connects and sends packets with a newline; `home_page.dart`
keeps the chunks of the socket in `dataQueue` and puts packets together. Hard:
chunk boundaries anywhere, in the middle of a packet or of a character. Correct
means the messages shown are the lines sent, whatever the chunks.

### Python client (`client_python/test_client.py`)

A window thread and a receiving thread; both may run `stop`.

### C server, Go server

The C server checks its arguments (`lib/server.c:44-157`), makes a socket and
loops; it never binds or accepts. Correct means it goes on only with an address
and a port set and refuses no valid command line. The Go server is a stub.

### Windows runner (`client_flutter/windows/runner`)

*State.* One thread; the window object (`FlutterWindow` over `Win32Window`) with
its handle, child and controller; the window and its class as Windows knows
them; a count of windows; Flutter's engine and child window; the user's theme.

*Operations.* `wWinMain` converts the arguments, creates the window, sets Flutter
up in it and runs the message loop; the handlers resize the child, follow the
theme, show the window after the first frame and tear all of it down.

*Hard.* Calls inside calls: making, showing or destroying a window sends messages
to it before the call returns, and a handler destroys in turn. `Destroy` runs
from `WM_DESTROY`, from a destructor and from `Create`, one inside the other.
The first frame may come before or after its callback is set. The length of a
string is unsigned and 0 − 1 is asked for. Correct means no handler touches what
is dying, everything is destroyed once, the window is shown, the program ends
with it, and Dart gets the arguments.

### Linux runner (`client_flutter/linux`)

A `GtkApplication` whose virtual functions GLib calls in turn; the vector of
arguments is copied, passed to the view and freed in `dispose`, which GObject may
call more than once, and also when registration failed.

The runners for Android, iOS and macOS are what the Flutter tool generates.

### How they interact

Clients and servers share only the TCP byte stream: JSON packets ended by
newlines (`README.md:17-49`), LOGIN first, then MESSAGE both ways. The Python
pair speaks a protocol of its own, raw text.

The hazards of all parts, each at its line, are listed in `PROJECT.json`.

## 2. Modules

| module | what it is |
| --- | --- |
| `DataPacket` | which packets the Rust server takes for valid |
| `ChatRoom` | abstract specification: what any BeTalk server promises its members |
| `RustServer` | the Rust server, one action per step of a task |
| `RustServerProperties` | its invariants, refinement mapping, fairness and liveness |
| `MCRustServer` | instances for TLC |
| `FlutterClient` | how the Flutter client puts packets together from chunks |
| `ChatRoomProofs` | the chat room keeps its promises |
| `RustServerProofs` | types, the inductive invariant, who is in the list, the history's order, the lock's queue, and that the Rust server implements the chat room |
| `FlutterClientProofs` | what the Flutter client shows, and in which order |
| `KotlinServer` | the Kotlin server's threads and its list of clients |
| `PythonServer` | the Python server's threads and its two lists |
| `MCThreadServers` | instance of these two for TLC |
| `WindowsArguments` | UTF-16 command lines to Dart's arguments, as operators |
| `WindowsRunner` | the Windows program around the Flutter client |
| `WindowsRunnerProperties` | what it promises |
| `LinuxRunner` | the Linux program around the Flutter client |
| `CServer` | the C server |
| `MCStartup` | instance of the last five for TLC |
| `CServerProofs`, `LinuxRunnerProofs` | theorems about the two |
| `StartupProofs` | the Windows runner's promises, and all three in `MCStartup` |
| `PythonServerProofs` | the Python server's lists and their pairing |
| `ThreadServersProofs` | the Kotlin server's list, and both servers in `MCThreadServers` |

### RustServer and the code

A step is what a task does between two awaits at which it may really wait. The
lock of a client and the lock of the history are only ever held for code
without such a wait, so they do not appear. Two locks do:

* `clients` (the `RwLock` of the list). tokio's lock is fair: `waiting` is its
  queue of requests. A writer (`Register`, `RemoveClient`) holds it for one
  step, readers (`Readers`, the handlers in "push") through a broadcast.
* every queue's lock. `locked` is the set of those whose send task holds theirs:
  from `TakeMessage` or `Nap` to the end of the turn, or of the task; a push and
  the task's next turn wait for `QueueFree`. Handlers hold it for one step.

| variable | code |
| --- | --- |
| `server` | whether `run` is in its loop, left it at Ctrl+C, or returned an error |
| `pc[c]` | where `handle_client` is; "backlog" is before `accept` |
| `kind[c]`, `at[c]` | the message being broadcast and the place of the loop in `broadcast` |
| `posts[c]` | broadcasts finished; with the author it stands for a message's uuid |
| `clients`, `messages`, `queue` | the list, the history, `Client::messages` |
| `sender[c]`, `outgoing[c]` | where the send task is and the message it popped |
| `locked` | the clients whose `message_queue` guard (line 143) is alive |
| `sent[c]` | what was written to the socket |
| `net[c]`, `stalled` | what the peer did: open, shut, reset; reading or not |

| action | `server.rs` |
| --- | --- |
| `AcceptClient`, `AcceptFails`, `ClientSetupFails` | 49-87, and `Client::new` (`client.rs:24-36`) |
| `CtrlC` | 45-61 |
| `LoginAccepted`, `LoginRefused` | 89-113, with `receive` 221-240 |
| `Register` | 118-126 |
| `AcquireRead`, `PushNext`, `EndBroadcast` | 208-219, and what the caller does next |
| `ReceiveMessage`, `ReceiveOther` | 158-183 |
| `RemoveClient` | 186-196 |
| `TakeMessage`, `SendDone`, `SendFails`, `Nap`, `Wake` | 139-156, with `send` 242-254 |
| `Cancel` | the abort of line 196 taking effect |

The peers are not part of the server: `Connect`, `PeerShuts`, `PeerResets`,
`Stall` and `Resume` let them do what TCP allows. A new connection may use the
address of an old one once its peer has reset that one or the server has closed
it. A connection reset in the backlog may surface as an error of `accept` or
only in `Client::new`; the model allows both. A line that does not parse, a
packet that fails the checks and a packet of the wrong type have the same
effect, and are one case, "bad line"; the packets the handler goes on with are
those of `DataPacket` that pass the checks.

Definitions marked "a slip" are not part of the model: they are forms of the
definition next to them with a plausible mistake, and each breaks one of the
properties (`PROJECT.json`, "mutants").

### ChatRoom

The room knows no locks, tasks or sockets. `Enter` hands over the history,
`BeginPost`, `Deliver`, `EndPost` take a message to everybody present, and
nobody enters or leaves in the middle of a post. Posts of different authors
overlap, and the room does not promise that two members see them in the same
order: the code does not give it either. Its promises:

* `MembersMissNothing`: a member has every post there was, but those still on
  their way to it; `HistoryComplete`: the history has every finished post.
* `AuthorOrder`: nobody has a post twice, or two posts of an author swapped.

The Rust server implements it with this mapping (`RustServerProperties!Room`):
the members are the list, a member's view is what was sent to it, what its send
task holds and what is queued (`Stream`), a post is on its way while its
handler holds the read lock, and is due to the clients from place `at` on.

### FlutterClient and the code

One action, `Data(n)`, is the whole listener (`home_page.dart:29-32`) called with
the next `n` bytes: `Decodes` is `utf8.decode`, which throws on half a character
before anything is queued; `queuerProcessor` does `Turn`, one turn of the
do-while loop (41-81), as often as the queue has bytes (a turn that goes on
uses up a newline, and one that finds none or comes after an exception changes
nothing); `Gather` is the loop of 51-54 with its `removeAt`. Both loops are
recursive functions rather than folds: what the library knows of folds is
stated for an operator parameter and cannot be used in a proof. An exception
leaves the queue as it is at that moment and the stream goes on. A line is five bytes, enough to cut a
packet in its head, in a character, before its tail and before its newline.
The cut points lie in the text of the message, so that any head and any tail
together parse: JSON cut elsewhere would throw more often and show less.
`cut` is a history variable for the properties.

### KotlinServer and the code

A step is one read or one write of the list of clients, for no lock makes more
of it one. `ArrayList.add` reads and writes `modCount`, reads the array, reads the
size, stores the element and writes the size; a new list has an empty array, and
an add that read 0 copies it to a longer one first. `remove` reads the array and
the size and looks for the element, reads and writes `modCount`, reads the size
once more, shifts what is behind the element, writes the size less one and
clears the last place, which throws below 0. An iterator throws at an element
when the list's `modCount` is not the one it started with (`Throws`). So two adds
may leave one element, a remove may bring one back, a change of `modCount` may be
lost, and a size may fall below 0: the model has the outcomes `ArrayList`'s code
gives to these interleavings, `None` being the null such a race leaves in a place.
Two things are one step that in Java are several: `System.arraycopy`, and an
iterator's `hasNext` and `next` together. Reads and writes of memory are taken to
be in order.

| variable | code |
| --- | --- |
| `handler[c]`, `pos[c]` | where `handleClient` is; its index or iterator |
| `clients`, `arrays` | the `ArrayList`: its array, size and modCount; the arrays it had |
| `sender[c]` | the send thread |
| `signal` | the signal thread in `stop` |
| `open`, `peer[c]`, `stalled` | sockets not closed here; what the peer did |

| action | `Server.kt` |
| --- | --- |
| `Accept`, `Login`, `NoLogin`, `FirstThrows` | 31-52 |
| `Add` (nine steps), `CopyHistory`, `StartSender` | 54-71 |
| `ReceiveMessage`, `ReceiveBad`, `ReceiveNothing` | 73-94 |
| `Post`, `BroadcastNext`, `BroadcastReturns`, `BroadcastThrows` | 102-107 and what the caller does next |
| `Close`, `Remove` (twelve steps), `Left` | 96-98 |
| `Poll`, `Write`, `WriteThrows`, `SenderEnds` | 63-69, `send` |
| `Interrupt`, `StopNext`, `StopThrows`, `StopExits` | 138-141, `Main.kt:8-11` |

The history and the queues race too, but what they hold is not kept: while another
thread broadcasts, adding to the history (`Post`) and copying it (`CopyHistory`)
may throw. Only the loop catches exceptions and then removes the client; before and after
it an exception ends the thread where it is ("dead").

### PythonServer and the code

The interpreter's lock makes a list method a step. `main` is `receive`: accept,
nickname, the two appends, the joined broadcast, the thread. A handler goes round
`Loop`, `Receive`, `Find` (the index), `PrintNickname` (its use, at a list that
may have changed) and `Sends`; at an exception `Index`, `Close`, `Pop` and
`RemoveClient` are four steps. An exception of one client's socket is raised in
whatever thread sends to it. `overlapped` is a history variable: that two
removals were under way at once.

### The Windows runner and the code

`todo` is the thread's stack: the steps still to do, those of the innermost call
first. An action takes the first step and puts the steps it calls in its place;
so `DestroyWindow` becomes the messages Windows sends meanwhile (deactivation,
`WM_DESTROY`, `WM_NCDESTROY`) and what the code does afterwards, and
`WM_DESTROY` becomes another `Destroy`.

| action | code |
| --- | --- |
| `GetArguments`, `Construct`, `SetQuitOnClose`, `GetQuit`, `ReturnFromMain` | `main.cpp` |
| `GetWindowClass`, `CreateWindow`, `UpdateTheme`, `UnregisterIfLast` | `win32_window.cpp`, `Create`, the registrar, `UpdateTheme`, `Destroy` |
| `OnCreate`, `SetChildContent`, `SetNextFrameCallback`, `ForceRedraw`, `Show` | `flutter_window.cpp`, `OnCreate` |
| `OnDestroy`, `DeleteController`, `Deleted`, `DestroyWindow`, `ForgetHandle` | the two `OnDestroy`, `Destroy` |
| `DestructFlutterWindow`, `DestructWin32Window` | the destructors |
| `NcCreate`, `FlutterTakes`, `OnWmDestroy`, `OnDpiChanged`, `OnSize`, `OnColorChanged`, `OnOther`, `OnClose`, `OnNcDestroy` | `WndProc` and the two `MessageHandler` |
| `GetMessage`, `GetFrameTask` | the loop of `wWinMain` |
| `ChangeTheme`, `DrawFrame` | the user, Flutter's threads |

Windows and Flutter are external and modelled by what the code relies on.
`Utf8FromUtf16` is the computation with its two conversions: a string is one of
code units of four sorts, which covers one, two and four bytes and halves of
pairs; `UIntRange` is 2^32 in the program.

### The Linux runner, the C server and the code

One action per virtual function, or per outcome of one: `LocalCommandLine`,
`Register`, `RegisterFails`, `Activate`, `Shutdown`, `Dispose`, and the user's
`CloseWindow`. The C server has an action for each end of `check_args` and one
for `main`'s socket; a string is a sequence of characters, `verify_ip_form` the
count of dots and the test of the rest.

## 3. Runs

| run | instance | checks | states |
| --- | --- | --- | --- |
| `talk` | 2 clients, a text each, one leaves | `TypeOK`, `MembersMissNothing`, `AuthorOrder`, `JoinedFirstLeftLast` | 482,930 |
| `crowd` | 3 clients that join | `MembersMissNothing` | 791,988 |
| `members` | 2 clients that end in every way at any time | `ListedIffServed`, `ImplementsChatRoom` | 178,516 |
| `reading` | 2 clients, one stalls and resumes, leaves | `WaitsEndAtAPeer`, `BroadcastCompletes`, `GoneIsRemoved`, `QueuedIsSent` | 15,958 |
| `stalled` | the same, but it need not resume | `BroadcastCompletes` fails | |
| `reuse` | 2 connections from one address | `ConnectedIsListed` fails | |
| `setup` | a reset in the backlog | `StopsOnlyOnRequest` fails | |
| `chunks` | 4 packets, cut in every way | `LinesShown`, `ShownInOrder` | 19,997 |
| `pieces` | 3 packets | `ShownWasSent` fails | |
| `serving` | the Kotlin and the Python server, 2 clients each | `ThreadTypes`, `BroadcastEnds`, `GoneIsClosed`, `SenderStops`, `PythonNicknamesPair`, `PythonCloseEnds` | 72,170 |
| `interrupt` | the same | `InterruptEnds` fails | |
| `startup` | the Windows and the Linux runner, the C server | the 11 invariants of `MCStartup.cfg`, `WindowIsShown`, `ClosingEnds` | 51,277 |

*Bounds.* `MaxTexts` bounds the texts a client posts, and each connection is
made once. With "joined" and "left" every client posts up to three messages, so
one author's messages can overtake each other or be taken twice; two clients
make a broadcast meet a registration, a removal, another broadcast, a sending
and a sleeping send task; the third in `crowd` gives a broadcast two others to
visit while a third registers, so the place in the list and its change meet.
The runs use symmetry where the clients are interchangeable. `CONSTRAINT
Running` drops states of a server that has ended: `Next` has no step there.
Deadlock is not checked, for the server does end, at Ctrl+C, and a peer may
stay silent for ever; that tasks do not wait on each other is what
`WaitsEndAtAPeer`, `BroadcastCompletes` and `GoneIsRemoved` say.

In `chunks` four packets allow a lost one, one that is put together wrongly
because of it, and one after that; `pieces` needs three.

The last three runs put programs that share nothing side by side: `program` says
which one a behaviour is of, and the others stay in one of their initial states.

In `serving` two clients are enough for two adds, two removes, an add and a
remove, or a broadcast and either to overlap at every read and write, and for a
size of −1; how the bound goes on with more clients is proved. A behaviour of the
Kotlin server has either two clients or one and Ctrl+C: all together have more
states than liveness checking bears. With two, send threads find nothing to
write, one client's loop ends with its peer and the other's with a wrong packet
(`TwoMeet`); what a send thread does meets the list only through the socket's
being closed, and with one client its peer may stop reading, go or send anything,
while the iteration of `stop` meets the list's changes.

In `startup` the window has two sizes; the command lines are none, one with
characters of every length and an empty argument, and one that is not UTF-16;
`UIntRange` = 16 lets 0 − 1 become a length no string of the run has, `Plenty` =
12 is above the longest right one and below 15. The C server gets an empty
argument vector and every address
of up to 8 characters out of a digit, a dot and another, where `MaxLength` is 7
instead of 100: "1.1.1.1" is valid, one more is too long. `Disposals` = 2 frees
twice if anything does. Deadlock is not checked: these programs end.

*Fairness* (`FairSpec`). Every task that can go on does (weak fairness of the
handlers' and send tasks' steps): tokio schedules all ready tasks. A push that
finds its queue's lock free again and again gets it (strong fairness): the lock
is a fair tokio `RwLock`, and the send task, which takes it again at once, is
queued behind the push. A write that finds room in the socket again and again
completes (strong fairness of `SendDone`): the room does not vanish until it is
used. Peers and Ctrl+C owe nothing. `ReadingSpec` adds that a stalled peer
reads again some time; `stalled` shows that the liveness properties need it.

The threads of the Kotlin and the Python server run (weak fairness of each
thread's own steps). What a peer sends, when it goes, whether a poll of an
unsynchronised queue finds a message, and Ctrl+C are owed by nobody. The Windows
thread runs and Flutter draws (weak fairness); the task that shows the window,
once posted, is got from the message loop though other messages keep coming
(strong fairness): the queue of posted messages is first in, first out.

### What the passing runs show

* `talk`, `crowd`, `members`: with every interleaving of registrations,
  broadcasts, removals and send tasks nobody misses a message, gets one twice or
  sees one author's in another order; the list is that of the served clients,
  unless two share an address. `reading`: no circle of waits arises, and
  everything ends if stalled peers resume.
* `serving`: in the Kotlin server the unlocked list may lose clients and its size
  may fall below 0, and threads may die of its exceptions, but a broadcast ends, a lost peer of a served
  client has its socket closed and its handler ended, and a send thread ends
  with its socket. In the Python server the indices are right as long as no two
  removals overlap; with Ctrl+C the handlers of lost peers end.
* `startup`: the Windows runner's nested tear-down destroys the window once,
  deletes the controller once, and no handler reaches a controller being deleted
  or a child that is gone; the order of first frame and callback does not
  matter; the theme and the child's size are right whenever the thread waits.
  The Linux runner frees its arguments once, also when registration fails. The C
  server refuses no dotted quad, and goes on without an address only when its
  argument vector is empty.
* `chunks`: lines that come whole are shown, and in order.

### What the violations show

* `stalled`: a single client that stops reading stops the chat for all. Its
  send task holds the queue's lock while it writes (`server.rs:143-147`), a
  broadcast waits for that lock holding the list's (`:209-212`), and
  registrations and removals wait behind it. `server_trait.rs:55-57` describes
  `broadcast` as sending to all clients through their queues.
* `reuse`: the removal looks for an address (`server.rs:189`), not for the
  client. A peer reset before its login is handled may be back from the same
  port and registered first; then the old handler's removal takes the new
  client off the list, which stays connected and hears nothing.
* `setup`: an error of `Client::new` ends the server (`server.rs:72`, `:53`),
  where an error of `accept` is a warning (`:82`).
* `pieces`: `removeAt(i)` in a loop over `i` (`home_page.dart:51-54`) skips an
  entry. A packet in two pieces spans three entries, because the empty rest of
  the packet before it stays queued (the test at `:57` never holds). The call
  throws, the packet is lost, its beginning stays, and may be shown with the end
  of the next packet as one message, as in the run.

* `interrupt`: `stop` iterates over the list (`Server.kt:139`) that handlers
  change, those included which its own closing of sockets wakes. The exception
  ends the signal thread before the server's socket is closed and the process
  exits: Ctrl+C has no effect, where `README.md:65` asks for a graceful shutdown.

Reading the code for these modules showed some more, which the models contain
but no run is about:

* Linux: `use_header_bar` is never TRUE (`my_application.cc`, `activate`), so the
  header bar its comment describes is not used on any screen.
* Windows: a theme value missing in the registry leaves the frame as it is, where
  the comment at `win32_window.cpp:23-24` speaks of light mode. An argument that
  is not UTF-16 makes `utils.cpp:48` ask for 2^32 − 1 bytes: the result is
  the empty string `utils.h` promises only if there is that much memory. Where
  `Create` fails the program ends without `CoUninitialize`.
* C: a failed `socket` (−1) is taken for a success and descriptor 0 for a
  failure; "..." and numbers above 255 pass `verify_ip_form`; the address is
  never bound. With an empty argument vector (`argc` = 0) no branch of `check_args`
  is taken, and `init` prints two pointers that nobody has set (`server.c:32`):
  the program goes on or crashes (`NoArguments`).
* Python: where two removals overlap, a nickname of another client is popped.
  Ctrl+C does not end a handler whose peer stays and sends nothing, nor an accept
  loop that waits for a nickname.
* Flutter: a chunk that does not decode is lost, and complete packets behind one
  that throws wait for the next chunk. `ShownInOrder` holds in spite of both.

## 4. Proofs

Checked by TLAPS for every value of the constants that satisfies the named
assumptions. These say no more than what the code's surroundings give:

* `RustServer`, `PythonServer`, `ChatRoom`, `FlutterClient`: numbers that are
  numbers, distinct values for distinct things; there may be any number of clients
  and packets.
* `KotlinAssumption`: at most ten clients, for which an `ArrayList` grows from its
  empty array only (`KotlinAddFits`; its growing again under races is not modelled).
* `UIntAssumption`, `LinesAssumption`, `TakesAssumption` (Windows): strings up to
  `Plenty` can be allocated, which is less than an unsigned int and a
  `std::string` can count; a command line that could be split has the program in
  it, its arguments are sequences of code units, and those that are UTF-16 need
  no more than `Plenty` bytes (Windows limits a command line to 32,767 units);
  Flutter takes for itself none of the messages the code relies on.
* `CAssumption`: digits, the dot and other characters are distinct; command lines
  are sequences of strings, the empty one included.

### The Rust server and the chat room

* `RustServerProofs!TypeCorrect`: `Spec => []TypeOK`. Besides shapes `TypeOK` says
  that a broadcast's place is in the list or just past its end, which needs
  `ServerInv`: the list gets shorter only while no handler is in "push".
* `RustServerProofs!ServerInvariant`: the inductive invariant `ServerInv`. The
  type invariant is not enough for what follows: one needs that no entry is
  twice in the list (else a broadcast would push twice), that a handler which
  has not registered has an empty queue and nothing sent (so registering is
  handing over exactly the history), that a broadcast starts at place 1, that
  the send task holds a message only while it writes or after it ended (so
  taking the next one loses none).
* `RustServerProofs!ListedExactlyWhileServed`: `ListedIffServed`, if no two
  connections share an address (`OwnAddresses`). The run `reuse` shows that the
  hypothesis is needed. `ConnectedIsListedIfOwn`: hence what `reuse` refutes.
* `RustServerProofs!JoinedThenLeft`: `JoinedFirstLeftLast`. The order of two
  entries follows from where their handler is when the second is appended:
  `HistoryInv` adds to `ServerInv` that a handler still before the end of its
  "joined" broadcast has nothing in the history, and that one whose "left" is
  there has returned. Shared addresses are allowed.
* `RustServerProofs!ServerImplementsChatRoom`: `Spec =>
  ImplementsChatRoom`. Register is `Enter`, RemoveClient is `Leave` or, when no
  entry has the address, a stutter, the three steps of a broadcast are
  `BeginPost`, `Deliver`, `EndPost`, everything else stutters. The write lock
  gives the room its quiet: no handler is in "push". Shared addresses are
  allowed here.
* `RustServerProofs!NobodyWaitsInACircle`: `WaitsEndAtAPeer`, the safe half of
  `BroadcastCompletes`, for any number of clients. `LockInv` says that the lock's
  queue holds exactly the handlers that wait for the lock, each once. So the
  first in it is one that waits, and gets the lock unless a broadcast has it.
  `HeldByTask` says that a queue's lock is held exactly while the send task writes
  or sleeps: no turn and no task ends with it kept. And by `ServerInv` such a
  task has a connection, whose end or whose reading lets it go. That each step
  which can be taken is taken some time is fairness, and stays with `reading`.
* `ChatRoomProofs!RoomKeepsItsPromises`: the room's promises, from an
  invariant that adds that a post on its way is its author's newest and is due
  to members only.
* `RustServerProofs!NothingIsMissed`, `NothingIsSwapped`: hence
  `MembersMissNothing` and `AuthorOrder` of the Rust server. `ChatRoomProofs`
  is instantiated with the refinement mapping, and its lemmas about single
  steps are used for the steps `StepSimulates` gives.

### The Kotlin and the Python server

* `ThreadServersProofs!KotlinListKeepsItsSize`: the size of the unlocked list of n
  clients stays at n or below and, if not 0, above −n, which is the hard part of its
  `TypeOK`. A size is stored from a read that may be old, so the bound does not
  follow from the list as it is. `KotlinInv` compares the size, and each size about
  to be stored, with two numbers that only grow: of the handlers that have stored
  a size in add (`Added`) and in remove (`Removed`). A thread reads the size before
  it is one of them itself, and stores it when it becomes one. The lower bound is
  above −n because whoever removes has added before.
* `ThreadServersProofs!KotlinAddFits`: from the same invariant, an add stores
  within the array.
* `PythonServerProofs!PythonLists`, `PythonTypes`: `ListInv` says who is in
  `clients`: nobody twice, everybody whose thread has begun and has not removed
  itself. So `clients.index` and `clients.remove` find whom they look for.
* `PythonServerProofs!PythonPairs`: `NicknamesPair`. While no two removals have
  overlapped, the one that removes has its own place for an index, and the
  nicknames are those of the list less the one that has popped its own, plus
  the newcomer's (`Alone`, `Placed`, `Pairs`). The last takes in that Ctrl+C may
  end the main thread between the two appends.
* `ThreadServersProofs!ThreadServersTypes`, `ThreadServersPair`: the same of the
  composition that the run `serving` checks.

### The Windows and the Linux runner, the C server

* `StartupProofs!WindowsHandlers`, `WindowsDestroysOnce`, `WindowsCom`,
  `WindowsChildFits`, `WindowsThemeFollows`, `WindowsArgumentsArrive`,
  `WindowsTypes`: all invariants of the Windows runner. Their inductive
  invariant says, for every stack the thread may have, what is there: `Place`
  has one disjunct for the start, the message loop, the way out when the window
  is closed, the way out when Flutter could not be set up, and the end. Each
  relates the stack to the object, the window, the child, the registrar's count
  and COM. That no handler meets the dying and nothing is destroyed twice can
  be read off it. The stacks are written as one step on another stack
  (`DoDestroy(rest)`, ...), so a step of the program moves between named
  stacks and lemmas say what each call leaves on top. Besides `Place`: the task
  that shows the window is posted only if Flutter's window is there
  (`TaskHasView`), a window is shown only in the loop, a notice is only pending
  for a window, and child and frame are right or the message that will set them
  right is on the stack (`Fits`, `Themes`).
* Of the arguments it is proved what the two conversions give for a sequence of
  any length. That is a fact about data: `FlattenSeq` is a recursive function,
  and the principle of induction cannot be instantiated here. The lemmas take
  the least counterexample instead (`LeastExists`, from the well-foundedness of
  < on the natural numbers): `RowsExist` and `FlattenIsSequence` give that
  flattening sequences of bytes is a sequence of bytes, `EncodingIsBytes`
  that an encoding is one, and `ConversionOf` computes `Utf8FromUtf16`, the
  unsigned 0 − 1 included.
* `CServerProofs!CServerAcceptsTheValid`: for any command lines, the empty one
  included, and any length limit, types, `AddressIsSet` (which says both what
  happens with arguments and what without) and `ValidIsAccepted`. The lemma `DottedQuadPasses`
  counts: three dots at the places of a dotted quad are a set of cardinality 3,
  so `verify_ip_form` agrees, and no refusing branch of `check_args` is left for a
  valid line.
* `LinuxRunnerProofs!LinuxRunnerTypes`: its types, for which the vector without the
  program's name must be one of strings again.
* `LinuxRunnerProofs!LinuxRunnerPassesAndFrees`: for any command line and any
  number of disposals `ViewGetsArguments` and `FreedOnce`. The invariant says at
  which places the program owns the vector, and that after the first disposal
  the pointer is null.
* `StartupProofs!LinuxArgumentsArrive`, `LinuxFreesOnce`, `CAddressArrives`,
  `CAcceptsTheValid`, `StartupTypes`: these carried over to the composition that
  the run `startup` checks, whose instances fix the command lines. The general
  theorems are those of the two modules above.

### The Flutter client

For any number of packets, cut into chunks in any way:

* `FlutterClientProofs!PacketsShownInOrder`: `ShownInOrder`. The place of a
  byte in the stream (`Place`) orders bytes. `OrderInv` says that places grow
  inside every entry of the queue and from entry to entry, that what begins a
  message shown is a head and comes before all that is queued, that these heads
  are in order, and that nothing is from beyond the bytes received. It holds
  though `removeAt` skips entries, for a queue with entries removed is still in
  order, and though packets get lost, for a chunk that does not decode leaves a
  gap and no disorder. The hard step is a turn (`TurnKeepsOrder`): what it takes
  lies before what it leaves, which needs to be known of all that `Gather` took,
  exceptions included.
* `FlutterClientProofs!PacketsAllShown`: `LinesShown`. It says of the queue only
  what its bytes are together; `WholeInv` adds that they are one entry. That is
  what keeps `removeAt` from harm: a chunk that ends a packet makes it two, so at
  most one entry is before the newline's (`GatherShort`), and nothing is skipped.
  From then on each turn takes the next line off the one entry that is left
  (`TurnTakesLine`, `TurnsTakeLines`) until less than a line is there.
  Entries and packets are compared as pieces of the stream (`Window`).
* `FlutterClientProofs!WholePacketsShownAsSent`: hence what `pieces` refutes
  holds while every chunk ends some packet.

The loops are recursive functions of the number of turns, and what they compute
is proved by the least counterexample, as for the arguments of the Windows
runner above.

### Only model-checked

* Liveness (`BroadcastCompletes`, `GoneIsRemoved`, `QueuedIsSent`, `BroadcastEnds`,
  `GoneIsClosed`, `SenderStops`, `PythonCloseEnds`, `WindowIsShown`,
  `ClosingEnds`): it rests on fairness and ENABLED, which are out of the
  prover's reach.
* The violations, which are counterexamples.

## 5. What is not modelled

In the Rust server: binding the port, logging, the JSON text, ids and times,
the contents of messages (a message is its author, number and kind). A
partially written line is one that was not written. Task panics: the code has
none to reach.

In the Kotlin server: what the history and the queues hold (a poll finds a
message or nothing, for unsynchronised lists may lose either), the growth of
the list's array beyond ten clients, errors of accept, packets cut by TCP (`receive` takes a read
for a packet, and so does the model). In the Python server: peers that stop
reading, Ctrl+C after the main thread has ended. In the Windows runner: the
console, scaling factors, keyboard and plugins, and a `CreateWindow` that fails
after `WM_NCCREATE`, when the handle is stored already (`win32_window.cpp:168`): the
handlers leave that message and `WM_CREATE` to Windows' own, so only a failure
inside Windows could do it.

Not modelled at all, with the reasons in `PROJECT.json`: the command lines of the
servers in Rust, Kotlin and Go, the Kotlin data packages and logger, the Go stub,
the user interface of the Flutter client and its connecting and sending, the
Python client, and the runners generated for Android, iOS and macOS. The bytes
between server and client are in the plan.

## 6. Plan

What is left, in this order:

1. The composition of `RustServer` and `FlutterClient`: what the server `sent`,
   through chunks, into a client's messages; the Kotlin `receive` on chunks cut
   as in `FlutterClient`.
2. The contents of the Kotlin server's queues, as far as a promise about them can
   hold: one author's messages in order where none is lost.
3. The sending side of the Flutter client (`data_service.dart`).
