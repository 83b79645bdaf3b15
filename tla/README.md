# Verification of the IRC servers of this repository

The repository holds one IRC server written for the 42 school subject
(`ann/srcs`, C++98, one thread, one `poll()`), an empty start of a rewrite
(`General_server`), notes (`docs`), and under `project` servers of other
students for the same subject, kept for comparison. This directory holds TLA+
models of the server and of four of the peers' servers, TLC configurations that
check them on small instances, and proofs, checked by TLAPS, of the invariants
that matter most.

    tlc -workers 2 -config Members.cfg MCChannels      # check one configuration
    tlapm ChannelsProofs.tla                           # check one module of proofs

`PROJECT.json` lists the components, the runs, the lines each definition
translates, a mutant of the code that breaks each property, the hazards of the
code and the findings.


## 1. The systems

### 1.1 `ann/srcs`: components

| Component | State | Operations |
|---|---|---|
| Loop (`Server.cpp`) | `polls` (vector of `pollfd`), `clis` (map fd -> `Cli*`), `fdsToEraseNextIteration`, `cli` (author of the current command) | `run`, `addNewClient`, `receiveBufAndExecCmds`, `eraseUnusedClis`, `eraseUnusedChs`, `markPollsToSendMsgsTo` |
| Output (`utils.cpp`) | `bufToSend` of each `Cli`, `events` of its `pollfd` | `prepareResp`, `prepareRespExceptAuthor`, `prepareRespAuthorIncluding`, `sendPreparedResps` |
| Framing (`utils.cpp`) | `bufRecv` of each `Cli` | `splitBufToCmds`, `splitCmdToArgs`, `splitArgToSubargs`, `toLower` |
| Registration (`Commands.cpp`) | `nick`, `uName`, `rName`, `passOk`, `capInProgress` of each `Cli` | PASS, NICK, USER, CAP, QUIT, PING, WHOIS, MODE on a nickname |
| Channels (`Commands.cpp`, `utils.cpp`) | `chs` (map name -> `Ch*`), of each `Ch` its `clis`, `adms` (sets of `Cli*`), `topic`, `pass`, `limit`, `optI`, `optT`; `invits` of each `Cli` | JOIN, PART, KICK, INVITE, TOPIC, MODE on a channel, PRIVMSG, NOTICE, `eraseCliFromCh`, `getCh`, `getCli`, `getCliOnCh`, `getAdmOnCh` |
| Start and stop (`main.cpp`, `Server.cpp`) | `fdForNewClis`, `sigReceived` | `main`, `init`, `sigHandler`, `~Server` |
| Texts (`utils.cpp`) | none | `mode`, `users`, `infoCmd`, `infoServ`, `withoutRN` |

### 1.2 `ann/srcs`: how they interact

There is one thread. `run` repeats a pass: delete the marked clients whose
output is flushed, delete the empty channels, set `POLLOUT` where output
waits, `poll()` for at most 100 ms, then visit the ready descriptors in the
order of `polls`. A visit accepts one client (and ends the pass), or reads one
buffer and executes every command in it, or writes as much as `send()` takes.

All interaction is through shared state. A command writes into the `bufToSend`
of other clients, and the loop later drains it. A command, or a `recv()` that
returns 0, marks a client in `fdsToEraseNextIteration`; the top of a later pass
deletes it, and takes it off every channel. The sets of a channel hold raw
`Cli*`; nothing but `eraseCliFromCh`, which works by nickname, empties them.

### 1.3 `ann/srcs`: what is hard

There are no threads, so no data races. What makes the code hard is:

* **Deferred deletion.** Between the mark and the deletion the client is
  visible to every look-up, gets messages, keeps its nickname, and the rest of
  its buffer is executed. The kernel gives a closed descriptor to the next
  `accept()`, so anything that outlives the client lands on a stranger.
* **Two look-ups.** `getCh` ignores case and `chs[name]` does not; where they
  disagree `chs[name]` inserts a null pointer. `getCli` and its kin go by
  nickname, `clis` by descriptor.
* **Walks over lists.** JOIN, PART, KICK and MODE check once and then change
  the state element by element, with the checks going stale on the way.
* **Input against output.** A client with output queued is waited on for
  `POLLOUT` only, a pass ends at the first `accept()`, and `send()` may take
  part of a buffer or fail.
* **Order of registration.** PASS, NICK, USER, CAP LS and CAP END come in any
  order and the welcome is sent by whichever is last.


### 1.4 The peers' servers

They are programs of their own, for the same subject, and share no code. Each
has one thread and one `poll()`; each keeps who is on which channel in another
way, and there each has its difficulties.

| Server | State | Operations |
|---|---|---|
| `boris` (`srcs`) | `_clientMap` (fd -> `Client*`, the server's own among them), `_channelCollection`, of each `Channel` its members, and lists of operators, speakers (addresses of clients) and ban masks; `_status`, `_lastping` of each client | PASS, NICK, USER, OPER, MODE, JOIN, PART, KICK, INVITE, TOPIC, QUIT, RESTART, `checkClients` (PING on silence), `run`, SIGINT |
| `AhmedFatir` (`SRC`, `CMD`) | vectors of `Client` and of `Channel`; a channel has vectors of *copies* of its clients and operators | PASS, NICK, USER, JOIN, PART, KICK, INVITE, MODE, TOPIC, QUIT, `removeClient`, hang-up, SIGINT and SIGQUIT |
| `mariia` (`sources`) | maps `clients` (fd), `users` (nicknames), `channels`; of each channel sets of descriptors, of each client the list of its channels' names | PASS, NICK, USER, AWAY, JOIN, PART, KICK, INVITE, MODE, TOPIC, QUIT, `removeClient`, hang-up |
| ShibRC (`alexandre_hallaine`) | map of `User*` by descriptor, of each its status (`CAPLS`, `PASSWORD`, `REGISTER`, `ONLINE`, `DELETE`) and its queue of commands; map of channels, of each the members and the mode of each user by descriptor, and invitations by address | CAP, PASS, NICK, USER, OPER, KILL, JOIN, PART, KICK, INVITE, MODE, WHO, QUIT, `acceptUser`, `sendPing`, `receive`, `dispatch`, `delUser`, SIGINT |

What is hard in them:

* **boris**: a deleted client leaves its address in the lists of operators and
  speakers, and `new Client()` may get that address again; one signed number
  says both how long a client has been silent and whether it was asked; RESTART
  empties everything and starts the loop again, and SIGINT may come meanwhile;
  the sockets of the clients block, so the one thread waits in `send()` for a
  client that does not read.
* **AhmedFatir**: NICK changes a client and none of its copies, and the code
  finds a copy now by nickname and now by descriptor; NICK gives out a
  placeholder when a nickname is taken, from which the login must still finish.
* **mariia**: membership is kept twice, the set in the channel and the list in
  the client, one in lower case and one as given; descriptors stay in the sets
  of operators and invited unless each departure cleans them.
* **ShibRC**: the commands wait for the stage of the login that admits them,
  and `dispatch` writes the status back after a command may have changed it; a
  pass may mark a client that still has its turn in the same pass.

### 1.5 What correctness means, component by component

* *Registration* (`ann`): nicknames unique whatever the case (`NickUnique`);
  the welcome is sent in every order of the commands (`WelcomeSent`); a client
  with a wrong password does not stay (`WrongPassDropped`).
* *Channels* (`ann`): no dangling `Cli*` (`RoomsSpec`, `ToLiveClients`),
  operators are members (`OpsAreMembers`), a channel that is not empty is not
  left without an operator by a departure (`LeavesOperator`), names unique
  whatever the case (`ChNamesCaseUnique`), who joins gave the key, fits the limit
  and used up an invitation where these are asked for (`JoinsWithinModes`), the
  modes are changed by the right people only
  (`ModesByOperator`), a channel message comes from a member and reaches every
  other (`ChannelTalk`), nobody is on more channels than the limit
  (`ChannelLimit`), and no null pointer is followed (`NoCrash`) as long as
  clients are careful: they spell a channel as it was opened, PART and KICK from
  one at a time, and `JOIN 0` from one only (`Careful`).
* *Loop and output* (`ann`): `polls` and `clis` agree (`PollsMatchClis`), marks
  do not outlive the client (`MarkedAreClis`), output is in order and complete
  (`InOrder`, `FlushedWhenClosed`), a client that goes away is deleted
  (`GoneIsClosed`, `MarkedIsClosed`) and one that speaks is heard
  (`InputIsRead`).
* *The life of a client*, across the components of `ann`: `Lifecycle`.
* *Channels of `ann`, boris, mariia and ShibRC*: `Membership`. Somebody comes on
  a channel only while connected, and who disconnects is off every channel in
  that step, and in `ann` nobody else is.
* *boris*: nicknames unique, also against the server's own (`NickUnique`); a
  client that stays silent is dropped (`SilentLeaves`), as long as every
  `send()` ends.
* *AhmedFatir*: nicknames unique but for the placeholder (`NickUnique`); the
  login is complete exactly when its three parts are (`LoginComplete`); what a
  nickname means on a channel is unambiguous (`CopiesDiffer`).
* *mariia*: a descriptor used again inherits nothing (`NothingInherited`), no
  channel is over its limit (`WithinLimit`), and in the step in which a client quits
  or hangs up everybody on a channel with it is told (`QuitReachesAll`).
* *ShibRC*: nobody has the status of a client past the password, or has commands
  executed as those of the stage after it, who has not given it since it last
  asked to log in (`LoginProved`).

The hazards are listed one by one, at their lines, in `PROJECT.json`, with the
properties that would catch each.


## 2. The modules

    Lifecycle            abstract: what the loop of ann promises about the life of a client
       ^      ^
       |      +---- EventLoop    pollfds, buffers, sockets      (MCEventLoop, EventLoopProofs)
       |
    Clients              registration and the life of a client  (MCClients, ClientsProofs)
       ^
       |
    Channels             EXTENDS Clients                         (MCChannels, ChannelsProofs)
       |
       v
    Membership           abstract: who is on a channel is connected
       ^     ^     ^
       |     |     +---- ShibRC    project/alexandre_hallaine       (MCShibRC, ShibRCProofs)
       |     +---------- Mariia    project/mariia                   (MCMariia, MariiaProofs)
       +---------------- Boris     project/boris                    (MCBoris, BorisProofs)

    Ahmed                project/AhmedFatir                           (MCAhmed, AhmedProofs)

    ListLemmas           lemmas on numbers and sequences, for AhmedProofs and MariiaProofs

**`Lifecycle`** is the contract between the two halves: which clients are
connected and marked, and who is being served. `Clients` implements it with every
command of registration and no buffers; `EventLoop` with the buffers and sockets
and no commands. `Clients` may therefore treat the top of the loop as "some of
the marked clients are deleted": that a marked client is never served again
once the pass is over is checked in `EventLoop`, where it follows from a marked
client being either flushed, hence deleted at the next top, or not flushed,
hence waited on for `POLLOUT` and not read.

**`Clients`**: one action per handler (`execPass`, `execNick`, `execUser`,
`execCap`, `execQuit`, `execModeCli`, `execInfo` for PING, WHOIS and what only
answers), one per operation of the loop (`addNewClient`, `receiveBuf`, `hangUp`,
`endPass`, `eraseUnusedCli`, `startPass`). `receiveBuf(c)` makes `c` the author;
any number of commands follow, as a buffer holds any number.
`gavePass` and `welcomed` are history variables.

**`Channels`** adds the channels and their handlers. A command that walks a list
is a first step, its checks, and one step per element (`joinOne`, `partOne`,
`kickChannel`, `kickOne`, `modeOne`), with `ar`, `todo`, `vals` holding what is
left; nothing else can step in between. These steps are not an interleaving:
they let invariants be checked, and proved, between two elements, where a stale
check shows. The phase `"crashed"` is the death of the process where the code
dereferences the null entry that `chs[name]` made, or the null that `getCh`
returned.

**`EventLoop`** is `run` step by step, one visit of a pollfd at a time, with
the kernel and the clients as the environment: connections that wait or are
aborted, input, close, reset, a send buffer with room or without. Output is
units numbered per client, so that loss, repetition and reordering are visible.


**`Membership`** has two variables, who is connected and who is on each channel,
and four actions: `Connect`, `Disconnect` of a set of clients, `Enter` of one,
`Leave` of any. `Channels`, `Boris`, `Mariia` and `ShibRC` are shown to
implement it with their connected clients and their sets of members; each is
shown as well to have its invariant `Inside`, that no channel has a member that
is gone (in `Channels` it is `MembersLive`).
`Ahmed` does not implement it: its channels keep copies of whoever left.

**`Boris`** names a client by its *address*, since that is what channels keep;
`oper[a]` and `speaker[a]` count how often address `a` is in the list, and
outlive the client at it. `phase` is where `Server::run` is: in the loop,
restarting, down, or in a `send()` that waits for a client of `Slow`, a constant, to
read (`Blocks`, `Unblocks`). The age of a client's last sign of life is `idle`, in the
three ranges that `checkClients` tells apart, and `asked` is the sign of
`_lastping`. A `QUIT`, a hang-up and a timeout are one action, `Quit`, as
they are one function in the code. `Undefined` is the use of freed memory and
the endless walk that KICK can get into.

**`Ahmed`** keeps vectors as sequences, because what is found is the first
match and because erasing moves the rest. `byFd` and `byNick` are the two
ways the code finds a copy; each action uses the one its handler uses.
`Kick` includes the erasure of a channel by its place in the command's list.

**`Mariia`** keeps both records of membership: `ch[n].members`, by the name in
lower case, and `cl[c].channels`, the vector of the names as given. A client that quits
is marked and closed when it can next be written to (`Close`); one that hangs up
is forgotten at once (`Hangup`), its descriptor never closed. `turn` is who
quit in the input being processed: the rest of that input is still executed.
`told` is a history variable, those who were sent the notice of a QUIT in the last
step: `processQuit` sends it, and the code calls that for a QUIT and for a hang-up.

**`ShibRC`** is the loop, pass by pass: accept, or look for the silent, or read
each readable client once; `endPass` deletes the marked. `cur` and `last` are the
client being dispatched and the status `dispatch` began with, which it later
compares and overwrites. The queue of a client is left out: a client may send
anything at any time, so each dispatch executes any number of the commands its
stage admits. `proved` is a history variable, who gave the password since they
last asked to log in.

### 2.1 State and code

For `ann`:

| Variable | Code |
|---|---|
| `clis`, `fdsToErase`, `cli` | `Server::clis` (its keys), `fdsToEraseNextIteration`, `Server::cli`; in `EventLoop`, `cli` is the client read last in this pass and `None` between passes |
| `passOk`, `capInProgress`, `uName` | the clients whose field is true, or not empty |
| `nick`, `invits` | `Cli::nick`, `Cli::invits` |
| `chs`, `ch` | the keys of map `chs`, and what the pointer leads to |
| `ar`, `todo`, `vals` | `Server::ar`, and the iterators of the loops of the handlers |
| `resp` | the messages the last step gave to `prepareResp` and its kin |
| `polls`, `i` | `Server::polls`, the iterator of `run` (0 outside the loop) |
| `bufToSend` | `Cli::bufToSend`, in units |
| `peer`, `inbox`, `room`, `backlog` | the kernel |

For the peers' servers:

| Variable | Code |
|---|---|
| `Boris`: `on`, `cl`, `ch`, `status`, `phase` | the keys of `Server::_clientMap`, the `Client` and `Channel` objects, `Server::_status`, the place in `Server::run` |
| `Ahmed`: `clients`, `cl`, `channels`, `up` | `Server::clients`, `Server::channels`, whether the process runs |
| `Mariia`: `clients`, `open`, `users`, `ch` | the maps `clients`, `users`, `channels`; the descriptors not closed |
| `ShibRC`: `cl`, `ch`, `nickChannel` | the maps of users and of channels, and whether INVITE has made a channel named by a nickname |
| `ShibRC`: `todo`, `cur`, `last`, `up` | the rest of the loop over `pfds`, the user being dispatched, `last_status`, the process |

### 2.2 Abstractions

* A command is the sequence of words `splitCmdToArgs` returns, so `ar[0]` is
  `a[1]`. `lower`, `sub`, `atoi` are the functions `toLower`,
  `splitArgToSubargs`, `atoi` over the words of an instance (`atoi` with its 32
  bits: 2^32+1 is 1). `NickName` and `ChName` are the words the character tests
  of `execNick` and `execJoin` accept.
* A `Cli` is named by its descriptor: the two are made and dropped together.
* All numerics that only refuse are one message `"error"`, all that inform one
  `"reply"`; RPL_WELCOME (`"001"`), RPL_NAMREPLY (`"353"`) and relayed commands keep
  their identity. A message records who it is for, its command, its prefix and
  its subject; the text is left out.
* "The first of a `set<Cli*>`" (the member promoted to operator) is any member:
  the order of pointers is the allocator's.
* In `Clients` a pass may visit the clients in any order and one of them again
  after another; in `EventLoop` the order is that of `polls`. The first allows
  every behaviour of the second.
* In `EventLoop` a read buffer may queue one unit for any set of clients and
  may mark its author, which covers what any sequence of commands does to the
  loop, up to the bound on the units.
* In `EventLoop` the top of a pass deletes one marked and flushed client at a
  time (`eraseUnusedCli`), keeping the order of the pollfds that stay, and goes on
  to `markPollsToSendMsgsTo` when none is left. That sets every `revents` to "":
  they are not read before `poll()` overwrites them.
* The states of a connection follow Linux: a reset is reported by the
  first failing call; afterwards `recv()` gives 0 and `send()` gives -1, also
  for no bytes. The output that a failed `send()` throws away is taken out of both
  histories, `made` and `seen`: `InOrder` and `FlushedWhenClosed` do not count it.
* `JOIN 0` hands PART the list of the author's channels; when there are
  several, the word "0" stands for the joined list, which names no channel
  either.
* In the peers' modules a list of JOIN or PART is that many commands, and so is
  a string of mode letters, where the elements do not act on each other through
  what the handler remembers; where they do (KICK of boris, MODE of AhmedFatir
  and mariia) the list is kept. A refused command changes nothing and is no step,
  except in `Boris`, where it is a sign of life (`Answer`).
* Memory: an address may be given out again in any order (`Boris`, `ShibRC`).
  In `ann`, where a read through a null pointer ends the process, so does the
  model.


## 3. What the runs check

Each property has in `PROJECT.json` a mutant, a plausible bug in a mapped
definition, under which TLC finds it violated in the same run.

| Run | Instance | Shows |
|---|---|---|
| `Registration` | 2 descriptors, nicknames al, AL, bo, 21 commands | `CliTypeOK`, `NickUnique`, `WelcomeSent`, `WrongPassDropped`, and that registration implements `Lifecycle` |
| `Members` | 3 descriptors, 1 channel, every way on and off it, PRIVMSG, NOTICE | `ToLiveClients`, `LeavesOperator`, `ChannelTalk`, that the channels implement `Membership`, and `NoCrash`, the clients being `Careful` (`MCChannels` asserts it) |
| `Modes` | 2 descriptors, modes i t k l o, the right key and a wrong one, in commands of several options, INVITE, TOPIC, lists of channels that exceed the limit of 1, a name in another case | `TypeOK`, `OpsAreMembers`, `ChNamesCaseUnique`, `JoinsWithinModes`, `ModesByOperator` |
| `Loop` | 2 descriptors, 2 units of output | `EvTypeOK`, `PollsMatchClis`, `MarkedAreClis`, `InOrder`, `FlushedWhenClosed`, and that the loop implements `Lifecycle` |
| `LoopLive` | 2 descriptors, 1 unit | `GoneIsClosed`, `InputIsRead`, `MarkedIsClosed` |
| `Boris` | 2 addresses, nicknames al, bo and the server's own in another case, 1 channel with its modes, lists and invitations | `TypeOK`, `NickUnique`, and that boris implements `Membership` |
| `BorisIdle` | 2 clients, no channel, an operator who restarts, SIGINT, time, clients that do not read | `SilentLeaves` |
| `Ahmed` | 2 descriptors, 2 nicknames, 2 channels, 2 the most per client | `TypeOK`, `NickUnique`, `LoginComplete`, `CopiesDiffer` |
| `Mariia` | 2 descriptors, 1 channel under 2 spellings, mode strings | `TypeOK`, `NothingInherited`, `WithinLimit`, `QuitReachesAll`, and that mariia implements `Membership` |
| `ShibRC` | 2 descriptors, 2 addresses, a password, 1 channel | `TypeOK`, `LoginProved`, and that ShibRC implements `Membership` |
| `PartList`, `LoopReset` | the smallest instance that shows it | violations, section 3.3 |

### 3.1 Bounds

*Clients.* Two are enough for the nickname and buffer properties, which relate
two clients; a third is there in `Members` because an operator, the one it
removes and the one who inherits the channel must be able to be three people.
Descriptors, and in `Boris` and `ShibRC` addresses, are used again, so the
successor of a deleted client is always met.

*Channels.* One channel is enough where a property speaks of one channel. `Ahmed`
has two, for the limit of channels and for KICK's erasure of the wrong one;
`Mariia` has one under two spellings, since its two records of membership differ
in the spelling. In `Modes` the limit of channels is 1, so that a list of two
meets it half-way.

*Numbers.* `MaxLimit = 9` stands for 2^32-1, `UMAX = 4` likewise: what matters
is that it is above every number of clients; +l in `Boris` gets 1 and -1, and -1
wraps around. `MaxOut = 2` is the least with which a short write leaves
something behind; units are numbered modulo `MaxOut + 1`, so a queue never holds
a number twice and a lost or repeated unit shows. `MaxIn = 1` is one unread
buffer: several behave as one visited several times. `MaxConn = 1`: a waiting
connection either exists or not. `MaxIdle = 2` is all that `checkClients`
distinguishes. `Slow`, the clients that may stop reading, is both in
`BorisIdle`; it is empty in `Boris`, whose properties are of the state, which a
`send()` leaves alone. `MaxOpers = 2`: one address twice in the list of
operators, which is where taking one entry off is not enough. `MaxEntries`,
`MaxInvites`, `MaxInvited` are 1: an entry is there or not, and it outlives its
client either way; what a second entry adds, `MaxOpers` shows. `MaxModes = 2` is
a mode with a letter set and one to set. `MAX_CHANNELS` and `MAXCHANNELS` are
constants of the code, 10 and 9, made small enough to be reached.

The command sets contain, for each handler in the run, its success and each
early return that the run's properties can tell apart.

*Symmetry.* Descriptors, addresses and nicknames are symmetric in safety runs
that compare them for equality only. In `Mariia` descriptors are numbers, because
the code takes the smallest. There is no symmetry in `LoopLive` and `BorisIdle`.

*Deadlock.* `Modes`, `Boris`, `BorisIdle`, `Ahmed`, `Mariia` and `ShibRC` do not
look for deadlocks: there the process may end, by a signal or by following a
null pointer (in `Mariia`, when every descriptor has leaked), and then really
stops. Everywhere else a deadlock is an error. That a `send()` of boris may never
end is no deadlock of the model, where `Unblocks` stays possible.

### 3.2 Fairness

`EventLoop` assumes `WF_vars(Loop)`: the single thread never waits for anything
but `poll()`, and that for 100 ms at most. Nothing is assumed of the clients in
the specification. The liveness properties carry what they need of the others
as hypotheses, and each hypothesis is a weakness of the code, since the property is
false without it:

* `NoPressure`: connections stop waiting at some time. A pass that begins with
  an `accept()` ends with it, so a stream of connections starves everyone, and
  so does a single connection that waits when no descriptor is left.
* `Reads(f)`: the client reads what it is sent, or its connection breaks. A client
  with output is not read.
* `Quiet(f)`: the others stop writing to it. A marked client whose buffer is
  refilled forever is never deleted.

The hypothesis in `GoneIsClosed` that nothing is queued for the client is needed
because of the finding `LoopReset`.

`Boris` has, for `SilentLeaves` only, `FairSpec`. `WF(Tick(c))`: time passes for a
silent client, whether the thread works or waits. `SF(Silence(c))`: `checkClients`,
which `run` calls in every pass, comes to every client. It is strong because
only the listening socket is set not to block (`Server.cpp:83`): accepted sockets
(`:174`) block, and so does a `send()` to one that does not read (a PING, `:124`; a
reply, `:157`; a message, `Channel.cpp:166`, `Kernel.cpp:70`), so the thread may be held
up again and again between two passes. `Unblocks` has no fairness: whether a
`send()` ends is up to the client it is for. The property has that as its
hypothesis, `[]<>(phase # "send")`: without it one client that stops reading, and
does not go away, keeps every silent one, and the property is false. That the
silent are asked first (`Ask`) is neither assumed nor claimed. Nothing is assumed of
RESTART or of SIGINT; the property lets a client speak and the loop end.

### 3.3 Where the code leaves what its documents and comments say

Two of these are runs:

* `PartList` (`ann/srcs/Commands.cpp:240`): PART with two channels, and JOIN 0
  from two channels, read a null pointer.
* `LoopReset` (`ann/srcs/utils.cpp:194`): a client whose connection is reset while
  output waits is never deleted, and the loop spins on it.

The models reach the following as well, since they do what the code does; no
property asks for the contrary.

* `ann`: a client that sends CAP LS, then CAP END, and then PASS, NICK and USER
  is never welcomed, since CAP END is passed over while anything is missing
  (`Commands.cpp:106`). A wrong password marks the client but sets `passOk`, so
  NICK and USER in the same buffer get it welcomed (`Commands.cpp:66`). An
  operator who is the first of its own list of targets goes on kicking when it
  is no longer operator (`Commands.cpp:260`). PRIVMSG looks a channel up under
  its lower-cased name (`Commands.cpp:144`).
* `boris`: one client that stops reading holds up the server: section 3.2. KICK
  goes on using a channel that it may have deleted
  (`CommandKick.cpp:45`), and with a list it passes over the channel after each one it
  has dealt with (`:48`, an `i++` besides that of the loop). Operators and
  speakers are addresses that outlive the client (`Channel.cpp:239`). A SIGINT that
  comes between the end of the loop and the restart is forgotten
  (`Server.cpp:79`).
* `AhmedFatir`: KICK erases a channel by its place in the command's list
  (`KICK.cpp:86`). INVITE to a full channel by one of its operators follows a null
  pointer (`INVITE.cpp:27`). More keys than channels write past the end of a vector
  (`JOIN.cpp:24`). An invitation is used up before the limit is looked at
  (`JOIN.cpp:69`). QUIT followed by a command in one buffer uses a client that
  is gone.
* `mariia`: between the QUIT of a client and the close of its connection by
  `sendData` (`Server.cpp:236`) others may join its channels, and it others' by what
  is left of its input: they are not told that it goes. Two clients may have
  one nickname, since NICK does not tell `users` (`parsingServer.cpp:126`). A
  client that hangs up leaves its descriptor open (`Server.cpp:207`).
* ShibRC: CAP LS sends an online client back to the password (`CAP.cpp:14`), but
  the dispatch compares with the status it began with (`User.cpp:82`), so what
  follows in the same buffer, NICK for one, is still executed. The mode of a
  member goes by descriptor and outlives it, so the next client on it is an
  operator before it joins (`Channel.cpp:47`). `JOIN 0` and several commands
  with a missing parameter read past the end of a container (`JOIN.cpp:29`). One
  client more than allowed, and the listening socket is shut down for good
  (`Server.cpp:21`).


## 4. What is proved

TLAPS checks, for every value of the constants that satisfies the module's
assumption (any set of descriptors, finite or not, any words, any commands, any
bounds):

| Theorem | Module | States |
|---|---|---|
| `CliTypeCorrect` | `ClientsProofs` | `CliSpec => []CliTypeOK` |
| `NicknamesAreUnique` | `ClientsProofs` | `CliSpec => []NickUnique` |
| `WelcomeIsSent` | `ClientsProofs` | `CliSpec => []WelcomeSent` |
| `WrongPassIsDropped` | `ClientsProofs` | `CliSpec => []WrongPassDropped` |
| `RegistrationKeepsLife` | `ClientsProofs` | `CliSpec => KeepsLife`, the refinement of `Lifecycle` |
| `ChTypeCorrect` | `ChannelsProofs` | `Spec => []TypeOK` |
| `MembersAreLive` | `ChannelsProofs` | `Spec => []MembersLive` |
| `OperatorsAreMembers` | `ChannelsProofs` | `Spec => []OpsAreMembers` |
| `MembersAreRegistered` | `ChannelsProofs` | `Spec => []MembersRegistered` |
| `ChannelNamesAreUnique` | `ChannelsProofs` | `Spec => []ChNamesCaseUnique` |
| `DeparturesLeaveOperators` | `ChannelsProofs` | `Spec => LeavesOperator` |
| `OperatorsSetModes` | `ChannelsProofs` | `Spec => ModesByOperator` |
| `JoinsKeepModes` | `ChannelsProofs` | `Spec => JoinsWithinModes` |
| `MessagesAreToLive` | `ChannelsProofs` | `Spec => []ToLiveClients` |
| `TalkReachesMembers` | `ChannelsProofs` | `Spec => ChannelTalk` |
| `CarefulNeverCrash` | `ChannelsProofs` | `Spec => []NoCrash`, if `Careful` |
| `ChannelsKeepRooms` | `ChannelsProofs` | `Spec => RoomsSpec`, the refinement of `Membership` |
| `RegistrationSurvives` | `ChannelsProofs` | `Spec => [](NickUnique /\ WelcomeSent /\ WrongPassDropped)` |
| `CarefulKeepLife` | `ChannelsProofs` | `Spec => KeepsLife`, if `Careful` |
| `LimitOfChannels` | `ChannelsProofs` | `Spec => []ChannelLimit` |
| `LoopTypeCorrect` | `EventLoopProofs` | `Spec => []EvTypeOK` |
| `PollsAndClisAgree` | `EventLoopProofs` | `Spec => []PollsMatchClis` |
| `MarksAreOfClients` | `EventLoopProofs` | `Spec => []MarkedAreClis` |
| `LoopKeepsLife` | `EventLoopProofs` | `Spec => KeepsLife`, the refinement of `Lifecycle` |
| `OutputIsInOrder` | `EventLoopProofs` | `Spec => []InOrder` |
| `DeletedIsFlushed` | `EventLoopProofs` | `Spec => FlushedWhenClosed` |
| `BorisTypeCorrect` | `BorisProofs` | `Spec => []TypeOK` |
| `BorisNicksDiffer` | `BorisProofs` | `Spec => []NickUnique` |
| `BorisKeepsRooms` | `BorisProofs` | `Spec => RoomsSpec`, the refinement of `Membership` |
| `BorisMembersConnected` | `BorisProofs` | `Spec => []Rooms!Inside` |
| `AhmedNicksDiffer` | `AhmedProofs` | `Spec => []NickUnique` |
| `AhmedTypes` | `AhmedProofs` | `Spec => []TypeOK` |
| `CopiesHaveOwnNicks` | `AhmedProofs` | `Spec => []CopiesDiffer` |
| `LoginsAreComplete` | `AhmedProofs` | `Spec => []LoginComplete` |
| `MariiaTypes` | `MariiaProofs` | `Spec => []TypeOK` |
| `NothingIsInherited` | `MariiaProofs` | `Spec => []NothingInherited` |
| `LimitIsKept` | `MariiaProofs` | `Spec => []WithinLimit` |
| `QuitReachesEveryone` | `MariiaProofs` | `Spec => QuitReachesAll` |
| `MariiaImplementsMembership` | `MariiaProofs` | `Spec => RoomsSpec`, the refinement of `Membership` |
| `MariiaMembersConnected` | `MariiaProofs` | `Spec => []Rooms!Inside` |
| `ShibTypeCorrect` | `ShibRCProofs` | `Spec => []TypeOK` |
| `LoginsAreProved` | `ShibRCProofs` | `Spec => []LoginProved` |
| `ShibKeepsRooms` | `ShibRCProofs` | `Spec => RoomsSpec`, the refinement of `Membership` |
| `ShibMembersConnected` | `ShibRCProofs` | `Spec => []Rooms!Inside` |

*Assumptions.* `ClientsAssumption` says that `lower`, `sub` are functions on
words, that no nickname folds to the empty word (`execNick` refuses an empty
one), and that a command has a first word. `ChannelsAssumption` adds that channel
names begin with `#`, and that no limit given by a client reaches the value that
means "no limit" (`atoi` gives an `int`, the value is the largest `unsigned`).
`EventLoopAssumption` says what the bounds are. `BorisAssumption`: the
empty word is no nickname, +l reads integers, the bounds are numbers and an
address can be in the list of operators at least once. `AhmedAssumption`: neither
the empty word nor the placeholder is a nickname. `MariiaAssumption`: descriptors
are numbers, `lower` takes names to names and does nothing the second time, the
empty word is no nickname, limits are integers. Both say in addition what the
letters of a MODE are, and that MODE gives a key where it sets one and a limit
where it sets one. `ShibAssumption`: the value
that stands for "no client" is not a client, a status, a user or a channel.

*Clients.* The inductive invariant is `CliInv`: the type invariant, which also
says that a descriptor that is not connected is blank (what makes a reused
descriptor safe), and that no client is the author at the top of the loop. The
three safety properties are proved on top of it; `NickUnique` is used again in
the steps of the channels.
The refinement maps a step of a command to `MarkAuthor` or a stutter.
`RegistrationSurvives` has the same of the whole server: every step of `Channels`
is one of registration, for which the lemmas of `ClientsProofs` are used again, or
leaves registration alone, the walks over lists included. The refinement of
`Lifecycle` needs more there (`CarefulKeepLife`): a null pointer that is read ends
the process in the middle of a pass, which `Lifecycle` has no step for.

*Channels.* `MembersLive` is not inductive. Deleting a client erases it from the
channels *by nickname*: all members who answer to it go, so it is enough that
the client itself answers to its nickname, which it does when it is registered:
hence `MembersRegistered` is a part of the invariant. That a walk over a list
keeps them needs that the author stays connected and registered while it walks,
and that a step of MODE is on a channel that exists: hence `ListOK`.
`OpsAreMembers` needs that the heir of a channel is one of those who stay.
`ChInv` is the conjunction, and each action of `Next` is shown to keep each part
of it that it can disturb.

*Steps of the channels.* `WhoWrites` sorts the steps by what they write to the
channels; `ChNamesCaseUnique` is inductive by itself, because the only step that
adds a name comes after `getCh` found none. `LeavesOperator` follows from one
fact about `eraseCliFromCh` (`ErasedKeepsOperator`), which PART, KICK and the
deletion share, and from MODE and TOPIC leaving the members alone. It says
nothing of `-o`, by which an operator may leave a channel without any.
`ChannelBecomes` sorts what a step makes of a channel that stays: somebody
enters, members go, or MODE sets it. `ModesByOperator` needs `SteadyInv`,
`ChInv` with `NickUnique`: the test for an operator goes by nickname, so the
operator it finds is the author only if no other member has that nickname.
`JoinsWithinModes` needs `MembersFinite`: the limit is compared with a
cardinality, which grows by one when one comes. It needs `KeysGiven` as well:
what is left in `vals` of the keys of a JOIN are keys that the command in `ar`
was given (`KeyInHand`), so the key that lets the author in was in that JOIN.
`ToLiveClients` is shown action by action from `MembersLive`. `ChannelTalk` has
the same shape as `ModesByOperator`: PRIVMSG asks for the author among the
members by nickname, and the member it finds is the author only with
`SteadyInv`; that no other step makes a PRIVMSG is `Plain`. `LimitOfChannels`
follows from one step of JOIN adding one channel, after the limit was looked at.

*Null pointers.* `NoCrash` is false of the server (`PartList`), so it is proved
under the weakest thing found to make it true, `Careful`, a condition on the
commands that clients may send and not on the state; `Members` satisfies it, the
clients of `Modes` and `PartList` do not. `SafeInv` carries it into the states: every
channel there is was opened under its own spelling (`chs \subseteq Opened`), and what
is left of a list names no channel in another case, and, for PART, no channel
other than the one the handler holds (`Tidy`). So `getCh` and `chs[name]` agree
wherever both are asked.

*Channels and Membership.* The steps that add a member, take members off and
delete a client are `Enter`, `Leave` and `Disconnect` of `Membership`. The last
allows no channel to lose anybody but the deleted, whereas `eraseCliFromCh` erases
whoever answers to the nickname: `OnlyTheDeleted` shows with `NickUnique` and
`MembersRegistered` that this is the deleted client alone.

*EventLoop.* The inductive invariant is `EvInv`: the type invariant,
`PollsMatchClis`, `MarkedAreClis`, and `MarkedNotRead`, which is what makes the
refinement true: every marked client with nothing to send is deleted before
`markPollsToSendMsgsTo`, so at `poll()` a marked client is waited on for `POLLOUT`
only; and, during the visits, a pollfd that is still to be visited and is
readable is not that of a marked client. From
it `LoopKeepsLife`: a marked client is not served after the pass that marked
it. The delicate step is the deletion of an element of the vector of pollfds,
whose indices shift (`Remaining`). `OutputInv` relates, for each client, what
was made, what is in its buffer and what it was given, the units being numbered
modulo `Units`; it holds across short writes, and with an empty buffer it says
that everything was given (`DeletedIsFlushed`).

*Lists.* `ListLemmas` has what the proofs of `Ahmed` and `Mariia` need about
sequences: what `RemoveAt` and `RemoveFirst` leave, and that a function defined
by recursion on a number is what its definition says (`Recursion`), with an
invariant that each step keeps kept to the end (`Induction`). The library states
both with an operator as a parameter, which these provers do not instantiate;
here they are stated with sets, from the least element of a set of numbers
(`HasLeast`), which the library's theorem on well-founded relations gives. The
loops of the code are recursive functions in the models for that reason
(`ApplyAll`, `RmChannels`, `QuitChannels`).

*Boris.* `BorisInv` is the types, with a deleted client blank; `NickUnique`, which
the deletion of a client keeps because its nickname goes with it; that no
channel is empty and every member is connected, which makes `Departed` (a client
off a channel, with an heir if nobody else runs it) a step of `Leave`, and all
channels at once a step of `Disconnect`; and the ranges of `status` and
`phase`. The heir of a channel is added to the operators, and that this stays
within `MaxOpers` needs that it was none: it inherits only where nobody else
runs the channel.

*Ahmed.* `LoginComplete` is not inductive: PASS is the one command of the three
that does not look whether it ends the login, and that it never does needs
`PassFirst`, that no USER is accepted before PASS. `AhmedInv` is that,
`NickUnique` and the types of the clients. The channels take no part:
what a command does to them leaves the clients' nicknames and logins alone.
`FullInv` adds them: every channel of the vector is `Good`, its copies of the
right kind and no two of them, clients and operators taken together, with one
nickname, and no two channels have one name (`Vector`). A copy comes in only where
`Joinable` found its nickname absent, MODE o moves a copy from one vector to
the other, and everything else only erases; the lemmas are about these three
(`Appended`, `Erased`, `LetterIsGood`), and `ApplyAll` is walked with `Induction`.

*Mariia.* `MariiaInv` is: the clients are well formed, with whoever is not
connected blank; each channel is `Good`, its operators among its members, its
members connected, its invited connected and not members, its limit kept; and
`ListCovers`, that whoever is in the set of a channel has a name of it, in some
spelling, in its list, which is what QUIT walks, and that it is registered, so
that nobody on a channel is marked in another way (a wrong password marks
whoever is not registered). From both `QuitReachesEveryone`:
`sharingChannelsFds` is everybody on a channel with the client. The converse is
false: PART and KICK take the lower-case name off the list, and one in another
spelling stays. That they take off no name of another channel is `FirstRemoved`.
The limit is compared for equality, so `LimitIsKept` needs that it was kept
before, and that MODE l refuses what is below the number of members; MODE is
walked letter by letter with `Induction`.

*ShibRC.* What `LoginProved` says of the status (`UsersProved`) is not
inductive, because `dispatch` overwrites the status with one that it computed
before. What makes it safe is what it says of the stage (`StageProved`): the
client whose commands run as those of a registering client has itself proved the
password, and nothing takes that from it before the dispatch ends, CAP being
passed over in that stage. It says nothing of the commands that follow a CAP LS
of an online client in one dispatch. It holds for every password, the empty one
included. For the refinement, `MembersOn`: the members of a channel are users;
`delUser`, which goes through every channel, is then a `Disconnect` of all the
marked, which is why that action of `Membership` takes a set.

*Only model-checked*: the liveness properties (`GoneIsClosed`, `InputIsRead`,
`MarkedIsClosed`, `SilentLeaves`), liveness and ENABLED being out of the prover's
reach, and the two violations. Every other property of a run is stated by a
theorem. The functions on words (`lower`, `sub`, `atoi`) are constants: what
the code computes for them is in the instances only.


## 5. What is not modelled

* Framing of `ann` (`splitBufToCmds`, `bufRecv`) and of the others: planned,
  section 6.
* In `ann`, the exit on SIGINT, `init` and the destructor: calls to the operating
  system; the state `init` leaves is `Init` of `EventLoop`.
* Texts of replies and debug output of every server.
* `std::bad_alloc`, the failure of `poll()` itself, and the death of a process
  by SIGPIPE.
* boris: the recipients of PRIVMSG and NOTICE (where the test of mode n is the
  wrong way round: `CommandPrivmsg.cpp:47`, against `include/Channel.hpp:21`), and
  the order of the vector of
  members, on which only the choice of an heir depends (any member here).
* AhmedFatir: the recipients of PRIVMSG, and the bot, a client program.
* mariia: the queues of output (what is left of a short write is put at the end of
  the queue, `Server.cpp:226`), PRIVMSG and NOTICE.
* ShibRC: topics, AWAY, PRIVMSG, NOTICE, the commands that only reply, the
  configuration file and the display.
* `General_server` is an empty program, `project/littleServerFromBook` a
  tutorial's echo server and client that keep no state.


## 6. Plan

Done: `Lifecycle`, `Clients`, `Channels`, `EventLoop`; `Membership` and the
peers' servers; the proofs above.

1. `Framing`: `splitBufToCmds` with the rest kept in `bufRecv`, over streams cut
   at every place, against a reference definition of lines; the commands must
   not depend on the cuts where every line ends in CR LF, and the rule for LF
   input where they do.
2. `ChannelLimit` of `Channels`, proved, in a run with more channels than `Members`
   and more clients than `Modes`.
3. The safety part of the liveness of `EventLoop`: what must hold for a marked
   client to be flushed and deleted in the pass after.
