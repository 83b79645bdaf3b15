------------------------------ MODULE Clients ------------------------------
(***************************************************************************)
(* The clients of ann/srcs: how they connect, register and leave.          *)
(*                                                                         *)
(* The server is one thread.  Server::run repeats a pass: at its top it    *)
(* deletes the clients that are marked and flushed (phase "erase"), then   *)
(* it polls and visits the descriptors that are ready (phase "serve").     *)
(* Visiting a client reads one buffer and executes every command found in  *)
(* it; `cli` is the author while that lasts.                               *)
(*                                                                         *)
(* Abstractions.  A command is the sequence of words splitCmdToArgs        *)
(* returns, so ar[0] of the code is a[1] here; Cmds is what clients may    *)
(* send.  A Cli object is named by its descriptor: the pointer and the     *)
(* descriptor are made and dropped together (Server.cpp:112,               *)
(* utils.cpp:281-287).  The numerics that only refuse or inform are one    *)
(* "error" or "reply" message.  The output buffers, the pollfd flags and   *)
(* the order of the polls are the subject of EventLoop.tla; here a marked  *)
(* client is flushed at any time, and is never read again once the pass    *)
(* that marked it is over, which EventLoop.tla derives.                    *)
(***************************************************************************)
EXTENDS Naturals, Sequences

CONSTANTS
  Fd,        \* the descriptors accept() can return
  None,      \* no author: the server is between two clients
  Word,      \* the words a command is made of, "" among them
  Hash,      \* the words that begin with '#'
  lower,     \* toLower, as a function on Word
  sub,       \* splitArgToSubargs: the items of a comma-separated word
  NickName,  \* the words execNick accepts as a nickname
  pass,      \* the server's password
  Cmds       \* the commands clients send

ASSUME ClientsAssumption ==
  /\ None \notin Fd
  /\ {"", "0"} \subseteq Word
  /\ Hash \subseteq Word
  /\ lower \in [Word -> Word]
  /\ sub \in [Word -> Seq(Word)]
  /\ NickName \subseteq Word
  /\ \A n \in NickName : lower[n] # lower[""]
  /\ Cmds \subseteq Seq(Word \ {""}) \ {<<>>}

VARIABLES
  phase,          \* where run() is: "erase", "serve", or "crashed"
  cli,            \* the author of the current command
  clis,           \* the connected clients: the keys of map clis
  fdsToErase,     \* fdsToEraseNextIteration
  passOk,         \* the clients whose passOk is set
  capInProgress,  \* the clients negotiating capabilities
  nick,           \* nicknames, "" when there is none yet
  uName,          \* the clients whose user name is not empty
  gavePass,       \* history: the clients that sent the right password
  welcomed,       \* history: the clients sent RPL_WELCOME
  resp            \* what the last step handed to prepareResp

session == <<passOk, capInProgress, nick, uName, gavePass, welcomed>>
cliVars == <<phase, cli, clis, fdsToErase, session, resp>>

(* What a message says: a numeric, or the command it relays.               *)
Kind == {"error", "reply", "001", "353", "QUIT", "JOIN", "PART", "KICK", "MODE",
         "TOPIC", "INVITE", "PRIVMSG", "NOTICE"}
Msg == [cmd : Kind, from : Fd, arg : Word]

CliTypeOK ==
  /\ phase \in {"erase", "serve", "crashed"}
  /\ clis \subseteq Fd
  /\ cli \in clis \cup {None}
  /\ fdsToErase \subseteq clis
  /\ passOk \subseteq clis
  /\ capInProgress \subseteq clis
  /\ uName \subseteq clis
  /\ gavePass \subseteq clis
  /\ welcomed \subseteq clis
  /\ nick \in [Fd -> NickName \cup {""}]
  /\ \A f \in Fd \ clis : nick[f] = ""
  /\ resp \subseteq Fd \X Msg

CliInit ==
  /\ phase = "erase"
  /\ cli = None
  /\ clis = {}
  /\ fdsToErase = {}
  /\ passOk = {}
  /\ capInProgress = {}
  /\ nick = [f \in Fd |-> ""]
  /\ uName = {}
  /\ gavePass = {}
  /\ welcomed = {}
  /\ resp = {}
-----------------------------------------------------------------------------
(* Replies.  Message(c, m) is what prepareResp queues for the clients of   *)
(* the set c.                                                              *)
Message(c, cmd, from, arg) == c \X {[cmd |-> cmd, from |-> from, arg |-> arg]}
Error == Message({cli}, "error", cli, "")
Reply == Message({cli}, "reply", cli, "")

(* The three conditions every handler but the registration ones asks for.  *)
Registered(c) == c \in passOk /\ nick[c] # "" /\ c \in uName

(* getCli: the clients that answer to the nickname w, whatever the case.   *)
getCli(w) == {c \in clis : lower[nick[c]] = lower[w]}

Commands == {"PASS", "NICK", "USER", "QUIT", "PING", "CAP", "WHOIS", "PRIVMSG",
             "NOTICE", "JOIN", "PART", "MODE", "TOPIC", "INVITE", "KICK"}

(* The server is executing the buffer of the client cli.                   *)
Executing == phase = "serve" /\ cli # None

Refuse == resp' = Error /\ UNCHANGED <<fdsToErase, session>>

(* Mutant of WelcomeIfComplete: passOk is read before it is set.           *)
WelcomeTooSoon(others) ==
  IF cli \in passOk /\ nick'[cli] # "" /\ cli \in uName' /\ cli \notin capInProgress
  THEN /\ welcomed' = welcomed \cup {cli}
       /\ resp' = others \cup Message({cli}, "001", cli, "")
  ELSE /\ UNCHANGED welcomed
       /\ resp' = others

(* The tail of PASS, NICK and USER: RPL_WELCOME as soon as the last of the *)
(* three conditions is met, unless a CAP negotiation is open.              *)
WelcomeIfComplete(others) ==
  IF cli \in passOk' /\ nick'[cli] # "" /\ cli \in uName' /\ cli \notin capInProgress
  THEN /\ welcomed' = welcomed \cup {cli}
       /\ resp' = others \cup Message({cli}, "001", cli, "")
  ELSE /\ UNCHANGED welcomed
       /\ resp' = others

(* Mutants of MarkAuthor: the client is told, and stays; or its mark is    *)
(* the only one that is left.                                              *)
KeepAuthor == UNCHANGED fdsToErase
MarkAuthorOnly == fdsToErase' = {cli}

(* fdsToEraseNextIteration.insert(cli->fd)                                 *)
MarkAuthor == fdsToErase' = fdsToErase \cup {cli}

(* A wrong password marks the client, and sets passOk all the same.        *)
execPass(a) ==
  /\ a[1] = "PASS"
  /\ \/ /\ ~(cli \notin passOk /\ Len(a) >= 2)
        /\ Refuse
     \/ /\ cli \notin passOk /\ Len(a) >= 2
        /\ passOk' = passOk \cup {cli}
        /\ UNCHANGED <<capInProgress, nick, uName>>
        /\ IF a[2] = pass
           THEN /\ gavePass' = gavePass \cup {cli}
                /\ UNCHANGED fdsToErase
                /\ WelcomeIfComplete({})
           ELSE /\ MarkAuthor
                /\ UNCHANGED gavePass
                /\ WelcomeIfComplete(Error)

(* Mutant of FreeNick: nicknames are compared with their case.             *)
FreeNickExact(w) == w \in NickName /\ \A c \in clis : nick[c] # w

(* The nickname w is well formed, and nobody answers to it.                *)
FreeNick(w) == w \in NickName /\ getCli(w) = {}

execNick(a) ==
  /\ a[1] = "NICK"
  /\ \/ /\ ~(Len(a) >= 2 /\ FreeNick(a[2]))
        /\ Refuse
     \/ /\ Len(a) >= 2 /\ FreeNick(a[2])
        /\ nick' = [nick EXCEPT ![cli] = a[2]]
        /\ UNCHANGED <<passOk, capInProgress, uName, gavePass, fdsToErase>>
        /\ WelcomeIfComplete({})

execUser(a) ==
  /\ a[1] = "USER"
  /\ \/ /\ ~(Len(a) >= 5 /\ cli \notin uName)
        /\ Refuse
     \/ /\ Len(a) >= 5 /\ cli \notin uName
        /\ uName' = uName \cup {cli}
        /\ UNCHANGED <<passOk, capInProgress, nick, gavePass, fdsToErase>>
        /\ WelcomeIfComplete({})

(* CAP END closes the negotiation only when the client is complete.        *)
execCap(a) ==
  /\ a[1] = "CAP"
  /\ \/ /\ Len(a) >= 2 /\ a[2] = "LS"
        /\ capInProgress' = capInProgress \cup {cli}
        /\ resp' = Reply
        /\ UNCHANGED welcomed
     \/ /\ Len(a) >= 2 /\ a[2] = "END" /\ Registered(cli)
        /\ capInProgress' = capInProgress \ {cli}
        /\ welcomed' = welcomed \cup {cli}
        /\ resp' = Message({cli}, "001", cli, "")
     \/ /\ ~(Len(a) >= 2 /\ (a[2] = "LS" \/ (a[2] = "END" /\ Registered(cli))))
        /\ resp' = {}
        /\ UNCHANGED <<capInProgress, welcomed>>
  /\ UNCHANGED <<passOk, nick, uName, gavePass, fdsToErase>>

(* QUIT writes to every client of the server, and the prefix of each       *)
(* message is built from the client it is written to.                      *)
execQuit(a) ==
  /\ a[1] = "QUIT"
  /\ resp' = UNION {Message({c}, "QUIT", c, "") : c \in clis}
  /\ MarkAuthor
  /\ UNCHANGED session

(* MODE on a nickname changes nothing; only the client itself is answered. *)
execModeCli(a) ==
  /\ a[1] = "MODE" /\ Len(a) >= 2 /\ a[2] \notin Hash
  /\ LET mine == \E c \in getCli(a[2]) : nick[c] = nick[cli]
     IN  resp' = IF ~mine THEN Error
                 ELSE IF Len(a) = 2 \/ (Len(a) > 3 /\ a[3] = "+i") THEN Reply
                 ELSE {}
  /\ UNCHANGED <<fdsToErase, session>>

(* PING, WHOIS, a bare MODE and an unknown command only answer.            *)
execInfo(a) ==
  /\ \/ /\ a[1] = "PING"
        /\ resp' = Reply
     \/ /\ a[1] = "WHOIS" /\ Len(a) >= 2
        /\ resp' = UNION {IF getCli(sub[a[2]][i]) = {} THEN Error ELSE Reply :
                            i \in DOMAIN sub[a[2]]}
     \/ /\ \/ a[1] \in {"MODE", "WHOIS"} /\ Len(a) = 1
           \/ a[1] \notin Commands
        /\ resp' = Error
  /\ UNCHANGED <<fdsToErase, session>>

(* execCmd, for the commands that do not concern channels.                 *)
CliCommand(a) ==
  /\ Executing
  /\ \/ execPass(a) \/ execNick(a) \/ execUser(a) \/ execCap(a)
     \/ execQuit(a) \/ execModeCli(a) \/ execInfo(a)
  /\ UNCHANGED <<phase, cli, clis>>
-----------------------------------------------------------------------------
(* The loop.                                                               *)

(* addNewClient: the listening descriptor is the first of polls, and the   *)
(* pass ends with it.  The new Cli is blank, as a descriptor outside clis  *)
(* always is.                                                              *)
addNewClient(f) ==
  /\ phase = "serve" /\ cli = None
  /\ f \in Fd \ clis
  /\ clis' = clis \cup {f}
  /\ phase' = "erase"
  /\ resp' = {}
  /\ UNCHANGED <<cli, fdsToErase, session>>

(* receiveBufAndExecCmds, some bytes arrived: c becomes the author.        *)
receiveBuf(c) ==
  /\ phase = "serve"
  /\ c \in clis \ (fdsToErase \cup {cli})
  /\ cli' = c
  /\ resp' = {}
  /\ UNCHANGED <<phase, clis, fdsToErase, session>>

(* receiveBufAndExecCmds, recv() returned 0: c is gone and is marked.      *)
hangUp(c) ==
  /\ phase = "serve"
  /\ c \in clis \ (fdsToErase \cup {cli})
  /\ fdsToErase' = fdsToErase \cup {c}
  /\ cli' = None
  /\ resp' = {}
  /\ UNCHANGED <<phase, clis, session>>

(* Every ready descriptor was visited: back to the top of the loop.        *)
endPass ==
  /\ phase = "serve"
  /\ phase' = "erase"
  /\ cli' = None
  /\ resp' = {}
  /\ UNCHANGED <<clis, fdsToErase, session>>

(* Mutant of Forget: the nickname outlives the client.                     *)
ForgetAllButNick(f) ==
  /\ passOk' = passOk \ {f}
  /\ capInProgress' = capInProgress \ {f}
  /\ uName' = uName \ {f}
  /\ gavePass' = gavePass \ {f}
  /\ welcomed' = welcomed \ {f}
  /\ UNCHANGED nick

(* delete it->second: the descriptor is blank again.                       *)
Forget(f) ==
  /\ passOk' = passOk \ {f}
  /\ capInProgress' = capInProgress \ {f}
  /\ nick' = [nick EXCEPT ![f] = ""]
  /\ uName' = uName \ {f}
  /\ gavePass' = gavePass \ {f}
  /\ welcomed' = welcomed \ {f}

(* eraseUnusedClis, for one marked descriptor whose output is flushed.     *)
eraseUnusedCli(f) ==
  /\ phase = "erase"
  /\ f \in fdsToErase
  /\ clis' = clis \ {f}
  /\ fdsToErase' = fdsToErase \ {f}
  /\ Forget(f)
  /\ resp' = {}
  /\ UNCHANGED <<phase, cli>>

(* The end of the top of the loop: poll() is called and a pass begins.     *)
startPass ==
  /\ phase = "erase"
  /\ phase' = "serve"
  /\ resp' = {}
  /\ UNCHANGED <<cli, clis, fdsToErase, session>>

(* What the loop does apart from its top and from executing commands.      *)
Serve ==
  \/ \E f \in Fd : addNewClient(f)
  \/ \E c \in Fd : receiveBuf(c)
  \/ \E c \in Fd : hangUp(c)
  \/ endPass

CliNext ==
  \/ Serve
  \/ \E f \in Fd : eraseUnusedCli(f)
  \/ startPass
  \/ \E a \in Cmds : CliCommand(a)

CliSpec == CliInit /\ [][CliNext]_cliVars
-----------------------------------------------------------------------------
(* Properties.                                                             *)

(* Two clients never answer to the same nickname, whatever the case, in    *)
(* whatever order they ask for it, change it, leave and come back: the     *)
(* look-ups of getCli, getCliOnCh and eraseCliFromCh all go by nickname.   *)
NickUnique ==
  \A c, d \in clis : nick[c] # "" /\ lower[nick[c]] = lower[nick[d]] => c = d

(* Whatever the order of PASS, NICK, USER, CAP LS and CAP END, a client    *)
(* that may use the server and is not negotiating was sent RPL_WELCOME.    *)
WelcomeSent == \A c \in clis \ capInProgress : Registered(c) => c \in welcomed

(* A client that is past the password check without the right password     *)
(* is always on its way out.                                               *)
WrongPassDropped == passOk \ gavePass \subseteq fdsToErase

(* Registration keeps the promises of Lifecycle.tla.                       *)
Life == INSTANCE Lifecycle
KeepsLife == Life!LifeSpec
=============================================================================
