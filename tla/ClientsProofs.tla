--------------------------- MODULE ClientsProofs ---------------------------
(***************************************************************************)
(* What registration guarantees, for every set of descriptors, every       *)
(* alphabet of words and every set of commands.                            *)
(*                                                                         *)
(* CliInv is inductive on the step of any command of Clients.tla, and it   *)
(* is proved on the handlers one by one, so that ChannelsProofs.tla can    *)
(* use the same lemmas for the larger specification.                       *)
(***************************************************************************)
EXTENDS Clients, TLAPS

(* The handlers that complete a registration change at most the author,    *)
(* and leave it welcomed if it is complete.                                *)
Completes ==
  /\ welcomed' \in {welcomed, welcomed \cup {cli}}
  /\ (cli \in passOk' /\ nick'[cli] # "" /\ cli \in uName' /\ cli \notin capInProgress)
       => cli \in welcomed'

LEMMA SeqElement ==
  ASSUME NEW S, NEW s \in Seq(S), NEW k \in 1 .. Len(s)
  PROVE  s[k] \in S
OBVIOUS

(* The words and the messages a command is built from are well formed.     *)
LEMMA WordOfCommand ==
  ASSUME NEW a \in Cmds, NEW k \in 1 .. Len(a)
  PROVE  a[k] \in Word \ {""}
<1>1. a \in Seq(Word \ {""})
  BY ClientsAssumption
<1> QED
  BY <1>1, SeqElement

LEMMA MessageType ==
  ASSUME NEW c \in SUBSET Fd, NEW m \in Kind, NEW f \in Fd, NEW w \in Word
  PROVE  Message(c, m, f, w) \subseteq Fd \X Msg
BY DEF Message, Msg

LEMMA WelcomeType ==
  ASSUME cli \in Fd
  PROVE  Message({cli}, "001", cli, "") \subseteq Fd \X Msg
<1>1. "001" \in Kind /\ "" \in Word
  BY ClientsAssumption DEF Kind
<1> QED
  BY <1>1, MessageType

(* RPL_WELCOME, sent or not, is well formed and marks the author only.     *)
LEMMA WelcomeCompletes ==
  ASSUME cli \in Fd, NEW others \in SUBSET (Fd \X Msg), WelcomeIfComplete(others)
  PROVE  Completes /\ resp' \subseteq Fd \X Msg
<1>1. Message({cli}, "001", cli, "") \subseteq Fd \X Msg
  BY WelcomeType
<1> QED
  BY <1>1 DEF WelcomeIfComplete, Completes

(* A refusal is an error to the author.                                    *)
LEMMA ErrorType ==
  ASSUME cli \in Fd
  PROVE  Error \subseteq Fd \X Msg /\ Reply \subseteq Fd \X Msg
<1>1. "error" \in Kind /\ "reply" \in Kind /\ "" \in Word
  BY ClientsAssumption DEF Kind
<1> QED
  BY <1>1, MessageType DEF Error, Reply

(* Everything a step of registration does to the session of a client.      *)
SessionType ==
  /\ fdsToErase' \subseteq clis
  /\ passOk' \subseteq clis
  /\ capInProgress' \subseteq clis
  /\ uName' \subseteq clis
  /\ gavePass' \subseteq clis
  /\ welcomed' \subseteq clis
  /\ nick' \in [Fd -> NickName \cup {""}]
  /\ \A f \in Fd \ clis : nick'[f] = ""
  /\ resp' \subseteq Fd \X Msg

LEMMA RefuseType ==
  ASSUME CliTypeOK, Executing, Refuse
  PROVE  SessionType
<1>1. cli \in Fd
  BY DEF CliTypeOK, Executing
<1> QED
  BY <1>1, ErrorType DEF CliTypeOK, Refuse, SessionType, session

LEMMA PassType ==
  ASSUME CliTypeOK, Executing, NEW a \in Cmds, execPass(a)
  PROVE  SessionType
<1>1. cli \in Fd /\ cli \in clis
  BY DEF CliTypeOK, Executing
<1>2. CASE Refuse
  BY <1>2, RefuseType
<1>3. CASE ~Refuse
  <2>1. /\ passOk' = passOk \cup {cli}
        /\ UNCHANGED <<capInProgress, nick, uName>>
        /\ fdsToErase' \in {fdsToErase, fdsToErase \cup {cli}}
        /\ gavePass' \in {gavePass, gavePass \cup {cli}}
        /\ WelcomeIfComplete({}) \/ WelcomeIfComplete(Error)
    BY <1>3 DEF execPass, MarkAuthor
  <2>2. Completes /\ resp' \subseteq Fd \X Msg
    BY <2>1, <1>1, WelcomeCompletes, ErrorType
  <2> QED
    BY <2>1, <2>2, <1>1 DEF CliTypeOK, SessionType, Completes
<1> QED
  BY <1>2, <1>3

LEMMA NickType ==
  ASSUME CliTypeOK, Executing, NEW a \in Cmds, execNick(a)
  PROVE  SessionType
<1>1. cli \in Fd /\ cli \in clis
  BY DEF CliTypeOK, Executing
<1>2. CASE Refuse
  BY <1>2, RefuseType
<1>3. CASE ~Refuse
  <2>1. /\ a[2] \in NickName
        /\ nick' = [nick EXCEPT ![cli] = a[2]]
        /\ UNCHANGED <<passOk, capInProgress, uName, gavePass, fdsToErase>>
        /\ WelcomeIfComplete({})
    BY <1>3 DEF execNick, FreeNick
  <2>2. Completes /\ resp' \subseteq Fd \X Msg
    BY <2>1, <1>1, WelcomeCompletes
  <2> QED
    BY <2>1, <2>2, <1>1 DEF CliTypeOK, SessionType, Completes
<1> QED
  BY <1>2, <1>3

LEMMA UserType ==
  ASSUME CliTypeOK, Executing, NEW a \in Cmds, execUser(a)
  PROVE  SessionType
<1>1. cli \in Fd /\ cli \in clis
  BY DEF CliTypeOK, Executing
<1>2. CASE Refuse
  BY <1>2, RefuseType
<1>3. CASE ~Refuse
  <2>1. /\ uName' = uName \cup {cli}
        /\ UNCHANGED <<passOk, capInProgress, nick, gavePass, fdsToErase>>
        /\ WelcomeIfComplete({})
    BY <1>3 DEF execUser
  <2>2. Completes /\ resp' \subseteq Fd \X Msg
    BY <2>1, <1>1, WelcomeCompletes
  <2> QED
    BY <2>1, <2>2, <1>1 DEF CliTypeOK, SessionType, Completes
<1> QED
  BY <1>2, <1>3

LEMMA CapType ==
  ASSUME CliTypeOK, Executing, NEW a \in Cmds, execCap(a)
  PROVE  SessionType
<1>1. cli \in Fd /\ cli \in clis
  BY DEF CliTypeOK, Executing
<1>2. Message({cli}, "001", cli, "") \subseteq Fd \X Msg
  BY <1>1, WelcomeType
<1>3. /\ UNCHANGED <<passOk, nick, uName, gavePass, fdsToErase>>
      /\ capInProgress' \subseteq capInProgress \cup {cli}
      /\ welcomed' \subseteq welcomed \cup {cli}
      /\ resp' \subseteq Fd \X Msg
  BY <1>1, <1>2, ErrorType DEF execCap
<1> QED
  BY <1>1, <1>3 DEF CliTypeOK, SessionType

(* QUIT writes to all, MODE on a nickname and the other commands answer.   *)
LEMMA QuitType ==
  ASSUME CliTypeOK, Executing, NEW a \in Cmds, execQuit(a)
  PROVE  SessionType
<1>1. cli \in Fd /\ cli \in clis /\ clis \subseteq Fd
  BY DEF CliTypeOK, Executing
<1>2. resp' \subseteq Fd \X Msg
  <2>1. "QUIT" \in Kind /\ "" \in Word
    BY ClientsAssumption DEF Kind
  <2>2. \A c \in clis : Message({c}, "QUIT", c, "") \subseteq Fd \X Msg
    BY <2>1, <1>1, MessageType
  <2> QED
    BY <2>2 DEF execQuit
<1>3. fdsToErase' = fdsToErase \cup {cli} /\ UNCHANGED session
  BY DEF execQuit, MarkAuthor
<1> QED
  BY <1>1, <1>2, <1>3 DEF CliTypeOK, SessionType, session

LEMMA AnswerType ==
  ASSUME CliTypeOK, Executing, NEW a \in Cmds, execModeCli(a) \/ execInfo(a)
  PROVE  SessionType
<1>1. cli \in Fd
  BY DEF CliTypeOK, Executing
<1>2. Error \subseteq Fd \X Msg /\ Reply \subseteq Fd \X Msg
  BY <1>1, ErrorType
<1>3. UNCHANGED <<fdsToErase, session>>
  BY DEF execModeCli, execInfo
<1>4. resp' \subseteq Fd \X Msg
  <2>1. CASE execModeCli(a)
    <3>1. resp' \in {Error, Reply, {}}
      BY <2>1, Zenon DEF execModeCli
    <3> QED
      BY <3>1, <1>2
  <2>2. CASE execInfo(a)
    BY <2>2, <1>2 DEF execInfo
  <2> QED
    BY <2>1, <2>2
<1> QED
  BY <1>3, <1>4 DEF CliTypeOK, SessionType, session

(* Every command of registration.                                          *)
LEMMA CommandType ==
  ASSUME CliTypeOK, NEW a \in Cmds, CliCommand(a)
  PROVE  CliTypeOK'
<1>1. Executing /\ UNCHANGED <<phase, cli, clis>>
  BY DEF CliCommand
<1>2. SessionType
  BY <1>1, PassType, NickType, UserType, CapType, QuitType, AnswerType DEF CliCommand
<1> QED
  BY <1>1, <1>2 DEF CliTypeOK, SessionType

LEMMA ServeType ==
  ASSUME CliTypeOK, Serve
  PROVE  CliTypeOK'
<1>1. ASSUME NEW f \in Fd, addNewClient(f)
      PROVE  CliTypeOK'
  BY <1>1 DEF CliTypeOK, addNewClient, session
<1>2. ASSUME NEW c \in Fd, receiveBuf(c)
      PROVE  CliTypeOK'
  BY <1>2 DEF CliTypeOK, receiveBuf, session
<1>3. ASSUME NEW c \in Fd, hangUp(c)
      PROVE  CliTypeOK'
  BY <1>3 DEF CliTypeOK, hangUp, session
<1>4. CASE endPass
  BY <1>4 DEF CliTypeOK, endPass, session
<1> QED
  BY <1>1, <1>2, <1>3, <1>4 DEF Serve

(* At the top of the loop there is no author: none was kept from the last  *)
(* pass.                                                                   *)
NoAuthorAtTop == phase = "erase" => cli = None

LEMMA EraseType ==
  ASSUME CliTypeOK, NoAuthorAtTop, NEW f \in Fd, eraseUnusedCli(f)
  PROVE  CliTypeOK'
BY DEF CliTypeOK, NoAuthorAtTop, eraseUnusedCli, Forget

LEMMA StartType ==
  ASSUME CliTypeOK, startPass
  PROVE  CliTypeOK'
BY DEF CliTypeOK, startPass, session
-----------------------------------------------------------------------------
(* The inductive invariant of registration.                                *)
CliInv == CliTypeOK /\ NoAuthorAtTop

LEMMA CliInvInit == CliInit => CliInv
BY DEF CliInit, CliInv, CliTypeOK, NoAuthorAtTop

LEMMA CliInvNext == CliInv /\ [CliNext]_cliVars => CliInv'
<1> SUFFICES ASSUME CliInv, [CliNext]_cliVars
             PROVE  CliInv'
  OBVIOUS
<1>1. CASE Serve
  <2>1. CliTypeOK'
    BY <1>1, ServeType DEF CliInv
  <2>2. NoAuthorAtTop'
    BY <1>1 DEF Serve, addNewClient, receiveBuf, hangUp, endPass, NoAuthorAtTop
  <2> QED
    BY <2>1, <2>2 DEF CliInv
<1>2. ASSUME NEW f \in Fd, eraseUnusedCli(f)
      PROVE  CliInv'
  <2>1. CliTypeOK'
    BY <1>2, EraseType DEF CliInv
  <2> QED
    BY <1>2, <2>1 DEF CliInv, NoAuthorAtTop, eraseUnusedCli
<1>3. CASE startPass
  BY <1>3, StartType DEF CliInv, NoAuthorAtTop, startPass
<1>4. ASSUME NEW a \in Cmds, CliCommand(a)
      PROVE  CliInv'
  BY <1>4, CommandType DEF CliInv, NoAuthorAtTop, CliCommand
<1>5. CASE UNCHANGED cliVars
  BY <1>5 DEF CliInv, CliTypeOK, NoAuthorAtTop, cliVars, session
<1> QED
  BY <1>1, <1>2, <1>3, <1>4, <1>5 DEF CliNext

(* Every state is well formed, and nothing is kept of a client that was    *)
(* deleted: the next one on its descriptor starts blank.                   *)
THEOREM CliTypeCorrect == CliSpec => []CliTypeOK
<1>1. CliInv => CliTypeOK
  BY DEF CliInv
<1> QED
  BY <1>1, CliInvInit, CliInvNext, PTL DEF CliSpec
-----------------------------------------------------------------------------
(* Nicknames.                                                              *)

(* A nickname is never mistaken for the absence of one.                    *)
LEMMA BlankIsNoNick ==
  ASSUME CliTypeOK, NEW c \in Fd, NEW d \in Fd, nick[c] # "", nick[d] = ""
  PROVE  lower[nick[c]] # lower[nick[d]]
<1>1. nick[c] \in NickName
  BY DEF CliTypeOK
<1> QED
  BY <1>1, ClientsAssumption

(* A step that gives the author a nickname nobody answers to.              *)
LEMMA NickUniqueKept ==
  ASSUME CliTypeOK, NickUnique, NEW w, FreeNick(w), cli \in clis,
         nick' = [nick EXCEPT ![cli] = w], UNCHANGED clis
  PROVE  NickUnique'
<1>1. \A c \in clis : lower[nick[c]] # lower[w]
  BY DEF FreeNick, getCli
<1>2. nick' = [f \in Fd |-> IF f = cli THEN w ELSE nick[f]]
  BY DEF CliTypeOK
<1>3. clis \subseteq Fd
  BY DEF CliTypeOK
<1> SUFFICES ASSUME NEW c \in clis, NEW d \in clis, nick'[c] # "",
                    lower[nick'[c]] = lower[nick'[d]]
             PROVE  c = d
  BY DEF NickUnique
<1>4. CASE c # cli /\ d # cli
  BY <1>2, <1>3, <1>4 DEF NickUnique
<1>5. CASE c = cli \/ d = cli
  BY <1>1, <1>2, <1>3, <1>5
<1> QED
  BY <1>4, <1>5

LEMMA NickUniqueCommand ==
  ASSUME CliTypeOK, NickUnique, NEW a \in Cmds, CliCommand(a)
  PROVE  NickUnique'
<1>1. cli \in clis /\ UNCHANGED clis
  BY DEF CliCommand, Executing, CliTypeOK
<1>2. CASE execNick(a) /\ ~Refuse
  BY <1>1, <1>2, NickUniqueKept DEF execNick
<1>3. CASE ~(execNick(a) /\ ~Refuse)
  <2>1. UNCHANGED nick
    BY <1>3 DEF CliCommand, execPass, execNick, execUser, execCap, execQuit, execModeCli,
                execInfo, Refuse, session
  <2> QED
    BY <1>1, <2>1 DEF NickUnique
<1> QED
  BY <1>2, <1>3

LEMMA NickUniqueServe ==
  ASSUME CliTypeOK, NickUnique, Serve
  PROVE  NickUnique'
<1>1. ASSUME NEW f \in Fd, addNewClient(f)
      PROVE  NickUnique'
  <2>1. nick[f] = "" /\ clis' = clis \cup {f} /\ UNCHANGED nick /\ clis \subseteq Fd
    BY <1>1 DEF addNewClient, session, CliTypeOK
  <2>2. \A c \in clis : nick[c] # "" => lower[nick[c]] # lower[nick[f]]
    BY <2>1, BlankIsNoNick
  <2> QED
    BY <2>1, <2>2 DEF NickUnique
<1>2. CASE ~\E f \in Fd : addNewClient(f)
  BY <1>2 DEF Serve, receiveBuf, hangUp, endPass, session, NickUnique
<1> QED
  BY <1>1, <1>2

LEMMA NickUniqueErase ==
  ASSUME CliTypeOK, NickUnique, NEW f \in Fd, eraseUnusedCli(f)
  PROVE  NickUnique'
<1>1. /\ clis' = clis \ {f}
      /\ nick' = [g \in Fd |-> IF g = f THEN "" ELSE nick[g]]
      /\ clis \subseteq Fd
  BY DEF eraseUnusedCli, Forget, CliTypeOK
<1> QED
  BY <1>1 DEF NickUnique

(* Two clients never answer to the same nickname (NickUnique).             *)
THEOREM NicknamesAreUnique == CliSpec => []NickUnique
<1>1. CliInit => NickUnique
  BY DEF CliInit, NickUnique
<1>2. CliInv /\ NickUnique /\ [CliNext]_cliVars => NickUnique'
  <2> SUFFICES ASSUME CliInv, NickUnique, [CliNext]_cliVars
               PROVE  NickUnique'
    OBVIOUS
  <2>1. CliTypeOK
    BY DEF CliInv
  <2>2. CASE startPass \/ UNCHANGED cliVars
    BY <2>2 DEF startPass, cliVars, session, NickUnique
  <2> QED
    BY <2>1, <2>2, NickUniqueServe, NickUniqueErase, NickUniqueCommand DEF CliNext
<1> QED
  BY <1>1, <1>2, CliInvInit, CliInvNext, PTL DEF CliSpec
-----------------------------------------------------------------------------
(* The welcome, and the password.                                          *)

(* A client that completes its registration in this step is welcomed in it.*)
LEMMA WelcomeKept ==
  ASSUME CliTypeOK, WelcomeSent, Executing, UNCHANGED <<clis, capInProgress>>, Completes,
         passOk' \subseteq passOk \cup {cli}, uName' \subseteq uName \cup {cli},
         \A f \in Fd \ {cli} : nick'[f] = nick[f]
  PROVE  WelcomeSent'
<1> SUFFICES ASSUME NEW c \in clis \ capInProgress, Registered(c)'
             PROVE  c \in welcomed'
  BY DEF WelcomeSent
<1>1. CASE c = cli
  BY <1>1 DEF Completes, Registered
<1>2. CASE c # cli
  <2>1. c \in Fd
    BY DEF CliTypeOK
  <2> QED
    BY <1>2, <2>1 DEF Completes, WelcomeSent, Registered
<1> QED
  BY <1>1, <1>2

LEMMA WelcomeSentCommand ==
  ASSUME CliTypeOK, WelcomeSent, NEW a \in Cmds, CliCommand(a)
  PROVE  WelcomeSent'
<1>1. Executing /\ cli \in Fd /\ UNCHANGED clis
  BY DEF CliCommand, Executing, CliTypeOK
<1>2. ASSUME NEW others \in SUBSET (Fd \X Msg), WelcomeIfComplete(others)
      PROVE  Completes
  BY <1>1, <1>2, WelcomeCompletes
<1>3. CASE UNCHANGED session
  BY <1>1, <1>3 DEF session, WelcomeSent, Registered
<1>4. CASE execPass(a) /\ ~Refuse
  <2>1. /\ passOk' = passOk \cup {cli} /\ UNCHANGED <<capInProgress, nick, uName>>
        /\ WelcomeIfComplete({}) \/ WelcomeIfComplete(Error)
    BY <1>4 DEF execPass
  <2>2. Completes
    BY <2>1, <1>1, <1>2, ErrorType
  <2> QED
    BY <1>1, <2>1, <2>2, WelcomeKept
<1>5. CASE execNick(a) /\ ~Refuse
  <2>1. /\ nick' = [nick EXCEPT ![cli] = a[2]] /\ UNCHANGED <<passOk, capInProgress, uName>>
        /\ WelcomeIfComplete({})
    BY <1>5 DEF execNick
  <2>2. \A f \in Fd \ {cli} : nick'[f] = nick[f]
    BY <2>1 DEF CliTypeOK
  <2> QED
    BY <1>1, <1>2, <2>1, <2>2, WelcomeKept
<1>6. CASE execUser(a) /\ ~Refuse
  <2>1. /\ uName' = uName \cup {cli} /\ UNCHANGED <<passOk, capInProgress, nick>>
        /\ WelcomeIfComplete({})
    BY <1>6 DEF execUser
  <2> QED
    BY <1>1, <1>2, <2>1, WelcomeKept
<1>7. CASE execCap(a)
  BY <1>1, <1>7 DEF execCap, WelcomeSent, Registered
<1>8. CASE Refuse \/ execQuit(a) \/ execModeCli(a) \/ execInfo(a)
  <2>1. UNCHANGED session
    BY <1>8 DEF Refuse, execQuit, execModeCli, execInfo
  <2> QED
    BY <1>3, <2>1
<1> QED
  BY <1>4, <1>5, <1>6, <1>7, <1>8 DEF CliCommand

LEMMA WelcomeSentNext ==
  ASSUME CliTypeOK, WelcomeSent, [CliNext]_cliVars
  PROVE  WelcomeSent'
<1>1. CASE Serve
  <2>1. ASSUME NEW f \in Fd, addNewClient(f)
        PROVE  WelcomeSent'
    <3>1. f \notin passOk /\ clis' = clis \cup {f} /\ UNCHANGED session
      BY <2>1 DEF addNewClient, CliTypeOK
    <3> QED
      BY <3>1 DEF session, WelcomeSent, Registered
  <2>2. CASE ~\E f \in Fd : addNewClient(f)
    BY <1>1, <2>2 DEF Serve, receiveBuf, hangUp, endPass, session, WelcomeSent, Registered
  <2> QED
    BY <2>1, <2>2
<1>2. ASSUME NEW f \in Fd, eraseUnusedCli(f)
      PROVE  WelcomeSent'
  <2>1. \A c \in clis' : c # f /\ c \in clis /\ nick'[c] = nick[c]
    BY <1>2 DEF eraseUnusedCli, Forget, CliTypeOK
  <2> QED
    BY <1>2, <2>1 DEF eraseUnusedCli, Forget, WelcomeSent, Registered
<1>3. CASE startPass \/ UNCHANGED cliVars
  BY <1>3 DEF startPass, cliVars, session, WelcomeSent, Registered
<1> QED
  BY <1>1, <1>2, <1>3, WelcomeSentCommand DEF CliNext

(* Nobody is left without the RPL_WELCOME they are owed (WelcomeSent).     *)
THEOREM WelcomeIsSent == CliSpec => []WelcomeSent
<1>1. CliInit => WelcomeSent
  BY DEF CliInit, WelcomeSent
<1>2. CliInv /\ WelcomeSent /\ [CliNext]_cliVars => WelcomeSent'
  BY WelcomeSentNext DEF CliInv
<1> QED
  BY <1>1, <1>2, CliInvInit, CliInvNext, PTL DEF CliSpec

LEMMA WrongPassNext ==
  ASSUME WrongPassDropped, [CliNext]_cliVars
  PROVE  WrongPassDropped'
<1>1. CASE Serve \/ startPass \/ UNCHANGED cliVars
  BY <1>1 DEF Serve, addNewClient, receiveBuf, hangUp, endPass, startPass, cliVars, session,
              WrongPassDropped
<1>2. ASSUME NEW f \in Fd, eraseUnusedCli(f)
      PROVE  WrongPassDropped'
  BY <1>2 DEF eraseUnusedCli, Forget, WrongPassDropped
<1>3. ASSUME NEW a \in Cmds, execPass(a)
      PROVE  WrongPassDropped'
  BY <1>3 DEF execPass, Refuse, session, MarkAuthor, WrongPassDropped
<1>4. ASSUME NEW a \in Cmds, execNick(a) \/ execUser(a) \/ execCap(a) \/ execQuit(a)
                             \/ execModeCli(a) \/ execInfo(a)
      PROVE  WrongPassDropped'
  BY <1>4 DEF execNick, execUser, execCap, execQuit, execModeCli, execInfo, Refuse,
              session, MarkAuthor, WrongPassDropped
<1> QED
  BY <1>1, <1>2, <1>3, <1>4 DEF CliNext, CliCommand

(* A client past the password check without the right password is on its   *)
(* way out (WrongPassDropped): the mark of execPass is never taken back    *)
(* before the client is deleted.                                           *)
THEOREM WrongPassIsDropped == CliSpec => []WrongPassDropped
<1>1. CliInit => WrongPassDropped
  BY DEF CliInit, WrongPassDropped
<1> QED
  BY <1>1, WrongPassNext, PTL DEF CliSpec
-----------------------------------------------------------------------------
(* Refinement: every step of registration is a step of Lifecycle.tla, or   *)
(* leaves what it speaks of unchanged.                                     *)
LEMMA LifeStep ==
  ASSUME CliInv, [CliNext]_cliVars
  PROVE  [Life!LifeNext]_Life!lifeVars
<1>1. ASSUME NEW f \in Fd, addNewClient(f)
      PROVE  Life!Accept(f)
  BY <1>1 DEF addNewClient, Life!Accept
<1>2. ASSUME NEW c \in Fd, receiveBuf(c)
      PROVE  Life!Serve(c)
  BY <1>2 DEF receiveBuf, Life!Serve
<1>3. ASSUME NEW c \in Fd, hangUp(c)
      PROVE  Life!Serve(c)
  BY <1>3 DEF hangUp, Life!Serve
<1>4. ASSUME endPass
      PROVE  Life!EndPass
  BY <1>4 DEF endPass, Life!EndPass
<1>5. ASSUME NEW f \in Fd, eraseUnusedCli(f)
      PROVE  Life!Close({f})
  BY <1>5 DEF eraseUnusedCli, Life!Close
<1>6. ASSUME startPass
      PROVE  Life!Close({})
  BY <1>6 DEF startPass, Life!Close
<1>7. ASSUME NEW a \in Cmds, CliCommand(a)
      PROVE  Life!MarkAuthor \/ UNCHANGED Life!lifeVars
  BY <1>7 DEF CliCommand, Executing, execPass, execNick, execUser, execCap, execQuit,
              execModeCli, execInfo, Refuse, MarkAuthor, Life!MarkAuthor, Life!lifeVars
<1>8. CASE UNCHANGED cliVars
  BY <1>8 DEF cliVars, Life!lifeVars
<1> QED
  BY <1>1, <1>2, <1>3, <1>4, <1>5, <1>6, <1>7, <1>8 DEF CliNext, Serve, Life!LifeNext

(* Registration keeps the promises of the loop (KeepsLife).                *)
THEOREM RegistrationKeepsLife == CliSpec => KeepsLife
<1>1. CliInit => Life!LifeInit
  BY DEF CliInit, Life!LifeInit
<1>2. CliInv /\ [CliNext]_cliVars => [Life!LifeNext]_Life!lifeVars
  BY LifeStep
<1> QED
  BY <1>1, <1>2, CliInvInit, CliInvNext, PTL DEF CliSpec, KeepsLife, Life!LifeSpec
=============================================================================
