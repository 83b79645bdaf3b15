----------------------------- MODULE MCChannels -----------------------------
(* The words and the command sets the configurations of Channels choose    *)
(* from.  Two clients are told apart by nothing but their descriptors, so  *)
(* Fd is a set of model values and its permutations a symmetry.            *)
EXTENDS Channels, TLC

Signs == {"+i", "-i", "+t", "-t", "+k", "-k", "+l", "-l", "+o", "-o", "+x"}
Names == {"al", "bo", "cy", "al,bo", "al,al", "zz", "al,zz", "#a,zz"}
HashWords == {"#a", "#A", "#b", "#c", "#0", "#a,#b", "#a,#0", "#a,#a",
              "#a,#b,#c"}

MCWord == Signs \cup Names \cup HashWords \cup
          {"", ":", "0", "1", "-1", "4294967297", "PASS", "NICK", "USER", "QUIT",
           "JOIN", "PART", "KICK", "INVITE", "MODE", "TOPIC", "PRIVMSG", "NOTICE",
           "pw", "no", "k1", "k2", "k1,k2", "t", "u", "*"}
MCHash == HashWords \cup {"#a,zz"}
MCChName == {"#a", "#A", "#b", "#c"}
MCLower == [w \in MCWord |-> IF w = "#A" THEN "#a" ELSE w]
MCSub == [w \in MCWord |->
            CASE w = "" -> <<>>
              [] w = "al,bo" -> <<"al", "bo">>
              [] w = "al,al" -> <<"al", "al">>
              [] w = "al,zz" -> <<"al", "zz">>
              [] w = "#a,zz" -> <<"#a", "zz">>
              [] w = "#a,#b" -> <<"#a", "#b">>
              [] w = "#a,#0" -> <<"#a", "#0">>
              [] w = "#a,#a" -> <<"#a", "#a">>
              [] w = "#a,#b,#c" -> <<"#a", "#b", "#c">>
              [] w = "k1,k2" -> <<"k1", "k2">>
              [] OTHER -> <<w>>]

(* atoi keeps the low 32 bits of what it reads: 2^32 + 1 is 1.             *)
MCAtoi == [w \in MCWord |-> CASE w \in {"1", "4294967297"} -> 1
                              [] w = "-1" -> -1
                              [] OTHER -> 0]
MCNick == {"al", "bo", "cy"}

Symmetry == Permutations(Fd)

(* Registration as the channel runs need it: nothing but what succeeds.    *)
Register(nicks) ==
  {<<"PASS", "pw">>, <<"USER", "u", "0", "*", "u">>} \cup {<<"NICK", n>> : n \in nicks}

(* Who is on a channel, every way on it and off it, and who hears what.    *)
MembersCmds ==
  Register({"al", "bo", "cy"}) \cup
  {<<"QUIT">>, <<"JOIN", "#a">>, <<"JOIN", "0">>, <<"PART", "#a">>,
   <<"KICK", "#a", "al">>, <<"KICK", "#a", "al,bo">>,
   <<"PRIVMSG", "al">>, <<"PRIVMSG", "al,al", "t">>, <<"PRIVMSG", "#a,zz", "t">>,
   <<"NOTICE", "#a,zz", "t">>, <<"NOTICE", "al,zz", "t">>, <<"NOTICE", "al">>}

(* These clients are careful, so that no null pointer is to be read.       *)
ASSUME MembersAreCareful == Cmds = MembersCmds => Careful

(* The modes of a channel and what they protect; several channels, with    *)
(* lists that are refused half-way and a name that differs in case.        *)
ModesCmds ==
  Register({"al", "bo"}) \cup
  {<<"JOIN", "#a">>, <<"JOIN", "#a", "k1">>, <<"JOIN", "#a", "k2">>,
   <<"PART", "#a">>, <<"INVITE", "bo", "#a">>,
   <<"MODE", "#a">>, <<"MODE", "#a", "+i">>, <<"MODE", "#a", "-i", "-t", "-k", "-l", "+x">>,
   <<"MODE", "#a", "+t", "+k", "k1">>, <<"MODE", "#a", "+k", "k1">>,
   <<"MODE", "#a", "+l", "4294967297">>, <<"MODE", "#a", "+l", "-1", "-o", "al">>,
   <<"MODE", "#a", "+o", "al,zz">>, <<"MODE", "#a", "-o", "bo">>, <<"MODE", "#a", "+o">>,
   <<"TOPIC", "#a">>, <<"TOPIC", "#a", "t">>, <<"TOPIC", "#a", ":">>} \cup
  {<<"JOIN">>, <<"JOIN", "#a,#b">>, <<"JOIN", "#a,#0">>, <<"JOIN", "#A">>, <<"JOIN", "0">>,
   <<"MODE", "#A">>, <<"TOPIC", "#A">>, <<"INVITE", "al", "#A">>, <<"KICK", "#A", "al">>,
   <<"KICK", "#a,#b", "al">>, <<"PART">>, <<"PART", "#A">>, <<"PRIVMSG", "#A", "t">>}

(* One question: PART of a list of channels.                               *)
PartListCmds == Register({"al"}) \cup {<<"JOIN", "#a,#b">>, <<"PART", "#a,#b">>}
=============================================================================
