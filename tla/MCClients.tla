----------------------------- MODULE MCClients -----------------------------
(* Two descriptors and three nicknames, two of which differ only in        *)
(* case.  The right password is "pw".                                      *)
EXTENDS Clients

MCWord == {"", "0", "PASS", "NICK", "USER", "CAP", "QUIT", "PING", "MODE", "WHOIS",
           "HELLO", "pw", "no", "al", "AL", "bo", "9x", "LS", "END", "+i", "u", "*",
           "al,bo"}
MCLower == [w \in MCWord |-> IF w = "AL" THEN "al" ELSE w]
MCSub == [w \in MCWord |-> IF w = "" THEN <<>>
                           ELSE IF w = "al,bo" THEN <<"al", "bo">> ELSE <<w>>]
MCNick == {"al", "AL", "bo"}
MCCmds ==
  {<<"PASS">>, <<"PASS", "pw">>, <<"PASS", "no">>,
   <<"NICK">>, <<"NICK", "al">>, <<"NICK", "AL">>, <<"NICK", "bo">>, <<"NICK", "9x">>,
   <<"USER", "u">>, <<"USER", "u", "0", "*", "u">>,
   <<"CAP">>, <<"CAP", "LS">>, <<"CAP", "END">>, <<"QUIT">>,
   <<"PING">>, <<"MODE">>, <<"MODE", "al">>, <<"MODE", "al", "+i">>,
   <<"WHOIS">>, <<"WHOIS", "al,bo">>, <<"HELLO">>}
=============================================================================
