------------------------------ MODULE MCParts ------------------------------
(* Parts for TLC.                                                          *)
EXTENDS Parts, TLC

CONSTANTS backup, config, prog   \* files beside the logs

MCOther == {backup, config, prog}
MCDateOf == (backup :> 2) @@ (config :> NoDate) @@ (prog :> Short)

Between(low, high) == [from |-> low, to |-> high]
MCNever == -20
MCHold == ("ResetBle" :> Between(1, 3)) @@ ("SetModeApWifi" :> Between(3, 5))
            @@ ("setDormitory" :> Between(5, 7)) @@ ("ResetFactory" :> Between(7, 9))

Frame(data) ==
  [bytes |-> <<170, 85, Len(data) + 2, 0, 1, 0>> \o data \o <<99>>, data |-> data]
Noise(b) == [bytes |-> b, data |-> <<>>]
MCSent ==
  {<<Frame(<<1, 1, 0, 1>>), Frame(<<1, 1, 1, 1>>)>>,
   <<Noise(<<3, 0, 5>>), Frame(<<0, 1, 0, 1>>)>>,
   <<Frame(<<1, 0, 1, 1, 7, 7>>), Noise(<<85, 85, 4, 0>>), Frame(<<0, 0, 1, 1>>)>>,
   <<Frame(<<1, 1, 1, 0>>), Noise(<<0, 0, 0, 0, 0, 0, 0>>)>>,
   <<Noise(<<170, 85, 4, 0>>), Frame(<<1, 0, 1, 1>>)>>}

Repeat(b, n) == [i \in 1 .. n |-> b]
Hyphen == 45

\* the last 43 bytes: number, code and serial of one letter, the mac's tail
Tail43(letter, mark, tail) ==
  Repeat(letter, 13) \o Repeat(letter + 1, 8) \o Repeat(letter + 2, 9) \o <<mark>>
    \o Repeat(65, 8) \o tail
Product(letter, mark, tail) == Repeat(88, 80) \o Tail43(letter, mark, tail)
MCScanned ==
  {<<Product(70, Hyphen, <<56, 48, 48, 49>>), Product(75, Hyphen, <<48, 48, 48, 49>>)>>,
   <<Product(70, 46, <<48, 49, 65, 70>>), Product(75, Hyphen, <<56, 48, 48, 48>>)>>,
   <<Repeat(89, 90) \o Tail43(70, Hyphen, <<70, 70, 102, 102>>), Repeat(88, 60)>>,
   <<Repeat(89, 100), Repeat(72, 9) \o <<Hyphen>> \o Repeat(66, 8) \o <<57, 71, 48, 48>>>>}

MCTopics ==
  {<<"", "v2", "server", "hc", "mac", "json_req">>,
   <<"", "v2", "server", "hc", "mac", "json_resp">>,
   <<"", "v2", "mobile", "+", "hc", "mac", "json_req">>,
   <<"", "v2", "mobile", "+", "hc", "mac", "json_resp">>,
   <<"v2", "bin", "resp", "server", "mac", "+", "+">>}

Symmetry == Permutations(Callers) \cup Permutations(Handlers) \cup Permutations(Loggers)
=============================================================================
