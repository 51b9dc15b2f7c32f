------------------------------ MODULE MCServices ------------------------------
(* Instances of Services.                                                   *)
EXTENDS Services, TLC

\* Names, the words of values and what strtol() makes of them.
MCNames ==
  {"zhjs", "ZHJS", "hd_humtime", "loop_time", "system_config", "serial_number", "eth0",
   "net_ipaddr", "net_gateway"}
MCLower == [n \in MCNames |-> IF n = "ZHJS" THEN "zhjs" ELSE n]
MCWords == {"0", "20", "30", "n1", "10.1", "g1", "g2", "g3"}
MCToInt == [w \in MCWords |-> CASE w = "20" -> 20 [] w = "30" -> 30 [] OTHER -> 0]
\* Sections and keys of sections; equal lengths collide.
MCEntries == {<<s>> : s \in MCNames} \cup ({""} \cup MCNames) \X MCNames
MCHash == [e \in MCEntries |-> Len(e)]
L(form, name, val) == [form |-> form, name |-> name, val |-> val, more |-> FALSE]

\* Every text of up to MaxText of these lines.
MCTextLines ==
  {L("blank", "zhjs", <<>>), L("section", "ZHJS", <<>>), L("section", "eth0", <<>>),
   L("plain", "eth0", <<"20">>), L("plain", "ZHJS", <<"30", ";", "0">>),
   L("quoted", "zhjs", <<"n1", ";">>), L("semicolon", "zhjs", <<>>),
   L("junk", "zhjs", <<>>), L("long", "zhjs", <<>>),
   [L("plain", "eth0", <<>>) EXCEPT !.more = TRUE]}
MCDictKeys == {<<"zhjs">>, <<"eth0">>, <<"zhjs", "eth0">>, <<"", "eth0">>}
MCDictValues == {<<"20">>}

\* As installed; without the settings; written by hand for iniparser only; unreadable;
\* with a section twice, to iniparser.
Installed ==
  <<L("section", "zhjs", <<>>), L("hash", "zhjs", <<>>), L("plain", "hd_humtime", <<"20">>),
    L("plain", "loop_time", <<"30", ";", "0">>)>>
Bare == <<L("section", "ZHJS", <<>>), L("plain", "loop_time", <<"20">>), L("section", "eth0", <<>>)>>
ByHand ==
  <<L("section", "zhjs", <<>>), L("plain", "loop_time", <<"30">>), L("semicolon", "zhjs", <<>>),
    L("plain", "hd_humtime", <<"20">>)>>
Unreadable == <<L("section", "zhjs", <<>>), L("plain", "loop_time", <<"30">>), L("junk", "zhjs", <<>>)>>
TwoSpellings ==
  <<L("section", "zhjs", <<>>), L("plain", "hd_humtime", <<"20">>),
    L("section", "ZHJS", <<>>), L("plain", "hd_humtime", <<"30">>)>>
Sys ==
  <<L("section", "system_config", <<>>), L("plain", "serial_number", <<"n1">>),
    L("section", "eth0", <<>>), L("plain", "net_ipaddr", <<"10.1">>)>>
MCDisks ==
  {[conf |-> Installed, sys |-> Sys], [conf |-> Bare, sys |-> <<>>],
   [conf |-> ByHand, sys |-> Sys], [conf |-> Unreadable, sys |-> <<>>],
   [conf |-> TwoSpellings, sys |-> Sys]}

Order(name) == [ordertype |-> name, json |-> TRUE]
Sysset(v) == [ordertype |-> "sysset", json |-> TRUE, values |-> v]
NumberOrder(v) == [ordertype |-> "serial_number", json |-> TRUE, val |-> v]
NetsetOrder(a, g) == [ordertype |-> "netset", json |-> TRUE, address |-> a, gateway |-> g]
MCRequests ==
  {Sysset("hd_humtime" :> <<"30">>), Sysset("loop_time" :> <<"0">>),
   Sysset("hd_humtime" :> <<"20">> @@ "loop_time" :> <<"20">>),
   NumberOrder(<<>>), NumberOrder(<< <<"n1", ";", "0">> >>),
   NetsetOrder("10.1", "none"), NetsetOrder("none", "g2"), Order("sysinfo"), Order("heartbeat"),
   [ordertype |-> "cmd", json |-> TRUE, fails |-> TRUE], Order("update"),
   [ordertype |-> "unkown", json |-> FALSE]}
LinePiece(len, number) == [len |-> len, number |-> number]
MCPieces == {<<LinePiece(1, FALSE)>>, <<LinePiece(3, FALSE)>>, <<LinePiece(1, TRUE), LinePiece(2, FALSE), LinePiece(1, TRUE)>>}
MCGateways == {<<>>, <<"g1", "g2">>}
MCOtherGateways == <<"g3">>

\* Parameters of a touch switch, a jack behind a router and a meter.
P(addr, len, type, scale, colum) ==
  [addr |-> addr, len |-> len, type |-> type, scale |-> scale, bits |-> <<>>, colum |-> colum]
Bit(addr, bits, colum) == [P(addr, 1, "bit", 1, colum) EXCEPT !.bits = bits]
Row(hdid, hdtype, routed) == [hdid |-> hdid, hdtype |-> hdtype, routed |-> routed]

SwitchParams ==
  <<P(2, 1, "hex", 1, "sw_ctl1"), P(6, 2, "int", 10, "hd_temp"), P(3, 1, "hex", 1, "sw_ctl2"),
    P(5, 1, "hex", 1, "sw_ctl4"), P(4, 1, "hex", 1, "sw_ctl3")>>
JackParams ==
  <<P(3, 4, "bcd", 1, "hd_energy"), Bit(8, <<4>>, "hd_on"), P(1, 2, "float", 100, "hd_power"),
    Bit(8, <<3, 0>>, "hd_mode")>>
MeterParams ==
  <<P(4, 3, "float", 100, "hd_power"), P(0, 4, "float", 100, "hd_energy")>>
Sound ==
  [params |-> [t \in {"5", "4", "1000"} |->
                 CASE t = "5" -> SwitchParams [] t = "4" -> JackParams [] t = "1000" -> MeterParams],
   rows |-> [com1 |-> <<Row("d1", "5", FALSE), Row("d2", "4", TRUE)>>,
             com2 |-> <<Row("d3", "1000", FALSE)>>, com3 |-> <<>>]]
\* A switch without its first register; a length ds_bus does not survive; a row of a type
\* without table; a routed device whose protocol has no router.
Incomplete ==
  [params |-> [t \in {"5", "3"} |->
                 IF t = "5" THEN Tail(SwitchParams)
                 ELSE <<P(1, 3, "int", 10, "hd_power"), P(1, 6, "bcdtime", 1, "hd_time")>>],
   rows |-> [com1 |-> <<Row("d1", "5", TRUE), Row("d2", "6", FALSE)>>,
             com2 |-> <<Row("d3", "5", FALSE), Row("d4", "3", FALSE)>>,
             com3 |-> <<Row("d5", "1002", TRUE)>>]]
MCDatabases == {Sound, Incomplete}
MCComNames == <<"com1", "com2", "com3">>
MCReadings == {"closed", "mixed"}
MCByte == [b \in (0..12) \X MCReadings |->
  [on |-> b[2] = "closed" \/ (b[2] = "mixed" /\ b[1] = 3),
   manual |-> b[2] = "closed", ctl |-> b[2] = "mixed" /\ b[1] % 2 = 0]]

\* Rows with settings of their own, one with a parity no driver knows; a cmd may name any
\* rate and parity.
Settings(baud, parity) == [baud |-> baud, parity |-> parity, data_bit |-> 8, stop_bit |-> 1]
Ask(by, settings) == [by |-> by, settings |-> settings]
MCUsers == {"threads", "server"}
MCMutexOf == [u \in MCUsers |-> "com1"]
MCAsks == [u \in MCUsers |->
  CASE u = "threads" ->
         {Ask("ds_bus", Settings(9600, "N")), Ask("dlt645", Settings(2400, "E")),
          Ask("modbus", Settings(9600, "X")), Ask("modbus_router", Settings(9600, "N")),
          Ask("ds_bus_router", Settings(9600, "N")), Ask("dlt645_router", Settings(1200, "E"))}
    [] u = "server" ->
         {Ask("setorder", Settings(2400, "E")), Ask("cmd", Settings(115200, "N")),
          Ask("cmd", Settings(14400, "M"))}]
MCFresh == [speed |-> 38400, bits |-> 8, stops |-> 1, parity |-> "N", raw |-> FALSE]

\* What a client may send, and what the program may reply.
Symbol(t) == [t |-> t, raw |-> <<>>]
Quoted(raw) == [t |-> "string", raw |-> raw]
Figure(raw) == [t |-> "number", raw |-> raw]
MCTokens ==
  {Symbol(t) : t \in {"LeftCurly", "RightCurly", "LeftBracket", "RightBracket", "Comma", "Colon",
                      "null", "true", "junk", "end"}} \cup
  {Quoted(<<"a">>), Figure(<<"1">>), Figure(<<"0", "1">>)}
NumberChars == {"-", "0", "1", "5", "8", ".", "e"}
MCRoots ==
  {Figure(raw) : raw \in UNION {[1..n -> NumberChars] : n \in 1..3}} \cup
  {Figure(raw) : raw \in [1..4 -> NumberChars \ {"e", "."}]} \cup
  {Symbol("false")} \cup
  {Quoted(raw) : raw \in
    {<<"\\", "u", "D", "8", "0", "0", "\\", "u", "D", "C", "0", "0">>,
     <<"\\", "u", "D", "8", "0", "0", "\\", "u", "0", "0", "4", "1">>,
     <<"\\", "u", "D", "8", "0", "0">>, <<"\\", "u", "0", "0", "4", "g">>,
     <<"\\", "u", "0", "0", "4", "1">>, <<"\\", "x">>, <<"\\", "/", "\\", "t">>,
     <<"LF">>, <<"a", "NUL">>}}
TextChars == {"a", "quote", "\\", "n", "LF", "SOH", "hi", "NUL"}
MCTexts ==
  [1..1 -> TextChars] \cup {<<>>, <<"\\", "n">>, <<"quote", "LF">>, <<"SOH", "\\">>, <<"a", "NUL", "a">>}
MCMoreTexts == {<<"quote", "a">>}
MCHexChars == {"0", "b", "F", " ", "x"}
==============================================================================
