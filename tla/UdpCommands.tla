------------------------------ MODULE UdpCommands ------------------------------
(***************************************************************************)
(* The commands of the UDP server but those that deal with threads and     *)
(* serial ports (see ThreadControl): one datagram at a time is parsed, the *)
(* operation registered for its ordertype writes files, sets the network   *)
(* up or reads the system's state, and the reply is sent.                  *)
(*                                                                         *)
(* Operations open files they do not close: descriptors run out.           *)
(***************************************************************************)
EXTENDS IniFile

CONSTANTS
  Datagrams,     \* the datagrams clients send
  Disks,         \* what the two files may hold at first
  Gateways,      \* sequences of gateways "eth0" may have at first
  OtherGateways, \* those of "eth1"
  MaxFds,        \* descriptors left when the server starts
  Garbage,       \* an integer nobody has set
  MaxRequests, MaxFaults        \* bounds

\* The names the program writes, and the values it writes for a request.
WrittenNames ==
  {"zhjs", "hd_humtime", "loop_time", "system_config", "serial_number", "eth0", "net_ipaddr",
   "net_gateway"}
ValuesOf(r) ==
  CASE r.ordertype = "sysset" -> {r.values[k] : k \in DOMAIN r.values}
    [] r.ordertype = "serial_number" -> IF r.val = <<>> THEN {} ELSE {r.val[1]}
    [] r.ordertype = "netset" -> {<<r.address>>, <<r.gateway>>} \ {<<"none">>}
    [] OTHER -> {}

CommandsConstants ==
  /\ IniConstants
  /\ MaxFds \in Nat
  /\ \A g \in Gateways : g \in Seq(Range(g))
  /\ \A d \in Disks :
       DOMAIN d = {"conf", "sys"} /\ d.conf \in Seq(Lines) /\ d.sys \in Seq(Lines)
  /\ \A n \in WrittenNames : n \in Names /\ Lower[n] = n
  /\ \A r \in Datagrams : r.json => ValuesOf(r) \subseteq LineValues

VARIABLES
  disk,          \* [conf, sys]: the lines of zhjs.conf and sysconf.conf
  net,           \* [address, routes] of the kernel: the gateways of each interface
  fds,           \* descriptors left
  proc,          \* files in /proc sysinfo has open
  serving,       \* "loop", "write", "saved", "encode", "send"
  cmd,           \* the request at hand
  writes,        \* what is still to be written to files: [file, group, keys]
  opened,        \* what will be written to the file that is open, now empty
  sysset,        \* json_sysset: hd_humtime, loop_time
  json_op_map,   \* ordertypes with an entry, which is NULL or not
  json_string,   \* the reply, kept from one command to the next
  thread_running_flag,
  readBack,      \* history: the settings that the last reply of sysset found in the
                 \* file; <<>> if it told what was in memory, and after a sysset that crashed
  requests, faults

kept == <<net, proc, sysset, json_op_map, json_string, thread_running_flag, readBack>>
commandVars ==
  <<disk, net, fds, proc, serving, cmd, writes, opened, sysset, json_op_map, json_string,
    thread_running_flag, readBack, requests, faults>>

Registered ==
  {"heartbeat", "setorder", "thread", "sysinfo", "netinfo", "serial_number", "netset",
   "sysop", "cmd", "battery", "sysset"}
Prog == "zhjs"

CommandFault == faults < MaxFaults /\ faults' = faults + 1

\* fopen() fails without a descriptor.
Opens == fds > 0
Integer(key, old) == IF Opens THEN GetProfileInteger(disk.conf, Prog, key, old) ELSE old
Serial ==
  IF Opens THEN GetProfileString(disk.sys, "system_config", "serial_number", <<>>) ELSE <<>>

------------------------------------------------------------------------------
(* The network                                                             *)

RoutesOf(dev) == net.routes[dev]
Smaller(m, n) == IF m < n THEN m ELSE n

\* getroutes(): the last gateway of the interface.
GetRoutes(dev) == IF RoutesOf(dev) = <<>> THEN "none" ELSE Last(RoutesOf(dev))

\* get_net_info(): "lo", "eth0" and "eth1" in turn.  For each, getroutes() and
\* get_net_bytes_by_name() open a file and keep it, while a socket is open; without a
\* descriptor getroutes() finds no gateway.
Opened == Smaller(6, fds - 1)

\* inet_ntoa() has one buffer: the gateway of an interface that has one reads as that
\* of the last interface that has one.
NetReply(ordertype) ==
  [ordertype |-> ordertype, net_name |-> "eth0", net_ipaddr |-> net.address,
   net_gateway |->
     IF GetRoutes("eth0") = "none" \/ Opened < 3 THEN "none"
     ELSE IF GetRoutes("eth1") # "none" /\ Opened >= 5 THEN GetRoutes("eth1")
     ELSE GetRoutes("eth0")]

\* The bytes of an interface that are not read stay a pointer nobody has set: sysinfo
\* follows that of "eth0", the others free those of all three.
Unread == Opened < (IF cmd.ordertype = "sysinfo" THEN 4 ELSE 6)

\* Then sysinfo opens two files in /proc the first time, and exits if it cannot.
ProcFiles(ordertype) == IF ordertype = "sysinfo" THEN 2 - proc ELSE 0

\* Mutant: one route is deleted, not all.
DeletedRoutesOne(failing) ==
  IF failing = "delete" THEN 0 ELSE Smaller(1, Len(RoutesOf("eth0")))

\* del_route_gateway(): as long as getroutes() finds one, which opens a file and keeps it,
\* and a socket is to be had, which is kept when the route cannot be deleted.
DeletedRoutes(failing) ==
  IF failing = "delete" THEN 0 ELSE Smaller(Len(RoutesOf("eth0")), fds - 1)
AfterDelete(failing) ==
  LET used == IF failing = "delete" /\ RoutesOf("eth0") # <<>> THEN 2
              ELSE Len(RoutesOf("eth0")) + 1
  IN IF fds > used THEN fds - used ELSE 0
Remaining(failing) ==
  SubSeq(RoutesOf("eth0"), 1, Len(RoutesOf("eth0")) - DeletedRoutes(failing))

\* netset(): the address, then the gateway.  A call that fails is reported; no other is
\* left out for it.
SetAddress(failing) ==
  IF cmd.address = "none" \/ failing = "address" THEN net.address ELSE cmd.address
SetGateway(failing) ==
  /\ fds' = IF cmd.gateway = "none" THEN fds ELSE AfterDelete(failing)
  /\ net' = [net EXCEPT
       !.address = SetAddress(failing),
       !.routes["eth0"] =
         IF cmd.gateway = "none" THEN @
         ELSE IF AfterDelete(failing) = 0 \/ failing = "add" THEN Remaining(failing)
         ELSE Append(Remaining(failing), cmd.gateway)]

------------------------------------------------------------------------------
(* The server                                                              *)

Error(ordertype) == [ordertype |-> ordertype, info |-> "error"]

\* parse_json(): GetJsonOp() leaves a NULL entry for an ordertype it does not know.
GetJsonOp(name) ==
  IF name \in DOMAIN json_op_map THEN json_op_map
  ELSE [n \in DOMAIN json_op_map \cup {name} |-> IF n = name THEN FALSE ELSE json_op_map[n]]

Write(file, group, keys) == [file |-> file, group |-> group, keys |-> keys]
OneKey(k, v) == <<[key |-> k, val |-> v]>>

\* sysset writes the settings one after the other; 0 is not written.
SettingWrite(values, k) ==
  IF k \in DOMAIN values /\ strtol(values[k]) # 0
  THEN <<Write("conf", Prog, OneKey(k, values[k]))>> ELSE <<>>
SyssetWrites(values) == SettingWrite(values, "hd_humtime") \o SettingWrite(values, "loop_time")

\* netset writes what it was given.
NetKey(k, v) == IF v = "none" THEN <<>> ELSE OneKey(k, <<v>>)
NetsetWrites(r) ==
  <<Write("sys", "eth0", NetKey("net_ipaddr", r.address) \o NetKey("net_gateway", r.gateway))>>

Handle(r) ==
  CASE r.ordertype = "sysset" ->
         /\ writes' = SyssetWrites(r.values)
         /\ sysset' = [k \in DOMAIN sysset |->
                         IF k \in DOMAIN r.values THEN strtol(r.values[k]) ELSE sysset[k]]
         /\ UNCHANGED thread_running_flag
    [] r.ordertype = "serial_number" ->
         /\ writes' = IF r.val = <<>> THEN <<>>
                      ELSE <<Write("sys", "system_config", OneKey("serial_number", r.val[1]))>>
         /\ UNCHANGED <<sysset, thread_running_flag>>
    [] r.ordertype = "netset" ->
         /\ writes' = NetsetWrites(r)
         /\ UNCHANGED <<sysset, thread_running_flag>>
    [] r.ordertype = "heartbeat" -> thread_running_flag' = TRUE /\ writes' = <<>> /\ UNCHANGED sysset
    [] OTHER -> writes' = <<>> /\ UNCHANGED <<sysset, thread_running_flag>>

\* Mutant: nothing is written to say that a command is not known.
ReceiveQuietly(r) ==
  /\ serving = "loop" /\ requests < MaxRequests /\ requests' = requests + 1
  /\ cmd' = r
  /\ json_op_map' = IF r.json THEN GetJsonOp(r.ordertype) ELSE json_op_map
  /\ IF r.json /\ json_op_map'[r.ordertype]
     THEN serving' = "write" /\ Handle(r) /\ UNCHANGED json_string
     ELSE serving' = "send" /\ UNCHANGED <<json_string, writes, sysset, thread_running_flag>>
  /\ UNCHANGED <<disk, net, fds, proc, opened, readBack, faults>>

Receive(r) ==
  /\ serving = "loop" /\ requests < MaxRequests /\ requests' = requests + 1
  /\ cmd' = r
  /\ json_op_map' = IF r.json THEN GetJsonOp(r.ordertype) ELSE json_op_map
  /\ IF r.json /\ json_op_map'[r.ordertype]
     THEN serving' = "write" /\ Handle(r) /\ UNCHANGED json_string
     ELSE /\ serving' = "send" /\ json_string' = Error(r.ordertype)
          /\ UNCHANGED <<writes, sysset, thread_running_flag>>
  /\ UNCHANGED <<disk, net, fds, proc, opened, readBack, faults>>

\* The file is read, the keys are set, and fopen() with "w" empties the file.
SetKeys(lines, w) ==
  FoldLeft(LAMBDA f, k : SetValue(f, w.group, k.key, k.val), lines, w.keys)

Truncate ==
  /\ serving = "write" /\ writes # <<>> /\ Opens
  /\ LET w == Head(writes)
     IN /\ opened' = SetKeys(GlibLoad(disk[w.file]), w)
        /\ disk' = [disk EXCEPT ![w.file] = <<>>]
  /\ serving' = "saved"
  /\ UNCHANGED <<kept, fds, cmd, writes, requests, faults>>

\* fwrite() and fclose().
Save ==
  /\ serving = "saved"
  /\ disk' = [disk EXCEPT ![Head(writes).file] = opened]
  /\ writes' = Tail(writes) /\ opened' = <<>> /\ serving' = "write"
  /\ UNCHANGED <<kept, fds, cmd, requests, faults>>

\* The disk is full; nobody looks at what fwrite() returns.
SaveFails ==
  /\ serving = "saved" /\ CommandFault
  /\ writes' = Tail(writes) /\ opened' = <<>> /\ serving' = "write"
  /\ UNCHANGED <<kept, disk, fds, cmd, requests>>

\* The file cannot be opened for writing; what the caller is told it ignores.
OpenFails ==
  /\ serving = "write" /\ writes # <<>>
  /\ CommandFault \/ (~Opens /\ UNCHANGED faults)
  /\ writes' = Tail(writes)
  /\ UNCHANGED <<kept, disk, fds, serving, cmd, opened, requests>>

\* An ioctl() may fail.  Without a descriptor for a socket nothing is done.
Netset ==
  /\ serving = "write" /\ writes = <<>> /\ cmd.ordertype = "netset"
  /\ \/ fds > 0 /\ SetGateway("none") /\ UNCHANGED faults
     \/ \E failing \in {"address", "delete", "add"} : fds > 0 /\ CommandFault /\ SetGateway(failing)
     \/ fds = 0 /\ UNCHANGED <<net, fds, faults>>
  /\ serving' = "encode"
  /\ UNCHANGED <<disk, cmd, writes, opened, proc, sysset, json_op_map, json_string,
                 thread_running_flag, readBack, requests>>

Written ==
  /\ serving = "write" /\ writes = <<>> /\ cmd.ordertype # "netset"
  /\ serving' = "encode"
  /\ UNCHANGED <<kept, disk, fds, cmd, writes, opened, requests, faults>>

\* Mutant: the reply tells what was asked for.
EncodeSyssetEcho ==
  /\ json_string' = [ordertype |-> "sysset", settings |-> sysset]
  /\ readBack' = sysset
  /\ UNCHANGED <<fds, proc, sysset>>

\* The reply tells what is read back; where the file cannot be read, what was asked for or
\* what an earlier sysset left in memory, be it what nobody has set.
EncodeSysset ==
  /\ sysset' = [k \in DOMAIN sysset |-> Integer(k, sysset[k])]
  /\ json_string' = [ordertype |-> "sysset", settings |-> sysset']
  /\ readBack' = IF Opens /\ Readable(disk.conf) THEN sysset' ELSE <<>>
  /\ UNCHANGED <<fds, proc>>

EncodeNet ==
  /\ fds > 0 /\ fds - Opened >= ProcFiles(cmd.ordertype)
  /\ json_string' = IF cmd.ordertype = "sysinfo" THEN [ordertype |-> "sysinfo"]
                    ELSE NetReply(cmd.ordertype)
  /\ fds' = fds - Opened - ProcFiles(cmd.ordertype) /\ proc' = proc + ProcFiles(cmd.ordertype)
  /\ UNCHANGED <<sysset, readBack>>

EncodeOther ==
  /\ json_string' =
       CASE cmd.ordertype = "serial_number" ->
              [ordertype |-> "serial_number", serial_number |-> Serial]
         [] OTHER -> [ordertype |-> cmd.ordertype]
  /\ UNCHANGED <<sysset, readBack, fds, proc>>

\* A cmd whose exchange fails writes no reply.
Silent == cmd.ordertype = "cmd" /\ cmd.fails

NetOrders == {"netset", "netinfo", "sysinfo"}

Encode ==
  /\ serving = "encode" /\ serving' = "send"
  /\ \/ cmd.ordertype = "sysset" /\ EncodeSysset
     \/ cmd.ordertype \in NetOrders /\ EncodeNet
     \/ Silent /\ UNCHANGED <<json_string, sysset, readBack, fds, proc>>
     \/ cmd.ordertype \notin NetOrders \cup {"sysset"} /\ ~Silent /\ EncodeOther
  /\ UNCHANGED <<disk, net, cmd, writes, opened, json_op_map, thread_running_flag, requests, faults>>

Send ==
  /\ serving = "send" /\ serving' = "loop"
  /\ UNCHANGED <<kept, disk, fds, cmd, writes, opened, requests, faults>>

NoReply == [ordertype |-> "none"]
NoRequest == [ordertype |-> "none", json |-> FALSE]

\* new sysset: two integers nobody has set.
FreshSysset == [{"hd_humtime", "loop_time"} -> {Garbage}]

Boot ==
  /\ fds' = MaxFds /\ proc' = 0 /\ serving' = "loop" /\ cmd' = NoRequest /\ writes' = <<>>
  /\ opened' = <<>> /\ sysset' \in FreshSysset
  /\ json_op_map' = [n \in Registered |-> TRUE]
  /\ json_string' = NoReply /\ thread_running_flag' = FALSE
  /\ UNCHANGED <<disk, net, requests>>

\* The daemon is killed and started again.  A file that is open then stays empty; and
\* a sysset that got no answer may have written its settings, or one of them.
Killed ==
  /\ CommandFault /\ Boot
  /\ readBack' = IF serving \in {"write", "saved", "encode"} /\ cmd.ordertype = "sysset"
                  THEN <<>> ELSE readBack

\* Without a descriptor for its socket get_net_info() leaves the number of interfaces
\* unset and its reader follows whatever that is, as it may with what is Unread; sysinfo
\* exits without its files.
Exit ==
  /\ serving = "encode" /\ cmd.ordertype \in NetOrders
  /\ fds = 0 \/ fds - Opened < ProcFiles(cmd.ordertype) \/ Unread
  /\ Boot /\ UNCHANGED <<readBack, faults>>

CommandsInitWith(d, gateways) ==
  /\ disk = d
  /\ net = [address |-> "old", routes |-> [eth0 |-> gateways, eth1 |-> OtherGateways]]
  /\ fds = MaxFds /\ serving = "loop" /\ cmd = NoRequest /\ writes = <<>> /\ opened = <<>>
  /\ sysset \in FreshSysset /\ proc = 0
  /\ json_op_map = [n \in Registered |-> TRUE]
  /\ json_string = NoReply /\ thread_running_flag = FALSE
  /\ readBack = <<>> /\ requests = 0 /\ faults = 0

CommandsInit == \E d \in Disks, g \in Gateways : CommandsInitWith(d, g)

CommandsNext ==
  \/ \E r \in Datagrams : Receive(r)
  \/ Truncate \/ Save \/ SaveFails \/ OpenFails \/ Netset \/ Written \/ Encode \/ Send
  \/ Killed \/ Exit

CommandsSpec == CommandsInit /\ [][CommandsNext]_commandVars

------------------------------------------------------------------------------
(* Properties                                                              *)

\* The client that asked gets an answer to what it asked, unless it sent a cmd whose
\* exchange fails: json_string outlives the command, and that cmd lets an old one out.
ReplyAnswersRequest ==
  serving = "send" => json_string.ordertype = cmd.ordertype \/ Silent

\* What the readers of the two settings take when the file cannot be read.
ReaderDefault == [hd_humtime |-> 200, loop_time |-> 30]

\* What a reply of sysset read back is what every later reader of the file gets, though its
\* own default is another, in whatever order other settings, serial numbers and network
\* addresses are written, when writes fail and when the daemon is restarted.  Nothing is
\* promised of a reply that told the memory of the server, because the file is unreadable
\* or no descriptor is left, nor after a crash during a sysset, which may leave it empty.
ConfirmedInForce ==
  serving \in {"loop", "send"} =>
    \A k \in DOMAIN readBack :
      GetProfileInteger(disk.conf, Prog, k, ReaderDefault[k]) = readBack[k]

\* To iniparser names are the same in upper and lower case, to GLib they are not: where
\* GLib finds the group it writes to, the file spells the names it writes as it does.
OneSpelling(lines, w) ==
  (\E j \in 1..Len(lines) : lines[j].form = "section" /\ lines[j].name = w.group) =>
    \A j \in 1..Len(lines) :
      /\ lines[j].form = "section" /\ Lower[lines[j].name] = Lower[w.group] =>
           lines[j].name = w.group
      /\ \A k \in 1..Len(w.keys) :
           lines[j].form # "section" /\ Lower[lines[j].name] = Lower[w.keys[k].key] =>
             lines[j].name = w.keys[k].key

\* To write one setting is to rewrite the file: iniparser then reads the new value,
\* though only up to a comment mark, and for every other setting what it read before.
\* (Both readers understand the file, no line of it is continued, and names are spelled
\* alike: with [zhjs] and [ZHJS] in the file GLib may write to the one and iniparser read
\* the other.)
RewriteKeepsOthers ==
  [][\A f \in {"conf", "sys"} :
       LET old == disk[f]
           w == Head(writes)
           mine == {<<Lower[w.group], Lower[w.keys[k].key]>> : k \in 1..Len(w.keys)}
       IN /\ serving = "write" /\ serving' = "saved" /\ w.file = f
          /\ GlibReads(old) /\ Readable(old) /\ OneSpelling(old, w)
          /\ \A k \in 1..Len(old) : ~old[k].more
          => /\ Readable(opened')
             /\ \A s \in Names, k \in Names :
                  <<Lower[s], Lower[k]>> \notin mine => Lookup(opened', s, k) = Lookup(old, s, k)
             /\ \A k \in 1..Len(w.keys) :
                  Lookup(opened', w.group, w.keys[k].key) = UpToComment(w.keys[k].val)]_commandVars

\* Once netset has set a gateway the interface has that one and no other, however many
\* it had, as long as a descriptor is left.
OneGateway ==
  [][/\ cmd.ordertype = "netset" /\ serving = "write" /\ serving' = "encode" /\ faults' = faults
     /\ cmd.gateway # "none" /\ fds' > 0
     => net'.routes["eth0"] = <<cmd.gateway>>]_commandVars

\* A reply is to its own request, but for a cmd that fails, and the settings it read back
\* are in force until the next sysset.
RepliesHold == ReplyAnswersRequest /\ ConfirmedInForce
==============================================================================
