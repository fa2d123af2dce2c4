---------------------------- MODULE HioRegistry ----------------------------
(***************************************************************************)
(* The message registry of api/base.py over the whole message catalog of   *)
(* api/*.py, and the indication dispatch of hostio.py that relies on it.   *)
(*                                                                         *)
(* Importing a schema module runs the registry metaclass once per message  *)
(* class, in declaration order: the class's msgid is the number of classes *)
(* its group already holds.  HIO.lookup_class resolves a frame header      *)
(* through registry.group and registry.messages; HIO.set_ind_handler keys  *)
(* a handler by (group, 0xc0 | msgid) and the read loop looks handlers up  *)
(* by the header of the frame it received.                                 *)
(***************************************************************************)
EXTENDS Integers, Sequences, SequencesExt, FiniteSets, Bitwise

CONSTANTS
  ImportOrder,     \* the schema modules a tool imports, in import order
  HandlerClasses   \* the indication classes the tool sets handlers for,
                   \* as <<group, class name>>

-----------------------------------------------------------------------------
(* The catalog.  Each message class with the directions it declares.      *)

RR  == {"req", "rsp"}
Q   == {"req"}
I   == {"ind"}
RRI == {"req", "rsp", "ind"}
C(name, dirs) == [name |-> name, dirs |-> dirs]

\* api/hio.py, lines 18-74
HioClasses == <<
  C("query", RR), C("config", RR), C("sleep", Q), C("irqack", Q),
  C("ping", RR), C("wakeup", I), C("console", I)
>>

\* api/wcm.py, lines 26-293
WcmClasses == <<
  C("if_create", RR), C("if_destroy", RR), C("if_notify", I),
  C("if_scan", RRI), C("if_connect", RR), C("if_disconnect", RR),
  C("if_set_addr4", RR), C("if_set_addr6", RR), C("if_get_addr4", RR),
  C("if_get_addr6", RR), C("if_set_pmconfig", RR), C("if_get_rssi", RR),
  C("if_get_counters", RR), C("if_txpower", RR), C("if_get_bssid", RR),
  C("if_add_network", RR), C("if_remove_network", RR),
  C("if_auto_connect", RR), C("if_add_network_uri", RR),
  C("set_mfp_mode", RR), C("testmode", RR), C("set_regulatory_domain", RR)
>>

\* api/bt.py, lines 28-76
BtClasses == <<
  C("hci", RRI), C("cmd", RRI), C("dat", RRI)
>>

\* api/sock.py, lines 19-154
SockClasses == <<
  C("server", RR), C("client", RR), C("getlocal", RR), C("getpeer", RR),
  C("getavailable", RR), C("connection", I), C("close", RRI),
  C("notification", RRI), C("recvfrom", RR), C("sendto", RR),
  C("resolve", RR)
>>

\* api/flash.py, lines 16-274
FlashClasses == <<
  C("identify", RR), C("read", RR), C("write", RR), C("enroll", RR),
  C("file_mount", RR), C("file_open", RR), C("file_remove", RR),
  C("file_read", RR), C("file_write", RR), C("file_close", RR),
  C("file_stat", RR), C("file_dir_open", RR), C("file_dir_read", RR),
  C("hash", RR), C("boot", RR), C("flush", RR), C("get_hwaddr", RR),
  C("set_hwaddr", RR), C("get_uuid", RR), C("set_uuid", RR),
  C("load_partition_table", RR), C("save_partition_table", RR),
  C("get_partition", RR), C("add_partition", RR), C("delete_partition", RR),
  C("erase_by_sector", RR)
>>

\* api/bt_host.py, lines 22-578
BtHostClasses == <<
  C("gap_addr_set", RR), C("gap_addr_get", RR), C("gap_cfg_adv", RR),
  C("gap_set_adv_data", RR), C("gap_set_srsp_data", RR),
  C("gap_cfg_scan", RR), C("gap_cfg_conn", RR), C("gap_cfg_smp", RR),
  C("gap_cfg_ext", RR), C("gap_broadcast", RR), C("gap_discoverable", RR),
  C("gap_discovery", RR), C("gap_connectable", RR), C("gap_connection", RR),
  C("gap_terminate", RR), C("gap_authenticate", RR),
  C("gap_connection_update", RR), C("gap_add_device_to_white_list", RR),
  C("gap_remove_device_from_white_list", RR), C("gap_clear_white_list", RR),
  C("gap_add_device_to_resolving_list", RR),
  C("gap_remove_device_from_resolving_list", RR),
  C("gap_clear_resolving_list", RR),
  C("gap_set_address_resolution_enable", RR), C("gap_event", I),
  C("smp_passkey", RR), C("gatt_exchange_mtu", RR),
  C("gatt_discover_all_primary_services", RRI),
  C("gatt_discover_primary_service_by_service_uuid", RRI),
  C("gatt_find_included_services", RRI),
  C("gatt_discover_all_characteristics_of_a_service", RRI),
  C("gatt_discover_characteristics_by_uuid", RRI),
  C("gatt_discover_all_characteristic_descriptors", RRI),
  C("gatt_read_characteristic_value", RRI),
  C("gatt_read_using_characteristic_uuid", RRI),
  C("gatt_read_long_characteristic_value", RRI),
  C("gatt_read_multiple_characteristic_values", RRI),
  C("gatt_read_characteristic_descriptor", RRI),
  C("gatt_read_long_characteristic_descriptor", RRI),
  C("gatt_write_without_response", RR),
  C("gatt_signed_write_without_response", RR),
  C("gatt_write_characteristic_value", RR),
  C("gatt_write_characteristic_descriptor", RR), C("gatt_notification", RR),
  C("gatt_indication", RR), C("gatt_service_changed", RR),
  C("bt_iperf", RRI), C("smp_bond_list", RR), C("smp_bond_remove_one", RR),
  C("smp_bond_remove_all", RR)
>>

\* api/traffic_agent.py, lines 17-102
TrafficAgentClasses == <<
  C("rx_config", RR), C("rx_start", RR), C("rx_stop", RR),
  C("tx_config", RR), C("tx_send", RR), C("tx_ready", RR), C("reset", RR)
>>

\* api/debug.py, lines 18-25
DebugClasses == <<
  C("panic", RR)
>>

\* GROUP_NAME and GROUP_ID of each schema module.
Groups == [hio |-> [id |-> 0, classes |-> HioClasses],
           wcm |-> [id |-> 2, classes |-> WcmClasses],
           bt |-> [id |-> 4, classes |-> BtClasses],
           sock |-> [id |-> 5, classes |-> SockClasses],
           flash |-> [id |-> 8, classes |-> FlashClasses],
           bt_host |-> [id |-> 9, classes |-> BtHostClasses],
           traffic_agent |-> [id |-> 10, classes |-> TrafficAgentClasses],
           debug |-> [id |-> 11, classes |-> DebugClasses]]
GroupNames == DOMAIN Groups

\* registry._sys_modules: groups allowed an id below 128.
SysModules == {"bt", "bt_host", "bt_monitor", "debug", "flash", "hio",
               "mbedtest", "mdns", "monitor", "pwm", "sock", "storage",
               "tls", "traffic_agent", "wcm"}

ASSUME /\ ImportOrder \in Seq(GroupNames)
       /\ HandlerClasses \subseteq (GroupNames \X STRING)

-----------------------------------------------------------------------------
(* The registry: registry._modules and registry._messages.                 *)

VARIABLES
  order,       \* group names in the order registry._modules received them
  messages,    \* registry._messages: group name -> registered classes
  handlers,    \* HIO.ind_handler: set of [key, cls] (the dict's items)
  handlerFor,  \* the classes a handler was set for (history)
  delivered    \* the last indication the read loop dispatched: its class,
               \* the handler it went to, and whether its class had one set

vars == <<order, messages, handlers, handlerFor, delivered>>

NoDelivery == [sent |-> <<"none", 0>>, to |-> <<"none", 0>>, hasOwn |-> FALSE]
Printed == <<"print", 0>>   \* ind_handler.get(key, print): the default

\* Bug variant: the class counter is shared by all groups.
RegisterShared(msgs, c, base) == Append(msgs, [name |-> c.name, dirs |-> c.dirs,
                                               msgid |-> base + Len(msgs)])

\* The metaclass registering one class: cls.msgid = len(messages[group]).
Register(msgs, c) == Append(msgs, [name |-> c.name, dirs |-> c.dirs,
                                   msgid |-> Len(msgs)])

\* The metaclass checks of a group (a failing check raises ValueError and
\* the import fails).
GroupAccepted(g) ==
  /\ 0 <= Groups[g].id /\ Groups[g].id <= 255
  /\ Groups[g].id <= 127 => g \in SysModules

Imported == Range(order)

\* registry.group(gid): the first group name registered with that id.
RegistryGroup(gid) ==
  LET hits == {k \in DOMAIN order : Groups[order[k]].id = gid}
  IN IF hits = {} THEN "none" ELSE order[Min(hits)]

\* registry.messages(group) (the defaultdict yields [] for an unknown one).
MessagesOf(g) == IF g \in GroupNames THEN messages[g] ELSE <<>>

\* The frame header byte pair of class k of group g in direction d, as the
\* device lays it out: group id, direction bits over the local id.
DirBits == [req |-> 0, rsp |-> 2, ind |-> 3]
FrameHeader(g, k, d) == <<Groups[g].id, DirBits[d] * 64 + messages[g][k].msgid>>

DirMap == <<"req", "none", "rsp", "ind">>

\* Bug variant: the local id is not masked off the msgid byte.
LookupClassNoMask(hdr) ==
  LET g == RegistryGroup(hdr[1])
      ms == MessagesOf(g)
      hits == {k \in DOMAIN ms : ms[k].msgid = hdr[2]}
  IN IF hits = {} THEN [grp |-> "none", idx |-> 0, dir |-> "none"]
     ELSE [grp |-> g, idx |-> Min(hits), dir |-> DirMap[hdr[2] \div 64 + 1]]

\* HIO.lookup_class: dirmap[msgid >> 6], msgid & 0x3f, then the first
\* class of registry.group(group) with that msgid.
LookupClass(hdr) ==
  LET g == RegistryGroup(hdr[1])
      local == hdr[2] % 64
      ms == MessagesOf(g)
      hits == {k \in DOMAIN ms : ms[k].msgid = local}
  IN IF hits = {} THEN [grp |-> "none", idx |-> 0, dir |-> "none"]
     ELSE [grp |-> g, idx |-> Min(hits), dir |-> DirMap[hdr[2] \div 64 + 1]]

\* Bug variant: the key leaves out the indication bits.
IndKeyNoIndBits(g, k) == <<Groups[g].id, messages[g][k].msgid>>

\* HIO.set_ind_handler: key = (cls.group, 0xc0 | cls.msgid).
IndKey(g, k) == <<Groups[g].id, 192 | messages[g][k].msgid>>

IndexOf(g, name) == CHOOSE k \in DOMAIN messages[g] : messages[g][k].name = name

Init ==
  /\ order = <<>>
  /\ messages = [g \in GroupNames |-> <<>>]
  /\ handlers = {}
  /\ handlerFor = {}
  /\ delivered = NoDelivery

\* Bug variant: msgids continue the count of every class registered so far.
ImportModuleSharedCount ==
  LET g == ImportOrder[Len(order) + 1]
      base == FoldLeft(LAMBDA n, h : n + Len(messages[h]), 0, order)
  IN
  /\ Len(order) < Len(ImportOrder)
  /\ GroupAccepted(g)
  /\ messages' = [messages EXCEPT ![g] =
                    FoldLeft(LAMBDA ms, c : RegisterShared(ms, c, base), @, Groups[g].classes)]
  /\ order' = Append(order, g)
  /\ UNCHANGED <<handlers, handlerFor, delivered>>

\* The next schema module of the tool's imports is imported: every class of
\* it goes through the registry metaclass in declaration order.
ImportModule ==
  LET g == ImportOrder[Len(order) + 1]
  IN
  /\ Len(order) < Len(ImportOrder)
  /\ GroupAccepted(g)
  /\ messages' = [messages EXCEPT ![g] = FoldLeft(Register, @, Groups[g].classes)]
  /\ order' = Append(order, g)
  /\ UNCHANGED <<handlers, handlerFor, delivered>>

\* HIO.set_ind_handler(cls, fn) with a function: the dict entry is replaced.
SetIndHandler(g, name) ==
  LET k == IndexOf(g, name)
  IN
  /\ <<g, name>> \in HandlerClasses
  /\ g \in Imported
  /\ handlers' = {h \in handlers : h.key # IndKey(g, k)}
                   \cup {[key |-> IndKey(g, k), cls |-> <<g, k>>]}
  /\ handlerFor' = handlerFor \cup {<<g, k>>}
  /\ UNCHANGED <<order, messages, delivered>>

\* HIO.set_ind_handler(cls, None): ind_handler.pop(key), which raises
\* KeyError when no handler is set (the caller's exception).
RemoveIndHandler(g, name) ==
  LET k == IndexOf(g, name)
  IN
  /\ <<g, name>> \in HandlerClasses
  /\ g \in Imported
  /\ \E h \in handlers : h.key = IndKey(g, k)
  /\ handlers' = {h \in handlers : h.key # IndKey(g, k)}
  /\ handlerFor' = handlerFor \ {<<g, k>>}
  /\ UNCHANGED <<order, messages, delivered>>

\* The read loop receives an indication of an imported class: it unpacks
\* the frame (lookup_class) and calls ind_handler.get((msg._group,
\* msg._msgid), print) with the header bytes of the frame.
DispatchInd(g, k) ==
  LET hdr == FrameHeader(g, k, "ind")
      lc == LookupClass(hdr)
      hs == {h \in handlers : h.key = hdr}
  IN
  /\ g \in Imported
  /\ "ind" \in messages[g][k].dirs
  /\ lc.grp # "none" /\ lc.dir = "ind"
  /\ delivered' = [sent |-> <<g, k>>,
                   to |-> IF hs = {} THEN Printed ELSE (CHOOSE h \in hs : TRUE).cls,
                   hasOwn |-> <<g, k>> \in handlerFor]
  /\ UNCHANGED <<order, messages, handlers, handlerFor>>

Next ==
  \/ ImportModule
  \/ \E hc \in HandlerClasses : SetIndHandler(hc[1], hc[2])
  \/ \E hc \in HandlerClasses : RemoveIndHandler(hc[1], hc[2])
  \/ \E g \in Imported : \E k \in DOMAIN messages[g] : DispatchInd(g, k)

Spec == Init /\ [][Next]_vars

-----------------------------------------------------------------------------
(* Properties                                                              *)

\* Type invariant; a msgid is a 6-bit local id (the two bits above it in
\* the msgid byte are the direction).
TypeOK ==
  /\ order \in Seq(GroupNames)
  /\ \A g \in GroupNames : \A k \in DOMAIN messages[g] :
       messages[g][k].msgid \in 0..63
  /\ \A h \in handlers : h.cls \in GroupNames \X Nat
  /\ delivered.to \in (GroupNames \X Nat) \cup {Printed, <<"none", 0>>}

\* Every frame the device can send for a registered class, in every
\* direction the class declares, is resolved by HIO.lookup_class to that
\* class and direction (msgids fit the 6 bits below the direction bits,
\* group ids are distinct, numbering follows declaration order).
EveryFrameResolves ==
  \A g \in Imported : \A k \in DOMAIN messages[g] : \A d \in messages[g][k].dirs :
    LookupClass(FrameHeader(g, k, d)) = [grp |-> g, idx |-> k, dir |-> d]

\* An indication reaches the handler set for its own class with
\* set_ind_handler, and the default print when none is set: the key
\* set_ind_handler builds equals the header of the class's frames.
IndicationReachesItsHandler ==
  delivered # NoDelivery =>
    delivered.to = IF delivered.hasOwn THEN delivered.sent ELSE Printed
=============================================================================
