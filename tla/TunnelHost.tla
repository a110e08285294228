----------------------------- MODULE TunnelHost -----------------------------
(***************************************************************************)
(* What tunnels do to a Linux host: the device, its address, the xfrm      *)
(* states and policies, the routing rules and routes of table 18000, the   *)
(* IPv6 switch and DNS, from the creation of a tunnel to the clean-up in   *)
(* its Drop, which runs after the tunnel has reported Disconnected, so     *)
(* that another tunnel may be set up meanwhile.                            *)
(*                                                                         *)
(* Every operation on the host is a step.  The ones a tunnel has yet to do *)
(* are its todo; the functions of the code that wait for one operation     *)
(* after the other are the sequences below.  Any operation may fail, and   *)
(* the service may crash.                                                  *)
(***************************************************************************)
EXTENDS Integers, Sequences

CONSTANTS
    Tunnels,       \* bound: tunnels created over time; also the if_id of a native one
    None,
    Gateways,
    Addresses,     \* office mode addresses
    Configs,       \* the tunnel parameters that occur
    Resolvers,     \* what detect_resolver may find: "resolved", "resolv.conf"
    MaxKey,        \* bound: key pairs of a tunnel, the first one included
    MaxFaults      \* bound: operations that fail, and crashes

Kinds == {"native", "tun", "ssl"} \* NativeIPsecTunnel, TunIPsecTunnel, SslTunnel
Config == [kind : Kinds, gateway : Gateways, full : BOOLEAN, disable_ipv6 : BOOLEAN,
           dns : BOOLEAN]

ASSUME HostAssumption ==
    /\ None \notin Tunnels
    /\ Configs \subseteq Config
    /\ Resolvers \subseteq {"resolved", "resolv.conf"}
    /\ MaxKey \in Nat \ {0}
    /\ MaxFaults \in Nat

VARIABLES
    tunnel,     \* for each tunnel: how far it is, and the fields of its object
    host,       \* the kernel's tables and the DNS settings
    disturbed,  \* history: tunnels alive at the same time as another one, unless both use a
                \* TUN device
    faults,     \* history: how many operations have failed, crashes included
    damaged     \* history: what a failed operation or a crash may have left behind

vars == <<tunnel, host, disturbed, faults, damaged>>
history == <<disturbed, faults, damaged>>

-----------------------------------------------------------------------------
(* The host *)

Devices == {"snx-xfrm", "snx-tun"}
NoLink == [owner |-> None, addresses |-> {}, dns |-> FALSE]

\* owner: whose index (and if_id) the link has; routes belong to that index.  conf is
\* /etc/resolv.conf: whether the lines that are not ours are in it, and the gateways
\* whose DNS servers are.
Host == [links : [Devices -> [owner : Tunnels \cup {None}, addresses : SUBSET Addresses,
                              dns : BOOLEAN]],
         routes : SUBSET [destination : {"default", "subnets", "gateway"}, owner : Tunnels],
         rules : SUBSET [sort : {"exclusion", "keepalive"}, gateway : Gateways],
         states : SUBSET [owner : Tunnels, key : 1..MaxKey, direction : {"in", "out"}],
         policies : SUBSET Tunnels,
         no_ipv6 : BOOLEAN,
         resolver : Resolvers,
         conf : [others : BOOLEAN, vpn : SUBSET Gateways]]

Phases == {"none", "creating", "created", "settingUp", "up", "dropped", "gone"}

InitTunnel == [phase |-> "none", config |-> None, todo |-> <<>>, key |-> 1, address |-> None,
               other |-> None, index |-> None, conf |-> [others |-> FALSE, vpn |-> {}]]

NoTunnel == [InitTunnel EXCEPT !.phase = "gone"]

TypeOK ==
    /\ host \in Host
    /\ disturbed \subseteq Tunnels
    /\ faults \in 0..MaxFaults
    /\ damaged \subseteq {"device", "address", "routing", "dns", "others"}
    /\ \A t \in Tunnels :
           /\ tunnel[t].phase \in Phases
           /\ tunnel[t].config \in Configs \cup {None}
           /\ tunnel[t].key \in 1..MaxKey
           /\ {tunnel[t].address, tunnel[t].other} \subseteq Addresses \cup {None}
           /\ tunnel[t].index \in Tunnels \cup {None}
           /\ tunnel[t].phase \in {"none", "created", "gone"} => tunnel[t].todo = <<>>

Init ==
    /\ tunnel = [t \in Tunnels |-> InitTunnel]
    /\ \E resolver \in Resolvers :
           host = [links |-> [d \in Devices |-> NoLink], routes |-> {}, rules |-> {},
                   states |-> {}, policies |-> {}, no_ipv6 |-> FALSE, resolver |-> resolver,
                   conf |-> [others |-> TRUE, vpn |-> {}]]
    /\ disturbed = {} /\ faults = 0 /\ damaged = {}

Alive == {t \in Tunnels : tunnel[t].phase \notin {"none", "gone"}}

Native(t) == tunnel[t].config.kind = "native"
Device(t) == IF Native(t) THEN "snx-xfrm" ELSE "snx-tun"
Link(t) == host.links[Device(t)]
Gateway(t) == tunnel[t].config.gateway

-----------------------------------------------------------------------------
(* What is done in which order *)

When(condition, ops) == IF condition THEN ops ELSE <<>>

\* XfrmConfigurator::configure
Configure == <<"link", "address", "out", "in", "policies">>

\* LinuxRoutingConfigurator::new and configure, Full or Split
SetUpRouting(c) ==
    <<"index", "rule">>
    \o (IF c.full
        THEN <<"default">> \o When(c.disable_ipv6, <<"noIPv6">>)
                           \o When(c.kind # "ssl", <<"gateway">>)
        ELSE <<"subnets">>)
    \o When(c.kind # "ssl", <<"keepalive">>)

\* ... and Cleanup: enable_ipv6 is disable_ipv6 of the parameters.
CleanUpRouting(c) ==
    <<"unrule">> \o When(c.disable_ipv6, <<"ipv6">>) \o When(c.kind # "ssl", <<"unkeepalive">>)

\* ResolverConfigurator::configure and cleanup; resolved forgets a link by itself.
SetUpDns(c) ==
    When(c.dns, IF host.resolver = "resolved" THEN <<"linkDns">>
                ELSE <<"read", "truncate", "write">>)
CleanUpDns(c) ==
    When(c.dns /\ host.resolver = "resolv.conf", <<"read", "truncate", "unwrite">>)

Left(t) == {tunnel[t].todo[i] : i \in DOMAIN tunnel[t].todo}

\* tun_device and routing_configurator of the TUN tunnels, which are set after the
\* operations below have all succeeded.
HasDevice(t) == Left(t) \cap {"device", "address"} = {}
HasRouting(t) ==
    Left(t) \cap {"index", "rule", "default", "noIPv6", "gateway", "subnets", "keepalive"} = {}

\* Mutant of CleanUp: the device is deleted first.
CleanUpDeviceFirst(t) ==
    LET c == tunnel[t].config
    IN  CASE c.kind = "native" ->
               CleanUpDns(c) \o <<"index">> \o CleanUpRouting(c)
               \o <<"unstates", "unpolicies", "unlink">>
          [] c.kind # "native" /\ ~HasDevice(t) -> <<>>
          [] OTHER ->
               <<"unlink">> \o CleanUpDns(c) \o When(HasRouting(t), CleanUpRouting(c))

\* Mutant of CleanUp: the routing of a TUN device is found by the device, not kept.
CleanUpByDevice(t) ==
    LET c == tunnel[t].config
    IN  CASE c.kind = "native" ->
               CleanUpDns(c) \o <<"index">> \o CleanUpRouting(c)
               \o <<"unstates", "unpolicies", "unlink">>
          [] c.kind # "native" /\ ~HasDevice(t) -> <<>>
          [] OTHER ->
               CleanUpDns(c) \o <<"unlink", "index">> \o CleanUpRouting(c)

\* cleanup of the three tunnels.  The native one looks its device up again.
CleanUp(t) ==
    LET c == tunnel[t].config
    IN  CASE c.kind = "native" ->
               CleanUpDns(c) \o <<"index">> \o CleanUpRouting(c)
               \o <<"unstates", "unpolicies", "unlink">>
          [] c.kind # "native" /\ ~HasDevice(t) -> <<>>
          [] c.kind = "tun" /\ HasDevice(t) ->
               CleanUpDns(c) \o When(HasRouting(t), CleanUpRouting(c)) \o <<"unlink">>
          [] c.kind = "ssl" /\ HasDevice(t) ->
               When(HasRouting(t), CleanUpRouting(c)) \o CleanUpDns(c) \o <<"unlink">>

\* Mutant of ReKey: the old states are deleted before the new ones are added.
ReKeyDeleteFirst(t, moved) ==
    IF Native(t) THEN <<"oldOut", "newOut", "newIn", "oldIn">> \o When(moved, <<"move", "leave">>)
    ELSE When(moved, <<"move", "leave">>)

\* XfrmConfigurator::rekey, or what is left of it with a TUN device: replace_ip_address.
ReKey(t, moved) ==
    IF Native(t) THEN <<"newOut", "newIn", "oldOut", "oldIn">> \o When(moved, <<"move", "leave">>)
    ELSE When(moved, <<"move", "leave">>)

-----------------------------------------------------------------------------
(* The life of a tunnel *)

\* create of a tunnel; only the native one touches the host.  A tunnel may be created while
\* another one is still up or cleans up.
Create(t) ==
    /\ tunnel[t].phase = "none"
    /\ \E c \in Configs, a \in Addresses :
           /\ tunnel' = [tunnel EXCEPT ![t] =
                  [@ EXCEPT !.config = c, !.address = a,
                            !.phase = IF c.kind = "native" THEN "creating" ELSE "created",
                            !.todo = When(c.kind = "native", Configure)]]
           /\ LET met == {u \in Alive : c.kind = "native" \/ Native(u)}
              IN  disturbed' = disturbed \cup met \cup (IF met = {} THEN {} ELSE {t})
    /\ UNCHANGED <<host, faults, damaged>>

\* Mutant of Created: configure is not awaited.
CreatedUnconfigured(t) ==
    /\ tunnel[t].phase = "creating"
    /\ tunnel' = [tunnel EXCEPT ![t].phase = "created"]
    /\ UNCHANGED <<host, history>>

Created(t) ==
    /\ tunnel[t].phase = "creating" /\ tunnel[t].todo = <<>>
    /\ tunnel' = [tunnel EXCEPT ![t].phase = "created"]
    /\ UNCHANGED <<host, history>>

\* run.  The native tunnel joins routing and DNS, and the latter may come in between.
Run(t) ==
    LET c == tunnel[t].config
    IN  /\ tunnel[t].phase = "created"
        /\ \/ /\ c.kind = "native"
              /\ \E i \in 0..Len(SetUpRouting(c)) :
                     tunnel' = [tunnel EXCEPT ![t].phase = "settingUp",
                                   ![t].todo = SubSeq(SetUpRouting(c), 1, i) \o SetUpDns(c)
                                        \o SubSeq(SetUpRouting(c), i + 1, Len(SetUpRouting(c)))]
           \/ /\ c.kind # "native"
              /\ tunnel' = [tunnel EXCEPT ![t].phase = "settingUp",
                               ![t].todo = <<"device", "address">> \o SetUpRouting(c)
                                           \o SetUpDns(c)]
        /\ UNCHANGED <<host, history>>

\* Connected is sent.
Up(t) ==
    /\ tunnel[t].phase = "settingUp" /\ tunnel[t].todo = <<>>
    /\ tunnel' = [tunnel EXCEPT ![t] = [@ EXCEPT !.phase = "up", !.index = None]]
    /\ UNCHANGED <<host, history>>

\* The command ReKey; the TUN device's run takes the new address for its own at once.
StartReKey(t) ==
    /\ tunnel[t].phase = "up" /\ tunnel[t].todo = <<>>
    /\ tunnel[t].config.kind # "ssl" /\ tunnel[t].key < MaxKey
    /\ \E a \in Addresses :
           tunnel' = [tunnel EXCEPT ![t] =
               [@ EXCEPT !.todo = ReKey(t, a # tunnel[t].address),
                         !.address = IF Native(t) THEN tunnel[t].address ELSE a,
                         !.other = IF Native(t) THEN a ELSE tunnel[t].address,
                         !.key = tunnel[t].key + (IF Native(t) THEN 0 ELSE 1)]]
    /\ UNCHANGED <<host, history>>

\* The tunnel is dropped: what was local to the functions of run is gone.
Dropped(t) == [InitTunnel EXCEPT !.config = tunnel[t].config, !.key = tunnel[t].key,
                                 !.phase = "dropped", !.todo = CleanUp(t)]

\* run returns (Terminate, a lost gateway, a failed send) and the tunnel is dropped.  A
\* failure of the keepalive does not wait for a rekey to complete: the new states are left.
End(t) ==
    /\ tunnel[t].phase = "up"
    /\ tunnel' = [tunnel EXCEPT ![t] = Dropped(t)]
    /\ damaged' = damaged \cup (IF "oldIn" \in Left(t) /\ "newOut" \notin Left(t)
                               THEN {"device"} ELSE {})
    /\ UNCHANGED <<host, disturbed, faults>>

\* The scoped thread of Drop has come to its end.
Gone(t) ==
    /\ tunnel[t].phase = "dropped" /\ tunnel[t].todo = <<>>
    /\ tunnel' = [tunnel EXCEPT ![t] = NoTunnel]
    /\ UNCHANGED <<host, history>>

-----------------------------------------------------------------------------
(* Operations on the host *)

Op(t) == Head(tunnel[t].todo)

\* The host is such that the next operation of t can succeed.  What exists already (EEXIST)
\* or is gone already (ENOENT) is no failure, except for addresses and TUN devices.
CanDo(t) ==
    CASE Op(t) = "device" -> Link(t) = NoLink
      [] Op(t) \in {"address", "move"} ->
             Link(t) # NoLink /\ tunnel[t].address \notin Link(t).addresses
      [] Op(t) = "leave" -> tunnel[t].other \in Link(t).addresses
      [] Op(t) \in {"index", "linkDns"} -> Link(t) # NoLink
      [] Op(t) \in {"default", "subnets", "gateway"} -> Link(t).owner = tunnel[t].index
      [] OTHER -> TRUE

\* t when its next operation is done.  "oldIn" ends the rekey proper: the new session is
\* the session.
After(t) ==
    LET rest == [tunnel[t] EXCEPT !.todo = Tail(@)]
    IN  CASE Op(t) = "index" -> [rest EXCEPT !.index = Link(t).owner]
          [] Op(t) = "read" -> [rest EXCEPT !.conf = host.conf]
          [] Op(t) \in {"write", "unwrite"} -> [rest EXCEPT !.conf = InitTunnel.conf]
          [] Op(t) = "oldIn" -> [rest EXCEPT !.key = @ + 1, !.address = rest.other,
                                              !.other = rest.address]
          [] Op(t) = "leave" -> [rest EXCEPT !.other = None]
          [] OTHER -> rest

\* The next thing t has to do is op, and it is done: the host becomes h.
Do(t, op, h) ==
    /\ tunnel[t].todo # <<>> /\ Op(t) = op /\ CanDo(t)
    /\ host' = h
    /\ tunnel' = [tunnel EXCEPT ![t] = After(t)]
    /\ UNCHANGED history

Key(t, key, direction) == [owner |-> t, key |-> key, direction |-> direction]
Exclusion(t) == [sort |-> "exclusion", gateway |-> Gateway(t)]
Keepalive(t) == [sort |-> "keepalive", gateway |-> Gateway(t)]

\* A link with that name is good enough: EEXIST is ignored.
AddLink(t) ==
    Do(t, "link", IF Link(t) # NoLink THEN host
                  ELSE [host EXCEPT !.links[Device(t)] = [NoLink EXCEPT !.owner = t]])

\* TunDevice::new
OpenDevice(t) == Do(t, "device", [host EXCEPT !.links[Device(t)] = [NoLink EXCEPT !.owner = t]])

\* configure_device
ConfigureDevice(t) ==
    Do(t, "address", [host EXCEPT !.links[Device(t)].addresses = @ \cup {tunnel[t].address}])

AddStates(t) ==
    \/ Do(t, "out", [host EXCEPT !.states = @ \cup {Key(t, tunnel[t].key, "out")}])
    \/ Do(t, "in", [host EXCEPT !.states = @ \cup {Key(t, tunnel[t].key, "in")}])

AddPolicies(t) == Do(t, "policies", [host EXCEPT !.policies = @ \cup {t}])

\* LinuxRoutingConfigurator::new resolves the device.
FindDevice(t) == Do(t, "index", host)

AddRules(t) ==
    \/ Do(t, "rule", [host EXCEPT !.rules = @ \cup {Exclusion(t)}])
    \/ Do(t, "keepalive", [host EXCEPT !.rules = @ \cup {Keepalive(t)}])

\* A route to that destination is good enough: EEXIST is ignored.
AddRoute(t) ==
    \E d \in {"default", "subnets", "gateway"} :
        Do(t, d, IF \E r \in host.routes : r.destination = d THEN host
                 ELSE [host EXCEPT !.routes =
                          @ \cup {[destination |-> d, owner |-> tunnel[t].index]}])

SwitchIPv6(t) ==
    \/ Do(t, "noIPv6", [host EXCEPT !.no_ipv6 = TRUE])
    \/ Do(t, "ipv6", [host EXCEPT !.no_ipv6 = FALSE])

\* SystemdResolvedConfigurator::configure
SetLinkDns(t) == Do(t, "linkDns", [host EXCEPT !.links[Device(t)].dns = TRUE])

\* ResolvConfConfigurator::configure_or_cleanup: read_to_string, File::create, writeln.
ReadConf(t) == Do(t, "read", host)

WriteConf(t) ==
    LET conf == tunnel[t].conf
    IN  \/ Do(t, "truncate", [host EXCEPT !.conf = [others |-> FALSE, vpn |-> {}]])
        \/ Do(t, "write", [host EXCEPT !.conf = [conf EXCEPT !.vpn = @ \cup {Gateway(t)}]])
        \/ Do(t, "unwrite", [host EXCEPT !.conf = [conf EXCEPT !.vpn = @ \ {Gateway(t)}]])

ReplaceStates(t) ==
    LET k == tunnel[t].key
    IN  \/ Do(t, "newOut", [host EXCEPT !.states = @ \cup {Key(t, k + 1, "out")}])
        \/ Do(t, "newIn", [host EXCEPT !.states = @ \cup {Key(t, k + 1, "in")}])
        \/ Do(t, "oldOut", [host EXCEPT !.states = @ \ {Key(t, k, "out")}])
        \/ Do(t, "oldIn", [host EXCEPT !.states = @ \ {Key(t, k, "in")}])

\* replace_ip_address
ReplaceAddress(t) ==
    \/ Do(t, "move", [host EXCEPT !.links[Device(t)].addresses = @ \cup {tunnel[t].address}])
    \/ Do(t, "leave", [host EXCEPT !.links[Device(t)].addresses = @ \ {tunnel[t].other}])

RemoveRules(t) ==
    \/ Do(t, "unrule", [host EXCEPT !.rules = @ \ {Exclusion(t)}])
    \/ Do(t, "unkeepalive", [host EXCEPT !.rules = @ \ {Keepalive(t)}])

DeleteStates(t) ==
    \/ Do(t, "unstates", [host EXCEPT !.states =
                             @ \ {Key(t, tunnel[t].key, d) : d \in {"in", "out"}}])
    \/ Do(t, "unpolicies", [host EXCEPT !.policies = @ \ {t}])

Unlinked(device) ==
    [host EXCEPT !.links[device] = NoLink,
                 !.routes = {r \in @ : r.owner # host.links[device].owner}]

\* delete_device, by name
DeleteDevice(t) == Do(t, "unlink", Unlinked(Device(t)))

-----------------------------------------------------------------------------
(* Failures *)

\* The next operation of t fails, because it cannot succeed or by a fault, and may leave
\* the parts behind.
Fail(t, parts) ==
    /\ tunnel[t].todo # <<>>
    /\ IF CanDo(t) THEN faults < MaxFaults /\ faults' = faults + 1 ELSE faults' = faults
    /\ damaged' = damaged \cup parts
    /\ UNCHANGED disturbed

\* `?` in create: there is no object yet whose Drop could clean up.  configure_device may
\* fail when it has added the address.
CreateFails(t) ==
    /\ tunnel[t].phase = "creating"
    /\ Fail(t, IF Op(t) \in {"link", "address"} /\ Link(t).owner # t THEN {} ELSE {"device"})
    /\ tunnel' = [tunnel EXCEPT ![t] = NoTunnel]
    /\ \/ UNCHANGED host
       \/ /\ Op(t) = "address" /\ CanDo(t)
          /\ host' = [host EXCEPT !.links[Device(t)].addresses = @ \cup {tunnel[t].address}]

\* `?` in run: the tunnel is dropped.  A TUN device that is not stored yet goes at once; a
\* routing configurator that is not stored yet is not there to undo what it has done.
SetUpFails(t) ==
    /\ tunnel[t].phase = "settingUp"
    /\ Fail(t, CASE Op(t) = "write" -> {"others"}
                 [] ~Native(t) /\ Op(t) \in {"default", "noIPv6", "gateway", "subnets",
                                             "keepalive"} -> {"routing"}
                 [] OTHER -> {})
    /\ tunnel' = [tunnel EXCEPT ![t] = Dropped(t)]
    /\ host' = IF Op(t) = "address" THEN Unlinked(Device(t)) ELSE host

\* rekey and replace_ip_address return early, which is ignored or gives a warning; that an
\* old state cannot be deleted is ignored.
ReKeyFails(t) ==
    /\ tunnel[t].phase = "up"
    /\ Fail(t, CASE Op(t) = "newOut" -> {}
                 [] Op(t) \in {"move", "leave"} -> {"address"}
                 [] OTHER -> {"device"})
    /\ tunnel' = [tunnel EXCEPT ![t] = IF Op(t) \in {"oldOut", "oldIn"} THEN After(t)
                                       ELSE [@ EXCEPT !.todo = <<>>, !.other = None]]
    /\ UNCHANGED host

\* What is skipped when op of a clean-up fails, itself included.
SkippedWith(op) ==
    CASE op \in {"read", "truncate", "unwrite"} -> {"read", "truncate", "unwrite"}
      [] op \in {"index", "unrule", "ipv6", "unkeepalive"} ->
             {"index", "unrule", "ipv6", "unkeepalive"}
      [] OTHER -> {op}

\* The rest of the function is skipped, and the clean-up goes on.  The device may have been
\* deleted by another native tunnel; without one it is there.
CleanUpFails(t) ==
    /\ tunnel[t].phase = "dropped"
    /\ Fail(t, CASE Op(t) \in {"read", "truncate"} -> {"dns"}
                 [] Op(t) = "unwrite" -> {"dns", "others"}
                 [] Op(t) \in {"unrule", "ipv6", "unkeepalive"} -> {"routing"}
                 [] Op(t) = "index" /\ (CanDo(t) \/ t \in disturbed) -> {"routing"}
                 [] Op(t) = "index" /\ ~(CanDo(t) \/ t \in disturbed) -> {}
                 [] OTHER -> {"device"})
    /\ \E n \in DOMAIN tunnel[t].todo :
           /\ \A i \in DOMAIN tunnel[t].todo : tunnel[t].todo[i] \in SkippedWith(Op(t)) <=> i <= n
           /\ tunnel' = [tunnel EXCEPT ![t].todo = SubSeq(@, n + 1, Len(@))]
    /\ UNCHANGED host

Writing(t) == tunnel[t].todo # <<>> /\ Op(t) \in {"write", "unwrite"}

\* The service is killed.  TUN devices go with it, what else the kernel has stays.
Crash ==
    /\ Alive # {}
    /\ faults < MaxFaults /\ faults' = faults + 1
    /\ tunnel' = [t \in Tunnels |-> IF t \in Alive THEN NoTunnel ELSE tunnel[t]]
    /\ host' = Unlinked("snx-tun")
    /\ damaged' = damaged \cup {"routing", "dns"}
          \cup (IF \E t \in Alive : Native(t) THEN {"device"} ELSE {})
          \cup (IF \E t \in Tunnels : Writing(t) THEN {"others"} ELSE {})
    /\ UNCHANGED disturbed

Next ==
    \/ \E t \in Tunnels :
           \/ Create(t) \/ Created(t) \/ Run(t) \/ Up(t) \/ StartReKey(t) \/ End(t) \/ Gone(t)
           \/ AddLink(t) \/ OpenDevice(t) \/ ConfigureDevice(t) \/ AddStates(t)
           \/ AddPolicies(t) \/ FindDevice(t) \/ AddRules(t) \/ AddRoute(t) \/ SwitchIPv6(t)
           \/ SetLinkDns(t) \/ ReadConf(t) \/ WriteConf(t)
           \/ ReplaceStates(t) \/ ReplaceAddress(t)
           \/ RemoveRules(t) \/ DeleteStates(t) \/ DeleteDevice(t)
           \/ CreateFails(t) \/ SetUpFails(t) \/ ReKeyFails(t) \/ CleanUpFails(t)
    \/ Crash

Spec == Init /\ [][Next]_vars

-----------------------------------------------------------------------------
(* Properties *)

Owned(owners) == owners \subseteq Alive
Served == {Gateway(t) : t \in Alive}

\* Nothing on the host outlives the tunnel it was made for: device, states, policies, rules,
\* routes, the IPv6 switch, DNS servers, however old and new tunnels overlap and whichever
\* step of a run fails; and what others wrote to /etc/resolv.conf is never lost.  The
\* exceptions are listed in damaged (a create of the native tunnel or the routing of a TUN
\* one that fails in the middle, a failed rekey, a failed clean-up, a crash); and, for
\* DNS, native tunnels that overlap with others.
NothingLeftBehind ==
    /\ "device" \notin damaged =>
           /\ Owned({host.links[d].owner : d \in Devices} \ {None})
           /\ Owned({s.owner : s \in host.states} \cup host.policies)
           /\ Owned({r.owner : r \in host.routes})
    /\ "routing" \notin damaged =>
           /\ {r.gateway : r \in host.rules} \subseteq Served
           /\ host.no_ipv6 => \E t \in Alive : tunnel[t].config.disable_ipv6
    /\ "dns" \notin damaged /\ disturbed = {} => host.conf.vpn \subseteq Served
    /\ "others" \notin damaged /\ disturbed = {} =>
           host.conf.others \/ \E t \in Tunnels : Writing(t)

\* A link was left on the host by an earlier tunnel, whose routes are still there too.
Haunted == \E d \in Devices : host.links[d].owner \notin Alive \cup {None}

\* A tunnel that is up has everything it was set up with, to the end: device with address,
\* rules, routes over its own device, IPv6 off if it is to be, DNS; and the packets to its
\* gateway are not routed into it: there is no exclusion rule of another gateway, under
\* which they would be looked up in its table.  Also after crashes and failures of earlier
\* tunnels, unless they left a device (or, for the other rules, their routing) behind,
\* and whatever is going on elsewhere, unless that is another native tunnel.
UpTunnelWorks ==
    \A t \in Tunnels \ disturbed : tunnel[t].phase = "up" =>
        /\ "routing" \notin damaged =>
               \A r \in host.rules : r.sort = "exclusion" => r.gateway = Gateway(t)
        /\ ~Haunted =>
               LET c == tunnel[t].config
               IN  /\ Link(t).owner = t
                   /\ tunnel[t].todo = <<>> /\ "address" \notin damaged =>
                          Link(t).addresses = {tunnel[t].address}
                   /\ Exclusion(t) \in host.rules
                   /\ c.kind # "ssl" => Keepalive(t) \in host.rules
                   /\ {r \in host.routes : r.owner = t} # {}
                   /\ c.full /\ c.disable_ipv6 => host.no_ipv6
                   /\ c.dns => Link(t).dns \/ Gateway(t) \in host.conf.vpn

\* From its creation until its clean-up a native tunnel has its policies and both states of one
\* key pair, at every moment of a rekey and whatever step of it fails: packets are never
\* dropped for want of keys.
KeysInstalled ==
    \A t \in Tunnels :
        /\ tunnel[t].phase \in {"created", "settingUp", "up"} /\ Native(t)
        => /\ t \in host.policies
           /\ \E k \in 1..MaxKey : {Key(t, k, "in"), Key(t, k, "out")} \subseteq host.states
=============================================================================
