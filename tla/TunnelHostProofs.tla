-------------------------- MODULE TunnelHostProofs --------------------------
(***************************************************************************)
(* What TunnelHost keeps for any tunnels, configurations, addresses and    *)
(* keys, and for any number of faults and crashes.                         *)
(***************************************************************************)
EXTENDS TunnelHost, SequenceTheorems, TLAPS

-----------------------------------------------------------------------------
(* The invariant *)

SetUpOps == {"device", "address", "index", "rule", "default", "noIPv6", "gateway", "subnets", "keepalive",
             "linkDns", "read", "truncate", "write"}
CleanUpOps == {"read", "truncate", "unwrite", "index", "unrule", "ipv6", "unkeepalive", "unstates",
               "unpolicies", "unlink"}
RouteOps == {"default", "gateway", "subnets"}
Ops == SetUpOps \cup CleanUpOps \cup {"link", "out", "in", "policies"}
       \cup {"newOut", "newIn", "oldOut", "oldIn", "move", "leave"}

\* What may be left of configure, of replace_ip_address and, before it, of a rekey.
Configuring == {Configure, <<"address", "out", "in", "policies">>, <<"out", "in", "policies">>,
                <<"in", "policies">>, <<"policies">>, <<>>}
OutDone == {<<"in", "policies">>, <<"policies">>, <<>>}
InDone == {<<"policies">>, <<>>}
Moving == {<<"move", "leave">>, <<"leave">>, <<>>}
Adding == {<<"newOut", "newIn", "oldOut", "oldIn", "move", "leave">>,
           <<"newOut", "newIn", "oldOut", "oldIn">>}
Completing == {<<"newIn", "oldOut", "oldIn", "move", "leave">>, <<"newIn", "oldOut", "oldIn">>}
Deleting == {<<"oldOut", "oldIn", "move", "leave">>, <<"oldOut", "oldIn">>,
             <<"oldIn", "move", "leave">>, <<"oldIn">>}

Object == [phase : Phases, config : Configs \cup {None}, todo : Seq(Ops), key : 1..MaxKey,
           address : Addresses \cup {None}, other : Addresses \cup {None}, index : Tunnels \cup {None},
           conf : [others : BOOLEAN, vpn : SUBSET Gateways]]

LinkType == [owner : Tunnels \cup {None}, addresses : SUBSET Addresses, dns : BOOLEAN]

Typed ==
    /\ host \in Host
    /\ tunnel \in [Tunnels -> Object]
    /\ disturbed \subseteq Tunnels
    /\ faults \in 0..MaxFaults
    /\ damaged \subseteq {"device", "address", "routing", "dns", "others"}

\* A link without an owner is no link.
LinksOwned == \A d \in Devices : host.links[d].owner = None => host.links[d] = NoLink

\* A tunnel does what its phase is for, and has its addresses and its configuration as long
\* as it needs them.
Stage(t) ==
    /\ tunnel[t].phase \in {"none", "created", "gone"} => tunnel[t].todo = <<>>
    /\ tunnel[t].phase \notin {"none", "gone"} => tunnel[t].config \in Configs
    /\ tunnel[t].phase \in {"creating", "created", "settingUp", "up"} =>
           tunnel[t].address \in Addresses
    /\ tunnel[t].phase = "creating" => Native(t) /\ tunnel[t].todo \in Configuring
    /\ tunnel[t].phase = "settingUp" => tunnel[t].todo \in Seq(SetUpOps)
    /\ tunnel[t].phase = "up" =>
           \/ tunnel[t].todo \in Moving
           \/ /\ Native(t) /\ tunnel[t].todo \in Adding \cup Completing \cup Deleting
              /\ tunnel[t].key < MaxKey /\ tunnel[t].other \in Addresses
    /\ tunnel[t].phase = "dropped" => tunnel[t].todo \in Seq(CleanUpOps)

Staged == \A t \in Tunnels : Stage(t)

\* Routes are added when the device has been resolved.
LooksFirst(s) ==
    \A i \in 1..Len(s) : s[i] \in RouteOps => \E j \in 1..(i - 1) : s[j] = "index"

Looks(t) == tunnel[t].phase = "settingUp" /\ tunnel[t].index = None => LooksFirst(tunnel[t].todo)

IndexFirst == \A t \in Tunnels : Looks(t)

\* Both states of a key pair are installed.
Paired(t, k) == Key(t, k, "in") \in host.states /\ Key(t, k, "out") \in host.states

\* A native tunnel has a key pair from its creation on: the old one until the new one is
\* complete.
HasKeys(t) ==
    tunnel[t].phase \notin {"none", "gone"} /\ Native(t) =>
        /\ tunnel[t].phase = "creating" =>
               /\ tunnel[t].todo \in OutDone => Key(t, tunnel[t].key, "out") \in host.states
               /\ tunnel[t].todo \in InDone => Key(t, tunnel[t].key, "in") \in host.states
               /\ tunnel[t].todo = <<>> => t \in host.policies
        /\ tunnel[t].phase \in {"created", "settingUp", "up"} => t \in host.policies
        /\ tunnel[t].phase \in {"created", "settingUp"} => Paired(t, tunnel[t].key)
        /\ tunnel[t].phase = "up" =>
               /\ tunnel[t].todo \in Moving \cup Adding \cup Completing =>
                      Paired(t, tunnel[t].key)
               /\ tunnel[t].todo \in Completing =>
                      Key(t, tunnel[t].key + 1, "out") \in host.states
               /\ tunnel[t].todo \in Deleting => Paired(t, tunnel[t].key + 1)

Keyed == \A t \in Tunnels : HasKeys(t)

Kept == Typed /\ LinksOwned /\ Staged /\ IndexFirst /\ Keyed

-----------------------------------------------------------------------------
(* Sequences of operations *)

LEMMA TailOfSeq ==
    ASSUME NEW S, NEW s \in Seq(S), s # <<>>
    PROVE  Tail(s) \in Seq(S) /\ Head(s) \in S
BY HeadTailProperties

\* The parts of a sequence that may or may not be there.
LEMMA WhenType ==
    ASSUME NEW S, NEW s \in Seq(S), NEW p \in BOOLEAN
    PROVE  When(p, s) \in Seq(S)
BY DEF When

\* configure does one thing after the other.
LEMMA Configures ==
    ASSUME NEW s \in Configuring, s # <<>>
    PROVE  /\ Tail(s) \in Configuring
           /\ Head(s) \in {"link", "address", "out", "in", "policies"}
           /\ Tail(s) \in OutDone => s \in OutDone \/ Head(s) = "out"
           /\ Tail(s) \in InDone => s \in InDone \/ Head(s) = "in"
           /\ Tail(s) = <<>> => Head(s) = "policies"
<1>1. CASE s = Configure
  BY <1>1 DEF Configuring, Configure, OutDone, InDone
<1>2. CASE s = <<"address", "out", "in", "policies">>
  BY <1>2 DEF Configuring, Configure, OutDone, InDone
<1>3. CASE s = <<"out", "in", "policies">>
  BY <1>3 DEF Configuring, Configure, OutDone, InDone
<1>4. CASE s = <<"in", "policies">>
  BY <1>4 DEF Configuring, Configure, OutDone, InDone
<1>5. CASE s = <<"policies">>
  BY <1>5 DEF Configuring, Configure, OutDone, InDone
<1>6. QED
  BY <1>1, <1>2, <1>3, <1>4, <1>5 DEF Configuring

\* So do replace_ip_address and rekey.
LEMMA Moves ==
    ASSUME NEW s \in Moving, s # <<>>
    PROVE  Tail(s) \in Moving /\ Head(s) \in {"move", "leave"}
<1>1. CASE s = <<"move", "leave">>
  BY <1>1 DEF Moving
<1>2. CASE s = <<"leave">>
  BY <1>2 DEF Moving
<1>3. QED
  BY <1>1, <1>2 DEF Moving

LEMMA Adds ==
    ASSUME NEW s \in Adding
    PROVE  Tail(s) \in Completing /\ Head(s) = "newOut"
<1>1. CASE s = <<"newOut", "newIn", "oldOut", "oldIn", "move", "leave">>
  BY <1>1 DEF Adding, Completing
<1>2. CASE s = <<"newOut", "newIn", "oldOut", "oldIn">>
  BY <1>2 DEF Adding, Completing
<1>3. QED
  BY <1>1, <1>2 DEF Adding

LEMMA Completes ==
    ASSUME NEW s \in Completing
    PROVE  Tail(s) \in Deleting /\ Head(s) = "newIn"
<1>1. CASE s = <<"newIn", "oldOut", "oldIn", "move", "leave">>
  BY <1>1 DEF Deleting, Completing
<1>2. CASE s = <<"newIn", "oldOut", "oldIn">>
  BY <1>2 DEF Deleting, Completing
<1>3. QED
  BY <1>1, <1>2 DEF Completing

LEMMA Deletes ==
    ASSUME NEW s \in Deleting
    PROVE  /\ Head(s) \in {"oldOut", "oldIn"}
           /\ Head(s) = "oldOut" => Tail(s) \in Deleting
           /\ Head(s) = "oldIn" => Tail(s) \in Moving
<1>1. CASE s = <<"oldOut", "oldIn", "move", "leave">>
  BY <1>1 DEF Deleting, Moving
<1>2. CASE s = <<"oldOut", "oldIn">>
  BY <1>2 DEF Deleting, Moving
<1>3. CASE s = <<"oldIn", "move", "leave">>
  BY <1>3 DEF Deleting, Moving
<1>4. CASE s = <<"oldIn">>
  BY <1>4 DEF Deleting, Moving
<1>5. QED
  BY <1>1, <1>2, <1>3, <1>4 DEF Deleting

\* No list is of two sorts.
LEMMA Sorts ==
    /\ Moving \cap (Adding \cup Completing \cup Deleting) = {}
    /\ Adding \cap (Completing \cup Deleting) = {}
    /\ Completing \cap Deleting = {}
<1>1. \A s \in Moving : s = <<>> \/ Head(s) \in {"move", "leave"}
  BY Moves
<1>2. <<>> \notin Adding \cup Completing \cup Deleting
  BY DEF Adding, Completing, Deleting
<1>3. \A s \in Deleting : Head(s) \in {"oldOut", "oldIn"}
  BY Deletes
<1>4. QED
  BY <1>1, <1>2, <1>3, Adds, Completes

\* The rekey's list is one of these.
LEMMA ReKeyLists ==
    ASSUME NEW t, NEW moved \in BOOLEAN
    PROVE  Native(t) => ReKey(t, moved) = IF moved
               THEN <<"newOut", "newIn", "oldOut", "oldIn", "move", "leave">>
               ELSE <<"newOut", "newIn", "oldOut", "oldIn">>
<1>1. CASE ~Native(t)
  BY <1>1
<1>2. CASE Native(t) /\ ~moved
  <2>1. ReKey(t, moved) = <<"newOut", "newIn", "oldOut", "oldIn">> \o <<>>
    BY <1>2 DEF ReKey, When
  <2>2. <<"newOut", "newIn", "oldOut", "oldIn">> \in Seq(Ops)
    BY DEF Ops
  <2>3. ReKey(t, moved) = <<"newOut", "newIn", "oldOut", "oldIn">>
    BY <2>1, <2>2, ConcatEmptySeq
  <2>4. QED
    BY <2>3, <1>2
<1>3. CASE Native(t) /\ moved
  <2> DEFINE u == <<"newOut", "newIn", "oldOut", "oldIn">>
             v == <<"move", "leave">>
             w == <<"newOut", "newIn", "oldOut", "oldIn", "move", "leave">>
  <2>1. ReKey(t, moved) = u \o v
    BY <1>3 DEF ReKey, When
  <2>2. u \in Seq(Ops) /\ v \in Seq(Ops) /\ w \in Seq(Ops)
    BY DEF Ops
  <2>3. Len(u) = 4 /\ Len(v) = 2 /\ Len(w) = 6
    OBVIOUS
  <2>4. /\ u \o v \in Seq(Ops) /\ Len(u \o v) = 6
        /\ \A i \in 1..6 : (u \o v)[i] = IF i <= 4 THEN u[i] ELSE v[i - 4]
    <3>1. /\ Len(u \o v) = Len(u) + Len(v)
          /\ \A i \in 1 .. (Len(u) + Len(v)) :
                 (u \o v)[i] = IF i <= Len(u) THEN u[i] ELSE v[i - Len(u)]
      BY <2>2, ConcatProperties
    <3>2. u \o v \in Seq(Ops)
      BY <2>2, ConcatProperties
    <3> HIDE DEF u, v
    <3>3. QED
      BY <2>3, <3>1, <3>2
  <2>5. \A i \in 1..6 : (u \o v)[i] = w[i]
    <3>1. (u \o v)[1] = "newOut" /\ (u \o v)[2] = "newIn"
      BY <2>4
    <3>2. (u \o v)[3] = "oldOut" /\ (u \o v)[4] = "oldIn"
      BY <2>4
    <3>3. (u \o v)[5] = "move" /\ (u \o v)[6] = "leave"
      BY <2>4
    <3>4. \A i \in 1..6 : i \in {1, 2, 3, 4, 5, 6}
      OBVIOUS
    <3>5. w[1] = "newOut" /\ w[2] = "newIn" /\ w[3] = "oldOut" /\ w[4] = "oldIn"
          /\ w[5] = "move" /\ w[6] = "leave"
      OBVIOUS
    <3>6. QED
      BY <3>1, <3>2, <3>3, <3>4, <3>5
  <2>6. u \o v = w
    <3> HIDE DEF u, v, w
    <3>1. QED
      BY <2>2, <2>3, <2>4, <2>5, SeqEqual
  <2>7. ReKey(t, moved) = w
    BY <2>1, <2>6
  <2>8. QED
    BY <2>7, <1>3
<1>4. QED
  BY <1>1, <1>2, <1>3

LEMMA ReKeys ==
    ASSUME NEW t, NEW moved \in BOOLEAN
    PROVE  /\ Native(t) => ReKey(t, moved) \in Adding
           /\ ~Native(t) => ReKey(t, moved) \in Moving
<1>1. CASE ~Native(t)
  BY <1>1 DEF ReKey, When, Moving
<1>2. CASE Native(t)
  BY <1>2, ReKeyLists DEF Adding
<1>3. QED
  BY <1>1, <1>2

LEMMA Joined ==
    ASSUME NEW S, NEW u \in Seq(S), NEW v \in Seq(S)
    PROVE  u \o v \in Seq(S)
BY ConcatProperties

LEMMA SetUps ==
    ASSUME NEW c \in Config
    PROVE  /\ SetUpRouting(c) \in Seq(SetUpOps)
           /\ SetUpRouting(c) # <<>> /\ SetUpRouting(c)[1] = "index"
           /\ SetUpDns(c) \in Seq(SetUpOps \ RouteOps)
<1> DEFINE head == <<"index", "rule">>
           ipv6 == When(c.disable_ipv6, <<"noIPv6">>)
           gateway == When(c.kind # "ssl", <<"gateway">>)
           keepalive == When(c.kind # "ssl", <<"keepalive">>)
           routes == IF c.full THEN <<"default">> \o ipv6 \o gateway ELSE <<"subnets">>
<1>1. head \in Seq(SetUpOps) /\ Len(head) = 2 /\ head[1] = "index"
  BY DEF SetUpOps
<1>2. /\ <<"noIPv6">> \in Seq(SetUpOps) /\ <<"gateway">> \in Seq(SetUpOps)
      /\ <<"keepalive">> \in Seq(SetUpOps) /\ <<"default">> \in Seq(SetUpOps)
      /\ <<"subnets">> \in Seq(SetUpOps) /\ <<>> \in Seq(SetUpOps)
  BY DEF SetUpOps
<1>3. ipv6 \in Seq(SetUpOps) /\ gateway \in Seq(SetUpOps) /\ keepalive \in Seq(SetUpOps)
  BY <1>2 DEF When
<1>4. SetUpRouting(c) = head \o routes \o keepalive
  BY DEF SetUpRouting
<1> HIDE DEF head, ipv6, gateway, keepalive
<1>5. <<"default">> \o ipv6 \o gateway \in Seq(SetUpOps)
  BY <1>2, <1>3, Joined
<1>6. routes \in Seq(SetUpOps)
  BY <1>2, <1>5
<1> HIDE DEF routes
<1>7. /\ head \o routes \in Seq(SetUpOps) /\ Len(head \o routes) \in Nat \ {0, 1}
      /\ (head \o routes)[1] = "index"
  <2>1. /\ Len(head \o routes) = Len(head) + Len(routes)
        /\ \A i \in 1 .. (Len(head) + Len(routes)) :
               (head \o routes)[i] = IF i <= Len(head) THEN head[i] ELSE routes[i - Len(head)]
    BY <1>1, <1>6, ConcatProperties
  <2>2. Len(routes) \in Nat
    BY <1>6, LenProperties
  <2>3. QED
    BY <1>1, <1>6, <2>1, <2>2, Joined
<1>8. /\ SetUpRouting(c) \in Seq(SetUpOps) /\ SetUpRouting(c) # <<>>
      /\ SetUpRouting(c)[1] = "index"
  <2> DEFINE s == head \o routes
  <2> HIDE DEF s
  <2>1. s \in Seq(SetUpOps) /\ Len(s) \in Nat \ {0, 1} /\ s[1] = "index"
    BY <1>7 DEF s
  <2>2. /\ Len(s \o keepalive) = Len(s) + Len(keepalive)
        /\ \A i \in 1 .. (Len(s) + Len(keepalive)) :
               (s \o keepalive)[i] = IF i <= Len(s) THEN s[i] ELSE keepalive[i - Len(s)]
        /\ s \o keepalive \in Seq(SetUpOps)
    BY <2>1, <1>3, ConcatProperties
  <2>3. Len(keepalive) \in Nat
    BY <1>3, LenProperties
  <2>4. Len(s \o keepalive) # 0 /\ (s \o keepalive)[1] = "index"
    BY <2>1, <2>2, <2>3
  <2>5. SetUpRouting(c) = s \o keepalive
    BY <1>4 DEF s
  <2>6. QED
    BY <2>2, <2>4, <2>5, EmptySeq
<1>9. SetUpDns(c) \in Seq(SetUpOps \ RouteOps)
  <2>1. /\ <<"linkDns">> \in Seq(SetUpOps \ RouteOps)
        /\ <<"read", "truncate", "write">> \in Seq(SetUpOps \ RouteOps)
        /\ <<>> \in Seq(SetUpOps \ RouteOps)
    BY DEF SetUpOps, RouteOps
  <2>2. QED
    BY <2>1 DEF SetUpDns, When
<1>10. QED
  BY <1>8, <1>9

LEMMA CleanUps ==
    ASSUME NEW t \in Tunnels, tunnel[t].config \in Config
    PROVE  CleanUp(t) \in Seq(CleanUpOps)
<1> DEFINE c == tunnel[t].config
           dns == CleanUpDns(c)
           routing == CleanUpRouting(c)
           S == Seq(CleanUpOps)
<1>1. /\ <<>> \in S /\ <<"read", "truncate", "unwrite">> \in S /\ <<"index">> \in S
      /\ <<"unrule">> \in S /\ <<"ipv6">> \in S /\ <<"unkeepalive">> \in S
      /\ <<"unstates", "unpolicies", "unlink">> \in S /\ <<"unlink">> \in S
  BY DEF CleanUpOps
<1>2. dns \in S
  BY <1>1 DEF CleanUpDns, When
<1>3. When(c.disable_ipv6, <<"ipv6">>) \in S /\ When(c.kind # "ssl", <<"unkeepalive">>) \in S
  BY <1>1 DEF When
<1>4. routing \in S
  BY <1>1, <1>3, Joined DEF CleanUpRouting
<1>5. When(HasRouting(t), routing) \in S
  BY <1>1, <1>4 DEF When
<1> HIDE DEF dns, routing
<1>6. /\ dns \o <<"index">> \o routing \o <<"unstates", "unpolicies", "unlink">> \in S
      /\ dns \o When(HasRouting(t), routing) \o <<"unlink">> \in S
      /\ When(HasRouting(t), routing) \o dns \o <<"unlink">> \in S
  BY <1>1, <1>2, <1>4, <1>5, Joined
<1>7. c.kind \in {"native", "tun", "ssl"}
  BY DEF Config, Kinds
<1>8. /\ c.kind = "native" =>
            CleanUp(t) = dns \o <<"index">> \o routing \o <<"unstates", "unpolicies", "unlink">>
      /\ c.kind # "native" /\ ~HasDevice(t) => CleanUp(t) = <<>>
      /\ c.kind = "tun" /\ HasDevice(t) =>
            CleanUp(t) = dns \o When(HasRouting(t), routing) \o <<"unlink">>
      /\ c.kind = "ssl" /\ HasDevice(t) =>
            CleanUp(t) = When(HasRouting(t), routing) \o dns \o <<"unlink">>
  BY DEF CleanUp, dns, routing
<1>9. QED
  BY <1>1, <1>6, <1>7, <1>8

-----------------------------------------------------------------------------
(* The device is resolved before routes are added. *)

LEMMA LooksAtOnce ==
    ASSUME NEW s, s[1] = "index"
    PROVE  Len(s) \in Nat => LooksFirst(s)
<1> SUFFICES ASSUME Len(s) \in Nat, NEW i \in 1..Len(s), s[i] \in RouteOps
             PROVE  \E j \in 1..(i - 1) : s[j] = "index"
  BY DEF LooksFirst
<1>1. i # 1
  BY DEF RouteOps
<1>2. QED
  BY <1>1

LEMMA LooksLater ==
    ASSUME NEW S, NEW u \in Seq(S \ RouteOps), NEW v \in Seq(S), LooksFirst(v)
    PROVE  LooksFirst(u \o v)
<1> SUFFICES ASSUME NEW i \in 1..Len(u \o v), (u \o v)[i] \in RouteOps
             PROVE  \E j \in 1..(i - 1) : (u \o v)[j] = "index"
  BY DEF LooksFirst
<1>1. Len(u) \in Nat /\ Len(v) \in Nat /\ \A k \in 1..Len(u) : u[k] \notin RouteOps
  BY LenProperties, ElementOfSeq
<1>2. /\ Len(u \o v) = Len(u) + Len(v)
      /\ \A k \in 1 .. (Len(u) + Len(v)) :
             (u \o v)[k] = IF k <= Len(u) THEN u[k] ELSE v[k - Len(u)]
  <2>1. u \in Seq(S)
    BY SeqMonotonic
  <2>2. QED
    BY <2>1, ConcatProperties
<1>3. i > Len(u) /\ v[i - Len(u)] \in RouteOps
  BY <1>1, <1>2
<1>4. PICK j \in 1 .. (i - Len(u) - 1) : v[j] = "index"
  BY <1>1, <1>2, <1>3 DEF LooksFirst
<1>5. (u \o v)[j + Len(u)] = "index" /\ j + Len(u) \in 1..(i - 1)
  BY <1>1, <1>2, <1>3, <1>4
<1>6. QED
  BY <1>5

LEMMA LooksEarlier ==
    ASSUME NEW S, NEW u \in Seq(S), LooksFirst(u), NEW v \in Seq(S \ RouteOps)
    PROVE  LooksFirst(u \o v)
<1> SUFFICES ASSUME NEW i \in 1..Len(u \o v), (u \o v)[i] \in RouteOps
             PROVE  \E j \in 1..(i - 1) : (u \o v)[j] = "index"
  BY DEF LooksFirst
<1>1. Len(u) \in Nat /\ Len(v) \in Nat /\ \A k \in 1..Len(v) : v[k] \notin RouteOps
  BY LenProperties, ElementOfSeq
<1>2. /\ Len(u \o v) = Len(u) + Len(v)
      /\ \A k \in 1 .. (Len(u) + Len(v)) :
             (u \o v)[k] = IF k <= Len(u) THEN u[k] ELSE v[k - Len(u)]
  <2>1. v \in Seq(S)
    BY SeqMonotonic
  <2>2. QED
    BY <2>1, ConcatProperties
<1>3. i <= Len(u) /\ u[i] \in RouteOps
  BY <1>1, <1>2
<1>4. PICK j \in 1 .. (i - 1) : u[j] = "index"
  BY <1>1, <1>3 DEF LooksFirst
<1>5. (u \o v)[j] = "index"
  BY <1>1, <1>2, <1>3, <1>4
<1>6. QED
  BY <1>5

\* The device has been looked up when the lookup is done; until then the rest looks it up.
LEMMA LooksOn ==
    ASSUME NEW S, NEW s \in Seq(S), s # <<>>, LooksFirst(s), Head(s) # "index"
    PROVE  LooksFirst(Tail(s)) /\ Head(s) \notin RouteOps
<1>1. /\ Len(s) \in Nat \ {0} /\ Len(Tail(s)) = Len(s) - 1 /\ Head(s) = s[1]
      /\ \A i \in 1..Len(Tail(s)) : Tail(s)[i] = s[i + 1]
  BY HeadTailProperties, LenProperties, EmptySeq
<1>2. Head(s) \notin RouteOps
  BY <1>1 DEF LooksFirst
<1>3. SUFFICES ASSUME NEW i \in 1..Len(Tail(s)), Tail(s)[i] \in RouteOps
               PROVE  \E j \in 1..(i - 1) : Tail(s)[j] = "index"
  BY <1>2 DEF LooksFirst
<1>4. PICK j \in 1..i : s[j] = "index"
  BY <1>1, <1>3 DEF LooksFirst
<1>5. j # 1 /\ Tail(s)[j - 1] = "index"
  BY <1>1, <1>3, <1>4
<1>6. QED
  BY <1>4, <1>5

-----------------------------------------------------------------------------
(* Operations on the host *)

Operation(t) ==
    \/ AddLink(t) \/ OpenDevice(t) \/ ConfigureDevice(t) \/ AddStates(t) \/ AddPolicies(t)
    \/ FindDevice(t) \/ AddRules(t) \/ AddRoute(t) \/ SwitchIPv6(t) \/ SetLinkDns(t)
    \/ ReadConf(t) \/ WriteConf(t) \/ ReplaceStates(t) \/ ReplaceAddress(t)
    \/ RemoveRules(t) \/ DeleteStates(t) \/ DeleteDevice(t)

\* A tunnel with something to do has a configuration, and does what its phase is for.
LEMMA Busy ==
    ASSUME Kept, NEW t \in Tunnels, tunnel[t].todo # <<>>
    PROVE  /\ tunnel[t] \in Object
           /\ tunnel[t].phase \in {"creating", "settingUp", "up", "dropped"}
           /\ tunnel[t].config \in Config /\ Gateway(t) \in Gateways /\ Device(t) \in Devices
           /\ tunnel[t].phase = "creating" => Op(t) \in {"link", "address", "out", "in", "policies"}
           /\ tunnel[t].phase = "settingUp" => Op(t) \in SetUpOps
           /\ tunnel[t].phase = "up" =>
                  Op(t) \in {"newOut", "newIn", "oldOut", "oldIn", "move", "leave"}
           /\ tunnel[t].phase = "dropped" => Op(t) \in CleanUpOps
<1>1. tunnel[t] \in Object
  BY DEF Kept, Typed
<1>2. tunnel[t].phase \in {"creating", "settingUp", "up", "dropped"}
  BY <1>1 DEF Kept, Staged, Stage, Object, Phases
<1>3. tunnel[t].config \in Config
  BY <1>2, HostAssumption DEF Kept, Staged, Stage
<1>4. Gateway(t) \in Gateways /\ Device(t) \in Devices
  BY <1>3 DEF Gateway, Device, Devices, Config
<1>5. tunnel[t].phase = "creating" => Op(t) \in {"link", "address", "out", "in", "policies"}
  BY Configures DEF Kept, Staged, Stage, Op
<1>6. tunnel[t].phase = "settingUp" => Op(t) \in SetUpOps
  BY TailOfSeq DEF Kept, Staged, Stage, Op
<1>7. tunnel[t].phase = "up" => Op(t) \in {"newOut", "newIn", "oldOut", "oldIn", "move", "leave"}
  BY Moves, Adds, Completes, Deletes DEF Kept, Staged, Stage, Op
<1>8. tunnel[t].phase = "dropped" => Op(t) \in CleanUpOps
  BY TailOfSeq DEF Kept, Staged, Stage, Op
<1>9. QED
  BY <1>1, <1>2, <1>3, <1>4, <1>5, <1>6, <1>7, <1>8

\* What an operation uses is there.
LEMMA Equipped ==
    ASSUME Kept, NEW t \in Tunnels, tunnel[t].todo # <<>>
    PROVE  /\ Op(t) \in RouteOps => tunnel[t].index \in Tunnels
           /\ Op(t) \in {"address", "move"} => tunnel[t].address \in Addresses
           /\ Op(t) \in {"newOut", "newIn", "oldIn"} =>
                  tunnel[t].key + 1 \in 1..MaxKey /\ tunnel[t].other \in Addresses
<1>1. Op(t) \in RouteOps => tunnel[t].index \in Tunnels
  <2> SUFFICES ASSUME Op(t) \in RouteOps
               PROVE  tunnel[t].index \in Tunnels
    OBVIOUS
  <2>1. tunnel[t].phase = "settingUp"
    BY Busy DEF RouteOps, SetUpOps, CleanUpOps
  <2>2. tunnel[t].todo \in Seq(SetUpOps) /\ tunnel[t].index \in Tunnels \cup {None}
    BY <2>1, Busy DEF Kept, Staged, Stage, Object
  <2>3. Op(t) # "index"
    BY DEF RouteOps
  <2>4. ~LooksFirst(tunnel[t].todo)
    BY <2>2, <2>3, LooksOn DEF Op
  <2>5. QED
    BY <2>1, <2>2, <2>4 DEF Kept, IndexFirst, Looks
<1>2. Op(t) \in {"address", "move"} => tunnel[t].address \in Addresses
  <2>1. Op(t) \in {"address", "move"} => tunnel[t].phase # "dropped"
    BY Busy DEF CleanUpOps
  <2>2. QED
    BY <2>1, Busy DEF Kept, Staged, Stage
<1>3. Op(t) \in {"newOut", "newIn", "oldIn"} =>
          tunnel[t].key + 1 \in 1..MaxKey /\ tunnel[t].other \in Addresses
  <2> SUFFICES ASSUME Op(t) \in {"newOut", "newIn", "oldIn"}
               PROVE  tunnel[t].key + 1 \in 1..MaxKey /\ tunnel[t].other \in Addresses
    OBVIOUS
  <2>1. tunnel[t].phase = "up"
    BY Busy DEF CleanUpOps, SetUpOps
  <2>2. tunnel[t].todo \notin Moving
    BY Moves DEF Op
  <2>3. tunnel[t].key < MaxKey /\ tunnel[t].other \in Addresses
    BY <2>1, <2>2 DEF Kept, Staged, Stage
  <2>4. tunnel[t].key \in 1..MaxKey /\ MaxKey \in Nat
    BY Busy, HostAssumption DEF Object
  <2>5. QED
    BY <2>3, <2>4
<1>4. QED
  BY <1>1, <1>2, <1>3

\* After an operation the rest of the list is left, and t knows what the operation has found.
LEMMA Afterwards ==
    ASSUME NEW t \in Tunnels, tunnel[t] \in Object
    PROVE  LET w == After(t)
           IN  /\ w = [phase |-> w.phase, config |-> w.config, todo |-> w.todo, key |-> w.key,
                       address |-> w.address, other |-> w.other, index |-> w.index,
                       conf |-> w.conf]
               /\ w.phase = tunnel[t].phase /\ w.config = tunnel[t].config
               /\ w.todo = Tail(tunnel[t].todo)
               /\ w.key = IF Op(t) = "oldIn" THEN tunnel[t].key + 1 ELSE tunnel[t].key
               /\ w.address = IF Op(t) = "oldIn" THEN tunnel[t].other ELSE tunnel[t].address
               /\ w.other = CASE Op(t) = "oldIn" -> tunnel[t].address
                              [] Op(t) = "leave" -> None
                              [] OTHER -> tunnel[t].other
               /\ w.index = IF Op(t) = "index" THEN Link(t).owner ELSE tunnel[t].index
               /\ w.conf = CASE Op(t) = "read" -> host.conf
                             [] Op(t) \in {"write", "unwrite"} -> InitTunnel.conf
                             [] OTHER -> tunnel[t].conf
<1> DEFINE rest == [tunnel[t] EXCEPT !.todo = Tail(@)]
<1>1. CASE Op(t) = "index"
  BY <1>1 DEF After, Object
<1>2. CASE Op(t) = "read"
  BY <1>2 DEF After, Object
<1>3. CASE Op(t) \in {"write", "unwrite"}
  BY <1>3 DEF After, Object
<1>4. CASE Op(t) = "oldIn"
  BY <1>4 DEF After, Object
<1>5. CASE Op(t) = "leave"
  BY <1>5 DEF After, Object
<1>6. CASE Op(t) \notin {"index", "read", "write", "unwrite", "oldIn", "leave"}
  BY <1>6 DEF After, Object
<1>7. QED
  BY <1>1, <1>2, <1>3, <1>4, <1>5, <1>6

LEMMA Done ==
    ASSUME NEW t \in Tunnels, Operation(t)
    PROVE  /\ tunnel[t].todo # <<>> /\ CanDo(t) /\ UNCHANGED history
           /\ tunnel' = [tunnel EXCEPT ![t] = After(t)]
BY DEF Operation, Do, AddLink, OpenDevice, ConfigureDevice, AddStates, AddPolicies, FindDevice,
       AddRules, AddRoute, SwitchIPv6, SetLinkDns, ReadConf, WriteConf, ReplaceStates,
       ReplaceAddress, RemoveRules, DeleteStates, DeleteDevice

\* The types of the host's tables, in parts.
LEMMA HostParts ==
    ASSUME host \in Host
    PROVE  /\ host = [links |-> host.links, routes |-> host.routes, rules |-> host.rules,
                      states |-> host.states, policies |-> host.policies,
                      no_ipv6 |-> host.no_ipv6, resolver |-> host.resolver, conf |-> host.conf]
           /\ host.links \in [Devices -> LinkType]
           /\ host.routes \in SUBSET [destination : {"default", "subnets", "gateway"},
                                      owner : Tunnels]
           /\ host.rules \in SUBSET [sort : {"exclusion", "keepalive"}, gateway : Gateways]
           /\ host.states \in SUBSET [owner : Tunnels, key : 1..MaxKey, direction : {"in", "out"}]
           /\ host.policies \in SUBSET Tunnels
           /\ host.no_ipv6 \in BOOLEAN /\ host.resolver \in Resolvers
           /\ host.conf \in [others : BOOLEAN, vpn : SUBSET Gateways]
BY DEF Host, LinkType

LEMMA LinkGone ==
    ASSUME host \in Host, LinksOwned, NEW d \in Devices
    PROVE  LET h == Unlinked(d)
           IN  /\ h \in Host
               /\ \A e \in Devices : h.links[e].owner = None => h.links[e] = NoLink
               /\ h.states = host.states /\ h.policies = host.policies
<1>1. NoLink \in LinkType /\ NoLink.owner = None
  BY DEF NoLink, LinkType
<1>2. /\ Unlinked(d).links = [host.links EXCEPT ![d] = NoLink]
      /\ Unlinked(d).routes = {r \in host.routes : r.owner # host.links[d].owner}
      /\ Unlinked(d) \in Host
  BY <1>1, HostParts DEF Unlinked, Host, LinkType
<1>3. Unlinked(d).states = host.states /\ Unlinked(d).policies = host.policies
  BY HostParts DEF Unlinked
<1>4. QED
  BY <1>1, <1>2, <1>3, HostParts DEF LinksOwned

LEMMA LinkChanged ==
    ASSUME host \in Host, LinksOwned, NEW d \in Devices, NEW l \in LinkType, l.owner # None
    PROVE  LET h == [host EXCEPT !.links[d] = l]
           IN  /\ h \in Host
               /\ \A e \in Devices : h.links[e].owner = None => h.links[e] = NoLink
               /\ h.states = host.states /\ h.policies = host.policies
<1>1. [host EXCEPT !.links[d] = l].links = [host.links EXCEPT ![d] = l]
  BY HostParts
<1>2. [host EXCEPT !.links[d] = l] \in Host
  BY HostParts DEF Host, LinkType
<1>3. [host EXCEPT !.links[d] = l].states = host.states
      /\ [host EXCEPT !.links[d] = l].policies = host.policies
  BY HostParts
<1>4. QED
  BY <1>1, <1>2, <1>3, HostParts DEF LinksOwned

\* The two tables of xfrm stay as they are.
SameKeys == host'.states = host.states /\ host'.policies = host.policies

\* A link keeps its owner; it is there, as the operation can succeed.
LEMMA LinkFields ==
    ASSUME NEW l \in LinkType, NEW x
    PROVE  /\ [l EXCEPT !.addresses = x] = [owner |-> l.owner, addresses |-> x, dns |-> l.dns]
           /\ [l EXCEPT !.dns = x] = [owner |-> l.owner, addresses |-> l.addresses, dns |-> x]
BY DEF LinkType

LEMMA LinkKept ==
    ASSUME host \in Host, LinksOwned, NEW t \in Tunnels, Device(t) \in Devices, Link(t) # NoLink
    PROVE  /\ Link(t) \in LinkType /\ Link(t).owner \in Tunnels
           /\ Link(t) = [owner |-> Link(t).owner, addresses |-> Link(t).addresses,
                         dns |-> Link(t).dns]
BY HostParts DEF LinksOwned, Link, LinkType

\* The host and its links have their types after every operation; only those on xfrm change
\* states and policies.
LEMMA HostAfter ==
    ASSUME Kept, NEW t \in Tunnels, Operation(t)
    PROVE  /\ host' \in Host /\ LinksOwned'
           /\ Op(t) \notin {"out", "in", "policies", "newOut", "newIn", "oldOut", "oldIn", "unstates",
                            "unpolicies"} => SameKeys
<1> DEFINE d == Device(t)
           Xfrm == {"out", "in", "policies", "newOut", "newIn", "oldOut", "oldIn", "unstates",
                    "unpolicies"}
<1>1. tunnel[t].todo # <<>> /\ CanDo(t)
  BY Done
<1>2. /\ tunnel[t] \in Object /\ d \in Devices /\ Gateway(t) \in Gateways
      /\ host \in Host /\ LinksOwned /\ MaxKey \in Nat
  BY <1>1, Busy, HostAssumption DEF Kept, Typed
<1>3. CASE AddLink(t) \/ OpenDevice(t)
  <2>1. t # None
    BY HostAssumption
  <2>2. [NoLink EXCEPT !.owner = t] \in LinkType /\ [NoLink EXCEPT !.owner = t].owner = t
    BY DEF NoLink, LinkType
  <2>3. host' = host \/ host' = [host EXCEPT !.links[d] = [NoLink EXCEPT !.owner = t]]
    BY <1>3 DEF AddLink, OpenDevice, Do
  <2>4. CASE host' = host
    BY <1>2, <2>4 DEF LinksOwned, SameKeys
  <2> DEFINE l == [NoLink EXCEPT !.owner = t]
  <2>5. CASE host' = [host EXCEPT !.links[d] = l]
    <3>1. l \in LinkType /\ l.owner # None
      BY <2>1, <2>2
    <3> HIDE DEF l
    <3>2. QED
      BY <1>2, <2>5, <3>1, LinkChanged DEF LinksOwned, SameKeys
  <2>6. QED
    BY <2>3, <2>4, <2>5
<1>4. CASE ConfigureDevice(t) \/ SetLinkDns(t) \/ ReplaceAddress(t)
  <2>1. Op(t) \in {"address", "linkDns", "move", "leave"}
    BY <1>4 DEF ConfigureDevice, SetLinkDns, ReplaceAddress, Do
  <2>2. Link(t) # NoLink
    BY <1>1, <2>1 DEF CanDo, NoLink
  <2>3. /\ Link(t) \in LinkType /\ Link(t).owner \in Tunnels /\ Link(t).owner # None
        /\ Link(t) = [owner |-> Link(t).owner, addresses |-> Link(t).addresses,
                      dns |-> Link(t).dns]
    BY <1>2, <2>2, LinkKept, HostAssumption
  <2> DEFINE Changed == \E A \in SUBSET Addresses, b \in BOOLEAN :
                            host' = [host EXCEPT !.links[d] =
                                [owner |-> Link(t).owner, addresses |-> A, dns |-> b]]
  <2> HIDE DEF Changed
  <2>4. Changed
    <3>1. CASE ConfigureDevice(t) \/ (Op(t) = "move" /\ ReplaceAddress(t))
      <4>1. Op(t) \in {"address", "move"}
        BY <3>1 DEF ConfigureDevice, Do
      <4>2. tunnel[t].address \in Addresses
        BY <1>1, <4>1, Equipped
      <4>3. host' = [host EXCEPT !.links[d].addresses = @ \cup {tunnel[t].address}]
        BY <3>1 DEF ConfigureDevice, ReplaceAddress, Do
      <4>4. host' = [host EXCEPT !.links[d] =
                        [owner |-> Link(t).owner,
                         addresses |-> Link(t).addresses \cup {tunnel[t].address},
                         dns |-> Link(t).dns]]
        BY <2>3, <4>3, LinkFields DEF Link
      <4>5. Link(t).addresses \cup {tunnel[t].address} \in SUBSET Addresses
            /\ Link(t).dns \in BOOLEAN
        BY <2>3, <4>2 DEF LinkType
      <4>6. QED
        BY <4>4, <4>5 DEF Changed
    <3>2. CASE Op(t) = "leave" /\ ReplaceAddress(t)
      <4>1. host' = [host EXCEPT !.links[d].addresses = @ \ {tunnel[t].other}]
        BY <3>2 DEF ReplaceAddress, Do
      <4>2. host' = [host EXCEPT !.links[d] =
                        [owner |-> Link(t).owner,
                         addresses |-> Link(t).addresses \ {tunnel[t].other},
                         dns |-> Link(t).dns]]
        BY <2>3, <4>1, LinkFields DEF Link
      <4>3. Link(t).addresses \ {tunnel[t].other} \in SUBSET Addresses /\ Link(t).dns \in BOOLEAN
        BY <2>3 DEF LinkType
      <4>4. QED
        BY <4>2, <4>3 DEF Changed
    <3>3. CASE SetLinkDns(t)
      <4>1. host' = [host EXCEPT !.links[d].dns = TRUE]
        BY <3>3 DEF SetLinkDns, Do
      <4>2. host' = [host EXCEPT !.links[d] =
                        [owner |-> Link(t).owner, addresses |-> Link(t).addresses, dns |-> TRUE]]
        BY <2>3, <4>1, LinkFields DEF Link
      <4>3. Link(t).addresses \in SUBSET Addresses
        BY <2>3 DEF LinkType
      <4>4. QED
        BY <4>2, <4>3 DEF Changed
    <3>4. ReplaceAddress(t) => Op(t) \in {"move", "leave"}
      BY DEF ReplaceAddress, Do
    <3>5. CASE ConfigureDevice(t)
      BY <3>1, <3>5
    <3>6. CASE ReplaceAddress(t)
      BY <3>1, <3>2, <3>4, <3>6
    <3>7. QED
      BY <1>4, <3>3, <3>5, <3>6
  <2> PICK A \in SUBSET Addresses, b \in BOOLEAN :
            host' = [host EXCEPT !.links[d] =
                        [owner |-> Link(t).owner, addresses |-> A, dns |-> b]]
    BY <2>4 DEF Changed
  <2> DEFINE l == [owner |-> Link(t).owner, addresses |-> A, dns |-> b]
  <2>5. l \in LinkType /\ l.owner # None
    BY <2>3 DEF LinkType
  <2>6. host' = [host EXCEPT !.links[d] = l]
    OBVIOUS
  <2> HIDE DEF l, d
  <2>7. /\ host' \in Host /\ SameKeys
        /\ \A e \in Devices : host'.links[e].owner = None => host'.links[e] = NoLink
    <3>1. host \in Host /\ LinksOwned /\ d \in Devices
      BY <1>2
    <3> DEFINE h == [host EXCEPT !.links[d] = l]
    <3>2. /\ h \in Host /\ h.states = host.states /\ h.policies = host.policies
          /\ \A e \in Devices : h.links[e].owner = None => h.links[e] = NoLink
      BY <2>5, <3>1, LinkChanged
    <3>3. host' = h
      BY <2>6
    <3> HIDE DEF h
    <3>4. QED
      BY <3>2, <3>3 DEF SameKeys
  <2>8. QED
    BY <2>7 DEF LinksOwned
<1>5. CASE AddStates(t) \/ ReplaceStates(t) \/ DeleteStates(t) \/ AddPolicies(t)
  <2>1. Op(t) \in Xfrm
    BY <1>5 DEF AddStates, ReplaceStates, DeleteStates, AddPolicies, Do
  <2>2. \E S \in SUBSET [owner : Tunnels, key : 1..MaxKey, direction : {"in", "out"}],
            P \in SUBSET Tunnels :
            host' = [host EXCEPT !.states = S] \/ host' = [host EXCEPT !.policies = P]
    <3>1. Op(t) \in {"newOut", "newIn"} => tunnel[t].key + 1 \in 1..MaxKey
      BY <1>1, Equipped
    <3>2. \A k \in 1..MaxKey : \A x \in {"in", "out"} :
              Key(t, k, x) \in [owner : Tunnels, key : 1..MaxKey, direction : {"in", "out"}]
      BY DEF Key
    <3>3. tunnel[t].key \in 1..MaxKey
      BY <1>2 DEF Object
    <3>4. CASE AddStates(t) \/ ReplaceStates(t)
      <4>1. Op(t) \in {"out", "in", "newOut", "newIn", "oldOut", "oldIn"}
        BY <3>4 DEF AddStates, ReplaceStates, Do
      <4>2. \/ \E k \in 1..MaxKey, x \in {"in", "out"} :
                   host' = [host EXCEPT !.states = @ \cup {Key(t, k, x)}]
            \/ \E T : host' = [host EXCEPT !.states = @ \ T]
        BY <3>1, <3>3, <3>4 DEF AddStates, ReplaceStates, Do
      <4>3. \/ \E k \in 1..MaxKey, x \in {"in", "out"} :
                   host' = [host EXCEPT !.states = host.states \cup {Key(t, k, x)}]
            \/ \E T : host' = [host EXCEPT !.states = host.states \ T]
        BY <4>2
      <4>4. QED
        BY <1>2, <3>2, <4>3, HostParts
    <3>5. CASE DeleteStates(t) \/ AddPolicies(t)
      <4>1. \/ \E T : host' = [host EXCEPT !.states = host.states \ T]
            \/ host' = [host EXCEPT !.policies = host.policies \cup {t}]
            \/ host' = [host EXCEPT !.policies = host.policies \ {t}]
        BY <3>5 DEF DeleteStates, AddPolicies, Do
      <4>2. QED
        BY <1>2, <4>1, HostParts
    <3>6. QED
      BY <1>5, <3>4, <3>5
  <2>3. host' \in Host /\ host'.links = host.links
    BY <1>2, <2>2, HostParts DEF Host
  <2>4. QED
    BY <1>2, <2>1, <2>3 DEF LinksOwned
<1>6. CASE AddRules(t) \/ RemoveRules(t)
  <2>1. Exclusion(t) \in [sort : {"exclusion", "keepalive"}, gateway : Gateways]
        /\ Keepalive(t) \in [sort : {"exclusion", "keepalive"}, gateway : Gateways]
    BY <1>2 DEF Exclusion, Keepalive
  <2>2. \E R \in SUBSET [sort : {"exclusion", "keepalive"}, gateway : Gateways] :
            host' = [host EXCEPT !.rules = R]
    <3>1. \/ host' = [host EXCEPT !.rules = host.rules \cup {Exclusion(t)}]
          \/ host' = [host EXCEPT !.rules = host.rules \cup {Keepalive(t)}]
          \/ host' = [host EXCEPT !.rules = host.rules \ {Exclusion(t)}]
          \/ host' = [host EXCEPT !.rules = host.rules \ {Keepalive(t)}]
      BY <1>6 DEF AddRules, RemoveRules, Do
    <3>2. QED
      BY <1>2, <2>1, <3>1, HostParts
  <2>3. host' \in Host /\ host'.links = host.links /\ SameKeys
    BY <1>2, <2>2, HostParts DEF Host, SameKeys
  <2>4. QED
    BY <1>2, <2>3 DEF LinksOwned
<1>7. CASE AddRoute(t)
  <2>1. PICK x \in {"default", "subnets", "gateway"} :
            /\ Op(t) = x
            /\ \/ host' = host
               \/ host' = [host EXCEPT !.routes =
                              host.routes \cup {[destination |-> x, owner |-> tunnel[t].index]}]
    BY <1>7 DEF AddRoute, Do
  <2>2. tunnel[t].index \in Tunnels
    BY <1>1, <2>1, Equipped DEF RouteOps
  <2>3. [destination |-> x, owner |-> tunnel[t].index]
            \in [destination : {"default", "subnets", "gateway"}, owner : Tunnels]
    BY <2>1, <2>2
  <2>4. \/ host' = host
        \/ \E R \in SUBSET [destination : {"default", "subnets", "gateway"}, owner : Tunnels] :
               host' = [host EXCEPT !.routes = R]
    BY <1>2, <2>1, <2>3, HostParts
  <2>5. host' \in Host /\ host'.links = host.links /\ SameKeys
    BY <1>2, <2>4, HostParts DEF Host, SameKeys
  <2>6. QED
    BY <1>2, <2>5 DEF LinksOwned
<1>8. CASE SwitchIPv6(t)
  <2>1. \E b \in BOOLEAN : host' = [host EXCEPT !.no_ipv6 = b]
    BY <1>8 DEF SwitchIPv6, Do
  <2>2. host' \in Host /\ host'.links = host.links /\ SameKeys
    BY <1>2, <2>1, HostParts DEF Host, SameKeys
  <2>3. QED
    BY <1>2, <2>2 DEF LinksOwned
<1>9. CASE FindDevice(t) \/ ReadConf(t)
  BY <1>2, <1>9 DEF FindDevice, ReadConf, Do, LinksOwned, SameKeys
<1>10. CASE WriteConf(t)
  <2> DEFINE conf == tunnel[t].conf
  <2>1. conf \in [others : BOOLEAN, vpn : SUBSET Gateways]
    BY <1>2 DEF Object
  <2>2. \E c \in [others : BOOLEAN, vpn : SUBSET Gateways] : host' = [host EXCEPT !.conf = c]
    <3>1. \/ host' = [host EXCEPT !.conf = [others |-> FALSE, vpn |-> {}]]
          \/ host' = [host EXCEPT !.conf = [conf EXCEPT !.vpn = conf.vpn \cup {Gateway(t)}]]
          \/ host' = [host EXCEPT !.conf = [conf EXCEPT !.vpn = conf.vpn \ {Gateway(t)}]]
      BY <1>10 DEF WriteConf, Do
    <3>2. /\ [others |-> FALSE, vpn |-> {}] \in [others : BOOLEAN, vpn : SUBSET Gateways]
          /\ [conf EXCEPT !.vpn = conf.vpn \cup {Gateway(t)}]
                 \in [others : BOOLEAN, vpn : SUBSET Gateways]
          /\ [conf EXCEPT !.vpn = conf.vpn \ {Gateway(t)}]
                 \in [others : BOOLEAN, vpn : SUBSET Gateways]
      BY <1>2, <2>1
    <3>3. QED
      BY <3>1, <3>2
  <2>3. host' \in Host /\ host'.links = host.links /\ SameKeys
    BY <1>2, <2>2, HostParts DEF Host, SameKeys
  <2>4. QED
    BY <1>2, <2>3 DEF LinksOwned
<1>11. CASE DeleteDevice(t)
  <2>1. host' = Unlinked(d)
    BY <1>11 DEF DeleteDevice, Do
  <2>2. QED
    BY <1>2, <2>1, LinkGone DEF LinksOwned, SameKeys
<1>12. QED
  BY <1>3, <1>4, <1>5, <1>6, <1>7, <1>8, <1>9, <1>10, <1>11 DEF Operation

\* What an operation of t does to the keys of t; those of other tunnels stay as they are.
LEMMA KeysAfter ==
    ASSUME Kept, NEW t \in Tunnels, Operation(t)
    PROVE  /\ \A u \in Tunnels \ {t} :
                  /\ u \in host.policies => u \in host'.policies
                  /\ \A k, x : Key(u, k, x) \in host.states => Key(u, k, x) \in host'.states
           /\ Op(t) # "unpolicies" /\ t \in host.policies => t \in host'.policies
           /\ Op(t) \notin {"oldOut", "oldIn", "unstates"} => host.states \subseteq host'.states
           /\ Op(t) \in {"oldOut", "oldIn"} =>
                  \A k, x : k # tunnel[t].key /\ Key(t, k, x) \in host.states =>
                      Key(t, k, x) \in host'.states
           /\ Op(t) = "policies" => t \in host'.policies
           /\ Op(t) = "out" => Key(t, tunnel[t].key, "out") \in host'.states
           /\ Op(t) = "in" => Key(t, tunnel[t].key, "in") \in host'.states
           /\ Op(t) = "newOut" => Key(t, tunnel[t].key + 1, "out") \in host'.states
           /\ Op(t) = "newIn" => Key(t, tunnel[t].key + 1, "in") \in host'.states
<1> DEFINE k0 == tunnel[t].key
<1>0. host \in Host
  BY DEF Kept, Typed
<1>1. CASE Op(t) \notin {"out", "in", "policies", "newOut", "newIn", "oldOut", "oldIn", "unstates",
                         "unpolicies"}
  <2>1. host'.states = host.states /\ host'.policies = host.policies
    BY <1>1, HostAfter DEF SameKeys
  <2>2. QED
    BY <1>1, <2>1
<1>2. CASE Op(t) \in {"out", "in", "newOut", "newIn"}
  <2>1. \E k, x : /\ host' = [host EXCEPT !.states = host.states \cup {Key(t, k, x)}]
                  /\ Op(t) = "out" => k = k0 /\ x = "out"
                  /\ Op(t) = "in" => k = k0 /\ x = "in"
                  /\ Op(t) = "newOut" => k = k0 + 1 /\ x = "out"
                  /\ Op(t) = "newIn" => k = k0 + 1 /\ x = "in"
    <3>1. AddStates(t) \/ ReplaceStates(t)
      BY <1>2 DEF Operation, Do, AddLink, OpenDevice, ConfigureDevice, AddStates, AddPolicies,
          FindDevice, AddRules, AddRoute, SwitchIPv6, SetLinkDns, ReadConf, WriteConf,
          ReplaceStates, ReplaceAddress, RemoveRules, DeleteStates, DeleteDevice
    <3>2. \/ Op(t) = "out" /\ host' = [host EXCEPT !.states = host.states \cup {Key(t, k0, "out")}]
          \/ Op(t) = "in" /\ host' = [host EXCEPT !.states = host.states \cup {Key(t, k0, "in")}]
          \/ /\ Op(t) = "newOut"
             /\ host' = [host EXCEPT !.states = host.states \cup {Key(t, k0 + 1, "out")}]
          \/ /\ Op(t) = "newIn"
             /\ host' = [host EXCEPT !.states = host.states \cup {Key(t, k0 + 1, "in")}]
      BY <1>2, <3>1 DEF AddStates, ReplaceStates, Do
    <3> HIDE DEF k0
    <3>3. QED
      BY <3>2
  <2>2. PICK k, x : /\ host'.states = host.states \cup {Key(t, k, x)}
                    /\ host'.policies = host.policies
                    /\ Op(t) = "out" => k = k0 /\ x = "out"
                    /\ Op(t) = "in" => k = k0 /\ x = "in"
                    /\ Op(t) = "newOut" => k = k0 + 1 /\ x = "out"
                    /\ Op(t) = "newIn" => k = k0 + 1 /\ x = "in"
    BY <1>0, <2>1, HostParts
  <2>3. QED
    BY <1>2, <2>2
<1>3. CASE Op(t) \in {"oldOut", "oldIn", "unstates"}
  <2>1. \E T : /\ host' = [host EXCEPT !.states = host.states \ T]
               /\ \A y \in T : \E x : y = Key(t, k0, x)
    <3>1. ReplaceStates(t) \/ DeleteStates(t)
      BY <1>3 DEF Operation, Do, AddLink, OpenDevice, ConfigureDevice, AddStates, AddPolicies,
          FindDevice, AddRules, AddRoute, SwitchIPv6, SetLinkDns, ReadConf, WriteConf,
          ReplaceStates, ReplaceAddress, RemoveRules, DeleteStates, DeleteDevice
    <3>2. \/ host' = [host EXCEPT !.states = host.states \ {Key(t, k0, "out")}]
          \/ host' = [host EXCEPT !.states = host.states \ {Key(t, k0, "in")}]
          \/ host' = [host EXCEPT !.states = host.states \ {Key(t, k0, x) : x \in {"in", "out"}}]
      BY <1>3, <3>1 DEF ReplaceStates, DeleteStates, Do
    <3> HIDE DEF k0
    <3>3. QED
      BY <3>2
  <2>2. PICK T : /\ host'.states = host.states \ T /\ host'.policies = host.policies
                 /\ \A y \in T : \E x : y = Key(t, k0, x)
    BY <1>0, <2>1, HostParts
  <2>3. \A u, k, x, y : Key(u, k, x) = Key(t, k0, y) => u = t /\ k = k0
    BY DEF Key
  <2>4. QED
    BY <1>3, <2>2, <2>3
<1>4. CASE Op(t) \in {"policies", "unpolicies"}
  <2>1. \/ Op(t) = "policies" /\ host' = [host EXCEPT !.policies = host.policies \cup {t}]
        \/ Op(t) = "unpolicies" /\ host' = [host EXCEPT !.policies = host.policies \ {t}]
    <3>1. AddPolicies(t) \/ DeleteStates(t)
      BY <1>4 DEF Operation, Do, AddLink, OpenDevice, ConfigureDevice, AddStates, AddPolicies,
          FindDevice, AddRules, AddRoute, SwitchIPv6, SetLinkDns, ReadConf, WriteConf,
          ReplaceStates, ReplaceAddress, RemoveRules, DeleteStates, DeleteDevice
    <3>2. QED
      BY <1>4, <3>1 DEF AddPolicies, DeleteStates, Do
  <2>2. /\ host'.states = host.states
        /\ Op(t) = "policies" => host'.policies = host.policies \cup {t}
        /\ Op(t) = "unpolicies" => host'.policies = host.policies \ {t}
    BY <1>0, <2>1, HostParts
  <2>3. QED
    BY <1>4, <2>2
<1>5. QED
  BY <1>1, <1>2, <1>3, <1>4

-----------------------------------------------------------------------------
(* What a step does to the tunnel that takes it *)

\* Tunnels that take no step, and whose keys stay, keep what they have.
LEMMA OthersKeep ==
    ASSUME Kept, NEW u \in Tunnels, tunnel'[u] = tunnel[u],
           u \in host.policies => u \in host'.policies,
           \A k, x : Key(u, k, x) \in host.states => Key(u, k, x) \in host'.states
    PROVE  Stage(u)' /\ Looks(u)' /\ HasKeys(u)'
<1>1. Stage(u) /\ Looks(u) /\ HasKeys(u)
  BY DEF Kept, Staged, IndexFirst, Keyed
<1>2. Stage(u)'
  BY <1>1 DEF Stage, Native
<1>3. Looks(u)'
  BY <1>1 DEF Looks
<1>4. HasKeys(u)'
  BY <1>1 DEF HasKeys, Native, Paired
<1>5. QED
  BY <1>2, <1>3, <1>4

\* All fields of t after an operation.
LEMMA Stepped ==
    ASSUME Kept, NEW t \in Tunnels, Operation(t)
    PROVE  /\ \A u \in Tunnels \ {t} : tunnel'[u] = tunnel[u]
           /\ tunnel'[t].phase = tunnel[t].phase /\ tunnel'[t].config = tunnel[t].config
           /\ tunnel'[t].todo = Tail(tunnel[t].todo)
           /\ tunnel'[t].key = IF Op(t) = "oldIn" THEN tunnel[t].key + 1 ELSE tunnel[t].key
           /\ tunnel'[t].address =
                  IF Op(t) = "oldIn" THEN tunnel[t].other ELSE tunnel[t].address
           /\ Op(t) \notin {"oldIn", "leave"} => tunnel'[t].other = tunnel[t].other
           /\ Op(t) # "index" => tunnel'[t].index = tunnel[t].index
           /\ Op(t) = "index" => tunnel'[t].index \in Tunnels
           /\ tunnel' \in [Tunnels -> Object]
<1>1. /\ tunnel[t].todo # <<>> /\ CanDo(t) /\ tunnel' = [tunnel EXCEPT ![t] = After(t)]
      /\ tunnel \in [Tunnels -> Object] /\ host \in Host /\ LinksOwned
  BY Done DEF Kept, Typed
<1>2. tunnel'[t] = After(t) /\ \A u \in Tunnels \ {t} : tunnel'[u] = tunnel[u]
  BY <1>1
<1> DEFINE w == After(t)
           v == tunnel[t]
<1>3. /\ w = [phase |-> w.phase, config |-> w.config, todo |-> w.todo, key |-> w.key,
              address |-> w.address, other |-> w.other, index |-> w.index, conf |-> w.conf]
      /\ w.phase = v.phase /\ w.config = v.config
      /\ w.todo = Tail(v.todo)
      /\ w.key = IF Op(t) = "oldIn" THEN v.key + 1 ELSE v.key
      /\ w.address = IF Op(t) = "oldIn" THEN v.other ELSE v.address
      /\ w.other = CASE Op(t) = "oldIn" -> v.address
                     [] Op(t) = "leave" -> None
                     [] OTHER -> v.other
      /\ w.index = IF Op(t) = "index" THEN Link(t).owner ELSE v.index
      /\ w.conf = CASE Op(t) = "read" -> host.conf
                    [] Op(t) \in {"write", "unwrite"} -> InitTunnel.conf
                    [] OTHER -> v.conf
  BY <1>1, Afterwards
<1>4. Op(t) = "index" => w.index \in Tunnels
  <2>1. Op(t) = "index" => Link(t) # NoLink
    BY <1>1 DEF CanDo
  <2>2. Device(t) \in Devices
    BY <1>1, Busy
  <2>3. QED
    BY <1>1, <1>3, <2>1, <2>2, LinkKept
<1>5. v \in Object
  BY <1>1
<1>6. w.key \in 1..MaxKey
  BY <1>1, <1>3, <1>5, Equipped DEF Object
<1>7. w.todo \in Seq(Ops)
  BY <1>1, <1>3, <1>5, TailOfSeq DEF Object
<1>8. w.conf \in [others : BOOLEAN, vpn : SUBSET Gateways]
  <2>1. InitTunnel.conf \in [others : BOOLEAN, vpn : SUBSET Gateways]
    BY DEF InitTunnel
  <2>2. QED
    BY <1>1, <1>3, <1>5, <2>1, HostParts DEF Object
<1>9. w \in Object
  <2>1. /\ w.phase \in Phases /\ w.config \in Configs \cup {None}
        /\ w.address \in Addresses \cup {None} /\ w.other \in Addresses \cup {None}
        /\ w.index \in Tunnels \cup {None}
    BY <1>3, <1>4, <1>5 DEF Object
  <2> HIDE DEF w
  <2>2. QED
    BY <1>3, <1>6, <1>7, <1>8, <2>1 DEF Object
<1>10. tunnel' \in [Tunnels -> Object]
  BY <1>1, <1>9
<1> HIDE DEF w
<1>11. tunnel'[t] = w
  BY <1>2 DEF w
<1>12. QED
  BY <1>2, <1>3, <1>4, <1>10, <1>11

\* An operation is a step of the list that the phase is for.
LEMMA StageAfter ==
    ASSUME Kept, NEW t \in Tunnels, Operation(t)
    PROVE  Stage(t)'
<1> DEFINE s == tunnel[t].todo
<1>1. /\ s # <<>> /\ Stage(t)
      /\ tunnel'[t].phase = tunnel[t].phase /\ tunnel'[t].config = tunnel[t].config
      /\ tunnel'[t].todo = Tail(s) /\ Native(t)' = Native(t)
  BY Done, Stepped DEF Kept, Staged, Native
<1>2. CASE tunnel[t].phase = "creating"
  <2>1. Op(t) # "oldIn"
    BY <1>1, <1>2, Busy
  <2>2. tunnel'[t].address = tunnel[t].address /\ Tail(s) \in Configuring
    BY <1>1, <1>2, <2>1, Stepped, Configures DEF Stage
  <2>3. QED
    BY <1>1, <1>2, <2>2 DEF Stage
<1>3. CASE tunnel[t].phase = "settingUp"
  <2>1. Op(t) # "oldIn"
    BY <1>1, <1>3, Busy DEF SetUpOps
  <2>2. tunnel'[t].address = tunnel[t].address /\ Tail(s) \in Seq(SetUpOps)
    BY <1>1, <1>3, <2>1, Stepped, TailOfSeq DEF Stage
  <2>3. QED
    BY <1>1, <1>3, <2>2 DEF Stage
<1>4. CASE tunnel[t].phase = "dropped"
  <2>1. Tail(s) \in Seq(CleanUpOps)
    BY <1>1, <1>4, TailOfSeq DEF Stage
  <2>2. QED
    BY <1>1, <1>4, <2>1 DEF Stage
<1>5. CASE tunnel[t].phase = "up" /\ s \in Moving
  <2>1. Tail(s) \in Moving /\ Op(t) # "oldIn"
    BY <1>1, <1>5, Moves DEF Op
  <2>2. tunnel'[t].address = tunnel[t].address
    BY <2>1, Stepped
  <2>3. QED
    BY <1>1, <1>5, <2>1, <2>2 DEF Stage
<1>6. CASE tunnel[t].phase = "up" /\ s \notin Moving
  <2>1. /\ Native(t) /\ s \in Adding \cup Completing \cup Deleting /\ tunnel[t].key < MaxKey
        /\ tunnel[t].other \in Addresses /\ tunnel[t].address \in Addresses
        /\ tunnel[t].config \in Configs
    BY <1>1, <1>6 DEF Stage
  <2>2. CASE Op(t) = "oldIn"
    <3>1. Tail(s) \in Moving
      BY <2>1, <2>2, Adds, Completes, Deletes DEF Op
    <3>2. tunnel'[t].address \in Addresses
      BY <2>1, <2>2, Stepped
    <3>3. QED
      BY <1>1, <1>6, <2>1, <3>1, <3>2 DEF Stage
  <2>3. CASE Op(t) # "oldIn"
    <3>1. Tail(s) \in Completing \cup Deleting /\ Op(t) # "leave"
      BY <2>1, <2>3, Adds, Completes, Deletes DEF Op
    <3>2. /\ tunnel'[t].address = tunnel[t].address /\ tunnel'[t].other = tunnel[t].other
          /\ tunnel'[t].key = tunnel[t].key
      BY <2>3, <3>1, Stepped
    <3>3. QED
      BY <1>1, <1>6, <2>1, <3>1, <3>2 DEF Stage
  <2>4. QED
    BY <2>2, <2>3
<1>7. QED
  BY <1>1, <1>2, <1>3, <1>4, <1>5, <1>6, Busy

LEMMA LooksAfter ==
    ASSUME Kept, NEW t \in Tunnels, Operation(t)
    PROVE  Looks(t)'
<1>1. tunnel[t].todo # <<>> /\ Looks(t)
  BY Done DEF Kept, IndexFirst
<1>2. CASE Op(t) = "index"
  BY <1>2, Stepped, HostAssumption DEF Looks
<1>3. CASE Op(t) # "index" /\ tunnel[t].phase = "settingUp" /\ tunnel[t].index = None
  <2>1. tunnel[t].todo \in Seq(SetUpOps) /\ LooksFirst(tunnel[t].todo)
    BY <1>1, <1>3 DEF Kept, Staged, Stage, Looks
  <2>2. LooksFirst(Tail(tunnel[t].todo))
    BY <1>1, <1>3, <2>1, LooksOn DEF Op
  <2>3. QED
    BY <2>2, Stepped DEF Looks
<1>4. CASE Op(t) # "index" /\ ~(tunnel[t].phase = "settingUp" /\ tunnel[t].index = None)
  BY <1>4, Stepped DEF Looks
<1>5. QED
  BY <1>2, <1>3, <1>4

\* The new pair is complete before the old one is deleted.
LEMMA HasKeysAfter ==
    ASSUME Kept, NEW t \in Tunnels, Operation(t)
    PROVE  HasKeys(t)'
<1> DEFINE s == tunnel[t].todo
           k == tunnel[t].key
<1>1. /\ s # <<>> /\ Stage(t) /\ HasKeys(t)
      /\ tunnel'[t].phase = tunnel[t].phase
      /\ tunnel'[t].todo = Tail(s) /\ Native(t)' = Native(t)
  BY Done, Stepped DEF Kept, Staged, Keyed, Native
<1>2. CASE tunnel[t].phase = "creating"
  <2>1. /\ s \in Configuring /\ Op(t) = Head(s)
        /\ Op(t) \in {"link", "address", "out", "in", "policies"}
        /\ tunnel'[t].key = k
    BY <1>1, <1>2, Busy, Stepped DEF Stage, Op
  <2>2. host.states \subseteq host'.states /\ (t \in host.policies => t \in host'.policies)
    BY <2>1, KeysAfter
  <2>3. Tail(s) \in OutDone => Key(t, k, "out") \in host'.states
    <3>1. Tail(s) \in OutDone => s \in OutDone \/ Op(t) = "out"
      BY <1>1, <2>1, Configures
    <3>2. Native(t)
      BY <1>1, <1>2 DEF Stage
    <3>3. s \in OutDone => Key(t, k, "out") \in host.states
      BY <1>1, <1>2, <3>2 DEF HasKeys
    <3>4. QED
      BY <2>2, <3>1, <3>3, KeysAfter
  <2>4. Tail(s) \in InDone => Key(t, k, "in") \in host'.states
    <3>1. Tail(s) \in InDone => s \in InDone \/ Op(t) = "in"
      BY <1>1, <2>1, Configures
    <3>2. Native(t)
      BY <1>1, <1>2 DEF Stage
    <3>3. s \in InDone => Key(t, k, "in") \in host.states
      BY <1>1, <1>2, <3>2 DEF HasKeys
    <3>4. QED
      BY <2>2, <3>1, <3>3, KeysAfter
  <2>5. Tail(s) = <<>> => t \in host'.policies
    <3>1. Tail(s) = <<>> => Op(t) = "policies"
      BY <1>1, <2>1, Configures
    <3>2. QED
      BY <3>1, KeysAfter
  <2>6. QED
    BY <1>1, <1>2, <2>1, <2>3, <2>4, <2>5 DEF HasKeys
<1>3. CASE tunnel[t].phase = "settingUp" /\ Native(t)
  <2>1. Op(t) \notin {"oldOut", "oldIn", "unstates", "unpolicies"}
    BY <1>1, <1>3, Busy DEF SetUpOps
  <2>2. /\ host.states \subseteq host'.states /\ (t \in host.policies => t \in host'.policies)
        /\ tunnel'[t].key = k
    BY <2>1, KeysAfter, Stepped
  <2>3. Paired(t, k) /\ t \in host.policies
    BY <1>1, <1>3 DEF HasKeys
  <2>4. QED
    BY <1>1, <1>3, <2>2, <2>3 DEF HasKeys, Paired
<1>4. CASE tunnel[t].phase = "up" /\ Native(t)
  <2>1. t \in host'.policies
    <3>1. Op(t) # "unpolicies"
      BY <1>1, <1>4, Busy
    <3>2. t \in host.policies
      BY <1>1, <1>4 DEF HasKeys
    <3>3. QED
      BY <3>1, <3>2, KeysAfter
  <2>2. CASE s \in Moving
    <3>1. Tail(s) \in Moving /\ Op(t) \in {"move", "leave"}
      BY <1>1, <2>2, Moves DEF Op
    <3>2. host.states \subseteq host'.states /\ tunnel'[t].key = k
      BY <3>1, KeysAfter, Stepped
    <3>3. Paired(t, k)
      BY <1>1, <1>4, <2>2 DEF HasKeys
    <3>4. Tail(s) \notin Completing \cup Deleting
      BY <3>1, Sorts
    <3>5. QED
      BY <1>1, <1>4, <2>1, <3>2, <3>3, <3>4 DEF HasKeys, Paired
  <2>3. CASE s \in Adding
    <3>1. Tail(s) \in Completing /\ Op(t) = "newOut"
      BY <2>3, Adds DEF Op
    <3>2. /\ host.states \subseteq host'.states /\ tunnel'[t].key = k
          /\ Key(t, k + 1, "out") \in host'.states
      BY <3>1, KeysAfter, Stepped
    <3>3. Paired(t, k)
      BY <1>1, <1>4, <2>3 DEF HasKeys
    <3>4. Tail(s) \notin Deleting
      BY <3>1, Sorts
    <3>5. QED
      BY <1>1, <1>4, <2>1, <3>2, <3>3, <3>4 DEF HasKeys, Paired
  <2>4. CASE s \in Completing
    <3>1. Tail(s) \in Deleting /\ Op(t) = "newIn"
      BY <2>4, Completes DEF Op
    <3>2. /\ host.states \subseteq host'.states /\ tunnel'[t].key = k
          /\ Key(t, k + 1, "in") \in host'.states
      BY <3>1, KeysAfter, Stepped
    <3>3. Key(t, k + 1, "out") \in host.states
      BY <1>1, <1>4, <2>4 DEF HasKeys
    <3>4. Tail(s) \notin Moving \cup Adding \cup Completing
      BY <3>1, Sorts
    <3>5. QED
      BY <1>1, <1>4, <2>1, <3>2, <3>3, <3>4 DEF HasKeys, Paired
  <2>5. CASE s \in Deleting
    <3>1. /\ Op(t) \in {"oldOut", "oldIn"}
          /\ Op(t) = "oldOut" => Tail(s) \in Deleting
          /\ Op(t) = "oldIn" => Tail(s) \in Moving
      BY <2>5, Deletes DEF Op
    <3>2. Paired(t, k + 1)
      BY <1>1, <1>4, <2>5 DEF HasKeys
    <3>3. k \in Nat
      BY <1>1, Busy, HostAssumption DEF Object
    <3>4. {Key(t, k + 1, "in"), Key(t, k + 1, "out")} \subseteq host'.states
      BY <3>1, <3>2, <3>3, KeysAfter DEF Paired
    <3>5. CASE Op(t) = "oldOut"
      <4>1. tunnel'[t].key = k /\ Tail(s) \in Deleting
        BY <3>1, <3>5, Stepped
      <4>2. Tail(s) \notin Moving \cup Adding \cup Completing
        BY <4>1, Sorts
      <4>3. QED
        BY <1>1, <1>4, <2>1, <3>4, <4>1, <4>2 DEF HasKeys, Paired
    <3>6. CASE Op(t) = "oldIn"
      <4>1. tunnel'[t].key = k + 1 /\ Tail(s) \in Moving
        BY <3>1, <3>6, Stepped
      <4>2. Tail(s) \notin Completing \cup Deleting
        BY <4>1, Sorts
      <4>3. QED
        BY <1>1, <1>4, <2>1, <3>4, <4>1, <4>2 DEF HasKeys, Paired
    <3>7. QED
      BY <3>1, <3>5, <3>6
  <2>6. QED
    BY <1>1, <1>4, <2>2, <2>3, <2>4, <2>5 DEF Stage
<1>5. CASE ~Native(t) \/ tunnel[t].phase = "dropped"
  BY <1>1, <1>5 DEF HasKeys
<1>6. QED
  BY <1>1, <1>2, <1>3, <1>4, <1>5, Busy

-----------------------------------------------------------------------------
(* The steps *)

LEMMA KeptInit == Init => Kept
<1> SUFFICES ASSUME Init
             PROVE  Kept
  OBVIOUS
<1>1. InitTunnel \in Object
  BY HostAssumption DEF InitTunnel, Object, Phases
<1>2. tunnel \in [Tunnels -> Object] /\ \A t \in Tunnels : tunnel[t] = InitTunnel
  BY <1>1 DEF Init
<1>3. host \in Host /\ host.links = [d \in Devices |-> NoLink]
  BY DEF Init, Host, NoLink
<1>4. Typed
  BY <1>2, <1>3, HostAssumption DEF Init, Typed
<1>5. LinksOwned
  BY <1>3 DEF LinksOwned
<1>6. \A t \in Tunnels : Stage(t) /\ Looks(t) /\ HasKeys(t)
  <2>1. InitTunnel.phase = "none" /\ InitTunnel.todo = <<>>
    BY DEF InitTunnel
  <2>2. QED
    BY <1>2, <2>1 DEF Stage, Looks, HasKeys
<1>7. QED
  BY <1>4, <1>5, <1>6 DEF Kept, Staged, IndexFirst, Keyed

LEMMA OperationKeeps ==
    ASSUME Kept, NEW t \in Tunnels, Operation(t)
    PROVE  Kept'
<1>1. /\ tunnel' \in [Tunnels -> Object] /\ host' \in Host /\ LinksOwned'
      /\ UNCHANGED history
  BY Stepped, HostAfter, Done
<1>2. Typed'
  BY <1>1 DEF Kept, Typed, history
<1>3. Stage(t)' /\ Looks(t)' /\ HasKeys(t)'
  BY StageAfter, LooksAfter, HasKeysAfter
<1>4. ASSUME NEW u \in Tunnels \ {t}
      PROVE  Stage(u)' /\ Looks(u)' /\ HasKeys(u)'
  BY Stepped, KeysAfter, OthersKeep
<1>5. QED
  BY <1>1, <1>2, <1>3, <1>4 DEF Kept, Staged, IndexFirst, Keyed

\* When a step changes t alone and no keys, what it makes of t is to be shown.
LEMMA OneChanges ==
    ASSUME Kept, NEW t \in Tunnels, NEW w \in Object, tunnel' = [tunnel EXCEPT ![t] = w],
           host' \in Host, LinksOwned', SameKeys, disturbed' \subseteq Tunnels,
           faults' \in 0..MaxFaults,
           damaged' \subseteq {"device", "address", "routing", "dns", "others"},
           Stage(t)', Looks(t)', HasKeys(t)'
    PROVE  Kept'
<1>1. /\ tunnel \in [Tunnels -> Object]
      /\ \A u \in Tunnels \ {t} : tunnel'[u] = tunnel[u]
  BY DEF Kept, Typed
<1>2. Typed'
  BY <1>1 DEF Typed
<1>3. ASSUME NEW u \in Tunnels \ {t}
      PROVE  Stage(u)' /\ Looks(u)' /\ HasKeys(u)'
  BY <1>1, OthersKeep DEF SameKeys
<1>4. QED
  BY <1>2, <1>3 DEF Kept, Staged, IndexFirst, Keyed

\* A tunnel that is dropped or gone has nothing to keep.
LEMMA Ended ==
    ASSUME Kept, NEW t \in Tunnels
    PROVE  /\ NoTunnel \in Object
           /\ tunnel'[t] = NoTunnel => Stage(t)' /\ Looks(t)' /\ HasKeys(t)'
           /\ tunnel[t].config \in Configs =>
                  /\ Dropped(t) \in Object
                  /\ tunnel'[t] = Dropped(t) => Stage(t)' /\ Looks(t)' /\ HasKeys(t)'
<1>1. NoTunnel \in Object /\ NoTunnel.phase = "gone" /\ NoTunnel.todo = <<>>
  <2>1. /\ NoTunnel.phase = "gone" /\ NoTunnel.todo = <<>>
        /\ NoTunnel = [InitTunnel EXCEPT !.phase = "gone"]
    BY DEF NoTunnel, InitTunnel
  <2>2. InitTunnel \in Object
    BY HostAssumption DEF InitTunnel, Object, Phases
  <2>3. QED
    BY <2>1, <2>2 DEF Object, Phases
<1>2. tunnel'[t] = NoTunnel => Stage(t)' /\ Looks(t)' /\ HasKeys(t)'
  BY <1>1 DEF Stage, Looks, HasKeys
<1>3. ASSUME tunnel[t].config \in Configs
      PROVE  /\ Dropped(t) \in Object
             /\ tunnel'[t] = Dropped(t) => Stage(t)' /\ Looks(t)' /\ HasKeys(t)'
  <2>1. CleanUp(t) \in Seq(CleanUpOps)
    BY <1>3, CleanUps, HostAssumption
  <2>2. CleanUp(t) \in Seq(Ops)
    BY <2>1, SeqMonotonic DEF Ops
  <2>3. tunnel[t].key \in 1..MaxKey
    BY DEF Kept, Typed, Object
  <2>4. /\ Dropped(t).phase = "dropped" /\ Dropped(t).todo = CleanUp(t)
        /\ Dropped(t).config = tunnel[t].config
    BY DEF Dropped, InitTunnel
  <2>5. Dropped(t) \in Object
    BY <1>3, <2>2, <2>3, HostAssumption DEF Dropped, InitTunnel, Object, Phases
  <2>6. tunnel'[t] = Dropped(t) => Stage(t)' /\ Looks(t)' /\ HasKeys(t)'
    BY <1>3, <2>1, <2>4 DEF Stage, Looks, HasKeys
  <2>7. QED
    BY <2>5, <2>6
<1>4. QED
  BY <1>1, <1>2, <1>3

LEMMA CreateKeeps ==
    ASSUME Kept, NEW t \in Tunnels, Create(t)
    PROVE  Kept'
<1>1. PICK c \in Configs, a \in Addresses :
          tunnel' = [tunnel EXCEPT ![t] =
              [@ EXCEPT !.config = c, !.address = a,
                        !.phase = IF c.kind = "native" THEN "creating" ELSE "created",
                        !.todo = When(c.kind = "native", Configure)]]
  BY DEF Create
<1> DEFINE v == tunnel[t]
           w == [v EXCEPT !.config = c, !.address = a,
                          !.phase = IF c.kind = "native" THEN "creating" ELSE "created",
                          !.todo = When(c.kind = "native", Configure)]
<1>2. v \in Object /\ tunnel \in [Tunnels -> Object]
  BY DEF Kept, Typed
<1>3. Configure \in Seq(Ops) /\ <<>> \in Seq(Ops)
  <2>1. <<"link", "address", "out", "in", "policies">> \in Seq(Ops)
    BY DEF Ops, SetUpOps
  <2>2. QED
    BY <2>1 DEF Configure
<1>4. /\ w \in Object /\ w.config = c /\ w.address = a
      /\ w.phase = IF c.kind = "native" THEN "creating" ELSE "created"
      /\ w.todo = IF c.kind = "native" THEN Configure ELSE <<>>
  BY <1>2, <1>3 DEF Object, Phases, When
<1> HIDE DEF w
<1>5. tunnel' = [tunnel EXCEPT ![t] = w] /\ tunnel'[t] = w
  BY <1>1, <1>2 DEF w
<1>6. Configure # <<>> /\ Configure \notin OutDone /\ Configure \notin InDone
  BY DEF Configure, OutDone, InDone
<1>7. Configure \in Configuring
  BY DEF Configuring
<1>8. Stage(t)'
  BY <1>4, <1>5, <1>7 DEF Stage, Native
<1>9. Looks(t)'
  BY <1>4, <1>5 DEF Looks
<1>10. HasKeys(t)'
  BY <1>4, <1>5, <1>6 DEF HasKeys, Native
<1>11. /\ host' \in Host /\ LinksOwned' /\ SameKeys /\ disturbed' \subseteq Tunnels
       /\ faults' \in 0..MaxFaults
       /\ damaged' \subseteq {"device", "address", "routing", "dns", "others"}
  BY DEF Kept, Typed, Create, LinksOwned, SameKeys, Alive
<1>12. QED
  BY <1>4, <1>5, <1>8, <1>9, <1>10, <1>11, OneChanges

\* The host stays as it is, and so does the history.
LEMMA SameHost ==
    ASSUME Kept, UNCHANGED <<host, history>>
    PROVE  /\ host' \in Host /\ LinksOwned' /\ SameKeys /\ disturbed' \subseteq Tunnels
           /\ faults' \in 0..MaxFaults
           /\ damaged' \subseteq {"device", "address", "routing", "dns", "others"}
BY DEF Kept, Typed, LinksOwned, SameKeys, history

LEMMA CreatedKeeps ==
    ASSUME Kept, NEW t \in Tunnels, Created(t)
    PROVE  Kept'
<1> DEFINE w == [tunnel[t] EXCEPT !.phase = "created"]
<1>1. /\ tunnel[t] \in Object /\ tunnel \in [Tunnels -> Object]
      /\ tunnel[t].phase = "creating" /\ tunnel[t].todo = <<>>
      /\ tunnel' = [tunnel EXCEPT ![t] = w] /\ UNCHANGED <<host, history>>
  BY DEF Kept, Typed, Created
<1>2. /\ w \in Object /\ w.phase = "created" /\ w.todo = <<>> /\ w.config = tunnel[t].config
      /\ w.address = tunnel[t].address /\ w.key = tunnel[t].key
  BY <1>1 DEF Object, Phases
<1>3. Stage(t) /\ HasKeys(t)
  BY DEF Kept, Staged, Keyed
<1>4. <<>> \in OutDone /\ <<>> \in InDone
  BY DEF OutDone, InDone
<1>5. Native(t) => t \in host.policies /\ Paired(t, tunnel[t].key)
  BY <1>1, <1>3, <1>4 DEF HasKeys, Paired
<1> HIDE DEF w
<1>6. tunnel'[t] = w
  BY <1>1
<1>7. Stage(t)' /\ Looks(t)'
  BY <1>1, <1>2, <1>3, <1>6 DEF Stage, Looks, Native
<1>8. HasKeys(t)'
  BY <1>1, <1>2, <1>5, <1>6 DEF HasKeys, Native, Paired
<1>9. QED
  BY <1>1, <1>2, <1>6, <1>7, <1>8, SameHost, OneChanges

\* run: the device is looked up before the routes are added, and DNS may come in between.
LEMMA RunKeeps ==
    ASSUME Kept, NEW t \in Tunnels, Run(t)
    PROVE  Kept'
<1> DEFINE c == tunnel[t].config
           R == SetUpRouting(c)
           D == SetUpDns(c)
           native(i) == SubSeq(R, 1, i) \o D \o SubSeq(R, i + 1, Len(R))
           tun == <<"device", "address">> \o R \o D
<1>1. /\ tunnel[t] \in Object /\ tunnel \in [Tunnels -> Object]
      /\ tunnel[t].phase = "created" /\ UNCHANGED <<host, history>>
      /\ Stage(t) /\ HasKeys(t) /\ c \in Configs /\ c \in Config
  BY HostAssumption DEF Kept, Typed, Run, Staged, Keyed, Stage
<1>2. /\ R \in Seq(SetUpOps) /\ R # <<>> /\ R[1] = "index" /\ D \in Seq(SetUpOps \ RouteOps)
      /\ D \in Seq(SetUpOps) /\ Len(R) \in Nat \ {0} /\ Len(D) \in Nat
  BY <1>1, SetUps, SeqMonotonic, LenProperties, EmptySeq
<1>3. \/ \E i \in 0..Len(R) :
             tunnel' = [tunnel EXCEPT ![t].phase = "settingUp", ![t].todo = native(i)]
      \/ tunnel' = [tunnel EXCEPT ![t].phase = "settingUp", ![t].todo = tun]
  BY DEF Run
<1> HIDE DEF R, D
<1>4. ASSUME NEW i \in 0..Len(R)
      PROVE  native(i) \in Seq(SetUpOps) /\ LooksFirst(native(i))
  <2> DEFINE P == SubSeq(R, 1, i)
             Q == SubSeq(R, i + 1, Len(R))
  <2>1. /\ P \in Seq(SetUpOps) /\ Len(P) = i /\ \A j \in 1..i : P[j] = R[j]
        /\ Q \in Seq(SetUpOps)
    BY <1>2, <1>4, SubSeqProperties
  <2>2. P \o D \in Seq(SetUpOps) /\ P \o D \o Q \in Seq(SetUpOps)
    BY <1>2, <2>1, Joined
  <2>3. CASE i = 0
    <3>1. P = <<>> /\ Q = R
      <4>1. P = <<>>
        BY <2>1, <2>3, EmptySeq
      <4>2. Q = R
        BY <1>2, <2>3, SubSeqProperties, SubSeqFull
      <4>3. QED
        BY <4>1, <4>2
    <3>2. P \o D = D
      BY <1>2, <3>1, ConcatEmptySeq
    <3>3. LooksFirst(R)
      BY <1>2, LooksAtOnce
    <3>4. LooksFirst(D \o R)
      BY <1>2, <3>3, LooksLater
    <3>5. QED
      BY <2>2, <3>1, <3>2, <3>4
  <2>4. CASE i # 0
    <3> HIDE DEF P, Q
    <3>1. Len(P) \in Nat \ {0} /\ P[1] = "index"
      BY <1>2, <1>4, <2>1, <2>4
    <3>2. Len(P \o D) \in Nat \ {0} /\ (P \o D)[1] = "index"
      BY <1>2, <2>1, <3>1, ConcatProperties
    <3> DEFINE PD == P \o D
    <3> HIDE DEF PD
    <3>3. PD \in Seq(SetUpOps) /\ Len(PD) \in Nat \ {0} /\ PD[1] = "index"
      BY <2>2, <3>2 DEF PD
    <3>4. Len(Q) \in Nat
      BY <2>1, LenProperties
    <3>5. Len(PD \o Q) \in Nat /\ (PD \o Q)[1] = "index"
      BY <2>1, <3>3, <3>4, ConcatProperties
    <3>6. LooksFirst(PD \o Q)
      BY <3>5, LooksAtOnce
    <3>7. QED
      BY <2>2, <3>6 DEF P, Q, PD
  <2>5. QED
    BY <2>3, <2>4
<1>5. tun \in Seq(SetUpOps) /\ LooksFirst(tun)
  <2> DEFINE A == <<"device", "address">>
  <2>1. A \in Seq(SetUpOps \ RouteOps) /\ A \in Seq(SetUpOps)
    BY DEF SetUpOps, RouteOps
  <2> HIDE DEF A
  <2>2. A \o R \in Seq(SetUpOps) /\ A \o R \o D \in Seq(SetUpOps)
    BY <1>2, <2>1, Joined
  <2>3. LooksFirst(R)
    BY <1>2, LooksAtOnce
  <2>4. LooksFirst(A \o R)
    BY <1>2, <2>1, <2>3, LooksLater
  <2>5. LooksFirst(A \o R \o D)
    BY <1>2, <2>2, <2>4, LooksEarlier
  <2>6. QED
    BY <2>2, <2>5 DEF A
<1> HIDE DEF native, tun
<1>6. PICK s \in Seq(SetUpOps) :
          /\ LooksFirst(s)
          /\ tunnel' = [tunnel EXCEPT ![t].phase = "settingUp", ![t].todo = s]
  BY <1>3, <1>4, <1>5
<1> DEFINE w == [tunnel[t] EXCEPT !.phase = "settingUp", !.todo = s]
<1>7. s \in Seq(Ops)
  BY <1>6, SeqMonotonic DEF Ops
<1>8. /\ w \in Object /\ w.phase = "settingUp" /\ w.todo = s /\ w.config = c
      /\ w.address = tunnel[t].address /\ w.key = tunnel[t].key
  BY <1>1, <1>7 DEF Object, Phases
<1>9. tunnel' = [tunnel EXCEPT ![t] = w]
  BY <1>1, <1>6
<1> HIDE DEF w
<1>10. tunnel'[t] = w
  BY <1>1, <1>9
<1>11. Stage(t)' /\ Looks(t)'
  BY <1>1, <1>6, <1>8, <1>10 DEF Stage, Looks, Native
<1>12. HasKeys(t)'
  BY <1>1, <1>8, <1>10 DEF HasKeys, Native, Paired
<1>13. QED
  BY <1>1, <1>8, <1>9, <1>11, <1>12, SameHost, OneChanges

LEMMA UpKeeps ==
    ASSUME Kept, NEW t \in Tunnels, Up(t)
    PROVE  Kept'
<1> DEFINE w == [tunnel[t] EXCEPT !.phase = "up", !.index = None]
<1>1. /\ tunnel[t] \in Object /\ tunnel \in [Tunnels -> Object]
      /\ tunnel[t].phase = "settingUp" /\ tunnel[t].todo = <<>>
      /\ tunnel' = [tunnel EXCEPT ![t] = w] /\ UNCHANGED <<host, history>>
      /\ Stage(t) /\ HasKeys(t)
  BY DEF Kept, Typed, Up, Staged, Keyed
<1>2. /\ w \in Object /\ w.phase = "up" /\ w.todo = <<>> /\ w.config = tunnel[t].config
      /\ w.address = tunnel[t].address /\ w.key = tunnel[t].key
  BY <1>1 DEF Object, Phases
<1> HIDE DEF w
<1>3. tunnel'[t] = w
  BY <1>1
<1>4. <<>> \in Moving /\ <<>> \notin Completing \cup Deleting
  BY Sorts DEF Moving
<1>5. Stage(t)' /\ Looks(t)'
  BY <1>1, <1>2, <1>3, <1>4 DEF Stage, Looks, Native
<1>6. HasKeys(t)'
  BY <1>1, <1>2, <1>3, <1>4 DEF HasKeys, Native, Paired
<1>7. QED
  BY <1>1, <1>2, <1>3, <1>5, <1>6, SameHost, OneChanges

LEMMA StartReKeyKeeps ==
    ASSUME Kept, NEW t \in Tunnels, StartReKey(t)
    PROVE  Kept'
<1>1. PICK a \in Addresses :
          tunnel' = [tunnel EXCEPT ![t] =
              [@ EXCEPT !.todo = ReKey(t, a # tunnel[t].address),
                        !.address = IF Native(t) THEN tunnel[t].address ELSE a,
                        !.other = IF Native(t) THEN a ELSE tunnel[t].address,
                        !.key = tunnel[t].key + (IF Native(t) THEN 0 ELSE 1)]]
  BY DEF StartReKey
<1> DEFINE v == tunnel[t]
           s == ReKey(t, a # tunnel[t].address)
           w == [v EXCEPT !.todo = s,
                          !.address = IF Native(t) THEN v.address ELSE a,
                          !.other = IF Native(t) THEN a ELSE v.address,
                          !.key = v.key + (IF Native(t) THEN 0 ELSE 1)]
<1>2. tunnel' = [tunnel EXCEPT ![t] = w]
  BY <1>1
<1>3. /\ v \in Object /\ tunnel \in [Tunnels -> Object]
      /\ v.phase = "up" /\ v.todo = <<>> /\ v.key < MaxKey /\ MaxKey \in Nat
      /\ UNCHANGED <<host, history>> /\ Stage(t) /\ HasKeys(t)
  BY HostAssumption DEF Kept, Typed, StartReKey, Staged, Keyed
<1>4. Native(t) => s \in Adding
  BY ReKeys
<1>5. ~Native(t) => s \in Moving
  BY ReKeys
<1>6. s \in Seq(Ops)
  <2>1. /\ <<"newOut", "newIn", "oldOut", "oldIn", "move", "leave">> \in Seq(Ops)
        /\ <<"newOut", "newIn", "oldOut", "oldIn">> \in Seq(Ops)
        /\ <<"move", "leave">> \in Seq(Ops) /\ <<"leave">> \in Seq(Ops) /\ <<>> \in Seq(Ops)
    BY DEF Ops
  <2> HIDE DEF s
  <2>2. QED
    BY <1>4, <1>5, <2>1 DEF Adding, Moving
<1> HIDE DEF s
<1>7. v.address \in Addresses /\ v.config \in Configs
  BY <1>3 DEF Stage
<1>8. /\ w.phase = "up" /\ w.todo = s /\ w.config = v.config
      /\ w.address = (IF Native(t) THEN v.address ELSE a)
      /\ w.other = (IF Native(t) THEN a ELSE v.address)
      /\ w.key = (v.key + (IF Native(t) THEN 0 ELSE 1))
  BY <1>3 DEF Object
<1>9. w \in Object
  <2>1. (v.key + (IF Native(t) THEN 0 ELSE 1)) \in 1..MaxKey
    BY <1>3 DEF Object
  <2>2. QED
    BY <1>3, <1>6, <1>7, <2>1 DEF Object
<1> HIDE DEF w
<1>10. tunnel'[t] = w /\ Native(t)' = Native(t)
  BY <1>3, <1>8, <1>2 DEF Native
<1>11. Native(t) => w.key = v.key /\ w.other = a /\ w.address = v.address
  BY <1>3, <1>8 DEF Object
<1>12. Stage(t)' /\ Looks(t)'
  <2>1. CASE Native(t)
    BY <1>3, <1>4, <1>7, <1>8, <1>10, <1>11, <2>1 DEF Stage, Looks
  <2>2. CASE ~Native(t)
    BY <1>3, <1>5, <1>7, <1>8, <1>10, <2>2 DEF Stage, Looks
  <2>3. QED
    BY <2>1, <2>2
<1>13. HasKeys(t)'
  <2>1. ASSUME Native(t)
        PROVE  /\ t \in host.policies /\ Paired(t, v.key) /\ s \notin Completing \cup Deleting
    <3>1. <<>> \in Moving
      BY DEF Moving
    <3>2. QED
      BY <1>3, <1>4, <2>1, <3>1, Sorts DEF HasKeys
  <2>2. QED
    BY <1>3, <1>8, <1>10, <1>11, <2>1 DEF HasKeys, Paired
<1>14. QED
  BY <1>3, <1>9, <1>2, <1>12, <1>13, SameHost, OneChanges

\* End and Gone: the tunnel is dropped, and is no more.
LEMMA EndKeeps ==
    ASSUME Kept, NEW t \in Tunnels, End(t) \/ Gone(t)
    PROVE  Kept'
<1>1. tunnel \in [Tunnels -> Object]
  BY DEF Kept, Typed
<1>2. /\ host' \in Host /\ LinksOwned' /\ SameKeys /\ disturbed' \subseteq Tunnels
      /\ faults' \in 0..MaxFaults
      /\ damaged' \subseteq {"device", "address", "routing", "dns", "others"}
  BY DEF Kept, Typed, LinksOwned, SameKeys, history, End, Gone
<1>3. CASE End(t)
  <2>1. tunnel[t].config \in Configs
    BY <1>3 DEF End, Kept, Staged, Stage
  <2>2. tunnel' = [tunnel EXCEPT ![t] = Dropped(t)] /\ tunnel'[t] = Dropped(t)
    BY <1>1, <1>3 DEF End
  <2>3. Dropped(t) \in Object /\ Stage(t)' /\ Looks(t)' /\ HasKeys(t)'
    BY <2>1, <2>2, Ended
  <2>4. QED
    BY <1>2, <2>2, <2>3, OneChanges
<1>4. CASE Gone(t)
  <2>1. tunnel' = [tunnel EXCEPT ![t] = NoTunnel] /\ tunnel'[t] = NoTunnel
    BY <1>1, <1>4 DEF Gone
  <2>2. NoTunnel \in Object /\ Stage(t)' /\ Looks(t)' /\ HasKeys(t)'
    BY <2>1, Ended
  <2>3. QED
    BY <1>2, <2>1, <2>2, OneChanges
<1>5. QED
  BY <1>3, <1>4

-----------------------------------------------------------------------------
(* Failures *)

LEMMA Failed ==
    ASSUME Kept, NEW t \in Tunnels, \E parts : Fail(t, parts)
    PROVE  /\ tunnel[t].todo # <<>>
           /\ disturbed' \subseteq Tunnels /\ faults' \in 0..MaxFaults
<1>1. tunnel[t].todo # <<>> /\ disturbed' = disturbed
  BY DEF Fail
<1>2. faults' = faults \/ (faults < MaxFaults /\ faults' = faults + 1)
  BY DEF Fail
<1>3. QED
  BY <1>1, <1>2, HostAssumption DEF Kept, Typed

\* configure_device has added the address when it fails.
LEMMA AddressAdded ==
    ASSUME Kept, NEW t \in Tunnels, tunnel[t].todo # <<>>, Op(t) = "address", CanDo(t),
           host' = [host EXCEPT !.links[Device(t)].addresses = @ \cup {tunnel[t].address}]
    PROVE  host' \in Host /\ LinksOwned' /\ SameKeys
<1>1. /\ Link(t) # NoLink /\ Device(t) \in Devices /\ host \in Host /\ LinksOwned
      /\ tunnel[t].address \in Addresses
  BY Busy, Equipped DEF CanDo, Kept, Typed
<1> DEFINE l == [owner |-> Link(t).owner, addresses |-> Link(t).addresses \cup {tunnel[t].address},
                 dns |-> Link(t).dns]
           h == [host EXCEPT !.links[Device(t)] = l]
<1>2. Link(t) \in LinkType /\ Link(t).owner \in Tunnels
  BY <1>1, LinkKept
<1>3. host' = h
  BY <1>2, LinkFields DEF Link
<1>4. l \in LinkType /\ l.owner # None
  BY <1>1, <1>2, HostAssumption DEF LinkType
<1> HIDE DEF l
<1>5. /\ h \in Host /\ h.states = host.states /\ h.policies = host.policies
      /\ \A e \in Devices : h.links[e].owner = None => h.links[e] = NoLink
  BY <1>1, <1>4, LinkChanged
<1> HIDE DEF h
<1>6. QED
  BY <1>3, <1>5 DEF LinksOwned, SameKeys

LEMMA CreateFailsKeeps ==
    ASSUME Kept, NEW t \in Tunnels, CreateFails(t)
    PROVE  Kept'
<1>1. /\ tunnel[t].todo # <<>> /\ disturbed' \subseteq Tunnels /\ faults' \in 0..MaxFaults
      /\ tunnel \in [Tunnels -> Object]
  BY Failed DEF CreateFails, Kept, Typed
<1>2. damaged' \subseteq {"device", "address", "routing", "dns", "others"}
  BY DEF CreateFails, Fail, Kept, Typed
<1>3. host' \in Host /\ LinksOwned' /\ SameKeys
  <2>1. CASE host' = host
    BY <2>1 DEF Kept, Typed, LinksOwned, SameKeys
  <2>2. CASE host' # host
    BY <1>1, <2>2, AddressAdded DEF CreateFails
  <2>3. QED
    BY <2>1, <2>2
<1>4. tunnel' = [tunnel EXCEPT ![t] = NoTunnel] /\ tunnel'[t] = NoTunnel
  BY <1>1 DEF CreateFails
<1>5. NoTunnel \in Object /\ Stage(t)' /\ Looks(t)' /\ HasKeys(t)'
  BY <1>4, Ended
<1>6. QED
  BY <1>1, <1>2, <1>3, <1>4, <1>5, OneChanges

LEMMA SetUpFailsKeeps ==
    ASSUME Kept, NEW t \in Tunnels, SetUpFails(t)
    PROVE  Kept'
<1>1. /\ tunnel[t].todo # <<>> /\ disturbed' \subseteq Tunnels /\ faults' \in 0..MaxFaults
      /\ tunnel \in [Tunnels -> Object]
  BY Failed DEF SetUpFails, Kept, Typed
<1>2. damaged' \subseteq {"device", "address", "routing", "dns", "others"}
  <2> DEFINE parts == CASE Op(t) = "write" -> {"others"}
                        [] ~Native(t) /\ Op(t) \in {"default", "noIPv6", "gateway", "subnets",
                                                    "keepalive"} -> {"routing"}
                        [] OTHER -> {}
  <2>1. damaged' = damaged \cup parts
    BY DEF SetUpFails, Fail
  <2>2. parts \subseteq {"others", "routing"}
    OBVIOUS
  <2> HIDE DEF parts
  <2>3. QED
    BY <2>1, <2>2 DEF Kept, Typed
<1>3. host' \in Host /\ LinksOwned' /\ SameKeys
  <2>1. CASE host' = host
    BY <2>1 DEF Kept, Typed, LinksOwned, SameKeys
  <2>2. CASE host' = Unlinked(Device(t))
    <3>1. Device(t) \in Devices /\ host \in Host /\ LinksOwned
      BY <1>1, Busy DEF Kept, Typed
    <3>2. QED
      BY <2>2, <3>1, LinkGone DEF LinksOwned, SameKeys
  <2>3. QED
    BY <2>1, <2>2 DEF SetUpFails
<1>4. tunnel' = [tunnel EXCEPT ![t] = Dropped(t)] /\ tunnel'[t] = Dropped(t)
  BY <1>1 DEF SetUpFails
<1>5. tunnel[t].config \in Configs
  BY DEF SetUpFails, Kept, Staged, Stage
<1>6. Dropped(t) \in Object /\ Stage(t)' /\ Looks(t)' /\ HasKeys(t)'
  BY <1>4, <1>5, Ended
<1>7. QED
  BY <1>1, <1>2, <1>3, <1>4, <1>6, OneChanges

\* A rekey that fails leaves the old pair alone, or has the new one.
LEMMA ReKeyFailsKeeps ==
    ASSUME Kept, NEW t \in Tunnels, ReKeyFails(t)
    PROVE  Kept'
<1> DEFINE s == tunnel[t].todo
           k == tunnel[t].key
<1>1. /\ s # <<>> /\ disturbed' \subseteq Tunnels /\ faults' \in 0..MaxFaults
      /\ tunnel[t].phase = "up" /\ host' = host /\ Stage(t) /\ HasKeys(t)
      /\ tunnel \in [Tunnels -> Object] /\ tunnel[t] \in Object
      /\ host' \in Host /\ LinksOwned' /\ SameKeys
  BY Failed DEF ReKeyFails, Kept, Typed, Staged, Keyed, LinksOwned, SameKeys
<1>2. damaged' \subseteq {"device", "address", "routing", "dns", "others"}
  <2> DEFINE parts == CASE Op(t) = "newOut" -> {}
                        [] Op(t) \in {"move", "leave"} -> {"address"}
                        [] OTHER -> {"device"}
  <2>1. damaged' = damaged \cup parts
    BY DEF ReKeyFails, Fail
  <2>2. parts \subseteq {"address", "device"}
    OBVIOUS
  <2> HIDE DEF parts
  <2>3. QED
    BY <2>1, <2>2 DEF Kept, Typed
<1>3. s \in Deleting => Op(t) \in {"oldOut", "oldIn"}
  BY Deletes DEF Op
<1>4. CASE Op(t) \in {"oldOut", "oldIn"}
  <2> DEFINE w == After(t)
  <2>1. /\ s \in Deleting /\ Native(t)
        /\ k < MaxKey /\ tunnel[t].other \in Addresses
        /\ tunnel[t].address \in Addresses /\ tunnel[t].config \in Configs
    BY <1>1, <1>4, Moves, Adds, Completes DEF Stage, Op
  <2>2. /\ w = [phase |-> w.phase, config |-> w.config, todo |-> w.todo, key |-> w.key,
                address |-> w.address, other |-> w.other, index |-> w.index, conf |-> w.conf]
        /\ w.phase = "up" /\ w.config = tunnel[t].config /\ w.todo = Tail(s)
        /\ w.key = IF Op(t) = "oldIn" THEN k + 1 ELSE k
        /\ w.address = IF Op(t) = "oldIn" THEN tunnel[t].other ELSE tunnel[t].address
        /\ w.other = IF Op(t) = "oldIn" THEN tunnel[t].address ELSE tunnel[t].other
        /\ w.index = tunnel[t].index /\ w.conf = tunnel[t].conf
    BY <1>1, <1>4, Afterwards
  <2>3. Tail(s) \in Seq(Ops)
    BY <1>1, TailOfSeq DEF Object
  <2>4. w.key \in 1..MaxKey
    BY <1>1, <2>1, <2>2, HostAssumption DEF Object
  <2> HIDE DEF w
  <2>5. w \in Object
    BY <1>1, <2>1, <2>2, <2>3, <2>4 DEF Object
  <2>6. tunnel' = [tunnel EXCEPT ![t] = w] /\ tunnel'[t] = w
    BY <1>1, <1>4 DEF ReKeyFails, w
  <2>7. Native(t)' /\ Native(t)
    BY <2>1, <2>2, <2>6 DEF Native
  <2>8. t \in host.policies /\ Paired(t, k + 1)
    BY <1>1, <2>1 DEF HasKeys
  <2>9. CASE Op(t) = "oldOut"
    <3>1. Tail(s) \in Deleting
      BY <2>1, <2>9, Deletes DEF Op
    <3>2. Tail(s) \notin Moving \cup Adding \cup Completing
      BY <3>1, Sorts
    <3>3. Stage(t)' /\ Looks(t)'
      BY <2>1, <2>2, <2>6, <2>7, <2>9, <3>1 DEF Stage, Looks
    <3>4. HasKeys(t)'
      BY <1>1, <2>2, <2>6, <2>8, <2>9, <3>1, <3>2 DEF HasKeys, Paired
    <3>5. QED
      BY <1>1, <1>2, <2>5, <2>6, <3>3, <3>4, OneChanges
  <2>10. CASE Op(t) = "oldIn"
    <3>1. Tail(s) \in Moving
      BY <2>1, <2>10, Deletes DEF Op
    <3>2. Tail(s) \notin Completing \cup Deleting
      BY <3>1, Sorts
    <3>3. Stage(t)' /\ Looks(t)'
      BY <2>1, <2>2, <2>6, <2>7, <2>10, <3>1 DEF Stage, Looks
    <3>4. HasKeys(t)'
      BY <1>1, <2>2, <2>6, <2>8, <2>10, <3>1, <3>2 DEF HasKeys, Paired
    <3>5. QED
      BY <1>1, <1>2, <2>5, <2>6, <3>3, <3>4, OneChanges
  <2>11. QED
    BY <1>4, <2>9, <2>10
<1>5. CASE Op(t) \notin {"oldOut", "oldIn"}
  <2> DEFINE w == [tunnel[t] EXCEPT !.todo = <<>>, !.other = None]
  <2>1. /\ w \in Object /\ w.phase = "up" /\ w.todo = <<>> /\ w.config = tunnel[t].config
        /\ w.address = tunnel[t].address /\ w.key = k
    <3>1. <<>> \in Seq(Ops)
      BY EmptySeq
    <3>2. QED
      BY <1>1, <3>1 DEF Object
  <2>2. tunnel' = [tunnel EXCEPT ![t] = w] /\ tunnel'[t] = w
    BY <1>1, <1>5 DEF ReKeyFails
  <2> HIDE DEF w
  <2>3. <<>> \in Moving /\ <<>> \notin Completing \cup Deleting
    BY Sorts DEF Moving
  <2>4. Native(t) => t \in host.policies /\ Paired(t, k)
    BY <1>1, <1>3, <1>5 DEF Stage, HasKeys
  <2>5. Stage(t)' /\ Looks(t)'
    BY <1>1, <2>1, <2>2, <2>3 DEF Stage, Looks
  <2>6. HasKeys(t)'
    BY <1>1, <2>1, <2>2, <2>3, <2>4 DEF HasKeys, Native, Paired
  <2>7. QED
    BY <1>1, <1>2, <2>1, <2>2, <2>5, <2>6, OneChanges
<1>6. QED
  BY <1>4, <1>5

LEMMA CleanUpFailsKeeps ==
    ASSUME Kept, NEW t \in Tunnels, CleanUpFails(t)
    PROVE  Kept'
<1> DEFINE s == tunnel[t].todo
<1>1. /\ disturbed' \subseteq Tunnels /\ faults' \in 0..MaxFaults
      /\ tunnel[t].phase = "dropped" /\ Stage(t)
      /\ tunnel \in [Tunnels -> Object] /\ tunnel[t] \in Object
      /\ host' \in Host /\ LinksOwned' /\ SameKeys
  BY Failed DEF CleanUpFails, Kept, Typed, Staged, LinksOwned, SameKeys
<1>2. damaged' \subseteq {"device", "address", "routing", "dns", "others"}
  <2> DEFINE parts == CASE Op(t) \in {"read", "truncate"} -> {"dns"}
                        [] Op(t) = "unwrite" -> {"dns", "others"}
                        [] Op(t) \in {"unrule", "ipv6", "unkeepalive"} -> {"routing"}
                        [] Op(t) = "index" /\ (CanDo(t) \/ t \in disturbed) -> {"routing"}
                        [] Op(t) = "index" /\ ~(CanDo(t) \/ t \in disturbed) -> {}
                        [] OTHER -> {"device"}
  <2>1. damaged' = damaged \cup parts
    BY DEF CleanUpFails, Fail
  <2>2. parts \subseteq {"device", "address", "routing", "dns", "others"}
    OBVIOUS
  <2> HIDE DEF parts
  <2>3. QED
    BY <2>1, <2>2 DEF Kept, Typed
<1>3. PICK n \in DOMAIN s : tunnel' = [tunnel EXCEPT ![t].todo = SubSeq(s, n + 1, Len(s))]
  BY DEF CleanUpFails
<1>4. s \in Seq(CleanUpOps) /\ s \in Seq(Ops) /\ n \in 1..Len(s) /\ Len(s) \in Nat
  <2>1. s \in Seq(CleanUpOps)
    BY <1>1 DEF Stage
  <2>2. QED
    BY <2>1, <1>3, SeqMonotonic, LenProperties DEF Ops
<1>5. SubSeq(s, n + 1, Len(s)) \in Seq(CleanUpOps) /\ SubSeq(s, n + 1, Len(s)) \in Seq(Ops)
  BY <1>4, SubSeqProperties
<1> DEFINE w == [tunnel[t] EXCEPT !.todo = SubSeq(s, n + 1, Len(s))]
<1>6. tunnel' = [tunnel EXCEPT ![t] = w] /\ tunnel'[t] = w
  BY <1>1, <1>3
<1>7. /\ w \in Object /\ w.phase = "dropped" /\ w.config = tunnel[t].config
      /\ w.todo = SubSeq(s, n + 1, Len(s))
  BY <1>1, <1>5 DEF Object
<1> HIDE DEF w
<1>8. Stage(t)' /\ Looks(t)' /\ HasKeys(t)'
  BY <1>1, <1>5, <1>6, <1>7 DEF Stage, Looks, HasKeys
<1>9. QED
  BY <1>1, <1>2, <1>6, <1>7, <1>8, OneChanges

LEMMA CrashKeeps ==
    ASSUME Kept, Crash
    PROVE  Kept'
<1>1. NoTunnel \in Object /\ tunnel \in [Tunnels -> Object] /\ host \in Host /\ LinksOwned
  <2>1. CASE Tunnels = {}
    BY <2>1 DEF Crash, Alive
  <2>2. CASE Tunnels # {}
    BY <2>2, Ended DEF Kept, Typed
  <2>3. QED
    BY <2>1, <2>2
<1>2. tunnel' \in [Tunnels -> Object]
  BY <1>1 DEF Crash
<1>3. host' = Unlinked("snx-tun") /\ "snx-tun" \in Devices
  BY DEF Crash, Devices
<1>4. host' \in Host /\ LinksOwned' /\ SameKeys
  BY <1>1, <1>3, LinkGone DEF LinksOwned, SameKeys
<1>5. faults' \in 0..MaxFaults /\ disturbed' \subseteq Tunnels
  BY HostAssumption DEF Crash, Kept, Typed
<1>6. damaged' \subseteq {"device", "address", "routing", "dns", "others"}
  BY DEF Crash, Kept, Typed
<1>7. ASSUME NEW u \in Tunnels
      PROVE  Stage(u)' /\ Looks(u)' /\ HasKeys(u)'
  <2>1. CASE u \in Alive
    <3>1. tunnel'[u] = NoTunnel
      BY <2>1 DEF Crash
    <3>2. QED
      BY <3>1, Ended
  <2>2. CASE u \notin Alive
    <3>1. tunnel'[u] = tunnel[u]
      BY <2>2 DEF Crash
    <3>2. QED
      BY <1>4, <3>1, OthersKeep DEF SameKeys
  <2>3. QED
    BY <2>1, <2>2
<1>8. QED
  BY <1>2, <1>4, <1>5, <1>6, <1>7 DEF Kept, Typed, Staged, IndexFirst, Keyed

-----------------------------------------------------------------------------
(* The theorems *)

LEMMA KeptNext == Kept /\ [Next]_vars => Kept'
<1> SUFFICES ASSUME Kept, [Next]_vars
             PROVE  Kept'
  OBVIOUS
<1>1. ASSUME NEW t \in Tunnels, Operation(t)
      PROVE  Kept'
  BY <1>1, OperationKeeps
<1>2. ASSUME NEW t \in Tunnels,
             Create(t) \/ Created(t) \/ Run(t) \/ Up(t) \/ StartReKey(t) \/ End(t) \/ Gone(t)
      PROVE  Kept'
  BY <1>2, CreateKeeps, CreatedKeeps, RunKeeps, UpKeeps, StartReKeyKeeps, EndKeeps
<1>3. ASSUME NEW t \in Tunnels,
             CreateFails(t) \/ SetUpFails(t) \/ ReKeyFails(t) \/ CleanUpFails(t)
      PROVE  Kept'
  BY <1>3, CreateFailsKeeps, SetUpFailsKeeps, ReKeyFailsKeeps, CleanUpFailsKeeps
<1>4. CASE Crash
  BY <1>4, CrashKeeps
<1>5. CASE UNCHANGED vars
  BY <1>5 DEF vars, Kept, Typed, LinksOwned, Staged, Stage, IndexFirst, Looks, Keyed, HasKeys,
              Native, Paired
<1>6. QED
  BY <1>1, <1>2, <1>3, <1>4, <1>5 DEF Next, Operation

LEMMA AlwaysKept == Spec => []Kept
BY KeptInit, KeptNext, PTL DEF Spec

\* The tables of the host and the objects of the tunnels have their types, whatever fails or
\* crashes: what is written is of the kind that is expected there, a route has a device that was
\* resolved, and what waits for nothing has nothing left to do.
THEOREM HostTypes == Spec => []TypeOK
<1>1. Kept => TypeOK
  BY DEF Kept, Typed, Staged, Stage, TypeOK, Object
<1>2. QED
  BY <1>1, AlwaysKept, PTL

\* NativeIPsecTunnel and XfrmConfigurator: a native tunnel always has its policies and both
\* states of a key pair.
THEOREM KeysAreInstalled == Spec => []KeysInstalled
<1>1. Kept => KeysInstalled
  <2> SUFFICES ASSUME Kept, NEW t \in Tunnels,
                      tunnel[t].phase \in {"created", "settingUp", "up"}, Native(t)
               PROVE  /\ t \in host.policies
                      /\ \E k \in 1..MaxKey :
                             {Key(t, k, "in"), Key(t, k, "out")} \subseteq host.states
    BY DEF KeysInstalled
  <2>1. /\ Stage(t) /\ HasKeys(t) /\ tunnel[t].key \in 1..MaxKey /\ MaxKey \in Nat
    BY HostAssumption DEF Kept, Typed, Staged, Keyed, Object
  <2>2. t \in host.policies /\ (Paired(t, tunnel[t].key) \/ Paired(t, tunnel[t].key + 1))
    BY <2>1 DEF Stage, HasKeys
  <2>3. ASSUME NEW k, Paired(t, k)
        PROVE  k \in 1..MaxKey
    <3>1. Key(t, k, "in") \in [owner : Tunnels, key : 1..MaxKey, direction : {"in", "out"}]
      BY <2>3 DEF Kept, Typed, Host, Paired
    <3>2. QED
      BY <3>1 DEF Key
  <2>4. QED
    BY <2>2, <2>3 DEF Paired
<1>2. QED
  BY <1>1, AlwaysKept, PTL

-----------------------------------------------------------------------------
(* The invariant of the other two properties: who has what on the host.  The operators       *)
(* below are about the object v of a tunnel, so that they can be used for its next one, too. *)

RoutingOps == {"index", "rule", "default", "noIPv6", "gateway", "subnets", "keepalive"}
DnsOps == {"linkDns", "read", "truncate", "write"}

Els(s) == {s[i] : i \in 1..Len(s)}
IsNative(v) == v.config.kind = "native"
DeviceOf(v) == IF IsNative(v) THEN "snx-xfrm" ELSE "snx-tun"

\* The place of an operation in the set-up of a TUN tunnel.
Rank(op) ==
    CASE op = "device" -> 1
      [] op = "address" -> 2
      [] op = "index" -> 3
      [] op = "rule" -> 4
      [] op \in {"default", "subnets"} -> 5
      [] op = "noIPv6" -> 6
      [] op = "gateway" -> 7
      [] op = "keepalive" -> 8
      [] op = "linkDns" -> 9
      [] op = "read" -> 10
      [] op = "truncate" -> 11
      [] OTHER -> 12

Sorted(s) == \A i, j \in 1..Len(s) : i < j => Rank(s[i]) < Rank(s[j])

\* /etc/resolv.conf is read, truncated and written without anything in between.
Mid == {"truncate", "write", "unwrite"}
Contiguous(s) ==
    \A i \in 1..Len(s) :
        /\ s[i] \in Mid => i = 1 \/ s[i - 1] \in {"read", "truncate"}
        /\ s[i] = "read" => i < Len(s) /\ s[i + 1] = "truncate"
        /\ s[i] = "truncate" => i < Len(s) /\ s[i + 1] \in {"write", "unwrite"}

\* The device goes last.
UnlinksLast(s) == \A i \in 1..Len(s) : s[i] = "unlink" <=> i = Len(s)

\* What run does for a configuration, and what it leaves a mark with.
Needed(c, resolver) ==
    {"rule", IF c.full THEN "default" ELSE "subnets"}
    \cup (IF c.kind # "ssl" THEN {"keepalive"} ELSE {})
    \cup (IF c.full /\ c.disable_ipv6 THEN {"noIPv6"} ELSE {})
    \cup (IF c.dns THEN {IF resolver = "resolved" THEN "linkDns" ELSE "write"} ELSE {})
Marks == {"rule", "default", "subnets", "keepalive", "noIPv6", "linkDns", "write"}

Ordered(v, resolver) ==
    /\ v.phase \in {"settingUp", "dropped"} => Contiguous(v.todo)
    /\ v.phase = "settingUp" =>
           /\ Els(v.todo) \cap Marks \subseteq Needed(v.config, resolver)
           /\ IsNative(v) => Els(v.todo) \cap {"device", "address"} = {}
           /\ ~IsNative(v) =>
                  /\ Sorted(v.todo)
                  /\ v.todo # <<>> /\ Head(v.todo) = "device" =>
                         Needed(v.config, resolver) \cup {"address"} \subseteq Els(v.todo)
    /\ v.phase = "dropped" =>
           /\ UnlinksLast(v.todo)
           /\ ~IsNative(v) => "index" \notin Els(v.todo)

InOrder == \A t \in Tunnels : Ordered(tunnel[t], host.resolver)

\* Only tunnels with a TUN device are alive together undisturbed.
Meets ==
    \A t, u \in Alive : t # u /\ (Native(t) \/ Native(u)) => {t, u} \subseteq disturbed

\* The tunnel has made its device and has not deleted it yet.
Holding(v) ==
    \/ v.phase = "creating" /\ (v.todo = <<>> \/ Head(v.todo) # "link")
    \/ v.phase = "created" /\ IsNative(v)
    \/ v.phase = "settingUp" /\ (v.todo = <<>> \/ Head(v.todo) # "device")
    \/ v.phase = "up"
    \/ v.phase = "dropped" /\ v.todo # <<>>

\* The link of a TUN tunnel is its own; so is the one of an undisturbed native tunnel, unless
\* it was left behind by an earlier one.
HoldsLink ==
    \A t \in Alive : Holding(tunnel[t]) =>
        /\ ~Native(t) => Link(t).owner = t
        /\ Native(t) /\ t \notin disturbed =>
               Link(t).owner # None /\ (Link(t).owner = t \/ Link(t).owner \notin Alive)

\* Links are made by tunnels that use the device, and routes lead over links.
LinksMade ==
    /\ \A d \in Devices : LET o == host.links[d].owner
                          IN  o # None =>
                                /\ tunnel[o].phase # "none"
                                /\ o \in Alive => DeviceOf(tunnel[o]) = d
                                /\ tunnel[o].phase = "creating" => Holding(tunnel[o])
    /\ \A r \in host.routes : \E d \in Devices : host.links[d].owner = r.owner

\* A state of t with key k and direction x, and its policies, will still be deleted.
KeyInUse(v, k, x) ==
    /\ v.phase \notin {"none", "gone"} /\ IsNative(v)
    /\ v.phase = "creating" => k = v.key /\ v.todo \in OutDone
    /\ v.phase \in {"created", "settingUp"} => k = v.key
    /\ v.phase = "up" =>
           \/ k = v.key /\ (v.todo # <<>> /\ Head(v.todo) = "oldIn" => x = "in")
           \/ k = v.key + 1 /\ v.todo \in Completing \cup Deleting
    /\ v.phase = "dropped" => k = v.key /\ "unstates" \in Els(v.todo)

PoliciesInUse(v) ==
    /\ v.phase \notin {"none", "gone"} /\ IsNative(v)
    /\ v.phase = "creating" => v.todo = <<>>
    /\ v.phase = "dropped" => "unpolicies" \in Els(v.todo)

LinksInUse ==
    "device" \notin damaged =>
        \A d \in Devices : LET o == host.links[d].owner
                           IN  o # None => o \in Alive /\ Holding(tunnel[o])

KeysInUse ==
    "device" \notin damaged =>
        /\ \A s \in host.states : KeyInUse(tunnel[s.owner], s.key, s.direction)
        /\ \A t \in host.policies : PoliciesInUse(tunnel[t])

\* The tunnel has done op of its set-up, and has not undone it yet.
Keeping(v, op, undo) ==
    \/ v.phase = "settingUp" /\ (IsNative(v) \/ v.todo = <<>> \/ Rank(Head(v.todo)) > Rank(op))
    \/ v.phase = "up"
    \/ v.phase = "dropped" /\ undo \in Els(v.todo)

KeepsRule(v, r) ==
    /\ r.gateway = v.config.gateway
    /\ r.sort = "exclusion" => Keeping(v, "rule", "unrule")
    /\ r.sort = "keepalive" => v.config.kind # "ssl" /\ Keeping(v, "keepalive", "unkeepalive")
KeepsIPv6(v) == v.config.full /\ v.config.disable_ipv6 /\ Keeping(v, "noIPv6", "ipv6")

RoutingInUse ==
    "routing" \notin damaged =>
        /\ \A r \in host.rules : \E t \in Alive : KeepsRule(tunnel[t], r)
        /\ host.no_ipv6 => \E t \in Alive : KeepsIPv6(tunnel[t])

\* Between its read and its write the tunnel knows what is to be in /etc/resolv.conf.
Between(v) == v.todo # <<>> /\ Head(v.todo) \in Mid
KeepsServer(v, g, resolver) ==
    /\ g = v.config.gateway /\ v.config.dns /\ resolver # "resolved"
    /\ Keeping(v, "write", "unwrite")

DnsInUse ==
    disturbed = {} =>
        /\ "dns" \notin damaged =>
               /\ \A g \in host.conf.vpn : \E t \in Alive : KeepsServer(tunnel[t], g, host.resolver)
               /\ \A t \in Alive : Between(tunnel[t]) => tunnel[t].conf.vpn \subseteq {Gateway(t)}
        /\ "others" \notin damaged =>
               /\ host.conf.others \/ \E t \in Tunnels : Writing(t)
               /\ \A t \in Alive : Between(tunnel[t]) => tunnel[t].conf.others

\* What an undisturbed tunnel has done of its set-up is there.
Doing(v, op) == v.phase = "up" \/ (v.phase = "settingUp" /\ op \notin Els(v.todo))

There(t, op) ==
    CASE op = "rule" -> Exclusion(t) \in host.rules
      [] op = "keepalive" -> Keepalive(t) \in host.rules
      [] op = "noIPv6" -> host.no_ipv6
      [] op = "linkDns" -> Link(t).dns
      [] op = "write" -> Gateway(t) \in host.conf.vpn
      [] op \in {"default", "subnets"} -> Haunted \/ \E r \in host.routes : r.owner = t

SetUpThere ==
    \A t \in Alive \ disturbed : \A op \in Needed(tunnel[t].config, host.resolver) :
        Doing(tunnel[t], op) => There(t, op)

\* The addresses A of the device of a tunnel.
Moved == {<<"newOut", "newIn", "oldOut", "oldIn", "move", "leave">>,
          <<"newIn", "oldOut", "oldIn", "move", "leave">>, <<"oldOut", "oldIn", "move", "leave">>,
          <<"oldIn", "move", "leave">>}
Unmoved == {<<"newOut", "newIn", "oldOut", "oldIn">>, <<"newIn", "oldOut", "oldIn">>,
            <<"oldOut", "oldIn">>, <<"oldIn">>}

AddressedAs(v, A) ==
    /\ v.phase = "creating" /\ v.todo = <<"address", "out", "in", "policies">> => A = {}
    /\ v.phase = "creating" /\ v.todo \in OutDone \cup {<<"out", "in", "policies">>} =>
           A = {v.address}
    /\ v.phase = "created" /\ IsNative(v) => A = {v.address}
    /\ v.phase = "settingUp" /\ v.todo # <<>> /\ Head(v.todo) = "address" => A = {}
    /\ v.phase = "settingUp" /\ (v.todo = <<>> \/ Head(v.todo) \notin {"device", "address"}) =>
           A = {v.address}
    /\ v.phase = "up" =>
           /\ v.todo = <<>> => A = {v.address}
           /\ v.todo \in Moved => A = {v.address} /\ v.address # v.other
           /\ v.todo \in Unmoved => A = {v.address} /\ v.address = v.other
           /\ v.todo = <<"move", "leave">> => A = {v.other} /\ v.address # v.other
           /\ v.todo = <<"leave">> => A = {v.address, v.other} /\ v.address # v.other

Addressed ==
    ~Haunted /\ "address" \notin damaged =>
        \A t \in Alive \ disturbed : AddressedAs(tunnel[t], Link(t).addresses)

InUse == InOrder /\ Meets /\ HoldsLink /\ LinksMade /\ LinksInUse /\ KeysInUse /\ RoutingInUse
         /\ DnsInUse /\ SetUpThere /\ Addressed

-----------------------------------------------------------------------------
(* Sequences: elements, order *)

LEMMA ElsEmpty == Els(<<>>) = {}
BY DEF Els

LEMMA ElsTail ==
    ASSUME NEW S, NEW s \in Seq(S), s # <<>>
    PROVE  Els(s) = {Head(s)} \cup Els(Tail(s))
<1>1. /\ Len(s) \in Nat \ {0} /\ Len(Tail(s)) = Len(s) - 1 /\ Head(s) = s[1]
      /\ \A i \in 1..Len(Tail(s)) : Tail(s)[i] = s[i + 1]
  BY HeadTailProperties, LenProperties, EmptySeq
<1>2. ASSUME NEW x \in Els(s)
      PROVE  x \in {Head(s)} \cup Els(Tail(s))
  <2>1. PICK i \in 1..Len(s) : x = s[i]
    BY DEF Els
  <2>2. CASE i = 1
    BY <1>1, <2>1, <2>2
  <2>3. CASE i # 1
    <3>1. i - 1 \in 1..Len(Tail(s)) /\ Tail(s)[i - 1] = x
      BY <1>1, <2>1, <2>3
    <3>2. QED
      BY <3>1 DEF Els
  <2>4. QED
    BY <2>2, <2>3
<1>3. ASSUME NEW x \in {Head(s)} \cup Els(Tail(s))
      PROVE  x \in Els(s)
  <2>1. CASE x = Head(s)
    <3>1. 1 \in 1..Len(s) /\ x = s[1]
      BY <1>1, <2>1
    <3>2. QED
      BY <3>1 DEF Els
  <2>2. CASE x \in Els(Tail(s))
    <3>1. PICK i \in 1..Len(Tail(s)) : x = Tail(s)[i]
      BY <2>2 DEF Els
    <3>2. i + 1 \in 1..Len(s) /\ x = s[i + 1]
      BY <1>1, <3>1
    <3>3. QED
      BY <3>2 DEF Els
  <2>3. QED
    BY <2>1, <2>2
<1>4. QED
  BY <1>2, <1>3

LEMMA ElsJoined ==
    ASSUME NEW S, NEW u \in Seq(S), NEW v \in Seq(S)
    PROVE  Els(u \o v) = Els(u) \cup Els(v)
<1>1. /\ Len(u) \in Nat /\ Len(v) \in Nat /\ Len(u \o v) = Len(u) + Len(v)
      /\ \A i \in 1 .. (Len(u) + Len(v)) :
             (u \o v)[i] = IF i <= Len(u) THEN u[i] ELSE v[i - Len(u)]
  BY ConcatProperties, LenProperties
<1>2. ASSUME NEW x \in Els(u \o v)
      PROVE  x \in Els(u) \cup Els(v)
  <2>1. PICK i \in 1 .. (Len(u) + Len(v)) : x = (u \o v)[i]
    BY <1>1 DEF Els
  <2>2. CASE i <= Len(u)
    BY <1>1, <2>1, <2>2 DEF Els
  <2>3. CASE i > Len(u)
    <3>1. i - Len(u) \in 1..Len(v) /\ x = v[i - Len(u)]
      BY <1>1, <2>1, <2>3
    <3>2. QED
      BY <3>1 DEF Els
  <2>4. QED
    BY <1>1, <2>2, <2>3
<1>3. ASSUME NEW x \in Els(u)
      PROVE  x \in Els(u \o v)
  <2>1. PICK i \in 1..Len(u) : x = u[i]
    BY DEF Els
  <2>2. i \in 1..Len(u \o v) /\ x = (u \o v)[i]
    BY <1>1, <2>1
  <2>3. QED
    BY <2>2 DEF Els
<1>4. ASSUME NEW x \in Els(v)
      PROVE  x \in Els(u \o v)
  <2>1. PICK i \in 1..Len(v) : x = v[i]
    BY DEF Els
  <2>2. i + Len(u) \in 1..Len(u \o v) /\ x = (u \o v)[i + Len(u)]
    BY <1>1, <2>1
  <2>3. QED
    BY <2>2 DEF Els
<1>5. QED
  BY <1>2, <1>3, <1>4

\* What comes after the first n elements.
LEMMA Rest ==
    ASSUME NEW S, NEW s \in Seq(S), NEW n \in 1..Len(s)
    PROVE  LET r == SubSeq(s, n + 1, Len(s))
           IN  /\ r \in Seq(S) /\ Len(r) = Len(s) - n /\ Len(s) \in Nat /\ Len(r) \in Nat
               /\ \A i \in 1..Len(r) : r[i] = s[n + i]
               /\ Els(r) \subseteq Els(s)
               /\ \A x \in Els(s) : x \in Els(r) \/ \E i \in 1..n : x = s[i]
<1> DEFINE r == SubSeq(s, n + 1, Len(s))
<1>1. Len(s) \in Nat
  BY LenProperties
<1>2. /\ r \in Seq(S) /\ Len(r) = Len(s) - n
      /\ \A i \in 1..Len(r) : r[i] = s[n + i]
  <2>1. /\ r \in Seq(S)
        /\ Len(r) = IF n + 1 <= Len(s) THEN Len(s) - (n + 1) + 1 ELSE 0
        /\ \A i \in 1 .. (Len(s) - (n + 1) + 1) : r[i] = s[(n + 1) + i - 1]
    BY <1>1, SubSeqProperties
  <2> HIDE DEF r
  <2>2. QED
    BY <1>1, <2>1
<1> HIDE DEF r
<1>3. Len(r) \in Nat
  BY <1>2, LenProperties
<1>4. ASSUME NEW x \in Els(r)
      PROVE  x \in Els(s)
  <2>1. PICK i \in 1..Len(r) : x = r[i]
    BY DEF Els
  <2>2. n + i \in 1..Len(s) /\ x = s[n + i]
    BY <1>1, <1>2, <2>1
  <2>3. QED
    BY <2>2 DEF Els
<1>5. ASSUME NEW x \in Els(s)
      PROVE  x \in Els(r) \/ \E i \in 1..n : x = s[i]
  <2>1. PICK j \in 1..Len(s) : x = s[j]
    BY DEF Els
  <2>2. CASE j > n
    <3>1. j - n \in 1..Len(r) /\ r[j - n] = s[j]
      BY <1>1, <1>2, <2>1, <2>2
    <3>2. QED
      BY <2>1, <3>1 DEF Els
  <2>3. CASE j <= n
    BY <2>1, <2>3
  <2>4. QED
    BY <1>1, <2>1, <2>2, <2>3
<1>6. QED
  BY <1>1, <1>2, <1>3, <1>4, <1>5 DEF r

LEMMA TailIsRest ==
    ASSUME NEW S, NEW s \in Seq(S), s # <<>>
    PROVE  /\ Tail(s) \in Seq(S) /\ Len(s) \in Nat \ {0} /\ Len(Tail(s)) = Len(s) - 1
           /\ Head(s) = s[1] /\ \A i \in 1..Len(Tail(s)) : Tail(s)[i] = s[1 + i]
           /\ Tail(s) # <<>> => Len(s) > 1 /\ Head(Tail(s)) = s[2]
<1>1. /\ Len(s) \in Nat \ {0} /\ Len(Tail(s)) = Len(s) - 1 /\ Head(s) = s[1]
      /\ Tail(s) \in Seq(S) /\ \A i \in 1..Len(Tail(s)) : Tail(s)[i] = s[i + 1]
  BY HeadTailProperties, LenProperties, EmptySeq
<1>2. ASSUME Tail(s) # <<>>
      PROVE  Len(s) > 1 /\ Head(Tail(s)) = s[2]
  <2>1. Len(Tail(s)) # 0
    BY <1>1, <1>2, EmptySeq
  <2>2. Head(Tail(s)) = Tail(s)[1]
    BY <1>1, <1>2, HeadTailProperties
  <2>3. QED
    BY <1>1, <2>1, <2>2
<1>3. QED
  BY <1>1, <1>2

\* The order of a list is the order of what is left of it.
LEMMA OrderOfRest ==
    ASSUME NEW s, Len(s) \in Nat, NEW r, Len(r) \in Nat, NEW n \in Nat, Len(r) = Len(s) - n,
           \A i \in 1..Len(r) : r[i] = s[n + i]
    PROVE  /\ Sorted(s) => Sorted(r)
           /\ Contiguous(s) => Contiguous(r)
           /\ UnlinksLast(s) => UnlinksLast(r)
<1>1. \A i \in 1..Len(r) : n + i \in 1..Len(s)
  OBVIOUS
<1>2. Sorted(s) => Sorted(r)
  <2> SUFFICES ASSUME Sorted(s), NEW i \in 1..Len(r), NEW j \in 1..Len(r), i < j
               PROVE  Rank(r[i]) < Rank(r[j])
    BY DEF Sorted
  <2>1. n + i < n + j /\ n + i \in 1..Len(s) /\ n + j \in 1..Len(s)
    BY <1>1
  <2>2. Rank(s[n + i]) < Rank(s[n + j])
    BY <2>1 DEF Sorted
  <2>3. QED
    BY <2>2
<1>3. Contiguous(s) => Contiguous(r)
  <2> SUFFICES ASSUME Contiguous(s), NEW i \in 1..Len(r)
               PROVE  /\ r[i] \in Mid => i = 1 \/ r[i - 1] \in {"read", "truncate"}
                      /\ r[i] = "read" => i < Len(r) /\ r[i + 1] = "truncate"
                      /\ r[i] = "truncate" => i < Len(r) /\ r[i + 1] \in {"write", "unwrite"}
    BY DEF Contiguous
  <2> DEFINE k == n + i
  <2>1. k \in 1..Len(s) /\ r[i] = s[k]
    BY <1>1
  <2>2. /\ s[k] \in Mid => k = 1 \/ s[k - 1] \in {"read", "truncate"}
        /\ s[k] = "read" => k < Len(s) /\ s[k + 1] = "truncate"
        /\ s[k] = "truncate" => k < Len(s) /\ s[k + 1] \in {"write", "unwrite"}
    BY <2>1 DEF Contiguous
  <2>3. i # 1 => i - 1 \in 1..Len(r) /\ k # 1 /\ n + (i - 1) = k - 1
    OBVIOUS
  <2>4. k < Len(s) => i < Len(r) /\ i + 1 \in 1..Len(r) /\ n + (i + 1) = k + 1
    OBVIOUS
  <2>5. i # 1 => r[i - 1] = s[k - 1]
    BY <2>3
  <2>6. k < Len(s) => r[i + 1] = s[k + 1]
    BY <2>4
  <2> HIDE DEF k
  <2>7. QED
    BY <2>1, <2>2, <2>3, <2>4, <2>5, <2>6
<1>4. UnlinksLast(s) => UnlinksLast(r)
  <2> SUFFICES ASSUME UnlinksLast(s), NEW i \in 1..Len(r)
               PROVE  r[i] = "unlink" <=> i = Len(r)
    BY DEF UnlinksLast
  <2>1. n + i \in 1..Len(s) /\ r[i] = s[n + i] /\ (n + i = Len(s) <=> i = Len(r))
    BY <1>1
  <2>2. QED
    BY <2>1 DEF UnlinksLast
<1>5. QED
  BY <1>2, <1>3, <1>4

LEMMA SortedJoined ==
    ASSUME NEW S, NEW u \in Seq(S), NEW v \in Seq(S), Sorted(u), Sorted(v),
           \A x \in Els(u), y \in Els(v) : Rank(x) < Rank(y)
    PROVE  Sorted(u \o v)
<1>1. /\ Len(u) \in Nat /\ Len(v) \in Nat /\ Len(u \o v) = Len(u) + Len(v)
      /\ \A i \in 1 .. (Len(u) + Len(v)) :
             (u \o v)[i] = IF i <= Len(u) THEN u[i] ELSE v[i - Len(u)]
  BY ConcatProperties, LenProperties
<1> SUFFICES ASSUME NEW i \in 1 .. (Len(u) + Len(v)), NEW j \in 1 .. (Len(u) + Len(v)), i < j
             PROVE  Rank((u \o v)[i]) < Rank((u \o v)[j])
  BY <1>1 DEF Sorted
<1>2. CASE j <= Len(u)
  <2>1. i \in 1..Len(u) /\ j \in 1..Len(u) /\ (u \o v)[i] = u[i] /\ (u \o v)[j] = u[j]
    BY <1>1, <1>2
  <2>2. QED
    BY <2>1 DEF Sorted
<1>3. CASE i > Len(u)
  <2>1. /\ i - Len(u) \in 1..Len(v) /\ j - Len(u) \in 1..Len(v) /\ i - Len(u) < j - Len(u)
        /\ (u \o v)[i] = v[i - Len(u)] /\ (u \o v)[j] = v[j - Len(u)]
    BY <1>1, <1>3
  <2>2. QED
    BY <2>1 DEF Sorted
<1>4. CASE i <= Len(u) /\ j > Len(u)
  <2>1. /\ i \in 1..Len(u) /\ j - Len(u) \in 1..Len(v)
        /\ (u \o v)[i] = u[i] /\ (u \o v)[j] = v[j - Len(u)]
    BY <1>1, <1>4
  <2>2. u[i] \in Els(u) /\ v[j - Len(u)] \in Els(v)
    BY <2>1 DEF Els
  <2>3. QED
    BY <2>1, <2>2
<1>5. QED
  BY <1>1, <1>2, <1>3, <1>4

\* A list that begins with nothing half done.
Whole(s) == Contiguous(s) /\ (Len(s) > 0 => s[1] \notin Mid)

LEMMA WholeJoined ==
    ASSUME NEW S, NEW u \in Seq(S), NEW v \in Seq(S), Whole(u), Whole(v)
    PROVE  Whole(u \o v)
<1> DEFINE s == u \o v
<1>1. /\ Len(u) \in Nat /\ Len(v) \in Nat /\ Len(s) = Len(u) + Len(v)
      /\ \A i \in 1 .. (Len(u) + Len(v)) : s[i] = IF i <= Len(u) THEN u[i] ELSE v[i - Len(u)]
  BY ConcatProperties, LenProperties
<1> HIDE DEF s
<1>2. Len(s) > 0 => s[1] \notin Mid
  <2>1. CASE Len(u) > 0
    BY <1>1, <2>1 DEF Whole
  <2>2. CASE Len(u) = 0
    BY <1>1, <2>2 DEF Whole
  <2>3. QED
    BY <1>1, <2>1, <2>2
<1>3. ASSUME NEW i \in 1..Len(s)
      PROVE  /\ s[i] \in Mid => i = 1 \/ s[i - 1] \in {"read", "truncate"}
             /\ s[i] = "read" => i < Len(s) /\ s[i + 1] = "truncate"
             /\ s[i] = "truncate" => i < Len(s) /\ s[i + 1] \in {"write", "unwrite"}
  <2>1. CASE i <= Len(u)
    <3>1. /\ u[i] \in Mid => i = 1 \/ u[i - 1] \in {"read", "truncate"}
          /\ u[i] = "read" => i < Len(u) /\ u[i + 1] = "truncate"
          /\ u[i] = "truncate" => i < Len(u) /\ u[i + 1] \in {"write", "unwrite"}
      BY <1>1, <2>1 DEF Whole, Contiguous
    <3>2. s[i] = u[i] /\ (i # 1 => s[i - 1] = u[i - 1]) /\ (i < Len(u) => s[i + 1] = u[i + 1])
      BY <1>1, <2>1
    <3>3. QED
      BY <1>1, <2>1, <3>1, <3>2
  <2>2. CASE i > Len(u)
    <3> DEFINE k == i - Len(u)
    <3>0. k \in 1..Len(v) /\ s[i] = v[k]
      BY <1>1, <2>2
    <3>1. /\ v[k] \in Mid => k = 1 \/ v[k - 1] \in {"read", "truncate"}
          /\ v[k] = "read" => k < Len(v) /\ v[k + 1] = "truncate"
          /\ v[k] = "truncate" => k < Len(v) /\ v[k + 1] \in {"write", "unwrite"}
      BY <3>0 DEF Whole, Contiguous
    <3>2. /\ k # 1 => i - 1 > Len(u) /\ i - 1 \in 1..Len(s) /\ (i - 1) - Len(u) = k - 1
          /\ k < Len(v) => i < Len(s) /\ i + 1 \in 1..Len(s) /\ (i + 1) - Len(u) = k + 1
      BY <1>1, <2>2
    <3>5. k # 1 => s[i - 1] = v[k - 1]
      BY <1>1, <3>2
    <3>6. k < Len(v) => i < Len(s) /\ s[i + 1] = v[k + 1]
      BY <1>1, <2>2, <3>2
    <3>3. k = 1 => v[k] \notin Mid
      BY <1>1, <3>0 DEF Whole
    <3> HIDE DEF k
    <3>4. QED
      BY <3>0, <3>1, <3>3, <3>5, <3>6
  <2>3. QED
    BY <1>1, <2>1, <2>2
<1>4. QED
  BY <1>2, <1>3 DEF Whole, Contiguous, s

LEMMA WholePlain ==
    ASSUME NEW S, NEW s \in Seq(S), Els(s) \cap {"read", "truncate", "write", "unwrite"} = {}
    PROVE  Whole(s)
<1>1. Len(s) \in Nat /\ \A i \in 1..Len(s) : s[i] \notin {"read", "truncate", "write", "unwrite"}
  BY LenProperties DEF Els
<1>2. QED
  BY <1>1 DEF Whole, Contiguous, Mid

LEMMA UnlinksJoined ==
    ASSUME NEW S, NEW u \in Seq(S), NEW v \in Seq(S), "unlink" \notin Els(u), UnlinksLast(v),
           v # <<>>
    PROVE  UnlinksLast(u \o v) /\ u \o v # <<>>
<1>1. /\ Len(u) \in Nat /\ Len(v) \in Nat \ {0} /\ Len(u \o v) = Len(u) + Len(v)
      /\ \A i \in 1 .. (Len(u) + Len(v)) :
             (u \o v)[i] = IF i <= Len(u) THEN u[i] ELSE v[i - Len(u)]
  BY ConcatProperties, LenProperties, EmptySeq
<1>2. ASSUME NEW i \in 1 .. (Len(u) + Len(v))
      PROVE  (u \o v)[i] = "unlink" <=> i = Len(u) + Len(v)
  <2>1. CASE i <= Len(u)
    <3>1. u[i] \in Els(u)
      BY <1>1, <2>1 DEF Els
    <3>2. QED
      BY <1>1, <2>1, <3>1
  <2>2. CASE i > Len(u)
    <3>1. i - Len(u) \in 1..Len(v) /\ (u \o v)[i] = v[i - Len(u)]
      BY <1>1, <2>2
    <3>2. v[i - Len(u)] = "unlink" <=> i - Len(u) = Len(v)
      BY <3>1 DEF UnlinksLast
    <3>3. QED
      BY <1>1, <3>1, <3>2
  <2>3. QED
    BY <1>1, <2>1, <2>2
<1>3. QED
  BY <1>1, <1>2 DEF UnlinksLast

-----------------------------------------------------------------------------
(* What run and the clean-up do *)

LEMMA ElsOne ==
    ASSUME NEW x
    PROVE  /\ <<x>> # <<>> /\ Els(<<x>>) = {x} /\ Sorted(<<x>>)
           /\ UnlinksLast(<<x>>) <=> x = "unlink"
<1> DEFINE s == <<x>>
<1>1. Len(s) = 1 /\ s[1] = x /\ s # <<>>
  OBVIOUS
<1> HIDE DEF s
<1>2. Els(s) = {x} /\ Sorted(s) /\ (UnlinksLast(s) <=> x = "unlink")
  BY <1>1 DEF Els, Sorted, UnlinksLast
<1>3. QED
  BY <1>1, <1>2 DEF s

LEMMA ElsTwo ==
    ASSUME NEW x, NEW y
    PROVE  /\ Els(<<x, y>>) = {x, y}
           /\ Rank(x) < Rank(y) => Sorted(<<x, y>>)
<1> DEFINE s == <<x, y>>
<1>1. Len(s) = 2 /\ s[1] = x /\ s[2] = y /\ 1..2 = {1, 2}
  OBVIOUS
<1> HIDE DEF s
<1>2. Els(s) = {x, y}
  BY <1>1 DEF Els
<1>3. Rank(x) < Rank(y) => Sorted(s)
  BY <1>1 DEF Sorted
<1>4. QED
  BY <1>2, <1>3 DEF s

LEMMA ElsThree ==
    ASSUME NEW x, NEW y, NEW z
    PROVE  /\ Els(<<x, y, z>>) = {x, y, z}
           /\ Rank(x) < Rank(y) /\ Rank(y) < Rank(z) /\ Rank(x) < Rank(z) =>
                  Sorted(<<x, y, z>>)
           /\ x = "read" /\ y = "truncate" /\ z \in {"write", "unwrite"} => Whole(<<x, y, z>>)
           /\ x # "unlink" /\ y # "unlink" /\ z = "unlink" => UnlinksLast(<<x, y, z>>)
<1> DEFINE s == <<x, y, z>>
<1>1. Len(s) = 3 /\ s[1] = x /\ s[2] = y /\ s[3] = z /\ 1..3 = {1, 2, 3}
  OBVIOUS
<1> HIDE DEF s
<1>2. Els(s) = {x, y, z}
  BY <1>1 DEF Els
<1>3. Rank(x) < Rank(y) /\ Rank(y) < Rank(z) /\ Rank(x) < Rank(z) => Sorted(s)
  BY <1>1 DEF Sorted
<1>4. x = "read" /\ y = "truncate" /\ z \in {"write", "unwrite"} => Whole(s)
  BY <1>1 DEF Whole, Contiguous, Mid
<1>5. x # "unlink" /\ y # "unlink" /\ z = "unlink" => UnlinksLast(s)
  BY <1>1 DEF UnlinksLast
<1>6. QED
  BY <1>2, <1>3, <1>4, <1>5 DEF s

LEMMA ElsWhen ==
    ASSUME NEW p \in BOOLEAN, NEW x, NEW S, x \in S
    PROVE  /\ When(p, <<x>>) \in Seq(S) /\ Sorted(When(p, <<x>>))
           /\ Els(When(p, <<x>>)) = IF p THEN {x} ELSE {}
<1>1. Sorted(<<>>)
  BY DEF Sorted
<1>2. <<>> \in Seq(S) /\ <<x>> \in Seq(S)
  OBVIOUS
<1>3. Els(<<x>>) = {x} /\ Sorted(<<x>>) /\ Els(<<>>) = {}
  BY ElsOne, ElsEmpty
<1>4. QED
  BY <1>1, <1>2, <1>3 DEF When

LEMMA DnsSetUp ==
    ASSUME NEW c \in Config
    PROVE  /\ SetUpDns(c) \in Seq(SetUpOps) /\ Sorted(SetUpDns(c)) /\ Whole(SetUpDns(c))
           /\ Els(SetUpDns(c)) =
                  IF c.dns THEN IF host.resolver = "resolved" THEN {"linkDns"}
                                ELSE {"read", "truncate", "write"}
                  ELSE {}
<1>1. /\ <<>> \in Seq(SetUpOps) /\ Sorted(<<>>) /\ Els(<<>>) = {}
      /\ <<"linkDns">> \in Seq(SetUpOps) /\ <<"read", "truncate", "write">> \in Seq(SetUpOps)
  BY ElsEmpty DEF Sorted, SetUpOps
<1>2. Sorted(<<"read", "truncate", "write">>) /\ Whole(<<"read", "truncate", "write">>)
  BY ElsThree DEF Rank
<1>3. Whole(<<>>)
  BY <1>1, WholePlain
<1>4. Els(<<"linkDns">>) = {"linkDns"} /\ Sorted(<<"linkDns">>)
  BY ElsOne
<1>5. Whole(<<"linkDns">>)
  BY <1>1, <1>4, WholePlain
<1>6. Els(<<"read", "truncate", "write">>) = {"read", "truncate", "write"}
  BY ElsThree
<1>7. CASE c.dns /\ host.resolver = "resolved"
  BY <1>1, <1>4, <1>5, <1>7 DEF SetUpDns, When
<1>8. CASE c.dns /\ host.resolver # "resolved"
  BY <1>1, <1>2, <1>6, <1>8 DEF SetUpDns, When
<1>9. CASE ~c.dns
  BY <1>1, <1>3, <1>9 DEF SetUpDns, When
<1>10. QED
  BY <1>7, <1>8, <1>9

LEMMA RoutingSetUp ==
    ASSUME NEW c \in Config
    PROVE  /\ SetUpRouting(c) \in Seq(SetUpOps) /\ Sorted(SetUpRouting(c))
           /\ Els(SetUpRouting(c)) =
                  {"index", "rule"}
                  \cup (IF c.full
                        THEN {"default"} \cup (IF c.disable_ipv6 THEN {"noIPv6"} ELSE {})
                             \cup (IF c.kind # "ssl" THEN {"gateway"} ELSE {})
                        ELSE {"subnets"})
                  \cup (IF c.kind # "ssl" THEN {"keepalive"} ELSE {})
<1> DEFINE head == <<"index", "rule">>
           ipv6 == When(c.disable_ipv6, <<"noIPv6">>)
           gateway == When(c.kind # "ssl", <<"gateway">>)
           keepalive == When(c.kind # "ssl", <<"keepalive">>)
           full == <<"default">> \o ipv6 \o gateway
           routes == IF c.full THEN full ELSE <<"subnets">>
           S == Seq(SetUpOps)
<1>1. SetUpRouting(c) = head \o routes \o keepalive
  BY DEF SetUpRouting
<1>2. /\ head \in S /\ Els(head) = {"index", "rule"} /\ Sorted(head)
      /\ <<"default">> \in S /\ Els(<<"default">>) = {"default"} /\ Sorted(<<"default">>)
      /\ <<"subnets">> \in S /\ Els(<<"subnets">>) = {"subnets"} /\ Sorted(<<"subnets">>)
  BY ElsOne, ElsTwo DEF Rank, SetUpOps
<1>3. c.disable_ipv6 \in BOOLEAN /\ c.full \in BOOLEAN
  BY DEF Config
<1>4. /\ ipv6 \in S /\ Sorted(ipv6) /\ Els(ipv6) = IF c.disable_ipv6 THEN {"noIPv6"} ELSE {}
      /\ gateway \in S /\ Sorted(gateway)
      /\ Els(gateway) = IF c.kind # "ssl" THEN {"gateway"} ELSE {}
      /\ keepalive \in S /\ Sorted(keepalive)
      /\ Els(keepalive) = IF c.kind # "ssl" THEN {"keepalive"} ELSE {}
  <2>1. "noIPv6" \in SetUpOps /\ "gateway" \in SetUpOps /\ "keepalive" \in SetUpOps
    BY DEF SetUpOps
  <2>2. QED
    BY <1>3, <2>1, ElsWhen
<1> HIDE DEF head, ipv6, gateway, keepalive
<1> DEFINE first == <<"default">> \o ipv6
<1>5. first \in S /\ Sorted(first) /\ Els(first) = {"default"} \cup Els(ipv6)
  <2>1. \A x \in Els(<<"default">>), y \in Els(ipv6) : Rank(x) < Rank(y)
    BY <1>2, <1>4 DEF Rank
  <2>2. Sorted(<<"default">> \o ipv6)
    BY <1>2, <1>4, <2>1, SortedJoined
  <2>3. <<"default">> \o ipv6 \in S
    BY <1>2, <1>4, Joined
  <2>5. Els(<<"default">> \o ipv6) = Els(<<"default">>) \cup Els(ipv6)
    <3> DEFINE d == <<"default">>
    <3>1. d \in S
      BY <1>2
    <3> HIDE DEF d
    <3>2. Els(d \o ipv6) = Els(d) \cup Els(ipv6)
      BY <1>4, <3>1, ElsJoined
    <3>3. QED
      BY <3>2 DEF d
  <2>4. QED
    BY <1>2, <2>2, <2>3, <2>5
<1> HIDE DEF first
<1>6. full \in S /\ Sorted(full) /\ Els(full) = Els(first) \cup Els(gateway)
  <2>1. full = first \o gateway
    BY DEF first
  <2>2. \A x \in Els(first), y \in Els(gateway) : Rank(x) < Rank(y)
    BY <1>4, <1>5 DEF Rank
  <2>3. Sorted(first \o gateway)
    BY <1>4, <1>5, <2>2, SortedJoined
  <2>4. first \o gateway \in S /\ Els(first \o gateway) = Els(first) \cup Els(gateway)
    BY <1>4, <1>5, Joined, ElsJoined
  <2>5. QED
    BY <2>1, <2>3, <2>4
<1>7. /\ routes \in S /\ Sorted(routes)
      /\ Els(routes) = IF c.full THEN {"default"} \cup (IF c.disable_ipv6 THEN {"noIPv6"} ELSE {})
                                      \cup (IF c.kind # "ssl" THEN {"gateway"} ELSE {})
                       ELSE {"subnets"}
  <2> HIDE DEF full
  <2>1. QED
    BY <1>2, <1>4, <1>5, <1>6
<1> HIDE DEF routes
<1> DEFINE most == head \o routes
<1>8. most \in S /\ Sorted(most) /\ Els(most) = Els(head) \cup Els(routes)
  <2>1. \A x \in Els(head), y \in Els(routes) : Rank(x) < Rank(y)
    BY <1>2, <1>7 DEF Rank
  <2>2. QED
    BY <1>2, <1>7, <2>1, Joined, SortedJoined, ElsJoined
<1> HIDE DEF most
<1>9. /\ SetUpRouting(c) \in S /\ Sorted(SetUpRouting(c))
      /\ Els(SetUpRouting(c)) = Els(most) \cup Els(keepalive)
  <2>1. SetUpRouting(c) = most \o keepalive
    BY <1>1 DEF most
  <2>2. \A x \in Els(most), y \in Els(keepalive) : Rank(x) < Rank(y)
    BY <1>2, <1>4, <1>7, <1>8 DEF Rank
  <2>3. QED
    BY <1>4, <1>8, <2>1, <2>2, Joined, SortedJoined, ElsJoined
<1>10. QED
  BY <1>2, <1>4, <1>7, <1>8, <1>9

\* The DNS configuration of a native tunnel is in the middle of its routing.
LEMMA Between2 ==
    ASSUME NEW S, NEW u \in Seq(S), NEW d \in Seq(S), NEW i \in 0..Len(u)
    PROVE  LET s == SubSeq(u, 1, i) \o d \o SubSeq(u, i + 1, Len(u))
           IN  /\ s \in Seq(S) /\ Els(s) = Els(u) \cup Els(d)
               /\ Whole(d) /\ Els(u) \cap {"read", "truncate", "write", "unwrite"} = {} => Whole(s)
<1> DEFINE a == SubSeq(u, 1, i)
           b == SubSeq(u, i + 1, Len(u))
<1>1. Len(u) \in Nat
  BY LenProperties
<1>2. /\ a \in Seq(S) /\ Len(a) = i
      /\ \A j \in 1..i : a[j] = u[j]
  <2>1. /\ a \in Seq(S) /\ Len(a) = IF 1 <= i THEN i - 1 + 1 ELSE 0
        /\ \A j \in 1 .. (i - 1 + 1) : a[j] = u[1 + j - 1]
    BY <1>1, SubSeqProperties
  <2> HIDE DEF a
  <2>2. QED
    BY <1>1, <2>1
<1>3. /\ b \in Seq(S) /\ Len(b) = Len(u) - i
      /\ \A j \in 1 .. (Len(u) - i) : b[j] = u[i + j]
  <2>1. /\ b \in Seq(S) /\ Len(b) = IF i + 1 <= Len(u) THEN Len(u) - (i + 1) + 1 ELSE 0
        /\ \A j \in 1 .. (Len(u) - (i + 1) + 1) : b[j] = u[(i + 1) + j - 1]
    BY <1>1, SubSeqProperties
  <2> HIDE DEF b
  <2>2. QED
    BY <1>1, <2>1
<1> HIDE DEF a, b
<1>4. Els(u) = Els(a) \cup Els(b)
  <2>1. ASSUME NEW x \in Els(u)
        PROVE  x \in Els(a) \cup Els(b)
    <3>1. PICK j \in 1..Len(u) : x = u[j]
      BY DEF Els
    <3>2. CASE j <= i
      BY <1>1, <1>2, <3>1, <3>2 DEF Els
    <3>3. CASE j > i
      <4>1. j - i \in 1..Len(b) /\ x = b[j - i]
        BY <1>1, <1>3, <3>1, <3>3
      <4>2. QED
        BY <4>1 DEF Els
    <3>4. QED
      BY <1>1, <3>1, <3>2, <3>3
  <2>2. ASSUME NEW x \in Els(a)
        PROVE  x \in Els(u)
    BY <1>1, <1>2 DEF Els
  <2>3. ASSUME NEW x \in Els(b)
        PROVE  x \in Els(u)
    <3>1. PICK j \in 1..Len(b) : x = b[j]
      BY DEF Els
    <3>2. i + j \in 1..Len(u) /\ x = u[i + j]
      BY <1>1, <1>3, <3>1
    <3>3. QED
      BY <3>2 DEF Els
  <2>4. QED
    BY <2>1, <2>2, <2>3
<1>5. a \o d \in Seq(S) /\ Els(a \o d) = Els(a) \cup Els(d)
  BY <1>2, Joined, ElsJoined
<1> DEFINE ad == a \o d
<1> HIDE DEF ad
<1>6. ad \in Seq(S) /\ Els(ad) = Els(a) \cup Els(d)
  BY <1>5 DEF ad
<1>7. ad \o b \in Seq(S) /\ Els(ad \o b) = Els(ad) \cup Els(b)
  BY <1>3, <1>6, Joined, ElsJoined
<1>8. ASSUME Whole(d), Els(u) \cap {"read", "truncate", "write", "unwrite"} = {}
      PROVE  Whole(ad \o b)
  <2>1. Whole(a) /\ Whole(b)
    BY <1>2, <1>3, <1>4, <1>8, WholePlain
  <2>2. Whole(ad)
    BY <1>2, <1>8, <2>1, WholeJoined DEF ad
  <2>3. QED
    BY <1>3, <1>6, <2>1, <2>2, WholeJoined
<1>9. QED
  BY <1>4, <1>6, <1>7, <1>8 DEF a, b, ad

LEMMA RoutingCleanUp ==
    ASSUME NEW c \in Config
    PROVE  /\ CleanUpRouting(c) \in Seq(CleanUpOps)
           /\ Els(CleanUpRouting(c)) = {"unrule"} \cup (IF c.disable_ipv6 THEN {"ipv6"} ELSE {})
                                       \cup (IF c.kind # "ssl" THEN {"unkeepalive"} ELSE {})
<1> DEFINE a == <<"unrule">>
           b == When(c.disable_ipv6, <<"ipv6">>)
           d == When(c.kind # "ssl", <<"unkeepalive">>)
           S == Seq(CleanUpOps)
<1>1. a \in S /\ Els(a) = {"unrule"}
  BY ElsOne DEF CleanUpOps
<1>2. b \in S /\ Els(b) = IF c.disable_ipv6 THEN {"ipv6"} ELSE {}
  <2>1. "ipv6" \in CleanUpOps /\ c.disable_ipv6 \in BOOLEAN
    BY DEF CleanUpOps, Config
  <2>2. QED
    BY <2>1, ElsWhen
<1>3. d \in S /\ Els(d) = IF c.kind # "ssl" THEN {"unkeepalive"} ELSE {}
  <2>1. "unkeepalive" \in CleanUpOps
    BY DEF CleanUpOps
  <2>2. QED
    BY <2>1, ElsWhen
<1>4. CleanUpRouting(c) = a \o b \o d
  BY DEF CleanUpRouting
<1> HIDE DEF a, b, d
<1> DEFINE ab == a \o b
<1>5. ab \in S /\ Els(ab) = Els(a) \cup Els(b)
  BY <1>1, <1>2, Joined, ElsJoined
<1> HIDE DEF ab
<1>6. ab \o d \in S
  BY <1>3, <1>5, Joined
<1>7. Els(ab \o d) = Els(ab) \cup Els(d)
  BY <1>3, <1>5, ElsJoined
<1>8. CleanUpRouting(c) = ab \o d
  BY <1>4 DEF ab
<1>9. QED
  BY <1>1, <1>2, <1>3, <1>5, <1>6, <1>7, <1>8

LEMMA DnsCleanUp ==
    ASSUME NEW c \in Config
    PROVE  /\ CleanUpDns(c) \in Seq(CleanUpOps) /\ Whole(CleanUpDns(c))
           /\ Els(CleanUpDns(c)) = IF c.dns /\ host.resolver = "resolv.conf"
                                   THEN {"read", "truncate", "unwrite"} ELSE {}
<1>1. /\ <<>> \in Seq(CleanUpOps) /\ Els(<<>>) = {}
      /\ <<"read", "truncate", "unwrite">> \in Seq(CleanUpOps)
  BY ElsEmpty DEF CleanUpOps
<1>2. /\ Whole(<<"read", "truncate", "unwrite">>)
      /\ Els(<<"read", "truncate", "unwrite">>) = {"read", "truncate", "unwrite"}
  BY ElsThree
<1>3. Whole(<<>>)
  BY <1>1, WholePlain
<1>4. CASE c.dns /\ host.resolver = "resolv.conf"
  BY <1>1, <1>2, <1>4 DEF CleanUpDns, When
<1>5. CASE ~(c.dns /\ host.resolver = "resolv.conf")
  BY <1>1, <1>3, <1>5 DEF CleanUpDns, When
<1>6. QED
  BY <1>4, <1>5

\* What the clean-up of t will undo, and in which order.
Undoes(s, c, routing) ==
    /\ s \in Seq(CleanUpOps) /\ s # <<>> /\ Whole(s) /\ UnlinksLast(s)
    /\ c.dns /\ host.resolver = "resolv.conf" => "unwrite" \in Els(s)
    /\ routing => /\ "unrule" \in Els(s)
                  /\ c.disable_ipv6 => "ipv6" \in Els(s)
                  /\ c.kind # "ssl" => "unkeepalive" \in Els(s)

LEMMA CleanUpLists ==
    ASSUME NEW t \in Tunnels, tunnel[t].config \in Config
    PROVE  LET c == tunnel[t].config
               s == CleanUp(t)
           IN  /\ Native(t) => /\ Undoes(s, c, TRUE)
                               /\ "unstates" \in Els(s) /\ "unpolicies" \in Els(s)
               /\ ~Native(t) /\ HasDevice(t) =>
                      Undoes(s, c, HasRouting(t)) /\ "index" \notin Els(s)
               /\ ~Native(t) /\ ~HasDevice(t) => s = <<>>
<1> DEFINE c == tunnel[t].config
           dns == CleanUpDns(c)
           routing == CleanUpRouting(c)
           maybe == When(HasRouting(t), routing)
           S == Seq(CleanUpOps)
           look == <<"index">>
           unlink == <<"unlink">>
           last == <<"unstates", "unpolicies", "unlink">>
           Plain == {"unrule", "ipv6", "unkeepalive"}
<1>1. /\ dns \in S /\ Whole(dns) /\ Els(dns) \subseteq {"read", "truncate", "unwrite"}
      /\ c.dns /\ host.resolver = "resolv.conf" => "unwrite" \in Els(dns)
  BY DnsCleanUp
<1>2. /\ routing \in S /\ Els(routing) \subseteq Plain /\ "unrule" \in Els(routing)
      /\ c.disable_ipv6 => "ipv6" \in Els(routing)
      /\ c.kind # "ssl" => "unkeepalive" \in Els(routing)
  BY RoutingCleanUp
<1>3. /\ maybe \in S /\ Els(maybe) \subseteq Plain
      /\ HasRouting(t) => /\ "unrule" \in Els(maybe)
                          /\ c.disable_ipv6 => "ipv6" \in Els(maybe)
                          /\ c.kind # "ssl" => "unkeepalive" \in Els(maybe)
  <2>1. <<>> \in S /\ Els(<<>>) = {}
    BY ElsEmpty
  <2>2. QED
    BY <1>2, <2>1 DEF When
<1>4. Whole(routing) /\ Whole(maybe)
  BY <1>2, <1>3, WholePlain
<1>5. /\ last \in S /\ Els(last) = {"unstates", "unpolicies", "unlink"} /\ UnlinksLast(last)
      /\ last # <<>>
  BY ElsThree DEF CleanUpOps
<1>6. /\ unlink \in S /\ Els(unlink) = {"unlink"} /\ UnlinksLast(unlink) /\ unlink # <<>>
      /\ look \in S /\ Els(look) = {"index"}
  BY ElsOne DEF CleanUpOps
<1>7. Whole(last) /\ Whole(unlink) /\ Whole(look)
  BY <1>5, <1>6, WholePlain
<1>8. /\ Native(t) => CleanUp(t) = dns \o look \o routing \o last
      /\ ~Native(t) /\ ~HasDevice(t) => CleanUp(t) = <<>>
      /\ c.kind = "tun" /\ HasDevice(t) => CleanUp(t) = dns \o maybe \o unlink
      /\ c.kind = "ssl" /\ HasDevice(t) => CleanUp(t) = maybe \o dns \o unlink
  BY DEF CleanUp, Native
<1>9. c.kind \in {"native", "tun", "ssl"}
  BY DEF Config, Kinds
<1> HIDE DEF dns, routing, maybe, look, unlink, last
<1>10. ASSUME Native(t)
       PROVE  /\ Undoes(CleanUp(t), c, TRUE)
              /\ "unstates" \in Els(CleanUp(t)) /\ "unpolicies" \in Els(CleanUp(t))
  <2> DEFINE a == dns \o look
             b == a \o routing
  <2>1. a \in S /\ Whole(a)
    BY <1>1, <1>6, <1>7, Joined, WholeJoined
  <2>2. Els(a) = Els(dns) \cup {"index"}
    BY <1>1, <1>6, ElsJoined
  <2> HIDE DEF a
  <2>3. b \in S /\ Whole(b)
    BY <1>2, <1>4, <2>1, Joined, WholeJoined
  <2>4. Els(b) = Els(a) \cup Els(routing)
    BY <1>2, <2>1, ElsJoined
  <2> HIDE DEF b
  <2>5. b \o last \in S /\ Whole(b \o last)
    BY <1>5, <1>7, <2>3, Joined, WholeJoined
  <2>6. Els(b \o last) = Els(b) \cup Els(last)
    BY <1>5, <2>3, ElsJoined
  <2>7. UnlinksLast(b \o last) /\ b \o last # <<>>
    <3>1. "unlink" \notin Els(b)
      BY <1>1, <1>2, <2>2, <2>4
    <3>2. QED
      BY <1>5, <2>3, <3>1, UnlinksJoined
  <2>8. CleanUp(t) = b \o last
    BY <1>8, <1>10 DEF a, b
  <2>9. QED
    BY <1>1, <1>2, <1>5, <2>2, <2>4, <2>5, <2>6, <2>7, <2>8 DEF Undoes
<1>11. ASSUME ~Native(t), HasDevice(t)
       PROVE  Undoes(CleanUp(t), c, HasRouting(t)) /\ "index" \notin Els(CleanUp(t))
  <2> DEFINE a == IF c.kind = "tun" THEN dns \o maybe ELSE maybe \o dns
  <2>1. dns \o maybe \in S /\ maybe \o dns \in S
    BY <1>1, <1>3, Joined
  <2>2. Whole(dns \o maybe) /\ Whole(maybe \o dns)
    BY <1>1, <1>3, <1>4, WholeJoined
  <2>3. Els(dns \o maybe) = Els(dns) \cup Els(maybe) /\ Els(maybe \o dns) = Els(dns) \cup Els(maybe)
    BY <1>1, <1>3, ElsJoined
  <2>4. a \in S /\ Whole(a) /\ Els(a) = Els(dns) \cup Els(maybe)
    BY <2>1, <2>2, <2>3
  <2>5. CleanUp(t) = a \o unlink
    BY <1>8, <1>9, <1>11 DEF Native
  <2> HIDE DEF a
  <2>6. a \o unlink \in S /\ Whole(a \o unlink)
    BY <1>6, <1>7, <2>4, Joined, WholeJoined
  <2>7. Els(a \o unlink) = Els(a) \cup {"unlink"}
    BY <1>6, <2>4, ElsJoined
  <2>8. UnlinksLast(a \o unlink) /\ a \o unlink # <<>>
    <3>1. "unlink" \notin Els(a)
      BY <1>1, <1>3, <2>4
    <3>2. QED
      BY <1>6, <2>4, <3>1, UnlinksJoined
  <2>9. Els(CleanUp(t)) = Els(dns) \cup Els(maybe) \cup {"unlink"}
    BY <2>4, <2>5, <2>7
  <2>10. "index" \notin Els(CleanUp(t))
    BY <1>1, <1>3, <2>9
  <2>11. Undoes(CleanUp(t), c, HasRouting(t))
    <3>1. /\ CleanUp(t) \in S /\ CleanUp(t) # <<>> /\ Whole(CleanUp(t))
          /\ UnlinksLast(CleanUp(t))
      BY <2>5, <2>6, <2>8
    <3>2. Els(dns) \subseteq Els(CleanUp(t)) /\ Els(maybe) \subseteq Els(CleanUp(t))
      BY <2>9
    <3>3. QED
      BY <1>1, <1>3, <3>1, <3>2 DEF Undoes
  <2>12. QED
    BY <2>10, <2>11
<1>12. QED
  BY <1>8, <1>10, <1>11

-----------------------------------------------------------------------------
(* The lists that run and the clean-up leave *)

LEMMA LeftIs ==
    ASSUME Kept, NEW t \in Tunnels
    PROVE  Left(t) = Els(tunnel[t].todo) /\ tunnel[t].todo \in Seq(Ops)
<1>1. tunnel[t].todo \in Seq(Ops)
  BY DEF Kept, Typed, Object
<1>2. DOMAIN tunnel[t].todo = 1..Len(tunnel[t].todo)
  BY <1>1, LenProperties
<1>3. QED
  BY <1>1, <1>2 DEF Left, Els

\* What is left of a sorted list has a higher rank.
LEMMA RankLeft ==
    ASSUME NEW S, NEW s \in Seq(S), s # <<>>, Sorted(s)
    PROVE  /\ \A x \in Els(s) : x = Head(s) \/ Rank(x) > Rank(Head(s))
           /\ \A x \in Els(Tail(s)) : Rank(x) > Rank(Head(s))
           /\ Tail(s) # <<>> => /\ Rank(Head(Tail(s))) > Rank(Head(s))
                               /\ Head(Tail(s)) # "device"
           /\ Rank(Head(s)) \in 1..12
<1>1. /\ Tail(s) \in Seq(S) /\ Len(s) \in Nat \ {0} /\ Len(Tail(s)) = Len(s) - 1
      /\ Head(s) = s[1] /\ \A i \in 1..Len(Tail(s)) : Tail(s)[i] = s[1 + i]
      /\ Tail(s) # <<>> => Len(s) > 1 /\ Head(Tail(s)) = s[2]
  BY TailIsRest
<1>2. \A i \in 2..Len(s) : Rank(s[1]) < Rank(s[i])
  BY <1>1 DEF Sorted
<1>3. \A x : Rank(x) \in 1..12
  BY DEF Rank
<1>4. ASSUME NEW x \in Els(Tail(s))
      PROVE  Rank(x) > Rank(Head(s))
  <2>1. PICK i \in 1..Len(Tail(s)) : x = Tail(s)[i]
    BY DEF Els
  <2>2. x = s[1 + i] /\ 1 + i \in 2..Len(s)
    BY <1>1, <2>1
  <2>3. QED
    BY <1>1, <1>2, <1>3, <2>2
<1>5. Tail(s) # <<>> => /\ Rank(Head(Tail(s))) > Rank(Head(s))
                        /\ Head(Tail(s)) # "device"
  <2> SUFFICES ASSUME Tail(s) # <<>>
               PROVE  /\ Rank(Head(Tail(s))) > Rank(Head(s))
                      /\ Head(Tail(s)) # "device"
    OBVIOUS
  <2>1. Rank(s[1]) < Rank(s[2]) /\ Head(Tail(s)) = s[2] /\ Head(s) = s[1]
    BY <1>1, <1>2
  <2>2. s[2] # "device"
    <3>1. s[2] = "device" => Rank(s[2]) = 1
      BY DEF Rank
    <3>2. QED
      BY <1>3, <2>1, <3>1
  <2>3. QED
    BY <2>1, <2>2
<1>6. \A x \in Els(s) : x = Head(s) \/ Rank(x) > Rank(Head(s))
  BY <1>4, ElsTail
<1>7. QED
  BY <1>3, <1>4, <1>5, <1>6

\* The device of a TUN tunnel that has come that far is stored, and so is its routing.
LEMMA Stored ==
    ASSUME Kept, InOrder, NEW t \in Tunnels, tunnel[t].phase \in {"settingUp", "up"}
    PROVE  LET s == tunnel[t].todo
           IN  /\ tunnel[t].phase = "up" \/ s = <<>> => HasDevice(t) /\ HasRouting(t)
               /\ tunnel[t].phase = "settingUp" /\ ~Native(t) /\ s # <<>> =>
                      /\ HasDevice(t) <=> Op(t) \notin {"device", "address"}
                      /\ Op(t) \in DnsOps => HasRouting(t)
<1> DEFINE s == tunnel[t].todo
<1>1. Left(t) = Els(s) /\ s \in Seq(Ops) /\ Ordered(tunnel[t], host.resolver)
  BY LeftIs DEF InOrder
<1>2. CASE tunnel[t].phase = "up"
  <2>1. s \in Seq({"newOut", "newIn", "oldOut", "oldIn", "move", "leave"})
    <3> DEFINE R == {"newOut", "newIn", "oldOut", "oldIn", "move", "leave"}
    <3>1. s \in Moving \cup Adding \cup Completing \cup Deleting
      BY <1>2 DEF Kept, Staged, Stage
    <3>2. Moving \subseteq Seq(R)
      BY DEF Moving
    <3>3. Adding \subseteq Seq(R)
      BY DEF Adding
    <3>4. Completing \subseteq Seq(R)
      BY DEF Completing
    <3>5. Deleting \subseteq Seq(R)
      BY DEF Deleting
    <3>6. QED
      BY <3>1, <3>2, <3>3, <3>4, <3>5
  <2>2. Els(s) \subseteq {"newOut", "newIn", "oldOut", "oldIn", "move", "leave"}
    BY <2>1, ElementOfSeq DEF Els
  <2>3. QED
    BY <1>1, <1>2, <2>2 DEF HasDevice, HasRouting
<1>3. CASE s = <<>>
  BY <1>1, <1>3, ElsEmpty DEF HasDevice, HasRouting
<1>4. CASE tunnel[t].phase = "settingUp" /\ ~Native(t) /\ s # <<>>
  <2>1. Sorted(s)
    BY <1>1, <1>4 DEF Ordered, IsNative, Native
  <2>2. \A x \in Els(s) : x = Op(t) \/ Rank(x) > Rank(Op(t))
    BY <1>1, <1>4, <2>1, RankLeft DEF Op
  <2>3. Op(t) \in Els(s) /\ Op(t) \in SetUpOps
    BY <1>1, <1>4, ElsTail, Busy DEF Op
  <2>4. Op(t) \notin {"device", "address"} => HasDevice(t)
    BY <1>1, <2>2, <2>3 DEF HasDevice, Rank, SetUpOps
  <2>5. Op(t) \in {"device", "address"} => ~HasDevice(t)
    BY <1>1, <2>3 DEF HasDevice
  <2>6. Op(t) \in DnsOps => HasRouting(t)
    BY <1>1, <2>2 DEF HasRouting, Rank, DnsOps
  <2>7. QED
    BY <1>1, <1>4, <2>4, <2>5, <2>6
<1>5. QED
  BY <1>2, <1>3, <1>4

LEMMA EmptyInOrder == Contiguous(<<>>) /\ UnlinksLast(<<>>) /\ Sorted(<<>>)
<1> DEFINE s == <<>>
<1>1. Len(s) = 0
  OBVIOUS
<1> HIDE DEF s
<1>2. Contiguous(s) /\ UnlinksLast(s) /\ Sorted(s)
  BY <1>1 DEF Contiguous, UnlinksLast, Sorted
<1>3. QED
  BY <1>2 DEF s

\* What a tunnel that is dropped will undo.
LEMMA Drops ==
    ASSUME Kept, NEW t \in Tunnels, tunnel[t].config \in Config
    PROVE  LET w == Dropped(t)
               c == tunnel[t].config
           IN  /\ w.phase = "dropped" /\ w.config = c /\ w.key = tunnel[t].key
               /\ Ordered(w, host.resolver) /\ ~Between(w)
               /\ Native(t) => /\ Undoes(w.todo, c, TRUE)
                               /\ "unstates" \in Els(w.todo) /\ "unpolicies" \in Els(w.todo)
               /\ ~Native(t) /\ HasDevice(t) => Undoes(w.todo, c, HasRouting(t))
               /\ ~Native(t) /\ ~HasDevice(t) => w.todo = <<>>
<1> DEFINE w == Dropped(t)
           c == tunnel[t].config
<1>1. w.phase = "dropped" /\ w.config = c /\ w.key = tunnel[t].key /\ w.todo = CleanUp(t)
  BY DEF Dropped, InitTunnel
<1>2. /\ Native(t) => /\ Undoes(w.todo, c, TRUE)
                      /\ "unstates" \in Els(w.todo) /\ "unpolicies" \in Els(w.todo)
      /\ ~Native(t) /\ HasDevice(t) =>
             Undoes(w.todo, c, HasRouting(t)) /\ "index" \notin Els(w.todo)
      /\ ~Native(t) /\ ~HasDevice(t) => w.todo = <<>>
  BY <1>1, CleanUpLists
<1> HIDE DEF w
<1>3. ASSUME w.todo = <<>>
      PROVE  Ordered(w, host.resolver) /\ ~Between(w)
  <2>1. Ordered(w, host.resolver)
    BY <1>1, <1>3, EmptyInOrder, ElsEmpty DEF Ordered
  <2>2. ~Between(w)
    BY <1>3 DEF Between
  <2>3. QED
    BY <2>1, <2>2
<1>4. ASSUME w.todo # <<>>
      PROVE  Ordered(w, host.resolver) /\ ~Between(w)
  <2>1. /\ w.todo \in Seq(CleanUpOps) /\ Whole(w.todo) /\ UnlinksLast(w.todo)
        /\ ~Native(t) => "index" \notin Els(w.todo)
    BY <1>2, <1>4 DEF Undoes
  <2>2. Len(w.todo) > 0 /\ Head(w.todo) = w.todo[1]
    BY <1>4, <2>1, TailIsRest
  <2>3. Ordered(w, host.resolver)
    BY <1>1, <2>1 DEF Ordered, Whole, IsNative, Native
  <2>4. ~Between(w)
    BY <2>1, <2>2 DEF Between, Whole
  <2>5. QED
    BY <2>3, <2>4
<1>5. Ordered(w, host.resolver) /\ ~Between(w)
  BY <1>3, <1>4
<1>6. QED
  BY <1>1, <1>2, <1>5 DEF w

\* What run has to do.
LEMMA Runs ==
    ASSUME Kept, NEW t \in Tunnels, Run(t)
    PROVE  LET w == tunnel'[t]
               c == tunnel[t].config
           IN  /\ w.phase = "settingUp" /\ w.config = c /\ w.key = tunnel[t].key
               /\ w.address = tunnel[t].address
               /\ Ordered(w, host.resolver) /\ ~Between(w)
               /\ w.todo \in Seq(SetUpOps) /\ w.todo # <<>>
               /\ Needed(c, host.resolver) \subseteq Els(w.todo)
               /\ Native(t) => Els(w.todo) \cap {"device", "address"} = {}
               /\ ~Native(t) => Head(w.todo) = "device" /\ "address" \in Els(w.todo)
<1> DEFINE c == tunnel[t].config
           R == SetUpRouting(c)
           D == SetUpDns(c)
           A == <<"device", "address">>
           native(i) == SubSeq(R, 1, i) \o D \o SubSeq(R, i + 1, Len(R))
           tun == A \o R \o D
           w == tunnel'[t]
<1>1. /\ tunnel[t] \in Object /\ tunnel \in [Tunnels -> Object] /\ c \in Config
  BY HostAssumption DEF Kept, Typed, Run, Staged, Stage
<1>2. /\ R \in Seq(SetUpOps) /\ Sorted(R)
      /\ Els(R) = {"index", "rule"}
                  \cup (IF c.full
                        THEN {"default"} \cup (IF c.disable_ipv6 THEN {"noIPv6"} ELSE {})
                             \cup (IF c.kind # "ssl" THEN {"gateway"} ELSE {})
                        ELSE {"subnets"})
                  \cup (IF c.kind # "ssl" THEN {"keepalive"} ELSE {})
  BY <1>1, RoutingSetUp
<1>3. /\ D \in Seq(SetUpOps) /\ Sorted(D) /\ Whole(D)
      /\ Els(D) = IF c.dns THEN IF host.resolver = "resolved" THEN {"linkDns"}
                                ELSE {"read", "truncate", "write"}
                  ELSE {}
  BY <1>1, DnsSetUp
<1>4. \/ /\ Native(t)
         /\ \E i \in 0..Len(R) :
                tunnel' = [tunnel EXCEPT ![t].phase = "settingUp", ![t].todo = native(i)]
      \/ ~Native(t) /\ tunnel' = [tunnel EXCEPT ![t].phase = "settingUp", ![t].todo = tun]
  BY DEF Run, Native
<1> HIDE DEF R, D
<1>5. /\ Els(R) \cap {"read", "truncate", "write", "unwrite"} = {}
      /\ Els(R) \cap {"device", "address"} = {} /\ Els(D) \cap {"device", "address"} = {}
  BY <1>2, <1>3
<1>6. /\ Needed(c, host.resolver) \subseteq Els(R) \cup Els(D)
      /\ (Els(R) \cup Els(D)) \cap Marks \subseteq Needed(c, host.resolver)
  BY <1>2, <1>3 DEF Needed, Marks
<1>7. ASSUME NEW i \in 0..Len(R)
      PROVE  /\ native(i) \in Seq(SetUpOps) /\ Els(native(i)) = Els(R) \cup Els(D)
             /\ Whole(native(i))
  <2> DEFINE n == native(i)
  <2>1. R \in Seq(SetUpOps) /\ D \in Seq(SetUpOps) /\ i \in 0..Len(R)
    BY <1>2, <1>3, <1>7
  <2>2. /\ n \in Seq(SetUpOps) /\ Els(n) = Els(R) \cup Els(D)
        /\ Whole(D) /\ Els(R) \cap {"read", "truncate", "write", "unwrite"} = {} => Whole(n)
    BY <2>1, Between2
  <2> HIDE DEF n
  <2>3. n \in Seq(SetUpOps) /\ Els(n) = Els(R) \cup Els(D) /\ Whole(n)
    BY <1>3, <1>5, <2>2
  <2>4. QED
    BY <2>3 DEF n
<1>8. /\ tun \in Seq(SetUpOps) /\ Els(tun) = {"device", "address"} \cup Els(R) \cup Els(D)
      /\ Whole(tun) /\ Sorted(tun) /\ Len(tun) > 0 /\ tun[1] = "device"
  <2>1. /\ A \in Seq(SetUpOps) /\ Els(A) = {"device", "address"} /\ Sorted(A)
        /\ Len(A) = 2 /\ A[1] = "device"
    BY ElsTwo DEF SetUpOps, Rank
  <2> HIDE DEF A
  <2> DEFINE AR == A \o R
  <2>2. AR \in Seq(SetUpOps)
    BY <1>2, <2>1, Joined
  <2>3. Els(AR) = {"device", "address"} \cup Els(R)
    BY <1>2, <2>1, ElsJoined
  <2>4. Sorted(AR)
    <3>1. \A x \in Els(A), y \in Els(R) : Rank(x) < Rank(y)
      BY <1>2, <2>1 DEF Rank
    <3>2. QED
      BY <1>2, <2>1, <3>1, SortedJoined
  <2>5. Len(AR) \in Nat /\ Len(AR) > 0 /\ AR[1] = "device"
    <3>1. /\ Len(AR) = Len(A) + Len(R)
          /\ \A i \in 1 .. (Len(A) + Len(R)) : AR[i] = IF i <= Len(A) THEN A[i] ELSE R[i - Len(A)]
      <4>1. A \in Seq(SetUpOps) /\ R \in Seq(SetUpOps)
        BY <1>2, <2>1
      <4>2. QED
        BY <4>1, ConcatProperties
    <3>2. Len(R) \in Nat
      BY <1>2, LenProperties
    <3> HIDE DEF AR
    <3>3. QED
      BY <2>1, <3>1, <3>2
  <2>6. Whole(AR)
    BY <1>5, <2>2, <2>3, WholePlain
  <2> HIDE DEF AR
  <2>7. AR \o D \in Seq(SetUpOps)
    BY <1>3, <2>2, Joined
  <2>8. Els(AR \o D) = Els(AR) \cup Els(D)
    BY <1>3, <2>2, ElsJoined
  <2>9. Whole(AR \o D)
    BY <1>3, <2>2, <2>6, WholeJoined
  <2>10. Sorted(AR \o D)
    <3>1. \A x \in Els(AR), y \in Els(D) : Rank(x) < Rank(y)
      BY <1>2, <1>3, <2>3 DEF Rank
    <3>2. QED
      BY <1>3, <2>2, <2>4, <3>1, SortedJoined
  <2>11. Len(AR \o D) > 0 /\ (AR \o D)[1] = "device"
    <3>1. /\ Len(AR \o D) = Len(AR) + Len(D)
          /\ \A i \in 1 .. (Len(AR) + Len(D)) :
                 (AR \o D)[i] = IF i <= Len(AR) THEN AR[i] ELSE D[i - Len(AR)]
      BY <1>3, <2>2, ConcatProperties
    <3>2. Len(D) \in Nat
      BY <1>3, LenProperties
    <3>3. QED
      BY <2>5, <3>1, <3>2
  <2>12. tun = AR \o D
    BY DEF AR
  <2> HIDE DEF tun
  <2>13. QED
    BY <2>3, <2>7, <2>8, <2>9, <2>10, <2>11, <2>12
<1> HIDE DEF native, tun
<1>9. PICK s \in Seq(SetUpOps) :
          /\ tunnel' = [tunnel EXCEPT ![t].phase = "settingUp", ![t].todo = s]
          /\ Els(s) \cap Marks \subseteq Needed(c, host.resolver)
          /\ Needed(c, host.resolver) \subseteq Els(s)
          /\ Whole(s)
          /\ Native(t) => Els(s) \cap {"device", "address"} = {}
          /\ ~Native(t) => Sorted(s) /\ s[1] = "device" /\ "address" \in Els(s)
  <2>1. CASE Native(t)
    BY <1>4, <1>5, <1>6, <1>7, <2>1
  <2>2. CASE ~Native(t)
    <3>1. {"device", "address"} \cap Marks = {}
      BY DEF Marks
    <3>2. QED
      BY <1>4, <1>6, <1>8, <2>2, <3>1
  <2>3. QED
    BY <2>1, <2>2
<1>10. /\ w.phase = "settingUp" /\ w.config = c /\ w.key = tunnel[t].key
       /\ w.address = tunnel[t].address /\ w.todo = s
  BY <1>1, <1>9 DEF Object
<1>11. s # <<>> /\ Len(s) > 0 /\ Head(s) = s[1]
  <2>1. "rule" \in Els(s)
    BY <1>9 DEF Needed
  <2>2. s # <<>>
    BY <2>1, ElsEmpty
  <2>3. QED
    BY <2>2, TailIsRest
<1> HIDE DEF w
<1>12. Ordered(w, host.resolver)
  BY <1>9, <1>10, <1>11 DEF Ordered, Whole, IsNative, Native
<1>13. ~Between(w)
  BY <1>9, <1>10, <1>11 DEF Between, Whole
<1>14. QED
  BY <1>9, <1>10, <1>11, <1>12, <1>13 DEF w

-----------------------------------------------------------------------------
(* What an operation changes *)

LinkOps == {"link", "device", "address", "move", "leave", "linkDns", "unlink"}

LEMMA NewLink ==
    ASSUME NEW t
    PROVE  [NoLink EXCEPT !.owner = t] = [owner |-> t, addresses |-> {}, dns |-> FALSE]
<1> DEFINE n == [owner |-> None, addresses |-> {}, dns |-> FALSE]
<1>1. NoLink = n /\ n.addresses = {} /\ n.dns = FALSE
  BY DEF NoLink
<1>2. n \in [owner : {None}, addresses : {{}}, dns : {FALSE}]
  OBVIOUS
<1> HIDE DEF n
<1>3. [n EXCEPT !.owner = t] = [owner |-> t, addresses |-> n.addresses, dns |-> n.dns]
  BY <1>2
<1>4. QED
  BY <1>1, <1>3

\* The links of the host.
LEMMA LinksAfter ==
    ASSUME Kept, NEW t \in Tunnels, Operation(t)
    PROVE  LET l == Link(t)
               Becomes(m) == host'.links = [host.links EXCEPT ![Device(t)] = m]
           IN  /\ Op(t) \notin LinkOps => host'.links = host.links
               /\ Op(t) = "link" /\ l # NoLink => host'.links = host.links
               /\ Op(t) = "device" => l = NoLink
               /\ Op(t) \in {"link", "device"} /\ l = NoLink =>
                      Becomes([owner |-> t, addresses |-> {}, dns |-> FALSE])
               /\ Op(t) \in {"address", "move"} =>
                      Becomes([owner |-> l.owner, addresses |-> l.addresses \cup {tunnel[t].address},
                               dns |-> l.dns])
               /\ Op(t) = "leave" =>
                      Becomes([owner |-> l.owner, addresses |-> l.addresses \ {tunnel[t].other},
                               dns |-> l.dns])
               /\ Op(t) = "linkDns" =>
                      Becomes([owner |-> l.owner, addresses |-> l.addresses, dns |-> TRUE])
               /\ Op(t) = "unlink" => Becomes(NoLink)
               /\ Op(t) \in {"address", "move", "leave", "linkDns", "index"} =>
                      l # NoLink /\ l.owner \in Tunnels
               /\ Op(t) \in RouteOps => l.owner = tunnel[t].index
<1> DEFINE l == Link(t)
           d == Device(t)
<1>1. /\ tunnel[t].todo # <<>> /\ CanDo(t) /\ host \in Host /\ LinksOwned /\ d \in Devices
  BY Done, Busy DEF Kept, Typed
<1>2. /\ host.links \in [Devices -> LinkType] /\ l = host.links[d] /\ l \in LinkType
  BY <1>1, HostParts DEF Link
<1>3. Op(t) = "device" => l = NoLink
  BY <1>1 DEF CanDo
<1>4. /\ Op(t) \in {"address", "move", "leave", "linkDns", "index"} => l # NoLink /\ l.owner \in Tunnels
      /\ Op(t) \in RouteOps => l.owner = tunnel[t].index
  <2>1. Op(t) \in {"address", "move", "leave", "linkDns", "index"} => l # NoLink
    BY <1>1 DEF CanDo, NoLink
  <2>2. l # NoLink => l.owner \in Tunnels
    BY <1>1, LinkKept
  <2>3. Op(t) \in RouteOps => l.owner = tunnel[t].index
    BY <1>1 DEF CanDo, RouteOps
  <2>4. QED
    BY <2>1, <2>2, <2>3
<1>5. Op(t) \notin LinkOps => host'.links = host.links
  <2> SUFFICES ASSUME Op(t) \notin LinkOps
               PROVE  host'.links = host.links
    OBVIOUS
  <2>1. \/ AddStates(t) \/ AddPolicies(t) \/ FindDevice(t) \/ AddRules(t) \/ AddRoute(t)
        \/ SwitchIPv6(t) \/ ReadConf(t) \/ WriteConf(t) \/ ReplaceStates(t) \/ RemoveRules(t)
        \/ DeleteStates(t)
    BY DEF Operation, LinkOps, Do, AddLink, OpenDevice, ConfigureDevice, SetLinkDns,
           ReplaceAddress, DeleteDevice
  <2>2. CASE AddStates(t) \/ AddPolicies(t) \/ ReplaceStates(t) \/ DeleteStates(t)
    BY <1>1, <2>2, HostParts DEF AddStates, AddPolicies, ReplaceStates, DeleteStates, Do
  <2>3. CASE FindDevice(t) \/ AddRules(t) \/ AddRoute(t) \/ SwitchIPv6(t)
    BY <1>1, <2>3, HostParts DEF FindDevice, AddRules, AddRoute, SwitchIPv6, Do
  <2>4. CASE ReadConf(t) \/ WriteConf(t) \/ RemoveRules(t)
    BY <1>1, <2>4, HostParts DEF ReadConf, WriteConf, RemoveRules, Do
  <2>5. QED
    BY <2>1, <2>2, <2>3, <2>4
<1>6. CASE Op(t) \in {"link", "device"}
  <2>1. AddLink(t) \/ OpenDevice(t)
    BY <1>6 DEF Operation, Do, AddLink, OpenDevice, ConfigureDevice, AddStates, AddPolicies,
       FindDevice, AddRules, AddRoute, SwitchIPv6, SetLinkDns, ReadConf, WriteConf,
       ReplaceStates, ReplaceAddress, RemoveRules, DeleteStates, DeleteDevice
  <2>2. /\ Op(t) = "link" /\ l # NoLink => host' = host
        /\ l = NoLink => host' = [host EXCEPT !.links[d] = [NoLink EXCEPT !.owner = t]]
    BY <1>3, <2>1 DEF AddLink, OpenDevice, Do
  <2> DEFINE m == [NoLink EXCEPT !.owner = t]
  <2>3. m = [owner |-> t, addresses |-> {}, dns |-> FALSE]
    BY NewLink
  <2> HIDE DEF m
  <2>4. l = NoLink => host'.links = [host.links EXCEPT ![d] = m]
    BY <1>1, <2>2, HostParts DEF m
  <2>5. QED
    BY <1>3, <1>6, <2>2, <2>3, <2>4 DEF LinkOps, RouteOps
<1>7. CASE Op(t) \in {"address", "move", "leave"}
  <2>1. ConfigureDevice(t) \/ ReplaceAddress(t)
    BY <1>7 DEF Operation, Do, AddLink, OpenDevice, ConfigureDevice, AddStates, AddPolicies,
       FindDevice, AddRules, AddRoute, SwitchIPv6, SetLinkDns, ReadConf, WriteConf,
       ReplaceStates, ReplaceAddress, RemoveRules, DeleteStates, DeleteDevice
  <2>2. /\ Op(t) \in {"address", "move"} =>
               host' = [host EXCEPT !.links[d].addresses = @ \cup {tunnel[t].address}]
        /\ Op(t) = "leave" =>
               host' = [host EXCEPT !.links[d].addresses = @ \ {tunnel[t].other}]
    BY <2>1 DEF ConfigureDevice, ReplaceAddress, Do
  <2>3. /\ Op(t) \in {"address", "move"} =>
               host' = [host EXCEPT !.links[d] =
                          [owner |-> l.owner, addresses |-> l.addresses \cup {tunnel[t].address},
                           dns |-> l.dns]]
        /\ Op(t) = "leave" =>
               host' = [host EXCEPT !.links[d] =
                          [owner |-> l.owner, addresses |-> l.addresses \ {tunnel[t].other},
                           dns |-> l.dns]]
    <3>1. \A x : [host.links[d] EXCEPT !.addresses = x]
                     = [owner |-> l.owner, addresses |-> x, dns |-> l.dns]
      BY <1>2, LinkFields
    <3>2. host.links[d].addresses = l.addresses
      BY <1>2
    <3> HIDE DEF l, d
    <3>3. QED
      BY <2>2, <3>1, <3>2
  <2>4. \A m : host' = [host EXCEPT !.links[d] = m] => host'.links = [host.links EXCEPT ![d] = m]
    BY <1>1, HostParts
  <2> DEFINE m1 == [owner |-> l.owner, addresses |-> l.addresses \cup {tunnel[t].address},
                    dns |-> l.dns]
             m2 == [owner |-> l.owner, addresses |-> l.addresses \ {tunnel[t].other},
                    dns |-> l.dns]
  <2>5. /\ Op(t) \in {"address", "move"} => host'.links = [host.links EXCEPT ![d] = m1]
        /\ Op(t) = "leave" => host'.links = [host.links EXCEPT ![d] = m2]
    <3> HIDE DEF m1, m2
    <3>1. /\ Op(t) \in {"address", "move"} => host' = [host EXCEPT !.links[d] = m1]
          /\ Op(t) = "leave" => host' = [host EXCEPT !.links[d] = m2]
      BY <2>3 DEF m1, m2
    <3>2. QED
      BY <2>4, <3>1
  <2>6. QED
    BY <1>4, <1>7, <2>5 DEF LinkOps, RouteOps
<1>8. CASE Op(t) = "linkDns"
  <2>1. SetLinkDns(t)
    BY <1>8 DEF Operation, Do, AddLink, OpenDevice, ConfigureDevice, AddStates, AddPolicies,
       FindDevice, AddRules, AddRoute, SwitchIPv6, SetLinkDns, ReadConf, WriteConf,
       ReplaceStates, ReplaceAddress, RemoveRules, DeleteStates, DeleteDevice
  <2>2. host' = [host EXCEPT !.links[d].dns = TRUE]
    BY <2>1 DEF SetLinkDns, Do
  <2> DEFINE m == [owner |-> l.owner, addresses |-> l.addresses, dns |-> TRUE]
  <2>3. host' = [host EXCEPT !.links[d] = m]
    <3>1. [host.links[d] EXCEPT !.dns = TRUE] = m
      BY <1>2, LinkFields
    <3> HIDE DEF m, d
    <3>2. QED
      BY <2>2, <3>1
  <2> HIDE DEF m
  <2>4. host'.links = [host.links EXCEPT ![d] = m]
    BY <1>1, <2>3, HostParts
  <2>5. QED
    BY <1>4, <1>8, <2>4 DEF LinkOps, RouteOps, m
<1>9. CASE Op(t) = "unlink"
  <2>1. DeleteDevice(t)
    BY <1>9 DEF Operation, Do, AddLink, OpenDevice, ConfigureDevice, AddStates, AddPolicies,
       FindDevice, AddRules, AddRoute, SwitchIPv6, SetLinkDns, ReadConf, WriteConf,
       ReplaceStates, ReplaceAddress, RemoveRules, DeleteStates, DeleteDevice
  <2>2. host' = Unlinked(d)
    BY <2>1 DEF DeleteDevice, Do
  <2>3. host'.links = [host.links EXCEPT ![d] = NoLink]
    BY <1>1, <2>2, HostParts DEF Unlinked
  <2>4. QED
    BY <1>9, <2>3 DEF LinkOps, RouteOps
<1>10. QED
  BY <1>3, <1>4, <1>5, <1>6, <1>7, <1>8, <1>9 DEF LinkOps

\* Everything else on the host, but for the xfrm tables.
LEMMA TablesAfter ==
    ASSUME Kept, NEW t \in Tunnels, Operation(t)
    PROVE  /\ host'.resolver = host.resolver
           /\ Op(t) \notin RouteOps \cup {"unlink"} => host'.routes = host.routes
           /\ Op(t) \in RouteOps =>
                  host'.routes = IF \E r \in host.routes : r.destination = Op(t) THEN host.routes
                                 ELSE host.routes
                                      \cup {[destination |-> Op(t), owner |-> tunnel[t].index]}
           /\ Op(t) = "unlink" =>
                  host'.routes = {r \in host.routes : r.owner # Link(t).owner}
           /\ host'.rules = CASE Op(t) = "rule" -> host.rules \cup {Exclusion(t)}
                              [] Op(t) = "keepalive" -> host.rules \cup {Keepalive(t)}
                              [] Op(t) = "unrule" -> host.rules \ {Exclusion(t)}
                              [] Op(t) = "unkeepalive" -> host.rules \ {Keepalive(t)}
                              [] OTHER -> host.rules
           /\ host'.no_ipv6 = CASE Op(t) = "noIPv6" -> TRUE
                                [] Op(t) = "ipv6" -> FALSE
                                [] OTHER -> host.no_ipv6
           /\ Op(t) \notin Mid => host'.conf = host.conf
           /\ Op(t) = "truncate" => host'.conf.others = FALSE /\ host'.conf.vpn = {}
           /\ Op(t) \in {"write", "unwrite"} => host'.conf.others = tunnel[t].conf.others
           /\ Op(t) = "write" => host'.conf.vpn = tunnel[t].conf.vpn \cup {Gateway(t)}
           /\ Op(t) = "unwrite" => host'.conf.vpn = tunnel[t].conf.vpn \ {Gateway(t)}
<1>1. /\ tunnel[t].todo # <<>> /\ host \in Host /\ tunnel[t] \in Object
  BY Done DEF Kept, Typed
<1> DEFINE P == {"out", "in", "policies", "newOut", "newIn", "oldOut", "oldIn", "unstates",
                 "unpolicies", "index", "read"} \cup (LinkOps \ {"unlink"})
<1>2. CASE Op(t) \in P
  <2>1. \/ AddLink(t) \/ OpenDevice(t) \/ ConfigureDevice(t) \/ AddStates(t) \/ AddPolicies(t)
        \/ FindDevice(t) \/ SetLinkDns(t) \/ ReadConf(t) \/ ReplaceStates(t)
        \/ ReplaceAddress(t) \/ DeleteStates(t)
    BY <1>2 DEF Operation, LinkOps, Do, AddRules, AddRoute, SwitchIPv6, WriteConf, RemoveRules,
       DeleteDevice
  <2> DEFINE Same == /\ host'.resolver = host.resolver /\ host'.routes = host.routes
                     /\ host'.rules = host.rules /\ host'.no_ipv6 = host.no_ipv6
                     /\ host'.conf = host.conf
  <2>2. CASE AddLink(t) \/ OpenDevice(t) \/ ConfigureDevice(t) \/ SetLinkDns(t) \/ ReplaceAddress(t)
    <3>1. \/ host' = host
          \/ \E m : host' = [host EXCEPT !.links = m]
      BY <2>2 DEF AddLink, OpenDevice, ConfigureDevice, SetLinkDns, ReplaceAddress, Do
    <3>2. QED
      BY <1>1, <3>1, <1>2, HostParts DEF LinkOps, RouteOps, Mid
  <2>3. CASE AddStates(t) \/ AddPolicies(t) \/ ReplaceStates(t) \/ DeleteStates(t)
    <3>1. Same
      BY <1>1, <2>3, HostParts DEF AddStates, AddPolicies, ReplaceStates, DeleteStates, Do
    <3>2. QED
      BY <3>1, <1>2 DEF LinkOps, RouteOps, Mid
  <2>4. CASE FindDevice(t) \/ ReadConf(t)
    BY <1>1, <2>4, <1>2 DEF FindDevice, ReadConf, Do, LinkOps, RouteOps, Mid
  <2>5. QED
    BY <2>1, <2>2, <2>3, <2>4
<1>3. CASE Op(t) \in {"rule", "keepalive", "unrule", "unkeepalive"}
  <2>1. AddRules(t) \/ RemoveRules(t)
    BY <1>3 DEF Operation, Do, AddLink, OpenDevice, ConfigureDevice, AddStates, AddPolicies,
       FindDevice, AddRules, AddRoute, SwitchIPv6, SetLinkDns, ReadConf, WriteConf,
       ReplaceStates, ReplaceAddress, RemoveRules, DeleteStates, DeleteDevice
  <2>2. /\ Op(t) = "rule" => host' = [host EXCEPT !.rules = host.rules \cup {Exclusion(t)}]
        /\ Op(t) = "keepalive" => host' = [host EXCEPT !.rules = host.rules \cup {Keepalive(t)}]
        /\ Op(t) = "unrule" => host' = [host EXCEPT !.rules = host.rules \ {Exclusion(t)}]
        /\ Op(t) = "unkeepalive" => host' = [host EXCEPT !.rules = host.rules \ {Keepalive(t)}]
    BY <2>1 DEF AddRules, RemoveRules, Do
  <2>3. QED
    BY <1>1, <1>3, <2>2, HostParts DEF RouteOps, Mid
<1>4. CASE Op(t) \in RouteOps
  <2>1. AddRoute(t)
    BY <1>4 DEF RouteOps, Operation, Do, AddLink, OpenDevice, ConfigureDevice, AddStates, AddPolicies,
       FindDevice, AddRules, AddRoute, SwitchIPv6, SetLinkDns, ReadConf, WriteConf,
       ReplaceStates, ReplaceAddress, RemoveRules, DeleteStates, DeleteDevice
  <2>2. host' = IF \E r \in host.routes : r.destination = Op(t) THEN host
                ELSE [host EXCEPT !.routes = host.routes
                          \cup {[destination |-> Op(t), owner |-> tunnel[t].index]}]
    BY <2>1 DEF AddRoute, Do
  <2>3. QED
    BY <1>1, <1>4, <2>2, HostParts DEF RouteOps, Mid
<1>5. CASE Op(t) \in {"noIPv6", "ipv6"}
  <2>1. SwitchIPv6(t)
    BY <1>5 DEF Operation, Do, AddLink, OpenDevice, ConfigureDevice, AddStates, AddPolicies,
       FindDevice, AddRules, AddRoute, SwitchIPv6, SetLinkDns, ReadConf, WriteConf,
       ReplaceStates, ReplaceAddress, RemoveRules, DeleteStates, DeleteDevice
  <2>2. /\ Op(t) = "noIPv6" => host' = [host EXCEPT !.no_ipv6 = TRUE]
        /\ Op(t) = "ipv6" => host' = [host EXCEPT !.no_ipv6 = FALSE]
    BY <2>1 DEF SwitchIPv6, Do
  <2>3. QED
    BY <1>1, <1>5, <2>2, HostParts DEF RouteOps, Mid
<1>6. CASE Op(t) \in Mid
  <2>1. WriteConf(t)
    BY <1>6 DEF Mid, Operation, Do, AddLink, OpenDevice, ConfigureDevice, AddStates, AddPolicies,
       FindDevice, AddRules, AddRoute, SwitchIPv6, SetLinkDns, ReadConf, WriteConf,
       ReplaceStates, ReplaceAddress, RemoveRules, DeleteStates, DeleteDevice
  <2> DEFINE conf == tunnel[t].conf
  <2>2. /\ Op(t) = "truncate" => host' = [host EXCEPT !.conf = [others |-> FALSE, vpn |-> {}]]
        /\ Op(t) = "write" =>
               host' = [host EXCEPT !.conf = [conf EXCEPT !.vpn = conf.vpn \cup {Gateway(t)}]]
        /\ Op(t) = "unwrite" =>
               host' = [host EXCEPT !.conf = [conf EXCEPT !.vpn = conf.vpn \ {Gateway(t)}]]
    BY <2>1 DEF WriteConf, Do
  <2>3. conf = [others |-> conf.others, vpn |-> conf.vpn]
    BY <1>1 DEF Object
  <2>4. \A x : [conf EXCEPT !.vpn = x] = [others |-> conf.others, vpn |-> x]
    BY <2>3
  <2>5. \A c : host' = [host EXCEPT !.conf = c] =>
                   /\ host'.conf = c /\ host'.resolver = host.resolver
                   /\ host'.routes = host.routes /\ host'.rules = host.rules
                   /\ host'.no_ipv6 = host.no_ipv6
    BY <1>1, HostParts
  <2> HIDE DEF conf
  <2>6. /\ host'.resolver = host.resolver /\ host'.routes = host.routes
        /\ host'.rules = host.rules /\ host'.no_ipv6 = host.no_ipv6
    BY <1>6, <2>2, <2>5 DEF Mid
  <2>7. /\ Op(t) = "truncate" => host'.conf = [others |-> FALSE, vpn |-> {}]
        /\ Op(t) = "write" => host'.conf = [others |-> conf.others, vpn |-> conf.vpn \cup {Gateway(t)}]
        /\ Op(t) = "unwrite" => host'.conf = [others |-> conf.others, vpn |-> conf.vpn \ {Gateway(t)}]
    BY <2>2, <2>4, <2>5
  <2>8. /\ Op(t) = "truncate" => host'.conf.others = FALSE /\ host'.conf.vpn = {}
        /\ Op(t) \in {"write", "unwrite"} => host'.conf.others = conf.others
        /\ Op(t) = "write" => host'.conf.vpn = conf.vpn \cup {Gateway(t)}
        /\ Op(t) = "unwrite" => host'.conf.vpn = conf.vpn \ {Gateway(t)}
    BY <2>7
  <2>9. Op(t) \notin RouteOps \cup {"unlink", "rule", "keepalive", "unrule", "unkeepalive", "noIPv6", "ipv6"}
    BY <1>6 DEF RouteOps, Mid
  <2>10. QED
    BY <1>6, <2>6, <2>8, <2>9 DEF conf
<1>7. CASE Op(t) = "unlink"
  <2>1. DeleteDevice(t)
    BY <1>7 DEF Operation, Do, AddLink, OpenDevice, ConfigureDevice, AddStates, AddPolicies,
       FindDevice, AddRules, AddRoute, SwitchIPv6, SetLinkDns, ReadConf, WriteConf,
       ReplaceStates, ReplaceAddress, RemoveRules, DeleteStates, DeleteDevice
  <2>2. host' = Unlinked(Device(t))
    BY <2>1 DEF DeleteDevice, Do
  <2>3. /\ host'.routes = {r \in host.routes : r.owner # Link(t).owner}
        /\ host'.resolver = host.resolver /\ host'.rules = host.rules
        /\ host'.no_ipv6 = host.no_ipv6 /\ host'.conf = host.conf
    BY <1>1, <2>2, HostParts DEF Unlinked, Link
  <2>4. QED
    BY <1>7, <2>3 DEF RouteOps, Mid
<1>8. Op(t) \in P \cup {"rule", "keepalive", "unrule", "unkeepalive", "noIPv6", "ipv6", "unlink"}
                \cup RouteOps \cup Mid
  BY <1>1, Busy DEF LinkOps, RouteOps, Mid, SetUpOps, CleanUpOps
<1>9. QED
  BY <1>2, <1>3, <1>4, <1>5, <1>6, <1>7, <1>8

\* The states and policies, which only grow by those of t.
LEMMA KeysBound ==
    ASSUME Kept, NEW t \in Tunnels, Operation(t)
    PROVE  LET k == tunnel[t].key
           IN  /\ Op(t) \notin {"out", "in", "newOut", "newIn"} => host'.states \subseteq host.states
               /\ Op(t) = "out" => host'.states = host.states \cup {Key(t, k, "out")}
               /\ Op(t) = "in" => host'.states = host.states \cup {Key(t, k, "in")}
               /\ Op(t) = "newOut" => host'.states = host.states \cup {Key(t, k + 1, "out")}
               /\ Op(t) = "newIn" => host'.states = host.states \cup {Key(t, k + 1, "in")}
               /\ Op(t) = "oldOut" => Key(t, k, "out") \notin host'.states
               /\ Op(t) = "oldIn" => Key(t, k, "in") \notin host'.states
               /\ Op(t) = "unstates" => \A x \in {"in", "out"} : Key(t, k, x) \notin host'.states
               /\ Op(t) # "policies" => host'.policies \subseteq host.policies
               /\ Op(t) = "policies" => host'.policies = host.policies \cup {t}
               /\ Op(t) = "unpolicies" => t \notin host'.policies
<1> DEFINE k == tunnel[t].key
           Xfrm == {"out", "in", "policies", "newOut", "newIn", "oldOut", "oldIn", "unstates",
                    "unpolicies"}
<1>1. host \in Host
  BY DEF Kept, Typed
<1>2. CASE Op(t) \notin Xfrm
  BY <1>2, HostAfter DEF SameKeys
<1>3. CASE Op(t) \in Xfrm
  <2>1. AddStates(t) \/ AddPolicies(t) \/ ReplaceStates(t) \/ DeleteStates(t)
    BY <1>3 DEF Operation, Do, AddLink, OpenDevice, ConfigureDevice, AddStates, AddPolicies,
       FindDevice, AddRules, AddRoute, SwitchIPv6, SetLinkDns, ReadConf, WriteConf,
       ReplaceStates, ReplaceAddress, RemoveRules, DeleteStates, DeleteDevice
  <2>2. /\ Op(t) = "out" => host' = [host EXCEPT !.states = host.states \cup {Key(t, k, "out")}]
        /\ Op(t) = "in" => host' = [host EXCEPT !.states = host.states \cup {Key(t, k, "in")}]
        /\ Op(t) = "newOut" =>
               host' = [host EXCEPT !.states = host.states \cup {Key(t, k + 1, "out")}]
        /\ Op(t) = "newIn" =>
               host' = [host EXCEPT !.states = host.states \cup {Key(t, k + 1, "in")}]
        /\ Op(t) = "oldOut" => host' = [host EXCEPT !.states = host.states \ {Key(t, k, "out")}]
        /\ Op(t) = "oldIn" => host' = [host EXCEPT !.states = host.states \ {Key(t, k, "in")}]
        /\ Op(t) = "unstates" =>
               host' = [host EXCEPT !.states = host.states \ {Key(t, k, x) : x \in {"in", "out"}}]
        /\ Op(t) = "policies" => host' = [host EXCEPT !.policies = host.policies \cup {t}]
        /\ Op(t) = "unpolicies" => host' = [host EXCEPT !.policies = host.policies \ {t}]
    BY <2>1 DEF AddStates, AddPolicies, ReplaceStates, DeleteStates, Do
  <2>3. /\ \A S : host' = [host EXCEPT !.states = S] =>
                      host'.states = S /\ host'.policies = host.policies
        /\ \A S : host' = [host EXCEPT !.policies = S] =>
                      host'.policies = S /\ host'.states = host.states
    BY <1>1, HostParts
  <2> HIDE DEF k
  <2>4. /\ Op(t) = "out" => host'.states = host.states \cup {Key(t, k, "out")}
        /\ Op(t) = "in" => host'.states = host.states \cup {Key(t, k, "in")}
        /\ Op(t) = "newOut" => host'.states = host.states \cup {Key(t, k + 1, "out")}
        /\ Op(t) = "newIn" => host'.states = host.states \cup {Key(t, k + 1, "in")}
        /\ Op(t) \in {"out", "in", "newOut", "newIn"} => host'.policies = host.policies
    BY <2>2, <2>3
  <2>5. /\ Op(t) = "oldOut" => host'.states = host.states \ {Key(t, k, "out")}
        /\ Op(t) = "oldIn" => host'.states = host.states \ {Key(t, k, "in")}
        /\ Op(t) = "unstates" =>
               host'.states = host.states \ {Key(t, k, x) : x \in {"in", "out"}}
        /\ Op(t) \in {"oldOut", "oldIn", "unstates"} => host'.policies = host.policies
    BY <2>2, <2>3
  <2>6. /\ Op(t) = "policies" => host'.policies = host.policies \cup {t}
        /\ Op(t) = "unpolicies" => host'.policies = host.policies \ {t}
        /\ Op(t) \in {"policies", "unpolicies"} => host'.states = host.states
    BY <2>2, <2>3
  <2>7. QED
    BY <1>3, <2>4, <2>5, <2>6 DEF k
<1>4. QED
  BY <1>2, <1>3

-----------------------------------------------------------------------------
(* The steps, and whom they concern *)

Step(t) ==
    \/ Operation(t)
    \/ Create(t) \/ Created(t) \/ Run(t) \/ Up(t) \/ StartReKey(t) \/ End(t) \/ Gone(t)
    \/ CreateFails(t) \/ SetUpFails(t) \/ ReKeyFails(t) \/ CleanUpFails(t)

\* A step between operations.
Turn(t) == Created(t) \/ Run(t) \/ Up(t) \/ StartReKey(t) \/ Gone(t)

LEMMA NextSteps == Next => Crash \/ \E t \in Tunnels : Step(t)
BY DEF Next, Step, Operation

\* Every step is one tunnel's.
LEMMA OneTunnel ==
    ASSUME Kept, NEW t \in Tunnels, Step(t)
    PROVE  /\ \A u \in Tunnels \ {t} : tunnel'[u] = tunnel[u]
           /\ damaged \subseteq damaged' /\ disturbed \subseteq disturbed'
           /\ ~Create(t) => disturbed' = disturbed
           /\ Turn(t) \/ Create(t) \/ End(t) \/ ReKeyFails(t) \/ CleanUpFails(t) => host' = host
           /\ Turn(t) \/ Operation(t) \/ Create(t) => damaged' = damaged
           /\ host'.resolver = host.resolver
           /\ host'.resolver \in {"resolved", "resolv.conf"}
<1>1. tunnel \in [Tunnels -> Object] /\ host \in Host
  BY DEF Kept, Typed
<1>2. \A u \in Tunnels \ {t} : tunnel'[u] = tunnel[u]
  <2>1. CASE Operation(t)
    BY <2>1, Stepped
  <2>2. CASE ~Operation(t)
    BY <1>1, <2>2 DEF Step, Create, Created, Run, Up, StartReKey, End, Gone, CreateFails,
       SetUpFails, ReKeyFails, CleanUpFails
  <2>3. QED
    BY <2>1, <2>2
<1>3. /\ damaged \subseteq damaged' /\ disturbed \subseteq disturbed'
      /\ ~Create(t) => disturbed' = disturbed
      /\ Turn(t) \/ Operation(t) \/ Create(t) => damaged' = damaged
  <2>1. Operation(t) => damaged' = damaged /\ disturbed' = disturbed
    BY Done DEF history
  <2>2. Create(t) => damaged' = damaged /\ disturbed \subseteq disturbed'
    BY DEF Create
  <2>3. Turn(t) => damaged' = damaged /\ disturbed' = disturbed
    BY DEF Turn, Created, Run, Up, StartReKey, Gone, history
  <2>4. End(t) => damaged \subseteq damaged' /\ disturbed' = disturbed
    BY DEF End
  <2>5. CreateFails(t) \/ SetUpFails(t) \/ ReKeyFails(t) \/ CleanUpFails(t) =>
            damaged \subseteq damaged' /\ disturbed' = disturbed
    BY DEF CreateFails, SetUpFails, ReKeyFails, CleanUpFails, Fail
  <2>6. QED
    BY <2>1, <2>2, <2>3, <2>4, <2>5 DEF Step, Turn
<1>4. Turn(t) \/ Create(t) \/ End(t) \/ ReKeyFails(t) \/ CleanUpFails(t) => host' = host
  BY DEF Turn, Created, Run, Up, StartReKey, Gone, Create, End, ReKeyFails, CleanUpFails
<1>5. host'.resolver = host.resolver
  <2>1. CASE Operation(t)
    BY <2>1, TablesAfter
  <2>2. CASE CreateFails(t)
    BY <1>1, <2>2, HostParts DEF CreateFails
  <2>3. CASE SetUpFails(t)
    BY <1>1, <2>3, HostParts DEF SetUpFails, Unlinked
  <2>4. QED
    BY <1>4, <2>1, <2>2, <2>3 DEF Step, Turn
<1>6. host.resolver \in {"resolved", "resolv.conf"}
  BY <1>1, HostParts, HostAssumption
<1>7. QED
  BY <1>2, <1>3, <1>4, <1>5, <1>6

\* What a step other than an operation makes of the tunnel.
LEMMA Turned ==
    ASSUME Kept, NEW t \in Tunnels
    PROVE  LET v == tunnel[t]
               w == tunnel'[t]
           IN  /\ Create(t) =>
                      /\ v.phase = "none" /\ w.config \in Configs /\ w.address \in Addresses
                      /\ IsNative(w) => w.phase = "creating" /\ w.todo = Configure
                      /\ ~IsNative(w) => w.phase = "created" /\ w.todo = <<>>
                      /\ \A u \in Alive : IsNative(w) \/ Native(u) => {t, u} \subseteq disturbed'
               /\ Created(t) => /\ v.phase = "creating" /\ v.todo = <<>>
                                /\ w = [v EXCEPT !.phase = "created"]
               /\ Up(t) => /\ v.phase = "settingUp" /\ v.todo = <<>>
                           /\ w = [v EXCEPT !.phase = "up", !.index = None]
               /\ Gone(t) => v.phase = "dropped" /\ v.todo = <<>> /\ w = NoTunnel
               /\ StartReKey(t) => /\ v.phase = "up" /\ w.phase = "up" /\ v.todo = <<>>
                                   /\ w.config = v.config
               /\ End(t) => v.phase = "up" /\ w = Dropped(t)
               /\ CreateFails(t) => v.phase = "creating" /\ v.todo # <<>> /\ w = NoTunnel
               /\ SetUpFails(t) => v.phase = "settingUp" /\ v.todo # <<>> /\ w = Dropped(t)
               /\ ReKeyFails(t) => /\ v.phase = "up" /\ v.todo # <<>> /\ w.phase = "up"
                                   /\ w.config = v.config
               /\ CleanUpFails(t) => /\ v.phase = "dropped" /\ v.todo # <<>>
                                     /\ w.phase = "dropped" /\ w.config = v.config
                                     /\ w.key = v.key
<1>1. tunnel \in [Tunnels -> Object] /\ tunnel[t] \in Object
  BY DEF Kept, Typed
<1>2. ASSUME Create(t)
      PROVE  LET w == tunnel'[t]
             IN  /\ tunnel[t].phase = "none" /\ w.config \in Configs /\ w.address \in Addresses
                 /\ IsNative(w) => w.phase = "creating" /\ w.todo = Configure
                 /\ ~IsNative(w) => w.phase = "created" /\ w.todo = <<>>
                 /\ \A u \in Alive : IsNative(w) \/ Native(u) => {t, u} \subseteq disturbed'
  <2>1. PICK c \in Configs, a \in Addresses :
            /\ tunnel' = [tunnel EXCEPT ![t] =
                   [@ EXCEPT !.config = c, !.address = a,
                             !.phase = IF c.kind = "native" THEN "creating" ELSE "created",
                             !.todo = When(c.kind = "native", Configure)]]
            /\ LET met == {u \in Alive : c.kind = "native" \/ Native(u)}
               IN  disturbed' = disturbed \cup met \cup (IF met = {} THEN {} ELSE {t})
    BY <1>2 DEF Create
  <2>2. /\ tunnel'[t].config = c /\ tunnel'[t].address = a
        /\ tunnel'[t].phase = IF c.kind = "native" THEN "creating" ELSE "created"
        /\ tunnel'[t].todo = When(c.kind = "native", Configure)
    BY <1>1, <2>1 DEF Object
  <2>3. \A u \in Alive : c.kind = "native" \/ Native(u) => {t, u} \subseteq disturbed'
    BY <2>1
  <2>4. tunnel[t].phase = "none"
    BY <1>2 DEF Create
  <2>5. QED
    BY <2>2, <2>3, <2>4 DEF IsNative, When
<1>3. /\ Created(t) => /\ tunnel[t].phase = "creating" /\ tunnel[t].todo = <<>>
                       /\ tunnel'[t] = [tunnel[t] EXCEPT !.phase = "created"]
      /\ Up(t) => /\ tunnel[t].phase = "settingUp" /\ tunnel[t].todo = <<>>
                  /\ tunnel'[t] = [tunnel[t] EXCEPT !.phase = "up", !.index = None]
      /\ Gone(t) => tunnel[t].phase = "dropped" /\ tunnel[t].todo = <<>> /\ tunnel'[t] = NoTunnel
      /\ End(t) => tunnel[t].phase = "up" /\ tunnel'[t] = Dropped(t)
  BY <1>1 DEF Created, Up, Gone, End
<1>4. StartReKey(t) => /\ tunnel[t].phase = "up" /\ tunnel'[t].phase = "up"
                       /\ tunnel[t].todo = <<>> /\ tunnel'[t].config = tunnel[t].config
  BY <1>1 DEF StartReKey, Object
<1>5. /\ CreateFails(t) =>
             tunnel[t].phase = "creating" /\ tunnel[t].todo # <<>> /\ tunnel'[t] = NoTunnel
      /\ SetUpFails(t) =>
             tunnel[t].phase = "settingUp" /\ tunnel[t].todo # <<>> /\ tunnel'[t] = Dropped(t)
  BY <1>1 DEF CreateFails, SetUpFails, Fail
<1>6. ReKeyFails(t) => /\ tunnel[t].phase = "up" /\ tunnel[t].todo # <<>>
                       /\ tunnel'[t].phase = "up" /\ tunnel'[t].config = tunnel[t].config
  <2> SUFFICES ASSUME ReKeyFails(t)
               PROVE  /\ tunnel[t].phase = "up" /\ tunnel[t].todo # <<>>
                      /\ tunnel'[t].phase = "up" /\ tunnel'[t].config = tunnel[t].config
    OBVIOUS
  <2>1. /\ tunnel[t].phase = "up" /\ tunnel[t].todo # <<>>
        /\ tunnel'[t] = IF Op(t) \in {"oldOut", "oldIn"} THEN After(t)
                        ELSE [tunnel[t] EXCEPT !.todo = <<>>, !.other = None]
    BY <1>1 DEF ReKeyFails, Fail
  <2>2. After(t).phase = tunnel[t].phase /\ After(t).config = tunnel[t].config
    BY <1>1, Afterwards
  <2>3. QED
    BY <1>1, <2>1, <2>2 DEF Object
<1>7. CleanUpFails(t) => /\ tunnel[t].phase = "dropped" /\ tunnel[t].todo # <<>>
                         /\ tunnel'[t].phase = "dropped"
                         /\ tunnel'[t].config = tunnel[t].config
                         /\ tunnel'[t].key = tunnel[t].key
  BY <1>1 DEF CleanUpFails, Fail, Object
<1>8. QED
  BY <1>2, <1>3, <1>4, <1>5, <1>6, <1>7

-----------------------------------------------------------------------------
(* Who uses the devices *)

\* Ops is what a tunnel is about to do in the phases that have something to do.
LEMMA Beginnings ==
    ASSUME Kept, InOrder, NEW t \in Tunnels, tunnel[t].todo # <<>>
    PROVE  /\ t \in Alive /\ tunnel[t].config \in Config
           /\ tunnel[t].phase = "creating" => Native(t)
           /\ tunnel[t].phase = "settingUp" /\ Native(t) => Op(t) \notin {"device", "address"}
           /\ ~Holding(tunnel[t]) =>
                  \/ tunnel[t].phase = "creating" /\ Native(t) /\ Op(t) = "link"
                  \/ tunnel[t].phase = "settingUp" /\ ~Native(t) /\ Op(t) = "device"
           /\ Op(t) \in {"link", "device"} => ~Holding(tunnel[t])
<1> DEFINE v == tunnel[t]
<1>1. /\ v.phase \in {"creating", "settingUp", "up", "dropped"} /\ v.config \in Config
      /\ v.phase = "creating" => Op(t) \in {"link", "address", "out", "in", "policies"}
      /\ v.phase = "settingUp" => Op(t) \in SetUpOps
      /\ v.phase = "up" => Op(t) \in {"newOut", "newIn", "oldOut", "oldIn", "move", "leave"}
      /\ v.phase = "dropped" => Op(t) \in CleanUpOps
  BY Busy
<1>2. t \in Alive
  BY <1>1 DEF Alive
<1>3. v.phase = "creating" => Native(t)
  BY DEF Kept, Staged, Stage
<1>4. v.phase = "settingUp" /\ Native(t) => Op(t) \notin {"device", "address"}
  <2>1. Op(t) \in Els(v.todo)
    <3>1. v.todo \in Seq(Ops)
      BY LeftIs
    <3>2. QED
      BY <3>1, ElsTail DEF Op
  <2>2. Ordered(v, host.resolver)
    BY DEF InOrder
  <2>3. QED
    BY <2>1, <2>2 DEF Ordered, IsNative, Native
<1>5. ~Holding(v) =>
          \/ v.phase = "creating" /\ Native(t) /\ Op(t) = "link"
          \/ v.phase = "settingUp" /\ ~Native(t) /\ Op(t) = "device"
  BY <1>1, <1>3, <1>4 DEF Holding, Op
<1>6. Op(t) \in {"link", "device"} => ~Holding(v)
  BY <1>1 DEF Holding, Op, SetUpOps, CleanUpOps
<1>7. QED
  BY <1>1, <1>2, <1>3, <1>4, <1>5, <1>6

\* An undisturbed tunnel that has its device is the only one that has.
LEMMA Alone ==
    ASSUME Kept, Meets, HoldsLink, NEW t \in Alive, NEW u \in Alive, t # u,
           Holding(tunnel[t]), Holding(tunnel[u]), ~({t, u} \subseteq disturbed)
    PROVE  FALSE
<1>1. ~Native(t) /\ ~Native(u)
  BY DEF Meets
<1>2. Link(t).owner = t /\ Link(u).owner = u /\ Device(t) = Device(u)
  BY <1>1 DEF HoldsLink, Device
<1>3. QED
  BY <1>2 DEF Link

\* No other tunnel touches the host meanwhile.
LEMMA Quiet ==
    ASSUME Kept, InOrder, Meets, HoldsLink, NEW t \in Tunnels, Step(t), NEW u \in Alive, t # u,
           u \notin disturbed, Holding(tunnel[u])
    PROVE  host' = host
<1>1. ASSUME tunnel[t].todo # <<>>
      PROVE  ~Native(t) /\ tunnel[t].phase = "settingUp" /\ Op(t) = "device"
  <2>1. /\ t \in Alive
        /\ ~Holding(tunnel[t]) =>
                  \/ tunnel[t].phase = "creating" /\ Native(t) /\ Op(t) = "link"
                  \/ tunnel[t].phase = "settingUp" /\ ~Native(t) /\ Op(t) = "device"
    BY <1>1, Beginnings
  <2>2. ~Holding(tunnel[t])
    BY <2>1, Alone
  <2>3. ~Native(t)
    BY <2>1 DEF Meets
  <2>4. QED
    BY <2>1, <2>2, <2>3
<1>2. ~Operation(t)
  <2> SUFFICES ASSUME Operation(t)
               PROVE  FALSE
    OBVIOUS
  <2>1. tunnel[t].todo # <<>>
    BY Done
  <2>2. ~Native(t) /\ Op(t) = "device" /\ t \in Alive
    BY <1>1, <2>1, Beginnings
  <2>3. Link(t) = NoLink
    BY <2>2, LinksAfter
  <2>4. ~Native(u)
    BY <2>2 DEF Meets
  <2>5. Link(u).owner = u /\ Link(t) = Link(u)
    BY <2>2, <2>4 DEF HoldsLink, Link, Device
  <2>6. u \in Tunnels
    BY DEF Alive
  <2>7. QED
    BY <2>3, <2>5, <2>6, HostAssumption DEF NoLink
<1>3. ~CreateFails(t)
  BY <1>1 DEF CreateFails, Fail
<1>4. SetUpFails(t) => host' = host
  BY <1>1 DEF SetUpFails, Fail
<1>5. QED
  BY <1>2, <1>3, <1>4, OneTunnel DEF Step, Turn

-----------------------------------------------------------------------------
(* How a step changes the life of its tunnel *)

\* A tunnel is created once, and its configuration is for life.
LEMMA Living ==
    ASSUME Kept, NEW t \in Tunnels, Step(t)
    PROVE  /\ tunnel'[t].phase # "none"
           /\ tunnel[t].phase = "none" <=> Create(t)
           /\ t \in Alive' => Create(t) \/ (t \in Alive /\ tunnel'[t].config = tunnel[t].config)
           /\ Alive' \subseteq Alive \cup {t}
           /\ Alive \ {t} \subseteq Alive'
           /\ tunnel[t].phase # "none" => Alive' \subseteq Alive
<1> DEFINE v == tunnel[t]
           w == tunnel'[t]
<1>1. ASSUME Operation(t)
      PROVE  /\ w.phase = v.phase /\ w.config = v.config
             /\ v.phase \in {"creating", "settingUp", "up", "dropped"}
  <2>1. v.todo # <<>>
    BY <1>1, Done
  <2>2. QED
    BY <1>1, <2>1, Stepped, Busy
<1>2. ASSUME ~Operation(t), ~Create(t)
      PROVE  /\ w.phase # "none" /\ v.phase \notin {"none", "gone"}
             /\ w.phase # "gone" => w.config = v.config
  <2>1. tunnel[t] \in Object
    BY DEF Kept, Typed
  <2>2. CASE Created(t) \/ Up(t)
    <3>1. /\ v.phase \in {"creating", "settingUp"}
          /\ \/ w = [v EXCEPT !.phase = "created"]
             \/ w = [v EXCEPT !.phase = "up", !.index = None]
      BY <2>2, Turned
    <3>2. w.phase \in {"created", "up"} /\ w.config = v.config
      BY <2>1, <3>1 DEF Object
    <3>3. QED
      BY <3>1, <3>2
  <2>3. CASE Run(t)
    <3>1. v.phase = "created"
      BY <2>3 DEF Run
    <3>2. QED
      BY <2>3, <3>1, Runs
  <2>4. CASE StartReKey(t) \/ ReKeyFails(t) \/ CleanUpFails(t)
    BY <2>4, Turned
  <2>5. CASE End(t) \/ SetUpFails(t)
    <3>1. Dropped(t).phase = "dropped" /\ Dropped(t).config = v.config
      BY DEF Dropped, InitTunnel
    <3>2. QED
      BY <2>5, <3>1, Turned
  <2>6. CASE Gone(t) \/ CreateFails(t)
    <3>1. NoTunnel.phase = "gone"
      BY DEF NoTunnel, InitTunnel
    <3>2. QED
      BY <2>6, <3>1, Turned
  <2>7. QED
    BY <1>2, <2>2, <2>3, <2>4, <2>5, <2>6 DEF Step
<1>3. ASSUME Create(t)
      PROVE  w.phase # "none" /\ v.phase = "none"
  BY <1>3, Turned
<1>4. w.phase # "none" /\ (v.phase = "none" <=> Create(t))
  BY <1>1, <1>2, <1>3
<1>5. /\ t \in Alive => v.phase \notin {"none", "gone"}
      /\ t \in Alive' => w.phase \notin {"none", "gone"}
      /\ v.phase \notin {"none", "gone"} => t \in Alive
  BY DEF Alive
<1>6. Alive' \subseteq Alive \cup {t} /\ Alive \ {t} \subseteq Alive'
  BY OneTunnel DEF Alive
<1>7. t \in Alive' => Create(t) \/ (t \in Alive /\ w.config = v.config)
  BY <1>1, <1>2, <1>5
<1>8. QED
  BY <1>4, <1>6, <1>7

\* The device is made by one operation, and unmade by one.
LEMMA HoldingAfter ==
    ASSUME Kept, InOrder, NEW t \in Tunnels, Step(t), Holding(tunnel'[t])
    PROVE  \/ Operation(t) /\ Op(t) \in {"link", "device"}
           \/ /\ Holding(tunnel[t])
              /\ ~(Operation(t) /\ Op(t) = "unlink")
              /\ ~(SetUpFails(t) /\ Op(t) = "address")
<1> DEFINE v == tunnel[t]
           w == tunnel'[t]
<1>1. ASSUME Operation(t), Op(t) \notin {"link", "device"}
      PROVE  Holding(v) /\ Op(t) # "unlink"
  <2>1. v.todo # <<>> /\ v.todo \in Seq(Ops)
    BY <1>1, Done, LeftIs
  <2>2. Holding(v)
    BY <1>1, <2>1, Beginnings
  <2>3. ASSUME Op(t) = "unlink"
        PROVE  FALSE
    <3>1. v.phase = "dropped"
      BY <2>1, <2>3, Busy DEF SetUpOps
    <3>2. UnlinksLast(v.todo)
      BY <3>1 DEF InOrder, Ordered
    <3>3. Len(v.todo) = 1
      <4>1. v.todo[1] = "unlink" /\ Len(v.todo) \in Nat \ {0}
        BY <2>1, <2>3, TailIsRest DEF Op
      <4> DEFINE s == v.todo
      <4> HIDE DEF s
      <4>2. s[1] = "unlink" /\ Len(s) \in Nat \ {0} /\ UnlinksLast(s)
        BY <3>2, <4>1 DEF s
      <4>3. Len(s) = 1
        BY <4>2 DEF UnlinksLast
      <4>4. QED
        BY <4>3 DEF s
    <3>4. Tail(v.todo) = <<>>
      BY <2>1, <3>3, TailIsRest, EmptySeq
    <3>5. w.phase = "dropped" /\ w.todo = <<>>
      BY <1>1, <3>1, <3>4, Stepped
    <3>6. QED
      BY <3>5 DEF Holding
  <2>4. QED
    BY <2>2, <2>3
<1>2. ASSUME ~Operation(t)
      PROVE  Holding(v) /\ ~(SetUpFails(t) /\ Op(t) = "address")
  <2>1. tunnel[t] \in Object
    BY DEF Kept, Typed
  <2>2. CASE Create(t)
    <3>1. \/ w.phase = "creating" /\ w.todo = Configure
          \/ w.phase = "created" /\ ~IsNative(w)
      BY <2>2, Turned
    <3>2. Head(Configure) = "link" /\ Configure # <<>>
      BY DEF Configure
    <3>3. ~Holding(w)
      BY <3>1, <3>2 DEF Holding
    <3>4. QED
      BY <3>3
  <2>3. CASE Created(t) \/ Up(t)
    <3>1. v.todo = <<>> /\ v.phase \in {"creating", "settingUp"}
      BY <2>3, Turned
    <3>2. Holding(v)
      BY <3>1 DEF Holding
    <3>3. QED
      BY <2>3, <3>1, <3>2 DEF SetUpFails, Fail
  <2>4. CASE Run(t)
    <3>1. v.phase = "created"
      BY <2>4 DEF Run
    <3>2. w.phase = "settingUp" /\ w.todo # <<>> /\ (~Native(t) => Head(w.todo) = "device")
      BY <2>4, Runs
    <3>3. Native(t)
      BY <3>2 DEF Holding
    <3>4. QED
      BY <3>1, <3>3 DEF Holding, IsNative, Native, SetUpFails
  <2>5. CASE StartReKey(t) \/ ReKeyFails(t) \/ CleanUpFails(t) \/ End(t)
    <3>1. v.phase = "up" \/ (v.phase = "dropped" /\ v.todo # <<>>)
      BY <2>5, Turned
    <3>2. QED
      BY <3>1 DEF Holding, SetUpFails
  <2>6. CASE SetUpFails(t)
    <3>1. v.phase = "settingUp" /\ v.todo # <<>> /\ w = Dropped(t)
      BY <2>6, Turned
    <3>2. v.config \in Config
      BY <3>1, Busy
    <3>3. w.phase = "dropped" /\ (~Native(t) /\ ~HasDevice(t) => w.todo = <<>>)
      BY <3>1, <3>2, Drops
    <3>4. Native(t) \/ HasDevice(t)
      BY <3>3 DEF Holding
    <3>5. Op(t) \notin {"device", "address"}
      BY <3>1, <3>4, Stored, Beginnings
    <3>6. QED
      BY <3>1, <3>5 DEF Holding, Op
  <2>7. CASE Gone(t) \/ CreateFails(t)
    <3>1. NoTunnel.phase = "gone"
      BY DEF NoTunnel, InitTunnel
    <3>2. w = NoTunnel
      BY <2>7, Turned
    <3>3. ~Holding(w)
      BY <3>1, <3>2 DEF Holding
    <3>4. QED
      BY <3>3
  <2>8. QED
    BY <1>2, <2>2, <2>3, <2>4, <2>5, <2>6, <2>7 DEF Step
<1>3. Operation(t) => ~SetUpFails(t) \/ Op(t) # "address" \/ Op(t) \in {"link", "device"} \/ Holding(v)
  BY <1>1
<1>4. ASSUME Operation(t), SetUpFails(t), Op(t) = "address"
      PROVE  FALSE
  <2>1. tunnel'[t].phase = "settingUp" /\ tunnel'[t] = Dropped(t)
    BY <1>4, Stepped, Turned
  <2>2. Dropped(t).phase = "dropped"
    BY DEF Dropped, InitTunnel
  <2>3. QED
    BY <2>1, <2>2
<1>5. QED
  BY <1>1, <1>2, <1>4

LEMMA Ranks == \A x : Rank(x) \in 1..12
BY DEF Rank

\* What is left of configure does not start anew.
LEMMA TailConfigures ==
    ASSUME NEW s \in Configuring, s # <<>>
    PROVE  /\ Tail(s) = <<>> \/ Head(Tail(s)) # "link"
           /\ Head(s) = "link" => s = Configure /\ Tail(s) = <<"address", "out", "in", "policies">>
           /\ Head(s) = "address" => Tail(s) = <<"out", "in", "policies">>
           /\ Head(s) = "out" => Tail(s) \in OutDone
           /\ Head(s) \in {"out", "in", "policies"} => s \in OutDone \cup {<<"out", "in", "policies">>}
           /\ s \in OutDone => Tail(s) \in OutDone
           /\ Head(s) = "policies" => Tail(s) = <<>>
<1>1. CASE s = Configure
  BY <1>1 DEF Configuring, Configure, OutDone
<1>2. CASE s = <<"address", "out", "in", "policies">>
  BY <1>2 DEF Configuring, Configure, OutDone
<1>3. CASE s = <<"out", "in", "policies">>
  BY <1>3 DEF Configuring, Configure, OutDone
<1>4. CASE s = <<"in", "policies">>
  BY <1>4 DEF Configuring, Configure, OutDone
<1>5. CASE s = <<"policies">>
  BY <1>5 DEF Configuring, Configure, OutDone
<1>6. QED
  BY <1>1, <1>2, <1>3, <1>4, <1>5 DEF Configuring

\* What a failure skips of the clean-up: the operations of the function that failed.
LEMMA Skipped ==
    ASSUME Kept, NEW t \in Tunnels, CleanUpFails(t)
    PROVE  LET s == tunnel[t].todo
               r == tunnel'[t].todo
           IN  /\ s \in Seq(CleanUpOps) /\ s # <<>> /\ Op(t) \in CleanUpOps
               /\ \E n \in 1..Len(s) :
                      /\ r = SubSeq(s, n + 1, Len(s))
                      /\ \A i \in 1..Len(s) : s[i] \in SkippedWith(Op(t)) <=> i <= n
               /\ Els(r) \subseteq Els(s)
               /\ \A x \in Els(s) : x \in Els(r) \/ x \in SkippedWith(Op(t))
<1> DEFINE s == tunnel[t].todo
           r == tunnel'[t].todo
<1>1. tunnel \in [Tunnels -> Object] /\ tunnel[t] \in Object
  BY DEF Kept, Typed
<1>2. s # <<>> /\ tunnel[t].phase = "dropped"
  BY Turned
<1>3. s \in Seq(CleanUpOps) /\ Op(t) \in CleanUpOps
  BY <1>2, Busy DEF Kept, Staged, Stage
<1>4. DOMAIN s = 1..Len(s)
  BY <1>3, LenProperties
<1>5. PICK n \in 1..Len(s) :
          /\ \A i \in 1..Len(s) : s[i] \in SkippedWith(Op(t)) <=> i <= n
          /\ tunnel' = [tunnel EXCEPT ![t].todo = SubSeq(s, n + 1, Len(s))]
  BY <1>4 DEF CleanUpFails
<1>6. r = SubSeq(s, n + 1, Len(s))
  BY <1>1, <1>5 DEF Object
<1> HIDE DEF s, r
<1>7. /\ Els(r) \subseteq Els(s)
      /\ \A x \in Els(s) : x \in Els(r) \/ \E i \in 1..n : x = s[i]
  BY <1>3, <1>6, Rest
<1>8. \A i \in 1..n : i \in 1..Len(s) /\ s[i] \in SkippedWith(Op(t))
  <2>1. Len(s) \in Nat
    BY <1>3, LenProperties
  <2>2. QED
    BY <1>5, <2>1
<1>9. QED
  BY <1>2, <1>3, <1>5, <1>6, <1>7, <1>8 DEF s, r

\* The device is skipped only by its own failure.
LEMMA SkipsUnlink ==
    ASSUME Kept, InOrder, NEW t \in Tunnels, CleanUpFails(t), tunnel'[t].todo = <<>>
    PROVE  Op(t) = "unlink"
<1> DEFINE s == tunnel[t].todo
<1>1. /\ s \in Seq(CleanUpOps) /\ s # <<>> /\ Op(t) \in CleanUpOps
      /\ \A x \in Els(s) : x \in Els(tunnel'[t].todo) \/ x \in SkippedWith(Op(t))
  BY Skipped
<1>2. UnlinksLast(s)
  BY Turned DEF InOrder, Ordered
<1>3. Len(s) \in Nat \ {0}
  BY <1>1, LenProperties, EmptySeq
<1> HIDE DEF s
<1>4. s[Len(s)] = "unlink" /\ Len(s) \in 1..Len(s)
  BY <1>2, <1>3 DEF UnlinksLast
<1>5. "unlink" \in Els(s)
  BY <1>4 DEF Els
<1>6. "unlink" \in SkippedWith(Op(t))
  BY <1>1, <1>5, ElsEmpty
<1>7. QED
  BY <1>1, <1>6 DEF SkippedWith, CleanUpOps

\* What makes a tunnel lose its device, or the means to delete it.
LEMMA HoldingLost ==
    ASSUME Kept, InOrder, NEW t \in Tunnels, Step(t), Holding(tunnel[t])
    PROVE  \/ Holding(tunnel'[t])
           \/ Operation(t) /\ Op(t) = "unlink"
           \/ SetUpFails(t) /\ Op(t) = "address" /\ ~Native(t)
           \/ CreateFails(t)
           \/ CleanUpFails(t) /\ Op(t) = "unlink"
<1> DEFINE v == tunnel[t]
           w == tunnel'[t]
<1>1. tunnel[t] \in Object /\ v.phase \in {"creating", "created", "settingUp", "up", "dropped"}
  BY DEF Kept, Typed, Holding
<1>2. v.phase = "created" => v.todo = <<>>
  BY DEF Kept, Staged, Stage
<1>3. ASSUME Operation(t), Op(t) # "unlink"
      PROVE  Holding(w)
  <2>1. v.todo # <<>> /\ v.todo \in Seq(Ops)
    BY <1>3, Done, LeftIs
  <2>2. w.phase = v.phase /\ w.config = v.config /\ w.todo = Tail(v.todo)
    BY <1>3, Stepped
  <2>3. CASE v.phase = "creating"
    <3>1. v.todo \in Configuring
      BY <2>3 DEF Kept, Staged, Stage
    <3>2. Tail(v.todo) = <<>> \/ Head(Tail(v.todo)) # "link"
      BY <2>1, <3>1, TailConfigures
    <3>3. QED
      BY <2>2, <2>3, <3>2 DEF Holding
  <2>4. CASE v.phase = "settingUp"
    <3>1. Ordered(v, host.resolver)
      BY DEF InOrder
    <3>2. Tail(v.todo) = <<>> \/ Head(Tail(v.todo)) # "device"
      <4>1. CASE Native(t)
        <5>1. "device" \notin Els(Tail(v.todo))
          BY <2>1, <2>4, <3>1, <4>1, ElsTail DEF Ordered, IsNative, Native
        <5>2. Tail(v.todo) # <<>> => Head(Tail(v.todo)) \in Els(Tail(v.todo))
          BY <2>1, TailOfSeq, ElsTail
        <5>3. QED
          BY <5>1, <5>2
      <4>2. CASE ~Native(t)
        <5>1. Sorted(v.todo)
          BY <2>4, <3>1, <4>2 DEF Ordered, IsNative, Native
        <5>2. Tail(v.todo) # <<>> => Head(Tail(v.todo)) # "device"
          BY <2>1, <5>1, RankLeft
        <5>3. QED
          BY <5>2
      <4>3. QED
        BY <4>1, <4>2
    <3>3. QED
      BY <2>2, <2>4, <3>2 DEF Holding
  <2>5. CASE v.phase = "up"
    BY <2>2, <2>5 DEF Holding
  <2>6. CASE v.phase = "dropped"
    <3>1. UnlinksLast(v.todo)
      BY <2>6 DEF InOrder, Ordered
    <3>2. /\ Tail(v.todo) \in Seq(Ops) /\ Len(v.todo) \in Nat \ {0}
          /\ Len(Tail(v.todo)) = Len(v.todo) - 1 /\ v.todo[1] = Op(t)
      BY <2>1, TailIsRest DEF Op
    <3>3. Len(v.todo) # 1
      <4> DEFINE s == v.todo
      <4> HIDE DEF s
      <4>1. s[1] # "unlink" /\ Len(s) \in Nat \ {0} /\ UnlinksLast(s)
        BY <1>3, <3>1, <3>2 DEF s
      <4>2. Len(s) # 1
        BY <4>1 DEF UnlinksLast
      <4>3. QED
        BY <4>2 DEF s
    <3>4. Tail(v.todo) # <<>>
      <4>1. Len(Tail(v.todo)) # 0
        BY <3>2, <3>3
      <4> DEFINE r == Tail(v.todo)
      <4> HIDE DEF r
      <4>2. r \in Seq(Ops) /\ Len(r) # 0
        BY <3>2, <4>1 DEF r
      <4>3. r # <<>>
        BY <4>2, EmptySeq
      <4>4. QED
        BY <4>3 DEF r
    <3>5. QED
      BY <2>2, <2>6, <3>4 DEF Holding
  <2>7. QED
    BY <1>1, <1>2, <2>1, <2>3, <2>4, <2>5, <2>6
<1>4. CASE Created(t) \/ Up(t)
  <2>1. \/ w = [v EXCEPT !.phase = "created"] /\ v.phase = "creating"
        \/ w = [v EXCEPT !.phase = "up", !.index = None] /\ v.phase = "settingUp"
    BY <1>4, Turned
  <2>2. \/ w.phase = "created" /\ w.config = v.config /\ v.phase = "creating"
        \/ w.phase = "up"
    BY <1>1, <2>1 DEF Object
  <2>3. v.phase = "creating" => Native(t)
    BY DEF Kept, Staged, Stage
  <2>4. QED
    BY <2>2, <2>3 DEF Holding, IsNative, Native
<1>5. CASE Run(t)
  <2>1. v.phase = "created" /\ Native(t)
    BY <1>5 DEF Run, Holding, IsNative, Native
  <2>2. w.phase = "settingUp" /\ Els(w.todo) \cap {"device", "address"} = {}
        /\ w.todo \in Seq(SetUpOps) /\ w.todo # <<>>
    BY <1>5, <2>1, Runs
  <2>3. Head(w.todo) \in Els(w.todo)
    BY <2>2, ElsTail
  <2>4. QED
    BY <2>2, <2>3 DEF Holding
<1>6. CASE StartReKey(t) \/ ReKeyFails(t)
  BY <1>6, Turned DEF Holding
<1>7. CASE End(t) \/ SetUpFails(t)
  <2>1. /\ w = Dropped(t) /\ v.phase \in {"settingUp", "up"}
        /\ v.phase = "settingUp" => v.todo # <<>> /\ SetUpFails(t)
        /\ SetUpFails(t) => v.phase = "settingUp"
    BY <1>7, Turned
  <2>2. v.config \in Config
    BY <2>1, HostAssumption DEF Kept, Staged, Stage
  <2>3. /\ w.phase = "dropped"
        /\ Native(t) => Undoes(w.todo, v.config, TRUE)
        /\ ~Native(t) /\ HasDevice(t) => Undoes(w.todo, v.config, HasRouting(t))
    BY <2>1, <2>2, Drops
  <2>4. Native(t) \/ HasDevice(t) => w.todo # <<>>
    BY <2>3 DEF Undoes
  <2>5. \/ Native(t) \/ HasDevice(t)
        \/ SetUpFails(t) /\ Op(t) \in {"device", "address"}
    BY <2>1, Stored
  <2>6. Op(t) # "device" \/ v.phase # "settingUp" \/ v.todo = <<>>
    BY DEF Holding, Op
  <2>7. QED
    BY <2>1, <2>3, <2>4, <2>5, <2>6 DEF Holding
<1>8. CASE CleanUpFails(t)
  <2>1. v.phase = "dropped" /\ v.todo # <<>> /\ w.phase = "dropped"
    BY <1>8, Turned
  <2>2. w.todo = <<>> => Op(t) = "unlink"
    BY <1>8, SkipsUnlink
  <2>3. QED
    BY <1>8, <2>1, <2>2 DEF Holding
<1>9. ~Create(t) /\ ~Gone(t)
  <2>1. Create(t) => v.phase = "none"
    BY Turned
  <2>2. Gone(t) => v.phase = "dropped" /\ v.todo = <<>>
    BY Turned
  <2>3. QED
    BY <1>1, <2>1, <2>2 DEF Holding
<1>10. QED
  BY <1>3, <1>4, <1>5, <1>6, <1>7, <1>8, <1>9 DEF Step

-----------------------------------------------------------------------------
(* How a step changes the devices and routes *)

Linking(t) == Operation(t) /\ Op(t) \in {"link", "device"} /\ Link(t) = NoLink
Unlinking(t) == \/ Operation(t) /\ Op(t) = "unlink"
                \/ SetUpFails(t) /\ Op(t) = "address"

LEMMA LinkSteps ==
    ASSUME Kept, NEW t \in Tunnels, Step(t)
    PROVE  /\ Linking(t) =>
                  /\ host'.links[Device(t)].owner = t
                  /\ \A d \in Devices \ {Device(t)} : host'.links[d] = host.links[d]
           /\ Unlinking(t) =>
                  /\ host'.links[Device(t)].owner = None
                  /\ \A d \in Devices \ {Device(t)} : host'.links[d] = host.links[d]
                  /\ host'.routes = {r \in host.routes : r.owner # Link(t).owner}
           /\ ~Linking(t) /\ ~Unlinking(t) =>
                  \A d \in Devices : host'.links[d].owner = host.links[d].owner
           /\ ~Unlinking(t) =>
                  \/ host'.routes = host.routes
                  \/ /\ Operation(t) /\ Op(t) \in RouteOps
                     /\ host'.routes = host.routes
                            \cup {[destination |-> Op(t), owner |-> Link(t).owner]}
<1> DEFINE d == Device(t)
<1>1. host \in Host /\ host.links \in [Devices -> LinkType] /\ NoLink.owner = None
  BY HostParts DEF Kept, Typed, NoLink
<1>2. ASSUME Operation(t)
      PROVE  /\ ~SetUpFails(t) \/ Op(t) # "address"
             /\ d \in Devices
  <2>1. tunnel[t].todo # <<>>
    BY <1>2, Done
  <2>2. d \in Devices
    BY <2>1, Busy
  <2>3. tunnel'[t].phase = tunnel[t].phase
    BY <1>2, Stepped
  <2>4. SetUpFails(t) => tunnel'[t] = Dropped(t) /\ tunnel[t].phase = "settingUp"
    BY Turned
  <2>5. Dropped(t).phase = "dropped"
    BY DEF Dropped, InitTunnel
  <2>6. QED
    BY <2>2, <2>3, <2>4, <2>5
<1> HIDE DEF d
<1>3. CASE Operation(t)
  <2>1. ASSUME NEW m, host'.links = [host.links EXCEPT ![d] = m]
        PROVE  host'.links[d] = m /\ \A e \in Devices \ {d} : host'.links[e] = host.links[e]
    BY <1>1, <1>2, <1>3, <2>1
  <2>2. CASE Linking(t)
    <3> DEFINE m == [owner |-> t, addresses |-> {}, dns |-> FALSE]
    <3>1. host'.links = [host.links EXCEPT ![d] = m]
      BY <1>3, <2>2, LinksAfter DEF Linking, d
    <3>2. m.owner = t
      OBVIOUS
    <3> HIDE DEF m
    <3>3. host'.links[d].owner = t /\ \A e \in Devices \ {d} : host'.links[e] = host.links[e]
      BY <2>1, <3>1, <3>2
    <3>4. ~Unlinking(t)
      BY <1>2, <1>3, <2>2 DEF Linking, Unlinking
    <3>5. host'.routes = host.routes
      BY <1>3, <2>2, TablesAfter DEF Linking, RouteOps
    <3>6. QED
      BY <2>2, <3>3, <3>4, <3>5 DEF d
  <2>3. CASE Unlinking(t)
    <3>1. Op(t) = "unlink"
      BY <1>2, <1>3, <2>3 DEF Unlinking
    <3>2. host'.links = [host.links EXCEPT ![d] = NoLink]
      BY <1>3, <3>1, LinksAfter DEF d
    <3>3. host'.links[d] = NoLink /\ \A e \in Devices \ {d} : host'.links[e] = host.links[e]
      BY <2>1, <3>2
    <3>4. host'.routes = {r \in host.routes : r.owner # Link(t).owner}
      BY <1>3, <3>1, TablesAfter
    <3>5. ~Linking(t)
      BY <3>1 DEF Linking
    <3>6. QED
      BY <1>1, <2>3, <3>3, <3>4, <3>5 DEF d
  <2>4. CASE ~Linking(t) /\ ~Unlinking(t)
    <3>1. Op(t) # "unlink" /\ ~(Op(t) \in {"link", "device"} /\ Link(t) = NoLink)
      BY <1>3, <2>4 DEF Linking, Unlinking
    <3>2. Link(t) = host.links[d]
      BY DEF Link, d
    <3>3. ASSUME Op(t) \in {"address", "move", "leave", "linkDns"}
          PROVE  \A e \in Devices : host'.links[e].owner = host.links[e].owner
      <4> DEFINE L(a, x) == [owner |-> Link(t).owner, addresses |-> a, dns |-> x]
      <4>1. /\ Op(t) \in {"address", "move"} =>
                   host'.links = [host.links EXCEPT ![d] =
                       L(Link(t).addresses \cup {tunnel[t].address}, Link(t).dns)]
            /\ Op(t) = "leave" =>
                   host'.links = [host.links EXCEPT ![d] =
                       L(Link(t).addresses \ {tunnel[t].other}, Link(t).dns)]
            /\ Op(t) = "linkDns" =>
                   host'.links = [host.links EXCEPT ![d] = L(Link(t).addresses, TRUE)]
        BY <1>3, LinksAfter DEF d
      <4>2. \A a, x : L(a, x).owner = Link(t).owner
        OBVIOUS
      <4> HIDE DEF L
      <4>3. \A a, x : host'.links = [host.links EXCEPT ![d] = L(a, x)] =>
                           /\ host'.links[d].owner = Link(t).owner
                           /\ \A e \in Devices \ {d} : host'.links[e] = host.links[e]
        BY <2>1, <4>2
      <4>4. host'.links[d].owner = Link(t).owner
            /\ \A e \in Devices \ {d} : host'.links[e] = host.links[e]
        BY <3>3, <4>1, <4>3
      <4>5. QED
        BY <3>2, <4>4
    <3>4. Op(t) \notin {"address", "move", "leave", "linkDns"} => host'.links = host.links
      BY <1>3, <3>1, LinksAfter DEF LinkOps
    <3>5. \A e \in Devices : host'.links[e].owner = host.links[e].owner
      BY <3>3, <3>4
    <3>6. \/ host'.routes = host.routes
          \/ /\ Op(t) \in RouteOps
             /\ host'.routes = host.routes
                       \cup {[destination |-> Op(t), owner |-> Link(t).owner]}
      <4>1. CASE Op(t) \in RouteOps
        <5>1. Link(t).owner = tunnel[t].index
          BY <1>3, <4>1, LinksAfter
        <5>2. QED
          BY <1>3, <4>1, <5>1, TablesAfter
      <4>2. CASE Op(t) \notin RouteOps
        BY <1>3, <3>1, <4>2, TablesAfter
      <4>3. QED
        BY <4>1, <4>2
    <3>7. QED
      BY <1>3, <2>4, <3>5, <3>6
  <2>5. QED
    BY <2>2, <2>3, <2>4
<1>4. CASE ~Operation(t) /\ SetUpFails(t)
  <2>1. ~Linking(t)
    BY <1>4 DEF Linking
  <2>2. CASE Op(t) = "address"
    <3>1. host' = Unlinked(d)
      BY <1>4, <2>2 DEF SetUpFails, d
    <3>2. d \in Devices
      BY <1>4, Busy DEF SetUpFails, Fail, d
    <3>3. host'.links = [host.links EXCEPT ![d] = NoLink]
      BY <1>1, <3>1, HostParts DEF Unlinked
    <3>4. host'.routes = {r \in host.routes : r.owner # Link(t).owner}
      BY <1>1, <3>1, HostParts DEF Unlinked, Link, d
    <3>5. Unlinking(t)
      BY <1>4, <2>2 DEF Unlinking
    <3>6. host'.links[d].owner = None /\ \A e \in Devices \ {d} : host'.links[e] = host.links[e]
      BY <1>1, <3>2, <3>3
    <3>7. QED
      BY <2>1, <3>4, <3>5, <3>6 DEF d
  <2>3. CASE Op(t) # "address"
    <3>1. host' = host /\ ~Unlinking(t)
      BY <1>4, <2>3 DEF SetUpFails, Unlinking
    <3>2. QED
      BY <2>1, <3>1
  <2>4. QED
    BY <2>2, <2>3
<1>5. CASE ~Operation(t) /\ ~SetUpFails(t)
  <2>1. ~Linking(t) /\ ~Unlinking(t)
    BY <1>5 DEF Linking, Unlinking
  <2>2. CASE CreateFails(t)
    <3>1. \/ host' = host
          \/ host' = [host EXCEPT !.links[d].addresses = @ \cup {tunnel[t].address}]
      BY <2>2 DEF CreateFails, d
    <3>2. CASE host' = [host EXCEPT !.links[d].addresses = @ \cup {tunnel[t].address}]
      <4>1. d \in Devices
        BY <2>2, Busy DEF CreateFails, Fail, d
      <4> DEFINE m == [host.links[d] EXCEPT !.addresses = @ \cup {tunnel[t].address}]
      <4>2. m.owner = host.links[d].owner
        <5>1. host.links[d] \in LinkType
          BY <1>1, <4>1
        <5>2. QED
          BY <5>1 DEF LinkType
      <4>3. host'.links = [host.links EXCEPT ![d] = m] /\ host'.routes = host.routes
        BY <1>1, <3>2, HostParts
      <4> HIDE DEF m
      <4>4. \A e \in Devices : host'.links[e].owner = host.links[e].owner
        BY <1>1, <4>1, <4>2, <4>3
      <4>5. QED
        BY <2>1, <4>3, <4>4
    <3>3. QED
      BY <2>1, <3>1, <3>2
  <2>3. CASE ~CreateFails(t)
    <3>1. host' = host
      BY <1>5, <2>3, OneTunnel DEF Step, Turn
    <3>2. QED
      BY <2>1, <3>1
  <2>4. QED
    BY <2>2, <2>3
<1>6. QED
  BY <1>3, <1>4, <1>5

\* The lists stay in order.
LEMMA InOrderAfter ==
    ASSUME Kept, InOrder, NEW t \in Tunnels, Step(t)
    PROVE  InOrder'
<1> DEFINE v == tunnel[t]
           w == tunnel'[t]
<1>1. Ordered(v, host.resolver) /\ host'.resolver = host.resolver
  BY OneTunnel DEF InOrder
<1>2. \A u \in Tunnels \ {t} : Ordered(tunnel'[u], host'.resolver)
  BY <1>1, OneTunnel DEF InOrder
<1>3. w.phase \notin {"settingUp", "dropped"} => Ordered(w, host.resolver)
  BY DEF Ordered
<1>4. CASE Operation(t)
  <2>1. v.todo # <<>> /\ v.todo \in Seq(Ops)
    BY <1>4, Done, LeftIs
  <2>2. w.phase = v.phase /\ w.config = v.config /\ w.todo = Tail(v.todo)
    BY <1>4, Stepped
  <2> DEFINE s == v.todo
             r == Tail(v.todo)
  <2> HIDE DEF v, w
  <2>3. /\ Els(r) \subseteq Els(s)
        /\ Sorted(s) => Sorted(r) /\ (r # <<>> => Head(r) # "device")
        /\ Contiguous(s) => Contiguous(r)
        /\ UnlinksLast(s) => UnlinksLast(r)
    <3>1. Els(r) \subseteq Els(s)
      BY <2>1, ElsTail
    <3>2. /\ r \in Seq(Ops) /\ Len(s) \in Nat \ {0} /\ Len(r) = Len(s) - 1
          /\ \A i \in 1..Len(r) : r[i] = s[1 + i]
      BY <2>1, TailIsRest
    <3>3. Sorted(s) => (r # <<>> => Head(r) # "device")
      BY <2>1, RankLeft
    <3> HIDE DEF s, r
    <3>4. /\ Sorted(s) => Sorted(r)
          /\ Contiguous(s) => Contiguous(r)
          /\ UnlinksLast(s) => UnlinksLast(r)
      <4>1. 1 \in Nat /\ Len(s) \in Nat /\ Len(r) \in Nat
        BY <3>2
      <4>2. QED
        BY <3>2, <4>1, OrderOfRest
    <3>5. QED
      BY <3>1, <3>3, <3>4
  <2> HIDE DEF s, r
  <2>4. w.phase = v.phase /\ w.config = v.config /\ w.todo = r /\ s = v.todo
    BY <2>2 DEF r, s
  <2>5. Ordered(w, host.resolver)
    BY <1>1, <2>3, <2>4 DEF Ordered, IsNative
  <2>6. QED
    BY <1>1, <1>2, <2>5 DEF InOrder, w
<1>5. CASE Run(t)
  BY <1>1, <1>2, <1>5, Runs DEF InOrder
<1>6. CASE End(t) \/ SetUpFails(t)
  <2>1. w = Dropped(t) /\ v.phase \in {"settingUp", "up"}
    BY <1>6, Turned
  <2>2. v.config \in Config
    BY <2>1, HostAssumption DEF Kept, Staged, Stage
  <2>3. Ordered(w, host.resolver)
    BY <2>1, <2>2, Drops
  <2>4. QED
    BY <1>1, <1>2, <2>3 DEF InOrder
<1>7. CASE CleanUpFails(t)
  <2>1. v.phase = "dropped" /\ w.phase = "dropped" /\ w.config = v.config
    BY <1>7, Turned
  <2> DEFINE s == v.todo
             r == w.todo
  <2>2. /\ s \in Seq(CleanUpOps) /\ Els(r) \subseteq Els(s)
        /\ \E n \in 1..Len(s) : r = SubSeq(s, n + 1, Len(s))
    BY <1>7, Skipped
  <2> HIDE DEF s, r
  <2>3. PICK n \in 1..Len(s) : r = SubSeq(s, n + 1, Len(s))
    BY <2>2
  <2>4. /\ Len(r) = Len(s) - n /\ Len(s) \in Nat /\ Len(r) \in Nat /\ n \in Nat
        /\ \A i \in 1..Len(r) : r[i] = s[n + i]
    <3>1. LET q == SubSeq(s, n + 1, Len(s))
          IN  /\ Len(q) = Len(s) - n /\ Len(s) \in Nat /\ Len(q) \in Nat
              /\ \A i \in 1..Len(q) : q[i] = s[n + i]
      BY <2>2, Rest
    <3>2. Len(s) \in Nat => n \in Nat
      OBVIOUS
    <3>3. QED
      BY <2>3, <3>1, <3>2
  <2>5. /\ Contiguous(s) => Contiguous(r)
        /\ UnlinksLast(s) => UnlinksLast(r)
    BY <2>4, OrderOfRest
  <2>6. s = v.todo /\ r = w.todo
    BY DEF s, r
  <2> HIDE DEF v, w
  <2>7. Ordered(w, host.resolver)
    BY <1>1, <2>1, <2>2, <2>5, <2>6 DEF Ordered, IsNative
  <2>8. QED
    BY <1>1, <1>2, <2>7 DEF InOrder, w
<1>8. CASE Create(t) \/ Created(t) \/ Up(t) \/ StartReKey(t) \/ Gone(t) \/ CreateFails(t) \/ ReKeyFails(t)
  <2>1. NoTunnel.phase = "gone"
    BY DEF NoTunnel, InitTunnel
  <2>2. tunnel[t] \in Object
    BY DEF Kept, Typed
  <2>3. \A x : [v EXCEPT !.phase = "created"].phase = "created"
               /\ [v EXCEPT !.phase = "up", !.index = None].phase = "up"
    BY <2>2 DEF Object
  <2>4. w.phase \notin {"settingUp", "dropped"}
    BY <1>8, <2>1, <2>3, Turned
  <2>5. QED
    BY <1>1, <1>2, <1>3, <2>4 DEF InOrder
<1>9. QED
  BY <1>4, <1>5, <1>6, <1>7, <1>8 DEF Step

-----------------------------------------------------------------------------
(* Devices are in use *)

\* The configuration of a tunnel that lives on is the same.
LEMMA SameConfig ==
    ASSUME Kept, NEW t \in Tunnels, Step(t), NEW u \in Alive', u # t \/ ~Create(t)
    PROVE  /\ u \in Alive /\ u \in Tunnels /\ tunnel'[u].config = tunnel[u].config
           /\ Native(u)' = Native(u) /\ Device(u)' = Device(u) /\ Gateway(u)' = Gateway(u)
           /\ DeviceOf(tunnel'[u]) = DeviceOf(tunnel[u])
<1>1. u \in Alive /\ u \in Tunnels /\ tunnel'[u].config = tunnel[u].config
  BY OneTunnel, Living DEF Alive
<1>2. QED
  BY <1>1 DEF Native, Device, Gateway, DeviceOf, IsNative

LEMMA MeetsAfter ==
    ASSUME Kept, Meets, NEW t \in Tunnels, Step(t)
    PROVE  Meets'
<1> SUFFICES ASSUME NEW x \in Alive', NEW y \in Alive', x # y, (Native(x) \/ Native(y))'
             PROVE  {x, y} \subseteq disturbed'
  BY DEF Meets
<1>1. disturbed \subseteq disturbed'
  BY OneTunnel
<1>2. CASE Create(t) /\ t \in {x, y}
  <2>1. PICK u \in {x, y} : u # t /\ {u, t} = {x, y}
    BY <1>2
  <2>2. u \in Alive /\ Native(u)' = Native(u)
    BY <2>1, SameConfig
  <2>3. IsNative(tunnel'[t]) <=> Native(t)'
    BY DEF IsNative, Native
  <2>4. IsNative(tunnel'[t]) \/ Native(u)
    BY <2>1, <2>2, <2>3
  <2>5. {t, u} \subseteq disturbed'
    BY <1>2, <2>2, <2>4, Turned
  <2>6. QED
    BY <2>1, <2>5
<1>3. CASE ~(Create(t) /\ t \in {x, y})
  <2>1. /\ x \in Alive /\ Native(x)' = Native(x)
        /\ y \in Alive /\ Native(y)' = Native(y)
    BY <1>3, SameConfig
  <2>2. {x, y} \subseteq disturbed
    BY <2>1 DEF Meets
  <2>3. QED
    BY <1>1, <2>2
<1>4. QED
  BY <1>2, <1>3

LEMMA HoldsLinkAfter ==
    ASSUME Kept, InOrder, Meets, HoldsLink, NEW t \in Tunnels, Step(t)
    PROVE  HoldsLink'
<1> SUFFICES ASSUME NEW u \in Alive', Holding(tunnel'[u])
             PROVE  /\ ~Native(u)' => Link(u)'.owner = u
                    /\ Native(u)' /\ u \notin disturbed' =>
                           /\ Link(u)'.owner # None
                           /\ Link(u)'.owner = u \/ Link(u)'.owner \notin Alive'
  BY DEF HoldsLink
<1>1. disturbed \subseteq disturbed' /\ Alive' \subseteq Alive \cup {t} /\ u \in Tunnels
  BY OneTunnel, Living DEF Alive
<1>2. ~Create(t) \/ u # t
  <2>1. ASSUME Create(t)
        PROVE  ~Holding(tunnel'[t])
    <3>1. ~Operation(t)
      <4>1. tunnel[t].phase = "none"
        BY <2>1, Turned
      <4>2. tunnel[t].todo = <<>>
        BY <4>1 DEF Kept, Staged, Stage
      <4>3. QED
        BY <4>2, Done
    <3>2. ~Holding(tunnel[t])
      BY <2>1, Turned DEF Holding
    <3>3. QED
      BY <3>1, <3>2, HoldingAfter
  <2>2. QED
    BY <2>1
<1>3. /\ u \in Alive /\ Native(u)' = Native(u) /\ Device(u)' = Device(u)
      /\ Device(u) \in Devices /\ Link(u)' = host'.links[Device(u)]
      /\ Link(u) = host.links[Device(u)]
  <2>1. u \in Alive /\ Native(u)' = Native(u) /\ Device(u)' = Device(u)
    BY <1>2, SameConfig
  <2>2. Device(u) \in Devices
    BY DEF Device, Devices
  <2>3. QED
    BY <2>1, <2>2 DEF Link
<1>4. CASE u # t /\ ~Native(u)
  <2>1. tunnel'[u] = tunnel[u]
    BY <1>1, <1>4, OneTunnel
  <2>2. Link(u).owner = u
    BY <1>3, <1>4, <2>1 DEF HoldsLink
  <2>3. Device(t) = Device(u) => ~Linking(t) /\ ~Unlinking(t)
    <3> SUFFICES ASSUME Device(t) = Device(u)
                 PROVE  ~Linking(t) /\ ~Unlinking(t)
      OBVIOUS
    <3>1. Link(t) = Link(u) /\ ~Native(t)
      BY <1>4 DEF Link, Device
    <3>2. ~Linking(t)
      BY <1>1, <2>2, <3>1, HostAssumption DEF Linking, NoLink
    <3>3. ASSUME Unlinking(t)
          PROVE  FALSE
      <4>1. tunnel[t].todo # <<>>
        BY <3>3, Done DEF Unlinking, SetUpFails, Fail
      <4>2. Op(t) \in {"unlink", "address"}
        BY <3>3 DEF Unlinking
      <4>3. t \in Alive /\ Holding(tunnel[t])
        BY <4>1, <4>2, Beginnings
      <4>4. Link(t).owner = t
        BY <3>1, <4>3 DEF HoldsLink
      <4>5. QED
        BY <1>4, <2>2, <3>1, <4>4
    <3>4. QED
      BY <3>2, <3>3
  <2>4. host'.links[Device(u)].owner = host.links[Device(u)].owner
    BY <1>3, <2>3, LinkSteps
  <2>5. QED
    BY <1>3, <1>4, <2>2, <2>4
<1>5. CASE u # t /\ Native(u) /\ u \notin disturbed'
  <2>1. ~Create(t)
    <3>1. Create(t) => {t, u} \subseteq disturbed'
      BY <1>3, <1>5, Turned
    <3>2. QED
      BY <1>5, <3>1
  <2>2. t \notin Alive
    BY <1>1, <1>3, <1>5 DEF Meets
  <2>3. t \in Alive
    <3>1. ~Operation(t)
      <4>1. Operation(t) => tunnel[t].todo # <<>>
        BY Done
      <4>2. QED
        BY <2>2, <4>1, Beginnings
    <3>2. tunnel[t].phase \in {"creating", "created", "settingUp", "up", "dropped"}
      BY <2>1, <3>1, Turned DEF Step, Run
    <3>3. QED
      BY <3>2 DEF Alive
  <2>4. QED
    BY <2>2, <2>3
<1>6. CASE u = t /\ ~Linking(t)
  <2>1. Holding(tunnel[t]) => ~Unlinking(t) /\ host'.links[Device(t)].owner = host.links[Device(t)].owner
    <3>1. Holding(tunnel[t]) => ~Unlinking(t)
      <4>1. CASE Operation(t) /\ Op(t) \in {"link", "device"}
        <5>1. tunnel[t].todo # <<>>
          BY <4>1, Done
        <5>2. ~Holding(tunnel[t])
          BY <4>1, <5>1, Beginnings
        <5>3. QED
          BY <5>2
      <4>2. QED
        BY <1>6, <4>1, HoldingAfter DEF Unlinking
    <3>2. QED
      BY <1>3, <1>6, <3>1, LinkSteps
  <2>2. CASE Holding(tunnel[t])
    <3>1. Alive' \subseteq Alive
      BY <1>3, <1>6, Living DEF Alive
    <3>2. /\ ~Native(t) => Link(t).owner = t
          /\ Native(t) /\ t \notin disturbed =>
               Link(t).owner # None /\ (Link(t).owner = t \/ Link(t).owner \notin Alive)
      BY <1>3, <1>6, <2>2 DEF HoldsLink
    <3>3. QED
      BY <1>1, <1>3, <1>6, <2>1, <2>2, <3>1, <3>2
  <2>3. CASE ~Holding(tunnel[t])
    <3>1. Operation(t) /\ Op(t) \in {"link", "device"} /\ Link(t) # NoLink
      BY <1>6, <2>3, HoldingAfter DEF Linking
    <3>2. tunnel[t].todo # <<>> /\ (Op(t) = "device" => Link(t) = NoLink)
      BY <3>1, Done, LinksAfter
    <3>3. Op(t) = "link" /\ Native(t)
      BY <2>3, <3>1, <3>2, Beginnings
    <3>4. Link(t).owner # None
      BY <1>3, <1>6, <3>1 DEF Kept, LinksOwned
    <3>5. host'.links = host.links
      BY <3>1, <3>3, LinksAfter
    <3>6. Alive' \subseteq Alive
      BY <1>3, <1>6, Living DEF Alive
    <3>7. t \notin disturbed => Link(t).owner = t \/ Link(t).owner \notin Alive
      <4> SUFFICES ASSUME t \notin disturbed, Link(t).owner \in Alive, Link(t).owner # t
                   PROVE  FALSE
        OBVIOUS
      <4>1. {t, Link(t).owner} \subseteq disturbed
        BY <1>3, <1>6, <3>3 DEF Meets
      <4>2. QED
        BY <4>1
    <3>8. QED
      BY <1>1, <1>3, <1>6, <3>3, <3>4, <3>5, <3>6, <3>7
  <2>4. QED
    BY <2>2, <2>3
<1>7. CASE u = t /\ Linking(t)
  <2>1. Link(t)'.owner = t
    BY <1>3, <1>7, LinkSteps
  <2>2. QED
    BY <1>1, <1>7, <2>1, HostAssumption
<1>8. QED
  BY <1>3, <1>4, <1>5, <1>6, <1>7

\* The tunnel that makes a link has its device then.
LEMMA LinkingHolds ==
    ASSUME Kept, InOrder, NEW t \in Tunnels, Linking(t)
    PROVE  /\ t \in Alive /\ t \in Alive' /\ Holding(tunnel'[t]) /\ Device(t) \in Devices
           /\ DeviceOf(tunnel'[t]) = Device(t) /\ tunnel'[t].phase # "none"
<1>1. Operation(t) /\ Op(t) \in {"link", "device"} /\ tunnel[t].todo # <<>>
  BY Done DEF Linking
<1>2. /\ t \in Alive /\ Device(t) \in Devices
      /\ tunnel'[t].phase = tunnel[t].phase /\ tunnel'[t].config = tunnel[t].config
      /\ tunnel[t].phase \in {"creating", "settingUp", "up", "dropped"}
  BY <1>1, Beginnings, Busy, Stepped
<1>3. \/ tunnel[t].phase = "creating" /\ Op(t) = "link"
      \/ tunnel[t].phase = "settingUp" /\ ~Native(t) /\ Op(t) = "device"
  BY <1>1, Beginnings
<1>4. tunnel'[t].todo = Tail(tunnel[t].todo) /\ tunnel[t].todo \in Seq(Ops)
  BY <1>1, Stepped, LeftIs
<1>5. CASE tunnel[t].phase = "creating"
  <2>1. tunnel[t].todo \in Configuring
    BY <1>5 DEF Kept, Staged, Stage
  <2>2. Tail(tunnel[t].todo) = <<>> \/ Head(Tail(tunnel[t].todo)) # "link"
    BY <1>1, <2>1, TailConfigures
  <2>3. QED
    BY <1>2, <1>4, <1>5, <2>2 DEF Holding, Alive, Device, DeviceOf, IsNative, Native
<1>6. CASE tunnel[t].phase = "settingUp" /\ ~Native(t)
  <2>1. Sorted(tunnel[t].todo)
    BY <1>6 DEF InOrder, Ordered, IsNative, Native
  <2>2. Tail(tunnel[t].todo) # <<>> => Head(Tail(tunnel[t].todo)) # "device"
    BY <1>1, <1>4, <2>1, RankLeft
  <2>3. QED
    BY <1>2, <1>4, <1>6, <2>2 DEF Holding, Alive, Device, DeviceOf, IsNative, Native
<1>7. QED
  BY <1>3, <1>5, <1>6

LEMMA LinksMadeAfter ==
    ASSUME Kept, InOrder, LinksMade, NEW t \in Tunnels, Step(t)
    PROVE  LinksMade'
<1> DEFINE O(d) == host.links[d].owner
           P(d) == host'.links[d].owner
           Made(d) == /\ tunnel'[P(d)].phase # "none"
                      /\ P(d) \in Alive' => DeviceOf(tunnel'[P(d)]) = d
                      /\ tunnel'[P(d)].phase = "creating" => Holding(tunnel'[P(d)])
<1>1. /\ host.links \in [Devices -> LinkType] /\ host.routes \subseteq
             [destination : {"default", "subnets", "gateway"}, owner : Tunnels]
      /\ None \notin Tunnels
  BY HostParts, HostAssumption DEF Kept, Typed
<1>2. \A d \in Devices : O(d) \in Tunnels \cup {None}
  BY <1>1 DEF LinkType
<1>3. \A d \in Devices : O(d) # None =>
          /\ tunnel[O(d)].phase # "none"
          /\ O(d) \in Alive => DeviceOf(tunnel[O(d)]) = d
          /\ tunnel[O(d)].phase = "creating" => Holding(tunnel[O(d)])
  BY DEF LinksMade
<1>4. \A d \in Devices : P(d) = O(d) \/ (Linking(t) /\ d = Device(t) /\ P(d) = t)
                         \/ (Unlinking(t) /\ d = Device(t) /\ P(d) = None)
  BY LinkSteps
<1> HIDE DEF O, P
<1>5. ASSUME NEW d \in Devices, P(d) # None
      PROVE  Made(d)
  <2>1. CASE Linking(t) /\ d = Device(t) /\ P(d) = t
    BY <2>1, LinkingHolds
  <2>2. CASE P(d) = O(d) /\ O(d) # t
    <3>1. tunnel'[O(d)] = tunnel[O(d)]
      BY <1>2, <1>5, <2>2, OneTunnel
    <3>2. O(d) \in Alive' => O(d) \in Alive
      BY <2>2, Living
    <3>3. QED
      BY <1>3, <1>5, <2>2, <3>1, <3>2
  <2>3. CASE P(d) = O(d) /\ O(d) = t
    <3>1. /\ tunnel[t].phase # "none" /\ (t \in Alive => DeviceOf(tunnel[t]) = d)
          /\ tunnel[t].phase = "creating" => Holding(tunnel[t])
      BY <1>3, <1>5, <2>3
    <3>2. ~Create(t) /\ tunnel'[t].phase # "none"
      BY <3>1, Living
    <3>3. t \in Alive' => DeviceOf(tunnel'[t]) = d
      BY <3>1, <3>2, SameConfig
    <3>4. ASSUME tunnel'[t].phase = "creating"
          PROVE  Holding(tunnel'[t])
      <4>1. Operation(t)
        <5>1. NoTunnel.phase = "gone" /\ Dropped(t).phase = "dropped"
          BY DEF NoTunnel, InitTunnel, Dropped
        <5>2. tunnel[t] \in Object
          BY DEF Kept, Typed
        <5>3. /\ [tunnel[t] EXCEPT !.phase = "created"].phase = "created"
              /\ [tunnel[t] EXCEPT !.phase = "up", !.index = None].phase = "up"
          BY <5>2 DEF Object
        <5>4. Run(t) => tunnel'[t].phase = "settingUp"
          BY Runs
        <5>5. QED
          BY <3>2, <3>4, <5>1, <5>3, <5>4, Turned DEF Step
      <4>2. tunnel[t].phase = "creating"
        BY <3>4, <4>1, Stepped
      <4>3. /\ Op(t) # "unlink" /\ ~SetUpFails(t) /\ ~CreateFails(t) /\ ~CleanUpFails(t)
        <5>1. tunnel[t].todo # <<>>
          BY <4>1, Done
        <5>2. Op(t) # "unlink"
          BY <4>2, <5>1, Busy
        <5>3. NoTunnel.phase = "gone"
          BY DEF NoTunnel, InitTunnel
        <5>4. QED
          BY <3>4, <4>2, <5>2, <5>3, Turned
      <4>4. QED
        BY <3>1, <4>2, <4>3, HoldingLost
    <3>5. QED
      BY <2>3, <3>2, <3>3, <3>4
  <2>4. QED
    BY <1>4, <1>5, <2>1, <2>2, <2>3
<1>6. ASSUME NEW r \in host'.routes
      PROVE  \E d \in Devices : P(d) = r.owner
  <2>1. CASE Unlinking(t)
    <3>1. r \in host.routes /\ r.owner # Link(t).owner
      BY <2>1, LinkSteps
    <3>2. PICK d \in Devices : O(d) = r.owner
      BY <3>1 DEF LinksMade, O
    <3>3. d # Device(t)
      BY <3>1, <3>2 DEF O, Link
    <3>4. r.owner \in Tunnels
      BY <1>1, <3>1
    <3>5. QED
      BY <1>4, <3>2, <3>3
  <2>2. CASE ~Unlinking(t)
    <3>1. \/ r \in host.routes
          \/ Operation(t) /\ Op(t) \in RouteOps /\ r.owner = Link(t).owner
      <4>1. [destination |-> Op(t), owner |-> Link(t).owner].owner = Link(t).owner
        OBVIOUS
      <4>2. QED
        BY <2>2, <4>1, LinkSteps
    <3>2. CASE r \in host.routes
      <4>1. r.owner \in Tunnels
        BY <1>1, <3>2
      <4>2. PICK d \in Devices : O(d) = r.owner
        BY <3>2 DEF LinksMade, O
      <4>3. ~(Linking(t) /\ d = Device(t))
        <5>1. Linking(t) => O(Device(t)) = None
          BY DEF Linking, O, Link, NoLink
        <5>2. QED
          BY <1>1, <4>1, <4>2, <5>1
      <4>4. QED
        BY <1>4, <2>2, <4>2, <4>3
    <3>3. CASE Operation(t) /\ Op(t) \in RouteOps /\ r.owner = Link(t).owner
      <4>1. Device(t) \in Devices
        BY <3>3, Done, Busy
      <4>2. ~Linking(t)
        BY <3>3 DEF Linking, RouteOps
      <4>3. r.owner = O(Device(t))
        BY <3>3 DEF O, Link
      <4>4. QED
        BY <1>4, <2>2, <4>1, <4>2, <4>3
    <3>4. QED
      BY <3>1, <3>2, <3>3
  <2>3. QED
    BY <2>1, <2>2
<1>7. QED
  BY <1>5, <1>6 DEF LinksMade, P

\* What a failure may leave behind of the device.
LEMMA DeviceDamaged ==
    ASSUME Kept, NEW t \in Tunnels, "device" \notin damaged'
    PROVE  /\ CreateFails(t) => Op(t) \in {"link", "address"} /\ Link(t).owner # t
           /\ CleanUpFails(t) => Op(t) \notin {"unlink", "unstates", "unpolicies"}
           /\ ReKeyFails(t) => Op(t) \in {"newOut", "move", "leave"}
           /\ End(t) => ~("oldIn" \in Left(t) /\ "newOut" \notin Left(t))
<1>1. CreateFails(t) => Op(t) \in {"link", "address"} /\ Link(t).owner # t
  BY DEF CreateFails, Fail
<1>2. CleanUpFails(t) => Op(t) \notin {"unlink", "unstates", "unpolicies"}
  <2> SUFFICES ASSUME CleanUpFails(t), Op(t) \in {"unlink", "unstates", "unpolicies"}
               PROVE  FALSE
    OBVIOUS
  <2>1. damaged' = damaged \cup {"device"}
    BY DEF CleanUpFails, Fail
  <2>2. QED
    BY <2>1
<1>3. ReKeyFails(t) => Op(t) \in {"newOut", "move", "leave"}
  <2> SUFFICES ASSUME ReKeyFails(t), Op(t) \notin {"newOut", "move", "leave"}
               PROVE  FALSE
    OBVIOUS
  <2>1. damaged' = damaged \cup {"device"}
    BY DEF ReKeyFails, Fail
  <2>2. QED
    BY <2>1
<1>4. End(t) => ~("oldIn" \in Left(t) /\ "newOut" \notin Left(t))
  BY DEF End
<1>5. QED
  BY <1>1, <1>2, <1>3, <1>4

LEMMA LinksInUseAfter ==
    ASSUME Kept, InOrder, LinksMade, LinksInUse, NEW t \in Tunnels, Step(t)
    PROVE  LinksInUse'
<1> SUFFICES ASSUME "device" \notin damaged', NEW d \in Devices, host'.links[d].owner # None
             PROVE  /\ host'.links[d].owner \in Alive'
                    /\ Holding(tunnel'[host'.links[d].owner])
  BY DEF LinksInUse
<1> DEFINE o == host.links[d].owner
           p == host'.links[d].owner
<1>1. p = o \/ (Linking(t) /\ d = Device(t) /\ p = t)
  BY LinkSteps
<1>2. host.links \in [Devices -> LinkType] /\ "device" \notin damaged
  BY HostParts, OneTunnel DEF Kept, Typed
<1>3. CASE Linking(t) /\ d = Device(t) /\ p = t
  BY <1>3, LinkingHolds
<1>4. CASE p = o
  <2>1. /\ o \in Alive /\ Holding(tunnel[o]) /\ DeviceOf(tunnel[o]) = d
        /\ tunnel[o].phase # "none"
    BY <1>2, <1>4 DEF LinksInUse, LinksMade
  <2>2. CASE o # t
    BY <1>4, <2>1, <2>2, OneTunnel, Living DEF Alive
  <2>3. CASE o = t
    <3>1. Device(t) = d /\ Link(t).owner = t
      BY <2>1, <2>3 DEF Device, DeviceOf, IsNative, Native, Link
    <3>2. ~Unlinking(t)
      BY <1>4, <3>1, LinkSteps
    <3>3. ~CreateFails(t) /\ ~(CleanUpFails(t) /\ Op(t) = "unlink")
      BY <3>1, DeviceDamaged
    <3>4. Holding(tunnel'[t])
      BY <2>1, <2>3, <3>2, <3>3, HoldingLost DEF Unlinking
    <3>5. t \in Alive'
      BY <3>4 DEF Alive, Holding
    <3>6. QED
      BY <1>4, <2>3, <3>4, <3>5
  <2>4. QED
    BY <2>2, <2>3
<1>5. QED
  BY <1>1, <1>3, <1>4

-----------------------------------------------------------------------------
(* States and policies are in use *)

\* Where a rekey is when one of its operations is next.
LEMMA ReKeyHeads ==
    ASSUME NEW s \in Moving \cup Adding \cup Completing \cup Deleting, s # <<>>
    PROVE  /\ Head(s) = "newOut" => s \in Adding /\ Tail(s) \in Completing
           /\ Head(s) = "newIn" => /\ s \in Completing /\ Tail(s) \in Deleting
                                   /\ Head(Tail(s)) = "oldOut"
           /\ Head(s) = "oldOut" => s \in Deleting /\ Tail(s) \in Deleting
           /\ Head(s) = "oldIn" => s \in Deleting /\ Tail(s) \in Moving
           /\ Head(s) \in {"move", "leave"} <=> s \in Moving
           /\ s \in Moving => Tail(s) \in Moving
           /\ Head(s) \in {"newOut", "newIn", "oldOut", "oldIn", "move", "leave"}
<1>1. CASE s \in Moving
  BY <1>1, Moves
<1>2. CASE s \in Adding
  BY <1>2, Adds, Sorts
<1>3. CASE s \in Completing
  <2>1. Head(s) = "newIn" /\ Tail(s) \in Deleting /\ s \notin Moving
    BY <1>3, Completes, Sorts
  <2>2. Head(Tail(s)) = "oldOut"
    <3>1. CASE s = <<"newIn", "oldOut", "oldIn", "move", "leave">>
      BY <3>1
    <3>2. CASE s = <<"newIn", "oldOut", "oldIn">>
      BY <3>2
    <3>3. QED
      BY <1>3, <3>1, <3>2 DEF Completing
  <2>3. QED
    BY <1>3, <2>1, <2>2
<1>4. CASE s \in Deleting
  BY <1>4, Deletes, Sorts
<1>5. QED
  BY <1>1, <1>2, <1>3, <1>4

LEMMA EmptyLists ==
    /\ <<>> \in Moving /\ <<>> \notin Adding \cup Completing \cup Deleting
    /\ <<>> \in OutDone
BY DEF Moving, Adding, Completing, Deleting, OutDone

\* The operations of t on its states.
LEMMA KeyInUseOn ==
    ASSUME Kept, InOrder, NEW t \in Tunnels, Operation(t),
           NEW s \in host'.states, s.owner = t,
           s \in host.states => KeyInUse(tunnel[t], s.key, s.direction)
    PROVE  KeyInUse(tunnel'[t], s.key, s.direction)
<1> DEFINE v == tunnel[t]
           w == tunnel'[t]
           k == tunnel[t].key
<1>1. /\ v.todo # <<>> /\ v.todo \in Seq(Ops)
      /\ w.phase = v.phase /\ w.config = v.config /\ w.todo = Tail(v.todo)
      /\ w.key = IF Op(t) = "oldIn" THEN k + 1 ELSE k
      /\ v.phase \in {"creating", "settingUp", "up", "dropped"}
      /\ Op(t) = Head(v.todo)
  BY Done, LeftIs, Stepped, Busy DEF Op
<1>2. /\ s \in host.states \/ Op(t) \in {"out", "in", "newOut", "newIn"}
      /\ Op(t) \in {"out", "in"} => s \in host.states \/ s.key = k
      /\ Op(t) \in {"newOut", "newIn"} => s \in host.states \/ s.key = k + 1
  <2>1. \A x, d : Key(t, x, d).key = x
    BY DEF Key
  <2>2. QED
    BY <2>1, KeysBound
<1>3. /\ Op(t) = "oldOut" => ~(s.key = k /\ s.direction = "out")
      /\ Op(t) = "oldIn" => ~(s.key = k /\ s.direction = "in")
      /\ Op(t) = "unstates" => s.key # k
      /\ s.direction \in {"in", "out"}
  <2>1. s \in [owner : Tunnels, key : 1..MaxKey, direction : {"in", "out"}]
    BY HostAfter DEF Host
  <2>2. s = Key(t, s.key, s.direction) /\ s.direction \in {"in", "out"}
    BY <2>1 DEF Key
  <2>3. QED
    BY <2>2, KeysBound
<1>4. /\ v.phase = "creating" => v.todo \in Configuring /\ Native(t)
      /\ v.phase = "up" => v.todo \in Moving \cup Adding \cup Completing \cup Deleting
      /\ v.phase = "up" /\ v.todo \notin Moving => Native(t)
      /\ k \in 1..MaxKey /\ k \in Int
  <2>1. k \in 1..MaxKey
    BY <1>1, Busy DEF Object
  <2>2. QED
    BY <2>1, HostAssumption DEF Kept, Staged, Stage
<1>5. CASE v.phase = "creating"
  <2>1. Tail(v.todo) \in OutDone /\ s.key = k
    <3>1. CASE s \in host.states
      <4>1. s.key = k /\ v.todo \in OutDone
        BY <1>5, <3>1 DEF KeyInUse
      <4>2. QED
        BY <1>1, <1>4, <1>5, <4>1, TailConfigures
    <3>2. CASE s \notin host.states
      <4>1. Op(t) \in {"out", "in"}
        BY <1>1, <1>2, <1>5, <3>2, Busy
      <4>2. s.key = k
        BY <1>2, <3>2, <4>1
      <4>3. QED
        BY <1>1, <1>4, <1>5, <4>1, <4>2, TailConfigures
    <3>3. QED
      BY <3>1, <3>2
  <2>2. Op(t) # "oldIn"
    BY <1>1, <1>5, Busy
  <2>3. QED
    BY <1>1, <1>4, <1>5, <2>1, <2>2 DEF KeyInUse, IsNative, Native
<1>6. CASE v.phase = "settingUp"
  <2>1. Op(t) \in SetUpOps
    BY <1>1, <1>6, Busy
  <2>2. s \in host.states
    BY <1>2, <2>1 DEF SetUpOps
  <2>3. s.key = k /\ IsNative(v)
    BY <1>6, <2>2 DEF KeyInUse
  <2>4. w.key = k
    BY <1>1, <2>1 DEF SetUpOps
  <2>5. QED
    BY <1>1, <1>6, <2>3, <2>4 DEF KeyInUse, IsNative
<1>7. CASE v.phase = "dropped"
  <2>1. Op(t) \in CleanUpOps
    BY <1>1, <1>7, Busy
  <2>2. s \in host.states
    BY <1>2, <2>1 DEF CleanUpOps
  <2>3. s.key = k /\ IsNative(v) /\ "unstates" \in Els(v.todo)
    BY <1>7, <2>2 DEF KeyInUse
  <2>4. w.key = k /\ Op(t) # "unstates"
    BY <1>1, <1>3, <2>1, <2>3 DEF CleanUpOps
  <2>5. "unstates" \in Els(w.todo)
    BY <1>1, <2>3, <2>4, ElsTail
  <2>6. QED
    BY <1>1, <1>7, <2>3, <2>4, <2>5 DEF KeyInUse, IsNative
<1>8. CASE v.phase = "up"
  <2> DEFINE l == v.todo
             r == Tail(v.todo)
             Head2 == r # <<>> /\ Head(r) = "oldIn"
  <2>1. /\ l \in Moving \cup Adding \cup Completing \cup Deleting /\ l # <<>>
        /\ Op(t) \in {"newOut", "newIn", "oldOut", "oldIn", "move", "leave"}
        /\ Op(t) = "newOut" => l \in Adding /\ r \in Completing
        /\ Op(t) = "newIn" => l \in Completing /\ r \in Deleting /\ Head(r) = "oldOut"
        /\ Op(t) = "oldOut" => l \in Deleting /\ r \in Deleting
        /\ Op(t) = "oldIn" => l \in Deleting /\ r \in Moving
        /\ Op(t) \in {"move", "leave"} => l \in Moving /\ r \in Moving
    BY <1>1, <1>4, <1>8, ReKeyHeads
  <2>2. r \in Moving => ~Head2
    BY Moves
  <2>3. r \in Completing => ~Head2
    BY Completes
  <2>4. /\ l \in Moving => l \notin Completing \cup Deleting
        /\ l \in Adding => l \notin Completing \cup Deleting
    BY Sorts
  <2>5. s \in host.states => /\ IsNative(v)
                             /\ \/ s.key = k /\ (Op(t) = "oldIn" => s.direction = "in")
                                \/ s.key = k + 1 /\ l \in Completing \cup Deleting
    BY <1>1, <1>8 DEF KeyInUse
  <2>6. IsNative(v)
    <3>1. s \notin host.states => Op(t) \in {"newOut", "newIn"}
      BY <1>2, <2>1
    <3>2. s \notin host.states => l \notin Moving
      BY <2>1, <3>1, Sorts
    <3>3. QED
      BY <1>4, <1>8, <2>5, <3>2 DEF IsNative, Native
  <2> HIDE DEF l, r, k, Head2
  <2>7. \/ s.key = w.key /\ (Head2 => s.direction = "in")
        \/ s.key = w.key + 1 /\ r \in Completing \cup Deleting
    <3>1. CASE Op(t) = "newOut"
      BY <1>1, <1>2, <2>1, <2>3, <2>4, <2>5, <3>1
    <3>2. CASE Op(t) = "newIn"
      <4>1. ~Head2
        BY <2>1, <3>2 DEF Head2
      <4>2. QED
        BY <1>1, <1>2, <2>1, <2>5, <3>2, <4>1
    <3>3. CASE Op(t) = "oldOut"
      <4>1. s \in host.states
        BY <1>2, <3>3
      <4>2. s.key = k => s.direction = "in"
        BY <1>3, <3>3
      <4>3. QED
        BY <1>1, <2>1, <2>5, <3>3, <4>1, <4>2
    <3>4. CASE Op(t) = "oldIn"
      <4>1. s \in host.states
        BY <1>2, <3>4
      <4>2. s.key = k + 1
        BY <1>3, <2>5, <3>4, <4>1
      <4>3. QED
        BY <1>1, <2>1, <2>2, <3>4, <4>2
    <3>5. CASE Op(t) \in {"move", "leave"}
      <4>1. s \in host.states
        BY <1>2, <3>5
      <4>2. s.key = k
        BY <2>1, <2>4, <2>5, <3>5, <4>1
      <4>3. QED
        BY <1>1, <2>1, <2>2, <3>5, <4>2
    <3>6. QED
      BY <2>1, <3>1, <3>2, <3>3, <3>4, <3>5
  <2>8. w.todo = r /\ w.phase = "up" /\ IsNative(w)
    BY <1>1, <1>8, <2>6 DEF r, IsNative
  <2>9. QED
    BY <2>7, <2>8 DEF KeyInUse, Head2
<1>9. QED
  BY <1>1, <1>5, <1>6, <1>7, <1>8

\* Between its two halves a rekey still has to delete an old state and no more to add one.
LEMMA InCompletion ==
    ASSUME NEW s \in Completing \cup Deleting
    PROVE  "oldIn" \in Els(s) /\ "newOut" \notin Els(s)
<1> DEFINE S == {"newIn", "oldOut", "oldIn", "move", "leave"}
<1>1. s \in Seq(S)
  <2>1. Completing \subseteq Seq(S)
    BY DEF Completing
  <2>2. Deleting \subseteq Seq(S)
    BY DEF Deleting
  <2>3. QED
    BY <2>1, <2>2
<1>2. "newOut" \notin Els(s)
  BY <1>1, ElementOfSeq DEF Els
<1>3. \E i \in 1..Len(s) : s[i] = "oldIn"
  <2>1. CASE s = <<"newIn", "oldOut", "oldIn", "move", "leave">>
    <3>1. Len(s) = 5 /\ s[3] = "oldIn"
      BY <2>1
    <3>2. QED
      BY <3>1
  <2>2. CASE s = <<"newIn", "oldOut", "oldIn">>
    <3>1. Len(s) = 3 /\ s[3] = "oldIn"
      BY <2>2
    <3>2. QED
      BY <3>1
  <2>3. CASE s = <<"oldOut", "oldIn", "move", "leave">>
    <3>1. Len(s) = 4 /\ s[2] = "oldIn"
      BY <2>3
    <3>2. QED
      BY <3>1
  <2>4. CASE s = <<"oldOut", "oldIn">>
    <3>1. Len(s) = 2 /\ s[2] = "oldIn"
      BY <2>4
    <3>2. QED
      BY <3>1
  <2>5. CASE s = <<"oldIn", "move", "leave">>
    <3>1. Len(s) = 3 /\ s[1] = "oldIn"
      BY <2>5
    <3>2. QED
      BY <3>1
  <2>6. CASE s = <<"oldIn">>
    <3>1. Len(s) = 1 /\ s[1] = "oldIn"
      BY <2>6
    <3>2. QED
      BY <3>1
  <2>7. QED
    BY <2>1, <2>2, <2>3, <2>4, <2>5, <2>6 DEF Completing, Deleting
<1>4. QED
  BY <1>2, <1>3 DEF Els

\* Its operations on its policies.
LEMMA PoliciesInUseOn ==
    ASSUME Kept, NEW t \in Tunnels, Operation(t), t \in host'.policies,
           t \in host.policies => PoliciesInUse(tunnel[t])
    PROVE  PoliciesInUse(tunnel'[t])
<1> DEFINE v == tunnel[t]
           w == tunnel'[t]
<1>1. /\ v.todo # <<>> /\ v.todo \in Seq(Ops)
      /\ w.phase = v.phase /\ w.config = v.config /\ w.todo = Tail(v.todo)
      /\ v.phase \in {"creating", "settingUp", "up", "dropped"}
      /\ Op(t) = Head(v.todo)
  BY Done, LeftIs, Stepped, Busy DEF Op
<1>2. t \in host.policies \/ Op(t) = "policies"
  BY KeysBound
<1>3. Op(t) # "unpolicies"
  BY KeysBound
<1>4. CASE v.phase = "creating"
  <2>1. v.todo \in Configuring /\ Native(t)
    BY <1>4 DEF Kept, Staged, Stage
  <2>2. Op(t) = "policies"
    BY <1>1, <1>2, <1>4 DEF PoliciesInUse
  <2>3. Tail(v.todo) = <<>>
    BY <1>1, <2>1, <2>2, TailConfigures
  <2>4. QED
    BY <1>1, <1>4, <2>1, <2>3 DEF PoliciesInUse, IsNative, Native
<1>5. CASE v.phase # "creating"
  <2>1. Op(t) # "policies"
    BY <1>1, <1>5, Busy DEF SetUpOps, CleanUpOps
  <2>2. PoliciesInUse(v)
    BY <1>2, <2>1
  <2>3. v.phase = "dropped" => "unpolicies" \in Els(w.todo)
    BY <1>1, <1>3, <2>2, ElsTail DEF PoliciesInUse
  <2>4. QED
    BY <1>1, <1>5, <2>2, <2>3 DEF PoliciesInUse, IsNative
<1>6. QED
  BY <1>4, <1>5

\* The other steps of t: what it has is still in use, or may be left behind.
LEMMA XfrmInUseOn ==
    ASSUME Kept, InOrder, NEW t \in Tunnels, Step(t), ~Operation(t), "device" \notin damaged'
    PROVE  /\ \A k, x : KeyInUse(tunnel[t], k, x) => KeyInUse(tunnel'[t], k, x)
           /\ PoliciesInUse(tunnel[t]) => PoliciesInUse(tunnel'[t])
<1> DEFINE v == tunnel[t]
           w == tunnel'[t]
           Goal == /\ \A k, x : KeyInUse(v, k, x) => KeyInUse(w, k, x)
                   /\ PoliciesInUse(v) => PoliciesInUse(w)
<1>1. tunnel[t] \in Object /\ v.phase \in {"none", "created", "gone"} => v.todo = <<>>
  BY DEF Kept, Typed, Staged, Stage
<1>2. v.phase = "up" => v.todo \in Moving \cup Adding \cup Completing \cup Deleting
  BY DEF Kept, Staged, Stage
<1>3. CASE Create(t) \/ Gone(t)
  <2>1. \/ v.phase = "none"
        \/ v.phase = "dropped" /\ v.todo = <<>>
    BY <1>3, Turned
  <2>2. /\ \A k, x : ~KeyInUse(v, k, x)
        /\ ~PoliciesInUse(v)
    BY <2>1, ElsEmpty DEF KeyInUse, PoliciesInUse
  <2>3. QED
    BY <2>2
<1>4. CASE Created(t) \/ Up(t)
  <2>1. /\ v.todo = <<>> /\ w.todo = <<>> /\ w.config = v.config /\ w.key = v.key
        /\ \/ v.phase = "creating" /\ w.phase = "created"
           \/ v.phase = "settingUp" /\ w.phase = "up"
    <3>1. \/ v.phase = "creating" /\ v.todo = <<>> /\ w = [v EXCEPT !.phase = "created"]
          \/ v.phase = "settingUp" /\ v.todo = <<>> /\ w = [v EXCEPT !.phase = "up", !.index = None]
      BY <1>4, Turned
    <3>2. /\ [v EXCEPT !.phase = "created"].todo = v.todo
          /\ [v EXCEPT !.phase = "created"].config = v.config
          /\ [v EXCEPT !.phase = "created"].key = v.key
          /\ [v EXCEPT !.phase = "created"].phase = "created"
      BY <1>1 DEF Object
    <3>3. /\ [v EXCEPT !.phase = "up", !.index = None].todo = v.todo
          /\ [v EXCEPT !.phase = "up", !.index = None].config = v.config
          /\ [v EXCEPT !.phase = "up", !.index = None].key = v.key
          /\ [v EXCEPT !.phase = "up", !.index = None].phase = "up"
      BY <1>1 DEF Object
    <3>4. QED
      BY <3>1, <3>2, <3>3
  <2> HIDE DEF v, w
  <2>2. Goal
    BY <2>1 DEF KeyInUse, PoliciesInUse, IsNative
  <2>3. QED
    BY <2>2 DEF v, w
<1>5. CASE Run(t)
  <2>1. v.phase = "created"
    BY <1>5 DEF Run
  <2>2. w.phase = "settingUp" /\ w.config = v.config /\ w.key = v.key
    BY <1>5, Runs
  <2> HIDE DEF v, w
  <2>3. Goal
    BY <2>1, <2>2 DEF KeyInUse, PoliciesInUse, IsNative
  <2>4. QED
    BY <2>3 DEF v, w
<1>6. CASE StartReKey(t)
  <2>1. v.phase = "up" /\ v.todo = <<>> /\ w.phase = "up" /\ w.config = v.config
    BY <1>6, Turned
  <2>2. IsNative(v) => /\ w.key = v.key
                       /\ w.todo \in Adding
    <3>1. PICK a \in Addresses :
              tunnel' = [tunnel EXCEPT ![t] =
                  [@ EXCEPT !.todo = ReKey(t, a # tunnel[t].address),
                            !.address = IF Native(t) THEN tunnel[t].address ELSE a,
                            !.other = IF Native(t) THEN a ELSE tunnel[t].address,
                            !.key = tunnel[t].key + (IF Native(t) THEN 0 ELSE 1)]]
      BY <1>6 DEF StartReKey
    <3>2. tunnel \in [Tunnels -> Object] /\ v.key \in Int
      BY <1>1, HostAssumption DEF Kept, Typed, Object
    <3>3. Native(t) => w.key = v.key + 0 /\ w.todo = ReKey(t, a # tunnel[t].address)
      BY <3>1, <3>2 DEF Object
    <3>4. Native(t) => ReKey(t, a # tunnel[t].address) \in Adding
      BY ReKeys
    <3>5. Native(t) => w.key = v.key
      BY <3>2, <3>3
    <3>6. QED
      BY <3>3, <3>4, <3>5 DEF IsNative, Native
  <2>3. w.todo \in Adding => Head(w.todo) # "oldIn"
    BY Adds
  <2> HIDE DEF v, w
  <2>4. Goal
    BY <2>1, <2>2, <2>3, EmptyLists DEF KeyInUse, PoliciesInUse, IsNative
  <2>5. QED
    BY <2>4 DEF v, w
<1>7. CASE End(t) \/ SetUpFails(t)
  <2>1. /\ w = Dropped(t) /\ v.phase \in {"settingUp", "up"}
        /\ v.phase = "up" => End(t)
    <3>1. SetUpFails(t) => v.phase = "settingUp"
      BY Turned
    <3>2. QED
      BY <1>7, <3>1, Turned
  <2>2. v.config \in Config
    BY <2>1, HostAssumption DEF Kept, Staged, Stage
  <2>3. /\ w.phase = "dropped" /\ w.config = v.config /\ w.key = v.key
        /\ Native(t) => "unstates" \in Els(w.todo) /\ "unpolicies" \in Els(w.todo)
    BY <2>1, <2>2, Drops
  <2>4. v.phase = "up" => v.todo \notin Completing \cup Deleting
    <3> SUFFICES ASSUME v.phase = "up", v.todo \in Completing \cup Deleting
                 PROVE  FALSE
      OBVIOUS
    <3>1. Left(t) = Els(v.todo)
      BY LeftIs
    <3>2. "oldIn" \in Els(v.todo) /\ "newOut" \notin Els(v.todo)
      BY InCompletion
    <3>3. QED
      BY <2>1, <3>1, <3>2, DeviceDamaged
  <2>5. IsNative(v) <=> Native(t)
    BY DEF IsNative, Native
  <2> HIDE DEF v, w
  <2>6. Goal
    BY <2>1, <2>3, <2>4, <2>5 DEF KeyInUse, PoliciesInUse, IsNative
  <2>7. QED
    BY <2>6 DEF v, w
<1>8. CASE CreateFails(t)
  <2>1. v.phase = "creating" /\ v.todo # <<>> /\ Op(t) \in {"link", "address"}
    BY <1>8, Turned, DeviceDamaged
  <2>2. v.todo \in Configuring
    BY <2>1 DEF Kept, Staged, Stage
  <2>3. v.todo \notin OutDone
    BY <2>1 DEF OutDone, Op
  <2>4. QED
    BY <2>1, <2>3 DEF KeyInUse, PoliciesInUse
<1>9. CASE ReKeyFails(t)
  <2>1. v.phase = "up" /\ v.todo # <<>> /\ w.phase = "up" /\ w.config = v.config
    BY <1>9, Turned
  <2>2. Op(t) \in {"newOut", "move", "leave"}
    BY <1>9, DeviceDamaged
  <2>3. w = [v EXCEPT !.todo = <<>>, !.other = None]
    BY <1>1, <1>9, <2>2 DEF ReKeyFails, Kept, Typed
  <2>4. w.todo = <<>> /\ w.key = v.key
    BY <1>1, <2>3 DEF Object
  <2>5. v.todo \notin Completing \cup Deleting
    BY <1>2, <2>1, <2>2, ReKeyHeads, Sorts DEF Op
  <2> HIDE DEF v, w
  <2>6. Goal
    BY <2>1, <2>4, <2>5 DEF KeyInUse, PoliciesInUse, IsNative
  <2>7. QED
    BY <2>6 DEF v, w
<1>10. CASE CleanUpFails(t)
  <2>1. v.phase = "dropped" /\ w.phase = "dropped" /\ w.config = v.config /\ w.key = v.key
    BY <1>10, Turned
  <2>2. /\ Op(t) \notin {"unstates", "unpolicies"} /\ Op(t) \in CleanUpOps
        /\ \A x \in Els(v.todo) : x \in Els(w.todo) \/ x \in SkippedWith(Op(t))
    BY <1>10, Skipped, DeviceDamaged
  <2>3. {"unstates", "unpolicies"} \cap SkippedWith(Op(t)) = {}
    BY <2>2 DEF SkippedWith, CleanUpOps
  <2>4. /\ "unstates" \in Els(v.todo) => "unstates" \in Els(w.todo)
        /\ "unpolicies" \in Els(v.todo) => "unpolicies" \in Els(w.todo)
    BY <2>2, <2>3
  <2> HIDE DEF v, w
  <2>5. Goal
    BY <2>1, <2>4 DEF KeyInUse, PoliciesInUse, IsNative
  <2>6. QED
    BY <2>5 DEF v, w
<1>11. QED
  BY <1>3, <1>4, <1>5, <1>6, <1>7, <1>8, <1>9, <1>10 DEF Step

LEMMA KeysInUseAfter ==
    ASSUME Kept, InOrder, KeysInUse, NEW t \in Tunnels, Step(t)
    PROVE  KeysInUse'
<1> SUFFICES ASSUME "device" \notin damaged'
             PROVE  /\ \A s \in host'.states : KeyInUse(tunnel'[s.owner], s.key, s.direction)
                    /\ \A u \in host'.policies : PoliciesInUse(tunnel'[u])
  BY DEF KeysInUse
<1>1. /\ \A s \in host.states : KeyInUse(tunnel[s.owner], s.key, s.direction)
      /\ \A u \in host.policies : PoliciesInUse(tunnel[u])
  BY OneTunnel DEF KeysInUse
<1>2. host \in Host
  BY DEF Kept, Typed
<1>3. CASE Operation(t)
  <2>1. host' \in Host
    BY <1>3, HostAfter
  <2>2. /\ \A s \in host'.states : s.owner \in Tunnels /\ (s.owner # t => s \in host.states)
        /\ \A u \in host'.policies : u \in Tunnels /\ (u # t => u \in host.policies)
    <3>1. /\ host'.states \subseteq [owner : Tunnels, key : 1..MaxKey, direction : {"in", "out"}]
          /\ host'.policies \subseteq Tunnels
      BY <2>1 DEF Host
    <3>2. \A k, x : Key(t, k, x).owner = t
      BY DEF Key
    <3>3. QED
      BY <1>3, <3>1, <3>2, KeysBound
  <2>3. ASSUME NEW s \in host'.states
        PROVE  KeyInUse(tunnel'[s.owner], s.key, s.direction)
    <3>1. CASE s.owner = t
      BY <1>1, <1>3, <3>1, KeyInUseOn
    <3>2. CASE s.owner # t
      BY <1>1, <2>2, <3>2, OneTunnel
    <3>3. QED
      BY <3>1, <3>2
  <2>4. ASSUME NEW u \in host'.policies
        PROVE  PoliciesInUse(tunnel'[u])
    <3>1. CASE u = t
      BY <1>1, <1>3, <3>1, PoliciesInUseOn
    <3>2. CASE u # t
      BY <1>1, <2>2, <3>2, OneTunnel
    <3>3. QED
      BY <3>1, <3>2
  <2>5. QED
    BY <2>3, <2>4
<1>4. CASE ~Operation(t)
  <2>1. host'.states = host.states /\ host'.policies = host.policies
    <3>1. CASE CreateFails(t)
      BY <1>2, <3>1, HostParts DEF CreateFails
    <3>2. CASE SetUpFails(t)
      BY <1>2, <3>2, HostParts DEF SetUpFails, Unlinked
    <3>3. QED
      BY <1>4, <3>1, <3>2, OneTunnel DEF Step, Turn
  <2>2. \A s \in host.states : s.owner \in Tunnels
    BY <1>2, HostParts
  <2>3. host.policies \subseteq Tunnels
    BY <1>2, HostParts
  <2>4. \A u \in Tunnels : /\ \A k, x : KeyInUse(tunnel[u], k, x) => KeyInUse(tunnel'[u], k, x)
                           /\ PoliciesInUse(tunnel[u]) => PoliciesInUse(tunnel'[u])
    BY <1>4, XfrmInUseOn, OneTunnel
  <2>5. QED
    BY <1>1, <2>1, <2>2, <2>3, <2>4
<1>5. QED
  BY <1>3, <1>4

-----------------------------------------------------------------------------
(* Routing and DNS are in use *)

Undo(op) ==
    CASE op = "rule" -> "unrule"
      [] op = "keepalive" -> "unkeepalive"
      [] op = "noIPv6" -> "ipv6"
      [] OTHER -> "unwrite"

\* What a failure may leave behind of these.
LEMMA RestDamaged ==
    ASSUME NEW t \in Tunnels
    PROVE  /\ "routing" \notin damaged' =>
                  /\ SetUpFails(t) /\ ~Native(t) =>
                         Op(t) \notin {"default", "noIPv6", "gateway", "subnets", "keepalive"}
                  /\ CleanUpFails(t) =>
                         /\ Op(t) \notin {"unrule", "ipv6", "unkeepalive"}
                         /\ Op(t) = "index" => ~CanDo(t) /\ t \notin disturbed
           /\ "dns" \notin damaged' /\ CleanUpFails(t) =>
                  Op(t) \notin {"read", "truncate", "unwrite"}
           /\ "others" \notin damaged' =>
                  /\ SetUpFails(t) => Op(t) # "write"
                  /\ CleanUpFails(t) => Op(t) # "unwrite"
<1>1. ASSUME SetUpFails(t), ~Native(t),
             Op(t) \in {"default", "noIPv6", "gateway", "subnets", "keepalive"}
      PROVE  "routing" \in damaged'
  <2>1. damaged' = damaged \cup {"routing"}
    BY <1>1 DEF SetUpFails, Fail
  <2>2. QED
    BY <2>1
<1>2. ASSUME CleanUpFails(t), Op(t) \in {"unrule", "ipv6", "unkeepalive"}
      PROVE  "routing" \in damaged'
  <2>1. damaged' = damaged \cup {"routing"}
    BY <1>2 DEF CleanUpFails, Fail
  <2>2. QED
    BY <2>1
<1>3. ASSUME CleanUpFails(t), Op(t) = "index", CanDo(t) \/ t \in disturbed
      PROVE  "routing" \in damaged'
  <2>1. damaged' = damaged \cup {"routing"}
    BY <1>3 DEF CleanUpFails, Fail
  <2>2. QED
    BY <2>1
<1>4. ASSUME CleanUpFails(t), Op(t) \in {"read", "truncate", "unwrite"}
      PROVE  "dns" \in damaged' /\ (Op(t) = "unwrite" => "others" \in damaged')
  <2>1. damaged' = damaged \cup (IF Op(t) = "unwrite" THEN {"dns", "others"} ELSE {"dns"})
    BY <1>4 DEF CleanUpFails, Fail
  <2>2. QED
    BY <2>1
<1>5. ASSUME SetUpFails(t), Op(t) = "write"
      PROVE  "others" \in damaged'
  <2>1. damaged' = damaged \cup {"others"}
    BY <1>5 DEF SetUpFails, Fail
  <2>2. QED
    BY <2>1
<1>6. QED
  BY <1>1, <1>2, <1>3, <1>4, <1>5

LEMMA RankOrder ==
    ASSUME NEW x, NEW y, NEW z, Rank(x) > Rank(y), Rank(y) > Rank(z)
    PROVE  Rank(x) > Rank(z)
<1>1. Rank(x) \in Int /\ Rank(y) \in Int /\ Rank(z) \in Int
  BY Ranks
<1>2. QED
  BY <1>1

\* What a tunnel has set up it keeps until it undoes it.
LEMMA KeepingOn ==
    ASSUME Kept, InOrder, HoldsLink, NEW t \in Tunnels, Step(t),
           NEW op \in {"rule", "keepalive", "noIPv6", "write"},
           op = "keepalive" => tunnel[t].config.kind # "ssl",
           op = "noIPv6" => tunnel[t].config.disable_ipv6,
           op = "write" => tunnel[t].config.dns /\ host.resolver # "resolved"
                           /\ "dns" \notin damaged',
           op # "write" => "routing" \notin damaged',
           Keeping(tunnel[t], op, Undo(op))
    PROVE  /\ Keeping(tunnel'[t], op, Undo(op)) \/ (Operation(t) /\ Op(t) = Undo(op))
           /\ t \in Alive /\ t \in Alive' /\ tunnel'[t].config = tunnel[t].config
<1> DEFINE v == tunnel[t]
           w == tunnel'[t]
           undo == Undo(op)
           Goal == Keeping(w, op, undo) \/ (Operation(t) /\ Op(t) = undo)
<1>1. v.phase \in {"settingUp", "up", "dropped"}
  BY DEF Keeping
<1>2. tunnel[t] \in Object /\ v.config \in Config /\ t \in Alive
  BY <1>1, HostAssumption DEF Kept, Typed, Staged, Stage, Alive
<1>3. CASE Operation(t)
  <2>1. v.todo # <<>> /\ v.todo \in Seq(Ops)
    BY <1>3, Done, LeftIs
  <2>2. w.phase = v.phase /\ w.config = v.config /\ w.todo = Tail(v.todo)
    BY <1>3, Stepped
  <2>3. ASSUME v.phase = "settingUp", ~Native(t)
        PROVE  w.todo = <<>> \/ Rank(Head(w.todo)) > Rank(op)
    <3>1. Sorted(v.todo)
      BY <2>3 DEF InOrder, Ordered, IsNative, Native
    <3>2. Rank(Head(v.todo)) > Rank(op)
      BY <2>1, <2>3 DEF Keeping, IsNative, Native
    <3>3. w.todo # <<>> => Rank(Head(w.todo)) > Rank(Head(v.todo))
      BY <2>1, <2>2, <3>1, RankLeft
    <3>4. QED
      BY <3>2, <3>3, RankOrder
  <2>4. v.phase = "dropped" => undo \in Els(w.todo) \/ Op(t) = undo
    BY <2>1, <2>2, ElsTail DEF Keeping, Op
  <2>5. Native(t) <=> IsNative(w)
    BY <2>2 DEF Native, IsNative
  <2> HIDE DEF v, w, undo
  <2>6. Goal
    BY <1>1, <1>3, <2>2, <2>3, <2>4, <2>5 DEF Keeping
  <2>7. QED
    BY <1>1, <1>2, <2>2, <2>6 DEF Alive, v, w, undo
<1>4. CASE Up(t) \/ StartReKey(t) \/ ReKeyFails(t)
  <2>1. w.phase = "up" /\ w.config = v.config
    <3>1. [v EXCEPT !.phase = "up", !.index = None].phase = "up"
          /\ [v EXCEPT !.phase = "up", !.index = None].config = v.config
      BY <1>2 DEF Object
    <3>2. QED
      BY <1>4, <3>1, Turned
  <2>2. QED
    BY <1>2, <2>1 DEF Keeping, Alive
<1>5. CASE End(t) \/ SetUpFails(t)
  <2>1. /\ w = Dropped(t) /\ v.phase \in {"settingUp", "up"}
        /\ v.phase = "settingUp" => SetUpFails(t) /\ v.todo # <<>>
    BY <1>5, Turned
  <2>2. /\ w.phase = "dropped" /\ w.config = v.config
        /\ Native(t) => Undoes(w.todo, v.config, TRUE)
        /\ ~Native(t) /\ HasDevice(t) => Undoes(w.todo, v.config, HasRouting(t))
    BY <1>2, <2>1, Drops
  <2>3. ~Native(t) => HasDevice(t) /\ (op # "write" => HasRouting(t))
    <3> SUFFICES ASSUME ~Native(t)
                 PROVE  HasDevice(t) /\ (op # "write" => HasRouting(t))
      OBVIOUS
    <3>1. CASE v.phase = "up"
      BY <3>1, Stored
    <3>2. CASE v.phase = "settingUp"
      <4>1. Rank(Op(t)) > Rank(op) /\ Op(t) \in SetUpOps
        BY <2>1, <3>2, Busy DEF Keeping, IsNative, Native, Op
      <4>2. Op(t) \in {"default", "noIPv6", "gateway", "subnets", "keepalive"} \cup DnsOps
            /\ op # "write"
        BY <4>1 DEF Rank, SetUpOps, DnsOps
      <4>3. Op(t) \in DnsOps
        BY <2>1, <3>2, <4>2, RestDamaged
      <4>4. QED
        BY <2>1, <3>2, <4>3, Stored DEF DnsOps
    <3>3. QED
      BY <2>1, <3>1, <3>2
  <2>4. undo \in Els(w.todo)
    <3>1. host.resolver \in {"resolved", "resolv.conf"}
      BY OneTunnel
    <3>2. CASE Native(t)
      BY <2>2, <3>1, <3>2 DEF Undoes, Undo
    <3>3. CASE ~Native(t)
      BY <2>2, <2>3, <3>1, <3>3 DEF Undoes, Undo
    <3>4. QED
      BY <3>2, <3>3
  <2>5. QED
    BY <1>2, <2>2, <2>4 DEF Keeping, Alive
<1>6. CASE CleanUpFails(t)
  <2>1. /\ v.phase = "dropped" /\ v.todo # <<>> /\ w.phase = "dropped"
        /\ w.config = v.config
    BY <1>6, Turned
  <2>2. /\ Op(t) \in CleanUpOps /\ v.todo \in Seq(CleanUpOps)
        /\ \A x \in Els(v.todo) : x \in Els(w.todo) \/ x \in SkippedWith(Op(t))
    BY <1>6, Skipped
  <2>3. undo \in Els(v.todo)
    BY <2>1 DEF Keeping
  <2>4. undo \notin SkippedWith(Op(t))
    <3>1. CASE op = "write"
      <4>1. Op(t) \notin {"read", "truncate", "unwrite"}
        BY <1>6, <3>1, RestDamaged
      <4>2. QED
        BY <2>2, <3>1, <4>1 DEF SkippedWith, CleanUpOps, Undo
    <3>2. CASE op # "write"
      <4>1. Op(t) \notin {"unrule", "ipv6", "unkeepalive"}
            /\ (Op(t) = "index" => ~CanDo(t) /\ t \notin disturbed)
        BY <1>6, <3>2, RestDamaged
      <4>2. Op(t) # "index"
        <5> SUFFICES ASSUME Op(t) = "index"
                     PROVE  FALSE
          OBVIOUS
        <5>1. Op(t) \in Els(v.todo)
          BY <2>1, <2>2, ElsTail DEF Op
        <5>2. Native(t)
          BY <2>1, <5>1 DEF InOrder, Ordered, IsNative, Native
        <5>3. Holding(v)
          BY <2>1 DEF Holding
        <5>4. Link(t).owner # None
          BY <1>2, <4>1, <5>2, <5>3 DEF HoldsLink
        <5>5. Link(t) # NoLink
          BY <5>4 DEF NoLink
        <5>6. QED
          BY <4>1, <5>5 DEF CanDo
      <4>3. QED
        BY <2>2, <3>2, <4>1, <4>2 DEF SkippedWith, CleanUpOps, Undo
    <3>3. QED
      BY <3>1, <3>2
  <2>5. QED
    BY <1>2, <2>1, <2>2, <2>3, <2>4 DEF Keeping, Alive
<1>7. CASE Create(t) \/ Created(t) \/ Run(t) \/ Gone(t) \/ CreateFails(t)
  <2>1. v.phase \in {"none", "creating", "created"} \/ (v.phase = "dropped" /\ v.todo = <<>>)
    BY <1>7, Turned DEF Run
  <2>2. ~Keeping(v, op, undo)
    BY <2>1, ElsEmpty DEF Keeping
  <2>3. QED
    BY <2>2
<1>8. QED
  BY <1>3, <1>4, <1>5, <1>6, <1>7 DEF Step

\* From the operation on a tunnel has it.
LEMMA KeepingStarts ==
    ASSUME Kept, InOrder, NEW t \in Tunnels, Operation(t),
           Op(t) \in {"rule", "keepalive", "noIPv6", "write"}
    PROVE  /\ Keeping(tunnel'[t], Op(t), Undo(Op(t)))
           /\ t \in Alive' /\ t \in Alive /\ tunnel'[t].config = tunnel[t].config
           /\ Op(t) = "keepalive" => tunnel[t].config.kind # "ssl"
           /\ Op(t) = "noIPv6" => tunnel[t].config.full /\ tunnel[t].config.disable_ipv6
           /\ Op(t) = "write" => tunnel[t].config.dns /\ host.resolver # "resolved"
<1> DEFINE v == tunnel[t]
           w == tunnel'[t]
<1>1. /\ v.todo # <<>> /\ v.todo \in Seq(Ops) /\ t \in Alive
      /\ w.phase = v.phase /\ w.config = v.config /\ w.todo = Tail(v.todo)
  BY Done, LeftIs, Beginnings, Stepped
<1>2. v.phase = "settingUp"
  BY <1>1, Busy DEF CleanUpOps
<1>3. Ordered(v, host.resolver)
  BY DEF InOrder
<1>4. Op(t) \in Needed(v.config, host.resolver)
  <2>1. Op(t) \in Els(v.todo)
    BY <1>1, ElsTail DEF Op
  <2>2. Op(t) \in Marks
    BY DEF Marks
  <2>3. QED
    BY <1>2, <1>3, <2>1, <2>2 DEF Ordered
<1>5. ~Native(t) => w.todo = <<>> \/ Rank(Head(w.todo)) > Rank(Op(t))
  <2> SUFFICES ASSUME ~Native(t)
               PROVE  w.todo = <<>> \/ Rank(Head(w.todo)) > Rank(Op(t))
    OBVIOUS
  <2>1. Sorted(v.todo)
    BY <1>2, <1>3 DEF Ordered, IsNative, Native
  <2>2. QED
    BY <1>1, <2>1, RankLeft DEF Op
<1>6. Native(t) <=> IsNative(w)
  BY <1>1 DEF Native, IsNative
<1>7. Keeping(w, Op(t), Undo(Op(t))) /\ t \in Alive'
  BY <1>1, <1>2, <1>5, <1>6 DEF Keeping, Alive
<1>8. QED
  BY <1>1, <1>4, <1>7 DEF Needed

\* Who keeps something has its device.
LEMMA KeepingHolds ==
    ASSUME Kept, InOrder, NEW t \in Tunnels, NEW op \in {"rule", "keepalive", "noIPv6", "write"},
           NEW undo, Keeping(tunnel[t], op, undo)
    PROVE  t \in Alive /\ Holding(tunnel[t])
<1> DEFINE v == tunnel[t]
<1>1. v.phase \in {"settingUp", "up", "dropped"}
  BY DEF Keeping
<1>2. CASE v.phase = "settingUp"
  <2>1. v.todo = <<>> \/ Op(t) # "device"
    <3>1. CASE Native(t)
      BY <1>2, <3>1, Beginnings
    <3>2. CASE ~Native(t)
      <4>1. v.todo = <<>> \/ Rank(Op(t)) > Rank(op)
        BY <1>2, <3>2 DEF Keeping, IsNative, Native, Op
      <4>2. ~(Rank("device") > Rank(op))
        BY DEF Rank
      <4>3. QED
        BY <4>1, <4>2
    <3>3. QED
      BY <3>1, <3>2
  <2>2. QED
    BY <1>2, <2>1 DEF Holding, Alive, Op
<1>3. CASE v.phase = "dropped"
  BY <1>3, ElsEmpty DEF Keeping, Holding, Alive
<1>4. CASE v.phase = "up"
  BY <1>4 DEF Holding, Alive
<1>5. QED
  BY <1>1, <1>2, <1>3, <1>4

\* Rules, IPv6 and resolv.conf change by operations only.
LEMMA TablesSame ==
    ASSUME Kept, NEW t \in Tunnels, Step(t), ~Operation(t)
    PROVE  host'.rules = host.rules /\ host'.no_ipv6 = host.no_ipv6 /\ host'.conf = host.conf
<1>1. host \in Host
  BY DEF Kept, Typed
<1>2. CASE CreateFails(t)
  BY <1>1, <1>2, HostParts DEF CreateFails
<1>3. CASE SetUpFails(t)
  BY <1>1, <1>3, HostParts DEF SetUpFails, Unlinked
<1>4. QED
  BY <1>2, <1>3, OneTunnel DEF Step, Turn

LEMMA RoutingInUseAfter ==
    ASSUME Kept, InOrder, HoldsLink, RoutingInUse, NEW t \in Tunnels, Step(t)
    PROVE  RoutingInUse'
<1> SUFFICES ASSUME "routing" \notin damaged'
             PROVE  /\ \A r \in host'.rules : \E u \in Alive' : KeepsRule(tunnel'[u], r)
                    /\ host'.no_ipv6 => \E u \in Alive' : KeepsIPv6(tunnel'[u])
  BY DEF RoutingInUse
<1>1. /\ \A r \in host.rules : \E u \in Alive : KeepsRule(tunnel[u], r)
      /\ host.no_ipv6 => \E u \in Alive : KeepsIPv6(tunnel[u])
  BY OneTunnel DEF RoutingInUse
<1>2. host.rules \subseteq [sort : {"exclusion", "keepalive"}, gateway : Gateways]
  BY HostParts DEF Kept, Typed
<1>3. ASSUME NEW u \in Alive \ {t}
      PROVE  u \in Alive' /\ tunnel'[u] = tunnel[u]
  BY Living, OneTunnel DEF Alive
<1>4. ASSUME NEW r \in host'.rules
      PROVE  \E u \in Alive' : KeepsRule(tunnel'[u], r)
  <2>1. CASE r \in host.rules
    <3>1. PICK u \in Alive : KeepsRule(tunnel[u], r)
      BY <1>1, <2>1
    <3>2. CASE u # t
      BY <1>3, <3>1, <3>2
    <3>3. CASE u = t
      <4>1. r.gateway = Gateway(t) /\ r.sort \in {"exclusion", "keepalive"}
            /\ r = [sort |-> r.sort, gateway |-> r.gateway]
        BY <1>2, <2>1, <3>1, <3>3 DEF KeepsRule, Gateway
      <4>2. CASE r.sort = "exclusion"
        <5>1. Keeping(tunnel[t], "rule", Undo("rule"))
          BY <3>1, <3>3, <4>2 DEF KeepsRule, Undo
        <5>2. /\ Keeping(tunnel'[t], "rule", "unrule") \/ (Operation(t) /\ Op(t) = "unrule")
              /\ t \in Alive' /\ tunnel'[t].config = tunnel[t].config
          BY <5>1, KeepingOn DEF Undo
        <5>3. ~(Operation(t) /\ Op(t) = "unrule")
          <6>1. r = Exclusion(t)
            BY <4>1, <4>2 DEF Exclusion
          <6>2. Operation(t) /\ Op(t) = "unrule" => host'.rules = host.rules \ {Exclusion(t)}
            BY TablesAfter
          <6>3. QED
            BY <6>1, <6>2
        <5>4. KeepsRule(tunnel'[t], r)
          BY <4>1, <4>2, <5>2, <5>3 DEF KeepsRule, Gateway
        <5>5. QED
          BY <5>2, <5>4
      <4>3. CASE r.sort = "keepalive"
        <5>1. /\ Keeping(tunnel[t], "keepalive", Undo("keepalive"))
              /\ tunnel[t].config.kind # "ssl"
          BY <3>1, <3>3, <4>3 DEF KeepsRule, Undo
        <5>2. /\ Keeping(tunnel'[t], "keepalive", "unkeepalive")
                 \/ (Operation(t) /\ Op(t) = "unkeepalive")
              /\ t \in Alive' /\ tunnel'[t].config = tunnel[t].config
          BY <5>1, KeepingOn DEF Undo
        <5>3. ~(Operation(t) /\ Op(t) = "unkeepalive")
          <6>1. r = Keepalive(t)
            BY <4>1, <4>3 DEF Keepalive
          <6>2. Operation(t) /\ Op(t) = "unkeepalive" => host'.rules = host.rules \ {Keepalive(t)}
            BY TablesAfter
          <6>3. QED
            BY <6>1, <6>2
        <5>4. KeepsRule(tunnel'[t], r)
          BY <4>1, <4>3, <5>1, <5>2, <5>3 DEF KeepsRule, Gateway
        <5>5. QED
          BY <5>2, <5>4
      <4>4. QED
        BY <4>1, <4>2, <4>3
    <3>4. QED
      BY <3>2, <3>3
  <2>2. CASE r \notin host.rules
    <3>1. Operation(t)
      BY <2>2, TablesSame
    <3>2. \/ Op(t) = "rule" /\ r = Exclusion(t)
          \/ Op(t) = "keepalive" /\ r = Keepalive(t)
      <4>1. host'.rules = CASE Op(t) = "rule" -> host.rules \cup {Exclusion(t)}
                              [] Op(t) = "keepalive" -> host.rules \cup {Keepalive(t)}
                              [] Op(t) = "unrule" -> host.rules \ {Exclusion(t)}
                              [] Op(t) = "unkeepalive" -> host.rules \ {Keepalive(t)}
                              [] OTHER -> host.rules
        BY <3>1, TablesAfter
      <4>2. QED
        BY <2>2, <4>1
    <3>3. /\ Keeping(tunnel'[t], Op(t), Undo(Op(t)))
          /\ t \in Alive' /\ tunnel'[t].config = tunnel[t].config
          /\ Op(t) = "keepalive" => tunnel[t].config.kind # "ssl"
      BY <3>1, <3>2, KeepingStarts
    <3>4. /\ Exclusion(t).sort = "exclusion" /\ Exclusion(t).gateway = Gateway(t)
          /\ Keepalive(t).sort = "keepalive" /\ Keepalive(t).gateway = Gateway(t)
      BY DEF Exclusion, Keepalive
    <3>5. KeepsRule(tunnel'[t], r)
      BY <3>2, <3>3, <3>4 DEF KeepsRule, Gateway, Undo
    <3>6. QED
      BY <3>3, <3>5
  <2>3. QED
    BY <2>1, <2>2
<1>5. ASSUME host'.no_ipv6
      PROVE  \E u \in Alive' : KeepsIPv6(tunnel'[u])
  <2>1. CASE Operation(t) /\ Op(t) = "noIPv6"
    BY <2>1, KeepingStarts DEF KeepsIPv6, Undo
  <2>2. CASE ~(Operation(t) /\ Op(t) = "noIPv6")
    <3>1. host.no_ipv6 /\ ~(Operation(t) /\ Op(t) = "ipv6")
      <4>1. CASE ~Operation(t)
        BY <1>5, <4>1, TablesSame
      <4>2. CASE Operation(t)
        <5>1. host'.no_ipv6 = CASE Op(t) = "noIPv6" -> TRUE
                                [] Op(t) = "ipv6" -> FALSE
                                [] OTHER -> host.no_ipv6
          BY <4>2, TablesAfter
        <5>2. Op(t) # "ipv6"
          BY <1>5, <5>1
        <5>3. host'.no_ipv6 = host.no_ipv6
          BY <2>2, <4>2, <5>1, <5>2
        <5>4. QED
          BY <1>5, <5>2, <5>3
      <4>3. QED
        BY <4>1, <4>2
    <3>2. PICK u \in Alive : KeepsIPv6(tunnel[u])
      BY <1>1, <3>1
    <3>3. CASE u # t
      BY <1>3, <3>2, <3>3
    <3>4. CASE u = t
      <4>1. /\ Keeping(tunnel[t], "noIPv6", Undo("noIPv6"))
            /\ tunnel[t].config.full /\ tunnel[t].config.disable_ipv6
        BY <3>2, <3>4 DEF KeepsIPv6, Undo
      <4>2. /\ Keeping(tunnel'[t], "noIPv6", "ipv6") \/ (Operation(t) /\ Op(t) = "ipv6")
            /\ t \in Alive' /\ tunnel'[t].config = tunnel[t].config
        BY <4>1, KeepingOn DEF Undo
      <4>3. QED
        BY <3>1, <4>1, <4>2 DEF KeepsIPv6
    <3>5. QED
      BY <3>3, <3>4
  <2>3. QED
    BY <2>1, <2>2
<1>6. QED
  BY <1>4, <1>5

\* The operations on /etc/resolv.conf follow each other.
LEMMA ReadFirst ==
    ASSUME Kept, InOrder, NEW t \in Tunnels, Operation(t)
    PROVE  LET r == tunnel'[t].todo
           IN  /\ Op(t) \in {"read", "truncate", "write", "unwrite"} =>
                      /\ tunnel[t].phase \in {"settingUp", "dropped"}
                      /\ Holding(tunnel[t]) /\ t \in Alive
               /\ r # <<>> /\ Head(r) \in Mid => Op(t) \in {"read", "truncate"}
               /\ Op(t) = "truncate" =>
                      /\ r # <<>> /\ Head(r) \in {"write", "unwrite"}
                      /\ tunnel[t].phase = "settingUp" => Head(r) = "write"
<1> DEFINE v == tunnel[t]
           s == tunnel[t].todo
           r == Tail(s)
<1>1. /\ s # <<>> /\ s \in Seq(Ops) /\ v.phase \in {"creating", "settingUp", "up", "dropped"}
      /\ tunnel'[t].todo = r
  BY Done, LeftIs, Stepped, Busy
<1>2. Op(t) \in {"read", "truncate", "write", "unwrite"} => v.phase \in {"settingUp", "dropped"}
  BY <1>1, Busy
<1>3. Op(t) \in {"read", "truncate", "write", "unwrite"} => Holding(v) /\ t \in Alive
  BY <1>1, <1>2, Beginnings
<1>4. /\ Len(s) \in Nat \ {0} /\ s[1] = Op(t)
      /\ r # <<>> => Len(s) > 1 /\ Head(r) = s[2]
      /\ Len(s) > 1 => r # <<>>
  <2>1. /\ Len(s) \in Nat \ {0} /\ s[1] = Op(t) /\ r \in Seq(Ops) /\ Len(r) = Len(s) - 1
        /\ r # <<>> => Len(s) > 1 /\ Head(r) = s[2]
    BY <1>1, TailIsRest DEF Op
  <2> HIDE DEF s, r
  <2>2. Len(s) > 1 => r # <<>>
    <3>1. Len(s) > 1 => Len(r) # 0
      BY <2>1
    <3>2. QED
      BY <3>1, EmptySeq
  <2>3. QED
    BY <2>1, <2>2
<1>5. CASE v.phase \in {"settingUp", "dropped"}
  <2>1. Contiguous(s)
    BY <1>5 DEF InOrder, Ordered
  <2>2. v.phase = "settingUp" => s \in Seq(SetUpOps)
    BY DEF Kept, Staged, Stage
  <2> HIDE DEF s, r
  <2>3. r # <<>> /\ Head(r) \in Mid => Op(t) \in {"read", "truncate"}
    <3> SUFFICES ASSUME r # <<>>, Head(r) \in Mid
                 PROVE  Op(t) \in {"read", "truncate"}
      OBVIOUS
    <3>1. 2 \in 1..Len(s) /\ s[2] \in Mid
      BY <1>4
    <3>2. 2 = 1 \/ s[2 - 1] \in {"read", "truncate"}
      BY <2>1, <3>1 DEF Contiguous
    <3>3. QED
      BY <1>4, <3>2
  <2>4. Op(t) = "truncate" => /\ r # <<>> /\ Head(r) \in {"write", "unwrite"}
                              /\ v.phase = "settingUp" => Head(r) = "write"
    <3> SUFFICES ASSUME Op(t) = "truncate"
                 PROVE  /\ r # <<>> /\ Head(r) \in {"write", "unwrite"}
                        /\ v.phase = "settingUp" => Head(r) = "write"
      OBVIOUS
    <3>1. 1 \in 1..Len(s) /\ s[1] = "truncate"
      BY <1>4
    <3>2. 1 < Len(s) /\ s[1 + 1] \in {"write", "unwrite"}
      BY <2>1, <3>1 DEF Contiguous
    <3>3. r # <<>> /\ Head(r) = s[2] /\ s[2] \in {"write", "unwrite"}
      BY <1>4, <3>2
    <3>4. v.phase = "settingUp" => s[2] \in SetUpOps
      <4>1. 2 \in 1..Len(s)
        BY <1>4, <3>2
      <4>2. QED
        BY <2>2, <4>1, ElementOfSeq
    <3>5. QED
      BY <3>3, <3>4 DEF SetUpOps
  <2>5. QED
    BY <1>1, <1>2, <1>3, <2>3, <2>4 DEF s, r
<1>6. CASE v.phase = "creating"
  <2>1. s \in Configuring
    BY <1>6 DEF Kept, Staged, Stage
  <2>2. r = <<>> \/ Head(r) \in {"link", "address", "out", "in", "policies"}
    BY <1>1, <2>1, Configures
  <2>3. Op(t) # "truncate"
    BY <1>2, <1>6
  <2>4. QED
    BY <1>1, <1>2, <1>3, <2>2, <2>3 DEF Mid
<1>7. CASE v.phase = "up"
  <2>1. s \in Moving \cup Adding \cup Completing \cup Deleting
    BY <1>7 DEF Kept, Staged, Stage
  <2>2. r \in Moving \cup Completing \cup Deleting
    BY <1>1, <2>1, ReKeyHeads
  <2>3. r = <<>> \/ Head(r) \in {"newOut", "newIn", "oldOut", "oldIn", "move", "leave"}
    BY <2>2, ReKeyHeads
  <2>4. Op(t) # "truncate"
    BY <1>2, <1>7
  <2>5. QED
    BY <1>1, <1>2, <1>3, <2>3, <2>4 DEF Mid
<1>8. QED
  BY <1>1, <1>5, <1>6, <1>7

\* Between the read and the write a tunnel has what it read.
LEMMA BetweenAfter ==
    ASSUME Kept, InOrder, NEW t \in Tunnels, Step(t), Between(tunnel'[t])
    PROVE  /\ Operation(t) /\ t \in Alive /\ Holding(tunnel[t])
           /\ tunnel'[t].config = tunnel[t].config
           /\ \/ Op(t) = "read" /\ tunnel'[t].conf = host.conf
              \/ Op(t) = "truncate" /\ Between(tunnel[t]) /\ tunnel'[t].conf = tunnel[t].conf
<1> DEFINE v == tunnel[t]
           w == tunnel'[t]
<1>1. tunnel \in [Tunnels -> Object] /\ tunnel[t] \in Object
  BY DEF Kept, Typed
<1>2. CASE Operation(t)
  <2>1. /\ w = After(t) /\ w.config = v.config
        /\ w.conf = CASE Op(t) = "read" -> host.conf
                      [] Op(t) \in {"write", "unwrite"} -> InitTunnel.conf
                      [] OTHER -> v.conf
    BY <1>1, <1>2, Done, Afterwards
  <2>2. Op(t) \in {"read", "truncate"} /\ t \in Alive /\ Holding(v)
    BY <1>2, ReadFirst DEF Between
  <2>3. Op(t) = "truncate" => Between(v)
    BY <1>2, Done DEF Between, Mid, Op
  <2>4. QED
    BY <1>2, <2>1, <2>2, <2>3
<1>3. CASE ~Operation(t)
  <2>1. CASE Create(t) \/ Created(t) \/ Up(t) \/ Gone(t) \/ CreateFails(t)
    <3>1. w.todo = <<>> \/ w.todo = Configure
      <4>1. NoTunnel.todo = <<>>
        BY DEF NoTunnel, InitTunnel
      <4>2. v.todo = <<>> => /\ [v EXCEPT !.phase = "created"].todo = <<>>
                             /\ [v EXCEPT !.phase = "up", !.index = None].todo = <<>>
        BY <1>1 DEF Object
      <4>3. QED
        BY <2>1, <4>1, <4>2, Turned
    <3>2. Head(Configure) = "link"
      BY DEF Configure
    <3>3. QED
      BY <3>1, <3>2 DEF Between, Mid
  <2>2. CASE Run(t)
    BY <2>2, Runs
  <2>3. CASE StartReKey(t)
    <3>1. w.todo \in Moving \cup Adding
      <4>1. PICK a \in Addresses :
                tunnel' = [tunnel EXCEPT ![t] =
                    [@ EXCEPT !.todo = ReKey(t, a # tunnel[t].address),
                              !.address = IF Native(t) THEN tunnel[t].address ELSE a,
                              !.other = IF Native(t) THEN a ELSE tunnel[t].address,
                              !.key = tunnel[t].key + (IF Native(t) THEN 0 ELSE 1)]]
        BY <2>3 DEF StartReKey
      <4>2. w.todo = ReKey(t, a # tunnel[t].address)
        BY <1>1, <4>1 DEF Object
      <4>3. ReKey(t, a # tunnel[t].address) \in Moving \cup Adding
        BY ReKeys
      <4>4. QED
        BY <4>2, <4>3
    <3>2. QED
      BY <3>1, ReKeyHeads DEF Between, Mid
  <2>4. CASE End(t) \/ SetUpFails(t)
    <3>1. w = Dropped(t) /\ v.phase \in {"settingUp", "up"}
      BY <2>4, Turned
    <3>2. v.config \in Config
      BY <3>1, HostAssumption DEF Kept, Staged, Stage
    <3>3. QED
      BY <3>1, <3>2, Drops
  <2>5. CASE ReKeyFails(t)
    <3>1. v.phase = "up" /\ v.todo # <<>>
      BY <2>5, Turned
    <3>2. v.todo \in Moving \cup Adding \cup Completing \cup Deleting
      BY <3>1 DEF Kept, Staged, Stage
    <3>3. w.todo = <<>> \/ w.todo = Tail(v.todo)
      <4>1. w = IF Op(t) \in {"oldOut", "oldIn"} THEN After(t)
                ELSE [v EXCEPT !.todo = <<>>, !.other = None]
        BY <1>1, <2>5 DEF ReKeyFails
      <4>2. After(t).todo = Tail(v.todo)
        BY <1>1, Afterwards
      <4>3. [v EXCEPT !.todo = <<>>, !.other = None].todo = <<>>
        BY <1>1 DEF Object
      <4>4. QED
        BY <4>1, <4>2, <4>3
    <3>4. w.todo \in Moving \cup Completing \cup Deleting
      BY <3>1, <3>2, <3>3, EmptyLists, ReKeyHeads
    <3>5. w.todo # <<>> => Head(w.todo) \in {"newOut", "newIn", "oldOut", "oldIn", "move", "leave"}
      BY <3>4, ReKeyHeads
    <3>6. QED
      BY <3>5 DEF Between, Mid
  <2>6. CASE CleanUpFails(t)
    <3> DEFINE s == v.todo
               r == w.todo
    <3>1. v.phase = "dropped" /\ r # <<>> /\ Head(r) \in Mid
      BY <2>6, Turned DEF Between
    <3>2. /\ s \in Seq(CleanUpOps) /\ Op(t) \in CleanUpOps
          /\ \E n \in 1..Len(s) :
                 /\ r = SubSeq(s, n + 1, Len(s))
                 /\ \A i \in 1..Len(s) : s[i] \in SkippedWith(Op(t)) <=> i <= n
      BY <2>6, Skipped
    <3>3. Contiguous(s)
      BY <3>1 DEF InOrder, Ordered
    <3> HIDE DEF s, r
    <3>4. PICK n \in 1..Len(s) :
              /\ r = SubSeq(s, n + 1, Len(s))
              /\ \A i \in 1..Len(s) : s[i] \in SkippedWith(Op(t)) <=> i <= n
      BY <3>2
    <3>5. /\ r \in Seq(CleanUpOps) /\ Len(r) = Len(s) - n /\ Len(s) \in Nat /\ Len(r) \in Nat
          /\ \A i \in 1..Len(r) : r[i] = s[n + i]
      BY <3>2, <3>4, Rest
    <3>6. Len(r) > 0 /\ Head(r) = r[1]
      BY <3>1, <3>5, TailIsRest
    <3>7. n + 1 \in 1..Len(s) /\ n + 1 # 1 /\ s[n + 1] \in Mid /\ n + 1 - 1 = n
      BY <3>1, <3>4, <3>5, <3>6
    <3>8. s[n] \in {"read", "truncate"}
      BY <3>3, <3>7 DEF Contiguous
    <3>9. s[n] \in SkippedWith(Op(t))
      BY <3>4
    <3>10. SkippedWith(Op(t)) = {"read", "truncate", "unwrite"}
      BY <3>2, <3>8, <3>9 DEF SkippedWith, CleanUpOps
    <3>11. s[n + 1] \in CleanUpOps
      BY <3>2, <3>7, ElementOfSeq
    <3>12. s[n + 1] \in SkippedWith(Op(t))
      BY <3>7, <3>10, <3>11 DEF Mid, CleanUpOps
    <3>13. n + 1 <= n
      BY <3>4, <3>7, <3>12
    <3>14. QED
      BY <3>4, <3>5, <3>13
  <2>7. QED
    BY <1>3, <2>1, <2>2, <2>3, <2>4, <2>5, <2>6 DEF Step
<1>4. QED
  BY <1>2, <1>3

\* What a tunnel knows of /etc/resolv.conf when it writes it: only its own servers are there.
LEMMA KnowsConf ==
    ASSUME Kept, InOrder, Meets, HoldsLink, DnsInUse, disturbed = {},
           NEW t \in Alive, Holding(tunnel[t])
    PROVE  /\ "dns" \notin damaged => host.conf.vpn \subseteq {Gateway(t)}
           /\ "others" \notin damaged => host.conf.others \/ Writing(t)
<1>1. \A u \in Alive : Holding(tunnel[u]) => u = t
  BY Alone
<1>2. ASSUME "dns" \notin damaged, NEW g \in host.conf.vpn
      PROVE  g = Gateway(t)
  <2>1. PICK u \in Alive : KeepsServer(tunnel[u], g, host.resolver)
    BY <1>2 DEF DnsInUse
  <2>2. u \in Tunnels /\ Keeping(tunnel[u], "write", "unwrite") /\ g = Gateway(u)
    BY <2>1 DEF KeepsServer, Alive, Gateway
  <2>3. Holding(tunnel[u])
    BY <2>2, KeepingHolds
  <2>4. QED
    BY <1>1, <2>2, <2>3
<1>3. ASSUME "others" \notin damaged, ~host.conf.others
      PROVE  Writing(t)
  <2>1. PICK u \in Tunnels : Writing(u)
    BY <1>3 DEF DnsInUse
  <2>2. u \in Alive /\ Holding(tunnel[u])
    BY <2>1, Beginnings DEF Writing
  <2>3. QED
    BY <1>1, <2>1, <2>2
<1>4. QED
  BY <1>2, <1>3

LEMMA DnsInUseAfter ==
    ASSUME Kept, InOrder, Meets, HoldsLink, DnsInUse, NEW t \in Tunnels, Step(t)
    PROVE  DnsInUse'
<1> SUFFICES ASSUME disturbed' = {}
             PROVE  /\ "dns" \notin damaged' =>
                           /\ \A g \in host'.conf.vpn :
                                  \E u \in Alive' : KeepsServer(tunnel'[u], g, host'.resolver)
                           /\ \A u \in Alive' :
                                  Between(tunnel'[u]) => tunnel'[u].conf.vpn \subseteq {Gateway(u)'}
                    /\ "others" \notin damaged' =>
                           /\ host'.conf.others \/ \E u \in Tunnels : Writing(u)'
                           /\ \A u \in Alive' : Between(tunnel'[u]) => tunnel'[u].conf.others
  BY DEF DnsInUse
<1>1. disturbed = {} /\ damaged \subseteq damaged' /\ host'.resolver = host.resolver
  BY OneTunnel
<1>2. /\ "dns" \notin damaged' =>
             /\ \A g \in host.conf.vpn : \E u \in Alive : KeepsServer(tunnel[u], g, host.resolver)
             /\ \A u \in Alive : Between(tunnel[u]) => tunnel[u].conf.vpn \subseteq {Gateway(u)}
      /\ "others" \notin damaged' =>
             /\ host.conf.others \/ \E u \in Tunnels : Writing(u)
             /\ \A u \in Alive : Between(tunnel[u]) => tunnel[u].conf.others
  BY <1>1 DEF DnsInUse
<1>3. ASSUME NEW u \in Tunnels \ {t}
      PROVE  /\ u \in Alive' <=> u \in Alive
             /\ tunnel'[u] = tunnel[u] /\ Gateway(u)' = Gateway(u)
  BY Living, OneTunnel DEF Alive, Gateway
<1>4. \A u \in Alive' : u \in Tunnels
  BY DEF Alive
<1>5. CASE Operation(t) /\ Op(t) \in {"write", "unwrite"}
  <2>1. /\ host'.conf.others = tunnel[t].conf.others
        /\ Op(t) = "write" => host'.conf.vpn = tunnel[t].conf.vpn \cup {Gateway(t)}
        /\ Op(t) = "unwrite" => host'.conf.vpn = tunnel[t].conf.vpn \ {Gateway(t)}
    BY <1>5, TablesAfter
  <2>2. t \in Alive /\ Between(tunnel[t])
    BY <1>5, ReadFirst, Done DEF Between, Mid, Op
  <2>3. ~Between(tunnel'[t])
    BY <1>5, BetweenAfter
  <2>4. ASSUME "dns" \notin damaged', NEW g \in host'.conf.vpn
        PROVE  \E u \in Alive' : KeepsServer(tunnel'[u], g, host'.resolver)
    <3>1. tunnel[t].conf.vpn \subseteq {Gateway(t)}
      BY <1>2, <2>2, <2>4
    <3>2. Op(t) = "write" /\ g = Gateway(t)
      BY <1>5, <2>1, <2>4, <3>1
    <3>3. /\ Keeping(tunnel'[t], "write", "unwrite") /\ t \in Alive'
          /\ tunnel'[t].config = tunnel[t].config
          /\ tunnel[t].config.dns /\ host.resolver # "resolved"
      BY <1>5, <3>2, KeepingStarts DEF Undo
    <3>4. KeepsServer(tunnel'[t], g, host'.resolver)
      BY <1>1, <3>2, <3>3 DEF KeepsServer, Gateway
    <3>5. QED
      BY <3>3, <3>4
  <2>5. "others" \notin damaged' => host'.conf.others
    BY <1>2, <2>1, <2>2
  <2>6. \A u \in Alive' : Between(tunnel'[u]) => u # t
    BY <2>3
  <2>7. QED
    BY <1>2, <1>3, <1>4, <2>4, <2>5, <2>6
<1>6. CASE Operation(t) /\ Op(t) = "truncate"
  <2>1. host'.conf.others = FALSE /\ host'.conf.vpn = {}
    BY <1>6, TablesAfter
  <2>2. Writing(t)'
    BY <1>6, ReadFirst DEF Writing, Op
  <2>3. t \in Alive /\ Between(tunnel[t])
    BY <1>6, ReadFirst, Done DEF Between, Mid, Op
  <2>4. Between(tunnel'[t]) => /\ tunnel'[t].conf = tunnel[t].conf
                               /\ tunnel'[t].config = tunnel[t].config
    BY <1>6, BetweenAfter
  <2>5. ASSUME NEW u \in Alive', Between(tunnel'[u])
        PROVE  /\ "dns" \notin damaged' => tunnel'[u].conf.vpn \subseteq {Gateway(u)'}
               /\ "others" \notin damaged' => tunnel'[u].conf.others
    <3>1. CASE u = t
      <4>1. Gateway(t)' = Gateway(t)
        BY <2>4, <2>5, <3>1 DEF Gateway
      <4>2. QED
        BY <1>2, <2>3, <2>4, <2>5, <3>1, <4>1
    <3>2. CASE u # t
      BY <1>2, <1>3, <1>4, <2>5, <3>2
    <3>3. QED
      BY <3>1, <3>2
  <2>6. QED
    BY <2>1, <2>2, <2>5
<1>7. CASE ~(Operation(t) /\ Op(t) \in Mid)
  <2>1. host'.conf = host.conf
    BY <1>7, TablesAfter, TablesSame
  <2>2. ASSUME "dns" \notin damaged', NEW g \in host'.conf.vpn
        PROVE  \E u \in Alive' : KeepsServer(tunnel'[u], g, host'.resolver)
    <3>1. PICK u \in Alive : KeepsServer(tunnel[u], g, host.resolver)
      BY <1>2, <2>1, <2>2
    <3>2. u \in Tunnels
      BY DEF Alive
    <3>3. CASE u # t
      BY <1>1, <1>3, <3>1, <3>2, <3>3
    <3>4. CASE u = t
      <4>1. /\ Keeping(tunnel[t], "write", Undo("write"))
            /\ tunnel[t].config.dns /\ host.resolver # "resolved"
        BY <3>1, <3>4 DEF KeepsServer, Undo
      <4>2. /\ Keeping(tunnel'[t], "write", "unwrite") \/ (Operation(t) /\ Op(t) = "unwrite")
            /\ t \in Alive' /\ tunnel'[t].config = tunnel[t].config
        BY <2>2, <4>1, KeepingOn DEF Undo
      <4>3. Keeping(tunnel'[t], "write", "unwrite")
        BY <1>7, <4>2 DEF Mid
      <4>4. KeepsServer(tunnel'[t], g, host'.resolver)
        BY <1>1, <3>1, <3>4, <4>2, <4>3 DEF KeepsServer
      <4>5. QED
        BY <4>2, <4>4
    <3>5. QED
      BY <3>3, <3>4
  <2>3. ASSUME NEW u \in Alive', Between(tunnel'[u])
        PROVE  /\ "dns" \notin damaged' => tunnel'[u].conf.vpn \subseteq {Gateway(u)'}
               /\ "others" \notin damaged' => tunnel'[u].conf.others
    <3>1. CASE u = t
      <4>1. /\ Operation(t) /\ t \in Alive /\ Holding(tunnel[t]) /\ Op(t) = "read"
            /\ tunnel'[t].config = tunnel[t].config /\ tunnel'[t].conf = host.conf
        BY <1>7, <2>3, <3>1, BetweenAfter DEF Mid
      <4>2. Gateway(t)' = Gateway(t)
        BY <4>1 DEF Gateway
      <4>3. ~Writing(t)
        BY <4>1 DEF Writing
      <4>4. /\ "dns" \notin damaged => host.conf.vpn \subseteq {Gateway(t)}
            /\ "others" \notin damaged => host.conf.others
        BY <1>1, <4>1, <4>3, KnowsConf
      <4>5. QED
        BY <1>1, <3>1, <4>1, <4>2, <4>4
    <3>2. CASE u # t
      BY <1>2, <1>3, <1>4, <2>3, <3>2
    <3>3. QED
      BY <3>1, <3>2
  <2>4. ASSUME "others" \notin damaged'
        PROVE  host'.conf.others \/ \E u \in Tunnels : Writing(u)'
    <3>1. CASE host.conf.others
      BY <2>1, <3>1
    <3>2. CASE ~host.conf.others
      <4>1. PICK u \in Tunnels : Writing(u)
        BY <1>2, <2>4, <3>2
      <4>2. CASE u # t
        <5>1. tunnel'[u] = tunnel[u]
          BY <1>3, <4>2
        <5>2. Writing(u)'
          BY <4>1, <5>1 DEF Writing, Op
        <5>3. QED
          BY <5>2
      <4>3. CASE u = t
        <5>1. tunnel[t].todo # <<>> /\ Op(t) \in {"write", "unwrite"}
          BY <4>1, <4>3 DEF Writing
        <5>2. tunnel[t].phase \in {"settingUp", "dropped"}
          BY <5>1, Busy
        <5>3. ~Operation(t)
          BY <1>7, <5>1 DEF Mid
        <5>4. SetUpFails(t) \/ CleanUpFails(t)
          BY <5>1, <5>2, <5>3, Turned DEF Step, Run
        <5>5. /\ SetUpFails(t) => Op(t) # "write" /\ tunnel[t].phase = "settingUp"
              /\ CleanUpFails(t) => Op(t) # "unwrite" /\ tunnel[t].phase = "dropped"
          BY <2>4, RestDamaged, Turned
        <5>6. /\ tunnel[t].phase = "settingUp" => Op(t) # "unwrite"
              /\ tunnel[t].phase = "dropped" => Op(t) # "write"
          BY <5>1, Busy DEF SetUpOps, CleanUpOps
        <5>7. QED
          BY <5>1, <5>4, <5>5, <5>6
      <4>4. QED
        BY <4>2, <4>3
    <3>3. QED
      BY <3>1, <3>2
  <2>5. QED
    BY <2>2, <2>3, <2>4
<1>8. QED
  BY <1>5, <1>6, <1>7 DEF Mid

-----------------------------------------------------------------------------
(* What has been set up is there *)

\* A device that was left behind is there until it is deleted.
LEMMA HauntedStays ==
    ASSUME Kept, LinksMade, NEW t \in Tunnels, Step(t), Haunted,
           host' = host \/ ~Unlinking(t)
    PROVE  Haunted'
<1>1. PICK d \in Devices : host.links[d].owner \notin Alive \cup {None}
  BY DEF Haunted
<1> DEFINE o == host.links[d].owner
<1>2. host'.links[d].owner = o
  <2>1. CASE host' = host
    BY <2>1
  <2>2. CASE ~Unlinking(t)
    <3>1. Linking(t) => d # Device(t)
      BY <1>1 DEF Linking, Link, NoLink
    <3>2. QED
      BY <2>2, <3>1, LinkSteps
  <2>3. QED
    BY <2>1, <2>2
<1>3. o \notin Alive'
  <2>1. tunnel[o].phase # "none"
    BY <1>1 DEF LinksMade
  <2>2. o = t => ~Create(t)
    BY <2>1, Living
  <2>3. QED
    BY <1>1, <2>2, Living
<1>4. QED
  BY <1>1, <1>2, <1>3 DEF Haunted

LEMMA Wanted == ASSUME NEW c, NEW resolver, NEW op \in Needed(c, resolver)
                PROVE  op \in Marks
BY DEF Needed, Marks

\* Nothing is set up without a device.
LEMMA DoingHolds ==
    ASSUME Kept, InOrder, NEW t \in Tunnels,
           NEW op \in Needed(tunnel[t].config, host.resolver), Doing(tunnel[t], op)
    PROVE  t \in Alive /\ Holding(tunnel[t])
<1> DEFINE v == tunnel[t]
<1>1. CASE v.phase = "up"
  BY <1>1 DEF Holding, Alive
<1>2. CASE v.phase = "settingUp" /\ op \notin Els(v.todo)
  <2>1. v.todo = <<>> \/ Op(t) # "device"
    <3>1. CASE Native(t)
      BY <1>2, <3>1, Beginnings
    <3>2. CASE ~Native(t)
      BY <1>2, <3>2 DEF InOrder, Ordered, IsNative, Native, Op
    <3>3. QED
      BY <3>1, <3>2
  <2>2. QED
    BY <1>2, <2>1 DEF Holding, Alive, Op
<1>3. QED
  BY <1>1, <1>2 DEF Doing

\* It is set up by its operation.
LEMMA DoingAfter ==
    ASSUME Kept, InOrder, NEW t \in Tunnels, Step(t),
           NEW op \in Needed(tunnel'[t].config, host'.resolver), Doing(tunnel'[t], op)
    PROVE  /\ tunnel'[t].config = tunnel[t].config /\ t \in Alive
           /\ op \in Needed(tunnel[t].config, host.resolver)
           /\ \/ Doing(tunnel[t], op) /\ (Operation(t) \/ host' = host)
              \/ Operation(t) /\ Op(t) = op /\ tunnel[t].phase = "settingUp"
<1> DEFINE v == tunnel[t]
           w == tunnel'[t]
<1>1. tunnel[t] \in Object /\ host'.resolver = host.resolver
  BY OneTunnel DEF Kept, Typed
<1>2. w.phase \in {"settingUp", "up"}
  BY DEF Doing
<1>3. CASE Operation(t)
  <2>1. v.todo # <<>> /\ v.todo \in Seq(Ops) /\ t \in Alive
    BY <1>3, Done, LeftIs, Beginnings
  <2>2. w.phase = v.phase /\ w.config = v.config /\ w.todo = Tail(v.todo)
    BY <1>3, Stepped
  <2>3. op \in Els(v.todo) => op = Op(t) \/ op \in Els(w.todo)
    BY <2>1, <2>2, ElsTail DEF Op
  <2>4. QED
    BY <1>1, <1>2, <1>3, <2>1, <2>2, <2>3 DEF Doing
<1>4. CASE Up(t)
  <2>1. v.phase = "settingUp" /\ v.todo = <<>> /\ w = [v EXCEPT !.phase = "up", !.index = None]
    BY <1>4, Turned
  <2>2. [v EXCEPT !.phase = "up", !.index = None].config = v.config
    BY <1>1 DEF Object
  <2>3. host' = host
    BY <1>4, OneTunnel DEF Turn
  <2>4. QED
    BY <1>1, <2>1, <2>2, <2>3, ElsEmpty DEF Doing, Alive
<1>5. CASE Run(t)
  <2>1. /\ w.phase = "settingUp" /\ w.config = v.config
        /\ Needed(v.config, host.resolver) \subseteq Els(w.todo)
    BY <1>5, Runs
  <2>2. QED
    BY <1>1, <2>1 DEF Doing
<1>6. CASE StartReKey(t) \/ ReKeyFails(t)
  <2>1. v.phase = "up" /\ w.config = v.config
    BY <1>6, Turned
  <2>2. host' = host
    BY <1>6, OneTunnel DEF Turn
  <2>3. QED
    BY <1>1, <2>1, <2>2 DEF Doing, Alive
<1>7. CASE Create(t) \/ Created(t) \/ End(t) \/ SetUpFails(t) \/ Gone(t) \/ CreateFails(t)
           \/ CleanUpFails(t)
  <2>1. NoTunnel.phase = "gone" /\ Dropped(t).phase = "dropped"
    BY DEF NoTunnel, InitTunnel, Dropped
  <2>2. [v EXCEPT !.phase = "created"].phase = "created"
    BY <1>1 DEF Object
  <2>3. w.phase \notin {"settingUp", "up"}
    BY <1>7, <2>1, <2>2, Turned
  <2>4. QED
    BY <1>2, <2>3
<1>8. QED
  BY <1>3, <1>4, <1>5, <1>6, <1>7 DEF Step

\* The routes lead over the tunnel's own device.
LEMMA OwnRoutes ==
    ASSUME Kept, InOrder, Meets, HoldsLink, LinksMade, NEW t \in Tunnels, t \notin disturbed,
           Operation(t), Op(t) \in {"default", "subnets"}
    PROVE  Haunted' \/ \E r \in host'.routes : r.owner = t
<1> SUFFICES ASSUME ~Haunted'
             PROVE  \E r \in host'.routes : r.owner = t
  OBVIOUS
<1>1. /\ tunnel[t].todo # <<>> /\ t \in Alive /\ Holding(tunnel[t])
      /\ host \in Host /\ Device(t) \in Devices
  BY Done, Beginnings, Busy DEF Kept, Typed
<1>2. ~Haunted
  <2>1. ~Unlinking(t)
    <3>1. SetUpFails(t) => tunnel'[t] = Dropped(t) /\ tunnel[t].phase = "settingUp"
      BY Turned
    <3>2. tunnel'[t].phase = tunnel[t].phase /\ Dropped(t).phase = "dropped"
      BY Stepped DEF Dropped, InitTunnel
    <3>3. QED
      BY <3>1, <3>2 DEF Unlinking
  <2>2. QED
    BY <2>1, HauntedStays DEF Step
<1>3. Link(t).owner = t
  <2>1. CASE ~Native(t)
    BY <1>1, <2>1 DEF HoldsLink
  <2>2. CASE Native(t)
    <3>1. Link(t).owner # None /\ (Link(t).owner = t \/ Link(t).owner \notin Alive)
      BY <1>1, <2>2 DEF HoldsLink
    <3>2. Link(t).owner \in Alive \cup {None}
      BY <1>1, <1>2 DEF Haunted, Link
    <3>3. QED
      BY <3>1, <3>2
  <2>3. QED
    BY <2>1, <2>2
<1>4. host'.routes = IF \E r \in host.routes : r.destination = Op(t) THEN host.routes
                     ELSE host.routes \cup {[destination |-> Op(t), owner |-> t]}
  <2>1. tunnel[t].index = t
    BY <1>3, LinksAfter DEF RouteOps
  <2>2. QED
    BY <2>1, TablesAfter DEF RouteOps
<1>5. CASE ~\E r \in host.routes : r.destination = Op(t)
  <2> DEFINE r == [destination |-> Op(t), owner |-> t]
  <2>1. r.owner = t /\ r \in host'.routes
    BY <1>4, <1>5
  <2>2. QED
    BY <2>1
<1>6. CASE \E r \in host.routes : r.destination = Op(t)
  <2>1. PICK r \in host.routes : r.destination = Op(t)
    BY <1>6
  <2>2. PICK d \in Devices : host.links[d].owner = r.owner
    BY <2>1 DEF LinksMade
  <2>3. r.owner \in Tunnels
    BY <1>1, HostParts
  <2>4. r.owner # None
    BY <2>3, HostAssumption
  <2>5. r.owner \in Alive
    BY <1>2, <2>2, <2>4 DEF Haunted
  <2>6. DeviceOf(tunnel[r.owner]) = d
    BY <2>2, <2>4, <2>5 DEF LinksMade
  <2>7. r.owner = t
    <3> SUFFICES ASSUME r.owner # t
                 PROVE  FALSE
      OBVIOUS
    <3>1. ~Native(t) /\ ~Native(r.owner)
      BY <1>1, <2>5 DEF Meets
    <3>2. Device(t) = d
      BY <2>6, <3>1 DEF Device, DeviceOf, IsNative, Native
    <3>3. QED
      BY <1>3, <2>2, <3>2 DEF Link
  <2>8. QED
    BY <1>4, <1>6, <2>1, <2>7
<1>7. QED
  BY <1>5, <1>6

\* Its own operations do not undo what a tunnel has set up while it is set up or is up.
LEMMA ThereOn ==
    ASSUME Kept, InOrder, Meets, HoldsLink, LinksMade, NEW t \in Tunnels, t \notin disturbed,
           Operation(t), NEW op \in Needed(tunnel[t].config, host.resolver),
           \/ Doing(tunnel[t], op) /\ There(t, op)
           \/ Op(t) = op /\ tunnel[t].phase = "settingUp"
    PROVE  There(t, op)'
<1> DEFINE v == tunnel[t]
<1>1. /\ v.todo # <<>> /\ v.phase \in {"settingUp", "up"} /\ v.todo \in Seq(Ops)
      /\ v.phase = "settingUp" => Op(t) \in SetUpOps
      /\ v.phase = "up" => Op(t) \in {"newOut", "newIn", "oldOut", "oldIn", "move", "leave"}
      /\ host \in Host /\ host.links \in [Devices -> LinkType]
      /\ Device(t) \in Devices
  BY Done, Busy, LeftIs, HostParts DEF Doing, Kept, Typed
<1>2. Op(t) \notin {"unlink", "unrule", "unkeepalive", "ipv6", "unwrite", "link"}
  BY <1>1 DEF SetUpOps
<1>3. Doing(v, op) => Op(t) # "device"
  BY <1>1, DoingHolds, Beginnings
<1>4. tunnel'[t].config = v.config
  BY Stepped
<1>5. Exclusion(t)' = Exclusion(t) /\ Keepalive(t)' = Keepalive(t) /\ Gateway(t)' = Gateway(t)
      /\ Device(t)' = Device(t)
  BY <1>4 DEF Exclusion, Keepalive, Gateway, Device, Native
<1>6. op \in Marks
  BY Wanted
<1>7. CASE op \in {"rule", "keepalive", "noIPv6"}
  <2>1. /\ host'.rules = CASE Op(t) = "rule" -> host.rules \cup {Exclusion(t)}
                           [] Op(t) = "keepalive" -> host.rules \cup {Keepalive(t)}
                           [] Op(t) = "unrule" -> host.rules \ {Exclusion(t)}
                           [] Op(t) = "unkeepalive" -> host.rules \ {Keepalive(t)}
                           [] OTHER -> host.rules
        /\ host'.no_ipv6 = CASE Op(t) = "noIPv6" -> TRUE
                             [] Op(t) = "ipv6" -> FALSE
                             [] OTHER -> host.no_ipv6
    BY TablesAfter
  <2>2. /\ host.rules \subseteq host'.rules
        /\ Op(t) = "rule" => Exclusion(t) \in host'.rules
        /\ Op(t) = "keepalive" => Keepalive(t) \in host'.rules
    BY <1>2, <2>1
  <2>3. (host.no_ipv6 => host'.no_ipv6) /\ (Op(t) = "noIPv6" => host'.no_ipv6)
    BY <1>2, <2>1
  <2>4. QED
    BY <1>5, <1>7, <2>2, <2>3 DEF There
<1>8. CASE op = "linkDns"
  <2>1. Link(t).dns \/ Op(t) = "linkDns"
    BY <1>8 DEF There
  <2> DEFINE L(o, a, x) == [owner |-> o, addresses |-> a, dns |-> x]
             l == Link(t)
  <2>2. /\ Op(t) \notin LinkOps => host'.links = host.links
        /\ Op(t) \in {"address", "move"} =>
               host'.links = [host.links EXCEPT ![Device(t)] =
                   L(l.owner, l.addresses \cup {tunnel[t].address}, l.dns)]
        /\ Op(t) = "leave" =>
               host'.links = [host.links EXCEPT ![Device(t)] =
                   L(l.owner, l.addresses \ {tunnel[t].other}, l.dns)]
        /\ Op(t) = "linkDns" =>
               host'.links = [host.links EXCEPT ![Device(t)] = L(l.owner, l.addresses, TRUE)]
    BY LinksAfter
  <2>3. \A o, a, x : L(o, a, x).dns = x
    OBVIOUS
  <2> HIDE DEF L
  <2>4. \A o, a, x : host'.links = [host.links EXCEPT ![Device(t)] = L(o, a, x)] =>
                         host'.links[Device(t)].dns = x
    BY <1>1, <2>3
  <2>5. Op(t) # "device"
    BY <1>3, <1>8
  <2>6. host'.links[Device(t)].dns
    <3>1. CASE Op(t) \notin LinkOps
      BY <2>1, <2>2, <3>1 DEF Link, LinkOps
    <3>2. CASE Op(t) \in {"address", "move", "leave"}
      BY <2>1, <2>2, <2>4, <3>2
    <3>3. CASE Op(t) = "linkDns"
      <4>1. host'.links[Device(t)].dns = TRUE
        <5>1. host'.links = [host.links EXCEPT ![Device(t)] = L(l.owner, l.addresses, TRUE)]
          BY <2>2, <3>3
        <5> HIDE DEF l
        <5>2. QED
          BY <2>4, <5>1
      <4>2. QED
        BY <4>1
    <3>4. QED
      BY <1>2, <2>5, <3>1, <3>2, <3>3 DEF LinkOps
  <2>7. QED
    BY <1>5, <1>8, <2>6 DEF There, Link
<1>9. CASE op = "write"
  <2>1. Op(t) = "write" => Gateway(t) \in host'.conf.vpn
    <3>1. Op(t) = "write" => host'.conf.vpn = tunnel[t].conf.vpn \cup {Gateway(t)}
      BY TablesAfter
    <3>2. QED
      BY <3>1
  <2>2. Op(t) # "write" => Op(t) \notin Mid
    <3> SUFFICES ASSUME Op(t) = "truncate"
                 PROVE  FALSE
      BY <1>2 DEF Mid
    <3>1. Doing(v, "write")
      BY <1>9
    <3>2. v.phase = "settingUp"
      BY <1>1
    <3>3. Tail(v.todo) # <<>> /\ Head(Tail(v.todo)) = "write"
      BY <3>2, ReadFirst, Stepped
    <3>4. "write" \in Els(Tail(v.todo))
      BY <1>1, <3>3, TailOfSeq, ElsTail
    <3>5. "write" \in Els(v.todo)
      BY <1>1, <3>4, ElsTail
    <3>6. QED
      BY <3>1, <3>2, <3>5 DEF Doing
  <2>3. Op(t) # "write" => host'.conf = host.conf
    BY <2>2, TablesAfter
  <2>4. Op(t) # "write" => Gateway(t) \in host.conf.vpn
    BY <1>9 DEF There
  <2>5. Gateway(t)' \in host'.conf.vpn
    BY <1>5, <2>1, <2>3, <2>4
  <2>6. QED
    BY <1>9, <2>5 DEF There
<1>10. CASE op \in {"default", "subnets"}
  <2>1. CASE Op(t) = op
    <3>1. Haunted' \/ \E r \in host'.routes : r.owner = t
      BY <1>10, <2>1, OwnRoutes
    <3>2. QED
      BY <1>10, <3>1 DEF There
  <2>2. CASE Op(t) # op
    <3>1. Haunted \/ \E r \in host.routes : r.owner = t
      BY <1>10, <2>2 DEF There
    <3>2. ~Unlinking(t) /\ Step(t)
      <4>1. SetUpFails(t) => tunnel'[t] = Dropped(t) /\ tunnel[t].phase = "settingUp"
        BY Turned
      <4>2. tunnel'[t].phase = tunnel[t].phase /\ Dropped(t).phase = "dropped"
        BY Stepped DEF Dropped, InitTunnel
      <4>3. QED
        BY <1>2, <4>1, <4>2 DEF Unlinking, Step
    <3>3. host.routes \subseteq host'.routes
      BY <3>2, LinkSteps
    <3>4. Haunted => Haunted'
      BY <3>2, HauntedStays
    <3>5. Haunted' \/ \E r \in host'.routes : r.owner = t
      BY <3>1, <3>3, <3>4
    <3>6. QED
      BY <1>10, <3>5 DEF There
  <2>3. QED
    BY <2>1, <2>2
<1>11. QED
  BY <1>6, <1>7, <1>8, <1>9, <1>10 DEF Marks

\* A step that leaves the host and the tunnel's configuration alone changes nothing of it.
LEMMA ThereSame ==
    ASSUME Kept, LinksMade, NEW t \in Tunnels, Step(t), host' = host,
           NEW u \in Tunnels, tunnel'[u].config = tunnel[u].config,
           NEW op \in Marks, There(u, op)
    PROVE  There(u, op)'
<1>1. Haunted => Haunted'
  BY HauntedStays
<1>2. Exclusion(u)' = Exclusion(u) /\ Keepalive(u)' = Keepalive(u) /\ Gateway(u)' = Gateway(u)
      /\ Device(u)' = Device(u)
  BY DEF Exclusion, Keepalive, Gateway, Device, Native
<1>3. Link(u)' = Link(u)
  BY <1>2 DEF Link
<1>4. QED
  BY <1>1, <1>2, <1>3 DEF There, Marks

LEMMA SetUpThereAfter ==
    ASSUME Kept, InOrder, Meets, HoldsLink, LinksMade, SetUpThere, NEW t \in Tunnels, Step(t)
    PROVE  SetUpThere'
<1> SUFFICES ASSUME NEW u \in Alive', u \notin disturbed',
                    NEW op \in Needed(tunnel'[u].config, host'.resolver),
                    Doing(tunnel'[u], op)
             PROVE  There(u, op)'
  BY DEF SetUpThere
<1>1. u \in Tunnels /\ u \notin disturbed /\ host'.resolver = host.resolver
  BY OneTunnel DEF Alive
<1>2. CASE u # t
  <2>1. u \in Alive /\ tunnel'[u] = tunnel[u] /\ tunnel'[u].config = tunnel[u].config
    BY <1>2, SameConfig, OneTunnel
  <2>2. op \in Needed(tunnel[u].config, host.resolver) /\ Doing(tunnel[u], op)
    BY <1>1, <2>1
  <2>3. There(u, op) /\ Holding(tunnel[u]) /\ op \in Marks
    BY <1>1, <2>1, <2>2, DoingHolds, Wanted DEF SetUpThere
  <2>4. host' = host
    BY <1>1, <1>2, <2>1, <2>3, Quiet
  <2>5. QED
    BY <1>1, <2>1, <2>3, <2>4, ThereSame
<1>3. CASE u = t
  <2> DEFINE v == tunnel[t]
  <2>1. /\ tunnel'[t].config = v.config /\ t \in Alive
        /\ op \in Needed(v.config, host.resolver)
        /\ \/ Doing(v, op) /\ (Operation(t) \/ host' = host)
           \/ Operation(t) /\ Op(t) = op /\ v.phase = "settingUp"
    BY <1>3, DoingAfter
  <2>2. Doing(v, op) => There(t, op)
    BY <1>1, <1>3, <2>1 DEF SetUpThere
  <2>3. CASE Operation(t)
    BY <1>1, <1>3, <2>1, <2>2, <2>3, ThereOn
  <2>4. CASE ~Operation(t)
    <3>1. op \in Marks
      BY <2>1, Wanted
    <3>2. QED
      BY <1>3, <2>1, <2>2, <2>4, <3>1, ThereSame
  <2>5. QED
    BY <2>3, <2>4
<1>4. QED
  BY <1>2, <1>3

-----------------------------------------------------------------------------
(* The addresses of the device *)

\* The lists of a rekey, with and without a new address.
LEMMA ReKeyTails ==
    ASSUME NEW s \in Moving \cup Adding \cup Completing \cup Deleting, s # <<>>
    PROVE  /\ Head(s) \in {"newOut", "newIn", "oldOut"} =>
                  (s \in Moved /\ Tail(s) \in Moved) \/ (s \in Unmoved /\ Tail(s) \in Unmoved)
           /\ Head(s) = "oldIn" => \/ s \in Moved /\ Tail(s) = <<"move", "leave">>
                                   \/ s \in Unmoved /\ Tail(s) = <<>>
           /\ Head(s) = "move" => s = <<"move", "leave">> /\ Tail(s) = <<"leave">>
           /\ Head(s) = "leave" => s = <<"leave">> /\ Tail(s) = <<>>
<1>1. CASE s = <<"newOut", "newIn", "oldOut", "oldIn", "move", "leave">>
  <2>1. Head(s) = "newOut" /\ Tail(s) = <<"newIn", "oldOut", "oldIn", "move", "leave">>
    BY <1>1
  <2>2. QED
    BY <1>1, <2>1 DEF Moved
<1>2. CASE s = <<"newIn", "oldOut", "oldIn", "move", "leave">>
  <2>1. Head(s) = "newIn" /\ Tail(s) = <<"oldOut", "oldIn", "move", "leave">>
    BY <1>2
  <2>2. QED
    BY <1>2, <2>1 DEF Moved
<1>3. CASE s = <<"oldOut", "oldIn", "move", "leave">>
  <2>1. Head(s) = "oldOut" /\ Tail(s) = <<"oldIn", "move", "leave">>
    BY <1>3
  <2>2. QED
    BY <1>3, <2>1 DEF Moved
<1>4. CASE s = <<"oldIn", "move", "leave">>
  <2>1. Head(s) = "oldIn" /\ Tail(s) = <<"move", "leave">>
    BY <1>4
  <2>2. QED
    BY <1>4, <2>1 DEF Moved
<1>5. CASE s = <<"newOut", "newIn", "oldOut", "oldIn">>
  <2>1. Head(s) = "newOut" /\ Tail(s) = <<"newIn", "oldOut", "oldIn">>
    BY <1>5
  <2>2. QED
    BY <1>5, <2>1 DEF Unmoved
<1>6. CASE s = <<"newIn", "oldOut", "oldIn">>
  <2>1. Head(s) = "newIn" /\ Tail(s) = <<"oldOut", "oldIn">>
    BY <1>6
  <2>2. QED
    BY <1>6, <2>1 DEF Unmoved
<1>7. CASE s = <<"oldOut", "oldIn">>
  <2>1. Head(s) = "oldOut" /\ Tail(s) = <<"oldIn">>
    BY <1>7
  <2>2. QED
    BY <1>7, <2>1 DEF Unmoved
<1>8. CASE s = <<"oldIn">>
  <2>1. Head(s) = "oldIn" /\ Tail(s) = <<>>
    BY <1>8
  <2>2. QED
    BY <1>8, <2>1 DEF Unmoved
<1>9. CASE s \in Moving
  <2>1. CASE s = <<"move", "leave">>
    <3>1. Head(s) = "move" /\ Tail(s) = <<"leave">>
      BY <2>1
    <3>2. QED
      BY <2>1, <3>1
  <2>2. CASE s = <<"leave">>
    <3>1. Head(s) = "leave" /\ Tail(s) = <<>>
      BY <2>2
    <3>2. QED
      BY <2>2, <3>1
  <2>3. QED
    BY <1>9, <2>1, <2>2 DEF Moving
<1>10. QED
  BY <1>1, <1>2, <1>3, <1>4, <1>5, <1>6, <1>7, <1>8, <1>9 DEF Adding, Completing, Deleting

LEMMA ReKeyKinds ==
    ASSUME NEW s
    PROVE  /\ s \in Moved => s \notin Unmoved
           /\ s \in Moved \cup Unmoved => s # <<>> /\ s # <<"move", "leave">> /\ s # <<"leave">>
           /\ s = <<"move", "leave">> => s # <<>> /\ s # <<"leave">>
           /\ s = <<"leave">> => s # <<>>
<1>1. \A x \in Moved \cup Unmoved :
          x # <<>> /\ Head(x) \in {"newOut", "newIn", "oldOut", "oldIn"}
  BY DEF Moved, Unmoved
<1>2. \A x \in Moved \cap Unmoved : FALSE
  BY DEF Moved, Unmoved
<1>3. Head(<<"move", "leave">>) = "move" /\ Head(<<"leave">>) = "leave"
  OBVIOUS
<1>4. <<"move", "leave">> # <<>> /\ <<"leave">> # <<>> /\ <<"move", "leave">> # <<"leave">>
  BY <1>3
<1>5. QED
  BY <1>1, <1>2, <1>3, <1>4

\* One step of a tunnel that is up, to its list and its addresses A.
LEMMA ReKeyAddresses ==
    ASSUME NEW v, NEW w, NEW A, NEW B, v.phase = "up", w.phase = "up", v.todo # <<>>,
           v.todo \in Moving \cup Adding \cup Completing \cup Deleting, w.todo = Tail(v.todo),
           AddressedAs(v, A),
           \/ /\ Head(v.todo) \in {"newOut", "newIn", "oldOut"}
              /\ B = A /\ w.address = v.address /\ w.other = v.other
           \/ /\ Head(v.todo) = "oldIn"
              /\ B = A /\ w.address = v.other /\ w.other = v.address
           \/ /\ Head(v.todo) = "move"
              /\ B = A \cup {v.address} /\ w.address = v.address /\ w.other = v.other
           \/ /\ Head(v.todo) = "leave"
              /\ B = A \ {v.other} /\ w.address = v.address
    PROVE  AddressedAs(w, B)
<1> DEFINE s == v.todo
           r == w.todo
<1>1. /\ s \in Moved => A = {v.address} /\ v.address # v.other
      /\ s \in Unmoved => A = {v.address} /\ v.address = v.other
      /\ s = <<"move", "leave">> => A = {v.other} /\ v.address # v.other
      /\ s = <<"leave">> => A = {v.address, v.other} /\ v.address # v.other
  BY DEF AddressedAs
<1> SUFFICES /\ r = <<>> => B = {w.address}
             /\ r \in Moved => B = {w.address} /\ w.address # w.other
             /\ r \in Unmoved => B = {w.address} /\ w.address = w.other
             /\ r = <<"move", "leave">> => B = {w.other} /\ w.address # w.other
             /\ r = <<"leave">> => B = {w.address, w.other} /\ w.address # w.other
  BY DEF AddressedAs
<1>2. /\ r \in Moved => r \notin Unmoved
      /\ r \in Moved \cup Unmoved => r # <<>> /\ r # <<"move", "leave">> /\ r # <<"leave">>
      /\ r = <<"move", "leave">> => r # <<>> /\ r # <<"leave">>
      /\ r = <<"leave">> => r # <<>>
  BY ReKeyKinds
<1>3. CASE Head(s) \in {"newOut", "newIn", "oldOut"}
  <2>1. (s \in Moved /\ r \in Moved) \/ (s \in Unmoved /\ r \in Unmoved)
    BY <1>3, ReKeyTails
  <2>2. B = A /\ w.address = v.address /\ w.other = v.other
    BY <1>3
  <2> HIDE DEF s, r
  <2>3. QED
    BY <1>1, <1>2, <2>1, <2>2
<1>4. CASE Head(s) = "oldIn"
  <2>1. (s \in Moved /\ r = <<"move", "leave">>) \/ (s \in Unmoved /\ r = <<>>)
    BY <1>4, ReKeyTails
  <2>2. B = A /\ w.address = v.other /\ w.other = v.address
    BY <1>4
  <2> HIDE DEF s, r
  <2>3. QED
    BY <1>1, <1>2, <2>1, <2>2
<1>5. CASE Head(s) = "move"
  <2>1. s = <<"move", "leave">> /\ r = <<"leave">>
    BY <1>5, ReKeyTails
  <2>2. B = A \cup {v.address} /\ w.address = v.address /\ w.other = v.other
    BY <1>5
  <2> HIDE DEF s, r
  <2>3. QED
    BY <1>1, <1>2, <2>1, <2>2
<1>6. CASE Head(s) = "leave"
  <2>1. s = <<"leave">> /\ r = <<>>
    BY <1>6, ReKeyTails
  <2>2. B = A \ {v.other} /\ w.address = v.address
    BY <1>6
  <2> HIDE DEF s, r
  <2>3. QED
    BY <1>1, <1>2, <2>1, <2>2
<1>7. QED
  BY <1>3, <1>4, <1>5, <1>6

\* A tunnel that does not hold a device makes no claim.
LEMMA Unaddressed ==
    ASSUME NEW v, ~Holding(v), NEW A
    PROVE  AddressedAs(v, A)
<1>1. v.phase \notin {"up"} /\ ~(v.phase = "created" /\ IsNative(v))
  BY DEF Holding
<1>2. v.phase = "settingUp" => v.todo # <<>> /\ Head(v.todo) = "device"
  BY DEF Holding
<1>3. v.phase = "creating" => v.todo # <<>> /\ Head(v.todo) = "link"
  BY DEF Holding
<1>4. \A x \in OutDone \cup {<<"out", "in", "policies">>, <<"address", "out", "in", "policies">>} :
          x = <<>> \/ Head(x) # "link"
  BY DEF OutDone
<1>5. QED
  BY <1>1, <1>2, <1>3, <1>4 DEF AddressedAs

\* The link of another tunnel stays as it is.
LEMMA AddressedOther ==
    ASSUME Kept, InOrder, Meets, HoldsLink, LinksMade, Addressed, NEW t \in Tunnels, Step(t),
           ~Haunted', "address" \notin damaged', NEW u \in Alive', u \notin disturbed', u # t
    PROVE  AddressedAs(tunnel'[u], Link(u)'.addresses)
<1>1. /\ u \in Alive /\ u \notin disturbed /\ "address" \notin damaged
      /\ tunnel'[u] = tunnel[u] /\ Device(u)' = Device(u)
  BY SameConfig, OneTunnel
<1>2. CASE ~Holding(tunnel[u])
  <2>1. AddressedAs(tunnel[u], Link(u)'.addresses)
    BY <1>2, Unaddressed
  <2>2. QED
    BY <1>1, <2>1
<1>3. CASE Holding(tunnel[u])
  <2>1. host' = host
    BY <1>1, <1>3, Quiet
  <2>2. ~Haunted
    BY <2>1, HauntedStays
  <2>3. Link(u)' = Link(u)
    BY <1>1, <2>1 DEF Link
  <2>4. AddressedAs(tunnel[u], Link(u).addresses)
    BY <1>1, <2>2 DEF Addressed
  <2>5. QED
    BY <1>1, <2>3, <2>4
<1>4. QED
  BY <1>2, <1>3

\* The addresses of the device after an operation of its tunnel.
LEMMA AddressesAfter ==
    ASSUME Kept, NEW t \in Tunnels, Operation(t), Op(t) # "unlink",
           Op(t) = "link" => Link(t) = NoLink
    PROVE  LET A == Link(t).addresses
               B == host'.links[Device(t)].addresses
           IN  /\ Op(t) \in {"link", "device"} => B = {}
               /\ Op(t) \in {"address", "move"} => B = A \cup {tunnel[t].address}
               /\ Op(t) = "leave" => B = A \ {tunnel[t].other}
               /\ Op(t) \notin {"link", "device", "address", "move", "leave"} => B = A
<1> DEFINE L(o, a, x) == [owner |-> o, addresses |-> a, dns |-> x]
           l == Link(t)
           d == Device(t)
<1>1. /\ Op(t) \notin LinkOps => host'.links = host.links
      /\ Op(t) = "device" => l = NoLink
      /\ Op(t) \in {"link", "device"} /\ l = NoLink =>
             host'.links = [host.links EXCEPT ![d] = L(t, {}, FALSE)]
      /\ Op(t) \in {"address", "move"} =>
             host'.links = [host.links EXCEPT ![d] =
                 L(l.owner, l.addresses \cup {tunnel[t].address}, l.dns)]
      /\ Op(t) = "leave" =>
             host'.links = [host.links EXCEPT ![d] =
                 L(l.owner, l.addresses \ {tunnel[t].other}, l.dns)]
      /\ Op(t) = "linkDns" =>
             host'.links = [host.links EXCEPT ![d] = L(l.owner, l.addresses, TRUE)]
  BY LinksAfter
<1>2. host.links \in [Devices -> LinkType] /\ d \in Devices
  BY Done, Busy, HostParts DEF Kept, Typed
<1>3. \A o, a, x : L(o, a, x).addresses = a
  OBVIOUS
<1> HIDE DEF L
<1>4. \A o, a, x : host'.links = [host.links EXCEPT ![d] = L(o, a, x)] =>
                       host'.links[d].addresses = a
  BY <1>2, <1>3
<1>5. l = host.links[d]
  BY DEF Link
<1> HIDE DEF l, d
<1>6. CASE Op(t) \in {"link", "device"}
  <2>1. host'.links = [host.links EXCEPT ![d] = L(t, {}, FALSE)]
    BY <1>1, <1>6 DEF l
  <2>2. host'.links[d].addresses = {}
    BY <1>4, <2>1
  <2>3. QED
    BY <1>6, <2>2 DEF d
<1>7. CASE Op(t) \in {"address", "move"}
  <2>1. host'.links[d].addresses = l.addresses \cup {tunnel[t].address}
    BY <1>1, <1>4, <1>7
  <2>2. QED
    BY <1>7, <2>1 DEF d, l
<1>8. CASE Op(t) = "leave"
  <2>1. host'.links[d].addresses = l.addresses \ {tunnel[t].other}
    BY <1>1, <1>4, <1>8
  <2>2. QED
    BY <1>8, <2>1 DEF d, l
<1>9. CASE Op(t) = "linkDns"
  <2>1. host'.links[d].addresses = l.addresses
    <3>1. host'.links = [host.links EXCEPT ![d] = L(l.owner, l.addresses, TRUE)]
      BY <1>1, <1>9
    <3>2. QED
      BY <1>4, <3>1
  <2>2. QED
    BY <1>9, <2>1 DEF d, l
<1>10. CASE Op(t) \notin LinkOps
  <2>1. host'.links[d].addresses = l.addresses
    BY <1>1, <1>5, <1>10
  <2>2. QED
    BY <1>10, <2>1 DEF d, l, LinkOps
<1>11. QED
  BY <1>6, <1>7, <1>8, <1>9, <1>10 DEF LinkOps

\* An undisturbed native tunnel finds no link, unless it was left behind.
LEMMA FindsNoLink ==
    ASSUME Kept, InOrder, Meets, LinksMade, NEW t \in Tunnels, t \notin disturbed, ~Haunted,
           tunnel[t].phase = "creating", tunnel[t].todo # <<>>, Op(t) = "link"
    PROVE  Link(t) = NoLink
<1>1. /\ t \in Alive /\ Native(t) /\ ~Holding(tunnel[t]) /\ Device(t) \in Devices
  BY Beginnings, Busy
<1> DEFINE o == host.links[Device(t)].owner
<1>2. CASE o = None
  BY <1>1, <1>2 DEF Kept, LinksOwned, Link
<1>3. CASE o # None
  <2>1. o \in Alive
    BY <1>1, <1>3 DEF Haunted
  <2>2. tunnel[o].phase = "creating" => Holding(tunnel[o])
    BY <1>1, <1>3 DEF LinksMade
  <2>3. o # t
    BY <1>1, <2>2
  <2>4. QED
    BY <1>1, <2>1, <2>3 DEF Meets
<1>4. QED
  BY <1>2, <1>3

\* The creation of a native tunnel.
LEMMA AddressedCreating ==
    ASSUME Kept, NEW t \in Tunnels, Operation(t), tunnel[t].phase = "creating",
           Op(t) = "link" => Link(t) = NoLink, AddressedAs(tunnel[t], Link(t).addresses)
    PROVE  AddressedAs(tunnel'[t], host'.links[Device(t)].addresses)
<1> DEFINE s == tunnel[t].todo
           r == tunnel'[t].todo
           A == Link(t).addresses
           B == host'.links[Device(t)].addresses
           a == tunnel[t].address
<1>1. /\ s \in Configuring /\ s # <<>>
      /\ Op(t) \in {"link", "address", "out", "in", "policies"} /\ Op(t) = Head(s)
  BY Done, Busy DEF Kept, Staged, Stage, Op
<1>2. /\ tunnel'[t].phase = "creating" /\ r = Tail(s) /\ tunnel'[t].address = a
  BY <1>1, Stepped
<1>3. /\ Op(t) = "link" => B = {}
      /\ Op(t) = "address" => B = A \cup {a}
      /\ Op(t) \in {"out", "in", "policies"} => B = A
  BY <1>1, AddressesAfter
<1>4. /\ s = <<"address", "out", "in", "policies">> => A = {}
      /\ s \in OutDone \cup {<<"out", "in", "policies">>} => A = {a}
  BY DEF AddressedAs
<1>5. /\ Head(s) = "link" => r = <<"address", "out", "in", "policies">>
      /\ Head(s) = "address" => r = <<"out", "in", "policies">>
      /\ Head(s) \in {"out", "in", "policies"} => s \in OutDone \cup {<<"out", "in", "policies">>}
      /\ Head(s) = "out" => r \in OutDone
      /\ s \in OutDone => r \in OutDone
  BY <1>1, <1>2, TailConfigures
<1>6. Head(s) = "address" => s = <<"address", "out", "in", "policies">>
  <2>1. \A x \in Configuring \ {<<"address", "out", "in", "policies">>} :
            x = <<>> \/ Head(x) # "address"
    BY DEF Configuring, Configure
  <2>2. QED
    BY <1>1, <2>1
<1>7. \A x \in OutDone \cup {<<"out", "in", "policies">>} :
          x # <<"address", "out", "in", "policies">>
  <2>1. \A x \in OutDone \cup {<<"out", "in", "policies">>} : x = <<>> \/ Head(x) # "address"
    BY DEF OutDone
  <2>2. Head(<<"address", "out", "in", "policies">>) = "address"
        /\ <<"address", "out", "in", "policies">> # <<>>
    OBVIOUS
  <2>3. QED
    BY <2>1, <2>2
<1>8. Head(s) \in {"out", "in", "policies"} => r \in OutDone
  <2>1. CASE Head(s) \in {"in", "policies"}
    <3>1. s # <<"out", "in", "policies">>
      <4>1. Head(<<"out", "in", "policies">>) = "out"
        OBVIOUS
      <4>2. QED
        BY <2>1, <4>1
    <3>2. QED
      BY <1>5, <2>1, <3>1
  <2>2. QED
    BY <1>5, <2>1
<1> HIDE DEF s, r, A, B, a
<1>9. /\ r = <<"address", "out", "in", "policies">> => B = {}
      /\ r \in OutDone \cup {<<"out", "in", "policies">>} => B = {a}
  BY <1>1, <1>3, <1>4, <1>5, <1>6, <1>7, <1>8
<1>10. QED
  BY <1>2, <1>9 DEF AddressedAs, r, B, a

\* The set-up of a tunnel.
LEMMA AddressedSettingUp ==
    ASSUME Kept, InOrder, NEW t \in Tunnels, Operation(t), tunnel[t].phase = "settingUp",
           AddressedAs(tunnel[t], Link(t).addresses)
    PROVE  AddressedAs(tunnel'[t], host'.links[Device(t)].addresses)
<1> DEFINE s == tunnel[t].todo
           r == tunnel'[t].todo
           A == Link(t).addresses
           B == host'.links[Device(t)].addresses
           a == tunnel[t].address
<1>1. /\ s # <<>> /\ s \in Seq(Ops) /\ Op(t) \in SetUpOps /\ Op(t) = Head(s)
      /\ Ordered(tunnel[t], host.resolver)
  BY Done, Busy, LeftIs DEF Op, InOrder
<1>2. /\ tunnel'[t].phase = "settingUp" /\ r = Tail(s) /\ tunnel'[t].address = a
  BY <1>1, Stepped DEF SetUpOps
<1>3. /\ Op(t) = "device" => B = {}
      /\ Op(t) = "address" => B = A \cup {a}
      /\ Op(t) \notin {"device", "address"} => B = A
  BY <1>1, AddressesAfter DEF SetUpOps
<1>4. /\ Head(s) = "address" => A = {}
      /\ Head(s) \notin {"device", "address"} => A = {a}
  BY <1>1 DEF AddressedAs
<1>5. /\ Els(s) = {Head(s)} \cup Els(r) /\ r \in Seq(Ops)
      /\ r # <<>> => Head(r) \in Els(r)
  <2>1. Els(s) = {Head(s)} \cup Els(r) /\ r \in Seq(Ops)
    BY <1>1, <1>2, ElsTail, TailOfSeq
  <2>2. r # <<>> => Els(r) = {Head(r)} \cup Els(Tail(r))
    BY <2>1, ElsTail
  <2>3. QED
    BY <2>1, <2>2
<1>6. CASE Native(t)
  <2>1. Els(s) \cap {"device", "address"} = {}
    BY <1>1, <1>6 DEF Ordered, IsNative, Native
  <2>2. Head(s) \notin {"device", "address"}
        /\ (r # <<>> => Head(r) \notin {"device", "address"})
    BY <1>5, <2>1
  <2> HIDE DEF s, r, A, B, a
  <2>3. B = {a}
    BY <1>1, <1>3, <1>4, <2>2
  <2>4. QED
    BY <1>2, <2>2, <2>3 DEF AddressedAs, r, B, a
<1>7. CASE ~Native(t)
  <2>1. Sorted(s)
    BY <1>1, <1>7 DEF Ordered, IsNative, Native
  <2>2. /\ \A x \in Els(s) : x = Head(s) \/ Rank(x) > Rank(Head(s))
        /\ r # <<>> => Rank(Head(r)) > Rank(Head(s)) /\ Head(r) # "device"
        /\ \A x \in Els(r) : r # <<>> => x = Head(r) \/ Rank(x) > Rank(Head(r))
    <3>1. Sorted(r)
      <4>1. /\ Len(s) \in Nat \ {0} /\ Len(r) = Len(s) - 1
            /\ \A i \in 1..Len(r) : r[i] = s[1 + i]
        BY <1>1, <1>2, TailIsRest
      <4> HIDE DEF s, r
      <4>2. Len(s) \in Nat /\ Len(r) \in Nat /\ 1 \in Nat
        BY <4>1
      <4>3. QED
        BY <2>1, <4>1, <4>2, OrderOfRest
    <3>2. r # <<>> => \A x \in Els(r) : x = Head(r) \/ Rank(x) > Rank(Head(r))
      BY <1>5, <3>1, RankLeft
    <3>3. QED
      BY <1>1, <1>2, <2>1, <3>2, RankLeft
  <2>3. CASE Op(t) = "device"
    <3>1. "address" \in Els(r)
      <4>1. "address" \in Els(s)
        BY <1>1, <1>7, <2>3 DEF Ordered, IsNative, Native
      <4>2. QED
        BY <1>1, <1>5, <2>3, <4>1
    <3>2. r # <<>>
      BY <3>1, ElsEmpty
    <3>3. Head(r) = "address"
      <4> SUFFICES ASSUME Head(r) # "address"
                   PROVE  FALSE
        OBVIOUS
      <4>1. Rank("address") > Rank(Head(r)) /\ Rank(Head(r)) > Rank("device")
        BY <1>1, <2>2, <2>3, <3>1, <3>2
      <4>2. Rank("address") = 2 /\ Rank("device") = 1 /\ Rank(Head(r)) \in 1..12
        BY Ranks DEF Rank
      <4>3. QED
        BY <4>1, <4>2
    <3> HIDE DEF s, r, A, B, a
    <3>4. B = {}
      BY <1>3, <2>3
    <3>5. QED
      BY <1>2, <3>2, <3>3, <3>4 DEF AddressedAs, r, B
  <2>4. CASE Op(t) # "device"
    <3>1. r # <<>> => Head(r) \notin {"device", "address"}
      <4> SUFFICES ASSUME r # <<>>, Head(r) = "address"
                   PROVE  FALSE
        BY <2>2
      <4>1. Rank("address") > Rank(Head(s))
        BY <2>2
      <4>2. Rank("address") = 2 /\ (Head(s) # "device" => Rank(Head(s)) # 1)
        BY DEF Rank
      <4>3. Rank(Head(s)) \in 1..12
        BY Ranks
      <4>4. QED
        BY <1>1, <2>4, <4>1, <4>2, <4>3
    <3> HIDE DEF s, r, A, B, a
    <3>2. B = {a}
      BY <1>1, <1>3, <1>4, <2>4
    <3>3. QED
      BY <1>2, <3>1, <3>2 DEF AddressedAs, r, B, a
  <2>5. QED
    BY <2>3, <2>4
<1>8. QED
  BY <1>6, <1>7

\* An operation of the tunnel itself.
LEMMA AddressedOn ==
    ASSUME Kept, InOrder, Meets, LinksMade, NEW t \in Tunnels, t \notin disturbed, ~Haunted,
           Operation(t), tunnel[t].phase # "dropped", AddressedAs(tunnel[t], Link(t).addresses)
    PROVE  AddressedAs(tunnel'[t], host'.links[Device(t)].addresses)
<1> DEFINE v == tunnel[t]
           w == tunnel'[t]
<1>1. /\ v.todo # <<>> /\ v.phase \in {"creating", "settingUp", "up"}
      /\ v.phase = "up" => Op(t) \in {"newOut", "newIn", "oldOut", "oldIn", "move", "leave"}
  BY Done, Busy
<1>2. CASE v.phase = "creating"
  BY <1>1, <1>2, FindsNoLink, AddressedCreating
<1>3. CASE v.phase = "settingUp"
  BY <1>3, AddressedSettingUp
<1>4. CASE v.phase = "up"
  <2> DEFINE A == Link(t).addresses
             B == host'.links[Device(t)].addresses
  <2>1. v.todo \in Moving \cup Adding \cup Completing \cup Deleting
    BY <1>4 DEF Kept, Staged, Stage
  <2>2. /\ w.phase = "up" /\ w.todo = Tail(v.todo)
        /\ w.address = IF Op(t) = "oldIn" THEN v.other ELSE v.address
        /\ Op(t) \notin {"oldIn", "leave"} => w.other = v.other
    BY <1>4, Stepped
  <2>3. Op(t) = "oldIn" => w.other = v.address
    <3>1. v \in Object /\ w = After(t)
      BY <1>1, Done, Busy DEF Kept, Typed
    <3>2. QED
      BY <3>1, Afterwards
  <2>4. /\ Op(t) = "move" => B = A \cup {v.address}
        /\ Op(t) = "leave" => B = A \ {v.other}
        /\ Op(t) \in {"newOut", "newIn", "oldOut", "oldIn"} => B = A
    BY <1>1, <1>4, AddressesAfter
  <2>5. Op(t) = Head(v.todo)
    BY DEF Op
  <2> HIDE DEF A, B, v, w
  <2>6. \/ /\ Head(v.todo) \in {"newOut", "newIn", "oldOut"}
           /\ B = A /\ w.address = v.address /\ w.other = v.other
        \/ /\ Head(v.todo) = "oldIn"
           /\ B = A /\ w.address = v.other /\ w.other = v.address
        \/ /\ Head(v.todo) = "move"
           /\ B = A \cup {v.address} /\ w.address = v.address /\ w.other = v.other
        \/ /\ Head(v.todo) = "leave"
           /\ B = A \ {v.other} /\ w.address = v.address
    BY <1>1, <1>4, <2>2, <2>3, <2>4, <2>5
  <2>7. AddressedAs(v, A)
    BY DEF v, A
  <2>8. AddressedAs(w, B)
    BY <1>1, <1>4, <2>1, <2>2, <2>6, <2>7, ReKeyAddresses
  <2>9. QED
    BY <2>8 DEF w, B
<1>5. QED
  BY <1>1, <1>2, <1>3, <1>4

\* The start of a rekey.
LEMMA AddressedStart ==
    ASSUME Kept, NEW t \in Tunnels, StartReKey(t), NEW A, AddressedAs(tunnel[t], A)
    PROVE  AddressedAs(tunnel'[t], A)
<1> DEFINE v == tunnel[t]
           w == tunnel'[t]
<1>1. v.phase = "up" /\ v.todo = <<>> /\ v \in Object /\ v.address \in Addresses
  BY DEF StartReKey, Kept, Typed, Staged, Stage
<1>2. A = {v.address}
  BY <1>1 DEF AddressedAs
<1>3. PICK a \in Addresses :
          tunnel' = [tunnel EXCEPT ![t] =
               [@ EXCEPT !.todo = ReKey(t, a # v.address),
                         !.address = IF Native(t) THEN v.address ELSE a,
                         !.other = IF Native(t) THEN a ELSE v.address,
                         !.key = v.key + (IF Native(t) THEN 0 ELSE 1)]]
  BY DEF StartReKey
<1> DEFINE list == ReKey(t, a # v.address)
           address == IF Native(t) THEN v.address ELSE a
           other == IF Native(t) THEN a ELSE v.address
           key == v.key + (IF Native(t) THEN 0 ELSE 1)
           z == [v EXCEPT !.todo = list, !.address = address, !.other = other, !.key = key]
<1>4. w = z
  BY <1>3 DEF Kept, Typed
<1> HIDE DEF list, address, other, key
<1>5. z.phase = v.phase /\ z.todo = list /\ z.address = address /\ z.other = other
  BY <1>1 DEF Object
<1>6. w.phase = "up" /\ w.todo = list /\ w.address = address /\ w.other = other
  BY <1>1, <1>4, <1>5
<1>7. CASE Native(t)
  <2>1. address = v.address /\ other = a
    BY <1>7 DEF address, other
  <2>2. CASE a # v.address
    <3>1. list \in Moved
      BY <1>7, <2>2, ReKeyLists DEF list, Moved
    <3>2. list \notin Unmoved /\ list # <<>> /\ list # <<"move", "leave">> /\ list # <<"leave">>
      BY <3>1, ReKeyKinds
    <3>3. QED
      BY <1>2, <1>6, <2>1, <2>2, <3>1, <3>2 DEF AddressedAs
  <2>3. CASE a = v.address
    <3>1. list \in Unmoved
      BY <1>7, <2>3, ReKeyLists DEF list, Unmoved
    <3>2. list \notin Moved /\ list # <<>> /\ list # <<"move", "leave">> /\ list # <<"leave">>
      BY <3>1, ReKeyKinds
    <3>3. QED
      BY <1>2, <1>6, <2>1, <2>3, <3>1, <3>2 DEF AddressedAs
  <2>4. QED
    BY <2>2, <2>3
<1>8. CASE ~Native(t)
  <2>1. address = a /\ other = v.address
    BY <1>8 DEF address, other
  <2>2. list = IF a # v.address THEN <<"move", "leave">> ELSE <<>>
    BY <1>8 DEF list, ReKey, When
  <2>3. CASE a # v.address
    <3>1. list = <<"move", "leave">> /\ list # <<>> /\ list # <<"leave">>
          /\ list \notin Moved \cup Unmoved
      BY <2>2, <2>3, ReKeyKinds
    <3>2. QED
      BY <1>2, <1>6, <2>1, <2>3, <3>1 DEF AddressedAs
  <2>4. CASE a = v.address
    <3>1. list = <<>> /\ list # <<"move", "leave">> /\ list # <<"leave">>
          /\ list \notin Moved \cup Unmoved
      BY <2>2, <2>4, ReKeyKinds
    <3>2. QED
      BY <1>2, <1>6, <2>1, <2>4, <3>1 DEF AddressedAs
  <2>5. QED
    BY <2>3, <2>4
<1>9. QED
  BY <1>7, <1>8

\* Steps between operations, and rekeys that fail.
LEMMA AddressedTurn ==
    ASSUME Kept, InOrder, NEW t \in Tunnels, NEW A, AddressedAs(tunnel[t], A),
           Created(t) \/ Run(t) \/ Up(t) \/ ReKeyFails(t), "address" \notin damaged'
    PROVE  AddressedAs(tunnel'[t], A)
<1> DEFINE v == tunnel[t]
           w == tunnel'[t]
<1>1. v \in Object
  BY DEF Kept, Typed
<1>2. CASE Created(t)
  <2>1. v.phase = "creating" /\ v.todo = <<>> /\ w = [v EXCEPT !.phase = "created"]
    BY <1>2, Turned
  <2>2. /\ [v EXCEPT !.phase = "created"].phase = "created"
        /\ [v EXCEPT !.phase = "created"].address = v.address
    BY <1>1 DEF Object
  <2>3. A = {v.address}
    BY <2>1, EmptyLists DEF AddressedAs
  <2>4. QED
    BY <2>1, <2>2, <2>3 DEF AddressedAs
<1>3. CASE Run(t)
  <2>1. v.phase = "created"
    BY <1>3 DEF Run
  <2>2. /\ w.phase = "settingUp" /\ w.config = v.config /\ w.address = v.address
        /\ w.todo \in Seq(SetUpOps) /\ w.todo # <<>>
        /\ Native(t) => Els(w.todo) \cap {"device", "address"} = {}
        /\ ~Native(t) => Head(w.todo) = "device"
    BY <1>3, Runs
  <2>3. Head(w.todo) \in Els(w.todo)
    BY <2>2, ElsTail
  <2>4. Native(t) => A = {v.address}
    BY <2>1 DEF AddressedAs, IsNative, Native
  <2>5. QED
    BY <2>2, <2>3, <2>4 DEF AddressedAs
<1>4. CASE Up(t)
  <2>1. v.phase = "settingUp" /\ v.todo = <<>> /\ w = [v EXCEPT !.phase = "up", !.index = None]
    BY <1>4, Turned
  <2> DEFINE z == [v EXCEPT !.phase = "up", !.index = None]
  <2>2. z.phase = "up" /\ z.address = v.address /\ z.todo = v.todo
    BY <1>1 DEF Object
  <2>3. A = {v.address}
    BY <2>1 DEF AddressedAs
  <2>4. <<>> \notin Moved \cup Unmoved /\ <<>> # <<"move", "leave">> /\ <<>> # <<"leave">>
    BY ReKeyKinds
  <2>5. w.phase = "up" /\ w.address = v.address /\ w.todo = <<>>
    BY <2>1, <2>2
  <2> HIDE DEF v, w, z
  <2>6. AddressedAs(w, A)
    BY <2>3, <2>4, <2>5 DEF AddressedAs
  <2>7. QED
    BY <2>6 DEF w
<1>5. CASE ReKeyFails(t)
  <2>1. /\ v.phase = "up" /\ v.todo # <<>>
        /\ v.todo \in Moving \cup Adding \cup Completing \cup Deleting
        /\ Op(t) \in {"newOut", "newIn", "oldOut", "oldIn", "move", "leave"} /\ Op(t) = Head(v.todo)
    BY <1>5, Turned, Busy DEF Kept, Staged, Stage, Op
  <2>2. Op(t) \notin {"move", "leave"}
    BY <1>5 DEF ReKeyFails, Fail
  <2>3. CASE Op(t) \in {"oldOut", "oldIn"}
    <3>1. w = After(t)
      BY <1>5, <2>3 DEF ReKeyFails, Kept, Typed
    <3>2. /\ w.phase = "up" /\ w.todo = Tail(v.todo)
          /\ w.address = IF Op(t) = "oldIn" THEN v.other ELSE v.address
          /\ Op(t) = "oldIn" => w.other = v.address
          /\ Op(t) = "oldOut" => w.other = v.other
      BY <1>1, <2>1, <2>3, <3>1, Afterwards
    <3> HIDE DEF v, w
    <3>3. AddressedAs(v, A)
      BY DEF v
    <3>4. AddressedAs(w, A)
      BY <2>1, <2>3, <3>2, <3>3, ReKeyAddresses
    <3>5. QED
      BY <3>4 DEF w
  <2>4. CASE Op(t) \in {"newOut", "newIn"}
    <3> DEFINE z == [v EXCEPT !.todo = <<>>, !.other = None]
    <3>1. w = z
      BY <1>5, <2>4 DEF ReKeyFails, Kept, Typed
    <3>2. z.phase = v.phase /\ z.address = v.address /\ z.todo = <<>>
      BY <1>1 DEF Object
    <3>3. v.todo \in Moved \cup Unmoved
      BY <2>1, <2>4, ReKeyTails
    <3>4. A = {v.address}
      BY <2>1, <3>3 DEF AddressedAs
    <3>5. <<>> \notin Moved \cup Unmoved /\ <<>> # <<"move", "leave">> /\ <<>> # <<"leave">>
      BY ReKeyKinds
    <3>6. w.phase = "up" /\ w.address = v.address /\ w.todo = <<>>
      BY <2>1, <3>1, <3>2
    <3> HIDE DEF v, w, z
    <3>7. AddressedAs(w, A)
      BY <3>4, <3>5, <3>6 DEF AddressedAs
    <3>8. QED
      BY <3>7 DEF w
  <2>5. QED
    BY <2>1, <2>2, <2>3, <2>4
<1>6. QED
  BY <1>2, <1>3, <1>4, <1>5

LEMMA AddressedOwn ==
    ASSUME Kept, InOrder, Meets, LinksMade, Addressed, NEW t \in Alive', Step(t),
           ~Haunted', "address" \notin damaged', t \notin disturbed'
    PROVE  AddressedAs(tunnel'[t], Link(t)'.addresses)
<1>1. t \in Tunnels
  BY DEF Alive
<1>2. CASE tunnel'[t].phase = "dropped"
  BY <1>2 DEF AddressedAs
<1>3. CASE Create(t)
  <2>1. /\ IsNative(tunnel'[t]) => tunnel'[t].phase = "creating" /\ tunnel'[t].todo = Configure
        /\ ~IsNative(tunnel'[t]) => tunnel'[t].phase = "created"
    BY <1>1, <1>3, Turned
  <2>2. Configure # <<>> /\ Head(Configure) = "link"
    BY DEF Configure
  <2>3. ~Holding(tunnel'[t])
    BY <2>1, <2>2 DEF Holding
  <2>4. QED
    BY <2>3, Unaddressed
<1>4. CASE ~Create(t) /\ tunnel'[t].phase # "dropped"
  <2>1. /\ t \in Alive /\ t \notin disturbed /\ Device(t)' = Device(t)
        /\ "address" \notin damaged
    BY <1>1, <1>4, SameConfig, OneTunnel
  <2>2. tunnel'[t].phase # "gone"
    BY DEF Alive
  <2>3. Operation(t) => tunnel[t].phase # "dropped"
    BY <1>1, <1>4, Stepped
  <2>4. ~Unlinking(t)
    <3>1. SetUpFails(t) => tunnel'[t] = Dropped(t)
      BY <1>1, Turned
    <3>2. Dropped(t).phase = "dropped"
      BY DEF Dropped, InitTunnel
    <3>3. Operation(t) => Op(t) # "unlink"
      BY <1>1, <2>3, Done, Busy DEF SetUpOps
    <3>4. QED
      BY <1>4, <3>1, <3>2, <3>3 DEF Unlinking
  <2>5. ~Haunted
    BY <1>1, <2>4, HauntedStays
  <2>6. AddressedAs(tunnel[t], Link(t).addresses)
    BY <2>1, <2>5 DEF Addressed
  <2>7. Link(t)'.addresses = host'.links[Device(t)].addresses
    BY <2>1 DEF Link
  <2>8. CASE Operation(t)
    <3>1. AddressedAs(tunnel'[t], host'.links[Device(t)].addresses)
      BY <1>1, <2>1, <2>3, <2>5, <2>6, <2>8, AddressedOn
    <3>2. QED
      BY <2>7, <3>1
  <2>9. CASE Created(t) \/ Run(t) \/ Up(t) \/ StartReKey(t) \/ ReKeyFails(t)
    <3>1. host' = host
      BY <1>1, <2>9, OneTunnel DEF Turn
    <3>2. AddressedAs(tunnel'[t], Link(t).addresses)
      BY <1>1, <2>6, <2>9, AddressedTurn, AddressedStart
    <3>3. Link(t)' = Link(t)
      BY <2>1, <3>1 DEF Link
    <3>4. QED
      BY <3>2, <3>3
  <2>10. CASE End(t) \/ Gone(t) \/ CreateFails(t) \/ SetUpFails(t) \/ CleanUpFails(t)
    <3>1. NoTunnel.phase = "gone" /\ Dropped(t).phase = "dropped"
      BY DEF NoTunnel, InitTunnel, Dropped
    <3>2. tunnel'[t].phase \in {"gone", "dropped"}
      BY <1>1, <2>10, <3>1, Turned
    <3>3. QED
      BY <1>4, <2>2, <3>2
  <2>11. QED
    BY <1>4, <2>8, <2>9, <2>10 DEF Step
<1>5. QED
  BY <1>2, <1>3, <1>4

LEMMA AddressedAfter ==
    ASSUME Kept, InOrder, Meets, HoldsLink, LinksMade, Addressed, NEW t \in Tunnels, Step(t)
    PROVE  Addressed'
<1> SUFFICES ASSUME ~Haunted', "address" \notin damaged', NEW u \in Alive', u \notin disturbed'
             PROVE  AddressedAs(tunnel'[u], Link(u)'.addresses)
  BY DEF Addressed
<1>1. CASE u = t
  BY <1>1, AddressedOwn
<1>2. CASE u # t
  BY <1>2, AddressedOther
<1>3. QED
  BY <1>1, <1>2

-----------------------------------------------------------------------------
(* A crash *)

\* Nothing is alive any more, and of what is not damaged only the link of a native tunnel
\* could be left, and its keys: there is none.
LEMMA CrashParts ==
    ASSUME Kept, Crash
    PROVE  /\ Alive' = {} /\ damaged \subseteq damaged' /\ {"routing", "dns"} \subseteq damaged'
           /\ "device" \notin damaged' => \A t \in Alive : ~Native(t)
           /\ "others" \notin damaged' => \A t \in Tunnels : ~Writing(t)
           /\ \A t \in Tunnels : tunnel'[t] = IF t \in Alive THEN NoTunnel ELSE tunnel[t]
           /\ \A t \in Tunnels : tunnel'[t].phase \in {"none", "gone"} /\ tunnel'[t].todo = <<>>
           /\ disturbed' = disturbed
<1>1. \A t \in Tunnels : tunnel'[t] = IF t \in Alive THEN NoTunnel ELSE tunnel[t]
  BY DEF Crash
<1>2. NoTunnel.phase = "gone" /\ NoTunnel.todo = <<>>
  BY DEF NoTunnel, InitTunnel
<1>3. \A t \in Tunnels : tunnel'[t].phase \in {"none", "gone"} /\ tunnel'[t].todo = <<>>
  <2> TAKE t \in Tunnels
  <2>1. CASE t \in Alive
    BY <1>1, <1>2, <2>1
  <2>2. CASE t \notin Alive
    <3>1. tunnel[t].phase \in {"none", "gone"} /\ tunnel'[t] = tunnel[t]
      BY <1>1, <2>2 DEF Alive
    <3>2. QED
      BY <3>1 DEF Kept, Staged, Stage
  <2>3. QED
    BY <2>1, <2>2
<1>4. Alive' = {}
  BY <1>3 DEF Alive
<1>5. QED
  BY <1>1, <1>3, <1>4 DEF Crash

LEMMA CrashLinks ==
    ASSUME Kept, Crash
    PROVE  /\ host'.links["snx-tun"].owner = None
           /\ host'.links["snx-xfrm"] = host.links["snx-xfrm"]
           /\ host'.routes = {r \in host.routes : r.owner # host.links["snx-tun"].owner}
           /\ host'.states = host.states /\ host'.policies = host.policies
           /\ host'.conf = host.conf /\ host'.resolver = host.resolver
<1>1. host' = Unlinked("snx-tun")
  BY DEF Crash
<1>2. host.links \in [Devices -> LinkType] /\ host \in Host
  BY HostParts DEF Kept, Typed
<1>3. host' = [host EXCEPT !.links = [host.links EXCEPT !["snx-tun"] = NoLink],
                           !.routes = {r \in host.routes : r.owner # host.links["snx-tun"].owner}]
  BY <1>1 DEF Unlinked
<1> DEFINE L == [host.links EXCEPT !["snx-tun"] = NoLink]
           R == {r \in host.routes : r.owner # host.links["snx-tun"].owner}
           h == [host EXCEPT !.links = L, !.routes = R]
<1>4. L["snx-tun"] = NoLink /\ L["snx-xfrm"] = host.links["snx-xfrm"] /\ NoLink.owner = None
  BY <1>2 DEF Devices, NoLink
<1>5. host' = h
  BY <1>3
<1> HIDE DEF L, R
<1>6. /\ h.links = L /\ h.routes = R /\ h.states = host.states /\ h.policies = host.policies
      /\ h.conf = host.conf /\ h.resolver = host.resolver
  BY <1>2 DEF Host
<1> HIDE DEF h
<1>7. /\ host'.links = L /\ host'.routes = R /\ host'.states = host.states
      /\ host'.policies = host.policies /\ host'.conf = host.conf /\ host'.resolver = host.resolver
  BY <1>5, <1>6
<1>8. QED
  BY <1>4, <1>7 DEF R

LEMMA CrashInUse ==
    ASSUME Kept, InUse, Crash
    PROVE  InUse'
<1>1. Alive' = {}
  BY CrashParts
<1>2. InOrder'
  <2> SUFFICES ASSUME NEW t \in Tunnels
               PROVE  Ordered(tunnel'[t], host'.resolver)
    BY DEF InOrder
  <2>1. tunnel'[t].phase \in {"none", "gone"}
    BY CrashParts
  <2>2. QED
    BY <2>1 DEF Ordered
<1>3. Meets' /\ HoldsLink' /\ SetUpThere' /\ Addressed'
  BY <1>1 DEF Meets, HoldsLink, SetUpThere, Addressed
<1>4. LinksMade'
  <2>1. \A d \in Devices : host'.links[d].owner # None =>
            host'.links[d].owner = host.links[d].owner /\ d = "snx-xfrm"
    BY CrashLinks DEF Devices
  <2>2. ASSUME NEW d \in Devices, host'.links[d].owner # None
        PROVE  LET o == host'.links[d].owner
               IN  /\ tunnel'[o].phase # "none"
                   /\ o \in Alive' => DeviceOf(tunnel'[o]) = d
                   /\ tunnel'[o].phase = "creating" => Holding(tunnel'[o])
    <3> DEFINE o == host'.links[d].owner
    <3>1. o = host.links[d].owner /\ o # None
      BY <2>1, <2>2
    <3>2. o \in Tunnels /\ tunnel[o].phase # "none"
      <4>1. host.links[d] \in LinkType
        BY HostParts DEF Kept, Typed
      <4>2. QED
        BY <3>1, <4>1 DEF LinkType, InUse, LinksMade
    <3>3. tunnel'[o].phase # "none"
      <4>1. NoTunnel.phase = "gone"
        BY DEF NoTunnel, InitTunnel
      <4>2. QED
        BY <3>2, <4>1, CrashParts
    <3>4. tunnel'[o].phase # "creating"
      BY <3>2, CrashParts
    <3>5. QED
      BY <1>1, <3>3, <3>4
  <2>3. \A r \in host'.routes : \E d \in Devices : host'.links[d].owner = r.owner
    <3> TAKE r \in host'.routes
    <3>1. r \in host.routes /\ r.owner # host.links["snx-tun"].owner
      BY CrashLinks
    <3>2. host.links["snx-xfrm"].owner = r.owner
      BY <3>1 DEF InUse, LinksMade, Devices
    <3>3. QED
      BY <3>2, CrashLinks DEF Devices
  <2>4. QED
    BY <2>2, <2>3 DEF LinksMade
<1>5. LinksInUse'
  <2> SUFFICES ASSUME "device" \notin damaged', NEW d \in Devices, host'.links[d].owner # None
               PROVE  FALSE
    BY DEF LinksInUse
  <2>1. host.links["snx-xfrm"].owner = host'.links[d].owner /\ d = "snx-xfrm"
    BY CrashLinks DEF Devices
  <2> DEFINE o == host.links["snx-xfrm"].owner
  <2>2. o # None /\ o \in Alive
    BY <2>1, CrashParts DEF InUse, LinksInUse, Devices
  <2>3. DeviceOf(tunnel[o]) = "snx-xfrm"
    BY <2>1, <2>2 DEF InUse, LinksMade
  <2>4. Native(o)
    BY <2>3 DEF DeviceOf, IsNative, Native
  <2>5. QED
    BY <2>2, <2>4, CrashParts
<1>6. KeysInUse'
  <2>1. \A v, k, x : KeyInUse(v, k, x) => v.phase \notin {"none", "gone"} /\ IsNative(v)
    BY DEF KeyInUse
  <2>2. \A v : PoliciesInUse(v) => v.phase \notin {"none", "gone"} /\ IsNative(v)
    BY DEF PoliciesInUse
  <2> SUFFICES ASSUME "device" \notin damaged'
               PROVE  host'.states = {} /\ host'.policies = {}
    BY DEF KeysInUse
  <2>3. "device" \notin damaged /\ \A t \in Alive : ~Native(t)
    BY CrashParts
  <2>4. \A s \in host.states : FALSE
    <3> TAKE s \in host.states
    <3>1. s.owner \in Tunnels
      BY HostParts DEF Kept, Typed
    <3>2. KeyInUse(tunnel[s.owner], s.key, s.direction)
      BY <2>3 DEF InUse, KeysInUse
    <3>3. tunnel[s.owner].phase \notin {"none", "gone"} /\ IsNative(tunnel[s.owner])
      BY <2>1, <3>2
    <3>4. QED
      BY <2>3, <3>1, <3>3 DEF Alive, IsNative, Native
  <2>5. \A t \in host.policies : FALSE
    <3> TAKE t \in host.policies
    <3>1. t \in Tunnels
      BY HostParts DEF Kept, Typed
    <3>2. PoliciesInUse(tunnel[t])
      BY <2>3 DEF InUse, KeysInUse
    <3>3. tunnel[t].phase \notin {"none", "gone"} /\ IsNative(tunnel[t])
      BY <2>2, <3>2
    <3>4. QED
      BY <2>3, <3>1, <3>3 DEF Alive, IsNative, Native
  <2>6. QED
    BY <2>4, <2>5, CrashLinks
<1>7. RoutingInUse'
  BY CrashParts DEF RoutingInUse
<1>8. DnsInUse'
  <2> SUFFICES ASSUME disturbed' = {}, "others" \notin damaged'
               PROVE  host'.conf.others
    BY <1>1, CrashParts DEF DnsInUse
  <2>1. disturbed = {} /\ "others" \notin damaged /\ \A t \in Tunnels : ~Writing(t)
    BY CrashParts
  <2>2. host.conf.others
    BY <2>1 DEF InUse, DnsInUse
  <2>3. QED
    BY <2>2, CrashLinks
<1>9. QED
  BY <1>2, <1>3, <1>4, <1>5, <1>6, <1>7, <1>8 DEF InUse

-----------------------------------------------------------------------------
(* Nothing is left behind, and tunnels that are up work *)

LEMMA InUseInit == Init => InUse
<1> SUFFICES ASSUME Init
             PROVE  InUse
  OBVIOUS
<1>1. \A t \in Tunnels : tunnel[t].phase = "none" /\ tunnel[t].todo = <<>>
  BY DEF Init, InitTunnel
<1>2. Alive = {}
  BY <1>1 DEF Alive
<1>3. /\ \A d \in Devices : host.links[d].owner = None
      /\ host.routes = {} /\ host.rules = {} /\ host.states = {} /\ host.policies = {}
      /\ host.no_ipv6 = FALSE /\ host.conf.others /\ host.conf.vpn = {}
  BY DEF Init, NoLink
<1>4. InOrder
  BY <1>1 DEF InOrder, Ordered
<1>5. Meets /\ HoldsLink /\ SetUpThere /\ Addressed
  BY <1>2 DEF Meets, HoldsLink, SetUpThere, Addressed
<1>6. LinksMade /\ LinksInUse
  BY <1>3 DEF LinksMade, LinksInUse
<1>7. KeysInUse /\ RoutingInUse /\ DnsInUse
  BY <1>2, <1>3 DEF KeysInUse, RoutingInUse, DnsInUse
<1>8. QED
  BY <1>4, <1>5, <1>6, <1>7 DEF InUse

LEMMA InUseNext == Kept /\ InUse /\ [Next]_vars => InUse'
<1> SUFFICES ASSUME Kept, InUse, [Next]_vars
             PROVE  InUse'
  OBVIOUS
<1>1. CASE Crash
  BY <1>1, CrashInUse
<1>2. ASSUME NEW t \in Tunnels, Step(t)
      PROVE  InUse'
  <2>1. InOrder /\ Meets /\ HoldsLink /\ LinksMade /\ LinksInUse /\ KeysInUse /\ RoutingInUse
        /\ DnsInUse /\ SetUpThere /\ Addressed
    BY DEF InUse
  <2>2. InOrder' /\ Meets' /\ HoldsLink'
    BY <1>2, <2>1, InOrderAfter, MeetsAfter, HoldsLinkAfter
  <2>3. LinksMade' /\ LinksInUse' /\ KeysInUse'
    BY <1>2, <2>1, LinksMadeAfter, LinksInUseAfter, KeysInUseAfter
  <2>4. RoutingInUse' /\ DnsInUse'
    BY <1>2, <2>1, RoutingInUseAfter, DnsInUseAfter
  <2>5. SetUpThere' /\ Addressed'
    BY <1>2, <2>1, SetUpThereAfter, AddressedAfter
  <2>6. QED
    BY <2>2, <2>3, <2>4, <2>5 DEF InUse
<1>3. CASE UNCHANGED vars
  <2>1. tunnel' = tunnel /\ host' = host /\ disturbed' = disturbed /\ damaged' = damaged
    BY <1>3 DEF vars
  <2>2. InOrder' /\ Meets' /\ HoldsLink' /\ LinksMade' /\ LinksInUse'
    BY <2>1 DEF InUse, InOrder, Meets, HoldsLink, LinksMade, LinksInUse, Alive, Native, Link,
                Device
  <2>3. KeysInUse' /\ RoutingInUse' /\ DnsInUse'
    BY <2>1 DEF InUse, KeysInUse, RoutingInUse, DnsInUse, Alive, Writing, Op, Gateway
  <2>4. SetUpThere' /\ Addressed'
    <3>1. \A t, op : There(t, op)' <=> There(t, op)
      BY <2>1 DEF There, Exclusion, Keepalive, Gateway, Link, Device, Native, Haunted, Alive
    <3>2. \A t : Link(t)' = Link(t)
      BY <2>1 DEF Link, Device, Native
    <3>3. Haunted' = Haunted /\ Alive' = Alive
      BY <2>1 DEF Haunted, Alive
    <3>4. SetUpThere'
      BY <2>1, <3>1, <3>3 DEF InUse, SetUpThere
    <3>5. Addressed'
      BY <2>1, <3>2, <3>3 DEF InUse, Addressed
    <3>6. QED
      BY <3>4, <3>5
  <2>5. QED
    BY <2>2, <2>3, <2>4 DEF InUse
<1>4. QED
  BY <1>1, <1>2, <1>3, NextSteps

LEMMA AlwaysInUse == Spec => [](Kept /\ InUse)
<1>1. Init => Kept /\ InUse
  BY KeptInit, InUseInit
<1>2. (Kept /\ InUse) /\ [Next]_vars => (Kept /\ InUse)'
  BY KeptNext, InUseNext
<1>3. QED
  BY <1>1, <1>2, PTL DEF Spec

\* NothingLeftBehind, from who uses what.
LEMMA UsedOnly == Kept /\ InUse => NothingLeftBehind
<1> SUFFICES ASSUME Kept, InUse
             PROVE  NothingLeftBehind
  OBVIOUS
<1>1. host \in Host
  BY DEF Kept, Typed
<1>2. ASSUME "device" \notin damaged
      PROVE  /\ Owned({host.links[d].owner : d \in Devices} \ {None})
             /\ Owned({s.owner : s \in host.states} \cup host.policies)
             /\ Owned({r.owner : r \in host.routes})
  <2>1. \A d \in Devices : host.links[d].owner = None \/ host.links[d].owner \in Alive
    BY <1>2 DEF InUse, LinksInUse
  <2>2. \A r \in host.routes : r.owner \in Alive
    <3> TAKE r \in host.routes
    <3>1. PICK d \in Devices : host.links[d].owner = r.owner
      BY DEF InUse, LinksMade
    <3>2. r.owner \in Tunnels
      BY <1>1, HostParts
    <3>3. QED
      BY <2>1, <3>1, <3>2, HostAssumption
  <2>3. \A s \in host.states : s.owner \in Alive
    <3> TAKE s \in host.states
    <3>1. s.owner \in Tunnels
      BY <1>1, HostParts
    <3>2. KeyInUse(tunnel[s.owner], s.key, s.direction)
      BY <1>2 DEF InUse, KeysInUse
    <3>3. QED
      BY <3>1, <3>2 DEF KeyInUse, Alive
  <2>4. \A t \in host.policies : t \in Alive
    <3> TAKE t \in host.policies
    <3>1. t \in Tunnels
      BY <1>1, HostParts
    <3>2. PoliciesInUse(tunnel[t])
      BY <1>2 DEF InUse, KeysInUse
    <3>3. QED
      BY <3>1, <3>2 DEF PoliciesInUse, Alive
  <2>5. QED
    BY <2>1, <2>2, <2>3, <2>4 DEF Owned
<1>3. ASSUME "routing" \notin damaged
      PROVE  /\ {r.gateway : r \in host.rules} \subseteq Served
             /\ host.no_ipv6 => \E t \in Alive : tunnel[t].config.disable_ipv6
  <2>1. \A r \in host.rules : \E t \in Alive : KeepsRule(tunnel[t], r)
    BY <1>3 DEF InUse, RoutingInUse
  <2>2. \A r \in host.rules : r.gateway \in Served
    BY <2>1 DEF KeepsRule, Served, Gateway
  <2>3. host.no_ipv6 => \E t \in Alive : KeepsIPv6(tunnel[t])
    BY <1>3 DEF InUse, RoutingInUse
  <2>4. QED
    BY <2>2, <2>3 DEF KeepsIPv6
<1>4. ASSUME "dns" \notin damaged, disturbed = {}
      PROVE  host.conf.vpn \subseteq Served
  <2>1. \A g \in host.conf.vpn : \E t \in Alive : KeepsServer(tunnel[t], g, host.resolver)
    BY <1>4 DEF InUse, DnsInUse
  <2>2. QED
    BY <2>1 DEF KeepsServer, Served, Gateway
<1>5. ASSUME "others" \notin damaged, disturbed = {}
      PROVE  host.conf.others \/ \E t \in Tunnels : Writing(t)
  BY <1>5 DEF InUse, DnsInUse
<1>6. QED
  BY <1>2, <1>3, <1>4, <1>5 DEF NothingLeftBehind

\* A tunnel that is up finds the rules that are not its own gone ...
LEMMA OwnRules ==
    ASSUME Kept, InUse, NEW t \in Tunnels \ disturbed, tunnel[t].phase = "up",
           "routing" \notin damaged, NEW r \in host.rules, r.sort = "exclusion"
    PROVE  r.gateway = Gateway(t)
<1>1. PICK u \in Alive : KeepsRule(tunnel[u], r)
  BY DEF InUse, RoutingInUse
<1>2. r.gateway = Gateway(u) /\ Keeping(tunnel[u], "rule", "unrule")
  BY <1>1 DEF KeepsRule, Gateway
<1>3. u \in Tunnels /\ InOrder /\ Meets /\ HoldsLink
  BY DEF Alive, InUse
<1>4. Holding(tunnel[u])
  BY <1>2, <1>3, KeepingHolds
<1>5. t \in Alive /\ Holding(tunnel[t])
  BY DEF Alive, Holding
<1>6. u = t
  <2> SUFFICES ASSUME u # t
               PROVE  FALSE
    OBVIOUS
  <2>1. ~({t, u} \subseteq disturbed)
    OBVIOUS
  <2>2. QED
    BY <1>3, <1>4, <1>5, <2>1, Alone
<1>7. QED
  BY <1>2, <1>6

\* ... and what it has set up there.
LEMMA OwnSetUp ==
    ASSUME Kept, InUse, NEW t \in Tunnels \ disturbed, tunnel[t].phase = "up", ~Haunted
    PROVE  LET c == tunnel[t].config
           IN  /\ Link(t).owner = t
               /\ tunnel[t].todo = <<>> /\ "address" \notin damaged =>
                      Link(t).addresses = {tunnel[t].address}
               /\ Exclusion(t) \in host.rules
               /\ c.kind # "ssl" => Keepalive(t) \in host.rules
               /\ {r \in host.routes : r.owner = t} # {}
               /\ c.full /\ c.disable_ipv6 => host.no_ipv6
               /\ c.dns => Link(t).dns \/ Gateway(t) \in host.conf.vpn
<1> DEFINE c == tunnel[t].config
<1>1. t \in Alive /\ Holding(tunnel[t]) /\ Device(t) \in Devices
  BY DEF Alive, Holding, Device, Devices
<1>2. Link(t).owner = t
  <2>1. CASE ~Native(t)
    BY <1>1, <2>1 DEF InUse, HoldsLink
  <2>2. CASE Native(t)
    <3>1. Link(t).owner # None /\ (Link(t).owner = t \/ Link(t).owner \notin Alive)
      BY <1>1, <2>2 DEF InUse, HoldsLink
    <3>2. Link(t).owner \in Alive \cup {None}
      BY <1>1 DEF Haunted, Link
    <3>3. QED
      BY <3>1, <3>2
  <2>3. QED
    BY <2>1, <2>2
<1>3. tunnel[t].todo = <<>> /\ "address" \notin damaged =>
          Link(t).addresses = {tunnel[t].address}
  BY <1>1 DEF InUse, Addressed, AddressedAs
<1>4. \A op \in Needed(c, host.resolver) : There(t, op)
  BY <1>1 DEF InUse, SetUpThere, Doing
<1>5. Exclusion(t) \in host.rules
  BY <1>4 DEF Needed, There
<1>6. c.kind # "ssl" => Keepalive(t) \in host.rules
  BY <1>4 DEF Needed, There
<1>7. {r \in host.routes : r.owner = t} # {}
  <2>1. PICK op \in {"default", "subnets"} : op \in Needed(c, host.resolver)
    BY DEF Needed
  <2>2. Haunted \/ \E r \in host.routes : r.owner = t
    BY <1>4, <2>1 DEF There
  <2>3. QED
    BY <2>2
<1>8. c.full /\ c.disable_ipv6 => host.no_ipv6
  BY <1>4 DEF Needed, There
<1>9. c.dns => Link(t).dns \/ Gateway(t) \in host.conf.vpn
  <2>1. c.dns => \E op \in {"linkDns", "write"} : op \in Needed(c, host.resolver)
    BY DEF Needed
  <2>2. QED
    BY <1>4, <2>1 DEF There
<1>10. QED
  BY <1>2, <1>3, <1>5, <1>6, <1>7, <1>8, <1>9

\* Nothing on the host outlives the tunnel it was made for, however tunnels overlap, whichever
\* operations fail and whenever the service is killed, but for what damaged names.
THEOREM NothingIsLeftBehind == Spec => []NothingLeftBehind
BY AlwaysInUse, UsedOnly, PTL

\* A tunnel that is up has its device with its address, rules, routes, DNS and, if asked for,
\* IPv6 switched off, until it ends, whatever other tunnels do meanwhile and whatever failed
\* before, but for links and routing that were left behind.
THEOREM UpTunnelsWork == Spec => []UpTunnelWorks
<1>1. Kept /\ InUse => UpTunnelWorks
  BY OwnRules, OwnSetUp DEF UpTunnelWorks
<1>2. QED
  BY <1>1, AlwaysInUse, PTL
=============================================================================
