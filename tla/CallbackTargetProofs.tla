------------------------ MODULE CallbackTargetProofs ------------------------
(***************************************************************************)
(* Where webhooks go, for any names, addresses and policies and any answers *)
(* of the resolver: the two copies of the rules agree, and no connection    *)
(* leaves what the policy allows.                                           *)
(***************************************************************************)
EXTENDS CallbackTarget, SequenceTheorems, TLAPS

-----------------------------------------------------------------------------
(* Names *)

Specs == [labels : Seq(STRING), dots : Nat]

(* The hosts of the model are of that kind. *)
LEMMA HostsAreSpecs == Hosts \subseteq Specs
  <1>1. Labels \subseteq Seq(STRING)
    <2>1. ASSUME NEW ip \in IPs PROVE <<ip>> \in Seq(STRING)
      BY TargetAssumption
    <2>2. Names \subseteq Seq(STRING)
      BY TargetAssumption
    <2> QED
      BY <2>1, <2>2 DEF Labels
  <1> QED
    BY <1>1, TargetAssumption DEF Hosts, Specs

(* A normalisation takes a dot, if there is one, and keeps the labels. *)
LEMMA Normalised ==
    ASSUME NEW h \in Specs
    PROVE  /\ normalizeHostname(h) \in Specs
           /\ normalizeHostname(h).labels = h.labels
           /\ normalizeHostname(h).dots = IF h.dots = 0 THEN 0 ELSE h.dots - 1
           /\ h.dots = 0 => normalizeHostname(h) = h
  BY DEF normalizeHostname, Specs

(* The rules for local names and literals only know hostnames without a final *)
(* dot, which the normalisation leaves alone.                                 *)
LEMMA LocalIsNormal ==
    ASSUME NEW h \in Specs, isPrivateHostnameLabel(h) \/ ParseIP(h) # {}
    PROVE  normalizeHostname(h) = h
  <1>1. h.dots = 0
    BY DEF isPrivateHostnameLabel, StrictlyInDomain, InDomain, Label, ParseIP
  <1> QED
    BY <1>1, Normalised

(* A name ends with its last label. *)
LEMMA LastIsSuffix ==
    ASSUME NEW ls \in Seq(STRING), Len(ls) > 0
    PROVE  IsSuffix(<<Last(ls)>>, ls)
  <1> DEFINE l == Last(ls)
             a == Reverse(<<l>>)
             b == Reverse(ls)
  <1>1. Len(ls) \in Nat /\ l = ls[Len(ls)]
    BY DEF Last
  <1>2. a \in Seq({l}) /\ Len(a) = 1 /\ a[1] = l
    BY DEF Reverse
  <1>3. b \in Seq(STRING) /\ Len(b) = Len(ls) /\ b[1] = l
    BY <1>1 DEF Reverse
  <1> HIDE DEF a, b, l
  <1>4. SubSeq(a, 1, 1) = SubSeq(b, 1, 1)
    <2>1. /\ SubSeq(a, 1, 1) = [i \in 1..1 |-> a[i]]
          /\ SubSeq(b, 1, 1) = [i \in 1..1 |-> b[i]]
      BY <1>1, <1>2, <1>3, SubSeqProperties
    <2> QED
      BY <1>2, <1>3, <2>1
  <1>5. IsPrefix(a, b)
    BY <1>1, <1>2, <1>3, <1>4 DEF IsPrefix
  <1> QED
    BY <1>5 DEF IsSuffix, a, b, l

-----------------------------------------------------------------------------
(* The two copies of the rules *)

(* They ask for the same hosts. *)
LEMMA SameAllowed == \A h : isAllowedCallbackHost(h) <=> isAllowedTargetHost(h)
  BY DEF isAllowedCallbackHost, isAllowedTargetHost

(* What the worker calls local the API does, which normalises once more. *)
LEMMA SameLocal ==
    ASSUME NEW n \in Specs
    PROVE  /\ (isPrivateHostnameLabel(n) \/ \E ip \in ParseIP(n) : isPrivateOrLocalIP(ip))
                    => isLocalOrPrivateCallbackHost(n)
           /\ n.dots = 0 /\ isLocalOrPrivateCallbackHost(n)
                    => isPrivateHostnameLabel(n) \/ \E ip \in ParseIP(n) : isPrivateOrLocalIP(ip)
  <1>1. ASSUME isPrivateHostnameLabel(n) \/ \E ip \in ParseIP(n) : isPrivateOrLocalIP(ip)
        PROVE  isLocalOrPrivateCallbackHost(n)
    <2>1. normalizeHostname(n) = n
      BY <1>1, LocalIsNormal
    <2> QED
      BY <1>1, <2>1 DEF isLocalOrPrivateCallbackHost, isPrivateHostnameLabel, isPrivateOrLocalIP
  <1>2. ASSUME n.dots = 0, isLocalOrPrivateCallbackHost(n)
        PROVE  isPrivateHostnameLabel(n) \/ \E ip \in ParseIP(n) : isPrivateOrLocalIP(ip)
    <2>1. normalizeHostname(n) = n
      BY <1>2, Normalised
    <2> QED
      BY <1>2, <2>1 DEF isLocalOrPrivateCallbackHost, isPrivateHostnameLabel, isPrivateOrLocalIP
  <1> QED
    BY <1>1, <1>2

(* The two copies of the policy agree, whatever the constants are. *)
LEMMA CopiesAgreeAlways == CopiesAgree
  <1> SUFFICES ASSUME NEW h \in Hosts
               PROVE  /\ validateCallbackURLTarget(h) => ~RefusedByName(h)
                      /\ ~RefusedByName(h) /\ h.dots <= 1 => validateCallbackURLTarget(h)
    BY DEF CopiesAgree
  <1> DEFINE n == normalizeHostname(h)
  <1>1. n \in Specs /\ (h.dots <= 1 => n.dots = 0)
    BY HostsAreSpecs, Normalised DEF Specs
  <1>2. isAllowedCallbackHost(n) <=> isAllowedTargetHost(n)
    BY SameAllowed
  <1>3. /\ (isPrivateHostnameLabel(n) \/ \E ip \in ParseIP(n) : isPrivateOrLocalIP(ip))
                    => isLocalOrPrivateCallbackHost(n)
        /\ n.dots = 0 /\ isLocalOrPrivateCallbackHost(n)
                    => isPrivateHostnameLabel(n) \/ \E ip \in ParseIP(n) : isPrivateOrLocalIP(ip)
    <2> HIDE DEF n
    <2> QED
      BY <1>1, SameLocal
  <1> QED
    BY <1>1, <1>2, <1>3 DEF validateCallbackURLTarget, RefusedByName

(* The API and the worker agree on every name and every policy: what the one  *)
(* accepts the other does not refuse before its lookup, and the other way     *)
(* round for names with at most one final dot (validateCallbackURLTarget,     *)
(* resolveDispatchTarget).                                                    *)
THEOREM CopiesStayEqual == Spec => []CopiesAgree
  BY CopiesAgreeAlways, PTL

-----------------------------------------------------------------------------
(* The connections *)

\* While addresses are dialled, the host has passed the check by name, as it
\* is spelled after one normalisation, and the addresses the other.
TargetChecked ==
    pc = "connect" =>
        /\ ~RefusedByName(normalizeHostname(host))
        /\ ~policy.private => \A ip \in ips : ip \notin PrivateIPs

\* The policy does not change, and the host of a request is one that occurs.
TargetType ==
    /\ policy \in Policies
    /\ pc # "new" => host \in Hosts

AllowedConns ==
    \A c \in conns :
        /\ policy.allowed # {} =>
                \E a \in policy.allowed : a.labels # << >> /\ IsSuffix(a.labels, c[1])
        /\ ~policy.private => c[2] \notin PrivateIPs

TargetInv == TargetType /\ TargetChecked /\ AllowedConns

(* A host that passed the check by name is on the allow-list, by its labels,  *)
(* and is no local name, if at most two dots were there to take away.         *)
LEMMA CheckedName ==
    ASSUME policy \in Policies, NEW h \in Specs, ~RefusedByName(normalizeHostname(h))
    PROVE  /\ policy.allowed # {} =>
                \E a \in policy.allowed : a.labels # << >> /\ IsSuffix(a.labels, h.labels)
           /\ ~policy.private /\ h.dots <= 2 => ~LocalName(h.labels)
  <1> DEFINE n == normalizeHostname(h)
             m == normalizeHostname(n)
  <1>1. n \in Specs /\ m \in Specs /\ m.labels = h.labels
    BY Normalised
  <1>2. h.dots <= 2 => m.dots = 0
    <2>1. /\ h.dots \in Nat
          /\ n.dots = IF h.dots = 0 THEN 0 ELSE h.dots - 1
          /\ m.dots = IF n.dots = 0 THEN 0 ELSE n.dots - 1
      BY <1>1, Normalised DEF Specs
    <2> HIDE DEF n, m
    <2> QED
      BY <2>1
  <1>3. ASSUME policy.allowed # {}
        PROVE  \E a \in policy.allowed : a.labels # << >> /\ IsSuffix(a.labels, h.labels)
    <2>1. PICK a \in policy.allowed :
            /\ a.labels # << >>
            /\ InDomain(normalizeHostname(m), normalizeHostname(a))
      BY <1>3 DEF RefusedByName, isAllowedTargetHost
    <2>2. a \in Specs
      BY TargetAssumption DEF Specs
    <2>3. normalizeHostname(a).labels = a.labels /\ normalizeHostname(m).labels = h.labels
      BY <1>1, <2>2, Normalised
    <2> QED
      BY <2>1, <2>3 DEF InDomain
  <1>4. ASSUME ~policy.private, h.dots <= 2, LocalName(h.labels)
        PROVE  FALSE
    <2>1. ~isPrivateHostnameLabel(m)
      BY <1>4 DEF RefusedByName
    <2>2. m.dots = 0 /\ m.labels = h.labels /\ m \in Specs /\ h.labels \in Seq(STRING)
      BY <1>1, <1>2, <1>4 DEF Specs
    <2> HIDE DEF m, n
    <2>3. m = [labels |-> h.labels, dots |-> 0]
      BY <2>2 DEF Specs
    <2>4. CASE h.labels = <<"localhost">>
      BY <2>1, <2>3, <2>4 DEF isPrivateHostnameLabel, Label
    <2>5. CASE Len(h.labels) > 1 /\ Last(h.labels) \in {"localhost", "local", "internal"}
      <3> DEFINE l == Last(h.labels)
      <3>1. IsSuffix(<<l>>, h.labels)
        <4>1. Len(h.labels) > 0
          BY <2>2, <2>5
        <4> QED
          BY <2>2, <4>1, LastIsSuffix
      <3>2. h.labels # <<l>>
        <4> SUFFICES ASSUME h.labels = <<l>> PROVE FALSE
          OBVIOUS
        <4> HIDE DEF l
        <4>1. Len(h.labels) = 1
          OBVIOUS
        <4> QED
          BY <2>5, <4>1
      <3> HIDE DEF l
      <3>3. InDomain(m, Label(l)) /\ m # Label(l)
        BY <2>3, <3>1, <3>2 DEF InDomain, Label
      <3>4. StrictlyInDomain(m, Label(l))
        BY <3>3 DEF StrictlyInDomain
      <3>5. l \in {"localhost", "local", "internal"}
        BY <2>5 DEF l
      <3> QED
        BY <2>1, <3>4, <3>5 DEF isPrivateHostnameLabel
    <2> QED
      BY <1>4, <2>4, <2>5 DEF LocalName
  <1> QED
    BY <1>3, <1>4

(* Every step keeps it: a host is checked before it is connected to. *)
LEMMA TargetStep == TargetInv /\ [Next]_vars => TargetInv'
  <1> SUFFICES ASSUME TargetInv, [Next]_vars PROVE TargetInv'
    OBVIOUS
  <1>p. policy' = policy
    BY DEF Next, DispatchStep, Accept, ValidateTarget, ResolveForDial, DialNext,
           ReuseConnection, Respond, Redirect, Timeout, Fail, vars
  <1>f. CASE Fail /\ pc # "new"
    BY <1>p, <1>f DEF Fail, TargetInv, TargetType, TargetChecked, AllowedConns
  <1>1. ASSUME NEW h \in Hosts, Accept(h) PROVE TargetInv'
    BY <1>p, <1>1 DEF Accept, TargetInv, TargetType, TargetChecked, AllowedConns
  <1>2. CASE ValidateTarget
    BY <1>p, <1>f, <1>2 DEF ValidateTarget, TargetInv, TargetType, TargetChecked, AllowedConns
  <1>3. CASE ResolveForDial
    <2> DEFINE n == normalizeHostname(host)
    <2>1. PICK answer \in Lookup(n) :
            \/ /\ Resolvable(n, answer)
               /\ ips' = answer
               /\ pc' = "connect"
               /\ UNCHANGED <<policy, host, via, conns>>
            \/ ~Resolvable(n, answer) /\ Fail
      BY <1>3 DEF ResolveForDial
    <2>2. CASE /\ Resolvable(n, answer)
               /\ ips' = answer
               /\ pc' = "connect"
               /\ UNCHANGED <<policy, host, via, conns>>
      <3>1. /\ ~RefusedByName(n)
            /\ ~policy.private => \A ip \in answer : ip \notin PrivateIPs
        BY <2>2 DEF Resolvable, isPrivateOrLocalIP
      <3>2. RefusedByName(normalizeHostname(host))' <=> RefusedByName(n)
        BY <2>2 DEF RefusedByName, isAllowedTargetHost
      <3>3. TargetChecked'
        BY <2>2, <3>1, <3>2 DEF TargetChecked
      <3>4. TargetType' /\ AllowedConns'
        BY <1>3, <2>2 DEF ResolveForDial, TargetInv, TargetType, AllowedConns
      <3> QED
        BY <3>3, <3>4 DEF TargetInv
    <2> QED
      BY <1>3, <1>f, <2>1, <2>2 DEF ResolveForDial
  <1>4. CASE DialNext
    <2>1. PICK ip \in ips :
            \/ /\ conns' = {c \in conns : c[1] # host.labels} \cup {<<host.labels, ip>>}
               /\ pc' = "exchange"
               /\ UNCHANGED <<policy, host, via>>
            \/ /\ ips' = ips \ {ip}
               /\ UNCHANGED <<policy, pc, host, via, conns>>
            \/ Fail
      BY <1>4 DEF DialNext
    <2>2. /\ pc = "connect" /\ host \in Specs /\ policy \in Policies
          /\ ~RefusedByName(normalizeHostname(host))
          /\ ~policy.private => ip \notin PrivateIPs
      BY <1>4, HostsAreSpecs DEF DialNext, TargetInv, TargetType, TargetChecked
    <2>3. CASE /\ conns' = {c \in conns : c[1] # host.labels} \cup {<<host.labels, ip>>}
               /\ pc' = "exchange"
               /\ UNCHANGED <<policy, host, via>>
      <3>1. policy.allowed # {} =>
                \E a \in policy.allowed : a.labels # << >> /\ IsSuffix(a.labels, host.labels)
        BY <2>2, CheckedName
      <3>2. \A c \in conns' : c \in conns \/ (c[1] = host.labels /\ c[2] = ip)
        BY <2>3
      <3>3. AllowedConns'
        BY <1>p, <2>2, <3>1, <3>2 DEF TargetInv, AllowedConns
      <3> QED
        BY <2>2, <2>3, <3>3 DEF TargetInv, TargetType, TargetChecked
    <2>4. CASE ips' = ips \ {ip} /\ UNCHANGED <<policy, pc, host, via, conns>>
      <3>1. RefusedByName(normalizeHostname(host))' <=> RefusedByName(normalizeHostname(host))
        BY <2>4 DEF RefusedByName, isAllowedTargetHost
      <3> QED
        BY <2>4, <3>1 DEF TargetInv, TargetType, TargetChecked, AllowedConns
    <2> QED
      BY <1>f, <2>1, <2>2, <2>3, <2>4
  <1>5. CASE ReuseConnection \/ Respond
    BY <1>p, <1>5 DEF ReuseConnection, Respond, TargetInv, TargetType, TargetChecked, AllowedConns
  <1>6. ASSUME NEW h \in Hosts, Redirect(h) PROVE TargetInv'
    <2>1. CASE Fail
      BY <1>6, <1>f, <2>1 DEF Redirect
    <2>2. CASE ~Fail
      BY <1>p, <1>6, <2>2 DEF Redirect, TargetInv, TargetType, TargetChecked, AllowedConns
    <2> QED
      BY <2>1, <2>2
  <1>7. CASE Timeout
    BY <1>f, <1>7 DEF Timeout
  <1>8. CASE UNCHANGED vars
    <2>1. UNCHANGED <<policy, pc, host, ips, via, conns>>
      BY <1>8 DEF vars
    <2>2. RefusedByName(normalizeHostname(host))' <=> RefusedByName(normalizeHostname(host))
      BY <2>1 DEF RefusedByName, isAllowedTargetHost
    <2> QED
      BY <2>1, <2>2 DEF TargetInv, TargetType, TargetChecked, AllowedConns
  <1> QED
    BY <1>1, <1>2, <1>3, <1>4, <1>5, <1>6, <1>7, <1>8 DEF Next, DispatchStep

(* However names are repointed between the checks, and wherever redirects     *)
(* lead, every connection goes to a host of the allow-list and to an address  *)
(* that is not private, and none is dialled for a local name                  *)
(* (dialValidatedTarget).                                                     *)
THEOREM ConnectionsStayAllowed == Spec => []ConnectionsAllowed
  <1>1. Init => TargetInv
    BY DEF Init, TargetInv, TargetType, TargetChecked, AllowedConns
  <1>2. TargetInv => ConnectionsAllowed
    <2> SUFFICES ASSUME TargetInv PROVE ConnectionsAllowed
      OBVIOUS
    <2>1. ASSUME pc = "connect", ~policy.private, host.dots <= 2
          PROVE  ~LocalName(host.labels)
      <3>1. /\ policy \in Policies /\ host \in Specs
            /\ ~RefusedByName(normalizeHostname(host))
        BY <2>1, HostsAreSpecs DEF TargetInv, TargetType, TargetChecked
      <3> QED
        BY <2>1, <3>1, CheckedName
    <2> QED
      BY <2>1 DEF TargetInv, AllowedConns, ConnectionsAllowed
  <1> QED
    BY <1>1, <1>2, TargetStep, PTL DEF Spec
=============================================================================
