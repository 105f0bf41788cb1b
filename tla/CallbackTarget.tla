--------------------------- MODULE CallbackTarget ---------------------------
(***************************************************************************)
(* Where webhooks may go. The API checks a callback URL when the transfer   *)
(* is created (transfers/service.go); the worker checks the target again    *)
(* before the request, at every redirect, and once more when it connects,   *)
(* with a name lookup each time (webhooks/dispatcher.go, target_policy.go). *)
(* The answers of two lookups of one name have nothing to do with each      *)
(* other: names are repointed between the creation and the dispatch, and    *)
(* between the check and the connection.                                    *)
(*                                                                          *)
(* One behaviour follows one callback URL through one Dispatch.             *)
(*                                                                          *)
(* Abstractions.                                                            *)
(*  - A hostname is its sequence of labels and the number of dots after     *)
(*    them, of which each normalisation takes one; case and blanks, gone    *)
(*    after the first, are left out. An address literal is a hostname of    *)
(*    one label.                                                            *)
(*  - The transport may take two spellings of a host for one when it looks  *)
(*    for a connection to reuse.                                            *)
(*  - Schemes, ports, user names and the payload are left out.              *)
(***************************************************************************)
EXTENDS Naturals, Sequences, SequencesExt

CONSTANTS
    Names,      \* label sequences of the hostnames that occur
    IPs,        \* addresses
    PrivateIPs, \* loopback, private, link-local, multicast or unspecified
    Policies,   \* configurations: [allowed : set of hosts, private : BOOLEAN]
    MaxDots,    \* bound: dots after a hostname
    NoHost      \* no target yet

ASSUME TargetAssumption ==
    /\ IPs \subseteq STRING
    /\ PrivateIPs \subseteq IPs
    /\ Names \subseteq Seq(STRING) \ {<< >>}
    /\ Policies \subseteq [allowed : SUBSET [labels : Seq(STRING), dots : Nat],
                           private : BOOLEAN]
    /\ MaxDots \in Nat

VARIABLES
    policy,   \* the configured callback policy
    pc,       \* where the dispatch is
    host,     \* target_url of the delivery, then of the request in progress
    ips,      \* addresses left to dial
    via,      \* requests made before this one
    conns     \* connections of this dispatch: to which host, at which address

vars == <<policy, pc, host, ips, via, conns>>

Labels == Names \cup {<<ip>> : ip \in IPs}

Hosts == [labels : Labels, dots : 0..MaxDots]

\* CheckRedirect's limit.
MaxVia == 10

-----------------------------------------------------------------------------
(* Names *)

\* TrimSpace, ToLower, TrimSuffix ".": one dot less.
normalizeHostname(h) == [h EXCEPT !.dots = IF @ = 0 THEN 0 ELSE @ - 1]

\* The address of a literal: a set of at most one.
ParseIP(h) == {ip \in IPs : h = [labels |-> <<ip>>, dots |-> 0]}

\* h is the domain d or in it.
InDomain(h, d) == h.dots = d.dots /\ IsSuffix(d.labels, h.labels)

StrictlyInDomain(h, d) == InDomain(h, d) /\ h # d

Label(l) == [labels |-> <<l>>, dots |-> 0]

-----------------------------------------------------------------------------
(* transfers/service.go: the check at creation *)

isAllowedCallbackHost(h) ==
    \E a \in policy.allowed :
        a.labels # << >> /\ InDomain(normalizeHostname(h), normalizeHostname(a))

\* Mutant: the address classes without the names.
AddressOnlyCallbackHost(h) ==
    \E ip \in ParseIP(normalizeHostname(h)) : ip \in PrivateIPs

isLocalOrPrivateCallbackHost(h) ==
    LET n == normalizeHostname(h)
    IN  \/ n = Label("localhost")
        \/ \E l \in {"localhost", "local", "internal"} : StrictlyInDomain(n, Label(l))
        \/ \E ip \in ParseIP(n) : ip \in PrivateIPs

validateCallbackURLTarget(h) ==
    /\ policy.allowed # {} => isAllowedCallbackHost(normalizeHostname(h))
    /\ policy.private \/ ~isLocalOrPrivateCallbackHost(normalizeHostname(h))

-----------------------------------------------------------------------------
(* webhooks/target_policy.go: the check at dispatch *)

isAllowedTargetHost(h) ==
    \E a \in policy.allowed :
        a.labels # << >> /\ InDomain(normalizeHostname(h), normalizeHostname(a))

isPrivateHostnameLabel(h) ==
    \/ h = Label("localhost")
    \/ \E l \in {"localhost", "local", "internal"} : StrictlyInDomain(h, Label(l))

isPrivateOrLocalIP(ip) == ip \in PrivateIPs

\* What resolveDispatchTarget decides before it asks for addresses.
RefusedByName(h) ==
    LET n == normalizeHostname(h)
    IN  \/ policy.allowed # {} /\ ~isAllowedTargetHost(n)
        \/ /\ ~policy.private
           /\ \/ isPrivateHostnameLabel(n)
              \/ \E ip \in ParseIP(n) : isPrivateOrLocalIP(ip)

\* The address sets a lookup may give: a literal is its own address, any other
\* name has whatever the resolver says now. An empty answer is an error.
Lookup(h) ==
    LET n == normalizeHostname(h)
    IN  IF ParseIP(n) # {} THEN {ParseIP(n)} ELSE SUBSET IPs

\* resolveDispatchTarget succeeds, given the answer of the lookup.
Resolvable(h, answer) ==
    /\ ~RefusedByName(h)
    /\ answer # {}
    /\ policy.private \/ \A ip \in answer : ~isPrivateOrLocalIP(ip)

-----------------------------------------------------------------------------
(* The API *)

\* CreateTransfer accepts the callback URL and it is stored as it was spelled.
Accept(h) ==
    /\ pc = "new"
    /\ validateCallbackURLTarget(h)
    /\ host' = h
    /\ pc' = "ready"
    /\ UNCHANGED <<policy, ips, via, conns>>

-----------------------------------------------------------------------------
(* Dispatch *)

Fail == pc' = "failed" /\ UNCHANGED <<policy, host, ips, via, conns>>

\* The target is checked, with a lookup of its own, before the request.
ValidateTarget ==
    /\ pc = "ready"
    /\ \E answer \in Lookup(host) :
        \/ /\ Resolvable(host, answer)
           /\ pc' = "dial"
           /\ UNCHANGED <<policy, host, ips, via, conns>>
        \/ ~Resolvable(host, answer) /\ Fail

\* Mutant: the connection uses a lookup nobody checks.
UncheckedDial ==
    /\ pc = "dial"
    /\ \E answer \in Lookup(normalizeHostname(host)) :
        /\ answer # {}
        /\ ips' = answer
        /\ pc' = "connect"
    /\ UNCHANGED <<policy, host, via, conns>>

\* dialValidatedTarget, the check and the lookup whose addresses are dialled.
\* The name is normalised before resolveDispatchTarget does it again.
ResolveForDial ==
    /\ pc = "dial"
    /\ LET n == normalizeHostname(host)
       IN  \E answer \in Lookup(n) :
            \/ /\ Resolvable(n, answer)
               /\ ips' = answer
               /\ pc' = "connect"
               /\ UNCHANGED <<policy, host, via, conns>>
            \/ ~Resolvable(n, answer) /\ Fail

\* dialValidatedTarget, the loop: the next address, until one answers. The
\* transport dials a host it was connected to only after that was closed.
DialNext ==
    /\ pc = "connect"
    /\ \E ip \in ips :
        \/ /\ conns' = {c \in conns : c[1] # host.labels} \cup {<<host.labels, ip>>}
           /\ ips' = {}
           /\ pc' = "exchange"
           /\ UNCHANGED <<policy, host, via>>
        \/ /\ ips # {ip}
           /\ ips' = ips \ {ip}
           /\ UNCHANGED <<policy, pc, host, via, conns>>
        \/ ips = {ip} /\ Fail

\* The transport may send a request to a host it has a connection to on that.
ReuseConnection ==
    /\ pc = "dial"
    /\ \E c \in conns : c[1] = host.labels
    /\ pc' = "exchange"
    /\ UNCHANGED <<policy, host, ips, via, conns>>

\* A response that is not a redirect is the result.
Respond ==
    /\ pc = "exchange"
    /\ pc' = "done"
    /\ UNCHANGED <<policy, host, ips, via, conns>>

\* Mutant: CheckRedirect without the limit.
EndlessRedirect(h) ==
    /\ pc = "exchange"
    /\ \E answer \in Lookup(h) : Resolvable(h, answer)
    /\ host' = h
    /\ via' = 1
    /\ pc' = "dial"
    /\ UNCHANGED <<policy, ips, conns>>

\* CheckRedirect: the limit first, then the check of the new target.
Redirect(h) ==
    /\ pc = "exchange"
    /\ \/ via + 1 >= MaxVia /\ Fail
       \/ /\ via + 1 < MaxVia
          /\ \E answer \in Lookup(h) :
                \/ /\ Resolvable(h, answer)
                   /\ host' = h
                   /\ via' = via + 1
                   /\ pc' = "dial"
                   /\ UNCHANGED <<policy, ips, conns>>
                \/ ~Resolvable(h, answer) /\ Fail

\* The client's timeout, a connection that breaks.
Timeout ==
    /\ pc \in {"dial", "connect", "exchange"}
    /\ Fail

-----------------------------------------------------------------------------
(* Specification *)

Init ==
    /\ policy \in Policies
    /\ pc = "new"
    /\ host = NoHost
    /\ ips = {}
    /\ via = 0
    /\ conns = {}

DispatchStep ==
    \/ ValidateTarget
    \/ ResolveForDial
    \/ DialNext
    \/ ReuseConnection
    \/ Respond
    \/ \E h \in Hosts : Redirect(h)

Next == (\E h \in Hosts : Accept(h)) \/ DispatchStep \/ Timeout

\* The worker drives its dispatch, and the target answers or the client's
\* timeout does: how it answers is not restricted.
Spec == Init /\ [][Next]_vars /\ WF_vars(DispatchStep)

-----------------------------------------------------------------------------
(* Properties *)

LocalName(ls) ==
    \/ ls = <<"localhost">>
    \/ Len(ls) > 1 /\ Last(ls) \in {"localhost", "local", "internal"}

(* Whatever the lookups answered before, and wherever redirects lead: every   *)
(* connection goes to a host of the allow-list, if there is one, and, unless  *)
(* private targets are allowed, to an address that is not private             *)
(* (dialValidatedTarget checks the very addresses it dials) and not for a     *)
(* local name. A name with three final dots still has one when it is dialled  *)
(* and is no local name then; its addresses are checked all the same.         *)
ConnectionsAllowed ==
    /\ \A c \in conns :
        /\ policy.allowed # {} =>
                \E a \in policy.allowed : a.labels # << >> /\ IsSuffix(a.labels, c[1])
        /\ ~policy.private => c[2] \notin PrivateIPs
    /\ pc = "connect" /\ ~policy.private /\ host.dots <= 2 => ~LocalName(host.labels)

(* The API and the worker each have a copy of the rules for names and address *)
(* literals, which differ in how often they normalise. What the API accepts   *)
(* the worker does not refuse before the lookup, so a delivery fails only for *)
(* what a lookup says; and they agree on names with at most one final dot     *)
(* (validateCallbackURLTarget and resolveDispatchTarget).                     *)
CopiesAgree ==
    \A h \in Hosts :
        /\ validateCallbackURLTarget(h) => ~RefusedByName(h)
        /\ ~RefusedByName(h) /\ h.dots <= 1 => validateCallbackURLTarget(h)

(* A dispatch ends, even if every answer is another redirect.                 *)
DispatchEnds == (pc = "ready") ~> (pc \in {"done", "failed"})
=============================================================================
