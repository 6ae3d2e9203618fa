--------------------------- MODULE FirewallRules ---------------------------
(***************************************************************************)
(* The firewall of mission-securityd: rules (firewall.rs) and the nftables *)
(* ruleset made from a profile and rules (nftables.rs).                    *)
(*                                                                         *)
(* A rule is [name, direction, action, protocol, source, destination,      *)
(* sport, dport, enabled]; what it does not give is None.  A line of a     *)
(* ruleset keeps the conditions and the name that are written into it; a   *)
(* line without an action is a remark.  An address is a sequence of        *)
(* characters.  A packet is [direction, protocol, source, destination,     *)
(* sport, dport, network, established, loopback].                          *)
(***************************************************************************)
EXTENDS Integers, Sequences, SequencesExt, Common

Directions      == {"in", "out"}
RuleActions     == {"accept", "drop", "reject"}
Protocols       == {"tcp", "udp", "icmp", "other"}
FirewallProfile == {"Public", "Private", "Development", "Custom"}

Ported == {"tcp", "udp"}

\* Names: nothing but blanks, an ordinary one, one with a double quote, with a
\* line break, and one longer than nftables lets a comment be.
RuleNames == {"", "plain", "quoted", "lines", "long"}

\* FirewallRule::validate
RuleValid(rule) ==
  /\ rule.name # ""
  /\ 0 \notin {rule.sport, rule.dport}
  /\ rule.protocol = None => rule.sport = None /\ rule.dport = None

\* ProfileChangeRequest::validate
ProfileChangeValid(request) == request.reason # ""

AddressCharacters == {"1", "2", "a", ".", "/", ":"}

\* escape_addr drops every other character.
escape_addr(address) ==
  IF address = None THEN None ELSE SelectSeq(address, LAMBDA c : c \in AddressCharacters)

Line(action) ==
  [protocol |-> None, source |-> None, destination |-> None, sport |-> None, dport |-> None,
   network |-> None, established |-> FALSE, loopback |-> FALSE, action |-> action, name |-> None]

\* "# rule '...' is disabled", with the name as it is.
Remark(name) == [Line(None) EXCEPT !.name = name]

\* The ports of a protocol that is written as a whole, swapped.
Mutgenerate_rule(rule) ==
  IF ~rule.enabled THEN Remark(rule.name)
  ELSE IF ~RuleValid(rule) THEN None
  ELSE [Line(rule.action) EXCEPT
          !.name        = rule.name,
          !.source      = escape_addr(rule.source),
          !.destination = escape_addr(rule.destination),
          !.protocol    = IF rule.protocol = "other" THEN None ELSE rule.protocol,
          !.sport       = IF rule.protocol \in Ported THEN rule.dport ELSE None,
          !.dport       = IF rule.protocol \in Ported THEN rule.sport ELSE None]

\* Nothing for a rule that is not valid, unless it is disabled.  The direction is
\* not written, nor are another protocol and the ports given with it or with
\* icmp; tcp and udp are written without ports too; an address of either family
\* is written behind ip; the name is written as it is, in quotes.
generate_rule(rule) ==
  IF ~rule.enabled THEN Remark(rule.name)
  ELSE IF ~RuleValid(rule) THEN None
  ELSE [Line(rule.action) EXCEPT
          !.name        = rule.name,
          !.source      = escape_addr(rule.source),
          !.destination = escape_addr(rule.destination),
          !.protocol    = IF rule.protocol = "other" THEN None ELSE rule.protocol,
          !.sport       = IF rule.protocol \in Ported THEN rule.sport ELSE None,
          !.dport       = IF rule.protocol \in Ported THEN rule.dport ELSE None]

Accept      == Line("accept")
Established == [Accept EXCEPT !.established = TRUE]
Loopback    == [Accept EXCEPT !.loopback = TRUE]
Icmp        == [Accept EXCEPT !.protocol = "icmp"]
Network(n)  == [Accept EXCEPT !.network = n]
Port(p)     == [Accept EXCEPT !.protocol = "tcp", !.dport = p]

PrivateNetworks  == <<"10.0.0.0/8", "172.16.0.0/12", "192.168.0.0/16">>
DevelopmentPorts == <<22, 80, 443, 3000, 8080>>

generate_public_chains      == <<Established, Loopback, Icmp>>
generate_private_chains     == <<Established, Loopback>>
                                 \o [i \in DOMAIN PrivateNetworks |-> Network(PrivateNetworks[i])]
                                 \o <<Icmp>>
generate_development_chains == <<Established, Loopback>>
                                 \o [i \in DOMAIN DevelopmentPorts |-> Port(DevelopmentPorts[i])]
                                 \o <<Icmp>>
generate_custom_chains      == <<Established, Loopback, Icmp>>

InputChain(profile) ==
  IF profile = "Public" THEN generate_public_chains
  ELSE IF profile = "Private" THEN generate_private_chains
  ELSE IF profile = "Development" THEN generate_development_chains
  ELSE generate_custom_chains

\* The rules given by the user follow the chains of the profile and stand in
\* none of them.
generate_ruleset(profile, rules) ==
  [input   |-> [policy |-> "drop", lines |-> InputChain(profile)],
   forward |-> [policy |-> "drop", lines |-> << >>],
   output  |-> [policy |-> "accept", lines |-> << >>],
   rest    |-> SelectSeq([i \in DOMAIN rules |-> generate_rule(rules[i])],
                         LAMBDA line : line # None)]

\* What nftables reads behind "ip saddr" and "ip daddr": an address of IPv4.
IsIp(address) == address = None \/ (address # << >> /\ \A i \in DOMAIN address : address[i] # ":")

\* nftables: whether the text of a line is read as that line.  A remark ends with
\* its line.  A comment ends with the next quote and is not long; tcp and udp are
\* followed by one field of their header, "tcp accept" and "tcp sport 1 dport 2"
\* are not read.
Reads(line) ==
  IF line.action = None THEN line.name # "lines"
  ELSE /\ line.protocol \in Ported => (line.sport = None) # (line.dport = None)
       /\ IsIp(line.source) /\ IsIp(line.destination)
       /\ line.name \notin {"quoted", "long"}

\* nftables: the first line that matches decides, else the policy.
Matches(line, packet) ==
  /\ \A field \in {"protocol", "source", "destination", "sport", "dport", "network"} :
       line[field] \in {None, packet[field]}
  /\ line.established => packet.established
  /\ line.loopback => packet.loopback

Verdict(chain, packet) ==
  LET i == SelectInSeq(chain.lines, LAMBDA line : Matches(line, packet))
  IN  IF i = 0 THEN chain.policy ELSE chain.lines[i].action

\* nftables: a line of the input chain, which only incoming packets reach.
MatchesIncoming(line, packet) ==
  line.action # None /\ packet.direction = "in" /\ Matches(line, packet)

-----------------------------------------------------------------------------
\* What a rule says, in the words of its fields.
Describes(rule, packet) ==
  /\ rule.enabled
  /\ packet.direction = rule.direction
  /\ \A field \in {"protocol", "source", "destination", "sport", "dport"} :
       rule[field] \in {None, packet[field]}

\* The rules that can be told to nftables in this way.
Tellable(rule) ==
  IF ~rule.enabled THEN rule.name # "lines"
  ELSE /\ rule.name \notin {"quoted", "long"}
       /\ rule.protocol \in Ported => (rule.sport = None) # (rule.dport = None)
       /\ IsIp(escape_addr(rule.source)) /\ IsIp(escape_addr(rule.destination))

(***************************************************************************)
(* nftables reads the line of a rule exactly if the rule names an IPv4     *)
(* address or none, one port with tcp and udp, and has a name that fits    *)
(* where it is written.  A line it reads, put into the input chain,        *)
(* matches the packets the rule describes and no other, and none if the    *)
(* rule is disabled, as long as it is a rule for incoming packets that     *)
(* names tcp, udp, icmp without ports, or no protocol, and addresses that  *)
(* escape_addr does not change (nftables.rs:184).                          *)
(***************************************************************************)
LineIsRule(rule, packet) ==
  LET line == generate_rule(rule)
      incoming == /\ rule.direction = "in"
                  /\ rule.protocol # "other"
                  /\ rule.protocol = "icmp" => rule.sport = None /\ rule.dport = None
                  /\ escape_addr(rule.source) = rule.source
                  /\ escape_addr(rule.destination) = rule.destination
  IN  line # None =>
        /\ Reads(line) = Tellable(rule)
        /\ Reads(line) /\ incoming => MatchesIncoming(line, packet) = Describes(rule, packet)

(***************************************************************************)
(* The profiles widen the public one: whatever it lets in they let in, a   *)
(* reply and a packet of the machine itself always, and what else gets in  *)
(* comes from a private network or goes to a development port; none of     *)
(* them lets anything through, or keeps anything from going out, where a   *)
(* packet is asked of each chain as one that reaches it (nftables.rs:86).  *)
(***************************************************************************)
ProfilesWiden(packet) ==
  LET Rules(profile)  == generate_ruleset(profile, << >>)
      LetsIn(profile) == Verdict(Rules(profile).input, packet) = "accept"
      public == packet.established \/ packet.loopback \/ packet.protocol = "icmp"
  IN  /\ \A profile \in FirewallProfile :
           /\ Verdict(Rules(profile).forward, packet) = "drop"
           /\ Verdict(Rules(profile).output, packet) = "accept"
      /\ LetsIn("Public") = public /\ LetsIn("Custom") = public
      /\ LetsIn("Private") = (public \/ packet.network # None)
      /\ LetsIn("Development") =
           (public \/ (packet.protocol = "tcp" /\ packet.dport \in {22, 80, 443, 3000, 8080}))
=============================================================================
