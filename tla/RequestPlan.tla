----------------------------- MODULE RequestPlan -----------------------------
(***************************************************************************)
(* The fields of a request: the form and its normalisation, the plan, the  *)
(* check aclweb and the agent share, the agent's own limits, and the rule  *)
(* command, read as the traffic the switch will let through.               *)
(*                                                                         *)
(* An address is a word of AddrBits bits (32 in the code), a port one of   *)
(* PortBits bits (16).  An IPv6 text is an address to net.ParseIP and none *)
(* to the switch; those that stand for an IPv4 address are left out.       *)
(***************************************************************************)
EXTENDS AclTable

CONSTANTS
  AddrBits, PortBits,
  RangeMax,  \* the highest rule number the agent touches
  Blank,     \* an empty field
  Junk,      \* text that is no address
  Six        \* text of an IPv6 address

ASSUME PlanAssumption ==
  /\ AddrBits \in Nat \ {0}
  /\ PortBits \in Nat \ {0}
  /\ RangeMax \in Nat
  /\ RangeMax >= AllocMax
  /\ Blank # Junk
  /\ Blank \notin Nat
  /\ Six \notin Nat \cup {Blank, Junk}

Pow2[k \in 0..AddrBits + PortBits] == IF k = 0 THEN 1 ELSE 2 * Pow2[k - 1]

Words == 0..Pow2[AddrBits] - 1
AllOnes == Pow2[AddrBits] - 1
Ports == 0..Pow2[PortBits] - 1
Protocols == {"tcp", "udp", "icmp", "ip"}
Operators == {"eq", "lt", "gt", "neq", "range"}

-----------------------------------------------------------------------------
(* Addresses and ports as sets.  A wildcard's one bits match anything.     *)

Bit(w, i) == (w \div Pow2[i]) % 2

(* An IPv4 rule with an IPv6 address is one the switch refuses.            *)
Matched(a) ==
  IF a.ip = Six THEN {}
  ELSE {w \in Words : \A i \in 0..AddrBits - 1 :
                        Bit(a.wildcard, i) = 0 => Bit(w, i) = Bit(a.ip, i)}

PortsOf(c) ==
  CASE c.op = "eq" -> {p \in Ports : p = c.value}
    [] c.op = "lt" -> {p \in Ports : p < c.value}
    [] c.op = "gt" -> {p \in Ports : p > c.value}
    [] c.op = "neq" -> {p \in Ports : p # c.value}
    [] c.op = "range" -> {p \in Ports : c.low <= p /\ p <= c.high}

-----------------------------------------------------------------------------
(* The form.  The page has one box for the source, no source port, and     *)
(* offers only "eq"; the handler parses the other fields all the same.     *)

PageForms ==
  [protocol : {"tcp", "udp", "ip"}, src : Words \cup {Blank}, srcWildcard : {Blank},
   srcOp : {Blank}, srcPort : {0}, dst : Words, dstWildcard : Words,
   dstOp : {"eq", Blank}, dstPort : Ports]

OtherForms ==
  [protocol : {"tcp", "icmp", Blank}, src : {0, 1, Blank, Junk, Six},
   srcWildcard : {0, AllOnes, Blank, Junk, Six}, srcOp : {"gt", "range", Blank},
   srcPort : {0, 1, Pow2[PortBits] + 1}, dst : {0, 1, Blank, Junk, Six},
   dstWildcard : {0, AllOnes, Blank, Junk, Six}, dstOp : {"lt", "neq", "any"},
   dstPort : {0, 1, Pow2[PortBits]}]

Default(ip, wildcard) == IF ip # Blank /\ wildcard = Blank THEN 0 ELSE wildcard

Normalize(f) ==
  [f EXCEPT !.srcWildcard = Default(f.src, @),
            !.dstWildcard = Default(f.dst, @),
            !.srcOp = IF f.srcPort = 0 THEN Blank ELSE @,
            !.dstOp = IF f.dstPort = 0 THEN Blank ELSE @,
            !.srcPort = IF f.srcOp = Blank THEN 0 ELSE @,
            !.dstPort = IF f.dstOp = Blank THEN 0 ELSE @]

-----------------------------------------------------------------------------
(* The plan.  Port numbers become uint16.                                  *)

ASSUME RecordAssumption ==
  /\ Blank \notin [ip : Words \cup {Junk, Six}, wildcard : Words \cup {Blank, Junk, Six}]
  /\ Blank \notin [op : Operators \cup {"any"}, value : Ports, low : {0}, high : {0}]

AddrMask(ip, wildcard) == IF ip = Blank THEN Blank ELSE [ip |-> ip, wildcard |-> wildcard]
PortCond(op, value) ==
  IF op = Blank THEN Blank
  ELSE [op |-> op, value |-> value % Pow2[PortBits], low |-> 0, high |-> 0]

PlanOf(f, n) ==
  [op |-> "add", number |-> n, protocol |-> f.protocol,
   src |-> AddrMask(f.src, f.srcWildcard),
   dst |-> [ip |-> f.dst, wildcard |-> f.dstWildcard],
   srcPort |-> PortCond(f.srcOp, f.srcPort),
   dstPort |-> PortCond(f.dstOp, f.dstPort)]

(* A deletion names a rule number and nothing else.                        *)
DeletePlan(n) ==
  [op |-> "delete", number |-> n, protocol |-> Blank, src |-> Blank, dst |-> Blank,
   srcPort |-> Blank, dstPort |-> Blank]

(* requireContiguousWildcard: mask and mask + 1 share no bit, or the mask  *)
(* is all ones.                                                            *)
ContiguousWildcard(wildcard) ==
  LET mask == AllOnes - wildcard
  IN mask = AllOnes \/ \A i \in 0..AddrBits - 1 : Bit(mask, i) = 0 \/ Bit(mask + 1, i) = 0

ValidAddrMask(a) == /\ a.ip \notin {Blank, Junk}
                    /\ a.wildcard \notin {Blank, Junk, Six}
                    /\ ContiguousWildcard(a.wildcard)

ValidPortCond(c) == c.op \in Operators /\ (c.op = "range" => c.low <= c.high)

ValidRuleFields(p) ==
  /\ p.protocol \in Protocols
  /\ ValidAddrMask(p.dst)
  /\ p.src # Blank => ValidAddrMask(p.src)
  /\ p.dstPort # Blank => ValidPortCond(p.dstPort)
  /\ p.srcPort # Blank => ValidPortCond(p.srcPort)

ValidateForAgent(p) ==
  /\ RangeMin <= p.number /\ p.number <= RangeMax
  /\ p.op = "add" => p.number <= AllocMax /\ ValidRuleFields(p)

(* absoluteGuard: the agent's own limits on a rule to be written.          *)
TooBroad(p) ==
  \/ p.protocol = "ip"
  \/ p.src = Blank /\ p.dst \in {Blank, [ip |-> 0, wildcard |-> AllOnes]}
AbsoluteGuard_AnyOp(p) == ~ TooBroad(p)
AbsoluteGuard(p) == p.op = "add" => ~ TooBroad(p)

(* BuildRuleCmd, as the switch reads it: what is not said matches anything.*)
BuildRuleCmd_NoDestinationPort(p) ==
  [protocol |-> p.protocol,
   from |-> IF p.src = Blank THEN Words ELSE Matched(p.src),
   fromPorts |-> Ports,
   to |-> Matched(p.dst),
   toPorts |-> Ports]
BuildRuleCmd(p) ==
  [protocol |-> p.protocol,
   from |-> IF p.src = Blank THEN Words ELSE Matched(p.src),
   fromPorts |-> IF p.src = Blank \/ p.srcPort = Blank THEN Ports ELSE PortsOf(p.srcPort),
   to |-> Matched(p.dst),
   toPorts |-> IF p.dstPort = Blank THEN Ports ELSE PortsOf(p.dstPort)]

-----------------------------------------------------------------------------
(* What the form says, read without the code: a blank source or a port     *)
(* that is not given means any, a blank wildcard one host.                 *)
AskedAddresses(ip, wildcard) ==
  IF ip = Blank THEN Words
  ELSE Matched([ip |-> ip, wildcard |-> IF wildcard = Blank THEN 0 ELSE wildcard])
AskedPorts(op, port) ==
  IF op = Blank \/ port = 0 THEN Ports
  ELSE PortsOf([op |-> op, value |-> port, low |-> port, high |-> port])

(* What a form may ask for and get: anything the page can send; beyond it, *)
(* a source, ports that fit, and no "range", which carries one number.     *)
FitsThePlan(f) == /\ f.src # Blank
                  /\ {f.srcPort, f.dstPort} \subseteq Ports
                  /\ (f.srcOp = "range" => f.srcPort = 0)

AskedRule(f) ==
  [protocol |-> f.protocol,
   from |-> AskedAddresses(f.src, f.srcWildcard),
   fromPorts |-> AskedPorts(f.srcOp, f.srcPort),
   to |-> AskedAddresses(f.dst, f.dstWildcard),
   toPorts |-> AskedPorts(f.dstOp, f.dstPort)]

(* What the agent's own limits are about, read off the form.               *)
AskedTooMuch(f) ==
  f.protocol = "ip" \/ (f.src = Blank /\ AskedAddresses(f.dst, f.dstWildcard) = Words)
=============================================================================
