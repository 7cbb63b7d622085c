----------------------------- MODULE IPGenerator -----------------------------
(***************************************************************************)
(* The address generator of ipscanner/ipgenerator: a prefix is turned into *)
(* a range of integers, and a generator walks through its ranges one       *)
(* address at a time.  An address is a number of Width bits.               *)
(***************************************************************************)
EXTENDS Integers, Sequences

CONSTANT Width  \* bits of an address: 32 or 128

ASSUME WidthAssumption == Width \in Nat \ {0}

Address == 0 .. 2^Width - 1
Prefix  == [addr : Address, bits : 0 .. Width, v6 : BOOLEAN]

Hosts(p) == 2^(Width - p.bits)

\* The network part of the address, followed by ones.
Last(p) == p.addr - (p.addr % Hosts(p)) + Hosts(p) - 1

\* A range starts at the address of the prefix, whichever that is.
NewIPRange(p) == [current |-> p.addr, end |-> Last(p)]

\* Mutant: the comparison with the end is off by one.
HasNextByOne(r) == r.current <= r.end + 1

\* Mutant: the last address is left out.
HasNextBeforeLast(r) == r.current < r.end

HasNext(r) == r.current <= r.end

NewIpGenerator(prefixes) ==
    [ranges |-> [i \in DOMAIN prefixes |-> NewIPRange(prefixes[i])], currentRange |-> 1]

\* Next passes over exhausted ranges; it has no address when all of them are.
Live(g)   == {i \in g.currentRange .. Len(g.ranges) : HasNext(g.ranges[i])}
First(g)  == CHOOSE i \in Live(g) : \A j \in Live(g) : i <= j
More(g)   == Live(g) # {}
NextIP(g) == g.ranges[First(g)].current

Advanced(g) ==
    IF More(g)
    THEN [ranges |-> [g.ranges EXCEPT ![First(g)].current = @ + 1], currentRange |-> First(g)]
    ELSE [ranges |-> g.ranges, currentRange |-> Len(g.ranges) + 1]
=============================================================================
