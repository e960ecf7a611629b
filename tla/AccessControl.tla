--------------------------- MODULE AccessControl ---------------------------
(***************************************************************************)
(* Class LimitExcept (srcs/LimitExcept.cpp): the allow and deny rules of a *)
(* limit_except directive become two ordered maps of network ranges, one   *)
(* for each family of addresses, and checkAccess() decides by the first    *)
(* range that holds a peer.                                                *)
(***************************************************************************)
EXTENDS Naturals, SequencesExt

CONSTANTS Width,      \* the bits of an address: 32 for v4, 128 for v6 in the code
          Resolve,    \* what getaddrinfo() makes of the name of a rule: addresses
          Length,     \* the number after its slash, or NoLength
          Everyone    \* the name "all"

Families == {"v4", "v6"}
NoLength == "no length"

Addresses == UNION {[family : {f}, bits : [1 .. Width[f] -> {0, 1}]] : f \in Families}
Zero(f) == [family |-> f, bits |-> [n \in 1 .. Width[f] |-> 0]]

Rules == [word : {"allow", "deny"}, name : DOMAIN Resolve \cup {Everyone}]

----------------------------------------------------------------------------
(* Reading the rules                                                       *)

\* reset()
Reset == [methods |-> {}, ranges |-> [f \in Families |-> <<>>], refused |-> FALSE]
AddMethods(l, method) == [l EXCEPT !.methods = @ \cup {method}]

\* Mutant: ranges of the same length are told apart by their addresses.
PrecedesByAddress(r, s) ==
    \/ r.prefix > s.prefix
    \/ r.prefix = s.prefix /\ \E n \in DOMAIN r.addr.bits :
                                /\ r.addr.bits[n] < s.addr.bits[n]
                                /\ \A k \in 1 .. n - 1 : r.addr.bits[k] = s.addr.bits[k]

\* NetworkRange::operator<: the longer prefix first, and nothing else counts.
Precedes(r, s) == r.prefix > s.prefix

\* map::insert() keeps what is there already.
Insert(ranges, r) ==
    IF \E n \in DOMAIN ranges : ~Precedes(r, ranges[n]) /\ ~Precedes(ranges[n], r) THEN ranges
    ELSE SelectSeq(ranges, LAMBDA s : Precedes(s, r)) \o <<r>>
           \o SelectSeq(ranges, LAMBDA s : Precedes(r, s))

\* NetworkRange(): the address as the family has it, and what the map has for it.
NetworkRange(addr, prefix, cond) == [addr |-> addr, prefix |-> prefix, allow |-> cond]

\* addNetworkHelper(): a rule without a length is one for the whole address.
AddNetworkHelper(l, cond, len, addr) ==
    LET width == Width[addr.family] IN
    IF l.refused \/ (len # NoLength /\ len > width) THEN [l EXCEPT !.refused = TRUE]
    ELSE [l EXCEPT !.ranges[addr.family] =
            Insert(@, NetworkRange(addr, IF len = NoLength THEN width ELSE len, cond))]

\* addNetwork().  The name goes to getaddrinfo() with its slash.
AddNetwork(l, name, cond) ==
    LET all   == name = Everyone
        addrs == IF all THEN <<Zero("v4"), Zero("v6")>> ELSE Resolve[name]
        len   == IF all THEN NoLength ELSE Length[name]
    IN  IF addrs = <<>> THEN [l EXCEPT !.refused = TRUE]
        ELSE FoldLeft(LAMBDA k, addr : AddNetworkHelper(k, cond, len, addr), l, addrs)

\* processLimitExceptAllow(), processLimitExceptDeny(), and the choice between them: no
\* other word is known, and what is refused is an exception that ends the reading.
ProcessLimitExceptAllow(l, token) == AddNetwork(l, token, TRUE)
ProcessLimitExceptDeny(l, token)  == AddNetwork(l, token, FALSE)
ProcessLimitExcept(l, rule) ==
    CASE rule.word = "allow" -> ProcessLimitExceptAllow(l, rule.name)
      [] rule.word = "deny"  -> ProcessLimitExceptDeny(l, rule.name)
      [] OTHER               -> [l EXCEPT !.refused = TRUE]

\* What a directive leads to.
Limits(methods, rules) ==
    FoldLeft(ProcessLimitExcept, [Reset EXCEPT !.methods = methods], rules)

----------------------------------------------------------------------------
(* Deciding                                                                *)

SameBits(a, b, n) == \A k \in 1 .. n : a.bits[k] = b.bits[k]

\* isWithinRangev4(): 0.0.0.0 with all its bits stands for every address.
IsWithinRangev4(r, peer) ==
    (r.addr = Zero("v4") /\ r.prefix = Width["v4"]) \/ SameBits(r.addr, peer, r.prefix)

\* isWithinRangev6(): any address with all its bits stands for every address.
IsWithinRangev6(r, peer) == r.prefix = Width["v6"] \/ SameBits(r.addr, peer, r.prefix)

IsWithinRange(r, peer) ==
    IF r.addr.family = "v4" THEN IsWithinRangev4(r, peer) ELSE IsWithinRangev6(r, peer)

\* Mutant: one map for both families.
MappingOfBoth(l, peer) == l.ranges["v4"] \o l.ranges["v6"]

\* The map that is searched, and what the first range in it that holds the peer says.
MappingOf(l, peer) == l.ranges[peer.family]
Matching(l, peer) == SelectSeq(MappingOf(l, peer), LAMBDA r : IsWithinRange(r, peer))
Verdict(l, peer) == IF Matching(l, peer) = <<>> THEN "none"
                    ELSE IF Head(Matching(l, peer)).allow THEN "allow" ELSE "deny"

\* Mutant: a denied peer is told that the method is not allowed.
CheckAccessFlat(l, peer, method) ==
    LET within_range == Matching(l, peer) # <<>> IN
    CASE l.methods = {}                              -> 200
      [] method \in l.methods /\ within_range        -> 200
      [] l.methods # {} /\ method \notin l.methods /\ within_range -> 405
      [] OTHER                                       -> 403

\* checkAccess(): the listed methods are for whoever is within a range, be it to
\* allow or to deny; the others are for nobody.
CheckAccess(l, peer, method) ==
    LET within_range   == Matching(l, peer) # <<>>
        allow_or_deny  == within_range => Head(Matching(l, peer)).allow
        method_allowed == method \in l.methods
    IN  CASE l.methods = {}                                            -> 200
          [] l.methods # {} /\ method_allowed /\ within_range          -> 200
          [] l.methods # {} /\ ~method_allowed /\ within_range /\ allow_or_deny -> 405
          [] OTHER                                                     -> 403

----------------------------------------------------------------------------
(* Properties                                                              *)

\* What the bounded checks below try: up to three rules.
RuleLists == UNION {[1 .. n -> Rules] : n \in 0 .. 3}

\* The rules of a directive, read once for all.
Understood == [rules \in RuleLists |-> Limits({"GET"}, rules)]

\* A rule written later never overrides one that decides already (both were put in
\* by insert(), LimitExcept.cpp:83): what a peer is told after some rules it is
\* told whatever rules follow, unless the whole directive is refused.
EarlierRuleStands ==
    \A rules \in RuleLists : ~Understood[rules].refused =>
      \A n \in 0 .. Len(rules), peer \in Addresses :
        LET before == Verdict(Understood[SubSeq(rules, 1, n)], peer)
        IN  before # "none" => Verdict(Understood[rules], peer) = before

\* The rules for one family of addresses do not matter to peers of the other
\* (LimitExcept.cpp:146-149).
Concerns(rule, f) ==
    rule.name = Everyone \/ \E n \in DOMAIN Resolve[rule.name] : Resolve[rule.name][n].family = f
FamiliesApart ==
    \A rules \in RuleLists : ~Understood[rules].refused =>
      \A peer \in Addresses, method \in {"GET", "POST"} :
        CheckAccess(Understood[rules], peer, method) =
          CheckAccess(Understood[SelectSeq(rules, LAMBDA r : Concerns(r, peer.family))], peer, method)
=============================================================================
