--------------------------- MODULE RoutingProofs ---------------------------
(***************************************************************************)
(* Proof that what a request is answered with respects the limits in force *)
(* (LimitsKept), lies under the root in force (ServedInside), does not     *)
(* depend on the routings before it (AnswerUnremembered) nor on slashes    *)
(* that are doubled (SlashesDoNotMatter), is the file an alias names       *)
(* (AliasReplaces), or a redirection to what was found (RedirectReturns),  *)
(* for any configurations, files and requests.  The file follows           *)
(* routeRequest():                                                         *)
(*   1. loops over sequences, which the code's choices are made with;      *)
(*   2. the location chosen is the first of the longest matches;           *)
(*   3. doubled slashes, and names joined to directories;                  *)
(*   4. the settings of a block are its own, or else its server's;         *)
(*   5. what is decided about a request, whatever the Client holds;        *)
(*   6. what it is answered with, once that is decided;                    *)
(*   7. the invariant: every answer is Route()'s, of a Client that has no  *)
(*      directory yet, if this request is one that looks for no file; and  *)
(*      the theorems about limits and roots;                               *)
(*   8. each step of routeRequest() does alike with alike paths;           *)
(*   9. what an alias names, and where a redirection leads.                *)
(***************************************************************************)
EXTENDS Routing, WellFoundedInduction, SequenceTheorems, TLAPS

----------------------------------------------------------------------------
(* Loops over a sequence                                                   *)

\* A set of numbers that is not empty has a least element.
LEMMA Least ==
  ASSUME NEW S, S \subseteq Nat, S # {}
  PROVE  \E n \in S : \A m \in S : n <= m
<1>1. PICK n \in S : \A m \in S : ~(<<m, n>> \in OpToRel(<, Nat))
  BY NatLessThanWellFounded, WFMin, ZenonT(30)
<1>2. \A m \in S : ~(m < n)
  BY <1>1 DEF OpToRel
<1> QED BY <1>2

\* A bounded one has a greatest.
LEMMA Greatest ==
  ASSUME NEW k \in Nat, NEW S, S \subseteq 0 .. k, S # {}
  PROVE  /\ \E n \in S : \A m \in S : m <= n
         /\ Max(S) \in S /\ \A m \in S : m <= Max(S)
<1> DEFINE T == {k - m : m \in S}
<1>0. \A m \in S : m \in Nat /\ k - m \in Nat /\ k - m \in T
  OBVIOUS
<1>1. T \subseteq Nat /\ T # {}
  <2>1. \A i \in T : \E m \in S : i = k - m
    OBVIOUS
  <2>2. T \subseteq Nat
    BY <1>0, <2>1
  <2>3. PICK m \in S : TRUE
    OBVIOUS
  <2>4. k - m \in T
    BY <1>0
  <2> HIDE DEF T
  <2> QED BY <2>2, <2>4
<1>2. PICK i \in T : \A j \in T : i <= j
  <2> HIDE DEF T
  <2> QED BY <1>1, Least
<1>3. PICK n \in S : i = k - n
  BY <1>2
<1>4. \A m \in S : m <= n
  <2> SUFFICES ASSUME NEW m \in S PROVE m <= n
    OBVIOUS
  <2>1. i <= k - m
    BY <1>0, <1>2
  <2>2. n \in Nat /\ m \in Nat
    BY <1>0
  <2> QED BY <1>3, <2>1, <2>2
<1>5. \E x \in S : \A y \in S : x >= y
  BY <1>4
<1>6. Max(S) \in S /\ \A m \in S : Max(S) >= m
  BY <1>5 DEF Max
<1>7. \A m \in S : m <= Max(S)
  BY <1>6
<1> QED BY <1>4, <1>6, <1>7

\* A loop comes to what another comes to, if it does so step by step.
LEMMA SameFold ==
  ASSUME NEW k \in Nat, NEW f, NEW w, f[{}] = w[{}],
         \A t \in SUBSET (1 .. k) :
           t # {} /\ f[t \ {Max(t)}] = w[t \ {Max(t)}] => f[t] = w[t]
  PROVE  f[1 .. k] = w[1 .. k]
<1> DEFINE Bad == {n \in 0 .. k : f[1 .. n] # w[1 .. n]}
<1>0. Bad \subseteq 0 .. k /\ \A n \in 0 .. k : n \in Bad <=> f[1 .. n] # w[1 .. n]
  OBVIOUS
<1> HIDE DEF Bad
<1>1. ASSUME Bad # {} PROVE FALSE
  <2>1. PICK n \in Bad : \A m \in Bad : n <= m
    <3>1. Bad \subseteq Nat
      BY <1>0
    <3> QED BY <1>1, <3>1, Least
  <2>2. n # 0
    <3>1. 1 .. 0 = {}
      OBVIOUS
    <3>2. 0 \in 0 .. k
      OBVIOUS
    <3>3. 0 \notin Bad
      BY <1>0, <3>1, <3>2
    <3> QED BY <2>1, <3>3
  <2>3. n - 1 \in 0 .. k /\ n - 1 \notin Bad /\ n \in 1 .. k
    <3>1. n \in 0 .. k
      BY <1>0
    <3>2. n - 1 \in 0 .. k /\ n \in 1 .. k
      BY <2>2, <3>1
    <3>3. ~(n <= n - 1)
      BY <3>1
    <3> QED BY <2>1, <3>2, <3>3
  <2> DEFINE S == 1 .. n
  <2>4. n \in S /\ S \subseteq 1 .. k /\ S \subseteq 0 .. k /\ S \ {n} = 1 .. (n - 1)
    BY <2>3
  <2>5. \A x \in S : n <= x => x = n
    BY <2>3
  <2> HIDE DEF S
  <2>6. Max(S) = n
    <3>1. S # {}
      BY <2>4
    <3>2. Max(S) \in S /\ \A m \in S : m <= Max(S)
      BY <2>4, <3>1, Greatest
    <3> QED BY <2>4, <2>5, <3>2
  <2>7. f[S] = w[S]
    <3>1. f[1 .. (n - 1)] = w[1 .. (n - 1)]
      BY <1>0, <2>3
    <3>2. f[S \ {Max(S)}] = w[S \ {Max(S)}]
      BY <2>4, <2>6, <3>1
    <3>3. S \in SUBSET (1 .. k) /\ S # {}
      BY <2>4
    <3> QED BY <3>2, <3>3
  <2>8. f[S] # w[S]
    BY <1>0, <2>1 DEF S
  <2> QED BY <2>7, <2>8
<1>2. k \in 0 .. k
  OBVIOUS
<1>3. k \notin Bad
  BY <1>1
<1> QED BY <1>0, <1>2, <1>3

\* Step by step, a chain comes to what another comes to.
LEMMA SameChain ==
  ASSUME NEW k \in Nat, NEW f, NEW w, f[0] = w[0],
         \A n \in 1 .. k : f[n - 1] = w[n - 1] => f[n] = w[n]
  PROVE  \A n \in 0 .. k : f[n] = w[n]
<1> DEFINE Bad == {n \in 0 .. k : f[n] # w[n]}
<1>0. Bad \subseteq 0 .. k /\ \A n \in 0 .. k : n \in Bad <=> f[n] # w[n]
  OBVIOUS
<1> HIDE DEF Bad
<1>1. ASSUME Bad # {} PROVE FALSE
  <2>1. PICK n \in Bad : \A m \in Bad : n <= m
    <3>1. Bad \subseteq Nat
      BY <1>0
    <3> QED BY <1>1, <3>1, Least
  <2>2. n \in 0 .. k /\ f[n] # w[n] /\ n # 0
    BY <1>0
  <2>3. n - 1 \in 0 .. k /\ n \in 1 .. k /\ ~(n <= n - 1)
    BY <2>2
  <2>4. f[n - 1] = w[n - 1]
    BY <1>0, <2>1, <2>3
  <2> QED BY <2>2, <2>3, <2>4
<1> QED BY <1>0, <1>1

\* f has what a loop over 1 .. k, which begins with z, has come to after each part of its indexes.
IsLoop(k, Z, z, step, f) ==
    /\ f \in [SUBSET (1 .. k) -> Z]
    /\ \A t \in SUBSET (1 .. k) : f[t] = IF t = {} THEN z ELSE step[f[t \ {Max(t)}]][Max(t)]

\* A loop that stays within a set comes to something.
LEMMA LoopExists ==
  ASSUME NEW k \in Nat, NEW Z, NEW z \in Z, NEW step \in [Z -> [1 .. k -> Z]]
  PROVE  \E f : IsLoop(k, Z, z, step, f)
<1> DEFINE Bad == {n \in 0 .. k : ~\E f : IsLoop(n, Z, z, step, f)}
<1>0. Bad \subseteq 0 .. k /\ \A n \in 0 .. k : n \in Bad <=> ~\E f : IsLoop(n, Z, z, step, f)
  OBVIOUS
<1> HIDE DEF Bad
<1>1. ASSUME Bad # {} PROVE FALSE
  <2>1. PICK n \in Bad : \A m \in Bad : n <= m
    <3>1. Bad \subseteq Nat
      BY <1>0
    <3> QED BY <1>1, <3>1, Least
  <2>2. n \in 0 .. k /\ ~\E f : IsLoop(n, Z, z, step, f)
    BY <1>0
  <2>3. CASE n = 0
    <3> DEFINE f == [t \in SUBSET (1 .. 0) |-> z]
    <3>1. \A t \in SUBSET (1 .. 0) : t = {}
      OBVIOUS
    <3>2. f \in [SUBSET (1 .. 0) -> Z] /\ \A t \in SUBSET (1 .. 0) : f[t] = z
      OBVIOUS
    <3> HIDE DEF f
    <3>3. IsLoop(0, Z, z, step, f)
      BY <3>1, <3>2 DEF IsLoop
    <3> QED BY <2>2, <2>3, <3>3
  <2>4. CASE n # 0
    <3>1. n - 1 \in 0 .. k /\ n \in 1 .. k /\ ~(n <= n - 1)
      BY <2>2, <2>4
    <3>2. PICK g : IsLoop(n - 1, Z, z, step, g)
      BY <1>0, <2>1, <3>1
    <3> DEFINE f == [t \in SUBSET (1 .. n) |-> IF n \in t THEN step[g[t \ {n}]][n] ELSE g[t]]
    <3>a. g \in [SUBSET (1 .. (n - 1)) -> Z] /\ \A t \in SUBSET (1 .. (n - 1)) :
             g[t] = IF t = {} THEN z ELSE step[g[t \ {Max(t)}]][Max(t)]
      BY <3>2 DEF IsLoop
    <3>3. ASSUME NEW t \in SUBSET (1 .. n)
          PROVE  /\ (t \ {n}) \in SUBSET (1 .. (n - 1))
                 /\ n \notin t => t \in SUBSET (1 .. (n - 1))
      <4>1. t \ {n} \subseteq 1 .. (n - 1)
        BY <3>1
      <4> QED BY <4>1
    <3>4. \A u \in SUBSET (1 .. (n - 1)) : g[u] \in Z /\ n \notin u /\ u \in SUBSET (1 .. n)
      <4> SUFFICES ASSUME NEW u \in SUBSET (1 .. (n - 1)) PROVE g[u] \in Z /\ n \notin u /\ u \in SUBSET (1 .. n)
        OBVIOUS
      <4>1. g[u] \in Z
        BY <3>a
      <4>2. \A m \in 1 .. (n - 1) : m \in 1 .. n /\ m # n
        BY <3>1
      <4> QED BY <4>1, <4>2
    <3>5. f \in [SUBSET (1 .. n) -> Z]
      <4>1. ASSUME NEW t \in SUBSET (1 .. n) PROVE (IF n \in t THEN step[g[t \ {n}]][n] ELSE g[t]) \in Z
        <5>1. CASE n \in t
          <6>1. g[t \ {n}] \in Z
            BY <3>3, <3>4
          <6>2. n \in 1 .. k /\ step[g[t \ {n}]] \in [1 .. k -> Z]
            BY <3>1, <6>1
          <6>3. step[g[t \ {n}]][n] \in Z
            BY <6>2
          <6> QED BY <5>1, <6>3
        <5>2. CASE n \notin t
          BY <3>3, <3>4, <5>2
        <5> QED BY <5>1, <5>2
      <4> QED BY <4>1
    <3>6. \A u \in SUBSET (1 .. (n - 1)) : f[u] = g[u]
      BY <3>4
    <3>7. ASSUME NEW t \in SUBSET (1 .. n), n \in t PROVE f[t] = step[g[t \ {n}]][n]
      BY <3>7
    <3> HIDE DEF f
    <3>8. ASSUME NEW t \in SUBSET (1 .. n)
          PROVE  f[t] = IF t = {} THEN z ELSE step[f[t \ {Max(t)}]][Max(t)]
      <4>1. CASE n \in t
        <5>1. t \subseteq 0 .. k /\ t # {} /\ \A m \in t : m <= n /\ m \in Nat
          BY <3>1, <4>1
        <5>2. Max(t) \in t /\ n <= Max(t)
          BY <4>1, <5>1, Greatest
        <5>3. Max(t) = n
          <6>1. Max(t) <= n /\ Max(t) \in Nat
            BY <5>1, <5>2
          <6>2. n \in Nat
            BY <3>1
          <6> QED BY <5>2, <6>1, <6>2
        <5>4. f[t \ {n}] = g[t \ {n}]
          BY <3>3, <3>6
        <5> QED BY <3>7, <4>1, <5>1, <5>3, <5>4
      <4>2. CASE n \notin t /\ t = {}
        <5>1. t \in SUBSET (1 .. (n - 1))
          BY <3>3, <4>2
        <5>2. g[t] = z
          BY <3>a, <4>2, <5>1
        <5> QED BY <3>6, <4>2, <5>1, <5>2
      <4>3. CASE n \notin t /\ t # {}
        <5>1. t \in SUBSET (1 .. (n - 1)) /\ t \ {Max(t)} \in SUBSET (1 .. (n - 1))
          BY <3>3, <4>3
        <5>2. g[t] = step[g[t \ {Max(t)}]][Max(t)]
          BY <3>a, <4>3, <5>1
        <5> QED BY <3>6, <4>3, <5>1, <5>2
      <4> QED BY <4>1, <4>2, <4>3
    <3>9. IsLoop(n, Z, z, step, f)
      BY <3>5, <3>8 DEF IsLoop
    <3> QED BY <2>2, <3>9
  <2> QED BY <2>3, <2>4
<1>2. k \in 0 .. k
  OBVIOUS
<1> QED BY <1>0, <1>1, <1>2

----------------------------------------------------------------------------
(* The longest location                                                    *)

Fits(s, uri, t) == {n \in t : IsPrefix(s.location[n].path, uri)}

\* n is the first of the longest matches among the locations of t.
IsBest(s, uri, t, n) ==
    IF Fits(s, uri, t) = {} THEN n = 0
    ELSE n \in Fits(s, uri, t) /\ \A m \in Fits(s, uri, t) :
           Len(s.location[m].path) < Len(s.location[n].path)
           \/ (Len(s.location[m].path) = Len(s.location[n].path) /\ n <= m)
Best(s, uri, t) == CHOOSE n : IsBest(s, uri, t, n)

LEMMA LocationsFact ==
  ASSUME NEW s \in Servers
  PROVE  /\ s \in ServerInfo /\ s.location \in Seq(Location) /\ Len(s.location) \in Nat
         /\ DOMAIN s.location = 1 .. Len(s.location)
         /\ \A n \in DOMAIN s.location :
              /\ s.location[n] \in Location
              /\ s.location[n].path \in Path /\ s.location[n].path # <<>>
              /\ Len(s.location[n].path) \in Nat \ {0}
<1>1. s \in ServerInfo
  BY ServersAssumption
<1>2. s.location \in Seq(Location)
  BY <1>1 DEF ServerInfo
<1>3. DOMAIN s.location = 1 .. Len(s.location) /\ Len(s.location) \in Nat
  BY <1>2
<1>4. \A n \in DOMAIN s.location : s.location[n] \in Location
  BY <1>2
<1>5. ASSUME NEW n \in DOMAIN s.location
      PROVE  /\ s.location[n].path \in Path /\ s.location[n].path # <<>>
             /\ Len(s.location[n].path) \in Nat \ {0}
  <2>1. s.location[n].path \in Path
    BY <1>4 DEF Location
  <2>2. s.location[n].path # <<>>
    BY RootsAssumption
  <2> DEFINE p == s.location[n].path
  <2>3. p \in Seq(STRING) /\ p # <<>>
    BY <2>1, <2>2 DEF Path
  <2> HIDE DEF p
  <2>4. Len(p) \in Nat /\ Len(p) # 0
    BY <2>3, EmptySeq
  <2>5. Len(p) \in Nat \ {0}
    BY <2>4
  <2> QED BY <2>1, <2>2, <2>5 DEF p
<1> QED BY <1>1, <1>2, <1>3, <1>4, <1>5

\* What begins a path is no longer than it.
LEMMA PrefixFits ==
  ASSUME NEW p \in Path, NEW uri \in Path, IsPrefix(p, uri)
  PROVE  Len(p) <= Len(uri)
<1>1. p = SubSeq(uri, 1, Len(p)) /\ Len(p) <= Len(uri)
  BY DEF IsPrefix, Path
<1> QED BY <1>1

LEMMA BestFact ==
  ASSUME NEW s \in Servers, NEW uri \in Path, NEW t \in SUBSET DOMAIN s.location
  PROVE  /\ IsBest(s, uri, t, Best(s, uri, t))
         /\ \A n : IsBest(s, uri, t, n) => n = Best(s, uri, t)
<1> DEFINE F == Fits(s, uri, t)
           P(n) == Len(s.location[n].path)
<1>1. F \subseteq DOMAIN s.location /\ F \subseteq Nat
      /\ \A n \in F : P(n) \in Nat /\ P(n) <= Len(uri)
  <2>1. F \subseteq DOMAIN s.location /\ F \subseteq Nat
    BY LocationsFact DEF Fits
  <2>2. ASSUME NEW n \in F PROVE P(n) \in Nat /\ P(n) <= Len(uri)
    <3>1. IsPrefix(s.location[n].path, uri)
      BY DEF Fits
    <3>2. s.location[n].path \in Path /\ P(n) \in Nat
      BY <2>1, LocationsFact
    <3> QED BY <3>1, <3>2, PrefixFits
  <2> QED BY <2>1, <2>2
<1>2. Len(uri) \in Nat
  BY DEF Path
<1>3. \E n : IsBest(s, uri, t, n)
  <2>1. CASE F = {}
    BY <2>1 DEF IsBest
  <2>2. CASE F # {}
    <3> DEFINE L == {P(n) : n \in F}
    <3>1. L \subseteq 0 .. Len(uri) /\ L # {}
      <4>1. PICK n \in F : TRUE
        BY <2>2
      <4>2. P(n) \in L
        OBVIOUS
      <4>3. ASSUME NEW l \in L PROVE l \in 0 .. Len(uri)
        <5>1. PICK m \in F : l = P(m)
          OBVIOUS
        <5>2. P(m) \in Nat /\ P(m) <= Len(uri)
          BY <1>1
        <5> QED BY <1>2, <5>1, <5>2
      <4> HIDE DEF L
      <4> QED BY <4>2, <4>3
    <3>2. PICK l \in L : \A k \in L : k <= l
      BY <1>2, <3>1, Greatest
    <3> DEFINE M == {n \in F : P(n) = l}
    <3>3. M \subseteq Nat /\ M # {}
      BY <1>1, <3>2
    <3> HIDE DEF M
    <3>4. PICK n \in M : \A m \in M : n <= m
      BY <3>3, Least
    <3>5. n \in F /\ P(n) = l
      BY <3>4 DEF M
    <3>6. ASSUME NEW m \in F PROVE P(m) < P(n) \/ (P(m) = P(n) /\ n <= m)
      <4>1. P(m) <= l /\ P(m) \in Nat /\ l \in Nat
        BY <1>1, <3>1, <3>2
      <4>2. P(m) = l => n <= m
        BY <3>4 DEF M
      <4> QED BY <3>5, <4>1, <4>2
    <3> QED BY <2>2, <3>5, <3>6 DEF IsBest
  <2> QED BY <2>1, <2>2
<1>4. IsBest(s, uri, t, Best(s, uri, t))
  BY <1>3 DEF Best
<1>5. ASSUME NEW n, NEW m, IsBest(s, uri, t, n), IsBest(s, uri, t, m) PROVE n = m
  <2>1. CASE F = {}
    BY <1>5, <2>1 DEF IsBest
  <2>2. CASE F # {}
    <3>1. n \in F /\ m \in F
      BY <1>5, <2>2 DEF IsBest
    <3>2. P(m) < P(n) \/ (P(m) = P(n) /\ n <= m)
      BY <1>5, <2>2, <3>1 DEF IsBest
    <3>3. P(n) < P(m) \/ (P(n) = P(m) /\ m <= n)
      BY <1>5, <2>2, <3>1 DEF IsBest
    <3>4. P(n) \in Nat /\ P(m) \in Nat /\ n \in Nat /\ m \in Nat
      BY <1>1, <3>1
    <3> HIDE DEF P
    <3> QED BY <3>2, <3>3, <3>4
  <2> QED BY <2>1, <2>2
<1> QED BY <1>4, <1>5

\* One step of the loop of ServerInfo::routingClient().
LEMMA BestStep ==
  ASSUME NEW s \in Servers, NEW uri \in Path, NEW t \in SUBSET DOMAIN s.location, t # {}
  PROVE  LET x == Max(t)
             best == Best(s, uri, t \ {x})
         IN  Best(s, uri, t) = IF IsPrefix(s.location[x].path, uri) /\ PathLength(s, x) > PathLength(s, best)
                               THEN x ELSE best
<1> DEFINE x == Max(t)
           u == t \ {x}
           best == Best(s, uri, u)
           new == IF IsPrefix(s.location[x].path, uri) /\ PathLength(s, x) > PathLength(s, best)
                  THEN x ELSE best
           P(n) == Len(s.location[n].path)
<1>1. x \in t /\ \A m \in t : m <= x
  <2>1. t \subseteq 0 .. Len(s.location) /\ Len(s.location) \in Nat
    BY LocationsFact
  <2> QED BY <2>1, Greatest
<1> HIDE DEF x
<1>2. IsBest(s, uri, u, best)
  BY BestFact
<1> HIDE DEF best
<1>3. /\ x \in Nat \ {0} /\ P(x) \in Nat \ {0} /\ PathLength(s, x) = P(x)
      /\ \A m \in t : m \in Nat \ {0} /\ P(m) \in Nat \ {0}
  BY <1>1, LocationsFact DEF PathLength
<1>4. Fits(s, uri, t) = IF IsPrefix(s.location[x].path, uri)
                        THEN Fits(s, uri, u) \cup {x} ELSE Fits(s, uri, u)
  BY <1>1 DEF Fits
<1>5. Fits(s, uri, u) \subseteq u
  BY DEF Fits
<1>6. IsBest(s, uri, t, new)
  <2>1. CASE ~IsPrefix(s.location[x].path, uri)
    BY <1>2, <1>4, <2>1 DEF IsBest
  <2>2. CASE IsPrefix(s.location[x].path, uri) /\ Fits(s, uri, u) = {}
    <3>1. best = 0 /\ PathLength(s, best) = 0
      BY <1>2, <2>2 DEF IsBest, PathLength
    <3>2. new = x
      BY <1>3, <2>2, <3>1
    <3>3. Fits(s, uri, t) = {x}
      BY <1>4, <2>2
    <3> QED BY <1>3, <3>2, <3>3 DEF IsBest
  <2>3. CASE IsPrefix(s.location[x].path, uri) /\ Fits(s, uri, u) # {}
    <3>1. /\ best \in Fits(s, uri, u)
          /\ \A m \in Fits(s, uri, u) : P(m) < P(best) \/ (P(m) = P(best) /\ best <= m)
      BY <1>2, <2>3 DEF IsBest
    <3>2. best \in t /\ best <= x /\ best \in Nat \ {0} /\ P(best) \in Nat /\ PathLength(s, best) = P(best)
      BY <1>1, <1>3, <1>5, <3>1 DEF PathLength
    <3>3. Fits(s, uri, t) = Fits(s, uri, u) \cup {x}
      BY <1>4, <2>3
    <3>4. CASE P(x) > P(best)
      <4>1. new = x
        BY <1>3, <2>3, <3>2, <3>4
      <4>2. ASSUME NEW m \in Fits(s, uri, t) PROVE P(m) < P(x) \/ (P(m) = P(x) /\ x <= m)
        <5>1. CASE m = x
          BY <1>3, <5>1
        <5>2. CASE m \in Fits(s, uri, u)
          <6>1. m \in t
            BY <1>5, <5>2
          <6>2. P(m) \in Nat /\ P(x) \in Nat /\ P(best) \in Nat
            BY <1>3, <3>2, <6>1
          <6>3. P(m) < P(best) \/ P(m) = P(best)
            BY <3>1, <5>2
          <6> HIDE DEF P
          <6> QED BY <3>4, <6>2, <6>3
        <5> QED BY <3>3, <5>1, <5>2
      <4> QED BY <3>3, <4>1, <4>2 DEF IsBest
    <3>5. CASE ~(P(x) > P(best))
      <4>1. new = best
        BY <1>3, <3>2, <3>5
      <4>2. ASSUME NEW m \in Fits(s, uri, t) PROVE P(m) < P(best) \/ (P(m) = P(best) /\ best <= m)
        <5>1. CASE m = x
          BY <1>3, <3>2, <3>5, <5>1
        <5> QED BY <3>1, <3>3, <5>1
      <4> QED BY <3>1, <3>3, <4>1, <4>2 DEF IsBest
    <3> QED BY <3>4, <3>5
  <2> QED BY <2>1, <2>2, <2>3
<1>7. new = Best(s, uri, t)
  BY <1>6, BestFact
<1> QED BY <1>7 DEF x, best

\* The loop over the locations finds the best of all.
LEMMA ChosenBest ==
  ASSUME NEW s \in Servers, NEW uri \in Path
  PROVE  Chosen(s, uri) = Best(s, uri, DOMAIN s.location)
<1> DEFINE N == [n \in DOMAIN s.location |-> n]
           Body(t, g) == IF t = {} THEN 0
                         ELSE IF IsPrefix(s.location[N[Max(t)]].path, uri)
                                 /\ PathLength(s, N[Max(t)]) > PathLength(s, g[t \ {Max(t)}])
                              THEN N[Max(t)] ELSE g[t \ {Max(t)}]
           Loop == CHOOSE f : f = [t \in SUBSET DOMAIN N |-> Body(t, f)]
           W == [t \in SUBSET DOMAIN N |-> Best(s, uri, t)]
<1>1. Chosen(s, uri) = Loop[DOMAIN N]
  BY DEF Chosen, FoldLeft, MapThenFoldSet
<1>2. DOMAIN N = DOMAIN s.location /\ \A n \in DOMAIN s.location : N[n] = n
  OBVIOUS
<1>3. ASSUME NEW t \in SUBSET DOMAIN N PROVE Best(s, uri, t) = Body(t, W)
  <2>1. t \in SUBSET DOMAIN s.location
    BY <1>2
  <2>2. CASE t = {}
    <3>1. IsBest(s, uri, t, 0)
      BY <2>2 DEF IsBest, Fits
    <3> QED BY <2>1, <2>2, <3>1, BestFact
  <2>3. CASE t # {}
    <3> DEFINE x == Max(t)
    <3>1. x \in t
      <4>1. t \subseteq 0 .. Len(s.location) /\ Len(s.location) \in Nat
        BY <2>1, LocationsFact
      <4> QED BY <2>3, <4>1, Greatest
    <3>2. N[x] = x
      BY <2>1, <3>1
    <3>3. W[t \ {x}] = Best(s, uri, t \ {x})
      BY <1>2
    <3>4. Best(s, uri, t) = IF IsPrefix(s.location[x].path, uri)
                               /\ PathLength(s, x) > PathLength(s, Best(s, uri, t \ {x}))
                            THEN x ELSE Best(s, uri, t \ {x})
      BY <2>1, <2>3, BestStep
    <3> HIDE DEF N, W
    <3>5. Body(t, W) = IF IsPrefix(s.location[x].path, uri) /\ PathLength(s, x) > PathLength(s, W[t \ {x}])
                       THEN x ELSE W[t \ {x}]
      BY <2>3, <3>2
    <3> QED BY <3>3, <3>4, <3>5
  <2> QED BY <2>2, <2>3
<1>4. W = [t \in SUBSET DOMAIN N |-> Body(t, W)]
  <2> HIDE DEF Body
  <2> QED BY <1>3
<1>5. Loop = [t \in SUBSET DOMAIN N |-> Body(t, Loop)]
  <2> HIDE DEF Body, W
  <2> QED BY <1>4
<1>6. Loop[DOMAIN N] = W[DOMAIN N]
  <2> DEFINE k == Len(s.location)
  <2>1. k \in Nat /\ DOMAIN N = 1 .. k
    BY <1>2, LocationsFact
  <2>2. Loop[{}] = W[{}]
    <3>1. {} \in SUBSET DOMAIN N
      OBVIOUS
    <3>2. Loop[{}] = Body({}, Loop) /\ W[{}] = Body({}, W)
      <4> HIDE DEF Body, W, Loop, N
      <4> QED BY <1>4, <1>5, <3>1
    <3>3. Body({}, Loop) = 0 /\ Body({}, W) = 0
      <4> HIDE DEF W, Loop, N
      <4> QED OBVIOUS
    <3> QED BY <3>2, <3>3
  <2>3. ASSUME NEW t \in SUBSET (1 .. k), t # {}, Loop[t \ {Max(t)}] = W[t \ {Max(t)}]
        PROVE  Loop[t] = W[t]
    <3>1. t \in SUBSET DOMAIN N
      BY <2>1
    <3>2. Loop[t] = Body(t, Loop) /\ W[t] = Body(t, W)
      <4> HIDE DEF Body, W, Loop, N
      <4> QED BY <1>4, <1>5, <3>1
    <3>3. Body(t, Loop) = Body(t, W)
      <4> HIDE DEF W, Loop, N
      <4> QED BY <2>3
    <3> QED BY <3>2, <3>3
  <2> HIDE DEF Loop, W, N, k
  <2>4. Loop[1 .. k] = W[1 .. k]
    BY <2>1, <2>2, <2>3, SameFold
  <2> QED BY <2>1, <2>4
<1>7. W[DOMAIN N] = Best(s, uri, DOMAIN s.location)
  BY <1>2
<1> QED BY <1>1, <1>6, <1>7

----------------------------------------------------------------------------
(* Slashes                                                                 *)

\* What a character adds to a path of which runs of slashes count as one.
Joined(q, c) == IF c = "/" /\ Ends(q) THEN q ELSE Append(q, c)

\* m has what Merged() has made of the first characters of p.
IsChain(m, p) == /\ m[0] = <<>> /\ m[Len(p)] = Merged(p)
                 /\ \A n \in 0 .. Len(p) : m[n] \in Path
                 /\ \A n \in 1 .. Len(p) : m[n] = Joined(m[n - 1], p[n])

LEMMA MergedChain ==
  ASSUME NEW p \in Path
  PROVE  \E m : IsChain(m, p)
<1> DEFINE k == Len(p)
           Body(t, g) == IF t = {} THEN <<>>
                         ELSE IF p[Max(t)] = "/" /\ Ends(g[t \ {Max(t)}]) THEN g[t \ {Max(t)}]
                              ELSE Append(g[t \ {Max(t)}], p[Max(t)])
           Loop == CHOOSE f : f = [t \in SUBSET DOMAIN p |-> Body(t, f)]
           step == [q \in Path |-> [n \in 1 .. k |-> Joined(q, p[n])]]
<1>1. Merged(p) = Loop[DOMAIN p]
  BY DEF Merged, FoldLeft, MapThenFoldSet
<1>2. k \in Nat /\ DOMAIN p = 1 .. k /\ <<>> \in Path
  BY DEF Path
<1>3. ASSUME NEW q \in Path, NEW n \in 1 .. k PROVE Joined(q, p[n]) \in Path /\ step[q][n] = Joined(q, p[n])
  <2>1. p[n] \in STRING
    BY DEF Path
  <2>2. Append(q, p[n]) \in Path
    BY <2>1 DEF Path
  <2> QED BY <2>2 DEF Joined
<1>4. step \in [Path -> [1 .. k -> Path]]
  <2>1. ASSUME NEW q \in Path PROVE [n \in 1 .. k |-> Joined(q, p[n])] \in [1 .. k -> Path]
    BY <1>3
  <2> QED BY <2>1
<1> HIDE DEF step
<1>a. PICK f : IsLoop(k, Path, <<>>, step, f)
  <2> HIDE DEF k
  <2> QED BY <1>2, <1>4, LoopExists
<1>5. /\ f \in [SUBSET (1 .. k) -> Path]
      /\ \A t \in SUBSET (1 .. k) : f[t] = IF t = {} THEN <<>> ELSE step[f[t \ {Max(t)}]][Max(t)]
  BY <1>a DEF IsLoop
<1>6. ASSUME NEW t \in SUBSET (1 .. k), t # {} PROVE Max(t) \in t /\ t \ {Max(t)} \in SUBSET (1 .. k)
  <2>1. t \subseteq 0 .. k
    BY <1>2
  <2> QED BY <1>2, <1>6, <2>1, Greatest
<1>7. ASSUME NEW t \in SUBSET (1 .. k) PROVE f[t] = Body(t, f)
  <2>1. CASE t = {}
    BY <1>5, <2>1
  <2>2. CASE t # {}
    <3>1. f[t \ {Max(t)}] \in Path /\ Max(t) \in 1 .. k
      BY <1>5, <1>6, <2>2
    <3>2. f[t] = Joined(f[t \ {Max(t)}], p[Max(t)])
      BY <1>3, <1>5, <2>2, <3>1
    <3> QED BY <2>2, <3>2 DEF Joined
  <2> QED BY <2>1, <2>2
<1>8. Loop = [t \in SUBSET DOMAIN p |-> Body(t, Loop)]
  <2>1. f = [t \in SUBSET DOMAIN p |-> Body(t, f)]
    <3> HIDE DEF Body
    <3> QED BY <1>2, <1>5, <1>7
  <2> HIDE DEF Body
  <2> QED BY <2>1
<1>9. Loop[1 .. k] = f[1 .. k]
  <2>1. Loop[{}] = f[{}]
    <3>1. Loop[{}] = Body({}, Loop) /\ f[{}] = Body({}, f)
      <4>1. {} \in SUBSET DOMAIN p /\ {} \in SUBSET (1 .. k)
        OBVIOUS
      <4> HIDE DEF Body, Loop
      <4> QED BY <1>7, <1>8, <4>1
    <3>2. Body({}, Loop) = <<>> /\ Body({}, f) = <<>>
      <4> HIDE DEF Loop
      <4> QED OBVIOUS
    <3> QED BY <3>1, <3>2
  <2>2. ASSUME NEW t \in SUBSET (1 .. k), t # {}, Loop[t \ {Max(t)}] = f[t \ {Max(t)}]
        PROVE  Loop[t] = f[t]
    <3>1. Loop[t] = Body(t, Loop) /\ f[t] = Body(t, f)
      <4>1. t \in SUBSET DOMAIN p
        BY <1>2
      <4> HIDE DEF Body, Loop
      <4> QED BY <1>7, <1>8, <4>1
    <3>2. Body(t, Loop) = Body(t, f)
      <4> HIDE DEF Loop
      <4> QED BY <2>2
    <3> QED BY <3>1, <3>2
  <2> HIDE DEF Loop, Body, k
  <2> QED BY <1>2, <2>1, <2>2, SameFold
<1> DEFINE m == [n \in 0 .. k |-> f[1 .. n]]
<1>10. m[0] = <<>>
  <2>1. 1 .. 0 = {} /\ {} \in SUBSET (1 .. k) /\ 0 \in 0 .. k
    BY <1>2
  <2>2. f[{}] = <<>>
    BY <1>5, <2>1
  <2> QED BY <2>1, <2>2
<1>11. m[k] = Merged(p)
  <2>1. k \in 0 .. k
    BY <1>2
  <2> HIDE DEF Loop
  <2> QED BY <1>1, <1>2, <1>9, <2>1
<1>12. ASSUME NEW n \in 0 .. k PROVE m[n] \in Path
  <2>1. 1 .. n \in SUBSET (1 .. k)
    BY <1>2
  <2> QED BY <1>5, <2>1
<1>13. ASSUME NEW n \in 1 .. k PROVE m[n] = Joined(m[n - 1], p[n])
  <2> DEFINE t == 1 .. n
  <2>1. /\ t \in SUBSET (1 .. k) /\ n \in t /\ t \ {n} = 1 .. (n - 1) /\ n - 1 \in 0 .. k /\ n \in 0 .. k
        /\ \A x \in t : n <= x => x = n
        /\ \A x \in t : x <= n
    BY <1>2
  <2> HIDE DEF t
  <2>2. Max(t) = n
    <3>1. t \subseteq 0 .. k /\ t # {}
      BY <2>1
    <3>2. Max(t) \in t /\ n <= Max(t)
      BY <1>2, <2>1, <3>1, Greatest
    <3> QED BY <2>1, <3>2
  <2>3. f[t] = step[f[t \ {n}]][n] /\ f[t \ {n}] \in Path
    BY <1>5, <2>1, <2>2
  <2>4. f[t] = Joined(f[t \ {n}], p[n])
    BY <1>3, <2>3
  <2>5. m[n] = f[t] /\ m[n - 1] = f[t \ {n}]
    BY <2>1 DEF t
  <2> QED BY <2>4, <2>5
<1> HIDE DEF m
<1>14. IsChain(m, p)
  BY <1>10, <1>11, <1>12, <1>13 DEF IsChain
<1> QED BY <1>14

LEMMA MergedPath ==
  ASSUME NEW p \in Path
  PROVE  Merged(p) \in Path
<1>1. PICK m : IsChain(m, p)
  BY MergedChain
<1>2. Len(p) \in 0 .. Len(p)
  BY DEF Path
<1> QED BY <1>1, <1>2 DEF IsChain

\* A run of slashes counts as one, wherever it is.
LEMMA MergedDoubled ==
  ASSUME NEW x \in Path, NEW y \in Path, Ends(x)
  PROVE  Merged((x \o <<"/">>) \o y) = Merged(x \o y)
<1> DEFINE a == Len(x)
           P == (x \o <<"/">>) \o y
           R == x \o y
<1>1. /\ a \in Nat \ {0} /\ Len(y) \in Nat /\ P \in Path /\ R \in Path
      /\ Len(P) = (a + 1) + Len(y) /\ Len(R) = a + Len(y)
      /\ x[a] = "/"
  BY EmptySeq DEF Path, Ends, Last
<1>2. \A n \in 1 .. a : P[n] = x[n] /\ R[n] = x[n]
  BY DEF Path
<1>3. P[a + 1] = "/"
  BY DEF Path
<1>4. \A n \in 1 .. Len(y) : P[(a + 1) + n] = y[n] /\ R[a + n] = y[n]
  BY DEF Path
<1> HIDE DEF P, R, a
<1>5. PICK m : IsChain(m, P)
  BY <1>1, MergedChain
<1>6. PICK w : IsChain(w, R)
  BY <1>1, MergedChain
<1>7. m[a] = w[a]
  <2>1. ASSUME NEW n \in 1 .. a, m[n - 1] = w[n - 1] PROVE m[n] = w[n]
    <3>1. n \in 1 .. Len(P) /\ n \in 1 .. Len(R)
      BY <1>1
    <3>2. m[n] = Joined(m[n - 1], P[n]) /\ w[n] = Joined(w[n - 1], R[n])
      BY <1>5, <1>6, <3>1 DEF IsChain
    <3> QED BY <1>2, <2>1, <3>2
  <2>2. m[0] = w[0] /\ a \in Nat /\ a \in 0 .. a
    BY <1>1, <1>5, <1>6 DEF IsChain
  <2>3. \A n \in 0 .. a : m[n] = w[n]
    BY <2>1, <2>2, SameChain
  <2> QED BY <2>2, <2>3
<1>8. Ends(m[a])
  <2>1. a \in 1 .. Len(P) /\ a - 1 \in 0 .. Len(P) /\ a \in 1 .. a
    BY <1>1
  <2>2. m[a] = Joined(m[a - 1], "/") /\ m[a - 1] \in Path
    BY <1>1, <1>2, <1>5, <2>1 DEF IsChain
  <2>3. CASE Ends(m[a - 1])
    BY <2>2, <2>3 DEF Joined
  <2>4. CASE ~Ends(m[a - 1])
    <3> DEFINE q == m[a - 1]
    <3>1. m[a] = Append(q, "/")
      BY <2>2, <2>4 DEF Joined
    <3> HIDE DEF q
    <3>2. q \in Seq(STRING)
      BY <2>2 DEF q, Path
    <3>3. Len(Append(q, "/")) = Len(q) + 1 /\ Append(q, "/")[Len(q) + 1] = "/" /\ Len(q) \in Nat
      BY <3>2
    <3>4. Append(q, "/") # <<>>
      BY <3>2, <3>3
    <3> QED BY <3>1, <3>3, <3>4 DEF Ends, Last
  <2> QED BY <2>3, <2>4
<1>9. m[a + 1] = w[a]
  <2>1. a + 1 \in 1 .. Len(P) /\ (a + 1) - 1 = a
    BY <1>1
  <2>2. m[a + 1] = Joined(m[a], "/")
    BY <1>3, <1>5, <2>1 DEF IsChain
  <2> QED BY <1>7, <1>8, <2>2 DEF Joined
<1> DEFINE f == [n \in 0 .. Len(y) |-> m[(a + 1) + n]]
           g == [n \in 0 .. Len(y) |-> w[a + n]]
<1>10. f[0] = g[0]
  <2>1. 0 \in 0 .. Len(y) /\ (a + 1) + 0 = a + 1 /\ a + 0 = a
    BY <1>1
  <2> QED BY <1>9, <2>1
<1>11. ASSUME NEW n \in 1 .. Len(y), f[n - 1] = g[n - 1] PROVE f[n] = g[n]
  <2>1. /\ (a + 1) + n \in 1 .. Len(P) /\ a + n \in 1 .. Len(R)
        /\ ((a + 1) + n) - 1 = (a + 1) + (n - 1) /\ (a + n) - 1 = a + (n - 1)
        /\ n \in 0 .. Len(y) /\ n - 1 \in 0 .. Len(y)
    BY <1>1
  <2>2. f[n] = m[(a + 1) + n] /\ g[n] = w[a + n] /\ f[n - 1] = m[(a + 1) + (n - 1)] /\ g[n - 1] = w[a + (n - 1)]
    BY <2>1
  <2>3. m[(a + 1) + n] = Joined(m[((a + 1) + n) - 1], P[(a + 1) + n])
    BY <1>5, <2>1 DEF IsChain
  <2>4. w[a + n] = Joined(w[(a + n) - 1], R[a + n])
    BY <1>6, <2>1 DEF IsChain
  <2> QED BY <1>4, <1>11, <2>1, <2>2, <2>3, <2>4
<1>12. f[Len(y)] = g[Len(y)]
  <2>1. Len(y) \in Nat /\ Len(y) \in 0 .. Len(y)
    BY <1>1
  <2> HIDE DEF f, g
  <2>2. \A n \in 0 .. Len(y) : f[n] = g[n]
    BY <1>10, <1>11, <2>1, SameChain
  <2> QED BY <2>1, <2>2
<1>13. f[Len(y)] = m[Len(P)] /\ g[Len(y)] = w[Len(R)]
  BY <1>1
<1>14. Merged(P) = Merged(R)
  BY <1>5, <1>6, <1>12, <1>13 DEF IsChain
<1> QED BY <1>14 DEF P, R

\* A name is put behind a directory with a slash between them, where it needs one.
LEMMA JoinMerged ==
  ASSUME NEW dir \in Path, NEW name \in Path, Ends(dir) \/ (name # <<>> /\ Head(name) = "/")
  PROVE  /\ Merged(Join(dir, name)) = Merged(dir \o name)
         /\ Lookup(Join(dir, name)) = Lookup(dir \o name)
<1>1. CASE name # <<>> /\ Head(name) = "/"
  BY <1>1 DEF Join
<1>2. CASE ~(name # <<>> /\ Head(name) = "/")
  <2>1. Join(dir, name) = dir \o (<<"/">> \o name)
    BY <1>2 DEF Join
  <2>2. dir \o (<<"/">> \o name) = (dir \o <<"/">>) \o name
    BY DEF Path
  <2>3. Merged(Join(dir, name)) = Merged(dir \o name)
    BY <1>2, <2>1, <2>2, MergedDoubled
  <2> QED BY <2>3 DEF Lookup
<1> QED BY <1>1, <1>2

\* A single character is a path of length one.
LEMMA OneElement ==
  ASSUME NEW S, NEW x \in S
  PROVE  <<x>> \in Seq(S)
OBVIOUS

\* What is joined to a directory lies under what the directory lies under.
LEMMA JoinedUnder ==
  ASSUME NEW root \in Path, NEW rest \in Path, NEW name \in Path
  PROVE  /\ IsPrefix(root, Join(root, name))
         /\ IsPrefix(root, Join(root \o rest, name))
<1> DEFINE T == Seq(STRING \cup {"/"})
<1>1. root \in T /\ rest \in T /\ name \in T /\ <<"/">> \in T
  <2>1. \A p \in Seq(STRING) : p \in T
    OBVIOUS
  <2>2. "/" \in STRING \cup {"/"}
    OBVIOUS
  <2>3. <<"/">> \in T
    BY <2>2, OneElement
  <2> QED BY <2>1, <2>3 DEF Path
<1>2. \A p, r \in T : p \o r \in T
  OBVIOUS
<1>3. ASSUME NEW y \in T PROVE IsPrefix(root, root \o y)
  <2>1. Len(root) \in Nat /\ Len(y) \in Nat /\ Len(root \o y) = Len(root) + Len(y)
    BY <1>1
  <2>2. SubSeq(root, 1, Len(root)) = SubSeq(root \o y, 1, Len(root))
    <3>1. \A i \in 1 .. Len(root) : root[i] = (root \o y)[i]
      BY <1>1
    <3> QED BY <3>1, <2>1, <1>1
  <2> QED BY <2>1, <2>2 DEF IsPrefix
<1>4. ASSUME NEW dir \in T PROVE \E y \in T : Join(dir, name) = dir \o y
  <2>1. name \in T /\ <<"/">> \o name \in T
    BY <1>1, <1>2
  <2> HIDE DEF T
  <2> QED BY <2>1 DEF Join
<1>5. IsPrefix(root, Join(root, name))
  <2> HIDE DEF T
  <2> QED BY <1>1, <1>3, <1>4
<1>6. IsPrefix(root, Join(root \o rest, name))
  <2>1. root \o rest \in T
    BY <1>1, <1>2
  <2>2. PICK y \in T : Join(root \o rest, name) = (root \o rest) \o y
    <3> HIDE DEF T
    <3> QED BY <1>4, <2>1
  <2>3. (root \o rest) \o y = root \o (rest \o y) /\ rest \o y \in T
    BY <1>1
  <2> HIDE DEF T
  <2> QED BY <1>3, <2>2, <2>3
<1> QED BY <1>5, <1>6

\* A path with a character behind it.
LEMMA Appended ==
  ASSUME NEW w \in Path, NEW c \in STRING
  PROVE  /\ Append(w, c) \in Path /\ Append(w, c) # <<>>
         /\ Ends(Append(w, c)) <=> c = "/"
         /\ w # <<>> => Head(Append(w, c)) = Head(w) /\ Tail(Append(w, c)) = Append(Tail(w), c)
<1>1. /\ Append(w, c) \in Seq(STRING) /\ Append(w, c) # <<>>
      /\ Len(Append(w, c)) = Len(w) + 1 /\ Append(w, c)[Len(w) + 1] = c
  BY AppendProperties DEF Path
<1>2. Ends(Append(w, c)) <=> c = "/"
  BY <1>1 DEF Ends, Last
<1>3. w # <<>> => Head(Append(w, c)) = Head(w) /\ Tail(Append(w, c)) = Append(Tail(w), c)
  BY HeadTailAppend DEF Path
<1> QED BY <1>1, <1>2, <1>3 DEF Path

LEMMA JoinedEnds ==
  ASSUME NEW w \in Path, NEW c \in STRING
  PROVE  /\ Joined(w, c) \in Path /\ Joined(w, c) # <<>>
         /\ Ends(Joined(w, c)) <=> c = "/"
<1>3. CASE c = "/" /\ Ends(w)
  <2>1. Joined(w, c) = w /\ w # <<>>
    BY <1>3 DEF Joined, Ends
  <2> QED BY <1>3, <2>1
<1>4. CASE ~(c = "/" /\ Ends(w))
  <2>1. Joined(w, c) = Append(w, c)
    BY <1>4 DEF Joined
  <2> QED BY <2>1, Appended
<1> QED BY <1>3, <1>4

\* What a path without doubled slashes gives, put behind another.
Glued(m, w) == IF w # <<>> /\ Head(w) = "/" /\ Ends(m) THEN m \o Tail(w) ELSE m \o w

LEMMA GluedEnds ==
  ASSUME NEW m \in Path, NEW w \in Path, w # <<>>
  PROVE  Ends(Glued(m, w)) <=> Ends(w)
<1>1. /\ m \in Seq(STRING) /\ w \in Seq(STRING) /\ Len(m) \in Nat /\ Len(w) \in Nat \ {0}
      /\ (Ends(w) <=> w[Len(w)] = "/")
  BY EmptySeq DEF Path, Ends, Last
<1>2. CASE Head(w) = "/" /\ Ends(m)
  <2>1. Glued(m, w) = m \o Tail(w)
    BY <1>2 DEF Glued
  <2>2. /\ Tail(w) \in Seq(STRING) /\ Len(Tail(w)) = Len(w) - 1
        /\ \A i \in 1 .. Len(Tail(w)) : Tail(w)[i] = w[i + 1]
    BY <1>1, HeadTailProperties
  <2>3. CASE Len(w) = 1
    <3>1. Tail(w) = <<>>
      <4> DEFINE t == Tail(w)
      <4>1. t \in Seq(STRING) /\ Len(t) = 0
        BY <2>2, <2>3
      <4> HIDE DEF t
      <4>2. t = <<>>
        BY <4>1, EmptySeq
      <4> QED BY <4>2 DEF t
    <3>2. Glued(m, w) = m
      BY <1>1, <2>1, <3>1, ConcatEmptySeq
    <3>3. w[Len(w)] = "/"
      BY <1>1, <1>2, <2>3
    <3> QED BY <1>1, <1>2, <3>2, <3>3
  <2>4. CASE Len(w) # 1
    <3> DEFINE t == Tail(w)
    <3>1. Len(t) \in Nat \ {0} /\ t[Len(t)] = w[Len(w)]
      BY <1>1, <2>2, <2>4
    <3>2. t \in Seq(STRING)
      BY <2>2
    <3> HIDE DEF t
    <3>3. Len(m \o t) = Len(m) + Len(t) /\ (m \o t)[Len(m) + Len(t)] = t[Len(t)]
      BY <1>1, <3>1, <3>2
    <3>4. m \o t # <<>>
      BY <1>1, <3>1, <3>3
    <3>5. Ends(m \o t) <=> t[Len(t)] = "/"
      BY <3>3, <3>4 DEF Ends, Last
    <3> QED BY <1>1, <2>1, <3>1, <3>5 DEF t
  <2> QED BY <2>3, <2>4
<1>3. CASE ~(Head(w) = "/" /\ Ends(m))
  <2>1. Glued(m, w) = m \o w
    BY <1>3 DEF Glued
  <2>2. Len(m \o w) = Len(m) + Len(w) /\ (m \o w)[Len(m) + Len(w)] = w[Len(w)]
    BY <1>1
  <2>3. m \o w # <<>>
    BY <1>1, <2>2
  <2>4. Ends(m \o w) <=> w[Len(w)] = "/"
    BY <2>2, <2>3 DEF Ends, Last
  <2> QED BY <1>1, <2>1, <2>4
<1> QED BY <1>2, <1>3

LEMMA AppendGlued ==
  ASSUME NEW m \in Path, NEW w \in Path, NEW c \in STRING, w # <<>>
  PROVE  Append(Glued(m, w), c) = Glued(m, Append(w, c))
<1>1. /\ m \in Seq(STRING) /\ w \in Seq(STRING) /\ Tail(w) \in Seq(STRING)
      /\ Append(w, c) # <<>> /\ Head(Append(w, c)) = Head(w) /\ Tail(Append(w, c)) = Append(Tail(w), c)
  <2>1. m \in Seq(STRING) /\ w \in Seq(STRING)
    BY DEF Path
  <2> QED BY <2>1, Appended, HeadTailProperties
<1>2. ASSUME NEW t \in Seq(STRING) PROVE Append(m \o t, c) = m \o Append(t, c)
  <2>1. <<c>> \in Seq(STRING) /\ m \o t \in Seq(STRING)
    BY <1>1, OneElement, ConcatProperties
  <2>2. (m \o t) \o <<c>> = m \o (t \o <<c>>)
    BY <1>1, <2>1, ConcatAssociative
  <2> QED BY <1>1, <2>1, <2>2, AppendIsConcat
<1> QED BY <1>1, <1>2 DEF Glued

\* A character more on the one side is a character more on the other.
LEMMA GluedStep ==
  ASSUME NEW m \in Path, NEW w \in Path, NEW c \in STRING
  PROVE  Joined(Glued(m, w), c) = Glued(m, Joined(w, c))
<1>1. CASE w = <<>>
  <2>1. Glued(m, w) = m
    BY <1>1, ConcatEmptySeq DEF Glued, Path
  <2>2. Joined(w, c) = <<c>> /\ ~Ends(w)
    BY <1>1 DEF Joined, Ends
  <2>3. m \o <<>> = m /\ m \o <<c>> = Append(m, c)
    BY ConcatEmptySeq, AppendIsConcat DEF Path
  <2>4. Glued(m, <<c>>) = IF c = "/" /\ Ends(m) THEN m ELSE Append(m, c)
    <3>1. Head(<<c>>) = c /\ <<c>> # <<>>
      OBVIOUS
    <3>2. Tail(<<c>>) = <<>>
      <4>1. Append(<<>>, c) = <<c>> /\ <<>> \in Seq(STRING)
        OBVIOUS
      <4> QED BY <4>1, HeadTailAppend
    <3> QED BY <2>3, <3>1, <3>2 DEF Glued
  <2> QED BY <2>1, <2>2, <2>4 DEF Joined
<1>2. CASE w # <<>>
  <2>1. Ends(Glued(m, w)) <=> Ends(w)
    BY <1>2, GluedEnds
  <2>2. Append(Glued(m, w), c) = Glued(m, Append(w, c))
    BY <1>2, AppendGlued
  <2> QED BY <2>1, <2>2 DEF Joined
<1> QED BY <1>1, <1>2

LEMMA GluedPath ==
  ASSUME NEW m \in Path, NEW w \in Path
  PROVE  Glued(m, w) \in Path
<1>1. w # <<>> => Tail(w) \in Seq(STRING)
  BY HeadTailProperties DEF Path
<1> QED BY <1>1, ConcatProperties DEF Glued, Path

\* Runs of slashes of a path count as one in its parts, and where these meet.
LEMMA MergedParts ==
  ASSUME NEW x \in Path, NEW y \in Path
  PROVE  Merged(x \o y) = Glued(Merged(x), Merged(y))
<1> DEFINE a == Len(x)
           R == x \o y
           M == Merged(x)
<1>1. /\ a \in Nat /\ Len(y) \in Nat /\ R \in Path /\ Len(R) = a + Len(y)
      /\ \A n \in 1 .. a : R[n] = x[n] /\ x[n] \in STRING
      /\ \A n \in 1 .. Len(y) : R[a + n] = y[n] /\ y[n] \in STRING
  BY DEF Path
<1>2. M \in Path
  BY MergedPath
<1> HIDE DEF R, a
<1>3. PICK m : IsChain(m, R)
  BY <1>1, MergedChain
<1>4. PICK u : IsChain(u, x)
  BY MergedChain
<1>5. PICK v : IsChain(v, y)
  BY MergedChain
<1>6. m[a] = M
  <2>1. ASSUME NEW n \in 1 .. a, m[n - 1] = u[n - 1] PROVE m[n] = u[n]
    <3>1. n \in 1 .. Len(R) /\ n \in 1 .. Len(x)
      BY <1>1 DEF a
    <3>2. m[n] = Joined(m[n - 1], R[n]) /\ u[n] = Joined(u[n - 1], x[n])
      BY <1>3, <1>4, <3>1 DEF IsChain
    <3> QED BY <1>1, <2>1, <3>2
  <2>2. m[0] = u[0] /\ a \in Nat /\ a \in 0 .. a
    BY <1>1, <1>3, <1>4 DEF IsChain
  <2>3. \A n \in 0 .. a : m[n] = u[n]
    BY <2>1, <2>2, SameChain
  <2> QED BY <1>4, <2>2, <2>3 DEF IsChain, a
<1> DEFINE f == [n \in 0 .. Len(y) |-> m[a + n]]
           g == [n \in 0 .. Len(y) |-> Glued(M, v[n])]
<1>7. f[0] = g[0]
  <2>1. 0 \in 0 .. Len(y) /\ a + 0 = a
    BY <1>1
  <2>2. v[0] = <<>> /\ Glued(M, <<>>) = M
    BY <1>2, <1>5, ConcatEmptySeq DEF IsChain, Glued, Path
  <2> HIDE DEF M
  <2> QED BY <1>6, <2>1, <2>2
<1>8. ASSUME NEW n \in 1 .. Len(y), f[n - 1] = g[n - 1] PROVE f[n] = g[n]
  <2>1. /\ a + n \in 1 .. Len(R) /\ (a + n) - 1 = a + (n - 1)
        /\ n \in 0 .. Len(y) /\ n - 1 \in 0 .. Len(y)
    BY <1>1
  <2>2. f[n] = m[a + n] /\ g[n] = Glued(M, v[n]) /\ m[a + (n - 1)] = Glued(M, v[n - 1])
    BY <1>8, <2>1
  <2>3. m[a + n] = Joined(m[(a + n) - 1], R[a + n])
    BY <1>3, <2>1 DEF IsChain
  <2>4. v[n] = Joined(v[n - 1], y[n]) /\ v[n - 1] \in Path
    BY <1>5, <2>1 DEF IsChain
  <2>5. R[a + n] = y[n] /\ y[n] \in STRING
    BY <1>1
  <2> HIDE DEF M, f, g
  <2>6. Joined(Glued(M, v[n - 1]), y[n]) = Glued(M, Joined(v[n - 1], y[n]))
    BY <1>2, <2>4, <2>5, GluedStep
  <2> QED BY <2>1, <2>2, <2>3, <2>4, <2>5, <2>6
<1>9. f[Len(y)] = g[Len(y)]
  <2>1. Len(y) \in Nat /\ Len(y) \in 0 .. Len(y)
    BY <1>1
  <2> HIDE DEF f, g
  <2>2. \A n \in 0 .. Len(y) : f[n] = g[n]
    BY <1>7, <1>8, <2>1, SameChain
  <2> QED BY <2>1, <2>2
<1>10. f[Len(y)] = m[Len(R)] /\ g[Len(y)] = Glued(M, v[Len(y)])
  BY <1>1
<1>11. m[Len(R)] = Merged(R) /\ v[Len(y)] = Merged(y)
  BY <1>3, <1>5 DEF IsChain
<1> HIDE DEF f, g
<1> QED BY <1>9, <1>10, <1>11 DEF R

LEMMA MergedShort ==
  /\ Merged(<<>>) = <<>>
  /\ \A c \in STRING : Merged(<<c>>) = <<c>>
<1>1. Merged(<<>>) = <<>>
  <2>1. <<>> \in Path /\ Len(<<>>) = 0
    BY DEF Path
  <2>2. PICK m : IsChain(m, <<>>)
    BY <2>1, MergedChain
  <2> QED BY <2>1, <2>2 DEF IsChain
<1>2. ASSUME NEW c \in STRING PROVE Merged(<<c>>) = <<c>>
  <2>1. <<c>> \in Path /\ Len(<<c>>) = 1 /\ <<c>>[1] = c
    BY OneElement DEF Path
  <2>2. PICK m : IsChain(m, <<c>>)
    BY <2>1, MergedChain
  <2>3. m[0] = <<>> /\ m[1] = Merged(<<c>>) /\ m[1] = Joined(m[0], c)
    <3>1. 1 \in 1 .. Len(<<c>>) /\ 1 - 1 = 0
      BY <2>1
    <3> QED BY <2>1, <2>2, <3>1 DEF IsChain
  <2>4. Joined(<<>>, c) = <<c>>
    BY DEF Joined, Ends
  <2> QED BY <2>3, <2>4
<1> QED BY <1>1, <1>2

\* Once they count as one there is nothing left to count.
LEMMA MergedTwice ==
  ASSUME NEW p \in Path
  PROVE  Merged(Merged(p)) = Merged(p)
<1>1. PICK m : IsChain(m, p)
  BY MergedChain
<1> DEFINE k == Len(p)
           f == [n \in 0 .. k |-> Merged(m[n])]
<1>2. k \in Nat /\ \A n \in 1 .. k : p[n] \in STRING
  BY DEF Path
<1>3. f[0] = m[0]
  BY <1>1, <1>2, MergedShort DEF IsChain
<1>4. ASSUME NEW n \in 1 .. k, f[n - 1] = m[n - 1] PROVE f[n] = m[n]
  <2> DEFINE w == m[n - 1]
             c == p[n]
  <2>1. n \in 0 .. k /\ n - 1 \in 0 .. k
    BY <1>2
  <2>2. w \in Path /\ c \in STRING /\ m[n] = Joined(w, c) /\ f[n] = Merged(m[n]) /\ Merged(w) = w
    BY <1>1, <1>2, <1>4, <2>1 DEF IsChain
  <2> HIDE DEF w, c, f
  <2>3. CASE c = "/" /\ Ends(w)
    BY <2>2, <2>3 DEF Joined
  <2>4. CASE ~(c = "/" /\ Ends(w))
    <3>1. m[n] = Append(w, c) /\ Append(w, c) = w \o <<c>> /\ <<c>> \in Path
      BY <2>2, <2>4, AppendIsConcat, OneElement DEF Joined, Path
    <3>2. Merged(w \o <<c>>) = Glued(w, <<c>>)
      BY <2>2, <3>1, MergedParts, MergedShort
    <3>3. Glued(w, <<c>>) = w \o <<c>>
      BY <2>4 DEF Glued
    <3> QED BY <2>2, <3>1, <3>2, <3>3
  <2> QED BY <2>3, <2>4
<1>5. \A n \in 0 .. k : f[n] = m[n]
  <2> HIDE DEF f, k
  <2> QED BY <1>2, <1>3, <1>4, SameChain
<1>6. k \in 0 .. k
  BY <1>2
<1> QED BY <1>1, <1>5, <1>6 DEF IsChain

\* They begin and end with a slash where they did.
LEMMA MergedShape ==
  ASSUME NEW p \in Path
  PROVE  /\ Ends(Merged(p)) <=> Ends(p)
         /\ Merged(p) = <<>> <=> p = <<>>
         /\ p # <<>> => Head(Merged(p)) = Head(p)
<1>1. CASE p = <<>>
  BY <1>1, MergedShort DEF Ends
<1>2. CASE p # <<>>
  <2>1. Len(p) \in Nat \ {0} /\ p[Len(p)] \in STRING
    BY <1>2, EmptySeq DEF Path
  <2>2. PICK m : IsChain(m, p)
    BY MergedChain
  <2>3. /\ Len(p) \in 1 .. Len(p) /\ Len(p) - 1 \in 0 .. Len(p)
    BY <2>1
  <2>4. Merged(p) = Joined(m[Len(p) - 1], p[Len(p)]) /\ m[Len(p) - 1] \in Path
    BY <2>2, <2>3 DEF IsChain
  <2>5. Merged(p) # <<>> /\ (Ends(Merged(p)) <=> p[Len(p)] = "/")
    <3> DEFINE w == m[Len(p) - 1]
               c == p[Len(p)]
    <3>1. Merged(p) = Joined(w, c) /\ w \in Path /\ c \in STRING
      BY <2>1, <2>4
    <3> HIDE DEF w, c
    <3>2. Merged(p) # <<>> /\ (Ends(Merged(p)) <=> c = "/")
      BY <3>1, JoinedEnds
    <3> QED BY <3>2 DEF c
  <2>6. Ends(p) <=> p[Len(p)] = "/"
    BY <1>2 DEF Ends, Last
  <2>7. Head(Merged(p)) = Head(p)
    <3> DEFINE h == Head(p)
               t == Tail(p)
    <3>1. h \in STRING /\ t \in Path
      BY <1>2, HeadTailProperties DEF Path
    <3>2. p = <<h>> \o t /\ <<h>> \in Path
      BY <1>2, <3>1, OneElement DEF Path
    <3> HIDE DEF h, t
    <3>3. Merged(p) = Glued(<<h>>, Merged(t)) /\ Merged(t) \in Path
      BY <3>1, <3>2, MergedParts, MergedShort, MergedPath
    <3>4. Merged(t) # <<>> => Tail(Merged(t)) \in Seq(STRING)
      BY <3>3, HeadTailProperties DEF Path
    <3>5. ASSUME NEW w \in Seq(STRING) PROVE Head(<<h>> \o w) = h
      <4>1. <<h>> \in Seq(STRING) /\ Len(<<h>>) = 1
        BY <3>1, OneElement
      <4>2. (<<h>> \o w)[1] = h /\ <<h>> \o w \in Seq(STRING)
        BY <4>1, ConcatProperties
      <4> QED BY <4>2
    <3> QED BY <3>3, <3>4, <3>5 DEF Glued, Path, h
  <2> QED BY <1>2, <2>5, <2>6, <2>7
<1> QED BY <1>1, <1>2

\* Paths that name the same file.
Alike(p, q) == Merged(p) = Merged(q)

LEMMA AlikeParts ==
  ASSUME NEW x \in Path, NEW y \in Path, NEW z \in Path, Alike(x, y)
  PROVE  Alike(x \o z, y \o z) /\ Alike(z \o x, z \o y)
BY MergedParts DEF Alike

LEMMA AlikeShape ==
  ASSUME NEW x \in Path, NEW y \in Path, Alike(x, y)
  PROVE  /\ Ends(x) <=> Ends(y)
         /\ x = <<>> <=> y = <<>>
         /\ x # <<>> => Head(x) = Head(y)
         /\ Lookup(x) = Lookup(y)
BY MergedShape DEF Alike, Lookup

LEMMA AlikeMerged ==
  ASSUME NEW p \in Path
  PROVE  Merged(p) \in Path /\ Alike(p, Merged(p))
BY MergedPath, MergedTwice DEF Alike

\* The characters of a path.
Chars(p) == {p[i] : i \in 1 .. Len(p)}

LEMMA CharsMerged ==
  ASSUME NEW p \in Path
  PROVE  Chars(Merged(p)) = Chars(p)
<1>1. PICK m : IsChain(m, p)
  BY MergedChain
<1> DEFINE k == Len(p)
           f == [n \in 0 .. k |-> Chars(m[n])]
           g == [n \in 0 .. k |-> {p[i] : i \in 1 .. n}]
<1>2. k \in Nat /\ \A n \in 1 .. k : p[n] \in STRING
  BY DEF Path
<1>3. f[0] = g[0]
  <2>1. m[0] = <<>> /\ 0 \in 0 .. k /\ Len(<<>>) = 0
    BY <1>1, <1>2 DEF IsChain
  <2>2. Chars(<<>>) = {}
    BY <2>1 DEF Chars
  <2> QED BY <2>1, <2>2
<1>4. ASSUME NEW n \in 1 .. k, f[n - 1] = g[n - 1] PROVE f[n] = g[n]
  <2> DEFINE w == m[n - 1]
             c == p[n]
  <2>1. n \in 0 .. k /\ n - 1 \in 0 .. k
    BY <1>2
  <2>2. w \in Path /\ c \in STRING /\ m[n] = Joined(w, c)
    BY <1>1, <1>2, <2>1 DEF IsChain
  <2>3. g[n] = g[n - 1] \cup {c}
    <3>1. 1 .. n = (1 .. (n - 1)) \cup {n}
      BY <1>2
    <3>2. g[n] = {p[i] : i \in 1 .. n} /\ g[n - 1] = {p[i] : i \in 1 .. (n - 1)}
      BY <2>1
    <3> HIDE DEF g
    <3> QED BY <3>1, <3>2
  <2>4. Chars(w) = g[n - 1] /\ f[n] = Chars(m[n])
    BY <1>4, <2>1
  <2> HIDE DEF w, c, f, g
  <2>5. Chars(Joined(w, c)) = Chars(w) \cup {c}
    <3>1. CASE c = "/" /\ Ends(w)
      <4>1. Len(w) \in Nat \ {0} /\ w[Len(w)] = "/"
        BY <2>2, <3>1, EmptySeq DEF Ends, Last, Path
      <4>2. c \in Chars(w)
        BY <3>1, <4>1 DEF Chars
      <4> QED BY <3>1, <4>2 DEF Joined
    <3>2. CASE ~(c = "/" /\ Ends(w))
      <4>1. Joined(w, c) = Append(w, c)
        BY <3>2 DEF Joined
      <4> DEFINE v == Append(w, c)
      <4>2. Len(w) \in Nat /\ Len(v) = Len(w) + 1 /\ v[Len(w) + 1] = c /\ \A i \in 1 .. Len(w) : v[i] = w[i]
        BY <2>2, AppendProperties DEF Path
      <4> HIDE DEF v
      <4>3. 1 .. Len(v) = (1 .. Len(w)) \cup {Len(w) + 1}
        BY <4>2
      <4>4. Chars(v) = Chars(w) \cup {c}
        BY <4>2, <4>3 DEF Chars
      <4> QED BY <4>1, <4>4 DEF v
    <3> QED BY <3>1, <3>2
  <2> QED BY <2>2, <2>3, <2>4, <2>5
<1>5. \A n \in 0 .. k : f[n] = g[n]
  <2> HIDE DEF f, g, k
  <2> QED BY <1>2, <1>3, <1>4, SameChain
<1>6. k \in 0 .. k /\ m[k] = Merged(p)
  BY <1>1, <1>2 DEF IsChain
<1>7. f[k] = Chars(Merged(p)) /\ g[k] = Chars(p)
  BY <1>6 DEF Chars
<1> QED BY <1>5, <1>6, <1>7

\* Where there are no slashes nothing is merged.
LEMMA Slashless ==
  ASSUME NEW p \in Path, "/" \notin Chars(p)
  PROVE  Merged(p) = p
<1>1. PICK m : IsChain(m, p)
  BY MergedChain
<1> DEFINE k == Len(p)
           g == [n \in 0 .. k |-> SubSeq(p, 1, n)]
<1>2. k \in Nat /\ p \in Seq(STRING) /\ \A n \in 1 .. k : p[n] \in STRING /\ p[n] # "/"
  BY DEF Path, Chars
<1>3. m[0] = g[0]
  <2>1. m[0] = <<>> /\ 0 \in 0 .. k
    BY <1>1, <1>2 DEF IsChain
  <2>2. SubSeq(p, 1, 0) = <<>>
    BY SubSeqEmpty
  <2> QED BY <2>1, <2>2
<1>4. ASSUME NEW n \in 1 .. k, m[n - 1] = g[n - 1] PROVE m[n] = g[n]
  <2>1. n \in 0 .. k /\ n - 1 \in 0 .. k /\ 1 \in 1 .. k /\ n \in 1 .. k
    BY <1>2
  <2>2. m[n - 1] \in Path /\ p[n] \in STRING /\ m[n] = Joined(m[n - 1], p[n])
    BY <1>1, <1>2, <2>1 DEF IsChain
  <2>3. m[n] = Append(m[n - 1], p[n])
    BY <1>2, <2>2 DEF Joined
  <2>4. Append(m[n - 1], p[n]) = m[n - 1] \o <<p[n]>>
    BY <2>2, AppendIsConcat DEF Path
  <2>5. SubSeq(p, 1, n) = SubSeq(p, 1, n - 1) \o <<p[n]>>
    BY <1>2, <2>1, SubSeqRecursiveSecond
  <2> QED BY <1>4, <2>1, <2>3, <2>4, <2>5
<1>5. \A n \in 0 .. k : m[n] = g[n]
  <2> HIDE DEF g, k
  <2> QED BY <1>2, <1>3, <1>4, SameChain
<1>6. k \in 0 .. k /\ m[k] = Merged(p) /\ SubSeq(p, 1, k) = p
  BY <1>1, <1>2, SubSeqFull DEF IsChain
<1> QED BY <1>5, <1>6

\* The extension is what follows the last dot.
LEMMA DotLast ==
  ASSUME NEW a \in Path, NEW e \in Path, "." \in STRING, "." \notin Chars(e)
  PROVE  Extension(a \o (<<".">> \o e)) = e
<1> DEFINE k == Len(a)
           P == a \o (<<".">> \o e)
           dots == {n \in DOMAIN P : P[n] = "."}
<1>1. /\ k \in Nat /\ Len(e) \in Nat /\ e \in Seq(STRING)
      /\ \A i \in 1 .. Len(e) : e[i] # "."
  BY DEF Path, Chars
<1>2. /\ P \in Seq(STRING) /\ Len(P) = (k + 1) + Len(e) /\ P[k + 1] = "."
      /\ \A i \in 1 .. Len(e) : P[(k + 1) + i] = e[i]
  <2> DEFINE d == <<".">> \o e
  <2>1. <<".">> \in Seq(STRING) /\ Len(<<".">>) = 1 /\ <<".">>[1] = "."
    BY OneElement
  <2>2. /\ d \in Seq(STRING) /\ Len(d) = 1 + Len(e) /\ d[1] = "." /\ \A i \in 1 .. Len(e) : d[1 + i] = e[i]
    BY <1>1, <2>1
  <2> HIDE DEF d
  <2>3. /\ a \o d \in Seq(STRING) /\ Len(a \o d) = k + Len(d)
        /\ \A j \in 1 .. Len(d) : (a \o d)[k + j] = d[j]
    <3>1. a \in Seq(STRING)
      BY DEF Path
    <3>2. /\ a \o d \in Seq(STRING) /\ Len(a \o d) = k + Len(d)
          /\ \A i \in 1 .. k + Len(d) : (a \o d)[i] = IF i <= k THEN a[i] ELSE d[i - k]
      BY <2>2, <3>1, ConcatProperties
    <3>3. ASSUME NEW j \in 1 .. Len(d) PROVE (a \o d)[k + j] = d[j]
      <4>1. k + j \in 1 .. k + Len(d) /\ ~(k + j <= k) /\ (k + j) - k = j
        BY <1>1, <2>2
      <4> HIDE DEF k
      <4> QED BY <3>2, <4>1
    <3> QED BY <3>2, <3>3
  <2> DEFINE R == a \o d
  <2> HIDE DEF R, k
  <2>4. /\ R \in Seq(STRING) /\ Len(R) = (k + 1) + Len(e)
    BY <1>1, <2>2, <2>3 DEF R
  <2>5. R[k + 1] = "."
    BY <1>1, <2>2, <2>3 DEF R
  <2>6. ASSUME NEW i \in 1 .. Len(e) PROVE R[(k + 1) + i] = e[i]
    <3>1. 1 + i \in 1 .. Len(d) /\ (k + 1) + i = k + (1 + i)
      BY <1>1, <2>2
    <3> QED BY <2>2, <2>3, <3>1 DEF R
  <2> QED BY <2>4, <2>5, <2>6 DEF R, d
<1> HIDE DEF P, k
<1>3. k + 1 \in dots /\ \A m \in dots : m <= k + 1
  <2>1. k + 1 \in dots
    BY <1>1, <1>2
  <2>2. ASSUME NEW m \in dots PROVE m <= k + 1
    <3>1. m \in 1 .. Len(P) /\ P[m] = "."
      BY <1>2
    <3>2. m > k + 1 => FALSE
      <4>1. ASSUME m > k + 1 PROVE FALSE
        <5>1. m - (k + 1) \in 1 .. Len(e) /\ (k + 1) + (m - (k + 1)) = m
          BY <1>1, <1>2, <3>1, <4>1
        <5> QED BY <1>1, <1>2, <3>1, <5>1
      <4> QED BY <4>1
    <3> QED BY <1>1, <3>1, <3>2
  <2> QED BY <2>1, <2>2
<1>4. dots # {} /\ \A m \in dots : m \in Nat
  BY <1>2, <1>3
<1> DEFINE n == CHOOSE x \in dots : \A m \in dots : m <= x
<1>5. n \in dots /\ \A m \in dots : m <= n
  BY <1>3
<1>6. n = k + 1
  <2> HIDE DEF n, dots
  <2> QED BY <1>1, <1>3, <1>4, <1>5
<1>7. Extension(P) = SubSeq(P, n + 1, Len(P))
  BY <1>4 DEF Extension, AfterDot
<1>8. SubSeq(P, (k + 1) + 1, Len(P)) = e
  <2> DEFINE z == SubSeq(P, (k + 1) + 1, Len(P))
             lo == (k + 1) + 1
             hi == Len(P)
  <2>1. lo \in Int /\ hi \in Int /\ \A i \in lo .. hi : P[i] \in STRING
    BY <1>1, <1>2
  <2>2. /\ z \in Seq(STRING) /\ Len(z) = IF lo <= hi THEN hi - lo + 1 ELSE 0
        /\ \A i \in 1 .. hi - lo + 1 : z[i] = P[lo + i - 1]
    BY <2>1, SubSeqProperties
  <2> HIDE DEF z
  <2>3. Len(z) = Len(e)
    BY <1>1, <1>2, <2>2
  <2>4. ASSUME NEW i \in 1 .. Len(z) PROVE z[i] = e[i]
    <3>1. i \in 1 .. hi - lo + 1 /\ lo + i - 1 = (k + 1) + i /\ i \in 1 .. Len(e)
      BY <1>1, <1>2, <2>2, <2>3
    <3> QED BY <1>2, <2>2, <3>1
  <2>5. z = e
    BY <1>1, <2>2, <2>3, <2>4, SeqEqual
  <2> QED BY <2>5 DEF z
<1> HIDE DEF n
<1> QED BY <1>6, <1>7, <1>8 DEF P

LEMMA DotParts ==
  ASSUME NEW p \in Path
  PROVE  IF "." \in Chars(p)
         THEN \E a, e \in Path : "." \in STRING /\ "." \notin Chars(e) /\ p = a \o (<<".">> \o e)
         ELSE Extension(p) = <<>>
<1>1. p \in Seq(STRING) /\ Len(p) \in Nat /\ DOMAIN p = 1 .. Len(p) /\ \A n \in 1 .. Len(p) : p[n] \in STRING
  BY DEF Path
<1> DEFINE dots == {i \in DOMAIN p : p[i] = "."}
<1>2. CASE "." \in Chars(p)
  <2>1. dots \subseteq 0 .. Len(p) /\ dots # {}
    BY <1>1, <1>2 DEF Chars
  <2>2. PICK n \in dots : \A m \in dots : m <= n
    <3> HIDE DEF dots
    <3> QED BY <1>1, <2>1, Greatest
  <2>3. n \in 1 .. Len(p) /\ p[n] = "."
    BY <1>1, <2>2
  <2> DEFINE a == SubSeq(p, 1, n - 1)
             e == SubSeq(p, n + 1, Len(p))
  <2>4. a \in Path
    <3>1. \A i \in 1 .. (n - 1) : p[i] \in STRING
      BY <1>1, <2>3
    <3>2. 1 \in Int /\ n - 1 \in Int
      BY <2>3
    <3> QED BY <3>1, <3>2, SubSeqProperties DEF Path
  <2>5. /\ e \in Path /\ Len(e) = Len(p) - n
        /\ \A i \in 1 .. Len(e) : e[i] = p[n + i]
    <3>1. \A i \in (n + 1) .. Len(p) : p[i] \in STRING
      BY <1>1, <2>3
    <3>2. n + 1 \in Int /\ Len(p) \in Int
      BY <1>1, <2>3
    <3>3. /\ e \in Seq(STRING) /\ Len(e) = IF n + 1 <= Len(p) THEN Len(p) - (n + 1) + 1 ELSE 0
          /\ \A i \in 1 .. Len(p) - (n + 1) + 1 : e[i] = p[n + 1 + i - 1]
      BY <3>1, <3>2, SubSeqProperties
    <3> HIDE DEF e
    <3>4. Len(e) = Len(p) - n
      BY <1>1, <2>3, <3>3
    <3>5. ASSUME NEW i \in 1 .. Len(e) PROVE e[i] = p[n + i]
      <4>1. i \in 1 .. Len(p) - (n + 1) + 1 /\ n + 1 + i - 1 = n + i
        BY <1>1, <2>3, <3>4
      <4> QED BY <3>3, <4>1
    <3> QED BY <3>3, <3>4, <3>5 DEF Path
  <2> HIDE DEF e, a
  <2>6. "." \notin Chars(e)
    <3>1. ASSUME NEW i \in 1 .. Len(e), e[i] = "." PROVE FALSE
      <4>1. n + i \in 1 .. Len(p) /\ n + i > n /\ p[n + i] = "."
        BY <1>1, <2>3, <2>5, <3>1
      <4>2. n + i \in dots
        BY <1>1, <4>1
      <4> QED BY <2>2, <2>3, <4>1, <4>2
    <3> QED BY <3>1 DEF Chars
  <2>7. p = a \o (<<".">> \o e)
    <3>1. SubSeq(p, n, Len(p)) = <<p[n]>> \o e
      <4>1. Len(p) \in n .. Len(p)
        BY <1>1, <2>3
      <4>2. SubSeq(p, n, Len(p)) = <<p[n]>> \o SubSeq(p, n + 1, Len(p))
        BY <1>1, <2>3, <4>1, SubSeqRecursiveFirst
      <4> QED BY <4>2 DEF e
    <3>2. a \o SubSeq(p, n, Len(p)) = SubSeq(p, 1, Len(p))
      <4>1. /\ 1 \in 1 .. Len(p) + 1 /\ n - 1 \in 1 - 1 .. Len(p) /\ Len(p) \in n - 1 .. Len(p) /\ (n - 1) + 1 = n
        BY <1>1, <2>3
      <4>2. SubSeq(p, 1, n - 1) \o SubSeq(p, (n - 1) + 1, Len(p)) = SubSeq(p, 1, Len(p))
        BY <1>1, <4>1, ConcatAdjacentSubSeq
      <4> QED BY <4>1, <4>2 DEF a
    <3> QED BY <1>1, <2>3, <3>1, <3>2, SubSeqFull
  <2>8. "." \in STRING
    BY <1>1, <2>3
  <2> QED BY <1>2, <2>4, <2>5, <2>6, <2>7, <2>8
<1>3. CASE "." \notin Chars(p)
  <2>1. dots = {}
    BY <1>1, <1>3 DEF Chars
  <2> QED BY <1>3, <2>1 DEF Extension, AfterDot
<1> QED BY <1>2, <1>3

\* The extension of a path without doubled slashes is that of the path, without them.
LEMMA ExtensionMerged ==
  ASSUME NEW p \in Path
  PROVE  Extension(p) \in Path /\ Extension(Merged(p)) = Merged(Extension(p))
<1>1. CASE "." \in Chars(p)
  <2>1. PICK a \in Path, e \in Path : "." \in STRING /\ "." \notin Chars(e) /\ p = a \o (<<".">> \o e)
    BY <1>1, DotParts
  <2>2. <<".">> \in Path /\ <<".">> \o e \in Path /\ Merged(a) \in Path /\ Merged(e) \in Path
    BY <2>1, OneElement, MergedPath, ConcatProperties DEF Path
  <2> DEFINE d == <<".">> \o Merged(e)
  <2>3. Merged(<<".">> \o e) = d
    <3>1. Merged(<<".">> \o e) = Glued(<<".">>, Merged(e))
      BY <2>1, <2>2, MergedParts, MergedShort
    <3>2. ~Ends(<<".">>)
      BY DEF Ends, Last
    <3> QED BY <3>1, <3>2 DEF Glued
  <2>4. Merged(p) = Merged(a) \o d
    <3>1. Merged(p) = Glued(Merged(a), d)
      BY <2>1, <2>2, <2>3, MergedParts
    <3>2. Head(d) # "/"
      <4>1. d \in Seq(STRING) /\ d[1] = "."
        BY <2>2 DEF Path
      <4>2. Head(d) = "."
        BY <4>1
      <4> QED BY <4>2
    <3> QED BY <3>1, <3>2 DEF Glued
  <2>5. "." \notin Chars(Merged(e))
    BY <2>1, CharsMerged
  <2>6. Extension(Merged(p)) = Merged(e)
    BY <2>1, <2>2, <2>4, <2>5, DotLast
  <2>7. Extension(p) = e
    BY <2>1, DotLast
  <2> QED BY <2>6, <2>7
<1>2. CASE "." \notin Chars(p)
  <2>1. Extension(p) = <<>> /\ Extension(Merged(p)) = <<>>
    BY <1>2, CharsMerged, MergedPath, DotParts
  <2> QED BY <2>1, MergedShort DEF Path
<1> QED BY <1>1, <1>2

LEMMA JoinAlike ==
  ASSUME "/" \in STRING, NEW d \in Path, NEW e \in Path, NEW x \in Path, NEW y \in Path,
         Alike(d, e), Alike(x, y)
  PROVE  Join(d, x) \in Path /\ Join(e, y) \in Path /\ Alike(Join(d, x), Join(e, y))
<1> DEFINE named(z) == IF z # <<>> /\ Head(z) = "/" THEN z ELSE <<"/">> \o z
<1>1. \A u, v \in Path : u \o v \in Path
  BY ConcatProperties DEF Path
<1>2. <<"/">> \in Path
  BY OneElement DEF Path
<1>3. named(x) \in Path /\ named(y) \in Path
  BY <1>1, <1>2
<1>4. Alike(named(x), named(y))
  <2>1. x = <<>> <=> y = <<>>
    BY AlikeShape
  <2>2. x # <<>> => Head(x) = Head(y)
    BY AlikeShape
  <2>3. Alike(<<"/">> \o x, <<"/">> \o y)
    BY <1>2, AlikeParts
  <2> QED BY <2>1, <2>2, <2>3
<1>5. Join(d, x) = d \o named(x) /\ Join(e, y) = e \o named(y)
  BY DEF Join
<1> HIDE DEF named
<1>6. Alike(d \o named(x), e \o named(x)) /\ Alike(e \o named(x), e \o named(y))
  BY <1>3, <1>4, AlikeParts
<1>7. Alike(d \o named(x), e \o named(y))
  BY <1>6 DEF Alike
<1> QED BY <1>1, <1>3, <1>5, <1>7

----------------------------------------------------------------------------
(* Settings                                                                *)

LEMMA DefaultsFact ==
  ASSUME NEW s \in Servers
  PROVE  LET d == Defaults(s) IN
         /\ d.root = RootOf(s, 0) /\ d.root \in Path
         /\ d.limit_except = LimitsOf(s, 0)
         /\ d.client_max_body_size = BodySizeOf(s, 0) /\ d.client_max_body_size \in Nat
         /\ d.index \in Seq(Path) /\ d.index # <<>>
         /\ d.alias = s.alias
<1>1. s \in ServerInfo
  BY ServersAssumption
<1>2. /\ {"root", "index", "autoindex", "client_max_body_size", "limit_except", "alias"} \subseteq DOMAIN s
      /\ s.root \in Path /\ s.index \in Seq(Path) /\ s.client_max_body_size \in Nat
  BY <1>1 DEF ServerInfo
<1>3. /\ Defaults(s).root = IF s.root = <<>> THEN DefaultRoot ELSE s.root
      /\ Defaults(s).index = IF s.index = <<>> THEN DefaultIndex ELSE s.index
      /\ Defaults(s).client_max_body_size = IF s.client_max_body_size = 0 THEN DefaultBodySize
                                            ELSE s.client_max_body_size
      /\ Defaults(s).limit_except = s.limit_except
      /\ Defaults(s).alias = s.alias
  BY <1>2 DEF Defaults
<1> QED BY <1>2, <1>3, DefaultsAssumption DEF RootOf, LimitsOf, BodySizeOf

\* A block says what the location says, or else what its server says.
LEMMA BlockFact ==
  ASSUME NEW s \in Servers, NEW n \in {0} \cup DOMAIN s.location
  PROVE  LET b == Block(s, n) IN
         /\ b.root = RootOf(s, n) /\ b.root \in Path
         /\ b.limit_except = LimitsOf(s, n)
         /\ b.client_max_body_size = BodySizeOf(s, n) /\ b.client_max_body_size \in Nat
         /\ b.index \in Seq(Path) /\ b.index # <<>>
         /\ n # 0 => /\ b.alias = s.location[n].alias /\ b.internal = s.location[n].internal
                     /\ b.return_ = s.location[n].return_ /\ b.path = s.location[n].path
<1>1. CASE n = 0
  BY <1>1, DefaultsFact DEF Block
<1>2. CASE n # 0
  <2> DEFINE l == s.location[n]
             d == Defaults(s)
  <2>1. n \in DOMAIN s.location /\ l \in Location
    BY <1>2, LocationsFact
  <2> HIDE DEF d, l
  <2>2. /\ {"root", "index", "autoindex", "error_page", "client_max_body_size", "limit_except",
            "alias", "internal", "return_", "path"} \subseteq DOMAIN l
        /\ l.root \in Path /\ l.index \in Seq(Path) /\ l.client_max_body_size \in Nat
    BY <2>1 DEF Location
  <2>3. /\ Inherit(l, d).root = IF l.root = <<>> THEN d.root ELSE l.root
        /\ Inherit(l, d).index = IF l.index = <<>> THEN d.index ELSE l.index
        /\ Inherit(l, d).client_max_body_size = IF l.client_max_body_size = 0 THEN d.client_max_body_size
                                                ELSE l.client_max_body_size
        /\ Inherit(l, d).limit_except = IF l.limit_except.methods = {} THEN d.limit_except ELSE l.limit_except
        /\ Inherit(l, d).alias = l.alias /\ Inherit(l, d).internal = l.internal
        /\ Inherit(l, d).return_ = l.return_ /\ Inherit(l, d).path = l.path
    BY <2>2 DEF Inherit
  <2>4. Block(s, n) = Inherit(l, d)
    BY <1>2 DEF Block, l, d
  <2>5. /\ d.root = RootOf(s, 0) /\ d.root \in Path /\ d.limit_except = LimitsOf(s, 0)
        /\ d.client_max_body_size = BodySizeOf(s, 0) /\ d.client_max_body_size \in Nat
        /\ d.index \in Seq(Path) /\ d.index # <<>>
    BY DefaultsFact DEF d
  <2>6. /\ RootOf(s, n) = IF l.root # <<>> THEN l.root ELSE RootOf(s, 0)
        /\ LimitsOf(s, n) = IF l.limit_except.methods # {} THEN l.limit_except ELSE LimitsOf(s, 0)
        /\ BodySizeOf(s, n) = IF l.client_max_body_size # 0 THEN l.client_max_body_size ELSE BodySizeOf(s, 0)
    BY <1>2 DEF RootOf, LimitsOf, BodySizeOf, l
  <2> QED BY <2>2, <2>3, <2>4, <2>5, <2>6 DEF l
<1> QED BY <1>1, <1>2

\* What a peer can ask for, of which Requests are some.
Askable == {q \in [path : Path, method : STRING, length : Nat] : q.path # <<>> /\ Head(q.path) = "/"}

LEMMA RequestsAskable == Requests \subseteq Askable
BY RequestsAssumption DEF Askable

\* The location chosen is the longest that matches.
LEMMA LongestChosen ==
  ASSUME NEW s \in Servers, NEW q \in Askable
  PROVE  /\ Chosen(s, Uri(s, q)) = Longest(s, q)
         /\ Longest(s, q) \in {0} \cup DOMAIN s.location
<1> DEFINE uri == Uri(s, q)
           D == DOMAIN s.location
           n == Longest(s, q)
<1>1. q.path \in Path /\ uri \in Path
  BY MergedPath DEF Askable, Uri
<1>2. Chosen(s, uri) = Best(s, uri, D)
  BY <1>1, ChosenBest
<1>3. Matches(s, q) = Fits(s, uri, D)
  BY DEF Matches, Fits
<1>4. IsBest(s, uri, D, Best(s, uri, D))
  BY <1>1, BestFact
<1>5. IsBest(s, uri, D, n)
  <2>1. CASE Matches(s, q) = {}
    BY <1>3, <2>1 DEF IsBest, Longest
  <2>2. CASE Matches(s, q) # {}
    <3>1. n = CHOOSE i \in Matches(s, q) : \A m \in Matches(s, q) :
                LET a == Len(s.location[i].path)  b == Len(s.location[m].path) IN
                b < a \/ (b = a /\ i <= m)
      BY <2>2 DEF Longest
    <3>2. \E i \in Matches(s, q) : \A m \in Matches(s, q) :
                LET a == Len(s.location[i].path)  b == Len(s.location[m].path) IN
                b < a \/ (b = a /\ i <= m)
      BY <1>3, <1>4, <2>2 DEF IsBest
    <3>3. n \in Matches(s, q) /\ \A m \in Matches(s, q) :
                LET a == Len(s.location[n].path)  b == Len(s.location[m].path) IN
                b < a \/ (b = a /\ n <= m)
      <4> HIDE DEF n
      <4> QED BY <3>1, <3>2
    <3> QED BY <1>3, <2>2, <3>3 DEF IsBest
  <2> QED BY <2>1, <2>2
<1>6. n = Best(s, uri, D)
  BY <1>1, <1>5, BestFact
<1>7. n \in {0} \cup D
  BY <1>5 DEF IsBest, Fits
<1> QED BY <1>2, <1>6, <1>7

----------------------------------------------------------------------------
(* Choosing                                                                *)

\* A Client, member by member: dir is "yes" if it is a directory that is sent.
Rec(s, n, r, st, cn, dir, a) ==
    [server_ref |-> s, root_dir |-> r, location_ref |-> n, content_name |-> cn,
     status_code |-> st, is_directory |-> (dir = "yes"), answer |-> a]

LEMMA Content ==
  ASSUME NEW s, NEW n, NEW r, NEW st, NEW cn, NEW dir, NEW a, NEW v, NEW w
  PROVE  AddContent(Rec(s, n, r, st, cn, dir, a), v, w) = Rec(s, n, r, v, w, dir, a)
<1> DEFINE c == Rec(s, n, r, st, cn, dir, a)
           d == Rec(s, n, r, v, cn, dir, a)
<1>1. [c EXCEPT !.status_code = v] = d
  BY DEF Rec
<1>2. [d EXCEPT !.content_name = w] = Rec(s, n, r, v, w, dir, a)
  BY DEF Rec
<1> HIDE DEF c, d
<1>3. AddContent(c, v, w) = [[c EXCEPT !.status_code = v] EXCEPT !.content_name = w]
  BY DEF AddContent
<1>4. AddContent(c, v, w) = Rec(s, n, r, v, w, dir, a)
  BY <1>1, <1>2, <1>3
<1> QED BY <1>4 DEF c

LEMMA Directory ==
  ASSUME NEW s, NEW n, NEW r, NEW st, NEW cn, NEW dir, NEW a, NEW w
  PROVE  AddDir(Rec(s, n, r, st, cn, dir, a), w) = Rec(s, n, r, 200, w, "yes", a)
<1> DEFINE c == AddContent(Rec(s, n, r, st, cn, dir, a), 200, w)
           d == Rec(s, n, r, 200, w, dir, a)
<1>1. c = d
  BY Content
<1>2. [d EXCEPT !.is_directory = TRUE] = Rec(s, n, r, 200, w, "yes", a)
  <2> DEFINE e(v) == [server_ref |-> s, root_dir |-> r, location_ref |-> n, content_name |-> w,
                      status_code |-> 200, is_directory |-> v, answer |-> a]
  <2>1. \A v : [d EXCEPT !.is_directory = v] = e(v)
    BY DEF Rec
  <2>2. e(TRUE) = e("yes" = "yes")
    <3>1. TRUE <=> ("yes" = "yes")
      OBVIOUS
    <3> QED BY <3>1, Zenon
  <2>3. Rec(s, n, r, 200, w, "yes", a) = e("yes" = "yes")
    BY Zenon DEF Rec
  <2> HIDE DEF d, e
  <2> QED BY <2>1, <2>2, <2>3, Zenon
<1>3. AddDir(Rec(s, n, r, st, cn, dir, a), w) = [c EXCEPT !.is_directory = TRUE]
  BY DEF AddDir, AddContent
<1> HIDE DEF c, d
<1> QED BY <1>1, <1>2, <1>3, Zenon

LEMMA Getters ==
  ASSUME NEW s, NEW n, NEW r, NEW st, NEW cn, NEW dir, NEW a
  PROVE  LET c == Rec(s, n, r, st, cn, dir, a) IN
         /\ c.server_ref = s /\ c.location_ref = n /\ c.root_dir = r
         /\ c.status_code = st /\ c.content_name = cn /\ c.is_directory = (dir = "yes") /\ c.answer = a
BY DEF Rec

\* What searchSingleFile() comes to, and under which name.
Status(type) == CASE type = "directory" -> 308 [] type = "file" -> 200 [] OTHER -> 404
Name(type, fname) ==
    CASE type = "directory" -> Append(fname, "/") [] type = "file" -> fname [] OTHER -> <<>>

LEMMA SearchFact ==
  ASSUME NEW s, NEW n, NEW r, NEW st, NEW cn, NEW dir, NEW a, NEW root_, NEW fname
  PROVE  LET type == Lookup(root_ \o fname) IN
         SearchSingleFile(Rec(s, n, r, st, cn, dir, a), root_, fname)
           = Rec(s, n, root_, Status(type), Name(type, fname), dir, a)
<1> DEFINE type == Lookup(root_ \o fname)
           c == Rec(s, n, root_, st, cn, dir, a)
<1>0. [Rec(s, n, r, st, cn, dir, a) EXCEPT !.root_dir = root_] = c
  BY DEF Rec
<1>1. SearchSingleFile(Rec(s, n, r, st, cn, dir, a), root_, fname) = Located(c, type, fname)
  <2> DEFINE d == Rec(s, n, r, st, cn, dir, a)
  <2>1. [d EXCEPT !.root_dir = root_] = c
    BY <1>0
  <2> HIDE DEF c, d
  <2>2. SearchSingleFile(d, root_, fname) = Located(c, type, fname)
    BY <2>1 DEF SearchSingleFile
  <2> QED BY <2>2 DEF d
<1> HIDE DEF type
<1>2. \A v, w : AddContent(c, v, w) = Rec(s, n, root_, v, w, dir, a)
  BY Content
<1> HIDE DEF c
<1>3. Located(c, type, fname) = Rec(s, n, root_, Status(type), Name(type, fname), dir, a)
  BY <1>2 DEF Located, Status, Name
<1> QED BY <1>1, <1>3 DEF type

\* What the indexes are under root_, and of those in t the first that there is.
Types(b, root_) == [i \in DOMAIN b.index |-> Lookup(root_ \o b.index[i])]
Existing(types, t) == {i \in t : Status(types[i]) \in {200, 308}}
FirstOf(types, t) == CHOOSE i \in Existing(types, t) : \A j \in Existing(types, t) : i <= j
IndexStatus(types, t) == IF Existing(types, t) = {} THEN 404 ELSE Status(types[FirstOf(types, t)])
IndexName(types, t, index) ==
    IF Existing(types, t) = {} THEN <<>> ELSE Name(types[FirstOf(types, t)], index[FirstOf(types, t)])

FoundStatus(b, root_) == IndexStatus(Types(b, root_), DOMAIN b.index)
FoundName(b, root_) == IndexName(Types(b, root_), DOMAIN b.index, b.index)

\* Whatever the Client was, the search for an index leaves it with st and cn.
SearchesTo(b, root_, st, cn) ==
    \A s, n, r, x, y, dir, a :
        SearchIndexes(Rec(s, n, r, x, y, dir, a), b, root_) = Rec(s, n, root_, st, cn, dir, a)

\* The search for an index finds the first that there is.
LEMMA IndexesFact ==
  ASSUME NEW b, b.index \in Seq(Path), b.index # <<>>, NEW root_
  PROVE  LET st == FoundStatus(b, root_)
             cn == FoundName(b, root_)
         IN  /\ st \in {200, 308, 404} /\ ("/" \in STRING => cn \in Path)
             /\ st = 200 => cn \in Path /\ Lookup(root_ \o cn) = "file"
             /\ st = 308 => \E i \in DOMAIN b.index : cn = Append(b.index[i], "/")
             /\ SearchesTo(b, root_, st, cn)
<1> DEFINE k == Len(b.index)
           types == Types(b, root_)
           Type(i) == types[i]
           There(t) == {i \in t : Status(Type(i)) \in {200, 308}}
           First(t) == CHOOSE i \in There(t) : \A j \in There(t) : i <= j
           St(t) == IF There(t) = {} THEN 404 ELSE Status(Type(First(t)))
           Cn(t) == IF There(t) = {} THEN <<>> ELSE Name(Type(First(t)), b.index[First(t)])
<1>1. k \in Nat \ {0} /\ DOMAIN b.index = 1 .. k /\ \A i \in 1 .. k : b.index[i] \in Path
  BY EmptySeq
<1>a. \A i \in 1 .. k : Type(i) = Lookup(root_ \o b.index[i])
  BY <1>1 DEF Types
<1> HIDE DEF types
<1>2. \A i : Status(Type(i)) \in {200, 308, 404} /\ (Status(Type(i)) = 404 => Name(Type(i), b.index[i]) = <<>>)
  BY DEF Status, Name
<1>3. ASSUME NEW t \in SUBSET (1 .. k), There(t) # {}
      PROVE  First(t) \in There(t) /\ \A j \in There(t) : First(t) <= j
  <2>1. There(t) \subseteq Nat
    <3>1. There(t) \subseteq t
      OBVIOUS
    <3>2. t \subseteq Nat
      BY <1>1
    <3> HIDE DEF There
    <3> QED BY <3>1, <3>2
  <2> HIDE DEF There
  <2>2. \E i \in There(t) : \A j \in There(t) : i <= j
    BY <1>3, <2>1, Least
  <2> QED BY <2>2
<1>4. ASSUME NEW t \in SUBSET (1 .. k), t # {}
      PROVE  /\ Max(t) \in t /\ t \ {Max(t)} \in SUBSET (1 .. k)
             /\ IF St(t \ {Max(t)}) \in {200, 308} THEN St(t) = St(t \ {Max(t)}) /\ Cn(t) = Cn(t \ {Max(t)})
                ELSE St(t) = Status(Type(Max(t))) /\ Cn(t) = Name(Type(Max(t)), b.index[Max(t)])
  <2> DEFINE x == Max(t)
             u == t \ {x}
  <2>1. x \in t /\ u \in SUBSET (1 .. k) /\ \A i \in t : i <= x
    <3>1. t \subseteq 0 .. k
      BY <1>1
    <3> QED BY <1>1, <1>4, <3>1, Greatest
  <2>2. t = u \cup {x} /\ x \in Nat /\ \A i \in t : i \in Nat
    <3>1. \A i \in 1 .. k : i \in Nat
      OBVIOUS
    <3>2. t = u \cup {x}
      BY <2>1
    <3> QED BY <2>1, <3>1, <3>2
  <2> HIDE DEF x, u
  <2>3. There(t) = There(u) \cup (IF Status(Type(x)) \in {200, 308} THEN {x} ELSE {})
    BY <2>2
  <2>4. There(u) # {} => St(u) \in {200, 308}
    BY <1>3, <2>1
  <2>5. There(u) = {} => St(u) = 404
    OBVIOUS
  <2> HIDE DEF There
  <2>6. CASE There(u) # {}
    <3>1. First(u) \in There(u) /\ \A j \in There(u) : First(u) <= j
      BY <1>3, <2>1, <2>6
    <3>2. First(u) \in t
      BY <2>2, <3>1 DEF There
    <3>3. First(u) \in There(t) /\ \A j \in There(t) : First(u) <= j
      <4>1. First(u) \in There(t)
        BY <2>3, <3>1
      <4>2. ASSUME NEW j \in There(t) PROVE First(u) <= j
        <5>1. j \in There(u) \/ j = x
          BY <2>3
        <5> QED BY <2>1, <3>1, <3>2, <5>1
      <4> QED BY <4>1, <4>2
    <3>4. First(t) \in There(t) /\ \A j \in There(t) : First(t) <= j
      BY <1>3, <3>3
    <3>5. \A j \in There(t) : j \in Nat
      BY <2>2 DEF There
    <3> HIDE DEF First
    <3>6. First(t) = First(u)
      BY <3>3, <3>4, <3>5
    <3> QED BY <2>1, <2>4, <2>6, <3>3, <3>6 DEF x, u
  <2>7. CASE There(u) = {} /\ Status(Type(x)) \in {200, 308}
    <3>1. There(t) = {x}
      BY <2>3, <2>7
    <3>2. First(t) \in There(t)
      BY <1>3, <3>1
    <3> HIDE DEF First
    <3>3. First(t) = x
      BY <3>1, <3>2
    <3> QED BY <2>1, <2>5, <2>7, <3>1, <3>3 DEF x, u
  <2>8. CASE There(u) = {} /\ Status(Type(x)) \notin {200, 308}
    <3>1. There(t) = {}
      BY <2>3, <2>8
    <3>2. Status(Type(x)) = 404 /\ Name(Type(x), b.index[x]) = <<>>
      BY <1>2, <2>8
    <3> QED BY <2>1, <2>5, <2>8, <3>1, <3>2 DEF x, u
  <2> QED BY <2>6, <2>7, <2>8
<1>5. St({}) = 404 /\ Cn({}) = <<>>
  OBVIOUS
<1> DEFINE all == 1 .. k
<1>6. /\ St(all) \in {200, 308, 404} /\ ("/" \in STRING => Cn(all) \in Path)
      /\ St(all) = 200 => Cn(all) \in Path /\ Lookup(root_ \o Cn(all)) = "file"
      /\ St(all) = 308 => \E i \in 1 .. k : Cn(all) = Append(b.index[i], "/")
  <2>1. CASE There(all) = {}
    BY <2>1 DEF Path
  <2>2. CASE There(all) # {}
    <3>1. First(all) \in There(all)
      BY <1>3, <2>2
    <3> DEFINE i == First(all)
    <3>2. i \in 1 .. k
      BY <3>1
    <3> HIDE DEF First, There
    <3>3. St(all) = Status(Type(i)) /\ Cn(all) = Name(Type(i), b.index[i])
      BY <2>2
    <3>4. /\ Status(Type(i)) = 200 => Type(i) = "file" /\ Name(Type(i), b.index[i]) = b.index[i]
          /\ Status(Type(i)) = 308 => Name(Type(i), b.index[i]) = Append(b.index[i], "/")
          /\ Status(Type(i)) = 404 => Name(Type(i), b.index[i]) = <<>>
      BY DEF Status, Name
    <3>5. b.index[i] \in Path
      BY <1>1, <3>2
    <3>6. ("/" \in STRING => Append(b.index[i], "/") \in Path) /\ <<>> \in Path
      BY <3>5 DEF Path
    <3>7. Status(Type(i)) \in {200, 308, 404} /\ Type(i) = Lookup(root_ \o b.index[i])
      BY <1>a, <1>2, <3>2
    <3> HIDE DEF St, Cn, Type, i, all
    <3>8. CASE Status(Type(i)) = 200
      BY <3>3, <3>4, <3>5, <3>7, <3>8
    <3>9. CASE Status(Type(i)) = 308
      <4>1. St(all) = 308 /\ Cn(all) = Append(b.index[i], "/")
        BY <3>3, <3>4, <3>9
      <4> QED BY <3>2, <3>6, <4>1
    <3>10. CASE Status(Type(i)) = 404
      BY <3>3, <3>4, <3>6, <3>10
    <3> QED BY <3>7, <3>8, <3>9, <3>10
  <2> QED BY <2>1, <2>2
<1> HIDE DEF St, Cn
<1>7. ASSUME NEW s, NEW n, NEW r, NEW x, NEW y, NEW dir, NEW a
      PROVE  SearchIndexes(Rec(s, n, r, x, y, dir, a), b, root_) = Rec(s, n, root_, St(all), Cn(all), dir, a)
  <2> DEFINE c == Rec(s, n, r, x, y, dir, a)
             D == DOMAIN b.index
             Body(t, g) == IF t = {} THEN AddContent(c, 404, <<>>)
                           ELSE IF Found(g[t \ {Max(t)}]) THEN g[t \ {Max(t)}]
                                ELSE SearchSingleFile(g[t \ {Max(t)}], root_, b.index[Max(t)])
             Loop == CHOOSE f : f = [t \in SUBSET D |-> Body(t, f)]
             V(t) == Rec(s, n, IF t = {} THEN r ELSE root_, St(t), Cn(t), dir, a)
             W == [t \in SUBSET D |-> V(t)]
  <2>1. SearchIndexes(c, b, root_) = Loop[D]
    BY DEF SearchIndexes, FoldLeft, MapThenFoldSet
  <2>2. AddContent(c, 404, <<>>) = Rec(s, n, r, 404, <<>>, dir, a)
    BY Content
  <2>3. ASSUME NEW t \in SUBSET D PROVE W[t] = Body(t, W)
    <3>1. CASE t = {}
      BY <1>5, <2>2, <3>1
    <3>2. CASE t # {}
      <4> DEFINE u == t \ {Max(t)}
                 ru == IF u = {} THEN r ELSE root_
      <4>1. t \in SUBSET (1 .. k)
        BY <1>1
      <4>2. u \in SUBSET D
        BY <1>1, <1>4, <3>2, <4>1
      <4>3. W[u] = Rec(s, n, ru, St(u), Cn(u), dir, a) /\ W[t] = Rec(s, n, root_, St(t), Cn(t), dir, a)
        BY <3>2, <4>2
      <4>4. Found(W[u]) <=> St(u) \in {200, 308}
        BY <4>3, Getters DEF Found
      <4>5. CASE St(u) \in {200, 308}
        <5>1. u # {}
          <6>1. St({}) \notin {200, 308}
            BY <1>5
          <6> QED BY <4>5, <6>1
        <5>2. W[t] = W[u]
          BY <1>4, <3>2, <4>1, <4>3, <4>5, <5>1
        <5> HIDE DEF W
        <5> QED BY <3>2, <4>4, <4>5, <5>2
      <4>6. CASE St(u) \notin {200, 308}
        <5>1. SearchSingleFile(W[u], root_, b.index[Max(t)])
                = Rec(s, n, root_, Status(Type(Max(t))), Name(Type(Max(t)), b.index[Max(t)]), dir, a)
          <6>1. Type(Max(t)) = Lookup(root_ \o b.index[Max(t)])
            BY <1>a, <1>4, <3>2, <4>1
          <6> QED BY <4>3, <6>1, SearchFact
        <5>2. W[t] = SearchSingleFile(W[u], root_, b.index[Max(t)])
          BY <1>4, <3>2, <4>1, <4>3, <4>6, <5>1
        <5> HIDE DEF W
        <5> QED BY <3>2, <4>4, <4>6, <5>2
      <4> QED BY <4>5, <4>6
    <3> QED BY <3>1, <3>2
  <2>4. W = [t \in SUBSET D |-> Body(t, W)]
    <3> HIDE DEF Body, V
    <3>1. W = [t \in SUBSET D |-> W[t]]
      OBVIOUS
    <3> QED BY <2>3
  <2>5. Loop = [t \in SUBSET D |-> Body(t, Loop)]
    <3> HIDE DEF Body, W
    <3> QED BY <2>4
  <2>6. Loop[1 .. k] = W[1 .. k]
    <3>1. Loop[{}] = W[{}]
      <4>1. {} \in SUBSET D
        OBVIOUS
      <4>2. Loop[{}] = Body({}, Loop) /\ W[{}] = Body({}, W)
        <5> HIDE DEF Body, W, Loop
        <5> QED BY <2>3, <2>5, <4>1
      <4>3. Body({}, Loop) = Body({}, W)
        <5> HIDE DEF W, Loop
        <5> QED OBVIOUS
      <4> QED BY <4>2, <4>3
    <3>2. ASSUME NEW t \in SUBSET (1 .. k), t # {}, Loop[t \ {Max(t)}] = W[t \ {Max(t)}]
          PROVE  Loop[t] = W[t]
      <4>1. t \in SUBSET D
        BY <1>1
      <4>2. Loop[t] = Body(t, Loop) /\ W[t] = Body(t, W)
        <5> HIDE DEF Body, W, Loop
        <5> QED BY <2>3, <2>5, <4>1
      <4>3. Body(t, Loop) = Body(t, W)
        <5> HIDE DEF W, Loop
        <5> QED BY <3>2
      <4> QED BY <4>2, <4>3
    <3> HIDE DEF Loop, W, Body, k
    <3> QED BY <1>1, <3>1, <3>2, SameFold
  <2>7. 1 .. k # {} /\ D = 1 .. k
    <3>1. 1 \in 1 .. k
      BY <1>1
    <3> QED BY <1>1, <3>1
  <2>8. W[1 .. k] = Rec(s, n, root_, St(1 .. k), Cn(1 .. k), dir, a)
    BY <2>7
  <2> HIDE DEF Loop, W, k
  <2> QED BY <2>1, <2>6, <2>7, <2>8
<1>8. SearchesTo(b, root_, St(all), Cn(all))
  BY <1>7 DEF SearchesTo
<1>9. St(all) = IndexStatus(types, all) /\ Cn(all) = IndexName(types, all, b.index)
  BY DEF St, Cn, IndexStatus, IndexName, Existing, FirstOf
<1>10. DOMAIN b.index = all
  BY <1>1
<1> HIDE DEF all
<1>11. St(all) = FoundStatus(b, root_) /\ Cn(all) = FoundName(b, root_)
  BY <1>9, <1>10 DEF types, FoundStatus, FoundName
<1> QED BY <1>1, <1>6, <1>8, <1>11 DEF all

LEMMA EndsJoined ==
  ASSUME NEW x \in Path, NEW y \in Path, Ends(y)
  PROVE  Ends(x \o y)
<1>1. y \in Seq(STRING) /\ y # <<>> /\ y[Len(y)] = "/" /\ Len(y) \in Nat \ {0} /\ Len(x) \in Nat
  BY EmptySeq DEF Ends, Last, Path
<1>2. Len(x \o y) = Len(x) + Len(y) /\ (x \o y)[Len(x) + Len(y)] = y[Len(y)]
  BY <1>1 DEF Path
<1>3. x \o y # <<>>
  BY <1>1, <1>2
<1> QED BY <1>1, <1>2, <1>3 DEF Ends, Last

\* What is found for a request under root is sent, and is a file there.
Lies(root, st, cn, dir, ro) ==
    (st \in 200 .. 299 /\ dir # "yes") => Lookup(Join(ro, cn)) = "file" /\ IsPrefix(root, Join(ro, cn))

\* Whatever the Client was, resolveUri() leaves it with st, cn, dir and ro.
ResolvesTo(b, uri, stray, st, cn, dir, ro) ==
    \A s, n, r, x, y, a :
        ResolveUri(Rec(s, n, r, x, y, "no", a), b, uri, stray) = Rec(s, n, ro, st, cn, dir, a)

Resolved(b, uri, stray, st, cn, dir, ro) ==
    /\ st \in Nat
    /\ (Ends(b.root) \/ (uri # <<>> /\ Head(uri) = "/")) => Lies(b.root, st, cn, dir, ro)
    /\ ResolvesTo(b, uri, stray, st, cn, dir, ro)

\* What resolveUri() leaves it with.
LEMMA ResolvesAs ==
  ASSUME NEW b, b.index \in Seq(Path), b.index # <<>>, NEW uri, NEW stray
  PROVE  LET root_ == b.root \o uri
             st == FoundStatus(b, root_)
             searched == Ends(uri) \/ (uri = <<>> /\ stray)
         IN
         /\ searched /\ st \in {200, 308} => ResolvesTo(b, uri, stray, st, FoundName(b, root_), "no", root_)
         /\ searched /\ st \notin {200, 308} /\ b.autoindex = "on"
              => ResolvesTo(b, uri, stray, 200, root_, "yes", root_)
         /\ searched /\ st \notin {200, 308} /\ b.autoindex # "on"
              => ResolvesTo(b, uri, stray, 403, <<>>, "no", root_)
         /\ ~searched => ResolvesTo(b, uri, stray, Status(Lookup(root_)), Name(Lookup(root_), uri), "no", b.root)
<1>1. CASE Ends(uri) \/ (uri = <<>> /\ stray)
  <2> DEFINE root_ == b.root \o uri
             st == FoundStatus(b, root_)
             cn == FoundName(b, root_)
  <2> HIDE DEF root_
  <2>2. SearchesTo(b, root_, st, cn)
    BY IndexesFact
  <2> HIDE DEF st, cn
  <2>3. ASSUME NEW s, NEW n, NEW r, NEW x, NEW y, NEW a
        PROVE  ResolveUri(Rec(s, n, r, x, y, "no", a), b, uri, stray)
                 = OrListing(Rec(s, n, root_, st, cn, "no", a), b, root_)
    <3>1. SearchIndexes(Rec(s, n, r, x, y, "no", a), b, root_) = Rec(s, n, root_, st, cn, "no", a)
      BY <2>2 DEF SearchesTo
    <3> QED BY <1>1, <3>1 DEF ResolveUri, root_
  <2>4. CASE st \in {200, 308}
    <3>1. ASSUME NEW s, NEW n, NEW a
          PROVE  OrListing(Rec(s, n, root_, st, cn, "no", a), b, root_) = Rec(s, n, root_, st, cn, "no", a)
      BY <2>4, Getters DEF OrListing, Found
    <3>2. ResolvesTo(b, uri, stray, st, cn, "no", root_)
      BY <2>3, <3>1 DEF ResolvesTo
    <3> QED BY <1>1, <2>4, <3>2 DEF root_, st, cn
  <2>5. CASE st \notin {200, 308} /\ b.autoindex = "on"
    <3>1. ASSUME NEW s, NEW n, NEW a
          PROVE  OrListing(Rec(s, n, root_, st, cn, "no", a), b, root_) = Rec(s, n, root_, 200, root_, "yes", a)
      BY <2>5, Getters, Directory DEF OrListing, Found
    <3>2. ResolvesTo(b, uri, stray, 200, root_, "yes", root_)
      BY <2>3, <3>1 DEF ResolvesTo
    <3> QED BY <1>1, <2>5, <3>2 DEF root_, st, cn
  <2>6. CASE st \notin {200, 308} /\ b.autoindex # "on"
    <3>1. ASSUME NEW s, NEW n, NEW a
          PROVE  OrListing(Rec(s, n, root_, st, cn, "no", a), b, root_) = Rec(s, n, root_, 403, <<>>, "no", a)
      BY <2>6, Getters, Content DEF OrListing, Found
    <3>2. ResolvesTo(b, uri, stray, 403, <<>>, "no", root_)
      BY <2>3, <3>1 DEF ResolvesTo
    <3> QED BY <1>1, <2>6, <3>2 DEF root_, st, cn
  <2> QED BY <2>4, <2>5, <2>6
<1>2. CASE ~(Ends(uri) \/ (uri = <<>> /\ stray))
  <2> DEFINE type == Lookup(b.root \o uri)
  <2>1. ASSUME NEW s, NEW n, NEW r, NEW x, NEW y, NEW a
        PROVE  ResolveUri(Rec(s, n, r, x, y, "no", a), b, uri, stray)
                 = Rec(s, n, b.root, Status(type), Name(type, uri), "no", a)
    BY <1>2, SearchFact DEF ResolveUri
  <2> HIDE DEF type
  <2>2. ResolvesTo(b, uri, stray, Status(type), Name(type, uri), "no", b.root)
    BY <2>1 DEF ResolvesTo
  <2> QED BY <1>2, <2>2 DEF type
<1> QED BY <1>1, <1>2

LEMMA ResolveFact ==
  ASSUME NEW b, b.index \in Seq(Path), b.index # <<>>, b.root \in Path,
         NEW uri \in Path, NEW stray \in BOOLEAN
  PROVE  \E st, cn, dir, ro : Resolved(b, uri, stray, st, cn, dir, ro)
<1> DEFINE root_ == b.root \o uri
           searched == Ends(uri) \/ (uri = <<>> /\ stray)
           st == FoundStatus(b, root_)
           cn == FoundName(b, root_)
           type == Lookup(root_)
<1>1. root_ \in Path
  BY DEF Path
<1>2. /\ st \in {200, 308, 404}
      /\ st = 200 => cn \in Path /\ Lookup(root_ \o cn) = "file"
  BY IndexesFact
<1>3. /\ searched /\ st \in {200, 308} => ResolvesTo(b, uri, stray, st, cn, "no", root_)
      /\ searched /\ st \notin {200, 308} /\ b.autoindex = "on" => ResolvesTo(b, uri, stray, 200, root_, "yes", root_)
      /\ searched /\ st \notin {200, 308} /\ b.autoindex # "on" => ResolvesTo(b, uri, stray, 403, <<>>, "no", root_)
      /\ ~searched => ResolvesTo(b, uri, stray, Status(type), Name(type, uri), "no", b.root)
  BY ResolvesAs
<1> HIDE DEF st, cn, type, root_
<1>4. CASE searched /\ st \in {200, 308}
  <2>1. ASSUME Ends(b.root) \/ (uri # <<>> /\ Head(uri) = "/")
        PROVE  Lies(b.root, st, cn, "no", root_)
    <3>1. CASE st = 200
      <4>1. Ends(root_)
        <5>1. CASE Ends(uri)
          BY <5>1, EndsJoined DEF root_
        <5>2. CASE uri = <<>>
          <6>1. root_ = b.root
            BY <5>2 DEF root_, Path
          <6> QED BY <2>1, <5>2, <6>1
        <5> QED BY <1>4, <5>1, <5>2
      <4>2. Lookup(Join(root_, cn)) = "file"
        BY <1>1, <1>2, <3>1, <4>1, JoinMerged
      <4>3. IsPrefix(b.root, Join(root_, cn))
        BY <1>2, <3>1, JoinedUnder DEF root_
      <4> QED BY <4>2, <4>3 DEF Lies
    <3>2. CASE st = 308
      BY <3>2 DEF Lies
    <3> QED BY <1>4, <3>1, <3>2
  <2>2. st \in Nat
    BY <1>2
  <2> HIDE DEF searched
  <2> QED BY <1>3, <1>4, <2>1, <2>2 DEF Resolved
<1>5. CASE searched /\ st \notin {200, 308} /\ b.autoindex = "on"
  <2>1. Lies(b.root, 200, root_, "yes", root_) /\ 200 \in Nat
    BY DEF Lies
  <2> HIDE DEF searched
  <2> QED BY <1>3, <1>5, <2>1 DEF Resolved
<1>6. CASE searched /\ st \notin {200, 308} /\ b.autoindex # "on"
  <2>1. Lies(b.root, 403, <<>>, "no", root_) /\ 403 \in Nat
    BY DEF Lies
  <2> HIDE DEF searched
  <2> QED BY <1>3, <1>6, <2>1 DEF Resolved
<1>7. CASE ~searched
  <2>1. Status(type) \in {200, 308, 404} /\ (Status(type) = 200 => type = "file" /\ Name(type, uri) = uri)
    BY DEF Status, Name
  <2>2. ASSUME Ends(b.root) \/ (uri # <<>> /\ Head(uri) = "/")
        PROVE  Lies(b.root, Status(type), Name(type, uri), "no", b.root)
    <3>1. CASE Status(type) = 200
      <4>1. Lookup(Join(b.root, uri)) = "file"
        BY <2>1, <2>2, <3>1, JoinMerged DEF type, root_
      <4>2. IsPrefix(b.root, Join(b.root, uri))
        BY JoinedUnder
      <4>3. Name(type, uri) = uri
        BY <2>1, <3>1
      <4> QED BY <4>1, <4>2, <4>3 DEF Lies
    <3>2. CASE Status(type) # 200
      <4> DEFINE code == Status(type)
      <4>1. code \in {308, 404}
        BY <2>1, <3>2
      <4> HIDE DEF code
      <4>2. code \notin 200 .. 299
        BY <4>1
      <4> QED BY <4>2 DEF Lies, code
    <3> QED BY <3>1, <3>2
  <2>3. Status(type) \in Nat
    BY <2>1
  <2> HIDE DEF searched
  <2> QED BY <1>3, <1>7, <2>2, <2>3 DEF Resolved
<1> QED BY <1>4, <1>5, <1>6, <1>7

\* The path that is looked for under the root, in the block that a request is for.
LocationPath(s, n) == IF n = 0 THEN <<>> ELSE s.location[n].path
Under(s, n, q) ==
    IF Block(s, n).alias THEN SubSeq(q.path, Len(LocationPath(s, n)) + 1, Len(q.path)) ELSE q.path

LEMMA UnderFact ==
  ASSUME NEW s \in Servers, NEW n \in {0} \cup DOMAIN s.location, NEW q \in Askable
  PROVE  /\ Under(s, n, q) \in Path
         /\ AliasesEnd => \/ Ends(Block(s, n).root)
                          \/ Under(s, n, q) # <<>> /\ Head(Under(s, n, q)) = "/"
<1>1. q.path \in Seq(STRING) /\ q.path # <<>> /\ Head(q.path) = "/"
  BY DEF Askable, Path
<1>2. Len(LocationPath(s, n)) \in Nat
  <2>1. CASE n = 0
    BY <2>1 DEF LocationPath
  <2>2. CASE n # 0
    BY <2>2, LocationsFact DEF LocationPath
  <2> QED BY <2>1, <2>2
<1> DEFINE l == Len(LocationPath(s, n))
           p == q.path
<1>3. SubSeq(p, l + 1, Len(p)) \in Seq(STRING)
  <2> HIDE DEF l, p
  <2>1. p \in Seq(STRING) /\ l \in Nat
    BY <1>1, <1>2 DEF l, p
  <2>2. \A i \in (l + 1) .. Len(p) : p[i] \in STRING
    BY <2>1
  <2> QED BY <2>1, <2>2, SubSeqProperties
<1>4. CASE n = 0
  <2>1. l = 0
    BY <1>4 DEF LocationPath
  <2>2. SubSeq(p, l + 1, Len(p)) = p
    BY <1>1, <2>1
  <2>3. Under(s, n, q) = p
    BY <2>2 DEF Under
  <2> QED BY <1>1, <2>3 DEF Path
<1>5. CASE n # 0
  <2>1. n \in DOMAIN s.location /\ Block(s, n).alias = s.location[n].alias /\ Block(s, n).root = RootOf(s, n)
    BY <1>5, BlockFact
  <2>2. CASE Block(s, n).alias
    <3>1. AliasesEnd => Ends(Block(s, n).root)
      BY <2>1, <2>2 DEF AliasesEnd
    <3> QED BY <1>3, <2>2, <3>1 DEF Under, Path
  <2>3. CASE ~Block(s, n).alias
    BY <1>1, <2>3 DEF Under, Path
  <2> QED BY <2>2, <2>3
<1> QED BY <1>4, <1>5

\* Whatever the Client was, InfoBlock::routingClient() leaves it with st, cn, dir and
\* ro, or with the directory it had where kept is "yes".
Leads(s, q, stray, st, cn, dir, ro, kept) ==
    LET n == Longest(s, q) IN
    \A r, x, y, a :
        RouteInfoBlock(Rec(s, n, r, x, y, "no", a), Block(s, n), LocationPath(s, n), q, stray)
          = Rec(s, n, IF kept = "yes" THEN r ELSE ro, st, cn, dir, a)

\* What it leaves it with.
LEMMA LeadsAs ==
  ASSUME NEW s \in Servers, NEW q \in Askable, NEW stray
  PROVE  LET n == Longest(s, q)
             b == Block(s, n)
             access == CheckAccess(b, q.method)
         IN
         /\ access \in {200, 403, 405}
         /\ access # 200 => Leads(s, q, stray, access, <<>>, "no", <<>>, "yes")
         /\ access = 200 /\ Lookup(b.root) # "directory" => Leads(s, q, stray, 404, <<>>, "no", <<>>, "yes")
         /\ access = 200 /\ Lookup(b.root) = "directory"
              => \A st, cn, dir, ro :
                   ResolvesTo(b, Under(s, n, q), stray, st, cn, dir, ro) => Leads(s, q, stray, st, cn, dir, ro, "no")
<1> DEFINE n == Longest(s, q)
           b == Block(s, n)
           access == CheckAccess(b, q.method)
           uri == Under(s, n, q)
<1>1. access \in {200, 403, 405}
  BY DEF CheckAccess, Access
<1> HIDE DEF n, b, access, uri
<1>2. \A c : RouteInfoBlock(c, b, LocationPath(s, n), q, stray)
               = IF access > 200 THEN AddContent(c, access, <<>>)
                 ELSE IF Lookup(b.root) # "directory" THEN AddContent(c, 404, <<>>)
                 ELSE ResolveUri(c, b, uri, stray)
  BY DEF RouteInfoBlock, access, uri, Under, b
<1>3. ASSUME access # 200 PROVE Leads(s, q, stray, access, <<>>, "no", <<>>, "yes")
  <2>1. ASSUME NEW r, NEW x, NEW y, NEW a
        PROVE  RouteInfoBlock(Rec(s, n, r, x, y, "no", a), b, LocationPath(s, n), q, stray)
                 = Rec(s, n, r, access, <<>>, "no", a)
    BY <1>1, <1>2, <1>3, Content
  <2> QED BY <2>1 DEF Leads, n, b
<1>4. ASSUME access = 200, Lookup(b.root) # "directory"
      PROVE  Leads(s, q, stray, 404, <<>>, "no", <<>>, "yes")
  <2>1. ASSUME NEW r, NEW x, NEW y, NEW a
        PROVE  RouteInfoBlock(Rec(s, n, r, x, y, "no", a), b, LocationPath(s, n), q, stray)
                 = Rec(s, n, r, 404, <<>>, "no", a)
    BY <1>2, <1>4, Content
  <2> QED BY <2>1 DEF Leads, n, b
<1>5. ASSUME access = 200, Lookup(b.root) = "directory", NEW st, NEW cn, NEW dir, NEW ro,
             ResolvesTo(b, uri, stray, st, cn, dir, ro)
      PROVE  Leads(s, q, stray, st, cn, dir, ro, "no")
  <2>1. ASSUME NEW r, NEW x, NEW y, NEW a
        PROVE  RouteInfoBlock(Rec(s, n, r, x, y, "no", a), b, LocationPath(s, n), q, stray)
                 = Rec(s, n, ro, st, cn, dir, a)
    <3>1. ResolveUri(Rec(s, n, r, x, y, "no", a), b, uri, stray) = Rec(s, n, ro, st, cn, dir, a)
      BY <1>5 DEF ResolvesTo
    <3> QED BY <1>2, <1>5, <3>1
  <2> QED BY <2>1 DEF Leads, n, b
<1> QED BY <1>1, <1>3, <1>4, <1>5 DEF access, b, uri, n

\* Nothing is looked for in the block b: the request is refused there, or has no root.
Shut(b, q) == CheckAccess(b, q.method) # 200 \/ Lookup(b.root) # "directory"

Led(s, q, stray, st, cn, dir, ro, kept) ==
    /\ st \in Nat
    /\ kept = "yes" <=> Shut(Block(s, Longest(s, q)), q)
    /\ st \in 200 .. 399 => CheckAccess(Block(s, Longest(s, q)), q.method) = 200
    /\ st \in 200 .. 299 => kept = "no"
    /\ AliasesEnd => Lies(RootOf(s, Longest(s, q)), st, cn, dir, ro)
    /\ Leads(s, q, stray, st, cn, dir, ro, kept)

LEMMA InfoBlockFact ==
  ASSUME NEW s \in Servers, NEW q \in Askable, NEW stray \in BOOLEAN
  PROVE  \E st, cn, dir, ro, kept : Led(s, q, stray, st, cn, dir, ro, kept)
<1> DEFINE n == Longest(s, q)
           b == Block(s, n)
           access == CheckAccess(b, q.method)
           uri == Under(s, n, q)
<1>1. n \in {0} \cup DOMAIN s.location
  BY LongestChosen
<1>2. /\ access \in {200, 403, 405}
      /\ access # 200 => Leads(s, q, stray, access, <<>>, "no", <<>>, "yes")
      /\ access = 200 /\ Lookup(b.root) # "directory" => Leads(s, q, stray, 404, <<>>, "no", <<>>, "yes")
      /\ access = 200 /\ Lookup(b.root) = "directory"
           => \A st, cn, dir, ro :
                ResolvesTo(b, uri, stray, st, cn, dir, ro) => Leads(s, q, stray, st, cn, dir, ro, "no")
  BY LeadsAs
<1> HIDE DEF n
<1>3. /\ b.root = RootOf(s, n) /\ b.root \in Path /\ b.index \in Seq(Path) /\ b.index # <<>>
  BY <1>1, BlockFact
<1>4. uri \in Path /\ (AliasesEnd => Ends(b.root) \/ (uri # <<>> /\ Head(uri) = "/"))
  BY <1>1, UnderFact
<1> HIDE DEF b, access, uri
<1>8. Shut(Block(s, Longest(s, q)), q) <=> access # 200 \/ Lookup(b.root) # "directory"
  BY DEF Shut, access, b, n
<1>5. CASE access # 200
  <2>1. access \in Nat /\ access \notin 200 .. 399 /\ access \notin 200 .. 299
    BY <1>2, <1>5
  <2>2. Lies(RootOf(s, Longest(s, q)), access, <<>>, "no", <<>>)
    BY <2>1 DEF Lies
  <2>3. Led(s, q, stray, access, <<>>, "no", <<>>, "yes")
    BY <1>2, <1>5, <1>8, <2>1, <2>2 DEF Led
  <2> QED BY <2>3
<1>6. CASE access = 200 /\ Lookup(b.root) # "directory"
  <2>1. Lies(RootOf(s, Longest(s, q)), 404, <<>>, "no", <<>>)
    BY DEF Lies
  <2>2. 404 \in Nat /\ 404 \notin 200 .. 399 /\ 404 \notin 200 .. 299
    OBVIOUS
  <2>3. Led(s, q, stray, 404, <<>>, "no", <<>>, "yes")
    BY <1>2, <1>6, <1>8, <2>1, <2>2 DEF Led
  <2> QED BY <2>3
<1>7. CASE access = 200 /\ Lookup(b.root) = "directory"
  <2>1. PICK st, cn, dir, ro : Resolved(b, uri, stray, st, cn, dir, ro)
    BY <1>3, <1>4, ResolveFact
  <2>2. Leads(s, q, stray, st, cn, dir, ro, "no")
    BY <1>2, <1>7, <2>1 DEF Resolved
  <2>3. AliasesEnd => Lies(RootOf(s, n), st, cn, dir, ro)
    BY <1>3, <1>4, <2>1 DEF Resolved
  <2>4. st \in Nat
    BY <2>1 DEF Resolved
  <2>5. ~("no" = "yes")
    OBVIOUS
  <2> QED BY <1>7, <1>8, <2>2, <2>3, <2>4, <2>5 DEF Led, access, b, n
<1> QED BY <1>2, <1>5, <1>6, <1>7

\* However it was routed before, ServerInfo::routingClient() leaves the Client
\* with st, cn, dir and ro, or with the directory it had where kept is "yes".
Decides(s, q, stray, st, cn, dir, ro, kept) ==
    \A m, r, a :
        RoutingClient(Rec(s, m, r, 0, <<>>, "no", a), q, stray)
          = Rec(s, Longest(s, q), IF kept = "yes" THEN r ELSE ro, st, cn, dir, a)

\* What it leaves it with.
LEMMA DecidesAs ==
  ASSUME NEW s \in Servers, NEW q \in Askable, NEW stray
  PROVE  LET n == Longest(s, q)
             b == Block(s, n)
             to == IF b.return_.code \in 300 .. 399 THEN b.return_.uri ELSE <<>>
         IN
         /\ n # 0 /\ b.internal => Decides(s, q, stray, 403, <<>>, "no", <<>>, "yes")
         /\ n # 0 /\ ~b.internal /\ b.return_.code > 0
              => Decides(s, q, stray, b.return_.code, to, "no", <<>>, "yes")
         /\ n = 0 \/ (~b.internal /\ ~(b.return_.code > 0))
              => \A st, cn, dir, ro, kept :
                   Leads(s, q, stray, st, cn, dir, ro, kept) => Decides(s, q, stray, st, cn, dir, ro, kept)
<1> DEFINE n == Longest(s, q)
           b == Block(s, n)
<1>1. n \in {0} \cup DOMAIN s.location /\ Chosen(s, Uri(s, q)) = n
  BY LongestChosen
<1> HIDE DEF n
<1>2. n # 0 => b.path = LocationPath(s, n)
  BY <1>1, BlockFact DEF LocationPath
<1>3. ASSUME NEW m, NEW r, NEW a
      PROVE  RoutingClient(Rec(s, m, r, 0, <<>>, "no", a), q, stray)
               = RouteChosen(Rec(s, n, r, 0, <<>>, "no", a), q, stray)
  <2> DEFINE c == Rec(s, m, r, 0, <<>>, "no", a)
  <2>1. [c EXCEPT !.location_ref = n] = Rec(s, n, r, 0, <<>>, "no", a)
    BY DEF Rec
  <2>2. c.server_ref = s
    BY Getters
  <2> HIDE DEF c
  <2>3. RoutingClient(c, q, stray) = RouteChosen([c EXCEPT !.location_ref = n], q, stray)
    BY <1>1, <2>2 DEF RoutingClient
  <2> QED BY <2>1, <2>3 DEF c
<1>4. ASSUME NEW r, NEW a
      PROVE  LET c == Rec(s, n, r, 0, <<>>, "no", a) IN
             RouteChosen(c, q, stray)
               = IF n = 0 THEN RouteInfoBlock(c, b, LocationPath(s, n), q, stray)
                 ELSE RouteLocation(c, b, q, stray)
  <2> DEFINE c == Rec(s, n, r, 0, <<>>, "no", a)
  <2>1. c.server_ref = s /\ c.location_ref = n
    BY Getters
  <2> HIDE DEF c
  <2>2. InForce(c) = b
    BY <2>1 DEF InForce
  <2> HIDE DEF b
  <2>3. RouteChosen(c, q, stray)
               = IF n = 0 THEN RouteInfoBlock(c, b, LocationPath(s, n), q, stray)
                 ELSE RouteLocation(c, b, q, stray)
    BY <2>1, <2>2 DEF RouteChosen, LocationPath
  <2> QED BY <2>3 DEF c
<1> HIDE DEF b
<1>5. ASSUME n # 0, b.internal PROVE Decides(s, q, stray, 403, <<>>, "no", <<>>, "yes")
  <2>1. ASSUME NEW m, NEW r, NEW a
        PROVE  RoutingClient(Rec(s, m, r, 0, <<>>, "no", a), q, stray) = Rec(s, n, r, 403, <<>>, "no", a)
    <3> DEFINE c == Rec(s, n, r, 0, <<>>, "no", a)
    <3>1. AddContent(c, 403, <<>>) = Rec(s, n, r, 403, <<>>, "no", a)
      BY Content
    <3>2. RoutingClient(Rec(s, m, r, 0, <<>>, "no", a), q, stray) = RouteLocation(c, b, q, stray)
      BY <1>3, <1>4, <1>5
    <3> HIDE DEF c
    <3> QED BY <1>5, <3>1, <3>2 DEF RouteLocation
  <2> QED BY <2>1 DEF Decides, n
<1>6. ASSUME n # 0, ~b.internal, b.return_.code > 0
      PROVE  Decides(s, q, stray, b.return_.code, IF b.return_.code \in 300 .. 399 THEN b.return_.uri ELSE <<>>,
                     "no", <<>>, "yes")
  <2> DEFINE code == b.return_.code
             to == IF b.return_.code \in 300 .. 399 THEN b.return_.uri ELSE <<>>
  <2>1. ASSUME NEW m, NEW r, NEW a
        PROVE  RoutingClient(Rec(s, m, r, 0, <<>>, "no", a), q, stray) = Rec(s, n, r, code, to, "no", a)
    <3> DEFINE c == Rec(s, n, r, 0, <<>>, "no", a)
    <3>1. AddContent(c, code, to) = Rec(s, n, r, code, to, "no", a)
      BY Content
    <3>2. RoutingClient(Rec(s, m, r, 0, <<>>, "no", a), q, stray) = RouteLocation(c, b, q, stray)
      BY <1>3, <1>4, <1>6
    <3> HIDE DEF c
    <3> QED BY <1>6, <3>1, <3>2 DEF RouteLocation
  <2> QED BY <2>1 DEF Decides, n
<1>7. ASSUME n = 0 \/ (~b.internal /\ ~(b.return_.code > 0)),
             NEW st, NEW cn, NEW dir, NEW ro, NEW kept, Leads(s, q, stray, st, cn, dir, ro, kept)
      PROVE  Decides(s, q, stray, st, cn, dir, ro, kept)
  <2>1. ASSUME NEW m, NEW r, NEW a
        PROVE  RoutingClient(Rec(s, m, r, 0, <<>>, "no", a), q, stray)
                 = Rec(s, n, IF kept = "yes" THEN r ELSE ro, st, cn, dir, a)
    <3> DEFINE c == Rec(s, n, r, 0, <<>>, "no", a)
    <3>1. RouteInfoBlock(c, b, LocationPath(s, n), q, stray)
            = Rec(s, n, IF kept = "yes" THEN r ELSE ro, st, cn, dir, a)
      BY <1>7 DEF Leads, n, b
    <3>2. RoutingClient(Rec(s, m, r, 0, <<>>, "no", a), q, stray) = RouteChosen(c, q, stray)
      BY <1>3
    <3>3. RouteChosen(c, q, stray) = IF n = 0 THEN RouteInfoBlock(c, b, LocationPath(s, n), q, stray)
                                     ELSE RouteLocation(c, b, q, stray)
      BY <1>4
    <3> HIDE DEF c
    <3>4. CASE n = 0
      BY <3>1, <3>2, <3>3, <3>4
    <3>5. CASE n # 0
      <4>1. RouteLocation(c, b, q, stray) = RouteInfoBlock(c, b, LocationPath(s, n), q, stray)
        BY <1>2, <1>7, <3>5 DEF RouteLocation
      <4> QED BY <3>1, <3>2, <3>3, <3>5, <4>1
    <3> QED BY <3>4, <3>5
  <2> QED BY <2>1 DEF Decides, n
<1> QED BY <1>5, <1>6, <1>7 DEF b, n

\* The longest location of s for q answers by itself, or nothing is looked for there.
Unlooked(s, q) ==
    LET n == Longest(s, q)
        b == Block(s, n)
    IN  (n # 0 /\ (b.internal \/ b.return_.code > 0)) \/ Shut(b, q)

Decided(s, q, stray, st, cn, dir, ro, kept) ==
    /\ st \in Nat
    /\ kept = "yes" <=> Unlooked(s, q)
    /\ Plain(s, Longest(s, q)) /\ st \in 200 .. 399
         => CheckAccess(Block(s, Longest(s, q)), q.method) = 200
    /\ NothingReturned /\ st \in 200 .. 299 => kept = "no"
    /\ NothingReturned /\ AliasesEnd => Lies(RootOf(s, Longest(s, q)), st, cn, dir, ro)
    /\ Decides(s, q, stray, st, cn, dir, ro, kept)

LEMMA RoutingFact ==
  ASSUME NEW s \in Servers, NEW q \in Askable, NEW stray \in BOOLEAN
  PROVE  \E st, cn, dir, ro, kept : Decided(s, q, stray, st, cn, dir, ro, kept)
<1> DEFINE n == Longest(s, q)
           b == Block(s, n)
           code == b.return_.code
           to == IF b.return_.code \in 300 .. 399 THEN b.return_.uri ELSE <<>>
<1>1. n \in {0} \cup DOMAIN s.location
  BY LongestChosen
<1>2. /\ n # 0 /\ b.internal => Decides(s, q, stray, 403, <<>>, "no", <<>>, "yes")
      /\ n # 0 /\ ~b.internal /\ code > 0 => Decides(s, q, stray, code, to, "no", <<>>, "yes")
      /\ n = 0 \/ (~b.internal /\ ~(code > 0))
           => \A st, cn, dir, ro, kept :
                Leads(s, q, stray, st, cn, dir, ro, kept) => Decides(s, q, stray, st, cn, dir, ro, kept)
  BY DecidesAs
<1>7. Unlooked(s, q) <=> (n # 0 /\ (b.internal \/ code > 0)) \/ Shut(Block(s, Longest(s, q)), q)
  BY DEF Unlooked
<1> HIDE DEF n
<1>3. n # 0 => /\ n \in DOMAIN s.location
               /\ b.internal = s.location[n].internal /\ b.return_ = s.location[n].return_
  BY <1>1, BlockFact
<1> HIDE DEF b, to
<1>4. CASE n # 0 /\ b.internal
  <2>1. 403 \in Nat /\ 403 \notin 200 .. 399 /\ 403 \notin 200 .. 299
    OBVIOUS
  <2>2. Lies(RootOf(s, Longest(s, q)), 403, <<>>, "no", <<>>)
    BY <2>1 DEF Lies
  <2> QED BY <1>2, <1>4, <1>7, <2>1, <2>2 DEF Decided
<1>5. CASE n # 0 /\ ~b.internal /\ code > 0
  <2>1. code \in Nat
    <3>1. s.location[n] \in Location /\ b.return_ = s.location[n].return_
      BY <1>3, <1>5, LocationsFact
    <3>2. s.location[n].return_.code \in {0} \cup (100 .. 599)
      BY <3>1 DEF Location
    <3>3. \A i \in {0} \cup (100 .. 599) : i \in Nat
      OBVIOUS
    <3> QED BY <3>1, <3>2, <3>3
  <2>2. ~Plain(s, n)
    BY <1>3, <1>5, <2>1 DEF Plain
  <2>3. NothingReturned => code \notin 200 .. 299
    BY <1>3, <1>5 DEF NothingReturned
  <2>4. NothingReturned => Lies(RootOf(s, Longest(s, q)), code, to, "no", <<>>)
    BY <2>3 DEF Lies
  <2> HIDE DEF code
  <2> QED BY <1>2, <1>5, <1>7, <2>1, <2>2, <2>3, <2>4 DEF Decided, n
<1>6. CASE n = 0 \/ (~b.internal /\ ~(code > 0))
  <2>1. PICK st, cn, dir, ro, kept : Led(s, q, stray, st, cn, dir, ro, kept)
    BY InfoBlockFact
  <2>2. /\ st \in Nat
        /\ st \in 200 .. 399 => CheckAccess(Block(s, Longest(s, q)), q.method) = 200
        /\ st \in 200 .. 299 => kept = "no"
        /\ AliasesEnd => Lies(RootOf(s, Longest(s, q)), st, cn, dir, ro)
        /\ Leads(s, q, stray, st, cn, dir, ro, kept)
        /\ kept = "yes" <=> Shut(Block(s, Longest(s, q)), q)
    BY <2>1 DEF Led
  <2>3. Decides(s, q, stray, st, cn, dir, ro, kept)
    BY <1>2, <1>6, <2>2
  <2>4. kept = "yes" <=> Unlooked(s, q)
    BY <1>6, <1>7, <2>2
  <2> QED BY <2>2, <2>3, <2>4 DEF Decided
<1> QED BY <1>4, <1>5, <1>6

----------------------------------------------------------------------------
(* Answering                                                               *)

\* The answer, of a Client that is given one.
LEMMA AnsweredFact ==
  ASSUME NEW s, NEW n, NEW r, NEW st, NEW cn, NEW dir, NEW a, NEW kind, NEW path
  PROVE  Answered(Rec(s, n, r, st, cn, dir, a), kind, path).answer
           = [status |-> st, kind |-> kind, path |-> path]
<1> DEFINE c == Rec(s, n, r, st, cn, dir, a)
           v == [status |-> c.status_code, kind |-> kind, path |-> path]
<1>1. c.status_code = st
  BY Getters
<1>2. \A w : [c EXCEPT !.answer = w].answer = w
  BY DEF Rec
<1> HIDE DEF c
<1>3. Answered(c, kind, path) = [c EXCEPT !.answer = v]
  BY DEF Answered
<1> HIDE DEF v
<1>4. Answered(c, kind, path).answer = v
  BY <1>2, <1>3
<1> QED BY <1>1, <1>4 DEF v, c

LEMMA AnsweredKeeps ==
  ASSUME NEW s, NEW n, NEW r, NEW st, NEW cn, NEW dir, NEW a, NEW kind, NEW path
  PROVE  Answered(Rec(s, n, r, st, cn, dir, a), kind, path).root_dir = r
<1> DEFINE c == Rec(s, n, r, st, cn, dir, a)
           v == [status |-> c.status_code, kind |-> kind, path |-> path]
<1>1. \A w : [c EXCEPT !.answer = w].root_dir = r
  BY DEF Rec
<1> HIDE DEF c
<1>2. Answered(c, kind, path) = [c EXCEPT !.answer = v]
  BY DEF Answered
<1> HIDE DEF v
<1>3. Answered(c, kind, path).root_dir = r
  BY <1>1, <1>2
<1> QED BY <1>3 DEF c

\* The page of an error, if there is one that can be read and opened.
LEMMA ErrorSends ==
  ASSUME NEW s, NEW n, NEW r, NEW st, NEW cn, NEW dir, NEW a, NEW f
  PROVE  LET page == FindErrorPath(Block(s, n), st) IN
         ResponseError(Rec(s, n, r, st, cn, dir, a), f)
           = IF page = <<>> \/ ~Readable(r \o <<"/">> \o page)
             THEN Answered(Rec(s, n, r, st, page, "no", a), "builtin", <<>>)
             ELSE IF f > 0 THEN Answered(Rec(s, n, r, 500, page, "no", a), "builtin", <<>>)
             ELSE Answered(Rec(s, n, r, st, page, "no", a), "page", Join(r, page))
<1> DEFINE c == Rec(s, n, r, st, cn, dir, a)
           page == FindErrorPath(InForce(c), c.status_code)
           d == Rec(s, n, r, st, page, "no", a)
           e == Rec(s, n, r, 500, page, "no", a)
<1>1. ResponseError(c, f) = SendPage(d, f)
  <2> DEFINE g == Rec(s, n, r, st, cn, "no", a)
  <2>1. [c EXCEPT !.is_directory = FALSE] = g
    <3> DEFINE h(v) == [server_ref |-> s, root_dir |-> r, location_ref |-> n, content_name |-> cn,
                        status_code |-> st, is_directory |-> v, answer |-> a]
    <3>1. \A v : [c EXCEPT !.is_directory = v] = h(v)
      BY DEF Rec
    <3>2. h(FALSE) = h("no" = "yes")
      <4>1. FALSE <=> ("no" = "yes")
        OBVIOUS
      <4> QED BY <4>1, Zenon
    <3>3. g = h("no" = "yes")
      BY Zenon DEF Rec
    <3> HIDE DEF c, g, h
    <3> QED BY <3>1, <3>2, <3>3, Zenon
  <2>2. \A v : [g EXCEPT !.content_name = v] = Rec(s, n, r, st, v, "no", a)
    BY DEF Rec
  <2> DEFINE p == page
  <2> HIDE DEF p
  <2>3. [g EXCEPT !.content_name = p] = Rec(s, n, r, st, p, "no", a)
    BY <2>2, Zenon
  <2> HIDE DEF c, g
  <2>4. [c EXCEPT !.is_directory = FALSE, !.content_name = p]
          = [[c EXCEPT !.is_directory = FALSE] EXCEPT !.content_name = p]
    OBVIOUS
  <2>5. ResponseError(c, f) = SendPage([c EXCEPT !.is_directory = FALSE, !.content_name = p], f)
    BY DEF ResponseError, p
  <2> QED BY <2>1, <2>3, <2>4, <2>5, Zenon DEF p
<1>2. [d EXCEPT !.status_code = 500] = e
  BY DEF Rec
<1>3. d.content_name = page /\ d.root_dir = r
  BY Getters
<1> HIDE DEF page
<1>6. page = FindErrorPath(Block(s, n), st)
  <2>1. c.server_ref = s /\ c.location_ref = n /\ c.status_code = st
    BY Getters DEF c
  <2> QED BY <2>1 DEF page, InForce
<1>4. page = FindErrorPath(Block(s, n), st) /\ d = Rec(s, n, r, st, page, "no", a) /\ e = Rec(s, n, r, 500, page, "no", a)
  BY <1>6
<1> HIDE DEF c, d, e
<1>5. SendPage(d, f) = IF page = <<>> \/ ~Readable(r \o <<"/">> \o page) THEN Answered(d, "builtin", <<>>)
                       ELSE IF f > 0 THEN Answered(e, "builtin", <<>>) ELSE Answered(d, "page", Join(r, page))
  BY <1>2, <1>3 DEF SendPage
<1> HIDE DEF page
<1>7. ResponseError(c, f) = IF page = <<>> \/ ~Readable(r \o <<"/">> \o page) THEN Answered(d, "builtin", <<>>)
                            ELSE IF f > 0 THEN Answered(e, "builtin", <<>>) ELSE Answered(d, "page", Join(r, page))
  BY <1>1, <1>5
<1> QED BY <1>4, <1>7 DEF c

LEMMA ErrorAnswer ==
  ASSUME NEW s, NEW n, NEW r, NEW st, NEW cn, NEW dir, NEW a, NEW f
  PROVE  LET answered == ResponseError(Rec(s, n, r, st, cn, dir, a), f).answer
             given == FindErrorPath(Block(s, n), st)
         IN  IF given = <<>> \/ ~Readable(r \o <<"/">> \o given)
             THEN answered = [status |-> st, kind |-> "builtin", path |-> <<>>]
             ELSE IF f > 0 THEN answered = [status |-> 500, kind |-> "builtin", path |-> <<>>]
             ELSE answered = [status |-> st, kind |-> "page", path |-> Join(r, given)]
<1> DEFINE sent == ResponseError(Rec(s, n, r, st, cn, dir, a), f)
           page == FindErrorPath(Block(s, n), st)
           d == Rec(s, n, r, st, page, "no", a)
           e == Rec(s, n, r, 500, page, "no", a)
<1>1. sent = IF page = <<>> \/ ~Readable(r \o <<"/">> \o page) THEN Answered(d, "builtin", <<>>)
             ELSE IF f > 0 THEN Answered(e, "builtin", <<>>) ELSE Answered(d, "page", Join(r, page))
  BY ErrorSends
<1>2. \A kind, path : /\ Answered(d, kind, path).answer = [status |-> st, kind |-> kind, path |-> path]
                      /\ Answered(e, kind, path).answer = [status |-> 500, kind |-> kind, path |-> path]
  BY AnsweredFact
<1> HIDE DEF sent, page, d, e
<1>3. IF page = <<>> \/ ~Readable(r \o <<"/">> \o page)
      THEN sent.answer = [status |-> st, kind |-> "builtin", path |-> <<>>]
      ELSE IF f > 0 THEN sent.answer = [status |-> 500, kind |-> "builtin", path |-> <<>>]
      ELSE sent.answer = [status |-> st, kind |-> "page", path |-> Join(r, page)]
  BY <1>1, <1>2
<1> QED BY <1>3 DEF sent, page

\* An error is answered without a change of directory.
LEMMA ErrorKeeps ==
  ASSUME NEW s, NEW n, NEW r, NEW st, NEW cn, NEW dir, NEW a, NEW f
  PROVE  ResponseError(Rec(s, n, r, st, cn, dir, a), f).root_dir = r
<1> DEFINE page == FindErrorPath(Block(s, n), st)
           d == Rec(s, n, r, st, page, "no", a)
           e == Rec(s, n, r, 500, page, "no", a)
<1>1. ResponseError(Rec(s, n, r, st, cn, dir, a), f)
        = IF page = <<>> \/ ~Readable(r \o <<"/">> \o page) THEN Answered(d, "builtin", <<>>)
          ELSE IF f > 0 THEN Answered(e, "builtin", <<>>) ELSE Answered(d, "page", Join(r, page))
  BY ErrorSends
<1>2. \A kind, path : Answered(d, kind, path).root_dir = r /\ Answered(e, kind, path).root_dir = r
  BY AnsweredKeeps
<1> HIDE DEF page, d, e
<1> QED BY <1>1, <1>2

LEMMA ErrorFact ==
  ASSUME NEW s, NEW n, NEW r, NEW st, NEW cn, NEW dir, NEW a, NEW f
  PROVE  LET answered == ResponseError(Rec(s, n, r, st, cn, dir, a), f).answer IN
         /\ answered.kind \in {"builtin", "page"}
         /\ ~(f > 0) => answered.status = st
<1> DEFINE answered == ResponseError(Rec(s, n, r, st, cn, dir, a), f).answer
           given == FindErrorPath(Block(s, n), st)
<1>1. \/ answered = [status |-> st, kind |-> "builtin", path |-> <<>>]
      \/ f > 0 /\ answered = [status |-> 500, kind |-> "builtin", path |-> <<>>]
      \/ answered = [status |-> st, kind |-> "page", path |-> Join(r, given)]
  BY ErrorAnswer
<1> HIDE DEF answered, given
<1>2. answered.kind \in {"builtin", "page"} /\ (~(f > 0) => answered.status = st)
  BY <1>1
<1> QED BY <1>2 DEF answered

\* Whether what has this name is run, in a location of s.
Runs(s, n, cn) ==
    Extension(cn) \in (IF n = 0 THEN {} ELSE s.location[n].cgi_mapping) \cup s.cgi_mapping

LEMMA RespondFact ==
  ASSUME NEW s, NEW n, NEW r, NEW st \in Nat, NEW cn, NEW dir, NEW a, NEW f \in Nat
  PROVE  LET answered == Respond(Rec(s, n, r, st, cn, dir, a), f).answer IN
         /\ st \in 200 .. 299 /\ dir = "yes" => answered = [status |-> st, kind |-> "listing", path |-> cn]
         /\ st \in 200 .. 299 /\ dir # "yes" /\ f = 0
              => answered = [status |-> st, kind |-> IF Runs(s, n, cn) THEN "script" ELSE "file",
                             path |-> Join(r, cn)]
         /\ st \in 300 .. 399 => answered = [status |-> st, kind |-> "redirect", path |-> cn]
         /\ st \notin 200 .. 399 => answered.kind \in {"builtin", "page"} /\ (f = 0 => answered.status = st)
         /\ st \in 200 .. 299 /\ dir # "yes" /\ f # 0
              => /\ answered.kind \in {"builtin", "page"}
                 /\ answered = ResponseError(Rec(s, n, r, 500, cn, dir, a), f - 1).answer
         /\ st \notin 200 .. 399 => answered = ResponseError(Rec(s, n, r, st, cn, dir, a), f).answer
         /\ st \in 300 .. 399 => Respond(Rec(s, n, r, st, cn, dir, a), f).root_dir = r
<1> DEFINE c == Rec(s, n, r, st, cn, dir, a)
           e == Rec(s, n, r, 500, cn, dir, a)
<1>1. /\ c.server_ref = s /\ c.location_ref = n /\ c.root_dir = r /\ c.status_code = st
      /\ c.content_name = cn /\ c.is_directory = (dir = "yes")
  BY Getters
<1>2. [c EXCEPT !.status_code = 500] = e
  BY DEF Rec
<1>3. \A kind, path : Answered(c, kind, path).answer = [status |-> st, kind |-> kind, path |-> path]
  BY AnsweredFact
<1>4. ResponseError(c, f).answer.kind \in {"builtin", "page"} /\ (f = 0 => ResponseError(c, f).answer.status = st)
  BY ErrorFact
<1>5. ResponseError(e, f - 1).answer.kind \in {"builtin", "page"}
  BY ErrorFact
<1> HIDE DEF c, e
<1>6. IsCgi(c) <=> Runs(s, n, cn)
  BY <1>1 DEF IsCgi, Runs
<1>7. CASE st \in 200 .. 299
  <2>1. Respond(c, f) = ResponseSuccess(c, f)
    BY <1>1, <1>7 DEF Respond
  <2>2. CASE dir = "yes"
    <3>1. Respond(c, f) = Answered(c, "listing", cn)
      BY <1>1, <2>1, <2>2 DEF ResponseSuccess
    <3> QED BY <1>3, <1>7, <2>2, <3>1 DEF c
  <2>3. CASE dir # "yes" /\ f = 0
    <3>1. Respond(c, f) = Answered(c, IF Runs(s, n, cn) THEN "script" ELSE "file", Join(r, cn))
      BY <1>1, <1>6, <2>1, <2>3 DEF ResponseSuccess
    <3> QED BY <1>3, <1>7, <2>3, <3>1 DEF c
  <2>4. CASE dir # "yes" /\ f # 0
    <3>1. Respond(c, f) = ResponseError(e, f - 1)
      BY <1>1, <1>2, <2>1, <2>4 DEF ResponseSuccess
    <3> QED BY <1>5, <1>7, <2>4, <3>1 DEF c, e
  <2> QED BY <2>2, <2>3, <2>4
<1>8. CASE st \in 300 .. 399
  <2>1. Respond(c, f) = Answered(c, "redirect", cn)
    BY <1>1, <1>8 DEF Respond
  <2>2. Answered(c, "redirect", cn).root_dir = r
    <3>1. \A w : [c EXCEPT !.answer = w].root_dir = r
      BY DEF c, Rec
    <3> DEFINE v == [status |-> c.status_code, kind |-> "redirect", path |-> cn]
    <3>2. Answered(c, "redirect", cn) = [c EXCEPT !.answer = v]
      BY DEF Answered
    <3> HIDE DEF v
    <3> QED BY <3>1, <3>2
  <2> QED BY <1>3, <1>8, <2>1, <2>2 DEF c
<1>9. CASE st \notin 200 .. 399
  <2>1. Respond(c, f) = ResponseError(c, f)
    BY <1>1, <1>9 DEF Respond
  <2> QED BY <1>4, <1>9, <2>1 DEF c
<1> QED BY <1>7, <1>8, <1>9

\* Nothing that is decided about a request changes when it is answered.
LEMMA RespondKeeps ==
  ASSUME NEW s, NEW n, NEW r, NEW st \in Nat, NEW cn, NEW dir, NEW a, NEW f \in Nat
  PROVE  Respond(Rec(s, n, r, st, cn, dir, a), f).root_dir = r
<1> DEFINE c == Rec(s, n, r, st, cn, dir, a)
           e == Rec(s, n, r, 500, cn, dir, a)
<1>1. c.status_code = st
  BY Getters
<1>2. [c EXCEPT !.status_code = 500] = e
  BY DEF Rec
<1>3. \A kind, path : Answered(c, kind, path).root_dir = r
  BY AnsweredKeeps
<1>4. ResponseError(c, f).root_dir = r /\ ResponseError(e, f - 1).root_dir = r
  BY ErrorKeeps
<1> HIDE DEF c, e
<1>5. ResponseSuccess(c, f).root_dir = r
  <2>1. CASE c.is_directory
    <3>1. ResponseSuccess(c, f) = Answered(c, "listing", c.content_name)
      BY <2>1 DEF ResponseSuccess
    <3> QED BY <1>3, <3>1
  <2>2. CASE ~c.is_directory /\ f = 0
    <3> DEFINE kind == IF IsCgi(c) THEN "script" ELSE "file"
               path == Join(c.root_dir, c.content_name)
    <3>1. ResponseSuccess(c, f) = Answered(c, kind, path)
      BY <2>2 DEF ResponseSuccess
    <3> HIDE DEF kind, path
    <3> QED BY <1>3, <3>1
  <2>3. CASE ~c.is_directory /\ f # 0
    <3>1. ResponseSuccess(c, f) = ResponseError(e, f - 1)
      BY <1>2, <2>3 DEF ResponseSuccess
    <3> QED BY <1>4, <3>1
  <2> QED BY <2>1, <2>2, <2>3
<1>6. \/ Respond(c, f) = ResponseSuccess(c, f)
      \/ Respond(c, f) = Answered(c, "redirect", c.content_name)
      \/ Respond(c, f) = ResponseError(c, f)
  BY <1>1 DEF Respond
<1>7. Respond(c, f).root_dir = r
  BY <1>3, <1>4, <1>5, <1>6
<1> QED BY <1>7 DEF c

\* What a request is answered with, once it is decided what is found for it.
LEMMA RouteFact ==
  ASSUME NEW s \in Servers, NEW q \in Askable, NEW stray \in BOOLEAN, NEW f \in Nat,
         NEW st, NEW cn, NEW dir, NEW ro, NEW kept, Decides(s, q, stray, st, cn, dir, ro, kept),
         NEW r, NEW m
  PROVE  Route(Before(s, r, m), q, stray, f)
           = Respond(Rec(s, Longest(s, q), IF kept = "yes" THEN r ELSE ro,
                         IF q.length < BodySizeOf(s, Longest(s, q)) THEN st ELSE 413, cn, dir, NoAnswer), f)
<1> DEFINE n == Longest(s, q)
           at == IF kept = "yes" THEN r ELSE ro
           c == Rec(s, m, r, 0, <<>>, "no", NoAnswer)
           d == Rec(s, n, at, st, cn, dir, NoAnswer)
<1>1. Before(s, r, m) = c
  <2> DEFINE h(v) == [server_ref |-> s, root_dir |-> r, location_ref |-> m, content_name |-> <<>>,
                      status_code |-> 0, is_directory |-> v, answer |-> NoAnswer]
  <2>1. Before(s, r, m) = h(FALSE) /\ c = h("no" = "yes")
    BY Zenon DEF Before, Rec
  <2>2. h(FALSE) = h("no" = "yes")
    <3>1. FALSE <=> ("no" = "yes")
      OBVIOUS
    <3> QED BY <3>1, Zenon
  <2> HIDE DEF h, c
  <2> QED BY <2>1, <2>2
<1>2. RoutingClient(c, q, stray) = d
  BY DEF Decides
<1>3. d.server_ref = s /\ d.location_ref = n
  BY Getters
<1>4. [d EXCEPT !.status_code = 413] = Rec(s, n, at, 413, cn, dir, NoAnswer)
  BY DEF Rec
<1> HIDE DEF c
<1>5. Block(s, n).client_max_body_size = BodySizeOf(s, n)
  BY LongestChosen, BlockFact
<1>6. CheckBodySize(d, q) = IF q.length < BodySizeOf(s, n) THEN d ELSE Rec(s, n, at, 413, cn, dir, NoAnswer)
  <2> HIDE DEF d
  <2> QED BY <1>3, <1>4, <1>5 DEF CheckBodySize, InForce
<1>7. CheckBodySize(d, q) = Rec(s, n, at, IF q.length < BodySizeOf(s, n) THEN st ELSE 413, cn, dir, NoAnswer)
  <2>1. CASE q.length < BodySizeOf(s, n)
    BY <1>6, <2>1
  <2>2. CASE ~(q.length < BodySizeOf(s, n))
    BY <1>6, <2>2
  <2> QED BY <2>1, <2>2
<1>8. Route(c, q, stray, f) = Respond(CheckBodySize(d, q), f)
  BY <1>2 DEF Route
<1> HIDE DEF d, at, n
<1> QED BY <1>1, <1>7, <1>8 DEF at, n

----------------------------------------------------------------------------
(* The theorems                                                            *)

\* What was answered to a request was answered by Route(), of a Client without a directory
\* if nothing is looked for; nor does it get one then.
Asked == \E q \in Requests, stray \in BOOLEAN, f \in 0 .. MaxFailures : \E r, m :
            LET c == Route(Before(server, r, m), q, stray, f) IN
            /\ asked = <<q, stray, f>> /\ answer = c.answer /\ root_dir = c.root_dir
            /\ Unlooked(server, q) => r = <<>> /\ root_dir = <<>>
Inv == /\ server \in Servers
       /\ IsRequest => Asked
       /\ ~IsRequest => root_dir = <<>>

\* A request for which nothing is looked for leaves the directory as it is.
LEMMA UnlookedKeeps ==
  ASSUME NEW s \in Servers, NEW q \in Askable, NEW stray \in BOOLEAN, NEW f \in Nat, NEW r, NEW m,
         Unlooked(s, q)
  PROVE  Route(Before(s, r, m), q, stray, f).root_dir = r
<1>1. PICK st, cn, dir, ro, kept : Decided(s, q, stray, st, cn, dir, ro, kept)
  BY RoutingFact
<1>2. kept = "yes" /\ st \in Nat /\ Decides(s, q, stray, st, cn, dir, ro, kept)
  BY <1>1 DEF Decided
<1> DEFINE n == Longest(s, q)
           st2 == IF q.length < BodySizeOf(s, n) THEN st ELSE 413
           at == IF kept = "yes" THEN r ELSE ro
<1>3. Route(Before(s, r, m), q, stray, f) = Respond(Rec(s, n, at, st2, cn, dir, NoAnswer), f)
  BY <1>2, RouteFact
<1>4. st2 \in Nat /\ at = r
  BY <1>2
<1> HIDE DEF n, st2, at
<1> QED BY <1>3, <1>4, RespondKeeps

LEMMA Invariant == Spec => []Inv
<1>1. Init => Inv
  BY DEF Init, Inv, IsRequest
<1>2. Inv /\ [Next]_vars => Inv'
  <2> SUFFICES ASSUME Inv, [Next]_vars PROVE Inv'
    OBVIOUS
  <2>1. ASSUME NEW q \in Requests, NEW stray \in BOOLEAN, NEW f \in 0 .. MaxFailures, RouteRequest(q, stray, f)
        PROVE  Inv'
    <3>1. server' = server /\ asked' = <<q, stray, f>> /\ server \in Servers
      BY <2>1 DEF RouteRequest, Inv
    <3>2. /\ answer' = Route(Before(server', root_dir, location_ref), q, stray, f).answer
          /\ root_dir' = Route(Before(server', root_dir, location_ref), q, stray, f).root_dir
      BY <2>1, <3>1 DEF RouteRequest, Put
    <3>3. Unlooked(server, q) => root_dir = <<>>
      <4>1. CASE IsRequest
        <5>1. Q = q /\ Asked
          BY <2>1, <4>1 DEF RouteRequest, Inv
        <5> QED BY <5>1 DEF Asked, Q
      <4>2. CASE ~IsRequest
        BY <4>2 DEF Inv
      <4> QED BY <4>1, <4>2
    <3>4. Unlooked(server, q) => root_dir' = <<>>
      <4> SUFFICES ASSUME Unlooked(server, q) PROVE root_dir' = <<>>
        OBVIOUS
      <4>1. Route(Before(server, root_dir, location_ref), q, stray, f).root_dir = root_dir
        BY <3>1, UnlookedKeeps, RequestsAskable, MaxFailuresAssumption
      <4> QED BY <3>1, <3>2, <3>3, <4>1
    <3>5. Unlooked(server', q) <=> Unlooked(server, q)
      BY <3>1
    <3>6. Asked'
      BY <3>1, <3>2, <3>3, <3>4, <3>5 DEF Asked
    <3>7. IsRequest'
      BY <3>1 DEF IsRequest
    <3> QED BY <3>1, <3>6, <3>7 DEF Inv
  <2>2. ASSUME NEW status \in Refusals, NEW f \in 0 .. MaxFailures, RouteError(status, f)
        PROVE  Inv'
    <3>1. server' = server /\ ~IsRequest' /\ root_dir = <<>> /\ server \in Servers
      BY <2>2 DEF RouteError, Inv, IsRequest
    <3>2. root_dir' = ResponseError([Before(server, root_dir, location_ref) EXCEPT !.status_code = status], f).root_dir
      BY <2>2 DEF RouteError, Put
    <3>3. [Before(server, root_dir, location_ref) EXCEPT !.status_code = status]
            = Rec(server, location_ref, root_dir, status, <<>>, "no", NoAnswer)
      <4> DEFINE b(v, w) == [server_ref |-> server, root_dir |-> root_dir, location_ref |-> location_ref,
                             content_name |-> <<>>, status_code |-> v, is_directory |-> w, answer |-> NoAnswer]
      <4>1. Before(server, root_dir, location_ref) = b(0, FALSE)
        BY Zenon DEF Before
      <4>2. \A w : [b(0, w) EXCEPT !.status_code = status] = b(status, w)
        OBVIOUS
      <4>3. Rec(server, location_ref, root_dir, status, <<>>, "no", NoAnswer) = b(status, "no" = "yes")
        BY Zenon DEF Rec
      <4>4. b(status, FALSE) = b(status, "no" = "yes")
        <5>1. FALSE <=> ("no" = "yes")
          OBVIOUS
        <5> QED BY <5>1, Zenon
      <4> HIDE DEF b
      <4> QED BY <4>1, <4>2, <4>3, <4>4
    <3>4. root_dir' = <<>>
      BY <3>1, <3>2, <3>3, ErrorKeeps
    <3> QED BY <3>1, <3>4 DEF Inv
  <2>3. CASE UNCHANGED vars
    BY <2>3 DEF vars, Inv, IsRequest, Asked
  <2> QED BY <2>1, <2>2, <2>3 DEF Next
<1> QED BY <1>1, <1>2, PTL DEF Spec

\* How the last request q was answered, of what was decided about it.
Outcome(q, f, at, st, cn, dir) ==
    LET c == Respond(Rec(server, Longest(server, q), at,
                         IF q.length < BodySizeOf(server, Longest(server, q)) THEN st ELSE 413,
                         cn, dir, NoAnswer), f)
    IN  answer = c.answer /\ root_dir = c.root_dir

LEMMA AskedFact ==
  ASSUME Inv, IsRequest
  PROVE  \E q \in Requests, stray \in BOOLEAN, f \in Nat : \E r, st, cn, dir, ro, kept :
           /\ server \in Servers
           /\ Q = q /\ asked[2] = stray /\ asked[Len(asked)] = f
           /\ Decided(server, q, stray, st, cn, dir, ro, kept)
           /\ kept = "yes" => r = <<>>
           /\ Outcome(q, f, IF kept = "yes" THEN r ELSE ro, st, cn, dir)
<1>1. server \in Servers
  BY DEF Inv
<1>2. PICK q \in Requests, stray \in BOOLEAN, f \in 0 .. MaxFailures : \E r, m :
        LET c == Route(Before(server, r, m), q, stray, f) IN
        /\ asked = <<q, stray, f>> /\ answer = c.answer /\ root_dir = c.root_dir
        /\ Unlooked(server, q) => r = <<>>
  BY DEF Inv, Asked
<1>3. PICK r, m : LET c == Route(Before(server, r, m), q, stray, f) IN
                  answer = c.answer /\ root_dir = c.root_dir /\ (Unlooked(server, q) => r = <<>>)
  BY <1>2
<1>4. PICK st, cn, dir, ro, kept : Decided(server, q, stray, st, cn, dir, ro, kept)
  BY <1>1, RequestsAskable, RoutingFact
<1>5. Q = q /\ asked[2] = stray /\ asked[Len(asked)] = f /\ f \in Nat
  BY <1>2, MaxFailuresAssumption DEF Q
<1>6. Outcome(q, f, IF kept = "yes" THEN r ELSE ro, st, cn, dir)
  <2>1. Route(Before(server, r, m), q, stray, f)
          = Respond(Rec(server, Longest(server, q), IF kept = "yes" THEN r ELSE ro,
                        IF q.length < BodySizeOf(server, Longest(server, q)) THEN st ELSE 413,
                        cn, dir, NoAnswer), f)
    <3>1. q \in Askable /\ Decides(server, q, stray, st, cn, dir, ro, kept)
      BY <1>4, RequestsAskable DEF Decided
    <3> QED BY <1>1, <1>5, <3>1, RouteFact
  <2> QED BY <1>3, <2>1, Zenon DEF Outcome
<1>7. kept = "yes" => r = <<>>
  BY <1>3, <1>4 DEF Decided
<1> QED BY <1>1, <1>4, <1>5, <1>6, <1>7

LEMMA LimitsFact == Inv => LimitsKept
<1> SUFFICES ASSUME Inv, IsRequest, Plain(server, Longest(server, Q)),
                    answer.kind \in {"file", "script", "listing", "redirect"}
             PROVE  Admitted(server, Q)
  BY DEF LimitsKept
<1>1. PICK q \in Requests, stray \in BOOLEAN, f \in Nat : \E r, st, cn, dir, ro, kept :
           /\ server \in Servers
           /\ Q = q /\ asked[2] = stray /\ asked[Len(asked)] = f
           /\ Decided(server, q, stray, st, cn, dir, ro, kept)
           /\ kept = "yes" => r = <<>>
           /\ Outcome(q, f, IF kept = "yes" THEN r ELSE ro, st, cn, dir)
  BY AskedFact
<1>2. PICK r, st, cn, dir, ro, kept :
           /\ server \in Servers
           /\ Q = q /\ asked[2] = stray /\ asked[Len(asked)] = f
           /\ Decided(server, q, stray, st, cn, dir, ro, kept)
           /\ kept = "yes" => r = <<>>
           /\ Outcome(q, f, IF kept = "yes" THEN r ELSE ro, st, cn, dir)
  BY <1>1
<1> DEFINE n == Longest(server, q)
           fits == q.length < BodySizeOf(server, n)
           st2 == IF fits THEN st ELSE 413
<1>3. st \in Nat /\ (st \in 200 .. 399 => CheckAccess(Block(server, n), q.method) = 200)
  BY <1>2 DEF Decided
<1>4. st2 \in 200 .. 399
  <2>1. st2 \in Nat
    BY <1>3
  <2>2. st2 \notin 200 .. 399 => answer.kind \in {"builtin", "page"}
    <3> DEFINE at == IF kept = "yes" THEN r ELSE ro
    <3>1. answer = Respond(Rec(server, n, at, st2, cn, dir, NoAnswer), f).answer
      BY <1>2, Zenon DEF Outcome
    <3> HIDE DEF at, st2, n
    <3>2. st2 \notin 200 .. 399
            => Respond(Rec(server, n, at, st2, cn, dir, NoAnswer), f).answer.kind \in {"builtin", "page"}
      <4> SUFFICES ASSUME st2 \notin 200 .. 399
                   PROVE  Respond(Rec(server, n, at, st2, cn, dir, NoAnswer), f).answer.kind \in {"builtin", "page"}
        OBVIOUS
      <4> QED BY <2>1, RespondFact, ZenonT(30)
    <3> QED BY <3>1, <3>2, Zenon
  <2> QED BY <2>2
<1>5. fits /\ CheckAccess(Block(server, n), q.method) = 200
  BY <1>3, <1>4
<1>6. n \in {0} \cup DOMAIN server.location
  BY <1>2, RequestsAskable, LongestChosen
<1>7. Block(server, n).limit_except = LimitsOf(server, n)
  BY <1>2, <1>6, BlockFact
<1>8. Access(LimitsOf(server, n), q.method) = 200
  BY <1>5, <1>7 DEF CheckAccess
<1>9. LimitsOf(server, n).methods # {} => q.method \in LimitsOf(server, n).methods /\ LimitsOf(server, n).range # "none"
  <2> DEFINE l == LimitsOf(server, n)
  <2>1. Access(l, q.method) = 200
    BY <1>8
  <2> HIDE DEF l
  <2>2. l.methods # {} => q.method \in l.methods /\ l.range # "none"
    BY <2>1 DEF Access
  <2> QED BY <2>2 DEF l
<1> QED BY <1>2, <1>5, <1>9 DEF Admitted

\* Whatever the configurations and the requests, and however often one is routed: nothing is sent,
\* listed or redirected for a request that is refused by limit_except, or is too long, in
\* the longest location that matches its path, or else in the server
\* (ServerInfo::routingClient, InfoBlock::routingClient, Client::checkBodySize).
THEOREM LimitsAreKept == Spec => []LimitsKept
BY Invariant, LimitsFact, PTL

LEMMA InsideFact == NothingReturned /\ AliasesEnd /\ Inv => ServedInside
<1> SUFFICES ASSUME NothingReturned, AliasesEnd, Inv, IsRequest, answer.kind \in {"file", "script"}
             PROVE  /\ Lookup(answer.path) = "file"
                    /\ IsPrefix(RootOf(server, Longest(server, Q)), answer.path)
  BY DEF ServedInside
<1>1. PICK q \in Requests, stray \in BOOLEAN, f \in Nat : \E r, st, cn, dir, ro, kept :
           /\ server \in Servers
           /\ Q = q /\ asked[2] = stray /\ asked[Len(asked)] = f
           /\ Decided(server, q, stray, st, cn, dir, ro, kept)
           /\ kept = "yes" => r = <<>>
           /\ Outcome(q, f, IF kept = "yes" THEN r ELSE ro, st, cn, dir)
  BY AskedFact
<1>2. PICK r, st, cn, dir, ro, kept :
           /\ server \in Servers
           /\ Q = q /\ asked[2] = stray /\ asked[Len(asked)] = f
           /\ Decided(server, q, stray, st, cn, dir, ro, kept)
           /\ kept = "yes" => r = <<>>
           /\ Outcome(q, f, IF kept = "yes" THEN r ELSE ro, st, cn, dir)
  BY <1>1
<1> DEFINE n == Longest(server, q)
           st2 == IF q.length < BodySizeOf(server, n) THEN st ELSE 413
           at == IF kept = "yes" THEN r ELSE ro
<1>3. /\ st \in Nat
      /\ st \in 200 .. 299 => kept = "no"
      /\ Lies(RootOf(server, n), st, cn, dir, ro)
  BY <1>2 DEF Decided
<1>4. st2 \in Nat /\ (st2 \in 200 .. 299 => st2 = st)
  BY <1>3
<1>5. answer = Respond(Rec(server, n, at, st2, cn, dir, NoAnswer), f).answer
  BY <1>2, Zenon DEF Outcome
<1>6. st2 \in 200 .. 299 /\ dir # "yes" /\ answer.path = Join(at, cn)
  <2> HIDE DEF at, st2, n
  <2>1. /\ st2 \in 200 .. 299 /\ dir = "yes" => answer = [status |-> st2, kind |-> "listing", path |-> cn]
        /\ st2 \in 200 .. 299 /\ dir # "yes" /\ f = 0
              => answer = [status |-> st2, kind |-> IF Runs(server, n, cn) THEN "script" ELSE "file",
                           path |-> Join(at, cn)]
        /\ st2 \in 300 .. 399 => answer = [status |-> st2, kind |-> "redirect", path |-> cn]
        /\ st2 \notin 200 .. 399 => answer.kind \in {"builtin", "page"}
        /\ st2 \in 200 .. 299 /\ dir # "yes" /\ f # 0 => answer.kind \in {"builtin", "page"}
    BY <1>4, <1>5, RespondFact
  <2>2. st2 \in 200 .. 299 /\ dir # "yes" /\ f = 0
    BY <1>4, <2>1
  <2> QED BY <2>1, <2>2
<1>7. at = ro
  BY <1>3, <1>4, <1>6
<1>8. Lookup(Join(ro, cn)) = "file" /\ IsPrefix(RootOf(server, n), Join(ro, cn))
  BY <1>3, <1>4, <1>6 DEF Lies
<1> QED BY <1>2, <1>6, <1>7, <1>8

\* Whatever exists, and wherever slashes are doubled: a file that is sent and a script that
\* is run exist under the name they are opened by, and lie under the root of the longest
\* location that matches, or else of the server (InfoBlock::resolveUri,
\* Client::processContent).  With "return 200" the code opens "/", for which nothing was
\* looked, and with an alias that ends without a slash it looks for one name and opens another.
THEOREM FilesInside ==
  ASSUME NothingReturned, AliasesEnd
  PROVE  Spec => []ServedInside
<1>1. Inv => ServedInside
  BY InsideFact
<1> QED BY Invariant, <1>1, PTL

LEMMA RememberedFact == Inv => AnswerUnremembered
<1> SUFFICES ASSUME Inv, IsRequest, NoFailure
             PROVE  answer = Fresh(server, Q, asked[2], 0)
  BY DEF AnswerUnremembered
<1>1. PICK q \in Requests, stray \in BOOLEAN, f \in Nat : \E r, st, cn, dir, ro, kept :
           /\ server \in Servers
           /\ Q = q /\ asked[2] = stray /\ asked[Len(asked)] = f
           /\ Decided(server, q, stray, st, cn, dir, ro, kept)
           /\ kept = "yes" => r = <<>>
           /\ Outcome(q, f, IF kept = "yes" THEN r ELSE ro, st, cn, dir)
  BY AskedFact
<1>2. PICK r, st, cn, dir, ro, kept :
           /\ server \in Servers
           /\ Q = q /\ asked[2] = stray /\ asked[Len(asked)] = f
           /\ Decided(server, q, stray, st, cn, dir, ro, kept)
           /\ kept = "yes" => r = <<>>
           /\ Outcome(q, f, IF kept = "yes" THEN r ELSE ro, st, cn, dir)
  BY <1>1
<1> DEFINE n == Longest(server, q)
           st2 == IF q.length < BodySizeOf(server, n) THEN st ELSE 413
           at(dirs) == IF kept = "yes" THEN dirs ELSE ro
           said(dirs) == Respond(Rec(server, n, at(dirs), st2, cn, dir, NoAnswer), 0).answer
<1>3. f = 0
  BY <1>2 DEF NoFailure
<1>4. answer = said(r)
  BY <1>2, <1>3, Zenon DEF Outcome
<1>5. Fresh(server, q, stray, 0) = said(<<>>)
  <2>1. Route(Before(server, <<>>, 0), q, stray, 0)
          = Respond(Rec(server, n, at(<<>>), st2, cn, dir, NoAnswer), 0)
    <3>1. q \in Askable /\ Decides(server, q, stray, st, cn, dir, ro, kept)
      BY <1>2, RequestsAskable DEF Decided
    <3>2. server \in Servers /\ stray \in BOOLEAN /\ 0 \in Nat
      BY <1>2
    <3> QED BY <3>1, <3>2, RouteFact
  <2> QED BY <2>1, Zenon DEF Fresh
<1>6. said(r) = said(<<>>)
  <2>1. at(r) = at(<<>>)
    BY <1>2
  <2> HIDE DEF at, st2, n
  <2> QED BY <2>1
<1> HIDE DEF said
<1> QED BY <1>2, <1>4, <1>5, <1>6

\* However often a request was refused while its header was unfinished, and routed while
\* more was received, its answer is what one routing gives: the directory that
\* searchSingleFile() leaves in the Client shows only where this request sets it again
\* (Client::clientRecvHttp, InfoBlock::routingClient, Client::processResponseError).
THEOREM NothingRemembered == Spec => []AnswerUnremembered
BY Invariant, RememberedFact, PTL

----------------------------------------------------------------------------
(* Addresses that differ in doubled slashes                                *)

\* A path that is asked for has a slash, which is a character then.
LEMMA SlashIsCharacter ==
  ASSUME NEW q \in Askable
  PROVE  /\ "/" \in STRING /\ <<"/">> \in Path
         /\ q.path \in Path /\ q.path # <<>> /\ Head(q.path) = "/"
<1>1. q.path \in Seq(STRING) /\ q.path # <<>> /\ Head(q.path) = "/"
  BY DEF Askable, Path
<1>2. Head(q.path) \in STRING
  BY <1>1, HeadTailProperties
<1>3. "/" \in STRING
  BY <1>1, <1>2
<1> QED BY <1>1, <1>3, OneElement DEF Path

\* The extensions that are run in a block, and the pages that are given there.
LEMMA MappingFact ==
  ASSUME NEW s \in Servers, NEW n \in {0} \cup DOMAIN s.location
  PROVE  LET b == Block(s, n) IN
         /\ b.cgi_mapping = IF n = 0 THEN s.cgi_mapping ELSE s.location[n].cgi_mapping
         /\ b.cgi_mapping \subseteq Path
         /\ b.error_page \in Seq([codes : SUBSET Nat, path : Path])
<1> DEFINE d == Defaults(s)
<1>1. s \in ServerInfo
  BY ServersAssumption
<1>2. s.cgi_mapping \subseteq Path /\ s.error_page \in Seq([codes : SUBSET Nat, path : Path])
      /\ {"cgi_mapping", "error_page"} \subseteq DOMAIN s
  BY <1>1 DEF ServerInfo
<1>3. d.cgi_mapping = s.cgi_mapping /\ d.error_page = s.error_page
  BY <1>2 DEF Defaults
<1> HIDE DEF d
<1>4. CASE n = 0
  BY <1>2, <1>3, <1>4 DEF Block, d
<1>5. CASE n # 0
  <2> DEFINE l == s.location[n]
  <2>1. l \in Location
    BY <1>5, LocationsFact
  <2> HIDE DEF l
  <2>2. /\ {"cgi_mapping", "error_page"} \subseteq DOMAIN l
        /\ l.cgi_mapping \subseteq Path /\ l.error_page \in Seq([codes : SUBSET Nat, path : Path])
    BY <2>1 DEF Location
  <2>3. /\ Inherit(l, d).cgi_mapping = l.cgi_mapping
        /\ Inherit(l, d).error_page = IF l.error_page = <<>> THEN d.error_page ELSE l.error_page
    BY <2>2 DEF Inherit
  <2>4. Block(s, n) = Inherit(l, d)
    BY <1>5 DEF Block, l, d
  <2> QED BY <1>2, <1>3, <1>5, <2>2, <2>3, <2>4 DEF l
<1> QED BY <1>4, <1>5

LEMMA PageFact ==
  ASSUME NEW s \in Servers, NEW n \in {0} \cup DOMAIN s.location, NEW status
  PROVE  FindErrorPath(Block(s, n), status) \in Path
<1> DEFINE pages == Block(s, n).error_page
           given == Given(Block(s, n), status)
<1>1. pages \in Seq([codes : SUBSET Nat, path : Path])
  BY MappingFact
<1>2. given \subseteq DOMAIN pages /\ DOMAIN pages \subseteq Nat /\ \A i \in DOMAIN pages : pages[i].path \in Path
  <2>1. given \subseteq DOMAIN pages
    BY DEF Given
  <2> DEFINE Page == [codes : SUBSET Nat, path : Path]
  <2>2. pages \in Seq(Page)
    BY <1>1
  <2> HIDE DEF pages, Page
  <2>3. DOMAIN pages \subseteq Nat /\ \A i \in DOMAIN pages : pages[i] \in Page
    BY <2>2
  <2>4. \A page \in Page : page.path \in Path
    BY DEF Page
  <2> QED BY <2>1, <2>3, <2>4
<1>3. CASE given = {}
  BY <1>3 DEF FindErrorPath, Path
<1>4. CASE given # {}
  <2> DEFINE i == CHOOSE i \in given : \A m \in given : i <= m
  <2>1. \E x \in given : \A m \in given : x <= m
    <3> HIDE DEF given, pages
    <3> QED BY <1>2, <1>4, Least
  <2>2. i \in given
    <3> HIDE DEF given
    <3> QED BY <2>1
  <2>3. FindErrorPath(Block(s, n), status) = pages[i].path
    BY <1>4 DEF FindErrorPath
  <2> HIDE DEF i, given, pages
  <2> QED BY <1>2, <2>2, <2>3
<1> QED BY <1>3, <1>4

\* Doubled slashes do not make a script of a file.
LEMMA RunsAlike ==
  ASSUME ExtensionsPlain, NEW s \in Servers, NEW n \in {0} \cup DOMAIN s.location,
         NEW x \in Path, NEW y \in Path, Alike(x, y)
  PROVE  Runs(s, n, x) <=> Runs(s, n, y)
<1> DEFINE mapped == (IF n = 0 THEN {} ELSE s.location[n].cgi_mapping) \cup s.cgi_mapping
<1>1. \A ext \in mapped : ext \in Path /\ "/" \notin Chars(ext)
  <2>1. \A m \in {0} \cup DOMAIN s.location : \A ext \in Block(s, m).cgi_mapping :
          ext \in Path /\ \A i \in DOMAIN ext : ext[i] # "/"
    BY MappingFact DEF ExtensionsPlain
  <2>2. \A ext \in mapped : \E m \in {0} \cup DOMAIN s.location : ext \in Block(s, m).cgi_mapping
    BY MappingFact
  <2> HIDE DEF mapped
  <2>3. ASSUME NEW ext \in mapped PROVE ext \in Path /\ "/" \notin Chars(ext)
    <3>1. ext \in Path /\ \A i \in DOMAIN ext : ext[i] # "/"
      BY <2>1, <2>2
    <3>2. DOMAIN ext = 1 .. Len(ext)
      BY <3>1 DEF Path
    <3> QED BY <3>1, <3>2 DEF Chars
  <2> QED BY <2>3
<1> DEFINE e == Extension(x)
           f == Extension(y)
<1>2. e \in Path /\ f \in Path /\ Merged(e) = Merged(f)
  BY ExtensionMerged DEF Alike
<1> HIDE DEF mapped, e, f
<1>3. "/" \notin Chars(e) <=> "/" \notin Chars(f)
  BY <1>2, CharsMerged
<1>4. "/" \notin Chars(e) => e = f
  BY <1>2, <1>3, Slashless
<1>5. e \in mapped <=> f \in mapped
  BY <1>1, <1>3, <1>4
<1> QED BY <1>5 DEF Runs, mapped, e, f

\* Answers that differ in the slashes of a path, and not in what it leads to.
AnsweredAlike(a, b) ==
    \E status, kind : \E x, y \in Path :
        /\ Alike(x, y)
        /\ a = [status |-> status, kind |-> kind, path |-> x]
        /\ b = [status |-> status, kind |-> kind, path |-> y]

LEMMA AnswersAlike ==
  ASSUME NEW a, NEW b, AnsweredAlike(a, b)
  PROVE  [a EXCEPT !.path = Merged(@)] = [b EXCEPT !.path = Merged(@)]
<1>1. PICK status, kind : \E x, y \in Path :
        /\ Alike(x, y)
        /\ a = [status |-> status, kind |-> kind, path |-> x]
        /\ b = [status |-> status, kind |-> kind, path |-> y]
  BY DEF AnsweredAlike
<1>2. PICK x \in Path, y \in Path :
        /\ Alike(x, y)
        /\ a = [status |-> status, kind |-> kind, path |-> x]
        /\ b = [status |-> status, kind |-> kind, path |-> y]
  BY <1>1
<1>3. [a EXCEPT !.path = Merged(@)] = [status |-> status, kind |-> kind, path |-> Merged(x)]
  BY <1>2
<1>4. [b EXCEPT !.path = Merged(@)] = [status |-> status, kind |-> kind, path |-> Merged(y)]
  BY <1>2
<1> QED BY <1>2, <1>3, <1>4 DEF Alike

\* An error's page does not depend on doubled slashes.
LEMMA ErrorAlike ==
  ASSUME "/" \in STRING, NEW s \in Servers, NEW n \in {0} \cup DOMAIN s.location,
         NEW d \in Path, NEW e \in Path, Alike(d, e), NEW st, NEW f, NEW x, NEW y, NEW dir, NEW a
  PROVE  AnsweredAlike(ResponseError(Rec(s, n, d, st, x, dir, a), f).answer,
                       ResponseError(Rec(s, n, e, st, y, dir, a), f).answer)
<1> DEFINE given == FindErrorPath(Block(s, n), st)
           this  == ResponseError(Rec(s, n, d, st, x, dir, a), f).answer
           other == ResponseError(Rec(s, n, e, st, y, dir, a), f).answer
<1>1. given \in Path
  BY PageFact
<1>2. /\ IF given = <<>> \/ ~Readable(d \o <<"/">> \o given)
         THEN this = [status |-> st, kind |-> "builtin", path |-> <<>>]
         ELSE IF f > 0 THEN this = [status |-> 500, kind |-> "builtin", path |-> <<>>]
         ELSE this = [status |-> st, kind |-> "page", path |-> Join(d, given)]
      /\ IF given = <<>> \/ ~Readable(e \o <<"/">> \o given)
         THEN other = [status |-> st, kind |-> "builtin", path |-> <<>>]
         ELSE IF f > 0 THEN other = [status |-> 500, kind |-> "builtin", path |-> <<>>]
         ELSE other = [status |-> st, kind |-> "page", path |-> Join(e, given)]
  BY ErrorAnswer
<1> HIDE DEF given, this, other
<1>3. Readable(d \o <<"/">> \o given) <=> Readable(e \o <<"/">> \o given)
  <2> DEFINE z == <<"/">>
  <2>1. z \in Path /\ d \o z \in Path /\ e \o z \in Path /\ (d \o z) \o given \in Path /\ (e \o z) \o given \in Path
    BY <1>1, OneElement, ConcatProperties DEF Path
  <2>2. Alike(d \o z, e \o z)
    BY <2>1, AlikeParts
  <2>3. Alike((d \o z) \o given, (e \o z) \o given)
    BY <1>1, <2>1, <2>2, AlikeParts
  <2>4. Lookup((d \o z) \o given) = Lookup((e \o z) \o given)
    BY <2>1, <2>3, AlikeShape
  <2> QED BY <2>4 DEF Readable
<1>4. Join(d, given) \in Path /\ Join(e, given) \in Path /\ Alike(Join(d, given), Join(e, given))
  BY <1>1, JoinAlike DEF Alike
<1>5. <<>> \in Path /\ Alike(<<>>, <<>>)
  BY DEF Alike, Path
<1>6. CASE given = <<>> \/ ~Readable(d \o <<"/">> \o given)
  <2>1. /\ this = [status |-> st, kind |-> "builtin", path |-> <<>>]
        /\ other = [status |-> st, kind |-> "builtin", path |-> <<>>]
    BY <1>2, <1>3, <1>6
  <2> QED BY <1>5, <2>1, Zenon DEF AnsweredAlike, this, other
<1>7. CASE ~(given = <<>> \/ ~Readable(d \o <<"/">> \o given)) /\ f > 0
  <2> DEFINE failed == 500
  <2>1. /\ this = [status |-> failed, kind |-> "builtin", path |-> <<>>]
        /\ other = [status |-> failed, kind |-> "builtin", path |-> <<>>]
    BY <1>2, <1>3, <1>7
  <2> HIDE DEF failed
  <2> QED BY <1>5, <2>1, Zenon DEF AnsweredAlike, this, other
<1>8. CASE ~(given = <<>> \/ ~Readable(d \o <<"/">> \o given)) /\ ~(f > 0)
  <2>1. /\ this = [status |-> st, kind |-> "page", path |-> Join(d, given)]
        /\ other = [status |-> st, kind |-> "page", path |-> Join(e, given)]
    BY <1>2, <1>3, <1>8
  <2> QED BY <1>4, <2>1, Zenon DEF AnsweredAlike, this, other
<1> QED BY <1>6, <1>7, <1>8

LEMMA RespondAlike ==
  ASSUME ExtensionsPlain, "/" \in STRING, NEW s \in Servers, NEW n \in {0} \cup DOMAIN s.location,
         NEW d \in Path, NEW e \in Path, Alike(d, e), NEW x \in Path, NEW y \in Path, Alike(x, y),
         NEW st \in Nat, NEW f \in Nat, NEW dir, NEW a
  PROVE  AnsweredAlike(Respond(Rec(s, n, d, st, x, dir, a), f).answer,
                       Respond(Rec(s, n, e, st, y, dir, a), f).answer)
<1> DEFINE this  == Respond(Rec(s, n, d, st, x, dir, a), f).answer
           other == Respond(Rec(s, n, e, st, y, dir, a), f).answer
           kind  == IF Runs(s, n, x) THEN "script" ELSE "file"
<1>1. Join(d, x) \in Path /\ Join(e, y) \in Path /\ Alike(Join(d, x), Join(e, y))
  BY JoinAlike
<1>2. kind = IF Runs(s, n, y) THEN "script" ELSE "file"
  BY RunsAlike
<1>3. /\ st \in 200 .. 299 /\ dir = "yes" => this = [status |-> st, kind |-> "listing", path |-> x]
      /\ st \in 200 .. 299 /\ dir # "yes" /\ f = 0
           => this = [status |-> st, kind |-> IF Runs(s, n, x) THEN "script" ELSE "file", path |-> Join(d, x)]
      /\ st \in 300 .. 399 => this = [status |-> st, kind |-> "redirect", path |-> x]
      /\ st \in 200 .. 299 /\ dir # "yes" /\ f # 0
           => this = ResponseError(Rec(s, n, d, 500, x, dir, a), f - 1).answer
      /\ st \notin 200 .. 399 => this = ResponseError(Rec(s, n, d, st, x, dir, a), f).answer
  BY RespondFact
<1>4. /\ st \in 200 .. 299 /\ dir = "yes" => other = [status |-> st, kind |-> "listing", path |-> y]
      /\ st \in 200 .. 299 /\ dir # "yes" /\ f = 0
           => other = [status |-> st, kind |-> IF Runs(s, n, y) THEN "script" ELSE "file", path |-> Join(e, y)]
      /\ st \in 300 .. 399 => other = [status |-> st, kind |-> "redirect", path |-> y]
      /\ st \in 200 .. 299 /\ dir # "yes" /\ f # 0
           => other = ResponseError(Rec(s, n, e, 500, y, dir, a), f - 1).answer
      /\ st \notin 200 .. 399 => other = ResponseError(Rec(s, n, e, st, y, dir, a), f).answer
  BY RespondFact
<1>5. \A status, g : AnsweredAlike(ResponseError(Rec(s, n, d, status, x, dir, a), g).answer,
                                   ResponseError(Rec(s, n, e, status, y, dir, a), g).answer)
  BY ErrorAlike
<1> HIDE DEF this, other
<1>6. CASE st \in 200 .. 299 /\ dir = "yes"
  <2>1. /\ this = [status |-> st, kind |-> "listing", path |-> x]
        /\ other = [status |-> st, kind |-> "listing", path |-> y]
    BY <1>3, <1>4, <1>6
  <2> QED BY <2>1, Zenon DEF AnsweredAlike, this, other
<1>7. CASE st \in 200 .. 299 /\ dir # "yes" /\ f = 0
  <2>1. /\ this = [status |-> st, kind |-> kind, path |-> Join(d, x)]
        /\ other = [status |-> st, kind |-> kind, path |-> Join(e, y)]
    BY <1>2, <1>3, <1>4, <1>7
  <2> HIDE DEF kind
  <2> QED BY <1>1, <2>1, Zenon DEF AnsweredAlike, this, other
<1>8. CASE st \in 300 .. 399
  <2>1. /\ this = [status |-> st, kind |-> "redirect", path |-> x]
        /\ other = [status |-> st, kind |-> "redirect", path |-> y]
    BY <1>3, <1>4, <1>8
  <2> QED BY <2>1, Zenon DEF AnsweredAlike, this, other
<1>9. CASE st \in 200 .. 299 /\ dir # "yes" /\ f # 0
  <2>1. /\ this = ResponseError(Rec(s, n, d, 500, x, dir, a), f - 1).answer
        /\ other = ResponseError(Rec(s, n, e, 500, y, dir, a), f - 1).answer
    BY <1>3, <1>4, <1>9
  <2> QED BY <1>5, <2>1 DEF this, other
<1>10. CASE st \notin 200 .. 399
  <2>1. /\ this = ResponseError(Rec(s, n, d, st, x, dir, a), f).answer
        /\ other = ResponseError(Rec(s, n, e, st, y, dir, a), f).answer
    BY <1>3, <1>4, <1>10
  <2> QED BY <1>5, <2>1 DEF this, other
<1> QED BY <1>6, <1>7, <1>8, <1>9, <1>10

\* Where there is no alias, the path is looked for as it is.
LEMMA UnderPath ==
  ASSUME NEW s \in Servers, NEW n \in {0} \cup DOMAIN s.location, NEW q \in Askable,
         n # 0 => ~s.location[n].alias
  PROVE  Under(s, n, q) = q.path
<1>1. CASE n = 0
  <2>1. q.path \in Seq(STRING)
    BY SlashIsCharacter DEF Path
  <2>2. Len(LocationPath(s, n)) + 1 = 1
    BY <1>1 DEF LocationPath
  <2>3. SubSeq(q.path, 1, Len(q.path)) = q.path
    BY <2>1, SubSeqFull
  <2>4. SubSeq(q.path, Len(LocationPath(s, n)) + 1, Len(q.path)) = q.path
    BY <2>2, <2>3
  <2> QED BY <2>4 DEF Under
<1>2. CASE n # 0
  <2>1. ~Block(s, n).alias
    BY <1>2, BlockFact
  <2> QED BY <2>1 DEF Under
<1> QED BY <1>1, <1>2

\* What is found for two paths that name the same, in the block b.
FoundAlike(b, uri, other, stray) ==
    \E st \in Nat : \E x, y, d, e \in Path : \E dir :
        /\ Alike(x, y) /\ Alike(d, e)
        /\ ResolvesTo(b, uri, stray, st, x, dir, d)
        /\ ResolvesTo(b, other, stray, st, y, dir, e)

LEMMA ResolveAlike ==
  ASSUME "/" \in STRING, NEW b, b.index \in Seq(Path), b.index # <<>>, b.root \in Path,
         NEW uri \in Path, NEW other \in Path, Alike(uri, other), NEW stray
  PROVE  FoundAlike(b, uri, other, stray)
<1> DEFINE d == b.root \o uri
           e == b.root \o other
           searched == Ends(uri) \/ (uri = <<>> /\ stray)
           st == FoundStatus(b, d)
           cn == FoundName(b, d)
           type == Lookup(d)
<1>1. d \in Path /\ e \in Path /\ Alike(d, e)
  BY AlikeParts, ConcatProperties DEF Path
<1>2. searched <=> Ends(other) \/ (other = <<>> /\ stray)
  BY AlikeShape
<1>3. type = Lookup(e)
  BY <1>1, AlikeShape
<1>4. Types(b, d) = Types(b, e)
  <2> HIDE DEF d, e
  <2>1. \A i \in DOMAIN b.index : b.index[i] \in Path
    OBVIOUS
  <2>2. ASSUME NEW i \in DOMAIN b.index PROVE Lookup(d \o b.index[i]) = Lookup(e \o b.index[i])
    <3> DEFINE z == b.index[i]
    <3>1. z \in Path
      BY <2>1
    <3> HIDE DEF z
    <3>2. Alike(d \o z, e \o z) /\ d \o z \in Path /\ e \o z \in Path
      BY <1>1, <3>1, AlikeParts, ConcatProperties DEF Path
    <3>3. Lookup(d \o z) = Lookup(e \o z)
      BY <3>2, AlikeShape
    <3> QED BY <3>3 DEF z
  <2> QED BY <2>2 DEF Types
<1>5. st = FoundStatus(b, e) /\ cn = FoundName(b, e)
  BY <1>4 DEF FoundStatus, FoundName
<1>6. st \in Nat /\ cn \in Path
  BY IndexesFact
<1>7. /\ searched /\ st \in {200, 308} => ResolvesTo(b, uri, stray, st, cn, "no", d)
      /\ searched /\ st \notin {200, 308} /\ b.autoindex = "on" => ResolvesTo(b, uri, stray, 200, d, "yes", d)
      /\ searched /\ st \notin {200, 308} /\ b.autoindex # "on" => ResolvesTo(b, uri, stray, 403, <<>>, "no", d)
      /\ ~searched => ResolvesTo(b, uri, stray, Status(type), Name(type, uri), "no", b.root)
  BY ResolvesAs
<1>8. /\ searched /\ st \in {200, 308} => ResolvesTo(b, other, stray, st, cn, "no", e)
      /\ searched /\ st \notin {200, 308} /\ b.autoindex = "on" => ResolvesTo(b, other, stray, 200, e, "yes", e)
      /\ searched /\ st \notin {200, 308} /\ b.autoindex # "on" => ResolvesTo(b, other, stray, 403, <<>>, "no", e)
      /\ ~searched => ResolvesTo(b, other, stray, Status(type), Name(type, other), "no", b.root)
  <2> DEFINE st2 == FoundStatus(b, e)
             cn2 == FoundName(b, e)
             searched2 == Ends(other) \/ (other = <<>> /\ stray)
             type2 == Lookup(e)
  <2>1. /\ searched2 /\ st2 \in {200, 308} => ResolvesTo(b, other, stray, st2, cn2, "no", e)
        /\ searched2 /\ st2 \notin {200, 308} /\ b.autoindex = "on" => ResolvesTo(b, other, stray, 200, e, "yes", e)
        /\ searched2 /\ st2 \notin {200, 308} /\ b.autoindex # "on" => ResolvesTo(b, other, stray, 403, <<>>, "no", e)
        /\ ~searched2 => ResolvesTo(b, other, stray, Status(type2), Name(type2, other), "no", b.root)
    BY ResolvesAs
  <2>2. st2 = st /\ cn2 = cn /\ type2 = type /\ (searched <=> searched2)
    BY <1>2, <1>3, <1>5
  <2> HIDE DEF st2, cn2, searched2, type2, st, cn, searched, type, e, d
  <2> QED BY <2>1, <2>2
<1> HIDE DEF d, e, searched, st, cn, type
<1>9. Alike(cn, cn) /\ Alike(<<>>, <<>>) /\ Alike(b.root, b.root) /\ <<>> \in Path /\ 200 \in Nat /\ 403 \in Nat
  BY DEF Alike, Path
<1>10. CASE searched /\ st \in {200, 308}
  BY <1>1, <1>6, <1>7, <1>8, <1>9, <1>10 DEF FoundAlike
<1>11. CASE searched /\ st \notin {200, 308} /\ b.autoindex = "on"
  BY <1>1, <1>7, <1>8, <1>9, <1>11 DEF FoundAlike
<1>12. CASE searched /\ st \notin {200, 308} /\ b.autoindex # "on"
  BY <1>1, <1>7, <1>8, <1>9, <1>12 DEF FoundAlike
<1>13. CASE ~searched
  <2> DEFINE x == Name(type, uri)
             y == Name(type, other)
             code == Status(type)
  <2>1. code \in Nat
    BY DEF Status
  <2>2. x \in Path /\ y \in Path /\ Alike(x, y)
    <3>1. <<"/">> \in Path
      BY OneElement DEF Path
    <3>2. Append(uri, "/") = uri \o <<"/">> /\ Append(other, "/") = other \o <<"/">>
      BY AppendIsConcat DEF Path
    <3>3. Append(uri, "/") \in Path /\ Append(other, "/") \in Path
      BY Appended
    <3>4. Alike(Append(uri, "/"), Append(other, "/"))
      BY <3>1, <3>2, AlikeParts
    <3> QED BY <1>9, <3>3, <3>4 DEF Name
  <2> HIDE DEF x, y, code
  <2>3. ResolvesTo(b, uri, stray, code, x, "no", b.root) /\ ResolvesTo(b, other, stray, code, y, "no", b.root)
    BY <1>7, <1>8, <1>13 DEF x, y, code
  <2> QED BY <1>9, <2>1, <2>2, <2>3 DEF FoundAlike
<1> QED BY <1>10, <1>11, <1>12, <1>13

\* What is decided about two requests that differ in the slashes of their paths.
DecidedAlike(s, q, p, stray) ==
    \E st \in Nat : \E x, y, d, e \in Path : \E dir, kept :
        /\ Alike(x, y) /\ Alike(d, e)
        /\ Decides(s, q, stray, st, x, dir, d, kept)
        /\ Decides(s, p, stray, st, y, dir, e, kept)

LEMMA DecideAlike ==
  ASSUME NEW s \in Servers, NEW q \in Askable, NEW p \in Askable, NEW stray \in BOOLEAN,
         Longest(s, q) = Longest(s, p), q.method = p.method,
         Longest(s, q) # 0 => ~s.location[Longest(s, q)].alias,
         Alike(q.path, p.path)
  PROVE  DecidedAlike(s, q, p, stray)
<1> DEFINE n == Longest(s, q)
           b == Block(s, n)
           code == b.return_.code
           to == IF b.return_.code \in 300 .. 399 THEN b.return_.uri ELSE <<>>
           access == CheckAccess(b, q.method)
<1>1. n \in {0} \cup DOMAIN s.location /\ Longest(s, p) = n
  BY LongestChosen
<1>2. "/" \in STRING /\ q.path \in Path /\ p.path \in Path
  BY SlashIsCharacter
<1>3. Under(s, n, q) = q.path /\ Under(s, n, p) = p.path
  BY <1>1, UnderPath
<1>4. /\ n # 0 /\ b.internal => Decides(s, q, stray, 403, <<>>, "no", <<>>, "yes")
      /\ n # 0 /\ ~b.internal /\ code > 0 => Decides(s, q, stray, code, to, "no", <<>>, "yes")
      /\ n = 0 \/ (~b.internal /\ ~(code > 0))
           => \A st, cn, dir, ro, kept :
                Leads(s, q, stray, st, cn, dir, ro, kept) => Decides(s, q, stray, st, cn, dir, ro, kept)
  BY DecidesAs
<1>5. /\ n # 0 /\ b.internal => Decides(s, p, stray, 403, <<>>, "no", <<>>, "yes")
      /\ n # 0 /\ ~b.internal /\ code > 0 => Decides(s, p, stray, code, to, "no", <<>>, "yes")
      /\ n = 0 \/ (~b.internal /\ ~(code > 0))
           => \A st, cn, dir, ro, kept :
                Leads(s, p, stray, st, cn, dir, ro, kept) => Decides(s, p, stray, st, cn, dir, ro, kept)
  <2> DEFINE m == Longest(s, p)
             c == Block(s, m)
             to2 == IF c.return_.code \in 300 .. 399 THEN c.return_.uri ELSE <<>>
  <2>1. /\ m # 0 /\ c.internal => Decides(s, p, stray, 403, <<>>, "no", <<>>, "yes")
        /\ m # 0 /\ ~c.internal /\ c.return_.code > 0 => Decides(s, p, stray, c.return_.code, to2, "no", <<>>, "yes")
        /\ m = 0 \/ (~c.internal /\ ~(c.return_.code > 0))
             => \A st, cn, dir, ro, kept :
                  Leads(s, p, stray, st, cn, dir, ro, kept) => Decides(s, p, stray, st, cn, dir, ro, kept)
    BY DecidesAs
  <2>2. m = n /\ c = b /\ to2 = to
    BY <1>1
  <2> HIDE DEF m, c, to2, n, b, to
  <2> QED BY <2>1, <2>2
<1>6. /\ access \in {200, 403, 405}
      /\ access # 200 => Leads(s, q, stray, access, <<>>, "no", <<>>, "yes")
      /\ access = 200 /\ Lookup(b.root) # "directory" => Leads(s, q, stray, 404, <<>>, "no", <<>>, "yes")
      /\ access = 200 /\ Lookup(b.root) = "directory"
           => \A st, cn, dir, ro :
                ResolvesTo(b, Under(s, n, q), stray, st, cn, dir, ro) => Leads(s, q, stray, st, cn, dir, ro, "no")
  BY LeadsAs
<1>7. /\ access # 200 => Leads(s, p, stray, access, <<>>, "no", <<>>, "yes")
      /\ access = 200 /\ Lookup(b.root) # "directory" => Leads(s, p, stray, 404, <<>>, "no", <<>>, "yes")
      /\ access = 200 /\ Lookup(b.root) = "directory"
           => \A st, cn, dir, ro :
                ResolvesTo(b, Under(s, n, p), stray, st, cn, dir, ro) => Leads(s, p, stray, st, cn, dir, ro, "no")
  <2> DEFINE m == Longest(s, p)
             c == Block(s, m)
             access2 == CheckAccess(c, p.method)
  <2>1. /\ access2 \in {200, 403, 405}
        /\ access2 # 200 => Leads(s, p, stray, access2, <<>>, "no", <<>>, "yes")
        /\ access2 = 200 /\ Lookup(c.root) # "directory" => Leads(s, p, stray, 404, <<>>, "no", <<>>, "yes")
        /\ access2 = 200 /\ Lookup(c.root) = "directory"
             => \A st, cn, dir, ro :
                  ResolvesTo(c, Under(s, m, p), stray, st, cn, dir, ro) => Leads(s, p, stray, st, cn, dir, ro, "no")
    BY LeadsAs
  <2>2. m = n /\ c = b /\ access2 = access
    BY <1>1
  <2> HIDE DEF m, c, access2, n, b, access
  <2> QED BY <2>1, <2>2
<1>8. /\ b.root \in Path /\ b.index \in Seq(Path) /\ b.index # <<>>
  BY <1>1, BlockFact
<1>9. <<>> \in Path /\ \A z : Alike(z, z)
  BY DEF Path, Alike
<1>10. n # 0 => code \in Nat /\ to \in Path
  <2>1. ASSUME n # 0 PROVE code \in Nat /\ to \in Path
    <3>1. s.location[n] \in Location /\ b.return_ = s.location[n].return_
      BY <1>1, <2>1, LocationsFact, BlockFact
    <3>2. s.location[n].return_.code \in {0} \cup (100 .. 599) /\ s.location[n].return_.uri \in Path
      BY <3>1 DEF Location
    <3>3. \A i \in {0} \cup (100 .. 599) : i \in Nat
      OBVIOUS
    <3> QED BY <1>9, <3>1, <3>2, <3>3
  <2> QED BY <2>1
<1> HIDE DEF n, b, to, access
<1>11. CASE n # 0 /\ b.internal
  <2>1. 403 \in Nat
    OBVIOUS
  <2> QED BY <1>4, <1>5, <1>9, <1>11, <2>1 DEF DecidedAlike
<1>12. CASE n # 0 /\ ~b.internal /\ code > 0
  <2>1. /\ Decides(s, q, stray, code, to, "no", <<>>, "yes")
        /\ Decides(s, p, stray, code, to, "no", <<>>, "yes")
    BY <1>4, <1>5, <1>12
  <2> HIDE DEF code
  <2> QED BY <1>9, <1>10, <1>12, <2>1 DEF DecidedAlike
<1>13. CASE n = 0 \/ (~b.internal /\ ~(code > 0))
  <2>0. ASSUME NEW st \in Nat, NEW x \in Path, NEW y \in Path, NEW d \in Path, NEW e \in Path, NEW dir, NEW kept,
               Alike(x, y), Alike(d, e),
               Leads(s, q, stray, st, x, dir, d, kept), Leads(s, p, stray, st, y, dir, e, kept)
        PROVE  DecidedAlike(s, q, p, stray)
    <3>1. Decides(s, q, stray, st, x, dir, d, kept) /\ Decides(s, p, stray, st, y, dir, e, kept)
      BY <1>4, <1>5, <1>13, <2>0
    <3> QED BY <2>0, <3>1 DEF DecidedAlike
  <2>1. CASE access # 200
    <3>1. access \in Nat
      BY <1>6
    <3> QED BY <1>6, <1>7, <1>9, <2>0, <2>1, <3>1
  <2>2. CASE access = 200 /\ Lookup(b.root) # "directory"
    <3>1. 404 \in Nat
      OBVIOUS
    <3> QED BY <1>6, <1>7, <1>9, <2>0, <2>2, <3>1
  <2>3. CASE access = 200 /\ Lookup(b.root) = "directory"
    <3>2. FoundAlike(b, q.path, p.path, stray)
      BY <1>2, <1>8, ResolveAlike
    <3>3. PICK st \in Nat : \E x, y, d, e \in Path : \E dir :
            /\ Alike(x, y) /\ Alike(d, e)
            /\ ResolvesTo(b, q.path, stray, st, x, dir, d)
            /\ ResolvesTo(b, p.path, stray, st, y, dir, e)
      BY <3>2 DEF FoundAlike
    <3>4. PICK x \in Path, y \in Path, d \in Path, e \in Path : \E dir :
            /\ Alike(x, y) /\ Alike(d, e)
            /\ ResolvesTo(b, q.path, stray, st, x, dir, d)
            /\ ResolvesTo(b, p.path, stray, st, y, dir, e)
      BY <3>3
    <3>5. PICK dir :
            /\ Alike(x, y) /\ Alike(d, e)
            /\ ResolvesTo(b, q.path, stray, st, x, dir, d)
            /\ ResolvesTo(b, p.path, stray, st, y, dir, e)
      BY <3>4
    <3>6. Leads(s, q, stray, st, x, dir, d, "no") /\ Leads(s, p, stray, st, y, dir, e, "no")
      BY <1>3, <1>6, <1>7, <2>3, <3>5
    <3> QED BY <2>0, <3>5, <3>6
  <2> QED BY <2>1, <2>2, <2>3
<1> QED BY <1>11, <1>12, <1>13

LEMMA SlashesFact == ExtensionsPlain /\ Inv => SlashesDoNotMatter
<1> SUFFICES ASSUME ExtensionsPlain, Inv, IsRequest, server.merge_slash,
                    Longest(server, Q) # 0 => ~server.location[Longest(server, Q)].alias
             PROVE  LET other == Fresh(server, [Q EXCEPT !.path = Merged(@)], asked[2], asked[3])
                        this  == Fresh(server, Q, asked[2], asked[3])
                    IN  [this EXCEPT !.path = Merged(@)] = [other EXCEPT !.path = Merged(@)]
  BY DEF SlashesDoNotMatter
<1>1. PICK q \in Requests, stray \in BOOLEAN, f \in 0 .. MaxFailures : asked = <<q, stray, f>>
  BY DEF Inv, Asked
<1>2. server \in Servers /\ Q = q /\ asked[2] = stray /\ asked[3] = f /\ f \in Nat /\ q \in Askable
  BY <1>1, MaxFailuresAssumption, RequestsAskable DEF Q, Inv
<1> DEFINE p == [q EXCEPT !.path = Merged(@)]
           n == Longest(server, q)
<1>3. /\ "/" \in STRING /\ q.path \in Path /\ q.path # <<>> /\ Head(q.path) = "/"
      /\ q.method \in STRING /\ q.length \in Nat
      /\ q = [path |-> q.path, method |-> q.method, length |-> q.length]
  <2>1. q \in [path : Path, method : STRING, length : Nat]
    BY <1>2 DEF Askable
  <2> QED BY <1>2, <2>1, SlashIsCharacter
<1>4. p = [path |-> Merged(q.path), method |-> q.method, length |-> q.length]
  BY <1>3
<1>5. Merged(q.path) \in Path /\ Merged(q.path) # <<>> /\ Head(Merged(q.path)) = "/"
  BY <1>3, MergedPath, MergedShape
<1>6. p \in Askable /\ p.path = Merged(q.path) /\ p.method = q.method /\ p.length = q.length
  BY <1>3, <1>4, <1>5 DEF Askable
<1> HIDE DEF p
<1>7. Longest(server, p) = n
  <2>1. Uri(server, q) = Merged(q.path) /\ Uri(server, p) = Merged(Merged(q.path))
    BY <1>6 DEF Uri
  <2>2. Uri(server, p) = Uri(server, q)
    BY <1>3, <2>1, MergedTwice
  <2> QED BY <2>2 DEF Longest, Matches
<1>8. DecidedAlike(server, q, p, stray)
  <2>1. Alike(q.path, p.path)
    BY <1>3, <1>6, AlikeMerged
  <2> QED BY <1>2, <1>6, <1>7, <2>1, DecideAlike
<1>9. PICK st \in Nat : \E x, y, d, e \in Path : \E dir, kept :
        /\ Alike(x, y) /\ Alike(d, e)
        /\ Decides(server, q, stray, st, x, dir, d, kept)
        /\ Decides(server, p, stray, st, y, dir, e, kept)
  BY <1>8 DEF DecidedAlike
<1>10. PICK x \in Path, y \in Path, d \in Path, e \in Path : \E dir, kept :
        /\ Alike(x, y) /\ Alike(d, e)
        /\ Decides(server, q, stray, st, x, dir, d, kept)
        /\ Decides(server, p, stray, st, y, dir, e, kept)
  BY <1>9
<1>11. PICK dir, kept :
        /\ Alike(x, y) /\ Alike(d, e)
        /\ Decides(server, q, stray, st, x, dir, d, kept)
        /\ Decides(server, p, stray, st, y, dir, e, kept)
  BY <1>10
<1> DEFINE st2 == IF q.length < BodySizeOf(server, n) THEN st ELSE 413
           there(z) == IF kept = "yes" THEN <<>> ELSE z
<1>12. Route(Before(server, <<>>, 0), q, stray, f) = Respond(Rec(server, n, there(d), st2, x, dir, NoAnswer), f)
  BY <1>2, <1>11, RouteFact
<1>13. Route(Before(server, <<>>, 0), p, stray, f) = Respond(Rec(server, n, there(e), st2, y, dir, NoAnswer), f)
  <2>1. Route(Before(server, <<>>, 0), p, stray, f)
          = Respond(Rec(server, Longest(server, p), IF kept = "yes" THEN <<>> ELSE e,
                        IF p.length < BodySizeOf(server, Longest(server, p)) THEN st ELSE 413, y, dir, NoAnswer), f)
    BY <1>2, <1>6, <1>11, RouteFact
  <2> QED BY <1>6, <1>7, <2>1
<1>14. there(d) \in Path /\ there(e) \in Path /\ Alike(there(d), there(e)) /\ st2 \in Nat
  <2>1. <<>> \in Path /\ Alike(<<>>, <<>>) /\ Alike(d, e)
    BY <1>11 DEF Alike, Path
  <2>2. there(d) \in Path /\ there(e) \in Path /\ Alike(there(d), there(e))
    BY <2>1
  <2>3. st2 \in Nat
    OBVIOUS
  <2> QED BY <2>2, <2>3
<1>15. n \in {0} \cup DOMAIN server.location
  BY <1>2, LongestChosen
<1> HIDE DEF there, st2, n
<1>16. AnsweredAlike(Respond(Rec(server, n, there(d), st2, x, dir, NoAnswer), f).answer,
                     Respond(Rec(server, n, there(e), st2, y, dir, NoAnswer), f).answer)
  BY <1>2, <1>3, <1>11, <1>14, <1>15, RespondAlike
<1> DEFINE this  == Fresh(server, q, stray, f)
           other == Fresh(server, p, stray, f)
<1>17. AnsweredAlike(this, other)
  BY <1>12, <1>13, <1>16, Zenon DEF Fresh
<1> HIDE DEF this, other
<1>18. [this EXCEPT !.path = Merged(@)] = [other EXCEPT !.path = Merged(@)]
  BY <1>17, AnswersAlike
<1> QED BY <1>2, <1>18, Zenon DEF this, other, p

\* Whatever the configurations, the files and the requests: where merge_slash is on and the
\* longest location that matches is no alias, a path whose slashes are doubled is answered
\* like the path without, but for the slashes of what is named in the answer: the location is
\* chosen by the one, the file is looked for by the other (ServerInfo::normalizeUri,
\* InfoBlock::resolveUri).  An extension with a slash, which cgi_mapping can give, would tell
\* them apart.
THEOREM SlashesAreOne ==
  ASSUME ExtensionsPlain
  PROVE  Spec => []SlashesDoNotMatter
<1>1. Inv => SlashesDoNotMatter
  BY SlashesFact
<1> QED BY Invariant, <1>1, PTL

----------------------------------------------------------------------------
(* Aliases                                                                 *)

\* Where an alias names a file for a request that is let in, the file is found.
LEMMA AliasDecides ==
  ASSUME AliasesEnd, FilesInDirectories(Path), NEW s \in Servers, NEW q \in Askable, NEW stray \in BOOLEAN,
         NEW n, n = Longest(s, q), n # 0, s.location[n].alias, Admitted(s, q),
         NEW rest, rest = SubSeq(q.path, Len(s.location[n].path) + 1, Len(q.path)), rest # <<>>,
         Lookup(RootOf(s, n) \o rest) = "file"
  PROVE  /\ Decides(s, q, stray, 200, rest, "no", RootOf(s, n), "no")
         /\ RootOf(s, n) \in Path /\ rest \in Path /\ Ends(RootOf(s, n))
         /\ q.length < BodySizeOf(s, n)
<1> DEFINE b == Block(s, n)
           root_ == RootOf(s, n)
           file == RootOf(s, n) \o rest
<1>1. n \in DOMAIN s.location
  BY LongestChosen
<1>2. /\ b.root = root_ /\ b.root \in Path /\ b.index \in Seq(Path) /\ b.index # <<>>
      /\ b.limit_except = LimitsOf(s, n)
      /\ b.alias = s.location[n].alias /\ b.internal = s.location[n].internal /\ b.return_ = s.location[n].return_
  BY <1>1, BlockFact
<1>3. rest = Under(s, n, q)
  BY <1>2 DEF Under, LocationPath
<1>4. rest \in Path
  BY <1>1, <1>3, UnderFact
<1>5. Ends(root_)
  BY <1>1 DEF AliasesEnd
<1>6. /\ Plain(s, n) /\ q.length < BodySizeOf(s, n)
      /\ LimitsOf(s, n).methods # {} => q.method \in LimitsOf(s, n).methods /\ LimitsOf(s, n).range # "none"
  BY DEF Admitted
<1>7. ~b.internal /\ ~(b.return_.code > 0)
  BY <1>2, <1>6 DEF Plain
<1>8. CheckAccess(b, q.method) = 200
  <2> DEFINE l == LimitsOf(s, n)
  <2>1. l.methods # {} => q.method \in l.methods /\ l.range # "none"
    BY <1>6
  <2> HIDE DEF l
  <2>2. Access(l, q.method) = 200
    BY <2>1 DEF Access
  <2> QED BY <1>2, <2>2 DEF CheckAccess, l
<1>9. Lookup(b.root) = "directory"
  BY <1>2, <1>4, <1>5 DEF FilesInDirectories
<1>10. ~Ends(rest)
  <2>1. file \in Path /\ <<>> \in Path /\ file \o <<>> = file
    BY <1>2, <1>4, ConcatProperties, ConcatEmptySeq DEF Path
  <2>2. ASSUME Ends(rest) PROVE FALSE
    <3>1. Ends(file)
      BY <1>2, <1>4, <2>2, EndsJoined
    <3> HIDE DEF file
    <3>2. Lookup(file \o <<>>) = "file"
      BY <2>1 DEF file
    <3>3. Lookup(file) = "directory"
      BY <2>1, <3>1, <3>2 DEF FilesInDirectories
    <3> QED BY <2>1, <3>2, <3>3
  <2> QED BY <2>2
<1>11. ResolvesTo(b, rest, stray, 200, rest, "no", b.root)
  <2> DEFINE type == Lookup(b.root \o rest)
  <2>1. ~(Ends(rest) \/ (rest = <<>> /\ stray))
    BY <1>10
  <2>2. ResolvesTo(b, rest, stray, Status(type), Name(type, rest), "no", b.root)
    BY <1>2, <2>1, ResolvesAs
  <2>3. type = "file"
    BY <1>2
  <2>4. Status(type) = 200 /\ Name(type, rest) = rest
    BY <2>3 DEF Status, Name
  <2> HIDE DEF type
  <2> QED BY <2>2, <2>4
<1>12. Leads(s, q, stray, 200, rest, "no", b.root, "no")
  <2>1. \A st, cn, dir, ro :
           ResolvesTo(b, Under(s, n, q), stray, st, cn, dir, ro) => Leads(s, q, stray, st, cn, dir, ro, "no")
    BY <1>8, <1>9, LeadsAs
  <2> QED BY <1>3, <1>11, <2>1
<1>13. Decides(s, q, stray, 200, rest, "no", b.root, "no")
  <2>1. \A st, cn, dir, ro, kept :
           Leads(s, q, stray, st, cn, dir, ro, kept) => Decides(s, q, stray, st, cn, dir, ro, kept)
    BY <1>7, DecidesAs
  <2> QED BY <1>12, <2>1
<1> QED BY <1>2, <1>4, <1>5, <1>6, <1>13

\* A file that is found is sent, or run.
LEMMA FileSent ==
  ASSUME NEW s, NEW n, NEW r, NEW cn
  PROVE  Respond(Rec(s, n, r, 200, cn, "no", NoAnswer), 0).answer
           = [status |-> 200, kind |-> IF Runs(s, n, cn) THEN "script" ELSE "file", path |-> Join(r, cn)]
<1> DEFINE dir == "no"
           c == Rec(s, n, r, 200, cn, dir, NoAnswer)
<1>0. dir # "yes"
  OBVIOUS
<1> HIDE DEF dir
<1>1. /\ c.server_ref = s /\ c.location_ref = n /\ c.root_dir = r /\ c.status_code = 200
      /\ c.content_name = cn /\ c.is_directory = (dir = "yes")
  BY Getters
<1>2. \A kind, path : Answered(c, kind, path).answer = [status |-> 200, kind |-> kind, path |-> path]
  BY AnsweredFact
<1> HIDE DEF c
<1>3. Respond(c, 0) = ResponseSuccess(c, 0)
  BY <1>1 DEF Respond
<1>4. IsCgi(c) <=> Runs(s, n, cn)
  BY <1>1 DEF IsCgi, Runs
<1>5. Respond(c, 0) = Answered(c, IF Runs(s, n, cn) THEN "script" ELSE "file", Join(r, cn))
  BY <1>0, <1>1, <1>3, <1>4 DEF ResponseSuccess
<1> QED BY <1>2, <1>5 DEF c, dir

LEMMA AliasFact == AliasesEnd /\ FilesInDirectories(Path) /\ Inv => AliasReplaces
<1> SUFFICES ASSUME AliasesEnd, FilesInDirectories(Path), Inv, IsRequest, NoFailure, Aliased(Q), Admitted(server, Q),
                    Rest(Q) # <<>>, Lookup(RootOf(server, Longest(server, Q)) \o Rest(Q)) = "file"
             PROVE  /\ answer.kind \in {"file", "script"}
                    /\ Merged(answer.path) = Merged(RootOf(server, Longest(server, Q)) \o Rest(Q))
  BY DEF AliasReplaces
<1>1. PICK q \in Requests, stray \in BOOLEAN, f \in 0 .. MaxFailures : \E r, m :
        LET c == Route(Before(server, r, m), q, stray, f) IN
        asked = <<q, stray, f>> /\ answer = c.answer /\ root_dir = c.root_dir
  BY DEF Inv, Asked
<1>2. PICK r, m : LET c == Route(Before(server, r, m), q, stray, f) IN
        asked = <<q, stray, f>> /\ answer = c.answer /\ root_dir = c.root_dir
  BY <1>1
<1>3. server \in Servers /\ q \in Askable /\ Q = q /\ f = 0 /\ f \in Nat
  BY <1>2, RequestsAskable DEF Inv, Q, NoFailure
<1> DEFINE n == Longest(server, q)
           root_ == RootOf(server, n)
           rest == SubSeq(q.path, Len(server.location[n].path) + 1, Len(q.path))
<1>4. n # 0 /\ server.location[n].alias /\ Rest(Q) = rest
  BY <1>3 DEF Aliased, Rest
<1>5. /\ Decides(server, q, stray, 200, rest, "no", root_, "no")
      /\ root_ \in Path /\ rest \in Path /\ Ends(root_) /\ q.length < BodySizeOf(server, n)
  <2>1. Admitted(server, q) /\ rest # <<>> /\ Lookup(root_ \o rest) = "file"
    BY <1>3, <1>4
  <2> QED BY <1>3, <1>4, <2>1, AliasDecides
<1>6. Route(Before(server, r, m), q, stray, f) = Respond(Rec(server, n, root_, 200, rest, "no", NoAnswer), f)
  <2>1. Route(Before(server, r, m), q, stray, f)
          = Respond(Rec(server, n, IF "no" = "yes" THEN r ELSE root_,
                        IF q.length < BodySizeOf(server, n) THEN 200 ELSE 413, rest, "no", NoAnswer), f)
    BY <1>3, <1>5, RouteFact
  <2> HIDE DEF n, root_, rest
  <2> QED BY <1>5, <2>1
<1> HIDE DEF rest, root_, n
<1>7. answer = [status |-> 200, kind |-> IF Runs(server, n, rest) THEN "script" ELSE "file", path |-> Join(root_, rest)]
  BY <1>2, <1>3, <1>6, FileSent
<1>8. Merged(Join(root_, rest)) = Merged(root_ \o rest)
  BY <1>5, JoinMerged
<1>9. answer.kind \in {"file", "script"} /\ answer.path = Join(root_, rest)
  BY <1>7
<1> QED BY <1>3, <1>4, <1>8, <1>9 DEF root_, n

\* Whatever the configurations and the requests, on a file system that keeps files in
\* directories: where the longest location that matches is an alias, and what the alias says
\* with the rest of the path behind it is a file, this file is sent (or run) for every request
\* that is let in (InfoBlock::routingClient, which cuts the location's path from the request's).
THEOREM AliasesReplace ==
  ASSUME AliasesEnd, FilesInDirectories(Path)
  PROVE  Spec => []AliasReplaces
<1>1. Inv => AliasReplaces
  BY AliasFact
<1> QED BY Invariant, <1>1, PTL

----------------------------------------------------------------------------
(* Redirections                                                            *)

\* What a redirection says, and the directory it leaves in the Client.
LEMMA RedirectedFact ==
  ASSUME NEW s \in Servers, NEW q \in Askable, NEW stray \in BOOLEAN, NEW f \in Nat,
         NEW st \in Nat, NEW cn, NEW dir, NEW ro, NEW kept, Decides(s, q, stray, st, cn, dir, ro, kept),
         NEW r, NEW m, Route(Before(s, r, m), q, stray, f).answer.kind = "redirect"
  PROVE  LET c == Route(Before(s, r, m), q, stray, f) IN
         /\ st \in 300 .. 399 /\ c.answer.path = cn
         /\ c.root_dir = IF kept = "yes" THEN r ELSE ro
<1> DEFINE n == Longest(s, q)
           at == IF kept = "yes" THEN r ELSE ro
           fits == q.length < BodySizeOf(s, n)
           st2 == IF fits THEN st ELSE 413
           c == Route(Before(s, r, m), q, stray, f)
           d == Respond(Rec(s, n, at, st2, cn, dir, NoAnswer), f)
<1>1. c = d
  BY RouteFact
<1>2. st2 \in Nat /\ (st2 \in 300 .. 399 => st2 = st)
  OBVIOUS
<1> HIDE DEF n, at, st2
<1>3. /\ st2 \in 200 .. 299 /\ dir = "yes" => d.answer = [status |-> st2, kind |-> "listing", path |-> cn]
      /\ st2 \in 200 .. 299 /\ dir # "yes" /\ f = 0
           => d.answer = [status |-> st2, kind |-> IF Runs(s, n, cn) THEN "script" ELSE "file", path |-> Join(at, cn)]
      /\ st2 \in 300 .. 399 => d.answer = [status |-> st2, kind |-> "redirect", path |-> cn]
      /\ st2 \notin 200 .. 399 => d.answer.kind \in {"builtin", "page"}
      /\ st2 \in 200 .. 299 /\ dir # "yes" /\ f # 0 => d.answer.kind \in {"builtin", "page"}
      /\ st2 \in 300 .. 399 => d.root_dir = at
  BY <1>2, RespondFact
<1>4. d.answer.kind = "redirect"
  BY <1>1
<1> HIDE DEF c, d
<1>5. st2 \in 300 .. 399
  <2>1. CASE st2 \in 200 .. 299
    <3>1. (IF Runs(s, n, cn) THEN "script" ELSE "file") # "redirect"
      OBVIOUS
    <3> DEFINE kind == IF Runs(s, n, cn) THEN "script" ELSE "file"
    <3> HIDE DEF kind
    <3> QED BY <1>3, <1>4, <2>1, <3>1 DEF kind
  <2>2. CASE st2 \notin 200 .. 399
    BY <1>3, <1>4, <2>2
  <2> QED BY <1>2, <2>1, <2>2
<1>6. d.answer.path = cn /\ d.root_dir = at /\ st \in 300 .. 399
  BY <1>2, <1>3, <1>5
<1> QED BY <1>1, <1>6 DEF c, at

\* InfoBlock::routingClient() of the block b, with access to it and with the path uri.
LeadsOn(s, q, stray, b, access, uri) ==
    /\ access \in {200, 403, 405}
    /\ access # 200 => Leads(s, q, stray, access, <<>>, "no", <<>>, "yes")
    /\ access = 200 /\ Lookup(b.root) # "directory" => Leads(s, q, stray, 404, <<>>, "no", <<>>, "yes")
    /\ access = 200 /\ Lookup(b.root) = "directory"
         => \A st, cn, dir, ro :
              ResolvesTo(b, uri, stray, st, cn, dir, ro) => Leads(s, q, stray, st, cn, dir, ro, "no")

LEMMA Leading ==
  ASSUME NEW s \in Servers, NEW q \in Askable, NEW stray
  PROVE  LET n == Longest(s, q)
             b == Block(s, n)
         IN  LeadsOn(s, q, stray, b, CheckAccess(b, q.method), Under(s, n, q))
<1> DEFINE n == Longest(s, q)
           b == Block(s, n)
           access == CheckAccess(b, q.method)
           uri == Under(s, n, q)
<1>1. /\ access \in {200, 403, 405}
      /\ access # 200 => Leads(s, q, stray, access, <<>>, "no", <<>>, "yes")
      /\ access = 200 /\ Lookup(b.root) # "directory" => Leads(s, q, stray, 404, <<>>, "no", <<>>, "yes")
      /\ access = 200 /\ Lookup(b.root) = "directory"
           => \A st, cn, dir, ro :
                ResolvesTo(b, uri, stray, st, cn, dir, ro) => Leads(s, q, stray, st, cn, dir, ro, "no")
  BY LeadsAs
<1> HIDE DEF n, b, access, uri
<1>2. LeadsOn(s, q, stray, b, access, uri)
  BY <1>1 DEF LeadsOn
<1> QED BY <1>2 DEF n, b, access, uri

LEMMA PathsAssociative ==
  ASSUME NEW x \in Path, NEW y \in Path, NEW z \in Path
  PROVE  (x \o y) \o z = x \o (y \o z)
  BY ConcatAssociative DEF Path

\* An index that is a directory, or the directory the path uri names itself.
Returned(b, uri, dir, path) ==
    \/ /\ Ends(uri) /\ dir = b.root \o uri
       /\ \E i \in DOMAIN b.index : path = Append(b.index[i], "/")
    \/ dir = b.root /\ path = Append(uri, "/")

\* A request is only redirected, in a location without a return, to these.
LEMMA RedirectsTo ==
  ASSUME NEW s \in Servers, NEW q \in Askable, NEW stray \in BOOLEAN, NEW f \in Nat, NEW r, NEW m,
         Plain(s, Longest(s, q)), Under(s, Longest(s, q), q) # <<>>,
         Route(Before(s, r, m), q, stray, f).answer.kind = "redirect"
  PROVE  LET c == Route(Before(s, r, m), q, stray, f)
             n == Longest(s, q)
         IN  Returned(Block(s, n), Under(s, n, q), c.root_dir, c.answer.path)
<1> DEFINE n == Longest(s, q)
           b == Block(s, n)
           access == CheckAccess(b, q.method)
           uri == Under(s, n, q)
<1>1. n \in {0} \cup DOMAIN s.location
  BY LongestChosen
<1>2. n = 0 \/ (~b.internal /\ ~(b.return_.code > 0))
  <2>1. n # 0 => b.internal = s.location[n].internal /\ b.return_ = s.location[n].return_
    BY <1>1, BlockFact
  <2>2. n = 0 \/ (~s.location[n].internal /\ s.location[n].return_.code = 0)
    BY DEF Plain
  <2> HIDE DEF n, b
  <2> QED BY <2>1, <2>2
<1>4. b.index \in Seq(Path) /\ b.index # <<>>
  BY <1>1, BlockFact
<1>6. uri # <<>>
  OBVIOUS
<1>7. LeadsOn(s, q, stray, b, access, uri)
  BY Leading
<1> DEFINE c == Route(Before(s, r, m), q, stray, f)
           root_ == b.root \o uri
           st == FoundStatus(b, root_)
           cn == FoundName(b, root_)
           type == Lookup(root_)
           searched == Ends(uri) \/ (uri = <<>> /\ stray)
<1>3. ASSUME NEW code \in Nat, NEW x, NEW dir, NEW ro, NEW kept, Leads(s, q, stray, code, x, dir, ro, kept)
      PROVE  code \in 300 .. 399 /\ c.answer.path = x /\ c.root_dir = IF kept = "yes" THEN r ELSE ro
  <2>1. Decides(s, q, stray, code, x, dir, ro, kept)
    BY <1>2, <1>3, DecidesAs
  <2> QED BY <2>1, RedirectedFact
<1>8. /\ searched /\ st \in {200, 308} => ResolvesTo(b, uri, stray, st, cn, "no", root_)
      /\ searched /\ st \notin {200, 308} /\ b.autoindex = "on" => ResolvesTo(b, uri, stray, 200, root_, "yes", root_)
      /\ searched /\ st \notin {200, 308} /\ b.autoindex # "on" => ResolvesTo(b, uri, stray, 403, <<>>, "no", root_)
      /\ ~searched => ResolvesTo(b, uri, stray, Status(type), Name(type, uri), "no", b.root)
  BY <1>4, ResolvesAs
<1>9. /\ st \in {200, 308, 404}
      /\ st = 308 => \E i \in DOMAIN b.index : cn = Append(b.index[i], "/")
  BY <1>4, IndexesFact
<1> DEFINE code == Status(type)
           name == Name(type, uri)
<1>10. code \in {200, 308, 404} /\ (code = 308 => name = Append(uri, "/"))
  BY DEF Status, Name
<1> HIDE DEF n, b, access, st, cn, type, c, code, name, uri, root_
<1>11. access = 200 /\ Lookup(b.root) = "directory"
  <2>1. access = 200
    <3>1. ASSUME access # 200 PROVE FALSE
      <4>0. access \in {403, 405}
        BY <1>7, <3>1 DEF LeadsOn
      <4>1. access \in Nat /\ access \notin 300 .. 399
        BY <4>0
      <4> QED BY <1>3, <1>7, <3>1, <4>1 DEF LeadsOn
    <3> QED BY <3>1
  <2>2. ASSUME Lookup(b.root) # "directory" PROVE FALSE
    <3> DEFINE missing == 404
    <3>1. missing \in Nat /\ missing \notin 300 .. 399 /\ Leads(s, q, stray, missing, <<>>, "no", <<>>, "yes")
      BY <1>7, <2>1, <2>2 DEF LeadsOn
    <3> HIDE DEF missing
    <3> QED BY <1>3, <3>1
  <2> QED BY <2>1, <2>2
<1>12. ASSUME NEW v \in Nat, NEW x, NEW dir, NEW ro, ResolvesTo(b, uri, stray, v, x, dir, ro)
       PROVE  v \in 300 .. 399 /\ c.answer.path = x /\ c.root_dir = ro
  <2>1. Leads(s, q, stray, v, x, dir, ro, "no")
    BY <1>7, <1>11, <1>12 DEF LeadsOn
  <2>2. v \in 300 .. 399 /\ c.answer.path = x /\ c.root_dir = IF "no" = "yes" THEN r ELSE ro
    BY <1>3, <2>1
  <2> QED BY <2>2
<1> SUFFICES Returned(b, uri, c.root_dir, c.answer.path)
  BY DEF c, uri, b, n
<1>13. CASE searched /\ st \in {200, 308}
  <2>1. st \in 300 .. 399 /\ c.answer.path = cn /\ c.root_dir = root_
    <3>1. st \in Nat
      BY <1>9
    <3> QED BY <1>8, <1>12, <1>13, <3>1
  <2>2. st = 308
    BY <1>13, <2>1
  <2>3. Ends(uri)
    BY <1>6, <1>13
  <2> QED BY <1>9, <2>1, <2>2, <2>3 DEF Returned, root_
<1>14. CASE searched /\ st \notin {200, 308}
  <2> DEFINE listed == 200
             refused == 403
  <2>1. /\ b.autoindex = "on" => ResolvesTo(b, uri, stray, listed, root_, "yes", root_)
        /\ b.autoindex # "on" => ResolvesTo(b, uri, stray, refused, <<>>, "no", root_)
    BY <1>8, <1>14
  <2>2. listed \in Nat /\ refused \in Nat /\ listed \notin 300 .. 399 /\ refused \notin 300 .. 399
    OBVIOUS
  <2> HIDE DEF listed, refused
  <2>3. FALSE
    BY <1>12, <2>1, <2>2
  <2> QED BY <2>3
<1>15. CASE ~searched
  <2>1. ResolvesTo(b, uri, stray, code, name, "no", b.root)
    BY <1>8, <1>15 DEF code, name
  <2>2. code \in Nat
    BY <1>10
  <2>3. code \in 300 .. 399 /\ c.answer.path = name /\ c.root_dir = b.root
    BY <1>12, <2>1, <2>2
  <2>4. name = Append(uri, "/")
    BY <1>10, <2>3
  <2> QED BY <2>3, <2>4 DEF Returned
<1> QED BY <1>13, <1>14, <1>15

\* The location that is chosen is no alias.
InPlace == Longest(server, Q) # 0 => ~server.location[Longest(server, Q)].alias

LEMMA InPlaceFact == IndexesPlain /\ Inv => (InPlace => RedirectReturns)
<1> SUFFICES ASSUME IndexesPlain, Inv, InPlace, IsRequest, Plain(server, Longest(server, Q)), answer.kind = "redirect"
             PROVE  LET there == [Q EXCEPT !.path = Target(Q.path, answer.path)] IN
                    /\ Ends(there.path)
                    /\ Longest(server, there) = Longest(server, Q) =>
                         Merged(Where(there, there.path)) = Merged(root_dir \o <<"/">> \o answer.path)
  BY DEF RedirectReturns
<1>1. PICK q \in Requests, stray \in BOOLEAN, f \in 0 .. MaxFailures : \E r, m :
        LET c == Route(Before(server, r, m), q, stray, f) IN
        asked = <<q, stray, f>> /\ answer = c.answer /\ root_dir = c.root_dir
  BY DEF Inv, Asked
<1>2. PICK r, m : LET c == Route(Before(server, r, m), q, stray, f) IN
        asked = <<q, stray, f>> /\ answer = c.answer /\ root_dir = c.root_dir
  BY <1>1
<1>3. server \in Servers /\ q \in Askable /\ Q = q /\ f \in Nat
  BY <1>2, MaxFailuresAssumption, RequestsAskable DEF Inv, Q
<1> DEFINE n == Longest(server, q)
           b == Block(server, n)
           to == answer.path
           p == q.path
           goal == Target(p, to)
           there == [q EXCEPT !.path = goal]
           slash == <<"/">>
<1>4. n \in {0} \cup DOMAIN server.location /\ b.root = RootOf(server, n) /\ b.root \in Path /\ b.index \in Seq(Path)
  BY <1>3, LongestChosen, BlockFact
<1>5. /\ "/" \in STRING /\ slash \in Path /\ p \in Path /\ p # <<>> /\ Head(p) = "/"
  BY <1>3, SlashIsCharacter
<1>6. \/ /\ Ends(p) /\ root_dir = b.root \o p
         /\ \E i \in DOMAIN b.index : to = Append(b.index[i], "/")
      \/ root_dir = b.root /\ to = Append(p, "/")
  <2>1. /\ Plain(server, n) /\ (n # 0 => ~server.location[n].alias)
        /\ Route(Before(server, r, m), q, stray, f).answer.kind = "redirect"
    BY <1>2, <1>3 DEF InPlace
  <2> DEFINE c == Route(Before(server, r, m), q, stray, f)
  <2> DEFINE u == Under(server, n, q)
  <2>4. u = p
    BY <1>3, <1>4, <2>1, UnderPath
  <2>5. u # <<>>
    BY <1>5, <2>4
  <2>6. Returned(b, u, c.root_dir, c.answer.path)
    BY <1>3, <2>1, <2>5, RedirectsTo
  <2> HIDE DEF u
  <2>2. Returned(b, p, c.root_dir, c.answer.path)
    BY <2>4, <2>6
  <2> HIDE DEF c, b, p, to
  <2>3. Returned(b, p, root_dir, to)
    BY <1>2, <2>2 DEF c, to
  <2> QED BY <2>3 DEF Returned
<1>7. there.path = goal
  <2>1. q \in [path : Path, method : STRING, length : Nat]
    BY <1>3 DEF Askable
  <2> HIDE DEF goal
  <2> QED BY <2>1
<1>8. ASSUME Longest(server, there) = n PROVE Where(there, goal) = b.root \o goal
  <2>1. n # 0 => ~server.location[n].alias
    BY <1>3 DEF InPlace
  <2> HIDE DEF goal, there, b, n
  <2> QED BY <1>4, <1>8, <2>1 DEF Where
<1>9. Ends(goal) /\ Merged(b.root \o goal) = Merged((root_dir \o slash) \o to)
  <2>1. CASE Ends(p) /\ root_dir = b.root \o p /\ \E i \in DOMAIN b.index : to = Append(b.index[i], "/")
    <3>1. PICK i \in DOMAIN b.index : to = Append(b.index[i], "/")
      BY <2>1
    <3> DEFINE x == b.index[i]
    <3>2. x \in Path /\ x # <<>> /\ Head(x) # "/"
      <4>1. \A k \in DOMAIN b.index : b.index[k] # <<>> /\ Head(b.index[k]) # "/"
        BY <1>3, <1>4 DEF IndexesPlain
      <4>2. i \in DOMAIN b.index
        BY <3>1
      <4> HIDE DEF b
      <4>3. b.index[i] \in Path
        BY <1>4, <4>2
      <4> QED BY <4>1, <4>2, <4>3
    <3>3. to \in Path /\ to # <<>> /\ Head(to) # "/" /\ Ends(to)
      <4> HIDE DEF x
      <4>1. /\ Append(x, "/") \in Path /\ Append(x, "/") # <<>> /\ Ends(Append(x, "/"))
            /\ Head(Append(x, "/")) = Head(x)
        BY <1>5, <3>2, Appended
      <4>2. to = Append(x, "/")
        BY <3>1 DEF x
      <4> HIDE DEF to
      <4> QED BY <3>2, <4>1, <4>2
    <3> HIDE DEF to
    <3>4. goal = p \o to
      <4> DEFINE slashes == {k \in DOMAIN p : p[k] = "/"}
                 last == CHOOSE k \in slashes : \A m_ \in slashes : m_ <= k
      <4>1. p \in Seq(STRING) /\ Len(p) \in Nat \ {0} /\ p[Len(p)] = "/" /\ DOMAIN p = 1 .. Len(p)
        BY <1>5, <2>1, EmptySeq DEF Path, Ends, Last
      <4>2. Len(p) \in slashes /\ \A k \in slashes : k <= Len(p) /\ k \in Nat
        BY <4>1
      <4>3. last \in slashes /\ \A k \in slashes : k <= last
        BY <4>2
      <4>4. last = Len(p)
        <5> HIDE DEF last, slashes
        <5> QED BY <4>1, <4>2, <4>3
      <4>5. goal = SubSeq(p, 1, last) \o to
        BY <3>3 DEF Target
      <4>6. SubSeq(p, 1, Len(p)) = p
        BY <4>1, SubSeqFull
      <4> HIDE DEF last
      <4> QED BY <4>4, <4>5, <4>6
    <3>5. Ends(goal)
      BY <1>5, <3>3, <3>4, EndsJoined
    <3>6. Ends(root_dir) /\ root_dir \in Path
      BY <1>4, <1>5, <2>1, EndsJoined, ConcatProperties DEF Path
    <3>7. Merged((root_dir \o slash) \o to) = Merged(root_dir \o to)
      BY <3>3, <3>6, MergedDoubled
    <3>8. root_dir \o to = b.root \o (p \o to)
      <4> HIDE DEF b, p
      <4>1. (b.root \o p) \o to = b.root \o (p \o to)
        BY <1>4, <1>5, <3>3, PathsAssociative
      <4> QED BY <2>1, <4>1
    <3> QED BY <3>4, <3>5, <3>7, <3>8
  <2>2. CASE root_dir = b.root /\ to = Append(p, "/")
    <3>1. to \in Path /\ to # <<>> /\ Head(to) = "/" /\ Ends(to)
      <4> HIDE DEF p
      <4>1. /\ Append(p, "/") \in Path /\ Append(p, "/") # <<>> /\ Ends(Append(p, "/"))
            /\ Head(Append(p, "/")) = Head(p)
        BY <1>5, Appended
      <4> QED BY <1>5, <2>2, <4>1
    <3> HIDE DEF to
    <3>2. goal = to
      BY <3>1 DEF Target
    <3>3. Merged(slash \o to) = Merged(to)
      <4>1. Merged(slash \o to) = Glued(slash, Merged(to))
        BY <1>5, <3>1, MergedParts, MergedShort
      <4> DEFINE w == Merged(to)
      <4>2. w \in Seq(STRING) /\ w # <<>> /\ Head(w) = "/"
        BY <3>1, MergedPath, MergedShape DEF Path
      <4> HIDE DEF w
      <4>3. Ends(slash)
        BY DEF Ends, Last
      <4>4. Glued(slash, w) = slash \o Tail(w)
        BY <4>2, <4>3 DEF Glued
      <4>5. w = slash \o Tail(w)
        BY <4>2
      <4> QED BY <4>1, <4>4, <4>5 DEF w
    <3>4. slash \o to \in Path
      BY <1>5, <3>1, ConcatProperties DEF Path
    <3>5. Alike(b.root \o (slash \o to), b.root \o to)
      BY <1>4, <3>1, <3>3, <3>4, AlikeParts DEF Alike
    <3>6. (b.root \o slash) \o to = b.root \o (slash \o to)
      BY <1>4, <1>5, <3>1, PathsAssociative
    <3> QED BY <2>2, <3>1, <3>2, <3>5, <3>6 DEF Alike
  <2> QED BY <1>6, <2>1, <2>2
<1> HIDE DEF b, goal, to, n
<1>10. Longest(server, there) = n => Merged(Where(there, there.path)) = Merged((root_dir \o slash) \o to)
  BY <1>7, <1>8, <1>9
<1> QED BY <1>3, <1>7, <1>9, <1>10 DEF goal, to, n

\* Relative to a path whose last slash is the one at last, what is behind it is replaced.
LEMMA TargetBehind ==
  ASSUME NEW p \in Path, NEW last \in 1 .. Len(p), {m \in last .. Len(p) : p[m] = "/"} = {last},
         NEW to \in Path, to # <<>>, Head(to) # "/"
  PROVE  /\ Target(p, to) = SubSeq(p, 1, last) \o to
         /\ SubSeq(Target(p, to), last + 1, Len(Target(p, to))) = to
<1> DEFINE slashes == {k \in DOMAIN p : p[k] = "/"}
           greatest == CHOOSE k \in slashes : \A m \in slashes : m <= k
           before == SubSeq(p, 1, last)
           goal == before \o to
<1>1. p \in Seq(STRING) /\ to \in Seq(STRING) /\ Len(p) \in Nat /\ last \in Nat /\ DOMAIN p = 1 .. Len(p)
  BY DEF Path
<1>2. last \in slashes /\ \A k \in slashes : k <= last
  <2>1. last \in {m \in last .. Len(p) : p[m] = "/"}
    OBVIOUS
  <2>2. ASSUME NEW k \in slashes, k > last PROVE FALSE
    <3>1. k \in {m \in last .. Len(p) : p[m] = "/"}
      BY <1>1, <2>2
    <3> QED BY <2>2, <3>1
  <2>3. \A k \in slashes : k \in Nat
    BY <1>1
  <2> HIDE DEF slashes
  <2> QED BY <1>1, <2>1, <2>2, <2>3 DEF slashes
<1>3. greatest = last
  <2>1. greatest \in slashes /\ \A k \in slashes : k <= greatest
    BY <1>2
  <2>2. \A k \in slashes : k \in Nat
    BY <1>1
  <2> HIDE DEF greatest, slashes
  <2> QED BY <1>2, <2>1, <2>2
<1>4. Target(p, to) = goal
  <2>1. Target(p, to) = SubSeq(p, 1, greatest) \o to
    BY DEF Target
  <2> HIDE DEF greatest
  <2> QED BY <1>3, <2>1
<1>5. before \in Seq(STRING) /\ Len(before) = last
  BY <1>1, SubSeqProperties
<1> HIDE DEF before
<1>6. goal \in Seq(STRING) /\ Len(goal) = last + Len(to) /\ \A i \in 1 .. Len(to) : goal[last + i] = to[i]
  BY <1>1, <1>5, ConcatProperties
<1> HIDE DEF goal
<1>7. SubSeq(goal, last + 1, Len(goal)) = to
  <2> DEFINE rest == SubSeq(goal, last + 1, Len(goal))
  <2>1. rest \in Seq(STRING) /\ Len(rest) = Len(to) /\ \A i \in 1 .. Len(to) : rest[i] = to[i]
    BY <1>1, <1>6
  <2> HIDE DEF rest
  <2>2. \A i \in 1 .. Len(rest) : rest[i] = to[i]
    BY <2>1
  <2>3. rest = to
    BY <1>1, <2>1, <2>2, SeqEqual
  <2> QED BY <2>3 DEF rest
<1> QED BY <1>4, <1>7 DEF goal, before

\* Below an alias, one name is left of the path.
LEMMA NameLeft ==
  ASSUME NEW p \in Path, NEW last \in 1 .. Len(p), last < Len(p), {m \in last .. Len(p) : p[m] = "/"} = {last}
  PROVE  LET u == SubSeq(p, last + 1, Len(p)) IN
         u \in Path /\ u # <<>> /\ Head(u) # "/" /\ ~Ends(u)
<1> DEFINE u == SubSeq(p, last + 1, Len(p))
<1>1. p \in Seq(STRING) /\ Len(p) \in Nat /\ last \in Nat
  BY DEF Path
<1>2. u \in Seq(STRING) /\ Len(u) = Len(p) - last /\ \A i \in 1 .. Len(u) : u[i] = p[last + i]
  BY <1>1
<1>3. \A k \in last + 1 .. Len(p) : p[k] # "/"
  <2> SUFFICES ASSUME NEW k \in last + 1 .. Len(p), p[k] = "/" PROVE FALSE
    OBVIOUS
  <2>1. k \in {m \in last .. Len(p) : p[m] = "/"}
    BY <1>1
  <2> QED BY <1>1, <2>1
<1> HIDE DEF u
<1>4. \A i \in 1 .. Len(u) : u[i] # "/"
  BY <1>1, <1>2, <1>3
<1>5. u # <<>> /\ Head(u) = u[1] /\ Last(u) = u[Len(u)] /\ Len(u) \in Nat \ {0}
  BY <1>1, <1>2 DEF Last
<1>6. u[1] # "/" /\ u[Len(u)] # "/"
  BY <1>4, <1>5
<1>7. u \in Path /\ Head(u) # "/" /\ ~Ends(u)
  BY <1>2, <1>5, <1>6 DEF Ends, Path
<1> QED BY <1>5, <1>7 DEF u

LEMMA OneNameFact == AliasesEnd /\ Inv => (~InPlace => RedirectReturns)
<1> SUFFICES ASSUME AliasesEnd, Inv, ~InPlace, IsRequest, Plain(server, Longest(server, Q)), answer.kind = "redirect",
                    OneName(Q)
             PROVE  LET there == [Q EXCEPT !.path = Target(Q.path, answer.path)] IN
                    /\ Ends(there.path)
                    /\ Longest(server, there) = Longest(server, Q) =>
                         Merged(Where(there, there.path)) = Merged(root_dir \o <<"/">> \o answer.path)
  BY DEF RedirectReturns
<1>1. PICK q \in Requests, stray \in BOOLEAN, f \in 0 .. MaxFailures : \E r, m :
        LET c == Route(Before(server, r, m), q, stray, f) IN
        asked = <<q, stray, f>> /\ answer = c.answer /\ root_dir = c.root_dir
  BY DEF Inv, Asked
<1>2. PICK r, m : LET c == Route(Before(server, r, m), q, stray, f) IN
        asked = <<q, stray, f>> /\ answer = c.answer /\ root_dir = c.root_dir
  BY <1>1
<1>3. server \in Servers /\ q \in Askable /\ Q = q /\ f \in Nat
  BY <1>2, MaxFailuresAssumption, RequestsAskable DEF Inv, Q
<1> DEFINE n == Longest(server, q)
           b == Block(server, n)
           to == answer.path
           p == q.path
           last == Len(server.location[n].path)
           u == SubSeq(p, last + 1, Len(p))
           goal == Target(p, to)
           there == [q EXCEPT !.path = goal]
           slash == <<"/">>
<1>4. n \in DOMAIN server.location /\ n # 0 /\ server.location[n].alias
  <2>1. n # 0 /\ server.location[n].alias
    BY <1>3 DEF InPlace
  <2> QED BY <1>3, <2>1, LongestChosen
<1>5. b.root = RootOf(server, n) /\ b.root \in Path /\ b.alias = server.location[n].alias
  BY <1>3, <1>4, BlockFact
<1>6. Ends(b.root)
  BY <1>3, <1>4, <1>5 DEF AliasesEnd
<1>7. /\ "/" \in STRING /\ slash \in Path /\ p \in Path /\ p # <<>>
  BY <1>3, SlashIsCharacter
<1>8. last < Len(p) /\ {m_ \in last .. Len(p) : p[m_] = "/"} = {last}
  BY <1>3, <1>4 DEF OneName
<1>9. last \in 1 .. Len(p)
  <2>1. server.location[n].path \in Path /\ server.location[n].path # <<>>
    BY <1>3, <1>4, LocationsFact
  <2>2. last \in Nat \ {0} /\ Len(p) \in Nat
    BY <1>7, <2>1 DEF Path
  <2> HIDE DEF last, p
  <2> QED BY <1>8, <2>2
<1>10. Under(server, n, q) = u
  BY <1>4, <1>5 DEF Under, LocationPath
<1>11. u \in Path /\ u # <<>> /\ Head(u) # "/" /\ ~Ends(u)
  <2> HIDE DEF p, last
  <2> QED BY <1>7, <1>8, <1>9, NameLeft
<1>12. root_dir = b.root /\ to = Append(u, "/")
  <2>1. Plain(server, n) /\ Route(Before(server, r, m), q, stray, f).answer.kind = "redirect"
    BY <1>2, <1>3
  <2> DEFINE c == Route(Before(server, r, m), q, stray, f)
             v == Under(server, n, q)
  <2>2. v # <<>>
    BY <1>10, <1>11
  <2>3. Returned(b, v, c.root_dir, c.answer.path)
    BY <1>3, <2>1, <2>2, RedirectsTo
  <2>4. c.root_dir = root_dir /\ c.answer.path = to
    BY <1>2
  <2> HIDE DEF c, b, u, v, to
  <2>5. Returned(b, u, root_dir, to)
    BY <1>10, <2>3, <2>4 DEF v
  <2> QED BY <1>11, <2>5 DEF Returned
<1>13. to \in Path /\ to # <<>> /\ Head(to) # "/" /\ Ends(to)
  <2> HIDE DEF u
  <2>1. /\ Append(u, "/") \in Path /\ Append(u, "/") # <<>> /\ Ends(Append(u, "/"))
        /\ Head(Append(u, "/")) = Head(u)
    BY <1>7, <1>11, Appended
  <2> HIDE DEF to
  <2> QED BY <1>11, <1>12, <2>1
<1> HIDE DEF to, u
<1>14. goal = SubSeq(p, 1, last) \o to /\ SubSeq(goal, last + 1, Len(goal)) = to
  <2> HIDE DEF p, last
  <2> QED BY <1>7, <1>8, <1>9, <1>13, TargetBehind
<1>15. Ends(goal)
  <2> DEFINE before == SubSeq(p, 1, last)
  <2>1. before \in Path
    <3> HIDE DEF p, last
    <3> QED BY <1>7, <1>9 DEF Path
  <2> HIDE DEF before
  <2>2. Ends(before \o to)
    BY <1>13, <2>1, EndsJoined
  <2> HIDE DEF goal
  <2> QED BY <1>14, <2>2 DEF before
<1>16. there.path = goal
  <2>1. q \in [path : Path, method : STRING, length : Nat]
    BY <1>3 DEF Askable
  <2> HIDE DEF goal
  <2> QED BY <2>1
<1>17. ASSUME Longest(server, there) = n PROVE Where(there, goal) = b.root \o to
  <2> HIDE DEF goal, there, b, n
  <2> QED BY <1>4, <1>5, <1>14, <1>17 DEF Where
<1>18. Merged((b.root \o slash) \o to) = Merged(b.root \o to)
  BY <1>5, <1>6, <1>13, MergedDoubled
<1> HIDE DEF b, goal, n
<1>19. Longest(server, there) = n => Merged(Where(there, there.path)) = Merged((root_dir \o slash) \o to)
  BY <1>12, <1>16, <1>17, <1>18
<1> QED BY <1>3, <1>15, <1>16, <1>19 DEF goal, to, n

\* Whatever exists: a directory that is asked for without a slash behind it, or an index that
\* is one, is redirected to the address that ends with the slash and names the same directory
\* (InfoBlock::searchSingleFile), below an alias if it is there under one name: the path that is
\* redirected to is what is left when the alias has replaced the location's.  An index that
\* begins with a slash is looked for below the directory, and redirected to below the root.
THEOREM RedirectsReturn ==
  ASSUME IndexesPlain, AliasesEnd
  PROVE  Spec => []RedirectReturns
<1>1. Inv => RedirectReturns
  BY InPlaceFact, OneNameFact
<1> QED BY Invariant, <1>1, PTL

\* Whatever the configurations, the files and the requests: a path leads to the same file
\* whether slashes in it are doubled, an alias replaces it or the peer is redirected
\* (ServerInfo::routingClient and InfoBlock::routingClient).
THEOREM AllPathsLead ==
  ASSUME ExtensionsPlain, IndexesPlain, AliasesEnd, FilesInDirectories(Path)
  PROVE  Spec => []PathsLead
<1>1. Inv => PathsLead
  BY SlashesFact, AliasFact, InPlaceFact, OneNameFact DEF PathsLead
<1> QED BY Invariant, <1>1, PTL
=============================================================================
