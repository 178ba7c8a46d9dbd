----------------------------- MODULE StartupProofs -----------------------------
(***************************************************************************)
(* Proofs about RelayerIDs and Startup, for every set of configurations,   *)
(* chain configurations and validators:                                    *)
(*  - the lookup of an application relayer agrees with the allow lists;    *)
(*  - a start without a warning found a quorum of the validators that sign *)
(*    (SInv, which every step of main preserves).                          *)
(***************************************************************************)
EXTENDS Startup, TLAPS

\* Leaves are first-order and go to Zenon; those with arithmetic, and the larger ones, name SMT.
USE Zenon

------------------------------------------------------------------------------
(* The lookup.                                                              *)

ConfigType == [sources : Seq(Sources), destinations : Seq(Destinations)]

MessageType == [chain : Chains, origin : Addresses, dest : Chains, addr : Addresses,
                handler : {"ok", "none", "invalid"}]

\* The supported destinations of a validated source: chains with sets of addresses
\* that do not hold the zero address, which therefore only stands for "any".
LEMMA SupportedType ==
    ASSUME NEW c \in ConfigType, Validate(c), NEW i \in DOMAIN c.sources
    PROVE  LET s == c.sources[i]
               dests == SupportedDestinations(c, s)
           IN  /\ s.chain \in Chains
               /\ s.origins \in SUBSET Addresses
               /\ ZeroAddress \notin s.origins
               /\ \A j \in DOMAIN dests :
                     /\ dests[j].chain \in Chains
                     /\ dests[j].addrs \in SUBSET Addresses
                     /\ ZeroAddress \notin dests[j].addrs
<1> DEFINE s == c.sources[i]
<1>1. /\ s \in Sources
      /\ ValidateSource(c, s)
  BY SMT DEF ConfigType, Validate
<1>2. CASE s.dests = <<>>
  <2>1. \A j \in DOMAIN c.destinations : c.destinations[j] \in Destinations
    BY SMT DEF ConfigType
  <2> QED BY <1>1, <1>2, <2>1 DEF SupportedDestinations, Sources, Destinations, ValidateSource
<1>3. CASE s.dests # <<>>
  <2> DEFINE Supported == [chain : Chains, enc : Encodings, addrs : SUBSET Addresses]
  <2>0. s.dests \in Seq(Supported)
    BY <1>1 DEF Sources
  <2>1. \A j \in DOMAIN s.dests : s.dests[j] \in Supported
    <3> HIDE DEF Supported, s
    <3> QED BY <2>0, SMT
  <2> QED BY <1>1, <1>3, <2>1 DEF SupportedDestinations, Sources, ValidateSource
<1> QED BY <1>2, <1>3

\* A relayer ID of a configuration comes from one entry of one source.
LEMMA IDOrigin ==
    ASSUME NEW c \in ConfigType, NEW id
    PROVE  id \in GetConfigRelayerIDs(c) <=>
             \E i \in DOMAIN c.sources :
                LET s == c.sources[i]
                    dests == SupportedDestinations(c, s)
                IN  \E j \in DOMAIN dests :
                      \E origin \in OrAllAllowed(s.origins), addr \in OrAllAllowed(dests[j].addrs) :
                         id = <<s.chain, dests[j].chain, origin, addr>>
BY SMTT(30) DEF GetConfigRelayerIDs, GetSourceBlockchainRelayerIDs, CalculateRelayerID

\* Relayer IDs have their type.
LEMMA IDType ==
    ASSUME NEW c \in ConfigType, Validate(c)
    PROVE  GetConfigRelayerIDs(c) \subseteq IDs
<1> SUFFICES ASSUME NEW id \in GetConfigRelayerIDs(c) PROVE id \in IDs
  OBVIOUS
<1>1. PICK i \in DOMAIN c.sources :
         \E j \in DOMAIN SupportedDestinations(c, c.sources[i]) :
            \E origin \in OrAllAllowed(c.sources[i].origins),
               addr \in OrAllAllowed(SupportedDestinations(c, c.sources[i])[j].addrs) :
               id = <<c.sources[i].chain, SupportedDestinations(c, c.sources[i])[j].chain, origin, addr>>
  BY IDOrigin, SMT
<1> QED BY <1>1, SupportedType, ZeroAddressAssumption, SMTT(30) DEF IDs, OrAllAllowed

\* The four keys are those of the relayers that cover the message.
LEMMA LookupCovers ==
    ASSUME NEW R \in SUBSET IDs, NEW m \in MessageType
    PROVE  /\ getApplicationRelayer(R, m) # NoRelayer =>
                 getApplicationRelayer(R, m) \in R /\ Covers(getApplicationRelayer(R, m), m)
           /\ \A id \in R : Covers(id, m) => getApplicationRelayer(R, m) # NoRelayer
<1> DEFINE exact == <<m.chain, m.dest, m.origin, m.addr>>
           anyAddr == <<m.chain, m.dest, m.origin, ZeroAddress>>
           anyOrigin == <<m.chain, m.dest, ZeroAddress, m.addr>>
           anyBoth == <<m.chain, m.dest, ZeroAddress, ZeroAddress>>
           r == getApplicationRelayer(R, m)
<1>1. r = IF exact \in R THEN exact
          ELSE IF anyAddr \in R THEN anyAddr
          ELSE IF anyOrigin \in R THEN anyOrigin
          ELSE IF anyBoth \in R THEN anyBoth
          ELSE NoRelayer
  BY DEF getApplicationRelayer, CalculateRelayerID
<1>2. Covers(exact, m) /\ Covers(anyAddr, m) /\ Covers(anyOrigin, m) /\ Covers(anyBoth, m)
  BY DEF Covers
<1>3. NoRelayer \notin R
  BY SMT DEF NoRelayer, IDs
<1>4. ASSUME NEW id \in R, Covers(id, m)
      PROVE  id \in {exact, anyAddr, anyOrigin, anyBoth}
  BY <1>4, SMT DEF Covers, IDs
<1> HIDE DEF exact, anyAddr, anyOrigin, anyBoth, r
<1>5. r # NoRelayer => r \in R /\ Covers(r, m)
  BY <1>1, <1>2
<1>6. \A id \in R : Covers(id, m) => r # NoRelayer
  BY <1>1, <1>3, <1>4
<1> QED BY <1>5, <1>6 DEF r

\* A relayer ID that covers a message comes from an entry that lets it through, and
\* the entry determines the ID.
LEMMA CoveringID ==
    ASSUME NEW c \in ConfigType, Validate(c), NEW m \in MessageType,
           NEW id \in GetConfigRelayerIDs(c), Covers(id, m)
    PROVE  \E i \in DOMAIN c.sources :
             LET s == c.sources[i]
                 dests == SupportedDestinations(c, s)
             IN  /\ s.chain = m.chain
                 /\ s.origins = {} \/ m.origin \in s.origins
                 /\ \E j \in DOMAIN dests :
                      /\ dests[j].chain = m.dest
                      /\ dests[j].addrs = {} \/ m.addr \in dests[j].addrs
                      /\ id = <<m.chain, m.dest,
                                IF s.origins = {} THEN ZeroAddress ELSE m.origin,
                                IF dests[j].addrs = {} THEN ZeroAddress ELSE m.addr>>
<1> DEFINE dests(i) == SupportedDestinations(c, c.sources[i])
<1>1. PICK i \in DOMAIN c.sources : \E j \in DOMAIN dests(i) :
         \E origin \in OrAllAllowed(c.sources[i].origins), addr \in OrAllAllowed(dests(i)[j].addrs) :
             id = <<c.sources[i].chain, dests(i)[j].chain, origin, addr>>
  BY IDOrigin, SMT
<1>2. PICK j \in DOMAIN dests(i) :
         \E origin \in OrAllAllowed(c.sources[i].origins), addr \in OrAllAllowed(dests(i)[j].addrs) :
             id = <<c.sources[i].chain, dests(i)[j].chain, origin, addr>>
  BY <1>1
<1>3. PICK origin \in OrAllAllowed(c.sources[i].origins), addr \in OrAllAllowed(dests(i)[j].addrs) :
         id = <<c.sources[i].chain, dests(i)[j].chain, origin, addr>>
  BY <1>2
<1>4. /\ c.sources[i].chain = m.chain /\ dests(i)[j].chain = m.dest
      /\ origin \in {m.origin, ZeroAddress} /\ addr \in {m.addr, ZeroAddress}
  BY <1>3 DEF Covers
<1>5. ZeroAddress \notin c.sources[i].origins /\ ZeroAddress \notin dests(i)[j].addrs
  BY SupportedType
<1>6. /\ c.sources[i].origins = {} \/ m.origin \in c.sources[i].origins
      /\ origin = IF c.sources[i].origins = {} THEN ZeroAddress ELSE m.origin
  BY <1>3, <1>4, <1>5 DEF OrAllAllowed
<1>7. /\ dests(i)[j].addrs = {} \/ m.addr \in dests(i)[j].addrs
      /\ addr = IF dests(i)[j].addrs = {} THEN ZeroAddress ELSE m.addr
  BY <1>3, <1>4, <1>5 DEF OrAllAllowed
<1> QED BY <1>3, <1>4, <1>6, <1>7

\* What some relayer ID of a validated configuration covers is what its allow lists
\* let through.
LEMMA CoveredIffAllowed ==
    ASSUME NEW c \in ConfigType, Validate(c), NEW m \in MessageType
    PROVE  (\E id \in GetConfigRelayerIDs(c) : Covers(id, m)) <=> Allows(c, m)
<1> DEFINE dests(i) == SupportedDestinations(c, c.sources[i])
<1>1. ASSUME NEW id \in GetConfigRelayerIDs(c), Covers(id, m)
      PROVE  Allows(c, m)
  <2>1. PICK i \in DOMAIN c.sources :
           /\ c.sources[i].chain = m.chain
           /\ c.sources[i].origins = {} \/ m.origin \in c.sources[i].origins
           /\ \E j \in DOMAIN dests(i) :
                 /\ dests(i)[j].chain = m.dest
                 /\ dests(i)[j].addrs = {} \/ m.addr \in dests(i)[j].addrs
    BY <1>1, CoveringID
  <2> QED BY <2>1 DEF Allows
<1>2. ASSUME Allows(c, m)
      PROVE  \E id \in GetConfigRelayerIDs(c) : Covers(id, m)
  <2>1. PICK i \in DOMAIN c.sources :
           /\ c.sources[i].chain = m.chain
           /\ c.sources[i].origins = {} \/ m.origin \in c.sources[i].origins
           /\ \E j \in DOMAIN dests(i) :
                 /\ dests(i)[j].chain = m.dest
                 /\ dests(i)[j].addrs = {} \/ m.addr \in dests(i)[j].addrs
    BY <1>2 DEF Allows
  <2>2. PICK j \in DOMAIN dests(i) :
           /\ dests(i)[j].chain = m.dest
           /\ dests(i)[j].addrs = {} \/ m.addr \in dests(i)[j].addrs
    BY <2>1
  <2>3. PICK origin \in OrAllAllowed(c.sources[i].origins) : origin \in {m.origin, ZeroAddress}
    BY <2>1 DEF OrAllAllowed
  <2>4. PICK addr \in OrAllAllowed(dests(i)[j].addrs) : addr \in {m.addr, ZeroAddress}
    BY <2>2 DEF OrAllAllowed
  <2> DEFINE id == <<c.sources[i].chain, dests(i)[j].chain, origin, addr>>
  <2>5. id \in GetConfigRelayerIDs(c)
    BY IDOrigin, <2>3, <2>4
  <2>6. Covers(id, m)
    BY <2>1, <2>2, <2>3, <2>4 DEF Covers
  <2> QED BY <2>5, <2>6
<1> QED BY <1>1, <1>2

\* The lookup over the relayer IDs of a validated configuration finds a relayer for
\* exactly the messages its allow lists let through: no key is missing from the four
\* that getApplicationRelayer tries, and none is too many.
THEOREM LookupMatchesAllowLists ==
    ASSUME NEW c \in ConfigType, Validate(c), NEW m \in MessageType
    PROVE  getApplicationRelayer(GetConfigRelayerIDs(c), m) # NoRelayer <=> Allows(c, m)
<1>1. GetConfigRelayerIDs(c) \subseteq IDs
  BY IDType
<1> QED BY <1>1, LookupCovers, CoveredIffAllowed

\* At most one relayer ID covers a message, as the comment on getApplicationRelayer
\* expects, if the configuration lists every source and destination once.
THEOREM AtMostOneKeyRegistered ==
    ASSUME NEW c \in ConfigType, Validate(c), ListsOnce(c), NEW m \in MessageType,
           NEW id1 \in GetConfigRelayerIDs(c), NEW id2 \in GetConfigRelayerIDs(c),
           Covers(id1, m), Covers(id2, m)
    PROVE  id1 = id2
<1> DEFINE dests(i) == SupportedDestinations(c, c.sources[i])
           From(id, i, j) ==
               id = <<m.chain, m.dest,
                      IF c.sources[i].origins = {} THEN ZeroAddress ELSE m.origin,
                      IF dests(i)[j].addrs = {} THEN ZeroAddress ELSE m.addr>>
<1>1. PICK i \in DOMAIN c.sources :
         /\ c.sources[i].chain = m.chain
         /\ \E j \in DOMAIN dests(i) : dests(i)[j].chain = m.dest /\ From(id1, i, j)
  BY CoveringID
<1>2. PICK j \in DOMAIN dests(i) : dests(i)[j].chain = m.dest /\ From(id1, i, j)
  BY <1>1
<1>3. PICK k \in DOMAIN c.sources :
         /\ c.sources[k].chain = m.chain
         /\ \E l \in DOMAIN dests(k) : dests(k)[l].chain = m.dest /\ From(id2, k, l)
  BY CoveringID, ZenonT(30)
<1>4. PICK l \in DOMAIN dests(k) : dests(k)[l].chain = m.dest /\ From(id2, k, l)
  BY <1>3
<1>5. i = k
  BY <1>1, <1>3 DEF ListsOnce
<1>6. j = l
  BY <1>2, <1>4, <1>5 DEF ListsOnce
<1> QED BY <1>2, <1>4, <1>5, <1>6

\* A validated source supports some destination, and only destinations of the
\* configuration.
LEMMA SupportedListed ==
    ASSUME NEW c \in ConfigType, Validate(c), NEW i \in DOMAIN c.sources
    PROVE  LET dests == SupportedDestinations(c, c.sources[i])
           IN  /\ DOMAIN dests = 1 .. Len(dests) /\ Len(dests) \in Nat \ {0}
               /\ \A j \in DOMAIN dests : \E k \in DOMAIN c.destinations :
                      c.destinations[k].chain = dests[j].chain
<1> DEFINE s == c.sources[i]
           dests == SupportedDestinations(c, s)
<1>1. /\ c.destinations \in Seq(Destinations) /\ c.destinations # <<>>
      /\ s \in Sources /\ ValidateSource(c, s)
  BY SMT DEF ConfigType, Validate
<1>2. CASE s.dests = <<>>
  <2>1. DOMAIN c.destinations = 1 .. Len(c.destinations) /\ Len(c.destinations) \in Nat \ {0}
    BY <1>1, SMT
  <2>2. dests = [k \in 1 .. Len(c.destinations) |->
                    [chain |-> c.destinations[k].chain, enc |-> c.destinations[k].enc, addrs |-> {}]]
    BY <1>2, <2>1 DEF SupportedDestinations
  <2>3. DOMAIN dests = 1 .. Len(c.destinations)
        /\ \A j \in DOMAIN dests : dests[j].chain = c.destinations[j].chain
    BY <2>2, SMT
  <2>4. Len(dests) = Len(c.destinations)
    BY <2>1, <2>2, SMT
  <2> QED BY <2>1, <2>3, <2>4
<1>3. CASE s.dests # <<>>
  <2> DEFINE Supported == [chain : Chains, enc : Encodings, addrs : SUBSET Addresses]
  <2>1. dests = s.dests /\ s.dests \in Seq(Supported)
    BY <1>1, <1>3 DEF SupportedDestinations, Sources
  <2>2. DOMAIN dests = 1 .. Len(dests) /\ Len(dests) \in Nat \ {0}
    <3> HIDE DEF Supported
    <3> QED BY <1>3, <2>1, SMT
  <2>3. ASSUME NEW j \in DOMAIN dests
        PROVE  \E k \in DOMAIN c.destinations : c.destinations[k].chain = dests[j].chain
    <3>1. Text(s.dests[j]) \in Texts(c.destinations)
      BY <1>1, <2>1 DEF ValidateSource
    <3> QED BY <2>1, <3>1 DEF Text, Texts
  <2> QED BY <2>2, <2>3
<1> QED BY <1>2, <1>3

------------------------------------------------------------------------------
(* Finite sets and sums of stake.                                           *)

\* R orders the elements of S, x is the last of them.
IsOrder(R, S) ==
    /\ \A x, y \in S : <<x, y>> \in R \/ <<y, x>> \in R
    /\ \A x, y, z \in S : <<x, y>> \in R /\ <<y, z>> \in R => <<x, z>> \in R
IsLast(R, S, x) == x \in S /\ \A y \in S : <<y, x>> \in R

\* What the proofs use of them.  It holds (FiniteFactsHold).
FiniteFacts ==
    /\ \A S, T : IsFiniteSet(S) /\ T \subseteq S => IsFiniteSet(T)
    /\ \A n \in Nat : IsFiniteSet(1 .. n)
    /\ \A R, S : IsFiniteSet(S) /\ S # {} /\ IsOrder(R, S) => \E x : IsLast(R, S, x)
    /\ \A S : S \subseteq Nat /\ IsFiniteSet(S) /\ S # {} => Max(S) \in S
    /\ \A w : StakeOf(w, {}) = 0
    /\ \A w, y : w[y] \in Nat => StakeOf(w, {y}) = w[y]
    /\ \A w, v, S : IsFiniteSet(S) /\ (\A x \in S : w[x] = v[x]) => StakeOf(w, S) = StakeOf(v, S)
    /\ \A w, S : IsFiniteSet(S) /\ (\A x \in S : w[x] \in Nat) =>
          /\ StakeOf(w, S) \in Nat
          /\ (\E x \in S : w[x] > 0) => StakeOf(w, S) > 0

\* One by one: a part of a finite set is finite.
LEMMA FiniteSubset ==
    ASSUME FiniteFacts, NEW S, IsFiniteSet(S), NEW T, T \subseteq S
    PROVE  IsFiniteSet(T)
BY DEF FiniteFacts

\* The indices of a sequence are finitely many numbers, its elements have its type.
LEMMA Indices ==
    ASSUME FiniteFacts, NEW T, NEW s \in Seq(T)
    PROVE  /\ IsFiniteSet(DOMAIN s) /\ DOMAIN s \in SUBSET Nat
           /\ \A i \in DOMAIN s : s[i] \in T
           /\ s # <<>> => 1 \in DOMAIN s
<1>1. DOMAIN s = 1 .. Len(s) /\ Len(s) \in Nat
  BY SMT
<1>2. IsFiniteSet(1 .. Len(s))
  BY <1>1 DEF FiniteFacts
<1>3. \A i \in 1 .. Len(s) : s[i] \in T
  BY SMT
<1>4. s # <<>> => 1 \in 1 .. Len(s)
  BY SMT
<1> QED BY <1>1, <1>2, <1>3, <1>4, SMT

\* A finite set that is not empty has a last element in every total order.
LEMMA LastElement ==
    ASSUME FiniteFacts, NEW R, NEW S, IsFiniteSet(S), S # {}, IsOrder(R, S)
    PROVE  \E x : IsLast(R, S, x)
BY DEF FiniteFacts

\* The greatest of finitely many numbers is one of them.
LEMMA MaxElement ==
    ASSUME FiniteFacts, NEW S \in SUBSET Nat, IsFiniteSet(S), S # {}
    PROVE  Max(S) \in S
BY DEF FiniteFacts

\* The stake of no node is zero, that of one node its weight.
LEMMA StakeOfFew ==
    ASSUME FiniteFacts, NEW w
    PROVE  StakeOf(w, {}) = 0 /\ \A y : w[y] \in Nat => StakeOf(w, {y}) = w[y]
BY DEF FiniteFacts

\* Weights that agree on a set give it the same stake.
LEMMA StakeOfSameWeights ==
    ASSUME FiniteFacts, NEW w, NEW v, NEW S, IsFiniteSet(S), \A x \in S : w[x] = v[x]
    PROVE  StakeOf(w, S) = StakeOf(v, S)
BY SMT DEF FiniteFacts

\* Stake is a natural number, and positive with a node of positive weight.
LEMMA StakeOfType ==
    ASSUME FiniteFacts, NEW w, NEW S, IsFiniteSet(S), \A x \in S : w[x] \in Nat
    PROVE  StakeOf(w, S) \in Nat /\ ((\E x \in S : w[x] > 0) => StakeOf(w, S) > 0)
BY DEF FiniteFacts

------------------------------------------------------------------------------
(* Warp quorums.                                                            *)

\* Among several upgrades one is the latest.
LEMMA LatestUpgrade ==
    ASSUME FiniteFacts, NEW T, NEW s \in Seq([timestamp : Nat, numerator : T]), s # <<>>
    PROVE  \E i \in DOMAIN s : \A j \in DOMAIN s :
               \/ s[j].timestamp < s[i].timestamp
               \/ s[j].timestamp = s[i].timestamp /\ i <= j
<1> DEFINE D == DOMAIN s
           Before(j, i) == \/ s[j].timestamp < s[i].timestamp
                           \/ s[j].timestamp = s[i].timestamp /\ i <= j
           R == {p \in D \X D : Before(p[1], p[2])}
<1> DEFINE Upgrade == [timestamp : Nat, numerator : T]
<1>0. s \in Seq(Upgrade)
  OBVIOUS
<1>1. IsFiniteSet(D) /\ D \in SUBSET Nat /\ D # {}
  <2> HIDE DEF Upgrade
  <2> QED BY <1>0, Indices
<1>2. \A i \in D : s[i].timestamp \in Nat
  <2>1. \A i \in D : s[i] \in Upgrade
    <3> HIDE DEF Upgrade
    <3> QED BY <1>0, Indices
  <2> QED BY <2>1
<1> HIDE DEF D
<1>3. \A i, j \in D : <<i, j>> \in R <=> Before(i, j)
  OBVIOUS
<1>4. \A i, j \in D : Before(i, j) \/ Before(j, i)
  BY <1>1, <1>2, SMT
<1>5. ASSUME NEW i \in D, NEW j \in D, NEW k \in D, Before(i, j), Before(j, k)
      PROVE  Before(i, k)
  <2> DEFINE ti == s[i].timestamp
             tj == s[j].timestamp
             tk == s[k].timestamp
  <2>1. ti \in Nat /\ tj \in Nat /\ tk \in Nat /\ i \in Nat /\ j \in Nat /\ k \in Nat
    BY <1>1, <1>2
  <2>2. ti < tj \/ (ti = tj /\ j <= i)
    BY <1>5
  <2>3. tj < tk \/ (tj = tk /\ k <= j)
    BY <1>5
  <2>4. ti < tk \/ (ti = tk /\ k <= i)
    <3> HIDE DEF ti, tj, tk
    <3> QED BY <2>1, <2>2, <2>3, SMT
  <2> QED BY <2>4
<1>6. PICK i : IsLast(R, D, i)
  <2> HIDE DEF R, Before
  <2>1. \A x, y \in D : <<x, y>> \in R \/ <<y, x>> \in R
    BY <1>3, <1>4
  <2>2. \A x, y, z \in D : <<x, y>> \in R /\ <<y, z>> \in R => <<x, z>> \in R
    BY <1>3, <1>5
  <2>3. IsOrder(R, D)
    BY <2>1, <2>2 DEF IsOrder
  <2> QED BY <1>1, <2>3, LastElement
<1>7. i \in D /\ \A j \in D : Before(j, i)
  <2> HIDE DEF R, Before
  <2> QED BY <1>3, <1>6 DEF IsLast
<1> QED BY <1>7 DEF D

\* A Warp quorum that can be fetched is a percentage, and not zero.
LEMMA getWarpQuorumType ==
    ASSUME FiniteFacts, NEW subnet, NEW chain \in Chains
    PROVE  getWarpQuorum(subnet, chain) \in {NoWarpConfig} \cup 1 .. WarpQuorumDenominator
<1> DEFINE upgrades == ChainConfig[chain].upgrades
           numerators == 0 .. WarpQuorumDenominator
           latest == CHOOSE i \in DOMAIN upgrades : \A j \in DOMAIN upgrades :
                         \/ upgrades[j].timestamp < upgrades[i].timestamp
                         \/ upgrades[j].timestamp = upgrades[i].timestamp /\ i <= j
<1>1. /\ upgrades \in Seq([timestamp : Nat, numerator : numerators])
      /\ ChainConfig[chain].genesis \in {NoWarpConfig} \cup numerators
  BY ChainConfigAssumption
<1>2. \A n \in numerators : calculateQuorumNumerator(n) \in 1 .. WarpQuorumDenominator
  BY SMT DEF calculateQuorumNumerator, WarpDefaultQuorumNumerator, WarpQuorumDenominator
<1>3. WarpDefaultQuorumNumerator \in 1 .. WarpQuorumDenominator
  BY SMT DEF WarpDefaultQuorumNumerator, WarpQuorumDenominator
<1>4. ASSUME upgrades # <<>> PROVE upgrades[latest].numerator \in numerators
  <2> HIDE DEF upgrades, numerators
  <2>1. \E i \in DOMAIN upgrades : \A j \in DOMAIN upgrades :
           \/ upgrades[j].timestamp < upgrades[i].timestamp
           \/ upgrades[j].timestamp = upgrades[i].timestamp /\ i <= j
    BY <1>1, <1>4, LatestUpgrade
  <2>2. latest \in DOMAIN upgrades
    BY <2>1
  <2> HIDE DEF latest
  <2> DEFINE Upgrade == [timestamp : Nat, numerator : numerators]
  <2>3. upgrades[latest] \in Upgrade
    BY <1>1, <2>2, Indices
  <2> QED BY <2>3
<1>5. getWarpQuorum(subnet, chain) =
        IF subnet = PrimaryNetworkID THEN WarpDefaultQuorumNumerator
        ELSE IF upgrades # <<>> THEN calculateQuorumNumerator(upgrades[latest].numerator)
        ELSE IF ChainConfig[chain].genesis # NoWarpConfig
             THEN calculateQuorumNumerator(ChainConfig[chain].genesis)
        ELSE NoWarpConfig
  BY DEF getWarpQuorum
<1> HIDE DEF upgrades, latest, numerators
<1> QED BY <1>1, <1>2, <1>3, <1>4, <1>5

------------------------------------------------------------------------------
(* The stake check.                                                         *)

\* What main knows of a subnet's validators, however it read them: finitely many, with
\* stake, and each key with one node if nodes do not share keys.
LEMMA ValidatorSetType ==
    ASSUME NEW subnet \in Subnets, NEW vdrs \in ValidatorSets(subnet)
    PROVE  /\ IsFiniteSet(DOMAIN vdrs)
           /\ \A n \in DOMAIN vdrs : vdrs[n].weight \in Nat
           /\ \E n \in DOMAIN vdrs : vdrs[n].weight > 0
           /\ NoSharedKeys =>
                 \A n, k \in Keyed(vdrs) : vdrs[n].key = vdrs[k].key => n = k
<1>1. PICK h \in DOMAIN PChain, g \in DOMAIN PChain :
         /\ DOMAIN vdrs = DOMAIN PChain[h].weights[subnet]
         /\ \A n \in DOMAIN vdrs : /\ vdrs[n].weight = PChain[h].weights[subnet][n]
                                   /\ vdrs[n].key \in {PChain[g].keys[n], NoKey}
  <2>1. CASE vdrs \in {GetValidatorsAt(h, subnet) : h \in DOMAIN PChain}
    <3>1. PICK h \in DOMAIN PChain : vdrs = GetValidatorsAt(h, subnet)
      BY <2>1
    <3>2. /\ DOMAIN vdrs = DOMAIN PChain[h].weights[subnet]
          /\ \A n \in DOMAIN vdrs : /\ vdrs[n].weight = PChain[h].weights[subnet][n]
                                    /\ vdrs[n].key = PChain[h].keys[n]
      BY <3>1 DEF GetValidatorsAt
    <3> QED BY <3>2
  <2>2. CASE vdrs \in {getCurrentValidatorSet(h[1], h[2], subnet) :
                          h \in {g \in (DOMAIN PChain) \X (DOMAIN PChain) : g[1] <= g[2]}}
    <3>1. PICK p \in (DOMAIN PChain) \X (DOMAIN PChain) :
             vdrs = getCurrentValidatorSet(p[1], p[2], subnet)
      BY <2>2
    <3> DEFINE h == p[1]
               g == p[2]
    <3>2. h \in DOMAIN PChain /\ g \in DOMAIN PChain
      BY <3>1
    <3> HIDE DEF h, g
    <3>3. vdrs = getCurrentValidatorSet(h, g, subnet)
      BY <3>1 DEF h, g
    <3>4. /\ DOMAIN vdrs = DOMAIN PChain[h].weights[subnet]
          /\ \A n \in DOMAIN vdrs : /\ vdrs[n].weight = PChain[h].weights[subnet][n]
                                    /\ vdrs[n].key \in {PChain[g].keys[n], NoKey}
      BY <3>3 DEF getCurrentValidatorSet
    <3> QED BY <3>2, <3>4
  <2> QED BY <2>1, <2>2 DEF ValidatorSets
<1>2. /\ IsFiniteSet(DOMAIN vdrs) /\ DOMAIN vdrs \subseteq Nodes
      /\ \A n \in DOMAIN vdrs : vdrs[n].weight \in Nat
      /\ \E n \in DOMAIN vdrs : vdrs[n].weight > 0
  BY <1>1, PChainAssumption, SMT
<1>3. ASSUME NoSharedKeys, NEW n \in Keyed(vdrs), NEW k \in Keyed(vdrs), vdrs[n].key = vdrs[k].key
      PROVE  n = k
  <2>1. /\ n \in Nodes /\ k \in Nodes
        /\ vdrs[n].key = PChain[g].keys[n] /\ vdrs[k].key = PChain[g].keys[k]
        /\ vdrs[n].key # NoKey
    BY <1>1, <1>2 DEF Keyed
  <2> QED BY <1>3, <2>1 DEF NoSharedKeys
<1> QED BY <1>2, <1>3

\* Connections are to nodes of canonical validators.
LEMMA ConnectedNodes ==
    ASSUME NEW subnet, NEW c \in ConnectToCanonicalValidators(subnet)
    PROVE  c.vdrs \in ValidatorSets(subnet) /\ c.nodes \subseteq Keyed(c.vdrs)
<1>1. PICK vdrs \in ValidatorSets(subnet) : \E nodes \in ConnectPeers(Keyed(vdrs)) :
         c = [vdrs |-> vdrs, nodes |-> nodes]
  BY DEF ConnectToCanonicalValidators
<1>2. PICK nodes \in ConnectPeers(Keyed(vdrs)) : c = [vdrs |-> vdrs, nodes |-> nodes]
  BY <1>1
<1>3. nodes \subseteq Keyed(vdrs)
  BY <1>2 DEF ConnectPeers
<1> QED BY <1>1, <1>2, <1>3

\* Without shared keys a canonical validator weighs what its node weighs, and the
\* connected weight is the stake of the connected nodes.
LEMMA ConnectedStake ==
    ASSUME FiniteFacts, NoSharedKeys, NEW subnet \in Subnets, NEW c \in ConnectToCanonicalValidators(subnet)
    PROVE  ConnectedWeight(c) = StakeOf(Weights(c.vdrs), c.nodes)
<1> DEFINE vdrs == c.vdrs
           W == [n \in c.nodes |-> CanonicalWeight(vdrs, n)]
<1>1. vdrs \in ValidatorSets(subnet) /\ c.nodes \subseteq Keyed(vdrs)
  BY ConnectedNodes
<1> HIDE DEF vdrs
<1>2. /\ IsFiniteSet(DOMAIN vdrs)
      /\ \A n \in DOMAIN vdrs : vdrs[n].weight \in Nat
      /\ \A n, k \in Keyed(vdrs) : vdrs[n].key = vdrs[k].key => n = k
  BY <1>1, ValidatorSetType
<1>3. c.nodes \subseteq DOMAIN vdrs
  BY <1>1 DEF Keyed
<1>4. IsFiniteSet(c.nodes)
  BY <1>2, <1>3, FiniteSubset
<1>5. ASSUME NEW n \in c.nodes PROVE W[n] = Weights(vdrs)[n]
  <2>1. {k \in Keyed(vdrs) : vdrs[k].key = vdrs[n].key} = {n}
    BY <1>1, <1>2
  <2>2. Weights(vdrs)[n] \in Nat
    BY <1>2, <1>3 DEF Weights
  <2>3. StakeOf(Weights(vdrs), {n}) = Weights(vdrs)[n]
    BY <2>2, StakeOfFew
  <2> QED BY <2>1, <2>3 DEF CanonicalWeight
<1> HIDE DEF W
<1>6. StakeOf(W, c.nodes) = StakeOf(Weights(vdrs), c.nodes)
  BY <1>4, <1>5, StakeOfSameWeights, SMT
<1> QED BY <1>6 DEF ConnectedWeight, W, vdrs

\* Without shared keys a check that passes is a check of the stake that can sign.
LEMMA SufficientBacks ==
    ASSUME FiniteFacts, NoSharedKeys, NEW subnet \in Subnets, NEW c \in ConnectToCanonicalValidators(subnet),
           NEW chain, warpQuorum[chain] \in 1 .. WarpQuorumDenominator,
           Sufficient(ConnectedWeight(c), TotalValidatorWeight(c.vdrs), chain)
    PROVE  Backs(c, chain)
<1> DEFINE vdrs == c.vdrs
           signers == {n \in Keyed(vdrs) : \E k \in c.nodes : vdrs[k].key = vdrs[n].key}
<1>1. vdrs \in ValidatorSets(subnet) /\ c.nodes \subseteq Keyed(vdrs)
  BY ConnectedNodes
<1>2. ConnectedWeight(c) = StakeOf(Weights(vdrs), c.nodes)
  BY ConnectedStake
<1> HIDE DEF vdrs
<1>3. /\ IsFiniteSet(DOMAIN vdrs)
      /\ \A n \in DOMAIN vdrs : Weights(vdrs)[n] \in Nat
      /\ \E n \in DOMAIN vdrs : Weights(vdrs)[n] > 0
      /\ \A n, k \in Keyed(vdrs) : vdrs[n].key = vdrs[k].key => n = k
  BY <1>1, ValidatorSetType DEF Weights
<1>4. signers = c.nodes
  BY <1>1, <1>3
<1>5. TotalValidatorWeight(vdrs) > 0 /\ TotalValidatorWeight(vdrs) \in Nat
  <2>1. StakeOf(Weights(vdrs), DOMAIN vdrs) \in Nat
    BY <1>3, StakeOfType
  <2>2. StakeOf(Weights(vdrs), DOMAIN vdrs) > 0
    BY <1>3, StakeOfType
  <2> QED BY <2>1, <2>2 DEF TotalValidatorWeight
<1>6. Sufficient(StakeOf(Weights(vdrs), c.nodes), TotalValidatorWeight(vdrs), chain)
  BY <1>2 DEF vdrs
<1>7. c.nodes # {}
  <2> SUFFICES ASSUME c.nodes = {} PROVE FALSE
    OBVIOUS
  <2>1. StakeOf(Weights(vdrs), c.nodes) = 0
    BY StakeOfFew
  <2> DEFINE total == TotalValidatorWeight(vdrs)
             quorum == warpQuorum[chain]
  <2>2. total * quorum <= WarpQuorumDenominator * 0
    BY <1>6, <2>1 DEF Sufficient, CheckStakeWeightExceedsThreshold
  <2>3. total \in Nat /\ total > 0 /\ quorum \in Nat /\ quorum > 0
    BY <1>5, SMT DEF WarpQuorumDenominator
  <2> HIDE DEF total, quorum
  <2>4. total * quorum <= 0
    BY <2>2, SMT DEF WarpQuorumDenominator
  <2> QED BY <2>3, <2>4, SMT
<1> QED BY <1>4, <1>6, <1>7 DEF Backs, vdrs, signers

------------------------------------------------------------------------------
(* main's loops.                                                            *)

\* blockchainIDToSubnetID has a subnet for every supported destination.
LEMMA SubnetIDType ==
    ASSUME FiniteFacts, cfg \in ConfigType, NEW chain,
           \E k \in DOMAIN cfg.destinations : cfg.destinations[k].chain = chain
    PROVE  GetSubnetID(chain) \in Subnets
<1> DEFINE ofSources == {i \in DOMAIN cfg.sources : cfg.sources[i].chain = chain}
           ofDests == {i \in DOMAIN cfg.destinations : cfg.destinations[i].chain = chain}
<1>1. cfg.sources \in Seq(Sources) /\ cfg.destinations \in Seq(Destinations)
  BY DEF ConfigType
<1>2. ofSources # {} => Max(ofSources) \in ofSources
  <2>1. IsFiniteSet(ofSources) /\ ofSources \in SUBSET Nat
    BY <1>1, Indices, FiniteSubset
  <2> QED BY <2>1, MaxElement
<1>3. Max(ofDests) \in ofDests
  <2>1. IsFiniteSet(ofDests) /\ ofDests \in SUBSET Nat /\ ofDests # {}
    BY <1>1, Indices, FiniteSubset
  <2> QED BY <2>1, MaxElement
<1>4. ASSUME NEW i \in ofSources PROVE cfg.sources[i].subnet \in Subnets
  <2>1. cfg.sources[i] \in Sources
    BY <1>1, <1>4, Indices
  <2> QED BY <2>1 DEF Sources
<1>5. ASSUME NEW i \in ofDests PROVE cfg.destinations[i].subnet \in Subnets
  <2>1. cfg.destinations[i] \in Destinations
    BY <1>1, <1>5, Indices
  <2> QED BY <2>1 DEF Destinations
<1>6. GetSubnetID(chain) = IF ofSources # {} THEN cfg.sources[Max(ofSources)].subnet
                           ELSE cfg.destinations[Max(ofDests)].subnet
  BY DEF GetSubnetID
<1> HIDE DEF ofSources, ofDests
<1> QED BY <1>2, <1>3, <1>4, <1>5, <1>6

\* A quorum that GetWarpQuorum finds is a percentage, and not zero.
Quorums ==
    /\ warpQuorum \in [Chains -> {NoWarpConfig} \cup 1 .. WarpQuorumDenominator]
    /\ phase \in {"clients", "connect", "create", "running"} =>
          \A chain \in Chains : HasWarpQuorum(chain) =>
              warpQuorum[chain] \in 1 .. WarpQuorumDenominator

\* The loop over destinations runs within the lists, for sources of the primary network.
Loops ==
    /\ phase \in {"config", "quorums", "clients"} => source = 1 /\ dest = 1
    /\ phase = "connect" =>
          /\ dest = 1 \/ (source \in DOMAIN cfg.sources /\ Source.subnet = PrimaryNetworkID)
          /\ source \in DOMAIN cfg.sources => dest \in DOMAIN Dests

\* The j-th destination of the i-th source was checked, ...
Behind(i, j) ==
    \/ phase \in {"create", "running"}
    \/ phase = "connect" /\ (i < source \/ (i = source /\ j < dest))

\* ... and found to be backed.
IsBacked(i, j) ==
    LET s == cfg.sources[i]
        chain == SupportedDestinations(cfg, s)[j].chain
    IN  <<s.chain, chain, SigningSubnet(s, chain)>> \in backed

Backing ==
    NoSharedKeys /\ ~ warned =>
        \A i \in DOMAIN cfg.sources :
            \A j \in DOMAIN SupportedDestinations(cfg, cfg.sources[i]) :
                Behind(i, j) => IsBacked(i, j)

SInv == Quorums /\ Loops /\ Backing

\* A process that has not looked at its configuration yet satisfies SInv.
LEMMA InitSInv ==
    ASSUME NEW c, StartupInit(c)
    PROVE  SInv
<1>1. /\ phase = "config" /\ source = 1 /\ dest = 1
      /\ warpQuorum = [chain \in Chains |-> NoWarpConfig]
  BY DEF StartupInit
<1> QED BY <1>1 DEF SInv, Quorums, Loops, Backing, Behind

\* The signing subnets depend on the configuration only.
LEMMA SameSubnets ==
    ASSUME UNCHANGED cfg, NEW s, NEW chain
    PROVE  SigningSubnet(s, chain)' = SigningSubnet(s, chain)
<1>1. GetSubnetID(chain)' = GetSubnetID(chain)
  BY DEF GetSubnetID
<1> QED BY <1>1 DEF SigningSubnet

\* A destination that is entered in backed is backed in the next state, ...
LEMMA BackedNow ==
    ASSUME UNCHANGED cfg, NEW i, NEW j,
           LET s == cfg.sources[i]
               chain == SupportedDestinations(cfg, s)[j].chain
           IN  <<s.chain, chain, SigningSubnet(s, chain)>> \in backed'
    PROVE  IsBacked(i, j)'
<1> DEFINE s == cfg.sources[i]
           chain == SupportedDestinations(cfg, s)[j].chain
<1>1. SigningSubnet(s, chain)' = SigningSubnet(s, chain)
  BY SameSubnets
<1> QED BY <1>1 DEF IsBacked

\* ... and stays so.
LEMMA BackedStays ==
    ASSUME UNCHANGED cfg, backed \subseteq backed', NEW i, NEW j, IsBacked(i, j)
    PROVE  IsBacked(i, j)'
BY BackedNow DEF IsBacked

\* Steps of the running process leave main's variables alone.
LEMMA SameStartup ==
    ASSUME SInv, UNCHANGED startupVars
    PROVE  SInv'
<1> USE DEF startupVars
<1>1. Quorums'
  BY DEF SInv, Quorums, HasWarpQuorum
<1>2. Loops'
  BY DEF SInv, Loops, Source, Dests
<1>3. Backing'
  BY BackedStays DEF SInv, Backing, Behind
<1> QED BY <1>1, <1>2, <1>3 DEF SInv

\* A process that ends, or a new one, has no obligations.
LEMMA ExitSInv ==
    ASSUME SInv, Exit
    PROVE  SInv'
BY DEF Exit, SInv, Quorums, Loops, Backing, Behind

\* So does a new process, whatever the one before it left.
LEMMA RestartSInv ==
    ASSUME NEW c, StartupAgain(c)
    PROVE  SInv'
<1>1. /\ phase' = "config" /\ source' = 1 /\ dest' = 1
      /\ warpQuorum' = [chain \in Chains |-> NoWarpConfig]
  BY DEF StartupAgain
<1> QED BY <1>1 DEF SInv, Quorums, Loops, Backing, Behind

\* Every quorum that GetWarpQuorum can find was fetched.
LEMMA QuorumsFetched ==
    ASSUME FiniteFacts, SInv, cfg \in ConfigType, InitializeWarpQuorums
    PROVE  SInv'
<1>1. CASE Exit
  BY <1>1, ExitSInv
<1>2. CASE ~ Exit
  <2> DEFINE dests == cfg.destinations
             At(chain) == dests[CHOOSE i \in DOMAIN dests : dests[i].chain = chain]
             Listed(chain) == \E i \in DOMAIN dests : dests[i].chain = chain
  <2>1. /\ \A i \in DOMAIN dests : CanInitializeWarpQuorum(dests[i])
        /\ warpQuorum' = [chain \in Chains |->
               IF Listed(chain) THEN getWarpQuorum(At(chain).subnet, chain) ELSE NoWarpConfig]
        /\ phase = "quorums" /\ phase' = "clients"
        /\ UNCHANGED <<cfg, source, dest, warned, backed, relayers>>
    BY <1>2 DEF InitializeWarpQuorums
  <2>2. ASSUME NEW chain \in Chains, Listed(chain)
        PROVE  getWarpQuorum(At(chain).subnet, chain) \in 1 .. WarpQuorumDenominator
    <3>1. PICK i \in DOMAIN dests : At(chain) = dests[i] /\ dests[i].chain = chain
      BY <2>2
    <3> HIDE DEF At
    <3>2. getWarpQuorum(At(chain).subnet, chain) # NoWarpConfig
      BY <2>1, <3>1 DEF CanInitializeWarpQuorum
    <3> QED BY <3>2, getWarpQuorumType
  <2>3. ASSUME NEW chain, HasWarpQuorum(chain)
        PROVE  Listed(chain)
    BY <2>3 DEF HasWarpQuorum, Texts, Text
  <2> HIDE DEF At, Listed
  <2>4. Quorums'
    <3>1. \A chain \in Chains : warpQuorum'[chain] =
              IF Listed(chain) THEN getWarpQuorum(At(chain).subnet, chain) ELSE NoWarpConfig
      BY <2>1
    <3>2. warpQuorum' \in [Chains -> {NoWarpConfig} \cup 1 .. WarpQuorumDenominator]
      BY <2>1, <2>2
    <3>3. \A chain \in Chains : HasWarpQuorum(chain)' => HasWarpQuorum(chain)
      BY <2>1 DEF HasWarpQuorum
    <3> QED BY <2>2, <2>3, <3>1, <3>2, <3>3 DEF Quorums
  <2>5. Loops' /\ Backing'
    BY <2>1 DEF SInv, Loops, Backing, Behind
  <2> QED BY <2>4, <2>5 DEF SInv
<1> QED BY <1>1, <1>2

\* Nothing was checked when main begins to connect.
LEMMA ClientsSInv ==
    ASSUME SInv, cfg \in ConfigType, Validate(cfg), CreateClients
    PROVE  SInv'
<1>1. CASE Exit
  BY <1>1, ExitSInv
<1>2. CASE ~ Exit
  <2>1. /\ phase = "clients" /\ phase' = "connect"
        /\ UNCHANGED <<cfg, warpQuorum, source, dest, warned, backed, relayers>>
    BY <1>2 DEF CreateClients
  <2>2. source = 1 /\ dest = 1
    BY <2>1 DEF SInv, Loops
  <2>3. Quorums'
    BY <2>1 DEF SInv, Quorums, HasWarpQuorum
  <2>4. source \in DOMAIN cfg.sources => dest \in DOMAIN Dests
    BY <2>2, SupportedListed, SMT DEF Dests, Source
  <2>5. Loops'
    BY <2>1, <2>2, <2>4 DEF Loops, Dests, Source
  <2>6. Backing'
    <3>1. cfg.sources \in Seq(Sources)
      BY DEF ConfigType
    <3>2. ASSUME NEW i \in DOMAIN cfg.sources,
                 NEW j \in DOMAIN SupportedDestinations(cfg, cfg.sources[i])
          PROVE  ~ Behind(i, j)'
      <4>1. i \in Nat /\ i >= 1
        BY <3>1, SMT
      <4>2. j \in Nat /\ j >= 1
        BY SupportedListed, SMT
      <4> QED BY <2>1, <2>2, <4>1, <4>2, SMT DEF Behind
    <3> QED BY <2>1, <3>2 DEF Backing
  <2> QED BY <2>3, <2>5, <2>6 DEF SInv
<1> QED BY <1>1, <1>2

\* A destination whose check passed is backed.
LEMMA CheckedIsBacked ==
    ASSUME FiniteFacts, SInv, phase = "connect", NoSharedKeys, NEW subnet \in Subnets,
           NEW c \in ConnectToCanonicalValidators(subnet), NEW chain \in Chains,
           checkForSufficientConnectedStake(c, chain) = "ok"
    PROVE  Backs(c, chain)
<1>1. HasWarpQuorum(chain) /\ Sufficient(ConnectedWeight(c), TotalValidatorWeight(c.vdrs), chain)
  BY DEF checkForSufficientConnectedStake
<1>2. warpQuorum[chain] \in 1 .. WarpQuorumDenominator
  BY <1>1 DEF SInv, Quorums
<1> QED BY <1>1, <1>2, SufficientBacks

\* The sources of other subnets than the primary network: all destinations at once.
LEMMA NonPrimarySInv ==
    ASSUME FiniteFacts, SInv, cfg \in ConfigType, Validate(cfg), source \in Nat \ {0},
           connectToNonPrimaryNetworkPeers
    PROVE  SInv'
<1>1. CASE Exit
  BY <1>1, ExitSInv
<1>2. CASE ~ Exit
  <2> DEFINE verdict(c, j) == checkForSufficientConnectedStake(c, Dests[j].chain)
             short(c) == {j \in DOMAIN Dests : verdict(c, j) # "ok"}
             checked(c) == {j \in DOMAIN Dests : \A k \in short(c) : j < k}
  <2>1. /\ phase = "connect" /\ source <= Len(cfg.sources)
        /\ Source.subnet # PrimaryNetworkID
    BY DEF connectToNonPrimaryNetworkPeers
  <2>2. PICK c \in ConnectToCanonicalValidators(Source.subnet) :
           /\ warned' = (warned \/ short(c) # {})
           /\ backed' = backed \cup
                  {<<Source.chain, Dests[j].chain, Source.subnet>> :
                      j \in {k \in checked(c) : Backs(c, Dests[k].chain)}}
           /\ source' = source + 1
           /\ UNCHANGED <<phase, cfg, warpQuorum, dest, relayers>>
    BY <1>2 DEF connectToNonPrimaryNetworkPeers
  <2>3. cfg.sources \in Seq(Sources) /\ source \in DOMAIN cfg.sources
    BY <2>1, SMT DEF ConfigType
  <2>4. Source \in Sources
    BY <2>3, Indices DEF Source
  <2>5. Source.subnet \in Subnets
    BY <2>4 DEF Sources
  <2>6. Quorums'
    BY <2>2 DEF SInv, Quorums, HasWarpQuorum
  <2>7. dest = 1
    BY <2>1 DEF SInv, Loops
  <2>8. Loops'
    <3>1. source' \in DOMAIN cfg.sources => 1 \in DOMAIN SupportedDestinations(cfg, cfg.sources[source'])
      BY SupportedListed, SMT
    <3> QED BY <2>1, <2>2, <2>7, <3>1 DEF Loops, Dests, Source
  <2>9. ASSUME NoSharedKeys, ~ warned', NEW i \in DOMAIN cfg.sources, i = source,
               NEW j \in DOMAIN SupportedDestinations(cfg, cfg.sources[i])
        PROVE  IsBacked(i, j)'
    <3> DEFINE s == cfg.sources[i]
               chain == SupportedDestinations(cfg, s)[j].chain
    <3>1. s = Source /\ chain = Dests[j].chain /\ j \in DOMAIN Dests
      BY <2>9 DEF Source, Dests
    <3>2. short(c) = {}
      BY <2>2, <2>9
    <3>3. verdict(c, j) = "ok" /\ j \in checked(c)
      BY <3>1, <3>2
    <3>4. chain \in Chains
      BY SupportedType
    <3>5. Backs(c, chain)
      <4> HIDE DEF chain
      <4> QED BY <2>1, <2>5, <2>9, <3>1, <3>3, <3>4, CheckedIsBacked
    <3>6. <<s.chain, chain, s.subnet>> \in backed'
      <4>1. j \in {k \in checked(c) : Backs(c, Dests[k].chain)}
        BY <3>1, <3>3, <3>5
      <4> QED BY <2>2, <3>1, <4>1
    <3>7. SigningSubnet(s, chain) = s.subnet
      BY <2>1, <3>1 DEF SigningSubnet
    <3> QED BY <2>2, <3>6, <3>7, BackedNow
  <2>10. Backing'
    <3> SUFFICES ASSUME NoSharedKeys, ~ warned', NEW i \in DOMAIN cfg.sources,
                        NEW j \in DOMAIN SupportedDestinations(cfg, cfg.sources[i]), Behind(i, j)'
                 PROVE  IsBacked(i, j)'
      BY <2>2 DEF Backing
    <3>1. i \in Nat /\ j \in Nat /\ j >= 1
      BY <2>3, SupportedListed, SMT
    <3>2. i <= source
      BY <2>1, <2>2, <2>7, <3>1, SMT DEF Behind
    <3>3. CASE i = source
      BY <2>9, <3>3
    <3>4. CASE i # source
      <4>1. ~ warned /\ backed \subseteq backed' /\ UNCHANGED cfg
        BY <2>2
      <4>2. i < source
        BY <3>1, <3>2, <3>4, SMT
      <4>3. IsBacked(i, j)
        BY <2>1, <4>1, <4>2 DEF SInv, Backing, Behind
      <4> QED BY <4>1, <4>3, BackedStays
    <3> QED BY <3>3, <3>4
  <2> QED BY <2>6, <2>8, <2>10 DEF SInv
<1> QED BY <1>1, <1>2

\* The sources of the primary network: one destination after the other, until one
\* falls short.
LEMMA PrimarySInv ==
    ASSUME FiniteFacts, SInv, cfg \in ConfigType, Validate(cfg), source \in Nat \ {0},
           connectToPrimaryNetworkPeers
    PROVE  SInv'
<1>1. CASE Exit
  BY <1>1, ExitSInv
<1>2. CASE ~ Exit
  <2> DEFINE chain == Dests[dest].chain
             verdict(c) == checkForSufficientConnectedStake(c, chain)
             isLast(c) == dest = Len(Dests) \/ verdict(c) # "ok"
  <2>1. /\ phase = "connect" /\ source <= Len(cfg.sources)
        /\ Source.subnet = PrimaryNetworkID
    BY DEF connectToPrimaryNetworkPeers
  <2>2. PICK c \in ConnectToCanonicalValidators(GetSubnetID(chain)) :
           /\ warned' = (warned \/ verdict(c) # "ok")
           /\ backed' = IF verdict(c) = "ok" /\ Backs(c, chain)
                        THEN backed \cup {<<Source.chain, chain, GetSubnetID(chain)>>}
                        ELSE backed
           /\ source' = IF isLast(c) THEN source + 1 ELSE source
           /\ dest' = IF isLast(c) THEN 1 ELSE dest + 1
           /\ UNCHANGED <<phase, cfg, warpQuorum, relayers>>
    BY <1>2 DEF connectToPrimaryNetworkPeers
  <2>3. cfg.sources \in Seq(Sources) /\ source \in DOMAIN cfg.sources
    BY <2>1, SMT DEF ConfigType
  <2>4. dest \in DOMAIN Dests
    BY <2>1, <2>3 DEF SInv, Loops
  <2>5. DOMAIN Dests = 1 .. Len(Dests) /\ Len(Dests) \in Nat \ {0}
    BY <2>3, SupportedListed DEF Dests, Source
  <2>6. chain \in Chains
    BY <2>3, <2>4, SupportedType DEF Dests, Source
  <2>7. GetSubnetID(chain) \in Subnets
    <3>1. \E k \in DOMAIN cfg.destinations : cfg.destinations[k].chain = chain
      BY <2>3, <2>4, SupportedListed DEF Dests, Source
    <3> HIDE DEF chain
    <3> QED BY <3>1, SubnetIDType
  <2>8. Quorums'
    BY <2>2 DEF SInv, Quorums, HasWarpQuorum
  <2>9. Loops'
    <3>1. CASE isLast(c)
      <4>1. source' \in DOMAIN cfg.sources =>
               1 \in DOMAIN SupportedDestinations(cfg, cfg.sources[source'])
        BY SupportedListed, SMT
      <4>2. dest' = 1 /\ phase' = "connect" /\ cfg' = cfg
        BY <2>1, <2>2, <3>1
      <4> QED BY <4>1, <4>2 DEF Loops, Dests, Source
    <3>2. CASE ~ isLast(c)
      <4>1. dest + 1 \in DOMAIN Dests
        BY <2>4, <2>5, <3>2, SMT
      <4>2. source' = source /\ dest' = dest + 1 /\ phase' = "connect" /\ cfg' = cfg
        BY <2>1, <2>2, <3>2
      <4> QED BY <2>1, <2>3, <4>1, <4>2 DEF Loops, Dests, Source
    <3> QED BY <3>1, <3>2
  <2>10. ASSUME NoSharedKeys, ~ warned', NEW i \in DOMAIN cfg.sources, i = source,
                NEW j \in DOMAIN SupportedDestinations(cfg, cfg.sources[i]), j = dest
         PROVE  IsBacked(i, j)'
    <3> DEFINE s == cfg.sources[i]
    <3>1. s = Source /\ chain = SupportedDestinations(cfg, s)[j].chain
      BY <2>10 DEF Source, Dests
    <3>2. verdict(c) = "ok"
      BY <2>2, <2>10
    <3>3. Backs(c, chain)
      <4> HIDE DEF chain
      <4> QED BY <2>1, <2>6, <2>7, <2>10, <3>2, CheckedIsBacked
    <3>4. <<s.chain, chain, GetSubnetID(chain)>> \in backed'
      <4> HIDE DEF verdict
      <4> QED BY <2>2, <3>1, <3>2, <3>3
    <3>5. SigningSubnet(s, chain) = GetSubnetID(chain)
      BY <2>1, <3>1 DEF SigningSubnet
    <3> HIDE DEF chain
    <3> QED BY <2>2, <3>1, <3>4, <3>5, BackedNow
  <2>11. Backing'
    <3> SUFFICES ASSUME NoSharedKeys, ~ warned', NEW i \in DOMAIN cfg.sources,
                        NEW j \in DOMAIN SupportedDestinations(cfg, cfg.sources[i]), Behind(i, j)'
                 PROVE  IsBacked(i, j)'
      BY <2>2 DEF Backing
    <3>1. i \in Nat /\ j \in Nat /\ j >= 1
      BY <2>3, SupportedListed, SMT
    <3>2. i = source => j \in 1 .. Len(Dests)
      BY <2>5 DEF Dests, Source
    <3>3. i < source \/ (i = source /\ j <= dest)
      <4> HIDE DEF verdict
      <4>1. verdict(c) = "ok"
        BY <2>2
      <4>2. phase' = "connect"
        BY <2>1, <2>2
      <4>3. i < source' \/ (i = source' /\ j < dest')
        BY <4>2 DEF Behind
      <4>4. CASE isLast(c)
        BY <2>2, <2>4, <2>5, <3>1, <3>2, <4>1, <4>3, <4>4, SMT
      <4>5. CASE ~ isLast(c)
        BY <2>2, <2>4, <2>5, <3>1, <4>3, <4>5, SMT
      <4> QED BY <4>4, <4>5
    <3>4. CASE i = source /\ j = dest
      BY <2>10, <3>4
    <3>5. CASE ~ (i = source /\ j = dest)
      <4>1. ~ warned /\ backed \subseteq backed' /\ UNCHANGED cfg
        BY <2>2
      <4>2. i < source \/ (i = source /\ j < dest)
        BY <2>4, <2>5, <3>1, <3>3, <3>5, SMT
      <4>3. IsBacked(i, j)
        BY <2>1, <4>1, <4>2 DEF SInv, Backing, Behind
      <4> QED BY <4>1, <4>3, BackedStays
    <3> QED BY <3>4, <3>5
  <2> QED BY <2>8, <2>9, <2>11 DEF SInv
<1> QED BY <1>1, <1>2

\* After the last source every destination was checked; creating the application
\* relayers changes nothing of that.
LEMMA ConnectedSInv ==
    ASSUME SInv, cfg \in ConfigType, source \in Nat \ {0},
           InitializeServices \/ createApplicationRelayersForSourceChain
    PROVE  SInv'
<1>1. CASE Exit
  BY <1>1, ExitSInv
<1>2. CASE ~ Exit
  <2>1. /\ phase' \in {"create", "running"}
        /\ phase = "create" \/ (phase = "connect" /\ source > Len(cfg.sources))
        /\ UNCHANGED <<cfg, warpQuorum, dest, warned, backed>>
    BY <1>2 DEF InitializeServices, createApplicationRelayersForSourceChain
  <2>2. Quorums'
    BY <2>1 DEF SInv, Quorums, HasWarpQuorum
  <2>3. Loops'
    BY <2>1 DEF Loops
  <2>4. Backing'
    <3> SUFFICES ASSUME NoSharedKeys, ~ warned, NEW i \in DOMAIN cfg.sources,
                        NEW j \in DOMAIN SupportedDestinations(cfg, cfg.sources[i])
                 PROVE  IsBacked(i, j)'
      BY <2>1 DEF Backing
    <3>1. cfg.sources \in Seq(Sources)
      BY DEF ConfigType
    <3>2. i \in Nat /\ i <= Len(cfg.sources) /\ Len(cfg.sources) \in Nat
      BY <3>1, SMT
    <3>3. Behind(i, j)
      BY <2>1, <3>2, SMT DEF Behind
    <3>4. IsBacked(i, j)
      BY <3>3 DEF SInv, Backing
    <3> QED BY <2>1, <3>4, BackedStays
  <2> QED BY <2>2, <2>3, <2>4 DEF SInv
<1> QED BY <1>1, <1>2

\* Every step of main's start preserves SInv.
LEMMA PrepareSInv ==
    ASSUME FiniteFacts, SInv, cfg \in ConfigType, source \in Nat \ {0},
           phase \notin {"config", "exited"} => Validate(cfg), Prepare
    PROVE  SInv'
<1>1. CASE NewConfig
  <2>1. CASE Exit
    BY <2>1, ExitSInv
  <2>2. CASE ~ Exit
    BY <1>1, <2>2 DEF NewConfig, SInv, Quorums, Loops, Backing, Behind
  <2> QED BY <2>1, <2>2
<1>2. CASE InitializeWarpQuorums
  BY <1>2, QuorumsFetched
<1>3. CASE CreateClients
  <2>1. Validate(cfg)
    BY <1>3 DEF CreateClients
  <2> QED BY <1>3, <2>1, ClientsSInv
<1>4. CASE connectToNonPrimaryNetworkPeers
  <2>1. Validate(cfg)
    BY <1>4 DEF connectToNonPrimaryNetworkPeers
  <2> QED BY <1>4, <2>1, NonPrimarySInv
<1>5. CASE connectToPrimaryNetworkPeers
  <2>1. Validate(cfg)
    BY <1>5 DEF connectToPrimaryNetworkPeers
  <2> QED BY <1>5, <2>1, PrimarySInv
<1>6. CASE InitializeServices
  BY <1>6, ConnectedSInv
<1> QED BY <1>1, <1>2, <1>3, <1>4, <1>5, <1>6 DEF Prepare, Connect
================================================================================
