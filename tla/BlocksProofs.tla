---------------------------- MODULE BlocksProofs ----------------------------
(***************************************************************************)
(* Proofs about Blocks, for any addresses, stakes, generator, transactions *)
(* and sizes, and for any heights, slots, queues and failed reads.         *)
(*                                                                         *)
(* 1. What each operator does to a world that is one of the program's      *)
(*    (WorldOK): the draw finds a validator and only moves coins, a        *)
(*    transaction burns the base fee and moves the rest, a reward adds to  *)
(*    one balance.  Evolves says what two worlds have in common.           *)
(* 2. Sound, the invariant: the blocks of the chain and the block under    *)
(*    work are made of such worlds, and every block is some slots after    *)
(*    its parent.  A verifier that replays a block draws as often as its   *)
(*    builder did, so what it accepts is a step from such a world too      *)
(*    (AcceptedAddUp).                                                     *)
(* 3. Clean, beside it: as long as nothing was lost, the block under work  *)
(*    is what a replay of its transactions so far gives, except for the    *)
(*    accounts in the cache (CleanVerify).                                 *)
(* 4. The statistics, as sums over stretches of the chain, over the        *)
(*    heights at which a window is born, rotates or grows.                 *)
(* 5. The trees of an era (Trees): their nodes lie on the paths of blocks  *)
(*    so far, so what a block needs in memory is on the path it read, and  *)
(*    no filter is lost, unless a builder lacked a node.                   *)
(***************************************************************************)
EXTENDS Blocks, SumTheorems

-----------------------------------------------------------------------------
(* The draw.                                                               *)

(* Some of the addresses come first in the order of the keys. *)
LEMMA Lowest ==
    ASSUME NEW S \in SUBSET Addresses, S # {}
    PROVE  \E v \in S : \A u \in S : Place[v] <= Place[u]
<1> DEFINE T == {Place[v] : v \in S}
<1>1. Place \in [Addresses -> Nat]
  BY BlocksAssumption DEF BlocksAssumption
<1>2. T \in SUBSET Nat /\ T # {}
  BY <1>1
<1>3. PICK m \in T : \A n \in T : m <= n
  BY <1>2, LeastNat
<1> QED
  BY <1>3

(* And some come last. *)
LEMMA Highest ==
    ASSUME NEW S \in SUBSET Addresses, S # {}
    PROVE  \E v \in S : \A u \in S : Place[u] <= Place[v]
<1> DEFINE T == {n \in Nat : \A u \in S : Place[u] <= n}
<1>1. Place \in [Addresses -> Nat] /\ IsFiniteSet(Addresses)
  BY BlocksAssumption DEF BlocksAssumption
<1>2. IsFiniteSet(S) /\ \A u \in S : Place[u] \in Nat
  BY <1>1, FS_Subset
<1>3. SumFunctionOnSet(Place, S) \in T
  BY <1>2, SumNat
<1>4. T \in SUBSET Nat /\ T # {}
  BY <1>3
<1>5. PICK m \in T : \A n \in T : m <= n
  BY <1>4, LeastNat
<1>6. m \in Nat /\ \A u \in S : Place[u] <= m
  BY <1>5
<1>7. \E v \in S : Place[v] = m
  <2> SUFFICES ASSUME \A v \in S : Place[v] # m PROVE FALSE
    OBVIOUS
  <2>1. \A u \in S : Place[u] <= m - 1
    BY <1>2, <1>6
  <2>2. m # 0
    BY <1>2, <2>1
  <2>3. m - 1 \in T
    BY <1>6, <2>1, <2>2
  <2> QED
    BY <1>5, <1>6, <2>3
<1> QED
  BY <1>6, <1>7

(* The number drawn falls on the stake of one of the stakers. *)
LEMMA PickIn ==
    ASSUME NEW D \in SUBSET Addresses, D # {}, NEW stake \in [D -> Nat \ {0}],
           NEW number \in Nat
    PROVE  Pick(stake, number) \in D
<1> DEFINE below(v) == SumFunctionOnSet(stake, {u \in D : Place[u] < Place[v]})
           upTo(v)  == SumFunctionOnSet(stake, {u \in D : Place[u] <= Place[v]})
           total    == SumFunctionOnSet(stake, D)
           choice   == number % total
           H        == {v \in D : choice < upTo(v)}
<1>1. /\ IsFiniteSet(D) /\ \A v \in D : Place[v] \in Nat /\ stake[v] \in Nat /\ stake[v] > 0
      /\ \A u, v \in D : Place[u] = Place[v] => u = v
  BY BlocksAssumption, FS_Subset DEF BlocksAssumption
<1>2. total \in Nat /\ \A v \in D : stake[v] <= total
  BY <1>1, SumNat
<1>3. total > 0
  BY <1>1, <1>2
<1>4. choice \in Nat /\ choice < total
  <2> HIDE DEF total
  <2> QED
    BY <1>2, <1>3
<1>5. ASSUME NEW v \in D PROVE upTo(v) = below(v) + stake[v] /\ below(v) \in Nat
  <2> DEFINE B == {u \in D : Place[u] < Place[v]}
  <2>1. {u \in D : Place[u] <= Place[v]} = B \cup {v} /\ v \notin B /\ B \in SUBSET D
    BY <1>1
  <2>2. IsFiniteSet(B) /\ \A u \in B \cup {v} : stake[u] \in Int /\ stake[u] \in Nat
    BY <1>1, <2>1, FS_Subset
  <2> HIDE DEF B
  <2>3. SumFunctionOnSet(stake, B) \in Nat
    BY <2>2, SumNat
  <2>4. SumFunctionOnSet(stake, B \cup {v}) = stake[v] + SumFunctionOnSet(stake, B)
    BY <2>1, <2>2, SumAdd
  <2> USE DEF B
  <2>5. below(v) = SumFunctionOnSet(stake, B) /\ upTo(v) = SumFunctionOnSet(stake, B \cup {v})
    BY <2>1
  <2> HIDE DEF B, below, upTo
  <2> QED
    BY <1>1, <2>3, <2>4, <2>5
<1>6. H # {}
  <2>1. PICK v \in D : \A u \in D : Place[u] <= Place[v]
    BY Highest
  <2>2. {u \in D : Place[u] <= Place[v]} = D
    BY <2>1
  <2>3. upTo(v) = total
    BY <2>2
  <2> HIDE DEF upTo, total, choice
  <2> QED
    BY <1>4, <2>3
<1>7. PICK v \in H : \A u \in H : Place[v] <= Place[u]
  <2>1. H \in SUBSET Addresses
    OBVIOUS
  <2> HIDE DEF H
  <2> QED
    BY <1>6, <2>1, Lowest
<1>8. v \in D /\ choice < below(v) + stake[v]
  <2> HIDE DEF choice, below, upTo
  <2> QED
    BY <1>5, <1>7
<1>9. below(v) <= choice
  <2> DEFINE B == {u \in D : Place[u] < Place[v]}
  <2>1. CASE B = {}
    <3>1. below(v) = 0
      BY <2>1, SumEmpty
    <3> HIDE DEF choice, below
    <3> QED
      BY <1>4, <3>1
  <2>2. CASE B # {}
    <3>1. PICK u \in B : \A w \in B : Place[w] <= Place[u]
      <4>1. B \in SUBSET Addresses
        OBVIOUS
      <4> HIDE DEF B
      <4> QED
        BY <2>2, <4>1, Highest
    <3>2. {w \in D : Place[w] <= Place[u]} = B
      BY <1>1, <1>8, <3>1
    <3>3. upTo(u) = below(v)
      BY <3>2
    <3>4. u \notin H /\ u \in D
      <4>1. u \in D /\ Place[u] < Place[v] /\ Place[u] \in Nat /\ Place[v] \in Nat
        BY <1>1, <1>8, <3>1
      <4> HIDE DEF H, B
      <4> QED
        BY <1>7, <4>1
    <3>5. ~(choice < upTo(u))
      <4> HIDE DEF choice, upTo
      <4> QED
        BY <3>4
    <3> HIDE DEF choice, below, upTo, H, B
    <3> QED
      BY <1>4, <1>5, <1>8, <3>3, <3>5
  <2> QED
    BY <2>1, <2>2
<1>10. \E w \in D : below(w) <= choice /\ choice < below(w) + stake[w]
  <2> HIDE DEF choice, below
  <2> QED
    BY <1>8, <1>9
<1>11. DOMAIN stake = D /\ SumFunction(stake) = total
  BY DEF SumFunction
<1>12. Pick(stake, number) =
          CHOOSE w \in D : below(w) <= choice /\ choice < below(w) + stake[w]
  BY <1>11 DEF Pick
<1> HIDE DEF choice, below
<1> QED
  BY <1>10, <1>12
-----------------------------------------------------------------------------
(* Worlds.                                                                 *)

WorldOK(w) ==
    /\ IsWorld(w)
    /\ {Treasury, Storage} \subseteq DOMAIN w.account
    /\ DOMAIN w.stake # {}
    /\ Treasury \notin DOMAIN w.stake
    /\ Surplus(w) >= 0

(* The coins of each address. *)
Held(w) == [a \in Addresses |-> IF a \in DOMAIN w.account THEN w.account[a].balance ELSE 0]

(* What becomes of a world when nothing fails: n coins more. *)
Evolves(w, x, n) ==
    /\ WorldOK(x)
    /\ DOMAIN x.stake = DOMAIN w.stake
    /\ DOMAIN w.account \subseteq DOMAIN x.account
    /\ \A a \in DOMAIN w.account : x.account[a].counter >= w.account[a].counter
    /\ x.record = w.record
    /\ Surplus(x) >= Surplus(w)
    /\ Coins(x) = Coins(w) + n

(* The types a world's parts have. *)
LEMMA WorldIs ==
    ASSUME NEW w, IsWorld(w)
    PROVE  /\ DOMAIN w.account \in SUBSET Addresses /\ DOMAIN w.stake \in SUBSET Addresses
           /\ IsFiniteSet(Addresses) /\ IsFiniteSet(DOMAIN w.account)
           /\ IsFiniteSet(DOMAIN w.stake)
           /\ \A a \in DOMAIN w.account :
                 /\ w.account[a].balance \in Nat /\ w.account[a].counter \in Nat
                 /\ w.account[a] = [balance |-> w.account[a].balance,
                                    counter |-> w.account[a].counter]
           /\ \A v \in DOMAIN w.stake : w.stake[v] \in Nat /\ w.stake[v] > 0
           /\ \A a \in Addresses : Held(w)[a] \in Nat
           /\ Staked(w) \in Nat /\ \A v \in DOMAIN w.stake : w.stake[v] <= Staked(w)
<1>1. /\ DOMAIN w.account \in SUBSET Addresses /\ DOMAIN w.stake \in SUBSET Addresses
      /\ IsFiniteSet(Addresses)
  BY BlocksAssumption DEF BlocksAssumption, IsWorld
<1>2. IsFiniteSet(DOMAIN w.account) /\ IsFiniteSet(DOMAIN w.stake)
  BY <1>1, FS_Subset
<1>3. \A a \in DOMAIN w.account :
                 /\ w.account[a].balance \in Nat /\ w.account[a].counter \in Nat
                 /\ w.account[a] = [balance |-> w.account[a].balance,
                                    counter |-> w.account[a].counter]
  BY DEF IsWorld, Account
<1>4. \A v \in DOMAIN w.stake : w.stake[v] \in Nat /\ w.stake[v] > 0
  BY DEF IsWorld
<1>5. \A a \in Addresses : Held(w)[a] \in Nat
  BY <1>3 DEF Held
<1>6. Staked(w) \in Nat /\ \A v \in DOMAIN w.stake : w.stake[v] <= Staked(w)
  BY <1>2, <1>4, SumNat DEF Staked, SumFunction
<1> QED
  BY <1>1, <1>2, <1>3, <1>4, <1>5, <1>6

(* An address without an account has no coins. *)
LEMMA CoinsIs ==
    ASSUME NEW w, IsWorld(w)
    PROVE  Coins(w) = SumFunctionOnSet(Held(w), Addresses) /\ Coins(w) \in Nat
<1> DEFINE f == [a \in DOMAIN w.account |-> w.account[a].balance]
           D == DOMAIN w.account
<1>1. /\ IsFiniteSet(Addresses) /\ D \in SUBSET Addresses /\ DOMAIN f = D
      /\ \A a \in D : f[a] \in Int
      /\ \A a \in Addresses : Held(w)[a] = IF a \in D THEN f[a] ELSE 0
      /\ \A a \in Addresses : Held(w)[a] \in Nat
  BY WorldIs DEF Held
<1>2. Coins(w) = SumFunctionOnSet(f, D)
  BY <1>1 DEF Coins, SumFunction
<1> HIDE DEF f, D
<1>3. SumFunctionOnSet(Held(w), Addresses) = SumFunctionOnSet(f, D)
  BY <1>1, SumRestrict
<1>4. SumFunctionOnSet(Held(w), Addresses) \in Nat
  BY <1>1, SumNat
<1> QED
  BY <1>2, <1>3, <1>4

(* Three addresses gain, or lose, perhaps one of them more than once. *)
LEMMA ThreeGains ==
    ASSUME NEW f, \A a \in Addresses : f[a] \in Int,
           NEW p \in Addresses, NEW k \in Int,
           NEW q \in Addresses, NEW l \in Int,
           NEW r \in Addresses, NEW m \in Int,
           NEW g, \A a \in Addresses : g[a] = f[a] + (IF a = p THEN k ELSE 0)
                                                   + (IF a = q THEN l ELSE 0)
                                                   + (IF a = r THEN m ELSE 0)
    PROVE  SumFunctionOnSet(g, Addresses) = SumFunctionOnSet(f, Addresses) + k + l + m
<1> DEFINE f1 == [a \in Addresses |-> f[a] + (IF a = p THEN k ELSE 0)]
           f2 == [a \in Addresses |-> f1[a] + (IF a = q THEN l ELSE 0)]
<1>1. IsFiniteSet(Addresses)
  BY BlocksAssumption DEF BlocksAssumption
<1>2. /\ \A a \in Addresses : f1[a] \in Int /\ f1[a] = f[a] + (IF a = p THEN k ELSE 0)
      /\ \A a \in Addresses : f2[a] \in Int /\ f2[a] = f1[a] + (IF a = q THEN l ELSE 0)
      /\ \A a \in Addresses : g[a] = f2[a] + (IF a = r THEN m ELSE 0)
  OBVIOUS
<1> HIDE DEF f1, f2
<1>3. SumFunctionOnSet(f1, Addresses) = SumFunctionOnSet(f, Addresses) + k
  BY <1>1, <1>2, SumGain
<1>4. SumFunctionOnSet(f2, Addresses) = SumFunctionOnSet(f1, Addresses) + l
  BY <1>1, <1>2, SumGain
<1>5. SumFunctionOnSet(g, Addresses) = SumFunctionOnSet(f2, Addresses) + m
  BY <1>1, <1>2, SumGain
<1> QED
  BY <1>3, <1>4, <1>5

(* A move of coins between three addresses at most. *)
LEMMA CoinsMove ==
    ASSUME NEW w, IsWorld(w), NEW x, IsWorld(x),
           NEW p \in Addresses, NEW k \in Int,
           NEW q \in Addresses, NEW l \in Int,
           NEW r \in Addresses, NEW m \in Int,
           \A a \in Addresses : Held(x)[a] = Held(w)[a] + (IF a = p THEN k ELSE 0)
                                                        + (IF a = q THEN l ELSE 0)
                                                        + (IF a = r THEN m ELSE 0)
    PROVE  Coins(x) = Coins(w) + k + l + m
<1> DEFINE f == Held(w)
           g == Held(x)
<1>1. \A a \in Addresses : f[a] \in Int
  BY WorldIs
<1>2. Coins(w) = SumFunctionOnSet(f, Addresses) /\ Coins(x) = SumFunctionOnSet(g, Addresses)
  BY CoinsIs
<1>3. \A a \in Addresses : g[a] = f[a] + (IF a = p THEN k ELSE 0)
                                      + (IF a = q THEN l ELSE 0)
                                      + (IF a = r THEN m ELSE 0)
  OBVIOUS
<1> HIDE DEF f, g
<1>4. SumFunctionOnSet(g, Addresses) = SumFunctionOnSet(f, Addresses) + k + l + m
  BY <1>1, <1>3, ThreeGains
<1> QED
  BY <1>2, <1>4

(* The surplus is a number. *)
LEMMA SurplusIs ==
    ASSUME NEW w, WorldOK(w)
    PROVE  /\ Surplus(w) \in Nat
           /\ w.account[Treasury].balance = Surplus(w) + Staked(w)
           /\ Treasury \in DOMAIN w.account /\ w.account[Treasury].balance \in Nat
<1>1. Treasury \in DOMAIN w.account /\ IsWorld(w) /\ Surplus(w) >= 0
  BY DEF WorldOK
<1>2. w.account[Treasury].balance \in Nat /\ Staked(w) \in Nat
  BY <1>1, WorldIs
<1> QED
  BY <1>1, <1>2 DEF Surplus

(* Worlds only get on. *)
LEMMA EvolvesOn ==
    ASSUME NEW w, WorldOK(w), NEW x, NEW y, NEW m \in Int, NEW n \in Int,
           Evolves(w, x, m), Evolves(x, y, n)
    PROVE  Evolves(w, y, m + n)
<1>1. IsWorld(w) /\ IsWorld(x) /\ IsWorld(y)
  BY DEF Evolves, WorldOK
<1>2. Coins(w) \in Nat
  BY <1>1, CoinsIs
<1>3. \A a \in DOMAIN w.account : /\ a \in DOMAIN x.account /\ a \in DOMAIN y.account
                                  /\ w.account[a].counter \in Nat
                                  /\ x.account[a].counter \in Nat
                                  /\ y.account[a].counter \in Nat
  BY <1>1, WorldIs DEF Evolves
<1>4. Surplus(w) \in Int /\ Surplus(x) \in Int /\ Surplus(y) \in Int
  BY SurplusIs DEF Evolves
<1>5. \A a \in DOMAIN w.account : y.account[a].counter >= w.account[a].counter
  BY <1>3 DEF Evolves
<1>6. Surplus(y) >= Surplus(w) /\ Coins(y) = Coins(w) + (m + n)
  BY <1>2, <1>4 DEF Evolves
<1> QED
  BY <1>5, <1>6 DEF Evolves

(* A world that stays as it is. *)
LEMMA EvolvesNot ==
    ASSUME NEW w, WorldOK(w)
    PROVE  Evolves(w, w, 0)
<1>1. IsWorld(w)
  BY DEF WorldOK
<1>2. Coins(w) \in Nat /\ Surplus(w) \in Int
  BY <1>1, CoinsIs, SurplusIs
<1>3. \A a \in DOMAIN w.account : w.account[a].counter \in Nat
  BY <1>1, WorldIs
<1> QED
  BY <1>2, <1>3 DEF Evolves

(* Halving a stake hands its coins back.  A staker always keeps one. *)
LEMMA HalvedOK ==
    ASSUME NEW w, WorldOK(w), NEW v \in DOMAIN w.stake
    PROVE  Evolves(w, Halved(w, v), 0)
<1> DEFINE s        == w.stake[v]
           kept     == IF s < 2 THEN 1 ELSE s \div 2
           returned == s - kept
           account  == IF v \in DOMAIN w.account THEN w.account[v] ELSE NewAccount
           x        == Halved(w, v)
<1>1. IsWorld(w) /\ DOMAIN w.stake \in SUBSET Addresses /\ DOMAIN w.account \in SUBSET Addresses
      /\ IsFiniteSet(DOMAIN w.stake)
  BY WorldIs DEF WorldOK
<1>2. s \in Nat /\ s > 0 /\ s <= Staked(w) /\ Staked(w) \in Nat
  BY <1>1, WorldIs
<1>3. kept \in Nat /\ kept > 0 /\ kept <= s /\ returned \in Nat /\ returned <= s
  <2> HIDE DEF s
  <2> QED
    BY <1>2
<1>4. v # Treasury /\ v \in Addresses /\ Treasury \in DOMAIN w.account
      /\ Treasury \in Addresses /\ Storage \in DOMAIN w.account
  BY <1>1 DEF WorldOK
<1>5. account = [balance |-> account.balance, counter |-> account.counter]
      /\ account.balance \in Nat /\ account.counter \in Nat
  BY <1>1, WorldIs DEF NewAccount
<1>6. /\ w.account[Treasury] = [balance |-> w.account[Treasury].balance,
                                counter |-> w.account[Treasury].counter]
      /\ w.account[Treasury].balance \in Nat /\ w.account[Treasury].counter \in Nat
      /\ w.account[Treasury].balance >= returned
      /\ w.account[Treasury].balance = Surplus(w) + Staked(w) /\ Surplus(w) \in Nat
  <2>1. w.account[Treasury].balance = Surplus(w) + Staked(w) /\ Surplus(w) \in Nat
    BY SurplusIs
  <2>2. w.account[Treasury].balance >= returned
    <3> HIDE DEF s, kept
    <3> QED
      BY <1>2, <1>3, <2>1
  <2> QED
    BY <1>1, <1>4, <2>1, <2>2, WorldIs
<1>7. CASE returned = 0
  <2>1. x = w
    BY <1>7 DEF Halved
  <2> QED
    BY <2>1, EvolvesNot
<1>8. CASE returned # 0
  <2> DEFINE paid     == [account EXCEPT !.balance = @ + returned]
             taken    == [w.account[Treasury] EXCEPT !.balance = @ - returned]
  <2>1. x = [account |-> [a \in DOMAIN w.account \cup {v} |->
                              CASE a = v        -> paid
                                [] a = Treasury -> taken
                                [] OTHER        -> w.account[a]],
             stake   |-> [w.stake EXCEPT ![v] = kept],
             record  |-> w.record]
    BY <1>8 DEF Halved
  <2>2. /\ paid = [balance |-> account.balance + returned, counter |-> account.counter]
        /\ taken = [balance |-> w.account[Treasury].balance - returned,
                       counter |-> w.account[Treasury].counter]
    BY <1>5, <1>6
  <2>3. /\ DOMAIN x.account = DOMAIN w.account \cup {v}
        /\ x.account[v] = paid /\ x.account[Treasury] = taken
        /\ \A a \in DOMAIN w.account \ {v, Treasury} : x.account[a] = w.account[a]
        /\ DOMAIN x.stake = DOMAIN w.stake /\ x.stake[v] = kept
        /\ \A u \in DOMAIN w.stake \ {v} : x.stake[u] = w.stake[u]
        /\ x.record = w.record
        /\ x = [account |-> x.account, stake |-> x.stake, record |-> x.record]
    <3> HIDE DEF paid, taken, kept
    <3>1. w.stake = [u \in DOMAIN w.stake |-> w.stake[u]]
      BY <1>1 DEF IsWorld
    <3> QED
      BY <1>4, <2>1, <3>1
  <2> HIDE DEF x
  <2>4. x.account \in [DOMAIN x.account -> Account]
    <3>1. paid \in Account /\ taken \in Account
      <4> HIDE DEF account, returned
      <4> QED
        BY <1>3, <1>5, <1>6, <2>2 DEF Account
    <3>2. \A a \in DOMAIN w.account : w.account[a] \in Account
      BY <1>1 DEF IsWorld
    <3>3. x.account = [a \in DOMAIN x.account |-> x.account[a]]
      BY <2>1 DEF x
    <3> HIDE DEF paid, taken
    <3> QED
      BY <2>3, <3>1, <3>2, <3>3
  <2>5. x.stake \in [DOMAIN x.stake -> Nat \ {0}]
    <3>1. x.stake = [u \in DOMAIN x.stake |-> x.stake[u]]
      BY <2>1 DEF x
    <3>2. \A u \in DOMAIN w.stake : w.stake[u] \in Nat \ {0}
      BY <1>1 DEF IsWorld
    <3>3. kept \in Nat \ {0}
      BY <1>3
    <3> HIDE DEF kept
    <3> QED
      BY <2>3, <3>1, <3>2, <3>3
  <2>6. IsWorld(x)
    BY <1>1, <1>4, <2>3, <2>4, <2>5 DEF IsWorld
  <2>7. Staked(x) = Staked(w) - returned
    <3> DEFINE f == w.stake
               g == x.stake
               D == DOMAIN w.stake
    <3>1. /\ IsFiniteSet(D) /\ v \in D /\ \A u \in D : f[u] \in Int
          /\ g[v] \in Int /\ g[v] = kept /\ \A u \in D \ {v} : g[u] = f[u]
          /\ DOMAIN g = D
      BY <1>1, <1>3, <2>3, WorldIs
    <3>2. Staked(x) = SumFunctionOnSet(g, D) /\ Staked(w) = SumFunctionOnSet(f, D)
      BY <3>1 DEF Staked, SumFunction
    <3> HIDE DEF f, g, D, kept
    <3>3. SumFunctionOnSet(g, D) = SumFunctionOnSet(f, D) + (g[v] - f[v])
      BY <3>1, SumChange
    <3>4. f[v] = s
      BY DEF f
    <3> HIDE DEF s
    <3> QED
      BY <1>2, <1>3, <3>1, <3>2, <3>3, <3>4
  <2>8. Surplus(x) = Surplus(w)
    <3>1. Surplus(x) = (w.account[Treasury].balance - returned) - (Staked(w) - returned)
      BY <2>2, <2>3, <2>7 DEF Surplus
    <3> HIDE DEF returned
    <3> QED
      BY <1>2, <1>3, <1>6, <3>1
  <2>9. \A a \in Addresses : Held(x)[a] = Held(w)[a] + (IF a = v THEN returned ELSE 0)
                                                     + (IF a = Treasury THEN 0 - returned ELSE 0)
                                                     + (IF a = v THEN 0 ELSE 0)
    <3> SUFFICES ASSUME NEW a \in Addresses
                 PROVE  Held(x)[a] = Held(w)[a] + (IF a = v THEN returned ELSE 0)
                                                + (IF a = Treasury THEN 0 - returned ELSE 0)
                                                + (IF a = v THEN 0 ELSE 0)
      OBVIOUS
    <3>1. Held(w)[a] \in Nat
      BY <1>1, WorldIs
    <3>2. CASE a = v
      <4>1. Held(x)[a] = account.balance + returned
        BY <2>2, <2>3, <3>2 DEF Held
      <4>2. Held(w)[a] = account.balance
        BY <3>2 DEF Held, NewAccount
      <4> HIDE DEF returned, account
      <4> QED
        BY <1>3, <1>4, <1>5, <3>2, <4>1, <4>2
    <3>3. CASE a = Treasury
      <4>1. Held(x)[a] = w.account[Treasury].balance - returned
        BY <1>4, <2>2, <2>3, <3>3 DEF Held
      <4>2. Held(w)[a] = w.account[Treasury].balance
        BY <1>4, <3>3 DEF Held
      <4> HIDE DEF returned
      <4> QED
        BY <1>3, <1>4, <1>6, <3>3, <4>1, <4>2
    <3>4. CASE a \notin {v, Treasury}
      <4>1. Held(x)[a] = Held(w)[a]
        BY <2>3, <3>4 DEF Held
      <4> QED
        BY <3>1, <3>4, <4>1
    <3> QED
      BY <3>2, <3>3, <3>4
  <2>10. Coins(x) = Coins(w)
    <3> HIDE DEF returned
    <3>1. returned \in Int /\ (0 - returned) \in Int /\ 0 \in Int
      BY <1>3
    <3> DEFINE back == 0 - returned
               more == 0
    <3>2. /\ back \in Int /\ returned \in Int /\ more \in Int
          /\ \A a \in Addresses : Held(x)[a] = Held(w)[a] + (IF a = v THEN returned ELSE 0)
                                                        + (IF a = Treasury THEN back ELSE 0)
                                                        + (IF a = v THEN more ELSE 0)
      BY <2>9, <3>1
    <3> HIDE DEF back, more
    <3>3. Coins(x) = Coins(w) + returned + back + more
      BY <1>1, <1>4, <2>6, <3>2, CoinsMove
    <3>4. Coins(x) = Coins(w) + returned + (0 - returned) + 0
      BY <3>3 DEF back, more
    <3>5. Coins(w) \in Nat
      BY <1>1, CoinsIs
    <3> QED
      BY <1>3, <3>4, <3>5
  <2>11. \A a \in DOMAIN w.account : x.account[a].counter = w.account[a].counter
    <3> SUFFICES ASSUME NEW a \in DOMAIN w.account
                 PROVE  x.account[a].counter = w.account[a].counter
      OBVIOUS
    <3>1. CASE a = v
      BY <2>2, <2>3, <3>1
    <3>2. CASE a = Treasury
      BY <2>2, <2>3, <3>2
    <3>3. CASE a \notin {v, Treasury}
      BY <2>3, <3>3
    <3> QED
      BY <3>1, <3>2, <3>3
  <2>12. \A a \in DOMAIN w.account : w.account[a].counter \in Nat
    BY <1>1, WorldIs
  <2>13. Surplus(w) \in Nat /\ Coins(w) \in Nat
    BY <1>1, SurplusIs, CoinsIs
  <2>14. WorldOK(x)
    BY <1>4, <2>3, <2>6, <2>8, <2>13 DEF WorldOK
  <2>15. Evolves(w, x, 0)
    BY <2>3, <2>8, <2>10, <2>11, <2>12, <2>13, <2>14 DEF Evolves
  <2> QED
    BY <2>15 DEF x
<1> QED
  BY <1>7, <1>8

(* One pick and its halving. *)
LEMMA DrawnOK ==
    ASSUME NEW d, WorldOK(d.world), NEW unread, DOMAIN d.world.stake \ unread # {},
           NEW number \in Nat
    PROVE  /\ Drawn(d, number, unread).validator \in DOMAIN d.world.stake
           /\ Evolves(d.world, Drawn(d, number, unread).world, 0)
<1> DEFINE D     == DOMAIN d.world.stake \ unread
           stake == [v \in D |-> d.world.stake[v]]
           v     == Pick(stake, number)
<1>1. D \in SUBSET Addresses /\ stake \in [D -> Nat \ {0}]
  BY WorldIs DEF WorldOK
<1>2. v \in D
  <2> HIDE DEF D, stake
  <2> QED
    BY <1>1, PickIn DEF D
<1>3. Evolves(d.world, Halved(d.world, v), 0)
  <2> HIDE DEF v
  <2> QED
    BY <1>2, HalvedOK
<1>4. /\ Drawn(d, number, unread).validator = v
      /\ Drawn(d, number, unread).world = Halved(d.world, v)
  BY DEF Drawn
<1> QED
  BY <1>2, <1>3, <1>4

(* The draws of the slots, one after the other. *)
LEMMA DrawIs ==
    ASSUME NEW world, NEW h, NEW unread, NEW slots \in Nat
    PROVE  \E draw : /\ Draw(world, h, slots, unread) = draw[slots]
                     /\ draw[0] = NoDraw(world)
                     /\ \A i \in 1..slots : draw[i] = Drawn(draw[i - 1], Roll(h, i), unread)
<1> DEFINE Is(f, n) == f = [i \in 0..n |-> IF i = 0 THEN NoDraw(world)
                                           ELSE Drawn(f[i - 1], Roll(h, i), unread)]
           Bad == {n \in Nat : ~\E f : Is(f, n)}
<1>1. Bad = {}
  <2> SUFFICES ASSUME Bad # {} PROVE FALSE
    OBVIOUS
  <2>1. PICK m \in Bad : \A n \in Bad : m <= n
    <3>1. Bad \in SUBSET Nat
      OBVIOUS
    <3> HIDE DEF Bad
    <3> QED
      BY <3>1, LeastNat
  <2>2. CASE m = 0
    <3>1. Is([i \in 0..0 |-> NoDraw(world)], 0)
      OBVIOUS
    <3> QED
      BY <2>1, <2>2, <3>1
  <2>3. CASE m # 0
    <3>1. m \in Nat /\ m - 1 \in Nat /\ m - 1 \notin Bad
      <4> HIDE DEF Is
      <4> QED
        BY <2>1, <2>3
    <3>2. PICK g : Is(g, m - 1)
      BY <3>1
    <3> DEFINE f == [i \in 0..m |-> IF i = m THEN Drawn(g[m - 1], Roll(h, m), unread) ELSE g[i]]
    <3>3. Is(f, m)
      <4>1. \A i \in 0..m : f[i] = IF i = 0 THEN NoDraw(world)
                                   ELSE Drawn(f[i - 1], Roll(h, i), unread)
        <5> SUFFICES ASSUME NEW i \in 0..m
                     PROVE  f[i] = IF i = 0 THEN NoDraw(world)
                                   ELSE Drawn(f[i - 1], Roll(h, i), unread)
          OBVIOUS
        <5>1. CASE i = m
          BY <3>1, <5>1
        <5>2. CASE i # m
          <6>1. i \in 0..(m - 1) /\ (i # 0 => i - 1 \in 0..m /\ i - 1 # m)
            BY <3>1, <5>2
          <6>2. f[i] = g[i] /\ (i # 0 => f[i - 1] = g[i - 1])
            BY <5>2, <6>1
          <6>3. g[i] = IF i = 0 THEN NoDraw(world) ELSE Drawn(g[i - 1], Roll(h, i), unread)
            BY <3>2, <6>1
          <6> HIDE DEF f
          <6> QED
            BY <6>2, <6>3
        <5> QED
          BY <5>1, <5>2
      <4>2. f = [i \in 0..m |-> f[i]]
        OBVIOUS
      <4> HIDE DEF f
      <4> QED
        BY <4>1, <4>2
    <3> HIDE DEF f, Is
    <3> QED
      BY <2>1, <3>3
  <2> QED
    BY <2>2, <2>3
<1>2. \E f : Is(f, slots)
  <2> HIDE DEF Is
  <2> QED
    BY <1>1
<1> DEFINE draw == CHOOSE f : Is(f, slots)
<1>3. Is(draw, slots)
  <2> HIDE DEF Is
  <2> QED
    BY <1>2
<1>4. Draw(world, h, slots, unread) = draw[slots]
  BY DEF Draw
<1> HIDE DEF draw
<1>5. /\ draw[0] = NoDraw(world)
      /\ \A i \in 1..slots : draw[i] = Drawn(draw[i - 1], Roll(h, i), unread)
  BY <1>3
<1> QED
  BY <1>4, <1>5

(* The draw names a staker, and moves coins from stakes to their owners. *)
LEMMA DrawOK ==
    ASSUME NEW world, WorldOK(world), NEW h \in 0..MaxHeight, NEW slots \in 1..MaxSlots,
           NEW unread, DOMAIN world.stake \ unread # {}
    PROVE  /\ Draw(world, h, slots, unread).validator \in DOMAIN world.stake
           /\ Evolves(world, Draw(world, h, slots, unread).world, 0)
           /\ Treasury \in Draw(world, h, slots, unread).cached
<1>1. slots \in Nat /\ MaxSlots \in Nat /\ \A i \in 1..MaxSlots : Roll(h, i) \in Nat
  BY BlocksAssumption DEF BlocksAssumption
<1>2. PICK draw : /\ Draw(world, h, slots, unread) = draw[slots]
                  /\ draw[0] = NoDraw(world)
                  /\ \A i \in 1..slots : draw[i] = Drawn(draw[i - 1], Roll(h, i), unread)
  BY <1>1, DrawIs
<1> DEFINE Fine(i) == /\ Evolves(world, draw[i].world, 0)
                      /\ Treasury \in draw[i].cached
                      /\ i > 0 => draw[i].validator \in DOMAIN world.stake
           Bad     == {i \in 0..slots : ~Fine(i)}
<1>3. Fine(0)
  BY <1>2, EvolvesNot DEF NoDraw
<1>4. ASSUME NEW i \in 1..slots, Fine(i - 1) PROVE Fine(i)
  <2>1. /\ WorldOK(draw[i - 1].world)
        /\ DOMAIN draw[i - 1].world.stake = DOMAIN world.stake
    BY <1>4 DEF Evolves
  <2>2. Roll(h, i) \in Nat
    BY <1>1
  <2> DEFINE d == draw[i - 1]
             n == Roll(h, i)
  <2>3. draw[i] = Drawn(d, n, unread) /\ WorldOK(d.world) /\ DOMAIN d.world.stake \ unread # {}
        /\ n \in Nat /\ Evolves(world, d.world, 0) /\ DOMAIN d.world.stake = DOMAIN world.stake
    BY <1>2, <1>4, <2>1, <2>2
  <2> HIDE DEF d, n
  <2>4. d.cached \subseteq draw[i].cached /\ Treasury \in d.cached
    <3>1. draw[i] = Drawn(d, n, unread) /\ Treasury \in d.cached
      BY <1>4, <2>3 DEF d
    <3> QED
      BY <3>1 DEF Drawn
  <2>5. draw[i].validator \in DOMAIN d.world.stake /\ Evolves(d.world, draw[i].world, 0)
    BY <2>3, DrawnOK
  <2>6. Evolves(world, draw[i].world, 0 + 0)
    <3> DEFINE y == draw[i].world
               x == d.world
    <3>1. Evolves(world, x, 0) /\ Evolves(x, y, 0) /\ 0 \in Int
      BY <2>3, <2>5
    <3> HIDE DEF x, y
    <3>2. Evolves(world, y, 0 + 0)
      BY <3>1, EvolvesOn
    <3> QED
      BY <3>2 DEF y
  <2> QED
    BY <2>3, <2>5, <2>6, <2>4
<1>5. Bad = {}
  <2> SUFFICES ASSUME Bad # {} PROVE FALSE
    OBVIOUS
  <2>1. PICK m \in Bad : \A n \in Bad : m <= n
    <3>1. Bad \in SUBSET Nat
      BY <1>1
    <3> HIDE DEF Bad
    <3> QED
      BY <3>1, LeastNat
  <2>2. m # 0 /\ m \in 1..slots /\ m - 1 \in 0..slots
    BY <1>1, <1>3, <2>1
  <2>3. Fine(m - 1)
    <3> HIDE DEF Fine
    <3> QED
      BY <2>1, <2>2
  <2> HIDE DEF Fine
  <2> QED
    BY <1>4, <2>1, <2>2, <2>3
<1>6. Fine(slots)
  <2> HIDE DEF Fine
  <2> QED
    BY <1>1, <1>5
<1> QED
  BY <1>2, <1>6

-----------------------------------------------------------------------------
(* Transactions.                                                           *)

(* What a block is charged by is counted in its parent. *)
RatesOK(parent) == /\ parent.statistics[1].fee \in Nat \ {0}
                   /\ parent.statistics[1].stake \in Nat

(* What can be submitted. *)
LEMMA TxIs ==
    ASSUME NEW tx \in Transactions
    PROVE  /\ tx.sender \in Addresses /\ tx.recipient \in Addresses
           /\ tx.amount \in Nat /\ tx.counter \in Nat
           /\ tx.sender # tx.recipient /\ tx.recipient # Storage /\ tx.sender # Treasury
           /\ tx.code = "TREASURY_DEPOSIT" => tx.recipient = Treasury
<1>1. tx \in Tx /\ tx.sender # tx.recipient /\ tx.recipient # Storage /\ tx.sender # Treasury
      /\ Treasury \in Addresses
  BY BlocksAssumption DEF BlocksAssumption
<1> QED
  BY <1>1 DEF Tx

(* Storage has a price that is not negative. *)
LEMMA StorageFeeIs ==
    ASSUME NEW parent, RatesOK(parent), NEW bytes \in Nat
    PROVE  StorageFee(parent, bytes) \in Nat
<1> DEFINE fee   == parent.statistics[1].fee
           stake == parent.statistics[1].stake
<1>1. fee \in Nat /\ fee > 0 /\ stake \in Nat /\ Copies \in Nat
  BY BlocksAssumption DEF RatesOK, BlocksAssumption
<1>2. StorageFee(parent, bytes) = ((bytes * stake + fee - 1) \div fee) * Copies
  BY DEF StorageFee
<1> HIDE DEF fee, stake
<1>3. bytes * stake \in Nat
  BY <1>1
<1> DEFINE all == bytes * stake
<1> HIDE DEF all
<1>4. all + fee - 1 \in Nat
  BY <1>1, <1>3 DEF all
<1>5. (all + fee - 1) \div fee \in Nat
  <2> DEFINE n == all + fee - 1
  <2>1. n \in Nat
    BY <1>4
  <2> HIDE DEF n
  <2>2. n \div fee \in Nat
    BY <1>1, <2>1
  <2> QED
    BY <2>2 DEF n
<1> DEFINE q == (all + fee - 1) \div fee
<1>6. q \in Nat
  BY <1>5
<1> HIDE DEF q
<1>7. q * Copies \in Nat
  BY <1>1, <1>6
<1> QED
  BY <1>2, <1>7 DEF q, all

(* Nor has a transaction. *)
LEMMA FeeOfIs ==
    ASSUME NEW parent, RatesOK(parent), NEW w, NEW tx, NEW unread
    PROVE  FeeOf(parent, w, tx, unread) \in Nat
<1>1. Size["transaction"] \in Nat /\ Size["account"] \in Nat
  BY BlocksAssumption DEF BlocksAssumption
<1>2. StorageFee(parent, Size["transaction"]) \in Nat /\ StorageFee(parent, Size["account"]) \in Nat
  BY <1>1, StorageFeeIs
<1> QED
  BY <1>2 DEF FeeOf

(* What the settlement takes from a sender that has the base fee. *)
LEMMA SettlementIs ==
    ASSUME NEW parent, RatesOK(parent), NEW w, WorldOK(w), NEW tx \in Transactions,
           ~Raises(w, tx), NEW unread
    PROVE  LET paid   == Settlement(parent, w, tx, unread)
               amount == IF Succeeds(parent, w, tx, unread) THEN tx.amount ELSE 0
           IN  /\ paid.transaction = 1 /\ paid.storage \in Nat
               /\ Total(paid) = 1 + paid.storage + amount
               /\ Total(paid) <= w.account[tx.sender].balance
               /\ tx.sender \in DOMAIN w.account /\ amount \in Nat
<1> DEFINE b      == w.account[tx.sender].balance
           fee    == FeeOf(parent, w, tx, unread)
           S      == Succeeds(parent, w, tx, unread)
           amount == IF S THEN tx.amount ELSE 0
           paid   == Settlement(parent, w, tx, unread)
<1>1. tx.sender \in DOMAIN w.account /\ ~(b < 1)
  BY DEF Raises, TxFee
<1>2. b \in Nat
  BY <1>1, WorldIs DEF WorldOK
<1>3. tx.sender \in DOMAIN w.account /\ b >= 1
  BY <1>2, <1>1
<1>4. fee \in Nat /\ tx.amount \in Nat
  BY FeeOfIs, TxIs
<1>5. S => b >= 1 + tx.amount + fee
  BY DEF Succeeds, TxFee
<1>6. paid = Settle(b, 1, 0, fee, amount)
  BY DEF Settlement, TxFee
<1> HIDE DEF b, fee, S, paid
<1>7. amount \in Nat
  BY <1>4
<1>8. CASE b >= 1 + 0 + fee + amount
  <2>1. paid = [transaction |-> 1, data |-> 0, storage |-> fee, transfer |-> amount,
                affordable |-> TRUE]
    BY <1>6, <1>8 DEF Settle
  <2> HIDE DEF amount
  <2>2. /\ paid.transaction = 1 /\ paid.storage = fee
        /\ Total(paid) = 1 + 0 + fee + amount
    BY <2>1 DEF Total
  <2> QED
    BY <1>3, <1>2, <1>4, <1>7, <1>8, <2>2 DEF b, S, paid, amount
<1>9. CASE ~(b >= 1 + 0 + fee + amount)
  <2>1. amount = 0
    BY <1>2, <1>4, <1>5, <1>9
  <2>2. PaidPart(b, 1) = 1 /\ PaidPart(b - 1, 0) = 0
    BY <1>3, <1>2 DEF PaidPart
  <2>3. b - 1 - 0 = b - 1
    BY <1>2
  <2>4. paid = [transaction |-> 1, data |-> 0, storage |-> PaidPart(b - 1, fee), transfer |-> 0,
                affordable |-> FALSE]
    BY <1>6, <1>9, <2>2, <2>3 DEF Settle
  <2>5. PaidPart(b - 1, fee) \in Nat /\ PaidPart(b - 1, fee) <= b - 1
    BY <1>3, <1>2, <1>4 DEF PaidPart
  <2>6. /\ paid.transaction = 1 /\ paid.storage = PaidPart(b - 1, fee)
        /\ Total(paid) = 1 + 0 + PaidPart(b - 1, fee) + 0
    BY <2>4 DEF Total
  <2> HIDE DEF amount
  <2> QED
    BY <1>3, <1>2, <1>7, <2>1, <2>5, <2>6 DEF b, S, paid, amount
<1> QED
  BY <1>8, <1>9

(* The recipient is credited, and a deposit is added to the stake. *)
LEMMA CreditedOK ==
    ASSUME NEW w, WorldOK(w), NEW tx \in Transactions, Passes(w, tx),
           NEW unread \in BOOLEAN, unread => tx.recipient # Treasury
    PROVE  LET x == Credited(w, tx, unread) IN
           /\ IsWorld(x)
           /\ DOMAIN x.account = DOMAIN w.account \cup {tx.recipient}
           /\ DOMAIN x.stake = DOMAIN w.stake /\ x.record = w.record
           /\ Surplus(x) >= Surplus(w)
           /\ \A a \in DOMAIN w.account \ {tx.recipient} : x.account[a] = w.account[a]
           /\ ~unread =>
                 /\ \A a \in DOMAIN w.account : x.account[a].counter = w.account[a].counter
                 /\ \A a \in Addresses :
                       Held(x)[a] = Held(w)[a] + (IF a = tx.recipient THEN tx.amount ELSE 0)
<1> DEFINE p       == tx.recipient
           n       == tx.amount
           old     == IF IsNew(w, tx, unread) THEN NewAccount ELSE w.account[p]
           paid    == [old EXCEPT !.balance = @ + n]
           x       == Credited(w, tx, unread)
           dep(v)  == tx.code = "TREASURY_DEPOSIT" /\ v = tx.sender
<1>1. /\ IsWorld(w) /\ DOMAIN w.stake \in SUBSET Addresses /\ DOMAIN w.account \in SUBSET Addresses
      /\ IsFiniteSet(DOMAIN w.stake) /\ IsFiniteSet(Addresses)
      /\ Treasury \in DOMAIN w.account /\ Storage \in DOMAIN w.account
  BY WorldIs DEF WorldOK
<1>2. /\ p \in Addresses /\ n \in Nat
      /\ tx.code = "TREASURY_DEPOSIT" => p = Treasury /\ tx.sender \in DOMAIN w.stake
  BY TxIs DEF Passes
<1>3. old = [balance |-> old.balance, counter |-> old.counter]
      /\ old.balance \in Nat /\ old.counter \in Nat
  BY <1>1, WorldIs DEF NewAccount, IsNew
<1>4. paid = [balance |-> old.balance + n, counter |-> old.counter]
  <2> HIDE DEF old, n
  <2> QED
    BY <1>3
<1>5. x = [account |-> [a \in DOMAIN w.account \cup {p} |-> IF a = p THEN paid ELSE w.account[a]],
           stake   |-> [v \in DOMAIN w.stake |-> IF dep(v) THEN w.stake[v] + n ELSE w.stake[v]],
           record  |-> w.record]
  BY DEF Credited
<1> HIDE DEF x
<1>6. /\ DOMAIN x.account = DOMAIN w.account \cup {p} /\ x.account[p] = paid
      /\ \A a \in DOMAIN w.account \ {p} : x.account[a] = w.account[a]
      /\ DOMAIN x.stake = DOMAIN w.stake
      /\ \A v \in DOMAIN w.stake : x.stake[v] = IF dep(v) THEN w.stake[v] + n ELSE w.stake[v]
      /\ x.record = w.record
      /\ x = [account |-> x.account, stake |-> x.stake, record |-> x.record]
  <2> HIDE DEF paid, n, p, dep
  <2> QED
    BY <1>5
<1>7. x.account \in [DOMAIN x.account -> Account]
  <2>1. paid \in Account
    <3> HIDE DEF old, n
    <3> QED
      BY <1>2, <1>3, <1>4 DEF Account, n
  <2>2. \A a \in DOMAIN w.account : w.account[a] \in Account
    BY <1>1 DEF IsWorld
  <2>3. x.account = [a \in DOMAIN x.account |-> x.account[a]]
    BY <1>5
  <2> HIDE DEF paid, p
  <2> QED
    BY <1>6, <2>1, <2>2, <2>3
<1>8. x.stake \in [DOMAIN x.stake -> Nat \ {0}]
  <2>1. x.stake = [v \in DOMAIN x.stake |-> x.stake[v]]
    BY <1>5
  <2>2. \A v \in DOMAIN w.stake : w.stake[v] \in Nat \ {0}
    BY <1>1 DEF IsWorld
  <2> HIDE DEF n, dep
  <2>3. \A v \in DOMAIN x.stake : x.stake[v] \in Nat \ {0}
    BY <1>2, <1>6, <2>2 DEF n
  <2> QED
    BY <2>1, <2>3
<1>9. IsWorld(x)
  BY <1>1, <1>2, <1>6, <1>7, <1>8 DEF IsWorld
<1>10. Staked(x) = Staked(w) + (IF tx.code = "TREASURY_DEPOSIT" THEN n ELSE 0)
  <2> DEFINE f == w.stake
             g == x.stake
             D == DOMAIN w.stake
  <2>1. /\ IsFiniteSet(D) /\ DOMAIN f = D /\ DOMAIN g = D
        /\ \A u \in D : f[u] \in Int
        /\ \A u \in D : g[u] = IF dep(u) THEN f[u] + n ELSE f[u]
        /\ tx.code = "TREASURY_DEPOSIT" => tx.sender \in D
    BY <1>1, <1>2, <1>6, WorldIs
  <2>2. Staked(x) = SumFunctionOnSet(g, D) /\ Staked(w) = SumFunctionOnSet(f, D)
    BY <2>1 DEF Staked, SumFunction
  <2> HIDE DEF f, g, D
  <2>3. SumFunctionOnSet(f, D) \in Int
    BY <2>1, SumInt
  <2>4. CASE tx.code = "TREASURY_DEPOSIT"
    <3> DEFINE s == tx.sender
    <3>1. s \in D /\ \A u \in D : g[u] = f[u] + (IF u = s THEN n ELSE 0)
      BY <2>1, <2>4
    <3>2. n \in Int
      BY <1>2
    <3> HIDE DEF s, n
    <3>3. SumFunctionOnSet(g, D) = SumFunctionOnSet(f, D) + n
      BY <2>1, <3>1, <3>2, SumGain
    <3> QED
      BY <2>2, <2>4, <3>3
  <2>5. CASE tx.code # "TREASURY_DEPOSIT"
    <3>1. \A u \in D : g[u] = f[u]
      BY <2>1, <2>5
    <3>2. SumFunctionOnSet(g, D) = SumFunctionOnSet(f, D)
      BY <2>1, <3>1, SumAgree
    <3> QED
      BY <2>2, <2>3, <2>5, <3>2
  <2> QED
    BY <2>4, <2>5
<1>11. Surplus(x) >= Surplus(w)
  <2>1. /\ w.account[Treasury].balance \in Nat /\ Staked(w) \in Nat
    BY <1>1, WorldIs
  <2>2. CASE p = Treasury
    <3>1. ~IsNew(w, tx, unread) /\ old = w.account[Treasury]
      BY <1>1, <2>2 DEF IsNew
    <3>2. x.account[Treasury].balance = w.account[Treasury].balance + n
      BY <1>4, <1>6, <2>2, <3>1
    <3> HIDE DEF n
    <3> QED
      BY <1>2, <1>10, <2>1, <3>2 DEF Surplus, n
  <2>3. CASE p # Treasury
    <3>1. x.account[Treasury] = w.account[Treasury] /\ tx.code # "TREASURY_DEPOSIT"
      BY <1>1, <1>2, <1>6, <2>3
    <3> QED
      BY <1>10, <2>1, <3>1 DEF Surplus
  <2> QED
    BY <2>2, <2>3
<1>12. ASSUME ~unread, NEW a \in DOMAIN w.account
       PROVE  x.account[a].counter = w.account[a].counter
  <2>1. CASE a = p
    BY <1>4, <1>6, <1>12, <2>1 DEF IsNew
  <2>2. CASE a # p
    BY <1>6, <2>2
  <2> QED
    BY <2>1, <2>2
<1>13. ASSUME ~unread, NEW a \in Addresses
       PROVE  Held(x)[a] = Held(w)[a] + (IF a = p THEN n ELSE 0)
  <2>1. Held(w)[a] \in Nat
    BY <1>1, WorldIs
  <2>2. CASE a = p
    <3>1. Held(x)[a] = old.balance + n
      BY <1>4, <1>6, <2>2 DEF Held
    <3>2. Held(w)[a] = old.balance
      BY <1>13, <2>2 DEF Held, NewAccount, IsNew
    <3> HIDE DEF n, old
    <3> QED
      BY <2>2, <3>1, <3>2
  <2>3. CASE a # p
    <3>1. Held(x)[a] = Held(w)[a]
      BY <1>6, <2>3 DEF Held
    <3> QED
      BY <2>1, <2>3, <3>1
  <2> QED
    BY <2>2, <2>3
<1> QED
  BY <1>6, <1>9, <1>11, <1>12, <1>13 DEF x

(* A sender pays what it has. *)
LEMMA ChargedOK ==
    ASSUME NEW w, WorldOK(w), NEW s \in DOMAIN w.account, s # Treasury,
           NEW total \in Nat, total <= w.account[s].balance, NEW share \in Nat,
           NEW counted \in BOOLEAN
    PROVE  Evolves(w, Charged(w, s, total, share, counted), share - total)
<1> DEFINE x       == Charged(w, s, total, share, counted)
           minus(a) == IF a = s THEN total ELSE 0
           plus(a)  == IF a = Storage THEN share ELSE 0
           one(a)   == IF a = s /\ counted THEN 1 ELSE 0
           bal(a)   == w.account[a].balance
           cnt(a)   == w.account[a].counter
<1>1. /\ IsWorld(w) /\ DOMAIN w.stake \in SUBSET Addresses /\ DOMAIN w.account \in SUBSET Addresses
      /\ Treasury \in DOMAIN w.account /\ Storage \in DOMAIN w.account /\ Treasury # Storage
      /\ \A a \in DOMAIN w.account : bal(a) \in Nat /\ cnt(a) \in Nat
  BY WorldIs, BlocksAssumption DEF WorldOK, BlocksAssumption
<1>2. x = [account |-> [a \in DOMAIN w.account |->
                           [balance |-> bal(a) - minus(a) + plus(a), counter |-> cnt(a) + one(a)]],
           stake |-> w.stake, record |-> w.record]
  BY DEF Charged
<1>3. \A a \in DOMAIN w.account : /\ minus(a) \in Nat /\ plus(a) \in Nat /\ one(a) \in Nat
                                  /\ bal(a) - minus(a) + plus(a) \in Nat
                                  /\ cnt(a) + one(a) \in Nat /\ cnt(a) + one(a) >= cnt(a)
  BY <1>1
<1> HIDE DEF x, minus, plus, one, bal, cnt
<1>4. /\ DOMAIN x.account = DOMAIN w.account /\ x.stake = w.stake /\ x.record = w.record
      /\ \A a \in DOMAIN w.account :
            /\ x.account[a] = [balance |-> bal(a) - minus(a) + plus(a), counter |-> cnt(a) + one(a)]
            /\ x.account[a].balance = bal(a) - minus(a) + plus(a)
            /\ x.account[a].counter = cnt(a) + one(a)
      /\ x = [account |-> x.account, stake |-> x.stake, record |-> x.record]
  BY <1>2
<1>5. x.account \in [DOMAIN x.account -> Account]
  <2>1. ASSUME NEW a \in DOMAIN w.account PROVE x.account[a] \in Account
    <3> DEFINE b == bal(a) - minus(a) + plus(a)
               c == cnt(a) + one(a)
    <3>1. b \in Nat /\ c \in Nat /\ x.account[a] = [balance |-> b, counter |-> c]
      BY <1>3, <1>4
    <3> HIDE DEF b, c
    <3> QED
      BY <3>1 DEF Account
  <2>2. x.account = [a \in DOMAIN x.account |-> x.account[a]]
    BY <1>2
  <2> QED
    BY <1>4, <2>1, <2>2
<1>6. IsWorld(x)
  BY <1>1, <1>4, <1>5 DEF IsWorld
<1>7. Surplus(x) = Surplus(w) /\ Surplus(w) \in Nat
  <2>1. x.account[Treasury].balance = bal(Treasury)
    <3>1. x.account[Treasury].balance = bal(Treasury) - minus(Treasury) + plus(Treasury)
      BY <1>1, <1>4
    <3>2. minus(Treasury) = 0 /\ plus(Treasury) = 0 /\ bal(Treasury) \in Nat
      BY <1>1 DEF minus, plus
    <3> QED
      BY <3>1, <3>2
  <2>2. Staked(x) = Staked(w)
    BY <1>4 DEF Staked
  <2> QED
    BY <2>1, <2>2, SurplusIs DEF Surplus, bal
<1>8. WorldOK(x)
  BY <1>1, <1>4, <1>6, <1>7 DEF WorldOK
<1> DEFINE back == 0 - total
<1>9. \A a \in Addresses : Held(x)[a] = Held(w)[a] + (IF a = s THEN back ELSE 0)
                                                   + (IF a = Storage THEN share ELSE 0)
                                                   + (IF a = s THEN 0 ELSE 0)
  <2> SUFFICES ASSUME NEW a \in Addresses
               PROVE  Held(x)[a] = Held(w)[a] + (IF a = s THEN back ELSE 0)
                                              + (IF a = Storage THEN share ELSE 0)
                                              + (IF a = s THEN 0 ELSE 0)
    OBVIOUS
  <2>1. CASE a \in DOMAIN w.account
    <3>1. Held(x)[a] = bal(a) - minus(a) + plus(a) /\ Held(w)[a] = bal(a)
      BY <1>4, <2>1 DEF Held, bal
    <3>2. bal(a) \in Nat
      BY <1>1, <2>1
    <3>3. /\ minus(a) = IF a = s THEN total ELSE 0
          /\ plus(a) = IF a = Storage THEN share ELSE 0
      BY DEF minus, plus
    <3> HIDE DEF back
    <3>4. back \in Int /\ back = 0 - total
      BY DEF back
    <3>5. bal(a) - minus(a) + plus(a) = bal(a) + (IF a = s THEN back ELSE 0)
                                               + (IF a = Storage THEN share ELSE 0)
                                               + (IF a = s THEN 0 ELSE 0)
      BY <3>2, <3>3, <3>4
    <3> QED
      BY <3>1, <3>5
  <2>2. CASE a \notin DOMAIN w.account
    <3>1. Held(x)[a] = 0 /\ Held(w)[a] = 0 /\ a # s /\ a # Storage
      BY <1>1, <1>4, <2>2 DEF Held
    <3> HIDE DEF back
    <3> QED
      BY <3>1
  <2> QED
    BY <2>1, <2>2
<1>10. Coins(x) = Coins(w) + (share - total)
  <2>1. back \in Int /\ share \in Int /\ 0 \in Int /\ s \in Addresses /\ Storage \in Addresses
    BY <1>1
  <2>2. IsWorld(w) /\ IsWorld(x)
    BY <1>1, <1>6
  <2>3. \A a \in Addresses : Held(x)[a] = Held(w)[a] + (IF a = s THEN back ELSE 0)
                                                     + (IF a = Storage THEN share ELSE 0)
                                                     + (IF a = s THEN 0 ELSE 0)
    BY <1>9
  <2> HIDE DEF back
  <2>4. Coins(x) = Coins(w) + back + share + 0
    BY <2>1, <2>2, <2>3, CoinsMove
  <2>5. Coins(w) \in Nat
    BY <1>1, CoinsIs
  <2> QED
    BY <2>4, <2>5 DEF back
<1>11. \A a \in DOMAIN w.account : x.account[a].counter >= w.account[a].counter
  BY <1>3, <1>4 DEF cnt
<1>12. Evolves(w, x, share - total)
  BY <1>4, <1>7, <1>8, <1>10, <1>11 DEF Evolves
<1> QED
  BY <1>12 DEF x

(* The world in which the sender is charged. *)
LEMMA RestOK ==
    ASSUME NEW w, WorldOK(w), NEW tx \in Transactions, tx.sender \in DOMAIN w.account,
           NEW unread \in BOOLEAN, unread => tx.recipient # Treasury,
           NEW acts \in BOOLEAN, acts => Passes(w, tx)
    PROVE  LET rest == IF acts THEN Credited(w, tx, unread) ELSE w IN
           /\ WorldOK(rest) /\ DOMAIN rest.stake = DOMAIN w.stake
           /\ tx.sender \in DOMAIN rest.account
           /\ rest.account[tx.sender] = w.account[tx.sender]
           /\ ~unread => Evolves(w, rest, IF acts THEN tx.amount ELSE 0)
<1> DEFINE all == IF acts THEN Credited(w, tx, unread) ELSE w
<1>1. CASE ~acts
  <2>1. all = w /\ (IF acts THEN tx.amount ELSE 0) = 0
    BY <1>1
  <2> HIDE DEF all
  <2>2. Evolves(w, w, 0)
    BY EvolvesNot
  <2>3. /\ WorldOK(all) /\ DOMAIN all.stake = DOMAIN w.stake
        /\ tx.sender \in DOMAIN all.account
        /\ all.account[tx.sender] = w.account[tx.sender]
        /\ Evolves(w, all, IF acts THEN tx.amount ELSE 0)
    BY <2>1, <2>2
  <2> QED
    BY <2>3 DEF all
<1>2. CASE acts
  <2> DEFINE rest == Credited(w, tx, unread)
             n    == tx.amount
             p    == tx.recipient
  <2>1. Passes(w, tx) /\ n \in Nat /\ p \in Addresses /\ tx.sender # p
    BY <1>2, TxIs
  <2>2. /\ IsWorld(rest)
        /\ DOMAIN rest.account = DOMAIN w.account \cup {p}
        /\ DOMAIN rest.stake = DOMAIN w.stake /\ rest.record = w.record
        /\ Surplus(rest) >= Surplus(w)
        /\ \A a \in DOMAIN w.account \ {p} : rest.account[a] = w.account[a]
        /\ ~unread =>
                 /\ \A a \in DOMAIN w.account : rest.account[a].counter = w.account[a].counter
                 /\ \A a \in Addresses : Held(rest)[a] = Held(w)[a] + (IF a = p THEN n ELSE 0)
    BY <2>1, CreditedOK
  <2> HIDE DEF rest, n, p
  <2>3. Surplus(w) \in Nat /\ IsWorld(w) /\ Surplus(rest) \in Int
    <3>1. Treasury \in DOMAIN rest.account
      BY <2>2 DEF WorldOK
    <3>2. rest.account[Treasury].balance \in Nat /\ Staked(rest) \in Nat
      BY <2>2, <3>1, WorldIs
    <3>3. Surplus(w) \in Nat /\ Surplus(rest) \in Int
      BY <3>2, SurplusIs DEF Surplus
    <3> QED
      BY <2>2, <3>2, <3>3 DEF WorldOK
  <2>4. WorldOK(rest)
    BY <2>2, <2>3 DEF WorldOK
  <2>5. ASSUME ~unread PROVE Evolves(w, rest, n)
    <3>1. \A a \in Addresses : Held(rest)[a] = Held(w)[a] + (IF a = p THEN n ELSE 0)
                                                          + (IF a = p THEN 0 ELSE 0)
                                                          + (IF a = p THEN 0 ELSE 0)
      <4>1. \A a \in Addresses : Held(w)[a] \in Nat
        BY <2>3, WorldIs
      <4> QED
        BY <2>1, <2>2, <2>5, <4>1
    <3>2. Coins(rest) = Coins(w) + n + 0 + 0
      <4>1. n \in Int /\ 0 \in Int /\ p \in Addresses
        BY <2>1
      <4> QED
        BY <2>2, <2>3, <3>1, <4>1, CoinsMove
    <3>3. Coins(w) \in Nat
      BY <2>3, CoinsIs
    <3>4. Coins(rest) = Coins(w) + n
      BY <2>1, <3>2, <3>3
    <3>5. \A a \in DOMAIN w.account : w.account[a].counter \in Nat
      BY <2>3, WorldIs
    <3> QED
      BY <2>2, <2>4, <2>5, <3>4, <3>5 DEF Evolves
  <2>6. tx.sender \in DOMAIN rest.account /\ rest.account[tx.sender] = w.account[tx.sender]
    BY <2>1, <2>2
  <2> QED
    BY <1>2, <2>2, <2>4, <2>5, <2>6 DEF rest, n
<1> QED
  BY <1>1, <1>2

(* A transaction that is taken burns its fee, until the validator is paid. *)
LEMMA AppliedOK ==
    ASSUME NEW parent, RatesOK(parent), NEW w, WorldOK(w), NEW tx \in Transactions,
           ~Raises(w, tx), NEW unread \in BOOLEAN, unread => tx.recipient # Treasury
    PROVE  LET x == Applied(parent, w, tx, unread) IN
           /\ WorldOK(x) /\ DOMAIN x.stake = DOMAIN w.stake
           /\ ~unread => Evolves(w, x, -1)
           /\ ReceiptOf(parent, w, tx, unread).fee = 1
           /\ ReceiptOf(parent, w, tx, unread).storage \in Nat
<1> DEFINE S       == Succeeds(parent, w, tx, unread)
           paid    == Settlement(parent, w, tx, unread)
           amount  == IF S THEN tx.amount ELSE 0
           rest    == IF S THEN Credited(w, tx, unread) ELSE w
           s       == tx.sender
           total   == Total(paid)
           share   == paid.storage
           counted == tx.counter = w.account[tx.sender].counter
           x       == Applied(parent, w, tx, unread)
<1>1. /\ paid.transaction = 1 /\ share \in Nat /\ total = 1 + share + amount
      /\ total <= w.account[s].balance /\ s \in DOMAIN w.account /\ amount \in Nat
  BY SettlementIs
<1>2. /\ WorldOK(rest) /\ DOMAIN rest.stake = DOMAIN w.stake
      /\ s \in DOMAIN rest.account
      /\ rest.account[s] = w.account[s]
      /\ ~unread => Evolves(w, rest, amount)
  <2>1. S \in BOOLEAN /\ (S => Passes(w, tx))
    BY DEF Succeeds
  <2> HIDE DEF S
  <2> QED
    BY <1>1, <2>1, RestOK
<1>3. x = Charged(rest, s, total, share, counted) /\ counted \in BOOLEAN
  BY DEF Applied
<1>4. s # Treasury /\ total \in Nat
  <2>1. s # Treasury
    BY TxIs
  <2> HIDE DEF total, share, amount
  <2> QED
    BY <1>1, <2>1
<1>5. /\ ReceiptOf(parent, w, tx, unread).fee = paid.transaction
      /\ ReceiptOf(parent, w, tx, unread).storage = share
  BY DEF ReceiptOf
<1> HIDE DEF S, paid, rest, s, total, share, counted, x, amount
<1>6. Evolves(rest, x, share - total)
  BY <1>1, <1>2, <1>3, <1>4, ChargedOK
<1>7. WorldOK(x) /\ DOMAIN x.stake = DOMAIN w.stake
  BY <1>2, <1>6 DEF Evolves
<1>8. ASSUME ~unread PROVE Evolves(w, x, -1)
  <2> DEFINE m == share - total
  <2>1. m \in Int /\ amount \in Int /\ amount + m = -1
    BY <1>1, <1>4
  <2>2. Evolves(w, rest, amount) /\ Evolves(rest, x, m)
    BY <1>2, <1>6, <1>8
  <2> HIDE DEF m
  <2>3. Evolves(w, x, amount + m)
    BY <2>1, <2>2, EvolvesOn
  <2> QED
    BY <2>1, <2>3
<1> QED
  BY <1>1, <1>5, <1>7, <1>8 DEF x

(* A transaction that breaks off may cost the sender and pay the recipient. *)
LEMMA BrokenOffOK ==
    ASSUME NEW parent, RatesOK(parent), NEW work, WorldOK(work.world),
           NEW tx \in Transactions, ~Raises(work.world, tx), NEW h,
           work = [world |-> work.world, tree |-> work.tree, cached |-> work.cached,
                   txs |-> work.txs, receipts |-> work.receipts, trie |-> work.trie]
    PROVE  LET x == BrokenOff(work, parent, h, tx) IN
           /\ WorldOK(x.world) /\ DOMAIN x.world.stake = DOMAIN work.world.stake
           /\ x.txs = work.txs /\ x.receipts = work.receipts /\ x.trie = work.trie
           /\ work.cached \subseteq x.cached
           /\ x.tree = Inserted(work.tree, h % EraSize, tx)
           /\ x = [world |-> x.world, tree |-> x.tree, cached |-> x.cached,
                   txs |-> x.txs, receipts |-> x.receipts, trie |-> x.trie]
<1> DEFINE w      == work.world
           S      == Succeeds(parent, w, tx, FALSE)
           keeps  == S /\ ~IsNew(w, tx, FALSE)
           amount == IF S THEN tx.amount ELSE 0
           rest   == IF keeps THEN Credited(w, tx, FALSE) ELSE w
           s      == tx.sender
           total  == Total(Settlement(parent, w, tx, FALSE))
           after  == Charged(rest, s, total, 0, FALSE)
           tree   == Inserted(work.tree, h % EraSize, tx)
           cached == work.cached \cup {s} \cup (IF keeps THEN {tx.recipient} ELSE {})
           x      == BrokenOff(work, parent, h, tx)
<1>1. /\ total \in Nat /\ total <= w.account[s].balance /\ s \in DOMAIN w.account
  <2> DEFINE paid == Settlement(parent, w, tx, FALSE)
  <2>1. /\ paid.storage \in Nat /\ total = 1 + paid.storage + amount
        /\ total <= w.account[s].balance /\ s \in DOMAIN w.account /\ amount \in Nat
    BY SettlementIs
  <2> HIDE DEF paid, amount, total
  <2> QED
    BY <2>1
<1>2. /\ WorldOK(rest) /\ DOMAIN rest.stake = DOMAIN w.stake
      /\ s \in DOMAIN rest.account
      /\ rest.account[s] = w.account[s]
  <2>1. keeps \in BOOLEAN /\ (keeps => Passes(w, tx))
    BY DEF Succeeds
  <2> HIDE DEF keeps
  <2> QED
    BY <1>1, <2>1, RestOK
<1>3. x = [work EXCEPT !.world = after, !.tree = tree, !.cached = cached]
  BY DEF BrokenOff
<1>4. s # Treasury
  BY TxIs
<1>5. WorldOK(after) /\ DOMAIN after.stake = DOMAIN w.stake
  <2> DEFINE m == 0 - total
  <2> HIDE DEF total, rest, s, w
  <2>1. Evolves(rest, Charged(rest, s, total, 0, FALSE), m)
    BY <1>1, <1>2, <1>4, ChargedOK
  <2> HIDE DEF m
  <2> QED
    BY <1>2, <2>1 DEF Evolves
<1> HIDE DEF after, tree, x
<1>6. x = [world |-> after, tree |-> tree, cached |-> cached,
           txs |-> work.txs, receipts |-> work.receipts, trie |-> work.trie]
  <2> HIDE DEF cached
  <2> QED
    BY <1>3
<1>7. work.cached \subseteq cached
  OBVIOUS
<1> HIDE DEF cached
<1>8. /\ x.world = after /\ x.tree = tree /\ x.cached = cached
      /\ x.txs = work.txs /\ x.receipts = work.receipts /\ x.trie = work.trie
  BY <1>6
<1> QED
  BY <1>5, <1>6, <1>7, <1>8 DEF x, tree

(* The validator is paid, and nobody else is touched. *)
LEMMA RewardedOK ==
    ASSUME NEW w, WorldOK(w), NEW v \in Addresses, v # Treasury, NEW n \in Nat,
           NEW unread \in BOOLEAN
    PROVE  LET x == Rewarded(w, v, n, unread) IN
           /\ WorldOK(x) /\ DOMAIN x.stake = DOMAIN w.stake
           /\ x.account[Treasury] = w.account[Treasury]
           /\ ~unread => Evolves(w, x, n)
<1> DEFINE old  == IF unread \/ v \notin DOMAIN w.account THEN NewAccount ELSE w.account[v]
           paid == [old EXCEPT !.balance = @ + n]
           acc  == [a \in DOMAIN w.account \cup {v} |-> IF a = v THEN paid ELSE w.account[a]]
           x    == Rewarded(w, v, n, unread)
<1>1. /\ IsWorld(w) /\ DOMAIN w.account \in SUBSET Addresses
      /\ Treasury \in DOMAIN w.account /\ Storage \in DOMAIN w.account
      /\ w = [account |-> w.account, stake |-> w.stake, record |-> w.record]
      /\ \A a \in DOMAIN w.account : w.account[a] \in Account
  BY WorldIs DEF WorldOK, IsWorld
<1>2. old = [balance |-> old.balance, counter |-> old.counter]
      /\ old.balance \in Nat /\ old.counter \in Nat
  BY <1>1, WorldIs DEF NewAccount
<1>3. paid = [balance |-> old.balance + n, counter |-> old.counter]
  <2> HIDE DEF old
  <2> QED
    BY <1>2
<1>4. paid \in Account /\ paid.balance = old.balance + n /\ paid.counter = old.counter
  <2> DEFINE b == old.balance + n
  <2>1. b \in Nat /\ paid = [balance |-> b, counter |-> old.counter]
    BY <1>2, <1>3
  <2> HIDE DEF b, paid, old
  <2> QED
    BY <1>2, <2>1 DEF Account, b
<1>5. x = [w EXCEPT !.account = acc]
  BY DEF Rewarded
<1> HIDE DEF x, paid, old
<1>6. /\ DOMAIN x.account = DOMAIN w.account \cup {v} /\ x.account[v] = paid
      /\ \A a \in DOMAIN w.account \ {v} : x.account[a] = w.account[a]
      /\ x.account = [a \in DOMAIN x.account |-> x.account[a]]
      /\ x.stake = w.stake /\ x.record = w.record
      /\ x = [account |-> x.account, stake |-> x.stake, record |-> x.record]
  <2>1. x = [account |-> acc, stake |-> w.stake, record |-> w.record]
    <3> HIDE DEF acc
    <3> QED
      BY <1>1, <1>5
  <2> QED
    BY <2>1
<1>7. IsWorld(x)
  <2>1. \A a \in DOMAIN x.account : x.account[a] \in Account
    BY <1>1, <1>4, <1>6
  <2>2. x.account \in [DOMAIN x.account -> Account]
    BY <1>6, <2>1
  <2> QED
    BY <1>1, <1>6, <2>2 DEF IsWorld
<1>8. Surplus(x) = Surplus(w) /\ Surplus(w) \in Nat /\ x.account[Treasury] = w.account[Treasury]
  BY <1>1, <1>6, SurplusIs DEF Surplus, Staked
<1>9. WorldOK(x)
  BY <1>1, <1>6, <1>7, <1>8 DEF WorldOK
<1>10. ASSUME ~unread PROVE Evolves(w, x, n)
  <2>1. \A a \in Addresses : Held(x)[a] = Held(w)[a] + (IF a = v THEN n ELSE 0)
                                                     + (IF a = v THEN 0 ELSE 0)
                                                     + (IF a = v THEN 0 ELSE 0)
    <3> SUFFICES ASSUME NEW a \in Addresses
                 PROVE  Held(x)[a] = Held(w)[a] + (IF a = v THEN n ELSE 0)
                                                + (IF a = v THEN 0 ELSE 0)
                                                + (IF a = v THEN 0 ELSE 0)
      OBVIOUS
    <3>1. Held(w)[a] \in Nat
      BY <1>1, WorldIs
    <3>2. CASE a = v
      <4>1. Held(x)[a] = old.balance + n
        BY <1>4, <1>6, <3>2 DEF Held
      <4>2. Held(w)[a] = old.balance
        BY <1>10, <3>2 DEF Held, NewAccount, old
      <4> QED
        BY <1>2, <3>2, <4>1, <4>2
    <3>3. CASE a # v
      <4>1. Held(x)[a] = Held(w)[a]
        BY <1>6, <3>3 DEF Held
      <4> QED
        BY <3>1, <3>3, <4>1
    <3> QED
      BY <3>2, <3>3
  <2>2. Coins(x) = Coins(w) + n + 0 + 0
    <3>1. n \in Int /\ 0 \in Int /\ IsWorld(w) /\ IsWorld(x)
      BY <1>1, <1>7
    <3> HIDE DEF acc
    <3> QED
      BY <2>1, <3>1, CoinsMove
  <2>3. Coins(w) \in Nat
    BY <1>1, CoinsIs
  <2>4. Coins(x) = Coins(w) + n
    BY <2>2, <2>3
  <2>5. \A a \in DOMAIN w.account : x.account[a].counter >= w.account[a].counter
    <3> SUFFICES ASSUME NEW a \in DOMAIN w.account
                 PROVE  x.account[a].counter >= w.account[a].counter
      OBVIOUS
    <3>1. w.account[a].counter \in Nat
      BY <1>1, WorldIs
    <3>2. x.account[a].counter = w.account[a].counter
      <4>1. CASE a = v
        BY <1>4, <1>6, <1>10, <4>1 DEF old
      <4>2. CASE a # v
        BY <1>6, <4>2
      <4> QED
        BY <4>1, <4>2
    <3> HIDE DEF x
    <3> QED
      BY <3>1, <3>2
  <2> QED
    BY <1>6, <1>8, <1>9, <2>4, <2>5 DEF Evolves
<1> QED
  BY <1>6, <1>8, <1>9, <1>10 DEF x

(* A record changes nobody's coins. *)
LEMMA RecordedOK ==
    ASSUME NEW w, WorldOK(w), NEW h \in Nat, h > 0
    PROVE  LET x == Recorded(w, h) IN
           /\ WorldOK(x) /\ x.account = w.account /\ x.stake = w.stake
           /\ x.record = w.record \cup {h - 1}
           /\ Coins(x) = Coins(w) /\ Surplus(x) = Surplus(w)
<1> DEFINE x   == Recorded(w, h)
           rec == w.record \cup {h - 1}
<1>1. w = [account |-> w.account, stake |-> w.stake, record |-> w.record] /\ w.record \subseteq Nat
  BY DEF WorldOK, IsWorld
<1>2. x = [account |-> w.account, stake |-> w.stake, record |-> rec]
  <2>1. x = [w EXCEPT !.record = rec]
    BY DEF Recorded
  <2> HIDE DEF rec, x
  <2> QED
    BY <1>1, <2>1
<1>3. rec \subseteq Nat
  BY <1>1
<1> HIDE DEF x, rec
<1>4. x.account = w.account /\ x.stake = w.stake /\ x.record = rec
      /\ x = [account |-> x.account, stake |-> x.stake, record |-> x.record]
  BY <1>2
<1>5. Coins(x) = Coins(w) /\ Surplus(x) = Surplus(w)
  BY <1>4 DEF Coins, Surplus, Staked
<1>6. WorldOK(x)
  BY <1>3, <1>4, <1>5 DEF WorldOK, IsWorld
<1> QED
  BY <1>4, <1>5, <1>6 DEF x, rec

-----------------------------------------------------------------------------
(* Blocks under work.                                                      *)

Receipt == [success: BOOLEAN, fee: {1}, storage: Nat]

WorkOK(work) ==
    /\ work = [world |-> work.world, tree |-> work.tree, cached |-> work.cached,
               txs |-> work.txs, receipts |-> work.receipts, trie |-> work.trie]
    /\ WorldOK(work.world)
    /\ work.txs \in Seq(Transactions)
    /\ work.receipts \in Seq(Receipt)
    /\ Len(work.receipts) = Len(work.txs)

(* Every transaction of a block has paid the base fee. *)
LEMMA FeesAre ==
    ASSUME NEW receipts \in Seq(Receipt)
    PROVE  /\ TransactionFees(receipts) = Len(receipts)
           /\ StorageFees(receipts) \in Nat
           /\ Reward(receipts) = (IF receipts = <<>> THEN 1 ELSE Len(receipts))
           /\ Reward(receipts) \in Nat
           /\ FeeIncome(receipts) \in Nat \ {0}
<1> DEFINE one == [i \in Nat |-> 1]
           fee == [i \in DOMAIN receipts |-> receipts[i].fee]
           due == [i \in DOMAIN receipts |-> receipts[i].storage]
           n   == Len(receipts)
           Bad == {k \in Nat : SumFunctionOnSet(one, 1..k) # k}
<1>1. n \in Nat /\ DOMAIN receipts = 1..n /\ IsFiniteSet(1..n)
  BY FS_Interval
<1>2. Bad = {}
  <2> SUFFICES ASSUME Bad # {} PROVE FALSE
    OBVIOUS
  <2>1. PICK m \in Bad : \A k \in Bad : m <= k
    <3>1. Bad \in SUBSET Nat
      OBVIOUS
    <3> HIDE DEF Bad
    <3> QED
      BY <3>1, LeastNat
  <2>2. m # 0
    <3>1. 1..0 = {}
      OBVIOUS
    <3> QED
      BY <2>1, <3>1, SumEmpty
  <2>3. /\ m \in Nat /\ m - 1 \in Nat /\ m \notin 1..(m - 1) /\ 1..m = (1..(m - 1)) \cup {m}
        /\ IsFiniteSet(1..(m - 1))
    <3>1. m \in Nat /\ m - 1 \in Nat /\ m - 1 \in Int /\ 1 \in Int
      BY <2>1, <2>2
    <3> HIDE DEF Bad
    <3>2. m \notin 1..(m - 1) /\ 1..m = (1..(m - 1)) \cup {m}
      BY <3>1
    <3>3. IsFiniteSet(1..(m - 1))
      BY <3>1, FS_Interval
    <3> QED
      BY <3>1, <3>2, <3>3
  <2>4. SumFunctionOnSet(one, 1..(m - 1)) = m - 1
    <3>1. ~(m <= m - 1)
      BY <2>3
    <3> QED
      BY <2>1, <2>3, <3>1
  <2>5. \A k \in (1..(m - 1)) \cup {m} : one[k] \in Int /\ one[k] = 1
    BY <2>3
  <2> DEFINE S == 1..(m - 1)
  <2> HIDE DEF one, S
  <2>6. SumFunctionOnSet(one, S \cup {m}) = one[m] + SumFunctionOnSet(one, S)
    BY <2>3, <2>5, SumAdd DEF S
  <2>7. SumFunctionOnSet(one, 1..m) = 1 + (m - 1)
    BY <2>3, <2>4, <2>5, <2>6 DEF S
  <2>8. SumFunctionOnSet(one, 1..m) = m
    BY <2>3, <2>7
  <2> QED
    BY <2>1, <2>8
<1>3. \A i \in 1..n : fee[i] = one[i] /\ due[i] \in Nat
  <2> SUFFICES ASSUME NEW i \in 1..n PROVE fee[i] = one[i] /\ due[i] \in Nat
    OBVIOUS
  <2>1. receipts[i] \in Receipt /\ i \in DOMAIN receipts /\ i \in Nat
    BY <1>1
  <2>2. receipts[i].fee = 1 /\ receipts[i].storage \in Nat
    BY <2>1 DEF Receipt
  <2> QED
    BY <2>1, <2>2
<1>4. DOMAIN fee = 1..n /\ DOMAIN due = 1..n
  BY <1>1
<1>5. TransactionFees(receipts) = SumFunctionOnSet(fee, 1..n)
      /\ StorageFees(receipts) = SumFunctionOnSet(due, 1..n)
  BY <1>4 DEF TransactionFees, StorageFees, SumFunction
<1> HIDE DEF one, fee, due
<1>6. SumFunctionOnSet(fee, 1..n) = SumFunctionOnSet(one, 1..n)
  BY <1>1, <1>3, SumAgree
<1>7. TransactionFees(receipts) = n
  BY <1>1, <1>2, <1>5, <1>6
<1>8. StorageFees(receipts) \in Nat
  BY <1>1, <1>3, <1>5, SumNat
<1>9. Reward(receipts) = (IF receipts = <<>> THEN 1 ELSE n)
  <2>1. receipts = <<>> <=> n = 0
    OBVIOUS
  <2> HIDE DEF n
  <2>2. Reward(receipts) = Max({n, 1})
    BY <1>7 DEF Reward
  <2> QED
    BY <1>1, <2>1, <2>2 DEF Max
<1>10. Reward(receipts) \in Nat /\ Reward(receipts) > 0
  <2>1. receipts = <<>> <=> n = 0
    OBVIOUS
  <2> QED
    BY <1>1, <1>9, <2>1
<1>11. FeeIncome(receipts) \in Nat \ {0}
  BY <1>8, <1>10 DEF FeeIncome
<1> QED
  BY <1>7, <1>8, <1>9, <1>10, <1>11

(* A transaction is taken. *)
LEMMA TakenOK ==
    ASSUME NEW parent, RatesOK(parent), NEW work, WorkOK(work), NEW h,
           NEW tx \in Transactions, ~Raises(work.world, tx),
           NEW unread \in BOOLEAN, unread => tx.recipient # Treasury
    PROVE  LET x == Taken(work, parent, h, tx, unread) IN
           /\ WorkOK(x) /\ DOMAIN x.world.stake = DOMAIN work.world.stake
           /\ ~unread => Evolves(work.world, x.world, -1)
           /\ x.txs = Append(work.txs, tx) /\ Len(x.txs) = Len(work.txs) + 1
           /\ x.tree = Inserted(work.tree, h % EraSize, tx)
           /\ work.cached \subseteq x.cached
<1> DEFINE w       == work.world
           receipt == ReceiptOf(parent, w, tx, unread)
           y       == Applied(parent, w, tx, unread)
           tree    == Inserted(work.tree, h % EraSize, tx)
           trie    == [t \in DOMAIN work.trie \cup {tx} |->
                          IF t = tx THEN receipt ELSE work.trie[t]]
           cached  == work.cached \cup {tx.sender, Storage}
                         \cup (IF receipt.success THEN {tx.recipient} ELSE {})
           x       == Taken(work, parent, h, tx, unread)
<1>1. /\ WorldOK(w) /\ work.txs \in Seq(Transactions) /\ work.receipts \in Seq(Receipt)
      /\ Len(work.receipts) = Len(work.txs)
  BY DEF WorkOK
<1>2. /\ WorldOK(y) /\ DOMAIN y.stake = DOMAIN w.stake
      /\ ~unread => Evolves(w, y, -1)
      /\ receipt.fee = 1 /\ receipt.storage \in Nat
  <2> HIDE DEF w
  <2> QED
    BY <1>1, AppliedOK DEF w
<1>3. receipt \in Receipt
  <2>1. receipt = [success |-> receipt.success, fee |-> receipt.fee, storage |-> receipt.storage]
        /\ receipt.success \in BOOLEAN
    BY DEF ReceiptOf, Succeeds
  <2> HIDE DEF receipt
  <2> QED
    BY <1>2, <2>1 DEF Receipt
<1>4. work.cached \subseteq cached
  OBVIOUS
<1>5. x = [world |-> y, tree |-> tree, txs |-> Append(work.txs, tx),
           receipts |-> Append(work.receipts, receipt), trie |-> trie, cached |-> cached]
  BY DEF Taken
<1> HIDE DEF receipt, y, tree, trie, cached, x
<1>6. /\ x.world = y /\ x.tree = tree /\ x.txs = Append(work.txs, tx)
      /\ x.receipts = Append(work.receipts, receipt) /\ x.trie = trie /\ x.cached = cached
      /\ x = [world |-> x.world, tree |-> x.tree, cached |-> x.cached,
              txs |-> x.txs, receipts |-> x.receipts, trie |-> x.trie]
  BY <1>5
<1>7. /\ x.txs \in Seq(Transactions) /\ x.receipts \in Seq(Receipt)
      /\ Len(x.receipts) = Len(x.txs) /\ Len(x.txs) = Len(work.txs) + 1
  BY <1>1, <1>3, <1>6
<1>8. WorkOK(x)
  BY <1>2, <1>6, <1>7 DEF WorkOK
<1> QED
  BY <1>2, <1>4, <1>6, <1>7, <1>8 DEF x, tree, y

(* The states of a replay, one after each transaction. *)
IsReplay(run, parent, h, work, txs) ==
    /\ run[0] = [raised |-> FALSE, work |-> work]
    /\ \A i \in 1..Len(txs) : run[i] = Reapply(parent, h, run[i - 1], txs[i])

(* The transactions of a block are replayed one after the other. *)
LEMMA ReplayedIs ==
    ASSUME NEW parent, NEW h, NEW work, NEW T, NEW txs \in Seq(T)
    PROVE  \E run : /\ Replayed(parent, h, work, txs) = run[Len(txs)]
                    /\ IsReplay(run, parent, h, work, txs)
<1> DEFINE none == [raised |-> FALSE, work |-> work]
           Is(f, n) == f = [i \in 0..n |-> IF i = 0 THEN none
                                           ELSE Reapply(parent, h, f[i - 1], txs[i])]
           Bad == {n \in Nat : ~\E f : Is(f, n)}
<1>1. Bad = {}
  <2> SUFFICES ASSUME Bad # {} PROVE FALSE
    OBVIOUS
  <2>1. PICK m \in Bad : \A n \in Bad : m <= n
    <3>1. Bad \in SUBSET Nat
      OBVIOUS
    <3> HIDE DEF Bad
    <3> QED
      BY <3>1, LeastNat
  <2>2. CASE m = 0
    <3>1. Is([i \in 0..0 |-> none], 0)
      OBVIOUS
    <3> QED
      BY <2>1, <2>2, <3>1
  <2>3. CASE m # 0
    <3>1. m \in Nat /\ m - 1 \in Nat /\ m - 1 \notin Bad
      <4> HIDE DEF Is
      <4> QED
        BY <2>1, <2>3
    <3>2. PICK g : Is(g, m - 1)
      BY <3>1
    <3> DEFINE f == [i \in 0..m |-> IF i = m THEN Reapply(parent, h, g[m - 1], txs[m]) ELSE g[i]]
    <3>3. Is(f, m)
      <4>1. \A i \in 0..m : f[i] = IF i = 0 THEN none
                                   ELSE Reapply(parent, h, f[i - 1], txs[i])
        <5> SUFFICES ASSUME NEW i \in 0..m
                     PROVE  f[i] = IF i = 0 THEN none
                                   ELSE Reapply(parent, h, f[i - 1], txs[i])
          OBVIOUS
        <5>1. CASE i = m
          BY <2>3, <3>1, <5>1
        <5>2. CASE i # m
          <6>1. i \in 0..(m - 1) /\ (i # 0 => i - 1 \in 0..m /\ i - 1 # m)
            BY <3>1, <5>2
          <6>2. f[i] = g[i] /\ (i # 0 => f[i - 1] = g[i - 1])
            BY <5>2, <6>1
          <6>3. g[i] = IF i = 0 THEN none ELSE Reapply(parent, h, g[i - 1], txs[i])
            BY <3>2, <6>1
          <6> HIDE DEF f, none
          <6> QED
            BY <6>2, <6>3
        <5> QED
          BY <5>1, <5>2
      <4>2. f = [i \in 0..m |-> f[i]]
        OBVIOUS
      <4> HIDE DEF f, none
      <4> QED
        BY <4>1, <4>2
    <3> HIDE DEF f, Is
    <3> QED
      BY <2>1, <3>3
  <2> QED
    BY <2>2, <2>3
<1>2. \E f : Is(f, Len(txs))
  <2>1. Len(txs) \in Nat
    OBVIOUS
  <2> HIDE DEF Is
  <2> QED
    BY <1>1, <2>1
<1> DEFINE run == CHOOSE f : Is(f, Len(txs))
<1>3. Is(run, Len(txs))
  <2> HIDE DEF Is
  <2> QED
    BY <1>2
<1>4. Replayed(parent, h, work, txs) = run[Len(txs)]
  BY DEF Replayed
<1>5. Len(txs) \in Nat
  OBVIOUS
<1> HIDE DEF run, none
<1>6. run[0] = none /\ \A i \in 1..Len(txs) : run[i] = Reapply(parent, h, run[i - 1], txs[i])
  BY <1>3, <1>5
<1>7. IsReplay(run, parent, h, work, txs)
  BY <1>6 DEF none, IsReplay
<1> QED
  BY <1>4, <1>7

(* Without transactions there is nothing to replay. *)
LEMMA ReplayedNone ==
    ASSUME NEW parent, NEW h, NEW work
    PROVE  Replayed(parent, h, work, <<>>) = [raised |-> FALSE, work |-> work]
<1> DEFINE none == <<>>
           T    == {0}
<1>1. Len(none) = 0
  OBVIOUS
<1>2. none \in Seq(T)
  OBVIOUS
<1> HIDE DEF none, T
<1>3. PICK run : /\ Replayed(parent, h, work, none) = run[Len(none)]
                 /\ IsReplay(run, parent, h, work, none)
  BY <1>2, ReplayedIs
<1>4. Replayed(parent, h, work, none) = [raised |-> FALSE, work |-> work]
  BY <1>1, <1>3 DEF IsReplay
<1> QED
  BY <1>4 DEF none

(* What has been replayed does not depend on what comes after it. *)
LEMMA ReplayedOn ==
    ASSUME NEW parent, NEW h, NEW work, NEW T, NEW txs \in Seq(T), NEW tx \in T
    PROVE  Replayed(parent, h, work, Append(txs, tx))
              = Reapply(parent, h, Replayed(parent, h, work, txs), tx)
<1> DEFINE n   == Len(txs)
           all == Append(txs, tx)
<1>1. /\ n \in Nat /\ all \in Seq(T) /\ Len(all) = n + 1 /\ all[n + 1] = tx
      /\ \A i \in 1..n : all[i] = txs[i]
  OBVIOUS
<1>2. PICK f : Replayed(parent, h, work, txs) = f[Len(txs)] /\ IsReplay(f, parent, h, work, txs)
  BY ReplayedIs
<1> HIDE DEF all
<1>3. PICK g : Replayed(parent, h, work, all) = g[Len(all)] /\ IsReplay(g, parent, h, work, all)
  BY <1>1, ReplayedIs
<1> DEFINE Bad == {i \in 0..n : f[i] # g[i]}
<1>4. Bad = {}
  <2> SUFFICES ASSUME Bad # {} PROVE FALSE
    OBVIOUS
  <2>1. PICK m \in Bad : \A k \in Bad : m <= k
    <3>1. Bad \in SUBSET Nat
      BY <1>1
    <3> HIDE DEF Bad
    <3> QED
      BY <3>1, LeastNat
  <2>2. m \in 0..n /\ f[m] # g[m] /\ m # 0
    BY <1>2, <1>3, <2>1 DEF IsReplay
  <2>3. m \in 1..n /\ m \in 1..Len(all) /\ m - 1 \in 0..n /\ ~(m <= m - 1)
    BY <1>1, <2>2
  <2>4. f[m - 1] = g[m - 1]
    BY <2>1, <2>3
  <2>5. f[m] = Reapply(parent, h, f[m - 1], txs[m]) /\ g[m] = Reapply(parent, h, g[m - 1], all[m])
    BY <1>2, <1>3, <2>3 DEF IsReplay
  <2>6. f[m] = g[m]
    BY <1>1, <2>3, <2>4, <2>5
  <2> QED
    BY <2>2, <2>6
<1>5. f[n] = g[n]
  BY <1>1, <1>4
<1>6. n + 1 \in 1..Len(all) /\ (n + 1) - 1 = n
  BY <1>1
<1>7. g[n + 1] = Reapply(parent, h, g[(n + 1) - 1], all[n + 1])
  BY <1>3, <1>6 DEF IsReplay
<1>8. Replayed(parent, h, work, all) = Reapply(parent, h, Replayed(parent, h, work, txs), tx)
  BY <1>1, <1>2, <1>3, <1>5, <1>6, <1>7
<1> QED
  BY <1>8 DEF all

(* A replay that comes to its end has burnt the base fees. *)
LEMMA ReplayedOK ==
    ASSUME NEW parent, RatesOK(parent), NEW h, NEW work, WorkOK(work), work.txs = <<>>,
           NEW txs \in Seq(Transactions)
    PROVE  LET run == Replayed(parent, h, work, txs) IN
           ~run.raised => /\ WorkOK(run.work)
                          /\ Len(run.work.receipts) = Len(txs)
                          /\ Evolves(work.world, run.work.world, 0 - Len(txs))
<1>1. PICK run : Replayed(parent, h, work, txs) = run[Len(txs)]
                 /\ IsReplay(run, parent, h, work, txs)
  BY ReplayedIs
<1>2. /\ Replayed(parent, h, work, txs) = run[Len(txs)]
      /\ run[0] = [raised |-> FALSE, work |-> work]
      /\ \A i \in 1..Len(txs) : run[i] = Reapply(parent, h, run[i - 1], txs[i])
  BY <1>1 DEF IsReplay
<1> DEFINE n == Len(txs)
           Fine(i) == ~run[i].raised => /\ WorkOK(run[i].work)
                                        /\ Len(run[i].work.txs) = i
                                        /\ Evolves(work.world, run[i].work.world, 0 - i)
           Bad == {i \in 0..n : ~Fine(i)}
<1>3. n \in Nat
  OBVIOUS
<1>4. WorldOK(work.world)
  BY DEF WorkOK
<1>5. Fine(0)
  <2>1. run[0].work = work /\ Len(work.txs) = 0 /\ 0 - 0 = 0
    BY <1>2
  <2> QED
    BY <1>4, <2>1, EvolvesNot
<1>6. ASSUME NEW i \in 1..n, Fine(i - 1) PROVE Fine(i)
  <2> SUFFICES ASSUME ~run[i].raised
               PROVE  /\ WorkOK(run[i].work) /\ Len(run[i].work.txs) = i
                      /\ Evolves(work.world, run[i].work.world, 0 - i)
    OBVIOUS
  <2> DEFINE u == run[i - 1].work
             t == txs[i]
             x == run[i].work
             m == 0 - (i - 1)
  <2>1. run[i] = Reapply(parent, h, run[i - 1], t) /\ t \in Transactions
    BY <1>2
  <2>2. ~run[i - 1].raised /\ ~Raises(u.world, t) /\ x = Taken(u, parent, h, t, FALSE)
    <3> DEFINE r == run[i]
               q == run[i - 1]
    <3>1. r = Reapply(parent, h, q, t) /\ ~r.raised
      BY <2>1
    <3> HIDE DEF r, q, t
    <3>2. ~q.raised /\ ~Raises(q.work.world, t) /\ r.work = Taken(q.work, parent, h, t, FALSE)
      BY <3>1 DEF Reapply
    <3> QED
      BY <3>2 DEF r, q
  <2>3. WorkOK(u) /\ Len(u.txs) = i - 1 /\ Evolves(work.world, u.world, m)
    BY <1>6, <2>2
  <2> HIDE DEF u, t, x, m
  <2>4. WorkOK(x) /\ Evolves(u.world, x.world, -1) /\ Len(x.txs) = Len(u.txs) + 1
    <3> DEFINE no == FALSE
    <3>1. no \in BOOLEAN /\ ~no /\ ~Raises(u.world, t) /\ t \in Transactions /\ WorkOK(u)
          /\ x = Taken(u, parent, h, t, no)
      BY <2>1, <2>2, <2>3
    <3> HIDE DEF no
    <3> DEFINE y == Taken(u, parent, h, t, no)
    <3>2. WorkOK(y)
      BY <3>1, TakenOK
    <3>3. ~no => Evolves(u.world, y.world, -1)
      BY <3>1, TakenOK
    <3>4. y.txs = Append(u.txs, t) /\ u.txs \in Seq(Transactions)
      BY <3>1 DEF Taken, WorkOK
    <3> HIDE DEF y
    <3>5. Len(y.txs) = Len(u.txs) + 1
      BY <3>1, <3>4
    <3>6. x = y
      BY <3>1 DEF y
    <3> QED
      BY <3>1, <3>2, <3>3, <3>5, <3>6
  <2>5. Len(x.txs) = i
    <3>1. u.txs \in Seq(Transactions) /\ i \in Nat
      BY <1>3, <2>3 DEF WorkOK
    <3> QED
      BY <2>1, <2>3, <2>4, <3>1
  <2>6. Evolves(work.world, x.world, m + (-1))
    <3> DEFINE a == work.world
               b == u.world
               c == x.world
    <3>1. Evolves(a, b, m) /\ Evolves(b, c, -1) /\ WorldOK(a) /\ m \in Int /\ -1 \in Int
      BY <1>3, <1>4, <2>3, <2>4 DEF m
    <3> HIDE DEF a, b, c
    <3>2. Evolves(a, c, m + (-1))
      BY <3>1, EvolvesOn
    <3> QED
      BY <3>2 DEF a, c
  <2>7. m + (-1) = 0 - i
    <3>1. i \in Int
      BY <1>3
    <3> QED
      BY <3>1 DEF m
  <2> QED
    BY <2>4, <2>5, <2>6, <2>7 DEF x
<1>7. Bad = {}
  <2> SUFFICES ASSUME Bad # {} PROVE FALSE
    OBVIOUS
  <2>1. PICK m \in Bad : \A k \in Bad : m <= k
    <3>1. Bad \in SUBSET Nat
      BY <1>3
    <3> HIDE DEF Bad
    <3> QED
      BY <3>1, LeastNat
  <2>2. m # 0 /\ m \in 1..n /\ m - 1 \in 0..n
    BY <1>3, <1>5, <2>1
  <2>3. Fine(m - 1)
    <3> HIDE DEF Fine
    <3> QED
      BY <2>1, <2>2
  <2> HIDE DEF Fine
  <2> QED
    BY <1>6, <2>1, <2>2, <2>3
<1>8. Fine(n)
  <2> HIDE DEF Fine
  <2> QED
    BY <1>3, <1>7
<1> QED
  BY <1>2, <1>8 DEF WorkOK

-----------------------------------------------------------------------------
(* The windows of the statistics.                                          *)

(* Window i is half as long as window i + 1. *)
LEMMA WindowSizeIs ==
    /\ WindowSize[0] = 1
    /\ \A n \in Nat : WindowSize[n + 1] = 2 * WindowSize[n]
<1> DEFINE Is(f, n) == f = [i \in 0..n |-> IF i = 0 THEN 1 ELSE 2 * f[i - 1]]
           Bad == {n \in Nat : ~\E f : Is(f, n)}
<1>1. Bad = {}
  <2> SUFFICES ASSUME Bad # {} PROVE FALSE
    OBVIOUS
  <2>1. PICK m \in Bad : \A n \in Bad : m <= n
    <3>1. Bad \in SUBSET Nat
      OBVIOUS
    <3> HIDE DEF Bad
    <3> QED
      BY <3>1, LeastNat
  <2>2. CASE m = 0
    <3>1. Is([i \in 0..0 |-> 1], 0)
      OBVIOUS
    <3> QED
      BY <2>1, <2>2, <3>1
  <2>3. CASE m # 0
    <3>1. m \in Nat /\ m - 1 \in Nat /\ m - 1 \notin Bad
      <4> HIDE DEF Is
      <4> QED
        BY <2>1, <2>3
    <3>2. PICK g : Is(g, m - 1)
      BY <3>1
    <3> DEFINE f == [i \in 0..m |-> IF i = m THEN 2 * g[m - 1] ELSE g[i]]
    <3>3. Is(f, m)
      <4>1. \A i \in 0..m : f[i] = IF i = 0 THEN 1 ELSE 2 * f[i - 1]
        <5> SUFFICES ASSUME NEW i \in 0..m
                     PROVE  f[i] = IF i = 0 THEN 1 ELSE 2 * f[i - 1]
          OBVIOUS
        <5>1. CASE i = m
          BY <2>3, <3>1, <5>1
        <5>2. CASE i # m
          <6>1. i \in 0..(m - 1) /\ (i # 0 => i - 1 \in 0..m /\ i - 1 # m)
            BY <3>1, <5>2
          <6>2. f[i] = g[i] /\ (i # 0 => f[i - 1] = g[i - 1])
            BY <5>2, <6>1
          <6>3. g[i] = IF i = 0 THEN 1 ELSE 2 * g[i - 1]
            BY <3>2, <6>1
          <6> HIDE DEF f
          <6> QED
            BY <6>2, <6>3
        <5> QED
          BY <5>1, <5>2
      <4>2. f = [i \in 0..m |-> f[i]]
        OBVIOUS
      <4> HIDE DEF f
      <4> QED
        BY <4>1, <4>2
    <3> HIDE DEF f, Is
    <3> QED
      BY <2>1, <3>3
  <2> QED
    BY <2>2, <2>3
<1> DEFINE upTo(n) == CHOOSE f : Is(f, n)
           F == [n \in Nat |-> upTo(n)[n]]
<1>2. \A n \in Nat : Is(upTo(n), n)
  <2> HIDE DEF Is
  <2> QED
    BY <1>1
<1>3. ASSUME NEW m \in Nat, NEW i \in 0..m
      PROVE  upTo(m)[i] = IF i = 0 THEN 1 ELSE 2 * upTo(m)[i - 1]
  <2>1. Is(upTo(m), m)
    BY <1>2
  <2> HIDE DEF upTo
  <2> QED
    BY <2>1
<1>4. ASSUME NEW n \in Nat PROVE upTo(n + 1)[n] = upTo(n)[n]
  <2> DEFINE f == upTo(n)
             g == upTo(n + 1)
             Off == {i \in 0..n : f[i] # g[i]}
  <2>1. \A i \in 0..n : f[i] = IF i = 0 THEN 1 ELSE 2 * f[i - 1]
    BY <1>3
  <2>2. \A i \in 0..n : g[i] = IF i = 0 THEN 1 ELSE 2 * g[i - 1]
    <3>1. n + 1 \in Nat /\ 0..n \subseteq 0..(n + 1)
      OBVIOUS
    <3> HIDE DEF upTo
    <3> QED
      BY <1>3, <3>1
  <2> HIDE DEF f, g
  <2>3. Off = {}
    <3> SUFFICES ASSUME Off # {} PROVE FALSE
      OBVIOUS
    <3>1. PICK m \in Off : \A k \in Off : m <= k
      <4>1. Off \in SUBSET Nat
        OBVIOUS
      <4> HIDE DEF Off
      <4> QED
        BY <4>1, LeastNat
    <3>2. m \in 0..n /\ f[m] # g[m] /\ m # 0
      BY <2>1, <2>2, <3>1
    <3>3. m - 1 \in 0..n /\ ~(m <= m - 1)
      BY <3>2
    <3>4. f[m - 1] = g[m - 1]
      BY <3>1, <3>3
    <3> QED
      BY <2>1, <2>2, <3>2, <3>4
  <2>4. f[n] = g[n]
    BY <2>3
  <2> QED
    BY <2>4 DEF f, g
<1>5. \A n \in Nat : F[n] = IF n = 0 THEN 1 ELSE 2 * F[n - 1]
  <2> SUFFICES ASSUME NEW n \in Nat PROVE F[n] = IF n = 0 THEN 1 ELSE 2 * F[n - 1]
    OBVIOUS
  <2>1. F[n] = upTo(n)[n]
    OBVIOUS
  <2>2. CASE n = 0
    <3>1. 0 \in Nat /\ 0 \in 0..0
      OBVIOUS
    <3>2. upTo(0)[0] = 1
      BY <1>3, <3>1
    <3> HIDE DEF F, upTo
    <3> QED
      BY <2>1, <2>2, <3>2
  <2>3. CASE n # 0
    <3>1. n - 1 \in Nat /\ (n - 1) + 1 = n /\ n \in 0..n
      BY <2>3
    <3>2. upTo(n)[n] = 2 * upTo(n)[n - 1]
      BY <1>3, <2>3, <3>1
    <3>3. upTo((n - 1) + 1)[n - 1] = upTo(n - 1)[n - 1]
      BY <1>4, <3>1
    <3>4. F[n - 1] = upTo(n - 1)[n - 1]
      BY <3>1
    <3> HIDE DEF F, upTo
    <3> QED
      BY <2>1, <2>3, <3>1, <3>2, <3>3, <3>4
  <2> QED
    BY <2>2, <2>3
<1>6. \E f : f = [i \in Nat |-> IF i = 0 THEN 1 ELSE 2 * f[i - 1]]
  <2>1. F = [n \in Nat |-> F[n]]
    OBVIOUS
  <2> HIDE DEF F
  <2>2. F = [i \in Nat |-> IF i = 0 THEN 1 ELSE 2 * F[i - 1]]
    BY <1>5, <2>1
  <2> QED
    BY <2>2
<1>7. WindowSize = CHOOSE f : f = [i \in Nat |-> IF i = 0 THEN 1 ELSE 2 * f[i - 1]]
  BY DEF WindowSize
<1>8. WindowSize = [i \in Nat |-> IF i = 0 THEN 1 ELSE 2 * WindowSize[i - 1]]
  BY <1>6, <1>7, Zenon
<1>9. \A n \in Nat : WindowSize[n] = IF n = 0 THEN 1 ELSE 2 * WindowSize[n - 1]
  BY <1>8
<1>10. ASSUME NEW n \in Nat PROVE WindowSize[n + 1] = 2 * WindowSize[n]
  <2>1. n + 1 \in Nat /\ n + 1 # 0 /\ (n + 1) - 1 = n
    OBVIOUS
  <2> QED
    BY <1>9, <2>1
<1> QED
  BY <1>9, <1>10

(* Windows get longer. *)
LEMMA WindowSizeGrows ==
    \A n \in Nat : /\ WindowSize[n] \in Nat /\ WindowSize[n] > n
                   /\ \A m \in 0..n : WindowSize[m] <= WindowSize[n]
<1> DEFINE Fine(n) == /\ WindowSize[n] \in Nat /\ WindowSize[n] > n
                      /\ \A m \in 0..n : WindowSize[m] \in Nat /\ WindowSize[m] <= WindowSize[n]
           Bad == {n \in Nat : ~Fine(n)}
<1>1. Fine(0)
  BY WindowSizeIs
<1>2. ASSUME NEW n \in Nat, Fine(n) PROVE Fine(n + 1)
  <2>1. WindowSize[n + 1] = 2 * WindowSize[n] /\ WindowSize[n] \in Nat /\ WindowSize[n] > n
    BY <1>2, WindowSizeIs
  <2>2. WindowSize[n + 1] \in Nat /\ WindowSize[n + 1] > n + 1
        /\ WindowSize[n] <= WindowSize[n + 1]
    BY <2>1
  <2>3. \A m \in 0..(n + 1) : m = n + 1 \/ m \in 0..n
    OBVIOUS
  <2>4. ASSUME NEW m \in 0..(n + 1)
        PROVE  WindowSize[m] \in Nat /\ WindowSize[m] <= WindowSize[n + 1]
    <3>1. CASE m = n + 1
      BY <2>2, <3>1
    <3>2. CASE m \in 0..n
      <4>1. WindowSize[m] \in Nat /\ WindowSize[m] <= WindowSize[n]
        BY <1>2, <3>2
      <4> QED
        BY <2>1, <2>2, <4>1
    <3> QED
      BY <2>3, <3>1, <3>2
  <2> QED
    BY <2>2, <2>4
<1>3. Bad = {}
  <2> SUFFICES ASSUME Bad # {} PROVE FALSE
    OBVIOUS
  <2>1. PICK m \in Bad : \A k \in Bad : m <= k
    <3>1. Bad \in SUBSET Nat
      OBVIOUS
    <3> HIDE DEF Bad
    <3> QED
      BY <3>1, LeastNat
  <2>2. m # 0 /\ m \in Nat /\ m - 1 \in Nat /\ ~(m <= m - 1) /\ (m - 1) + 1 = m
    <3> HIDE DEF Fine
    <3> QED
      BY <1>1, <2>1
  <2>3. Fine(m - 1)
    <3> HIDE DEF Fine
    <3> QED
      BY <2>1, <2>2
  <2> HIDE DEF Fine
  <2> QED
    BY <1>2, <2>1, <2>2, <2>3
<1> QED
  BY <1>3

(* At height h there is a window for each size up to h. *)
LEMMA WindowsAtIs ==
    ASSUME NEW h \in Nat
    PROVE  /\ WindowsAt(h) \in Nat /\ h < WindowSize[WindowsAt(h)]
           /\ WindowsAt(h) > 0 => WindowSize[WindowsAt(h) - 1] <= h
<1> DEFINE T == {n \in Nat : h < WindowSize[n]}
<1>1. h \in T
  BY WindowSizeGrows
<1>2. PICK n \in T : \A m \in T : n <= m
  <2>1. T \in SUBSET Nat /\ T # {}
    BY <1>1
  <2> HIDE DEF T
  <2> QED
    BY <2>1, LeastNat
<1>3. n \in 0..h /\ h < WindowSize[n]
  BY <1>1, <1>2
<1>4. n > 0 => WindowSize[n - 1] <= h
  <2> SUFFICES ASSUME n > 0 PROVE WindowSize[n - 1] <= h
    OBVIOUS
  <2>1. n - 1 \in Nat /\ ~(n <= n - 1)
    BY <1>3
  <2>2. n - 1 \notin T
    <3> HIDE DEF T
    <3> QED
      BY <1>2, <2>1
  <2>3. ~(h < WindowSize[n - 1]) /\ WindowSize[n - 1] \in Nat
    BY <2>1, <2>2, WindowSizeGrows
  <2> QED
    BY <2>3
<1>5. \E m \in 0..h : h < WindowSize[m] /\ (m > 0 => WindowSize[m - 1] <= h)
  BY <1>3, <1>4
<1>6. /\ WindowsAt(h) \in 0..h /\ h < WindowSize[WindowsAt(h)]
      /\ WindowsAt(h) > 0 => WindowSize[WindowsAt(h) - 1] <= h
  BY <1>5, Zenon DEF WindowsAt
<1> QED
  BY <1>6

(* No other number of windows fits the height. *)
LEMMA WindowsAtOnly ==
    ASSUME NEW h \in Nat, NEW n \in Nat, h < WindowSize[n], n > 0 => WindowSize[n - 1] <= h
    PROVE  WindowsAt(h) = n
<1> DEFINE m == WindowsAt(h)
<1>1. m \in Nat /\ h < WindowSize[m] /\ (m > 0 => WindowSize[m - 1] <= h)
  BY WindowsAtIs
<1> HIDE DEF m
<1>2. CASE m < n
  <2>1. n > 0 /\ n - 1 \in Nat /\ m \in 0..(n - 1)
    BY <1>1, <1>2
  <2>2. WindowSize[m] <= WindowSize[n - 1] /\ WindowSize[m] \in Nat /\ WindowSize[n - 1] \in Nat
    BY <1>1, <2>1, WindowSizeGrows
  <2> QED
    BY <1>1, <2>1, <2>2
<1>3. CASE n < m
  <2>1. m > 0 /\ m - 1 \in Nat /\ n \in 0..(m - 1)
    BY <1>1, <1>3
  <2>2. WindowSize[n] <= WindowSize[m - 1] /\ WindowSize[n] \in Nat /\ WindowSize[m - 1] \in Nat
    BY <2>1, WindowSizeGrows
  <2> QED
    BY <1>1, <2>1, <2>2
<1> QED
  BY <1>1, <1>2, <1>3 DEF m

(* A window is born at the height of its size. *)
LEMMA WindowsAtNext ==
    /\ WindowsAt(0) = 0
    /\ \A h \in Nat : WindowsAt(h + 1) = IF h + 1 = WindowSize[WindowsAt(h)]
                                         THEN WindowsAt(h) + 1 ELSE WindowsAt(h)
<1>1. WindowsAt(0) = 0
  <2>1. 0 \in Nat /\ 0 < WindowSize[0]
    BY WindowSizeIs
  <2> QED
    BY <2>1, WindowsAtOnly
<1>2. ASSUME NEW h \in Nat
      PROVE  WindowsAt(h + 1) = IF h + 1 = WindowSize[WindowsAt(h)]
                                THEN WindowsAt(h) + 1 ELSE WindowsAt(h)
  <2> DEFINE n == WindowsAt(h)
  <2>1. n \in Nat /\ h < WindowSize[n] /\ (n > 0 => WindowSize[n - 1] <= h)
    BY WindowsAtIs
  <2> HIDE DEF n
  <2>2. /\ WindowSize[n] \in Nat /\ WindowSize[n + 1] = 2 * WindowSize[n]
        /\ n > 0 => WindowSize[n - 1] \in Nat
    BY <2>1, WindowSizeIs, WindowSizeGrows
  <2>3. CASE h + 1 = WindowSize[n]
    <3>1. h + 1 < WindowSize[n + 1] /\ WindowSize[(n + 1) - 1] <= h + 1 /\ n + 1 \in Nat
          /\ h + 1 \in Nat
      BY <2>1, <2>2, <2>3
    <3>2. WindowsAt(h + 1) = n + 1
      BY <3>1, WindowsAtOnly
    <3> QED
      BY <2>3, <3>2 DEF n
  <2>4. CASE h + 1 # WindowSize[n]
    <3>1. h + 1 < WindowSize[n] /\ h + 1 \in Nat
      BY <2>1, <2>2, <2>4
    <3>2. n > 0 => WindowSize[n - 1] <= h + 1
      BY <2>1, <2>2
    <3>3. WindowsAt(h + 1) = n
      BY <2>1, <3>1, <3>2, WindowsAtOnly
    <3> QED
      BY <2>4, <3>3 DEF n
  <2> QED
    BY <2>3, <2>4
<1> QED
  BY <1>1, <1>2
-----------------------------------------------------------------------------
(* The invariant.                                                          *)

(* A block of the chain. *)
BlockOK(b) ==
    /\ WorldOK(b.world)
    /\ b.txs \in Seq(Transactions)
    /\ b.time \in Nat
    /\ b.income.fee \in Nat \ {0} /\ b.income.stake \in Nat

(* The window entries of a block at height h. *)
StatisticsOK(stats, h) ==
    /\ DOMAIN stats = 1..(WindowsAt(h) + 1) /\ Len(stats) = WindowsAt(h) + 1
    /\ stats[1].fee \in Nat \ {0} /\ stats[1].stake \in Nat

(* A block is some slots after its parent. *)
Later(time, parent) == \E slots \in 1..MaxSlots : time = parent.time + slots * Slot

ChainOK ==
    /\ Len(chain) \in Nat \ {0} /\ Height \in 0..MaxHeight
    /\ \A i \in 1..Len(chain) : BlockOK(chain[i]) /\ StatisticsOK(chain[i].statistics, i - 1)
    /\ \A i \in 2..Len(chain) : Later(chain[i].time, chain[i - 1])

QueueOK == queue \in Seq(Transactions)

BuildOK ==
    build # Idle =>
        /\ build = [building |-> TRUE, time |-> build.time, validator |-> build.validator,
                    work |-> build.work, current |-> build.current, lost |-> build.lost]
        /\ Height < MaxHeight
        /\ Later(build.time, Parent)
        /\ build.validator \in DOMAIN Parent.world.stake
        /\ WorkOK(build.work)
        /\ DOMAIN build.work.world.stake = DOMAIN Parent.world.stake
        /\ Treasury \in build.work.cached
        /\ build.current # <<>> => /\ Head(build.current) \in Transactions
                                   /\ build.current = <<Head(build.current)>>

(* What two blocks under work have in common, whatever was in the cache. *)
SameWork(u, w) ==
    /\ u.world = w.world /\ u.tree = w.tree /\ u.txs = w.txs
    /\ u.receipts = w.receipts /\ u.trie = w.trie

(* What a verifier starts with. *)
Fresh(parent, block, h) ==
    NoWork(Recorded(Redraw(parent, block, h).world, h), EraTree(parent, h, {}), {})

(* A builder that lacked nothing is where a verifier will be. *)
Clean(parent, block, h) ==
    LET run == Replayed(parent, h, Fresh(parent, block, h), block.work.txs)
    IN  /\ Storage \in block.work.cached
        /\ Redraw(parent, block, h).validator = block.validator
        /\ ~run.raised
        /\ SameWork(run.work, block.work)

CleanBuild ==
    (build # Idle /\ build.lost \subseteq Harmless) => Clean(Parent, build, Height + 1)

(* A block's statistics are its parent's, updated. *)
LEMMA StatisticsNext ==
    ASSUME NEW h \in Nat, NEW prev, StatisticsOK(prev, h), NEW fee \in Nat \ {0}, NEW stake \in Nat
    PROVE  LET s == UpdateStatistics(h + 1, prev, fee, stake) IN
           /\ StatisticsOK(s, h + 1)
           /\ s[1].fee = prev[1].fee + fee /\ s[1].stake = prev[1].stake + stake
           /\ \A p \in 2..Len(s) :
                 \/ p > Len(prev) /\ h + 1 = WindowSize[p - 2] /\ s[p] = Born(prev, fee, stake)
                 \/ /\ p \in 2..Len(prev) /\ (h + 1) % WindowSize[p - 2] = 0
                    /\ s[p] = Rotated(prev[p], fee, stake)
                 \/ /\ p \in 2..Len(prev) /\ (h + 1) % WindowSize[p - 2] # 0
                    /\ s[p] = Grown(prev[p], fee, stake)
<1> DEFINE s == UpdateStatistics(h + 1, prev, fee, stake)
           n == WindowsAt(h)
           m == WindowsAt(h + 1)
           val(p) == CASE p = 1              -> Grown(prev[1], fee, stake)
                       [] p > Len(prev)      -> Born(prev, fee, stake)
                       [] p \in 2..Len(prev) -> IF (h + 1) % WindowSize[p - 2] = 0
                                                THEN Rotated(prev[p], fee, stake)
                                                ELSE Grown(prev[p], fee, stake)
<1>1. /\ n \in Nat /\ m \in Nat /\ m = IF h + 1 = WindowSize[n] THEN n + 1 ELSE n
  BY WindowsAtIs, WindowsAtNext
<1>2. /\ Len(prev) = n + 1 /\ prev[1].fee \in Nat \ {0} /\ prev[1].stake \in Nat
  BY DEF StatisticsOK
<1>3. s = [p \in 1..(m + 1) |-> val(p)]
  BY DEF UpdateStatistics
<1> HIDE DEF s, n, m
<1>4. DOMAIN s = 1..(m + 1) /\ \A p \in 1..(m + 1) : s[p] = val(p)
  <2> HIDE DEF val
  <2> QED
    BY <1>3
<1>5. Len(s) = m + 1
  <2> HIDE DEF val
  <2> QED
    BY <1>1, <1>3
<1>6. /\ s[1] = Grown(prev[1], fee, stake)
      /\ s[1].fee = prev[1].fee + fee /\ s[1].stake = prev[1].stake + stake
  <2>1. s[1] = Grown(prev[1], fee, stake)
    <3>1. 1 \in 1..(m + 1) /\ ~(1 > Len(prev)) /\ 1 \notin 2..Len(prev)
      BY <1>1, <1>2
    <3>2. val(1) = Grown(prev[1], fee, stake)
      BY <3>1
    <3> HIDE DEF val
    <3> QED
      BY <1>4, <3>1, <3>2
  <2> QED
    BY <2>1 DEF Grown, Window
<1>7. StatisticsOK(s, h + 1)
  <2>1. s[1].fee \in Nat \ {0} /\ s[1].stake \in Nat
    BY <1>2, <1>6
  <2> QED
    BY <1>4, <1>5, <2>1 DEF StatisticsOK, m
<1>8. ASSUME NEW p \in 2..Len(s)
      PROVE  \/ p > Len(prev) /\ h + 1 = WindowSize[p - 2] /\ s[p] = Born(prev, fee, stake)
             \/ /\ p \in 2..Len(prev) /\ (h + 1) % WindowSize[p - 2] = 0
                /\ s[p] = Rotated(prev[p], fee, stake)
             \/ /\ p \in 2..Len(prev) /\ (h + 1) % WindowSize[p - 2] # 0
                /\ s[p] = Grown(prev[p], fee, stake)
  <2>1. p \in 1..(m + 1) /\ p # 1 /\ s[p] = val(p)
    BY <1>1, <1>4, <1>5
  <2>2. CASE p > Len(prev)
    <3>1. p = n + 2 /\ h + 1 = WindowSize[n] /\ p - 2 = n
      BY <1>1, <1>2, <2>1, <2>2
    <3>2. s[p] = Born(prev, fee, stake)
      BY <2>1, <2>2
    <3> HIDE DEF val
    <3> QED
      BY <2>2, <3>1, <3>2
  <2>3. CASE ~(p > Len(prev))
    <3>1. p \in 2..Len(prev)
      BY <1>1, <1>2, <2>1, <2>3
    <3>2. s[p] = IF (h + 1) % WindowSize[p - 2] = 0 THEN Rotated(prev[p], fee, stake)
                                                   ELSE Grown(prev[p], fee, stake)
      BY <2>1, <2>3, <3>1
    <3> HIDE DEF val
    <3> QED
      BY <3>1, <3>2
  <2> QED
    BY <2>2, <2>3
<1> QED
  BY <1>6, <1>7, <1>8 DEF s

IsChain == \E S : chain \in Seq(S)

Sound == IsChain /\ ChainOK /\ QueueOK /\ BuildOK

(* A block more. *)
LEMMA Appended ==
    ASSUME IsChain, Len(chain) > 0, NEW b, chain' = Append(chain, b)
    PROVE  /\ IsChain' /\ Len(chain') = Len(chain) + 1 /\ Height' = Height + 1
           /\ chain'[Len(chain')] = b /\ Parent' = b /\ Parent = chain[Len(chain)]
           /\ \A i \in 1..Len(chain) : chain'[i] = chain[i]
<1>1. PICK S : chain \in Seq(S)
  BY DEF IsChain
<1> DEFINE T == S \cup {b}
<1>2. chain \in Seq(T)
  <2>1. \A i \in 1..Len(chain) : chain[i] \in T
    BY <1>1
  <2>2. chain = [i \in 1..Len(chain) |-> chain[i]] /\ Len(chain) \in Nat
    BY <1>1
  <2> HIDE DEF T
  <2> QED
    BY <2>1, <2>2
<1>3. b \in T
  OBVIOUS
<1> HIDE DEF T
<1>4. /\ chain' \in Seq(T) /\ Len(chain') = Len(chain) + 1 /\ Len(chain) \in Nat
      /\ chain'[Len(chain) + 1] = b
      /\ \A i \in 1..Len(chain) : chain'[i] = chain[i]
  BY <1>2, <1>3
<1>5. IsChain'
  BY <1>4 DEF IsChain
<1>6. Height' = Height + 1 /\ Parent' = b /\ Parent = chain[Len(chain)]
  BY <1>4 DEF Height, Parent, Last
<1> QED
  BY <1>4, <1>5, <1>6

(* The last block, and what is taken from the queue. *)
LEMMA SoundIs ==
    ASSUME Sound
    PROVE  /\ Parent = chain[Len(chain)] /\ Len(chain) \in Nat /\ Len(chain) > 0
           /\ Height \in 0..MaxHeight /\ MaxHeight \in Nat /\ Height = Len(chain) - 1
           /\ BlockOK(Parent) /\ WorldOK(Parent.world) /\ RatesOK(Parent)
           /\ StatisticsOK(Parent.statistics, Height)
           /\ NextTx # <<>> => /\ Head(NextTx) \in Transactions
                               /\ NextTx = <<Head(NextTx)>>
           /\ Pop => QueueOK'
<1>1. /\ Len(chain) \in Nat /\ Len(chain) > 0 /\ Height \in 0..MaxHeight
      /\ \A i \in 1..Len(chain) : BlockOK(chain[i]) /\ StatisticsOK(chain[i].statistics, i - 1)
  BY DEF Sound, ChainOK
<1>2. Parent = chain[Len(chain)] /\ Height = Len(chain) - 1 /\ MaxHeight \in Nat
  BY BlocksAssumption DEF Parent, Height, Last, BlocksAssumption
<1>3. BlockOK(Parent) /\ StatisticsOK(Parent.statistics, Height)
  BY <1>1, <1>2
<1>4. WorldOK(Parent.world) /\ RatesOK(Parent)
  BY <1>3 DEF BlockOK, StatisticsOK, RatesOK
<1>5. queue \in Seq(Transactions)
  BY DEF Sound, QueueOK
<1>6. NextTx # <<>> => Head(NextTx) \in Transactions /\ NextTx = <<Head(NextTx)>>
  <2> SUFFICES ASSUME queue # <<>>
               PROVE  Head(NextTx) \in Transactions /\ NextTx = <<Head(NextTx)>>
    BY DEF NextTx
  <2>1. NextTx = <<Head(queue)>> /\ Head(queue) \in Transactions
    BY <1>5 DEF NextTx
  <2> QED
    BY <2>1
<1>7. Pop => QueueOK'
  BY <1>5 DEF Pop, QueueOK
<1> QED
  BY <1>1, <1>2, <1>3, <1>4, <1>6, <1>7

(* A block is begun. *)
LEMMA StartSound ==
    ASSUME Sound, NEW slots \in 1..MaxSlots, NEW stakes, NEW storage \in BOOLEAN, NEW nodes,
           NEW lost, Start(slots, stakes, storage, nodes, lost)
    PROVE  Sound'
<1> DEFINE h      == Height + 1
           draw   == Draw(Parent.world, Height, slots, stakes)
           w      == IF storage THEN draw.world ELSE Recorded(draw.world, h)
           cached == draw.cached \cup (IF storage THEN {} ELSE {Storage})
           tree   == EraTree(Parent, h, nodes)
           work   == NoWork(w, tree, cached)
           b      == [building  |-> TRUE,
                      time      |-> Parent.time + slots * Slot,
                      validator |-> draw.validator,
                      work      |-> work,
                      current   |-> NextTx,
                      lost      |-> lost]
<1>1. /\ build' = b /\ Pop /\ chain' = chain /\ h <= MaxHeight
      /\ DOMAIN Parent.world.stake \ stakes # {}
  BY DEF Start
<1>2. /\ Height \in Nat /\ Height \in 0..MaxHeight /\ MaxHeight \in Nat
      /\ WorldOK(Parent.world) /\ QueueOK' /\ h > 0
      /\ NextTx # <<>> => Head(NextTx) \in Transactions /\ NextTx = <<Head(NextTx)>>
  BY <1>1, SoundIs
<1>3. /\ draw.validator \in DOMAIN Parent.world.stake
      /\ Evolves(Parent.world, draw.world, 0)
      /\ Treasury \in draw.cached
  BY <1>1, <1>2, DrawOK
<1>4. WorldOK(draw.world) /\ DOMAIN draw.world.stake = DOMAIN Parent.world.stake
  BY <1>3 DEF Evolves
<1> HIDE DEF draw
<1>5. WorldOK(w) /\ DOMAIN w.stake = DOMAIN Parent.world.stake
  <2>1. CASE storage
    BY <1>4, <2>1
  <2>2. CASE ~storage
    <3>1. h \in Nat /\ h > 0
      BY <1>2
    <3>2. WorldOK(Recorded(draw.world, h)) /\ Recorded(draw.world, h).stake = draw.world.stake
      BY <1>4, <3>1, RecordedOK
    <3> QED
      BY <1>4, <2>2, <3>2
  <2> QED
    BY <2>1, <2>2
<1>6. Treasury \in cached
  BY <1>3
<1> HIDE DEF w, tree, cached
<1>7. WorkOK(work) /\ work.world = w /\ work.cached = cached
  <2>1. /\ work = [world |-> w, tree |-> tree, cached |-> cached,
                   txs |-> <<>>, receipts |-> <<>>, trie |-> <<>>]
    BY DEF NoWork
  <2>2. /\ work.world = w /\ work.tree = tree /\ work.cached = cached
        /\ work.txs = <<>> /\ work.receipts = <<>> /\ work.trie = <<>>
    BY <2>1
  <2>3. <<>> \in Seq(Transactions) /\ <<>> \in Seq(Receipt)
    OBVIOUS
  <2> HIDE DEF work
  <2> QED
    BY <1>5, <2>1, <2>2, <2>3 DEF WorkOK
<1> HIDE DEF work
<1>8. Height' = Height /\ Parent' = Parent
  BY <1>1 DEF Height, Parent
<1>9. /\ build'.time = Parent.time + slots * Slot /\ build'.validator = draw.validator
      /\ build'.work = work /\ build'.current = NextTx
      /\ build' = [building |-> TRUE, time |-> build'.time, validator |-> build'.validator,
                   work |-> build'.work, current |-> build'.current, lost |-> build'.lost]
  BY <1>1
<1>10. BuildOK'
  <2>1. Later(build'.time, Parent)
    BY <1>9 DEF Later
  <2>2. Height < MaxHeight
    BY <1>1, <1>2
  <2>3. Parent'.world = Parent.world /\ Later(build.time, Parent)'
    BY <1>8, <2>1 DEF Later
  <2>4. /\ WorkOK(build'.work) /\ DOMAIN build'.work.world.stake = DOMAIN Parent.world.stake
        /\ Treasury \in build'.work.cached /\ build'.validator \in DOMAIN Parent.world.stake
    BY <1>3, <1>5, <1>6, <1>7, <1>9
  <2>5. build'.current # <<>> => /\ Head(build'.current) \in Transactions
                                 /\ build'.current = <<Head(build'.current)>>
    BY <1>2, <1>9
  <2> HIDE DEF h, b
  <2> QED
    BY <1>8, <1>9, <2>2, <2>3, <2>4, <2>5 DEF BuildOK
<1>11. IsChain' /\ ChainOK'
  BY <1>1, <1>8 DEF Sound, IsChain, ChainOK
<1> QED
  BY <1>2, <1>10, <1>11 DEF Sound

(* One turn of the loop over the queue. *)
LEMMA ContinueSound ==
    ASSUME Sound, build # Idle, NEW work, WorkOK(work),
           DOMAIN work.world.stake = DOMAIN build.work.world.stake,
           Treasury \in work.cached, NEW lost, Continue(work, lost)
    PROVE  Sound'
<1>1. /\ build' = [build EXCEPT !.work = work, !.current = NextTx, !.lost = @ \cup lost]
      /\ Pop /\ chain' = chain
  BY DEF Continue
<1>2. /\ build = [building |-> TRUE, time |-> build.time, validator |-> build.validator,
                  work |-> build.work, current |-> build.current, lost |-> build.lost]
      /\ Height < MaxHeight /\ Later(build.time, Parent)
      /\ build.validator \in DOMAIN Parent.world.stake
      /\ DOMAIN build.work.world.stake = DOMAIN Parent.world.stake
  BY DEF Sound, BuildOK
<1>3. /\ QueueOK'
      /\ NextTx # <<>> => Head(NextTx) \in Transactions /\ NextTx = <<Head(NextTx)>>
  BY <1>1, SoundIs
<1>4. Height' = Height /\ Parent' = Parent
  BY <1>1 DEF Height, Parent
<1>5. build' = [building |-> TRUE, time |-> build.time, validator |-> build.validator,
                work |-> work, current |-> NextTx, lost |-> build.lost \cup lost]
  <2> DEFINE l == build.lost \cup lost
             t == build.time
             v == build.validator
             k == build.work
             c == build.current
             o == build.lost
  <2>1. build' = [build EXCEPT !.work = work, !.current = NextTx, !.lost = l]
    BY <1>1
  <2>2. build = [building |-> TRUE, time |-> t, validator |-> v,
                 work |-> k, current |-> c, lost |-> o]
    BY <1>2
  <2> HIDE DEF l, t, v, k, c, o
  <2>3. build' = [building |-> TRUE, time |-> t, validator |-> v,
                  work |-> work, current |-> NextTx, lost |-> l]
    BY <2>1, <2>2
  <2> QED
    BY <2>3 DEF l, t, v
<1>6. /\ build'.time = build.time /\ build'.validator = build.validator
      /\ build'.work = work /\ build'.current = NextTx
      /\ build' = [building |-> TRUE, time |-> build'.time, validator |-> build'.validator,
                   work |-> build'.work, current |-> build'.current, lost |-> build'.lost]
  BY <1>5
<1>7. BuildOK'
  <2>1. Later(build.time, Parent)' /\ Parent'.world = Parent.world
    BY <1>2, <1>4, <1>6 DEF Later
  <2>2. /\ WorkOK(build'.work) /\ DOMAIN build'.work.world.stake = DOMAIN Parent.world.stake
        /\ Treasury \in build'.work.cached /\ build'.validator \in DOMAIN Parent.world.stake
    BY <1>2, <1>6
  <2>3. build'.current # <<>> => /\ Head(build'.current) \in Transactions
                                 /\ build'.current = <<Head(build'.current)>>
    BY <1>3, <1>6
  <2> QED
    BY <1>2, <1>4, <1>6, <2>1, <2>2, <2>3 DEF BuildOK
<1>8. IsChain' /\ ChainOK'
  BY <1>1, <1>4 DEF Sound, IsChain, ChainOK
<1> QED
  BY <1>3, <1>7, <1>8 DEF Sound

(* The block that is published. *)
Sealed(world, lost) ==
    LET work  == build.work
        fee   == FeeIncome(work.receipts)
        stake == work.world.account[Treasury].balance
    IN  [time       |-> build.time,
         validator  |-> build.validator,
         txs        |-> work.txs,
         receipts   |-> work.receipts,
         trie       |-> work.trie,
         fees       |-> <<TransactionFees(work.receipts), StorageFees(work.receipts)>>,
         world      |-> world,
         tree       |-> Stored(work.tree),
         statistics |-> UpdateStatistics(Height + 1, Parent.statistics, fee, stake),
         income     |-> [fee |-> fee, stake |-> stake],
         lost       |-> build.lost \cup lost]

(* What publishing makes of the chain. *)
LEMMA SealIs ==
    ASSUME Sound, build # Idle, NEW world, NEW lost, Seal(world, lost)
    PROVE  /\ chain' = Append(chain, Sealed(world, lost)) /\ build' = Idle /\ queue' = queue
           /\ Parent' = Sealed(world, lost) /\ Height' = Height + 1 /\ IsChain'
           /\ Len(chain') = Len(chain) + 1 /\ chain'[Len(chain')] = Sealed(world, lost)
           /\ \A i \in 1..Len(chain) : chain'[i] = chain[i]
           /\ Parent = chain[Len(chain)] /\ chain'[Height'] = Parent
           /\ FeeIncome(build.work.receipts) \in Nat \ {0}
           /\ build.work.world.account[Treasury].balance \in Nat
           /\ WorkOK(build.work)
<1> DEFINE b == Sealed(world, lost)
<1>1. chain' = Append(chain, b) /\ build' = Idle /\ queue' = queue
  BY DEF Seal, Sealed
<1>2. IsChain /\ Len(chain) > 0 /\ Len(chain) \in Nat /\ Height = Len(chain) - 1
  BY SoundIs DEF Sound
<1>3. WorkOK(build.work)
  BY DEF Sound, BuildOK
<1>4. build.work.world.account[Treasury].balance \in Nat
  <2>1. WorldOK(build.work.world)
    BY <1>3 DEF WorkOK
  <2> DEFINE w == build.work.world
  <2> HIDE DEF w
  <2>2. w.account[Treasury].balance \in Nat
    BY <2>1, SurplusIs DEF w
  <2> QED
    BY <2>2 DEF w
<1>5. FeeIncome(build.work.receipts) \in Nat \ {0}
  <2> DEFINE r == build.work.receipts
  <2>1. r \in Seq(Receipt)
    BY <1>3 DEF WorkOK
  <2> HIDE DEF r
  <2>2. FeeIncome(r) \in Nat \ {0}
    BY <2>1, FeesAre
  <2> QED
    BY <2>2 DEF r
<1> HIDE DEF b
<1>6. /\ IsChain' /\ Len(chain') = Len(chain) + 1 /\ Height' = Height + 1
      /\ chain'[Len(chain')] = b /\ Parent' = b /\ Parent = chain[Len(chain)]
      /\ \A i \in 1..Len(chain) : chain'[i] = chain[i]
  <2>1. PICK c : c = b
    OBVIOUS
  <2>2. chain' = Append(chain, c)
    BY <1>1, <2>1
  <2> QED
    BY <1>2, <2>1, <2>2, Appended
<1>7. chain'[Height'] = Parent
  BY <1>2, <1>6
<1> QED
  BY <1>1, <1>3, <1>4, <1>5, <1>6, <1>7 DEF b

(* A block is published. *)
LEMMA SealSound ==
    ASSUME Sound, build # Idle, NEW world, WorldOK(world),
           NEW lost, Seal(world, lost)
    PROVE  Sound'
<1> DEFINE b     == Sealed(world, lost)
           fee   == FeeIncome(build.work.receipts)
           stake == build.work.world.account[Treasury].balance
           prev  == Parent.statistics
<1>1. /\ build' = Idle /\ queue' = queue
      /\ Parent' = b /\ Height' = Height + 1 /\ IsChain'
      /\ Len(chain') = Len(chain) + 1 /\ chain'[Len(chain')] = b
      /\ \A i \in 1..Len(chain) : chain'[i] = chain[i]
      /\ Parent = chain[Len(chain)]
      /\ fee \in Nat \ {0} /\ stake \in Nat
      /\ WorkOK(build.work)
  BY SealIs
<1>2. /\ Len(chain) \in Nat /\ Len(chain) > 0 /\ Height \in 0..MaxHeight /\ MaxHeight \in Nat
      /\ Height = Len(chain) - 1 /\ StatisticsOK(prev, Height) /\ BlockOK(Parent)
  BY SoundIs
<1>3. Height < MaxHeight /\ Later(build.time, Parent)
  BY DEF Sound, BuildOK
<1>4. build.time \in Nat
  <2>1. /\ Parent.time \in Nat /\ Slot \in Nat /\ MaxSlots \in Nat
    BY <1>2, BlocksAssumption DEF BlockOK, BlocksAssumption
  <2>2. PICK slots \in 1..MaxSlots : build.time = Parent.time + slots * Slot
    BY <1>3 DEF Later
  <2>3. slots * Slot \in Nat
    BY <2>1, <2>2
  <2> QED
    BY <2>1, <2>2, <2>3
<1>5. /\ b.time = build.time /\ b.txs = build.work.txs /\ b.world = world
      /\ b.income = [fee |-> fee, stake |-> stake]
      /\ b.statistics = UpdateStatistics(Height + 1, prev, fee, stake)
  BY DEF Sealed
<1> HIDE DEF b, fee, stake, prev
<1>6. StatisticsOK(b.statistics, Height + 1)
  <2>1. Height \in Nat
    BY <1>2
  <2> DEFINE h == Height
  <2> HIDE DEF h
  <2>2. StatisticsOK(UpdateStatistics(h + 1, prev, fee, stake), h + 1)
    BY <1>1, <1>2, <2>1, StatisticsNext DEF h
  <2> QED
    BY <1>5, <2>2 DEF h
<1>7. BlockOK(b)
  <2>1. b.txs \in Seq(Transactions)
    BY <1>1, <1>5 DEF WorkOK
  <2>2. b.income.fee \in Nat \ {0} /\ b.income.stake \in Nat
    BY <1>1, <1>5
  <2> QED
    BY <1>4, <1>5, <2>1, <2>2 DEF BlockOK
<1>8. Later(b.time, Parent)
  BY <1>3, <1>5
<1>9. ChainOK'
  <2>1. Len(chain') \in Nat \ {0} /\ Height' \in 0..MaxHeight /\ Len(chain') = Height + 2
        /\ Len(chain') - 1 = Height + 1
    BY <1>1, <1>2, <1>3
  <2>2. ASSUME NEW i \in 1..Len(chain')
        PROVE  BlockOK(chain'[i]) /\ StatisticsOK(chain'[i].statistics, i - 1)
    <3>1. CASE i = Len(chain')
      BY <1>1, <1>6, <1>7, <2>1, <3>1
    <3>2. CASE i # Len(chain')
      <4>1. i \in 1..Len(chain) /\ chain'[i] = chain[i]
        BY <1>1, <1>2, <3>2
      <4>2. BlockOK(chain[i]) /\ StatisticsOK(chain[i].statistics, i - 1)
        BY <4>1 DEF Sound, ChainOK
      <4> QED
        BY <4>1, <4>2
    <3> QED
      BY <3>1, <3>2
  <2>3. ASSUME NEW i \in 2..Len(chain') PROVE Later(chain'[i].time, chain'[i - 1])
    <3>1. CASE i = Len(chain')
      <4>1. chain'[i] = b /\ i - 1 = Len(chain) /\ i - 1 \in 1..Len(chain)
        BY <1>1, <1>2, <3>1
      <4>2. chain'[i - 1] = Parent
        BY <1>1, <4>1
      <4> QED
        BY <1>8, <4>1, <4>2
    <3>2. CASE i # Len(chain')
      <4>1. i \in 2..Len(chain) /\ i \in 1..Len(chain) /\ i - 1 \in 1..Len(chain)
        BY <1>1, <1>2, <3>2
      <4>2. chain'[i] = chain[i] /\ chain'[i - 1] = chain[i - 1]
        BY <1>1, <4>1
      <4>3. Later(chain[i].time, chain[i - 1])
        BY <4>1 DEF Sound, ChainOK
      <4> QED
        BY <4>2, <4>3
    <3> QED
      BY <3>1, <3>2
  <2>4. \A i \in 1..Len(chain') : BlockOK(chain'[i]) /\ StatisticsOK(chain'[i].statistics, i - 1)
    BY <2>2
  <2>5. \A i \in 2..Len(chain') : Later(chain'[i].time, chain'[i - 1])
    BY <2>3
  <2>6. \A i \in 2..Len(chain') : Later(chain[i].time, chain[i - 1])'
    BY <2>5 DEF Later
  <2>7. \A i \in 1..Len(chain') : (BlockOK(chain[i]) /\ StatisticsOK(chain[i].statistics, i - 1))'
    BY <2>4 DEF BlockOK, StatisticsOK
  <2> QED
    BY <2>1, <2>6, <2>7 DEF ChainOK
<1>10. QueueOK' /\ BuildOK'
  BY <1>1 DEF Sound, QueueOK, BuildOK, Idle
<1> QED
  BY <1>1, <1>9, <1>10 DEF Sound

(* The first block is sound. *)
LEMMA InitSound == Init => Sound
<1> SUFFICES ASSUME Init PROVE Sound
  OBVIOUS
<1> DEFINE g == GenesisBlock
<1>1. chain = <<g>> /\ queue = <<>> /\ build = Idle
  BY DEF Init
<1>2. /\ g.time = 0 /\ g.txs = <<>> /\ g.world = Genesis
      /\ g.statistics = <<Window(0, 0, 1, GenesisStake)>>
      /\ g.income = [fee |-> 1, stake |-> GenesisStake]
  BY DEF GenesisBlock
<1>3. WorldOK(Genesis) /\ GenesisStake \in Nat
  <2>1. /\ IsWorld(Genesis) /\ {Treasury, Storage} \subseteq DOMAIN Genesis.account
        /\ DOMAIN Genesis.stake # {} /\ Treasury \notin DOMAIN Genesis.stake
        /\ Genesis.account[Treasury].balance >= Staked(Genesis)
    BY BlocksAssumption DEF BlocksAssumption
  <2>2. Genesis.account[Treasury].balance \in Nat /\ Staked(Genesis) \in Nat
    BY <2>1, WorldIs
  <2>3. Surplus(Genesis) >= 0
    BY <2>1, <2>2 DEF Surplus
  <2> QED
    BY <2>1, <2>2, <2>3 DEF WorldOK, GenesisStake
<1> HIDE DEF g
<1>4. BlockOK(g)
  <2>1. <<>> \in Seq(Transactions)
    OBVIOUS
  <2> QED
    BY <1>2, <1>3, <2>1 DEF BlockOK
<1>5. StatisticsOK(g.statistics, 0)
  <2> DEFINE w == Window(0, 0, 1, GenesisStake)
  <2>1. w.fee = 1 /\ w.stake = GenesisStake
    BY DEF Window
  <2> HIDE DEF w
  <2>2. DOMAIN <<w>> = 1..1 /\ Len(<<w>>) = 1 /\ <<w>>[1] = w
    OBVIOUS
  <2>3. WindowsAt(0) + 1 = 1
    BY WindowsAtNext
  <2>4. g.statistics = <<w>>
    BY <1>2 DEF w
  <2> DEFINE s == g.statistics
  <2>5. DOMAIN s = 1..1 /\ Len(s) = 1 /\ s[1] = w
    BY <2>2, <2>4
  <2> HIDE DEF s
  <2> QED
    BY <1>3, <2>1, <2>3, <2>5 DEF StatisticsOK, s
<1>6. /\ chain \in Seq({g}) /\ Len(chain) = 1 /\ Height = 0 /\ chain[1] = g
  BY <1>1 DEF Height
<1>7. IsChain
  BY <1>6 DEF IsChain
<1>8. ChainOK
  <2>1. MaxHeight \in Nat
    BY BlocksAssumption DEF BlocksAssumption
  <2>2. \A i \in 1..Len(chain) : i = 1 /\ i - 1 = 0
    BY <1>6
  <2>3. 2..Len(chain) = {}
    BY <1>6
  <2>4. Len(chain) \in Nat \ {0} /\ Height \in 0..MaxHeight
    BY <1>6, <2>1
  <2>5. \A i \in 1..Len(chain) : BlockOK(chain[i]) /\ StatisticsOK(chain[i].statistics, i - 1)
    BY <1>4, <1>5, <1>6, <2>2
  <2> QED
    BY <2>3, <2>4, <2>5 DEF ChainOK
<1>9. QueueOK /\ BuildOK
  BY <1>1 DEF QueueOK, BuildOK
<1> QED
  BY <1>7, <1>8, <1>9 DEF Sound

(* What a transaction that is applied next is. *)
LEMMA CurrentIs ==
    ASSUME Sound, Applying
    PROVE  /\ build # Idle /\ Current \in Transactions
           /\ WorkOK(build.work) /\ Treasury \in build.work.cached /\ RatesOK(Parent)
<1>1. build # Idle /\ build.current # <<>>
  BY DEF Applying, Idle
<1>2. Head(build.current) \in Transactions /\ WorkOK(build.work)
      /\ Treasury \in build.work.cached
  BY <1>1 DEF Sound, BuildOK
<1> QED
  BY <1>1, <1>2, SoundIs DEF Current

(* A builder always takes a transaction, and goes on, soundly. *)
LEMMA ContinueTaken ==
    ASSUME Sound, Applying, ~Raises(build.work.world, Current), NEW unread \in BOOLEAN,
           unread => Current.recipient # Treasury, NEW lost,
           Continue(Taken(build.work, Parent, Height + 1, Current, unread), lost)
    PROVE  Sound'
<1>1. PICK u : u = build.work
  OBVIOUS
<1>2. PICK t : t = Current
  OBVIOUS
<1>3. PICK p : p = Parent
  OBVIOUS
<1>4. PICK h : h = Height + 1
  OBVIOUS
<1> DEFINE w == Taken(u, p, h, t, unread)
<1>5. build # Idle /\ t \in Transactions /\ WorkOK(u) /\ Treasury \in u.cached /\ RatesOK(p)
  BY <1>1, <1>2, <1>3, CurrentIs
<1>6. ~Raises(u.world, t) /\ (unread => t.recipient # Treasury)
  BY <1>1, <1>2
<1>7. WorkOK(w) /\ DOMAIN w.world.stake = DOMAIN u.world.stake /\ u.cached \subseteq w.cached
  <2>1. WorkOK(w)
    BY <1>5, <1>6, TakenOK
  <2>2. DOMAIN w.world.stake = DOMAIN u.world.stake
    <3>1. w.world = Applied(p, u.world, t, unread) /\ WorldOK(u.world)
      BY <1>5 DEF Taken, WorkOK
    <3> DEFINE y == u.world
               x == Applied(p, y, t, unread)
    <3>2. WorldOK(y) /\ ~Raises(y, t) /\ t \in Transactions /\ RatesOK(p)
      BY <1>5, <1>6, <3>1
    <3> HIDE DEF y
    <3>3. DOMAIN x.stake = DOMAIN y.stake
      BY <1>6, <3>2, AppliedOK
    <3> QED
      BY <3>1, <3>3 DEF y
  <2>3. u.cached \subseteq w.cached
    BY DEF Taken
  <2> QED
    BY <2>1, <2>2, <2>3
<1>8. Continue(w, lost)
  BY <1>1, <1>2, <1>3, <1>4
<1> HIDE DEF w
<1> QED
  BY <1>1, <1>5, <1>7, <1>8, ContinueSound

(* A builder that is broken off goes on, soundly. *)
LEMMA ContinueBroken ==
    ASSUME Sound, Applying, ~Raises(build.work.world, Current), NEW lost,
           Continue(BrokenOff(build.work, Parent, Height + 1, Current), lost)
    PROVE  Sound'
<1>1. PICK u : u = build.work
  OBVIOUS
<1>2. PICK t : t = Current
  OBVIOUS
<1>3. PICK p : p = Parent
  OBVIOUS
<1>4. PICK h : h = Height + 1
  OBVIOUS
<1> DEFINE w == BrokenOff(u, p, h, t)
<1>5. build # Idle /\ t \in Transactions /\ WorkOK(u) /\ Treasury \in u.cached /\ RatesOK(p)
  BY <1>1, <1>2, <1>3, CurrentIs
<1>6. /\ ~Raises(u.world, t) /\ WorldOK(u.world)
      /\ u = [world |-> u.world, tree |-> u.tree, cached |-> u.cached,
              txs |-> u.txs, receipts |-> u.receipts, trie |-> u.trie]
  BY <1>1, <1>2, <1>5 DEF WorkOK
<1>7. /\ WorldOK(w.world) /\ DOMAIN w.world.stake = DOMAIN u.world.stake
      /\ w.txs = u.txs /\ w.receipts = u.receipts
      /\ u.cached \subseteq w.cached
      /\ w = [world |-> w.world, tree |-> w.tree, cached |-> w.cached,
              txs |-> w.txs, receipts |-> w.receipts, trie |-> w.trie]
  BY <1>5, <1>6, BrokenOffOK
<1>8. Continue(w, lost)
  BY <1>1, <1>2, <1>3, <1>4
<1> HIDE DEF w
<1>9. WorkOK(w)
  BY <1>5, <1>7 DEF WorkOK
<1> QED
  BY <1>1, <1>5, <1>7, <1>8, <1>9, ContinueSound

(* The world of a block that is published. *)
LEMMA PaidIs ==
    ASSUME Sound, build # Idle, NEW unread \in BOOLEAN
    PROVE  /\ WorldOK(Paid(unread)) /\ WorldOK(build.work.world) /\ WorldOK(Parent.world)
           /\ Paid(unread).account[Treasury] = build.work.world.account[Treasury]
<1>1. WorkOK(build.work) /\ build.validator \in DOMAIN Parent.world.stake
  BY DEF Sound, BuildOK
<1>2. WorldOK(Parent.world)
  BY SoundIs
<1>3. build.validator \in Addresses /\ build.validator # Treasury
  <2>1. DOMAIN Parent.world.stake \subseteq Addresses /\ Treasury \notin DOMAIN Parent.world.stake
    BY <1>2 DEF WorldOK, IsWorld
  <2> QED
    BY <1>1, <2>1
<1> DEFINE w == build.work.world
           v == build.validator
           r == build.work.receipts
           n == Reward(r)
<1>4. WorldOK(w) /\ r \in Seq(Receipt)
  BY <1>1 DEF WorkOK
<1>5. Paid(unread) = Rewarded(w, v, n, unread)
  BY DEF Paid
<1> HIDE DEF w, v, r
<1>6. n \in Nat
  BY <1>4, FeesAre
<1>7. v \in Addresses /\ v # Treasury
  BY <1>3 DEF v
<1> HIDE DEF n
<1>8. /\ WorldOK(Rewarded(w, v, n, unread))
      /\ Rewarded(w, v, n, unread).account[Treasury] = w.account[Treasury]
  BY <1>4, <1>6, <1>7, RewardedOK
<1> QED
  BY <1>2, <1>4, <1>5, <1>8 DEF w

(* No step leads astray. *)
LEMMA NextSound == Sound /\ [Next]_vars => Sound'
<1> SUFFICES ASSUME Sound, [Next]_vars PROVE Sound'
  OBVIOUS
<1> USE DEF Sound
<1>1. ASSUME NEW tx \in Transactions, Submit(tx) PROVE Sound'
  <2>1. /\ chain' = chain /\ build' = build
        /\ queue' = Append(queue, tx) /\ queue \in Seq(Transactions)
    BY <1>1 DEF Submit, QueueOK
  <2>2. queue' \in Seq(Transactions)
    BY <2>1
  <2>3. Height' = Height /\ Parent' = Parent
    BY <2>1 DEF Height, Parent
  <2> QED
    BY <2>1, <2>2, <2>3 DEF IsChain, ChainOK, QueueOK, BuildOK, Later
<1>2. ASSUME NEW slots \in 1..MaxSlots, StartBlock(slots) PROVE Sound'
  BY <1>2, StartSound DEF StartBlock
<1>3. ASSUME NEW slots \in 1..MaxSlots, NEW v \in Addresses, StartWithoutStake(slots, v)
      PROVE  Sound'
  BY <1>3, StartSound DEF StartWithoutStake
<1>4. ASSUME NEW slots \in 1..MaxSlots, StartWithoutStorage(slots) PROVE Sound'
  BY <1>4, StartSound DEF StartWithoutStorage
<1>5. ASSUME NEW slots \in 1..MaxSlots, NEW n \in TreeNodes, StartWithoutNode(slots, n)
      PROVE  Sound'
  BY <1>5, StartSound DEF StartWithoutNode
<1>6. CASE ApplyNext
  BY <1>6, ContinueTaken DEF ApplyNext
<1>7. CASE SkipNext \/ SkipUnread
  <2>1. PICK w : w = build.work
    OBVIOUS
  <2>2. Applying /\ \E lost : Continue(w, lost)
    BY <1>7, <2>1 DEF SkipNext, SkipUnread
  <2>3. build # Idle /\ WorkOK(w) /\ Treasury \in w.cached
    BY <2>1, <2>2, CurrentIs
  <2> QED
    BY <2>1, <2>2, <2>3, ContinueSound
<1>8. CASE ApplyToUnread
  <2>1. /\ Applying /\ ~Raises(build.work.world, Current)
        /\ Current.recipient \notin build.work.cached
        /\ Continue(Taken(build.work, Parent, Height + 1, Current, TRUE), {"recipient"})
    BY <1>8 DEF ApplyToUnread
  <2>2. Current.recipient # Treasury
    BY <2>1, CurrentIs
  <2> QED
    BY <2>1, <2>2, ContinueTaken
<1>9. CASE BreakOff
  BY <1>9, ContinueBroken DEF BreakOff
<1>10. CASE Publish \/ PublishUnpaid \/ PublishAnew \/ PublishOldAccounts
  <2>1. build # Idle
    BY <1>10 DEF Publish, PublishUnpaid, PublishAnew, PublishOldAccounts, Seal, Idle
  <2>2. WorldOK(Paid(TRUE)) /\ WorldOK(Paid(FALSE)) /\ WorldOK(build.work.world)
        /\ WorldOK(Parent.world)
    BY <2>1, PaidIs
  <2>3. \E w, lost : WorldOK(w) /\ Seal(w, lost)
    BY <1>10, <2>2 DEF Publish, PublishUnpaid, PublishAnew, PublishOldAccounts
  <2>4. PICK w, lost : WorldOK(w) /\ Seal(w, lost)
    BY <2>3
  <2> QED
    BY <2>1, <2>4, SealSound
<1>11. CASE Drop
  <2>1. chain' = chain /\ queue' = queue /\ build' = Idle
    BY <1>11 DEF Drop
  <2>2. Height' = Height
    BY <2>1 DEF Height
  <2> QED
    BY <2>1, <2>2 DEF IsChain, ChainOK, QueueOK, BuildOK
<1>12. CASE UNCHANGED vars
  <2>1. chain' = chain /\ queue' = queue /\ build' = build
    BY <1>12 DEF vars
  <2>2. Height' = Height /\ Parent' = Parent
    BY <2>1 DEF Height, Parent
  <2> QED
    BY <2>1, <2>2 DEF IsChain, ChainOK, QueueOK, BuildOK, Later
<1> QED
  BY <1>1, <1>2, <1>3, <1>4, <1>5, <1>6, <1>7, <1>8, <1>9, <1>10, <1>11, <1>12 DEF Next

(* The chain, the queue and the block under work stay sound: every world   *)
(* on the chain is one the treasury can cover, every stake is positive.    *)
THEOREM AlwaysSound == Spec => []Sound
<1>1. Sound /\ [Next]_vars => Sound'
  BY NextSound
<1> QED
  BY <1>1, InitSound, PTL DEF Spec

-----------------------------------------------------------------------------
(* What is accepted adds up.                                               *)

(* A verifier counts the slots a builder counted. *)
LEMMA SlotsAre ==
    ASSUME NEW from \in Nat, NEW slots \in 1..MaxSlots
    PROVE  SlotsBetween(from, from + slots * Slot) = slots
<1>1. slots \in Nat /\ slots > 0 /\ Slot \in Nat /\ Slot > 0
  BY BlocksAssumption DEF BlocksAssumption
<1> DEFINE t == slots * Slot
<1>2. t \in Nat /\ (slots = 1 => t = Slot) /\ (slots > 1 => t > Slot)
  <2>1. t \in Nat
    BY <1>1
  <2>2. slots = 1 => t = Slot
    BY <1>1
  <2>3. ASSUME slots > 1 PROVE t > Slot
    <3>1. PICK k \in Nat : slots = k + 2
      <4>1. slots - 2 \in Nat /\ slots = (slots - 2) + 2
        BY <1>1, <2>3
      <4> QED
        BY <4>1
    <3>2. t = k * Slot + 2 * Slot /\ k * Slot \in Nat
      BY <1>1, <3>1
    <3> DEFINE x == k * Slot
    <3> HIDE DEF x, t
    <3> QED
      BY <1>1, <3>2 DEF x
  <2> QED
    BY <2>1, <2>2, <2>3
<1>3. (t + Slot - 1) \div Slot = slots
  BY <1>1
<1>4. (from + t) - from = t /\ (from + t) - from + Slot - 1 = t + Slot - 1
  <2> HIDE DEF t
  <2> QED
    BY <1>1, <1>2
<1>5. SlotsBetween(from, from + t) = IF (from + t) - from <= Slot THEN 1
                                     ELSE ((from + t) - from + Slot - 1) \div Slot
  BY DEF SlotsBetween
<1> HIDE DEF t
<1>6. SlotsBetween(from, from + t) = IF t <= Slot THEN 1 ELSE slots
  BY <1>3, <1>4, <1>5
<1>7. SlotsBetween(from, from + t) = slots
  BY <1>1, <1>2, <1>6
<1> QED
  BY <1>7 DEF t

(* What a verifier starts with. *)
LEMMA FreshOK ==
    ASSUME NEW p, WorldOK(p.world), p.time \in Nat, NEW b, Later(b.time, p),
           NEW h \in 1..MaxHeight
    PROVE  /\ Redraw(p, b, h).validator \in DOMAIN p.world.stake
           /\ WorkOK(Fresh(p, b, h)) /\ Fresh(p, b, h).txs = <<>>
           /\ LET w == Fresh(p, b, h).world IN
              /\ Coins(w) = Coins(p.world)
              /\ DOMAIN p.world.account \subseteq DOMAIN w.account
              /\ \A a \in DOMAIN p.world.account :
                    w.account[a].counter >= p.world.account[a].counter
              /\ Surplus(w) >= Surplus(p.world)
              /\ w.record = p.world.record \cup {h - 1}
<1>1. PICK slots \in 1..MaxSlots : b.time = p.time + slots * Slot
  BY DEF Later
<1>2. SlotsBetween(p.time, b.time) = slots
  BY <1>1, SlotsAre
<1>3. h - 1 \in 0..MaxHeight /\ h \in Nat /\ h > 0
  BY BlocksAssumption DEF BlocksAssumption
<1> DEFINE q    == p.world
           k    == h - 1
           draw == Draw(q, k, slots, {})
           d    == draw.world
           w    == Recorded(d, h)
           f    == Fresh(p, b, h)
<1>4. Redraw(p, b, h) = draw
  BY <1>2 DEF Redraw
<1>5. WorldOK(q) /\ DOMAIN q.stake \ {} # {} /\ k \in 0..MaxHeight
  BY <1>3 DEF WorldOK
<1>6. f = NoWork(w, EraTree(p, h, {}), {})
  BY <1>4 DEF Fresh
<1> HIDE DEF q, k
<1>7. draw.validator \in DOMAIN q.stake /\ Evolves(q, d, 0)
  BY <1>5, DrawOK
<1> HIDE DEF draw, d
<1>8. /\ WorldOK(d)
      /\ DOMAIN q.account \subseteq DOMAIN d.account
      /\ \A a \in DOMAIN q.account : d.account[a].counter >= q.account[a].counter
      /\ d.record = q.record /\ Surplus(d) >= Surplus(q) /\ Coins(d) = Coins(q) + 0
  BY <1>7 DEF Evolves
<1>9. /\ WorldOK(w) /\ w.account = d.account
      /\ w.record = d.record \cup {h - 1}
      /\ Coins(w) = Coins(d) /\ Surplus(w) = Surplus(d)
  BY <1>3, <1>8, RecordedOK
<1>10. Coins(q) \in Nat
  BY <1>5, CoinsIs DEF WorldOK
<1> HIDE DEF w, f
<1>11. WorkOK(f) /\ f.world = w /\ f.txs = <<>>
  <2> DEFINE tree == EraTree(p, h, {})
  <2> HIDE DEF tree
  <2>1. f = [world |-> w, tree |-> tree, cached |-> {},
             txs |-> <<>>, receipts |-> <<>>, trie |-> <<>>]
    BY <1>6 DEF NoWork, tree
  <2>2. /\ f.world = w /\ f.tree = tree /\ f.cached = {}
        /\ f.txs = <<>> /\ f.receipts = <<>> /\ f.trie = <<>>
    BY <2>1
  <2>3. <<>> \in Seq(Transactions) /\ <<>> \in Seq(Receipt)
    OBVIOUS
  <2> QED
    BY <1>9, <2>1, <2>2, <2>3 DEF WorkOK
<1>12. /\ Coins(w) = Coins(q)
       /\ DOMAIN q.account \subseteq DOMAIN w.account
       /\ \A a \in DOMAIN q.account : w.account[a].counter >= q.account[a].counter
       /\ Surplus(w) >= Surplus(q)
       /\ w.record = q.record \cup {h - 1}
  BY <1>8, <1>9, <1>10
<1> QED
  BY <1>4, <1>7, <1>11, <1>12 DEF f, q

(* The replay of a block that is accepted explains all of its coins. *)
LEMMA AcceptedAddsUp ==
    ASSUME NEW p, WorldOK(p.world), RatesOK(p), p.time \in Nat,
           NEW b, b.txs \in Seq(Transactions), Later(b.time, p),
           NEW h \in 1..MaxHeight, Accepts(p, b, h)
    PROVE  /\ Coins(b.world) = Coins(p.world) + (IF b.txs = <<>> THEN 1 ELSE 0)
           /\ DOMAIN p.world.account \subseteq DOMAIN b.world.account
           /\ \A a \in DOMAIN p.world.account :
                 b.world.account[a].counter >= p.world.account[a].counter
           /\ Surplus(b.world) >= Surplus(p.world)
           /\ b.world.record = p.world.record \cup {h - 1}
<1> DEFINE fresh == Fresh(p, b, h)
           txs   == b.txs
           run   == Replayed(p, h, fresh, txs)
           q     == p.world
           w     == fresh.world
           x     == run.work.world
           r     == run.work.receipts
           y     == b.world
           v     == b.validator
           n     == Reward(r)
<1>1. /\ Redraw(p, b, h).validator = v /\ ~run.raised
      /\ Rewarded(x, v, n, FALSE) = y
  <2>1. Replay(p, b, h) = run
    BY DEF Replay, Fresh
  <2> QED
    BY <2>1 DEF Accepts, AccountsMatch
<1>2. /\ Redraw(p, b, h).validator \in DOMAIN q.stake
      /\ WorkOK(fresh) /\ fresh.txs = <<>>
      /\ Coins(w) = Coins(q)
      /\ DOMAIN q.account \subseteq DOMAIN w.account
      /\ \A a \in DOMAIN q.account : w.account[a].counter >= q.account[a].counter
      /\ Surplus(w) >= Surplus(q)
      /\ w.record = q.record \cup {h - 1}
  BY FreshOK
<1>3. v \in Addresses /\ v # Treasury /\ WorldOK(q)
  <2>1. DOMAIN q.stake \subseteq Addresses /\ Treasury \notin DOMAIN q.stake
    BY DEF WorldOK, IsWorld
  <2> QED
    BY <1>1, <1>2, <2>1
<1> DEFINE k == Len(txs)
<1>4. /\ WorkOK(run.work) /\ Len(r) = k
      /\ Evolves(w, x, 0 - k)
  <2> HIDE DEF fresh, txs
  <2>1. txs \in Seq(Transactions)
    BY DEF txs
  <2> QED
    BY <1>1, <1>2, <2>1, ReplayedOK
<1>5. /\ n = (IF k = 0 THEN 1 ELSE k) /\ n \in Nat /\ k \in Nat
      /\ (txs = <<>> <=> k = 0) /\ WorldOK(w) /\ WorldOK(x)
  <2>1. r \in Seq(Receipt) /\ WorldOK(x) /\ WorldOK(w) /\ txs \in Seq(Transactions)
    BY <1>2, <1>4 DEF WorkOK
  <2> HIDE DEF r, txs
  <2>2. (r = <<>> <=> Len(r) = 0) /\ (txs = <<>> <=> Len(txs) = 0) /\ Len(txs) \in Nat
    BY <2>1
  <2>3. Reward(r) = (IF r = <<>> THEN 1 ELSE Len(r)) /\ Reward(r) \in Nat
    BY <2>1, FeesAre
  <2> QED
    BY <1>4, <2>1, <2>2, <2>3
<1> HIDE DEF fresh, run, q, w, x, r, y, v, n, k, txs
<1>6. Evolves(x, y, n)
  <2> DEFINE no == FALSE
  <2>1. no \in BOOLEAN /\ ~no /\ Rewarded(x, v, n, no) = y
    BY <1>1
  <2> HIDE DEF no
  <2> QED
    BY <1>3, <1>5, <2>1, RewardedOK
<1>7. Evolves(w, y, (0 - k) + n)
  <2> DEFINE m == 0 - k
  <2>1. m \in Int /\ n \in Int
    BY <1>5
  <2>2. Evolves(w, x, m)
    BY <1>4
  <2> HIDE DEF m
  <2>3. Evolves(w, y, m + n)
    BY <1>5, <1>6, <2>1, <2>2, EvolvesOn
  <2> QED
    BY <2>3 DEF m
<1>8. (0 - k) + n = (IF txs = <<>> THEN 1 ELSE 0)
  BY <1>5
<1>9. /\ Coins(q) \in Nat /\ Surplus(q) \in Nat /\ Surplus(w) \in Nat /\ Surplus(y) \in Nat
      /\ \A a \in DOMAIN q.account : q.account[a].counter \in Nat
      /\ \A a \in DOMAIN w.account : w.account[a].counter \in Nat
      /\ \A a \in DOMAIN y.account : y.account[a].counter \in Nat
  <2>1. WorldOK(q) /\ WorldOK(w) /\ WorldOK(y) /\ IsWorld(q) /\ IsWorld(w) /\ IsWorld(y)
    BY <1>3, <1>5, <1>6 DEF Evolves, WorldOK
  <2> QED
    BY <2>1, CoinsIs, SurplusIs, WorldIs
<1>10. /\ Coins(y) = Coins(q) + (IF txs = <<>> THEN 1 ELSE 0)
       /\ Surplus(y) >= Surplus(q)
       /\ y.record = q.record \cup {h - 1}
       /\ DOMAIN q.account \subseteq DOMAIN y.account
  <2>1. /\ Coins(y) = Coins(w) + (IF txs = <<>> THEN 1 ELSE 0)
        /\ Surplus(y) >= Surplus(w) /\ y.record = w.record
        /\ DOMAIN w.account \subseteq DOMAIN y.account
    BY <1>7, <1>8 DEF Evolves
  <2> QED
    BY <1>2, <1>9, <2>1
<1>11. ASSUME NEW a \in DOMAIN q.account
       PROVE  y.account[a].counter >= q.account[a].counter
  <2>1. a \in DOMAIN w.account /\ w.account[a].counter >= q.account[a].counter
    BY <1>2
  <2>2. y.account[a].counter >= w.account[a].counter /\ a \in DOMAIN y.account
    BY <1>7, <2>1 DEF Evolves
  <2> QED
    BY <1>9, <2>1, <2>2
<1> QED
  BY <1>10, <1>11 DEF q, y, txs

(* AcceptedBlocksAddUp: whatever the builder could not read, a block that  *)
(* a verifier accepts makes no coins but the base reward, loses no account *)
(* and keeps what the treasury owes (block/verify/transactions.py).        *)
THEOREM AcceptedAddUp == Spec => []AcceptedBlocksAddUp
<1>1. Sound => AcceptedBlocksAddUp
  <2> SUFFICES ASSUME Sound, Height > 0, Accepts(chain[Height], Parent, Height)
               PROVE  LET p == chain[Height].world
                          b == Parent.world
                      IN  /\ Coins(b) = Coins(p) + (IF Parent.txs = <<>> THEN 1 ELSE 0)
                          /\ DOMAIN p.account \subseteq DOMAIN b.account
                          /\ \A a \in DOMAIN p.account :
                                b.account[a].counter >= p.account[a].counter
                          /\ Surplus(b) >= Surplus(p)
                          /\ b.record = p.record \cup {Height - 1}
    BY DEF AcceptedBlocksAddUp
  <2>1. /\ Parent = chain[Len(chain)] /\ Len(chain) \in Nat /\ Height = Len(chain) - 1
        /\ Height \in 0..MaxHeight /\ MaxHeight \in Nat /\ BlockOK(Parent)
    BY SoundIs
  <2>2. Height \in 1..MaxHeight /\ Height \in 1..Len(chain) /\ Len(chain) \in 2..Len(chain)
        /\ Len(chain) - 1 = Height
    BY <2>1
  <2> DEFINE p == chain[Height]
             b == Parent
             h == Height
  <2>3. BlockOK(p) /\ StatisticsOK(p.statistics, h - 1)
    BY <2>2 DEF Sound, ChainOK
  <2>4. Later(b.time, p)
    <3>1. Later(chain[Len(chain)].time, chain[Len(chain) - 1])
      BY <2>2 DEF Sound, ChainOK
    <3> QED
      BY <2>1, <2>2, <3>1
  <2>5. /\ WorldOK(p.world) /\ RatesOK(p) /\ p.time \in Nat /\ b.txs \in Seq(Transactions)
        /\ h \in 1..MaxHeight /\ Accepts(p, b, h)
    BY <2>1, <2>2, <2>3 DEF BlockOK, StatisticsOK, RatesOK
  <2> HIDE DEF p, b, h
  <2>6. /\ Coins(b.world) = Coins(p.world) + (IF b.txs = <<>> THEN 1 ELSE 0)
        /\ DOMAIN p.world.account \subseteq DOMAIN b.world.account
        /\ \A a \in DOMAIN p.world.account :
                 b.world.account[a].counter >= p.world.account[a].counter
        /\ Surplus(b.world) >= Surplus(p.world)
        /\ b.world.record = p.world.record \cup {h - 1}
    BY <2>4, <2>5, AcceptedAddsUp
  <2> QED
    BY <2>6 DEF p, b, h
<1> QED
  BY <1>1, AlwaysSound, PTL

-----------------------------------------------------------------------------
(* What a builder that lacked nothing builds, a verifier accepts.          *)

(* What is in the cache makes no difference to a transaction that is read. *)
LEMMA SameTaken ==
    ASSUME NEW u, NEW w, SameWork(u, w), NEW p, NEW h, NEW t
    PROVE  /\ Raises(u.world, t) <=> Raises(w.world, t)
           /\ SameWork(Taken(u, p, h, t, FALSE), Taken(w, p, h, t, FALSE))
<1>1. /\ u.world = w.world /\ u.tree = w.tree /\ u.txs = w.txs
      /\ u.receipts = w.receipts /\ u.trie = w.trie
  BY DEF SameWork
<1>2. Raises(u.world, t) <=> Raises(w.world, t)
  BY <1>1
<1> DEFINE x == Taken(u, p, h, t, FALSE)
           y == Taken(w, p, h, t, FALSE)
<1>3. x.world = Applied(p, u.world, t, FALSE) /\ y.world = Applied(p, w.world, t, FALSE)
  BY DEF Taken
<1>4. x.tree = Inserted(u.tree, h % EraSize, t) /\ y.tree = Inserted(w.tree, h % EraSize, t)
  BY DEF Taken
<1>5. x.txs = Append(u.txs, t) /\ y.txs = Append(w.txs, t)
  BY DEF Taken
<1>6. /\ x.receipts = Append(u.receipts, ReceiptOf(p, u.world, t, FALSE))
      /\ y.receipts = Append(w.receipts, ReceiptOf(p, w.world, t, FALSE))
  BY DEF Taken
<1>7. /\ x.trie = [s \in DOMAIN u.trie \cup {t} |->
                      IF s = t THEN ReceiptOf(p, u.world, t, FALSE) ELSE u.trie[s]]
      /\ y.trie = [s \in DOMAIN w.trie \cup {t} |->
                      IF s = t THEN ReceiptOf(p, w.world, t, FALSE) ELSE w.trie[s]]
  BY DEF Taken
<1> HIDE DEF x, y
<1>8. SameWork(x, y)
  <2>1. x.world = y.world
    BY <1>1, <1>3
  <2>2. x.tree = y.tree
    BY <1>1, <1>4
  <2>3. x.txs = y.txs
    BY <1>1, <1>5
  <2>4. x.receipts = y.receipts
    BY <1>1, <1>6
  <2>5. x.trie = y.trie
    BY <1>1, <1>7
  <2> QED
    BY <2>1, <2>2, <2>3, <2>4, <2>5 DEF SameWork
<1> QED
  BY <1>2, <1>8 DEF x, y

(* A builder takes a transaction that it read. *)
LEMMA CleanTaken ==
    ASSUME NEW p, NEW h, NEW b, Clean(p, b, h), NEW t \in Transactions,
           b.work.txs \in Seq(Transactions), ~Raises(b.work.world, t),
           NEW c, c.time = b.time, c.validator = b.validator,
           c.work = Taken(b.work, p, h, t, FALSE)
    PROVE  Clean(p, c, h)
<1> DEFINE fresh == Fresh(p, b, h)
           txs   == b.work.txs
           run   == Replayed(p, h, fresh, txs)
           then  == Replayed(p, h, fresh, Append(txs, t))
<1>1. /\ Storage \in b.work.cached /\ Redraw(p, b, h).validator = b.validator
      /\ ~run.raised /\ SameWork(run.work, b.work)
  BY DEF Clean
<1>2. Fresh(p, c, h) = fresh /\ Redraw(p, c, h).validator = c.validator
  BY <1>1 DEF Fresh, Redraw
<1>3. c.work.txs = Append(txs, t) /\ Storage \in c.work.cached
  BY DEF Taken
<1>4. then = Reapply(p, h, run, t)
  <2> HIDE DEF fresh, txs
  <2>1. txs \in Seq(Transactions)
    BY DEF txs
  <2> QED
    BY <2>1, ReplayedOn
<1> HIDE DEF fresh, txs, run, then
<1>5. ~Raises(run.work.world, t)
  BY <1>1 DEF SameWork
<1>6. then = [raised |-> FALSE, work |-> Taken(run.work, p, h, t, FALSE)]
  BY <1>1, <1>4, <1>5 DEF Reapply
<1>7. ~then.raised /\ then.work = Taken(run.work, p, h, t, FALSE)
  BY <1>6
<1>8. SameWork(then.work, c.work)
  <2> DEFINE u == run.work
             w == b.work
  <2>1. SameWork(u, w)
    BY <1>1
  <2> HIDE DEF u, w
  <2>2. SameWork(Taken(u, p, h, t, FALSE), Taken(w, p, h, t, FALSE))
    BY <2>1, SameTaken
  <2> QED
    BY <1>7, <2>2 DEF u, w
<1>9. Replayed(p, h, Fresh(p, c, h), c.work.txs) = then
  BY <1>2, <1>3 DEF then
<1> QED
  BY <1>2, <1>3, <1>7, <1>8, <1>9 DEF Clean

(* A builder begins as a verifier will. *)
LEMMA CleanFresh ==
    ASSUME NEW p, p.time \in Nat, NEW h \in Nat, NEW slots \in 1..MaxSlots, NEW b,
           b.time = p.time + slots * Slot,
           b.validator = Draw(p.world, h - 1, slots, {}).validator,
           NEW cached, Storage \in cached,
           b.work = NoWork(Recorded(Draw(p.world, h - 1, slots, {}).world, h),
                           EraTree(p, h, {}), cached)
    PROVE  Clean(p, b, h)
<1>1. SlotsBetween(p.time, b.time) = slots
  BY SlotsAre
<1>2. Redraw(p, b, h) = Draw(p.world, h - 1, slots, {})
  BY <1>1 DEF Redraw
<1> DEFINE fresh == Fresh(p, b, h)
           w     == Recorded(Draw(p.world, h - 1, slots, {}).world, h)
           tree  == EraTree(p, h, {})
<1>3. fresh = NoWork(w, tree, {}) /\ b.work = NoWork(w, tree, cached)
  BY <1>2 DEF Fresh
<1> HIDE DEF fresh, w, tree
<1>4. SameWork(fresh, b.work) /\ b.work.txs = <<>> /\ b.work.cached = cached
  BY <1>3 DEF SameWork, NoWork
<1>5. Replayed(p, h, fresh, <<>>) = [raised |-> FALSE, work |-> fresh]
  BY ReplayedNone
<1>6. Replayed(p, h, fresh, b.work.txs) = [raised |-> FALSE, work |-> fresh]
  BY <1>4, <1>5
<1> DEFINE run == Replayed(p, h, fresh, b.work.txs)
<1>7. ~run.raised /\ run.work = fresh
  BY <1>6
<1> HIDE DEF run
<1>8. /\ Storage \in b.work.cached /\ Redraw(p, b, h).validator = b.validator
      /\ ~run.raised /\ SameWork(run.work, b.work)
  BY <1>2, <1>4, <1>7
<1> QED
  BY <1>8 DEF Clean, run, fresh

(* s is what the builder's state b is sealed into when nothing fails.      *)
Honest(p, s, h, b) ==
    /\ s.time = b.time /\ s.validator = b.validator /\ s.txs = b.work.txs
    /\ s.receipts = b.work.receipts /\ s.trie = b.work.trie
    /\ s.fees = <<TransactionFees(b.work.receipts), StorageFees(b.work.receipts)>>
    /\ s.world = Rewarded(b.work.world, b.validator, Reward(b.work.receipts), FALSE)
    /\ s.tree = Stored(b.work.tree)
    /\ s.statistics = UpdateStatistics(h, p.statistics, FeeIncome(b.work.receipts),
                                       b.work.world.account[Treasury].balance)

(* A block built without a loss is accepted if its receipts can be found. *)
LEMMA CleanAccepted ==
    ASSUME NEW p, WorldOK(p.world), NEW h, NEW b, Clean(p, b, h), WorkOK(b.work),
           b.validator \in DOMAIN p.world.stake, NEW s, Honest(p, s, h, b)
    PROVE  Accepts(p, s, h) <=> \A i \in DOMAIN s.txs : s.trie[s.txs[i]] = s.receipts[i]
<1> DEFINE run == Replayed(p, h, Fresh(p, b, h), b.work.txs)
           u   == run.work
           w   == b.work
           x   == Rewarded(w.world, b.validator, Reward(w.receipts), FALSE)
<1>1. /\ Redraw(p, b, h).validator = b.validator /\ ~run.raised /\ SameWork(u, w)
  BY DEF Clean
<1>2. Redraw(p, s, h).validator = s.validator /\ Replay(p, s, h) = run
  BY <1>1 DEF Redraw, Replay, Fresh, Honest
<1>3. /\ u.world = w.world /\ u.tree = w.tree /\ u.txs = w.txs
      /\ u.receipts = w.receipts /\ u.trie = w.trie
  BY <1>1 DEF SameWork
<1>4. BloomHash(Stored(w.tree)) = BloomHash(s.tree)
  BY DEF Honest
<1>5. x.account[Treasury] = w.world.account[Treasury]
  <2>1. b.validator \in Addresses /\ b.validator # Treasury
    BY DEF WorldOK, IsWorld
  <2> DEFINE v == b.validator
             r == w.receipts
             q == w.world
             n == Reward(r)
             no == FALSE
  <2>2. r \in Seq(Receipt) /\ WorldOK(q) /\ v \in Addresses /\ v # Treasury /\ no \in BOOLEAN
    BY <2>1 DEF WorkOK
  <2>3. x = Rewarded(q, v, n, no)
    OBVIOUS
  <2> HIDE DEF v, r, q, x, no
  <2>4. n \in Nat
    BY <2>2, FeesAre
  <2> HIDE DEF n
  <2>5. Rewarded(q, v, n, no).account[Treasury] = q.account[Treasury]
    BY <2>2, <2>4, RewardedOK
  <2> QED
    BY <2>3, <2>5 DEF q
<1> HIDE DEF run, w, x
<1>6. Replay(p, s, h).work.world = w.world /\ Replay(p, s, h).work.receipts = w.receipts
  BY <1>2, <1>3
<1>7. Rewarded(u.world, s.validator, Reward(u.receipts), FALSE) = x
  BY <1>3 DEF x, w, Honest
<1>8. /\ <<TransactionFees(u.receipts), StorageFees(u.receipts)>> = s.fees
      /\ u.trie = s.trie /\ u.txs = s.txs /\ u.receipts = s.receipts
      /\ BloomHash(Stored(u.tree)) = BloomHash(s.tree)
      /\ AccountsMatch(x, s)
      /\ UpdateStatistics(h, p.statistics, FeeIncome(u.receipts), x.account[Treasury].balance)
            = s.statistics
  BY <1>3, <1>4, <1>5 DEF AccountsMatch, x, w, Honest
<1> HIDE DEF u
<1>9. Accepts(p, s, h) <=> \A i \in DOMAIN u.txs : s.trie[u.txs[i]] = u.receipts[i]
  <2>1. Replay(p, s, h).work = u /\ ~Replay(p, s, h).raised
    BY <1>1, <1>2 DEF u
  <2> QED
    BY <1>2, <1>7, <1>8, <2>1 DEF Accepts
<1> QED
  BY <1>8, <1>9

CleanInv == Sound /\ CleanBuild /\ CleanBlocksVerify

(* Nothing is published. *)
LEMMA CleanKept ==
    ASSUME CleanBlocksVerify, chain' = chain
    PROVE  CleanBlocksVerify' /\ Height' = Height /\ Parent' = Parent
<1>1. Height' = Height /\ Parent' = Parent
  BY DEF Height, Parent
<1>2. PICK h : h = Height
  OBVIOUS
<1>3. PICK s : s = Parent
  OBVIOUS
<1>4. PICK p : p = chain[Height]
  OBVIOUS
<1> DEFINE agree == /\ Accepts(p, s, h) <=>
                          \A i \in DOMAIN s.txs : s.trie[s.txs[i]] = s.receipts[i]
<1>5. h > 0 /\ s.lost \subseteq Harmless => agree
  BY <1>2, <1>3, <1>4 DEF CleanBlocksVerify
<1>6. h = Height' /\ s = Parent' /\ p = chain'[Height']
  BY <1>1, <1>2, <1>3, <1>4
<1>7. CleanBlocksVerify'
  BY <1>5, <1>6 DEF CleanBlocksVerify
<1> QED
  BY <1>1, <1>7

(* One turn of the loop, by a builder that read the transaction's accounts *)
(* or left the transaction out.                                            *)
LEMMA CleanContinue ==
    ASSUME CleanInv, Applying, NEW w, NEW lost, Continue(w, lost),
           \/ w = build.work
           \/ /\ ~Raises(build.work.world, Current)
              /\ w = Taken(build.work, Parent, Height + 1, Current, FALSE)
           \/ ~(lost \subseteq Harmless)
           \/ Storage \notin build.work.cached
    PROVE  CleanBuild'
<1>1. /\ build' = [build EXCEPT !.work = w, !.current = NextTx, !.lost = @ \cup lost]
      /\ chain' = chain /\ build # Idle
  BY DEF Continue, Applying, Idle
<1>2. Height' = Height /\ Parent' = Parent
  BY <1>1 DEF Height, Parent
<1>3. /\ build = [building |-> TRUE, time |-> build.time, validator |-> build.validator,
                  work |-> build.work, current |-> build.current, lost |-> build.lost]
      /\ build.work.txs \in Seq(Transactions)
  BY <1>1 DEF CleanInv, Sound, BuildOK, WorkOK
<1>4. /\ build'.time = build.time /\ build'.validator = build.validator
      /\ build'.work = w /\ build'.lost = build.lost \cup lost
  <2> DEFINE l == build.lost \cup lost
             t == build.time
             v == build.validator
             k == build.work
             c == build.current
             o == build.lost
  <2>1. build' = [build EXCEPT !.work = w, !.current = NextTx, !.lost = l]
    BY <1>1
  <2>2. build = [building |-> TRUE, time |-> t, validator |-> v,
                 work |-> k, current |-> c, lost |-> o]
    BY <1>3
  <2> HIDE DEF l, t, v, k, c, o
  <2>3. build' = [building |-> TRUE, time |-> t, validator |-> v,
                  work |-> w, current |-> NextTx, lost |-> l]
    BY <2>1, <2>2
  <2>4. build'.time = t /\ build'.validator = v /\ build'.work = w /\ build'.lost = l
    BY <2>3
  <2> QED
    BY <2>4 DEF t, v, l
<1> SUFFICES ASSUME build'.lost \subseteq Harmless PROVE Clean(Parent, build', Height + 1)
  BY <1>2 DEF CleanBuild, Clean, Redraw, Fresh
<1>5. PICK b : b = build
  OBVIOUS
<1>6. PICK p : p = Parent
  OBVIOUS
<1>7. PICK h : h = Height + 1
  OBVIOUS
<1>8. Clean(p, b, h) /\ Storage \in b.work.cached /\ lost \subseteq Harmless
  <2>1. build.lost \subseteq Harmless /\ lost \subseteq Harmless
    BY <1>4
  <2>2. Clean(Parent, build, Height + 1)
    BY <1>1, <2>1 DEF CleanInv, CleanBuild
  <2> QED
    BY <1>5, <1>6, <1>7, <2>1, <2>2 DEF Clean
<1>9. PICK c : c = build'
  OBVIOUS
<1>10. c.time = b.time /\ c.validator = b.validator /\ c.work = w
  BY <1>4, <1>5, <1>9
<1>11. Clean(p, c, h)
  <2>1. CASE w = build.work
    BY <1>5, <1>8, <1>10, <2>1 DEF Clean, Fresh, Redraw
  <2>2. CASE ~Raises(build.work.world, Current)
             /\ w = Taken(build.work, Parent, Height + 1, Current, FALSE)
    <3>1. PICK t : t = Current
      OBVIOUS
    <3>2. t \in Transactions
      BY <3>1, CurrentIs DEF CleanInv
    <3>3. ~Raises(b.work.world, t) /\ c.work = Taken(b.work, p, h, t, FALSE)
          /\ b.work.txs \in Seq(Transactions)
      BY <1>3, <1>5, <1>6, <1>7, <1>10, <2>2, <3>1
    <3> QED
      BY <1>8, <1>10, <3>2, <3>3, CleanTaken
  <2> QED
    BY <1>5, <1>8, <2>1, <2>2
<1> QED
  BY <1>6, <1>7, <1>9, <1>11

(* A builder begins. *)
LEMMA CleanStart ==
    ASSUME CleanInv, NEW slots \in 1..MaxSlots, NEW stakes, NEW storage \in BOOLEAN, NEW nodes,
           NEW lost, Start(slots, stakes, storage, nodes, lost),
           lost \subseteq Harmless => stakes = {} /\ ~storage /\ nodes = {}
    PROVE  CleanBuild'
<1>1. chain' = chain
  BY DEF Start
<1>2. Height' = Height /\ Parent' = Parent
  BY <1>1 DEF Height, Parent
<1>3. /\ build'.time = Parent.time + slots * Slot
      /\ build'.validator = Draw(Parent.world, Height, slots, stakes).validator
      /\ build'.lost = lost
      /\ build'.work = NoWork(IF storage THEN Draw(Parent.world, Height, slots, stakes).world
                              ELSE Recorded(Draw(Parent.world, Height, slots, stakes).world,
                                            Height + 1),
                              EraTree(Parent, Height + 1, nodes),
                              Draw(Parent.world, Height, slots, stakes).cached
                                 \cup (IF storage THEN {} ELSE {Storage}))
  BY DEF Start
<1> SUFFICES ASSUME build'.lost \subseteq Harmless PROVE Clean(Parent, build', Height + 1)
  BY <1>2 DEF CleanBuild, Clean, Redraw, Fresh
<1>4. stakes = {} /\ ~storage /\ nodes = {}
  BY <1>3
<1>5. PICK p : p = Parent
  OBVIOUS
<1>6. PICK h : h = Height + 1
  OBVIOUS
<1>7. PICK c : c = build'
  OBVIOUS
<1>8. p.time \in Nat /\ h \in Nat /\ Height = h - 1
  <2>1. Height \in 0..MaxHeight /\ MaxHeight \in Nat /\ BlockOK(Parent)
    BY SoundIs DEF CleanInv
  <2> QED
    BY <1>5, <1>6, <2>1 DEF BlockOK
<1> DEFINE draw   == Draw(p.world, h - 1, slots, {})
           cached == draw.cached \cup {Storage}
<1>9. /\ c.time = p.time + slots * Slot /\ c.validator = draw.validator
      /\ c.work = NoWork(Recorded(draw.world, h), EraTree(p, h, {}), cached)
  BY <1>3, <1>4, <1>5, <1>6, <1>7, <1>8
<1>10. Storage \in cached
  OBVIOUS
<1> HIDE DEF cached
<1>11. Clean(p, c, h)
  BY <1>8, <1>9, <1>10, CleanFresh
<1> QED
  BY <1>5, <1>6, <1>7, <1>11

(* A block is published. *)
LEMMA CleanSeal ==
    ASSUME CleanInv, build # Idle, NEW w, NEW lost, Seal(w, lost),
           lost \subseteq Harmless => w = Paid(FALSE)
    PROVE  CleanBuild' /\ CleanBlocksVerify'
<1>1. /\ build' = Idle /\ Parent' = Sealed(w, lost) /\ chain'[Height'] = Parent
      /\ Height' = Height + 1
      /\ WorkOK(build.work)
  BY SealIs DEF CleanInv
<1>2. CleanBuild'
  BY <1>1 DEF CleanBuild
<1>3. PICK s : s = Sealed(w, lost)
  OBVIOUS
<1>4. PICK p : p = Parent
  OBVIOUS
<1>5. PICK h : h = Height + 1
  OBVIOUS
<1>6. PICK b : b = build
  OBVIOUS
<1>7. (s.lost \subseteq Harmless) =>
         (Accepts(p, s, h) <=> \A i \in DOMAIN s.txs : s.trie[s.txs[i]] = s.receipts[i])
  <2> SUFFICES ASSUME s.lost \subseteq Harmless
               PROVE  Accepts(p, s, h) <=>
                         \A i \in DOMAIN s.txs : s.trie[s.txs[i]] = s.receipts[i]
    OBVIOUS
  <2>1. s.lost = build.lost \cup lost
    BY <1>3 DEF Sealed
  <2>2. build.lost \subseteq Harmless /\ w = Paid(FALSE)
    BY <2>1
  <2>3. Clean(p, b, h)
    BY <1>4, <1>5, <1>6, <2>2 DEF CleanInv, CleanBuild
  <2>4. /\ WorldOK(p.world) /\ WorkOK(b.work) /\ b.validator \in DOMAIN p.world.stake
    BY <1>1, <1>4, <1>6, SoundIs DEF CleanInv, Sound, BuildOK
  <2>5. Honest(p, s, h, b)
    BY <1>3, <1>4, <1>5, <1>6, <2>2 DEF Sealed, Paid, Honest
  <2> QED
    BY <2>3, <2>4, <2>5, CleanAccepted
<1>8. Parent' = s /\ chain'[Height'] = p /\ Height' = h
  BY <1>1, <1>3, <1>4, <1>5
<1>9. CleanBlocksVerify'
  BY <1>7, <1>8 DEF CleanBlocksVerify
<1> QED
  BY <1>2, <1>9

(* CleanBlocksVerify: worker.py and block/verify/transactions.py agree on  *)
(* every block whose builder could read what it needed, exactly if each    *)
(* transaction's receipt is the one that its receipts trie holds.          *)
THEOREM CleanVerify == Spec => []CleanBlocksVerify
<1>1. Init => CleanInv
  <2> SUFFICES ASSUME Init PROVE CleanInv
    OBVIOUS
  <2>1. chain = <<GenesisBlock>> /\ build = Idle /\ Sound
    BY InitSound DEF Init
  <2>2. ~(Height > 0)
    BY <2>1 DEF Height
  <2> QED
    BY <2>1, <2>2 DEF CleanInv, CleanBuild, CleanBlocksVerify
<1>2. CleanInv /\ [Next]_vars => CleanInv'
  <2> SUFFICES ASSUME CleanInv, [Next]_vars PROVE CleanBuild' /\ CleanBlocksVerify'
    BY NextSound DEF CleanInv
  <2>1. ASSUME NEW tx \in Transactions, Submit(tx) PROVE CleanBuild' /\ CleanBlocksVerify'
    <3>1. chain' = chain /\ build' = build
      BY <2>1 DEF Submit
    <3> QED
      BY <3>1, CleanKept DEF CleanInv, CleanBuild
  <2>2. ASSUME NEW slots \in 1..MaxSlots, StartBlock(slots)
        PROVE  CleanBuild' /\ CleanBlocksVerify'
    BY <2>2, CleanStart, CleanKept DEF StartBlock, Start, CleanInv
  <2>3. ASSUME NEW slots \in 1..MaxSlots, NEW v \in Addresses, StartWithoutStake(slots, v)
        PROVE  CleanBuild' /\ CleanBlocksVerify'
    <3>1. Start(slots, {v}, FALSE, {}, {"stake"}) /\ ~({"stake"} \subseteq Harmless)
          /\ chain' = chain
      BY <2>3 DEF StartWithoutStake, Start, Harmless
    <3> QED
      BY <3>1, CleanStart, CleanKept DEF CleanInv
  <2>4. ASSUME NEW slots \in 1..MaxSlots, StartWithoutStorage(slots)
        PROVE  CleanBuild' /\ CleanBlocksVerify'
    <3>1. Start(slots, {}, TRUE, {}, {"storage"}) /\ ~({"storage"} \subseteq Harmless)
          /\ chain' = chain
      BY <2>4 DEF StartWithoutStorage, Start, Harmless
    <3> QED
      BY <3>1, CleanStart, CleanKept DEF CleanInv
  <2>5. ASSUME NEW slots \in 1..MaxSlots, NEW n \in TreeNodes, StartWithoutNode(slots, n)
        PROVE  CleanBuild' /\ CleanBlocksVerify'
    <3>1. Start(slots, {}, FALSE, {n}, {"node"}) /\ ~({"node"} \subseteq Harmless)
          /\ chain' = chain
      BY <2>5 DEF StartWithoutNode, Start, Harmless
    <3> QED
      BY <3>1, CleanStart, CleanKept DEF CleanInv
  <2>6. CASE ApplyNext \/ SkipNext \/ SkipUnread \/ ApplyToUnread \/ BreakOff
    <3>1. PICK w, lost :
             /\ Continue(w, lost) /\ Applying
             /\ \/ w = build.work
                \/ /\ ~Raises(build.work.world, Current)
                   /\ w = Taken(build.work, Parent, Height + 1, Current, FALSE)
                \/ ~(lost \subseteq Harmless)
                \/ Storage \notin build.work.cached
      <4>1. ~({"recipient"} \subseteq Harmless)
        BY DEF Harmless
      <4> QED
        BY <2>6, <4>1 DEF ApplyNext, SkipNext, SkipUnread, ApplyToUnread, BreakOff
    <3>2. chain' = chain
      BY <3>1 DEF Continue
    <3> QED
      BY <3>1, <3>2, CleanContinue, CleanKept DEF CleanInv
  <2>7. CASE Publish \/ PublishUnpaid \/ PublishAnew \/ PublishOldAccounts
    <3>1. build # Idle
      BY <2>7 DEF Publish, PublishUnpaid, PublishAnew, PublishOldAccounts, Seal, Idle
    <3>2. PICK w, lost : Seal(w, lost) /\ (lost \subseteq Harmless => w = Paid(FALSE))
      <4>1. ~({"reward"} \subseteq Harmless) /\ ~({"update"} \subseteq Harmless)
        BY DEF Harmless
      <4> QED
        BY <2>7, <4>1 DEF Publish, PublishUnpaid, PublishAnew, PublishOldAccounts
    <3> QED
      BY <3>1, <3>2, CleanSeal
  <2>8. CASE Drop
    <3>1. chain' = chain /\ build' = Idle
      BY <2>8 DEF Drop
    <3> QED
      BY <3>1, CleanKept DEF CleanInv, CleanBuild
  <2>9. CASE UNCHANGED vars
    <3>1. chain' = chain /\ build' = build
      BY <2>9 DEF vars
    <3> QED
      BY <3>1, CleanKept DEF CleanInv, CleanBuild
  <2> QED
    BY <2>1, <2>2, <2>3, <2>4, <2>5, <2>6, <2>7, <2>8, <2>9 DEF Next
<1>3. CleanInv => CleanBlocksVerify
  BY DEF CleanInv
<1> QED
  BY <1>1, <1>2, <1>3, PTL DEF Spec

-----------------------------------------------------------------------------
(* Sums over a stretch of blocks.                                          *)

Part(f, a, b) == SumFunction([g \in a..b |-> f[g]])

(* A sum depends on the stretch alone. *)
LEMMA PartAgree ==
    ASSUME NEW a \in Int, NEW b \in Int, NEW f, NEW e, \A g \in a..b : f[g] = e[g]
    PROVE  Part(f, a, b) = Part(e, a, b)
<1>1. [g \in a..b |-> f[g]] = [g \in a..b |-> e[g]]
  OBVIOUS
<1> QED
  BY <1>1 DEF Part

(* Sums are natural, a block more adds its own number, and one block's sum *)
(* is its number.                                                          *)
LEMMA PartNext ==
    ASSUME NEW a \in Int, NEW b \in Int, a <= b + 1, NEW f, \A g \in a..(b + 1) : f[g] \in Nat
    PROVE  /\ Part(f, a, b) \in Nat /\ Part(f, a, b + 1) \in Nat
           /\ Part(f, a, b + 1) = Part(f, a, b) + f[b + 1]
<1> DEFINE S == a..b
           T == a..(b + 1)
           x == b + 1
           e == [g \in S |-> f[g]]
           d == [g \in T |-> f[g]]
<1>1. /\ IsFiniteSet(S) /\ IsFiniteSet(T) /\ T = S \cup {x} /\ x \notin S
      /\ DOMAIN e = S /\ DOMAIN d = T
  <2>1. IsFiniteSet(S) /\ IsFiniteSet(T)
    BY FS_Interval
  <2>2. T = S \cup {x} /\ x \notin S
    OBVIOUS
  <2> QED
    BY <2>1, <2>2
<1>2. /\ \A g \in S : e[g] = f[g] /\ d[g] = f[g] /\ f[g] \in Nat
      /\ d[x] = f[x] /\ f[x] \in Nat
  OBVIOUS
<1>3. Part(f, a, b) = SumFunctionOnSet(e, S) /\ Part(f, a, b + 1) = SumFunctionOnSet(d, T)
  BY <1>1 DEF Part, SumFunction
<1>4. f[b + 1] = f[x]
  OBVIOUS
<1> HIDE DEF S, T, x, e, d
<1>5. SumFunctionOnSet(d, S \cup {x}) = d[x] + SumFunctionOnSet(d, S)
  <2>1. \A g \in S \cup {x} : d[g] \in Int
    BY <1>2
  <2> QED
    BY <1>1, <2>1, SumAdd
<1>6. SumFunctionOnSet(d, S) = SumFunctionOnSet(e, S)
  BY <1>1, <1>2, SumAgree
<1>7. SumFunctionOnSet(e, S) \in Nat
  BY <1>1, <1>2, SumNat
<1> QED
  BY <1>1, <1>2, <1>3, <1>4, <1>5, <1>6, <1>7

(* One block's sum is its number. *)
LEMMA PartOne ==
    ASSUME NEW a \in Int, NEW f, f[a] \in Nat
    PROVE  Part(f, a, a) = f[a]
<1>1. /\ a - 1 \in Int /\ a <= (a - 1) + 1 /\ (a - 1) + 1 = a
      /\ \A g \in a..((a - 1) + 1) : f[g] \in Nat
  OBVIOUS
<1> DEFINE b == a - 1
<1>2. Part(f, a, b) = 0
  <2> DEFINE e == [g \in a..b |-> f[g]]
  <2>1. DOMAIN e = {}
    OBVIOUS
  <2>2. Part(f, a, b) = SumFunctionOnSet(e, DOMAIN e)
    BY DEF Part, SumFunction
  <2> HIDE DEF e, b
  <2> QED
    BY <2>1, <2>2, SumEmpty
<1>3. b \in Int /\ a <= b + 1 /\ b + 1 = a /\ \A g \in a..(b + 1) : f[g] \in Nat
  BY <1>1
<1> HIDE DEF b
<1>4. Part(f, a, b + 1) = Part(f, a, b) + f[b + 1]
  BY <1>3, PartNext
<1> QED
  BY <1>2, <1>3, <1>4

(* A factor more is a step more. *)
LEMMA Times ==
    ASSUME NEW a \in Int, NEW b \in Int, NEW d \in Nat \ {0}, a < b
    PROVE  d * a + d <= d * b
<1>1. b - a >= 1
  OBVIOUS
<1>2. d * (b - a) >= d
  BY <1>1
<1>3. d * (b - a) = d * b - d * a
  OBVIOUS
<1>4. d * a \in Int /\ d * b \in Int
  OBVIOUS
<1> QED
  BY <1>2, <1>3, <1>4

(* Where a height lies in its window. *)
LEMMA ModNext ==
    ASSUME NEW h \in Nat, NEW d \in Nat \ {0}
    PROVE  /\ h % d \in 0..(d - 1) /\ (h + 1) % d \in 0..(d - 1)
           /\ (h + 1) % d = 0 => h % d = d - 1
           /\ (h + 1) % d # 0 => (h + 1) % d = (h % d) + 1
           /\ h >= d => h - (h % d) >= d
<1> DEFINE q == h \div d
           r == h % d
           p == (h + 1) \div d
           s == (h + 1) % d
<1>1. h = d * q + r /\ r \in 0..(d - 1) /\ q \in Nat
  OBVIOUS
<1>2. h + 1 = d * p + s /\ s \in 0..(d - 1) /\ p \in Nat
  OBVIOUS
<1>3. d * p \in Int /\ d * q \in Int
  BY <1>1, <1>2
<1> HIDE DEF q, r, p, s
<1>4. ~(p < q)
  <2> SUFFICES ASSUME p < q PROVE FALSE
    OBVIOUS
  <2>1. d * p + d <= d * q
    BY <1>1, <1>2, Times
  <2> QED
    BY <2>1, <1>1, <1>2, <1>3
<1>5. (s = 0 => r = d - 1) /\ (s # 0 => s = r + 1)
  <2>1. CASE p = q
    <3>1. d * p = d * q
      BY <2>1
    <3>2. s = r + 1
      BY <1>1, <1>2, <1>3, <3>1
    <3> QED
      BY <3>2, <1>1
  <2>2. CASE p > q
    <3>1. d * q + d <= d * p
      BY <1>1, <1>2, <2>2, Times
    <3> QED
      BY <1>1, <1>2, <1>3, <3>1
  <2> QED
    BY <1>1, <1>2, <1>4, <2>1, <2>2
<1>6. h >= d => h - r >= d
  <2> SUFFICES ASSUME h >= d PROVE d * q >= d
    BY <1>1, <1>3
  <2>1. q # 0
    BY <1>1
  <2>2. d * 0 + d <= d * q
    BY <1>1, <2>1, Times
  <2> QED
    BY <2>2, <1>3
<1> QED
  BY <1>1, <1>2, <1>5, <1>6 DEF r, s

-----------------------------------------------------------------------------
(* The windows, over numbers F and S of the blocks 0..h.                   *)

WindowExact(w, size, h, F, S) ==
    LET first == h - (h % size)
    IN  /\ w.fee = Part(F, first, h)
        /\ w.stake = Part(S, first, h)
        /\ w.prevFee = Part(F, first - size, first - 1)
        /\ w.prevStake = Part(S, first - size, first - 1)

Exact(stats, h, F, S) ==
    /\ stats[1].fee = Part(F, 0, h)
    /\ stats[1].stake = Part(S, 0, h)
    /\ \A p \in 2..Len(stats) : WindowExact(stats[p], WindowSize[p - 2], h, F, S)

(* A window is not larger than the height. *)
LEMMA WindowFits ==
    ASSUME NEW h \in Nat, NEW stats, StatisticsOK(stats, h), NEW p \in 2..Len(stats)
    PROVE  WindowSize[p - 2] \in Nat \ {0} /\ WindowSize[p - 2] <= h
<1> DEFINE size == WindowSize[p - 2]
<1>1. Len(stats) = WindowsAt(h) + 1 /\ WindowsAt(h) \in Nat
  BY WindowsAtIs DEF StatisticsOK
<1>2. p - 2 \in Nat /\ WindowsAt(h) > 0 /\ WindowsAt(h) - 1 \in Nat
      /\ p - 2 \in 0..(WindowsAt(h) - 1)
  BY <1>1
<1>3. size \in Nat /\ size > p - 2 /\ size <= WindowSize[WindowsAt(h) - 1]
  BY <1>2, WindowSizeGrows
<1>4. WindowSize[WindowsAt(h) - 1] <= h /\ WindowSize[WindowsAt(h) - 1] \in Nat
  BY <1>2, WindowsAtIs, WindowSizeGrows
<1> HIDE DEF size
<1> QED
  BY <1>2, <1>3, <1>4 DEF size

(* A window that is complete becomes the one before; otherwise the block   *)
(* joins the window in progress.                                           *)
LEMMA WindowNext ==
    ASSUME NEW h \in Nat, NEW size \in Nat \ {0}, size <= h, NEW F, NEW S,
           \A g \in 0..(h + 1) : F[g] \in Nat /\ S[g] \in Nat,
           NEW w, WindowExact(w, size, h, F, S)
    PROVE  /\ (h + 1) % size = 0
                 => WindowExact(Rotated(w, F[h + 1], S[h + 1]), size, h + 1, F, S)
           /\ (h + 1) % size # 0
                 => WindowExact(Grown(w, F[h + 1], S[h + 1]), size, h + 1, F, S)
<1> DEFINE r     == h % size
           s     == (h + 1) % size
           k     == h + 1
           first == h - r
           next  == k - s
<1>1. /\ r \in 0..(size - 1) /\ s \in 0..(size - 1) /\ (s = 0 => r = size - 1)
      /\ (s # 0 => s = r + 1) /\ h - r >= size
  BY ModNext
<1>2. /\ w.fee = Part(F, first, h) /\ w.stake = Part(S, first, h)
      /\ w.prevFee = Part(F, first - size, first - 1)
      /\ w.prevStake = Part(S, first - size, first - 1)
  BY DEF WindowExact
<1>3. k = h + 1 /\ k \in Nat
  OBVIOUS
<1> HIDE DEF r, s
<1>4. first \in Int /\ next \in Int /\ first >= size /\ first <= h + 1
  BY <1>1
<1>5. (s = 0 => next = k /\ next - size = first /\ next - 1 = h) /\ (s # 0 => next = first)
  BY <1>1
<1>6. \A g \in first..(h + 1) : F[g] \in Nat /\ S[g] \in Nat
  BY <1>4
<1>7. F[k] \in Nat /\ S[k] \in Nat
  BY <1>3
<1> HIDE DEF k, first, next
<1>8. ASSUME s = 0 PROVE WindowExact(Rotated(w, F[k], S[k]), size, k, F, S)
  <2> DEFINE x == Rotated(w, F[k], S[k])
  <2>1. x.fee = F[k] /\ x.stake = S[k] /\ x.prevFee = w.fee /\ x.prevStake = w.stake
    BY DEF Rotated, Window
  <2> HIDE DEF x
  <2>2. Part(F, k, k) = F[k] /\ Part(S, k, k) = S[k]
    BY <1>3, <1>7, PartOne
  <2>3. /\ x.fee = Part(F, next, k) /\ x.stake = Part(S, next, k)
        /\ x.prevFee = Part(F, next - size, next - 1)
        /\ x.prevStake = Part(S, next - size, next - 1)
    BY <1>2, <1>5, <1>8, <2>1, <2>2
  <2> QED
    BY <2>3 DEF WindowExact, next, s, x, k
<1>9. ASSUME s # 0 PROVE WindowExact(Grown(w, F[k], S[k]), size, k, F, S)
  <2> DEFINE x == Grown(w, F[k], S[k])
  <2>1. /\ x.fee = w.fee + F[k] /\ x.stake = w.stake + S[k]
        /\ x.prevFee = w.prevFee /\ x.prevStake = w.prevStake
    BY DEF Grown, Window
  <2> HIDE DEF x
  <2>2. Part(F, first, h + 1) = Part(F, first, h) + F[h + 1]
    BY <1>4, <1>6, PartNext
  <2>3. Part(S, first, h + 1) = Part(S, first, h) + S[h + 1]
    BY <1>4, <1>6, PartNext
  <2>4. /\ x.fee = Part(F, next, k) /\ x.stake = Part(S, next, k)
        /\ x.prevFee = Part(F, next - size, next - 1)
        /\ x.prevStake = Part(S, next - size, next - 1)
    BY <1>2, <1>3, <1>5, <1>9, <2>1, <2>2, <2>3
  <2> QED
    BY <2>4 DEF WindowExact, next, s, x, k
<1> QED
  BY <1>8, <1>9 DEF s, k

(* A window is born from the total. *)
LEMMA WindowBorn ==
    ASSUME NEW h \in Nat, NEW F, NEW S,
           \A g \in 0..(h + 1) : F[g] \in Nat /\ S[g] \in Nat,
           NEW prev, prev[1].fee = Part(F, 0, h), prev[1].stake = Part(S, 0, h)
    PROVE  WindowExact(Born(prev, F[h + 1], S[h + 1]), h + 1, h + 1, F, S)
<1> DEFINE k == h + 1
           x == Born(prev, F[k], S[k])
<1>1. /\ x.fee = F[k] /\ x.stake = S[k]
      /\ x.prevFee = prev[1].fee /\ x.prevStake = prev[1].stake
  BY DEF Born, Window
<1>2. k \in Int /\ F[k] \in Nat /\ S[k] \in Nat /\ k = h + 1
  OBVIOUS
<1>3. k % k = 0
  BY ModNext
<1>4. k - 0 = k /\ k - k = 0 /\ k - 1 = h
  OBVIOUS
<1> HIDE DEF k, x
<1>5. Part(F, k, k) = F[k] /\ Part(S, k, k) = S[k]
  BY <1>2, PartOne
<1>6. WindowExact(x, k, k, F, S)
  BY <1>1, <1>3, <1>4, <1>5 DEF WindowExact
<1> QED
  BY <1>2, <1>6 DEF x

(* The statistics of a block more. *)
LEMMA ExactNext ==
    ASSUME NEW h \in Nat, NEW F, NEW S,
           \A g \in 0..(h + 1) : F[g] \in Nat \ {0} /\ S[g] \in Nat,
           NEW prev, StatisticsOK(prev, h), Exact(prev, h, F, S)
    PROVE  Exact(UpdateStatistics(h + 1, prev, F[h + 1], S[h + 1]), h + 1, F, S)
<1> DEFINE fee   == F[h + 1]
           stake == S[h + 1]
           s     == UpdateStatistics(h + 1, prev, fee, stake)
<1>1. fee \in Nat \ {0} /\ stake \in Nat
  OBVIOUS
<1>2. \A g \in 0..(h + 1) : F[g] \in Nat /\ S[g] \in Nat
  OBVIOUS
<1>3. fee = F[h + 1] /\ stake = S[h + 1]
  OBVIOUS
<1> HIDE DEF fee, stake
<1>4. /\ s[1].fee = prev[1].fee + fee /\ s[1].stake = prev[1].stake + stake
      /\ \A p \in 2..Len(s) :
            \/ p > Len(prev) /\ h + 1 = WindowSize[p - 2] /\ s[p] = Born(prev, fee, stake)
            \/ /\ p \in 2..Len(prev) /\ (h + 1) % WindowSize[p - 2] = 0
               /\ s[p] = Rotated(prev[p], fee, stake)
            \/ /\ p \in 2..Len(prev) /\ (h + 1) % WindowSize[p - 2] # 0
               /\ s[p] = Grown(prev[p], fee, stake)
  BY <1>1, StatisticsNext
<1>5. /\ prev[1].fee = Part(F, 0, h) /\ prev[1].stake = Part(S, 0, h)
      /\ \A p \in 2..Len(prev) : WindowExact(prev[p], WindowSize[p - 2], h, F, S)
  BY DEF Exact
<1> HIDE DEF s
<1>6. s[1].fee = Part(F, 0, h + 1) /\ s[1].stake = Part(S, 0, h + 1)
  <2> DEFINE z == 0
  <2>1. z \in Int /\ z <= h + 1 /\ h \in Int /\ z = 0
    OBVIOUS
  <2>2. \A g \in z..(h + 1) : F[g] \in Nat /\ S[g] \in Nat
    BY <1>2
  <2> HIDE DEF z
  <2>3. Part(F, z, h + 1) = Part(F, z, h) + F[h + 1]
    BY <2>1, <2>2, PartNext
  <2>4. Part(S, z, h + 1) = Part(S, z, h) + S[h + 1]
    BY <2>1, <2>2, PartNext
  <2> QED
    BY <1>3, <1>4, <1>5, <2>1, <2>3, <2>4
<1>7. ASSUME NEW p \in 2..Len(s)
      PROVE  WindowExact(s[p], WindowSize[p - 2], h + 1, F, S)
  <2>1. CASE p > Len(prev) /\ h + 1 = WindowSize[p - 2] /\ s[p] = Born(prev, fee, stake)
    <3>1. WindowExact(Born(prev, F[h + 1], S[h + 1]), h + 1, h + 1, F, S)
      BY <1>2, <1>5, WindowBorn
    <3> QED
      BY <1>3, <2>1, <3>1
  <2>2. CASE p \in 2..Len(prev)
    <3> DEFINE size == WindowSize[p - 2]
               w    == prev[p]
    <3>1. size \in Nat \ {0} /\ size <= h
      BY <2>2, WindowFits
    <3>2. WindowExact(w, size, h, F, S)
      BY <1>5, <2>2
    <3>3. \/ (h + 1) % size = 0 /\ s[p] = Rotated(w, fee, stake)
          \/ (h + 1) % size # 0 /\ s[p] = Grown(w, fee, stake)
      <4>1. ~(p > Len(prev))
        BY <2>2
      <4> QED
        BY <1>4, <4>1
    <3> HIDE DEF size, w
    <3>4. /\ (h + 1) % size = 0 => WindowExact(Rotated(w, F[h + 1], S[h + 1]), size, h + 1, F, S)
          /\ (h + 1) % size # 0 => WindowExact(Grown(w, F[h + 1], S[h + 1]), size, h + 1, F, S)
      BY <1>2, <3>1, <3>2, WindowNext
    <3>5. WindowExact(s[p], size, h + 1, F, S)
      BY <1>3, <3>3, <3>4
    <3> QED
      BY <3>5 DEF size
  <2> QED
    BY <1>4, <2>1, <2>2
<1> QED
  BY <1>3, <1>6, <1>7 DEF Exact, s

-----------------------------------------------------------------------------
(* The statistics of a chain.                                              *)

(* StatisticsExact, of the blocks c up to height h. *)
ChainExact(c, h, stats) ==
    LET fees(S)   == SumFunction([g \in S |-> c[g + 1].income.fee])
        stakes(S) == SumFunction([g \in S |-> c[g + 1].income.stake])
    IN  /\ stats[1].fee = fees(0..h)
        /\ stats[1].stake = stakes(0..h)
        /\ \A p \in 2..Len(stats) :
              LET size  == WindowSize[p - 2]
                  first == h - (h % size)
              IN  /\ stats[p].fee = fees(first..h)
                  /\ stats[p].stake = stakes(first..h)
                  /\ stats[p].prevFee = fees((first - size)..(first - 1))
                  /\ stats[p].prevStake = stakes((first - size)..(first - 1))

(* The incomes of the blocks are all that counts. *)
LEMMA ChainExactIs ==
    ASSUME NEW c, NEW h \in Nat, NEW stats, StatisticsOK(stats, h), NEW F, NEW S,
           \A g \in 0..h : F[g] = c[g + 1].income.fee /\ S[g] = c[g + 1].income.stake
    PROVE  ChainExact(c, h, stats) <=> Exact(stats, h, F, S)
<1> DEFINE fees(s)   == SumFunction([g \in s |-> c[g + 1].income.fee])
           stakes(s) == SumFunction([g \in s |-> c[g + 1].income.stake])
<1>1. ASSUME NEW a \in Int, NEW b \in Int, 0 <= a, b <= h
      PROVE  fees(a..b) = Part(F, a, b) /\ stakes(a..b) = Part(S, a, b)
  <2>1. \A g \in a..b : g \in 0..h
    BY <1>1
  <2>2. /\ [g \in a..b |-> c[g + 1].income.fee] = [g \in a..b |-> F[g]]
        /\ [g \in a..b |-> c[g + 1].income.stake] = [g \in a..b |-> S[g]]
    BY <2>1
  <2> QED
    BY <2>2 DEF Part
<1>2. ASSUME NEW p \in 2..Len(stats)
      PROVE  LET size  == WindowSize[p - 2]
                 first == h - (h % size)
             IN  /\ fees(first..h) = Part(F, first, h)
                 /\ stakes(first..h) = Part(S, first, h)
                 /\ fees((first - size)..(first - 1)) = Part(F, first - size, first - 1)
                 /\ stakes((first - size)..(first - 1)) = Part(S, first - size, first - 1)
  <2> DEFINE size  == WindowSize[p - 2]
             r     == h % size
             first == h - r
             top   == first - 1
             low   == first - size
  <2>1. size \in Nat \ {0} /\ size <= h
    BY WindowFits
  <2> HIDE DEF size
  <2>2. r \in 0..(size - 1) /\ first >= size
    BY <2>1, ModNext
  <2> HIDE DEF r
  <2>3. /\ first \in Int /\ 0 <= first /\ h \in Int /\ h <= h
        /\ low \in Int /\ 0 <= low /\ top \in Int /\ top <= h
    BY <2>1, <2>2
  <2> HIDE DEF first, top, low
  <2>4. fees(first..h) = Part(F, first, h) /\ stakes(first..h) = Part(S, first, h)
    BY <1>1, <2>3
  <2>5. fees(low..top) = Part(F, low, top) /\ stakes(low..top) = Part(S, low, top)
    BY <1>1, <2>3
  <2> QED
    BY <2>4, <2>5 DEF low, top, first, r, size
<1>3. fees(0..h) = Part(F, 0, h) /\ stakes(0..h) = Part(S, 0, h)
  <2> DEFINE z == 0
  <2>1. z \in Int /\ 0 <= z /\ h \in Int /\ h <= h
    OBVIOUS
  <2> HIDE DEF z
  <2>2. fees(z..h) = Part(F, z, h) /\ stakes(z..h) = Part(S, z, h)
    BY <1>1, <2>1
  <2> QED
    BY <2>2 DEF z
<1>4. ChainExact(c, h, stats) <=>
        /\ stats[1].fee = fees(0..h)
        /\ stats[1].stake = stakes(0..h)
        /\ \A p \in 2..Len(stats) :
              LET size  == WindowSize[p - 2]
                  first == h - (h % size)
              IN  /\ stats[p].fee = fees(first..h)
                  /\ stats[p].stake = stakes(first..h)
                  /\ stats[p].prevFee = fees((first - size)..(first - 1))
                  /\ stats[p].prevStake = stakes((first - size)..(first - 1))
  BY DEF ChainExact
<1> HIDE DEF fees, stakes
<1> QED
  BY <1>2, <1>3, <1>4 DEF Exact, WindowExact

(* A block more, with the statistics of its income. *)
LEMMA ChainExactNext ==
    ASSUME NEW c, NEW h \in Nat, NEW prev, StatisticsOK(prev, h), ChainExact(c, h, prev),
           NEW d, \A i \in 1..(h + 1) : d[i] = c[i],
           \A i \in 1..(h + 2) : d[i].income.fee \in Nat \ {0} /\ d[i].income.stake \in Nat
    PROVE  ChainExact(d, h + 1, UpdateStatistics(h + 1, prev, d[h + 2].income.fee,
                                                 d[h + 2].income.stake))
<1> DEFINE F == [g \in 0..(h + 1) |-> d[g + 1].income.fee]
           S == [g \in 0..(h + 1) |-> d[g + 1].income.stake]
           k == h + 1
           fee   == d[h + 2].income.fee
           stake == d[h + 2].income.stake
           s == UpdateStatistics(h + 1, prev, fee, stake)
<1>1. k \in Nat /\ k = h + 1
  OBVIOUS
<1>2. \A g \in 0..h : /\ g + 1 \in 1..(h + 1) /\ F[g] = d[g + 1].income.fee
                      /\ S[g] = d[g + 1].income.stake
  OBVIOUS
<1>3. \A g \in 0..h : F[g] = c[g + 1].income.fee /\ S[g] = c[g + 1].income.stake
  BY <1>2
<1>4. \A g \in 0..(h + 1) : /\ F[g] = d[g + 1].income.fee /\ S[g] = d[g + 1].income.stake
                            /\ F[g] \in Nat \ {0} /\ S[g] \in Nat
  OBVIOUS
<1>5. fee = F[h + 1] /\ stake = S[h + 1] /\ fee \in Nat \ {0} /\ stake \in Nat
  <2>1. h + 1 \in 0..(h + 1) /\ (h + 1) + 1 = h + 2
    OBVIOUS
  <2> QED
    BY <1>4, <2>1
<1> HIDE DEF F, S, fee, stake
<1>6. Exact(prev, h, F, S)
  BY <1>3, ChainExactIs
<1>7. Exact(UpdateStatistics(h + 1, prev, F[h + 1], S[h + 1]), h + 1, F, S)
  BY <1>4, <1>6, ExactNext
<1>8. StatisticsOK(s, k)
  BY <1>1, <1>5, StatisticsNext
<1>9. Exact(s, k, F, S)
  BY <1>1, <1>5, <1>7
<1>10. \A g \in 0..k : F[g] = d[g + 1].income.fee /\ S[g] = d[g + 1].income.stake
  BY <1>1, <1>4
<1> HIDE DEF s, k
<1>11. ChainExact(d, k, s)
  BY <1>1, <1>8, <1>9, <1>10, ChainExactIs
<1> QED
  BY <1>1, <1>11 DEF s, fee, stake

(* Genesis. *)
LEMMA InitExact == Init => StatisticsExact
<1> SUFFICES ASSUME Init PROVE ChainExact(chain, Height, Parent.statistics)
  BY DEF ChainExact, StatisticsExact, FeesOf, StakesOf
<1> DEFINE w == Window(0, 0, 1, GenesisStake)
           s == Parent.statistics
           F == [g \in 0..0 |-> 1]
           S == [g \in 0..0 |-> GenesisStake]
           z == 0
<1>1. /\ Height = 0 /\ s = <<w>> /\ chain[1].income.fee = 1
      /\ chain[1].income.stake = GenesisStake
  <2>1. chain = <<GenesisBlock>>
    BY DEF Init
  <2>2. Len(chain) = 1 /\ chain[1] = GenesisBlock
    BY <2>1
  <2> QED
    BY <2>2 DEF Height, Parent, GenesisBlock, Last
<1>2. w.fee = 1 /\ w.stake = GenesisStake
  BY DEF Window
<1>3. GenesisStake \in Nat /\ StatisticsOK(s, 0)
  <2>1. BlockOK(Parent) /\ StatisticsOK(s, Height)
    BY InitSound, SoundIs DEF Sound
  <2>2. 1 \in 1..Len(chain)
    BY DEF Init
  <2>3. BlockOK(chain[1])
    BY <2>2, InitSound DEF Sound, ChainOK
  <2> QED
    BY <1>1, <2>1, <2>3 DEF BlockOK
<1> HIDE DEF w
<1>4. s[1] = w /\ Len(s) = 1
  BY <1>1
<1>5. /\ z \in Int /\ z \in Nat /\ F[z] = 1 /\ S[z] = GenesisStake
      /\ F[z] \in Nat /\ S[z] \in Nat /\ z = 0
      /\ \A g \in 0..z : F[g] = chain[g + 1].income.fee /\ S[g] = chain[g + 1].income.stake
  BY <1>1, <1>3
<1> HIDE DEF s, F, S, z
<1>6. Part(F, z, z) = 1 /\ Part(S, z, z) = GenesisStake
  BY <1>5, PartOne
<1>7. Exact(s, z, F, S)
  <2>1. 2..Len(s) = {}
    BY <1>4
  <2> QED
    BY <1>2, <1>4, <1>5, <1>6, <2>1 DEF Exact
<1>8. StatisticsOK(s, z)
  BY <1>3, <1>5
<1>9. PICK c : c = chain
  OBVIOUS
<1>10. ChainExact(c, z, s)
  BY <1>5, <1>7, <1>8, <1>9, ChainExactIs
<1> QED
  BY <1>1, <1>5, <1>9, <1>10 DEF s

(* Nothing is published. *)
LEMMA ExactKept ==
    ASSUME StatisticsExact, chain' = chain
    PROVE  StatisticsExact'
<1>1. Height' = Height /\ Parent' = Parent
  BY DEF Height, Parent
<1>2. PICK c : c = chain
  OBVIOUS
<1>3. PICK h : h = Height
  OBVIOUS
<1>4. PICK s : s = Parent.statistics
  OBVIOUS
<1>5. ChainExact(chain, Height, Parent.statistics)
  BY DEF ChainExact, StatisticsExact, FeesOf, StakesOf
<1>6. c = chain' /\ h = Height' /\ s = Parent'.statistics
  BY <1>1, <1>2, <1>3, <1>4
<1>7. ChainExact(chain', Height', Parent'.statistics)
  BY <1>2, <1>3, <1>4, <1>5, <1>6
<1> QED
  BY <1>7 DEF ChainExact, StatisticsExact, FeesOf, StakesOf

(* A block is published. *)
LEMMA ExactSeal ==
    ASSUME Sound, StatisticsExact, build # Idle, NEW w, NEW lost, Seal(w, lost)
    PROVE  StatisticsExact'
<1>1. PICK c : c = chain
  OBVIOUS
<1>2. PICK d : d = chain'
  OBVIOUS
<1>3. PICK h : h = Height
  OBVIOUS
<1>4. PICK prev : prev = Parent.statistics
  OBVIOUS
<1>5. PICK fee : fee = FeeIncome(build.work.receipts)
  OBVIOUS
<1>6. PICK stake : stake = build.work.world.account[Treasury].balance
  OBVIOUS
<1>7. /\ Height' = Height + 1 /\ Len(chain') = Len(chain) + 1 /\ Parent' = Sealed(w, lost)
      /\ chain'[Len(chain')] = Sealed(w, lost)
      /\ \A i \in 1..Len(chain) : chain'[i] = chain[i]
      /\ fee \in Nat \ {0} /\ stake \in Nat
  BY <1>5, <1>6, SealIs
<1>8. h \in Nat /\ Len(chain) = h + 1 /\ StatisticsOK(prev, h)
      /\ \A i \in 1..(h + 1) : BlockOK(c[i])
  <2>1. /\ Len(chain) \in Nat \ {0} /\ Height = Len(chain) - 1
        /\ StatisticsOK(Parent.statistics, Height)
    BY SoundIs DEF Sound, ChainOK, Height
  <2>2. \A i \in 1..Len(chain) : BlockOK(chain[i])
    BY DEF Sound, ChainOK
  <2> QED
    BY <1>1, <1>3, <1>4, <2>1, <2>2
<1>9. /\ Sealed(w, lost).statistics = UpdateStatistics(h + 1, prev, fee, stake)
      /\ Sealed(w, lost).income.fee = fee /\ Sealed(w, lost).income.stake = stake
  BY <1>3, <1>4, <1>5, <1>6 DEF Sealed
<1>10. /\ \A i \in 1..(h + 1) : d[i] = c[i]
       /\ d[h + 2].income.fee = fee /\ d[h + 2].income.stake = stake
       /\ Height' = h + 1
       /\ Parent'.statistics = UpdateStatistics(h + 1, prev, fee, stake)
  <2>1. (h + 1) + 1 = h + 2
    BY <1>8
  <2> QED
    BY <1>1, <1>2, <1>3, <1>7, <1>8, <1>9, <2>1
<1>11. \A i \in 1..(h + 2) : d[i].income.fee \in Nat \ {0} /\ d[i].income.stake \in Nat
  <2> SUFFICES ASSUME NEW i \in 1..(h + 2)
               PROVE  d[i].income.fee \in Nat \ {0} /\ d[i].income.stake \in Nat
    OBVIOUS
  <2>1. CASE i \in 1..(h + 1)
    BY <1>8, <1>10, <2>1 DEF BlockOK
  <2>2. CASE i = h + 2
    BY <1>7, <1>10, <2>2
  <2> QED
    BY <1>8, <2>1, <2>2
<1>12. ChainExact(c, h, prev)
  <2>1. ChainExact(chain, Height, Parent.statistics)
    BY DEF ChainExact, StatisticsExact, FeesOf, StakesOf
  <2> QED
    BY <1>1, <1>3, <1>4, <2>1
<1>13. ChainExact(d, h + 1, UpdateStatistics(h + 1, prev, d[h + 2].income.fee,
                                             d[h + 2].income.stake))
  BY <1>8, <1>10, <1>11, <1>12, ChainExactNext
<1>14. ChainExact(chain', Height', Parent'.statistics)
  BY <1>2, <1>10, <1>13
<1> QED
  BY <1>14 DEF ChainExact, StatisticsExact, FeesOf, StakesOf

(* StatisticsExact: through birth, rotation and growth every entry of      *)
(* rate_window.py stays the exact sum over the blocks of its window and    *)
(* over those of the window completed before it.                           *)
THEOREM StatisticsAlwaysExact == Spec => []StatisticsExact
<1> DEFINE I == Sound /\ StatisticsExact
<1>1. Init => I
  BY InitSound, InitExact
<1>2. I /\ [Next]_vars => I'
  <2> SUFFICES ASSUME I, [Next]_vars PROVE StatisticsExact'
    BY NextSound
  <2>1. CASE Publish \/ PublishUnpaid \/ PublishAnew \/ PublishOldAccounts
    <3>1. build # Idle
      BY <2>1 DEF Publish, PublishUnpaid, PublishAnew, PublishOldAccounts, Seal, Idle
    <3>2. PICK w, lost : Seal(w, lost)
      BY <2>1 DEF Publish, PublishUnpaid, PublishAnew, PublishOldAccounts
    <3> QED
      BY <3>1, <3>2, ExactSeal
  <2>2. CASE ~(Publish \/ PublishUnpaid \/ PublishAnew \/ PublishOldAccounts)
    <3>1. chain' = chain
      BY <2>2 DEF Next, Submit, StartBlock, StartWithoutStake, StartWithoutStorage,
                  StartWithoutNode, Start, ApplyNext, SkipNext, SkipUnread, ApplyToUnread,
                  BreakOff, Continue, Drop, vars
    <3> QED
      BY <3>1, ExactKept
  <2> QED
    BY <2>1, <2>2
<1>3. I => StatisticsExact
  OBVIOUS
<1> QED
  BY <1>1, <1>2, <1>3, PTL DEF Spec

-----------------------------------------------------------------------------
(* The tree of an era.                                                     *)

LEMMA DivIs ==
    ASSUME NEW n \in Nat, NEW k \in Nat \ {0}
    PROVE  n = k * (n \div k) + (n % k) /\ n % k \in 0..(k - 1) /\ n \div k \in Nat
OBVIOUS

(* Heights and eras. *)
LEMMA EraIs ==
    ASSUME NEW h \in Nat
    PROVE  /\ EraSize \in Nat /\ EraSize > 0
           /\ h % EraSize \in 0..(EraSize - 1) /\ Era(h) \in Nat
           /\ h = EraSize * Era(h) + (h % EraSize)
           /\ (h + 1) % EraSize # 0 => /\ Era(h + 1) = Era(h)
                                       /\ (h + 1) % EraSize = (h % EraSize) + 1
           /\ (h + 1) % EraSize = 0 => \A g \in 0..h : Era(g) # Era(h + 1)
<1> DEFINE d == EraSize
           q == h \div d
           r == h % d
           p == (h + 1) \div d
           s == (h + 1) % d
<1>1. d \in Nat \ {0}
  BY EraAssumption DEF EraAssumption
<1> HIDE DEF d
<1>2. h = d * q + r /\ r \in 0..(d - 1) /\ q \in Nat
  BY <1>1
<1>3. h + 1 = d * p + s /\ s \in 0..(d - 1) /\ p \in Nat
  BY <1>1
<1>4. d * p \in Int /\ d * q \in Int
  BY <1>1, <1>2, <1>3
<1>5. ASSUME s = 0, NEW g \in 0..h PROVE g \div d # p
  <2> DEFINE x == g \div d
             y == g % d
  <2>1. g = d * x + y /\ y \in 0..(d - 1)
    BY <1>1
  <2> HIDE DEF x, y, p, s
  <2>2. x # p
    BY <1>1, <1>3, <1>4, <1>5, <2>1
  <2> QED
    BY <2>2 DEF x
<1> HIDE DEF q, r, p, s
<1>6. ~(p < q)
  <2> SUFFICES ASSUME p < q PROVE FALSE
    OBVIOUS
  <2>1. d * p + d <= d * q
    BY <1>1, <1>2, <1>3, Times
  <2> QED
    BY <1>1, <1>2, <1>3, <1>4, <2>1
<1>7. s # 0 => p = q /\ s = r + 1
  <2>1. CASE p = q
    <3>1. d * p = d * q
      BY <2>1
    <3> QED
      BY <1>2, <1>3, <1>4, <2>1, <3>1
  <2>2. CASE p > q
    <3>1. d * q + d <= d * p
      BY <1>1, <1>2, <1>3, <2>2, Times
    <3> QED
      BY <1>1, <1>2, <1>3, <1>4, <3>1
  <2> QED
    BY <1>2, <1>3, <1>6, <2>1, <2>2
<1>8. Era(h) = q /\ Era(h + 1) = p /\ \A g \in 0..h : Era(g) = g \div d
  BY DEF Era, d, q, p
<1>9. h % EraSize = r /\ (h + 1) % EraSize = s /\ EraSize = d
  BY DEF d, r, s
<1>10. s = 0 => \A g \in 0..h : Era(g) # Era(h + 1)
  BY <1>5, <1>8
<1>11. h = EraSize * Era(h) + (h % EraSize)
  <2>1. EraSize \in Nat \ {0}
    BY <1>1, <1>9
  <2>2. h = EraSize * (h \div EraSize) + (h % EraSize)
    BY <2>1, DivIs
  <2> QED
    BY <2>2 DEF Era
<1>12. /\ EraSize \in Nat /\ EraSize > 0 /\ h % EraSize \in 0..(EraSize - 1)
       /\ Era(h) \in Nat
  BY <1>1, <1>2, <1>8, <1>9
<1>13. s # 0 => Era(h + 1) = Era(h) /\ s = (h % EraSize) + 1
  BY <1>7, <1>8, <1>9
<1> QED
  BY <1>9, <1>10, <1>11, <1>12, <1>13

LEMMA EraGrows ==
    ASSUME NEW z \in Nat, NEW h \in 0..z
    PROVE  Era(h) \in 0..Era(z)
<1>1. PICK d : d = EraSize
  OBVIOUS
<1>2. h \in Nat /\ d \in Nat \ {0}
  BY <1>1, EraAssumption DEF EraAssumption
<1>3. PICK a, b, r, s : a = Era(h) /\ b = Era(z) /\ r = h % EraSize /\ s = z % EraSize
  OBVIOUS
<1>4. /\ h = d * a + r /\ r \in 0..(d - 1) /\ a \in Nat
      /\ z = d * b + s /\ s \in 0..(d - 1) /\ b \in Nat
  BY <1>1, <1>2, <1>3, EraIs
<1>5. ~(b < a)
  <2> SUFFICES ASSUME b < a PROVE FALSE
    OBVIOUS
  <2>1. d * b + d <= d * a
    BY <1>2, <1>4, Times
  <2>2. d * b \in Int /\ d * a \in Int
    BY <1>2, <1>4
  <2> QED
    BY <1>2, <1>4, <2>1, <2>2
<1> QED
  BY <1>3, <1>4, <1>5

(* Division keeps the order. *)
LEMMA DivGrows ==
    ASSUME NEW w \in Nat \ {0}, NEW a \in Nat, NEW b \in Nat, a <= b
    PROVE  a \div w <= b \div w
<1> DEFINE p == a \div w
           q == b \div w
           r == a % w
           s == b % w
<1>1. a = w * p + r /\ r \in 0..(w - 1) /\ p \in Nat
  OBVIOUS
<1>2. b = w * q + s /\ s \in 0..(w - 1) /\ q \in Nat
  OBVIOUS
<1> HIDE DEF p, q, r, s
<1>3. ~(q < p)
  <2> SUFFICES ASSUME q < p PROVE FALSE
    OBVIOUS
  <2>1. w * q + w <= w * p
    BY <1>1, <1>2, Times
  <2>2. w * q \in Int /\ w * p \in Int
    BY <1>1, <1>2
  <2> QED
    BY <1>1, <1>2, <2>1, <2>2
<1>4. p <= q
  BY <1>1, <1>2, <1>3
<1> QED
  BY <1>4 DEF p, q

(* The path to a leaf. *)
LEMMA PathIs ==
    ASSUME NEW o \in Nat
    PROVE  /\ Leaf(o) \in Path(o)
           /\ \A p \in Nat : Leaf(o) \in Path(p) => p = o
           /\ \A p \in 0..o : Path(p) \cap Path(o + 1) \subseteq Path(o)
<1>1. Widths \subseteq Nat \ {0} /\ 1 \in Widths
  <2>1. EraSize \in Nat \ {0}
    BY EraIs
  <2>2. EraSize % 1 = 0
    BY <2>1
  <2> QED
    BY <2>1, <2>2 DEF Widths
<1>2. \A p \in Nat : p \div 1 = p
  OBVIOUS
<1>3. Leaf(o) \in Path(o)
  BY <1>1, <1>2 DEF Leaf, Path
<1>4. ASSUME NEW p \in Nat, Leaf(o) \in Path(p) PROVE p = o
  <2>1. PICK w \in Widths : <<1, o>> = <<w, p \div w>>
    BY <1>4 DEF Leaf, Path
  <2>2. w = 1 /\ o = p \div w
    BY <2>1
  <2> QED
    BY <1>2, <2>2
<1>5. ASSUME NEW p \in 0..o, NEW n \in Path(p) \cap Path(o + 1) PROVE n \in Path(o)
  <2>1. PICK w \in Widths : n = <<w, p \div w>>
    BY <1>5 DEF Path
  <2>2. PICK v \in Widths : n = <<v, (o + 1) \div v>>
    BY <1>5 DEF Path
  <2>3. w = v /\ p \div w = (o + 1) \div w
    BY <2>1, <2>2
  <2>4. p \div w = o \div w
    <3>1. w \in Nat \ {0} /\ p \in Nat /\ o + 1 \in Nat /\ p <= o /\ o <= o + 1
      BY <1>1
    <3>2. PICK x, y, z : x = p \div w /\ y = o \div w /\ z = (o + 1) \div w
      OBVIOUS
    <3>3. x <= y
      BY <3>1, <3>2, DivGrows
    <3>4. y <= z
      BY <3>1, <3>2, DivGrows
    <3>5. x \in Nat /\ y \in Nat
      BY <3>1, <3>2, DivIs
    <3>6. x = z
      BY <2>3, <3>2
    <3> QED
      BY <3>2, <3>3, <3>4, <3>5, <3>6
  <2> QED
    BY <2>1, <2>4 DEF Path
<1> QED
  BY <1>3, <1>4, <1>5

IsTree(t) == t = [filter |-> t.filter, start |-> t.start,
                  loaded |-> t.loaded, blank |-> t.blank, hollow |-> t.hollow]

(* A tree at height h has nodes on the paths of blocks up to h only, and   *)
(* its leaves name their blocks or none; that of h, whose id comes later,  *)
(* names none.                                                             *)
Placed(t, h) ==
    /\ IsTree(t)
    /\ \A n \in Nodes(t) : \E p \in 0..(h % EraSize) : n \in Path(p)
    /\ DOMAIN t.start = Leaves(t)
    /\ \A p \in Leaves(t) :
          \/ t.start[p] = NoStart
          \/ p # h % EraSize /\ t.start[p] = EraSize * Era(h) + p

(* Every leaf but the last names its block, and no node is blank. *)
Complete(t, h) ==
    /\ t.blank = {}
    /\ \A p \in Leaves(t) : p # h % EraSize => t.start[p] = EraSize * Era(h) + p

(* What is in memory suffices to insert at height h. *)
InMemory(t, h) == Path(h % EraSize) \cap Nodes(t) \subseteq t.loaded

(* The element of a block at height h is in the filters down to its leaf. *)
Holds(t, h, x) == \A n \in Path(h % EraSize) : n \in Nodes(t) /\ x \in t.filter[n]

LEMMA EmptyIs ==
    ASSUME NEW h \in Nat
    PROVE  Placed(EmptyTree, h) /\ InMemory(EmptyTree, h) /\ Complete(EmptyTree, h)
<1>1. /\ EmptyTree = [filter |-> <<>>, start |-> <<>>,
                      loaded |-> {}, blank |-> {}, hollow |-> {}]
      /\ Nodes(EmptyTree) = {} /\ DOMAIN EmptyTree.start = {}
  BY DEF EmptyTree, Nodes
<1>2. Leaves(EmptyTree) = {}
  BY <1>1 DEF Leaves
<1> QED
  BY <1>1, <1>2 DEF Placed, IsTree, InMemory, Complete

(* Leaves of a tree at height h are at most as far as h. *)
LEMMA LeafPlaced ==
    ASSUME NEW h \in Nat, NEW t, Placed(t, h), NEW p \in Leaves(t)
    PROVE  p \in 0..(h % EraSize)
<1>1. p \in Nat /\ Leaf(p) \in Nodes(t) /\ h % EraSize \in Nat
  BY EraIs DEF Leaves
<1>2. PICK q \in 0..(h % EraSize) : Leaf(p) \in Path(q)
  BY <1>1 DEF Placed
<1>3. q = p
  BY <1>1, <1>2, PathIs
<1> QED
  BY <1>3

(* u has nodes of t only, with leaves that name what they named in t. *)
Within(u, t) ==
    /\ Nodes(u) \subseteq Nodes(t)
    /\ DOMAIN u.start = Leaves(u)
    /\ \A p \in Leaves(u) : p \in Leaves(t) /\ u.start[p] = t.start[p]

(* It has all of them, with the same filters. *)
Alike(u, t) ==
    /\ Nodes(u) = Nodes(t)
    /\ \A n \in Nodes(t) : u.filter[n] = t.filter[n]

(* Nodes lose their contents. *)
LEMMA BlankedIs ==
    ASSUME NEW t, IsTree(t), DOMAIN t.start = Leaves(t), NEW gone
    PROVE  LET u == Blanked(t, gone)
           IN  /\ IsTree(u) /\ Within(u, t) /\ (gone = {} => Alike(u, t))
               /\ u.loaded = t.loaded /\ u.blank = t.blank /\ u.hollow = t.hollow
<1> DEFINE kept == {n \in Nodes(t) : \A b \in gone : ~Below(n, b)}
           f    == [n \in kept |-> IF n \in gone THEN {} ELSE t.filter[n]]
           D    == {p \in DOMAIN t.start : Leaf(p) \in kept}
           s    == [p \in D |-> t.start[p]]
           u    == Blanked(t, gone)
<1>1. u = [t EXCEPT !.filter = f, !.start = s]
  BY DEF Blanked
<1>2. DOMAIN f = kept /\ DOMAIN s = D /\ \A p \in D : s[p] = t.start[p]
  OBVIOUS
<1>3. gone = {} => \A n \in kept : f[n] = t.filter[n]
  OBVIOUS
<1>4. kept \subseteq Nodes(t) /\ (gone = {} => kept = Nodes(t))
  OBVIOUS
<1>5. D = {p \in 0..(EraSize - 1) : Leaf(p) \in kept} /\ D \subseteq Leaves(t)
  BY <1>4 DEF Leaves
<1> HIDE DEF f, s, kept, D, u
<1>6. /\ IsTree(u) /\ u.filter = f /\ u.start = s
      /\ u.loaded = t.loaded /\ u.blank = t.blank /\ u.hollow = t.hollow
  BY <1>1 DEF IsTree
<1>7. Nodes(u) = kept /\ Leaves(u) = D
  BY <1>2, <1>5, <1>6 DEF Nodes, Leaves
<1>8. Within(u, t)
  BY <1>2, <1>4, <1>5, <1>6, <1>7 DEF Within
<1>9. gone = {} => Alike(u, t)
  BY <1>3, <1>4, <1>6, <1>7 DEF Alike
<1> QED
  BY <1>6, <1>8, <1>9 DEF u

(* Nodes are written again. *)
LEMMA RewrittenIs ==
    ASSUME NEW t, IsTree(t), DOMAIN t.start = Leaves(t), NEW passed
    PROVE  LET u == Rewritten(t, passed)
           IN  /\ IsTree(u) /\ Within(u, t) /\ u.loaded = t.loaded
               /\ t.blank = {} => Alike(u, t) /\ u.blank = {}
<1> DEFINE named == {n \in t.blank : Above(n) \in passed}
           v     == Blanked(t, named)
           u     == Rewritten(t, passed)
<1>1. u = [v EXCEPT !.blank = @ \ named, !.hollow = @ \cup (named \ passed)]
  BY DEF Rewritten
<1>2. t.blank = {} => named = {}
  OBVIOUS
<1> HIDE DEF named
<1>3. /\ IsTree(v) /\ Within(v, t) /\ (named = {} => Alike(v, t))
      /\ v.loaded = t.loaded /\ v.blank = t.blank
  BY BlankedIs
<1> HIDE DEF u, v
<1>4. /\ IsTree(u) /\ u.filter = v.filter /\ u.start = v.start
      /\ u.loaded = v.loaded /\ u.blank = v.blank \ named
  BY <1>1, <1>3 DEF IsTree
<1>5. Nodes(u) = Nodes(v) /\ Leaves(u) = Leaves(v)
  BY <1>4 DEF Nodes, Leaves
<1>6. Within(u, t)
  BY <1>3, <1>4, <1>5 DEF Within
<1>7. t.blank = {} => Alike(u, t) /\ u.blank = {}
  BY <1>2, <1>3, <1>4, <1>5 DEF Alike
<1> QED
  BY <1>3, <1>4, <1>6, <1>7 DEF u

(* A tree is opened by the block after h. *)
LEMMA OpenedIs ==
    ASSUME NEW h \in Nat, (h + 1) % EraSize # 0, NEW t, Placed(t, h), NEW unread
    PROVE  LET u == Opened(t, h % EraSize, h, unread)
           IN  /\ Placed(u, h + 1) /\ InMemory(u, h + 1)
               /\ (unread = {} /\ Complete(t, h)) =>
                     /\ Complete(u, h + 1)
                     /\ \A g \in Nat : \A x : Holds(t, g, x) => Holds(u, g, x)
<1> DEFINE o == h % EraSize
           u == Opened(t, o, h, unread)
<1>1. /\ EraSize \in Nat /\ o \in 0..(EraSize - 1) /\ Era(h) \in Nat
      /\ h = EraSize * Era(h) + o /\ Era(h + 1) = Era(h) /\ (h + 1) % EraSize = o + 1
      /\ o + 1 \in 0..(EraSize - 1) /\ EraSize * Era(h) \in Nat
  <2>1. (h + 1) % EraSize \in 0..(EraSize - 1)
    BY EraIs
  <2>2. EraSize \in Nat /\ Era(h) \in Nat
    BY EraIs
  <2>3. EraSize * Era(h) \in Nat
    BY <2>2
  <2> QED
    BY <2>1, <2>2, <2>3, EraIs
<1> HIDE DEF o
<1>2. CASE Nodes(t) = {} \/ Root \in unread
  <2>1. u = EmptyTree
    BY <1>2 DEF Opened
  <2>2. Placed(u, h + 1) /\ InMemory(u, h + 1) /\ Complete(u, h + 1)
    BY <2>1, EmptyIs
  <2>3. ASSUME unread = {}, NEW g \in Nat, NEW x, Holds(t, g, x) PROVE FALSE
    <3>1. Leaf(g % EraSize) \in Path(g % EraSize)
      BY EraIs, PathIs
    <3> QED
      BY <1>2, <2>3, <3>1 DEF Holds
  <2> QED
    BY <2>2, <2>3 DEF o
<1>3. CASE ~(Nodes(t) = {} \/ Root \in unread)
  <2> DEFINE gone == unread \cap Path(o) \cap Nodes(t)
             ends == gone \ {Leaf(o)}
             rest == Blanked(t, gone \ ends)
             D    == DOMAIN rest.start
             z    == [p \in D |-> IF p = o /\ ends = {} THEN h ELSE rest.start[p]]
  <2>1. u = [rest EXCEPT !.start  = z,
                         !.loaded = Path(o) \cap Nodes(t),
                         !.blank  = ends,
                         !.hollow = {}]
    BY <1>3 DEF Opened
  <2>2. unread = {} => gone = {} /\ ends = {} /\ gone \ ends = {}
    OBVIOUS
  <2>3. \A p \in D : z[p] = IF p = o /\ ends = {} THEN h ELSE rest.start[p]
    OBVIOUS
  <2>4. DOMAIN z = D
    OBVIOUS
  <2> HIDE DEF gone, ends, z
  <2>5. IsTree(rest) /\ Within(rest, t) /\ (gone \ ends = {} => Alike(rest, t))
    BY BlankedIs DEF Placed
  <2> HIDE DEF u, rest
  <2>6. /\ IsTree(u) /\ u.filter = rest.filter /\ u.start = z
        /\ u.loaded = Path(o) \cap Nodes(t) /\ u.blank = ends
    BY <2>1, <2>5 DEF IsTree
  <2>7. /\ Nodes(u) = Nodes(rest) /\ Leaves(u) = Leaves(rest) /\ Nodes(u) \subseteq Nodes(t)
        /\ D = Leaves(rest) /\ Leaves(rest) \subseteq Leaves(t)
        /\ \A p \in D : rest.start[p] = t.start[p]
    BY <2>5, <2>6 DEF Nodes, Leaves, Within
  <2> HIDE DEF D
  <2>8. ASSUME NEW p \in Leaves(u)
        PROVE  /\ p \in 0..o /\ p # o + 1 /\ p \in Leaves(t)
               /\ u.start[p] = IF p = o /\ ends = {} THEN h ELSE t.start[p]
               /\ t.start[p] = NoStart \/ (p # o /\ t.start[p] = EraSize * Era(h) + p)
    <3>1. p \in Leaves(t)
      BY <2>7, <2>8
    <3>2. p \in 0..o
      BY <3>1, LeafPlaced DEF o
    <3> QED
      BY <1>1, <2>3, <2>6, <2>7, <2>8, <3>1, <3>2 DEF Placed, o
  <2>9. Placed(u, h + 1)
    <3>1. \A n \in Nodes(u) : \E p \in 0..((h + 1) % EraSize) : n \in Path(p)
      <4> SUFFICES ASSUME NEW n \in Nodes(u)
                   PROVE  \E p \in 0..((h + 1) % EraSize) : n \in Path(p)
        OBVIOUS
      <4>1. PICK p \in 0..o : n \in Path(p)
        BY <2>7 DEF Placed, o
      <4>2. p \in 0..((h + 1) % EraSize)
        BY <1>1
      <4> QED
        BY <4>1, <4>2
    <3>2. ASSUME NEW p \in Leaves(u)
          PROVE  \/ u.start[p] = NoStart
                 \/ p # (h + 1) % EraSize /\ u.start[p] = EraSize * Era(h + 1) + p
      BY <1>1, <2>8
    <3>3. DOMAIN u.start = Leaves(u)
      BY <2>4, <2>6, <2>7
    <3> QED
      BY <2>6, <3>1, <3>2, <3>3 DEF Placed
  <2>10. InMemory(u, h + 1)
    <3> SUFFICES ASSUME NEW n \in Nodes(t), n \in Path(o + 1) PROVE n \in Path(o)
      BY <1>1, <2>6, <2>7 DEF InMemory
    <3>1. PICK p \in 0..o : n \in Path(p)
      BY DEF Placed, o
    <3>2. o \in Nat
      BY <1>1
    <3> QED
      BY <3>1, <3>2, PathIs
  <2>11. ASSUME unread = {}, Complete(t, h) PROVE Complete(u, h + 1)
    <3>1. ends = {} /\ u.blank = {}
      BY <2>2, <2>6, <2>11
    <3>2. ASSUME NEW p \in Leaves(u) PROVE u.start[p] = EraSize * Era(h + 1) + p
      <4>1. p # o => t.start[p] = EraSize * Era(h) + p
        BY <2>8, <2>11 DEF Complete, o
      <4> QED
        BY <1>1, <2>8, <3>1, <4>1
    <3> QED
      BY <3>1, <3>2 DEF Complete
  <2>12. ASSUME unread = {}, NEW g \in Nat, NEW x, Holds(t, g, x) PROVE Holds(u, g, x)
    <3>1. Alike(rest, t)
      BY <2>2, <2>5, <2>12
    <3> QED
      BY <2>6, <2>7, <2>12, <3>1 DEF Holds, Alike
  <2> QED
    BY <2>9, <2>10, <2>11, <2>12 DEF u, o
<1> QED
  BY <1>2, <1>3

(* A block at height h inserts an element: nothing is lost. *)
LEMMA InsertedIs ==
    ASSUME NEW h \in Nat, NEW t, Placed(t, h), InMemory(t, h), NEW x
    PROVE  LET u == Inserted(t, h % EraSize, x)
           IN  /\ Placed(u, h) /\ InMemory(u, h) /\ Holds(u, h, x)
               /\ Complete(t, h) =>
                     /\ Complete(u, h)
                     /\ \A g \in Nat : \A y : Holds(t, g, y) => Holds(u, g, y)
<1> DEFINE o    == h % EraSize
           u    == Inserted(t, o, x)
           base == Rewritten(t, Path(o))
           rest == Blanked(base, (Path(o) \cap Nodes(base)) \ t.loaded)
           f    == [n \in Nodes(rest) \cup Path(o) |->
                       (IF n \in Nodes(rest) THEN rest.filter[n] ELSE {})
                           \cup (IF n \in Path(o) THEN {x} ELSE {})]
           s    == [p \in DOMAIN rest.start \cup {o} |->
                       IF p \in DOMAIN rest.start THEN rest.start[p] ELSE NoStart]
<1>1. EraSize \in Nat /\ o \in 0..(EraSize - 1) /\ o \in Nat
  BY EraIs
<1>2. /\ IsTree(base) /\ Within(base, t) /\ base.loaded = t.loaded
      /\ t.blank = {} => Alike(base, t) /\ base.blank = {}
  BY RewrittenIs DEF Placed
<1>3. u = [rest EXCEPT !.filter = f, !.start = s, !.loaded = @ \cup Path(o)]
  BY DEF Inserted, Nodes
<1> HIDE DEF base, o
<1>4. (Path(o) \cap Nodes(base)) \ t.loaded = {}
  BY <1>2 DEF InMemory, Within, o
<1>5. /\ IsTree(rest) /\ Within(rest, base) /\ Alike(rest, base)
      /\ rest.loaded = base.loaded /\ rest.blank = base.blank
  BY <1>2, <1>4, BlankedIs DEF Within
<1>6. /\ DOMAIN f = Nodes(rest) \cup Path(o)
      /\ \A n \in Nodes(rest) : \A y \in rest.filter[n] : y \in f[n]
      /\ \A n \in Path(o) : x \in f[n]
      /\ DOMAIN s = DOMAIN rest.start \cup {o}
      /\ \A p \in DOMAIN rest.start : s[p] = rest.start[p]
      /\ o \notin DOMAIN rest.start => s[o] = NoStart
  OBVIOUS
<1> HIDE DEF u, rest, f, s
<1>7. /\ IsTree(u) /\ u.filter = f /\ u.start = s /\ u.loaded = rest.loaded \cup Path(o)
      /\ u.blank = rest.blank
  BY <1>3, <1>5 DEF IsTree
<1>8. Nodes(u) = Nodes(rest) \cup Path(o) /\ DOMAIN rest.start = Leaves(rest)
  BY <1>5, <1>6, <1>7 DEF Nodes, Within
<1>9. Leaves(u) = Leaves(rest) \cup {o}
  <2>1. Leaf(o) \in Path(o) /\ \A p \in Nat : Leaf(p) \in Path(o) => p = o
    BY <1>1, PathIs
  <2>2. \A p \in 0..(EraSize - 1) : p \in Nat
    BY <1>1
  <2> QED
    BY <1>1, <1>8, <2>1, <2>2 DEF Leaves
<1>10. /\ Nodes(rest) \subseteq Nodes(t)
       /\ \A p \in Leaves(rest) : p \in Leaves(t) /\ rest.start[p] = t.start[p]
  BY <1>2, <1>5 DEF Within
<1>11. ASSUME NEW p \in Leaves(u)
       PROVE  \/ p = o /\ u.start[p] = NoStart
              \/ p \in Leaves(t) /\ u.start[p] = t.start[p]
  BY <1>6, <1>7, <1>8, <1>9, <1>10, <1>11
<1>12. Placed(u, h)
  <2>1. \A n \in Nodes(u) : \E p \in 0..o : n \in Path(p)
    <3>1. o \in 0..o
      BY <1>1
    <3> QED
      BY <1>8, <1>10, <3>1 DEF Placed, o
  <2>2. \A p \in Leaves(u) : \/ u.start[p] = NoStart
                             \/ p # o /\ u.start[p] = EraSize * Era(h) + p
    BY <1>11 DEF Placed, o
  <2> QED
    BY <1>6, <1>7, <1>8, <1>9, <2>1, <2>2 DEF Placed, o
<1>13. InMemory(u, h) /\ Holds(u, h, x)
  <2>1. InMemory(u, h)
    BY <1>7 DEF InMemory, o
  <2>2. Holds(u, h, x)
    BY <1>6, <1>7, <1>8 DEF Holds, o
  <2> QED
    BY <2>1, <2>2
<1>14. ASSUME Complete(t, h) PROVE Complete(u, h)
  BY <1>2, <1>5, <1>7, <1>11, <1>14 DEF Complete, o
<1>15. ASSUME Complete(t, h), NEW g \in Nat, NEW y, Holds(t, g, y) PROVE Holds(u, g, y)
  <2>1. Alike(base, t)
    BY <1>2, <1>15 DEF Complete
  <2>2. Nodes(rest) = Nodes(t) /\ \A n \in Nodes(t) : rest.filter[n] = t.filter[n]
    BY <1>5, <2>1 DEF Alike
  <2> QED
    BY <1>6, <1>7, <1>8, <1>15, <2>2 DEF Holds
<1> QED
  BY <1>12, <1>13, <1>14, <1>15 DEF u, o

(* The tree is stored with a block at height h. *)
LEMMA StoredIs ==
    ASSUME NEW h \in Nat, NEW t, Placed(t, h)
    PROVE  LET u == Stored(t)
           IN  /\ Placed(u, h)
               /\ Complete(t, h) =>
                     /\ Complete(u, h)
                     /\ \A g \in Nat : \A y : Holds(t, g, y) => Holds(u, g, y)
<1> DEFINE u    == Stored(t)
           rest == Rewritten(t, {Root})
<1>1. u = [rest EXCEPT !.blank = {}, !.loaded = {}]
  BY DEF Stored
<1>2. IsTree(rest) /\ Within(rest, t) /\ (t.blank = {} => Alike(rest, t))
  BY RewrittenIs DEF Placed
<1> HIDE DEF u, rest
<1>3. IsTree(u) /\ u.filter = rest.filter /\ u.start = rest.start /\ u.blank = {}
  BY <1>1, <1>2 DEF IsTree
<1>4. Nodes(u) = Nodes(rest) /\ Leaves(u) = Leaves(rest)
  BY <1>3 DEF Nodes, Leaves
<1>5. /\ Nodes(u) \subseteq Nodes(t) /\ DOMAIN u.start = Leaves(u)
      /\ \A p \in Leaves(u) : p \in Leaves(t) /\ u.start[p] = t.start[p]
  BY <1>2, <1>3, <1>4 DEF Within
<1>6. Placed(u, h)
  BY <1>3, <1>5 DEF Placed
<1>7. ASSUME Complete(t, h) PROVE Complete(u, h)
  BY <1>3, <1>5, <1>7 DEF Complete
<1>8. ASSUME Complete(t, h), NEW g \in Nat, NEW y, Holds(t, g, y) PROVE Holds(u, g, y)
  <2>1. Alike(rest, t)
    BY <1>2, <1>8 DEF Complete
  <2> QED
    BY <1>3, <1>4, <1>8, <2>1 DEF Holds, Alike
<1> QED
  BY <1>6, <1>7, <1>8 DEF u

-----------------------------------------------------------------------------
(* The trees of a chain c.                                                 *)

(* No builder of the era of h lacked a node, up to height z. *)
Whole(c, h, z) == \A g \in 0..z : Era(g) = Era(h) => "node" \notin c[g + 1].lost

(* The tree at height h names its blocks and holds what is in the blocks   *)
(* of the era, up to height z.                                             *)
Covered(c, t, h, z) ==
    /\ Complete(t, h)
    /\ \A g \in 0..z : Era(g) = Era(h) =>
          \A i \in DOMAIN c[g + 1].txs : Holds(t, g, c[g + 1].txs[i])

ChainTrees(c, z) ==
    \A h \in 0..z : Placed(c[h + 1].tree, h) /\ (Whole(c, h, h) => Covered(c, c[h + 1].tree, h, h))

(* The tree of the block under work at height z + 1. *)
WorkTree(c, w, lost, z) ==
    /\ Placed(w.tree, z + 1) /\ InMemory(w.tree, z + 1)
    /\ ("node" \notin lost /\ Whole(c, z + 1, z)) =>
          /\ Covered(c, w.tree, z + 1, z)
          /\ \A i \in DOMAIN w.txs : Holds(w.tree, z + 1, w.txs[i])

Trees == /\ ChainTrees(chain, Height)
         /\ build # Idle => WorkTree(chain, build.work, build.lost, Height)

(* A block is begun. *)
LEMMA BegunTree ==
    ASSUME NEW z \in Nat, NEW c, ChainTrees(c, z), NEW lost, NEW unread,
           unread = {} \/ "node" \in lost, NEW w,
           w.tree = EraTree(c[z + 1], z + 1, unread), w.txs = <<>>
    PROVE  WorkTree(c, w, lost, z)
<1> DEFINE h == z + 1
           p == c[z + 1].tree
           o == z % EraSize
<1>1. h \in Nat /\ z \in 0..z /\ (h - 1) = z
  OBVIOUS
<1>2. Placed(p, z) /\ (Whole(c, z, z) => Covered(c, p, z, z))
  BY <1>1 DEF ChainTrees
<1>3. DOMAIN w.txs = {}
  OBVIOUS
<1>4. CASE h % EraSize = 0
  <2>1. w.tree = EmptyTree
    BY <1>4 DEF EraTree
  <2>2. \A g \in 0..z : Era(g) # Era(h)
    BY <1>4, EraIs
  <2> QED
    BY <1>1, <1>3, <2>1, <2>2, EmptyIs DEF WorkTree, Covered
<1>5. CASE h % EraSize # 0
  <2>1. w.tree = Opened(p, o, z, unread)
    BY <1>1, <1>5 DEF EraTree
  <2>2. Era(h) = Era(z)
    BY <1>5, EraIs
  <2> HIDE DEF p, o
  <2>3. /\ Placed(w.tree, h) /\ InMemory(w.tree, h)
        /\ (unread = {} /\ Complete(p, z)) =>
              /\ Complete(w.tree, h)
              /\ \A g \in Nat : \A x : Holds(p, g, x) => Holds(w.tree, g, x)
    BY <1>2, <1>5, <2>1, OpenedIs DEF o
  <2>4. ASSUME "node" \notin lost, Whole(c, h, z) PROVE Covered(c, w.tree, h, z)
    <3>1. Covered(c, p, z, z)
      BY <1>2, <2>2, <2>4 DEF Whole
    <3>2. \A g \in 0..z : g \in Nat
      OBVIOUS
    <3> QED
      BY <2>2, <2>3, <2>4, <3>1, <3>2 DEF Covered
  <2> QED
    BY <1>3, <2>3, <2>4 DEF WorkTree
<1> QED
  BY <1>4, <1>5

(* The work goes on: an element is inserted, and its transaction is taken  *)
(* or not.                                                                 *)
LEMMA GrownTree ==
    ASSUME NEW z \in Nat, NEW c, NEW w, NEW lost, WorkTree(c, w, lost, z), NEW x, NEW v,
           v.tree = Inserted(w.tree, (z + 1) % EraSize, x),
           w.txs \in Seq(Transactions), v.txs = w.txs \/ v.txs = Append(w.txs, x), NEW more
    PROVE  WorkTree(c, v, lost \cup more, z)
<1> DEFINE h == z + 1
<1>1. h \in Nat /\ Placed(w.tree, h) /\ InMemory(w.tree, h)
  BY DEF WorkTree
<1>2. PICK t : t = w.tree
  OBVIOUS
<1> HIDE DEF h
<1>3. /\ Placed(v.tree, h) /\ InMemory(v.tree, h) /\ Holds(v.tree, h, x)
      /\ Complete(t, h) =>
            /\ Complete(v.tree, h)
            /\ \A g \in Nat : \A y : Holds(t, g, y) => Holds(v.tree, g, y)
  BY <1>1, <1>2, InsertedIs DEF h
<1>4. ASSUME "node" \notin lost, Whole(c, h, z)
      PROVE  Covered(c, v.tree, h, z) /\ \A i \in DOMAIN v.txs : Holds(v.tree, h, v.txs[i])
  <2>1. Covered(c, t, h, z) /\ \A i \in DOMAIN w.txs : Holds(t, h, w.txs[i])
    BY <1>2, <1>4 DEF WorkTree, h
  <2>2. (\A g \in 0..z : g \in Nat) /\ Complete(t, h)
    BY <2>1 DEF Covered
  <2>3. Covered(c, v.tree, h, z)
    BY <1>3, <2>1, <2>2 DEF Covered
  <2>4. ASSUME NEW i \in DOMAIN v.txs PROVE Holds(v.tree, h, v.txs[i])
    <3>1. (i \in DOMAIN w.txs /\ v.txs[i] = w.txs[i]) \/ v.txs[i] = x
      <4>1. PICK s : s = w.txs
        OBVIOUS
      <4>2. PICK r : r = v.txs
        OBVIOUS
      <4>3. s \in Seq(Transactions) /\ (r = s \/ r = Append(s, x)) /\ i \in DOMAIN r
        BY <2>4, <4>1, <4>2
      <4>4. (i \in DOMAIN s /\ r[i] = s[i]) \/ r[i] = x
        BY <4>3
      <4> QED
        BY <4>1, <4>2, <4>4
    <3> QED
      BY <1>1, <1>3, <2>1, <2>2, <3>1
  <2> QED
    BY <2>3, <2>4
<1> QED
  BY <1>3, <1>4 DEF WorkTree, h

(* It goes on with nothing inserted. *)
LEMMA SameTree ==
    ASSUME NEW z, NEW c, NEW w, NEW lost, WorkTree(c, w, lost, z), NEW more
    PROVE  WorkTree(c, w, lost \cup more, z)
BY DEF WorkTree

(* A block more. *)
LEMMA SealedTree ==
    ASSUME NEW z \in Nat, NEW c, ChainTrees(c, z), NEW w, NEW lost, WorkTree(c, w, lost, z),
           NEW d, \A i \in 1..(z + 1) : d[i] = c[i],
           NEW b, d[z + 2] = b, b.tree = Stored(w.tree), b.txs = w.txs, lost \subseteq b.lost
    PROVE  ChainTrees(d, z + 1)
<1>1. \A g \in 0..z : d[g + 1] = c[g + 1]
  OBVIOUS
<1>2. PICK h : h = z + 1
  OBVIOUS
<1>3. h \in Nat /\ d[h + 1] = b /\ \A g \in 0..h : g \in 0..z \/ g = h
  BY <1>2
<1>4. /\ Placed(b.tree, h)
      /\ Complete(w.tree, h) =>
            /\ Complete(b.tree, h)
            /\ \A g \in Nat : \A x : Holds(w.tree, g, x) => Holds(b.tree, g, x)
  <2>1. Placed(w.tree, h)
    BY <1>2 DEF WorkTree
  <2> QED
    BY <1>3, <2>1, StoredIs
<1>5. ASSUME Whole(d, h, h) PROVE Covered(d, b.tree, h, h)
  <2>1. "node" \notin lost /\ Whole(c, h, z)
    <3>1. h \in 0..h /\ \A g \in 0..z : g \in 0..h
      BY <1>2
    <3> QED
      BY <1>1, <1>3, <1>5, <3>1 DEF Whole
  <2>2. Covered(c, w.tree, h, z) /\ \A i \in DOMAIN w.txs : Holds(w.tree, h, w.txs[i])
    BY <1>2, <2>1 DEF WorkTree
  <2>3. /\ Complete(b.tree, h) /\ \A g \in 0..h : g \in Nat
        /\ \A g \in Nat : \A x : Holds(w.tree, g, x) => Holds(b.tree, g, x)
    BY <1>3, <1>4, <2>2 DEF Covered
  <2> QED
    BY <1>1, <1>3, <2>2, <2>3 DEF Covered
<1>6. ASSUME NEW g \in 0..z
      PROVE  Placed(d[g + 1].tree, g) /\ (Whole(d, g, g) => Covered(d, d[g + 1].tree, g, g))
  <2>1. Placed(c[g + 1].tree, g) /\ (Whole(c, g, g) => Covered(c, c[g + 1].tree, g, g))
    BY DEF ChainTrees
  <2>2. \A i \in 0..g : d[i + 1] = c[i + 1]
    BY <1>1
  <2> QED
    BY <1>1, <2>1, <2>2 DEF Whole, Covered
<1> QED
  BY <1>2, <1>3, <1>4, <1>5, <1>6 DEF ChainTrees

-----------------------------------------------------------------------------
(* What is found in the trees of a chain.                                  *)

(* The latest block of the era of h. *)
LEMMA TopIs ==
    ASSUME NEW z \in Nat, NEW h \in 0..z
    PROVE  /\ TopOf(Era(h), z) \in h..z /\ Era(TopOf(Era(h), z)) = Era(h)
           /\ \A g \in 0..z : Era(g) = Era(h) => g <= TopOf(Era(h), z)
<1> DEFINE S == {g \in 0..z : Era(g) = Era(h)}
           D == {z - g : g \in S}
<1>1. h \in S /\ \A g \in S : g \in Int
  OBVIOUS
<1>2. D \in SUBSET Nat /\ D # {}
  BY <1>1
<1>3. PICK m \in D : \A n \in D : m <= n
  BY <1>2, LeastNat
<1>4. PICK g \in S : m = z - g
  BY <1>3
<1>5. \A f \in S : g >= f
  <2> SUFFICES ASSUME NEW f \in S PROVE g >= f
    OBVIOUS
  <2>1. m <= z - f /\ f \in Int /\ g \in Int
    BY <1>1, <1>3
  <2> QED
    BY <1>4, <2>1
<1>6. Max(S) \in S /\ \A f \in S : Max(S) >= f
  BY <1>4, <1>5 DEF Max
<1>7. TopOf(Era(h), z) = Max(S)
  BY DEF TopOf
<1> HIDE DEF S
<1>8. PICK t : t = TopOf(Era(h), z)
  OBVIOUS
<1>9. t \in S /\ \A f \in S : t >= f
  BY <1>6, <1>7, <1>8
<1>10. t \in h..z /\ Era(t) = Era(h) /\ \A f \in 0..z : Era(f) = Era(h) => f <= t
  <2>1. t \in 0..z /\ Era(t) = Era(h)
    BY <1>9 DEF S
  <2>2. t >= h
    BY <1>1, <1>9
  <2>3. \A f \in 0..z : Era(f) = Era(h) => t >= f
    BY <1>9 DEF S
  <2> QED
    BY <2>1, <2>2, <2>3
<1> QED
  BY <1>8, <1>10

(* The leaf of h in the latest tree of its era names h, or no block. *)
LEMMA LeafIs ==
    ASSUME NEW t \in Nat, NEW h \in 0..t, Era(h) = Era(t), NEW tree, Placed(tree, t),
           h % EraSize \in Leaves(tree)
    PROVE  /\ tree.start[h % EraSize] = NoStart \/ (h # t /\ tree.start[h % EraSize] = h)
           /\ (Complete(tree, t) /\ h # t) => tree.start[h % EraSize] = h
<1>1. /\ h = EraSize * Era(t) + (h % EraSize) /\ t = EraSize * Era(t) + (t % EraSize)
      /\ EraSize * Era(t) \in Nat /\ h % EraSize \in Nat /\ t % EraSize \in Nat
  <2>1. h \in Nat
    OBVIOUS
  <2>2. EraSize \in Nat /\ Era(t) \in Nat
    BY EraIs
  <2>3. EraSize * Era(t) \in Nat
    BY <2>2
  <2>4. t = EraSize * Era(t) + (t % EraSize) /\ t % EraSize \in 0..(EraSize - 1)
    BY EraIs
  <2>5. h = EraSize * Era(t) + (h % EraSize) /\ h % EraSize \in 0..(EraSize - 1)
    BY <2>1, EraIs
  <2> QED
    BY <2>2, <2>3, <2>4, <2>5
<1>2. \/ tree.start[h % EraSize] = NoStart
      \/ /\ h % EraSize # t % EraSize
         /\ tree.start[h % EraSize] = EraSize * Era(t) + (h % EraSize)
  BY DEF Placed
<1>3. (h % EraSize = t % EraSize) <=> h = t
  BY <1>1
<1>4. (Complete(tree, t) /\ h # t) => tree.start[h % EraSize] = EraSize * Era(t) + (h % EraSize)
  BY <1>3 DEF Complete
<1> QED
  BY <1>1, <1>2, <1>3, <1>4

(* Every block is found by its height. *)
LEMMA HeightFound ==
    ASSUME ChainTrees(chain, Height), Height \in Nat, NEW h \in 0..Height
    PROVE  BlockAt(h, Height) = h
<1>1. PICK z : z = Height
  OBVIOUS
<1>2. PICK t : t = TopOf(Era(h), z)
  OBVIOUS
<1>3. t \in h..z /\ Era(t) = Era(h) /\ h \in Nat /\ t \in Nat /\ h \in 0..t
  BY <1>1, <1>2, TopIs
<1>4. PICK tree : tree = chain[t + 1].tree
  OBVIOUS
<1>5. Placed(tree, t)
  BY <1>1, <1>3, <1>4 DEF ChainTrees
<1>6. PICK s : s = StartOf(tree, h % EraSize)
  OBVIOUS
<1>7. h # t => s = NoStart \/ s = h
  BY <1>3, <1>5, <1>6, LeafIs DEF StartOf
<1>8. BlockAt(h, z) = CASE h > z -> NotFound
                        [] h = t  -> h
                        [] h < t  -> IF s = NoStart THEN h ELSE s
  BY <1>2, <1>4, <1>6 DEF BlockAt
<1>9. ~(h > z) /\ (h = t \/ h < t)
  BY <1>1, <1>3
<1> QED
  BY <1>1, <1>7, <1>8, <1>9

(* Every transaction of an era whose builders lacked no node is found. *)
LEMMA TransactionFound ==
    ASSUME ChainTrees(chain, Height), Height \in Nat, NEW h \in 0..Height,
           \A g \in 0..Height : Era(g) = Era(h) => "node" \notin chain[g + 1].lost,
           chain[h + 1].txs \in Seq(Transactions), NEW i \in DOMAIN chain[h + 1].txs
    PROVE  h \in BlocksFound(chain[h + 1].txs[i], Height)
<1>1. PICK z : z = Height
  OBVIOUS
<1>2. PICK t : t = TopOf(Era(h), z)
  OBVIOUS
<1>3. t \in h..z /\ Era(t) = Era(h) /\ h \in Nat /\ t \in Nat /\ h \in 0..t
  BY <1>1, <1>2, TopIs
<1>4. PICK tree : tree = chain[t + 1].tree
  OBVIOUS
<1>5. PICK x : x = chain[h + 1].txs[i]
  OBVIOUS
<1> DEFINE o == h % EraSize
<1>6. Placed(tree, t) /\ Complete(tree, t) /\ Holds(tree, h, x)
  <2>1. t \in 0..z /\ \A g \in 0..t : g \in 0..Height
    BY <1>1, <1>3
  <2>2. Whole(chain, t, t)
    BY <1>3, <2>1 DEF Whole
  <2>3. Placed(tree, t) /\ Covered(chain, tree, t, t)
    BY <1>1, <1>4, <2>1, <2>2 DEF ChainTrees
  <2> QED
    BY <1>3, <1>5, <2>3 DEF Covered
<1>7. o \in Hits(tree, x)
  <2>1. Leaf(o) \in Path(o) /\ o \in 0..(EraSize - 1)
    BY <1>3, EraIs, PathIs
  <2> QED
    BY <1>6, <2>1 DEF Hits, Leaves, Holds
<1>8. h = IF tree.start[o] = NoStart THEN t ELSE tree.start[o]
  <2>1. o \in Leaves(tree)
    BY <1>7 DEF Hits
  <2>2. NoStart # h
    BY <1>3 DEF NoStart
  <2> QED
    BY <1>3, <1>6, <2>1, <2>2, LeafIs
<1>9. Era(h) \in 0..Era(z)
  BY <1>1, <1>3, EraGrows
<1>10. Contains(chain[h + 1].txs, x)
  BY <1>5 DEF Contains
<1> HIDE DEF o
<1>11. h \in {IF tree.start[p] = NoStart THEN t ELSE tree.start[p] : p \in Hits(tree, x)}
  BY <1>7, <1>8
<1>12. h \in BlocksFound(x, z)
  BY <1>2, <1>4, <1>9, <1>10, <1>11 DEF BlocksFound
<1> QED
  BY <1>1, <1>5, <1>12

LEMMA TreesFind ==
    ASSUME Sound, Trees
    PROVE  SearchFinds
<1>1. Height \in Nat /\ ChainTrees(chain, Height)
  BY SoundIs DEF Trees
<1>2. \A h \in 0..Height : chain[h + 1].txs \in Seq(Transactions)
  <2>1. \A h \in 0..Height : h + 1 \in 1..Len(chain)
    BY SoundIs
  <2> QED
    BY <2>1 DEF Sound, ChainOK, BlockOK
<1>3. ASSUME NEW h \in 0..Height PROVE BlockAt(h, Height) = h
  BY <1>1, <1>3, HeightFound
<1>4. ASSUME NEW h \in 0..Height,
             \A g \in 0..Height : Era(g) = Era(h) => "node" \notin chain[g + 1].lost,
             NEW i \in DOMAIN chain[h + 1].txs
      PROVE  h \in BlocksFound(chain[h + 1].txs[i], Height)
  BY <1>1, <1>2, <1>4, TransactionFound
<1> QED
  BY <1>3, <1>4 DEF SearchFinds

-----------------------------------------------------------------------------
(* The steps.                                                              *)

LEMMA TreesFirst == Init => Trees
<1> SUFFICES ASSUME Init PROVE Trees
  OBVIOUS
<1>1. PICK b : b = GenesisBlock
  OBVIOUS
<1>2. /\ chain = <<b>> /\ build = Idle /\ b.txs = <<>> /\ b.tree = EmptyTree
  BY <1>1 DEF Init, GenesisBlock
<1>3. Height = 0 /\ chain[1] = b
  BY <1>2 DEF Height
<1>4. Placed(b.tree, 0)
  BY <1>2, EmptyIs
<1>5. Covered(chain, b.tree, 0, 0)
  <2>1. \A g \in 0..0 : chain[g + 1] = b
    BY <1>3
  <2>2. DOMAIN b.txs = {}
    BY <1>2
  <2>3. Complete(b.tree, 0)
    BY <1>2, EmptyIs
  <2> QED
    BY <2>1, <2>2, <2>3 DEF Covered
<1>6. ChainTrees(chain, Height)
  <2>1. \A h \in 0..0 : h = 0 /\ chain[h + 1] = b
    BY <1>3
  <2> QED
    BY <1>3, <1>4, <1>5, <2>1 DEF ChainTrees
<1> QED
  BY <1>2, <1>6 DEF Trees

(* A block is begun. *)
LEMMA TreesStart ==
    ASSUME Sound, Trees, NEW slots, NEW stakes, NEW storage, NEW nodes, NEW lost,
           Start(slots, stakes, storage, nodes, lost), nodes = {} \/ "node" \in lost
    PROVE  Trees'
<1>1. PICK w, cached : /\ build'.work = NoWork(w, EraTree(Parent, Height + 1, nodes), cached)
                       /\ build'.lost = lost /\ chain' = chain
  BY DEF Start
<1>2. /\ build'.work.tree = EraTree(Parent, Height + 1, nodes) /\ build'.work.txs = <<>>
  BY <1>1 DEF NoWork
<1>3. Height \in Nat /\ Parent = chain[Height + 1] /\ ChainTrees(chain, Height)
  BY SoundIs DEF Trees
<1>4. WorkTree(chain, build'.work, build'.lost, Height)
  BY <1>1, <1>2, <1>3, BegunTree
<1>5. Height' = Height
  BY <1>1 DEF Height
<1>6. PICK c : c = chain
  OBVIOUS
<1>7. PICK z : z = Height
  OBVIOUS
<1>8. ChainTrees(c, z) /\ c = chain' /\ z = Height' /\ WorkTree(c, build'.work, build'.lost, z)
  BY <1>1, <1>3, <1>4, <1>5, <1>6, <1>7
<1>9. ChainTrees(chain', Height') /\ WorkTree(chain', build'.work, build'.lost, Height')
  BY <1>8
<1> QED
  BY <1>9 DEF Trees

(* It goes on with a tree that holds what it has taken. *)
LEMMA TreesContinue ==
    ASSUME Sound, Trees, build # Idle, NEW w, NEW lost, Continue(w, lost),
           WorkTree(chain, w, build.lost \cup lost, Height)
    PROVE  Trees'
<1>1. build = [building |-> TRUE, time |-> build.time, validator |-> build.validator,
               work |-> build.work, current |-> build.current, lost |-> build.lost]
  BY DEF Sound, BuildOK
<1>2. /\ chain' = chain
      /\ build' = [build EXCEPT !.work = w, !.current = NextTx, !.lost = @ \cup lost]
  BY DEF Continue
<1>3. build'.work = w /\ build'.lost = build.lost \cup lost
  <2>1. PICK b : b = build
    OBVIOUS
  <2>2. PICK l : l = build.lost \cup lost
    OBVIOUS
  <2>3. build' = [b EXCEPT !.work = w, !.current = NextTx, !.lost = l]
    BY <1>2, <2>1, <2>2
  <2>4. b = [building |-> TRUE, time |-> b.time, validator |-> b.validator,
             work |-> b.work, current |-> b.current, lost |-> b.lost]
    BY <1>1, <2>1
  <2>5. build'.work = w /\ build'.lost = l
    BY <2>3, <2>4
  <2> QED
    BY <2>2, <2>5
<1>4. Height' = Height /\ ChainTrees(chain, Height)
  BY <1>2 DEF Height, Trees
<1>5. PICK c : c = chain
  OBVIOUS
<1>6. PICK z : z = Height
  OBVIOUS
<1>7. ChainTrees(c, z) /\ c = chain' /\ z = Height' /\ WorkTree(c, build'.work, build'.lost, z)
  BY <1>2, <1>3, <1>4, <1>5, <1>6
<1>8. ChainTrees(chain', Height') /\ WorkTree(chain', build'.work, build'.lost, Height')
  BY <1>7
<1> QED
  BY <1>8 DEF Trees

(* It takes a transaction, is broken off, or leaves one out. *)
LEMMA TreesGo ==
    ASSUME Sound, Trees, Applying, NEW w, NEW lost, Continue(w, lost),
           \/ \E unread : w = Taken(build.work, Parent, Height + 1, Current, unread)
           \/ w = BrokenOff(build.work, Parent, Height + 1, Current)
           \/ w = build.work
    PROVE  Trees'
<1>1. build # Idle /\ WorkOK(build.work)
  BY CurrentIs
<1>2. PICK u : u = build.work
  OBVIOUS
<1>3. PICK z : z = Height
  OBVIOUS
<1>4. PICK c : c = chain
  OBVIOUS
<1>5. PICK l : l = build.lost
  OBVIOUS
<1>6. PICK x : x = Current
  OBVIOUS
<1>7. z \in Nat /\ WorkTree(c, u, l, z) /\ u.txs \in Seq(Transactions)
      /\ u = [world |-> u.world, tree |-> u.tree, cached |-> u.cached,
              txs |-> u.txs, receipts |-> u.receipts, trie |-> u.trie]
  BY <1>1, <1>2, <1>3, <1>4, <1>5, SoundIs DEF Trees, WorkOK
<1>8. WorkTree(c, w, l \cup lost, z)
  <2>1. CASE w = u
    BY <1>7, <2>1, SameTree
  <2>2. ASSUME NEW unread, NEW p, w = Taken(u, p, z + 1, x, unread)
        PROVE  WorkTree(c, w, l \cup lost, z)
    <3>1. w.tree = Inserted(u.tree, (z + 1) % EraSize, x) /\ w.txs = Append(u.txs, x)
      BY <2>2 DEF Taken
    <3> QED
      BY <1>7, <3>1, GrownTree
  <2>3. ASSUME NEW p, w = BrokenOff(u, p, z + 1, x) PROVE WorkTree(c, w, l \cup lost, z)
    <3>1. PICK a, b : w = [u EXCEPT !.world = a, !.tree = Inserted(@, (z + 1) % EraSize, x),
                                    !.cached = b]
      BY <2>3 DEF BrokenOff
    <3>2. PICK t : t = Inserted(u.tree, (z + 1) % EraSize, x)
      OBVIOUS
    <3>3. w = [u EXCEPT !.world = a, !.tree = t, !.cached = b]
      BY <3>1, <3>2
    <3>4. w.tree = t /\ w.txs = u.txs
      BY <1>7, <3>3
    <3> QED
      BY <1>7, <3>2, <3>4, GrownTree
  <2> QED
    BY <1>2, <1>3, <1>6, <2>1, <2>2, <2>3
<1> QED
  BY <1>1, <1>3, <1>4, <1>5, <1>8, TreesContinue

(* A block is published. *)
LEMMA TreesSeal ==
    ASSUME Sound, Trees, build # Idle, NEW world, NEW lost, Seal(world, lost)
    PROVE  Trees'
<1>1. /\ build' = Idle /\ Height' = Height + 1 /\ Len(chain') = Len(chain) + 1
      /\ chain'[Len(chain')] = Sealed(world, lost)
      /\ \A i \in 1..Len(chain) : chain'[i] = chain[i]
  BY SealIs
<1>2. Height \in Nat /\ Len(chain) = Height + 1
  BY SoundIs
<1>3. PICK c, d, z, w, l, b : /\ c = chain /\ d = chain' /\ z = Height /\ w = build.work
                              /\ l = build.lost /\ b = Sealed(world, lost)
  OBVIOUS
<1>4. b.tree = Stored(w.tree) /\ b.txs = w.txs /\ l \subseteq b.lost
  BY <1>3 DEF Sealed
<1>5. /\ ChainTrees(c, z) /\ WorkTree(c, w, l, z) /\ z \in Nat
      /\ \A i \in 1..(z + 1) : d[i] = c[i]
      /\ d[z + 2] = b
  <2>1. (Height + 1) + 1 = Height + 2
    BY <1>2
  <2> QED
    BY <1>1, <1>2, <1>3, <2>1 DEF Trees
<1>6. ChainTrees(d, z + 1)
  BY <1>4, <1>5, SealedTree
<1>7. ChainTrees(chain', Height')
  BY <1>1, <1>3, <1>6
<1> QED
  BY <1>1, <1>7 DEF Trees

LEMMA TreesNext == Sound /\ Trees /\ [Next]_vars => Trees'
<1> SUFFICES ASSUME Sound, Trees, [Next]_vars PROVE Trees'
  OBVIOUS
<1>1. ASSUME chain' = chain, build' = build \/ build' = Idle PROVE Trees'
  <2>1. Height' = Height
    BY <1>1 DEF Height
  <2>2. PICK c, z, b : c = chain /\ z = Height /\ b = build
    OBVIOUS
  <2>3. ChainTrees(c, z) /\ (b # Idle => WorkTree(c, b.work, b.lost, z))
    BY <2>2 DEF Trees
  <2>4. c = chain' /\ z = Height' /\ (build' = b \/ build' = Idle)
    BY <1>1, <2>1, <2>2
  <2>5. ChainTrees(chain', Height')
    BY <2>3, <2>4
  <2>6. build' # Idle => WorkTree(chain', build'.work, build'.lost, Height')
    BY <2>3, <2>4
  <2> QED
    BY <2>5, <2>6 DEF Trees
<1>2. ASSUME NEW tx, Submit(tx) PROVE Trees'
  BY <1>1, <1>2 DEF Submit
<1>3. ASSUME NEW slots, StartBlock(slots) PROVE Trees'
  BY <1>3, TreesStart DEF StartBlock
<1>4. ASSUME NEW slots, NEW v, StartWithoutStake(slots, v) PROVE Trees'
  BY <1>4, TreesStart DEF StartWithoutStake
<1>5. ASSUME NEW slots, StartWithoutStorage(slots) PROVE Trees'
  BY <1>5, TreesStart DEF StartWithoutStorage
<1>6. ASSUME NEW slots, NEW n, StartWithoutNode(slots, n) PROVE Trees'
  <2>1. "node" \in {"node"}
    OBVIOUS
  <2> QED
    BY <1>6, <2>1, TreesStart DEF StartWithoutNode
<1>7. CASE ApplyNext \/ SkipNext \/ SkipUnread \/ ApplyToUnread \/ BreakOff
  <2>1. PICK w, lost :
           /\ Applying /\ Continue(w, lost)
           /\ \/ \E unread : w = Taken(build.work, Parent, Height + 1, Current, unread)
              \/ w = BrokenOff(build.work, Parent, Height + 1, Current)
              \/ w = build.work
    BY <1>7 DEF ApplyNext, SkipNext, SkipUnread, ApplyToUnread, BreakOff
  <2> QED
    BY <2>1, TreesGo
<1>8. CASE Publish \/ PublishUnpaid \/ PublishAnew \/ PublishOldAccounts
  <2>1. build # Idle
    BY <1>8 DEF Publish, PublishUnpaid, PublishAnew, PublishOldAccounts, Seal, Idle
  <2>2. PICK w, lost : Seal(w, lost)
    BY <1>8 DEF Publish, PublishUnpaid, PublishAnew, PublishOldAccounts
  <2> QED
    BY <2>1, <2>2, TreesSeal
<1>9. CASE Drop
  BY <1>1, <1>9 DEF Drop
<1>10. CASE UNCHANGED vars
  BY <1>1, <1>10 DEF vars
<1> QED
  BY <1>2, <1>3, <1>4, <1>5, <1>6, <1>7, <1>8, <1>9, <1>10 DEF Next

(* SearchFinds: insert takes a node that is not in memory for missing      *)
(* (bloom_tree/tree.py), but what a block writes and did not load lies on  *)
(* no earlier path, so no filter is ever replaced, and the searches of     *)
(* bloom_search/ find every block and, in an era whose builders lacked no  *)
(* node, every transaction.                                                *)
THEOREM SearchAlwaysFinds == Spec => []SearchFinds
<1> DEFINE I == Sound /\ Trees
<1>1. Init => I
  BY InitSound, TreesFirst
<1>2. I /\ [Next]_vars => I'
  BY NextSound, TreesNext
<1>3. I => SearchFinds
  BY TreesFind
<1> QED
  BY <1>1, <1>2, <1>3, PTL DEF Spec
=============================================================================
